------------------------------ MODULE MCTerminal ------------------------------
EXTENDS Terminal

\* Three lines and the cursor below them on three rows: one has gone to the scrollback.
ThreeLines == <<<<"a">>, <<"b", "c">>, <<"d">>>>

\* Lower, and wider and higher, than at first
ThreeSizes == {<<2, 3>>, <<2, 2>>, <<3, 4>>}

\* What comes after one of the known defects is not looked at.
Unspoilt == term.spoilt = {}
=============================================================================
