------------------------------- MODULE MCVideo -------------------------------
(* Timestamps around the frame boundaries after 1000 ms: just before, on    *)
(* and after the first one, within the third frame and several frames late; *)
(* and 0, which the video takes for "no sync yet".                          *)
EXTENDS Video
Around == {0, 1000, 1039, 1040, 1079, 1085, 1200}
=============================================================================
