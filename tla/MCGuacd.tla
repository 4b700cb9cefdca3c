------------------------------- MODULE MCGuacd -------------------------------
EXTENDS Guacd, TLC

CONSTANTS c1, c2, c3

\* A user shares the first connection, which another one follows.
NewJoinNew == (c1 :> "new") @@ (c2 :> c1) @@ (c3 :> "new")
ThirdLater == (c1 :> {}) @@ (c2 :> {}) @@ (c3 :> {c1})
TwelveFds == 0..11    \* four for each connection

\* That no thread can take a step is what Settled says (not part of the run's
\* configuration: ENABLED takes as long to evaluate as everything else).
SettledIsStuck ==
    ~ undefined =>
        (Settled <=> ~ ENABLED (\E c \in Conns : Route(c) \/ IOEnds(c) \/ ExecProc(c) \/ UserThread(c)))
=============================================================================
