------------------------------- MODULE MCJobs -------------------------------
(* Two clients that compete for the window, in the ways recordings can end; *)
(* and three clients of which the second's ffmpeg keeps the first one's     *)
(* connection open while its number is given to the third.                  *)
EXTENDS Jobs
ThreeClients == 1..3
FiveFds == 1..5
ManyWorkloads ==
    {<<Asks("good", 1), Asks("good", 0), Never>>,
     <<Asks("malformed", 1), Asks("good", 0), Never>>,
     <<Asks("good", 0), Asks("nodir", 0), Never>>,
     <<Asks("garbage", 0), Asks("good", 0), Never>>,
     <<Asks("missing", 0), Asks("good", 0), Asks("missing", 0)>>}
TwoGood == {<<Asks("good", 0), Asks("good", 0), Never>>}
=============================================================================
