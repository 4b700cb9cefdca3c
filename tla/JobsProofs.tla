----------------------------- MODULE JobsProofs -----------------------------
(***************************************************************************)
(* That the window of the encoding server is kept, that a registration     *)
(* outlives its connection only in an ffmpeg that inherited it, and that a *)
(* job is written to after its end only if it was never told to end or its *)
(* number was left registered: for every number of clients and             *)
(* descriptors, every window and every workload.                           *)
(*                                                                         *)
(* The argument is the inductive invariant JInv of Jobs; one lemma per     *)
(* action shows that the action keeps it.  CloseFacts says what close      *)
(* leaves behind, and its two corollaries what that means for the parts of *)
(* JInv that speak of registrations.                                       *)
(***************************************************************************)
EXTENDS Jobs, FiniteSetTheorems, TLAPS

\* The groups of variables are only abbreviations.
USE DEF envvars, fdvars, evvars, reactvars, jobvars, workvars, childvars

\* The workers that hold a permit are finitely many, and their number follows
\* status_sem_hold.
LEMMA HoldersFinite == IsFiniteSet(Holders) /\ Cardinality(Holders) \in Nat
  <1>1. Holders \subseteq Clients
    BY DEF Holders
  <1> QED BY <1>1, JobsAssumption, FS_Subset, FS_CardinalityType

\* sem_wait moves one permit from the semaphore to a worker that had none.
LEMMA PermitTaken ==
    ASSUME TypeOK, PermitsAccounted, NEW c \in Clients, ~ hold[c], sem > 0,
           sem' = sem - 1, hold' = [hold EXCEPT ![c] = TRUE]
    PROVE  PermitsAccounted'
  <1>1. c \notin Holders /\ Holders' = Holders \union {c}
    BY DEF Holders, TypeOK
  <1>2. Cardinality(Holders') = Cardinality(Holders) + 1
    BY <1>1, HoldersFinite, FS_AddElement
  <1> QED BY <1>2, HoldersFinite, JobsAssumption DEF PermitsAccounted, TypeOK

\* sem_post gives back a permit the worker held, so the semaphore stays within
\* the window.
LEMMA PermitReturned ==
    ASSUME TypeOK, PermitsAccounted, NEW c \in Clients, NEW pc, hold[c], sem_post(c, pc)
    PROVE  sem' \in 0..Window /\ PermitsAccounted'
  <1>1. c \in Holders /\ Holders' = Holders \ {c}
    BY DEF Holders, TypeOK, sem_post
  <1>2. Cardinality(Holders') = Cardinality(Holders) - 1
    BY <1>1, HoldersFinite, FS_RemoveElement
  <1>3. Cardinality(Holders') \in Nat
    BY <1>1, HoldersFinite, FS_RemoveElement, FS_CardinalityType
  <1> QED
    BY <1>2, <1>3, HoldersFinite, JobsAssumption DEF PermitsAccounted, TypeOK, sem_post

\* close(n): no other number changes, and a connection of n that stays registered
\* is one that a child has open, and n is remembered as left.
LEMMA CloseFacts ==
    ASSUME JInv, NEW n \in Fds, NEW registered \in SUBSET interest, CloseWith(n, registered)
    PROVE  /\ file' \in [Fds -> {Free} \union {Conn(c) : c \in Clients}
                                     \union {Rec(c) : c \in Clients}]
           /\ file'[n] = Free
           /\ \A m \in Fds : m # n => file'[m] = file[m]
           /\ interest' \subseteq registered /\ interest' \subseteq Clients
           /\ left \subseteq left' /\ left' \subseteq left \union {n}
           /\ \A c \in interest' : file[n] = Conn(c) =>
                 n \in left' /\ \E d \in Clients : ffmpeg[d] = "running" /\ c \in held[d]
           /\ \A c \in Clients : file'[n] # Conn(c) /\ file'[n] # Rec(c)
  <1>1. /\ file' \in [Fds -> {Free} \union {Conn(c) : c \in Clients}
                                   \union {Rec(c) : c \in Clients}]
        /\ file'[n] = Free
        /\ \A m \in Fds : m # n => file'[m] = file[m]
    BY DEF JInv, TypeOK, CloseWith
  <1>2. /\ interest' \subseteq registered /\ interest' \subseteq Clients
        /\ left \subseteq left' /\ left' \subseteq left \union {n}
    BY DEF JInv, TypeOK, CloseWith
  <1>3. ASSUME NEW c \in interest', file[n] = Conn(c)
        PROVE  n \in left' /\ \E d \in Clients : ffmpeg[d] = "running" /\ c \in held[d]
    <2>1. c \in registered /\ c \in Inherited
      BY <1>3 DEF CloseWith
    <2>2. PICK d \in Clients : c \in held[d]
      BY <2>1 DEF Inherited
    <2>3. n \in left'
      BY <1>3, <2>1 DEF CloseWith
    <2> QED BY <2>2, <2>3 DEF JInv, LifeInv
  <1>4. \A c \in Clients : file'[n] # Conn(c) /\ file'[n] # Rec(c)
    BY <1>1 DEF Free, Conn, Rec
  <1> QED BY <1>1, <1>2, <1>3, <1>4

\* After close(n) every connection that stays registered is still reported to its
\* own job or kept by a child, if status[n] is all that may be reset and no job of
\* an open connection changed.
LEMMA CloseLeavesOwn ==
    ASSUME JInv, NEW n \in Fds, NEW registered \in SUBSET interest, CloseWith(n, registered),
           data' = data, ffmpeg' = ffmpeg, held' = held,
           \A m \in Fds \ {n} : status'[m] = status[m],
           \A d \in interest' : /\ jobfd'[d] = jobfd[d]
                                /\ file'[jobfd[d]] = Conn(d) => job'[d] = job[d]
    PROVE  RegisteredIsOwn'
  <1> SUFFICES ASSUME NEW d \in interest'
               PROVE  IF file'[jobfd'[d]] = Conn(d)
                      THEN status'[jobfd'[d]] = 1 /\ data'[jobfd'[d]] = d /\ job'[d] = "live"
                      ELSE \E e \in Clients : ffmpeg'[e] = "running" /\ d \in held'[e]
    BY DEF RegisteredIsOwn
  <1>1. d \in interest /\ d \in Clients /\ jobfd'[d] = jobfd[d] /\ jobfd[d] \in Fds
    BY CloseFacts DEF JInv, LeftInv
  <1>2. CASE jobfd[d] # n
    BY <1>1, <1>2, CloseFacts DEF JInv, RegisteredIsOwn
  <1>3. CASE jobfd[d] = n
    BY <1>1, <1>3, CloseFacts DEF JInv, RegisteredIsOwn
  <1> QED BY <1>2, <1>3

\* A connection stays under its own number, and what close(n) leaves registered is
\* remembered.
LEMMA CloseLeavesLeft ==
    ASSUME JInv, NEW n \in Fds, NEW registered \in SUBSET interest, CloseWith(n, registered),
           data' = data, batch' = batch,
           \A d \in Clients : jobfd'[d] = jobfd[d] \/ d \notin interest \union batch,
           \A d \in Clients : jobfd'[d] = jobfd[d] \/ \A m \in Fds \ {n} : file[m] # Conn(d),
           UNCHANGED <<rpc, rclient, rfd>> \/ rpc \notin {"config", "killed"} \/ rfd = n
    PROVE  LeftInv'
  <1>1. ASSUME NEW m \in Fds, NEW c \in Clients, file'[m] = Conn(c)
        PROVE  \/ jobfd'[c] = m
               \/ jobfd'[c] = None /\ rpc' \in {"config", "killed"} /\ rclient' = c /\ rfd' = m
    BY <1>1, CloseFacts DEF JInv, LeftInv
  <1>2. \A c \in interest' \union (batch' \ {ListenFd}) :
          jobfd'[c] = jobfd[c] /\ jobfd'[c] \in Fds /\ data'[jobfd'[c]] \in Clients
    BY CloseFacts DEF JInv, TypeOK, LeftInv
  <1>3. ASSUME NEW c \in interest'
        PROVE  file'[jobfd'[c]] = Conn(c) \/ jobfd'[c] \in left'
    BY <1>2, CloseFacts DEF JInv, LeftInv
  <1>4. ASSUME NEW c \in batch' \ {ListenFd}, NEW d \in batch' \ {ListenFd},
               jobfd'[c] = jobfd'[d], c # d
        PROVE  jobfd'[c] \in left'
    BY <1>2, <1>4, CloseFacts DEF JInv, LeftInv
  <1> QED BY <1>1, <1>2, <1>3, <1>4 DEF LeftInv

-----------------------------------------------------------------------------

\* A client connects.
LEMMA ConnectKeeps ==
    ASSUME JInv, NEW c \in Clients, Connect(c)
    PROVE  JInv'
  <1>1. TypeOK'
    BY DEF JInv, TypeOK, Connect
  <1>2. NewInv'
    BY DEF JInv, NewInv, TypeOK, Connect
  <1>3. SetupInv'
    BY DEF JInv, SetupInv, Connect
  <1>4. PermitsAccounted' /\ RegisteredIsOwn' /\ PermitKeptOnlyOnParseError' /\
       FreedOnlyUntold' /\ HoldInv' /\ LifeInv' /\ LeftInv' /\ DataInv'
    BY DEF JInv, PermitsAccounted, RegisteredIsOwn, PermitKeptOnlyOnParseError,
       FreedOnlyUntold, HoldInv, LifeInv, LeftInv, DataInv, Holders, Connect
  <1> QED BY <1>1, <1>2, <1>3, <1>4 DEF JInv

\* The recording grows.
LEMMA RecordKeeps ==
    ASSUME JInv, NEW c \in Clients, Record(c)
    PROVE  JInv'
  <1>1. TypeOK'
    BY JobsAssumption DEF JInv, TypeOK, Record
  <1>2. PermitsAccounted' /\ RegisteredIsOwn' /\ PermitKeptOnlyOnParseError' /\
       FreedOnlyUntold' /\ HoldInv' /\ NewInv' /\ SetupInv' /\ LifeInv' /\ LeftInv' /\ DataInv'
    BY DEF JInv, PermitsAccounted, RegisteredIsOwn, PermitKeptOnlyOnParseError,
       FreedOnlyUntold, HoldInv, NewInv, SetupInv, LifeInv, LeftInv, DataInv, Holders,
       Record
  <1> QED BY <1>1, <1>2 DEF JInv

\* A client closes its connection.
LEMMA ClientCloseKeeps ==
    ASSUME JInv, NEW c \in Clients, ClientClose(c)
    PROVE  JInv'
  <1>1. TypeOK'
    BY DEF JInv, TypeOK, ClientClose
  <1>2. NewInv'
    BY DEF JInv, NewInv, ClientClose
  <1>3. SetupInv'
    BY DEF JInv, SetupInv, ClientClose
  <1>4. PermitsAccounted' /\ RegisteredIsOwn' /\ PermitKeptOnlyOnParseError' /\
       FreedOnlyUntold' /\ HoldInv' /\ LifeInv' /\ LeftInv' /\ DataInv'
    BY DEF JInv, PermitsAccounted, RegisteredIsOwn, PermitKeptOnlyOnParseError,
       FreedOnlyUntold, HoldInv, LifeInv, LeftInv, DataInv, Holders, ClientClose
  <1> QED BY <1>1, <1>2, <1>3, <1>4 DEF JInv

\* epoll_wait: what it reports is registered, so a job it belongs to was not told
\* yet, unless its number was left registered.
LEMMA EpollWaitKeeps ==
    ASSUME JInv, EpollWait
    PROVE  JInv'
  <1>1. TypeOK'
    BY DEF JInv, TypeOK, EpollWait
  <1>2. SetupInv'
    BY DEF JInv, SetupInv, EpollWait
  <1>3. DataInv'
    BY JobsAssumption DEF JInv, DataInv, LifeInv, EpollWait
  <1>4. PermitsAccounted' /\ RegisteredIsOwn' /\ PermitKeptOnlyOnParseError' /\
       FreedOnlyUntold' /\ HoldInv' /\ LifeInv'
    BY DEF JInv, PermitsAccounted, RegisteredIsOwn, PermitKeptOnlyOnParseError,
       FreedOnlyUntold, HoldInv, LifeInv, Holders, EpollWait
  <1>5. interest' = interest /\ batch' \subseteq interest \union {ListenFd}
    BY DEF EpollWait
  <1>6. LeftInv'
    BY <1>5 DEF JInv, LeftInv, Conn, EpollWait
  <1>7. NewInv'
    BY <1>5, JobsAssumption DEF JInv, NewInv, EpollWait
  <1> QED BY <1>1, <1>2, <1>3, <1>4, <1>6, <1>7 DEF JInv

\* accept: the number is free, so no open connection is registered under it.
LEMMA AcceptKeeps ==
    ASSUME JInv, NEW c \in Clients, NEW n \in Fds, Accept(c, n)
    PROVE  JInv'
  <1>1. TypeOK'
    BY DEF JInv, TypeOK, Accept
  <1>2. RegisteredIsOwn'
    BY DEF JInv, TypeOK, RegisteredIsOwn, NewInv, LeftInv, Free, Conn, Accept, IsLowestFree
  <1>3. NewInv'
    BY DEF JInv, NewInv, Conn, Rec, Accept
  <1>4. SetupInv'
    BY DEF JInv, SetupInv, NewInv, DataInv, RegisteredIsOwn, Free, Conn, Accept,
       IsLowestFree
  <1>5. LifeInv'
    BY DEF JInv, LifeInv, NewInv, Conn, Accept
  <1>6. DataInv'
    BY DEF JInv, DataInv, Accept
  <1>7. PermitsAccounted' /\ PermitKeptOnlyOnParseError' /\ FreedOnlyUntold' /\ HoldInv'
    BY DEF JInv, PermitsAccounted, PermitKeptOnlyOnParseError, FreedOnlyUntold, HoldInv,
       Holders, Accept
  <1>8. LeftInv'
    <2>1. /\ jobfd[c] = None /\ rpc' = "config" /\ rclient' = c /\ rfd' = n
          /\ file' = [file EXCEPT ![n] = Conn(c)] /\ file[n] = Free
          /\ UNCHANGED <<interest, left, data, jobfd>> /\ batch' \subseteq batch
      BY DEF JInv, NewInv, Accept, IsLowestFree
    <2>2. ASSUME NEW m \in Fds, NEW e \in Clients, file'[m] = Conn(e)
          PROVE  \/ jobfd'[e] = m
                 \/ jobfd'[e] = None /\ rpc' \in {"config", "killed"} /\ rclient' = e /\ rfd' = m
      BY <2>1, <2>2 DEF JInv, TypeOK, LeftInv, Conn, Accept
    <2>3. \A d \in interest' : file'[jobfd'[d]] = Conn(d) \/ jobfd'[d] \in left'
      BY <2>1 DEF JInv, TypeOK, LeftInv, Free, Conn
    <2> QED BY <2>1, <2>2, <2>3 DEF JInv, LeftInv
  <1> QED BY <1>1, <1>2, <1>3, <1>4, <1>5, <1>6, <1>7, <1>8 DEF JInv

\* The configuration is refused and the connection closed.
LEMMA ConfigRefusedKeeps ==
    ASSUME JInv, ConfigRefused
    PROVE  JInv'
  <1>1. /\ rfd \in Fds /\ CloseWith(rfd, interest) /\ rpc' \in {"wait", "dispatch"}
        /\ UNCHANGED <<asks, client, backlog, recorded, status, data, job, source, jobfd, recfd,
                       terminate, sem, wpc, hold, ffmpeg, held, pos, uaf, batch>>
    BY DEF JInv, SetupInv, ConfigRefused, Close, NextEvent
  <1>2. /\ file' \in [Fds -> {Free} \union {Conn(c) : c \in Clients}
                                   \union {Rec(c) : c \in Clients}]
        /\ \A m \in Fds, c \in Clients : /\ file'[m] = Conn(c) => file[m] = Conn(c)
                                         /\ file'[m] = Rec(c) => file[m] = Rec(c)
        /\ interest' \subseteq interest /\ left \subseteq left' /\ left' \subseteq Fds
    BY <1>1, CloseFacts DEF JInv, TypeOK
  <1>3. TypeOK'
    BY <1>1, <1>2 DEF JInv, TypeOK, ConfigRefused, NextEvent
  <1>4. RegisteredIsOwn'
    BY <1>1, CloseLeavesOwn
  <1>5. NewInv'
    BY <1>1, <1>2 DEF JInv, NewInv
  <1>6. SetupInv'
    BY <1>1 DEF JInv, SetupInv, ConfigRefused
  <1>7. LifeInv'
    BY <1>1, <1>2 DEF JInv, LifeInv
  <1>8. LeftInv'
    BY <1>1, CloseLeavesLeft
  <1>9. DataInv'
    BY <1>1, <1>2 DEF JInv, DataInv, ConfigRefused
  <1>10. PermitsAccounted' /\ PermitKeptOnlyOnParseError' /\ FreedOnlyUntold' /\ HoldInv'
    BY <1>1, <1>2 DEF JInv, PermitsAccounted, PermitKeptOnlyOnParseError, FreedOnlyUntold,
       HoldInv, Holders
  <1> QED BY <1>3, <1>4, <1>5, <1>6, <1>7, <1>8, <1>9, <1>10 DEF JInv

\* The worker starts: the job is new, so no event points to it.
LEMMA StartJobKeeps ==
    ASSUME JInv, StartJob
    PROVE  JInv'
  <1>1. /\ rfd \in Fds /\ rclient \in Clients /\ job[rclient] = "none"
        /\ client[rclient] # "absent" /\ rclient \notin backlog
        /\ rclient \notin interest \union batch
        /\ jobfd[rclient] = None /\ wpc[rclient] = "none" /\ ~ terminate[rclient]
        /\ \A n \in Fds : data[n] # rclient
        /\ asks[rclient].source # "never"
    BY DEF JInv, NewInv, SetupInv, StartJob
  <1>2. source' \in [Clients -> Sources]
    <2>1. asks[rclient].source \in Sources
      BY <1>1, JobsAssumption DEF JInv, TypeOK
    <2>2. PICK s \in ConfigOf(rclient) : source' = [source EXCEPT ![rclient] = s]
      BY DEF StartJob
    <2>3. s \in Sources
      BY <2>1 DEF ConfigOf, Sources
    <2> QED BY <1>1, <2>2, <2>3 DEF JInv, TypeOK
  <1>3. TypeOK'
    BY <1>1, <1>2 DEF JInv, TypeOK, WorkerAt, StartJob
  <1>4. RegisteredIsOwn'
    BY <1>1 DEF JInv, TypeOK, RegisteredIsOwn, StartJob
  <1>5. PermitKeptOnlyOnParseError'
    BY <1>1 DEF JInv, TypeOK, PermitKeptOnlyOnParseError, NewInv, StartJob
  <1>6. HoldInv'
    BY <1>1 DEF JInv, TypeOK, HoldInv, Encoding, StartJob
  <1>7. NewInv'
    BY <1>1 DEF JInv, NewInv, TypeOK, StartJob
  <1>8. SetupInv'
    BY <1>1 DEF JInv, SetupInv, TypeOK, StartJob
  <1>9. LifeInv'
    BY <1>1 DEF JInv, LifeInv, TypeOK, StartJob
  <1>10. DataInv'
    BY <1>1 DEF JInv, TypeOK, LeftInv, DataInv, StartJob
  <1>11. PermitsAccounted' /\ FreedOnlyUntold'
    BY <1>1 DEF JInv, TypeOK, DataInv, PermitsAccounted, FreedOnlyUntold, Holders, StartJob
  <1>12. LeftInv'
    BY <1>1, JobsAssumption DEF JInv, LeftInv, TypeOK, StartJob
  <1> QED
    BY <1>3, <1>4, <1>5, <1>6, <1>7, <1>8, <1>9, <1>10, <1>11, <1>12 DEF JInv

\* No thread: the job is freed before any event points to it.
LEMMA StartJobFailsKeeps ==
    ASSUME JInv, StartJobFails
    PROVE  JInv'
  <1>1. /\ rfd \in Fds /\ rclient \in Clients /\ job[rclient] = "none"
        /\ CloseWith(rfd, interest) /\ rpc' \in {"wait", "dispatch"}
        /\ job' = [job EXCEPT ![rclient] = "freed"]
        /\ jobfd' = [jobfd EXCEPT ![rclient] = rfd]
        /\ UNCHANGED <<asks, client, backlog, recorded, status, data, source, recfd,
                       terminate, sem, wpc, hold, ffmpeg, held, pos, uaf, batch>>
    BY DEF JInv, SetupInv, StartJobFails, Close, NextEvent
  <1>2. /\ file' \in [Fds -> {Free} \union {Conn(c) : c \in Clients}
                                   \union {Rec(c) : c \in Clients}]
        /\ \A m \in Fds, c \in Clients : /\ file'[m] = Conn(c) => file[m] = Conn(c)
                                         /\ file'[m] = Rec(c) => file[m] = Rec(c)
        /\ file'[rfd] = Free
        /\ interest' \subseteq interest /\ left \subseteq left' /\ left' \subseteq Fds
    BY <1>1, CloseFacts DEF JInv, TypeOK
  <1>3. /\ jobfd[rclient] = None /\ rclient \notin interest \union batch
        /\ wpc[rclient] = "none" /\ \A m \in Fds : data[m] # rclient
        /\ rclient \notin backlog /\ client[rclient] # "absent"
        /\ \A m \in Fds : file[m] = Conn(rclient) => m = rfd
    BY JobsAssumption, <1>1 DEF JInv, NewInv, SetupInv, LeftInv, StartJobFails
  <1>4. TypeOK'
    BY <1>1, <1>2 DEF JInv, TypeOK, StartJobFails, NextEvent
  <1>5. RegisteredIsOwn'
    <2>1. \A d \in interest' : jobfd'[d] = jobfd[d] /\ job'[d] = job[d]
      BY <1>1, <1>2, <1>3 DEF JInv, TypeOK
    <2> QED BY <1>1, <2>1, CloseLeavesOwn
  <1>6. NewInv'
    BY <1>1, <1>2, <1>3 DEF JInv, TypeOK, NewInv
  <1>7. SetupInv'
    BY <1>1 DEF JInv, SetupInv, StartJobFails
  <1>8. LifeInv'
    BY <1>1, <1>2, <1>3 DEF JInv, TypeOK, LifeInv
  <1>9. LeftInv'
    <2>1. \A d \in Clients \ {rclient} : jobfd'[d] = jobfd[d]
      BY <1>1 DEF JInv, TypeOK
    <2> QED BY <1>1, <1>3, <2>1, CloseLeavesLeft
  <1>10. DataInv'
    BY <1>1, <1>2, <1>3 DEF JInv, TypeOK, LeftInv, DataInv, StartJobFails
  <1>11. PermitsAccounted' /\ PermitKeptOnlyOnParseError' /\ FreedOnlyUntold' /\ HoldInv'
    BY <1>1, <1>2, <1>3 DEF JInv, TypeOK, NewInv, DataInv, PermitsAccounted,
       PermitKeptOnlyOnParseError, FreedOnlyUntold, HoldInv, Holders
  <1> QED BY <1>4, <1>5, <1>6, <1>7, <1>8, <1>9, <1>10, <1>11 DEF JInv

\* The event is given its job and registered, unless the worker closed the
\* connection in the meantime.
LEMMA RegisterKeeps ==
    ASSUME JInv, Register
    PROVE  JInv'
  <1>1. /\ rclient \in Clients /\ rfd \in Fds /\ jobfd[rclient] = rfd
        /\ job[rclient] # "none" /\ ~ terminate[rclient]
        /\ rclient \notin interest \union batch
        /\ \A d \in Clients : file[rfd] = Conn(d) => d = rclient
        /\ \A n \in Fds : data[n] # rclient
    BY DEF JInv, SetupInv, Register
  <1>2. /\ interest \subseteq interest'
        /\ \A d \in interest' \ interest : d = rclient /\ file[rfd] = Conn(rclient)
        /\ file[rfd] = Conn(rclient) /\ status[rfd] # 1 => rclient \in interest'
    BY <1>1 DEF Register, rwEvent_add, EpollCtlAccepts
  <1>3. /\ data' = [data EXCEPT ![rfd] = rclient] /\ status' = [status EXCEPT ![rfd] = 1]
        /\ batch' = batch /\ rpc' \in {"wait", "dispatch"}
        /\ UNCHANGED <<file, left, asks, client, backlog, recorded, job, source, jobfd, recfd,
                       terminate, sem, wpc, hold, ffmpeg, held, pos, uaf>>
    BY DEF Register, rwEvent_add, NextEvent
  <1>4. file[rfd] = Conn(rclient) => job[rclient] = "live"
    BY <1>1 DEF JInv, SetupInv, LifeInv, Register
  <1>5. TypeOK'
    BY <1>1, <1>2, <1>3 DEF JInv, TypeOK, Register, NextEvent
  <1>6. RegisteredIsOwn'
    <2> SUFFICES ASSUME NEW d \in interest'
                 PROVE  IF file[jobfd[d]] = Conn(d)
                        THEN /\ status'[jobfd[d]] = 1 /\ data'[jobfd[d]] = d
                             /\ job[d] = "live"
                        ELSE \E e \in Clients : ffmpeg[e] = "running" /\ d \in held[e]
      BY <1>3 DEF RegisteredIsOwn
    <2>1. CASE d \notin interest
      BY <1>1, <1>2, <1>3, <1>4, <2>1 DEF JInv, TypeOK
    <2>2. CASE d \in interest
      BY <1>1, <1>3, <2>2 DEF JInv, TypeOK, RegisteredIsOwn, LeftInv
    <2> QED BY <2>1, <2>2
  <1>7. NewInv'
    BY <1>1, <1>2, <1>3 DEF JInv, NewInv
  <1>8. SetupInv'
    BY <1>3 DEF JInv, SetupInv, Register
  <1>9. LifeInv'
    BY <1>3 DEF JInv, LifeInv
  <1>10. DataInv'
    BY <1>1, <1>2, <1>3 DEF JInv, TypeOK, DataInv, Register
  <1>11. LeftInv'
    <2>1. \A n \in Fds, c \in Clients : file'[n] = Conn(c) => jobfd'[c] = n
      BY <1>3 DEF JInv, LeftInv, Register
    <2>2. \A c \in interest' \union (batch' \ {ListenFd}) :
            jobfd'[c] \in Fds /\ data'[jobfd'[c]] \in Clients
      BY <1>1, <1>2, <1>3 DEF JInv, TypeOK, LeftInv
    <2>3. \A c \in interest' : file'[jobfd'[c]] = Conn(c) \/ jobfd'[c] \in left'
      BY <1>1, <1>2, <1>3 DEF JInv, LeftInv
    <2>4. \A c, d \in batch' \ {ListenFd} :
            jobfd'[c] = jobfd'[d] /\ c # d => jobfd'[c] \in left'
      BY <1>3 DEF JInv, LeftInv
    <2> QED BY <2>1, <2>2, <2>3, <2>4 DEF LeftInv
  <1>12. PermitsAccounted' /\ PermitKeptOnlyOnParseError' /\ FreedOnlyUntold' /\ HoldInv'
    BY <1>3 DEF JInv, PermitsAccounted, PermitKeptOnlyOnParseError, FreedOnlyUntold,
       HoldInv, Holders
  <1> QED
    BY <1>5, <1>6, <1>7, <1>8, <1>9, <1>10, <1>11, <1>12 DEF JInv

\* read() of a closed descriptor.
LEMMA ReadFailsKeeps ==
    ASSUME JInv, NEW c \in Clients, NEW n \in Fds, ReadFails(c, n)
    PROVE  JInv'
  <1>1. TypeOK'
    BY DEF JInv, TypeOK, Dispatched, ReadFails, NextEvent
  <1>2. SetupInv'
    BY DEF JInv, SetupInv, Dispatched, ReadFails, NextEvent
  <1>3. DataInv'
    BY DEF JInv, DataInv, Dispatched, ReadFails, NextEvent
  <1>4. PermitsAccounted' /\ RegisteredIsOwn' /\ PermitKeptOnlyOnParseError' /\
       FreedOnlyUntold' /\ HoldInv' /\ LifeInv'
    BY DEF JInv, PermitsAccounted, RegisteredIsOwn, PermitKeptOnlyOnParseError,
       FreedOnlyUntold, HoldInv, LifeInv, Holders, Dispatched, ReadFails
  <1>5. LeftInv'
    BY DEF JInv, LeftInv, DataInv, NewInv, SetupInv, TypeOK, Dispatched, ReadFails,
       NextEvent
  <1>6. NewInv'
    BY JobsAssumption DEF JInv, TypeOK, NewInv, Dispatched, NextEvent, ReadFails
  <1> QED BY <1>1, <1>2, <1>3, <1>4, <1>5, <1>6 DEF JInv

\* read() of a descriptor that became a recording's.
LEMMA ReadStealsKeeps ==
    ASSUME JInv, NEW c \in Clients, NEW n \in Fds, NEW d \in Clients, ReadSteals(c, n, d)
    PROVE  JInv'
  <1>1. TypeOK'
    <2>1. source' \in [Clients -> Sources]
      BY DEF JInv, TypeOK, Sources, ReadSteals
    <2>2. PICK p \in (pos[d] + 1)..recorded[d] : pos' = [pos EXCEPT ![d] = p]
      BY DEF ReadSteals
    <2>3. pos' \in [Clients -> Nat]
      BY <2>2 DEF JInv, TypeOK
    <2> QED BY <2>1, <2>3 DEF JInv, TypeOK, Dispatched, ReadSteals, NextEvent
  <1>2. PermitKeptOnlyOnParseError'
    BY DEF JInv, PermitKeptOnlyOnParseError, TypeOK, Dispatched, ReadSteals
  <1>3. NewInv'
    BY JobsAssumption DEF JInv, NewInv, TypeOK, Dispatched, ReadSteals, NextEvent
  <1>4. SetupInv'
    BY DEF JInv, SetupInv, Dispatched, ReadSteals, NextEvent
  <1>5. DataInv'
    BY DEF JInv, DataInv, Dispatched, ReadSteals, NextEvent
  <1>6. PermitsAccounted' /\ RegisteredIsOwn' /\ FreedOnlyUntold' /\ HoldInv' /\ LifeInv'
    BY DEF JInv, PermitsAccounted, RegisteredIsOwn, FreedOnlyUntold, HoldInv, LifeInv,
       Holders, Dispatched, ReadSteals
  <1>7. LeftInv'
    BY DEF JInv, LeftInv, DataInv, NewInv, SetupInv, TypeOK, Dispatched, ReadSteals,
       NextEvent
  <1> QED BY <1>1, <1>2, <1>3, <1>4, <1>5, <1>6, <1>7 DEF JInv

\* read() = 0.
LEMMA ReadEofKeeps ==
    ASSUME JInv, NEW c \in Clients, NEW n \in Fds, ReadEof(c, n)
    PROVE  JInv'
  <1>1. TypeOK'
    BY DEF JInv, TypeOK, Dispatched, ReadEof
  <1>2. SetupInv'
    BY DEF JInv, SetupInv, Dispatched, ReadEof
  <1>3. DataInv'
    BY JobsAssumption DEF JInv, DataInv, LeftInv, TypeOK, Dispatched, ReadEof
  <1>4. PermitsAccounted' /\ RegisteredIsOwn' /\ PermitKeptOnlyOnParseError' /\
       FreedOnlyUntold' /\ HoldInv' /\ LifeInv'
    BY DEF JInv, PermitsAccounted, RegisteredIsOwn, PermitKeptOnlyOnParseError,
       FreedOnlyUntold, HoldInv, LifeInv, Holders, Dispatched, ReadEof
  <1>5. LeftInv'
    BY DEF JInv, LeftInv, DataInv, NewInv, SetupInv, TypeOK, Dispatched, ReadEof
  <1>6. NewInv'
    BY JobsAssumption DEF JInv, TypeOK, NewInv, Dispatched, ReadEof
  <1> QED BY <1>1, <1>2, <1>3, <1>4, <1>5, <1>6 DEF JInv

\* read() of a connection its client has not closed: the event is taken.
LEMMA ReadBlocksKeeps ==
    ASSUME JInv, NEW c \in Clients, NEW n \in Fds, NEW d \in Clients, ReadBlocks(c, n, d)
    PROVE  JInv'
  <1>1. TypeOK'
    BY DEF JInv, TypeOK, Dispatched, ReadBlocks
  <1>2. SetupInv'
    BY DEF JInv, SetupInv, Dispatched, ReadBlocks
  <1>3. DataInv'
    BY JobsAssumption DEF JInv, DataInv, LeftInv, TypeOK, Dispatched, ReadBlocks
  <1>4. LeftInv'
    BY DEF JInv, LeftInv, TypeOK, Dispatched, ReadBlocks
  <1>5. PermitsAccounted' /\ RegisteredIsOwn' /\ PermitKeptOnlyOnParseError' /\
        FreedOnlyUntold' /\ HoldInv' /\ LifeInv'
    BY DEF JInv, PermitsAccounted, RegisteredIsOwn, PermitKeptOnlyOnParseError,
       FreedOnlyUntold, HoldInv, LifeInv, Holders, ReadBlocks
  <1>6. NewInv'
    BY JobsAssumption DEF JInv, TypeOK, NewInv, Dispatched, ReadBlocks
  <1> QED BY <1>1, <1>2, <1>3, <1>4, <1>5, <1>6 DEF JInv

\* The connection the reactor waits for is closed by its client.
LEMMA ReadReturnsKeeps ==
    ASSUME JInv, ReadReturns
    PROVE  JInv'
  <1>1. TypeOK'
    BY DEF JInv, TypeOK, ReadReturns
  <1>2. SetupInv'
    BY DEF JInv, SetupInv, ReadReturns
  <1>3. DataInv'
    BY DEF JInv, DataInv, ReadReturns
  <1>4. LeftInv'
    BY DEF JInv, LeftInv, ReadReturns
  <1>5. PermitsAccounted' /\ RegisteredIsOwn' /\ PermitKeptOnlyOnParseError' /\
        FreedOnlyUntold' /\ HoldInv' /\ LifeInv'
    BY DEF JInv, PermitsAccounted, RegisteredIsOwn, PermitKeptOnlyOnParseError,
       FreedOnlyUntold, HoldInv, LifeInv, Holders, ReadReturns
  <1>6. NewInv'
    BY JobsAssumption DEF JInv, TypeOK, NewInv, ReadReturns
  <1> QED BY <1>1, <1>2, <1>3, <1>4, <1>5, <1>6 DEF JInv

\* The job the event points to is told, or was freed without being told.
LEMMA TellWorkerKeeps ==
    ASSUME JInv, TellWorker
    PROVE  JInv'
  <1>1. TypeOK'
    <2>1. data[rfd] \in Clients
      BY DEF JInv, DataInv, TellWorker
    <2>2. terminate' \in [Clients -> BOOLEAN] /\ uaf' \subseteq Clients
      BY <2>1 DEF JInv, TypeOK, TellWorker
    <2> QED
      BY <2>2 DEF JInv, TypeOK, TellWorker
  <1>2. FreedOnlyUntold'
    BY DEF JInv, FreedOnlyUntold, TypeOK, DataInv, LeftInv, TellWorker
  <1>3. NewInv'
    BY DEF JInv, NewInv, TypeOK, TellWorker
  <1>4. SetupInv'
    BY DEF JInv, SetupInv, TellWorker
  <1>5. DataInv'
    BY DEF JInv, DataInv, TypeOK, TellWorker
  <1>6. PermitsAccounted' /\ RegisteredIsOwn' /\ PermitKeptOnlyOnParseError' /\ HoldInv' /\
       LifeInv'
    BY DEF JInv, PermitsAccounted, RegisteredIsOwn, PermitKeptOnlyOnParseError, HoldInv,
       LifeInv, Holders, TellWorker
  <1>7. LeftInv'
    BY DEF JInv, LeftInv, DataInv, NewInv, SetupInv, TypeOK, TellWorker
  <1> QED BY <1>1, <1>2, <1>3, <1>4, <1>5, <1>6, <1>7 DEF JInv

\* The event and its descriptor are removed.
LEMMA CloseClientKeeps ==
    ASSUME JInv, CloseClient
    PROVE  JInv'
  <1>1. /\ rfd \in Fds /\ rwEvent_del(rfd) \in SUBSET interest
        /\ CloseWith(rfd, rwEvent_del(rfd)) /\ rpc' \in {"wait", "dispatch"}
        /\ status' = [status EXCEPT ![rfd] = 0]
        /\ UNCHANGED <<asks, client, backlog, recorded, data, job, source, jobfd, recfd,
                       terminate, sem, wpc, hold, ffmpeg, held, pos, uaf, batch>>
    BY DEF JInv, DataInv, rwEvent_del, CloseClient, NextEvent
  <1>2. /\ file' \in [Fds -> {Free} \union {Conn(c) : c \in Clients}
                                   \union {Rec(c) : c \in Clients}]
        /\ \A m \in Fds, c \in Clients : /\ file'[m] = Conn(c) => file[m] = Conn(c)
                                         /\ file'[m] = Rec(c) => file[m] = Rec(c)
        /\ interest' \subseteq rwEvent_del(rfd)
        /\ interest' \subseteq interest /\ left \subseteq left' /\ left' \subseteq Fds
    BY <1>1, CloseFacts DEF JInv, TypeOK
  <1>3. \A d \in interest' : jobfd[d] = rfd => rfd \in left
    BY <1>1, <1>2 DEF JInv, TypeOK, RegisteredIsOwn, LeftInv, rwEvent_del
  <1>4. TypeOK'
    <2>1. status' \in [Fds -> 0..1]
      BY <1>1 DEF JInv, TypeOK
    <2> QED BY <1>1, <1>2, <2>1 DEF JInv, TypeOK, CloseClient, NextEvent
  <1>5. RegisteredIsOwn'
    <2>1. \A m \in Fds \ {rfd} : status'[m] = status[m]
      BY <1>1 DEF JInv, TypeOK
    <2> QED BY <1>1, <2>1, CloseLeavesOwn
  <1>6. NewInv'
    BY <1>1, <1>2 DEF JInv, NewInv
  <1>7. SetupInv'
    BY <1>1 DEF JInv, SetupInv, CloseClient
  <1>8. LifeInv'
    BY <1>1, <1>2 DEF JInv, LifeInv
  <1>9. LeftInv'
    BY <1>1, CloseLeavesLeft DEF CloseClient
  <1>10. DataInv'
    BY <1>1, <1>2, <1>3 DEF JInv, DataInv, CloseClient
  <1>11. PermitsAccounted' /\ PermitKeptOnlyOnParseError' /\ FreedOnlyUntold' /\ HoldInv'
    BY <1>1, <1>2 DEF JInv, PermitsAccounted, PermitKeptOnlyOnParseError, FreedOnlyUntold,
       HoldInv, Holders
  <1> QED
    BY <1>4, <1>5, <1>6, <1>7, <1>8, <1>9, <1>10, <1>11 DEF JInv

\* The recording is opened: the number is free, so no connection loses it.
LEMMA OpenRecordingKeeps ==
    ASSUME JInv, NEW c \in Clients, NEW n \in Fds, OpenRecording(c, n)
    PROVE  JInv'
  <1>1. TypeOK'
    BY DEF JInv, TypeOK, WorkerAt, OpenRecording
  <1>2. /\ file[n] = Free /\ file' = [file EXCEPT ![n] = Rec(c)]
        /\ UNCHANGED <<interest, left, jobfd, data, status, job, terminate, reactvars, uaf>>
    BY DEF OpenRecording, IsLowestFree
  <1>3. \A m \in Fds, d \in Clients :
          /\ (file'[m] = Conn(d)) <=> (file[m] = Conn(d))
          /\ file'[m] = Rec(d) => file[m] = Rec(d) \/ d = c
    BY <1>2 DEF JInv, TypeOK, Free, Conn, Rec
  <1>4. job[c] = "live"
    BY DEF JInv, LifeInv, OpenRecording
  <1>5. RegisteredIsOwn'
    BY <1>2, <1>3 DEF JInv, TypeOK, LeftInv, RegisteredIsOwn, OpenRecording
  <1>6. PermitKeptOnlyOnParseError'
    BY DEF JInv, PermitKeptOnlyOnParseError, HoldInv, TypeOK, OpenRecording
  <1>7. HoldInv'
    BY DEF JInv, HoldInv, TypeOK, Encoding, OpenRecording
  <1>8. NewInv'
    BY <1>2, <1>3, <1>4 DEF JInv, NewInv, TypeOK, OpenRecording
  <1>9. SetupInv'
    BY <1>2, <1>3 DEF JInv, SetupInv, TypeOK, OpenRecording
  <1>10. LifeInv'
    BY <1>2, <1>3 DEF JInv, LifeInv, TypeOK, OpenRecording
  <1>11. LeftInv'
    BY <1>2, <1>3 DEF JInv, TypeOK, LeftInv
  <1>12. PermitsAccounted' /\ FreedOnlyUntold' /\ DataInv'
    BY <1>2 DEF JInv, PermitsAccounted, FreedOnlyUntold, DataInv, Holders, OpenRecording
  <1> QED
    BY <1>1, <1>5, <1>6, <1>7, <1>8, <1>9, <1>10, <1>11, <1>12 DEF JInv

\* The recording cannot be opened.
LEMMA OpenFailsKeeps ==
    ASSUME JInv, NEW c \in Clients, OpenFails(c)
    PROVE  JInv'
  <1>1. TypeOK'
    BY DEF JInv, TypeOK, WorkerAt, OpenFails
  <1>2. PermitKeptOnlyOnParseError'
    BY DEF JInv, PermitKeptOnlyOnParseError, HoldInv, OpenFails
  <1>3. HoldInv'
    BY DEF JInv, HoldInv, Encoding, OpenFails
  <1>4. NewInv'
    BY DEF JInv, NewInv, TypeOK, OpenFails
  <1>5. SetupInv'
    BY DEF JInv, SetupInv, OpenFails
  <1>6. LifeInv'
    BY DEF JInv, LifeInv, OpenFails
  <1>7. PermitsAccounted' /\ RegisteredIsOwn' /\ FreedOnlyUntold' /\ LeftInv' /\ DataInv'
    BY DEF JInv, PermitsAccounted, RegisteredIsOwn, FreedOnlyUntold, LeftInv, DataInv,
       Holders, OpenFails
  <1> QED BY <1>1, <1>2, <1>3, <1>4, <1>5, <1>6, <1>7 DEF JInv

\* A worker takes a permit it does not hold.
LEMMA sem_waitKeeps ==
    ASSUME JInv, NEW c \in Clients, sem_wait(c)
    PROVE  JInv'
  <1>1. TypeOK'
    BY JobsAssumption DEF JInv, TypeOK, Encoding, WorkerAt, sem_wait
  <1>2. PermitsAccounted'
    BY PermitTaken DEF JInv, HoldInv, sem_wait
  <1>3. PermitKeptOnlyOnParseError'
    BY DEF JInv, PermitKeptOnlyOnParseError, sem_wait
  <1>4. HoldInv'
    BY DEF JInv, HoldInv, TypeOK, sem_wait
  <1>5. NewInv'
    BY DEF JInv, NewInv, TypeOK, sem_wait
  <1>6. SetupInv'
    BY DEF JInv, SetupInv, sem_wait
  <1>7. LifeInv'
    BY DEF JInv, LifeInv, sem_wait
  <1>8. RegisteredIsOwn' /\ FreedOnlyUntold' /\ LeftInv' /\ DataInv'
    BY DEF JInv, RegisteredIsOwn, FreedOnlyUntold, LeftInv, DataInv, sem_wait
  <1> QED BY <1>1, <1>2, <1>3, <1>4, <1>5, <1>6, <1>7, <1>8 DEF JInv

\* A worker gives its permit back after five seconds.
LEMMA TimeSliceKeeps ==
    ASSUME JInv, NEW c \in Clients, TimeSlice(c)
    PROVE  JInv'
  <1>1. TypeOK'
    <2>1. sem' \in 0..Window
      BY PermitReturned DEF JInv, HoldInv, Encoding, TimeSlice
    <2> QED
      BY <2>1 DEF JInv, TypeOK, WorkerAt, TimeSlice, sem_post
  <1>2. PermitsAccounted'
    BY PermitReturned DEF JInv, HoldInv, Encoding, TimeSlice
  <1>3. PermitKeptOnlyOnParseError'
    BY DEF JInv, PermitKeptOnlyOnParseError, TimeSlice, sem_post
  <1>4. HoldInv'
    BY DEF JInv, HoldInv, TypeOK, Encoding, TimeSlice, sem_post
  <1>5. NewInv'
    BY DEF JInv, NewInv, TypeOK, TimeSlice, sem_post
  <1>6. SetupInv'
    BY DEF JInv, SetupInv, TimeSlice, sem_post
  <1>7. LifeInv'
    BY DEF JInv, LifeInv, TimeSlice, sem_post
  <1>8. RegisteredIsOwn' /\ FreedOnlyUntold' /\ LeftInv' /\ DataInv'
    BY DEF JInv, RegisteredIsOwn, FreedOnlyUntold, LeftInv, DataInv, TimeSlice
  <1> QED BY <1>1, <1>2, <1>3, <1>4, <1>5, <1>6, <1>7, <1>8 DEF JInv

\* The process is killed.
LEMMA NullInsKeeps ==
    ASSUME JInv, NEW c \in Clients, NullIns(c)
    PROVE  JInv'
  <1>1. TypeOK'
    BY DEF JInv, TypeOK, WorkerAt, NullIns
  <1>2. PermitKeptOnlyOnParseError'
    BY DEF JInv, PermitKeptOnlyOnParseError, NullIns
  <1>3. HoldInv'
    BY DEF JInv, HoldInv, Encoding, NullIns
  <1>4. NewInv'
    BY DEF JInv, NewInv, NullIns
  <1>5. SetupInv'
    BY DEF JInv, SetupInv, NullIns
  <1>6. LifeInv'
    BY DEF JInv, LifeInv, TypeOK, NullIns
  <1>7. DataInv'
    BY DEF JInv, DataInv, NullIns
  <1>8. PermitsAccounted' /\ RegisteredIsOwn' /\ FreedOnlyUntold'
    BY DEF JInv, PermitsAccounted, RegisteredIsOwn, FreedOnlyUntold, Holders, NullIns
  <1>9. LeftInv'
    BY DEF JInv, LeftInv, DataInv, NewInv, SetupInv, TypeOK, NullIns
  <1> QED BY <1>1, <1>2, <1>3, <1>4, <1>5, <1>6, <1>7, <1>8, <1>9 DEF JInv

\* An instruction is read.
LEMMA ReadInstructionKeeps ==
    ASSUME JInv, NEW c \in Clients, NEW d \in Clients, ReadInstruction(c, d)
    PROVE  JInv'
  <1>1. TypeOK'
    BY JobsAssumption DEF JInv, TypeOK, Encoding, WorkerAt, ReadInstruction
  <1>2. PermitKeptOnlyOnParseError'
    BY DEF JInv, PermitKeptOnlyOnParseError, ReadInstruction
  <1>3. HoldInv'
    BY DEF JInv, HoldInv, Encoding, ReadInstruction
  <1>4. NewInv'
    BY DEF JInv, NewInv, TypeOK, ReadInstruction
  <1>5. SetupInv'
    BY DEF JInv, SetupInv, ReadInstruction
  <1>6. LifeInv'
    BY DEF JInv, LifeInv, ReadInstruction
  <1>7. PermitsAccounted' /\ RegisteredIsOwn' /\ FreedOnlyUntold' /\ LeftInv' /\ DataInv'
    BY DEF JInv, PermitsAccounted, RegisteredIsOwn, FreedOnlyUntold, LeftInv, DataInv,
       Holders, ReadInstruction
  <1> QED BY <1>1, <1>2, <1>3, <1>4, <1>5, <1>6, <1>7 DEF JInv

\* An instruction does not parse: the permit stays with the worker.
LEMMA ParseFailsKeeps ==
    ASSUME JInv, NEW c \in Clients, NEW d \in Clients, ParseFails(c, d)
    PROVE  JInv'
  <1>1. TypeOK'
    BY JobsAssumption DEF JInv, TypeOK, WorkerAt, ParseFails
  <1>2. PermitKeptOnlyOnParseError'
    BY DEF JInv, PermitKeptOnlyOnParseError, ParseFails
  <1>3. HoldInv'
    BY DEF JInv, HoldInv, Encoding, ParseFails
  <1>4. NewInv'
    BY DEF JInv, NewInv, TypeOK, ParseFails
  <1>5. SetupInv'
    BY DEF JInv, SetupInv, ParseFails
  <1>6. LifeInv'
    BY DEF JInv, LifeInv, ParseFails
  <1>7. PermitsAccounted' /\ RegisteredIsOwn' /\ FreedOnlyUntold' /\ LeftInv' /\ DataInv'
    BY DEF JInv, PermitsAccounted, RegisteredIsOwn, FreedOnlyUntold, LeftInv, DataInv,
       Holders, ParseFails
  <1> QED BY <1>1, <1>2, <1>3, <1>4, <1>5, <1>6, <1>7 DEF JInv

\* The worker finds the end of what it reads.
LEMMA ReadAtEndKeeps ==
    ASSUME JInv, NEW c \in Clients, ReadAtEnd(c)
    PROVE  JInv'
  <1>1. TypeOK'
    BY DEF JInv, TypeOK, Encoding, WorkerAt, ReadAtEnd
  <1>2. PermitKeptOnlyOnParseError'
    BY DEF JInv, PermitKeptOnlyOnParseError, ReadAtEnd
  <1>3. HoldInv'
    BY DEF JInv, HoldInv, Encoding, ReadAtEnd
  <1>4. NewInv'
    BY DEF JInv, NewInv, TypeOK, ReadAtEnd
  <1>5. SetupInv'
    BY DEF JInv, SetupInv, ReadAtEnd
  <1>6. LifeInv'
    BY DEF JInv, LifeInv, ReadAtEnd
  <1>7. PermitsAccounted' /\ RegisteredIsOwn' /\ FreedOnlyUntold' /\ LeftInv' /\ DataInv'
    BY DEF JInv, PermitsAccounted, RegisteredIsOwn, FreedOnlyUntold, LeftInv, DataInv,
       Holders, ReadAtEnd
  <1> QED BY <1>1, <1>2, <1>3, <1>4, <1>5, <1>6, <1>7 DEF JInv

\* The worker finds its recording closed.
LEMMA RecordingGoneKeeps ==
    ASSUME JInv, NEW c \in Clients, RecordingGone(c)
    PROVE  JInv'
  <1>1. TypeOK'
    <2>1. sem' \in 0..Window
      BY PermitReturned DEF JInv, HoldInv, Encoding, RecordingGone
    <2> QED
      BY <2>1 DEF JInv, TypeOK, WorkerAt, RecordingGone, sem_post
  <1>2. PermitsAccounted'
    BY PermitReturned DEF JInv, HoldInv, Encoding, RecordingGone
  <1>3. PermitKeptOnlyOnParseError'
    BY DEF JInv, PermitKeptOnlyOnParseError, TypeOK, RecordingGone, sem_post
  <1>4. HoldInv'
    BY DEF JInv, HoldInv, TypeOK, Encoding, RecordingGone, sem_post
  <1>5. NewInv'
    BY DEF JInv, NewInv, TypeOK, RecordingGone, sem_post
  <1>6. SetupInv'
    BY DEF JInv, SetupInv, RecordingGone, sem_post
  <1>7. LifeInv'
    BY DEF JInv, LifeInv, RecordingGone, sem_post
  <1>8. RegisteredIsOwn' /\ FreedOnlyUntold' /\ LeftInv' /\ DataInv'
    BY DEF JInv, RegisteredIsOwn, FreedOnlyUntold, LeftInv, DataInv, RecordingGone
  <1> QED BY <1>1, <1>2, <1>3, <1>4, <1>5, <1>6, <1>7, <1>8 DEF JInv

\* The permit is given back at the end of the recording.
LEMMA AtEndKeeps ==
    ASSUME JInv, NEW c \in Clients, AtEnd(c)
    PROVE  JInv'
  <1>1. TypeOK'
    <2>1. sem' \in 0..Window
      BY PermitReturned DEF JInv, HoldInv, Encoding, AtEnd
    <2> QED
      BY <2>1 DEF JInv, TypeOK, WorkerAt, AtEnd, sem_post
  <1>2. PermitsAccounted'
    BY PermitReturned DEF JInv, HoldInv, Encoding, AtEnd
  <1>3. PermitKeptOnlyOnParseError'
    BY DEF JInv, PermitKeptOnlyOnParseError, TypeOK, AtEnd, sem_post
  <1>4. HoldInv'
    BY DEF JInv, HoldInv, TypeOK, Encoding, AtEnd, sem_post
  <1>5. NewInv'
    BY DEF JInv, NewInv, TypeOK, AtEnd, sem_post
  <1>6. SetupInv'
    BY DEF JInv, SetupInv, AtEnd, sem_post
  <1>7. LifeInv'
    BY DEF JInv, LifeInv, AtEnd, sem_post
  <1>8. RegisteredIsOwn' /\ FreedOnlyUntold' /\ LeftInv' /\ DataInv'
    BY DEF JInv, RegisteredIsOwn, FreedOnlyUntold, LeftInv, DataInv, AtEnd
  <1> QED BY <1>1, <1>2, <1>3, <1>4, <1>5, <1>6, <1>7, <1>8 DEF JInv

\* A child starts: it had none before, so nothing is let go.
LEMMA ForkKeeps ==
    ASSUME JInv, NEW c \in Clients, Fork(c)
    PROVE  JInv'
  <1>1. TypeOK'
    BY DEF JInv, TypeOK, WorkerAt, Fork
  <1>2. held[c] = {}
    BY DEF JInv, LifeInv, Fork
  <1>3. RegisteredIsOwn'
    BY <1>2 DEF JInv, RegisteredIsOwn, TypeOK, Fork
  <1>4. PermitKeptOnlyOnParseError'
    BY DEF JInv, PermitKeptOnlyOnParseError, Fork
  <1>5. HoldInv'
    BY DEF JInv, HoldInv, Encoding, Fork
  <1>6. NewInv'
    BY DEF JInv, NewInv, Fork
  <1>7. SetupInv'
    BY DEF JInv, SetupInv, Fork
  <1>8. LifeInv'
    BY DEF JInv, LifeInv, TypeOK, Fork
  <1>9. PermitsAccounted' /\ FreedOnlyUntold' /\ LeftInv' /\ DataInv'
    BY DEF JInv, PermitsAccounted, FreedOnlyUntold, LeftInv, DataInv, Holders, Fork
  <1> QED BY <1>1, <1>3, <1>4, <1>5, <1>6, <1>7, <1>8, <1>9 DEF JInv

\* A child that has ended is waited for.
LEMMA WaitChildKeeps ==
    ASSUME JInv, NEW c \in Clients, NEW d \in Clients, WaitChild(c, d)
    PROVE  JInv'
  <1>1. TypeOK'
    BY DEF JInv, TypeOK, WorkerAt, WaitChild
  <1>2. RegisteredIsOwn'
    BY DEF JInv, RegisteredIsOwn, TypeOK, WaitChild
  <1>3. PermitKeptOnlyOnParseError'
    BY DEF JInv, PermitKeptOnlyOnParseError, WaitChild
  <1>4. HoldInv'
    BY DEF JInv, HoldInv, Encoding, WaitChild
  <1>5. NewInv'
    BY DEF JInv, NewInv, WaitChild
  <1>6. SetupInv'
    BY DEF JInv, SetupInv, WaitChild
  <1>7. LifeInv'
    BY DEF JInv, LifeInv, TypeOK, WaitChild
  <1>8. PermitsAccounted' /\ FreedOnlyUntold' /\ LeftInv' /\ DataInv'
    BY DEF JInv, PermitsAccounted, FreedOnlyUntold, LeftInv, DataInv, Holders, WaitChild
  <1> QED BY <1>1, <1>2, <1>3, <1>4, <1>5, <1>6, <1>7, <1>8 DEF JInv

\* A child ends: a registration stays only with a connection that is open
\* elsewhere, here under its number or in another child.
LEMMA FfmpegEndsKeeps ==
    ASSUME JInv, NEW c \in Clients, FfmpegEnds(c)
    PROVE  JInv'
  <1>1. /\ interest' \subseteq interest
        /\ \A d \in interest' : d \in held[c] =>
              (\E n \in Fds : file[n] = Conn(d)) \/ \E e \in Clients \ {c} : d \in held[e]
    BY DEF FfmpegEnds
  <1>2. TypeOK'
    BY <1>1 DEF JInv, TypeOK, FfmpegEnds
  <1>3. RegisteredIsOwn'
    <2> SUFFICES ASSUME NEW d \in interest'
                 PROVE  IF file'[jobfd'[d]] = Conn(d)
                        THEN status'[jobfd'[d]] = 1 /\ data'[jobfd'[d]] = d /\ job'[d] = "live"
                        ELSE \E e \in Clients : ffmpeg'[e] = "running" /\ d \in held'[e]
      BY DEF RegisteredIsOwn
    <2>1. d \in interest /\ d \in Clients /\ jobfd[d] \in Fds
      BY <1>1 DEF JInv, TypeOK, LeftInv
    <2>2. CASE file[jobfd[d]] = Conn(d)
      BY <2>1, <2>2 DEF JInv, RegisteredIsOwn, FfmpegEnds
    <2>3. CASE file[jobfd[d]] # Conn(d)
      <3>1. PICK e \in Clients : ffmpeg[e] = "running" /\ d \in held[e]
        BY <2>1, <2>3 DEF JInv, RegisteredIsOwn
      <3>2. \A n \in Fds : file[n] # Conn(d)
        BY <2>1, <2>3, JobsAssumption DEF JInv, LeftInv
      <3>3. PICK g \in Clients \ {c} : d \in held[g]
        BY <1>1, <3>1, <3>2
      <3>4. ffmpeg[g] = "running"
        BY <3>3 DEF JInv, LifeInv
      <3> QED BY <2>3, <3>3, <3>4 DEF JInv, TypeOK, FfmpegEnds
    <2> QED BY <2>2, <2>3
  <1>4. NewInv'
    BY <1>1 DEF JInv, NewInv, FfmpegEnds
  <1>5. SetupInv'
    BY <1>1 DEF JInv, SetupInv, FfmpegEnds
  <1>6. LifeInv'
    BY DEF JInv, LifeInv, TypeOK, FfmpegEnds
  <1>7. LeftInv'
    BY <1>1 DEF JInv, LeftInv, FfmpegEnds
  <1>8. DataInv'
    BY <1>1 DEF JInv, DataInv, FfmpegEnds
  <1>9. PermitsAccounted' /\ PermitKeptOnlyOnParseError' /\ FreedOnlyUntold' /\ HoldInv'
    BY DEF JInv, PermitsAccounted, PermitKeptOnlyOnParseError, FreedOnlyUntold, HoldInv,
       Holders, FfmpegEnds
  <1> QED BY <1>2, <1>3, <1>4, <1>5, <1>6, <1>7, <1>8, <1>9 DEF JInv

\* close(job->fd) ends the registration of the connection open there, or leaves it
\* to a child.
LEMMA DestroyClosesFdKeeps ==
    ASSUME JInv, NEW c \in Clients, DestroyClosesFd(c)
    PROVE  JInv'
  <1>1. job[c] = "live" /\ jobfd[c] \in Fds
    BY DEF JInv, LifeInv, DestroyClosesFd
  <1>2. /\ CloseWith(jobfd[c], interest) /\ wpc' = [wpc EXCEPT ![c] = "destroy"]
        /\ UNCHANGED <<asks, client, backlog, recorded, status, data, job, source, jobfd, recfd,
                       terminate, sem, hold, ffmpeg, held, pos, uaf, reactvars>>
    BY DEF DestroyClosesFd, Close
  <1>3. /\ file' \in [Fds -> {Free} \union {Conn(d) : d \in Clients}
                                   \union {Rec(d) : d \in Clients}]
        /\ \A m \in Fds, d \in Clients : /\ file'[m] = Conn(d) => file[m] = Conn(d)
                                         /\ file'[m] = Rec(d) => file[m] = Rec(d)
        /\ \A d \in Clients : file'[jobfd[c]] # Conn(d)
        /\ interest' \subseteq interest /\ left \subseteq left' /\ left' \subseteq Fds
    BY <1>1, <1>2, CloseFacts DEF JInv, TypeOK
  <1>4. TypeOK'
    BY <1>2, <1>3 DEF JInv, TypeOK, WorkerAt
  <1>5. RegisteredIsOwn'
    BY <1>1, <1>2, CloseLeavesOwn
  <1>6. PermitKeptOnlyOnParseError'
    BY <1>2 DEF JInv, TypeOK, PermitKeptOnlyOnParseError, DestroyClosesFd
  <1>7. HoldInv'
    BY <1>2 DEF JInv, TypeOK, HoldInv, Encoding
  <1>8. NewInv'
    BY <1>1, <1>2, <1>3 DEF JInv, TypeOK, NewInv
  <1>9. SetupInv'
    BY <1>2, <1>3 DEF JInv, TypeOK, SetupInv
  <1>10. LifeInv'
    BY <1>1, <1>2, <1>3 DEF JInv, LifeInv, TypeOK, DestroyClosesFd
  <1>11. LeftInv'
    BY <1>1, <1>2, CloseLeavesLeft
  <1>12. PermitsAccounted' /\ FreedOnlyUntold' /\ DataInv'
    BY <1>2, <1>3 DEF JInv, PermitsAccounted, FreedOnlyUntold, DataInv, Holders
  <1> QED
    BY <1>4, <1>5, <1>6, <1>7, <1>8, <1>9, <1>10, <1>11, <1>12 DEF JInv

\* The job is freed: its connection is open under no number any more.
LEMMA DestroyFreesKeeps ==
    ASSUME JInv, NEW c \in Clients, DestroyFrees(c)
    PROVE  JInv'
  <1>1. /\ job' = [job EXCEPT ![c] = "freed"] /\ wpc' = [wpc EXCEPT ![c] = "done"]
        /\ UNCHANGED <<asks, client, backlog, recorded, status, data, source, jobfd, recfd,
                       terminate, sem, hold, ffmpeg, held, pos, uaf, reactvars>>
    BY DEF DestroyFrees
  <1>3. job[c] = "live" /\ jobfd[c] \in Fds /\ file[jobfd[c]] # Conn(c)
    BY DEF JInv, LifeInv, DestroyFrees
  <1>4. /\ file' \in [Fds -> {Free} \union {Conn(d) : d \in Clients}
                                   \union {Rec(d) : d \in Clients}]
        /\ \A m \in Fds, d \in Clients : /\ file'[m] = Conn(d) => file[m] = Conn(d)
                                         /\ file'[m] = Rec(d) => file[m] = Rec(d)
        /\ interest' \subseteq interest /\ left \subseteq left' /\ left' \subseteq Fds
        /\ RegisteredIsOwn' /\ LeftInv'
    <2>1. CASE recfd[c] = None
      <3>1. UNCHANGED fdvars
        BY <2>1 DEF DestroyFrees
      <3>2. RegisteredIsOwn'
        BY <1>1, <1>3, <3>1 DEF JInv, TypeOK, RegisteredIsOwn
      <3> QED BY <1>1, <3>1, <3>2 DEF JInv, TypeOK, LeftInv
    <2>2. CASE recfd[c] # None
      <3>1. recfd[c] \in Fds /\ CloseWith(recfd[c], interest)
        BY <2>2 DEF JInv, TypeOK, DestroyFrees, Close
      <3>2. /\ file' \in [Fds -> {Free} \union {Conn(d) : d \in Clients}
                                       \union {Rec(d) : d \in Clients}]
            /\ \A m \in Fds, d \in Clients : /\ file'[m] = Conn(d) => file[m] = Conn(d)
                                             /\ file'[m] = Rec(d) => file[m] = Rec(d)
            /\ interest' \subseteq interest /\ left \subseteq left' /\ left' \subseteq Fds
        BY <3>1, CloseFacts DEF JInv, TypeOK
      <3>3. \A d \in interest' : jobfd'[d] = jobfd[d]
                                 /\ (file'[jobfd[d]] = Conn(d) => job'[d] = job[d])
        BY <1>1, <1>3, <3>2 DEF JInv, TypeOK, LeftInv
      <3>4. RegisteredIsOwn'
        BY <1>1, <3>1, <3>3, CloseLeavesOwn
      <3>5. LeftInv'
        BY <1>1, <3>1, CloseLeavesLeft
      <3> QED BY <3>2, <3>4, <3>5
    <2> QED BY <2>1, <2>2
  <1>5. TypeOK'
    BY <1>1, <1>4 DEF JInv, TypeOK, WorkerAt
  <1>6. PermitKeptOnlyOnParseError'
    BY <1>1 DEF JInv, TypeOK, PermitKeptOnlyOnParseError, DestroyFrees
  <1>7. HoldInv'
    BY <1>1 DEF JInv, TypeOK, HoldInv, Encoding
  <1>8. NewInv'
    BY <1>1, <1>3, <1>4 DEF JInv, TypeOK, NewInv
  <1>9. SetupInv'
    BY <1>1, <1>3, <1>4 DEF JInv, TypeOK, SetupInv
  <1>10. LifeInv'
    BY <1>1, <1>3, <1>4 DEF JInv, LifeInv, TypeOK, DestroyFrees
  <1>11. PermitsAccounted' /\ FreedOnlyUntold' /\ DataInv'
    BY <1>1, <1>4 DEF JInv, TypeOK, PermitsAccounted, FreedOnlyUntold, DataInv, Holders
  <1> QED
    BY <1>4, <1>5, <1>6, <1>7, <1>8, <1>9, <1>10, <1>11 DEF JInv

\* A stuttering step.
LEMMA StutterKeeps ==
    ASSUME JInv, UNCHANGED vars
    PROVE  JInv'
  <1>1. TypeOK' /\ PermitsAccounted' /\ RegisteredIsOwn' /\ PermitKeptOnlyOnParseError' /\
       FreedOnlyUntold' /\ HoldInv' /\ NewInv' /\ SetupInv' /\ LifeInv' /\ LeftInv' /\ DataInv'
    BY DEF JInv, TypeOK, PermitsAccounted, RegisteredIsOwn, PermitKeptOnlyOnParseError,
       FreedOnlyUntold, HoldInv, NewInv, SetupInv, LifeInv, LeftInv, DataInv, Holders, vars
  <1> QED BY <1>1 DEF JInv

-----------------------------------------------------------------------------
\* server_init: no client is connected and every permit is there.
LEMMA InitJInv == Init => JInv
  <1> SUFFICES ASSUME Init PROVE JInv
    OBVIOUS
  <1>1. TypeOK
    BY JobsAssumption DEF Init, TypeOK, WorkerAt, Sources
  <1>2. PermitsAccounted
    <2>1. Holders = {}
      BY DEF Init, Holders
    <2> QED BY <2>1, FS_EmptySet, JobsAssumption DEF Init, PermitsAccounted
  <1>3. RegisteredIsOwn /\ PermitKeptOnlyOnParseError /\ FreedOnlyUntold
    BY DEF Init, RegisteredIsOwn, PermitKeptOnlyOnParseError, FreedOnlyUntold
  <1>4. HoldInv /\ LifeInv
    BY DEF Init, HoldInv, LifeInv, Encoding
  <1>5. NewInv /\ SetupInv
    BY JobsAssumption DEF Init, NewInv, SetupInv, Free, Conn, Rec
  <1>6. LeftInv /\ DataInv
    BY JobsAssumption DEF Init, LeftInv, DataInv, Free, Conn
  <1> QED BY <1>1, <1>2, <1>3, <1>4, <1>5, <1>6 DEF JInv

\* Every step keeps the inductive invariant.
LEMMA NextJInv == JInv /\ [Next]_vars => JInv'
  <1> SUFFICES ASSUME JInv, [Next]_vars PROVE JInv'
    OBVIOUS
  <1>1. CASE Environment
    BY <1>1, ConnectKeeps, RecordKeeps, ClientCloseKeeps DEF Environment
  <1>2. CASE Reactor
    BY <1>2, EpollWaitKeeps, AcceptKeeps, ConfigRefusedKeeps, StartJobKeeps,
       StartJobFailsKeeps, RegisterKeeps, ReadFailsKeeps, ReadStealsKeeps, ReadEofKeeps,
       ReadBlocksKeeps, ReadReturnsKeeps, TellWorkerKeeps, CloseClientKeeps DEF Reactor
  <1>3. ASSUME NEW c \in Clients, Worker(c) PROVE JInv'
    BY <1>3, OpenRecordingKeeps, OpenFailsKeeps, sem_waitKeeps, TimeSliceKeeps,
       NullInsKeeps, ReadInstructionKeeps, ParseFailsKeeps, ReadAtEndKeeps,
       RecordingGoneKeeps, AtEndKeeps, ForkKeeps, WaitChildKeeps, DestroyClosesFdKeeps,
       DestroyFreesKeeps DEF Worker
  <1>4. ASSUME NEW c \in Clients, FfmpegEnds(c) PROVE JInv'
    BY <1>4, FfmpegEndsKeeps
  <1>5. CASE UNCHANGED vars
    BY <1>5, StutterKeeps
  <1> QED BY <1>1, <1>2, <1>3, <1>4, <1>5 DEF Next

LEMMA Inductive == Spec => []JInv
  BY InitJInv, NextJInv, PTL DEF Spec

\* Every variable keeps its type; the semaphore never exceeds the window.
THEOREM JobsTypeOK == Spec => []TypeOK
  <1>1. JInv => TypeOK
    BY DEF JInv
  <1> QED BY <1>1, Inductive, PTL

\* Permits are neither made nor lost (job_loop_read_recodingfile).
THEOREM WindowKept == Spec => []PermitsAccounted
  <1>1. JInv => PermitsAccounted
    BY DEF JInv, HoldInv
  <1> QED BY <1>1, Inductive, PTL

\* No more workers encode at a time than the window allows.
THEOREM EncodersBounded == Spec => []WindowRespected
  <1>1. JInv => WindowRespected
    <2> SUFFICES ASSUME JInv PROVE WindowRespected
      OBVIOUS
    <2> DEFINE Busy == {c \in Clients : wpc[c] \in Encoding}
    <2>1. Busy \subseteq Holders
      BY DEF JInv, HoldInv, Holders
    <2>2. Cardinality(Busy) \in Nat /\ Cardinality(Busy) <= Cardinality(Holders)
      BY <2>1, HoldersFinite, FS_Subset, FS_CardinalityType
    <2>3. Cardinality(Holders) <= Window
      BY HoldersFinite, JobsAssumption DEF JInv, PermitsAccounted, TypeOK
    <2>4. Cardinality(Busy) <= Window
      BY <2>2, <2>3, HoldersFinite, JobsAssumption
    <2> QED BY <2>4 DEF JInv, HoldInv, WindowRespected
  <1> QED BY <1>1, Inductive, PTL

\* A worker that leaves the loop keeps its permit only because of an instruction
\* that does not parse.
THEOREM PermitReturnedUnlessMalformed == Spec => []PermitKeptOnlyOnParseError
  <1>1. JInv => PermitKeptOnlyOnParseError
    BY DEF JInv
  <1> QED BY <1>1, Inductive, PTL

\* However descriptor numbers are closed twice and given out again by the reactor
\* and the workers, an open registered connection is reported to its own job, and
\* a registration that outlives it is one that a running ffmpeg inherited.
THEOREM RegistrationsOwn == Spec => []RegisteredIsOwn
  <1>1. JInv => RegisteredIsOwn
    BY DEF JInv
  <1> QED BY <1>1, Inductive, PTL

\* A job that was told that its client is gone is not written to after its worker
\* freed it, unless its number was closed while an ffmpeg kept it registered.
THEOREM ToldIsSafe == Spec => []FreedOnlyUntold
  <1>1. JInv => FreedOnlyUntold
    BY DEF JInv
  <1> QED BY <1>1, Inductive, PTL

=============================================================================
