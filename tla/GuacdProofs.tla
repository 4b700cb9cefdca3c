------------------------------ MODULE GuacdProofs -----------------------------
(***************************************************************************)
(* That a user comes into the process it asked for and that the owner of a *)
(* process is its creator, for every number of connections, every choice   *)
(* of which joins which and every number of failures.  The argument is     *)
(* about descriptors: which number is open on which socket, although       *)
(* numbers are closed by one thread and given out again to another.        *)
(* Then, that when nobody can take a step any more processes have ended    *)
(* and clients' sockets are closed, which needs that the threads of users  *)
(* leave a process one after another, and that there are descriptors for   *)
(* everybody.                                                              *)
(***************************************************************************)
EXTENDS Guacd, FiniteSetTheorems, TLAPS

-----------------------------------------------------------------------------
(* Descriptors.                                                            *)

\* A set of natural numbers that is not empty has a least element, and Min is it.
LEMMA MinIn ==
    ASSUME NEW S, S \subseteq Nat, S # {}
    PROVE  Min(S) \in S
  <1>1. \E x \in S : \A y \in S : ~ (<<y, x>> \in OpToRel(<, Nat))
    BY NatLessThanWellFounded, WFMin
  <1>2. \E x \in S : \A y \in S : ~ (y < x)
    BY <1>1 DEF OpToRel
  <1>3. \E x \in S : \A y \in S : x =< y
    BY <1>2
  <1> QED BY <1>3 DEF Min

LEMMA FreeFdsFinite == FreeFds \subseteq Fds /\ IsFiniteSet(FreeFds) /\ Cardinality(FreeFds) \in Nat
  <1>1. FreeFds \subseteq Fds
    BY DEF FreeFds
  <1> QED BY <1>1, GuacdAssumption, FS_Subset, FS_CardinalityType

\* The lowest free number is free, and so is the one after it where there are two.
LEMMA LowestFree == ASSUME FreeFds # {} PROVE Lowest \in FreeFds
  BY MinIn, FreeFdsFinite, GuacdAssumption DEF Lowest

LEMMA SecondFree ==
    ASSUME Cardinality(FreeFds) > 1
    PROVE  Lowest \in FreeFds /\ Second \in FreeFds /\ Second # Lowest
  <1>1. FreeFds # {}
    BY FS_EmptySet
  <1>2. Lowest \in FreeFds
    BY <1>1, LowestFree
  <1>3. Cardinality(FreeFds \ {Lowest}) = Cardinality(FreeFds) - 1
    BY <1>2, FreeFdsFinite, FS_RemoveElement
  <1>4. FreeFds \ {Lowest} # {}
    BY <1>3, FreeFdsFinite, FS_EmptySet
  <1>5. Second \in FreeFds \ {Lowest}
    BY <1>4, MinIn, FreeFdsFinite, GuacdAssumption DEF Second
  <1> QED BY <1>2, <1>5

\* A close of other things leaves the sockets of processes open.
LEMMA ClosedKeeps ==
    ASSUME TypeOK, NEW S, \A p \in Conns : Proc(p) \notin S
    PROVE  /\ Closed(S) \in [Fds -> Things]
           /\ \A n \in Fds, p \in Conns : file[n] = Proc(p) => Closed(S)[n] = Proc(p)
  BY DEF TypeOK, Closed, Things

LEMMA ProcDistinct ==
    /\ \A p, q \in Conns : Proc(p) = Proc(q) => p = q
    /\ \A p, c \in Conns : Proc(p) \notin {Free, Client(c), Near(c), Far(c)}
    /\ \A c \in Conns : {Client(c), Near(c), Far(c), Proc(c)} \subseteq Things
  BY DEF Proc, Free, Client, Near, Far, Things

-----------------------------------------------------------------------------
(* Steps that leave the connection threads alone.                          *)

routing == <<pc, file, fd_socket, map, child, queue, owner, placed, late>>

LEMMA OutsideStep == ASSUME GInv, UNCHANGED routing PROVE GInv'
  <1>1. UNCHANGED <<pc, file, fd_socket, map, child, queue, owner, placed, late>>
    BY DEF routing
  <1>2. TypeOK' /\ ProcInv' /\ MapInv'
    BY <1>1 DEF GInv, TypeOK, ProcInv, MapInv
  <1>3. QueueInv' /\ FirstInv'
    BY <1>1 DEF GInv, QueueInv, FirstInv, Target
  <1>4. RoutedRight' /\ OwnerIsCreator'
    BY <1>1 DEF GInv, RoutedRight, OwnerIsCreator, Target
  <1> QED BY <1>2, <1>3, <1>4 DEF GInv

\* guacd_exec_proc goes on, but does not end.
LEMMA GoesStep ==
    ASSUME GInv, NEW p \in Conns, NEW s \in {"serving", "freeing"},
           child[p] \in {"loading", "serving"}, Goes(p, s)
    PROVE  GInv'
  <1>1. /\ child' = [child EXCEPT ![p] = s]
        /\ UNCHANGED <<pc, file, fd_socket, map, queue, owner, placed, late>>
    BY DEF Goes, connvars, procvars, heldvars, uservars
  <1>2. TypeOK' /\ ProcInv' /\ MapInv'
    BY <1>1 DEF GInv, TypeOK, ProcInv, MapInv
  <1>3. QueueInv' /\ RoutedRight' /\ OwnerIsCreator'
    BY <1>1 DEF GInv, QueueInv, RoutedRight, OwnerIsCreator, Target
  <1>4. FirstInv'
    BY <1>1 DEF GInv, TypeOK, FirstInv
  <1> QED BY <1>2, <1>3, <1>4 DEF GInv

\* A process ends, with all that was under way to it.
LEMMA EndsStep == ASSUME GInv, NEW p \in Conns, Ends(p) PROVE GInv'
  <1>1. /\ child' = [child EXCEPT ![p] = "exited"]
        /\ queue' = [queue EXCEPT ![p] = <<>>]
        /\ placed' = [c \in Conns |-> IF placed[c] = p THEN None ELSE placed[c]]
        /\ owner' = [owner EXCEPT ![p] = None]
        /\ UNCHANGED <<pc, file, fd_socket, map, late>>
    BY DEF Ends, connvars, procvars
  <1>2. TypeOK'
    BY <1>1 DEF GInv, TypeOK
  <1>3. ProcInv' /\ MapInv'
    BY <1>1 DEF GInv, ProcInv, MapInv
  <1>4. QueueInv'
    BY <1>1 DEF GInv, TypeOK, QueueInv, Target
  <1>5. FirstInv'
    BY <1>1 DEF GInv, TypeOK, FirstInv
  <1>6. RoutedRight' /\ OwnerIsCreator'
    BY <1>1 DEF GInv, TypeOK, RoutedRight, OwnerIsCreator, Target
  <1> QED BY <1>2, <1>3, <1>4, <1>5, <1>6 DEF GInv

\* guacd_recv_fd: the user at the head of the queue is placed.
LEMMA ReceiveStep == ASSUME GInv, NEW p \in Conns, Receive(p) PROVE GInv'
  <1> DEFINE c == Head(queue[p])
  <1>1. /\ queue[p] # <<>>
        /\ queue' = [queue EXCEPT ![p] = Tail(@)]
        /\ placed' = [placed EXCEPT ![c] = p]
        /\ owner' = [owner EXCEPT ![p] = IF @ = None THEN c ELSE @]
        /\ UNCHANGED <<pc, file, fd_socket, map, child, late>>
    BY DEF Receive, connvars, procvars
  <1>2. /\ queue[p] \in Seq(Conns) /\ c \in Conns /\ Tail(queue[p]) \in Seq(Conns)
        /\ c = queue[p][1] /\ 1 \in 1..Len(queue[p])
        /\ \A i \in 1..Len(Tail(queue[p])) :
              i + 1 \in 1..Len(queue[p]) /\ Tail(queue[p])[i] = queue[p][i + 1]
    BY <1>1 DEF GInv, TypeOK
  <1>3. c # None
    BY <1>2, GuacdAssumption
  <1>4. TypeOK'
    BY <1>1, <1>2 DEF GInv, TypeOK
  <1>5. ProcInv' /\ MapInv'
    BY <1>1 DEF GInv, ProcInv, MapInv
  <1>6. QueueInv'
    <2> SUFFICES ASSUME NEW q \in Conns, NEW i \in 1..Len(queue'[q])
                 PROVE  queue'[q][i] \in late \/ Target(queue'[q][i]) = q
      BY <1>1 DEF QueueInv, Target
    <2>1. CASE q = p
      BY <1>1, <1>2, <2>1 DEF GInv, TypeOK, QueueInv
    <2>2. CASE q # p
      BY <1>1, <2>2 DEF GInv, TypeOK, QueueInv
    <2> QED BY <2>1, <2>2
  <1>7. FirstInv'
    BY <1>1, <1>2, <1>3 DEF GInv, TypeOK, FirstInv
  <1>8. RoutedRight'
    <2>1. c \in late \/ Target(c) = p
      BY <1>2 DEF GInv, QueueInv
    <2> QED BY <1>1, <1>2, <2>1 DEF GInv, TypeOK, RoutedRight, Target
  <1>9. OwnerIsCreator'
    <2>1. owner[p] = None => c \in {p} \union late
      BY <1>1 DEF GInv, FirstInv
    <2> QED BY <1>1, <1>2, <2>1 DEF GInv, TypeOK, OwnerIsCreator
  <1> QED BY <1>4, <1>5, <1>6, <1>7, <1>8, <1>9 DEF GInv

\* The I/O threads close the client's socket and their end of the pair.
LEMMA IOEndsStep == ASSUME GInv, NEW c \in Conns, IOEnds(c) PROVE GInv'
  <1>1. /\ file' = Closed({Client(c), Near(c)})
        /\ UNCHANGED <<pc, fd_socket, map, child, queue, owner, placed, late>>
    BY DEF IOEnds, connvars, procvars, childvars, heldvars, uservars
  <1>2. /\ file' \in [Fds -> Things]
        /\ \A n \in Fds, p \in Conns : file[n] = Proc(p) => file'[n] = Proc(p)
    BY <1>1, ClosedKeeps, ProcDistinct DEF GInv
  <1>3. TypeOK'
    BY <1>1, <1>2 DEF GInv, TypeOK
  <1>4. ProcInv' /\ MapInv'
    BY <1>1, <1>2 DEF GInv, ProcInv, MapInv
  <1>5. QueueInv' /\ FirstInv' /\ RoutedRight' /\ OwnerIsCreator'
    BY <1>1 DEF GInv, QueueInv, FirstInv, RoutedRight, OwnerIsCreator, Target
  <1> QED BY <1>3, <1>4, <1>5 DEF GInv

-----------------------------------------------------------------------------
(* The connection threads.                                                 *)

LEMMA InitGInv == ASSUME Init PROVE GInv
  <1>1. TypeOK
    BY DEF Init, TypeOK, Things, Free
  <1>2. ProcInv /\ MapInv /\ QueueInv /\ FirstInv
    BY DEF Init, ProcInv, MapInv, QueueInv, FirstInv
  <1>3. RoutedRight /\ OwnerIsCreator
    BY DEF Init, RoutedRight, OwnerIsCreator
  <1> QED BY <1>1, <1>2, <1>3 DEF GInv

\* What a step of the thread of c has to respect, if it neither sends, registers
\* nor removes a process: the sockets of other processes stay open on their
\* numbers, its own until it stops its process, and a join has found its process.
LEMMA ThreadStep ==
    ASSUME GInv, NEW c \in Conns,
           NEW s \in {"select", "pair", "send", "stop", "close", "done"},
           pc' = [pc EXCEPT ![c] = s], pc[c] \notin {"wait"},
           file' \in [Fds -> Things],
           fd_socket' \in [Conns -> Fds \union {None}],
           child' \in [Conns -> {"none", "loading", "serving", "freeing", "exited"}],
           \A p \in Conns \ {c} : fd_socket'[p] = fd_socket[p] /\ child'[p] = child[p],
           \A n \in Fds, p \in Conns \ {c} : file[n] = Proc(p) => file'[n] = Proc(p),
           s \in {"stop", "close"} => Select[c] = "new",
           s \in {"pair", "send", "stop", "close"} /\ Select[c] = "new" => fd_socket'[c] \in Fds,
           s \in {"pair", "send", "stop"} /\ Select[c] = "new" =>
              file'[fd_socket'[c]] = Proc(c),
           pc[c] \in {"stop", "close", "done"} => s \in {"close", "done"},
           s \in {"pair", "send"} /\ Select[c] # "new" =>
              \/ Select[c] \in map
              \/ c \in late /\ pc[Select[c]] \in {"stop", "close", "done"},
           UNCHANGED <<map, queue, owner, placed, late>>
    PROVE  GInv'
  <1>1. TypeOK'
    BY DEF GInv, TypeOK
  <1>2. ProcInv'
    BY DEF GInv, TypeOK, ProcInv
  <1>3. MapInv'
    BY DEF GInv, TypeOK, MapInv
  <1>4. QueueInv' /\ RoutedRight' /\ OwnerIsCreator'
    BY DEF GInv, QueueInv, RoutedRight, OwnerIsCreator, Target
  <1>5. FirstInv'
    BY DEF GInv, TypeOK, FirstInv
  <1> QED BY <1>1, <1>2, <1>3, <1>4, <1>5 DEF GInv

LEMMA AcceptStep == ASSUME GInv, NEW c \in Conns, Accept(c) PROVE GInv'
  <1>1. /\ pc[c] = "none" /\ FreeFds # {}
        /\ file' = [file EXCEPT ![Lowest] = Client(c)]
        /\ pc' = [pc EXCEPT ![c] = "select"]
        /\ UNCHANGED <<fd_socket, map, child, queue, owner, placed, late>>
    BY DEF Accept, procvars, childvars, heldvars, uservars
  <1>2. Lowest \in Fds /\ file[Lowest] = Free
    BY <1>1, LowestFree DEF FreeFds
  <1>3. file' \in [Fds -> Things]
    BY <1>1, <1>2, ProcDistinct DEF GInv, TypeOK
  <1>4. \A n \in Fds, p \in Conns : file[n] = Proc(p) => file'[n] = Proc(p)
    BY <1>1, <1>2, ProcDistinct DEF GInv, TypeOK
  <1> QED BY <1>1, <1>3, <1>4, ThreadStep DEF GInv, TypeOK

\* The connection is refused: its socket is freed, its thread ends.
LEMMA RefusedStep ==
    ASSUME GInv, NEW c \in Conns, Refused(c), pc[c] # "wait",
           UNCHANGED <<fd_socket, map, child, queue, owner, placed, late>>
    PROVE  GInv'
  <1>1. file' = Closed({Client(c)}) /\ pc' = [pc EXCEPT ![c] = "done"]
    BY DEF Refused
  <1>2. /\ file' \in [Fds -> Things]
        /\ \A n \in Fds, p \in Conns : file[n] = Proc(p) => file'[n] = Proc(p)
    BY <1>1, ClosedKeeps, ProcDistinct DEF GInv
  <1> QED BY <1>1, <1>2, ThreadStep DEF GInv, TypeOK

LEMMA SelectNewStep == ASSUME GInv, NEW c \in Conns, SelectNew(c) PROVE GInv'
  <1>1. /\ pc[c] = "select" /\ Select[c] = "new" /\ Cardinality(FreeFds) > 1
        /\ file' = [file EXCEPT ![Second] = Proc(c)]
        /\ fd_socket' = [fd_socket EXCEPT ![c] = Second]
        /\ child' = [child EXCEPT ![c] = "loading"]
        /\ pc' = [pc EXCEPT ![c] = "pair"]
        /\ UNCHANGED <<map, queue, owner, placed, late>>
    BY DEF SelectNew, uservars
  <1>2. Second \in Fds /\ file[Second] = Free
    BY <1>1, SecondFree DEF FreeFds
  <1>3. file' \in [Fds -> Things] /\ file'[Second] = Proc(c)
    BY <1>1, <1>2, ProcDistinct DEF GInv, TypeOK
  <1>4. \A n \in Fds, p \in Conns : file[n] = Proc(p) => file'[n] = Proc(p)
    BY <1>1, <1>2, ProcDistinct DEF GInv, TypeOK
  <1>5. /\ fd_socket' \in [Conns -> Fds \union {None}] /\ fd_socket'[c] = Second
        /\ child' \in [Conns -> {"none", "loading", "serving", "freeing", "exited"}]
        /\ \A p \in Conns \ {c} : fd_socket'[p] = fd_socket[p] /\ child'[p] = child[p]
    BY <1>1, <1>2 DEF GInv, TypeOK
  <1> QED BY <1>1, <1>2, <1>3, <1>4, <1>5, ThreadStep

LEMMA SelectJoinStep == ASSUME GInv, NEW c \in Conns, SelectJoin(c) PROVE GInv'
  <1>1. /\ pc[c] = "select" /\ Select[c] # "new"
        /\ UNCHANGED <<fd_socket, map, child, queue, owner, placed, late>>
    BY DEF SelectJoin, procvars, childvars, heldvars, uservars
  <1>2. CASE Select[c] \in map
    <2>1. pc' = [pc EXCEPT ![c] = "pair"] /\ file' = file
      BY <1>2 DEF SelectJoin
    <2> QED BY <1>1, <1>2, <2>1, ThreadStep DEF GInv, TypeOK
  <1>3. CASE Select[c] \notin map
    BY <1>1, <1>3, RefusedStep DEF SelectJoin
  <1> QED BY <1>2, <1>3

LEMMA PairStep == ASSUME GInv, NEW c \in Conns, Pair(c) PROVE GInv'
  <1>1. /\ pc[c] = "pair" /\ Cardinality(FreeFds) > 1
        /\ file' = [file EXCEPT ![Lowest] = Near(c), ![Second] = Far(c)]
        /\ pc' = [pc EXCEPT ![c] = "send"]
        /\ UNCHANGED <<fd_socket, map, child, queue, owner, placed, late>>
    BY DEF Pair, procvars, childvars, heldvars, uservars
  <1>2. Lowest \in Fds /\ file[Lowest] = Free /\ Second \in Fds /\ file[Second] = Free
    BY <1>1, SecondFree DEF FreeFds
  <1>3. file' \in [Fds -> Things]
    BY <1>1, <1>2, ProcDistinct DEF GInv, TypeOK
  <1>4. \A n \in Fds, p \in Conns : file[n] = Proc(p) => file'[n] = Proc(p)
    BY <1>1, <1>2, ProcDistinct DEF GInv, TypeOK
  <1>5. Select[c] = "new" => fd_socket[c] \in Fds /\ file[fd_socket[c]] = Proc(c)
    BY <1>1 DEF GInv, ProcInv
  <1>6. Select[c] # "new" => \/ Select[c] \in map
                             \/ c \in late /\ pc[Select[c]] \in {"stop", "close", "done"}
    BY <1>1 DEF GInv, MapInv
  <1> QED BY <1>1, <1>3, <1>4, <1>5, <1>6, ThreadStep DEF GInv, TypeOK

\* guacd_add_user fails: the creator goes on to stop its process.
LEMMA AddUserFailedStep ==
    ASSUME GInv, NEW c \in Conns, AddUserFailed(c), pc[c] \in {"pair", "send"},
           UNCHANGED <<fd_socket, map, child, owner, placed, late>>
    PROVE  GInv'
  <1>1. CASE Select[c] = "new"
    <2>1. pc' = [pc EXCEPT ![c] = "stop"] /\ file' = file /\ queue' = queue
      BY <1>1 DEF AddUserFailed
    <2>2. fd_socket[c] \in Fds /\ file[fd_socket[c]] = Proc(c)
      BY <1>1 DEF GInv, ProcInv
    <2> QED BY <1>1, <2>1, <2>2, ThreadStep DEF GInv, TypeOK
  <1>2. CASE Select[c] # "new"
    BY <1>2, RefusedStep DEF AddUserFailed
  <1> QED BY <1>1, <1>2

\* Until it is late, a user has the number of the socket of its process.
LEMMA TargetOpen ==
    ASSUME GInv, NEW c \in Conns, pc[c] = "send", c \notin late \/ Select[c] = "new"
    PROVE  /\ Target(c) \in Conns /\ file[fd_socket[Target(c)]] = Proc(Target(c))
           /\ Target(c) # c => pc[Target(c)] = "wait"
  <1>1. CASE Select[c] = "new"
    BY <1>1 DEF GInv, ProcInv, Target
  <1>2. CASE Select[c] # "new"
    <2>1. Select[c] \in map /\ Select[c] \in Conns /\ pc[Select[c]] = "wait"
      BY <1>2 DEF GInv, TypeOK, MapInv
    <2> QED BY <1>2, <2>1 DEF GInv, ProcInv, Target
  <1> QED BY <1>1, <1>2

\* What is appended to a queue is its last element, and its first if it was empty.
LEMMA Appended ==
    ASSUME NEW q \in Seq(Conns), NEW c \in Conns
    PROVE  /\ Append(q, c) \in Seq(Conns)
           /\ Len(Append(q, c)) = Len(q) + 1 /\ Append(q, c) # <<>>
           /\ \A i \in 1..Len(q) : Append(q, c)[i] = q[i]
           /\ Append(q, c)[Len(q) + 1] = c
           /\ Head(Append(q, c)) = IF q = <<>> THEN c ELSE Head(q)
  OBVIOUS

\* guacd_send_fd succeeds.
LEMMA SentStep ==
    ASSUME GInv, NEW c \in Conns, pc[c] = "send", NEW p,
           c \notin late \/ Select[c] = "new" => p = Target(c),
           p \in Conns => child[p] # "exited",
           queue' = [queue EXCEPT ![p] = Append(@, c)],
           file' = Closed({Far(c)}),
           pc' = [pc EXCEPT ![c] = IF Select[c] = "new" THEN "register" ELSE "done"],
           UNCHANGED <<fd_socket, map, child, owner, placed, late>>
    PROVE  GInv'
  <1>1. /\ file' \in [Fds -> Things]
        /\ \A n \in Fds, q \in Conns : file[n] = Proc(q) => file'[n] = Proc(q)
    BY ClosedKeeps, ProcDistinct DEF GInv
  <1>2. /\ queue' \in [Conns -> Seq(Conns)]
        /\ \A q \in Conns \ {p} : queue'[q] = queue[q]
        /\ p \in Conns => /\ queue'[p] = Append(queue[p], c)
                          /\ Len(queue'[p]) = Len(queue[p]) + 1 /\ queue'[p] # <<>>
                          /\ \A i \in 1..Len(queue[p]) : queue'[p][i] = queue[p][i]
                          /\ queue'[p][Len(queue[p]) + 1] = c
                          /\ Head(queue'[p]) = IF queue[p] = <<>> THEN c ELSE Head(queue[p])
    <2>1. queue \in [Conns -> Seq(Conns)]
      BY DEF GInv, TypeOK
    <2>2. CASE p \in Conns
      <3>1. queue'[p] = Append(queue[p], c) /\ \A q \in Conns \ {p} : queue'[q] = queue[q]
        BY <2>1, <2>2
      <3>2. queue[p] \in Seq(Conns)
        BY <2>1, <2>2
      <3>3. queue' \in [Conns -> Seq(Conns)]
        BY <2>1, <3>1, <3>2, Appended
      <3> QED BY <3>1, <3>2, <3>3, Appended
    <2>3. CASE p \notin Conns
      BY <2>1, <2>3
    <2> QED BY <2>2, <2>3
  <1>3. TypeOK'
    BY <1>1, <1>2 DEF GInv, TypeOK
  <1>4. ProcInv'
    BY <1>1 DEF GInv, TypeOK, ProcInv
  <1>5. MapInv'
    BY DEF GInv, TypeOK, MapInv
  <1>6. QueueInv'
    <2> SUFFICES ASSUME NEW q \in Conns, NEW i \in 1..Len(queue'[q])
                 PROVE  queue'[q][i] \in late \/ Target(queue'[q][i]) = q
      BY DEF QueueInv, Target
    <2>1. CASE q # p \/ i \in 1..Len(queue[q])
      BY <1>2, <2>1 DEF GInv, QueueInv
    <2>2. CASE q = p /\ i = Len(queue[q]) + 1
      BY <1>2, <2>2
    <2> QED BY <1>2, <2>1, <2>2 DEF GInv, TypeOK
  <1>7. FirstInv'
    <2> SUFFICES ASSUME NEW q \in Conns
                 PROVE  /\ owner[q] = None /\ queue'[q] # <<>> => Head(queue'[q]) \in {q} \union late
                        /\ pc'[q] \in {"register", "wait"} /\ child[q] # "exited" =>
                              owner[q] # None \/ queue'[q] # <<>>
      BY DEF FirstInv
    <2>1. CASE q = p
      <3>1. c \notin late /\ c # p => pc[p] = "wait"
        BY <2>1, TargetOpen
      <3>2. owner[p] = None /\ queue[p] = <<>> => c \in {p} \union late
        BY <2>1, <3>1 DEF GInv, FirstInv
      <3> QED BY <1>2, <2>1, <3>2 DEF GInv, FirstInv
    <2>2. CASE q # p
      <3>1. pc'[q] \in {"register", "wait"} => pc[q] \in {"register", "wait"}
        BY <2>2 DEF GInv, TypeOK, Target
      <3> QED BY <1>2, <2>2, <3>1 DEF GInv, FirstInv
    <2> QED BY <2>1, <2>2
  <1>8. RoutedRight' /\ OwnerIsCreator'
    BY DEF GInv, RoutedRight, OwnerIsCreator, Target
  <1> QED BY <1>3, <1>4, <1>5, <1>6, <1>7, <1>8 DEF GInv

LEMMA SendStep == ASSUME GInv, NEW c \in Conns, Send(c) PROVE GInv'
  <1> DEFINE freed == pc[Target(c)] = "done"
             at == IF freed THEN Free ELSE file[fd_socket[Target(c)]]
             p == at[2]
  <1>1. pc[c] = "send" /\ UNCHANGED <<fd_socket, map, child, owner, placed, late>>
    BY DEF Send, procvars, childvars, uservars
  <1>2. CASE undefined' = TRUE /\ UNCHANGED <<pc, failed, io, file, queue>>
    BY <1>1, <1>2, OutsideStep DEF routing
  <1>3. CASE /\ ~freed /\ at[1] = "proc" /\ child[p] # "exited" /\ p \notin shut
             /\ queue' = [queue EXCEPT ![p] = Append(@, c)]
             /\ file' = Closed({Far(c)})
             /\ io' = [io EXCEPT ![c] = TRUE]
             /\ pc' = [pc EXCEPT ![c] = IF Select[c] = "new" THEN "register" ELSE "done"]
             /\ UNCHANGED <<failed, undefined>>
    <2>1. c \notin late \/ Select[c] = "new" => p = Target(c)
      <3>1. at = file[fd_socket[Target(c)]]
        BY <1>3
      <3> HIDE DEF at
      <3>2. c \notin late \/ Select[c] = "new" => at = <<"proc", Target(c)>>
        BY <1>1, <3>1, TargetOpen DEF Proc
      <3> QED BY <3>2
    <2> HIDE DEF p
    <2> QED BY <1>1, <1>3, <2>1, SentStep
  <1>4. CASE AddUserFailed(c)
    BY <1>1, <1>4, AddUserFailedStep
  <1> QED BY <1>2, <1>3, <1>4 DEF Send

LEMMA RegisterStep == ASSUME GInv, NEW c \in Conns, Register(c) PROVE GInv'
  <1>1. /\ pc[c] = "register"
        /\ map' = map \union {c}
        /\ pc' = [pc EXCEPT ![c] = "wait"]
        /\ UNCHANGED <<file, fd_socket, child, queue, owner, placed, late>>
    BY DEF Register, childvars, heldvars, uservars
  <1>2. TypeOK' /\ ProcInv'
    BY <1>1 DEF GInv, TypeOK, ProcInv
  <1>3. MapInv' /\ FirstInv'
    BY <1>1 DEF GInv, TypeOK, MapInv, FirstInv
  <1>4. QueueInv' /\ RoutedRight' /\ OwnerIsCreator'
    BY <1>1 DEF GInv, QueueInv, RoutedRight, OwnerIsCreator, Target
  <1> QED BY <1>2, <1>3, <1>4 DEF GInv

\* guacd_proc_map_remove: whoever holds the process by now is late.
LEMMA RemoveStep == ASSUME GInv, NEW c \in Conns, Remove(c) PROVE GInv'
  <1>1. /\ pc[c] = "wait"
        /\ map' = map \ {c}
        /\ late' = late \union {d \in Conns : Target(d) = c /\ pc[d] \in {"pair", "send"}}
        /\ pc' = [pc EXCEPT ![c] = "stop"]
        /\ UNCHANGED <<file, fd_socket, child, queue, owner, placed>>
    BY DEF Remove, childvars, heldvars, uservars
  <1>2. late \subseteq late' /\ late' \subseteq Conns
    BY <1>1 DEF GInv, TypeOK
  <1>3. TypeOK' /\ ProcInv'
    BY <1>1, <1>2 DEF GInv, TypeOK, ProcInv
  <1>4. MapInv'
    BY <1>1 DEF GInv, TypeOK, MapInv, Target
  <1>5. QueueInv' /\ FirstInv'
    BY <1>1, <1>2 DEF GInv, TypeOK, QueueInv, FirstInv, Target
  <1>6. RoutedRight' /\ OwnerIsCreator'
    BY <1>1, <1>2 DEF GInv, RoutedRight, OwnerIsCreator, Target
  <1> QED BY <1>3, <1>4, <1>5, <1>6 DEF GInv

\* guacd_proc_stop closes the number of its own process and of no other.
LEMMA StopStep == ASSUME GInv, NEW c \in Conns, Stop(c) PROVE GInv'
  <1>1. /\ pc[c] = "stop"
        /\ file' = [file EXCEPT ![fd_socket[c]] = Free]
        /\ pc' = [pc EXCEPT ![c] = "close"]
        /\ UNCHANGED <<fd_socket, map, child, queue, owner, placed, late>>
    BY DEF Stop, procvars, childvars, heldvars, uservars
  <1>2. Select[c] = "new" /\ fd_socket[c] \in Fds /\ file[fd_socket[c]] = Proc(c)
    BY <1>1 DEF GInv, ProcInv
  <1>3. file' \in [Fds -> Things]
    BY <1>1, <1>2 DEF GInv, TypeOK, Things
  <1>4. \A n \in Fds, p \in Conns \ {c} : file[n] = Proc(p) => file'[n] = Proc(p)
    BY <1>1, <1>2, ProcDistinct DEF GInv, TypeOK
  <1> QED BY <1>1, <1>2, <1>3, <1>4, ThreadStep DEF GInv, TypeOK

LEMMA CloseAgainStep == ASSUME GInv, NEW c \in Conns, CloseAgain(c) PROVE GInv'
  <1>1. /\ pc[c] = "close"
        /\ pc' = [pc EXCEPT ![c] = "done"]
        /\ file' = file \/ file' = Closed({Client(c)})
        /\ fd_socket' = [fd_socket EXCEPT ![c] = None]
        /\ UNCHANGED <<map, child, queue, owner, placed, late>>
    BY DEF CloseAgain, childvars, heldvars, uservars
  <1>2. /\ file' \in [Fds -> Things]
        /\ \A n \in Fds, p \in Conns : file[n] = Proc(p) => file'[n] = Proc(p)
    BY <1>1, ClosedKeeps, ProcDistinct DEF GInv, TypeOK
  <1>3. /\ fd_socket' \in [Conns -> Fds \union {None}]
        /\ \A p \in Conns \ {c} : fd_socket'[p] = fd_socket[p] /\ child'[p] = child[p]
    BY <1>1 DEF GInv, TypeOK
  <1>4. child' \in [Conns -> {"none", "loading", "serving", "freeing", "exited"}]
    BY <1>1 DEF GInv, TypeOK
  <1>5. Select[c] = "new" /\ pc[c] \notin {"wait"}
    BY <1>1 DEF GInv, ProcInv
  <1>6. UNCHANGED <<map, queue, owner, placed, late>>
    BY <1>1
  <1>7. pc' = [pc EXCEPT ![c] = "done"]
    BY <1>1
  <1> QED BY <1>2, <1>3, <1>4, <1>5, <1>6, <1>7, ThreadStep

-----------------------------------------------------------------------------
LEMMA RouteStep == ASSUME GInv, NEW c \in Conns, Route(c) PROVE GInv'
  <1>1. ASSUME SelectFails(c) PROVE GInv'
    BY <1>1, RefusedStep DEF SelectFails, procvars, childvars, heldvars, uservars
  <1>2. ASSUME PairFails(c) PROVE GInv'
    BY <1>2, AddUserFailedStep DEF PairFails, procvars, childvars, uservars
  <1> QED BY <1>1, <1>2, SelectNewStep, SelectJoinStep, PairStep, SendStep, RegisterStep,
             RemoveStep, StopStep, CloseAgainStep DEF Route

LEMMA ExecProcStep == ASSUME GInv, NEW p \in Conns, ExecProc(p) \/ Dies(p) PROVE GInv'
  BY GoesStep, ReceiveStep, EndsStep
     DEF ExecProc, Dies, Load, LoadFails, ReceiveFails, Exit

LEMMA UserThreadStep == ASSUME GInv, NEW c \in Conns, UserThread(c) PROVE GInv'
  <1>1. UNCHANGED routing
    BY DEF UserThread, Joins, JoinFails, Leaves, UserGoes, CheckLast, routing, connvars,
           procvars, childvars, heldvars
  <1> QED BY <1>1, OutsideStep

LEMMA NextGInv == ASSUME GInv, [Next]_vars PROVE GInv'
  <1>1. ASSUME UNCHANGED vars PROVE GInv'
    <2>1. UNCHANGED routing
      BY <1>1 DEF vars, routing, connvars, procvars, childvars, heldvars, uservars
    <2> QED BY <2>1, OutsideStep
  <1> QED BY <1>1, AcceptStep, RouteStep, IOEndsStep, ExecProcStep, UserThreadStep DEF Next

LEMMA GuacdInvariant == Spec => []GInv
  BY InitGInv, NextGInv, PTL DEF Spec

\* A user is in the process it asked for, whatever connections, joins, failures and ends
\* of processes interleave and however the numbers of descriptors are used again; the
\* only exceptions are joins whose process has left the map between
\* guacd_proc_map_retrieve and guacd_send_fd.
THEOREM UsersRouted == Spec => []RoutedRight
  <1>1. GInv => RoutedRight
    BY DEF GInv
  <1> QED BY <1>1, GuacdInvariant, PTL

\* The owner of a process is the connection that created it (or, again, a late join):
\* guacd_proc_map_add follows guacd_send_fd of the creator, and no descriptor of
\* another user overtakes it.
THEOREM CreatorOwns == Spec => []OwnerIsCreator
  <1>1. GInv => OwnerIsCreator
    BY DEF GInv
  <1> QED BY <1>1, GuacdInvariant, PTL

-----------------------------------------------------------------------------
(* What every thread leaves behind: EInv.                                  *)

\* A thread moves on in the code of guacd_connection_thread.
Onward ==
    \A c \in Conns :
        /\ pc[c] # "none" => pc'[c] # "none"
        /\ pc[c] \notin {"none", "select"} => pc'[c] \notin {"none", "select"}
        /\ pc[c] \notin {"none", "select", "pair"} => pc'[c] \notin {"none", "select", "pair"}
        /\ pc[c] \in Sent => pc'[c] \in Sent

LEMMA ThingsDistinct ==
    /\ \A c, d \in Conns :
          /\ Client(c) = Client(d) => c = d
          /\ Near(c) = Near(d) => c = d
          /\ Far(c) = Far(d) => c = d
          /\ Proc(c) = Proc(d) => c = d
          /\ Client(c) \notin {Near(d), Far(d), Proc(d)}
          /\ Near(c) \notin {Far(d), Proc(d)}
          /\ Far(c) # Proc(d)
    /\ \A c \in Conns : Free \notin {Client(c), Near(c), Far(c), Proc(c)}
  BY DEF Client, Near, Far, Proc, Free

\* Who moves on, or closes things, leaves the users where they are.
LEMMA UsersStay ==
    ASSUME EInv, Onward, UNCHANGED <<queue, owner, shut, user, placed>>
    PROVE  OnceInv' /\ ServedInv'
  <1>1. OnceInv'
    <2>1. \A p \in Conns : \A i \in 1..Len(queue[p]) : queue[p][i] \in Conns
      BY DEF EInv, GInv, TypeOK
    <2> QED BY <2>1 DEF EInv, OnceInv, Onward, Live
  <1>2. ServedInv'
    BY DEF EInv, ServedInv, Live
  <1> QED BY <1>1, <1>2

LEMMA FilesClosed ==
    ASSUME EInv, Onward, \A n \in Fds : file'[n] \in {file[n], Free},
           \A p \in Conns : child[p] # "none" => child'[p] # "none"
    PROVE  FileInv'
  <1>1. \A m, n \in Fds : file'[m] = file'[n] /\ file'[m] # Free => m = n
    BY DEF EInv, FileInv
  <1>2. ASSUME NEW c \in Conns, NEW n \in Fds
        PROVE  /\ file'[n] = Client(c) => pc'[c] # "none"
               /\ file'[n] = Proc(c) => pc'[c] \notin {"none", "select"} /\ child'[c] # "none"
               /\ file'[n] \in {Near(c), Far(c)} => pc'[c] \notin {"none", "select", "pair"}
    <2>1. CASE file'[n] = Free
      BY <2>1, ThingsDistinct
    <2>2. CASE file'[n] = file[n]
      BY <2>2 DEF EInv, FileInv, Onward
    <2> QED BY <2>1, <2>2
  <1> QED BY <1>1, <1>2 DEF FileInv, Client, Proc, Near, Far, Free

\* What a thread of the daemon leaves alone in the processes.
processes == <<child, shut, queue, owner, user, placed, heldFar, heldClient>>

LEMMA ProcessesStay ==
    ASSUME EInv, Onward, UNCHANGED processes,
           io' \in [Conns -> BOOLEAN], failed' \in [Conns -> BOOLEAN]
    PROVE  UserTypeOK' /\ ChildInv' /\ OnceInv' /\ ServedInv'
  <1>1. UNCHANGED <<child, shut, queue, owner, user, placed, heldFar, heldClient>>
    BY DEF processes
  <1>2. OnceInv' /\ ServedInv'
    BY <1>1, UsersStay
  <1>3. UserTypeOK'
    BY <1>1 DEF EInv, UserTypeOK, Live
  <1>4. ChildInv'
    BY <1>1 DEF EInv, ChildInv, Onward
  <1> QED BY <1>2, <1>3, <1>4

LEMMA InitEInv == ASSUME Init PROVE EInv
  <1>1. UserTypeOK
    BY DEF Init, UserTypeOK, Live
  <1>2. FileInv
    BY ThingsDistinct DEF Init, FileInv
  <1>3. ClientInv /\ ChildInv
    BY DEF Init, ClientInv, ChildInv, Sent
  <1>4. OnceInv /\ ServedInv
    BY DEF Init, OnceInv, ServedInv, Live
  <1> QED BY <1>1, <1>2, <1>3, <1>4, InitGInv DEF EInv

\* Nothing of what EInv is about changes, or what follows is not defined.
LEMMA EInvStays ==
    ASSUME EInv, GInv', UNCHANGED processes, UNCHANGED <<pc, failed, io, file>>,
           undefined => undefined'
    PROVE  EInv'
  <1>1. Onward
    BY DEF Onward
  <1>2. UserTypeOK' /\ ChildInv' /\ OnceInv' /\ ServedInv'
    BY <1>1, ProcessesStay DEF EInv, UserTypeOK
  <1>3. FileInv'
    BY <1>1, FilesClosed DEF EInv, GInv, TypeOK, processes
  <1>4. ClientInv'
    BY DEF EInv, ClientInv, Client, Far
  <1> QED BY <1>2, <1>3, <1>4 DEF EInv

LEMMA AcceptEInv == ASSUME EInv, GInv', NEW c \in Conns, Accept(c) PROVE EInv'
  <1>1. /\ pc[c] = "none" /\ FreeFds # {}
        /\ file' = [file EXCEPT ![Lowest] = Client(c)]
        /\ pc' = [pc EXCEPT ![c] = "select"]
        /\ UNCHANGED <<failed, io, undefined>> /\ UNCHANGED processes
    BY DEF Accept, procvars, childvars, heldvars, uservars, processes
  <1>2. Lowest \in Fds /\ file[Lowest] = Free
    BY <1>1, LowestFree DEF FreeFds
  <1>3. /\ pc'[c] = "select" /\ \A d \in Conns \ {c} : pc'[d] = pc[d]
        /\ file'[Lowest] = Client(c) /\ \A n \in Fds \ {Lowest} : file'[n] = file[n]
    BY <1>1, <1>2 DEF EInv, GInv, TypeOK
  <1>4. Onward
    BY <1>1, <1>3 DEF Onward, Sent
  <1>5. UserTypeOK' /\ ChildInv' /\ OnceInv' /\ ServedInv'
    BY <1>1, <1>4, ProcessesStay DEF EInv, UserTypeOK
  <1>6. child' = child /\ \A n \in Fds : file[n] # Client(c)
    BY <1>1 DEF EInv, FileInv, processes
  <1>7. FileInv'
    <2>1. \A m, n \in Fds : file'[m] = file'[n] /\ file'[m] # Free => m = n
      BY <1>2, <1>3, <1>6 DEF EInv, FileInv
    <2>2. ASSUME NEW d \in Conns, NEW n \in Fds
          PROVE  /\ file'[n] = Client(d) => pc'[d] # "none"
                 /\ file'[n] = Proc(d) => pc'[d] \notin {"none", "select"} /\ child'[d] # "none"
                 /\ file'[n] \in {Near(d), Far(d)} => pc'[d] \notin {"none", "select", "pair"}
      <3>1. CASE n = Lowest
        BY <1>3, <3>1, ThingsDistinct
      <3>2. CASE n # Lowest
        BY <1>3, <1>4, <1>6, <3>2 DEF EInv, FileInv, Onward
      <3> QED BY <3>1, <3>2
    <2> QED BY <2>1, <2>2 DEF FileInv, Client, Proc, Near, Far, Free
  <1>8. ClientInv'
    <2> SUFFICES ASSUME ~ undefined, NEW d \in Conns, NEW n \in Fds
                 PROVE  /\ file'[n] = Client(d) /\ pc'[d] \in Sent =>
                              io[d] \/ (failed[d] /\ pc'[d] \in {"stop", "close"})
                        /\ io[d] => pc'[d] \in Sent /\ file'[n] # Far(d)
      BY <1>1 DEF ClientInv, Client, Far
    <2>1. CASE d = c
      BY <1>1, <1>3, <2>1 DEF EInv, ClientInv, Sent
    <2>2. CASE d # c
      BY <1>3, <2>2, ThingsDistinct DEF EInv, ClientInv
    <2> QED BY <2>1, <2>2
  <1> QED BY <1>5, <1>7, <1>8 DEF EInv

\* The connection is refused.
LEMMA RefusedEInv ==
    ASSUME EInv, GInv', NEW c \in Conns, Refused(c), pc[c] \in {"select", "pair", "send"},
           UNCHANGED <<failed, io, undefined>>, UNCHANGED processes
    PROVE  EInv'
  <1>1. file' = Closed({Client(c)}) /\ pc' = [pc EXCEPT ![c] = "done"]
    BY DEF Refused
  <1>2. /\ pc'[c] = "done" /\ \A d \in Conns \ {c} : pc'[d] = pc[d]
        /\ \A n \in Fds : file'[n] = IF file[n] = Client(c) THEN Free ELSE file[n]
    BY <1>1 DEF EInv, GInv, TypeOK, Closed
  <1>3. Onward
    BY <1>2 DEF Onward, Sent
  <1>4. UserTypeOK' /\ ChildInv' /\ OnceInv' /\ ServedInv'
    BY <1>3, ProcessesStay DEF EInv, UserTypeOK
  <1>5. FileInv'
    BY <1>2, <1>3, FilesClosed DEF processes
  <1>6. ClientInv'
    <2> SUFFICES ASSUME ~ undefined, NEW d \in Conns, NEW n \in Fds
                 PROVE  /\ file'[n] = Client(d) /\ pc'[d] \in Sent =>
                              io[d] \/ (failed[d] /\ pc'[d] \in {"stop", "close"})
                        /\ io[d] => pc'[d] \in Sent /\ file'[n] # Far(d)
      BY DEF ClientInv, Client, Far
    <2>1. CASE d = c
      BY <1>2, <2>1, ThingsDistinct DEF EInv, ClientInv, Sent
    <2>2. CASE d # c
      BY <1>2, <2>2, ThingsDistinct DEF EInv, ClientInv
    <2> QED BY <2>1, <2>2
  <1> QED BY <1>4, <1>5, <1>6 DEF EInv

LEMMA SelectNewEInv == ASSUME EInv, GInv', NEW c \in Conns, SelectNew(c) PROVE EInv'
  <1>1. /\ pc[c] = "select" /\ Cardinality(FreeFds) > 1
        /\ file' = [file EXCEPT ![Second] = Proc(c)]
        /\ child' = [child EXCEPT ![c] = "loading"]
        /\ heldFar' = [heldFar EXCEPT ![c] = {d \in Conns : InDaemon(Far(d))}]
        /\ heldClient' = [heldClient EXCEPT ![c] = {d \in Conns : InDaemon(Client(d))}]
        /\ pc' = [pc EXCEPT ![c] = "pair"]
        /\ UNCHANGED <<failed, io, undefined, shut, owner, queue, user, placed>>
    BY DEF SelectNew, uservars
  <1>2. Second \in Fds /\ file[Second] = Free
    BY <1>1, SecondFree DEF FreeFds
  <1>3. /\ pc'[c] = "pair" /\ \A d \in Conns \ {c} : pc'[d] = pc[d]
        /\ child'[c] = "loading" /\ \A d \in Conns \ {c} : child'[d] = child[d]
        /\ file'[Second] = Proc(c) /\ \A n \in Fds \ {Second} : file'[n] = file[n]
    BY <1>1, <1>2 DEF EInv, GInv, TypeOK
  <1>4. Onward
    BY <1>1, <1>3 DEF Onward, Sent
  <1>5. UserTypeOK'
    BY <1>1 DEF EInv, UserTypeOK, Live
  <1>6. OnceInv' /\ ServedInv'
    BY <1>1, <1>4, UsersStay
  <1>7. ChildInv'
    <2> SUFFICES ASSUME NEW p \in Conns
                 PROVE  /\ child'[p] # "none" => pc'[p] \notin {"none", "select"}
                        /\ child'[p] \in {"none", "exited"} =>
                              queue[p] = <<>> /\ heldFar'[p] = {} /\ heldClient'[p] = {}
                                /\ owner[p] = None
      BY <1>1 DEF ChildInv
    <2>1. CASE p = c
      BY <1>3, <2>1
    <2>2. CASE p # c
      BY <1>1, <1>3, <2>2 DEF EInv, ChildInv, UserTypeOK
    <2> QED BY <2>1, <2>2
  <1>8. FileInv'
    <2>1. \A n \in Fds : file[n] # Proc(c)
      BY <1>1 DEF EInv, FileInv
    <2>2. \A m, n \in Fds : file'[m] = file'[n] /\ file'[m] # Free => m = n
      BY <1>2, <1>3, <2>1 DEF EInv, FileInv
    <2>3. ASSUME NEW d \in Conns, NEW n \in Fds
          PROVE  /\ file'[n] = Client(d) => pc'[d] # "none"
                 /\ file'[n] = Proc(d) => pc'[d] \notin {"none", "select"} /\ child'[d] # "none"
                 /\ file'[n] \in {Near(d), Far(d)} => pc'[d] \notin {"none", "select", "pair"}
      <3>1. CASE n = Second
        BY <1>3, <3>1, ThingsDistinct
      <3>2. CASE n # Second
        BY <1>3, <1>4, <3>2 DEF EInv, FileInv, Onward
      <3> QED BY <3>1, <3>2
    <2> QED BY <2>2, <2>3 DEF FileInv, Client, Proc, Near, Far, Free
  <1>9. ClientInv'
    <2> SUFFICES ASSUME ~ undefined, NEW d \in Conns, NEW n \in Fds
                 PROVE  /\ file'[n] = Client(d) /\ pc'[d] \in Sent =>
                              io[d] \/ (failed[d] /\ pc'[d] \in {"stop", "close"})
                        /\ io[d] => pc'[d] \in Sent /\ file'[n] # Far(d)
      BY <1>1 DEF ClientInv, Client, Far
    <2>1. CASE d = c
      BY <1>1, <1>3, <2>1 DEF EInv, ClientInv, Sent
    <2>2. CASE d # c
      BY <1>3, <2>2, ThingsDistinct DEF EInv, ClientInv
    <2> QED BY <2>1, <2>2
  <1> QED BY <1>5, <1>6, <1>7, <1>8, <1>9 DEF EInv

LEMMA SelectJoinEInv == ASSUME EInv, GInv', NEW c \in Conns, SelectJoin(c) PROVE EInv'
  <1>1. pc[c] = "select" /\ UNCHANGED <<failed, io, undefined>> /\ UNCHANGED processes
    BY DEF SelectJoin, procvars, childvars, heldvars, uservars, processes
  <1>2. CASE Refused(c)
    BY <1>1, <1>2, RefusedEInv
  <1>3. CASE pc' = [pc EXCEPT ![c] = "pair"] /\ UNCHANGED file
    <2>1. pc'[c] = "pair" /\ \A d \in Conns \ {c} : pc'[d] = pc[d]
      BY <1>3 DEF EInv, GInv, TypeOK
    <2>2. Onward
      BY <1>1, <2>1 DEF Onward, Sent
    <2>3. UserTypeOK' /\ ChildInv' /\ OnceInv' /\ ServedInv'
      BY <1>1, <2>2, ProcessesStay DEF EInv, UserTypeOK
    <2>4. FileInv'
      BY <1>1, <1>3, <2>2, FilesClosed DEF processes
    <2>5. ClientInv'
      BY <1>1, <1>3, <2>1 DEF EInv, ClientInv, Client, Far, Sent
    <2> QED BY <2>3, <2>4, <2>5 DEF EInv
  <1> QED BY <1>2, <1>3 DEF SelectJoin

LEMMA PairEInv == ASSUME EInv, GInv', NEW c \in Conns, Pair(c) PROVE EInv'
  <1>1. /\ pc[c] = "pair" /\ Cardinality(FreeFds) > 1
        /\ file' = [file EXCEPT ![Lowest] = Near(c), ![Second] = Far(c)]
        /\ pc' = [pc EXCEPT ![c] = "send"]
        /\ UNCHANGED <<failed, io, undefined>> /\ UNCHANGED processes
    BY DEF Pair, procvars, childvars, heldvars, uservars, processes
  <1>2. /\ Lowest \in Fds /\ file[Lowest] = Free /\ Second \in Fds /\ file[Second] = Free
        /\ Second # Lowest
    BY <1>1, SecondFree DEF FreeFds
  <1>3. /\ pc'[c] = "send" /\ \A d \in Conns \ {c} : pc'[d] = pc[d]
        /\ file'[Lowest] = Near(c) /\ file'[Second] = Far(c)
        /\ \A n \in Fds \ {Lowest, Second} : file'[n] = file[n]
    BY <1>1, <1>2 DEF EInv, GInv, TypeOK
  <1>4. Onward
    BY <1>1, <1>3 DEF Onward, Sent
  <1>5. UserTypeOK' /\ ChildInv' /\ OnceInv' /\ ServedInv'
    BY <1>1, <1>4, ProcessesStay DEF EInv, UserTypeOK
  <1>6. child' = child /\ \A n \in Fds : file[n] \notin {Near(c), Far(c)}
    BY <1>1 DEF EInv, FileInv, processes
  <1>7. FileInv'
    <2>1. \A m, n \in Fds : file'[m] = file'[n] /\ file'[m] # Free => m = n
      <3> SUFFICES ASSUME NEW m \in Fds, NEW n \in Fds, file'[m] = file'[n], file'[m] # Free
                   PROVE  m = n
        OBVIOUS
      <3>1. CASE m \in {Lowest, Second}
        BY <1>2, <1>3, <1>6, <3>1, ThingsDistinct
      <3>2. CASE n \in {Lowest, Second}
        BY <1>2, <1>3, <1>6, <3>2, ThingsDistinct
      <3>3. CASE m \notin {Lowest, Second} /\ n \notin {Lowest, Second}
        BY <1>3, <3>3 DEF EInv, FileInv
      <3> QED BY <3>1, <3>2, <3>3
    <2>2. ASSUME NEW d \in Conns, NEW n \in Fds
          PROVE  /\ file'[n] = Client(d) => pc'[d] # "none"
                 /\ file'[n] = Proc(d) => pc'[d] \notin {"none", "select"} /\ child'[d] # "none"
                 /\ file'[n] \in {Near(d), Far(d)} => pc'[d] \notin {"none", "select", "pair"}
      <3>1. CASE n \in {Lowest, Second}
        BY <1>3, <3>1, ThingsDistinct
      <3>2. CASE n \notin {Lowest, Second}
        BY <1>3, <1>4, <1>6, <3>2 DEF EInv, FileInv, Onward
      <3> QED BY <3>1, <3>2
    <2> QED BY <2>1, <2>2 DEF FileInv, Client, Proc, Near, Far, Free
  <1>8. ClientInv'
    <2> SUFFICES ASSUME ~ undefined, NEW d \in Conns, NEW n \in Fds
                 PROVE  /\ file'[n] = Client(d) /\ pc'[d] \in Sent =>
                              io[d] \/ (failed[d] /\ pc'[d] \in {"stop", "close"})
                        /\ io[d] => pc'[d] \in Sent /\ file'[n] # Far(d)
      BY <1>1 DEF ClientInv, Client, Far
    <2>1. CASE d = c
      BY <1>1, <1>3, <2>1 DEF EInv, ClientInv, Sent
    <2>2. CASE d # c
      BY <1>3, <2>2, ThingsDistinct DEF EInv, ClientInv
    <2> QED BY <2>1, <2>2
  <1> QED BY <1>5, <1>7, <1>8 DEF EInv

\* guacd_add_user has failed: the creator is to free the socket of its client.
LEMMA AddUserFailedEInv ==
    ASSUME EInv, GInv', NEW c \in Conns, AddUserFailed(c), pc[c] \in {"pair", "send"},
           UNCHANGED <<child, shut, owner, user, placed, heldFar, heldClient>>
    PROVE  EInv'
  <1>1. UNCHANGED <<io, undefined>> /\ UNCHANGED processes
    BY DEF AddUserFailed, processes
  <1>2. CASE Refused(c) /\ UNCHANGED failed
    BY <1>1, <1>2, RefusedEInv
  <1>3. CASE /\ failed' = [failed EXCEPT ![c] = TRUE]
             /\ pc' = [pc EXCEPT ![c] = "stop"]
             /\ UNCHANGED file
    <2>1. /\ pc'[c] = "stop" /\ \A d \in Conns \ {c} : pc'[d] = pc[d]
          /\ failed'[c] = TRUE /\ \A d \in Conns \ {c} : failed'[d] = failed[d]
          /\ failed' \in [Conns -> BOOLEAN]
      BY <1>3 DEF EInv, GInv, TypeOK, UserTypeOK
    <2>2. Onward
      BY <2>1 DEF Onward, Sent
    <2>3. UserTypeOK' /\ ChildInv' /\ OnceInv' /\ ServedInv'
      BY <1>1, <2>1, <2>2, ProcessesStay DEF EInv, UserTypeOK
    <2>4. FileInv'
      BY <1>1, <1>3, <2>2, FilesClosed DEF processes
    <2>5. ClientInv'
      <3> SUFFICES ASSUME ~ undefined, NEW d \in Conns, NEW n \in Fds
                   PROVE  /\ file[n] = Client(d) /\ pc'[d] \in Sent =>
                                io[d] \/ (failed'[d] /\ pc'[d] \in {"stop", "close"})
                          /\ io[d] => pc'[d] \in Sent /\ file[n] # Far(d)
        BY <1>1, <1>3 DEF ClientInv, Client, Far
      <3>1. CASE d = c
        BY <2>1, <3>1 DEF EInv, ClientInv, Sent
      <3>2. CASE d # c
        BY <2>1, <3>2 DEF EInv, ClientInv
      <3> QED BY <3>1, <3>2
    <2> QED BY <2>3, <2>4, <2>5 DEF EInv
  <1> QED BY <1>2, <1>3 DEF AddUserFailed

\* While its process has not been freed, the number a user is sent to is one of the
\* daemon's.
LEMMA TargetHasNumber ==
    ASSUME GInv, NEW c \in Conns, pc[c] = "send", pc[Target(c)] # "done"
    PROVE  Target(c) \in Conns /\ fd_socket[Target(c)] \in Fds
  <1>1. CASE Select[c] = "new"
    BY <1>1 DEF GInv, ProcInv, Target
  <1>2. CASE Select[c] # "new"
    <2>1. Select[c] \in Conns /\ pc[Select[c]] \in {"wait", "stop", "close"}
      BY <1>2, GuacdAssumption DEF GInv, TypeOK, MapInv, Target
    <2>2. Select[Select[c]] = "new"
      BY <2>1 DEF GInv, ProcInv
    <2> QED BY <1>2, <2>1, <2>2 DEF GInv, ProcInv, Target
  <1> QED BY <1>1, <1>2

\* guacd_send_fd succeeds: the user is in a queue for the first time.
LEMMA SentEInv ==
    ASSUME EInv, GInv', NEW c \in Conns, pc[c] = "send", NEW p \in Conns,
           child[p] \notin {"none", "exited"},
           queue' = [queue EXCEPT ![p] = Append(@, c)],
           file' = Closed({Far(c)}),
           io' = [io EXCEPT ![c] = TRUE],
           NEW s \in {"register", "done"}, pc' = [pc EXCEPT ![c] = s],
           UNCHANGED <<failed, undefined, child, shut, owner, user, placed, heldFar, heldClient>>
    PROVE  EInv'
  <1>1. /\ pc'[c] = s /\ \A d \in Conns \ {c} : pc'[d] = pc[d]
        /\ \A n \in Fds : file'[n] = IF file[n] = Far(c) THEN Free ELSE file[n]
        /\ io'[c] = TRUE /\ \A d \in Conns \ {c} : io'[d] = io[d]
        /\ io' \in [Conns -> BOOLEAN]
    BY DEF EInv, GInv, TypeOK, UserTypeOK, Closed
  <1>2. Onward
    BY <1>1 DEF Onward, Sent
  <1>3. UserTypeOK'
    BY <1>1 DEF EInv, UserTypeOK, Live
  <1>4. FileInv'
    BY <1>1, <1>2, FilesClosed
  <1>5. ClientInv'
    <2> SUFFICES ASSUME ~ undefined, NEW d \in Conns, NEW n \in Fds
                 PROVE  /\ file'[n] = Client(d) /\ pc'[d] \in Sent =>
                              io'[d] \/ (failed[d] /\ pc'[d] \in {"stop", "close"})
                        /\ io'[d] => pc'[d] \in Sent /\ file'[n] # Far(d)
      BY DEF ClientInv, Client, Far
    <2>1. CASE d = c
      BY <1>1, <2>1, ThingsDistinct DEF Sent
    <2>2. CASE d # c
      <3>1. file'[n] \in {file[n], Free} /\ io'[d] = io[d] /\ pc'[d] = pc[d]
        BY <1>1, <2>2
      <3>2. /\ file[n] = Client(d) /\ pc[d] \in Sent =>
                  io[d] \/ (failed[d] /\ pc[d] \in {"stop", "close"})
            /\ io[d] => pc[d] \in Sent /\ file[n] # Far(d)
        BY DEF EInv, ClientInv
      <3> QED BY <3>1, <3>2, ThingsDistinct
    <2> QED BY <2>1, <2>2
  <1>6. /\ queue[p] \in Seq(Conns)
        /\ queue'[p] = Append(queue[p], c) /\ \A q \in Conns \ {p} : queue'[q] = queue[q]
    BY DEF EInv, GInv, TypeOK
  <1>7. ChildInv'
    <2> SUFFICES ASSUME NEW q \in Conns
                 PROVE  /\ child[q] # "none" => pc'[q] \notin {"none", "select"}
                        /\ child[q] \in {"none", "exited"} =>
                              queue'[q] = <<>> /\ heldFar[q] = {} /\ heldClient[q] = {}
                                /\ owner[q] = None
      BY DEF ChildInv
    <2> QED BY <1>2, <1>6 DEF EInv, ChildInv, Onward
  <1>8. OnceInv'
    <2>1. ASSUME NEW q \in Conns, NEW i \in 1..Len(queue'[q])
          PROVE  \/ i \in 1..Len(queue[q]) /\ queue'[q][i] = queue[q][i]
                 \/ q = p /\ i = Len(queue[p]) + 1 /\ queue'[q][i] = c
      <3>1. CASE q = p
        <4>1. /\ Len(queue'[p]) = Len(queue[p]) + 1
              /\ \A k \in 1..Len(queue[p]) : queue'[p][k] = queue[p][k]
              /\ queue'[p][Len(queue[p]) + 1] = c
          BY <1>6, Appended
        <4> QED BY <1>6, <2>1, <3>1, <4>1
      <3>2. CASE q # p
        BY <1>6, <2>1, <3>2
      <3> QED BY <3>1, <3>2
    <2>2. /\ user[c] = "none"
          /\ \A q \in Conns : \A i \in 1..Len(queue[q]) : queue[q][i] # c
      BY DEF EInv, OnceInv, Sent
    <2>3. \A q, r \in Conns : \A i \in 1..Len(queue'[q]), j \in 1..Len(queue'[r]) :
             queue'[q][i] = queue'[r][j] => q = r /\ i = j
      <3> SUFFICES ASSUME NEW q \in Conns, NEW r \in Conns,
                          NEW i \in 1..Len(queue'[q]), NEW j \in 1..Len(queue'[r]),
                          queue'[q][i] = queue'[r][j]
                   PROVE  q = r /\ i = j
        OBVIOUS
      <3> QED BY <2>1, <2>2 DEF EInv, OnceInv
    <2>4. ASSUME NEW q \in Conns, NEW i \in 1..Len(queue'[q])
          PROVE  user[queue'[q][i]] = "none" /\ pc'[queue'[q][i]] \in Sent
      <3>1. CASE i \in 1..Len(queue[q]) /\ queue'[q][i] = queue[q][i]
        <4>1. queue[q][i] \in Conns
          BY <3>1 DEF EInv, GInv, TypeOK
        <4> QED BY <1>2, <3>1, <4>1 DEF EInv, OnceInv, Onward
      <3>2. CASE queue'[q][i] = c
        BY <1>1, <2>2, <3>2 DEF Sent
      <3> QED BY <2>1, <3>1, <3>2
    <2>5. ASSUME NEW d \in Conns
          PROVE  /\ user'[d] # "none" => pc'[d] \in Sent
                 /\ user'[d] \in Live => placed'[d] # None
                 /\ placed'[d] # None => user'[d] # "none"
      BY <1>2 DEF EInv, OnceInv, Onward
    <2>6. user' = user
      OBVIOUS
    <2> QED BY <2>3, <2>4, <2>5, <2>6 DEF OnceInv, Live, Sent
  <1>9. ServedInv'
    BY DEF EInv, ServedInv, Live
  <1> QED BY <1>3, <1>4, <1>5, <1>7, <1>8, <1>9 DEF EInv

LEMMA SendEInv == ASSUME EInv, GInv', NEW c \in Conns, Send(c) PROVE EInv'
  <1> DEFINE freed == pc[Target(c)] = "done"
             at == IF freed THEN Free ELSE file[fd_socket[Target(c)]]
             p == at[2]
  <1>1. pc[c] = "send" /\ UNCHANGED <<child, shut, owner, user, placed, heldFar, heldClient>>
    BY DEF Send, procvars, childvars, uservars
  <1>2. CASE undefined' = TRUE /\ UNCHANGED <<pc, failed, io, file, queue>>
    BY <1>1, <1>2, EInvStays DEF processes
  <1>3. CASE /\ ~freed /\ at[1] = "proc" /\ child[p] # "exited" /\ p \notin shut
             /\ queue' = [queue EXCEPT ![p] = Append(@, c)]
             /\ file' = Closed({Far(c)})
             /\ io' = [io EXCEPT ![c] = TRUE]
             /\ pc' = [pc EXCEPT ![c] = IF Select[c] = "new" THEN "register" ELSE "done"]
             /\ UNCHANGED <<failed, undefined>>
    <2>1. fd_socket[Target(c)] \in Fds /\ at = file[fd_socket[Target(c)]]
      BY <1>1, <1>3, TargetHasNumber DEF EInv
    <2>2. at \in Things
      BY <2>1 DEF EInv, GInv, TypeOK
    <2>3. p \in Conns /\ at = Proc(p)
      BY <1>3, <2>2 DEF Things, Proc, Free
    <2>4. child[p] # "none"
      BY <2>1, <2>3 DEF EInv, FileInv
    <2> HIDE DEF p, at, freed
    <2>5. CASE Select[c] = "new"
      BY <1>1, <1>3, <2>3, <2>4, <2>5, SentEInv
    <2>6. CASE Select[c] # "new"
      BY <1>1, <1>3, <2>3, <2>4, <2>6, SentEInv
    <2> QED BY <2>5, <2>6
  <1>4. CASE AddUserFailed(c)
    BY <1>1, <1>4, AddUserFailedEInv
  <1> QED BY <1>2, <1>3, <1>4 DEF Send

\* A process that is registered, or whose end was awaited.
LEMMA AwaitedEInv ==
    ASSUME EInv, GInv', NEW c \in Conns, pc[c] \in {"register", "wait"},
           NEW s \in {"wait", "stop"}, pc' = [pc EXCEPT ![c] = s],
           UNCHANGED <<failed, io, file, undefined>>, UNCHANGED processes
    PROVE  EInv'
  <1>1. pc'[c] = s /\ \A d \in Conns \ {c} : pc'[d] = pc[d]
    BY DEF EInv, GInv, TypeOK
  <1>2. Onward
    BY <1>1 DEF Onward, Sent
  <1>3. UserTypeOK' /\ ChildInv' /\ OnceInv' /\ ServedInv'
    BY <1>2, ProcessesStay DEF EInv, UserTypeOK
  <1>4. FileInv'
    BY <1>2, FilesClosed DEF processes
  <1>5. ClientInv'
    <2> SUFFICES ASSUME ~ undefined, NEW d \in Conns, NEW n \in Fds
                 PROVE  /\ file[n] = Client(d) /\ pc'[d] \in Sent =>
                              io[d] \/ (failed[d] /\ pc'[d] \in {"stop", "close"})
                        /\ io[d] => pc'[d] \in Sent /\ file[n] # Far(d)
      BY DEF ClientInv, Client, Far
    <2>1. CASE d = c
      BY <1>1, <2>1 DEF EInv, ClientInv, Sent
    <2>2. CASE d # c
      BY <1>1, <2>2 DEF EInv, ClientInv
    <2> QED BY <2>1, <2>2
  <1> QED BY <1>3, <1>4, <1>5 DEF EInv

LEMMA StopEInv == ASSUME EInv, GInv', NEW c \in Conns, Stop(c) PROVE EInv'
  <1>1. /\ pc[c] = "stop"
        /\ file' = [file EXCEPT ![fd_socket[c]] = Free]
        /\ pc' = [pc EXCEPT ![c] = "close"]
        /\ UNCHANGED <<failed, io, undefined>> /\ UNCHANGED processes
    BY DEF Stop, procvars, childvars, heldvars, uservars, processes
  <1>2. /\ pc'[c] = "close" /\ \A d \in Conns \ {c} : pc'[d] = pc[d]
        /\ \A n \in Fds : file'[n] \in {file[n], Free}
    BY <1>1 DEF EInv, GInv, TypeOK
  <1>3. Onward
    BY <1>1, <1>2 DEF Onward, Sent
  <1>4. UserTypeOK' /\ ChildInv' /\ OnceInv' /\ ServedInv'
    BY <1>1, <1>3, ProcessesStay DEF EInv, UserTypeOK
  <1>5. FileInv'
    BY <1>1, <1>2, <1>3, FilesClosed DEF processes
  <1>6. ClientInv'
    <2> SUFFICES ASSUME ~ undefined, NEW d \in Conns, NEW n \in Fds
                 PROVE  /\ file'[n] = Client(d) /\ pc'[d] \in Sent =>
                              io[d] \/ (failed[d] /\ pc'[d] \in {"stop", "close"})
                        /\ io[d] => pc'[d] \in Sent /\ file'[n] # Far(d)
      BY <1>1 DEF ClientInv, Client, Far
    <2>1. CASE d = c
      BY <1>1, <1>2, <2>1, ThingsDistinct DEF EInv, ClientInv, Sent
    <2>2. CASE d # c
      BY <1>2, <2>2, ThingsDistinct DEF EInv, ClientInv
    <2> QED BY <2>1, <2>2
  <1> QED BY <1>4, <1>5, <1>6 DEF EInv

LEMMA CloseAgainEInv == ASSUME EInv, GInv', NEW c \in Conns, CloseAgain(c) PROVE EInv'
  <1>1. /\ pc[c] = "close"
        /\ pc' = [pc EXCEPT ![c] = "done"]
        /\ \/ file' = (IF failed[c] THEN Closed({Client(c)}) ELSE file) /\ undefined' = undefined
           \/ undefined' = TRUE /\ file' = file
        /\ failed' = [failed EXCEPT ![c] = FALSE]
        /\ UNCHANGED io /\ UNCHANGED processes
    BY DEF CloseAgain, childvars, heldvars, uservars, processes
  <1>2. /\ pc'[c] = "done" /\ \A d \in Conns \ {c} : pc'[d] = pc[d]
        /\ failed'[c] = FALSE /\ \A d \in Conns \ {c} : failed'[d] = failed[d]
        /\ failed' \in [Conns -> BOOLEAN]
        /\ \A n \in Fds : file'[n] \in {file[n], Free}
        /\ ~ undefined' /\ failed[c] => \A n \in Fds : file'[n] # Client(c)
    BY <1>1, ThingsDistinct DEF EInv, GInv, TypeOK, UserTypeOK, Closed
  <1>3. Onward
    BY <1>1, <1>2 DEF Onward, Sent
  <1>4. UserTypeOK' /\ ChildInv' /\ OnceInv' /\ ServedInv'
    BY <1>1, <1>2, <1>3, ProcessesStay DEF EInv, UserTypeOK
  <1>5. FileInv'
    BY <1>1, <1>2, <1>3, FilesClosed DEF processes
  <1>6. ClientInv'
    <2> SUFFICES ASSUME ~ undefined', NEW d \in Conns, NEW n \in Fds
                 PROVE  /\ file'[n] = Client(d) /\ pc'[d] \in Sent =>
                              io[d] \/ (failed'[d] /\ pc'[d] \in {"stop", "close"})
                        /\ io[d] => pc'[d] \in Sent /\ file'[n] # Far(d)
      BY <1>1 DEF ClientInv, Client, Far
    <2>0. ~ undefined
      BY <1>1
    <2>1. CASE d = c
      BY <1>1, <1>2, <2>0, <2>1, ThingsDistinct DEF EInv, ClientInv, Sent
    <2>2. CASE d # c
      BY <1>2, <2>0, <2>2, ThingsDistinct DEF EInv, ClientInv
    <2> QED BY <2>1, <2>2
  <1> QED BY <1>4, <1>5, <1>6 DEF EInv

LEMMA IOEndsEInv == ASSUME EInv, GInv', NEW c \in Conns, IOEnds(c) PROVE EInv'
  <1>1. /\ io' = [io EXCEPT ![c] = FALSE]
        /\ file' = Closed({Client(c), Near(c)})
        /\ UNCHANGED <<pc, failed, undefined>> /\ UNCHANGED processes
    BY DEF IOEnds, connvars, procvars, childvars, heldvars, uservars, processes
  <1>2. /\ io'[c] = FALSE /\ \A d \in Conns \ {c} : io'[d] = io[d]
        /\ io' \in [Conns -> BOOLEAN]
        /\ \A n \in Fds : file'[n] \in {file[n], Free} /\ file'[n] # Client(c)
    BY <1>1, ThingsDistinct DEF EInv, UserTypeOK, Closed
  <1>3. Onward
    BY <1>1 DEF Onward
  <1>4. UserTypeOK' /\ ChildInv' /\ OnceInv' /\ ServedInv'
    BY <1>1, <1>2, <1>3, ProcessesStay DEF EInv, UserTypeOK
  <1>5. FileInv'
    BY <1>1, <1>2, <1>3, FilesClosed DEF processes
  <1>6. ClientInv'
    <2> SUFFICES ASSUME ~ undefined, NEW d \in Conns, NEW n \in Fds
                 PROVE  /\ file'[n] = Client(d) /\ pc[d] \in Sent =>
                              io'[d] \/ (failed[d] /\ pc[d] \in {"stop", "close"})
                        /\ io'[d] => pc[d] \in Sent /\ file'[n] # Far(d)
      BY <1>1 DEF ClientInv, Client, Far
    <2>1. CASE d = c
      BY <1>2, <2>1
    <2>2. CASE d # c
      BY <1>2, <2>2, ThingsDistinct DEF EInv, ClientInv
    <2> QED BY <2>1, <2>2
  <1> QED BY <1>4, <1>5, <1>6 DEF EInv

-----------------------------------------------------------------------------
(* The steps of a process leave the daemon alone.                          *)

daemon == <<pc, failed, io, file, undefined>>

LEMMA DaemonStays ==
    ASSUME EInv, UNCHANGED daemon,
           \A p \in Conns : child[p] # "none" => child'[p] # "none"
    PROVE  FileInv' /\ ClientInv'
  <1>1. UNCHANGED <<pc, failed, io, file, undefined>>
    BY DEF daemon
  <1>2. Onward
    BY <1>1 DEF Onward
  <1>3. FileInv'
    BY <1>1, <1>2, FilesClosed
  <1>4. ClientInv'
    BY <1>1 DEF EInv, ClientInv, Client, Far
  <1> QED BY <1>3, <1>4

\* guacd_exec_proc goes on, but does not end.
LEMMA GoesEInv ==
    ASSUME EInv, GInv', NEW p \in Conns, NEW s \in {"serving", "freeing"},
           child[p] \in {"loading", "serving"}, Goes(p, s)
    PROVE  EInv'
  <1>1. /\ child' = [child EXCEPT ![p] = s] /\ UNCHANGED daemon
        /\ UNCHANGED <<shut, owner, queue, heldFar, heldClient, user, placed>>
    BY DEF Goes, connvars, procvars, heldvars, uservars, daemon
  <1>2. child'[p] = s /\ \A q \in Conns \ {p} : child'[q] = child[q]
    BY <1>1 DEF EInv, GInv, TypeOK
  <1>3. FileInv' /\ ClientInv'
    BY <1>1, <1>2, DaemonStays
  <1>4. Onward
    BY <1>1 DEF Onward, daemon
  <1>5. OnceInv' /\ ServedInv'
    BY <1>1, <1>4, UsersStay
  <1>6. UserTypeOK'
    BY <1>1 DEF EInv, UserTypeOK, Live, daemon
  <1>7. ChildInv'
    BY <1>1, <1>2 DEF EInv, ChildInv, daemon
  <1> QED BY <1>3, <1>5, <1>6, <1>7 DEF EInv

\* A process ends: its users are gone, and the descriptors under way to it too.
LEMMA EndsEInv ==
    ASSUME EInv, GInv', NEW p \in Conns, child[p] \notin {"none", "exited"}, Ends(p)
    PROVE  EInv'
  <1>1. /\ child' = [child EXCEPT ![p] = "exited"]
        /\ queue' = [queue EXCEPT ![p] = <<>>]
        /\ heldFar' = [heldFar EXCEPT ![p] = {}]
        /\ heldClient' = [heldClient EXCEPT ![p] = {}]
        /\ user' = [c \in Conns |-> IF placed[c] = p THEN "gone" ELSE user[c]]
        /\ placed' = [c \in Conns |-> IF placed[c] = p THEN None ELSE placed[c]]
        /\ owner' = [owner EXCEPT ![p] = None]
        /\ UNCHANGED daemon /\ UNCHANGED <<pc, io, failed, shut>>
    BY DEF Ends, connvars, procvars, daemon
  <1>2. /\ child'[p] = "exited" /\ queue'[p] = <<>> /\ heldFar'[p] = {} /\ heldClient'[p] = {}
        /\ owner'[p] = None
        /\ \A q \in Conns \ {p} :
              /\ child'[q] = child[q] /\ queue'[q] = queue[q] /\ heldFar'[q] = heldFar[q]
              /\ heldClient'[q] = heldClient[q] /\ owner'[q] = owner[q]
    BY <1>1 DEF EInv, GInv, TypeOK, UserTypeOK
  <1>3. FileInv' /\ ClientInv'
    BY <1>1, <1>2, DaemonStays
  <1>4. UserTypeOK'
    BY <1>1 DEF EInv, UserTypeOK, Live
  <1>5. ChildInv'
    BY <1>1, <1>2 DEF EInv, ChildInv
  <1>6. OnceInv'
    <2>1. ASSUME NEW q \in Conns, NEW i \in 1..Len(queue'[q])
          PROVE  q # p /\ queue'[q] = queue[q] /\ queue[q][i] \in Conns
      BY <1>2, <2>1 DEF EInv, GInv, TypeOK
    <2>2. \A q, r \in Conns : \A i \in 1..Len(queue'[q]), j \in 1..Len(queue'[r]) :
             queue'[q][i] = queue'[r][j] => q = r /\ i = j
      BY <2>1 DEF EInv, OnceInv
    <2>3. ASSUME NEW q \in Conns, NEW i \in 1..Len(queue'[q])
          PROVE  user'[queue'[q][i]] = "none" /\ pc[queue'[q][i]] \in Sent
      <3>1. queue[q][i] \in Conns /\ queue'[q] = queue[q] /\ i \in 1..Len(queue[q])
        BY <2>1
      <3>2. user[queue[q][i]] = "none" /\ pc[queue[q][i]] \in Sent
        BY <3>1 DEF EInv, OnceInv
      <3>3. placed[queue[q][i]] = None /\ p # None
        BY <3>1, <3>2, GuacdAssumption DEF EInv, OnceInv
      <3> QED BY <1>1, <3>1, <3>2, <3>3
    <2>4. ASSUME NEW c \in Conns
          PROVE  /\ user'[c] # "none" => pc[c] \in Sent
                 /\ user'[c] \in Live => placed'[c] # None
                 /\ placed'[c] # None => user'[c] # "none"
      <3>1. placed[c] = p => user[c] # "none"
        BY GuacdAssumption DEF EInv, OnceInv
      <3> QED BY <1>1, <3>1 DEF EInv, OnceInv, Live
    <2> QED BY <1>1, <2>2, <2>3, <2>4 DEF OnceInv, Live, Sent
  <1>7. ServedInv'
    <2> SUFFICES ASSUME NEW q \in Conns, owner'[q] # None, q \notin shut
                 PROVE  \E c \in Conns : placed'[c] = q /\ user'[c] \in Live
      BY <1>1 DEF ServedInv, Live
    <2>1. q # p /\ owner[q] # None
      BY <1>2
    <2>2. PICK c \in Conns : placed[c] = q /\ user[c] \in Live
      BY <2>1 DEF EInv, ServedInv
    <2> QED BY <1>1, <2>1, <2>2
  <1> QED BY <1>3, <1>4, <1>5, <1>6, <1>7 DEF EInv

\* guacd_recv_fd: a user that was nowhere before has a thread.
LEMMA ReceiveEInv == ASSUME EInv, GInv', NEW p \in Conns, Receive(p) PROVE EInv'
  <1> DEFINE c == Head(queue[p])
  <1>1. /\ child[p] = "serving" /\ queue[p] # <<>>
        /\ queue' = [queue EXCEPT ![p] = Tail(@)]
        /\ heldFar' = [heldFar EXCEPT ![p] = @ \union {c}]
        /\ placed' = [placed EXCEPT ![c] = p]
        /\ user' = [user EXCEPT ![c] = "handshake"]
        /\ owner' = [owner EXCEPT ![p] = IF @ = None THEN c ELSE @]
        /\ UNCHANGED daemon /\ UNCHANGED <<pc, io, failed, child, shut, heldClient>>
    BY DEF Receive, connvars, procvars, daemon
  <1>2. /\ c \in Conns /\ c = queue[p][1] /\ 1 \in 1..Len(queue[p])
        /\ \A i \in 1..Len(Tail(queue[p])) :
              i + 1 \in 1..Len(queue[p]) /\ Tail(queue[p])[i] = queue[p][i + 1]
    BY <1>1 DEF EInv, GInv, TypeOK
  <1> HIDE DEF c
  <1>3. /\ queue'[p] = Tail(queue[p]) /\ placed'[c] = p /\ user'[c] = "handshake"
        /\ \A q \in Conns \ {p} :
              queue'[q] = queue[q] /\ heldFar'[q] = heldFar[q] /\ owner'[q] = owner[q]
        /\ \A d \in Conns \ {c} : placed'[d] = placed[d] /\ user'[d] = user[d]
    BY <1>1, <1>2 DEF EInv, GInv, TypeOK, UserTypeOK
  <1>4. FileInv' /\ ClientInv'
    BY <1>1, DaemonStays
  <1>5. UserTypeOK'
    BY <1>1, <1>2 DEF EInv, UserTypeOK, Live
  <1>6. ChildInv'
    BY <1>1, <1>3 DEF EInv, ChildInv
  <1>7. user[c] = "none" /\ pc[c] \in Sent
    BY <1>2 DEF EInv, OnceInv
  <1>8. OnceInv'
    <2>1. ASSUME NEW q \in Conns, NEW i \in 1..Len(queue'[q])
          PROVE  /\ i + (IF q = p THEN 1 ELSE 0) \in 1..Len(queue[q])
                 /\ queue'[q][i] = queue[q][i + (IF q = p THEN 1 ELSE 0)]
                 /\ queue'[q][i] \in Conns /\ queue'[q][i] # c
      <3>1. /\ i + (IF q = p THEN 1 ELSE 0) \in 1..Len(queue[q])
            /\ queue'[q][i] = queue[q][i + (IF q = p THEN 1 ELSE 0)]
        <4>1. CASE q = p
          BY <1>2, <1>3, <2>1, <4>1
        <4>2. CASE q # p
          <5>1. queue'[q] = queue[q] /\ i \in 1..Len(queue[q]) /\ i + 0 = i
            BY <1>3, <2>1, <4>2
          <5> QED BY <4>2, <5>1
        <4> QED BY <4>1, <4>2
      <3>2. queue'[q][i] \in Conns
        BY <3>1 DEF EInv, GInv, TypeOK
      <3>3. queue'[q][i] # c
        <4> SUFFICES ASSUME queue'[q][i] = c PROVE FALSE
          OBVIOUS
        <4>1. q = p /\ i + (IF q = p THEN 1 ELSE 0) = 1
          BY <1>2, <3>1 DEF EInv, OnceInv
        <4> QED BY <2>1, <4>1
      <3> QED BY <3>1, <3>2, <3>3
    <2>2. \A q, r \in Conns : \A i \in 1..Len(queue'[q]), j \in 1..Len(queue'[r]) :
             queue'[q][i] = queue'[r][j] => q = r /\ i = j
      <3> SUFFICES ASSUME NEW q \in Conns, NEW r \in Conns,
                          NEW i \in 1..Len(queue'[q]), NEW j \in 1..Len(queue'[r]),
                          queue'[q][i] = queue'[r][j]
                   PROVE  q = r /\ i = j
        OBVIOUS
      <3> DEFINE k == i + (IF q = p THEN 1 ELSE 0)
                 l == j + (IF r = p THEN 1 ELSE 0)
      <3>1. k \in 1..Len(queue[q]) /\ l \in 1..Len(queue[r]) /\ queue[q][k] = queue[r][l]
        BY <2>1
      <3> HIDE DEF k, l
      <3>2. q = r /\ k = l
        BY <3>1 DEF EInv, OnceInv
      <3> QED BY <3>2 DEF k, l
    <2>3. ASSUME NEW q \in Conns, NEW i \in 1..Len(queue'[q])
          PROVE  user'[queue'[q][i]] = "none" /\ pc[queue'[q][i]] \in Sent
      BY <1>3, <2>1 DEF EInv, OnceInv
    <2>4. ASSUME NEW d \in Conns
          PROVE  /\ user'[d] # "none" => pc[d] \in Sent
                 /\ user'[d] \in Live => placed'[d] # None
                 /\ placed'[d] # None => user'[d] # "none"
      <3>1. p # None
        BY GuacdAssumption
      <3> QED BY <1>3, <1>7, <3>1 DEF EInv, OnceInv
    <2>5. pc' = pc
      BY <1>1
    <2>6. \A q \in Conns : \A i \in 1..Len(queue'[q]) : user'[queue'[q][i]] = "none"
      BY <2>3
    <2>7. \A q \in Conns : \A i \in 1..Len(queue'[q]) : pc'[queue'[q][i]] \in Sent
      BY <2>3, <2>5
    <2>8. \A d \in Conns : user'[d] # "none" => pc'[d] \in Sent
      BY <2>4, <2>5
    <2>9. \A d \in Conns : user'[d] \in Live => placed'[d] # None
      BY <2>4
    <2>10. \A d \in Conns : placed'[d] # None => user'[d] # "none"
      BY <2>4
    <2> QED BY <2>2, <2>6, <2>7, <2>8, <2>9, <2>10, Zenon DEF OnceInv
  <1>9. ServedInv'
    <2> SUFFICES ASSUME NEW q \in Conns, owner'[q] # None, q \notin shut
                 PROVE  \E d \in Conns : placed'[d] = q /\ user'[d] \in Live
      BY <1>1 DEF ServedInv, Live
    <2>1. CASE q = p
      BY <1>2, <1>3, <2>1 DEF Live
    <2>2. CASE q # p
      <3>1. PICK d \in Conns : placed[d] = q /\ user[d] \in Live
        BY <1>3, <2>2 DEF EInv, ServedInv
      <3>2. d # c
        BY <1>7, <3>1 DEF Live
      <3> QED BY <1>3, <3>1, <3>2
    <2> QED BY <2>1, <2>2
  <1> QED BY <1>4, <1>5, <1>6, <1>8, <1>9 DEF EInv

-----------------------------------------------------------------------------
(* The threads of users.                                                   *)

\* A thread goes on, before its test for the last user.
LEMMA UserGoesEInv ==
    ASSUME EInv, GInv', NEW c \in Conns, NEW s \in Live, user[c] \in Live, UserGoes(c, s)
    PROVE  EInv'
  <1>1. /\ user' = [user EXCEPT ![c] = s] /\ UNCHANGED daemon
        /\ UNCHANGED <<pc, io, failed, child, shut, owner, queue, heldFar, heldClient, placed>>
    BY DEF UserGoes, connvars, procvars, childvars, heldvars, daemon
  <1>2. user'[c] = s /\ \A d \in Conns \ {c} : user'[d] = user[d]
    BY <1>1 DEF EInv, UserTypeOK
  <1>3. FileInv' /\ ClientInv'
    BY <1>1, DaemonStays
  <1>4. UserTypeOK' /\ ChildInv'
    BY <1>1 DEF EInv, UserTypeOK, ChildInv, Live
  <1>5. OnceInv'
    <2>1. ASSUME NEW q \in Conns, NEW i \in 1..Len(queue[q])
          PROVE  user'[queue[q][i]] = "none"
      <3>1. queue[q][i] \in Conns /\ user[queue[q][i]] = "none"
        BY DEF EInv, GInv, TypeOK, OnceInv
      <3> QED BY <1>2, <3>1 DEF Live
    <2>2. \A d \in Conns : /\ user'[d] # "none" => pc[d] \in Sent
                           /\ user'[d] \in Live => placed[d] # None
                           /\ placed[d] # None => user'[d] # "none"
      BY <1>2 DEF EInv, OnceInv, Live
    <2> QED BY <1>1, <2>1, <2>2 DEF EInv, OnceInv, Live, Sent
  <1>6. ServedInv'
    BY <1>1, <1>2 DEF EInv, ServedInv, Live
  <1> QED BY <1>3, <1>4, <1>5, <1>6 DEF EInv

\* A user that is not the last leaves one behind that is connected.
LEMMA CheckLastEInv == ASSUME EInv, GInv', NEW c \in Conns, CheckLast(c) PROVE EInv'
  <1>1. /\ user[c] = "left"
        /\ shut' = IF ConnectedUsers(placed[c]) = {} THEN shut \union {placed[c]} ELSE shut
        /\ user' = [user EXCEPT ![c] = "gone"]
        /\ heldFar' = [heldFar EXCEPT ![placed[c]] = @ \ {c}]
        /\ UNCHANGED daemon
        /\ UNCHANGED <<pc, io, failed, child, owner, queue, heldClient, placed>>
    BY DEF CheckLast, connvars, procvars, daemon
  <1>2. /\ user'[c] = "gone" /\ \A d \in Conns \ {c} : user'[d] = user[d]
        /\ heldFar' \in [Conns -> SUBSET Conns]
        /\ \A q \in Conns : heldFar'[q] \subseteq heldFar[q]
    BY <1>1 DEF EInv, UserTypeOK
  <1>3. FileInv' /\ ClientInv'
    BY <1>1, DaemonStays
  <1>4. UserTypeOK'
    BY <1>1, <1>2 DEF EInv, UserTypeOK, Live
  <1>5. ChildInv'
    BY <1>1, <1>2 DEF EInv, ChildInv
  <1>6. OnceInv'
    <2>1. ASSUME NEW q \in Conns, NEW i \in 1..Len(queue[q])
          PROVE  user'[queue[q][i]] = "none"
      <3>1. queue[q][i] \in Conns /\ user[queue[q][i]] = "none"
        BY DEF EInv, GInv, TypeOK, OnceInv
      <3> QED BY <1>1, <1>2, <3>1
    <2>2. \A d \in Conns : /\ user'[d] # "none" => pc[d] \in Sent
                           /\ user'[d] \in Live => placed[d] # None
                           /\ placed[d] # None => user'[d] # "none"
      BY <1>1, <1>2 DEF EInv, OnceInv, Live
    <2> QED BY <1>1, <2>1, <2>2 DEF EInv, OnceInv, Live, Sent
  <1>7. ServedInv'
    <2> SUFFICES ASSUME NEW q \in Conns, owner[q] # None, q \notin shut'
                 PROVE  \E d \in Conns : placed[d] = q /\ user'[d] \in Live
      BY <1>1 DEF ServedInv, Live
    <2>1. q \notin shut
      BY <1>1
    <2>2. PICK d \in Conns : placed[d] = q /\ user[d] \in Live
      BY <2>1 DEF EInv, ServedInv
    <2>3. CASE d # c
      BY <1>2, <2>2, <2>3
    <2>4. CASE d = c
      <3>1. ConnectedUsers(q) # {}
        BY <1>1, <2>2, <2>4
      <3>2. PICK e \in Conns : user[e] = "connected" /\ placed[e] = q
        BY <3>1 DEF ConnectedUsers
      <3>3. e # c
        BY <1>1, <3>2
      <3> QED BY <1>2, <3>2, <3>3 DEF Live
    <2> QED BY <2>3, <2>4
  <1> QED BY <1>3, <1>4, <1>5, <1>6, <1>7 DEF EInv

-----------------------------------------------------------------------------
LEMMA RouteEInv == ASSUME EInv, GInv', NEW c \in Conns, Route(c) PROVE EInv'
  <1>1. ASSUME SelectFails(c) PROVE EInv'
    BY <1>1, RefusedEInv
       DEF SelectFails, procvars, childvars, heldvars, uservars, processes
  <1>2. ASSUME PairFails(c) PROVE EInv'
    BY <1>2, AddUserFailedEInv DEF PairFails, childvars, uservars
  <1>3. ASSUME Register(c) PROVE EInv'
    BY <1>3, AwaitedEInv DEF Register, childvars, heldvars, uservars, processes
  <1>4. ASSUME Remove(c) PROVE EInv'
    BY <1>4, AwaitedEInv DEF Remove, childvars, heldvars, uservars, processes
  <1> QED BY <1>1, <1>2, <1>3, <1>4, SelectNewEInv, SelectJoinEInv, PairEInv, SendEInv,
             StopEInv, CloseAgainEInv DEF Route

LEMMA ExecProcEInv ==
    ASSUME EInv, GInv', NEW p \in Conns, ExecProc(p) \/ Dies(p) PROVE EInv'
  BY GoesEInv, ReceiveEInv, EndsEInv
     DEF ExecProc, Dies, Load, LoadFails, ReceiveFails, Exit

LEMMA UserThreadEInv == ASSUME EInv, GInv', NEW c \in Conns, UserThread(c) PROVE EInv'
  BY UserGoesEInv, CheckLastEInv DEF UserThread, Joins, JoinFails, Leaves, Live

LEMMA NextEInv == ASSUME EInv, [Next]_vars PROVE EInv'
  <1>1. GInv'
    BY NextGInv DEF EInv
  <1>2. ASSUME UNCHANGED vars PROVE EInv'
    BY <1>1, <1>2, EInvStays
       DEF vars, connvars, procvars, childvars, heldvars, uservars, processes
  <1> QED BY <1>1, <1>2, AcceptEInv, RouteEInv, IOEndsEInv, ExecProcEInv, UserThreadEInv DEF Next

LEMMA EndsInvariant == Spec => []EInv
  BY InitEInv, NextEInv, PTL DEF Spec

\* When nobody can take a step, a process that serves has never had a user.
LEMMA SettledProcess ==
    ASSUME EInv, Settled, NEW p \in Conns
    PROVE  child[p] \in {"none", "exited"} \/ (child[p] = "serving" /\ owner[p] = None)
  <1>1. CASE child[p] = "serving" /\ p \notin shut
    <2>1. \A c \in Conns : user[c] \notin Live
      BY DEF Settled, Live
    <2> QED BY <1>1, <2>1 DEF EInv, ServedInv
  <1> QED BY <1>1 DEF Settled, ProcessRests

\* A process that took a user ends, for every number of connections, joins, failures and
\* descriptors: until its end of fd_socket is shut down there is a guacd_user_thread that
\* has still to test whether it is the last.
THEOREM ProcessesEnd == Spec => []ProcessEnds
  <1>1. EInv => ProcessEnds
    BY SettledProcess DEF ProcessEnds
  <1> QED BY <1>1, EndsInvariant, PTL

LEMMA FourKinds ==
    /\ IsFiniteSet({"client", "near", "far", "proc"})
    /\ Cardinality({"client", "near", "far", "proc"}) = 4
  <1> DEFINE One == {"client"}
             Two == One \union {"near"}
             Three == Two \union {"far"}
             Four == Three \union {"proc"}
  <1>1. "near" \notin One /\ "far" \notin Two /\ "proc" \notin Three
    OBVIOUS
  <1>2. {"client", "near", "far", "proc"} = Four
    OBVIOUS
  <1>3. IsFiniteSet(One) /\ Cardinality(One) = 1
    BY FS_Singleton
  <1> HIDE DEF One
  <1>4. IsFiniteSet(Two) /\ Cardinality(Two) = 2
    BY <1>1, <1>3, FS_AddElement
  <1> HIDE DEF Two
  <1>5. IsFiniteSet(Three) /\ Cardinality(Three) = 3
    BY <1>1, <1>4, FS_AddElement
  <1> HIDE DEF Three
  <1>6. IsFiniteSet(Four) /\ Cardinality(Four) = 4
    BY <1>1, <1>5, FS_AddElement
  <1> HIDE DEF Four
  <1> QED BY <1>2, <1>6

\* Each connection has at most four descriptors open in the daemon; with four for each,
\* two are free for one that has no pair yet.
LEMMA DescriptorsSuffice ==
    ASSUME EInv, IsFiniteSet(Conns), 4 * Cardinality(Conns) =< Cardinality(Fds),
           NEW c \in Conns, pc[c] \in {"select", "pair"}
    PROVE  Cardinality(FreeFds) > 1
  <1> DEFINE Kinds == {"client", "near", "far", "proc"}
             Others == ((Kinds \X Conns) \ {Near(c)}) \ {Far(c)}
             Used == Fds \ FreeFds
             f == [n \in Used |-> file[n]]
  <1>1. IsFiniteSet(Kinds) /\ Cardinality(Kinds) = 4
    BY FourKinds
  <1>2. Cardinality(Conns) \in Nat /\ Cardinality(Fds) \in Nat /\ IsFiniteSet(Fds)
    BY FS_CardinalityType, GuacdAssumption
  <1> HIDE DEF Kinds
  <1>3. IsFiniteSet(Kinds \X Conns) /\ Cardinality(Kinds \X Conns) = 4 * Cardinality(Conns)
    BY <1>1, FS_Product
  <1>4. Near(c) \in Kinds \X Conns /\ Far(c) \in (Kinds \X Conns) \ {Near(c)}
    BY DEF Kinds, Near, Far
  <1>5. IsFiniteSet(Others) /\ Cardinality(Others) = 4 * Cardinality(Conns) - 2
    <2>1. /\ IsFiniteSet((Kinds \X Conns) \ {Near(c)})
          /\ Cardinality((Kinds \X Conns) \ {Near(c)}) = 4 * Cardinality(Conns) - 1
      BY <1>2, <1>3, <1>4, FS_RemoveElement
    <2>2. /\ IsFiniteSet(Others)
          /\ Cardinality(Others) = Cardinality((Kinds \X Conns) \ {Near(c)}) - 1
      BY <1>4, <2>1, FS_RemoveElement
    <2> QED BY <1>2, <2>1, <2>2
  <1>6. /\ IsFiniteSet(Used) /\ Cardinality(Used) \in Nat
        /\ Cardinality(FreeFds) = Cardinality(Fds) - Cardinality(Used)
    <2>1. IsFiniteSet(Used) /\ Cardinality(Used) = Cardinality(Fds) - Cardinality(Fds \intersect FreeFds)
      BY <1>2, FS_Difference
    <2>2. Fds \intersect FreeFds = FreeFds /\ Cardinality(FreeFds) \in Nat
      BY FreeFdsFinite
    <2>3. Cardinality(Used) \in Nat
      BY <2>1, FS_CardinalityType
    <2> HIDE DEF Used
    <2>4. Cardinality(Used) = Cardinality(Fds) - Cardinality(FreeFds)
      BY <2>1, <2>2
    <2>5. Cardinality(FreeFds) = Cardinality(Fds) - Cardinality(Used)
      <3>1. \A a, b, d \in Nat : a = b - d => d = b - a
        OBVIOUS
      <3> QED BY <1>2, <2>2, <2>3, <2>4, <3>1
    <2> QED BY <2>1, <2>3, <2>5
  <1>7. f \in [Used -> Others]
    <2> SUFFICES ASSUME NEW n \in Used PROVE file[n] \in Others
      OBVIOUS
    <2>1. n \in Fds /\ file[n] # Free /\ file[n] \in Things
      BY DEF EInv, GInv, TypeOK, FreeFds
    <2>2. file[n] \notin {Near(c), Far(c)}
      BY <2>1 DEF EInv, FileInv
    <2> QED BY <2>1, <2>2 DEF Things, Kinds
  <1>8. \A m, n \in Used : f[m] = f[n] => m = n
    BY DEF EInv, FileInv, FreeFds
  <1> HIDE DEF Used, Others, f
  <1>9. ~ (Cardinality(Others) < Cardinality(Used))
    <2> SUFFICES ASSUME Cardinality(Others) < Cardinality(Used) PROVE FALSE
      OBVIOUS
    <2>1. \E x, y \in Used : x # y /\ f[x] = f[y]
      BY <1>5, <1>6, <1>7, FS_PigeonHole
    <2> QED BY <1>8, <2>1
  <1> QED BY <1>2, <1>5, <1>6, <1>9

\* When nobody can take a step and no process is left without a user, the daemon has
\* let go of every client and no process is left that could have inherited one.
LEMMA SettledClient ==
    ASSUME EInv, Settled, ~ undefined, ~ Abandoned,
           IsFiniteSet(Conns), 4 * Cardinality(Conns) =< Cardinality(Fds), NEW c \in Conns
    PROVE  ~ InDaemon(Client(c)) /\ \A p \in Conns : c \notin heldClient[p]
  <1>1. \A d \in Conns : pc[d] \in {"none", "done", "wait"}
    BY DescriptorsSuffice DEF Settled, ConnectionRests
  <1>2. ASSUME NEW p \in Conns PROVE child[p] \in {"none", "exited"}
    <2> SUFFICES ASSUME child[p] \notin {"none", "exited"} PROVE FALSE
      OBVIOUS
    <2>1. child[p] = "serving" /\ owner[p] = None /\ queue[p] = <<>>
      BY SettledProcess DEF Settled, ProcessRests
    <2>2. pc[p] # "wait"
      BY <2>1 DEF EInv, GInv, FirstInv
    <2>3. pc[p] = "done"
      BY <1>1, <2>1, <2>2 DEF EInv, ChildInv
    <2> QED BY <2>1, <2>3 DEF Abandoned
  <1>3. \A p \in Conns : queue[p] = <<>> /\ heldFar[p] = {} /\ heldClient[p] = {}
    BY <1>2 DEF EInv, ChildInv
  <1>4. ~ io[c]
    <2> SUFFICES ASSUME io[c] PROVE FALSE
      OBVIOUS
    <2>1. FarEndOpen(c)
      BY DEF Settled
    <2>2. ~ InDaemon(Far(c))
      BY DEF EInv, ClientInv, InDaemon
    <2> QED BY <1>3, <2>1, <2>2 DEF FarEndOpen
  <1>5. ASSUME NEW n \in Fds PROVE file[n] # Client(c)
    <2>1. pc[c] # "wait"
      <3>1. pc[c] = "wait" => child[c] # "exited" /\ owner[c] = None /\ queue[c] = <<>>
        BY <1>2, <1>3 DEF Settled, ConnectionRests, EInv, ChildInv
      <3> QED BY <3>1 DEF EInv, GInv, FirstInv
    <2>2. pc[c] \in {"none", "done"}
      BY <1>1, <2>1
    <2> QED BY <1>4, <2>2 DEF EInv, FileInv, ClientInv, Sent
  <1> QED BY <1>3, <1>5 DEF InDaemon

\* The socket of every client is closed in the end, by the daemon and by every process
\* that inherited it, unless a process that no user could be added to is left or a number
\* was used that meant something else: whoever was refused, routed or late, and whatever
\* failed, provided the daemon may open four descriptors for each connection.
THEOREM ClientsReleased ==
    ASSUME IsFiniteSet(Conns), 4 * Cardinality(Conns) =< Cardinality(Fds)
    PROVE  Spec => []ClientReleased
  <1>1. EInv => ClientReleased
    BY SettledClient DEF ClientReleased
  <1> QED BY <1>1, EndsInvariant, PTL

=============================================================================
