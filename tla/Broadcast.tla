------------------------------ MODULE Broadcast ------------------------------
(***************************************************************************)
(* The users of a connection and the socket that sends to all of them:     *)
(* threads of the plug-in, and the keep-alive thread, write instructions   *)
(* to the broadcast socket (socket-broadcast.c), which passes each begin,  *)
(* write, end and flush on to every user of the list that                  *)
(* guac_client_add_user and guac_client_remove_user maintain (client.c),   *)
(* while each user's own threads join, answer and leave on the user's      *)
(* socket (user-handshake.c, user.c, socket-fd.c).                         *)
(*                                                                         *)
(* Simplifications.  An instruction is "Chunks" calls of guac_socket_write *)
(* (protocol.c makes several per instruction).  A call of                  *)
(* guac_client_foreach_user is a pass: it takes the read lock, visits the  *)
(* users in the order of the list, one step each, and gives it back; the   *)
(* changes of the list, under the write lock, are one step each.  The      *)
(* out_buf of a socket is part of its stream.  guac_user_stop, which the   *)
(* callbacks call for a user that cannot be written to, makes its input    *)
(* thread end, which here it may do at any time; the flush handler does    *)
(* nothing else and is left out, as is what the join_handler sends to a    *)
(* socket that nobody else knows yet.                                      *)
(***************************************************************************)
EXTENDS Integers, Sequences, FiniteSets, SequencesExt

CONSTANTS Users,
          Writers,     \* threads that write to the broadcast socket
          Chunks,      \* writes per instruction
          MaxSent,     \* bound on the instructions of a writer
          None

ASSUME BroadcastAssumption ==
    /\ Chunks \in Nat \ {0} /\ MaxSent \in Nat
    /\ Users \intersect Writers = {}
    /\ None \notin Users \union Writers \union Nat

VARIABLES list,     \* client->__users, newest first
          readers,  \* holders of the read lock of __users_lock
          bcast,    \* holder of the socket_lock of the broadcast socket
          lock,     \* lock[u]: holder of the socket_lock of u's socket
          op,       \* op[w]: the pass of writer w, "begin" or "open" between two
          todo,     \* todo[w]: users its pass has still to visit
          chunk,    \* chunk[w]: writes of its instruction so far
          sent,     \* sent[w]: number of its instruction
          upc,      \* upc[u]: where the thread of user u is
          part,     \* part[u]: writes of the instruction u's thread sends, None: not sending
          stream,   \* stream[u]: the writes to u's socket
          midway    \* users added while an instruction was being broadcast

passvars == <<readers, bcast, op, todo, chunk, sent>>
uservars == <<upc, part>>
vars == <<list, passvars, lock, uservars, stream, midway>>

Init ==
    /\ list = <<>>
    /\ readers = {}
    /\ bcast = None
    /\ lock = [u \in Users |-> None]
    /\ op = [w \in Writers |-> "none"]
    /\ todo = [w \in Writers |-> <<>>]
    /\ chunk = [w \in Writers |-> 0]
    /\ sent = [w \in Writers |-> 0]
    /\ upc = [u \in Users |-> "add"]
    /\ part = [u \in Users |-> None]
    /\ stream = [u \in Users |-> <<>>]
    /\ midway = {}

Written(sender, n, k) == [from |-> sender, n |-> n, k |-> k]

-----------------------------------------------------------------------------
(* The broadcast socket.                                                   *)

\* Mutant: without the lock of the broadcast socket.
BeginUnlocked(w) ==
    /\ op[w] = "none" /\ sent[w] < MaxSent
    /\ bcast' = w
    /\ sent' = [sent EXCEPT ![w] = @ + 1]
    /\ op' = [op EXCEPT ![w] = "begin"]
    /\ UNCHANGED <<list, readers, todo, chunk, lock, uservars, stream, midway>>

\* __guac_socket_broadcast_lock_handler: the broadcast socket's own lock ...
Begin(w) ==
    /\ op[w] = "none" /\ sent[w] < MaxSent
    /\ bcast = None
    /\ bcast' = w
    /\ sent' = [sent EXCEPT ![w] = @ + 1]
    /\ op' = [op EXCEPT ![w] = "begin"]
    /\ UNCHANGED <<list, readers, todo, chunk, lock, uservars, stream, midway>>

\* Mutant: one write too few.
NextCallShort(w) ==
    CASE op[w] = "begin" -> "lock"
      [] op[w] = "open" /\ chunk[w] < Chunks - 1 -> "write"
      [] op[w] = "open" /\ chunk[w] >= Chunks - 1 -> "unlock"

\* The call a writer makes next: it locks, then writes, then unlocks.
NextCall(w) ==
    CASE op[w] = "begin" -> "lock"
      [] op[w] = "open" /\ chunk[w] < Chunks -> "write"
      [] op[w] = "open" /\ chunk[w] = Chunks -> "unlock"

\* ... and guac_client_foreach_user for this call: the read lock is taken.
\* __guac_socket_broadcast_write_handler is called for each write of the
\* instruction, then __guac_socket_broadcast_unlock_handler.
StartPass(w) ==
    /\ op[w] \in {"begin", "open"}
    /\ op' = [op EXCEPT ![w] = NextCall(w)]
    /\ chunk' = [chunk EXCEPT ![w] = IF NextCall(w) = "write" THEN @ + 1 ELSE @]
    /\ readers' = readers \union {w}
    /\ todo' = [todo EXCEPT ![w] = list]
    /\ UNCHANGED <<list, bcast, sent, lock, uservars, stream, midway>>

\* The callback for the next user of the list.
Visit(w) ==
    /\ todo[w] # <<>>
    /\ todo' = [todo EXCEPT ![w] = Tail(@)]
    /\ UNCHANGED <<list, readers, bcast, op, chunk, sent, uservars, midway>>

\* Mutant: does not wait.
VisitLockBusy(w) ==
    /\ op[w] = "lock" /\ Visit(w)
    /\ lock' = [lock EXCEPT ![Head(todo[w])] = w]
    /\ UNCHANGED stream

\* __lock_callback: waits for whoever has the user's socket
VisitLock(w) ==
    /\ op[w] = "lock" /\ Visit(w)
    /\ lock[Head(todo[w])] = None
    /\ lock' = [lock EXCEPT ![Head(todo[w])] = w]
    /\ UNCHANGED stream

\* __write_chunk_callback
VisitWrite(w) ==
    /\ op[w] = "write" /\ Visit(w)
    /\ stream' = [stream EXCEPT ![Head(todo[w])] = Append(@, Written(w, sent[w], chunk[w]))]
    /\ UNCHANGED lock

\* __unlock_callback: the mutex is unlocked, whoever has it
VisitUnlock(w) ==
    /\ op[w] = "unlock" /\ Visit(w)
    /\ lock' = [lock EXCEPT ![Head(todo[w])] = None]
    /\ UNCHANGED stream

\* The read lock is given back, and after the unlock pass the broadcast
\* socket's own lock.
EndPass(w) ==
    /\ op[w] \in {"lock", "write", "unlock"} /\ todo[w] = <<>>
    /\ readers' = readers \ {w}
    /\ IF op[w] = "unlock"
       THEN /\ op' = [op EXCEPT ![w] = "none"]
            /\ chunk' = [chunk EXCEPT ![w] = 0]
            /\ bcast' = None
       ELSE /\ op' = [op EXCEPT ![w] = "open"]
            /\ UNCHANGED <<chunk, bcast>>
    /\ UNCHANGED <<list, todo, sent, lock, uservars, stream, midway>>

-----------------------------------------------------------------------------
(* The threads of a user.                                                  *)

\* An instruction on the user's own socket: guac_socket_fd_lock_handler, the
\* writes, guac_socket_fd_unlock_handler.  It is the "disconnect" that
\* guac_user_start sends at the end, and stands for what the input thread,
\* which has ended then, may have sent before.
Say(u) ==
    /\ upc[u] = "bye"
    /\ part[u] = None /\ lock[u] = None
    /\ lock' = [lock EXCEPT ![u] = u]
    /\ part' = [part EXCEPT ![u] = 0]
    /\ UNCHANGED <<list, passvars, upc, stream, midway>>

SayWrite(u) ==
    /\ part[u] \in 0..(Chunks - 1)
    /\ part' = [part EXCEPT ![u] = @ + 1]
    /\ stream' = [stream EXCEPT ![u] = Append(@, Written(u, 1, part[u] + 1))]
    /\ UNCHANGED <<list, passvars, lock, upc, midway>>

SayEnd(u) ==
    /\ part[u] = Chunks
    /\ part' = [part EXCEPT ![u] = None]
    /\ lock' = [lock EXCEPT ![u] = None]
    /\ upc' = [upc EXCEPT ![u] = "remove"]
    /\ UNCHANGED <<list, passvars, stream, midway>>

\* A writer is between its lock pass and its unlock pass.
Broadcasting == bcast # None /\ op[bcast] = "open"

\* guac_client_add_user, after a join_handler that succeeded
AddUser(u) ==
    /\ upc[u] = "add"
    /\ readers = {}
    /\ list' = <<u>> \o list
    /\ midway' = IF Broadcasting THEN midway \union {u} ELSE midway
    /\ upc' = [upc EXCEPT ![u] = "in"]
    /\ UNCHANGED <<passvars, lock, part, stream>>

\* ... or that did not
AddUserFails(u) ==
    /\ upc[u] = "add"
    /\ upc' = [upc EXCEPT ![u] = "free"]
    /\ UNCHANGED <<list, passvars, lock, part, stream, midway>>

\* guac_user_input_thread ends: its loop condition, a read error or timeout
InputEnds(u) ==
    /\ upc[u] = "in"
    /\ upc' = [upc EXCEPT ![u] = "bye"]
    /\ UNCHANGED <<list, passvars, lock, part, stream, midway>>

\* Mutant: without the write lock.
RemoveUserUnlocked(u) ==
    /\ upc[u] = "remove"
    /\ \E i \in DOMAIN list : list[i] = u /\ list' = RemoveAt(list, i)
    /\ upc' = [upc EXCEPT ![u] = "free"]
    /\ UNCHANGED <<passvars, lock, part, stream, midway>>

\* guac_client_remove_user, as the user's own thread calls it
RemoveUser(u) ==
    /\ upc[u] = "remove"
    /\ readers = {}
    /\ \E i \in DOMAIN list : list[i] = u /\ list' = RemoveAt(list, i)
    /\ upc' = [upc EXCEPT ![u] = "free"]
    /\ UNCHANGED <<passvars, lock, part, stream, midway>>

\* guac_socket_free and guac_user_free at the end of guacd_user_thread
FreeUser(u) ==
    /\ upc[u] = "free"
    /\ upc' = [upc EXCEPT ![u] = "freed"]
    /\ stream' = [stream EXCEPT ![u] = <<>>]
    /\ lock' = [lock EXCEPT ![u] = None]
    /\ UNCHANGED <<list, passvars, part, midway>>

-----------------------------------------------------------------------------
Writer(w) ==
    \/ Begin(w) \/ StartPass(w) \/ EndPass(w)
    \/ VisitLock(w) \/ VisitWrite(w) \/ VisitUnlock(w)

User(u) ==
    \/ Say(u) \/ SayWrite(u) \/ SayEnd(u) \/ AddUser(u) \/ AddUserFails(u) \/ InputEnds(u)
    \/ RemoveUser(u) \/ FreeUser(u)

Done ==
    /\ \A w \in Writers : op[w] = "none" /\ sent[w] = MaxSent
    /\ \A u \in Users : upc[u] = "freed"
    /\ UNCHANGED vars

Next ==
    \/ \E w \in Writers : Writer(w)
    \/ \E u \in Users : User(u)
    \/ Done

Spec == Init /\ [][Next]_vars

-----------------------------------------------------------------------------
(* Properties.                                                             *)

\* The writes of each instruction in stream s are together and in order.
Whole(s) ==
    \A i \in 1..Len(s) :
        /\ s[i].k > 1 => i > 1 /\ s[i - 1] = [s[i] EXCEPT !.k = @ - 1]
        /\ s[i].k < Chunks /\ i < Len(s) => s[i + 1] = [s[i] EXCEPT !.k = @ + 1]

\* What a user receives is interleaved at instruction boundaries only,
\* whatever its own threads and the broadcasting threads do, unless the user
\* was added while an instruction was being broadcast.
InterleavedWhole == \A u \in Users \ midway : Whole(stream[u])

\* x is the last write of an instruction that was broadcast.
Complete(x) == x.from \in Writers /\ x.k = Chunks

\* Streams s and t have no two broadcast instructions in different orders.
InOrder(s, t) ==
    \A i, j \in 1..Len(s), k, l \in 1..Len(t) :
        i < j /\ Complete(s[i]) /\ Complete(s[j]) /\ s[i] = t[k] /\ s[j] = t[l] => k < l

\* Two users never see two broadcast instructions in different orders, even
\* if one of them joins or leaves in between.
SameOrder == \A u, v \in Users : InOrder(stream[u], stream[v])

\* A writer that ends an instruction has written all of it to every user it
\* unlocks, except those added midway.
ReachesAll ==
    \A w \in Writers :
        op[w] = "unlock" =>
            \A u \in ToSet(todo[w]) \ midway :
                \A k \in 1..Chunks : Written(w, sent[w], k) \in ToSet(stream[u])

\* A pass visits no user that guac_client_remove_user has already removed,
\* and that its own thread may therefore have freed.
VisitsOnlyMembers ==
    \A w \in Writers : \A u \in ToSet(todo[w]) : upc[u] \in {"in", "bye", "remove"}

-----------------------------------------------------------------------------
(* The inductive invariant of BroadcastProofs.                             *)

Holds(s, x) == \E i \in 1..Len(s) : s[i] = x

Member(u) == Holds(list, u)
ToVisit(w, u) == Holds(todo[w], u)
Distinct(s) == \A i, j \in 1..Len(s) : s[i] = s[j] => i = j

Writes == [from : Users \union Writers, n : Nat, k : 1..Chunks]

TypeOK ==
    /\ list \in Seq(Users) /\ readers \subseteq Writers /\ midway \subseteq Users
    /\ bcast \in Writers \union {None}
    /\ lock \in [Users -> Users \union Writers \union {None}]
    /\ op \in [Writers -> {"none", "begin", "lock", "open", "write", "unlock"}]
    /\ todo \in [Writers -> Seq(Users)]
    /\ chunk \in [Writers -> 0..Chunks] /\ sent \in [Writers -> Nat]
    /\ upc \in [Users -> {"add", "in", "bye", "remove", "free", "freed"}]
    /\ part \in [Users -> (0..Chunks) \union {None}]
    /\ stream \in [Users -> Seq(Writes)]

\* One writer at a time has an instruction under way, with the read lock in its passes.
WriterInv ==
    \A w \in Writers :
        /\ op[w] # "none" <=> bcast = w
        /\ w \in readers <=> op[w] \in {"lock", "write", "unlock"}
        /\ w \notin readers => todo[w] = <<>>
        /\ op[w] \in {"none", "begin", "lock"} => chunk[w] = 0
        /\ op[w] = "write" => chunk[w] > 0
        /\ op[w] = "unlock" => chunk[w] = Chunks

\* The list holds the users that were added and not removed, each once, and a pass
\* has only such to visit, each once.
ListInv ==
    /\ Distinct(list)
    /\ \A u \in Users : Member(u) <=> upc[u] \in {"in", "bye", "remove"}
    /\ \A w \in Writers : Distinct(todo[w]) /\ \A u \in Users : ToVisit(w, u) => Member(u)
    /\ \A u \in Users : part[u] # None => upc[u] = "bye"
    /\ \A u \in Users : upc[u] = "add" => lock[u] = None /\ stream[u] = <<>> /\ u \notin midway

\* The writer under way has locked u's socket and not yet unlocked it.
Held(u) ==
    /\ bcast # None
    /\ \/ op[bcast] = "lock" /\ ~ToVisit(bcast, u)
       \/ op[bcast] \in {"open", "write"}
       \/ op[bcast] = "unlock" /\ ToVisit(bcast, u)

\* The lock of u's socket is with the writer, with u's own thread, or free.
LockOK(u) ==
    /\ lock[u] = IF Held(u) THEN bcast ELSE IF part[u] # None THEN u ELSE None
    /\ Held(u) => part[u] = None

\* The instruction that is being written to u's socket: by whom, and how far.
Sender(u) == IF Held(u) THEN bcast ELSE u
Number(u) == IF Held(u) THEN sent[bcast] ELSE 1
Progress(u) ==
    IF Held(u) THEN (IF op[bcast] = "write" /\ ToVisit(bcast, u) THEN chunk[bcast] - 1
                                                                ELSE chunk[bcast])
               ELSE (IF part[u] # None THEN part[u] ELSE 0)

\* How a stream ends that has k writes of the instruction n of w under way.
EndsWith(s, w, n, k) ==
    IF k = 0 THEN s # <<>> => s[Len(s)].k = Chunks
             ELSE s # <<>> /\ s[Len(s)] = Written(w, n, k)

StreamOK(u) ==
    /\ EndsWith(stream[u], Sender(u), Number(u), Progress(u))
    /\ \A k \in 1..Progress(u) : Holds(stream[u], Written(Sender(u), Number(u), k))

\* A stream consists of whole instructions and, at its end, what has been written of
\* the one under way, by whoever has the lock.
SocketInv ==
    \A u \in Users \ midway :
        /\ Whole(stream[u])
        /\ Member(u) => LockOK(u) /\ StreamOK(u)

\* Each broadcast instruction is complete in a stream at most once.
OnceInv ==
    \A u \in Users : \A i, j \in 1..Len(stream[u]) :
        Complete(stream[u][i]) /\ stream[u][i] = stream[u][j] => i = j

PastInv ==
    \A u \in Users : \A i \in 1..Len(stream[u]) :
        stream[u][i].from \in Writers => stream[u][i].n =< sent[stream[u][i].from]

\* The one under way is complete in a stream only after its last write has been passed
\* on to that user, and no other broadcast instruction is after it.
CurrentInv ==
    bcast # None =>
        \A u \in Users : \A i \in 1..Len(stream[u]) :
            stream[u][i] = Written(bcast, sent[bcast], Chunks) =>
                /\ chunk[bcast] = Chunks
                /\ ~(op[bcast] = "write" /\ ToVisit(bcast, u))
                /\ \A j \in 1..Len(stream[u]) : j > i => ~Complete(stream[u][j])

BInv ==
    /\ TypeOK /\ WriterInv /\ ListInv /\ SocketInv
    /\ OnceInv /\ PastInv /\ CurrentInv /\ SameOrder
=============================================================================
