-------------------------------- MODULE Guacd --------------------------------
(***************************************************************************)
(* The proxy daemon guacd: a thread per connection that routes it to a new *)
(* or an existing process (connection.c), the processes, one per remote    *)
(* desktop, with a thread per user (proc.c), the map in which joining      *)
(* users find a process (proc-map.c) and the socket on which descriptors   *)
(* are passed to it (move-fd.c).                                           *)
(*                                                                         *)
(* A process carries the name of the connection that created it.           *)
(*                                                                         *)
(* Simplifications.  The daemon's descriptor table holds the sockets of    *)
(* clients, of processes and the pairs made for users; numbers are given   *)
(* out lowest first, as POSIX requires.  guacd_create_proc is one step.    *)
(* What happens inside a process while users are connected is in           *)
(* Broadcast.tla.  Once the daemon has used a freed guacd_proc or a        *)
(* descriptor that means something else, anything may follow: the model    *)
(* sets "undefined" and stops.                                             *)
(***************************************************************************)
EXTENDS Integers, Sequences, FiniteSets, FiniteSetsExt

CONSTANTS Conns,   \* the connections clients make, each once
          After,   \* After[c]: connections whose process has ended when c is made
          Select,  \* Select[c]: "new", or the connection whose process c joins
          Fds,     \* descriptor numbers of the daemon
          MaxFaults, \* bound on the steps that fail in a behaviour
          None

ASSUME GuacdAssumption ==
    /\ After \in [Conns -> SUBSET Conns]
    /\ Select \in [Conns -> Conns \union {"new"}]
    /\ Fds \subseteq Nat /\ IsFiniteSet(Fds) /\ MaxFaults \in Nat
    /\ None \notin Conns \union Fds

VARIABLES pc,        \* pc[c]: where guacd_connection_thread of c is
          failed,    \* failed[c]: add_user_failed
          io,        \* io[c]: the I/O threads of c run
          file,      \* file[n]: what descriptor n of the daemon is open on
          fd_socket, \* fd_socket[p]: the number in the daemon's guacd_proc
          map,       \* processes in the guacd_proc_map
          child,     \* child[p]: where the main thread of process p is
          shut,      \* processes whose own end of fd_socket is shut down
          queue,     \* queue[p]: user descriptors sent to p and not received
          owner,     \* owner[p]: the user p took for its owner
          user,      \* user[c]: where the guacd_user_thread of c is
          placed,    \* placed[c]: the process that received c
          heldFar,   \* heldFar[p]: users whose end of the pair p has open
          heldClient,\* heldClient[p]: clients whose socket p inherited
          late,      \* joins whose process left the map before they were sent
          undefined,
          faults     \* number of steps that failed

connvars == <<pc, failed>>
procvars == <<fd_socket, map>>
childvars == <<child, shut, owner>>
heldvars == <<queue, heldFar, heldClient>>
uservars == <<user, placed>>
vars == <<connvars, io, file, procvars, childvars, heldvars, uservars, late, undefined, faults>>

Free == <<"free", None>>
Client(c) == <<"client", c>>   \* connected_socket_fd
Near(c) == <<"near", c>>       \* user_fd of guacd_add_user
Far(c) == <<"far", c>>         \* proc_fd of guacd_add_user
Proc(p) == <<"proc", p>>       \* the daemon's end of p's fd_socket

Init ==
    /\ pc = [c \in Conns |-> "none"]
    /\ failed = [c \in Conns |-> FALSE]
    /\ io = [c \in Conns |-> FALSE]
    /\ file = [n \in Fds |-> Free]
    /\ fd_socket = [p \in Conns |-> None]
    /\ map = {}
    /\ child = [p \in Conns |-> "none"]
    /\ shut = {}
    /\ queue = [p \in Conns |-> <<>>]
    /\ owner = [p \in Conns |-> None]
    /\ user = [c \in Conns |-> "none"]
    /\ placed = [c \in Conns |-> None]
    /\ heldFar = [p \in Conns |-> {}] /\ heldClient = [p \in Conns |-> {}]
    /\ late = {}
    /\ undefined = FALSE
    /\ faults = 0

-----------------------------------------------------------------------------
(* Descriptors of the daemon.                                              *)

FreeFds == {n \in Fds : file[n] = Free}
Lowest == Min(FreeFds)
Second == Min(FreeFds \ {Lowest})

\* close() of the numbers that are open on the things in S
Closed(S) == [n \in Fds |-> IF file[n] \in S THEN Free ELSE file[n]]

InDaemon(thing) == \E n \in Fds : file[n] = thing

\* Whether anybody still has c's end of the pair made for user c.
FarEndOpen(c) ==
    \/ InDaemon(Far(c))
    \/ \E p \in Conns : c \in heldFar[p] \/ \E i \in DOMAIN queue[p] : queue[p][i] = c

-----------------------------------------------------------------------------
(* The connection thread (connection.c).                                   *)

\* The process c asks for: the variable "proc" of guacd_route_connection
Target(c) == IF Select[c] = "new" THEN c ELSE Select[c]

Fails ==
    /\ faults < MaxFaults
    /\ faults' = faults + 1

\* The daemon accepts c and starts its thread.
Accept(c) ==
    /\ pc[c] = "none"
    /\ \A d \in After[c] : child[d] = "exited" \/ pc[d] = "done"
    /\ FreeFds # {}
    /\ file' = [file EXCEPT ![Lowest] = Client(c)]
    /\ pc' = [pc EXCEPT ![c] = "select"]
    /\ UNCHANGED <<failed, io, procvars, childvars, heldvars, uservars, late, undefined, faults>>

\* guacd_connection_thread frees the socket if it could not be routed.
Refused(c) ==
    /\ file' = Closed({Client(c)})
    /\ pc' = [pc EXCEPT ![c] = "done"]

\* No select instruction came in time, or it was malformed, or
\* guacd_create_proc failed, which leaves nothing over.
SelectFails(c) ==
    /\ pc[c] = "select"
    /\ Fails
    /\ Refused(c)
    /\ UNCHANGED <<failed, io, procvars, childvars, heldvars, uservars, late, undefined>>

\* Mutant: the process can be joined as soon as it exists.
SelectNewRegisters(c) ==
    /\ pc[c] = "select" /\ Select[c] = "new"
    /\ Cardinality(FreeFds) > 1
    /\ file' = [file EXCEPT ![Second] = Proc(c)]
    /\ fd_socket' = [fd_socket EXCEPT ![c] = Second]
    /\ child' = [child EXCEPT ![c] = "loading"]
    /\ heldFar' = [heldFar EXCEPT ![c] = {d \in Conns : InDaemon(Far(d))}]
    /\ heldClient' = [heldClient EXCEPT ![c] = {d \in Conns : InDaemon(Client(d))}]
    /\ pc' = [pc EXCEPT ![c] = "pair"]
    /\ map' = map \union {c}
    /\ UNCHANGED <<failed, io, shut, owner, queue, uservars, late, undefined, faults>>

\* guacd_create_proc: the child has what the daemon has open when it forks.
SelectNew(c) ==
    /\ pc[c] = "select" /\ Select[c] = "new"
    /\ Cardinality(FreeFds) > 1
    /\ file' = [file EXCEPT ![Second] = Proc(c)]
    /\ fd_socket' = [fd_socket EXCEPT ![c] = Second]
    /\ child' = [child EXCEPT ![c] = "loading"]
    /\ heldFar' = [heldFar EXCEPT ![c] = {d \in Conns : InDaemon(Far(d))}]
    /\ heldClient' = [heldClient EXCEPT ![c] = {d \in Conns : InDaemon(Client(d))}]
    /\ pc' = [pc EXCEPT ![c] = "pair"]
    /\ UNCHANGED <<failed, io, map, shut, owner, queue, uservars, late, undefined, faults>>

\* guacd_proc_map_retrieve
SelectJoin(c) ==
    /\ pc[c] = "select" /\ Select[c] # "new"
    /\ IF Select[c] \in map
       THEN pc' = [pc EXCEPT ![c] = "pair"] /\ UNCHANGED file
       ELSE Refused(c)
    /\ UNCHANGED <<failed, io, procvars, childvars, heldvars, uservars, late, undefined, faults>>

\* guacd_add_user has failed: a new process is stopped, and in the end the
\* socket freed.  Whatever the pair has open stays open.
AddUserFailed(c) ==
    /\ IF Select[c] = "new"
       THEN /\ failed' = [failed EXCEPT ![c] = TRUE]
            /\ pc' = [pc EXCEPT ![c] = "stop"]
            /\ UNCHANGED file
       ELSE Refused(c) /\ UNCHANGED failed
    /\ UNCHANGED <<io, queue, undefined>>

\* guacd_add_user: socketpair
Pair(c) ==
    /\ pc[c] = "pair"
    /\ Cardinality(FreeFds) > 1
    /\ file' = [file EXCEPT ![Lowest] = Near(c), ![Second] = Far(c)]
    /\ pc' = [pc EXCEPT ![c] = "send"]
    /\ UNCHANGED <<failed, io, procvars, childvars, heldvars, uservars, late, undefined, faults>>

PairFails(c) ==
    /\ pc[c] = "pair"
    /\ Fails
    /\ AddUserFailed(c)
    /\ UNCHANGED <<procvars, childvars, heldFar, heldClient, uservars, late>>

\* guacd_add_user: the descriptor goes to whatever the number in the
\* guacd_proc is open on now; then the I/O threads start.
Send(c) ==
    /\ pc[c] = "send"
    /\ LET freed == pc[Target(c)] = "done"
           at == IF freed THEN Free ELSE file[fd_socket[Target(c)]]
           p == at[2]
       IN  \/ /\ freed \/ at[1] \notin {"proc", "free"}
              /\ undefined' = TRUE
              /\ UNCHANGED <<pc, failed, io, file, queue>>
           \/ /\ ~freed /\ at[1] = "proc" /\ child[p] # "exited" /\ p \notin shut
              /\ queue' = [queue EXCEPT ![p] = Append(@, c)]
              /\ file' = Closed({Far(c)})
              /\ io' = [io EXCEPT ![c] = TRUE]
              /\ pc' = [pc EXCEPT ![c] = IF Select[c] = "new" THEN "register" ELSE "done"]
              /\ UNCHANGED <<failed, undefined>>
           \/ /\ ~freed
              /\ at = Free \/ (at[1] = "proc" /\ (child[p] = "exited" \/ p \in shut))
              /\ AddUserFailed(c)
    /\ UNCHANGED <<faults, procvars, childvars, heldFar, heldClient, uservars, late>>

\* guacd_proc_map_add
Register(c) ==
    /\ pc[c] = "register"
    /\ map' = map \union {c}
    /\ pc' = [pc EXCEPT ![c] = "wait"]
    /\ UNCHANGED <<failed, io, file, fd_socket, childvars, heldvars, uservars, late, undefined, faults>>

\* Mutant: the entry stays in the map.
RemoveKeeps(c) ==
    /\ pc[c] = "wait" /\ child[c] = "exited"
    /\ map' = map
    /\ late' = late \union {d \in Conns : Target(d) = c /\ pc[d] \in {"pair", "send"}}
    /\ pc' = [pc EXCEPT ![c] = "stop"]
    /\ UNCHANGED <<failed, io, file, fd_socket, childvars, heldvars, uservars, undefined, faults>>

\* waitpid and guacd_proc_map_remove
Remove(c) ==
    /\ pc[c] = "wait" /\ child[c] = "exited"
    /\ map' = map \ {c}
    /\ late' = late \union {d \in Conns : Target(d) = c /\ pc[d] \in {"pair", "send"}}
    /\ pc' = [pc EXCEPT ![c] = "stop"]
    /\ UNCHANGED <<failed, io, file, fd_socket, childvars, heldvars, uservars, undefined, faults>>

\* guacd_proc_stop in the daemon.  The socket is one of datagrams: the end
\* of the process is not shut down with the daemon's.
Stop(c) ==
    /\ pc[c] = "stop"
    /\ file' = [file EXCEPT ![fd_socket[c]] = Free]
    /\ pc' = [pc EXCEPT ![c] = "close"]
    /\ UNCHANGED <<failed, io, procvars, childvars, heldvars, uservars, late, undefined, faults>>

\* Mutant: the socket of a client without a user is not freed.
CloseAgainKeeps(c) ==
    /\ pc[c] = "close"
    /\ pc' = [pc EXCEPT ![c] = "done"]
    /\ IF file[fd_socket[c]] = Free
       THEN file' = file /\ UNCHANGED undefined
       ELSE undefined' = TRUE /\ UNCHANGED file
    /\ failed' = [failed EXCEPT ![c] = FALSE]
    /\ fd_socket' = [fd_socket EXCEPT ![c] = None]
    /\ UNCHANGED <<io, map, childvars, heldvars, uservars, late, faults>>

\* The number is closed once more, whatever it is open on by now, the
\* guacd_proc is freed, and the client's socket too if it has no user.
CloseAgain(c) ==
    /\ pc[c] = "close"
    /\ pc' = [pc EXCEPT ![c] = "done"]
    /\ IF file[fd_socket[c]] = Free
       THEN file' = (IF failed[c] THEN Closed({Client(c)}) ELSE file) /\ UNCHANGED undefined
       ELSE undefined' = TRUE /\ UNCHANGED file
    /\ failed' = [failed EXCEPT ![c] = FALSE]
    /\ fd_socket' = [fd_socket EXCEPT ![c] = None]
    /\ UNCHANGED <<io, map, childvars, heldvars, uservars, late, faults>>

-----------------------------------------------------------------------------
(* The I/O threads of a user (connection.c).                               *)

\* The two threads have ended, and guacd_connection_io_thread closes: the
\* data of the process is at its end, and the client's too, or what it still
\* sends cannot be written.  Or else the client has gone and the data of the
\* process cannot be written to it.
IOEnds(c) ==
    /\ io[c]
    /\ io' = [io EXCEPT ![c] = FALSE]
    /\ file' = Closed({Client(c), Near(c)})
    /\ IF FarEndOpen(c) THEN Fails ELSE UNCHANGED faults
    /\ UNCHANGED <<connvars, procvars, childvars, heldvars, uservars, late, undefined>>

-----------------------------------------------------------------------------
(* The process (guacd_exec_proc).                                          *)

\* The end of a process: all it has open is closed, what was sent to it lost.
Ends(p) ==
    /\ child' = [child EXCEPT ![p] = "exited"]
    /\ queue' = [queue EXCEPT ![p] = <<>>]
    /\ heldFar' = [heldFar EXCEPT ![p] = {}]
    /\ heldClient' = [heldClient EXCEPT ![p] = {}]
    /\ user' = [c \in Conns |-> IF placed[c] = p THEN "gone" ELSE user[c]]
    /\ placed' = [c \in Conns |-> IF placed[c] = p THEN None ELSE placed[c]]
    /\ owner' = [owner EXCEPT ![p] = None]
    /\ UNCHANGED <<connvars, io, file, procvars, shut, late, undefined>>

Goes(p, state) ==
    /\ child' = [child EXCEPT ![p] = state]
    /\ UNCHANGED <<connvars, io, file, procvars, shut, owner, heldvars, uservars, late, undefined>>

\* guac_client_load_plugin
Load(p) == child[p] = "loading" /\ Goes(p, "serving") /\ UNCHANGED faults
LoadFails(p) == child[p] = "loading" /\ Goes(p, "freeing") /\ Fails

\* guacd_recv_fd, guacd_proc_add_user: the first user is the owner.
Receive(p) ==
    /\ child[p] = "serving" /\ queue[p] # <<>>
    /\ LET c == Head(queue[p])
       IN  /\ queue' = [queue EXCEPT ![p] = Tail(@)]
           /\ heldFar' = [heldFar EXCEPT ![p] = @ \union {c}]
           /\ placed' = [placed EXCEPT ![c] = p]
           /\ user' = [user EXCEPT ![c] = "handshake"]
           /\ owner' = [owner EXCEPT ![p] = IF @ = None THEN c ELSE @]
    /\ UNCHANGED <<connvars, io, file, procvars, child, shut, heldClient, late, undefined, faults>>

\* The shut down socket is at its end; closed by another thread, at once.
ReceiveFails(p) ==
    child[p] = "serving" /\ p \in shut /\ Goes(p, "freeing") /\ UNCHANGED faults

\* guacd_timed_client_free: the client is freed, or the process group killed
\* after GUACD_CLIENT_FREE_TIMEOUT; both end the process.
Exit(p) == child[p] = "freeing" /\ Ends(p) /\ UNCHANGED faults

\* setpgid failed, or the plug-in brings the process down.
Dies(p) == child[p] \in {"loading", "serving"} /\ Ends(p) /\ Fails

-----------------------------------------------------------------------------
(* The thread of a user (guacd_user_thread).                               *)

UserGoes(c, state) ==
    /\ user' = [user EXCEPT ![c] = state]
    /\ UNCHANGED <<connvars, io, file, procvars, childvars, heldvars, placed, late, undefined>>

\* guac_user_handle_connection, up to guac_client_add_user or a failure
Joins(c) == user[c] = "handshake" /\ UserGoes(c, "connected") /\ UNCHANGED faults
JoinFails(c) == user[c] = "handshake" /\ UserGoes(c, "left") /\ Fails

\* It returns: the user disconnects, is silent for GUACD_USEC_TIMEOUT, or
\* the client is stopping.
Leaves(c) == user[c] = "connected" /\ UserGoes(c, "left") /\ UNCHANGED faults

\* Mutant: connected_users is decremented after the test.
ConnectedUsersLeaving(p) == {d \in Conns : user[d] \in {"connected", "left"} /\ placed[d] = p}

\* client->connected_users
ConnectedUsers(p) == {d \in Conns : user[d] = "connected" /\ placed[d] = p}

\* The last user stops the process: guacd_proc_stop at this end.
CheckLast(c) ==
    /\ user[c] = "left"
    /\ shut' = IF ConnectedUsers(placed[c]) = {} THEN shut \union {placed[c]} ELSE shut
    /\ user' = [user EXCEPT ![c] = "gone"]
    /\ heldFar' = [heldFar EXCEPT ![placed[c]] = @ \ {c}]
    /\ UNCHANGED <<connvars, io, file, procvars, child, owner, queue, heldClient, placed, late,
                   undefined, faults>>

-----------------------------------------------------------------------------
Route(c) ==
    \/ SelectFails(c) \/ SelectNew(c) \/ SelectJoin(c)
    \/ Pair(c) \/ PairFails(c) \/ Send(c)
    \/ Register(c) \/ Remove(c) \/ Stop(c) \/ CloseAgain(c)

ExecProc(p) == Load(p) \/ LoadFails(p) \/ Receive(p) \/ ReceiveFails(p) \/ Exit(p)

UserThread(c) == Joins(c) \/ JoinFails(c) \/ Leaves(c) \/ CheckLast(c)

Next ==
    /\ ~undefined
    /\ \E c \in Conns :
         \/ Accept(c) \/ Route(c)
         \/ IOEnds(c)
         \/ ExecProc(c) \/ Dies(c)
         \/ UserThread(c)

Spec == Init /\ [][Next]_vars

-----------------------------------------------------------------------------
(* Properties.                                                             *)

\* A user is in the process it asked for, whatever connections, joins and
\* ends of processes interleave, except if that process left the map after
\* guacd_proc_map_retrieve and before guacd_send_fd.
RoutedRight ==
    \A c \in Conns \ late :
        placed[c] \in {None, Target(c)}

\* The owner of a process is the connection that created it: nobody can join
\* before guacd_proc_map_add, which follows guacd_send_fd (but for late ones).
OwnerIsCreator == \A p \in Conns : owner[p] \in {None, p} \union late

\* The thread of c has ended, waits for the end of its process, or has neither two
\* descriptors nor a fault left.
ConnectionRests(c) ==
    \/ pc[c] \in {"none", "done"}
    \/ pc[c] = "wait" /\ child[c] # "exited"
    \/ /\ pc[c] = "pair" \/ (pc[c] = "select" /\ Select[c] = "new")
       /\ ~ (Cardinality(FreeFds) > 1) /\ ~ (faults < MaxFaults)

\* The process is over, or waits for users.
ProcessRests(p) ==
    \/ child[p] \in {"none", "exited"}
    \/ child[p] = "serving" /\ queue[p] = <<>> /\ p \notin shut

\* No thread can take another step.  Every step of a thread or process
\* brings it closer to its end, so that a behaviour in which they all run
\* comes to such a state.
Settled ==
    \A c \in Conns :
        /\ ConnectionRests(c)
        /\ io[c] => FarEndOpen(c) /\ ~ (faults < MaxFaults)
        /\ ProcessRests(c)
        /\ user[c] \in {"none", "gone"}

\* A process that took a user ends, whoever leaves, fails or comes late: the
\* last guacd_user_thread to leave stops it, and a client that cannot be
\* freed does not keep it.  Processes without a user end only if they fail.
ProcessEnds ==
    Settled => undefined \/ \A p \in Conns :
                  child[p] \in {"none", "exited"} \/ (child[p] = "serving" /\ owner[p] = None)

\* A process that no user could be added to, which nothing will ever stop.
Abandoned == \E p \in Conns : child[p] = "serving" /\ pc[p] = "done"

\* The client's socket is closed in the end, by the daemon and by every
\* process that inherited it, whether the connection was routed or refused.
ClientReleased ==
    Settled => \/ undefined
               \/ Abandoned
               \/ \A c \in Conns : /\ ~InDaemon(Client(c))
                                   /\ \A p \in Conns : c \notin heldClient[p]
-----------------------------------------------------------------------------
(* The inductive invariant of GuacdProofs.                                 *)

Things == {Free} \union ({"client", "near", "far", "proc"} \X Conns)

TypeOK ==
    /\ pc \in [Conns -> {"none", "select", "pair", "send", "register", "wait", "stop", "close",
                         "done"}]
    /\ file \in [Fds -> Things]
    /\ fd_socket \in [Conns -> Fds \union {None}]
    /\ map \subseteq Conns /\ late \subseteq Conns
    /\ child \in [Conns -> {"none", "loading", "serving", "freeing", "exited"}]
    /\ queue \in [Conns -> Seq(Conns)]
    /\ owner \in [Conns -> Conns \union {None}]
    /\ placed \in [Conns -> Conns \union {None}]

\* The thread that creates a process goes on for it alone, with its number, and until
\* it stops the process that number is open on the socket of the process.
ProcInv ==
    \A p \in Conns :
        /\ pc[p] \in {"register", "wait", "stop", "close"} => Select[p] = "new"
        /\ pc[p] \in {"pair", "send", "register", "wait", "stop"} /\ Select[p] = "new" =>
              file[fd_socket[p]] = Proc(p)
        /\ pc[p] \in {"pair", "send", "register", "wait", "stop", "close"} /\ Select[p] = "new" =>
              fd_socket[p] \in Fds

\* A process is in the map while its thread waits for its end, and a join that
\* found it there finds it in place, or else is late and its thread has gone on.
MapInv ==
    /\ \A p \in map : pc[p] = "wait"
    /\ \A c \in Conns :
          pc[c] \in {"pair", "send"} /\ Select[c] # "new" =>
              \/ Select[c] \in map
              \/ c \in late /\ pc[Select[c]] \in {"stop", "close", "done"}

\* What is under way to a process was meant for it, or late.
QueueInv ==
    \A p \in Conns : \A i \in 1..Len(queue[p]) :
        queue[p][i] \in late \/ Target(queue[p][i]) = p

\* The creator is first in the queue of its process, or already its owner.
FirstInv ==
    \A p \in Conns :
        /\ owner[p] = None /\ queue[p] # <<>> => Head(queue[p]) \in {p} \union late
        /\ pc[p] \in {"register", "wait"} /\ child[p] # "exited" =>
              owner[p] # None \/ queue[p] # <<>>

GInv == TypeOK /\ ProcInv /\ MapInv /\ QueueInv /\ FirstInv /\ RoutedRight /\ OwnerIsCreator

-----------------------------------------------------------------------------
(* What is invariant besides, for ProcessEnds and ClientReleased.          *)

Live == {"handshake", "connected", "left"}
Sent == {"register", "wait", "stop", "close", "done"}

UserTypeOK ==
    /\ io \in [Conns -> BOOLEAN] /\ failed \in [Conns -> BOOLEAN]
    /\ user \in [Conns -> Live \union {"none", "gone"}]
    /\ heldFar \in [Conns -> SUBSET Conns] /\ heldClient \in [Conns -> SUBSET Conns]

\* Nothing is open on two numbers, nor before the code that opens it.
FileInv ==
    /\ \A m, n \in Fds : file[m] = file[n] /\ file[m] # Free => m = n
    /\ \A c \in Conns : \A n \in Fds :
          /\ file[n] = Client(c) => pc[c] # "none"
          /\ file[n] = Proc(c) => pc[c] \notin {"none", "select"} /\ child[c] # "none"
          /\ file[n] \in {Near(c), Far(c)} => pc[c] \notin {"none", "select", "pair"}

\* A client's socket that the daemon has open is in the hands of the thread that
\* routes it, of its I/O threads, or of the thread that stops its process.
ClientInv ==
    undefined \/ \A c \in Conns : \A n \in Fds :
        /\ file[n] = Client(c) /\ pc[c] \in Sent =>
              io[c] \/ (failed[c] /\ pc[c] \in {"stop", "close"})
        /\ io[c] => pc[c] \in Sent /\ file[n] # Far(c)

\* A process that has not begun or is over has nothing open, and no user.
ChildInv ==
    \A p \in Conns :
        /\ child[p] # "none" => pc[p] \notin {"none", "select"}
        /\ child[p] \in {"none", "exited"} =>
              queue[p] = <<>> /\ heldFar[p] = {} /\ heldClient[p] = {} /\ owner[p] = None

\* A user is sent once, and is nowhere until it is received.
OnceInv ==
    /\ \A p, q \in Conns : \A i \in 1..Len(queue[p]), j \in 1..Len(queue[q]) :
          queue[p][i] = queue[q][j] => p = q /\ i = j
    /\ \A p \in Conns : \A i \in 1..Len(queue[p]) : user[queue[p][i]] = "none"
    /\ \A p \in Conns : \A i \in 1..Len(queue[p]) : pc[queue[p][i]] \in Sent
    /\ \A c \in Conns : user[c] # "none" => pc[c] \in Sent
    /\ \A c \in Conns : user[c] \in Live => placed[c] # None
    /\ \A c \in Conns : placed[c] # None => user[c] # "none"

\* Until its end of fd_socket is shut down, a process that took a user has one whose
\* thread has still to make the test for the last user.
ServedInv ==
    \A p \in Conns :
        owner[p] # None /\ p \notin shut =>
            \E c \in Conns : placed[c] = p /\ user[c] \in Live

EInv == GInv /\ UserTypeOK /\ FileInv /\ ClientInv /\ ChildInv /\ OnceInv /\ ServedInv

=============================================================================
