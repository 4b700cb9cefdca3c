-------------------------------- MODULE Jobs --------------------------------
(***************************************************************************)
(* The encoding server of guacenc: the reactor thread (epollreactor.c and  *)
(* the callbacks of jobs.c), one worker thread per connection              *)
(* (job_worker_thread) and the semaphore that lets a window of them run    *)
(* (guacenc.c).                                                            *)
(*                                                                         *)
(* A client connects, sends one configuration that names a recording, and  *)
(* keeps the connection open while the recording is still growing.  Its    *)
(* job, its worker and its recording carry the client's name.              *)
(*                                                                         *)
(* Simplifications.  An instruction of a recording is one read of the      *)
(* worker; what the encoder makes of it is in other modules.  File         *)
(* descriptors are those of connections and recordings; numbers are given  *)
(* out lowest first, as POSIX requires, and the descriptors of the epoll   *)
(* instance, the listening socket and the output file are left out.  Data  *)
(* a client sends after its configuration is read and dropped by           *)
(* job_client_callback and is left out.                                    *)
(*                                                                         *)
(* The epoll instance registers an open connection, not a number: the      *)
(* registration ends with EPOLL_CTL_DEL or when no process has the         *)
(* connection open any more.  accept sets no close-on-exec flag, so an     *)
(* ffmpeg started by one worker keeps every connection open that was open  *)
(* at its fork, and with it the registration.  A connection has one number *)
(* in its life, the one accept gave it, so interest is a set of            *)
(* connections, each registered under jobfd[c].                            *)
(***************************************************************************)
EXTENDS Integers, FiniteSets

CONSTANTS Clients,     \* the clients that connect, each at most once
          Fds,         \* descriptor numbers
          ListenFd,    \* the event of the listening socket
          Window,      \* the argument of server_init
          Workloads,   \* what the clients of a run may ask for, a client each
          None

Sources == {"good",       \* an existing, well-formed recording
            "malformed",  \* one with an instruction that does not parse
            "missing",    \* a recording that cannot be opened
            "nodir",      \* a path in which the output cannot be created
            "garbage"}    \* a configuration that is late or cannot be parsed

\* A client names a recording that grows up to a length, or never connects.
Asks(s, n) == [source |-> s, length |-> n]
Never == Asks("never", 0)

ASSUME JobsAssumption ==
    /\ IsFiniteSet(Clients) /\ Clients \subseteq Nat
    /\ Window \in Nat
    /\ Workloads \subseteq [Clients -> [source : Sources \union {"never"}, length : Nat]]
    /\ Fds \subseteq Nat /\ ListenFd \in Nat \ Clients
    /\ None \notin Clients \union Fds

VARIABLES
    asks,       \* asks[c]: what client c asks for in this run
    client,     \* client[c]: "absent", "open" or "closed", as c sees its socket
    backlog,    \* clients waiting to be accepted
    recorded,   \* recorded[c]: instructions in c's recording so far
    file,       \* file[n]: what descriptor n is open on
    interest,   \* connections in the kernel's epoll interest list
    status,     \* status[n]: reactor->events[n].status
    data,       \* data[n]: the job reactor->events[n].data points to
    batch,      \* events returned by epoll_wait and not yet handled, by connection
    rpc,        \* where the reactor thread is
    rclient,    \* the connection it is setting up, or reads and waits for
    rfd,        \* the descriptor it is handling
    sem,        \* the value of server_inter.sem
    job,        \* job[c]: "none", "live" or "freed"
    source,     \* source[c]: what the job's config names
    jobfd,      \* job->fd
    recfd,      \* job->recording_fd, None for -1
    terminate,  \* job->terminate
    wpc,        \* wpc[c]: where worker c is
    hold,       \* hold[c]: status_sem_hold of worker c
    pos,        \* pos[c]: instructions read from c's recording
    ffmpeg,     \* ffmpeg[c]: c's child is "none", "running" or "ended" (not waited for)
    held,       \* held[c]: the connections that child has open
    left,       \* history: numbers closed while their registration went on
    uaf         \* the jobs that were written to after they were freed

envvars    == <<asks, client, backlog, recorded>>
fdvars     == <<file, interest, left>>
evvars     == <<status, data>>
reactvars  == <<batch, rpc, rclient, rfd>>
jobvars    == <<job, source, jobfd, recfd, terminate>>
workvars   == <<sem, wpc, hold>>
childvars  == <<ffmpeg, held>>
vars == <<envvars, fdvars, evvars, reactvars, jobvars, workvars, childvars, pos, uaf>>

Free == <<"free", None>>
Conn(c) == <<"conn", c>>
Rec(c) == <<"rec", c>>

\* What a worker does between sem_wait and sem_post.
Encoding == {"read", "slice", "eof"}
WorkerAt == {"none", "open", "wait", "finish", "child", "transcoded", "destroy", "done",
             "killed"} \union Encoding

TypeOK ==
    /\ asks \in Workloads
    /\ client \in [Clients -> {"absent", "open", "closed"}]
    /\ backlog \subseteq Clients
    /\ recorded \in [Clients -> Nat]
    /\ file \in [Fds -> {Free} \union {Conn(c) : c \in Clients} \union {Rec(c) : c \in Clients}]
    /\ interest \subseteq Clients
    /\ status \in [Fds -> 0..1]
    /\ data \in [Fds -> Clients \union {None}]
    /\ batch \subseteq Clients \union {ListenFd}
    /\ rpc \in {"wait", "dispatch", "config", "register", "read", "tell", "close", "killed"}
    /\ rclient \in Clients \union {None}
    /\ rfd \in Fds \union {None}
    /\ sem \in 0..Window
    /\ job \in [Clients -> {"none", "live", "freed"}]
    /\ source \in [Clients -> Sources]
    /\ jobfd \in [Clients -> Fds \union {None}]
    /\ recfd \in [Clients -> Fds \union {None}]
    /\ terminate \in [Clients -> BOOLEAN]
    /\ wpc \in [Clients -> WorkerAt]
    /\ hold \in [Clients -> BOOLEAN]
    /\ pos \in [Clients -> Nat]
    /\ uaf \subseteq Clients
    /\ ffmpeg \in [Clients -> {"none", "running", "ended"}]
    /\ held \in [Clients -> SUBSET Clients]
    /\ left \subseteq Fds

Init ==
    /\ asks \in Workloads
    /\ client = [c \in Clients |-> "absent"]
    /\ backlog = {}
    /\ recorded = [c \in Clients |-> 0]
    /\ file = [n \in Fds |-> Free]
    /\ interest = {}
    /\ status = [n \in Fds |-> 0]
    /\ data = [n \in Fds |-> None]
    /\ batch = {} /\ rpc = "wait" /\ rclient = None /\ rfd = None
    /\ sem = Window
    /\ job = [c \in Clients |-> "none"]
    /\ source = [c \in Clients |-> "missing"]
    /\ jobfd = [c \in Clients |-> None]
    /\ recfd = [c \in Clients |-> None]
    /\ terminate = [c \in Clients |-> FALSE]
    /\ wpc = [c \in Clients |-> "none"]
    /\ hold = [c \in Clients |-> FALSE]
    /\ pos = [c \in Clients |-> 0]
    /\ uaf = {}
    /\ ffmpeg = [c \in Clients |-> "none"]
    /\ held = [c \in Clients |-> {}]
    /\ left = {}

-----------------------------------------------------------------------------
(* The clients and the program that writes the recordings: outside src/.   *)

\* Clients are numbered in the order they connect.
Connect(c) ==
    /\ client[c] = "absent" /\ asks[c].source # "never"
    /\ \A d \in Clients : d < c => client[d] # "absent"
    /\ client' = [client EXCEPT ![c] = "open"]
    /\ backlog' = backlog \union {c}
    /\ UNCHANGED <<asks, recorded, fdvars, evvars, reactvars, jobvars, workvars, pos,
                   uaf, childvars>>

\* The recording grows only while its client keeps the connection open.
Record(c) ==
    /\ client[c] = "open"
    /\ recorded[c] < asks[c].length
    /\ recorded' = [recorded EXCEPT ![c] = @ + 1]
    /\ UNCHANGED <<asks, client, backlog, fdvars, evvars, reactvars, jobvars, workvars, pos,
                   uaf, childvars>>

ClientClose(c) ==
    /\ client[c] = "open"
    /\ client' = [client EXCEPT ![c] = "closed"]
    /\ UNCHANGED <<asks, backlog, recorded, fdvars, evvars, reactvars, jobvars, workvars,
                   pos,
                   uaf, childvars>>

-----------------------------------------------------------------------------
(* Descriptors.                                                            *)

IsLowestFree(n) ==
    /\ file[n] = Free
    /\ \A m \in Fds : file[m] = Free => n <= m

\* The connections some child has open.
Inherited == UNION {held[c] : c \in Clients}

\* close(n): EBADF when n is not open.  The kernel forgets the registration of
\* a connection with its last descriptor, so not while a child has one; the
\* program's own events[n].status is not touched.
CloseWith(n, registered) ==
    LET gone == {c \in registered : file[n] = Conn(c)} IN
    /\ file' = [file EXCEPT ![n] = Free]
    /\ interest' = registered \ (gone \ Inherited)
    /\ left' = IF gone \intersect Inherited = {} THEN left ELSE left \union {n}

Close(n) == CloseWith(n, interest)

-----------------------------------------------------------------------------
(* The reactor thread.                                                     *)

\* A number is readable, in this model, as a connection its client closed.
Readable(n) == \E c \in Clients : file[n] = Conn(c) /\ client[c] = "closed"

\* epoll_wait returns at least one event: that a registered connection was
\* closed by its client, whatever its number is open on now
EpollWait ==
    /\ rpc = "wait"
    /\ batch' = {c \in interest : client[c] = "closed"}
                  \union (IF backlog # {} THEN {ListenFd} ELSE {})
    /\ batch' # {}
    /\ rpc' = "dispatch"
    /\ UNCHANGED <<rclient, rfd, envvars, fdvars, evvars, jobvars, workvars, pos, uaf,
                   childvars>>

\* A callback returned: the next event of the batch, or epoll_wait again.
NextEvent(rest) ==
    /\ batch' = rest
    /\ rpc' = IF rest = {} THEN "wait" ELSE "dispatch"
    /\ rclient' = None
    /\ rfd' = None

\* job_accept_callback up to the wait for the configuration
Accept(c, n) ==
    /\ rpc = "dispatch" /\ ListenFd \in batch
    /\ c \in backlog /\ \A d \in backlog : c <= d   \* accept(2) is first come, first served
    /\ IsLowestFree(n)
    /\ backlog' = backlog \ {c}
    /\ file' = [file EXCEPT ![n] = Conn(c)]
    /\ batch' = batch \ {ListenFd}
    /\ rpc' = "config" /\ rclient' = c /\ rfd' = n
    /\ UNCHANGED <<asks, client, recorded, interest, left, evvars, jobvars, workvars,
                   childvars,
                   pos, uaf>>

\* job_recv_video_config times out or cannot parse what it received
ConfigRefused ==
    /\ rpc = "config" /\ asks[rclient].source = "garbage"
    /\ Close(rfd)
    /\ NextEvent(batch)
    /\ UNCHANGED <<envvars, evvars, jobvars, workvars, pos, uaf, childvars>>

\* The configuration the job is made from: the client's own, or, when the read
\* returned 0 and left the structure unset, one that names no recording.
ConfigOf(c) ==
    ({asks[c].source} \ {"garbage"}) \union (IF client[c] = "closed" THEN {"missing"} ELSE {})

\* job_create and a successful pthread_create
StartJob ==
    /\ rpc = "config"
    /\ \E s \in ConfigOf(rclient) : source' = [source EXCEPT ![rclient] = s]
    /\ job' = [job EXCEPT ![rclient] = "live"]
    /\ jobfd' = [jobfd EXCEPT ![rclient] = rfd]
    /\ wpc' = [wpc EXCEPT ![rclient] = "open"]
    /\ rpc' = "register"
    /\ UNCHANGED <<recfd, terminate, batch, rclient, rfd, sem, hold,
                   envvars, fdvars, evvars, pos, uaf, childvars>>

\* job_create, a failed pthread_create and job_destroy
StartJobFails ==
    /\ rpc = "config" /\ ConfigOf(rclient) # {}
    /\ job' = [job EXCEPT ![rclient] = "freed"]
    /\ jobfd' = [jobfd EXCEPT ![rclient] = rfd]
    /\ Close(rfd)
    /\ NextEvent(batch)
    /\ UNCHANGED <<source, recfd, terminate, envvars, evvars, workvars, pos, uaf,
                   childvars>>

\* rwEvent_add: EPOLL_CTL_MOD when status is 1, EPOLL_CTL_ADD otherwise; the
\* kernel refuses the first for an unregistered descriptor and both for a
\* closed one or a regular file.  The result is ignored and status is 1.
EpollCtlAccepts(n) ==
    {c \in Clients : file[n] = Conn(c) /\ (status[n] = 1 => c \in interest)}

rwEvent_add(n) ==
    /\ interest' = interest \union EpollCtlAccepts(n)
    /\ status' = [status EXCEPT ![n] = 1]

\* Mutant: the event is registered before it is given its job.
RegisterUnset ==
    /\ rpc = "register"
    /\ rwEvent_add(rfd)
    /\ NextEvent(batch)
    /\ UNCHANGED <<data, file, left, envvars, jobvars, workvars, pos, uaf, childvars>>

\* the end of job_connection_handle, after the worker was started
Register ==
    /\ rpc = "register"
    /\ data' = [data EXCEPT ![rfd] = rclient]
    /\ rwEvent_add(rfd)
    /\ NextEvent(batch)
    /\ UNCHANGED <<file, left, envvars, jobvars, workvars, pos, uaf, childvars>>

\* The event of a registered connection is handled: job_client_callback reads
\* the number it was registered under.
Dispatched(c, n) == rpc = "dispatch" /\ c \in batch /\ n = jobfd[c]

\* job_client_callback, read() < 0: the descriptor was closed meanwhile
ReadFails(c, n) ==
    /\ Dispatched(c, n)
    /\ file[n] = Free
    /\ NextEvent(batch \ {c})
    /\ UNCHANGED <<envvars, fdvars, evvars, jobvars, workvars, pos, uaf, childvars>>

\* job_client_callback, read() > 0: the number now belongs to a recording and
\* the reactor takes some of its data, perhaps up to the middle of an instruction
ReadSteals(c, n, d) ==
    /\ Dispatched(c, n)
    /\ file[n] = Rec(d) /\ pos[d] < recorded[d]
    /\ \E p \in (pos[d] + 1)..recorded[d] : pos' = [pos EXCEPT ![d] = p]
    /\ source' \in {source, [source EXCEPT ![d] = "malformed"]}
    /\ NextEvent(batch \ {c})
    /\ UNCHANGED <<envvars, fdvars, evvars, job, jobfd, recfd, terminate, workvars, uaf,
                   childvars>>

\* job_client_callback, read() = 0: the client closed the connection the number
\* is open on, or the number now belongs to a recording that is at its end
ReadEof(c, n) ==
    /\ Dispatched(c, n)
    /\ \/ Readable(n)
       \/ \E d \in Clients : file[n] = Rec(d) /\ pos[d] = recorded[d]
    /\ batch' = batch \ {c}
    /\ rpc' = "tell" /\ rfd' = n
    /\ UNCHANGED <<rclient, envvars, fdvars, evvars, jobvars, workvars, pos, uaf,
                   childvars>>

\* job_client_callback: the number now belongs to a connection its client has
\* not closed, and read() blocks the reactor
ReadBlocks(c, n, d) ==
    /\ Dispatched(c, n)
    /\ file[n] = Conn(d) /\ client[d] = "open"
    /\ batch' = batch \ {c}
    /\ rpc' = "read" /\ rclient' = d /\ rfd' = n
    /\ UNCHANGED <<envvars, fdvars, evvars, jobvars, workvars, pos, uaf, childvars>>

\* ... until that client closes it, whatever the number is open on by then
ReadReturns ==
    /\ rpc = "read" /\ client[rclient] = "closed"
    /\ rpc' = "tell" /\ rclient' = None
    /\ UNCHANGED <<batch, rfd, envvars, fdvars, evvars, jobvars, workvars, pos, uaf,
                   childvars>>

\* job->terminate = 1 through reactor->events[fd].data
TellWorker ==
    /\ rpc = "tell"
    /\ LET c == data[rfd] IN
         IF job[c] = "live"
         THEN terminate' = [terminate EXCEPT ![c] = TRUE] /\ UNCHANGED uaf
         ELSE uaf' = uaf \union {c} /\ UNCHANGED terminate
    /\ rpc' = "close"
    /\ UNCHANGED <<batch, rclient, rfd, envvars, fdvars, evvars, job, source, jobfd, recfd,
                   workvars, pos, childvars>>

\* Mutant: the event is left registered and the descriptor open.
CloseClientLeaves ==
    /\ rpc = "close"
    /\ NextEvent(batch)
    /\ UNCHANGED <<fdvars, evvars, envvars, jobvars, workvars, pos, uaf, childvars>>

\* What EPOLL_CTL_DEL leaves registered; it is not called when status is not 1.
rwEvent_del(n) ==
    interest \ {c \in Clients : status[n] = 1 /\ file[n] = Conn(c)}

\* rwEvent_del and close(fd)
CloseClient ==
    /\ rpc = "close"
    /\ status' = [status EXCEPT ![rfd] = 0]
    /\ CloseWith(rfd, rwEvent_del(rfd))
    /\ NextEvent(batch)
    /\ UNCHANGED <<data, envvars, jobvars, workvars, pos, uaf, childvars>>

-----------------------------------------------------------------------------
(* A worker thread: job_loop_read_recodingfile, then the transcoding of the *)
(* result (module Transcode) and job_destroy.                               *)

OpenRecording(c, n) ==
    /\ wpc[c] = "open" /\ source[c] # "missing"
    /\ IsLowestFree(n)
    /\ file' = [file EXCEPT ![n] = Rec(c)]
    /\ recfd' = [recfd EXCEPT ![c] = n]
    /\ wpc' = [wpc EXCEPT ![c] = "wait"]
    /\ UNCHANGED <<interest, left, job, source, jobfd, terminate, sem, hold, childvars,
                   envvars, evvars, reactvars, pos, uaf>>

OpenFails(c) ==
    /\ wpc[c] = "open" /\ source[c] = "missing"
    /\ wpc' = [wpc EXCEPT ![c] = "finish"]
    /\ UNCHANGED <<sem, hold, envvars, fdvars, evvars, reactvars, jobvars, pos, uaf,
                   childvars>>

\* Mutant: the permit is taken without waiting for one.
sem_wait_Try(c) ==
    /\ wpc[c] = "wait"
    /\ sem' = IF sem > 0 THEN sem - 1 ELSE 0
    /\ hold' = [hold EXCEPT ![c] = TRUE]
    /\ wpc' = [wpc EXCEPT ![c] = "read"]
    /\ UNCHANGED <<envvars, fdvars, evvars, reactvars, jobvars, pos, uaf, childvars>>

\* Mutant: the worker goes on when sem_wait was interrupted by a signal.
sem_wait_Interrupted(c) ==
    /\ wpc[c] = "wait"
    /\ wpc' = [wpc EXCEPT ![c] = "read"]
    /\ \/ /\ sem > 0
          /\ sem' = sem - 1
          /\ hold' = [hold EXCEPT ![c] = TRUE]
       \/ UNCHANGED <<sem, hold>>
    /\ UNCHANGED <<envvars, fdvars, evvars, reactvars, jobvars, pos, uaf, childvars>>

sem_wait(c) ==
    /\ wpc[c] = "wait"
    /\ sem > 0
    /\ sem' = sem - 1
    /\ hold' = [hold EXCEPT ![c] = TRUE]
    /\ wpc' = [wpc EXCEPT ![c] = "read"]
    /\ UNCHANGED <<envvars, fdvars, evvars, reactvars, jobvars, pos, uaf, childvars>>

\* Mutant: status_sem_hold is not cleared.
sem_post_KeepsHold(c, pc) ==
    /\ sem' = sem + 1
    /\ hold' = hold
    /\ wpc' = [wpc EXCEPT ![c] = pc]

\* sem_post, leaving the loop for pc
sem_post(c, pc) ==
    /\ sem' = sem + 1
    /\ hold' = [hold EXCEPT ![c] = FALSE]
    /\ wpc' = [wpc EXCEPT ![c] = pc]

\* five seconds have passed at the head of the loop
TimeSlice(c) ==
    /\ wpc[c] = "slice"
    /\ sem_post(c, "wait")
    /\ UNCHANGED <<envvars, fdvars, evvars, reactvars, jobvars, pos, uaf, childvars>>

\* What read(recording_fd) finds: Rec(c) itself, unless the descriptor was
\* closed by another thread and its number given out again.
ReadsFrom(c) == file[recfd[c]]

\* The first access to job->ins when ins_transVideo_create failed and returned
\* NULL: the signal kills every thread of the process.
NullIns(c) ==
    /\ wpc[c] = "read" /\ source[c] = "nodir"
    /\ rpc' = "killed"
    /\ wpc' = [d \in Clients |-> "killed"]
    /\ UNCHANGED <<sem, hold, batch, rclient, rfd, envvars, fdvars, evvars, jobvars, pos,
                   uaf,
                   childvars>>

\* The bytes up to the next ';' and ins_parser_read; the time is looked at
\* when the loop starts over
ReadInstruction(c, d) ==
    /\ wpc[c] = "read" /\ source[c] # "nodir"
    /\ ReadsFrom(c) = Rec(d) /\ pos[d] < recorded[d]
    /\ pos' = [pos EXCEPT ![d] = @ + 1]
    /\ \E pc \in {"read", "slice"} : wpc' = [wpc EXCEPT ![c] = pc]
    /\ UNCHANGED <<sem, hold, envvars, fdvars, evvars, reactvars, jobvars, uaf, childvars>>

\* ins_parser_read < 0: return -1 without sem_post
ParseFails(c, d) ==
    /\ wpc[c] = "read" /\ source[c] # "nodir"
    /\ ReadsFrom(c) = Rec(d) /\ pos[d] < recorded[d]
    /\ source[d] = "malformed"
    /\ pos' = [pos EXCEPT ![d] = @ + 1]
    /\ wpc' = [wpc EXCEPT ![c] = "finish"]
    /\ UNCHANGED <<sem, hold, envvars, fdvars, evvars, reactvars, jobvars, uaf, childvars>>

\* read() = 0; job->terminate is looked at in a later step
ReadAtEnd(c) ==
    /\ wpc[c] = "read" /\ source[c] # "nodir"
    /\ \/ \E d \in Clients : ReadsFrom(c) = Rec(d) /\ pos[d] = recorded[d]
       \/ Readable(recfd[c])
    /\ wpc' = [wpc EXCEPT ![c] = "eof"]
    /\ UNCHANGED <<sem, hold, envvars, fdvars, evvars, reactvars, jobvars, pos, uaf,
                   childvars>>

\* Mutant: a read error returns like a parse error does.
RecordingGoneReturns(c) ==
    /\ wpc[c] = "read" /\ source[c] # "nodir"
    /\ ReadsFrom(c) = Free
    /\ wpc' = [wpc EXCEPT ![c] = "finish"]
    /\ UNCHANGED <<sem, hold, envvars, fdvars, evvars, reactvars, jobvars, pos, uaf,
                   childvars>>

\* read() < 0 (EBADF): the loop is left through sem_post
RecordingGone(c) ==
    /\ wpc[c] = "read" /\ source[c] # "nodir"
    /\ ReadsFrom(c) = Free
    /\ sem_post(c, "finish")
    /\ UNCHANGED <<envvars, fdvars, evvars, reactvars, jobvars, pos, uaf, childvars>>

\* Mutant: the end of the recording is only waited for.
AtEndWaits(c) ==
    /\ wpc[c] = "eof"
    /\ sem_post(c, "wait")
    /\ UNCHANGED <<envvars, fdvars, evvars, reactvars, jobvars, pos, uaf, childvars>>

\* if(job->terminate) the loop ends, otherwise the worker lets others run
AtEnd(c) ==
    /\ wpc[c] = "eof"
    /\ sem_post(c, IF terminate[c] THEN "finish" ELSE "wait")
    /\ UNCHANGED <<envvars, fdvars, evvars, reactvars, jobvars, pos, uaf, childvars>>

\* job_exec: the child inherits every descriptor of the process (accept sets no
\* close-on-exec flag).  Its exec may fail; it ends in both cases.  A worker that
\* could not open its recording has nothing to transcode.
Fork(c) ==
    /\ wpc[c] = "finish" /\ source[c] # "missing"
    /\ ffmpeg' = [ffmpeg EXCEPT ![c] = "running"]
    /\ held' = [held EXCEPT ![c] = {d \in Clients : \E n \in Fds : file[n] = Conn(d)}]
    /\ wpc' = [wpc EXCEPT ![c] = "child"]
    /\ UNCHANGED <<sem, hold, envvars, fdvars, evvars, reactvars, jobvars, pos, uaf>>

\* job_exec: wait(NULL) takes any child that has ended
WaitChild(c, d) ==
    /\ wpc[c] = "child" /\ ffmpeg[d] = "ended"
    /\ ffmpeg' = [ffmpeg EXCEPT ![d] = "none"]
    /\ wpc' = [wpc EXCEPT ![c] = "transcoded"]
    /\ UNCHANGED <<held, sem, hold, envvars, fdvars, evvars, reactvars, jobvars, pos, uaf>>

\* After job_call_ffmpeg_for_video, which forks nothing when there is nothing to
\* transcode or no process to be had (the file is in module Transcode),
\* job_destroy begins with close(job->fd), whoever has that number now.
DestroyClosesFd(c) ==
    /\ wpc[c] \in {"finish", "transcoded"}
    /\ Close(jobfd[c])
    /\ wpc' = [wpc EXCEPT ![c] = "destroy"]
    /\ UNCHANGED <<sem, hold, envvars, evvars, reactvars, jobvars, pos, uaf, childvars>>

\* job_destroy: close(job->recording_fd) and free(job)
DestroyFrees(c) ==
    /\ wpc[c] = "destroy"
    /\ IF recfd[c] = None THEN UNCHANGED fdvars ELSE Close(recfd[c])
    /\ job' = [job EXCEPT ![c] = "freed"]
    /\ wpc' = [wpc EXCEPT ![c] = "done"]
    /\ UNCHANGED <<source, jobfd, recfd, terminate, sem, hold,
                   envvars, evvars, reactvars, pos, uaf, childvars>>

-----------------------------------------------------------------------------
\* A child ends: its descriptors are closed, and with the last one of a
\* connection that connection's registration.
FfmpegEnds(c) ==
    LET closed == {d \in held[c] : /\ \A n \in Fds : file[n] # Conn(d)
                                   /\ \A e \in Clients \ {c} : d \notin held[e]}
    IN
    /\ ffmpeg[c] = "running"
    /\ ffmpeg' = [ffmpeg EXCEPT ![c] = "ended"]
    /\ held' = [held EXCEPT ![c] = {}]
    /\ interest' = interest \ closed
    /\ UNCHANGED <<file, left, envvars, evvars, reactvars, jobvars, workvars, pos, uaf>>

-----------------------------------------------------------------------------
Environment == \E c \in Clients : Connect(c) \/ Record(c) \/ ClientClose(c)

Reactor ==
    \/ EpollWait
    \/ \E c \in Clients, n \in Fds : Accept(c, n)
    \/ ConfigRefused
    \/ StartJob
    \/ StartJobFails
    \/ Register
    \/ \E c \in Clients, n \in Fds : ReadFails(c, n) \/ ReadEof(c, n)
    \/ \E c, d \in Clients, n \in Fds : ReadSteals(c, n, d) \/ ReadBlocks(c, n, d)
    \/ ReadReturns
    \/ TellWorker
    \/ CloseClient

Worker(c) ==
    \/ \E n \in Fds : OpenRecording(c, n)
    \/ OpenFails(c)
    \/ sem_wait(c)
    \/ TimeSlice(c)
    \/ NullIns(c)
    \/ \E d \in Clients : ReadInstruction(c, d) \/ ParseFails(c, d)
    \/ ReadAtEnd(c)
    \/ RecordingGone(c)
    \/ AtEnd(c)
    \/ Fork(c)
    \/ \E d \in Clients : WaitChild(c, d)
    \/ DestroyClosesFd(c)
    \/ DestroyFrees(c)

Next ==
    \/ Environment
    \/ Reactor
    \/ \E c \in Clients : Worker(c) \/ FfmpegEnds(c)

Spec == Init /\ [][Next]_vars

(* The workers are scheduled, a connection is not kept open for ever, an    *)
(* ffmpeg ends, and a thread in sem_wait gets the semaphore if it is posted *)
(* again and again (every sem_post of the loop is followed by sched_yield). *)
WorkersFair ==
    \A c \in Clients :
        /\ WF_vars(ClientClose(c))
        /\ WF_vars(FfmpegEnds(c))
        /\ WF_vars(Worker(c))
        /\ SF_vars(sem_wait(c))

\* The workers progress whether or not the reactor, which may block, does.
WorkersSpec == Spec /\ WorkersFair

FairSpec == Spec /\ WorkersFair /\ WF_vars(Reactor)

-----------------------------------------------------------------------------
Holders == {c \in Clients : hold[c]}

(* The permits of the semaphore are exactly those not kept by a worker:     *)
(* sem_post is never done by a worker that holds none (jobs.c:170-219).     *)
PermitsAccounted == sem + Cardinality(Holders) = Window

(* At most thread_window_size workers encode at a time (guacenc.h,          *)
(* server_inter), and only workers that hold a permit do.                   *)
WindowRespected ==
    /\ \A c \in Clients : wpc[c] \in Encoding => hold[c]
    /\ Cardinality({c \in Clients : wpc[c] \in Encoding}) <= Window

(* While a registered connection has its number, events[] of that number is *)
(* about that connection's own job, which is live: whatever numbers are     *)
(* closed twice and given out again, its end of file is reported to nobody  *)
(* else (job_connection_handle, rwEvent_add, rwEvent_del, job_destroy).  A  *)
(* registration left behind by close (jobs.c:247) lasts no longer than an   *)
(* ffmpeg that was forked while the connection was open (jobs.c:314).       *)
RegisteredIsOwn ==
    \A c \in interest :
        IF file[jobfd[c]] = Conn(c)
        THEN status[jobfd[c]] = 1 /\ data[jobfd[c]] = c /\ job[c] = "live"
        ELSE \E d \in Clients : ffmpeg[d] = "running" /\ c \in held[d]

\* A worker ended and kept its permit (see PermitKeptOnlyOnParseError).
PermitLost == \E d \in Clients : hold[d] /\ wpc[d] = "done"

(* A worker that was told its client is gone reads what is left of its      *)
(* recording and ends, whatever the other workers do (jobs.c:204-219) and   *)
(* even if the reactor is stuck, unless the window shrank for ever or the   *)
(* process died.  (A told worker stays told and an ended one ended, so the  *)
(* formula says of each told worker that it ends.)                          *)
ToldWorkerEnds ==
    <>[](\A c \in Clients : terminate[c] => wpc[c] \in {"done", "killed"} \/ PermitLost)

(* "告诉线程可以退出了" (jobs.c:508): when a client closes its connection, the    *)
(* worker of its job is told, and the job ends.                             *)
ClosedClientEndsJob ==
    \A c \in Clients : client[c] = "closed" /\ wpc[c] # "none" ~> wpc[c] = "done"

(* A worker keeps its permit past the loop only when an instruction of a    *)
(* recording did not parse (the return of jobs.c:198); after every other    *)
(* way out of the loop, also through a descriptor that was taken away from  *)
(* it, the window is as large as before.                                    *)
PermitKeptOnlyOnParseError ==
    \A c \in Clients :
        hold[c] /\ wpc[c] \in {"finish", "child", "transcoded", "destroy", "done"}
            => \E d \in Clients : source[d] = "malformed"

(* job_client_callback writes to a job that was freed (jobs.c:505-511, a    *)
(* section marked "lock" that takes none) only if the worker ended without  *)
(* being told: a job that was told once is not touched after its end.  Only *)
(* a registration that a child kept alive can report a number twice, so the *)
(* jobs of numbers that were left registered are excepted.                  *)
FreedOnlyUntold == \A c \in uaf : terminate[c] => jobfd[c] \in left

-----------------------------------------------------------------------------
(* The parts of the inductive invariant from which JobsProofs derives the   *)
(* invariants above.                                                        *)

\* A worker holds a permit while it encodes and none before it starts.
HoldInv ==
    \A c \in Clients :
        /\ wpc[c] \in Encoding => hold[c]
        /\ wpc[c] \in {"none", "open", "wait"} => ~ hold[c]

\* A client that was not accepted has no job yet.
NewInv ==
    \A c \in Clients :
        /\ client[c] = "absent" \/ c \in backlog => job[c] = "none"
        /\ client[c] = "absent" \/ c \in backlog => \A n \in Fds : file[n] # Conn(c)
        /\ job[c] = "none" => /\ wpc[c] \in {"none", "killed"} /\ jobfd[c] = None
                             /\ source[c] # "malformed"
                             /\ ~ terminate[c]
                             /\ \A n \in Fds : file[n] # Rec(c)
                             /\ c \notin interest \union batch
        /\ client[c] = "absent" => c \notin backlog
        /\ client[c] # "absent" => asks[c].source # "never"

\* The connection the reactor is setting up.
SetupInv ==
    /\ rpc \in {"config", "register"} =>
          /\ rclient \in Clients /\ rfd \in Fds
          /\ client[rclient] # "absent" /\ rclient \notin backlog
          /\ rclient \notin interest \union batch
          /\ \A d \in Clients : file[rfd] = Conn(d) => d = rclient
          /\ \A n \in Fds : data[n] # rclient
    /\ rpc = "config" => job[rclient] = "none"
    /\ rpc = "register" => /\ jobfd[rclient] = rfd /\ job[rclient] # "none"
                           /\ wpc[rclient] # "none" /\ ~ terminate[rclient]
    /\ rpc = "read" => rclient \in Clients
    /\ rpc # "killed" => \A c \in Clients : wpc[c] # "killed"

\* A worker's job is live until the worker frees it, and by then its connection
\* is closed.
LifeInv ==
    \A c \in Clients :
        /\ wpc[c] \notin {"none", "done", "killed"} => job[c] = "live"
        /\ wpc[c] = "none" => job[c] # "live"
        /\ job[c] = "live" => jobfd[c] \in Fds
        /\ wpc[c] \in {"destroy", "done"} => \A n \in Fds : jobfd[c] = n => file[n] # Conn(c)
        /\ held[c] # {} => ffmpeg[c] = "running"
        /\ ffmpeg[c] # "none" => wpc[c] \in {"child", "transcoded", "destroy", "done", "killed"}

\* A connection is open under no number but its own, and a registered one that
\* is not open under its number left that number registered.
LeftInv ==
    /\ \A n \in Fds, c \in Clients :
          file[n] = Conn(c) =>
              \/ jobfd[c] = n
              \/ jobfd[c] = None /\ rpc \in {"config", "killed"} /\ rclient = c /\ rfd = n
    /\ \A c \in interest \union (batch \ {ListenFd}) :
          jobfd[c] \in Fds /\ data[jobfd[c]] \in Clients
    /\ \A c \in interest :
          \/ file[jobfd[c]] = Conn(c)
          \/ jobfd[c] \in left
    /\ \A c, d \in batch \ {ListenFd} :
          jobfd[c] = jobfd[d] /\ c # d => jobfd[c] \in left

\* events[n].data is the job that was started for descriptor n, and a job that
\* was told is not pointed to by an event that can still be reported.
DataInv ==
    /\ \A n \in Fds, c \in Clients :
          data[n] = c =>
              /\ jobfd[c] = n /\ job[c] # "none"
              /\ terminate[c] /\ n \notin left =>
                    /\ \A d \in batch \ {ListenFd} : jobfd[d] # n
                    /\ \A d \in interest : jobfd[d] = n => rpc \in {"close", "killed"} /\ rfd = n
                    /\ ~ (rpc \in {"read", "tell"} /\ rfd = n)
    /\ rpc \in {"read", "tell", "close"} =>
          /\ rfd \in Fds /\ data[rfd] \in Clients
          /\ rfd \in left \/ \A d \in batch \ {ListenFd} : jobfd[d] # rfd
    /\ \A c \in uaf : job[c] = "freed"

JInv ==
    /\ TypeOK /\ PermitsAccounted /\ RegisteredIsOwn /\ PermitKeptOnlyOnParseError
    /\ FreedOnlyUntold
    /\ HoldInv /\ NewInv /\ SetupInv /\ LifeInv /\ LeftInv /\ DataInv

=============================================================================
