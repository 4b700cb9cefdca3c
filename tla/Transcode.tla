------------------------------ MODULE Transcode ------------------------------
(***************************************************************************)
(* The files and child processes of the encoding server: each job encodes  *)
(* into a temporary file, runs ffmpeg on it when the recording has ended,  *)
(* removes it and only then frees the encoder (guacenc/jobs.c:301-371,     *)
(* encode.c:36-70).                                                        *)
(*                                                                         *)
(* The temporary and the output file are both named after the session and  *)
(* the path the client sent, so one name stands for the two.  A file is    *)
(* the job that created it: a name that is removed leaves the file to      *)
(* those that have it open.  Frames the encoder and stdio have not yet     *)
(* written are the difference between frames and written.  A child that    *)
(* could not exec ffmpeg goes on in the code of the worker; of what it     *)
(* does, the removal of the temporary file is modelled, and its copies of  *)
(* stdio buffers are not.                                                  *)
(***************************************************************************)
EXTENDS Integers, FiniteSets

CONSTANTS Workers,    \* the jobs, each with its thread
          Names,      \* the names the clients choose
          MaxFrames,  \* bound on the frames of a video
          MayFail,    \* calls that may fail: "thread", "fork", "exec"
          None

ASSUME TranscodeAssumption ==
    /\ IsFiniteSet(Workers)
    /\ MaxFrames \in Nat
    /\ MayFail \subseteq {"thread", "fork", "exec"}
    /\ None \notin Workers \union Names

VARIABLES
    pc,       \* pc[w]: where the thread of job w is
    name,     \* name[w]: the name in its configuration
    frames,   \* frames[w]: frames given to its encoder
    written,  \* written[w]: frames in its temporary file
    tmp,      \* tmp[n]: the file the temporary name n stands for
    out,      \* out[n]: what the output file n holds
    child,    \* child[w]: the state of the process w forked
    input     \* input[w]: the file that process reads

vars == <<pc, name, frames, written, tmp, out, child, input>>

Output == [file : Workers, frames : Nat]
Unreaped == {"started", "reading", "astray", "exited"}

TypeOK ==
    /\ pc \in [Workers -> {"new", "encode", "look", "fork", "wait", "unlink", "destroy",
                           "done", "refused"}]
    /\ name \in [Workers -> Names \union {None}]
    /\ frames \in [Workers -> Nat] /\ written \in [Workers -> Nat]
    /\ tmp \in [Names -> Workers \union {None}]
    /\ out \in [Names -> Output \union {None}]
    /\ child \in [Workers -> {"none", "reaped"} \union Unreaped]
    /\ input \in [Workers -> Workers \union {None}]

Init ==
    /\ pc = [w \in Workers |-> "new"]
    /\ name = [w \in Workers |-> None]
    /\ frames = [w \in Workers |-> 0] /\ written = [w \in Workers |-> 0]
    /\ tmp = [n \in Names |-> None] /\ out = [n \in Names |-> None]
    /\ child = [w \in Workers |-> "none"]
    /\ input = [w \in Workers |-> None]

At(w, p) == pc[w] = p
Goto(w, p) == pc' = [pc EXCEPT ![w] = p]

\* guacenc_video_free writes one more frame and all that is left
FreesVideo(w) ==
    /\ frames' = [frames EXCEPT ![w] = @ + 1]
    /\ written' = [written EXCEPT ![w] = frames[w] + 1]

\* unlink of the temporary name of w, if it is there
RemoveTmp(w) == tmp' = [tmp EXCEPT ![name[w]] = None]

-----------------------------------------------------------------------------
\* job_create and ins_transVideo_create, on the reactor thread: a file that has
\* the name is removed and a new one is created.  Without a thread the job is
\* destroyed at once, and its file stays.
Create(w, n) ==
    /\ At(w, "new")
    /\ \/ Goto(w, "encode") /\ UNCHANGED <<frames, written>>
       \/ /\ "thread" \in MayFail
          /\ Goto(w, "refused") /\ FreesVideo(w)
    /\ name' = [name EXCEPT ![w] = n]
    /\ tmp' = [tmp EXCEPT ![n] = w]
    /\ UNCHANGED <<out, child, input>>

\* A frame is encoded; what reaches the file is up to libavcodec and stdio.
Encode(w) ==
    /\ At(w, "encode")
    /\ frames[w] < MaxFrames
    /\ frames' = [frames EXCEPT ![w] = @ + 1]
    /\ \E k \in written[w]..(frames[w] + 1) : written' = [written EXCEPT ![w] = k]
    /\ UNCHANGED <<pc, name, tmp, out, child, input>>

\* job->handler returns
HandlerReturns(w) ==
    /\ At(w, "encode")
    /\ Goto(w, "look")
    /\ UNCHANGED <<name, frames, written, tmp, out, child, input>>

\* job_call_ffmpeg_for_video: the temporary file is not there
LookNoFile(w) ==
    /\ At(w, "look")
    /\ tmp[name[w]] = None
    /\ Goto(w, "destroy")
    /\ UNCHANGED <<name, frames, written, tmp, out, child, input>>

\* it is there and empty
LookEmpty(w) ==
    /\ At(w, "look")
    /\ tmp[name[w]] # None /\ written[tmp[name[w]]] = 0
    /\ Goto(w, "unlink")
    /\ UNCHANGED <<name, frames, written, tmp, out, child, input>>

\* it is there and has data: an earlier output file is removed
LookData(w) ==
    /\ At(w, "look")
    /\ tmp[name[w]] # None /\ written[tmp[name[w]]] > 0
    /\ out' = [out EXCEPT ![name[w]] = None]
    /\ Goto(w, "fork")
    /\ UNCHANGED <<name, frames, written, tmp, child, input>>

\* Mutant: the worker goes on without waiting for a child.
ForkOnly(w) ==
    /\ At(w, "fork")
    /\ child' = [child EXCEPT ![w] = "started"]
    /\ Goto(w, "unlink")
    /\ UNCHANGED <<name, frames, written, tmp, out, input>>

\* job_exec up to the wait
Fork(w) ==
    /\ At(w, "fork")
    /\ child' = [child EXCEPT ![w] = "started"]
    /\ Goto(w, "wait")
    /\ UNCHANGED <<name, frames, written, tmp, out, input>>

ForkFails(w) ==
    /\ At(w, "fork")
    /\ "fork" \in MayFail
    /\ Goto(w, "unlink")
    /\ UNCHANGED <<name, frames, written, tmp, out, child, input>>

\* Mutant: the worker waits until it has reaped its own child.
WaitUntilOwn(w) ==
    /\ At(w, "wait")
    /\ \E v \in Workers :
          /\ child[v] = "exited"
          /\ child' = [child EXCEPT ![v] = "reaped"]
          /\ IF v = w THEN Goto(w, "unlink") ELSE UNCHANGED pc
    /\ UNCHANGED <<name, frames, written, tmp, out, input>>

\* wait(NULL): whichever child has exited.  There always is a child that has not
\* been waited for (ChildrenAccounted), so the call does not fail.
Wait(w) ==
    /\ At(w, "wait")
    /\ \E v \in Workers :
          /\ child[v] = "exited"
          /\ child' = [child EXCEPT ![v] = "reaped"]
    /\ Goto(w, "unlink")
    /\ UNCHANGED <<name, frames, written, tmp, out, input>>

\* Mutant: the file is removed only by a job that ran ffmpeg.
UnlinkTranscoded(w) ==
    /\ At(w, "unlink")
    /\ IF child[w] = "none" THEN UNCHANGED tmp ELSE RemoveTmp(w)
    /\ Goto(w, "destroy")
    /\ UNCHANGED <<name, frames, written, out, child, input>>

\* DELETE_FILE(tmpfile)
Unlink(w) ==
    /\ At(w, "unlink")
    /\ RemoveTmp(w)
    /\ Goto(w, "destroy")
    /\ UNCHANGED <<name, frames, written, out, child, input>>

\* job_destroy
Destroy(w) ==
    /\ At(w, "destroy")
    /\ FreesVideo(w)
    /\ Goto(w, "done")
    /\ UNCHANGED <<name, tmp, out, child, input>>

-----------------------------------------------------------------------------
(* The child processes.  ffmpeg itself is not part of the repository.      *)

\* ffmpeg opens its input, if the name still stands for a file
ExecOpens(w) ==
    /\ child[w] = "started"
    /\ tmp[name[w]] # None
    /\ child' = [child EXCEPT ![w] = "reading"]
    /\ input' = [input EXCEPT ![w] = tmp[name[w]]]
    /\ UNCHANGED <<pc, name, frames, written, tmp, out>>

ExecFindsNothing(w) ==
    /\ child[w] = "started"
    /\ tmp[name[w]] = None
    /\ child' = [child EXCEPT ![w] = "exited"]
    /\ UNCHANGED <<pc, name, frames, written, tmp, out, input>>

\* ffmpeg reaches the end of its input and has written its output
FfmpegFinishes(w) ==
    /\ child[w] = "reading"
    /\ child' = [child EXCEPT ![w] = "exited"]
    /\ out' = [out EXCEPT ![name[w]] = [file |-> input[w], frames |-> written[input[w]]]]
    /\ UNCHANGED <<pc, name, frames, written, tmp, input>>

\* execvp fails: the child returns from job_exec
ExecFails(w) ==
    /\ child[w] = "started"
    /\ "exec" \in MayFail
    /\ child' = [child EXCEPT ![w] = "astray"]
    /\ UNCHANGED <<pc, name, frames, written, tmp, out, input>>

\* the child removes the temporary file, ends its only thread and exits
AstrayEnds(w) ==
    /\ child[w] = "astray"
    /\ RemoveTmp(w)
    /\ child' = [child EXCEPT ![w] = "exited"]
    /\ UNCHANGED <<pc, name, frames, written, out, input>>

-----------------------------------------------------------------------------
Child(w) ==
    ExecOpens(w) \/ ExecFindsNothing(w) \/ FfmpegFinishes(w) \/ ExecFails(w) \/ AstrayEnds(w)

Transcoding(w) ==
    \/ LookNoFile(w) \/ LookEmpty(w) \/ LookData(w)
    \/ Fork(w) \/ ForkFails(w) \/ Wait(w)
    \/ Unlink(w) \/ Destroy(w)

Next ==
    \E w \in Workers :
        \/ \E n \in Names : Create(w, n)
        \/ Encode(w) \/ HandlerReturns(w)
        \/ Transcoding(w)
        \/ Child(w)

Spec == Init /\ [][Next]_vars

(* Threads and processes are scheduled, and ffmpeg ends.                    *)
FairSpec ==
    /\ Spec
    /\ \A w \in Workers : WF_vars(Transcoding(w)) /\ WF_vars(Child(w))

-----------------------------------------------------------------------------
Children == {w \in Workers : child[w] \in Unreaped}
Waiters == {w \in Workers : At(w, "wait")}

(* There are as many children that were not waited for as there are         *)
(* workers that wait: although wait(NULL) takes the child of any worker,    *)
(* no worker waits for a child that does not exist and none is left a       *)
(* zombie (job_exec).                                                       *)
ChildrenAccounted == Cardinality(Children) = Cardinality(Waiters)

(* A temporary name stands only for the file of a job that has not yet come *)
(* to remove it, or of one that never got a thread: nothing is left behind  *)
(* however jobs of the same name overlap (job_call_ffmpeg_for_video).       *)
NothingLeftBehind ==
    \A n \in Names : tmp[n] # None =>
        pc[tmp[n]] \in {"encode", "look", "fork", "wait", "unlink", "refused"}

(* A worker that waits gets on, whoever takes its child.                    *)
WaitEnds == \A w \in Workers : At(w, "wait") ~> At(w, "done")

(* "File is now completely written" (video.c:450): the output holds all the *)
(* frames of the video it was made from.                                    *)
OutputComplete ==
    \A n \in Names : out[n] # None => out[n].frames = frames[out[n].file]

-----------------------------------------------------------------------------
(* The parts of the inductive invariant from which TranscodeProofs derives  *)
(* the invariants above.                                                    *)

\* A job has a name and forks once, and what its child reads is a file.
ForkedInv ==
    \A w \in Workers :
        /\ pc[w] # "new" => name[w] \in Names
        /\ pc[w] \in {"new", "encode", "look", "fork"} => child[w] = "none"
        /\ child[w] = "reading" => input[w] \in Workers

\* A temporary file has only the name its job gave it.
OwnNameInv ==
    \A n \in Names, w \in Workers : tmp[n] = w => name[w] = n

TInv == TypeOK /\ ForkedInv /\ OwnNameInv /\ NothingLeftBehind /\ ChildrenAccounted

=============================================================================
