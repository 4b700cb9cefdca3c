-------------------------------- MODULE Video --------------------------------
(***************************************************************************)
(* The timeline of an encoded video (guacenc/video.c): how the timestamps  *)
(* of the "sync" instructions of a recording become frames of a video with *)
(* a fixed framerate.                                                      *)
(*                                                                         *)
(* The image of the display is the number of the sync that prepared it, 0  *)
(* for the uninitialized image a new video starts with.  The frame with    *)
(* presentation timestamp k is frames[k + 1].  The encoder may fail on any *)
(* frame; the packets it returns for the others are not modelled.  MaxGap  *)
(* keeps the product elapsed * 1000 of guacenc_video_advance_timeline in   *)
(* the range of int: syncs are less than a day apart.                      *)
(***************************************************************************)
EXTENDS Integers, Sequences

CONSTANTS Timestamps,   \* the timestamps of sync instructions
          MaxSyncs,     \* bound on the syncs of a recording
          MaxGap        \* bound on the time between two syncs

INT_MAX == 2147483647
GUACENC_VIDEO_FRAMERATE == 25

ASSUME VideoAssumption ==
    /\ Timestamps \subseteq Nat
    /\ MaxSyncs \in Nat
    /\ MaxGap \in Nat /\ MaxGap <= INT_MAX \div GUACENC_VIDEO_FRAMERATE

VARIABLES
    last_sync,       \* display->last_sync
    last_timestamp,  \* video->last_timestamp
    next_pts,        \* video->next_pts
    next_frame,      \* the image in video->next_frame
    frames,          \* the images the encoder took, in order
    freed,           \* guacenc_video_free was called
    first,           \* history: the first timestamp counted from, 0 before it
    syncs,           \* history: time and image of the syncs that were accepted
    failed           \* history: the encoder failed on a frame

vars == <<last_sync, last_timestamp, next_pts, next_frame, frames, freed, first, syncs, failed>>

TypeOK ==
    /\ last_sync \in Nat /\ last_timestamp \in Nat /\ next_pts \in Nat
    /\ next_frame \in Nat /\ frames \in Seq(Nat)
    /\ freed \in BOOLEAN /\ failed \in BOOLEAN
    /\ first \in Nat /\ syncs \in Seq([time : Nat, image : Nat])

\* guacenc_video_alloc and guacenc_display_alloc
Init ==
    /\ last_sync = 0 /\ last_timestamp = 0 /\ next_pts = 0
    /\ next_frame = 0 /\ frames = <<>> /\ freed = FALSE
    /\ first = 0 /\ syncs = <<>> /\ failed = FALSE

-----------------------------------------------------------------------------
\* A sync instruction; it is the next of the recording.
Arrives(t) ==
    /\ ~ freed
    /\ Len(syncs) < MaxSyncs
    /\ last_timestamp # 0 => t - last_timestamp <= MaxGap

Happened(t, image) == syncs' = Append(syncs, [time |-> t, image |-> image])

\* guacenc_video_flush_frame, n times with success
FlushFrames(n) ==
    /\ frames' = frames \o [i \in 1..n |-> next_frame]
    /\ next_pts' = next_pts + n

\* int elapsed in guacenc_video_advance_timeline; a sync is never in the past
Elapsed(t) == ((t - last_timestamp) * GUACENC_VIDEO_FRAMERATE) \div 1000

\* Mutant: the time of the sync itself is kept.
NextTimestampUnrounded(t) == t

\* next_timestamp in guacenc_video_advance_timeline
NextTimestamp(t) ==
    last_timestamp + (Elapsed(t) * 1000) \div GUACENC_VIDEO_FRAMERATE

\* guacenc_video_advance_timeline, successful
AdvanceTimeline(t) ==
    \/ /\ last_timestamp = 0
       /\ last_timestamp' = t /\ first' = t
       /\ UNCHANGED <<frames, next_pts>>
    \/ /\ last_timestamp # 0 /\ Elapsed(t) = 0
       /\ UNCHANGED <<last_timestamp, first, frames, next_pts>>
    \/ /\ last_timestamp # 0 /\ Elapsed(t) # 0
       /\ FlushFrames(Elapsed(t))
       /\ last_timestamp' = NextTimestamp(t)
       /\ UNCHANGED first

\* guacenc_video_prepare_frame: nothing is copied when the default layer has no
\* surface, or no memory is left for the conversion
PrepareFrame(t) ==
    \E image \in {next_frame, Len(syncs) + 1} :
        next_frame' = image /\ Happened(t, image)

\* guacenc_display_sync, refused: "Decreasing sync timestamp"
SyncDecreasing(t) ==
    /\ Arrives(t)
    /\ t < last_sync
    /\ UNCHANGED vars

\* Mutant: the image is prepared although the frame boundary was not reached.
SyncPrepareFirst(t) ==
    /\ Arrives(t)
    /\ t >= last_sync
    /\ last_sync' = t
    /\ last_timestamp # 0 /\ Elapsed(t) # 0
    /\ PrepareFrame(t)
    /\ frames' = frames \o [i \in 1..Elapsed(t) |-> next_frame']
    /\ next_pts' = next_pts + Elapsed(t)
    /\ last_timestamp' = NextTimestamp(t)
    /\ UNCHANGED <<first, freed, failed>>

\* Mutant: this sync's image is prepared before the timeline advances.
SyncSwapped(t) ==
    \/ SyncPrepareFirst(t)
    \/ /\ Arrives(t)
       /\ t >= last_sync
       /\ last_timestamp = 0 \/ Elapsed(t) = 0
       /\ last_sync' = t
       /\ AdvanceTimeline(t)
       /\ PrepareFrame(t)
       /\ UNCHANGED <<freed, failed>>

\* guacenc_display_sync, successful
Sync(t) ==
    /\ Arrives(t)
    /\ t >= last_sync
    /\ last_sync' = t
    /\ AdvanceTimeline(t)
    /\ PrepareFrame(t)
    /\ UNCHANGED <<freed, failed>>

\* Mutant: the timestamp is updated although the encoder failed.
SyncEncodeFailsUpdates(t) ==
    /\ Arrives(t)
    /\ t >= last_sync
    /\ last_timestamp # 0 /\ Elapsed(t) > 0
    /\ last_sync' = t
    /\ last_timestamp' = NextTimestamp(t)
    /\ \E n \in 0..(Elapsed(t) - 1) : FlushFrames(n)
    /\ Happened(t, next_frame)
    /\ failed' = TRUE
    /\ UNCHANGED <<next_frame, freed, first>>

\* guacenc_display_sync when the encoder fails after n frames: neither the
\* timestamp of the video nor its image is updated
SyncEncodeFails(t) ==
    /\ Arrives(t)
    /\ t >= last_sync
    /\ last_timestamp # 0 /\ Elapsed(t) > 0
    /\ last_sync' = t
    /\ \E n \in 0..(Elapsed(t) - 1) : FlushFrames(n)
    /\ Happened(t, next_frame)
    /\ failed' = TRUE
    /\ UNCHANGED <<last_timestamp, next_frame, freed, first>>

\* guacenc_video_free: the last image is a frame of its own
Free ==
    /\ ~ freed
    /\ freed' = TRUE
    /\ \/ FlushFrames(1) /\ UNCHANGED failed
       \/ failed' = TRUE /\ UNCHANGED <<frames, next_pts>>
    /\ UNCHANGED <<last_sync, last_timestamp, next_frame, first, syncs>>

Next ==
    \/ \E t \in Timestamps : SyncDecreasing(t) \/ Sync(t) \/ SyncEncodeFails(t)
    \/ Free

Spec == Init /\ [][Next]_vars

-----------------------------------------------------------------------------
FrameTime == 1000 \div GUACENC_VIDEO_FRAMERATE

(* While every frame is encoded, the frames written are exactly those that  *)
(* fit between the first sync and the last: rounding each step down to a    *)
(* frame never accumulates a drift (guacenc_video_advance_timeline).        *)
TimelineExact ==
    ~ failed /\ ~ freed /\ last_timestamp # 0 =>
        /\ last_timestamp = first + FrameTime * next_pts
        /\ last_sync - last_timestamp \in 0..(FrameTime - 1)

\* Sync j is the last one before the end of frame k.
LastBefore(j, k) ==
    /\ syncs[j].time < first + FrameTime * k
    /\ j < Len(syncs) => syncs[j + 1].time >= first + FrameTime * k

(* Each frame shows the display as the last sync before the end of that     *)
(* frame left it: no image is shown early, and none is shown late except    *)
(* one that is replaced within its own frame (video.h:151-160).             *)
FramesInTime ==
    ~ failed /\ first # 0 =>
        \A k \in 1..Len(frames), j \in 1..Len(syncs) :
            LastBefore(j, k) => frames[k] = syncs[j].image

(* Whatever fails, the frames encoded reach up to the timestamp the video   *)
(* continues from: a failed flush is made up for by the next sync and no    *)
(* time is cut out of the video (the early return of advance_timeline).     *)
NeverShort ==
    last_timestamp # 0 => first + FrameTime * next_pts >= last_timestamp

-----------------------------------------------------------------------------
(* The parts of the inductive invariant from which VideoProofs derives the  *)
(* invariants above.                                                        *)

\* The frames that stand for time: guacenc_video_free adds one that does not.
TimedFrames == IF freed THEN next_pts - 1 ELSE next_pts

\* There is no timeline, and nothing on it, before a sync with a timestamp.
StartInv ==
    /\ Len(frames) = next_pts
    /\ last_timestamp = 0 => first = 0 /\ (freed \/ next_pts = 0)
    /\ last_timestamp # 0 => first # 0
    /\ last_timestamp <= last_sync

\* TimelineExact, also after guacenc_video_free.
GridInv ==
    ~ failed /\ last_timestamp # 0 =>
        /\ last_timestamp = first + FrameTime * TimedFrames
        /\ last_sync < last_timestamp + FrameTime
        /\ freed => next_pts > 0

\* The accepted syncs are in order, and the last of them is what the display
\* and the video remember.
SyncsInv ==
    /\ \A i \in 1..Len(syncs) : syncs[i].time <= last_sync
    /\ \A i \in 1..Len(syncs) :
          i = Len(syncs) => syncs[i].time = last_sync /\ syncs[i].image = next_frame

VInv ==
    /\ TypeOK /\ StartInv /\ GridInv /\ SyncsInv /\ FramesInTime /\ NeverShort

=============================================================================
