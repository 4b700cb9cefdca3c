----------------------------- MODULE VideoProofs -----------------------------
(***************************************************************************)
(* That the frames of a video keep to the times of the syncs, whatever     *)
(* timestamps a recording has: no drift, no image early or late, no time   *)
(* cut out after a failure of the encoder.                                 *)
(***************************************************************************)
EXTENDS Video, SequenceTheorems, TLAPS

\* The integer arithmetic of guacenc_video_advance_timeline: the frames that
\* have elapsed are those that fit, and the next timestamp is on a boundary.
LEMMA Rounding ==
    ASSUME last_timestamp \in Nat, NEW t \in Nat, last_timestamp <= t
    PROVE  /\ Elapsed(t) \in Nat
           /\ last_timestamp + 40 * Elapsed(t) <= t
           /\ t < last_timestamp + 40 * Elapsed(t) + 40
           /\ NextTimestamp(t) = last_timestamp + 40 * Elapsed(t)
  <1>1. /\ Elapsed(t) \in Nat
        /\ last_timestamp + 40 * Elapsed(t) <= t
        /\ t < last_timestamp + 40 * Elapsed(t) + 40
    BY DEF Elapsed, GUACENC_VIDEO_FRAMERATE
  <1>2. \A e \in Nat : (e * 1000) \div 25 = 40 * e
    OBVIOUS
  <1>3. NextTimestamp(t) = last_timestamp + 40 * Elapsed(t)
    BY <1>1, <1>2 DEF NextTimestamp, GUACENC_VIDEO_FRAMERATE
  <1> QED BY <1>1, <1>3

LEMMA FrameTimeIs == FrameTime = 40
  BY DEF FrameTime, GUACENC_VIDEO_FRAMERATE

\* guacenc_video_flush_frame, n times: the frames before stay as they are.
LEMMA Flushed ==
    ASSUME TypeOK, NEW n \in Nat, FlushFrames(n)
    PROVE  /\ frames' \in Seq(Nat)
           /\ Len(frames') = Len(frames) + n
           /\ \A k \in 1..Len(frames) : frames'[k] = frames[k]
           /\ \A k \in 1..Len(frames') : k > Len(frames) => frames'[k] = next_frame
  <1> DEFINE more == [i \in 1..n |-> next_frame]
  <1>1. frames \in Seq(Nat) /\ more \in Seq(Nat) /\ Len(more) = n
    BY DEF TypeOK
  <1>2. frames' = frames \o more
    BY DEF FlushFrames
  <1>3. /\ frames' \in Seq(Nat) /\ Len(frames') = Len(frames) + n
        /\ \A k \in 1..(Len(frames) + n) :
              frames'[k] = IF k <= Len(frames) THEN frames[k] ELSE more[k - Len(frames)]
    BY <1>1, <1>2, ConcatProperties
  <1>4. Len(frames) \in Nat
    BY <1>1
  <1> QED BY <1>3, <1>4

\* The history of the accepted syncs grows by the one that just happened.
LEMMA Remembered ==
    ASSUME TypeOK, NEW t \in Nat, NEW image \in Nat, Happened(t, image)
    PROVE  /\ syncs' \in Seq([time : Nat, image : Nat])
           /\ Len(syncs) \in Nat /\ Len(syncs') = Len(syncs) + 1
           /\ \A j \in 1..Len(syncs) : syncs'[j] = syncs[j]
           /\ syncs'[Len(syncs) + 1].time = t
           /\ syncs'[Len(syncs) + 1].image = image
  <1> DEFINE s == [time |-> t, image |-> image]
  <1>1. syncs \in Seq([time : Nat, image : Nat]) /\ s \in [time : Nat, image : Nat]
    BY DEF TypeOK
  <1>2. syncs' = Append(syncs, s)
    BY DEF Happened
  <1> HIDE DEF s
  <1>3. /\ syncs' \in Seq([time : Nat, image : Nat])
        /\ Len(syncs) \in Nat /\ Len(syncs') = Len(syncs) + 1
        /\ \A j \in 1..Len(syncs) : syncs'[j] = syncs[j]
        /\ syncs'[Len(syncs) + 1] = s
    BY <1>1, <1>2
  <1> QED BY <1>3 DEF s

LEMMA SyncsTyped ==
    ASSUME TypeOK, NEW j \in 1..Len(syncs)
    PROVE  syncs[j].time \in Nat /\ syncs[j].image \in Nat
  <1>1. syncs[j] \in [time : Nat, image : Nat]
    BY ElementOfSeq DEF TypeOK
  <1> QED BY <1>1

\* A sync that is accepted is not in the past of the last, nor of the video.
\* Its time and image become the last of the history.
LEMMA SyncsKept ==
    ASSUME VInv, NEW t \in Nat, t >= last_sync, last_sync' = t,
           NEW image \in Nat, next_frame' = image, Happened(t, image)
    PROVE  SyncsInv'
  <1>0. TypeOK
    BY DEF VInv
  <1>1. /\ Len(syncs) \in Nat /\ Len(syncs') = Len(syncs) + 1
        /\ \A j \in 1..Len(syncs) : syncs'[j] = syncs[j]
        /\ syncs'[Len(syncs) + 1].time = t
        /\ syncs'[Len(syncs) + 1].image = image
    BY <1>0, Remembered
  <1>2. \A j \in 1..Len(syncs) : syncs[j].time \in Nat /\ syncs[j].time <= last_sync
    BY <1>0, SyncsTyped DEF VInv, SyncsInv
  <1>3. last_sync \in Nat
    BY DEF VInv, TypeOK
  <1> QED BY <1>1, <1>2, <1>3 DEF SyncsInv

\* Frames that were in time stay so when a later sync arrives: a frame ends, on
\* the timeline, no later than any sync that is still to come.
LEMMA OldFramesKept ==
    ASSUME VInv, ~ failed, first # 0, first' = first,
           NEW t \in Nat, NEW image \in Nat, Happened(t, image),
           NEW k \in 1..Len(frames), first + 40 * k <= t,
           NEW j \in 1..Len(syncs'), LastBefore(j, k)'
    PROVE  frames[k] = syncs'[j].image
  <1>0. TypeOK
    BY DEF VInv
  <1>1. /\ Len(syncs) \in Nat /\ Len(syncs') = Len(syncs) + 1
        /\ \A i \in 1..Len(syncs) : syncs'[i] = syncs[i]
        /\ syncs'[Len(syncs) + 1].time = t
    BY <1>0, Remembered
  <1>2. first \in Nat /\ k \in Nat
    BY DEF VInv, TypeOK
  <1>3. j # Len(syncs) + 1
    BY <1>1, <1>2, FrameTimeIs DEF LastBefore
  <1>4. j \in 1..Len(syncs) /\ syncs'[j] = syncs[j]
    BY <1>1, <1>3
  <1>5. j < Len(syncs) => j + 1 \in 1..Len(syncs) /\ syncs'[j + 1] = syncs[j + 1]
    BY <1>1, <1>4
  <1>6. LastBefore(j, k)
    BY <1>1, <1>4, <1>5 DEF LastBefore
  <1> QED BY <1>4, <1>6 DEF VInv, FramesInTime

\* The image that was prepared last is the one of the last sync before the end
\* of each frame that ends after that sync and not after the next one.
LEMMA NewFramesShow ==
    ASSUME VInv, first' = first, NEW k \in Nat, last_sync < first + 40 * k,
           NEW t \in Nat, NEW image \in Nat, Happened(t, image), first + 40 * k <= t,
           NEW j \in 1..Len(syncs'), LastBefore(j, k)'
    PROVE  next_frame = syncs'[j].image
  <1>0. TypeOK
    BY DEF VInv
  <1>1. /\ Len(syncs) \in Nat /\ Len(syncs') = Len(syncs) + 1
        /\ \A i \in 1..Len(syncs) : syncs'[i] = syncs[i]
        /\ syncs'[Len(syncs) + 1].time = t
    BY <1>0, Remembered
  <1>2. first \in Nat /\ last_sync \in Nat
    BY DEF VInv, TypeOK
  <1>3. j # Len(syncs) + 1
    BY <1>1, <1>2, FrameTimeIs DEF LastBefore
  <1>4. j \in 1..Len(syncs) /\ syncs'[j] = syncs[j]
    BY <1>1, <1>3
  <1>5. ASSUME j # Len(syncs) PROVE FALSE
    <2>1. j + 1 \in 1..Len(syncs) /\ syncs'[j + 1] = syncs[j + 1] /\ j < Len(syncs')
      BY <1>1, <1>4, <1>5
    <2>2. syncs[j + 1].time \in Nat /\ syncs[j + 1].time <= last_sync
      BY <1>0, <2>1, SyncsTyped DEF VInv, SyncsInv
    <2>3. syncs'[j + 1].time >= first + 40 * k
      BY <2>1, FrameTimeIs DEF LastBefore
    <2> QED BY <1>2, <2>1, <2>2, <2>3
  <1> QED BY <1>4, <1>5 DEF VInv, SyncsInv

\* guacenc_display_sync, successful.
LEMMA SyncKeeps ==
    ASSUME VInv, NEW t \in Timestamps, Sync(t)
    PROVE  VInv'
  <1>0. /\ TypeOK /\ t \in Nat /\ last_timestamp \in Nat /\ last_sync \in Nat
        /\ next_pts \in Nat /\ first \in Nat /\ next_frame \in Nat
        /\ Len(frames) = next_pts /\ last_timestamp <= last_sync
    BY VideoAssumption DEF VInv, TypeOK, StartInv
  <1>1. /\ t >= last_sync /\ last_sync' = t /\ ~ freed /\ freed' = freed /\ failed' = failed
        /\ AdvanceTimeline(t)
    BY DEF Sync, Arrives
  <1>2. PICK image \in {next_frame, Len(syncs) + 1} :
            next_frame' = image /\ Happened(t, image)
    BY DEF Sync, PrepareFrame
  <1>3. image \in Nat
    BY <1>0 DEF TypeOK
  <1>4. syncs' \in Seq([time : Nat, image : Nat])
    BY <1>0, <1>2, <1>3, Remembered
  <1>5. SyncsInv'
    BY <1>0, <1>1, <1>2, <1>3, SyncsKept
  <1>6. CASE last_timestamp = 0
    <2>1. last_timestamp' = t /\ first' = t /\ frames' = frames /\ next_pts' = next_pts
      BY <1>1, <1>6 DEF AdvanceTimeline
    <2>2. next_pts = 0
      BY <1>1, <1>6 DEF VInv, StartInv
    <2>3. TypeOK'
      BY <1>0, <1>1, <1>2, <1>3, <1>4, <2>1 DEF TypeOK
    <2>4. StartInv' /\ GridInv' /\ NeverShort'
      BY <1>0, <1>1, <2>1, <2>2, FrameTimeIs
         DEF StartInv, GridInv, NeverShort, TimedFrames
    <2>5. FramesInTime'
      BY <1>0, <2>1, <2>2 DEF FramesInTime
    <2> QED BY <1>5, <2>3, <2>4, <2>5 DEF VInv
  <1>7. CASE last_timestamp # 0
    <2> DEFINE e == Elapsed(t)
    <2>1. /\ e \in Nat /\ last_timestamp + 40 * e <= t /\ t < last_timestamp + 40 * e + 40
          /\ NextTimestamp(t) = last_timestamp + 40 * e
      BY <1>0, <1>1, Rounding
    <2> HIDE DEF e
    <2>2. /\ last_timestamp' = last_timestamp + 40 * e /\ first' = first
          /\ next_pts' = next_pts + e
          /\ frames' \in Seq(Nat) /\ Len(frames') = Len(frames) + e
          /\ \A k \in 1..Len(frames) : frames'[k] = frames[k]
          /\ \A k \in 1..Len(frames') : k > Len(frames) => frames'[k] = next_frame
      <3>1. CASE e = 0
        BY <1>0, <1>1, <1>7, <2>1, <3>1 DEF AdvanceTimeline, TypeOK, e
      <3>2. CASE e # 0
        <4>1. FlushFrames(e) /\ last_timestamp' = NextTimestamp(t) /\ first' = first
          BY <1>1, <1>7, <3>2 DEF AdvanceTimeline, e
        <4>2. next_pts' = next_pts + e
          BY <4>1 DEF FlushFrames
        <4> QED BY <1>0, <2>1, <4>1, <4>2, Flushed
      <3> QED BY <3>1, <3>2
    <2>3. TypeOK'
      BY <1>0, <1>1, <1>2, <1>3, <1>4, <2>1, <2>2 DEF TypeOK
    <2>4. first # 0 /\ first + 40 * next_pts >= last_timestamp
      BY <1>7, FrameTimeIs DEF VInv, StartInv, NeverShort
    <2>5. ~ failed => /\ last_timestamp = first + 40 * next_pts
                      /\ last_sync < last_timestamp + 40
      BY <1>1, <1>7, FrameTimeIs DEF VInv, GridInv, TimedFrames
    <2>6. StartInv'
      BY <1>0, <1>1, <1>7, <2>1, <2>2, <2>4 DEF StartInv
    <2>7. GridInv'
      BY <1>0, <1>1, <2>1, <2>2, <2>5, FrameTimeIs DEF GridInv, TimedFrames
    <2>8. NeverShort'
      BY <1>0, <2>1, <2>2, <2>4, FrameTimeIs DEF NeverShort
    <2>9. FramesInTime'
      <3> SUFFICES ASSUME ~ failed, NEW k \in 1..Len(frames'), NEW j \in 1..Len(syncs'),
                          LastBefore(j, k)'
                   PROVE  frames'[k] = syncs'[j].image
        BY <1>1 DEF FramesInTime
      <3>1. k \in Nat /\ first + 40 * k <= t
        BY <1>0, <2>1, <2>2, <2>5
      <3>2. CASE k <= Len(frames)
        <4>1. k \in 1..Len(frames)
          BY <1>0, <2>2, <3>2
        <4>2. frames[k] = syncs'[j].image
          BY <1>0, <1>2, <1>3, <2>2, <2>4, <3>1, <4>1, OldFramesKept
        <4> QED BY <2>2, <4>1, <4>2
      <3>3. CASE k > Len(frames)
        <4>1. last_sync < first + 40 * k
          BY <1>0, <2>5, <3>1, <3>3
        <4>2. next_frame = syncs'[j].image
          BY <1>0, <1>2, <1>3, <2>2, <3>1, <4>1, NewFramesShow
        <4> QED BY <2>2, <3>3, <4>2
      <3> QED BY <1>0, <3>1, <3>2, <3>3
    <2> QED BY <1>5, <2>3, <2>6, <2>7, <2>8, <2>9 DEF VInv
  <1> QED BY <1>6, <1>7

\* guacenc_display_sync when the encoder fails: the frames flushed count, the
\* timestamp stays.
LEMMA SyncEncodeFailsKeeps ==
    ASSUME VInv, NEW t \in Timestamps, SyncEncodeFails(t)
    PROVE  VInv'
  <1>0. /\ TypeOK /\ t \in Nat /\ last_timestamp \in Nat /\ last_sync \in Nat
        /\ next_pts \in Nat /\ first \in Nat /\ next_frame \in Nat
        /\ Len(frames) = next_pts /\ last_timestamp <= last_sync
    BY VideoAssumption DEF VInv, TypeOK, StartInv
  <1>1. /\ t >= last_sync /\ last_sync' = t /\ failed' = TRUE /\ last_timestamp # 0
        /\ Happened(t, next_frame)
        /\ UNCHANGED <<last_timestamp, next_frame, freed, first>>
    BY DEF SyncEncodeFails
  <1>2. Elapsed(t) \in Nat
    BY <1>0, <1>1, Rounding
  <1>3. PICK n \in 0..(Elapsed(t) - 1) : FlushFrames(n)
    BY DEF SyncEncodeFails
  <1>4. n \in Nat /\ next_pts' = next_pts + n
    BY <1>2, <1>3 DEF FlushFrames
  <1>5. frames' \in Seq(Nat) /\ Len(frames') = Len(frames) + n
    BY <1>0, <1>3, <1>4, Flushed
  <1>6. syncs' \in Seq([time : Nat, image : Nat])
    BY <1>0, <1>1, Remembered
  <1>7. TypeOK'
    BY <1>0, <1>1, <1>4, <1>5, <1>6 DEF TypeOK
  <1>8. SyncsInv'
    BY <1>0, <1>1, SyncsKept
  <1>9. StartInv'
    BY <1>0, <1>1, <1>4, <1>5 DEF VInv, StartInv
  <1>10. GridInv' /\ FramesInTime'
    BY <1>1 DEF GridInv, FramesInTime
  <1>11. NeverShort'
    BY <1>0, <1>1, <1>4, FrameTimeIs DEF VInv, NeverShort
  <1> QED BY <1>7, <1>8, <1>9, <1>10, <1>11 DEF VInv

\* guacenc_video_free: the frame it adds shows the last sync.
LEMMA FreeKeeps ==
    ASSUME VInv, Free
    PROVE  VInv'
  <1>0. /\ TypeOK /\ last_timestamp \in Nat /\ last_sync \in Nat
        /\ next_pts \in Nat /\ first \in Nat /\ next_frame \in Nat
        /\ Len(frames) = next_pts /\ Len(syncs) \in Nat
    BY DEF VInv, TypeOK, StartInv
  <1>1. /\ ~ freed /\ freed' = TRUE
        /\ UNCHANGED <<last_sync, last_timestamp, next_frame, first, syncs>>
    BY DEF Free
  <1>2. SyncsInv'
    BY <1>1 DEF VInv, SyncsInv
  <1>3. CASE FlushFrames(1) /\ failed' = failed
    <2>1. /\ next_pts' = next_pts + 1
          /\ frames' \in Seq(Nat) /\ Len(frames') = Len(frames) + 1
          /\ \A k \in 1..Len(frames) : frames'[k] = frames[k]
          /\ \A k \in 1..Len(frames') : k > Len(frames) => frames'[k] = next_frame
      BY <1>0, <1>3, Flushed DEF FlushFrames
    <2>2. TypeOK'
      BY <1>0, <1>1, <1>3, <2>1 DEF TypeOK
    <2>3. StartInv'
      BY <1>0, <1>1, <2>1 DEF VInv, StartInv
    <2>4. ~ failed /\ last_timestamp # 0 =>
              /\ last_timestamp = first + 40 * next_pts
              /\ last_sync < last_timestamp + 40
      BY <1>1, FrameTimeIs DEF VInv, GridInv, TimedFrames
    <2>5. GridInv'
      BY <1>0, <1>1, <1>3, <2>1, <2>4, FrameTimeIs DEF GridInv, TimedFrames
    <2>6. NeverShort'
      BY <1>0, <1>1, <2>1, FrameTimeIs DEF VInv, NeverShort
    <2>7. FramesInTime'
      <3> SUFFICES ASSUME ~ failed, first # 0, NEW k \in 1..Len(frames'),
                          NEW j \in 1..Len(syncs), LastBefore(j, k)
                   PROVE  frames'[k] = syncs[j].image
        BY <1>1, <1>3 DEF FramesInTime, LastBefore
      <3>1. CASE k \in 1..Len(frames)
        BY <2>1, <3>1 DEF VInv, FramesInTime
      <3>2. CASE k \notin 1..Len(frames)
        <4>1. k = next_pts + 1 /\ frames'[k] = next_frame
          BY <1>0, <2>1, <3>2
        <4>2. last_sync < first + 40 * k
          BY <1>0, <2>4, <4>1 DEF VInv, StartInv
        <4>3. ASSUME j < Len(syncs) PROVE FALSE
          <5>1. j + 1 \in 1..Len(syncs)
            BY <1>0, <4>3
          <5>2. syncs[j + 1].time \in Nat /\ syncs[j + 1].time <= last_sync
            BY <1>0, <5>1, SyncsTyped DEF VInv, SyncsInv
          <5>3. syncs[j + 1].time >= first + 40 * k
            BY <4>3, FrameTimeIs DEF LastBefore
          <5> QED BY <1>0, <4>1, <4>2, <5>2, <5>3
        <4>4. j = Len(syncs)
          BY <1>0, <4>3
        <4> QED BY <4>1, <4>4 DEF VInv, SyncsInv
      <3> QED BY <3>1, <3>2
    <2> QED BY <1>2, <2>2, <2>3, <2>5, <2>6, <2>7 DEF VInv
  <1>4. CASE failed' = TRUE /\ frames' = frames /\ next_pts' = next_pts
    <2>1. TypeOK'
      BY <1>0, <1>1, <1>4 DEF TypeOK
    <2>2. StartInv' /\ NeverShort'
      BY <1>0, <1>1, <1>4 DEF VInv, StartInv, NeverShort
    <2>3. GridInv' /\ FramesInTime'
      BY <1>4 DEF GridInv, FramesInTime
    <2> QED BY <1>2, <2>1, <2>2, <2>3 DEF VInv
  <1> QED BY <1>3, <1>4 DEF Free

\* A sync in the past is refused, and nothing changes.
LEMMA StutterKeeps ==
    ASSUME VInv, UNCHANGED vars
    PROVE  VInv'
  <1>1. TypeOK' /\ StartInv' /\ GridInv' /\ NeverShort'
    BY DEF VInv, vars, TypeOK, StartInv, GridInv, TimedFrames, NeverShort
  <1>2. SyncsInv' /\ FramesInTime'
    BY DEF VInv, vars, SyncsInv, FramesInTime, LastBefore
  <1> QED BY <1>1, <1>2 DEF VInv

LEMMA Inductive == Spec => []VInv
  <1>1. Init => VInv
    <2> SUFFICES ASSUME Init PROVE VInv
      OBVIOUS
    <2>1. TypeOK
      BY EmptySeq DEF Init, TypeOK
    <2>2. StartInv /\ GridInv /\ NeverShort
      BY EmptySeq DEF Init, StartInv, GridInv, NeverShort
    <2>3. SyncsInv /\ FramesInTime
      BY EmptySeq DEF Init, SyncsInv, FramesInTime
    <2> QED BY <2>1, <2>2, <2>3 DEF VInv
  <1>2. VInv /\ [Next]_vars => VInv'
    BY SyncKeeps, SyncEncodeFailsKeeps, FreeKeeps, StutterKeeps DEF Next, SyncDecreasing
  <1> QED BY <1>1, <1>2, PTL DEF Spec

\* Rounding every interval between two syncs down to whole frames never drifts:
\* while the encoder does not fail, the frames are those that fit in the time
\* since the first sync, less than one frame short of the last.
THEOREM NoDrift == Spec => []TimelineExact
  <1>1. VInv => TimelineExact
    BY FrameTimeIs DEF VInv, TypeOK, StartInv, GridInv, TimedFrames, TimelineExact
  <1> QED BY <1>1, Inductive, PTL

\* Every frame shows the display as of the last sync before the frame's end.
THEOREM FramesShowTheirTime == Spec => []FramesInTime
  <1>1. VInv => FramesInTime
    BY DEF VInv
  <1> QED BY <1>1, Inductive, PTL

\* No failure of the encoder makes the video shorter than the time it continues
\* from.
THEOREM FailuresKeepTime == Spec => []NeverShort
  <1>1. VInv => NeverShort
    BY DEF VInv
  <1> QED BY <1>1, Inductive, PTL

=============================================================================
