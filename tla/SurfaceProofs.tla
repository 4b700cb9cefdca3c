---------------------------- MODULE SurfaceProofs ----------------------------
(***************************************************************************)
(* The queue of rectangles of a surface is never written past its end, for *)
(* every queue size, every set of surfaces and all calls: PlaceReserved is *)
(* an invariant.  A flush fills the place that was reserved and then adds  *)
(* rectangles only while there is room.                                    *)
(***************************************************************************)
EXTENDS Surface, SequenceTheorems, NaturalsInduction, WellFoundedInduction, TLAPS

-----------------------------------------------------------------------------
(* Queues.                                                                 *)

LEMMA SeqIsQueue ==
    ASSUME NEW S, NEW q \in Seq(S)
    PROVE  IsQueue(q)
  BY DEF IsQueue

\* A queue stays one when a rectangle is replaced, added, or all are sorted.
LEMMA QueueReplace ==
    ASSUME NEW q, IsQueue(q), NEW j \in 1..Len(q), NEW e
    PROVE  IsQueue([q EXCEPT ![j] = e]) /\ Len([q EXCEPT ![j] = e]) = Len(q)
  <1> DEFINE S == {q[i] : i \in 1..Len(q)} \union {e}
             p == [q EXCEPT ![j] = e]
  <1>1. q \in Seq(S)
    BY DEF IsQueue
  <1>2. p \in Seq(S) /\ Len(p) = Len(q)
    BY <1>1
  <1> HIDE DEF S, p
  <1>3. IsQueue(p)
    BY <1>2, SeqIsQueue
  <1> QED BY <1>2, <1>3 DEF p

LEMMA QueueAppend ==
    ASSUME NEW q, IsQueue(q), NEW e
    PROVE  IsQueue(Append(q, e)) /\ Len(Append(q, e)) = Len(q) + 1
  <1> DEFINE S == {q[i] : i \in 1..Len(q)} \union {e}
  <1>1. q \in Seq(S)
    BY DEF IsQueue
  <1>2. Append(q, e) \in Seq(S) /\ Len(Append(q, e)) = Len(q) + 1
    BY <1>1
  <1> HIDE DEF S
  <1> QED BY <1>2, SeqIsQueue

LEMMA QueueSorted ==
    ASSUME NEW q, IsQueue(q)
    PROVE  IsQueue(Sorted(q)) /\ Len(Sorted(q)) = Len(q)
  <1>1. PICK g : g = [n \in 1..Len(q) |-> g[n]] /\ g = Sorted(q)
    <2>1. Sorted(q) = [n \in 1..Len(q) |-> Sorted(q)[n]]
      BY DEF Sorted
    <2> QED BY <2>1
  <1>2. g \in Seq({g[i] : i \in 1..Len(q)}) /\ Len(g) = Len(q)
    BY <1>1 DEF IsQueue
  <1> QED BY <1>1, <1>2 DEF IsQueue

LEMMA QueueEmpty == IsQueue(<<>>) /\ Len(<<>>) = 0
  BY DEF IsQueue

-----------------------------------------------------------------------------
(* The steps of a flush.                                                   *)

LEMMA WithinMore ==
    ASSUME NEW f, NEW m \in Nat, NEW n \in Nat, m <= n, Within(f, m)
    PROVE  Within(f, n)
  BY DEF Within, IsQueue

LEMMA MarkDirtyWithin ==
    ASSUME NEW f, NEW r, NEW n, Within(f, n)
    PROVE  Within(MarkDirty(f, r), n) /\ MarkDirty(f, r).queue = f.queue
  BY DEF Within, IsSurface, MarkDirty

LEMMA FlushToQueueWithin ==
    ASSUME NEW f, NEW n \in Nat, n < QueueSize, Within(f, n)
    PROVE  Within(FlushToQueue(f), n + 1)
  <1>1. CASE ~Dirty(f)
    BY <1>1, WithinMore DEF FlushToQueue
  <1>2. CASE Dirty(f)
    <2> DEFINE e == [rect |-> f.dirty, flushed |-> FALSE]
    <2>1. IsQueue(Append(f.queue, e)) /\ Len(Append(f.queue, e)) = Len(f.queue) + 1
      BY QueueAppend DEF Within
    <2>2. ~(Len(f.queue) >= QueueSize) /\ Len(f.queue) + 1 <= n + 1
      BY SurfaceAssumption DEF Within, IsQueue
    <2>3. FlushToQueue(f) = [f EXCEPT !.queue = Append(@, e), !.dirty = NoRect,
                                      !.overrun = @ \/ Len(f.queue) >= QueueSize]
      BY <1>2 DEF FlushToQueue
    <2> HIDE DEF e
    <2> QED BY <2>1, <2>2, <2>3 DEF Within, IsSurface
  <1> QED BY <1>1, <1>2

LEMMA FlushBitmapWithin ==
    ASSUME NEW s, NEW f, NEW e, NEW n, Within(f, n)
    PROVE  Within(FlushBitmap(s, f, e), n)
  <1>1. PICK m : FlushBitmap(s, f, e) = [f EXCEPT !.sent = Append(@, m), !.realized = TRUE, !.dirty = NoRect]
    BY DEF FlushBitmap
  <1> QED BY <1>1 DEF Within, IsSurface

LEMMA CombineWithin ==
    ASSUME NEW g, NEW n, Within(g, n), NEW j \in 1..Len(g.queue)
    PROVE  Within(Combine(g, j), n) /\ Len(Combine(g, j).queue) = Len(g.queue)
  <1> DEFINE r == Constrain(g.queue[j].rect, Bounds(g))
             done == [g EXCEPT !.queue[j] = [rect |-> r, flushed |-> TRUE]]
             kept == [g EXCEPT !.queue[j].rect = r]
  <1>1. Within(done, n) /\ Len(done.queue) = Len(g.queue)
    <2> DEFINE p == [g.queue EXCEPT ![j] = [rect |-> r, flushed |-> TRUE]]
    <2>1. IsQueue(p) /\ Len(p) = Len(g.queue)
      BY QueueReplace DEF Within
    <2>2. done = [g EXCEPT !.queue = p]
      OBVIOUS
    <2> HIDE DEF p, done
    <2> QED BY <2>1, <2>2 DEF Within, IsSurface
  <1>2. Within(kept, n) /\ Len(kept.queue) = Len(g.queue)
    <2> DEFINE p == [g.queue EXCEPT ![j] = [g.queue[j] EXCEPT !.rect = r]]
    <2>1. IsQueue(p) /\ Len(p) = Len(g.queue)
      BY QueueReplace DEF Within
    <2>2. kept = [g EXCEPT !.queue = p]
      OBVIOUS
    <2> HIDE DEF p, kept
    <2> QED BY <2>1, <2>2 DEF Within, IsSurface
  <1>3. Within([MarkDirty(done, r) EXCEPT !.combined = @ + 1], n)
          /\ Len([MarkDirty(done, r) EXCEPT !.combined = @ + 1].queue) = Len(g.queue)
    <2> HIDE DEF done
    <2>1. Within(MarkDirty(done, r), n) /\ MarkDirty(done, r).queue = done.queue
      BY <1>1, MarkDirtyWithin
    <2> QED BY <1>1, <2>1 DEF Within, IsSurface
  <1>4. \/ Combine(g, j) = g
        \/ Combine(g, j) = done
        \/ Combine(g, j) = [MarkDirty(done, r) EXCEPT !.combined = @ + 1]
        \/ Combine(g, j) = kept
    BY DEF Combine
  <1> QED BY <1>1, <1>2, <1>3, <1>4

-----------------------------------------------------------------------------
(* The two loops of a flush.                                               *)

\* A set of natural numbers that is not empty has a least element.
LEMMA LeastOf ==
    ASSUME NEW S, S \subseteq Nat, S # {}
    PROVE  \E x \in S : \A y \in S : x <= y
  <1>1. \E x \in S : \A y \in S : ~ (<<y, x>> \in OpToRel(<, Nat))
    BY NatLessThanWellFounded, WFMin
  <1>2. \E x \in S : \A y \in S : ~ (y < x)
    BY <1>1 DEF OpToRel
  <1> QED BY <1>2

\* The inner loop runs: the recursive function that Gathering describes exists.
LEMMA GatheringRuns ==
    ASSUME NEW f, NEW i \in Nat, Len(f.queue) - i + 1 \in Nat
    PROVE  Gathering(f, i) = [n \in 0..(Len(f.queue) - i + 1) |->
                         IF n = 0 THEN [f EXCEPT !.combined = 0]
                         ELSE Combine(Gathering(f, i)[n - 1], i + n - 1)]
  <1> DEFINE Run(r, k) == r = [n \in 0..k |->
                         IF n = 0 THEN [f EXCEPT !.combined = 0] ELSE Combine(r[n - 1], i + n - 1)]
             Bad == {k \in Nat : ~\E r : Run(r, k)}
  <1>1. SUFFICES ASSUME Bad # {} PROVE FALSE
    <2>1. SUFFICES ASSUME Bad = {}
                   PROVE  Gathering(f, i) = [n \in 0..(Len(f.queue) - i + 1) |->
                             IF n = 0 THEN [f EXCEPT !.combined = 0]
                             ELSE Combine(Gathering(f, i)[n - 1], i + n - 1)]
      OBVIOUS
    <2>2. PICK g : Run(g, Len(f.queue) - i + 1)
      <3> HIDE DEF Run
      <3> QED BY <2>1
    <2> QED BY <2>2 DEF Gathering
  <1>2. PICK k \in Bad : \A y \in Bad : k <= y
    BY <1>1, LeastOf
  <1>3. k # 0
    <2>1. Run([n \in 0..0 |-> [f EXCEPT !.combined = 0]], 0)
      OBVIOUS
    <2> QED BY <2>1
  <1>4. PICK r : Run(r, k - 1)
    <2>1. k \in Nat
      OBVIOUS
    <2>2. k - 1 \in Nat /\ k - 1 \notin Bad
      <3> HIDE DEF Bad
      <3> QED BY <1>2, <1>3, <2>1
    <2> HIDE DEF Run
    <2> QED BY <2>2
  <1> DEFINE t == [n \in 0..k |-> IF n = k THEN Combine(r[k - 1], i + k - 1) ELSE r[n]]
  <1>5. ASSUME NEW n \in 0..k
        PROVE  t[n] = IF n = 0 THEN [f EXCEPT !.combined = 0] ELSE Combine(t[n - 1], i + n - 1)
    <2>1. CASE n = k
      BY <1>3, <2>1
    <2>2. CASE n # k
      <3>1. n \in 0..(k - 1) /\ t[n] = r[n] /\ (n # 0 => t[n - 1] = r[n - 1])
        BY <2>2
      <3>2. r[n] = IF n = 0 THEN [f EXCEPT !.combined = 0] ELSE Combine(r[n - 1], i + n - 1)
        BY <1>4, <3>1
      <3> QED BY <3>1, <3>2
    <2> QED BY <2>1, <2>2
  <1>6. Run(t, k)
    BY <1>5
  <1> QED BY <1>6

LEMMA GatherWithin ==
    ASSUME NEW f, Within(f, QueueSize), NEW i \in 1..Len(f.queue)
    PROVE  Within(Gather(f, i), QueueSize) /\ Len(Gather(f, i).queue) = Len(f.queue)
  <1> DEFINE N == Len(f.queue) - i + 1
             r == Gathering(f, i)
             Right(g) == Within(g, QueueSize) /\ Len(g.queue) = Len(f.queue)
  <1>1. N \in Nat /\ i \in Nat
    BY DEF Within, IsQueue
  <1>2. r = [n \in 0..N |->
               IF n = 0 THEN [f EXCEPT !.combined = 0] ELSE Combine(r[n - 1], i + n - 1)]
    BY <1>1, GatheringRuns
  <1> HIDE DEF r, N
  <1>3. SUFFICES \A n \in 0..N : Right(r[n])
    BY <1>1 DEF Gather, N, r
  <1> DEFINE Bad == {n \in 0..N : ~Right(r[n])}
  <1>4. SUFFICES ASSUME Bad # {} PROVE FALSE
    OBVIOUS
  <1>5. PICK n \in Bad : \A y \in Bad : n <= y
    <2>1. Bad \subseteq Nat
      BY <1>1
    <2> HIDE DEF Bad
    <2> QED BY <1>4, <2>1, LeastOf
  <1>6. n # 0
    BY <1>1, <1>2 DEF Within, IsSurface
  <1>7. Right(r[n - 1]) /\ n \in Nat /\ n <= N
    BY <1>1, <1>5, <1>6
  <1>8. i + n - 1 \in 1..Len(r[n - 1].queue)
    BY <1>1, <1>6, <1>7 DEF N, Within, IsQueue
  <1>9. r[n] = Combine(r[n - 1], i + n - 1)
    BY <1>2, <1>6
  <1> QED BY <1>7, <1>8, <1>9, CombineWithin

LEMMA FlushRoundWithin ==
    ASSUME NEW s, NEW f, NEW i \in Nat \ {0}, NEW original, NEW e, Within(f, QueueSize)
    PROVE  Within(FlushRound(s, f, i, original, e), QueueSize)
  <1>1. CASE i > Len(f.queue) \/ f.queue[i].flushed
    BY <1>1 DEF FlushRound
  <1>2. CASE ~(i > Len(f.queue) \/ f.queue[i].flushed)
    <2> DEFINE g == Gather(f, i)
    <2>1. i \in 1..Len(f.queue)
      BY <1>2 DEF Within, IsQueue
    <2>2. Within(g, QueueSize)
      BY <2>1, GatherWithin
    <2> HIDE DEF g
    <2>3. CASE Len(g.queue) < QueueSize
      <3>1. Within(g, QueueSize - 1) /\ QueueSize - 1 \in Nat
        BY <2>2, <2>3, SurfaceAssumption DEF Within, IsQueue
      <3>2. Within(FlushToQueue(g), (QueueSize - 1) + 1)
        BY <3>1, FlushToQueueWithin, SurfaceAssumption
      <3>3. Within(FlushToQueue(g), QueueSize)
        BY <3>2, SurfaceAssumption
      <3> QED BY <1>2, <2>2, <3>3, FlushBitmapWithin DEF FlushRound, g
    <2>4. CASE ~(Len(g.queue) < QueueSize)
      BY <1>2, <2>2, <2>4, FlushBitmapWithin DEF FlushRound, g
    <2> QED BY <2>3, <2>4
  <1> QED BY <1>1, <1>2

\* The outer loop runs, as the inner one does.
LEMMA FlushingRuns ==
    ASSUME NEW s, NEW f, NEW e
    PROVE  FlushRounds(s, f, e) =
             [n \in 0..(QueueSize + 1) |->
                IF n = 0 THEN [FlushToQueue(f) EXCEPT !.queue = Sorted(@)]
                ELSE FlushRound(s, FlushRounds(s, f, e)[n - 1], n, Len(FlushToQueue(f).queue), e)]
  <1> DEFINE a == [FlushToQueue(f) EXCEPT !.queue = Sorted(@)]
             original == Len(FlushToQueue(f).queue)
  <1> DEFINE Run(r, k) == r = [n \in 0..k |->
                         IF n = 0 THEN a ELSE FlushRound(s, r[n - 1], n, original, e)]
             Bad == {k \in Nat : ~\E r : Run(r, k)}
  <1>1. SUFFICES ASSUME Bad # {} PROVE FALSE
    <2>1. SUFFICES ASSUME Bad = {}
                   PROVE  FlushRounds(s, f, e) = [n \in 0..(QueueSize + 1) |-> IF n = 0 THEN a
                             ELSE FlushRound(s, FlushRounds(s, f, e)[n - 1], n, original, e)]
      OBVIOUS
    <2>2. PICK g : Run(g, QueueSize + 1)
      <3> HIDE DEF Run
      <3> QED BY <2>1, SurfaceAssumption
    <2> QED BY <2>2 DEF FlushRounds
  <1> HIDE DEF a, original
  <1>2. PICK k \in Bad : \A y \in Bad : k <= y
    <2>1. Bad \subseteq Nat
      OBVIOUS
    <2> HIDE DEF Bad
    <2> QED BY <1>1, <2>1, LeastOf
  <1>3. k # 0
    <2>1. Run([n \in 0..0 |-> a], 0)
      OBVIOUS
    <2> QED BY <2>1
  <1>4. PICK r : Run(r, k - 1)
    <2>1. k \in Nat
      OBVIOUS
    <2>2. k - 1 \in Nat /\ k - 1 \notin Bad
      <3> HIDE DEF Bad
      <3> QED BY <1>2, <1>3, <2>1
    <2> HIDE DEF Run
    <2> QED BY <2>2
  <1> DEFINE t == [n \in 0..k |-> IF n = k THEN FlushRound(s, r[k - 1], k, original, e) ELSE r[n]]
  <1>5. ASSUME NEW n \in 0..k
        PROVE  t[n] = IF n = 0 THEN a ELSE FlushRound(s, t[n - 1], n, original, e)
    <2>1. CASE n = k
      BY <1>3, <2>1
    <2>2. CASE n # k
      <3>1. n \in 0..(k - 1) /\ t[n] = r[n] /\ (n # 0 => t[n - 1] = r[n - 1])
        BY <2>2
      <3>2. r[n] = IF n = 0 THEN a ELSE FlushRound(s, r[n - 1], n, original, e)
        BY <1>4, <3>1
      <3> QED BY <3>1, <3>2
    <2> QED BY <2>1, <2>2
  <1>6. Run(t, k)
    BY <1>5
  <1> QED BY <1>6

\* A flush that finds a free place stays within the queue, and leaves it empty.
LEMMA FlushSurfaceWithin ==
    ASSUME NEW s, NEW f, NEW e, Within(f, QueueSize - 1)
    PROVE  Within(FlushSurface(s, f, e), 0)
  <1> DEFINE q == FlushToQueue(f)
             a == [q EXCEPT !.queue = Sorted(@)]
             N == QueueSize + 1
             r == FlushRounds(s, f, e)
  <1>1. N \in Nat /\ QueueSize - 1 \in Nat /\ QueueSize \in Nat
    BY SurfaceAssumption
  <1>2. Within(q, QueueSize)
    <2>1. Within(q, (QueueSize - 1) + 1)
      BY <1>1, FlushToQueueWithin
    <2> QED BY <1>1, <2>1
  <1>3. Within(a, QueueSize)
    <2> HIDE DEF q
    <2>1. IsQueue(Sorted(q.queue)) /\ Len(Sorted(q.queue)) = Len(q.queue)
      BY <1>2, QueueSorted DEF Within
    <2> QED BY <1>2, <2>1 DEF Within, IsSurface
  <1>4. r = [n \in 0..N |-> IF n = 0 THEN a ELSE FlushRound(s, r[n - 1], n, Len(q.queue), e)]
    BY <1>1, FlushingRuns
  <1> HIDE DEF q, a, r, N
  <1>5. \A n \in 0..N : Within(r[n], QueueSize)
    <2> DEFINE Bad == {n \in 0..N : ~Within(r[n], QueueSize)}
    <2>1. SUFFICES ASSUME Bad # {} PROVE FALSE
      OBVIOUS
    <2>2. PICK n \in Bad : \A y \in Bad : n <= y
      <3>1. Bad \subseteq Nat
        BY <1>1
      <3> HIDE DEF Bad
      <3> QED BY <2>1, <3>1, LeastOf
    <2>3. n # 0
      BY <1>1, <1>3, <1>4
    <2>4. Within(r[n - 1], QueueSize) /\ n \in Nat \ {0}
      BY <1>1, <2>2, <2>3
    <2>5. r[n] = FlushRound(s, r[n - 1], n, Len(q.queue), e)
      BY <1>4, <2>3
    <2> QED BY <2>4, <2>5, FlushRoundWithin
  <1>6. Within(r[N], QueueSize)
    BY <1>1, <1>5
  <1>7. FlushSurface(s, f, e) = [r[N] EXCEPT !.queue = <<>>, !.combined = 0]
    BY DEF FlushSurface, r, N
  <1> DEFINE g == r[N]
  <1> HIDE DEF g
  <1>8. Within(g, QueueSize) /\ FlushSurface(s, f, e) = [g EXCEPT !.queue = <<>>, !.combined = 0]
    BY <1>6, <1>7 DEF g
  <1> DEFINE h == [g EXCEPT !.queue = <<>>, !.combined = 0]
  <1>9. IsSurface(h) /\ h.queue = <<>> /\ h.overrun = g.overrun
    BY <1>8 DEF Within, IsSurface
  <1> HIDE DEF h
  <1>10. Within(h, 0)
    BY <1>8, <1>9, QueueEmpty DEF Within
  <1> QED BY <1>8, <1>10 DEF h

\* A deferred flush keeps the place for the final dirty rectangle.
LEMMA FlushDeferredWithin ==
    ASSUME NEW s, NEW f, NEW e, Within(f, QueueSize - 1)
    PROVE  Within(FlushDeferred(s, f, e), QueueSize - 1)
  <1>1. QueueSize - 1 \in Nat /\ 1 <= QueueSize - 1 /\ QueueSize \in Nat
    BY SurfaceAssumption
  <1>2. CASE Dirty(f) /\ Len(f.queue) = QueueSize - 1
    <2>1. Within(FlushToQueue(FlushSurface(s, f, e)), 0 + 1)
      BY <1>1, FlushSurfaceWithin, FlushToQueueWithin
    <2>2. Within(FlushToQueue(FlushSurface(s, f, e)), QueueSize - 1)
      BY <1>1, <2>1, WithinMore
    <2> QED BY <1>2, <2>2 DEF FlushDeferred
  <1>3. CASE ~Dirty(f)
    BY <1>3 DEF FlushDeferred, FlushToQueue
  <1>4. CASE Dirty(f) /\ Len(f.queue) # QueueSize - 1
    <2>1. Within(f, QueueSize - 2) /\ QueueSize - 2 \in Nat
      BY <1>1, <1>4 DEF Within, IsQueue
    <2>2. Within(FlushToQueue(f), (QueueSize - 2) + 1)
      BY <1>1, <2>1, FlushToQueueWithin
    <2>3. Within(FlushToQueue(f), QueueSize - 1)
      BY <1>1, <2>2
    <2> QED BY <1>4, <2>3 DEF FlushDeferred
  <1> QED BY <1>2, <1>3, <1>4

LEMMA DeferDrawWithin ==
    ASSUME NEW s, NEW f, NEW r, NEW e, Within(f, QueueSize - 1)
    PROVE  Within(DeferDraw(s, f, r, e), QueueSize - 1)
  BY FlushDeferredWithin, MarkDirtyWithin DEF DeferDraw

LEMMA FlushPropertiesWithin ==
    ASSUME NEW s, NEW f, NEW n, Within(f, n)
    PROVE  Within(FlushProperties(s, f), n)
  BY DEF FlushProperties, Within, IsSurface

-----------------------------------------------------------------------------
(* The calls.                                                              *)

LEMMA SendsReserves ==
    ASSUME NEW order, NEW fs, NEW msgs, NEW blurred, Sends(order, fs, msgs, blurred),
           \A s \in Surfaces : Within(fs[s], QueueSize - 1)
    PROVE  PlaceReserved'
  <1>1. surface' = [s \in Surfaces |-> [fs[s] EXCEPT !.sent = <<>>]]
    BY DEF Sends
  <1>2. ASSUME NEW s \in Surfaces PROVE Within(surface'[s], QueueSize - 1)
    <2>1. surface'[s] = [fs[s] EXCEPT !.sent = <<>>]
      BY <1>1
    <2> DEFINE f == fs[s]
    <2>2. Within(f, QueueSize - 1)
      OBVIOUS
    <2> HIDE DEF f
    <2>3. Within([f EXCEPT !.sent = <<>>], QueueSize - 1)
      BY <2>2 DEF Within, IsSurface
    <2> QED BY <2>1, <2>3 DEF f
  <1>3. surface' = [s \in Surfaces |-> surface'[s]]
    BY <1>1
  <1> QED BY <1>2, <1>3 DEF PlaceReserved, Within

LEMMA UpdateReserves ==
    ASSUME PlaceReserved, NEW s \in Surfaces, NEW f, Within(f, QueueSize - 1), Update(s, f)
    PROVE  PlaceReserved'
  <1> DEFINE fs == [surface EXCEPT ![s] = f]
  <1>1. \A t \in Surfaces : Within(fs[t], QueueSize - 1)
    BY DEF PlaceReserved
  <1>2. Sends(<<s>>, fs, <<>>, FALSE)
    BY DEF Update
  <1> HIDE DEF fs
  <1> QED BY <1>1, <1>2, SendsReserves

\* What the calls change in a surface besides its queue: one field, or two.
LEMMA FieldWithin ==
    ASSUME NEW f, NEW n, Within(f, n), NEW v
    PROVE  /\ Within([f EXCEPT !.width = v], n)
           /\ Within([f EXCEPT !.buffer = v], n)
           /\ Within([f EXCEPT !.dirty = v], n)
           /\ Within([f EXCEPT !.sent = v], n)
           /\ Within([f EXCEPT !.realized = v], n)
           /\ Within([f EXCEPT !.clipped = v], n)
           /\ Within([f EXCEPT !.clip = v], n)
           /\ Within([f EXCEPT !.place = v], n)
           /\ Within([f EXCEPT !.location_dirty = v], n)
           /\ Within([f EXCEPT !.opacity = v], n)
           /\ Within([f EXCEPT !.opacity_dirty = v], n)
  <1>1. Within([f EXCEPT !.width = v], n)
    BY DEF Within, IsSurface
  <1>2. Within([f EXCEPT !.buffer = v], n)
    BY DEF Within, IsSurface
  <1>3. Within([f EXCEPT !.dirty = v], n)
    BY DEF Within, IsSurface
  <1>4. Within([f EXCEPT !.sent = v], n)
    BY DEF Within, IsSurface
  <1>5. Within([f EXCEPT !.realized = v], n)
    BY DEF Within, IsSurface
  <1>6. Within([f EXCEPT !.clipped = v], n)
    BY DEF Within, IsSurface
  <1>7. Within([f EXCEPT !.clip = v], n)
    BY DEF Within, IsSurface
  <1>8. Within([f EXCEPT !.place = v], n)
    BY DEF Within, IsSurface
  <1>9. Within([f EXCEPT !.location_dirty = v], n)
    BY DEF Within, IsSurface
  <1>10. Within([f EXCEPT !.opacity = v], n)
    BY DEF Within, IsSurface
  <1>11. Within([f EXCEPT !.opacity_dirty = v], n)
    BY DEF Within, IsSurface
  <1> QED BY <1>1, <1>2, <1>3, <1>4, <1>5, <1>6, <1>7, <1>8, <1>9, <1>10, <1>11

LEMMA EditWithin ==
    ASSUME NEW f, NEW n, Within(f, n), NEW v, NEW w
    PROVE  /\ Within([f EXCEPT !.sent = v, !.realized = w], n)
           /\ Within([f EXCEPT !.clipped = v, !.clip = w], n)
           /\ Within([f EXCEPT !.place = v, !.location_dirty = w], n)
           /\ Within([f EXCEPT !.opacity = v, !.opacity_dirty = w], n)
  <1>1. Within([f EXCEPT !.sent = v, !.realized = w], n)
    <2>1. Within([[f EXCEPT !.sent = v] EXCEPT !.realized = w], n)
      BY FieldWithin
    <2>2. [f EXCEPT !.sent = v, !.realized = w] = [[f EXCEPT !.sent = v] EXCEPT !.realized = w]
      OBVIOUS
    <2> QED BY <2>1, <2>2
  <1>2. Within([f EXCEPT !.clipped = v, !.clip = w], n)
    <2>1. Within([[f EXCEPT !.clipped = v] EXCEPT !.clip = w], n)
      BY FieldWithin
    <2>2. [f EXCEPT !.clipped = v, !.clip = w] = [[f EXCEPT !.clipped = v] EXCEPT !.clip = w]
      OBVIOUS
    <2> QED BY <2>1, <2>2
  <1>3. Within([f EXCEPT !.place = v, !.location_dirty = w], n)
    <2>1. Within([[f EXCEPT !.place = v] EXCEPT !.location_dirty = w], n)
      BY FieldWithin
    <2>2. [f EXCEPT !.place = v, !.location_dirty = w] = [[f EXCEPT !.place = v] EXCEPT !.location_dirty = w]
      OBVIOUS
    <2> QED BY <2>1, <2>2
  <1>4. Within([f EXCEPT !.opacity = v, !.opacity_dirty = w], n)
    <2>1. Within([[f EXCEPT !.opacity = v] EXCEPT !.opacity_dirty = w], n)
      BY FieldWithin
    <2>2. [f EXCEPT !.opacity = v, !.opacity_dirty = w] = [[f EXCEPT !.opacity = v] EXCEPT !.opacity_dirty = w]
      OBVIOUS
    <2> QED BY <2>1, <2>2
  <1> QED BY <1>1, <1>2, <1>3, <1>4

LEMMA NoChangeReserves ==
    ASSUME PlaceReserved, surface' = surface
    PROVE  PlaceReserved'
  BY DEF PlaceReserved, Within

\* The surface a call is for.
LEMMA CalledWithin ==
    ASSUME PlaceReserved, NEW c \in Calls
    PROVE  c.to \in Surfaces /\ Within(surface[c.to], QueueSize - 1)
  BY SurfaceAssumption DEF PlaceReserved

LEMMA DrawReserves ==
    ASSUME PlaceReserved, NEW c \in Calls, Draw(c)
    PROVE  PlaceReserved'
  <1> DEFINE f == surface[c.to]
  <1>1. \/ surface' = surface
        \/ \E px, rect, e : Update(c.to, DeferDraw(c.to, [f EXCEPT !.buffer = px], rect, e))
    BY DEF Draw, NoChange
  <1>2. ASSUME NEW px, NEW rect, NEW e,
               Update(c.to, DeferDraw(c.to, [f EXCEPT !.buffer = px], rect, e))
        PROVE  PlaceReserved'
    BY <1>2, CalledWithin, FieldWithin, EditWithin, DeferDrawWithin, UpdateReserves
  <1> QED BY <1>1, <1>2, NoChangeReserves

LEMMA PaintReserves ==
    ASSUME PlaceReserved, NEW c \in Calls, Paint(c)
    PROVE  PlaceReserved'
  <1> DEFINE f == surface[c.to]
  <1>1. \/ surface' = surface
        \/ \E px, rect, e : Update(c.to, DeferDraw(c.to, [f EXCEPT !.buffer = px], rect, e))
    BY DEF Paint, NoChange
  <1>2. ASSUME NEW px, NEW rect, NEW e,
               Update(c.to, DeferDraw(c.to, [f EXCEPT !.buffer = px], rect, e))
        PROVE  PlaceReserved'
    BY <1>2, CalledWithin, FieldWithin, EditWithin, DeferDrawWithin, UpdateReserves
  <1> QED BY <1>1, <1>2, NoChangeReserves

\* A fill that is sent at once flushes the surface first.
LEMMA SetReserves ==
    ASSUME PlaceReserved, NEW c \in Calls, Set(c)
    PROVE  PlaceReserved'
  <1> DEFINE f == surface[c.to]
             G(px) == [f EXCEPT !.buffer = px]
             Sent(h, m) == [h EXCEPT !.sent = Append(@, m), !.realized = TRUE]
  <1>1. \/ surface' = surface
        \/ \E px, rect, e : Update(c.to, DeferDraw(c.to, G(px), rect, e))
        \/ \E px, rect : Update(c.to, MarkDirty(G(px), rect))
        \/ \E px, m, e : Update(c.to, Sent(FlushSurface(c.to, G(px), e), m))
    BY DEF Set, NoChange
  <1>2. ASSUME NEW px PROVE Within(G(px), QueueSize - 1)
    BY CalledWithin, FieldWithin
  <1> HIDE DEF G, f
  <1>3. ASSUME NEW px, NEW rect, NEW e, Update(c.to, DeferDraw(c.to, G(px), rect, e))
        PROVE  PlaceReserved'
    BY <1>2, <1>3, CalledWithin, DeferDrawWithin, UpdateReserves
  <1>4. ASSUME NEW px, NEW rect, Update(c.to, MarkDirty(G(px), rect))
        PROVE  PlaceReserved'
    BY <1>2, <1>4, CalledWithin, MarkDirtyWithin, UpdateReserves
  <1>5. ASSUME NEW px, NEW m, NEW e, Update(c.to, Sent(FlushSurface(c.to, G(px), e), m))
        PROVE  PlaceReserved'
    <2> DEFINE h == FlushSurface(c.to, G(px), e)
    <2>1. Within(h, QueueSize - 1)
      <3>1. Within(h, 0)
        BY <1>2, FlushSurfaceWithin
      <3> HIDE DEF h
      <3> QED BY <3>1, WithinMore, SurfaceAssumption
    <2> HIDE DEF h
    <2>2. Within(Sent(h, m), QueueSize - 1)
      BY <2>1, EditWithin
    <2> HIDE DEF Sent
    <2> QED BY <1>5, <2>2, CalledWithin, UpdateReserves DEF h
  <1> HIDE DEF Sent
  <1> QED BY <1>1, <1>3, <1>4, <1>5, NoChangeReserves

\* A copy that is sent at once flushes both surfaces first, also when they are one.
LEMMA CopyReserves ==
    ASSUME PlaceReserved, NEW c \in Calls, Copy(c)
    PROVE  PlaceReserved'
  <1> DEFINE f == surface[c.from]
             g == surface[c.to]
             G(px) == [g EXCEPT !.buffer = px]
             P(h) == [h EXCEPT !.realized = TRUE]
             B(h, px) == [h EXCEPT !.buffer = px]
             FS(f2, h) == [surface EXCEPT ![c.from] = f2, ![c.to] = h]
  <1>1. c.from \in Surfaces /\ Within(f, QueueSize - 1) /\ c.to \in Surfaces /\ Within(g, QueueSize - 1)
    BY SurfaceAssumption DEF PlaceReserved, Copy, Called
  <1>2. \/ surface' = surface
        \/ \E px, rect : \/ Update(c.to, B(MarkDirty(g, rect), px))
                         \/ Update(c.to, MarkDirty(G(px), rect))
        \/ \E order, m, e, px :
              \/ Sends(order, FS(FlushSurface(c.from, f, e), B(P(FlushSurface(c.to, g, e)), px)), m, FALSE)
              \/ Sends(order, FS(FlushSurface(c.from, f, e), P(FlushSurface(c.to, G(px), e))), m, FALSE)
    BY DEF Copy, NoChange
  <1>3. ASSUME NEW px PROVE Within(G(px), QueueSize - 1)
    BY <1>1, FieldWithin
  <1>4. ASSUME NEW t, NEW h, Within(h, QueueSize - 1), NEW e
        PROVE  Within(FlushSurface(t, h, e), QueueSize - 1)
    <2>1. Within(FlushSurface(t, h, e), 0)
      BY <1>4, FlushSurfaceWithin
    <2> QED BY <2>1, WithinMore, SurfaceAssumption
  <1>5. ASSUME NEW f2, NEW h, Within(f2, QueueSize - 1), Within(h, QueueSize - 1)
        PROVE  \A s \in Surfaces : Within(FS(f2, h)[s], QueueSize - 1)
    BY <1>1, <1>5 DEF PlaceReserved
  <1>6. ASSUME NEW h, Within(h, QueueSize - 1)
        PROVE  Within(P(h), QueueSize - 1) /\ \A px : Within(B(h, px), QueueSize - 1)
    BY <1>6, FieldWithin
  <1> HIDE DEF f, g, G, P, B, FS
  <1>7. ASSUME NEW px, NEW rect, \/ Update(c.to, B(MarkDirty(g, rect), px))
                                 \/ Update(c.to, MarkDirty(G(px), rect))
        PROVE  PlaceReserved'
    <2>1. Within(B(MarkDirty(g, rect), px), QueueSize - 1) /\ Within(MarkDirty(G(px), rect), QueueSize - 1)
      BY <1>1, <1>3, <1>6, MarkDirtyWithin
    <2> QED BY <1>1, <1>7, <2>1, UpdateReserves
  <1>8. ASSUME NEW order, NEW m, NEW e, NEW px,
               \/ Sends(order, FS(FlushSurface(c.from, f, e), B(P(FlushSurface(c.to, g, e)), px)), m, FALSE)
               \/ Sends(order, FS(FlushSurface(c.from, f, e), P(FlushSurface(c.to, G(px), e))), m, FALSE)
        PROVE  PlaceReserved'
    <2>1. /\ Within(FlushSurface(c.from, f, e), QueueSize - 1)
          /\ Within(B(P(FlushSurface(c.to, g, e)), px), QueueSize - 1)
          /\ Within(P(FlushSurface(c.to, G(px), e)), QueueSize - 1)
      BY <1>1, <1>3, <1>4, <1>6
    <2> QED BY <1>5, <1>8, <2>1, SendsReserves
  <1> QED BY <1>2, <1>7, <1>8, NoChangeReserves

LEMMA ResizedWithin ==
    ASSUME NEW f, NEW w, NEW n, Within(f, n)
    PROVE  Within(Resized(f, w), n)
  <1>1. PICK px, clip, dirty :
           Resized(f, w) = [f EXCEPT !.width = w, !.buffer = px, !.clip = clip, !.dirty = dirty]
    BY DEF Resized
  <1> DEFINE g == [f EXCEPT !.width = w]
             h == [g EXCEPT !.buffer = px]
             j == [h EXCEPT !.clip = clip]
             k == [j EXCEPT !.dirty = dirty]
  <1>2. Resized(f, w) = k
    BY <1>1
  <1>3. Within(g, n)
    BY FieldWithin
  <1> HIDE DEF g
  <1>4. Within(h, n)
    BY <1>3, FieldWithin
  <1> HIDE DEF h
  <1>5. Within(j, n)
    BY <1>4, FieldWithin
  <1> HIDE DEF j
  <1>6. Within(k, n)
    BY <1>5, FieldWithin
  <1> HIDE DEF k
  <1> QED BY <1>2, <1>6

LEMMA ResizeReserves ==
    ASSUME PlaceReserved, NEW c \in Calls, Resize(c)
    PROVE  PlaceReserved'
  <1> DEFINE fs == [surface EXCEPT ![c.to] = Resized(surface[c.to], c.w)]
  <1>1. surface' = surface \/ \E m, b : Sends(<<c.to>>, fs, m, b)
    BY DEF Resize, NoChange
  <1>2. \A s \in Surfaces : Within(fs[s], QueueSize - 1)
    BY CalledWithin, ResizedWithin DEF PlaceReserved
  <1> HIDE DEF fs
  <1> QED BY <1>1, <1>2, SendsReserves, NoChangeReserves

LEMMA EditReserves ==
    ASSUME PlaceReserved, NEW c \in Calls, Clip(c) \/ ResetClip(c) \/ Move(c) \/ Shade(c)
    PROVE  PlaceReserved'
  <1>1. CASE Clip(c)
    BY <1>1, CalledWithin, FieldWithin, EditWithin, UpdateReserves DEF Clip
  <1>2. CASE ResetClip(c)
    BY <1>2, CalledWithin, FieldWithin, EditWithin, UpdateReserves DEF ResetClip
  <1>3. CASE Move(c)
    BY <1>3, CalledWithin, FieldWithin, EditWithin, UpdateReserves DEF Move
  <1>4. CASE Shade(c)
    BY <1>4, CalledWithin, FieldWithin, EditWithin, UpdateReserves DEF Shade
  <1> QED BY <1>1, <1>2, <1>3, <1>4

LEMMA FlushReserves ==
    ASSUME PlaceReserved, Flush
    PROVE  PlaceReserved'
  <1> DEFINE FS(e) == [s \in Surfaces |-> IF s \in Flushable
                         THEN FlushSurface(s, FlushProperties(s, surface[s]), e) ELSE surface[s]]
  <1>1. PICK e : Sends(SetToSeq(Flushable), FS(e), <<>>, FALSE)
    BY DEF Flush
  <1>2. ASSUME NEW s \in Surfaces PROVE Within(FS(e)[s], QueueSize - 1)
    <2>1. Within(surface[s], QueueSize - 1)
      BY DEF PlaceReserved
    <2>2. Within(FlushSurface(s, FlushProperties(s, surface[s]), e), QueueSize - 1)
      <3>1. Within(FlushSurface(s, FlushProperties(s, surface[s]), e), 0)
        BY <2>1, FlushPropertiesWithin, FlushSurfaceWithin
      <3> QED BY <3>1, WithinMore, SurfaceAssumption
    <2> QED BY <2>1, <2>2
  <1> HIDE DEF FS
  <1> QED BY <1>1, <1>2, SendsReserves

-----------------------------------------------------------------------------
(* The theorem.                                                            *)

LEMMA InitReserves == Init => PlaceReserved
  <1> SUFFICES ASSUME Init PROVE PlaceReserved
    OBVIOUS
  <1>1. ASSUME NEW s PROVE Within(Alloc(s), QueueSize - 1)
    <2>1. IsSurface(Alloc(s)) /\ Alloc(s).queue = <<>> /\ ~Alloc(s).overrun
      BY DEF Alloc, IsSurface
    <2> QED BY <2>1, QueueEmpty, SurfaceAssumption DEF Within
  <1>2. surface = [s \in Surfaces |-> Alloc(s)]
    BY DEF Init
  <1> QED BY <1>1, <1>2 DEF PlaceReserved

LEMMA NextReserves == PlaceReserved /\ [Next]_vars => PlaceReserved'
  <1> SUFFICES ASSUME PlaceReserved, [Next]_vars PROVE PlaceReserved'
    OBVIOUS
  <1>1. ASSUME NEW c \in Calls,
               \/ Draw(c) \/ Paint(c) \/ Set(c) \/ Copy(c) \/ Resize(c) \/ Clip(c)
               \/ ResetClip(c) \/ Move(c) \/ Shade(c)
        PROVE  PlaceReserved'
    BY <1>1, DrawReserves, PaintReserves, SetReserves, CopyReserves, ResizeReserves, EditReserves
  <1>2. CASE Flush
    BY <1>2, FlushReserves
  <1>3. CASE \E u \in Users : Join(u)
    BY <1>3, NoChangeReserves DEF Join
  <1>4. CASE UNCHANGED vars
    BY <1>4, NoChangeReserves DEF vars
  <1> QED BY <1>1, <1>2, <1>3, <1>4 DEF Next

\* bitmap_queue is never written past its end, whatever GUAC_COMMON_SURFACE_QUEUE_SIZE is
\* (at least two) and whatever is drawn, copied, resized and flushed in which order.
THEOREM QueueBounded == Spec => []QueueWithin
  <1>1. PlaceReserved => QueueWithin
    BY DEF PlaceReserved, Within, QueueWithin
  <1> QED BY <1>1, InitReserves, NextReserves, PTL DEF Spec
=============================================================================
