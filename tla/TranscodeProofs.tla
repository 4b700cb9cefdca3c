--------------------------- MODULE TranscodeProofs ---------------------------
(***************************************************************************)
(* That every call of wait(NULL) has a child to take and that no temporary *)
(* file is left behind, for every number of jobs and every choice of       *)
(* names, whichever of thread creation, fork and exec fail.                *)
(***************************************************************************)
EXTENDS Transcode, FiniteSetTheorems, TLAPS

\* Only finitely many children and waiting workers exist at a time.
LEMMA SetsFinite ==
    /\ IsFiniteSet(Children) /\ Cardinality(Children) \in Nat
    /\ IsFiniteSet(Waiters) /\ Cardinality(Waiters) \in Nat
  <1>1. Children \subseteq Workers /\ Waiters \subseteq Workers
    BY DEF Children, Waiters
  <1> QED BY <1>1, TranscodeAssumption, FS_Subset, FS_CardinalityType

\* fork: one more child, and one more worker that waits.
LEMMA OneMore ==
    ASSUME ChildrenAccounted, NEW w \in Workers, w \notin Children, w \notin Waiters,
           Children' = Children \union {w}, Waiters' = Waiters \union {w}
    PROVE  ChildrenAccounted'
  <1>1. Cardinality(Children') = Cardinality(Children) + 1
    BY SetsFinite, FS_AddElement
  <1>2. Cardinality(Waiters') = Cardinality(Waiters) + 1
    BY SetsFinite, FS_AddElement
  <1> QED BY <1>1, <1>2 DEF ChildrenAccounted

\* wait(NULL): one child less, perhaps another's, and one worker that waits less.
LEMMA OneLess ==
    ASSUME ChildrenAccounted, NEW w \in Waiters, NEW v \in Children,
           Children' = Children \ {v}, Waiters' = Waiters \ {w}
    PROVE  ChildrenAccounted'
  <1>1. Cardinality(Children') = Cardinality(Children) - 1
    BY SetsFinite, FS_RemoveElement
  <1>2. Cardinality(Waiters') = Cardinality(Waiters) - 1
    BY SetsFinite, FS_RemoveElement
  <1> QED BY <1>1, <1>2 DEF ChildrenAccounted

\* A step that neither starts nor reaps a child, nor starts or ends a wait.
LEMMA NoneMore ==
    ASSUME ChildrenAccounted, Children' = Children, Waiters' = Waiters
    PROVE  ChildrenAccounted'
  BY DEF ChildrenAccounted

-----------------------------------------------------------------------------
\* The file a job creates has the name the job was given, and no other.
LEMMA CreateKeeps ==
    ASSUME TInv, NEW w \in Workers, NEW n \in Names, Create(w, n)
    PROVE  TInv'
  <1>1. TypeOK'
    BY DEF TInv, TypeOK, Create, Goto, FreesVideo
  <1>2. ForkedInv'
    BY DEF TInv, TypeOK, ForkedInv, At, Create, Goto
  <1>3. OwnNameInv'
    BY TranscodeAssumption DEF TInv, TypeOK, OwnNameInv, NothingLeftBehind, At, Create
  <1>4. NothingLeftBehind'
    BY DEF TInv, TypeOK, NothingLeftBehind, Create, Goto
  <1>5. ChildrenAccounted'
    <2>1. Children' = Children /\ Waiters' = Waiters
      BY DEF TInv, TypeOK, Children, Waiters, At, Create, Goto
    <2> QED BY <2>1, NoneMore DEF TInv
  <1> QED BY <1>1, <1>2, <1>3, <1>4, <1>5 DEF TInv

\* A frame is encoded.
LEMMA EncodeKeeps ==
    ASSUME TInv, NEW w \in Workers, Encode(w)
    PROVE  TInv'
  <1>1. TypeOK'
    BY DEF TInv, TypeOK, Encode
  <1>2. ForkedInv'
    BY DEF TInv, ForkedInv, Encode
  <1>3. OwnNameInv'
    BY DEF TInv, OwnNameInv, Encode
  <1>4. NothingLeftBehind'
    BY DEF TInv, NothingLeftBehind, Encode
  <1>5. ChildrenAccounted'
    <2>1. Children' = Children /\ Waiters' = Waiters
      BY DEF Children, Waiters, At, Encode
    <2> QED BY <2>1, NoneMore DEF TInv
  <1> QED BY <1>1, <1>2, <1>3, <1>4, <1>5 DEF TInv

\* The recording has ended.
LEMMA HandlerReturnsKeeps ==
    ASSUME TInv, NEW w \in Workers, HandlerReturns(w)
    PROVE  TInv'
  <1>1. TypeOK'
    BY DEF TInv, TypeOK, HandlerReturns, Goto
  <1>2. ForkedInv'
    BY DEF TInv, ForkedInv, At, HandlerReturns, Goto
  <1>3. OwnNameInv'
    BY DEF TInv, OwnNameInv, HandlerReturns
  <1>4. NothingLeftBehind'
    BY DEF TInv, NothingLeftBehind, HandlerReturns, Goto
  <1>5. ChildrenAccounted'
    <2>1. Children' = Children /\ Waiters' = Waiters
      BY DEF Children, Waiters, At, HandlerReturns, Goto
    <2> QED BY <2>1, NoneMore DEF TInv
  <1> QED BY <1>1, <1>2, <1>3, <1>4, <1>5 DEF TInv

\* The temporary file is not there, so it is nobody's to remove.
LEMMA LookNoFileKeeps ==
    ASSUME TInv, NEW w \in Workers, LookNoFile(w)
    PROVE  TInv'
  <1>1. TypeOK'
    BY DEF TInv, TypeOK, LookNoFile, Goto
  <1>2. ForkedInv'
    BY DEF TInv, ForkedInv, At, LookNoFile, Goto
  <1>3. OwnNameInv'
    BY DEF TInv, OwnNameInv, LookNoFile
  <1>4. NothingLeftBehind'
    BY DEF TInv, OwnNameInv, NothingLeftBehind, LookNoFile, Goto
  <1>5. ChildrenAccounted'
    <2>1. Children' = Children /\ Waiters' = Waiters
      BY DEF Children, Waiters, At, LookNoFile, Goto
    <2> QED BY <2>1, NoneMore DEF TInv
  <1> QED BY <1>1, <1>2, <1>3, <1>4, <1>5 DEF TInv

\* The temporary file is empty.
LEMMA LookEmptyKeeps ==
    ASSUME TInv, NEW w \in Workers, LookEmpty(w)
    PROVE  TInv'
  <1>1. TypeOK'
    BY DEF TInv, TypeOK, LookEmpty, Goto
  <1>2. ForkedInv'
    BY DEF TInv, ForkedInv, At, LookEmpty, Goto
  <1>3. OwnNameInv'
    BY DEF TInv, OwnNameInv, LookEmpty
  <1>4. NothingLeftBehind'
    BY DEF TInv, NothingLeftBehind, LookEmpty, Goto
  <1>5. ChildrenAccounted'
    <2>1. Children' = Children /\ Waiters' = Waiters
      BY DEF Children, Waiters, At, LookEmpty, Goto
    <2> QED BY <2>1, NoneMore DEF TInv
  <1> QED BY <1>1, <1>2, <1>3, <1>4, <1>5 DEF TInv

\* The temporary file has data.
LEMMA LookDataKeeps ==
    ASSUME TInv, NEW w \in Workers, LookData(w)
    PROVE  TInv'
  <1>1. TypeOK'
    BY DEF TInv, TypeOK, LookData, Goto
  <1>2. ForkedInv'
    BY DEF TInv, ForkedInv, At, LookData, Goto
  <1>3. OwnNameInv'
    BY DEF TInv, OwnNameInv, LookData
  <1>4. NothingLeftBehind'
    BY DEF TInv, NothingLeftBehind, LookData, Goto
  <1>5. ChildrenAccounted'
    <2>1. Children' = Children /\ Waiters' = Waiters
      BY DEF Children, Waiters, At, LookData, Goto
    <2> QED BY <2>1, NoneMore DEF TInv
  <1> QED BY <1>1, <1>2, <1>3, <1>4, <1>5 DEF TInv

\* One more child, one more worker that waits.
LEMMA ForkKeeps ==
    ASSUME TInv, NEW w \in Workers, Fork(w)
    PROVE  TInv'
  <1>1. TypeOK'
    BY DEF TInv, TypeOK, Unreaped, Fork, Goto
  <1>2. ForkedInv'
    BY DEF TInv, TypeOK, ForkedInv, At, Fork, Goto
  <1>3. OwnNameInv'
    BY DEF TInv, OwnNameInv, Fork
  <1>4. NothingLeftBehind'
    BY DEF TInv, NothingLeftBehind, Fork, Goto
  <1>5. ChildrenAccounted'
    <2>1. w \notin Children /\ Children' = Children \union {w}
      BY DEF TInv, TypeOK, ForkedInv, Children, Unreaped, At, Fork
    <2>2. w \notin Waiters /\ Waiters' = Waiters \union {w}
      BY DEF TInv, TypeOK, Waiters, At, Fork, Goto
    <2> QED BY <2>1, <2>2, OneMore DEF TInv
  <1> QED BY <1>1, <1>2, <1>3, <1>4, <1>5 DEF TInv

\* No child, and no wait.
LEMMA ForkFailsKeeps ==
    ASSUME TInv, NEW w \in Workers, ForkFails(w)
    PROVE  TInv'
  <1>1. TypeOK'
    BY DEF TInv, TypeOK, ForkFails, Goto
  <1>2. ForkedInv'
    BY DEF TInv, ForkedInv, At, ForkFails, Goto
  <1>3. OwnNameInv'
    BY DEF TInv, OwnNameInv, ForkFails
  <1>4. NothingLeftBehind'
    BY DEF TInv, NothingLeftBehind, ForkFails, Goto
  <1>5. ChildrenAccounted'
    <2>1. Children' = Children /\ Waiters' = Waiters
      BY DEF Children, Waiters, At, ForkFails, Goto
    <2> QED BY <2>1, NoneMore DEF TInv
  <1> QED BY <1>1, <1>2, <1>3, <1>4, <1>5 DEF TInv

\* wait(NULL) takes any child that has exited.
LEMMA WaitKeeps ==
    ASSUME TInv, NEW w \in Workers, Wait(w)
    PROVE  TInv'
  <1>1. TypeOK'
    BY DEF TInv, TypeOK, Wait, Goto
  <1>2. ForkedInv'
    BY DEF TInv, ForkedInv, At, Wait, Goto
  <1>3. OwnNameInv'
    BY DEF TInv, OwnNameInv, Wait
  <1>4. NothingLeftBehind'
    BY DEF TInv, NothingLeftBehind, Wait, Goto
  <1>5. ChildrenAccounted'
    <2>1. PICK v \in Workers : child[v] = "exited" /\ child' = [child EXCEPT ![v] = "reaped"]
      BY DEF Wait
    <2>2. v \in Children /\ Children' = Children \ {v}
      BY <2>1 DEF TInv, TypeOK, Children, Unreaped
    <2>3. w \in Waiters /\ Waiters' = Waiters \ {w}
      BY DEF TInv, TypeOK, Waiters, At, Wait, Goto
    <2> QED BY <2>2, <2>3, OneLess DEF TInv
  <1> QED BY <1>1, <1>2, <1>3, <1>4, <1>5 DEF TInv

\* The temporary name is removed, whoever created the file.
LEMMA UnlinkKeeps ==
    ASSUME TInv, NEW w \in Workers, Unlink(w)
    PROVE  TInv'
  <1>1. TypeOK'
    BY DEF TInv, TypeOK, Unlink, Goto, RemoveTmp
  <1>2. ForkedInv'
    BY DEF TInv, ForkedInv, At, Unlink, Goto
  <1>3. OwnNameInv'
    BY TranscodeAssumption DEF TInv, OwnNameInv, Unlink, RemoveTmp
  <1>4. NothingLeftBehind'
    BY DEF TInv, TypeOK, OwnNameInv, NothingLeftBehind, Unlink, Goto, RemoveTmp
  <1>5. ChildrenAccounted'
    <2>1. Children' = Children /\ Waiters' = Waiters
      BY DEF Children, Waiters, At, Unlink, Goto
    <2> QED BY <2>1, NoneMore DEF TInv
  <1> QED BY <1>1, <1>2, <1>3, <1>4, <1>5 DEF TInv

\* The encoder is freed.
LEMMA DestroyKeeps ==
    ASSUME TInv, NEW w \in Workers, Destroy(w)
    PROVE  TInv'
  <1>1. TypeOK'
    BY DEF TInv, TypeOK, Destroy, Goto, FreesVideo
  <1>2. ForkedInv'
    BY DEF TInv, ForkedInv, At, Destroy, Goto
  <1>3. OwnNameInv'
    BY DEF TInv, OwnNameInv, Destroy
  <1>4. NothingLeftBehind'
    BY DEF TInv, NothingLeftBehind, At, Destroy, Goto
  <1>5. ChildrenAccounted'
    <2>1. Children' = Children /\ Waiters' = Waiters
      BY DEF Children, Waiters, At, Destroy, Goto
    <2> QED BY <2>1, NoneMore DEF TInv
  <1> QED BY <1>1, <1>2, <1>3, <1>4, <1>5 DEF TInv

\* ffmpeg opens its input.
LEMMA ExecOpensKeeps ==
    ASSUME TInv, NEW w \in Workers, ExecOpens(w)
    PROVE  TInv'
  <1>1. TypeOK'
    BY DEF TInv, TypeOK, ForkedInv, Unreaped, ExecOpens
  <1>2. ForkedInv'
    BY DEF TInv, TypeOK, ForkedInv, ExecOpens
  <1>3. OwnNameInv'
    BY DEF TInv, OwnNameInv, ExecOpens
  <1>4. NothingLeftBehind'
    BY DEF TInv, NothingLeftBehind, ExecOpens
  <1>5. ChildrenAccounted'
    <2>1. Children' = Children /\ Waiters' = Waiters
      BY DEF Children, Waiters, Unreaped, At, ExecOpens
    <2> QED BY <2>1, NoneMore DEF TInv
  <1> QED BY <1>1, <1>2, <1>3, <1>4, <1>5 DEF TInv

\* ffmpeg finds no input.
LEMMA ExecFindsNothingKeeps ==
    ASSUME TInv, NEW w \in Workers, ExecFindsNothing(w)
    PROVE  TInv'
  <1>1. TypeOK'
    BY DEF TInv, TypeOK, Unreaped, ExecFindsNothing
  <1>2. ForkedInv'
    BY DEF TInv, ForkedInv, ExecFindsNothing
  <1>3. OwnNameInv'
    BY DEF TInv, OwnNameInv, ExecFindsNothing
  <1>4. NothingLeftBehind'
    BY DEF TInv, NothingLeftBehind, ExecFindsNothing
  <1>5. ChildrenAccounted'
    <2>1. Children' = Children /\ Waiters' = Waiters
      BY DEF Children, Waiters, Unreaped, At, ExecFindsNothing
    <2> QED BY <2>1, NoneMore DEF TInv
  <1> QED BY <1>1, <1>2, <1>3, <1>4, <1>5 DEF TInv

\* ffmpeg writes its output.
LEMMA FfmpegFinishesKeeps ==
    ASSUME TInv, NEW w \in Workers, FfmpegFinishes(w)
    PROVE  TInv'
  <1>1. TypeOK'
    BY DEF TInv, TypeOK, ForkedInv, Output, Unreaped, FfmpegFinishes
  <1>2. ForkedInv'
    BY DEF TInv, ForkedInv, FfmpegFinishes
  <1>3. OwnNameInv'
    BY DEF TInv, OwnNameInv, FfmpegFinishes
  <1>4. NothingLeftBehind'
    BY DEF TInv, NothingLeftBehind, FfmpegFinishes
  <1>5. ChildrenAccounted'
    <2>1. Children' = Children /\ Waiters' = Waiters
      BY DEF Children, Waiters, Unreaped, At, FfmpegFinishes
    <2> QED BY <2>1, NoneMore DEF TInv
  <1> QED BY <1>1, <1>2, <1>3, <1>4, <1>5 DEF TInv

\* exec fails.
LEMMA ExecFailsKeeps ==
    ASSUME TInv, NEW w \in Workers, ExecFails(w)
    PROVE  TInv'
  <1>1. TypeOK'
    BY DEF TInv, TypeOK, Unreaped, ExecFails
  <1>2. ForkedInv'
    BY DEF TInv, ForkedInv, ExecFails
  <1>3. OwnNameInv'
    BY DEF TInv, OwnNameInv, ExecFails
  <1>4. NothingLeftBehind'
    BY DEF TInv, NothingLeftBehind, ExecFails
  <1>5. ChildrenAccounted'
    <2>1. Children' = Children /\ Waiters' = Waiters
      BY DEF Children, Waiters, Unreaped, At, ExecFails
    <2> QED BY <2>1, NoneMore DEF TInv
  <1> QED BY <1>1, <1>2, <1>3, <1>4, <1>5 DEF TInv

\* The child that could not exec removes the temporary name.
LEMMA AstrayEndsKeeps ==
    ASSUME TInv, NEW w \in Workers, AstrayEnds(w)
    PROVE  TInv'
  <1>1. TypeOK'
    BY DEF TInv, TypeOK, Unreaped, AstrayEnds, RemoveTmp
  <1>2. ForkedInv'
    BY DEF TInv, ForkedInv, AstrayEnds
  <1>3. OwnNameInv'
    BY TranscodeAssumption DEF TInv, OwnNameInv, AstrayEnds, RemoveTmp
  <1>4. NothingLeftBehind'
    BY DEF TInv, NothingLeftBehind, AstrayEnds, RemoveTmp
  <1>5. ChildrenAccounted'
    <2>1. Children' = Children /\ Waiters' = Waiters
      BY DEF Children, Waiters, Unreaped, At, AstrayEnds
    <2> QED BY <2>1, NoneMore DEF TInv
  <1> QED BY <1>1, <1>2, <1>3, <1>4, <1>5 DEF TInv

LEMMA Inductive == Spec => []TInv
  <1>1. Init => TInv
    <2> SUFFICES ASSUME Init PROVE TInv
      OBVIOUS
    <2>1. TypeOK /\ ForkedInv
      BY DEF Init, TypeOK, ForkedInv
    <2>2. OwnNameInv /\ NothingLeftBehind
      BY TranscodeAssumption DEF Init, OwnNameInv, NothingLeftBehind
    <2>3. Children = {} /\ Waiters = {}
      BY DEF Init, Children, Waiters, Unreaped, At
    <2>4. ChildrenAccounted
      BY <2>3 DEF ChildrenAccounted
    <2> QED BY <2>1, <2>2, <2>4 DEF TInv
  <1>2. TInv /\ [Next]_vars => TInv'
    <2> SUFFICES ASSUME TInv, [Next]_vars PROVE TInv'
      OBVIOUS
    <2>1. ASSUME NEW w \in Workers, NEW n \in Names, Create(w, n) PROVE TInv'
      BY <2>1, CreateKeeps
    <2>2. ASSUME NEW w \in Workers, Encode(w) \/ HandlerReturns(w) PROVE TInv'
      BY <2>2, EncodeKeeps, HandlerReturnsKeeps
    <2>3. ASSUME NEW w \in Workers, Transcoding(w) PROVE TInv'
      BY <2>3, LookNoFileKeeps, LookEmptyKeeps, LookDataKeeps, ForkKeeps, ForkFailsKeeps,
         WaitKeeps, UnlinkKeeps, DestroyKeeps DEF Transcoding
    <2>4. ASSUME NEW w \in Workers, Child(w) PROVE TInv'
      BY <2>4, ExecOpensKeeps, ExecFindsNothingKeeps, FfmpegFinishesKeeps, ExecFailsKeeps,
         AstrayEndsKeeps DEF Child
    <2>5. CASE UNCHANGED vars
      <3>1. TypeOK' /\ ForkedInv' /\ OwnNameInv' /\ NothingLeftBehind'
        BY <2>5 DEF TInv, vars, TypeOK, ForkedInv, OwnNameInv, NothingLeftBehind
      <3>2. Children' = Children /\ Waiters' = Waiters
        BY <2>5 DEF vars, Children, Waiters, At
      <3> QED BY <3>1, <3>2, NoneMore DEF TInv
    <2> QED BY <2>1, <2>2, <2>3, <2>4, <2>5 DEF Next
  <1> QED BY <1>1, <1>2, PTL DEF Spec

\* wait(NULL) never fails for lack of a child and leaves no zombie, although it
\* takes the child of any worker (job_exec).
THEOREM EveryChildWaitedFor == Spec => []ChildrenAccounted
  <1>1. TInv => ChildrenAccounted
    BY DEF TInv
  <1> QED BY <1>1, Inductive, PTL

\* Jobs of the same name remove and replace each other's files, and still no
\* temporary file outlives the job that created it (job_call_ffmpeg_for_video).
THEOREM NoTemporaryLeft == Spec => []NothingLeftBehind
  <1>1. TInv => NothingLeftBehind
    BY DEF TInv
  <1> QED BY <1>1, Inductive, PTL

=============================================================================
