----------------------------- MODULE PoolProofs -----------------------------
(***************************************************************************)
(* That a guac_pool never hands out an integer twice and grows only when   *)
(* exhausted, for every set of callers and every minimum size; and that    *)
(* the calls of client.c and user.c implement the callers of a pool, that  *)
(* what is in use has an index of its own and that no table is left, for   *)
(* every size of the table and every number of threads, until two of them  *)
(* meet outside the lock of the pool.  The latter excepts layers, as their *)
(* integers come back wrong.                                               *)
(***************************************************************************)
EXTENDS StreamTable, FiniteSetTheorems, TLAPS

-----------------------------------------------------------------------------
(* The pool.                                                               *)

\* The callers that keep an integer are finitely many, and their number goes
\* up by one when one more does and down by one when one less does.
LEMMA KeepingFinite == IsFiniteSet(Keeping) /\ Cardinality(Keeping) \in Nat
  <1>1. Keeping \subseteq Callers
    BY DEF Keeping
  <1> QED BY <1>1, PoolAssumption, FS_Subset, FS_CardinalityType

LEMMA KeepingGrows ==
    ASSUME NEW c \in Callers, c \notin Keeping, Keeping' = Keeping \union {c}
    PROVE  Cardinality(Keeping)' = Cardinality(Keeping) + 1
  BY KeepingFinite, FS_AddElement

LEMMA KeepingShrinks ==
    ASSUME NEW c \in Callers, c \in Keeping, Keeping' = Keeping \ {c}
    PROVE  Cardinality(Keeping) > 0 /\ Cardinality(Keeping)' = Cardinality(Keeping) - 1
  <1>1. Cardinality(Keeping \ {c}) = Cardinality(Keeping) - 1
    BY KeepingFinite, FS_RemoveElement
  <1>2. Cardinality(Keeping \ {c}) \in Nat
    BY KeepingFinite, FS_RemoveElement, FS_CardinalityType
  <1> QED BY <1>1, <1>2, KeepingFinite

\* guac_pool_alloc establishes the inductive invariant.
LEMMA InitIInv == PoolInit => IInv
  <1> SUFFICES ASSUME PoolInit PROVE IInv
    OBVIOUS
  <1>1. \E size \in MinSizes :
          pool = [min_size |-> size, active |-> 0, next_value |-> 0, ints |-> <<>>]
    BY DEF PoolInit, P!PoolAlloc, P!GuacPool
  <1>2. Keeping = {}
    BY DEF PoolInit, Keeping
  <1>3. Accounted
    BY <1>1, <1>2, FS_EmptySet DEF Accounted
  <1> QED BY <1>1, <1>3, PoolAssumption DEF PoolInit, IInv, PoolTypeOK, Unique, Partition

\* guac_pool_next_int, making a new integer: nobody has it and it is not listed.
LEMMA TakeNew ==
    ASSUME IInv, NEW c \in Callers, Take(c), P!PoolMakesNew(pool)
    PROVE  IInv'
  <1>1. /\ held' = [held EXCEPT ![c] = pool.next_value]
        /\ pool' = [min_size |-> pool.min_size, active |-> pool.active + 1,
                    next_value |-> pool.next_value + 1, ints |-> pool.ints]
    BY DEF Take, P!PoolNextInt, P!PoolTaken, P!GuacPool
  <1>2. /\ pool'.ints = pool.ints
        /\ pool'.next_value = pool.next_value + 1
        /\ pool'.active = pool.active + 1
        /\ pool'.min_size = pool.min_size
    BY <1>1 DEF IInv, PoolTypeOK
  <1>3. PoolTypeOK'
    BY <1>1 DEF IInv, PoolTypeOK
  <1>4. Unique'
    BY <1>1, PoolAssumption DEF IInv, PoolTypeOK, Unique, Partition
  <1>5. Partition'
    BY <1>1, <1>2, PoolAssumption DEF IInv, PoolTypeOK, Unique, Partition
  <1>6. Accounted'
    <2>1. c \notin Keeping /\ Keeping' = Keeping \union {c}
      BY <1>1, PoolAssumption DEF Take, Keeping, IInv, PoolTypeOK
    <2>2. Cardinality(Keeping)' = Cardinality(Keeping) + 1
      BY <2>1, KeepingGrows
    <2> QED BY <1>2, <2>2, KeepingFinite DEF IInv, PoolTypeOK, Accounted
  <1> QED BY <1>3, <1>4, <1>5, <1>6 DEF IInv

\* guac_pool_next_int, reusing the integer at the head of the list.
LEMMA TakeOld ==
    ASSUME IInv, NEW c \in Callers, Take(c), ~ P!PoolMakesNew(pool)
    PROVE  IInv'
  <1>0. /\ pool.ints \in Seq(Nat) /\ pool.ints # <<>>
        /\ pool.next_value \in Nat /\ pool.active \in Nat
    BY DEF IInv, PoolTypeOK, P!PoolMakesNew
  <1>1. /\ held' = [held EXCEPT ![c] = Head(pool.ints)]
        /\ pool' = [min_size |-> pool.min_size, active |-> pool.active + 1,
                    next_value |-> pool.next_value, ints |-> Tail(pool.ints)]
    BY DEF Take, P!PoolNextInt, P!PoolTaken, P!GuacPool
  <1>2. /\ pool'.ints = Tail(pool.ints)
        /\ pool'.next_value = pool.next_value
        /\ pool'.active = pool.active + 1
    BY <1>1 DEF IInv, PoolTypeOK
  <1>3. /\ Len(pool.ints) \in Nat /\ Len(pool.ints) > 0
        /\ Head(pool.ints) = pool.ints[1] /\ pool.ints[1] \in Nat
        /\ Tail(pool.ints) \in Seq(Nat)
        /\ Len(Tail(pool.ints)) = Len(pool.ints) - 1
        /\ \A i \in 1..Len(Tail(pool.ints)) :
              i + 1 \in 1..Len(pool.ints) /\ Tail(pool.ints)[i] = pool.ints[i + 1]
    BY <1>0
  <1>4. PoolTypeOK'
    <2>1. pool' \in [min_size : MinSizes, active : Nat, next_value : Nat, ints : Seq(Nat)]
      BY <1>0, <1>1, <1>3 DEF IInv, PoolTypeOK
    <2> QED BY <2>1, <1>1, <1>3 DEF IInv, PoolTypeOK
  <1>5. Unique'
    <2>1. \A d \in Callers : held[d] # Head(pool.ints)
      BY <1>3 DEF IInv, Partition
    <2> QED BY <1>1, <2>1 DEF IInv, PoolTypeOK, Unique
  <1>6. Partition'
    <2>1. \A d \in Callers : held'[d] # None => held'[d] < pool'.next_value
      BY <1>0, <1>1, <1>2, <1>3 DEF IInv, PoolTypeOK, Partition
    <2>2. \A i \in 1..Len(pool'.ints) :
             /\ pool'.ints[i] < pool'.next_value
             /\ \A d \in Callers : held'[d] # pool'.ints[i]
      <3> SUFFICES ASSUME NEW i \in 1..Len(Tail(pool.ints))
                   PROVE  /\ Tail(pool.ints)[i] < pool.next_value
                          /\ \A d \in Callers : held'[d] # Tail(pool.ints)[i]
        BY <1>2
      <3>1. /\ i + 1 \in 1..Len(pool.ints) /\ 1 \in 1..Len(pool.ints) /\ i + 1 # 1
            /\ Tail(pool.ints)[i] = pool.ints[i + 1]
        BY <1>3
      <3>2. pool.ints[i + 1] # pool.ints[1]
        BY <3>1 DEF IInv, Partition
      <3> QED BY <1>1, <1>3, <3>1, <3>2 DEF IInv, PoolTypeOK, Partition
    <2>3. \A i, j \in 1..Len(pool'.ints) : pool'.ints[i] = pool'.ints[j] => i = j
      <3> SUFFICES ASSUME NEW i \in 1..Len(Tail(pool.ints)),
                          NEW j \in 1..Len(Tail(pool.ints)),
                          Tail(pool.ints)[i] = Tail(pool.ints)[j]
                   PROVE  i = j
        BY <1>2
      <3>1. pool.ints[i + 1] = pool.ints[j + 1]
        BY <1>3
      <3>2. i + 1 = j + 1
        BY <3>1, <1>3 DEF IInv, Partition
      <3> QED BY <3>2, <1>3
    <2> QED BY <2>1, <2>2, <2>3 DEF Partition
  <1>7. Accounted'
    <2>1. c \notin Keeping /\ Keeping' = Keeping \union {c}
      BY <1>1, <1>3, PoolAssumption DEF Take, Keeping, IInv, PoolTypeOK
    <2>2. Cardinality(Keeping)' = Cardinality(Keeping) + 1
      BY <2>1, KeepingGrows
    <2> QED BY <1>0, <1>2, <1>3, <2>2 DEF IInv, Accounted
  <1> QED BY <1>4, <1>5, <1>6, <1>7 DEF IInv

\* guac_pool_free_int of the integer the caller keeps.
LEMMA ReturnStep ==
    ASSUME IInv, NEW c \in Callers, Return(c)
    PROVE  IInv'
  <1>0. /\ pool.ints \in Seq(Nat) /\ held[c] \in Nat
        /\ pool.next_value \in Nat /\ pool.active \in Nat
        /\ held \in [Callers -> Nat \union {None}]
    BY DEF IInv, PoolTypeOK, Return
  <1>1. /\ held' = [held EXCEPT ![c] = None]
        /\ pool' = [min_size |-> pool.min_size, active |-> pool.active - 1,
                    next_value |-> pool.next_value, ints |-> Append(pool.ints, held[c])]
    BY DEF Return, P!PoolReturned, P!GuacPool
  <1>2. /\ pool'.ints = Append(pool.ints, held[c])
        /\ pool'.next_value = pool.next_value
        /\ pool'.active = pool.active - 1
    BY <1>1 DEF IInv, PoolTypeOK
  <1>3. /\ Len(pool.ints) \in Nat
        /\ Append(pool.ints, held[c]) \in Seq(Nat)
        /\ Len(Append(pool.ints, held[c])) = Len(pool.ints) + 1
        /\ \A i \in 1..Len(pool.ints) : Append(pool.ints, held[c])[i] = pool.ints[i]
        /\ Append(pool.ints, held[c])[Len(pool.ints) + 1] = held[c]
    BY <1>0
  <1>4. /\ pool.active > 0
        /\ Cardinality(Keeping)' = Cardinality(Keeping) - 1
    <2>1. c \in Keeping /\ Keeping' = Keeping \ {c}
      BY <1>0, <1>1 DEF Return, Keeping
    <2> QED BY <2>1, KeepingShrinks DEF IInv, Accounted
  <1>5. PoolTypeOK'
    BY <1>0, <1>1, <1>3, <1>4 DEF IInv, PoolTypeOK
  <1>6. Unique'
    BY <1>0, <1>1, PoolAssumption DEF IInv, Unique
  <1>7. Partition'
    <2>1. \A d \in Callers : held'[d] # None => held'[d] < pool'.next_value
      BY <1>0, <1>1, <1>2 DEF IInv, Partition
    <2>2. \A i \in 1..Len(pool'.ints) :
             /\ pool'.ints[i] < pool'.next_value
             /\ \A d \in Callers : held'[d] # pool'.ints[i]
      BY <1>0, <1>1, <1>2, <1>3, PoolAssumption DEF IInv, Partition, Unique, PoolTypeOK
    <2>3. \A i, j \in 1..Len(pool'.ints) : pool'.ints[i] = pool'.ints[j] => i = j
      <3> DEFINE len == Len(pool.ints)
                 ints == Append(pool.ints, held[c])
      <3> SUFFICES ASSUME NEW i \in 1..(len + 1), NEW j \in 1..(len + 1), ints[i] = ints[j]
                   PROVE  i = j
        BY <1>2, <1>3
      <3>1. \A k \in 1..len : ints[k] = pool.ints[k] /\ pool.ints[k] # held[c]
        BY <1>3 DEF IInv, Partition
      <3>2. ints[len + 1] = held[c]
        BY <1>3
      <3>3. \A k \in 1..(len + 1) : k \in 1..len \/ k = len + 1
        BY <1>3
      <3>4. CASE i \in 1..len /\ j \in 1..len
        <4>1. pool.ints[i] = pool.ints[j]
          BY <3>1, <3>4
        <4> QED BY <3>4, <4>1 DEF IInv, Partition
      <3>5. CASE i = len + 1 \/ j = len + 1
        BY <3>1, <3>2, <3>3, <3>5
      <3> QED BY <3>3, <3>4, <3>5
    <2> QED BY <2>1, <2>2, <2>3 DEF Partition
  <1>8. Accounted'
    BY <1>0, <1>2, <1>3, <1>4 DEF IInv, Accounted
  <1> QED BY <1>5, <1>6, <1>7, <1>8 DEF IInv

\* Every step of the specification keeps the inductive invariant.
LEMMA NextIInv == IInv /\ [PoolNext]_poolvars => IInv'
  <1> SUFFICES ASSUME IInv, [PoolNext]_poolvars PROVE IInv'
    OBVIOUS
  <1>1. CASE UNCHANGED poolvars
    BY <1>1 DEF poolvars, IInv, PoolTypeOK, Unique, Partition, Accounted, Keeping
  <1>2. ASSUME NEW c \in Callers, Take(c) PROVE IInv'
    BY <1>2, TakeNew, TakeOld
  <1>3. ASSUME NEW c \in Callers, Return(c) PROVE IInv'
    BY <1>3, ReturnStep
  <1> QED BY <1>1, <1>2, <1>3 DEF PoolNext

(* A guac_pool never gives out an integer some caller still keeps, never    *)
(* lists an integer twice and counts the ones in use, for every number of   *)
(* callers and every minimum size (guac_pool_next_int, guac_pool_free_int). *)
THEOREM PoolUnique == PoolSpec => [](Unique /\ Partition /\ Accounted)
  <1>1. IInv => Unique /\ Partition /\ Accounted
    BY DEF IInv
  <1> QED BY InitIInv, NextIInv, <1>1, PTL DEF PoolSpec

(* Beyond min_size guac_pool_next_int makes a new integer only when every   *)
(* integer it made before is in use.                                        *)
THEOREM PoolGrowth == PoolSpec => GrowsOnlyWhenExhausted
  <1>1. ASSUME IInv, [PoolNext]_poolvars
        PROVE  [ pool'.next_value # pool.next_value /\ pool.next_value >= pool.min_size
                   => pool.active = pool.next_value ]_poolvars
    <2> SUFFICES ASSUME pool'.next_value # pool.next_value, pool.next_value >= pool.min_size
                 PROVE  pool.active = pool.next_value
      OBVIOUS
    <2>1. PICK c \in Callers : Take(c)
      BY <1>1 DEF PoolNext, poolvars, Return, P!PoolReturned, P!GuacPool
    <2>2. P!PoolMakesNew(pool)
      BY <2>1 DEF Take, P!PoolTaken, P!GuacPool
    <2>3. pool.ints = <<>>
      <3>1. pool.min_size \in Nat /\ pool.next_value \in Nat
        BY <1>1, PoolAssumption DEF IInv, PoolTypeOK
      <3> QED BY <2>2, <3>1 DEF P!PoolMakesNew
    <2> QED BY <1>1, <2>3 DEF IInv, PoolTypeOK, Accounted
  <1> QED BY InitIInv, NextIInv, <1>1, PTL DEF PoolSpec, GrowsOnlyWhenExhausted

-----------------------------------------------------------------------------
(* Indices.                                                                *)

\* The integer returned for an index is the one the index was made from.
LEMMA IndexReturns ==
    ASSUME TableTypeOK, "layer" \notin Kinds, NEW n \in Nat
    PROVE  PoolInt(Index(n)) = n /\ Index(n) \in Int
  <1>1. kind \in {"client stream", "user stream", "object", "buffer"}
    BY StreamTableAssumption DEF TableTypeOK, TableKinds, HeapKinds
  <1>2. Quotient(2 * n, 2) = n
    BY DEF Quotient
  <1>3. CASE kind = "client stream"
    <2>1. Index(n) = 2 * n + 1
      BY <1>3 DEF Index
    <2>2. PoolInt(2 * n + 1) = Quotient((2 * n + 1) - 1, 2)
      BY <1>3 DEF PoolInt
    <2>3. (2 * n + 1) - 1 = 2 * n /\ 2 * n + 1 \in Int
      OBVIOUS
    <2> QED BY <1>2, <2>1, <2>2, <2>3
  <1>4. CASE kind = "user stream"
    <2>1. Index(n) = 2 * n
      BY <1>4 DEF Index
    <2>2. PoolInt(2 * n) = Quotient(2 * n, 2)
      BY <1>4 DEF PoolInt
    <2> QED BY <1>2, <2>1, <2>2
  <1>5. CASE kind = "object"
    BY <1>5 DEF PoolInt, Index
  <1>6. CASE kind = "buffer"
    BY <1>6 DEF PoolInt, Index
  <1> QED BY <1>1, <1>3, <1>4, <1>5, <1>6

\* Different integers have different indices.
LEMMA IndexInjective ==
    ASSUME TableTypeOK, "layer" \notin Kinds, NEW m \in Nat, NEW n \in Nat, Index(m) = Index(n)
    PROVE  m = n
  BY IndexReturns

\* The integer that the pool gives out next is new to everybody.
LEMMA NextIntNew ==
    ASSUME IInv
    PROVE  /\ P!PoolNextInt(pool) \in Nat
           /\ \A c \in Callers : held[c] # P!PoolNextInt(pool)
           /\ P!PoolTaken(pool).next_value >= pool.next_value
           /\ P!PoolNextInt(pool) < P!PoolTaken(pool).next_value
  <1>1. /\ pool.ints \in Seq(Nat) /\ pool.next_value \in Nat
        /\ held \in [Callers -> Nat \union {None}]
    BY DEF IInv, PoolTypeOK
  <1>2. CASE P!PoolMakesNew(pool)
    BY <1>1, <1>2, PoolAssumption
    DEF P!PoolNextInt, P!PoolTaken, P!GuacPool, IInv, Partition
  <1>3. CASE ~ P!PoolMakesNew(pool)
    <2>1. pool.ints # <<>>
      BY <1>3 DEF P!PoolMakesNew
    <2>2. Head(pool.ints) = pool.ints[1] /\ pool.ints[1] \in Nat /\ 1 \in 1..Len(pool.ints)
      BY <1>1, <2>1
    <2> QED BY <1>1, <1>3, <2>2 DEF P!PoolNextInt, P!PoolTaken, P!GuacPool, IInv, Partition
  <1> QED BY <1>2, <1>3

\* A place of the table or the structure of a caller.
LEMMA PlaceInDomain ==
    ASSUME TableTypeOK, NEW c \in Callers, NEW n \in Nat, kind \in TableKinds => n < Max
    PROVE  Place(c, n) \in Entries \union Callers
  <1>1. Cardinality(Callers) \in Nat
    BY PoolAssumption, FS_CardinalityType
  <1> QED BY <1>1, StreamTableAssumption DEF Place, Entries

\* The threads past the test are finitely many, and one more or one less in such a call
\* is one more or one less of them.
LEMMA AllocatingFinite ==
    /\ IsFiniteSet(Allocating) /\ Cardinality(Allocating) \in Nat
  <1>1. Allocating \subseteq Threads
    BY DEF Allocating
  <1> QED BY <1>1, StreamTableAssumption, FS_Subset, FS_CardinalityType

LEMMA AllocatingGrows ==
    ASSUME TableTypeOK, NEW t \in Threads, call[t] = "none",
           call' = [call EXCEPT ![t] = "alloc"]
    PROVE  Cardinality(Allocating)' = Cardinality(Allocating) + 1
  <1>1. t \notin Allocating /\ Allocating' = Allocating \union {t}
    BY DEF Allocating, TableTypeOK
  <1> QED BY <1>1, AllocatingFinite, FS_AddElement

LEMMA AllocatingShrinks ==
    ASSUME TableTypeOK, NEW t \in Threads, call[t] = "alloc",
           call' = [call EXCEPT ![t] = "none"]
    PROVE  /\ Cardinality(Allocating) > 0
           /\ Cardinality(Allocating)' = Cardinality(Allocating) - 1
  <1>1. t \in Allocating /\ Allocating' = Allocating \ {t}
    BY DEF Allocating, TableTypeOK
  <1>2. Cardinality(Allocating \ {t}) = Cardinality(Allocating) - 1
    BY <1>1, AllocatingFinite, FS_RemoveElement
  <1>3. Cardinality(Allocating \ {t}) \in Nat
    BY AllocatingFinite, FS_RemoveElement, FS_CardinalityType
  <1> QED BY <1>1, <1>2, <1>3, AllocatingFinite

\* Calls of free leave them alone.
LEMMA AllocatingKept ==
    ASSUME TableTypeOK, NEW t \in Threads, call[t] # "alloc", NEW name, name # "alloc",
           call' = [call EXCEPT ![t] = name]
    PROVE  Allocating' = Allocating
  BY DEF Allocating, TableTypeOK

-----------------------------------------------------------------------------
(* The steps.                                                              *)

\* guac_client_alloc and guac_user_alloc establish the invariant.
LEMMA InitSInv == Init => SInv
  <1> SUFFICES ASSUME Init PROVE SInv
    OBVIOUS
  <1>1. IInv
    BY InitIInv DEF Init
  <1>2. pool.next_value = 0 /\ pool.active = 0 /\ (kind \in TableKinds => pool.min_size = 0)
    BY DEF Init, PoolInit, P!PoolAlloc, P!GuacPool
  <1>3. TableTypeOK
    BY DEF Init, TableTypeOK, Closed
  <1>4. CallInv /\ EntryInv
    BY StreamTableAssumption DEF Init, PoolInit, CallInv, EntryInv
  <1>5. RoomInv
    <2>1. Allocating = {}
      BY DEF Init, Allocating
    <2> QED BY <1>2, <2>1, FS_EmptySet, StreamTableAssumption DEF Init, RoomInv
  <1> QED BY <1>1, <1>3, <1>4, <1>5 DEF SInv

\* The test against the limit: there is an entry that nobody past it needs.
LEMMA AllocTestStep ==
    ASSUME SInv, Sound, ~ raced', NEW t \in Threads, NEW c \in Callers, AllocTest(t, c)
    PROVE  SInv'
  <1>1. /\ call[t] = "none" /\ entry[c] = None
        /\ \A u \in Threads : site[u] # c
        /\ call' = [call EXCEPT ![t] = "alloc"]
        /\ site' = [site EXCEPT ![t] = c]
        /\ UNCHANGED <<pool, held, kind, index, entry>>
    BY DEF AllocTest, Enter, poolvars
  <1>2. c # None
    BY StreamTableAssumption
  <1>3. IInv'
    BY <1>1 DEF SInv, IInv, PoolTypeOK, Unique, Partition, Accounted, Keeping
  <1>4. TableTypeOK'
    BY <1>1 DEF SInv, TableTypeOK, Entries
  <1>5. CallInv'
    BY <1>1, <1>2 DEF SInv, TableTypeOK, CallInv
  <1>6. EntryInv'
    BY <1>1 DEF SInv, TableTypeOK, EntryInv, Place, Index
  <1>7. RoomInv'
    <2> SUFFICES ASSUME kind \in TableKinds
                 PROVE  RoomInv'
      BY <1>1 DEF RoomInv
    <2>1. pool.active + Cardinality(Allocating) < Max
      <3>1. pool.active \in Nat /\ pool.next_value \in Nat /\ pool.active <= pool.next_value
        BY DEF SInv, IInv, PoolTypeOK, Accounted
      <3>2. CASE Allocating = {}
        <4>1. pool.active # Max
          BY DEF AllocTest, HasRoom, TableKinds, HeapKinds
        <4>2. Cardinality(Allocating) = 0
          BY <3>2, FS_EmptySet
        <4> QED BY <3>1, <4>1, <4>2, StreamTableAssumption DEF SInv, RoomInv
      <3>3. CASE Allocating # {}
        <4>1. ~ (pool.active + Cardinality(Allocating) >= Max)
          BY <3>3 DEF AllocTest, SpokenFor
        <4> QED BY <3>1, <4>1, AllocatingFinite, StreamTableAssumption
      <3> QED BY <3>2, <3>3
    <2>2. pool'.active + Cardinality(Allocating)' <= Max
      <3>1. Cardinality(Allocating)' = Cardinality(Allocating) + 1
        BY <1>1, AllocatingGrows DEF SInv
      <3>2. pool'.active = pool.active /\ pool.active \in Nat
        BY <1>1 DEF SInv, IInv, PoolTypeOK
      <3> QED BY <2>1, <3>1, <3>2, AllocatingFinite, StreamTableAssumption
    <2>3. \A u \in Threads : call'[u] = "free" => \A d \in Callers : held'[d] # entry'[site'[u]]
      BY <1>1 DEF SInv, TableTypeOK, RoomInv
    <2> QED BY <1>1, <2>2, <2>3 DEF SInv, RoomInv
  <1> QED BY <1>3, <1>4, <1>5, <1>6, <1>7 DEF SInv

\* The step of guac_pool_next_int is a step of a caller of the pool.
LEMMA AllocTakes ==
    ASSUME SInv, NEW t \in Threads, AllocTake(t)
    PROVE  site[t] \in Callers /\ entry[site[t]] = None /\ Take(site[t])
  <1>1. site[t] \in Callers /\ entry[site[t]] = None
    BY DEF AllocTake, SInv, TableTypeOK, CallInv
  <1>2. held[site[t]] = None
    BY <1>1 DEF SInv, EntryInv
  <1> QED BY <1>1, <1>2 DEF AllocTake, Take

\* What is taken is below the limit, and not an entry that is being closed.
LEMMA AllocTakeStep ==
    ASSUME SInv, Sound, ~ raced', NEW t \in Threads, AllocTake(t)
    PROVE  SInv'
  <1> DEFINE n == P!PoolNextInt(pool)
             c == site[t]
  <1>1. c \in Callers /\ entry[c] = None /\ Take(c)
    BY AllocTakes
  <1>2. /\ call[t] = "alloc"
        /\ index' = [index EXCEPT ![Place(c, n)] = Index(n)]
        /\ entry' = [entry EXCEPT ![c] = n]
        /\ held' = [held EXCEPT ![c] = n]
        /\ pool' = P!PoolTaken(pool)
        /\ call' = [call EXCEPT ![t] = "none"]
        /\ site' = [site EXCEPT ![t] = None]
        /\ kind' = kind
    BY DEF AllocTake, Leave
  <1>3. /\ n \in Nat /\ n # None
        /\ \A d \in Callers : held[d] # n
        /\ pool'.next_value >= pool.next_value
        /\ n < pool'.next_value
    BY <1>2, NextIntNew, PoolAssumption DEF SInv
  <1>4. IInv'
    BY <1>1, TakeNew, TakeOld DEF SInv
  <1>5. pool.next_value \in Nat /\ pool'.next_value \in Nat /\ pool.active \in Nat
    BY <1>4 DEF SInv, IInv, PoolTypeOK
  <1>6. kind \in TableKinds => pool'.min_size = 0 /\ pool'.next_value <= Max
    <2> SUFFICES ASSUME kind \in TableKinds
                 PROVE  pool'.min_size = 0 /\ pool'.next_value <= Max
      OBVIOUS
    <2>1. pool.min_size = 0 /\ pool.active < Max /\ pool.next_value <= Max
      <3>1. Cardinality(Allocating) > 0 /\ Cardinality(Allocating) \in Nat
        BY <1>2, AllocatingShrinks, AllocatingFinite DEF SInv
      <3>2. /\ pool.min_size = 0 /\ pool.next_value <= Max
            /\ pool.active + Cardinality(Allocating) <= Max
        BY DEF SInv, RoomInv
      <3> QED BY <1>5, <3>1, <3>2, StreamTableAssumption
    <2>2. CASE P!PoolMakesNew(pool)
      <3>1. pool.ints = <<>>
        BY <1>5, <2>1, <2>2 DEF P!PoolMakesNew
      <3>2. pool.active = pool.next_value
        BY <1>5, <3>1 DEF SInv, IInv, Accounted
      <3> QED BY <1>2, <1>5, <2>1, <2>2, <3>2, StreamTableAssumption DEF P!PoolTaken, P!GuacPool
    <2>3. CASE ~ P!PoolMakesNew(pool)
      BY <1>2, <2>1, <2>3 DEF P!PoolTaken, P!GuacPool
    <2> QED BY <2>2, <2>3
  <1>7. kind \in TableKinds => n < Max
    BY <1>3, <1>5, <1>6, StreamTableAssumption
  <1>8. Place(c, n) \in Entries \union Callers
    BY <1>1, <1>3, <1>7, PlaceInDomain DEF SInv
  <1>9. Index(n) \in Int
    BY <1>3, IndexReturns DEF SInv, Sound
  <1>10. TableTypeOK'
    BY <1>1, <1>2, <1>3, <1>8, <1>9 DEF SInv, TableTypeOK, Entries
  <1>11. CallInv'
    BY <1>1, <1>2, <1>3, StreamTableAssumption DEF SInv, TableTypeOK, CallInv
  <1>12. EntryInv'
    <2>1. ASSUME NEW d \in Callers, held'[d] # None
          PROVE  held'[d] = entry'[d] /\ index'[Place(d, held'[d])] = Index(held'[d])
      <3>1. CASE d = c
        BY <1>1, <1>2, <1>8, <3>1 DEF SInv, TableTypeOK, IInv, PoolTypeOK
      <3>2. CASE d # c
        <4>1. held'[d] = held[d] /\ entry'[d] = entry[d]
          BY <1>1, <1>2, <3>2 DEF SInv, TableTypeOK, IInv, PoolTypeOK
        <4>2. Place(d, held[d]) # Place(c, n)
          BY <1>3, <3>2 DEF Place
        <4>3. index'[Place(d, held[d])] = index[Place(d, held[d])]
          BY <1>2, <4>2 DEF SInv, TableTypeOK
        <4> QED BY <2>1, <4>1, <4>3 DEF SInv, EntryInv
      <3> QED BY <3>1, <3>2
    <2>2. ASSUME NEW d \in Callers, entry'[d] # None, held'[d] = None
          PROVE  \E u \in Threads : call'[u] = "free" /\ site'[u] = d
      <3>1. d # c /\ entry[d] # None /\ held[d] = None
        BY <1>1, <1>2, <1>3, <2>2 DEF SInv, TableTypeOK, IInv, PoolTypeOK
      <3>2. PICK u \in Threads : call[u] = "free" /\ site[u] = d
        BY <3>1 DEF SInv, EntryInv
      <3>3. u # t
        BY <1>2, <3>2
      <3> QED BY <1>2, <3>2, <3>3 DEF SInv, TableTypeOK
    <2>3. ASSUME NEW d \in Callers, entry'[d] # None
          PROVE  entry'[d] < pool'.next_value
      <3>1. CASE d = c
        BY <1>2, <1>3, <3>1 DEF SInv, TableTypeOK
      <3>2. CASE d # c
        <4>1. entry'[d] = entry[d] /\ entry[d] \in Nat /\ entry[d] < pool.next_value
          BY <1>2, <2>3, <3>2 DEF SInv, TableTypeOK, EntryInv
        <4> QED BY <1>3, <1>5, <4>1
      <3> QED BY <3>1, <3>2
    <2>4. \A d \in Callers : Place(d, held[d])' = Place(d, held'[d])
                               /\ Index(held[d])' = Index(held'[d])
      <3>1. kind' = kind
        BY <1>2
      <3> QED BY <3>1 DEF Place, Index
    <2> QED BY <2>1, <2>2, <2>3, <2>4 DEF EntryInv
  <1>13. RoomInv'
    <2> SUFFICES ASSUME kind \in TableKinds
                 PROVE  RoomInv'
      BY <1>2 DEF RoomInv
    <2>1. ASSUME NEW u \in Threads, call'[u] = "free", NEW d \in Callers
          PROVE  held'[d] # entry'[site'[u]]
      <3>1. u # t /\ call[u] = "free" /\ site'[u] = site[u] /\ site[u] \in Callers
        BY <1>2, <2>1 DEF SInv, TableTypeOK, CallInv
      <3>2. site[u] # c /\ entry'[site[u]] = entry[site[u]]
        BY <1>1, <1>2, <3>1, StreamTableAssumption DEF SInv, TableTypeOK, CallInv
      <3>3. held[d] # entry[site[u]]
        BY <3>1 DEF SInv, RoomInv
      <3>4. n # entry[site[u]]
        BY <3>1 DEF AllocTake, Closing
      <3>5. held'[d] = n \/ held'[d] = held[d]
        BY <1>2 DEF SInv, IInv, PoolTypeOK
      <3> QED BY <3>1, <3>2, <3>3, <3>4, <3>5
    <2>2. pool'.active + Cardinality(Allocating)' <= Max
      <3>1. Cardinality(Allocating)' = Cardinality(Allocating) - 1
        BY <1>2, AllocatingShrinks DEF SInv
      <3>2. pool'.active = pool.active + 1
        BY <1>2 DEF P!PoolTaken, P!GuacPool
      <3>3. pool.active + Cardinality(Allocating) <= Max
        BY DEF SInv, RoomInv
      <3> QED BY <1>5, <3>1, <3>2, <3>3, AllocatingFinite, StreamTableAssumption
    <2> QED BY <1>6, <2>1, <2>2 DEF RoomInv
  <1> QED BY <1>4, <1>10, <1>11, <1>12, <1>13 DEF SInv

\* The step of guac_pool_free_int returns what the caller was given.
LEMMA FreeReturns ==
    ASSUME SInv, Sound, NEW t \in Threads, NEW c \in Callers, FreeReturn(t, c)
    PROVE  entry[c] \in Nat /\ held[c] = entry[c] /\ Return(c)
  <1>1. entry[c] \in Nat
    BY DEF FreeReturn, SInv, TableTypeOK
  <1>2. held[c] # None
    BY DEF FreeReturn, Enter, SInv, EntryInv
  <1>3. held[c] = entry[c] /\ index[Place(c, entry[c])] = Index(entry[c])
    BY <1>2 DEF SInv, EntryInv
  <1>4. PoolInt(index[Place(c, entry[c])]) = held[c]
    BY <1>1, <1>3, IndexReturns DEF SInv, Sound
  <1> QED BY <1>1, <1>2, <1>3, <1>4 DEF FreeReturn, Return

LEMMA FreeReturnStep ==
    ASSUME SInv, Sound, NEW t \in Threads, NEW c \in Callers, FreeReturn(t, c)
    PROVE  SInv'
  <1>1. entry[c] \in Nat /\ held[c] = entry[c] /\ Return(c)
    BY FreeReturns
  <1>2. /\ call[t] = "none" /\ entry[c] # None
        /\ \A u \in Threads : site[u] # c
        /\ call' = [call EXCEPT ![t] = "free"]
        /\ site' = [site EXCEPT ![t] = c]
        /\ held' = [held EXCEPT ![c] = None]
        /\ UNCHANGED <<kind, index, entry>>
    BY DEF FreeReturn, Enter
  <1>3. IInv'
    BY <1>1, ReturnStep DEF SInv
  <1>4. /\ pool'.next_value = pool.next_value
        /\ pool'.min_size = pool.min_size
        /\ pool'.active = pool.active - 1
    BY <1>1 DEF Return, P!PoolReturned, P!GuacPool
  <1>5. c # None
    BY StreamTableAssumption
  <1>6. TableTypeOK'
    BY <1>2 DEF SInv, TableTypeOK, Entries
  <1>7. CallInv'
    BY <1>2, <1>5 DEF SInv, TableTypeOK, CallInv, IInv, PoolTypeOK
  <1>8. EntryInv'
    <2>1. ASSUME NEW d \in Callers, held'[d] # None
          PROVE  held'[d] = held[d] /\ held[d] # None
      BY <1>2, <2>1 DEF SInv, IInv, PoolTypeOK
    <2>2. \A d \in Callers : Place(d, held[d])' = Place(d, held'[d])
                               /\ Index(held[d])' = Index(held'[d])
      BY <1>2 DEF Place, Index
    <2>3. ASSUME NEW d \in Callers, entry[d] # None, held'[d] = None
          PROVE  \E u \in Threads : call'[u] = "free" /\ site'[u] = d
      <3>1. CASE d = c
        BY <1>2, <3>1 DEF SInv, TableTypeOK
      <3>2. CASE d # c
        <4>1. held[d] = None
          BY <1>2, <2>3, <3>2 DEF SInv, IInv, PoolTypeOK
        <4>2. PICK u \in Threads : call[u] = "free" /\ site[u] = d
          BY <2>3, <4>1 DEF SInv, EntryInv
        <4>3. u # t
          BY <1>2, <4>2
        <4> QED BY <1>2, <4>2, <4>3 DEF SInv, TableTypeOK
      <3> QED BY <3>1, <3>2
    <2> QED BY <1>2, <1>4, <2>1, <2>2, <2>3 DEF SInv, EntryInv
  <1>9. RoomInv'
    <2> SUFFICES ASSUME kind \in TableKinds
                 PROVE  RoomInv'
      BY <1>2 DEF RoomInv
    <2>2. call'[t] = "free" /\ site'[t] = c
      BY <1>2 DEF SInv, TableTypeOK
    <2>3. ASSUME NEW d \in Callers
          PROVE  held'[d] # entry[c]
      <3>1. CASE d = c
        BY <1>2, <3>1 DEF SInv, IInv, PoolTypeOK
      <3>2. CASE d # c
        BY <1>1, <1>2, <3>2 DEF SInv, IInv, PoolTypeOK, Unique
      <3> QED BY <3>1, <3>2
    <2>4. ASSUME NEW u \in Threads, u # t, call'[u] = "free", NEW d \in Callers
          PROVE  held'[d] # entry[site'[u]]
      <3>1. call[u] = "free" /\ site'[u] = site[u] /\ site[u] \in Callers
        BY <1>2, <2>4 DEF SInv, TableTypeOK, CallInv
      <3>2. entry[site[u]] \in Nat
        BY <3>1 DEF SInv, TableTypeOK, CallInv
      <3>3. held[d] # entry[site[u]]
        BY <3>1 DEF SInv, RoomInv
      <3>4. held'[d] = None \/ held'[d] = held[d]
        BY <1>2 DEF SInv, IInv, PoolTypeOK
      <3> QED BY <3>1, <3>2, <3>3, <3>4, PoolAssumption
    <2>5. pool'.active + Cardinality(Allocating)' <= Max
      <3>1. Allocating' = Allocating
        BY <1>2, AllocatingKept DEF SInv
      <3>2. pool.active + Cardinality(Allocating) <= Max /\ pool.active \in Nat
        BY DEF SInv, RoomInv, IInv, PoolTypeOK
      <3> QED BY <1>4, <3>1, <3>2, AllocatingFinite, StreamTableAssumption
    <2> QED BY <1>2, <1>4, <2>2, <2>3, <2>4, <2>5 DEF SInv, RoomInv
  <1> QED BY <1>3, <1>6, <1>7, <1>8, <1>9 DEF SInv

\* The entry is closed, or the structure freed.
LEMMA FreeCloseStep ==
    ASSUME SInv, Sound, NEW t \in Threads, FreeClose(t)
    PROVE  SInv'
  <1> DEFINE c == site[t]
             n == entry[c]
  <1>1. /\ call[t] = "free"
        /\ index' = [index EXCEPT ![Place(c, n)] = Closed]
        /\ entry' = [entry EXCEPT ![c] = None]
        /\ call' = [call EXCEPT ![t] = "none"]
        /\ site' = [site EXCEPT ![t] = None]
        /\ UNCHANGED <<pool, held, kind>>
    BY DEF FreeClose, Leave, poolvars
  <1>2. c \in Callers /\ n \in Nat /\ held[c] = None
    BY <1>1 DEF SInv, TableTypeOK, CallInv
  <1>3. IInv'
    BY <1>1 DEF SInv, IInv, PoolTypeOK, Unique, Partition, Accounted, Keeping
  <1>4. TableTypeOK'
    <2>1. Closed \in Int
      BY DEF Closed
    <2> QED BY <1>1, <1>2, <2>1 DEF SInv, TableTypeOK, Entries
  <1>5. CallInv'
    BY <1>1, <1>2 DEF SInv, TableTypeOK, CallInv
  <1>6. EntryInv'
    <2>1. ASSUME NEW d \in Callers, held[d] # None
          PROVE  held[d] = entry'[d] /\ index'[Place(d, held[d])] = Index(held[d])
      <3>1. d # c
        BY <1>2, <2>1
      <3>2. held[d] = entry[d] /\ index[Place(d, held[d])] = Index(held[d])
        BY <2>1 DEF SInv, EntryInv
      <3>3. Place(d, held[d]) # Place(c, n)
        BY <1>1, <3>1 DEF SInv, RoomInv, Place
      <3>4. index'[Place(d, held[d])] = index[Place(d, held[d])]
        BY <1>1, <3>3 DEF SInv, TableTypeOK
      <3> QED BY <1>1, <3>1, <3>2, <3>4 DEF SInv, TableTypeOK
    <2>2. \A d \in Callers : Place(d, held[d])' = Place(d, held[d])
                               /\ Index(held[d])' = Index(held[d])
      BY <1>1 DEF Place, Index
    <2>3. ASSUME NEW d \in Callers, entry'[d] # None
          PROVE  /\ entry[d] # None /\ entry'[d] = entry[d]
                 /\ held[d] = None => \E u \in Threads : call'[u] = "free" /\ site'[u] = d
      <3>1. d # c /\ entry[d] # None /\ entry'[d] = entry[d]
        BY <1>1, <1>2, <2>3 DEF SInv, TableTypeOK
      <3>2. ASSUME held[d] = None
            PROVE  \E u \in Threads : call'[u] = "free" /\ site'[u] = d
        <4>1. PICK u \in Threads : call[u] = "free" /\ site[u] = d
          BY <3>1, <3>2 DEF SInv, EntryInv
        <4>2. u # t
          BY <3>1, <4>1
        <4> QED BY <1>1, <4>1, <4>2 DEF SInv, TableTypeOK
      <3> QED BY <3>1, <3>2
    <2> QED BY <1>1, <2>1, <2>2, <2>3 DEF SInv, EntryInv
  <1>7. RoomInv'
    <2> SUFFICES ASSUME kind \in TableKinds
                 PROVE  RoomInv'
      BY <1>1 DEF RoomInv
    <2>1. ASSUME NEW u \in Threads, call'[u] = "free", NEW d \in Callers
          PROVE  held'[d] # entry'[site'[u]]
      <3>1. u # t /\ call[u] = "free" /\ site'[u] = site[u] /\ site[u] \in Callers
        BY <1>1, <2>1 DEF SInv, TableTypeOK, CallInv
      <3>2. site[u] # c /\ entry'[site[u]] = entry[site[u]]
        BY <1>1, <1>2, <3>1, StreamTableAssumption DEF SInv, TableTypeOK, CallInv
      <3> QED BY <1>1, <3>1, <3>2 DEF SInv, RoomInv
    <2>2. Allocating' = Allocating
      BY <1>1, AllocatingKept DEF SInv
    <2> QED BY <1>1, <2>1, <2>2 DEF SInv, RoomInv
  <1> QED BY <1>3, <1>4, <1>5, <1>6, <1>7 DEF SInv

\* Once calls have met, they have met for good.
LEMMA RacedStays == Next /\ raced => raced'
  <1> SUFFICES ASSUME Next, raced PROVE raced'
    OBVIOUS
  <1>1. ASSUME NEW t \in Threads, NEW c \in Callers,
               AllocTest(t, c) \/ AllocRefused(t, c) \/ FreeReturn(t, c)
        PROVE  raced'
    BY <1>1 DEF AllocTest, AllocRefused, FreeReturn, vars
  <1>2. ASSUME NEW t \in Threads, AllocTake(t) \/ FreeClose(t)
        PROVE  raced'
    BY <1>2 DEF AllocTake, FreeClose
  <1> QED BY <1>1, <1>2 DEF Next

\* A step is one of the pool's callers or leaves the pool alone.
LEMMA NextIsPoolNext == Sound /\ SInv /\ [Next]_vars => [PoolNext]_poolvars
  <1> SUFFICES ASSUME Sound, SInv, [Next]_vars PROVE [PoolNext]_poolvars
    OBVIOUS
  <1>1. CASE UNCHANGED vars
    BY <1>1 DEF vars, poolvars
  <1>2. ASSUME NEW t \in Threads, NEW c \in Callers, AllocTest(t, c) \/ AllocRefused(t, c)
        PROVE  UNCHANGED poolvars
    BY <1>2 DEF AllocTest, AllocRefused, vars, poolvars
  <1>3. ASSUME NEW t \in Threads, AllocTake(t)
        PROVE  PoolNext
    BY <1>3, AllocTakes DEF PoolNext
  <1>4. ASSUME NEW t \in Threads, NEW c \in Callers, FreeReturn(t, c)
        PROVE  PoolNext
    BY <1>4, FreeReturns DEF PoolNext
  <1>5. ASSUME NEW t \in Threads, FreeClose(t)
        PROVE  UNCHANGED poolvars
    BY <1>5 DEF FreeClose, poolvars
  <1> QED BY <1>1, <1>2, <1>3, <1>4, <1>5 DEF Next

\* A step after which calls have not met keeps the invariant.
LEMMA NextSInv == Sound /\ SInvUntilRace /\ [Next]_vars => SInvUntilRace'
  <1> SUFFICES ASSUME Sound, SInvUntilRace, [Next]_vars, ~ raced' PROVE SInv'
    BY DEF SInvUntilRace
  <1>0. SInv
    BY RacedStays DEF SInvUntilRace, vars
  <1>1. CASE UNCHANGED vars
    <2>1. UNCHANGED <<pool, held, kind, index, entry, call, site>>
      BY <1>1 DEF vars, poolvars
    <2>2. IInv'
      BY <1>0, <2>1 DEF SInv, IInv, PoolTypeOK, Unique, Partition, Accounted, Keeping
    <2>3. TableTypeOK' /\ CallInv' /\ RoomInv'
      BY <1>0, <2>1 DEF SInv, TableTypeOK, Entries, CallInv, RoomInv, Allocating
    <2>4. EntryInv'
      BY <1>0, <2>1 DEF SInv, EntryInv, Place, Index
    <2> QED BY <2>1, <2>2, <2>3, <2>4 DEF SInv
  <1>2. ASSUME NEW t \in Threads, NEW c \in Callers, AllocTest(t, c)
        PROVE  SInv'
    BY <1>0, <1>2, AllocTestStep
  <1>3. ASSUME NEW t \in Threads, NEW c \in Callers, AllocRefused(t, c)
        PROVE  UNCHANGED vars
    BY <1>3 DEF AllocRefused
  <1>4. ASSUME NEW t \in Threads, AllocTake(t)
        PROVE  SInv'
    BY <1>0, <1>4, AllocTakeStep
  <1>5. ASSUME NEW t \in Threads, NEW c \in Callers, FreeReturn(t, c)
        PROVE  SInv'
    BY <1>0, <1>5, FreeReturnStep
  <1>6. ASSUME NEW t \in Threads, FreeClose(t)
        PROVE  SInv'
    BY <1>0, <1>6, FreeCloseStep
  <1> QED BY <1>1, <1>2, <1>3, <1>4, <1>5, <1>6 DEF Next

LEMMA SInvHolds == ASSUME Sound PROVE Spec => []SInvUntilRace
  <1>1. Init => SInvUntilRace
    BY InitSInv DEF SInvUntilRace
  <1>2. SInvUntilRace /\ [Next]_vars => SInvUntilRace'
    BY NextSInv
  <1> QED BY <1>1, <1>2, PTL DEF Spec

-----------------------------------------------------------------------------
(* The calls of client.c and user.c take and return integers as the callers *)
(* of Pool do, each step one of theirs or none, in any number of threads    *)
(* until two of them meet outside the lock (client.c:103, client.c:124).    *)
THEOREM TableImplementsPool == ASSUME Sound PROVE Spec => ImplementsPool
  <1>1. Init => PoolInit
    BY DEF Init
  <1>2. SInvUntilRace /\ [Next]_vars => [raced \/ PoolNext]_poolvars
    BY NextIsPoolNext DEF SInvUntilRace
  <1> QED BY <1>1, <1>2, SInvHolds, PTL DEF Spec, ImplementsPool

(* So until then the number "active" that the calls compare with their      *)
(* limit is the number of integers in use, and none of these is given out a *)
(* second time.                                                             *)
THEOREM TableAccounted ==
    ASSUME Sound PROVE Spec => [](UniqueUntilRace /\ (~ raced => Accounted))
  <1>1. SInvUntilRace => UniqueUntilRace /\ (~ raced => Accounted)
    BY DEF SInvUntilRace, UniqueUntilRace, SInv, IInv
  <1> QED BY <1>1, SInvHolds, PTL

(* What is in use has the index it was given, and nothing else in use has   *)
(* it, from guac_client_alloc_stream to guac_client_free_stream.            *)
THEOREM IndexOwned == ASSUME Sound PROVE Spec => []OwnIndex
  <1>1. SInvUntilRace => OwnIndex
    <2> SUFFICES ASSUME SInv, NEW c \in Callers, Using(c)
                 PROVE  /\ index[Place(c, entry[c])] = Index(entry[c])
                        /\ \A d \in Callers \ {c} : Using(d) => Index(entry[d]) # Index(entry[c])
      BY DEF OwnIndex, SInvUntilRace
    <2>1. \A d \in Callers : Using(d) => held[d] # None /\ held[d] = entry[d] /\ entry[d] \in Nat
      BY DEF Using, SInv, EntryInv, TableTypeOK
    <2>2. index[Place(c, entry[c])] = Index(entry[c])
      BY <2>1 DEF SInv, EntryInv
    <2>3. ASSUME NEW d \in Callers \ {c}, Using(d)
          PROVE  Index(entry[d]) # Index(entry[c])
      <3>1. entry[d] # entry[c]
        BY <2>1, <2>3 DEF SInv, IInv, Unique
      <3> QED BY <2>1, <2>3, <3>1, IndexInjective DEF SInv, Sound
    <2> QED BY <2>2, <2>3
  <1> QED BY <1>1, SInvHolds, PTL

(* Nothing outside the table is given out, in whatever order its entries    *)
(* are freed and however many threads allocate at a time, as long as each   *)
(* that the test against the limit lets past finds an entry that nobody     *)
(* else past it needs: the pool then has an integer below the limit left,   *)
(* since it makes new ones only when all are in use.                        *)
THEOREM TableRespected == ASSUME Sound PROVE Spec => []WithinTable
  <1>1. SInvUntilRace => WithinTable
    <2> SUFFICES ASSUME SInv, kind \in TableKinds, NEW c \in Callers, entry[c] # None
                 PROVE  entry[c] \in 0..(Max - 1)
      BY DEF WithinTable, SInvUntilRace
    <2>1. /\ entry[c] \in Nat /\ entry[c] < pool.next_value
          /\ pool.next_value \in Nat /\ pool.next_value <= Max
      BY DEF SInv, TableTypeOK, EntryInv, RoomInv, IInv, PoolTypeOK
    <2> QED BY <2>1, StreamTableAssumption
  <1> QED BY <1>1, SInvHolds, PTL

=============================================================================
