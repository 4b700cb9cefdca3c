----------------------------- MODULE StreamTable -----------------------------
(***************************************************************************)
(* The indices libguac gives out through a guac_pool: the layers, buffers  *)
(* and output streams of a guac_client (client.c:57-129), the output       *)
(* streams and the objects of a guac_user (user.c:103-168).  They are the  *)
(* same code with another index on the wire.  Streams and objects are      *)
(* entries of a table of fixed size; layers and buffers are allocated one  *)
(* by one and have no limit.  A caller of the pool is a place in the       *)
(* program that keeps one of them.                                         *)
(*                                                                         *)
(* Each thread runs one call at a time.  The limit is tested and the entry *)
(* is closed outside the lock of the pool, so both calls take two steps,   *)
(* and "raced" says that they met there: two threads were let past the     *)
(* limit for one entry, or one took an entry that another had still to     *)
(* mark as closed.                                                         *)
(***************************************************************************)
EXTENDS Pool

CONSTANTS Threads,  \* the threads of the process
          Kinds,    \* the kinds of index looked at
          Max       \* GUAC_CLIENT_MAX_STREAMS, GUAC_USER_MAX_STREAMS, ..._OBJECTS

TableKinds == {"client stream", "user stream", "object"}
HeapKinds  == {"buffer", "layer"}

ASSUME StreamTableAssumption ==
    /\ Kinds \subseteq TableKinds \union HeapKinds
    /\ Max \in Nat /\ IsFiniteSet(Threads)
    /\ None \notin Int \union Callers

VARIABLES kind,   \* the kind of index this pool is for
          index,  \* the field index of every entry of the table, or of the
                  \* structure caller c allocated
          entry,  \* entry[c]: the integer c's stream was made from, or None
          call,   \* call[t]: the call thread t is in
          site,   \* site[t]: the caller it runs that call for
          raced   \* history: calls met where they hold no lock

vars == <<poolvars, kind, index, entry, call, site, raced>>

Closed == -1      \* GUAC_CLIENT_CLOSED_STREAM_INDEX and its like

\* Division of C, towards zero.
Quotient(i, k) == IF i < 0 THEN -((-i) \div k) ELSE i \div k

\* The index on the wire made from an integer of the pool.
Index(n) ==
    CASE kind = "client stream" -> 2 * n + 1
      [] kind = "user stream"   -> 2 * n
      [] kind = "object"        -> n
      [] kind = "buffer"        -> -n - 1
      [] kind = "layer"         -> n + 1

\* Mutant: an index is returned to the pool as it is on the wire.
PoolIntIsIndex(i) == i

\* The integer that is returned to the pool for an index.  That of a layer is
\* not the one it was made from.
PoolInt(i) ==
    CASE kind = "client stream" -> Quotient(i - 1, 2)
      [] kind = "user stream"   -> Quotient(i, 2)
      [] kind = "object"        -> i
      [] kind = "buffer"        -> -i - 1
      [] kind = "layer"         -> i

\* The entries looked at: those of the table, the one before it and those
\* after it that racing threads can be given.
Entries == -1..(Max + Cardinality(Callers))

\* Where the field index of the stream made from n for caller c is.
Place(c, n) == IF kind \in TableKinds THEN n ELSE c

\* guac_client_alloc and guac_user_alloc, the part about pools and tables
Init ==
    /\ kind \in Kinds
    /\ PoolInit /\ (kind \in TableKinds <=> pool.min_size = 0)
    /\ index = [n \in Entries \union Callers |-> Closed]
    /\ entry = [c \in Callers |-> None]
    /\ call = [t \in Threads |-> "none"]
    /\ site = [t \in Threads |-> None]
    /\ raced = FALSE

Enter(t, c, name) ==
    /\ call[t] = "none"
    /\ \A u \in Threads : site[u] # c
    /\ call' = [call EXCEPT ![t] = name]
    /\ site' = [site EXCEPT ![t] = c]

Leave(t) ==
    /\ call' = [call EXCEPT ![t] = "none"]
    /\ site' = [site EXCEPT ![t] = None]

\* Mutant: the test against the limit is off by one.
HasRoomLate == kind \in HeapKinds \/ pool.active # Max + 1

\* The test against the limit, which only the tables have.
HasRoom == kind \in HeapKinds \/ pool.active # Max

\* The threads that are past the test and have no entry yet, and whether there are
\* such threads and no entry beyond theirs.
Allocating == {t \in Threads : call[t] = "alloc"}
SpokenFor == Allocating # {} /\ pool.active + Cardinality(Allocating) >= Max

\* Entry n is back in the pool, but still to be marked as closed.
Closing(n) == \E t \in Threads : call[t] = "free" /\ entry[site[t]] = n

\* alloc: the limit is not reached
AllocTest(t, c) ==
    /\ entry[c] = None
    /\ HasRoom
    /\ Enter(t, c, "alloc")
    /\ raced' = (raced \/ (kind \in TableKinds /\ SpokenFor))
    /\ UNCHANGED <<poolvars, kind, index, entry>>

\* alloc: refused, NULL is returned
AllocRefused(t, c) ==
    /\ call[t] = "none" /\ entry[c] = None
    /\ ~ HasRoom
    /\ UNCHANGED vars

\* alloc: the integer is taken and the entry is initialized
AllocTake(t) ==
    /\ call[t] = "alloc"
    /\ LET n == P!PoolNextInt(pool) IN
         /\ index' = [index EXCEPT ![Place(site[t], n)] = Index(n)]
         /\ entry' = [entry EXCEPT ![site[t]] = n]
         /\ held' = [held EXCEPT ![site[t]] = n]
         /\ raced' = (raced \/ (kind \in TableKinds /\ Closing(n)))
    /\ pool' = P!PoolTaken(pool)
    /\ Leave(t)
    /\ UNCHANGED kind

\* free: the integer the index stands for is returned
FreeReturn(t, c) ==
    /\ entry[c] # None
    /\ Enter(t, c, "free")
    /\ pool' = P!PoolReturned(pool, PoolInt(index[Place(c, entry[c])]))
    /\ held' = [held EXCEPT ![c] = None]
    /\ UNCHANGED <<kind, index, entry, raced>>

\* Mutant: the entry that is closed is the first one of the table.
FreeCloseFirst(t) ==
    /\ call[t] = "free"
    /\ index' = [index EXCEPT ![0] = Closed]
    /\ entry' = [entry EXCEPT ![site[t]] = None]
    /\ Leave(t)
    /\ UNCHANGED <<poolvars, kind, raced>>

\* free: the entry is marked closed, or the structure freed
FreeClose(t) ==
    /\ call[t] = "free"
    /\ index' = [index EXCEPT ![Place(site[t], entry[site[t]])] = Closed]
    /\ entry' = [entry EXCEPT ![site[t]] = None]
    /\ Leave(t)
    /\ UNCHANGED <<poolvars, kind, raced>>

Next ==
    \E t \in Threads :
        \/ \E c \in Callers : AllocTest(t, c) \/ AllocRefused(t, c) \/ FreeReturn(t, c)
        \/ AllocTake(t)
        \/ FreeClose(t)

Spec == Init /\ [][Next]_vars

-----------------------------------------------------------------------------
\* A caller uses its stream from the return of alloc to its call of free.
Using(c) == entry[c] # None /\ \A t \in Threads : site[t] # c

(* Until calls have raced, a stream, object or buffer in use still has the  *)
(* index it was given and no other in use has that index: what is sent on   *)
(* it cannot be taken for another one (guac_client_alloc_stream to          *)
(* guac_client_free_stream).                                                *)
OwnIndex ==
    ~ raced => \A c \in Callers : Using(c) =>
        /\ index[Place(c, entry[c])] = Index(entry[c])
        /\ \A d \in Callers \ {c} : Using(d) => Index(entry[d]) # Index(entry[c])

(* "Refuse to allocate beyond maximum" (client.c:102): no entry outside the *)
(* table is given out, after entries were freed in any order, before two    *)
(* threads passed the test for the same entry, or one of them took an entry *)
(* that the other had returned and not marked yet.                          *)
WithinTable ==
    ~ raced /\ kind \in TableKinds =>
        \A c \in Callers : entry[c] # None => entry[c] \in 0..(Max - 1)

(* Until calls have raced, no integer is with two callers: an index goes    *)
(* back to the pool as the very integer it was made from.                   *)
UniqueUntilRace == ~ raced => Unique

(* Until calls have raced, those of client.c and user.c implement the       *)
(* pool's callers: each step is one guac_pool_next_int, or one              *)
(* guac_pool_free_int of exactly the integer that the caller was given, or  *)
(* leaves the pool alone.                                                   *)
ImplementsPool == PoolInit /\ [][raced \/ PoolNext]_poolvars

\* Where the calls are right: layers return another integer.
Sound == "layer" \notin Kinds

-----------------------------------------------------------------------------
(* The inductive invariant of PoolProofs.                                   *)

TableTypeOK ==
    /\ kind \in Kinds
    /\ index \in [Entries \union Callers -> Int]
    /\ entry \in [Callers -> Nat \union {None}]
    /\ call \in [Threads -> {"none", "alloc", "free"}]
    /\ site \in [Threads -> Callers \union {None}]

\* A thread in a call has a caller to itself, whose entry is as the call needs it.
CallInv ==
    /\ \A t \in Threads : call[t] = "none" <=> site[t] = None
    /\ \A t, u \in Threads : site[t] # None /\ site[t] = site[u] => t = u
    /\ \A t \in Threads : call[t] = "alloc" => entry[site[t]] = None
    /\ \A t \in Threads : call[t] = "free" => entry[site[t]] # None /\ held[site[t]] = None

\* What the pool gave to a caller is the entry of that caller, and has its index;
\* an entry that the pool has back is about to be closed.
EntryInv ==
    /\ \A c \in Callers : held[c] # None =>
          held[c] = entry[c] /\ index[Place(c, held[c])] = Index(held[c])
    /\ \A c \in Callers : entry[c] # None /\ held[c] = None =>
          \E t \in Threads : call[t] = "free" /\ site[t] = c
    /\ \A c \in Callers : entry[c] # None => entry[c] < pool.next_value

\* What a table needs: nobody is given the entry that is being closed, there is an entry
\* for everybody past the test, and the pool makes no integer beyond the table.
RoomInv ==
    kind \in TableKinds =>
        /\ pool.min_size = 0
        /\ \A t \in Threads : call[t] = "free" => \A c \in Callers : held[c] # entry[site[t]]
        /\ pool.active + Cardinality(Allocating) <= Max
        /\ pool.next_value <= Max

SInv == IInv /\ TableTypeOK /\ CallInv /\ EntryInv /\ RoomInv
SInvUntilRace == ~ raced => SInv

=============================================================================
