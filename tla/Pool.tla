-------------------------------- MODULE Pool --------------------------------
(***************************************************************************)
(* One guac_pool shared by callers that take an integer, use it and give   *)
(* it back (libguac/pool.c).  A caller is a place in the program that      *)
(* keeps at most one integer of the pool at a time.                        *)
(***************************************************************************)
EXTENDS Integers, Sequences, FiniteSets

CONSTANTS Callers,   \* the places that may keep an integer
          MinSizes,  \* the arguments of guac_pool_alloc
          None       \* a caller keeps no integer

ASSUME PoolAssumption ==
    MinSizes \subseteq Nat /\ None \notin Nat /\ IsFiniteSet(Callers)

VARIABLES pool,      \* the struct guac_pool
          held       \* held[c]: the integer caller c keeps, or None

poolvars == <<pool, held>>

P == INSTANCE IntPool

PoolTypeOK ==
    /\ pool \in [min_size : MinSizes, active : Nat, next_value : Nat, ints : Seq(Nat)]
    /\ held \in [Callers -> Nat \union {None}]

PoolInit ==
    /\ \E size \in MinSizes : pool = P!PoolAlloc(size)
    /\ held = [c \in Callers |-> None]

\* guac_pool_next_int
Take(c) ==
    /\ held[c] = None
    /\ held' = [held EXCEPT ![c] = P!PoolNextInt(pool)]
    /\ pool' = P!PoolTaken(pool)

\* guac_pool_free_int, by a caller that gives back what it was given
Return(c) ==
    /\ held[c] # None
    /\ pool' = P!PoolReturned(pool, held[c])
    /\ held' = [held EXCEPT ![c] = None]

PoolNext == \E c \in Callers : Take(c) \/ Return(c)

PoolSpec == PoolInit /\ [][PoolNext]_poolvars

-----------------------------------------------------------------------------
Keeping == {c \in Callers : held[c] # None}

(* No two callers keep the same integer: guac_pool_next_int never gives out *)
(* an integer that was not returned, whatever was freed in which order.     *)
Unique ==
    \A c, d \in Callers : held[c] # None /\ held[c] = held[d] => c = d

(* Every integer below __next_value is either with one caller or once in   *)
(* the list of freed integers: none is lost and none is listed twice.      *)
Partition ==
    /\ \A c \in Callers : held[c] # None => held[c] < pool.next_value
    /\ \A i \in 1..Len(pool.ints) :
          /\ pool.ints[i] < pool.next_value
          /\ \A c \in Callers : held[c] # pool.ints[i]
    /\ \A i, j \in 1..Len(pool.ints) : pool.ints[i] = pool.ints[j] => i = j

(* "active" is the number of integers in use, which other code compares    *)
(* with its own limit (client.c:103), and with the freed ones it accounts  *)
(* for every integer made so far.                                          *)
Accounted ==
    /\ pool.active = Cardinality(Keeping)
    /\ pool.active + Len(pool.ints) = pool.next_value

(* Past min_size the pool makes a new integer only when all the ones it    *)
(* made are in use, so it never grows beyond max(min_size, peak use).      *)
GrowsOnlyWhenExhausted ==
    [][ pool'.next_value # pool.next_value /\ pool.next_value >= pool.min_size
          => pool.active = pool.next_value ]_poolvars

IInv == PoolTypeOK /\ Unique /\ Partition /\ Accounted

=============================================================================
