------------------------------- MODULE IntPool -------------------------------
(***************************************************************************)
(* The operations of a guac_pool (libguac/pool.c) as functions of the      *)
(* structure they update.  A pool is the record of the fields of struct    *)
(* guac_pool; the singly linked list between __head and __tail is the      *)
(* sequence "ints", its head first.  Each operation holds __lock from its  *)
(* first to its last access of the structure, so it is one step.           *)
(***************************************************************************)
LOCAL INSTANCE Integers
LOCAL INSTANCE Sequences

GuacPool(size, active, next, ints) ==
    [min_size |-> size, active |-> active, next_value |-> next, ints |-> ints]

\* guac_pool_alloc: an empty pool.
PoolAlloc(size) == GuacPool(size, 0, 0, <<>>)

\* Mutant: one integer too many is made before freed ones are reused.
PoolMakesNewOnePast(p) == p.ints = <<>> \/ p.next_value <= p.min_size

\* The test of guac_pool_next_int for handing out an integer never used before.
PoolMakesNew(p) == p.ints = <<>> \/ p.next_value < p.min_size

\* The integer guac_pool_next_int returns.
PoolNextInt(p) == IF PoolMakesNew(p) THEN p.next_value ELSE Head(p.ints)

\* Mutant: the integer that is reused is not unlinked from the list.
PoolTakenKeepsHead(p) ==
    IF PoolMakesNew(p)
    THEN GuacPool(p.min_size, p.active + 1, p.next_value + 1, p.ints)
    ELSE GuacPool(p.min_size, p.active + 1, p.next_value, p.ints)

\* Mutant: an integer that is reused is not counted as active.
PoolTakenUncounted(p) ==
    IF PoolMakesNew(p)
    THEN GuacPool(p.min_size, p.active + 1, p.next_value + 1, p.ints)
    ELSE GuacPool(p.min_size, p.active, p.next_value, Tail(p.ints))

\* The pool guac_pool_next_int leaves behind.
PoolTaken(p) ==
    IF PoolMakesNew(p)
    THEN GuacPool(p.min_size, p.active + 1, p.next_value + 1, p.ints)
    ELSE GuacPool(p.min_size, p.active + 1, p.next_value, Tail(p.ints))

\* Mutant: a returned integer still counts as active.
PoolReturnedKeepsActive(p, value) ==
    GuacPool(p.min_size, p.active, p.next_value, Append(p.ints, value))

\* The pool guac_pool_free_int leaves behind.
PoolReturned(p, value) ==
    GuacPool(p.min_size, p.active - 1, p.next_value, Append(p.ints, value))

=============================================================================
