------------------------------ MODULE GrowBuffer ------------------------------
(***************************************************************************)
(* grow_buffer() of internal.c: the geometric growth shared by the IRQ     *)
(* table and the MMIO table of an AFU.  The caller's element count is a    *)
(* uint16_t; the new size is computed as a size_t, so the block that       *)
(* realloc() returns can hold more elements than the count remembers.      *)
(***************************************************************************)
EXTENDS Integers

CONSTANT UINT16_RANGE     \* 65536: the number of values of a uint16_t

ASSUME RangeAssumption == UINT16_RANGE \in Nat \ {0, 1}

\* The narrowing conversion of an assignment to a uint16_t.
ToUint16(n) == n % UINT16_RANGE

\* Mutant of new_count: the table does not grow beyond its first size.
new_count_initial(count, initial_count) == initial_count

\* The number of elements realloc() is asked for.
new_count(count, initial_count) ==
  IF count > 0 THEN 2 * count ELSE initial_count

===============================================================================
