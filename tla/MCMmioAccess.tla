---------------------------- MODULE MCMmioAccess ----------------------------
EXTENDS MmioAccess

\* A global area of two pages and a per-PASID area of one, of four bytes each.
AreaLengths == [type \in MmioTypes |-> IF type = "global" THEN 8 ELSE 4]

\* One value of each width, all of whose bytes are different.
SomeValues == {<<1, 2, 3, 4>>, <<5, 6, 7, 8, 9, 10, 11, 12>>}

\* The rest of the area, less than an access, all of the global area, and a size
\* that wraps around with every offset of a page or more.
SomeSizes == {0, 3, 8, 2 * HALF - 4}

=============================================================================
