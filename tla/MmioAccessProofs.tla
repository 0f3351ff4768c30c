--------------------------- MODULE MmioAccessProofs ---------------------------
(***************************************************************************)
(* What MmioAccess promises for areas of any length, requests of any size  *)
(* and offset, and integers of any width.  The one fact the proof rests on *)
(* is that a result of size_t arithmetic is the mathematical one unless it *)
(* is negative, or mmap() would have refused the request anyway.           *)
(***************************************************************************)
EXTENDS MmioAccess, TLAPS

\* The inductive invariant: the shape of the table's slots and RegionsInArea.
RegionType ==
  mmios \in [Slots -> [start : BOOLEAN, base : Offsets, length : Sizes, type : MmioTypes]]

IInv == RegionType /\ RegionsInArea

\* size_t() of a number that is in the range of a size_t.
LEMMA InRange ==
  ASSUME NEW n \in Int, 0 <= n, n < 2 * HALF
  PROVE  size_t(n) = n
  BY MmioAssumption, SMTT(30), Z3T(30) DEF size_t

\* size_t() of a small negative number wraps around once.
LEMMA Wrapped ==
  ASSUME NEW n \in Int, -HALF <= n, n < 0
  PROVE  size_t(n) = n + 2 * HALF
<1> DEFINE m == 2 * HALF
           q == n \div m
           r == n % m
<1>1. m \in Int /\ m > 0
  BY MmioAssumption, SMTT(30), Z3T(30)
<1>2. q \in Int /\ r \in Int /\ n = m * q + r /\ 0 <= r /\ r < m
  <2> HIDE DEF m
  <2> QED BY <1>1, SMTT(30), Z3T(30)
<1>3. -m <= n /\ n < 0
  BY MmioAssumption, SMTT(30), Z3T(30)
<1>4. q = -1
  <2> HIDE DEF m, q, r
  <2> QED BY <1>1, <1>2, <1>3, SMTT(30), Z3T(30)
<1>5. r = n + m
  <2> HIDE DEF m, q, r
  <2> QED BY <1>1, <1>2, <1>4, SMTT(30), Z3T(30)
<1> QED
  BY <1>5, SMTT(30), Z3T(30) DEF size_t

\* A request that passes the check of ocxl_mmio_map_advanced() and that mmap()
\* accepts lies within the area.
LEMMA AcceptedFits ==
  ASSUME NEW type \in MmioTypes, NEW size \in Sizes, NEW offset \in Offsets,
         MapFits(type, size, offset), Mmap(size, offset)
  PROVE  offset >= 0 /\ size > 0 /\ offset + size <= Length[type]
<1>1. offset \in Int /\ size \in Int /\ offset >= 0 /\ size > 0 /\ offset + size < HALF
  BY MmioAssumption, SMTT(30), Z3T(30) DEF Mmap, Offsets, Sizes
<1>2. size_t(offset + size) = offset + size
  BY <1>1, MmioAssumption, InRange, SMTT(30), Z3T(30)
<1> QED
  BY <1>1, <1>2, SMTT(30), Z3T(30) DEF MapFits

\* The size that is mapped, however the request wraps around, is a size.
LEMMA MapSizeType ==
  ASSUME NEW type \in MmioTypes, NEW size \in Requests, NEW offset \in Offsets
  PROVE  MapSize(type, size, offset) \in Sizes
<1>1. size \in Sizes
  BY MmioAssumption, SMTT(30), Z3T(30) DEF Sizes
<1>2. ASSUME size = 0 PROVE size_t(Length[type] - offset) \in Sizes
  <2> DEFINE n == Length[type] - offset
             m == 2 * HALF
  <2>1. n \in Int /\ m \in Int /\ m > 0
    BY MmioAssumption, SMTT(30), Z3T(30) DEF Offsets
  <2>2. n % m \in Int /\ 0 <= n % m /\ n % m < m
    <3> HIDE DEF n, m
    <3> QED BY <2>1, SMTT(30), Z3T(30)
  <2> QED
    BY <2>1, <2>2, SMTT(30), Z3T(30) DEF size_t, Sizes
<1> QED
  BY <1>1, <1>2, SMTT(30), Z3T(30) DEF MapSize

\* ocxl_mmio_map_advanced() and ocxl_mmio_unmap(), the calls that write the table.
LEMMA MapStep ==
  ASSUME IInv, NEW type \in MmioTypes, NEW size \in Requests, NEW offset \in Offsets,
         NEW moved \in BOOLEAN, ocxl_mmio_map_advanced(type, size, offset, moved)
  PROVE  IInv'
<1> DEFINE bytes == MapSize(type, size, offset)
           region == [start |-> TRUE, base |-> offset, length |-> bytes, type |-> type]
<1>1. bytes \in Sizes
  BY MapSizeType, SMTT(30), Z3T(30)
<1>2. MapFits(type, bytes, offset) /\ Mmap(bytes, offset)
  BY SMTT(30), Z3T(30) DEF ocxl_mmio_map_advanced
<1>3. offset >= 0 /\ bytes > 0 /\ offset + bytes <= Length[type]
  <2> HIDE DEF bytes
  <2> QED BY <1>1, <1>2, AcceptedFits, SMTT(30), Z3T(30)
<1>4. PICK i \in Slots : mmios' = [mmios EXCEPT ![i] = region]
  BY Zenon DEF ocxl_mmio_map_advanced, register_mmio
<1> HIDE DEF bytes
<1>5. region \in [start : BOOLEAN, base : Offsets, length : Sizes, type : MmioTypes]
  BY <1>1, SMTT(30), Z3T(30)
<1>6. RegionType'
  <2> HIDE DEF region
  <2> QED BY <1>4, <1>5, SMTT(30), Z3T(30) DEF IInv, RegionType
<1>7. RegionsInArea'
  <2> SUFFICES ASSUME NEW j \in Slots, mmios'[j].start
               PROVE  /\ mmios'[j].base >= 0 /\ mmios'[j].length > 0
                      /\ mmios'[j].base + mmios'[j].length <= Length[mmios'[j].type]
    BY SMTT(30), Z3T(30) DEF RegionsInArea
  <2>1. CASE j = i
    <3>1. mmios'[j] = region
      BY <1>4, <2>1, SMTT(30), Z3T(30) DEF IInv, RegionType
    <3> QED BY <1>3, <3>1, SMTT(30), Z3T(30)
  <2>2. CASE j # i
    <3>1. mmios'[j] = mmios[j]
      BY <1>4, <2>2, SMTT(30), Z3T(30) DEF IInv, RegionType
    <3> QED BY <3>1, SMTT(30), Z3T(30) DEF IInv, RegionsInArea
  <2> QED BY <2>1, <2>2, SMTT(30), Z3T(30)
<1> QED
  BY <1>6, <1>7, SMTT(30), Z3T(30) DEF IInv

\* ocxl_mmio_unmap() keeps the regions inside their areas.
LEMMA UnmapStep ==
  ASSUME IInv, NEW h, ocxl_mmio_unmap(h)
  PROVE  IInv'
<1>1. CASE mmios' = mmios
  BY <1>1, SMTT(30), Z3T(30) DEF IInv, RegionType, RegionsInArea
<1>2. CASE mmios' = [mmios EXCEPT ![h.slot].start = FALSE]
  <2>1. PICK k : k = h.slot
    OBVIOUS
  <2>2. mmios' = [mmios EXCEPT ![k].start = FALSE]
    BY <1>2, <2>1, SMTT(30), Z3T(30)
  <2>3. RegionType'
    BY <2>2, Zenon DEF IInv, RegionType
  <2>4. \A i \in Slots : mmios'[i].start => mmios'[i] = mmios[i]
    BY <2>2, Zenon DEF IInv, RegionType
  <2> QED
    BY <2>3, <2>4, SMTT(30), Z3T(30) DEF IInv, RegionsInArea
<1> QED
  BY <1>1, <1>2, SMTT(30), Z3T(30) DEF ocxl_mmio_unmap

\* The inductive invariant holds: only ocxl_mmio_map_advanced() and
\* ocxl_mmio_unmap() write the slots, and both keep them within their areas.
THEOREM Invariant == Spec => []IInv
<1>1. Init => IInv
  BY MmioAssumption, SMTT(30), Z3T(30) DEF Init, IInv, RegionType, RegionsInArea, NoRegion, Offsets, Sizes, MmioTypes
<1>2. IInv /\ [Next]_vars => IInv'
  <2> SUFFICES ASSUME IInv, [Next]_vars PROVE IInv'
    OBVIOUS
  <2>1. CASE UNCHANGED mmios
    BY <2>1, SMTT(30), Z3T(30) DEF IInv, RegionType, RegionsInArea
  <2>2. CASE \E type \in MmioTypes, size \in Requests, offset \in Offsets, moved \in BOOLEAN :
               ocxl_mmio_map_advanced(type, size, offset, moved)
    BY <2>2, MapStep, SMTT(30), Z3T(30)
  <2>3. CASE \E h \in handles : ocxl_mmio_unmap(h)
    BY <2>3, UnmapStep, SMTT(30), Z3T(30)
  <2> QED
    BY <2>1, <2>2, <2>3, SMTT(30), Z3T(30) DEF Next, vars, tableVars, ocxl_afu_attach, ocxl_mmio_write
<1> QED
  BY <1>1, <1>2, PTL DEF Spec

\* No request makes ocxl_mmio_map_advanced() map what is outside the area, for
\* areas of every length and integers of every width.
THEOREM MappedWithinTheArea == Spec => []RegionsInArea
<1>1. IInv => RegionsInArea
  BY SMTT(30), Z3T(30) DEF IInv
<1> QED
  BY <1>1, Invariant, PTL

\* On every region that can be mapped, mmio_check() refuses an access, at any
\* offset an off_t can hold, exactly when it reaches past the end of the region.
THEOREM AccessesAreChecked == Spec => []AccessesEndInRegion
<1>1. ASSUME IInv PROVE AccessesEndInRegion
  <2> SUFFICES ASSUME NEW i \in Slots, NEW size \in Widths, mmios[i].start, NEW offset \in Offsets
               PROVE  mmio_check(mmios[i], offset, size) <=> offset + size <= mmios[i].length
    BY SMTT(30), Z3T(30) DEF AccessesEndInRegion
  <2> DEFINE n == mmios[i].length
  <2>1. /\ mmios[i].base \in Offsets /\ n \in Sizes /\ mmios[i].type \in MmioTypes
        /\ mmios[i].base >= 0 /\ n > 0 /\ mmios[i].base + n <= Length[mmios[i].type]
    BY <1>1, SMTT(30), Z3T(30) DEF IInv, RegionType, RegionsInArea
  <2>2. n \in Int /\ 0 < n /\ n < HALF
    BY <2>1, MmioAssumption, SMTT(30), Z3T(30) DEF Offsets, Sizes
  <2>3. size \in {4, 8} /\ offset \in Int /\ HALF \in Int /\ HALF > 8
    BY MmioAssumption, SMTT(30), Z3T(30) DEF Widths, Offsets
  <2>4. mmio_check(mmios[i], offset, size) <=> offset < off_t(size_t(n - (size - 1)))
    BY SMTT(30), Z3T(30) DEF mmio_check
  <2> HIDE DEF n
  <2>5. CASE n >= size - 1
    <3>1. size_t(n - (size - 1)) = n - (size - 1)
      BY <2>2, <2>3, <2>5, InRange, SMTT(30), Z3T(30)
    <3>2. off_t(n - (size - 1)) = n - (size - 1)
      BY <2>2, <2>3, <3>1, SMTT(30), Z3T(30) DEF off_t
    <3> QED BY <2>2, <2>3, <2>4, <3>1, <3>2, SMTT(30), Z3T(30) DEF n
  <2>6. CASE n < size - 1
    <3>1. size_t(n - (size - 1)) = n - (size - 1) + 2 * HALF
      BY <2>2, <2>3, <2>6, Wrapped, SMTT(30), Z3T(30)
    <3>2. size_t(n - (size - 1) + 2 * HALF) = n - (size - 1) + 2 * HALF
      BY <2>2, <2>3, <2>6, InRange, SMTT(30), Z3T(30)
    <3>3. off_t(n - (size - 1) + 2 * HALF) = n - (size - 1)
      BY <2>2, <2>3, <2>6, <3>2, SMTT(30), Z3T(30) DEF off_t
    <3> QED BY <2>2, <2>3, <2>4, <2>6, <3>1, <3>3, SMTT(30), Z3T(30) DEF n
  <2> QED BY <2>2, <2>3, <2>5, <2>6, SMTT(30), Z3T(30)
<1> QED
  BY <1>1, Invariant, PTL

-------------------------------------------------------------------------------
(* Handles are pointers into the table.  They stay good as long as the     *)
(* table is never grown a second time, that is, for INITIAL_MMIO_COUNT     *)
(* areas at a time; MmioMoved.cfg shows what may happen beyond that.       *)

FewAreas == MaxMmios <= INITIAL_MMIO_COUNT /\ INITIAL_MMIO_COUNT < UINT16_RANGE

\* A handle points to a mapped slot of the one block there has been.
PointsToItsSlot(h) ==
  /\ h = [block |-> 1, slot |-> h.slot, region |-> mmios[h.slot]]
  /\ h.slot \in 0 .. mmio_count - 1 /\ h.slot \in Slots
  /\ mmios[h.slot].start = TRUE

HInv ==
  /\ RegionType
  /\ mmio_count \in Nat
  /\ \/ mmio_count = 0 /\ mmio_max_count = 0 /\ block = 0 /\ handles = {}
     \/ mmio_max_count = INITIAL_MMIO_COUNT /\ block = 1
  /\ \A h \in handles : PointsToItsSlot(h)

\* The first allocation of the MMIO table is stored as it is.
LEMMA FirstGrowth ==
  ASSUME FewAreas
  PROVE  ToUint16(new_count(0, INITIAL_MMIO_COUNT)) = INITIAL_MMIO_COUNT
<1>1. UINT16_RANGE \in Nat /\ INITIAL_MMIO_COUNT \in Nat /\ UINT16_RANGE > 0
  BY RangeAssumption, MmioAssumption, SMTT(30), Z3T(30)
<1>2. INITIAL_MMIO_COUNT < UINT16_RANGE
  BY SMTT(30), Z3T(30) DEF FewAreas
<1> QED
  BY <1>1, <1>2, SMTT(30), Z3T(30) DEF ToUint16, new_count

\* Mapping keeps the handles good, as the table does not move.
LEMMA MapKeepsHandles ==
  ASSUME FewAreas, HInv, NEW type \in MmioTypes, NEW size \in Requests, NEW offset \in Offsets,
         NEW moved \in BOOLEAN, ocxl_mmio_map_advanced(type, size, offset, moved)
  PROVE  HInv'
<1> DEFINE bytes == MapSize(type, size, offset)
           region == [start |-> TRUE, base |-> offset, length |-> bytes, type |-> type]
<1>1. bytes \in Sizes
  BY MapSizeType, SMTT(30), Z3T(30)
<1>2. PICK i \in Slots :
        /\ RegisterSlot(i)
        /\ mmios' = [mmios EXCEPT ![i] = region]
        /\ mmio_count' = NextCount(i)
        /\ IF NoHole /\ mmio_count = mmio_max_count
           THEN /\ mmio_max_count' = ToUint16(new_count(mmio_max_count, INITIAL_MMIO_COUNT))
                /\ block' = IF moved \/ block = 0 THEN block + 1 ELSE block
           ELSE UNCHANGED <<mmio_max_count, block>>
        /\ handles' = handles \cup {[block |-> block', slot |-> i, region |-> region]}
  BY Zenon DEF ocxl_mmio_map_advanced, register_mmio
<1> HIDE DEF bytes
<1>3. /\ region \in [start : BOOLEAN, base : Offsets, length : Sizes, type : MmioTypes]
      /\ region.start = TRUE
  BY <1>1, SMTT(30), Z3T(30)
<1> HIDE DEF region
<1>4. i \in Nat /\ i < INITIAL_MMIO_COUNT /\ mmio_count \in Nat /\ INITIAL_MMIO_COUNT \in Nat
  BY MmioAssumption, SMTT(30), Z3T(30) DEF Slots, FewAreas, HInv
<1>5. /\ mmios'[i] = region
      /\ \A j \in Slots : j # i => mmios'[j] = mmios[j]
      /\ RegionType'
  BY <1>2, <1>3, Zenon DEF HInv, RegionType
<1>6. mmio_count' \in Nat /\ mmio_count' >= mmio_count /\ i \in 0 .. mmio_count' - 1
  <2>1. PICK n \in Nat : n = mmio_count'
    BY <1>2, <1>4, SMTT(30), Z3T(30) DEF NextCount
  <2>2. n >= mmio_count /\ i < n
    BY <1>2, <1>4, <2>1, SMTT(30), Z3T(30) DEF NextCount, RegisterSlot
  <2>3. i \in 0 .. n - 1
    BY <1>4, <2>2, SMTT(30), Z3T(30)
  <2> QED
    BY <2>1, <2>2, <2>3, Zenon
<1>7. \A h \in handles : h.slot # i
  <2> SUFFICES ASSUME NEW h \in handles, h.slot = i PROVE FALSE
    OBVIOUS
  <2>1. i \in 0 .. mmio_count - 1 /\ mmios[i].start = TRUE
    BY Zenon DEF HInv, PointsToItsSlot
  <2> QED
    BY <1>2, <1>4, <2>1, SMTT(30), Z3T(30) DEF RegisterSlot
<1>8. mmio_max_count' = INITIAL_MMIO_COUNT /\ block' = 1
  <2>1. CASE NoHole /\ mmio_count = mmio_max_count
    <3>1. i = mmio_count
      BY <1>2, <1>4, <2>1, SMTT(30), Z3T(30) DEF RegisterSlot, NoHole
    <3>2. mmio_max_count = 0 /\ block = 0
      BY <1>4, <2>1, <3>1, SMTT(30), Z3T(30) DEF HInv
    <3> QED
      BY <1>2, <2>1, <3>2, FirstGrowth, SMTT(30), Z3T(30)
  <2>2. CASE ~(NoHole /\ mmio_count = mmio_max_count)
    <3>1. mmio_count = 0 => NoHole
      BY SMTT(30), Z3T(30) DEF NoHole
    <3>2. mmio_max_count = INITIAL_MMIO_COUNT /\ block = 1
      BY <2>2, <3>1, Zenon DEF HInv
    <3> QED
      BY <1>2, <2>2, <3>2, Zenon
  <2> QED
    BY <2>1, <2>2, SMTT(30), Z3T(30)
<1>9. ASSUME NEW h \in handles' PROVE PointsToItsSlot(h)'
  <2>1. CASE h \in handles
    <3>1. PointsToItsSlot(h)
      BY <2>1, Zenon DEF HInv
    <3>2. mmios'[h.slot] = mmios[h.slot]
      BY <1>5, <1>7, <2>1, <3>1, Zenon DEF PointsToItsSlot
    <3>3. h.slot \in 0 .. mmio_count' - 1
      BY <1>4, <1>6, <3>1, SMTT(30), Z3T(30) DEF PointsToItsSlot
    <3> QED
      BY <3>1, <3>2, <3>3, Zenon DEF PointsToItsSlot
  <2>2. CASE h = [block |-> block', slot |-> i, region |-> region]
    <3>1. h.slot = i /\ h = [block |-> 1, slot |-> i, region |-> region]
      BY <1>8, <2>2, SMTT(30), Z3T(30)
    <3>2. mmios'[i] = region /\ region.start = TRUE
      BY <1>3, <1>5, SMTT(30), Z3T(30)
    <3> QED
      BY <1>6, <3>1, <3>2, Zenon DEF PointsToItsSlot
  <2> QED
    BY <1>2, <1>9, <2>1, <2>2, Zenon
<1> QED
  BY <1>5, <1>6, <1>8, <1>9, Zenon DEF HInv

\* Unmapping keeps the other handles good.
LEMMA UnmapKeepsHandles ==
  ASSUME HInv, NEW h \in handles, ocxl_mmio_unmap(h)
  PROVE  HInv'
<1>1. PointsToItsSlot(h) /\ handles # {}
  BY Zenon DEF HInv
<1>2. PICK k \in Slots : k = h.slot
  BY <1>1, Zenon DEF PointsToItsSlot
<1>3. h.block = 1
  <2>1. h = [block |-> 1, slot |-> h.slot, region |-> mmios[h.slot]]
    BY <1>1, Zenon DEF PointsToItsSlot
  <2> QED
    BY <2>1, SMTT(30), Z3T(30)
<1>4. block = 1 /\ mmio_max_count = INITIAL_MMIO_COUNT /\ mmio_count \in Nat /\ RegionType
  BY <1>1, Zenon DEF HInv
<1>5. /\ mmios' = [mmios EXCEPT ![k].start = FALSE]
      /\ handles' = handles \ {h}
      /\ UNCHANGED <<mmio_count, mmio_max_count, block>>
  BY <1>2, <1>3, <1>4, SMTT(30), Z3T(30) DEF ocxl_mmio_unmap
<1>6. RegionType' /\ \A j \in Slots : j # k => mmios'[j] = mmios[j]
  BY <1>4, <1>5, Zenon DEF RegionType
<1>7. ASSUME NEW g \in handles' PROVE PointsToItsSlot(g)'
  <2>1. g \in handles /\ g # h
    BY <1>5, <1>7, SMTT(30), Z3T(30)
  <2>2. PointsToItsSlot(g)
    BY <2>1, Zenon DEF HInv
  <2>3. g.slot # k
    BY <1>1, <1>2, <2>1, <2>2, Zenon DEF PointsToItsSlot
  <2>4. mmios'[g.slot] = mmios[g.slot]
    BY <1>6, <2>2, <2>3, Zenon DEF PointsToItsSlot
  <2>5. mmio_count' = mmio_count
    BY <1>5, SMTT(30), Z3T(30)
  <2> QED
    BY <2>2, <2>4, <2>5, Zenon DEF PointsToItsSlot
<1> QED
  BY <1>4, <1>5, <1>6, <1>7, Zenon DEF HInv

\* A good handle leads to the region it was given out for.
LEMMA HandlesMean ==
  ASSUME HInv, NEW h \in handles
  PROVE  Behind(h) = {h.region} /\ mmios[h.slot] = h.region
<1>1. h = [block |-> 1, slot |-> h.slot, region |-> mmios[h.slot]]
  BY Zenon DEF HInv, PointsToItsSlot
<1>2. h.block = 1 /\ h.region = mmios[h.slot]
  BY <1>1, SMTT(30), Z3T(30)
<1>3. block = 1
  BY Zenon DEF HInv
<1> QED
  BY <1>2, <1>3, Zenon DEF Behind

\* Handles stay good always while few areas are mapped.
LEMMA HandlesInvariant ==
  ASSUME FewAreas
  PROVE  Spec => []HInv
<1>1. Init => HInv
  <2> SUFFICES ASSUME Init PROVE HInv
    OBVIOUS
  <2>1. RegionType
    BY MmioAssumption, SMTT(30), Z3T(30) DEF Init, RegionType, NoRegion, Offsets, Sizes, MmioTypes
  <2> QED
    BY <2>1, SMTT(30), Z3T(30) DEF Init, HInv
<1>2. HInv /\ [Next]_vars => HInv'
  <2> SUFFICES ASSUME HInv, [Next]_vars PROVE HInv'
    OBVIOUS
  <2>1. CASE UNCHANGED <<tableVars, handles>>
    BY <2>1, Zenon DEF HInv, RegionType, PointsToItsSlot, tableVars
  <2>2. CASE \E type \in MmioTypes, size \in Requests, offset \in Offsets, moved \in BOOLEAN :
               ocxl_mmio_map_advanced(type, size, offset, moved)
    BY <2>2, MapKeepsHandles, Zenon
  <2>3. CASE \E h \in handles : ocxl_mmio_unmap(h)
    BY <2>3, UnmapKeepsHandles, Zenon
  <2> QED
    BY <2>1, <2>2, <2>3, Zenon DEF Next, vars, ocxl_afu_attach, ocxl_mmio_write
<1> QED
  BY <1>1, <1>2, PTL DEF Spec

\* As long as no more than INITIAL_MMIO_COUNT areas are mapped at a time, the
\* pointer that register_mmio() returned stands for the area it was returned
\* for, through every reuse of a slot.
THEOREM HandlesAreGood ==
  ASSUME FewAreas
  PROVE  Spec => []HandlesStandForTheirArea
<1>1. HInv => HandlesStandForTheirArea
  BY HandlesMean, Zenon DEF HandlesStandForTheirArea
<1> QED
  BY <1>1, HandlesInvariant, PTL

-------------------------------------------------------------------------------
(* The bytes that reads and writes transfer.                                *)

\* Reversing bytes twice gives them back.
LEMMA ReversedType ==
  ASSUME NEW S, NEW v \in Seq(S)
  PROVE  Reversed(v) \in Seq(S) /\ Len(Reversed(v)) = Len(v) /\ Reversed(Reversed(v)) = v
<1> DEFINE n == Len(v)
           r == [k \in 1 .. n |-> v[n + 1 - k]]
<1>1. n \in Nat /\ v \in [1 .. n -> S] /\ DOMAIN v = 1 .. n
  OBVIOUS
<1>2. \A k \in 1 .. n : n + 1 - k \in 1 .. n /\ n + 1 - (n + 1 - k) = k
  BY <1>1, SMTT(30), Z3T(30)
<1>3. r \in [1 .. n -> S]
  BY <1>1, <1>2, SMTT(30), Z3T(30)
<1>4. r \in Seq(S) /\ Len(r) = n
  BY <1>1, <1>3, SMTT(30), Z3T(30)
<1>5. [k \in 1 .. n |-> r[n + 1 - k]] = v
  BY <1>1, <1>2, SMTT(30), Z3T(30)
<1>6. Reversed(v) = r
  BY Zenon DEF Reversed
<1> HIDE DEF r, n
<1>7. Reversed(r) = [k \in 1 .. n |-> r[n + 1 - k]]
  BY <1>4, Zenon DEF Reversed
<1>8. Len(v) = n
  BY Zenon DEF n
<1> QED
  BY <1>4, <1>5, <1>6, <1>7, <1>8, Zenon

\* On hosts of both byte orders, the bytes stored are those the caller meant, and
\* the bytes read are given back in the order the caller asked for.
LEMMA ConversionsAgree ==
  ASSUME NEW S, NEW v \in Seq(S), NEW endian \in Endians, host \in Hosts
  PROVE  /\ InMemory(Convert(v, endian)) = Meant(v, endian)
         /\ Convert(InMemory(v), endian) = Meant(v, endian)
         /\ Meant(v, endian) \in Seq(S) /\ Len(Meant(v, endian)) = Len(v)
<1> DEFINE r == Reversed(v)
<1>1. r \in Seq(S) /\ Len(r) = Len(v) /\ Reversed(r) = v
  BY ReversedType, Zenon
<1>2. Reversed(v) = r
  OBVIOUS
<1> HIDE DEF r
<1>3. CASE host = "big"
  BY <1>1, <1>2, <1>3, SMTT(30), Z3T(30) DEF InMemory, Convert, Meant, Hosts, Endians
<1>4. CASE host = "little"
  BY <1>1, <1>2, <1>4, SMTT(30), Z3T(30) DEF InMemory, Convert, Meant, Hosts, Endians
<1> QED
  BY <1>3, <1>4, Zenon DEF Hosts

\* As long as handles are good, the areas hold what was meant to be there.
FaithfulInv == HInv /\ host \in Hosts /\ area = expected

\* A write stores the bytes that the application meant to store.
LEMMA WriteStep ==
  ASSUME FaithfulInv, NEW h \in handles, NEW endian \in Endians, NEW value \in Values, NEW offset,
         ocxl_mmio_write(h, offset, endian, value)
  PROVE  area' = expected'
<1>1. Behind(h) = {h.region}
  BY HandlesMean, Zenon DEF FaithfulInv
<1>2. value \in Seq(Bytes)
  BY MmioAssumption, Zenon
<1>3. InMemory(Convert(value, endian)) = Meant(value, endian)
  BY <1>2, ConversionsAgree, Zenon DEF FaithfulInv
<1>4. area' = [area EXCEPT ![h.region.type] =
                 Put(@, h.region.base + offset, InMemory(Convert(value, endian)))]
  BY <1>1, Zenon DEF ocxl_mmio_write, mmio_write_native
<1>5. expected' = [expected EXCEPT ![h.region.type] =
                     Put(@, h.region.base + offset, Meant(value, endian))]
  BY Zenon DEF ocxl_mmio_write
<1>6. area = expected
  BY Zenon DEF FaithfulInv
<1> QED
  BY <1>3, <1>4, <1>5, <1>6, SMTT(30), Z3T(30)

\* As long as no more than INITIAL_MMIO_COUNT areas are mapped at a time, every
\* read that mmio_check() lets through returns what was last written to those
\* bytes through any handle, in the byte order asked for, on hosts of both byte
\* orders and for areas of every length.
THEOREM ReadsReturnWhatWasWritten ==
  ASSUME FewAreas
  PROVE  Spec => []ReadsAreFaithful
<1>1. Init => host \in Hosts /\ area = expected
  BY Zenon DEF Init
<1>2. FaithfulInv /\ [Next]_vars => (host \in Hosts /\ area = expected)'
  <2> SUFFICES ASSUME FaithfulInv, [Next]_vars PROVE (host \in Hosts /\ area = expected)'
    OBVIOUS
  <2>1. CASE UNCHANGED <<host, area, expected>>
    BY <2>1, Zenon DEF FaithfulInv
  <2>2. CASE \E h \in handles, endian \in Endians, value \in Values :
               \E offset \in Aligned(Len(value)) : ocxl_mmio_write(h, offset, endian, value)
    <3>1. PICK h \in handles, endian \in Endians, value \in Values :
            \E offset \in Aligned(Len(value)) : ocxl_mmio_write(h, offset, endian, value)
      BY <2>2, Zenon
    <3>2. PICK offset \in Aligned(Len(value)) : ocxl_mmio_write(h, offset, endian, value)
      BY <3>1, Zenon
    <3>3. area' = expected'
      BY <3>2, WriteStep, Zenon
    <3>4. host' = host
      BY <3>2, Zenon DEF ocxl_mmio_write
    <3> QED
      BY <3>3, <3>4, Zenon DEF FaithfulInv
  <2> QED
    BY <2>1, <2>2, Zenon DEF Next, vars, ocxl_afu_attach, ocxl_mmio_map_advanced, ocxl_mmio_unmap
<1>3. FaithfulInv => ReadsAreFaithful
  <2> SUFFICES ASSUME FaithfulInv, NEW h \in handles, NEW endian \in Endians, NEW size \in Widths,
                      NEW offset \in Aligned(size)
               PROVE  ocxl_mmio_read(mmios[h.slot], offset, endian, size) =
                        Meant([k \in 1 .. size |-> expected[h.region.type][h.region.base + offset + k - 1]], endian)
    BY Zenon DEF ReadsAreFaithful
  <2> DEFINE w == [k \in 1 .. size |-> expected[h.region.type][h.region.base + offset + k - 1]]
  <2>1. mmios[h.slot] = h.region /\ area = expected /\ host \in Hosts
    BY HandlesMean, Zenon DEF FaithfulInv
  <2>2. ocxl_mmio_read(mmios[h.slot], offset, endian, size) = Convert(InMemory(w), endian)
    BY <2>1, Zenon DEF ocxl_mmio_read, mmio_read_native
  <2>3. PICK S : w \in Seq(S)
    <3>1. size \in Nat
      BY SMTT(30), Z3T(30) DEF Widths
    <3>2. w = [k \in 1 .. size |-> w[k]]
      BY Zenon
    <3> DEFINE R == {w[k] : k \in 1 .. size}
    <3> HIDE DEF w
    <3>3. \A k \in 1 .. size : w[k] \in R
      BY Zenon
    <3> HIDE DEF R
    <3>4. w \in [1 .. size -> R]
      BY <3>2, <3>3, Zenon
    <3>5. w \in Seq(R)
      BY <3>1, <3>4, SMTT(30), Z3T(30)
    <3> QED
      BY <3>5, Zenon
  <2> HIDE DEF w
  <2>4. Convert(InMemory(w), endian) = Meant(w, endian)
    BY <2>1, <2>3, ConversionsAgree, Zenon
  <2> QED
    BY <2>2, <2>4, Zenon DEF w
<1> QED
  BY <1>1, <1>2, <1>3, HandlesInvariant, PTL DEF Spec, FaithfulInv

-------------------------------------------------------------------------------
(* Types: handles may be stale here, and write to any region.               *)

ByteFunctions == area = [type \in MmioTypes |-> area[type]] /\ expected = [type \in MmioTypes |-> expected[type]]

\* Bytes put into an area leave it an area of bytes.
LEMMA PutType ==
  ASSUME NEW L \in Int, NEW bytes \in [0 .. L - 1 -> Bytes], NEW at \in Int, NEW value \in Seq(Bytes)
  PROVE  Put(bytes, at, value) \in [0 .. L - 1 -> Bytes]
<1> DEFINE stored(b) == IF b \in at .. at + Len(value) - 1 THEN value[b - at + 1] ELSE bytes[b]
<1>1. DOMAIN bytes = 0 .. L - 1
  OBVIOUS
<1>2. \A b \in 0 .. L - 1 : stored(b) \in Bytes
  <2> SUFFICES ASSUME NEW b \in 0 .. L - 1 PROVE stored(b) \in Bytes
    BY Zenon
  <2>1. CASE b \in at .. at + Len(value) - 1
    <3>1. b - at + 1 \in 1 .. Len(value)
      BY <2>1, SMTT(30), Z3T(30)
    <3> QED
      BY <2>1, <3>1, SMTT(30), Z3T(30)
  <2>2. CASE b \notin at .. at + Len(value) - 1
    BY <2>2, Zenon
  <2> QED
    BY <2>1, <2>2, Zenon
<1>3. Put(bytes, at, value) = [b \in 0 .. L - 1 |-> stored(b)]
  BY <1>1, Zenon DEF Put
<1> HIDE DEF stored
<1> QED
  BY <1>2, <1>3, Zenon

\* So it is for the areas of both types.
LEMMA StoreType ==
  ASSUME NEW f, f = [type \in MmioTypes |-> f[type]],
         \A type \in MmioTypes : f[type] \in [0 .. Length[type] - 1 -> Bytes],
         NEW t \in MmioTypes, NEW at \in Int, NEW value \in Seq(Bytes),
         NEW g, g = [f EXCEPT ![t] = Put(@, at, value)]
  PROVE  /\ g = [type \in MmioTypes |-> g[type]]
         /\ \A type \in MmioTypes : g[type] \in [0 .. Length[type] - 1 -> Bytes]
<1>1. Length[t] \in Int
  BY MmioAssumption, SMTT(30), Z3T(30)
<1>2. Put(f[t], at, value) \in [0 .. Length[t] - 1 -> Bytes]
  BY <1>1, PutType, Zenon
<1>3. g = [type \in MmioTypes |-> IF type = t THEN Put(f[t], at, value) ELSE f[type]]
  BY Zenon
<1> QED
  BY <1>2, <1>3, Zenon

\* Mapping keeps the types.
LEMMA MapTypes ==
  ASSUME TypeOK, ByteFunctions, NEW type \in MmioTypes, NEW size \in Requests, NEW offset \in Offsets,
         NEW moved \in BOOLEAN, ocxl_mmio_map_advanced(type, size, offset, moved)
  PROVE  TypeOK' /\ ByteFunctions'
<1> DEFINE bytes == MapSize(type, size, offset)
           region == [start |-> TRUE, base |-> offset, length |-> bytes, type |-> type]
<1>1. bytes \in Sizes
  BY MapSizeType, Zenon
<1>2. PICK i \in Slots :
        /\ RegisterSlot(i)
        /\ mmios' = [mmios EXCEPT ![i] = region]
        /\ mmio_count' = NextCount(i)
        /\ IF NoHole /\ mmio_count = mmio_max_count
           THEN /\ mmio_max_count' = ToUint16(new_count(mmio_max_count, INITIAL_MMIO_COUNT))
                /\ block' = IF moved \/ block = 0 THEN block + 1 ELSE block
           ELSE UNCHANGED <<mmio_max_count, block>>
        /\ handles' = handles \cup {[block |-> block', slot |-> i, region |-> region]}
  BY Zenon DEF ocxl_mmio_map_advanced, register_mmio
<1> HIDE DEF bytes
<1>3. region \in Regions /\ region \in [start : BOOLEAN, base : Offsets, length : Sizes, type : MmioTypes]
  BY <1>1, SMTT(30), Z3T(30) DEF Regions
<1> HIDE DEF region
<1>4. mmios' \in [Slots -> [start : BOOLEAN, base : Offsets, length : Sizes, type : MmioTypes]]
  BY <1>2, <1>3, Zenon DEF TypeOK
<1>5. mmio_count' \in 0 .. MaxMmios
  <2>1. mmio_count \in 0 .. MaxMmios /\ mmio_count' = NextCount(i)
    BY <1>2, Zenon DEF TypeOK
  <2>2. MaxMmios \in Nat
    BY MmioAssumption, Zenon
  <2> QED
    BY <2>1, <2>2, SMTT(30), Z3T(30) DEF NextCount, Slots
<1>6. block' \in Nat
  <2>1. block \in Nat /\ block + 1 \in Nat
    BY SMTT(30), Z3T(30) DEF TypeOK
  <2> QED
    BY <1>2, <2>1, Zenon
<1>7. mmio_max_count' \in Nat
  <2>1. new_count(mmio_max_count, INITIAL_MMIO_COUNT) \in Nat
    BY MmioAssumption, SMTT(30), Z3T(30) DEF TypeOK, new_count
  <2>2. ToUint16(new_count(mmio_max_count, INITIAL_MMIO_COUNT)) \in Nat
    BY <2>1, RangeAssumption, SMTT(30), Z3T(30) DEF ToUint16
  <2> QED
    BY <1>2, <2>2, Zenon DEF TypeOK
<1>8. ASSUME NEW h \in handles' PROVE h.block \in Nat /\ h.slot \in Slots /\ h.region \in Regions
  <2>1. CASE h \in handles
    BY <2>1, Zenon DEF TypeOK
  <2>2. CASE h = [block |-> block', slot |-> i, region |-> region]
    <3>1. h.block = block' /\ h.slot = i /\ h.region = region
      BY <2>2, SMTT(30), Z3T(30)
    <3> QED
      BY <1>3, <1>6, <3>1, Zenon
  <2> QED
    BY <1>2, <1>8, <2>1, <2>2, Zenon
<1>9. UNCHANGED <<host, attached, area, expected>>
  BY Zenon DEF ocxl_mmio_map_advanced
<1> QED
  BY <1>4, <1>5, <1>6, <1>7, <1>8, <1>9, Zenon DEF TypeOK, ByteFunctions

\* Writing keeps the types.
LEMMA WriteTypes ==
  ASSUME TypeOK, ByteFunctions, NEW h \in handles, NEW endian \in Endians, NEW value \in Values,
         NEW offset \in Aligned(Len(value)), ocxl_mmio_write(h, offset, endian, value)
  PROVE  TypeOK' /\ ByteFunctions'
<1>1. value \in Seq(Bytes) /\ offset \in Int /\ host \in Hosts
  BY MmioAssumption, SMTT(30), Z3T(30) DEF Aligned, TypeOK
<1>2. /\ InMemory(Convert(value, endian)) \in Seq(Bytes)
      /\ Meant(value, endian) \in Seq(Bytes)
  BY <1>1, ConversionsAgree, Zenon
<1>3. h.region \in Regions
  BY Zenon DEF TypeOK
<1>4. PICK region \in Behind(h) : mmio_write_native(region, offset, Convert(value, endian))
  BY Zenon DEF ocxl_mmio_write
<1>5. region.type \in MmioTypes /\ region.base \in Int
  <2>1. region \in [start : BOOLEAN, base : Offsets, length : Sizes, type : MmioTypes]
    <3>1. CASE h.block = block
      <4>1. region = mmios[h.slot]
        BY <3>1, Zenon DEF Behind
      <4>2. h.slot \in Slots
        BY Zenon DEF TypeOK
      <4>3. mmios \in [Slots -> [start : BOOLEAN, base : Offsets, length : Sizes, type : MmioTypes]]
        BY Zenon DEF TypeOK
      <4> QED
        BY <4>1, <4>2, <4>3, Zenon
    <3>2. CASE h.block # block
      <4>1. region \in Regions
        BY <3>2, Zenon DEF Behind
      <4> QED
        BY <4>1, Zenon DEF Regions
    <3> QED
      BY <3>1, <3>2, Zenon
  <2> QED
    BY <2>1, MmioAssumption, SMTT(30), Z3T(30) DEF Offsets
<1>6. h.region.type \in MmioTypes /\ h.region.base \in Int
  <2>1. h.region.type \in MmioTypes /\ h.region.base \in Offsets
    BY <1>3, Zenon DEF Regions
  <2> QED
    BY <2>1, MmioAssumption, SMTT(30), Z3T(30) DEF Offsets
<1>7. region.base + offset \in Int /\ h.region.base + offset \in Int
  BY <1>1, <1>5, <1>6, SMTT(30), Z3T(30)
<1>8. area' = [area EXCEPT ![region.type] = Put(@, region.base + offset, InMemory(Convert(value, endian)))]
  BY <1>4, Zenon DEF mmio_write_native
<1>9. expected' = [expected EXCEPT ![h.region.type] =
                     Put(@, h.region.base + offset, Meant(value, endian))]
  BY Zenon DEF ocxl_mmio_write
<1>10. /\ area' = [type \in MmioTypes |-> area'[type]]
       /\ \A type \in MmioTypes : area'[type] \in [0 .. Length[type] - 1 -> Bytes]
  BY <1>2, <1>5, <1>7, <1>8, StoreType, Zenon DEF TypeOK, ByteFunctions
<1>11. /\ expected' = [type \in MmioTypes |-> expected'[type]]
       /\ \A type \in MmioTypes : expected'[type] \in [0 .. Length[type] - 1 -> Bytes]
  BY <1>2, <1>6, <1>7, <1>9, StoreType, Zenon DEF TypeOK, ByteFunctions
<1>12. UNCHANGED <<host, attached, tableVars, handles>>
  BY Zenon DEF ocxl_mmio_write
<1> QED
  BY <1>10, <1>11, <1>12, Zenon DEF TypeOK, ByteFunctions, tableVars

\* Unmapping keeps the types.
LEMMA UnmapTypes ==
  ASSUME TypeOK, ByteFunctions, NEW h \in handles, ocxl_mmio_unmap(h)
  PROVE  TypeOK' /\ ByteFunctions'
<1>1. PICK k \in Slots : k = h.slot
  BY Zenon DEF TypeOK
<1>2. mmios' = mmios \/ mmios' = [mmios EXCEPT ![k].start = FALSE]
  BY <1>1, Zenon DEF ocxl_mmio_unmap
<1>3. mmios' \in [Slots -> [start : BOOLEAN, base : Offsets, length : Sizes, type : MmioTypes]]
  <2>1. mmios \in [Slots -> [start : BOOLEAN, base : Offsets, length : Sizes, type : MmioTypes]]
    BY Zenon DEF TypeOK
  <2> QED
    BY <1>2, <2>1, Zenon
<1>4. /\ handles' \subseteq handles
      /\ UNCHANGED <<host, attached, mmio_count, mmio_max_count, block, area, expected>>
  BY Zenon DEF ocxl_mmio_unmap
<1> QED
  BY <1>3, <1>4, Zenon DEF TypeOK, ByteFunctions

\* The types of MmioAccess: with stale handles too, what the read and write
\* functions leave in the areas are bytes, and the table stays within its slots.
THEOREM MmioTypesHold == Spec => []TypeOK
<1>1. Init => TypeOK /\ ByteFunctions
  <2> SUFFICES ASSUME Init PROVE TypeOK /\ ByteFunctions
    BY Zenon
  <2>1. NoRegion \in [start : BOOLEAN, base : Offsets, length : Sizes, type : MmioTypes]
    BY MmioAssumption, SMTT(30), Z3T(30) DEF NoRegion, Offsets, Sizes, MmioTypes
  <2>2. mmios \in [Slots -> [start : BOOLEAN, base : Offsets, length : Sizes, type : MmioTypes]]
    BY <2>1, Zenon DEF Init
  <2>3. 0 \in Bytes /\ 0 \in 0 .. MaxMmios /\ 0 \in Nat
    BY MmioAssumption, SMTT(30), Z3T(30) DEF Bytes
  <2>4. \A type \in MmioTypes : area[type] \in [0 .. Length[type] - 1 -> Bytes]
    BY <2>3, Zenon DEF Init
  <2> QED
    BY <2>2, <2>3, <2>4, Zenon DEF Init, TypeOK, ByteFunctions
<1>2. TypeOK /\ ByteFunctions /\ [Next]_vars => TypeOK' /\ ByteFunctions'
  <2> SUFFICES ASSUME TypeOK, ByteFunctions, [Next]_vars PROVE TypeOK' /\ ByteFunctions'
    BY Zenon
  <2>1. CASE UNCHANGED vars
    BY <2>1, Zenon DEF vars, tableVars, TypeOK, ByteFunctions
  <2>2. CASE ocxl_afu_attach
    BY <2>2, Zenon DEF ocxl_afu_attach, tableVars, TypeOK, ByteFunctions
  <2> QED
    BY <2>1, <2>2, MapTypes, WriteTypes, UnmapTypes, Zenon DEF Next
<1> QED
  BY <1>1, <1>2, PTL DEF Spec

===============================================================================
