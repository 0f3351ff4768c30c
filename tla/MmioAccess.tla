------------------------------ MODULE MmioAccess ------------------------------
(***************************************************************************)
(* The MMIO areas of one open AFU handle as the application sees them:     *)
(* which requests ocxl_mmio_map_advanced() lets through, with the widths   *)
(* and signs of C; which accesses mmio_check() lets through; and which     *)
(* bytes of the area ocxl_mmio_read32(), write32(), read64() and write64() *)
(* then transfer, for every byte order of the host and of the AFU.         *)
(***************************************************************************)
EXTENDS GrowBuffer, Sequences

CONSTANTS
  HALF,                \* 2^63: a size_t is below 2 * HALF, an off_t within -HALF .. HALF - 1
  PAGE_SIZE,
  Length,              \* per type of area, its length, from OCXL_IOCTL_GET_METADATA
  MaxMmios,            \* bound: areas mapped at a time
  INITIAL_MMIO_COUNT,
  Requests,            \* the sizes the application asks for
  Values               \* what the application writes, as bytes from the most significant

MmioTypes == {"global", "per_pasid"}
Hosts     == {"big", "little"}
Endians   == Hosts \cup {"host"}
Widths    == {4, 8}
Bytes     == 0 .. 255
Slots     == 0 .. MaxMmios - 1

ASSUME MmioAssumption ==
  /\ HALF \in Nat /\ HALF > 8
  /\ PAGE_SIZE \in Nat \ {0}
  /\ Length \in [MmioTypes -> 0 .. HALF - 1]
  /\ MaxMmios \in Nat /\ INITIAL_MMIO_COUNT \in Nat \ {0}
  /\ Requests \subseteq 0 .. 2 * HALF - 1
  /\ \A value \in Values : value \in Seq(Bytes) /\ Len(value) \in Widths

VARIABLES
  host,                             \* the byte order of the machine
  attached,
  mmios, mmio_count, mmio_max_count,  \* the table, as AfuContext has it
  block,                            \* which block realloc() last returned, 0 for NULL
  handles,                          \* the ocxl_mmio_h the application has
  area,                             \* the bytes of each area, in the AFU
  expected                          \* history: the bytes the application meant to be there

tableVars == <<mmios, mmio_count, mmio_max_count, block>>
vars == <<host, attached, tableVars, handles, area, expected>>

-------------------------------------------------------------------------------
(* Arithmetic of C on 64 bit types.                                         *)

size_t(n) == n % (2 * HALF)
off_t(n)  == IF size_t(n) < HALF THEN size_t(n) ELSE size_t(n) - 2 * HALF

Sizes   == 0 .. 2 * HALF - 1
Offsets == -HALF .. HALF - 1

-------------------------------------------------------------------------------
(* Mapping an area.                                                         *)

\* mmap(): a length that is not zero and an offset that is a multiple of the
\* page size, both within the address range of a process.
Mmap(size, offset) ==
  /\ size > 0 /\ offset >= 0
  /\ offset + size < HALF
  /\ offset % PAGE_SIZE = 0

\* The size of the mapping: 0 asks for what follows the offset.
MapSize(type, size, offset) ==
  IF size = 0 THEN size_t(Length[type] - offset) ELSE size

\* Mutant of MapFits: the offset is left out.
MapFitsFromStart(type, size, offset) == size <= Length[type]

MapFits(type, size, offset) == size_t(offset + size) <= Length[type]

MayMap(type) ==
  IF type = "global" THEN Length[type] # 0 ELSE attached

NoHole == \A i \in 0 .. mmio_count - 1 : mmios[i].start

\* Mutant of RegisterSlot: the first slot is taken, mapped or not.
RegisterFirst(i) == IF mmio_count > 0 THEN i = 0 ELSE i = mmio_count

RegisterSlot(i) ==
  \/ /\ i < mmio_count
     /\ ~mmios[i].start
     /\ \A j \in 0 .. i - 1 : mmios[j].start
  \/ NoHole /\ i = mmio_count

\* Mutant of NextCount: a reused slot is counted again.
CountEveryMapping(i) == mmio_count + 1

NextCount(i) == IF i = mmio_count THEN mmio_count + 1 ELSE mmio_count

\* register_mmio() and the handle it returns: a pointer to slot i of the block.
register_mmio(size, type, offset, moved) ==
  \E i \in Slots :
    LET region == [start |-> TRUE, base |-> offset, length |-> size, type |-> type]
    IN
    /\ RegisterSlot(i)
    /\ mmios' = [mmios EXCEPT ![i] = region]
    /\ mmio_count' = NextCount(i)
    /\ IF NoHole /\ mmio_count = mmio_max_count
       THEN /\ mmio_max_count' = ToUint16(new_count(mmio_max_count, INITIAL_MMIO_COUNT))
            /\ block' = IF moved \/ block = 0 THEN block + 1 ELSE block
       ELSE UNCHANGED <<mmio_max_count, block>>
    /\ handles' = handles \cup {[block |-> block', slot |-> i, region |-> region]}

\* ocxl_mmio_map_advanced(); every refusal leaves all as it was.
ocxl_mmio_map_advanced(type, size, offset, moved) ==
  LET bytes == MapSize(type, size, offset)
  IN
  /\ MapFits(type, bytes, offset)
  /\ MayMap(type)
  /\ Mmap(bytes, offset)
  /\ register_mmio(bytes, type, offset, moved)
  /\ UNCHANGED <<host, attached, area, expected>>

ocxl_afu_attach ==
  /\ attached' = TRUE
  /\ UNCHANGED <<host, tableVars, handles, area, expected>>

\* What is behind a handle: its slot, unless the table has moved since.
Regions == [start : {TRUE}, base : Offsets, length : Sizes, type : MmioTypes]

Behind(h) == IF h.block = block THEN {mmios[h.slot]} ELSE Regions

\* The application unmaps an area and forgets the handle; through a handle that
\* points into an old block this table is not reached.
ocxl_mmio_unmap(h) ==
  /\ h \in handles
  /\ mmios' = IF h.block = block THEN [mmios EXCEPT ![h.slot].start = FALSE] ELSE mmios
  /\ handles' = handles \ {h}
  /\ UNCHANGED <<host, attached, mmio_count, mmio_max_count, block, area, expected>>

-------------------------------------------------------------------------------
(* Accessing an area.                                                       *)

\* Mutant of mmio_check: the limit is one short.
mmio_check_below(region, offset, size) ==
  region.start /\ offset < off_t(size_t(region.length - size))

mmio_check(region, offset, size) ==
  region.start /\ offset < off_t(size_t(region.length - (size - 1)))

\* A value in a register of the host and the bytes of memory that hold it.
Reversed(bytes) == [k \in 1 .. Len(bytes) |-> bytes[Len(bytes) + 1 - k]]

InMemory(value) == IF host = "big" THEN value ELSE Reversed(value)

\* Mutant of Convert: values are converted on a little endian host only.
ConvertOnLittle(value, endian) ==
  IF endian = "big" /\ host = "little" THEN Reversed(value) ELSE value

\* htobe32(), htole32(), be32toh(), le32toh() and their 64 bit forms.
Convert(value, endian) ==
  IF endian \in Hosts /\ endian # host THEN Reversed(value) ELSE value

Put(bytes, at, value) ==
  [b \in DOMAIN bytes |-> IF b \in at .. at + Len(value) - 1 THEN value[b - at + 1] ELSE bytes[b]]

\* The bytes of the value as the caller wants them to be stored.
Meant(value, endian) ==
  IF endian = "big" \/ (endian = "host" /\ host = "big") THEN value ELSE Reversed(value)

\* mmio_write32_native() and mmio_write64_native().
mmio_write_native(region, offset, value) ==
  /\ mmio_check(region, offset, Len(value))
  /\ area' = [area EXCEPT ![region.type] = Put(@, region.base + offset, InMemory(value))]

\* ocxl_mmio_write32() and ocxl_mmio_write64().
ocxl_mmio_write(h, offset, endian, value) ==
  /\ h \in handles
  /\ \E region \in Behind(h) : mmio_write_native(region, offset, Convert(value, endian))
  /\ expected' = [expected EXCEPT ![h.region.type] =
                    Put(@, h.region.base + offset, Meant(value, endian))]
  /\ UNCHANGED <<host, attached, tableVars, handles>>

\* mmio_read32_native() and mmio_read64_native(): the value in a register.
mmio_read_native(region, offset, size) ==
  InMemory([k \in 1 .. size |-> area[region.type][region.base + offset + k - 1]])

\* ocxl_mmio_read32() and ocxl_mmio_read64(): what they return.
ocxl_mmio_read(region, offset, endian, size) ==
  Convert(mmio_read_native(region, offset, size), endian)

-------------------------------------------------------------------------------
NoRegion == [start |-> FALSE, base |-> 0, length |-> 0, type |-> "global"]

Init ==
  /\ host \in Hosts
  /\ attached = FALSE
  /\ mmios = [i \in Slots |-> NoRegion]
  /\ mmio_count = 0 /\ mmio_max_count = 0 /\ block = 0
  /\ handles = {}
  /\ area = [type \in MmioTypes |-> [b \in 0 .. Length[type] - 1 |-> 0]]
  /\ expected = area

\* The offsets the application uses: byte addresses aligned to the width, from the
\* start of the region on (mmio_check() itself would let those before it through).
Aligned(size) == {offset \in 0 .. HALF - 1 : offset % size = 0}

Next ==
  \/ ocxl_afu_attach
  \/ \E type \in MmioTypes, size \in Requests, offset \in Offsets, moved \in BOOLEAN :
       ocxl_mmio_map_advanced(type, size, offset, moved)
  \/ \E h \in handles : ocxl_mmio_unmap(h)
  \/ \E h \in handles, endian \in Endians, value \in Values :
       \E offset \in Aligned(Len(value)) : ocxl_mmio_write(h, offset, endian, value)

Spec == Init /\ [][Next]_vars

-------------------------------------------------------------------------------
TypeOK ==
  /\ host \in Hosts
  /\ attached \in BOOLEAN
  /\ mmios \in [Slots -> [start : BOOLEAN, base : Offsets, length : Sizes, type : MmioTypes]]
  /\ mmio_count \in 0 .. MaxMmios /\ mmio_max_count \in Nat /\ block \in Nat
  /\ \A h \in handles : h.block \in Nat /\ h.slot \in Slots /\ h.region \in Regions
  /\ \A type \in MmioTypes :
       /\ area[type] \in [0 .. Length[type] - 1 -> Bytes]
       /\ expected[type] \in [0 .. Length[type] - 1 -> Bytes]

\* No request, however its offset and size wrap around in size_t arithmetic,
\* makes ocxl_mmio_map_advanced() map what is outside the area that the device
\* announced.
RegionsInArea ==
  \A i \in Slots : mmios[i].start =>
    mmios[i].base >= 0 /\ mmios[i].length > 0 /\ mmios[i].base + mmios[i].length <= Length[mmios[i].type]

\* mmio_check() refuses exactly the accesses that would reach past the end of the
\* mapped region, for every off_t and for regions shorter than the access too,
\* where its limit is negative.  It has no lower bound: a negative offset, before
\* the region, is the caller's to avoid.  And it lets the last word through, which
\* "must be lower than the MMIO size (-4 bytes)" (mmio.c:473) leaves out.
AccessesEndInRegion ==
  \A i \in Slots, size \in Widths : mmios[i].start =>
    \A offset \in Offsets :
      mmio_check(mmios[i], offset, size) <=> offset + size <= mmios[i].length

\* Reading returns what was written through whatever mapping of the same bytes,
\* in the byte order that was asked for, on hosts of both byte orders.
ReadsAreFaithful ==
  \A h \in handles, endian \in Endians, size \in Widths :
    \A offset \in Aligned(size) : mmio_check(mmios[h.slot], offset, size) =>
      ocxl_mmio_read(mmios[h.slot], offset, endian, size) =
        Meant([k \in 1 .. size |-> expected[h.region.type][h.region.base + offset + k - 1]], endian)

\* "Read the 32-bit value at offset from the address of the mapped MMIO space":
\* as long as the application has not unmapped an area, its handle stands for
\* that area, whatever else is mapped and unmapped.
HandlesStandForTheirArea ==
  \A h \in handles : Behind(h) = {h.region}

===============================================================================
