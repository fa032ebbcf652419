------------------------ MODULE StagedImport_proofs ------------------------
(***************************************************************************)
(* ReadsExact and IssuedUsable, for every width of the integers, every     *)
(* device and every layout: the bytes that the shaders and the copies      *)
(* address lie inside the view, because a row ends before the end that the *)
(* validators bound; and a capability that the importer issues is one it   *)
(* honours, because its extent and features were cut to what it writes.    *)
(***************************************************************************)
EXTENDS StagedImport, TLAPS

-----------------------------------------------------------------------------
(* Arithmetic.                                                             *)

\* Multiplication by a number is monotonic.
LEMMA TimesMono ==
  ASSUME NEW a \in Nat, NEW b \in Nat, NEW c \in Nat, b <= c
  PROVE  a * b \in Nat /\ a * c \in Nat /\ a * b <= a * c
  BY SMT

\* Products of numbers are numbers, in either order.
LEMMA TimesNat ==
  ASSUME NEW a \in Nat, NEW b \in Nat
  PROVE  a * b \in Nat /\ a * b = b * a
  BY SMT

\* A u32 that does not overflow does not wrap.
LEMMA WrapSmall ==
  ASSUME NEW n \in Nat, n < U32
  PROVE  Wrap(n) = n
  BY WidthAssumption, SMT DEF Wrap

\* A byte of a row lies before the end that plane_end computes.
LEMMA RowInside ==
  ASSUME NEW o \in Nat, NEW p \in Nat, NEW rows \in Nat, NEW w \in Nat,
         NEW x \in Nat, NEW y \in Nat, y < rows, x < w
  PROVE  /\ o + y * p + x \in Nat
         /\ o + y * p + x < o + p * (rows - 1) + w
  <1>1. rows - 1 \in Nat /\ y <= rows - 1
    OBVIOUS
  <1>2. p * y <= p * (rows - 1) /\ p * y \in Nat /\ p * (rows - 1) \in Nat
    BY <1>1, TimesMono
  <1>3. p * y = y * p
    BY TimesNat
  <1> DEFINE a == p * y
             b == p * (rows - 1)
  <1>4. a \in Nat /\ b \in Nat /\ a <= b
    BY <1>2
  <1> HIDE DEF a, b
  <1>5. o + a + x \in Nat /\ o + a + x < o + b + w
    BY <1>4
  <1> QED
    BY <1>3, <1>5 DEF a, b

\* load_pair stays inside a view that holds both bytes.
LEMMA PairInside ==
  ASSUME NEW a \in Nat, NEW n \in Nat, a + 1 < n
  PROVE  PairTexels(a) \subseteq 0..((((n + 3) \div 4) * 4) \div 4 - 1)
  BY SMT DEF PairTexels

-----------------------------------------------------------------------------
(* The compute shaders.                                                    *)

\* The ends of the planes of a typed NV12 layout are numbers.
LEMMA Nv12Ends ==
  ASSUME NEW l \in Nv12Type, Nv12LayoutValid(l)
  PROVE  /\ l.width \in Nat /\ l.height \in Nat /\ l.size \in Nat
         /\ l.y.offset \in Nat /\ l.y.pitch \in Nat
         /\ l.uv.offset \in Nat /\ l.uv.pitch \in Nat
         /\ l.height \div 2 \in Nat /\ l.height = 2 * (l.height \div 2)
         /\ l.width \div 2 \in Nat /\ l.width = 2 * (l.width \div 2)
         /\ l.height \div 2 > 0 /\ l.width \div 2 > 0
         /\ LumaEnd(l) \in Nat /\ ChromaEnd(l) \in Nat /\ Extent(l) \in Nat
         /\ LumaEnd(l) <= Extent(l) /\ ChromaEnd(l) <= Extent(l)
  <1>1. /\ l.width \in Nat /\ l.height \in Nat /\ l.size \in Nat
        /\ l.y \in PlaneType /\ l.uv \in PlaneType
    BY DEF Nv12Type
  <1>2. /\ l.y.offset \in Nat /\ l.y.pitch \in Nat
        /\ l.uv.offset \in Nat /\ l.uv.pitch \in Nat
    BY <1>1 DEF PlaneType
  <1>3. l.width > 0 /\ l.height > 0 /\ l.width % 2 = 0 /\ l.height % 2 = 0
    BY DEF Nv12LayoutValid, Even
  <1>4. /\ l.height \div 2 \in Nat /\ l.height = 2 * (l.height \div 2)
        /\ l.width \div 2 \in Nat /\ l.width = 2 * (l.width \div 2)
        /\ l.height \div 2 > 0 /\ l.width \div 2 > 0
    BY <1>1, <1>3
  <1>5. l.height - 1 \in Nat /\ (l.height \div 2) - 1 \in Nat
    BY <1>1, <1>3, <1>4
  <1>6. l.y.pitch * (l.height - 1) \in Nat /\ l.uv.pitch * ((l.height \div 2) - 1) \in Nat
    BY <1>2, <1>5, TimesNat
  <1>7. LumaEnd(l) \in Nat /\ ChromaEnd(l) \in Nat
    BY <1>1, <1>2, <1>6 DEF LumaEnd, ChromaEnd, PlaneEnd
  <1> QED
    BY <1>1, <1>2, <1>4, <1>7 DEF Extent, Larger

\* A plane holds its rows: its end is at least its offset and its area.
LEMMA PlaneArea ==
  ASSUME NEW o \in Nat, NEW p \in Nat, NEW rows \in Nat, NEW w \in Nat, rows > 0, p >= w
  PROVE  w * rows \in Nat /\ o + w * rows <= o + p * (rows - 1) + w
  <1>1. rows - 1 \in Nat
    OBVIOUS
  <1>2. (rows - 1) * w <= (rows - 1) * p /\ (rows - 1) * w \in Nat /\ (rows - 1) * p \in Nat
    BY <1>1, TimesMono
  <1>3. (rows - 1) * p = p * (rows - 1) /\ w * rows = (rows - 1) * w + w
    BY <1>1, SMT
  <1> QED
    BY <1>2, <1>3

\* The planes do not overlap, so a picture whose bytes have 32-bit addresses has
\* sides that are positive as an int: the guard of main() lets all of it through.
LEMMA Nv12Covered ==
  ASSUME NEW l \in Nv12Type, Nv12LayoutValid(l), Extent(l) <= U32
  PROVE  Covered(l) /\ l.y.offset < U32 /\ l.uv.offset < U32
  <1> DEFINE w == l.width
             h == l.height
             a == w * h
             c == w * (h \div 2)
  <1>1. /\ w \in Nat /\ h \in Nat /\ h \div 2 \in Nat /\ h = 2 * (h \div 2)
        /\ h \div 2 > 0 /\ w = 2 * (w \div 2) /\ w \div 2 > 0 /\ w \div 2 \in Nat
    BY Nv12Ends
  <1>2. a \in Nat /\ l.y.offset + a <= LumaEnd(l)
    BY <1>1, Nv12Ends, PlaneArea DEF LumaEnd, PlaneEnd, Nv12LayoutValid
  <1>3. c \in Nat /\ l.uv.offset + c <= ChromaEnd(l)
    BY <1>1, Nv12Ends, PlaneArea DEF ChromaEnd, PlaneEnd, Nv12LayoutValid
  <1>4. w * 2 <= a /\ w * 1 <= c
    BY <1>1, TimesMono
  <1>5. h * 2 <= h * w /\ (h \div 2) * 2 <= (h \div 2) * w
    BY <1>1, TimesMono
  <1>6. h * w = a /\ (h \div 2) * w = c
    BY <1>1, TimesNat
  <1> HIDE DEF a, c
  <1>7. 2 * w <= a /\ w <= c /\ 2 * h <= a /\ h <= c
    BY <1>1, <1>4, <1>5, <1>6
  <1>8. a + c <= U32 /\ l.y.offset < U32 /\ l.uv.offset < U32
    BY <1>1, <1>2, <1>3, <1>7, Nv12Ends, WidthAssumption DEF Nv12LayoutValid
  <1>9. 3 * w <= U32 /\ 3 * h <= U32
    BY <1>1, <1>2, <1>3, <1>7, <1>8, WidthAssumption
  <1>10. w < U32 \div 2 /\ h < U32 \div 2
    BY <1>1, <1>9, WidthAssumption
  <1> QED
    BY <1>8, <1>10 DEF Covered, ToInt

\* A layout that validate_staged_layout accepts is safe for nv12.comp and
\* nv12_planes.comp with a view of nv12_compute_source_span bytes.
LEMMA Nv12ComputeSafe ==
  ASSUME NEW l \in Nv12Type, NEW m, StagedLayoutValid(l, m)
  PROVE  /\ Nv12ReadsExact(l, ComputeSpan(l) \div 4)
         /\ l.y.offset < U32 /\ l.uv.offset < U32
         /\ ComputeSpan(l) <= l.size
  <1>1. Nv12LayoutValid(l) /\ ComputeSpan(l) <= U32 /\ ComputeSpan(l) <= l.size
    BY DEF StagedLayoutValid
  <1>2. Extent(l) \in Nat
    BY <1>1, Nv12Ends
  <1>3. Extent(l) <= U32
    BY <1>1, <1>2, WidthAssumption DEF ComputeSpan
  <1>4. Covered(l) /\ l.y.offset < U32 /\ l.uv.offset < U32
    BY <1>1, <1>3, Nv12Covered
  <1>5. ASSUME NEW x \in Blocks(l.width), NEW y \in Blocks(l.height)
        PROVE  Nv12BlockExact(l, ComputeSpan(l) \div 4, x, y)
    <2> DEFINE inside(a) == a \in Nat /\ a + 1 < Extent(l)
               texels == 0..(ComputeSpan(l) \div 4 - 1)
    <2>1. /\ x \in Nat /\ y \in Nat
          /\ x * 2 + 1 < l.width /\ y * 2 + 1 < l.height /\ y < l.height \div 2
      BY <1>1, <1>4, Nv12Ends DEF Blocks, Covered
    <2>2. \A a : inside(a) => Wrap(a) = a /\ PairTexels(a) \subseteq texels
      BY <1>2, <1>3, WrapSmall, PairInside, WidthAssumption DEF ComputeSpan
    <2> DEFINE first  == l.y.offset + (y * 2) * l.y.pitch + x * 2
               second == l.y.offset + (y * 2 + 1) * l.y.pitch + x * 2
               chroma == l.uv.offset + y * l.uv.pitch + x * 2
    <2>3. x * 2 \in Nat /\ x * 2 + 1 \in Nat /\ y * 2 \in Nat /\ y * 2 + 1 \in Nat
          /\ y * 2 < l.height
      BY <2>1, <1>1, Nv12Ends
    <2>4. inside(first)
      <3>1. l.y.offset + (y * 2) * l.y.pitch + (x * 2 + 1) < LumaEnd(l)
        BY <1>1, <2>1, <2>3, Nv12Ends, RowInside DEF LumaEnd, PlaneEnd
      <3>2. (y * 2) * l.y.pitch \in Nat
        BY <1>1, <2>3, Nv12Ends, TimesNat
      <3> QED
        BY <1>1, <2>3, <3>1, <3>2, Nv12Ends
    <2>5. inside(second)
      <3>1. l.y.offset + (y * 2 + 1) * l.y.pitch + (x * 2 + 1) < LumaEnd(l)
        BY <1>1, <2>1, <2>3, Nv12Ends, RowInside DEF LumaEnd, PlaneEnd
      <3>2. (y * 2 + 1) * l.y.pitch \in Nat
        BY <1>1, <2>3, Nv12Ends, TimesNat
      <3> QED
        BY <1>1, <2>3, <3>1, <3>2, Nv12Ends
    <2>6. inside(chroma)
      <3>1. l.uv.offset + y * l.uv.pitch + (x * 2 + 1) < ChromaEnd(l)
        BY <1>1, <2>1, <2>3, Nv12Ends, RowInside DEF ChromaEnd, PlaneEnd
      <3>2. y * l.uv.pitch \in Nat
        BY <1>1, <2>1, Nv12Ends, TimesNat
      <3> QED
        BY <1>1, <2>3, <3>1, <3>2, Nv12Ends
    <2>7. first + l.y.pitch = second
      <3>1. (y * 2 + 1) * l.y.pitch = (y * 2) * l.y.pitch + l.y.pitch
        BY <1>1, <2>3, Nv12Ends, SMT
      <3> QED
        BY <1>1, <2>3, <3>1, Nv12Ends, TimesNat
    <2> HIDE DEF inside, texels, first, second, chroma
    <2>8. LumaAddr(l, x * 2, y * 2) = first /\ ChromaAddr(l, x, y) = chroma
      BY <2>2, <2>4, <2>6 DEF LumaAddr, ChromaAddr, first, chroma
    <2>9. Wrap(first + l.y.pitch) = second
      BY <2>2, <2>5, <2>7
    <2> QED
      BY <2>2, <2>4, <2>5, <2>6, <2>8, <2>9
         DEF Nv12BlockExact, first, second, chroma, texels
  <1> QED
    BY <1>1, <1>4, <1>5 DEF Nv12ReadsExact

\* A layout that validate_packed_layout and validate_staged_packed_layout accept is
\* safe for packed_to_bgra.comp with a view of the whole object.
LEMMA PackedComputeSafe ==
  ASSUME NEW l \in PackedType, NEW m, PackedLayoutValid(l), StagedPackedValid(l, m)
  PROVE  PackedReadsExact(l, l.size \div 4) /\ l.plane.offset < U32
  <1>1. /\ l.width \in Nat /\ l.height \in Nat /\ l.size \in Nat
        /\ l.plane.offset \in Nat /\ l.plane.pitch \in Nat
    BY DEF PackedType, PlaneType
  <1>2. /\ l.width > 0 /\ l.height > 0 /\ l.plane.pitch >= l.width * 4
        /\ PackedEnd(l) <= l.size /\ l.size <= U32 /\ l.size % 4 = 0
    BY DEF PackedLayoutValid, StagedPackedValid
  <1> DEFINE w == l.width * 4
             area == w * l.height
  <1>3. w \in Nat /\ w >= 4
    BY <1>1, <1>2
  <1>4. area \in Nat /\ l.plane.offset + area <= PackedEnd(l)
    BY <1>1, <1>2, <1>3, PlaneArea DEF PackedEnd
  <1>5. w * 1 <= area /\ l.height * 4 <= l.height * w /\ l.height * w = area
    BY <1>1, <1>2, <1>3, TimesMono, TimesNat
  <1> HIDE DEF area
  <1>6. PackedEnd(l) \in Int
    <2>1. l.plane.pitch * (l.height - 1) \in Nat
      BY <1>1, <1>2, TimesNat
    <2> QED
      BY <1>1, <2>1 DEF PackedEnd
  <1>7. w <= U32 /\ l.height * 4 <= U32 /\ l.plane.offset < U32
    <2>1. w <= area /\ l.height * 4 <= area
      BY <1>3, <1>5
    <2>2. U32 \in Nat
      BY WidthAssumption
    <2>3. l.plane.offset + area <= U32
      BY <1>1, <1>2, <1>4, <1>6, <2>2
    <2> HIDE DEF w
    <2> QED
      BY <1>1, <1>3, <1>4, <2>1, <2>2, <2>3
  <1>8. Covered(l)
    BY <1>1, <1>2, <1>7, WidthAssumption DEF Covered, ToInt
  <1>9. ASSUME NEW x \in 0..(l.width - 1), NEW y \in 0..(l.height - 1)
        PROVE  PackedPixelExact(l, l.size \div 4, x, y)
    <2> DEFINE pixel == l.plane.offset + y * l.plane.pitch + x * 4
    <2>1. x \in Nat /\ y \in Nat /\ y < l.height /\ x * 4 + 3 < w /\ x * 4 \in Nat
      BY <1>1, <1>2
    <2>2. y * l.plane.pitch \in Nat
      BY <1>1, <2>1, TimesNat
    <2>3. pixel \in Nat
      BY <1>1, <2>1, <2>2
    <2>4. l.plane.offset + y * l.plane.pitch + (x * 4 + 3) < PackedEnd(l)
      BY <1>1, <1>3, <2>1, RowInside DEF PackedEnd
    <2>5. pixel + 3 < l.size
      BY <1>1, <1>2, <1>6, <2>1, <2>2, <2>4
    <2> HIDE DEF pixel
    <2>6. \A c \in 0..3 : Wrap(pixel + c) = pixel + c
      BY <1>1, <1>2, <2>3, <2>5, WrapSmall, WidthAssumption
    <2>7. \A c \in 0..3 : (pixel + c) \div 4 \in 0..(l.size \div 4 - 1)
      BY <1>1, <1>2, <2>3, <2>5
    <2>8. PackedAddr(l, x, y) = pixel
      <3>1. Wrap(pixel) = pixel
        BY <1>1, <1>2, <2>3, <2>5, WrapSmall, WidthAssumption
      <3> QED
        BY <3>1 DEF PackedAddr, pixel
    <2> QED
      BY <2>6, <2>7, <2>8 DEF PackedPixelExact, pixel
  <1> QED
    BY <1>7, <1>8, <1>9 DEF PackedReadsExact

\* A layout that validate_transfer_layout accepts is copied row by row inside a
\* buffer of nv12_transfer_source_span bytes.
LEMMA TransferSafe ==
  ASSUME NEW l \in Nv12Type, TransferLayoutValid(l)
  PROVE  TransferReadsExact(l, TransferSpan(l)) /\ TransferSpan(l) <= l.size
  <1>1. Nv12LayoutValid(l) /\ l.uv.pitch % 2 = 0
    BY DEF TransferLayoutValid, Even
  <1>2. (l.uv.pitch \div 2) * 2 = l.uv.pitch /\ (l.width \div 2) * 2 = l.width
    BY <1>1, Nv12Ends
  <1>3. l.height - 1 \in Nat /\ (l.height \div 2) - 1 \in Nat
    BY <1>1, Nv12Ends
  <1>4. /\ (l.height - 1) * l.y.pitch = l.y.pitch * (l.height - 1)
        /\ ((l.height \div 2) - 1) * l.uv.pitch = l.uv.pitch * ((l.height \div 2) - 1)
    BY <1>1, <1>3, Nv12Ends, TimesNat
  <1>5. l.y.pitch * 1 = l.y.pitch /\ l.width * 1 = l.width
    BY <1>1, Nv12Ends
  <1>6. RegionEnd(l.y.offset, l.y.pitch, 1, l.width, l.height) = LumaEnd(l)
    BY <1>4, <1>5 DEF RegionEnd, LumaEnd, PlaneEnd
  <1>7. RegionEnd(l.uv.offset, l.uv.pitch \div 2, 2, l.width \div 2, l.height \div 2)
          = ChromaEnd(l)
    BY <1>2, <1>4 DEF RegionEnd, ChromaEnd, PlaneEnd
  <1>8. Extent(l) <= l.size
    BY <1>1 DEF Extent, Larger, Nv12LayoutValid
  <1> QED
    BY <1>1, <1>6, <1>7, <1>8, Nv12Ends DEF TransferReadsExact, TransferSpan

-----------------------------------------------------------------------------
(* The invariant.                                                          *)

StrategiesOf(kind) ==
  IF kind = "nv12"
  THEN {"DirectImageToOptimalYuvPlanes", "LinearBufferToOptimalYuvPlanes",
        "LinearBufferToYuvPlanes", "LinearBufferToRgba"}
  ELSE {"DirectSampledImage", "LinearBufferToOptimalBgra"}

CapsInv  == \A c \in caps : c.strategy \in StrategiesOf("nv12")
CacheInv == \A e \in cache : e.size = BufferSize(e.key.layout, e.key.strategy)
PlanInv  ==
  plan # None =>
    /\ plan.request \in requests
    /\ plan.strategy \in StrategiesOf(plan.request.kind)
    /\ LayoutValid(plan.request, plan.strategy)
    /\ plan.request.layout.size = plan.request.actual
    /\ plan.size = BufferSize(plan.request.layout, plan.strategy)

\* A cached source covers what its key asks for, and the frame on the GPU passed
\* the checks of its strategy with a source of its own layout.
Inv == scenario \in Scenarios /\ CapsInv /\ CacheInv /\ PlanInv

\* A request of the stream is typed.
LEMMA Typed ==
  ASSUME scenario \in Scenarios, NEW r \in requests
  PROVE  /\ r.actual \in Nat
         /\ \/ r.kind = "nv12" /\ r.layout \in Nv12Type
            \/ r.kind = "packed" /\ r.layout \in PackedType
  BY RequestsAssumption DEF requests

\* The invariant implies the property.
LEMMA InvReadsExact ==
  ASSUME Inv
  PROVE  ReadsExact
  <1> SUFFICES ASSUME plan # None PROVE ReadsExact
    BY DEF ReadsExact
  <1> DEFINE r == plan.request
             l == plan.request.layout
             s == plan.strategy
  <1>1. /\ r \in requests /\ s \in StrategiesOf(r.kind) /\ LayoutValid(r, s)
        /\ l.size = r.actual /\ plan.size = BufferSize(l, s)
    BY DEF Inv, PlanInv
  <1>2. /\ r.actual \in Nat
        /\ \/ r.kind = "nv12" /\ l \in Nv12Type
           \/ r.kind = "packed" /\ l \in PackedType
    BY <1>1, Typed DEF Inv
  <1>3. CASE s = "DirectSampledImage" \/ s = "DirectImageToOptimalYuvPlanes"
    BY <1>1, <1>2, <1>3 DEF ReadsExact, BufferSize
  <1>4. CASE s = "LinearBufferToOptimalBgra"
    <2>1. l \in PackedType
      BY <1>1, <1>2, <1>4 DEF StrategiesOf
    <2>2. PackedLayoutValid(l) /\ StagedPackedValid(l, device.texels) /\ plan.size = l.size
      BY <1>1, <1>4 DEF LayoutValid, BufferSize
    <2> QED
      BY <1>1, <1>2, <1>4, <2>1, <2>2, PackedComputeSafe DEF ReadsExact
  <1>5. CASE s = "LinearBufferToOptimalYuvPlanes"
    <2>1. l \in Nv12Type
      BY <1>1, <1>2, <1>5 DEF StrategiesOf
    <2>2. TransferLayoutValid(l) /\ plan.size = TransferSpan(l)
      BY <1>1, <1>5 DEF LayoutValid, BufferSize
    <2> QED
      BY <1>1, <1>2, <1>5, <2>1, <2>2, TransferSafe DEF ReadsExact
  <1>6. CASE s = "LinearBufferToYuvPlanes" \/ s = "LinearBufferToRgba"
    <2>1. l \in Nv12Type
      BY <1>1, <1>2, <1>6 DEF StrategiesOf
    <2>2. StagedLayoutValid(l, device.texels) /\ plan.size = ComputeSpan(l)
      BY <1>1, <1>6 DEF LayoutValid, BufferSize
    <2> QED
      BY <1>1, <1>2, <1>6, <2>1, <2>2, Nv12ComputeSafe DEF ReadsExact
  <1> QED
    BY <1>1, <1>2, <1>3, <1>4, <1>5, <1>6 DEF StrategiesOf

\* The inventory issues NV12 strategies only.
LEMMA InventoryStrategies ==
  ASSUME NEW d, NEW p, NEW c \in Inventory(d, p)
  PROVE  c.strategy \in StrategiesOf("nv12")
  BY DEF Inventory, DirectCandidates, LinearCandidates, TransferCandidates,
         ComputeCandidates, Capability, StrategiesOf

\* A strategy that resolves is one of the request's kind.
LEMMA ResolvedStrategy ==
  ASSUME CapsInv, NEW r, r.kind \in {"nv12", "packed"}, NEW s \in Strategies(r)
  PROVE  s \in StrategiesOf(r.kind)
  <1>1. CASE r.kind = "packed"
    BY <1>1 DEF Strategies, PackedStrategy, StrategiesOf
  <1>2. CASE r.kind = "nv12"
    BY <1>2 DEF Strategies, Resolve, CapsInv, StrategiesOf
  <1> QED
    BY <1>1, <1>2

\* Importing a frame keeps the invariant: a source found by its key has the size
\* that a new one would have.
LEMMA ImportInv ==
  ASSUME Inv, ImportFrame
  PROVE  Inv'
  <1>0. PICK r \in requests : \E s \in Strategies(r) : Import(r, s)
    BY DEF ImportFrame
  <1>1. PICK s \in Strategies(r) : Import(r, s)
    BY <1>0
  <1> DEFINE new == [key |-> Key(r, s), size |-> BufferSize(r.layout, s)]
  <1>2. PICK e \in {new} \cup cache :
          /\ e.key = Key(r, s)
          /\ cache' = cache \cup {e}
          /\ plan' = [request |-> r, strategy |-> s, size |-> e.size]
    BY <1>1 DEF Import
  <1>3. UNCHANGED <<scenario, caps, pipelines, stage>>
    BY <1>1 DEF Import
  <1>4. LayoutValid(r, s) /\ r.layout.size = r.actual
    BY <1>1 DEF Import
  <1>5. Key(r, s).layout = r.layout /\ Key(r, s).strategy = s
    BY DEF Key
  <1>6. new.key = Key(r, s) /\ new.size = BufferSize(r.layout, s)
    OBVIOUS
  <1> HIDE DEF new
  <1>7. e.size = BufferSize(e.key.layout, e.key.strategy)
    <2>1. CASE e \in cache
      BY <2>1 DEF Inv, CacheInv
    <2>2. CASE e = new
      BY <2>2, <1>5, <1>6
    <2> QED
      BY <2>1, <2>2, <1>2
  <1>8. e.size = BufferSize(r.layout, s)
    BY <1>2, <1>5, <1>7
  <1>9. CacheInv'
    <2>1. \A f \in cache' : f.size = BufferSize(f.key.layout, f.key.strategy)
      BY <1>2, <1>7 DEF Inv, CacheInv
    <2> QED
      BY <2>1 DEF CacheInv, BufferSize, TransferSpan, ComputeSpan, Extent, LumaEnd, ChromaEnd, PlaneEnd
  <1>10. s \in StrategiesOf(r.kind)
    BY ResolvedStrategy, Typed DEF Inv
  <1>11. LayoutValid(r, s)'
    BY <1>3, <1>4 DEF LayoutValid, device
  <1>12. PlanInv'
    <2>1. plan'.request = r /\ plan'.strategy = s /\ plan'.size = e.size
      BY <1>2
    <2>2. r \in requests'
      BY <1>3 DEF requests
    <2> QED
      BY <1>4, <1>8, <1>10, <1>11, <2>1, <2>2 DEF PlanInv
  <1>13. scenario' \in Scenarios /\ CapsInv'
    BY <1>3 DEF Inv, CapsInv
  <1> QED
    BY <1>9, <1>12, <1>13 DEF Inv

\* The invariant is inductive.
LEMMA InvStep ==
  ASSUME Inv, [Next]_vars
  PROVE  Inv'
  <1>1. CASE NewImporter
    <2>1. UNCHANGED <<scenario, cache, plan>> /\ caps' = Inventory(device, pref)
      BY <1>1 DEF NewImporter
    <2>2. CapsInv'
      BY <2>1, InventoryStrategies DEF CapsInv
    <2> QED
      BY <2>1, <2>2 DEF Inv, CacheInv, PlanInv, requests, device, LayoutValid
  <1>2. CASE ImportFrame
    BY <1>2, ImportInv
  <1>3. CASE DropImage
    BY <1>3 DEF DropImage, Inv, CapsInv, CacheInv, PlanInv
  <1>4. CASE EvictStream
    BY <1>4 DEF EvictStream, Inv, CapsInv, CacheInv, PlanInv, requests, device, LayoutValid
  <1>5. CASE UNCHANGED vars
    BY <1>5 DEF vars, Inv, CapsInv, CacheInv, PlanInv, requests, device, LayoutValid
  <1> QED
    BY <1>1, <1>2, <1>3, <1>4, <1>5 DEF Next

\* Every frame the importer admits is read exactly, for every integer width, every
\* device and every layout that the validators accept, whatever was cached before
\* (import_nv12_shared_object, import_packed_with_strategy and the shaders).
THEOREM ReadsExactAlways == Spec => []ReadsExact
  <1>1. Init => Inv
    BY DEF Init, Inv, CapsInv, CacheInv, PlanInv
  <1>2. Inv /\ [Next]_vars => Inv'
    BY InvStep
  <1>3. Inv => ReadsExact
    BY InvReadsExact
  <1> QED
    BY <1>1, <1>2, <1>3, PTL DEF Spec

-----------------------------------------------------------------------------
(* Every capability that is issued is honoured.                            *)

Preferences == {"PreferPlanar", "RequirePlanar", "RequireRgba"}

\* What the device tells the importer about its formats is typed.
Device(d) ==
  /\ \A f \in {"luma", "chroma", "rgba"} : d.extent[f] \in SizeType \cup {None}
  /\ \A m \in d.modifiers : m.extent \in SizeType \cup {None}

\* A capability keeps what validate_nv12_modifier_capability asks of it, and its
\* extent keeps every image its strategy writes within the limits of its format.
Honoured(d, p, c) ==
  /\ c.extent \in SizeType /\ c.importable /\ PolicyAllows(p, c.strategy)
  /\ \/ /\ c.strategy = "DirectImageToOptimalYuvPlanes"
        /\ c.modifier # Linear /\ c.planes = 2 /\ "transfer_src" \in c.source
        /\ Sampled \cup Transfer \subseteq c.sampled
     \/ /\ c.strategy = "LinearBufferToOptimalYuvPlanes"
        /\ c.modifier = Linear /\ Sampled \cup Transfer \subseteq c.sampled
     \/ /\ c.strategy \in {"LinearBufferToYuvPlanes", "LinearBufferToRgba"}
        /\ c.modifier = Linear /\ Sampled \cup {"storage"} \subseteq c.sampled
  /\ \A w \in 1..c.extent.width, h \in 1..c.extent.height :
       \A f \in DOMAIN Outputs(c.strategy, w, h) :
         /\ Outputs(c.strategy, w, h)[f].width <= d.extent[f].width
         /\ Outputs(c.strategy, w, h)[f].height <= d.extent[f].height

\* The smaller of two limits is within both, and twice a chroma limit, cut to a
\* u32, never lets a picture in whose half exceeds it.
LEMMA Limits ==
  ASSUME NEW a \in Nat, NEW b \in Nat
  PROVE  /\ Smaller(a, b) \in Nat /\ Smaller(a, b) <= a /\ Smaller(a, b) <= b
         /\ Saturated(b) \in Nat
         /\ \A w \in Nat : w <= Saturated(b * 2) => w \div 2 \in Nat /\ w \div 2 <= b
  <1>1. U32 \in Nat /\ U32 >= 1
    BY WidthAssumption
  <1>2. /\ Smaller(a, b) \in Nat /\ Smaller(a, b) <= a /\ Smaller(a, b) <= b
        /\ Saturated(b) \in Nat
    BY <1>1 DEF Smaller, Saturated
  <1>3. ASSUME NEW w \in Nat, w <= Saturated(b * 2)
        PROVE  w \div 2 \in Nat /\ w \div 2 <= b
    <2>1. b * 2 \in Nat /\ w <= b * 2
      BY <1>1, <1>3 DEF Saturated
    <2> QED
      BY <2>1
  <1> QED
    BY <1>2, <1>3

\* A frame within the planar extent has planes within theirs.
LEMMA PlanarFits ==
  ASSUME NEW d, d.extent["luma"] \in SizeType, d.extent["chroma"] \in SizeType
  PROVE  /\ PlanarExtent(d) \in SizeType
         /\ \A w \in Nat : w <= PlanarExtent(d).width =>
              w <= d.extent["luma"].width /\ w \div 2 <= d.extent["chroma"].width
         /\ \A h \in Nat : h <= PlanarExtent(d).height =>
              h <= d.extent["luma"].height /\ h \div 2 <= d.extent["chroma"].height
  <1> DEFINE L == d.extent["luma"]
             C == d.extent["chroma"]
             cw == Saturated(C.width * 2)
             ch == Saturated(C.height * 2)
  <1>1. /\ L.width \in Nat /\ L.height \in Nat /\ C.width \in Nat /\ C.height \in Nat
        /\ C.width * 2 \in Nat /\ C.height * 2 \in Nat
    BY DEF SizeType
  <1>2. /\ PlanarExtent(d).width = Smaller(L.width, cw)
        /\ PlanarExtent(d).height = Smaller(L.height, ch)
        /\ PlanarExtent(d) = [width |-> Smaller(L.width, cw), height |-> Smaller(L.height, ch)]
    BY DEF PlanarExtent
  <1>3. cw \in Nat /\ ch \in Nat
    BY <1>1, Limits
  <1>4. /\ \A w \in Nat : w <= cw => w \div 2 <= C.width
        /\ \A h \in Nat : h <= ch => h \div 2 <= C.height
    BY <1>1, Limits
  <1> HIDE DEF L, C, cw, ch
  <1>5. /\ Smaller(L.width, cw) \in Nat /\ Smaller(L.width, cw) <= L.width
        /\ Smaller(L.width, cw) <= cw
        /\ Smaller(L.height, ch) \in Nat /\ Smaller(L.height, ch) <= L.height
        /\ Smaller(L.height, ch) <= ch
    BY <1>1, <1>3, Limits
  <1>6. PlanarExtent(d) \in SizeType
    BY <1>2, <1>5 DEF SizeType
  <1>7. ASSUME NEW w \in Nat, w <= PlanarExtent(d).width
        PROVE  w <= L.width /\ w \div 2 <= C.width
    <2>1. w <= L.width /\ w <= cw
      BY <1>1, <1>2, <1>3, <1>5, <1>7
    <2> QED
      BY <1>4, <2>1
  <1>8. ASSUME NEW h \in Nat, h <= PlanarExtent(d).height
        PROVE  h <= L.height /\ h \div 2 <= C.height
    <2>1. h <= L.height /\ h <= ch
      BY <1>1, <1>2, <1>3, <1>5, <1>8
    <2> QED
      BY <1>4, <2>1
  <1> QED
    BY <1>6, <1>7, <1>8 DEF L, C

\* The planes of a frame within an extent that lies within the planar extent.
LEMMA PlanesWithin ==
  ASSUME NEW d, NEW s, d.extent["luma"] \in SizeType, d.extent["chroma"] \in SizeType,
         s # "LinearBufferToRgba", NEW e \in SizeType,
         e.width <= PlanarExtent(d).width, e.height <= PlanarExtent(d).height
  PROVE  \A w \in 1..e.width, h \in 1..e.height : \A f \in DOMAIN Outputs(s, w, h) :
           /\ Outputs(s, w, h)[f].width <= d.extent[f].width
           /\ Outputs(s, w, h)[f].height <= d.extent[f].height
  <1> TAKE w \in 1..e.width, h \in 1..e.height
  <1>1. /\ e.width \in Nat /\ e.height \in Nat
        /\ PlanarExtent(d).width \in Nat /\ PlanarExtent(d).height \in Nat
    BY PlanarFits DEF SizeType
  <1>2. /\ w \in Nat /\ w <= PlanarExtent(d).width
        /\ h \in Nat /\ h <= PlanarExtent(d).height
    BY <1>1
  <1>3. /\ w <= d.extent["luma"].width /\ w \div 2 <= d.extent["chroma"].width
        /\ h <= d.extent["luma"].height /\ h \div 2 <= d.extent["chroma"].height
    BY <1>2, PlanarFits
  <1>4. Outputs(s, w, h) = [luma   |-> [width |-> w, height |-> h],
                            chroma |-> [width |-> w \div 2, height |-> h \div 2]]
    BY DEF Outputs
  <1> QED
    BY <1>3, <1>4

\* Planar staging is queried for both formats.
LEMMA PlanarQueried ==
  ASSUME NEW d, Device(d), NEW required, QueryPlanar(d, required)
  PROVE  /\ d.extent["luma"] \in SizeType /\ d.extent["chroma"] \in SizeType
         /\ required \subseteq PlanarFeatures(d)
  BY DEF Device, QueryPlanar, QueryOptimal, PlanarFeatures

\* The images that are copied plane by plane.
LEMMA DirectHonoured ==
  ASSUME NEW d, Device(d), NEW c \in DirectCandidates(d)
  PROVE  Honoured(d, "PreferPlanar", c)
  <1>1. QueryPlanar(d, Sampled \cup Transfer)
    BY DEF DirectCandidates
  <1>2. PICK m \in d.modifiers :
          /\ m.modifier # Linear /\ m.planes = 2 /\ "transfer_src" \in m.features
          /\ m.extent # None
          /\ c = Capability(m, "DirectImageToOptimalYuvPlanes", PlanarFeatures(d),
                   [width  |-> Smaller(m.extent.width, PlanarExtent(d).width),
                    height |-> Smaller(m.extent.height, PlanarExtent(d).height)], TRUE)
    BY <1>1 DEF DirectCandidates
  <1>3. /\ c.modifier = m.modifier /\ c.planes = m.planes /\ c.source = m.features
        /\ c.strategy = "DirectImageToOptimalYuvPlanes" /\ c.importable
        /\ c.sampled = PlanarFeatures(d)
        /\ c.extent = [width  |-> Smaller(m.extent.width, PlanarExtent(d).width),
                       height |-> Smaller(m.extent.height, PlanarExtent(d).height)]
    BY <1>2 DEF Capability
  <1>4. m.extent \in SizeType /\ PlanarExtent(d) \in SizeType
    BY <1>1, <1>2, PlanarQueried, PlanarFits DEF Device
  <1>5. /\ m.extent.width \in Nat /\ m.extent.height \in Nat
        /\ PlanarExtent(d).width \in Nat /\ PlanarExtent(d).height \in Nat
    BY <1>4 DEF SizeType
  <1>6. /\ Smaller(m.extent.width, PlanarExtent(d).width) \in Nat
        /\ Smaller(m.extent.width, PlanarExtent(d).width) <= PlanarExtent(d).width
        /\ Smaller(m.extent.height, PlanarExtent(d).height) \in Nat
        /\ Smaller(m.extent.height, PlanarExtent(d).height) <= PlanarExtent(d).height
    BY <1>5, Limits
  <1>7. /\ c.extent \in SizeType /\ c.extent.width <= PlanarExtent(d).width
        /\ c.extent.height <= PlanarExtent(d).height
    BY <1>3, <1>6 DEF SizeType
  <1>8. \A w \in 1..c.extent.width, h \in 1..c.extent.height :
          \A f \in DOMAIN Outputs(c.strategy, w, h) :
            /\ Outputs(c.strategy, w, h)[f].width <= d.extent[f].width
            /\ Outputs(c.strategy, w, h)[f].height <= d.extent[f].height
    BY <1>1, <1>3, <1>7, PlanarQueried, PlanesWithin
  <1>9. PolicyAllows("PreferPlanar", c.strategy) /\ Sampled \cup Transfer \subseteq c.sampled
    BY <1>1, <1>3, PlanarQueried DEF PolicyAllows
  <1> QED
    BY <1>2, <1>3, <1>7, <1>8, <1>9 DEF Honoured

\* A linear DMA-BUF that is copied or converted to planes.
LEMMA PlanarHonoured ==
  ASSUME NEW d, Device(d), NEW p \in Preferences, NEW m, m.modifier = Linear,
         NEW s, NEW required, QueryPlanar(d, required),
         \/ s = "LinearBufferToOptimalYuvPlanes" /\ p = "PreferPlanar"
         \/ s = "LinearBufferToYuvPlanes" /\ p # "RequireRgba" /\ "storage" \in required,
         Sampled \cup Transfer \subseteq required
  PROVE  Honoured(d, p, Capability(m, s, PlanarFeatures(d), PlanarExtent(d), TRUE))
  <1> DEFINE c == Capability(m, s, PlanarFeatures(d), PlanarExtent(d), TRUE)
  <1>1. /\ c.modifier = Linear /\ c.strategy = s /\ c.importable
        /\ c.sampled = PlanarFeatures(d) /\ c.extent = PlanarExtent(d)
    BY DEF Capability
  <1> HIDE DEF c
  <1>2. /\ PlanarExtent(d) \in SizeType /\ required \subseteq PlanarFeatures(d)
        /\ d.extent["luma"] \in SizeType /\ d.extent["chroma"] \in SizeType
    BY PlanarQueried, PlanarFits
  <1>3. PlanarExtent(d).width \in Nat /\ PlanarExtent(d).height \in Nat
    BY <1>2 DEF SizeType
  <1>4. PlanarExtent(d).width <= PlanarExtent(d).width
        /\ PlanarExtent(d).height <= PlanarExtent(d).height
    BY <1>3
  <1>5. \A w \in 1..c.extent.width, h \in 1..c.extent.height :
          \A f \in DOMAIN Outputs(c.strategy, w, h) :
            /\ Outputs(c.strategy, w, h)[f].width <= d.extent[f].width
            /\ Outputs(c.strategy, w, h)[f].height <= d.extent[f].height
    BY <1>1, <1>2, <1>4, PlanesWithin
  <1>6. PolicyAllows(p, s)
    BY DEF PolicyAllows, Preferences
  <1>7. Honoured(d, p, c)
    BY <1>1, <1>2, <1>5, <1>6 DEF Honoured
  <1> QED
    BY <1>7 DEF c

\* A linear DMA-BUF that is converted to one RGBA image.
LEMMA RgbaHonoured ==
  ASSUME NEW d, Device(d), NEW p \in Preferences, p # "RequirePlanar",
         NEW m, m.modifier = Linear,
         QueryOptimal(d, "rgba", Sampled \cup Transfer \cup {"storage"})
  PROVE  Honoured(d, p, Capability(m, "LinearBufferToRgba", d.features["rgba"],
                                   d.extent["rgba"], TRUE))
  <1> DEFINE c == Capability(m, "LinearBufferToRgba", d.features["rgba"], d.extent["rgba"], TRUE)
  <1>1. /\ c.modifier = Linear /\ c.strategy = "LinearBufferToRgba" /\ c.importable
        /\ c.sampled = d.features["rgba"] /\ c.extent = d.extent["rgba"]
    BY DEF Capability
  <1> HIDE DEF c
  <1>2. /\ d.extent["rgba"] \in SizeType
        /\ Sampled \cup {"storage"} \subseteq d.features["rgba"]
    BY DEF Device, QueryOptimal
  <1>3. ASSUME NEW w \in 1..c.extent.width, NEW h \in 1..c.extent.height,
               NEW f \in DOMAIN Outputs(c.strategy, w, h)
        PROVE  /\ Outputs(c.strategy, w, h)[f].width <= d.extent[f].width
               /\ Outputs(c.strategy, w, h)[f].height <= d.extent[f].height
    <2>1. Outputs(c.strategy, w, h) = [rgba |-> [width |-> w, height |-> h]]
      BY <1>1 DEF Outputs
    <2>2. d.extent["rgba"].width \in Nat /\ d.extent["rgba"].height \in Nat
      BY <1>2 DEF SizeType
    <2>3. w <= d.extent["rgba"].width /\ h <= d.extent["rgba"].height
      BY <1>1, <2>2
    <2> QED
      BY <2>1, <2>3
  <1>4. PolicyAllows(p, "LinearBufferToRgba")
    BY DEF PolicyAllows, Preferences
  <1>5. Honoured(d, p, c)
    BY <1>1, <1>2, <1>3, <1>4 DEF Honoured
  <1> QED
    BY <1>5 DEF c

\* The inventory issues nothing else.
LEMMA InventoryHonoured ==
  ASSUME NEW d, Device(d), NEW p \in Preferences, NEW c \in Inventory(d, p)
  PROVE  Honoured(d, p, c)
  <1>1. CASE p = "PreferPlanar" /\ c \in DirectCandidates(d)
    BY <1>1, DirectHonoured
  <1>2. ASSUME NEW m \in d.modifiers, m.modifier = Linear, c \in LinearCandidates(d, m, p)
        PROVE  Honoured(d, p, c)
    <2> DEFINE required == Sampled \cup Transfer \cup {"storage"}
    <2>1. CASE p = "PreferPlanar" /\ c \in TransferCandidates(d, m)
      <3>1. /\ QueryPlanar(d, Sampled \cup Transfer)
            /\ c = Capability(m, "LinearBufferToOptimalYuvPlanes", PlanarFeatures(d),
                              PlanarExtent(d), TRUE)
        BY <2>1 DEF TransferCandidates
      <3> QED
        BY <1>2, <2>1, <3>1, PlanarHonoured
    <2>2. CASE c \in ComputeCandidates(d, m, p)
      <3>1. CASE /\ p # "RequireRgba" /\ QueryPlanar(d, required)
                 /\ c = Capability(m, "LinearBufferToYuvPlanes", PlanarFeatures(d),
                                   PlanarExtent(d), TRUE)
        BY <1>2, <3>1, PlanarHonoured
      <3>2. CASE /\ p # "RequirePlanar" /\ QueryOptimal(d, "rgba", required)
                 /\ c = Capability(m, "LinearBufferToRgba", d.features["rgba"],
                                   d.extent["rgba"], TRUE)
        BY <1>2, <3>2, RgbaHonoured
      <3> QED
        BY <2>2, <3>1, <3>2 DEF ComputeCandidates
    <2> QED
      BY <1>2, <2>1, <2>2 DEF LinearCandidates
  <1> QED
    BY <1>1, <1>2 DEF Inventory

\* A frame within the extent of an honoured capability passes its validation.
LEMMA HonouredValid ==
  ASSUME NEW d, NEW p, NEW c, Honoured(d, p, c),
         NEW w \in 1..c.extent.width, NEW h \in 1..c.extent.height
  PROVE  ValidCapability(c, w, h)
  <1>1. c.extent.width \in Nat /\ c.extent.height \in Nat
    BY DEF Honoured, SizeType
  <1>2. w > 0 /\ h > 0 /\ w <= c.extent.width /\ h <= c.extent.height
    BY <1>1
  <1>3. CASE c.strategy = "DirectImageToOptimalYuvPlanes"
    BY <1>2, <1>3 DEF Honoured, ValidCapability
  <1>4. CASE c.strategy = "LinearBufferToOptimalYuvPlanes"
    BY <1>2, <1>4 DEF Honoured, ValidCapability
  <1>5. CASE c.strategy \in {"LinearBufferToYuvPlanes", "LinearBufferToRgba"}
    BY <1>2, <1>5 DEF Honoured, ValidCapability
  <1> QED
    BY <1>3, <1>4, <1>5 DEF Honoured

\* An importer that is ready holds the inventory of its device and the pipelines
\* that it asks for.
Issued ==
  /\ scenario \in Scenarios
  /\ stage = "ready" =>
       /\ caps = Inventory(device, pref)
       /\ \A c \in caps : Pipeline(c.strategy) \subseteq pipelines
       /\ PackedStaging(device, Linear) => "packed" \in pipelines

LEMMA IssuedImplies == Issued => IssuedUsable
  <1> SUFFICES ASSUME Issued, stage = "ready" PROVE IssuedUsable
    BY DEF IssuedUsable
  <1>1. Device(device) /\ pref \in Preferences
    BY ScenariosAssumption DEF Issued, Device, Preferences, device, pref
  <1>2. \A c \in caps : Honoured(device, pref, c)
    BY <1>1, InventoryHonoured DEF Issued
  <1>3. ASSUME NEW c \in caps, NEW w \in 1..c.extent.width, NEW h \in 1..c.extent.height
        PROVE  c \in Resolve(c.modifier, w, h)
    BY <1>2, HonouredValid DEF Resolve
  <1>4. ASSUME NEW r \in requests, PackedStaging(device, r.modifier)
        PROVE  PackedStrategy(r) # {}
    <2>1. "packed" \in pipelines
      BY <1>4 DEF Issued, PackedStaging
    <2> QED
      BY <1>4, <2>1 DEF PackedStrategy
  <1>5. \A c \in caps : /\ PolicyAllows(pref, c.strategy)
                        /\ Pipeline(c.strategy) \subseteq pipelines
    BY <1>2 DEF Honoured, Issued
  <1>6. \A c \in caps : \A w \in 1..c.extent.width, h \in 1..c.extent.height :
          \A f \in DOMAIN Outputs(c.strategy, w, h) :
            /\ Outputs(c.strategy, w, h)[f].width <= device.extent[f].width
            /\ Outputs(c.strategy, w, h)[f].height <= device.extent[f].height
    BY <1>2 DEF Honoured
  <1> QED
    BY <1>3, <1>4, <1>5, <1>6 DEF IssuedUsable

LEMMA IssuedStep ==
  ASSUME Issued, [Next]_vars
  PROVE  Issued'
  <1>1. CASE NewImporter
    <2>1. /\ scenario' = scenario /\ caps' = Inventory(device, pref)
          /\ \A name \in {"rgba", "planar", "packed"} :
               name \in pipelines' <=> \/ \E c \in caps' : name \in Pipeline(c.strategy)
                                       \/ name = "packed" /\ PackedStaging(device, Linear)
      BY <1>1 DEF NewImporter
    <2>2. device' = device /\ pref' = pref
      BY <2>1 DEF device, pref
    <2>3. PackedStaging(device, Linear)' <=> PackedStaging(device, Linear)
      BY <2>2, Zenon DEF PackedStaging, QueryOptimal
    <2>4. PackedStaging(device, Linear) => "packed" \in pipelines'
      BY <2>1, Zenon
    <2>5. \A c \in caps' : Pipeline(c.strategy) \subseteq pipelines'
      BY <2>1 DEF Pipeline
    <2> QED
      BY <2>1, <2>2, <2>3, <2>4, <2>5, Zenon DEF Issued
  <1>2. CASE UNCHANGED <<scenario, caps, pipelines, stage>>
    <2>1. device' = device /\ pref' = pref
      BY <1>2 DEF device, pref
    <2> QED
      BY <1>2, <2>1 DEF Issued
  <1> QED
    BY <1>1, <1>2 DEF Next, vars, ImportFrame, Import, DropImage, EvictStream

\* Whatever the device answers, a capability that the importer issues is one it
\* can honour for every frame size within its extent (inventory_nv12_modifier_
\* capabilities..., validate_nv12_modifier_capability, packed_import_strategy).
THEOREM IssuedAlwaysUsable == Spec => []IssuedUsable
  <1>1. Init => Issued
    BY DEF Init, Issued
  <1> QED
    BY <1>1, IssuedStep, IssuedImplies, PTL DEF Spec
=============================================================================
