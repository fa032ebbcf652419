---------------------------- MODULE FrameLayout ----------------------------
(***************************************************************************)
(* The arithmetic of frame layouts (rust/video-interop/src/vulkan/mod.rs   *)
(* and the shaders nv12.comp, nv12_planes.comp, packed_to_bgra.comp): what *)
(* the validators accept, how many bytes an import covers, and which bytes *)
(* the GPU then reads.  A u32 wraps in a shader and is widened to u64 by   *)
(* the validators, whose additions are checked.                            *)
(***************************************************************************)
EXTENDS Integers

CONSTANTS
  U32,   \* u32::MAX + 1
  U64    \* u64::MAX + 1

ASSUME WidthAssumption ==
  /\ U32 \in Nat \ {0} /\ U32 % 4 = 0
  /\ U64 \in Nat /\ U32 * U32 <= U64

\* A plane is [offset, pitch]; the layout of an NV12 frame in one object is
\* [width, height, size, y, uv].
Even(n) == n % 2 = 0
Larger(a, b) == IF a < b THEN b ELSE a

-----------------------------------------------------------------------------
(* NV12.                                                                   *)

\* plane_end: the product of two u32 fits; a sum that does not is an error.
PlaneEnd(p, rows, width) == p.offset + p.pitch * (rows - 1) + width

LumaEnd(l)   == PlaneEnd(l.y, l.height, l.width)
ChromaEnd(l) == PlaneEnd(l.uv, l.height \div 2, l.width)
Extent(l)    == Larger(LumaEnd(l), ChromaEnd(l))

\* validate_nv12_shared_layout
Nv12LayoutValid(l) ==
  /\ l.width > 0 /\ l.height > 0 /\ Even(l.width) /\ Even(l.height)
  /\ l.y.pitch >= l.width /\ l.uv.pitch >= l.width /\ Even(l.uv.pitch)
  /\ LumaEnd(l) < U64 /\ ChromaEnd(l) < U64
  /\ LumaEnd(l) <= l.size /\ ChromaEnd(l) <= l.size
  /\ LumaEnd(l) <= l.uv.offset \/ ChromaEnd(l) <= l.y.offset

\* nv12_compute_source_span: whole R32 texels.
ComputeSpan(l) == ((Extent(l) + 3) \div 4) * 4

\* validate_staged_layout
StagedLayoutValid(l, maxTexels) ==
  /\ Nv12LayoutValid(l) /\ Extent(l) + 3 < U64
  /\ ComputeSpan(l) <= U32
  /\ ComputeSpan(l) <= l.size
  /\ ComputeSpan(l) \div 4 <= maxTexels

\* validate_transfer_layout
TransferLayoutValid(l) ==
  /\ Nv12LayoutValid(l) /\ l.size > 0
  /\ l.y.offset % 4 = 0 /\ l.uv.offset % 4 = 0 /\ Even(l.uv.pitch)

\* nv12_transfer_source_span
TransferSpan(l) == Extent(l)

-----------------------------------------------------------------------------
(* Packed pixels, [width, height, size, plane].                            *)

PackedEnd(l) == l.plane.offset + l.plane.pitch * (l.height - 1) + l.width * 4

\* validate_image_inputs and validate_packed_layout
PackedLayoutValid(l) ==
  /\ l.width > 0 /\ l.height > 0 /\ l.plane.pitch > 0 /\ l.size > 0
  /\ l.plane.pitch >= l.width * 4
  /\ PackedEnd(l) < U64 /\ PackedEnd(l) <= l.size

\* validate_staged_packed_layout
StagedPackedValid(l, maxTexels) ==
  l.size % 4 = 0 /\ l.size <= U32 /\ l.size \div 4 <= maxTexels

-----------------------------------------------------------------------------
(* What the GPU reads.                                                     *)

\* uint arithmetic, and int(x) of a uint.
Wrap(n)  == n % U32
ToInt(n) == IF n < U32 \div 2 THEN n ELSE n - U32

\* load_pair: the texels of the bytes o and o + 1.
PairTexels(o) == IF o % 4 <= 2 THEN {o \div 4} ELSE {o \div 4, o \div 4 + 1}

\* The first pixels, along one axis, of the 2x2 blocks that main() of the NV12
\* shaders does not return from.
Blocks(extent) == {b \in 0..(extent \div 2) : b * 2 < ToInt(extent)}

\* y_offset + y * y_pitch + x
LumaAddr(l, x, y)   == Wrap(l.y.offset + y * l.y.pitch + x)
\* uv_offset + y * uv_pitch + x * 2; load_chroma clamps x and y into the plane.
ChromaAddr(l, x, y) == Wrap(l.uv.offset + y * l.uv.pitch + x * 2)

\* One invocation of nv12.comp or nv12_planes.comp for block (x, y) reads the
\* pairs it means, and nothing outside a view of `texels' texels.
Nv12BlockExact(l, texels, x, y) ==
  /\ LumaAddr(l, x * 2, y * 2) = l.y.offset + (y * 2) * l.y.pitch + x * 2
  /\ Wrap(LumaAddr(l, x * 2, y * 2) + l.y.pitch)
       = l.y.offset + (y * 2 + 1) * l.y.pitch + x * 2
  /\ ChromaAddr(l, x, y) = l.uv.offset + y * l.uv.pitch + x * 2
  /\ PairTexels(LumaAddr(l, x * 2, y * 2)) \subseteq 0..(texels - 1)
  /\ PairTexels(Wrap(LumaAddr(l, x * 2, y * 2) + l.y.pitch)) \subseteq 0..(texels - 1)
  /\ PairTexels(ChromaAddr(l, x, y)) \subseteq 0..(texels - 1)

\* The guard of main() lets every block of the picture through.
Covered(l) == ToInt(l.width) = l.width /\ ToInt(l.height) = l.height

Nv12ReadsExact(l, texels) ==
  /\ Covered(l)
  /\ \A x \in Blocks(l.width), y \in Blocks(l.height) : Nv12BlockExact(l, texels, x, y)

\* packed_to_bgra.comp: the four bytes of pixel (x, y).
PackedAddr(l, x, y) == Wrap(l.plane.offset + y * l.plane.pitch + x * 4)

PackedPixelExact(l, texels, x, y) ==
  \A c \in 0..3 :
    /\ Wrap(PackedAddr(l, x, y) + c) = l.plane.offset + y * l.plane.pitch + x * 4 + c
    /\ Wrap(PackedAddr(l, x, y) + c) \div 4 \in 0..(texels - 1)

PackedReadsExact(l, texels) ==
  /\ Covered(l)
  /\ \A x \in 0..(l.width - 1), y \in 0..(l.height - 1) :
       x < ToInt(l.width) /\ y < ToInt(l.height) => PackedPixelExact(l, texels, x, y)

\* A region of vkCmdCopyBufferToImage in bytes: `rows' rows of `width' texels of
\* `texel' bytes, `row_length' texels apart (nv12_transfer_region).
RegionEnd(offset, row_length, texel, width, rows) ==
  offset + (rows - 1) * (row_length * texel) + width * texel

\* nv12_separate_transfer_regions: the copies read whole rows of their plane and
\* stay inside the buffer.
TransferReadsExact(l, size) ==
  /\ RegionEnd(l.y.offset, l.y.pitch, 1, l.width, l.height) = LumaEnd(l)
  /\ RegionEnd(l.uv.offset, l.uv.pitch \div 2, 2, l.width \div 2, l.height \div 2)
       = ChromaEnd(l)
  /\ LumaEnd(l) <= size /\ ChromaEnd(l) <= size
=============================================================================
