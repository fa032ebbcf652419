---------------------------- MODULE StagedImport ----------------------------
(***************************************************************************)
(* Admission of a frame to the GPU (rust/video-interop/src/vulkan/         *)
(* capability.rs, mod.rs): the importer inventories what its device can    *)
(* do, resolves the strategy of a stream, validates the layout and the     *)
(* size of each frame, and reads it through a cached view of the DMA-BUF.  *)
(*                                                                         *)
(* Format features and queue flags are sets of names.  The device answers  *)
(* every query the same way each time.  One DMA-BUF is imported; the       *)
(* claims on its cached source are those of VulkanImport.                  *)
(***************************************************************************)
EXTENDS FrameLayout

CONSTANTS
  Scenarios,  \* records: device, pref (Nv12StagingPreference) and stream
  Requests,   \* for each stream, the requests that its frames may make
  Linear,     \* DRM_FORMAT_MOD_LINEAR
  None

PlaneType  == [offset : Nat, pitch : Nat]
Nv12Type   == [width : Nat, height : Nat, size : Nat, y : PlaneType, uv : PlaneType]
PackedType == [width : Nat, height : Nat, size : Nat, plane : PlaneType]

\* A request has the layout of its kind and the size the DMA-BUF really has.
ASSUME RequestsAssumption ==
  /\ \A s \in Scenarios : s.stream \in DOMAIN Requests
  /\ \A i \in DOMAIN Requests : \A r \in Requests[i] :
       /\ r.actual \in Nat
       /\ \/ r.kind = "nv12" /\ r.layout \in Nv12Type
          \/ r.kind = "packed" /\ r.layout \in PackedType

\* The limits of a device are u32 extents; Nv12StagingPreference has three values.
SizeType == [width : Nat, height : Nat]
ASSUME ScenariosAssumption ==
  \A s \in Scenarios :
    /\ s.pref \in {"PreferPlanar", "RequirePlanar", "RequireRgba"}
    /\ \A f \in {"luma", "chroma", "rgba"} : s.device.extent[f] \in SizeType \cup {None}
    /\ \A m \in s.device.modifiers : m.extent \in SizeType \cup {None}

VARIABLES
  scenario,
  caps,       \* nv12_capabilities
  pipelines,  \* the compute pipelines that new_with_limits... created
  cache,      \* cached sources: key, strategy and buffer size
  plan,       \* the frame that is on the GPU
  stage

vars == <<scenario, caps, pipelines, cache, plan, stage>>

device == scenario.device
pref   == scenario.pref
requests == Requests[scenario.stream]

-----------------------------------------------------------------------------
(* Queries.                                                                *)

Sampled  == {"sampled", "linear_filter"}
Transfer == {"transfer_src", "transfer_dst"}

\* query_optimal_staging_format_with_usage; no extent: usage unsupported.
QueryOptimal(d, f, required) ==
  required \subseteq d.features[f] /\ d.extent[f] # None

Saturated(n) == IF n < U32 THEN n ELSE U32 - 1
Smaller(a, b) == IF a < b THEN a ELSE b

\* Mutant: the chroma format's own limit is not considered.
PlanarExtentLuma(d) == d.extent["luma"]

\* The extent of a pair of planes: chroma has half the size of luma.
PlanarExtent(d) ==
  [width  |-> Smaller(d.extent["luma"].width, Saturated(d.extent["chroma"].width * 2)),
   height |-> Smaller(d.extent["luma"].height, Saturated(d.extent["chroma"].height * 2))]

\* query_planar_staging_format, query_transfer_planar_staging_format
QueryPlanar(d, required) ==
  QueryOptimal(d, "luma", required) /\ QueryOptimal(d, "chroma", required)

PlanarFeatures(d) == d.features["luma"] \cap d.features["chroma"]

Capability(m, strategy, features, extent, importable) ==
  [modifier |-> m.modifier, strategy |-> strategy, planes |-> m.planes,
   source |-> m.features, sampled |-> features, extent |-> extent,
   importable |-> importable]

\* Non-linear modifiers whose images can be copied plane by plane.
DirectCandidates(d) ==
  IF ~QueryPlanar(d, Sampled \cup Transfer) THEN {}
  ELSE {Capability(m, "DirectImageToOptimalYuvPlanes", PlanarFeatures(d),
                   [width  |-> Smaller(m.extent.width, PlanarExtent(d).width),
                    height |-> Smaller(m.extent.height, PlanarExtent(d).height)], TRUE) :
          m \in {x \in d.modifiers : /\ x.modifier # Linear /\ x.planes = 2
                                     /\ "transfer_src" \in x.features
                                     /\ x.extent # None /\ x.importable}}

\* query_linear_nv12_transfer_capability
TransferCandidates(d, m) ==
  IF /\ d.queue # {} /\ "transfer" \in d.buffers
     /\ QueryPlanar(d, Sampled \cup Transfer)
  THEN {Capability(m, "LinearBufferToOptimalYuvPlanes", PlanarFeatures(d), PlanarExtent(d), TRUE)}
  ELSE {}

\* query_linear_nv12_compute_capability
ComputeCandidates(d, m, p) ==
  LET required == Sampled \cup Transfer \cup {"storage"}
      planar   == Capability(m, "LinearBufferToYuvPlanes", PlanarFeatures(d), PlanarExtent(d), TRUE)
      rgba     == Capability(m, "LinearBufferToRgba", d.features["rgba"], d.extent["rgba"], TRUE)
  IN IF ~("compute" \in d.queue /\ "nv12_texel" \in d.buffers /\ d.texel) THEN {}
     ELSE IF p # "RequireRgba" /\ QueryPlanar(d, required) THEN {planar}
     ELSE IF p # "RequirePlanar" /\ QueryOptimal(d, "rgba", required) THEN {rgba}
     ELSE {}

\* query_linear_nv12_staging_candidates
LinearCandidates(d, m, p) ==
  IF p = "PreferPlanar" /\ TransferCandidates(d, m) # {} THEN TransferCandidates(d, m)
  ELSE ComputeCandidates(d, m, p)

\* inventory_nv12_modifier_capabilities_with_staging_preference
Inventory(d, p) ==
  (IF p = "PreferPlanar" THEN DirectCandidates(d) ELSE {})
  \cup UNION {LinearCandidates(d, m, p) : m \in {x \in d.modifiers : x.modifier = Linear}}

\* validate_packed_import_support
PackedDirect(d, format, modifier) ==
  \E m \in d.packed[format] :
    /\ m.modifier = modifier /\ m.planes = 1 /\ m.importable
    /\ {"sampled", "color_attachment"} \cup Transfer \subseteq m.features

\* validate_packed_staging_support; the format matters to its messages only.
PackedStaging(d, modifier) ==
  /\ modifier = Linear /\ "compute" \in d.queue
  /\ "packed_texel" \in d.buffers /\ d.texel
  /\ QueryOptimal(d, "bgra", {"sampled", "storage"} \cup Transfer)
  /\ "storage" \in d.features["r32"]

-----------------------------------------------------------------------------
(* Resolution.                                                             *)

\* validate_nv12_modifier_capability, for the strategies that are issued.  The
\* colour contract map_nv12_colorimetry lets through is BT.709.
ValidCapability(c, width, height) ==
  /\ width > 0 /\ height > 0 /\ width <= c.extent.width /\ height <= c.extent.height
  /\ c.importable
  /\ CASE c.strategy = "DirectImageToOptimalYuvPlanes" ->
            /\ c.modifier # Linear /\ c.planes = 2 /\ "transfer_src" \in c.source
            /\ Sampled \cup Transfer \subseteq c.sampled
       [] c.strategy = "LinearBufferToOptimalYuvPlanes" ->
            c.modifier = Linear /\ Sampled \cup Transfer \subseteq c.sampled
       [] OTHER ->
            c.modifier = Linear /\ Sampled \cup {"storage"} \subseteq c.sampled

\* resolve_nv12_modifier_capability
Resolve(modifier, width, height) ==
  {c \in caps : c.modifier = modifier /\ ValidCapability(c, width, height)}

\* resolve_nv12: the staging policy.
PolicyAllows(p, strategy) ==
  \/ p = "PreferPlanar"
  \/ p = "RequirePlanar" /\ strategy = "LinearBufferToYuvPlanes"
  \/ p = "RequireRgba" /\ strategy = "LinearBufferToRgba"

Pipeline(strategy) ==
  CASE strategy = "LinearBufferToRgba" -> {"rgba"}
    [] strategy = "LinearBufferToYuvPlanes" -> {"planar"}
    [] strategy = "LinearBufferToOptimalBgra" -> {"packed"}
    [] OTHER -> {}

\* packed_import_strategy
PackedStrategy(r) ==
  IF PackedDirect(device, r.format, r.modifier) THEN {"DirectSampledImage"}
  ELSE IF PackedStaging(device, r.modifier) /\ "packed" \in pipelines
       THEN {"LinearBufferToOptimalBgra"} ELSE {}

-----------------------------------------------------------------------------
(* Actions.                                                                *)

Init ==
  /\ scenario \in Scenarios
  /\ caps = {} /\ pipelines = {} /\ cache = {}
  /\ plan = None /\ stage = "new"

\* new_with_limits_and_staging_preference
NewImporter ==
  /\ stage = "new"
  /\ caps' = Inventory(device, pref)
  /\ pipelines' = {name \in {"rgba", "planar", "packed"} :
                     \/ \E c \in caps' : name \in Pipeline(c.strategy)
                     \/ name = "packed" /\ PackedStaging(device, Linear)}
  /\ stage' = "ready"
  /\ UNCHANGED <<scenario, cache, plan>>

\* Mutant: a cached source is found by the identity of the DMA-BUF alone.
KeyIdentity(r, strategy) == [kind |-> r.kind, strategy |-> strategy]

\* Nv12SourceCacheKey and PackedSourceCacheKey of one DMA-BUF and stream.
Key(r, strategy) ==
  [kind |-> r.kind, layout |-> r.layout, modifier |-> r.modifier, format |-> r.format,
   strategy |-> strategy]

\* How much of the DMA-BUF the source buffer of a request covers; an image takes
\* what the driver requires of it.
BufferSize(l, strategy) ==
  CASE strategy = "LinearBufferToOptimalYuvPlanes" -> TransferSpan(l)
    [] strategy \in {"LinearBufferToRgba", "LinearBufferToYuvPlanes"} -> ComputeSpan(l)
    [] OTHER -> l.size

\* The layout checks of a strategy.
LayoutValid(r, strategy) ==
  CASE strategy = "DirectSampledImage" -> PackedLayoutValid(r.layout)
    [] strategy = "LinearBufferToOptimalBgra" ->
         PackedLayoutValid(r.layout) /\ StagedPackedValid(r.layout, device.texels)
    [] strategy = "DirectImageToOptimalYuvPlanes" -> Nv12LayoutValid(r.layout)
    [] strategy = "LinearBufferToOptimalYuvPlanes" -> TransferLayoutValid(r.layout)
    [] OTHER -> StagedLayoutValid(r.layout, device.texels)

\* The strategies for a request: resolve_nv12 on a validated topology, or
\* packed_import_strategy.
Strategies(r) ==
  IF r.kind = "packed" THEN PackedStrategy(r)
  ELSE IF ~Nv12LayoutValid(r.layout) THEN {}
  ELSE {c.strategy : c \in {x \in Resolve(r.modifier, r.layout.width, r.layout.height) :
                              /\ PolicyAllows(pref, x.strategy)
                              /\ Pipeline(x.strategy) \subseteq pipelines}}

\* Entries for the same DMA-BUF in the cache that the request uses.
SameIdentity(r) == {e \in cache : e.key.kind = r.kind}

\* import_nv12_shared_object and import_packed_with_strategy succeed: the layout
\* is valid, the declared size is the one verified_dmabuf_identity observes, and
\* the source is cached for the same topology and strategy or is created.
Import(r, strategy) ==
  /\ LayoutValid(r, strategy)
  /\ r.layout.size = r.actual
  /\ \E e \in {[key |-> Key(r, strategy), size |-> BufferSize(r.layout, strategy)]} \cup cache :
       /\ e.key = Key(r, strategy)
       /\ SameIdentity(r) \subseteq {e}
       /\ cache' = cache \cup {e}
       /\ plan' = [request |-> r, strategy |-> strategy, size |-> e.size]
  /\ UNCHANGED <<scenario, caps, pipelines, stage>>

ImportFrame ==
  /\ stage = "ready" /\ plan = None
  /\ \E r \in requests : \E strategy \in Strategies(r) : Import(r, strategy)

\* The image is dropped; its source stays cached.
DropImage ==
  /\ plan # None
  /\ plan' = None
  /\ UNCHANGED <<scenario, caps, pipelines, cache, stage>>

\* evict_nv12_stream, evict_packed_stream
EvictStream ==
  /\ plan = None /\ cache # {}
  /\ cache' = {}
  /\ UNCHANGED <<scenario, caps, pipelines, plan, stage>>

Next == NewImporter \/ ImportFrame \/ DropImage \/ EvictStream

Spec == Init /\ [][Next]_vars

-----------------------------------------------------------------------------
(* Properties.                                                             *)

\* The GPU reads exactly the pixels of the frame, all inside the DMA-BUF and the
\* view it is read through, and no address wraps, whichever layouts the stream
\* had before: every layout the validators accept is safe for the shaders and
\* copies, and a cached source fits the frame that uses it (validate_staged_layout,
\* nv12_transfer_source_span, Nv12SourceCacheKey, load_pair).
ReadsExact ==
  plan # None =>
    LET l == plan.request.layout IN
    /\ plan.size <= plan.request.actual
    /\ plan.strategy \in {"LinearBufferToRgba", "LinearBufferToYuvPlanes"} =>
         Nv12ReadsExact(l, plan.size \div 4) /\ l.y.offset < U32 /\ l.uv.offset < U32
    /\ plan.strategy = "LinearBufferToOptimalBgra" =>
         PackedReadsExact(l, plan.size \div 4) /\ l.plane.offset < U32
    /\ plan.strategy = "LinearBufferToOptimalYuvPlanes" => TransferReadsExact(l, plan.size)

\* The images that a strategy writes a width x height frame to.
Outputs(strategy, width, height) ==
  CASE strategy = "LinearBufferToRgba" -> [rgba |-> [width |-> width, height |-> height]]
    [] OTHER -> [luma   |-> [width |-> width, height |-> height],
                 chroma |-> [width |-> width \div 2, height |-> height \div 2]]

\* A capability the importer issued is one it honours: frames within its extent
\* resolve to it, the policy accepts it, its pipeline exists, and the images it
\* writes are within the limits of their formats.  Packed frames have a strategy
\* whenever the device can stage them (inventory_nv12_modifier_capabilities...,
\* validate_nv12_modifier_capability, resolve_nv12, packed_import_strategy).
IssuedUsable ==
  stage = "ready" =>
    /\ \A c \in caps :
         /\ c.extent.width > 0 /\ c.extent.height > 0 =>
              \A w \in 1..c.extent.width, h \in 1..c.extent.height :
                /\ c \in Resolve(c.modifier, w, h)
                /\ \A f \in DOMAIN Outputs(c.strategy, w, h) :
                     /\ Outputs(c.strategy, w, h)[f].width <= device.extent[f].width
                     /\ Outputs(c.strategy, w, h)[f].height <= device.extent[f].height
         /\ PolicyAllows(pref, c.strategy) /\ Pipeline(c.strategy) \subseteq pipelines
    /\ \A r \in requests : r.kind = "packed" /\ PackedStaging(device, r.modifier) =>
         PackedStrategy(r) # {}
=============================================================================
