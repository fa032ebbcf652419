--------------------------- MODULE VulkanObjects ---------------------------
(***************************************************************************)
(* The raw Vulkan handles and duplicated file descriptors behind an import *)
(* (rust/video-interop/src/vulkan/mod.rs, sync.rs): how each constructor   *)
(* creates them one call at a time, what it gives back when a later call   *)
(* fails, and in which order the destructors run when the last Arc goes.   *)
(*                                                                         *)
(* A constructor is a sequence of operations, each with the operations to  *)
(* run when it fails: the explicit clean-up of the code followed by the    *)
(* destructors of the locals that are in scope (Guard).  The importer      *)
(* thread constructs and evicts; every image may be dropped by a thread of *)
(* its own at the same time.  A thread performs one driver call, or one    *)
(* change of a reference count, per step.                                  *)
(*                                                                         *)
(* ash returns one handle per requested descriptor set and pipeline, so    *)
(* the branches for an empty list are left out.  Cache keys and pool       *)
(* shapes are one key here; VulkanImport has them in full.                 *)
(***************************************************************************)
EXTENDS Integers, FiniteSets, Sequences, SequencesExt

CONSTANTS
  Devices,      \* records: the strategy resolved for the device, and whether
                \* packed staging is supported on it
  Sources,      \* names for CachedNv12Source and CachedPackedSource values
  Slots,        \* names for StagedOutputSlot and PackedOutputSlot values
  Images,       \* names for ImportedDmaBufImage values
  Keys,         \* what a cache entry and a slot must agree on to be reused
  None,
  MaxEntries,   \* max_entries of the source cache
  MaxSlots      \* max_slots of the output pool

ASSUME ObjectsAssumption ==
  /\ \A d \in Devices : d.packed \in BOOLEAN
  /\ IsFiniteSet(Sources) /\ IsFiniteSet(Slots) /\ IsFiniteSet(Images)
  /\ MaxEntries \in Nat \ {0} /\ MaxSlots \in Nat \ {0}

Importer == "importer"
Threads == {Importer} \cup Images
Values == Sources \cup Slots \cup {"nv12_compute", "packed_compute", "lane"}

VARIABLES
  device,      \* the device the importer was created for
  live,        \* handles and descriptors that exist: pairs of value and part
  bound,       \* images and buffers that are bound to their memory
  extra,       \* optional parts that a lane owns
  refs,        \* Arc strong counts
  claimed,     \* sources and slots whose `claimed' is true
  cache, pool, \* the source cache and the output pool
  key,         \* the key of a source or slot
  written,     \* the source whose view is in a slot's descriptor set
  image,       \* the images
  stage,       \* where the importer thread is
  req,         \* the import it is working on
  todo,        \* what each thread still has to do
  fault        \* a handle was destroyed, or a claim given back, twice

storeVars == <<refs, claimed, cache, pool, key, written>>
vars == <<device, live, bound, extra, storeVars, image, stage, req, todo, fault>>

-----------------------------------------------------------------------------
(* Operations.                                                             *)

Op(do, on, fail) == [do |-> do, on |-> on, fail |-> fail]

Make(o, fail)     == Op("make", o, fail)         \* creates o, or fails
Try(fail)         == Op("try", None, fail)       \* a query or check that may fail
Bind(o, fail)     == Op("bind", o, fail)         \* binds o to its memory
Consume(fd, fail) == Op("consume", fd, fail)     \* the driver takes the descriptor
Optional(o, fail) == Op("optional", o, fail)     \* creates o, does without, or fails
Kill(o)           == Op("kill", o, <<>>)
Keep(o)           == Op("keep", o, <<>>)         \* o becomes a part of its value
Own(v)            == Op("own", v, <<>>)          \* Arc::new
Unref(v)          == Op("unref", v, <<>>)        \* an Arc is dropped
Unclaim(v)        == Op("unclaim", v, <<>>)      \* claimed.swap(false)

\* The operations of r in a scope whose locals are dropped by the operations d.
Guard(r, d) == [n \in DOMAIN r |-> [r[n] EXCEPT !.fail = @ \o d]]

-----------------------------------------------------------------------------
(* Constructors of single allocations, and their destructors.              *)

\* create_local_image_with_flags: create, find a memory type, allocate, bind.
LocalImage(v, i, m) ==
  << Make(<<v, i>>, <<>>), Try(<<Kill(<<v, i>>)>>), Make(<<v, m>>, <<Kill(<<v, i>>)>>),
     Bind(<<v, i>>, <<Kill(<<v, m>>), Kill(<<v, i>>)>>) >>

\* The DMA-BUF becomes the memory of image or buffer i: size check, memory
\* type, duplicate, allocate (which consumes the duplicate), bind.
ImportMemory(v, i) ==
  << Try(<<Kill(<<v, i>>)>>), Try(<<Kill(<<v, i>>)>>),
     Make(<<v, "fd">>, <<Kill(<<v, i>>)>>),
     Consume(<<v, "fd">>, <<Kill(<<v, "fd">>), Kill(<<v, i>>)>>),
     Bind(<<v, i>>, <<Kill(<<v, "memory">>), Kill(<<v, i>>)>>) >>

\* create_direct_image
DirectImage(v) == <<Make(<<v, "image">>, <<>>)>> \o ImportMemory(v, "image")

\* create_imported_buffer_with_allocation_size
ImportedBuffer(v) == <<Make(<<v, "buffer">>, <<>>)>> \o ImportMemory(v, "buffer")

\* create_image_view, and the buffer views of the staged sources.
View(v, w) == <<Make(<<v, w>>, <<>>)>>

\* ImageAllocation::drop
DropImageAllocation(v, i, m) == <<Kill(<<v, i>>), Kill(<<v, m>>)>>

\* BufferAllocation::drop
DropBufferAllocation(v) == <<Kill(<<v, "buffer">>), Kill(<<v, "memory">>)>>

\* BufferViewAllocation::drop and ImageViewAllocation::drop
DropView(v, w) == <<Kill(<<v, w>>)>>

-----------------------------------------------------------------------------
(* Compute pipelines.                                                      *)

\* Nv12ComputePipeline::new and PackedComputePipeline::new.  The shader module
\* goes right after the pipeline was created, or was not.
ComputePipeline(v) ==
  <<Make(<<v, "set_layout">>, <<>>)>> \o
  Guard(<< Make(<<v, "layout">>, <<>>), Try(<<Kill(<<v, "layout">>)>>),
           Make(<<v, "shader">>, <<Kill(<<v, "layout">>)>>),
           Make(<<v, "pipeline">>, <<Kill(<<v, "shader">>), Kill(<<v, "layout">>)>>),
           Kill(<<v, "shader">>) >>,
        <<Kill(<<v, "set_layout">>)>>)

DropComputePipeline(v) ==
  <<Kill(<<v, "pipeline">>), Kill(<<v, "layout">>), Kill(<<v, "set_layout">>)>>

Compute == {"LinearBufferToRgba", "LinearBufferToYuvPlanes"}
Direct  == {"DirectSampledImage"}
Packed  == "LinearBufferToOptimalBgra"

\* The pipeline that an image of the device's strategy uses.
PipelineOf(d) == IF d.strategy \in Compute THEN {"nv12_compute"}
                 ELSE IF d.strategy = Packed THEN {"packed_compute"} ELSE {}

\* VulkanDmaBufImporter::new: the NV12 pipeline if a capability needs it, then
\* the packed one; when that fails, the Arc of the first is dropped.
NewImporter(d) ==
  LET nv12   == d.strategy \in Compute
      first  == IF nv12 THEN ComputePipeline("nv12_compute") \o <<Own("nv12_compute")>>
                ELSE <<>>
      second == ComputePipeline("packed_compute") \o <<Own("packed_compute")>>
  IN first \o IF ~d.packed THEN <<>>
              ELSE Guard(second, IF nv12 THEN <<Unref("nv12_compute")>> ELSE <<>>)

-----------------------------------------------------------------------------
(* Cached sources.                                                         *)

\* create_cached_nv12_source, create_cached_packed_staged_source, and the
\* direct image of the strategies that alias producer memory.
CreateSource(d, v) ==
  CASE d.strategy \in {"DirectSampledImage", "DirectImageToOptimalYuvPlanes"} ->
         DirectImage(v)
    [] d.strategy \in {"LinearBufferToOptimalNv12", "LinearBufferToOptimalYuvPlanes"} ->
         ImportedBuffer(v)
    [] OTHER -> ImportedBuffer(v) \o Guard(View(v, "view"), DropBufferAllocation(v))

\* The fields of CachedNv12SourceAllocation and PackedSourceAllocation, in
\* declaration order.
DropSource(d, v) ==
  CASE d.strategy \in {"DirectSampledImage", "DirectImageToOptimalYuvPlanes"} ->
         DropImageAllocation(v, "image", "memory")
    [] d.strategy \in {"LinearBufferToOptimalNv12", "LinearBufferToOptimalYuvPlanes"} ->
         DropBufferAllocation(v)
    [] OTHER -> DropView(v, "view") \o DropBufferAllocation(v)

-----------------------------------------------------------------------------
(* Output slots.                                                           *)

Sampled(v) == LocalImage(v, "image", "memory")
Luma(v)    == LocalImage(v, "luma", "luma_memory")
Chroma(v)  == LocalImage(v, "chroma", "chroma_memory")
DropSampled(v) == DropImageAllocation(v, "image", "memory")
DropLuma(v)    == DropImageAllocation(v, "luma", "luma_memory")
DropChroma(v)  == DropImageAllocation(v, "chroma", "chroma_memory")

\* The resources of a slot.  Locals are dropped in reverse order.
SlotResources(d, v) ==
  CASE d.strategy = "LinearBufferToOptimalNv12" -> Sampled(v)
    [] d.strategy \in {"DirectImageToOptimalYuvPlanes", "LinearBufferToOptimalYuvPlanes"} ->
         Luma(v) \o Guard(Chroma(v), DropLuma(v))
    [] d.strategy = "LinearBufferToYuvPlanes" ->
         Luma(v) \o Guard(View(v, "luma_view"), DropLuma(v))
         \o Guard(Chroma(v), DropView(v, "luma_view") \o DropLuma(v))
         \o Guard(View(v, "chroma_view"),
                  DropChroma(v) \o DropView(v, "luma_view") \o DropLuma(v))
    [] OTHER -> Sampled(v) \o Guard(View(v, "view"), DropSampled(v))

\* StagedOutputResources, in declaration order.
DropSlotResources(d, v) ==
  CASE d.strategy = "LinearBufferToOptimalNv12" -> DropSampled(v)
    [] d.strategy \in {"DirectImageToOptimalYuvPlanes", "LinearBufferToOptimalYuvPlanes"} ->
         DropLuma(v) \o DropChroma(v)
    [] d.strategy = "LinearBufferToYuvPlanes" ->
         DropView(v, "luma_view") \o DropLuma(v) \o DropView(v, "chroma_view") \o DropChroma(v)
    [] OTHER -> DropView(v, "view") \o DropSampled(v)

\* create_staged_output_slot and create_packed_output_slot: the resources and,
\* with a compute pipeline, a descriptor pool and the set allocated from it.
CreateSlot(d, v) ==
  SlotResources(d, v) \o
  IF PipelineOf(d) = {} THEN <<>>
  ELSE Guard(<<Make(<<v, "pool">>, <<>>), Try(<<Kill(<<v, "pool">>)>>)>>,
             DropSlotResources(d, v))

\* StagedOutputSlot::drop and PackedOutputSlot::drop, then their fields.
DropSlot(d, v) ==
  (IF PipelineOf(d) = {} THEN <<>> ELSE <<Kill(<<v, "pool">>)>>) \o DropSlotResources(d, v)

-----------------------------------------------------------------------------
(* Synchronisation lanes (ImportedImageSync).                              *)

LanePools  == <<Kill(<<"lane", "release_pool">>), Kill(<<"lane", "acquire_pool">>)>>
LaneFences == <<Kill(<<"lane", "release_fence">>), Kill(<<"lane", "acquire_fence">>)>>

\* ImportedImageSync::new.  Timing is best effort: without memory for the query
\* pool the lane does without.
NewLane ==
  << Make(<<"lane", "acquire_pool">>, <<>>),
     Make(<<"lane", "release_pool">>, <<Kill(<<"lane", "acquire_pool">>)>>) >> \o
  Guard(<< Try(<<>>), Try(<<>>),
           Make(<<"lane", "acquire_fence">>, <<>>),
           Make(<<"lane", "release_fence">>, <<Kill(<<"lane", "acquire_fence">>)>>),
           Optional(<<"lane", "query">>, LaneFences) >>, LanePools)
  \o <<Own("lane")>>

\* Mutant: a failed import always destroys the semaphore.
ImportSyncFdUndo(reuse) ==
  LET sem == <<"lane", "semaphore">>
  IN (IF reuse THEN <<>> ELSE <<Make(sem, <<>>)>>)
     \o << Make(<<"lane", "fd">>, <<Kill(sem)>>),
           Consume(<<"lane", "fd">>, <<Kill(<<"lane", "fd">>), Kill(sem)>>) >>
     \o (IF reuse THEN <<>> ELSE <<Keep(sem)>>)

\* import_temporary_sync_fd: a semaphore unless there is one to reuse, and a
\* duplicate of the fence that the driver takes if it accepts it.
ImportSyncFd(reuse) ==
  LET sem  == <<"lane", "semaphore">>
      undo == IF reuse THEN <<>> ELSE <<Kill(sem)>>
  IN (IF reuse THEN <<>> ELSE <<Make(sem, <<>>)>>)
     \o << Make(<<"lane", "fd">>, undo),
           Consume(<<"lane", "fd">>, <<Kill(<<"lane", "fd">>)>> \o undo) >>
     \o (IF reuse THEN <<>> ELSE <<Keep(sem)>>)

\* ImportedImageSync::drop of a lane with no submission in flight.
DropLane ==
  SelectSeq(<<Kill(<<"lane", "semaphore">>), Kill(<<"lane", "query">>)>>,
            LAMBDA op : op.on \in extra)
  \o LaneFences \o LanePools

-----------------------------------------------------------------------------
(* Threads.                                                                *)

DropValue(v) ==
  CASE v \in Sources -> DropSource(device, v)
    [] v \in Slots   -> DropSlot(device, v)
    [] v = "lane"    -> DropLane
    [] OTHER         -> DropComputePipeline(v)

\* What an owned value consists of.
Parts(v) == {DropValue(v)[n].on : n \in DOMAIN DropValue(v)}

NoImage == [state |-> "none", source |-> None, slot |-> None, released |-> FALSE]
NoReq   == [image |-> None, key |-> None, source |-> None, slot |-> None]

Init ==
  /\ device \in Devices
  /\ live = {} /\ bound = {} /\ extra = {}
  /\ refs = [v \in Values |-> 0]
  /\ claimed = {} /\ cache = {} /\ pool = {}
  /\ key = [v \in Sources \cup Slots |-> None]
  /\ written = [v \in Slots |-> None]
  /\ image = [i \in Images |-> NoImage]
  /\ stage = "new" /\ req = NoReq
  /\ todo = [t \in Threads |-> IF t # Importer THEN <<>>
                               ELSE IF device.strategy = "lane" THEN NewLane
                               ELSE NewImporter(device)]
  /\ fault = FALSE

Idle(t) == todo[t] = <<>>
Do(t, ops) == todo' = [todo EXCEPT ![t] = ops]

\* One operation of thread t succeeds.
Perform(t) ==
  /\ ~Idle(t)
  /\ LET op   == Head(todo[t])
         rest == Tail(todo[t])
         mem  == IF op.on[1] = "lane" THEN {} ELSE {<<op.on[1], "memory">>}
     IN \/ /\ op.do = "make"
           /\ live' = live \cup {op.on} /\ Do(t, rest)
           /\ UNCHANGED <<bound, extra, refs, claimed, fault>>
        \/ /\ op.do = "try"
           /\ Do(t, rest) /\ UNCHANGED <<live, bound, extra, refs, claimed, fault>>
        \/ /\ op.do = "bind"
           /\ bound' = bound \cup {op.on} /\ Do(t, rest)
           /\ UNCHANGED <<live, extra, refs, claimed, fault>>
        \/ /\ op.do = "consume"
           /\ live' = (live \ {op.on}) \cup mem /\ Do(t, rest)
           /\ UNCHANGED <<bound, extra, refs, claimed, fault>>
        \/ /\ op.do = "optional"
           /\ live' = live \cup {op.on} /\ extra' = extra \cup {op.on} /\ Do(t, rest)
           /\ UNCHANGED <<bound, refs, claimed, fault>>
        \/ /\ op.do = "keep"
           /\ extra' = extra \cup {op.on} /\ Do(t, rest)
           /\ UNCHANGED <<live, bound, refs, claimed, fault>>
        \/ /\ op.do = "kill"
           /\ live' = live \ {op.on} /\ bound' = bound \ {op.on}
           /\ fault' = (fault \/ op.on \notin live)
           /\ Do(t, rest) /\ UNCHANGED <<extra, refs, claimed>>
        \/ /\ op.do = "own"
           /\ refs' = [refs EXCEPT ![op.on] = 1] /\ Do(t, rest)
           /\ UNCHANGED <<live, bound, extra, claimed, fault>>
        \/ /\ op.do = "unref"
           /\ refs' = [refs EXCEPT ![op.on] = @ - 1]
           /\ Do(t, IF refs[op.on] = 1 THEN DropValue(op.on) \o rest ELSE rest)
           /\ UNCHANGED <<live, bound, extra, claimed, fault>>
        \/ /\ op.do = "unclaim"
           /\ claimed' = claimed \ {op.on}
           /\ fault' = (fault \/ op.on \notin claimed)
           /\ Do(t, rest) /\ UNCHANGED <<live, bound, extra, refs>>
  /\ UNCHANGED <<device, cache, pool, key, written, image, stage, req>>

Fallible == {"make", "try", "bind", "consume", "optional"}

\* The next call fails: the thread cleans up and the constructor returns Err.
\* VulkanDmaBufImporter::new failed: there is no importer; an import or a fence
\* import failed: the importer or lane stays.
Fail ==
  /\ ~Idle(Importer) /\ Head(todo[Importer]).do \in Fallible
  /\ Do(Importer, Head(todo[Importer]).fail)
  /\ stage' = IF stage = "new" THEN "gone" ELSE "ready"
  /\ req' = NoReq
  /\ UNCHANGED <<device, live, bound, extra, storeVars, image, fault>>

\* create_timestamp_query: unsupported, or no memory for the pool.
Without ==
  /\ ~Idle(Importer) /\ Head(todo[Importer]).do = "optional"
  /\ Do(Importer, Tail(todo[Importer]))
  /\ UNCHANGED <<device, live, bound, extra, storeVars, image, stage, req, fault>>

\* The importer thread is between two calls, at stage s.
At(s) == Idle(Importer) /\ stage = s

Ready ==
  /\ At("new")
  /\ stage' = "ready"
  /\ UNCHANGED <<device, live, bound, extra, storeVars, image, req, todo, fault>>

-----------------------------------------------------------------------------
(* An import.                                                              *)

BumpAll(S) == [v \in Values |-> refs[v] + IF v \in S THEN 1 ELSE 0]

Unrefs(q) == [n \in DOMAIN q |-> Unref(q[n])]

\* An NV12 import takes its Arc of the pipeline before it has a source, a packed
\* import after.
EarlyPipeline == PipelineOf(device) \ {"packed_compute"}
LatePipeline  == PipelineOf(device) \ EarlyPipeline
DropEarlyArc    == Unrefs(SetToSeq(EarlyPipeline))
DropPipelineArc == Unrefs(SetToSeq(PipelineOf(device)))

\* Drop of Nv12SourceLease and PackedSourceLease: release(), then the Arc.
DropLease(v) == <<Unclaim(v), Unref(v)>>

\* What an import that fails with the source lease in scope drops.
DropSourceLease == IF device.strategy = Packed
                   THEN DropPipelineArc \o DropLease(req.source)
                   ELSE DropLease(req.source) \o DropPipelineArc

\* import_nv12_shared_object and import_packed_with_strategy for a new image.
Import(i, k) ==
  /\ At("ready") /\ device.strategy # "lane" /\ image[i].state = "none"
  /\ stage' = "source"
  /\ req' = [NoReq EXCEPT !.image = i, !.key = k]
  /\ refs' = BumpAll(EarlyPipeline)
  /\ UNCHANGED <<device, live, bound, extra, claimed, cache, pool, key, written, image,
                 todo, fault>>

Cached(k) == {s \in cache : key[s] = k}

\* A name that no living value has.
Fresh(v) == refs[v] = 0 /\ \A o \in live : o[1] # v

\* The first lookup: claim the cached source, refuse one that is claimed, or
\* create one.
FindSource ==
  /\ At("source")
  /\ \/ \E s \in Cached(req.key) \ claimed :
          /\ claimed' = claimed \cup {s} /\ refs' = BumpAll({s} \cup LatePipeline)
          /\ req' = [req EXCEPT !.source = s] /\ stage' = "slot"
          /\ UNCHANGED <<key, todo>>
     \/ /\ Cached(req.key) \cap claimed # {}
        /\ Do(Importer, DropEarlyArc)
        /\ stage' = "ready" /\ req' = NoReq
        /\ UNCHANGED <<claimed, refs, key>>
     \/ /\ Cached(req.key) = {}
        /\ \E s \in Sources :
             /\ Fresh(s)
             /\ Do(Importer, Guard(CreateSource(device, s), DropEarlyArc) \o <<Own(s)>>)
             /\ key' = [key EXCEPT ![s] = req.key]
             /\ req' = [req EXCEPT !.source = s] /\ stage' = "insert"
             /\ UNCHANGED <<claimed, refs>>
  /\ UNCHANGED <<device, live, bound, extra, cache, pool, written, image, fault>>

IdleSource(s) == s \notin claimed /\ refs[s] = 1

\* The new source is cached, after an idle one was evicted if need be; it is
\* dropped again when the cache is saturated.
InsertSource ==
  /\ At("insert")
  /\ \/ /\ Cardinality(cache) >= MaxEntries
        /\ \E s \in cache : IdleSource(s) /\ cache' = cache \ {s} /\ Do(Importer, <<Unref(s)>>)
        /\ UNCHANGED <<claimed, refs, stage, req>>
     \/ /\ Cardinality(cache) >= MaxEntries /\ \A s \in cache : ~IdleSource(s)
        /\ Do(Importer, <<Unref(req.source)>> \o DropEarlyArc)
        /\ stage' = "ready" /\ req' = NoReq
        /\ UNCHANGED <<claimed, refs, cache>>
     \/ /\ Cardinality(cache) < MaxEntries
        /\ cache' = cache \cup {req.source}
        /\ claimed' = claimed \cup {req.source}
        /\ refs' = BumpAll({req.source} \cup LatePipeline)
        /\ stage' = "slot"
        /\ UNCHANGED <<todo, req>>
  /\ UNCHANGED <<device, live, bound, extra, pool, key, written, image, fault>>

\* Mutant: a slot that is used again keeps its old descriptor set.
WriteOnce(p, s) == [written EXCEPT ![p] = IF @ = None THEN s ELSE @]

\* update_staged_descriptor_set and update_packed_descriptor_set
UpdateDescriptorSet(p, s) == [written EXCEPT ![p] = s]

\* The first search of the output pool; a direct image needs no slot.
FindSlot ==
  /\ At("slot")
  /\ LET idle == {p \in pool : key[p] = req.key /\ p \notin claimed}
     IN \/ /\ device.strategy \in Direct
           /\ stage' = "image"
           /\ UNCHANGED <<claimed, refs, written, req>>
        \/ /\ device.strategy \notin Direct /\ idle = {}
           /\ stage' = "replace"
           /\ UNCHANGED <<claimed, refs, written, req>>
        \/ /\ device.strategy \notin Direct
           /\ \E p \in idle : /\ claimed' = claimed \cup {p} /\ refs' = BumpAll({p})
                              /\ written' = UpdateDescriptorSet(p, req.source)
                              /\ req' = [req EXCEPT !.slot = p]
           /\ stage' = "image"
  /\ UNCHANGED <<device, live, bound, extra, cache, pool, key, image, todo, fault>>

\* A full pool gives up an idle slot of another shape.
ReplaceSlot ==
  /\ At("replace")
  /\ LET other == {p \in pool : key[p] # req.key /\ p \notin claimed}
     IN \/ /\ Cardinality(pool) >= MaxSlots /\ other = {}
           /\ Do(Importer, DropSourceLease)
           /\ stage' = "ready" /\ req' = NoReq
           /\ UNCHANGED pool
        \/ /\ Cardinality(pool) >= MaxSlots
           /\ \E p \in other : pool' = pool \ {p} /\ Do(Importer, <<Unref(p)>>)
           /\ stage' = "create"
           /\ UNCHANGED req
        \/ /\ Cardinality(pool) < MaxSlots
           /\ stage' = "create"
           /\ UNCHANGED <<pool, todo, req>>
  /\ UNCHANGED <<device, live, bound, extra, refs, claimed, cache, key, written, image,
                 fault>>

BeginSlot ==
  /\ At("create")
  /\ \E p \in Slots :
       /\ Fresh(p)
       /\ Do(Importer, Guard(CreateSlot(device, p), DropSourceLease) \o <<Own(p)>>)
       /\ key' = [key EXCEPT ![p] = req.key]
       /\ written' = [written EXCEPT ![p] = None]
       /\ req' = [req EXCEPT !.slot = p]
  /\ stage' = "push"
  /\ UNCHANGED <<device, live, bound, extra, refs, claimed, cache, pool, image, fault>>

\* The descriptor set is written and the slot, claimed, enters the pool.
PushSlot ==
  /\ At("push")
  /\ pool' = pool \cup {req.slot}
  /\ claimed' = claimed \cup {req.slot} /\ refs' = BumpAll({req.slot})
  /\ written' = UpdateDescriptorSet(req.slot, req.source)
  /\ stage' = "image"
  /\ UNCHANGED <<device, live, bound, extra, cache, key, image, req, todo, fault>>

\* create_staged_nv12, create_staged_packed, from_direct_nv12_source and
\* from_direct_packed_source.  A push constant that does not fit drops the
\* parameters, last one first.
BuildImage ==
  /\ At("image")
  /\ \/ /\ image' = [image EXCEPT ![req.image] =
                       [state |-> "live", source |-> req.source, slot |-> req.slot,
                        released |-> FALSE]]
        /\ UNCHANGED todo
     \/ /\ req.slot # None
        /\ Do(Importer, DropPipelineArc \o DropLease(req.slot) \o DropLease(req.source))
        /\ UNCHANGED image
  /\ stage' = "ready" /\ req' = NoReq
  /\ UNCHANGED <<device, live, bound, extra, storeVars, fault>>

-----------------------------------------------------------------------------
(* Lanes, eviction, and the end.                                           *)

\* submit_acquire with a sync-file fence.
ImportFence ==
  /\ At("ready") /\ device.strategy = "lane"
  /\ Do(Importer, ImportSyncFd(<<"lane", "semaphore">> \in extra))
  /\ UNCHANGED <<device, live, bound, extra, storeVars, image, stage, req, fault>>

\* evict_nv12_stream and evict_packed_stream: idle sources only.
EvictStream ==
  /\ At("ready")
  /\ LET idle == {s \in cache : IdleSource(s)}
     IN /\ idle # {}
        /\ cache' = cache \ idle
        /\ \E q \in SetToSeqs(idle) : Do(Importer, Unrefs(q))
  /\ UNCHANGED <<device, live, bound, extra, refs, claimed, pool, key, written, image,
                 stage, req, fault>>

\* release_staged_source: the source is claimable again while its image lives.
ReleaseStagedSource(i) ==
  /\ image[i].state = "live" /\ image[i].slot # None /\ ~image[i].released
  /\ image' = [image EXCEPT ![i].released = TRUE]
  /\ claimed' = claimed \ {image[i].source}
  /\ UNCHANGED <<device, live, bound, extra, refs, cache, pool, key, written, stage, req,
                 todo, fault>>

\* The fields of StagedNv12 and StagedPacked, in declaration order.
DropFields(i) ==
  LET im == image[i]
  IN (IF im.released THEN <<Unref(im.source)>> ELSE DropLease(im.source))
     \o (IF im.slot = None THEN <<>> ELSE DropLease(im.slot))
     \o DropPipelineArc

\* An image goes out of scope, on any thread.
DropImage(i) ==
  /\ image[i].state = "live"
  /\ Do(i, DropFields(i))
  /\ image' = [image EXCEPT ![i] = [NoImage EXCEPT !.state = "dropping"]]
  /\ UNCHANGED <<device, live, bound, extra, storeVars, stage, req, fault>>

DropImageEnd(i) ==
  /\ image[i].state = "dropping" /\ Idle(i)
  /\ image' = [image EXCEPT ![i] = NoImage]
  /\ UNCHANGED <<device, live, bound, extra, storeVars, stage, req, todo, fault>>

Pipelines == SelectSeq(<<"nv12_compute", "packed_compute", "lane">>,
                       LAMBDA v : refs[v] > 0)

\* Mutant: the pipelines are declared before the pools.
ImporterFieldsPipelineFirst(ps, cs) == Unrefs(Pipelines \o ps \o cs)

\* The fields of VulkanDmaBufImporter, in declaration order: the slots ps, the
\* cached sources cs, the pipelines.
ImporterFields(ps, cs) == Unrefs(ps \o cs \o Pipelines)

DropImporter ==
  /\ At("ready")
  /\ \E ps \in SetToSeqs(pool), cs \in SetToSeqs(cache) :
       Do(Importer, ImporterFields(ps, cs))
  /\ stage' = "gone" /\ pool' = {} /\ cache' = {}
  /\ UNCHANGED <<device, live, bound, extra, refs, claimed, key, written, image, req, fault>>

Next ==
  \/ \E t \in Threads : Perform(t)
  \/ Fail \/ Without \/ Ready
  \/ \E i \in Images, k \in Keys : Import(i, k)
  \/ FindSource \/ InsertSource \/ FindSlot \/ ReplaceSlot \/ BeginSlot \/ PushSlot
  \/ BuildImage \/ ImportFence \/ EvictStream \/ DropImporter
  \/ \E i \in Images : ReleaseStagedSource(i) \/ DropImage(i) \/ DropImageEnd(i)

Spec == Init /\ [][Next]_vars

-----------------------------------------------------------------------------
(* Properties.                                                             *)

\* What must exist as long as o does: a view needs its image or buffer, a
\* pipeline its layout, a layout and an allocated descriptor set the set layout.
Needs(o) ==
  LET v == o[1]
  IN CASE o[2] = "view"        -> {<<v, IF v \in Sources THEN "buffer" ELSE "image">>}
       [] o[2] = "luma_view"   -> {<<v, "luma">>}
       [] o[2] = "chroma_view" -> {<<v, "chroma">>}
       [] o[2] = "pipeline"    -> {<<v, "layout">>}
       [] o[2] = "layout"      -> {<<v, "set_layout">>}
       [] o[2] = "pool"        -> {<<p, "set_layout">> : p \in PipelineOf(device)}
       [] OTHER                -> {}

Memory(o) == CASE o[2] = "luma"   -> <<o[1], "luma_memory">>
               [] o[2] = "chroma" -> <<o[1], "chroma_memory">>
               [] OTHER           -> <<o[1], "memory">>

\* No handle is destroyed before one that was made from it, on any failure path
\* and whichever thread drops the last reference: "The view must be destroyed
\* before its buffer and imported memory", "Pools must drop before the
\* descriptor-set layouts owned by their pipelines" (the field order of the
\* cached sources, the slots, StagedNv12 and VulkanDmaBufImporter).
ChildrenFirst ==
  /\ \A o \in live : Needs(o) \subseteq live
  /\ \A o \in bound : Memory(o) \in live

\* Nothing leaks and nothing is given back twice: between two operations the
\* handles and descriptors that exist are the parts of the values somebody
\* holds, whatever call failed before; a duplicated descriptor is closed, or
\* consumed by the driver, but not both (create_imported_buffer_with_allocation_size,
\* create_local_image_with_flags, import_temporary_sync_fd).
ExactTeardown ==
  /\ ~fault
  /\ (\A t \in Threads : Idle(t)) =>
        live = UNION {Parts(v) : v \in {w \in Values : refs[w] > 0}}

\* Everything the GPU commands of an image refer to exists while the image
\* does, although the importer may have evicted or dropped its own references,
\* and the descriptor set of its slot has the view of its own source
\* (StagedNv12, StagedPacked, Nv12OutputPool::claim).
FrameResourcesLive ==
  \A i \in Images : image[i].state = "live" =>
    /\ Parts(image[i].source) \subseteq live
    /\ image[i].slot # None => Parts(image[i].slot) \subseteq live
    /\ \A p \in PipelineOf(device) :
         Parts(p) \subseteq live /\ written[image[i].slot] = image[i].source
=============================================================================
