---------------------------- MODULE FrameIntake ----------------------------
(***************************************************************************)
(* Taking over a frame (rust/video-interop/src/frame.rs, dmabuf.rs,        *)
(* geometry.rs, sync_file.rs, fd.rs) and its fence (egl.rs).  A native     *)
(* consumer decodes and validates a borrowed descriptor, duplicates its    *)
(* file descriptors one by one, imports the acquire fence into EGL or      *)
(* polls it, waits, and destroys the sync; it may also export a fence of   *)
(* its own.  Everything happens on one render thread; any system or driver *)
(* call may fail.                                                          *)
(*                                                                         *)
(* Ownership of descriptors is explicit: `held' are those of live OwnedFd  *)
(* values, `egl_fds' those given to EGL, `open' those the kernel has open  *)
(* for them.                                                               *)
(***************************************************************************)
EXTENDS Integers, Sequences, FiniteSets, SequencesExt

CONSTANTS
  Offers,      \* records: loader (the EGL implementation) and frame
  Timeouts,    \* durations in nanoseconds
  U32,         \* u32::MAX + 1
  I32Max,      \* i32::MAX
  Forever,     \* EGL_FOREVER = u64::MAX
  NanosPerMilli,
  None

\* Objects come as a list; what else is wrong with a frame is for Validate.
ASSUME OffersAssumption ==
  \A o \in Offers : o.frame.storage.kind # "binary" =>
     /\ Len(o.frame.storage.objects) \in Nat
     /\ DOMAIN o.frame.storage.objects = 1..Len(o.frame.storage.objects)

AV_DRM_MAX_ENTRIES == 4

VARIABLES
  loader, frame, stage,
  held, egl_fds, open,
  table,      \* the selected NativeFenceFunctions
  syncs,      \* SyncHandles that exist: "import", "export"
  fence,      \* the producer's fence: "pending", "signaled"
  waiting,    \* a wait in progress, or None
  ready       \* what the last waits said: "no", "cpu" or "gpu"

fds  == <<held, egl_fds, open>>
vars == <<loader, frame, stage, fds, table, syncs, fence, waiting, ready>>

Fence    == <<"fence", 0>>
Exported == <<"exported", 0>>

-----------------------------------------------------------------------------
(* Validation.                                                             *)

\* Rect::validate
RectValid(r, width, height) ==
  /\ width > 0 /\ height > 0 /\ r.width > 0 /\ r.height > 0
  /\ r.x + r.width < U32 /\ r.y + r.height < U32
  /\ r.x + r.width <= width /\ r.y + r.height <= height

Planes(d) == FlattenSeq([i \in DOMAIN d.layers |-> d.layers[i].planes])

\* Decoding a list refuses more than AV_DRM_MAX_ENTRIES items.
DescriptorDecodes(d) ==
  /\ Len(d.objects) <= AV_DRM_MAX_ENTRIES /\ Len(d.layers) <= AV_DRM_MAX_ENTRIES
  /\ \A i \in DOMAIN d.layers : Len(d.layers[i].planes) <= AV_DRM_MAX_ENTRIES

\* Descriptor::validate; an object_index counts from zero.
DescriptorValid(d) ==
  /\ d.version = 1 /\ d.objects # <<>> /\ d.layers # <<>>
  /\ \A i \in DOMAIN d.objects : d.objects[i].fd >= 0 /\ d.objects[i].size > 0
  /\ \A i \in DOMAIN d.layers : d.layers[i].fourcc # 0 /\ d.layers[i].planes # <<>>
  /\ \A p \in Range(Planes(d)) :
       /\ p.pitch > 0 /\ p.object_index < Len(d.objects)
       /\ p.offset < d.objects[p.object_index + 1].size
  /\ Len(Planes(d)) <= AV_DRM_MAX_ENTRIES
  /\ {p.object_index + 1 : p \in Range(Planes(d))} = DOMAIN d.objects

\* BinaryStorage::validate and validate_height
BinaryValid(b, height) ==
  /\ Len(b.planes) = 1 /\ b.planes[1].stride > 0
  /\ b.planes[1].offset < b.size
  /\ b.planes[1].offset + b.planes[1].stride * (height - 1) < b.size

\* FrameDescriptor::validate; a sync is None (Implicit) or a descriptor.
FrameValid(f) ==
  /\ RectValid(f.visible_rect, f.coded_width, f.coded_height)
  /\ IF f.storage.kind = "binary"
     THEN BinaryValid(f.storage, f.coded_height) /\ f.acquire_sync = None
     ELSE DescriptorDecodes(f.storage) /\ DescriptorValid(f.storage)
  /\ f.acquire_sync # None => f.acquire_sync >= 0

Objects == IF frame.storage.kind = "binary" THEN {}
           ELSE {<<"object", i>> : i \in DOMAIN frame.storage.objects}

-----------------------------------------------------------------------------
(* Duplication.                                                            *)

\* duplicate_fd_cloexec succeeded
Open(fd) ==
  /\ held' = held \cup {fd} /\ open' = open \cup {fd}
  /\ UNCHANGED egl_fds

\* OwnedFd values are dropped.
Close(set) ==
  /\ held' = held \ set /\ open' = open \ set
  /\ UNCHANGED egl_fds

Egl == <<loader, frame, table, syncs, fence, waiting, ready>>

\* FrameDescriptor::duplicate_cloexec: validation.
Validate ==
  /\ stage = "offered"
  /\ stage' = IF FrameValid(frame) THEN "duplicating" ELSE "refused"
  /\ UNCHANGED <<fds, Egl>>

\* Collecting into a Result drops the objects before the one that failed; a fence
\* that fails drops the storage.
DuplicationFails ==
  /\ stage = "duplicating"
  /\ Objects \ held # {} \/ frame.acquire_sync # None
  /\ Close(held \cap (Objects \cup {Fence}))
  /\ stage' = "refused"
  /\ UNCHANGED Egl

\* Descriptor::duplicate_with, in the order of the objects.
DuplicateObject ==
  /\ stage = "duplicating"
  /\ \E i \in 1..Cardinality(Objects) :
       /\ {<<"object", j>> : j \in 1..(i - 1)} = held \cap Objects
       /\ Open(<<"object", i>>)
  /\ UNCHANGED <<stage, Egl>>

\* AcquireSync::duplicate_cloexec and the OwnedFrame.
FinishDuplication ==
  /\ stage = "duplicating" /\ Objects \subseteq held
  /\ IF frame.acquire_sync # None THEN Open(Fence) ELSE UNCHANGED fds
  /\ stage' = "owned"
  /\ UNCHANGED Egl

\* The OwnedFrame is dropped with what is left in it.
DropFrame ==
  /\ stage = "owned" /\ waiting = None
  /\ Close(held \cap (Objects \cup {Fence}))
  /\ stage' = "dropped"
  /\ UNCHANGED Egl

-----------------------------------------------------------------------------
(* Selection of an EGL ABI.                                                *)

Table(abi, functions, dup, exports, server) ==
  [abi |-> abi, duplicate |-> dup, producer_export |-> exports, consumer_import |-> ~exports,
   server_wait |-> server,
   functions |-> functions \ (IF server \/ exports THEN {} ELSE {"server_wait"})]

\* select_producer
SelectProducer(l) ==
  IF /\ {"native_fence", "fence_sync"} \subseteq l.extensions
     /\ {"create", "destroy"} \subseteq l.khr /\ l.duplicate
  THEN {Table("khr", l.khr, TRUE, TRUE, FALSE)} ELSE {}

\* khr_complete, core_complete
ConsumerFunctions == {"create", "destroy", "client_wait"}

\* select_consumer
SelectConsumer(l) ==
  LET khr  == Table("khr", l.khr, l.duplicate, FALSE,
                    /\ "server_wait" \in l.khr /\ "wait_sync" \in l.extensions /\ l.gl_sync)
      core == Table("core", l.core, FALSE, FALSE, "server_wait" \in l.core /\ l.core_wait)
  IN IF "native_fence" \notin l.extensions THEN {}
     ELSE IF "fence_sync" \in l.extensions /\ ConsumerFunctions \subseteq l.khr THEN {khr}
     ELSE IF l.egl_15 /\ ConsumerFunctions \subseteq l.core THEN {core}
     ELSE {}

\* The caller selects one table for its display.
Select ==
  /\ table = None
  /\ table' \in SelectProducer(loader) \cup SelectConsumer(loader)
  /\ UNCHANGED <<loader, frame, stage, fds, syncs, fence, waiting, ready>>

-----------------------------------------------------------------------------
(* Syncs.                                                                  *)

Idle == table # None /\ waiting = None

\* create_export_fence
CreateExportFence ==
  /\ Idle /\ "export" \notin syncs
  /\ table.producer_export /\ "create" \in table.functions
  /\ syncs' = syncs \cup {"export"}
  /\ UNCHANGED <<loader, frame, stage, fds, table, fence, waiting, ready>>

\* duplicate_fence: EGL returns a descriptor, and FD_CLOEXEC is set on it or the
\* descriptor is dropped.
DuplicateFence ==
  /\ Idle /\ "export" \in syncs /\ Exported \notin held
  /\ table.producer_export /\ table.duplicate
  /\ Open(Exported)
  /\ UNCHANGED <<stage, Egl>>

\* The caller drops the exported fence, or F_SETFD failed.
DropExported ==
  /\ Idle /\ Exported \in held
  /\ Close({Exported})
  /\ UNCHANGED <<stage, Egl>>

\* A create call is made: the table can import and has the entry point.
CreateCalled == table.consumer_import /\ "create" \in table.functions

\* Mutant: the descriptor is given up before the capability is looked at.
ImportSyncFileEarly ==
  /\ Idle /\ stage = "owned" /\ Fence \in held
  /\ held' = held \ {Fence}
  /\ egl_fds' = egl_fds \cup (IF CreateCalled THEN {Fence} ELSE {})
  /\ syncs' \in {syncs} \cup (IF CreateCalled THEN {syncs \cup {"import"}} ELSE {})
  /\ UNCHANGED <<loader, frame, stage, open, table, fence, waiting, ready>>

\* import_sync_file: a table that cannot import drops the fence.  Otherwise the
\* fence is given up, and EGL owns it from the create call on, also when that fails.
ImportSyncFile ==
  /\ Idle /\ stage = "owned" /\ Fence \in held
  /\ held' = held \ {Fence}
  /\ open' = open \ (IF table.consumer_import THEN {} ELSE {Fence})
  /\ egl_fds' = egl_fds \cup (IF CreateCalled THEN {Fence} ELSE {})
  /\ syncs' \in {syncs} \cup (IF CreateCalled THEN {syncs \cup {"import"}} ELSE {})
  /\ UNCHANGED <<loader, frame, stage, table, fence, waiting, ready>>

\* EGL closes the descriptor of a sync that is gone or was never created.
EglCloses ==
  /\ egl_fds # {} /\ "import" \notin syncs
  /\ egl_fds' = {} /\ open' = open \ egl_fds
  /\ UNCHANGED <<loader, frame, stage, held, table, syncs, fence, waiting, ready>>

\* destroy; if EGL refuses, the handle comes back for another try.
Destroy ==
  /\ Idle /\ "destroy" \in table.functions
  /\ \E s \in syncs : syncs' = syncs \ {s}
  /\ UNCHANGED <<loader, frame, stage, fds, table, fence, waiting, ready>>

-----------------------------------------------------------------------------
(* Waits.                                                                  *)

Signal ==
  /\ fence = "pending"
  /\ fence' = "signaled"
  /\ UNCHANGED <<loader, frame, stage, fds, table, syncs, waiting, ready>>

\* wait_server, Queued
WaitServer ==
  /\ Idle /\ "import" \in syncs
  /\ table.server_wait /\ "server_wait" \in table.functions
  /\ ready' = "gpu"
  /\ UNCHANGED <<loader, frame, stage, fds, table, syncs, fence, waiting>>

Lesser(a, b) == IF a < b THEN a ELSE b

\* Mutant: a long timeout becomes EGL_FOREVER.
ClampNanosForever(nanos) == Lesser(nanos, Forever)

\* wait_client: every finite duration is distinct from EGL_FOREVER.
ClampNanos(nanos) == Lesser(nanos, Forever - 1)

\* poll_sync_file: a c_int of milliseconds; poll waits for ever if it is negative.
ToInt32(n) == LET w == n % (2 * (I32Max + 1)) IN IF w <= I32Max THEN w ELSE w - 2 * (I32Max + 1)
ClampMillis(nanos) == Lesser(nanos \div NanosPerMilli, I32Max)

\* wait_client calls eglClientWaitSync.
WaitClient ==
  /\ Idle /\ "import" \in syncs /\ "client_wait" \in table.functions
  /\ \E t \in Timeouts :
       waiting' = [call |-> "egl", bounded |-> ClampNanos(t) # Forever]
  /\ UNCHANGED <<loader, frame, stage, fds, table, syncs, fence, ready>>

\* poll_sync_file calls poll.
PollSyncFile ==
  /\ waiting = None /\ stage = "owned" /\ Fence \in held
  /\ \E t \in Timeouts :
       waiting' = [call |-> "poll", bounded |-> ToInt32(ClampMillis(t)) >= 0]
  /\ UNCHANGED <<loader, frame, stage, fds, table, syncs, fence, ready>>

\* A bounded wait returns without the fence: TIMEOUT_EXPIRED, or poll's zero.
WaitExpires ==
  /\ waiting # None /\ waiting.bounded
  /\ waiting' = None
  /\ UNCHANGED <<loader, frame, stage, fds, table, syncs, fence, ready>>

\* What poll may report: POLLIN only once the fence has signaled.
Reported == {r \in SUBSET {"POLLIN", "POLLERR", "POLLNVAL", "POLLHUP"} :
               r # {} /\ ("POLLIN" \in r => fence = "signaled")}

\* Mutant: anything that poll reports counts as the signal.
SignaledByAny(revents) == revents # {}

\* poll_sync_file: Signaled
Signaled(revents) == revents \cap {"POLLERR", "POLLNVAL"} = {} /\ "POLLIN" \in revents

\* CONDITION_SATISFIED, or an error status.
WaitClientReturns ==
  /\ waiting # None /\ waiting.call = "egl"
  /\ \/ fence = "signaled" /\ ready' = "cpu"
     \/ UNCHANGED ready
  /\ waiting' = None
  /\ UNCHANGED <<loader, frame, stage, fds, table, syncs, fence>>

PollReturns ==
  /\ waiting # None /\ waiting.call = "poll"
  /\ \E r \in Reported : ready' = IF Signaled(r) THEN "cpu" ELSE ready
  /\ waiting' = None
  /\ UNCHANGED <<loader, frame, stage, fds, table, syncs, fence>>

-----------------------------------------------------------------------------
Init ==
  /\ \E o \in Offers : loader = o.loader /\ frame = o.frame
  /\ stage = "offered"
  /\ held = {} /\ egl_fds = {} /\ open = {}
  /\ table = None /\ syncs = {} /\ fence = "pending" /\ waiting = None /\ ready = "no"

Next ==
  \/ Validate \/ DuplicateObject \/ DuplicationFails \/ FinishDuplication \/ DropFrame
  \/ Select \/ CreateExportFence \/ DuplicateFence \/ DropExported
  \/ ImportSyncFile \/ EglCloses \/ Destroy
  \/ Signal \/ WaitServer \/ WaitClient \/ PollSyncFile
  \/ WaitExpires \/ WaitClientReturns \/ PollReturns

\* A call with a timeout returns once it has passed.
Spec == Init /\ [][Next]_vars /\ WF_vars(WaitExpires)

-----------------------------------------------------------------------------
(* Properties.                                                             *)

\* Every open descriptor has one owner, a Rust value or EGL, that will close it,
\* after any partial failure; a frame that was refused or dropped has left none
\* behind, an owned one has exactly the objects its planes name; and a sync that
\* exists can be destroyed (duplicate_with, import_sync_file, select_consumer).
ResourcesAccounted ==
  /\ open = held \cup egl_fds /\ held \cap egl_fds = {}
  /\ stage \in {"refused", "dropped"} => held \subseteq {Exported}
  /\ stage = "owned" =>
       /\ held \cap Objects = Objects
       /\ Cardinality(held \ {Exported}) <= AV_DRM_MAX_ENTRIES + 1
  /\ syncs # {} => "destroy" \in table.functions
  /\ "import" \in syncs => "client_wait" \in table.functions /\ egl_fds = {Fence}

\* The caller is told that the frame may be read only if it may: the producer's
\* fence has signaled, or the GPU waits for it through an entry point that the
\* display and the client API support (wait_server, wait_client, poll_sync_file,
\* select_consumer).
ReadyMeansSignaled ==
  /\ ready = "cpu" => fence = "signaled"
  /\ ready = "gpu" =>
       \/ table.abi = "khr" /\ loader.gl_sync
          /\ {"native_fence", "fence_sync", "wait_sync"} \subseteq loader.extensions
       \/ table.abi = "core" /\ loader.egl_15 /\ loader.core_wait

\* "Bounded CPU wait", "keep every finite Rust duration distinct from EGL_FOREVER":
\* a wait with any timeout ends, even if the producer's fence never signals
\* (wait_client, poll_sync_file).
WaitsEnd == (waiting # None) ~> (waiting = None)
=============================================================================
