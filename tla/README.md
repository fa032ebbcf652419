# Verification of video_interop

video_interop lets a BEAM process hand GPU-backed video frames (DMA-BUFs) to
native renderers without copying them. The hard part is ownership: a producer's
buffer must stay alive while anybody uses it, must go back exactly when nobody
does, and must go back even if processes die, calls time out, callbacks raise,
threads shut down or the GPU is lost. These modules model the code that decides
this, in Elixir and in Rust, and check and prove that it does.

## 1. The system

| Component | Source | State it keeps | Operations |
|---|---|---|---|
| Lease owner | `lib/video_interop/lease_owner.ex` | reservations, entries with their holders and status, pending handshakes with monitors, FIFO of release jobs, the job in flight, retry timers, tombstones, drain waiters | reserve, commit, reject, cancel, confirm; retain, confirm, cancel; release, abandoned; close, drain, retry; DOWN of producer, callers and executor; release results; retry timers |
| Release executor | same file, `release_executor_loop` | the job it runs | runs the producer's callback, reports, dies |
| Lease client | `lib/video_interop/lease.ex`, `issue/3`, `drain/2` | alias, monitor and deadline of one call | issue, retain, release, drain, with timeouts |
| Abandonment guard | `lib/video_interop/abandonment_guard.ex`, `beam.rs` | a NIF resource per holder | its destructor reports the holder |
| Release dispatcher | `rust/video-interop/src/beam.rs` | per dispatcher: health, client count, channel, worker handle, stop and join flags, references | admit, dispatch, retire, `close_and_join`, drop |
| Capability discovery | `rust/video-interop/src/vulkan/capability.rs` | the capabilities issued to clients | inventory, resolve, staging preference |
| Vulkan importer | `rust/video-interop/src/vulkan/mod.rs`, the shaders | source cache with claims and LRU stamps, pool of output slots, pipelines, raw handles | import, return a source early, drop an image, evict a stream, drop the importer |
| Vulkan lane | `rust/video-interop/src/vulkan/sync.rs` | two fences, ready semaphore, stage flags, timing sample | acquire, accepted / rejected, release, polls, reuse, drop |
| Consumer transfer | `lib/video_interop.ex`, `consumer*.ex` | none | `consume/3`: hand a frame to a consumer and classify the outcome |
| Frames and descriptors | `frame.rs`, `dmabuf.rs`, `geometry.rs`, `fd.rs`, `sync_file.rs` | owned file descriptors | validate and duplicate a borrowed frame |
| EGL sync files | `egl.rs` | the selected entry points, sync handles | select an ABI, import, export, destroy, wait, poll |
| Formats, structs | `format.rs`, `modifier.rs`, `validator.ex`, `frame.ex`, ... | none | predicates and data |

How they interact. A producer starts a lease owner and calls `issue` for every frame: a
two-step handshake (reserve, then commit) so that a full or closing owner refuses
*before* the producer's buffer is handed over. The returned lease is a holder; `retain`
adds holders and `release` removes them, both as messages to the owner. Each holder also
carries a guard whose destructor sends `:video_interop_abandoned` through the native
dispatcher it was made with, that of the producer's NIF; a native consumer sends the
release through its own, so that an owner may hear of the two in either order. When the
last holder is gone the owner queues the producer's release callback, which a separate
executor process runs, one at a time; failures are kept and retried by timer or by hand.
Native consumers claim a prepared lease, validate and duplicate its descriptors, import
its DMA-BUF through the importer with a capability that the importer issued, drive the
GPU with a lane, and dispatch the release when the lane says that the memory is back
with the external queue family. Consumers on EGL import or poll the acquire fence
instead.

What is hard in it, and what makes each part correct:

* *Lease owner.* Messages of independent processes arrive in any order and any
  number of times, while timers fire late and the executor dies half way.
  Correct: capacity is never exceeded, a holder is counted once, no buffer goes
  back under a holder, one callback at a time and never a lost one, every
  request is answered, and an owner that stops is empty.
* *Clients.* A timeout races its own answer, and a caller dies in a handshake.
  Correct: whatever a call returns, owner and client agree in the end on who
  owns the buffer.
* *Dispatcher.* Admission, closing and joining share atomics among threads; guard
  and lease of one holder may belong to dispatchers of different NIFs.
  Correct: a close that returns Ok has drained everything, nobody is admitted
  behind the Stop command, no race aborts the VM, a dispatcher goes only after its
  worker, and a guard is kept until the release of its lease is queued.
* *Importer.* Leases drop without the locks that protect cache and pool.
  Correct: a DMA-BUF that an image refers to is not evicted or imported twice,
  and a displayed slot is not reused.
* *Vulkan handles.* A constructor makes up to a dozen of them and any call may
  fail; destructors run in field order on whichever thread drops the last `Arc`.
  Correct: nothing leaks or dies twice, children die before their parents, and
  what an image uses outlives it.
* *Layouts.* Validators compute in u64, shaders in u32, and a view of a DMA-BUF
  is cached. Correct: an admitted frame is read exactly, inside the buffer and
  inside the view, and every issued capability can be used.
* *Frames and fences.* Descriptors change hands between Rust, the kernel and EGL,
  and calls fail half way. Correct: every descriptor has one owner, nobody is
  told to read before the fence, and every wait is bounded.
* *Lane.* Fences and semaphores are reused frame after frame, and the device may
  be lost in a submission. Correct: a lease retires only when the device is
  done with the producer's memory, and nothing pending is reset or destroyed.

`PROJECT.json` lists the hazards line by line with the property that watches
each of them.

## 2. Modules

| Module | What it is |
|---|---|
| `LeaseOwner` | the owner, its executor and its timers under an *open* environment |
| `LeaseContract` | the abstract specification of a lease owner: promise, admit, share, drop, free, retire |
| `LeaseOwner_proofs`, `LeaseOwner_work` | theorems about `LeaseOwner`, the second module on top of the first: types, the job queue, holders, use and the contract; monitors, tombstones, work, draining and answers |
| `LeaseProtocol` | `LeaseOwner` composed with the client code, guards and signal channels |
| `LeaseProtocol_proofs` | theorems about `LeaseProtocol`, on top of those about `LeaseOwner` |
| `ReleaseDispatcher` | the native dispatcher with its clients and closers |
| `VulkanImport` | source cache, output pool and image lifetime, with concurrent importers |
| `VulkanImport_proofs` | theorems about `VulkanImport` |
| `ImageSync` | one lane, the queue it submits to, and its callers |
| `ImageSync_proofs` | theorems about `ImageSync` |
| `VulkanObjects` | construction, failure and destruction of every Vulkan handle and duplicated descriptor |
| `FrameLayout` | operators: what the layout validators accept and which bytes the GPU reads |
| `StagedImport` | capabilities, strategies, validation and cached views, on top of `FrameLayout` |
| `StagedImport_proofs` | theorems about `StagedImport` |
| `FrameIntake` | a frame's descriptors and acquire fence, and the EGL ABI |
| `FrameIntake_proofs` | theorems about `FrameIntake` |
| `ReleaseDispatcher_proofs` | theorems about `ReleaseDispatcher` |
| `MC*` with `MC*_*.cfg` | instances for TLC |

Operators whose comment begins with *Mutant* are plausible bugs; they are not
part of any specification. `PROJECT.json` says which definition each of them
replaces and which property then fails.
`TypeOK` of `VulkanImport`, `ImageSync` and `ReleaseDispatcher` is part of the invariants
that section 4 proves; the runs of these modules check the properties listed in section 3.

### 2.1 LeaseOwner

One action is one GenServer callback with all helpers it calls; variables carry
the names of the fields of the state. The references of one call (request ref,
alias, monitor, token or holder) are one model value: a member of `Tokens` is an
issue call together with its lease and root holder, a member of `Children` a
retain call together with the holder it makes, a member of `Callers` a drain or
retry call. The generation of a job, a fresh reference in the code, is the
number of its attempt.

The environment is arbitrary: any handler may receive any message whose
reference exists, again and again, in any order. Safety shown here therefore
does not rely on well-behaved clients. `CommitUnknown` is the protocol-corruption
stop of a commit without a reservation, and `OwnerKilled` an external exit.

Left out because no handler reads them back: statistics, the age index,
warnings, observer notifications. Retry delays have no length; a timer fires any
time after it was armed. The callback either returns the buffer and succeeds,
fails before or after returning it, or kills its process.

### 2.2 LeaseContract

Six variables and no queue, executor, timer or handshake. `LeaseOwner` instantiates
it with `process`, `closed`, `promised`, `phase`, `held` and `freed` computed from
its own state (`Contract`), and `ImplementsContract` says that every handler is a
single contract step. In particular the owner stops *in* the step that leaves it
closed and empty, and a buffer is freed only from the phase in which no holder
can appear any more.

### 2.3 LeaseProtocol

Every message has a sender. `chan` is the FIFO from one client to the owner and
ends with the client's DOWN; replies travel to an alias and are dropped once the
alias is gone; the owner's DOWN follows its replies; leases sent between
clients, and destructors, are unordered with all that. A client's call goes
through the stages of its receive; the `after` branch is a state of its own
(`expired`), because the alias is removed only after it was entered.

### 2.4 ReleaseDispatcher

One step is one atomic access or one critical section of the state mutex with at most
one access to what others change without it; the loop of `begin_close` is one step,
because an iteration that fails changes nothing. The accesses by which clients and
closers exclude each other are SeqCst in the code and the others concern the health
alone, so sequential consistency is the right memory model.

The state is a function of the dispatcher, so that there may be several. Each holder has
two clients, its guard (which may be absent: the field may be nil) and its claimed lease,
and each of them its own dispatcher (`via`): `AbandonmentGuard` keeps the one it was made
with, `prepare_cloexec` takes the one the consumer passes. `via` is any function, so the
two may be one NIF's or two NIFs', as in the test "a foreign NIF claim pins producer
resources". Hence the release is not always delivered before the abandonment. What the
code keeps is that the guard's destructor begins only after the release was queued
(`ReleaseBeforeAbandonment`); the order of delivery follows only for a common
dispatcher. `LeaseOwner` and `LeaseProtocol` take the two messages in any order.

Closers run `close_and_join` with deadlines that may pass at any waiting point, several
times, concurrently, each on its own dispatcher (`Closes`). A dispatcher is a counted
resource: its owner may let it go at any time (`Disown`), clients, guards and calls refer
to it (`Referenced`), and when nobody does it is dropped (`DropDispatcher`), which aborts
the VM unless it was joined. The worker's branch for a channel without senders is left
out: the sender is a field of the resource, whose drop comes first. So are the failures
and delays of test support; the panic of a worker is kept.

### 2.5 VulkanImport

The packed and the NV12 half of the importer are the same algorithm on separate
state; the module is one half. A critical section is a step, except in the pool,
whose search happens twice while slots are given back without the lock. The two
swaps of a lease release are separate steps, since other threads run between
them. Creating a Vulkan allocation or image either works or fails.

### 2.6 ImageSync

`queue` holds what the device has not finished; `Complete` takes the oldest
submission, signals its fence and applies its ownership barriers (`FamilyAfter`)
and layout transition. `LoseDevice` may happen at any time, and then a submission
that reports the loss may or may not have been taken. Staged frames share one
output image, so `initialized` and the recorded old layout can disagree with the
real one if the code gets it wrong. The callers are modelled by the contract of
`submit_acquire`: the image outlives its use, and the renderer samples between
acceptance and release.

The comment of `ImportedImageSync` calls the release fence "the only signal that
permits lease retirement", while that of `source_release_complete` permits it for
staged sources as well. The code does the latter, and `RetireSafe` covers both.

### 2.7 VulkanObjects

A constructor is translated to the sequence of its driver calls, each with the
clean-up that the code runs when that call fails, and `Guard` adds the destructors
of the locals in scope, last one first. `todo` holds what a thread still has to do;
a thread performs one call, or one change of a reference count, per step. So the
importer can be half way through a constructor, or through its own destructor,
while other threads drop images. `Fail` may hit every fallible call. A value is
destroyed by whoever drops its last `Arc`; its destructor is its field order.
`device` fixes the strategy, so one run covers every one the inventory issues, and a
device named `lane` exercises `ImportedImageSync` instead of an importer.

ash returns one descriptor set and one pipeline per request, so the branches for an
empty answer are left out. The inventory issues one compute strategy at most, hence
one NV12 pipeline. A cache key and a slot's shape are one name.

### 2.8 FrameLayout and StagedImport

`FrameLayout` puts two sides next to each other: the validators, in mathematical
integers with their overflow checks, and the shaders, in `% U32` arithmetic with
`int()` casts. `StagedImport` makes them meet: a device is queried, capabilities are
issued, a stream resolves to a strategy, each frame is validated and given a cached
or a new view, and `plan` is what the GPU then executes. `Requests` are the frames a
stream may deliver, in any order, with the size the DMA-BUF really has, which may
differ from the declared one.

The inventory never issues `DirectSampledImage` or `LinearBufferToOptimalNv12` for
NV12, so their layouts are not resolved here. Features and queue flags are names. A
driver gives the same answer to the same query.

### 2.9 FrameIntake

Validation is a predicate on the descriptor; everything after it moves descriptors.
`held` are those of live `OwnedFd` values, `egl_fds` those handed to EGL, `open` those
the kernel has open; a bug shows as a difference between them. Duplication goes one
descriptor at a time and may stop at each. A wait is a state, so that its end can be
asked for: `bounded` says whether the clamped timeout means a bounded wait to EGL or
to `poll`. The EGL implementation is a set of entry points and extensions.

## 3. Runs

Every run but `protocol_stale` passes. All are exhaustive for their instance.

| Run | Instance | Checks |
|---|---|---|
| `owner_holders` | 2 leases for 1 place, 2 retains, 1 caller, 2 tombstones | `CapacityBound`, `TypeOK`, `HolderAccounting`, `NoUseAfterRelease`, `HandshakesMonitored`, `TombstonesSound`, `ImplementsContract` |
| `owner_retries` | 2 leases, 1 drain or retry call, 2 automatic and 2 manual attempts | `SingleFlight`, `WorkTracked`, `DrainSettled`, `ReleasesEnd`, `DrainsEnd`, `FailuresRetried` |
| `protocol_safety` | 1 lease, 1 retain, 2 clients, guards | `LeasesBacked`, `OwnershipSettled`, `HoldersAccountedFor` |
| `protocol_progress` | 1 lease, 1 retain, 1 client, 1 drain, guards, retries | `DrainMeansDone`, `AbandonedReturned` |
| `protocol_calls` | 1 lease, 1 retain, 2 clients, no guards | `CallsReturn`, `TransferredReturned` |
| `protocol_stale` | 1 lease, 1 retain, 1 client | `NoStaleReply`, **violated** (section 6) |
| `dispatcher` | 2 dispatchers, 1 holder (2 clients), 2 closers of one dispatcher, 2 calls each | `CloseIsComplete`, `NoCorruption`, `ReleaseBeforeAbandonment`, `CloseEnds` |
| `import` | 3 imports, 3 buffers, 2 cache entries, 1 slot; direct, and staged in 2 shapes | `ClaimExact`, `CacheSound`, `SlotsExclusive`, `EvictionHonest` |
| `sync` | 2 staged and 2 direct frames, timed lane | `RetireSafe`, `LaneIdle`, `LayoutKnown`, `ReleaseObserved` |
| `objects` | 7 devices; 2 sources, 2 slots, 2 images, 2 keys, 1 cache entry | `ChildrenFirst`, `ExactTeardown`, `FrameResourcesLive` |
| `staged` | devices with each gap, 3 preferences; u32 of 32 values; layouts at each limit | `ReadsExact`, `IssuedUsable` |
| `intake` | frames with each defect, EGL implementations with each gap; timeouts around each clamp | `ResourcesAccounted`, `ReadyMeansSignaled`, `WaitsEnd` |

What they show, in short. Whatever arrives at an owner, it neither leaks nor
double-counts, and never returns a buffer that somebody holds; the contract holds step
by step. With real clients, a lease a client has in hand is backed by a holder at the
owner, a timed-out or dead call leaves no holder behind, and a drain that returned `:ok`
left nothing. The dispatcher's close protocol is free of the races its atomics invite:
the VM is aborted if a worker panics or if an owner forgets to join, as documented, and
for no other reason. A dispatcher that was freed is not used again. A guard outlives the
claim of its lease, also across two dispatchers. The importer never imports a buffer
twice for a stream while an image refers to it. The lane never reports a buffer early,
also when fences are reused for frames of another kind. Whichever driver call fails, and
whoever drops the last reference, the handles that remain are those somebody owns. A
layout that passes validation is read exactly, whatever layout the cached view was made
for. No descriptor has two owners or none, and no wait outlasts its timeout.

**Bounds.** They are chosen so that each limit of the code is exceeded by one: two issue
calls for one place, more holders than tombstones, three buffers for two entries, two
shapes for one slot. Four frames go through one lane so that a frame of each kind
follows each, two sources for one entry. In `dispatcher` a holder's guard is on the
dispatcher that is closed, and its lease on the same or on another one; two closers
meet, and either comes back after a timeout. A close keeps nothing of the caller's
between calls, so a second call is also that of a third thread. The theorems of section
4 hold for any number of dispatchers, holders and closers, on any routes. Handlers touch
one token, and at most two tokens interact (through capacity, the release queue or the
executor). `owner_retries` has as many automatic attempts as the policy (`MaxAttempts` =
2), which the code's own limit ends, and `ManualBound` = 2 caps the attempts asked for
by hand, so that a failure is retried by timer and by hand and also fails for good; the
safety theorems of section 4 hold for any number of attempts. `MaxCalls` caps the calls
of a closer; `Render` is limited to one submission on the queue, and so is a release
that a lost device may have taken. In `StagedImport`, `U32 = 32` and `U64 = 1024` scale
the integers down so that offsets, pitches and sizes on both sides of every limit are
enumerable, the span of exactly `U32` included; the theorem of section 4 holds for every
width. In `FrameIntake`, `I32Max = 7` and `Forever = 63` do the same for timeouts.
Symmetry is used only in runs without liveness, over sets that Init and Next treat
alike. Deadlock is not checked where the system may end: an owner that stopped, a
dispatcher that was closed, a lane, importer or frame that was dropped.

**Fairness.** `LeaseOwner`: BEAM processes that can receive do, a callback returns
or its process dies, an armed timer expires; nothing is assumed of clients.
`LeaseProtocol` adds that signals are delivered, that a client in a receive takes
what arrives, and that a guard without references is collected; a timeout is
never forced. `ReleaseDispatcher`: threads run, and native code retires what it
claimed, which is the documented duty of its caller. `ImageSync`: the device works
off its queue and the consumer keeps polling. `FrameIntake`: a call with a timeout
returns once it has passed; nothing is assumed of the fence. All are weak fairness of a step
that, once enabled, stays enabled until somebody takes it.

## 4. Proofs

TLAPS checks the following for all values of the constants that satisfy the named
assumptions. For `LeaseOwner` these are `RefsAssumption` (finite, disjoint sets of
references) and `OptionsAssumption` (positive limits, which option validation in
`init/1` enforces).

* `TypeCorrect` (`LeaseOwner_proofs`): `Spec => []TypeOK`. One lemma per helper
  (`ReplyTyped`, `StopTyped`, `RemoveHolderTyped`, `FinishFailedTyped`, ...), one per
  group of handlers, joined in `TypeStep`. `TypeOK` is inductive as it is.
* `CapacityNeverExceeded` (`LeaseOwner_proofs`): `Spec => []CapacityBound`.
* `ReleasesSingleFlight` (`LeaseOwner_proofs`): `Spec => []SingleFlight`.
* `NeverUsedAfterRelease` (`LeaseOwner_proofs`): `Spec => []NoUseAfterRelease`.
* `HoldersExact` (`LeaseOwner_proofs`): `Spec => []HolderAccounting`.
* `ContractImplemented` (`LeaseOwner_proofs`): `Spec => ImplementsContract`, the
  refinement of `LeaseContract`.
* `AlwaysMonitored` (`LeaseOwner_work`): `Spec => []HandshakesMonitored`.
* `TombstonesAlwaysSound` (`LeaseOwner_work`): `Spec => []TombstonesSound`.
* `WorkAlwaysTracked` (`LeaseOwner_work`): `Spec => []WorkTracked`.
* `DrainsAlwaysSettled` (`LeaseOwner_work`): `Spec => []DrainSettled`.
* `CallsAnsweredAsPromised` (`LeaseOwner_work`): `Spec => []Answering`, which no run
  states: what the owner has answered a call so far, in each state of its handshake.

With these, every invariant that the runs check of the lease owner is a theorem.

`CapacityNeverExceeded` and `ReleasesSingleFlight` rest on the inductive invariant

    IInv == TypeOK /\ Admission /\ SingleFlight /\ CapacityBound

`CapacityBound` alone is not inductive. A commit keeps the sum because it replaces
its own reservation, which needs that a reserved token has no entry yet
(`Admission`). A finished, failed or retried job moves its entry between statuses
that count, which needs that the job in flight and the queued jobs belong to
entries that are really releasing or queued (`SingleFlight`). Conversely
`SingleFlight` needs `Admission` for a rejected issue, which queues a job for an
entry that did not exist. `Flight` restates `SingleFlight` on explicit arguments
because a handler queues and dispatches in one step, and the proof has to speak of
the value in between.

The next three build on `IInv`. That no buffer is used after its release needs to
follow a job through the executor: `Freed` says that the executor is sent only jobs of
entries that are past their last holder, and that a success it reports is of a buffer
that went back, also if the job has failed or been repeated meanwhile; `Held` says that
an entry has holders exactly while it is active. With both (`UInv`), the exact count
is a matter of cardinalities (`Counted`): `CountRemoved` and `CountCleared` show on the way
that the `max(_, 0)` clamps are never reached. The refinement is then a step simulation:
one lemma per group of handlers says which contract action it maps to
(`LastDropMaps`, `WithdrawMaps`, `FinishMaps`, ...), and a step that only moves an entry
between the statuses of one phase is invisible. That the owner stops when and only
when the contract does needs `SingleFlight` once more: an owner without entries has no
jobs (`NoJobsWhenEmpty`).

The last five strengthen `UInv` in five directions that do not need one another.

* *Monitors* (`MInv`, part `Monitored`). That each open handshake is monitored is not
  inductive, because a fresh call might find an old monitor under its reference. It
  is once the invariant says that only calls that were handled are monitored.
* *Tombstones* (`OInv`, parts `Remembered` and `Eviction`). A remembered release must
  never be of a holder that is still to come: only handled calls hold or are remembered,
  and an entry with a memory was issued, so `CommitIssue` revives none. Evicting the
  first of the order removes the right tombstone because the order lists each holder once.
* *Work* (`WInv`, parts `Sent`, `Tracked` and `Timed`). `Tracked` gives the exact content
  of the executor's inbox and outbox in the three states of a job (idle, sent, answered),
  each with or without the DOWN of the executor at the end of its signals. That a
  cancelled timer stays harmless needs that an attempt is never numbered 0.
* *Draining* (`DInv`, part `Settling`). `Settling` says what a waiter waits for and that a
  stopped owner is drained; `DrainSettled` follows with the three others, since an owner
  without entries has no holder, timer, monitor or message to the executor.
* *Answers* (`AInv`, part `Answering`). An issue call is answered at most twice, first
  with the refusal or the reservation, then with the lease or its return; a retain call
  once; a drain that answers `:ok` is answered by an owner that stopped. A reference is a
  holder only if its call was sent the lease. Clients build on exactly this.

For `LeaseProtocol` the assumptions are those of `LeaseOwner` and `ClientsAssumption`
(there is a client, and `None` is none). Leases are guarded or not, as `Guarded` says.

* `ProtocolImplementsOwner` (`LeaseProtocol_proofs`): `ProtocolSpec => Spec`. With its
  clients, channels and guards as environment the owner behaves as it does under the
  arbitrary one, so all theorems about `LeaseOwner` hold of the composition.
* `LeasesAlwaysBacked` (`LeaseProtocol_proofs`): `ProtocolSpec => []LeasesBacked`.
* `OwnershipAlwaysSettled` (`LeaseProtocol_proofs`): `ProtocolSpec => []OwnershipSettled`.
* `DrainAlwaysMeansDone` (`LeaseProtocol_proofs`): `ProtocolSpec => []DrainMeansDone`.
* `HoldersAlwaysAccountedFor` (`LeaseProtocol_proofs`):
  `ProtocolSpec => []HoldersAccountedFor`.

None of the four is inductive: each speaks of the owner and of the clients, and what
ties them together is on its way between them. The invariant (`PInv`, with the
invariants of the owner, `OwnerFacts`) has a part for each thing that is in flight:

* a client waits for the one call it made that has not returned, and a call returns only
  what its replies say (`Calls`); a mailbox holds replies of the client's own calls that
  have arrived (`Mail`); a lease that was granted to a waiting call has yet to arrive or
  to be taken from the mailbox (`GrantsComing`);
* each message in a channel is justified by the state of its call (`MessagesJustified`):
  a commit by its reservation, a release by a lease that is no longer in hand, a
  cancellation by a call that was given up. A commit is there once, and nothing follows
  a client's DOWN;
* what the client made of `issue/3` and what the owner has done agree, with the commit
  or cancellation that still travels between them (`IssueSettled`);
* a lease in hand or forwarded is in one place and a registered holder (`Whereabouts`),
  as is the lease that a waiting call will be told of (`GrantsBacked`); a holder is in
  hand, of an open call, left by a death, or has its release or withdrawal on the way
  (`Accounted`), and whatever may still grant a lease to a call that was given up is
  followed by its withdrawal in the same channel (`WithdrawalsFollow`).

Most steps are the owner's. Instead of proving each part of `PInv` for each handler, `HonestStep` proves that a step keeps `PInv` if it is *honest*: it adds at
most one answer to a call, that its protocol allows, and takes a holder only by the
message or death that asks for it. Each handler is then shown to be honest
(`ReceiveHandled`, `DeathHandled`, `AbandonHandled`, `BackgroundHandled`). A client's step is of one
of five kinds: it sends a request (`StartSafe`), commits (`CommitSafe`), returns from a
call with a result (`ReturnSafe`), releases (`ReleaseSafe`) or dies (`DieSafe`).
The four theorems follow: a lease in hand is registered, so its entry is active and its
buffer has not gone back (`BackedWhenInHand`), and a stopped owner has no active entry.

* `ReadsExactAlways` (`StagedImport_proofs`): `Spec => []ReadsExact`, for any widths
  that satisfy `WidthAssumption` (u32 is a multiple of 4, a product of two u32 fits in
  u64) and any devices, preferences and streams of well-formed requests.

Its invariant says that an issued capability has a strategy the inventory gives out
(`CapsInv`), that a cached source is as large as its key says (`CacheInv`), and that
the frame on the GPU was validated for its strategy and runs on a source with its
own key (`PlanInv`). `ReadsExact` follows from `PlanInv` by arithmetic alone, one lemma
per shader or copy: `Nv12ComputeSafe` bounds every luma and chroma address of a block
by the end of its plane, hence by the span, which is a whole number of texels not
above `U32`, so that nothing wraps; `Nv12Covered` shows that the casts to `int` lose no
block, because a frame of `U32 \div 2` columns or rows would not fit the span.
`PackedComputeSafe` and `TransferSafe` do the same for packed pixels and for copies.

* `IssuedAlwaysUsable` (`StagedImport_proofs`): `Spec => []IssuedUsable`, for any device
  and preference. `ScenariosAssumption` only types the extents and the preference.

Its invariant (`Issued`) is that a ready importer holds the inventory of its device and
the pipelines of that inventory. The rest is about operators: each way a capability is
made (`DirectHonoured`, `PlanarHonoured`, `RgbaHonoured`) gives it the features that its
validation asks for and an extent that its images fit (`Honoured`); `PlanarFits` shows
that doubling the chroma limit and cutting it to a u32 never admits too large a frame.

* `DescriptorsAccounted` (`FrameIntake_proofs`): `Spec => []ResourcesAccounted`, and
* `ReadsBehindFence` (`FrameIntake_proofs`): `Spec => []ReadyMeansSignaled`, for any
  frames, EGL implementations and timeouts. `OffersAssumption` only says that the objects
  of a descriptor come as a list.

Neither is inductive. `ResourcesAccounted` counts descriptors where the code moves them,
so the invariant (`OwnerInv`) says who owns which at each stage, that a frame past
validation is valid, hence has at most four objects, and that EGL owns nothing but the
fence. That a sync can always be destroyed and waited for needs that the table is an
answer of one of the two selections (`TableInv`), and lemma `TableComplete`: whatever
`select_producer` and `select_consumer` return is complete. `ImportInv` adds that an
imported sync came from a consumer's table, and `ReadyInv` that `ready` was set behind the
signal or by a table that waits on the GPU.

* `CloseAlwaysComplete` (`ReleaseDispatcher_proofs`): `Spec => []CloseIsComplete`,
* `NeverCorrupted` (`ReleaseDispatcher_proofs`): `Spec => []NoCorruption`,
* `FreedAlwaysJoined` (`ReleaseDispatcher_proofs`): `Spec => []FreedAfterJoin` (the
  part of `NoCorruption` about dispatchers that were dropped), and
* `ReleaseFirst` (`ReleaseDispatcher_proofs`): `Spec => []ReleaseBeforeAbandonment`, for
  any dispatchers, any finite number of holders, guards and leases on any of the
  dispatchers, any threads that close, and any number of calls.
  `DispatcherAssumption` says besides that the free mutex is no thread and the Stop
  command no client.

The four need one invariant (`DInv`), because each argument leans on the others; it
speaks of each dispatcher by itself except where a holder has two. The exact count
(`CountInv`) makes `wait_for_clients` mean that nobody is admitted; from then on the
second load of `acquire_client` turns everybody away, since the health never becomes
`HEALTHY` again (`AdmissionInv`). So nothing can be queued behind Stop (`QueueInv`), the
worker is still there whenever somebody sends (`WorkerInv`), and when it ends the queue
is empty. The mutex and `joining` let one closer send Stop and one join, and the others
never find the worker gone before `STOPPED` is published (`CloserInv`). A dispatched
command is in the queue of its own dispatcher until it is handled (`DeliveryInv`). A
guard is dropped only when its lease is through, so that the release was queued by then;
if both are in one queue, its order keeps the abandonment behind the release, also when
the guard is dropped while the release is still queued (`GuardInv`, `DispatchStep`,
`SendStep`). Whoever acts on a dispatcher has a reference to it or uses its owner's, so
that one that was freed stays without references (`RefInv`, `ClientRefers`,
`CloserRefers`); and of the branches that abort the VM only two can be reached
(`FatalInv`): the counter never underflows, the worker is there whenever somebody sends,
and a guard refused by its dispatcher finds it closing, or `FAILED`.

* `ClaimsExact`, `CacheAlwaysSound`, `SlotsAlwaysExclusive` and `EvictionAlwaysHonest`
  (`VulkanImport_proofs`): `Spec => []ClaimExact`, `[]CacheSound`, `[]SlotsExclusive` and
  the action property `EvictionHonest`, for any finite set of concurrent imports, any
  keys and any limits.

One invariant serves all four. `ClaimInv` is `ClaimExact` without cardinalities. It does
not stand alone: that a source found in the cache is not claimed by another lease needs
that the cache holds the source of every lease under the key of its import (`CacheInv`),
which eviction keeps because a leased source is not idle. An import that puts its source
into the cache must not find it there already, so the cache holds no source of an import
that is still `Early`; and since leases drop without locks, `LeaseInv` says exactly where
an import is while it holds or gives up its lease. `EvictedIdle` shows that the eviction of
the least recently used idle entry, written with CHOOSE, removes idle entries only
(`LeastExists`: a non-empty finite set of stamps has a least one).

* `RetirementSafe`, `LaneAlwaysIdle` and `LayoutAlwaysKnown` (`ImageSync_proofs`):
  `Spec => []RetireSafe`, `[]LaneIdle` and `[]LayoutKnown`, for any frames.

The lane sees fences; the device sees a queue. The invariant ties them: every submission
is of the frame that the lane has acquired and the acquire is the oldest (`QueueInv`); a
release that was submitted is the last one, so that its fence speaks for the whole use of
the frame (`ReleaseInv`). Hence `Returned`, which the lane can compute, implies that the
memory belongs to the external family (`FamilyInv`). `ReadyInv` gives the ready semaphore
one owner. An output that counts as initialized is in its layout or has an acquire at the
head of the queue that puts it there (`LayoutInv`), also if the device was lost between a
submission and its bookkeeping.

Only model-checked: the three invariants of `VulkanObjects` (a constructor is a sequence
of operations whose length depends on the device; a proof has to follow every script
and every failure list operation by operation for every device, and has not been
done), and all liveness, which is out of reach of the proof system. The inductive invariants themselves were also checked by TLC
on the instances of section 3 before they were proved.

## 5. What is not modelled

* `VideoInterop.consume/3` and consumer sessions: they keep no state. `consume/3` calls
  the consumer once and classifies what it returned or raised; nothing happens
  between two effects.
* `validator.ex`, `Format::validate`, colorimetry, modifiers, term encodings, plain
  structs: predicates and data without a history. The Elixir validator repeats the
  checks of `FrameIntake`.
* In the importer: allocation recipes, colour conversion constants, and the scanout
  import, a direct image without a cache. `VulkanImport` and `VulkanObjects` each
  model the cache, the first with its concurrent lookups, the second with the handles
  behind it and one importer thread.
* In the lane: the contents of command buffers beyond ownership and layout.
* The seek-based size probe of a DMA-BUF (`dmabuf.rs:33`): its size is taken as a fact.
* Mutex poisoning, allocation failure of the host, and the text of errors.

## 6. Finding

`protocol_stale`: the comment at `lib/video_interop/lease.ex:138-141` says that
removing the alias after a timeout drops a late acknowledgement "instead of
leaving it in the caller's mailbox". The receive is left first and the alias
removed second, so a reply that arrives in between stays in the mailbox. The run
produces such a state. It is harmless to ownership: the client also sends the
cancellation, and `HoldersAccountedFor` holds.

## 7. Plan

Done: the lease owner and its contract, the protocol with clients, the dispatcher,
the importer with its handles, layouts and capabilities, the lane, frames and EGL
fences; the theorems of section 4.

What could follow:

1. Compose `VulkanImport` and `ImageSync`, so that the lifetime contract of
   `submit_acquire` becomes a property of the composition.
2. Theorems about handles: `ChildrenFirst`, `ExactTeardown` and `FrameResourcesLive` of
   `VulkanObjects`, from lemmas on what each script makes and what its failure list drops.
