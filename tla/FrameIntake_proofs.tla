------------------------- MODULE FrameIntake_proofs -------------------------
(***************************************************************************)
(* ResourcesAccounted and ReadyMeansSignaled, for any frames, any EGL      *)
(* implementations and any timeouts.                                       *)
(***************************************************************************)
EXTENDS FrameIntake, FiniteSetTheorems, TLAPS

-----------------------------------------------------------------------------
(* The invariant.                                                          *)

FrameListed ==
  frame.storage.kind # "binary" =>
    /\ Len(frame.storage.objects) \in Nat
    /\ DOMAIN frame.storage.objects = 1..Len(frame.storage.objects)

\* The table, once selected, is the answer of one of the two selections.
TableInv ==
  /\ table # None => table \in SelectProducer(loader) \cup SelectConsumer(loader)
  /\ syncs # {} \/ egl_fds # {} \/ ready = "gpu" => table # None

\* Who owns what at each stage; EGL only ever owns the fence.
OwnerInv ==
  /\ open = held \cup egl_fds /\ held \cap egl_fds = {}
  /\ egl_fds \subseteq {Fence}
  /\ held \subseteq Objects \cup {Fence, Exported}
  /\ stage \in {"offered", "duplicating", "refused", "owned", "dropped"}
  /\ stage \in {"offered", "refused", "dropped"} => held \subseteq {Exported}
  /\ stage \in {"offered", "duplicating"} => egl_fds = {}
  /\ stage = "duplicating" => Fence \notin held
  /\ stage = "owned" => Objects \subseteq held
  /\ stage \in {"duplicating", "owned"} => FrameValid(frame)

\* A sync made by import_sync_file comes from a table that can import, and EGL
\* has the fence as long as it exists.
ImportInv == "import" \in syncs => egl_fds = {Fence} /\ table.consumer_import

ReadyInv ==
  /\ ready = "cpu" => fence = "signaled"
  /\ ready = "gpu" => table.server_wait

IInv == FrameListed /\ TableInv /\ OwnerInv /\ ImportInv /\ ReadyInv

-----------------------------------------------------------------------------
(* What a selected table has.                                              *)

\* A table that can create a sync can destroy it; one that can import can create
\* and wait; one that waits on the GPU has what that needs (select_producer,
\* select_consumer).
LEMMA TableComplete ==
  ASSUME NEW l, NEW t \in SelectProducer(l) \cup SelectConsumer(l)
  PROVE  /\ "destroy" \in t.functions
         /\ t.consumer_import => {"create", "client_wait"} \subseteq t.functions
         /\ t.server_wait =>
              \/ t.abi = "khr" /\ l.gl_sync
                 /\ {"native_fence", "fence_sync", "wait_sync"} \subseteq l.extensions
              \/ t.abi = "core" /\ l.egl_15 /\ l.core_wait
  <1>1. CASE t \in SelectProducer(l)
    <2>1. t = Table("khr", l.khr, TRUE, TRUE, FALSE) /\ {"create", "destroy"} \subseteq l.khr
      BY <1>1 DEF SelectProducer
    <2>. QED
      BY <2>1 DEF Table
  <1>2. CASE t \in SelectConsumer(l)
    <2>. DEFINE khrWait  == /\ "server_wait" \in l.khr /\ "wait_sync" \in l.extensions
                            /\ l.gl_sync
                coreWait == "server_wait" \in l.core /\ l.core_wait
    <2>1. "native_fence" \in l.extensions
      BY <1>2 DEF SelectConsumer
    <2>2. CASE "fence_sync" \in l.extensions /\ ConsumerFunctions \subseteq l.khr
      <3>1. t = Table("khr", l.khr, l.duplicate, FALSE, khrWait)
        BY <1>2, <2>1, <2>2 DEF SelectConsumer
      <3>. QED
        BY <2>1, <2>2, <3>1 DEF Table, ConsumerFunctions
    <2>3. CASE ~("fence_sync" \in l.extensions /\ ConsumerFunctions \subseteq l.khr)
      <3>1. /\ t = Table("core", l.core, FALSE, FALSE, coreWait)
            /\ l.egl_15 /\ ConsumerFunctions \subseteq l.core
        BY <1>2, <2>1, <2>3 DEF SelectConsumer
      <3>. QED
        BY <3>1 DEF Table, ConsumerFunctions
    <2>. QED
      BY <2>2, <2>3
  <1>. QED
    BY <1>1, <1>2

-----------------------------------------------------------------------------
(* Objects of a valid frame.                                               *)

\* A valid frame has at most AV_DRM_MAX_ENTRIES objects, numbered from one.
LEMMA FewObjects ==
  ASSUME FrameListed, FrameValid(frame)
  PROVE  /\ IsFiniteSet(Objects) /\ Cardinality(Objects) \in Nat
         /\ Cardinality(Objects) <= AV_DRM_MAX_ENTRIES
         /\ \A i \in 1..Cardinality(Objects) : <<"object", i>> \in Objects
  <1>1. CASE frame.storage.kind = "binary"
    <2>1. Objects = {}
      BY <1>1 DEF Objects
    <2>. QED
      BY <2>1, FS_EmptySet DEF AV_DRM_MAX_ENTRIES
  <1>2. CASE frame.storage.kind # "binary"
    <2>. DEFINE n == Len(frame.storage.objects)
                f == [i \in 1..n |-> <<"object", i>>]
    <2>1. n \in Nat /\ n <= AV_DRM_MAX_ENTRIES /\ Objects = {<<"object", i>> : i \in 1..n}
      BY <1>2 DEF FrameListed, FrameValid, DescriptorDecodes, Objects
    <2>. HIDE DEF n
    <2>2. IsFiniteSet(1..n) /\ Cardinality(1..n) = n
      <3>1. IsFiniteSet(1..n) /\ Cardinality(1..n) = IF 1 > n THEN 0 ELSE n - 1 + 1
        BY <2>1, FS_Interval
      <3>. QED
        BY <2>1, <3>1
    <2>3. f \in Surjection(1..n, Objects)
      <3>1. f \in [1..n -> Objects] /\ \A o \in Objects : \E i \in 1..n : f[i] = o
        BY <2>1
      <3>. QED
        BY <3>1 DEF Surjection
    <2>. HIDE DEF f
    <2>4. IsFiniteSet(Objects) /\ Cardinality(Objects) <= Cardinality(1..n)
      BY <2>2, <2>3, FS_Surjection
    <2>5. Cardinality(Objects) \in Nat
      BY <2>4, FS_CardinalityType
    <2>. QED
      BY <2>1, <2>2, <2>4, <2>5 DEF AV_DRM_MAX_ENTRIES
  <1>. QED
    BY <1>1, <1>2

\* The objects, the fence and the exported fence are different descriptors.
LEMMA Distinct == Fence \notin Objects /\ Exported \notin Objects /\ Fence # Exported
  BY DEF Fence, Exported, Objects

\* The two invariants follow.
LEMMA InvAccounted == IInv => ResourcesAccounted
  <1>. SUFFICES ASSUME IInv PROVE ResourcesAccounted
    OBVIOUS
  <1>1. open = held \cup egl_fds /\ held \cap egl_fds = {}
    BY DEF IInv, OwnerInv
  <1>2. stage \in {"refused", "dropped"} => held \subseteq {Exported}
    BY DEF IInv, OwnerInv
  <1>3. ASSUME stage = "owned"
        PROVE  /\ held \cap Objects = Objects
               /\ Cardinality(held \ {Exported}) <= AV_DRM_MAX_ENTRIES + 1
    <2>1. IsFiniteSet(Objects) /\ Cardinality(Objects) \in Nat
          /\ Cardinality(Objects) <= AV_DRM_MAX_ENTRIES
      BY <1>3, FewObjects DEF IInv, OwnerInv
    <2>2. IsFiniteSet(Objects \cup {Fence})
          /\ Cardinality(Objects \cup {Fence}) = Cardinality(Objects) + 1
      BY <2>1, Distinct, FS_AddElement
    <2>3. held \ {Exported} \in SUBSET (Objects \cup {Fence})
      BY DEF IInv, OwnerInv
    <2>4. IsFiniteSet(held \ {Exported})
          /\ Cardinality(held \ {Exported}) <= Cardinality(Objects \cup {Fence})
      BY <2>2, <2>3, FS_Subset
    <2>5. Cardinality(held \ {Exported}) \in Nat
      BY <2>4, FS_CardinalityType
    <2>6. held \cap Objects = Objects
      BY <1>3 DEF IInv, OwnerInv
    <2>. QED
      BY <2>1, <2>2, <2>4, <2>5, <2>6 DEF AV_DRM_MAX_ENTRIES
  <1>4. syncs # {} => "destroy" \in table.functions
    BY TableComplete DEF IInv, TableInv
  <1>5. "import" \in syncs => "client_wait" \in table.functions /\ egl_fds = {Fence}
    BY TableComplete DEF IInv, TableInv, ImportInv
  <1>. QED
    BY <1>1, <1>2, <1>3, <1>4, <1>5 DEF ResourcesAccounted

LEMMA InvReady == IInv => ReadyMeansSignaled
  BY TableComplete DEF IInv, TableInv, ReadyInv, ReadyMeansSignaled

-----------------------------------------------------------------------------
(* Steps.                                                                  *)

\* Init establishes the invariant.
LEMMA InitInv == Init => IInv
  <1>. SUFFICES ASSUME Init PROVE IInv
    OBVIOUS
  <1>1. FrameListed
    BY OffersAssumption DEF Init, FrameListed
  <1>. QED
    BY <1>1 DEF Init, IInv, TableInv, OwnerInv, ImportInv, ReadyInv

\* Steps that only move descriptors of the frame (duplication, drop) or the
\* exported fence.
LEMMA FrameStep ==
  ASSUME IInv, Validate \/ DuplicationFails \/ DuplicateObject \/ FinishDuplication \/ DropFrame
  PROVE  IInv'
  <1>1. UNCHANGED <<frame, loader, table, syncs, fence, ready, egl_fds>>
    BY DEF Validate, DuplicationFails, DuplicateObject, FinishDuplication, DropFrame, Egl, fds,
           Open, Close
  <1>2. Objects' = Objects
    BY <1>1 DEF Objects
  <1>3. FrameListed' /\ TableInv' /\ ImportInv' /\ ReadyInv'
    BY <1>1 DEF IInv, FrameListed, TableInv, ImportInv, ReadyInv
  <1>4. FrameValid(frame)' <=> FrameValid(frame)
    BY <1>1
  <1>5. OwnerInv'
    <2>1. CASE Validate
      BY <2>1, <1>1, <1>2, <1>4, Distinct DEF Validate, IInv, OwnerInv, fds
    <2>2. CASE DuplicationFails
      BY <2>2, <1>1, <1>2, <1>4, Distinct DEF DuplicationFails, Close, IInv, OwnerInv
    <2>3. CASE DuplicateObject
      <3>1. PICK i \in 1..Cardinality(Objects) :
               /\ {<<"object", j>> : j \in 1..(i - 1)} = held \cap Objects
               /\ Open(<<"object", i>>)
        BY <2>3 DEF DuplicateObject
      <3>2. <<"object", i>> \in Objects
        BY <2>3, FewObjects DEF DuplicateObject, IInv, OwnerInv
      <3>3. stage' = stage /\ stage = "duplicating"
        BY <2>3 DEF DuplicateObject
      <3>. QED
        BY <3>1, <3>2, <3>3, <1>1, <1>2, <1>4, Distinct DEF Open, IInv, OwnerInv
    <2>4. CASE FinishDuplication
      BY <2>4, <1>1, <1>2, <1>4, Distinct DEF FinishDuplication, Open, IInv, OwnerInv, fds
    <2>5. CASE DropFrame
      BY <2>5, <1>1, <1>2, <1>4, Distinct DEF DropFrame, Close, IInv, OwnerInv
    <2>. QED
      BY <2>1, <2>2, <2>3, <2>4, <2>5
  <1>. QED
    BY <1>3, <1>5 DEF IInv

\* Selecting a table, and the exported fence.
LEMMA ExportStep ==
  ASSUME IInv, Select \/ CreateExportFence \/ DuplicateFence \/ DropExported
  PROVE  IInv'
  <1>1. UNCHANGED <<frame, stage, loader, fence, ready, egl_fds>>
    BY DEF Select, CreateExportFence, DuplicateFence, DropExported, Egl, Open, Close, fds
  <1>2. Objects' = Objects /\ (FrameValid(frame)' <=> FrameValid(frame))
    BY <1>1 DEF Objects
  <1>3. FrameListed' /\ ReadyInv' /\ TableInv' /\ ImportInv'
    <2>1. CASE Select
      BY <2>1, <1>1 DEF Select, IInv, FrameListed, TableInv, ImportInv, ReadyInv
    <2>2. CASE CreateExportFence
      BY <2>2, <1>1 DEF CreateExportFence, Idle, IInv, FrameListed, TableInv, ImportInv, ReadyInv
    <2>3. CASE DuplicateFence \/ DropExported
      BY <2>3, <1>1 DEF DuplicateFence, DropExported, Egl, IInv, FrameListed, TableInv,
                        ImportInv, ReadyInv
    <2>. QED
      BY <2>1, <2>2, <2>3
  <1>4. OwnerInv'
    <2>1. CASE Select \/ CreateExportFence
      BY <2>1, <1>1, <1>2 DEF Select, CreateExportFence, fds, IInv, OwnerInv
    <2>2. CASE DuplicateFence
      BY <2>2, <1>1, <1>2, Distinct DEF DuplicateFence, Open, IInv, OwnerInv
    <2>3. CASE DropExported
      BY <2>3, <1>1, <1>2, Distinct DEF DropExported, Close, IInv, OwnerInv
    <2>. QED
      BY <2>1, <2>2, <2>3
  <1>. QED
    BY <1>3, <1>4 DEF IInv

\* The life of an imported sync.
LEMMA ImportStep ==
  ASSUME IInv, ImportSyncFile \/ EglCloses \/ Destroy
  PROVE  IInv'
  <1>1. UNCHANGED <<frame, stage, loader, table, fence, ready>>
    BY DEF ImportSyncFile, EglCloses, Destroy
  <1>2. Objects' = Objects /\ (FrameValid(frame)' <=> FrameValid(frame))
    BY <1>1 DEF Objects
  <1>3. FrameListed' /\ ReadyInv'
    BY <1>1 DEF IInv, FrameListed, ReadyInv
  <1>4. CASE ImportSyncFile
    <2>1. table \in SelectProducer(loader) \cup SelectConsumer(loader)
      BY <1>4 DEF ImportSyncFile, Idle, IInv, TableInv
    <2>2. table.consumer_import => CreateCalled
      BY <2>1, TableComplete DEF CreateCalled
    <2>3. egl_fds = {} /\ "import" \notin syncs
      BY <1>4 DEF ImportSyncFile, IInv, OwnerInv, ImportInv
    <2>4. TableInv' /\ ImportInv'
      BY <1>4, <1>1, <2>1, <2>3 DEF ImportSyncFile, CreateCalled, Idle, IInv, TableInv, ImportInv
    <2>5. OwnerInv'
      BY <1>4, <1>1, <1>2, <2>2, <2>3, Distinct
         DEF ImportSyncFile, CreateCalled, IInv, OwnerInv
    <2>. QED
      BY <1>3, <2>4, <2>5 DEF IInv
  <1>5. CASE EglCloses
    <2>1. TableInv' /\ ImportInv'
      BY <1>5, <1>1 DEF EglCloses, IInv, TableInv, ImportInv
    <2>2. OwnerInv'
      BY <1>5, <1>1, <1>2 DEF EglCloses, IInv, OwnerInv
    <2>. QED
      BY <1>3, <2>1, <2>2 DEF IInv
  <1>6. CASE Destroy
    <2>1. TableInv' /\ ImportInv'
      BY <1>6, <1>1 DEF Destroy, Idle, fds, IInv, TableInv, ImportInv
    <2>2. OwnerInv'
      BY <1>6, <1>1, <1>2 DEF Destroy, fds, IInv, OwnerInv
    <2>. QED
      BY <1>3, <2>1, <2>2 DEF IInv
  <1>. QED
    BY <1>4, <1>5, <1>6

\* Waits own nothing.
Waiting == WaitServer \/ WaitClient \/ PollSyncFile \/ WaitExpires \/ WaitClientReturns
           \/ PollReturns \/ Signal

LEMMA WaitStep ==
  ASSUME IInv, Waiting
  PROVE  IInv'
  <1>1. UNCHANGED <<frame, stage, loader, table, syncs, fds>>
    BY DEF Waiting, WaitServer, WaitClient, PollSyncFile, WaitExpires, WaitClientReturns,
           PollReturns, Signal
  <1>2. Objects' = Objects /\ (FrameValid(frame)' <=> FrameValid(frame))
    BY <1>1 DEF Objects
  <1>3. FrameListed' /\ OwnerInv' /\ ImportInv'
    BY <1>1, <1>2 DEF fds, IInv, FrameListed, OwnerInv, ImportInv
  <1>4. TableInv' /\ ReadyInv'
    <2>1. CASE Signal
      BY <2>1, <1>1 DEF Signal, fds, IInv, TableInv, ReadyInv
    <2>2. CASE WaitServer
      BY <2>2, <1>1 DEF WaitServer, Idle, fds, IInv, TableInv, ReadyInv
    <2>3. CASE WaitClient \/ PollSyncFile \/ WaitExpires
      BY <2>3, <1>1 DEF WaitClient, PollSyncFile, WaitExpires, fds, IInv, TableInv, ReadyInv
    <2>4. CASE WaitClientReturns
      BY <2>4, <1>1 DEF WaitClientReturns, fds, IInv, TableInv, ReadyInv
    <2>5. CASE PollReturns
      <3>1. PICK r \in Reported : ready' = IF Signaled(r) THEN "cpu" ELSE ready
        BY <2>5 DEF PollReturns
      <3>2. Signaled(r) => fence = "signaled"
        BY DEF Signaled, Reported
      <3>3. fence' = fence
        BY <2>5 DEF PollReturns
      <3>. QED
        BY <3>1, <3>2, <3>3, <1>1 DEF fds, IInv, TableInv, ReadyInv
    <2>. QED
      BY <2>1, <2>2, <2>3, <2>4, <2>5 DEF Waiting
  <1>. QED
    BY <1>3, <1>4 DEF IInv

LEMMA InvStep == IInv /\ [Next]_vars => IInv'
  <1>. SUFFICES ASSUME IInv, [Next]_vars PROVE IInv'
    OBVIOUS
  <1>1. CASE UNCHANGED vars
    <2>1. Objects' = Objects /\ (FrameValid(frame)' <=> FrameValid(frame))
      BY <1>1 DEF vars, Objects
    <2>. QED
      BY <1>1, <2>1 DEF vars, fds, IInv, FrameListed, TableInv, OwnerInv, ImportInv, ReadyInv
  <1>2. CASE Next
    <2>1. \/ Validate \/ DuplicationFails \/ DuplicateObject \/ FinishDuplication \/ DropFrame
          \/ Select \/ CreateExportFence \/ DuplicateFence \/ DropExported
          \/ ImportSyncFile \/ EglCloses \/ Destroy
          \/ Waiting
      BY <1>2 DEF Next, Waiting
    <2>. QED
      BY <2>1, FrameStep, ExportStep, ImportStep, WaitStep
  <1>. QED
    BY <1>1, <1>2

-----------------------------------------------------------------------------
(* Theorems.                                                               *)

LEMMA InvAlways == Spec => []IInv
  BY InitInv, InvStep, PTL DEF Spec

\* For any frames and any failures, every open descriptor has exactly one owner,
\* a refused or dropped frame leaves none behind, and a sync that exists can be
\* destroyed and waited for (duplicate_with, import_sync_file, select_consumer).
THEOREM DescriptorsAccounted == Spec => []ResourcesAccounted
  BY InvAlways, InvAccounted, PTL

\* For any EGL implementation, the caller is told to read only behind the fence
\* (wait_server, wait_client, poll_sync_file, select_consumer).
THEOREM ReadsBehindFence == Spec => []ReadyMeansSignaled
  BY InvAlways, InvReady, PTL
=============================================================================
