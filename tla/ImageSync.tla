------------------------------ MODULE ImageSync ------------------------------
(***************************************************************************)
(* ImportedImageSync (rust/video-interop/src/vulkan/sync.rs): the lane     *)
(* that brackets the GPU's use of one imported frame at a time between an  *)
(* acquire and a release submission, tells the consumer when the           *)
(* producer's memory may go back, and is then used for another frame.      *)
(*                                                                         *)
(* The queue runs submissions in order and signals their fences; the       *)
(* device may be lost at any moment, and then a submission that reports    *)
(* the loss may or may not have been taken.  The renderer and the consumer *)
(* are the lane's callers: they pass back the semaphore they were given,   *)
(* submit their own work between acceptance and release, and retire a      *)
(* frame's lease when a poll says so.  Staged frames share one output      *)
(* image.  A call that fails before it changes anything is left out, and   *)
(* so is the wait on the producer's sync file.                             *)
(***************************************************************************)
EXTENDS Integers, Sequences, FiniteSets

CONSTANTS
  Frames,   \* imported images, each with its ImportId
  Staged,   \* those that are copied to a renderer-native output
  None,
  Timed     \* the lane has a timestamp query

ASSUME SyncAssumption ==
  Staged \subseteq Frames /\ None \notin Frames /\ Timed \in BOOLEAN

VARIABLES
  lane,               \* "up", "destroyed" or "quarantined"
  device_lost,        \* mark_device_lost was called
  gpu,                \* the device: "up" or "lost"
  queue,              \* submissions the device has not finished
  acquire_fence,      \* signaled
  release_fence,      \* signaled
  ready_semaphore,    \* the frame whose ready semaphore the lane owns, or None
  import_id,
  acquire_submitted,
  renderer_accepted,
  renderer_rejected,
  release_submitted,
  timing_active,
  timing_collected,
  timing,             \* the frame a collected sample is of, or None
  ready,              \* where the ready semaphore of a frame is
  family,             \* the queue family that owns a frame's memory
  initialized,        \* of the output slot: an acquire was submitted
  layout,             \* the output image's layout
  retired             \* frames whose lease the consumer has retired

fenceVars == <<acquire_fence, release_fence>>
callVars  == <<import_id, acquire_submitted, renderer_accepted,
               renderer_rejected, release_submitted>>
timeVars  == <<timing_active, timing_collected, timing>>
output    == <<initialized, layout>>
vars == <<lane, device_lost, gpu, queue, fenceVars, ready_semaphore, callVars,
          timeVars, ready, family, output, retired>>

\* A staged acquire is recorded for an initialized output or for a new one.
Submissions ==
  [op : {"acquire", "render", "release"}, frame : Frames, initialized : BOOLEAN]

TypeOK ==
  /\ lane \in {"up", "destroyed", "quarantined"}
  /\ device_lost \in BOOLEAN /\ gpu \in {"up", "lost"}
  /\ queue \in Seq(Submissions)
  /\ acquire_fence \in BOOLEAN /\ release_fence \in BOOLEAN
  /\ ready_semaphore \in Frames \cup {None} /\ import_id \in Frames \cup {None}
  /\ acquire_submitted \in BOOLEAN /\ release_submitted \in BOOLEAN
  /\ renderer_accepted \in BOOLEAN /\ renderer_rejected \in BOOLEAN
  /\ timing_active \in BOOLEAN /\ timing_collected \in BOOLEAN
  /\ timing \in Frames \cup {None}
  /\ ready \in [Frames -> {"none", "lane", "returned", "renderer", "destroyed"}]
  /\ family \in [Frames -> {"external", "ours"}]
  /\ initialized \in BOOLEAN /\ layout \in {"undefined", "shader_read"}
  /\ retired \subseteq Frames

Init ==
  /\ lane = "up" /\ device_lost = FALSE /\ gpu = "up" /\ queue = <<>>
  /\ acquire_fence = FALSE /\ release_fence = FALSE
  /\ ready_semaphore = None /\ import_id = None
  /\ acquire_submitted = FALSE /\ release_submitted = FALSE
  /\ renderer_accepted = FALSE /\ renderer_rejected = FALSE
  /\ timing_active = FALSE /\ timing_collected = FALSE /\ timing = None
  /\ ready = [f \in Frames |-> "none"]
  /\ family = [f \in Frames |-> "external"]
  /\ initialized = FALSE /\ layout = "undefined"
  /\ retired = {}

Submit(op, f) ==
  queue' = Append(queue, [op |-> op, frame |-> f, initialized |-> initialized])

-----------------------------------------------------------------------------
\* What submit_acquire records once the frame is, or may be, on the queue.
AcquireSubmitted(f, where) ==
  /\ import_id' = f
  /\ acquire_submitted' = TRUE
  /\ ready_semaphore' = f
  /\ ready' = [ready EXCEPT ![f] = where]

\* Mutant: the fence of the previous frame is not reset.
ResetAcquireFenceNever == UNCHANGED acquire_fence

\* The fence is reset before the submission is recorded ...
ResetAcquireFence == acquire_fence' = FALSE

\* ... and record_acquire decides whether the frame is timed.
ChooseTiming(f) ==
  timing_active' \in IF f \in Staged /\ Timed THEN BOOLEAN ELSE {FALSE}

\* Mutant: marked when recorded, submitted or not.
MarkAcquireSubmittedAlways(f, ok) == initialized' = (initialized \/ f \in Staged)

\* mark_acquire_submitted, once the queue took the submission.
MarkAcquireSubmitted(f, ok) == initialized' = (initialized \/ (ok /\ f \in Staged))

\* submit_acquire, for a frame not used before: submitted, failed after the
\* fence was reset, or failed with ERROR_DEVICE_LOST.
SubmitAcquire(f) ==
  /\ lane = "up" /\ ~acquire_submitted /\ ~release_submitted
  /\ ready[f] = "none" /\ f \notin retired
  /\ ResetAcquireFence /\ ChooseTiming(f)
  /\ \/ /\ gpu = "up"
        /\ Submit("acquire", f)
        /\ MarkAcquireSubmitted(f, TRUE)
        /\ AcquireSubmitted(f, "returned")
        /\ UNCHANGED device_lost
     \/ /\ MarkAcquireSubmitted(f, FALSE)
        /\ UNCHANGED <<queue, import_id, acquire_submitted, ready_semaphore, ready,
                       device_lost>>
     \/ /\ gpu = "lost"
        /\ UNCHANGED queue \/ Submit("acquire", f)
        /\ MarkAcquireSubmitted(f, FALSE)
        /\ AcquireSubmitted(f, "lane")
        /\ device_lost' = TRUE
  /\ UNCHANGED <<lane, gpu, release_fence, renderer_accepted, renderer_rejected,
                 release_submitted, timing_collected, timing, family, layout, retired>>

\* ganesh_wait_accepted: the semaphore is the renderer's now.
GaneshWaitAccepted(f) ==
  /\ lane = "up" /\ ready[f] = "returned" /\ ready_semaphore = f
  /\ ready_semaphore' = None
  /\ renderer_accepted' = TRUE
  /\ ready' = [ready EXCEPT ![f] = "renderer"]
  /\ UNCHANGED <<lane, device_lost, gpu, queue, fenceVars, import_id,
                 acquire_submitted, renderer_rejected, release_submitted, timeVars,
                 family, output, retired>>

\* ganesh_wait_rejected: the lane keeps it.
GaneshWaitRejected(f) ==
  /\ lane = "up" /\ ready[f] = "returned" /\ ready_semaphore = f
  /\ renderer_rejected' = TRUE
  /\ UNCHANGED <<lane, device_lost, gpu, queue, fenceVars, ready_semaphore, import_id,
                 acquire_submitted, renderer_accepted, release_submitted, timeVars,
                 ready, family, output, retired>>

\* External: the renderer's work that samples the frame (bounded to one).
Render(f) ==
  /\ lane = "up" /\ import_id = f /\ renderer_accepted /\ ~release_submitted
  /\ \A i \in 1..Len(queue) : queue[i].op # "render"
  /\ Submit("render", f)
  /\ UNCHANGED <<lane, device_lost, gpu, fenceVars, ready_semaphore, callVars,
                 timeVars, ready, family, output, retired>>

\* The checks of submit_release.
MayRelease ==
  /\ ~release_submitted
  /\ acquire_submitted /\ (renderer_accepted \/ renderer_rejected)

Pending(op) == {i \in 1..Len(queue) : queue[i].op = op}

\* submit_release of the image that was acquired.  A release the lost device
\* may have taken is tried again; at most one of them is on the queue.
SubmitRelease ==
  /\ lane = "up" /\ MayRelease
  /\ release_fence' = FALSE
  /\ \/ /\ gpu = "up"
        /\ Submit("release", import_id)
        /\ release_submitted' = TRUE
        /\ UNCHANGED device_lost
     \/ UNCHANGED <<queue, release_submitted, device_lost>>
     \/ /\ gpu = "lost"
        /\ \/ UNCHANGED queue
           \/ Pending("release") = {} /\ Submit("release", import_id)
        /\ device_lost' = TRUE
        /\ UNCHANGED release_submitted
  /\ UNCHANGED <<lane, gpu, acquire_fence, ready_semaphore, import_id,
                 acquire_submitted, renderer_accepted, renderer_rejected, timeVars,
                 ready, family, output, retired>>

-----------------------------------------------------------------------------
(* Polls.                                                                  *)

\* source_release_complete returned true.
SourceReleaseComplete ==
  acquire_submitted /\ import_id \in Staged /\ acquire_fence

\* External: the consumer retires the lease of a frame whose source is back.
RetireSource ==
  /\ lane = "up" /\ SourceReleaseComplete
  /\ retired' = retired \cup {import_id}
  /\ UNCHANGED <<lane, device_lost, gpu, queue, fenceVars, ready_semaphore, callVars,
                 timeVars, ready, family, output>>

\* collect_timing, when a timed frame has not been collected: a sample, none
\* (the query was not ready), or an error of the poll.
CollectTiming(result) ==
  /\ timing_collected' = TRUE
  /\ timing' = IF result = "ok" THEN import_id ELSE timing

\* Mutant: only a frame with a sample, or an untimed one, is reported.
ReportSampled(result) ==
  retired' = IF ~timing_active \/ timing' # None THEN retired \cup {import_id}
             ELSE retired

\* What release_complete returns; the consumer retires the lease on true.
Report(result) ==
  retired' = IF result = "error" THEN retired ELSE retired \cup {import_id}

\* release_complete, with the fence signaled; collect_timing is skipped for an
\* untimed frame and after the first call.
ReleaseComplete ==
  /\ lane = "up" /\ release_submitted /\ release_fence
  /\ \/ /\ timing_active /\ ~timing_collected
        /\ \E result \in {"ok", "not_ready", "error"} :
             CollectTiming(result) /\ Report(result)
     \/ /\ ~timing_active \/ timing_collected
        /\ UNCHANGED <<timing_collected, timing>>
        /\ Report("skipped")
  /\ UNCHANGED <<lane, device_lost, gpu, queue, fenceVars, ready_semaphore, callVars,
                 timing_active, ready, family, output>>

\* A poll of either fence, or the read of the timestamps, reports the loss.
PollLost ==
  /\ lane = "up" /\ gpu = "lost" /\ acquire_submitted
  /\ import_id \in Staged \/ release_submitted
  /\ device_lost' = TRUE
  /\ \/ UNCHANGED timing_collected
     \/ release_submitted /\ release_fence /\ timing_active /\ timing_collected' = TRUE
  /\ UNCHANGED <<lane, gpu, queue, fenceVars, ready_semaphore, callVars, timing_active,
                 timing, ready, family, output, retired>>

TakeTiming ==
  /\ lane = "up" /\ timing # None
  /\ timing' = None
  /\ UNCHANGED <<lane, device_lost, gpu, queue, fenceVars, ready_semaphore, callVars,
                 timing_active, timing_collected, ready, family, output, retired>>

-----------------------------------------------------------------------------
(* Reuse and destruction.                                                  *)

\* Mutant: the lane forgets the semaphore instead of destroying it.
ForgetReady == ready_semaphore' = None /\ UNCHANGED ready

\* destroy_semaphore of the ready semaphore the lane owns, if it does.
DestroyReady ==
  /\ ready_semaphore' = None
  /\ ready' = [f \in Frames |-> IF f = ready_semaphore THEN "destroyed" ELSE ready[f]]

ClearTiming == timing_active' = FALSE /\ timing_collected' = FALSE /\ timing' = None

\* The release fence is signaled: nothing the lane submitted is pending.
ReleaseIdle == release_submitted /\ release_fence

\* reset_for_reuse
ResetForReuse ==
  /\ lane = "up" /\ ReleaseIdle
  /\ \/ renderer_rejected /\ DestroyReady
     \/ /\ ~renderer_rejected /\ ready_semaphore = None
        /\ UNCHANGED <<ready_semaphore, ready>>
  /\ import_id' = None /\ acquire_submitted' = FALSE
  /\ renderer_accepted' = FALSE /\ renderer_rejected' = FALSE
  /\ release_submitted' = FALSE
  /\ ClearTiming
  /\ UNCHANGED <<lane, device_lost, gpu, queue, fenceVars, family, output, retired>>

\* Drop for ImportedImageSync: everything is destroyed, or nothing is and the
\* device is quarantined.  A lost device may fail the poll of a signaled fence.
DropLane ==
  /\ lane = "up"
  /\ \/ /\ ~acquire_submitted \/ ReleaseIdle
        /\ lane' = "destroyed"
        /\ DestroyReady
        /\ UNCHANGED device_lost
     \/ /\ acquire_submitted /\ (~ReleaseIdle \/ gpu = "lost")
        /\ lane' = "quarantined"
        /\ device_lost' = TRUE
        /\ UNCHANGED <<ready_semaphore, ready>>
  /\ UNCHANGED <<gpu, queue, fenceVars, callVars, timeVars, family, output, retired>>

-----------------------------------------------------------------------------
(* The device (external).                                                  *)

\* A direct image is acquired from the external family and released to it.
DirectFamily(op) == IF op = "acquire" THEN "ours" ELSE "external"

\* Ownership after a submission; a staged source is returned at once.
FamilyAfter(m) ==
  IF m.frame \in Staged \/ m.op = "render" THEN family[m.frame] ELSE DirectFamily(m.op)

\* A staged acquire ends with the output ready to be sampled.
LayoutAfter(m) ==
  IF m.frame \in Staged /\ m.op = "acquire" THEN "shader_read" ELSE layout

\* The oldest submission completes and its fence is signaled.
Complete ==
  /\ queue # <<>>
  /\ LET m == Head(queue)
     IN /\ queue' = Tail(queue)
        /\ acquire_fence' = (acquire_fence \/ m.op = "acquire")
        /\ release_fence' = (release_fence \/ m.op = "release")
        /\ family' = [family EXCEPT ![m.frame] = FamilyAfter(m)]
        /\ layout' = LayoutAfter(m)
  /\ UNCHANGED <<lane, device_lost, gpu, ready_semaphore, callVars, timeVars, ready,
                 initialized, retired>>

LoseDevice ==
  /\ gpu = "up"
  /\ gpu' = "lost"
  /\ UNCHANGED <<lane, device_lost, queue, fenceVars, ready_semaphore, callVars,
                 timeVars, ready, family, output, retired>>

-----------------------------------------------------------------------------
Next ==
  \/ \E f \in Frames : \/ SubmitAcquire(f) \/ GaneshWaitAccepted(f)
                       \/ GaneshWaitRejected(f) \/ Render(f)
  \/ SubmitRelease \/ RetireSource \/ ReleaseComplete \/ PollLost \/ TakeTiming
  \/ ResetForReuse \/ DropLane \/ Complete \/ LoseDevice

Spec == Init /\ [][Next]_vars

\* The device works off its queue, and the consumer keeps polling.
FairSpec == Spec /\ WF_vars(Complete) /\ WF_vars(ReleaseComplete)

-----------------------------------------------------------------------------
\* When the consumer has been told that a lease may retire, the device no
\* longer reads the producer's memory and the memory is owned by the external
\* family again: a fence never speaks for an earlier frame or for less than
\* the whole use (source_release_complete, release_complete, submit_acquire).
RetireSafe ==
  \A f \in retired :
    /\ family[f] = "external"
    /\ \A i \in 1..Len(queue) :
         queue[i].frame = f => f \in Staged /\ queue[i].op # "acquire"

\* Valid usage: fences, command pools and semaphores are reset, reused or
\* destroyed only when no submission uses them.  A lane that may acquire, or
\* that was destroyed, has nothing pending; one that may release has no release
\* pending, unless the loss of the device was reported; "dropping any
\* submitted/in-flight state marks the context quarantined"; and the one-shot
\* ready semaphore always has one owner, so none is leaked or destroyed twice
\* (reset_for_reuse, submit_release, ganesh_wait_accepted,
\* ganesh_wait_rejected, drop).
LaneIdle ==
  /\ lane = "destroyed" \/ ~acquire_submitted => queue = <<>>
  /\ ~release_submitted /\ ~device_lost => Pending("release") = {}
  /\ \A f \in Frames : ready[f] = "destroyed" =>
       \A i \in Pending("acquire") : queue[i].frame # f
  /\ lane # "up" /\ queue # <<>> => lane = "quarantined" /\ device_lost
  /\ \A f \in Frames : ready[f] \in {"lane", "returned"} <=> ready_semaphore = f
  /\ ~acquire_submitted => ready_semaphore = None

\* The layout an acquire's barrier names is the one the output image is in: a
\* slot counts as initialized only through a submission that the device runs
\* (mark_acquire_submitted, acquire_plan, record_staged_acquire).
LayoutKnown ==
  queue # <<>> =>
    LET m == Head(queue)
    IN m.op = "acquire" /\ m.frame \in Staged /\ m.initialized => layout = "shader_read"

\* A release that was submitted is reported, even if the timestamps cannot be
\* read, unless the lane is dropped or the device lost (release_complete,
\* collect_timing).
ReleaseObserved ==
  \A f \in Frames :
    (release_submitted /\ import_id = f) ~>
      (f \in retired \/ import_id # f \/ lane # "up" \/ gpu = "lost")
=============================================================================
