-------------------------- MODULE ImageSync_proofs --------------------------
(***************************************************************************)
(* Theorems about ImageSync for any frames: a lease retires only when the  *)
(* device is done with the frame, the lane reuses and destroys only what   *)
(* is idle, and barriers name the layout that the output image is in.      *)
(***************************************************************************)
EXTENDS ImageSync, TLAPS, SequenceTheorems

NoneOf(op) == \A i \in 1..Len(queue) : queue[i].op # op

\* Every submission on the queue is of the frame that the lane has acquired, the
\* acquire is the oldest, and its fence speaks for it.  A lane without a frame
\* has nothing on the queue, and neither has one that was destroyed.
QueueInv ==
  /\ acquire_submitted <=> import_id # None
  /\ ~acquire_submitted \/ lane = "destroyed" => queue = <<>>
  /\ \A i \in 1..Len(queue) : queue[i].frame = import_id
  /\ \A i \in 1..Len(queue) : queue[i].op = "acquire" => i = 1
  /\ acquire_submitted /\ acquire_fence => NoneOf("acquire")

\* A release that was submitted is the last submission of its frame, so its
\* fence speaks for all of them.  One that was not, or that the lost device may
\* have taken, is not on the queue of a device that is up.
ReleaseInv ==
  /\ release_submitted => acquire_submitted
  /\ release_submitted => (release_fence <=> queue = <<>>)
  /\ release_submitted =>
       \A i \in 1..Len(queue) : queue[i].op = "release" <=> i = Len(queue)
  /\ ~release_submitted /\ (gpu = "up" \/ ~device_lost) => NoneOf("release")

\* The ready semaphore has one owner, and is not destroyed while the acquire that
\* signals it is pending.
ReadyInv ==
  /\ \A f \in Frames : ready[f] \in {"lane", "returned"} <=> ready_semaphore = f
  /\ ~acquire_submitted => ready_semaphore = None
  /\ \A f \in Frames : ready[f] = "destroyed" =>
       \A i \in 1..Len(queue) : queue[i].op = "acquire" => queue[i].frame # f
  /\ lane = "quarantined" => device_lost

\* Whose memory is not owned by the lane's queue family.
Returned(f) == f \in Staged \/ f # import_id \/ (release_submitted /\ release_fence)

FamilyInv ==
  /\ \A f \in Frames : Returned(f) => family[f] = "external"
  /\ \A f \in retired : Returned(f)
  /\ import_id \in retired => NoneOf("acquire")

\* An output that counts as initialized is in its layout, or will be by the
\* acquire that the device runs first.
LayoutInv ==
  /\ initialized /\ layout # "shader_read" =>
       queue # <<>> /\ queue[1].op = "acquire" /\ queue[1].frame \in Staged
  /\ \A i \in 1..Len(queue) :
       queue[i].op = "acquire" /\ queue[i].frame \in Staged /\ queue[i].initialized
         => layout = "shader_read"

IInv == TypeOK /\ QueueInv /\ ReleaseInv /\ ReadyInv /\ FamilyInv /\ LayoutInv

USE DEF fenceVars, callVars, timeVars, output

-----------------------------------------------------------------------------
(* The queue and the types.                                                  *)

\* A submission joins the queue at its end.
LEMMA Submitted ==
  ASSUME TypeOK, NEW op \in {"acquire", "render", "release"}, NEW f \in Frames, Submit(op, f)
  PROVE  /\ queue' \in Seq(Submissions) /\ queue' # <<>>
         /\ Len(queue) \in Nat /\ Len(queue') = Len(queue) + 1
         /\ \A i \in 1..Len(queue) : queue'[i] = queue[i]
         /\ queue'[Len(queue) + 1] = [op |-> op, frame |-> f, initialized |-> initialized]
<1> DEFINE m == [op |-> op, frame |-> f, initialized |-> initialized]
<1>1. queue \in Seq(Submissions) /\ m \in Submissions
  BY DEF TypeOK, Submissions
<1>2. queue' = Append(queue, m)
  BY DEF Submit
<1> HIDE DEF m
<1>3. /\ queue' \in Seq(Submissions) /\ Len(queue') = Len(queue) + 1
      /\ \A i \in 1..Len(queue) : queue'[i] = queue[i]
      /\ queue'[Len(queue) + 1] = m
  BY <1>1, <1>2, AppendProperties
<1>4. Len(queue) \in Nat
  BY <1>1
<1>5. queue' # <<>>
  BY <1>3, <1>4
<1> QED BY <1>3, <1>4, <1>5 DEF m

\* The oldest submission leaves it.
LEMMA Completed ==
  ASSUME TypeOK, queue # <<>>, queue' = Tail(queue)
  PROVE  /\ queue' \in Seq(Submissions)
         /\ Len(queue) \in Nat \ {0} /\ Len(queue') = Len(queue) - 1
         /\ \A i \in 1..Len(queue') : i + 1 \in 1..Len(queue) /\ queue'[i] = queue[i + 1]
         /\ Head(queue) = queue[1] /\ Head(queue) \in Submissions
         /\ queue' = <<>> <=> Len(queue) = 1
<1>1. queue \in Seq(Submissions)
  BY DEF TypeOK
<1>2. /\ Head(queue) = queue[1] /\ Head(queue) \in Submissions
      /\ queue' \in Seq(Submissions) /\ Len(queue') = Len(queue) - 1
      /\ \A i \in 1..Len(queue') : queue'[i] = queue[i + 1]
  BY <1>1, HeadTailProperties
<1>3. Len(queue) \in Nat \ {0}
  BY <1>1, EmptySeq
<1>4. \A i \in 1..Len(queue') : i + 1 \in 1..Len(queue)
  BY <1>2, <1>3
<1>5. queue' = <<>> <=> Len(queue) = 1
  <2>1. queue' = <<>> <=> Len(queue') = 0
    BY <1>2, EmptySeq
  <2> QED BY <1>2, <1>3, <2>1
<1> QED BY <1>2, <1>3, <1>4, <1>5

\* The queue holds submissions.
LEMMA Queued ==
  ASSUME TypeOK, NEW i \in 1..Len(queue)
  PROVE  queue[i] \in Submissions /\ queue[i].op \in {"acquire", "render", "release"}
         /\ queue[i].frame \in Frames
<1>1. queue[i] \in Submissions
  BY ElementOfSeq DEF TypeOK
<1> QED BY <1>1 DEF Submissions

LEMMA TypeStep == TypeOK /\ QueueInv /\ ReleaseInv /\ [Next]_vars => TypeOK'
<1> SUFFICES ASSUME TypeOK, QueueInv, ReleaseInv, [Next]_vars PROVE TypeOK'
  OBVIOUS
<1>1. import_id \in Frames \cup {None} /\ (acquire_submitted => import_id \in Frames)
  BY DEF TypeOK, QueueInv
<1>2. ASSUME NEW f \in Frames, SubmitAcquire(f) PROVE TypeOK'
  <2>1. queue' \in Seq(Submissions)
    <3>1. CASE Submit("acquire", f)
      BY <3>1, Submitted
    <3> QED BY <1>2, <3>1 DEF SubmitAcquire, TypeOK
  <2>2. acquire_fence' \in BOOLEAN /\ timing_active' \in BOOLEAN
    BY <1>2, SyncAssumption DEF SubmitAcquire, ResetAcquireFence, ChooseTiming
  <2>3. initialized' \in BOOLEAN
    BY <1>2 DEF SubmitAcquire, MarkAcquireSubmitted, TypeOK
  <2>4. /\ import_id' \in Frames \cup {None} /\ ready_semaphore' \in Frames \cup {None}
        /\ acquire_submitted' \in BOOLEAN
    BY <1>2 DEF SubmitAcquire, AcquireSubmitted, TypeOK
  <2>5. ready' \in [Frames -> {"none", "lane", "returned", "renderer", "destroyed"}]
    BY <1>2 DEF SubmitAcquire, AcquireSubmitted, TypeOK
  <2>6. device_lost' \in BOOLEAN
    BY <1>2 DEF SubmitAcquire, TypeOK
  <2> QED BY <1>2, <2>1, <2>2, <2>3, <2>4, <2>5, <2>6 DEF SubmitAcquire, TypeOK
<1>3. ASSUME NEW f \in Frames, GaneshWaitAccepted(f) PROVE TypeOK'
  <2>1. ready' \in [Frames -> {"none", "lane", "returned", "renderer", "destroyed"}]
    BY <1>3 DEF GaneshWaitAccepted, TypeOK
  <2> QED BY <1>3, <2>1 DEF GaneshWaitAccepted, TypeOK
<1>4. ASSUME NEW f \in Frames, GaneshWaitRejected(f) PROVE TypeOK'
  BY <1>4 DEF GaneshWaitRejected, TypeOK
<1>5. ASSUME NEW f \in Frames, Render(f) PROVE TypeOK'
  <2>1. queue' \in Seq(Submissions)
    BY <1>5, Submitted DEF Render
  <2> QED BY <1>5, <2>1 DEF Render, TypeOK
<1>6. CASE SubmitRelease
  <2>1. queue' \in Seq(Submissions)
    <3>1. CASE Submit("release", import_id)
      BY <1>1, <1>6, <3>1, Submitted DEF SubmitRelease, MayRelease
    <3> QED BY <1>6, <3>1 DEF SubmitRelease, TypeOK
  <2>2. release_submitted' \in BOOLEAN /\ device_lost' \in BOOLEAN
    BY <1>6 DEF SubmitRelease, TypeOK
  <2>3. release_fence' \in BOOLEAN
    BY <1>6 DEF SubmitRelease
  <2>4. UNCHANGED <<lane, gpu, acquire_fence, ready_semaphore, import_id,
                    acquire_submitted, renderer_accepted, renderer_rejected, timeVars,
                    ready, family, output, retired>>
    BY <1>6 DEF SubmitRelease
  <2> QED BY <2>1, <2>2, <2>3, <2>4 DEF TypeOK
<1>7. CASE RetireSource
  <2>1. retired' \subseteq Frames
    BY <1>1, <1>7 DEF RetireSource, SourceReleaseComplete, TypeOK
  <2> QED BY <1>7, <2>1 DEF RetireSource, TypeOK
<1>8. CASE ReleaseComplete
  <2>1. import_id \in Frames
    BY <1>1, <1>8 DEF ReleaseComplete, ReleaseInv
  <2>2. timing_collected' \in BOOLEAN /\ timing' \in Frames \cup {None}
    BY <1>8, <2>1 DEF ReleaseComplete, CollectTiming, TypeOK
  <2>3. retired' \subseteq Frames
    BY <1>8, <2>1 DEF ReleaseComplete, Report, TypeOK
  <2> QED BY <1>8, <2>2, <2>3 DEF ReleaseComplete, TypeOK
<1>9. CASE PollLost
  <2>1. timing_collected' \in BOOLEAN /\ device_lost' \in BOOLEAN
    BY <1>9 DEF PollLost, TypeOK
  <2>2. UNCHANGED <<lane, gpu, queue, fenceVars, ready_semaphore, callVars, timing_active,
                    timing, ready, family, output, retired>>
    BY <1>9 DEF PollLost
  <2> QED BY <2>1, <2>2 DEF TypeOK
<1>14. CASE TakeTiming
  BY <1>14 DEF TakeTiming, TypeOK
<1>10. CASE ResetForReuse
  <2>1. ready_semaphore' \in Frames \cup {None}
        /\ ready' \in [Frames -> {"none", "lane", "returned", "renderer", "destroyed"}]
    BY <1>10 DEF ResetForReuse, DestroyReady, TypeOK
  <2> QED BY <1>10, <2>1 DEF ResetForReuse, ClearTiming, TypeOK
<1>11. CASE DropLane
  <2>1. ready_semaphore' \in Frames \cup {None}
        /\ ready' \in [Frames -> {"none", "lane", "returned", "renderer", "destroyed"}]
    BY <1>11 DEF DropLane, DestroyReady, TypeOK
  <2>2. lane' \in {"up", "destroyed", "quarantined"} /\ device_lost' \in BOOLEAN
    BY <1>11 DEF DropLane, TypeOK
  <2> QED BY <1>11, <2>1, <2>2 DEF DropLane, TypeOK
<1>12. CASE Complete
  <2>1. queue' \in Seq(Submissions) /\ Head(queue) \in Submissions
    BY <1>12, Completed DEF Complete
  <2>2. acquire_fence' \in BOOLEAN /\ release_fence' \in BOOLEAN
    BY <1>12 DEF Complete, TypeOK
  <2>3. family' \in [Frames -> {"external", "ours"}]
    <3>1. Head(queue).frame \in Frames
      BY <2>1 DEF Submissions
    <3>2. FamilyAfter(Head(queue)) \in {"external", "ours"}
      BY <3>1 DEF FamilyAfter, DirectFamily, TypeOK
    <3> QED BY <1>12, <3>1, <3>2 DEF Complete, TypeOK
  <2>4. layout' \in {"undefined", "shader_read"}
    BY <1>12 DEF Complete, LayoutAfter, TypeOK
  <2> QED BY <1>12, <2>1, <2>2, <2>3, <2>4 DEF Complete, TypeOK
<1>13. CASE LoseDevice \/ UNCHANGED vars
  BY <1>13 DEF LoseDevice, vars, TypeOK
<1> QED BY <1>2, <1>3, <1>4, <1>5, <1>6, <1>7, <1>8, <1>9, <1>10, <1>11, <1>12, <1>13,
           <1>14 DEF Next

-----------------------------------------------------------------------------
(* The queue and the fences.                                                 *)

\* An acquire is submitted to an empty queue.
LEMMA AcquireQueue ==
  ASSUME TypeOK, QueueInv, NEW f \in Frames, SubmitAcquire(f)
  PROVE  /\ queue = <<>> /\ import_id = None /\ ready_semaphore \in Frames \cup {None}
         /\ \/ queue' = <<>>
            \/ /\ queue' # <<>> /\ import_id' = f /\ 1 \in 1..Len(queue')
               /\ \A i \in 1..Len(queue') :
                    i = 1 /\ queue'[i] = [op |-> "acquire", frame |-> f,
                                          initialized |-> initialized]
<1>1. queue = <<>> /\ import_id = None
  BY DEF SubmitAcquire, QueueInv
<1>2. CASE UNCHANGED queue
  BY <1>1, <1>2 DEF TypeOK
<1>3. CASE Submit("acquire", f) /\ import_id' = f
  <2>1. /\ queue' # <<>> /\ Len(queue) \in Nat /\ Len(queue') = Len(queue) + 1
        /\ queue'[Len(queue) + 1] = [op |-> "acquire", frame |-> f,
                                     initialized |-> initialized]
    BY <1>3, Submitted
  <2>2. Len(queue) = 0
    BY <1>1
  <2>3. Len(queue') = 1 /\ queue'[1] = [op |-> "acquire", frame |-> f,
                                        initialized |-> initialized]
    BY <2>1, <2>2
  <2> HIDE <1>3
  <2>4. 1 \in 1..Len(queue') /\ \A i \in 1..Len(queue') : i = 1
    BY <2>3
  <2> QED BY <1>1, <1>3, <2>1, <2>3, <2>4 DEF TypeOK
<1>4. UNCHANGED queue \/ (Submit("acquire", f) /\ import_id' = f)
  BY DEF SubmitAcquire, AcquireSubmitted
<1> QED BY <1>2, <1>3, <1>4

\* An empty queue has no submission of any kind.
LEMMA EmptyQueue == ASSUME queue = <<>> PROVE \A i \in 1..Len(queue) : FALSE
<1>1. Len(queue) = 0
  OBVIOUS
<1> QED BY <1>1

LEMMA EmptyQueueNext == ASSUME queue' = <<>> PROVE \A i \in 1..Len(queue') : FALSE
<1>1. Len(queue') = 0
  OBVIOUS
<1> QED BY <1>1

\* A submission of the frame behind the others.
LEMMA QueueExtended ==
  ASSUME TypeOK, QueueInv, NEW op \in {"render", "release"}, import_id \in Frames,
         acquire_submitted, lane # "destroyed",
         Submit(op, import_id), UNCHANGED <<lane, import_id, acquire_submitted, acquire_fence>>
  PROVE  QueueInv'
<1>1. /\ Len(queue) \in Nat /\ Len(queue') = Len(queue) + 1
      /\ \A i \in 1..Len(queue) : queue'[i] = queue[i]
      /\ queue'[Len(queue) + 1] = [op |-> op, frame |-> import_id, initialized |-> initialized]
  BY Submitted
<1>2. queue'[Len(queue) + 1].op = op /\ queue'[Len(queue) + 1].frame = import_id
  BY <1>1
<1>3. \A i \in 1..Len(queue') : i \in 1..Len(queue) \/ i = Len(queue) + 1
  BY <1>1
<1>4. \A i \in 1..Len(queue') : queue'[i].frame = import_id
  BY <1>1, <1>2, <1>3 DEF QueueInv
<1>5. \A i \in 1..Len(queue') :
        queue'[i].op = "acquire" => i \in 1..Len(queue) /\ queue[i].op = "acquire"
  BY <1>1, <1>2, <1>3
<1> QED BY <1>4, <1>5 DEF QueueInv, NoneOf

LEMMA QueueStep == TypeOK /\ QueueInv /\ ReleaseInv /\ [Next]_vars => QueueInv'
<1> SUFFICES ASSUME TypeOK, QueueInv, ReleaseInv, [Next]_vars PROVE QueueInv'
  OBVIOUS
<1>1. CASE UNCHANGED <<lane, queue, import_id, acquire_submitted, acquire_fence>>
  BY <1>1 DEF QueueInv, NoneOf
<1>2. ASSUME NEW f \in Frames, SubmitAcquire(f) PROVE QueueInv'
  <2>1. /\ queue = <<>> /\ import_id = None
        /\ \/ queue' = <<>>
           \/ /\ queue' # <<>> /\ import_id' = f
              /\ \A i \in 1..Len(queue') :
                   i = 1 /\ queue'[i] = [op |-> "acquire", frame |-> f,
                                         initialized |-> initialized]
    BY <1>2, AcquireQueue
  <2>2. \/ import_id' = f /\ acquire_submitted'
        \/ import_id' = import_id /\ ~acquire_submitted' /\ queue' = queue
    BY <1>2 DEF SubmitAcquire, AcquireSubmitted
  <2>3. acquire_fence' = FALSE /\ lane' = "up"
    BY <1>2 DEF SubmitAcquire, ResetAcquireFence
  <2>4. f # None
    BY SyncAssumption
  <2>5. acquire_submitted' <=> import_id' # None
    BY <2>1, <2>2, <2>4
  <2>6. (\A i \in 1..Len(queue) : queue[i].frame = import_id)'
    BY <2>1, EmptyQueueNext
  <2>7. (\A i \in 1..Len(queue) : queue[i].op = "acquire" => i = 1)'
    BY <2>1, EmptyQueueNext
  <2>8. ~acquire_submitted' \/ lane' = "destroyed" => queue' = <<>>
    BY <2>1, <2>2, <2>3
  <2> QED BY <2>3, <2>5, <2>6, <2>7, <2>8 DEF QueueInv
<1>3. ASSUME NEW f \in Frames, Render(f) PROVE QueueInv'
  <2>1. acquire_submitted /\ import_id = f /\ lane = "up"
    BY <1>3, SyncAssumption DEF Render, QueueInv
  <2>2. Submit("render", f) /\ UNCHANGED <<lane, import_id, acquire_submitted, acquire_fence>>
    BY <1>3 DEF Render
  <2> QED BY <2>1, <2>2, QueueExtended
<1>4. CASE SubmitRelease
  <2>1. acquire_submitted /\ import_id \in Frames /\ lane = "up"
    BY <1>4 DEF SubmitRelease, MayRelease, QueueInv, TypeOK
  <2>2. /\ UNCHANGED <<lane, import_id, acquire_submitted, acquire_fence>>
        /\ Submit("release", import_id) \/ UNCHANGED queue
    BY <1>4 DEF SubmitRelease
  <2> QED BY <1>1, <2>1, <2>2, QueueExtended
<1>5. CASE ResetForReuse
  <2>1. queue = <<>>
    BY <1>5 DEF ResetForReuse, ReleaseIdle, ReleaseInv
  <2>2. queue' = <<>> /\ import_id' = None /\ ~acquire_submitted'
    BY <1>5, <2>1 DEF ResetForReuse
  <2> QED BY <2>2, EmptyQueueNext DEF QueueInv
<1>6. CASE DropLane
  <2>1. UNCHANGED <<queue, import_id, acquire_submitted, acquire_fence>>
    BY <1>6 DEF DropLane
  <2>2. lane' = "destroyed" => ~acquire_submitted \/ ReleaseIdle
    BY <1>6 DEF DropLane
  <2>3. lane' = "destroyed" => queue' = <<>>
    BY <2>1, <2>2 DEF ReleaseIdle, ReleaseInv, QueueInv
  <2> QED BY <2>1, <2>3 DEF QueueInv, NoneOf
<1>7. CASE Complete
  <2>1. /\ queue # <<>> /\ queue' = Tail(queue)
        /\ UNCHANGED <<lane, import_id, acquire_submitted>>
    BY <1>7 DEF Complete
  <2>2. /\ Len(queue) \in Nat \ {0} /\ Len(queue') = Len(queue) - 1
        /\ \A i \in 1..Len(queue') : i + 1 \in 1..Len(queue) /\ queue'[i] = queue[i + 1]
    BY <2>1, Completed
  <2>3. \A i \in 1..Len(queue') : i + 1 # 1
    BY <2>2
  <2>4. \A i \in 1..Len(queue') : queue'[i].frame = import_id /\ queue'[i].op # "acquire"
    BY <2>2, <2>3 DEF QueueInv
  <2>5. acquire_submitted /\ lane # "destroyed"
    BY <2>1 DEF QueueInv
  <2>6. (acquire_submitted <=> import_id # None)'
    BY <2>1 DEF QueueInv
  <2>7. (~acquire_submitted \/ lane = "destroyed" => queue = <<>>)'
    BY <2>1, <2>5
  <2>8. NoneOf("acquire")'
    BY <2>4 DEF NoneOf
  <2> QED BY <2>1, <2>4, <2>6, <2>7, <2>8 DEF QueueInv
<1>8. ASSUME \/ \E f \in Frames : GaneshWaitAccepted(f) \/ GaneshWaitRejected(f)
             \/ RetireSource \/ ReleaseComplete \/ PollLost \/ TakeTiming \/ LoseDevice
      PROVE  UNCHANGED <<lane, queue, import_id, acquire_submitted, acquire_fence>>
  BY <1>8 DEF GaneshWaitAccepted, GaneshWaitRejected, RetireSource, ReleaseComplete,
        PollLost, TakeTiming, LoseDevice
<1> QED BY <1>1, <1>2, <1>3, <1>4, <1>5, <1>6, <1>7, <1>8 DEF Next, vars

LEMMA ReleaseStep == TypeOK /\ QueueInv /\ ReleaseInv /\ [Next]_vars => ReleaseInv'
<1> SUFFICES ASSUME TypeOK, QueueInv, ReleaseInv, [Next]_vars PROVE ReleaseInv'
  OBVIOUS
<1>1. CASE /\ UNCHANGED <<queue, acquire_submitted, release_submitted, release_fence>>
           /\ gpu' \in {gpu, "lost"} /\ (device_lost => device_lost')
  BY <1>1 DEF ReleaseInv, NoneOf, TypeOK
<1>2. ASSUME NEW f \in Frames, SubmitAcquire(f) PROVE ReleaseInv'
  <2>1. \/ queue' = <<>>
        \/ \A i \in 1..Len(queue') : queue'[i] = [op |-> "acquire", frame |-> f,
                                                  initialized |-> initialized]
    BY <1>2, AcquireQueue
  <2>2. ~release_submitted /\ UNCHANGED release_submitted
    BY <1>2 DEF SubmitAcquire
  <2>3. NoneOf("release")'
    BY <2>1, EmptyQueueNext DEF NoneOf
  <2> QED BY <2>2, <2>3 DEF ReleaseInv
<1>3. ASSUME NEW f \in Frames, Render(f) PROVE ReleaseInv'
  <2>1. /\ Submit("render", f) /\ ~release_submitted
        /\ UNCHANGED <<release_submitted, acquire_submitted, release_fence, gpu, device_lost>>
    BY <1>3 DEF Render
  <2>2. /\ Len(queue) \in Nat /\ Len(queue') = Len(queue) + 1
        /\ \A i \in 1..Len(queue) : queue'[i] = queue[i]
        /\ queue'[Len(queue) + 1] = [op |-> "render", frame |-> f, initialized |-> initialized]
    BY <2>1, Submitted
  <2>3. \A i \in 1..Len(queue') : i \in 1..Len(queue) \/ i = Len(queue) + 1
    BY <2>2
  <2>4. NoneOf("release") => NoneOf("release")'
    BY <2>2, <2>3 DEF NoneOf
  <2> QED BY <2>1, <2>4 DEF ReleaseInv
<1>4. CASE SubmitRelease
  <2>1. /\ ~release_submitted /\ acquire_submitted /\ UNCHANGED <<acquire_submitted, gpu>>
        /\ release_fence' = FALSE /\ import_id \in Frames
    BY <1>4 DEF SubmitRelease, MayRelease, QueueInv, TypeOK
  <2>2. CASE gpu = "up" /\ Submit("release", import_id) /\ release_submitted'
    <3>1. /\ Len(queue) \in Nat /\ Len(queue') = Len(queue) + 1 /\ queue' # <<>>
          /\ \A i \in 1..Len(queue) : queue'[i] = queue[i]
          /\ queue'[Len(queue) + 1] = [op |-> "release", frame |-> import_id,
                                       initialized |-> initialized]
      BY <2>1, <2>2, Submitted
    <3>2. \A i \in 1..Len(queue') : i \in 1..Len(queue) <=> i # Len(queue')
      BY <3>1
    <3>3. NoneOf("release")
      BY <2>1, <2>2 DEF ReleaseInv
    <3>4. queue'[Len(queue')].op = "release"
      BY <3>1
    <3>5. \A i \in 1..Len(queue') : queue'[i].op = "release" <=> i = Len(queue')
      BY <3>1, <3>2, <3>3, <3>4 DEF NoneOf
    <3> QED BY <2>1, <2>2, <3>1, <3>5 DEF ReleaseInv
  <2>3. CASE UNCHANGED <<queue, release_submitted, device_lost>>
    BY <2>1, <2>3 DEF ReleaseInv, NoneOf
  <2>4. CASE gpu = "lost" /\ device_lost' = TRUE /\ UNCHANGED release_submitted
    BY <2>1, <2>4 DEF ReleaseInv
  <2> QED BY <1>4, <2>2, <2>3, <2>4 DEF SubmitRelease
<1>5. CASE ResetForReuse
  <2>1. queue = <<>>
    BY <1>5 DEF ResetForReuse, ReleaseIdle, ReleaseInv
  <2>2. queue' = <<>> /\ ~release_submitted'
    BY <1>5, <2>1 DEF ResetForReuse
  <2>3. NoneOf("release")'
    BY <2>2, EmptyQueueNext DEF NoneOf
  <2> QED BY <2>2, <2>3 DEF ReleaseInv
<1>6. CASE DropLane
  <2>1. /\ UNCHANGED <<queue, acquire_submitted, release_submitted, release_fence, gpu>>
        /\ device_lost' \in {device_lost, TRUE}
    BY <1>6 DEF DropLane
  <2> QED BY <1>1, <2>1
<1>7. CASE Complete
  <2>1. /\ queue # <<>> /\ queue' = Tail(queue)
        /\ release_fence' = (release_fence \/ Head(queue).op = "release")
        /\ UNCHANGED <<acquire_submitted, release_submitted, gpu, device_lost>>
    BY <1>7 DEF Complete
  <2>2. /\ Len(queue) \in Nat \ {0} /\ Len(queue') = Len(queue) - 1
        /\ \A i \in 1..Len(queue') : i + 1 \in 1..Len(queue) /\ queue'[i] = queue[i + 1]
        /\ Head(queue) = queue[1]
        /\ queue' = <<>> <=> Len(queue) = 1
    BY <2>1, Completed
  <2>3. NoneOf("release") => NoneOf("release")'
    BY <2>2 DEF NoneOf
  <2>4. ASSUME release_submitted
        PROVE  /\ (release_fence <=> queue = <<>>)'
               /\ (\A i \in 1..Len(queue) : queue[i].op = "release" <=> i = Len(queue))'
    <3>1. /\ ~release_fence
          /\ \A i \in 1..Len(queue) : queue[i].op = "release" <=> i = Len(queue)
      BY <2>1, <2>4 DEF ReleaseInv
    <3>2. 1 \in 1..Len(queue)
      BY <2>2
    <3>3. Head(queue).op = "release" <=> 1 = Len(queue)
      BY <2>2, <3>1, <3>2
    <3>4. release_fence' <=> Head(queue).op = "release"
      BY <2>1, <3>1
    <3>5. (release_fence <=> queue = <<>>)'
      BY <2>2, <3>3, <3>4
    <3>6. \A i \in 1..Len(queue') : i + 1 = Len(queue) <=> i = Len(queue')
      BY <2>2
    <3>7. \A i \in 1..Len(queue') : queue'[i].op = "release" <=> i = Len(queue')
      BY <2>2, <3>1, <3>6
    <3> QED BY <3>5, <3>7
  <2> QED BY <2>1, <2>3, <2>4 DEF ReleaseInv
<1>8. ASSUME \/ \E f \in Frames : GaneshWaitAccepted(f) \/ GaneshWaitRejected(f)
             \/ RetireSource \/ ReleaseComplete \/ PollLost \/ TakeTiming \/ LoseDevice
      PROVE  /\ UNCHANGED <<queue, acquire_submitted, release_submitted, release_fence>>
             /\ gpu' \in {gpu, "lost"} /\ (device_lost => device_lost')
  BY <1>8 DEF GaneshWaitAccepted, GaneshWaitRejected, RetireSource, ReleaseComplete,
        PollLost, TakeTiming, LoseDevice
<1>9. CASE UNCHANGED vars
  BY <1>1, <1>9 DEF vars
<1> QED BY <1>1, <1>2, <1>3, <1>4, <1>5, <1>6, <1>7, <1>8, <1>9 DEF Next

-----------------------------------------------------------------------------
(* The ready semaphore.                                                      *)

\* An acquire that is on the queue after a step was there before it, or is of the
\* frame whose semaphore the step handed out.
PendingAcquire(f) == \E i \in 1..Len(queue) : queue[i].op = "acquire" /\ queue[i].frame = f

LEMMA AcquiresPending ==
  ASSUME TypeOK, QueueInv, ReleaseInv, [Next]_vars, NEW f \in Frames, PendingAcquire(f)'
  PROVE  PendingAcquire(f) \/ (SubmitAcquire(f) /\ import_id' = f)
<1>1. CASE UNCHANGED queue
  BY <1>1 DEF PendingAcquire
<1>2. ASSUME NEW g \in Frames, SubmitAcquire(g)
      PROVE  PendingAcquire(f) \/ (SubmitAcquire(f) /\ import_id' = f)
  <2>1. /\ import_id' = g
        /\ \A i \in 1..Len(queue') : queue'[i] = [op |-> "acquire", frame |-> g,
                                                  initialized |-> initialized]
    BY <1>2, AcquireQueue, EmptyQueueNext DEF PendingAcquire
  <2>2. f = g
    BY <2>1 DEF PendingAcquire
  <2> QED BY <1>2, <2>1, <2>2
<1>3. ASSUME NEW op \in {"render", "release"}, NEW g \in Frames, Submit(op, g)
      PROVE  PendingAcquire(f)
  <2>1. /\ Len(queue) \in Nat /\ Len(queue') = Len(queue) + 1
        /\ \A i \in 1..Len(queue) : queue'[i] = queue[i]
        /\ queue'[Len(queue) + 1] = [op |-> op, frame |-> g, initialized |-> initialized]
    BY <1>3, Submitted
  <2>2. queue'[Len(queue) + 1].op # "acquire"
    BY <2>1
  <2>3. \A i \in 1..Len(queue') : i \in 1..Len(queue) \/ i = Len(queue) + 1
    BY <2>1
  <2> QED BY <2>1, <2>2, <2>3 DEF PendingAcquire
<1>4. CASE Complete
  <2>1. \A i \in 1..Len(queue') : i + 1 \in 1..Len(queue) /\ queue'[i] = queue[i + 1]
    BY <1>4, Completed DEF Complete
  <2> QED BY <2>1 DEF PendingAcquire
<1>5. CASE SubmitRelease
  <2>1. import_id \in Frames
    BY <1>5 DEF SubmitRelease, MayRelease, QueueInv, TypeOK
  <2> QED BY <1>1, <1>3, <1>5, <2>1 DEF SubmitRelease
<1>6. ASSUME NEW g \in Frames, Render(g) PROVE PendingAcquire(f)
  BY <1>3, <1>6 DEF Render
<1>7. ASSUME \/ \E g \in Frames : GaneshWaitAccepted(g) \/ GaneshWaitRejected(g)
             \/ RetireSource \/ ReleaseComplete \/ PollLost \/ TakeTiming \/ ResetForReuse
             \/ DropLane \/ LoseDevice
      PROVE  UNCHANGED queue
  BY <1>7 DEF GaneshWaitAccepted, GaneshWaitRejected, RetireSource, ReleaseComplete,
        PollLost, TakeTiming, ResetForReuse, DropLane, LoseDevice
<1> QED BY <1>1, <1>2, <1>4, <1>5, <1>6, <1>7 DEF Next, vars

\* The ready semaphore has one owner.
Owned == \A f \in Frames : ready[f] \in {"lane", "returned"} <=> ready_semaphore = f

LEMMA DestroyOwned ==
  ASSUME TypeOK, Owned, DestroyReady
  PROVE  Owned' /\ ready_semaphore' = None
BY SyncAssumption DEF Owned, DestroyReady, TypeOK

LEMMA ReadyStep == TypeOK /\ QueueInv /\ ReleaseInv /\ ReadyInv /\ [Next]_vars => ReadyInv'
<1> SUFFICES ASSUME TypeOK, QueueInv, ReleaseInv, ReadyInv, [Next]_vars PROVE ReadyInv'
  OBVIOUS
<1>0. Owned /\ (~acquire_submitted => ready_semaphore = None)
      /\ (\A f \in Frames : ready[f] = "destroyed" => ~PendingAcquire(f))
      /\ (lane = "quarantined" => device_lost)
  BY DEF ReadyInv, Owned, PendingAcquire
<1>1. SUFFICES /\ Owned' /\ (~acquire_submitted => ready_semaphore = None)'
               /\ (\A f \in Frames : ready[f] = "destroyed" => ~PendingAcquire(f))'
               /\ (lane = "quarantined" => device_lost)'
  BY DEF ReadyInv, Owned, PendingAcquire
<1>2. CASE /\ UNCHANGED <<ready, ready_semaphore, acquire_submitted>>
           /\ \A f \in Frames : ready[f] = "destroyed" => ~SubmitAcquire(f)
           /\ (lane' = "quarantined" => device_lost')
  <2>1. \A f \in Frames : ready'[f] = "destroyed" => ~PendingAcquire(f)'
    BY <1>0, <1>2, AcquiresPending
  <2> QED BY <1>0, <1>2, <2>1 DEF Owned
<1>3. ASSUME NEW f \in Frames, SubmitAcquire(f)
      PROVE  /\ Owned' /\ (~acquire_submitted => ready_semaphore = None)'
             /\ (\A g \in Frames : ready[g] = "destroyed" => ~PendingAcquire(g))'
             /\ (lane = "quarantined" => device_lost)'
  <2>1. lane' = "up" /\ ready_semaphore = None /\ ready[f] = "none"
    BY <1>0, <1>3 DEF SubmitAcquire
  <2>2. CASE UNCHANGED <<ready, ready_semaphore, acquire_submitted, queue>>
    BY <1>0, <2>1, <2>2 DEF Owned, PendingAcquire
  <2>3. ASSUME NEW where \in {"lane", "returned"}, AcquireSubmitted(f, where)
        PROVE  /\ Owned' /\ (~acquire_submitted => ready_semaphore = None)'
               /\ (\A g \in Frames : ready[g] = "destroyed" => ~PendingAcquire(g))'
               /\ (lane = "quarantined" => device_lost)'
    <3>1. ready' = [ready EXCEPT ![f] = where] /\ ready_semaphore' = f
          /\ acquire_submitted' /\ import_id' = f
      BY <2>3 DEF AcquireSubmitted
    <3>2. Owned'
      BY <1>0, <2>1, <3>1, SyncAssumption DEF Owned, TypeOK
    <3>3. ASSUME NEW g \in Frames, ready'[g] = "destroyed" PROVE ~PendingAcquire(g)'
      <4>1. g # f /\ ready[g] = "destroyed"
        BY <3>1, <3>3 DEF TypeOK
      <4> QED BY <1>0, <3>1, <4>1, AcquiresPending
    <3> QED BY <2>1, <3>1, <3>2, <3>3
  <2> QED BY <1>3, <2>2, <2>3 DEF SubmitAcquire
<1>4. ASSUME NEW f \in Frames, GaneshWaitAccepted(f)
      PROVE  /\ Owned' /\ (~acquire_submitted => ready_semaphore = None)'
             /\ (\A g \in Frames : ready[g] = "destroyed" => ~PendingAcquire(g))'
             /\ (lane = "quarantined" => device_lost)'
  <2>1. /\ ready' = [ready EXCEPT ![f] = "renderer"] /\ ready_semaphore' = None
        /\ ready_semaphore = f /\ lane' = "up" /\ UNCHANGED queue
    BY <1>4 DEF GaneshWaitAccepted
  <2>2. Owned'
    BY <1>0, <2>1, SyncAssumption DEF Owned, TypeOK
  <2>3. \A g \in Frames : ready'[g] = "destroyed" => ready[g] = "destroyed"
    BY <2>1 DEF TypeOK
  <2> QED BY <1>0, <2>1, <2>2, <2>3 DEF PendingAcquire
<1>5. CASE ResetForReuse
  <2>1. queue' = <<>> /\ lane' = "up"
    BY <1>5 DEF ResetForReuse, ReleaseIdle, ReleaseInv
  <2>2. Owned' /\ ready_semaphore' = None
    BY <1>0, <1>5, DestroyOwned DEF ResetForReuse, Owned
  <2> QED BY <2>1, <2>2, EmptyQueueNext DEF PendingAcquire
<1>6. CASE DropLane
  <2>1. CASE lane' = "destroyed"
    <3>1. (~acquire_submitted \/ ReleaseIdle) /\ DestroyReady /\ UNCHANGED queue
      BY <1>6, <2>1 DEF DropLane
    <3>2. queue' = <<>>
      BY <3>1 DEF ReleaseIdle, ReleaseInv, QueueInv
    <3> QED BY <1>0, <2>1, <3>1, <3>2, DestroyOwned, EmptyQueueNext DEF PendingAcquire
  <2>2. CASE lane' = "quarantined"
    <3>1. UNCHANGED <<ready, ready_semaphore, acquire_submitted, queue>> /\ device_lost'
      BY <1>6, <2>2 DEF DropLane
    <3> QED BY <1>0, <3>1 DEF Owned, PendingAcquire
  <2> QED BY <1>6, <2>1, <2>2 DEF DropLane
<1>7. ASSUME \/ \E f \in Frames : GaneshWaitRejected(f) \/ Render(f)
             \/ SubmitRelease \/ RetireSource \/ ReleaseComplete \/ PollLost \/ TakeTiming
             \/ Complete \/ LoseDevice \/ UNCHANGED vars
      PROVE  UNCHANGED <<ready, ready_semaphore, acquire_submitted>>
             /\ UNCHANGED lane /\ device_lost' \in {device_lost, TRUE}
  BY <1>7 DEF GaneshWaitRejected, Render, SubmitRelease, RetireSource, ReleaseComplete,
        PollLost, TakeTiming, Complete, LoseDevice, vars
<1>8. \A f \in Frames : ready[f] = "destroyed" => ~SubmitAcquire(f)
  BY DEF SubmitAcquire
<1>9. ASSUME UNCHANGED lane, device_lost' \in {device_lost, TRUE}
      PROVE  lane' = "quarantined" => device_lost'
  BY <1>0, <1>9
<1> QED BY <1>2, <1>3, <1>4, <1>5, <1>6, <1>7, <1>8, <1>9 DEF Next

-----------------------------------------------------------------------------
(* Whose memory it is.                                                       *)

\* Nothing changes that ownership and retirement depend on.
LEMMA FamilyKept ==
  ASSUME FamilyInv, UNCHANGED <<queue, import_id, release_submitted, release_fence,
                                family, retired>>
  PROVE  FamilyInv'
BY DEF FamilyInv, Returned, NoneOf

\* An acquire on the queue is of the lane's frame.
LEMMA AcquireIsCurrent ==
  /\ QueueInv => (NoneOf("acquire") <=> ~PendingAcquire(import_id))
  /\ QueueInv' => (NoneOf("acquire")' <=> ~PendingAcquire(import_id)')
BY DEF QueueInv, NoneOf, PendingAcquire

LEMMA FamilyStep ==
  TypeOK /\ QueueInv /\ ReleaseInv /\ FamilyInv /\ [Next]_vars => FamilyInv'
<1> SUFFICES ASSUME TypeOK, QueueInv, ReleaseInv, FamilyInv, [Next]_vars PROVE FamilyInv'
  OBVIOUS
<1>1. None \notin Frames /\ retired \subseteq Frames
  BY SyncAssumption DEF TypeOK
<1>2. ASSUME NEW f \in Frames, SubmitAcquire(f) PROVE FamilyInv'
  <2>1. /\ import_id = None /\ f \notin retired /\ ~release_submitted
        /\ UNCHANGED <<release_submitted, release_fence, family, retired>>
    BY <1>2, AcquireQueue DEF SubmitAcquire
  <2>2. import_id' \in {f, None}
    BY <1>2, <2>1 DEF SubmitAcquire, AcquireSubmitted
  <2>3. \A g \in Frames : g # None => family[g] = "external"
    BY <1>1, <2>1 DEF FamilyInv, Returned
  <2>4. import_id' \notin retired'
    BY <1>1, <2>1, <2>2
  <2>5. \A g \in retired' : Returned(g)'
    BY <2>4 DEF Returned
  <2>6. \A g \in Frames : Returned(g)' => family'[g] = "external"
    BY <1>1, <2>1, <2>3
  <2> QED BY <2>4, <2>5, <2>6 DEF FamilyInv
<1>3. CASE SubmitRelease \/ \E f \in Frames : Render(f)
  <2>1. /\ ~release_submitted /\ UNCHANGED <<import_id, family, retired>>
        /\ ~release_submitted' \/ release_fence' = FALSE
    BY <1>3 DEF SubmitRelease, MayRelease, Render
  <2>2. \A f : Returned(f)' <=> Returned(f)
    BY <2>1 DEF Returned
  <2>3. ASSUME import_id' \in retired' PROVE NoneOf("acquire")'
    <3>1. import_id \in Frames /\ import_id \in retired /\ ~PendingAcquire(import_id)
      BY <1>1, <2>1, <2>3, AcquireIsCurrent DEF FamilyInv
    <3>2. ~SubmitAcquire(import_id)
      BY <3>1 DEF SubmitAcquire
    <3>3. ~PendingAcquire(import_id)'
      BY <2>1, <3>1, <3>2, AcquiresPending DEF PendingAcquire
    <3> QED BY <3>3, QueueStep, AcquireIsCurrent
  <2> QED BY <2>1, <2>2, <2>3 DEF FamilyInv
<1>4. CASE RetireSource
  <2>1. /\ import_id \in Staged /\ acquire_submitted /\ acquire_fence
        /\ retired' = retired \cup {import_id}
        /\ UNCHANGED <<queue, import_id, release_submitted, release_fence, family>>
    BY <1>4 DEF RetireSource, SourceReleaseComplete
  <2>2. NoneOf("acquire") /\ Returned(import_id)
    BY <2>1 DEF QueueInv, Returned
  <2> QED BY <2>1, <2>2 DEF FamilyInv, Returned, NoneOf
<1>5. CASE ReleaseComplete
  <2>1. /\ release_submitted /\ release_fence /\ retired' \in {retired, retired \cup {import_id}}
        /\ UNCHANGED <<queue, import_id, release_submitted, release_fence, family>>
    BY <1>5 DEF ReleaseComplete, Report
  <2>2. queue = <<>> /\ Returned(import_id)
    BY <2>1 DEF ReleaseInv, Returned
  <2>3. NoneOf("acquire")
    BY <2>2, EmptyQueue DEF NoneOf
  <2> QED BY <2>1, <2>2, <2>3 DEF FamilyInv, Returned, NoneOf
<1>6. CASE ResetForReuse
  <2>1. /\ release_submitted /\ release_fence /\ import_id' = None
        /\ UNCHANGED <<queue, release_fence, family, retired>>
    BY <1>6 DEF ResetForReuse, ReleaseIdle
  <2>2. \A f \in Frames : family[f] = "external"
    BY <2>1 DEF FamilyInv, Returned
  <2>3. \A f \in Frames : Returned(f)'
    BY <1>1, <2>1 DEF Returned
  <2> QED BY <1>1, <2>1, <2>2, <2>3 DEF FamilyInv
<1>7. CASE Complete
  <2> DEFINE m == Head(queue)
  <2>1. /\ queue # <<>> /\ queue' = Tail(queue)
        /\ release_fence' = (release_fence \/ m.op = "release")
        /\ family' = [family EXCEPT ![m.frame] = FamilyAfter(m)]
        /\ UNCHANGED <<import_id, acquire_submitted, release_submitted, retired>>
    BY <1>7 DEF Complete
  <2>2. /\ m = queue[1] /\ 1 \in 1..Len(queue) /\ m \in Submissions
    BY <2>1, Completed
  <2>3. m.frame = import_id /\ import_id \in Frames
    BY <2>2 DEF QueueInv, Submissions
  <2>4. release_submitted => ~release_fence
    BY <2>1 DEF ReleaseInv
  <2> HIDE DEF m
  <2>5. ASSUME NEW f \in Frames, Returned(f)' PROVE family'[f] = "external"
    <3>1. CASE f # import_id
      <4>1. family[f] = "external"
        BY <3>1 DEF FamilyInv, Returned
      <4> QED BY <2>1, <2>3, <3>1, <4>1 DEF TypeOK
    <3>2. CASE f = import_id /\ f \in Staged
      <4>1. family[f] = "external" /\ FamilyAfter(m) = family[f]
        BY <2>3, <3>2 DEF FamilyInv, Returned, FamilyAfter
      <4> QED BY <2>1, <2>3, <3>2, <4>1 DEF TypeOK
    <3>3. CASE f = import_id /\ f \notin Staged
      <4>1. m.op = "release"
        BY <2>1, <2>4, <2>5, <3>3 DEF Returned
      <4>2. FamilyAfter(m) = "external"
        BY <2>3, <3>3, <4>1 DEF FamilyAfter, DirectFamily
      <4> QED BY <2>1, <2>3, <3>3, <4>2 DEF TypeOK
    <3> QED BY <3>1, <3>2, <3>3
  <2>6. \A f : Returned(f) => Returned(f)'
    BY <2>1 DEF Returned
  <2>7. ASSUME import_id' \in retired' PROVE NoneOf("acquire")'
    <3>1. import_id \in Frames /\ ~PendingAcquire(import_id)
      BY <1>1, <2>1, <2>7, AcquireIsCurrent DEF FamilyInv
    <3>2. import_id \in retired
      BY <2>1, <2>7
    <3>3. ~SubmitAcquire(import_id)
      BY <3>2 DEF SubmitAcquire
    <3>4. ~PendingAcquire(import_id)'
      BY <2>1, <3>1, <3>3, AcquiresPending DEF PendingAcquire
    <3> QED BY <3>4, QueueStep, AcquireIsCurrent
  <2> QED BY <2>1, <2>5, <2>6, <2>7 DEF FamilyInv
<1>8. ASSUME \/ \E f \in Frames : GaneshWaitAccepted(f) \/ GaneshWaitRejected(f)
             \/ PollLost \/ TakeTiming \/ DropLane \/ LoseDevice \/ UNCHANGED vars
      PROVE  UNCHANGED <<queue, import_id, release_submitted, release_fence, family, retired>>
  BY <1>8 DEF GaneshWaitAccepted, GaneshWaitRejected, PollLost, TakeTiming, DropLane,
        LoseDevice, vars
<1> QED BY <1>2, <1>3, <1>4, <1>5, <1>6, <1>7, <1>8, FamilyKept DEF Next

-----------------------------------------------------------------------------
(* The output's layout.                                                      *)

LEMMA LayoutStep == TypeOK /\ QueueInv /\ ReleaseInv /\ LayoutInv /\ [Next]_vars => LayoutInv'
<1> SUFFICES ASSUME TypeOK, QueueInv, ReleaseInv, LayoutInv, [Next]_vars PROVE LayoutInv'
  OBVIOUS
<1>1. CASE UNCHANGED <<queue, initialized, layout>>
  BY <1>1 DEF LayoutInv
<1>2. ASSUME NEW f \in Frames, SubmitAcquire(f) PROVE LayoutInv'
  <2>1. /\ queue = <<>> /\ UNCHANGED layout
        /\ \/ queue' = <<>>
           \/ /\ queue' # <<>> /\ 1 \in 1..Len(queue')
              /\ \A i \in 1..Len(queue') :
                   i = 1 /\ queue'[i] = [op |-> "acquire", frame |-> f,
                                         initialized |-> initialized]
    BY <1>2, AcquireQueue DEF SubmitAcquire
  <2>2. initialized => layout = "shader_read"
    BY <2>1 DEF LayoutInv
  <2>3. initialized' /\ ~initialized => f \in Staged /\ queue' # <<>>
    <3>1. CASE Submit("acquire", f)
      BY <1>2, <3>1, Submitted DEF SubmitAcquire, MarkAcquireSubmitted
    <3>2. CASE MarkAcquireSubmitted(f, FALSE)
      BY <3>2 DEF MarkAcquireSubmitted
    <3> QED BY <1>2, <3>1, <3>2 DEF SubmitAcquire
  <2>4. initialized' /\ layout' # "shader_read" =>
          queue' # <<>> /\ queue'[1].op = "acquire" /\ queue'[1].frame \in Staged
    BY <2>1, <2>2, <2>3
  <2>5. (\A i \in 1..Len(queue) :
           queue[i].op = "acquire" /\ queue[i].frame \in Staged /\ queue[i].initialized
             => layout = "shader_read")'
    BY <2>1, <2>2, EmptyQueueNext
  <2> QED BY <2>4, <2>5 DEF LayoutInv
<1>3. ASSUME NEW op \in {"render", "release"}, NEW f \in Frames, Submit(op, f),
             UNCHANGED output
      PROVE  LayoutInv'
  <2>1. /\ Len(queue) \in Nat /\ Len(queue') = Len(queue) + 1 /\ queue' # <<>>
        /\ \A i \in 1..Len(queue) : queue'[i] = queue[i]
        /\ queue'[Len(queue) + 1] = [op |-> op, frame |-> f, initialized |-> initialized]
    BY <1>3, Submitted
  <2>2. queue # <<>> => 1 \in 1..Len(queue)
    BY <2>1, EmptySeq DEF TypeOK
  <2>3. initialized' /\ layout' # "shader_read" =>
          queue' # <<>> /\ queue'[1].op = "acquire" /\ queue'[1].frame \in Staged
    BY <1>3, <2>1, <2>2 DEF LayoutInv
  <2>4. queue'[Len(queue) + 1].op # "acquire"
    BY <2>1
  <2>5. \A i \in 1..Len(queue') : i \in 1..Len(queue) \/ i = Len(queue) + 1
    BY <2>1
  <2>6. (\A i \in 1..Len(queue) :
           queue[i].op = "acquire" /\ queue[i].frame \in Staged /\ queue[i].initialized
             => layout = "shader_read")'
    BY <1>3, <2>1, <2>4, <2>5 DEF LayoutInv
  <2> QED BY <2>3, <2>6 DEF LayoutInv
<1>4. CASE SubmitRelease
  <2>1. import_id \in Frames /\ UNCHANGED output
    BY <1>4 DEF SubmitRelease, MayRelease, QueueInv, TypeOK
  <2> QED BY <1>1, <1>3, <1>4, <2>1 DEF SubmitRelease
<1>5. ASSUME NEW f \in Frames, Render(f) PROVE LayoutInv'
  BY <1>3, <1>5 DEF Render
<1>6. CASE Complete
  <2>1. /\ queue # <<>> /\ queue' = Tail(queue) /\ UNCHANGED initialized
        /\ layout' = LayoutAfter(Head(queue))
    BY <1>6 DEF Complete
  <2>2. /\ \A i \in 1..Len(queue') : i + 1 \in 1..Len(queue) /\ queue'[i] = queue[i + 1]
        /\ Head(queue) = queue[1]
    BY <2>1, Completed
  <2>3. layout = "shader_read" => layout' = "shader_read"
    BY <2>1 DEF LayoutAfter
  <2>4. initialized' => layout' = "shader_read"
    BY <2>1, <2>2 DEF LayoutInv, LayoutAfter
  <2>5. (\A i \in 1..Len(queue) :
           queue[i].op = "acquire" /\ queue[i].frame \in Staged /\ queue[i].initialized
             => layout = "shader_read")'
    BY <2>2, <2>3 DEF LayoutInv
  <2> QED BY <2>4, <2>5 DEF LayoutInv
<1>7. ASSUME \/ \E f \in Frames : GaneshWaitAccepted(f) \/ GaneshWaitRejected(f)
             \/ RetireSource \/ ReleaseComplete \/ PollLost \/ TakeTiming \/ ResetForReuse
             \/ DropLane \/ LoseDevice \/ UNCHANGED vars
      PROVE  UNCHANGED <<queue, initialized, layout>>
  BY <1>7 DEF GaneshWaitAccepted, GaneshWaitRejected, RetireSource, ReleaseComplete,
        PollLost, TakeTiming, ResetForReuse, DropLane, LoseDevice, vars
<1> QED BY <1>1, <1>2, <1>4, <1>5, <1>6, <1>7 DEF Next

-----------------------------------------------------------------------------
(* The theorems.                                                             *)

LEMMA InitInv == Init => IInv
<1> SUFFICES ASSUME Init PROVE IInv
  OBVIOUS
<1>1. queue = <<>>
  BY DEF Init
<1>2. TypeOK
  <2>1. queue \in Seq(Submissions)
    BY <1>1
  <2>2. /\ device_lost \in BOOLEAN /\ acquire_fence \in BOOLEAN /\ release_fence \in BOOLEAN
        /\ acquire_submitted \in BOOLEAN /\ release_submitted \in BOOLEAN
        /\ renderer_accepted \in BOOLEAN /\ renderer_rejected \in BOOLEAN
        /\ timing_active \in BOOLEAN /\ timing_collected \in BOOLEAN
        /\ initialized \in BOOLEAN
    BY DEF Init
  <2>3. /\ lane \in {"up", "destroyed", "quarantined"} /\ gpu \in {"up", "lost"}
        /\ ready_semaphore \in Frames \cup {None} /\ import_id \in Frames \cup {None}
        /\ timing \in Frames \cup {None} /\ layout \in {"undefined", "shader_read"}
        /\ retired \subseteq Frames
    BY DEF Init
  <2>4. /\ ready \in [Frames -> {"none", "lane", "returned", "renderer", "destroyed"}]
        /\ family \in [Frames -> {"external", "ours"}]
    BY DEF Init
  <2> QED BY <2>1, <2>2, <2>3, <2>4 DEF TypeOK
<1>3. QueueInv /\ ReleaseInv
  BY <1>1, EmptyQueue DEF Init, QueueInv, ReleaseInv, NoneOf
<1>4. ReadyInv /\ FamilyInv
  BY <1>1, EmptyQueue, SyncAssumption DEF Init, ReadyInv, FamilyInv, Returned, NoneOf
<1>5. LayoutInv
  BY <1>1, EmptyQueue DEF Init, LayoutInv
<1> QED BY <1>2, <1>3, <1>4, <1>5 DEF IInv

LEMMA InvStep == IInv /\ [Next]_vars => IInv'
BY TypeStep, QueueStep, ReleaseStep, ReadyStep, FamilyStep, LayoutStep DEF IInv

LEMMA SyncInvariant == Spec => []IInv
BY InitInv, InvStep, PTL DEF Spec

\* A lease retires only when the device has finished with the frame and its memory
\* is back, however many frames use the lane and whenever the device is lost
\* (source_release_complete, release_complete, submit_acquire).
THEOREM RetirementSafe == Spec => []RetireSafe
<1>1. IInv => RetireSafe
  <2> SUFFICES ASSUME IInv, NEW f \in retired
               PROVE  /\ family[f] = "external"
                      /\ \A i \in 1..Len(queue) :
                           queue[i].frame = f => f \in Staged /\ queue[i].op # "acquire"
    BY DEF RetireSafe
  <2>1. f \in Frames /\ Returned(f)
    BY DEF IInv, FamilyInv, TypeOK
  <2>2. family[f] = "external"
    BY <2>1 DEF IInv, FamilyInv
  <2>3. ASSUME NEW i \in 1..Len(queue), queue[i].frame = f
        PROVE  f \in Staged /\ queue[i].op # "acquire"
    <3>1. f = import_id /\ queue # <<>>
      BY <2>3, EmptyQueue DEF IInv, QueueInv
    <3>2. ~(release_submitted /\ release_fence)
      BY <3>1 DEF IInv, ReleaseInv
    <3>3. f \in Staged
      BY <2>1, <3>1, <3>2 DEF Returned
    <3>4. NoneOf("acquire")
      BY <3>1 DEF IInv, FamilyInv
    <3> QED BY <3>3, <3>4 DEF NoneOf
  <2> QED BY <2>2, <2>3
<1> QED BY <1>1, SyncInvariant, PTL

\* The lane resets, reuses and destroys only what no submission uses, and its ready
\* semaphore has one owner (reset_for_reuse, submit_release, ganesh_wait_accepted,
\* drop).
THEOREM LaneAlwaysIdle == Spec => []LaneIdle
<1>1. IInv => LaneIdle
  <2> SUFFICES ASSUME IInv PROVE LaneIdle
    OBVIOUS
  <2>1. lane = "destroyed" \/ ~acquire_submitted => queue = <<>>
    BY DEF IInv, QueueInv
  <2>2. ~release_submitted /\ ~device_lost => Pending("release") = {}
    BY DEF IInv, ReleaseInv, NoneOf, Pending
  <2>3. \A f \in Frames : ready[f] = "destroyed" =>
          \A i \in Pending("acquire") : queue[i].frame # f
    BY DEF IInv, ReadyInv, Pending
  <2>4. lane # "up" /\ queue # <<>> => lane = "quarantined" /\ device_lost
    BY <2>1 DEF IInv, ReadyInv, TypeOK
  <2>5. /\ \A f \in Frames : ready[f] \in {"lane", "returned"} <=> ready_semaphore = f
        /\ ~acquire_submitted => ready_semaphore = None
    BY DEF IInv, ReadyInv
  <2> QED BY <2>1, <2>2, <2>3, <2>4, <2>5 DEF LaneIdle
<1> QED BY <1>1, SyncInvariant, PTL

\* The layout that an acquire names is the one the output image is in when the
\* device runs it (mark_acquire_submitted, record_staged_acquire).
THEOREM LayoutAlwaysKnown == Spec => []LayoutKnown
<1>1. IInv => LayoutKnown
  <2> SUFFICES ASSUME IInv, queue # <<>>, Head(queue).op = "acquire",
                      Head(queue).frame \in Staged, Head(queue).initialized
               PROVE  layout = "shader_read"
    BY DEF LayoutKnown
  <2>1. queue \in Seq(Submissions)
    BY DEF IInv, TypeOK
  <2>2. Head(queue) = queue[1] /\ 1 \in 1..Len(queue)
    BY <2>1, EmptySeq
  <2> QED BY <2>2 DEF IInv, LayoutInv
<1> QED BY <1>1, SyncInvariant, PTL
=============================================================================
