------------------------- MODULE LeaseOwner_proofs --------------------------
(***************************************************************************)
(* Theorems about LeaseOwner for every set of references and every option: *)
(* type correctness and the invariants of admission and of the release     *)
(* queue.                                                                  *)
(***************************************************************************)
EXTENDS LeaseOwner, TLAPS, FiniteSetTheorems, SequenceTheorems

Status == EntryStatus \cup {"unissued", "retired"}

\* The part of the type invariant that a step of the release queue can change.
QueueTypeOK ==
  /\ status \in [Tokens -> Status]
  /\ release_attempts \in [Tokens -> Nat]
  /\ release_queue \in Seq(Jobs)
  /\ release_job \in Jobs \cup {NoJob}
  /\ executor_inbox \in Seq([token : Tokens, generation : Nat])

\* dispatch_next_release keeps the types of the queue and of the entries.
LEMMA DispatchTyped ==
  ASSUME NEW st \in [Tokens -> Status], NEW q \in Seq(Jobs),
         NEW j \in Jobs \cup {NoJob},
         NEW inbox \in Seq([token : Tokens, generation : Nat]),
         DispatchNextRelease(st, q, j, inbox)
  PROVE  /\ status' \in [Tokens -> Status]
         /\ release_queue' \in Seq(Jobs)
         /\ release_job' \in Jobs \cup {NoJob}
         /\ executor_inbox' \in Seq([token : Tokens, generation : Nat])
<1>1. CASE j = NoJob /\ q # <<>>
  <2>1. Head(q) \in Jobs /\ Tail(q) \in Seq(Jobs)
    BY <1>1
  <2>2. Head(q).token \in Tokens /\ Head(q).generation \in Nat
    BY <2>1 DEF Jobs
  <2>3. release_job' = Head(q) /\ release_queue' = Tail(q)
    BY <1>1 DEF DispatchNextRelease
  <2>4. status' = [st EXCEPT ![Head(q).token] = "releasing"]
    BY <1>1 DEF DispatchNextRelease
  <2>5. status' \in [Tokens -> Status]
    BY <2>2, <2>4 DEF Status, EntryStatus
  <2>6. executor_inbox' = Append(inbox, [token |-> Head(q).token,
                                         generation |-> Head(q).generation])
    BY <1>1 DEF DispatchNextRelease
  <2>7. executor_inbox' \in Seq([token : Tokens, generation : Nat])
    BY <2>2, <2>6
  <2> QED BY <2>1, <2>3, <2>5, <2>7
<1>2. CASE ~(j = NoJob /\ q # <<>>)
  BY <1>2 DEF DispatchNextRelease
<1> QED BY <1>1, <1>2

\* release_entry keeps the type invariant's conjuncts that it can disturb.
LEMMA ReleaseEntryTyped ==
  ASSUME TypeOK, NEW t \in Tokens, NEW w \in Requests \cup {None},
         NEW D \in SUBSET Tokens, ReleaseEntry(t, w, D)
  PROVE  /\ QueueTypeOK'
         /\ pending_issue' \subseteq Tokens
         /\ pending_issues' \subseteq Tokens
         /\ pending_retains' \in [Tokens -> SUBSET Children]
         /\ issue_monitors' \in [Tokens -> {"none", "reservation", "issue"}]
         /\ retain_monitors' \in [Children -> Tokens \cup {None}]
         /\ retry_timers' \in [Tokens -> Nat]
         /\ timers' \subseteq Tokens \X Nat
<1> DEFINE job == [token |-> t, generation |-> release_attempts[t] + 1, waiter |-> w]
           st  == [status EXCEPT ![t] = "release_queued"]
<1>1. job \in Jobs
  BY DEF TypeOK, Jobs
<1>2. Append(release_queue, job) \in Seq(Jobs)
  BY <1>1 DEF TypeOK
<1>3. st \in [Tokens -> Status]
  BY DEF TypeOK, Status, EntryStatus
<1>4. DispatchNextRelease(st, Append(release_queue, job), release_job, executor_inbox)
  BY DEF ReleaseEntry
<1> HIDE DEF job, st
<1>5. /\ status' \in [Tokens -> Status]
      /\ release_queue' \in Seq(Jobs)
      /\ release_job' \in Jobs \cup {NoJob}
      /\ executor_inbox' \in Seq([token : Tokens, generation : Nat])
  BY <1>2, <1>3, <1>4, DispatchTyped DEF TypeOK
<1>6. release_attempts' \in [Tokens -> Nat]
  BY DEF TypeOK, ReleaseEntry
<1>7. /\ pending_issue' \subseteq Tokens
      /\ pending_issues' \subseteq Tokens
      /\ pending_retains' \in [Tokens -> SUBSET Children]
      /\ issue_monitors' \in [Tokens -> {"none", "reservation", "issue"}]
      /\ retain_monitors' \in [Children -> Tokens \cup {None}]
  BY DEF TypeOK, ReleaseEntry, DemonitorIssues, DemonitorRetains
<1>8. /\ retry_timers' \in [Tokens -> Nat]
      /\ timers' \subseteq Tokens \X Nat
  BY DEF TypeOK, ReleaseEntry, CancelRetryTimer
<1> QED BY <1>5, <1>6, <1>7, <1>8 DEF QueueTypeOK

\* The tuples of unchanged variables of the actions.
USE DEF processVars, pendingVars, holderVars, jobVars, timerVars, drainVars,
        tombVars, executorVars

\* A reply keeps the type of the reply channels.
LEMMA ReplyTyped ==
  ASSUME replies \in [Requests -> Seq(Answers)], NEW S, NEW a \in Answers, Reply(S, a)
  PROVE  replies' \in [Requests -> Seq(Answers)]
<1>1. \A r \in Requests : Append(replies[r], a) \in Seq(Answers)
  BY AppendProperties
<1> QED BY <1>1 DEF Reply

\* complete_drain or nothing.
LEMMA StopTyped ==
  ASSUME TypeOK, StopOrContinue
  PROVE  /\ owner' \in {"up", "stopped", "corrupt", "killed"}
         /\ drain_waiters' \subseteq Callers
         /\ drain_monitors' \subseteq Callers
         /\ replies' \in [Requests -> Seq(Answers)]
<1>1. CASE CompleteDrain /\ Reply(drain_waiters, "drained")
  <2>1. "drained" \in Answers
    BY DEF Answers
  <2>2. replies' \in [Requests -> Seq(Answers)]
    BY <1>1, <2>1, ReplyTyped DEF TypeOK
  <2> QED BY <1>1, <2>2 DEF TypeOK, CompleteDrain
<1>2. CASE UNCHANGED <<owner, drainVars, replies>>
  BY <1>2 DEF TypeOK
<1> QED BY <1>1, <1>2 DEF StopOrContinue

\* remove_holder keeps every type it can disturb.
LEMMA RemoveHolderTyped ==
  ASSUME TypeOK, NEW t \in Tokens, NEW h \in Holders, RemoveHolder(t, h)
  PROVE  /\ QueueTypeOK'
         /\ owner' \in {"up", "stopped", "corrupt", "killed"}
         /\ producer' \in BOOLEAN
         /\ mode' \in {"open", "draining"}
         /\ issue_reservations' \subseteq Tokens
         /\ holders' \in [Tokens -> SUBSET Holders]
         /\ active_holders' \in Nat
         /\ pending_issue' \subseteq Tokens
         /\ pending_issues' \subseteq Tokens
         /\ pending_retains' \in [Tokens -> SUBSET Children]
         /\ issue_monitors' \in [Tokens -> {"none", "reservation", "issue"}]
         /\ retain_monitors' \in [Children -> Tokens \cup {None}]
         /\ retry_timers' \in [Tokens -> Nat]
         /\ timers' \subseteq Tokens \X Nat
         /\ drain_waiters' \subseteq Callers
         /\ drain_monitors' \subseteq Callers
         /\ replies' \in [Requests -> Seq(Answers)]
<1> DEFINE dropped == [holders EXCEPT ![t] = @ \ {h}]
           count   == IF active_holders > 0 THEN active_holders - 1 ELSE 0
           kept    == UNCHANGED <<processVars, issue_reservations, jobVars,
                                  timerVars, drainVars, replies>>
           forgotten == /\ DemonitorRetains({h} \cap pending_retains[t])
                        /\ UNCHANGED <<pending_issue, pending_issues,
                                       pending_retains, issue_monitors>>
<1>1. dropped \in [Tokens -> SUBSET Holders] /\ count \in Nat
  BY DEF TypeOK
<1>2. CASE /\ holders' = dropped /\ active_holders' = count
           /\ ReleaseEntry(t, None, {})
           /\ UNCHANGED <<producer, mode, issue_reservations>>
           /\ StopOrContinue
  <2>1. /\ QueueTypeOK'
        /\ pending_issue' \subseteq Tokens
        /\ pending_issues' \subseteq Tokens
        /\ pending_retains' \in [Tokens -> SUBSET Children]
        /\ issue_monitors' \in [Tokens -> {"none", "reservation", "issue"}]
        /\ retain_monitors' \in [Children -> Tokens \cup {None}]
        /\ retry_timers' \in [Tokens -> Nat]
        /\ timers' \subseteq Tokens \X Nat
    BY <1>2, ReleaseEntryTyped
  <2>2. /\ producer' \in BOOLEAN /\ mode' \in {"open", "draining"}
        /\ issue_reservations' \subseteq Tokens
    BY <1>2 DEF TypeOK
  <2> QED BY <1>1, <1>2, <2>1, <2>2, StopTyped
<1>3. ASSUME \/ holders' = dropped /\ active_holders' = count
             \/ UNCHANGED holderVars,
             ClearPendingRetain(t, h) \/ forgotten,
             kept
      PROVE  /\ QueueTypeOK'
             /\ owner' \in {"up", "stopped", "corrupt", "killed"}
             /\ producer' \in BOOLEAN
             /\ mode' \in {"open", "draining"}
             /\ issue_reservations' \subseteq Tokens
             /\ holders' \in [Tokens -> SUBSET Holders]
             /\ active_holders' \in Nat
             /\ pending_issue' \subseteq Tokens
             /\ pending_issues' \subseteq Tokens
             /\ pending_retains' \in [Tokens -> SUBSET Children]
             /\ issue_monitors' \in [Tokens -> {"none", "reservation", "issue"}]
             /\ retain_monitors' \in [Children -> Tokens \cup {None}]
             /\ retry_timers' \in [Tokens -> Nat]
             /\ timers' \subseteq Tokens \X Nat
             /\ drain_waiters' \subseteq Callers
             /\ drain_monitors' \subseteq Callers
             /\ replies' \in [Requests -> Seq(Answers)]
  <2>1. holders' \in [Tokens -> SUBSET Holders] /\ active_holders' \in Nat
    BY <1>1, <1>3 DEF TypeOK
  <2>2. /\ pending_issue' \subseteq Tokens
        /\ pending_issues' \subseteq Tokens
        /\ pending_retains' \in [Tokens -> SUBSET Children]
        /\ issue_monitors' \in [Tokens -> {"none", "reservation", "issue"}]
        /\ retain_monitors' \in [Children -> Tokens \cup {None}]
    <3>1. /\ DemonitorRetains({h} \cap pending_retains[t])
          /\ UNCHANGED <<pending_issue, pending_issues, issue_monitors>>
          /\ \/ pending_retains' = [pending_retains EXCEPT ![t] = @ \ {h}]
             \/ UNCHANGED pending_retains
      <4>1. CASE ClearPendingRetain(t, h)
        BY <4>1 DEF ClearPendingRetain
      <4>2. CASE forgotten
        BY <4>2
      <4> QED BY <1>3, <4>1, <4>2
    <3>2. pending_issue' \subseteq Tokens /\ pending_issues' \subseteq Tokens
      BY <3>1 DEF TypeOK
    <3>3. pending_retains' \in [Tokens -> SUBSET Children]
      <4>1. pending_retains \in [Tokens -> SUBSET Children]
        BY DEF TypeOK
      <4>2. pending_retains[t] \ {h} \subseteq Children
        BY <4>1
      <4> QED BY <3>1, <4>1, <4>2
    <3>4. issue_monitors' \in [Tokens -> {"none", "reservation", "issue"}]
      BY <3>1 DEF TypeOK
    <3>5. retain_monitors' \in [Children -> Tokens \cup {None}]
      <4>1. retain_monitors \in [Children -> Tokens \cup {None}]
        BY DEF TypeOK
      <4> QED BY <3>1, <4>1 DEF DemonitorRetains
    <3> QED BY <3>2, <3>3, <3>4, <3>5
  <2>3. /\ QueueTypeOK'
        /\ owner' \in {"up", "stopped", "corrupt", "killed"}
        /\ producer' \in BOOLEAN
        /\ mode' \in {"open", "draining"}
        /\ issue_reservations' \subseteq Tokens
        /\ retry_timers' \in [Tokens -> Nat]
        /\ timers' \subseteq Tokens \X Nat
        /\ drain_waiters' \subseteq Callers
        /\ drain_monitors' \subseteq Callers
        /\ replies' \in [Requests -> Seq(Answers)]
    BY <1>3 DEF TypeOK, QueueTypeOK, Status
  <2> QED BY <2>1, <2>2, <2>3
<1> QED
  <2>1. \/ /\ holders' = dropped /\ active_holders' = count
           /\ ReleaseEntry(t, None, {})
           /\ UNCHANGED <<producer, mode, issue_reservations>>
           /\ StopOrContinue
        \/ /\ \/ holders' = dropped /\ active_holders' = count
              \/ UNCHANGED holderVars
           /\ ClearPendingRetain(t, h) \/ forgotten
           /\ kept
    <3>1. CASE h \in holders[t]
      BY <3>1, Zenon DEF RemoveHolder
    <3>2. CASE h \notin holders[t]
      <4>1. forgotten /\ kept /\ UNCHANGED holderVars
        BY <3>2 DEF RemoveHolder, processVars, holderVars, jobVars, timerVars, drainVars
      <4> QED BY <4>1
    <3> QED BY <3>1, <3>2
  <2> HIDE DEF dropped, count, kept, forgotten
  <2> QED BY <1>2, <1>3, <2>1

\* put_release_tombstone keeps the types of the map and of its order.
LEMMA TombstoneTyped ==
  ASSUME TypeOK, NEW id \in HolderIds, NEW c \in {"abandoned", "explicit"},
         PutReleaseTombstone(id, c)
  PROVE  /\ release_tombstones' \in [HolderIds -> {"none", "abandoned", "explicit"}]
         /\ release_tombstone_order' \in Seq(HolderIds)
<1> DEFINE order == Append(release_tombstone_order, id)
<1>1. order \in Seq(HolderIds) /\ order # <<>>
  <2>1. release_tombstone_order \in Seq(HolderIds)
    BY DEF TypeOK
  <2> QED BY <2>1, AppendProperties
<1>2. Tail(order) \in Seq(HolderIds)
  BY <1>1
<1> HIDE DEF order
<1>3. \/ release_tombstones' = [release_tombstones EXCEPT ![id] = c]
      \/ release_tombstones' =
           [release_tombstones EXCEPT ![id] = c, ![Head(order)] = "none"]
  BY DEF PutReleaseTombstone, order
<1>4. release_tombstone_order' \in {release_tombstone_order, order, Tail(order)}
  BY DEF PutReleaseTombstone, order
<1>5. release_tombstones' \in [HolderIds -> {"none", "abandoned", "explicit"}]
  BY <1>3 DEF TypeOK
<1> QED BY <1>1, <1>2, <1>4, <1>5 DEF TypeOK

\* A job whose token is in Tokens is not NoJob's.
LEMMA JobTyped ==
  ASSUME TypeOK, release_job # NoJob
  PROVE  /\ release_job \in Jobs /\ release_job.token \in Tokens
         /\ release_job.generation \in Nat /\ release_job.waiter \in Requests \cup {None}
BY DEF TypeOK, Jobs

\* schedule_retry keeps the types of the timers.
LEMMA ScheduleTyped ==
  ASSUME TypeOK, NEW t \in Tokens, ScheduleRetry(t)
  PROVE  retry_timers' \in [Tokens -> Nat] /\ timers' \subseteq Tokens \X Nat
BY DEF TypeOK, ScheduleRetry

\* Either outcome of finish_release_job keeps the types it can disturb.
LEMMA FinishReleasedTyped ==
  ASSUME TypeOK, release_job # NoJob, FinishReleased(release_job),
         executor' \in {"up", "down", "exited"},
         executor_outbox' \in Seq(ExecutorMessages)
  PROVE  TypeOK'
<1> DEFINE st == [status EXCEPT ![release_job.token] = "retired"]
<1>1. st \in [Tokens -> Status]
  BY JobTyped DEF TypeOK, Status
<1>2. DispatchNextRelease(st, release_queue, NoJob, executor_inbox)
  BY DEF FinishReleased
<1> HIDE DEF st
<1>3. /\ status' \in [Tokens -> Status]
      /\ release_queue' \in Seq(Jobs)
      /\ release_job' \in Jobs \cup {NoJob}
      /\ executor_inbox' \in Seq([token : Tokens, generation : Nat])
  BY <1>1, <1>2, DispatchTyped DEF TypeOK
<1>4. replies' \in [Requests -> Seq(Answers)]
  <2>1. \A r \in Requests : \A a \in {"transferred", "ok", "drained"} :
          Append(replies[r], a) \in Seq(Answers)
    <3>1. \A r \in Requests : replies[r] \in Seq(Answers)
      BY DEF TypeOK
    <3>2. {"transferred", "ok", "drained"} \subseteq Answers
      BY DEF Answers
    <3> QED BY <3>1, <3>2, AppendProperties
  <2>2. \A r \in Requests : \/ replies'[r] = replies[r]
                             \/ \E a \in {"transferred", "ok", "drained"} :
                                  replies'[r] = Append(replies[r], a)
    BY DEF FinishReleased
  <2>3. replies' = [r \in Requests |-> replies'[r]]
    BY DEF FinishReleased
  <2>4. ASSUME NEW r \in Requests PROVE replies'[r] \in Seq(Answers)
    <3>1. replies[r] \in Seq(Answers)
      BY DEF TypeOK
    <3> QED BY <2>1, <2>2, <3>1
  <2> QED BY <2>3, <2>4
<1>5. /\ owner' \in {"up", "stopped", "corrupt", "killed"}
      /\ drain_waiters' \subseteq Callers
      /\ drain_monitors' \subseteq Callers
  BY DEF FinishReleased, CompleteDrain, TypeOK
<1>6. UNCHANGED <<producer, mode, issue_reservations, pendingVars, holderVars,
                  release_attempts, timerVars, fired, tombVars, released, seen>>
  BY DEF FinishReleased
<1> QED BY <1>3, <1>4, <1>5, <1>6 DEF TypeOK, Status

\* Accounting for a failed callback, with or without a retry timer, keeps the types.
LEMMA FinishFailedTyped ==
  ASSUME TypeOK, release_job # NoJob,
         NEW inbox \in Seq([token : Tokens, generation : Nat]),
         FinishFailed(release_job, inbox),
         executor' \in {"up", "down", "exited"},
         executor_outbox' \in Seq(ExecutorMessages)
  PROVE  TypeOK'
<1> DEFINE st == [status EXCEPT ![release_job.token] = "release_failed"]
<1>1. st \in [Tokens -> Status]
  BY JobTyped DEF TypeOK, Status, EntryStatus
<1>2. DispatchNextRelease(st, release_queue, NoJob, inbox)
  BY DEF FinishFailed
<1> HIDE DEF st
<1>3. /\ status' \in [Tokens -> Status]
      /\ release_queue' \in Seq(Jobs)
      /\ release_job' \in Jobs \cup {NoJob}
      /\ executor_inbox' \in Seq([token : Tokens, generation : Nat])
  BY <1>1, <1>2, DispatchTyped DEF TypeOK
<1>4. replies' \in [Requests -> Seq(Answers)]
  <2>1. \A r \in Requests : \A a \in {"transferred", "error", "release_failed"} :
          Append(replies[r], a) \in Seq(Answers)
    <3>1. \A r \in Requests : replies[r] \in Seq(Answers)
      BY DEF TypeOK
    <3>2. {"transferred", "error", "release_failed"} \subseteq Answers
      BY DEF Answers
    <3> QED BY <3>1, <3>2, AppendProperties
  <2>2. \A r \in Requests : \/ replies'[r] = replies[r]
                             \/ \E a \in {"transferred", "error", "release_failed"} :
                                  replies'[r] = Append(replies[r], a)
    BY DEF FinishFailed
  <2>3. replies' = [r \in Requests |-> replies'[r]]
    BY DEF FinishFailed
  <2>4. ASSUME NEW r \in Requests PROVE replies'[r] \in Seq(Answers)
    <3>1. replies[r] \in Seq(Answers)
      BY DEF TypeOK
    <3> QED BY <2>1, <2>2, <3>1
  <2> QED BY <2>3, <2>4
<1>5. /\ drain_waiters' \subseteq Callers
      /\ drain_monitors' \subseteq Callers
  BY DEF FinishFailed, TypeOK
<1>6. UNCHANGED <<processVars, issue_reservations, pendingVars, holderVars,
                  release_attempts, fired, tombVars, released, seen>>
  BY DEF FinishFailed
<1>7. retry_timers' \in [Tokens -> Nat] /\ timers' \subseteq Tokens \X Nat
  BY ScheduleTyped, JobTyped DEF FinishFailed
<1> QED BY <1>3, <1>4, <1>5, <1>6, <1>7 DEF TypeOK, Status

\* The types of a step that only moves handshakes and holders.
LEMMA HandshakeStepTyped ==
  ASSUME TypeOK, NEW t \in Tokens,
         \/ ReserveIssue(t) \/ CommitIssue(t) \/ RejectIssue(t) \/ CommitUnknown(t)
         \/ CancelIssueReservation(t) \/ ConfirmIssue(t) \/ CancelIssue(t)
         \/ IssueCallerDown(t)
  PROVE  TypeOK'
<1>1. CASE ReserveIssue(t)
  <2>1. replies' \in [Requests -> Seq(Answers)]
    BY <1>1, ReplyTyped DEF ReserveIssue, TypeOK, Answers
  <2>2. issue_reservations' \subseteq Tokens /\ seen' \subseteq Requests
    BY <1>1 DEF ReserveIssue, TypeOK, Requests
  <2>3. issue_monitors' \in [Tokens -> {"none", "reservation", "issue"}]
    BY <1>1 DEF ReserveIssue, TypeOK
  <2>4. UNCHANGED <<processVars, pending_issue, pending_issues, pending_retains,
                    retain_monitors, holderVars, jobVars, timerVars, fired,
                    drainVars, tombVars, executorVars>>
    BY <1>1 DEF ReserveIssue
  <2> QED BY <2>1, <2>2, <2>3, <2>4 DEF TypeOK
<1>2. CASE CommitIssue(t)
  <2>1. replies' \in [Requests -> Seq(Answers)]
    BY <1>2, ReplyTyped DEF CommitIssue, TypeOK, Answers
  <2>2. status' \in [Tokens -> Status]
    BY <1>2 DEF CommitIssue, TypeOK, Status, EntryStatus
  <2>3. /\ issue_reservations' \subseteq Tokens
        /\ pending_issue' \subseteq Tokens /\ pending_issues' \subseteq Tokens
        /\ issue_monitors' \in [Tokens -> {"none", "reservation", "issue"}]
        /\ active_holders' \in Nat
    BY <1>2 DEF CommitIssue, TypeOK
  <2>4. holders' \in [Tokens -> SUBSET Holders]
    BY <1>2 DEF CommitIssue, TypeOK, Holders
  <2>5. UNCHANGED <<processVars, pending_retains, retain_monitors, release_attempts,
                    release_queue, release_job, executor_inbox, timerVars, fired,
                    drainVars, tombVars, executorVars, seen>>
    BY <1>2 DEF CommitIssue
  <2> QED BY <2>1, <2>2, <2>3, <2>4, <2>5 DEF TypeOK, Status
<1>3. CASE RejectIssue(t)
  <2>1. ReleaseEntry(t, t, {t}) /\ t \in Requests \cup {None} /\ {t} \in SUBSET Tokens
    BY <1>3 DEF RejectIssue, Requests
  <2>2. /\ QueueTypeOK'
        /\ pending_issue' \subseteq Tokens
        /\ pending_issues' \subseteq Tokens
        /\ pending_retains' \in [Tokens -> SUBSET Children]
        /\ issue_monitors' \in [Tokens -> {"none", "reservation", "issue"}]
        /\ retain_monitors' \in [Children -> Tokens \cup {None}]
        /\ retry_timers' \in [Tokens -> Nat]
        /\ timers' \subseteq Tokens \X Nat
    BY <2>1, ReleaseEntryTyped
  <2> QED BY <1>3, <2>2 DEF RejectIssue, TypeOK, QueueTypeOK, Status
<1>4. CASE CommitUnknown(t)
  BY <1>4 DEF CommitUnknown, TypeOK
<1>5. ASSUME RemoveIssueReservation(t) PROVE TypeOK'
  <2>1. issue_monitors' \in [Tokens -> {"none", "reservation", "issue"}]
    BY <1>5 DEF RemoveIssueReservation, DemonitorIssues, TypeOK
  <2> QED BY <1>5, <2>1, StopTyped DEF RemoveIssueReservation, TypeOK
<1>6. CASE ConfirmIssue(t)
  BY <1>6 DEF ConfirmIssue, DemonitorIssues, TypeOK, vars
<1>7. ASSUME CancelPendingIssue(t), status[t] = "active" PROVE TypeOK'
  <2>1. ReleaseEntry(t, None, {}) /\ StopOrContinue
    BY <1>7 DEF CancelPendingIssue
  <2>2. /\ QueueTypeOK'
        /\ pending_issue' \subseteq Tokens
        /\ pending_issues' \subseteq Tokens
        /\ pending_retains' \in [Tokens -> SUBSET Children]
        /\ issue_monitors' \in [Tokens -> {"none", "reservation", "issue"}]
        /\ retain_monitors' \in [Children -> Tokens \cup {None}]
        /\ retry_timers' \in [Tokens -> Nat]
        /\ timers' \subseteq Tokens \X Nat
    BY <2>1, ReleaseEntryTyped
  <2>3. active_holders' \in Nat
    <3>1. holders[t] \in SUBSET Holders
      BY DEF TypeOK
    <3>2. Cardinality(holders[t]) \in Nat
      BY <3>1, RefsAssumption, FS_Subset, FS_Union, FS_CardinalityType DEF Holders
    <3> QED BY <1>7, <3>2 DEF CancelPendingIssue, TypeOK
  <2>4. holders' \in [Tokens -> SUBSET Holders]
    BY <1>7 DEF CancelPendingIssue, TypeOK
  <2>5. UNCHANGED <<producer, mode, issue_reservations, fired, tombVars,
                    executorVars, seen>>
    BY <1>7 DEF CancelPendingIssue
  <2> QED BY <2>1, <2>2, <2>3, <2>4, <2>5, StopTyped DEF TypeOK, QueueTypeOK, Status
<1>8. CASE CancelIssue(t)
  <2>1. CASE UNCHANGED vars
    BY <2>1 DEF TypeOK, vars
  <2> QED BY <1>7, <1>8, <2>1 DEF CancelIssue, IssuePending
<1>9. CASE IssueCallerDown(t)
  <2>1. CASE issue_monitors[t] = "reservation" /\ RemoveIssueReservation(t)
    BY <2>1, <1>5
  <2>2. CASE IssuePending(t) /\ CancelPendingIssue(t)
    BY <2>2, <1>7 DEF IssuePending
  <2>3. CASE /\ DemonitorIssues({t})
             /\ UNCHANGED <<processVars, issue_reservations, pending_issue,
                            pending_issues, pending_retains, retain_monitors,
                            holderVars, jobVars, timerVars, fired, drainVars,
                            tombVars, executorVars, replies, seen>>
    BY <2>3 DEF DemonitorIssues, TypeOK
  <2> QED BY <1>9, <2>1, <2>2, <2>3 DEF IssueCallerDown
<1> QED BY <1>1, <1>2, <1>3, <1>4, <1>5, <1>6, <1>8, <1>9 DEF CancelIssueReservation

\* The types of a step that moves one holder.
LEMMA HolderStepTyped ==
  ASSUME TypeOK, NEW t \in Tokens, NEW h \in Holders,
         \/ CancelRetain(t, h) \/ Release(t, h) \/ Abandoned(t, h)
         \/ /\ RemoveHolder(t, h)
            /\ UNCHANGED <<fired, tombVars, executorVars, seen>>
  PROVE  TypeOK'
<1> DEFINE idle == UNCHANGED <<processVars, issue_reservations, pendingVars,
                               holderVars, jobVars, timerVars, drainVars, replies>>
<1>1. ASSUME RemoveHolder(t, h), UNCHANGED <<fired, executorVars, seen>>,
             /\ release_tombstones' \in [HolderIds -> {"none", "abandoned", "explicit"}]
             /\ release_tombstone_order' \in Seq(HolderIds)
      PROVE  TypeOK'
  <2>1. UNCHANGED <<fired, executorVars, seen>>
    BY <1>1
  <2> QED BY <1>1, <2>1, RemoveHolderTyped DEF TypeOK, QueueTypeOK, Status
<1>2. ASSUME idle, UNCHANGED <<fired, executorVars, seen>>,
             /\ release_tombstones' \in [HolderIds -> {"none", "abandoned", "explicit"}]
             /\ release_tombstone_order' \in Seq(HolderIds)
      PROVE  TypeOK'
  BY <1>2 DEF TypeOK
<1>3. <<t, h>> \in HolderIds
  BY DEF HolderIds
<1>4. ASSUME UNCHANGED tombVars
      PROVE  /\ release_tombstones' \in [HolderIds -> {"none", "abandoned", "explicit"}]
             /\ release_tombstone_order' \in Seq(HolderIds)
  BY <1>4 DEF TypeOK
<1>5. CASE CancelRetain(t, h)
  BY <1>1, <1>2, <1>4, <1>5 DEF CancelRetain
<1>6. CASE Release(t, h)
  <2>1. CASE release_tombstones' = [release_tombstones EXCEPT ![<<t, h>>] = "explicit"]
             /\ idle /\ UNCHANGED release_tombstone_order
    <3>1. release_tombstones' \in [HolderIds -> {"none", "abandoned", "explicit"}]
      BY <2>1 DEF TypeOK
    <3>2. release_tombstone_order' \in Seq(HolderIds)
      BY <2>1 DEF TypeOK
    <3> QED BY <1>2, <1>6, <2>1, <3>1, <3>2 DEF Release
  <2>2. CASE PutReleaseTombstone(<<t, h>>, "explicit") /\ RemoveHolder(t, h)
    BY <1>1, <1>3, <1>6, <2>2, TombstoneTyped DEF Release
  <2>3. CASE idle /\ UNCHANGED tombVars
    BY <1>2, <1>4, <1>6, <2>3 DEF Release
  <2> QED BY <1>6, <2>1, <2>2, <2>3 DEF Release
<1>7. CASE Abandoned(t, h)
  <2>1. CASE PutReleaseTombstone(<<t, h>>, "abandoned") /\ RemoveHolder(t, h)
    BY <1>1, <1>3, <1>7, <2>1, TombstoneTyped DEF Abandoned
  <2>2. CASE idle /\ UNCHANGED tombVars
    BY <1>2, <1>4, <1>7, <2>2 DEF Abandoned
  <2> QED BY <1>7, <2>1, <2>2 DEF Abandoned
<1> QED BY <1>1, <1>4, <1>5, <1>6, <1>7

\* The types of every other step of the owner and of its runtime.
LEMMA RetainStepTyped ==
  ASSUME TypeOK, NEW h \in Children,
         \/ RefuseRetain(h) \/ RetainCallerDown(h)
         \/ \E t \in Tokens, p \in Holders : Retain(t, p, h)
         \/ \E t \in Tokens : ConfirmRetain(t, h)
  PROVE  TypeOK'
<1>0. h \in Holders /\ h \in Requests
  BY DEF Holders, Requests
<1>1. CASE RefuseRetain(h)
  <2>1. replies' \in [Requests -> Seq(Answers)]
    BY <1>1, ReplyTyped DEF RefuseRetain, TypeOK, Answers
  <2> QED BY <1>0, <1>1, <2>1 DEF RefuseRetain, TypeOK
<1>2. CASE RetainCallerDown(h)
  <2> DEFINE t == retain_monitors[h]
  <2>1. t \in Tokens
    BY <1>2 DEF RetainCallerDown, TypeOK
  <2>2. CASE RemoveHolder(t, h)
    BY <1>0, <1>2, <2>1, <2>2, HolderStepTyped DEF RetainCallerDown
  <2>3. CASE /\ DemonitorRetains({h})
             /\ UNCHANGED <<processVars, issue_reservations, pending_issue,
                            pending_issues, pending_retains, issue_monitors,
                            holderVars, jobVars, timerVars, drainVars, replies>>
    <3>1. retain_monitors' \in [Children -> Tokens \cup {None}]
      BY <2>3 DEF DemonitorRetains, TypeOK
    <3> QED BY <1>2, <2>3, <3>1 DEF RetainCallerDown, TypeOK
  <2> QED BY <1>2, <2>2, <2>3 DEF RetainCallerDown
<1>3. ASSUME NEW t \in Tokens, NEW p \in Holders, Retain(t, p, h) PROVE TypeOK'
  <2>1. replies' \in [Requests -> Seq(Answers)]
    BY <1>3, ReplyTyped DEF Retain, TypeOK, Answers
  <2>2. holders' \in [Tokens -> SUBSET Holders]
    BY <1>0, <1>3 DEF Retain, TypeOK
  <2>3. /\ pending_retains' \in [Tokens -> SUBSET Children]
        /\ retain_monitors' \in [Children -> Tokens \cup {None}]
        /\ active_holders' \in Nat
    BY <1>3 DEF Retain, TypeOK
  <2>4. seen' \subseteq Requests
    BY <1>0, <1>3 DEF Retain, TypeOK
  <2>5. UNCHANGED <<processVars, issue_reservations, pending_issue, pending_issues,
                    issue_monitors, jobVars, timerVars, fired, drainVars, tombVars,
                    executorVars>>
    BY <1>3 DEF Retain
  <2> QED BY <2>1, <2>2, <2>3, <2>4, <2>5 DEF TypeOK
<1>4. ASSUME NEW t \in Tokens, ConfirmRetain(t, h) PROVE TypeOK'
  <2>1. CASE UNCHANGED vars
    BY <2>1 DEF TypeOK, vars
  <2>2. CASE ClearPendingRetain(t, h) /\ ~UNCHANGED vars
    <3>1. /\ pending_retains' \in [Tokens -> SUBSET Children]
          /\ retain_monitors' \in [Children -> Tokens \cup {None}]
          /\ UNCHANGED <<pending_issue, pending_issues, issue_monitors>>
      BY <2>2 DEF ClearPendingRetain, DemonitorRetains, TypeOK
    <3> QED BY <1>4, <2>2, <3>1 DEF ConfirmRetain, TypeOK
  <2> QED BY <1>4, <2>1, <2>2 DEF ConfirmRetain
<1> QED BY <1>1, <1>2, <1>3, <1>4

\* Closing, draining, and the deaths of the producer, the owner and the executor
\* keep the types.
LEMMA DrainStepTyped ==
  ASSUME TypeOK,
         \/ Close \/ ProducerDown \/ OwnerKilled \/ ExecutorExit \/ ExecutorCrash
         \/ \E c \in Callers : Drain(c) \/ RemoveDrainWaiter(c)
  PROVE  TypeOK'
<1>1. ASSUME BeginDrain, producer' \in BOOLEAN PROVE TypeOK'
  BY <1>1, StopTyped DEF BeginDrain, TypeOK
<1>2. CASE Close
  BY <1>1, <1>2 DEF Close, TypeOK
<1>3. CASE ProducerDown
  BY <1>1, <1>3 DEF ProducerDown
<1>4. CASE OwnerKilled
  BY <1>4 DEF OwnerKilled, TypeOK
<1>5. CASE ExecutorExit
  BY <1>5 DEF ExecutorExit, TypeOK
<1>6. CASE ExecutorCrash
  <2> DEFINE m == [token |-> None, generation |-> 0, result |-> "down"]
  <2>1. m \in ExecutorMessages
    BY DEF ExecutorMessages
  <2>2. Append(executor_outbox, m) \in Seq(ExecutorMessages)
    BY <2>1, AppendProperties DEF TypeOK
  <2>3. released' \subseteq Tokens
    <3>1. executor_inbox # <<>> =>
            Head(executor_inbox) \in [token : Tokens, generation : Nat]
      BY HeadTailProperties DEF TypeOK
    <3> QED BY <1>6, <3>1 DEF ExecutorCrash, TypeOK
  <2>4. executor_outbox' = Append(executor_outbox, m) /\ executor' = "down"
    BY <1>6 DEF ExecutorCrash
  <2>5. UNCHANGED <<processVars, issue_reservations, pendingVars, holderVars,
                    jobVars, timerVars, fired, drainVars, tombVars, replies, seen>>
    BY <1>6 DEF ExecutorCrash
  <2> QED BY <2>2, <2>3, <2>4, <2>5 DEF TypeOK
<1>7. ASSUME NEW c \in Callers, Drain(c) PROVE TypeOK'
  <2>1. replies' \in [Requests -> Seq(Answers)]
    BY <1>7, ReplyTyped DEF Drain, TypeOK, Answers
  <2>2. /\ owner' \in {"up", "stopped", "corrupt", "killed"}
        /\ drain_waiters' \subseteq Callers
        /\ drain_monitors' \subseteq Callers
        /\ mode' \in {"open", "draining"}
        /\ seen' \subseteq Requests
    BY <1>7 DEF Drain, TypeOK, Requests
  <2>3. UNCHANGED <<producer, issue_reservations, pendingVars, holderVars, jobVars,
                    timerVars, fired, tombVars, executorVars>>
    BY <1>7 DEF Drain
  <2> QED BY <2>1, <2>2, <2>3 DEF TypeOK
<1>8. ASSUME NEW c \in Callers, RemoveDrainWaiter(c) PROVE TypeOK'
  BY <1>8 DEF RemoveDrainWaiter, TypeOK
<1> QED BY <1>2, <1>3, <1>4, <1>5, <1>6, <1>7, <1>8

\* Running a callback, its result, and its retry by timer or by hand keep the types.
LEMMA ReleaseStepTyped ==
  ASSUME TypeOK,
         \/ ReleaseResult \/ ExecutorDown
         \/ \E ok \in BOOLEAN : ExecuteRelease(ok)
         \/ \E m \in fired : RetryTimer(m[1], m[2])
         \/ \E m \in timers : TimerFires(m[1], m[2])
         \/ \E c \in Callers, t \in Tokens : Retry(c, t)
  PROVE  TypeOK'
<1>1. CASE ReleaseResult
  <2>1. /\ executor' \in {"up", "down", "exited"}
        /\ executor_outbox' \in Seq(ExecutorMessages)
    BY <1>1, HeadTailProperties DEF ReleaseResult, TypeOK
  <2>2. executor_inbox \in Seq([token : Tokens, generation : Nat])
    BY DEF TypeOK
  <2>3. CASE release_job # NoJob /\ FinishReleased(release_job)
    BY <2>1, <2>3, FinishReleasedTyped
  <2>4. CASE release_job # NoJob /\ FinishFailed(release_job, executor_inbox)
    BY <2>1, <2>2, <2>4, FinishFailedTyped
  <2>5. CASE UNCHANGED <<processVars, issue_reservations, pendingVars,
                         holderVars, jobVars, timerVars, fired, drainVars,
                         tombVars, released, replies, seen>>
    BY <2>1, <2>5 DEF TypeOK
  <2> QED BY <1>1, <2>3, <2>4, <2>5 DEF ReleaseResult, CurrentJob
<1>2. CASE ExecutorDown
  <2>1. /\ executor' \in {"up", "down", "exited"}
        /\ executor_outbox' \in Seq(ExecutorMessages)
    BY <1>2, HeadTailProperties DEF ExecutorDown, TypeOK
  <2>2. <<>> \in Seq([token : Tokens, generation : Nat])
    OBVIOUS
  <2>3. CASE release_job # NoJob /\ FinishFailed(release_job, <<>>)
    BY <2>1, <2>2, <2>3, FinishFailedTyped
  <2>4. CASE /\ DispatchNextRelease(status, release_queue, NoJob, <<>>)
             /\ UNCHANGED <<processVars, issue_reservations, pendingVars, holderVars,
                            release_attempts, timerVars, fired, drainVars, tombVars,
                            released, replies, seen>>
    <3>1. /\ status \in [Tokens -> Status] /\ release_queue \in Seq(Jobs)
          /\ NoJob \in Jobs \cup {NoJob}
      BY DEF TypeOK, Status
    <3>2. /\ status' \in [Tokens -> Status]
          /\ release_queue' \in Seq(Jobs)
          /\ release_job' \in Jobs \cup {NoJob}
          /\ executor_inbox' \in Seq([token : Tokens, generation : Nat])
      BY <2>2, <2>4, <3>1, DispatchTyped
    <3> QED BY <2>1, <2>4, <3>2 DEF TypeOK, Status
  <2> QED BY <1>2, <2>3, <2>4 DEF ExecutorDown
<1>3. ASSUME NEW ok \in BOOLEAN, ExecuteRelease(ok) PROVE TypeOK'
  <2> DEFINE m == Head(executor_inbox)
             r == [token |-> m.token, generation |-> m.generation,
                   result |-> IF ok THEN "ok" ELSE "error"]
  <2>1. m \in [token : Tokens, generation : Nat]
        /\ Tail(executor_inbox) \in Seq([token : Tokens, generation : Nat])
    BY <1>3, HeadTailProperties DEF ExecuteRelease, TypeOK
  <2>2. r \in ExecutorMessages
    BY <2>1 DEF ExecutorMessages
  <2>3. Append(executor_outbox, r) \in Seq(ExecutorMessages)
    BY <2>2, AppendProperties DEF TypeOK
  <2>4. released' \subseteq Tokens
    BY <1>3, <2>1 DEF ExecuteRelease, TypeOK
  <2>5. executor_outbox' = Append(executor_outbox, r)
        /\ executor_inbox' = Tail(executor_inbox)
    BY <1>3 DEF ExecuteRelease
  <2> QED BY <1>3, <2>1, <2>3, <2>4, <2>5 DEF ExecuteRelease, TypeOK
<1>4. ASSUME NEW t \in Tokens, NEW w \in Requests \cup {None}, ReleaseEntry(t, w, {}),
             UNCHANGED <<processVars, issue_reservations, holderVars, drainVars,
                         tombVars, executorVars>>,
             fired' \subseteq Tokens \X Nat,
             replies' \in [Requests -> Seq(Answers)], seen' \subseteq Requests
      PROVE  TypeOK'
  <2>1. /\ QueueTypeOK'
        /\ pending_issue' \subseteq Tokens
        /\ pending_issues' \subseteq Tokens
        /\ pending_retains' \in [Tokens -> SUBSET Children]
        /\ issue_monitors' \in [Tokens -> {"none", "reservation", "issue"}]
        /\ retain_monitors' \in [Children -> Tokens \cup {None}]
        /\ retry_timers' \in [Tokens -> Nat]
        /\ timers' \subseteq Tokens \X Nat
    BY <1>4, ReleaseEntryTyped
  <2> QED BY <1>4, <2>1 DEF TypeOK, QueueTypeOK, Status
<1>5. ASSUME NEW m \in fired, RetryTimer(m[1], m[2]) PROVE TypeOK'
  <2>1. m[1] \in Tokens /\ m[2] \in Nat
    BY DEF TypeOK
  <2>2. fired' \subseteq Tokens \X Nat /\ replies' \in [Requests -> Seq(Answers)]
        /\ seen' \subseteq Requests
    BY <1>5 DEF RetryTimer, TypeOK
  <2>3. CASE ReleaseEntry(m[1], None, {})
    BY <1>4, <1>5, <2>1, <2>2, <2>3 DEF RetryTimer
  <2>4. CASE /\ retry_timers' = [retry_timers EXCEPT ![m[1]] = IF @ = m[2] THEN 0 ELSE @]
             /\ UNCHANGED <<pendingVars, jobVars, timers>>
    <3>1. retry_timers' \in [Tokens -> Nat]
      BY <2>1, <2>4 DEF TypeOK
    <3> QED BY <1>5, <2>2, <2>4, <3>1 DEF RetryTimer, TypeOK
  <2> QED BY <1>5, <2>3, <2>4 DEF RetryTimer
<1>6. ASSUME NEW m \in timers, TimerFires(m[1], m[2]) PROVE TypeOK'
  BY <1>6 DEF TimerFires, TypeOK
<1>7. ASSUME NEW c \in Callers, NEW t \in Tokens, Retry(c, t) PROVE TypeOK'
  <2>1. c \in Requests /\ seen' \subseteq Requests /\ fired' \subseteq Tokens \X Nat
    BY <1>7 DEF Retry, TypeOK, Requests
  <2>2. CASE ReleaseEntry(t, c, {}) /\ UNCHANGED replies
    BY <1>4, <1>7, <2>1, <2>2 DEF Retry, TypeOK
  <2>3. CASE CancelRetryTimer(t) /\ Reply({c}, "error") /\ UNCHANGED <<pendingVars, jobVars>>
    <3>1. replies' \in [Requests -> Seq(Answers)]
      BY <2>3, ReplyTyped DEF TypeOK, Answers
    <3>2. retry_timers' \in [Tokens -> Nat] /\ timers' \subseteq Tokens \X Nat
      BY <2>3 DEF CancelRetryTimer, TypeOK
    <3> QED BY <1>7, <2>1, <2>3, <3>1, <3>2 DEF Retry, TypeOK
  <2> QED BY <1>7, <2>2, <2>3 DEF Retry
<1> QED BY <1>1, <1>2, <1>3, <1>5, <1>6, <1>7

\* TypeOK is inductive: every handler and every step of the runtime keeps it.
LEMMA TypeStep == TypeOK /\ [Next]_vars => TypeOK'
<1> SUFFICES ASSUME TypeOK, [Next]_vars PROVE TypeOK'
  OBVIOUS
<1>1. CASE UNCHANGED vars
  BY <1>1 DEF TypeOK, vars
<1>2. CASE OwnerStep
  <2>1. \A h \in Children : h \in Holders
    BY DEF Holders
  <2> QED BY <1>2, <2>1, HandshakeStepTyped, HolderStepTyped, RetainStepTyped,
             DrainStepTyped, ReleaseStepTyped DEF OwnerStep
<1>3. CASE RuntimeStep
  BY <1>3, DrainStepTyped, ReleaseStepTyped DEF RuntimeStep
<1> QED BY <1>1, <1>2, <1>3 DEF Next

\* Every variable of the lease owner keeps its type in every behaviour: every
\* callback of the GenServer and of its executor leaves a well-formed state.
THEOREM TypeCorrect == Spec => []TypeOK
<1>1. Init => TypeOK
  <2> SUFFICES ASSUME Init PROVE TypeOK
    OBVIOUS
  <2>1. <<>> \in Seq(Jobs) /\ <<>> \in Seq(HolderIds) /\ <<>> \in Seq(Answers)
        /\ <<>> \in Seq([token : Tokens, generation : Nat])
        /\ <<>> \in Seq(ExecutorMessages)
    OBVIOUS
  <2> QED BY <2>1 DEF Init, TypeOK
<1> QED BY <1>1, TypeStep, PTL DEF Spec

HIDE DEF processVars, pendingVars, holderVars, jobVars, timerVars, drainVars,
         tombVars, executorVars

-----------------------------------------------------------------------------
(* Admission and the release queue: the capacity bound holds, and callbacks  *)
(* are single-flight, whatever the clients send.                             *)

\* A reservation is for a token that has no entry yet, and a reference that
\* was reserved or issued is no longer fresh.
Admission ==
  \A t \in Tokens :
    /\ t \in issue_reservations => status[t] = "unissued"
    /\ t \in issue_reservations \/ status[t] # "unissued" => t \in seen

\* The capacity bound alone is not inductive: that a dispatched or failed job
\* adds no entry needs SingleFlight, and that a commit replaces its own
\* reservation needs Admission.
IInv == TypeOK /\ Admission /\ SingleFlight /\ CapacityBound

\* SingleFlight without its last conjunct, on explicit arguments, to speak of
\* the values a handler computes on the way.
Flight(st, q, j, att) ==
  /\ \A t \in Tokens : st[t] = "release_queued" <=>
                         \E i \in 1..Len(q) : q[i].token = t
  /\ \A i, k \in 1..Len(q) : q[i].token = q[k].token => i = k
  /\ \A i \in 1..Len(q) : q[i].generation = att[q[i].token]
  /\ \A t \in Tokens : st[t] = "releasing" <=> j # NoJob /\ j.token = t
  /\ j # NoJob => j.generation = att[j.token]

\* The real jobs are not NoJob.
LEMMA JobIsNotNoJob == \A j \in Jobs : j # NoJob /\ j.token \in Tokens
BY RefsAssumption DEF Jobs, NoJob, Requests

\* What a step of the queue does to the other entries: nothing, or it starts
\* their release.
Started(u) ==
  \/ status'[u] = status[u]
  \/ status[u] = "release_queued" /\ status'[u] = "releasing"

\* SingleFlight is Flight of the state, and that an idle executor has no backlog.
LEMMA FlightEquiv ==
  TypeOK =>
    (SingleFlight <=>
       /\ Flight(status, release_queue, release_job, release_attempts)
       /\ release_job = NoJob => release_queue = <<>>)
<1> SUFFICES ASSUME TypeOK
             PROVE  SingleFlight <=>
                      /\ Flight(status, release_queue, release_job, release_attempts)
                      /\ release_job = NoJob => release_queue = <<>>
  OBVIOUS
<1>1. \A i \in 1..Len(release_queue) : release_queue[i] \in Jobs
  BY DEF TypeOK
<1>2. release_job # NoJob => release_job \in Jobs
  BY DEF TypeOK
<1>3. NoJob.token = None /\ None \notin Tokens
  BY RefsAssumption DEF NoJob, Requests
<1>4. {t \in Tokens : status[t] = "releasing"} = {release_job.token} \ {None} <=>
        \A t \in Tokens : status[t] = "releasing" <=>
                            release_job # NoJob /\ release_job.token = t
  BY <1>2, <1>3, JobIsNotNoJob
<1>5. QueuedTokens = {t \in Tokens : status[t] = "release_queued"} <=>
        \A t \in Tokens : status[t] = "release_queued" <=>
          \E i \in 1..Len(release_queue) : release_queue[i].token = t
  BY <1>1, JobIsNotNoJob DEF QueuedTokens
<1> QED BY <1>4, <1>5 DEF SingleFlight, Flight

\* The same of the next state.
LEMMA FlightEquivNext ==
  (TypeOK =>
    (SingleFlight <=>
       /\ Flight(status, release_queue, release_job, release_attempts)
       /\ release_job = NoJob => release_queue = <<>>))'
BY FlightEquiv, PTL

\* dispatch_next_release moves the first job of the queue to the executor.
LEMMA DispatchFlight ==
  ASSUME NEW st \in [Tokens -> Status], NEW q \in Seq(Jobs),
         NEW j \in Jobs \cup {NoJob}, NEW att \in [Tokens -> Nat], NEW inbox,
         Flight(st, q, j, att), DispatchNextRelease(st, q, j, inbox)
  PROVE  /\ Flight(status', release_queue', release_job', att)
         /\ release_job' = NoJob => release_queue' = <<>>
         /\ \A t \in Tokens : status'[t] = st[t] \/
              (st[t] = "release_queued" /\ status'[t] = "releasing")
<1>1. CASE ~(j = NoJob /\ q # <<>>)
  BY <1>1 DEF DispatchNextRelease
<1>2. CASE j = NoJob /\ q # <<>>
  <2> DEFINE job == Head(q)
             q2  == Tail(q)
             st2 == [st EXCEPT ![job.token] = "releasing"]
  <2>1. /\ job \in Jobs /\ q2 \in Seq(Jobs) /\ job = q[1]
        /\ Len(q2) = Len(q) - 1 /\ Len(q) \in Nat /\ Len(q) >= 1
        /\ \A i \in 1..Len(q2) : q2[i] = q[i + 1]
    BY <1>2, HeadTailProperties, EmptySeq
  <2>2. release_job' = job /\ release_queue' = q2 /\ status' = st2
    BY <1>2 DEF DispatchNextRelease
  <2>3. job # NoJob /\ job.token \in Tokens
    BY <2>1, JobIsNotNoJob
  <2>4. st[job.token] = "release_queued"
    BY <2>1, <2>3 DEF Flight
  <2> HIDE DEF job, q2
  <2>5. \A t \in Tokens : st2[t] = IF t = job.token THEN "releasing" ELSE st[t]
    BY <2>3
  <2> HIDE DEF st2
  <2>6. \A t \in Tokens : st2[t] = "release_queued" <=>
          \E i \in 1..Len(q2) : q2[i].token = t
    <3> SUFFICES ASSUME NEW t \in Tokens
                 PROVE  st2[t] = "release_queued" <=>
                          \E i \in 1..Len(q2) : q2[i].token = t
      OBVIOUS
    <3>1. ASSUME st2[t] = "release_queued" PROVE \E i \in 1..Len(q2) : q2[i].token = t
      <4>1. t # job.token /\ st[t] = "release_queued"
        BY <3>1, <2>5
      <4>2. PICK i \in 1..Len(q) : q[i].token = t
        BY <4>1 DEF Flight
      <4>3. i # 1
        BY <4>1, <4>2, <2>1
      <4>4. i - 1 \in 1..Len(q2) /\ q2[i - 1] = q[i]
        BY <4>3, <2>1
      <4> QED BY <4>2, <4>4
    <3>2. ASSUME NEW i \in 1..Len(q2), q2[i].token = t PROVE st2[t] = "release_queued"
      <4>1. i + 1 \in 1..Len(q) /\ 1 \in 1..Len(q) /\ i + 1 # 1 /\ q[i + 1].token = t
        BY <3>2, <2>1
      <4>2. t # q[1].token
        BY <4>1 DEF Flight
      <4>3. st[t] = "release_queued"
        BY <4>1 DEF Flight
      <4> QED BY <4>2, <4>3, <2>1, <2>5
    <3> QED BY <3>1, <3>2
  <2>7. \A i, k \in 1..Len(q2) : q2[i].token = q2[k].token => i = k
    <3> SUFFICES ASSUME NEW i \in 1..Len(q2), NEW k \in 1..Len(q2),
                        q2[i].token = q2[k].token
                 PROVE  i = k
      OBVIOUS
    <3>1. i + 1 \in 1..Len(q) /\ k + 1 \in 1..Len(q)
      BY <2>1
    <3>2. q[i + 1].token = q[k + 1].token
      BY <2>1
    <3>3. i + 1 = k + 1
      BY <3>1, <3>2 DEF Flight
    <3> QED BY <3>3
  <2>8. \A i \in 1..Len(q2) : q2[i].generation = att[q2[i].token]
    <3> SUFFICES ASSUME NEW i \in 1..Len(q2)
                 PROVE  q2[i].generation = att[q2[i].token]
      OBVIOUS
    <3>1. i + 1 \in 1..Len(q) /\ q2[i] = q[i + 1]
      BY <2>1
    <3> QED BY <3>1 DEF Flight
  <2>9. \A t \in Tokens : st2[t] = "releasing" <=> job # NoJob /\ job.token = t
    BY <1>2, <2>3, <2>5 DEF Flight
  <2>10. job.generation = att[job.token]
    <3>1. 1 \in 1..Len(q)
      BY <2>1
    <3> QED BY <2>1, <3>1 DEF Flight
  <2>11. Flight(st2, q2, job, att)
    BY <2>6, <2>7, <2>8, <2>9, <2>10 DEF Flight
  <2> QED BY <2>2, <2>3, <2>4, <2>5, <2>11
<1> QED BY <1>1, <1>2

\* release_entry queues one job for an entry that has none, with the entry's
\* new generation; every other entry keeps its place.
LEMMA ReleaseEntryFlight ==
  ASSUME TypeOK, SingleFlight, NEW t \in Tokens, NEW w \in Requests \cup {None},
         NEW D, ReleaseEntry(t, w, D),
         status[t] \in {"unissued", "active", "release_failed"}
  PROVE  /\ Flight(status', release_queue', release_job', release_attempts')
         /\ release_job' = NoJob => release_queue' = <<>>
         /\ status'[t] \in {"release_queued", "releasing"}
         /\ status'[t] \in EntryStatus
         /\ \A u \in Tokens \ {t} : Started(u)
         /\ \A u \in Tokens \ {t} :
              /\ status'[u] \in EntryStatus <=> status[u] \in EntryStatus
              /\ status'[u] = "unissued" <=> status[u] = "unissued"
<1> DEFINE job == [token |-> t, generation |-> release_attempts[t] + 1, waiter |-> w]
           st  == [status EXCEPT ![t] = "release_queued"]
           q   == Append(release_queue, job)
           att == [release_attempts EXCEPT ![t] = @ + 1]
           n   == Len(release_queue)
<1>1. job \in Jobs
  BY DEF TypeOK, Jobs
<1>2. /\ release_queue \in Seq(Jobs) /\ n \in Nat
      /\ q \in Seq(Jobs) /\ Len(q) = n + 1 /\ q[n + 1] = job
      /\ \A i \in 1..n : q[i] = release_queue[i]
  BY <1>1, AppendProperties, LenProperties DEF TypeOK
<1>3. st \in [Tokens -> Status] /\ att \in [Tokens -> Nat]
      /\ release_job \in Jobs \cup {NoJob}
  BY DEF TypeOK, Status, EntryStatus
<1>4. DispatchNextRelease(st, q, release_job, executor_inbox) /\ release_attempts' = att
  BY DEF ReleaseEntry
<1>5. Flight(status, release_queue, release_job, release_attempts)
  BY FlightEquiv
<1>6. \A i \in 1..n : release_queue[i] \in Jobs /\ release_queue[i].token # t
  BY <1>2, <1>5 DEF Flight
<1>7. release_job # NoJob => release_job.token \in Tokens /\ release_job.token # t
  BY <1>5, JobIsNotNoJob DEF Flight, TypeOK
<1>8. /\ \A u \in Tokens : st[u] = IF u = t THEN "release_queued" ELSE status[u]
      /\ \A u \in Tokens : att[u] = IF u = t THEN release_attempts[t] + 1
                                            ELSE release_attempts[u]
  BY DEF TypeOK
<1>9. job.token = t /\ job.generation = release_attempts[t] + 1
  OBVIOUS
<1> HIDE DEF job, st, q, att, n
<1>10. Flight(st, q, release_job, att)
  <2>1. \A u \in Tokens : st[u] = "release_queued" <=>
          \E i \in 1..Len(q) : q[i].token = u
    <3> SUFFICES ASSUME NEW u \in Tokens
                 PROVE  st[u] = "release_queued" <=> \E i \in 1..Len(q) : q[i].token = u
      OBVIOUS
    <3>1. CASE u = t
      <4>1. n + 1 \in 1..Len(q)
        BY <1>2
      <4> QED BY <3>1, <4>1, <1>2, <1>8, <1>9
    <3>2. CASE u # t
      <4>1. st[u] = "release_queued" <=> \E i \in 1..n : release_queue[i].token = u
        BY <3>2, <1>5, <1>8 DEF Flight, n
      <4>2. (\E i \in 1..n : release_queue[i].token = u) <=>
              \E i \in 1..Len(q) : q[i].token = u
        BY <3>2, <1>2, <1>9
      <4> QED BY <4>1, <4>2
    <3> QED BY <3>1, <3>2
  <2>2. \A i, k \in 1..Len(q) : q[i].token = q[k].token => i = k
    <3>1. \A i, k \in 1..n :
            release_queue[i].token = release_queue[k].token => i = k
      BY <1>5 DEF Flight, n
    <3>2. \A i \in 1..Len(q) : i \in 1..n \/ i = n + 1
      BY <1>2
    <3> QED BY <1>2, <1>6, <1>9, <3>1, <3>2
  <2>3. \A i \in 1..Len(q) : q[i].generation = att[q[i].token]
    <3>1. \A i \in 1..n : release_queue[i].token \in Tokens
      BY <1>6, JobIsNotNoJob
    <3>2. \A i \in 1..n :
            release_queue[i].generation = release_attempts[release_queue[i].token]
      BY <1>5 DEF Flight, n
    <3>3. \A i \in 1..Len(q) : i \in 1..n \/ i = n + 1
      BY <1>2
    <3> QED BY <1>2, <1>6, <1>8, <1>9, <3>1, <3>2, <3>3
  <2>4. \A u \in Tokens : st[u] = "releasing" <=>
          release_job # NoJob /\ release_job.token = u
    BY <1>5, <1>7, <1>8 DEF Flight
  <2>5. release_job # NoJob => release_job.generation = att[release_job.token]
    BY <1>5, <1>7, <1>8 DEF Flight
  <2> QED BY <2>1, <2>2, <2>3, <2>4, <2>5 DEF Flight
<1>11. /\ Flight(status', release_queue', release_job', att)
       /\ release_job' = NoJob => release_queue' = <<>>
       /\ \A u \in Tokens : status'[u] = st[u] \/
            (st[u] = "release_queued" /\ status'[u] = "releasing")
  BY <1>2, <1>3, <1>4, <1>10, DispatchFlight
<1>12. status'[t] \in {"release_queued", "releasing"}
  BY <1>8, <1>11
<1>13. \A u \in Tokens \ {t} : Started(u)
  BY <1>8, <1>11 DEF Started
<1> QED BY <1>4, <1>11, <1>12, <1>13 DEF EntryStatus, Started

\* finish_release_job ends the job in flight and starts the next one.
LEMMA FinishFlight ==
  ASSUME TypeOK, SingleFlight, release_job # NoJob, NEW inbox,
         NEW end \in {"retired", "release_failed"},
         DispatchNextRelease([status EXCEPT ![release_job.token] = end],
                             release_queue, NoJob, inbox),
         UNCHANGED release_attempts
  PROVE  /\ Flight(status', release_queue', release_job', release_attempts')
         /\ release_job' = NoJob => release_queue' = <<>>
         /\ status[release_job.token] = "releasing"
         /\ status'[release_job.token] = end
         /\ \A u \in Tokens \ {release_job.token} : Started(u)
         /\ \A u \in Tokens \ {release_job.token} :
              /\ status'[u] \in EntryStatus <=> status[u] \in EntryStatus
              /\ status'[u] = "unissued" <=> status[u] = "unissued"
<1> DEFINE t == release_job.token
           st == [status EXCEPT ![t] = end]
<1>1. release_job \in Jobs /\ t \in Tokens
  BY JobTyped
<1>2. Flight(status, release_queue, release_job, release_attempts)
  BY FlightEquiv
<1>3. status[t] = "releasing"
  BY <1>1, <1>2 DEF Flight
<1>4. st \in [Tokens -> Status] /\ release_queue \in Seq(Jobs)
      /\ release_attempts \in [Tokens -> Nat]
  BY <1>1 DEF TypeOK, Status, EntryStatus
<1>5. \A u \in Tokens : st[u] = IF u = t THEN end ELSE status[u]
  BY <1>1 DEF TypeOK
<1>6. DispatchNextRelease(st, release_queue, NoJob, inbox)
  OBVIOUS
<1> HIDE DEF st, t
<1>7. Flight(st, release_queue, NoJob, release_attempts)
  <2>1. \A u \in Tokens : st[u] = "release_queued" <=>
          \E i \in 1..Len(release_queue) : release_queue[i].token = u
    BY <1>2, <1>3, <1>5 DEF Flight
  <2>2. \A u \in Tokens : st[u] # "releasing"
    BY <1>2, <1>5 DEF Flight, t
  <2> QED BY <1>2, <2>1, <2>2 DEF Flight
<1>8. /\ Flight(status', release_queue', release_job', release_attempts)
      /\ release_job' = NoJob => release_queue' = <<>>
      /\ \A u \in Tokens : status'[u] = st[u] \/
           (st[u] = "release_queued" /\ status'[u] = "releasing")
  BY <1>4, <1>6, <1>7, DispatchFlight
<1>9. status'[t] = end
  BY <1>1, <1>5, <1>8
<1>10. \A u \in Tokens \ {t} : Started(u)
  BY <1>5, <1>8 DEF Started
<1> QED BY <1>3, <1>8, <1>9, <1>10 DEF EntryStatus, Started, t

\* The bound survives a step that adds no entry and no reservation ...
LEMMA CapacityKept ==
  ASSUME TypeOK, CapacityBound, Leases' \subseteq Leases,
         issue_reservations' \subseteq issue_reservations
  PROVE  CapacityBound'
<1>1. IsFiniteSet(Leases) /\ IsFiniteSet(issue_reservations)
  BY RefsAssumption, FS_Subset DEF Leases, TypeOK
<1>2. /\ IsFiniteSet(Leases') /\ IsFiniteSet(issue_reservations')
      /\ Cardinality(Leases') <= Cardinality(Leases)
      /\ Cardinality(issue_reservations') <= Cardinality(issue_reservations)
  BY <1>1, FS_Subset
<1>3. /\ Cardinality(Leases) \in Nat /\ Cardinality(issue_reservations) \in Nat
      /\ Cardinality(Leases') \in Nat /\ Cardinality(issue_reservations') \in Nat
  BY <1>1, <1>2, FS_CardinalityType
<1> QED BY <1>2, <1>3, OptionsAssumption DEF CapacityBound

\* ... and one that turns a reservation into an entry.
LEMMA CapacityCommitted ==
  ASSUME TypeOK, CapacityBound, NEW t \in issue_reservations,
         Leases' \subseteq Leases \cup {t},
         issue_reservations' = issue_reservations \ {t}
  PROVE  CapacityBound'
<1>1. IsFiniteSet(Leases) /\ IsFiniteSet(issue_reservations)
  BY RefsAssumption, FS_Subset DEF Leases, TypeOK
<1>2. Cardinality(issue_reservations') = Cardinality(issue_reservations) - 1
  BY <1>1, FS_RemoveElement
<1>3. IsFiniteSet(Leases \cup {t})
      /\ Cardinality(Leases \cup {t}) <= Cardinality(Leases) + 1
  <2>1. /\ IsFiniteSet(Leases \cup {t})
        /\ Cardinality(Leases \cup {t}) =
             IF t \in Leases THEN Cardinality(Leases) ELSE Cardinality(Leases) + 1
    BY <1>1, FS_AddElement
  <2>2. Cardinality(Leases) \in Nat
    BY <1>1, FS_CardinalityType
  <2> QED BY <2>1, <2>2
<1>4. IsFiniteSet(Leases') /\ Cardinality(Leases') <= Cardinality(Leases \cup {t})
  BY <1>3, FS_Subset
<1>5. /\ Cardinality(Leases) \in Nat /\ Cardinality(issue_reservations) \in Nat
      /\ Cardinality(Leases') \in Nat /\ Cardinality(Leases \cup {t}) \in Nat
  BY <1>1, <1>3, <1>4, FS_CardinalityType
<1> QED BY <1>2, <1>3, <1>4, <1>5, OptionsAssumption DEF CapacityBound

\* A step that leaves entries, queue and job alone and adds no reservation.
LEMMA QuietStep ==
  ASSUME IInv, TypeOK', UNCHANGED <<status, release_attempts, release_queue, release_job>>,
         issue_reservations' \subseteq issue_reservations, seen \subseteq seen'
  PROVE  IInv'
<1>1. Admission' /\ SingleFlight'
  BY DEF IInv, Admission, SingleFlight, QueuedTokens
<1>2. CapacityBound'
  BY CapacityKept DEF IInv, Leases
<1> QED BY <1>1, <1>2 DEF IInv

\* A step that queues the release of an entry that has no job.
LEMMA ReleaseStep ==
  ASSUME IInv, TypeOK', NEW t \in Tokens, NEW w \in Requests \cup {None}, NEW D,
         ReleaseEntry(t, w, D), status[t] \in {"active", "release_failed"},
         UNCHANGED issue_reservations, seen \subseteq seen'
  PROVE  IInv'
<1>1. /\ Flight(status', release_queue', release_job', release_attempts')
      /\ release_job' = NoJob => release_queue' = <<>>
      /\ status'[t] \in EntryStatus
      /\ \A u \in Tokens \ {t} :
           /\ status'[u] \in EntryStatus <=> status[u] \in EntryStatus
           /\ status'[u] = "unissued" <=> status[u] = "unissued"
  BY ReleaseEntryFlight DEF IInv
<1>2. SingleFlight'
  BY <1>1, FlightEquivNext
<1>3. Admission'
  BY <1>1 DEF IInv, Admission, EntryStatus
<1>4. Leases' \subseteq Leases
  BY <1>1 DEF Leases, EntryStatus
<1>5. CapacityBound'
  BY <1>4, CapacityKept DEF IInv
<1> QED BY <1>2, <1>3, <1>5 DEF IInv

\* A step that ends the job in flight.
LEMMA FinishStep ==
  ASSUME IInv, TypeOK', release_job # NoJob, NEW inbox,
         NEW end \in {"retired", "release_failed"},
         DispatchNextRelease([status EXCEPT ![release_job.token] = end],
                             release_queue, NoJob, inbox),
         UNCHANGED <<release_attempts, issue_reservations, seen>>
  PROVE  IInv'
<1>1. /\ Flight(status', release_queue', release_job', release_attempts')
      /\ release_job' = NoJob => release_queue' = <<>>
      /\ status[release_job.token] = "releasing"
      /\ status'[release_job.token] = end
      /\ \A u \in Tokens \ {release_job.token} :
           /\ status'[u] \in EntryStatus <=> status[u] \in EntryStatus
           /\ status'[u] = "unissued" <=> status[u] = "unissued"
  BY FinishFlight DEF IInv
<1>2. release_job.token \in Tokens
  BY JobTyped DEF IInv
<1>3. SingleFlight'
  BY <1>1, FlightEquivNext
<1>4. Admission'
  BY <1>1, <1>2 DEF IInv, Admission
<1>5. Leases' \subseteq Leases
  BY <1>1, <1>2 DEF Leases, EntryStatus
<1>6. CapacityBound'
  BY <1>5, CapacityKept DEF IInv
<1> QED BY <1>3, <1>4, <1>6 DEF IInv

\* remove_holder, on an active entry.
LEMMA RemoveStep ==
  ASSUME IInv, TypeOK', NEW t \in Tokens, NEW h \in Holders, RemoveHolder(t, h),
         status[t] = "active", UNCHANGED seen
  PROVE  IInv'
<1>1. CASE ReleaseEntry(t, None, {}) /\ UNCHANGED issue_reservations
  BY <1>1, ReleaseStep
<1>2. CASE UNCHANGED <<jobVars, issue_reservations>>
  <2>1. UNCHANGED <<status, release_attempts, release_queue, release_job>>
    BY <1>2 DEF jobVars
  <2> QED BY <1>2, <2>1, QuietStep
<1> QED BY <1>1, <1>2 DEF RemoveHolder

\* The issue handshake: only a new reservation needs room, a commit and a
\* rejected commit use the place of their own reservation.
LEMMA HandshakeStepSafe ==
  ASSUME IInv, TypeOK', NEW t \in Tokens,
         \/ ReserveIssue(t) \/ CommitIssue(t) \/ RejectIssue(t) \/ CommitUnknown(t)
         \/ CancelIssueReservation(t) \/ ConfirmIssue(t) \/ CancelIssue(t)
         \/ IssueCallerDown(t)
  PROVE  IInv'
<1>0. TypeOK /\ None \in Requests \cup {None} /\ t \in Requests
  BY DEF IInv, Requests
<1>1. CASE ReserveIssue(t)
  <2>1. CASE UNCHANGED issue_reservations
    BY <1>1, <2>1, QuietStep DEF ReserveIssue, jobVars
  <2>2. CASE CapacityAvailable /\ issue_reservations' = issue_reservations \cup {t}
    <3>1. UNCHANGED <<status, release_attempts, release_queue, release_job>>
          /\ seen' = seen \cup {t} /\ t \notin seen
      BY <1>1 DEF ReserveIssue, jobVars
    <3>2. SingleFlight'
      BY <3>1 DEF IInv, SingleFlight, QueuedTokens
    <3>3. Admission'
      BY <2>2, <3>1 DEF IInv, Admission
    <3>4. Leases' = Leases /\ IsFiniteSet(Leases) /\ IsFiniteSet(issue_reservations)
      BY <1>0, <3>1, RefsAssumption, FS_Subset DEF Leases, TypeOK
    <3>5. t \notin issue_reservations
      BY <3>1 DEF IInv, Admission
    <3>6. Cardinality(issue_reservations') = Cardinality(issue_reservations) + 1
      BY <2>2, <3>4, <3>5, FS_AddElement
    <3>7. Cardinality(Leases) \in Nat /\ Cardinality(issue_reservations) \in Nat
      BY <3>4, FS_CardinalityType
    <3>8. CapacityBound'
      BY <2>2, <3>4, <3>6, <3>7, OptionsAssumption DEF CapacityAvailable, CapacityBound
    <3> QED BY <3>2, <3>3, <3>8 DEF IInv
  <2> QED BY <1>1, <2>1, <2>2 DEF ReserveIssue
<1>2. CASE CommitIssue(t)
  <2>1. /\ t \in issue_reservations /\ status[t] = "unissued" /\ t \in seen
        /\ issue_reservations' = issue_reservations \ {t}
        /\ status' = [status EXCEPT ![t] = "active"]
        /\ UNCHANGED <<release_attempts, release_queue, release_job, seen>>
    BY <1>2 DEF CommitIssue, IInv, Admission
  <2>2. \A u \in Tokens : status'[u] = IF u = t THEN "active" ELSE status[u]
    BY <1>0, <2>1 DEF TypeOK
  <2>3. Flight(status, release_queue, release_job, release_attempts)
        /\ (release_job = NoJob => release_queue = <<>>)
    BY <1>0, FlightEquiv DEF IInv
  <2>4. Flight(status', release_queue', release_job', release_attempts')
    BY <2>1, <2>2, <2>3 DEF Flight
  <2>5. SingleFlight'
    BY <2>1, <2>3, <2>4, FlightEquivNext
  <2>6. Admission'
    BY <2>1, <2>2 DEF IInv, Admission
  <2>7. Leases' \subseteq Leases \cup {t}
    BY <2>2 DEF Leases
  <2>8. CapacityBound'
    BY <1>0, <2>1, <2>7, CapacityCommitted DEF IInv
  <2> QED BY <2>5, <2>6, <2>8 DEF IInv
<1>3. CASE RejectIssue(t)
  <2>1. /\ t \in issue_reservations /\ status[t] = "unissued" /\ t \in seen
        /\ issue_reservations' = issue_reservations \ {t}
        /\ ReleaseEntry(t, t, {t}) /\ UNCHANGED seen
    BY <1>3 DEF RejectIssue, IInv, Admission
  <2>2. /\ Flight(status', release_queue', release_job', release_attempts')
        /\ release_job' = NoJob => release_queue' = <<>>
        /\ status'[t] \in EntryStatus
        /\ \A u \in Tokens \ {t} :
             /\ status'[u] \in EntryStatus <=> status[u] \in EntryStatus
             /\ status'[u] = "unissued" <=> status[u] = "unissued"
    BY <1>0, <2>1, ReleaseEntryFlight DEF IInv
  <2>3. SingleFlight'
    BY <2>2, FlightEquivNext
  <2>4. Admission'
    BY <2>1, <2>2 DEF IInv, Admission
  <2>5. Leases' \subseteq Leases \cup {t}
    BY <2>2 DEF Leases
  <2>6. CapacityBound'
    BY <1>0, <2>1, <2>5, CapacityCommitted DEF IInv
  <2> QED BY <2>3, <2>4, <2>6 DEF IInv
<1>4. CASE CommitUnknown(t)
  BY <1>4, QuietStep DEF CommitUnknown, jobVars
<1>5. ASSUME RemoveIssueReservation(t) PROVE IInv'
  BY <1>5, QuietStep DEF RemoveIssueReservation, jobVars
<1>6. ASSUME CancelPendingIssue(t), status[t] = "active" PROVE IInv'
  BY <1>0, <1>6, ReleaseStep DEF CancelPendingIssue
<1>7. CASE ConfirmIssue(t)
  BY <1>7, QuietStep DEF ConfirmIssue, jobVars, vars
<1>8. CASE CancelIssue(t)
  <2>1. CASE UNCHANGED vars
    BY <2>1, QuietStep DEF vars, jobVars
  <2> QED BY <1>6, <1>8, <2>1 DEF CancelIssue, IssuePending
<1>9. CASE CancelIssueReservation(t)
  BY <1>5, <1>9 DEF CancelIssueReservation
<1>10. CASE IssueCallerDown(t)
  <2>1. CASE UNCHANGED <<jobVars, issue_reservations, seen>>
    BY <2>1, QuietStep DEF jobVars
  <2> QED BY <1>5, <1>6, <1>10, <2>1 DEF IssueCallerDown, IssuePending
<1> QED BY <1>1, <1>2, <1>3, <1>4, <1>7, <1>8, <1>9, <1>10

\* Retains add a holder to an entry and no entry; holders leave through
\* remove_holder.
LEMMA HolderStepSafe ==
  ASSUME IInv, TypeOK', NEW h \in Holders,
         \/ h \in Children /\ (RefuseRetain(h) \/ RetainCallerDown(h))
         \/ h \in Children /\ \E t \in Tokens, p \in Holders : Retain(t, p, h)
         \/ \E t \in Tokens : \/ h \in Children /\ ConfirmRetain(t, h)
                              \/ CancelRetain(t, h) \/ Release(t, h) \/ Abandoned(t, h)
  PROVE  IInv'
<1> DEFINE quiet == UNCHANGED <<jobVars, issue_reservations>> /\ seen \subseteq seen'
<1>1. ASSUME quiet PROVE IInv'
  BY <1>1, QuietStep DEF jobVars
<1>2. ASSUME RefuseRetain(h) PROVE IInv'
  BY <1>1, <1>2 DEF RefuseRetain
<1>3. ASSUME NEW t \in Tokens, NEW p \in Holders, Retain(t, p, h) PROVE IInv'
  BY <1>1, <1>3 DEF Retain
<1>4. ASSUME NEW t \in Tokens, ConfirmRetain(t, h) PROVE IInv'
  BY <1>1, <1>4 DEF ConfirmRetain, vars
<1>5. ASSUME NEW t \in Tokens, CancelRetain(t, h) PROVE IInv'
  BY <1>1, <1>5, RemoveStep DEF CancelRetain
<1>6. ASSUME NEW t \in Tokens, Release(t, h) PROVE IInv'
  BY <1>1, <1>6, RemoveStep DEF Release, Holds
<1>7. ASSUME NEW t \in Tokens, Abandoned(t, h) PROVE IInv'
  BY <1>1, <1>7, RemoveStep DEF Abandoned, Holds
<1>8. ASSUME h \in Children, RetainCallerDown(h) PROVE IInv'
  <2>1. retain_monitors[h] \in Tokens
    BY <1>8 DEF RetainCallerDown, IInv, TypeOK
  <2> QED BY <1>1, <1>8, <2>1, RemoveStep DEF RetainCallerDown
<1> QED BY <1>2, <1>3, <1>4, <1>5, <1>6, <1>7, <1>8

\* Closing, draining and the processes around the owner move no entry.
LEMMA DrainStepSafe ==
  ASSUME IInv, TypeOK',
         \/ Close \/ ProducerDown \/ OwnerKilled \/ ExecutorExit \/ ExecutorCrash
         \/ \E c \in Callers : Drain(c) \/ RemoveDrainWaiter(c)
         \/ \E ok \in BOOLEAN : ExecuteRelease(ok)
         \/ \E m \in timers : TimerFires(m[1], m[2])
  PROVE  IInv'
<1>1. /\ UNCHANGED <<status, release_attempts, release_queue, release_job>>
      /\ UNCHANGED issue_reservations /\ seen \subseteq seen'
  BY DEF Close, ProducerDown, BeginDrain, OwnerKilled, ExecutorExit, ExecutorCrash,
         Drain, RemoveDrainWaiter, ExecuteRelease, TimerFires, jobVars
<1> QED BY <1>1, QuietStep

\* Results end the job in flight; retries queue a failed entry again.
LEMMA ReleaseStepSafe ==
  ASSUME IInv, TypeOK',
         \/ ReleaseResult \/ ExecutorDown
         \/ \E m \in fired : RetryTimer(m[1], m[2])
         \/ \E c \in Callers, t \in Tokens : Retry(c, t)
  PROVE  IInv'
<1>0. TypeOK /\ None \in Requests \cup {None}
  BY DEF IInv
<1>1. ASSUME FinishReleased(release_job), release_job # NoJob PROVE IInv'
  <2>1. DispatchNextRelease([status EXCEPT ![release_job.token] = "retired"],
                            release_queue, NoJob, executor_inbox)
        /\ UNCHANGED <<release_attempts, issue_reservations, seen>>
    BY <1>1 DEF FinishReleased
  <2> QED BY <1>1, <2>1, FinishStep
<1>2. ASSUME NEW inbox, FinishFailed(release_job, inbox), release_job # NoJob PROVE IInv'
  <2>1. DispatchNextRelease([status EXCEPT ![release_job.token] = "release_failed"],
                            release_queue, NoJob, inbox)
        /\ UNCHANGED <<release_attempts, issue_reservations, seen>>
    BY <1>2 DEF FinishFailed
  <2> QED BY <1>2, <2>1, FinishStep
<1>3. CASE ReleaseResult
  <2>1. CASE UNCHANGED <<jobVars, issue_reservations, seen>>
    BY <2>1, QuietStep DEF jobVars
  <2>2. CASE release_job # NoJob /\ FinishReleased(release_job)
    BY <1>1, <2>2
  <2>3. CASE release_job # NoJob /\ FinishFailed(release_job, executor_inbox)
    BY <1>2, <2>3
  <2> QED BY <1>3, <2>1, <2>2, <2>3 DEF ReleaseResult, CurrentJob
<1>4. CASE ExecutorDown
  <2>1. CASE release_job = NoJob
    <3>1. release_queue = <<>>
      BY <2>1 DEF IInv, SingleFlight
    <3>2. /\ DispatchNextRelease(status, release_queue, NoJob, <<>>)
          /\ UNCHANGED <<release_attempts, issue_reservations, seen>>
      BY <1>4, <2>1 DEF ExecutorDown
    <3>3. UNCHANGED <<status, release_attempts, release_queue, release_job>>
      BY <2>1, <3>1, <3>2 DEF DispatchNextRelease
    <3> QED BY <3>2, <3>3, QuietStep
  <2>2. CASE release_job # NoJob
    BY <1>2, <1>4, <2>2 DEF ExecutorDown
  <2> QED BY <2>1, <2>2
<1>5. ASSUME NEW m \in fired, RetryTimer(m[1], m[2]) PROVE IInv'
  <2>1. m[1] \in Tokens
    BY <1>0 DEF TypeOK
  <2>2. CASE status[m[1]] = "release_failed" /\ ReleaseEntry(m[1], None, {})
    <3>1. UNCHANGED <<issue_reservations, seen>>
      BY <1>5 DEF RetryTimer
    <3> QED BY <1>0, <2>1, <2>2, <3>1, ReleaseStep
  <2>3. CASE UNCHANGED jobVars
    <3>1. UNCHANGED <<issue_reservations, seen>>
      BY <1>5 DEF RetryTimer
    <3> QED BY <2>3, <3>1, QuietStep DEF jobVars
  <2> QED BY <1>5, <2>2, <2>3 DEF RetryTimer
<1>6. ASSUME NEW c \in Callers, NEW t \in Tokens, Retry(c, t) PROVE IInv'
  <2>1. UNCHANGED issue_reservations /\ seen \subseteq seen' /\ c \in Requests
    BY <1>6 DEF Retry, Requests
  <2>2. CASE status[t] = "release_failed" /\ ReleaseEntry(t, c, {})
    BY <2>1, <2>2, ReleaseStep
  <2>3. CASE UNCHANGED jobVars
    BY <2>1, <2>3, QuietStep DEF jobVars
  <2> QED BY <1>6, <2>2, <2>3 DEF Retry
<1> QED BY <1>3, <1>4, <1>5, <1>6

\* Every step of the owner preserves the inductive invariant.
LEMMA SafetyStep == IInv /\ [Next]_vars => IInv'
<1> SUFFICES ASSUME IInv, [Next]_vars PROVE IInv'
  OBVIOUS
<1>0. TypeOK'
  BY TypeStep DEF IInv
<1>1. CASE UNCHANGED vars
  BY <1>0, <1>1, QuietStep DEF vars, jobVars
<1>2. CASE OwnerStep
  <2>1. \A h \in Children : h \in Holders
    BY DEF Holders
  <2> QED BY <1>0, <1>2, <2>1, HandshakeStepSafe, HolderStepSafe, DrainStepSafe,
             ReleaseStepSafe DEF OwnerStep
<1>3. CASE RuntimeStep
  BY <1>0, <1>3, DrainStepSafe DEF RuntimeStep
<1> QED BY <1>1, <1>2, <1>3 DEF Next

\* The invariant holds initially ...
LEMMA SafetyStart == Init => IInv
<1> SUFFICES ASSUME Init PROVE IInv
  OBVIOUS
<1>1. <<>> \in Seq(Jobs) /\ <<>> \in Seq(HolderIds) /\ <<>> \in Seq(Answers)
      /\ <<>> \in Seq([token : Tokens, generation : Nat])
      /\ <<>> \in Seq(ExecutorMessages)
  OBVIOUS
<1>2. TypeOK
  BY <1>1 DEF Init, TypeOK
<1>3. Admission
  BY DEF Init, Admission
<1>4. Flight(status, release_queue, release_job, release_attempts)
  BY DEF Init, Flight
<1>5. SingleFlight
  BY <1>2, <1>4, FlightEquiv DEF Init
<1>6. Leases = {}
  BY DEF Init, Leases, EntryStatus
<1>7. CapacityBound
  BY <1>6, FS_EmptySet, OptionsAssumption DEF Init, CapacityBound
<1> QED BY <1>2, <1>3, <1>5, <1>7 DEF IInv

\* ... and in every reachable state.
LEMMA SafetyInvariant == Spec => []IInv
BY SafetyStart, SafetyStep, PTL DEF Spec

\* Entries and reservations never exceed max_active, for any number of issue
\* calls and whatever the clients, the executor and the timers do
\* (capacity_available?, commit_issue, reject_issue).
THEOREM CapacityNeverExceeded == Spec => []CapacityBound
<1>1. IInv => CapacityBound
  BY DEF IInv
<1> QED BY <1>1, SafetyInvariant, PTL

\* The release callbacks are single-flight and the queue describes exactly the
\* entries that wait for one, in every behaviour (release_entry,
\* dispatch_next_release, finish_release_job).
THEOREM ReleasesSingleFlight == Spec => []SingleFlight
<1>1. IInv => SingleFlight
  BY DEF IInv
<1> QED BY <1>1, SafetyInvariant, PTL

-----------------------------------------------------------------------------
(* A buffer is used by its holders, and goes back once when they are gone.   *)

\* Entries whose last holder is gone for good.
Past(t) == status[t] \notin {"unissued", "active"}

\* An entry has holders exactly while it is active.
Held == \A t \in Tokens : status[t] = "active" <=> holders[t] # {}

\* The executor gets only jobs of entries that are past their last holder, and
\* reports a success only after the buffer went back.
Freed ==
  /\ \A t \in released : Past(t)
  /\ \A t \in Tokens : status[t] = "retired" => t \in released
  /\ \A i \in 1..Len(executor_inbox) : Past(executor_inbox[i].token)
  /\ \A i \in 1..Len(executor_outbox) :
       executor_outbox[i].result = "ok" => executor_outbox[i].token \in released

UInv == IInv /\ Held /\ Freed

\* The property follows: an entry without holders cannot get one again.
LEMMA UInvImplies == UInv => NoUseAfterRelease
BY DEF UInv, IInv, TypeOK, Held, Freed, Past, NoUseAfterRelease

\* An owner without entries has no jobs, since jobs belong to entries.
LEMMA NoJobsWhenEmpty ==
  UInv /\ Leases = {} => release_job = NoJob /\ release_queue = <<>>
<1> SUFFICES ASSUME UInv, Leases = {} PROVE release_job = NoJob /\ release_queue = <<>>
  OBVIOUS
<1>1. TypeOK /\ SingleFlight
  BY DEF UInv, IInv
<1>2. ASSUME release_job # NoJob PROVE FALSE
  <2>1. release_job.token \in Tokens /\ release_job.token # None
    BY <1>1, <1>2, JobTyped, RefsAssumption DEF Requests
  <2>2. status[release_job.token] = "releasing"
    BY <1>1, <2>1 DEF SingleFlight
  <2> QED BY <2>1, <2>2 DEF Leases, EntryStatus
<1> QED BY <1>1, <1>2 DEF SingleFlight

\* So it is drained as soon as it has no entries and no reservations.
LEMMA DrainedWhenEmpty ==
  ASSUME UInv'
  PROVE  Drained' <=> Leases' = {} /\ issue_reservations' = {}
<1>1. (UInv /\ Leases = {} => release_job = NoJob /\ release_queue = <<>>)'
  BY NoJobsWhenEmpty, PTL
<1> QED BY <1>1 DEF Drained

-----------------------------------------------------------------------------
(* What the helpers do to statuses and to the executor's inbox.            *)

\* Messages to the executor are about tokens.
LEMMA InboxTokens ==
  ASSUME NEW s \in Seq([token : Tokens, generation : Nat]), NEW i \in 1..Len(s)
  PROVE  s[i].token \in Tokens /\ s[i].generation \in Nat
<1>1. s[i] \in [token : Tokens, generation : Nat]
  BY ElementOfSeq
<1> QED BY <1>1

\* dispatch_next_release sends the executor at most one more job, of the entry
\* that it marks as releasing.
LEMMA DispatchInbox ==
  ASSUME NEW st \in [Tokens -> Status], NEW q \in Seq(Jobs),
         NEW j \in Jobs \cup {NoJob},
         NEW inbox \in Seq([token : Tokens, generation : Nat]),
         \A i \in 1..Len(inbox) : st[inbox[i].token] \notin {"unissued", "active"},
         DispatchNextRelease(st, q, j, inbox)
  PROVE  \A i \in 1..Len(executor_inbox') : Past(executor_inbox[i].token)'
<1>1. CASE ~(j = NoJob /\ q # <<>>)
  BY <1>1 DEF DispatchNextRelease, Past
<1>2. CASE j = NoJob /\ q # <<>>
  <2> DEFINE job == Head(q)
             msg == [token |-> job.token, generation |-> job.generation]
  <2>1. job \in Jobs
    BY <1>2
  <2>2. job.token \in Tokens /\ msg \in [token : Tokens, generation : Nat]
        /\ msg.token = job.token
    BY <2>1 DEF Jobs
  <2>3. /\ executor_inbox' = Append(inbox, msg)
        /\ status' = [st EXCEPT ![job.token] = "releasing"]
    BY <1>2 DEF DispatchNextRelease
  <2> HIDE DEF msg, job
  <2>4. /\ Len(executor_inbox') = Len(inbox) + 1 /\ Len(inbox) \in Nat
        /\ \A i \in 1..Len(inbox) : executor_inbox'[i] = inbox[i]
        /\ executor_inbox'[Len(inbox) + 1] = msg
    BY <2>2, <2>3, AppendProperties, LenProperties
  <2>5. \A i \in 1..Len(inbox) : inbox[i].token \in Tokens
    BY InboxTokens
  <2>6. \A t \in Tokens : status'[t] = IF t = job.token THEN "releasing" ELSE st[t]
    BY <2>2, <2>3
  <2>7. ASSUME NEW i \in 1..Len(executor_inbox')
        PROVE  status'[executor_inbox'[i].token] \notin {"unissued", "active"}
    <3>1. CASE i \in 1..Len(inbox)
      BY <2>4, <2>5, <2>6, <3>1
    <3>2. CASE i = Len(inbox) + 1
      BY <2>2, <2>4, <2>6, <3>2
    <3> QED BY <2>4, <3>1, <3>2
  <2> QED BY <2>7 DEF Past
<1> QED BY <1>1, <1>2

\* A step that neither ends a callback nor touches an entry.
LEMMA QuietUse ==
  ASSUME UInv, UNCHANGED <<status, holders, released, executor_inbox, executor_outbox>>
  PROVE  Held' /\ Freed'
BY DEF UInv, Held, Freed, Past

\* release_entry leaves its entry past its last holder and starts at most one
\* other entry.
LEMMA ReleaseEntryUse ==
  ASSUME UInv, NEW t \in Tokens, NEW w \in Requests \cup {None}, NEW D,
         ReleaseEntry(t, w, D), status[t] \in {"unissued", "active", "release_failed"},
         holders'[t] = {}, \A u \in Tokens \ {t} : holders'[u] = holders[u],
         UNCHANGED <<released, executor_outbox>>
  PROVE  Held' /\ Freed'
<1> DEFINE job == [token |-> t, generation |-> release_attempts[t] + 1, waiter |-> w]
           st  == [status EXCEPT ![t] = "release_queued"]
<1>0. TypeOK /\ SingleFlight
  BY DEF UInv, IInv
<1>1. /\ status'[t] \in {"release_queued", "releasing"}
      /\ \A u \in Tokens \ {t} : Started(u)
  BY <1>0, ReleaseEntryFlight
<1>2. Held'
  BY <1>1 DEF UInv, Held, Started
<1>3. \A u \in Tokens : Past(u) => Past(u)'
  BY <1>1 DEF Past, Started
<1>4. released \subseteq Tokens
  BY <1>0 DEF TypeOK
<1>5. /\ \A u \in released' : Past(u)'
      /\ \A u \in Tokens : status'[u] = "retired" => u \in released'
  BY <1>1, <1>3, <1>4 DEF UInv, Freed, Started
<1>6. \A i \in 1..Len(executor_inbox') : Past(executor_inbox[i].token)'
  <2>1. job \in Jobs
    BY <1>0 DEF TypeOK, Jobs
  <2>2. /\ Append(release_queue, job) \in Seq(Jobs) /\ st \in [Tokens -> Status]
        /\ release_job \in Jobs \cup {NoJob}
        /\ executor_inbox \in Seq([token : Tokens, generation : Nat])
    BY <1>0, <2>1 DEF TypeOK, Status, EntryStatus
  <2>3. DispatchNextRelease(st, Append(release_queue, job), release_job, executor_inbox)
    BY DEF ReleaseEntry
  <2>4. \A u \in Tokens : st[u] = IF u = t THEN "release_queued" ELSE status[u]
    BY <1>0 DEF TypeOK
  <2> HIDE DEF st, job
  <2>5. \A i \in 1..Len(executor_inbox) :
          st[executor_inbox[i].token] \notin {"unissued", "active"}
    <3>1. \A i \in 1..Len(executor_inbox) : executor_inbox[i].token \in Tokens
      BY <2>2, InboxTokens
    <3> QED BY <2>4, <3>1 DEF UInv, Freed, Past
  <2> QED BY <2>2, <2>3, <2>5, DispatchInbox
<1>7. \A i \in 1..Len(executor_outbox') :
        executor_outbox'[i].result = "ok" => executor_outbox'[i].token \in released'
  BY DEF UInv, Freed
<1> QED BY <1>2, <1>5, <1>6, <1>7 DEF Freed

\* remove_holder, of an active entry.
LEMMA RemoveHolderUse ==
  ASSUME UInv, NEW t \in Tokens, NEW h \in Holders, RemoveHolder(t, h),
         status[t] = "active", UNCHANGED <<released, executor_outbox>>
  PROVE  Held' /\ Freed'
<1>0. holders \in [Tokens -> SUBSET Holders] /\ None \in Requests \cup {None}
  BY DEF UInv, IInv, TypeOK
<1>1. CASE holders[t] = {h} /\ ReleaseEntry(t, None, {})
           /\ holders' = [holders EXCEPT ![t] = @ \ {h}]
  <2>1. holders'[t] = {} /\ \A u \in Tokens \ {t} : holders'[u] = holders[u]
    BY <1>0, <1>1
  <2> QED BY <1>0, <1>1, <2>1, ReleaseEntryUse
<1>2. CASE /\ h \in holders[t] /\ holders[t] # {h}
           /\ holders' = [holders EXCEPT ![t] = @ \ {h}] /\ UNCHANGED jobVars
  <2>1. /\ holders'[t] # {} /\ holders[t] # {}
        /\ \A u \in Tokens \ {t} : holders'[u] = holders[u]
    BY <1>0, <1>2
  <2>2. UNCHANGED <<status, executor_inbox>>
    BY <1>2 DEF jobVars
  <2>3. Held'
    BY <2>1, <2>2 DEF UInv, Held
  <2> QED BY <2>2, <2>3 DEF UInv, Freed, Past
<1>3. CASE UNCHANGED <<jobVars, holderVars>>
  BY <1>3, QuietUse DEF jobVars, holderVars
<1> QED BY <1>1, <1>2, <1>3 DEF RemoveHolder

-----------------------------------------------------------------------------
(* Steps.                                                                  *)

\* The issue handshake.
LEMMA HandshakeUse ==
  ASSUME UInv, NEW t \in Tokens,
         \/ ReserveIssue(t) \/ CommitIssue(t) \/ RejectIssue(t) \/ CommitUnknown(t)
         \/ CancelIssueReservation(t) \/ ConfirmIssue(t) \/ CancelIssue(t)
         \/ IssueCallerDown(t)
  PROVE  Held' /\ Freed'
<1>0. TypeOK /\ Admission /\ t \in Requests \cup {None} /\ None \in Requests \cup {None}
  BY DEF UInv, IInv, Requests
<1>1. CASE ReserveIssue(t)
  BY <1>1, QuietUse DEF ReserveIssue, jobVars, holderVars, executorVars
<1>2. CASE CommitIssue(t)
  <2>1. /\ status[t] = "unissued" /\ t \notin released
        /\ status' = [status EXCEPT ![t] = "active"]
        /\ holders' = [holders EXCEPT ![t] = {t}]
        /\ UNCHANGED <<released, executor_inbox, executor_outbox>>
    BY <1>0, <1>2 DEF CommitIssue, Admission, executorVars, UInv, Freed, Past
  <2>2. /\ \A u \in Tokens : status'[u] = IF u = t THEN "active" ELSE status[u]
        /\ \A u \in Tokens : holders'[u] = IF u = t THEN {t} ELSE holders[u]
    BY <1>0, <2>1 DEF TypeOK
  <2>3. Held'
    BY <2>2 DEF UInv, Held
  <2>4. \A u \in Tokens : Past(u) => Past(u)'
    BY <2>1, <2>2 DEF Past
  <2>5. released \subseteq Tokens
        /\ \A i \in 1..Len(executor_inbox) : executor_inbox[i].token \in Tokens
    BY <1>0, InboxTokens DEF TypeOK
  <2> QED BY <2>1, <2>2, <2>3, <2>4, <2>5 DEF UInv, Freed
<1>3. CASE RejectIssue(t)
  <2>1. /\ status[t] = "unissued" /\ ReleaseEntry(t, t, {t})
        /\ UNCHANGED <<holders, released, executor_outbox>>
    BY <1>0, <1>3 DEF RejectIssue, Admission, executorVars, holderVars
  <2>2. holders[t] = {}
    BY <2>1 DEF UInv, Held
  <2> QED BY <1>0, <2>1, <2>2, ReleaseEntryUse
<1>4. CASE CommitUnknown(t)
  BY <1>4, QuietUse DEF CommitUnknown, jobVars, holderVars, executorVars
<1>5. ASSUME RemoveIssueReservation(t) PROVE Held' /\ Freed'
  BY <1>5, QuietUse DEF RemoveIssueReservation, jobVars, holderVars, executorVars
<1>6. ASSUME CancelPendingIssue(t), status[t] = "active" PROVE Held' /\ Freed'
  <2>1. /\ holders' = [holders EXCEPT ![t] = {}] /\ ReleaseEntry(t, None, {})
        /\ UNCHANGED <<released, executor_outbox>>
    BY <1>6 DEF CancelPendingIssue, executorVars
  <2>2. holders'[t] = {} /\ \A u \in Tokens \ {t} : holders'[u] = holders[u]
    BY <1>0, <2>1 DEF TypeOK
  <2> QED BY <1>0, <1>6, <2>1, <2>2, ReleaseEntryUse
<1>7. CASE ConfirmIssue(t)
  BY <1>7, QuietUse DEF ConfirmIssue, jobVars, holderVars, executorVars, vars
<1>8. CASE CancelIssue(t)
  <2>1. CASE UNCHANGED vars
    BY <2>1, QuietUse DEF vars, jobVars, holderVars, executorVars
  <2> QED BY <1>6, <1>8, <2>1 DEF CancelIssue, IssuePending
<1>9. CASE CancelIssueReservation(t)
  BY <1>5, <1>9 DEF CancelIssueReservation
<1>10. CASE IssueCallerDown(t)
  <2>1. CASE UNCHANGED <<jobVars, holderVars, executorVars>>
    BY <2>1, QuietUse DEF jobVars, holderVars, executorVars
  <2> QED BY <1>5, <1>6, <1>10, <2>1 DEF IssueCallerDown, IssuePending
<1> QED BY <1>1, <1>2, <1>3, <1>4, <1>7, <1>8, <1>9, <1>10

\* Retains add holders to active entries only; others leave.
LEMMA HolderUse ==
  ASSUME UInv, NEW h \in Holders,
         \/ h \in Children /\ (RefuseRetain(h) \/ RetainCallerDown(h))
         \/ h \in Children /\ \E t \in Tokens, p \in Holders : Retain(t, p, h)
         \/ \E t \in Tokens : \/ h \in Children /\ ConfirmRetain(t, h)
                              \/ CancelRetain(t, h) \/ Release(t, h) \/ Abandoned(t, h)
  PROVE  Held' /\ Freed'
<1> DEFINE quiet == UNCHANGED <<jobVars, holderVars, executorVars>>
<1>0. TypeOK
  BY DEF UInv, IInv
<1>1. ASSUME quiet PROVE Held' /\ Freed'
  BY <1>1, QuietUse DEF jobVars, holderVars, executorVars
<1>2. ASSUME NEW t \in Tokens, status[t] = "active", RemoveHolder(t, h),
             UNCHANGED executorVars
      PROVE  Held' /\ Freed'
  <2>1. UNCHANGED <<released, executor_outbox>>
    BY <1>2 DEF executorVars
  <2> QED BY <1>2, <2>1, RemoveHolderUse
<1>3. ASSUME RefuseRetain(h) PROVE Held' /\ Freed'
  BY <1>1, <1>3 DEF RefuseRetain
<1>4. ASSUME NEW t \in Tokens, NEW p \in Holders, Retain(t, p, h) PROVE Held' /\ Freed'
  <2>1. /\ status[t] = "active" /\ holders' = [holders EXCEPT ![t] = @ \cup {h}]
        /\ UNCHANGED <<status, executor_inbox, released, executor_outbox>>
    BY <1>4 DEF Retain, RetainAllowed, jobVars, executorVars
  <2>2. \A u \in Tokens : holders'[u] = IF u = t THEN holders[t] \cup {h} ELSE holders[u]
    BY <1>0, <2>1 DEF TypeOK
  <2>3. Held'
    BY <2>1, <2>2 DEF UInv, Held
  <2> QED BY <2>1, <2>3 DEF UInv, Freed, Past
<1>5. ASSUME NEW t \in Tokens, ConfirmRetain(t, h) PROVE Held' /\ Freed'
  BY <1>1, <1>5 DEF ConfirmRetain, vars
<1>6. ASSUME NEW t \in Tokens, CancelRetain(t, h) PROVE Held' /\ Freed'
  BY <1>1, <1>2, <1>6 DEF CancelRetain
<1>7. ASSUME NEW t \in Tokens, Release(t, h) PROVE Held' /\ Freed'
  BY <1>1, <1>2, <1>7 DEF Release, Holds
<1>8. ASSUME NEW t \in Tokens, Abandoned(t, h) PROVE Held' /\ Freed'
  BY <1>1, <1>2, <1>8 DEF Abandoned, Holds
<1>9. ASSUME h \in Children, RetainCallerDown(h) PROVE Held' /\ Freed'
  <2>1. retain_monitors[h] \in Tokens
    BY <1>0, <1>9 DEF RetainCallerDown, TypeOK
  <2> QED BY <1>1, <1>2, <1>9, <2>1 DEF RetainCallerDown
<1> QED BY <1>3, <1>4, <1>5, <1>6, <1>7, <1>8, <1>9

\* A step that ends the job in flight; `inbox' is that of the current executor.
LEMMA FinishUse ==
  ASSUME UInv, release_job # NoJob, NEW inbox \in Seq([token : Tokens, generation : Nat]),
         \A i \in 1..Len(inbox) : Past(inbox[i].token),
         NEW end \in {"retired", "release_failed"},
         end = "retired" => release_job.token \in released,
         DispatchNextRelease([status EXCEPT ![release_job.token] = end],
                             release_queue, NoJob, inbox),
         UNCHANGED <<release_attempts, holders, released>>,
         \A i \in 1..Len(executor_outbox') :
           executor_outbox'[i].result = "ok" => executor_outbox'[i].token \in released
  PROVE  Held' /\ Freed'
<1> DEFINE t  == release_job.token
           st == [status EXCEPT ![t] = end]
<1>0. TypeOK /\ SingleFlight /\ t \in Tokens
  BY JobTyped DEF UInv, IInv
<1>1. /\ status[t] = "releasing" /\ status'[t] = end
      /\ \A u \in Tokens \ {t} : Started(u)
  BY <1>0, FinishFlight
<1>2. Held'
  BY <1>1 DEF UInv, Held, Started
<1>3. \A u \in Tokens : Past(u) => Past(u)'
  BY <1>1 DEF Past, Started
<1>4. \A i \in 1..Len(executor_inbox') : Past(executor_inbox[i].token)'
  <2>1. st \in [Tokens -> Status] /\ release_queue \in Seq(Jobs)
    BY <1>0 DEF TypeOK, Status, EntryStatus
  <2>2. \A u \in Tokens : st[u] = IF u = t THEN end ELSE status[u]
    BY <1>0 DEF TypeOK
  <2> HIDE DEF st, t
  <2>3. \A i \in 1..Len(inbox) : st[inbox[i].token] \notin {"unissued", "active"}
    BY <2>2, InboxTokens DEF Past
  <2> QED BY <2>1, <2>3, DispatchInbox DEF st, t
<1>5. released \subseteq Tokens
  BY <1>0 DEF TypeOK
<1>6. \A u \in Tokens : status'[u] = "retired" => u \in released
  BY <1>1 DEF UInv, Freed, Started
<1> QED BY <1>2, <1>3, <1>4, <1>5, <1>6 DEF UInv, Freed

\* Taking a result or a DOWN from the mailbox leaves the others.
LEMMA OutboxTail ==
  ASSUME UInv, executor_outbox # <<>>, executor_outbox' = Tail(executor_outbox)
  PROVE  /\ \A i \in 1..Len(executor_outbox') :
              executor_outbox'[i].result = "ok" => executor_outbox'[i].token \in released
         /\ Head(executor_outbox).result = "ok" =>
              Head(executor_outbox).token \in released
<1>1. executor_outbox \in Seq(ExecutorMessages)
  BY DEF UInv, IInv, TypeOK
<1>2. /\ Len(executor_outbox') = Len(executor_outbox) - 1
      /\ Len(executor_outbox) \in Nat /\ Len(executor_outbox) >= 1
      /\ Head(executor_outbox) = executor_outbox[1]
      /\ \A i \in 1..Len(executor_outbox') : executor_outbox'[i] = executor_outbox[i + 1]
  BY <1>1, HeadTailProperties, EmptySeq
<1> QED BY <1>2 DEF UInv, Freed

\* Results, the executor's death, and retries.
LEMMA ReleaseUse ==
  ASSUME UInv,
         \/ ReleaseResult \/ ExecutorDown
         \/ \E m \in fired : RetryTimer(m[1], m[2])
         \/ \E c \in Callers, t \in Tokens : Retry(c, t)
  PROVE  Held' /\ Freed'
<1> DEFINE Inbox(s) == /\ s \in Seq([token : Tokens, generation : Nat])
                       /\ \A i \in 1..Len(s) : Past(s[i].token)
<1>0. TypeOK /\ None \in Requests \cup {None}
      /\ Inbox(executor_inbox) /\ Inbox(<<>>)
  <2>1. TypeOK /\ \A i \in 1..Len(executor_inbox) : Past(executor_inbox[i].token)
    BY DEF UInv, IInv, Freed
  <2>2. executor_inbox \in Seq([token : Tokens, generation : Nat])
    BY <2>1 DEF TypeOK
  <2>3. Inbox(<<>>)
    OBVIOUS
  <2> QED BY <2>1, <2>2, <2>3
<1>1. ASSUME FinishReleased(release_job), release_job # NoJob,
             executor_outbox # <<>>, executor_outbox' = Tail(executor_outbox),
             release_job.token \in released
      PROVE  Held' /\ Freed'
  <2>1. /\ DispatchNextRelease([status EXCEPT ![release_job.token] = "retired"],
                               release_queue, NoJob, executor_inbox)
        /\ UNCHANGED <<release_attempts, holders, released>>
    BY <1>1 DEF FinishReleased, holderVars
  <2> QED BY <1>0, <1>1, <2>1, OutboxTail, FinishUse
<1>2. ASSUME NEW inbox, Inbox(inbox), FinishFailed(release_job, inbox),
             release_job # NoJob,
             executor_outbox # <<>>, executor_outbox' = Tail(executor_outbox)
      PROVE  Held' /\ Freed'
  <2>1. /\ DispatchNextRelease([status EXCEPT ![release_job.token] = "release_failed"],
                               release_queue, NoJob, inbox)
        /\ UNCHANGED <<release_attempts, holders, released>>
    BY <1>2 DEF FinishFailed, holderVars
  <2> QED BY <1>2, <2>1, OutboxTail, FinishUse
<1>3. ASSUME UNCHANGED <<status, holders, released, executor_inbox>>,
             executor_outbox # <<>>, executor_outbox' = Tail(executor_outbox)
      PROVE  Held' /\ Freed'
  BY <1>3, OutboxTail DEF UInv, Held, Freed, Past
<1>4. CASE ReleaseResult
  <2>1. executor_outbox # <<>> /\ executor_outbox' = Tail(executor_outbox)
    BY <1>4 DEF ReleaseResult
  <2>2. CASE UNCHANGED <<jobVars, holderVars, released>>
    BY <1>3, <2>1, <2>2 DEF jobVars, holderVars
  <2>3. CASE /\ release_job # NoJob /\ FinishReleased(release_job)
             /\ release_job.token = Head(executor_outbox).token
             /\ Head(executor_outbox).result = "ok"
    BY <1>1, <2>1, <2>3, OutboxTail
  <2>4. CASE release_job # NoJob /\ FinishFailed(release_job, executor_inbox)
    BY <1>0, <1>2, <2>1, <2>4
  <2> QED BY <1>4, <2>2, <2>3, <2>4 DEF ReleaseResult, CurrentJob
<1>5. CASE ExecutorDown
  <2>1. executor_outbox # <<>> /\ executor_outbox' = Tail(executor_outbox)
    BY <1>5 DEF ExecutorDown
  <2>2. CASE release_job = NoJob
    <3>1. release_queue = <<>>
      BY <2>2 DEF UInv, IInv, SingleFlight
    <3>2. DispatchNextRelease(status, release_queue, NoJob, <<>>)
          /\ UNCHANGED <<holders, released>>
      BY <1>5, <2>2 DEF ExecutorDown, holderVars
    <3>3. status' = status /\ executor_inbox' = <<>>
      BY <3>1, <3>2 DEF DispatchNextRelease
    <3>4. \A i \in 1..Len(executor_inbox') : Past(executor_inbox[i].token)'
      BY <3>3
    <3> QED BY <2>1, <3>2, <3>3, <3>4, OutboxTail DEF UInv, Held, Freed, Past
  <2>3. CASE release_job # NoJob
    BY <1>0, <1>2, <1>5, <2>1, <2>3 DEF ExecutorDown
  <2> QED BY <2>2, <2>3
<1>6. ASSUME NEW t \in Tokens, NEW w \in Requests \cup {None},
             status[t] = "release_failed", ReleaseEntry(t, w, {}),
             UNCHANGED <<holderVars, executorVars>>
      PROVE  Held' /\ Freed'
  <2>1. holders[t] = {} /\ UNCHANGED <<holders, released, executor_outbox>>
    BY <1>6 DEF UInv, Held, holderVars, executorVars
  <2> QED BY <1>6, <2>1, ReleaseEntryUse
<1>7. ASSUME UNCHANGED <<jobVars, holderVars, executorVars>> PROVE Held' /\ Freed'
  BY <1>7, QuietUse DEF jobVars, holderVars, executorVars
<1>8. ASSUME NEW m \in fired, RetryTimer(m[1], m[2]) PROVE Held' /\ Freed'
  <2>1. m[1] \in Tokens
    BY <1>0 DEF TypeOK
  <2>2. UNCHANGED <<holderVars, executorVars>>
    BY <1>8 DEF RetryTimer
  <2> QED BY <1>0, <1>6, <1>7, <1>8, <2>1, <2>2 DEF RetryTimer
<1>9. ASSUME NEW c \in Callers, NEW t \in Tokens, Retry(c, t) PROVE Held' /\ Freed'
  <2>1. UNCHANGED <<holderVars, executorVars>> /\ c \in Requests \cup {None}
    BY <1>9 DEF Retry, Requests
  <2> QED BY <1>6, <1>7, <1>9, <2>1 DEF Retry
<1> QED BY <1>4, <1>5, <1>8, <1>9

\* The executor's callbacks and its death: a buffer that goes back is that of a
\* job the executor was sent.
LEMMA ExecutorUse ==
  ASSUME UInv, ExecutorCrash \/ \E ok \in BOOLEAN : ExecuteRelease(ok)
  PROVE  Held' /\ Freed'
<1>0. /\ executor_inbox \in Seq([token : Tokens, generation : Nat])
      /\ executor_outbox \in Seq(ExecutorMessages) /\ released \subseteq Tokens
  BY DEF UInv, IInv, TypeOK
<1>1. UNCHANGED <<status, holders>>
  BY DEF ExecutorCrash, ExecuteRelease, jobVars, holderVars
<1>2. Held' /\ \A u : Past(u)' <=> Past(u)
  BY <1>1 DEF UInv, Held, Past
<1>3. executor_inbox # <<>> =>
        /\ Head(executor_inbox) = executor_inbox[1] /\ 1 \in 1..Len(executor_inbox)
        /\ \A i \in 1..Len(Tail(executor_inbox)) :
             i + 1 \in 1..Len(executor_inbox)
             /\ Tail(executor_inbox)[i] = executor_inbox[i + 1]
  BY <1>0, HeadTailProperties, EmptySeq
<1>4. /\ \A i \in 1..Len(executor_inbox') : Past(executor_inbox'[i].token)
      /\ \A u \in released' : Past(u)
      /\ released \subseteq released'
  <2>1. CASE ExecutorCrash
    BY <1>3, <2>1 DEF ExecutorCrash, jobVars, UInv, Freed
  <2>2. CASE \E ok \in BOOLEAN : ExecuteRelease(ok)
    BY <1>3, <2>2 DEF ExecuteRelease, UInv, Freed
  <2> QED BY <2>1, <2>2
<1>5. PICK m : /\ executor_outbox' = Append(executor_outbox, m)
               /\ m \in ExecutorMessages
               /\ m.result = "ok" => m.token \in released'
  <2>1. CASE ExecutorCrash
    BY <2>1 DEF ExecutorCrash, ExecutorMessages
  <2>2. ASSUME NEW ok \in BOOLEAN, ExecuteRelease(ok)
        PROVE  \E m : /\ executor_outbox' = Append(executor_outbox, m)
                      /\ m \in ExecutorMessages
                      /\ m.result = "ok" => m.token \in released'
    <3>1. executor_inbox # <<>>
      BY <2>2 DEF ExecuteRelease
    <3>2. executor_inbox[1].token \in Tokens /\ executor_inbox[1].generation \in Nat
      BY <1>0, <1>3, <3>1, InboxTokens
    <3>3. Head(executor_inbox).token \in Tokens /\ Head(executor_inbox).generation \in Nat
      BY <1>3, <3>1, <3>2
    <3> DEFINE h == Head(executor_inbox)
               m == [token |-> h.token, generation |-> h.generation,
                     result |-> IF ok THEN "ok" ELSE "error"]
    <3>4. /\ executor_outbox' = Append(executor_outbox, m)
          /\ released' = released \cup {h.token} \/ ~ok
      BY <2>2 DEF ExecuteRelease
    <3>5. m \in ExecutorMessages
      BY <3>3 DEF ExecutorMessages
    <3>6. m.result = "ok" => m.token \in released'
      BY <3>4
    <3> QED BY <3>4, <3>5, <3>6
  <2> QED BY <2>1, <2>2
<1>6. \A i \in 1..Len(executor_outbox') :
        executor_outbox'[i].result = "ok" => executor_outbox'[i].token \in released'
  <2>1. /\ Len(executor_outbox') = Len(executor_outbox) + 1 /\ Len(executor_outbox) \in Nat
        /\ \A i \in 1..Len(executor_outbox) : executor_outbox'[i] = executor_outbox[i]
        /\ executor_outbox'[Len(executor_outbox) + 1] = m
    BY <1>0, <1>5, AppendProperties, LenProperties
  <2> QED BY <1>4, <1>5, <2>1 DEF UInv, Freed
<1> QED BY <1>1, <1>2, <1>4, <1>6 DEF UInv, Freed

\* Closing, draining, timers and deaths of other processes.
LEMMA DrainUse ==
  ASSUME UInv,
         \/ Close \/ ProducerDown \/ OwnerKilled \/ ExecutorExit
         \/ \E c \in Callers : Drain(c) \/ RemoveDrainWaiter(c)
         \/ \E m \in timers : TimerFires(m[1], m[2])
  PROVE  Held' /\ Freed'
<1>1. UNCHANGED <<status, holders, released, executor_inbox, executor_outbox>>
  BY DEF Close, ProducerDown, BeginDrain, OwnerKilled, ExecutorExit, Drain,
         RemoveDrainWaiter, TimerFires, jobVars, holderVars, executorVars
<1> QED BY <1>1, QuietUse

-----------------------------------------------------------------------------
\* Every step preserves the invariant.
LEMMA UseStep == UInv /\ [Next]_vars => UInv'
<1> SUFFICES ASSUME UInv, [Next]_vars PROVE UInv'
  OBVIOUS
<1>0. IInv'
  BY SafetyStep DEF UInv
<1>1. CASE UNCHANGED vars
  BY <1>0, <1>1, QuietUse DEF UInv, vars, jobVars, holderVars, executorVars
<1>2. CASE OwnerStep
  <2>1. \A h \in Children : h \in Holders
    BY DEF Holders
  <2> QED BY <1>0, <1>2, <2>1, HandshakeUse, HolderUse, DrainUse, ReleaseUse
          DEF OwnerStep, UInv
<1>3. CASE RuntimeStep
  BY <1>0, <1>3, DrainUse, ExecutorUse DEF RuntimeStep, UInv
<1> QED BY <1>1, <1>2, <1>3 DEF Next

\* The invariant holds initially ....
LEMMA UseStart == Init => UInv
<1>1. Init => Held /\ Freed
  BY DEF Init, Held, Freed, Past
<1> QED BY <1>1, SafetyStart DEF UInv

\* ... and in every reachable state.
LEMMA UseInvariant == Spec => []UInv
BY UseStart, UseStep, PTL DEF Spec

\* Once a callback may have returned a token's buffer to the producer, no holder
\* is left and none can appear, and an entry is deleted only after its callback
\* returned the buffer (release_entry, finish_release_job, retain_holder).
THEOREM NeverUsedAfterRelease == Spec => []NoUseAfterRelease
<1> QED BY UInvImplies, UseInvariant, PTL

-----------------------------------------------------------------------------
(* The owner counts its holders exactly, whatever order holders are added,   *)
(* released, abandoned and cancelled in.                                     *)

\* The holders of all entries, with the entries they hold.
Pairs == {id \in HolderIds : id[2] \in holders[id[1]]}

Counted == active_holders = Cardinality(Pairs)

HInv == UInv /\ Counted

\* The property follows.
LEMMA HInvImplies == HInv => HolderAccounting
BY DEF HInv, UInv, Held, Counted, Pairs, HolderAccounting

\* There are finitely many.
LEMMA PairsFinite ==
  /\ IsFiniteSet(Pairs) /\ Cardinality(Pairs) \in Nat
  /\ IsFiniteSet(Pairs') /\ Cardinality(Pairs') \in Nat
<1>1. IsFiniteSet(Holders) /\ IsFiniteSet(Tokens)
  BY RefsAssumption, FS_Union DEF Holders
<1>2. IsFiniteSet(HolderIds)
  BY <1>1, FS_Product DEF HolderIds
<1>3. Pairs \in SUBSET HolderIds /\ Pairs' \in SUBSET HolderIds
  BY DEF Pairs
<1> QED BY <1>2, <1>3, FS_Subset, FS_CardinalityType

\* A step that leaves the holders alone.
LEMMA CountKept ==
  ASSUME Counted, UNCHANGED holderVars
  PROVE  Counted'
BY DEF Counted, Pairs, holderVars

\* One holder more.
LEMMA CountAdded ==
  ASSUME TypeOK, Counted, NEW t \in Tokens, NEW h \in Holders \ holders[t],
         holders' = [holders EXCEPT ![t] = @ \cup {h}],
         active_holders' = active_holders + 1
  PROVE  Counted'
<1>1. \A u \in Tokens : holders'[u] = IF u = t THEN holders[t] \cup {h} ELSE holders[u]
  BY DEF TypeOK
<1>2. Pairs' = Pairs \cup {<<t, h>>} /\ <<t, h>> \notin Pairs
  BY <1>1 DEF Pairs, HolderIds
<1> QED BY <1>2, PairsFinite, FS_AddElement DEF Counted

\* One holder less; the clamp at zero is never used.
LEMMA CountRemoved ==
  ASSUME TypeOK, Counted, NEW t \in Tokens, NEW h \in Holders \cap holders[t],
         holders' = [holders EXCEPT ![t] = @ \ {h}],
         active_holders' = IF active_holders > 0 THEN active_holders - 1 ELSE 0
  PROVE  Counted'
<1>1. \A u \in Tokens : holders'[u] = IF u = t THEN holders[t] \ {h} ELSE holders[u]
  BY DEF TypeOK
<1>2. Pairs' = Pairs \ {<<t, h>>} /\ <<t, h>> \in Pairs
  BY <1>1 DEF Pairs, HolderIds
<1>3. Cardinality(Pairs') = Cardinality(Pairs) - 1
  BY <1>2, PairsFinite, FS_RemoveElement
<1> QED BY <1>3, PairsFinite DEF Counted

\* All holders of an entry at once; again nothing is clamped.
LEMMA CountCleared ==
  ASSUME TypeOK, Counted, NEW t \in Tokens,
         holders' = [holders EXCEPT ![t] = {}],
         active_holders' = IF active_holders >= Cardinality(holders[t])
                           THEN active_holders - Cardinality(holders[t]) ELSE 0
  PROVE  Counted'
<1> DEFINE own == {t} \X holders[t]
<1>1. \A u \in Tokens : holders'[u] = IF u = t THEN {} ELSE holders[u]
  BY DEF TypeOK
<1>2. holders[t] \subseteq Holders
  BY DEF TypeOK
<1>3. /\ own \in SUBSET Pairs /\ Pairs' \in SUBSET Pairs
      /\ Pairs = Pairs' \cup own /\ Pairs' \cap own = {}
  BY <1>1, <1>2 DEF Pairs, HolderIds
<1>4. IsFiniteSet(holders[t])
  BY <1>2, RefsAssumption, FS_Union, FS_Subset DEF Holders
<1>5. IsFiniteSet(own) /\ Cardinality(own) = Cardinality(holders[t])
  <2>1. IsFiniteSet({t}) /\ Cardinality({t}) = 1
    BY FS_Singleton
  <2>2. IsFiniteSet(own) /\ Cardinality(own) = Cardinality({t}) * Cardinality(holders[t])
    BY <1>4, <2>1, FS_Product
  <2>3. Cardinality(holders[t]) \in Nat
    BY <1>4, FS_CardinalityType
  <2> QED BY <2>1, <2>2, <2>3
<1> HIDE DEF own
<1>6. Cardinality(Pairs) = Cardinality(Pairs') + Cardinality(own)
  <2>1. Cardinality(Pairs' \cup own) =
          Cardinality(Pairs') + Cardinality(own) - Cardinality(Pairs' \cap own)
    BY <1>5, PairsFinite, FS_Union
  <2>2. Cardinality(own) \in Nat
    BY <1>5, FS_CardinalityType
  <2> QED BY <1>3, <2>1, <2>2, PairsFinite, FS_EmptySet
<1>7. Cardinality(own) \in Nat
  BY <1>5, FS_CardinalityType
<1> QED BY <1>5, <1>6, <1>7, PairsFinite DEF Counted

\* remove_holder.
LEMMA RemoveHolderCount ==
  ASSUME HInv, NEW t \in Tokens, NEW h \in Holders, RemoveHolder(t, h)
  PROVE  Counted'
<1>1. TypeOK /\ Counted
  BY DEF HInv, UInv, IInv
<1> QED BY <1>1, CountRemoved, CountKept DEF RemoveHolder

-----------------------------------------------------------------------------
\* Issuing adds the root holder; a cancelled issue removes all holders.
LEMMA HandshakeCount ==
  ASSUME HInv, NEW t \in Tokens,
         \/ ReserveIssue(t) \/ CommitIssue(t) \/ RejectIssue(t) \/ CommitUnknown(t)
         \/ CancelIssueReservation(t) \/ ConfirmIssue(t) \/ CancelIssue(t)
         \/ IssueCallerDown(t)
  PROVE  Counted'
<1>0. TypeOK /\ Counted /\ Admission /\ Held
  BY DEF HInv, UInv, IInv
<1>1. CASE CommitIssue(t)
  <2>1. holders[t] = {} /\ t \in Holders
    BY <1>0, <1>1 DEF CommitIssue, Admission, Held, Holders
  <2>2. holders' = [holders EXCEPT ![t] = @ \cup {t}]
        /\ active_holders' = active_holders + 1
    BY <1>0, <1>1, <2>1 DEF CommitIssue
  <2> QED BY <1>0, <2>1, <2>2, CountAdded
<1>2. ASSUME CancelPendingIssue(t) PROVE Counted'
  BY <1>0, <1>2, CountCleared DEF CancelPendingIssue
<1>3. ASSUME RemoveIssueReservation(t) PROVE Counted'
  BY <1>0, <1>3, CountKept DEF RemoveIssueReservation
<1>4. ASSUME UNCHANGED vars PROVE Counted'
  BY <1>0, <1>4, CountKept DEF vars
<1>5. CASE ReserveIssue(t)
  BY <1>0, <1>5, CountKept DEF ReserveIssue
<1>6. CASE RejectIssue(t)
  BY <1>0, <1>6, CountKept DEF RejectIssue
<1>7. CASE CommitUnknown(t)
  BY <1>0, <1>7, CountKept DEF CommitUnknown
<1>8. CASE ConfirmIssue(t)
  BY <1>0, <1>4, <1>8, CountKept DEF ConfirmIssue
<1>9. CASE CancelIssue(t)
  BY <1>2, <1>4, <1>9 DEF CancelIssue
<1>10. CASE CancelIssueReservation(t)
  BY <1>3, <1>10 DEF CancelIssueReservation
<1>11. CASE IssueCallerDown(t)
  BY <1>0, <1>2, <1>3, <1>11, CountKept DEF IssueCallerDown
<1> QED BY <1>1, <1>5, <1>6, <1>7, <1>8, <1>9, <1>10, <1>11

\* Retains add one holder, the others remove one or none.
LEMMA HolderCount ==
  ASSUME HInv, NEW h \in Holders,
         \/ h \in Children /\ (RefuseRetain(h) \/ RetainCallerDown(h))
         \/ h \in Children /\ \E t \in Tokens, p \in Holders : Retain(t, p, h)
         \/ \E t \in Tokens : \/ h \in Children /\ ConfirmRetain(t, h)
                              \/ CancelRetain(t, h) \/ Release(t, h) \/ Abandoned(t, h)
  PROVE  Counted'
<1>0. TypeOK /\ Counted
  BY DEF HInv, UInv, IInv
<1>1. ASSUME NEW t \in Tokens, NEW p \in Holders, Retain(t, p, h) PROVE Counted'
  BY <1>0, <1>1, CountAdded DEF Retain, RetainAllowed
<1>2. ASSUME RefuseRetain(h) PROVE Counted'
  BY <1>0, <1>2, CountKept DEF RefuseRetain
<1>3. ASSUME NEW t \in Tokens, ConfirmRetain(t, h) PROVE Counted'
  BY <1>0, <1>3, CountKept DEF ConfirmRetain, vars
<1>4. ASSUME NEW t \in Tokens, CancelRetain(t, h) PROVE Counted'
  BY <1>0, <1>4, CountKept, RemoveHolderCount DEF CancelRetain
<1>5. ASSUME NEW t \in Tokens, Release(t, h) PROVE Counted'
  BY <1>0, <1>5, CountKept, RemoveHolderCount DEF Release
<1>6. ASSUME NEW t \in Tokens, Abandoned(t, h) PROVE Counted'
  BY <1>0, <1>6, CountKept, RemoveHolderCount DEF Abandoned
<1>7. ASSUME h \in Children, RetainCallerDown(h) PROVE Counted'
  <2>1. retain_monitors[h] \in Tokens
    BY <1>0, <1>7 DEF RetainCallerDown, TypeOK
  <2> QED BY <1>0, <1>7, <2>1, CountKept, RemoveHolderCount DEF RetainCallerDown
<1> QED BY <1>1, <1>2, <1>3, <1>4, <1>5, <1>6, <1>7

\* No other step touches a holder.
LEMMA OtherCount ==
  ASSUME HInv,
         \/ Close \/ ProducerDown \/ OwnerKilled \/ ExecutorExit \/ ExecutorCrash
         \/ ReleaseResult \/ ExecutorDown
         \/ \E c \in Callers : Drain(c) \/ RemoveDrainWaiter(c)
         \/ \E c \in Callers, t \in Tokens : Retry(c, t)
         \/ \E m \in fired : RetryTimer(m[1], m[2])
         \/ \E m \in timers : TimerFires(m[1], m[2])
         \/ \E ok \in BOOLEAN : ExecuteRelease(ok)
  PROVE  Counted'
<1>1. UNCHANGED holderVars
  BY DEF Close, ProducerDown, BeginDrain, OwnerKilled, ExecutorExit, ExecutorCrash,
         ReleaseResult, ExecutorDown, FinishReleased, FinishFailed, Drain,
         RemoveDrainWaiter, Retry, RetryTimer, TimerFires, ExecuteRelease
<1> QED BY <1>1, CountKept DEF HInv

\* Every step keeps the count exact.
LEMMA CountStep == HInv /\ [Next]_vars => HInv'
<1> SUFFICES ASSUME HInv, [Next]_vars PROVE HInv'
  OBVIOUS
<1>0. UInv'
  BY UseStep DEF HInv
<1>1. CASE UNCHANGED vars
  BY <1>0, <1>1, CountKept DEF HInv, vars
<1>2. CASE OwnerStep
  <2>1. \A h \in Children : h \in Holders
    BY DEF Holders
  <2> QED BY <1>0, <1>2, <2>1, HandshakeCount, HolderCount, OtherCount
          DEF OwnerStep, HInv
<1>3. CASE RuntimeStep
  BY <1>0, <1>3, OtherCount DEF RuntimeStep, HInv
<1> QED BY <1>1, <1>2, <1>3 DEF Next

\* active_holders is the number of holders in all entries, and an entry has
\* holders exactly while it is active, for any number of leases and retains
\* (remove_holder, cancel_pending_issue, retain_holder).
THEOREM HoldersExact == Spec => []HolderAccounting
<1>1. Init => Counted
  <2> SUFFICES ASSUME Init PROVE Counted
    OBVIOUS
  <2>1. Pairs = {}
    BY DEF Init, Pairs, HolderIds
  <2> QED BY <2>1, FS_EmptySet DEF Init, Counted
<1>2. Init /\ UInv => HInv
  BY <1>1 DEF HInv
<1> QED BY <1>2, UseInvariant, CountStep, HInvImplies, PTL DEF Spec

-----------------------------------------------------------------------------
(* The owner implements its contract: every handler, timer and executor step *)
(* is one step of LeaseContract, or changes nothing that the contract sees.  *)

\* The tuples of unchanged variables of the actions.
USE DEF processVars, pendingVars, holderVars, jobVars, timerVars, drainVars,
        tombVars, executorVars

\* The statuses of one phase.
LEMMA PhaseCases ==
  /\ \A s : Phase(s) = "outside" <=> s = "unissued"
  /\ \A s : Phase(s) = "live" <=> s = "active"
  /\ \A s : Phase(s) = "gone" <=> s = "retired"
  /\ \A s \in {"release_queued", "releasing", "release_failed"} : Phase(s) = "retiring"
  /\ \A s \in Status : Phase(s) \in {"outside", "live", "gone", "retiring"}
BY DEF Phase, Status, EntryStatus

\* Both modules take Cardinality from FiniteSets.
LEMMA SameCardinality == \A S : Contract!Cardinality(S) = Cardinality(S)
BY DEF Cardinality, Contract!Cardinality

\* The contract's outstanding tokens are the owner's entries.
LEMMA OutstandingIsLeases ==
  ASSUME TypeOK
  PROVE  Contract!Outstanding = Leases
<1>1. \A t \in Tokens : status[t] \in Status
  BY DEF TypeOK, Status, EntryStatus
<1>2. \A t \in Tokens : Phase(status[t]) \in {"live", "retiring"} <=> status[t] \in EntryStatus
  BY <1>1, PhaseCases DEF Status, EntryStatus
<1> QED BY <1>2 DEF Contract!Outstanding, Leases

\* The same of the next state.
LEMMA OutstandingNext ==
  ASSUME TypeOK'
  PROVE  Contract!Outstanding' = Leases'
<1>1. (TypeOK => Contract!Outstanding = Leases)'
  BY OutstandingIsLeases, PTL
<1> QED BY <1>1

\* A step the contract does not see.
LEMMA Unseen ==
  ASSUME UNCHANGED <<owner, mode, issue_reservations, holders, released>>,
         \A t \in Tokens : Phase(status'[t]) = Phase(status[t])
  PROVE  UNCHANGED Contract!cvars
BY DEF Contract!cvars

\* stop_or_continue_after_release stops exactly when the contract does.
LEMMA StopMaps ==
  ASSUME UInv', owner = "up", StopOrContinue
  PROVE  Contract!StopWhenEmpty
<1>1. Contract!Outstanding' = Leases'
  BY OutstandingNext DEF UInv, IInv
<1>2. Drained' <=> Leases' = {} /\ issue_reservations' = {}
  BY DrainedWhenEmpty
<1>3. owner' = IF mode' = "draining" /\ Drained' THEN "stopped" ELSE "up"
  BY DEF StopOrContinue, CompleteDrain
<1> QED BY <1>1, <1>2, <1>3 DEF Contract!StopWhenEmpty

-----------------------------------------------------------------------------
(* How the helpers map.                                                    *)

\* A token that is started only moves on inside "retiring".
LEMMA StartedPhase ==
  ASSUME NEW u \in Tokens, Started(u)
  PROVE  Phase(status'[u]) = Phase(status[u])
BY PhaseCases DEF Started

\* remove_issue_reservation: the promise is withdrawn; without a reservation the
\* handler only closes what is closed already.
LEMMA WithdrawMaps ==
  ASSUME UInv, UInv', NEW t \in Tokens, owner = "up", RemoveIssueReservation(t)
  PROVE  [Contract!Next]_Contract!cvars
<1>1. /\ issue_reservations' = issue_reservations \ {t}
      /\ UNCHANGED <<mode, status, holders, released>>
      /\ StopOrContinue
  BY DEF RemoveIssueReservation, jobVars, holderVars, executorVars
<1>2. Contract!StopWhenEmpty
  BY <1>1, StopMaps
<1>3. CASE t \in issue_reservations
  <2>1. Contract!Withdraw(t)
    BY <1>1, <1>2, <1>3 DEF Contract!Withdraw
  <2> QED BY <2>1 DEF Contract!Next
<1>4. CASE t \notin issue_reservations
  <2>1. issue_reservations' = issue_reservations
    BY <1>1, <1>4
  <2>2. CASE mode = "draining"
    <3>1. Contract!Shut
      BY <1>1, <1>2, <2>1, <2>2 DEF Contract!Shut
    <3> QED BY <3>1 DEF Contract!Next
  <2>3. CASE mode # "draining"
    <3>1. owner' = owner
      BY <1>1, <2>3 DEF StopOrContinue
    <3> QED BY <1>1, <2>1, <3>1, Unseen
  <2> QED BY <2>2, <2>3
<1> QED BY <1>3, <1>4

\* release_entry for an active entry that loses the holders S, its last ones.
LEMMA LastDropMaps ==
  ASSUME UInv, UInv', NEW t \in Tokens, owner = "up", status[t] = "active",
         ReleaseEntry(t, None, {}), holders' = [holders EXCEPT ![t] = {}],
         UNCHANGED <<mode, issue_reservations, released>>, StopOrContinue
  PROVE  Contract!Drop(t, holders[t])
<1>0. TypeOK /\ SingleFlight /\ None \in Requests \cup {None}
  BY DEF UInv, IInv
<1>1. /\ status'[t] \in {"release_queued", "releasing"}
      /\ \A u \in Tokens \ {t} : Started(u)
  BY <1>0, ReleaseEntryFlight
<1>2. /\ Phase(status'[t]) = "retiring" /\ Phase(status[t]) = "live"
      /\ \A u \in Tokens \ {t} : Phase(status'[u]) = Phase(status[u])
  BY <1>1, StartedPhase, PhaseCases
<1>3. owner' = owner
  <2>1. Leases' # {}
    BY <1>1 DEF Leases, EntryStatus
  <2> QED BY <2>1 DEF StopOrContinue, Drained
<1>4. holders[t] # {}
  BY DEF UInv, Held
<1>5. holders' = [holders EXCEPT ![t] = @ \ holders[t]]
  BY <1>0 DEF TypeOK
<1>6. [u \in Tokens |-> Phase(status'[u])] =
        [[u \in Tokens |-> Phase(status[u])] EXCEPT
           ![t] = IF holders[t] = holders[t] THEN "retiring" ELSE @]
  BY <1>2
<1> QED BY <1>2, <1>3, <1>4, <1>5, <1>6 DEF Contract!Drop

\* remove_holder: one holder is dropped, or none.
LEMMA RemoveHolderMaps ==
  ASSUME UInv, UInv', NEW t \in Tokens, NEW h \in Holders, owner = "up",
         status[t] = "active", RemoveHolder(t, h), UNCHANGED released
  PROVE  [Contract!Next]_Contract!cvars
<1>0. TypeOK
  BY DEF UInv, IInv
<1>1. CASE /\ h \in holders[t] /\ holders[t] = {h} /\ ReleaseEntry(t, None, {})
           /\ holders' = [holders EXCEPT ![t] = @ \ {h}]
           /\ UNCHANGED <<mode, issue_reservations>> /\ StopOrContinue
  <2>1. holders' = [holders EXCEPT ![t] = {}]
    BY <1>0, <1>1 DEF TypeOK
  <2>2. Contract!Drop(t, holders[t])
    BY <1>1, <2>1, LastDropMaps
  <2>3. holders[t] \in SUBSET Holders
    BY <1>0 DEF TypeOK
  <2> QED BY <2>2, <2>3 DEF Contract!Next
<1>2. CASE /\ h \in holders[t] /\ holders[t] # {h}
           /\ holders' = [holders EXCEPT ![t] = @ \ {h}]
           /\ UNCHANGED <<owner, mode, issue_reservations, status>>
  <2>1. Phase(status[t]) = "live"
    BY PhaseCases
  <2>2. [u \in Tokens |-> Phase(status'[u])] =
          [[u \in Tokens |-> Phase(status[u])] EXCEPT
             ![t] = IF holders[t] = {h} THEN "retiring" ELSE @]
    BY <1>2
  <2>3. Contract!Drop(t, {h})
    BY <1>2, <2>1, <2>2 DEF Contract!Drop
  <2> QED BY <2>3 DEF Contract!Next
<1>3. CASE UNCHANGED <<owner, mode, issue_reservations, status, holders>>
  BY <1>3, Unseen
<1> QED BY <1>1, <1>2, <1>3 DEF RemoveHolder, processVars, jobVars, holderVars

\* release_entry for an entry without holders that failed before.
LEMMA RequeueMaps ==
  ASSUME UInv, NEW t \in Tokens, NEW w \in Requests \cup {None},
         status[t] = "release_failed", ReleaseEntry(t, w, {}),
         UNCHANGED <<owner, mode, issue_reservations, holders, released>>
  PROVE  UNCHANGED Contract!cvars
<1>0. TypeOK /\ SingleFlight
  BY DEF UInv, IInv
<1>1. /\ status'[t] \in {"release_queued", "releasing"}
      /\ \A u \in Tokens \ {t} : Started(u)
  BY <1>0, ReleaseEntryFlight
<1>2. \A u \in Tokens : Phase(status'[u]) = Phase(status[u])
  BY <1>1, StartedPhase, PhaseCases
<1> QED BY <1>2, Unseen

-----------------------------------------------------------------------------
(* Steps.                                                                  *)

\* The issue handshake: promise, admit or decline, withdraw, drop.
LEMMA HandshakeMaps ==
  ASSUME UInv, UInv', NEW t \in Tokens,
         \/ ReserveIssue(t) \/ CommitIssue(t) \/ RejectIssue(t) \/ CommitUnknown(t)
         \/ CancelIssueReservation(t) \/ ConfirmIssue(t) \/ CancelIssue(t)
         \/ IssueCallerDown(t)
  PROVE  [Contract!Next]_Contract!cvars
<1>0. TypeOK /\ SingleFlight /\ Admission /\ t \in Requests \cup {None}
  BY DEF UInv, IInv, Requests
<1>1. CASE ReserveIssue(t)
  <2>1. /\ owner = "up" /\ t \notin issue_reservations /\ status[t] = "unissued"
        /\ UNCHANGED <<owner, mode, status, holders, released>>
    BY <1>0, <1>1 DEF ReserveIssue, Admission
  <2>2. CASE UNCHANGED issue_reservations
    BY <2>1, <2>2, Unseen
  <2>3. CASE /\ mode = "open" /\ CapacityAvailable
             /\ issue_reservations' = issue_reservations \cup {t}
    <3>1. Cardinality(Leases) \in Nat /\ Cardinality(issue_reservations) \in Nat
      <4>1. Leases \in SUBSET Tokens /\ issue_reservations \in SUBSET Tokens
        BY <1>0 DEF Leases, TypeOK
      <4>2. IsFiniteSet(Tokens)
        BY RefsAssumption
      <4>3. IsFiniteSet(Leases) /\ IsFiniteSet(issue_reservations)
        BY <4>1, <4>2, FS_Subset
      <4> QED BY <4>3, FS_CardinalityType
    <3>2. Cardinality(issue_reservations) + Cardinality(Contract!Outstanding) < MaxActive
      BY <1>0, <2>3, <3>1, OptionsAssumption, OutstandingIsLeases DEF CapacityAvailable
    <3>3. Phase(status[t]) = "outside"
      BY <2>1, PhaseCases
    <3>4. Contract!Promise(t)
      BY <2>1, <2>3, <3>2, <3>3, SameCardinality DEF Contract!Promise
    <3> QED BY <3>4 DEF Contract!Next
  <2> QED BY <1>1, <2>2, <2>3 DEF ReserveIssue
<1>2. CASE CommitIssue(t)
  <2>1. /\ owner = "up" /\ t \in issue_reservations
        /\ issue_reservations' = issue_reservations \ {t}
        /\ holders' = [holders EXCEPT ![t] = {t}]
        /\ status' = [status EXCEPT ![t] = "active"]
        /\ UNCHANGED <<owner, mode, released>>
    BY <1>2 DEF CommitIssue
  <2>2. \A u \in Tokens : status'[u] = IF u = t THEN "active" ELSE status[u]
    BY <1>0, <2>1 DEF TypeOK
  <2>3. [u \in Tokens |-> Phase(status'[u])] =
          [[u \in Tokens |-> Phase(status[u])] EXCEPT ![t] = "live"]
    BY <2>2, PhaseCases
  <2>4. Contract!Admit(t)
    BY <2>1, <2>3 DEF Contract!Admit
  <2> QED BY <2>4 DEF Contract!Next
<1>3. CASE RejectIssue(t)
  <2>1. /\ owner = "up" /\ t \in issue_reservations /\ status[t] = "unissued"
        /\ issue_reservations' = issue_reservations \ {t} /\ ReleaseEntry(t, t, {t})
        /\ UNCHANGED <<owner, mode, holders, released>>
    BY <1>0, <1>3 DEF RejectIssue, Admission
  <2>2. /\ status'[t] \in {"release_queued", "releasing"}
        /\ \A u \in Tokens \ {t} : Started(u)
    BY <1>0, <2>1, ReleaseEntryFlight
  <2>3. [u \in Tokens |-> Phase(status'[u])] =
          [[u \in Tokens |-> Phase(status[u])] EXCEPT ![t] = "retiring"]
    <3>1. Phase(status'[t]) = "retiring"
      BY <2>2, PhaseCases
    <3>2. \A u \in Tokens \ {t} : Phase(status'[u]) = Phase(status[u])
      BY <2>2, StartedPhase
    <3> QED BY <3>1, <3>2
  <2>4. Contract!Decline(t)
    BY <2>1, <2>3 DEF Contract!Decline
  <2> QED BY <2>4 DEF Contract!Next
<1>4. CASE CommitUnknown(t)
  <2>1. Contract!Crash
    BY <1>4 DEF CommitUnknown, Contract!Crash
  <2> QED BY <2>1 DEF Contract!Next
<1>5. ASSUME owner = "up", IssuePending(t), CancelPendingIssue(t)
      PROVE  [Contract!Next]_Contract!cvars
  <2>1. Contract!Drop(t, holders[t])
    BY <1>5, LastDropMaps DEF IssuePending, CancelPendingIssue
  <2>2. holders[t] \in SUBSET Holders
    BY <1>0 DEF TypeOK
  <2> QED BY <2>1, <2>2 DEF Contract!Next
<1>6. ASSUME UNCHANGED <<owner, mode, issue_reservations, status, holders, released>>
      PROVE  [Contract!Next]_Contract!cvars
  BY <1>6, Unseen
<1>7. CASE ConfirmIssue(t)
  BY <1>6, <1>7 DEF ConfirmIssue, vars
<1>8. CASE CancelIssue(t)
  BY <1>5, <1>6, <1>8 DEF CancelIssue, vars
<1>9. CASE CancelIssueReservation(t)
  BY <1>9, WithdrawMaps DEF CancelIssueReservation
<1>10. CASE IssueCallerDown(t)
  BY <1>5, <1>6, <1>10, WithdrawMaps DEF IssueCallerDown
<1> QED BY <1>1, <1>2, <1>3, <1>4, <1>7, <1>8, <1>9, <1>10

\* Retains share a live lease of an open owner; the others drop a holder.
LEMMA HolderMaps ==
  ASSUME UInv, UInv', NEW h \in Holders,
         \/ h \in Children /\ (RefuseRetain(h) \/ RetainCallerDown(h))
         \/ h \in Children /\ \E t \in Tokens, p \in Holders : Retain(t, p, h)
         \/ \E t \in Tokens : \/ h \in Children /\ ConfirmRetain(t, h)
                              \/ CancelRetain(t, h) \/ Release(t, h) \/ Abandoned(t, h)
  PROVE  [Contract!Next]_Contract!cvars
<1>0. TypeOK
  BY DEF UInv, IInv
<1>1. ASSUME UNCHANGED <<owner, mode, issue_reservations, status, holders, released>>
      PROVE  [Contract!Next]_Contract!cvars
  BY <1>1, Unseen
<1>2. ASSUME RefuseRetain(h) PROVE [Contract!Next]_Contract!cvars
  BY <1>1, <1>2 DEF RefuseRetain
<1>3. ASSUME NEW t \in Tokens, NEW p \in Holders, Retain(t, p, h)
      PROVE  [Contract!Next]_Contract!cvars
  <2>1. Phase(status[t]) = "live"
    BY <1>3, PhaseCases DEF Retain, RetainAllowed
  <2>2. Contract!Share(t, h)
    BY <1>3, <2>1 DEF Retain, RetainAllowed, Contract!Share
  <2> QED BY <2>2 DEF Contract!Next
<1>4. ASSUME NEW t \in Tokens, ConfirmRetain(t, h) PROVE [Contract!Next]_Contract!cvars
  BY <1>1, <1>4 DEF ConfirmRetain, vars
<1>5. ASSUME NEW t \in Tokens, CancelRetain(t, h) PROVE [Contract!Next]_Contract!cvars
  BY <1>1, <1>5, RemoveHolderMaps DEF CancelRetain
<1>6. ASSUME NEW t \in Tokens, Release(t, h) PROVE [Contract!Next]_Contract!cvars
  BY <1>1, <1>6, RemoveHolderMaps DEF Release, Holds
<1>7. ASSUME NEW t \in Tokens, Abandoned(t, h) PROVE [Contract!Next]_Contract!cvars
  BY <1>1, <1>7, RemoveHolderMaps DEF Abandoned, Holds
<1>8. ASSUME h \in Children, RetainCallerDown(h) PROVE [Contract!Next]_Contract!cvars
  <2>1. retain_monitors[h] \in Tokens
    BY <1>0, <1>8 DEF RetainCallerDown, TypeOK
  <2> QED BY <1>1, <1>8, <2>1, RemoveHolderMaps DEF RetainCallerDown
<1> QED BY <1>2, <1>3, <1>4, <1>5, <1>6, <1>7, <1>8

\* Closing and draining shut the owner; the rest the contract does not see.
LEMMA DrainMaps ==
  ASSUME UInv, UInv',
         \/ Close \/ ProducerDown \/ OwnerKilled \/ ExecutorExit
         \/ \E c \in Callers : Drain(c) \/ RemoveDrainWaiter(c)
         \/ \E m \in timers : TimerFires(m[1], m[2])
  PROVE  [Contract!Next]_Contract!cvars
<1>1. ASSUME owner = "up", BeginDrain PROVE Contract!Shut
  <2>1. Contract!StopWhenEmpty
    BY <1>1, StopMaps DEF BeginDrain
  <2> QED BY <1>1, <2>1 DEF BeginDrain, Contract!Shut
<1>2. ASSUME NEW c \in Callers, Drain(c) PROVE Contract!Shut
  <2>1. Contract!Outstanding' = Leases' /\ Leases' = Leases
    BY <1>2, OutstandingNext DEF UInv, IInv, Drain, Leases
  <2>2. /\ owner = "up" /\ mode' = "draining"
        /\ UNCHANGED <<issue_reservations, status, holders, released>>
    BY <1>2 DEF Drain
  <2>3. owner' = IF Leases = {} /\ issue_reservations = {} THEN "stopped" ELSE "up"
    BY <1>2 DEF Drain, ReleaseFailures
  <2>4. Contract!StopWhenEmpty
    BY <2>1, <2>2, <2>3 DEF Contract!StopWhenEmpty
  <2> QED BY <2>2, <2>4 DEF Contract!Shut
<1>3. CASE OwnerKilled
  <2>1. Contract!Crash
    BY <1>3 DEF OwnerKilled, Contract!Crash
  <2> QED BY <2>1 DEF Contract!Next
<1>4. CASE ExecutorExit \/ (\E c \in Callers : RemoveDrainWaiter(c))
           \/ \E m \in timers : TimerFires(m[1], m[2])
  <2>1. UNCHANGED <<owner, mode, issue_reservations, status, holders, released>>
    BY <1>4 DEF ExecutorExit, RemoveDrainWaiter, TimerFires
  <2> QED BY <2>1, Unseen
<1> QED BY <1>1, <1>2, <1>3, <1>4 DEF Close, ProducerDown, Contract!Next

\* What FinishReleased does to the owner process.
StopOrContinueOwner ==
  owner' = IF mode' = "draining" /\ Drained' THEN "stopped" ELSE owner

\* A job that ended: retired, behind its buffer, or failed and still retiring.
LEMMA FinishMaps ==
  ASSUME UInv, UInv', owner = "up", release_job # NoJob, NEW inbox,
         NEW end \in {"retired", "release_failed"},
         DispatchNextRelease([status EXCEPT ![release_job.token] = end],
                             release_queue, NoJob, inbox),
         UNCHANGED <<mode, issue_reservations, holders, release_attempts, released>>,
         end = "retired" => release_job.token \in released /\ StopOrContinueOwner,
         end = "release_failed" => owner' = owner
  PROVE  [Contract!Next]_Contract!cvars
<1> DEFINE t == release_job.token
<1>0. TypeOK /\ SingleFlight /\ t \in Tokens
  BY JobTyped DEF UInv, IInv
<1>1. /\ status[t] = "releasing" /\ status'[t] = end
      /\ \A u \in Tokens \ {t} : Started(u)
  BY <1>0, FinishFlight
<1>2. \A u \in Tokens \ {t} : Phase(status'[u]) = Phase(status[u])
  BY <1>1, StartedPhase
<1>3. Phase(status[t]) = "retiring"
  BY <1>1, PhaseCases
<1> HIDE DEF t
<1>4. CASE end = "retired"
  <2>1. [u \in Tokens |-> Phase(status'[u])] =
          [[u \in Tokens |-> Phase(status[u])] EXCEPT ![t] = "gone"]
    <3>1. Phase(status'[t]) = "gone"
      BY <1>1, <1>4, PhaseCases
    <3> QED BY <1>0, <1>2, <3>1
  <2>2. Contract!Outstanding' = Leases'
    BY OutstandingNext DEF UInv, IInv
  <2>3. Drained' <=> Leases' = {} /\ issue_reservations' = {}
    BY DrainedWhenEmpty
  <2>4. Contract!StopWhenEmpty
    BY <1>4, <2>2, <2>3 DEF StopOrContinueOwner, Contract!StopWhenEmpty
  <2>5. Contract!Retire(t)
    BY <1>0, <1>3, <1>4, <2>1, <2>4 DEF Contract!Retire, t
  <2> QED BY <1>0, <2>5 DEF Contract!Next
<1>5. CASE end = "release_failed"
  <2>1. \A u \in Tokens : Phase(status'[u]) = Phase(status[u])
    BY <1>1, <1>2, <1>3, <1>5, PhaseCases
  <2> QED BY <1>5, <2>1, Unseen
<1> QED BY <1>4, <1>5

\* Results, the executor's death, and retries.
LEMMA ReleaseMaps ==
  ASSUME UInv, UInv',
         \/ ReleaseResult \/ ExecutorDown
         \/ \E m \in fired : RetryTimer(m[1], m[2])
         \/ \E c \in Callers, t \in Tokens : Retry(c, t)
  PROVE  [Contract!Next]_Contract!cvars
<1>0. TypeOK /\ None \in Requests \cup {None}
  BY DEF UInv, IInv
<1>1. ASSUME owner = "up", release_job # NoJob, FinishReleased(release_job),
             release_job.token \in released
      PROVE  [Contract!Next]_Contract!cvars
  <2>1. /\ DispatchNextRelease([status EXCEPT ![release_job.token] = "retired"],
                               release_queue, NoJob, executor_inbox)
        /\ UNCHANGED <<mode, issue_reservations, holders, release_attempts, released>>
    BY <1>1 DEF FinishReleased
  <2>2. StopOrContinueOwner
    BY <1>1, <2>1 DEF FinishReleased, CompleteDrain, StopOrContinueOwner
  <2> QED BY <1>1, <2>1, <2>2, FinishMaps
<1>2. ASSUME NEW inbox, owner = "up", release_job # NoJob,
             FinishFailed(release_job, inbox)
      PROVE  [Contract!Next]_Contract!cvars
  <2>1. /\ DispatchNextRelease([status EXCEPT ![release_job.token] = "release_failed"],
                               release_queue, NoJob, inbox)
        /\ UNCHANGED <<owner, mode, issue_reservations, holders, release_attempts,
                       released>>
    BY <1>2 DEF FinishFailed
  <2> QED BY <1>2, <2>1, FinishMaps
<1>3. ASSUME UNCHANGED <<owner, mode, issue_reservations, status, holders, released>>
      PROVE  [Contract!Next]_Contract!cvars
  BY <1>3, Unseen
<1>4. CASE ReleaseResult
  <2>1. Head(executor_outbox).result = "ok" => Head(executor_outbox).token \in released
    BY <1>4, OutboxTail DEF ReleaseResult
  <2> QED BY <1>1, <1>2, <1>3, <1>4, <2>1 DEF ReleaseResult, CurrentJob
<1>5. CASE ExecutorDown
  <2>1. CASE release_job = NoJob
    <3>1. release_queue = <<>>
      BY <2>1 DEF UInv, IInv, SingleFlight
    <3>2. /\ DispatchNextRelease(status, release_queue, NoJob, <<>>)
          /\ UNCHANGED <<owner, mode, issue_reservations, holders, released>>
      BY <1>5, <2>1 DEF ExecutorDown
    <3>3. status' = status
      BY <3>1, <3>2 DEF DispatchNextRelease
    <3> QED BY <1>3, <3>2, <3>3
  <2>2. CASE release_job # NoJob
    BY <1>2, <1>5, <2>2 DEF ExecutorDown
  <2> QED BY <2>1, <2>2
<1>6. ASSUME NEW m \in fired, RetryTimer(m[1], m[2]) PROVE [Contract!Next]_Contract!cvars
  <2>1. /\ m[1] \in Tokens
        /\ UNCHANGED <<owner, mode, issue_reservations, holders, released>>
    BY <1>0, <1>6 DEF TypeOK, RetryTimer
  <2> QED BY <1>0, <1>3, <1>6, <2>1, RequeueMaps DEF RetryTimer
<1>7. ASSUME NEW c \in Callers, NEW t \in Tokens, Retry(c, t)
      PROVE  [Contract!Next]_Contract!cvars
  <2>1. /\ c \in Requests \cup {None}
        /\ UNCHANGED <<owner, mode, issue_reservations, holders, released>>
    BY <1>7 DEF Retry, Requests
  <2> QED BY <1>3, <1>7, <2>1, RequeueMaps DEF Retry
<1> QED BY <1>4, <1>5, <1>6, <1>7

\* What the executor returns is the buffer of a retiring token, or of one whose
\* buffer is back already.
LEMMA ExecutorMaps ==
  ASSUME UInv, ExecutorCrash \/ \E ok \in BOOLEAN : ExecuteRelease(ok)
  PROVE  [Contract!Next]_Contract!cvars
<1> DEFINE t == Head(executor_inbox).token
<1>0. TypeOK /\ Freed
  BY DEF UInv, IInv
<1>1. UNCHANGED <<owner, mode, issue_reservations, status, holders>>
  BY DEF ExecutorCrash, ExecuteRelease
<1>2. released' = released \/ (executor_inbox # <<>> /\ released' = released \cup {t})
  BY DEF ExecutorCrash, ExecuteRelease
<1>3. executor_inbox # <<>> => t \in Tokens /\ Past(t)
  <2>1. executor_inbox \in Seq([token : Tokens, generation : Nat])
    BY <1>0 DEF TypeOK
  <2>2. executor_inbox # <<>> =>
          1 \in 1..Len(executor_inbox) /\ Head(executor_inbox) = executor_inbox[1]
    BY <2>1, HeadTailProperties, EmptySeq
  <2> QED BY <1>0, <2>1, <2>2, InboxTokens DEF Freed
<1> HIDE DEF t
<1>4. CASE released' = released
  BY <1>1, <1>4, Unseen
<1>5. CASE executor_inbox # <<>> /\ released' = released \cup {t} /\ t \notin released
  <2>1. Phase(status[t]) = "retiring"
    <3>1. status[t] \in {"release_queued", "releasing", "release_failed"}
      BY <1>0, <1>3, <1>5 DEF TypeOK, EntryStatus, Past, Freed
    <3> QED BY <3>1, PhaseCases
  <2>2. Contract!Free(t)
    BY <1>1, <1>3, <1>5, <2>1 DEF Contract!Free
  <2> QED BY <1>3, <1>5, <2>2 DEF Contract!Next
<1> QED BY <1>2, <1>4, <1>5

-----------------------------------------------------------------------------
\* Every step of the owner is a step of the contract or a stutter.
LEMMA ContractStep == UInv /\ UInv' /\ [Next]_vars => [Contract!Next]_Contract!cvars
<1> SUFFICES ASSUME UInv, UInv', [Next]_vars PROVE [Contract!Next]_Contract!cvars
  OBVIOUS
<1>1. CASE UNCHANGED vars
  BY <1>1, Unseen DEF vars
<1>2. CASE OwnerStep
  <2>1. \A h \in Children : h \in Holders
    BY DEF Holders
  <2> QED BY <1>2, <2>1, HandshakeMaps, HolderMaps, DrainMaps, ReleaseMaps DEF OwnerStep
<1>3. CASE RuntimeStep
  BY <1>3, DrainMaps, ExecutorMaps DEF RuntimeStep
<1> QED BY <1>1, <1>2, <1>3 DEF Next

\* The lease owner implements its contract, for every set of references and
\* every option: no token is revived, no holder is added to a lease that is not
\* live or to a closed owner, no buffer goes back while a holder is left, and the
\* owner stops in the step that leaves it closed and empty (all handlers).
THEOREM ContractImplemented == Spec => ImplementsContract
<1>1. Init => Contract!Init
  BY PhaseCases DEF Init, Contract!Init
<1> QED BY <1>1, UseInvariant, ContractStep, PTL DEF Spec, ImplementsContract, Contract!Spec

HIDE DEF processVars, pendingVars, holderVars, jobVars, timerVars, drainVars,
         tombVars, executorVars
=============================================================================
