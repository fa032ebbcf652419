----------------------------- MODULE LeaseOwner -----------------------------
(***************************************************************************)
(* The VideoInterop.LeaseOwner process (lib/video_interop/lease_owner.ex): *)
(* a GenServer that owns producer-backed leases, the serial release        *)
(* executor it monitors, and its retry timers.  One action is one handler  *)
(* run to its end, with every helper the handler calls.                    *)
(*                                                                         *)
(* References made by make_ref, Process.alias and Process.monitor are      *)
(* unique, so references made together name one thing here:                *)
(*   - a member of Tokens is one issue call: its request_ref, its          *)
(*     reservation, the caller's monitor, the lease token, the backend     *)
(*     token and the root holder;                                          *)
(*   - a member of Children is one retain call: its request_ref, the       *)
(*     caller's monitor and the child holder;                              *)
(*   - a member of Callers is one drain or retry call;                     *)
(*   - the generation of a release job, or of a retry timer, is the number *)
(*     of the release attempt it was made for.                             *)
(*                                                                         *)
(* The environment is open: messages with known references arrive in any   *)
(* order and any number of times.  Only the message that introduces a      *)
(* reference arrives once (`seen').  LeaseProtocol closes the environment  *)
(* with the client code.  Statistics, the age index and notifications to   *)
(* the observer are write-only in the code and are left out.               *)
(***************************************************************************)
EXTENDS Integers, Sequences, FiniteSets

CONSTANTS
  Tokens,          \* issue calls
  Children,        \* retain calls
  Callers,         \* drain and retry calls
  None,            \* the absent reference (nil)
  MaxActive,       \* max_active; :infinity is any value >= the number of Tokens
  Exponential,     \* release_retry is {:exponential, _} rather than :manual
  MaxAttempts,     \* max_attempts of the exponential policy
  ManualBound,     \* bound on the attempts after which retry/3 is still called
  TombstoneLimit   \* @release_tombstone_limit

Holders   == Tokens \cup Children
Requests  == Tokens \cup Children \cup Callers
HolderIds == Tokens \X Holders

ASSUME RefsAssumption ==
  /\ IsFiniteSet(Tokens) /\ IsFiniteSet(Children) /\ IsFiniteSet(Callers)
  /\ Tokens \cap Children = {}
  /\ (Tokens \cup Children) \cap Callers = {}
  /\ None \notin Requests

ASSUME OptionsAssumption ==
  /\ MaxActive \in Nat \ {0}
  /\ Exponential \in BOOLEAN
  /\ MaxAttempts \in Nat \ {0}
  /\ ManualBound \in Nat
  /\ TombstoneLimit \in Nat \ {0}

VARIABLES
  owner,                    \* the GenServer: "up", "stopped", "corrupt" or "killed"
  producer,                 \* state.producer is not nil
  mode,                     \* "open" or "draining"
  issue_reservations,       \* keys of state.issue_reservations
  status,                   \* entry.status; "unissued" and "retired" have no entry
  holders,                  \* entry.holders
  pending_issue,            \* tokens whose entry.pending_issue is not nil
  pending_issues,           \* keys of state.pending_issues
  pending_retains,          \* keys of entry.pending_retains
  issue_monitors,           \* protocol_monitors tagged :reservation or :issue
  retain_monitors,          \* protocol_monitors tagged {:retain, token, child}
  active_holders,
  release_attempts,         \* entry.release_attempts
  release_queue,
  release_job,
  retry_timers,             \* generation of the token's entry in retry_timers, or 0
  timers,                   \* armed runtime timers, <<token, generation>>
  fired,                    \* :video_interop_retry_release messages in the mailbox
  drain_waiters,
  drain_monitors,
  release_tombstones,       \* classification of {token, holder}, or "none"
  release_tombstone_order,
  executor,                 \* the release executor: "up", "down" or "exited"
  executor_inbox,           \* :video_interop_execute_release messages
  executor_outbox,          \* results and the final DOWN, in signal order
  released,                 \* tokens whose callback returned their buffer
  replies,                  \* what was sent to each request's alias
  seen                      \* references whose introducing message was handled

processVars  == <<owner, producer, mode>>
pendingVars  == <<pending_issue, pending_issues, pending_retains,
                  issue_monitors, retain_monitors>>
holderVars   == <<holders, active_holders>>
jobVars      == <<status, release_attempts, release_queue, release_job,
                  executor_inbox>>
timerVars    == <<retry_timers, timers>>
drainVars    == <<drain_waiters, drain_monitors>>
tombVars     == <<release_tombstones, release_tombstone_order>>
executorVars == <<executor, executor_outbox, released>>

vars == <<processVars, issue_reservations, pendingVars, holderVars, jobVars,
          timerVars, fired, drainVars, tombVars, executorVars, replies, seen>>

EntryStatus == {"active", "release_queued", "releasing", "release_failed"}

\* The keys of state.leases.
Leases == {t \in Tokens : status[t] \in EntryStatus}

\* A queued or running release job; `waiter' is the retry or rejected-issue
\* call that is answered when the job ends.
Jobs == [token : Tokens, generation : Nat, waiter : Requests \cup {None}]

NoJob == [token |-> None, generation |-> 0, waiter |-> None]

ExecutorMessages ==
  [token : Tokens \cup {None}, generation : Nat, result : {"ok", "error", "down"}]

Answers ==
  {"reserved", "caller_owned", "issued", "transferred", "retained",
   "retain_error", "drained", "release_failed", "ok", "error"}

TypeOK ==
  /\ owner \in {"up", "stopped", "corrupt", "killed"}
  /\ producer \in BOOLEAN
  /\ mode \in {"open", "draining"}
  /\ issue_reservations \subseteq Tokens
  /\ status \in [Tokens -> EntryStatus \cup {"unissued", "retired"}]
  /\ holders \in [Tokens -> SUBSET Holders]
  /\ pending_issue \subseteq Tokens
  /\ pending_issues \subseteq Tokens
  /\ pending_retains \in [Tokens -> SUBSET Children]
  /\ issue_monitors \in [Tokens -> {"none", "reservation", "issue"}]
  /\ retain_monitors \in [Children -> Tokens \cup {None}]
  /\ active_holders \in Nat
  /\ release_attempts \in [Tokens -> Nat]
  /\ release_queue \in Seq(Jobs)
  /\ release_job \in Jobs \cup {NoJob}
  /\ retry_timers \in [Tokens -> Nat]
  /\ timers \subseteq Tokens \X Nat
  /\ fired \subseteq Tokens \X Nat
  /\ drain_waiters \subseteq Callers
  /\ drain_monitors \subseteq Callers
  /\ release_tombstones \in [HolderIds -> {"none", "abandoned", "explicit"}]
  /\ release_tombstone_order \in Seq(HolderIds)
  /\ executor \in {"up", "down", "exited"}
  /\ executor_inbox \in Seq([token : Tokens, generation : Nat])
  /\ executor_outbox \in Seq(ExecutorMessages)
  /\ released \subseteq Tokens
  /\ replies \in [Requests -> Seq(Answers)]
  /\ seen \subseteq Requests

Init ==
  /\ owner = "up" /\ producer = TRUE /\ mode = "open"
  /\ issue_reservations = {}
  /\ status = [t \in Tokens |-> "unissued"]
  /\ holders = [t \in Tokens |-> {}]
  /\ pending_issue = {} /\ pending_issues = {}
  /\ pending_retains = [t \in Tokens |-> {}]
  /\ issue_monitors = [t \in Tokens |-> "none"]
  /\ retain_monitors = [h \in Children |-> None]
  /\ active_holders = 0
  /\ release_attempts = [t \in Tokens |-> 0]
  /\ release_queue = <<>> /\ release_job = NoJob
  /\ retry_timers = [t \in Tokens |-> 0] /\ timers = {} /\ fired = {}
  /\ drain_waiters = {} /\ drain_monitors = {}
  /\ release_tombstones = [id \in HolderIds |-> "none"]
  /\ release_tombstone_order = <<>>
  /\ executor = "up" /\ executor_inbox = <<>> /\ executor_outbox = <<>>
  /\ released = {}
  /\ replies = [r \in Requests |-> <<>>]
  /\ seen = {}

-----------------------------------------------------------------------------
(* Replies and monitors.                                                   *)

\* reply_via_alias: what the requests of S are sent.
Reply(S, answer) ==
  replies' = [r \in Requests |->
                IF r \in S THEN Append(replies[r], answer) ELSE replies[r]]

\* Process.demonitor with :flush, and the monitor's entry removed.
DemonitorRetains(H) ==
  retain_monitors' = [h \in Children |->
                        IF h \in H THEN None ELSE retain_monitors[h]]

DemonitorIssues(T) ==
  issue_monitors' = [t \in Tokens |->
                       IF t \in T THEN "none" ELSE issue_monitors[t]]

\* Mutant: the monitor is left behind.
ClearPendingRetainUnmonitored(t, h) ==
  /\ pending_retains' = [pending_retains EXCEPT ![t] = @ \ {h}]
  /\ UNCHANGED <<pending_issue, pending_issues, issue_monitors, retain_monitors>>

\* clear_pending_retain, on an entry that is kept.
ClearPendingRetain(t, h) ==
  /\ pending_retains' = [pending_retains EXCEPT ![t] = @ \ {h}]
  /\ DemonitorRetains({h} \cap pending_retains[t])
  /\ UNCHANGED <<pending_issue, pending_issues, issue_monitors>>

-----------------------------------------------------------------------------
(* Draining.                                                               *)

\* Mutant: off by one.
CapacityAvailableAtLimit ==
  Cardinality(Leases) + Cardinality(issue_reservations) <= MaxActive

CapacityAvailable ==
  Cardinality(Leases) + Cardinality(issue_reservations) < MaxActive

\* Mutant: only the executor's work is waited for.
DrainedIdle == release_job = NoJob /\ release_queue = <<>>

Drained ==
  /\ Leases = {} /\ issue_reservations = {}
  /\ release_job = NoJob /\ release_queue = <<>>

\* Entries whose final release failed (first_release_failure).
ReleaseFailures == {t \in Leases : holders[t] = {} /\ status[t] = "release_failed"}

\* complete_drain and {:stop, :normal}; replied' is set by the caller.
CompleteDrain ==
  /\ owner' = "stopped"
  /\ drain_waiters' = {} /\ drain_monitors' = drain_monitors \ drain_waiters

\* Mutant: completion is not evaluated.
ContinueAlways == UNCHANGED <<owner, drainVars, replies>>

\* stop_or_continue_after_release, after a step that sends no other reply.
StopOrContinue ==
  \/ /\ mode' = "draining" /\ Drained'
     /\ CompleteDrain
     /\ Reply(drain_waiters, "drained")
  \/ /\ ~(mode' = "draining" /\ Drained')
     /\ UNCHANGED <<owner, drainVars, replies>>

-----------------------------------------------------------------------------
(* The release queue.                                                      *)

\* Mutant: the next job starts while another is in flight.
DispatchAlways(st, q, j, inbox) ==
  /\ q # <<>>
  /\ release_job' = Head(q)
  /\ release_queue' = Tail(q)
  /\ status' = [st EXCEPT ![Head(q).token] = "releasing"]
  /\ executor_inbox' = Append(inbox,
       [token |-> Head(q).token, generation |-> Head(q).generation])

\* dispatch_next_release, on the entries st, the queue q and the job j that
\* the handler has computed so far; inbox is that of the current executor.
DispatchNextRelease(st, q, j, inbox) ==
  IF j = NoJob /\ q # <<>>
  THEN /\ release_job' = Head(q)
       /\ release_queue' = Tail(q)
       /\ status' = [st EXCEPT ![Head(q).token] = "releasing"]
       /\ executor_inbox' = Append(inbox,
            [token |-> Head(q).token, generation |-> Head(q).generation])
  ELSE /\ release_job' = j
       /\ release_queue' = q
       /\ status' = st
       /\ executor_inbox' = inbox

\* Mutant: the runtime timer keeps running.
ForgetRetryTimer(t) ==
  retry_timers' = [retry_timers EXCEPT ![t] = 0] /\ UNCHANGED timers

\* cancel_retry_timer: a timer that has fired already stays in the mailbox.
CancelRetryTimer(t) ==
  /\ retry_timers' = [retry_timers EXCEPT ![t] = 0]
  /\ timers' = timers \ {<<t, retry_timers[t]>>}

\* release_entry.  `dropped' holds t when its reservation monitor was removed
\* earlier in the same handler.
ReleaseEntry(t, waiter, dropped) ==
  /\ pending_issue' = pending_issue \ {t}
  /\ pending_issues' = pending_issues \ (pending_issue \cap {t})
  /\ DemonitorIssues(dropped \cup (pending_issue \cap {t}))
  /\ pending_retains' = [pending_retains EXCEPT ![t] = {}]
  /\ DemonitorRetains(pending_retains[t])
  /\ CancelRetryTimer(t)
  /\ release_attempts' = [release_attempts EXCEPT ![t] = @ + 1]
  /\ DispatchNextRelease([status EXCEPT ![t] = "release_queued"],
       Append(release_queue, [token |-> t, generation |-> release_attempts[t] + 1,
                              waiter |-> waiter]),
       release_job, executor_inbox)

\* clear_pending_retain and remove_holder: the last holder of an entry releases
\* it; for an unknown holder the entry is not written back.
RemoveHolder(t, h) ==
  \/ /\ h \in holders[t]
     /\ holders' = [holders EXCEPT ![t] = @ \ {h}]
     /\ active_holders' = IF active_holders > 0 THEN active_holders - 1 ELSE 0
     /\ \/ /\ holders[t] = {h}
           /\ ReleaseEntry(t, None, {})
           /\ UNCHANGED <<producer, mode, issue_reservations>>
           /\ StopOrContinue
        \/ /\ holders[t] # {h}
           /\ ClearPendingRetain(t, h)
           /\ UNCHANGED <<processVars, issue_reservations, jobVars, timerVars,
                          drainVars, replies>>
  \/ /\ h \notin holders[t]
     /\ DemonitorRetains({h} \cap pending_retains[t])
     /\ UNCHANGED <<processVars, issue_reservations, pending_issue, pending_issues,
                    pending_retains, issue_monitors, holderVars, jobVars,
                    timerVars, drainVars, replies>>

\* Mutant: the limit is tested before the insertion.
PutReleaseTombstoneLate(id, class) ==
  LET recorded == {i \in HolderIds : release_tombstones[i] # "none"}
  IN /\ Cardinality(recorded) <= TombstoneLimit
     /\ release_tombstones' = [release_tombstones EXCEPT ![id] = class]
     /\ release_tombstone_order' = IF id \in recorded THEN release_tombstone_order
                                   ELSE Append(release_tombstone_order, id)

\* put_release_tombstone and evict_release_tombstones.
PutReleaseTombstone(id, class) ==
  LET order    == Append(release_tombstone_order, id)
      recorded == {i \in HolderIds : release_tombstones[i] # "none"}
  IN IF id \in recorded
     THEN /\ release_tombstones' = [release_tombstones EXCEPT ![id] = class]
          /\ UNCHANGED release_tombstone_order
     ELSE IF Cardinality(recorded \cup {id}) <= TombstoneLimit
     THEN /\ release_tombstones' = [release_tombstones EXCEPT ![id] = class]
          /\ release_tombstone_order' = order
     ELSE /\ release_tombstones' =
               [release_tombstones EXCEPT ![id] = class, ![Head(order)] = "none"]
          /\ release_tombstone_order' = Tail(order)

-----------------------------------------------------------------------------
(* Issuing a lease.                                                        *)

\* {:video_interop_reserve_issue, ...}
ReserveIssue(t) ==
  /\ owner = "up" /\ t \notin seen
  /\ seen' = seen \cup {t}
  /\ \/ /\ mode = "draining" \/ ~CapacityAvailable
        /\ Reply({t}, "caller_owned")
        /\ UNCHANGED <<issue_reservations, issue_monitors>>
     \/ /\ mode = "open" /\ CapacityAvailable
        /\ issue_reservations' = issue_reservations \cup {t}
        /\ issue_monitors' = [issue_monitors EXCEPT ![t] = "reservation"]
        /\ Reply({t}, "reserved")
  /\ UNCHANGED <<processVars, pending_issue, pending_issues, pending_retains,
                 retain_monitors, holderVars, jobVars, timerVars, fired,
                 drainVars, tombVars, executorVars>>

\* {:video_interop_commit_issue, ...} with its reservation, and commit_issue
\* when the abandonment guard was created.
CommitIssue(t) ==
  /\ owner = "up" /\ t \in issue_reservations
  /\ issue_reservations' = issue_reservations \ {t}
  /\ status' = [status EXCEPT ![t] = "active"]
  /\ holders' = [holders EXCEPT ![t] = {t}]
  /\ pending_issue' = pending_issue \cup {t}
  /\ pending_issues' = pending_issues \cup {t}
  /\ issue_monitors' = [issue_monitors EXCEPT ![t] = "issue"]
  /\ active_holders' = active_holders + 1
  /\ Reply({t}, "issued")
  /\ UNCHANGED <<processVars, pending_retains, retain_monitors, release_attempts,
                 release_queue, release_job, executor_inbox, timerVars, fired,
                 drainVars, tombVars, executorVars, seen>>

\* The same message when the guard factory failed (reject_issue): the token
\* keeps an entry without holders, and its release is queued.
RejectIssue(t) ==
  /\ owner = "up" /\ t \in issue_reservations
  /\ issue_reservations' = issue_reservations \ {t}
  /\ ReleaseEntry(t, t, {t})
  /\ UNCHANGED <<processVars, holderVars, fired, drainVars, tombVars,
                 executorVars, replies, seen>>

\* A commit without its reservation stops the owner.
CommitUnknown(t) ==
  /\ owner = "up" /\ t \notin issue_reservations
  /\ owner' = "corrupt"
  /\ UNCHANGED <<producer, mode, issue_reservations, pendingVars, holderVars,
                 jobVars, timerVars, fired, drainVars, tombVars, executorVars,
                 replies, seen>>

\* remove_issue_reservation and stop_or_continue_after_release, for
\* {:video_interop_cancel_issue_reservation, _} and for the DOWN of a caller
\* whose monitor is tagged :reservation.
RemoveIssueReservation(t) ==
  /\ issue_reservations' = issue_reservations \ {t}
  /\ DemonitorIssues(issue_reservations \cap {t})
  /\ UNCHANGED <<producer, mode, pending_issue, pending_issues, pending_retains,
                 retain_monitors, holderVars, jobVars, timerVars, fired,
                 tombVars, executorVars, seen>>
  /\ StopOrContinue

CancelIssueReservation(t) == owner = "up" /\ RemoveIssueReservation(t)

\* Mutant: the confirmation is not recognised.
ConfirmIssueIgnored(t) == owner = "up" /\ UNCHANGED vars

\* {:video_interop_confirm_issue, ...}
ConfirmIssue(t) ==
  /\ owner = "up"
  /\ \/ /\ status[t] = "active" /\ t \in pending_issue
        /\ pending_issue' = pending_issue \ {t}
        /\ pending_issues' = pending_issues \ {t}
        /\ DemonitorIssues({t})
        /\ UNCHANGED <<processVars, issue_reservations, pending_retains,
                       retain_monitors, holderVars, jobVars, timerVars, fired,
                       drainVars, tombVars, executorVars, replies, seen>>
     \/ /\ ~(status[t] = "active" /\ t \in pending_issue)
        /\ UNCHANGED vars

\* Mutant: pending children are counted twice.
CancelPendingIssueTwice(t) ==
  /\ active_holders' = active_holders - Cardinality(holders[t])
                                      - Cardinality(pending_retains[t])
  /\ holders' = [holders EXCEPT ![t] = {}]
  /\ ReleaseEntry(t, None, {})
  /\ UNCHANGED <<producer, mode, issue_reservations, fired, tombVars,
                 executorVars, seen>>
  /\ StopOrContinue

\* cancel_pending_issue: the caller never received the lease.
CancelPendingIssue(t) ==
  /\ LET removed == Cardinality(holders[t])
     IN active_holders' = IF active_holders >= removed
                          THEN active_holders - removed ELSE 0
  /\ holders' = [holders EXCEPT ![t] = {}]
  /\ ReleaseEntry(t, None, {})
  /\ UNCHANGED <<producer, mode, issue_reservations, fired, tombVars,
                 executorVars, seen>>
  /\ StopOrContinue

IssuePending(t) == status[t] = "active" /\ t \in pending_issue

\* {:video_interop_cancel_issue, _}
CancelIssue(t) ==
  /\ owner = "up"
  /\ \/ t \in pending_issues /\ IssuePending(t) /\ CancelPendingIssue(t)
     \/ ~(t \in pending_issues /\ IssuePending(t)) /\ UNCHANGED vars

-----------------------------------------------------------------------------
(* Retaining, releasing and abandoning holders.                            *)

\* Mutants: any known lease may be retained; draining is not checked.
RetainAnyLease(t, parent, h) == mode = "open" /\ t \in Leases /\ h \notin holders[t]

RetainWhileDraining(t, parent, h) ==
  status[t] = "active" /\ parent \in holders[t] /\ h \notin holders[t]

RetainAllowed(t, parent, h) ==
  /\ mode = "open" /\ status[t] = "active"
  /\ parent \in holders[t] /\ h \notin holders[t]

\* Mutant: the refusal is not sent.
RefuseRetainSilently(h) ==
  /\ owner = "up" /\ h \notin seen
  /\ seen' = seen \cup {h}
  /\ UNCHANGED <<processVars, issue_reservations, pendingVars, holderVars, replies,
                 jobVars, timerVars, fired, drainVars, tombVars, executorVars>>

\* {:video_interop_retain, ...} and retain_holder, refused: draining, unknown
\* or inactive lease, unknown parent, duplicate child, or no guard.
RefuseRetain(h) ==
  /\ owner = "up" /\ h \notin seen
  /\ seen' = seen \cup {h}
  /\ Reply({h}, "retain_error")
  /\ UNCHANGED <<processVars, issue_reservations, pendingVars, holderVars,
                 jobVars, timerVars, fired, drainVars, tombVars, executorVars>>

Retain(t, parent, h) ==
  /\ owner = "up" /\ h \notin seen
  /\ RetainAllowed(t, parent, h)
  /\ seen' = seen \cup {h}
  /\ holders' = [holders EXCEPT ![t] = @ \cup {h}]
  /\ pending_retains' = [pending_retains EXCEPT ![t] = @ \cup {h}]
  /\ retain_monitors' = [retain_monitors EXCEPT ![h] = t]
  /\ active_holders' = active_holders + 1
  /\ Reply({h}, "retained")
  /\ UNCHANGED <<processVars, issue_reservations, pending_issue, pending_issues,
                 issue_monitors, jobVars, timerVars, fired, drainVars, tombVars,
                 executorVars>>

\* {:video_interop_confirm_retain, ...}
ConfirmRetain(t, h) ==
  /\ owner = "up"
  /\ \/ /\ status[t] = "active" /\ h \in pending_retains[t]
        /\ ClearPendingRetain(t, h)
        /\ UNCHANGED <<processVars, issue_reservations, holderVars, jobVars,
                       timerVars, fired, drainVars, tombVars, executorVars,
                       replies, seen>>
     \/ /\ ~(status[t] = "active" /\ h \in pending_retains[t])
        /\ UNCHANGED vars

\* {:video_interop_cancel_retain, ...}
CancelRetain(t, h) ==
  /\ owner = "up"
  /\ \/ status[t] = "active" /\ h # t /\ RemoveHolder(t, h)
     \/ /\ ~(status[t] = "active" /\ h # t)
        /\ UNCHANGED <<processVars, issue_reservations, pendingVars, holderVars,
                       jobVars, timerVars, drainVars, replies>>
  /\ UNCHANGED <<fired, tombVars, executorVars, seen>>

Holds(t, h) == status[t] = "active" /\ h \in holders[t]

\* {:video_interop_release, token, holder}
Release(t, h) ==
  /\ owner = "up"
  /\ \/ /\ release_tombstones[<<t, h>>] = "abandoned"
        /\ release_tombstones' = [release_tombstones EXCEPT ![<<t, h>>] = "explicit"]
        /\ UNCHANGED <<processVars, issue_reservations, pendingVars, holderVars,
                       jobVars, timerVars, drainVars, release_tombstone_order,
                       replies>>
     \/ /\ release_tombstones[<<t, h>>] = "none"
        /\ Holds(t, h)
        /\ PutReleaseTombstone(<<t, h>>, "explicit")
        /\ RemoveHolder(t, h)
     \/ /\ release_tombstones[<<t, h>>] # "abandoned"
        /\ release_tombstones[<<t, h>>] = "explicit" \/ ~Holds(t, h)
        /\ UNCHANGED <<processVars, issue_reservations, pendingVars, holderVars,
                       jobVars, timerVars, drainVars, tombVars, replies>>
  /\ UNCHANGED <<fired, executorVars, seen>>

\* Mutant: the abandonment is recorded and the holder kept.
AbandonedNoted(t, h) ==
  /\ owner = "up"
  /\ IF Holds(t, h) THEN PutReleaseTombstone(<<t, h>>, "abandoned")
     ELSE UNCHANGED tombVars
  /\ UNCHANGED <<processVars, issue_reservations, pendingVars, holderVars, jobVars,
                 timerVars, drainVars, replies, fired, executorVars, seen>>

\* {:video_interop_abandoned, token, holder}, sent by a guard's destructor.
Abandoned(t, h) ==
  /\ owner = "up"
  /\ \/ /\ Holds(t, h)
        /\ PutReleaseTombstone(<<t, h>>, "abandoned")
        /\ RemoveHolder(t, h)
     \/ /\ ~Holds(t, h)
        /\ UNCHANGED <<processVars, issue_reservations, pendingVars, holderVars,
                       jobVars, timerVars, drainVars, tombVars, replies>>
  /\ UNCHANGED <<fired, executorVars, seen>>

\* handle_protocol_down: the DOWN of a caller that died during its handshake.
IssueCallerDown(t) ==
  /\ owner = "up"
  /\ \/ issue_monitors[t] = "reservation" /\ RemoveIssueReservation(t)
     \/ /\ issue_monitors[t] = "issue"
        /\ IF IssuePending(t)
           THEN CancelPendingIssue(t)
           ELSE /\ DemonitorIssues({t})
                /\ UNCHANGED <<processVars, issue_reservations, pending_issue,
                               pending_issues, pending_retains, retain_monitors,
                               holderVars, jobVars, timerVars, fired, drainVars,
                               tombVars, executorVars, replies, seen>>

RetainCallerDown(h) ==
  /\ owner = "up" /\ retain_monitors[h] # None
  /\ LET t == retain_monitors[h]
     IN IF status[t] = "active"
        THEN RemoveHolder(t, h)
        ELSE /\ DemonitorRetains({h})
             /\ UNCHANGED <<processVars, issue_reservations, pending_issue,
                            pending_issues, pending_retains, issue_monitors,
                            holderVars, jobVars, timerVars, drainVars, replies>>
  /\ UNCHANGED <<fired, tombVars, executorVars, seen>>

-----------------------------------------------------------------------------
(* Closing and draining.                                                   *)

\* handle_call(:close), and begin_producer_drain with producer' = FALSE.
BeginDrain ==
  /\ mode' = "draining"
  /\ UNCHANGED <<issue_reservations, pendingVars, holderVars, jobVars, timerVars,
                 fired, tombVars, executorVars, seen>>
  /\ StopOrContinue

Close == owner = "up" /\ UNCHANGED producer /\ BeginDrain

ProducerDown == owner = "up" /\ producer /\ producer' = FALSE /\ BeginDrain

\* {:video_interop_drain, ...}: the waiter is registered before completion is
\* evaluated.
Drain(c) ==
  /\ owner = "up" /\ c \notin seen
  /\ seen' = seen \cup {c}
  /\ mode' = "draining"
  /\ \/ /\ ReleaseFailures # {}
        /\ Reply({c}, "release_failed")
        /\ UNCHANGED <<owner, drainVars>>
     \/ /\ ReleaseFailures = {}
        /\ Leases = {} /\ issue_reservations = {}
        /\ owner' = "stopped"
        /\ drain_waiters' = {} /\ drain_monitors' = drain_monitors \ drain_waiters
        /\ Reply(drain_waiters \cup {c}, "drained")
     \/ /\ ReleaseFailures = {}
        /\ Leases # {} \/ issue_reservations # {}
        /\ drain_waiters' = drain_waiters \cup {c}
        /\ drain_monitors' = drain_monitors \cup {c}
        /\ UNCHANGED <<owner, replies>>
  /\ UNCHANGED <<producer, issue_reservations, pendingVars, holderVars, jobVars,
                 timerVars, fired, tombVars, executorVars>>

\* {:video_interop_cancel_drain, _}, or the DOWN of a drain waiter.
RemoveDrainWaiter(c) ==
  /\ owner = "up"
  /\ drain_waiters' = drain_waiters \ {c}
  /\ drain_monitors' = drain_monitors \ {c}
  /\ UNCHANGED <<processVars, issue_reservations, pendingVars, holderVars,
                 jobVars, timerVars, fired, tombVars, executorVars, replies, seen>>

-----------------------------------------------------------------------------
(* Release results, retries and the executor.                              *)

\* Mutant: the last attempt is never scheduled.
ScheduleRetryEarly(t) ==
  IF Exponential /\ release_attempts[t] + 1 < MaxAttempts
  THEN /\ retry_timers' = [retry_timers EXCEPT ![t] = release_attempts[t]]
       /\ timers' = timers \cup {<<t, release_attempts[t]>>}
  ELSE UNCHANGED timerVars

\* schedule_retry, for an entry whose attempt has just failed.
ScheduleRetry(t) ==
  IF Exponential /\ release_attempts[t] < MaxAttempts
  THEN /\ retry_timers' = [retry_timers EXCEPT ![t] = release_attempts[t]]
       /\ timers' = timers \cup {<<t, release_attempts[t]>>}
  ELSE UNCHANGED timerVars

\* finish_release_job for the job in flight: the callback succeeded.  The
\* waiter is a rejected issue call or a retry call (reply_release_waiter).
FinishReleased(job) ==
  /\ DispatchNextRelease([status EXCEPT ![job.token] = "retired"],
                         release_queue, NoJob, executor_inbox)
  /\ UNCHANGED <<producer, mode, issue_reservations, pendingVars, holderVars,
                 release_attempts, timerVars, fired, tombVars, released, seen>>
  /\ LET stops    == mode = "draining" /\ Drained'
         waiters  == IF stops THEN drain_waiters ELSE {}
     IN /\ replies' = [r \in Requests |->
             IF r = job.waiter
             THEN Append(replies[r], IF r \in Tokens THEN "transferred" ELSE "ok")
             ELSE IF r \in waiters THEN Append(replies[r], "drained")
             ELSE replies[r]]
        /\ \/ stops /\ CompleteDrain
           \/ ~stops /\ UNCHANGED <<owner, drainVars>>

\* ... and the callback failed, or its executor died.  Every drain waiter is
\* answered with the failure.
FinishFailed(job, inbox) ==
  /\ DispatchNextRelease([status EXCEPT ![job.token] = "release_failed"],
                         release_queue, NoJob, inbox)
  /\ ScheduleRetry(job.token)
  /\ replies' = [r \in Requests |->
       IF r = job.waiter
       THEN Append(replies[r], IF r \in Tokens THEN "transferred" ELSE "error")
       ELSE IF r \in drain_waiters THEN Append(replies[r], "release_failed")
       ELSE replies[r]]
  /\ drain_waiters' = {} /\ drain_monitors' = drain_monitors \ drain_waiters
  /\ UNCHANGED <<processVars, issue_reservations, pendingVars, holderVars,
                 release_attempts, fired, tombVars, released, seen>>

\* The job in flight is the one the message is about.
CurrentJob(t, g) ==
  /\ release_job # NoJob
  /\ release_job.token = t /\ release_job.generation = g
  /\ status[t] = "releasing" /\ release_attempts[t] = g

\* {:video_interop_release_result, ...}
ReleaseResult ==
  /\ owner = "up" /\ executor_outbox # <<>>
  /\ LET m == Head(executor_outbox)
     IN /\ m.result # "down"
        /\ executor_outbox' = Tail(executor_outbox)
        /\ UNCHANGED executor
        /\ IF ~CurrentJob(m.token, m.generation)
           THEN UNCHANGED <<processVars, issue_reservations, pendingVars,
                            holderVars, jobVars, timerVars, fired, drainVars,
                            tombVars, released, replies, seen>>
           ELSE \/ m.result = "ok" /\ FinishReleased(release_job)
                \/ m.result = "error" /\ FinishFailed(release_job, executor_inbox)

\* Mutant: the job in flight is not failed.
ExecutorDownForgetful ==
  /\ owner = "up" /\ executor_outbox # <<>>
  /\ Head(executor_outbox).result = "down"
  /\ executor_outbox' = Tail(executor_outbox)
  /\ executor' = "up"
  /\ DispatchNextRelease(status, release_queue, release_job, <<>>)
  /\ UNCHANGED <<processVars, issue_reservations, pendingVars, holderVars,
                 release_attempts, timerVars, fired, drainVars, tombVars,
                 released, replies, seen>>

\* The DOWN of the executor: a new one is started, with an empty inbox, and the
\* job in flight, if any, has failed.
ExecutorDown ==
  /\ owner = "up" /\ executor_outbox # <<>>
  /\ Head(executor_outbox).result = "down"
  /\ executor_outbox' = Tail(executor_outbox)
  /\ executor' = "up"
  /\ \/ /\ release_job = NoJob
        /\ DispatchNextRelease(status, release_queue, NoJob, <<>>)
        /\ UNCHANGED <<processVars, issue_reservations, pendingVars, holderVars,
                       release_attempts, timerVars, fired, drainVars, tombVars,
                       released, replies, seen>>
     \/ release_job # NoJob /\ FinishFailed(release_job, <<>>)

\* A runtime timer delivers its message.
TimerFires(t, g) ==
  /\ <<t, g>> \in timers
  /\ timers' = timers \ {<<t, g>>}
  /\ fired' = fired \cup {<<t, g>>}
  /\ UNCHANGED <<processVars, issue_reservations, pendingVars, holderVars,
                 jobVars, retry_timers, drainVars, tombVars, executorVars,
                 replies, seen>>

\* {:video_interop_retry_release, token, generation}: a message whose
\* generation is not the armed one is stale.
RetryTimer(t, g) ==
  /\ owner = "up" /\ <<t, g>> \in fired
  /\ fired' = fired \ {<<t, g>>}
  /\ IF retry_timers[t] = g /\ status[t] = "release_failed"
     THEN ReleaseEntry(t, None, {})
     ELSE /\ retry_timers' = [retry_timers EXCEPT ![t] = IF @ = g THEN 0 ELSE @]
          /\ UNCHANGED <<pendingVars, jobVars, timers>>
  /\ UNCHANGED <<processVars, issue_reservations, holderVars, drainVars,
                 tombVars, executorVars, replies, seen>>

\* handle_call({:retry, token})
Retry(c, t) ==
  /\ owner = "up" /\ c \notin seen
  /\ seen' = seen \cup {c}
  /\ \/ /\ status[t] = "release_failed" /\ release_attempts[t] < ManualBound
        /\ ReleaseEntry(t, c, {})
        /\ UNCHANGED replies
     \/ /\ status[t] # "release_failed"
        /\ CancelRetryTimer(t)
        /\ Reply({c}, "error")
        /\ UNCHANGED <<pendingVars, jobVars>>
  /\ UNCHANGED <<processVars, issue_reservations, holderVars, fired, drainVars,
                 tombVars, executorVars>>

\* release_executor_loop: one callback, run to its end by invoke_release.  A
\* callback that fails may have returned the buffer all the same.
ExecuteRelease(ok) ==
  /\ executor = "up" /\ executor_inbox # <<>>
  /\ LET m == Head(executor_inbox)
     IN /\ executor_outbox' = Append(executor_outbox,
             [token |-> m.token, generation |-> m.generation,
              result |-> IF ok THEN "ok" ELSE "error"])
        /\ \/ released' = released \cup {m.token}
           \/ ~ok /\ UNCHANGED released
  /\ executor_inbox' = Tail(executor_inbox)
  /\ UNCHANGED <<processVars, issue_reservations, pendingVars, holderVars,
                 status, release_attempts, release_queue, release_job, timerVars,
                 fired, drainVars, tombVars, executor, replies, seen>>

\* The executor dies, between callbacks or inside one.
ExecutorCrash ==
  /\ owner = "up" /\ executor = "up"
  /\ executor' = "down"
  /\ executor_outbox' = Append(executor_outbox,
       [token |-> None, generation |-> 0, result |-> "down"])
  /\ \/ UNCHANGED released
     \/ /\ executor_inbox # <<>>
        /\ released' = released \cup {Head(executor_inbox).token}
  /\ UNCHANGED <<processVars, issue_reservations, pendingVars, holderVars,
                 jobVars, timerVars, fired, drainVars, tombVars, replies, seen>>

\* The executor leaves its loop: told to stop, or its owner is down.
ExecutorExit ==
  /\ owner # "up" /\ executor = "up" /\ executor_inbox = <<>>
  /\ executor' = "exited"
  /\ UNCHANGED <<processVars, issue_reservations, pendingVars, holderVars,
                 jobVars, timerVars, fired, drainVars, tombVars,
                 executor_outbox, released, replies, seen>>

\* The owner process is killed.
OwnerKilled ==
  /\ owner = "up"
  /\ owner' = "killed"
  /\ UNCHANGED <<producer, mode, issue_reservations, pendingVars, holderVars,
                 jobVars, timerVars, fired, drainVars, tombVars, executorVars,
                 replies, seen>>

-----------------------------------------------------------------------------
OwnerStep ==
  \/ \E t \in Tokens :
        \/ ReserveIssue(t) \/ CommitIssue(t) \/ RejectIssue(t) \/ CommitUnknown(t)
        \/ CancelIssueReservation(t) \/ ConfirmIssue(t) \/ CancelIssue(t)
        \/ IssueCallerDown(t)
  \/ \E h \in Children : RefuseRetain(h) \/ RetainCallerDown(h)
  \/ \E t \in Tokens, p \in Holders, h \in Children : Retain(t, p, h)
  \/ \E t \in Tokens, h \in Children : ConfirmRetain(t, h) \/ CancelRetain(t, h)
  \/ \E t \in Tokens, h \in Holders : Release(t, h) \/ Abandoned(t, h)
  \/ Close \/ ProducerDown
  \/ \E c \in Callers : Drain(c) \/ RemoveDrainWaiter(c)
  \/ \E c \in Callers, t \in Tokens : Retry(c, t)
  \/ ReleaseResult \/ ExecutorDown
  \/ \E m \in fired : RetryTimer(m[1], m[2])

RuntimeStep ==
  \/ \E m \in timers : TimerFires(m[1], m[2])
  \/ \E ok \in BOOLEAN : ExecuteRelease(ok)
  \/ ExecutorCrash \/ ExecutorExit \/ OwnerKilled

Next == OwnerStep \/ RuntimeStep

Spec == Init /\ [][Next]_vars

(***************************************************************************)
(* The executor and the owner's mailbox are BEAM processes: an enabled     *)
(* receive is eventually taken, a callback returns or its process dies,    *)
(* and an armed timer expires.  Nothing is assumed of clients.             *)
(***************************************************************************)
Fairness ==
  /\ WF_vars(\E ok \in BOOLEAN : ExecuteRelease(ok))
  /\ WF_vars(ReleaseResult)
  /\ WF_vars(ExecutorDown)
  /\ WF_vars(\E m \in timers : TimerFires(m[1], m[2]))
  /\ \A t \in Tokens, g \in 1..MaxAttempts : WF_vars(RetryTimer(t, g))

FairSpec == Spec /\ Fairness

-----------------------------------------------------------------------------
(* Safety.                                                                 *)

\* Entries and reservations together never exceed max_active, whatever mix of
\* reserve, commit, reject, cancel and caller death led here: a commit turns
\* its own reservation into an entry, and an entry whose release failed keeps
\* its place (capacity_available?, commit_issue, reject_issue).
CapacityBound == Cardinality(Leases) + Cardinality(issue_reservations) <= MaxActive

\* The published active_holders equals the number of holders in all entries,
\* so none of the max(_, 0) clamps ever hides a miscount; an active entry has
\* a holder and an entry in any other status has none (remove_holder,
\* cancel_pending_issue, retain_holder).
HolderAccounting ==
  /\ active_holders = Cardinality({id \in HolderIds : id[2] \in holders[id[1]]})
  /\ \A t \in Tokens : status[t] = "active" <=> holders[t] # {}

\* Once a callback may have returned a token's buffer to the producer, no
\* holder of the lease is left and none can appear; and an entry is deleted
\* only after its callback did so (release_entry, finish_release_job).
NoUseAfterRelease ==
  \A t \in Tokens :
    /\ t \in released => holders[t] = {} /\ status[t] # "active"
    /\ status[t] = "retired" => t \in released

QueuedTokens == {release_queue[i].token : i \in 1..Len(release_queue)}

\* Callbacks are single-flight and in order: a queued entry has exactly one
\* job in the queue, a releasing entry is the one job in flight, both carry
\* the entry's current generation, and nothing is queued while the executor
\* is idle (release_entry, dispatch_next_release, finish_release_job).
SingleFlight ==
  /\ QueuedTokens = {t \in Tokens : status[t] = "release_queued"}
  /\ \A i, j \in 1..Len(release_queue) :
       release_queue[i].token = release_queue[j].token => i = j
  /\ \A i \in 1..Len(release_queue) :
       release_queue[i].generation = release_attempts[release_queue[i].token]
  /\ {t \in Tokens : status[t] = "releasing"} = {release_job.token} \ {None}
  /\ release_job # NoJob => release_job.generation = release_attempts[release_job.token]
  /\ release_job = NoJob => release_queue = <<>>

\* No release is forgotten.  The job in flight is in the executor's inbox, or its
\* result is on the way, or the executor's DOWN is, and the executor works on
\* nothing else.  "There is at most one timer/invocation per failed public
\* token": a timer exists only while its release stands failed, it is of that
\* failure, and its message is armed or in the mailbox; every other timer
\* message is stale (release_executor_loop, handle_release_executor_down,
\* schedule_retry, cancel_retry_timer).
WorkTracked ==
  /\ owner = "up" =>
       LET flying == [token |-> release_job.token, generation |-> release_job.generation]
           results == {i \in 1..Len(executor_outbox) : executor_outbox[i].result # "down"}
       IN /\ Len(executor_inbox) + Cardinality(results) <= 1
          /\ executor_inbox # <<>> => Head(executor_inbox) = flying
          /\ \A i \in results : /\ i = 1
                                /\ executor_outbox[i].token = flying.token
                                /\ executor_outbox[i].generation = flying.generation
          /\ release_job # NoJob => executor_inbox # <<>> \/ executor_outbox # <<>>
          /\ executor = "down" <=>
               executor_outbox # <<>> /\ executor_outbox[Len(executor_outbox)].result = "down"
  /\ \A t \in Tokens :
       /\ retry_timers[t] # 0 =>
            /\ status[t] = "release_failed"
            /\ retry_timers[t] = release_attempts[t]
            /\ <<t, retry_timers[t]>> \in timers \cup fired
       /\ Cardinality({m \in timers : m[1] = t}) <= 1
       /\ \A m \in timers : m[1] = t => m[2] = retry_timers[t]

\* Each monitor the owner keeps guards exactly one open handshake, and each
\* open handshake is guarded: no monitor outlives its reservation, pending
\* issue or pending retain, and a pending child is a holder of its lease
\* (protocol_monitors, clear_pending_issue, clear_all_pending_retains).
HandshakesMonitored ==
  /\ issue_reservations = {t \in Tokens : issue_monitors[t] = "reservation"}
  /\ pending_issue = {t \in Tokens : issue_monitors[t] = "issue"}
  /\ pending_issues = pending_issue
  /\ \A t \in Tokens :
       /\ pending_retains[t] = {h \in Children : retain_monitors[h] = t}
       /\ pending_retains[t] \subseteq holders[t]
       /\ t \in pending_issue => status[t] = "active"

\* A tombstone makes the owner ignore a release, so it may exist only for a
\* holder that is already gone; and the map and its eviction order describe
\* the same holders, within the limit (put_release_tombstone,
\* evict_release_tombstones, the release and abandoned handlers).
TombstonesSound ==
  LET recorded == {id \in HolderIds : release_tombstones[id] # "none"}
      ordered  == {release_tombstone_order[i] : i \in 1..Len(release_tombstone_order)}
  IN /\ \A id \in recorded : id[2] \notin holders[id[1]]
     /\ ordered = recorded
     /\ Cardinality(recorded) = Len(release_tombstone_order)
     /\ Len(release_tombstone_order) <= TombstoneLimit

\* Draining ends as promised.  A waiter never waits behind a failed release or on
\* an owner that has nothing left to release; and "owner shutdown waits for no
\* reservations, holders, releasing entries, failed entries, or executor work":
\* an owner that stopped normally left nothing behind and answered every waiter
\* (drain handler, finish_release_job, stop_or_continue_after_release, drained?,
\* complete_drain).
DrainSettled ==
  /\ drain_monitors = drain_waiters
  /\ drain_waiters # {} =>
       /\ mode = "draining" /\ ReleaseFailures = {}
       /\ Leases # {} \/ issue_reservations # {}
  /\ owner = "stopped" =>
       /\ mode = "draining" /\ Drained
       /\ active_holders = 0 /\ drain_waiters = {}
       /\ executor_inbox = <<>>
       /\ \A t \in Tokens : retry_timers[t] = 0 /\ issue_monitors[t] = "none"

-----------------------------------------------------------------------------
(* The contract.                                                           *)

Phase(st) ==
  CASE st = "unissued" -> "outside"
    [] st = "active"   -> "live"
    [] st = "retired"  -> "gone"
    [] OTHER           -> "retiring"

Contract == INSTANCE LeaseContract WITH
  process  <- IF owner \in {"corrupt", "killed"} THEN "crashed" ELSE owner,
  closed   <- mode = "draining",
  promised <- issue_reservations,
  phase    <- [t \in Tokens |-> Phase(status[t])],
  held     <- holders,
  freed    <- released

\* Every handler, whole, is one step of the contract or changes nothing the
\* contract sees: no token is revived, no holder is added to a lease that is
\* not live or to a closed owner, no buffer goes back while a holder is left,
\* and the owner stops in the very step that leaves it closed and empty.
ImplementsContract == Contract!Spec

-----------------------------------------------------------------------------
(* Liveness.                                                               *)

\* A release that was queued ends: retired, or failed with the failure on
\* record (dispatch_next_release, handle_release_executor_down).
ReleasesEnd ==
  \A t \in Tokens :
    status[t] \in {"release_queued", "releasing"} ~>
      status[t] \in {"retired", "release_failed"} \/ owner # "up"

\* A drain waiter is answered once every lease has lost its holders and no
\* reservation is open (drain handler, reply_all_drain_waiters).
DrainsEnd ==
  \A c \in Callers :
    (c \in drain_waiters /\ active_holders = 0 /\ issue_reservations = {}) ~>
      (c \notin drain_waiters \/ owner # "up")

\* Under the exponential policy a failed release is retried until it succeeds
\* or its attempts are used up (schedule_retry, the retry_release handler).
FailuresRetried ==
  \A t \in Tokens :
    Exponential /\ status[t] = "release_failed" /\ release_attempts[t] < MaxAttempts ~>
      \/ status[t] = "retired" \/ release_attempts[t] >= MaxAttempts
      \/ owner # "up"
=============================================================================
