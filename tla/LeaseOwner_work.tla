-------------------------- MODULE LeaseOwner_work ---------------------------
(***************************************************************************)
(* The bookkeeping of the lease owner: every open handshake is monitored,  *)
(* a tombstone stands for a lease that is really gone, no release is       *)
(* forgotten between the queue, the job, the executor and the timers, and  *)
(* an owner that stops has told every waiter and left nothing behind.      *)
(***************************************************************************)
EXTENDS LeaseOwner_proofs

-----------------------------------------------------------------------------
(* Every open handshake is monitored, and nothing else is.                 *)

\* HandshakesMonitored, one reference at a time; and only a call that was
\* handled is monitored, so a fresh one finds no monitor under its reference.
Monitored ==
  /\ \A t \in Tokens :
       /\ t \in issue_reservations <=> issue_monitors[t] = "reservation"
       /\ t \in pending_issue <=> issue_monitors[t] = "issue"
       /\ t \in pending_issues <=> t \in pending_issue
       /\ t \in pending_issue => status[t] = "active"
  /\ \A t \in Tokens, h \in Children :
       /\ h \in pending_retains[t] <=> retain_monitors[h] = t
       /\ h \in pending_retains[t] => h \in holders[t] /\ h \in seen

MInv == UInv /\ Monitored

\* The property follows.
LEMMA GuardedImplies == TypeOK /\ Monitored => HandshakesMonitored
<1> SUFFICES ASSUME TypeOK, Monitored PROVE HandshakesMonitored
  OBVIOUS
<1>1. /\ issue_reservations \subseteq Tokens /\ pending_issue \subseteq Tokens
      /\ pending_issues \subseteq Tokens
      /\ \A t \in Tokens : pending_retains[t] \subseteq Children
  BY DEF TypeOK
<1>2. /\ issue_reservations = {t \in Tokens : issue_monitors[t] = "reservation"}
      /\ pending_issue = {t \in Tokens : issue_monitors[t] = "issue"}
      /\ pending_issues = pending_issue
  BY <1>1 DEF Monitored
<1>3. ASSUME NEW t \in Tokens
      PROVE  /\ pending_retains[t] = {h \in Children : retain_monitors[h] = t}
             /\ pending_retains[t] \subseteq holders[t]
  BY <1>1 DEF Monitored
<1> QED BY <1>2, <1>3 DEF HandshakesMonitored, Monitored

\* A step outside the handshakes, which leaves active entries active.
LEMMA GuardedKept ==
  ASSUME MInv, UNCHANGED <<issue_reservations, pendingVars, holders>>,
         \A u \in Tokens : status[u] = "active" => status'[u] = "active",
         seen \subseteq seen'
  PROVE  Monitored'
BY DEF MInv, Monitored, pendingVars

\* release_entry closes the handshakes of its entry, with their monitors.  `D'
\* is {t} when the handler has removed t's reservation, and else empty.
LEMMA ReleaseEntryGuarded ==
  ASSUME MInv, NEW t \in Tokens, NEW w \in Requests \cup {None},
         NEW D \in SUBSET {t}, ReleaseEntry(t, w, D),
         status[t] \in {"unissued", "active", "release_failed"},
         \A u \in Tokens \ {t} : holders'[u] = holders[u],
         issue_reservations' = issue_reservations \ D, seen \subseteq seen'
  PROVE  Monitored'
<1>0. TypeOK /\ SingleFlight /\ Monitored
  BY DEF MInv, UInv, IInv
<1>1. \A u \in Tokens \ {t} : status[u] = "active" => status'[u] = "active"
  BY <1>0, ReleaseEntryFlight DEF Started
<1>2. /\ pending_issue' = pending_issue \ {t}
      /\ pending_issues' = pending_issues \ (pending_issue \cap {t})
      /\ issue_monitors' = [u \in Tokens |-> IF u \in D \cup (pending_issue \cap {t})
                                             THEN "none" ELSE issue_monitors[u]]
      /\ retain_monitors' = [h \in Children |-> IF h \in pending_retains[t]
                                                THEN None ELSE retain_monitors[h]]
      /\ pending_retains' = [pending_retains EXCEPT ![t] = {}]
  BY DEF ReleaseEntry, DemonitorIssues, DemonitorRetains
<1>3. \A u \in Tokens : pending_retains'[u] = IF u = t THEN {} ELSE pending_retains[u]
  BY <1>0, <1>2 DEF TypeOK
<1>4. ASSUME NEW u \in Tokens
      PROVE  /\ u \in issue_reservations' <=> issue_monitors'[u] = "reservation"
             /\ u \in pending_issue' <=> issue_monitors'[u] = "issue"
             /\ u \in pending_issues' <=> u \in pending_issue'
             /\ u \in pending_issue' => status'[u] = "active"
  <2>1. CASE u # t
    BY <1>0, <1>1, <1>2, <2>1 DEF Monitored
  <2>2. CASE u = t
    BY <1>0, <1>2, <2>2 DEF Monitored
  <2> QED BY <2>1, <2>2
<1>5. ASSUME NEW u \in Tokens, NEW h \in Children
      PROVE  /\ h \in pending_retains'[u] <=> retain_monitors'[h] = u
             /\ h \in pending_retains'[u] => h \in holders'[u] /\ h \in seen'
  <2>1. u # None
    BY RefsAssumption DEF Requests
  <2> QED BY <1>0, <1>2, <1>3, <2>1 DEF Monitored
<1> QED BY <1>4, <1>5 DEF Monitored

\* remove_holder, of an active entry; an unknown holder has no monitor.
LEMMA RemoveHolderGuarded ==
  ASSUME MInv, NEW t \in Tokens, NEW h \in Holders, RemoveHolder(t, h),
         status[t] = "active", UNCHANGED seen
  PROVE  Monitored'
<1>0. TypeOK /\ Monitored /\ None \in Requests \cup {None}
  BY DEF MInv, UInv, IInv
<1>1. CASE /\ ReleaseEntry(t, None, {}) /\ UNCHANGED issue_reservations
           /\ holders' = [holders EXCEPT ![t] = @ \ {h}]
  <2>1. \A u \in Tokens \ {t} : holders'[u] = holders[u]
    BY <1>0, <1>1 DEF TypeOK
  <2> QED BY <1>0, <1>1, <2>1, ReleaseEntryGuarded
<1>2. CASE /\ ClearPendingRetain(t, h) /\ UNCHANGED <<jobVars, issue_reservations>>
           /\ holders' = [holders EXCEPT ![t] = @ \ {h}]
  <2>1. /\ \A u \in Tokens : holders'[u] = IF u = t THEN holders[t] \ {h} ELSE holders[u]
        /\ \A u \in Tokens : pending_retains'[u] =
             IF u = t THEN pending_retains[t] \ {h} ELSE pending_retains[u]
    BY <1>0, <1>2 DEF TypeOK, ClearPendingRetain
  <2>2. /\ \A k \in Children : retain_monitors'[k] =
             IF k \in {h} \cap pending_retains[t] THEN None ELSE retain_monitors[k]
        /\ UNCHANGED <<status, pending_issue, pending_issues, issue_monitors,
                       issue_reservations>>
    BY <1>2 DEF ClearPendingRetain, DemonitorRetains, jobVars
  <2>3. None \notin Tokens
    BY RefsAssumption DEF Requests
  <2> QED BY <1>0, <2>1, <2>2, <2>3 DEF Monitored
<1>3. CASE /\ h \notin holders[t] /\ DemonitorRetains({h} \cap pending_retains[t])
           /\ UNCHANGED <<jobVars, holderVars, issue_reservations, pending_issue,
                          pending_issues, pending_retains, issue_monitors>>
  <2>1. h \notin pending_retains[t]
    BY <1>0, <1>3 DEF Monitored, TypeOK
  <2>2. \A k \in Children : retain_monitors'[k] = retain_monitors[k]
    BY <1>3, <2>1 DEF DemonitorRetains
  <2>3. UNCHANGED <<holders, status>>
    BY <1>3 DEF holderVars, jobVars
  <2> QED BY <1>0, <1>3, <2>2, <2>3 DEF Monitored
<1> QED BY <1>1, <1>2, <1>3 DEF RemoveHolder

-----------------------------------------------------------------------------
\* The issue handshake: the monitor turns from :reservation to :issue, and goes
\* with the reservation or the pending issue.
LEMMA HandshakeGuarded ==
  ASSUME MInv, NEW t \in Tokens,
         \/ ReserveIssue(t) \/ CommitIssue(t) \/ RejectIssue(t) \/ CommitUnknown(t)
         \/ CancelIssueReservation(t) \/ ConfirmIssue(t) \/ CancelIssue(t)
         \/ IssueCallerDown(t)
  PROVE  Monitored'
<1>0. /\ TypeOK /\ Admission /\ Monitored /\ Held
      /\ t \in Requests \cup {None} /\ None \in Requests \cup {None}
  BY DEF MInv, UInv, IInv, Requests
<1>1. CASE ReserveIssue(t)
  <2>1. UNCHANGED <<status, holders, pending_issue, pending_issues, pending_retains,
                    retain_monitors>> /\ seen \subseteq seen' /\ t \notin seen
    BY <1>1 DEF ReserveIssue, jobVars, holderVars
  <2>2. CASE UNCHANGED <<issue_reservations, issue_monitors>>
    BY <1>0, <2>1, <2>2 DEF Monitored
  <2>3. CASE /\ issue_reservations' = issue_reservations \cup {t}
             /\ issue_monitors' = [issue_monitors EXCEPT ![t] = "reservation"]
    <3>1. \A u \in Tokens : issue_monitors'[u] =
            IF u = t THEN "reservation" ELSE issue_monitors[u]
      BY <1>0, <2>3 DEF TypeOK
    <3>2. status[t] = "unissued"
      BY <1>0, <2>1 DEF Admission
    <3>3. t \notin pending_issue
      BY <1>0, <3>2 DEF Monitored
    <3> QED BY <1>0, <2>1, <2>3, <3>1, <3>3 DEF Monitored
  <2> QED BY <1>1, <2>2, <2>3 DEF ReserveIssue
<1>2. CASE CommitIssue(t)
  <2>1. /\ t \in issue_reservations /\ issue_reservations' = issue_reservations \ {t}
        /\ pending_issue' = pending_issue \cup {t}
        /\ pending_issues' = pending_issues \cup {t}
        /\ UNCHANGED <<pending_retains, retain_monitors, seen>>
    BY <1>2 DEF CommitIssue
  <2>2. /\ \A u \in Tokens : status'[u] = IF u = t THEN "active" ELSE status[u]
        /\ \A u \in Tokens : holders'[u] = IF u = t THEN {t} ELSE holders[u]
        /\ \A u \in Tokens : issue_monitors'[u] = IF u = t THEN "issue" ELSE issue_monitors[u]
    BY <1>0, <1>2 DEF CommitIssue, TypeOK
  <2>3. holders[t] = {}
    BY <1>0, <2>1 DEF Admission, Held
  <2> QED BY <1>0, <2>1, <2>2, <2>3 DEF Monitored
<1>3. CASE RejectIssue(t)
  <2>1. /\ status[t] = "unissued" /\ ReleaseEntry(t, t, {t})
        /\ issue_reservations' = issue_reservations \ {t}
        /\ UNCHANGED <<holders, seen>>
    BY <1>0, <1>3 DEF RejectIssue, Admission, holderVars
  <2> QED BY <1>0, <2>1, ReleaseEntryGuarded
<1>4. CASE CommitUnknown(t)
  BY <1>4, GuardedKept DEF CommitUnknown, jobVars, holderVars
<1>5. ASSUME RemoveIssueReservation(t) PROVE Monitored'
  <2>1. /\ issue_reservations' = issue_reservations \ {t}
        /\ \A u \in Tokens : issue_monitors'[u] =
             IF u \in issue_reservations \cap {t} THEN "none" ELSE issue_monitors[u]
        /\ UNCHANGED <<pending_issue, pending_issues, pending_retains, retain_monitors,
                       holders, status, seen>>
    BY <1>5 DEF RemoveIssueReservation, DemonitorIssues, holderVars, jobVars
  <2> QED BY <1>0, <2>1 DEF Monitored
<1>6. ASSUME CancelPendingIssue(t), status[t] = "active" PROVE Monitored'
  <2>1. ReleaseEntry(t, None, {}) /\ UNCHANGED <<issue_reservations, seen>>
    BY <1>6 DEF CancelPendingIssue
  <2>2. \A u \in Tokens \ {t} : holders'[u] = holders[u]
    BY <1>0, <1>6 DEF CancelPendingIssue, TypeOK
  <2> QED BY <1>0, <1>6, <2>1, <2>2, ReleaseEntryGuarded
<1>7. CASE ConfirmIssue(t)
  <2>1. CASE UNCHANGED vars
    BY <2>1, GuardedKept DEF vars, jobVars, holderVars
  <2>2. CASE /\ pending_issue' = pending_issue \ {t}
             /\ pending_issues' = pending_issues \ {t}
             /\ t \in pending_issue /\ DemonitorIssues({t})
             /\ UNCHANGED <<issue_reservations, pending_retains, retain_monitors,
                            holderVars, jobVars, seen>>
    <3>1. /\ \A u \in Tokens : issue_monitors'[u] = IF u \in {t} THEN "none"
                                                    ELSE issue_monitors[u]
          /\ UNCHANGED <<issue_reservations, pending_retains, retain_monitors,
                         holders, status, seen>>
      BY <2>2 DEF DemonitorIssues, holderVars, jobVars
    <3> QED BY <1>0, <2>2, <3>1 DEF Monitored
  <2> QED BY <1>7, <2>1, <2>2 DEF ConfirmIssue
<1>8. CASE CancelIssue(t)
  <2>1. CASE UNCHANGED vars
    BY <2>1, GuardedKept DEF vars, jobVars, holderVars
  <2> QED BY <1>6, <1>8, <2>1 DEF CancelIssue, IssuePending
<1>9. CASE CancelIssueReservation(t)
  BY <1>5, <1>9 DEF CancelIssueReservation
<1>10. CASE IssueCallerDown(t)
  <2>1. issue_monitors[t] = "issue" => IssuePending(t)
    BY <1>0 DEF Monitored, IssuePending
  <2> QED BY <1>5, <1>6, <1>10, <2>1 DEF IssueCallerDown, IssuePending
<1> QED BY <1>1, <1>2, <1>3, <1>4, <1>7, <1>8, <1>9, <1>10

\* The retain handshake.
LEMMA HolderGuarded ==
  ASSUME MInv, NEW h \in Holders,
         \/ h \in Children /\ (RefuseRetain(h) \/ RetainCallerDown(h))
         \/ h \in Children /\ \E t \in Tokens, p \in Holders : Retain(t, p, h)
         \/ \E t \in Tokens : \/ h \in Children /\ ConfirmRetain(t, h)
                              \/ CancelRetain(t, h) \/ Release(t, h) \/ Abandoned(t, h)
  PROVE  Monitored'
<1> DEFINE quiet == UNCHANGED <<issue_reservations, pendingVars, holderVars, jobVars>>
                    /\ seen \subseteq seen'
<1>0. TypeOK /\ Monitored /\ Held
  BY DEF MInv, UInv, IInv
<1>1. ASSUME quiet PROVE Monitored'
  BY <1>1, GuardedKept DEF jobVars, holderVars
<1>2. ASSUME RefuseRetain(h) PROVE Monitored'
  BY <1>1, <1>2 DEF RefuseRetain
<1>3. ASSUME h \in Children, NEW t \in Tokens, NEW p \in Holders, Retain(t, p, h)
      PROVE  Monitored'
  <2>1. /\ h \notin seen /\ h \notin holders[t] /\ seen' = seen \cup {h}
        /\ UNCHANGED <<issue_reservations, pending_issue, pending_issues,
                       issue_monitors, status>>
    BY <1>3 DEF Retain, RetainAllowed, jobVars
  <2>2. /\ \A u \in Tokens : holders'[u] = IF u = t THEN holders[t] \cup {h} ELSE holders[u]
        /\ \A u \in Tokens : pending_retains'[u] =
             IF u = t THEN pending_retains[t] \cup {h} ELSE pending_retains[u]
        /\ \A k \in Children : retain_monitors'[k] = IF k = h THEN t ELSE retain_monitors[k]
    BY <1>0, <1>3 DEF Retain, TypeOK
  <2>3. \A u \in Tokens : h \notin pending_retains[u]
    BY <1>0, <1>3, <2>1 DEF Monitored
  <2> QED BY <1>0, <2>1, <2>2, <2>3 DEF Monitored
<1>4. ASSUME h \in Children, NEW t \in Tokens, ConfirmRetain(t, h) PROVE Monitored'
  <2>1. CASE UNCHANGED vars
    BY <1>1, <2>1 DEF vars
  <2>2. CASE /\ h \in pending_retains[t] /\ ClearPendingRetain(t, h)
             /\ UNCHANGED <<issue_reservations, holderVars, jobVars, seen>>
    <3>1. \A u \in Tokens : pending_retains'[u] =
            IF u = t THEN pending_retains[t] \ {h} ELSE pending_retains[u]
      BY <1>0, <2>2 DEF TypeOK, ClearPendingRetain
    <3>2. /\ \A k \in Children : retain_monitors'[k] =
               IF k \in {h} \cap pending_retains[t] THEN None ELSE retain_monitors[k]
          /\ UNCHANGED <<status, holders, pending_issue, pending_issues, issue_monitors,
                         issue_reservations, seen>>
      BY <2>2 DEF ClearPendingRetain, DemonitorRetains, jobVars, holderVars
    <3>3. None \notin Tokens
      BY RefsAssumption DEF Requests
    <3> QED BY <1>0, <2>2, <3>1, <3>2, <3>3 DEF Monitored
  <2> QED BY <1>4, <2>1, <2>2 DEF ConfirmRetain
<1>5. ASSUME NEW t \in Tokens, CancelRetain(t, h) PROVE Monitored'
  BY <1>1, <1>5, RemoveHolderGuarded DEF CancelRetain
<1>6. ASSUME NEW t \in Tokens, Release(t, h) PROVE Monitored'
  BY <1>1, <1>6, RemoveHolderGuarded DEF Release, Holds
<1>7. ASSUME NEW t \in Tokens, Abandoned(t, h) PROVE Monitored'
  BY <1>1, <1>7, RemoveHolderGuarded DEF Abandoned, Holds
<1>8. ASSUME h \in Children, RetainCallerDown(h) PROVE Monitored'
  <2>1. retain_monitors[h] \in Tokens
    BY <1>0, <1>8 DEF RetainCallerDown, TypeOK
  <2>2. status[retain_monitors[h]] = "active"
    BY <1>0, <1>8, <2>1 DEF Monitored, Held
  <2> QED BY <1>8, <2>1, <2>2, RemoveHolderGuarded DEF RetainCallerDown
<1> QED BY <1>2, <1>3, <1>4, <1>5, <1>6, <1>7, <1>8

\* Releases, retries, draining and deaths: no handshake is opened, and the
\* entries concerned are past theirs.
LEMMA OtherGuarded ==
  ASSUME MInv,
         \/ Close \/ ProducerDown \/ OwnerKilled \/ ExecutorExit \/ ExecutorCrash
         \/ ReleaseResult \/ ExecutorDown
         \/ \E c \in Callers : Drain(c) \/ RemoveDrainWaiter(c)
         \/ \E c \in Callers, t \in Tokens : Retry(c, t)
         \/ \E m \in fired : RetryTimer(m[1], m[2])
         \/ \E m \in timers : TimerFires(m[1], m[2])
         \/ \E ok \in BOOLEAN : ExecuteRelease(ok)
  PROVE  Monitored'
<1> DEFINE still == UNCHANGED <<issue_reservations, pendingVars, holderVars>>
                    /\ seen \subseteq seen'
<1>0. TypeOK /\ SingleFlight /\ Monitored /\ None \in Requests \cup {None}
  BY DEF MInv, UInv, IInv
<1>1. ASSUME still, UNCHANGED status PROVE Monitored'
  BY <1>1, GuardedKept DEF holderVars
<1>2. CASE \/ Close \/ ProducerDown \/ OwnerKilled \/ ExecutorExit \/ ExecutorCrash
           \/ \E c \in Callers : Drain(c) \/ RemoveDrainWaiter(c)
           \/ \E m \in timers : TimerFires(m[1], m[2])
           \/ \E ok \in BOOLEAN : ExecuteRelease(ok)
  <2>1. still /\ UNCHANGED status
    BY <1>2 DEF Close, ProducerDown, BeginDrain, OwnerKilled, ExecutorExit,
         ExecutorCrash, Drain, RemoveDrainWaiter, TimerFires, ExecuteRelease, jobVars
  <2> QED BY <1>1, <2>1
<1>3. ASSUME still, release_job # NoJob, NEW inbox, NEW end \in {"retired", "release_failed"},
             DispatchNextRelease([status EXCEPT ![release_job.token] = end],
                                 release_queue, NoJob, inbox),
             UNCHANGED release_attempts
      PROVE  Monitored'
  <2>1. /\ status[release_job.token] = "releasing"
        /\ \A u \in Tokens \ {release_job.token} : Started(u)
    BY <1>0, <1>3, FinishFlight
  <2>2. \A u \in Tokens : status[u] = "active" => status'[u] = "active"
    BY <2>1 DEF Started
  <2> QED BY <1>3, <2>2, GuardedKept DEF holderVars
<1>4. ASSUME FinishReleased(release_job), release_job # NoJob PROVE Monitored'
  BY <1>3, <1>4 DEF FinishReleased
<1>5. ASSUME NEW inbox, FinishFailed(release_job, inbox), release_job # NoJob PROVE Monitored'
  BY <1>3, <1>5 DEF FinishFailed
<1>6. CASE ReleaseResult
  <2>1. CASE UNCHANGED <<issue_reservations, pendingVars, holderVars, jobVars, seen>>
    BY <1>1, <2>1 DEF jobVars
  <2> QED BY <1>4, <1>5, <1>6, <2>1 DEF ReleaseResult, CurrentJob
<1>7. CASE ExecutorDown
  <2>1. CASE release_job = NoJob
    <3>1. release_queue = <<>>
      BY <1>0, <2>1 DEF SingleFlight
    <3>2. UNCHANGED status /\ still
      BY <1>7, <2>1, <3>1 DEF ExecutorDown, DispatchNextRelease
    <3> QED BY <1>1, <3>2
  <2> QED BY <1>5, <1>7, <2>1 DEF ExecutorDown
<1>8. ASSUME NEW t \in Tokens, NEW w \in Requests \cup {None}, ReleaseEntry(t, w, {}),
             status[t] = "release_failed", UNCHANGED <<issue_reservations, holderVars>>,
             seen \subseteq seen'
      PROVE  Monitored'
  BY <1>8, ReleaseEntryGuarded DEF holderVars
<1>9. ASSUME NEW m \in fired, RetryTimer(m[1], m[2]) PROVE Monitored'
  <2>1. m[1] \in Tokens /\ UNCHANGED <<issue_reservations, holderVars, seen>>
    BY <1>0, <1>9 DEF RetryTimer, TypeOK
  <2>2. CASE UNCHANGED <<pendingVars, jobVars>>
    BY <1>1, <2>1, <2>2 DEF jobVars
  <2> QED BY <1>0, <1>8, <1>9, <2>1, <2>2 DEF RetryTimer
<1>10. ASSUME NEW c \in Callers, NEW t \in Tokens, Retry(c, t) PROVE Monitored'
  <2>1. /\ c \in Requests \cup {None} /\ seen \subseteq seen'
        /\ UNCHANGED <<issue_reservations, holderVars>>
    BY <1>10 DEF Retry, Requests
  <2>2. CASE UNCHANGED <<pendingVars, jobVars>>
    BY <1>1, <2>1, <2>2 DEF jobVars
  <2> QED BY <1>8, <1>10, <2>1, <2>2 DEF Retry
<1> QED BY <1>2, <1>6, <1>7, <1>9, <1>10

\* Every step keeps the monitors and the handshakes together.
LEMMA GuardedStep == MInv /\ [Next]_vars => MInv'
<1> SUFFICES ASSUME MInv, [Next]_vars PROVE MInv'
  OBVIOUS
<1>0. UInv'
  BY UseStep DEF MInv
<1>1. CASE UNCHANGED vars
  BY <1>0, <1>1, GuardedKept DEF MInv, vars, jobVars, holderVars
<1>2. CASE OwnerStep
  <2>1. \A h \in Children : h \in Holders
    BY DEF Holders
  <2> QED BY <1>0, <1>2, <2>1, HandshakeGuarded, HolderGuarded, OtherGuarded
          DEF OwnerStep, MInv
<1>3. CASE RuntimeStep
  BY <1>0, <1>3, OtherGuarded DEF RuntimeStep, MInv
<1> QED BY <1>1, <1>2, <1>3 DEF Next

\* Nothing is monitored initially.
LEMMA GuardedStart == Init => MInv
<1>1. Init => Monitored
  <2> SUFFICES ASSUME Init PROVE Monitored
    OBVIOUS
  <2>1. \A t \in Tokens : t # None
    BY RefsAssumption DEF Requests
  <2> QED BY <2>1 DEF Init, Monitored
<1> QED BY <1>1, UseStart DEF MInv

\* In every reachable state.
LEMMA GuardedInvariant == Spec => []MInv
BY GuardedStart, GuardedStep, PTL DEF Spec

\* Each monitor guards exactly one open handshake and each open handshake is
\* guarded, whatever messages of callers that died, gave up or answered late
\* arrive in whatever order (protocol_monitors, clear_pending_issue,
\* clear_all_pending_retains, handle_protocol_down).
THEOREM AlwaysMonitored == Spec => []HandshakesMonitored
<1>1. MInv => HandshakesMonitored
  BY GuardedImplies DEF MInv, UInv, IInv
<1> QED BY <1>1, GuardedInvariant, PTL

-----------------------------------------------------------------------------
(* A tombstone stands for a holder that is gone, and is the one the eviction *)
(* order remembers.                                                          *)

\* A holder's call was handled, and so was that of a holder whose release is
\* remembered: no later commit or retain can bring the reference back.
Remembered ==
  \A t \in Tokens, h \in Holders :
    /\ h \in holders[t] => h \in seen
    /\ release_tombstones[<<t, h>>] # "none" =>
         h \in seen /\ h \notin holders[t] /\ status[t] # "unissued"

\* The order lists each remembered holder once, within the limit.
Eviction ==
  /\ \A i, j \in 1..Len(release_tombstone_order) :
       release_tombstone_order[i] = release_tombstone_order[j] => i = j
  /\ \A id \in HolderIds : release_tombstones[id] # "none" <=>
       \E i \in 1..Len(release_tombstone_order) : release_tombstone_order[i] = id
  /\ Len(release_tombstone_order) <= TombstoneLimit

OInv == UInv /\ Remembered /\ Eviction

Recorded == {id \in HolderIds : release_tombstones[id] # "none"}

\* There are as many tombstones as the order is long.
LEMMA RecordedCount ==
  ASSUME TypeOK, Eviction
  PROVE  /\ IsFiniteSet(Recorded)
         /\ Cardinality(Recorded) = Len(release_tombstone_order)
<1> DEFINE n == Len(release_tombstone_order)
           f == [i \in 1..n |-> release_tombstone_order[i]]
<1>1. n \in Nat /\ \A i \in 1..n : release_tombstone_order[i] \in HolderIds
  BY DEF TypeOK
<1>2. f \in [1..n -> Recorded]
  BY <1>1 DEF Recorded, Eviction
<1>3. /\ \A i, j \in 1..n : f[i] = f[j] => i = j
      /\ \A id \in Recorded : \E i \in 1..n : f[i] = id
  BY <1>1 DEF Recorded, Eviction
<1> HIDE DEF f, n
<1>4. f \in Bijection(1..n, Recorded)
  BY <1>2, <1>3 DEF Bijection, Injection, Surjection, IsInjective
<1>5. ExistsBijection(1..n, Recorded)
  BY <1>4 DEF ExistsBijection
<1>6. IsFiniteSet(Recorded) /\ Cardinality(Recorded) = n
  BY <1>1, <1>5, FS_NatBijection, FS_CountingElements
<1> QED BY <1>6 DEF n

\* The property follows.
LEMMA OInvImplies == OInv => TombstonesSound
<1> SUFFICES ASSUME OInv PROVE TombstonesSound
  OBVIOUS
<1> DEFINE ordered == {release_tombstone_order[i] : i \in 1..Len(release_tombstone_order)}
<1>1. TypeOK /\ Remembered /\ Eviction
  BY DEF OInv, UInv, IInv
<1>2. /\ Cardinality(Recorded) = Len(release_tombstone_order)
      /\ Len(release_tombstone_order) <= TombstoneLimit
  BY <1>1, RecordedCount DEF Eviction
<1>3. \A id \in Recorded : id[2] \notin holders[id[1]]
  BY <1>1 DEF Recorded, HolderIds, Remembered
<1>4. \A i \in 1..Len(release_tombstone_order) : release_tombstone_order[i] \in HolderIds
  BY <1>1 DEF TypeOK
<1>5. ordered = Recorded
  BY <1>1, <1>4 DEF Recorded, Eviction
<1> QED BY <1>2, <1>3, <1>5 DEF TombstonesSound, Recorded

\* put_release_tombstone: the new one is last in the order, and when there are
\* too many the first one goes.
LEMMA PutEviction ==
  ASSUME TypeOK, Eviction, NEW id \in HolderIds, NEW class \in {"abandoned", "explicit"},
         PutReleaseTombstone(id, class)
  PROVE  /\ Eviction'
         /\ \A k \in HolderIds \ {id} :
              release_tombstones'[k] # "none" => release_tombstones[k] # "none"
<1> DEFINE old   == release_tombstone_order
           n     == Len(old)
           order == Append(old, id)
<1>1. /\ old \in Seq(HolderIds) /\ n \in Nat /\ order \in Seq(HolderIds)
      /\ Len(order) = n + 1 /\ order[n + 1] = id /\ \A i \in 1..n : order[i] = old[i]
  BY AppendProperties, LenProperties DEF TypeOK
<1>2. /\ release_tombstones \in [HolderIds -> {"none", "abandoned", "explicit"}]
      /\ TombstoneLimit \in Nat \ {0}
  BY OptionsAssumption DEF TypeOK
<1>3. /\ \A i, j \in 1..n : old[i] = old[j] => i = j
      /\ \A k \in HolderIds : release_tombstones[k] # "none" <=>
                                \E i \in 1..n : old[i] = k
      /\ n <= TombstoneLimit
  BY DEF Eviction
<1>4. IsFiniteSet(Recorded) /\ Cardinality(Recorded) = n
  BY RecordedCount
<1>5. CASE id \in Recorded
  <2>1. /\ release_tombstones' = [release_tombstones EXCEPT ![id] = class]
        /\ release_tombstone_order' = old
    BY <1>5 DEF PutReleaseTombstone, Recorded
  <2>2. \A k \in HolderIds : release_tombstones'[k] =
          IF k = id THEN class ELSE release_tombstones[k]
    BY <1>2, <2>1
  <2> HIDE DEF order
  <2>3. \A k \in HolderIds : release_tombstones'[k] # "none" <=> release_tombstones[k] # "none"
    BY <1>5, <2>2 DEF Recorded
  <2> QED BY <1>3, <2>1, <2>3 DEF Eviction
<1>6. CASE id \notin Recorded
  <2>1. \A i \in 1..n : old[i] # id
    BY <1>3, <1>6 DEF Recorded
  <2>2. Cardinality(Recorded \cup {id}) = n + 1
    BY <1>4, <1>6, FS_AddElement
  <2>3. /\ \A i, j \in 1..n+1 : order[i] = order[j] => i = j
        /\ \A k \in HolderIds : k = id \/ release_tombstones[k] # "none" <=>
                                  \E i \in 1..n+1 : order[i] = k
    <3> HIDE DEF order, n, old
    <3>1. n + 1 \in 1..n+1 /\ \A i \in 1..n+1 : i \in 1..n \/ i = n + 1
      BY <1>1
    <3>2. \A i \in 1..n : i \in 1..n+1
      BY <1>1
    <3>3. \A i, j \in 1..n+1 : order[i] = order[j] => i = j
      BY <1>1, <1>3, <2>1, <3>1
    <3>4. \A k \in HolderIds : k = id \/ release_tombstones[k] # "none" <=>
                                 \E i \in 1..n+1 : order[i] = k
      BY <1>1, <1>3, <3>1, <3>2
    <3> QED BY <3>3, <3>4
  <2>4. CASE n + 1 <= TombstoneLimit
    <3>1. /\ release_tombstones' = [release_tombstones EXCEPT ![id] = class]
          /\ release_tombstone_order' = order
      BY <1>6, <2>2, <2>4 DEF PutReleaseTombstone, Recorded
    <3>2. \A k \in HolderIds : release_tombstones'[k] =
            IF k = id THEN class ELSE release_tombstones[k]
      BY <1>2, <3>1
    <3> HIDE DEF order, n
    <3>3. \A k \in HolderIds : release_tombstones'[k] # "none" <=>
                                 k = id \/ release_tombstones[k] # "none"
      BY <3>2
    <3> QED BY <1>1, <2>3, <2>4, <3>1, <3>2, <3>3 DEF Eviction
  <2>5. CASE ~(n + 1 <= TombstoneLimit)
    <3>1. /\ release_tombstones' =
               [release_tombstones EXCEPT ![id] = class, ![Head(order)] = "none"]
          /\ release_tombstone_order' = Tail(order)
      BY <1>6, <2>2, <2>5 DEF PutReleaseTombstone, Recorded
    <3>2. n >= 1 /\ n = TombstoneLimit
      BY <1>1, <1>2, <1>3, <2>5
    <3> HIDE DEF order, n, old
    <3>3. /\ Head(order) = order[1] /\ Len(Tail(order)) = n
          /\ \A i \in 1..n : Tail(order)[i] = order[i + 1]
          /\ 1 \in 1..n /\ order[1] \in HolderIds
      BY <1>1, <3>2, HeadTailProperties, EmptySeq, ElementOfSeq
    <3>4. order[1] # id
      BY <1>1, <2>1, <3>3
    <3>5. \A k \in HolderIds : release_tombstones'[k] =
            IF k = order[1] THEN "none" ELSE IF k = id THEN class ELSE release_tombstones[k]
      BY <1>2, <3>1, <3>3, <3>4
    <3>6. \A i \in 1..n : i + 1 \in 1..n+1 /\ i + 1 # 1
      BY <1>1
    <3>7. \A i, j \in 1..n : Tail(order)[i] = Tail(order)[j] => i = j
      <4> SUFFICES ASSUME NEW i \in 1..n, NEW j \in 1..n, Tail(order)[i] = Tail(order)[j]
                   PROVE  i = j
        OBVIOUS
      <4>1. i + 1 = j + 1
        BY <2>3, <3>3, <3>6
      <4> QED BY <1>1, <4>1
    <3>8. 1 \in 1..n+1
      BY <1>1, <3>2
    <3>9. \A k \in HolderIds : release_tombstones'[k] # "none" <=>
            \E i \in 1..n : Tail(order)[i] = k
      <4> SUFFICES ASSUME NEW k \in HolderIds
                   PROVE  release_tombstones'[k] # "none" <=>
                            \E i \in 1..n : Tail(order)[i] = k
        OBVIOUS
      <4>1. release_tombstones'[k] # "none" <=>
              k # order[1] /\ (k = id \/ release_tombstones[k] # "none")
        BY <3>5
      <4>2. ASSUME k # order[1], NEW i \in 1..n+1, order[i] = k
            PROVE  \E j \in 1..n : Tail(order)[j] = k
        <5>1. i # 1
          BY <4>2
        <5>2. i - 1 \in 1..n /\ (i - 1) + 1 = i
          BY <1>1, <5>1
        <5> QED BY <3>3, <4>2, <5>2
      <4>3. ASSUME NEW i \in 1..n, Tail(order)[i] = k
            PROVE  k # order[1] /\ \E j \in 1..n+1 : order[j] = k
        <5>1. order[i + 1] = k /\ i + 1 \in 1..n+1 /\ i + 1 # 1
          BY <3>3, <3>6, <4>3
        <5>2. order[i + 1] # order[1]
          BY <2>3, <3>8, <5>1
        <5> QED BY <5>1, <5>2
      <4> QED BY <2>3, <4>1, <4>2, <4>3
    <3>10. \A k \in HolderIds \ {id} :
             release_tombstones'[k] # "none" => release_tombstones[k] # "none"
      BY <3>5
    <3>11. Len(release_tombstone_order') = n /\ n <= TombstoneLimit
      BY <1>2, <3>1, <3>2, <3>3
    <3>12. Eviction'
      BY <3>1, <3>7, <3>9, <3>11 DEF Eviction
    <3> QED BY <3>10, <3>12
  <2> QED BY <2>4, <2>5
<1> QED BY <1>5, <1>6

\* A step that introduces no holder and remembers no release.
LEMMA RememberedKept ==
  ASSUME Remembered, seen \subseteq seen',
         \A t \in Tokens : holders'[t] \subseteq holders[t],
         \A t \in Tokens : status'[t] = "unissued" => status[t] = "unissued",
         \A t \in Tokens, h \in Holders :
           release_tombstones'[<<t, h>>] # "none" => release_tombstones[<<t, h>>] # "none"
  PROVE  Remembered'
BY DEF Remembered

\* remove_holder takes the holder away and revives no entry.
LEMMA RemoveHolderShrinks ==
  ASSUME UInv, NEW t \in Tokens, NEW h \in Holders, RemoveHolder(t, h),
         status[t] = "active"
  PROVE  /\ \A u \in Tokens : holders'[u] \subseteq holders[u]
         /\ h \notin holders'[t]
         /\ \A u \in Tokens : status'[u] = "unissued" => status[u] = "unissued"
<1>0. TypeOK /\ SingleFlight /\ None \in Requests \cup {None}
  BY DEF UInv, IInv
<1>1. CASE ReleaseEntry(t, None, {}) /\ holders' = [holders EXCEPT ![t] = @ \ {h}]
  <2>1. \A u \in Tokens \ {t} : Started(u)
    BY <1>0, <1>1, ReleaseEntryFlight
  <2>2. status'[t] # "unissued"
    BY <1>0, <1>1, ReleaseEntryFlight
  <2> QED BY <1>0, <1>1, <2>1, <2>2 DEF Started, TypeOK
<1>2. CASE UNCHANGED jobVars /\ holders' = [holders EXCEPT ![t] = @ \ {h}]
  BY <1>0, <1>2 DEF jobVars, TypeOK
<1>3. CASE UNCHANGED <<jobVars, holderVars>> /\ h \notin holders[t]
  BY <1>3 DEF jobVars, holderVars
<1> QED BY <1>1, <1>2, <1>3 DEF RemoveHolder

-----------------------------------------------------------------------------
\* Issuing: the root holder of an entry that had none was never remembered.
LEMMA HandshakeRemembered ==
  ASSUME OInv, NEW t \in Tokens,
         \/ ReserveIssue(t) \/ CommitIssue(t) \/ RejectIssue(t) \/ CommitUnknown(t)
         \/ CancelIssueReservation(t) \/ ConfirmIssue(t) \/ CancelIssue(t)
         \/ IssueCallerDown(t)
  PROVE  Remembered'
<1> DEFINE quiet == UNCHANGED <<holderVars, jobVars, tombVars>> /\ seen \subseteq seen'
<1>0. /\ TypeOK /\ SingleFlight /\ Admission /\ Remembered
      /\ t \in Requests \cup {None} /\ None \in Requests \cup {None}
  BY DEF OInv, UInv, IInv, Requests
<1>1. ASSUME quiet PROVE Remembered'
  BY <1>0, <1>1, RememberedKept DEF holderVars, jobVars, tombVars
<1>2. ASSUME NEW w \in Requests \cup {None}, NEW D, ReleaseEntry(t, w, D),
             status[t] \in {"unissued", "active"},
             \A u \in Tokens : holders'[u] \subseteq holders[u],
             UNCHANGED <<tombVars, seen>>
      PROVE  Remembered'
  <2>1. \A u \in Tokens : status'[u] = "unissued" => status[u] = "unissued"
    BY <1>0, <1>2, ReleaseEntryFlight DEF EntryStatus
  <2> QED BY <1>0, <1>2, <2>1, RememberedKept DEF tombVars
<1>3. CASE ReserveIssue(t)
  BY <1>1, <1>3 DEF ReserveIssue
<1>4. CASE CommitIssue(t)
  <2>1. status[t] = "unissued" /\ t \in seen
    BY <1>0, <1>4 DEF CommitIssue, Admission
  <2>2. /\ \A u \in Tokens : status'[u] = IF u = t THEN "active" ELSE status[u]
        /\ \A u \in Tokens : holders'[u] = IF u = t THEN {t} ELSE holders[u]
        /\ UNCHANGED <<release_tombstones, seen>>
    BY <1>0, <1>4 DEF CommitIssue, TypeOK, tombVars
  <2>3. ASSUME NEW u \in Tokens, NEW h \in Holders
        PROVE  /\ h \in holders'[u] => h \in seen'
               /\ release_tombstones'[<<u, h>>] # "none" =>
                    h \in seen' /\ h \notin holders'[u] /\ status'[u] # "unissued"
    <3>1. /\ h \in holders[u] => h \in seen
          /\ release_tombstones[<<u, h>>] # "none" =>
               h \in seen /\ h \notin holders[u] /\ status[u] # "unissued"
      BY <1>0 DEF Remembered
    <3> QED BY <2>1, <2>2, <3>1
  <2> QED BY <2>3 DEF Remembered
<1>5. CASE RejectIssue(t)
  <2>1. status[t] = "unissued" /\ ReleaseEntry(t, t, {t}) /\ UNCHANGED <<holders, tombVars, seen>>
    BY <1>0, <1>5 DEF RejectIssue, Admission, holderVars
  <2> QED BY <1>0, <1>2, <2>1
<1>6. CASE CommitUnknown(t)
  BY <1>1, <1>6 DEF CommitUnknown
<1>7. ASSUME RemoveIssueReservation(t) PROVE Remembered'
  BY <1>1, <1>7 DEF RemoveIssueReservation
<1>8. ASSUME CancelPendingIssue(t), status[t] = "active" PROVE Remembered'
  <2>1. ReleaseEntry(t, None, {}) /\ UNCHANGED <<tombVars, seen>>
    BY <1>8 DEF CancelPendingIssue
  <2>2. \A u \in Tokens : holders'[u] \subseteq holders[u]
    BY <1>0, <1>8 DEF CancelPendingIssue, TypeOK
  <2> QED BY <1>0, <1>2, <1>8, <2>1, <2>2
<1>9. CASE ConfirmIssue(t)
  BY <1>1, <1>9 DEF ConfirmIssue, vars
<1>10. CASE CancelIssue(t)
  BY <1>1, <1>8, <1>10 DEF CancelIssue, IssuePending, vars
<1>11. CASE CancelIssueReservation(t)
  BY <1>7, <1>11 DEF CancelIssueReservation
<1>12. CASE IssueCallerDown(t)
  <2>1. CASE UNCHANGED <<holderVars, jobVars, tombVars, seen>>
    BY <1>1, <2>1
  <2> QED BY <1>7, <1>8, <1>12, <2>1 DEF IssueCallerDown, IssuePending
<1> QED BY <1>3, <1>4, <1>5, <1>6, <1>9, <1>10, <1>11, <1>12

\* A retain adds a reference never seen before, and a release is remembered in
\* the step that takes its holder away.
LEMMA HolderRemembered ==
  ASSUME OInv, NEW h \in Holders,
         \/ h \in Children /\ (RefuseRetain(h) \/ RetainCallerDown(h))
         \/ h \in Children /\ \E t \in Tokens, p \in Holders : Retain(t, p, h)
         \/ \E t \in Tokens : \/ h \in Children /\ ConfirmRetain(t, h)
                              \/ CancelRetain(t, h) \/ Release(t, h) \/ Abandoned(t, h)
  PROVE  Remembered' /\ Eviction'
<1> DEFINE quiet == UNCHANGED <<holderVars, jobVars, tombVars>> /\ seen \subseteq seen'
<1>0. /\ TypeOK /\ SingleFlight /\ Admission /\ Remembered /\ Eviction
      /\ \A t \in Tokens : <<t, h>> \in HolderIds
  BY DEF OInv, UInv, IInv, HolderIds
<1>1. ASSUME quiet PROVE Remembered' /\ Eviction'
  <2>1. Eviction'
    BY <1>0, <1>1 DEF tombVars, Eviction
  <2> QED BY <1>0, <1>1, <2>1, RememberedKept DEF holderVars, jobVars, tombVars
<1>2. ASSUME NEW t \in Tokens, RemoveHolder(t, h), status[t] = "active",
             UNCHANGED <<tombVars, seen>>
      PROVE  Remembered' /\ Eviction'
  <2>1. Eviction'
    BY <1>0, <1>2 DEF tombVars, Eviction
  <2>2. /\ \A u \in Tokens : holders'[u] \subseteq holders[u]
        /\ \A u \in Tokens : status'[u] = "unissued" => status[u] = "unissued"
    BY <1>2, RemoveHolderShrinks DEF OInv
  <2> QED BY <1>0, <1>2, <2>1, <2>2, RememberedKept DEF tombVars
<1>3. ASSUME NEW t \in Tokens, NEW class \in {"abandoned", "explicit"}, Holds(t, h),
             PutReleaseTombstone(<<t, h>>, class), RemoveHolder(t, h), UNCHANGED seen
      PROVE  Remembered' /\ Eviction'
  <2>1. /\ Eviction'
        /\ \A k \in HolderIds \ {<<t, h>>} :
             release_tombstones'[k] # "none" => release_tombstones[k] # "none"
    BY <1>0, <1>3, PutEviction
  <2>2. status[t] = "active" /\ h \in holders[t]
    BY <1>3 DEF Holds
  <2>3. /\ \A u \in Tokens : holders'[u] \subseteq holders[u]
        /\ h \notin holders'[t]
        /\ \A u \in Tokens : status'[u] = "unissued" => status[u] = "unissued"
    BY <1>3, <2>2, RemoveHolderShrinks DEF OInv
  <2>4. ASSUME NEW u \in Tokens, NEW k \in Holders
        PROVE  /\ k \in holders'[u] => k \in seen'
               /\ release_tombstones'[<<u, k>>] # "none" =>
                    k \in seen' /\ k \notin holders'[u] /\ status'[u] # "unissued"
    <3>1. CASE u = t /\ k = h
      BY <1>0, <1>3, <2>2, <2>3, <3>1 DEF Remembered
    <3>2. CASE ~(u = t /\ k = h)
      <4>1. <<u, k>> \in HolderIds \ {<<t, h>>}
        BY <3>2 DEF HolderIds
      <4> QED BY <1>0, <1>3, <2>1, <2>3, <4>1 DEF Remembered
    <3> QED BY <3>1, <3>2
  <2> QED BY <2>1, <2>4 DEF Remembered
<1>4. ASSUME RefuseRetain(h) PROVE Remembered' /\ Eviction'
  BY <1>1, <1>4 DEF RefuseRetain
<1>5. ASSUME NEW t \in Tokens, NEW p \in Holders, Retain(t, p, h)
      PROVE  Remembered' /\ Eviction'
  <2>1. /\ h \notin seen /\ seen' = seen \cup {h} /\ UNCHANGED <<status, tombVars>>
    BY <1>5 DEF Retain, jobVars
  <2>2. \A u \in Tokens : holders'[u] = IF u = t THEN holders[t] \cup {h} ELSE holders[u]
    BY <1>0, <1>5 DEF Retain, TypeOK
  <2>3. Eviction'
    BY <1>0, <2>1 DEF tombVars, Eviction
  <2>4. Remembered'
    BY <1>0, <2>1, <2>2 DEF Remembered, tombVars
  <2> QED BY <2>3, <2>4
<1>6. ASSUME NEW t \in Tokens, ConfirmRetain(t, h) PROVE Remembered' /\ Eviction'
  BY <1>1, <1>6 DEF ConfirmRetain, vars
<1>7. ASSUME NEW t \in Tokens, CancelRetain(t, h) PROVE Remembered' /\ Eviction'
  BY <1>1, <1>2, <1>7 DEF CancelRetain
<1>8. ASSUME NEW t \in Tokens, Release(t, h) PROVE Remembered' /\ Eviction'
  <2>1. CASE /\ release_tombstones[<<t, h>>] = "abandoned"
             /\ release_tombstones' = [release_tombstones EXCEPT ![<<t, h>>] = "explicit"]
             /\ UNCHANGED <<holderVars, jobVars, release_tombstone_order, seen>>
    <3>1. \A k \in HolderIds : release_tombstones'[k] # "none" <=> release_tombstones[k] # "none"
      BY <1>0, <2>1 DEF TypeOK
    <3>2. Eviction'
      BY <1>0, <2>1, <3>1 DEF Eviction
    <3>3. \A u \in Tokens, k \in Holders : <<u, k>> \in HolderIds
      BY DEF HolderIds
    <3> QED BY <1>0, <2>1, <3>1, <3>2, <3>3, RememberedKept DEF holderVars, jobVars
  <2> QED BY <1>1, <1>3, <1>8, <2>1 DEF Release
<1>9. ASSUME NEW t \in Tokens, Abandoned(t, h) PROVE Remembered' /\ Eviction'
  BY <1>1, <1>3, <1>9 DEF Abandoned
<1>10. ASSUME h \in Children, RetainCallerDown(h) PROVE Remembered' /\ Eviction'
  <2>1. retain_monitors[h] \in Tokens
    BY <1>0, <1>10 DEF RetainCallerDown, TypeOK
  <2> QED BY <1>1, <1>2, <1>10, <2>1 DEF RetainCallerDown
<1> QED BY <1>4, <1>5, <1>6, <1>7, <1>8, <1>9, <1>10

\* The other steps move no holder and remember nothing.
LEMMA OtherRemembered ==
  ASSUME OInv,
         \/ Close \/ ProducerDown \/ OwnerKilled \/ ExecutorExit \/ ExecutorCrash
         \/ ReleaseResult \/ ExecutorDown
         \/ \E c \in Callers : Drain(c) \/ RemoveDrainWaiter(c)
         \/ \E c \in Callers, t \in Tokens : Retry(c, t)
         \/ \E m \in fired : RetryTimer(m[1], m[2])
         \/ \E m \in timers : TimerFires(m[1], m[2])
         \/ \E ok \in BOOLEAN : ExecuteRelease(ok)
  PROVE  Remembered'
<1> DEFINE still == UNCHANGED <<holderVars, tombVars>> /\ seen \subseteq seen'
           Kept  == \A u \in Tokens : status'[u] = "unissued" => status[u] = "unissued"
<1>0. TypeOK /\ SingleFlight /\ Remembered /\ None \in Requests \cup {None}
  BY DEF OInv, UInv, IInv
<1>1. still
  BY DEF Close, ProducerDown, BeginDrain, OwnerKilled, ExecutorExit, ExecutorCrash,
         ReleaseResult, ExecutorDown, FinishReleased, FinishFailed, Drain,
         RemoveDrainWaiter, Retry, RetryTimer, TimerFires, ExecuteRelease
<1> SUFFICES Kept
  BY <1>0, <1>1, RememberedKept DEF holderVars, tombVars
<1>2. ASSUME UNCHANGED status PROVE Kept
  BY <1>2
<1>3. CASE \/ Close \/ ProducerDown \/ OwnerKilled \/ ExecutorExit \/ ExecutorCrash
           \/ \E c \in Callers : Drain(c) \/ RemoveDrainWaiter(c)
           \/ \E m \in timers : TimerFires(m[1], m[2])
           \/ \E ok \in BOOLEAN : ExecuteRelease(ok)
  BY <1>2, <1>3 DEF Close, ProducerDown, BeginDrain, OwnerKilled, ExecutorExit,
       ExecutorCrash, Drain, RemoveDrainWaiter, TimerFires, ExecuteRelease, jobVars
<1>4. ASSUME release_job # NoJob, NEW inbox, NEW end \in {"retired", "release_failed"},
             DispatchNextRelease([status EXCEPT ![release_job.token] = end],
                                 release_queue, NoJob, inbox),
             UNCHANGED release_attempts
      PROVE  Kept
  <2>1. /\ status'[release_job.token] = end
        /\ \A u \in Tokens \ {release_job.token} : Started(u)
    BY <1>0, <1>4, FinishFlight
  <2> QED BY <2>1 DEF Started
<1>5. ASSUME FinishReleased(release_job), release_job # NoJob PROVE Kept
  BY <1>4, <1>5 DEF FinishReleased
<1>6. ASSUME NEW inbox, FinishFailed(release_job, inbox), release_job # NoJob PROVE Kept
  BY <1>4, <1>6 DEF FinishFailed
<1>7. CASE ReleaseResult
  BY <1>2, <1>5, <1>6, <1>7 DEF ReleaseResult, CurrentJob, jobVars
<1>8. CASE ExecutorDown
  <2>1. CASE release_job = NoJob
    <3>1. release_queue = <<>>
      BY <1>0, <2>1 DEF SingleFlight
    <3>2. UNCHANGED status
      BY <1>8, <2>1, <3>1 DEF ExecutorDown, DispatchNextRelease
    <3> QED BY <1>2, <3>2
  <2> QED BY <1>6, <1>8, <2>1 DEF ExecutorDown
<1>9. ASSUME NEW t \in Tokens, NEW w \in Requests \cup {None}, ReleaseEntry(t, w, {}),
             status[t] = "release_failed"
      PROVE  Kept
  BY <1>0, <1>9, ReleaseEntryFlight DEF EntryStatus
<1>10. ASSUME NEW m \in fired, RetryTimer(m[1], m[2]) PROVE Kept
  <2>1. m[1] \in Tokens
    BY <1>0 DEF TypeOK
  <2> QED BY <1>0, <1>2, <1>9, <1>10, <2>1 DEF RetryTimer, jobVars
<1>11. ASSUME NEW c \in Callers, NEW t \in Tokens, Retry(c, t) PROVE Kept
  <2>1. c \in Requests \cup {None}
    BY DEF Requests
  <2> QED BY <1>2, <1>9, <1>11, <2>1 DEF Retry, jobVars
<1> QED BY <1>3, <1>7, <1>8, <1>10, <1>11

\* Every step keeps the tombstones sound.
LEMMA TombstoneStep == OInv /\ [Next]_vars => OInv'
<1> SUFFICES ASSUME OInv, [Next]_vars PROVE OInv'
  OBVIOUS
<1>0. UInv' /\ Remembered /\ Eviction
  BY UseStep DEF OInv
<1>1. ASSUME UNCHANGED tombVars PROVE Eviction'
  BY <1>0, <1>1 DEF Eviction, tombVars
<1>2. CASE UNCHANGED vars
  <2>1. UNCHANGED <<tombVars, holders, status, seen>>
    BY <1>2 DEF vars, holderVars, jobVars
  <2> QED BY <1>0, <1>1, <2>1, RememberedKept DEF OInv, tombVars
<1>3. ASSUME NEW t \in Tokens,
             \/ ReserveIssue(t) \/ CommitIssue(t) \/ RejectIssue(t) \/ CommitUnknown(t)
             \/ CancelIssueReservation(t) \/ ConfirmIssue(t) \/ CancelIssue(t)
             \/ IssueCallerDown(t)
      PROVE  OInv'
  <2>1. UNCHANGED tombVars
    BY <1>3 DEF ReserveIssue, CommitIssue, RejectIssue, CommitUnknown,
         CancelIssueReservation, RemoveIssueReservation, ConfirmIssue, CancelIssue,
         CancelPendingIssue, IssueCallerDown, vars
  <2> QED BY <1>0, <1>1, <1>3, <2>1, HandshakeRemembered DEF OInv
<1>4. ASSUME \/ Close \/ ProducerDown \/ OwnerKilled \/ ExecutorExit \/ ExecutorCrash
             \/ ReleaseResult \/ ExecutorDown
             \/ \E c \in Callers : Drain(c) \/ RemoveDrainWaiter(c)
             \/ \E c \in Callers, t \in Tokens : Retry(c, t)
             \/ \E m \in fired : RetryTimer(m[1], m[2])
             \/ \E m \in timers : TimerFires(m[1], m[2])
             \/ \E ok \in BOOLEAN : ExecuteRelease(ok)
      PROVE  OInv'
  <2>1. UNCHANGED tombVars
    BY <1>4 DEF Close, ProducerDown, BeginDrain, OwnerKilled, ExecutorExit,
         ExecutorCrash, ReleaseResult, ExecutorDown, FinishReleased, FinishFailed,
         Drain, RemoveDrainWaiter, Retry, RetryTimer, TimerFires, ExecuteRelease
  <2> QED BY <1>0, <1>1, <1>4, <2>1, OtherRemembered DEF OInv
<1>5. CASE OwnerStep
  <2>1. \A h \in Children : h \in Holders
    BY DEF Holders
  <2> QED BY <1>0, <1>3, <1>4, <1>5, <2>1, HolderRemembered DEF OwnerStep, OInv
<1>6. CASE RuntimeStep
  BY <1>4, <1>6 DEF RuntimeStep
<1> QED BY <1>2, <1>5, <1>6 DEF Next

\* There is no tombstone initially.
LEMMA TombstoneStart == Init => OInv
<1>1. Init => Remembered /\ Eviction
  <2> SUFFICES ASSUME Init PROVE Remembered /\ Eviction
    OBVIOUS
  <2>1. TombstoneLimit >= 0
    BY OptionsAssumption
  <2> QED BY <2>1 DEF Init, Remembered, Eviction, HolderIds
<1> QED BY <1>1, UseStart DEF OInv

\* The owner ignores a release only of a holder that is already gone, and its
\* map of remembered releases and their eviction order agree, within the limit
\* (put_release_tombstone, evict_release_tombstones, the release and abandoned
\* reply_retain).
THEOREM TombstonesAlwaysSound == Spec => []TombstonesSound
BY TombstoneStart, TombstoneStep, OInvImplies, PTL DEF Spec

-----------------------------------------------------------------------------
(* No release is forgotten: the job in flight is somewhere between the owner *)
(* and its executor, and a failed entry's timer is armed or in the mailbox.  *)

\* What the executor is sent for the job in flight, what it answers, and the
\* last signal of an executor that died.
Flying == [token |-> release_job.token, generation |-> release_job.generation]

Result(x) == [token |-> release_job.token, generation |-> release_job.generation,
              result |-> x]

DyingMessage == [token |-> None, generation |-> 0, result |-> "down"]

\* The outbox that holds `done', when the executor's death is the last signal.
Announced(done) == IF executor = "down" THEN Append(done, DyingMessage) ELSE done

\* The executor, alive or dead, has the job in flight to do or nothing.
Sent ==
  \/ executor_inbox = <<>>
  \/ release_job # NoJob /\ executor_inbox = <<Flying>>

\* While the owner runs the job is idle, with the executor, or answered; the
\* death of the executor may follow in each case.
Tracked ==
  owner = "up" =>
    /\ executor \in {"up", "down"}
    /\ \/ /\ release_job = NoJob /\ executor_inbox = <<>>
          /\ executor_outbox = Announced(<<>>)
       \/ /\ release_job # NoJob /\ executor_inbox = <<Flying>>
          /\ executor_outbox = Announced(<<>>)
       \/ /\ release_job # NoJob /\ executor_inbox = <<>>
          /\ \E x \in {"ok", "error"} : executor_outbox = Announced(<<Result(x)>>)

\* A timer belongs to the failure that stands; a generation is never 0, so that
\* an entry without a timer has no runtime timer either.
Timed ==
  /\ \A t \in Tokens :
       /\ retry_timers[t] # 0 =>
            /\ status[t] = "release_failed"
            /\ retry_timers[t] = release_attempts[t]
            /\ <<t, retry_timers[t]>> \in timers \cup fired
       /\ status[t] \in {"release_queued", "releasing", "release_failed"} =>
            release_attempts[t] # 0
  /\ \A m \in timers : m[2] = retry_timers[m[1]] /\ m[2] # 0

WInv == UInv /\ Sent /\ Tracked /\ Timed

\* A result with the executor's death after it.
LEMMA PairOutbox ==
  ASSUME NEW x, executor = "down", executor_outbox = Announced(<<Result(x)>>)
  PROVE  executor_outbox = <<Result(x), DyingMessage>>
<1> DEFINE S == {Result(x), DyingMessage}
           s == Append(<<Result(x)>>, DyingMessage)
<1>1. executor_outbox = s
  BY DEF Announced
<1>2. <<Result(x)>> \in Seq(S) /\ DyingMessage \in S /\ Len(<<Result(x)>>) = 1
      /\ <<Result(x)>>[1] = Result(x) /\ <<Result(x), DyingMessage>> \in Seq(S)
  OBVIOUS
<1> HIDE DEF S
<1>3. s \in Seq(S) /\ Len(s) = 2 /\ s[1] = Result(x) /\ s[2] = DyingMessage
  BY <1>2, AppendProperties
<1> HIDE DEF s
<1>4. \A i \in 1..Len(s) : s[i] = <<Result(x), DyingMessage>>[i]
  BY <1>3
<1> QED BY <1>1, <1>2, <1>3, <1>4, SeqEqual

\* The results in the outbox: none, or the first message.
LEMMA OutboxResults ==
  ASSUME NEW x \in {"ok", "error"}, executor \in {"up", "down"},
         NEW done \in {<<>>, <<Result(x)>>}, executor_outbox = Announced(done)
  PROVE  /\ {i \in 1..Len(executor_outbox) : executor_outbox[i].result # "down"} = 1..Len(done)
         /\ \A i \in 1..Len(done) : executor_outbox[i] = Result(x)
         /\ executor = "down" <=>
              /\ executor_outbox # <<>>
              /\ executor_outbox[Len(executor_outbox)].result = "down"
<1>1. Result(x).result # "down" /\ DyingMessage.result = "down"
  BY DEF Result, DyingMessage
<1>2. CASE executor = "up" /\ done = <<>>
  BY <1>2 DEF Announced
<1>3. CASE executor = "down" /\ done = <<>>
  <2>1. executor_outbox = <<DyingMessage>>
    BY <1>3 DEF Announced
  <2> QED BY <1>1, <1>3, <2>1
<1>4. CASE executor = "up" /\ done = <<Result(x)>>
  <2>1. executor_outbox = <<Result(x)>>
    BY <1>4 DEF Announced
  <2> QED BY <1>1, <1>4, <2>1
<1>5. CASE executor = "down" /\ done = <<Result(x)>>
  <2>1. executor_outbox = <<Result(x), DyingMessage>>
    BY <1>5, PairOutbox
  <2>2. /\ Len(executor_outbox) = 2 /\ executor_outbox # <<>>
        /\ executor_outbox[1] = Result(x) /\ executor_outbox[2] = DyingMessage
    BY <2>1
  <2>3. Len(done) = 1 /\ done[1] = Result(x)
    BY <1>5
  <2>4. \A i \in 1..Len(executor_outbox) : i = 1 \/ i = 2
    BY <2>2
  <2> QED BY <1>1, <1>5, <2>2, <2>3, <2>4
<1> QED BY <1>2, <1>3, <1>4, <1>5

\* The property follows.
LEMMA WInvImplies == WInv => WorkTracked
<1> SUFFICES ASSUME WInv PROVE WorkTracked
  OBVIOUS
<1> DEFINE results == {i \in 1..Len(executor_outbox) : executor_outbox[i].result # "down"}
<1>0. TypeOK /\ Tracked /\ Timed
  BY DEF WInv, UInv, IInv
<1>1. ASSUME owner = "up"
      PROVE  /\ Len(executor_inbox) + Cardinality(results) <= 1
             /\ executor_inbox # <<>> => Head(executor_inbox) = Flying
             /\ \A i \in results : /\ i = 1
                                   /\ executor_outbox[i].token = Flying.token
                                   /\ executor_outbox[i].generation = Flying.generation
             /\ release_job # NoJob => executor_inbox # <<>> \/ executor_outbox # <<>>
             /\ executor = "down" <=>
                  executor_outbox # <<>> /\ executor_outbox[Len(executor_outbox)].result = "down"
  <2>0. executor \in {"up", "down"}
    BY <1>0, <1>1 DEF Tracked
  <2>1. ASSUME executor_outbox = Announced(<<>>)
        PROVE  /\ Cardinality(results) = 0 /\ results = {}
               /\ executor = "down" <=>
                    executor_outbox # <<>> /\ executor_outbox[Len(executor_outbox)].result = "down"
    <3>1. "ok" \in {"ok", "error"} /\ <<>> \in {<<>>, <<Result("ok")>>}
      OBVIOUS
    <3>2. /\ results = 1..Len(<<>>)
          /\ executor = "down" <=>
               executor_outbox # <<>> /\ executor_outbox[Len(executor_outbox)].result = "down"
      BY <2>0, <2>1, <3>1, OutboxResults
    <3>3. 1..Len(<<>>) = {}
      OBVIOUS
    <3> QED BY <3>2, <3>3, FS_EmptySet
  <2>2. CASE /\ release_job = NoJob /\ executor_inbox = <<>>
             /\ executor_outbox = Announced(<<>>)
    BY <2>1, <2>2
  <2>3. CASE /\ release_job # NoJob /\ executor_inbox = <<Flying>>
             /\ executor_outbox = Announced(<<>>)
    <3>1. Len(executor_inbox) = 1 /\ Head(executor_inbox) = Flying
      BY <2>3
    <3> QED BY <2>1, <2>3, <3>1
  <2>4. ASSUME NEW x \in {"ok", "error"}, executor_outbox = Announced(<<Result(x)>>),
               release_job # NoJob, executor_inbox = <<>>
        PROVE  /\ Len(executor_inbox) + Cardinality(results) <= 1
               /\ \A i \in results : /\ i = 1
                                     /\ executor_outbox[i].token = Flying.token
                                     /\ executor_outbox[i].generation = Flying.generation
               /\ executor_outbox # <<>>
               /\ executor = "down" <=>
                    executor_outbox # <<>> /\ executor_outbox[Len(executor_outbox)].result = "down"
    <3>1. /\ results = 1..Len(<<Result(x)>>)
          /\ \A i \in 1..Len(<<Result(x)>>) : executor_outbox[i] = Result(x)
          /\ executor = "down" <=>
               executor_outbox # <<>> /\ executor_outbox[Len(executor_outbox)].result = "down"
      BY <2>0, <2>4, OutboxResults
    <3>2. 1..Len(<<Result(x)>>) = {1}
      OBVIOUS
    <3>3. executor_outbox[1] = Result(x) /\ Cardinality(results) = 1
      BY <3>1, <3>2, FS_Singleton
    <3>4. Len(executor_inbox) = 0
      BY <2>4
    <3>5. executor_outbox # <<>>
      BY <2>4 DEF Announced
    <3> QED BY <3>1, <3>2, <3>3, <3>4, <3>5 DEF Flying, Result
  <2>5. executor_inbox = <<>> \/ executor_inbox = <<Flying>>
    BY <1>0, <1>1 DEF Tracked
  <2> QED BY <1>0, <1>1, <2>2, <2>3, <2>4 DEF Tracked
<1>2. ASSUME NEW t \in Tokens
      PROVE  /\ retry_timers[t] # 0 =>
                  /\ status[t] = "release_failed"
                  /\ retry_timers[t] = release_attempts[t]
                  /\ <<t, retry_timers[t]>> \in timers \cup fired
             /\ Cardinality({m \in timers : m[1] = t}) <= 1
             /\ \A m \in timers : m[1] = t => m[2] = retry_timers[t]
  <2>1. {m \in timers : m[1] = t} \in SUBSET {<<t, retry_timers[t]>>}
    <3>1. \A m \in timers : m = <<m[1], m[2]>> /\ m[2] = retry_timers[m[1]]
      BY <1>0 DEF TypeOK, Timed
    <3> QED BY <3>1
  <2>2. Cardinality({m \in timers : m[1] = t}) <= 1
    <3>1. IsFiniteSet({<<t, retry_timers[t]>>}) /\ Cardinality({<<t, retry_timers[t]>>}) = 1
      BY FS_Singleton
    <3> QED BY <2>1, <3>1, FS_Subset
  <2> QED BY <1>0, <2>2 DEF Timed
<1> QED BY <1>1, <1>2 DEF WorkTracked, Flying

-----------------------------------------------------------------------------
\* dispatch_next_release sends the executor the job that it puts in flight.
LEMMA DispatchSends ==
  ASSUME NEW st, NEW q \in Seq(Jobs), NEW j, NEW inbox, DispatchNextRelease(st, q, j, inbox)
  PROVE  \/ release_job' = j /\ executor_inbox' = inbox
         \/ j = NoJob /\ release_job' # NoJob /\ executor_inbox' = Append(inbox, Flying')
<1>1. CASE j = NoJob /\ q # <<>>
  <2>1. Head(q) \in Jobs
    BY <1>1
  <2> QED BY <1>1, <2>1, JobIsNotNoJob DEF DispatchNextRelease, Flying
<1>2. CASE ~(j = NoJob /\ q # <<>>)
  BY <1>2 DEF DispatchNextRelease
<1> QED BY <1>1, <1>2

\* A step outside the release machinery.
LEMMA WorkKept ==
  ASSUME WInv, UNCHANGED <<jobVars, timerVars, fired, executorVars>>,
         owner' = "up" => owner = "up"
  PROVE  Sent' /\ Tracked' /\ Timed'
<1>1. UNCHANGED <<status, release_attempts, release_job, executor_inbox, retry_timers,
                  timers, executor, executor_outbox>>
  BY DEF jobVars, timerVars, executorVars
<1>2. Sent'
  BY <1>1 DEF WInv, Sent, Flying
<1>3. Tracked'
  BY <1>1 DEF WInv, Tracked, Flying, Announced, Result
<1>4. Timed'
  BY <1>1 DEF WInv, Timed
<1> QED BY <1>2, <1>3, <1>4

\* release_entry: an idle executor is sent the job, a busy one keeps its own;
\* the entry's timer is cancelled, its message in the mailbox is stale.
LEMMA ReleaseEntryWork ==
  ASSUME WInv, owner = "up", NEW t \in Tokens, NEW w \in Requests \cup {None}, NEW D,
         ReleaseEntry(t, w, D), status[t] \in {"unissued", "active", "release_failed"},
         \A m \in fired : m[1] # t => m \in fired',
         UNCHANGED <<executor, executor_outbox>>
  PROVE  Sent' /\ Tracked' /\ Timed'
<1> DEFINE job == [token |-> t, generation |-> release_attempts[t] + 1, waiter |-> w]
<1>0. TypeOK /\ SingleFlight /\ Sent /\ Tracked /\ Timed
  BY DEF WInv, UInv, IInv
<1>1. Append(release_queue, job) \in Seq(Jobs)
  BY <1>0 DEF TypeOK, Jobs
<1>2. \/ release_job' = release_job /\ executor_inbox' = executor_inbox
      \/ /\ release_job = NoJob /\ release_job' # NoJob
         /\ executor_inbox' = Append(executor_inbox, Flying')
  <2>1. DispatchNextRelease([status EXCEPT ![t] = "release_queued"],
          Append(release_queue, job), release_job, executor_inbox)
    BY DEF ReleaseEntry
  <2> HIDE DEF job
  <2> QED BY <1>1, <2>1, DispatchSends
<1>3. Sent' /\ Tracked'
  <2>1. CASE release_job' = release_job /\ executor_inbox' = executor_inbox
    <3>1. Sent'
      BY <1>0, <2>1 DEF Sent, Flying
    <3>2. Tracked'
      BY <1>0, <2>1 DEF Tracked, Flying, Announced, Result
    <3> QED BY <3>1, <3>2
  <2>2. CASE /\ release_job = NoJob /\ release_job' # NoJob
             /\ executor_inbox' = Append(executor_inbox, Flying')
    <3>1. /\ executor_inbox = <<>> /\ executor \in {"up", "down"}
          /\ executor_outbox = Announced(<<>>)
      BY <1>0, <2>2 DEF Tracked
    <3>2. executor_inbox' = <<Flying'>>
      BY <2>2, <3>1
    <3>3. executor_outbox' = Announced(<<>>)'
      BY <3>1 DEF Announced
    <3> QED BY <2>2, <3>1, <3>2, <3>3 DEF Sent, Tracked
  <2> QED BY <1>2, <2>1, <2>2
<1>4. /\ status'[t] \in {"release_queued", "releasing"}
      /\ \A u \in Tokens \ {t} : Started(u)
  BY <1>0, ReleaseEntryFlight
<1>5. /\ \A u \in Tokens : retry_timers'[u] = IF u = t THEN 0 ELSE retry_timers[u]
      /\ timers' = timers \ {<<t, retry_timers[t]>>}
      /\ \A u \in Tokens : release_attempts'[u] =
           IF u = t THEN release_attempts[t] + 1 ELSE release_attempts[u]
      /\ \A u \in Tokens : release_attempts[u] \in Nat
  BY <1>0 DEF ReleaseEntry, CancelRetryTimer, TypeOK
<1>6. ASSUME NEW m \in timers'
      PROVE  m[1] # t /\ m[2] = retry_timers'[m[1]] /\ m[2] # 0
  <2>1. m \in timers /\ m # <<t, retry_timers[t]>>
    BY <1>5
  <2>2. m = <<m[1], m[2]>> /\ m[1] \in Tokens
    BY <1>0, <2>1 DEF TypeOK
  <2>3. m[2] = retry_timers[m[1]] /\ m[2] # 0
    BY <1>0, <2>1 DEF Timed
  <2> QED BY <1>5, <2>1, <2>2, <2>3
<1>7. ASSUME NEW u \in Tokens
      PROVE  /\ retry_timers'[u] # 0 =>
                  /\ status'[u] = "release_failed"
                  /\ retry_timers'[u] = release_attempts'[u]
                  /\ <<u, retry_timers'[u]>> \in timers' \cup fired'
             /\ status'[u] \in {"release_queued", "releasing", "release_failed"} =>
                  release_attempts'[u] # 0
  <2>1. CASE u = t
    BY <1>5, <2>1
  <2>2. CASE u # t
    <3>1. /\ retry_timers'[u] = retry_timers[u] /\ release_attempts'[u] = release_attempts[u]
          /\ Started(u)
      BY <1>4, <1>5, <2>2
    <3>2. <<u, retry_timers[u]>> \in timers \cup fired =>
            <<u, retry_timers[u]>> \in timers' \cup fired'
      BY <1>5, <2>2
    <3> QED BY <1>0, <3>1, <3>2 DEF Timed, Started
  <2> QED BY <2>1, <2>2
<1>8. Timed'
  BY <1>6, <1>7 DEF Timed
<1> QED BY <1>3, <1>8

\* The job in flight ends with the executor's inbox empty: the next one is
\* sent, and a failed entry gets the timer of its attempt.
LEMMA FinishWork ==
  ASSUME WInv, release_job # NoJob, NEW end \in {"retired", "release_failed"},
         DispatchNextRelease([status EXCEPT ![release_job.token] = end],
                             release_queue, NoJob, <<>>),
         \/ end = "retired" /\ UNCHANGED timerVars
         \/ end = "release_failed" /\ ScheduleRetry(release_job.token),
         UNCHANGED <<release_attempts, fired>>,
         executor' \in {"up", "down"}, executor_outbox' = Announced(<<>>)'
  PROVE  Sent' /\ Tracked' /\ Timed'
<1> DEFINE t == release_job.token
<1>0. TypeOK /\ SingleFlight /\ Timed /\ t \in Tokens
  BY JobTyped DEF WInv, UInv, IInv
<1>1. \/ release_job' = NoJob /\ executor_inbox' = <<>>
      \/ release_job' # NoJob /\ executor_inbox' = Append(<<>>, Flying')
  <2>1. release_queue \in Seq(Jobs)
    BY <1>0 DEF TypeOK
  <2> QED BY <2>1, DispatchSends
<1>2. Sent' /\ Tracked'
  <2>1. CASE release_job' = NoJob /\ executor_inbox' = <<>>
    BY <2>1 DEF Sent, Tracked
  <2>2. CASE release_job' # NoJob /\ executor_inbox' = Append(<<>>, Flying')
    <3>1. executor_inbox' = <<Flying'>>
      BY <2>2
    <3> QED BY <2>2, <3>1 DEF Sent, Tracked
  <2> QED BY <1>1, <2>1, <2>2
<1>3. /\ status[t] = "releasing" /\ status'[t] = end
      /\ \A u \in Tokens \ {t} : Started(u)
  BY <1>0, FinishFlight
<1> HIDE DEF t
<1>4. retry_timers[t] = 0 /\ release_attempts[t] # 0 /\ release_attempts[t] \in Nat
  BY <1>0, <1>3 DEF Timed, TypeOK
<1>5. \A u \in Tokens \ {t} :
        /\ retry_timers[u] # 0 => status'[u] = "release_failed"
        /\ status'[u] \in {"release_queued", "releasing", "release_failed"} =>
             release_attempts[u] # 0
  BY <1>0, <1>3 DEF Timed, Started
<1>6. CASE UNCHANGED timerVars
  <2>1. UNCHANGED <<retry_timers, timers>>
    BY <1>6 DEF timerVars
  <2> QED BY <1>0, <1>2, <1>4, <1>5, <2>1 DEF Timed
<1>7. CASE /\ retry_timers' = [retry_timers EXCEPT ![t] = release_attempts[t]]
           /\ timers' = timers \cup {<<t, release_attempts[t]>>}
           /\ end = "release_failed"
  <2>1. /\ \A u \in Tokens : retry_timers'[u] =
             IF u = t THEN release_attempts[t] ELSE retry_timers[u]
        /\ status'[t] = "release_failed"
    BY <1>0, <1>3, <1>7 DEF TypeOK
  <2>2. ASSUME NEW m \in timers' PROVE m[2] = retry_timers'[m[1]] /\ m[2] # 0
    <3>1. CASE m = <<t, release_attempts[t]>>
      BY <1>0, <1>4, <2>1, <3>1
    <3>2. CASE m \in timers
      <4>1. m[1] \in Tokens /\ m[2] = retry_timers[m[1]] /\ m[2] # 0
        BY <1>0, <3>2 DEF Timed, TypeOK
      <4>2. m[1] # t
        BY <1>4, <4>1
      <4> QED BY <2>1, <4>1, <4>2
    <3> QED BY <1>7, <3>1, <3>2
  <2>3. ASSUME NEW u \in Tokens
        PROVE  /\ retry_timers'[u] # 0 =>
                    /\ status'[u] = "release_failed"
                    /\ retry_timers'[u] = release_attempts'[u]
                    /\ <<u, retry_timers'[u]>> \in timers' \cup fired'
               /\ status'[u] \in {"release_queued", "releasing", "release_failed"} =>
                    release_attempts'[u] # 0
    <3>1. CASE u = t
      BY <1>4, <1>7, <2>1, <3>1
    <3>2. CASE u # t
      BY <1>0, <1>5, <1>7, <2>1, <3>2 DEF Timed
    <3> QED BY <3>1, <3>2
  <2>4. Timed'
    BY <2>2, <2>3 DEF Timed
  <2> QED BY <1>2, <2>4
<1> QED BY <1>6, <1>7 DEF ScheduleRetry, t

-----------------------------------------------------------------------------
\* Issuing: a rejected or cancelled issue queues a release.
LEMMA HandshakeWork ==
  ASSUME WInv, NEW t \in Tokens,
         \/ ReserveIssue(t) \/ CommitIssue(t) \/ RejectIssue(t) \/ CommitUnknown(t)
         \/ CancelIssueReservation(t) \/ ConfirmIssue(t) \/ CancelIssue(t)
         \/ IssueCallerDown(t)
  PROVE  Sent' /\ Tracked' /\ Timed'
<1> DEFINE quiet == UNCHANGED <<jobVars, timerVars, fired, executorVars>>
<1>0. /\ TypeOK /\ Admission /\ Sent /\ Tracked /\ Timed
      /\ t \in Requests \cup {None} /\ None \in Requests \cup {None}
  BY DEF WInv, UInv, IInv, Requests
<1>1. owner = "up" \/ UNCHANGED vars
  BY DEF ReserveIssue, CommitIssue, RejectIssue, CommitUnknown, CancelIssueReservation,
         ConfirmIssue, CancelIssue, IssueCallerDown
<1>2. ASSUME quiet, owner = "up" PROVE Sent' /\ Tracked' /\ Timed'
  BY <1>2, WorkKept
<1>3. ASSUME UNCHANGED vars PROVE Sent' /\ Tracked' /\ Timed'
  BY <1>3, WorkKept DEF vars, processVars
<1>4. ASSUME NEW w \in Requests \cup {None}, NEW D, ReleaseEntry(t, w, D), owner = "up",
             status[t] \in {"unissued", "active"}, UNCHANGED <<fired, executorVars>>
      PROVE  Sent' /\ Tracked' /\ Timed'
  <2>1. UNCHANGED <<executor, executor_outbox>>
    BY <1>4 DEF executorVars
  <2> QED BY <1>4, <2>1, ReleaseEntryWork
<1>5. CASE ReserveIssue(t)
  BY <1>2, <1>5 DEF ReserveIssue
<1>6. CASE CommitIssue(t)
  <2>1. /\ status[t] = "unissued" /\ owner = "up"
        /\ status' = [status EXCEPT ![t] = "active"]
        /\ UNCHANGED <<release_attempts, release_job, executor_inbox, retry_timers,
                       timers, fired, executor, executor_outbox, owner>>
    BY <1>0, <1>6 DEF CommitIssue, Admission, timerVars, executorVars, processVars
  <2>2. \A u \in Tokens : status'[u] = IF u = t THEN "active" ELSE status[u]
    BY <1>0, <2>1 DEF TypeOK
  <2>3. Sent'
    BY <1>0, <2>1 DEF Sent, Flying
  <2>4. Tracked'
    BY <1>0, <2>1 DEF Tracked, Flying, Announced, Result
  <2>5. Timed'
    BY <1>0, <2>1, <2>2 DEF Timed
  <2> QED BY <2>3, <2>4, <2>5
<1>7. CASE RejectIssue(t)
  <2>1. /\ status[t] = "unissued" /\ owner = "up" /\ ReleaseEntry(t, t, {t})
        /\ UNCHANGED <<fired, executorVars>>
    BY <1>0, <1>7 DEF RejectIssue, Admission
  <2> QED BY <1>0, <1>4, <2>1
<1>8. CASE CommitUnknown(t)
  BY <1>2, <1>8 DEF CommitUnknown
<1>9. ASSUME RemoveIssueReservation(t), owner = "up" PROVE Sent' /\ Tracked' /\ Timed'
  BY <1>2, <1>9 DEF RemoveIssueReservation
<1>10. ASSUME CancelPendingIssue(t), status[t] = "active", owner = "up"
       PROVE  Sent' /\ Tracked' /\ Timed'
  BY <1>0, <1>4, <1>10 DEF CancelPendingIssue
<1>11. CASE ConfirmIssue(t)
  BY <1>2, <1>3, <1>11 DEF ConfirmIssue
<1>12. CASE CancelIssue(t)
  BY <1>3, <1>10, <1>12 DEF CancelIssue, IssuePending
<1>13. CASE CancelIssueReservation(t)
  BY <1>9, <1>13 DEF CancelIssueReservation
<1>14. CASE IssueCallerDown(t)
  <2>1. CASE quiet /\ owner = "up"
    BY <1>2, <2>1
  <2> QED BY <1>9, <1>10, <1>14, <2>1 DEF IssueCallerDown, IssuePending
<1> QED BY <1>5, <1>6, <1>7, <1>8, <1>11, <1>12, <1>13, <1>14

\* remove_holder, of an active entry.
LEMMA RemoveHolderWork ==
  ASSUME WInv, owner = "up", NEW t \in Tokens, NEW h \in Holders, RemoveHolder(t, h),
         status[t] = "active", UNCHANGED <<fired, executorVars>>
  PROVE  Sent' /\ Tracked' /\ Timed'
<1>0. None \in Requests \cup {None} /\ UNCHANGED <<executor, executor_outbox>>
  BY DEF executorVars
<1>1. CASE ReleaseEntry(t, None, {})
  BY <1>0, <1>1, ReleaseEntryWork
<1>2. CASE UNCHANGED <<jobVars, timerVars>>
  BY <1>2, WorkKept
<1> QED BY <1>1, <1>2 DEF RemoveHolder

\* Holders come and go; the last one queues the release.
LEMMA HolderWork ==
  ASSUME WInv, NEW h \in Holders,
         \/ h \in Children /\ (RefuseRetain(h) \/ RetainCallerDown(h))
         \/ h \in Children /\ \E t \in Tokens, p \in Holders : Retain(t, p, h)
         \/ \E t \in Tokens : \/ h \in Children /\ ConfirmRetain(t, h)
                              \/ CancelRetain(t, h) \/ Release(t, h) \/ Abandoned(t, h)
  PROVE  Sent' /\ Tracked' /\ Timed'
<1>0. TypeOK
  BY DEF WInv, UInv, IInv
<1>1. ASSUME UNCHANGED <<jobVars, timerVars, fired, executorVars>>, owner = "up"
      PROVE  Sent' /\ Tracked' /\ Timed'
  BY <1>1, WorkKept
<1>2. ASSUME RefuseRetain(h) PROVE Sent' /\ Tracked' /\ Timed'
  BY <1>1, <1>2 DEF RefuseRetain
<1>3. ASSUME NEW t \in Tokens, NEW p \in Holders, Retain(t, p, h)
      PROVE  Sent' /\ Tracked' /\ Timed'
  BY <1>1, <1>3 DEF Retain
<1>4. ASSUME NEW t \in Tokens, ConfirmRetain(t, h) PROVE Sent' /\ Tracked' /\ Timed'
  BY <1>1, <1>4 DEF ConfirmRetain, vars
<1>5. ASSUME NEW t \in Tokens, CancelRetain(t, h) PROVE Sent' /\ Tracked' /\ Timed'
  BY <1>1, <1>5, RemoveHolderWork DEF CancelRetain
<1>6. ASSUME NEW t \in Tokens, Release(t, h) PROVE Sent' /\ Tracked' /\ Timed'
  BY <1>1, <1>6, RemoveHolderWork DEF Release, Holds
<1>7. ASSUME NEW t \in Tokens, Abandoned(t, h) PROVE Sent' /\ Tracked' /\ Timed'
  BY <1>1, <1>7, RemoveHolderWork DEF Abandoned, Holds
<1>8. ASSUME h \in Children, RetainCallerDown(h) PROVE Sent' /\ Tracked' /\ Timed'
  <2>1. retain_monitors[h] \in Tokens
    BY <1>0, <1>8 DEF RetainCallerDown, TypeOK
  <2> QED BY <1>1, <1>8, <2>1, RemoveHolderWork DEF RetainCallerDown
<1> QED BY <1>2, <1>3, <1>4, <1>5, <1>6, <1>7, <1>8

\* Closing, draining, and deaths other than the executor's.
LEMMA DrainWork ==
  ASSUME WInv,
         \/ Close \/ ProducerDown \/ OwnerKilled
         \/ \E c \in Callers : Drain(c) \/ RemoveDrainWaiter(c)
  PROVE  Sent' /\ Tracked' /\ Timed'
<1>1. UNCHANGED <<jobVars, timerVars, fired, executorVars>> /\ owner = "up"
  BY DEF Close, ProducerDown, BeginDrain, OwnerKilled, Drain, RemoveDrainWaiter
<1> QED BY <1>1, WorkKept

\* A result is always that of the job in flight, and takes it out of flight.
LEMMA ResultWork ==
  ASSUME WInv, ReleaseResult
  PROVE  Sent' /\ Tracked' /\ Timed'
<1>0. TypeOK /\ SingleFlight /\ Tracked
  BY DEF WInv, UInv, IInv
<1>1. /\ owner = "up" /\ executor_outbox # <<>> /\ Head(executor_outbox).result # "down"
      /\ executor_outbox' = Tail(executor_outbox) /\ UNCHANGED executor
  BY DEF ReleaseResult
<1>2. executor_outbox # Announced(<<>>)
  <2>1. SUFFICES ASSUME executor_outbox = Announced(<<>>) PROVE FALSE
    OBVIOUS
  <2>2. executor_outbox = <<DyingMessage>>
    BY <1>1, <2>1 DEF Announced
  <2> QED BY <1>1, <2>2 DEF DyingMessage
<1>3. PICK x \in {"ok", "error"} :
        /\ release_job # NoJob /\ executor_inbox = <<>> /\ executor \in {"up", "down"}
        /\ executor_outbox = Announced(<<Result(x)>>)
  BY <1>0, <1>1, <1>2 DEF Tracked
<1>4. Head(executor_outbox) = Result(x) /\ Tail(executor_outbox) = Announced(<<>>)
  <2>1. CASE executor = "up"
    <3>1. executor_outbox = <<Result(x)>>
      BY <1>3, <2>1 DEF Announced
    <3> QED BY <2>1, <3>1 DEF Announced
  <2>2. CASE executor = "down"
    <3>1. executor_outbox = <<Result(x), DyingMessage>>
      BY <1>3, <2>2, PairOutbox
    <3> QED BY <2>2, <3>1 DEF Announced
  <2> QED BY <1>3, <2>1, <2>2
<1>5. CurrentJob(Head(executor_outbox).token, Head(executor_outbox).generation)
  <2>1. release_job.token \in Tokens
    BY <1>0, <1>3, JobTyped
  <2>2. release_job.token # None
    BY <2>1, RefsAssumption DEF Requests
  <2>3. /\ status[release_job.token] = "releasing"
        /\ release_attempts[release_job.token] = release_job.generation
    BY <1>0, <1>3, <2>1, <2>2 DEF SingleFlight
  <2> QED BY <1>3, <1>4, <2>3 DEF CurrentJob, Result
<1>6. \/ FinishReleased(release_job)
      \/ FinishFailed(release_job, executor_inbox)
  BY <1>5 DEF ReleaseResult
<1>7. executor_outbox' = Announced(<<>>)' /\ executor' \in {"up", "down"}
  BY <1>1, <1>3, <1>4 DEF Announced
<1>8. CASE FinishReleased(release_job)
  <2>1. /\ DispatchNextRelease([status EXCEPT ![release_job.token] = "retired"],
                               release_queue, NoJob, <<>>)
        /\ UNCHANGED <<release_attempts, timerVars, fired>>
    BY <1>3, <1>8 DEF FinishReleased
  <2> QED BY <1>3, <1>7, <2>1, FinishWork
<1>9. CASE FinishFailed(release_job, executor_inbox)
  <2>1. /\ DispatchNextRelease([status EXCEPT ![release_job.token] = "release_failed"],
                               release_queue, NoJob, <<>>)
        /\ ScheduleRetry(release_job.token) /\ UNCHANGED <<release_attempts, fired>>
    BY <1>3, <1>9 DEF FinishFailed
  <2> QED BY <1>3, <1>7, <2>1, FinishWork
<1> QED BY <1>6, <1>8, <1>9

\* The executor's death is read after its last result: a job still in flight
\* then was lost with it, and has failed.
LEMMA ExecutorDownWork ==
  ASSUME WInv, ExecutorDown
  PROVE  Sent' /\ Tracked' /\ Timed'
<1>0. TypeOK /\ SingleFlight /\ Tracked /\ Timed
  BY DEF WInv, UInv, IInv
<1>1. /\ owner = "up" /\ executor_outbox # <<>> /\ Head(executor_outbox).result = "down"
      /\ executor_outbox' = Tail(executor_outbox) /\ executor' = "up"
  BY DEF ExecutorDown
<1>2. executor_outbox = Announced(<<>>)
  <2>1. SUFFICES ASSUME NEW x \in {"ok", "error"}, executor \in {"up", "down"},
                        executor_outbox = Announced(<<Result(x)>>)
                 PROVE  FALSE
    BY <1>0, <1>1 DEF Tracked
  <2>2. Head(executor_outbox) = Result(x)
    <3>1. CASE executor = "up"
      BY <2>1, <3>1 DEF Announced
    <3>2. CASE executor = "down"
      <4>1. executor_outbox = <<Result(x), DyingMessage>>
        BY <2>1, <3>2, PairOutbox
      <4> QED BY <4>1
    <3> QED BY <2>1, <3>1, <3>2
  <2> QED BY <1>1, <2>2 DEF Result
<1>3. executor_outbox' = <<>> /\ Announced(<<>>)' = <<>>
  <2>1. executor_outbox = <<DyingMessage>>
    BY <1>1, <1>2 DEF Announced
  <2> QED BY <1>1, <2>1 DEF Announced
<1>4. CASE release_job = NoJob
  <2>1. release_queue = <<>>
    BY <1>0, <1>4 DEF SingleFlight
  <2>2. /\ release_job' = NoJob /\ executor_inbox' = <<>>
        /\ UNCHANGED <<status, release_attempts, retry_timers, timers, fired>>
    BY <1>4, <2>1 DEF ExecutorDown, DispatchNextRelease, timerVars
  <2>3. Sent' /\ Tracked'
    BY <1>1, <1>3, <2>2 DEF Sent, Tracked
  <2>4. Timed'
    BY <1>0, <2>2 DEF Timed
  <2> QED BY <2>3, <2>4
<1>5. CASE release_job # NoJob
  <2>1. /\ DispatchNextRelease([status EXCEPT ![release_job.token] = "release_failed"],
                               release_queue, NoJob, <<>>)
        /\ ScheduleRetry(release_job.token) /\ UNCHANGED <<release_attempts, fired>>
    BY <1>5 DEF ExecutorDown, FinishFailed
  <2> QED BY <1>1, <1>3, <1>5, <2>1, FinishWork
<1> QED BY <1>4, <1>5

\* The executor answers the job it was sent, and its death follows what it did.
LEMMA ExecutorWork ==
  ASSUME WInv,
         ExecutorCrash \/ ExecutorExit \/ \E ok \in BOOLEAN : ExecuteRelease(ok)
  PROVE  Sent' /\ Tracked' /\ Timed'
<1>0. TypeOK /\ Sent /\ Tracked /\ Timed
  BY DEF WInv, UInv, IInv
<1>1. UNCHANGED <<status, release_attempts, release_job, retry_timers, timers, fired, owner>>
  BY DEF ExecutorCrash, ExecutorExit, ExecuteRelease, jobVars, timerVars, processVars
<1>2. Timed'
  BY <1>0, <1>1 DEF Timed
<1>3. CASE ExecutorCrash
  <2>1. /\ owner = "up" /\ executor = "up" /\ executor' = "down" /\ UNCHANGED executor_inbox
        /\ executor_outbox' = Append(executor_outbox, DyingMessage)
    BY <1>3 DEF ExecutorCrash, jobVars, DyingMessage
  <2>2. Sent'
    BY <1>0, <1>1, <2>1 DEF Sent, Flying
  <2>3. Tracked'
    BY <1>0, <1>1, <2>1 DEF Tracked, Flying, Announced, Result, DyingMessage
  <2> QED BY <1>2, <2>2, <2>3
<1>4. CASE ExecutorExit
  <2>1. owner # "up" /\ UNCHANGED executor_inbox
    BY <1>4 DEF ExecutorExit, jobVars
  <2>2. Sent'
    BY <1>0, <1>1, <2>1 DEF Sent, Flying
  <2> QED BY <1>1, <1>2, <2>1, <2>2 DEF Tracked
<1>5. ASSUME NEW ok \in BOOLEAN, ExecuteRelease(ok) PROVE Sent' /\ Tracked'
  <2> DEFINE x == IF ok THEN "ok" ELSE "error"
             m == Head(executor_inbox)
  <2>1. /\ executor = "up" /\ executor_inbox # <<>>
        /\ executor_outbox' = Append(executor_outbox,
             [token |-> m.token, generation |-> m.generation, result |-> x])
        /\ executor_inbox' = Tail(executor_inbox) /\ UNCHANGED executor
    BY <1>5 DEF ExecuteRelease
  <2>2. release_job # NoJob /\ executor_inbox = <<Flying>>
    BY <1>0, <2>1 DEF Sent
  <2>3. m = Flying /\ executor_inbox' = <<>>
    BY <2>1, <2>2
  <2>4. executor_outbox' = Append(executor_outbox, Result(x)) /\ x \in {"ok", "error"}
    BY <2>1, <2>3 DEF Flying, Result
  <2> HIDE DEF x, m
  <2>5. ASSUME owner = "up" PROVE Tracked'
    <3>1. executor_outbox = <<>>
      BY <1>0, <2>1, <2>2, <2>5 DEF Tracked, Announced
    <3>2. executor_outbox' = <<Result(x)>> /\ Result(x)' = Result(x)
      BY <1>1, <2>4, <3>1 DEF Result
    <3> QED BY <1>1, <2>1, <2>2, <2>3, <2>4, <3>2 DEF Tracked, Announced
  <2>6. owner # "up" => Tracked'
    BY <1>1 DEF Tracked
  <2> QED BY <2>3, <2>5, <2>6 DEF Sent
<1> QED BY <1>2, <1>3, <1>4, <1>5

\* Timers fire once, and a stale message changes nothing.
LEMMA TimerWork ==
  ASSUME WInv,
         \/ \E m \in timers : TimerFires(m[1], m[2])
         \/ \E m \in fired : RetryTimer(m[1], m[2])
         \/ \E c \in Callers, t \in Tokens : Retry(c, t)
  PROVE  Sent' /\ Tracked' /\ Timed'
<1>0. TypeOK /\ Sent /\ Tracked /\ Timed /\ None \in Requests \cup {None}
  BY DEF WInv, UInv, IInv
<1>1. ASSUME UNCHANGED <<jobVars, executorVars, processVars>> PROVE Sent' /\ Tracked'
  <2>1. UNCHANGED <<release_job, executor_inbox, executor, executor_outbox, owner>>
    BY <1>1 DEF jobVars, executorVars, processVars
  <2>2. Sent'
    BY <1>0, <2>1 DEF Sent, Flying
  <2>3. Tracked'
    BY <1>0, <2>1 DEF Tracked, Flying, Announced, Result
  <2> QED BY <2>2, <2>3
<1>2. ASSUME NEW m \in timers, TimerFires(m[1], m[2]) PROVE Sent' /\ Tracked' /\ Timed'
  <2>1. /\ timers' = timers \ {<<m[1], m[2]>>} /\ fired' = fired \cup {<<m[1], m[2]>>}
        /\ UNCHANGED <<status, release_attempts, retry_timers>>
        /\ UNCHANGED <<jobVars, executorVars, processVars>>
    BY <1>2 DEF TimerFires, jobVars
  <2>2. Timed'
    BY <1>0, <2>1 DEF Timed
  <2> QED BY <1>1, <2>1, <2>2
<1>3. ASSUME NEW m \in fired, RetryTimer(m[1], m[2]) PROVE Sent' /\ Tracked' /\ Timed'
  <2>1. /\ m[1] \in Tokens /\ m = <<m[1], m[2]>> /\ owner = "up"
        /\ fired' = fired \ {<<m[1], m[2]>>} /\ UNCHANGED <<executorVars, processVars>>
    BY <1>0, <1>3 DEF RetryTimer, TypeOK
  <2>2. CASE status[m[1]] = "release_failed" /\ ReleaseEntry(m[1], None, {})
    <3>1. UNCHANGED <<executor, executor_outbox>> /\ \A k \in fired : k[1] # m[1] => k \in fired'
      BY <2>1 DEF executorVars
    <3> QED BY <1>0, <2>1, <2>2, <3>1, ReleaseEntryWork
  <2>3. CASE /\ ~(retry_timers[m[1]] = m[2] /\ status[m[1]] = "release_failed")
             /\ retry_timers' = [retry_timers EXCEPT ![m[1]] = IF @ = m[2] THEN 0 ELSE @]
             /\ UNCHANGED <<jobVars, timers>>
    <3>1. \A u \in Tokens : retry_timers'[u] = retry_timers[u]
      BY <1>0, <2>1, <2>3 DEF Timed, TypeOK
    <3>2. retry_timers[m[1]] # 0 => retry_timers[m[1]] # m[2]
      BY <1>0, <2>1, <2>3 DEF Timed
    <3>3. \A u \in Tokens : retry_timers[u] # 0 /\ <<u, retry_timers[u]>> \in fired =>
            <<u, retry_timers[u]>> \in fired'
      BY <2>1, <3>2
    <3>4. UNCHANGED <<status, release_attempts, timers>>
      BY <2>3 DEF jobVars
    <3>5. \A k \in timers : k[1] \in Tokens
      BY <1>0 DEF TypeOK
    <3>6. Timed'
      BY <1>0, <3>1, <3>3, <3>4, <3>5 DEF Timed
    <3> QED BY <1>1, <2>1, <2>3, <3>6
  <2> QED BY <1>3, <2>2, <2>3 DEF RetryTimer
<1>4. ASSUME NEW c \in Callers, NEW t \in Tokens, Retry(c, t)
      PROVE  Sent' /\ Tracked' /\ Timed'
  <2>1. /\ c \in Requests \cup {None} /\ owner = "up"
        /\ UNCHANGED <<fired, executorVars, processVars>>
    BY <1>4 DEF Retry, Requests
  <2>2. CASE status[t] = "release_failed" /\ ReleaseEntry(t, c, {})
    <3>1. UNCHANGED <<executor, executor_outbox, fired>>
      BY <2>1 DEF executorVars
    <3> QED BY <2>1, <2>2, <3>1, ReleaseEntryWork
  <2>3. CASE status[t] # "release_failed" /\ CancelRetryTimer(t) /\ UNCHANGED jobVars
    <3>1. retry_timers[t] = 0
      BY <1>0, <2>3 DEF Timed
    <3>2. /\ \A u \in Tokens : retry_timers'[u] = retry_timers[u]
          /\ \A k \in timers : k[1] \in Tokens
      BY <1>0, <2>3, <3>1 DEF CancelRetryTimer, TypeOK
    <3>3. timers' = timers
      BY <1>0, <2>3, <3>1 DEF CancelRetryTimer, Timed
    <3>4. UNCHANGED <<status, release_attempts, fired>>
      BY <2>1, <2>3 DEF jobVars
    <3>5. Timed'
      BY <1>0, <3>2, <3>3, <3>4 DEF Timed
    <3> QED BY <1>1, <2>1, <2>3, <3>5
  <2> QED BY <1>4, <2>2, <2>3 DEF Retry
<1> QED BY <1>2, <1>3, <1>4

\* Every step keeps track of the work.
LEMMA WorkStep == WInv /\ [Next]_vars => WInv'
<1> SUFFICES ASSUME WInv, [Next]_vars PROVE WInv'
  OBVIOUS
<1>0. UInv'
  BY UseStep DEF WInv
<1>1. CASE UNCHANGED vars
  BY <1>0, <1>1, WorkKept DEF WInv, vars, processVars
<1>2. CASE OwnerStep
  <2>1. \A h \in Children : h \in Holders
    BY DEF Holders
  <2> QED BY <1>0, <1>2, <2>1, HandshakeWork, HolderWork, DrainWork, ResultWork,
             ExecutorDownWork, TimerWork DEF OwnerStep, WInv
<1>3. CASE RuntimeStep
  BY <1>0, <1>3, DrainWork, ExecutorWork, TimerWork DEF RuntimeStep, WInv
<1> QED BY <1>1, <1>2, <1>3 DEF Next

\* In every reachable state.
LEMMA WorkInvariant == Spec => []WInv
<1>1. Init => Sent /\ Tracked /\ Timed
  BY DEF Init, Sent, Tracked, Timed, Announced
<1>2. Init /\ UInv => WInv
  BY <1>1 DEF WInv
<1> QED BY <1>2, UseInvariant, WorkStep, PTL DEF Spec

\* No release is forgotten, however often the executor dies and whenever its
\* death is read: the job in flight is with the executor, or its result or the
\* executor's DOWN is on the way; and a failed release has at most one timer,
\* of that failure (release_executor_loop, handle_release_executor_down,
\* schedule_retry, cancel_retry_timer).
THEOREM WorkAlwaysTracked == Spec => []WorkTracked
<1> QED BY WInvImplies, WorkInvariant, PTL

-----------------------------------------------------------------------------
(* Draining ends as promised.                                              *)

\* DrainSettled without what follows from the other invariants: a waiter waits
\* for an entry or a reservation, and behind no failure; an owner stops only
\* when it is closed and drained.
Settling ==
  /\ drain_monitors = drain_waiters
  /\ drain_waiters # {} =>
       /\ mode = "draining" /\ ReleaseFailures = {}
       /\ Leases # {} \/ issue_reservations # {}
  /\ owner = "stopped" => mode = "draining" /\ Drained /\ drain_waiters = {}

DInv == UInv /\ Settling

\* The property follows: without entries no holder, timer or pending issue is
\* left, and without a job the executor has nothing to do.
LEMMA SettlingImplies ==
  ASSUME MInv, WInv, HolderAccounting, Settling
  PROVE  DrainSettled
<1> SUFFICES ASSUME owner = "stopped"
             PROVE  /\ mode = "draining" /\ Drained
                    /\ active_holders = 0 /\ drain_waiters = {}
                    /\ executor_inbox = <<>>
                    /\ \A t \in Tokens : retry_timers[t] = 0 /\ issue_monitors[t] = "none"
  BY DEF DrainSettled, Settling
<1>0. /\ TypeOK /\ Monitored /\ Sent /\ Timed
      /\ mode = "draining" /\ Drained /\ drain_waiters = {}
  BY DEF MInv, WInv, UInv, IInv, Settling
<1>1. \A t \in Tokens : status[t] \notin EntryStatus
  BY <1>0 DEF Drained, Leases
<1>2. active_holders = 0
  <2>1. \A t \in Tokens : holders[t] = {}
    BY <1>1 DEF HolderAccounting, EntryStatus
  <2>2. {id \in HolderIds : id[2] \in holders[id[1]]} = {}
    BY <2>1 DEF HolderIds
  <2> QED BY <2>2, FS_EmptySet DEF HolderAccounting
<1>3. executor_inbox = <<>>
  BY <1>0 DEF Drained, Sent
<1>4. \A t \in Tokens : retry_timers[t] = 0
  BY <1>0, <1>1 DEF Timed, EntryStatus
<1>5. \A t \in Tokens : issue_monitors[t] = "none"
  <2>1. \A t \in Tokens : issue_monitors[t] \in {"none", "reservation", "issue"}
    BY <1>0 DEF TypeOK
  <2> QED BY <1>0, <1>1, <2>1 DEF Monitored, Drained, EntryStatus
<1> QED BY <1>0, <1>2, <1>3, <1>4, <1>5

\* A failed entry has no holders, so every one counts as a release failure.
LEMMA FailuresAre ==
  ASSUME Held
  PROVE  ReleaseFailures = {t \in Tokens : status[t] = "release_failed"}
BY DEF Held, ReleaseFailures, Leases, EntryStatus

\* The same of the next state.
LEMMA FailuresNext ==
  ASSUME UInv'
  PROVE  ReleaseFailures' = {t \in Tokens : status'[t] = "release_failed"}
<1>1. (Held => ReleaseFailures = {t \in Tokens : status[t] = "release_failed"})'
  BY FailuresAre, PTL
<1> QED BY <1>1 DEF UInv

\* A step that keeps the owner and the waiters, fails no release and leaves an
\* entry or a reservation if there was one.
LEMMA SettlingKept ==
  ASSUME DInv, UInv', UNCHANGED <<owner, drain_waiters, drain_monitors>>,
         mode = "draining" => mode' = "draining",
         \A t \in Tokens : status'[t] = "release_failed" => status[t] = "release_failed",
         Leases # {} \/ issue_reservations # {} =>
           Leases' # {} \/ issue_reservations' # {},
         owner # "stopped"
  PROVE  Settling'
<1>1. ReleaseFailures' \subseteq ReleaseFailures
  BY FailuresAre, FailuresNext DEF DInv, UInv
<1> QED BY <1>1 DEF DInv, Settling

\* A step that none of this sees.
LEMMA SettlingSame ==
  ASSUME DInv, UInv', UNCHANGED <<owner, mode, issue_reservations, status, holders,
                                  release_job, release_queue,
                                  drain_waiters, drain_monitors>>
  PROVE  Settling'
BY DEF DInv, Settling, ReleaseFailures, Leases, Drained

\* stop_or_continue_after_release stops in the step that drains the owner, and
\* answers every waiter.
LEMMA StopSettles ==
  ASSUME DInv, UInv', owner = "up", StopOrContinue,
         mode = "draining" => mode' = "draining",
         \A t \in Tokens : status'[t] = "release_failed" => status[t] = "release_failed"
  PROVE  Settling'
<1>1. CASE mode' = "draining" /\ Drained' /\ CompleteDrain
  BY <1>1 DEF DInv, Settling, CompleteDrain
<1>2. CASE ~(mode' = "draining" /\ Drained') /\ UNCHANGED <<owner, drainVars>>
  <2>1. ReleaseFailures' \subseteq ReleaseFailures
    BY FailuresAre, FailuresNext DEF DInv, UInv
  <2>2. Drained' <=> Leases' = {} /\ issue_reservations' = {}
    BY DrainedWhenEmpty
  <2>3. UNCHANGED <<owner, drain_waiters, drain_monitors>>
    BY <1>2 DEF drainVars
  <2> QED BY <1>2, <2>1, <2>2, <2>3 DEF DInv, Settling
<1> QED BY <1>1, <1>2 DEF StopOrContinue

\* release_entry makes its token an entry that waits or runs.
LEMMA ReleaseEntrySettles ==
  ASSUME UInv, NEW t \in Tokens, NEW w \in Requests \cup {None}, NEW D,
         ReleaseEntry(t, w, D), status[t] \in {"unissued", "active", "release_failed"}
  PROVE  /\ Leases' # {}
         /\ \A u \in Tokens : status'[u] = "release_failed" => status[u] = "release_failed"
<1>1. /\ status'[t] \in {"release_queued", "releasing"}
      /\ \A u \in Tokens \ {t} : Started(u)
  BY ReleaseEntryFlight DEF UInv, IInv
<1> QED BY <1>1 DEF Started, Leases, EntryStatus

\* remove_holder, of an active entry, which stays an entry.
LEMMA RemoveHolderSettles ==
  ASSUME DInv, UInv', owner = "up", NEW t \in Tokens, NEW h \in Holders,
         RemoveHolder(t, h), status[t] = "active"
  PROVE  Settling'
<1>0. None \in Requests \cup {None} /\ UInv
  BY DEF DInv
<1>1. CASE ReleaseEntry(t, None, {}) /\ UNCHANGED <<producer, mode>> /\ StopOrContinue
  <2>1. \A u \in Tokens : status'[u] = "release_failed" => status[u] = "release_failed"
    BY <1>0, <1>1, ReleaseEntrySettles
  <2> QED BY <1>1, <2>1, StopSettles
<1>2. CASE UNCHANGED <<processVars, issue_reservations, jobVars, drainVars>>
  <2>1. UNCHANGED <<owner, mode, status, drain_waiters, drain_monitors>>
    BY <1>2 DEF processVars, jobVars, drainVars
  <2> QED BY <1>2, <2>1, SettlingKept DEF Leases
<1> QED BY <1>1, <1>2 DEF RemoveHolder

-----------------------------------------------------------------------------
\* Issuing: a commit turns the reservation into an entry.
LEMMA HandshakeSettles ==
  ASSUME DInv, UInv', NEW t \in Tokens,
         \/ ReserveIssue(t) \/ CommitIssue(t) \/ RejectIssue(t) \/ CommitUnknown(t)
         \/ CancelIssueReservation(t) \/ ConfirmIssue(t) \/ CancelIssue(t)
         \/ IssueCallerDown(t)
  PROVE  Settling'
<1>0. /\ UInv /\ TypeOK /\ Admission /\ Settling
      /\ t \in Requests \cup {None} /\ None \in Requests \cup {None}
  BY DEF DInv, UInv, IInv, Requests
<1>1. ASSUME UNCHANGED <<processVars, issue_reservations, holderVars, jobVars, drainVars>>
      PROVE  Settling'
  <2>1. UNCHANGED <<owner, mode, status, holders, release_job, release_queue,
                    drain_waiters, drain_monitors>>
    BY <1>1 DEF processVars, holderVars, jobVars, drainVars
  <2> QED BY <1>1, <2>1, SettlingSame
<1>2. CASE ReserveIssue(t)
  <2>1. /\ owner = "up" /\ issue_reservations \subseteq issue_reservations'
        /\ UNCHANGED <<owner, mode, status, drain_waiters, drain_monitors>>
    BY <1>2 DEF ReserveIssue, processVars, jobVars, drainVars
  <2>2. Leases' = Leases
    BY <2>1 DEF Leases
  <2> QED BY <2>1, <2>2, SettlingKept
<1>3. CASE CommitIssue(t)
  <2>1. /\ owner = "up" /\ status' = [status EXCEPT ![t] = "active"]
        /\ UNCHANGED <<owner, mode, drain_waiters, drain_monitors>>
    BY <1>3 DEF CommitIssue, processVars, drainVars
  <2>2. \A u \in Tokens : status'[u] = IF u = t THEN "active" ELSE status[u]
    BY <1>0, <2>1 DEF TypeOK
  <2>3. Leases' # {}
    BY <2>2 DEF Leases, EntryStatus
  <2> QED BY <2>1, <2>2, <2>3, SettlingKept
<1>4. CASE RejectIssue(t)
  <2>1. /\ owner = "up" /\ status[t] = "unissued" /\ ReleaseEntry(t, t, {t})
        /\ UNCHANGED <<owner, mode, drain_waiters, drain_monitors>>
    BY <1>0, <1>4 DEF RejectIssue, Admission, processVars, drainVars
  <2>2. /\ Leases' # {}
        /\ \A u \in Tokens : status'[u] = "release_failed" => status[u] = "release_failed"
    BY <1>0, <2>1, ReleaseEntrySettles
  <2> QED BY <2>1, <2>2, SettlingKept
<1>5. CASE CommitUnknown(t)
  <2>1. /\ owner' = "corrupt"
        /\ UNCHANGED <<mode, issue_reservations, status, holders, drain_waiters,
                       drain_monitors>>
    BY <1>5 DEF CommitUnknown, holderVars, jobVars, drainVars
  <2> QED BY <1>0, <2>1 DEF Settling, ReleaseFailures, Leases
<1>6. ASSUME RemoveIssueReservation(t), owner = "up" PROVE Settling'
  <2>1. StopOrContinue /\ UNCHANGED <<mode, status>>
    BY <1>6 DEF RemoveIssueReservation, jobVars
  <2> QED BY <1>6, <2>1, StopSettles
<1>7. ASSUME CancelPendingIssue(t), status[t] = "active", owner = "up" PROVE Settling'
  <2>1. StopOrContinue /\ UNCHANGED mode /\ ReleaseEntry(t, None, {})
    BY <1>7 DEF CancelPendingIssue
  <2>2. \A u \in Tokens : status'[u] = "release_failed" => status[u] = "release_failed"
    BY <1>0, <1>7, <2>1, ReleaseEntrySettles
  <2> QED BY <1>7, <2>1, <2>2, StopSettles
<1>8. CASE ConfirmIssue(t)
  BY <1>1, <1>8 DEF ConfirmIssue, vars
<1>9. CASE CancelIssue(t)
  BY <1>1, <1>7, <1>9 DEF CancelIssue, IssuePending, vars
<1>10. CASE CancelIssueReservation(t)
  BY <1>6, <1>10 DEF CancelIssueReservation
<1>11. CASE IssueCallerDown(t)
  <2>1. CASE UNCHANGED <<processVars, issue_reservations, holderVars, jobVars, drainVars>>
    BY <1>1, <2>1
  <2> QED BY <1>6, <1>7, <1>11, <2>1 DEF IssueCallerDown, IssuePending
<1> QED BY <1>2, <1>3, <1>4, <1>5, <1>8, <1>9, <1>10, <1>11

\* Holders come and go.
LEMMA HolderSettles ==
  ASSUME DInv, UInv', NEW h \in Holders,
         \/ h \in Children /\ (RefuseRetain(h) \/ RetainCallerDown(h))
         \/ h \in Children /\ \E t \in Tokens, p \in Holders : Retain(t, p, h)
         \/ \E t \in Tokens : \/ h \in Children /\ ConfirmRetain(t, h)
                              \/ CancelRetain(t, h) \/ Release(t, h) \/ Abandoned(t, h)
  PROVE  Settling'
<1>0. TypeOK /\ Settling
  BY DEF DInv, UInv, IInv
<1>1. ASSUME UNCHANGED <<processVars, issue_reservations, jobVars, drainVars>>, owner = "up"
      PROVE  Settling'
  <2>1. UNCHANGED <<owner, mode, status, drain_waiters, drain_monitors>>
    BY <1>1 DEF processVars, jobVars, drainVars
  <2>2. Leases' = Leases
    BY <2>1 DEF Leases
  <2> QED BY <1>1, <2>1, <2>2, SettlingKept
<1>2. ASSUME RefuseRetain(h) PROVE Settling'
  BY <1>1, <1>2 DEF RefuseRetain
<1>3. ASSUME NEW t \in Tokens, NEW p \in Holders, Retain(t, p, h) PROVE Settling'
  BY <1>1, <1>3 DEF Retain
<1>4. ASSUME NEW t \in Tokens, ConfirmRetain(t, h) PROVE Settling'
  BY <1>1, <1>4 DEF ConfirmRetain, vars
<1>5. ASSUME NEW t \in Tokens, CancelRetain(t, h) PROVE Settling'
  BY <1>1, <1>5, RemoveHolderSettles DEF CancelRetain
<1>6. ASSUME NEW t \in Tokens, Release(t, h) PROVE Settling'
  BY <1>1, <1>6, RemoveHolderSettles DEF Release, Holds
<1>7. ASSUME NEW t \in Tokens, Abandoned(t, h) PROVE Settling'
  BY <1>1, <1>7, RemoveHolderSettles DEF Abandoned, Holds
<1>8. ASSUME h \in Children, RetainCallerDown(h) PROVE Settling'
  <2>1. retain_monitors[h] \in Tokens
    BY <1>0, <1>8 DEF RetainCallerDown, TypeOK
  <2> QED BY <1>1, <1>8, <2>1, RemoveHolderSettles DEF RetainCallerDown
<1> QED BY <1>2, <1>3, <1>4, <1>5, <1>6, <1>7, <1>8

\* Closing and draining: a waiter is added only while it has something to wait
\* for and nothing has failed.
LEMMA DrainSettles ==
  ASSUME DInv, UInv',
         \/ Close \/ ProducerDown \/ OwnerKilled
         \/ \E c \in Callers : Drain(c) \/ RemoveDrainWaiter(c)
  PROVE  Settling'
<1>0. Settling
  BY DEF DInv
<1>1. ASSUME Close \/ ProducerDown PROVE Settling'
  <2>1. owner = "up" /\ mode' = "draining" /\ StopOrContinue /\ UNCHANGED status
    BY <1>1 DEF Close, ProducerDown, BeginDrain, jobVars
  <2> QED BY <2>1, StopSettles
<1>2. CASE OwnerKilled
  <2>1. /\ owner' = "killed"
        /\ UNCHANGED <<mode, issue_reservations, status, holders, drain_waiters,
                       drain_monitors>>
    BY <1>2 DEF OwnerKilled, holderVars, jobVars, drainVars
  <2> QED BY <1>0, <2>1 DEF Settling, ReleaseFailures, Leases
<1>3. ASSUME NEW c \in Callers, Drain(c) PROVE Settling'
  <2>1. /\ owner = "up" /\ mode' = "draining"
        /\ UNCHANGED <<issue_reservations, status, holders, release_job, release_queue>>
    BY <1>3 DEF Drain, holderVars, jobVars
  <2>2. ReleaseFailures' = ReleaseFailures /\ Leases' = Leases
    BY <2>1 DEF ReleaseFailures, Leases
  <2>3. CASE UNCHANGED <<owner, drainVars>>
    BY <1>0, <2>1, <2>2, <2>3 DEF Settling, drainVars
  <2>4. CASE /\ Leases = {} /\ issue_reservations = {} /\ owner' = "stopped"
             /\ drain_waiters' = {} /\ drain_monitors' = drain_monitors \ drain_waiters
    <3>1. Drained'
      BY <2>1, <2>2, <2>4, DrainedWhenEmpty
    <3> QED BY <1>0, <2>1, <2>4, <3>1 DEF Settling
  <2>5. CASE /\ ReleaseFailures = {}
             /\ Leases # {} \/ issue_reservations # {}
             /\ drain_waiters' = drain_waiters \cup {c}
             /\ drain_monitors' = drain_monitors \cup {c}
             /\ UNCHANGED owner
    BY <1>0, <2>1, <2>2, <2>5 DEF Settling
  <2> QED BY <1>3, <2>3, <2>4, <2>5 DEF Drain
<1>4. ASSUME NEW c \in Callers, RemoveDrainWaiter(c) PROVE Settling'
  <2>1. /\ owner = "up" /\ drain_waiters' = drain_waiters \ {c}
        /\ drain_monitors' = drain_monitors \ {c}
        /\ UNCHANGED <<owner, mode, issue_reservations, status, holders>>
    BY <1>4 DEF RemoveDrainWaiter, processVars, holderVars, jobVars
  <2> QED BY <1>0, <2>1 DEF Settling, ReleaseFailures, Leases
<1> QED BY <1>1, <1>2, <1>3, <1>4

\* A job that ends: a failure answers every waiter, a success is followed by
\* the same decision as stop_or_continue_after_release.
LEMMA FinishSettles ==
  ASSUME DInv, UInv', owner = "up", release_job # NoJob, NEW inbox,
         FinishReleased(release_job) \/ FinishFailed(release_job, inbox)
  PROVE  Settling'
<1>0. Settling /\ TypeOK /\ SingleFlight /\ release_job.token \in Tokens
  BY JobTyped DEF DInv, UInv, IInv
<1>1. CASE FinishReleased(release_job)
  <2>1. /\ status'[release_job.token] = "retired"
        /\ \A u \in Tokens \ {release_job.token} : Started(u)
    BY <1>0, <1>1, FinishFlight DEF FinishReleased
  <2>2. \A u \in Tokens : status'[u] = "release_failed" => status[u] = "release_failed"
    BY <2>1 DEF Started
  <2>3. ReleaseFailures' \subseteq ReleaseFailures
    BY <2>2, FailuresAre, FailuresNext DEF DInv, UInv
  <2>4. Drained' <=> Leases' = {} /\ issue_reservations' = {}
    BY DrainedWhenEmpty
  <2>5. /\ UNCHANGED mode
        /\ \/ mode = "draining" /\ Drained' /\ CompleteDrain
           \/ ~(mode = "draining" /\ Drained') /\ UNCHANGED <<owner, drainVars>>
    BY <1>1 DEF FinishReleased
  <2>6. CASE mode = "draining" /\ Drained' /\ CompleteDrain
    BY <1>0, <2>5, <2>6 DEF Settling, CompleteDrain
  <2>7. CASE ~(mode = "draining" /\ Drained') /\ UNCHANGED <<owner, drainVars>>
    <3>1. UNCHANGED <<owner, drain_waiters, drain_monitors>>
      BY <2>7 DEF drainVars
    <3> QED BY <1>0, <2>3, <2>4, <2>5, <2>7, <3>1 DEF Settling
  <2> QED BY <2>5, <2>6, <2>7
<1>2. CASE FinishFailed(release_job, inbox)
  <2>1. /\ drain_waiters' = {} /\ drain_monitors' = drain_monitors \ drain_waiters
        /\ UNCHANGED owner
    BY <1>2 DEF FinishFailed, processVars
  <2> QED BY <1>0, <2>1 DEF Settling
<1> QED BY <1>1, <1>2

\* Results, the executor's death, and retries.
LEMMA ReleaseSettles ==
  ASSUME DInv, UInv',
         \/ ReleaseResult \/ ExecutorDown
         \/ \E m \in fired : RetryTimer(m[1], m[2])
         \/ \E c \in Callers, t \in Tokens : Retry(c, t)
  PROVE  Settling'
<1>0. UInv /\ TypeOK /\ SingleFlight /\ None \in Requests \cup {None}
  BY DEF DInv, UInv, IInv
<1>1. ASSUME UNCHANGED <<processVars, issue_reservations, holderVars, jobVars, drainVars>>
      PROVE  Settling'
  <2>1. UNCHANGED <<owner, mode, status, holders, release_job, release_queue,
                    drain_waiters, drain_monitors>>
    BY <1>1 DEF processVars, holderVars, jobVars, drainVars
  <2> QED BY <1>1, <2>1, SettlingSame
<1>2. CASE ReleaseResult
  BY <1>1, <1>2, FinishSettles DEF ReleaseResult, CurrentJob
<1>3. CASE ExecutorDown
  <2>1. CASE release_job = NoJob
    <3>1. release_queue = <<>>
      BY <1>0, <2>1 DEF SingleFlight
    <3>2. /\ UNCHANGED <<processVars, issue_reservations, holderVars, drainVars>>
          /\ UNCHANGED <<status, release_job, release_queue>>
      BY <1>3, <2>1, <3>1 DEF ExecutorDown, DispatchNextRelease
    <3>3. UNCHANGED <<owner, mode, holders, drain_waiters, drain_monitors>>
      BY <3>2 DEF processVars, holderVars, drainVars
    <3> QED BY <3>2, <3>3, SettlingSame
  <2>2. CASE release_job # NoJob
    BY <1>3, <2>2, FinishSettles DEF ExecutorDown
  <2> QED BY <2>1, <2>2
<1>4. ASSUME NEW t \in Tokens, NEW w \in Requests \cup {None}, ReleaseEntry(t, w, {}),
             status[t] = "release_failed", owner = "up",
             UNCHANGED <<processVars, drainVars>>
      PROVE  Settling'
  <2>1. /\ Leases' # {}
        /\ \A u \in Tokens : status'[u] = "release_failed" => status[u] = "release_failed"
    BY <1>0, <1>4, ReleaseEntrySettles
  <2>2. UNCHANGED <<owner, mode, drain_waiters, drain_monitors>>
    BY <1>4 DEF processVars, drainVars
  <2> QED BY <1>4, <2>1, <2>2, SettlingKept
<1>5. ASSUME NEW m \in fired, RetryTimer(m[1], m[2]) PROVE Settling'
  <2>1. m[1] \in Tokens
    BY <1>0 DEF TypeOK
  <2> QED BY <1>0, <1>1, <1>4, <1>5, <2>1 DEF RetryTimer
<1>6. ASSUME NEW c \in Callers, NEW t \in Tokens, Retry(c, t) PROVE Settling'
  <2>1. c \in Requests \cup {None}
    BY DEF Requests
  <2> QED BY <1>1, <1>4, <1>6, <2>1 DEF Retry
<1> QED BY <1>2, <1>3, <1>5, <1>6

\* The executor and the timers.
LEMMA RuntimeSettles ==
  ASSUME DInv, UInv',
         \/ ExecutorExit \/ ExecutorCrash
         \/ \E m \in timers : TimerFires(m[1], m[2])
         \/ \E ok \in BOOLEAN : ExecuteRelease(ok)
  PROVE  Settling'
<1>1. UNCHANGED <<owner, mode, issue_reservations, status, holders, release_job,
                  release_queue, drain_waiters, drain_monitors>>
  BY DEF ExecutorExit, ExecutorCrash, TimerFires, ExecuteRelease, processVars,
         holderVars, jobVars, drainVars
<1> QED BY <1>1, SettlingSame

\* Every step keeps draining settled.
LEMMA SettleStep == DInv /\ [Next]_vars => DInv'
<1> SUFFICES ASSUME DInv, [Next]_vars PROVE DInv'
  OBVIOUS
<1>0. UInv'
  BY UseStep DEF DInv
<1>1. CASE UNCHANGED vars
  BY <1>0, <1>1, SettlingSame DEF DInv, vars, processVars, holderVars, jobVars, drainVars
<1>2. CASE OwnerStep
  <2>1. \A h \in Children : h \in Holders
    BY DEF Holders
  <2> QED BY <1>0, <1>2, <2>1, HandshakeSettles, HolderSettles, DrainSettles,
             ReleaseSettles DEF OwnerStep, DInv
<1>3. CASE RuntimeStep
  BY <1>0, <1>3, DrainSettles, RuntimeSettles DEF RuntimeStep, DInv
<1> QED BY <1>1, <1>2, <1>3 DEF Next

\* Nobody waits initially.
LEMMA SettleStart == Init => DInv
<1>1. Init => Settling
  BY DEF Init, Settling
<1> QED BY <1>1, UseStart DEF DInv

\* A drain waiter never waits behind a failed release or on an owner that has
\* nothing left to release, and an owner that stopped normally left no
\* reservation, holder, entry, job or timer behind and answered every waiter, in
\* whatever order results, deaths and drain calls arrive (the drain handler,
\* finish_release_job, stop_or_continue_after_release, complete_drain).
THEOREM DrainsAlwaysSettled == Spec => []DrainSettled
<1>1. DInv /\ MInv /\ WInv /\ HolderAccounting => DrainSettled
  BY SettlingImplies DEF DInv
<1> QED BY <1>1, SettleStart, SettleStep, GuardedInvariant, WorkInvariant, HoldersExact, PTL
        DEF Spec

-----------------------------------------------------------------------------
(* What the owner has answered each call.                                    *)

\* A call was sent the answer.
Replied(r, a) == \E i \in 1..Len(replies[r]) : replies[r][i] = a

\* The reply that carries the lease of holder h was sent.
Grant(h) == Replied(h, IF h \in Tokens THEN "issued" ELSE "retained")

\* An issue call is refused, or reserved and then, once its token is committed,
\* told that the lease was issued or that its token went back; the root holder of
\* a lease is the one that its own issue call was told of.
IssueAnswers(t) ==
  /\ Len(replies[t]) <= 2
  /\ Len(replies[t]) = 1 => replies[t][1] \in {"caller_owned", "reserved"}
  /\ Len(replies[t]) = 2 =>
       /\ replies[t][1] = "reserved" /\ replies[t][2] \in {"issued", "transferred"}
       /\ status[t] # "unissued"
  /\ t \notin seen => Len(replies[t]) = 0
  /\ t \in issue_reservations => Len(replies[t]) = 1 /\ replies[t][1] = "reserved"
  /\ t \in holders[t] => Len(replies[t]) = 2 /\ replies[t][2] = "issued"
  /\ \A u \in Tokens : t \in holders[u] => u = t

\* A retain call gets one answer, and its child is a holder only if that was yes.
RetainAnswers(h) ==
  /\ Len(replies[h]) <= 1
  /\ Len(replies[h]) = 1 => replies[h][1] \in {"retained", "retain_error"}
  /\ h \notin seen => Len(replies[h]) = 0
  /\ \A t \in Tokens : h \in holders[t] => Len(replies[h]) = 1 /\ replies[h][1] = "retained"

\* A drain call is told of its completion by an owner that stops.
DrainAnswers(c) ==
  \A i \in 1..Len(replies[c]) :
    /\ replies[c][i] \in {"drained", "release_failed", "ok", "error"}
    /\ replies[c][i] = "drained" => owner = "stopped"

\* A job that waits or runs.
Working(job) ==
  release_job = job \/ \E i \in 1..Len(release_queue) : release_queue[i] = job

\* An issue call that waits for a release waits for that of its own token.
WaiterOf(job) ==
  /\ job.waiter \notin Children
  /\ job.waiter \in Tokens =>
       /\ job.waiter = job.token
       /\ Len(replies[job.token]) = 1 /\ replies[job.token][1] = "reserved"

Answering ==
  /\ \A t \in Tokens : IssueAnswers(t)
  /\ \A h \in Children : RetainAnswers(h)
  /\ \A c \in Callers : DrainAnswers(c)
  /\ \A job \in Jobs : Working(job) => WaiterOf(job)

AInv == UInv /\ Answering

\* No answer is taken back, a step answers a call at most once, and whoever it
\* grants a lease or a reservation to has that then.
AnswersGrow ==
  /\ \A r \in Requests : \/ replies'[r] = replies[r]
                         \/ \E a \in Answers : replies'[r] = Append(replies[r], a)
  /\ \A h \in Holders : Grant(h)' => Grant(h) \/ \E u \in Tokens : h \in holders'[u]
  /\ \A t \in Tokens : Replied(t, "reserved")' =>
       Replied(t, "reserved") \/ t \in issue_reservations'

\* A step that adds no reservation and no holder.
Calm ==
  /\ issue_reservations' \subseteq issue_reservations
  /\ \A u \in Tokens : holders'[u] \subseteq holders[u]
  /\ \A u \in Tokens : status'[u] = "unissued" => status[u] = "unissued"
  /\ seen \subseteq seen'
  /\ owner = "stopped" => owner' = "stopped"

\* What a step tells drain and retry calls; it tells issue and retain calls nothing.
CallersTold ==
  \A c \in Callers :
    \/ replies'[c] = replies[c]
    \/ \E a \in {"drained", "release_failed", "ok", "error"} :
         replies'[c] = Append(replies[c], a) /\ (a = "drained" => owner' = "stopped")

HoldersNotTold == \A r \in Holders : replies'[r] = replies[r]

\* Jobs are not invented; a new one answers no issue or retain call.
JobsKept ==
  \A job \in Jobs : Working(job)' => Working(job) \/ job.waiter \notin Holders

\* Appending an answer.
LEMMA Appended ==
  ASSUME TypeOK, NEW r \in Requests, NEW a, replies'[r] = Append(replies[r], a)
  PROVE  /\ Len(replies[r]) \in Nat
         /\ Len(replies'[r]) = Len(replies[r]) + 1
         /\ replies'[r][Len(replies[r]) + 1] = a
         /\ \A i \in 1..Len(replies[r]) : replies'[r][i] = replies[r][i]
<1>1. replies[r] \in Seq(Answers \cup {a})
  BY DEF TypeOK
<1>2. a \in Answers \cup {a}
  OBVIOUS
<1> QED BY <1>1, <1>2, AppendProperties

\* ... adds only that answer.
LEMMA AnswerAdded ==
  ASSUME TypeOK, NEW r \in Requests, NEW a, replies'[r] = Append(replies[r], a),
         NEW b, Replied(r, b)'
  PROVE  Replied(r, b) \/ b = a
<1>1. /\ Len(replies[r]) \in Nat
      /\ Len(replies'[r]) = Len(replies[r]) + 1
      /\ replies'[r][Len(replies[r]) + 1] = a
      /\ \A i \in 1..Len(replies[r]) : replies'[r][i] = replies[r][i]
  BY Appended
<1>2. PICK i \in 1..Len(replies'[r]) : replies'[r][i] = b
  BY DEF Replied
<1>3. i \in 1..Len(replies[r]) \/ i = Len(replies[r]) + 1
  BY <1>1
<1> QED BY <1>1, <1>2, <1>3 DEF Replied

\* The kinds of references are different.
LEMMA KindsDiffer ==
  /\ Tokens \cap Children = {} /\ Holders \cap Callers = {}
  /\ None \notin Holders \cup Callers
  /\ Holders \subseteq Requests /\ Callers \subseteq Requests
  /\ Tokens \subseteq Holders /\ Children \subseteq Holders
  /\ Requests = Holders \cup Callers
BY RefsAssumption DEF Holders, Requests

\* Drain and retry calls are answered as they should.
LEMMA DrainAnswersKept ==
  ASSUME TypeOK, \A c \in Callers : DrainAnswers(c), CallersTold,
         owner = "stopped" => owner' = "stopped"
  PROVE  /\ \A c \in Callers : DrainAnswers(c)'
         /\ \A c \in Callers : \/ replies'[c] = replies[c]
                               \/ \E a \in Answers : replies'[c] = Append(replies[c], a)
<1> SUFFICES ASSUME NEW c \in Callers
             PROVE  /\ DrainAnswers(c)'
                    /\ \/ replies'[c] = replies[c]
                       \/ \E a \in Answers : replies'[c] = Append(replies[c], a)
  OBVIOUS
<1>1. c \in Requests /\ DrainAnswers(c)
  BY KindsDiffer
<1>2. CASE replies'[c] = replies[c]
  BY <1>1, <1>2 DEF DrainAnswers
<1>3. ASSUME NEW a \in {"drained", "release_failed", "ok", "error"},
             replies'[c] = Append(replies[c], a), a = "drained" => owner' = "stopped"
      PROVE  /\ DrainAnswers(c)'
             /\ \/ replies'[c] = replies[c]
                \/ \E x \in Answers : replies'[c] = Append(replies[c], x)
  <2>1. /\ Len(replies[c]) \in Nat
        /\ Len(replies'[c]) = Len(replies[c]) + 1
        /\ replies'[c][Len(replies[c]) + 1] = a
        /\ \A i \in 1..Len(replies[c]) : replies'[c][i] = replies[c][i]
    BY <1>1, <1>3, Appended
  <2>2. \A i \in 1..Len(replies'[c]) : i \in 1..Len(replies[c]) \/ i = Len(replies[c]) + 1
    BY <2>1
  <2>3. a \in Answers
    BY DEF Answers
  <2>4. ASSUME NEW i \in 1..Len(replies'[c])
        PROVE  /\ replies'[c][i] \in {"drained", "release_failed", "ok", "error"}
               /\ replies'[c][i] = "drained" => owner' = "stopped"
    <3>1. CASE i \in 1..Len(replies[c])
      BY <1>1, <2>1, <3>1 DEF DrainAnswers
    <3>2. CASE i = Len(replies[c]) + 1
      BY <1>3, <2>1, <3>2
    <3> QED BY <2>2, <3>1, <3>2
  <2>5. DrainAnswers(c)'
    BY <2>4 DEF DrainAnswers
  <2> QED BY <1>3, <2>3, <2>5
<1> QED BY <1>2, <1>3 DEF CallersTold

\* A step that answers no issue or retain call and adds no holder keeps them all.
LEMMA AnsweringKept ==
  ASSUME AInv, Calm, HoldersNotTold, CallersTold, JobsKept
  PROVE  Answering' /\ AnswersGrow
<1>0. TypeOK /\ Answering
  BY DEF AInv, UInv, IInv
<1>1. /\ \A c \in Callers : DrainAnswers(c)'
      /\ \A c \in Callers : \/ replies'[c] = replies[c]
                            \/ \E a \in Answers : replies'[c] = Append(replies[c], a)
  BY <1>0, DrainAnswersKept DEF Calm, Answering
<1>2. AnswersGrow
  <2>1. \A h \in Holders : Grant(h)' => Grant(h)
    BY DEF HoldersNotTold, Grant, Replied
  <2>2. \A t \in Tokens : Replied(t, "reserved")' => Replied(t, "reserved")
    BY KindsDiffer DEF HoldersNotTold, Replied
  <2> QED BY <1>1, <2>1, <2>2, KindsDiffer DEF AnswersGrow, HoldersNotTold
<1>3. ASSUME NEW t \in Tokens PROVE IssueAnswers(t)'
  <2>1. replies'[t] = replies[t] /\ IssueAnswers(t)
    BY <1>0, KindsDiffer DEF HoldersNotTold, Answering
  <2> QED BY <2>1 DEF IssueAnswers, Calm
<1>4. ASSUME NEW h \in Children PROVE RetainAnswers(h)'
  <2>1. replies'[h] = replies[h] /\ RetainAnswers(h)
    BY <1>0, KindsDiffer DEF HoldersNotTold, Answering
  <2> QED BY <2>1 DEF RetainAnswers, Calm
<1>5. ASSUME NEW job \in Jobs, Working(job)' PROVE WaiterOf(job)'
  <2>1. CASE job.waiter \notin Holders
    BY <2>1, KindsDiffer DEF WaiterOf
  <2>2. CASE Working(job)
    <3>1. job.token \in Holders /\ WaiterOf(job)
      BY <1>0, <2>2, KindsDiffer DEF Answering, Jobs
    <3>2. replies'[job.token] = replies[job.token]
      BY <3>1 DEF HoldersNotTold
    <3> QED BY <3>1, <3>2 DEF WaiterOf
  <2> QED BY <1>5, <2>1, <2>2 DEF JobsKept
<1> QED BY <1>1, <1>2, <1>3, <1>4, <1>5 DEF Answering

\* dispatch_next_release invents no job.
LEMMA DispatchWorks ==
  ASSUME NEW st, NEW q \in Seq(Jobs), NEW j \in Jobs \cup {NoJob}, NEW inbox,
         DispatchNextRelease(st, q, j, inbox), NEW job, Working(job)'
  PROVE  job = j \/ \E i \in 1..Len(q) : q[i] = job
<1>1. CASE j = NoJob /\ q # <<>>
  <2>1. release_job' = Head(q) /\ release_queue' = Tail(q)
    BY <1>1 DEF DispatchNextRelease
  <2>2. Head(q) = q[1] /\ Len(q) \in Nat /\ Len(q) >= 1
    BY <1>1
  <2>3. Len(Tail(q)) = Len(q) - 1 /\ \A i \in 1..Len(Tail(q)) : Tail(q)[i] = q[i + 1]
    BY <1>1
  <2>4. CASE release_job' = job
    BY <2>1, <2>2, <2>4
  <2>5. ASSUME NEW i \in 1..Len(Tail(q)), Tail(q)[i] = job
        PROVE  \E k \in 1..Len(q) : q[k] = job
    <3>1. i + 1 \in 1..Len(q)
      BY <2>2, <2>3
    <3> QED BY <2>3, <2>5, <3>1
  <2> QED BY <2>1, <2>4, <2>5 DEF Working
<1>2. CASE ~(j = NoJob /\ q # <<>>)
  BY <1>2 DEF DispatchNextRelease, Working
<1> QED BY <1>1, <1>2

\* release_entry adds one job.
LEMMA ReleaseEntryWorks ==
  ASSUME TypeOK, NEW t \in Tokens, NEW w \in Requests \cup {None}, NEW D,
         ReleaseEntry(t, w, D), NEW job, Working(job)'
  PROVE  \/ Working(job)
         \/ job = [token |-> t, generation |-> release_attempts[t] + 1, waiter |-> w]
<1> DEFINE new == [token |-> t, generation |-> release_attempts[t] + 1, waiter |-> w]
           st  == [status EXCEPT ![t] = "release_queued"]
<1>1. new \in Jobs /\ release_queue \in Seq(Jobs) /\ release_job \in Jobs \cup {NoJob}
  BY DEF TypeOK, Jobs
<1>2. DispatchNextRelease(st, Append(release_queue, new), release_job, executor_inbox)
  BY DEF ReleaseEntry
<1> HIDE DEF new, st
<1>3. /\ Append(release_queue, new) \in Seq(Jobs)
      /\ Len(Append(release_queue, new)) = Len(release_queue) + 1
      /\ \A i \in 1..Len(release_queue) : Append(release_queue, new)[i] = release_queue[i]
      /\ Append(release_queue, new)[Len(release_queue) + 1] = new
      /\ Len(release_queue) \in Nat
  BY <1>1, AppendProperties
<1>4. job = release_job \/ \E i \in 1..Len(Append(release_queue, new)) :
                             Append(release_queue, new)[i] = job
  BY <1>1, <1>2, <1>3, DispatchWorks
<1>5. ASSUME NEW i \in 1..Len(Append(release_queue, new)),
             Append(release_queue, new)[i] = job
      PROVE  Working(job) \/ job = new
  <2>1. i \in 1..Len(release_queue) \/ i = Len(release_queue) + 1
    BY <1>3
  <2> QED BY <1>3, <1>5, <2>1 DEF Working
<1>6. Working(job) \/ job = new
  BY <1>4, <1>5 DEF Working
<1> QED BY <1>6 DEF new

\* stop_or_continue_after_release answers drain waiters only, and stops.
LEMMA StopTells ==
  ASSUME TypeOK, StopOrContinue
  PROVE  HoldersNotTold /\ CallersTold
<1>1. CASE CompleteDrain /\ Reply(drain_waiters, "drained")
  <2>1. \A r \in Requests : replies'[r] = IF r \in drain_waiters
                                          THEN Append(replies[r], "drained") ELSE replies[r]
    BY <1>1 DEF Reply
  <2>2. drain_waiters \subseteq Callers /\ owner' = "stopped"
    BY <1>1 DEF TypeOK, CompleteDrain
  <2>3. HoldersNotTold
    BY <2>1, <2>2, KindsDiffer DEF HoldersNotTold
  <2>4. CallersTold
    BY <2>1, <2>2, KindsDiffer DEF CallersTold
  <2> QED BY <2>3, <2>4
<1>2. CASE UNCHANGED replies
  BY <1>2 DEF HoldersNotTold, CallersTold
<1> QED BY <1>1, <1>2 DEF StopOrContinue

LEMMA NothingTold == UNCHANGED replies => HoldersNotTold /\ CallersTold
BY DEF HoldersNotTold, CallersTold

LEMMA QueueKept == UNCHANGED <<release_job, release_queue>> => JobsKept
BY DEF JobsKept, Working

\* release_entry, for any waiter but an issue or retain call.
LEMMA ReleaseEntryKeepsJobs ==
  ASSUME TypeOK, NEW t \in Tokens, NEW w \in Callers \cup {None}, NEW D,
         ReleaseEntry(t, w, D)
  PROVE  JobsKept
<1>1. w \in Requests \cup {None} /\ w \notin Holders
  BY KindsDiffer
<1> QED BY <1>1, ReleaseEntryWorks DEF JobsKept

\* remove_holder, of an active entry.
LEMMA RemoveHolderAnswers ==
  ASSUME AInv, owner = "up", NEW t \in Tokens, NEW h \in Holders, RemoveHolder(t, h),
         status[t] = "active", UNCHANGED seen
  PROVE  Answering' /\ AnswersGrow
<1>0. UInv /\ TypeOK /\ None \in Callers \cup {None}
  BY DEF AInv, UInv, IInv
<1>1. UNCHANGED issue_reservations
  BY DEF RemoveHolder
<1>2. Calm
  BY <1>0, <1>1, RemoveHolderShrinks DEF Calm
<1>3. HoldersNotTold /\ CallersTold
  BY <1>0, StopTells, NothingTold DEF RemoveHolder
<1>4. JobsKept
  <2>1. CASE ReleaseEntry(t, None, {})
    BY <1>0, <2>1, ReleaseEntryKeepsJobs
  <2>2. CASE UNCHANGED jobVars
    BY <2>2, QueueKept DEF jobVars
  <2> QED BY <2>1, <2>2 DEF RemoveHolder
<1> QED BY <1>2, <1>3, <1>4, AnsweringKept

\* An answer to one issue or retain call, in a step that starts no release.
LEMMA OneAnswer ==
  ASSUME TypeOK, NEW r \in Holders, NEW a \in Answers, Reply({r}, a),
         a \in {"issued", "retained"} => \E u \in Tokens : r \in holders'[u],
         a = "reserved" => r \in issue_reservations'
  PROVE  /\ \A x \in Requests \ {r} : replies'[x] = replies[x]
         /\ Len(replies[r]) \in Nat
         /\ Len(replies'[r]) = Len(replies[r]) + 1
         /\ replies'[r][Len(replies[r]) + 1] = a
         /\ \A i \in 1..Len(replies[r]) : replies'[r][i] = replies[r][i]
         /\ AnswersGrow
<1>1. r \in Requests
  BY KindsDiffer
<1>2. \A x \in Requests : replies'[x] = IF x = r THEN Append(replies[r], a) ELSE replies[x]
  BY DEF Reply
<1>3. /\ Len(replies[r]) \in Nat
      /\ Len(replies'[r]) = Len(replies[r]) + 1
      /\ replies'[r][Len(replies[r]) + 1] = a
      /\ \A i \in 1..Len(replies[r]) : replies'[r][i] = replies[r][i]
  BY <1>1, <1>2, Appended
<1>4. ASSUME NEW h \in Holders, NEW b, Replied(h, b)'
      PROVE  Replied(h, b) \/ (h = r /\ b = a)
  <2>1. CASE h # r
    <3>1. replies'[h] = replies[h]
      BY <1>2, <2>1, KindsDiffer
    <3> QED BY <1>4, <3>1 DEF Replied
  <2>2. CASE h = r
    <3>1. replies'[h] = Append(replies[h], a) /\ h \in Requests
      BY <1>1, <1>2, <2>2
    <3> QED BY <1>4, <2>2, <3>1, AnswerAdded
  <2> QED BY <2>1, <2>2
<1>5. AnswersGrow
  <2>1. \A h \in Holders : Grant(h)' => Grant(h) \/ \E u \in Tokens : h \in holders'[u]
    BY <1>4 DEF Grant
  <2>2. \A t \in Tokens : Replied(t, "reserved")' =>
          Replied(t, "reserved") \/ t \in issue_reservations'
    BY <1>4, KindsDiffer
  <2> QED BY <1>2, <2>1, <2>2 DEF AnswersGrow
<1> QED BY <1>2, <1>3, <1>5

\* The jobs when one issue or retain call that no job waits for is answered.
LEMMA JobsAfterOneAnswer ==
  ASSUME Answering, NEW r \in Requests, \A x \in Requests \ {r} : replies'[x] = replies[x],
         UNCHANGED <<release_job, release_queue>>,
         \A job \in Jobs : Working(job) => job.token # r
  PROVE  \A job \in Jobs : Working(job)' => WaiterOf(job)'
<1> SUFFICES ASSUME NEW job \in Jobs, Working(job)' PROVE WaiterOf(job)'
  OBVIOUS
<1>1. Working(job) /\ WaiterOf(job) /\ job.token # r
  BY DEF Working, Answering
<1>2. job.token \in Requests
  BY KindsDiffer DEF Jobs
<1>3. replies'[job.token] = replies[job.token]
  BY <1>1, <1>2
<1> QED BY <1>1, <1>3 DEF WaiterOf

\* A job's token is an entry that is past its last holder.
LEMMA WorkingStatus ==
  ASSUME TypeOK, SingleFlight, NEW job \in Jobs, Working(job)
  PROVE  status[job.token] \in {"release_queued", "releasing"}
<1>1. Flight(status, release_queue, release_job, release_attempts)
  BY FlightEquiv
<1>2. job # NoJob /\ job.token \in Tokens
  BY JobIsNotNoJob
<1> QED BY <1>1, <1>2 DEF Working, Flight

LEMMA ReserveAnswers ==
  ASSUME AInv, NEW t \in Tokens, ReserveIssue(t)
  PROVE  Answering' /\ AnswersGrow
<1>0. /\ TypeOK /\ SingleFlight /\ Admission /\ Answering /\ t \in Requests /\ t \in Holders
      /\ "caller_owned" \in Answers /\ "reserved" \in Answers
  BY KindsDiffer DEF AInv, UInv, IInv, Answers
<1>1. /\ t \notin seen /\ seen' = seen \cup {t} /\ UNCHANGED <<owner, status, holders>>
      /\ UNCHANGED <<release_job, release_queue>>
      /\ issue_reservations' \subseteq issue_reservations \cup {t}
  BY DEF ReserveIssue, processVars, jobVars, holderVars
<1>2. Len(replies[t]) = 0
  BY <1>0, <1>1 DEF Answering, IssueAnswers
<1>3. PICK a \in {"caller_owned", "reserved"} :
         /\ Reply({t}, a)
         /\ a = "caller_owned" => issue_reservations' = issue_reservations
         /\ a = "reserved" => t \in issue_reservations'
  BY DEF ReserveIssue
<1>4. a \in Answers
  BY <1>0
<1>5. /\ \A x \in Requests \ {t} : replies'[x] = replies[x]
      /\ Len(replies'[t]) = 1 /\ replies'[t][1] = a
      /\ AnswersGrow
  <2>1. /\ \A x \in Requests \ {t} : replies'[x] = replies[x]
        /\ Len(replies'[t]) = Len(replies[t]) + 1
        /\ replies'[t][Len(replies[t]) + 1] = a
        /\ \A i \in 1..Len(replies[t]) : replies'[t][i] = replies[t][i]
        /\ AnswersGrow
    BY <1>0, <1>3, <1>4, OneAnswer
  <2> QED BY <1>2, <2>1
<1>6. IssueAnswers(t)'
  <2>1. t \notin issue_reservations /\ IssueAnswers(t)
    BY <1>0, <1>1 DEF Admission, Answering
  <2> QED BY <1>0, <1>1, <1>2, <1>3, <1>5, <2>1 DEF IssueAnswers
<1>7. ASSUME NEW u \in Tokens \ {t} PROVE IssueAnswers(u)'
  <2>1. replies'[u] = replies[u] /\ IssueAnswers(u)
    BY <1>0, <1>5, KindsDiffer DEF Answering
  <2> QED BY <1>1, <2>1 DEF IssueAnswers
<1>8. ASSUME NEW h \in Children PROVE RetainAnswers(h)'
  <2>1. replies'[h] = replies[h] /\ RetainAnswers(h)
    BY <1>0, <1>5, KindsDiffer DEF Answering
  <2> QED BY <1>1, <2>1 DEF RetainAnswers
<1>9. ASSUME NEW c \in Callers PROVE DrainAnswers(c)'
  <2>1. replies'[c] = replies[c] /\ DrainAnswers(c)
    BY <1>0, <1>5, KindsDiffer DEF Answering
  <2> QED BY <1>1, <2>1 DEF DrainAnswers
<1>10. \A job \in Jobs : Working(job)' => WaiterOf(job)'
  <2>1. status[t] = "unissued"
    BY <1>0, <1>1 DEF Admission
  <2>2. \A job \in Jobs : Working(job) => job.token # t
    BY <1>0, <2>1, WorkingStatus
  <2> QED BY <1>0, <1>1, <1>5, <2>2, JobsAfterOneAnswer
<1> QED BY <1>5, <1>6, <1>7, <1>8, <1>9, <1>10 DEF Answering

LEMMA CommitAnswers ==
  ASSUME AInv, NEW t \in Tokens, CommitIssue(t)
  PROVE  Answering' /\ AnswersGrow
<1>0. /\ TypeOK /\ SingleFlight /\ Admission /\ Answering /\ t \in Requests /\ t \in Holders
      /\ "issued" \in Answers
  BY KindsDiffer DEF AInv, UInv, IInv, Answers
<1>1. /\ t \in issue_reservations /\ UNCHANGED <<owner, seen>>
      /\ issue_reservations' = issue_reservations \ {t}
      /\ UNCHANGED <<release_job, release_queue>> /\ Reply({t}, "issued")
  BY DEF CommitIssue, processVars
<1>2. /\ \A u \in Tokens : status'[u] = IF u = t THEN "active" ELSE status[u]
      /\ \A u \in Tokens : holders'[u] = IF u = t THEN {t} ELSE holders[u]
  BY <1>0 DEF CommitIssue, TypeOK
<1>3. Len(replies[t]) = 1 /\ replies[t][1] = "reserved"
  BY <1>0, <1>1 DEF Answering, IssueAnswers
<1>4. /\ \A x \in Requests \ {t} : replies'[x] = replies[x]
      /\ Len(replies'[t]) = 2 /\ replies'[t][1] = "reserved" /\ replies'[t][2] = "issued"
      /\ AnswersGrow
  <2>0. \E u \in Tokens : t \in holders'[u]
    BY <1>2
  <2>1. /\ \A x \in Requests \ {t} : replies'[x] = replies[x]
        /\ Len(replies'[t]) = Len(replies[t]) + 1
        /\ replies'[t][Len(replies[t]) + 1] = "issued"
        /\ \A i \in 1..Len(replies[t]) : replies'[t][i] = replies[t][i]
        /\ AnswersGrow
    BY <1>0, <1>1, <2>0, OneAnswer
  <2> QED BY <1>3, <2>1
<1>5. IssueAnswers(t)'
  <2>1. IssueAnswers(t) /\ t \in seen
    BY <1>0, <1>1 DEF Answering, Admission
  <2>2. \A u \in Tokens : t \in holders'[u] => u = t
    BY <1>2, <2>1 DEF IssueAnswers
  <2>3. status'[t] # "unissued" /\ t \notin issue_reservations' /\ t \in seen'
    BY <1>1, <1>2, <2>1
  <2> QED BY <1>4, <2>2, <2>3 DEF IssueAnswers
<1>11. ASSUME NEW u \in Tokens \ {t} PROVE IssueAnswers(u)'
  <2>1. replies'[u] = replies[u] /\ IssueAnswers(u)
    BY <1>0, <1>4, KindsDiffer DEF Answering
  <2>2. /\ \A x \in Tokens : u \in holders'[x] => u \in holders[x]
        /\ status'[u] = status[u]
    BY <1>2
  <2> QED BY <1>1, <2>1, <2>2 DEF IssueAnswers
<1>6. ASSUME NEW h \in Children PROVE RetainAnswers(h)'
  <2>1. replies'[h] = replies[h] /\ RetainAnswers(h) /\ h # t
    BY <1>0, <1>4, KindsDiffer DEF Answering
  <2>2. \A u \in Tokens : h \in holders'[u] => h \in holders[u]
    BY <1>2, <2>1
  <2> QED BY <1>1, <2>1, <2>2 DEF RetainAnswers
<1>7. ASSUME NEW c \in Callers PROVE DrainAnswers(c)'
  <2>1. replies'[c] = replies[c] /\ DrainAnswers(c)
    BY <1>0, <1>4, KindsDiffer DEF Answering
  <2> QED BY <1>1, <2>1 DEF DrainAnswers
<1>8. \A job \in Jobs : Working(job)' => WaiterOf(job)'
  <2>1. status[t] = "unissued"
    BY <1>0, <1>1 DEF Admission
  <2>2. \A job \in Jobs : Working(job) => job.token # t
    BY <1>0, <2>1, WorkingStatus
  <2> QED BY <1>0, <1>1, <1>4, <2>2, JobsAfterOneAnswer
<1> QED BY <1>4, <1>5, <1>6, <1>7, <1>8, <1>11 DEF Answering

\* A retain is answered once, and its child is then new to every lease.
LEMMA RetainCallAnswers ==
  ASSUME AInv, NEW h \in Children,
         \/ RefuseRetain(h)
         \/ \E t \in Tokens, p \in Holders : Retain(t, p, h)
  PROVE  Answering' /\ AnswersGrow
<1>0. /\ TypeOK /\ Answering /\ h \in Requests /\ h \in Holders
      /\ "retained" \in Answers /\ "retain_error" \in Answers
  BY KindsDiffer DEF AInv, UInv, IInv, Answers
<1>1. /\ h \notin seen /\ seen' = seen \cup {h} /\ UNCHANGED <<owner, status, issue_reservations>>
      /\ UNCHANGED <<release_job, release_queue>>
  BY DEF RefuseRetain, Retain, processVars, jobVars
<1>2. PICK a \in {"retained", "retain_error"} :
         /\ Reply({h}, a)
         /\ a = "retain_error" => UNCHANGED holders
         /\ \A u \in Tokens : holders'[u] \subseteq holders[u] \cup {h}
         /\ a = "retained" => \E u \in Tokens : h \in holders'[u]
  <2>1. CASE RefuseRetain(h)
    BY <2>1 DEF RefuseRetain, holderVars
  <2>2. ASSUME NEW t \in Tokens, NEW p \in Holders, Retain(t, p, h)
        PROVE  /\ Reply({h}, "retained")
               /\ \A u \in Tokens : holders'[u] \subseteq holders[u] \cup {h}
               /\ \E u \in Tokens : h \in holders'[u]
    BY <1>0, <2>2 DEF Retain, TypeOK
  <2> QED BY <2>1, <2>2
<1>3. a \in Answers
  BY <1>0
<1>4. Len(replies[h]) = 0 /\ RetainAnswers(h)
  BY <1>0, <1>1 DEF Answering, RetainAnswers
<1>5. /\ \A x \in Requests \ {h} : replies'[x] = replies[x]
      /\ Len(replies'[h]) = 1 /\ replies'[h][1] = a
      /\ AnswersGrow
  <2>1. /\ \A x \in Requests \ {h} : replies'[x] = replies[x]
        /\ Len(replies'[h]) = Len(replies[h]) + 1
        /\ replies'[h][Len(replies[h]) + 1] = a
        /\ \A i \in 1..Len(replies[h]) : replies'[h][i] = replies[h][i]
        /\ AnswersGrow
    BY <1>0, <1>2, <1>3, OneAnswer
  <2> QED BY <1>4, <2>1
<1>6. RetainAnswers(h)'
  <2>1. \A u \in Tokens : h \notin holders[u]
    BY <1>4 DEF RetainAnswers
  <2>2. a = "retain_error" => \A u \in Tokens : h \notin holders'[u]
    BY <1>2, <2>1
  <2> QED BY <1>1, <1>2, <1>5, <2>2 DEF RetainAnswers
<1>7. ASSUME NEW k \in Children \ {h} PROVE RetainAnswers(k)'
  <2>1. replies'[k] = replies[k] /\ RetainAnswers(k)
    BY <1>0, <1>5, KindsDiffer DEF Answering
  <2> QED BY <1>1, <1>2, <2>1 DEF RetainAnswers
<1>8. ASSUME NEW u \in Tokens PROVE IssueAnswers(u)'
  <2>1. replies'[u] = replies[u] /\ IssueAnswers(u) /\ u # h
    BY <1>0, <1>5, KindsDiffer DEF Answering
  <2>2. \A x \in Tokens : u \in holders'[x] => u \in holders[x]
    BY <1>2, <2>1
  <2> QED BY <1>1, <2>1, <2>2 DEF IssueAnswers
<1>9. ASSUME NEW c \in Callers PROVE DrainAnswers(c)'
  <2>1. replies'[c] = replies[c] /\ DrainAnswers(c)
    BY <1>0, <1>5, KindsDiffer DEF Answering
  <2> QED BY <1>1, <2>1 DEF DrainAnswers
<1>10. \A job \in Jobs : Working(job)' => WaiterOf(job)'
  <2>1. \A job \in Jobs : Working(job) => job.token # h
    BY KindsDiffer DEF Jobs
  <2> QED BY <1>0, <1>1, <1>5, <2>1, JobsAfterOneAnswer
<1> QED BY <1>5, <1>6, <1>7, <1>8, <1>9, <1>10 DEF Answering


LEMMA RejectAnswers ==
  ASSUME AInv, NEW t \in Tokens, RejectIssue(t)
  PROVE  Answering' /\ AnswersGrow
<1>0. /\ TypeOK /\ SingleFlight /\ Admission /\ Answering /\ t \in Requests \cup {None}
  BY KindsDiffer DEF AInv, UInv, IInv
<1>1. /\ t \in issue_reservations /\ UNCHANGED <<owner, seen, holders, replies>>
      /\ issue_reservations' \subseteq issue_reservations /\ ReleaseEntry(t, t, {t})
  BY DEF RejectIssue, processVars, holderVars
<1>2. status[t] = "unissued"
  BY <1>0, <1>1 DEF Admission
<1>3. \A u \in Tokens : status'[u] = "unissued" => status[u] = "unissued"
  BY <1>2
     , <1>0, <1>1, ReleaseEntryFlight DEF EntryStatus
<1>4. ASSUME NEW u \in Tokens PROVE IssueAnswers(u)'
  <2>1. IssueAnswers(u)
    BY <1>0 DEF Answering
  <2> QED BY <1>1, <1>3, <2>1 DEF IssueAnswers
<1>5. \A h \in Children : RetainAnswers(h)'
  BY <1>0, <1>1 DEF Answering, RetainAnswers
<1>6. \A c \in Callers : DrainAnswers(c)'
  BY <1>0, <1>1 DEF Answering, DrainAnswers
<1>7. ASSUME NEW job \in Jobs, Working(job)' PROVE WaiterOf(job)'
  <2>1. CASE Working(job)
    BY <1>0, <1>1, <2>1 DEF Answering, WaiterOf
  <2>2. CASE job.token = t /\ job.waiter = t
    <3>1. Len(replies[t]) = 1 /\ replies[t][1] = "reserved"
      BY <1>0, <1>1 DEF Answering, IssueAnswers
    <3> QED BY <1>1, <2>2, <3>1, KindsDiffer DEF WaiterOf
  <2> QED BY <1>0, <1>1, <1>7, <2>1, <2>2, ReleaseEntryWorks
<1>8. AnswersGrow
  BY <1>1 DEF AnswersGrow, Grant, Replied
<1> QED BY <1>4, <1>5, <1>6, <1>7, <1>8 DEF Answering

\* finish_release_job answers the call that waits for the job, and drain waiters.
LEMMA FinishAnswers ==
  ASSUME AInv, owner = "up", release_job # NoJob, NEW inbox,
         FinishReleased(release_job) \/ FinishFailed(release_job, inbox)
  PROVE  Answering' /\ AnswersGrow
<1>a. PICK job \in Jobs : job = release_job
  BY JobTyped DEF AInv, UInv, IInv
<1>b. PICK t \in Tokens : t = job.token
  BY DEF Jobs
<1>0. /\ TypeOK /\ SingleFlight /\ Admission /\ Answering /\ t \in Tokens /\ job \in Jobs
      /\ t \in Requests /\ t \in Holders /\ release_job = job /\ t = job.token
  BY <1>a, <1>b, KindsDiffer DEF AInv, UInv, IInv
<1>1. Working(job) /\ WaiterOf(job)
  BY <1>0 DEF Answering, Working
<1>c. PICK end \in {"retired", "release_failed"} :
        /\ \E box : DispatchNextRelease([status EXCEPT ![t] = end], release_queue, NoJob, box)
        /\ UNCHANGED <<release_attempts, issue_reservations, holders, seen>>
  BY <1>0 DEF FinishReleased, FinishFailed, holderVars
<1>2. PICK box :
        /\ DispatchNextRelease([status EXCEPT ![t] = end], release_queue, NoJob, box)
        /\ UNCHANGED <<release_attempts, issue_reservations, holders, seen>>
  BY <1>c
<1>3. /\ status[t] = "releasing"
      /\ \A u \in Tokens : status'[u] = "unissued" => status[u] = "unissued"
  <2>1. /\ status[t] = "releasing" /\ status'[t] = end
        /\ \A u \in Tokens \ {t} : Started(u)
    BY <1>0, <1>2, FinishFlight
  <2> QED BY <2>1 DEF Started
<1>4. drain_waiters \subseteq Callers
  BY <1>0 DEF TypeOK
<1>5. CallersTold
  <2>1. CASE FinishReleased(job)
    <3>1. \A c \in Callers :
            \/ replies'[c] = replies[c]
            \/ replies'[c] = Append(replies[c], "ok")
            \/ replies'[c] = Append(replies[c], "drained") /\ owner' = "stopped"
      BY <2>1, KindsDiffer DEF FinishReleased, CompleteDrain
    <3> QED BY <3>1 DEF CallersTold
  <2>2. CASE FinishFailed(job, inbox)
    <3>1. \A c \in Callers :
            \/ replies'[c] = replies[c]
            \/ replies'[c] = Append(replies[c], "error")
            \/ replies'[c] = Append(replies[c], "release_failed")
      BY <2>2, KindsDiffer DEF FinishFailed
    <3> QED BY <3>1 DEF CallersTold
  <2> QED BY <1>0, <2>1, <2>2
<1>6. /\ \A r \in Holders : r # job.waiter => replies'[r] = replies[r]
      /\ \A r \in Tokens : r = job.waiter => replies'[r] = Append(replies[r], "transferred")
  <2>1. CASE FinishReleased(job)
    BY <1>4, <2>1, KindsDiffer DEF FinishReleased
  <2>2. CASE FinishFailed(job, inbox)
    BY <1>4, <2>2, KindsDiffer DEF FinishFailed
  <2> QED BY <1>0, <2>1, <2>2
<1>7. /\ \A c \in Callers : DrainAnswers(c)'
      /\ \A c \in Callers : \/ replies'[c] = replies[c]
                            \/ \E a \in Answers : replies'[c] = Append(replies[c], a)
  BY <1>0, <1>5, DrainAnswersKept DEF Answering
<1>8. \A r \in Holders : \/ replies'[r] = replies[r]
                         \/ replies'[r] = Append(replies[r], "transferred")
  BY <1>1, <1>6 DEF WaiterOf, Holders
<1>9. AnswersGrow
  <2>1. "transferred" \in Answers
    BY DEF Answers
  <2>2. ASSUME NEW h \in Holders, NEW b, Replied(h, b)'
        PROVE  Replied(h, b) \/ b = "transferred"
    <3>1. CASE replies'[h] = replies[h]
      BY <2>2, <3>1 DEF Replied
    <3>2. CASE replies'[h] = Append(replies[h], "transferred")
      BY <1>0, <2>2, <3>2, AnswerAdded, KindsDiffer
    <3> QED BY <1>8, <3>1, <3>2
  <2>3. \A h \in Holders : Grant(h)' => Grant(h)
    BY <2>2 DEF Grant
  <2>4. \A u \in Tokens : Replied(u, "reserved")' => Replied(u, "reserved")
    BY <2>2, KindsDiffer
  <2> QED BY <1>7, <1>8, <2>1, <2>3, <2>4, KindsDiffer DEF AnswersGrow
<1>10. \A h \in Children : RetainAnswers(h)'
  <2>1. \A h \in Children : replies'[h] = replies[h] /\ RetainAnswers(h)
    BY <1>0, <1>1, <1>6, KindsDiffer DEF WaiterOf, Answering
  <2> QED BY <1>2, <2>1 DEF RetainAnswers
<1>11. ASSUME NEW u \in Tokens, u # job.waiter PROVE IssueAnswers(u)'
  <2>1. replies'[u] = replies[u] /\ IssueAnswers(u)
    BY <1>0, <1>6, <1>11, KindsDiffer DEF Answering
  <2> QED BY <1>2, <1>3, <2>1 DEF IssueAnswers
<1>12. ASSUME t = job.waiter PROVE IssueAnswers(t)'
  <2>1. Len(replies[t]) = 1 /\ replies[t][1] = "reserved" /\ IssueAnswers(t)
    BY <1>0, <1>1, <1>12 DEF WaiterOf, Answering
  <2>2. replies'[t] = Append(replies[t], "transferred")
    BY <1>0, <1>6, <1>12
  <2>3. /\ Len(replies'[t]) = Len(replies[t]) + 1
        /\ replies'[t][Len(replies[t]) + 1] = "transferred"
        /\ \A i \in 1..Len(replies[t]) : replies'[t][i] = replies[t][i]
    BY <1>0, <2>2, Appended
  <2>4. Len(replies'[t]) = 2 /\ replies'[t][1] = "reserved" /\ replies'[t][2] = "transferred"
    BY <2>1, <2>3
  <2>5. /\ status'[t] # "unissued" /\ t \notin issue_reservations' /\ t \notin holders'[t]
        /\ t \in seen'
    BY <1>0, <1>2, <1>3, <2>1 DEF Admission, IssueAnswers
  <2>6. \A u \in Tokens : t \in holders'[u] => u = t
    BY <1>2, <2>1 DEF IssueAnswers
  <2> QED BY <2>4, <2>5, <2>6 DEF IssueAnswers
<1>13. \A u \in Tokens : u = job.waiter => u = t
  BY <1>0, <1>1 DEF WaiterOf
<1>14. ASSUME NEW jb \in Jobs, Working(jb)' PROVE WaiterOf(jb)'
  <2>1. NoJob \in Jobs \cup {NoJob} /\ release_queue \in Seq(Jobs)
    BY <1>0 DEF TypeOK
  <2>2. jb # NoJob
    BY JobIsNotNoJob
  <2>3. PICK i \in 1..Len(release_queue) : release_queue[i] = jb
    BY <1>2, <1>14, <2>1, <2>2, DispatchWorks
  <2>4. Flight(status, release_queue, release_job, release_attempts) /\ jb.token \in Tokens
    BY <1>0, FlightEquiv DEF Jobs
  <2>5. jb.token # t
    BY <1>3, <2>3, <2>4 DEF Flight
  <2>6. Working(jb) /\ WaiterOf(jb)
    BY <1>0, <2>3 DEF Working, Answering
  <2>7. replies'[jb.token] = replies[jb.token]
    BY <1>6, <1>13, <2>4, <2>5, KindsDiffer
  <2> QED BY <2>6, <2>7 DEF WaiterOf
<1> QED BY <1>7, <1>9, <1>10, <1>11, <1>12, <1>13, <1>14 DEF Answering

\* Withdrawing an issue call: its reservation, or the lease it did not confirm.
LEMMA WithdrawAnswers ==
  ASSUME AInv, owner = "up", NEW t \in Tokens,
         \/ CancelIssueReservation(t) \/ ConfirmIssue(t) \/ CancelIssue(t)
         \/ IssueCallerDown(t) \/ CommitUnknown(t)
  PROVE  Answering' /\ AnswersGrow
<1>0. /\ TypeOK /\ SingleFlight /\ UInv /\ None \in Callers \cup {None}
      /\ None \in Requests \cup {None}
  BY DEF AInv, UInv, IInv
<1>1. ASSUME UNCHANGED <<issue_reservations, holderVars, jobVars, replies, seen>>
      PROVE  Answering' /\ AnswersGrow
  <2>1. Calm
    BY <1>0, <1>1 DEF Calm, holderVars, jobVars
  <2>2. JobsKept
    BY <1>1, QueueKept DEF jobVars
  <2> QED BY <1>1, <2>1, <2>2, NothingTold, AnsweringKept
<1>2. ASSUME RemoveIssueReservation(t) PROVE Answering' /\ AnswersGrow
  <2>1. /\ issue_reservations' \subseteq issue_reservations /\ StopOrContinue
        /\ UNCHANGED <<holders, status, seen, release_job, release_queue>>
    BY <1>2 DEF RemoveIssueReservation, holderVars, jobVars
  <2>2. Calm
    BY <2>1 DEF Calm
  <2> QED BY <1>0, <2>1, <2>2, StopTells, QueueKept, AnsweringKept
<1>3. ASSUME CancelPendingIssue(t), status[t] = "active" PROVE Answering' /\ AnswersGrow
  <2>1. /\ ReleaseEntry(t, None, {}) /\ StopOrContinue
        /\ UNCHANGED <<issue_reservations, seen>>
        /\ \A u \in Tokens : holders'[u] \subseteq holders[u]
    BY <1>0, <1>3 DEF CancelPendingIssue, TypeOK
  <2>2. \A u \in Tokens : status'[u] = "unissued" => status[u] = "unissued"
    BY <1>0, <1>3, <2>1, ReleaseEntryFlight DEF EntryStatus
  <2>3. Calm
    BY <2>1, <2>2 DEF Calm
  <2> QED BY <1>0, <2>1, <2>3, StopTells, ReleaseEntryKeepsJobs, AnsweringKept
<1>4. CASE CancelIssueReservation(t)
  BY <1>2, <1>4 DEF CancelIssueReservation
<1>5. CASE ConfirmIssue(t)
  BY <1>1, <1>5 DEF ConfirmIssue, vars
<1>6. CASE CancelIssue(t)
  BY <1>1, <1>3, <1>6 DEF CancelIssue, IssuePending, vars
<1>7. CASE IssueCallerDown(t)
  <2>1. CASE UNCHANGED <<issue_reservations, holderVars, jobVars, replies, seen>>
    BY <1>1, <2>1
  <2> QED BY <1>2, <1>3, <1>7, <2>1 DEF IssueCallerDown, IssuePending
<1>8. CASE CommitUnknown(t)
  <2>1. Calm
    BY <1>0, <1>8 DEF CommitUnknown, Calm, holderVars, jobVars
  <2>2. JobsKept /\ UNCHANGED replies
    BY <1>8, QueueKept DEF CommitUnknown, jobVars
  <2> QED BY <2>1, <2>2, NothingTold, AnsweringKept
<1> QED BY <1>4, <1>5, <1>6, <1>7, <1>8


\* A step that answers no one and moves no holder, reservation or job.
LEMMA QuietAnswers ==
  ASSUME AInv, UNCHANGED <<issue_reservations, holders, status, release_job, release_queue,
                           replies>>,
         seen \subseteq seen', owner = "stopped" => owner' = "stopped"
  PROVE  Answering' /\ AnswersGrow
<1>1. Calm
  BY DEF Calm
<1>2. JobsKept
  BY QueueKept
<1> QED BY <1>1, <1>2, NothingTold, AnsweringKept

\* The handlers of a holder answer no one but drain waiters.
LEMMA HolderStepAnswers ==
  ASSUME AInv, NEW h \in Holders,
         \/ h \in Children /\ RetainCallerDown(h)
         \/ \E t \in Tokens : \/ h \in Children /\ ConfirmRetain(t, h)
                              \/ CancelRetain(t, h) \/ Release(t, h) \/ Abandoned(t, h)
  PROVE  Answering' /\ AnswersGrow
<1>0. TypeOK
  BY DEF AInv, UInv, IInv
<1>1. ASSUME UNCHANGED <<processVars, issue_reservations, holderVars, jobVars, replies, seen>>
      PROVE  Answering' /\ AnswersGrow
  <2>1. UNCHANGED <<owner, issue_reservations, holders, status, release_job, release_queue,
                    replies, seen>>
    BY <1>1 DEF processVars, holderVars, jobVars
  <2> QED BY <2>1, QuietAnswers
<1>2. ASSUME NEW t \in Tokens, ConfirmRetain(t, h) PROVE Answering' /\ AnswersGrow
  BY <1>1, <1>2 DEF ConfirmRetain, vars
<1>3. ASSUME NEW t \in Tokens, CancelRetain(t, h) PROVE Answering' /\ AnswersGrow
  BY <1>1, <1>3, RemoveHolderAnswers DEF CancelRetain
<1>4. ASSUME NEW t \in Tokens, Release(t, h) PROVE Answering' /\ AnswersGrow
  BY <1>1, <1>4, RemoveHolderAnswers DEF Release, Holds
<1>5. ASSUME NEW t \in Tokens, Abandoned(t, h) PROVE Answering' /\ AnswersGrow
  BY <1>1, <1>5, RemoveHolderAnswers DEF Abandoned, Holds
<1>6. ASSUME h \in Children, RetainCallerDown(h) PROVE Answering' /\ AnswersGrow
  <2>1. retain_monitors[h] \in Tokens
    BY <1>0, <1>6 DEF RetainCallerDown, TypeOK
  <2> QED BY <1>1, <1>6, <2>1, RemoveHolderAnswers DEF RetainCallerDown
<1> QED BY <1>2, <1>3, <1>4, <1>5, <1>6

\* Closing and draining answer drain callers.
LEMMA DrainStepAnswers ==
  ASSUME AInv,
         \/ Close \/ ProducerDown
         \/ \E c \in Callers : Drain(c) \/ RemoveDrainWaiter(c)
  PROVE  Answering' /\ AnswersGrow
<1>0. TypeOK /\ Callers \subseteq Requests
  BY KindsDiffer DEF AInv, UInv, IInv
<1>1. ASSUME Close \/ ProducerDown PROVE Answering' /\ AnswersGrow
  <2>1. /\ owner = "up" /\ StopOrContinue
        /\ UNCHANGED <<issue_reservations, holders, status, release_job, release_queue, seen>>
    BY <1>1 DEF Close, ProducerDown, BeginDrain, holderVars, jobVars
  <2>2. Calm
    BY <2>1 DEF Calm
  <2> QED BY <1>0, <2>1, <2>2, StopTells, QueueKept, AnsweringKept
<1>2. ASSUME NEW c \in Callers, Drain(c) PROVE Answering' /\ AnswersGrow
  <2>1. /\ owner = "up" /\ seen \subseteq seen'
        /\ UNCHANGED <<issue_reservations, holders, status, release_job, release_queue>>
    BY <1>2 DEF Drain, holderVars, jobVars
  <2>2. Calm
    BY <2>1 DEF Calm
  <2>3. HoldersNotTold /\ CallersTold
    <3>1. CASE UNCHANGED replies
      BY <3>1, NothingTold
    <3>2. CASE Reply({c}, "release_failed")
      <4>1. \A r \in Requests : replies'[r] = IF r = c THEN Append(replies[r], "release_failed")
                                              ELSE replies[r]
        BY <3>2 DEF Reply
      <4> QED BY <1>0, <4>1, KindsDiffer DEF HoldersNotTold, CallersTold
    <3>3. CASE Reply(drain_waiters \cup {c}, "drained") /\ owner' = "stopped"
      <4>1. drain_waiters \cup {c} \subseteq Callers
        BY <1>0 DEF TypeOK
      <4>2. \A r \in Requests : replies'[r] = IF r \in drain_waiters \cup {c}
                                              THEN Append(replies[r], "drained")
                                              ELSE replies[r]
        BY <3>3 DEF Reply
      <4> QED BY <1>0, <3>3, <4>1, <4>2, KindsDiffer DEF HoldersNotTold, CallersTold
    <3> QED BY <1>2, <3>1, <3>2, <3>3 DEF Drain
  <2> QED BY <2>1, <2>2, <2>3, QueueKept, AnsweringKept
<1>3. ASSUME NEW c \in Callers, RemoveDrainWaiter(c) PROVE Answering' /\ AnswersGrow
  <2>1. UNCHANGED <<owner, issue_reservations, holders, status, release_job, release_queue,
                    replies, seen>>
    BY <1>3 DEF RemoveDrainWaiter, processVars, holderVars, jobVars
  <2> QED BY <2>1, QuietAnswers
<1> QED BY <1>1, <1>2, <1>3

\* Results, retries, the executor, the timers and the owner's death.
LEMMA ReleaseStepAnswers ==
  ASSUME AInv,
         \/ ReleaseResult \/ ExecutorDown \/ ExecutorExit \/ ExecutorCrash \/ OwnerKilled
         \/ \E m \in fired : RetryTimer(m[1], m[2])
         \/ \E m \in timers : TimerFires(m[1], m[2])
         \/ \E c \in Callers, t \in Tokens : Retry(c, t)
         \/ \E ok \in BOOLEAN : ExecuteRelease(ok)
  PROVE  Answering' /\ AnswersGrow
<1>0. /\ TypeOK /\ SingleFlight /\ None \in Callers \cup {None}
      /\ Callers \subseteq Requests
  BY KindsDiffer DEF AInv, UInv, IInv
<1>1. ASSUME UNCHANGED <<issue_reservations, holderVars, status, release_job, release_queue,
                         replies>>,
             seen \subseteq seen', owner = "stopped" => owner' = "stopped"
      PROVE  Answering' /\ AnswersGrow
  <2>1. UNCHANGED holders
    BY <1>1 DEF holderVars
  <2> QED BY <1>1, <2>1, QuietAnswers
<1>2. CASE OwnerKilled \/ ExecutorExit \/ ExecutorCrash
  BY <1>1, <1>2 DEF OwnerKilled, ExecutorExit, ExecutorCrash, processVars, jobVars
<1>3. CASE \/ \E m \in timers : TimerFires(m[1], m[2])
           \/ \E ok \in BOOLEAN : ExecuteRelease(ok)
  BY <1>1, <1>3 DEF TimerFires, ExecuteRelease, processVars, jobVars
<1>4. CASE ReleaseResult
  BY <1>1, <1>4, FinishAnswers DEF ReleaseResult, CurrentJob, processVars, jobVars
<1>5. CASE ExecutorDown
  <2>1. CASE release_job = NoJob
    <3>1. release_queue = <<>>
      BY <1>0, <2>1 DEF SingleFlight
    <3> QED BY <1>1, <1>5, <2>1, <3>1 DEF ExecutorDown, DispatchNextRelease, processVars
  <2> QED BY <1>5, <2>1, FinishAnswers DEF ExecutorDown
<1>6. ASSUME NEW t \in Tokens, NEW w \in Callers \cup {None}, ReleaseEntry(t, w, {}),
             status[t] = "release_failed", owner = "up",
             UNCHANGED <<issue_reservations, holderVars>>, seen \subseteq seen',
             HoldersNotTold, CallersTold
      PROVE  Answering' /\ AnswersGrow
  <2>1. w \in Requests \cup {None}
    BY <1>0
  <2>2. \A u \in Tokens : status'[u] = "unissued" => status[u] = "unissued"
    BY <1>0, <1>6, <2>1, ReleaseEntryFlight DEF EntryStatus
  <2>3. Calm
    BY <1>6, <2>2 DEF Calm, holderVars
  <2> QED BY <1>0, <1>6, <2>3, ReleaseEntryKeepsJobs, AnsweringKept
<1>7. ASSUME NEW m \in fired, RetryTimer(m[1], m[2]) PROVE Answering' /\ AnswersGrow
  <2>1. m[1] \in Tokens
    BY <1>0 DEF TypeOK
  <2>2. /\ owner = "up"
        /\ UNCHANGED <<processVars, issue_reservations, holderVars, replies, seen>>
    BY <1>7 DEF RetryTimer
  <2>3. CASE status[m[1]] = "release_failed" /\ ReleaseEntry(m[1], None, {})
    BY <1>0, <1>6, <2>1, <2>2, <2>3, NothingTold
  <2>4. CASE UNCHANGED jobVars
    BY <1>1, <2>2, <2>4 DEF jobVars, processVars
  <2> QED BY <1>7, <2>3, <2>4 DEF RetryTimer
<1>8. ASSUME NEW c \in Callers, NEW t \in Tokens, Retry(c, t)
      PROVE  Answering' /\ AnswersGrow
  <2>1. /\ owner = "up" /\ seen \subseteq seen'
        /\ UNCHANGED <<processVars, issue_reservations, holderVars>>
    BY <1>8 DEF Retry
  <2>2. CASE status[t] = "release_failed" /\ ReleaseEntry(t, c, {}) /\ UNCHANGED replies
    BY <1>6, <2>1, <2>2, NothingTold
  <2>3. CASE Reply({c}, "error") /\ UNCHANGED jobVars
    <3>1. \A r \in Requests : replies'[r] = IF r = c THEN Append(replies[r], "error")
                                            ELSE replies[r]
      BY <2>3 DEF Reply
    <3>2. HoldersNotTold /\ CallersTold
      BY <1>0, <3>1, KindsDiffer DEF HoldersNotTold, CallersTold
    <3>3. UNCHANGED <<owner, holders, status, release_job, release_queue>>
      BY <2>1, <2>3 DEF processVars, holderVars, jobVars
    <3>4. Calm
      BY <2>1, <3>3 DEF Calm
    <3> QED BY <3>2, <3>3, <3>4, QueueKept, AnsweringKept
  <2> QED BY <1>8, <2>2, <2>3 DEF Retry
<1> QED BY <1>2, <1>3, <1>4, <1>5, <1>7, <1>8

\* Every step answers as it should, and takes no answer back.
LEMMA AnswerStep == AInv /\ [Next]_vars => AInv' /\ AnswersGrow
<1> SUFFICES ASSUME AInv, [Next]_vars PROVE AInv' /\ AnswersGrow
  OBVIOUS
<1>0. UInv'
  BY UseStep DEF AInv
<1> SUFFICES Answering' /\ AnswersGrow
  BY <1>0 DEF AInv
<1>1. CASE UNCHANGED vars
  <2>1. UNCHANGED <<owner, issue_reservations, holders, status, release_job, release_queue,
                    replies, seen>>
    BY <1>1 DEF vars, processVars, holderVars, jobVars
  <2> QED BY <2>1, QuietAnswers
<1>2. CASE OwnerStep
  <2>1. \A h \in Children : h \in Holders
    BY DEF Holders
  <2>2. ASSUME NEW t \in Tokens,
               \/ CommitUnknown(t) \/ CancelIssueReservation(t) \/ ConfirmIssue(t)
               \/ CancelIssue(t) \/ IssueCallerDown(t)
        PROVE  Answering' /\ AnswersGrow
    <3>1. owner = "up"
      BY <2>2 DEF CommitUnknown, CancelIssueReservation, ConfirmIssue, CancelIssue,
                  IssueCallerDown
    <3> QED BY <2>2, <3>1, WithdrawAnswers
  <2>3. CASE \E t \in Tokens :
               \/ ReserveIssue(t) \/ CommitIssue(t) \/ RejectIssue(t) \/ CommitUnknown(t)
               \/ CancelIssueReservation(t) \/ ConfirmIssue(t) \/ CancelIssue(t)
               \/ IssueCallerDown(t)
    BY <2>2, <2>3, ReserveAnswers, CommitAnswers, RejectAnswers
  <2>4. CASE \/ \E h \in Children : RefuseRetain(h) \/ RetainCallerDown(h)
             \/ \E t \in Tokens, p \in Holders, h \in Children : Retain(t, p, h)
             \/ \E t \in Tokens, h \in Children : ConfirmRetain(t, h) \/ CancelRetain(t, h)
             \/ \E t \in Tokens, h \in Holders : Release(t, h) \/ Abandoned(t, h)
    BY <2>1, <2>4, RetainCallAnswers, HolderStepAnswers
  <2>5. CASE \/ Close \/ ProducerDown
             \/ \E c \in Callers : Drain(c) \/ RemoveDrainWaiter(c)
    BY <2>5, DrainStepAnswers
  <2>6. CASE \/ \E c \in Callers, t \in Tokens : Retry(c, t)
             \/ ReleaseResult \/ ExecutorDown
             \/ \E m \in fired : RetryTimer(m[1], m[2])
    BY <2>6, ReleaseStepAnswers
  <2> QED BY <1>2, <2>3, <2>4, <2>5, <2>6 DEF OwnerStep
<1>3. CASE RuntimeStep
  BY <1>3, ReleaseStepAnswers DEF RuntimeStep
<1> QED BY <1>1, <1>2, <1>3 DEF Next

\* Nothing is answered initially.
LEMMA AnswerStart == Init => AInv
<1>1. Init => Answering
  <2> SUFFICES ASSUME Init PROVE Answering
    OBVIOUS
  <2>1. \A r \in Requests : replies[r] = <<>> /\ Len(replies[r]) = 0
    BY DEF Init
  <2>2. \A job \in Jobs : ~Working(job)
    BY JobIsNotNoJob DEF Init, Working
  <2>3. /\ issue_reservations = {} /\ \A t \in Tokens : holders[t] = {}
    BY DEF Init
  <2>4. \A t \in Tokens : IssueAnswers(t)
    BY <2>1, <2>3, KindsDiffer DEF IssueAnswers
  <2>5. \A h \in Children : RetainAnswers(h)
    BY <2>1, <2>3, KindsDiffer DEF RetainAnswers
  <2>6. \A c \in Callers : DrainAnswers(c)
    BY <2>1, KindsDiffer DEF DrainAnswers
  <2> QED BY <2>2, <2>4, <2>5, <2>6 DEF Answering
<1> QED BY <1>1, UseStart DEF AInv

\* In every behaviour each call is answered as its protocol says: an issue call
\* at most twice, first with the refusal or the reservation and then with the
\* lease or its return, a retain call at most once, and a reference is a holder only
\* once its call was sent the lease (reply_issue_reservation, reply_issue,
\* reply_retain).
THEOREM CallsAnsweredAsPromised == Spec => []Answering
<1>1. AInv => Answering
  BY DEF AInv
<1> QED BY <1>1, AnswerStart, AnswerStep, PTL DEF Spec
=============================================================================
