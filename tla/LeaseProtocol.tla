---------------------------- MODULE LeaseProtocol ----------------------------
(***************************************************************************)
(* The lease owner together with the code its clients run: the calls       *)
(* LeaseOwner.issue, LeaseOwner.drain, Lease.retain and Lease.release, and  *)
(* the abandonment guard attached to every holder.  LeaseOwner describes   *)
(* the owner under an arbitrary environment; here every message it handles *)
(* was sent by a client, a guard's destructor or the runtime.              *)
(*                                                                         *)
(* Signals between two processes keep their order, and only those: `chan'  *)
(* is the queue from one client to the owner, whose last element is the    *)
(* client's death; a reply travels from the owner to the request's alias   *)
(* and is dropped if the alias is gone when it arrives; the owner's DOWN   *)
(* comes after its replies; nothing orders the messages of two clients,    *)
(* leases sent from one to another, or a destructor's message.             *)
(***************************************************************************)
EXTENDS LeaseOwner

CONSTANTS
  Clients,   \* processes that issue, retain, forward and release leases
  Guarded    \* abandonment_guard_factory is not nil

ASSUME ClientsAssumption == Clients # {} /\ None \notin Clients /\ Guarded \in BOOLEAN

VARIABLES
  stage,     \* what the client waits for, "idle" or "dead"
  expired,   \* clients in the `after' branch of their receive, alias still active
  request,   \* the client's request_ref, or None
  caller,    \* the client that made a request, or None
  target,    \* the token a retain call is for
  parent,    \* the holder a retain call names as its parent
  chan,      \* signals from a client to the owner
  taken,     \* number of a request's replies that have arrived
  mailbox,   \* replies in the client's mailbox
  held,      \* leases in the client's hands
  transit,   \* leases sent from one client to another
  lost,      \* holders whose guard was collected, message not yet handled
  collected, \* holders whose guard was collected
  outcome    \* what a call returned

clientVars == <<stage, expired, request, caller, target, parent>>
leaseVars  == <<held, transit>>
guardVars  == <<lost, collected>>
pvars == <<vars, clientVars, chan, taken, mailbox, leaseVars, guardVars, outcome>>

Waiting(p) == stage[p] \in {"reserve", "commit", "retain", "drain"}

\* A message names its request and, where it has one, the token and holder.
Message(kind, t, h, r) == [kind |-> kind, token |-> t, holder |-> h, request |-> r]

DownMessage == Message("down", None, None, None)

ProtocolInit ==
  /\ Init
  /\ stage = [p \in Clients |-> "idle"] /\ expired = {}
  /\ request = [p \in Clients |-> None]
  /\ caller = [r \in Requests |-> None]
  /\ target = [h \in Children |-> None] /\ parent = [h \in Children |-> None]
  /\ chan = [p \in Clients |-> <<>>]
  /\ taken = [r \in Requests |-> 0]
  /\ mailbox = [p \in Clients |-> {}]
  /\ held = [p \in Clients |-> {}] /\ transit = {}
  /\ lost = {} /\ collected = {}
  /\ outcome = [r \in Requests |-> "none"]

Send(p, m) == chan' = [chan EXCEPT ![p] = Append(@, m)]

\* The call returns: the alias is removed and the owner's monitor is flushed.
Return(p, result) ==
  /\ stage' = [stage EXCEPT ![p] = "idle"]
  /\ request' = [request EXCEPT ![p] = None]
  /\ outcome' = [outcome EXCEPT ![request[p]] = result]

-----------------------------------------------------------------------------
(* Starting a call.  Process.alive? fails when the owner is gone.          *)

StartCall(p, r, waits, m, refused) ==
  /\ stage[p] = "idle" /\ caller[r] = None
  /\ caller' = [caller EXCEPT ![r] = p]
  /\ \/ /\ owner = "up"
        /\ stage' = [stage EXCEPT ![p] = waits]
        /\ request' = [request EXCEPT ![p] = r]
        /\ Send(p, m)
        /\ UNCHANGED outcome
     \/ /\ owner # "up"
        /\ outcome' = [outcome EXCEPT ![r] = refused]
        /\ UNCHANGED <<stage, request, chan>>
  /\ UNCHANGED <<vars, expired, taken, mailbox, leaseVars, guardVars>>

\* LeaseOwner.issue/3, do_issue
IssueCall(p, t) ==
  /\ StartCall(p, t, "reserve", Message("reserve", t, None, t), "caller_owned")
  /\ UNCHANGED <<target, parent>>

\* Lease.retain/2
RetainCall(p, lease, h) ==
  /\ lease \in held[p]
  /\ StartCall(p, h, "retain", Message("retain", lease[1], h, h), "error")
  /\ target' = [target EXCEPT ![h] = lease[1]]
  /\ parent' = [parent EXCEPT ![h] = lease[2]]

\* LeaseOwner.drain/2
DrainCall(p, c) ==
  /\ StartCall(p, c, "drain", Message("drain", None, None, c), "error")
  /\ UNCHANGED <<target, parent>>

\* Lease.release/1
ReleaseCall(p, lease) ==
  /\ stage[p] = "idle" /\ lease \in held[p]
  /\ held' = [held EXCEPT ![p] = @ \ {lease}]
  /\ Send(p, Message("release", lease[1], lease[2], None))
  /\ UNCHANGED <<vars, clientVars, taken, mailbox, transit, guardVars, outcome>>

-----------------------------------------------------------------------------
(* Waiting for a call.                                                     *)

Answered(p) == \E m \in mailbox[p] : m[1] = request[p]

\* A reply arrives at its alias, which exists until the call returns.
ReplyArrives(r) ==
  /\ taken[r] < Len(replies[r])
  /\ taken' = [taken EXCEPT ![r] = @ + 1]
  /\ mailbox' = [p \in Clients |->
       IF p = caller[r] /\ request[p] = r /\ stage[p] # "dead"
       THEN mailbox[p] \cup {<<r, replies[r][taken[r] + 1]>>} ELSE mailbox[p]]
  /\ UNCHANGED <<vars, clientVars, chan, leaseVars, guardVars, outcome>>

\* The receive of await_issue_reservation, await_committed_issue, await_retain
\* or await_drain takes the reply; a child guard may be found invalid.
TakeReply(p, m) ==
  /\ Waiting(p) /\ p \notin expired
  /\ m \in mailbox[p] /\ m[1] = request[p]
  /\ mailbox' = [mailbox EXCEPT ![p] = @ \ {m}]
  /\ LET r == m[1]
     IN \/ /\ m[2] = "reserved"
           /\ stage' = [stage EXCEPT ![p] = "commit"]
           /\ Send(p, Message("commit", r, None, r))
           /\ UNCHANGED <<request, held, outcome>>
        \/ /\ m[2] = "issued"
           /\ Send(p, Message("confirm_issue", r, None, r))
           /\ held' = [held EXCEPT ![p] = @ \cup {<<r, r>>}]
           /\ Return(p, "ok")
        \/ /\ m[2] = "retained"
           /\ Send(p, Message("confirm_retain", target[r], r, r))
           /\ held' = [held EXCEPT ![p] = @ \cup {<<target[r], r>>}]
           /\ Return(p, "ok")
        \/ /\ m[2] = "retained" /\ Guarded
           /\ Send(p, Message("cancel_retain", target[r], r, r))
           /\ Return(p, "error")
           /\ UNCHANGED held
        \/ /\ m[2] \in {"caller_owned", "transferred", "drained"}
           /\ Return(p, m[2])
           /\ UNCHANGED <<chan, held>>
        \/ /\ m[2] \in {"retain_error", "release_failed"}
           /\ Return(p, "error")
           /\ UNCHANGED <<chan, held>>
  /\ UNCHANGED <<vars, expired, caller, target, parent, taken, transit, guardVars>>

\* What a call returns when it ends without a reply.
Unanswered(p) ==
  CASE stage[p] = "reserve" -> "caller_owned"
    [] stage[p] = "commit"  -> "transferred"
    [] OTHER                -> "error"

\* The owner's DOWN, which comes after every reply it sent.
TakeDown(p) ==
  /\ Waiting(p) /\ p \notin expired
  /\ owner # "up"
  /\ taken[request[p]] = Len(replies[request[p]]) /\ ~Answered(p)
  /\ Return(p, Unanswered(p))
  /\ UNCHANGED <<vars, expired, caller, target, parent, chan, taken, mailbox,
                 leaseVars, guardVars>>

\* Mutant: the reservation is cancelled and its reply still awaited.
ExpireAndWait(p) ==
  /\ stage[p] = "reserve" /\ ~Answered(p) /\ Len(chan[p]) < 2
  /\ Send(p, Message("cancel_reservation", request[p], None, request[p]))
  /\ UNCHANGED <<vars, clientVars, taken, mailbox, leaseVars, guardVars, outcome>>

\* The receive times out; the alias is still active.
Expire(p) ==
  /\ Waiting(p) /\ p \notin expired /\ ~Answered(p)
  /\ expired' = expired \cup {p}
  /\ UNCHANGED <<vars, stage, request, caller, target, parent, chan, taken,
                 mailbox, leaseVars, guardVars, outcome>>

\* Mutant: a timeout of a retain call sends no cancellation.
CancelSilently(p) ==
  CASE stage[p] = "reserve" -> Message("cancel_reservation", request[p], None, request[p])
    [] stage[p] = "commit"  -> Message("cancel_issue", request[p], None, request[p])
    [] OTHER                -> Message("cancel_drain", None, None, request[p])

\* Mutant: a committed issue is cancelled as if it were still a reservation.
CancelAsReservation(p) ==
  CASE stage[p] \in {"reserve", "commit"} ->
         Message("cancel_reservation", request[p], None, request[p])
    [] stage[p] = "retain"  -> Message("cancel_retain", target[request[p]], request[p], request[p])
    [] OTHER                -> Message("cancel_drain", None, None, request[p])

\* The message that takes a timed-out call back.
Cancellation(p) ==
  CASE stage[p] = "reserve" -> Message("cancel_reservation", request[p], None, request[p])
    [] stage[p] = "commit"  -> Message("cancel_issue", request[p], None, request[p])
    [] stage[p] = "retain"  -> Message("cancel_retain", target[request[p]], request[p], request[p])
    [] OTHER                -> Message("cancel_drain", None, None, request[p])

\* Process.unalias, the cancellation and Process.demonitor of the `after' branch.
TimeOut(p) ==
  /\ Waiting(p) /\ p \in expired
  /\ expired' = expired \ {p}
  /\ Send(p, Cancellation(p))
  /\ Return(p, Unanswered(p))
  /\ UNCHANGED <<vars, caller, target, parent, taken, mailbox, leaseVars, guardVars>>

-----------------------------------------------------------------------------
(* Leases move between clients, clients die, and guards are collected.     *)

Forward(p, q, lease) ==
  /\ stage[p] = "idle" /\ p # q /\ lease \in held[p]
  /\ held' = [held EXCEPT ![p] = @ \ {lease}]
  /\ transit' = transit \cup {<<q, lease>>}
  /\ UNCHANGED <<vars, clientVars, chan, taken, mailbox, guardVars, outcome>>

ForwardArrives(m) ==
  /\ m \in transit
  /\ transit' = transit \ {m}
  /\ held' = [held EXCEPT ![m[1]] = IF stage[m[1]] = "dead" THEN @ ELSE @ \cup {m[2]}]
  /\ UNCHANGED <<vars, clientVars, chan, taken, mailbox, guardVars, outcome>>

Die(p) ==
  /\ stage[p] # "dead"
  /\ stage' = [stage EXCEPT ![p] = "dead"]
  /\ expired' = expired \ {p}
  /\ request' = [request EXCEPT ![p] = None]
  /\ mailbox' = [mailbox EXCEPT ![p] = {}]
  /\ held' = [held EXCEPT ![p] = {}]
  /\ Send(p, DownMessage)
  /\ UNCHANGED <<vars, caller, target, parent, taken, transit, guardVars, outcome>>

\* The holder was granted: its lease, with its guard, was sent in a reply.
Granted(t, h) ==
  IF h \in Tokens
  THEN h = t /\ \E i \in 1..Len(replies[t]) : replies[t][i] = "issued"
  ELSE target[h] = t /\ \E i \in 1..Len(replies[h]) : replies[h][i] = "retained"

\* A reply with the holder's lease has not arrived, or waits in a mailbox.
GrantPending(h) ==
  \/ taken[h] < Len(replies[h]) /\ replies[h][Len(replies[h])] \in {"issued", "retained"}
  \/ \E p \in Clients : \E m \in mailbox[p] : m[1] = h /\ m[2] \in {"issued", "retained"}

InHand(t, h) ==
  \/ \E p \in Clients : <<t, h>> \in held[p]
  \/ \E m \in transit : m[2] = <<t, h>>

\* No term refers to the guard any more: its destructor runs.  (External: the
\* producer's native resource, a garbage collection of the last process.)
CollectGuard(t, h) ==
  /\ Guarded /\ Granted(t, h)
  /\ ~InHand(t, h) /\ ~GrantPending(h) /\ <<t, h>> \notin collected
  /\ collected' = collected \cup {<<t, h>>}
  /\ lost' = lost \cup {<<t, h>>}
  /\ UNCHANGED <<vars, clientVars, chan, taken, mailbox, leaseVars, outcome>>

-----------------------------------------------------------------------------
(* The owner's mailbox.                                                    *)

\* The messages of a live client, each with its whole handler.
Handle(m) ==
  \/ m.kind = "reserve" /\ ReserveIssue(m.token)
  \/ m.kind = "commit" /\ (\/ CommitIssue(m.token) \/ RejectIssue(m.token)
                           \/ CommitUnknown(m.token))
  \/ m.kind = "cancel_reservation" /\ CancelIssueReservation(m.token)
  \/ m.kind = "confirm_issue" /\ ConfirmIssue(m.token)
  \/ m.kind = "cancel_issue" /\ CancelIssue(m.token)
  \/ m.kind = "retain" /\ Retain(m.token, parent[m.holder], m.holder)
  \/ m.kind = "retain" /\ RefuseRetain(m.holder)
  \/ m.kind = "confirm_retain" /\ ConfirmRetain(m.token, m.holder)
  \/ m.kind = "cancel_retain" /\ CancelRetain(m.token, m.holder)
  \/ m.kind = "release" /\ Release(m.token, m.holder)
  \/ m.kind = "drain" /\ Drain(m.request)
  \/ m.kind = "cancel_drain" /\ RemoveDrainWaiter(m.request)

Receive(p) ==
  /\ chan[p] # <<>> /\ Handle(Head(chan[p]))
  /\ chan' = [chan EXCEPT ![p] = Tail(@)]
  /\ UNCHANGED <<clientVars, taken, mailbox, leaseVars, guardVars, outcome>>

\* One DOWN for every monitor the owner has on a dead client.
ReceiveDown(p) ==
  /\ chan[p] # <<>> /\ Head(chan[p]).kind = "down"
  /\ \/ \E t \in Tokens : /\ caller[t] = p /\ issue_monitors[t] # "none"
                          /\ IssueCallerDown(t)
     \/ \E h \in Children : caller[h] = p /\ RetainCallerDown(h)
     \/ \E c \in drain_monitors : caller[c] = p /\ RemoveDrainWaiter(c)
  /\ UNCHANGED <<clientVars, chan, taken, mailbox, leaseVars, guardVars, outcome>>

ReceiveAbandoned(t, h) ==
  /\ <<t, h>> \in lost
  /\ Abandoned(t, h)
  /\ lost' = lost \ {<<t, h>>}
  /\ UNCHANGED <<clientVars, chan, taken, mailbox, leaseVars, collected, outcome>>

clientSide == <<clientVars, chan, taken, mailbox, leaseVars, guardVars, outcome>>

\* The release callback, its result, and the executor's DOWN.
RunRelease   == (\E ok \in BOOLEAN : ExecuteRelease(ok)) /\ UNCHANGED clientSide
FinishResult == ReleaseResult /\ UNCHANGED clientSide
FinishDown   == ExecutorDown /\ UNCHANGED clientSide

\* The producer closes or dies, timers expire, the owner or the executor dies.
Background ==
  /\ \/ Close \/ ProducerDown \/ ExecutorCrash \/ ExecutorExit \/ OwnerKilled
     \/ \E m \in timers : TimerFires(m[1], m[2])
     \/ \E m \in fired : RetryTimer(m[1], m[2])
  /\ UNCHANGED clientSide

AwaitStep(p) == (\E m \in mailbox[p] : TakeReply(p, m)) \/ TakeDown(p) \/ TimeOut(p)

ClientStep ==
  \/ \E p \in Clients :
        \/ \E t \in Tokens : IssueCall(p, t)
        \/ \E lease \in held[p], h \in Children : RetainCall(p, lease, h)
        \/ \E c \in Callers : DrainCall(p, c)
        \/ \E lease \in held[p] : ReleaseCall(p, lease)
        \/ AwaitStep(p) \/ Expire(p) \/ Die(p)
        \/ \E q \in Clients, lease \in held[p] : Forward(p, q, lease)
  \/ \E m \in transit : ForwardArrives(m)
  \/ \E r \in Requests : ReplyArrives(r)
  \/ \E t \in Tokens, h \in Holders : CollectGuard(t, h)

ProtocolNext ==
  \/ ClientStep
  \/ \E p \in Clients : Receive(p) \/ ReceiveDown(p)
  \/ \E id \in lost : ReceiveAbandoned(id[1], id[2])
  \/ RunRelease \/ FinishResult \/ FinishDown \/ Background

ProtocolSpec == ProtocolInit /\ [][ProtocolNext]_pvars

(***************************************************************************)
(* Signals that were sent arrive, a process takes a message it waits for   *)
(* and finishes the branch it has entered, callbacks return, and garbage   *)
(* is collected.  No timeout is assumed to expire (it may be :infinity),   *)
(* and no client is assumed to release anything.                           *)
(***************************************************************************)
ProtocolFairness ==
  /\ \A p \in Clients : /\ WF_pvars(AwaitStep(p))
                        /\ WF_pvars(Receive(p)) /\ WF_pvars(ReceiveDown(p))
  /\ \A r \in Requests : WF_pvars(ReplyArrives(r))
  /\ WF_pvars(\E m \in transit : ForwardArrives(m))
  /\ \A t \in Tokens, h \in Holders :
        WF_pvars(CollectGuard(t, h)) /\ WF_pvars(ReceiveAbandoned(t, h))
  /\ WF_pvars(RunRelease) /\ WF_pvars(FinishResult) /\ WF_pvars(FinishDown)

FairProtocolSpec == ProtocolSpec /\ ProtocolFairness

-----------------------------------------------------------------------------
(* Safety.                                                                 *)

\* A lease that issue or retain returned, and that was not released, is good
\* wherever it was forwarded: its holder is registered while the owner runs,
\* and its buffer has not gone back to the producer, whatever timeouts, deaths
\* and late messages of other calls did (await_retain, await_committed_issue,
\* handle_protocol_down, cancel_retain handler).
LeasesBacked ==
  \A t \in Tokens, h \in Holders :
    InHand(t, h) => t \notin released /\ (owner = "up" => Holds(t, h))

\* The ownership table of issue/3: {:caller_owned, _} leaves the backend token
\* with the caller for good (it was never and will never be committed), after
\* {:transferred, _} no client has a lease of it, and "a token-bearing commit
\* without its bounded reservation is protocol corruption" that no client can
\* cause, however its timeout races with the reservation
\* (await_issue_reservation, await_committed_issue, commit_issue handler).
OwnershipSettled ==
  /\ owner # "corrupt"
  /\ \A t \in Tokens :
       /\ outcome[t] = "caller_owned" =>
            /\ status[t] = "unissued" /\ t \notin released
            /\ \A p \in Clients : \A i \in 1..Len(chan[p]) :
                 ~(chan[p][i].kind = "commit" /\ chan[p][i].token = t)
       /\ outcome[t] = "transferred" => \A h \in Holders : ~InHand(t, h)

\* A message that removes the holder is on its way.
RemovalSent(t, h) ==
  \E p \in Clients : \E i \in 1..Len(chan[p]) :
    LET m == chan[p][i]
    IN \/ m.kind \in {"release", "cancel_retain"} /\ m.token = t /\ m.holder = h
       \/ m.kind = "cancel_issue" /\ m.token = t
       \/ /\ m.kind = "down" /\ caller[h] = p
          /\ h \in pending_issue \/ h \in pending_retains[t]

\* No holder leaks.  Each one is in a client's hands, or its call has not
\* returned yet, or the message that removes it is on its way; only the death
\* of a client leaves it to the guard, whose message the owner has not yet
\* handled (retain handshake, handle_protocol_down, abandoned handler).
HoldersAccountedFor ==
  owner = "up" /\ (Guarded \/ \A p \in Clients : stage[p] # "dead") =>
    \A t \in Tokens : \A h \in holders[t] :
      \/ InHand(t, h) \/ RemovalSent(t, h)
      \/ \E p \in Clients : request[p] = h
      \/ /\ \E p \in Clients : stage[p] = "dead"
         /\ <<t, h>> \notin collected \ lost

\* drain/2 that returned :ok means what it says: the owner has stopped, nothing
\* it was given is outstanding, and no client is left with a lease it could
\* still use (drain handler, complete_drain, await_drain).
DrainMeansDone ==
  \A c \in Callers : outcome[c] = "drained" =>
    /\ owner = "stopped" /\ Leases = {} /\ issue_reservations = {}
    /\ \A t \in Tokens, h \in Holders : ~InHand(t, h)

\* "Removing the process alias also drops a late acknowledgement instead of
\* leaving it in the caller's mailbox" (Lease.await_retain): the mailbox holds a
\* reply to a retain call only while that call is under way.
NoStaleReply ==
  \A p \in Clients : \A m \in mailbox[p] : m[1] \in Children => request[p] = m[1]

-----------------------------------------------------------------------------
(* Liveness.                                                               *)

\* An issue or retain call returns even with timeout :infinity: every request
\* is answered, or the owner's DOWN arrives (do_issue, Lease.retain).
CallsReturn ==
  \A p \in Clients :
    stage[p] \in {"reserve", "commit", "retain"} ~> stage[p] \in {"idle", "dead"}

\* A token whose issue ended in {:transferred, _} does go back to the producer,
\* or its failed release is on record (cancel_issue, reject_issue).
TransferredReturned ==
  \A t \in Tokens :
    outcome[t] = "transferred" ~>
      status[t] \in {"retired", "release_failed"} \/ owner # "up"

\* When all clients are dead every lease is retired: monitors end the open
\* handshakes, guards abandon the leases that were in hand
\* (handle_protocol_down, abandoned handler).
AbandonedReturned ==
  Guarded /\ (\A p \in Clients : stage[p] = "dead") ~>
    \/ owner # "up"
    \/ \A t \in Tokens : status[t] \in {"unissued", "retired", "release_failed"}
=============================================================================
