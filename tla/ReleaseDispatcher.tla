-------------------------- MODULE ReleaseDispatcher --------------------------
(***************************************************************************)
(* Native release dispatchers (rust/video-interop/src/beam.rs): each has a *)
(* worker thread that sends release and abandonment messages to lease      *)
(* owners, counted clients that pin it, and close_and_join, which any      *)
(* number of threads may call at once.  One load, store, compare-exchange  *)
(* or fetch is one step: the accesses by which clients and closers exclude *)
(* each other are SeqCst, and the others concern the health alone.         *)
(*                                                                         *)
(* Every holder may have a guard resource and may be prepared once by      *)
(* native code.  Both are clients of a dispatcher, each of its own: a      *)
(* guard keeps that of the producer's NIF, a lease is prepared with that   *)
(* of the consumer's, which may be the same (via).  The actor              *)
(* <<"guard", h>> is a client first to create the guard and, when the      *)
(* guard is dropped, to dispatch :video_interop_abandoned; the actor       *)
(* <<"lease", h>> to dispatch :video_interop_release.  FailForTest and     *)
(* DelayForTest are test support and left out; a panic of a worker is      *)
(* kept.                                                                   *)
(***************************************************************************)
EXTENDS Integers, Sequences, FiniteSets

CONSTANTS
  Dispatchers,  \* ReleaseDispatcher resources, of one or several NIFs
  Holders,      \* lease holders known to native code
  Closers,      \* threads that call close_and_join
  Closes,       \* the dispatcher each of them closes
  MaxCalls      \* bound on the calls of each closer

Actors   == {"guard", "lease"} \X Holders
Commands == Actors \cup {"stop"}

\* The last two only say that a thread and a client are not called like the
\* free mutex and the Stop command.
ASSUME DispatcherAssumption ==
  /\ IsFiniteSet(Holders) /\ MaxCalls \in Nat \ {0}
  /\ Closes \in [Closers -> Dispatchers]
  /\ "free" \notin Closers /\ "stop" \notin Actors

VARIABLES
  \* of each dispatcher
  health,          \* "HEALTHY", "STOPPING", "STOPPED" or "FAILED"
  active_clients,
  queue,           \* the mpsc channel to the worker
  worker,          \* the thread: "running", "panicked" or "finished"
  handle,          \* state.worker is Some
  stop_enqueued,
  joining,
  lock,            \* the closer that holds the state mutex, or "free"
  \* of clients and closers
  pc,              \* where each client is
  dropped,         \* holders whose guard has been dropped
  closer,          \* where each close_and_join is
  calls,           \* calls each closer has made
  delivered,       \* commands a worker has sent or found undeliverable
  \* of the VM
  fatal,           \* fatal_dispatcher_corruption, "none" while it has not happened
  via,             \* the dispatcher each guard and lease is made with
  owned,           \* dispatchers to which the lifecycle owner has a reference
  freed            \* dispatchers that have been dropped

stateVars == <<handle, stop_enqueued, joining, lock>>
refVars   == <<via, owned, freed>>
vars == <<health, active_clients, queue, worker, stateVars, pc, dropped, closer,
          calls, delivered, fatal, refVars>>

\* "absent"   a holder without a guard
\* "idle"     not started                 "loaded"   first load was HEALTHY
\* "counted"  fetch_add done              "backout"  recheck failed
\* "refused"  no client                   "held"     has its client
\* "claimed"  a claimed lease             "sent"     command queued, client held
\* "finished" permit or prepared lease being dropped, client held
\* "live"     the guard exists            "retired"  command queued, client gone
\* "unused"   a lease never claimed       "inert"    guard dropped after close
ClientStates == {"absent", "idle", "loaded", "counted", "backout", "refused", "held",
                 "claimed", "sent", "finished", "live", "retired", "unused", "inert"}

CloserStates == {"out", "clients", "enqueue", "sending", "joining", "checking",
                 "locking", "joined", "ok"}

TypeOK ==
  /\ health \in [Dispatchers -> {"HEALTHY", "STOPPING", "STOPPED", "FAILED"}]
  /\ active_clients \in [Dispatchers -> Nat]
  /\ queue \in [Dispatchers -> Seq(Commands)]
  /\ worker \in [Dispatchers -> {"running", "panicked", "finished"}]
  /\ handle \in [Dispatchers -> BOOLEAN]
  /\ stop_enqueued \in [Dispatchers -> BOOLEAN]
  /\ joining \in [Dispatchers -> BOOLEAN]
  /\ lock \in [Dispatchers -> Closers \cup {"free"}]
  /\ pc \in [Actors -> ClientStates]
  /\ dropped \subseteq Holders
  /\ closer \in [Closers -> CloserStates]
  /\ calls \in [Closers -> 0..MaxCalls]
  /\ delivered \subseteq Actors
  /\ fatal \in {"none", "panicked", "send failed", "underflow", "guard", "unjoined"}
  /\ via \in [Actors -> Dispatchers]
  /\ owned \subseteq Dispatchers /\ freed \subseteq Dispatchers

Guard(h) == <<"guard", h>>
Lease(h) == <<"lease", h>>

Init ==
  /\ health = [d \in Dispatchers |-> "HEALTHY"]
  /\ active_clients = [d \in Dispatchers |-> 0]
  /\ queue = [d \in Dispatchers |-> <<>>]
  /\ worker = [d \in Dispatchers |-> "running"]
  /\ handle = [d \in Dispatchers |-> TRUE]
  /\ stop_enqueued = [d \in Dispatchers |-> FALSE]
  /\ joining = [d \in Dispatchers |-> FALSE]
  /\ lock = [d \in Dispatchers |-> "free"]
  /\ \E unguarded \in SUBSET Holders :
       pc = [a \in Actors |-> IF a[1] = "guard" /\ a[2] \in unguarded THEN "absent" ELSE "idle"]
  /\ dropped = {}
  /\ closer = [k \in Closers |-> "out"] /\ calls = [k \in Closers |-> 0]
  /\ delivered = {} /\ fatal = "none"
  /\ via \in [Actors -> Dispatchers] /\ owned = Dispatchers /\ freed = {}

\* process::abort ends every thread.
Alive == fatal = "none"

Goto(a, l) == pc' = [pc EXCEPT ![a] = l]

-----------------------------------------------------------------------------
(* acquire_client and release_client.                                      *)

\* The guard, if there is one, is created first; its term, and so its guard, is
\* alive while the frame is being prepared.  A NIF call is given a dispatcher
\* that somebody still owns; a guard that is dropped has its own reference.
MayStart(a) ==
  \/ a[1] = "guard" /\ a[2] \in dropped
  \/ a[1] = "guard" /\ via[a] \in owned
  \/ a[1] = "lease" /\ via[a] \in owned /\ pc[Guard(a[2])] \in {"live", "absent"}

\* The first load of acquire_client.
LoadHealth(a) ==
  /\ Alive
  /\ pc[a] = "idle" /\ MayStart(a)
  /\ Goto(a, IF health[via[a]] = "HEALTHY" THEN "loaded" ELSE "refused")
  /\ UNCHANGED <<health, active_clients, queue, worker, stateVars, dropped, closer,
                 calls, delivered, fatal, refVars>>

CountClient(a) ==
  /\ Alive
  /\ pc[a] = "loaded"
  /\ active_clients' = [active_clients EXCEPT ![via[a]] = @ + 1]
  /\ Goto(a, "counted")
  /\ UNCHANGED <<health, queue, worker, stateVars, dropped, closer, calls,
                 delivered, fatal, refVars>>

\* Mutant: the health is not loaded again after the fetch_add.
RecheckNever(a) ==
  /\ Alive
  /\ pc[a] = "counted"
  /\ Goto(a, "held")
  /\ UNCHANGED <<health, active_clients, queue, worker, stateVars, dropped, closer,
                 calls, delivered, fatal, refVars>>

\* The second load: close may have begun before the fetch_add.
RecheckHealth(a) ==
  /\ Alive
  /\ pc[a] = "counted"
  /\ Goto(a, IF health[via[a]] = "HEALTHY" THEN "held" ELSE "backout")
  /\ UNCHANGED <<health, active_clients, queue, worker, stateVars, dropped, closer,
                 calls, delivered, fatal, refVars>>

\* What follows release_client: acquire_client fails, the guard resource is
\* returned to BEAM, a prepared lease is gone, or a dispatch is complete.
AfterRelease(a) ==
  CASE pc[a] = "backout"                     -> "refused"
    [] pc[a] = "finished" /\ a[1] = "guard"  -> "live"
    [] pc[a] = "finished" /\ a[1] = "lease"  -> "unused"
    [] OTHER                                 -> "retired"

ReleaseClient(a) ==
  /\ Alive
  /\ pc[a] \in {"backout", "finished", "sent"}
  /\ \/ /\ active_clients[via[a]] > 0
        /\ active_clients' = [active_clients EXCEPT ![via[a]] = @ - 1]
        /\ Goto(a, AfterRelease(a))
        /\ UNCHANGED fatal
     \/ /\ active_clients[via[a]] = 0
        /\ fatal' = "underflow"
        /\ UNCHANGED <<active_clients, pc>>
  /\ UNCHANGED <<health, queue, worker, stateVars, dropped, closer, calls, delivered,
                 refVars>>

-----------------------------------------------------------------------------
(* Guards and leases.                                                      *)

\* with_guard_admission made the resource, or a PreparedLease is dropped
\* without having been claimed: only the client is given back.
FinishClient(a) ==
  /\ Alive
  /\ pc[a] = "held"
  /\ a[1] = "guard" => a[2] \notin dropped
  /\ Goto(a, "finished")
  /\ UNCHANGED <<health, active_clients, queue, worker, stateVars, dropped, closer,
                 calls, delivered, fatal, refVars>>

\* PreparedVideoFrame::claim
Claim(h) ==
  /\ Alive
  /\ pc[Lease(h)] = "held"
  /\ Goto(Lease(h), "claimed")
  /\ UNCHANGED <<health, active_clients, queue, worker, stateVars, dropped, closer,
                 calls, delivered, fatal, refVars>>

\* Mutant: dispatch gives its client back, and its drop does so again.
DispatchTwice(a) ==
  /\ Alive
  /\ \/ pc[a] = "claimed"
     \/ pc[a] = "held" /\ a[1] = "guard" /\ a[2] \in dropped
  /\ worker[via[a]] # "finished" /\ queue' = [queue EXCEPT ![via[a]] = Append(@, a)]
  /\ active_clients' = [active_clients EXCEPT ![via[a]] = @ - 1]
  /\ Goto(a, "sent")
  /\ UNCHANGED <<health, worker, stateVars, dropped, closer, calls, delivered, fatal, refVars>>

\* DispatcherClient::dispatch, from ClaimedLease (retire or drop) or from the
\* drop of a guard; the client is released afterwards.
Dispatch(a) ==
  /\ Alive
  /\ \/ pc[a] = "claimed"
     \/ pc[a] = "held" /\ a[1] = "guard" /\ a[2] \in dropped
  /\ \/ /\ worker[via[a]] # "finished"
        /\ queue' = [queue EXCEPT ![via[a]] = Append(@, a)]
        /\ Goto(a, "sent")
        /\ UNCHANGED fatal
     \/ /\ worker[via[a]] = "finished"
        /\ fatal' = "send failed"
        /\ UNCHANGED <<queue, pc>>
  /\ UNCHANGED <<health, active_clients, worker, stateVars, dropped, closer, calls,
                 delivered, refVars>>

\* Mutant: a claimed lease does not keep its guard alive.
NotKeptAlive(h) == pc[Lease(h)] \notin {"loaded", "counted", "backout"}

\* GuardKeepalive: a claimed lease keeps the guard until its release command is
\* queued and its client gone; a prepared one gives the guard up first.
NotKept(h) == pc[Lease(h)] \in {"idle", "refused", "retired", "unused", "finished"}

\* Drop for AbandonmentGuard begins: dispatch_abandoned.
DropGuard(h) ==
  /\ Alive
  /\ pc[Guard(h)] = "live" /\ NotKept(h)
  /\ dropped' = dropped \cup {h}
  /\ Goto(Guard(h), "idle")
  /\ UNCHANGED <<health, active_clients, queue, worker, stateVars, closer, calls,
                 delivered, fatal, refVars>>

\* dispatch_abandoned without a client: harmless once the dispatcher closes.
AbandonLate(h) ==
  /\ Alive
  /\ pc[Guard(h)] = "refused" /\ h \in dropped
  /\ \/ /\ health[via[Guard(h)]] \in {"STOPPING", "STOPPED"}
        /\ Goto(Guard(h), "inert")
        /\ UNCHANGED fatal
     \/ /\ health[via[Guard(h)]] \notin {"STOPPING", "STOPPED"}
        /\ fatal' = "guard"
        /\ UNCHANGED pc
  /\ UNCHANGED <<health, active_clients, queue, worker, stateVars, dropped, closer,
                 calls, delivered, refVars>>

-----------------------------------------------------------------------------
(* dispatch_worker.                                                        *)

WorkerSend(d) ==
  /\ Alive
  /\ worker[d] = "running" /\ queue[d] # <<>> /\ Head(queue[d]) # "stop"
  /\ queue' = [queue EXCEPT ![d] = Tail(@)]
  /\ delivered' = delivered \cup {Head(queue[d])}
  /\ UNCHANGED <<health, active_clients, worker, stateVars, pc, dropped, closer,
                 calls, fatal, refVars>>

WorkerStop(d) ==
  /\ Alive
  /\ worker[d] = "running" /\ queue[d] # <<>> /\ Head(queue[d]) = "stop"
  /\ queue' = [queue EXCEPT ![d] = Tail(@)]
  /\ worker' = [worker EXCEPT ![d] = "finished"]
  /\ UNCHANGED <<health, active_clients, stateVars, pc, dropped, closer, calls,
                 delivered, fatal, refVars>>

\* A command panics: the health is published, then the process aborts.
WorkerPanic(d) ==
  /\ Alive
  /\ worker[d] = "running" /\ queue[d] # <<>> /\ Head(queue[d]) # "stop"
  /\ health' = [health EXCEPT ![d] = "FAILED"]
  /\ worker' = [worker EXCEPT ![d] = "panicked"]
  /\ UNCHANGED <<active_clients, queue, stateVars, pc, dropped, closer,
                 calls, delivered, fatal, refVars>>

WorkerAbort(d) ==
  /\ Alive
  /\ worker[d] = "panicked"
  /\ fatal' = "panicked"
  /\ UNCHANGED <<health, active_clients, queue, worker, stateVars, pc, dropped,
                 closer, calls, delivered, refVars>>

-----------------------------------------------------------------------------
(* close_and_join.                                                         *)

CloserGoto(k, l) == closer' = [closer EXCEPT ![k] = l]

\* begin_close: the loop ends with the compare-exchange or a later state.
BeginClose(k) ==
  /\ Alive
  /\ closer[k] \in {"out", "ok"} /\ calls[k] < MaxCalls /\ Closes[k] \in owned
  /\ calls' = [calls EXCEPT ![k] = @ + 1]
  /\ health' = [health EXCEPT ![Closes[k]] = IF @ = "HEALTHY" THEN "STOPPING" ELSE @]
  /\ CloserGoto(k, IF health[Closes[k]] = "FAILED" THEN "out" ELSE "clients")
  /\ UNCHANGED <<active_clients, queue, worker, stateVars, pc, dropped, delivered,
                 fatal, refVars>>

\* wait_for_clients
WaitForClients(k) ==
  /\ Alive
  /\ closer[k] = "clients" /\ active_clients[Closes[k]] = 0
  /\ CloserGoto(k, "enqueue")
  /\ UNCHANGED <<health, active_clients, queue, worker, stateVars, pc, dropped,
                 calls, delivered, fatal, refVars>>

\* enqueue_stop_once, up to its checks under the mutex ...
EnterEnqueue(k) ==
  LET d == Closes[k] IN
  /\ Alive
  /\ closer[k] = "enqueue" /\ lock[d] = "free"
  /\ \/ /\ health[d] = "STOPPED" \/ stop_enqueued[d]
        /\ CloserGoto(k, "joining")
        /\ UNCHANGED lock
     \/ /\ health[d] # "STOPPED" /\ ~stop_enqueued[d] /\ ~handle[d]
        /\ CloserGoto(k, "out")
        /\ UNCHANGED lock
     \/ /\ health[d] # "STOPPED" /\ ~stop_enqueued[d] /\ handle[d]
        /\ lock' = [lock EXCEPT ![d] = k]
        /\ CloserGoto(k, "sending")
  /\ UNCHANGED <<health, active_clients, queue, worker, handle, stop_enqueued,
                 joining, pc, dropped, calls, delivered, fatal, refVars>>

\* Mutant: Stop is noted and not sent.
EnqueueNothing(k) ==
  /\ Alive
  /\ closer[k] = "sending"
  /\ stop_enqueued' = [stop_enqueued EXCEPT ![Closes[k]] = TRUE]
  /\ lock' = [lock EXCEPT ![Closes[k]] = "free"]
  /\ CloserGoto(k, "joining")
  /\ UNCHANGED <<health, active_clients, queue, worker, handle, joining, pc, dropped,
                 calls, delivered, fatal, refVars>>

\* ... and the send, after which the mutex is released.
EnqueueStop(k) ==
  LET d == Closes[k] IN
  /\ Alive
  /\ closer[k] = "sending"
  /\ \/ /\ worker[d] # "finished"
        /\ queue' = [queue EXCEPT ![d] = Append(@, "stop")]
        /\ stop_enqueued' = [stop_enqueued EXCEPT ![d] = TRUE]
        /\ lock' = [lock EXCEPT ![d] = "free"]
        /\ CloserGoto(k, "joining")
        /\ UNCHANGED fatal
     \/ /\ worker[d] = "finished"
        /\ fatal' = "send failed"
        /\ UNCHANGED <<queue, stop_enqueued, lock, closer>>
  /\ UNCHANGED <<health, active_clients, worker, handle, joining, pc, dropped, calls,
                 delivered, refVars>>

\* wait_for_worker_exit_and_join loads the health twice ...
AwaitHealth(k) ==
  LET d == Closes[k] IN
  /\ Alive
  /\ \/ closer[k] = "joining" /\ CloserGoto(k, IF health[d] = "STOPPED" THEN "ok" ELSE "checking")
     \/ closer[k] = "checking" /\ CloserGoto(k, IF health[d] = "FAILED" THEN "out" ELSE "locking")
  /\ UNCHANGED <<health, active_clients, queue, worker, stateVars, pc, dropped, calls,
                 delivered, fatal, refVars>>

\* The closer that finds the thread finished takes its handle.
TakeWorker(d) ==
  /\ handle[d] /\ ~joining[d] /\ worker[d] = "finished"
  /\ joining' = [joining EXCEPT ![d] = TRUE]
  /\ handle' = [handle EXCEPT ![d] = FALSE]

\* Somebody else joins, or the worker still runs.
MustWait(d) == joining[d] \/ (handle[d] /\ worker[d] # "finished")

\* ... and looks at the handle under the mutex; who finds nothing to do sleeps
\* and tries again.
AwaitWorker(k) ==
  LET d == Closes[k] IN
  /\ Alive
  /\ closer[k] = "locking" /\ lock[d] = "free"
  /\ \/ TakeWorker(d) /\ CloserGoto(k, "joined")
     \/ MustWait(d) /\ CloserGoto(k, "joining") /\ UNCHANGED <<joining, handle>>
     \/ ~handle[d] /\ ~joining[d] /\ CloserGoto(k, "out") /\ UNCHANGED <<joining, handle>>
  /\ UNCHANGED <<health, active_clients, queue, worker, stop_enqueued, lock, pc,
                 dropped, calls, delivered, fatal, refVars>>

\* join, and the completion published after it.
PublishStopped(k) ==
  /\ Alive
  /\ closer[k] = "joined" /\ worker[Closes[k]] = "finished"
  /\ health' = [health EXCEPT ![Closes[k]] = "STOPPED"]
  /\ CloserGoto(k, "ok")
  /\ UNCHANGED <<active_clients, queue, worker, stateVars, pc, dropped, calls,
                 delivered, fatal, refVars>>

\* The deadline passes while the closer waits: for clients, for the mutex, or
\* for the worker.
CloseTimeout(k) ==
  LET d == Closes[k] IN
  /\ Alive
  /\ \/ closer[k] = "clients" /\ active_clients[d] # 0
     \/ closer[k] \in {"enqueue", "locking"} /\ lock[d] # "free"
     \/ closer[k] = "locking" /\ lock[d] = "free" /\ MustWait(d)
  /\ CloserGoto(k, "out")
  /\ UNCHANGED <<health, active_clients, queue, worker, stateVars, pc, dropped,
                 calls, delivered, fatal, refVars>>

-----------------------------------------------------------------------------
(* References to the resource.                                             *)

\* A guard has a reference from its creation until its destructor is through,
\* a client as long as it is one; a NIF call that creates a guard, prepares a
\* lease or closes borrows one.
Refers(a) ==
  IF a[1] = "guard" /\ a[2] \in dropped
  THEN pc[a] \notin {"retired", "inert"}
  ELSE pc[a] \notin {"absent", "idle", "refused", "unused", "retired", "inert"}

Calling(k) == closer[k] \notin {"out", "ok"}

Referenced(d) ==
  \/ d \in owned
  \/ \E a \in Actors : via[a] = d /\ Refers(a)
  \/ \E k \in Closers : Closes[k] = d /\ Calling(k)

\* The lifecycle owner lets its reference go, whether or not it has closed.
Disown(d) ==
  /\ Alive
  /\ d \in owned
  /\ owned' = owned \ {d}
  /\ UNCHANGED <<health, active_clients, queue, worker, stateVars, pc, dropped, closer,
                 calls, delivered, fatal, via, freed>>

\* Mutant: the resource is freed without a look at its health.
DropUnjoined(d) ==
  /\ Alive
  /\ d \notin freed /\ ~Referenced(d)
  /\ freed' = freed \cup {d}
  /\ UNCHANGED <<health, active_clients, queue, worker, stateVars, pc, dropped, closer,
                 calls, delivered, fatal, via, owned>>

\* Drop for ReleaseDispatcher, when the last reference is gone.
DropDispatcher(d) ==
  /\ Alive
  /\ d \notin freed /\ ~Referenced(d)
  /\ \/ /\ health[d] = "STOPPED"
        /\ freed' = freed \cup {d}
        /\ UNCHANGED fatal
     \/ /\ health[d] # "STOPPED"
        /\ fatal' = "unjoined"
        /\ UNCHANGED freed
  /\ UNCHANGED <<health, active_clients, queue, worker, stateVars, pc, dropped, closer,
                 calls, delivered, via, owned>>

-----------------------------------------------------------------------------
ClientStep(a) ==
  \/ LoadHealth(a) \/ CountClient(a) \/ RecheckHealth(a) \/ ReleaseClient(a)
  \/ FinishClient(a) \/ Dispatch(a)

CloserStep(k) ==
  \/ WaitForClients(k) \/ EnterEnqueue(k) \/ EnqueueStop(k)
  \/ AwaitHealth(k) \/ AwaitWorker(k) \/ PublishStopped(k)

WorkerStep(d) == WorkerSend(d) \/ WorkerStop(d) \/ WorkerPanic(d) \/ WorkerAbort(d)

Next ==
  \/ \E a \in Actors : ClientStep(a)
  \/ \E h \in Holders : Claim(h) \/ DropGuard(h) \/ AbandonLate(h)
  \/ \E d \in Dispatchers : WorkerStep(d) \/ Disown(d) \/ DropDispatcher(d)
  \/ \E k \in Closers : BeginClose(k) \/ CloserStep(k) \/ CloseTimeout(k)

Spec == Init /\ [][Next]_vars

(***************************************************************************)
(* Threads run: a client that was admitted gives its client back (native   *)
(* code retires what it claimed), the workers receive, and a closer that   *)
(* has time left takes its next step.                                      *)
(***************************************************************************)
Fairness ==
  /\ \A a \in Actors : WF_vars(\/ CountClient(a) \/ RecheckHealth(a)
                               \/ ReleaseClient(a) \/ FinishClient(a) \/ Dispatch(a))
  /\ \A d \in Dispatchers : WF_vars(WorkerSend(d) \/ WorkerStop(d)) /\ WF_vars(WorkerAbort(d))
  /\ \A k \in Closers : WF_vars(CloserStep(k))

FairSpec == Spec /\ Fairness

-----------------------------------------------------------------------------
\* Clients admitted by the second load of acquire_client, or about to leave,
\* and all that are counted.
Admitted(d) == {a \in Actors : via[a] = d /\ pc[a] \in {"held", "claimed", "sent", "finished"}}
Counted(d)  == Admitted(d) \cup {a \in Actors : via[a] = d /\ pc[a] \in {"counted", "backout"}}

\* A command that was sent is with the worker or has been handled by it.
Accepted(a) == a \in delivered \/ \E i \in 1..Len(queue[via[a]]) : queue[via[a]][i] = a

\* "Stops admission, waits for all prepared/claimed clients, drains the FIFO,
\* and joins the worker": once Stop is queued no client is admitted and nothing
\* is queued behind it, a close that returned Ok found STOPPED, and then every
\* command that was dispatched has been handled (close_and_join,
\* acquire_client, wait_for_clients, enqueue_stop_once).
CloseIsComplete ==
  /\ \A d \in Dispatchers :
       /\ \A i \in 1..Len(queue[d]) : queue[d][i] = "stop" => i = Len(queue[d])
       /\ stop_enqueued[d] => Admitted(d) = {}
       /\ health[d] = "STOPPED" =>
            /\ worker[d] = "finished" /\ ~handle[d] /\ stop_enqueued[d] /\ queue[d] = <<>>
            /\ \A a \in Actors : via[a] = d /\ pc[a] = "retired" => a \in delivered
  /\ \A k \in Closers : closer[k] = "ok" => health[Closes[k]] = "STOPPED"

\* "Dropping the last reference before an explicit join is fatal to prevent a
\* worker from executing unloaded NIF code": a dispatcher that has been freed
\* has no worker and no command left, and no client, guard or closer that will
\* use it again, whichever of them was the last (Drop for ReleaseDispatcher).
FreedAfterJoin ==
  \A d \in freed :
    /\ worker[d] = "finished" /\ ~handle[d] /\ queue[d] = <<>> /\ Counted(d) = {}
    /\ ~Referenced(d)

\* No race corrupts a dispatcher.  The client count is exact, so
\* wait_for_clients cannot pass early and release_client cannot underflow; at
\* most one closer joins, and the others never find the worker unavailable; and
\* fatal_dispatcher_corruption, which aborts the VM, is reached only if a worker
\* panicked or if the lifecycle owner let go a dispatcher that was not joined
\* and to which nobody else refers any more; one that was freed is not used
\* again (acquire_client, release_client, enqueue_stop_once,
\* wait_for_worker_exit_and_join, Drop for ReleaseDispatcher).
NoCorruption ==
  /\ \A d \in Dispatchers :
       /\ active_clients[d] = Cardinality(Counted(d))
       /\ ~handle[d] => joining[d]
       /\ ~handle[d] /\ health[d] # "STOPPED" =>
            \E k \in Closers : Closes[k] = d /\ closer[k] = "joined"
  /\ fatal # "none" =>
       \/ \E d \in Dispatchers : health[d] = "FAILED"
       \/ /\ fatal = "unjoined"
          /\ \E d \in Dispatchers : health[d] # "STOPPED" /\ ~Referenced(d)
  /\ FreedAfterJoin

\* "The guard envelope remains live until the worker accepts the release
\* command": when the destructor of a guard begins, the release of the claimed
\* lease is with its worker; and if both went to one worker, the owner never
\* hears of the abandonment before the release (dispatch_release, GuardKeepalive).
ReleaseBeforeAbandonment ==
  \A h \in Holders : pc[Lease(h)] \in {"claimed", "sent", "retired"} =>
    /\ h \in dropped => Accepted(Lease(h))
    /\ Guard(h) \in delivered /\ via[Guard(h)] = via[Lease(h)] => Lease(h) \in delivered

\* A close in progress ends: admitted clients retire, the worker drains, and
\* one closer publishes STOPPED, unless the closers' deadlines pass
\* (close_and_join).
CloseEnds ==
  \A k \in Closers : Calling(k) ~> ~Calling(k) \/ fatal # "none"
=============================================================================
