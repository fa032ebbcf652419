---------------------- MODULE ReleaseDispatcher_proofs ----------------------
(***************************************************************************)
(* Closing is complete, no race corrupts a dispatcher, a dispatcher that   *)
(* was freed is not used any more, and the release of a claimed lease is   *)
(* with its worker before the abandonment of its guard begins: for any     *)
(* number of dispatchers, of holders and of threads that close, whichever  *)
(* dispatchers a guard and its lease are made with.                        *)
(***************************************************************************)
EXTENDS ReleaseDispatcher, TLAPS, FiniteSetTheorems, SequenceTheorems

USE DEF stateVars, refVars

AdmittedStates == {"held", "claimed", "sent", "finished"}
CountedStates  == AdmittedStates \cup {"counted", "backout"}
NotKeptStates  == {"idle", "refused", "retired", "unused", "finished"}
LateStates     == {"enqueue", "sending", "joining", "checking", "locking", "joined", "ok"}

Clients(d) == {a \in Actors : via[a] = d /\ pc[a] \in CountedStates}

-----------------------------------------------------------------------------
(* The invariant.                                                          *)

\* The atomic counters count the clients.
CountInv == \A d \in Dispatchers : active_clients[d] = Cardinality(Clients(d))

\* Once wait_for_clients has succeeded for somebody, nobody is admitted: who
\* comes later finds, in one of the two loads, that the dispatcher closes.
AdmissionInv ==
  /\ \A d \in Dispatchers : health[d] = "HEALTHY" => ~stop_enqueued[d]
  /\ \A k \in Closers : health[Closes[k]] = "HEALTHY" => closer[k] = "out"
  /\ \A a \in Actors : pc[a] \in {"refused", "backout"} => health[via[a]] # "HEALTHY"
  /\ \A a \in Actors : pc[a] \in AdmittedStates =>
       /\ ~stop_enqueued[via[a]]
       /\ \A k \in Closers : Closes[k] = via[a] => closer[k] \notin LateStates

WorkerInv ==
  \A d \in Dispatchers :
    /\ health[d] = "FAILED" <=> worker[d] = "panicked"
    /\ worker[d] = "finished" => stop_enqueued[d] /\ queue[d] = <<>>

\* Stop is the last command.
QueueInv ==
  \A d \in Dispatchers : \A i \in 1..Len(queue[d]) :
    queue[d][i] = "stop" => i = Len(queue[d]) /\ stop_enqueued[d]

\* One closer sends Stop, under the mutex, and one joins.
CloserInv ==
  /\ \A k \in Closers : closer[k] = "sending" =>
       lock[Closes[k]] = k /\ handle[Closes[k]] /\ ~stop_enqueued[Closes[k]]
  /\ \A k \in Closers : closer[k] = "joined" => joining[Closes[k]]
  /\ \A k \in Closers : closer[k] = "ok" => health[Closes[k]] = "STOPPED"
  /\ \A d \in Dispatchers :
       /\ handle[d] <=> ~joining[d]
       /\ joining[d] => worker[d] = "finished"
       /\ health[d] = "STOPPED" => joining[d]
       /\ joining[d] /\ health[d] # "STOPPED" =>
            \E k \in Closers : Closes[k] = d /\ closer[k] = "joined"

\* A dispatched command is in the queue until its worker has handled it.
DeliveryInv == \A a \in Actors : pc[a] \in {"sent", "retired"} => Accepted(a)

\* A guard is dropped only when its lease is through, and its command is behind
\* that of the lease if both are in one queue.
GuardInv ==
  \A h \in Holders :
    /\ pc[Guard(h)] # "claimed"
    /\ h \in dropped => /\ pc[Lease(h)] \in NotKeptStates
                        /\ pc[Guard(h)] \notin {"live", "finished", "absent"}
    /\ Guard(h) \in delivered =>
         /\ h \in dropped
         /\ via[Lease(h)] = via[Guard(h)] /\ pc[Lease(h)] = "retired" => Lease(h) \in delivered
    /\ \A d \in Dispatchers : \A i \in 1..Len(queue[d]) : queue[d][i] = Guard(h) =>
         /\ h \in dropped /\ via[Guard(h)] = d
         /\ via[Lease(h)] = d /\ pc[Lease(h)] = "retired" =>
              Lease(h) \in delivered \/ \E j \in 1..(i - 1) : queue[d][j] = Lease(h)

Protocol == AdmissionInv /\ WorkerInv /\ QueueInv /\ CloserInv /\ DeliveryInv /\ GuardInv

\* Nobody can reach a dispatcher that was freed.
RefInv == \A d \in freed : health[d] = "STOPPED" /\ ~Referenced(d)

\* Two reasons to abort the VM.
FatalInv ==
  fatal # "none" =>
    \/ \E d \in Dispatchers : health[d] = "FAILED"
    \/ fatal = "unjoined" /\ \E d \in Dispatchers : health[d] # "STOPPED" /\ ~Referenced(d)

DInv == TypeOK /\ CountInv /\ Protocol /\ RefInv /\ FatalInv

-----------------------------------------------------------------------------
(* Names and counting.                                                     *)

\* Guards and leases are the actors.
LEMMA Names ==
  /\ \A h \in Holders : Guard(h) \in Actors /\ Lease(h) \in Actors
  /\ \A h \in Holders : Guard(h)[1] = "guard" /\ Lease(h)[1] = "lease"
                        /\ Guard(h)[2] = h /\ Lease(h)[2] = h
  /\ \A a \in Actors : a[2] \in Holders /\ (a = Guard(a[2]) \/ a = Lease(a[2]))
  /\ \A h, g \in Holders : Guard(h) # Lease(g)
  /\ \A h, g \in Holders : Guard(h) = Guard(g) => h = g
  /\ \A h, g \in Holders : Lease(h) = Lease(g) => h = g
BY DEF Guard, Lease, Actors

\* There are finitely many clients.
LEMMA ClientsFinite ==
  ASSUME NEW d
  PROVE  /\ IsFiniteSet(Clients(d)) /\ Cardinality(Clients(d)) \in Nat
         /\ IsFiniteSet(Clients(d)') /\ Cardinality(Clients(d)') \in Nat
<1>1. IsFiniteSet({"guard", "lease"})
  <2>1. {"guard", "lease"} = {"guard"} \cup {"lease"}
    OBVIOUS
  <2>2. IsFiniteSet({"guard"})
    BY FS_Singleton
  <2> QED BY <2>1, <2>2, FS_AddElement
<1>2. IsFiniteSet(Actors)
  BY <1>1, DispatcherAssumption, FS_Product DEF Actors
<1>3. Clients(d) \in SUBSET Actors /\ Clients(d)' \in SUBSET Actors
  BY DEF Clients
<1> QED BY <1>2, <1>3, FS_Subset, FS_CardinalityType

\* A client that moves within the counted states, or outside them.
LEMMA CountKept ==
  ASSUME TypeOK, CountInv, NEW a \in Actors, NEW l, pc' = [pc EXCEPT ![a] = l],
         l \in CountedStates <=> pc[a] \in CountedStates, UNCHANGED <<active_clients, via>>
  PROVE  CountInv'
<1>1. \A b \in Actors : pc'[b] = IF b = a THEN l ELSE pc[b]
  BY DEF TypeOK
<1>2. \A d \in Dispatchers : Clients(d)' = Clients(d)
  BY <1>1 DEF Clients
<1> QED BY <1>2 DEF CountInv

\* Entering and leaving the counted states.
LEMMA CountEntered ==
  ASSUME TypeOK, CountInv, NEW a \in Actors, NEW l \in CountedStates,
         pc' = [pc EXCEPT ![a] = l], pc[a] \notin CountedStates, UNCHANGED via,
         active_clients' = [active_clients EXCEPT ![via[a]] = @ + 1]
  PROVE  CountInv'
<1> DEFINE c == via[a]
<1>1. \A b \in Actors : pc'[b] = IF b = a THEN l ELSE pc[b]
  BY DEF TypeOK
<1>2. Clients(c)' = Clients(c) \cup {a} /\ a \notin Clients(c)
  BY <1>1 DEF Clients
<1>3. \A d \in Dispatchers \ {c} : Clients(d)' = Clients(d)
  BY <1>1 DEF Clients
<1>4. /\ c \in Dispatchers /\ active_clients'[c] = active_clients[c] + 1
      /\ \A d \in Dispatchers \ {c} : active_clients'[d] = active_clients[d]
  BY DEF TypeOK
<1>5. Cardinality(Clients(c)') = Cardinality(Clients(c)) + 1
  BY <1>2, ClientsFinite, FS_AddElement
<1> QED BY <1>3, <1>4, <1>5 DEF CountInv

LEMMA CountLeft ==
  ASSUME TypeOK, CountInv, NEW a \in Actors, NEW l, l \notin CountedStates,
         pc' = [pc EXCEPT ![a] = l], pc[a] \in CountedStates, UNCHANGED via,
         active_clients' = [active_clients EXCEPT ![via[a]] = @ - 1]
  PROVE  CountInv'
<1> DEFINE c == via[a]
<1>1. \A b \in Actors : pc'[b] = IF b = a THEN l ELSE pc[b]
  BY DEF TypeOK
<1>2. Clients(c)' = Clients(c) \ {a} /\ a \in Clients(c)
  BY <1>1 DEF Clients
<1>3. \A d \in Dispatchers \ {c} : Clients(d)' = Clients(d)
  BY <1>1 DEF Clients
<1>4. /\ c \in Dispatchers /\ active_clients'[c] = active_clients[c] - 1
      /\ \A d \in Dispatchers \ {c} : active_clients'[d] = active_clients[d]
  BY DEF TypeOK
<1>5. Cardinality(Clients(c)') = Cardinality(Clients(c)) - 1
  BY <1>2, ClientsFinite, FS_RemoveElement
<1> QED BY <1>3, <1>4, <1>5, ClientsFinite DEF CountInv

\* release_client never finds the counter at zero.
LEMMA NoUnderflow ==
  ASSUME TypeOK, CountInv, NEW a \in Actors, pc[a] \in CountedStates
  PROVE  active_clients[via[a]] > 0
<1>1. a \in Clients(via[a]) /\ via[a] \in Dispatchers
  BY DEF Clients, TypeOK
<1>2. Cardinality(Clients(via[a])) # 0
  BY <1>1, ClientsFinite, FS_EmptySet
<1>3. Cardinality(Clients(via[a])) \in Nat
  BY ClientsFinite
<1> QED BY <1>1, <1>2, <1>3 DEF CountInv

-----------------------------------------------------------------------------
(* Moves of one client.                                                    *)

\* A step in which only a client moves: it is not admitted behind a close, it
\* dispatches nothing, and the order of guard and lease is kept.
LEMMA Move ==
  ASSUME DInv, NEW a \in Actors, NEW l, pc' = [pc EXCEPT ![a] = l],
         UNCHANGED <<health, queue, worker, stateVars, dropped, closer, delivered, via>>,
         l \in AdmittedStates => pc[a] \in AdmittedStates \/ health[via[a]] = "HEALTHY",
         l \in {"refused", "backout"} => health[via[a]] # "HEALTHY",
         l \in {"sent", "retired"} => pc[a] = "sent", l # "absent",
         a[1] = "guard" => l # "claimed"
                           /\ (a[2] \in dropped => l \notin {"live", "finished"}),
         a[1] = "lease" /\ a[2] \in dropped => l \in NotKeptStates \ {"retired"}
  PROVE  Protocol'
<1>0. TypeOK
  BY DEF DInv
<1>1. \A b \in Actors : pc'[b] = IF b = a THEN l ELSE pc[b]
  BY <1>0 DEF TypeOK
<1>2. AdmissionInv'
  <2>1. AdmissionInv
    BY DEF DInv, Protocol
  <2>2. \A k \in Closers : Closes[k] = via[a] /\ health[via[a]] = "HEALTHY" =>
          closer[k] \notin LateStates
    BY <2>1 DEF AdmissionInv, LateStates
  <2>3. via[a] \in Dispatchers
    BY <1>0 DEF TypeOK
  <2> QED BY <1>1, <2>1, <2>2, <2>3 DEF AdmissionInv
<1>3. WorkerInv' /\ QueueInv' /\ CloserInv'
  BY DEF DInv, Protocol, WorkerInv, QueueInv, CloserInv
<1>4. DeliveryInv'
  BY <1>1 DEF DInv, Protocol, DeliveryInv, Accepted
<1>5. GuardInv'
  <2> SUFFICES ASSUME NEW h \in Holders
               PROVE  /\ pc'[Guard(h)] # "claimed"
                      /\ h \in dropped => /\ pc'[Lease(h)] \in NotKeptStates
                                          /\ pc'[Guard(h)] \notin {"live", "finished", "absent"}
                      /\ h \in dropped /\ pc'[Lease(h)] = "retired" =>
                           pc[Lease(h)] = "retired"
    BY DEF DInv, Protocol, GuardInv
  <2>1. Guard(h) \in Actors /\ Lease(h) \in Actors /\ Guard(h) # Lease(h)
        /\ Guard(h)[1] = "guard" /\ Lease(h)[1] = "lease"
        /\ Guard(h)[2] = h /\ Lease(h)[2] = h
    BY Names
  <2>2. /\ pc[Guard(h)] # "claimed"
        /\ h \in dropped => pc[Lease(h)] \in NotKeptStates
                            /\ pc[Guard(h)] \notin {"live", "finished", "absent"}
    BY DEF DInv, Protocol, GuardInv
  <2>3. CASE a = Guard(h)
    BY <1>1, <2>1, <2>2, <2>3
  <2>4. CASE a = Lease(h)
    BY <1>1, <2>1, <2>2, <2>4
  <2>5. CASE a # Guard(h) /\ a # Lease(h)
    BY <1>1, <2>1, <2>2, <2>5
  <2> QED BY <2>3, <2>4, <2>5
<1> QED BY <1>2, <1>3, <1>4, <1>5 DEF Protocol

-----------------------------------------------------------------------------
(* Types.                                                                  *)

\* Moves keep the types of the two places.
LEMMA Moves ==
  ASSUME TypeOK
  PROVE  /\ \A a \in Actors, l \in ClientStates : Goto(a, l) => pc' \in [Actors -> ClientStates]
         /\ \A k \in Closers, l \in CloserStates :
              CloserGoto(k, l) => closer' \in [Closers -> CloserStates]
BY DEF TypeOK, Goto, CloserGoto

\* Queues of commands stay queues of commands.
LEMMA Queues ==
  ASSUME TypeOK, NEW d \in Dispatchers
  PROVE  /\ \A c \in Commands :
              [queue EXCEPT ![d] = Append(@, c)] \in [Dispatchers -> Seq(Commands)]
         /\ queue[d] # <<>> =>
              /\ [queue EXCEPT ![d] = Tail(@)] \in [Dispatchers -> Seq(Commands)]
              /\ Head(queue[d]) \in Commands
              /\ Head(queue[d]) # "stop" => Head(queue[d]) \in Actors
<1>1. queue \in [Dispatchers -> Seq(Commands)] /\ queue[d] \in Seq(Commands)
  BY DEF TypeOK
<1>2. \A c \in Commands : Append(queue[d], c) \in Seq(Commands)
  BY <1>1, AppendProperties
<1>3. queue[d] # <<>> => Tail(queue[d]) \in Seq(Commands) /\ Head(queue[d]) \in Commands
  BY <1>1, HeadTailProperties, EmptySeq
<1>4. \A q \in Seq(Commands) : [queue EXCEPT ![d] = q] \in [Dispatchers -> Seq(Commands)]
  BY <1>1
<1> QED BY <1>2, <1>3, <1>4 DEF Commands

LEMMA ClientTypes ==
  ASSUME TypeOK, NEW a \in Actors, ClientStep(a)
  PROVE  TypeOK'
<1>1. CASE LoadHealth(a) \/ CountClient(a) \/ RecheckHealth(a) \/ FinishClient(a)
  <2>1. \E l \in ClientStates : Goto(a, l)
    <3>1. CASE LoadHealth(a)
      BY <3>1 DEF LoadHealth, ClientStates
    <3>2. CASE CountClient(a) \/ FinishClient(a)
      BY <3>2 DEF CountClient, FinishClient, ClientStates
    <3>3. CASE RecheckHealth(a)
      BY <3>3 DEF RecheckHealth, ClientStates
    <3> QED BY <1>1, <3>1, <3>2, <3>3
  <2>2. pc' \in [Actors -> ClientStates]
    BY <2>1, Moves
  <2>3. active_clients' \in [Dispatchers -> Nat]
    <3>1. active_clients \in [Dispatchers -> Nat] /\ via[a] \in Dispatchers
      BY DEF TypeOK
    <3>2. active_clients' = active_clients
          \/ active_clients' = [active_clients EXCEPT ![via[a]] = @ + 1]
      BY <1>1 DEF LoadHealth, CountClient, RecheckHealth, FinishClient
    <3>3. active_clients[via[a]] \in Nat /\ active_clients[via[a]] + 1 \in Nat
      BY <3>1
    <3> QED BY <3>1, <3>2, <3>3
  <2>4. UNCHANGED <<health, queue, worker, stateVars, dropped, closer, calls, delivered,
                    fatal, refVars>>
    BY <1>1 DEF LoadHealth, CountClient, RecheckHealth, FinishClient
  <2> QED BY <2>2, <2>3, <2>4 DEF TypeOK
<1>2. CASE ReleaseClient(a)
  <2>1. AfterRelease(a) \in ClientStates
    BY DEF AfterRelease, ClientStates
  <2>2. pc' \in [Actors -> ClientStates]
    <3>1. Goto(a, AfterRelease(a)) \/ UNCHANGED pc
      BY <1>2 DEF ReleaseClient
    <3> QED BY <2>1, <3>1, Moves DEF TypeOK
  <2>3. active_clients' \in [Dispatchers -> Nat]
    <3>1. active_clients \in [Dispatchers -> Nat] /\ via[a] \in Dispatchers
      BY DEF TypeOK
    <3>2. \/ active_clients' = active_clients
          \/ /\ active_clients[via[a]] > 0
             /\ active_clients' = [active_clients EXCEPT ![via[a]] = @ - 1]
      BY <1>2 DEF ReleaseClient
    <3>3. active_clients[via[a]] > 0 => active_clients[via[a]] - 1 \in Nat
      BY <3>1
    <3> QED BY <3>1, <3>2, <3>3
  <2>4. /\ UNCHANGED <<health, queue, worker, stateVars, dropped, closer, calls, delivered,
                       refVars>>
        /\ fatal' \in {fatal, "underflow"}
    BY <1>2 DEF ReleaseClient
  <2> QED BY <2>2, <2>3, <2>4 DEF TypeOK
<1>3. CASE Dispatch(a)
  <2>1. via[a] \in Dispatchers /\ a \in Commands
    BY DEF TypeOK, Commands
  <2>2. pc' \in [Actors -> ClientStates] /\ queue' \in [Dispatchers -> Seq(Commands)]
    <3>1. \/ Goto(a, "sent") /\ queue' = [queue EXCEPT ![via[a]] = Append(@, a)]
          \/ UNCHANGED <<queue, pc>>
      BY <1>3 DEF Dispatch
    <3>2. "sent" \in ClientStates
      BY DEF ClientStates
    <3>3. /\ [queue EXCEPT ![via[a]] = Append(@, a)] \in [Dispatchers -> Seq(Commands)]
          /\ Goto(a, "sent") => pc' \in [Actors -> ClientStates]
      BY <2>1, <3>2, Moves, Queues
    <3>4. queue \in [Dispatchers -> Seq(Commands)] /\ pc \in [Actors -> ClientStates]
      BY DEF TypeOK
    <3> QED BY <3>1, <3>3, <3>4
  <2>3. /\ UNCHANGED <<health, active_clients, worker, stateVars, dropped, closer, calls,
                       delivered, refVars>>
        /\ fatal' \in {fatal, "send failed"}
    BY <1>3 DEF Dispatch
  <2> QED BY <2>2, <2>3 DEF TypeOK
<1> QED BY <1>1, <1>2, <1>3 DEF ClientStep

LEMMA HolderTypes ==
  ASSUME TypeOK, NEW h \in Holders, Claim(h) \/ DropGuard(h) \/ AbandonLate(h)
  PROVE  TypeOK'
<1>1. Guard(h) \in Actors /\ Lease(h) \in Actors
  BY Names
<1>2. pc' \in [Actors -> ClientStates]
  <2>1. Goto(Lease(h), "claimed") \/ Goto(Guard(h), "idle") \/ Goto(Guard(h), "inert")
        \/ UNCHANGED pc
    BY DEF Claim, DropGuard, AbandonLate
  <2>2. {"claimed", "idle", "inert"} \subseteq ClientStates
    BY DEF ClientStates
  <2> QED BY <1>1, <2>1, <2>2, Moves DEF TypeOK
<1>3. dropped' \in {dropped, dropped \cup {h}} /\ fatal' \in {fatal, "guard"}
  BY DEF Claim, DropGuard, AbandonLate
<1>4. UNCHANGED <<health, active_clients, queue, worker, stateVars, closer, calls,
                  delivered, refVars>>
  BY DEF Claim, DropGuard, AbandonLate
<1> QED BY <1>2, <1>3, <1>4 DEF TypeOK

LEMMA DispatcherTypes ==
  ASSUME TypeOK, NEW d \in Dispatchers, WorkerStep(d) \/ Disown(d) \/ DropDispatcher(d)
  PROVE  TypeOK'
<1>1. CASE WorkerSend(d)
  <2>1. queue' \in [Dispatchers -> Seq(Commands)] /\ delivered' \subseteq Actors
    <3>1. /\ queue[d] # <<>> /\ Head(queue[d]) # "stop"
          /\ queue' = [queue EXCEPT ![d] = Tail(@)]
          /\ delivered' = delivered \cup {Head(queue[d])}
      BY <1>1 DEF WorkerSend
    <3>2. Head(queue[d]) \in Commands /\ delivered \subseteq Actors
      BY <3>1, Queues DEF TypeOK
    <3> QED BY <3>1, <3>2, Queues DEF Commands
  <2>2. UNCHANGED <<health, active_clients, worker, stateVars, pc, dropped, closer, calls,
                    fatal, refVars>>
    BY <1>1 DEF WorkerSend
  <2> QED BY <2>1, <2>2 DEF TypeOK
<1>2. CASE WorkerStop(d)
  <2>1. queue' \in [Dispatchers -> Seq(Commands)]
    <3>1. queue[d] # <<>> /\ queue' = [queue EXCEPT ![d] = Tail(@)]
      BY <1>2 DEF WorkerStop
    <3> QED BY <3>1, Queues
  <2> QED BY <1>2, <2>1 DEF WorkerStop, TypeOK
<1>3. CASE WorkerPanic(d)
  BY <1>3 DEF WorkerPanic, TypeOK
<1>4. CASE WorkerAbort(d)
  BY <1>4 DEF WorkerAbort, TypeOK
<1>5. CASE Disown(d) \/ DropDispatcher(d)
  BY <1>5 DEF Disown, DropDispatcher, TypeOK
<1> QED BY <1>1, <1>2, <1>3, <1>4, <1>5 DEF WorkerStep

LEMMA CloserTypes ==
  ASSUME TypeOK, NEW k \in Closers, BeginClose(k) \/ CloserStep(k) \/ CloseTimeout(k)
  PROVE  TypeOK'
<1>0. Closes[k] \in Dispatchers
  BY DispatcherAssumption
<1>1. closer' \in [Closers -> CloserStates]
  <2>1. UNCHANGED closer \/ \E l \in CloserStates : CloserGoto(k, l)
    BY DEF BeginClose, CloserStep, CloseTimeout, WaitForClients, EnterEnqueue, EnqueueStop,
           AwaitHealth, AwaitWorker, PublishStopped, CloserStates
  <2> QED BY <2>1, Moves DEF TypeOK
<1>2. UNCHANGED <<active_clients, pc, dropped, delivered, refVars>>
  BY DEF BeginClose, CloserStep, CloseTimeout, WaitForClients, EnterEnqueue, EnqueueStop,
         AwaitHealth, AwaitWorker, PublishStopped
<1>3. CASE BeginClose(k)
  <2>1. calls' \in [Closers -> 0..MaxCalls]
    <3>1. calls[k] \in 0..MaxCalls /\ MaxCalls \in Nat
      BY DispatcherAssumption DEF TypeOK
    <3>2. calls' = [calls EXCEPT ![k] = @ + 1] /\ calls[k] < MaxCalls
      BY <1>3 DEF BeginClose
    <3>3. calls[k] + 1 \in 0..MaxCalls
      BY <3>1, <3>2
    <3> QED BY <3>2, <3>3 DEF TypeOK
  <2> QED BY <1>0, <1>1, <1>2, <1>3, <2>1 DEF BeginClose, TypeOK
<1>4. CASE EnqueueStop(k)
  <2>1. queue' \in [Dispatchers -> Seq(Commands)]
    <3>1. UNCHANGED queue \/ queue' = [queue EXCEPT ![Closes[k]] = Append(@, "stop")]
      BY <1>4 DEF EnqueueStop
    <3>2. "stop" \in Commands
      BY DEF Commands
    <3>3. [queue EXCEPT ![Closes[k]] = Append(@, "stop")] \in [Dispatchers -> Seq(Commands)]
      BY <1>0, <3>2, Queues
    <3>4. queue \in [Dispatchers -> Seq(Commands)]
      BY DEF TypeOK
    <3> QED BY <3>1, <3>3, <3>4
  <2>2. /\ stop_enqueued' \in [Dispatchers -> BOOLEAN]
        /\ lock' \in [Dispatchers -> Closers \cup {"free"}]
    BY <1>0, <1>4 DEF EnqueueStop, TypeOK
  <2>3. fatal' \in {fatal, "send failed"} /\ UNCHANGED <<health, worker, handle, joining, calls>>
    BY <1>4 DEF EnqueueStop
  <2>4. CASE fatal' = fatal
    BY <1>1, <1>2, <2>1, <2>2, <2>3, <2>4 DEF TypeOK
  <2>5. CASE fatal' = "send failed"
    BY <1>1, <1>2, <2>1, <2>2, <2>3, <2>5 DEF TypeOK
  <2> QED BY <2>3, <2>4, <2>5
<1>5. CASE EnterEnqueue(k)
  <2>1. lock' \in [Dispatchers -> Closers \cup {"free"}]
    <3>1. UNCHANGED lock \/ lock' = [lock EXCEPT ![Closes[k]] = k]
      BY <1>5 DEF EnterEnqueue
    <3>2. lock \in [Dispatchers -> Closers \cup {"free"}]
      BY DEF TypeOK
    <3> QED BY <1>0, <3>1, <3>2
  <2>2. UNCHANGED <<health, queue, worker, handle, stop_enqueued, joining, calls, fatal>>
    BY <1>5 DEF EnterEnqueue
  <2> QED BY <1>1, <1>2, <2>1, <2>2 DEF TypeOK
<1>6. CASE AwaitWorker(k)
  BY <1>0, <1>1, <1>2, <1>6 DEF AwaitWorker, TakeWorker, TypeOK
<1>7. CASE WaitForClients(k) \/ AwaitHealth(k) \/ CloseTimeout(k)
  <2>1. UNCHANGED <<health, queue, worker, stateVars, calls, fatal>>
    BY <1>7 DEF WaitForClients, AwaitHealth, CloseTimeout
  <2> QED BY <1>1, <1>2, <2>1 DEF TypeOK
<1>8. CASE PublishStopped(k)
  BY <1>0, <1>1, <1>2, <1>8 DEF PublishStopped, TypeOK
<1> QED BY <1>3, <1>4, <1>5, <1>6, <1>7, <1>8 DEF CloserStep

\* The types are inductive as they are.
LEMMA TypeStep == TypeOK /\ [Next]_vars => TypeOK'
<1> SUFFICES ASSUME TypeOK, [Next]_vars PROVE TypeOK'
  OBVIOUS
<1>1. CASE UNCHANGED vars
  BY <1>1 DEF TypeOK, vars
<1> QED BY <1>1, ClientTypes, HolderTypes, DispatcherTypes, CloserTypes DEF Next

-----------------------------------------------------------------------------
(* Steps of the clients.                                                   *)

\* What is not about clients, when they and the queues do not move.
LEMMA Still ==
  ASSUME DInv, UNCHANGED <<pc, active_clients, queue, stop_enqueued, delivered, dropped, via>>
  PROVE  CountInv' /\ QueueInv' /\ DeliveryInv' /\ GuardInv'
<1>1. CountInv'
  BY DEF DInv, CountInv, Clients
<1>2. QueueInv'
  BY DEF DInv, Protocol, QueueInv
<1>3. DeliveryInv'
  BY DEF DInv, Protocol, DeliveryInv, Accepted
<1>4. GuardInv'
  BY DEF DInv, Protocol, GuardInv
<1> QED BY <1>1, <1>2, <1>3, <1>4

\* What the invariant says of one actor.
LEMMA OfActor ==
  ASSUME DInv, NEW a \in Actors
  PROVE  /\ a[1] = "guard" \/ a[1] = "lease"
         /\ a[1] = "lease" /\ a[2] \in dropped => pc[a] \in NotKeptStates
         /\ a[1] = "guard" /\ a[2] \in dropped => pc[a] # "finished"
         /\ a[1] = "guard" => pc[a] # "claimed"
         /\ a[2] \in dropped => pc[Guard(a[2])] \notin {"live", "absent"}
         /\ pc[a] \in {"refused", "backout"} => health[via[a]] # "HEALTHY"
         /\ via[a] \in Dispatchers
<1>1. /\ a[2] \in Holders /\ (a = Guard(a[2]) \/ a = Lease(a[2]))
      /\ Guard(a[2])[1] = "guard" /\ Lease(a[2])[1] = "lease"
  BY Names
<1>2. /\ pc[Guard(a[2])] # "claimed"
      /\ a[2] \in dropped => pc[Lease(a[2])] \in NotKeptStates
                            /\ pc[Guard(a[2])] \notin {"live", "finished", "absent"}
  BY <1>1 DEF DInv, Protocol, GuardInv
<1>3. /\ pc[a] \in {"refused", "backout"} => health[via[a]] # "HEALTHY"
      /\ via[a] \in Dispatchers
  BY DEF DInv, Protocol, AdmissionInv, TypeOK
<1>4. CASE a = Guard(a[2])
  BY <1>1, <1>2, <1>3, <1>4
<1>5. CASE a = Lease(a[2])
  BY <1>1, <1>2, <1>3, <1>5
<1> QED BY <1>1, <1>4, <1>5

\* The loads of acquire_client and what is done with a client before dispatch.
LEMMA PreparationStep ==
  ASSUME DInv, NEW a \in Actors,
         LoadHealth(a) \/ CountClient(a) \/ RecheckHealth(a) \/ FinishClient(a)
  PROVE  CountInv' /\ Protocol'
<1>0. TypeOK /\ CountInv
  BY DEF DInv
<1>1. /\ a[1] = "lease" /\ a[2] \in dropped => pc[a] \in NotKeptStates
      /\ a[1] = "guard" => pc[a] # "claimed"
      /\ a[2] \in dropped => pc[Guard(a[2])] \notin {"live", "absent"}
  BY OfActor
<1>2. CASE LoadHealth(a)
  <2> DEFINE l == IF health[via[a]] = "HEALTHY" THEN "loaded" ELSE "refused"
  <2>1. /\ pc[a] = "idle" /\ MayStart(a) /\ pc' = [pc EXCEPT ![a] = l]
        /\ UNCHANGED <<health, active_clients, queue, worker, stateVars, dropped, closer,
                       calls, delivered, fatal, refVars>>
    BY <1>2 DEF LoadHealth, Goto
  <2>2. a[1] = "lease" => a[2] \notin dropped
    BY <1>1, <2>1 DEF MayStart
  <2>3. /\ l \in {"loaded", "refused"}
        /\ l = "refused" => health[via[a]] # "HEALTHY"
    OBVIOUS
  <2> HIDE DEF l
  <2>4. CountInv'
    BY <1>0, <2>1, <2>3, CountKept DEF CountedStates, AdmittedStates
  <2>5. Protocol'
    BY <2>1, <2>2, <2>3, Move DEF AdmittedStates
  <2> QED BY <2>4, <2>5
<1>3. CASE CountClient(a)
  <2>1. /\ pc[a] = "loaded" /\ pc' = [pc EXCEPT ![a] = "counted"]
        /\ active_clients' = [active_clients EXCEPT ![via[a]] = @ + 1]
        /\ UNCHANGED <<health, queue, worker, stateVars, dropped, closer, calls,
                       delivered, fatal, refVars>>
    BY <1>3 DEF CountClient, Goto
  <2>2. CountInv'
    BY <1>0, <2>1, CountEntered DEF CountedStates, AdmittedStates
  <2>3. Protocol'
    BY <1>1, <2>1, Move DEF AdmittedStates, NotKeptStates
  <2> QED BY <2>2, <2>3
<1>4. CASE RecheckHealth(a)
  <2> DEFINE l == IF health[via[a]] = "HEALTHY" THEN "held" ELSE "backout"
  <2>1. /\ pc[a] = "counted" /\ pc' = [pc EXCEPT ![a] = l]
        /\ UNCHANGED <<health, active_clients, queue, worker, stateVars, dropped, closer,
                       calls, delivered, fatal, refVars>>
    BY <1>4 DEF RecheckHealth, Goto
  <2>2. /\ l \in {"held", "backout"}
        /\ l = "held" => health[via[a]] = "HEALTHY"
        /\ l = "backout" => health[via[a]] # "HEALTHY"
    OBVIOUS
  <2> HIDE DEF l
  <2>3. CountInv'
    BY <1>0, <2>1, <2>2, CountKept DEF CountedStates, AdmittedStates
  <2>4. Protocol'
    BY <1>1, <2>1, <2>2, Move DEF AdmittedStates, NotKeptStates
  <2> QED BY <2>3, <2>4
<1>5. CASE FinishClient(a)
  <2>1. /\ pc[a] = "held" /\ pc' = [pc EXCEPT ![a] = "finished"]
        /\ a[1] = "guard" => a[2] \notin dropped
        /\ UNCHANGED <<health, active_clients, queue, worker, stateVars, dropped, closer,
                       calls, delivered, fatal, refVars>>
    BY <1>5 DEF FinishClient, Goto
  <2>2. CountInv'
    BY <1>0, <2>1, CountKept DEF CountedStates, AdmittedStates
  <2>3. Protocol'
    BY <1>1, <2>1, Move DEF AdmittedStates, NotKeptStates
  <2> QED BY <2>2, <2>3
<1> QED BY <1>2, <1>3, <1>4, <1>5

\* release_client finds a client to give back.
LEMMA ReleaseWorks ==
  ASSUME DInv, NEW a \in Actors, ReleaseClient(a)
  PROVE  /\ pc[a] \in {"backout", "finished", "sent"} /\ Goto(a, AfterRelease(a))
         /\ active_clients' = [active_clients EXCEPT ![via[a]] = @ - 1]
         /\ UNCHANGED <<health, queue, worker, stateVars, dropped, closer, calls, delivered,
                        fatal, refVars>>
<1>1. pc[a] \in {"backout", "finished", "sent"} /\ pc[a] \in CountedStates
  BY DEF ReleaseClient, CountedStates, AdmittedStates
<1>2. active_clients[via[a]] > 0
  BY <1>1, NoUnderflow DEF DInv
<1>3. active_clients[via[a]] # 0
  BY <1>2
<1> QED BY <1>1, <1>3 DEF ReleaseClient

\* release_client keeps the count exact.
LEMMA ReleaseStep ==
  ASSUME DInv, NEW a \in Actors, ReleaseClient(a)
  PROVE  CountInv' /\ Protocol'
<1>0. TypeOK /\ CountInv
  BY DEF DInv
<1>1. /\ a[1] = "lease" /\ a[2] \in dropped => pc[a] \in NotKeptStates
      /\ a[1] = "guard" /\ a[2] \in dropped => pc[a] # "finished"
      /\ pc[a] = "backout" => health[via[a]] # "HEALTHY"
      /\ a[1] = "guard" \/ a[1] = "lease"
  BY OfActor
<1> DEFINE l == AfterRelease(a)
<1>2. /\ pc[a] \in {"backout", "finished", "sent"} /\ pc' = [pc EXCEPT ![a] = l]
      /\ active_clients' = [active_clients EXCEPT ![via[a]] = @ - 1]
      /\ UNCHANGED <<health, queue, worker, stateVars, dropped, closer, calls, delivered,
                     fatal, refVars>>
  BY ReleaseWorks DEF Goto
<1>3. /\ pc[a] = "backout" => l = "refused"
      /\ pc[a] = "finished" /\ a[1] = "guard" => l = "live"
      /\ pc[a] = "finished" /\ a[1] = "lease" => l = "unused"
      /\ pc[a] = "sent" => l = "retired"
  BY DEF AfterRelease
<1> HIDE DEF l
<1>4. l \in {"refused", "live", "unused", "retired"}
  BY <1>1, <1>2, <1>3
<1>5. CountInv'
  <2>1. l \notin CountedStates /\ pc[a] \in CountedStates
    BY <1>2, <1>4 DEF CountedStates, AdmittedStates
  <2> QED BY <1>0, <1>2, <2>1, CountLeft
<1>6. Protocol'
  BY <1>1, <1>2, <1>3, <1>4, Move DEF AdmittedStates, NotKeptStates
<1> QED BY <1>5, <1>6

\* A command is queued behind those that are there.
LEMMA Queued ==
  ASSUME TypeOK, NEW d \in Dispatchers, NEW c \in Commands,
         queue' = [queue EXCEPT ![d] = Append(@, c)]
  PROVE  /\ Len(queue[d]) \in Nat /\ Len(queue'[d]) = Len(queue[d]) + 1
         /\ \A i \in 1..Len(queue[d]) : i \in 1..Len(queue'[d]) /\ queue'[d][i] = queue[d][i]
         /\ Len(queue'[d]) \in 1..Len(queue'[d]) /\ queue'[d][Len(queue'[d])] = c
         /\ \A i \in 1..Len(queue'[d]) : i \in 1..Len(queue[d]) \/ i = Len(queue'[d])
         /\ \A e \in Dispatchers \ {d} : queue'[e] = queue[e]
<1>1. queue[d] \in Seq(Commands) /\ queue'[d] = Append(queue[d], c)
      /\ \A e \in Dispatchers \ {d} : queue'[e] = queue[e]
  BY DEF TypeOK
<1>2. /\ Len(queue[d]) \in Nat /\ Len(Append(queue[d], c)) = Len(queue[d]) + 1
      /\ \A i \in 1..Len(queue[d]) : Append(queue[d], c)[i] = queue[d][i]
      /\ Append(queue[d], c)[Len(queue[d]) + 1] = c
  BY <1>1, AppendProperties, LenProperties
<1> QED BY <1>1, <1>2

\* The worker receives the first command.
LEMMA Received ==
  ASSUME TypeOK, NEW d \in Dispatchers, queue[d] # <<>>,
         queue' = [queue EXCEPT ![d] = Tail(@)]
  PROVE  /\ Len(queue[d]) \in Nat /\ 1 \in 1..Len(queue[d]) /\ Head(queue[d]) = queue[d][1]
         /\ Head(queue[d]) \in Commands /\ Len(queue'[d]) = Len(queue[d]) - 1
         /\ queue'[d] = Tail(queue[d]) /\ queue'[d] \in Seq(Commands)
         /\ \A i \in 1..Len(queue'[d]) :
              i + 1 \in 1..Len(queue[d]) /\ queue'[d][i] = queue[d][i + 1]
         /\ \A e \in Dispatchers \ {d} : queue'[e] = queue[e]
<1>0. queue[d] \in Seq(Commands) /\ queue'[d] = Tail(queue[d])
      /\ \A e \in Dispatchers \ {d} : queue'[e] = queue[e]
  BY DEF TypeOK
<1>1. /\ Len(queue[d]) \in Nat /\ Head(queue[d]) \in Commands
      /\ Tail(queue[d]) \in Seq(Commands) /\ Len(Tail(queue[d])) = Len(queue[d]) - 1
      /\ \A i \in 1..Len(Tail(queue[d])) : Tail(queue[d])[i] = queue[d][i + 1]
  BY <1>0, HeadTailProperties, LenProperties
<1>2. Len(queue[d]) # 0
  BY <1>0, EmptySeq
<1>3. Head(queue[d]) = queue[d][1]
  BY <1>0
<1>4. \A i \in 1..Len(queue'[d]) :
        i + 1 \in 1..Len(queue[d]) /\ queue'[d][i] = queue[d][i + 1]
  <2> SUFFICES ASSUME NEW i \in 1..Len(queue'[d])
               PROVE  i + 1 \in 1..Len(queue[d]) /\ queue'[d][i] = queue[d][i + 1]
    OBVIOUS
  <2> DEFINE n == Len(queue[d])
  <2>1. n \in Nat /\ i \in 1..(n - 1)
    BY <1>0, <1>1
  <2> HIDE DEF n
  <2>2. i + 1 \in 1..n
    BY <2>1
  <2>3. queue'[d][i] = queue[d][i + 1]
    BY <1>0, <1>1
  <2> QED BY <2>2, <2>3 DEF n
<1>5. 1 \in 1..Len(queue[d])
  BY <1>1, <1>2
<1>6. Len(queue'[d]) = Len(queue[d]) - 1 /\ queue'[d] \in Seq(Commands)
  BY <1>0, <1>1
<1> QED BY <1>0, <1>1, <1>3, <1>4, <1>5, <1>6

\* When a command is dispatched, the worker is there, and Stop is not queued.
LEMMA DispatchWorks ==
  ASSUME DInv, NEW a \in Actors, Dispatch(a)
  PROVE  /\ pc[a] \in {"claimed", "held"}
         /\ pc[a] = "claimed" \/ (a[1] = "guard" /\ a[2] \in dropped)
         /\ ~stop_enqueued[via[a]] /\ worker[via[a]] # "finished"
         /\ \A k \in Closers : Closes[k] = via[a] => closer[k] \notin LateStates
         /\ queue' = [queue EXCEPT ![via[a]] = Append(@, a)] /\ Goto(a, "sent")
         /\ UNCHANGED <<health, active_clients, worker, stateVars, dropped, closer, calls,
                        delivered, fatal, refVars>>
<1>1. /\ pc[a] \in {"claimed", "held"}
      /\ pc[a] = "claimed" \/ (a[1] = "guard" /\ a[2] \in dropped)
      /\ pc[a] \in AdmittedStates
  BY DEF Dispatch, AdmittedStates
<1>2. /\ ~stop_enqueued[via[a]]
      /\ \A k \in Closers : Closes[k] = via[a] => closer[k] \notin LateStates
  BY <1>1 DEF DInv, Protocol, AdmissionInv
<1>3. worker[via[a]] # "finished"
  <2>1. via[a] \in Dispatchers
    BY OfActor
  <2> QED BY <1>2, <2>1 DEF DInv, Protocol, WorkerInv
<1> QED BY <1>1, <1>2, <1>3 DEF Dispatch

\* DispatcherClient::dispatch: the release command of a holder is queued before
\* the abandonment of its guard.
LEMMA DispatchStep ==
  ASSUME DInv, NEW a \in Actors, Dispatch(a)
  PROVE  CountInv' /\ Protocol'
<1>0. TypeOK /\ CountInv
  BY DEF DInv
<1> DEFINE c == via[a]
<1>1. /\ pc[a] \in {"claimed", "held"}
      /\ pc[a] = "claimed" \/ (a[1] = "guard" /\ a[2] \in dropped)
      /\ ~stop_enqueued[c] /\ worker[c] # "finished"
      /\ \A k \in Closers : Closes[k] = c => closer[k] \notin LateStates
      /\ queue' = [queue EXCEPT ![c] = Append(@, a)] /\ pc' = [pc EXCEPT ![a] = "sent"]
      /\ UNCHANGED <<health, active_clients, worker, stateVars, dropped, closer, calls,
                     delivered, fatal, refVars>>
  BY DispatchWorks DEF Goto
<1>2. \A b \in Actors : pc'[b] = IF b = a THEN "sent" ELSE pc[b]
  BY <1>0, <1>1 DEF TypeOK
<1>3. c \in Dispatchers /\ a \in Commands
  BY <1>0 DEF TypeOK, Commands
<1>4. /\ Len(queue[c]) \in Nat /\ Len(queue'[c]) = Len(queue[c]) + 1
      /\ \A i \in 1..Len(queue[c]) : i \in 1..Len(queue'[c]) /\ queue'[c][i] = queue[c][i]
      /\ Len(queue'[c]) \in 1..Len(queue'[c]) /\ queue'[c][Len(queue'[c])] = a
      /\ \A i \in 1..Len(queue'[c]) : i \in 1..Len(queue[c]) \/ i = Len(queue'[c])
      /\ \A e \in Dispatchers \ {c} : queue'[e] = queue[e]
  BY <1>0, <1>1, <1>3, Queued
<1> HIDE DEF c
<1>5. CountInv'
  BY <1>0, <1>1, CountKept DEF CountedStates, AdmittedStates
<1>6. AdmissionInv'
  BY <1>1, <1>2 DEF DInv, Protocol, AdmissionInv, AdmittedStates, c
<1>7. WorkerInv' /\ CloserInv'
  BY <1>1, <1>3, <1>4 DEF DInv, Protocol, WorkerInv, CloserInv
<1>8. QueueInv'
  <2>1. a # "stop"
    BY DispatcherAssumption
  <2>2. QueueInv /\ \A i \in 1..Len(queue[c]) : queue[c][i] # "stop"
    BY <1>1, <1>3 DEF DInv, Protocol, QueueInv
  <2>3. \A i \in 1..Len(queue'[c]) : queue'[c][i] # "stop"
    BY <1>4, <2>1, <2>2
  <2> QED BY <1>1, <1>4, <2>2, <2>3 DEF QueueInv
<1>9. \A b \in Actors : Accepted(b) => Accepted(b)'
  <2> SUFFICES ASSUME NEW b \in Actors, NEW i \in 1..Len(queue[via[b]]), queue[via[b]][i] = b
               PROVE  \E j \in 1..Len(queue'[via[b]]) : queue'[via[b]][j] = b
    BY <1>1 DEF Accepted
  <2>1. via[b] \in Dispatchers
    BY OfActor
  <2> QED BY <1>4, <2>1
<1>10. DeliveryInv'
  <2> SUFFICES ASSUME NEW b \in Actors, pc'[b] \in {"sent", "retired"} PROVE Accepted(b)'
    BY DEF DeliveryInv
  <2>1. CASE b = a
    BY <1>1, <1>4, <2>1 DEF Accepted, c
  <2>2. CASE b # a
    BY <1>2, <1>9, <2>2 DEF DInv, Protocol, DeliveryInv
  <2> QED BY <2>1, <2>2
<1>11. GuardInv'
  <2> SUFFICES ASSUME NEW h \in Holders
               PROVE  /\ pc'[Guard(h)] # "claimed"
                      /\ h \in dropped => /\ pc'[Lease(h)] \in NotKeptStates
                                          /\ pc'[Guard(h)] \notin {"live", "finished", "absent"}
                      /\ Guard(h) \in delivered =>
                           /\ h \in dropped
                           /\ via[Lease(h)] = via[Guard(h)] /\ pc'[Lease(h)] = "retired" =>
                                Lease(h) \in delivered
                      /\ \A d \in Dispatchers : \A i \in 1..Len(queue'[d]) :
                           queue'[d][i] = Guard(h) =>
                           /\ h \in dropped /\ via[Guard(h)] = d
                           /\ via[Lease(h)] = d /\ pc'[Lease(h)] = "retired" =>
                                \/ Lease(h) \in delivered
                                \/ \E j \in 1..(i - 1) : queue'[d][j] = Lease(h)
    BY <1>1 DEF GuardInv
  <2>1. /\ Guard(h) \in Actors /\ Lease(h) \in Actors /\ Guard(h) # Lease(h)
        /\ a[2] \in Holders /\ (a = Guard(a[2]) \/ a = Lease(a[2]))
        /\ Guard(h)[2] = h /\ Lease(h)[1] = "lease"
    BY Names
  <2>2. /\ pc[Guard(h)] # "claimed"
        /\ h \in dropped => /\ pc[Lease(h)] \in NotKeptStates
                            /\ pc[Guard(h)] \notin {"live", "finished", "absent"}
        /\ Guard(h) \in delivered =>
             /\ h \in dropped
             /\ via[Lease(h)] = via[Guard(h)] /\ pc[Lease(h)] = "retired" => Lease(h) \in delivered
    BY DEF DInv, Protocol, GuardInv
  <2>3. \A d \in Dispatchers : \A i \in 1..Len(queue[d]) : queue[d][i] = Guard(h) =>
          /\ h \in dropped /\ via[Guard(h)] = d
          /\ via[Lease(h)] = d /\ pc[Lease(h)] = "retired" =>
               Lease(h) \in delivered \/ \E j \in 1..(i - 1) : queue[d][j] = Lease(h)
    BY DEF DInv, Protocol, GuardInv
  <2>4. pc[a] \notin NotKeptStates
    BY <1>1 DEF NotKeptStates
  <2>5. h \in dropped => a # Lease(h)
    BY <2>2, <2>4
  <2>6. /\ pc'[Guard(h)] # "claimed"
        /\ h \in dropped => /\ pc'[Lease(h)] \in NotKeptStates
                            /\ pc'[Guard(h)] \notin {"live", "finished", "absent"}
        /\ pc'[Lease(h)] = "retired" => pc[Lease(h)] = "retired"
    BY <1>2, <2>1, <2>2, <2>5
  <2>7. ASSUME NEW d \in Dispatchers, NEW i \in 1..Len(queue'[d]), queue'[d][i] = Guard(h)
        PROVE  /\ h \in dropped /\ via[Guard(h)] = d
               /\ via[Lease(h)] = d /\ pc'[Lease(h)] = "retired" =>
                    Lease(h) \in delivered \/ \E j \in 1..(i - 1) : queue'[d][j] = Lease(h)
    <3>1. CASE d # c
      BY <1>4, <2>3, <2>6, <2>7, <3>1
    <3>2. CASE d = c /\ i \in 1..Len(queue[c])
      <4>1. \A j \in 1..(i - 1) : j \in 1..Len(queue[c])
        BY <1>4, <3>2
      <4>2. queue[c][i] = Guard(h)
        BY <1>4, <2>7, <3>2
      <4> QED BY <1>4, <2>3, <2>6, <3>2, <4>1, <4>2
    <3>3. CASE d = c /\ i = Len(queue'[c])
      <4>1. a = Guard(h)
        BY <1>4, <2>7, <3>3
      <4>2. h \in dropped /\ via[Guard(h)] = d
        <5>1. a[2] = h
          BY <2>1, <4>1
        <5>2. pc[a] # "claimed"
          BY <2>2, <4>1
        <5> QED BY <1>1, <3>3, <4>1, <5>1, <5>2 DEF c
      <4>3. via[Lease(h)] = d /\ pc[Lease(h)] = "retired" =>
              Lease(h) \in delivered \/ \E j \in 1..Len(queue[c]) : queue[c][j] = Lease(h)
        BY <2>1, <3>3 DEF DInv, Protocol, DeliveryInv, Accepted
      <4>4. i - 1 = Len(queue[c])
        BY <1>4, <3>3
      <4> QED BY <1>4, <2>6, <3>3, <4>2, <4>3, <4>4
    <3> QED BY <1>4, <2>7, <3>1, <3>2, <3>3
  <2> QED BY <2>2, <2>6, <2>7
<1> QED BY <1>5, <1>6, <1>7, <1>8, <1>10, <1>11 DEF Protocol

\* A guard is dropped when its lease is through or has given it up.
LEMMA DropStep ==
  ASSUME DInv, NEW h \in Holders, DropGuard(h)
  PROVE  CountInv' /\ Protocol'
<1>0. TypeOK /\ CountInv
  BY DEF DInv
<1>1. /\ pc[Guard(h)] = "live" /\ pc[Lease(h)] \in NotKeptStates
      /\ dropped' = dropped \cup {h} /\ pc' = [pc EXCEPT ![Guard(h)] = "idle"]
      /\ UNCHANGED <<health, active_clients, queue, worker, stateVars, closer, calls,
                     delivered, fatal, refVars>>
  BY DEF DropGuard, NotKept, NotKeptStates, Goto
<1>2. Guard(h) \in Actors
  BY Names
<1>3. \A b \in Actors : pc'[b] = IF b = Guard(h) THEN "idle" ELSE pc[b]
  BY <1>0, <1>1, <1>2 DEF TypeOK
<1>4. CountInv'
  BY <1>0, <1>1, <1>2, CountKept DEF CountedStates, AdmittedStates
<1>5. AdmissionInv'
  BY <1>1, <1>3 DEF DInv, Protocol, AdmissionInv, AdmittedStates
<1>6. WorkerInv' /\ QueueInv' /\ CloserInv'
  BY <1>1 DEF DInv, Protocol, WorkerInv, QueueInv, CloserInv
<1>7. DeliveryInv'
  BY <1>1, <1>3 DEF DInv, Protocol, DeliveryInv, Accepted
<1>8. GuardInv'
  <2> SUFFICES ASSUME NEW g \in Holders
               PROVE  /\ pc'[Guard(g)] # "claimed"
                      /\ g \in dropped' => /\ pc'[Lease(g)] \in NotKeptStates
                                           /\ pc'[Guard(g)] \notin {"live", "finished", "absent"}
                      /\ pc'[Lease(g)] = pc[Lease(g)] /\ (g \in dropped => g \in dropped')
    BY <1>1 DEF DInv, Protocol, GuardInv
  <2>1. /\ Guard(g) \in Actors /\ Lease(g) \in Actors /\ Lease(g) # Guard(h)
        /\ Guard(g) = Guard(h) => g = h
    BY Names
  <2>2. /\ pc[Guard(g)] # "claimed"
        /\ g \in dropped => /\ pc[Lease(g)] \in NotKeptStates
                            /\ pc[Guard(g)] \notin {"live", "finished", "absent"}
    BY DEF DInv, Protocol, GuardInv
  <2> QED BY <1>1, <1>3, <2>1, <2>2
<1> QED BY <1>4, <1>5, <1>6, <1>7, <1>8 DEF Protocol

\* Claiming, and a guard dropped after the close began.
LEMMA HolderStep ==
  ASSUME DInv, NEW h \in Holders, Claim(h) \/ DropGuard(h) \/ AbandonLate(h)
  PROVE  CountInv' /\ Protocol'
<1>0. TypeOK /\ CountInv
  BY DEF DInv
<1>1. /\ Guard(h) \in Actors /\ Lease(h) \in Actors
      /\ Guard(h)[1] = "guard" /\ Lease(h)[1] = "lease"
      /\ Guard(h)[2] = h /\ Lease(h)[2] = h
  BY Names
<1>2. CASE Claim(h)
  <2>1. /\ pc[Lease(h)] = "held" /\ pc' = [pc EXCEPT ![Lease(h)] = "claimed"]
        /\ UNCHANGED <<health, active_clients, queue, worker, stateVars, dropped, closer,
                       calls, delivered, fatal, refVars>>
    BY <1>2 DEF Claim, Goto
  <2>2. h \notin dropped
    BY <1>1, <2>1, OfActor DEF NotKeptStates
  <2>3. CountInv'
    BY <1>0, <1>1, <2>1, CountKept DEF CountedStates, AdmittedStates
  <2>4. Protocol'
    BY <1>1, <2>1, <2>2, Move DEF AdmittedStates
  <2> QED BY <2>3, <2>4
<1>3. CASE AbandonLate(h) /\ UNCHANGED fatal
  <2>1. /\ pc[Guard(h)] = "refused" /\ pc' = [pc EXCEPT ![Guard(h)] = "inert"]
        /\ UNCHANGED <<health, active_clients, queue, worker, stateVars, dropped, closer,
                       calls, delivered, fatal, refVars>>
    BY <1>3 DEF AbandonLate, Goto, Alive
  <2>2. CountInv'
    BY <1>0, <1>1, <2>1, CountKept DEF CountedStates, AdmittedStates
  <2>3. Protocol'
    BY <1>1, <2>1, Move DEF AdmittedStates
  <2> QED BY <2>2, <2>3
<1>4. CASE AbandonLate(h) /\ ~UNCHANGED fatal
  <2>1. UNCHANGED <<pc, health, active_clients, queue, worker, stateVars, dropped, closer,
                    calls, delivered, refVars>>
    BY <1>4 DEF AbandonLate
  <2>2. AdmissionInv' /\ WorkerInv' /\ CloserInv'
    BY <2>1 DEF DInv, Protocol, AdmissionInv, WorkerInv, CloserInv
  <2> QED BY <2>1, <2>2, Still DEF Protocol
<1> QED BY <1>2, <1>3, <1>4, DropStep


-----------------------------------------------------------------------------
(* Steps of a worker.                                                      *)

\* What is said of clients and closers, when neither moves.
LEMMA Idle ==
  ASSUME DInv, UNCHANGED <<health, stateVars, pc, closer, via>>
  PROVE  AdmissionInv'
BY DEF DInv, Protocol, AdmissionInv

\* A guard's place in the queues, when neither it nor its lease moves.
LEMMA GuardPlace ==
  ASSUME DInv, UNCHANGED <<pc, dropped, via>>,
         \A h \in Holders : Guard(h) \in delivered' =>
           /\ h \in dropped
           /\ via[Lease(h)] = via[Guard(h)] /\ pc[Lease(h)] = "retired" => Lease(h) \in delivered',
         \A h \in Holders, d \in Dispatchers : \A i \in 1..Len(queue'[d]) :
           queue'[d][i] = Guard(h) =>
             /\ h \in dropped /\ via[Guard(h)] = d
             /\ via[Lease(h)] = d /\ pc[Lease(h)] = "retired" =>
                  Lease(h) \in delivered' \/ \E j \in 1..(i - 1) : queue'[d][j] = Lease(h)
  PROVE  GuardInv'
<1> SUFFICES ASSUME NEW h \in Holders
             PROVE  /\ pc'[Guard(h)] # "claimed"
                    /\ h \in dropped' => /\ pc'[Lease(h)] \in NotKeptStates
                                         /\ pc'[Guard(h)] \notin {"live", "finished", "absent"}
                    /\ Guard(h) \in delivered' =>
                         /\ h \in dropped'
                         /\ via'[Lease(h)] = via'[Guard(h)] /\ pc'[Lease(h)] = "retired" =>
                              Lease(h) \in delivered'
                    /\ \A d \in Dispatchers : \A i \in 1..Len(queue'[d]) :
                         queue'[d][i] = Guard(h) =>
                           /\ h \in dropped' /\ via'[Guard(h)] = d
                           /\ via'[Lease(h)] = d /\ pc'[Lease(h)] = "retired" =>
                                \/ Lease(h) \in delivered'
                                \/ \E j \in 1..(i - 1) : queue'[d][j] = Lease(h)
  BY DEF GuardInv
<1>1. /\ pc'[Guard(h)] # "claimed"
      /\ h \in dropped' => /\ pc'[Lease(h)] \in NotKeptStates
                           /\ pc'[Guard(h)] \notin {"live", "finished", "absent"}
  BY DEF DInv, Protocol, GuardInv
<1> QED BY <1>1

\* WorkerSend handles commands in the order of the queue.
LEMMA SendStep ==
  ASSUME DInv, NEW d \in Dispatchers, WorkerSend(d)
  PROVE  CountInv' /\ Protocol'
<1>0. TypeOK
  BY DEF DInv
<1> DEFINE q == queue[d]
           r == queue'[d]
<1>1. /\ worker[d] = "running" /\ q # <<>> /\ queue' = [queue EXCEPT ![d] = Tail(@)]
      /\ delivered' = delivered \cup {Head(q)}
      /\ UNCHANGED <<health, active_clients, worker, stateVars, pc, dropped, closer,
                     calls, fatal, refVars>>
  BY DEF WorkerSend
<1>2. /\ Len(q) \in Nat /\ 1 \in 1..Len(q) /\ Head(q) = q[1] /\ Len(r) = Len(q) - 1
      /\ \A i \in 1..Len(r) : i + 1 \in 1..Len(q) /\ r[i] = q[i + 1]
      /\ \A e \in Dispatchers \ {d} : queue'[e] = queue[e]
  BY <1>0, <1>1, Received
<1> HIDE DEF q, r
<1>3. \A i \in 1..Len(q) : i = 1 \/ (i - 1 \in 1..Len(r) /\ r[i - 1] = q[i])
  <2> SUFFICES ASSUME NEW i \in 1..Len(q), i # 1
               PROVE  i - 1 \in 1..Len(r) /\ r[i - 1] = q[i]
    OBVIOUS
  <2>1. i - 1 \in 1..Len(r) /\ (i - 1) + 1 = i
    BY <1>2
  <2> QED BY <1>2, <2>1
<1>4. CountInv'
  BY <1>1 DEF DInv, CountInv, Clients
<1>5. AdmissionInv'
  BY <1>1, Idle
<1>6. WorkerInv' /\ CloserInv'
  BY <1>1, <1>2 DEF DInv, Protocol, WorkerInv, CloserInv
<1>7. QueueInv'
  <2> SUFFICES ASSUME NEW e \in Dispatchers, NEW i \in 1..Len(queue'[e]), queue'[e][i] = "stop"
               PROVE  i = Len(queue'[e]) /\ stop_enqueued[e]
    BY <1>1 DEF QueueInv
  <2>1. QueueInv
    BY DEF DInv, Protocol
  <2>2. CASE e # d
    <3>1. queue'[e] = queue[e]
      BY <1>2, <2>2
    <3> QED BY <2>1, <3>1 DEF QueueInv
  <2>3. CASE e = d
    <3>1. i \in 1..Len(r) /\ i + 1 \in 1..Len(q) /\ q[i + 1] = "stop"
      BY <1>2, <2>3 DEF r
    <3>2. i + 1 = Len(q) /\ stop_enqueued[d]
      BY <2>1, <3>1 DEF QueueInv, q
    <3>3. i = Len(r)
      BY <1>2, <3>1, <3>2
    <3> QED BY <2>3, <3>2, <3>3 DEF r
  <2> QED BY <2>2, <2>3
<1>8. \A a \in Actors : Accepted(a) => Accepted(a)'
  <2>0. delivered \subseteq delivered' /\ via' = via
    BY <1>1
  <2> SUFFICES ASSUME NEW a \in Actors, NEW i \in 1..Len(queue[via[a]]), queue[via[a]][i] = a
               PROVE  a \in delivered' \/ \E j \in 1..Len(queue'[via[a]]) : queue'[via[a]][j] = a
    BY <2>0 DEF Accepted
  <2>1. CASE via[a] = d
    <3>1. i \in 1..Len(q) /\ q[i] = a
      BY <2>1 DEF q
    <3>2. CASE i = 1
      BY <1>1, <1>2, <3>1, <3>2
    <3>3. CASE i # 1
      <4>1. i - 1 \in 1..Len(r) /\ r[i - 1] = a
        BY <1>3, <3>1, <3>3
      <4> QED BY <2>1, <4>1 DEF r
    <3> QED BY <3>2, <3>3
  <2>2. CASE via[a] # d
    BY <1>2, <2>2, OfActor
  <2> QED BY <2>1, <2>2
<1>9. DeliveryInv'
  BY <1>1, <1>8 DEF DInv, Protocol, DeliveryInv
<1>10. GuardInv'
  <2> DEFINE Told(h, e) == via[Lease(h)] = e /\ pc[Lease(h)] = "retired"
  <2> SUFFICES ASSUME NEW h \in Holders
               PROVE  /\ Guard(h) \in delivered' =>
                           h \in dropped /\ (Told(h, via[Guard(h)]) => Lease(h) \in delivered')
                      /\ \A e \in Dispatchers : \A i \in 1..Len(queue'[e]) :
                           queue'[e][i] = Guard(h) =>
                             /\ h \in dropped /\ via[Guard(h)] = e
                             /\ Told(h, e) => \/ Lease(h) \in delivered'
                                              \/ \E j \in 1..(i - 1) : queue'[e][j] = Lease(h)
    BY <1>1, GuardPlace
  <2>1. Guard(h) \in delivered =>
          h \in dropped /\ (Told(h, via[Guard(h)]) => Lease(h) \in delivered)
    BY DEF DInv, Protocol, GuardInv
  <2>2. \A e \in Dispatchers : \A i \in 1..Len(queue[e]) : queue[e][i] = Guard(h) =>
          /\ h \in dropped /\ via[Guard(h)] = e
          /\ Told(h, e) => Lease(h) \in delivered \/ \E j \in 1..(i - 1) : queue[e][j] = Lease(h)
    BY DEF DInv, Protocol, GuardInv
  <2> HIDE DEF Told
  <2>3. \A i \in 1..Len(q) : q[i] = Guard(h) =>
          /\ h \in dropped /\ via[Guard(h)] = d
          /\ Told(h, d) => Lease(h) \in delivered \/ \E j \in 1..(i - 1) : q[j] = Lease(h)
    BY <2>2 DEF q
  <2>4. ASSUME Head(q) = Guard(h)
        PROVE  h \in dropped /\ (Told(h, via[Guard(h)]) => Lease(h) \in delivered')
    <3>1. ~ \E j \in 1..(1 - 1) : q[j] = Lease(h)
      OBVIOUS
    <3> QED BY <1>1, <1>2, <2>3, <2>4, <3>1
  <2>5. ASSUME NEW i \in 1..Len(r), r[i] = Guard(h)
        PROVE  /\ h \in dropped /\ via[Guard(h)] = d
               /\ Told(h, d) => Lease(h) \in delivered' \/ \E j \in 1..(i - 1) : r[j] = Lease(h)
    <3>1. i + 1 \in 1..Len(q) /\ q[i + 1] = Guard(h) /\ (i + 1) - 1 = i
      BY <1>2, <2>5
    <3>2. /\ h \in dropped /\ via[Guard(h)] = d
          /\ Told(h, d) => Lease(h) \in delivered \/ \E j \in 1..i : q[j] = Lease(h)
      BY <2>3, <3>1
    <3>3. ASSUME NEW j \in 1..i, q[j] = Lease(h)
          PROVE  Lease(h) \in delivered' \/ \E m \in 1..(i - 1) : r[m] = Lease(h)
      <4>1. j \in 1..Len(q)
        BY <1>2, <3>1
      <4>2. CASE j = 1
        BY <1>1, <1>2, <3>3, <4>2
      <4>3. CASE j # 1
        <5>1. r[j - 1] = Lease(h)
          BY <1>3, <3>3, <4>1, <4>3
        <5>2. j - 1 \in 1..(i - 1)
          <6>1. i \in Nat /\ j \in Nat /\ 1 <= j /\ j <= i
            BY <1>2, <2>5, <3>3
          <6> QED BY <4>3, <6>1
        <5> QED BY <5>1, <5>2
      <4> QED BY <4>2, <4>3
    <3> QED BY <1>1, <3>2, <3>3
  <2>6. \A e \in Dispatchers : \A i \in 1..Len(queue'[e]) : queue'[e][i] = Guard(h) =>
          /\ h \in dropped /\ via[Guard(h)] = e
          /\ Told(h, e) => Lease(h) \in delivered' \/ \E j \in 1..(i - 1) : queue'[e][j] = Lease(h)
    <3> SUFFICES ASSUME NEW e \in Dispatchers, NEW i \in 1..Len(queue'[e]),
                        queue'[e][i] = Guard(h)
                 PROVE  /\ h \in dropped /\ via[Guard(h)] = e
                        /\ Told(h, e) => \/ Lease(h) \in delivered'
                                         \/ \E j \in 1..(i - 1) : queue'[e][j] = Lease(h)
      OBVIOUS
    <3>1. CASE e = d
      BY <2>5, <3>1 DEF r
    <3>2. CASE e # d
      BY <1>1, <1>2, <2>2, <3>2
    <3> QED BY <3>1, <3>2
  <2> QED BY <1>1, <2>1, <2>4, <2>6
<1> QED BY <1>4, <1>5, <1>6, <1>7, <1>9, <1>10 DEF Protocol

\* A worker ends at Stop, with nothing left in its queue.
LEMMA StopStep ==
  ASSUME DInv, NEW d \in Dispatchers, WorkerStop(d)
  PROVE  CountInv' /\ Protocol'
<1>0. TypeOK
  BY DEF DInv
<1>1. /\ worker[d] = "running" /\ queue[d] # <<>> /\ Head(queue[d]) = "stop"
      /\ queue' = [queue EXCEPT ![d] = Tail(@)] /\ worker' = [worker EXCEPT ![d] = "finished"]
      /\ UNCHANGED <<health, active_clients, stateVars, pc, dropped, closer, calls,
                     delivered, fatal, refVars>>
  BY DEF WorkerStop
<1>2. /\ Len(queue[d]) \in Nat /\ 1 \in 1..Len(queue[d]) /\ Head(queue[d]) = queue[d][1]
      /\ Len(queue'[d]) = Len(queue[d]) - 1 /\ queue'[d] \in Seq(Commands)
      /\ \A e \in Dispatchers \ {d} : queue'[e] = queue[e]
  BY <1>0, <1>1, Received
<1>3. 1 = Len(queue[d]) /\ stop_enqueued[d]
  BY <1>1, <1>2 DEF DInv, Protocol, QueueInv
<1>4. Len(queue'[d]) = 0 /\ queue'[d] = <<>>
  <2>1. Len(queue'[d]) = 0
    BY <1>2, <1>3
  <2> QED BY <1>2, <2>1, EmptySeq
<1>5. /\ \A i \in 1..Len(queue[d]) : queue[d][i] = "stop"
      /\ \A i \in 1..Len(queue'[d]) : FALSE
  BY <1>1, <1>2, <1>3, <1>4
<1>6. \A e \in Dispatchers : worker'[e] = IF e = d THEN "finished" ELSE worker[e]
  BY <1>0, <1>1 DEF TypeOK
<1>7. CountInv'
  BY <1>1 DEF DInv, CountInv, Clients
<1>8. AdmissionInv'
  BY <1>1, Idle
<1>9. WorkerInv' /\ CloserInv'
  BY <1>1, <1>2, <1>3, <1>4, <1>6 DEF DInv, Protocol, WorkerInv, CloserInv
<1>10. QueueInv'
  <2> SUFFICES ASSUME NEW e \in Dispatchers, NEW i \in 1..Len(queue'[e]), queue'[e][i] = "stop"
               PROVE  i = Len(queue'[e]) /\ stop_enqueued[e]
    BY <1>1 DEF QueueInv
  <2>1. e # d
    BY <1>5
  <2>2. queue'[e] = queue[e]
    BY <1>2, <2>1
  <2>3. i \in 1..Len(queue[e]) /\ queue[e][i] = "stop"
    BY <2>2
  <2>4. i = Len(queue[e]) /\ stop_enqueued[e]
    BY <2>3 DEF DInv, Protocol, QueueInv
  <2> QED BY <2>2, <2>4
<1>11. \A a \in Actors : Accepted(a) => Accepted(a)'
  <2>0. delivered \subseteq delivered' /\ via' = via
    BY <1>1
  <2> SUFFICES ASSUME NEW a \in Actors, NEW i \in 1..Len(queue[via[a]]), queue[via[a]][i] = a
               PROVE  \E j \in 1..Len(queue'[via[a]]) : queue'[via[a]][j] = a
    BY <2>0 DEF Accepted
  <2>1. via[a] # d
    BY <1>5, DispatcherAssumption
  <2> QED BY <1>2, <2>1, OfActor
<1>12. DeliveryInv'
  BY <1>1, <1>11 DEF DInv, Protocol, DeliveryInv
<1>13. GuardInv'
  <2>0. GuardInv
    BY DEF DInv, Protocol
  <2>1. \A e \in Dispatchers : e = d \/ queue'[e] = queue[e]
    BY <1>2
  <2>2. \A h \in Holders : Guard(h) \in delivered' =>
           /\ h \in dropped
           /\ via[Lease(h)] = via[Guard(h)] /\ pc[Lease(h)] = "retired" => Lease(h) \in delivered'
    BY <1>1, <2>0 DEF GuardInv
  <2>3. \A h \in Holders, e \in Dispatchers : \A i \in 1..Len(queue'[e]) :
          queue'[e][i] = Guard(h) =>
            /\ h \in dropped /\ via[Guard(h)] = e
            /\ via[Lease(h)] = e /\ pc[Lease(h)] = "retired" =>
                 Lease(h) \in delivered' \/ \E j \in 1..(i - 1) : queue'[e][j] = Lease(h)
    <3> SUFFICES ASSUME NEW h \in Holders, NEW e \in Dispatchers, NEW i \in 1..Len(queue'[e]),
                        queue'[e][i] = Guard(h)
                 PROVE  /\ h \in dropped /\ via[Guard(h)] = e
                        /\ via[Lease(h)] = e /\ pc[Lease(h)] = "retired" =>
                             \/ Lease(h) \in delivered'
                             \/ \E j \in 1..(i - 1) : queue'[e][j] = Lease(h)
      OBVIOUS
    <3>1. queue'[e] = queue[e]
      BY <1>5, <2>1
    <3>2. i \in 1..Len(queue[e]) /\ queue[e][i] = Guard(h)
      BY <3>1
    <3>3. /\ h \in dropped /\ via[Guard(h)] = e
          /\ via[Lease(h)] = e /\ pc[Lease(h)] = "retired" =>
               Lease(h) \in delivered \/ \E j \in 1..(i - 1) : queue[e][j] = Lease(h)
      BY <2>0, <3>2 DEF GuardInv
    <3> QED BY <1>1, <3>1, <3>3
  <2> QED BY <1>1, <2>2, <2>3, GuardPlace
<1> QED BY <1>7, <1>8, <1>9, <1>10, <1>12, <1>13 DEF Protocol

\* A panic publishes FAILED before the VM is ended.
LEMMA PanicStep ==
  ASSUME DInv, NEW d \in Dispatchers, WorkerPanic(d) \/ WorkerAbort(d)
  PROVE  CountInv' /\ Protocol'
<1>0. TypeOK
  BY DEF DInv
<1>1. UNCHANGED <<pc, active_clients, queue, stateVars, delivered, dropped, closer, via>>
  BY DEF WorkerPanic, WorkerAbort
<1>2. CASE WorkerPanic(d)
  <2>1. worker[d] = "running"
    BY <1>2 DEF WorkerPanic
  <2>2. /\ \A e \in Dispatchers : health'[e] = IF e = d THEN "FAILED" ELSE health[e]
        /\ \A e \in Dispatchers : worker'[e] = IF e = d THEN "panicked" ELSE worker[e]
    BY <1>0, <1>2 DEF WorkerPanic, TypeOK
  <2>3. \A k \in Closers : Closes[k] \in Dispatchers
    BY DispatcherAssumption
  <2>4. AdmissionInv'
    <3>1. \A a \in Actors : via[a] \in Dispatchers
      BY OfActor
    <3> QED BY <1>1, <2>2, <2>3, <3>1 DEF DInv, Protocol, AdmissionInv
  <2>5. WorkerInv'
    BY <1>1, <2>1, <2>2 DEF DInv, Protocol, WorkerInv
  <2>6. CloserInv'
    BY <1>1, <2>1, <2>2, <2>3 DEF DInv, Protocol, CloserInv
  <2> QED BY <1>1, <2>4, <2>5, <2>6, Still DEF Protocol
<1>3. CASE WorkerAbort(d)
  <2>1. UNCHANGED <<health, worker>>
    BY <1>3 DEF WorkerAbort
  <2>2. AdmissionInv' /\ WorkerInv' /\ CloserInv'
    BY <1>1, <2>1, Idle DEF DInv, Protocol, WorkerInv, CloserInv
  <2> QED BY <1>1, <2>2, Still DEF Protocol
<1> QED BY <1>2, <1>3

\* References come and go without the rest.
LEMMA ReferenceStep ==
  ASSUME DInv, NEW d \in Dispatchers, Disown(d) \/ DropDispatcher(d)
  PROVE  CountInv' /\ Protocol'
<1>1. UNCHANGED <<health, active_clients, queue, worker, stateVars, pc, dropped, closer,
                  delivered, via>>
  BY DEF Disown, DropDispatcher
<1>2. AdmissionInv' /\ WorkerInv' /\ CloserInv'
  BY <1>1, Idle DEF DInv, Protocol, WorkerInv, CloserInv
<1> QED BY <1>1, <1>2, Still DEF Protocol

-----------------------------------------------------------------------------
(* Steps of a close.                                                       *)

\* Who moves, and the dispatcher it closes.
LEMMA CloserMoves ==
  ASSUME TypeOK, NEW k \in Closers, NEW l, CloserGoto(k, l)
  PROVE  /\ \A j \in Closers : closer'[j] = IF j = k THEN l ELSE closer[j]
         /\ \A j \in Closers : Closes[j] \in Dispatchers
BY DispatcherAssumption DEF TypeOK, CloserGoto

\* begin_close ends the admission and may come again after an earlier close.
LEMMA BeginStep ==
  ASSUME DInv, NEW k \in Closers, BeginClose(k)
  PROVE  CountInv' /\ Protocol'
<1>0. TypeOK
  BY DEF DInv
<1> DEFINE c == Closes[k]
           l == IF health[c] = "FAILED" THEN "out" ELSE "clients"
<1>1. /\ closer[k] \in {"out", "ok"} /\ CloserGoto(k, l)
      /\ health' = [health EXCEPT ![c] = IF @ = "HEALTHY" THEN "STOPPING" ELSE @]
      /\ UNCHANGED <<active_clients, queue, worker, stateVars, pc, dropped, delivered, fatal,
                     refVars>>
  BY DEF BeginClose
<1>2. /\ \A j \in Closers : closer'[j] = IF j = k THEN l ELSE closer[j]
      /\ \A j \in Closers : Closes[j] \in Dispatchers
      /\ l \in {"out", "clients"}
  BY <1>0, <1>1, CloserMoves
<1>3. \A e \in Dispatchers :
        health'[e] = IF e = c /\ health[e] = "HEALTHY" THEN "STOPPING" ELSE health[e]
  BY <1>0, <1>1, <1>2 DEF TypeOK
<1>4. health'[c] # "HEALTHY"
  BY <1>2, <1>3
<1> HIDE DEF c, l
<1>5. \A e \in Dispatchers : /\ health'[e] = "HEALTHY" => health[e] = "HEALTHY"
                             /\ health'[e] = "STOPPED" <=> health[e] = "STOPPED"
                             /\ health'[e] = "FAILED" <=> health[e] = "FAILED"
  BY <1>3
<1>6. AdmissionInv'
  <2>1. \A a \in Actors : via[a] \in Dispatchers
    BY OfActor
  <2>2. \A j \in Closers : health'[Closes[j]] = "HEALTHY" => closer'[j] = "out"
    BY <1>2, <1>4, <1>5 DEF DInv, Protocol, AdmissionInv, c
  <2>3. \A j \in Closers : closer'[j] \in LateStates => closer[j] \in LateStates
    BY <1>2 DEF LateStates
  <2> QED BY <1>1, <1>5, <2>1, <2>2, <2>3 DEF DInv, Protocol, AdmissionInv
<1>7. WorkerInv'
  BY <1>1, <1>5 DEF DInv, Protocol, WorkerInv
<1>8. CloserInv'
  BY <1>1, <1>2, <1>5 DEF DInv, Protocol, CloserInv
<1> QED BY <1>1, <1>6, <1>7, <1>8, Still DEF Protocol

\* wait_for_clients passes when nobody is admitted any more.
LEMMA WaitStep ==
  ASSUME DInv, NEW k \in Closers, WaitForClients(k)
  PROVE  CountInv' /\ Protocol'
<1>0. TypeOK
  BY DEF DInv
<1>1. /\ closer[k] = "clients" /\ active_clients[Closes[k]] = 0 /\ CloserGoto(k, "enqueue")
      /\ UNCHANGED <<health, active_clients, queue, worker, stateVars, pc, dropped,
                     calls, delivered, fatal, refVars>>
  BY DEF WaitForClients
<1>2. /\ \A j \in Closers : closer'[j] = IF j = k THEN "enqueue" ELSE closer[j]
      /\ \A j \in Closers : Closes[j] \in Dispatchers
  BY <1>0, <1>1, CloserMoves
<1>3. Clients(Closes[k]) = {}
  BY <1>1, <1>2, ClientsFinite, FS_EmptySet DEF DInv, CountInv
<1>4. \A a \in Actors : via[a] = Closes[k] => pc[a] \notin AdmittedStates
  BY <1>3 DEF Clients, CountedStates
<1>5. AdmissionInv'
  <2>1. AdmissionInv
    BY DEF DInv, Protocol
  <2>2. health[Closes[k]] # "HEALTHY"
    BY <1>1, <2>1 DEF AdmissionInv
  <2> QED BY <1>1, <1>2, <1>4, <2>1, <2>2 DEF AdmissionInv
<1>6. WorkerInv' /\ CloserInv'
  BY <1>1, <1>2 DEF DInv, Protocol, WorkerInv, CloserInv
<1> QED BY <1>1, <1>5, <1>6, Still DEF Protocol

\* A closer past wait_for_clients moves on: nothing changes for the clients.
LEMMA LateMove ==
  ASSUME DInv, NEW k \in Closers, NEW l, CloserGoto(k, l),
         closer[k] \in LateStates \cup {"clients"},
         l \in LateStates => closer[k] \in LateStates,
         UNCHANGED <<health, stop_enqueued, pc, via>>
  PROVE  AdmissionInv'
<1>1. TypeOK /\ AdmissionInv
  BY DEF DInv, Protocol
<1>2. \A j \in Closers : closer'[j] = IF j = k THEN l ELSE closer[j]
  BY <1>1, CloserMoves
<1>3. health[Closes[k]] # "HEALTHY"
  BY <1>1 DEF AdmissionInv, LateStates
<1> QED BY <1>1, <1>2, <1>3 DEF AdmissionInv

\* The checks of enqueue_stop_once: one closer goes on to send.
LEMMA EnterStep ==
  ASSUME DInv, NEW k \in Closers, EnterEnqueue(k)
  PROVE  CountInv' /\ Protocol'
<1>0. TypeOK /\ CloserInv
  BY DEF DInv, Protocol
<1> DEFINE c == Closes[k]
<1>1. /\ closer[k] = "enqueue" /\ lock[c] = "free"
      /\ UNCHANGED <<health, active_clients, queue, worker, handle, stop_enqueued,
                     joining, pc, dropped, calls, delivered, fatal, refVars>>
  BY DEF EnterEnqueue
<1>2. PICK l \in {"joining", "out", "sending"} :
        /\ CloserGoto(k, l)
        /\ \/ l # "sending" /\ UNCHANGED lock
           \/ l = "sending" /\ lock' = [lock EXCEPT ![c] = k] /\ handle[c] /\ ~stop_enqueued[c]
  BY DEF EnterEnqueue
<1>3. /\ \A j \in Closers : closer'[j] = IF j = k THEN l ELSE closer[j]
      /\ \A j \in Closers : Closes[j] \in Dispatchers
  BY <1>0, <1>2, CloserMoves
<1>4. /\ l = "sending" => handle[c] /\ ~stop_enqueued[c]
      /\ \A e \in Dispatchers : lock'[e] = IF l = "sending" /\ e = c THEN k ELSE lock[e]
  <2>1. CASE l = "sending"
    <3>1. lock' = [lock EXCEPT ![c] = k] /\ handle[c] /\ ~stop_enqueued[c]
      BY <1>2, <2>1
    <3> QED BY <1>0, <2>1, <3>1 DEF TypeOK
  <2>2. CASE l # "sending"
    BY <1>2, <2>2
  <2> QED BY <2>1, <2>2
<1> HIDE DEF c
<1>5. \A j \in Closers : closer[j] = "sending" => Closes[j] # c
  BY <1>0, <1>1, DispatcherAssumption DEF CloserInv
<1>6. AdmissionInv'
  BY <1>1, <1>2, LateMove DEF LateStates
<1>7. WorkerInv'
  BY <1>1 DEF DInv, Protocol, WorkerInv
<1>8. CloserInv'
  <2>1. \A j \in Closers : closer'[j] = "sending" =>
          lock'[Closes[j]] = j /\ handle[Closes[j]] /\ ~stop_enqueued[Closes[j]]
    BY <1>0, <1>3, <1>4, <1>5 DEF CloserInv, c
  <2> QED BY <1>0, <1>1, <1>3, <2>1 DEF CloserInv
<1> QED BY <1>1, <1>6, <1>7, <1>8, Still DEF Protocol

\* The worker is there when Stop is sent.
LEMMA EnqueueWorks ==
  ASSUME DInv, NEW k \in Closers, EnqueueStop(k)
  PROVE  /\ closer[k] = "sending" /\ lock[Closes[k]] = k /\ handle[Closes[k]]
         /\ ~stop_enqueued[Closes[k]] /\ worker[Closes[k]] # "finished"
         /\ queue' = [queue EXCEPT ![Closes[k]] = Append(@, "stop")]
         /\ stop_enqueued' = [stop_enqueued EXCEPT ![Closes[k]] = TRUE]
         /\ lock' = [lock EXCEPT ![Closes[k]] = "free"] /\ CloserGoto(k, "joining")
         /\ UNCHANGED <<health, active_clients, worker, handle, joining, pc, dropped, calls,
                        delivered, fatal, refVars>>
<1>1. /\ closer[k] = "sending" /\ lock[Closes[k]] = k /\ handle[Closes[k]]
      /\ ~stop_enqueued[Closes[k]]
  BY DEF EnqueueStop, DInv, Protocol, CloserInv
<1>2. worker[Closes[k]] # "finished"
  BY <1>1, DispatcherAssumption DEF DInv, Protocol, WorkerInv
<1> QED BY <1>1, <1>2 DEF EnqueueStop

\* Stop is sent once, and behind everything.
LEMMA EnqueueStep ==
  ASSUME DInv, NEW k \in Closers, EnqueueStop(k)
  PROVE  CountInv' /\ Protocol'
<1>0. TypeOK
  BY DEF DInv
<1> DEFINE c == Closes[k]
<1>1. /\ closer[k] = "sending" /\ lock[c] = k /\ handle[c] /\ ~stop_enqueued[c]
      /\ worker[c] # "finished" /\ queue' = [queue EXCEPT ![c] = Append(@, "stop")]
      /\ stop_enqueued' = [stop_enqueued EXCEPT ![c] = TRUE]
      /\ lock' = [lock EXCEPT ![c] = "free"] /\ CloserGoto(k, "joining")
      /\ UNCHANGED <<health, active_clients, worker, handle, joining, pc, dropped, calls,
                     delivered, fatal, refVars>>
  BY EnqueueWorks
<1>2. /\ \A j \in Closers : closer'[j] = IF j = k THEN "joining" ELSE closer[j]
      /\ \A j \in Closers : Closes[j] \in Dispatchers
  BY <1>0, <1>1, CloserMoves
<1>3. /\ \A e \in Dispatchers : stop_enqueued'[e] = IF e = c THEN TRUE ELSE stop_enqueued[e]
      /\ \A e \in Dispatchers \ {c} : lock'[e] = lock[e]
  BY <1>0, <1>1 DEF TypeOK
<1>4. /\ Len(queue[c]) \in Nat /\ Len(queue'[c]) = Len(queue[c]) + 1
      /\ \A i \in 1..Len(queue[c]) : i \in 1..Len(queue'[c]) /\ queue'[c][i] = queue[c][i]
      /\ Len(queue'[c]) \in 1..Len(queue'[c]) /\ queue'[c][Len(queue'[c])] = "stop"
      /\ \A i \in 1..Len(queue'[c]) : i \in 1..Len(queue[c]) \/ i = Len(queue'[c])
      /\ \A e \in Dispatchers \ {c} : queue'[e] = queue[e]
  <2>1. "stop" \in Commands
    BY DEF Commands
  <2> QED BY <1>0, <1>1, <1>2, <2>1, Queued
<1> HIDE DEF c
<1>5. CountInv'
  BY <1>1 DEF DInv, CountInv, Clients
<1>6. AdmissionInv'
  <2>1. AdmissionInv /\ \A a \in Actors : via[a] \in Dispatchers
    BY OfActor DEF DInv, Protocol
  <2>2. health[c] # "HEALTHY" /\ \A a \in Actors : via[a] = c => pc[a] \notin AdmittedStates
    BY <1>1, <2>1 DEF AdmissionInv, LateStates, c
  <2>3. closer[k] \in LateStates
    BY <1>1 DEF LateStates
  <2>4. \A j \in Closers : /\ closer'[j] \in LateStates => closer[j] \in LateStates
                           /\ closer'[j] = "out" <=> closer[j] = "out"
    BY <1>1, <1>2, <2>3
  <2> QED BY <1>1, <1>3, <2>1, <2>2, <2>4 DEF AdmissionInv
<1>7. WorkerInv'
  BY <1>1, <1>3, <1>4 DEF DInv, Protocol, WorkerInv
<1>8. CloserInv'
  <2>1. CloserInv
    BY DEF DInv, Protocol
  <2>2. \A j \in Closers : closer'[j] = "sending" => Closes[j] # c
    BY <1>1, <1>2, <2>1 DEF CloserInv, c
  <2> QED BY <1>1, <1>2, <1>3, <2>1, <2>2 DEF CloserInv
<1>9. QueueInv'
  <2> SUFFICES ASSUME NEW e \in Dispatchers, NEW i \in 1..Len(queue'[e]), queue'[e][i] = "stop"
               PROVE  i = Len(queue'[e]) /\ stop_enqueued'[e]
    BY DEF QueueInv
  <2>1. QueueInv
    BY DEF DInv, Protocol
  <2>2. CASE e # c
    <3>1. queue'[e] = queue[e] /\ (stop_enqueued[e] => stop_enqueued'[e])
      BY <1>3, <1>4, <2>2
    <3>2. i \in 1..Len(queue[e]) /\ queue[e][i] = "stop"
      BY <3>1
    <3> QED BY <2>1, <3>1, <3>2 DEF QueueInv
  <2>3. CASE e = c
    <3>1. \A j \in 1..Len(queue[c]) : queue[c][j] # "stop"
      BY <1>1, <2>1, <2>3 DEF QueueInv
    <3> QED BY <1>3, <1>4, <2>3, <3>1
  <2> QED BY <2>2, <2>3
<1>10. \A a \in Actors : Accepted(a) => Accepted(a)'
  <2>0. delivered \subseteq delivered' /\ via' = via
    BY <1>1
  <2> SUFFICES ASSUME NEW a \in Actors, NEW i \in 1..Len(queue[via[a]]), queue[via[a]][i] = a
               PROVE  \E j \in 1..Len(queue'[via[a]]) : queue'[via[a]][j] = a
    BY <2>0 DEF Accepted
  <2>1. via[a] \in Dispatchers
    BY OfActor
  <2> QED BY <1>4, <2>1
<1>11. DeliveryInv'
  BY <1>1, <1>10 DEF DInv, Protocol, DeliveryInv
<1>12. GuardInv'
  <2>1. GuardInv
    BY DEF DInv, Protocol
  <2>2. \A h \in Holders : Guard(h) \in delivered' =>
           /\ h \in dropped
           /\ via[Lease(h)] = via[Guard(h)] /\ pc[Lease(h)] = "retired" => Lease(h) \in delivered'
    BY <1>1, <2>1 DEF GuardInv
  <2>3. \A h \in Holders, e \in Dispatchers : \A i \in 1..Len(queue'[e]) :
          queue'[e][i] = Guard(h) =>
            /\ h \in dropped /\ via[Guard(h)] = e
            /\ via[Lease(h)] = e /\ pc[Lease(h)] = "retired" =>
                 Lease(h) \in delivered' \/ \E j \in 1..(i - 1) : queue'[e][j] = Lease(h)
    <3> SUFFICES ASSUME NEW h \in Holders, NEW e \in Dispatchers, NEW i \in 1..Len(queue'[e]),
                        queue'[e][i] = Guard(h)
                 PROVE  /\ h \in dropped /\ via[Guard(h)] = e
                        /\ via[Lease(h)] = e /\ pc[Lease(h)] = "retired" =>
                             \/ Lease(h) \in delivered'
                             \/ \E j \in 1..(i - 1) : queue'[e][j] = Lease(h)
      OBVIOUS
    <3>1. Guard(h) # "stop"
      BY Names, DispatcherAssumption
    <3>2. i \in 1..Len(queue[e]) /\ queue[e][i] = Guard(h)
      BY <1>4, <3>1
    <3>3. \A j \in 1..(i - 1) : j \in 1..Len(queue[e]) /\ queue'[e][j] = queue[e][j]
      <4>1. CASE e # c
        BY <1>4, <4>1
      <4>2. CASE e = c
        BY <1>4, <3>2, <4>2
      <4> QED BY <4>1, <4>2
    <3>4. /\ h \in dropped /\ via[Guard(h)] = e
          /\ via[Lease(h)] = e /\ pc[Lease(h)] = "retired" =>
               Lease(h) \in delivered \/ \E j \in 1..(i - 1) : queue[e][j] = Lease(h)
      BY <2>1, <3>2 DEF GuardInv
    <3> QED BY <1>1, <3>3, <3>4
  <2> QED BY <1>1, <2>2, <2>3, GuardPlace
<1> QED BY <1>5, <1>6, <1>7, <1>8, <1>9, <1>11, <1>12 DEF Protocol

\* A closer learns how the close ended, or finds the thread finished and joins;
\* the worker is never unavailable to it.
LEMMA AwaitStep ==
  ASSUME DInv, NEW k \in Closers, AwaitHealth(k) \/ AwaitWorker(k)
  PROVE  CountInv' /\ Protocol'
<1>0. TypeOK /\ CloserInv
  BY DEF DInv, Protocol
<1> DEFINE c == Closes[k]
<1>1. /\ closer[k] \in {"joining", "checking", "locking"}
      /\ UNCHANGED <<health, active_clients, queue, worker, stop_enqueued, lock, pc,
                     dropped, calls, delivered, fatal, refVars>>
  BY DEF AwaitHealth, AwaitWorker
<1>2. c \in Dispatchers
  BY DispatcherAssumption
<1>3. handle[c] <=> ~joining[c]
  BY <1>0, <1>2 DEF CloserInv
<1>4. PICK l \in {"ok", "out", "checking", "locking", "joining", "joined"} :
        /\ CloserGoto(k, l)
        /\ \/ /\ l \in {"ok", "out", "checking", "locking", "joining"}
              /\ l = "ok" => health[c] = "STOPPED"
              /\ UNCHANGED <<joining, handle>>
           \/ /\ l = "joined" /\ lock[c] = "free" /\ worker[c] = "finished" /\ handle[c]
              /\ joining' = [joining EXCEPT ![c] = TRUE] /\ handle' = [handle EXCEPT ![c] = FALSE]
  <2>1. CASE AwaitHealth(k)
    BY <2>1 DEF AwaitHealth
  <2>2. CASE AwaitWorker(k)
    BY <1>3, <2>2 DEF AwaitWorker, TakeWorker
  <2> QED BY <2>1, <2>2
<1>5. /\ \A j \in Closers : closer'[j] = IF j = k THEN l ELSE closer[j]
      /\ \A j \in Closers : Closes[j] \in Dispatchers
  BY <1>0, <1>4, CloserMoves
<1>6. AdmissionInv'
  BY <1>1, <1>4, LateMove DEF LateStates
<1>7. WorkerInv'
  BY <1>1 DEF DInv, Protocol, WorkerInv
<1>8. CASE l # "joined"
  <2>1. CloserInv'
    BY <1>0, <1>1, <1>4, <1>5, <1>8 DEF CloserInv
  <2> QED BY <1>1, <1>6, <1>7, <2>1, Still DEF Protocol
<1>9. CASE l = "joined"
  <2>1. /\ \A e \in Dispatchers : joining'[e] = IF e = c THEN TRUE ELSE joining[e]
        /\ \A e \in Dispatchers : handle'[e] = IF e = c THEN FALSE ELSE handle[e]
        /\ worker[c] = "finished" /\ lock[c] = "free"
    <3>1. /\ lock[c] = "free" /\ worker[c] = "finished"
          /\ joining' = [joining EXCEPT ![c] = TRUE] /\ handle' = [handle EXCEPT ![c] = FALSE]
      BY <1>4, <1>9
    <3> QED BY <1>0, <3>1 DEF TypeOK
  <2>2. \A j \in Closers : closer[j] = "sending" => Closes[j] # c
    BY <1>0, <2>1, DispatcherAssumption DEF CloserInv
  <2> HIDE DEF c
  <2>3. \A e \in Dispatchers :
          /\ handle'[e] <=> ~joining'[e]
          /\ joining'[e] => worker[e] = "finished"
          /\ health[e] = "STOPPED" => joining'[e]
    BY <1>0, <2>1 DEF CloserInv
  <2>4. \A e \in Dispatchers : joining'[e] /\ health[e] # "STOPPED" =>
          \E j \in Closers : Closes[j] = e /\ closer'[j] = "joined"
    <3> SUFFICES ASSUME NEW e \in Dispatchers, joining'[e], health[e] # "STOPPED"
                 PROVE  \E j \in Closers : Closes[j] = e /\ closer'[j] = "joined"
      OBVIOUS
    <3>1. CASE e = c
      BY <1>5, <1>9, <3>1 DEF c
    <3>2. CASE e # c
      <4>1. joining[e]
        BY <2>1, <3>2
      <4>2. PICK j \in Closers : Closes[j] = e /\ closer[j] = "joined"
        BY <1>0, <4>1 DEF CloserInv
      <4> QED BY <1>1, <1>5, <4>2
    <3> QED BY <3>1, <3>2
  <2>5. \A j \in Closers : closer'[j] = "sending" =>
          lock[Closes[j]] = j /\ handle'[Closes[j]] /\ ~stop_enqueued[Closes[j]]
    <3> SUFFICES ASSUME NEW j \in Closers, closer'[j] = "sending"
                 PROVE  lock[Closes[j]] = j /\ handle'[Closes[j]] /\ ~stop_enqueued[Closes[j]]
      OBVIOUS
    <3>1. closer[j] = "sending"
      BY <1>5, <1>9
    <3>2. lock[Closes[j]] = j /\ handle[Closes[j]] /\ ~stop_enqueued[Closes[j]]
      BY <1>0, <3>1 DEF CloserInv
    <3> QED BY <1>5, <2>1, <2>2, <3>1, <3>2
  <2>6. /\ \A j \in Closers : closer'[j] = "joined" => joining'[Closes[j]]
        /\ \A j \in Closers : closer'[j] = "ok" => health[Closes[j]] = "STOPPED"
    <3>1. \A j \in Closers : j # k /\ closer[j] = "joined" => joining'[Closes[j]]
      BY <1>0, <1>5, <2>1 DEF CloserInv
    <3>2. joining'[Closes[k]]
      BY <1>5, <2>1 DEF c
    <3>3. \A j \in Closers : closer'[j] = "ok" => health[Closes[j]] = "STOPPED"
      BY <1>0, <1>5, <1>9 DEF CloserInv
    <3> QED BY <1>5, <3>1, <3>2, <3>3
  <2>7. CloserInv'
    BY <1>1, <2>3, <2>4, <2>5, <2>6 DEF CloserInv
  <2> QED BY <1>1, <1>6, <1>7, <2>7, Still DEF Protocol
<1> QED BY <1>8, <1>9

\* The closer that joined publishes STOPPED; a waiting one may give up.
LEMMA EndStep ==
  ASSUME DInv, NEW k \in Closers, PublishStopped(k) \/ CloseTimeout(k)
  PROVE  CountInv' /\ Protocol'
<1>0. TypeOK /\ CloserInv
  BY DEF DInv, Protocol
<1> DEFINE c == Closes[k]
<1>1. UNCHANGED <<active_clients, queue, worker, stateVars, pc, dropped, delivered, fatal,
                  refVars>>
  BY DEF PublishStopped, CloseTimeout
<1>2. CASE PublishStopped(k)
  <2>1. /\ closer[k] = "joined" /\ worker[c] = "finished" /\ CloserGoto(k, "ok")
        /\ health' = [health EXCEPT ![c] = "STOPPED"]
    BY <1>2 DEF PublishStopped
  <2>2. /\ \A j \in Closers : closer'[j] = IF j = k THEN "ok" ELSE closer[j]
        /\ \A j \in Closers : Closes[j] \in Dispatchers
    BY <1>0, <2>1, CloserMoves
  <2>3. \A e \in Dispatchers : health'[e] = IF e = c THEN "STOPPED" ELSE health[e]
    BY <1>0, <2>1 DEF TypeOK
  <2>4. joining[c] /\ health[c] # "HEALTHY" /\ health[c] # "FAILED"
    BY <2>1, <2>2 DEF DInv, Protocol, CloserInv, AdmissionInv, WorkerInv
  <2> HIDE DEF c
  <2>5. AdmissionInv'
    <3>1. AdmissionInv /\ \A a \in Actors : via[a] \in Dispatchers
      BY OfActor DEF DInv, Protocol
    <3>2. closer[k] \in LateStates
      BY <2>1 DEF LateStates
    <3>3. \A j \in Closers : /\ closer'[j] \in LateStates => closer[j] \in LateStates
                             /\ closer'[j] = "out" <=> closer[j] = "out"
      BY <2>1, <2>2, <3>2
    <3>4. \A e \in Dispatchers : health'[e] = "HEALTHY" <=> health[e] = "HEALTHY"
      BY <2>3, <2>4
    <3> QED BY <1>1, <2>2, <3>1, <3>3, <3>4 DEF AdmissionInv
  <2>6. WorkerInv'
    BY <1>1, <2>3, <2>4 DEF DInv, Protocol, WorkerInv
  <2>7. CloserInv'
    BY <1>0, <1>1, <2>2, <2>3, <2>4 DEF CloserInv, c
  <2> QED BY <1>1, <2>5, <2>6, <2>7, Still DEF Protocol
<1>3. CASE CloseTimeout(k)
  <2>1. closer[k] \in {"clients", "enqueue", "locking"} /\ UNCHANGED health
        /\ CloserGoto(k, "out")
    BY <1>3 DEF CloseTimeout
  <2>2. \A j \in Closers : closer'[j] = IF j = k THEN "out" ELSE closer[j]
    BY <1>0, <2>1, CloserMoves
  <2>3. AdmissionInv'
    BY <1>1, <2>1, LateMove DEF LateStates
  <2>4. WorkerInv'
    BY <1>1, <2>1 DEF DInv, Protocol, WorkerInv
  <2>5. CloserInv'
    BY <1>0, <1>1, <2>1, <2>2 DEF CloserInv
  <2> QED BY <1>1, <2>3, <2>4, <2>5, Still DEF Protocol
<1> QED BY <1>2, <1>3

-----------------------------------------------------------------------------
(* References, and the ends of the VM.                                     *)

\* A client, guard or call of somebody who has a reference, or an owner's.
LEMMA ClientRefers ==
  ASSUME DInv, NEW a \in Actors, NEW l, Goto(a, l), via[a] \in owned \/ Refers(a),
         dropped' = dropped \/ (a[1] = "guard" /\ dropped' = dropped \cup {a[2]}),
         UNCHANGED <<health, closer, refVars>>
  PROVE  RefInv'
<1> SUFFICES ASSUME NEW d \in freed PROVE health[d] = "STOPPED" /\ ~Referenced(d)'
  BY DEF RefInv
<1>1. health[d] = "STOPPED" /\ ~Referenced(d)
  BY DEF DInv, RefInv
<1>2. via[a] # d
  BY <1>1 DEF Referenced
<1>3. \A b \in Actors : b # a => Refers(b)' = Refers(b)
  <2> SUFFICES ASSUME NEW b \in Actors, b # a PROVE Refers(b)' = Refers(b)
    OBVIOUS
  <2>1. pc'[b] = pc[b]
    BY DEF DInv, TypeOK, Goto
  <2>2. b[1] = "guard" /\ b[2] \in dropped' <=> b[1] = "guard" /\ b[2] \in dropped
    BY Names
  <2> QED BY <2>1, <2>2 DEF Refers
<1> QED BY <1>1, <1>2, <1>3 DEF Referenced, Calling

LEMMA CloserRefers ==
  ASSUME DInv, NEW k \in Closers, NEW l, CloserGoto(k, l), Closes[k] \in owned \/ Calling(k),
         \A e \in Dispatchers \ {Closes[k]} : health'[e] = health[e],
         UNCHANGED <<pc, dropped, refVars>>
  PROVE  RefInv'
<1> SUFFICES ASSUME NEW d \in freed PROVE health'[d] = "STOPPED" /\ ~Referenced(d)'
  BY DEF RefInv
<1>1. health[d] = "STOPPED" /\ ~Referenced(d) /\ d \in Dispatchers
  BY DEF DInv, RefInv, TypeOK
<1>2. Closes[k] # d
  BY <1>1 DEF Referenced
<1>3. \A j \in Closers : j # k => closer'[j] = closer[j]
  BY DEF DInv, TypeOK, CloserGoto
<1> QED BY <1>1, <1>2, <1>3 DEF Referenced, Refers, Calling

\* Clients, guards and leases.
LEMMA ClientEnds ==
  ASSUME DInv, NEW a \in Actors, ClientStep(a)
  PROVE  RefInv' /\ FatalInv'
<1>1. fatal' = "none" /\ UNCHANGED <<health, closer, refVars, dropped>> /\ \E l : Goto(a, l)
  <2>1. CASE LoadHealth(a) \/ CountClient(a) \/ RecheckHealth(a) \/ FinishClient(a)
    BY <2>1 DEF LoadHealth, CountClient, RecheckHealth, FinishClient, Alive
  <2>2. CASE ReleaseClient(a)
    BY <2>2, ReleaseWorks DEF ReleaseClient, Alive
  <2>3. CASE Dispatch(a)
    BY <2>3, DispatchWorks DEF Dispatch, Alive
  <2> QED BY <2>1, <2>2, <2>3 DEF ClientStep
<1>2. via[a] \in owned \/ Refers(a)
  <2>1. CASE LoadHealth(a)
    BY <2>1, Names DEF LoadHealth, MayStart, Refers
  <2>2. CASE ~LoadHealth(a)
    <3>1. pc[a] \in {"loaded", "counted", "backout", "finished", "sent", "held", "claimed"}
      BY <2>2 DEF ClientStep, CountClient, RecheckHealth, FinishClient, ReleaseClient, Dispatch
    <3> QED BY <3>1 DEF Refers
  <2> QED BY <2>1, <2>2
<1> QED BY <1>1, <1>2, ClientRefers DEF FatalInv

LEMMA HolderEnds ==
  ASSUME DInv, NEW h \in Holders, Claim(h) \/ DropGuard(h) \/ AbandonLate(h)
  PROVE  RefInv' /\ FatalInv'
<1>0. /\ Guard(h) \in Actors /\ Lease(h) \in Actors
      /\ Guard(h)[1] = "guard" /\ Lease(h)[1] = "lease" /\ Guard(h)[2] = h
  BY Names
<1>1. CASE Claim(h)
  <2>1. pc[Lease(h)] = "held" /\ Goto(Lease(h), "claimed") /\ fatal' = "none"
        /\ UNCHANGED <<health, closer, refVars, dropped>>
    BY <1>1 DEF Claim, Alive
  <2>2. Refers(Lease(h))
    BY <1>0, <2>1 DEF Refers
  <2> QED BY <1>0, <2>1, <2>2, ClientRefers DEF FatalInv
<1>2. CASE DropGuard(h)
  <2>1. pc[Guard(h)] = "live" /\ Goto(Guard(h), "idle") /\ fatal' = "none"
        /\ UNCHANGED <<health, closer, refVars>> /\ dropped' = dropped \cup {Guard(h)[2]}
    BY <1>0, <1>2 DEF DropGuard, Alive
  <2>2. Refers(Guard(h))
    BY <1>0, <2>1 DEF Refers
  <2> QED BY <1>0, <2>1, <2>2, ClientRefers DEF FatalInv
<1>3. CASE AbandonLate(h) /\ UNCHANGED fatal
  <2>1. pc[Guard(h)] = "refused" /\ h \in dropped /\ Goto(Guard(h), "inert") /\ fatal' = "none"
        /\ UNCHANGED <<health, closer, refVars, dropped>>
    BY <1>3 DEF AbandonLate, Alive
  <2>2. Refers(Guard(h))
    BY <1>0, <2>1 DEF Refers
  <2> QED BY <1>0, <2>1, <2>2, ClientRefers DEF FatalInv
<1>4. CASE AbandonLate(h) /\ ~UNCHANGED fatal
  <2>1. /\ pc[Guard(h)] = "refused" /\ health[via[Guard(h)]] \notin {"STOPPING", "STOPPED"}
        /\ UNCHANGED <<pc, health, closer, dropped, refVars>>
    BY <1>4 DEF AbandonLate
  <2>2. via[Guard(h)] \in Dispatchers /\ health[via[Guard(h)]] # "HEALTHY"
    BY <1>0, <2>1, OfActor
  <2>3. health'[via[Guard(h)]] = "FAILED"
    BY <2>1, <2>2 DEF DInv, TypeOK
  <2>4. FatalInv'
    BY <2>2, <2>3 DEF FatalInv
  <2>5. RefInv'
    BY <2>1 DEF DInv, RefInv, Referenced, Refers, Calling
  <2> QED BY <2>4, <2>5
<1> QED BY <1>1, <1>2, <1>3, <1>4

\* Workers, which a dispatcher that was freed does not have, and the drop.
LEMMA DispatcherEnds ==
  ASSUME DInv, NEW d \in Dispatchers, WorkerStep(d) \/ Disown(d) \/ DropDispatcher(d)
  PROVE  RefInv' /\ FatalInv'
<1>0. TypeOK /\ RefInv /\ WorkerInv /\ CloserInv /\ freed \subseteq Dispatchers
  BY DEF DInv, Protocol, TypeOK
<1>1. UNCHANGED <<pc, closer, dropped, via>> /\ fatal = "none"
  BY DEF WorkerStep, WorkerSend, WorkerStop, WorkerPanic, WorkerAbort, Disown, DropDispatcher,
         Alive
<1>2. owned' \subseteq owned
  BY DEF WorkerStep, WorkerSend, WorkerStop, WorkerPanic, WorkerAbort, Disown, DropDispatcher
<1>3. \A e : Referenced(e)' => Referenced(e)
  BY <1>1, <1>2 DEF Referenced, Refers, Calling
<1>4. CASE WorkerPanic(d)
  <2>1. worker[d] = "running" /\ UNCHANGED <<fatal, freed>>
        /\ health' = [health EXCEPT ![d] = "FAILED"]
    BY <1>4 DEF WorkerPanic
  <2>2. d \notin freed
    BY <1>0, <2>1 DEF RefInv, CloserInv
  <2>3. RefInv'
    BY <1>0, <1>3, <2>1, <2>2 DEF RefInv, TypeOK
  <2> QED BY <1>1, <2>1, <2>3 DEF FatalInv
<1>5. CASE WorkerAbort(d)
  <2>1. health[d] = "FAILED" /\ UNCHANGED <<health, freed>>
    BY <1>0, <1>5 DEF WorkerAbort, WorkerInv
  <2>2. RefInv'
    BY <1>0, <1>3, <2>1 DEF RefInv
  <2> QED BY <2>1, <2>2 DEF FatalInv
<1>6. CASE WorkerSend(d) \/ WorkerStop(d) \/ Disown(d)
  <2>1. UNCHANGED <<health, fatal, freed>>
    BY <1>6 DEF WorkerSend, WorkerStop, Disown
  <2>2. RefInv'
    BY <1>0, <1>3, <2>1 DEF RefInv
  <2> QED BY <1>1, <2>1, <2>2 DEF FatalInv
<1>7. CASE DropDispatcher(d)
  <2>1. ~Referenced(d) /\ UNCHANGED health
    BY <1>7 DEF DropDispatcher
  <2>2. \/ health[d] = "STOPPED" /\ freed' = freed \cup {d} /\ UNCHANGED fatal
        \/ health[d] # "STOPPED" /\ fatal' = "unjoined" /\ UNCHANGED freed
    BY <1>7 DEF DropDispatcher
  <2>3. RefInv'
    BY <1>0, <1>3, <2>1, <2>2 DEF RefInv
  <2>4. FatalInv'
    <3>1. ~Referenced(d)'
      BY <1>3, <2>1
    <3> QED BY <1>1, <2>1, <2>2, <3>1 DEF FatalInv
  <2> QED BY <2>3, <2>4
<1> QED BY <1>4, <1>5, <1>6, <1>7 DEF WorkerStep

LEMMA CloserEnds ==
  ASSUME DInv, NEW k \in Closers, BeginClose(k) \/ CloserStep(k) \/ CloseTimeout(k)
  PROVE  RefInv' /\ FatalInv'
<1>0. TypeOK /\ Closes[k] \in Dispatchers
  BY DispatcherAssumption DEF DInv
<1>1. fatal' = "none"
  <2>1. CASE EnqueueStop(k)
    BY <2>1, EnqueueWorks DEF EnqueueStop, Alive
  <2>2. CASE ~EnqueueStop(k)
    BY <2>2 DEF BeginClose, CloserStep, CloseTimeout, WaitForClients, EnterEnqueue, AwaitHealth,
                AwaitWorker, PublishStopped, Alive
  <2> QED BY <2>1, <2>2
<1>2. UNCHANGED <<pc, dropped, refVars>>
  BY DEF BeginClose, CloserStep, CloseTimeout, WaitForClients, EnterEnqueue, EnqueueStop,
         AwaitHealth, AwaitWorker, PublishStopped
<1>3. \E l : CloserGoto(k, l)
  <2>1. CASE EnqueueStop(k)
    BY <2>1, EnqueueWorks
  <2>2. CASE ~EnqueueStop(k)
    BY <2>2 DEF BeginClose, CloserStep, CloseTimeout, WaitForClients, EnterEnqueue, AwaitHealth,
                AwaitWorker, PublishStopped
  <2> QED BY <2>1, <2>2
<1>4. Closes[k] \in owned \/ Calling(k)
  BY DEF BeginClose, CloserStep, CloseTimeout, WaitForClients, EnterEnqueue, EnqueueStop,
         AwaitHealth, AwaitWorker, PublishStopped, Calling
<1>5. \A e \in Dispatchers \ {Closes[k]} : health'[e] = health[e]
  <2>1. CASE BeginClose(k)
    BY <1>0, <2>1 DEF BeginClose, TypeOK
  <2>2. CASE PublishStopped(k)
    BY <1>0, <2>2 DEF PublishStopped, TypeOK
  <2>3. CASE ~BeginClose(k) /\ ~PublishStopped(k)
    BY <2>3 DEF CloserStep, CloseTimeout, WaitForClients, EnterEnqueue, EnqueueStop,
                AwaitHealth, AwaitWorker
  <2> QED BY <2>1, <2>2, <2>3
<1> QED BY <1>1, <1>2, <1>3, <1>4, <1>5, CloserRefers DEF FatalInv

-----------------------------------------------------------------------------
(* The invariant holds, and the properties follow.                         *)

\* Nobody is a client in an initial state.
LEMMA DInvInit == Init => DInv
<1> SUFFICES ASSUME Init PROVE DInv
  OBVIOUS
<1>1. /\ \A d \in Dispatchers : queue[d] = <<>> /\ queue[d] \in Seq(Commands) /\ Len(queue[d]) = 0
      /\ queue \in [Dispatchers -> Seq(Commands)]
  BY EmptySeq DEF Init
<1>2. \A a \in Actors : pc[a] \in {"absent", "idle"} /\ (a[1] = "lease" => pc[a] = "idle")
  BY DEF Init
<1>3. \A d \in Dispatchers : \A i \in 1..Len(queue[d]) : FALSE
  BY <1>1
<1>4. TypeOK
  <2>1. calls \in [Closers -> 0..MaxCalls]
    <3>1. 0 \in 0..MaxCalls
      BY DispatcherAssumption
    <3> QED BY <3>1 DEF Init
  <2>2. pc \in [Actors -> ClientStates]
    BY DEF Init, ClientStates
  <2> QED BY <1>1, <2>1, <2>2 DEF Init, TypeOK, CloserStates
<1>5. CountInv
  <2>1. \A d \in Dispatchers : Clients(d) = {}
    BY <1>2 DEF Clients, CountedStates, AdmittedStates
  <2> QED BY <2>1, FS_EmptySet DEF Init, CountInv
<1>6. AdmissionInv
  <2>1. \A a \in Actors : via[a] \in Dispatchers
    BY DEF Init
  <2> QED BY <1>2, <2>1 DEF Init, AdmissionInv, AdmittedStates
<1>7. WorkerInv /\ CloserInv
  BY DEF Init, WorkerInv, CloserInv
<1>8. QueueInv
  BY <1>3 DEF QueueInv
<1>9. DeliveryInv
  BY <1>2 DEF DeliveryInv
<1>10. GuardInv
  BY <1>2, <1>3, Names DEF Init, GuardInv
<1>11. RefInv /\ FatalInv
  BY DEF Init, RefInv, FatalInv
<1> QED BY <1>4, <1>5, <1>6, <1>7, <1>8, <1>9, <1>10, <1>11 DEF DInv, Protocol

\* Every step keeps the invariant.
LEMMA DInvStep == DInv /\ [Next]_vars => DInv'
<1> SUFFICES ASSUME DInv, [Next]_vars PROVE CountInv' /\ Protocol' /\ RefInv' /\ FatalInv'
  BY TypeStep DEF DInv
<1>1. CASE UNCHANGED vars
  <2>1. AdmissionInv' /\ WorkerInv' /\ CloserInv'
    BY <1>1, Idle DEF vars, DInv, Protocol, WorkerInv, CloserInv
  <2>2. UNCHANGED <<pc, active_clients, queue, stop_enqueued, delivered, dropped, via>>
    BY <1>1 DEF vars
  <2>3. RefInv'
    BY <1>1 DEF vars, DInv, RefInv, Referenced, Refers, Calling
  <2>4. FatalInv'
    BY <1>1 DEF vars, DInv, FatalInv, Referenced, Refers, Calling
  <2> QED BY <2>1, <2>2, <2>3, <2>4, Still DEF Protocol
<1>2. ASSUME NEW a \in Actors, ClientStep(a)
      PROVE  CountInv' /\ Protocol' /\ RefInv' /\ FatalInv'
  BY <1>2, PreparationStep, ReleaseStep, DispatchStep, ClientEnds DEF ClientStep
<1>3. ASSUME NEW h \in Holders, Claim(h) \/ DropGuard(h) \/ AbandonLate(h)
      PROVE  CountInv' /\ Protocol' /\ RefInv' /\ FatalInv'
  BY <1>3, HolderStep, HolderEnds
<1>4. ASSUME NEW d \in Dispatchers, WorkerStep(d) \/ Disown(d) \/ DropDispatcher(d)
      PROVE  CountInv' /\ Protocol' /\ RefInv' /\ FatalInv'
  BY <1>4, SendStep, StopStep, PanicStep, ReferenceStep, DispatcherEnds DEF WorkerStep
<1>5. ASSUME NEW k \in Closers, BeginClose(k) \/ CloserStep(k) \/ CloseTimeout(k)
      PROVE  CountInv' /\ Protocol' /\ RefInv' /\ FatalInv'
  BY <1>5, BeginStep, WaitStep, EnterStep, EnqueueStep, AwaitStep, EndStep, CloserEnds
     DEF CloserStep
<1> QED BY <1>1, <1>2, <1>3, <1>4, <1>5 DEF Next

LEMMA Inductive == Spec => []DInv
BY DInvInit, DInvStep, PTL DEF Spec

\* "Stops admission, waits for all prepared/claimed clients, drains the FIFO,
\* and joins the worker" (close_and_join): nobody is admitted and nothing
\* queued behind Stop, and a close that returned Ok found everything handled.
THEOREM CloseAlwaysComplete == Spec => []CloseIsComplete
<1>1. DInv => CloseIsComplete
  <2> SUFFICES ASSUME DInv PROVE CloseIsComplete
    OBVIOUS
  <2>0. AdmissionInv /\ WorkerInv /\ QueueInv /\ CloserInv /\ DeliveryInv
    BY DEF DInv, Protocol
  <2> SUFFICES ASSUME NEW d \in Dispatchers
               PROVE  /\ \A i \in 1..Len(queue[d]) : queue[d][i] = "stop" => i = Len(queue[d])
                      /\ stop_enqueued[d] => Admitted(d) = {}
                      /\ health[d] = "STOPPED" =>
                           /\ worker[d] = "finished" /\ ~handle[d] /\ stop_enqueued[d]
                           /\ queue[d] = <<>>
                           /\ \A a \in Actors : via[a] = d /\ pc[a] = "retired" => a \in delivered
    BY <2>0 DEF CloseIsComplete, CloserInv
  <2>1. \A i \in 1..Len(queue[d]) : queue[d][i] = "stop" => i = Len(queue[d])
    BY <2>0 DEF QueueInv
  <2>2. stop_enqueued[d] => Admitted(d) = {}
    BY <2>0 DEF AdmissionInv, Admitted, AdmittedStates
  <2>3. health[d] = "STOPPED" =>
          worker[d] = "finished" /\ ~handle[d] /\ stop_enqueued[d] /\ queue[d] = <<>>
    BY <2>0 DEF CloserInv, WorkerInv
  <2>4. ASSUME queue[d] = <<>>, NEW a \in Actors, via[a] = d, pc[a] = "retired"
        PROVE  a \in delivered
    <3>1. \A i \in 1..Len(queue[d]) : FALSE
      BY <2>4, EmptySeq
    <3> QED BY <2>0, <2>4, <3>1 DEF DeliveryInv, Accepted
  <2> QED BY <2>1, <2>2, <2>3, <2>4
<1> QED BY <1>1, Inductive, PTL

\* "Dropping the last reference before an explicit join is fatal": a dispatcher
\* that was freed has no worker, no command, no client and nobody who could
\* reach it (Drop for ReleaseDispatcher).
THEOREM FreedAlwaysJoined == Spec => []FreedAfterJoin
<1>1. DInv => FreedAfterJoin
  <2> SUFFICES ASSUME DInv, NEW d \in freed
               PROVE  /\ worker[d] = "finished" /\ ~handle[d] /\ queue[d] = <<>>
                      /\ Counted(d) = {} /\ ~Referenced(d)
    BY DEF FreedAfterJoin
  <2>1. health[d] = "STOPPED" /\ ~Referenced(d) /\ d \in Dispatchers
    BY DEF DInv, RefInv, TypeOK
  <2>2. worker[d] = "finished" /\ ~handle[d] /\ queue[d] = <<>>
    BY <2>1 DEF DInv, Protocol, CloserInv, WorkerInv
  <2>3. Counted(d) = {}
    BY <2>1 DEF Referenced, Refers, Counted, Admitted
  <2> QED BY <2>1, <2>2, <2>3
<1> QED BY <1>1, Inductive, PTL

\* The client count of every dispatcher is exact and one closer joins; and
\* fatal_dispatcher_corruption is reached only if a worker panicked or if an
\* owner let go a dispatcher that was not joined and that nobody else refers to
\* (acquire_client, release_client, enqueue_stop_once,
\* wait_for_worker_exit_and_join, Drop for ReleaseDispatcher).
THEOREM NeverCorrupted == Spec => []NoCorruption
<1>1. DInv /\ FreedAfterJoin => NoCorruption
  <2> SUFFICES ASSUME DInv, FreedAfterJoin PROVE NoCorruption
    OBVIOUS
  <2>1. \A d \in Dispatchers : Clients(d) = Counted(d)
    BY DEF Clients, Admitted, Counted, CountedStates, AdmittedStates
  <2>2. \A d \in Dispatchers : active_clients[d] = Cardinality(Counted(d))
    BY <2>1 DEF DInv, CountInv
  <2>3. \A d \in Dispatchers :
          ~handle[d] => /\ joining[d]
                        /\ health[d] # "STOPPED" =>
                             \E k \in Closers : Closes[k] = d /\ closer[k] = "joined"
    BY DEF DInv, Protocol, CloserInv
  <2> QED BY <2>2, <2>3 DEF NoCorruption, DInv, FatalInv
<1> QED BY <1>1, Inductive, FreedAlwaysJoined, PTL

\* When the destructor of a guard begins, the release of its claimed lease is
\* with the worker that delivers it, whichever dispatchers the two were made
\* with; if it is one and the same, the owner hears of the release first
\* (dispatch_release, GuardKeepalive).
THEOREM ReleaseFirst == Spec => []ReleaseBeforeAbandonment
<1>1. DInv => ReleaseBeforeAbandonment
  <2> SUFFICES ASSUME DInv, NEW h \in Holders, pc[Lease(h)] \in {"claimed", "sent", "retired"}
               PROVE  /\ h \in dropped => Accepted(Lease(h))
                      /\ Guard(h) \in delivered /\ via[Guard(h)] = via[Lease(h)] =>
                           Lease(h) \in delivered
    BY DEF ReleaseBeforeAbandonment
  <2>1. h \in dropped => pc[Lease(h)] = "retired"
    BY DEF DInv, Protocol, GuardInv, NotKeptStates
  <2>2. h \in dropped => Accepted(Lease(h))
    BY <2>1, Names DEF DInv, Protocol, DeliveryInv
  <2>3. Guard(h) \in delivered => h \in dropped
    BY DEF DInv, Protocol, GuardInv
  <2>4. Guard(h) \in delivered /\ via[Guard(h)] = via[Lease(h)] => Lease(h) \in delivered
    BY <2>1, <2>3 DEF DInv, Protocol, GuardInv
  <2> QED BY <2>2, <2>4
<1> QED BY <1>1, Inductive, PTL
=============================================================================
