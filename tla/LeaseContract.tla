---------------------------- MODULE LeaseContract ----------------------------
(***************************************************************************)
(* What a lease owner promises to producers and consumers, without its     *)
(* handshakes, queue, executor and timers.  The owner promises capacity,   *)
(* takes a token over, lets existing holders be shared while it is open,   *)
(* returns the buffer of a token only after its last holder is gone, and   *)
(* stops by itself as soon as it is closed and empty.  LeaseOwner is shown *)
(* to implement this specification.                                        *)
(***************************************************************************)
EXTENDS Integers, FiniteSets

CONSTANTS Tokens, Holders, MaxActive

VARIABLES
  process,    \* "up", "stopped" (by itself) or "crashed"
  closed,     \* no new promises and no new holders
  promised,   \* tokens whose capacity is reserved
  phase,      \* "outside", "live", "retiring" or "gone"
  held,       \* the holders of each token
  freed       \* tokens whose buffer may be back with the producer

cvars == <<process, closed, promised, phase, held, freed>>

Outstanding == {t \in Tokens : phase[t] \in {"live", "retiring"}}

Init ==
  /\ process = "up" /\ closed = FALSE
  /\ promised = {} /\ freed = {}
  /\ phase = [t \in Tokens |-> "outside"]
  /\ held = [t \in Tokens |-> {}]

\* The owner stops with the step that leaves it closed and empty.
StopWhenEmpty ==
  process' = IF closed' /\ promised' = {} /\ Outstanding' = {}
             THEN "stopped" ELSE process

Promise(t) ==
  /\ process = "up" /\ ~closed
  /\ t \notin promised /\ phase[t] = "outside"
  /\ Cardinality(promised) + Cardinality(Outstanding) < MaxActive
  /\ promised' = promised \cup {t}
  /\ UNCHANGED <<process, closed, phase, held, freed>>

Withdraw(t) ==
  /\ process = "up" /\ t \in promised
  /\ promised' = promised \ {t}
  /\ UNCHANGED <<closed, phase, held, freed>>
  /\ StopWhenEmpty

\* A promised token is taken over, even after the owner was closed.
Admit(t) ==
  /\ process = "up" /\ t \in promised
  /\ promised' = promised \ {t}
  /\ phase' = [phase EXCEPT ![t] = "live"]
  /\ held' = [held EXCEPT ![t] = {t}]
  /\ UNCHANGED <<process, closed, freed>>

\* A promised token is taken over only to be given back.
Decline(t) ==
  /\ process = "up" /\ t \in promised
  /\ promised' = promised \ {t}
  /\ phase' = [phase EXCEPT ![t] = "retiring"]
  /\ UNCHANGED <<process, closed, held, freed>>

Share(t, h) ==
  /\ process = "up" /\ ~closed
  /\ phase[t] = "live" /\ h \notin held[t]
  /\ held' = [held EXCEPT ![t] = @ \cup {h}]
  /\ UNCHANGED <<process, closed, promised, phase, freed>>

\* Some holders are gone; when the last one is, the token retires.
Drop(t, S) ==
  /\ process = "up" /\ phase[t] = "live"
  /\ S # {} /\ S \subseteq held[t]
  /\ held' = [held EXCEPT ![t] = @ \ S]
  /\ phase' = [phase EXCEPT ![t] = IF held[t] = S THEN "retiring" ELSE @]
  /\ UNCHANGED <<process, closed, promised, freed>>

\* The buffer goes back; a failed attempt may be repeated, also by work the
\* owner left in flight when it died.
Free(t) ==
  /\ phase[t] = "retiring"
  /\ freed' = freed \cup {t}
  /\ UNCHANGED <<process, closed, promised, phase, held>>

Retire(t) ==
  /\ process = "up" /\ phase[t] = "retiring" /\ t \in freed
  /\ phase' = [phase EXCEPT ![t] = "gone"]
  /\ UNCHANGED <<closed, promised, held, freed>>
  /\ StopWhenEmpty

Shut ==
  /\ process = "up"
  /\ closed' = TRUE
  /\ UNCHANGED <<promised, phase, held, freed>>
  /\ StopWhenEmpty

Crash ==
  /\ process = "up" /\ process' = "crashed"
  /\ UNCHANGED <<closed, promised, phase, held, freed>>

Next ==
  \/ \E t \in Tokens :
        Promise(t) \/ Withdraw(t) \/ Admit(t) \/ Decline(t) \/ Free(t) \/ Retire(t)
  \/ \E t \in Tokens, h \in Holders : Share(t, h)
  \/ \E t \in Tokens : \E S \in SUBSET Holders : Drop(t, S)
  \/ Shut \/ Crash

Spec == Init /\ [][Next]_cvars
=============================================================================
