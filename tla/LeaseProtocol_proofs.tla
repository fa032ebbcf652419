----------------------- MODULE LeaseProtocol_proofs -------------------------
(***************************************************************************)
(* What clients, their messages, the guards and the owner know of each     *)
(* other.  The invariant PInv ties a call's state to the replies it was    *)
(* sent, each message on its way to the state of the call it speaks for,   *)
(* each lease in hand to a registered holder, and each holder to a lease,  *)
(* an open call or the message that takes it back.  With it every step of  *)
(* the protocol is a step of LeaseOwner, whose invariants are used here,   *)
(* and the safety properties of LeaseProtocol follow.                      *)
(*                                                                         *)
(* A step of the owner keeps the invariant when it is honest (HonestStep): *)
(* the handler that takes a message does what the message asks, and every  *)
(* other step takes no holder from an open call.  A step of a client keeps *)
(* it by what the client knows when it acts (ReturnSafe and the lemmas     *)
(* before and after it).                                                   *)
(***************************************************************************)
EXTENDS LeaseProtocol, LeaseOwner_work

-----------------------------------------------------------------------------
(* Channels.                                                                 *)

\* The lease of a holder.
LeaseOf(h) == IF h \in Tokens THEN h ELSE target[h]

ReserveMsg(t)           == Message("reserve", t, None, t)
CommitMsg(t)            == Message("commit", t, None, t)
CancelReservationMsg(t) == Message("cancel_reservation", t, None, t)
ConfirmIssueMsg(t)      == Message("confirm_issue", t, None, t)
CancelIssueMsg(t)       == Message("cancel_issue", t, None, t)
RetainMsg(t, h)         == Message("retain", t, h, h)
ConfirmRetainMsg(t, h)  == Message("confirm_retain", t, h, h)
CancelRetainMsg(t, h)   == Message("cancel_retain", t, h, h)
ReleaseMsg(t, h)        == Message("release", t, h, None)
DrainMsg(c)             == Message("drain", None, None, c)
CancelDrainMsg(c)       == Message("cancel_drain", None, None, c)

Messages ==
  [kind : {"reserve", "commit", "cancel_reservation", "confirm_issue", "cancel_issue",
           "retain", "confirm_retain", "cancel_retain", "release", "drain",
           "cancel_drain", "down"},
   token : Tokens \cup {None}, holder : Holders \cup {None},
   request : Requests \cup {None}]

InChan(p, m)      == \E i \in 1..Len(chan[p]) : chan[p][i] = m
Once(p, m)        == \A i, j \in 1..Len(chan[p]) : chan[p][i] = m /\ chan[p][j] = m => i = j
Followed(p, m, n) == \A i \in 1..Len(chan[p]) : chan[p][i] = m =>
                        \E j \in 1..Len(chan[p]) : i < j /\ chan[p][j] = n

\* Nothing follows the client's death.
DownLast(p) == \A i \in 1..Len(chan[p]) : chan[p][i] = DownMessage => i = Len(chan[p])

-----------------------------------------------------------------------------
(* The invariant: what clients, their messages and the owner know together.  *)

ProtocolTypeOK ==
  /\ stage \in [Clients -> {"idle", "reserve", "commit", "retain", "drain", "dead"}]
  /\ expired \subseteq Clients
  /\ request \in [Clients -> Requests \cup {None}]
  /\ caller \in [Requests -> Clients \cup {None}]
  /\ target \in [Children -> Tokens \cup {None}]
  /\ parent \in [Children -> Holders \cup {None}]
  /\ chan \in [Clients -> Seq(Messages)]
  /\ taken \in [Requests -> Nat]
  /\ mailbox \in [Clients -> SUBSET (Requests \X Answers)]
  /\ held \in [Clients -> SUBSET HolderIds]
  /\ transit \subseteq Clients \X HolderIds
  /\ lost \subseteq HolderIds /\ collected \subseteq HolderIds
  /\ outcome \in [Requests -> {"none", "ok", "error", "caller_owned", "transferred",
                               "drained"}]

\* A client waits for the one call it made that has not returned.
ClientCall(p) ==
  /\ Waiting(p) <=> request[p] # None
  /\ request[p] # None => caller[request[p]] = p /\ outcome[request[p]] = "none"
  /\ stage[p] \in {"reserve", "commit"} => request[p] \in Tokens
  /\ stage[p] = "retain" => request[p] \in Children
  /\ stage[p] = "drain" => request[p] \in Callers
  /\ stage[p] = "dead" <=> InChan(p, DownMessage)
  /\ DownLast(p)

Results(r) ==
  IF r \in Tokens THEN {"none", "ok", "caller_owned", "transferred"}
  ELSE IF r \in Children THEN {"none", "ok", "error"}
  ELSE {"none", "error", "drained"}

\* A call that was made returns only what its replies say.
RequestCall(r) ==
  /\ outcome[r] \in Results(r)
  /\ outcome[r] # "none" => caller[r] # None
  /\ caller[r] # None /\ outcome[r] = "none" =>
       request[caller[r]] = r \/ stage[caller[r]] = "dead"
  /\ r \in seen => caller[r] # None
  /\ taken[r] <= Len(replies[r])
  /\ outcome[r] = "ok" => Grant(r)
  /\ outcome[r] = "drained" => owner = "stopped"

\* A child is retained for a lease that its issue call returned.
ChildCall(h) ==
  /\ caller[h] # None <=> target[h] # None
  /\ target[h] # None => parent[h] \in Holders /\ outcome[target[h]] = "ok"
  /\ \A t \in Tokens : h \in holders[t] => target[h] = t

Calls ==
  /\ \A p \in Clients : ClientCall(p)
  /\ \A r \in Requests : RequestCall(r)
  /\ \A h \in Children : ChildCall(h)

\* A reply that has arrived.
Arrived(r, a) == \E i \in 1..taken[r] : replies[r][i] = a

Mail ==
  /\ \A p \in Clients, r \in Requests, a \in Answers :
       <<r, a>> \in mailbox[p] => caller[r] = p /\ Arrived(r, a)
  /\ \A p \in Clients, t \in Tokens : request[p] = t /\ stage[p] = "commit" =>
       Arrived(t, "reserved") /\ <<t, "reserved">> \notin mailbox[p]

\* A granted lease whose call has not returned has yet to arrive or be taken.
GrantsComing ==
  \A p \in Clients, h \in Holders : request[p] = h /\ Grant(h) =>
    taken[h] < Len(replies[h]) \/ \E a \in {"issued", "retained"} : <<h, a>> \in mailbox[p]

\* What the messages of a client to the owner say is true.
Justified(p, m) ==
  \/ m = DownMessage
  \/ \E t \in Tokens :
       \/ m = ReserveMsg(t) /\ caller[t] = p
       \/ m = CommitMsg(t) /\ caller[t] = p /\ t \in issue_reservations
       \/ m = CancelReservationMsg(t) /\ outcome[t] = "caller_owned"
       \/ m = ConfirmIssueMsg(t) /\ outcome[t] = "ok"
       \/ m = CancelIssueMsg(t) /\ outcome[t] = "transferred"
  \/ \E t \in Tokens, h \in Children :
       /\ target[h] = t
       /\ \/ m = RetainMsg(t, h) /\ caller[h] = p
          \/ m = ConfirmRetainMsg(t, h) /\ outcome[h] = "ok"
          \/ m = CancelRetainMsg(t, h) /\ outcome[h] = "error"
  \/ \E t \in Tokens, h \in Holders :
       m = ReleaseMsg(t, h) /\ LeaseOf(h) = t /\ outcome[h] = "ok" /\ ~InHand(t, h)
  \/ \E c \in Callers : m \in {DrainMsg(c), CancelDrainMsg(c)} /\ caller[c] # None

MessagesJustified ==
  /\ \A p \in Clients, m \in Messages : InChan(p, m) => Justified(p, m)
  /\ \A p \in Clients, t \in Tokens : Once(p, CommitMsg(t))

\* The call has not committed, and if it returned {:caller_owned, _} it never will.
Uncommitted(t) ==
  \/ caller[t] = None \/ outcome[t] = "caller_owned"
  \/ \E p \in Clients : request[p] = t /\ stage[p] = "reserve"

IssueSettled ==
  \A t \in Tokens :
    /\ Uncommitted(t) => status[t] = "unissued" /\ \A p \in Clients : ~InChan(p, CommitMsg(t))
    /\ \A p \in Clients :
         request[p] = t /\ stage[p] = "reserve" /\ Replied(t, "reserved") =>
           t \in issue_reservations

\* A lease in hand is in one place, its call returned it, and it is registered.
Whereabouts ==
  /\ \A t \in Tokens, h \in Holders : InHand(t, h) =>
       /\ t = LeaseOf(h) /\ outcome[h] = "ok" /\ outcome[t] = "ok" /\ h \in holders[t]
       /\ <<t, h>> \notin collected
  /\ \A p, q \in Clients : \A l \in held[p] : (l \in held[q] => p = q) /\ <<q, l>> \notin transit
  /\ \A m, n \in transit : m[2] = n[2] => m = n

\* A holder whose call will be told of it is registered; one whose guard was
\* collected is not, once the owner knows.
GrantsBacked ==
  /\ \A p \in Clients, h \in Holders : request[p] = h /\ Grant(h) => h \in holders[LeaseOf(h)]
  /\ \A t \in Tokens, h \in Holders : <<t, h>> \in collected =>
       /\ t = LeaseOf(h) /\ Grant(h) /\ caller[h] # None
       /\ \A p \in Clients : request[p] # h
       /\ <<t, h>> \notin lost => h \notin holders[t]
  /\ lost \subseteq collected

\* The holder's call is open at the owner.
Pending(t, h) == IF h \in Tokens THEN h = t /\ t \in pending_issue ELSE h \in pending_retains[t]

\* The messages whose handlers add the holder, keep it and take it back.
Asking(t, h)       == IF h \in Tokens THEN CommitMsg(t) ELSE RetainMsg(t, h)
Confirmation(t, h) == IF h \in Tokens THEN ConfirmIssueMsg(t) ELSE ConfirmRetainMsg(t, h)
Withdrawal(t, h)   == IF h \in Tokens THEN CancelIssueMsg(t) ELSE CancelRetainMsg(t, h)

\* The call ended without a lease, which the owner may yet grant.
Withdrawn(h) == outcome[h] = "transferred" \/ outcome[h] = "error"

Accounted ==
  \A t \in Tokens, h \in Holders :
    /\ h \in holders[t] => outcome[h] = "ok" \/ Pending(t, h)
    /\ owner = "up" /\ h \in holders[t] /\ outcome[h] = "ok" =>
         \/ InHand(t, h)
         \/ \E p \in Clients : InChan(p, ReleaseMsg(t, h)) \/ stage[p] = "dead"
    /\ \A p \in Clients : caller[h] = p =>
         /\ Pending(t, h) /\ outcome[h] = "ok" => InChan(p, Confirmation(t, h))
         /\ owner = "up" /\ h \in holders[t] /\ Withdrawn(h) => InChan(p, Withdrawal(t, h))

\* Whatever may still grant the lease of such a call is followed by its withdrawal.
WithdrawalsFollow ==
  owner = "up" => \A p \in Clients, t \in Tokens, h \in Holders :
    caller[h] = p /\ LeaseOf(h) = t /\ Withdrawn(h) /\ (h \in Tokens \/ h \notin seen) =>
      Followed(p, Asking(t, h), Withdrawal(t, h))

OwnerSane == owner # "corrupt"

PInv ==
  /\ ProtocolTypeOK /\ Calls /\ Mail /\ GrantsComing /\ MessagesJustified /\ IssueSettled
  /\ Whereabouts /\ GrantsBacked /\ Accounted /\ WithdrawalsFollow /\ OwnerSane

\* What the owner's own invariants say.
OwnerFacts == AInv /\ MInv /\ OInv /\ DInv

-----------------------------------------------------------------------------
(* Sending and receiving.                                                    *)

\* A message is determined by its fields.
LEMMA MessageFields ==
  \A k, t, h, r : /\ Message(k, t, h, r).kind = k /\ Message(k, t, h, r).token = t
                  /\ Message(k, t, h, r).holder = h /\ Message(k, t, h, r).request = r
BY DEF Message

\* What a client sends.
LEMMA MessagesSent ==
  /\ \A t \in Tokens : {ReserveMsg(t), CommitMsg(t), CancelReservationMsg(t),
                        ConfirmIssueMsg(t), CancelIssueMsg(t)} \subseteq Messages
  /\ \A t \in Tokens, h \in Children :
       {RetainMsg(t, h), ConfirmRetainMsg(t, h), CancelRetainMsg(t, h)} \subseteq Messages
  /\ \A t \in Tokens, h \in Holders : ReleaseMsg(t, h) \in Messages
  /\ \A c \in Callers : {DrainMsg(c), CancelDrainMsg(c)} \subseteq Messages
  /\ DownMessage \in Messages
<1>1. \A t \in Tokens : {ReserveMsg(t), CommitMsg(t), CancelReservationMsg(t),
                         ConfirmIssueMsg(t), CancelIssueMsg(t)} \subseteq Messages
  BY KindsDiffer DEF ReserveMsg, CommitMsg, CancelReservationMsg, ConfirmIssueMsg,
                     CancelIssueMsg, Message, Messages
<1>2. \A t \in Tokens, h \in Children :
        {RetainMsg(t, h), ConfirmRetainMsg(t, h), CancelRetainMsg(t, h)} \subseteq Messages
  BY KindsDiffer DEF RetainMsg, ConfirmRetainMsg, CancelRetainMsg, Message, Messages
<1>3. \A t \in Tokens, h \in Holders : ReleaseMsg(t, h) \in Messages
  BY DEF ReleaseMsg, Message, Messages
<1>4. \A c \in Callers : {DrainMsg(c), CancelDrainMsg(c)} \subseteq Messages
  BY KindsDiffer DEF DrainMsg, CancelDrainMsg, Message, Messages
<1>5. DownMessage \in Messages
  BY DEF DownMessage, Message, Messages
<1> QED BY <1>1, <1>2, <1>3, <1>4, <1>5

\* The channels before and after a client sends m.
LEMMA SendFacts ==
  ASSUME chan \in [Clients -> Seq(Messages)], NEW p \in Clients, NEW m \in Messages, Send(p, m)
  PROVE  /\ chan' \in [Clients -> Seq(Messages)]
         /\ \A q \in Clients : \A x : InChan(q, x)' <=> InChan(q, x) \/ (q = p /\ x = m)
         /\ \A q \in Clients : \A x : Once(q, x) /\ (x # m \/ ~InChan(q, x)) => Once(q, x)'
         /\ \A q \in Clients : \A x, y : Followed(q, x, y) /\ x # m => Followed(q, x, y)'
         /\ \A x : x # m => Followed(p, x, m)'
         /\ \A q \in Clients : DownLast(q) /\ ~InChan(p, DownMessage) => DownLast(q)'
<1>1. /\ \A q \in Clients \ {p} : chan'[q] = chan[q]
      /\ chan'[p] = Append(chan[p], m) /\ chan[p] \in Seq(Messages)
      /\ chan' \in [Clients -> Seq(Messages)]
  <2>1. \A s \in Seq(Messages) : Append(s, m) \in Seq(Messages)
    OBVIOUS
  <2>2. chan[p] \in Seq(Messages)
    OBVIOUS
  <2>3. Append(chan[p], m) \in Seq(Messages)
    BY <2>1, <2>2
  <2> QED BY <2>2, <2>3 DEF Send
<1>2. /\ Len(chan[p]) \in Nat /\ Len(chan'[p]) = Len(chan[p]) + 1
      /\ chan'[p][Len(chan[p]) + 1] = m
      /\ \A i \in 1..Len(chan[p]) : chan'[p][i] = chan[p][i]
  BY <1>1, AppendProperties
<1>3. /\ \A i \in 1..Len(chan'[p]) : i \in 1..Len(chan[p]) \/ i = Len(chan[p]) + 1
      /\ \A i \in 1..Len(chan[p]) : i \in 1..Len(chan'[p]) /\ i < Len(chan[p]) + 1
      /\ Len(chan[p]) + 1 \in 1..Len(chan'[p])
  BY <1>2
<1>4. ASSUME NEW q \in Clients, q # p
      PROVE  /\ \A x : InChan(q, x)' <=> InChan(q, x)
             /\ \A x : Once(q, x) => Once(q, x)'
             /\ \A x, y : Followed(q, x, y) => Followed(q, x, y)'
             /\ DownLast(q) => DownLast(q)'
  <2>1. chan'[q] = chan[q]
    BY <1>1, <1>4
  <2> QED BY <2>1 DEF InChan, Once, Followed, DownLast
<1>5. \A x : InChan(p, x)' <=> InChan(p, x) \/ x = m
  BY <1>2, <1>3 DEF InChan
<1>6. ASSUME NEW x, Once(p, x), x # m \/ ~InChan(p, x) PROVE Once(p, x)'
  <2>1. ASSUME NEW i \in 1..Len(chan'[p]), NEW j \in 1..Len(chan'[p]),
               chan'[p][i] = x, chan'[p][j] = x
        PROVE  i = j
    <3>1. CASE x # m
      BY <1>2, <1>3, <1>6, <2>1, <3>1 DEF Once
    <3>2. CASE ~InChan(p, x)
      BY <1>2, <1>3, <1>6, <2>1, <3>2 DEF InChan
    <3> QED BY <1>6, <3>1, <3>2
  <2> QED BY <2>1 DEF Once
<1>7. ASSUME NEW x, NEW y, Followed(p, x, y), x # m PROVE Followed(p, x, y)'
  BY <1>2, <1>3, <1>7 DEF Followed
<1>8. ASSUME NEW x, x # m PROVE Followed(p, x, m)'
  BY <1>2, <1>3, <1>8 DEF Followed
<1>9. ASSUME DownLast(p), ~InChan(p, DownMessage) PROVE DownLast(p)'
  BY <1>2, <1>3, <1>9 DEF DownLast, InChan
<1> QED BY <1>1, <1>4, <1>5, <1>6, <1>7, <1>8, <1>9

\* The channels before and after the owner takes the first message of p.
LEMMA ReceiveFacts ==
  ASSUME chan \in [Clients -> Seq(Messages)], NEW p \in Clients, chan[p] # <<>>,
         chan' = [chan EXCEPT ![p] = Tail(@)], NEW m, m = Head(chan[p])
  PROVE  /\ chan' \in [Clients -> Seq(Messages)]
         /\ m \in Messages /\ InChan(p, m)
         /\ \A q \in Clients : \A x : InChan(q, x)' => InChan(q, x)
         /\ \A q \in Clients : \A x : InChan(q, x) /\ ~InChan(q, x)' => q = p /\ x = m
         /\ \A q \in Clients : \A x : Once(q, x) => Once(q, x)'
         /\ Once(p, m) => ~InChan(p, m)'
         /\ \A q \in Clients : \A x, y : Followed(q, x, y) => Followed(q, x, y)'
         /\ \A y : Followed(p, m, y) => InChan(p, y)'
         /\ \A q \in Clients : DownLast(q) => DownLast(q)'
<1>1. /\ \A q \in Clients \ {p} : chan'[q] = chan[q]
      /\ chan'[p] = Tail(chan[p]) /\ chan[p] \in Seq(Messages)
      /\ chan' \in [Clients -> Seq(Messages)]
  <2>1. chan[p] \in Seq(Messages)
    OBVIOUS
  <2>2. Tail(chan[p]) \in Seq(Messages)
    BY <2>1
  <2> QED BY <2>1, <2>2
<1>2. /\ Len(chan[p]) \in Nat /\ Len(chan[p]) >= 1 /\ Len(chan'[p]) = Len(chan[p]) - 1
      /\ m = chan[p][1] /\ m \in Messages
      /\ \A i \in 1..Len(chan'[p]) : chan'[p][i] = chan[p][i + 1]
  BY <1>1
<1>3. /\ \A i \in 1..Len(chan'[p]) : i + 1 \in 1..Len(chan[p]) /\ i + 1 # 1
      /\ \A i \in 1..Len(chan[p]) : i # 1 => i - 1 \in 1..Len(chan'[p]) /\ chan'[p][i - 1] = chan[p][i]
      /\ 1 \in 1..Len(chan[p])
  BY <1>2
<1>4. ASSUME NEW q \in Clients, q # p
      PROVE  /\ \A x : InChan(q, x)' <=> InChan(q, x)
             /\ \A x : Once(q, x) => Once(q, x)'
             /\ \A x, y : Followed(q, x, y) => Followed(q, x, y)'
             /\ DownLast(q) => DownLast(q)'
  <2>1. chan'[q] = chan[q]
    BY <1>1, <1>4
  <2> QED BY <2>1 DEF InChan, Once, Followed, DownLast
<1>5. \A x : InChan(p, x)' => InChan(p, x)
  BY <1>2, <1>3 DEF InChan
<1>6. ASSUME NEW x, InChan(p, x), x # m PROVE InChan(p, x)'
  <2>1. PICK i \in 1..Len(chan[p]) : chan[p][i] = x
    BY <1>6 DEF InChan
  <2>2. i - 1 \in 1..Len(chan'[p]) /\ chan'[p][i - 1] = x
    BY <1>2, <1>3, <1>6, <2>1
  <2> QED BY <2>2 DEF InChan
<1>7. ASSUME NEW x, Once(p, x) PROVE Once(p, x)'
  <2>1. ASSUME NEW i \in 1..Len(chan'[p]), NEW j \in 1..Len(chan'[p]),
               chan'[p][i] = x, chan'[p][j] = x
        PROVE  i = j
    <3>1. i + 1 = j + 1
      BY <1>2, <1>3, <1>7, <2>1 DEF Once
    <3> QED BY <1>2, <2>1, <3>1
  <2> QED BY <2>1 DEF Once
<1>8. Once(p, m) => ~InChan(p, m)'
  BY <1>2, <1>3 DEF Once, InChan
<1>9. ASSUME NEW x, NEW y, Followed(p, x, y) PROVE Followed(p, x, y)'
  <2>1. ASSUME NEW i \in 1..Len(chan'[p]), chan'[p][i] = x
        PROVE  \E j \in 1..Len(chan'[p]) : i < j /\ chan'[p][j] = y
    <3>1. PICK j \in 1..Len(chan[p]) : i + 1 < j /\ chan[p][j] = y
      BY <1>2, <1>3, <1>9, <2>1 DEF Followed
    <3>2. j - 1 \in 1..Len(chan'[p]) /\ chan'[p][j - 1] = y /\ i < j - 1
      BY <1>2, <1>3, <3>1
    <3> QED BY <3>2
  <2> QED BY <2>1 DEF Followed
<1>10. ASSUME NEW y, Followed(p, m, y) PROVE InChan(p, y)'
  <2>1. PICK j \in 1..Len(chan[p]) : 1 < j /\ chan[p][j] = y
    BY <1>2, <1>3, <1>10 DEF Followed
  <2>2. j - 1 \in 1..Len(chan'[p]) /\ chan'[p][j - 1] = y
    BY <1>3, <2>1
  <2> QED BY <2>2 DEF InChan
<1>11. ASSUME DownLast(p) PROVE DownLast(p)'
  <2>1. ASSUME NEW i \in 1..Len(chan'[p]), chan'[p][i] = DownMessage PROVE i = Len(chan'[p])
    <3>1. i + 1 \in 1..Len(chan[p]) /\ chan[p][i + 1] = DownMessage
      BY <1>2, <1>3, <2>1
    <3>2. i + 1 = Len(chan[p])
      BY <1>11, <3>1 DEF DownLast
    <3>3. Len(chan[p]) \in Nat /\ Len(chan'[p]) = Len(chan[p]) - 1 /\ i \in Nat
      BY <1>2
    <3> QED BY <3>2, <3>3
  <2> QED BY <2>1 DEF DownLast
<1>12. InChan(p, m)
  BY <1>2, <1>3 DEF InChan
<1>13. \A q \in Clients : \A x : InChan(q, x)' => InChan(q, x)
  BY <1>4, <1>5
<1>14. \A q \in Clients : \A x : InChan(q, x) /\ ~InChan(q, x)' => q = p /\ x = m
  BY <1>4, <1>6
<1>15. \A q \in Clients : \A x : Once(q, x) => Once(q, x)'
  BY <1>4, <1>7
<1>16. \A q \in Clients : \A x, y : Followed(q, x, y) => Followed(q, x, y)'
  BY <1>4, <1>9
<1>17. \A q \in Clients : DownLast(q) => DownLast(q)'
  BY <1>4, <1>11
<1>18. \A y : Followed(p, m, y) => InChan(p, y)'
  BY <1>10
<1> QED BY <1>1, <1>2, <1>8, <1>12, <1>13, <1>14, <1>15, <1>16, <1>17, <1>18

\* When the owner finds a client's death first, it finds nothing else.
LEMMA OnlyDown ==
  ASSUME chan \in [Clients -> Seq(Messages)], NEW p \in Clients, chan[p] # <<>>,
         Head(chan[p]) = DownMessage, DownLast(p)
  PROVE  InChan(p, DownMessage) /\ \A x : InChan(p, x) => x = DownMessage
<1>1. Len(chan[p]) \in Nat /\ Len(chan[p]) >= 1 /\ chan[p][1] = DownMessage
  <2>1. chan[p] \in Seq(Messages)
    OBVIOUS
  <2> QED BY <2>1
<1>2. 1 \in 1..Len(chan[p])
  BY <1>1
<1>3. 1 = Len(chan[p])
  BY <1>1, <1>2 DEF DownLast
<1>4. ASSUME NEW x, InChan(p, x) PROVE x = DownMessage
  <2>1. PICK i \in 1..Len(chan[p]) : chan[p][i] = x
    BY <1>4 DEF InChan
  <2>2. i = 1
    BY <1>3, <2>1
  <2> QED BY <1>1, <2>1, <2>2
<1> QED BY <1>1, <1>2, <1>4 DEF InChan

\* What the messages on their way say.
LEMMA MessagesSay ==
  ASSUME MessagesJustified, NEW p \in Clients
  PROVE  /\ \A t \in Tokens :
              /\ InChan(p, ReserveMsg(t)) => caller[t] = p
              /\ InChan(p, CommitMsg(t)) => caller[t] = p /\ t \in issue_reservations
              /\ InChan(p, CancelReservationMsg(t)) => outcome[t] = "caller_owned"
              /\ InChan(p, ConfirmIssueMsg(t)) => outcome[t] = "ok"
              /\ InChan(p, CancelIssueMsg(t)) => outcome[t] = "transferred"
         /\ \A t \in Tokens, h \in Children :
              /\ InChan(p, RetainMsg(t, h)) => target[h] = t /\ caller[h] = p
              /\ InChan(p, ConfirmRetainMsg(t, h)) => target[h] = t /\ outcome[h] = "ok"
              /\ InChan(p, CancelRetainMsg(t, h)) => target[h] = t /\ outcome[h] = "error"
         /\ \A t \in Tokens, h \in Holders : InChan(p, ReleaseMsg(t, h)) =>
              LeaseOf(h) = t /\ outcome[h] = "ok" /\ ~InHand(t, h)
<1>0. \A m \in Messages : InChan(p, m) => Justified(p, m)
  BY DEF MessagesJustified
<1> USE MessageFields
<1>1. ASSUME NEW t \in Tokens
      PROVE  /\ InChan(p, ReserveMsg(t)) => caller[t] = p
             /\ InChan(p, CommitMsg(t)) => caller[t] = p /\ t \in issue_reservations
             /\ InChan(p, CancelReservationMsg(t)) => outcome[t] = "caller_owned"
             /\ InChan(p, ConfirmIssueMsg(t)) => outcome[t] = "ok"
             /\ InChan(p, CancelIssueMsg(t)) => outcome[t] = "transferred"
  <2>0. /\ ReserveMsg(t).kind = "reserve" /\ ReserveMsg(t).token = t
        /\ CommitMsg(t).kind = "commit" /\ CommitMsg(t).token = t
        /\ CancelReservationMsg(t).kind = "cancel_reservation"
        /\ CancelReservationMsg(t).token = t
        /\ ConfirmIssueMsg(t).kind = "confirm_issue" /\ ConfirmIssueMsg(t).token = t
        /\ CancelIssueMsg(t).kind = "cancel_issue" /\ CancelIssueMsg(t).token = t
    BY DEF ReserveMsg, CommitMsg, CancelReservationMsg, ConfirmIssueMsg, CancelIssueMsg
  <2>1. ASSUME NEW m, Justified(p, m)
        PROVE  /\ m.kind = "reserve" => caller[m.token] = p
               /\ m.kind = "commit" => caller[m.token] = p /\ m.token \in issue_reservations
               /\ m.kind = "cancel_reservation" => outcome[m.token] = "caller_owned"
               /\ m.kind = "confirm_issue" => outcome[m.token] = "ok"
               /\ m.kind = "cancel_issue" => outcome[m.token] = "transferred"
    BY <2>1 DEF Justified, ReserveMsg, CommitMsg, CancelReservationMsg, ConfirmIssueMsg,
               CancelIssueMsg, RetainMsg, ConfirmRetainMsg, CancelRetainMsg, ReleaseMsg,
               DrainMsg, CancelDrainMsg, DownMessage
  <2> QED BY <1>0, <2>0, <2>1, MessagesSent
<1>2. ASSUME NEW t \in Tokens, NEW h \in Children
      PROVE  /\ InChan(p, RetainMsg(t, h)) => target[h] = t /\ caller[h] = p
             /\ InChan(p, ConfirmRetainMsg(t, h)) => target[h] = t /\ outcome[h] = "ok"
             /\ InChan(p, CancelRetainMsg(t, h)) => target[h] = t /\ outcome[h] = "error"
  <2>0. /\ RetainMsg(t, h).kind = "retain"
        /\ ConfirmRetainMsg(t, h).kind = "confirm_retain"
        /\ CancelRetainMsg(t, h).kind = "cancel_retain"
        /\ \A m \in {RetainMsg(t, h), ConfirmRetainMsg(t, h), CancelRetainMsg(t, h)} :
             m.token = t /\ m.holder = h
    BY DEF RetainMsg, ConfirmRetainMsg, CancelRetainMsg
  <2>1. ASSUME NEW m, Justified(p, m)
        PROVE  /\ m.kind = "retain" => target[m.holder] = m.token /\ caller[m.holder] = p
               /\ m.kind = "confirm_retain" =>
                    target[m.holder] = m.token /\ outcome[m.holder] = "ok"
               /\ m.kind = "cancel_retain" =>
                    target[m.holder] = m.token /\ outcome[m.holder] = "error"
    BY <2>1 DEF Justified, ReserveMsg, CommitMsg, CancelReservationMsg, ConfirmIssueMsg,
               CancelIssueMsg, RetainMsg, ConfirmRetainMsg, CancelRetainMsg, ReleaseMsg,
               DrainMsg, CancelDrainMsg, DownMessage
  <2> QED BY <1>0, <2>0, <2>1, MessagesSent
<1>3. ASSUME NEW t \in Tokens, NEW h \in Holders, InChan(p, ReleaseMsg(t, h))
      PROVE  LeaseOf(h) = t /\ outcome[h] = "ok" /\ ~InHand(t, h)
  <2>0. /\ ReleaseMsg(t, h).kind = "release" /\ ReleaseMsg(t, h).token = t
        /\ ReleaseMsg(t, h).holder = h
    BY DEF ReleaseMsg
  <2>1. Justified(p, ReleaseMsg(t, h))
    BY <1>0, <1>3, MessagesSent
  <2>2. \E u \in Tokens, k \in Holders :
          /\ ReleaseMsg(t, h) = ReleaseMsg(u, k)
          /\ LeaseOf(k) = u /\ outcome[k] = "ok" /\ ~InHand(u, k)
    BY <2>0, <2>1 DEF Justified, ReserveMsg, CommitMsg, CancelReservationMsg, ConfirmIssueMsg,
               CancelIssueMsg, RetainMsg, ConfirmRetainMsg, CancelRetainMsg,
               DrainMsg, CancelDrainMsg, DownMessage
  <2>3. \A u \in Tokens, k \in Holders : ReleaseMsg(t, h) = ReleaseMsg(u, k) => u = t /\ k = h
    BY DEF ReleaseMsg
  <2> QED BY <2>2, <2>3
<1> QED BY <1>1, <1>2, <1>3

-----------------------------------------------------------------------------
(* Reading the owner's answers.                                              *)

\* What an answer tells about the owner that sent it.
LEMMA AnswersSay ==
  ASSUME TypeOK, Answering
  PROVE  /\ \A t \in Tokens : \A a : Replied(t, a) =>
              /\ a \in {"caller_owned", "reserved", "issued", "transferred"} /\ t \in seen
              /\ a = "caller_owned" => ~Replied(t, "reserved")
              /\ a \in {"issued", "transferred"} =>
                   /\ status[t] # "unissued" /\ t \notin issue_reservations
                   /\ replies[t][2] = a /\ Len(replies[t]) = 2 /\ Replied(t, "reserved")
              /\ a = "transferred" => \A u \in Tokens : t \notin holders[u]
         /\ \A h \in Children : \A a : Replied(h, a) =>
              /\ a \in {"retained", "retain_error"} /\ h \in seen
              /\ replies[h][1] = a /\ Len(replies[h]) = 1
              /\ a = "retain_error" => \A u \in Tokens : h \notin holders[u]
         /\ \A c \in Callers : \A a : Replied(c, a) =>
              /\ a \in {"drained", "release_failed", "ok", "error"}
              /\ a = "drained" => owner = "stopped"
         /\ \A t \in Tokens, h \in Holders : h \in holders[t] =>
              Grant(h) /\ (h \in Tokens => h = t)
<1>1. /\ \A r \in Requests : replies[r] \in Seq(Answers) /\ Len(replies[r]) \in Nat
      /\ Tokens \subseteq Requests /\ Children \subseteq Requests /\ Callers \subseteq Requests
  BY KindsDiffer DEF TypeOK
<1>2. ASSUME NEW t \in Tokens, NEW a, Replied(t, a)
      PROVE  /\ a \in {"caller_owned", "reserved", "issued", "transferred"} /\ t \in seen
             /\ a = "caller_owned" => ~Replied(t, "reserved")
             /\ a \in {"issued", "transferred"} =>
                  /\ status[t] # "unissued" /\ t \notin issue_reservations
                  /\ replies[t][2] = a /\ Len(replies[t]) = 2 /\ Replied(t, "reserved")
             /\ a = "transferred" => \A u \in Tokens : t \notin holders[u]
  <2>1. IssueAnswers(t) /\ Len(replies[t]) \in Nat
    BY <1>1 DEF Answering
  <2>2. PICK i \in 1..Len(replies[t]) : replies[t][i] = a
    BY <1>2 DEF Replied
  <2>6. PICK n \in Nat : n = Len(replies[t])
    BY <2>1
  <2>7. n <= 2 /\ i \in 1..n
    BY <2>1, <2>6 DEF IssueAnswers
  <2>3. Len(replies[t]) = 1 \/ Len(replies[t]) = 2
    <3>1. n = 1 \/ n = 2
      BY <2>7
    <3> QED BY <2>6, <3>1
  <2>4. CASE Len(replies[t]) = 1
    <3>1. i = 1 /\ \A j \in 1..Len(replies[t]) : j = 1
      BY <2>2, <2>4
    <3> QED BY <2>1, <2>2, <2>4, <3>1 DEF IssueAnswers, Replied
  <2>5. CASE Len(replies[t]) = 2
    <3>1. /\ i = 1 \/ i = 2
          /\ 1 \in 1..Len(replies[t])
          /\ \A j \in 1..Len(replies[t]) : j = 1 \/ j = 2
      BY <2>2, <2>5
    <3>2. /\ replies[t][1] = "reserved" /\ replies[t][2] \in {"issued", "transferred"}
          /\ status[t] # "unissued" /\ t \in seen /\ t \notin issue_reservations
          /\ \A u \in Tokens : t \in holders[u] => replies[t][2] = "issued"
      BY <2>1, <2>5 DEF IssueAnswers
    <3> QED BY <2>2, <2>5, <3>1, <3>2 DEF Replied
  <2> QED BY <2>3, <2>4, <2>5
<1>3. ASSUME NEW h \in Children, NEW a, Replied(h, a)
      PROVE  /\ a \in {"retained", "retain_error"} /\ h \in seen
             /\ replies[h][1] = a /\ Len(replies[h]) = 1
             /\ a = "retain_error" => \A u \in Tokens : h \notin holders[u]
  <2>1. RetainAnswers(h) /\ Len(replies[h]) \in Nat
    BY <1>1 DEF Answering
  <2>2. PICK i \in 1..Len(replies[h]) : replies[h][i] = a
    BY <1>3 DEF Replied
  <2>4. PICK n \in Nat : n = Len(replies[h])
    BY <2>1
  <2>5. n <= 1 /\ i \in 1..n
    BY <2>1, <2>4 DEF RetainAnswers
  <2>3. Len(replies[h]) = 1 /\ i = 1
    <3>1. n = 1 /\ i = 1
      BY <2>5
    <3> QED BY <2>4, <3>1
  <2> QED BY <2>1, <2>2, <2>3 DEF RetainAnswers
<1>4. \A c \in Callers : \A a : Replied(c, a) =>
        /\ a \in {"drained", "release_failed", "ok", "error"}
        /\ a = "drained" => owner = "stopped"
  BY DEF Answering, DrainAnswers, Replied
<1>5. ASSUME NEW t \in Tokens, NEW h \in Holders, h \in holders[t]
      PROVE  Grant(h) /\ (h \in Tokens => h = t)
  <2>1. CASE h \in Tokens
    <3>1. h = t /\ IssueAnswers(h)
      BY <1>5, <2>1 DEF Answering, IssueAnswers
    <3>2. Len(replies[h]) = 2 /\ replies[h][2] = "issued"
      BY <1>5, <3>1 DEF IssueAnswers
    <3>3. 2 \in 1..Len(replies[h])
      BY <3>2
    <3> QED BY <2>1, <3>1, <3>2, <3>3 DEF Grant, Replied
  <2>2. CASE h \in Children
    <3>1. Len(replies[h]) = 1 /\ replies[h][1] = "retained" /\ h \notin Tokens
      BY <1>5, <2>2, KindsDiffer DEF Answering, RetainAnswers
    <3>2. 1 \in 1..Len(replies[h])
      BY <3>1
    <3> QED BY <3>1, <3>2 DEF Grant, Replied
  <2> QED BY <2>1, <2>2 DEF Holders
<1> QED BY <1>2, <1>3, <1>4, <1>5

\* No answer is taken back.
LEMMA AnswersKept ==
  ASSUME TypeOK, AnswersGrow, NEW r \in Requests
  PROVE  /\ Len(replies[r]) \in Nat /\ Len(replies'[r]) \in Nat
         /\ Len(replies[r]) <= Len(replies'[r])
         /\ \A i \in 1..Len(replies[r]) : replies'[r][i] = replies[r][i]
         /\ \A a : Replied(r, a) => Replied(r, a)'
         /\ \A a : Replied(r, a)' /\ ~Replied(r, a) => Len(replies[r]) < Len(replies'[r])
<1>1. Len(replies[r]) \in Nat
  BY DEF TypeOK
<1>2. CASE replies'[r] = replies[r]
  BY <1>1, <1>2 DEF Replied
<1>3. ASSUME NEW a \in Answers, replies'[r] = Append(replies[r], a)
      PROVE  /\ Len(replies'[r]) = Len(replies[r]) + 1
             /\ \A i \in 1..Len(replies[r]) : replies'[r][i] = replies[r][i]
  BY <1>3, Appended
<1>4. CASE \E a \in Answers : replies'[r] = Append(replies[r], a)
  <2>1. /\ Len(replies'[r]) = Len(replies[r]) + 1
        /\ \A i \in 1..Len(replies[r]) : replies'[r][i] = replies[r][i]
    BY <1>3, <1>4
  <2>2. PICK n \in Nat : n = Len(replies[r])
    BY <1>1
  <2>3. Len(replies'[r]) = n + 1
    BY <2>1, <2>2
  <2>4. n + 1 \in Nat /\ n < n + 1 /\ \A i \in 1..n : i \in 1..(n + 1)
    OBVIOUS
  <2>5. \A a : Replied(r, a) => Replied(r, a)'
    BY <2>1, <2>2, <2>3, <2>4 DEF Replied
  <2> QED BY <1>1, <2>1, <2>2, <2>3, <2>4, <2>5
<1> QED BY <1>2, <1>4 DEF AnswersGrow

-----------------------------------------------------------------------------
(* What a step of the owner must not do to its clients.                      *)

\* A reservation goes away only when its call no longer counts on it, and only
\* a commit puts a token to work.
ReservationsHonoured ==
  \A t \in Tokens :
    /\ t \in issue_reservations /\ t \notin issue_reservations' =>
         \A p \in Clients : /\ ~InChan(p, CommitMsg(t))'
                            /\ ~(request[p] = t /\ stage[p] = "reserve")
    /\ status[t] = "unissued" /\ status'[t] # "unissued" => ~Uncommitted(t)

\* A holder appears for a call that was not answered, and goes away when its
\* lease is in nobody's hands and its call is over.
HoldersHonoured ==
  \A t \in Tokens, h \in Holders :
    /\ h \notin holders[t] /\ h \in holders'[t] =>
         /\ LeaseOf(h) = t /\ ~Grant(h) /\ Pending(t, h)'
         /\ \A p \in Clients : caller[h] = p /\ Withdrawn(h) => InChan(p, Withdrawal(t, h))'
    /\ h \in holders[t] /\ h \notin holders'[t] =>
         ~InHand(t, h) /\ \A p \in Clients : request[p] # h
    /\ ~Pending(t, h) /\ Pending(t, h)' => ~Grant(h)
    /\ Pending(t, h) /\ ~Pending(t, h)' /\ h \in holders'[t] => outcome[h] = "ok"

\* A message that was handled had its effect.
MessagesHonoured ==
  \A t \in Tokens, h \in Holders :
    /\ <<t, h>> \in lost /\ <<t, h>> \notin lost' => h \notin holders'[t]
    /\ \A p \in Clients :
         /\ InChan(p, Confirmation(t, h)) /\ ~InChan(p, Confirmation(t, h))' => ~Pending(t, h)'
         /\ InChan(p, Withdrawal(t, h)) /\ ~InChan(p, Withdrawal(t, h))' => h \notin holders'[t]
         /\ InChan(p, ReleaseMsg(t, h)) /\ ~InChan(p, ReleaseMsg(t, h))' => h \notin holders'[t]

OwnerHonest ==
  /\ owner' = "up" => owner = "up"
  /\ owner = "stopped" => owner' = "stopped"
  /\ owner' # "corrupt"
  /\ seen \subseteq seen' /\ \A r \in seen' : caller[r] # None

Honest == ReservationsHonoured /\ HoldersHonoured /\ MessagesHonoured /\ OwnerHonest

\* The owner takes a message or none.
ChanKept ==
  /\ chan' \in [Clients -> Seq(Messages)]
  /\ \A q \in Clients :
       /\ \A x : InChan(q, x)' => InChan(q, x)
       /\ \A x : Once(q, x) => Once(q, x)'
       /\ \A x, y : Followed(q, x, y) => Followed(q, x, y)'
       /\ DownLast(q) => DownLast(q)'
       /\ InChan(q, DownMessage) => InChan(q, DownMessage)'

OwnerMove ==
  /\ UNCHANGED <<clientVars, taken, mailbox, leaseVars, collected, outcome>>
  /\ lost' \subseteq lost
  /\ ChanKept

\* What depends on nothing but the variables of the clients.
LEMMA SameClients ==
  ASSUME UNCHANGED <<stage, request, caller, target, held, transit, outcome>>
  PROVE  /\ \A t, h : InHand(t, h)' <=> InHand(t, h)
         /\ \A h : LeaseOf(h)' = LeaseOf(h)
         /\ \A h : Withdrawn(h)' <=> Withdrawn(h)
         /\ \A t : Uncommitted(t)' <=> Uncommitted(t)
         /\ \A p : Waiting(p)' <=> Waiting(p)
BY DEF InHand, LeaseOf, Withdrawn, Uncommitted, Waiting

\* An honest step of the owner keeps the invariant.
LEMMA HonestStep ==
  ASSUME PInv, OwnerFacts, OwnerFacts', AnswersGrow, OwnerMove, Honest
  PROVE  PInv'
<1>0. /\ ProtocolTypeOK /\ Calls /\ Mail /\ GrantsComing /\ MessagesJustified /\ IssueSettled
      /\ Whereabouts /\ GrantsBacked /\ Accounted /\ WithdrawalsFollow /\ OwnerSane
      /\ TypeOK /\ Answering /\ TypeOK' /\ Answering'
      /\ ReservationsHonoured /\ HoldersHonoured /\ MessagesHonoured /\ OwnerHonest
      /\ ChanKept /\ lost' \subseteq lost
  BY DEF PInv, OwnerFacts, AInv, UInv, IInv, Honest, OwnerMove
<1>1. UNCHANGED <<stage, expired, request, caller, target, parent, taken, mailbox,
                  held, transit, collected, outcome>>
  BY DEF OwnerMove, clientVars, leaseVars
<1>2. /\ \A t, h : InHand(t, h)' <=> InHand(t, h)
      /\ \A h : LeaseOf(h)' = LeaseOf(h)
      /\ \A h : Withdrawn(h)' <=> Withdrawn(h)
      /\ \A t : Uncommitted(t)' <=> Uncommitted(t)
      /\ \A p : Waiting(p)' <=> Waiting(p)
  BY <1>1, SameClients
<1>3. /\ \A r \in Requests :
           /\ Len(replies[r]) \in Nat /\ Len(replies'[r]) \in Nat
           /\ Len(replies[r]) <= Len(replies'[r])
           /\ \A i \in 1..Len(replies[r]) : replies'[r][i] = replies[r][i]
           /\ \A a : Replied(r, a) => Replied(r, a)'
           /\ \A a : Replied(r, a)' /\ ~Replied(r, a) => Len(replies[r]) < Len(replies'[r])
      /\ \A h \in Holders : h \in Requests /\ (Grant(h) => Grant(h)')
      /\ \A h \in Holders : Grant(h)' /\ ~Grant(h) => Len(replies[h]) < Len(replies'[h])
      /\ \A r \in Requests : taken[r] \in Nat /\ taken[r] <= Len(replies[r])
  <2>1. \A r \in Requests :
          /\ Len(replies[r]) \in Nat /\ Len(replies'[r]) \in Nat
          /\ Len(replies[r]) <= Len(replies'[r])
          /\ \A i \in 1..Len(replies[r]) : replies'[r][i] = replies[r][i]
          /\ \A a : Replied(r, a) => Replied(r, a)'
          /\ \A a : Replied(r, a)' /\ ~Replied(r, a) => Len(replies[r]) < Len(replies'[r])
    BY <1>0, AnswersKept
  <2>2. \A h \in Holders : h \in Requests /\ (Grant(h) => Grant(h)')
    BY <2>1, KindsDiffer DEF Grant
  <2>3. \A h \in Holders : Grant(h)' /\ ~Grant(h) => Len(replies[h]) < Len(replies'[h])
    BY <2>1, KindsDiffer DEF Grant
  <2>4. \A r \in Requests : taken[r] \in Nat /\ taken[r] <= Len(replies[r])
    BY <1>0 DEF ProtocolTypeOK, Calls, RequestCall
  <2> QED BY <2>1, <2>2, <2>3, <2>4
<1>4. ProtocolTypeOK'
  BY <1>0, <1>1 DEF ProtocolTypeOK, ChanKept
<1>5. Calls'
  <2>1. ASSUME NEW p \in Clients PROVE ClientCall(p)'
    <3>1. ClientCall(p) /\ (InChan(p, DownMessage)' <=> InChan(p, DownMessage))
          /\ (DownLast(p) => DownLast(p)')
      BY <1>0 DEF Calls, ChanKept
    <3> QED BY <1>1, <1>2, <3>1 DEF ClientCall
  <2>2. ASSUME NEW r \in Requests PROVE RequestCall(r)'
    <3>1. RequestCall(r) /\ (r \in seen' => caller[r] # None)
          /\ (owner = "stopped" => owner' = "stopped")
      BY <1>0 DEF Calls, OwnerHonest
    <3>2. taken'[r] <= Len(replies'[r])
      BY <1>1, <1>3
    <3>3. outcome[r] = "ok" => Grant(r)'
      <4>1. outcome[r] = "ok" => r \in Holders
        BY <3>1 DEF RequestCall, Results, Holders
      <4> QED BY <1>3, <3>1, <4>1 DEF RequestCall
    <3> QED BY <1>1, <3>1, <3>2, <3>3 DEF RequestCall, Results
  <2>3. ASSUME NEW h \in Children PROVE ChildCall(h)'
    <3>1. ChildCall(h) /\ h \in Holders /\ h \notin Tokens
      BY <1>0, KindsDiffer DEF Calls
    <3>2. ASSUME NEW t \in Tokens, h \in holders'[t] PROVE target[h] = t
      <4>1. h \notin holders[t] => LeaseOf(h) = t
        BY <1>0, <3>1, <3>2 DEF HoldersHonoured
      <4> QED BY <3>1, <4>1 DEF LeaseOf, ChildCall
    <3> QED BY <1>1, <3>1, <3>2 DEF ChildCall
  <2> QED BY <2>1, <2>2, <2>3 DEF Calls
<1>6. Mail'
  <2>1. \A r \in Requests : \A a : Arrived(r, a) => Arrived(r, a)'
    <3>1. ASSUME NEW r \in Requests, NEW a, Arrived(r, a) PROVE Arrived(r, a)'
      <4>1. PICK i \in 1..taken[r] : replies[r][i] = a
        BY <3>1 DEF Arrived
      <4>2. i \in 1..Len(replies[r])
        BY <1>3
      <4>3. replies'[r][i] = a
        BY <1>3, <4>1, <4>2
      <4> QED BY <1>1, <4>3 DEF Arrived
    <3> QED BY <3>1
  <2> QED BY <1>0, <1>1, <2>1, KindsDiffer DEF Mail
<1>7. GrantsComing'
  <2>1. ASSUME NEW p \in Clients, NEW h \in Holders, request[p] = h, Grant(h)',
               ~\E a \in {"issued", "retained"} : <<h, a>> \in mailbox[p]
        PROVE  taken[h] < Len(replies'[h])
    <3>1. h \in Requests
      BY <1>3
    <3>2. PICK n \in Nat, k \in Nat, j \in Nat :
            n = Len(replies[h]) /\ k = Len(replies'[h]) /\ j = taken[h]
      BY <1>3, <3>1
    <3>3. n <= k /\ j <= n /\ (j < n \/ n < k)
      BY <1>0, <1>3, <2>1, <3>1, <3>2 DEF GrantsComing
    <3>4. j < k
      BY <3>3
    <3> QED BY <3>2, <3>4
  <2> QED BY <1>1, <2>1 DEF GrantsComing
<1>8. MessagesJustified'
  <2>1. ASSUME NEW p \in Clients, NEW m \in Messages, InChan(p, m)' PROVE Justified(p, m)'
    <3>1. InChan(p, m) /\ Justified(p, m)
      BY <1>0, <2>1 DEF ChanKept, MessagesJustified
    <3>2. \A t \in Tokens : m = CommitMsg(t) /\ t \in issue_reservations =>
            t \in issue_reservations'
      BY <1>0, <2>1 DEF ReservationsHonoured
    <3> QED BY <1>1, <1>2, <3>1, <3>2 DEF Justified
  <2> QED BY <1>0, <2>1 DEF ChanKept, MessagesJustified
<1>9. IssueSettled'
  <2>1. ASSUME NEW t \in Tokens, Uncommitted(t)
        PROVE  status'[t] = "unissued" /\ \A p \in Clients : ~InChan(p, CommitMsg(t))'
    BY <1>0, <2>1 DEF IssueSettled, ReservationsHonoured, ChanKept
  <2>2. ASSUME NEW t \in Tokens, NEW p \in Clients, request[p] = t, stage[p] = "reserve",
               Replied(t, "reserved")'
        PROVE  t \in issue_reservations'
    <3>1. Replied(t, "reserved") \/ t \in issue_reservations'
      BY <2>2 DEF AnswersGrow
    <3>2. Replied(t, "reserved") => t \in issue_reservations
      BY <1>0, <2>2 DEF IssueSettled
    <3> QED BY <1>0, <2>2, <3>1, <3>2 DEF ReservationsHonoured
  <2> QED BY <1>1, <1>2, <2>1, <2>2 DEF IssueSettled
<1>10. Whereabouts'
  <2>1. ASSUME NEW t \in Tokens, NEW h \in Holders, InHand(t, h) PROVE h \in holders'[t]
    BY <1>0, <2>1 DEF Whereabouts, HoldersHonoured
  <2> QED BY <1>0, <1>1, <1>2, <2>1 DEF Whereabouts
<1>11. GrantsBacked'
  <2>1. ASSUME NEW p \in Clients, NEW h \in Holders, request[p] = h, Grant(h)'
        PROVE  h \in holders'[LeaseOf(h)]
    <3>1. CASE Grant(h)
      <4>1. h \in holders[LeaseOf(h)]
        BY <1>0, <2>1, <3>1 DEF GrantsBacked
      <4>2. LeaseOf(h) \in Tokens
        <5>1. caller[h] = p /\ p # None
          BY <1>0, <2>1, KindsDiffer, ClientsAssumption DEF Calls, ClientCall
        <5>2. h \in Children => target[h] \in Tokens
          BY <1>0, <5>1 DEF Calls, ChildCall, ProtocolTypeOK
        <5> QED BY <5>2 DEF LeaseOf, Holders
      <4> QED BY <1>0, <2>1, <4>1, <4>2 DEF HoldersHonoured
    <3>2. CASE ~Grant(h)
      <4>1. PICK u \in Tokens : h \in holders'[u]
        BY <2>1, <3>2 DEF AnswersGrow
      <4>2. h \in Tokens => h = u
        BY <1>0, <4>1 DEF Answering, IssueAnswers
      <4>3. h \in Children => target[h] = u
        BY <1>1, <1>5, <4>1 DEF Calls, ChildCall
      <4>4. LeaseOf(h) = u
        BY <4>2, <4>3 DEF LeaseOf, Holders
      <4> QED BY <4>1, <4>4
    <3> QED BY <3>1, <3>2
  <2>2. ASSUME NEW t \in Tokens, NEW h \in Holders, <<t, h>> \in collected
        PROVE  /\ t = LeaseOf(h) /\ Grant(h)' /\ caller[h] # None
               /\ \A p \in Clients : request[p] # h
               /\ <<t, h>> \notin lost' => h \notin holders'[t]
    <3>1. /\ t = LeaseOf(h) /\ Grant(h) /\ caller[h] # None
          /\ \A p \in Clients : request[p] # h
          /\ <<t, h>> \notin lost => h \notin holders[t]
      BY <1>0, <2>2 DEF GrantsBacked
    <3>2. <<t, h>> \notin lost' => h \notin holders'[t]
      BY <1>0, <3>1 DEF HoldersHonoured, MessagesHonoured
    <3> QED BY <1>3, <3>1, <3>2
  <2>3. lost' \subseteq collected
    BY <1>0 DEF GrantsBacked
  <2> QED BY <1>1, <1>2, <2>1, <2>2, <2>3 DEF GrantsBacked
<1>12. Accounted'
  <2> SUFFICES ASSUME NEW t \in Tokens, NEW h \in Holders
      PROVE  /\ h \in holders'[t] => outcome[h] = "ok" \/ Pending(t, h)'
             /\ owner' = "up" /\ h \in holders'[t] /\ outcome[h] = "ok" =>
                  \/ InHand(t, h)
                  \/ \E p \in Clients : InChan(p, ReleaseMsg(t, h))' \/ stage[p] = "dead"
             /\ \A p \in Clients : caller[h] = p =>
                  /\ Pending(t, h)' /\ outcome[h] = "ok" => InChan(p, Confirmation(t, h))'
                  /\ owner' = "up" /\ h \in holders'[t] /\ Withdrawn(h) =>
                       InChan(p, Withdrawal(t, h))'
    BY <1>1, <1>2 DEF Accounted
  <2>0. /\ h \in Requests /\ (outcome[h] = "ok" => Grant(h))
        /\ h \notin holders[t] /\ h \in holders'[t] => ~Grant(h)
    BY <1>0, KindsDiffer DEF Calls, RequestCall, HoldersHonoured
  <2>1. ASSUME h \in holders'[t] PROVE outcome[h] = "ok" \/ Pending(t, h)'
    BY <1>0, <2>1 DEF Accounted, HoldersHonoured
  <2>2. ASSUME owner' = "up", h \in holders'[t], outcome[h] = "ok", ~InHand(t, h),
               \A p \in Clients : stage[p] # "dead"
        PROVE  \E p \in Clients : InChan(p, ReleaseMsg(t, h))'
    <3>1. owner = "up" /\ h \in holders[t]
      BY <1>0, <2>0, <2>2 DEF OwnerHonest
    <3>2. PICK p \in Clients : InChan(p, ReleaseMsg(t, h))
      BY <1>0, <2>2, <3>1 DEF Accounted
    <3> QED BY <1>0, <2>2, <3>2 DEF MessagesHonoured
  <2>3. ASSUME NEW p \in Clients, caller[h] = p, Pending(t, h)', outcome[h] = "ok"
        PROVE  InChan(p, Confirmation(t, h))'
    <3>1. Pending(t, h)
      BY <1>0, <2>0, <2>3 DEF HoldersHonoured
    <3>2. InChan(p, Confirmation(t, h))
      BY <1>0, <2>3, <3>1 DEF Accounted
    <3> QED BY <1>0, <2>3, <3>2 DEF MessagesHonoured
  <2>4. ASSUME NEW p \in Clients, caller[h] = p, owner' = "up", h \in holders'[t], Withdrawn(h)
        PROVE  InChan(p, Withdrawal(t, h))'
    <3>1. CASE h \in holders[t]
      <4>1. InChan(p, Withdrawal(t, h))
        BY <1>0, <2>4, <3>1 DEF Accounted, OwnerHonest
      <4> QED BY <1>0, <2>4, <4>1 DEF MessagesHonoured
    <3>2. CASE h \notin holders[t]
      BY <1>0, <2>4, <3>2 DEF HoldersHonoured
    <3> QED BY <3>1, <3>2
  <2> QED BY <2>1, <2>2, <2>3, <2>4
<1>13. WithdrawalsFollow'
  <2> SUFFICES ASSUME owner' = "up", NEW p \in Clients, NEW t \in Tokens, NEW h \in Holders,
                      caller[h] = p, LeaseOf(h) = t, Withdrawn(h),
                      h \in Tokens \/ h \notin seen'
               PROVE  Followed(p, Asking(t, h), Withdrawal(t, h))'
    BY <1>1, <1>2 DEF WithdrawalsFollow
  <2>1. Followed(p, Asking(t, h), Withdrawal(t, h))
    BY <1>0 DEF WithdrawalsFollow, OwnerHonest
  <2> QED BY <1>0, <2>1 DEF ChanKept
<1>14. OwnerSane'
  BY <1>0 DEF OwnerHonest, OwnerSane
<1> QED BY <1>4, <1>5, <1>6, <1>7, <1>8, <1>9, <1>10, <1>11, <1>12, <1>13, <1>14 DEF PInv

-----------------------------------------------------------------------------
(* What the owner's handlers do to holders and open calls.                   *)

\* The step takes away no reservation, puts no token to work, and the only
\* holders it takes away are those of S; a call it closes has lost its holder.
Loses(S) ==
  /\ issue_reservations \subseteq issue_reservations' /\ seen \subseteq seen'
  /\ \A u \in Tokens : status[u] = "unissued" => status'[u] = "unissued"
  /\ \A u \in Tokens, k \in Holders :
       /\ k \in holders'[u] => k \in holders[u]
       /\ k \in holders[u] /\ k \notin holders'[u] => <<u, k>> \in S
       /\ Pending(u, k)' => Pending(u, k)
       /\ Pending(u, k) /\ k \in holders'[u] => Pending(u, k)'

\* The owner neither comes back nor leaves an orderly stop, and is not corrupted.
GoesOn ==
  /\ owner' = "up" => owner = "up"
  /\ owner = "stopped" => owner' = "stopped"
  /\ owner' # "corrupt"

\* A step that may complete a drain.
LEMMA StopSane == owner = "up" /\ StopOrContinue => GoesOn
BY DEF StopOrContinue, CompleteDrain, GoesOn

\* A step that leaves holders and open calls alone.
LEMMA LosesNothing ==
  ASSUME UNCHANGED <<holders, pending_issue, pending_retains>>,
         issue_reservations \subseteq issue_reservations', seen \subseteq seen',
         \A u \in Tokens : status[u] = "unissued" => status'[u] = "unissued"
  PROVE  Loses({})
BY DEF Loses, Pending

\* release_entry closes the open calls of its token.
LEMMA ReleaseEntryCloses ==
  ASSUME TypeOK, SingleFlight, NEW t \in Tokens, NEW w \in Requests \cup {None}, NEW D,
         ReleaseEntry(t, w, D), status[t] \in {"unissued", "active", "release_failed"}
  PROVE  /\ \A u \in Tokens \ {t} : status[u] = "unissued" => status'[u] = "unissued"
         /\ \A k \in Holders : ~Pending(t, k)'
         /\ \A u \in Tokens \ {t}, k \in Holders : Pending(u, k)' <=> Pending(u, k)
<1>1. \A u \in Tokens \ {t} : status[u] = "unissued" => status'[u] = "unissued"
  BY ReleaseEntryFlight
<1>2. pending_issue' = pending_issue \ {t} /\ pending_retains' = [pending_retains EXCEPT ![t] = {}]
  BY DEF ReleaseEntry
<1>3. pending_retains'[t] = {} /\ \A u \in Tokens \ {t} : pending_retains'[u] = pending_retains[u]
  BY <1>2 DEF TypeOK
<1> QED BY <1>1, <1>2, <1>3 DEF Pending

\* remove_holder takes away the holder it is called for.
LEMMA RemoveHolderLoses ==
  ASSUME MInv, NEW t \in Tokens, NEW h \in Holders, RemoveHolder(t, h), owner = "up",
         status[t] = "active", UNCHANGED seen
  PROVE  Loses({<<t, h>>}) /\ h \notin holders'[t] /\ GoesOn
<1>0. TypeOK /\ SingleFlight /\ Monitored /\ None \in Requests \cup {None}
  BY DEF MInv, UInv, IInv
<1>1. CASE /\ holders[t] = {h} /\ holders' = [holders EXCEPT ![t] = @ \ {h}]
           /\ ReleaseEntry(t, None, {}) /\ UNCHANGED issue_reservations /\ StopOrContinue
  <2>1. holders'[t] = {} /\ \A u \in Tokens \ {t} : holders'[u] = holders[u]
    BY <1>0, <1>1 DEF TypeOK
  <2>2. /\ \A u \in Tokens \ {t} : status[u] = "unissued" => status'[u] = "unissued"
        /\ \A k \in Holders : ~Pending(t, k)'
        /\ \A u \in Tokens \ {t}, k \in Holders : Pending(u, k)' <=> Pending(u, k)
    BY <1>0, <1>1, ReleaseEntryCloses
  <2> QED BY <1>1, <2>1, <2>2, StopSane DEF Loses
<1>2. CASE /\ ClearPendingRetain(t, h) /\ UNCHANGED <<owner, status, issue_reservations>>
           /\ holders' = [holders EXCEPT ![t] = @ \ {h}]
  <2>1. /\ \A u \in Tokens : holders'[u] = IF u = t THEN holders[t] \ {h} ELSE holders[u]
        /\ \A u \in Tokens : pending_retains'[u] =
             IF u = t THEN pending_retains[t] \ {h} ELSE pending_retains[u]
        /\ pending_issue' = pending_issue
    BY <1>0, <1>2 DEF TypeOK, ClearPendingRetain
  <2>2. ASSUME NEW u \in Tokens, NEW k \in Holders
        PROVE  /\ k \in holders'[u] => k \in holders[u]
               /\ k \in holders[u] /\ k \notin holders'[u] => <<u, k>> \in {<<t, h>>}
               /\ Pending(u, k)' => Pending(u, k)
               /\ Pending(u, k) /\ k \in holders'[u] => Pending(u, k)'
    BY <2>1 DEF Pending
  <2> QED BY <1>2, <2>1, <2>2 DEF Loses, GoesOn
<1>3. CASE h \notin holders[t] /\ UNCHANGED <<owner, status, issue_reservations, holders,
                                              pending_issue, pending_retains>>
  <2>1. Loses({})
    BY <1>3, LosesNothing
  <2> QED BY <1>3, <2>1 DEF Loses, GoesOn
<1> QED BY <1>1, <1>2, <1>3 DEF RemoveHolder, processVars, jobVars, holderVars

\* cancel_pending_issue takes away every holder of its token.
LEMMA CancelPendingLoses ==
  ASSUME MInv, NEW t \in Tokens, IssuePending(t), CancelPendingIssue(t), owner = "up"
  PROVE  Loses({t} \X Holders) /\ holders'[t] = {} /\ GoesOn
<1>0. TypeOK /\ SingleFlight /\ None \in Requests \cup {None} /\ status[t] = "active"
  BY DEF MInv, UInv, IInv, IssuePending
<1>1. /\ holders' = [holders EXCEPT ![t] = {}] /\ ReleaseEntry(t, None, {})
      /\ UNCHANGED <<issue_reservations, seen>> /\ StopOrContinue
  BY DEF CancelPendingIssue
<1>2. holders'[t] = {} /\ \A u \in Tokens \ {t} : holders'[u] = holders[u]
  BY <1>0, <1>1 DEF TypeOK
<1>3. /\ \A u \in Tokens \ {t} : status[u] = "unissued" => status'[u] = "unissued"
      /\ \A k \in Holders : ~Pending(t, k)'
      /\ \A u \in Tokens \ {t}, k \in Holders : Pending(u, k)' <=> Pending(u, k)
  BY <1>0, <1>1, ReleaseEntryCloses
<1> QED BY <1>0, <1>1, <1>2, <1>3, StopSane DEF Loses

\* A release result, a retry timer or a drain call takes no holder away.
LEMMA FinishLoses ==
  ASSUME UInv, release_job # NoJob, owner = "up", NEW inbox,
         FinishReleased(release_job) \/ FinishFailed(release_job, inbox)
  PROVE  Loses({}) /\ GoesOn
<1>0. TypeOK /\ SingleFlight
  BY DEF UInv, IInv
<1>1. PICK end \in {"retired", "release_failed"} :
        \E box : /\ DispatchNextRelease([status EXCEPT ![release_job.token] = end],
                                        release_queue, NoJob, box)
                 /\ UNCHANGED <<release_attempts, issue_reservations, holders, seen,
                                pending_issue, pending_retains>>
                 /\ GoesOn
  BY DEF FinishReleased, FinishFailed, holderVars, pendingVars, CompleteDrain, GoesOn,
         processVars
<1>2. PICK box : /\ DispatchNextRelease([status EXCEPT ![release_job.token] = end],
                                        release_queue, NoJob, box)
                 /\ UNCHANGED <<release_attempts, issue_reservations, holders, seen,
                                pending_issue, pending_retains>>
                 /\ GoesOn
  BY <1>1
<1>3. /\ status[release_job.token] = "releasing"
      /\ \A u \in Tokens \ {release_job.token} : Started(u)
  BY <1>0, <1>2, FinishFlight
<1>4. \A u \in Tokens : status[u] = "unissued" => status'[u] = "unissued"
  BY <1>3 DEF Started
<1> QED BY <1>2, <1>4, LosesNothing

\* An idle owner has nothing to dispatch.
LEMMA DispatchLoses ==
  ASSUME UInv, release_job = NoJob, NEW inbox,
         DispatchNextRelease(status, release_queue, NoJob, inbox)
  PROVE  UNCHANGED status
<1>0. TypeOK /\ SingleFlight /\ release_queue = <<>>
  BY DEF UInv, IInv, SingleFlight
<1> QED BY <1>0 DEF DispatchNextRelease

\* Closing the owner, its executor, its timers and its end.
LEMMA BackgroundLoses ==
  ASSUME UInv, owner # "corrupt",
         \/ Close \/ ProducerDown \/ ExecutorCrash \/ ExecutorExit \/ OwnerKilled
         \/ ReleaseResult \/ ExecutorDown
         \/ \E m \in timers : TimerFires(m[1], m[2])
         \/ \E m \in fired : RetryTimer(m[1], m[2])
         \/ \E ok \in BOOLEAN : ExecuteRelease(ok)
  PROVE  Loses({}) /\ GoesOn /\ UNCHANGED seen
<1>0. TypeOK /\ SingleFlight /\ Held
  BY DEF UInv, IInv
<1>1. CASE Close \/ ProducerDown
  <2>1. /\ owner = "up" /\ StopOrContinue
        /\ UNCHANGED <<holders, pending_issue, pending_retains, issue_reservations, seen, status>>
    BY <1>1 DEF Close, ProducerDown, BeginDrain, pendingVars, holderVars, jobVars
  <2> QED BY <2>1, LosesNothing, StopSane
<1>2. CASE \/ ExecutorCrash \/ ExecutorExit
           \/ \E m \in timers : TimerFires(m[1], m[2])
           \/ \E ok \in BOOLEAN : ExecuteRelease(ok)
  <2>1. UNCHANGED <<owner, holders, pending_issue, pending_retains, issue_reservations, seen,
                    status>>
    BY <1>2 DEF ExecutorCrash, ExecutorExit, TimerFires, ExecuteRelease, processVars,
                pendingVars, holderVars, jobVars
  <2> QED BY <2>1, LosesNothing DEF GoesOn
<1>3. CASE OwnerKilled
  <2>1. /\ owner = "up" /\ owner' = "killed"
        /\ UNCHANGED <<holders, pending_issue, pending_retains, issue_reservations, seen, status>>
    BY <1>3 DEF OwnerKilled, pendingVars, holderVars, jobVars
  <2> QED BY <2>1, LosesNothing DEF GoesOn
<1>4. ASSUME NEW inbox, owner = "up", release_job # NoJob,
             FinishReleased(release_job) \/ FinishFailed(release_job, inbox)
      PROVE  Loses({}) /\ GoesOn /\ UNCHANGED seen
  BY <1>4, FinishLoses DEF FinishReleased, FinishFailed
<1>5. CASE ReleaseResult
  <2>1. CASE UNCHANGED <<owner, holders, pending_issue, pending_retains, issue_reservations, seen,
                         status>>
    BY <2>1, <1>0, <1>5, LosesNothing DEF GoesOn, ReleaseResult
  <2>2. CASE /\ owner = "up" /\ release_job # NoJob
             /\ FinishReleased(release_job) \/ FinishFailed(release_job, executor_inbox)
    BY <2>2, <1>4
  <2> QED BY <1>5, <2>1, <2>2 DEF ReleaseResult, CurrentJob, processVars, pendingVars,
                                  holderVars, jobVars
<1>6. CASE ExecutorDown
  <2>1. CASE release_job = NoJob
    <3>1. /\ DispatchNextRelease(status, release_queue, NoJob, <<>>)
          /\ UNCHANGED <<owner, holders, pending_issue, pending_retains, issue_reservations, seen>>
      BY <1>6, <2>1 DEF ExecutorDown, processVars, pendingVars, holderVars
    <3>2. UNCHANGED status
      BY <2>1, <3>1, DispatchLoses
    <3> QED BY <1>0, <1>6, <3>1, <3>2, LosesNothing DEF GoesOn, ExecutorDown
  <2>2. CASE release_job # NoJob
    BY <1>4, <1>6, <2>2 DEF ExecutorDown
  <2> QED BY <2>1, <2>2
<1>7. ASSUME NEW m \in fired, RetryTimer(m[1], m[2]) PROVE Loses({}) /\ GoesOn /\ UNCHANGED seen
  <2>0. /\ owner = "up" /\ m[1] \in Tokens /\ None \in Requests \cup {None}
        /\ UNCHANGED <<owner, holders, issue_reservations, seen>>
    BY <1>0, <1>7 DEF RetryTimer, TypeOK, processVars, holderVars
  <2>1. CASE UNCHANGED <<pending_issue, pending_retains, status>>
    BY <2>0, <2>1, LosesNothing DEF GoesOn
  <2>2. CASE status[m[1]] = "release_failed" /\ ReleaseEntry(m[1], None, {})
    <3> DEFINE t == m[1]
    <3>1. /\ \A u \in Tokens \ {t} : status[u] = "unissued" => status'[u] = "unissued"
          /\ \A k \in Holders : ~Pending(t, k)'
          /\ \A u \in Tokens \ {t}, k \in Holders : Pending(u, k)' <=> Pending(u, k)
      BY <1>0, <2>0, <2>2, ReleaseEntryCloses
    <3>2. holders[t] = {}
      BY <1>0, <2>0, <2>2 DEF Held
    <3> QED BY <2>0, <2>2, <3>1, <3>2 DEF Loses, GoesOn
  <2> QED BY <1>7, <2>1, <2>2 DEF RetryTimer, pendingVars, jobVars
<1> QED BY <1>1, <1>2, <1>3, <1>5, <1>6, <1>7

-----------------------------------------------------------------------------
(* When a step of the owner is honest.                                       *)

\* What the owner may rely on when it takes the message m of client p.
LEMMA JustifiedSays ==
  ASSUME NEW p \in Clients, NEW m, Justified(p, m)
  PROVE  /\ m.kind \in {"reserve", "commit", "cancel_reservation", "confirm_issue",
                        "cancel_issue"} => m.token \in Tokens
         /\ m.kind \in {"retain", "confirm_retain", "cancel_retain"} =>
              m.token \in Tokens /\ m.holder \in Children /\ target[m.holder] = m.token
         /\ m.kind = "reserve" => caller[m.token] = p
         /\ m.kind = "commit" =>
              m = CommitMsg(m.token) /\ caller[m.token] = p /\ m.token \in issue_reservations
         /\ m.kind = "cancel_reservation" => outcome[m.token] = "caller_owned"
         /\ m.kind = "confirm_issue" => outcome[m.token] = "ok"
         /\ m.kind = "cancel_issue" => outcome[m.token] = "transferred"
         /\ m.kind = "retain" => m = RetainMsg(m.token, m.holder) /\ caller[m.holder] = p
         /\ m.kind = "confirm_retain" => outcome[m.holder] = "ok"
         /\ m.kind = "cancel_retain" => outcome[m.holder] = "error"
         /\ m.kind = "release" =>
              /\ m.token \in Tokens /\ m.holder \in Holders /\ outcome[m.holder] = "ok"
              /\ ~InHand(m.token, m.holder)
         /\ m.kind \in {"drain", "cancel_drain"} =>
              m.request \in Callers /\ caller[m.request] # None
         /\ m.kind = "down" => m = DownMessage
<1> USE MessageFields
<1>1. CASE m = DownMessage
  BY <1>1 DEF DownMessage
<1>2. ASSUME NEW t \in Tokens,
             \/ m = ReserveMsg(t) /\ caller[t] = p
             \/ m = CommitMsg(t) /\ caller[t] = p /\ t \in issue_reservations
             \/ m = CancelReservationMsg(t) /\ outcome[t] = "caller_owned"
             \/ m = ConfirmIssueMsg(t) /\ outcome[t] = "ok"
             \/ m = CancelIssueMsg(t) /\ outcome[t] = "transferred"
      PROVE  /\ m.token = t
             /\ m.kind \in {"reserve", "commit", "cancel_reservation", "confirm_issue",
                            "cancel_issue"}
             /\ m.kind = "reserve" => caller[t] = p
             /\ m.kind = "commit" =>
                  m = CommitMsg(t) /\ caller[t] = p /\ t \in issue_reservations
             /\ m.kind = "cancel_reservation" => outcome[t] = "caller_owned"
             /\ m.kind = "confirm_issue" => outcome[t] = "ok"
             /\ m.kind = "cancel_issue" => outcome[t] = "transferred"
  BY <1>2 DEF ReserveMsg, CommitMsg, CancelReservationMsg, ConfirmIssueMsg, CancelIssueMsg
<1>3. ASSUME NEW t \in Tokens, NEW h \in Children, target[h] = t,
             \/ m = RetainMsg(t, h) /\ caller[h] = p
             \/ m = ConfirmRetainMsg(t, h) /\ outcome[h] = "ok"
             \/ m = CancelRetainMsg(t, h) /\ outcome[h] = "error"
      PROVE  /\ m.token = t /\ m.holder = h
             /\ m.kind \in {"retain", "confirm_retain", "cancel_retain"}
             /\ m.kind = "retain" => m = RetainMsg(t, h) /\ caller[h] = p
             /\ m.kind = "confirm_retain" => outcome[h] = "ok"
             /\ m.kind = "cancel_retain" => outcome[h] = "error"
  BY <1>3 DEF RetainMsg, ConfirmRetainMsg, CancelRetainMsg
<1>4. ASSUME NEW t \in Tokens, NEW h \in Holders, m = ReleaseMsg(t, h)
      PROVE  m.kind = "release" /\ m.token = t /\ m.holder = h
  BY <1>4 DEF ReleaseMsg
<1>5. ASSUME NEW c \in Callers, m \in {DrainMsg(c), CancelDrainMsg(c)}
      PROVE  m.kind \in {"drain", "cancel_drain"} /\ m.request = c
  BY <1>5 DEF DrainMsg, CancelDrainMsg
<1> QED BY <1>1, <1>2, <1>3, <1>4, <1>5 DEF Justified

\* A call that returned is no one's open call, and only a call that returned a
\* lease has one in hand; no child of a lease is asked for before that.
LEMMA CallOver ==
  ASSUME PInv, Answering
  PROVE  /\ \A h \in Holders : outcome[h] # "none" => \A p \in Clients : request[p] # h
         /\ \A t \in Tokens, h \in Holders : InHand(t, h) => outcome[h] = "ok"
         /\ \A t \in Tokens, h \in Holders :
              outcome[t] # "ok" /\ h \in holders[t] => h = t /\ ~InHand(t, h)
         /\ \A p \in Clients, h \in Holders : request[p] = h => caller[h] = p /\ stage[p] # "dead"
<1>1. /\ \A p \in Clients : ClientCall(p)
      /\ \A h \in Children : ChildCall(h)
      /\ \A t \in Tokens, h \in Holders : InHand(t, h) => outcome[h] = "ok" /\ outcome[t] = "ok"
  BY DEF PInv, Calls, Whereabouts
<1>2. \A p \in Clients, h \in Holders :
        request[p] = h => outcome[h] = "none" /\ caller[h] = p /\ Waiting(p)
  BY <1>1, KindsDiffer DEF ClientCall
<1>3. ASSUME NEW t \in Tokens, NEW h \in Holders, outcome[t] # "ok", h \in holders[t] PROVE h = t
  <2>1. CASE h \in Tokens
    BY <1>3, <2>1 DEF Answering, IssueAnswers
  <2>2. CASE h \in Children
    BY <1>1, <1>3, <2>2, KindsDiffer DEF ChildCall
  <2> QED BY <2>1, <2>2 DEF Holders
<1> QED BY <1>1, <1>2, <1>3 DEF Waiting

\* A step that takes holders from no one's hands and from no open call.
LEMMA LossHonest ==
  ASSUME NEW S, Loses(S), GoesOn, \A r \in seen' : caller[r] # None,
         \A t \in Tokens, h \in Holders : <<t, h>> \in S /\ h \in holders[t] =>
           ~InHand(t, h) /\ \A p \in Clients : request[p] # h
  PROVE  ReservationsHonoured /\ HoldersHonoured /\ OwnerHonest
<1>1. ReservationsHonoured
  BY DEF Loses, ReservationsHonoured
<1>2. HoldersHonoured
  BY DEF Loses, HoldersHonoured
<1>3. OwnerHonest
  BY DEF Loses, OwnerHonest, GoesOn
<1> QED BY <1>1, <1>2, <1>3

\* A step that closes calls that returned a lease.
LEMMA CloseHonest ==
  ASSUME OwnerSane, UNCHANGED <<owner, issue_reservations, status, holders, seen>>,
         \A r \in seen : caller[r] # None,
         \A t \in Tokens, h \in Holders :
           /\ Pending(t, h)' => Pending(t, h)
           /\ Pending(t, h) /\ ~Pending(t, h)' => outcome[h] = "ok"
  PROVE  ReservationsHonoured /\ HoldersHonoured /\ OwnerHonest
BY DEF ReservationsHonoured, HoldersHonoured, OwnerHonest, OwnerSane

\* A reservation is removed on which no one counts.
LEMMA DropHonest ==
  ASSUME owner = "up", \A r \in seen : caller[r] # None, NEW t \in Tokens,
         RemoveIssueReservation(t),
         \A p \in Clients : ~InChan(p, CommitMsg(t))' /\ request[p] # t
  PROVE  ReservationsHonoured /\ HoldersHonoured /\ OwnerHonest
<1>1. /\ issue_reservations' = issue_reservations \ {t} /\ GoesOn
      /\ UNCHANGED <<status, holders, pending_issue, pending_retains, seen>>
  BY StopSane DEF RemoveIssueReservation, jobVars, holderVars
<1>2. ReservationsHonoured
  BY <1>1 DEF ReservationsHonoured
<1>3. HoldersHonoured
  BY <1>1 DEF HoldersHonoured, Pending
<1>4. OwnerHonest
  BY <1>1 DEF OwnerHonest, GoesOn
<1> QED BY <1>2, <1>3, <1>4

\* The owner has taken the message m, and done what it asks for.
LEMMA TakenHonoured ==
  ASSUME chan \in [Clients -> Seq(Messages)], NEW p \in Clients, chan[p] # <<>>,
         chan' = [chan EXCEPT ![p] = Tail(@)], NEW m, m = Head(chan[p]), m # DownMessage,
         UNCHANGED lost, Answering',
         m.kind = "confirm_issue" => m.token \notin pending_issue',
         m.kind = "cancel_issue" => m.token \notin holders'[m.token],
         m.kind = "confirm_retain" => m.holder \notin pending_retains'[m.token],
         m.kind \in {"cancel_retain", "release"} => m.holder \notin holders'[m.token]
  PROVE  ChanKept /\ MessagesHonoured
<1>1. /\ chan' \in [Clients -> Seq(Messages)]
      /\ \A q \in Clients : \A x : InChan(q, x)' => InChan(q, x)
      /\ \A q \in Clients : \A x : InChan(q, x) /\ ~InChan(q, x)' => q = p /\ x = m
      /\ \A q \in Clients : \A x : Once(q, x) => Once(q, x)'
      /\ \A q \in Clients : \A x, y : Followed(q, x, y) => Followed(q, x, y)'
      /\ \A q \in Clients : DownLast(q) => DownLast(q)'
  BY ReceiveFacts
<1>2. ChanKept
  BY <1>1 DEF ChanKept
<1>3. ASSUME NEW t \in Tokens, NEW h \in Holders, m = Confirmation(t, h) PROVE ~Pending(t, h)'
  <2>1. CASE h \in Tokens
    BY <1>3, <2>1, MessageFields DEF Confirmation, ConfirmIssueMsg, Pending
  <2>2. CASE h \notin Tokens
    BY <1>3, <2>2, MessageFields DEF Confirmation, ConfirmRetainMsg, Pending
  <2> QED BY <2>1, <2>2
<1>4. ASSUME NEW t \in Tokens, NEW h \in Holders, m = Withdrawal(t, h) PROVE h \notin holders'[t]
  <2>1. CASE h \in Tokens
    <3>1. t \notin holders'[t]
      BY <1>4, <2>1, MessageFields DEF Withdrawal, CancelIssueMsg
    <3>2. h \in holders'[t] => h = t
      BY <2>1 DEF Answering, IssueAnswers
    <3> QED BY <3>1, <3>2
  <2>2. CASE h \notin Tokens
    BY <1>4, <2>2, MessageFields DEF Withdrawal, CancelRetainMsg
  <2> QED BY <2>1, <2>2
<1>5. ASSUME NEW t \in Tokens, NEW h \in Holders, m = ReleaseMsg(t, h) PROVE h \notin holders'[t]
  BY <1>5, MessageFields DEF ReleaseMsg
<1>6. MessagesHonoured
  BY <1>1, <1>3, <1>4, <1>5 DEF MessagesHonoured
<1> QED BY <1>2, <1>6

\* The owner has taken no message.
LEMMA NothingTaken ==
  ASSUME chan \in [Clients -> Seq(Messages)], UNCHANGED chan,
         \A t \in Tokens, h \in Holders :
           <<t, h>> \in lost /\ <<t, h>> \notin lost' => h \notin holders'[t]
  PROVE  ChanKept /\ MessagesHonoured
<1>1. ChanKept
  BY DEF ChanKept, InChan, Once, Followed, DownLast
<1>2. \A q \in Clients : \A x : InChan(q, x)' <=> InChan(q, x)
  BY DEF InChan
<1>3. MessagesHonoured
  BY <1>2 DEF MessagesHonoured
<1> QED BY <1>1, <1>3

-----------------------------------------------------------------------------
(* The owner handles the messages of its clients.                            *)

\* What the owner and the client's invariants say as the owner takes a message.
Taking(p, m) ==
  /\ PInv /\ OwnerFacts /\ OwnerFacts'
  /\ chan[p] # <<>> /\ m = Head(chan[p])
  /\ chan' = [chan EXCEPT ![p] = Tail(@)]
  /\ UNCHANGED <<clientVars, taken, mailbox, leaseVars, guardVars, outcome>>

\* What the owner knows of the message that it takes.
LEMMA TakingSays ==
  ASSUME NEW p \in Clients, NEW m, Taking(p, m)
  PROVE  /\ TypeOK /\ SingleFlight /\ Held /\ Admission /\ Monitored /\ Remembered
         /\ Answering /\ Answering' /\ UInv /\ MInv
         /\ chan \in [Clients -> Seq(Messages)] /\ OwnerSane
         /\ m \in Messages /\ InChan(p, m) /\ Justified(p, m)
         /\ \A r \in seen : caller[r] # None
         /\ UNCHANGED lost
<1>1. /\ chan \in [Clients -> Seq(Messages)] /\ MessagesJustified /\ Calls /\ OwnerSane
  BY DEF Taking, PInv, ProtocolTypeOK
<1>2. m \in Messages /\ InChan(p, m)
  BY <1>1, ReceiveFacts DEF Taking
<1>3. \A r \in seen : caller[r] # None
  BY DEF Calls, RequestCall, Taking, OwnerFacts, AInv, UInv, IInv, TypeOK, PInv
<1>4. /\ TypeOK /\ SingleFlight /\ Held /\ Admission /\ Monitored /\ Remembered
      /\ Answering /\ Answering' /\ UInv /\ MInv
  BY DEF Taking, OwnerFacts, AInv, MInv, OInv, UInv, IInv
<1> QED BY <1>1, <1>2, <1>3, <1>4 DEF MessagesJustified, Taking, guardVars

\* A step that is honest towards its clients, messages taken included.
Handled == ReservationsHonoured /\ HoldersHonoured /\ OwnerHonest /\ ChanKept /\ MessagesHonoured

\* An issue call asks for a reservation.
LEMMA ReserveHandled ==
  ASSUME NEW p \in Clients, NEW m, Taking(p, m), m.kind = "reserve", ReserveIssue(m.token)
  PROVE  Handled
<1>a. /\ m.token \in Tokens
      /\ caller[m.token] = p
      /\ p # None
      /\ m # DownMessage
  BY TakingSays, JustifiedSays, MessageFields, ClientsAssumption DEF DownMessage
<1>b. /\ OwnerSane
      /\ UNCHANGED lost
      /\ Answering'
      /\ chan \in [Clients -> Seq(Messages)]
      /\ \A r \in seen : caller[r] # None
  BY TakingSays DEF Taking, PInv
<1>1. /\ owner = "up" /\ seen' = seen \cup {m.token} /\ issue_reservations \subseteq issue_reservations'
      /\ UNCHANGED <<owner, holders, pending_issue, pending_retains, status>>
  BY DEF ReserveIssue, processVars, holderVars, jobVars
<1>2. Loses({}) /\ GoesOn
  BY <1>1, LosesNothing DEF GoesOn
<1>3. ReservationsHonoured /\ HoldersHonoured /\ OwnerHonest
  BY <1>a, <1>b, <1>1, <1>2, LossHonest
<1>4. ChanKept /\ MessagesHonoured
  BY <1>a, <1>b, TakenHonoured DEF Taking
<1> QED BY <1>3, <1>4 DEF Handled

\* A commit, with its reservation, of a call that counts on it.
LEMMA CommitHandled ==
  ASSUME NEW p \in Clients, NEW m, Taking(p, m), m.kind = "commit",
         CommitIssue(m.token) \/ RejectIssue(m.token) \/ CommitUnknown(m.token)
  PROVE  Handled
<1> DEFINE t == m.token
<1>a. /\ t \in Tokens
      /\ m = CommitMsg(t)
      /\ caller[t] = p
      /\ t \in issue_reservations
      /\ m # DownMessage
  BY TakingSays, JustifiedSays, MessageFields, ClientsAssumption DEF DownMessage
<1>b. /\ TypeOK
      /\ SingleFlight
      /\ Held
      /\ Admission
      /\ Monitored
      /\ Answering
      /\ PInv
      /\ OwnerSane
      /\ UNCHANGED lost
      /\ Answering'
      /\ chan \in [Clients -> Seq(Messages)]
      /\ \A r \in seen : caller[r] # None
      /\ InChan(p, m)
      /\ m \in Messages
  BY TakingSays DEF Taking, PInv
<1>1. /\ MessagesJustified /\ IssueSettled /\ WithdrawalsFollow
      /\ \A q \in Clients : InChan(q, m)' => InChan(q, m)
      /\ ~InChan(p, m)'
      /\ \A y : Followed(p, m, y) => InChan(p, y)'
  <2>1. Once(p, m) /\ MessagesJustified /\ IssueSettled /\ WithdrawalsFollow
    BY <1>a, <1>b DEF MessagesJustified, PInv
  <2> QED BY <1>a, <1>b, <2>1, ReceiveFacts DEF Taking
<1>2. /\ \A q \in Clients : ~InChan(q, CommitMsg(t))'
      /\ ~Uncommitted(t)
  <2>1. \A q \in Clients : InChan(q, CommitMsg(t)) => caller[t] = q
    BY <1>a, <1>b, <1>1, MessagesSay
  <2> QED BY <1>a, <1>b, <1>1, <2>1 DEF IssueSettled
<1>3. /\ status[t] = "unissued" /\ holders[t] = {} /\ t \notin pending_issue
      /\ \A k \in Children : k \notin pending_retains[t]
  BY <1>a, <1>b DEF Admission, Held, Monitored
<1>4. ~Grant(t)
  <2>1. ~Replied(t, "issued")
    BY <1>a, <1>b, AnswersSay
  <2> QED BY <1>a, <1>b, <2>1 DEF Grant
<1>5. \A q \in Clients : ~(request[q] = t /\ stage[q] = "reserve")
  BY <1>2 DEF Uncommitted
<1>6. ~CommitUnknown(t)
  BY <1>a, <1>b DEF CommitUnknown
<1>7. ChanKept /\ MessagesHonoured
  BY <1>a, <1>b, TakenHonoured DEF Taking
<1>8. CASE CommitIssue(t)
  <2>1. /\ owner = "up" /\ UNCHANGED <<owner, seen, pending_retains>>
        /\ issue_reservations' = issue_reservations \ {t}
        /\ \A u \in Tokens \ {t} : status'[u] = status[u] /\ holders'[u] = holders[u]
        /\ holders'[t] = {t} /\ pending_issue' = pending_issue \cup {t}
    BY <1>a, <1>b, <1>8 DEF CommitIssue, TypeOK, processVars
  <2>2. ReservationsHonoured
    BY <1>2, <1>5, <2>1 DEF ReservationsHonoured
  <2>3. ASSUME NEW q \in Clients, caller[t] = q, Withdrawn(t) PROVE InChan(q, Withdrawal(t, t))'
    <3>1. owner = "up" /\ q = p /\ t \in Holders /\ LeaseOf(t) = t
      BY <1>a, <1>b, <2>1, <2>3, KindsDiffer DEF LeaseOf
    <3>2. Followed(p, Asking(t, t), Withdrawal(t, t))
      BY <1>a, <1>b, <1>1, <2>3, <3>1 DEF WithdrawalsFollow
    <3>3. Asking(t, t) = m
      BY <1>a, <1>b DEF Asking
    <3>4. Followed(p, m, Withdrawal(t, t))
      BY <3>2, <3>3
    <3> QED BY <1>1, <3>1, <3>4
  <2>4. ASSUME NEW u \in Tokens, NEW h \in Holders
        PROVE  /\ h \notin holders[u] /\ h \in holders'[u] => h = t /\ u = t
               /\ h \in holders[u] => h \in holders'[u]
               /\ Pending(u, h) => Pending(u, h)'
               /\ ~Pending(u, h) /\ Pending(u, h)' => h = t /\ u = t
    BY <1>a, <1>b, <1>3, <2>1 DEF Pending
  <2>5. Pending(t, t)' /\ LeaseOf(t) = t
    BY <1>a, <1>b, <2>1 DEF Pending, LeaseOf
  <2>6. HoldersHonoured
    BY <1>4, <2>3, <2>4, <2>5 DEF HoldersHonoured
  <2> QED BY <1>a, <1>b, <1>7, <2>1, <2>2, <2>6 DEF Handled, OwnerHonest
<1>9. CASE RejectIssue(t)
  <2>1. /\ owner = "up" /\ UNCHANGED <<owner, seen, holders>>
        /\ issue_reservations' = issue_reservations \ {t}
        /\ ReleaseEntry(t, t, {t}) /\ t \in Requests \cup {None}
    BY <1>a, <1>b, <1>9, KindsDiffer DEF RejectIssue, processVars, holderVars
  <2>2. /\ \A u \in Tokens \ {t} : status[u] = "unissued" => status'[u] = "unissued"
        /\ \A k \in Holders : ~Pending(t, k)'
        /\ \A u \in Tokens \ {t}, k \in Holders : Pending(u, k)' <=> Pending(u, k)
    BY <1>a, <1>b, <1>3, <2>1, ReleaseEntryCloses
  <2>3. ReservationsHonoured
    BY <1>2, <1>5, <2>1, <2>2 DEF ReservationsHonoured
  <2>4. HoldersHonoured
    <3>1. ASSUME NEW u \in Tokens, NEW h \in Holders
          PROVE  /\ Pending(u, h)' => Pending(u, h)
                 /\ Pending(u, h) /\ ~Pending(u, h)' => h \notin holders'[u]
      BY <1>3, <2>1, <2>2
    <3> QED BY <2>1, <3>1 DEF HoldersHonoured
  <2> QED BY <1>a, <1>b, <1>7, <2>1, <2>3, <2>4 DEF Handled, OwnerHonest
<1> QED BY <1>6, <1>8, <1>9

\* An issue call gave up its reservation.
LEMMA CancelReservationHandled ==
  ASSUME NEW p \in Clients, NEW m, Taking(p, m), m.kind = "cancel_reservation",
         CancelIssueReservation(m.token)
  PROVE  Handled
<1> DEFINE t == m.token
<1>a. /\ t \in Tokens
      /\ outcome[t] = "caller_owned"
      /\ m # DownMessage
  BY TakingSays, JustifiedSays, MessageFields, ClientsAssumption DEF DownMessage
<1>b. /\ PInv
      /\ Answering
      /\ UNCHANGED lost
      /\ Answering'
      /\ chan \in [Clients -> Seq(Messages)]
      /\ \A r \in seen : caller[r] # None
  BY TakingSays DEF Taking, PInv
<1>1. ChanKept /\ MessagesHonoured
  BY <1>a, <1>b, TakenHonoured DEF Taking
<1>2. \A q \in Clients : ~InChan(q, CommitMsg(t))' /\ request[q] # t
  <2>1. \A q \in Clients : ~InChan(q, CommitMsg(t))
    BY <1>a, <1>b DEF PInv, IssueSettled, Uncommitted
  <2> QED BY <1>a, <1>b, <1>1, <2>1, CallOver, KindsDiffer DEF ChanKept
<1>3. ReservationsHonoured /\ HoldersHonoured /\ OwnerHonest
  BY <1>a, <1>b, <1>2, DropHonest DEF CancelIssueReservation
<1> QED BY <1>1, <1>3 DEF Handled

\* An issue call confirms its lease.
LEMMA ConfirmIssueHandled ==
  ASSUME NEW p \in Clients, NEW m, Taking(p, m), m.kind = "confirm_issue",
         ConfirmIssue(m.token)
  PROVE  Handled
<1> DEFINE t == m.token
<1>a. /\ t \in Tokens
      /\ outcome[t] = "ok"
      /\ m # DownMessage
  BY TakingSays, JustifiedSays, MessageFields, ClientsAssumption DEF DownMessage
<1>b. /\ PInv
      /\ Monitored
      /\ OwnerSane
      /\ UNCHANGED lost
      /\ Answering'
      /\ chan \in [Clients -> Seq(Messages)]
      /\ \A r \in seen : caller[r] # None
  BY TakingSays DEF Taking, PInv
<1>1. /\ UNCHANGED <<owner, issue_reservations, status, holders, seen, pending_retains>>
      /\ pending_issue' \subseteq pending_issue /\ pending_issue \subseteq pending_issue' \cup {t}
      /\ t \notin pending_issue'
  BY <1>a, <1>b DEF ConfirmIssue, processVars, holderVars, jobVars, Monitored, vars, pendingVars
<1>2. ReservationsHonoured /\ HoldersHonoured /\ OwnerHonest
  <2>1. \A u \in Tokens, h \in Holders :
          /\ Pending(u, h)' => Pending(u, h)
          /\ Pending(u, h) /\ ~Pending(u, h)' => outcome[h] = "ok"
    BY <1>a, <1>b, <1>1 DEF Pending
  <2> QED BY <1>a, <1>b, <1>1, <2>1, CloseHonest
<1>3. ChanKept /\ MessagesHonoured
  BY <1>a, <1>b, <1>1, TakenHonoured DEF Taking
<1> QED BY <1>2, <1>3 DEF Handled

\* A cancelled issue call never had its lease, so no one retained it.
LEMMA CancelIssueHandled ==
  ASSUME NEW p \in Clients, NEW m, Taking(p, m), m.kind = "cancel_issue", CancelIssue(m.token)
  PROVE  Handled
<1> DEFINE t == m.token
<1>a. /\ t \in Tokens
      /\ outcome[t] = "transferred"
      /\ m # DownMessage
  BY TakingSays, JustifiedSays, MessageFields, ClientsAssumption DEF DownMessage
<1>b. /\ PInv
      /\ MInv
      /\ Monitored
      /\ OwnerSane
      /\ UNCHANGED lost
      /\ Answering
      /\ Answering'
      /\ chan \in [Clients -> Seq(Messages)]
      /\ \A r \in seen : caller[r] # None
      /\ Accounted
  BY TakingSays DEF Taking, PInv
<1>1. \A h \in Holders : h \in holders[t] => ~InHand(t, h) /\ \A q \in Clients : request[q] # h
  BY <1>a, <1>b, CallOver
<1>2. CASE IssuePending(t) /\ CancelPendingIssue(t)
  <2>1. Loses({t} \X Holders) /\ holders'[t] = {} /\ GoesOn /\ UNCHANGED seen
    BY <1>a, <1>b, <1>2, CancelPendingLoses DEF CancelIssue, CancelPendingIssue
  <2>2. ReservationsHonoured /\ HoldersHonoured /\ OwnerHonest
    BY <1>a, <1>b, <1>1, <2>1, LossHonest
  <2>3. ChanKept /\ MessagesHonoured
    BY <1>a, <1>b, <2>1, TakenHonoured DEF Taking
  <2> QED BY <2>2, <2>3 DEF Handled
<1>3. CASE ~(t \in pending_issues /\ IssuePending(t)) /\ UNCHANGED vars
  <2>1. UNCHANGED <<owner, issue_reservations, status, holders, seen, pending_issue, pending_retains>>
    BY <1>3 DEF vars, processVars, holderVars, jobVars, pendingVars
  <2>2. t \notin holders'[t]
    <3>1. ~Pending(t, t)
      BY <1>a, <1>b, <1>3 DEF Pending, Monitored, IssuePending
    <3> QED BY <1>a, <1>b, <2>1, <3>1, KindsDiffer DEF Accounted
  <2>3. ReservationsHonoured /\ HoldersHonoured /\ OwnerHonest
    <3>1. \A u \in Tokens, h \in Holders : Pending(u, h)' <=> Pending(u, h)
      BY <2>1 DEF Pending
    <3> QED BY <1>a, <1>b, <2>1, <3>1, CloseHonest
  <2>4. ChanKept /\ MessagesHonoured
    BY <1>a, <1>b, <2>2, TakenHonoured DEF Taking
  <2> QED BY <2>3, <2>4 DEF Handled
<1> QED BY <1>2, <1>3 DEF CancelIssue

\* A retain call, answered once.
LEMMA RetainHandled ==
  ASSUME NEW p \in Clients, NEW m, Taking(p, m), m.kind = "retain",
         Retain(m.token, parent[m.holder], m.holder) \/ RefuseRetain(m.holder)
  PROVE  Handled
<1> DEFINE t == m.token
           h == m.holder
<1>a. /\ t \in Tokens /\ h \in Children /\ target[h] = t /\ m = RetainMsg(t, h)
      /\ caller[h] = p /\ p # None /\ m # DownMessage
  BY TakingSays, JustifiedSays, MessageFields, ClientsAssumption DEF DownMessage
<1>b. /\ TypeOK /\ Answering /\ Answering' /\ PInv /\ WithdrawalsFollow /\ OwnerSane
      /\ UNCHANGED lost /\ chan \in [Clients -> Seq(Messages)]
      /\ \A r \in seen : caller[r] # None
  BY TakingSays DEF Taking, PInv
<1>1. ChanKept /\ MessagesHonoured
  BY <1>a, <1>b, TakenHonoured DEF Taking
<1>2. /\ owner = "up" /\ h \notin seen /\ seen' = seen \cup {h}
      /\ UNCHANGED <<owner, issue_reservations, status, pending_issue>>
  BY DEF Retain, RefuseRetain, processVars, jobVars, pendingVars
<1>5. \A y : Followed(p, m, y) => InChan(p, y)'
  BY <1>b, ReceiveFacts DEF Taking
<1>3. CASE RefuseRetain(h)
  <2>1. UNCHANGED <<holders, pending_retains>>
    BY <1>3 DEF RefuseRetain, holderVars, pendingVars
  <2>2. Loses({}) /\ GoesOn
    BY <1>2, <2>1, LosesNothing DEF GoesOn
  <2>3. ReservationsHonoured /\ HoldersHonoured /\ OwnerHonest
    BY <1>a, <1>b, <1>2, <2>2, LossHonest
  <2> QED BY <1>1, <2>3 DEF Handled
<1>4. CASE Retain(t, parent[h], h)
  <2>1. /\ \A u \in Tokens : holders'[u] = IF u = t THEN holders[t] \cup {h} ELSE holders[u]
        /\ \A u \in Tokens : pending_retains'[u] =
             IF u = t THEN pending_retains[t] \cup {h} ELSE pending_retains[u]
    BY <1>a, <1>b, <1>4 DEF Retain, TypeOK
  <2>2. LeaseOf(h) = t /\ h \in Holders /\ h \notin Tokens
    BY <1>a, KindsDiffer DEF LeaseOf
  <2>3. ~Grant(h)
    <3>1. ~Replied(h, "retained")
      BY <1>a, <1>b, <1>2, AnswersSay
    <3> QED BY <2>2, <3>1 DEF Grant
  <2>4. ASSUME NEW q \in Clients, caller[h] = q, Withdrawn(h) PROVE InChan(q, Withdrawal(t, h))'
    <3>1. Followed(p, Asking(t, h), Withdrawal(t, h)) /\ q = p
      BY <1>a, <1>b, <1>2, <2>2, <2>4 DEF WithdrawalsFollow
    <3>2. Asking(t, h) = m
      BY <1>a, <2>2 DEF Asking
    <3>3. Followed(p, m, Withdrawal(t, h))
      BY <3>1, <3>2
    <3> QED BY <1>5, <3>1, <3>3
  <2>5. ASSUME NEW u \in Tokens, NEW k \in Holders
        PROVE  /\ k \notin holders[u] /\ k \in holders'[u] => k = h /\ u = t
               /\ k \in holders[u] => k \in holders'[u]
               /\ Pending(u, k) => Pending(u, k)'
               /\ ~Pending(u, k) /\ Pending(u, k)' => k = h /\ u = t
    BY <1>2, <2>1 DEF Pending
  <2>6. Pending(t, h)'
    BY <1>a, <2>1, <2>2 DEF Pending
  <2>7. HoldersHonoured
    BY <2>2, <2>3, <2>4, <2>5, <2>6 DEF HoldersHonoured
  <2>8. ReservationsHonoured
    BY <1>2 DEF ReservationsHonoured
  <2> QED BY <1>a, <1>b, <1>1, <1>2, <2>7, <2>8 DEF Handled, OwnerHonest
<1> QED BY <1>3, <1>4

\* A retain call confirms its lease.
LEMMA ConfirmRetainHandled ==
  ASSUME NEW p \in Clients, NEW m, Taking(p, m), m.kind = "confirm_retain",
         ConfirmRetain(m.token, m.holder)
  PROVE  Handled
<1> DEFINE t == m.token
           h == m.holder
<1>a. /\ t \in Tokens /\ h \in Children /\ outcome[h] = "ok" /\ m # DownMessage
  BY TakingSays, JustifiedSays, MessageFields DEF DownMessage
<1>b. /\ TypeOK /\ Held /\ Monitored /\ Answering' /\ PInv /\ OwnerSane
      /\ UNCHANGED lost /\ chan \in [Clients -> Seq(Messages)]
      /\ \A r \in seen : caller[r] # None
  BY TakingSays DEF Taking, PInv
<1>1. /\ UNCHANGED <<owner, issue_reservations, status, holders, seen, pending_issue>>
      /\ h \notin pending_retains'[t]
      /\ \A u \in Tokens : /\ pending_retains'[u] \subseteq pending_retains[u]
                           /\ pending_retains[u] \subseteq pending_retains'[u] \cup {h}
  <2>1. CASE ClearPendingRetain(t, h) /\ UNCHANGED <<owner, issue_reservations, status, holders, seen>>
    <3>1. \A u \in Tokens : pending_retains'[u] =
            IF u = t THEN pending_retains[t] \ {h} ELSE pending_retains[u]
      BY <1>a, <1>b, <2>1 DEF ClearPendingRetain, TypeOK
    <3> QED BY <1>a, <2>1, <3>1 DEF ClearPendingRetain
  <2>2. CASE ~(status[t] = "active" /\ h \in pending_retains[t]) /\ UNCHANGED vars
    <3>1. h \notin pending_retains[t]
      BY <1>a, <1>b, <2>2 DEF Monitored, Held
    <3> QED BY <2>2, <3>1 DEF vars, processVars, holderVars, jobVars, pendingVars
  <2> QED BY <2>1, <2>2 DEF ConfirmRetain, processVars, holderVars, jobVars
<1>2. ReservationsHonoured /\ HoldersHonoured /\ OwnerHonest
  <2>1. \A u \in Tokens, k \in Holders :
          /\ Pending(u, k)' => Pending(u, k)
          /\ Pending(u, k) /\ ~Pending(u, k)' => outcome[k] = "ok"
    BY <1>a, <1>1 DEF Pending
  <2> QED BY <1>b, <1>1, <2>1, CloseHonest
<1>3. ChanKept /\ MessagesHonoured
  BY <1>a, <1>b, <1>1, TakenHonoured DEF Taking
<1> QED BY <1>2, <1>3 DEF Handled

\* A holder removed for a call that is over, while its lease is in no hands.
LEMMA RemovalHonest ==
  ASSUME PInv, MInv, NEW t \in Tokens, NEW h \in Holders, RemoveHolder(t, h), owner = "up",
         status[t] = "active", UNCHANGED seen, \A r \in seen : caller[r] # None,
         ~InHand(t, h), \A p \in Clients : request[p] # h
  PROVE  ReservationsHonoured /\ HoldersHonoured /\ OwnerHonest /\ h \notin holders'[t]
<1>1. Loses({<<t, h>>}) /\ h \notin holders'[t] /\ GoesOn
  BY RemoveHolderLoses
<1> QED BY <1>1, LossHonest

\* A step that leaves the owner's holders and calls as they are.
LEMMA StillHonest ==
  ASSUME OwnerSane, UNCHANGED <<owner, issue_reservations, status, holders, seen, pending_issue,
                                pending_retains>>,
         \A r \in seen : caller[r] # None
  PROVE  ReservationsHonoured /\ HoldersHonoured /\ OwnerHonest
<1>1. \A u \in Tokens, k \in Holders : Pending(u, k)' <=> Pending(u, k)
  BY DEF Pending
<1> QED BY <1>1, CloseHonest

\* A retain call gave up its lease.
LEMMA CancelRetainHandled ==
  ASSUME NEW p \in Clients, NEW m, Taking(p, m), m.kind = "cancel_retain",
         CancelRetain(m.token, m.holder)
  PROVE  Handled
<1> DEFINE t == m.token
           h == m.holder
<1>a. /\ t \in Tokens /\ h \in Children /\ outcome[h] = "error" /\ m # DownMessage
  BY TakingSays, JustifiedSays, MessageFields DEF DownMessage
<1>b. /\ TypeOK /\ Held /\ MInv /\ Answering /\ Answering' /\ PInv /\ OwnerSane
      /\ UNCHANGED lost /\ chan \in [Clients -> Seq(Messages)]
      /\ \A r \in seen : caller[r] # None
  BY TakingSays DEF Taking, PInv
<1>1. h \in Holders /\ h # t /\ ~InHand(t, h) /\ \A q \in Clients : request[q] # h
  BY <1>a, <1>b, CallOver, KindsDiffer
<1>2. ReservationsHonoured /\ HoldersHonoured /\ OwnerHonest /\ h \notin holders'[t]
  <2>0. owner = "up" /\ UNCHANGED seen
    BY DEF CancelRetain
  <2>1. CASE status[t] = "active" /\ RemoveHolder(t, h)
    BY <1>a, <1>b, <1>1, <2>0, <2>1, RemovalHonest
  <2>2. CASE status[t] # "active" /\ UNCHANGED <<processVars, issue_reservations, pendingVars,
                                                 holderVars, jobVars>>
    BY <1>a, <1>b, <1>1, <2>0, <2>2, StillHonest
    DEF processVars, pendingVars, holderVars, jobVars, Held
  <2> QED BY <1>1, <2>1, <2>2 DEF CancelRetain
<1>3. ChanKept /\ MessagesHonoured
  BY <1>a, <1>b, <1>2, TakenHonoured DEF Taking
<1> QED BY <1>2, <1>3 DEF Handled

\* A client released its lease.
LEMMA ReleaseHandled ==
  ASSUME NEW p \in Clients, NEW m, Taking(p, m), m.kind = "release",
         Release(m.token, m.holder)
  PROVE  Handled
<1> DEFINE t == m.token
           h == m.holder
<1>a. /\ t \in Tokens /\ h \in Holders /\ outcome[h] = "ok" /\ ~InHand(t, h) /\ m # DownMessage
  BY TakingSays, JustifiedSays, MessageFields DEF DownMessage
<1>b. /\ TypeOK /\ Held /\ MInv /\ Remembered /\ Answering /\ Answering' /\ PInv /\ OwnerSane
      /\ UNCHANGED lost /\ chan \in [Clients -> Seq(Messages)]
      /\ \A r \in seen : caller[r] # None
  BY TakingSays DEF Taking, PInv
<1>1. \A q \in Clients : request[q] # h
  BY <1>a, <1>b, CallOver
<1>2. ReservationsHonoured /\ HoldersHonoured /\ OwnerHonest /\ h \notin holders'[t]
  <2>0. owner = "up" /\ UNCHANGED seen
    BY DEF Release
  <2>1. CASE Holds(t, h) /\ RemoveHolder(t, h)
    BY <1>a, <1>b, <1>1, <2>0, <2>1, RemovalHonest DEF Holds
  <2>2. CASE /\ release_tombstones[<<t, h>>] # "none" \/ ~Holds(t, h)
             /\ UNCHANGED <<processVars, issue_reservations, pendingVars, holderVars, jobVars>>
    <3>1. h \notin holders[t]
      BY <1>a, <1>b, <2>2 DEF Remembered, Held, Holds
    <3> QED BY <1>a, <1>b, <2>0, <2>2, <3>1, StillHonest
        DEF processVars, pendingVars, holderVars, jobVars
  <2> QED BY <2>1, <2>2 DEF Release
<1>3. ChanKept /\ MessagesHonoured
  BY <1>a, <1>b, <1>2, TakenHonoured DEF Taking
<1> QED BY <1>2, <1>3 DEF Handled

\* A client waits for the drain, or no longer.
LEMMA DrainHandled ==
  ASSUME NEW p \in Clients, NEW m, Taking(p, m), m.kind \in {"drain", "cancel_drain"},
         Drain(m.request) \/ RemoveDrainWaiter(m.request)
  PROVE  Handled
<1>a. m.request \in Callers /\ caller[m.request] # None /\ m # DownMessage
  BY TakingSays, JustifiedSays, MessageFields DEF DownMessage
<1>b. /\ Answering' /\ OwnerSane
      /\ UNCHANGED lost /\ chan \in [Clients -> Seq(Messages)]
      /\ \A r \in seen : caller[r] # None
  BY TakingSays DEF Taking, PInv
<1>1. /\ owner = "up" /\ owner' \in {"up", "stopped"} /\ seen' \subseteq seen \cup {m.request}
      /\ seen \subseteq seen'
      /\ UNCHANGED <<holders, pending_issue, pending_retains, issue_reservations, status>>
  BY DEF Drain, RemoveDrainWaiter, pendingVars, holderVars, jobVars, processVars
<1>2. Loses({}) /\ GoesOn
  BY <1>1, LosesNothing DEF GoesOn
<1>3. ReservationsHonoured /\ HoldersHonoured /\ OwnerHonest
  BY <1>a, <1>b, <1>1, <1>2, LossHonest
<1>4. ChanKept /\ MessagesHonoured
  BY <1>a, <1>b, TakenHonoured DEF Taking
<1> QED BY <1>3, <1>4 DEF Handled

\* Every message of a client is handled honestly.
LEMMA ReceiveHandled ==
  ASSUME PInv, OwnerFacts, OwnerFacts', NEW p \in Clients, Receive(p)
  PROVE  OwnerMove /\ Honest
<1> DEFINE m == Head(chan[p])
<1>1. Taking(p, m) /\ Handle(m)
  BY DEF Receive, Taking
<1>2. Handled
  BY <1>1, ReserveHandled, CommitHandled, CancelReservationHandled, ConfirmIssueHandled,
     CancelIssueHandled, RetainHandled, ConfirmRetainHandled, CancelRetainHandled,
     ReleaseHandled, DrainHandled DEF Handle
<1>3. lost' \subseteq lost
  BY <1>1 DEF Taking, guardVars
<1> QED BY <1>1, <1>2, <1>3 DEF Handled, Honest, OwnerMove, Taking, guardVars

-----------------------------------------------------------------------------
(* The owner learns of deaths, collected guards and its executor.            *)

\* What the owner may rely on when it finds that client p died.
LEMMA DeathSays ==
  ASSUME PInv, OwnerFacts, NEW p \in Clients, chan[p] # <<>>, Head(chan[p]).kind = "down"
  PROVE  /\ stage[p] = "dead" /\ \A x : InChan(p, x) => x = DownMessage
         /\ \A t \in Tokens, h \in Holders :
              caller[h] = p /\ Pending(t, h) =>
                outcome[h] # "ok" /\ \A q \in Clients : request[q] # h
<1>0. /\ chan \in [Clients -> Seq(Messages)] /\ ClientCall(p) /\ MessagesJustified /\ Answering
      /\ Accounted
  BY DEF PInv, ProtocolTypeOK, Calls, OwnerFacts, AInv
<1>1. Head(chan[p]) \in Messages /\ InChan(p, Head(chan[p]))
  <2>1. chan[p] \in Seq(Messages)
    BY <1>0
  <2>2. Len(chan[p]) \in Nat /\ Len(chan[p]) >= 1 /\ Head(chan[p]) = chan[p][1]
        /\ Head(chan[p]) \in Messages
    BY <2>1
  <2>3. 1 \in 1..Len(chan[p])
    BY <2>2
  <2> QED BY <2>2, <2>3 DEF InChan
<1>2. Head(chan[p]) = DownMessage
  <2>1. Justified(p, Head(chan[p]))
    BY <1>0, <1>1 DEF MessagesJustified
  <2> QED BY <2>1, JustifiedSays
<1>3. InChan(p, DownMessage) /\ \A x : InChan(p, x) => x = DownMessage
  BY <1>0, <1>2, OnlyDown DEF ClientCall
<1>4. stage[p] = "dead"
  BY <1>0, <1>3 DEF ClientCall
<1>5. ASSUME NEW t \in Tokens, NEW h \in Holders, caller[h] = p, Pending(t, h)
      PROVE  outcome[h] # "ok" /\ \A q \in Clients : request[q] # h
  <2>1. outcome[h] = "ok" => InChan(p, Confirmation(t, h))
    BY <1>0, <1>5 DEF Accounted
  <2>2. Confirmation(t, h) # DownMessage
    BY MessageFields DEF Confirmation, ConfirmIssueMsg, ConfirmRetainMsg, DownMessage
  <2>3. \A q \in Clients : request[q] = h => caller[h] = q /\ stage[q] # "dead"
    BY <1>0, CallOver
  <2> QED BY <1>3, <1>4, <1>5, <2>1, <2>2, <2>3
<1> QED BY <1>3, <1>4, <1>5

\* A client that died keeps no reservation, and no holder whose call was open.
LEMMA DeathHandled ==
  ASSUME PInv, OwnerFacts, OwnerFacts', NEW p \in Clients, ReceiveDown(p)
  PROVE  OwnerMove /\ Honest
<1>0. /\ TypeOK /\ MInv /\ Monitored /\ Held /\ Answering /\ OwnerSane /\ MessagesJustified
      /\ chan \in [Clients -> Seq(Messages)]
      /\ UNCHANGED <<clientVars, taken, mailbox, leaseVars, collected, outcome, chan, lost>>
      /\ \A r \in seen : caller[r] # None
  BY DEF PInv, ProtocolTypeOK, OwnerFacts, AInv, MInv, UInv, IInv, ReceiveDown, guardVars,
         Calls, RequestCall, TypeOK
<1>1. /\ stage[p] = "dead" /\ \A x : InChan(p, x) => x = DownMessage
      /\ \A t \in Tokens, h \in Holders :
           caller[h] = p /\ Pending(t, h) =>
             outcome[h] # "ok" /\ \A q \in Clients : request[q] # h
  BY DeathSays DEF ReceiveDown
<1>2. ChanKept /\ MessagesHonoured
  BY <1>0, NothingTaken
<1>3. ASSUME NEW t \in Tokens, caller[t] = p, IssueCallerDown(t)
      PROVE  ReservationsHonoured /\ HoldersHonoured /\ OwnerHonest
  <2>1. CASE RemoveIssueReservation(t)
    <3>1. ASSUME NEW q \in Clients, InChan(q, CommitMsg(t)) PROVE FALSE
      <4>1. q = p
        BY <1>0, <1>3, <3>1, MessagesSay
      <4>2. CommitMsg(t) = DownMessage
        BY <1>1, <3>1, <4>1
      <4> QED BY <4>2, MessageFields DEF CommitMsg, DownMessage
    <3>2. \A q \in Clients : request[q] # t
      BY <1>0, <1>1, <1>3, CallOver, KindsDiffer
    <3>3. \A q \in Clients : ~InChan(q, CommitMsg(t))' /\ request[q] # t
      BY <1>2, <3>1, <3>2 DEF ChanKept
    <3> QED BY <1>0, <1>3, <2>1, <3>3, DropHonest DEF IssueCallerDown
  <2>2. CASE IssuePending(t) /\ CancelPendingIssue(t)
    <3>1. Loses({t} \X Holders) /\ GoesOn /\ UNCHANGED seen
      BY <1>0, <1>3, <2>2, CancelPendingLoses DEF IssueCallerDown, CancelPendingIssue
    <3>2. outcome[t] # "ok" /\ \A q \in Clients : request[q] # t
      BY <1>1, <1>3, <2>2, KindsDiffer DEF IssuePending, Pending
    <3>3. \A h \in Holders : h \in holders[t] => ~InHand(t, h) /\ \A q \in Clients : request[q] # h
      BY <1>0, <3>2, CallOver
    <3> QED BY <1>0, <3>1, <3>3, LossHonest
  <2>3. CASE UNCHANGED <<processVars, issue_reservations, pending_issue, pending_retains,
                         holderVars, jobVars, seen>>
    BY <1>0, <2>3, StillHonest DEF processVars, holderVars, jobVars
  <2> QED BY <1>3, <2>1, <2>2, <2>3 DEF IssueCallerDown
<1>4. ASSUME NEW h \in Children, caller[h] = p, RetainCallerDown(h)
      PROVE  ReservationsHonoured /\ HoldersHonoured /\ OwnerHonest
  <2> DEFINE t == retain_monitors[h]
  <2>1. /\ t \in Tokens /\ owner = "up" /\ h \in Holders /\ h \notin Tokens /\ UNCHANGED seen
        /\ h \in pending_retains[t]
    BY <1>0, <1>4, KindsDiffer DEF RetainCallerDown, Monitored, TypeOK
  <2>2. outcome[h] # "ok" /\ \A q \in Clients : request[q] # h
    BY <1>1, <1>4, <2>1 DEF Pending
  <2>3. ~InHand(t, h)
    BY <1>0, <2>1, <2>2, CallOver
  <2>4. CASE status[t] = "active" /\ RemoveHolder(t, h)
    BY <1>0, <2>1, <2>2, <2>3, <2>4, RemovalHonest
  <2>5. CASE UNCHANGED <<processVars, issue_reservations, pending_issue, pending_retains,
                         holderVars, jobVars>>
    BY <1>0, <2>1, <2>5, StillHonest DEF processVars, holderVars, jobVars
  <2> QED BY <1>4, <2>4, <2>5 DEF RetainCallerDown
<1>5. ASSUME NEW c, RemoveDrainWaiter(c)
      PROVE  ReservationsHonoured /\ HoldersHonoured /\ OwnerHonest
  BY <1>0, <1>5, StillHonest DEF RemoveDrainWaiter, processVars, holderVars, jobVars, pendingVars
<1>6. ReservationsHonoured /\ HoldersHonoured /\ OwnerHonest
  BY <1>3, <1>4, <1>5 DEF ReceiveDown
<1> QED BY <1>0, <1>2, <1>6 DEF OwnerMove, Honest

\* A guard is collected when its lease is in no hands and its call is over.
LEMMA AbandonHandled ==
  ASSUME PInv, OwnerFacts, OwnerFacts', NEW t \in Tokens, NEW h \in Holders,
         ReceiveAbandoned(t, h)
  PROVE  OwnerMove /\ Honest
<1>0. /\ MInv /\ Held /\ TypeOK /\ OwnerSane /\ chan \in [Clients -> Seq(Messages)]
      /\ UNCHANGED <<clientVars, taken, mailbox, leaseVars, collected, outcome, chan, seen>>
      /\ lost' = lost \ {<<t, h>>} /\ owner = "up"
      /\ \A r \in seen : caller[r] # None
  BY DEF PInv, ProtocolTypeOK, OwnerFacts, AInv, MInv, UInv, IInv, ReceiveAbandoned, Abandoned,
         Calls, RequestCall, TypeOK
<1>1. ~InHand(t, h) /\ \A q \in Clients : request[q] # h
  BY DEF PInv, GrantsBacked, Whereabouts, ReceiveAbandoned
<1>2. ReservationsHonoured /\ HoldersHonoured /\ OwnerHonest /\ h \notin holders'[t]
  <2>1. CASE Holds(t, h) /\ RemoveHolder(t, h)
    BY <1>0, <1>1, <2>1, RemovalHonest DEF Holds
  <2>2. CASE /\ ~Holds(t, h)
             /\ UNCHANGED <<processVars, issue_reservations, pendingVars, holderVars, jobVars>>
    <3>1. h \notin holders[t]
      BY <1>0, <2>2 DEF Held, Holds
    <3> QED BY <1>0, <2>2, <3>1, StillHonest DEF processVars, pendingVars, holderVars, jobVars
  <2> QED BY <2>1, <2>2 DEF ReceiveAbandoned, Abandoned
<1>3. ChanKept /\ MessagesHonoured
  BY <1>0, <1>2, NothingTaken
<1> QED BY <1>0, <1>2, <1>3 DEF OwnerMove, Honest

\* The executor, the timers, the producer and the end of the owner.
LEMMA BackgroundHandled ==
  ASSUME PInv, OwnerFacts, RunRelease \/ FinishResult \/ FinishDown \/ Background
  PROVE  OwnerMove /\ Honest
<1>0. /\ UInv /\ owner # "corrupt" /\ chan \in [Clients -> Seq(Messages)]
      /\ UNCHANGED <<clientVars, taken, mailbox, leaseVars, collected, outcome, chan, lost>>
      /\ \A r \in seen : caller[r] # None
  BY DEF PInv, ProtocolTypeOK, OwnerFacts, AInv, MInv, UInv, IInv, OwnerSane, clientSide,
         Calls, RequestCall, TypeOK, guardVars, RunRelease, FinishResult, FinishDown, Background
<1>1. Loses({}) /\ GoesOn /\ UNCHANGED seen
  BY <1>0, BackgroundLoses DEF RunRelease, FinishResult, FinishDown, Background
<1>2. ReservationsHonoured /\ HoldersHonoured /\ OwnerHonest
  BY <1>0, <1>1, LossHonest
<1>3. ChanKept /\ MessagesHonoured
  BY <1>0, NothingTaken
<1> QED BY <1>0, <1>2, <1>3 DEF OwnerMove, Honest

-----------------------------------------------------------------------------
(* The owner moves as LeaseOwner says.                                       *)

\* Every step of the protocol is a step of the owner's specification.
LEMMA OwnerSteps ==
  ASSUME PInv, OwnerFacts, ProtocolNext \/ UNCHANGED pvars
  PROVE  Next \/ UNCHANGED vars
<1>0. TypeOK /\ Calls /\ GrantsBacked /\ MessagesJustified /\ chan \in [Clients -> Seq(Messages)]
      /\ lost \subseteq HolderIds
  BY DEF PInv, ProtocolTypeOK, OwnerFacts, AInv, UInv, IInv
<1>1. CASE UNCHANGED pvars
  BY <1>1 DEF pvars
<1>2. CASE ClientStep
  <2>1. \A p \in Clients, t \in Tokens : IssueCall(p, t) => UNCHANGED vars
    BY DEF IssueCall, StartCall
  <2>2. \A p \in Clients : \A l \in held[p], h \in Children : RetainCall(p, l, h) => UNCHANGED vars
    BY DEF RetainCall, StartCall
  <2>3. \A p \in Clients, c \in Callers : DrainCall(p, c) => UNCHANGED vars
    BY DEF DrainCall, StartCall
  <2>4. \A p \in Clients : \A l \in held[p] : ReleaseCall(p, l) => UNCHANGED vars
    BY DEF ReleaseCall
  <2>5. \A p \in Clients : AwaitStep(p) => UNCHANGED vars
    <3>1. \A p \in Clients : \A m \in mailbox[p] : TakeReply(p, m) => UNCHANGED vars
      BY DEF TakeReply
    <3>2. \A p \in Clients : TakeDown(p) \/ TimeOut(p) => UNCHANGED vars
      BY DEF TakeDown, TimeOut
    <3> QED BY <3>1, <3>2 DEF AwaitStep
  <2>6. \A p \in Clients : Expire(p) \/ Die(p) => UNCHANGED vars
    BY DEF Expire, Die
  <2>7. \A p, q \in Clients : \A l \in held[p] : Forward(p, q, l) => UNCHANGED vars
    BY DEF Forward
  <2>8. \A m \in transit : ForwardArrives(m) => UNCHANGED vars
    BY DEF ForwardArrives
  <2>9. \A r \in Requests : ReplyArrives(r) => UNCHANGED vars
    BY DEF ReplyArrives
  <2>10. \A t \in Tokens, h \in Holders : CollectGuard(t, h) => UNCHANGED vars
    BY DEF CollectGuard
  <2> QED BY <1>2, <2>1, <2>2, <2>3, <2>4, <2>5, <2>6, <2>7, <2>8, <2>9, <2>10 DEF ClientStep
<1>3. ASSUME NEW p \in Clients, Receive(p) PROVE Next
  <2> DEFINE m == Head(chan[p])
  <2>1. m \in Messages /\ InChan(p, m)
    BY <1>0, <1>3, ReceiveFacts DEF Receive
  <2>2. Justified(p, m)
    BY <1>0, <2>1 DEF MessagesJustified
  <2>3. /\ m.kind \in {"reserve", "commit", "cancel_reservation", "confirm_issue",
                       "cancel_issue"} => m.token \in Tokens
        /\ m.kind \in {"retain", "confirm_retain", "cancel_retain"} =>
             m.token \in Tokens /\ m.holder \in Children /\ target[m.holder] = m.token
        /\ m.kind = "release" => m.token \in Tokens /\ m.holder \in Holders
        /\ m.kind \in {"drain", "cancel_drain"} => m.request \in Callers
    BY <2>2, JustifiedSays
  <2>4. m.kind = "retain" => parent[m.holder] \in Holders
    BY <1>0, <2>3, KindsDiffer DEF Calls, ChildCall
  <2>5. Handle(m) /\ Children \subseteq Holders
    BY <1>3, KindsDiffer DEF Receive
  <2> HIDE DEF m
  <2>6. OwnerStep
    BY <2>3, <2>4, <2>5 DEF Handle, OwnerStep
  <2> QED BY <2>6 DEF Next
<1>4. ASSUME NEW p \in Clients, ReceiveDown(p) PROVE Next
  BY <1>0, <1>4 DEF ReceiveDown, Next, OwnerStep, TypeOK
<1>5. ASSUME NEW id \in lost, ReceiveAbandoned(id[1], id[2]) PROVE Next
  <2>1. id[1] \in Tokens /\ id[2] \in Holders
    BY <1>0 DEF HolderIds
  <2> QED BY <1>5, <2>1 DEF ReceiveAbandoned, Next, OwnerStep
<1>6. CASE RunRelease \/ FinishResult \/ FinishDown \/ Background
  BY <1>6 DEF RunRelease, FinishResult, FinishDown, Background, Next, OwnerStep, RuntimeStep
<1> QED BY <1>1, <1>2, <1>3, <1>4, <1>5, <1>6 DEF ProtocolNext

\* So the owner's own invariants are kept.
LEMMA OwnerFactsKept ==
  ASSUME PInv, OwnerFacts, ProtocolNext \/ UNCHANGED pvars
  PROVE  OwnerFacts' /\ AnswersGrow
<1>1. [Next]_vars
  BY OwnerSteps
<1> QED BY <1>1, AnswerStep, GuardedStep, TombstoneStep, SettleStep DEF OwnerFacts

-----------------------------------------------------------------------------
(* A client's steps leave the owner alone.                                   *)

\* What the parts of the invariant say together.
LEMMA Known ==
  ASSUME PInv, OwnerFacts
  PROVE  /\ ProtocolTypeOK /\ Calls /\ Mail /\ GrantsComing /\ MessagesJustified /\ IssueSettled
         /\ Whereabouts /\ GrantsBacked /\ Accounted /\ WithdrawalsFollow /\ OwnerSane
         /\ TypeOK /\ Answering
         /\ \A r \in Requests : caller[r] = None =>
              /\ outcome[r] = "none" /\ r \notin seen
              /\ \A q \in Clients : request[q] # r /\ \A a : <<r, a>> \notin mailbox[q]
         /\ \A h \in Holders : caller[h] = None => ~Grant(h) /\ \A t \in Tokens : ~InHand(t, h)
         /\ \A t \in Tokens, h \in Holders :
              h \in holders[t] \/ Pending(t, h) => LeaseOf(h) = t /\ caller[h] # None
         /\ \A t \in Tokens, h \in Holders :
              InHand(t, h) => outcome[h] = "ok" /\ outcome[t] = "ok" /\ t = LeaseOf(h)
<1>1. /\ ProtocolTypeOK /\ Calls /\ Mail /\ GrantsComing /\ MessagesJustified /\ IssueSettled
      /\ Whereabouts /\ GrantsBacked /\ Accounted /\ WithdrawalsFollow /\ OwnerSane
      /\ TypeOK /\ Answering /\ Admission /\ Monitored /\ Remembered
  BY DEF PInv, OwnerFacts, AInv, MInv, OInv, UInv, IInv
<1>2. ASSUME NEW r \in Requests, caller[r] = None
      PROVE  /\ outcome[r] = "none" /\ r \notin seen
             /\ \A q \in Clients : request[q] # r /\ \A a : <<r, a>> \notin mailbox[q]
  <2>1. outcome[r] = "none" /\ r \notin seen
    BY <1>1, <1>2 DEF Calls, RequestCall
  <2>2. ASSUME NEW q \in Clients PROVE request[q] # r /\ \A a : <<r, a>> \notin mailbox[q]
    <3>1. request[q] # r
      BY <1>1, <1>2, RefsAssumption, ClientsAssumption DEF Calls, ClientCall
    <3>2. ASSUME NEW a, <<r, a>> \in mailbox[q] PROVE FALSE
      <4>1. a \in Answers
        BY <1>1, <3>2 DEF ProtocolTypeOK
      <4> QED BY <1>1, <1>2, <3>2, <4>1, ClientsAssumption DEF Mail
    <3> QED BY <3>1, <3>2
  <2> QED BY <2>1, <2>2
<1>3. \A t \in Tokens, h \in Holders :
        InHand(t, h) => outcome[h] = "ok" /\ outcome[t] = "ok" /\ t = LeaseOf(h)
  BY <1>1 DEF Whereabouts
<1>4. ASSUME NEW h \in Holders, caller[h] = None PROVE ~Grant(h) /\ \A t \in Tokens : ~InHand(t, h)
  <2>1. h \notin seen /\ outcome[h] = "none"
    BY <1>2, <1>4, KindsDiffer
  <2>2. \A a : ~Replied(h, a)
    BY <1>1, <2>1, AnswersSay DEF Holders
  <2> QED BY <1>3, <2>1, <2>2 DEF Grant
<1>5. ASSUME NEW t \in Tokens, NEW h \in Holders, h \in holders[t] \/ Pending(t, h)
      PROVE  LeaseOf(h) = t /\ caller[h] # None
  <2>1. h \in holders[t] => h \in seen
    BY <1>1 DEF Remembered
  <2>2. CASE h \in Tokens
    <3>1. h = t
      BY <1>1, <1>5, <2>2 DEF Pending, Answering, IssueAnswers
    <3>2. Pending(t, h) => h \in seen
      BY <1>1, <2>2, <3>1 DEF Pending, Monitored, Admission
    <3>3. h \in seen
      BY <1>5, <2>1, <3>2
    <3> QED BY <1>2, <2>2, <3>1, <3>3, KindsDiffer DEF LeaseOf
  <2>3. CASE h \in Children
    <3>1. h \in holders[t] /\ h \notin Tokens
      BY <1>1, <1>5, <2>3, KindsDiffer DEF Pending, Monitored
    <3>2. target[h] = t
      BY <1>1, <2>3, <3>1 DEF Calls, ChildCall
    <3> QED BY <1>2, <2>1, <2>3, <3>1, <3>2, KindsDiffer DEF LeaseOf
  <2> QED BY <2>2, <2>3 DEF Holders
<1> QED BY <1>1, <1>2, <1>3, <1>4, <1>5

\* What depends on nothing but the variables of the owner.
LEMMA SameOwner ==
  ASSUME UNCHANGED vars
  PROVE  /\ UNCHANGED <<owner, seen, status, holders, replies, issue_reservations>>
         /\ \A t, h : Pending(t, h)' <=> Pending(t, h)
         /\ \A r, a : Replied(r, a)' <=> Replied(r, a)
         /\ \A h : Grant(h)' <=> Grant(h)
<1>1. UNCHANGED <<owner, seen, status, holders, replies, issue_reservations, pending_issue,
                  pending_retains>>
  BY DEF vars, processVars, holderVars, jobVars, pendingVars
<1> QED BY <1>1 DEF Pending, Replied, Grant

\* ... and of the channels.
LEMMA SameChannels ==
  ASSUME UNCHANGED chan
  PROVE  /\ \A q, x : InChan(q, x)' <=> InChan(q, x)
         /\ \A q, x : Once(q, x)' <=> Once(q, x)
         /\ \A q, x, y : Followed(q, x, y)' <=> Followed(q, x, y)
         /\ \A q : DownLast(q)' <=> DownLast(q)
BY DEF InChan, Once, Followed, DownLast

-----------------------------------------------------------------------------
(* Replies, leases and guards on their way.                                  *)

\* A step of mailboxes, hands and guards in which a lease is lost only to a dead
\* client.
LEMMA QuietClient ==
  ASSUME PInv, OwnerFacts,
         UNCHANGED <<vars, stage, request, caller, target, parent, chan, outcome>>,
         ProtocolTypeOK', Mail', GrantsComing', Whereabouts', GrantsBacked',
         \A r \in Requests : taken'[r] <= Len(replies[r]),
         \A t \in Tokens, h \in Holders :
           /\ InHand(t, h)' => InHand(t, h)
           /\ InHand(t, h) /\ ~InHand(t, h)' => \E p \in Clients : stage[p] = "dead"
  PROVE  PInv'
<1>0. /\ ProtocolTypeOK /\ Calls /\ Mail /\ GrantsComing /\ MessagesJustified /\ IssueSettled
      /\ Whereabouts /\ GrantsBacked /\ Accounted /\ WithdrawalsFollow /\ OwnerSane
  BY DEF PInv
<1>1. /\ UNCHANGED <<owner, seen, status, holders, replies, issue_reservations>>
      /\ \A t, h : Pending(t, h)' <=> Pending(t, h)
      /\ \A r, a : Replied(r, a)' <=> Replied(r, a)
      /\ \A h : Grant(h)' <=> Grant(h)
  BY SameOwner
<1>2. /\ \A q, x : InChan(q, x)' <=> InChan(q, x)
      /\ \A q, x : Once(q, x)' <=> Once(q, x)
      /\ \A q, x, y : Followed(q, x, y)' <=> Followed(q, x, y)
      /\ \A q : DownLast(q)' <=> DownLast(q)
  BY SameChannels
<1>3. /\ \A h : LeaseOf(h)' = LeaseOf(h)
      /\ \A h : Withdrawn(h)' <=> Withdrawn(h)
      /\ \A t : Uncommitted(t)' <=> Uncommitted(t)
      /\ \A p : Waiting(p)' <=> Waiting(p)
  BY DEF LeaseOf, Withdrawn, Uncommitted, Waiting
<1>4. Calls'
  BY <1>0, <1>1, <1>2, <1>3 DEF Calls, ClientCall, RequestCall, ChildCall, Results
<1>5. MessagesJustified'
  <2>1. ASSUME NEW p \in Clients, NEW m, Justified(p, m) PROVE Justified(p, m)'
    BY <1>1, <1>3, <2>1 DEF Justified
  <2> QED BY <1>0, <1>2, <2>1 DEF MessagesJustified
<1>6. IssueSettled'
  BY <1>0, <1>1, <1>2, <1>3 DEF IssueSettled
<1>7. Accounted'
  BY <1>0, <1>1, <1>2, <1>3 DEF Accounted
<1>8. WithdrawalsFollow'
  BY <1>0, <1>1, <1>2, <1>3 DEF WithdrawalsFollow
<1>9. OwnerSane'
  BY <1>0, <1>1 DEF OwnerSane
<1> QED BY <1>4, <1>5, <1>6, <1>7, <1>8, <1>9 DEF PInv

\* The receive of a call times out.
LEMMA ExpireSafe ==
  ASSUME PInv, OwnerFacts, NEW p \in Clients, Expire(p)
  PROVE  PInv'
<1>0. /\ ProtocolTypeOK /\ Calls /\ Mail /\ GrantsComing /\ Whereabouts /\ GrantsBacked
  BY Known
<1>1. /\ UNCHANGED <<vars, stage, request, caller, target, parent, chan, outcome, taken, mailbox,
                     held, transit, lost, collected>>
      /\ expired' = expired \cup {p}
  BY DEF Expire, leaseVars, guardVars
<1>2. /\ UNCHANGED <<owner, seen, status, holders, replies, issue_reservations>>
      /\ \A h : Grant(h)' <=> Grant(h)
  BY <1>1, SameOwner
<1>3. /\ \A t, h : InHand(t, h)' <=> InHand(t, h)
      /\ \A h : LeaseOf(h)' = LeaseOf(h)
  BY <1>1, SameClients
<1>4. ProtocolTypeOK'
  BY <1>0, <1>1 DEF ProtocolTypeOK
<1>5. Mail' /\ GrantsComing' /\ Whereabouts' /\ GrantsBacked'
  BY <1>0, <1>1, <1>2, <1>3 DEF Mail, Arrived, GrantsComing, Whereabouts, GrantsBacked
<1>6. \A r \in Requests : taken'[r] <= Len(replies[r])
  BY <1>0, <1>1 DEF Calls, RequestCall
<1> QED BY <1>1, <1>3, <1>4, <1>5, <1>6, QuietClient

\* A reply arrives: the grant of a lease comes last.
LEMMA ReplyArrivesSafe ==
  ASSUME PInv, OwnerFacts, NEW r \in Requests, ReplyArrives(r)
  PROVE  PInv'
<1>0. /\ ProtocolTypeOK /\ Calls /\ Mail /\ GrantsComing /\ Whereabouts /\ GrantsBacked
      /\ TypeOK /\ Answering
  BY Known
<1>a. PICK a : a = replies[r][taken[r] + 1]
  OBVIOUS
<1>1. /\ UNCHANGED <<vars, stage, request, caller, target, parent, chan, outcome, expired,
                     held, transit, lost, collected>>
      /\ taken' = [taken EXCEPT ![r] = @ + 1]
      /\ taken[r] < Len(replies[r])
      /\ mailbox' = [p \in Clients |->
           IF p = caller[r] /\ request[p] = r /\ stage[p] # "dead"
           THEN mailbox[p] \cup {<<r, a>>} ELSE mailbox[p]]
  BY <1>a DEF ReplyArrives, clientVars, leaseVars, guardVars
<1>2. /\ UNCHANGED <<owner, seen, status, holders, replies, issue_reservations>>
      /\ \A h : Grant(h)' <=> Grant(h)
  BY <1>1, SameOwner
<1>3. /\ \A t, h : InHand(t, h)' <=> InHand(t, h)
      /\ \A h : LeaseOf(h)' = LeaseOf(h)
  BY <1>1, SameClients
<1>4. /\ replies[r] \in Seq(Answers) /\ taken \in [Requests -> Nat] /\ taken[r] \in Nat
      /\ Len(replies[r]) \in Nat
  BY <1>0 DEF ProtocolTypeOK, TypeOK
<1>5. PICK n \in Nat, k \in Nat : n = Len(replies[r]) /\ k = taken[r]
  BY <1>4
<1>6. /\ k < n /\ k + 1 \in 1..n /\ k + 1 \in Nat /\ k + 1 <= n
      /\ taken'[r] = k + 1 /\ \A x \in Requests \ {r} : taken'[x] = taken[x]
      /\ taken' \in [Requests -> Nat]
  BY <1>1, <1>4, <1>5
<1>7. a \in Answers /\ Replied(r, a)
  BY <1>a, <1>4, <1>5, <1>6 DEF Replied
<1>8. ProtocolTypeOK'
  <2>1. mailbox' \in [Clients -> SUBSET (Requests \X Answers)]
    BY <1>0, <1>1, <1>7 DEF ProtocolTypeOK
  <2> QED BY <1>0, <1>1, <1>6, <2>1 DEF ProtocolTypeOK
<1>9. /\ \A x \in Requests : \A b : Arrived(x, b) => Arrived(x, b)'
      /\ Arrived(r, a)'
  <2>1. \A b : Arrived(r, b) => Arrived(r, b)'
    BY <1>2, <1>5, <1>6 DEF Arrived
  <2>2. Arrived(r, a)'
    <3>1. k + 1 \in 1..taken'[r] /\ replies'[r][k + 1] = a
      BY <1>a, <1>2, <1>5, <1>6
    <3> QED BY <3>1 DEF Arrived
  <2> QED BY <1>2, <1>6, <2>1, <2>2 DEF Arrived
<1>10. r \in Tokens /\ Arrived(r, "reserved") => a # "reserved"
  <2> SUFFICES ASSUME r \in Tokens, Arrived(r, "reserved") PROVE a # "reserved"
    OBVIOUS
  <2>1. PICK i \in 1..k : replies[r][i] = "reserved"
    BY <1>5 DEF Arrived
  <2>2. n <= 2 /\ (n = 2 => replies[r][2] \in {"issued", "transferred"})
    BY <1>0, <1>5 DEF Answering, IssueAnswers
  <2>3. k = 1 /\ n = 2
    BY <1>6, <2>1, <2>2
  <2> QED BY <1>a, <1>5, <2>2, <2>3
<1>11. Mail'
  <2>1. ASSUME NEW p \in Clients, NEW x \in Requests, NEW b \in Answers, <<x, b>> \in mailbox'[p]
        PROVE  caller[x] = p /\ Arrived(x, b)'
    <3>1. CASE <<x, b>> \in mailbox[p]
      BY <1>0, <1>9, <3>1 DEF Mail
    <3>2. CASE <<x, b>> \notin mailbox[p]
      <4>1. p = caller[r] /\ <<x, b>> = <<r, a>>
        BY <1>1, <2>1, <3>2
      <4> QED BY <1>9, <4>1
    <3> QED BY <3>1, <3>2
  <2>2. ASSUME NEW p \in Clients, NEW t \in Tokens, request[p] = t, stage[p] = "commit"
        PROVE  Arrived(t, "reserved")' /\ <<t, "reserved">> \notin mailbox'[p]
    <3>1. Arrived(t, "reserved") /\ <<t, "reserved">> \notin mailbox[p] /\ t \in Requests
      BY <1>0, <2>2, KindsDiffer DEF Mail
    <3>2. <<t, "reserved">> \notin mailbox'[p]
      BY <1>1, <1>10, <3>1
    <3> QED BY <1>9, <3>1, <3>2
  <2> QED BY <1>1, <2>1, <2>2 DEF Mail
<1>12. GrantsComing'
  <2>1. ASSUME NEW p \in Clients, NEW h \in Holders, request[p] = h, Grant(h)
        PROVE  taken'[h] < Len(replies[h]) \/ \E b \in {"issued", "retained"} : <<h, b>> \in mailbox'[p]
    <3>1. taken[h] < Len(replies[h]) \/ \E b \in {"issued", "retained"} : <<h, b>> \in mailbox[p]
      BY <1>0, <2>1 DEF GrantsComing
    <3>2. \A b : <<h, b>> \in mailbox[p] => <<h, b>> \in mailbox'[p]
      BY <1>1
    <3>3. CASE h # r
      BY <1>6, <3>1, <3>2, <3>3, KindsDiffer
    <3>4. CASE h = r
      <4>1. k + 1 < n \/ k + 1 = n
        BY <1>6
      <4>2. CASE k + 1 < n
        BY <1>5, <1>6, <3>4, <4>2
      <4>3. CASE k + 1 = n
        <5>1. a \in {"issued", "retained"}
          <6>1. CASE r \in Tokens
            <7>1. replies[r][2] = "issued" /\ Len(replies[r]) = 2
              BY <1>0, <2>1, <3>4, <6>1, AnswersSay DEF Grant
            <7> QED BY <1>a, <1>5, <4>3, <7>1
          <6>2. CASE r \in Children
            <7>1. replies[r][1] = "retained" /\ Len(replies[r]) = 1
              BY <1>0, <2>1, <3>4, <6>2, AnswersSay, KindsDiffer DEF Grant
            <7> QED BY <1>a, <1>5, <4>3, <7>1
          <6> QED BY <3>4, <6>1, <6>2 DEF Holders
        <5>2. p = caller[r] /\ stage[p] # "dead"
          BY <2>1, <3>4, CallOver, <1>0
        <5>3. <<h, a>> \in mailbox'[p]
          BY <1>1, <2>1, <3>4, <5>2
        <5> QED BY <5>1, <5>3
      <4> QED BY <4>1, <4>2, <4>3
    <3> QED BY <3>3, <3>4
  <2> QED BY <1>1, <1>2, <2>1 DEF GrantsComing
<1>13. Whereabouts' /\ GrantsBacked'
  BY <1>0, <1>1, <1>2, <1>3 DEF Whereabouts, GrantsBacked
<1>14. \A x \in Requests : taken'[x] <= Len(replies[x])
  BY <1>0, <1>5, <1>6 DEF Calls, RequestCall
<1> QED BY <1>1, <1>3, <1>8, <1>11, <1>12, <1>13, <1>14, QuietClient

\* A lease is sent to another client.
LEMMA ForwardSafe ==
  ASSUME PInv, OwnerFacts, NEW p \in Clients, NEW q \in Clients, NEW lease \in held[p],
         Forward(p, q, lease)
  PROVE  PInv'
<1>0. /\ ProtocolTypeOK /\ Calls /\ Mail /\ GrantsComing /\ Whereabouts /\ GrantsBacked
      /\ held \in [Clients -> SUBSET HolderIds] /\ transit \subseteq Clients \X HolderIds
  BY Known DEF ProtocolTypeOK
<1>1. /\ UNCHANGED <<vars, stage, request, caller, target, parent, chan, outcome, expired,
                     taken, mailbox, lost, collected>>
      /\ held' = [held EXCEPT ![p] = @ \ {lease}]
      /\ transit' = transit \cup {<<q, lease>>}
  BY DEF Forward, clientVars, guardVars
<1>2. /\ UNCHANGED <<owner, seen, status, holders, replies, issue_reservations>>
      /\ \A h : Grant(h)' <=> Grant(h)
  BY <1>1, SameOwner
<1>3. /\ \A x \in Clients : held'[x] = IF x = p THEN held[p] \ {lease} ELSE held[x]
      /\ lease \in HolderIds
  BY <1>0, <1>1
<1>4. \A t \in Tokens, h \in Holders : InHand(t, h)' <=> InHand(t, h)
  <2>1. ASSUME NEW t \in Tokens, NEW h \in Holders, InHand(t, h) PROVE InHand(t, h)'
    <3>1. CASE <<t, h>> = lease
      <4>1. <<q, lease>> \in transit' /\ <<q, lease>>[2] = <<t, h>>
        BY <1>1, <3>1
      <4> QED BY <4>1 DEF InHand
    <3>2. CASE <<t, h>> # lease
      BY <1>1, <1>3, <2>1, <3>2 DEF InHand
    <3> QED BY <3>1, <3>2
  <2>2. ASSUME NEW t \in Tokens, NEW h \in Holders, InHand(t, h)' PROVE InHand(t, h)
    <3>1. CASE \E x \in Clients : <<t, h>> \in held'[x]
      BY <1>3, <3>1 DEF InHand
    <3>2. CASE \E m \in transit' : m[2] = <<t, h>>
      <4>1. (\E m \in transit : m[2] = <<t, h>>) \/ <<t, h>> = lease
        BY <1>1, <3>2
      <4> QED BY <4>1 DEF InHand
    <3> QED BY <2>2, <3>1, <3>2 DEF InHand
  <2> QED BY <2>1, <2>2
<1>5. \A h : LeaseOf(h)' = LeaseOf(h)
  BY <1>1 DEF LeaseOf
<1>6. ProtocolTypeOK'
  <2>1. held' \in [Clients -> SUBSET HolderIds] /\ transit' \subseteq Clients \X HolderIds
    BY <1>0, <1>1, <1>3
  <2> QED BY <1>0, <1>1, <2>1 DEF ProtocolTypeOK
<1>7. Mail' /\ GrantsComing' /\ GrantsBacked'
  BY <1>0, <1>1, <1>2, <1>5 DEF Mail, Arrived, GrantsComing, GrantsBacked
<1>8. Whereabouts'
  <2>1. \A t \in Tokens, h \in Holders : InHand(t, h)' =>
          /\ t = LeaseOf(h) /\ outcome[h] = "ok" /\ outcome[t] = "ok" /\ h \in holders[t]
          /\ <<t, h>> \notin collected
    BY <1>0, <1>4 DEF Whereabouts
  <2>2. ASSUME NEW x \in Clients, NEW y \in Clients, NEW l \in held'[x]
        PROVE  (l \in held'[y] => x = y) /\ <<y, l>> \notin transit'
    <3>1. l \in held[x] /\ (l \in held[y] => x = y) /\ <<y, l>> \notin transit
      BY <1>0, <1>3 DEF Whereabouts
    <3>2. lease = l => x = p
      BY <1>0, <3>1 DEF Whereabouts
    <3>3. lease # l
      BY <1>3, <2>2, <3>2
    <3> QED BY <1>1, <1>3, <3>1, <3>3
  <2>3. ASSUME NEW m \in transit', NEW n \in transit', m[2] = n[2] PROVE m = n
    <3>1. \A x \in transit : x[2] # lease
      <4>1. ASSUME NEW x \in transit, x[2] = lease PROVE FALSE
        <5>1. x[1] \in Clients /\ x = <<x[1], lease>>
          BY <1>0, <4>1
        <5> QED BY <1>0, <5>1 DEF Whereabouts
      <4> QED BY <4>1
    <3> QED BY <1>0, <1>1, <2>3, <3>1 DEF Whereabouts
  <2> QED BY <1>1, <1>2, <1>5, <2>1, <2>2, <2>3 DEF Whereabouts
<1>9. \A r \in Requests : taken'[r] <= Len(replies[r])
  BY <1>0, <1>1 DEF Calls, RequestCall
<1> QED BY <1>1, <1>4, <1>6, <1>7, <1>8, <1>9, QuietClient

\* A lease arrives, or is dropped with the mailbox of a client that died.
LEMMA ForwardArrivesSafe ==
  ASSUME PInv, OwnerFacts, NEW m \in transit, ForwardArrives(m)
  PROVE  PInv'
<1>0. /\ ProtocolTypeOK /\ Calls /\ Mail /\ GrantsComing /\ Whereabouts /\ GrantsBacked
      /\ held \in [Clients -> SUBSET HolderIds] /\ transit \subseteq Clients \X HolderIds
      /\ m[1] \in Clients /\ m[2] \in HolderIds /\ m = <<m[1], m[2]>>
  <2>1. ProtocolTypeOK /\ Calls /\ Mail /\ GrantsComing /\ Whereabouts /\ GrantsBacked
    BY Known
  <2>2. held \in [Clients -> SUBSET HolderIds] /\ transit \subseteq Clients \X HolderIds
    BY <2>1 DEF ProtocolTypeOK
  <2> QED BY <2>1, <2>2
<1>1. /\ UNCHANGED <<vars, stage, request, caller, target, parent, chan, outcome, expired,
                     taken, mailbox, lost, collected>>
      /\ held' = [held EXCEPT ![m[1]] = IF stage[m[1]] = "dead" THEN @ ELSE @ \cup {m[2]}]
      /\ transit' = transit \ {m}
  BY DEF ForwardArrives, clientVars, guardVars
<1>2. /\ UNCHANGED <<owner, seen, status, holders, replies, issue_reservations>>
      /\ \A h : Grant(h)' <=> Grant(h)
  BY <1>1, SameOwner
<1>3. /\ \A x \in Clients \ {m[1]} : held'[x] = held[x]
      /\ stage[m[1]] # "dead" => held'[m[1]] = held[m[1]] \cup {m[2]}
      /\ stage[m[1]] = "dead" => held'[m[1]] = held[m[1]]
      /\ held' \in [Clients -> SUBSET HolderIds]
  BY <1>0, <1>1
<1>4. \A t \in Tokens, h \in Holders : InHand(t, h)' => InHand(t, h)
  <2>1. ASSUME NEW t \in Tokens, NEW h \in Holders, InHand(t, h)' PROVE InHand(t, h)
    <3>1. CASE \E x \in Clients : <<t, h>> \in held'[x]
      <4>1. PICK x \in Clients : <<t, h>> \in held'[x]
        BY <3>1
      <4>2. <<t, h>> \in held[x] \/ <<t, h>> = m[2]
        BY <1>3, <4>1
      <4> QED BY <4>2 DEF InHand
    <3>2. CASE \E n \in transit' : n[2] = <<t, h>>
      BY <1>1, <3>2 DEF InHand
    <3> QED BY <2>1, <3>1, <3>2 DEF InHand
  <2> QED BY <2>1
<1>5. \A t \in Tokens, h \in Holders :
        InHand(t, h) /\ ~InHand(t, h)' => \E x \in Clients : stage[x] = "dead"
  <2>1. ASSUME NEW t \in Tokens, NEW h \in Holders, InHand(t, h), stage[m[1]] # "dead"
        PROVE  InHand(t, h)'
    <3>1. CASE <<t, h>> = m[2]
      BY <1>0, <1>3, <2>1, <3>1 DEF InHand
    <3>2. CASE <<t, h>> # m[2]
      <4>1. \A x \in Clients : <<t, h>> \in held[x] => <<t, h>> \in held'[x]
        BY <1>3, <2>1
      <4>2. \A n \in transit : n[2] = <<t, h>> => n \in transit'
        BY <1>1, <3>2
      <4> QED BY <2>1, <4>1, <4>2 DEF InHand
    <3> QED BY <3>1, <3>2
  <2> QED BY <1>0, <2>1
<1>6. \A h : LeaseOf(h)' = LeaseOf(h)
  BY <1>1 DEF LeaseOf
<1>7. ProtocolTypeOK'
  BY <1>0, <1>1, <1>3 DEF ProtocolTypeOK
<1>8. Mail' /\ GrantsComing' /\ GrantsBacked'
  BY <1>0, <1>1, <1>2, <1>6 DEF Mail, Arrived, GrantsComing, GrantsBacked
<1>9. Whereabouts'
  <2>1. \A t \in Tokens, h \in Holders : InHand(t, h)' =>
          /\ t = LeaseOf(h) /\ outcome[h] = "ok" /\ outcome[t] = "ok" /\ h \in holders[t]
          /\ <<t, h>> \notin collected
    BY <1>0, <1>4 DEF Whereabouts
  <2>2. ASSUME NEW x \in Clients, NEW y \in Clients, NEW l \in held'[x]
        PROVE  (l \in held'[y] => x = y) /\ <<y, l>> \notin transit'
    <3>1. \A z \in Clients : l \in held'[z] => l \in held[z] \/ (l = m[2] /\ z = m[1])
      BY <1>3
    <3>2. \A z \in Clients : m[2] \notin held[z]
      BY <1>0 DEF Whereabouts
    <3>3. l = m[2] => <<y, l>> \notin transit'
      <4>1. ASSUME l = m[2], <<y, l>> \in transit PROVE <<y, l>> = m
        <5>1. <<y, l>>[2] = m[2]
          BY <4>1
        <5> QED BY <1>0, <4>1, <5>1 DEF Whereabouts
      <4> QED BY <1>1, <4>1
    <3> QED BY <1>0, <1>1, <2>2, <3>1, <3>2, <3>3 DEF Whereabouts
  <2>3. \A x, y \in transit' : x[2] = y[2] => x = y
    BY <1>0, <1>1 DEF Whereabouts
  <2> QED BY <1>1, <1>2, <1>6, <2>1, <2>2, <2>3 DEF Whereabouts
<1>10. \A r \in Requests : taken'[r] <= Len(replies[r])
  BY <1>0, <1>1 DEF Calls, RequestCall
<1> QED BY <1>1, <1>4, <1>5, <1>7, <1>8, <1>9, <1>10, QuietClient

\* A guard to which no term refers is collected.
LEMMA CollectSafe ==
  ASSUME PInv, OwnerFacts, NEW t \in Tokens, NEW h \in Holders, CollectGuard(t, h)
  PROVE  PInv'
<1>0. /\ ProtocolTypeOK /\ Calls /\ Mail /\ GrantsComing /\ Whereabouts /\ GrantsBacked
      /\ TypeOK /\ Answering
  BY Known
<1>1. /\ UNCHANGED <<vars, stage, request, caller, target, parent, chan, outcome, expired,
                     taken, mailbox, held, transit>>
      /\ collected' = collected \cup {<<t, h>>} /\ lost' = lost \cup {<<t, h>>}
      /\ Granted(t, h) /\ ~InHand(t, h) /\ ~GrantPending(h)
  BY DEF CollectGuard, clientVars, leaseVars
<1>2. /\ UNCHANGED <<owner, seen, status, holders, replies, issue_reservations>>
      /\ \A k : Grant(k)' <=> Grant(k)
  BY <1>1, SameOwner
<1>3. /\ \A u, k : InHand(u, k)' <=> InHand(u, k)
      /\ \A k : LeaseOf(k)' = LeaseOf(k)
  BY <1>1, SameClients
<1>4. t = LeaseOf(h) /\ Grant(h) /\ caller[h] # None
  <2>1. t = LeaseOf(h) /\ Grant(h)
    BY <1>1 DEF Granted, LeaseOf, Grant, Replied
  <2> QED BY <2>1, Known
<1>5. ASSUME NEW p \in Clients, request[p] = h PROVE FALSE
  <2>1. ~\E a \in {"issued", "retained"} : <<h, a>> \in mailbox[p]
    BY <1>1 DEF GrantPending
  <2>2. taken[h] < Len(replies[h])
    BY <1>0, <1>4, <1>5, <2>1 DEF GrantsComing
  <2>3. replies[h][Len(replies[h])] \in {"issued", "retained"}
    <3>1. CASE h \in Tokens
      BY <1>0, <1>4, <3>1, AnswersSay DEF Grant
    <3>2. CASE h \in Children
      BY <1>0, <1>4, <3>2, AnswersSay, KindsDiffer DEF Grant
    <3> QED BY <3>1, <3>2 DEF Holders
  <2> QED BY <1>1, <2>2, <2>3 DEF GrantPending
<1>6. ProtocolTypeOK'
  <2>1. <<t, h>> \in HolderIds
    BY DEF HolderIds
  <2> QED BY <1>0, <1>1, <2>1 DEF ProtocolTypeOK
<1>7. Mail' /\ GrantsComing'
  BY <1>0, <1>1, <1>2 DEF Mail, Arrived, GrantsComing
<1>8. Whereabouts'
  <2>1. ASSUME NEW u \in Tokens, NEW k \in Holders, InHand(u, k)
        PROVE  /\ u = LeaseOf(k) /\ outcome[k] = "ok" /\ outcome[u] = "ok" /\ k \in holders[u]
               /\ <<u, k>> \notin collected'
    BY <1>0, <1>1, <2>1 DEF Whereabouts
  <2> QED BY <1>0, <1>1, <1>2, <1>3, <2>1 DEF Whereabouts
<1>9. GrantsBacked'
  <2>1. ASSUME NEW u \in Tokens, NEW k \in Holders, <<u, k>> \in collected'
        PROVE  /\ u = LeaseOf(k) /\ Grant(k) /\ caller[k] # None
               /\ \A p \in Clients : request[p] # k
               /\ <<u, k>> \notin lost' => k \notin holders[u]
    <3>1. CASE <<u, k>> = <<t, h>>
      BY <1>1, <1>4, <1>5, <3>1
    <3>2. CASE <<u, k>> # <<t, h>>
      BY <1>0, <1>1, <2>1, <3>2 DEF GrantsBacked
    <3> QED BY <3>1, <3>2
  <2> QED BY <1>0, <1>1, <1>2, <1>3, <2>1 DEF GrantsBacked
<1>10. \A r \in Requests : taken'[r] <= Len(replies[r])
  BY <1>0, <1>1 DEF Calls, RequestCall
<1> QED BY <1>1, <1>3, <1>6, <1>7, <1>8, <1>9, <1>10, QuietClient

-----------------------------------------------------------------------------
(* Calls that return.                                                        *)

\* Client p sends the messages of S, of which there is one or none.
Posts(p, S) ==
  \/ S = {} /\ UNCHANGED chan
  \/ \E m \in Messages : S = {m} /\ Send(p, m)

\* The channels before and after.
LEMMA PostFacts ==
  ASSUME chan \in [Clients -> Seq(Messages)], NEW p \in Clients, NEW S, Posts(p, S)
  PROVE  /\ chan' \in [Clients -> Seq(Messages)]
         /\ \A q \in Clients : \A x : InChan(q, x)' <=> InChan(q, x) \/ (q = p /\ x \in S)
         /\ \A q \in Clients : \A x : Once(q, x) /\ (x \notin S \/ ~InChan(q, x)) => Once(q, x)'
         /\ \A q \in Clients : \A x, y : Followed(q, x, y) /\ x \notin S => Followed(q, x, y)'
         /\ \A x : \A y \in S : x \notin S => Followed(p, x, y)'
         /\ \A q \in Clients : DownLast(q) /\ ~InChan(p, DownMessage) => DownLast(q)'
<1>1. CASE S = {} /\ UNCHANGED chan
  BY <1>1, SameChannels
<1>2. CASE \E m \in Messages : S = {m} /\ Send(p, m)
  <2>1. PICK m \in Messages : S = {m} /\ Send(p, m)
    BY <1>2
  <2>2. /\ chan' \in [Clients -> Seq(Messages)]
        /\ \A q \in Clients : \A x : InChan(q, x)' <=> InChan(q, x) \/ (q = p /\ x = m)
        /\ \A q \in Clients : \A x : Once(q, x) /\ (x # m \/ ~InChan(q, x)) => Once(q, x)'
        /\ \A q \in Clients : \A x, y : Followed(q, x, y) /\ x # m => Followed(q, x, y)'
        /\ \A x : x # m => Followed(p, x, m)'
        /\ \A q \in Clients : DownLast(q) /\ ~InChan(p, DownMessage) => DownLast(q)'
    BY <2>1, SendFacts
  <2> QED BY <2>1, <2>2
<1> QED BY <1>1, <1>2 DEF Posts

\* The call r of p returns a result that its replies justify, and posts S, which
\* confirms the lease it returns or withdraws one that the owner may yet grant.
Ends(p, r, l, result, S) ==
  /\ request[p] = r /\ (r \in Holders => l = LeaseOf(r)) /\ Posts(p, S)
  /\ UNCHANGED <<vars, caller, target, parent, taken, transit, lost, collected>>
  /\ expired' \subseteq expired
  /\ stage' = [stage EXCEPT ![p] = "idle"] /\ request' = [request EXCEPT ![p] = None]
  /\ outcome' = [outcome EXCEPT ![r] = result]
  /\ mailbox' \in [Clients -> SUBSET (Requests \X Answers)]
  /\ \A q \in Clients : mailbox'[q] \subseteq mailbox[q] /\ (q # p => mailbox'[q] = mailbox[q])
  /\ \A m \in S : /\ Justified(p, m)' /\ m # DownMessage
                  /\ \A t \in Tokens, h \in Holders : m # Asking(t, h)
  /\ result \in Results(r) \ {"none"}
  /\ result = "ok" => /\ r \in Holders /\ Grant(r) /\ Confirmation(l, r) \in S
                      /\ held' = [held EXCEPT ![p] = @ \cup {<<l, r>>}]
  /\ result # "ok" => held' = held
  /\ result = "drained" => owner = "stopped"
  /\ result = "caller_owned" => r \in Tokens /\ stage[p] = "reserve"
  /\ r \in Holders /\ result \in {"transferred", "error"} /\ owner = "up" =>
       \/ Withdrawal(l, r) \in S
       \/ /\ r \notin holders[l] /\ r \in seen
          /\ r \in Tokens => ~InChan(p, CommitMsg(r))

\* Such a return keeps the invariant.
LEMMA ReturnSafe ==
  ASSUME PInv, OwnerFacts, NEW p \in Clients, NEW r \in Requests, NEW l, NEW result, NEW S,
         Ends(p, r, l, result, S)
  PROVE  PInv'
<1> USE DEF Ends
<1>0. /\ ProtocolTypeOK /\ Calls /\ Mail /\ GrantsComing /\ MessagesJustified /\ IssueSettled
      /\ Whereabouts /\ GrantsBacked /\ Accounted /\ WithdrawalsFollow /\ OwnerSane
      /\ TypeOK /\ Answering
      /\ \A t \in Tokens, h \in Holders :
           h \in holders[t] \/ Pending(t, h) => LeaseOf(h) = t /\ caller[h] # None
      /\ \A t \in Tokens, h \in Holders :
           InHand(t, h) => outcome[h] = "ok" /\ outcome[t] = "ok" /\ t = LeaseOf(h)
  BY Known
<1>1. /\ ClientCall(p) /\ r # None /\ caller[r] = p /\ outcome[r] = "none"
      /\ stage[p] \in {"reserve", "commit", "retain", "drain"}
      /\ \A q \in Clients : request[q] = r => q = p
  <2>1. r # None /\ \A q \in Clients : ClientCall(q)
    BY <1>0, RefsAssumption DEF Calls
  <2>2. \A q \in Clients : request[q] = r => caller[r] = q
    BY <2>1 DEF ClientCall
  <2> QED BY <2>1, <2>2 DEF ClientCall, Waiting
<1>2. r \in Holders => l \in Tokens /\ (r \in Tokens => l = r) /\ (r \in Children => outcome[l] = "ok")
  <2>1. CASE r \in Tokens
    BY <2>1, KindsDiffer DEF LeaseOf
  <2>2. CASE r \in Children
    <3>1. ChildCall(r) /\ p # None /\ target[r] \in Tokens \cup {None} /\ r \in Holders /\ r \notin Tokens
      BY <1>0, <2>2, ClientsAssumption, KindsDiffer DEF Calls, ProtocolTypeOK
    <3>2. target[r] # None
      BY <1>1, <3>1 DEF ChildCall
    <3> QED BY <2>2, <3>1, <3>2 DEF LeaseOf, ChildCall
  <2> QED BY <2>1, <2>2 DEF Holders
<1>3. /\ UNCHANGED <<owner, seen, status, holders, replies, issue_reservations>>
      /\ \A t, h : Pending(t, h)' <=> Pending(t, h)
      /\ \A x, a : Replied(x, a)' <=> Replied(x, a)
      /\ \A h : Grant(h)' <=> Grant(h)
  BY SameOwner
<1>4. /\ \A h : LeaseOf(h)' = LeaseOf(h)
      /\ \A x, a : Arrived(x, a)' <=> Arrived(x, a)
  BY <1>3 DEF LeaseOf, Arrived
<1>5. /\ stage'[p] = "idle" /\ request'[p] = None /\ outcome'[r] = result
      /\ \A q \in Clients \ {p} : stage'[q] = stage[q] /\ request'[q] = request[q]
      /\ \A x \in Requests \ {r} : outcome'[x] = outcome[x]
  BY <1>0 DEF ProtocolTypeOK
<1>6. /\ chan' \in [Clients -> Seq(Messages)]
      /\ \A q \in Clients : \A x : InChan(q, x)' <=> InChan(q, x) \/ (q = p /\ x \in S)
      /\ \A q \in Clients : \A x : Once(q, x) /\ (x \notin S \/ ~InChan(q, x)) => Once(q, x)'
      /\ \A q \in Clients : \A x, y : Followed(q, x, y) /\ x \notin S => Followed(q, x, y)'
      /\ \A x : \A y \in S : x \notin S => Followed(p, x, y)'
      /\ \A q \in Clients : DownLast(q) /\ ~InChan(p, DownMessage) => DownLast(q)'
  BY <1>0, PostFacts DEF ProtocolTypeOK
<1>7. /\ \A t, h : InHand(t, h) => InHand(t, h)'
      /\ \A t, h : InHand(t, h)' => InHand(t, h) \/ (result = "ok" /\ h = r /\ t = l)
      /\ result = "ok" => InHand(l, r)'
      /\ held' \in [Clients -> SUBSET HolderIds]
      /\ \A q \in Clients : \A k \in held'[q] :
           k \in held[q] \/ (result = "ok" /\ q = p /\ k = <<l, r>>)
  <2>0. held \in [Clients -> SUBSET HolderIds]
    BY <1>0 DEF ProtocolTypeOK
  <2>1. CASE result = "ok"
    <3>1. /\ \A q \in Clients : held'[q] = IF q = p THEN held[p] \cup {<<l, r>>} ELSE held[q]
          /\ held' \in [Clients -> SUBSET HolderIds]
      BY <1>2, <2>0, <2>1 DEF HolderIds
    <3>2. <<l, r>> \in held'[p]
      BY <3>1
    <3>3. ASSUME NEW t, NEW h, InHand(t, h)' PROVE InHand(t, h) \/ (h = r /\ t = l)
      BY <3>1, <3>3 DEF InHand
    <3>4. ASSUME NEW t, NEW h, InHand(t, h) PROVE InHand(t, h)'
      BY <3>1, <3>4 DEF InHand
    <3>5. InHand(l, r)'
      BY <3>2 DEF InHand
    <3> QED BY <2>1, <3>1, <3>3, <3>4, <3>5
  <2>2. CASE result # "ok"
    BY <2>0, <2>2 DEF InHand
  <2> QED BY <2>1, <2>2
<1>8. ProtocolTypeOK'
  <2>1. result \in {"none", "ok", "error", "caller_owned", "transferred", "drained"}
    BY DEF Results
  <2> QED BY <1>0, <1>6, <1>7, <2>1 DEF ProtocolTypeOK
<1>9. Calls'
  <2>1. ASSUME NEW q \in Clients PROVE ClientCall(q)'
    <3>1. /\ ClientCall(q) /\ DownLast(q)' /\ (InChan(q, DownMessage)' <=> InChan(q, DownMessage))
      BY <1>0, <1>1, <1>6 DEF Calls, ClientCall
    <3>2. CASE q = p
      BY <1>1, <1>5, <3>1, <3>2 DEF ClientCall, Waiting
    <3>3. CASE q # p
      <4>1. request[q] # None => outcome'[request[q]] = "none"
        <5>1. ASSUME request[q] # None PROVE outcome'[request[q]] = "none"
          <6>1. request[q] \in Requests \ {r} /\ outcome[request[q]] = "none"
            BY <1>0, <1>1, <3>1, <3>3, <5>1 DEF ClientCall, ProtocolTypeOK
          <6> QED BY <1>5, <6>1
        <5> QED BY <5>1
      <4> QED BY <1>5, <3>1, <3>3, <4>1 DEF ClientCall, Waiting
    <3> QED BY <3>2, <3>3
  <2>2. ASSUME NEW x \in Requests PROVE RequestCall(x)'
    <3>1. RequestCall(x)
      BY <1>0 DEF Calls
    <3>2. CASE x = r
      <4>1. outcome'[x] = result /\ Results(x)' = Results(x) /\ x \in Requests
        BY <1>5, <3>2 DEF Results
      <4>2. caller'[x] # None
        BY <1>1, <3>2, ClientsAssumption
      <4>3. result = "ok" => Grant(x)'
        BY <1>3, <3>2
      <4>4. caller'[x] # None /\ outcome'[x] = "none" =>
              request'[caller'[x]] = x \/ stage'[caller'[x]] = "dead"
        BY <1>1, <3>2, <4>1
      <4>5. outcome'[x] \in Results(x)'
        BY <3>2, <4>1
      <4>6. result = "drained" => owner' = "stopped"
        BY <1>3
      <4>7. taken'[x] <= Len(replies'[x])
        BY <1>3, <3>1 DEF RequestCall
      <4> QED BY <4>1, <4>2, <4>3, <4>4, <4>5, <4>6, <4>7 DEF RequestCall
    <3>3. CASE x # r
      <4>1. outcome'[x] = outcome[x]
        BY <1>5, <3>3
      <4>2. caller[x] # None => caller[x] \in Clients
        BY <1>0 DEF ProtocolTypeOK
      <4>3. caller[x] # None /\ outcome[x] = "none" =>
              request'[caller[x]] = x \/ stage'[caller[x]] = "dead"
        BY <1>1, <1>5, <3>1, <3>3, <4>2 DEF RequestCall
      <4> QED BY <1>3, <3>1, <4>1, <4>3 DEF RequestCall, Results
    <3> QED BY <3>2, <3>3
  <2>3. ASSUME NEW h \in Children PROVE ChildCall(h)'
    <3>1. ChildCall(h)
      BY <1>0 DEF Calls
    <3>2. target[h] # None => outcome'[target[h]] = "ok"
      <4>1. ASSUME target[h] # None PROVE outcome'[target[h]] = "ok"
        <5>1. target[h] \in Tokens /\ outcome[target[h]] = "ok"
          BY <1>0, <3>1, <4>1 DEF ChildCall, ProtocolTypeOK
        <5> QED BY <1>1, <1>5, <5>1, KindsDiffer
      <4> QED BY <4>1
    <3> QED BY <1>3, <3>1, <3>2 DEF ChildCall
  <2> QED BY <2>1, <2>2, <2>3 DEF Calls
<1>10. Mail'
  <2>1. \A q \in Clients, t \in Tokens : request'[q] = t /\ stage'[q] = "commit" => q # p
    BY <1>5
  <2> QED BY <1>0, <1>4, <1>5, <2>1 DEF Mail
<1>11. GrantsComing'
  <2>1. \A q \in Clients, h \in Holders : request'[q] = h => q # p
    BY <1>5, KindsDiffer
  <2> QED BY <1>0, <1>3, <1>5, <2>1 DEF GrantsComing
<1>12. MessagesJustified'
  <2>1. ASSUME NEW q \in Clients, NEW m \in Messages, Justified(q, m) PROVE Justified(q, m)'
    <3>1. \A x \in Requests : outcome[x] # "none" => outcome'[x] = outcome[x]
      BY <1>1, <1>5
    <3>2. \A x \in Requests : \A v \in {"ok", "error", "caller_owned", "transferred"} :
            outcome[x] = v => outcome'[x] = v
      BY <3>1
    <3>3. \A t \in Tokens, h \in Holders : outcome[h] = "ok" /\ ~InHand(t, h) => ~InHand(t, h)'
      BY <1>1, <1>7
    <3> QED BY <1>3, <1>4, <2>1, <3>2, <3>3, KindsDiffer DEF Justified
  <2>2. ASSUME NEW q \in Clients, NEW m \in Messages, InChan(q, m)' PROVE Justified(q, m)'
    <3>1. InChan(q, m) \/ (q = p /\ m \in S)
      BY <1>6, <2>2
    <3> QED BY <1>0, <2>1, <3>1 DEF MessagesJustified
  <2>3. ASSUME NEW q \in Clients, NEW t \in Tokens PROVE Once(q, CommitMsg(t))'
    <3>1. Asking(t, t) = CommitMsg(t) /\ t \in Holders
      BY KindsDiffer DEF Asking
    <3>2. CommitMsg(t) \notin S
      BY <3>1
    <3> QED BY <1>0, <1>6, <3>2 DEF MessagesJustified
  <2> QED BY <2>2, <2>3 DEF MessagesJustified
<1>13. \A t \in Tokens, q \in Clients : InChan(q, CommitMsg(t))' => InChan(q, CommitMsg(t))
  <2>1. \A t \in Tokens : Asking(t, t) = CommitMsg(t) /\ t \in Holders
    BY KindsDiffer DEF Asking
  <2>2. \A t \in Tokens : CommitMsg(t) \notin S
    BY <2>1
  <2> QED BY <1>6, <2>2
<1>14. IssueSettled'
  <2>1. ASSUME NEW t \in Tokens, Uncommitted(t)' PROVE Uncommitted(t)
    <3>1. CASE caller[t] = None
      BY <3>1 DEF Uncommitted
    <3>2. CASE outcome'[t] = "caller_owned"
      <4>1. t = r => result = "caller_owned"
        BY <1>5, <3>2
      <4>2. t # r => outcome[t] = "caller_owned"
        BY <1>5, <3>2, KindsDiffer
      <4> QED BY <4>1, <4>2 DEF Uncommitted
    <3>3. CASE \E q \in Clients : request'[q] = t /\ stage'[q] = "reserve"
      BY <1>5, <3>3 DEF Uncommitted
    <3> QED BY <2>1, <3>1, <3>2, <3>3 DEF Uncommitted
  <2>2. \A t \in Tokens, q \in Clients : request'[q] = t /\ stage'[q] = "reserve" =>
          request[q] = t /\ stage[q] = "reserve"
    BY <1>5
  <2> QED BY <1>0, <1>3, <1>13, <2>1, <2>2 DEF IssueSettled
<1>15. Whereabouts'
  <2>1. ASSUME NEW t \in Tokens, NEW h \in Holders, InHand(t, h)'
        PROVE  /\ t = LeaseOf(h) /\ outcome'[h] = "ok" /\ outcome'[t] = "ok" /\ h \in holders[t]
               /\ <<t, h>> \notin collected
    <3>1. CASE InHand(t, h)
      <4>1. /\ t = LeaseOf(h) /\ outcome[h] = "ok" /\ outcome[t] = "ok" /\ h \in holders[t]
            /\ <<t, h>> \notin collected
        BY <1>0, <3>1 DEF Whereabouts
      <4> QED BY <1>1, <1>5, <4>1, KindsDiffer
    <3>2. CASE result = "ok" /\ h = r /\ t = l
      <4>1. h \in holders[t] /\ <<t, h>> \notin collected
        BY <1>0, <3>2 DEF GrantsBacked
      <4>2. outcome'[t] = "ok"
        BY <1>1, <1>2, <1>5, <3>2, KindsDiffer DEF Holders
      <4> QED BY <1>5, <3>2, <4>1, <4>2
    <3> QED BY <1>7, <2>1, <3>1, <3>2
  <2>2. result = "ok" => /\ \A q \in Clients : <<l, r>> \notin held[q] /\ <<q, <<l, r>>>> \notin transit
    <3>1. result = "ok" => ~InHand(l, r)
      BY <1>0, <1>1, <1>2
    <3>2. ASSUME NEW q \in Clients, <<q, <<l, r>>>> \in transit PROVE InHand(l, r)
      <4>1. <<q, <<l, r>>>>[2] = <<l, r>>
        OBVIOUS
      <4> QED BY <3>2, <4>1 DEF InHand
    <3> QED BY <3>1, <3>2 DEF InHand
  <2>3. ASSUME NEW x \in Clients, NEW y \in Clients, NEW k \in held'[x]
        PROVE  (k \in held'[y] => x = y) /\ <<y, k>> \notin transit
    <3>1. /\ k \in held[x] \/ (result = "ok" /\ x = p /\ k = <<l, r>>)
          /\ k \in held'[y] => k \in held[y] \/ (result = "ok" /\ y = p /\ k = <<l, r>>)
      BY <1>7, <2>3
    <3>2. CASE k \in held[x]
      <4>1. (k \in held[y] => x = y) /\ <<y, k>> \notin transit
        BY <1>0, <3>2 DEF Whereabouts
      <4>2. result = "ok" => k # <<l, r>>
        BY <2>2, <3>2
      <4> QED BY <3>1, <4>1, <4>2
    <3>3. CASE result = "ok" /\ x = p /\ k = <<l, r>>
      <4>1. k \notin held[y] /\ <<y, k>> \notin transit
        BY <2>2, <3>3
      <4> QED BY <3>1, <3>3, <4>1
    <3> QED BY <3>1, <3>2, <3>3
  <2> QED BY <1>0, <1>3, <1>4, <2>1, <2>3 DEF Whereabouts
<1>16. GrantsBacked'
  <2>1. \A q \in Clients, h \in Holders : request'[q] = h => request[q] = h
    BY <1>5, KindsDiffer
  <2> QED BY <1>0, <1>3, <1>4, <2>1 DEF GrantsBacked
<1>17. Accounted'
  <2> SUFFICES ASSUME NEW t \in Tokens, NEW h \in Holders
      PROVE  /\ h \in holders[t] => outcome'[h] = "ok" \/ Pending(t, h)
             /\ owner = "up" /\ h \in holders[t] /\ outcome'[h] = "ok" =>
                  \/ InHand(t, h)'
                  \/ \E q \in Clients : InChan(q, ReleaseMsg(t, h))' \/ stage'[q] = "dead"
             /\ \A q \in Clients : caller[h] = q =>
                  /\ Pending(t, h) /\ outcome'[h] = "ok" => InChan(q, Confirmation(t, h))'
                  /\ owner = "up" /\ h \in holders[t] /\ Withdrawn(h)' => InChan(q, Withdrawal(t, h))'
    BY <1>3 DEF Accounted
  <2>0. h \in Requests
    BY KindsDiffer
  <2>1. CASE h # r
    <3>1. outcome'[h] = outcome[h] /\ (Withdrawn(h)' <=> Withdrawn(h))
      BY <1>5, <2>0, <2>1 DEF Withdrawn
    <3>2. \A q \in Clients : stage[q] = "dead" => stage'[q] = "dead"
      BY <1>1, <1>5
    <3> QED BY <1>0, <1>6, <1>7, <3>1, <3>2 DEF Accounted
  <2>2. CASE h = r
    <3>1. outcome'[h] = result /\ (Withdrawn(h)' <=> result \in {"transferred", "error"})
      BY <1>5, <2>2 DEF Withdrawn
    <3>2. h \in holders[t] \/ Pending(t, h) => t = l
      BY <1>0, <2>2
    <3>3. h \in holders[t] => outcome'[h] = "ok" \/ Pending(t, h)
      BY <1>0, <1>1, <2>2 DEF Accounted
    <3>4. h \in holders[t] /\ outcome'[h] = "ok" => InHand(t, h)'
      BY <1>7, <2>2, <3>1, <3>2
    <3>5. ASSUME NEW q \in Clients, caller[h] = q, Pending(t, h), outcome'[h] = "ok"
          PROVE  InChan(q, Confirmation(t, h))'
      <4>1. Confirmation(t, h) \in S /\ q = p
        BY <1>1, <2>2, <3>1, <3>2, <3>5
      <4> QED BY <1>6, <4>1
    <3>6. ASSUME NEW q \in Clients, caller[h] = q, owner = "up", h \in holders[t], Withdrawn(h)'
          PROVE  InChan(q, Withdrawal(t, h))'
      <4>1. Withdrawal(t, h) \in S /\ q = p
        BY <1>1, <2>2, <3>1, <3>2, <3>6
      <4> QED BY <1>6, <4>1
    <3> QED BY <3>3, <3>4, <3>5, <3>6
  <2> QED BY <2>1, <2>2
<1>18. WithdrawalsFollow'
  <2> SUFFICES ASSUME owner = "up", NEW q \in Clients, NEW t \in Tokens, NEW h \in Holders,
                      caller[h] = q, LeaseOf(h) = t, Withdrawn(h)', h \in Tokens \/ h \notin seen
               PROVE  Followed(q, Asking(t, h), Withdrawal(t, h))'
    BY <1>3, <1>4 DEF WithdrawalsFollow
  <2>0. h \in Requests /\ Asking(t, h) \notin S
    BY KindsDiffer
  <2>1. CASE h # r
    <3>1. Withdrawn(h)
      BY <1>5, <2>0, <2>1 DEF Withdrawn
    <3> QED BY <1>0, <1>6, <2>0, <3>1 DEF WithdrawalsFollow
  <2>2. CASE h = r
    <3>1. result \in {"transferred", "error"} /\ t = l /\ q = p
      BY <1>1, <1>5, <2>2 DEF Withdrawn
    <3>2. CASE Withdrawal(l, r) \in S
      BY <1>6, <2>0, <2>2, <3>1, <3>2
    <3>3. CASE r \in Tokens /\ ~InChan(p, CommitMsg(r))
      <4>1. Asking(t, h) = CommitMsg(t) /\ t = r
        BY <1>2, <2>2, <3>1, <3>3 DEF Asking
      <4>2. ~InChan(p, CommitMsg(t))'
        BY <1>13, <3>3, <4>1
      <4>3. Followed(p, CommitMsg(t), Withdrawal(t, h))'
        BY <4>2 DEF Followed, InChan
      <4> QED BY <3>1, <4>1, <4>3
    <3> QED BY <2>2, <3>1, <3>2, <3>3
  <2> QED BY <2>1, <2>2
<1>19. OwnerSane'
  BY <1>0, <1>3 DEF OwnerSane
<1> QED BY <1>8, <1>9, <1>10, <1>11, <1>12, <1>14, <1>15, <1>16, <1>17, <1>18, <1>19 DEF PInv

-----------------------------------------------------------------------------
(* How calls end.                                                            *)

\* A call that waits, seen from its request.
LEMMA CallOf ==
  ASSUME PInv, OwnerFacts, NEW p \in Clients, Waiting(p)
  PROVE  \E r \in Requests :
           /\ request[p] = r /\ caller[r] = p /\ outcome[r] = "none"
           /\ r \in Tokens => stage[p] \in {"reserve", "commit"}
           /\ r \in Children => stage[p] = "retain" /\ target[r] = LeaseOf(r) /\ target[r] \in Tokens
           /\ r \in Callers => stage[p] = "drain"
           /\ stage[p] \in {"reserve", "commit"} => r \in Tokens
           /\ stage[p] = "retain" => r \in Children
           /\ stage[p] = "drain" => r \in Callers
           /\ r \in Tokens => LeaseOf(r) = r
           /\ \A a \in Answers : <<r, a>> \in mailbox[p] => Replied(r, a)
<1>0. /\ ProtocolTypeOK /\ Calls /\ Mail /\ TypeOK
      /\ Tokens \subseteq Requests /\ Children \subseteq Requests
  BY Known, KindsDiffer
<1>1. ClientCall(p) /\ request[p] # None /\ request[p] \in Requests
  BY <1>0 DEF Calls, ClientCall, ProtocolTypeOK
<1>2. PICK r \in Requests : r = request[p]
  BY <1>1
<1>3. /\ caller[r] = p /\ outcome[r] = "none" /\ p # None
      /\ stage[p] \in {"reserve", "commit"} => r \in Tokens
      /\ stage[p] = "retain" => r \in Children
      /\ stage[p] = "drain" => r \in Callers
  BY <1>1, <1>2, ClientsAssumption DEF ClientCall
<1>4. stage[p] \in {"reserve", "commit", "retain", "drain"}
  BY DEF Waiting
<1>5. r \in Children => target[r] = LeaseOf(r) /\ target[r] \in Tokens
  <2>1. r \in Children => ChildCall(r) /\ r \notin Tokens /\ target[r] \in Tokens \cup {None}
    BY <1>0, KindsDiffer DEF Calls, ProtocolTypeOK
  <2> QED BY <1>3, <2>1 DEF ChildCall, LeaseOf
<1>6. ASSUME NEW a \in Answers, <<r, a>> \in mailbox[p] PROVE Replied(r, a)
  <2>1. PICK i \in 1..taken[r] : replies[r][i] = a
    BY <1>0, <1>6 DEF Mail, Arrived
  <2>2. taken[r] <= Len(replies[r]) /\ taken[r] \in Nat /\ Len(replies[r]) \in Nat
    BY <1>0 DEF Calls, RequestCall, ProtocolTypeOK, TypeOK
  <2>3. PICK n \in Nat, k \in Nat : n = Len(replies[r]) /\ k = taken[r]
    BY <2>2
  <2>4. i \in 1..n
    BY <2>1, <2>2, <2>3
  <2> QED BY <2>1, <2>3, <2>4 DEF Replied
<1> QED BY <1>2, <1>3, <1>4, <1>5, <1>6, KindsDiffer DEF LeaseOf

\* The messages that end a call ask for no lease.
LEMMA EndingMessages ==
  /\ \A t \in Tokens : \A m \in {CancelReservationMsg(t), ConfirmIssueMsg(t), CancelIssueMsg(t)} :
       /\ m \in Messages /\ m # DownMessage
       /\ \A u \in Tokens, h \in Holders : m # Asking(u, h)
  /\ \A t \in Tokens, k \in Children : \A m \in {ConfirmRetainMsg(t, k), CancelRetainMsg(t, k)} :
       /\ m \in Messages /\ m # DownMessage
       /\ \A u \in Tokens, h \in Holders : m # Asking(u, h)
  /\ \A c \in Callers : /\ CancelDrainMsg(c) \in Messages /\ CancelDrainMsg(c) # DownMessage
                        /\ \A u \in Tokens, h \in Holders : CancelDrainMsg(c) # Asking(u, h)
  /\ \A t \in Tokens, k \in Holders :
       /\ ReleaseMsg(t, k) \in Messages /\ ReleaseMsg(t, k) # DownMessage
       /\ \A u \in Tokens, h \in Holders : ReleaseMsg(t, k) # Asking(u, h)
<1>1. \A u, h : Asking(u, h).kind \in {"commit", "retain"}
  BY MessageFields DEF Asking, CommitMsg, RetainMsg
<1>2. DownMessage.kind = "down"
  BY MessageFields DEF DownMessage
<1>3. /\ \A t : /\ CancelReservationMsg(t).kind = "cancel_reservation"
                /\ ConfirmIssueMsg(t).kind = "confirm_issue"
                /\ CancelIssueMsg(t).kind = "cancel_issue"
                /\ CancelDrainMsg(t).kind = "cancel_drain"
      /\ \A t, k : /\ ConfirmRetainMsg(t, k).kind = "confirm_retain"
                   /\ CancelRetainMsg(t, k).kind = "cancel_retain"
                   /\ ReleaseMsg(t, k).kind = "release"
  BY MessageFields DEF CancelReservationMsg, ConfirmIssueMsg, CancelIssueMsg, CancelDrainMsg,
                       ConfirmRetainMsg, CancelRetainMsg, ReleaseMsg
<1> QED BY <1>1, <1>2, <1>3, MessagesSent

\* The reply that ends an issue call.
LEMMA IssueEnds ==
  ASSUME PInv, OwnerFacts, NEW p \in Clients, NEW r \in Tokens, NEW a \in Answers,
         TakeReply(p, <<r, a>>), a # "reserved"
  PROVE  PInv'
<1>0. ProtocolTypeOK /\ TypeOK /\ Answering /\ MessagesJustified /\ Mail
  BY Known
<1>1. /\ Waiting(p) /\ <<r, a>> \in mailbox[p] /\ r = request[p]
      /\ mailbox' = [mailbox EXCEPT ![p] = @ \ {<<r, a>>}]
      /\ UNCHANGED <<vars, expired, caller, target, parent, taken, transit, lost, collected>>
      /\ \/ /\ a = "issued" /\ Send(p, ConfirmIssueMsg(r))
            /\ held' = [held EXCEPT ![p] = @ \cup {<<r, r>>}]
            /\ Return(p, "ok")
         \/ a = "retained"
         \/ /\ a \in {"caller_owned", "transferred", "drained"}
            /\ Return(p, a) /\ UNCHANGED <<chan, held>>
         \/ a \in {"retain_error", "release_failed"}
  BY DEF TakeReply, ConfirmIssueMsg, guardVars
<1>2. /\ caller[r] = p /\ stage[p] \in {"reserve", "commit"} /\ LeaseOf(r) = r
      /\ Replied(r, a) /\ r \in Requests /\ r \in Holders
  BY <1>1, CallOf, KindsDiffer
<1>3. /\ mailbox' \in [Clients -> SUBSET (Requests \X Answers)]
      /\ \A q \in Clients : mailbox'[q] \subseteq mailbox[q] /\ (q # p => mailbox'[q] = mailbox[q])
  BY <1>0, <1>1 DEF ProtocolTypeOK
<1>4. a \in {"caller_owned", "issued", "transferred"}
  BY <1>0, <1>2, AnswersSay
<1>5. CASE a = "issued"
  <2>1. /\ Send(p, ConfirmIssueMsg(r)) /\ held' = [held EXCEPT ![p] = @ \cup {<<r, r>>}]
        /\ stage' = [stage EXCEPT ![p] = "idle"] /\ request' = [request EXCEPT ![p] = None]
        /\ outcome' = [outcome EXCEPT ![r] = "ok"]
    BY <1>1, <1>5 DEF Return
  <2>2. PICK S : S = {ConfirmIssueMsg(r)}
    OBVIOUS
  <2>3. Posts(p, S)
    BY <2>1, <2>2, EndingMessages DEF Posts
  <2>4. outcome'[r] = "ok"
    BY <1>0, <1>2, <2>1 DEF ProtocolTypeOK
  <2>5. Justified(p, ConfirmIssueMsg(r))'
    BY <2>4 DEF Justified
  <2>6. Grant(r) /\ Confirmation(r, r) \in S /\ "ok" \in Results(r) \ {"none"}
    BY <1>2, <1>5, <2>2 DEF Grant, Confirmation, Results
  <2>7. \A m \in S : /\ Justified(p, m)' /\ m # DownMessage
                     /\ \A t \in Tokens, h \in Holders : m # Asking(t, h)
    BY <2>2, <2>5, EndingMessages
  <2>8. Ends(p, r, r, "ok", S)
    BY <1>1, <1>2, <1>3, <2>1, <2>3, <2>6, <2>7 DEF Ends
  <2> QED BY <1>2, <2>8, ReturnSafe
<1>6. CASE a \in {"caller_owned", "transferred"}
  <2>1. /\ UNCHANGED <<chan, held>>
        /\ stage' = [stage EXCEPT ![p] = "idle"] /\ request' = [request EXCEPT ![p] = None]
        /\ outcome' = [outcome EXCEPT ![r] = a]
    BY <1>1, <1>6 DEF Return
  <2>2. a = "caller_owned" => stage[p] = "reserve"
    <3>1. ASSUME a = "caller_owned", stage[p] = "commit" PROVE FALSE
      <4>1. Arrived(r, "reserved") /\ ~Replied(r, "reserved")
        BY <1>0, <1>1, <1>2, <3>1, AnswersSay DEF Mail
      <4>2. taken[r] <= Len(replies[r]) /\ taken[r] \in Nat /\ Len(replies[r]) \in Nat
        BY <1>0, <1>2, Known DEF Calls, RequestCall, ProtocolTypeOK, TypeOK
      <4>3. PICK n \in Nat, k \in Nat : n = Len(replies[r]) /\ k = taken[r]
        BY <4>2
      <4>4. PICK i \in 1..k : replies[r][i] = "reserved"
        BY <4>1, <4>3 DEF Arrived
      <4>5. i \in 1..n
        BY <4>2, <4>3, <4>4
      <4> QED BY <4>1, <4>3, <4>4, <4>5 DEF Replied
    <3> QED BY <1>2, <3>1
  <2>3. a = "transferred" => r \notin holders[r] /\ r \in seen /\ ~InChan(p, CommitMsg(r))
    BY <1>0, <1>2, AnswersSay, MessagesSay
  <2>4. a \in Results(r) \ {"none"}
    BY <1>6 DEF Results
  <2>5. PICK S : S = {}
    OBVIOUS
  <2>6. Posts(p, S)
    BY <2>1, <2>5 DEF Posts
  <2>7. Ends(p, r, r, a, S)
    BY <1>1, <1>2, <1>3, <1>6, <2>1, <2>2, <2>3, <2>4, <2>5, <2>6 DEF Ends
  <2> QED BY <1>2, <2>7, ReturnSafe
<1> QED BY <1>4, <1>5, <1>6

\* The reply that ends a retain call.
LEMMA RetainEnds ==
  ASSUME PInv, OwnerFacts, NEW p \in Clients, NEW r \in Children, NEW a \in Answers,
         TakeReply(p, <<r, a>>)
  PROVE  PInv'
<1>0. ProtocolTypeOK /\ TypeOK /\ Answering
  BY Known
<1>a. PICK l : l = target[r]
  OBVIOUS
<1>1. /\ Waiting(p) /\ <<r, a>> \in mailbox[p] /\ r = request[p]
      /\ mailbox' = [mailbox EXCEPT ![p] = @ \ {<<r, a>>}]
      /\ UNCHANGED <<vars, expired, caller, target, parent, taken, transit, lost, collected>>
      /\ \/ a \in {"reserved", "issued", "caller_owned", "transferred", "drained"}
         \/ /\ a = "retained" /\ Send(p, ConfirmRetainMsg(l, r))
            /\ held' = [held EXCEPT ![p] = @ \cup {<<l, r>>}]
            /\ Return(p, "ok")
         \/ /\ a = "retained" /\ Send(p, CancelRetainMsg(l, r))
            /\ Return(p, "error") /\ UNCHANGED held
         \/ /\ a \in {"retain_error", "release_failed"}
            /\ Return(p, "error") /\ UNCHANGED <<chan, held>>
  BY <1>a DEF TakeReply, ConfirmRetainMsg, CancelRetainMsg, guardVars
<1>2. /\ caller[r] = p /\ l = LeaseOf(r) /\ l \in Tokens /\ stage[p] = "retain"
      /\ Replied(r, a) /\ r \in Requests /\ r \in Holders /\ r \notin Tokens
  BY <1>a, <1>1, CallOf, KindsDiffer
<1>3. /\ mailbox' \in [Clients -> SUBSET (Requests \X Answers)]
      /\ \A q \in Clients : mailbox'[q] \subseteq mailbox[q] /\ (q # p => mailbox'[q] = mailbox[q])
  BY <1>0, <1>1 DEF ProtocolTypeOK
<1>4. a \in {"retained", "retain_error"}
  BY <1>0, <1>2, AnswersSay
<1>5. CASE a = "retained" /\ Send(p, ConfirmRetainMsg(l, r)) /\ Return(p, "ok")
           /\ held' = [held EXCEPT ![p] = @ \cup {<<l, r>>}]
  <2>1. /\ stage' = [stage EXCEPT ![p] = "idle"] /\ request' = [request EXCEPT ![p] = None]
        /\ outcome' = [outcome EXCEPT ![r] = "ok"]
    BY <1>1, <1>5 DEF Return
  <2>2. PICK S : S = {ConfirmRetainMsg(l, r)}
    OBVIOUS
  <2>3. Posts(p, S)
    BY <1>2, <1>5, <2>2, EndingMessages DEF Posts
  <2>4. outcome'[r] = "ok" /\ target'[r] = l
    BY <1>a, <1>0, <1>1, <1>2, <2>1 DEF ProtocolTypeOK
  <2>5. Justified(p, ConfirmRetainMsg(l, r))'
    BY <1>2, <2>4 DEF Justified
  <2>6. Grant(r) /\ Confirmation(l, r) \in S /\ "ok" \in Results(r) \ {"none"}
    BY <1>2, <1>5, <2>2 DEF Grant, Confirmation, Results
  <2>7. \A m \in S : /\ Justified(p, m)' /\ m # DownMessage
                     /\ \A t \in Tokens, h \in Holders : m # Asking(t, h)
    BY <1>2, <2>2, <2>5, EndingMessages
  <2>8. Ends(p, r, l, "ok", S)
    BY <1>1, <1>2, <1>3, <1>5, <2>1, <2>3, <2>6, <2>7 DEF Ends
  <2> QED BY <1>2, <2>8, ReturnSafe
<1>6. CASE a = "retained" /\ Send(p, CancelRetainMsg(l, r)) /\ Return(p, "error") /\ UNCHANGED held
  <2>1. /\ stage' = [stage EXCEPT ![p] = "idle"] /\ request' = [request EXCEPT ![p] = None]
        /\ outcome' = [outcome EXCEPT ![r] = "error"]
    BY <1>1, <1>6 DEF Return
  <2>2. PICK S : S = {CancelRetainMsg(l, r)}
    OBVIOUS
  <2>3. Posts(p, S)
    BY <1>2, <1>6, <2>2, EndingMessages DEF Posts
  <2>4. outcome'[r] = "error" /\ target'[r] = l
    BY <1>a, <1>0, <1>1, <1>2, <2>1 DEF ProtocolTypeOK
  <2>5. Justified(p, CancelRetainMsg(l, r))'
    BY <1>2, <2>4 DEF Justified
  <2>6. Withdrawal(l, r) \in S /\ "error" \in Results(r) \ {"none"}
    BY <1>2, <2>2 DEF Withdrawal, Results
  <2>7. \A m \in S : /\ Justified(p, m)' /\ m # DownMessage
                     /\ \A t \in Tokens, h \in Holders : m # Asking(t, h)
    BY <1>2, <2>2, <2>5, EndingMessages
  <2>8. Ends(p, r, l, "error", S)
    BY <1>1, <1>2, <1>3, <1>6, <2>1, <2>3, <2>6, <2>7 DEF Ends
  <2> QED BY <1>2, <2>8, ReturnSafe
<1>7. CASE a = "retain_error"
  <2>1. /\ UNCHANGED <<chan, held>>
        /\ stage' = [stage EXCEPT ![p] = "idle"] /\ request' = [request EXCEPT ![p] = None]
        /\ outcome' = [outcome EXCEPT ![r] = "error"]
    BY <1>1, <1>7 DEF Return
  <2>2. PICK S : S = {}
    OBVIOUS
  <2>3. Posts(p, S)
    BY <2>1, <2>2 DEF Posts
  <2>4. r \notin holders[l] /\ r \in seen /\ "error" \in Results(r) \ {"none"}
    BY <1>0, <1>2, <1>7, AnswersSay DEF Results
  <2>5. Ends(p, r, l, "error", S)
    BY <1>1, <1>2, <1>3, <2>1, <2>2, <2>3, <2>4 DEF Ends
  <2> QED BY <1>2, <2>5, ReturnSafe
<1> QED BY <1>1, <1>4, <1>5, <1>6, <1>7

\* The reply that ends a drain call.
LEMMA DrainEnds ==
  ASSUME PInv, OwnerFacts, NEW p \in Clients, NEW r \in Callers, NEW a \in Answers,
         TakeReply(p, <<r, a>>)
  PROVE  PInv'
<1>0. ProtocolTypeOK /\ TypeOK /\ Answering
  BY Known
<1>1. /\ Waiting(p) /\ <<r, a>> \in mailbox[p] /\ r = request[p]
      /\ mailbox' = [mailbox EXCEPT ![p] = @ \ {<<r, a>>}]
      /\ UNCHANGED <<vars, expired, caller, target, parent, taken, transit, lost, collected>>
      /\ \/ a \in {"reserved", "issued", "retained"}
         \/ /\ a \in {"caller_owned", "transferred", "drained"}
            /\ Return(p, a) /\ UNCHANGED <<chan, held>>
         \/ /\ a \in {"retain_error", "release_failed"}
            /\ Return(p, "error") /\ UNCHANGED <<chan, held>>
  BY DEF TakeReply, guardVars
<1>2. Replied(r, a) /\ r \in Requests /\ r \notin Tokens /\ r \notin Children /\ r \notin Holders
  BY <1>1, CallOf, KindsDiffer DEF Holders
<1>3. /\ mailbox' \in [Clients -> SUBSET (Requests \X Answers)]
      /\ \A q \in Clients : mailbox'[q] \subseteq mailbox[q] /\ (q # p => mailbox'[q] = mailbox[q])
  BY <1>0, <1>1 DEF ProtocolTypeOK
<1>4. a \in {"drained", "release_failed", "ok", "error"} /\ (a = "drained" => owner = "stopped")
  BY <1>0, <1>2, AnswersSay
<1>5. PICK S : S = {}
  OBVIOUS
<1>6. /\ UNCHANGED <<chan, held>> /\ a \in {"drained", "release_failed"}
      /\ Return(p, IF a = "drained" THEN "drained" ELSE "error")
  BY <1>1, <1>4
<1>7. PICK result : result = IF a = "drained" THEN "drained" ELSE "error"
  OBVIOUS
<1>8. /\ stage' = [stage EXCEPT ![p] = "idle"] /\ request' = [request EXCEPT ![p] = None]
      /\ outcome' = [outcome EXCEPT ![r] = result]
  BY <1>1, <1>6, <1>7 DEF Return
<1>9. Posts(p, S)
  BY <1>5, <1>6 DEF Posts
<1>10. /\ result \in Results(r) \ {"none"} /\ (result = "drained" => owner = "stopped")
       /\ result # "ok" /\ result # "caller_owned"
  BY <1>2, <1>4, <1>7 DEF Results
<1>11. expired' \subseteq expired
  BY <1>1
<1>12. Ends(p, r, r, result, S)
  BY <1>1, <1>2, <1>3, <1>5, <1>6, <1>8, <1>9, <1>10, <1>11 DEF Ends
<1> QED BY <1>2, <1>12, ReturnSafe

-----------------------------------------------------------------------------
(* Calls that end without a reply.                                           *)

\* The owner is gone.
LEMMA DownEnds ==
  ASSUME PInv, OwnerFacts, NEW p \in Clients, TakeDown(p)
  PROVE  PInv'
<1>0. ProtocolTypeOK
  BY Known
<1>1. /\ Waiting(p) /\ owner # "up" /\ Return(p, Unanswered(p))
      /\ UNCHANGED <<vars, expired, caller, target, parent, chan, taken, mailbox,
                     held, transit, lost, collected>>
  BY DEF TakeDown, leaseVars, guardVars
<1>2. PICK r \in Requests :
        /\ request[p] = r /\ stage[p] \in {"reserve", "commit", "retain", "drain"}
        /\ stage[p] \in {"reserve", "commit"} => r \in Tokens
        /\ stage[p] = "retain" => r \in Children
        /\ stage[p] = "drain" => r \in Callers
  BY <1>1, CallOf DEF Waiting
<1>3. PICK l : l = LeaseOf(r)
  OBVIOUS
<1>4. PICK result : result = Unanswered(p)
  OBVIOUS
<1>5. /\ result \in {"caller_owned", "transferred", "error"} /\ result \in Results(r) \ {"none"}
      /\ result = "caller_owned" => r \in Tokens /\ stage[p] = "reserve"
  BY <1>2, <1>4, KindsDiffer DEF Unanswered, Results
<1>6. /\ stage' = [stage EXCEPT ![p] = "idle"] /\ request' = [request EXCEPT ![p] = None]
      /\ outcome' = [outcome EXCEPT ![r] = result]
  BY <1>1, <1>2, <1>4 DEF Return
<1>7. PICK S : S = {}
  OBVIOUS
<1>8. Posts(p, S)
  BY <1>1, <1>7 DEF Posts
<1>9. Ends(p, r, l, result, S)
  BY <1>0, <1>1, <1>2, <1>3, <1>5, <1>6, <1>7, <1>8 DEF Ends, ProtocolTypeOK
<1> QED BY <1>9, ReturnSafe

\* The receive timed out: the call is taken back.
LEMMA TimeOutEnds ==
  ASSUME PInv, OwnerFacts, NEW p \in Clients, TimeOut(p)
  PROVE  PInv'
<1>0. ProtocolTypeOK
  BY Known
<1>1. /\ Waiting(p) /\ Send(p, Cancellation(p)) /\ Return(p, Unanswered(p))
      /\ expired' = expired \ {p}
      /\ UNCHANGED <<vars, caller, target, parent, taken, mailbox, held, transit, lost, collected>>
  BY DEF TimeOut, leaseVars, guardVars
<1>2. PICK r \in Requests :
        /\ request[p] = r /\ caller[r] = p
        /\ stage[p] \in {"reserve", "commit"} => r \in Tokens
        /\ r \in Children => target[r] = LeaseOf(r) /\ target[r] \in Tokens
        /\ stage[p] = "retain" => r \in Children
        /\ stage[p] = "drain" => r \in Callers
        /\ r \in Tokens => LeaseOf(r) = r
  BY <1>1, CallOf
<1>3. PICK l : l = LeaseOf(r)
  OBVIOUS
<1>4. stage[p] \in {"reserve", "commit", "retain", "drain"} /\ p # None
  BY <1>1, ClientsAssumption DEF Waiting
<1>5. PICK result, m : result = Unanswered(p) /\ m = Cancellation(p)
  OBVIOUS
<1>6. /\ Send(p, m) /\ stage' = [stage EXCEPT ![p] = "idle"]
      /\ request' = [request EXCEPT ![p] = None] /\ outcome' = [outcome EXCEPT ![r] = result]
  BY <1>1, <1>2, <1>5 DEF Return
<1>7. outcome'[r] = result /\ target' = target /\ caller' = caller
  BY <1>0, <1>1, <1>6 DEF ProtocolTypeOK
<1>8. PICK S : S = {m}
  OBVIOUS
<1>9. ASSUME stage[p] = "reserve" PROVE Ends(p, r, l, result, S)
  <2>1. result = "caller_owned" /\ m = CancelReservationMsg(r) /\ r \in Tokens
    BY <1>2, <1>5, <1>9 DEF Unanswered, Cancellation, CancelReservationMsg
  <2>2. Justified(p, m)'
    BY <1>7, <2>1 DEF Justified
  <2>3. Posts(p, S)
    BY <1>6, <1>8, <2>1, EndingMessages DEF Posts
  <2>4. m # DownMessage /\ \A t \in Tokens, h \in Holders : m # Asking(t, h)
    BY <2>1, EndingMessages
  <2>5. result \in Results(r) \ {"none"}
    BY <2>1 DEF Results
  <2> QED BY <1>0, <1>1, <1>2, <1>3, <1>6, <1>8, <1>9, <2>1, <2>2, <2>3, <2>4, <2>5
          DEF Ends, ProtocolTypeOK
<1>10. ASSUME stage[p] = "commit" PROVE Ends(p, r, l, result, S)
  <2>1. result = "transferred" /\ m = CancelIssueMsg(r) /\ r \in Tokens /\ l = r
    BY <1>2, <1>3, <1>5, <1>10 DEF Unanswered, Cancellation, CancelIssueMsg
  <2>2. Justified(p, m)' /\ m = Withdrawal(l, r)
    BY <1>7, <2>1 DEF Justified, Withdrawal
  <2>3. Posts(p, S)
    BY <1>6, <1>8, <2>1, EndingMessages DEF Posts
  <2>4. m # DownMessage /\ \A t \in Tokens, h \in Holders : m # Asking(t, h)
    BY <2>1, EndingMessages
  <2>5. result \in Results(r) \ {"none"}
    BY <2>1 DEF Results
  <2> QED BY <1>0, <1>1, <1>2, <1>3, <1>6, <1>8, <2>1, <2>2, <2>3, <2>4, <2>5
          DEF Ends, ProtocolTypeOK
<1>11. ASSUME stage[p] = "retain" PROVE Ends(p, r, l, result, S)
  <2>1. /\ result = "error" /\ r \in Children /\ target[r] = l /\ l \in Tokens /\ r \notin Tokens
        /\ m = CancelRetainMsg(l, r)
    BY <1>2, <1>3, <1>5, <1>11, KindsDiffer DEF Unanswered, Cancellation, CancelRetainMsg
  <2>2. Justified(p, m)' /\ m = Withdrawal(l, r)
    BY <1>7, <2>1 DEF Justified, Withdrawal
  <2>3. Posts(p, S)
    BY <1>6, <1>8, <2>1, EndingMessages DEF Posts
  <2>4. m # DownMessage /\ \A t \in Tokens, h \in Holders : m # Asking(t, h)
    BY <2>1, EndingMessages
  <2>5. result \in Results(r) \ {"none"}
    BY <2>1 DEF Results
  <2> QED BY <1>0, <1>1, <1>2, <1>3, <1>6, <1>8, <2>1, <2>2, <2>3, <2>4, <2>5
          DEF Ends, ProtocolTypeOK
<1>12. ASSUME stage[p] = "drain" PROVE Ends(p, r, l, result, S)
  <2>1. /\ result = "error" /\ r \in Callers /\ r \notin Holders /\ r \notin Tokens
        /\ r \notin Children /\ m = CancelDrainMsg(r)
    BY <1>2, <1>5, <1>12, KindsDiffer DEF Unanswered, Cancellation, CancelDrainMsg, Holders
  <2>2. Justified(p, m)'
    BY <1>2, <1>4, <1>7, <2>1 DEF Justified
  <2>3. Posts(p, S)
    BY <1>6, <1>8, <2>1, EndingMessages DEF Posts
  <2>4. m # DownMessage /\ \A t \in Tokens, h \in Holders : m # Asking(t, h)
    BY <2>1, EndingMessages
  <2>5. result \in Results(r) \ {"none"}
    BY <2>1 DEF Results
  <2> QED BY <1>0, <1>1, <1>2, <1>3, <1>6, <1>8, <2>1, <2>2, <2>3, <2>4, <2>5
          DEF Ends, ProtocolTypeOK
<1> QED BY <1>4, <1>9, <1>10, <1>11, <1>12, ReturnSafe

-----------------------------------------------------------------------------
(* The commitment of an issue call, and the release of a lease.              *)

\* The reservation arrived and the token is committed: the reservation stands,
\* and the token was not committed before.
LEMMA CommitSafe ==
  ASSUME PInv, OwnerFacts, NEW p \in Clients, NEW r \in Requests, TakeReply(p, <<r, "reserved">>)
  PROVE  PInv'
<1>0. /\ ProtocolTypeOK /\ Calls /\ Mail /\ GrantsComing /\ MessagesJustified /\ IssueSettled
      /\ Whereabouts /\ GrantsBacked /\ Accounted /\ WithdrawalsFollow /\ OwnerSane
      /\ TypeOK /\ Answering
  BY Known
<1>1. /\ Waiting(p) /\ <<r, "reserved">> \in mailbox[p] /\ r = request[p]
      /\ mailbox' = [mailbox EXCEPT ![p] = @ \ {<<r, "reserved">>}]
      /\ stage' = [stage EXCEPT ![p] = "commit"]
      /\ Send(p, CommitMsg(r))
      /\ UNCHANGED <<vars, expired, request, caller, target, parent, taken, held, transit, lost,
                     collected, outcome>>
  BY DEF TakeReply, CommitMsg, guardVars
<1>2. /\ caller[r] = p /\ p # None /\ outcome[r] = "none" /\ Replied(r, "reserved")
      /\ r \in Tokens => stage[p] \in {"reserve", "commit"}
  <2>1. "reserved" \in Answers /\ p # None
    BY ClientsAssumption DEF Answers
  <2> QED BY <1>1, <2>1, CallOf
<1>3. r \in Tokens /\ r \in Holders
  BY <1>0, <1>2, AnswersSay, KindsDiffer DEF Requests, Holders
<1>4. stage[p] = "reserve" /\ Arrived(r, "reserved")
  BY <1>0, <1>1, <1>2, <1>3 DEF Mail, Answers
<1>5. /\ UNCHANGED <<owner, seen, status, holders, replies, issue_reservations>>
      /\ \A t, h : Pending(t, h)' <=> Pending(t, h)
      /\ \A x, a : Replied(x, a)' <=> Replied(x, a)
      /\ \A h : Grant(h)' <=> Grant(h)
  BY <1>1, SameOwner
<1>6. /\ \A h : LeaseOf(h)' = LeaseOf(h)
      /\ \A h : Withdrawn(h)' <=> Withdrawn(h)
      /\ \A t, h : InHand(t, h)' <=> InHand(t, h)
      /\ \A x, a : Arrived(x, a)' <=> Arrived(x, a)
  BY <1>1, <1>5 DEF LeaseOf, Withdrawn, InHand, Arrived
<1>7. /\ stage'[p] = "commit" /\ \A q \in Clients \ {p} : stage'[q] = stage[q]
      /\ \A q \in Clients : stage'[q] = "dead" <=> stage[q] = "dead"
      /\ \A q \in Clients : request[q] = r => q = p
  <2>1. \A q \in Clients : request[q] = r => caller[r] = q
    BY <1>0, <1>3, KindsDiffer DEF Calls, ClientCall
  <2> QED BY <1>0, <1>1, <1>2, <1>4, <2>1 DEF ProtocolTypeOK
<1>8. CommitMsg(r) \in Messages /\ CommitMsg(r) # DownMessage
  <2>1. CommitMsg(r).kind = "commit" /\ DownMessage.kind = "down"
    BY MessageFields DEF CommitMsg, DownMessage
  <2> QED BY <1>3, <2>1, MessagesSent
<1>9. /\ chan' \in [Clients -> Seq(Messages)]
      /\ \A q \in Clients : \A x : InChan(q, x)' <=> InChan(q, x) \/ (q = p /\ x = CommitMsg(r))
      /\ \A q \in Clients : \A x : Once(q, x) /\ (x # CommitMsg(r) \/ ~InChan(q, x)) => Once(q, x)'
      /\ \A q \in Clients : \A x, y : Followed(q, x, y) /\ x # CommitMsg(r) => Followed(q, x, y)'
      /\ \A q \in Clients : DownLast(q) /\ ~InChan(p, DownMessage) => DownLast(q)'
  BY <1>0, <1>1, <1>8, SendFacts DEF ProtocolTypeOK
<1>10. \A t : CommitMsg(t) = CommitMsg(r) => t = r
  <2>1. \A t : CommitMsg(t).token = t
    BY MessageFields DEF CommitMsg
  <2> QED BY <2>1
<1>11. ProtocolTypeOK'
  BY <1>0, <1>1, <1>9 DEF ProtocolTypeOK
<1>12. Calls'
  <2>1. ASSUME NEW q \in Clients PROVE ClientCall(q)'
    <3>1. /\ ClientCall(q) /\ DownLast(q)' /\ (InChan(q, DownMessage)' <=> InChan(q, DownMessage))
      BY <1>0, <1>4, <1>8, <1>9 DEF Calls, ClientCall
    <3>2. CASE q = p
      BY <1>1, <1>3, <1>4, <1>7, <3>1, <3>2 DEF ClientCall, Waiting
    <3>3. CASE q # p
      BY <1>1, <1>7, <3>1, <3>3 DEF ClientCall, Waiting
    <3> QED BY <3>2, <3>3
  <2>2. ASSUME NEW x \in Requests PROVE RequestCall(x)'
    <3>1. RequestCall(x) /\ (caller[x] # None => caller[x] \in Clients)
      BY <1>0 DEF Calls, ProtocolTypeOK
    <3> QED BY <1>1, <1>5, <1>7, <3>1 DEF RequestCall, Results
  <2>3. ASSUME NEW h \in Children PROVE ChildCall(h)'
    BY <1>0, <1>1, <1>5 DEF Calls, ChildCall
  <2> QED BY <2>1, <2>2, <2>3 DEF Calls
<1>13. Mail'
  <2>1. \A q \in Clients : mailbox'[q] \subseteq mailbox[q]
    BY <1>0, <1>1 DEF ProtocolTypeOK
  <2>2. ASSUME NEW q \in Clients, NEW t \in Tokens, request[q] = t, stage'[q] = "commit"
        PROVE  Arrived(t, "reserved") /\ <<t, "reserved">> \notin mailbox'[q]
    <3>1. CASE q = p
      <4>1. <<r, "reserved">> \notin mailbox'[p]
        BY <1>0, <1>1 DEF ProtocolTypeOK
      <4> QED BY <1>1, <1>4, <2>2, <3>1, <4>1
    <3>2. CASE q # p
      BY <1>0, <1>7, <2>1, <2>2, <3>2 DEF Mail
    <3> QED BY <3>1, <3>2
  <2> QED BY <1>0, <1>1, <1>6, <2>1, <2>2 DEF Mail
<1>14. GrantsComing'
  <2>1. \A q \in Clients, h \in Holders : \A a \in {"issued", "retained"} :
          <<h, a>> \in mailbox[q] => <<h, a>> \in mailbox'[q]
    BY <1>0, <1>1 DEF ProtocolTypeOK
  <2> QED BY <1>0, <1>1, <1>5, <2>1 DEF GrantsComing
<1>15. \A t \in Tokens : Uncommitted(t)' => Uncommitted(t) /\ t # r
  BY <1>1, <1>2, <1>7 DEF Uncommitted
<1>16. r \in issue_reservations /\ \A q \in Clients : ~InChan(q, CommitMsg(r))
  <2>1. Uncommitted(r)
    BY <1>1, <1>4 DEF Uncommitted
  <2> QED BY <1>0, <1>1, <1>2, <1>3, <1>4, <2>1 DEF IssueSettled
<1>17. MessagesJustified'
  <2>1. ASSUME NEW q \in Clients, NEW m \in Messages, Justified(q, m) PROVE Justified(q, m)'
    BY <1>1, <1>5, <1>6, <2>1 DEF Justified
  <2>2. Justified(p, CommitMsg(r))'
    BY <1>1, <1>2, <1>3, <1>5, <1>16 DEF Justified
  <2>3. ASSUME NEW q \in Clients, NEW t \in Tokens PROVE Once(q, CommitMsg(t))'
    BY <1>0, <1>9, <1>10, <1>16 DEF MessagesJustified
  <2> QED BY <1>0, <1>9, <2>1, <2>2, <2>3 DEF MessagesJustified
<1>18. IssueSettled'
  <2>1. ASSUME NEW t \in Tokens, Uncommitted(t)'
        PROVE  status'[t] = "unissued" /\ \A q \in Clients : ~InChan(q, CommitMsg(t))'
    <3>1. status[t] = "unissued" /\ t # r /\ \A q \in Clients : ~InChan(q, CommitMsg(t))
      BY <1>0, <1>15, <2>1 DEF IssueSettled
    <3> QED BY <1>5, <1>9, <1>10, <3>1
  <2>2. \A q \in Clients : stage'[q] = "reserve" => stage[q] = "reserve"
    BY <1>7
  <2> QED BY <1>0, <1>1, <1>5, <2>1, <2>2 DEF IssueSettled
<1>19. Whereabouts' /\ GrantsBacked'
  BY <1>0, <1>1, <1>5, <1>6 DEF Whereabouts, GrantsBacked
<1>20. Accounted'
  BY <1>0, <1>1, <1>5, <1>6, <1>7, <1>9 DEF Accounted
<1>21. WithdrawalsFollow'
  <2> SUFFICES ASSUME owner = "up", NEW q \in Clients, NEW t \in Tokens, NEW h \in Holders,
                      caller[h] = q, LeaseOf(h) = t, Withdrawn(h), h \in Tokens \/ h \notin seen
               PROVE  Followed(q, Asking(t, h), Withdrawal(t, h))'
    BY <1>1, <1>5, <1>6 DEF WithdrawalsFollow
  <2>1. h # r
    BY <1>2 DEF Withdrawn
  <2>2. Asking(t, h) # CommitMsg(r)
    <3>1. CASE h \in Tokens
      BY <1>10, <2>1, <3>1 DEF Asking, LeaseOf
    <3>2. CASE h \notin Tokens
      <4>1. Asking(t, h).kind = "retain" /\ CommitMsg(r).kind = "commit"
        BY <3>2, MessageFields DEF Asking, RetainMsg, CommitMsg
      <4> QED BY <4>1
    <3> QED BY <3>1, <3>2
  <2> QED BY <1>0, <1>9, <2>2 DEF WithdrawalsFollow
<1>22. OwnerSane'
  BY <1>0, <1>5 DEF OwnerSane
<1> QED BY <1>11, <1>12, <1>13, <1>14, <1>17, <1>18, <1>19, <1>20, <1>21, <1>22 DEF PInv

\* A lease that is released is in nobody's hands.
LEMMA ReleaseSafe ==
  ASSUME PInv, OwnerFacts, NEW p \in Clients, NEW k \in held[p], ReleaseCall(p, k)
  PROVE  PInv'
<1>0. /\ ProtocolTypeOK /\ Calls /\ Mail /\ GrantsComing /\ MessagesJustified /\ IssueSettled
      /\ Whereabouts /\ GrantsBacked /\ Accounted /\ WithdrawalsFollow /\ OwnerSane
  BY Known
<1>1. PICK t \in Tokens, h \in Holders : k = <<t, h>>
  BY <1>0 DEF ProtocolTypeOK, HolderIds
<1>2. /\ stage[p] = "idle" /\ held' = [held EXCEPT ![p] = @ \ {<<t, h>>}]
      /\ Send(p, ReleaseMsg(t, h))
      /\ UNCHANGED <<vars, stage, expired, request, caller, target, parent, taken, mailbox,
                     transit, lost, collected, outcome>>
  BY <1>1 DEF ReleaseCall, ReleaseMsg, clientVars, guardVars
<1>3. ReleaseMsg(t, h) \in Messages /\ ReleaseMsg(t, h) # DownMessage
  BY EndingMessages
<1>4. /\ chan' \in [Clients -> Seq(Messages)]
      /\ \A q \in Clients : \A x : InChan(q, x)' <=> InChan(q, x) \/ (q = p /\ x = ReleaseMsg(t, h))
      /\ \A q \in Clients : \A x : Once(q, x) /\ x # ReleaseMsg(t, h) => Once(q, x)'
      /\ \A q \in Clients : \A x, y : Followed(q, x, y) /\ x # ReleaseMsg(t, h) => Followed(q, x, y)'
      /\ \A q \in Clients : DownLast(q) /\ ~InChan(p, DownMessage) => DownLast(q)'
  BY <1>0, <1>2, <1>3, SendFacts DEF ProtocolTypeOK
<1>5. /\ UNCHANGED <<owner, seen, status, holders, replies, issue_reservations>>
      /\ \A u, x : Pending(u, x)' <=> Pending(u, x)
      /\ \A x, a : Replied(x, a)' <=> Replied(x, a)
      /\ \A x : Grant(x)' <=> Grant(x)
  BY <1>2, SameOwner
<1>6. /\ \A x : LeaseOf(x)' = LeaseOf(x)
      /\ \A x : Withdrawn(x)' <=> Withdrawn(x)
      /\ \A u : Uncommitted(u)' <=> Uncommitted(u)
      /\ \A q : Waiting(q)' <=> Waiting(q)
      /\ \A x, a : Arrived(x, a)' <=> Arrived(x, a)
  BY <1>2, <1>5 DEF LeaseOf, Withdrawn, Uncommitted, Waiting, Arrived
<1>7. held' \in [Clients -> SUBSET HolderIds] /\ \A q \in Clients : held'[q] \subseteq held[q]
  BY <1>0, <1>2 DEF ProtocolTypeOK
<1>8. /\ \A u, x : InHand(u, x)' => InHand(u, x)
      /\ \A u, x : InHand(u, x) /\ ~InHand(u, x)' => u = t /\ x = h
      /\ ~InHand(t, h)'
  <2>1. ASSUME NEW u, NEW x, InHand(u, x)' PROVE InHand(u, x)
    BY <1>2, <1>7, <2>1 DEF InHand
  <2>2. ASSUME NEW u, NEW x, InHand(u, x), <<u, x>> # <<t, h>> PROVE InHand(u, x)'
    <3>1. \A q \in Clients : <<u, x>> \in held[q] => <<u, x>> \in held'[q]
      BY <1>0, <1>2, <2>2 DEF ProtocolTypeOK
    <3> QED BY <1>2, <2>2, <3>1 DEF InHand
  <2>3. \A q \in Clients : <<t, h>> \notin held'[q]
    BY <1>0, <1>1, <1>2 DEF ProtocolTypeOK, Whereabouts
  <2>4. ASSUME NEW n \in transit, n[2] = <<t, h>> PROVE FALSE
    <3>1. PICK q \in Clients, j \in HolderIds : n = <<q, j>>
      BY <1>0 DEF ProtocolTypeOK
    <3>2. j = <<t, h>>
      BY <2>4, <3>1
    <3> QED BY <1>0, <1>1, <2>4, <3>1, <3>2 DEF Whereabouts
  <2>5. ~InHand(t, h)'
    BY <1>2, <2>3, <2>4 DEF InHand
  <2> QED BY <2>1, <2>2, <2>5
<1>9. t = LeaseOf(h) /\ outcome[h] = "ok"
  <2>1. InHand(t, h)
    BY <1>1 DEF InHand
  <2> QED BY <1>0, <2>1 DEF Whereabouts
<1>10. /\ \A u \in Tokens : CommitMsg(u) # ReleaseMsg(t, h)
       /\ \A u \in Tokens, x \in Holders : Asking(u, x) # ReleaseMsg(t, h)
  <2>1. \A u : CommitMsg(u).kind = "commit"
    BY MessageFields DEF CommitMsg
  <2>2. ReleaseMsg(t, h).kind = "release"
    BY MessageFields DEF ReleaseMsg
  <2> QED BY <2>1, <2>2, EndingMessages
<1>11. ProtocolTypeOK'
  BY <1>0, <1>2, <1>4, <1>7 DEF ProtocolTypeOK
<1>12. Calls'
  <2>1. ASSUME NEW q \in Clients PROVE ClientCall(q)'
    <3>1. /\ ClientCall(q) /\ DownLast(q)' /\ (InChan(q, DownMessage)' <=> InChan(q, DownMessage))
      BY <1>0, <1>2, <1>3, <1>4 DEF Calls, ClientCall
    <3> QED BY <1>2, <1>6, <3>1 DEF ClientCall
  <2> QED BY <1>0, <1>2, <1>5, <2>1 DEF Calls, RequestCall, ChildCall, Results
<1>13. Mail' /\ GrantsComing'
  BY <1>0, <1>2, <1>5, <1>6 DEF Mail, GrantsComing
<1>14. MessagesJustified'
  <2>1. ASSUME NEW q \in Clients, NEW m \in Messages, Justified(q, m) PROVE Justified(q, m)'
    BY <1>2, <1>5, <1>6, <1>8, <2>1 DEF Justified
  <2>2. Justified(p, ReleaseMsg(t, h))'
    BY <1>2, <1>6, <1>8, <1>9 DEF Justified
  <2> QED BY <1>0, <1>4, <1>10, <2>1, <2>2 DEF MessagesJustified
<1>15. IssueSettled'
  BY <1>0, <1>2, <1>4, <1>5, <1>6, <1>10 DEF IssueSettled
<1>16. Whereabouts'
  <2>1. \A u \in Tokens, x \in Holders : InHand(u, x)' =>
          /\ u = LeaseOf(x) /\ outcome[x] = "ok" /\ outcome[u] = "ok" /\ x \in holders[u]
          /\ <<u, x>> \notin collected
    BY <1>0, <1>8 DEF Whereabouts
  <2>2. \A x, y \in Clients : \A l \in held'[x] : (l \in held'[y] => x = y) /\ <<y, l>> \notin transit
    BY <1>0, <1>7 DEF Whereabouts
  <2> QED BY <1>0, <1>2, <1>5, <1>6, <2>1, <2>2 DEF Whereabouts
<1>17. GrantsBacked'
  BY <1>0, <1>2, <1>5, <1>6 DEF GrantsBacked
<1>18. Accounted'
  BY <1>0, <1>2, <1>4, <1>5, <1>6, <1>8 DEF Accounted
<1>19. WithdrawalsFollow'
  BY <1>0, <1>2, <1>4, <1>5, <1>6, <1>10 DEF WithdrawalsFollow
<1>20. OwnerSane'
  BY <1>0, <1>5 DEF OwnerSane
<1> QED BY <1>11, <1>12, <1>13, <1>14, <1>15, <1>16, <1>17, <1>18, <1>19, <1>20 DEF PInv

-----------------------------------------------------------------------------
(* The death of a client, and the start of a call.                           *)

\* A client dies with what it holds and waits for.
LEMMA DieSafe ==
  ASSUME PInv, OwnerFacts, NEW p \in Clients, Die(p)
  PROVE  PInv'
<1>0. /\ ProtocolTypeOK /\ Calls /\ Mail /\ GrantsComing /\ MessagesJustified /\ IssueSettled
      /\ Whereabouts /\ GrantsBacked /\ Accounted /\ WithdrawalsFollow /\ OwnerSane
  BY Known
<1>1. /\ stage[p] # "dead" /\ Send(p, DownMessage)
      /\ stage' = [stage EXCEPT ![p] = "dead"] /\ expired' = expired \ {p}
      /\ request' = [request EXCEPT ![p] = None]
      /\ mailbox' = [mailbox EXCEPT ![p] = {}] /\ held' = [held EXCEPT ![p] = {}]
      /\ UNCHANGED <<vars, caller, target, parent, taken, transit, lost, collected, outcome>>
  BY DEF Die, guardVars
<1>2. /\ chan' \in [Clients -> Seq(Messages)]
      /\ \A q \in Clients : \A x : InChan(q, x)' <=> InChan(q, x) \/ (q = p /\ x = DownMessage)
      /\ \A q \in Clients : \A x : Once(q, x) /\ x # DownMessage => Once(q, x)'
      /\ \A q \in Clients : \A x, y : Followed(q, x, y) /\ x # DownMessage => Followed(q, x, y)'
      /\ \A q \in Clients : DownLast(q) /\ ~InChan(p, DownMessage) => DownLast(q)'
  BY <1>0, <1>1, MessagesSent, SendFacts DEF ProtocolTypeOK
<1>3. /\ UNCHANGED <<owner, seen, status, holders, replies, issue_reservations>>
      /\ \A u, x : Pending(u, x)' <=> Pending(u, x)
      /\ \A x, a : Replied(x, a)' <=> Replied(x, a)
      /\ \A x : Grant(x)' <=> Grant(x)
  BY <1>1, SameOwner
<1>4. /\ \A x : LeaseOf(x)' = LeaseOf(x)
      /\ \A x : Withdrawn(x)' <=> Withdrawn(x)
      /\ \A x, a : Arrived(x, a)' <=> Arrived(x, a)
  BY <1>1, <1>3 DEF LeaseOf, Withdrawn, Arrived
<1>5. /\ stage'[p] = "dead" /\ request'[p] = None /\ mailbox'[p] = {} /\ held'[p] = {}
      /\ \A q \in Clients \ {p} : /\ stage'[q] = stage[q] /\ request'[q] = request[q]
                                  /\ mailbox'[q] = mailbox[q] /\ held'[q] = held[q]
      /\ held' \in [Clients -> SUBSET HolderIds]
      /\ \A q \in Clients : held'[q] \subseteq held[q]
  BY <1>0, <1>1 DEF ProtocolTypeOK
<1>6. \A u, x : InHand(u, x)' => InHand(u, x)
  BY <1>1, <1>5 DEF InHand
<1>7. /\ \A u \in Tokens : CommitMsg(u) # DownMessage
      /\ \A u \in Tokens, x \in Holders : Asking(u, x) # DownMessage
  <2>1. \A u : CommitMsg(u).kind = "commit"
    BY MessageFields DEF CommitMsg
  <2>2. \A u, x : RetainMsg(u, x).kind = "retain"
    BY MessageFields DEF RetainMsg
  <2>3. DownMessage.kind = "down"
    BY MessageFields DEF DownMessage
  <2> QED BY <2>1, <2>2, <2>3 DEF Asking
<1>8. ProtocolTypeOK'
  BY <1>0, <1>1, <1>2, <1>5 DEF ProtocolTypeOK
<1>9. Calls'
  <2>1. ASSUME NEW q \in Clients PROVE ClientCall(q)'
    <3>1. ClientCall(q) /\ DownLast(q)'
      BY <1>0, <1>1, <1>2 DEF Calls, ClientCall
    <3>2. CASE q = p
      BY <1>2, <1>5, <3>1, <3>2 DEF ClientCall, Waiting
    <3>3. CASE q # p
      BY <1>1, <1>2, <1>5, <3>1, <3>3 DEF ClientCall, Waiting
    <3> QED BY <3>2, <3>3
  <2>2. ASSUME NEW x \in Requests PROVE RequestCall(x)'
    <3>1. RequestCall(x) /\ (caller[x] # None => caller[x] \in Clients)
      BY <1>0 DEF Calls, ProtocolTypeOK
    <3> QED BY <1>1, <1>3, <1>5, <3>1 DEF RequestCall, Results
  <2> QED BY <1>0, <1>1, <1>3, <2>1, <2>2 DEF Calls, ChildCall
<1>10. Mail'
  BY <1>0, <1>1, <1>4, <1>5 DEF Mail
<1>11. GrantsComing'
  <2>1. \A q \in Clients, h \in Holders : request'[q] = h => q # p
    BY <1>5, KindsDiffer
  <2> QED BY <1>0, <1>1, <1>3, <1>5, <2>1 DEF GrantsComing
<1>12. MessagesJustified'
  <2>1. ASSUME NEW q \in Clients, NEW m \in Messages, Justified(q, m) PROVE Justified(q, m)'
    BY <1>1, <1>3, <1>4, <1>6, <2>1 DEF Justified
  <2>2. Justified(p, DownMessage)'
    BY DEF Justified
  <2> QED BY <1>0, <1>2, <1>7, <2>1, <2>2 DEF MessagesJustified
<1>13. IssueSettled'
  <2>1. \A t \in Tokens : Uncommitted(t)' => Uncommitted(t)
    BY <1>1, <1>5 DEF Uncommitted
  <2>2. \A t \in Tokens, q \in Clients : request'[q] = t /\ stage'[q] = "reserve" =>
          request[q] = t /\ stage[q] = "reserve"
    BY <1>5
  <2> QED BY <1>0, <1>2, <1>3, <1>7, <2>1, <2>2 DEF IssueSettled
<1>14. Whereabouts'
  <2>1. \A u \in Tokens, x \in Holders : InHand(u, x)' =>
          /\ u = LeaseOf(x) /\ outcome[x] = "ok" /\ outcome[u] = "ok" /\ x \in holders[u]
          /\ <<u, x>> \notin collected
    BY <1>0, <1>6 DEF Whereabouts
  <2>2. \A x, y \in Clients : \A l \in held'[x] : (l \in held'[y] => x = y) /\ <<y, l>> \notin transit
    BY <1>0, <1>5 DEF Whereabouts
  <2> QED BY <1>0, <1>1, <1>3, <1>4, <2>1, <2>2 DEF Whereabouts
<1>15. GrantsBacked'
  <2>1. \A q \in Clients, h \in Holders : request'[q] = h => request[q] = h
    BY <1>5, KindsDiffer
  <2> QED BY <1>0, <1>1, <1>3, <1>4, <2>1 DEF GrantsBacked
<1>16. Accounted'
  BY <1>0, <1>1, <1>2, <1>3, <1>4, <1>5 DEF Accounted
<1>17. WithdrawalsFollow'
  BY <1>0, <1>1, <1>2, <1>3, <1>4, <1>7 DEF WithdrawalsFollow
<1>18. OwnerSane'
  BY <1>0, <1>3 DEF OwnerSane
<1> QED BY <1>8, <1>9, <1>10, <1>11, <1>12, <1>13, <1>14, <1>15, <1>16, <1>17, <1>18 DEF PInv

\* Client p opens the call r, for lease l if it is a child's.
Opens(p, r, l, waits, m, refused) ==
  /\ StartCall(p, r, waits, m, refused)
  /\ \/ /\ r \in Tokens /\ waits = "reserve" /\ m = ReserveMsg(r) /\ refused = "caller_owned"
        /\ UNCHANGED <<target, parent>>
     \/ /\ r \in Children /\ waits = "retain" /\ m = RetainMsg(l, r) /\ refused = "error"
        /\ l \in Tokens /\ outcome[l] = "ok"
        /\ target' = [target EXCEPT ![r] = l]
        /\ \E x \in Holders : parent' = [parent EXCEPT ![r] = x]
     \/ /\ r \in Callers /\ waits = "drain" /\ m = DrainMsg(r) /\ refused = "error"
        /\ UNCHANGED <<target, parent>>

\* Nobody knows of a call before it starts.
LEMMA StartSafe ==
  ASSUME PInv, OwnerFacts, NEW p \in Clients, NEW r \in Requests, NEW l, NEW waits, NEW m,
         NEW refused, Opens(p, r, l, waits, m, refused)
  PROVE  PInv'
<1>0. /\ ProtocolTypeOK /\ Calls /\ Mail /\ GrantsComing /\ MessagesJustified /\ IssueSettled
      /\ Whereabouts /\ GrantsBacked /\ Accounted /\ WithdrawalsFollow /\ OwnerSane
      /\ TypeOK /\ Answering
      /\ \A t \in Tokens, h \in Holders : h \in holders[t] \/ Pending(t, h) => caller[h] # None
  BY Known
<1>1. /\ stage[p] = "idle" /\ caller[r] = None /\ caller' = [caller EXCEPT ![r] = p]
      /\ \/ /\ owner = "up" /\ stage' = [stage EXCEPT ![p] = waits]
            /\ request' = [request EXCEPT ![p] = r] /\ Send(p, m) /\ UNCHANGED outcome
         \/ /\ owner # "up" /\ outcome' = [outcome EXCEPT ![r] = refused]
            /\ UNCHANGED <<stage, request, chan>>
      /\ UNCHANGED <<vars, expired, taken, mailbox, held, transit, lost, collected>>
  BY DEF Opens, StartCall, leaseVars, guardVars
<1>2. /\ p # None /\ request[p] = None /\ r # None /\ ~InChan(p, DownMessage)
      /\ outcome[r] = "none" /\ r \notin seen
      /\ \A q \in Clients : request[q] # r /\ \A a : <<r, a>> \notin mailbox[q]
  <2>1. ClientCall(p)
    BY <1>0 DEF Calls
  <2>2. p # None /\ request[p] = None /\ r # None /\ ~InChan(p, DownMessage)
    BY <1>1, <2>1, ClientsAssumption, RefsAssumption DEF ClientCall, Waiting
  <2> QED BY <1>1, <2>2, Known
<1>3. r \in Holders => ~Grant(r) /\ \A t \in Tokens : ~InHand(t, r) /\ r \notin holders[t] /\ ~Pending(t, r)
  BY <1>0, <1>1, Known
<1>4. /\ waits \in {"reserve", "retain", "drain"} /\ refused \in {"caller_owned", "error"}
      /\ refused \in Results(r)
      /\ waits = "reserve" <=> r \in Tokens
      /\ waits = "retain" <=> r \in Children
      /\ waits = "drain" <=> r \in Callers
      /\ m \in Messages /\ m # DownMessage
      /\ \A t \in Tokens : m # CommitMsg(t)
      /\ \A t \in Tokens, h \in Holders : h # r => m # Asking(t, h)
  <2>1. /\ \A t : /\ ReserveMsg(t).kind = "reserve" /\ CommitMsg(t).kind = "commit"
                  /\ DrainMsg(t).kind = "drain"
        /\ \A t, h : RetainMsg(t, h).kind = "retain" /\ RetainMsg(t, h).holder = h
        /\ DownMessage.kind = "down"
    BY MessageFields DEF ReserveMsg, CommitMsg, DrainMsg, RetainMsg, DownMessage
  <2>2. CASE r \in Tokens
    BY <2>1, <2>2, KindsDiffer, MessagesSent DEF Opens, Results, Asking
  <2>3. CASE r \in Children
    BY <2>1, <2>3, KindsDiffer, MessagesSent DEF Opens, Results, Asking
  <2>4. CASE r \in Callers
    BY <2>1, <2>4, KindsDiffer, MessagesSent DEF Opens, Results, Asking
  <2> QED BY <2>2, <2>3, <2>4 DEF Opens
<1>5. /\ UNCHANGED <<owner, seen, status, holders, replies, issue_reservations>>
      /\ \A u, x : Pending(u, x)' <=> Pending(u, x)
      /\ \A x, a : Replied(x, a)' <=> Replied(x, a)
      /\ \A x : Grant(x)' <=> Grant(x)
      /\ \A u, x : InHand(u, x)' <=> InHand(u, x)
      /\ \A x, a : Arrived(x, a)' <=> Arrived(x, a)
  <2>1. UNCHANGED <<held, transit, taken, vars>>
    BY <1>1
  <2>2. /\ UNCHANGED <<owner, seen, status, holders, replies, issue_reservations>>
        /\ \A u, x : Pending(u, x)' <=> Pending(u, x)
        /\ \A x, a : Replied(x, a)' <=> Replied(x, a)
        /\ \A x : Grant(x)' <=> Grant(x)
    BY <2>1, SameOwner
  <2> QED BY <2>1, <2>2 DEF InHand, Arrived
<1>6. /\ caller'[r] = p /\ \A x \in Requests \ {r} : caller'[x] = caller[x]
      /\ \A x \in Requests \ {r} : outcome'[x] = outcome[x]
      /\ owner = "up" => outcome' = outcome
      /\ owner # "up" => outcome'[r] = refused
      /\ \A q \in Clients \ {p} : stage'[q] = stage[q] /\ request'[q] = request[q]
      /\ owner = "up" => stage'[p] = waits /\ request'[p] = r
      /\ owner # "up" => stage'[p] = "idle" /\ request'[p] = None
  BY <1>0, <1>1, <1>2 DEF ProtocolTypeOK
<1>7. /\ chan' \in [Clients -> Seq(Messages)]
      /\ \A q \in Clients : \A x : InChan(q, x) => InChan(q, x)'
      /\ \A q \in Clients : \A x : InChan(q, x)' => InChan(q, x) \/ (q = p /\ x = m)
      /\ \A q \in Clients : \A x : Once(q, x) /\ x # m => Once(q, x)'
      /\ \A q \in Clients : \A x, y : Followed(q, x, y) /\ x # m => Followed(q, x, y)'
      /\ \A q \in Clients : DownLast(q) => DownLast(q)'
  <2>0. chan \in [Clients -> Seq(Messages)]
    BY <1>0 DEF ProtocolTypeOK
  <2>1. CASE UNCHANGED chan
    BY <2>0, <2>1, SameChannels
  <2>2. CASE Send(p, m)
    BY <1>2, <1>4, <2>0, <2>2, SendFacts
  <2> QED BY <1>1, <2>1, <2>2
<1>8. /\ \A h \in Children \ {r} : target'[h] = target[h] /\ parent'[h] = parent[h]
      /\ \A h \in Holders \ {r} : LeaseOf(h)' = LeaseOf(h)
      /\ r \in Children => /\ target'[r] = l /\ l \in Tokens /\ outcome[l] = "ok"
                           /\ parent'[r] \in Holders /\ m = RetainMsg(l, r)
      /\ target' \in [Children -> Tokens \cup {None}]
      /\ parent' \in [Children -> Holders \cup {None}]
  <2>0. target \in [Children -> Tokens \cup {None}] /\ parent \in [Children -> Holders \cup {None}]
    BY <1>0 DEF ProtocolTypeOK
  <2>1. CASE r \in Children
    <3>1. /\ m = RetainMsg(l, r) /\ l \in Tokens /\ outcome[l] = "ok"
          /\ target' = [target EXCEPT ![r] = l]
      BY <2>1, KindsDiffer DEF Opens
    <3>2. PICK x \in Holders : parent' = [parent EXCEPT ![r] = x]
      BY <2>1, KindsDiffer DEF Opens
    <3> QED BY <2>0, <2>1, <3>1, <3>2 DEF LeaseOf, Holders
  <2>2. CASE r \notin Children
    BY <2>0, <2>2 DEF Opens, LeaseOf
  <2> QED BY <2>1, <2>2
<1>9. /\ \A x \in Requests : \A v : outcome[x] = v /\ v # "none" => outcome'[x] = v /\ x # r
      /\ \A x \in Requests : \A v : outcome'[x] = v /\ v \notin {"none", "caller_owned", "error"} =>
           outcome[x] = v
      /\ \A q \in Clients : stage'[q] = "dead" <=> stage[q] = "dead"
      /\ \A q \in Clients : stage'[q] = "commit" => stage[q] = "commit" /\ q # p
  BY <1>1, <1>2, <1>4, <1>6
<1>10. ProtocolTypeOK'
  <2>1. caller' \in [Requests -> Clients \cup {None}]
    BY <1>0, <1>1 DEF ProtocolTypeOK
  <2>2. stage' \in [Clients -> {"idle", "reserve", "commit", "retain", "drain", "dead"}]
    BY <1>0, <1>1, <1>4 DEF ProtocolTypeOK
  <2>3. request' \in [Clients -> Requests \cup {None}]
    BY <1>0, <1>1 DEF ProtocolTypeOK
  <2>4. outcome' \in [Requests -> {"none", "ok", "error", "caller_owned", "transferred", "drained"}]
    BY <1>0, <1>1, <1>4 DEF ProtocolTypeOK
  <2> QED BY <1>0, <1>1, <1>7, <1>8, <2>1, <2>2, <2>3, <2>4 DEF ProtocolTypeOK
<1>11. Calls'
  <2>1. ASSUME NEW q \in Clients PROVE ClientCall(q)'
    <3>1. /\ ClientCall(q) /\ DownLast(q)' /\ (InChan(q, DownMessage)' <=> InChan(q, DownMessage))
      BY <1>0, <1>4, <1>7 DEF Calls, ClientCall
    <3>2. CASE q = p /\ owner = "up"
      BY <1>2, <1>4, <1>6, <3>1, <3>2 DEF ClientCall, Waiting
    <3>3. CASE q = p /\ owner # "up"
      BY <1>2, <1>6, <3>1, <3>3 DEF ClientCall, Waiting
    <3>4. CASE q # p
      <4>1. request[q] # None => request[q] \in Requests \ {r}
        BY <1>0, <1>2 DEF ProtocolTypeOK
      <4>2. request[q] # None => caller'[request[q]] = q /\ outcome'[request[q]] = "none"
        BY <1>6, <3>1, <4>1 DEF ClientCall
      <4> QED BY <1>6, <3>1, <3>4, <4>2 DEF ClientCall, Waiting
    <3> QED BY <3>2, <3>3, <3>4
  <2>2. ASSUME NEW x \in Requests PROVE RequestCall(x)'
    <3>1. RequestCall(x) /\ (caller[x] # None => caller[x] \in Clients) /\ Results(x)' = Results(x)
      BY <1>0 DEF Calls, ProtocolTypeOK, Results
    <3>2. CASE x = r
      <4>1. taken'[r] <= Len(replies'[r])
        BY <1>1, <1>5, <3>1, <3>2 DEF RequestCall
      <4>2. outcome'[r] = "none" \/ (outcome'[r] = refused /\ owner # "up")
        BY <1>2, <1>6
      <4>3. outcome'[r] \in Results(r) /\ outcome'[r] \notin {"ok", "drained"}
        BY <1>2, <1>4, <3>1, <3>2, <4>2 DEF RequestCall
      <4>4. outcome'[r] = "none" => request'[p] = r
        BY <1>4, <1>6
      <4> QED BY <1>2, <1>6, <3>1, <3>2, <4>1, <4>3, <4>4 DEF RequestCall
    <3>3. CASE x # r
      <4>1. caller'[x] = caller[x] /\ outcome'[x] = outcome[x]
        BY <1>6, <3>3
      <4>2. caller[x] # None /\ outcome[x] = "none" =>
              request'[caller[x]] = x \/ stage'[caller[x]] = "dead"
        <5>1. request[caller[x]] = x => caller[x] # p
          BY <1>2, RefsAssumption
        <5>2. CASE caller[x] = p
          BY <1>1, <3>1, <5>1, <5>2 DEF RequestCall
        <5>3. CASE caller[x] # p
          BY <1>6, <3>1, <5>3 DEF RequestCall
        <5> QED BY <5>2, <5>3
      <4> QED BY <1>1, <1>5, <3>1, <4>1, <4>2 DEF RequestCall
    <3> QED BY <3>2, <3>3
  <2>3. ASSUME NEW h \in Children PROVE ChildCall(h)'
    <3>1. ChildCall(h) /\ h \in Requests /\ h \in Holders /\ Tokens \subseteq Requests
      BY <1>0, KindsDiffer DEF Calls
    <3>2. CASE h = r
      BY <1>2, <1>3, <1>5, <1>6, <1>8, <1>9, <3>1, <3>2, KindsDiffer DEF ChildCall
    <3>3. CASE h # r
      <4>1. /\ caller'[h] = caller[h] /\ target'[h] = target[h] /\ parent'[h] = parent[h]
            /\ target[h] \in Tokens \cup {None}
        BY <1>0, <1>6, <1>8, <3>1, <3>3 DEF ProtocolTypeOK
      <4> QED BY <1>5, <1>9, <3>1, <4>1 DEF ChildCall
    <3> QED BY <3>2, <3>3
  <2> QED BY <2>1, <2>2, <2>3 DEF Calls
<1>12. Mail'
  <2>1. ASSUME NEW q \in Clients, NEW x \in Requests, NEW a \in Answers, <<x, a>> \in mailbox'[q]
        PROVE  caller'[x] = q /\ Arrived(x, a)
    <3>1. <<x, a>> \in mailbox[q] /\ x # r
      BY <1>1, <1>2, <2>1
    <3> QED BY <1>0, <1>6, <3>1 DEF Mail
  <2>2. \A q \in Clients : stage'[q] = "commit" => q # p /\ stage[q] = "commit"
    BY <1>9
  <2> QED BY <1>0, <1>1, <1>5, <1>6, <2>1, <2>2 DEF Mail
<1>13. \A q \in Clients, h \in Holders : request'[q] = h /\ Grant(h) => q # p /\ h # r /\ request[q] = h
  BY <1>2, <1>3, <1>6, KindsDiffer
<1>14. GrantsComing'
  BY <1>0, <1>1, <1>5, <1>13 DEF GrantsComing
<1>15. MessagesJustified'
  <2>1. ASSUME NEW q \in Clients, NEW x \in Messages, Justified(q, x) PROVE Justified(q, x)'
    <3>1. /\ \A t \in Requests : caller[t] # None => caller'[t] = caller[t]
          /\ \A t \in Requests : caller[t] # None => caller'[t] # None
          /\ q # None
      BY <1>1, <1>6, ClientsAssumption
    <3>2. \A t \in Tokens, h \in Children : target[h] = t => target'[h] = t
      <4>1. ASSUME NEW t \in Tokens, NEW h \in Children, target[h] = t PROVE h # r
        BY <1>0, <1>1, <4>1, KindsDiffer DEF Calls, ChildCall
      <4> QED BY <1>8, <4>1
    <3>3. \A h \in Holders : outcome[h] = "ok" => LeaseOf(h)' = LeaseOf(h)
      BY <1>8, <1>9, KindsDiffer
    <3>4. \A y \in Requests : \A v \in {"ok", "error", "caller_owned", "transferred"} :
            outcome[y] = v => outcome'[y] = v
      BY <1>9
    <3> QED BY <1>5, <2>1, <3>1, <3>2, <3>3, <3>4, KindsDiffer DEF Justified
  <2>2. Justified(p, m)'
    <3>1. CASE r \in Tokens
      <4>1. m = ReserveMsg(r)
        BY <3>1, KindsDiffer DEF Opens
      <4> QED BY <1>6, <3>1, <4>1 DEF Justified
    <3>2. CASE r \in Children
      BY <1>6, <1>8, <3>2 DEF Justified
    <3>3. CASE r \in Callers
      <4>1. m = DrainMsg(r)
        BY <3>3, KindsDiffer DEF Opens
      <4> QED BY <1>2, <1>6, <3>3, <4>1 DEF Justified
    <3> QED BY <3>1, <3>2, <3>3 DEF Opens
  <2> QED BY <1>0, <1>4, <1>7, <2>1, <2>2 DEF MessagesJustified
<1>16. IssueSettled'
  <2>1. ASSUME NEW t \in Tokens, Uncommitted(t)' PROVE Uncommitted(t)
    <3>1. CASE t = r
      BY <1>1, <3>1 DEF Uncommitted
    <3>2. CASE t # r
      <4>1. caller'[t] = caller[t] /\ outcome'[t] = outcome[t]
        BY <1>6, <3>2, KindsDiffer
      <4>2. \A q \in Clients : request'[q] = t => q # p
        BY <1>6, <3>2, KindsDiffer
      <4> QED BY <1>6, <2>1, <4>1, <4>2 DEF Uncommitted
    <3> QED BY <3>1, <3>2
  <2>2. ASSUME NEW t \in Tokens, NEW q \in Clients, request'[q] = t, stage'[q] = "reserve",
               Replied(t, "reserved")
        PROVE  t \in issue_reservations
    <3>1. t # r
      BY <1>0, <1>2, <2>2, AnswersSay
    <3>2. q # p
      BY <1>6, <2>2, <3>1, KindsDiffer
    <3> QED BY <1>0, <1>6, <2>2, <3>2 DEF IssueSettled
  <2> QED BY <1>0, <1>4, <1>5, <1>7, <2>1, <2>2 DEF IssueSettled
<1>17. Whereabouts'
  <2>1. ASSUME NEW t \in Tokens, NEW h \in Holders, InHand(t, h)
        PROVE  /\ t = LeaseOf(h)' /\ outcome'[h] = "ok" /\ outcome'[t] = "ok" /\ h \in holders[t]
               /\ <<t, h>> \notin collected
    <3>1. /\ t = LeaseOf(h) /\ outcome[h] = "ok" /\ outcome[t] = "ok" /\ h \in holders[t]
          /\ <<t, h>> \notin collected
      BY <1>0, <2>1 DEF Whereabouts
    <3> QED BY <1>8, <1>9, <3>1, KindsDiffer
  <2> QED BY <1>0, <1>1, <1>5, <2>1 DEF Whereabouts
<1>18. GrantsBacked'
  <2>1. ASSUME NEW q \in Clients, NEW h \in Holders, request'[q] = h, Grant(h)
        PROVE  h \in holders[LeaseOf(h)']
    BY <1>0, <1>8, <1>13, <2>1 DEF GrantsBacked
  <2>2. ASSUME NEW t \in Tokens, NEW h \in Holders, <<t, h>> \in collected
        PROVE  /\ t = LeaseOf(h)' /\ Grant(h) /\ caller'[h] # None
               /\ \A q \in Clients : request'[q] # h
               /\ <<t, h>> \notin lost => h \notin holders[t]
    <3>1. /\ t = LeaseOf(h) /\ Grant(h) /\ caller[h] # None
          /\ \A q \in Clients : request[q] # h
          /\ <<t, h>> \notin lost => h \notin holders[t]
      BY <1>0, <2>2 DEF GrantsBacked
    <3>2. h # r /\ h \in Requests
      BY <1>1, <3>1, KindsDiffer
    <3>3. LeaseOf(h)' = LeaseOf(h) /\ caller'[h] = caller[h]
      BY <1>6, <1>8, <3>2
    <3>4. \A q \in Clients : request'[q] # h
      BY <1>13, <2>2, <3>1
    <3> QED BY <3>1, <3>3, <3>4
  <2>3. lost' \subseteq collected'
    BY <1>0, <1>1 DEF GrantsBacked
  <2> QED BY <1>1, <1>5, <2>1, <2>2, <2>3 DEF GrantsBacked
<1>19. Accounted'
  <2> SUFFICES ASSUME NEW t \in Tokens, NEW h \in Holders
      PROVE  /\ h \in holders[t] => outcome'[h] = "ok" \/ Pending(t, h)
             /\ owner = "up" /\ h \in holders[t] /\ outcome'[h] = "ok" =>
                  \/ InHand(t, h)
                  \/ \E q \in Clients : InChan(q, ReleaseMsg(t, h))' \/ stage'[q] = "dead"
             /\ \A q \in Clients : caller'[h] = q =>
                  /\ Pending(t, h) /\ outcome'[h] = "ok" => InChan(q, Confirmation(t, h))'
                  /\ owner = "up" /\ h \in holders[t] /\ Withdrawn(h)' => InChan(q, Withdrawal(t, h))'
    BY <1>5 DEF Accounted
  <2>1. CASE h = r
    BY <1>3, <2>1
  <2>2. CASE h # r
    <3>1. outcome'[h] = outcome[h] /\ caller'[h] = caller[h] /\ (Withdrawn(h)' <=> Withdrawn(h))
      BY <1>6, <2>2, KindsDiffer DEF Withdrawn
    <3>2. /\ h \in holders[t] => outcome[h] = "ok" \/ Pending(t, h)
          /\ owner = "up" /\ h \in holders[t] /\ outcome[h] = "ok" =>
               \/ InHand(t, h)
               \/ \E q \in Clients : InChan(q, ReleaseMsg(t, h)) \/ stage[q] = "dead"
          /\ \A q \in Clients : caller[h] = q =>
               /\ Pending(t, h) /\ outcome[h] = "ok" => InChan(q, Confirmation(t, h))
               /\ owner = "up" /\ h \in holders[t] /\ Withdrawn(h) => InChan(q, Withdrawal(t, h))
      BY <1>0 DEF Accounted
    <3> QED BY <1>7, <1>9, <3>1, <3>2
  <2> QED BY <2>1, <2>2
<1>20. WithdrawalsFollow'
  <2> SUFFICES ASSUME owner = "up", NEW q \in Clients, NEW t \in Tokens, NEW h \in Holders,
                      caller'[h] = q, LeaseOf(h)' = t, Withdrawn(h)', h \in Tokens \/ h \notin seen
               PROVE  Followed(q, Asking(t, h), Withdrawal(t, h))'
    BY <1>5 DEF WithdrawalsFollow
  <2>1. Withdrawn(h) /\ h # r
    BY <1>2, <1>6 DEF Withdrawn
  <2>2. caller[h] = q /\ LeaseOf(h) = t
    BY <1>6, <1>8, <2>1, KindsDiffer
  <2>3. Followed(q, Asking(t, h), Withdrawal(t, h))
    BY <1>0, <2>1, <2>2 DEF WithdrawalsFollow
  <2> QED BY <1>4, <1>7, <2>1, <2>3
<1>21. OwnerSane'
  BY <1>0, <1>5 DEF OwnerSane
<1> QED BY <1>10, <1>11, <1>12, <1>14, <1>15, <1>16, <1>17, <1>18, <1>19, <1>20, <1>21 DEF PInv

-----------------------------------------------------------------------------
(* Every step keeps what clients and owner know.                             *)

\* The steps of clients.
LEMMA ClientStepSafe ==
  ASSUME PInv, OwnerFacts, ClientStep
  PROVE  PInv'
<1>0. /\ ProtocolTypeOK /\ Calls
      /\ Tokens \subseteq Requests /\ Children \subseteq Requests /\ Callers \subseteq Requests
  BY Known, KindsDiffer
<1>1. ASSUME NEW p \in Clients, NEW t \in Tokens, IssueCall(p, t) PROVE PInv'
  <2>1. Opens(p, t, t, "reserve", ReserveMsg(t), "caller_owned")
    BY <1>1 DEF IssueCall, Opens, ReserveMsg
  <2> QED BY <1>0, <2>1, StartSafe
<1>2. ASSUME NEW p \in Clients, NEW lease \in held[p], NEW h \in Children, RetainCall(p, lease, h)
      PROVE  PInv'
  <2>1. PICK t \in Tokens, k \in Holders : lease = <<t, k>>
    BY <1>0 DEF ProtocolTypeOK, HolderIds
  <2>2. outcome[t] = "ok"
    <3>1. InHand(t, k)
      BY <2>1 DEF InHand
    <3> QED BY <3>1, Known
  <2>3. Opens(p, h, t, "retain", RetainMsg(t, h), "error")
    BY <1>2, <2>1, <2>2 DEF RetainCall, Opens, RetainMsg
  <2> QED BY <1>0, <2>3, StartSafe
<1>3. ASSUME NEW p \in Clients, NEW c \in Callers, DrainCall(p, c) PROVE PInv'
  <2>1. Opens(p, c, c, "drain", DrainMsg(c), "error")
    BY <1>3 DEF DrainCall, Opens, DrainMsg
  <2> QED BY <1>0, <2>1, StartSafe
<1>4. ASSUME NEW p \in Clients, NEW m \in mailbox[p], TakeReply(p, m) PROVE PInv'
  <2>1. PICK r \in Requests, a \in Answers : m = <<r, a>>
    BY <1>0 DEF ProtocolTypeOK
  <2>2. TakeReply(p, <<r, a>>)
    BY <1>4, <2>1
  <2>3. CASE a = "reserved"
    BY <2>2, <2>3, CommitSafe
  <2>4. CASE a # "reserved" /\ r \in Tokens
    BY <2>2, <2>4, IssueEnds
  <2>5. CASE r \in Children
    BY <2>2, <2>5, RetainEnds
  <2>6. CASE r \in Callers
    BY <2>2, <2>6, DrainEnds
  <2> QED BY <2>3, <2>4, <2>5, <2>6 DEF Requests
<1>5. ASSUME NEW p \in Clients, AwaitStep(p) PROVE PInv'
  BY <1>4, <1>5, DownEnds, TimeOutEnds DEF AwaitStep
<1> QED BY <1>1, <1>2, <1>3, <1>5, ReleaseSafe, ExpireSafe, DieSafe, ForwardSafe,
        ForwardArrivesSafe, ReplyArrivesSafe, CollectSafe DEF ClientStep

\* Nothing happens.
LEMMA StutterSafe ==
  ASSUME PInv, UNCHANGED pvars
  PROVE  PInv'
<1>1. /\ UNCHANGED <<vars, stage, expired, request, caller, target, parent, chan, taken, mailbox,
                     held, transit, lost, collected, outcome>>
  BY DEF pvars, clientVars, leaseVars, guardVars
<1>2. /\ UNCHANGED <<owner, seen, status, holders, replies, issue_reservations>>
      /\ \A t, h : Pending(t, h)' <=> Pending(t, h)
      /\ \A x, a : Replied(x, a)' <=> Replied(x, a)
      /\ \A h : Grant(h)' <=> Grant(h)
  BY <1>1, SameOwner
<1>3. /\ \A q, x : InChan(q, x)' <=> InChan(q, x)
      /\ \A q, x : Once(q, x)' <=> Once(q, x)
      /\ \A q, x, y : Followed(q, x, y)' <=> Followed(q, x, y)
      /\ \A q : DownLast(q)' <=> DownLast(q)
  BY <1>1, SameChannels
<1>4. /\ \A h : LeaseOf(h)' = LeaseOf(h)
      /\ \A h : Withdrawn(h)' <=> Withdrawn(h)
      /\ \A t : Uncommitted(t)' <=> Uncommitted(t)
      /\ \A p : Waiting(p)' <=> Waiting(p)
      /\ \A t, h : InHand(t, h)' <=> InHand(t, h)
      /\ \A x, a : Arrived(x, a)' <=> Arrived(x, a)
  BY <1>1, <1>2 DEF LeaseOf, Withdrawn, Uncommitted, Waiting, InHand, Arrived
<1>5. ProtocolTypeOK'
  BY <1>1 DEF PInv, ProtocolTypeOK
<1>6. Calls'
  BY <1>1, <1>2, <1>3, <1>4 DEF PInv, Calls, ClientCall, RequestCall, ChildCall, Results
<1>7. Mail' /\ GrantsComing'
  BY <1>1, <1>2, <1>4 DEF PInv, Mail, GrantsComing
<1>8. MessagesJustified'
  <2>1. ASSUME NEW p \in Clients, NEW m \in Messages, Justified(p, m) PROVE Justified(p, m)'
    BY <1>1, <1>2, <1>4, <2>1 DEF Justified
  <2> QED BY <1>3, <2>1 DEF PInv, MessagesJustified
<1>9. IssueSettled'
  BY <1>1, <1>2, <1>3, <1>4 DEF PInv, IssueSettled
<1>10. Whereabouts' /\ GrantsBacked'
  BY <1>1, <1>2, <1>4 DEF PInv, Whereabouts, GrantsBacked
<1>11. Accounted'
  BY <1>1, <1>2, <1>3, <1>4 DEF PInv, Accounted
<1>12. WithdrawalsFollow' /\ OwnerSane'
  BY <1>1, <1>2, <1>3, <1>4 DEF PInv, WithdrawalsFollow, OwnerSane
<1> QED BY <1>5, <1>6, <1>7, <1>8, <1>9, <1>10, <1>11, <1>12 DEF PInv

\* Every step of clients, channels, guards and owner.
LEMMA ProtocolStep == PInv /\ OwnerFacts /\ [ProtocolNext]_pvars => PInv' /\ OwnerFacts'
<1> SUFFICES ASSUME PInv, OwnerFacts, [ProtocolNext]_pvars PROVE PInv' /\ OwnerFacts'
  OBVIOUS
<1>0. OwnerFacts' /\ AnswersGrow
  BY OwnerFactsKept
<1>1. CASE UNCHANGED pvars
  BY <1>0, <1>1, StutterSafe
<1>2. CASE ClientStep
  BY <1>0, <1>2, ClientStepSafe
<1>3. ASSUME NEW p \in Clients, Receive(p) \/ ReceiveDown(p) PROVE PInv'
  BY <1>0, <1>3, ReceiveHandled, DeathHandled, HonestStep
<1>4. ASSUME NEW id \in lost, ReceiveAbandoned(id[1], id[2]) PROVE PInv'
  <2>1. id[1] \in Tokens /\ id[2] \in Holders
    BY DEF PInv, ProtocolTypeOK, HolderIds
  <2> QED BY <1>0, <1>4, <2>1, AbandonHandled, HonestStep
<1>5. CASE RunRelease \/ FinishResult \/ FinishDown \/ Background
  BY <1>0, <1>5, BackgroundHandled, HonestStep
<1> QED BY <1>0, <1>1, <1>2, <1>3, <1>4, <1>5 DEF ProtocolNext

\* No call was made.
LEMMA ProtocolStart == ProtocolInit => PInv /\ OwnerFacts
<1> SUFFICES ASSUME ProtocolInit PROVE PInv /\ OwnerFacts
  OBVIOUS
<1>0. OwnerFacts /\ TypeOK
  <2>1. Init
    BY DEF ProtocolInit
  <2> QED BY <2>1, AnswerStart, GuardedStart, TombstoneStart, SettleStart
          DEF OwnerFacts, AInv, UInv, IInv
<1>1. /\ \A p \in Clients : /\ stage[p] = "idle" /\ request[p] = None /\ chan[p] = <<>>
                            /\ mailbox[p] = {} /\ held[p] = {}
      /\ \A r \in Requests : caller[r] = None /\ taken[r] = 0 /\ outcome[r] = "none"
      /\ \A h \in Children : target[h] = None /\ parent[h] = None
      /\ transit = {} /\ lost = {} /\ collected = {}
      /\ owner = "up" /\ seen = {} /\ status = [t \in Tokens |-> "unissued"]
      /\ \A t \in Tokens : holders[t] = {} /\ pending_retains[t] = {}
      /\ pending_issue = {}
      /\ \A r \in Requests : replies[r] = <<>> /\ Len(replies[r]) = 0
      /\ \A p \in Clients : Len(chan[p]) = 0
      /\ None \notin Requests /\ None \notin Clients
  BY RefsAssumption, ClientsAssumption DEF ProtocolInit, Init
<1>2. /\ \A p \in Clients : \A x : ~InChan(p, x)
      /\ \A p \in Clients : DownLast(p)
      /\ \A p \in Clients : \A x : Once(p, x)
      /\ \A p \in Clients : \A x, y : Followed(p, x, y)
  BY <1>1 DEF InChan, DownLast, Once, Followed
<1>3. /\ \A t, h : ~InHand(t, h)
      /\ \A r \in Requests : \A a : ~Replied(r, a)
      /\ \A h \in Holders : ~Grant(h)
      /\ \A t \in Tokens : \A h : h \notin holders[t] /\ ~Pending(t, h)
      /\ \A h \in Holders : ~Withdrawn(h)
  <2>1. \A r \in Requests : \A a : ~Replied(r, a)
    BY <1>1 DEF Replied
  <2>2. \A t, h : ~InHand(t, h)
    BY <1>1 DEF InHand
  <2> QED BY <1>1, <2>1, <2>2, KindsDiffer DEF Grant, Pending, Withdrawn
<1>4. ProtocolTypeOK
  <2>1. \A p \in Clients : <<>> \in Seq(Messages)
    OBVIOUS
  <2> QED BY <2>1 DEF ProtocolInit, ProtocolTypeOK
<1>5. Calls
  <2>1. \A p \in Clients : ClientCall(p)
    BY <1>1, <1>2 DEF ClientCall, Waiting
  <2>2. \A r \in Requests : RequestCall(r)
    BY <1>1 DEF RequestCall, Results
  <2>3. \A h \in Children : ChildCall(h)
    BY <1>1, <1>3, KindsDiffer DEF ChildCall
  <2> QED BY <2>1, <2>2, <2>3 DEF Calls
<1>6. Mail /\ GrantsComing
  BY <1>1, <1>3, KindsDiffer DEF Mail, GrantsComing
<1>7. MessagesJustified /\ IssueSettled
  BY <1>1, <1>2, KindsDiffer DEF MessagesJustified, IssueSettled
<1>8. Whereabouts /\ GrantsBacked
  BY <1>1, <1>3, KindsDiffer DEF Whereabouts, GrantsBacked
<1>9. Accounted /\ WithdrawalsFollow /\ OwnerSane
  BY <1>1, <1>3 DEF Accounted, WithdrawalsFollow, OwnerSane
<1> QED BY <1>0, <1>4, <1>5, <1>6, <1>7, <1>8, <1>9 DEF PInv

\* In every reachable state.
LEMMA ProtocolInvariant == ProtocolSpec => [](PInv /\ OwnerFacts)
BY ProtocolStart, ProtocolStep, PTL DEF ProtocolSpec

-----------------------------------------------------------------------------
(* What follows.                                                             *)

\* LeaseOwner describes the owner under an arbitrary environment; with its
\* clients, their channels and guards as environment it behaves so, and all that
\* is proved of it there holds here.
THEOREM ProtocolImplementsOwner == ProtocolSpec => Spec
<1>1. ProtocolInit => Init
  BY DEF ProtocolInit
<1>2. PInv /\ OwnerFacts /\ [ProtocolNext]_pvars => [Next]_vars
  BY OwnerSteps
<1> QED BY <1>1, <1>2, ProtocolInvariant, PTL DEF ProtocolSpec, Spec

\* A lease in hand is registered, so its entry is active and its buffer has not
\* gone back.
LEMMA BackedWhenInHand ==
  ASSUME PInv, OwnerFacts, NEW t \in Tokens, NEW h \in Holders, InHand(t, h)
  PROVE  h \in holders[t] /\ status[t] = "active" /\ t \notin released
<1>1. h \in holders[t]
  BY DEF PInv, Whereabouts
<1>2. Held /\ Freed
  BY DEF OwnerFacts, AInv, UInv
<1> QED BY <1>1, <1>2 DEF Held, Freed, Past

\* A lease that issue or retain returned is good wherever it was forwarded, until
\* it is released, for any number of clients, calls, timeouts and deaths
\* (await_retain, await_committed_issue, handle_protocol_down, cancel_retain).
THEOREM LeasesAlwaysBacked == ProtocolSpec => []LeasesBacked
<1>1. PInv /\ OwnerFacts => LeasesBacked
  BY BackedWhenInHand DEF LeasesBacked, Holds
<1> QED BY <1>1, ProtocolInvariant, PTL

\* issue/3 says truly who owns the token, however its timeout races with the
\* reservation and the lease, and no client brings the owner to stop for
\* corruption (await_issue_reservation, await_committed_issue, commit_issue).
THEOREM OwnershipAlwaysSettled == ProtocolSpec => []OwnershipSettled
<1>1. PInv /\ OwnerFacts => OwnershipSettled
  <2> SUFFICES ASSUME PInv, OwnerFacts, NEW t \in Tokens
      PROVE  /\ owner # "corrupt"
             /\ outcome[t] = "caller_owned" =>
                  /\ status[t] = "unissued" /\ t \notin released
                  /\ \A p \in Clients : \A i \in 1..Len(chan[p]) :
                       ~(chan[p][i].kind = "commit" /\ chan[p][i].token = t)
             /\ outcome[t] = "transferred" => \A h \in Holders : ~InHand(t, h)
    BY DEF OwnershipSettled, PInv, OwnerSane
  <2>0. /\ IssueSettled /\ MessagesJustified /\ Whereabouts /\ OwnerSane /\ Freed
        /\ chan \in [Clients -> Seq(Messages)]
    BY DEF PInv, ProtocolTypeOK, OwnerFacts, AInv, UInv
  <2>1. outcome[t] = "caller_owned" =>
          /\ status[t] = "unissued" /\ t \notin released
          /\ \A p \in Clients : ~InChan(p, CommitMsg(t))
    BY <2>0 DEF IssueSettled, Uncommitted, Freed, Past
  <2>2. ASSUME NEW p \in Clients, NEW i \in 1..Len(chan[p]),
               chan[p][i].kind = "commit", chan[p][i].token = t
        PROVE  InChan(p, CommitMsg(t))
    <3>1. PICK m : m = chan[p][i]
      OBVIOUS
    <3>2. m \in Messages /\ InChan(p, m)
      BY <2>0, <3>1 DEF InChan
    <3>3. Justified(p, m)
      BY <2>0, <3>2 DEF MessagesJustified
    <3>4. m = CommitMsg(t)
      BY <2>2, <3>1, <3>3, MessageFields
         DEF Justified, ReserveMsg, CommitMsg, CancelReservationMsg, ConfirmIssueMsg,
             CancelIssueMsg, RetainMsg, ConfirmRetainMsg, CancelRetainMsg, ReleaseMsg,
             DrainMsg, CancelDrainMsg, DownMessage
    <3> QED BY <3>2, <3>4
  <2>3. outcome[t] = "transferred" => \A h \in Holders : ~InHand(t, h)
    BY <2>0 DEF Whereabouts
  <2> QED BY <2>0, <2>1, <2>2, <2>3 DEF OwnerSane
<1> QED BY <1>1, ProtocolInvariant, PTL

\* drain/2 that returned :ok leaves nobody with a lease, and the owner without
\* entries and reservations (drain handler, complete_drain, await_drain).
THEOREM DrainAlwaysMeansDone == ProtocolSpec => []DrainMeansDone
<1>1. PInv /\ OwnerFacts => DrainMeansDone
  <2> SUFFICES ASSUME PInv, OwnerFacts, NEW c \in Callers, outcome[c] = "drained"
               PROVE  /\ owner = "stopped" /\ Leases = {} /\ issue_reservations = {}
                      /\ \A t \in Tokens, h \in Holders : ~InHand(t, h)
    BY DEF DrainMeansDone
  <2>1. owner = "stopped"
    BY KindsDiffer DEF PInv, Calls, RequestCall
  <2>2. Leases = {} /\ issue_reservations = {}
    BY <2>1 DEF OwnerFacts, DInv, Settling, Drained
  <2>3. ASSUME NEW t \in Tokens, NEW h \in Holders, InHand(t, h) PROVE FALSE
    <3>1. status[t] = "active"
      BY <2>3, BackedWhenInHand
    <3> QED BY <2>2, <3>1 DEF Leases, EntryStatus
  <2> QED BY <2>1, <2>2, <2>3
<1> QED BY <1>1, ProtocolInvariant, PTL

\* No holder leaks: it is in a client's hands, its call has not returned, the
\* message that removes it is on its way, or its client died and its guard has
\* yet to tell (retain handshake, handle_protocol_down, abandoned handler).
THEOREM HoldersAlwaysAccountedFor == ProtocolSpec => []HoldersAccountedFor
<1>1. PInv /\ OwnerFacts => HoldersAccountedFor
  <2> SUFFICES ASSUME PInv, OwnerFacts, owner = "up", NEW t \in Tokens, NEW h \in holders[t]
      PROVE  \/ InHand(t, h) \/ RemovalSent(t, h)
             \/ \E p \in Clients : request[p] = h
             \/ /\ \E p \in Clients : stage[p] = "dead"
                /\ <<t, h>> \notin collected \ lost
    BY DEF HoldersAccountedFor
  <2>0. /\ Accounted /\ GrantsBacked /\ Calls /\ IssueSettled /\ Held /\ ProtocolTypeOK
        /\ h \in Holders /\ h \in Requests
    BY KindsDiffer DEF PInv, OwnerFacts, AInv, UInv, IInv, TypeOK
  <2>1. /\ LeaseOf(h) = t /\ caller[h] # None /\ caller[h] \in Clients
        /\ RequestCall(h)
    BY <2>0, Known DEF Calls, ProtocolTypeOK
  <2>2. <<t, h>> \notin collected \ lost
    BY <2>0 DEF GrantsBacked
  <2>3. ASSUME NEW p \in Clients, NEW m, InChan(p, m),
               \/ m.kind \in {"release", "cancel_retain"} /\ m.token = t /\ m.holder = h
               \/ m.kind = "cancel_issue" /\ m.token = t
        PROVE  RemovalSent(t, h)
    BY <2>3 DEF InChan, RemovalSent
  <2>4. CASE outcome[h] = "ok"
    <3>1. \A p \in Clients : InChan(p, ReleaseMsg(t, h)) => RemovalSent(t, h)
      <4>1. ReleaseMsg(t, h).kind = "release" /\ ReleaseMsg(t, h).token = t
            /\ ReleaseMsg(t, h).holder = h
        BY MessageFields DEF ReleaseMsg
      <4> QED BY <2>3, <4>1
    <3> QED BY <2>0, <2>2, <2>4, <3>1 DEF Accounted
  <2>5. CASE outcome[h] = "none"
    BY <2>1, <2>2, <2>5 DEF RequestCall
  <2>6. CASE Withdrawn(h)
    <3>1. InChan(caller[h], Withdrawal(t, h))
      BY <2>0, <2>1, <2>6 DEF Accounted
    <3>2. /\ Withdrawal(t, h).token = t
          /\ \/ Withdrawal(t, h).kind = "cancel_retain" /\ Withdrawal(t, h).holder = h
             \/ Withdrawal(t, h).kind = "cancel_issue"
      BY MessageFields DEF Withdrawal, CancelIssueMsg, CancelRetainMsg
    <3> QED BY <2>1, <2>3, <3>1, <3>2
  <2>7. ASSUME outcome[h] \notin {"ok", "none"}, ~Withdrawn(h) PROVE FALSE
    <3>1. h \in Tokens /\ outcome[h] = "caller_owned"
      BY <2>0, <2>1, <2>7 DEF RequestCall, Results, Withdrawn, Holders
    <3>2. h = t /\ status[t] = "unissued"
      BY <2>0, <2>1, <3>1 DEF LeaseOf, IssueSettled, Uncommitted
    <3> QED BY <2>0, <3>2 DEF Held
  <2> QED BY <2>4, <2>5, <2>6, <2>7
<1> QED BY <1>1, ProtocolInvariant, PTL
=============================================================================
