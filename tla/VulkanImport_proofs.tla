------------------------ MODULE VulkanImport_proofs ------------------------
(***************************************************************************)
(* Theorems about VulkanImport for any imports, keys and limits: claims    *)
(* are exclusive, the cache holds the source of every lease, output slots  *)
(* belong to one image, and evict_stream tells the truth.                  *)
(***************************************************************************)
EXTENDS VulkanImport, TLAPS, FiniteSetTheorems

\* Where an import is while it refers to a source, ...
Using == {"sourced", "slotless", "live", "returning", "unclaim", "unref"}

\* ... while it may have an output slot, ...
Shown == {"live", "returning", "unclaim", "unref", "unslot"}

\* ... and before it can have put a source into the cache.
Early == {"idle", "stamped", "missed", "created"}

\* The key of an import is drawn once.
KeyInv == \A i \in Imports : pc[i] # "idle" => key[i] \in Keys

\* A source is held from the claim until the lease's Arc is dropped, and is
\* being released exactly from the moment that `released' says so.
LeaseInv ==
  \A i \in Imports :
    /\ lease[i] # None <=> pc[i] \in Using
    /\ i \in released => pc[i] \in Shown \cup {"done"}
    /\ pc[i] \in {"returning", "unclaim", "unref"} => i \in released

Claiming(i) ==
  /\ lease[i] # None
  /\ i \notin released \/ pc[i] \in {"unclaim", "returning"}

\* `claimed' is exact and claims are exclusive: ClaimExact without cardinalities.
ClaimInv ==
  /\ \A i, j \in Imports : Claiming(i) /\ Claiming(j) /\ lease[i] = lease[j] => i = j
  /\ \A s \in Imports : s \in claimed <=> \E i \in Imports : Claiming(i) /\ lease[i] = s

\* The cache is bounded, knows an identity under one key, maps a key to the
\* source that was made for it, and has the source of every lease.
CacheInv ==
  /\ IsFiniteSet(Entries) /\ Cardinality(Entries) <= MaxEntries
  /\ \A k, l \in Entries : k.stream = l.stream /\ k.buffer = l.buffer => k = l
  /\ \A k \in Entries : key[entries[k]] = k /\ pc[entries[k]] \notin Early
  /\ \A i \in Imports : lease[i] # None => entries[key[i]] = lease[i]

\* The pool is bounded, its slots are of images that were once live, and
\* claims of slots are exact and exclusive.
PoolInv ==
  /\ Cardinality(slots) <= MaxSlots
  /\ \A s \in slots : pc[s] \in Shown \cup {"done"}
  /\ \A i \in Imports : output[i] # None => pc[i] \in Shown
  /\ \A i, j \in Imports : output[i] # None /\ output[i] = output[j] => i = j
  /\ slot_claimed = {output[i] : i \in Imports} \ {None}
  /\ \A i \in Imports :
       output[i] # None => output[i] \in slots /\ Shape(output[i]) = Shape(i)

IInv == TypeOK /\ KeyInv /\ LeaseInv /\ ClaimInv /\ CacheInv /\ PoolInv

USE DEF cacheVars, poolVars, callVars

-----------------------------------------------------------------------------
(* Types.                                                                    *)

\* Where an import goes is a state.
LEMMA GotoTyped ==
  ASSUME TypeOK, NEW i \in Imports, NEW l \in States, Goto(i, l)
  PROVE  pc' \in [Imports -> States]
BY DEF Goto, TypeOK

\* A claim keeps the types of what it writes.
LEMMA ClaimTyped ==
  ASSUME TypeOK, NEW i \in Imports, NEW s \in Imports, ClaimSource(i, s)
  PROVE  /\ claimed' \subseteq Imports /\ last_used' \in [Imports -> Nat]
         /\ lease' \in [Imports -> Imports \cup {None}]
         /\ pc' \in [Imports -> States]
<1>1. pc' \in [Imports -> States]
  BY GotoTyped DEF ClaimSource, States
<1>2. claimed' \subseteq Imports
  BY DEF ClaimSource, TypeOK
<1>3. generation[i] \in Nat
  BY DEF TypeOK
<1>4. last_used' \in [Imports -> Nat]
  BY <1>3 DEF ClaimSource, TypeOK
<1>5. lease' \in [Imports -> Imports \cup {None}]
  BY DEF ClaimSource, TypeOK
<1> QED BY <1>1, <1>2, <1>4, <1>5

\* So does a lookup that finds an entry.
LEMMA FoundTyped ==
  ASSUME TypeOK, NEW i \in Imports, key[i] \in Keys, entries[key[i]] # None, FoundEntry(i)
  PROVE  /\ claimed' \subseteq Imports /\ last_used' \in [Imports -> Nat]
         /\ lease' \in [Imports -> Imports \cup {None}]
         /\ pc' \in [Imports -> States] /\ UNCHANGED entries
<1>1. entries[key[i]] \in Imports
  BY DEF TypeOK
<1>2. CASE ClaimSource(i, entries[key[i]]) /\ UNCHANGED entries
  BY <1>1, <1>2, ClaimTyped
<1>3. CASE Goto(i, "done") /\ UNCHANGED <<cacheVars, lease>>
  BY <1>3, GotoTyped DEF TypeOK, States
<1> QED BY <1>2, <1>3 DEF FoundEntry

\* An eviction only removes entries.
LEMMA EvictedTyped ==
  ASSUME TypeOK
  PROVE  Evicted \in [Keys -> Imports \cup {None}]
BY DEF TypeOK, Evicted

\* The beginning of a drop.
LEMMA BeginDropTyped ==
  ASSUME TypeOK, NEW i \in Imports, BeginDrop(i)
  PROVE  released' \subseteq Imports /\ pc' \in [Imports -> States]
BY GotoTyped DEF BeginDrop, TypeOK, States

\* The type invariant is inductive with KeyInv.
LEMMA TypeStep == TypeOK /\ KeyInv /\ [Next]_vars => TypeOK'
<1> SUFFICES ASSUME TypeOK, KeyInv, [Next]_vars PROVE TypeOK'
  OBVIOUS
<1> USE DEF States
<1>1. ASSUME NEW i \in Imports, NEW k \in Keys, Stamp(i, k) PROVE TypeOK'
  <2>1. clock' \in Nat /\ generation' \in [Imports -> Nat]
    BY <1>1 DEF Stamp, TypeOK
  <2>2. key' \in [Imports -> Keys \cup {None}]
    BY <1>1 DEF Stamp, TypeOK
  <2>3. pc' \in [Imports -> States]
    BY <1>1, GotoTyped DEF Stamp
  <2> QED BY <1>1, <2>1, <2>2, <2>3 DEF Stamp, TypeOK
<1>2. ASSUME NEW i \in Imports, Lookup(i) PROVE TypeOK'
  <2>1. key[i] \in Keys
    BY <1>2 DEF Lookup, KeyInv
  <2>2. CASE entries[key[i]] # None /\ FoundEntry(i)
    BY <1>2, <2>1, <2>2, FoundTyped DEF Lookup, TypeOK
  <2>3. CASE entries[key[i]] = None
    <3>1. pc' \in [Imports -> States]
      BY <1>2, <2>3, GotoTyped DEF Lookup
    <3> QED BY <1>2, <2>3, <3>1 DEF Lookup, TypeOK
  <2> QED BY <1>2, <2>2, <2>3 DEF Lookup
<1>3. ASSUME NEW i \in Imports, CreateSource(i) PROVE TypeOK'
  <2>1. pc' \in [Imports -> States]
    BY <1>3, GotoTyped DEF CreateSource
  <2> QED BY <1>3, <2>1 DEF CreateSource, TypeOK
<1>4. ASSUME NEW i \in Imports, Insert(i) PROVE TypeOK'
  <2>1. key[i] \in Keys
    BY <1>4 DEF Insert, KeyInv
  <2>2. CASE entries[key[i]] # None /\ FoundEntry(i)
    BY <1>4, <2>1, <2>2, FoundTyped DEF Insert, TypeOK
  <2>3. CASE Goto(i, "done") /\ UNCHANGED <<claimed, last_used, lease>>
             /\ entries' \in [Keys -> Imports \cup {None}]
    BY <1>4, <2>3, GotoTyped DEF Insert, TypeOK
  <2>4. CASE ClaimSource(i, i) /\ entries' \in [Keys -> Imports \cup {None}]
    BY <1>4, <2>4, ClaimTyped DEF Insert, TypeOK
  <2> DEFINE kept == IF Count(entries) >= MaxEntries THEN Evicted ELSE entries
  <2>5. kept \in [Keys -> Imports \cup {None}]
    BY EvictedTyped DEF TypeOK
  <2>6. entries \in [Keys -> Imports \cup {None}]
    BY DEF TypeOK
  <2>7. \/ entries[key[i]] # None /\ FoundEntry(i)
        \/ Goto(i, "done") /\ UNCHANGED <<cacheVars, lease>>
        \/ entries' = kept /\ Goto(i, "done") /\ UNCHANGED <<claimed, last_used, lease>>
        \/ entries' = [kept EXCEPT ![key[i]] = i] /\ ClaimSource(i, i)
    BY <1>4 DEF Insert
  <2> HIDE DEF kept
  <2> QED BY <2>1, <2>2, <2>3, <2>4, <2>5, <2>6, <2>7
<1>5. ASSUME NEW i \in Imports, FinishDirect(i) PROVE TypeOK'
  <2>1. pc' \in [Imports -> States]
    BY <1>5, GotoTyped DEF FinishDirect
  <2> QED BY <1>5, <2>1 DEF FinishDirect, TypeOK
<1>6. ASSUME NEW i \in Imports, FindSlot(i) PROVE TypeOK'
  <2>1. IdleSlots(i) \subseteq Imports
    BY DEF IdleSlots, TypeOK
  <2>2. pc' \in [Imports -> States]
    BY <1>6, GotoTyped DEF FindSlot
  <2>3. slot_claimed' \subseteq Imports /\ output' \in [Imports -> Imports \cup {None}]
        /\ pool_lock' \in Imports \cup {None}
    BY <1>6, <2>1 DEF FindSlot, TypeOK
  <2> QED BY <1>6, <2>2, <2>3 DEF FindSlot, TypeOK
<1>7. ASSUME NEW i \in Imports, ReplaceSlot(i) PROVE TypeOK'
  <2>0. slots \subseteq Imports
    BY DEF TypeOK
  <2>1. PICK kept \in SUBSET Imports :
          \/ BeginDrop(i) /\ UNCHANGED <<slots, slot_claimed, output>>
          \/ /\ slots' = kept \cup {i}
             /\ slot_claimed' = slot_claimed \cup {i}
             /\ output' = [output EXCEPT ![i] = i]
             /\ Goto(i, "live")
             /\ UNCHANGED released
          \/ slots' = kept /\ BeginDrop(i) /\ UNCHANGED <<slot_claimed, output>>
    <3>1. CASE BeginDrop(i) /\ UNCHANGED <<slots, slot_claimed, output>>
      BY <3>1
    <3>2. ASSUME NEW kept \in IF Cardinality(slots) < MaxSlots THEN {slots}
                              ELSE {slots \ {s} : s \in Replaced(i)}
          PROVE  kept \in SUBSET Imports
      BY <2>0
    <3> QED BY <1>7, <3>1, <3>2 DEF ReplaceSlot
  <2>2. pc' \in [Imports -> States] /\ released' \subseteq Imports
    <3>1. CASE BeginDrop(i)
      BY <3>1, BeginDropTyped
    <3>2. CASE Goto(i, "live") /\ UNCHANGED released
      BY <3>2, GotoTyped DEF TypeOK
    <3> QED BY <2>1, <3>1, <3>2
  <2>3. slots' \subseteq Imports /\ slot_claimed' \subseteq Imports
        /\ output' \in [Imports -> Imports \cup {None}]
    BY <2>1 DEF TypeOK
  <2> QED BY <1>7, <2>2, <2>3 DEF ReplaceSlot, TypeOK
<1>8. ASSUME NEW i \in Imports, ReleaseStagedSource(i) PROVE TypeOK'
  <2>1. pc' \in [Imports -> States]
    BY <1>8, GotoTyped DEF ReleaseStagedSource
  <2> QED BY <1>8, <2>1 DEF ReleaseStagedSource, TypeOK
<1>9. ASSUME NEW i \in Imports, DropImage(i) PROVE TypeOK'
  BY <1>9, BeginDropTyped DEF DropImage, TypeOK
<1>10. ASSUME NEW i \in Imports, Unclaim(i) PROVE TypeOK'
  <2>1. pc' \in [Imports -> States]
    BY <1>10, GotoTyped DEF Unclaim
  <2> QED BY <1>10, <2>1 DEF Unclaim, TypeOK
<1>11. ASSUME NEW i \in Imports, Unref(i) PROVE TypeOK'
  <2>1. pc' \in [Imports -> States]
    BY <1>11, GotoTyped DEF Unref
  <2> QED BY <1>11, <2>1 DEF Unref, TypeOK
<1>12. ASSUME NEW i \in Imports, Unslot(i) PROVE TypeOK'
  <2>1. pc' \in [Imports -> States]
    BY <1>12, GotoTyped DEF Unslot
  <2> QED BY <1>12, <2>1 DEF Unslot, TypeOK
<1>13. ASSUME NEW s \in Streams, EvictStream(s) PROVE TypeOK'
  <2>1. entries' \in [Keys -> Imports \cup {None}]
    BY <1>13 DEF EvictStream, TypeOK
  <2>2. answer' \in [Streams -> {"none", "ok", "busy"}]
    BY <1>13 DEF EvictStream, TypeOK
  <2> QED BY <1>13, <2>1, <2>2 DEF EvictStream, TypeOK
<1>14. CASE UNCHANGED vars
  BY <1>14 DEF vars, TypeOK
<1> QED BY <1>1, <1>2, <1>3, <1>4, <1>5, <1>6, <1>7, <1>8, <1>9, <1>10, <1>11, <1>12,
           <1>13, <1>14 DEF Next

-----------------------------------------------------------------------------
(* Keys and leases.                                                          *)

\* What an import does to where it is, and to its own key and lease: an import
\* that has drawn a key keeps it, and one that is no longer early stays so.
Forward ==
  /\ \A i \in Imports : pc[i] # "idle" => key'[i] = key[i] /\ pc'[i] # "idle"
  /\ \A i \in Imports : pc[i] \notin Early => pc'[i] \notin Early

\* One import moves, to a place that is neither idle nor before where it was.
LEMMA MoveForward ==
  ASSUME TypeOK, NEW i \in Imports, NEW l \in States, Goto(i, l), UNCHANGED key,
         l # "idle", pc[i] \in Early \/ l \notin Early
  PROVE  Forward
BY DEF Goto, Forward, TypeOK

LEMMA ForwardStep == TypeOK /\ [Next]_vars => Forward
<1> SUFFICES ASSUME TypeOK, [Next]_vars PROVE Forward
  OBVIOUS
<1> USE DEF States, Early
<1>1. ASSUME NEW i \in Imports, NEW k \in Keys, Stamp(i, k) PROVE Forward
  BY <1>1 DEF Stamp, Goto, Forward, TypeOK
<1>2. ASSUME NEW i \in Imports, Lookup(i) PROVE Forward
  <2>1. PICK l \in {"sourced", "missed", "done"} : Goto(i, l) /\ UNCHANGED key
    BY <1>2 DEF Lookup, FoundEntry, ClaimSource
  <2> QED BY <2>1, <1>2, MoveForward DEF Lookup
<1>3. ASSUME NEW i \in Imports, CreateSource(i) PROVE Forward
  <2>1. PICK l \in {"created", "done"} : Goto(i, l) /\ UNCHANGED key
    BY <1>3 DEF CreateSource
  <2> QED BY <2>1, <1>3, MoveForward DEF CreateSource
<1>4. ASSUME NEW i \in Imports, Insert(i) PROVE Forward
  <2>1. PICK l \in {"sourced", "done"} : Goto(i, l) /\ UNCHANGED key
    BY <1>4 DEF Insert, FoundEntry, ClaimSource
  <2> QED BY <2>1, MoveForward
<1>5. ASSUME NEW i \in Imports, FinishDirect(i) PROVE Forward
  BY <1>5, MoveForward DEF FinishDirect
<1>6. ASSUME NEW i \in Imports, FindSlot(i) PROVE Forward
  <2>1. PICK l \in {"live", "slotless"} : Goto(i, l) /\ UNCHANGED key
    BY <1>6 DEF FindSlot
  <2> QED BY <2>1, MoveForward
<1>7. ASSUME NEW i \in Imports, ReplaceSlot(i) PROVE Forward
  <2>1. PICK l \in {"live", "unref", "unclaim"} : Goto(i, l) /\ UNCHANGED key
    BY <1>7 DEF ReplaceSlot, BeginDrop
  <2> QED BY <2>1, MoveForward
<1>8. ASSUME NEW i \in Imports, ReleaseStagedSource(i) PROVE Forward
  BY <1>8, MoveForward DEF ReleaseStagedSource
<1>9. ASSUME NEW i \in Imports, DropImage(i) PROVE Forward
  <2>1. PICK l \in {"unref", "unclaim"} : Goto(i, l) /\ UNCHANGED key
    BY <1>9 DEF DropImage, BeginDrop
  <2> QED BY <2>1, MoveForward
<1>10. ASSUME NEW i \in Imports, Unclaim(i) PROVE Forward
  <2>1. PICK l \in {"live", "unref"} : Goto(i, l) /\ UNCHANGED key
    BY <1>10 DEF Unclaim
  <2> QED BY <2>1, MoveForward
<1>11. ASSUME NEW i \in Imports, Unref(i) PROVE Forward
  <2>1. PICK l \in {"done", "unslot"} : Goto(i, l) /\ UNCHANGED key
    BY <1>11 DEF Unref
  <2> QED BY <2>1, MoveForward
<1>12. ASSUME NEW i \in Imports, Unslot(i) PROVE Forward
  BY <1>12, MoveForward DEF Unslot
<1>13. CASE UNCHANGED <<pc, key>>
  BY <1>13 DEF Forward
<1> QED BY <1>1, <1>2, <1>3, <1>4, <1>5, <1>6, <1>7, <1>8, <1>9, <1>10, <1>11, <1>12,
           <1>13 DEF Next, EvictStream, vars

LEMMA KeyStep == TypeOK /\ KeyInv /\ [Next]_vars => KeyInv'
<1> SUFFICES ASSUME TypeOK, KeyInv, [Next]_vars, NEW i \in Imports, pc'[i] # "idle"
             PROVE  key'[i] \in Keys
  BY DEF KeyInv
<1>1. CASE pc[i] # "idle"
  BY <1>1, ForwardStep DEF Forward, KeyInv
<1>2. ASSUME pc[i] = "idle", NEW k \in Keys, Stamp(i, k) PROVE key'[i] \in Keys
  BY <1>2 DEF Stamp, TypeOK
<1>3. CASE pc[i] = "idle" /\ pc'[i] # pc[i]
  <2>1. ASSUME NEW j \in Imports, j # i, NEW l, Goto(j, l) PROVE FALSE
    BY <1>3, <2>1 DEF Goto, TypeOK
  <2>2. \E k \in Keys : Stamp(i, k)
    <3>1. ASSUME NEW j \in Imports, NEW k \in Keys, Stamp(j, k) PROVE j = i
      BY <2>1, <3>1 DEF Stamp
    <3>2. ASSUME NEW j \in Imports,
                 \/ Lookup(j) \/ CreateSource(j) \/ Insert(j)
                 \/ FinishDirect(j) \/ FindSlot(j) \/ ReplaceSlot(j)
                 \/ ReleaseStagedSource(j) \/ DropImage(j)
                 \/ Unclaim(j) \/ Unref(j) \/ Unslot(j)
          PROVE FALSE
      <4>1. pc[j] # "idle" /\ \E l : Goto(j, l)
        BY <3>2 DEF Lookup, CreateSource, Insert, FinishDirect, FindSlot, ReplaceSlot,
              ReleaseStagedSource, DropImage, Unclaim, Unref, Unslot, FoundEntry,
              ClaimSource, BeginDrop
      <4> QED BY <2>1, <1>3, <4>1
    <3> QED BY <1>3, <3>1, <3>2 DEF Next, vars, EvictStream
  <2> QED BY <1>2, <1>3, <2>2
<1> QED BY <1>1, <1>3

\* One import moves and its lease stays: it goes where it may with the lease
\* that it has.
LEMMA MoveLease ==
  ASSUME TypeOK, LeaseInv, NEW i \in Imports, NEW l \in States, Goto(i, l),
         UNCHANGED <<lease, released>>,
         l \in Using <=> pc[i] \in Using,
         i \in released => l \in Shown \cup {"done"},
         l \in {"returning", "unclaim", "unref"} => i \in released
  PROVE  LeaseInv'
BY DEF Goto, LeaseInv, TypeOK

\* A claim is made by an import that has no source yet.
LEMMA ClaimLease ==
  ASSUME TypeOK, LeaseInv, NEW i \in Imports, NEW s \in Imports, pc[i] \in Early,
         ClaimSource(i, s), UNCHANGED released
  PROVE  LeaseInv'
<1>1. i \notin released
  BY DEF LeaseInv, Early, Shown
<1> QED BY <1>1, ImportAssumption DEF ClaimSource, Goto, LeaseInv, TypeOK, Using, Shown

\* A drop begins.
LEMMA DropLease ==
  ASSUME TypeOK, LeaseInv, NEW i \in Imports, pc[i] \in {"live", "slotless"},
         BeginDrop(i), UNCHANGED lease
  PROVE  LeaseInv'
BY DEF BeginDrop, Goto, LeaseInv, TypeOK, Using, Shown

LEMMA LeaseStep == TypeOK /\ KeyInv /\ LeaseInv /\ [Next]_vars => LeaseInv'
<1> SUFFICES ASSUME TypeOK, KeyInv, LeaseInv, [Next]_vars PROVE LeaseInv'
  OBVIOUS
<1> USE DEF States, Early, Using, Shown
<1>1. ASSUME NEW i \in Imports, NEW k \in Keys, Stamp(i, k) PROVE LeaseInv'
  BY <1>1 DEF Stamp, Goto, LeaseInv, TypeOK
<1>2. ASSUME NEW i \in Imports, pc[i] \in {"stamped", "created"},
             entries[key[i]] # None, FoundEntry(i), UNCHANGED released
      PROVE  LeaseInv'
  <2>1. entries[key[i]] \in Imports
    BY <1>2 DEF TypeOK, KeyInv
  <2>2. i \notin released
    BY <1>2 DEF LeaseInv
  <2> QED BY <1>2, <2>1, <2>2, ClaimLease, MoveLease DEF FoundEntry
<1>3. ASSUME NEW i \in Imports, Lookup(i) PROVE LeaseInv'
  <2>1. i \notin released
    BY <1>3 DEF LeaseInv, Lookup
  <2>2. CASE entries[key[i]] # None /\ FoundEntry(i)
    BY <1>2, <1>3, <2>2 DEF Lookup
  <2>3. CASE entries[key[i]] = None
    <3>1. PICK l \in {"done", "missed"} : Goto(i, l) /\ UNCHANGED <<lease, released>>
      BY <1>3, <2>3 DEF Lookup
    <3> QED BY <1>3, <2>1, <3>1, MoveLease DEF Lookup
  <2> QED BY <1>3, <2>2, <2>3 DEF Lookup
<1>4. ASSUME NEW i \in Imports, CreateSource(i) PROVE LeaseInv'
  <2>1. i \notin released
    BY <1>4 DEF LeaseInv, CreateSource
  <2>2. PICK l \in {"created", "done"} : Goto(i, l) /\ UNCHANGED <<lease, released>>
    BY <1>4 DEF CreateSource
  <2> QED BY <1>4, <2>1, <2>2, MoveLease DEF CreateSource
<1>5. ASSUME NEW i \in Imports, Insert(i) PROVE LeaseInv'
  <2>1. i \notin released /\ pc[i] = "created"
    BY <1>5 DEF LeaseInv, Insert
  <2>2. \/ entries[key[i]] # None /\ FoundEntry(i)
        \/ Goto(i, "done") /\ UNCHANGED lease
        \/ ClaimSource(i, i)
    BY <1>5 DEF Insert
  <2>3. UNCHANGED released
    BY <1>5 DEF Insert
  <2> QED BY <1>2, <2>1, <2>2, <2>3, ClaimLease, MoveLease
<1>6. ASSUME NEW i \in Imports, FinishDirect(i) PROVE LeaseInv'
  BY <1>6, MoveLease DEF FinishDirect
<1>7. ASSUME NEW i \in Imports, FindSlot(i) PROVE LeaseInv'
  <2>1. i \notin released /\ pc[i] = "sourced"
    BY <1>7 DEF LeaseInv, FindSlot
  <2>2. PICK l \in {"live", "slotless"} : Goto(i, l) /\ UNCHANGED <<lease, released>>
    BY <1>7 DEF FindSlot
  <2> QED BY <2>1, <2>2, MoveLease
<1>8. ASSUME NEW i \in Imports, ReplaceSlot(i) PROVE LeaseInv'
  <2>1. pc[i] = "slotless" /\ UNCHANGED lease
        /\ (BeginDrop(i) \/ (Goto(i, "live") /\ UNCHANGED released))
    BY <1>8 DEF ReplaceSlot
  <2> QED BY <2>1, MoveLease, DropLease
<1>9. ASSUME NEW i \in Imports, ReleaseStagedSource(i) PROVE LeaseInv'
  BY <1>9 DEF ReleaseStagedSource, Goto, LeaseInv, TypeOK
<1>10. ASSUME NEW i \in Imports, DropImage(i) PROVE LeaseInv'
  BY <1>10, DropLease DEF DropImage
<1>11. ASSUME NEW i \in Imports, Unclaim(i) PROVE LeaseInv'
  BY <1>11 DEF Unclaim, Goto, LeaseInv, TypeOK
<1>12. ASSUME NEW i \in Imports, Unref(i) PROVE LeaseInv'
  BY <1>12 DEF Unref, Goto, LeaseInv, TypeOK
<1>13. ASSUME NEW i \in Imports, Unslot(i) PROVE LeaseInv'
  BY <1>13, MoveLease DEF Unslot
<1>14. CASE UNCHANGED <<pc, lease, released>>
  BY <1>14 DEF LeaseInv
<1> QED BY <1>1, <1>3, <1>4, <1>5, <1>6, <1>7, <1>8, <1>9, <1>10, <1>11, <1>12, <1>13,
           <1>14 DEF Next, EvictStream, vars

-----------------------------------------------------------------------------
(* Claims.                                                                   *)

\* A source that is leased is in the cache, so its import is no longer early.
LEMMA LeasedIsCached ==
  ASSUME TypeOK, KeyInv, LeaseInv, CacheInv, NEW i \in Imports, lease[i] # None
  PROVE  /\ key[i] \in Entries /\ entries[key[i]] = lease[i]
         /\ lease[i] \in Imports /\ pc[lease[i]] \notin Early
<1>1. pc[i] # "idle"
  BY DEF LeaseInv, Using
<1>2. key[i] \in Keys /\ entries[key[i]] = lease[i]
  BY <1>1 DEF KeyInv, CacheInv
<1> QED BY <1>2 DEF Entries, CacheInv, TypeOK

\* Nobody begins or ends a claim.
LEMMA ClaimsKept ==
  ASSUME ClaimInv, UNCHANGED claimed,
         \A j \in Imports : Claiming(j)' <=> Claiming(j),
         \A j \in Imports : Claiming(j) => lease'[j] = lease[j]
  PROVE  ClaimInv'
BY DEF ClaimInv

\* An idle source gets a claimant.
LEMMA ClaimMade ==
  ASSUME TypeOK, LeaseInv, ClaimInv, NEW i \in Imports, NEW s \in Imports,
         pc[i] \in Early, ClaimSource(i, s), s \notin claimed, UNCHANGED released
  PROVE  ClaimInv'
<1>1. i \notin released /\ lease[i] = None
  BY DEF LeaseInv, Early, Shown, Using
<1>2. /\ claimed' = claimed \cup {s} /\ lease' = [lease EXCEPT ![i] = s]
      /\ pc' = [pc EXCEPT ![i] = "sourced"]
  BY DEF ClaimSource, Goto
<1>3. Claiming(i)' /\ lease'[i] = s
  BY <1>1, <1>2, ImportAssumption DEF Claiming, TypeOK
<1>4. \A j \in Imports \ {i} : (Claiming(j)' <=> Claiming(j)) /\ lease'[j] = lease[j]
  BY <1>2 DEF Claiming, TypeOK
<1>5. ~Claiming(i)
  BY <1>1 DEF Claiming
<1>6. \A j \in Imports \ {i} : Claiming(j) => lease[j] # s
  BY DEF ClaimInv
<1> QED BY <1>2, <1>3, <1>4, <1>5, <1>6 DEF ClaimInv

\* A claimant gives its claim up.
LEMMA ClaimEnded ==
  ASSUME TypeOK, LeaseInv, ClaimInv, NEW i \in Imports, Unclaim(i)
  PROVE  ClaimInv'
<1>1. i \in released /\ lease[i] # None /\ Claiming(i)
  BY DEF Unclaim, LeaseInv, Claiming, Using
<1>2. /\ claimed' = claimed \ {lease[i]} /\ UNCHANGED <<lease, released>>
      /\ pc' = [pc EXCEPT ![i] = IF pc[i] = "returning" THEN "live" ELSE "unref"]
  BY DEF Unclaim, Goto
<1>3. ~Claiming(i)'
  BY <1>1, <1>2 DEF Claiming, TypeOK
<1>4. \A j \in Imports \ {i} : Claiming(j)' <=> Claiming(j)
  BY <1>2 DEF Claiming, TypeOK
<1>5. \A j \in Imports \ {i} : Claiming(j) => lease[j] # lease[i]
  BY <1>1 DEF ClaimInv
<1> QED BY <1>1, <1>2, <1>3, <1>4, <1>5 DEF ClaimInv

\* An import moves without a change to its claim.
LEMMA ClaimMoved ==
  ASSUME TypeOK, ClaimInv, NEW i \in Imports, NEW l \in States, Goto(i, l),
         UNCHANGED <<claimed, lease, released>>,
         i \in released => pc[i] \notin {"unclaim", "returning"}
                           /\ l \notin {"unclaim", "returning"}
  PROVE  ClaimInv'
<1>1. \A j \in Imports : Claiming(j)' <=> Claiming(j)
  BY DEF Goto, Claiming, TypeOK
<1> QED BY <1>1, ClaimsKept

\* A release begins, and the claim lasts until the swap of `claimed'.
LEMMA ClaimReturned ==
  ASSUME TypeOK, ClaimInv, NEW i \in Imports, NEW l \in {"unclaim", "returning", "unref"},
         pc[i] \in {"live", "slotless"}, Goto(i, l), UNCHANGED <<claimed, lease>>,
         l = "unref" <=> i \in released, released' = released \cup {i}
  PROVE  ClaimInv'
<1>1. \A j \in Imports : Claiming(j)' <=> Claiming(j)
  BY DEF Goto, Claiming, TypeOK
<1> QED BY <1>1, ClaimsKept

\* The claims stay exact and exclusive.
LEMMA ClaimStep ==
  TypeOK /\ KeyInv /\ LeaseInv /\ ClaimInv /\ CacheInv /\ [Next]_vars => ClaimInv'
<1> SUFFICES ASSUME TypeOK, KeyInv, LeaseInv, ClaimInv, CacheInv, [Next]_vars
             PROVE  ClaimInv'
  OBVIOUS
<1> USE DEF States
<1>1. ASSUME NEW i \in Imports, NEW k \in Keys, Stamp(i, k) PROVE ClaimInv'
  BY <1>1, ClaimMoved DEF Stamp
<1>2. ASSUME NEW i \in Imports, pc[i] \in {"stamped", "created"},
             entries[key[i]] # None, FoundEntry(i), UNCHANGED released
      PROVE  ClaimInv'
  <2>1. entries[key[i]] \in Imports
    BY <1>2 DEF TypeOK, KeyInv
  <2>2. i \notin released
    BY <1>2 DEF LeaseInv, Shown
  <2> QED BY <1>2, <2>1, <2>2, ClaimMade, ClaimMoved DEF FoundEntry, Early
<1>3. ASSUME NEW i \in Imports, Lookup(i) PROVE ClaimInv'
  <2>1. i \notin released
    BY <1>3 DEF LeaseInv, Lookup, Shown
  <2>2. CASE entries[key[i]] # None /\ FoundEntry(i)
    BY <1>2, <1>3, <2>2 DEF Lookup
  <2>3. CASE entries[key[i]] = None
    <3>1. PICK l \in {"done", "missed"} : Goto(i, l) /\ UNCHANGED <<claimed, lease, released>>
      BY <1>3, <2>3 DEF Lookup
    <3> QED BY <2>1, <3>1, ClaimMoved
  <2> QED BY <1>3, <2>2, <2>3 DEF Lookup
<1>4. ASSUME NEW i \in Imports, CreateSource(i) PROVE ClaimInv'
  <2>1. i \notin released
    BY <1>4 DEF LeaseInv, CreateSource, Shown
  <2>2. PICK l \in {"created", "done"} : Goto(i, l) /\ UNCHANGED <<claimed, lease, released>>
    BY <1>4 DEF CreateSource
  <2> QED BY <2>1, <2>2, ClaimMoved
<1>5. ASSUME NEW i \in Imports, Insert(i) PROVE ClaimInv'
  <2>1. i \notin released /\ pc[i] = "created"
    BY <1>5 DEF LeaseInv, Insert, Shown
  <2>2. \/ entries[key[i]] # None /\ FoundEntry(i)
        \/ Goto(i, "done") /\ UNCHANGED <<claimed, lease>>
        \/ ClaimSource(i, i)
    BY <1>5 DEF Insert
  <2>3. UNCHANGED released
    BY <1>5 DEF Insert
  <2>4. i \notin claimed
    <3>1. \A j \in Imports : lease[j] # i
      BY <2>1, LeasedIsCached, ImportAssumption DEF Early
    <3> QED BY <3>1 DEF ClaimInv
  <2> QED BY <1>2, <2>1, <2>2, <2>3, <2>4, ClaimMade, ClaimMoved DEF Early
<1>6. ASSUME NEW i \in Imports, FinishDirect(i) PROVE ClaimInv'
  BY <1>6, ClaimMoved DEF FinishDirect
<1>7. ASSUME NEW i \in Imports, FindSlot(i) PROVE ClaimInv'
  <2>1. PICK l \in {"live", "slotless"} : Goto(i, l) /\ UNCHANGED <<claimed, lease, released>>
    BY <1>7 DEF FindSlot
  <2> QED BY <1>7, <2>1, ClaimMoved DEF FindSlot
<1>8. ASSUME NEW i \in Imports, BeginDrop(i), pc[i] \in {"live", "slotless"},
             UNCHANGED <<claimed, lease>>
      PROVE  ClaimInv'
  BY <1>8, ClaimReturned DEF BeginDrop
<1>9. ASSUME NEW i \in Imports, ReplaceSlot(i) PROVE ClaimInv'
  <2>1. pc[i] = "slotless" /\ UNCHANGED <<claimed, lease>>
        /\ (BeginDrop(i) \/ (Goto(i, "live") /\ UNCHANGED released))
    BY <1>9 DEF ReplaceSlot
  <2> QED BY <1>8, <2>1, ClaimMoved
<1>10. ASSUME NEW i \in Imports, ReleaseStagedSource(i) PROVE ClaimInv'
  BY <1>10, ClaimReturned DEF ReleaseStagedSource
<1>11. ASSUME NEW i \in Imports, DropImage(i) PROVE ClaimInv'
  BY <1>8, <1>11 DEF DropImage
<1>12. ASSUME NEW i \in Imports, Unclaim(i) PROVE ClaimInv'
  BY <1>12, ClaimEnded
<1>13. ASSUME NEW i \in Imports, Unref(i) PROVE ClaimInv'
  <2>1. i \in released
    BY <1>13 DEF LeaseInv, Unref
  <2>2. ~Claiming(i) /\ ~Claiming(i)'
    BY <1>13, <2>1 DEF Unref, Claiming, TypeOK
  <2>3. \A j \in Imports \ {i} : (Claiming(j)' <=> Claiming(j)) /\ lease'[j] = lease[j]
    BY <1>13 DEF Unref, Goto, Claiming, TypeOK
  <2> QED BY <1>13, <2>2, <2>3, ClaimsKept DEF Unref
<1>14. ASSUME NEW i \in Imports, Unslot(i) PROVE ClaimInv'
  BY <1>14, ClaimMoved DEF Unslot
<1>15. CASE UNCHANGED <<claimed, lease, released, pc>>
  BY <1>15 DEF ClaimInv, Claiming
<1> QED BY <1>1, <1>3, <1>4, <1>5, <1>6, <1>7, <1>9, <1>10, <1>11, <1>12, <1>13, <1>14,
           <1>15 DEF Next, EvictStream, vars

-----------------------------------------------------------------------------
(* Eviction and the cache.                                                   *)

\* A non-empty set of naturals has a least element.
LEMMA LeastExists ==
  ASSUME NEW V, V \subseteq Nat, V # {}
  PROVE  \E x \in V : \A y \in V : x <= y
<1> DEFINE R == StrictSubsetOrdering(Nat)
           S == FiniteSubsetsOf(Nat)
           T == {0..v : v \in V}
<1>1. IsWellFoundedOn(R, S)
  BY FS_StrictSubsetOrderingWellFounded
<1>2. T \subseteq S /\ T # {}
  <2>1. \A v \in V : IsFiniteSet(0..v) /\ 0..v \subseteq Nat
    BY FS_Interval
  <2> QED BY <2>1 DEF FiniteSubsetsOf
<1>3. PICK m \in T : \A u \in T : <<u, m>> \notin R
  <2> HIDE DEF R, S, T
  <2> QED BY <1>1, <1>2, WFMin
<1>4. PICK x \in V : m = 0..x
  OBVIOUS
<1>5. ASSUME NEW y \in V, ~(x <= y) PROVE FALSE
  <2>1. 0..y \subseteq 0..x /\ 0..y # 0..x /\ 0..x \subseteq Nat
    BY <1>5
  <2>2. <<0..y, 0..x>> \in R
    BY <2>1 DEF StrictSubsetOrdering
  <2> QED BY <1>3, <1>4, <2>2
<1> QED BY <1>5

\* The strong count is 1 exactly when no lease refers to the source.
LEMMA StrongCountOne ==
  ASSUME NEW s
  PROVE  StrongCount(s) = 1 <=> \A i \in Imports : lease[i] # s
<1> DEFINE L == {i \in Imports : lease[i] = s}
<1>1. IsFiniteSet(L) /\ Cardinality(L) \in Nat
  BY ImportAssumption, FS_Subset, FS_CardinalityType
<1>2. Cardinality(L) = 0 <=> L = {}
  BY <1>1, FS_EmptySet
<1>3. StrongCount(s) = 1 + Cardinality(L)
  BY DEF StrongCount
<1>4. StrongCount(s) = 1 <=> Cardinality(L) = 0
  BY <1>1, <1>3
<1> QED BY <1>2, <1>4

\* The entries without those under the keys of D.
Without(D) == [k \in Keys |-> IF k \in D THEN None ELSE entries[k]]

IdleKeys == {k \in Keys : Idle(k)}

\* evict_one_idle removes idle entries only: if there is an idle entry, there is
\* a least recently used one.
LEMMA EvictedIdle ==
  ASSUME TypeOK
  PROVE  \E D \in SUBSET IdleKeys : Evicted = Without(D)
<1>1. CASE \A k \in Keys : ~Idle(k)
  <2>1. Evicted = Without({})
    BY <1>1 DEF Evicted, Without, TypeOK
  <2> QED BY <2>1
<1>2. CASE \E k \in Keys : Idle(k)
  <2> DEFINE Oldest(k) == /\ Idle(k)
                          /\ \A l \in Keys :
                               Idle(l) => last_used[entries[k]] <= last_used[entries[l]]
             V == {last_used[entries[k]] : k \in IdleKeys}
             old == CHOOSE k \in Keys : Oldest(k)
  <2>1. \A k \in Keys : Idle(k) => entries[k] \in Imports
    BY DEF Idle, TypeOK
  <2>2. V \subseteq Nat /\ V # {}
    BY <1>2, <2>1 DEF IdleKeys, TypeOK
  <2>3. PICK v \in V : \A w \in V : v <= w
    <3> HIDE DEF V
    <3> QED BY <2>2, LeastExists
  <2>4. PICK k \in IdleKeys : v = last_used[entries[k]]
    BY <2>3
  <2>5. \A l \in Keys : Idle(l) => last_used[entries[k]] <= last_used[entries[l]]
    BY <2>3, <2>4 DEF IdleKeys
  <2>6. k \in Keys /\ Oldest(k)
    BY <2>4, <2>5 DEF IdleKeys
  <2>7. old \in Keys /\ Oldest(old)
    <3> HIDE DEF Oldest
    <3> QED BY <2>6
  <2>8. Evicted = [entries EXCEPT ![old] = None]
    BY <1>2 DEF Evicted
  <2> HIDE DEF old
  <2>9. Evicted = Without({old})
    BY <2>7, <2>8 DEF Without, TypeOK
  <2> QED BY <2>7, <2>9 DEF IdleKeys
<1> QED BY <1>1, <1>2

\* CacheInv of explicit entries.
Stored(e) == {k \in Keys : e[k] # None}

CacheOf(e) ==
  /\ IsFiniteSet(Stored(e)) /\ Cardinality(Stored(e)) <= MaxEntries
  /\ \A k, l \in Stored(e) : k.stream = l.stream /\ k.buffer = l.buffer => k = l
  /\ \A k \in Stored(e) : key[e[k]] = k /\ pc[e[k]] \notin Early
  /\ \A i \in Imports : lease[i] # None => e[key[i]] = lease[i]

LEMMA CacheOfEntries == CacheInv <=> CacheOf(entries)
BY DEF CacheInv, CacheOf, Entries, Stored

\* Removing idle entries keeps it: no lease refers to them.
LEMMA EvictionKeeps ==
  ASSUME TypeOK, KeyInv, LeaseInv, CacheInv, NEW D \in SUBSET IdleKeys
  PROVE  CacheOf(Without(D))
<1> DEFINE e == Without(D)
<1>1. Stored(e) \subseteq Entries /\ \A k \in Stored(e) : e[k] = entries[k]
  BY DEF Stored, Without, Entries
<1>2. IsFiniteSet(Stored(e)) /\ Cardinality(Stored(e)) <= MaxEntries
  <2>1. IsFiniteSet(Entries) /\ Cardinality(Entries) \in Nat
    BY FS_CardinalityType DEF CacheInv
  <2>2. IsFiniteSet(Stored(e)) /\ Cardinality(Stored(e)) \in Nat
        /\ Cardinality(Stored(e)) <= Cardinality(Entries)
    BY <1>1, <2>1, FS_Subset, FS_CardinalityType
  <2>3. Cardinality(Entries) <= MaxEntries
    BY DEF CacheInv
  <2> QED BY <2>1, <2>2, <2>3, ImportAssumption
<1>3. ASSUME NEW i \in Imports, lease[i] # None PROVE e[key[i]] = lease[i]
  <2>1. key[i] \in Entries /\ entries[key[i]] = lease[i]
    BY <1>3, LeasedIsCached
  <2>2. ~Idle(key[i])
    BY <2>1, StrongCountOne DEF Idle
  <2> QED BY <2>1, <2>2 DEF Without, IdleKeys, Entries
<1>4. \A k, l \in Stored(e) : k.stream = l.stream /\ k.buffer = l.buffer => k = l
  BY <1>1 DEF CacheInv
<1>5. \A k \in Stored(e) : key[e[k]] = k /\ pc[e[k]] \notin Early
  BY <1>1 DEF CacheInv
<1> HIDE DEF e
<1> QED BY <1>2, <1>3, <1>4, <1>5 DEF CacheOf, e

\* The entries stay or become those of e, and no lease begins.
LEMMA CacheKept ==
  ASSUME TypeOK, LeaseInv, NEW e \in [Keys -> Imports \cup {None}], CacheOf(e), Forward,
         entries' = e, \A i \in Imports : lease'[i] \in {lease[i], None}
  PROVE  CacheInv'
<1>1. Entries' = Stored(e)
  BY DEF Entries, Stored
<1>2. \A k \in Stored(e) : e[k] \in Imports /\ pc[e[k]] # "idle"
  BY DEF Stored, CacheOf, Early
<1>3. \A k \in Stored(e) : key'[e[k]] = k /\ pc'[e[k]] \notin Early
  BY <1>2 DEF Forward, CacheOf
<1>4. \A i \in Imports : lease'[i] # None => entries'[key'[i]] = lease'[i]
  BY DEF Forward, CacheOf, LeaseInv, Using
<1> QED BY <1>1, <1>3, <1>4 DEF CacheInv, CacheOf

\* A hit: the lease is of the source under the key.
LEMMA CacheHit ==
  ASSUME TypeOK, KeyInv, LeaseInv, CacheInv, NEW i \in Imports, pc[i] # "idle", Forward,
         entries[key[i]] # None, ClaimSource(i, entries[key[i]]), UNCHANGED entries
  PROVE  CacheInv'
<1>1. Entries' = Entries
  BY DEF Entries
<1>2. \A k \in Entries : entries[k] \in Imports /\ pc[entries[k]] # "idle"
  BY DEF Entries, CacheInv, Early, TypeOK
<1>3. \A k \in Entries : key'[entries[k]] = k /\ pc'[entries[k]] \notin Early
  BY <1>2 DEF Forward, CacheInv
<1>4. lease' = [lease EXCEPT ![i] = entries[key[i]]]
  BY DEF ClaimSource
<1>5. \A j \in Imports : lease'[j] # None => entries'[key'[j]] = lease'[j]
  <2>1. key'[i] = key[i]
    BY DEF Forward
  <2>2. \A j \in Imports \ {i} : lease[j] # None => entries[key'[j]] = lease[j]
    BY DEF Forward, CacheInv, LeaseInv, Using
  <2> QED BY <1>4, <2>1, <2>2 DEF TypeOK
<1> QED BY <1>1, <1>3, <1>5 DEF CacheInv

\* A miss: the new source is put under its key, where there was none.
LEMMA CacheMiss ==
  ASSUME TypeOK, KeyInv, LeaseInv, NEW e \in [Keys -> Imports \cup {None}], CacheOf(e),
         Forward, NEW i \in Imports, pc[i] # "idle", e[key[i]] = None,
         \A k \in Stored(e) : ~(k.stream = key[i].stream /\ k.buffer = key[i].buffer),
         Count(e) < MaxEntries, entries' = [e EXCEPT ![key[i]] = i], ClaimSource(i, i)
  PROVE  CacheInv'
<1>1. key[i] \in Keys /\ key'[i] = key[i]
  BY DEF KeyInv, Forward
<1>2. Entries' = Stored(e) \cup {key[i]} /\ key[i] \notin Stored(e)
  BY <1>1, ImportAssumption DEF Entries, Stored
<1>3. \A k \in Stored(e) : entries'[k] = e[k] /\ entries'[key[i]] = i
  BY <1>1, <1>2 DEF Stored
<1>4. IsFiniteSet(Entries') /\ Cardinality(Entries') <= MaxEntries
  <2>1. Count(e) = Cardinality(Stored(e))
    BY DEF Count, Stored
  <2>2. IsFiniteSet(Stored(e)) /\ Cardinality(Stored(e)) \in Nat
    BY FS_CardinalityType DEF CacheOf
  <2>3. IsFiniteSet(Entries') /\ Cardinality(Entries') = Cardinality(Stored(e)) + 1
    BY <1>2, <2>2, FS_AddElement
  <2> QED BY <2>1, <2>2, <2>3, ImportAssumption
<1>5. \A k, l \in Entries' : k.stream = l.stream /\ k.buffer = l.buffer => k = l
  BY <1>2 DEF CacheOf
<1>6. pc'[i] = "sourced" /\ lease' = [lease EXCEPT ![i] = i]
  BY DEF ClaimSource, Goto, TypeOK
<1>7. \A k \in Entries' : key'[entries'[k]] = k /\ pc'[entries'[k]] \notin Early
  <2>1. \A k \in Stored(e) : e[k] \in Imports /\ pc[e[k]] # "idle"
    BY DEF Stored, CacheOf, Early
  <2>2. \A k \in Stored(e) : key'[e[k]] = k /\ pc'[e[k]] \notin Early
    BY <2>1 DEF Forward, CacheOf
  <2>3. entries'[key[i]] = i
    BY <1>1
  <2> QED BY <1>1, <1>2, <1>3, <1>6, <2>2, <2>3 DEF Early
<1>8. \A j \in Imports : lease'[j] # None => entries'[key'[j]] = lease'[j]
  <2>1. entries'[key'[i]] = lease'[i]
    BY <1>1, <1>6 DEF TypeOK
  <2>2. ASSUME NEW j \in Imports \ {i}, lease[j] # None PROVE entries'[key'[j]] = lease[j]
    <3>1. key'[j] = key[j] /\ key[j] \in Keys /\ e[key[j]] = lease[j]
      BY <2>2 DEF Forward, KeyInv, LeaseInv, Using, CacheOf
    <3> QED BY <2>2, <3>1
  <2> QED BY <1>6, <2>1, <2>2 DEF TypeOK
<1> QED BY <1>4, <1>5, <1>7, <1>8 DEF CacheInv

\* The cache stays sound.
LEMMA CacheStep ==
  TypeOK /\ KeyInv /\ LeaseInv /\ ClaimInv /\ CacheInv /\ [Next]_vars => CacheInv'
<1> SUFFICES ASSUME TypeOK, KeyInv, LeaseInv, ClaimInv, CacheInv, [Next]_vars
             PROVE  CacheInv'
  OBVIOUS
<1>1. Forward
  BY ForwardStep
<1>2. CASE UNCHANGED entries /\ \A i \in Imports : lease'[i] \in {lease[i], None}
  <2>1. entries \in [Keys -> Imports \cup {None}]
    BY DEF TypeOK
  <2> QED BY <1>1, <1>2, <2>1, CacheKept, CacheOfEntries
<1>3. ASSUME NEW i \in Imports, pc[i] # "idle", entries[key[i]] # None, FoundEntry(i),
             UNCHANGED entries
      PROVE  CacheInv'
  BY <1>1, <1>2, <1>3, CacheHit DEF FoundEntry
<1>4. ASSUME NEW i \in Imports, Lookup(i) PROVE CacheInv'
  <2>1. pc[i] # "idle"
    BY <1>4 DEF Lookup
  <2>2. \/ entries[key[i]] # None /\ FoundEntry(i) /\ UNCHANGED entries
        \/ UNCHANGED <<entries, lease>>
    BY <1>4 DEF Lookup, FoundEntry
  <2> QED BY <1>2, <1>3, <2>1, <2>2
<1>5. ASSUME NEW i \in Imports, Insert(i) PROVE CacheInv'
  <2> DEFINE kept == IF Count(entries) >= MaxEntries THEN Evicted ELSE entries
  <2>1. pc[i] # "idle" /\ key[i] \in Keys
    BY <1>5 DEF Insert, KeyInv
  <2>2. \/ entries[key[i]] # None /\ FoundEntry(i) /\ UNCHANGED entries
        \/ UNCHANGED <<entries, lease>>
        \/ entries' = kept /\ UNCHANGED lease
        \/ /\ entries[key[i]] = None /\ ~Collides(i) /\ Count(kept) < MaxEntries
           /\ entries' = [kept EXCEPT ![key[i]] = i] /\ ClaimSource(i, i)
    BY <1>5 DEF Insert, FoundEntry
  <2>3. \E D \in SUBSET IdleKeys : kept = Without(D)
    <3>1. entries = Without({})
      BY DEF Without, TypeOK
    <3> QED BY <3>1, EvictedIdle
  <2>4. CacheOf(kept) /\ kept \in [Keys -> Imports \cup {None}]
    BY <2>3, EvictionKeeps DEF Without, TypeOK
  <2>5. /\ \A k \in Stored(kept) : k \in Entries
        /\ entries[key[i]] = None => kept[key[i]] = None
    BY <2>1, <2>3 DEF Without, Stored, Entries
  <2> HIDE DEF kept
  <2>6. CASE entries' = kept /\ UNCHANGED lease
    BY <1>1, <2>4, <2>6, CacheKept
  <2>7. CASE /\ entries[key[i]] = None /\ ~Collides(i) /\ Count(kept) < MaxEntries
             /\ entries' = [kept EXCEPT ![key[i]] = i] /\ ClaimSource(i, i)
    <3>1. ASSUME NEW k \in Stored(kept), k.stream = key[i].stream, k.buffer = key[i].buffer
          PROVE  FALSE
      <4>1. k \in Entries /\ k \in Keys
        BY <2>5, <3>1 DEF Entries
      <4>2. k.topology = key[i].topology
        BY <2>7, <3>1, <4>1 DEF Collides
      <4>3. k = key[i]
        BY <2>1, <3>1, <4>1, <4>2 DEF Keys
      <4> QED BY <2>7, <4>1, <4>3 DEF Entries
    <3> QED BY <1>1, <2>1, <2>4, <2>5, <2>7, <3>1, CacheMiss
  <2> QED BY <1>2, <1>3, <2>1, <2>2, <2>6, <2>7
<1>6. ASSUME NEW s \in Streams, EvictStream(s) PROVE CacheInv'
  <2> DEFINE D == {k \in IdleKeys : k.stream = s}
  <2>1. entries' = Without(D)
    BY <1>6 DEF EvictStream, Without, IdleKeys, Entries, TypeOK, Idle
  <2>2. D \in SUBSET IdleKeys /\ UNCHANGED lease
    BY <1>6 DEF EvictStream
  <2>3. Without(D) \in [Keys -> Imports \cup {None}]
    BY DEF Without, TypeOK
  <2> HIDE DEF D
  <2> QED BY <1>1, <2>1, <2>2, <2>3, CacheKept, EvictionKeeps
<1>7. ASSUME NEW i \in Imports, Unref(i) PROVE CacheInv'
  <2>1. UNCHANGED entries /\ \A j \in Imports : lease'[j] \in {lease[j], None}
    BY <1>7 DEF Unref, TypeOK
  <2> QED BY <1>2, <2>1
<1>8. ASSUME NEW i \in Imports,
             \/ \E k \in Keys : Stamp(i, k)
             \/ CreateSource(i) \/ FinishDirect(i) \/ FindSlot(i) \/ ReplaceSlot(i)
             \/ ReleaseStagedSource(i) \/ DropImage(i) \/ Unclaim(i) \/ Unslot(i)
      PROVE  UNCHANGED <<entries, lease>>
  BY <1>8 DEF Stamp, CreateSource, FinishDirect, FindSlot, ReplaceSlot,
        ReleaseStagedSource, DropImage, Unclaim, Unslot
<1> QED BY <1>2, <1>4, <1>5, <1>6, <1>7, <1>8 DEF Next, vars

-----------------------------------------------------------------------------
(* The output pool.                                                          *)

\* Nothing of the pool changes, and an import with a slot stays where it is
\* shown.
LEMMA PoolKept ==
  ASSUME TypeOK, PoolInv, Forward, NEW i \in Imports,
         \A j \in Imports \ {i} : pc'[j] = pc[j],
         pc[i] \in Shown => pc'[i] \in Shown,
         pc[i] = "done" => pc'[i] = "done",
         UNCHANGED <<slots, slot_claimed, output>>
  PROVE  PoolInv'
<1>1. \A s \in slots : s \in Imports /\ pc[s] # "idle"
  BY DEF PoolInv, Shown, TypeOK
<1>2. \A s \in slots : key'[s] = key[s]
  BY <1>1 DEF Forward
<1>3. \A j \in Imports : output[j] # None => key'[j] = key[j]
  BY DEF PoolInv, Shown, Forward
<1>4. \A s \in slots : pc'[s] \in Shown \cup {"done"}
  BY <1>1 DEF PoolInv
<1>5. \A j \in Imports : output[j] # None => pc'[j] \in Shown
  BY DEF PoolInv
<1>6. (\A j \in Imports :
         output[j] # None => output[j] \in slots /\ Shape(output[j]) = Shape(j))'
  BY <1>2, <1>3 DEF PoolInv, Shape
<1> QED BY <1>4, <1>5, <1>6 DEF PoolInv

\* An import without a slot takes slot s, which no image has.
LEMMA SlotTaken ==
  ASSUME TypeOK, PoolInv, Forward, NEW i \in Imports, NEW s \in Imports, NEW P \in SUBSET slots,
         pc[i] \notin Shown, pc[i] # "idle", Goto(i, "live"), UNCHANGED key,
         s \in slots \ slot_claimed \/ s = i, Shape(s) = Shape(i),
         \A j \in Imports : output[j] # None => output[j] \in P /\ output[j] # s,
         slots' = P \cup {s}, Cardinality(slots') <= MaxSlots,
         slot_claimed' = slot_claimed \cup {s}, output' = [output EXCEPT ![i] = s]
  PROVE  PoolInv'
<1>1. output[i] = None
  BY DEF PoolInv
<1>2. pc'[i] = "live" /\ \A j \in Imports \ {i} : pc'[j] = pc[j]
  BY DEF Goto, TypeOK
<1>3. output'[i] = s /\ \A j \in Imports \ {i} : output'[j] = output[j]
  BY DEF TypeOK
<1>5. \A j \in slots' : pc'[j] \in Shown \cup {"done"}
  BY <1>2 DEF PoolInv, Shown, TypeOK
<1>6. \A j \in Imports : output'[j] # None => pc'[j] \in Shown
  BY <1>2, <1>3 DEF PoolInv, Shown
<1>7. \A j, k \in Imports : output'[j] # None /\ output'[j] = output'[k] => j = k
  BY <1>3 DEF PoolInv
<1>8. slot_claimed' = {output'[j] : j \in Imports} \ {None}
  BY <1>1, <1>3, ImportAssumption DEF PoolInv
<1>9. (\A j \in Imports :
         output[j] # None => output[j] \in slots /\ Shape(output[j]) = Shape(j))'
  BY <1>3 DEF PoolInv, Shape
<1> QED BY <1>5, <1>6, <1>7, <1>8, <1>9 DEF PoolInv

\* The slots without one that nobody has.
LEMMA SlotDropped ==
  ASSUME TypeOK, PoolInv, NEW P \in SUBSET slots, slot_claimed \subseteq P
  PROVE  /\ IsFiniteSet(P) /\ Cardinality(P) <= MaxSlots
         /\ \A j \in Imports : output[j] # None => output[j] \in P
<1>1. IsFiniteSet(slots)
  BY ImportAssumption, FS_Subset DEF TypeOK
<1>2. IsFiniteSet(P) /\ Cardinality(P) \in Nat /\ Cardinality(slots) \in Nat
      /\ Cardinality(P) <= Cardinality(slots)
  BY <1>1, FS_Subset, FS_CardinalityType
<1>3. Cardinality(slots) <= MaxSlots
  BY DEF PoolInv
<1>4. Cardinality(P) <= MaxSlots
  BY <1>2, <1>3, ImportAssumption
<1>5. \A j \in Imports : output[j] # None => output[j] \in P
  BY DEF PoolInv
<1> QED BY <1>2, <1>4, <1>5

\* The pool that PoolClaim keeps has room for one more slot.
LEMMA RoomMade ==
  ASSUME TypeOK, PoolInv, NEW i \in Imports,
         NEW kept \in IF Cardinality(slots) < MaxSlots THEN {slots}
                      ELSE {slots \ {s} : s \in Replaced(i)}
  PROVE  /\ kept \in SUBSET slots /\ slot_claimed \subseteq kept
         /\ Cardinality(kept \cup {i}) <= MaxSlots
<1>1. IsFiniteSet(slots) /\ Cardinality(slots) \in Nat /\ Cardinality(slots) <= MaxSlots
  BY ImportAssumption, FS_Subset, FS_CardinalityType DEF TypeOK, PoolInv
<1>2. slot_claimed \subseteq slots
  BY DEF PoolInv
<1>3. \A T : IsFiniteSet(T) =>
        Cardinality(T) \in Nat /\ IsFiniteSet(T \cup {i})
        /\ Cardinality(T \cup {i}) \in Nat /\ Cardinality(T \cup {i}) <= Cardinality(T) + 1
  <2> TAKE T
  <2> HAVE IsFiniteSet(T)
  <2>1. Cardinality(T) \in Nat
    BY FS_CardinalityType
  <2>2. IsFiniteSet(T \cup {i})
        /\ Cardinality(T \cup {i}) = IF i \in T THEN Cardinality(T) ELSE Cardinality(T) + 1
    BY FS_AddElement
  <2> QED BY <2>1, <2>2
<1>4. CASE Cardinality(slots) < MaxSlots
  <2>1. kept = slots
    BY <1>4
  <2>2. Cardinality(slots \cup {i}) \in Nat
        /\ Cardinality(slots \cup {i}) <= Cardinality(slots) + 1
    BY <1>1, <1>3
  <2>3. Cardinality(slots \cup {i}) <= MaxSlots
    BY <1>1, <1>4, <2>2, ImportAssumption
  <2> QED BY <1>2, <2>1, <2>3
<1>5. CASE ~(Cardinality(slots) < MaxSlots)
  <2>1. PICK s \in Replaced(i) : kept = slots \ {s}
    BY <1>5
  <2>2. s \in slots /\ s \notin slot_claimed
    BY DEF Replaced
  <2>3. IsFiniteSet(kept) /\ Cardinality(kept) = Cardinality(slots) - 1
    BY <1>1, <2>1, <2>2, FS_RemoveElement
  <2>4. Cardinality(kept) \in Nat /\ Cardinality(kept \cup {i}) \in Nat
        /\ Cardinality(kept \cup {i}) <= Cardinality(kept) + 1
    BY <1>3, <2>3
  <2>5. Cardinality(kept \cup {i}) <= MaxSlots
    BY <1>1, <2>3, <2>4, ImportAssumption
  <2> QED BY <1>2, <2>1, <2>2, <2>5
<1> QED BY <1>4, <1>5

\* The pool stays bounded and its slots exclusive.
LEMMA PoolStep ==
  TypeOK /\ KeyInv /\ LeaseInv /\ PoolInv /\ [Next]_vars => PoolInv'
<1> SUFFICES ASSUME TypeOK, KeyInv, LeaseInv, PoolInv, [Next]_vars
             PROVE  PoolInv'
  OBVIOUS
<1>0. Forward
  BY ForwardStep
<1>1. ASSUME NEW i \in Imports, NEW l, Goto(i, l), UNCHANGED <<slots, slot_claimed, output>>,
             pc[i] \in Shown => l \in Shown, pc[i] # "done"
      PROVE  PoolInv'
  <2>1. pc'[i] = l /\ \A j \in Imports \ {i} : pc'[j] = pc[j]
    BY <1>1 DEF Goto, TypeOK
  <2> QED BY <1>0, <1>1, <2>1, PoolKept
<1>2. ASSUME NEW i \in Imports,
             \/ \E k \in Keys : Stamp(i, k)
             \/ Lookup(i) \/ CreateSource(i) \/ Insert(i) \/ FinishDirect(i)
      PROVE  PoolInv'
  <2>1. \E l : Goto(i, l)
    BY <1>2 DEF Stamp, Lookup, CreateSource, Insert, FinishDirect, FoundEntry, ClaimSource
  <2>2. UNCHANGED <<slots, slot_claimed, output>> /\ pc[i] \notin Shown /\ pc[i] # "done"
    BY <1>2 DEF Stamp, Lookup, CreateSource, Insert, FinishDirect, Shown
  <2> QED BY <1>1, <2>1, <2>2
<1>3. ASSUME NEW i \in Imports, FindSlot(i) PROVE PoolInv'
  <2>1. pc[i] = "sourced" /\ UNCHANGED <<slots, key>>
    BY <1>3 DEF FindSlot
  <2>2. CASE Goto(i, "slotless") /\ UNCHANGED <<slot_claimed, output>>
    BY <1>1, <2>1, <2>2 DEF Shown
  <2>3. ASSUME NEW s \in IdleSlots(i), slot_claimed' = slot_claimed \cup {s},
               output' = [output EXCEPT ![i] = s], Goto(i, "live")
        PROVE  PoolInv'
    <3>1. s \in slots \ slot_claimed /\ Shape(s) = Shape(i) /\ s \in Imports
      BY DEF IdleSlots, TypeOK
    <3>2. \A j \in Imports : output[j] # None => output[j] \in slots /\ output[j] # s
      BY <3>1 DEF PoolInv
    <3>3. slots' = slots \cup {s} /\ Cardinality(slots') <= MaxSlots
      BY <2>1, <3>1 DEF PoolInv
    <3> QED BY <1>0, <2>1, <2>3, <3>1, <3>2, <3>3, SlotTaken DEF Shown
  <2> QED BY <1>3, <2>2, <2>3 DEF FindSlot
<1>4. ASSUME NEW i \in Imports, BeginDrop(i), pc[i] \in {"live", "slotless"},
             UNCHANGED <<slots, slot_claimed, output>>
      PROVE  PoolInv'
  BY <1>1, <1>4 DEF BeginDrop, Shown
<1>5. ASSUME NEW i \in Imports, ReplaceSlot(i) PROVE PoolInv'
  <2>1. pc[i] = "slotless" /\ UNCHANGED key
    BY <1>5 DEF ReplaceSlot
  <2>2. CASE BeginDrop(i) /\ UNCHANGED <<slots, slot_claimed, output>>
    BY <1>4, <2>1, <2>2
  <2>3. ASSUME NEW kept \in IF Cardinality(slots) < MaxSlots THEN {slots}
                            ELSE {slots \ {s} : s \in Replaced(i)},
               slots' = kept, BeginDrop(i), UNCHANGED <<slot_claimed, output>>
        PROVE  PoolInv'
    <3>1. kept \in SUBSET slots /\ slot_claimed \subseteq kept
      BY RoomMade
    <3>2. /\ Cardinality(kept) <= MaxSlots
          /\ \A j \in Imports : output[j] # None => output[j] \in kept
      BY <3>1, SlotDropped
    <3>3. pc' = [pc EXCEPT ![i] = IF i \in released THEN "unref" ELSE "unclaim"]
      BY <2>3 DEF BeginDrop, Goto
    <3>4. \A s \in slots : pc'[s] \in Shown \cup {"done"}
      BY <2>1, <3>3 DEF PoolInv, Shown, TypeOK
    <3>5. \A j \in Imports : output[j] # None => pc'[j] \in Shown
      BY <2>1, <3>3 DEF PoolInv, Shown, TypeOK
    <3> QED BY <2>1, <2>3, <3>1, <3>2, <3>4, <3>5 DEF PoolInv, Shape
  <2>4. ASSUME NEW kept \in IF Cardinality(slots) < MaxSlots THEN {slots}
                            ELSE {slots \ {s} : s \in Replaced(i)},
               slots' = kept \cup {i}, slot_claimed' = slot_claimed \cup {i},
               output' = [output EXCEPT ![i] = i], Goto(i, "live")
        PROVE  PoolInv'
    <3>1. /\ kept \in SUBSET slots /\ slot_claimed \subseteq kept
          /\ Cardinality(kept \cup {i}) <= MaxSlots
      BY RoomMade
    <3>2. \A j \in Imports : output[j] # None => output[j] \in kept
      BY <3>1, SlotDropped
    <3>3. \A j \in Imports : output[j] # None => output[j] # i
      BY <2>1 DEF PoolInv, Shown
    <3> QED BY <1>0, <2>1, <2>4, <3>1, <3>2, <3>3, SlotTaken DEF Shown
  <2> QED BY <1>5, <2>2, <2>3, <2>4 DEF ReplaceSlot
<1>6. ASSUME NEW i \in Imports, ReleaseStagedSource(i) PROVE PoolInv'
  BY <1>1, <1>6 DEF ReleaseStagedSource, Shown
<1>7. ASSUME NEW i \in Imports, DropImage(i) PROVE PoolInv'
  BY <1>4, <1>7 DEF DropImage
<1>8. ASSUME NEW i \in Imports, Unclaim(i) PROVE PoolInv'
  <2>1. PICK l \in {"live", "unref"} : Goto(i, l)
    BY <1>8 DEF Unclaim
  <2>2. UNCHANGED <<slots, slot_claimed, output>> /\ pc[i] # "done"
    BY <1>8 DEF Unclaim
  <2> QED BY <1>1, <2>1, <2>2 DEF Shown
<1>9. ASSUME NEW i \in Imports, Unref(i) PROVE PoolInv'
  <2>1. pc[i] = "unref" /\ UNCHANGED <<slots, slot_claimed, output, key>>
    BY <1>9 DEF Unref
  <2>2. CASE output[i] # None
    BY <1>1, <1>9, <2>1, <2>2 DEF Unref, Shown
  <2>3. CASE output[i] = None
    <3>1. pc' = [pc EXCEPT ![i] = "done"]
      BY <1>9, <2>3 DEF Unref, Goto
    <3>2. \A s \in slots : pc'[s] \in Shown \cup {"done"}
      BY <3>1 DEF PoolInv, TypeOK
    <3>3. \A j \in Imports : output[j] # None => pc'[j] \in Shown
      BY <2>3, <3>1 DEF PoolInv, TypeOK
    <3> QED BY <2>1, <3>2, <3>3 DEF PoolInv, Shape
  <2> QED BY <2>2, <2>3
<1>10. ASSUME NEW i \in Imports, Unslot(i) PROVE PoolInv'
  <2>1. /\ pc[i] = "unslot" /\ UNCHANGED <<slots, key>>
        /\ slot_claimed' = slot_claimed \ {output[i]}
        /\ output' = [output EXCEPT ![i] = None] /\ pc' = [pc EXCEPT ![i] = "done"]
    BY <1>10 DEF Unslot, Goto
  <2>2. output'[i] = None /\ \A j \in Imports \ {i} : output'[j] = output[j]
    BY <2>1 DEF TypeOK
  <2>3. pc'[i] = "done" /\ \A j \in Imports \ {i} : pc'[j] = pc[j]
    BY <2>1 DEF TypeOK
  <2>4. \A s \in slots : pc'[s] \in Shown \cup {"done"}
    BY <2>3 DEF PoolInv, TypeOK
  <2>5. \A j \in Imports : output'[j] # None => pc'[j] \in Shown
    BY <2>2, <2>3 DEF PoolInv
  <2>6. slot_claimed' = {output'[j] : j \in Imports} \ {None}
    BY <2>1, <2>2 DEF PoolInv
  <2>7. \A j, k \in Imports : output'[j] # None /\ output'[j] = output'[k] => j = k
    BY <2>2 DEF PoolInv
  <2>8. (\A j \in Imports :
           output[j] # None => output[j] \in slots /\ Shape(output[j]) = Shape(j))'
    BY <2>1, <2>2 DEF PoolInv, Shape
  <2> QED BY <2>1, <2>4, <2>5, <2>6, <2>7, <2>8 DEF PoolInv
<1>11. CASE UNCHANGED <<slots, slot_claimed, output, pc, key>>
  BY <1>11 DEF PoolInv, Shape
<1> QED BY <1>2, <1>3, <1>5, <1>6, <1>7, <1>8, <1>9, <1>10, <1>11 DEF Next, EvictStream, vars

-----------------------------------------------------------------------------
(* The theorems.                                                             *)

LEMMA InitInv == Init => IInv
<1> SUFFICES ASSUME Init PROVE IInv
  OBVIOUS
<1>1. TypeOK /\ KeyInv /\ LeaseInv /\ ClaimInv
  BY DEF Init, TypeOK, States, KeyInv, LeaseInv, Using, ClaimInv, Claiming
<1>2. CacheInv
  <2>1. Entries = {}
    BY DEF Init, Entries
  <2> QED BY <1>1, <2>1, FS_EmptySet, ImportAssumption DEF CacheInv, Init
<1>3. PoolInv
  <2>1. slots = {} /\ \A i \in Imports : output[i] = None
    BY DEF Init
  <2>2. slot_claimed = {output[i] : i \in Imports} \ {None}
    BY <2>1 DEF Init
  <2> QED BY <2>1, <2>2, FS_EmptySet, ImportAssumption DEF PoolInv
<1> QED BY <1>1, <1>2, <1>3 DEF IInv

LEMMA InvStep == IInv /\ [Next]_vars => IInv'
BY TypeStep, KeyStep, LeaseStep, ClaimStep, CacheStep, PoolStep DEF IInv

LEMMA ImportInvariant == Spec => []IInv
BY InitInv, InvStep, PTL DEF Spec

\* A source has at most one claimant and `claimed' is exact, whatever threads
\* import, return, drop and evict at the same time, for any number of imports
\* (claim_idle_source, PackedSourceLease::release).
THEOREM ClaimsExact == Spec => []ClaimExact
<1>1. IInv => ClaimExact
  <2> SUFFICES ASSUME IInv, NEW s \in Imports
               PROVE  /\ Cardinality(Claimants(s)) <= 1
                      /\ s \in claimed <=> Claimants(s) # {}
    BY DEF ClaimExact
  <2>1. None \notin Imports /\ \A i \in Claimants(s) : Claiming(i) /\ lease[i] = s
    BY ImportAssumption DEF Claimants, Claiming
  <2>2. s \in claimed <=> Claimants(s) # {}
    BY <2>1 DEF IInv, ClaimInv, Claimants, Claiming
  <2>3. CASE Claimants(s) = {}
    BY <2>2, <2>3, FS_EmptySet
  <2>4. CASE Claimants(s) # {}
    <3>1. PICK i \in Claimants(s) : TRUE
      BY <2>4
    <3>2. Claimants(s) = {i}
      BY <2>1, <3>1 DEF IInv, ClaimInv, Claimants
    <3> QED BY <2>2, <3>2, FS_Singleton
  <2> QED BY <2>3, <2>4
<1> QED BY <1>1, ImportInvariant, PTL

\* The cache is bounded, has an identity of a stream under one key, and holds the
\* source of every lease, for any limit and any number of streams, buffers and
\* topologies (claim_cached_packed_source, evict_one_idle).
THEOREM CacheAlwaysSound == Spec => []CacheSound
<1>1. IInv => CacheSound
  BY DEF IInv, CacheInv, CacheSound
<1> QED BY <1>1, ImportInvariant, PTL

\* An output slot is one image's while the image exists, for any pool size
\* (PackedOutputPool::claim, PackedOutputLease::release).
THEOREM SlotsAlwaysExclusive == Spec => []SlotsExclusive
<1>1. IInv => SlotsExclusive
  BY DEF IInv, PoolInv, SlotsExclusive
<1> QED BY <1>1, ImportInvariant, PTL

\* evict_stream answers Ok exactly if no image of the stream refers to a cached
\* source, also if other threads claimed or released just before
\* (evict_packed_stream, evict_nv12_stream).
THEOREM EvictionAlwaysHonest == Spec => EvictionHonest
<1>1. ASSUME IInv, NEW s \in Streams, EvictStream(s)
      PROVE  answer'[s] = "ok" <=> {i \in Imports : lease'[i] # None /\ key'[i].stream = s} = {}
  <2>1. TypeOK /\ KeyInv /\ LeaseInv /\ ClaimInv /\ CacheInv
    BY <1>1 DEF IInv
  <2> DEFINE kept == {k \in Entries : k.stream # s \/ ~Idle(k)}
  <2>2. /\ answer' = [answer EXCEPT ![s] = IF \E k \in kept : k.stream = s THEN "busy" ELSE "ok"]
        /\ UNCHANGED <<lease, key>>
    BY <1>1 DEF EvictStream
  <2>3. answer'[s] = "ok" <=> ~\E k \in kept : k.stream = s
    BY <2>1, <2>2 DEF TypeOK
  <2>4. ASSUME NEW k \in kept, k.stream = s
        PROVE  \E i \in Imports : lease[i] # None /\ key[i].stream = s
    <3>1. k \in Entries /\ entries[k] \in Imports /\ ~Idle(k) /\ k \in Keys
      BY <2>1, <2>4 DEF Entries, TypeOK
    <3>2. PICK i \in Imports : lease[i] = entries[k]
      BY <2>1, <3>1, StrongCountOne DEF Idle, ClaimInv, Entries
    <3>3. lease[i] # None
      BY <3>1, <3>2 DEF Entries
    <3>4. key[i] \in Entries /\ entries[key[i]] = entries[k]
      BY <2>1, <3>2, <3>3, LeasedIsCached
    <3>5. key[i] = k
      BY <2>1, <3>1, <3>4 DEF CacheInv
    <3> QED BY <2>4, <3>3, <3>5
  <2>5. ASSUME NEW i \in Imports, lease[i] # None, key[i].stream = s
        PROVE  key[i] \in kept
    <3>1. key[i] \in Entries /\ entries[key[i]] = lease[i]
      BY <2>1, <2>5, LeasedIsCached
    <3>2. ~Idle(key[i])
      BY <3>1, StrongCountOne DEF Idle
    <3> QED BY <3>1, <3>2
  <2> HIDE DEF kept
  <2> QED BY <2>2, <2>3, <2>4, <2>5
<1>2. IInv /\ [Next]_vars =>
        [\A s \in Streams :
           LET users == {i \in Imports : lease'[i] # None /\ key'[i].stream = s}
           IN EvictStream(s) => (answer'[s] = "ok" <=> users = {})]_vars
  BY <1>1
<1> QED BY <1>2, ImportInvariant, PTL DEF Spec, EvictionHonest
=============================================================================
