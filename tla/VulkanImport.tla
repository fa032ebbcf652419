---------------------------- MODULE VulkanImport ----------------------------
(***************************************************************************)
(* VulkanDmaBufImporter (rust/video-interop/src/vulkan/mod.rs): the cache  *)
(* of imported DMA-BUF sources and the pool of renderer-native output      *)
(* slots, shared by threads that import, return sources early, drop images *)
(* and evict streams at the same time.  The packed and the NV12 halves of  *)
(* the importer run the same algorithm on separate state; the module is    *)
(* one half.                                                               *)
(*                                                                         *)
(* A critical section of a cache or pool mutex is one step, except         *)
(* PoolClaim, which looks for a slot twice while leases are given back     *)
(* without the mutex.  Every atomic swap of a lease is a step of its own.  *)
(* A member of Imports is one import call and the image it returns; the    *)
(* source and the slot that it created, if any, have its name.  A call     *)
(* that validation refuses touches no state and is left out, and so are    *)
(* statistics.                                                             *)
(***************************************************************************)
EXTENDS Integers, FiniteSets

CONSTANTS
  Imports,      \* import calls
  Streams,      \* stream incarnations
  Buffers,      \* DMA-BUF identities (device and inode)
  Topologies,   \* records: slot shape, layout, and whether the strategy is staged
  None,
  MaxEntries,   \* max_entries of the source cache
  MaxSlots      \* max_slots of the output pool

ASSUME ImportAssumption ==
  /\ IsFiniteSet(Imports) /\ None \notin Imports
  /\ \A tp \in Topologies : tp.staged \in BOOLEAN
  /\ MaxEntries \in Nat /\ MaxSlots \in Nat

Keys == [stream : Streams, buffer : Buffers, topology : Topologies]

VARIABLES
  clock,         \* source_cache_clock
  entries,       \* the cache: the source of each key, or None
  claimed,       \* sources whose `claimed' is true
  last_used,
  slots,         \* the pool
  slot_claimed,  \* slots whose `claimed' is true
  pool_lock,     \* the import inside the second half of PoolClaim, or None
  pc,            \* where an import, and then its image, is
  key,           \* the key it imports
  generation,    \* the clock value it drew
  lease,         \* the source its lease refers to, or None
  released,      \* imports whose source lease has been released
  output,        \* the slot it claimed, or None
  answer         \* what evict_stream last returned for a stream

cacheVars == <<entries, claimed, last_used>>
poolVars  == <<slots, slot_claimed, pool_lock>>
callVars  == <<pc, key, generation, lease, released, output>>
vars == <<clock, cacheVars, poolVars, callVars, answer>>

\* "missed"   no entry: the allocation is being created, without the lock
\* "sourced"  has its source lease     "slotless"  in PoolClaim, no idle match
\* "live"     the image exists         "returning" in release_staged_source
\* "unclaim", "unref", "unslot"        the leases are being dropped
States == {"idle", "stamped", "missed", "created", "sourced", "slotless", "live",
           "returning", "unclaim", "unref", "unslot", "done"}

TypeOK ==
  /\ clock \in Nat
  /\ entries \in [Keys -> Imports \cup {None}]
  /\ claimed \subseteq Imports /\ last_used \in [Imports -> Nat]
  /\ slots \subseteq Imports /\ slot_claimed \subseteq Imports
  /\ pool_lock \in Imports \cup {None}
  /\ pc \in [Imports -> States] /\ key \in [Imports -> Keys \cup {None}]
  /\ generation \in [Imports -> Nat]
  /\ lease \in [Imports -> Imports \cup {None}] /\ released \subseteq Imports
  /\ output \in [Imports -> Imports \cup {None}]
  /\ answer \in [Streams -> {"none", "ok", "busy"}]

Init ==
  /\ clock = 0
  /\ entries = [k \in Keys |-> None] /\ claimed = {}
  /\ last_used = [s \in Imports |-> 0]
  /\ slots = {} /\ slot_claimed = {} /\ pool_lock = None
  /\ pc = [i \in Imports |-> "idle"] /\ key = [i \in Imports |-> None]
  /\ generation = [i \in Imports |-> 0]
  /\ lease = [i \in Imports |-> None] /\ released = {}
  /\ output = [i \in Imports |-> None]
  /\ answer = [s \in Streams |-> "none"]

Goto(i, l) == pc' = [pc EXCEPT ![i] = l]

Entries == {k \in Keys : entries[k] # None}

-----------------------------------------------------------------------------
(* claim_cached_packed_source and claim_cached_source.                     *)

\* The clock is drawn before the cache is locked.
Stamp(i, k) ==
  /\ pc[i] = "idle"
  /\ key' = [key EXCEPT ![i] = k]
  /\ generation' = [generation EXCEPT ![i] = clock]
  /\ clock' = clock + 1
  /\ Goto(i, "stamped")
  /\ UNCHANGED <<cacheVars, poolVars, lease, released, output, answer>>

\* CachedPackedSource::claim of source s for import i.
ClaimSource(i, s) ==
  /\ claimed' = claimed \cup {s}
  /\ last_used' = [last_used EXCEPT ![s] = generation[i]]
  /\ lease' = [lease EXCEPT ![i] = s]
  /\ Goto(i, "sourced")

\* The key is cached: a hit, or the source is still claimed.
FoundEntry(i) ==
  LET s == entries[key[i]]
  IN \/ s \notin claimed /\ ClaimSource(i, s) /\ UNCHANGED entries
     \/ s \in claimed /\ Goto(i, "done") /\ UNCHANGED <<cacheVars, lease>>

Collides(i) ==
  \E k \in Entries : /\ k.stream = key[i].stream /\ k.buffer = key[i].buffer
                     /\ k.topology # key[i].topology

\* The first critical section.
Lookup(i) ==
  /\ pc[i] = "stamped"
  /\ \/ entries[key[i]] # None /\ FoundEntry(i)
     \/ /\ entries[key[i]] = None
        /\ Goto(i, IF Collides(i) THEN "done" ELSE "missed")
        /\ UNCHANGED <<cacheVars, lease>>
  /\ UNCHANGED <<clock, poolVars, key, generation, released, output, answer>>

\* The allocation is created, or fails to be.
CreateSource(i) ==
  /\ pc[i] = "missed"
  /\ Goto(i, "created") \/ Goto(i, "done")
  /\ UNCHANGED <<clock, cacheVars, poolVars, key, generation, lease, released,
                 output, answer>>

\* Arc::strong_count of a cached source.
StrongCount(s) == 1 + Cardinality({i \in Imports : lease[i] = s})

\* Mutant: the references of released leases are not looked at.
IdleUnclaimed(k) == entries[k] # None /\ entries[k] \notin claimed

\* An entry that may be evicted.
Idle(k) ==
  /\ entries[k] # None
  /\ entries[k] \notin claimed /\ StrongCount(entries[k]) = 1

\* evict_one_idle: the entries that remain, the least recently used idle one
\* having been removed.
Evicted ==
  IF \A k \in Keys : ~Idle(k) THEN entries
  ELSE LET old == CHOOSE k \in Keys :
                    /\ Idle(k)
                    /\ \A l \in Keys :
                         Idle(l) => last_used[entries[k]] <= last_used[entries[l]]
       IN [entries EXCEPT ![old] = None]

Count(e) == Cardinality({k \in Keys : e[k] # None})

\* Mutant: the entry is inserted without a second look at the cache.
InsertUnchecked(i) ==
  /\ pc[i] = "created"
  /\ Count(entries) < MaxEntries
  /\ entries' = [entries EXCEPT ![key[i]] = i]
  /\ ClaimSource(i, i)
  /\ UNCHANGED <<clock, poolVars, key, generation, released, output, answer>>

\* The second critical section: the cache may have changed meanwhile.
Insert(i) ==
  /\ pc[i] = "created"
  /\ \/ entries[key[i]] # None /\ FoundEntry(i)
     \/ /\ entries[key[i]] = None /\ Collides(i)
        /\ Goto(i, "done")
        /\ UNCHANGED <<cacheVars, lease>>
     \/ /\ entries[key[i]] = None /\ ~Collides(i)
        /\ LET kept == IF Count(entries) >= MaxEntries THEN Evicted ELSE entries
           IN \/ /\ Count(kept) >= MaxEntries
                 /\ entries' = kept
                 /\ Goto(i, "done")
                 /\ UNCHANGED <<claimed, last_used, lease>>
              \/ /\ Count(kept) < MaxEntries
                 /\ entries' = [kept EXCEPT ![key[i]] = i]
                 /\ ClaimSource(i, i)
  /\ UNCHANGED <<clock, poolVars, key, generation, released, output, answer>>

-----------------------------------------------------------------------------
(* Leases are given back.                                                  *)

\* Mutant: the lease forgets that it was released.
BeginDropAgain(i) == released' = released /\ Goto(i, "unclaim")

\* Drop of a source lease: release() unless it was released before.
BeginDrop(i) ==
  /\ released' = released \cup {i}
  /\ Goto(i, IF i \in released THEN "unref" ELSE "unclaim")

\* The swap of source.claimed in release().
Unclaim(i) ==
  /\ pc[i] \in {"unclaim", "returning"}
  /\ claimed' = claimed \ {lease[i]}
  /\ Goto(i, IF pc[i] = "returning" THEN "live" ELSE "unref")
  /\ UNCHANGED <<clock, entries, last_used, poolVars, key, generation, lease,
                 released, output, answer>>

\* The lease's Arc is dropped.
Unref(i) ==
  /\ pc[i] = "unref"
  /\ lease' = [lease EXCEPT ![i] = None]
  /\ Goto(i, IF output[i] = None THEN "done" ELSE "unslot")
  /\ UNCHANGED <<clock, cacheVars, poolVars, key, generation, released, output, answer>>

\* Drop of the output lease.
Unslot(i) ==
  /\ pc[i] = "unslot"
  /\ slot_claimed' = slot_claimed \ {output[i]}
  /\ output' = [output EXCEPT ![i] = None]
  /\ Goto(i, "done")
  /\ UNCHANGED <<clock, cacheVars, slots, pool_lock, key, generation, lease,
                 released, answer>>

\* release_staged_source: the producer gets its buffer back while the output
\* stays displayed.
ReleaseStagedSource(i) ==
  /\ pc[i] = "live" /\ key[i].topology.staged /\ i \notin released
  /\ released' = released \cup {i}
  /\ Goto(i, "returning")
  /\ UNCHANGED <<clock, cacheVars, poolVars, key, generation, lease, output, answer>>

DropImage(i) ==
  /\ pc[i] = "live"
  /\ BeginDrop(i)
  /\ UNCHANGED <<clock, cacheVars, poolVars, key, generation, lease, output, answer>>

-----------------------------------------------------------------------------
(* The output pool.                                                        *)

\* A direct image needs no slot.
FinishDirect(i) ==
  /\ pc[i] = "sourced" /\ ~key[i].topology.staged
  /\ Goto(i, "live")
  /\ UNCHANGED <<clock, cacheVars, poolVars, key, generation, lease, released,
                 output, answer>>

Shape(s) == key[s].topology.shape

\* The slots that PoolClaim may take: compare_exchange on slots of the shape.
IdleSlots(i) == {s \in slots : Shape(s) = Shape(i) /\ s \notin slot_claimed}

\* PackedOutputPool::claim and Nv12OutputPool::claim, the first search.
FindSlot(i) ==
  /\ pc[i] = "sourced" /\ key[i].topology.staged /\ pool_lock = None
  /\ \/ \E s \in IdleSlots(i) :
          /\ slot_claimed' = slot_claimed \cup {s}
          /\ output' = [output EXCEPT ![i] = s]
          /\ Goto(i, "live")
          /\ UNCHANGED pool_lock
     \/ /\ IdleSlots(i) = {}
        /\ pool_lock' = i
        /\ Goto(i, "slotless")
        /\ UNCHANGED <<slot_claimed, output>>
  /\ UNCHANGED <<clock, cacheVars, slots, key, generation, lease, released, answer>>

\* Mutant: any slot of another shape is replaced.
ReplacedAny(i) == {s \in slots : Shape(s) # Shape(i)}

\* A full pool gives up an idle slot of another shape.
Replaced(i) == {s \in slots : s \notin slot_claimed /\ Shape(s) # Shape(i)}

\* The pool after the second search; the slot may be in vain if the new one
\* cannot be created.
ReplaceSlot(i) ==
  /\ pc[i] = "slotless" /\ pool_lock = i
  /\ pool_lock' = None
  /\ \/ /\ Cardinality(slots) >= MaxSlots /\ Replaced(i) = {}
        /\ BeginDrop(i)
        /\ UNCHANGED <<slots, slot_claimed, output>>
     \/ \E kept \in IF Cardinality(slots) < MaxSlots THEN {slots}
                    ELSE {slots \ {s} : s \in Replaced(i)} :
          \/ /\ slots' = kept \cup {i}
             /\ slot_claimed' = slot_claimed \cup {i}
             /\ output' = [output EXCEPT ![i] = i]
             /\ Goto(i, "live")
             /\ UNCHANGED released
          \/ /\ slots' = kept
             /\ BeginDrop(i)
             /\ UNCHANGED <<slot_claimed, output>>
  /\ UNCHANGED <<clock, cacheVars, key, generation, lease, answer>>

-----------------------------------------------------------------------------
\* evict_packed_stream and evict_nv12_stream
EvictStream(s) ==
  /\ LET kept == {k \in Entries : k.stream # s \/ ~Idle(k)}
     IN /\ entries' = [k \in Keys |-> IF k \in kept THEN entries[k] ELSE None]
        /\ answer' = [answer EXCEPT ![s] =
                        IF \E k \in kept : k.stream = s THEN "busy" ELSE "ok"]
  /\ UNCHANGED <<clock, claimed, last_used, poolVars, callVars>>

Next ==
  \/ \E i \in Imports :
        \/ \E k \in Keys : Stamp(i, k)
        \/ Lookup(i) \/ CreateSource(i) \/ Insert(i)
        \/ FinishDirect(i) \/ FindSlot(i) \/ ReplaceSlot(i)
        \/ ReleaseStagedSource(i) \/ DropImage(i)
        \/ Unclaim(i) \/ Unref(i) \/ Unslot(i)
  \/ \E s \in Streams : EvictStream(s)

Spec == Init /\ [][Next]_vars

-----------------------------------------------------------------------------
\* The holders of source s: leases that have not begun to give it back, or that
\* are between the two swaps of release().
Claimants(s) ==
  {i \in Imports : /\ lease[i] = s
                   /\ i \notin released \/ pc[i] \in {"unclaim", "returning"}}

\* "reject active reuse": a source has at most one claimant, and `claimed' is
\* exact, so release() never finds the claim already gone (the debug_assert of
\* release()) and the late drop of an image that returned its source early
\* does not free the claim of the next frame (claim_idle_source,
\* PackedSourceLease::release).
ClaimExact ==
  \A s \in Imports :
    /\ Cardinality(Claimants(s)) <= 1
    /\ s \in claimed <=> Claimants(s) # {}

\* "bounded", "idle-only LRU eviction": the source of every lease, returned or not,
\* is the one the cache has under its key, so a buffer that an image still refers
\* to is never imported again for its stream; and one identity of a stream is
\* cached with one topology only, however many threads missed the cache at the
\* same time (evict_one_idle, evict_stream, claim_cached_packed_source,
\* claim_cached_source).
CacheSound ==
  /\ Cardinality(Entries) <= MaxEntries
  /\ \A k, l \in Entries : k.stream = l.stream /\ k.buffer = l.buffer => k = l
  /\ \A i \in Imports : lease[i] # None => entries[key[i]] = lease[i]

\* An output slot belongs to one image at a time, `claimed' is exact, and the
\* slot of an image is in the bounded pool and has the image's shape: neither
\* replacement nor reuse takes it away while it is displayed
\* (PackedOutputPool::claim, PackedOutputLease::release).
SlotsExclusive ==
  /\ Cardinality(slots) <= MaxSlots
  /\ \A i, j \in Imports : output[i] # None /\ output[i] = output[j] => i = j
  /\ slot_claimed = {output[i] : i \in Imports} \ {None}
  /\ \A i \in Imports :
       output[i] # None => output[i] \in slots /\ Shape(output[i]) = Shape(i)

\* evict_stream tells the truth: Ok means that no image of the stream refers to
\* a cached source, an error that some image still does (evict_packed_stream).
EvictionHonest ==
  [][\A s \in Streams :
       LET users == {i \in Imports : lease'[i] # None /\ key'[i].stream = s}
       IN EvictStream(s) => (answer'[s] = "ok" <=> users = {})]_vars
=============================================================================
