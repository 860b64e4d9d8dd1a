------------------------------ MODULE SimCache ------------------------------
(***************************************************************************)
(* The simulated prompt cache (executor/simcache/store.go): a bounded LRU  *)
(* map of prompt prefixes with a time to live, shared by every handler of  *)
(* the proxy.  LookupOrRecord reads the clock first and takes the mutex    *)
(* afterwards, so critical sections need not come in the order of their    *)
(* readings, nor the list in the order of its access times.                *)
(*                                                                         *)
(* The doubly linked list is the order of the turns its elements were last *)
(* put in front at; a prefix stands for its hash.                          *)
(***************************************************************************)
EXTENDS Naturals, FiniteSets

CONSTANTS
  Handlers,     \* requests that consult the store
  Hashes,       \* the hashes of the prefixes they ask for
  NoPrefix,     \* a handler that asks for nothing
  Ttl,          \* Store.ttl
  MaxEntries,   \* Store.max
  MaxClock,     \* bound: the clock stops here
  MaxTurns      \* bound: lookups in all

ASSUME SimCacheAssumption ==
  /\ IsFiniteSet(Hashes) /\ NoPrefix \notin Hashes
  /\ Ttl \in Nat /\ MaxClock \in Nat /\ MaxTurns \in Nat
  /\ MaxEntries \in Nat \ {0}

VARIABLES
  clock,     \* time.Now
  items,     \* the keys of Store.items
  lru,       \* Store.lru: for each element when it was last accessed, and its turn
  turn,      \* how many elements were put in front so far
  lookups,   \* what each handler is asking for, and the reading of the clock it did it with
  history    \* ghost: of each prefix the reading and the followers of its last use

simCacheVars == <<clock, items, lru, turn, lookups, history>>

Idle == [prefix |-> NoPrefix, now |-> 0]

(* since holds the other prefixes looked up after the last use. *)
Unused == [used |-> FALSE, now |-> 0, since |-> {}]

CacheInit ==
  /\ clock = 0 /\ turn = 0
  /\ items = {} /\ lru = [p \in {} |-> [accessed |-> 0, turn |-> 0]]
  /\ lookups = [h \in Handlers |-> Idle]
  /\ history = [p \in Hashes |-> Unused]

PassTime ==
  /\ clock < MaxClock
  /\ clock' = clock + 1
  /\ UNCHANGED <<items, lru, turn, lookups, history>>

ReadClock(h, p) ==
  /\ lookups[h] = Idle
  /\ lookups' = [lookups EXCEPT ![h] = [prefix |-> p, now |-> clock]]
  /\ UNCHANGED <<clock, items, lru, turn, history>>

Expired(p, now) == now > lru[p].accessed + Ttl

(* evictLocked sweeps the expired entries from the back of the list and     *)
(* stops at the first live one, however old those in front of it are.      *)
Swept(all, now) ==
  {p \in all : \E q \in all : lru[q].turn <= lru[p].turn /\ ~Expired(q, now)}

\* Mutant of LeavesRoom: the store is trimmed only when it is over its maximum.
LeavesRoomLate(all, kept) ==
  /\ kept \subseteq all
  /\ \A p \in kept, q \in all \ kept : lru[q].turn < lru[p].turn
  /\ IF Cardinality(all) <= MaxEntries THEN kept = all
     ELSE Cardinality(kept) = MaxEntries

(* What it leaves must make room for one entry: the tail goes first. *)
LeavesRoom(all, kept) ==
  /\ kept \subseteq all
  /\ \A p \in kept, q \in all \ kept : lru[q].turn < lru[p].turn
  /\ IF Cardinality(all) < MaxEntries THEN kept = all
     ELSE Cardinality(kept) = MaxEntries - 1

PutInFront(p, kept, now) ==
  /\ items' = kept \union {p}
  /\ lru' = [q \in kept \union {p} |->
               IF q = p THEN [accessed |-> now, turn |-> turn + 1] ELSE lru[q]]
  /\ turn' = turn + 1

Hit(p, now) == p \in items /\ ~Expired(p, now)

\* Mutant of Touch: a hit does not move the entry to the front.
TouchInPlace(p, now) ==
  /\ Hit(p, now)
  /\ lru' = [lru EXCEPT ![p].accessed = now]
  /\ turn' = turn + 1
  /\ UNCHANGED items

Touch(p, now) == Hit(p, now) /\ PutInFront(p, items \ {p}, now)

(* An expired entry of the prefix itself is removed before the sweep. *)
Record(p, now) ==
  /\ ~Hit(p, now)
  /\ \E kept \in SUBSET items :
       /\ LeavesRoom(Swept(items \ {p}, now), kept)
       /\ PutInFront(p, kept, now)

(* The critical section. *)
LookupOrRecord(h) ==
  LET p == lookups[h].prefix
      now == lookups[h].now
  IN  /\ p # NoPrefix
      /\ turn < MaxTurns
      /\ Touch(p, now) \/ Record(p, now)
      /\ lookups' = [lookups EXCEPT ![h] = Idle]
      /\ history' = [q \in Hashes |->
                       IF q = p THEN [used |-> TRUE, now |-> now, since |-> {}]
                       ELSE [history[q] EXCEPT !.since = @ \union {p}]]
      /\ UNCHANGED clock

CacheNext ==
  \/ PassTime
  \/ \E h \in Handlers : LookupOrRecord(h) \/ \E p \in Hashes : ReadClock(h, p)

CacheSpec == CacheInit /\ [][CacheNext]_simCacheVars

(***************************************************************************)
(* Properties.                                                             *)
(***************************************************************************)
Entries == [accessed : Nat, turn : Nat]
Lookups == [prefix : Hashes \union {NoPrefix}, now : Nat]

(* The map and the list hold the same prefixes, never more than the store's *)
(* maximum, and no two elements of the list are in the same place.         *)
CacheTypeOK ==
  /\ clock \in Nat /\ turn \in Nat
  /\ items \subseteq Hashes /\ Cardinality(items) <= MaxEntries
  /\ lru \in [items -> Entries]
  /\ \A p, q \in items : lru[p].turn = lru[q].turn => p = q
  /\ lookups \in [Handlers -> Lookups]

(* The promise of an LRU cache, whatever the order of the readings: a       *)
(* prefix that was used at most a time to live ago, and fewer other         *)
(* prefixes since than the store has room for, is still there, so its next  *)
(* lookup is a hit.                                                        *)
RecentIsCached ==
  \A p \in Hashes :
    /\ history[p].used
    /\ clock <= history[p].now + Ttl
    /\ Cardinality(history[p].since) < MaxEntries
    => p \in items

(* An entry lives on only by being used: the access time it is judged by is *)
(* that of the last lookup of its prefix, so a lookup more than a time to   *)
(* live after it is a miss however busy the store is.                      *)
AccessIsLastUse ==
  \A p \in items : history[p].used /\ lru[p].accessed = history[p].now
=============================================================================
