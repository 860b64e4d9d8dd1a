----------------------------- MODULE CacheProofs -----------------------------
(***************************************************************************)
(* Proofs about the caches: the simulated prompt cache (SimCache), for any *)
(* number of handlers and prefixes and any capacity and time to live, and  *)
(* what is cached for an account: its quota (QuotaRoute), for any number   *)
(* of host calls, any quotas, any time to live and any timeout, its status *)
(* (AuthRegistry) and its catalog (ModelCatalog), which a fetch may fill   *)
(* after the account it is for has changed.  Each of the last two is stale *)
(* only if an overlap made it so, for any number of callers, registrations *)
(* and switches.                                                           *)
(***************************************************************************)
EXTENDS SimCache, QuotaRoute, AuthRegistry, ModelCatalog, FiniteSetTheorems, TLAPS

-----------------------------------------------------------------------------
(* The prompt cache.                                                        *)
(* What the eviction may remove is known from the order of the list: the    *)
(* elements in front of an entry were all looked up after it.              *)
Histories == [used : BOOLEAN, now : Nat, since : SUBSET Hashes]

HistoryOK ==
  /\ history \in [Hashes -> Histories]
  /\ \A h \in Handlers : lookups[h].now <= clock
  /\ \A p \in items : lru[p].turn <= turn
  /\ \A p, q \in items : lru[p].turn < lru[q].turn => q \in history[p].since

CacheInv == CacheTypeOK /\ HistoryOK /\ AccessIsLastUse /\ RecentIsCached

-----------------------------------------------------------------------------
(* The sets of prefixes that occur are finite.                              *)
LEMMA PrefixSets ==
  ASSUME NEW S \in SUBSET Hashes
  PROVE  IsFiniteSet(S) /\ Cardinality(S) \in Nat
  BY SimCacheAssumption, FS_Subset, FS_CardinalityType

(* evictLocked leaves room for one entry, and an entry that was still live  *)
(* goes only when MaxEntries - 1 entries in front of it stay.              *)
LEMMA EvictionLemma ==
  ASSUME CacheTypeOK,
         NEW p \in Hashes, NEW time \in Nat, NEW kept,
         LeavesRoom(Swept(items \ {p}, time), kept)
  PROVE  /\ kept \subseteq items \ {p}
         /\ Cardinality(kept) < MaxEntries
         /\ \A q \in items \ {p} : q \notin kept =>
              \/ Expired(q, time)
              \/ /\ Cardinality(kept) = MaxEntries - 1
                 /\ \A r \in kept : lru[q].turn < lru[r].turn
<1>. DEFINE all == Swept(items \ {p}, time)
<1>1. all \subseteq items \ {p} /\ kept \subseteq all
  BY DEF Swept, LeavesRoom
<1>2. Cardinality(all) \in Nat /\ Cardinality(kept) \in Nat
  BY <1>1, PrefixSets DEF CacheTypeOK
<1>3. Cardinality(kept) < MaxEntries
  BY <1>2, SimCacheAssumption DEF LeavesRoom
<1>4. ASSUME NEW q \in items \ {p}, q \notin kept, ~Expired(q, time)
      PROVE  /\ Cardinality(kept) = MaxEntries - 1
             /\ \A r \in kept : lru[q].turn < lru[r].turn
  <2>1. lru[q].turn \in Nat
    BY <1>4 DEF CacheTypeOK, Entries
  <2>2. q \in all
    BY <1>4, <2>1 DEF Swept
  <2>. QED
    BY <2>2, <1>4 DEF LeavesRoom
<1>. QED
  BY <1>1, <1>3, <1>4

-----------------------------------------------------------------------------
(* An empty store satisfies the invariant.                                  *)
LEMMA CacheInvInit ==
  ASSUME CacheInit
  PROVE  CacheInv
<1>. USE DEF CacheInit
<1>1. CacheTypeOK
  BY FS_EmptySet, SimCacheAssumption DEF CacheTypeOK, Entries, Lookups, Idle
<1>2. HistoryOK
  BY DEF HistoryOK, Histories, Unused, Idle
<1>3. AccessIsLastUse /\ RecentIsCached
  BY DEF AccessIsLastUse, RecentIsCached, Unused
<1>. QED
  BY <1>1, <1>2, <1>3 DEF CacheInv

(* Time passes, and an entry that stays recent was recent before.           *)
LEMMA PassTimeInv ==
  ASSUME CacheInv, PassTime
  PROVE  CacheInv'
<1>. USE DEF CacheInv, PassTime
<1>1. CacheTypeOK'
  BY DEF CacheTypeOK
<1>2. HistoryOK'
  BY DEF HistoryOK, CacheTypeOK, Lookups
<1>3. AccessIsLastUse'
  BY DEF AccessIsLastUse
<1>4. RecentIsCached'
  BY SimCacheAssumption DEF RecentIsCached, CacheTypeOK, HistoryOK, Histories
<1>. QED
  BY <1>1, <1>2, <1>3, <1>4

(* A reading of the clock is never later than the clock.                    *)
LEMMA ReadClockInv ==
  ASSUME CacheInv, NEW h \in Handlers, NEW p \in Hashes, ReadClock(h, p)
  PROVE  CacheInv'
<1>. USE DEF CacheInv, ReadClock
<1>1. CacheTypeOK'
  BY DEF CacheTypeOK, Lookups
<1>2. HistoryOK'
  BY DEF HistoryOK, CacheTypeOK
<1>3. AccessIsLastUse' /\ RecentIsCached'
  BY DEF AccessIsLastUse, RecentIsCached
<1>. QED
  BY <1>1, <1>2, <1>3

-----------------------------------------------------------------------------
(* The critical section puts its prefix in front of what it keeps, and it   *)
(* keeps every entry that is recent and has too few followers to be pushed  *)
(* out.                                                                    *)
LEMMA LookupInv ==
  ASSUME CacheInv, NEW h \in Handlers, LookupOrRecord(h)
  PROVE  CacheInv'
<1>. DEFINE p == lookups[h].prefix
            time == lookups[h].now
<1>. USE DEF CacheInv
<1>1. p \in Hashes /\ time \in Nat /\ time <= clock /\ clock \in Nat /\ turn \in Nat
  BY DEF LookupOrRecord, CacheTypeOK, HistoryOK, Lookups
<1>2. PICK kept \in SUBSET (items \ {p}) :
        /\ PutInFront(p, kept, time)
        /\ Cardinality(kept) < MaxEntries
        /\ \A q \in items \ {p} : q \notin kept =>
             \/ Expired(q, time)
             \/ /\ Cardinality(kept) = MaxEntries - 1
                /\ \A r \in kept : lru[q].turn < lru[r].turn
  <2>1. CASE Touch(p, time)
    <3>1. Cardinality(items \ {p}) = Cardinality(items) - 1
      BY <2>1, PrefixSets, FS_RemoveElement DEF Touch, Hit, CacheTypeOK
    <3>2. Cardinality(items \ {p}) < MaxEntries
      BY <3>1, PrefixSets, SimCacheAssumption DEF CacheTypeOK
    <3>. QED
      BY <2>1, <3>2 DEF Touch
  <2>2. CASE Record(p, time)
    BY <1>1, <2>2, EvictionLemma DEF Record
  <2>. QED
    BY <2>1, <2>2 DEF LookupOrRecord
<1>3. /\ items' = kept \union {p} /\ turn' = turn + 1
      /\ lru' \in [items' -> Entries]
      /\ lru'[p] = [accessed |-> time, turn |-> turn + 1]
      /\ \A q \in kept : q # p /\ q \in items /\ lru'[q] = lru[q]
      /\ items \subseteq Hashes /\ kept \subseteq Hashes
  BY <1>1, <1>2 DEF PutInFront, CacheTypeOK, Entries
<1>4. /\ lookups' = [lookups EXCEPT ![h] = Idle] /\ clock' = clock
      /\ history' = [q \in Hashes |->
                       IF q = p THEN [used |-> TRUE, now |-> time, since |-> {}]
                       ELSE [history[q] EXCEPT !.since = @ \union {p}]]
  BY DEF LookupOrRecord
<1>5. history' \in [Hashes -> Histories]
      /\ history'[p] = [used |-> TRUE, now |-> time, since |-> {}]
      /\ \A q \in Hashes \ {p} : /\ history'[q].used = history[q].used
                                   /\ history'[q].now = history[q].now
                                   /\ history'[q].since = history[q].since \union {p}
  <2>1. \A q \in Hashes : history[q] \in Histories
    BY DEF HistoryOK
  <2>2. history'[p] = [used |-> TRUE, now |-> time, since |-> {}]
    BY <1>1, <1>4
  <2>3. \A q \in Hashes \ {p} : history'[q] = [history[q] EXCEPT !.since = @ \union {p}]
    BY <1>4
  <2>4. ASSUME NEW q \in Hashes \ {p}
        PROVE  /\ history'[q] \in Histories
               /\ history'[q].used = history[q].used
               /\ history'[q].now = history[q].now
               /\ history'[q].since = history[q].since \union {p}
    <3>1. history'[q] = [history[q] EXCEPT !.since = history[q].since \union {p}]
      BY <2>3
    <3>2. history[q] \in [used : BOOLEAN, now : Nat, since : SUBSET Hashes]
      BY <2>1 DEF Histories
    <3>. HIDE DEF p
    <3>. QED
      BY <1>1, <3>1, <3>2 DEF Histories
  <2>5. history'[p] \in Histories
    BY <1>1, <2>2 DEF Histories
  <2>. QED
    BY <1>4, <2>2, <2>4, <2>5
<1>6. \A q \in kept : lru[q].turn \in Nat /\ lru[q].turn <= turn
  BY <1>2 DEF CacheTypeOK, HistoryOK, Entries
<1>7. Cardinality(kept \union {p}) = Cardinality(kept) + 1 /\ Cardinality(kept) \in Nat
  <2>1. IsFiniteSet(kept) /\ Cardinality(kept) \in Nat
    BY <1>3, PrefixSets
  <2>2. p \notin kept
    BY <1>2
  <2>. QED
    BY <2>1, <2>2, FS_AddElement
<1>8. CacheTypeOK'
  <2>1. Cardinality(items') <= MaxEntries
    BY <1>2, <1>3, <1>7, SimCacheAssumption
  <2>2. \A q, r \in items' : lru'[q].turn = lru'[r].turn => q = r
    BY <1>1, <1>3, <1>6 DEF CacheTypeOK
  <2>3. lookups' \in [Handlers -> Lookups]
    BY <1>4 DEF CacheTypeOK, Lookups, Idle
  <2>. QED
    BY <1>1, <1>3, <1>4, <2>1, <2>2, <2>3 DEF CacheTypeOK
<1>9. HistoryOK'
  <2>1. \A g \in Handlers : lookups'[g].now <= clock'
    BY <1>1, <1>4 DEF HistoryOK, CacheTypeOK, Idle
  <2>2. \A q \in items' : lru'[q].turn <= turn'
    BY <1>1, <1>3, <1>6
  <2>3. ASSUME NEW q \in items', NEW r \in items', lru'[q].turn < lru'[r].turn
        PROVE  r \in history'[q].since
    <3>1. q \in kept
      BY <1>1, <1>3, <1>6, <2>3
    <3>2. CASE r = p
      BY <1>3, <1>5, <3>1, <3>2
    <3>3. CASE r \in kept
      BY <1>3, <1>5, <2>3, <3>1, <3>3 DEF HistoryOK
    <3>. QED
      BY <1>3, <3>2, <3>3
  <2>. QED
    BY <1>5, <2>1, <2>2, <2>3 DEF HistoryOK
<1>10. AccessIsLastUse'
  BY <1>1, <1>3, <1>5 DEF AccessIsLastUse
<1>11. RecentIsCached'
  <2>1. SUFFICES ASSUME NEW q \in Hashes \ {p}, history'[q].used,
                        clock' <= history'[q].now + Ttl,
                        Cardinality(history'[q].since) < MaxEntries
                 PROVE  q \in kept
    BY <1>3 DEF RecentIsCached
  <2>2. history[q].since \subseteq Hashes /\ history'[q].since \subseteq Hashes
    BY <1>5, <2>1 DEF HistoryOK, Histories
  <2>3. Cardinality(history[q].since) <= Cardinality(history'[q].since)
    BY <1>5, <2>1, <2>2, PrefixSets, FS_Subset
  <2>4. q \in items
    BY <1>4, <1>5, <2>1, <2>2, <2>3, PrefixSets, SimCacheAssumption DEF RecentIsCached
  <2>5. ~Expired(q, time)
    BY <1>1, <1>4, <1>5, <2>1, <2>4, SimCacheAssumption
    DEF Expired, AccessIsLastUse, CacheTypeOK, Entries
  <2>6. SUFFICES ASSUME q \notin kept
                 PROVE  FALSE
    OBVIOUS
  <2>7. Cardinality(kept) = MaxEntries - 1 /\ \A r \in kept : lru[q].turn < lru[r].turn
    BY <1>2, <2>1, <2>4, <2>5, <2>6
  <2>8. kept \union {p} \subseteq history'[q].since
    BY <1>2, <1>5, <2>1, <2>4, <2>7 DEF HistoryOK
  <2>9. Cardinality(kept \union {p}) = MaxEntries
    BY <1>7, <2>7, SimCacheAssumption
  <2>. QED
    BY <2>1, <2>2, <2>8, <2>9, PrefixSets, FS_Subset, SimCacheAssumption
<1>. QED
  BY <1>8, <1>9, <1>10, <1>11

-----------------------------------------------------------------------------
(* The invariant holds in every reachable state of the store.               *)
LEMMA CacheInvHolds == CacheSpec => []CacheInv
<1>1. CacheInit => CacheInv
  BY CacheInvInit
<1>2. CacheInv /\ [CacheNext]_simCacheVars => CacheInv'
  <2>. SUFFICES ASSUME CacheInv, [CacheNext]_simCacheVars
                PROVE  CacheInv'
    OBVIOUS
  <2>1. CASE PassTime
    BY <2>1, PassTimeInv
  <2>2. ASSUME NEW h \in Handlers, NEW p \in Hashes, ReadClock(h, p)
        PROVE  CacheInv'
    BY <2>2, ReadClockInv
  <2>3. ASSUME NEW h \in Handlers, LookupOrRecord(h)
        PROVE  CacheInv'
    BY <2>3, LookupInv
  <2>4. CASE UNCHANGED simCacheVars
    BY <2>4 DEF simCacheVars, CacheInv, CacheTypeOK, HistoryOK, AccessIsLastUse, RecentIsCached
  <2>. QED
    BY <2>1, <2>2, <2>3, <2>4 DEF CacheNext
<1>. QED
  BY <1>1, <1>2, PTL DEF CacheSpec

(* The map and the list of the store (store.go:80-146) agree, and the store *)
(* never holds more than its maximum, whatever its handlers do.            *)
THEOREM StoreIsBounded == CacheSpec => []CacheTypeOK
<1>1. CacheInv => CacheTypeOK
  BY DEF CacheInv
<1>. QED
  BY <1>1, CacheInvHolds, PTL

(* LookupOrRecord keeps every prefix used within the time to live and       *)
(* followed by fewer others than there is room for, although the critical   *)
(* sections do not come in the order of the readings (store.go:82-84).     *)
THEOREM RecentlyUsedIsCached == CacheSpec => []RecentIsCached
<1>1. CacheInv => RecentIsCached
  BY DEF CacheInv
<1>. QED
  BY <1>1, CacheInvHolds, PTL

(* An entry is judged by its last lookup (store.go:94, 110).                *)
THEOREM EntriesAgeFromLastUse == CacheSpec => []AccessIsLastUse
<1>1. CacheInv => AccessIsLastUse
  BY DEF CacheInv
<1>. QED
  BY <1>1, CacheInvHolds, PTL

-----------------------------------------------------------------------------
(* The routing by quota.                                                    *)
Answers == [quota : QuotaRecords, ok : BOOLEAN, seen : Nat]
CachedQuotas == [answer : Answers, at : Nat]
Lanes == {"none", "native", "bot"}
Calls ==
  [pc : {"idle", "load", "fetch", "answered", "loaded", "listed", "run"},
   kind : {"none", "models", "execute"}, bucket : Buckets \union {"none"}, since : Nat,
   got : Answers, lane : Lanes, attempts : 0 .. 2, kept : SUBSET Buckets]

QuotaTypes ==
  /\ now \in Nat
  /\ account \in Quotas
  /\ quotaCache \subseteq CachedQuotas
  /\ calls \in [HostCalls -> Calls]

(* What a call holds, and what is cached, is no older than a fetch allows.  *)
(* A cached answer was looked up at most a fetch before it was stored.     *)
AgeOK(r) ==
  /\ r.pc \in {"fetch", "answered"} => r.since <= now /\ now <= r.since + HttpTimeout
  /\ r.pc = "answered" => r.since <= r.got.seen
  /\ r.pc = "loaded" => now < r.got.seen + CacheTtl + HttpTimeout

AgesBounded ==
  /\ \A e \in quotaCache : e.at <= e.answer.seen + HttpTimeout
  /\ \A c \in HostCalls : AgeOK(calls[c])

(* Only a call that has made one attempt, outside of the bot lane, loads    *)
(* the quota again.                                                        *)
LaneOK(r) ==
  /\ r.pc \in {"load", "fetch", "answered", "loaded"} => r.attempts <= 1
  /\ r.attempts = 2 => r.lane = "bot"
  /\ r.pc = "run" /\ r.attempts = 2 => r.lane = "bot"
  /\ r.pc = "run" /\ r.lane = "bot" => r.got.ok /\ ~QuotaExhaustedBot(r.got.quota)

ListOK(r) ==
  r.pc = "listed" /\ r.got.ok => r.kept = FilterModelsForQuota(r.got.quota)

QuotaInv ==
  /\ QuotaTypes
  /\ AgesBounded
  /\ \A c \in HostCalls : LaneOK(calls[c]) /\ ListOK(calls[c])

-----------------------------------------------------------------------------
(* The filter of handleModelsForAuth and the decision of applyQuotaLane are *)
(* written apart and agree on every quota.                                 *)
LEMMA FilterAgreesWithDecision ==
  ASSUME NEW q \in QuotaRecords, NEW b \in Buckets
  PROVE  b \in FilterModelsForQuota(q) <=> DecideQuotaLane(q, b) # "skip"
<1>. USE DEF FilterModelsForQuota, DecideQuotaLane, NativeBucketExhausted, BotCanOverflow,
             QuotaExhaustedBot, QuotaExhaustedOther, ShouldOverflowOtherToBot
<1>1. CASE b = "cursor"
  BY <1>1 DEF Buckets
<1>2. CASE b = "other"
  BY <1>2 DEF Buckets
<1>3. CASE b = "bot"
  BY <1>3 DEF Buckets
<1>. QED
  BY <1>1, <1>2, <1>3 DEF Buckets

(* The decision is a lane or a skip, and takes the bot lane only on a bar   *)
(* that is not known to be locked or empty.                                *)
LEMMA DecisionLanes ==
  ASSUME NEW q \in QuotaRecords, NEW b
  PROVE  /\ DecideQuotaLane(q, b) \in {"bot", "native", "skip"}
         /\ DecideQuotaLane(q, b) = "bot" => ~QuotaExhaustedBot(q)
BY DEF DecideQuotaLane, NativeBucketExhausted, BotCanOverflow,
       QuotaExhaustedBot, QuotaExhaustedOther, ShouldOverflowOtherToBot

(* A call that has not begun, and what a fetch that failed answers. *)
LEMMA IdleAndFailedTypes ==
  ASSUME now \in Nat
  PROVE  IdleCall \in Calls /\ Failed \in Answers
<1>1. ZeroQuota \in QuotaRecords
  BY DEF ZeroQuota, QuotaRecords
<1>2. Failed \in Answers /\ [quota |-> ZeroQuota, ok |-> FALSE, seen |-> 0] \in Answers
  BY <1>1 DEF Failed, Answers
<1>. QED
  BY <1>2 DEF IdleCall, Calls, Lanes

(* A step that changes one call and leaves the clock alone.                *)
LEMMA OneCallLemma ==
  ASSUME QuotaInv, UNCHANGED now, account' \in Quotas,
         quotaCache' \subseteq CachedQuotas,
         \A e \in quotaCache' : e.at <= e.answer.seen + HttpTimeout,
         NEW c \in HostCalls, NEW r \in Calls, SetCall(c, r),
         AgeOK(r), LaneOK(r), ListOK(r)
  PROVE  QuotaInv'
<1>1. QuotaTypes'
  BY DEF QuotaInv, QuotaTypes, SetCall
<1>2. calls'[c] = r /\ \A d \in HostCalls : d # c => calls'[d] = calls[d]
  BY DEF QuotaInv, QuotaTypes, SetCall
<1>3. \A d \in HostCalls : AgeOK(calls[d])' /\ LaneOK(calls[d])' /\ ListOK(calls[d])'
  BY <1>2 DEF QuotaInv, AgesBounded, AgeOK, LaneOK, ListOK
<1>. QED
  BY <1>1, <1>3 DEF QuotaInv, AgesBounded

-----------------------------------------------------------------------------
(* Before the first call nothing is cached. *)
LEMMA QuotaInvInit ==
  ASSUME QuotaInit
  PROVE  QuotaInv
<1>1. IdleCall \in Calls
  BY IdleAndFailedTypes DEF QuotaInit
<1>. QED
  BY <1>1 DEF QuotaInit, QuotaInv, QuotaTypes, AgesBounded, AgeOK, LaneOK, ListOK, IdleCall

(* The steps of loadAccountQuota. *)
LEMMA LoadKeepsInv ==
  ASSUME QuotaInv, NEW c \in HostCalls,
         \/ BeginCall(c, "models", "none")
         \/ \E bucket \in Buckets : BeginCall(c, "execute", bucket)
         \/ LoadCached(c) \/ StartFetch(c) \/ CursorAnswers(c) \/ FetchReturns(c)
  PROVE  QuotaInv'
<1>. DEFINE r == calls[c]
<1>1. r \in Calls /\ AgeOK(r) /\ LaneOK(r) /\ ListOK(r) /\ r.got \in Answers
  BY DEF QuotaInv, QuotaTypes, AgesBounded, Calls
<1>2. /\ now \in Nat /\ account \in Quotas /\ Quotas \subseteq QuotaRecords
      /\ quotaCache \subseteq CachedQuotas
      /\ \A e \in quotaCache : e.at <= e.answer.seen + HttpTimeout
      /\ CacheTtl \in Nat \ {0} /\ HttpTimeout \in Nat \ {0}
  BY QuotaAssumption DEF QuotaInv, QuotaTypes, AgesBounded
<1>3. ASSUME NEW kind \in {"models", "execute"}, NEW bucket \in Buckets \union {"none"},
             BeginCall(c, kind, bucket)
      PROVE  QuotaInv'
  <2>. DEFINE s == [IdleCall EXCEPT !.pc = "load", !.kind = kind, !.bucket = bucket]
  <2>1. s \in Calls
    BY <1>2, IdleAndFailedTypes DEF Calls
  <2>2. AgeOK(s) /\ LaneOK(s) /\ ListOK(s)
    BY DEF IdleCall, AgeOK, LaneOK, ListOK
  <2>. HIDE DEF s
  <2>. QED
    BY <1>2, <1>3, <2>1, <2>2, OneCallLemma DEF BeginCall, s
<1>4. CASE LoadCached(c)
  <2>1. PICK e \in quotaCache : Fresh(e) /\ SetCall(c, [r EXCEPT !.pc = "loaded", !.got = e.answer])
    BY <1>4 DEF LoadCached
  <2>. DEFINE s == [r EXCEPT !.pc = "loaded", !.got = e.answer]
  <2>2. e \in CachedQuotas /\ e.answer \in Answers /\ e.at <= e.answer.seen + HttpTimeout
    BY <1>2, <2>1 DEF CachedQuotas
  <2>3. s \in Calls /\ s.pc = "loaded" /\ s.got = e.answer /\ s.attempts = r.attempts /\ s.lane = r.lane
    BY <1>1, <2>2 DEF Calls
  <2>4. now < e.answer.seen + CacheTtl + HttpTimeout
    BY <1>2, <2>1, <2>2 DEF Fresh, CachedQuotas, Answers
  <2>. HIDE DEF s
  <2>5. AgeOK(s) /\ LaneOK(s) /\ ListOK(s)
    BY <1>1, <1>4, <2>3, <2>4 DEF AgeOK, LaneOK, ListOK, LoadCached
  <2>. QED
    BY <1>2, <1>4, <2>1, <2>3, <2>5, OneCallLemma DEF LoadCached, s
<1>5. CASE StartFetch(c)
  <2>. DEFINE s == [r EXCEPT !.pc = "fetch", !.since = now]
  <2>1. s \in Calls /\ s.pc = "fetch" /\ s.since = now /\ s.attempts = r.attempts /\ s.lane = r.lane
    BY <1>1, <1>2 DEF Calls
  <2>. HIDE DEF s
  <2>2. AgeOK(s) /\ LaneOK(s) /\ ListOK(s)
    BY <1>1, <1>2, <1>5, <2>1 DEF AgeOK, LaneOK, ListOK, StartFetch
  <2>. QED
    BY <1>2, <1>5, <2>1, <2>2, OneCallLemma DEF StartFetch, s
<1>6. CASE CursorAnswers(c)
  <2>. DEFINE a == [quota |-> account, ok |-> TRUE, seen |-> now]
              s == [r EXCEPT !.pc = "answered", !.got = a]
  <2>1. a \in Answers /\ a.seen = now
    BY <1>2 DEF Answers
  <2>2. s \in Calls /\ s.pc = "answered" /\ s.since = r.since /\ s.got = a
        /\ s.attempts = r.attempts /\ s.lane = r.lane
    BY <1>1, <2>1 DEF Calls
  <2>3. r.pc = "fetch"
    BY <1>6 DEF CursorAnswers
  <2>4. SetCall(c, s) /\ UNCHANGED <<now, account, quotaCache>>
    BY <1>6 DEF CursorAnswers
  <2>. HIDE DEF s, a, r
  <2>5. AgeOK(s) /\ LaneOK(s) /\ ListOK(s)
    BY <1>1, <2>1, <2>2, <2>3 DEF AgeOK, LaneOK, ListOK
  <2>. QED
    BY <1>2, <2>2, <2>4, <2>5, OneCallLemma
<1>7. CASE FetchReturns(c)
  <2>1. PICK a \in {r.got, Failed} :
          /\ r.pc = "answered" \/ (r.pc = "fetch" /\ a = Failed)
          /\ quotaCache' = {Entry(a)}
          /\ SetCall(c, [r EXCEPT !.pc = "loaded", !.since = 0, !.got = a])
    BY <1>7 DEF FetchReturns
  <2>. DEFINE s == [r EXCEPT !.pc = "loaded", !.since = 0, !.got = a]
  <2>2. a \in Answers
    BY <1>1, <1>2, IdleAndFailedTypes
  <2>3. now <= a.seen + HttpTimeout
    <3>1. CASE a = Failed
      BY <1>2, <3>1 DEF Failed
    <3>2. CASE a = r.got /\ r.pc = "answered"
      BY <1>1, <1>2, <3>2 DEF AgeOK, Calls, Answers
    <3>. QED
      BY <2>1, <3>1, <3>2
  <2>4. Entry(a) \in CachedQuotas /\ Entry(a).at = now /\ Entry(a).answer = a
    BY <1>2, <2>2 DEF Entry, CachedQuotas
  <2>5. s \in Calls /\ s.pc = "loaded" /\ s.got = a /\ s.attempts = r.attempts /\ s.lane = r.lane
    BY <1>1, <2>2 DEF Calls
  <2>6. r.attempts <= 1
    BY <1>1, <2>1 DEF LaneOK
  <2>. HIDE DEF s, r
  <2>7. AgeOK(s) /\ LaneOK(s) /\ ListOK(s)
    BY <1>1, <1>2, <2>2, <2>3, <2>5, <2>6 DEF AgeOK, LaneOK, ListOK, Answers
  <2>8. quotaCache' \subseteq CachedQuotas /\ \A e \in quotaCache' : e.at <= e.answer.seen + HttpTimeout
    BY <2>1, <2>3, <2>4
  <2>9. SetCall(c, s) /\ UNCHANGED now /\ account' \in Quotas
    BY <1>2, <1>7, <2>1 DEF FetchReturns, s
  <2>. QED
    BY <2>5, <2>7, <2>8, <2>9, OneCallLemma
<1>. QED
  BY <1>3, <1>4, <1>5, <1>6, <1>7

(* The steps a loaded quota is used in. *)
LEMMA UseKeepsInv ==
  ASSUME QuotaInv, NEW c \in HostCalls,
         \/ ListModels(c) \/ ReturnModels(c)
         \/ Route(c) \/ HitLimit(c) \/ RetryInBot(c) \/ FinishChat(c)
  PROVE  QuotaInv'
<1>. DEFINE r == calls[c]
<1>1. r \in Calls /\ AgeOK(r) /\ LaneOK(r) /\ ListOK(r) /\ r.got \in Answers /\ r.got.quota \in QuotaRecords
  BY DEF QuotaInv, QuotaTypes, AgesBounded, Calls, Answers
<1>2. /\ now \in Nat /\ account \in Quotas
      /\ quotaCache \subseteq CachedQuotas
      /\ \A e \in quotaCache : e.at <= e.answer.seen + HttpTimeout
  BY DEF QuotaInv, QuotaTypes, AgesBounded
<1>3. IdleCall \in Calls /\ AgeOK(IdleCall) /\ LaneOK(IdleCall) /\ ListOK(IdleCall)
  BY <1>2, IdleAndFailedTypes DEF IdleCall, AgeOK, LaneOK, ListOK
<1>4. ASSUME SetCall(c, IdleCall), UNCHANGED <<now, account, quotaCache>>
      PROVE  QuotaInv'
  BY <1>2, <1>3, <1>4, OneCallLemma
<1>5. ASSUME NEW lane \in {"native", "bot"}, RunChat(c, lane), UNCHANGED <<now, account, quotaCache>>,
             r.attempts <= 1, r.attempts = 1 => lane = "bot",
             lane = "bot" => r.got.ok /\ ~QuotaExhaustedBot(r.got.quota)
      PROVE  QuotaInv'
  <2>. DEFINE s == [r EXCEPT !.pc = "run", !.lane = lane, !.attempts = @ + 1]
  <2>1. lane \in Lanes
    BY DEF Lanes
  <2>2. r.attempts \in 0 .. 2 /\ r.attempts + 1 \in 0 .. 2
    BY <1>1, <1>5 DEF Calls
  <2>3. /\ s \in Calls /\ s.pc = "run" /\ s.lane = lane /\ s.attempts = r.attempts + 1
        /\ s.got = r.got
    BY <1>1, <2>1, <2>2 DEF Calls
  <2>4. SetCall(c, s)
    BY <1>5 DEF RunChat
  <2>. HIDE DEF s
  <2>5. AgeOK(s) /\ LaneOK(s) /\ ListOK(s)
    BY <1>5, <2>2, <2>3 DEF AgeOK, LaneOK, ListOK
  <2>. QED
    BY <1>2, <1>5, <2>3, <2>4, <2>5, OneCallLemma
<1>6. CASE ListModels(c)
  <2>. DEFINE kept == IF r.got.ok THEN FilterModelsForQuota(r.got.quota) ELSE Buckets
              s == [r EXCEPT !.pc = "listed", !.kept = kept]
  <2>1. kept \subseteq Buckets
    BY DEF FilterModelsForQuota
  <2>2. /\ s \in Calls /\ s.pc = "listed" /\ s.kept = kept /\ s.got = r.got
        /\ s.attempts = r.attempts /\ s.lane = r.lane
    BY <1>1, <2>1 DEF Calls
  <2>3. r.pc = "loaded" /\ SetCall(c, s) /\ UNCHANGED <<now, account, quotaCache>>
    BY <1>6 DEF ListModels
  <2>. HIDE DEF s
  <2>4. AgeOK(s) /\ LaneOK(s) /\ ListOK(s)
    BY <1>1, <2>2, <2>3 DEF AgeOK, LaneOK, ListOK
  <2>. QED
    BY <1>2, <2>2, <2>3, <2>4, OneCallLemma
<1>7. CASE Route(c)
  <2>. DEFINE lane == IF r.got.ok THEN DecideQuotaLane(r.got.quota, r.bucket) ELSE "native"
  <2>1. /\ lane \in {"bot", "native", "skip"}
        /\ lane = "bot" => r.got.ok /\ ~QuotaExhaustedBot(r.got.quota)
    BY <1>1, DecisionLanes
  <2>2. /\ r.attempts = 0 /\ UNCHANGED <<now, account, quotaCache>>
        /\ (lane = "skip" /\ SetCall(c, IdleCall)) \/ (lane # "skip" /\ RunChat(c, lane))
    BY <1>7 DEF Route
  <2>. HIDE DEF lane
  <2>. QED
    BY <1>4, <1>5, <2>1, <2>2
<1>8. CASE HitLimit(c)
  <2>. DEFINE s == [r EXCEPT !.pc = "load"]
  <2>1. s \in Calls /\ s.pc = "load" /\ s.attempts = r.attempts /\ s.lane = r.lane
    BY <1>1 DEF Calls
  <2>2. r.lane # "bot" /\ r.attempts \in 0 .. 2 /\ SetCall(c, s) /\ UNCHANGED <<now, account, quotaCache>>
    BY <1>1, <1>8 DEF HitLimit, Calls
  <2>. HIDE DEF s
  <2>3. AgeOK(s) /\ LaneOK(s) /\ ListOK(s)
    BY <1>1, <2>1, <2>2 DEF AgeOK, LaneOK, ListOK
  <2>. QED
    BY <1>2, <2>1, <2>2, <2>3, OneCallLemma
<1>9. CASE RetryInBot(c)
  <2>1. /\ r.pc = "loaded" /\ UNCHANGED <<now, account, quotaCache>>
        /\ IF r.got.ok /\ BotCanOverflow(r.got.quota) THEN RunChat(c, "bot") ELSE SetCall(c, IdleCall)
    BY <1>9 DEF RetryInBot
  <2>2. BotCanOverflow(r.got.quota) => ~QuotaExhaustedBot(r.got.quota)
    BY <1>1 DEF BotCanOverflow, QuotaExhaustedBot
  <2>3. r.attempts <= 1
    BY <1>1, <2>1 DEF LaneOK
  <2>. QED
    BY <1>4, <1>5, <2>1, <2>2, <2>3
<1>. QED
  BY <1>4, <1>6, <1>7, <1>8, <1>9 DEF ReturnModels, FinishChat

-----------------------------------------------------------------------------
(* The clock only advances while no call is between two steps that take no  *)
(* time, nor a fetch at the timeout of its HTTP client.                    *)
LEMMA TickKeepsInv ==
  ASSUME QuotaInv, Tick
  PROVE  QuotaInv'
<1>1. ASSUME NEW c \in HostCalls
      PROVE  AgeOK(calls[c])'
  <2>1. calls[c] \in Calls /\ AgeOK(calls[c]) /\ Waits(c) /\ now \in Nat /\ now' = now + 1
        /\ calls' = calls
    BY DEF QuotaInv, QuotaTypes, AgesBounded, Tick
  <2>2. calls[c].since \in Nat /\ calls[c].pc # "loaded"
    BY <2>1 DEF Calls, Waits
  <2>. QED
    BY <2>1, <2>2, QuotaAssumption DEF AgeOK, Waits
<1>. QED
  BY <1>1 DEF Tick, QuotaInv, QuotaTypes, AgesBounded, LaneOK, ListOK

(* The invariant is inductive. *)
LEMMA QuotaInvNext ==
  ASSUME QuotaInv, [QuotaNext]_quotaVars
  PROVE  QuotaInv'
<1>1. CASE AccountChanges
  BY <1>1 DEF AccountChanges, QuotaInv, QuotaTypes, AgesBounded, AgeOK, LaneOK, ListOK
<1>2. CASE UNCHANGED quotaVars
  BY <1>2 DEF quotaVars, QuotaInv, QuotaTypes, AgesBounded, AgeOK, LaneOK, ListOK
<1>. QED
  BY <1>1, <1>2, LoadKeepsInv, UseKeepsInv, TickKeepsInv DEF QuotaNext, CallStep

(* The invariant implies the three properties. *)
LEMMA QuotaInvImplies ==
  ASSUME QuotaInv
  PROVE  QuotaIsRecent /\ AdvertisedIsServed /\ LanesAreLegal
<1>1. \A c \in HostCalls : calls[c] \in Calls /\ calls[c].got.quota \in QuotaRecords
  BY DEF QuotaInv, QuotaTypes, Calls, Answers
<1>2. QuotaIsRecent
  BY DEF QuotaInv, AgesBounded, AgeOK, QuotaIsRecent
<1>3. AdvertisedIsServed
  BY <1>1, FilterAgreesWithDecision DEF QuotaInv, ListOK, AdvertisedIsServed
<1>4. LanesAreLegal
  <2>1. ASSUME NEW c \in HostCalls
        PROVE  calls[c].attempts <= 2
    BY <1>1 DEF Calls
  <2>2. \A c \in HostCalls : LaneOK(calls[c])
    BY DEF QuotaInv
  <2>. QED
    BY <2>1, <2>2, Zenon DEF LaneOK, LanesAreLegal
<1>. QED
  BY <1>2, <1>3, <1>4

-----------------------------------------------------------------------------
(* The invariant holds throughout. *)
LEMMA QuotaInvariant == QuotaSpec => []QuotaInv
<1>1. QuotaInit => QuotaInv
  BY QuotaInvInit
<1>2. QuotaInv /\ [QuotaNext]_quotaVars => QuotaInv'
  BY QuotaInvNext
<1>. QED
  BY <1>1, <1>2, PTL DEF QuotaSpec

(* A decision is made on a quota no older than the cache's time to live and *)
(* the HTTP client's timeout together: nothing shorter bounds a fetch      *)
(* (loadAccountQuota, usage.Client.call).                                  *)
THEOREM QuotasAreRecent == QuotaSpec => []QuotaIsRecent
<1>1. QuotaInv => QuotaIsRecent
  BY QuotaInvImplies
<1>. QED
  BY <1>1, QuotaInvariant, PTL

(* The models advertised are those an execution would not skip             *)
(* (filterModelsForQuota and decideQuotaLaneFromQuota).                    *)
THEOREM AdvertisementsAreServed == QuotaSpec => []AdvertisedIsServed
<1>1. QuotaInv => AdvertisedIsServed
  BY QuotaInvImplies
<1>. QED
  BY <1>1, QuotaInvariant, PTL

(* At most two attempts, the second in the bot lane, and never in a bot     *)
(* lane that is locked or empty (retryChatOnOtherModelsLimit).             *)
THEOREM LanesStayLegal == QuotaSpec => []LanesAreLegal
<1>1. QuotaInv => LanesAreLegal
  BY QuotaInvImplies
<1>. QED
  BY <1>1, QuotaInvariant, PTL

-----------------------------------------------------------------------------
(* The registry.                                                            *)
Calling == [pc : {"waiting", "cached", "fetch", "fetched"}, force : BOOLEAN, status : Status]

RegistryTypes ==
  /\ registered \in Nat
  /\ statuses \subseteq Status
  /\ callers \in [Callers -> Calling]

(* A fetch under way is of the version that is registered, or was overtaken. *)
FetchesCurrent ==
  \A c \in Callers : callers[c].pc = "fetch" =>
    callers[c].status.version = registered \/ callers[c].status.overtaken

RegistryInv == RegistryTypes /\ FetchesCurrent /\ StaleOnlyByOverlap

-----------------------------------------------------------------------------
(* An empty registry has no status that could be stale. *)
LEMMA RegistryInvInit ==
  ASSUME RegistryInit
  PROVE  RegistryInv
BY DEF RegistryInit, RegistryInv, RegistryTypes, FetchesCurrent, StaleOnlyByOverlap,
       NotCalling, NoStatus, Calling, Status

(* After a registration every fetch under way has been overtaken. *)
LEMMA OvertakeLemma ==
  ASSUME RegistryTypes, Overtake
  PROVE  /\ callers' \in [Callers -> Calling]
         /\ \A c \in Callers : callers'[c].pc = "fetch" => callers'[c].status.overtaken
<1>1. ASSUME NEW c \in Callers
      PROVE  /\ callers'[c] \in Calling
             /\ callers'[c].pc = "fetch" => callers'[c].status.overtaken
  <2>1. callers[c] \in Calling
    BY DEF RegistryTypes
  <2>2. CASE callers[c].pc = "fetch"
    <3>1. callers'[c] = [callers[c] EXCEPT !.status = [callers[c].status EXCEPT !.overtaken = TRUE]]
      BY <2>2, Zenon DEF Overtake
    <3>2. callers[c].status \in Status
      BY <2>1 DEF Calling
    <3>3. /\ [callers[c].status EXCEPT !.overtaken = TRUE] \in Status
          /\ [callers[c].status EXCEPT !.overtaken = TRUE].overtaken
      BY <3>2 DEF Status
    <3>. QED
      BY <2>1, <3>1, <3>3 DEF Calling
  <2>3. CASE callers[c].pc # "fetch"
    BY <2>1, <2>3 DEF Overtake
  <2>. QED
    BY <2>2, <2>3
<1>. QED
  BY <1>1 DEF Overtake

-----------------------------------------------------------------------------
(* Every step of the registry and its callers keeps the invariant. *)
LEMMA RegistryInvNext ==
  ASSUME RegistryInv, [RegistryNext]_registryVars
  PROVE  RegistryInv'
<1>. USE DEF RegistryInv
<1>1. CASE RegisterAccount
  BY <1>1, OvertakeLemma DEF RegisterAccount, RegistryTypes, FetchesCurrent, StaleOnlyByOverlap
<1>2. CASE Invalidate
  BY <1>2 DEF Invalidate, RegistryTypes, FetchesCurrent, StaleOnlyByOverlap
<1>3. ASSUME NEW c \in Callers, NEW force \in BOOLEAN, LookUpStatus(c, force)
      PROVE  RegistryInv'
  <2>1. CASE \E s \in statuses :
               callers' = [callers EXCEPT ![c] = [pc |-> "cached", force |-> FALSE, status |-> s]]
    BY <1>3, <2>1 DEF LookUpStatus, RegistryTypes, FetchesCurrent, StaleOnlyByOverlap, Calling
  <2>2. CASE callers' = [callers EXCEPT ![c] =
                           [pc |-> "fetch", force |-> force,
                            status |-> [version |-> registered, overtaken |-> FALSE]]]
    BY <1>3, <2>2 DEF LookUpStatus, RegistryTypes, FetchesCurrent, StaleOnlyByOverlap,
                      Calling, Status
  <2>. QED
    BY <1>3, <2>1, <2>2 DEF LookUpStatus
<1>4. ASSUME NEW c \in Callers, StoreStatus(c)
      PROVE  RegistryInv'
  <2>1. callers[c] \in Calling /\ callers'[c].pc = "fetched" /\ callers' \in [Callers -> Calling]
    BY <1>4 DEF StoreStatus, RegistryTypes, Calling
  <2>2. callers[c].status \in Status
    BY <2>1 DEF Calling
  <2>3. \A d \in Callers : d # c => callers'[d] = callers[d]
    BY <1>4 DEF StoreStatus, RegistryTypes
  <2>. QED
    BY <1>4, <2>1, <2>2, <2>3 DEF StoreStatus, RegistryTypes, FetchesCurrent, StaleOnlyByOverlap
<1>5. ASSUME NEW c \in Callers, RespondStatus(c)
      PROVE  RegistryInv'
  BY <1>5 DEF RespondStatus, RegistryTypes, FetchesCurrent, StaleOnlyByOverlap,
              NotCalling, NoStatus, Calling, Status
<1>6. CASE UNCHANGED registryVars
  BY <1>6 DEF registryVars, RegistryTypes, FetchesCurrent, StaleOnlyByOverlap
<1>. QED
  BY <1>1, <1>2, <1>3, <1>4, <1>5, <1>6 DEF RegistryNext

(* A cached status is about the registered version of the account, unless   *)
(* its fetch was under way at a registration (kernel/status.go).           *)
THEOREM StalenessNeedsOverlap == RegistrySpec => []StaleOnlyByOverlap
<1>1. RegistryInit => RegistryInv
  BY RegistryInvInit
<1>2. RegistryInv /\ [RegistryNext]_registryVars => RegistryInv'
  BY RegistryInvNext
<1>3. RegistryInv => StaleOnlyByOverlap
  BY DEF RegistryInv
<1>. QED
  BY <1>1, <1>2, <1>3, PTL DEF RegistrySpec

-----------------------------------------------------------------------------
(* The catalog.                                                             *)
(* A catalog is filed under the account it was fetched with, unless a       *)
(* switch overtook its fetch.                                              *)
FiledRight(c) == c.of = c.identity \/ c.overtaken

Catalogs == [of : Accounts \union {NoAccount}, identity : Accounts \union {NoAccount},
             overtaken : BOOLEAN]
Pending == [pc : {"idle", "lookup", "wait", "remember", "cached", "fetched"},
            identity : Accounts \union {NoAccount}, got : Catalogs]

CatalogTypes ==
  /\ ide \in [account : Accounts, time : Nat]
  /\ current \in Accounts
  /\ catalog \in Catalogs
  /\ requests \in [Requests -> Pending]

(* What a fetch on its way will be filed under is the account of the moment *)
(* it comes, which is still that of the request if nothing has overtaken it. *)
FilingInv ==
  /\ FiledRight(catalog)
  /\ \A r \in Requests :
       /\ requests[r].pc = "wait" => requests[r].got.of = current \/ requests[r].got.overtaken
       /\ requests[r].pc = "remember" => FiledRight(requests[r].got)

CatalogInv == CatalogTypes /\ FilingInv /\ CatalogIsOwn

-----------------------------------------------------------------------------
(* Before the first request there is no catalog. *)
LEMMA CatalogInvInit ==
  ASSUME CatalogInit
  PROVE  CatalogInv
BY DEF CatalogInit, CatalogInv, CatalogTypes, FilingInv, CatalogIsOwn, FiledRight,
       NoCatalog, NoRequest, Catalogs, Pending

(* Asking for the account leaves it one of the user's. *)
LEMMA CurrentAccountType ==
  ASSUME CatalogTypes, CurrentAccount
  PROVE  current' \in Accounts
BY DEF CatalogTypes, CurrentAccount

(* A step that asks for the account and changes one request: the others     *)
(* that wait are overtaken if the account changes, and keep all else.      *)
LEMMA RequestedLemma ==
  ASSUME CatalogInv, CurrentAccount, UNCHANGED <<ide, catalog>>,
         NEW r \in Requests, NEW request \in Pending, Requested(r, request),
         request.pc \notin {"cached"},
         request.pc = "wait" => request.got.of = current' \/ request.got.overtaken,
         request.pc = "remember" => FiledRight(request.got)
  PROVE  CatalogInv'
<1>1. requests[r] \in Pending /\ current' \in Accounts
  BY CurrentAccountType DEF CatalogInv, CatalogTypes
<1>2. ASSUME NEW q \in Requests, q # r
      PROVE  /\ requests'[q] \in Pending
             /\ requests'[q].pc = requests[q].pc
             /\ requests'[q].identity = requests[q].identity
             /\ requests'[q].got.of = requests[q].got.of
             /\ requests'[q].got.identity = requests[q].got.identity
             /\ requests[q].got.overtaken => requests'[q].got.overtaken
             /\ requests[q].pc = "wait" /\ current' # current => requests'[q].got.overtaken
             /\ requests[q].pc # "wait" => requests'[q] = requests[q]
  <2>1. requests[q] \in Pending
    BY DEF CatalogInv, CatalogTypes
  <2>2. requests'[q] = IF current' # current /\ requests[q].pc = "wait"
                       THEN [requests[q] EXCEPT !.got.overtaken = TRUE]
                       ELSE requests[q]
    BY <1>2 DEF Requested
  <2>3. CASE current' # current /\ requests[q].pc = "wait"
    <3>1. requests'[q] = [requests[q] EXCEPT !.got = [requests[q].got EXCEPT !.overtaken = TRUE]]
      BY <2>2, <2>3, Zenon
    <3>2. requests[q].got \in Catalogs
      BY <2>1 DEF Pending
    <3>3. [requests[q].got EXCEPT !.overtaken = TRUE] \in Catalogs
      BY <3>2 DEF Catalogs
    <3>4. requests'[q].got = [requests[q].got EXCEPT !.overtaken = TRUE]
      BY <2>1, <3>1 DEF Pending
    <3>. QED
      BY <2>1, <2>3, <3>1, <3>2, <3>3, <3>4 DEF Pending, Catalogs
  <2>4. CASE ~(current' # current /\ requests[q].pc = "wait")
    BY <2>1, <2>2, <2>4
  <2>. QED
    BY <2>3, <2>4
<1>3. requests'[r] = request
  BY DEF Requested
<1>4. requests' \in [Requests -> Pending]
  <2>1. \A q \in Requests : requests'[q] \in Pending
    BY <1>2, <1>3
  <2>. QED
    BY <2>1 DEF Requested
<1>5. CatalogTypes'
  BY <1>1, <1>4 DEF CatalogInv, CatalogTypes
<1>6. FilingInv'
  BY <1>2, <1>3 DEF CatalogInv, FilingInv, FiledRight
<1>7. CatalogIsOwn'
  BY <1>2, <1>3 DEF CatalogInv, CatalogIsOwn
<1>. QED
  BY <1>5, <1>6, <1>7 DEF CatalogInv

(* A step that changes one request and neither the account nor the IDE.     *)
LEMMA OneRequestLemma ==
  ASSUME CatalogInv, UNCHANGED current, ide' \in [account : Accounts, time : Nat],
         catalog' \in Catalogs, FiledRight(catalog'),
         NEW r \in Requests, NEW request \in Pending,
         requests' = [requests EXCEPT ![r] = request],
         request.pc \notin {"wait", "remember"},
         request.pc = "cached" => request.got.of = request.identity \/ request.got.overtaken
  PROVE  CatalogInv'
<1>1. CatalogTypes'
  BY DEF CatalogInv, CatalogTypes
<1>2. FilingInv'
  BY DEF CatalogInv, CatalogTypes, FilingInv, FiledRight
<1>3. CatalogIsOwn'
  BY DEF CatalogInv, CatalogTypes, CatalogIsOwn
<1>. QED
  BY <1>1, <1>2, <1>3 DEF CatalogInv

-----------------------------------------------------------------------------
(* Every step of the reloader, the cache and the requests keeps it. *)
LEMMA CatalogInvNext ==
  ASSUME CatalogInv, [CatalogNext]_catalogVars
  PROVE  CatalogInv'
<1>. USE DEF CatalogInv
<1>1. ASSUME NEW a \in Accounts, SwitchAccount(a)
      PROVE  CatalogInv'
  BY <1>1 DEF SwitchAccount, CatalogTypes, FilingInv, CatalogIsOwn, FiledRight
<1>2. ASSUME NEW r \in Requests, Resolve(r)
      PROVE  CatalogInv'
  <2>1. [NoRequest EXCEPT !.pc = "lookup", !.identity = current'] \in Pending
    BY <1>2, CurrentAccountType DEF Resolve, NoRequest, NoCatalog, Pending, Catalogs
  <2>. QED
    BY <1>2, <2>1, RequestedLemma DEF Resolve, NoRequest
<1>3. ASSUME NEW r \in Requests, UseCached(r)
      PROVE  CatalogInv'
  <2>. DEFINE request == [requests[r] EXCEPT !.pc = "cached", !.got = catalog]
  <2>1. request \in Pending /\ requests[r] \in Pending
    BY DEF CatalogTypes, Pending
  <2>2. request.pc = "cached" /\ request.got = catalog /\ request.identity = requests[r].identity
    BY <2>1 DEF Pending
  <2>3. requests' = [requests EXCEPT ![r] = request]
    BY <1>3, <2>1 DEF UseCached, Pending, CatalogTypes
  <2>4. request.got.of = request.identity \/ request.got.overtaken
    BY <1>3, <2>2 DEF UseCached, FilingInv, FiledRight
  <2>. HIDE DEF request
  <2>. QED
    BY <1>3, <2>1, <2>2, <2>3, <2>4, OneRequestLemma
       DEF UseCached, CatalogTypes, FilingInv, FiledRight
<1>4. ASSUME NEW r \in Requests, FetchCatalog(r)
      PROVE  CatalogInv'
  <2>. DEFINE request == [requests[r] EXCEPT !.pc = "wait", !.got = [NoCatalog EXCEPT !.of = current']]
  <2>1. request \in Pending /\ request.pc = "wait" /\ request.got.of = current'
    BY <1>4, CurrentAccountType DEF FetchCatalog, CatalogTypes, NoCatalog, Pending, Catalogs
  <2>. QED
    BY <1>4, <2>1, RequestedLemma DEF FetchCatalog
<1>5. ASSUME NEW r \in Requests, CatalogComes(r)
      PROVE  CatalogInv'
  <2>. DEFINE request == [requests[r] EXCEPT !.pc = "remember", !.got.identity = current',
                                             !.got.overtaken = @ \/ current' # current]
  <2>1. requests[r] \in Pending /\ current' \in Accounts
    BY <1>5, CurrentAccountType DEF CatalogComes, CatalogTypes
  <2>2. /\ request \in Pending
        /\ request.pc = "remember"
        /\ request.got.identity = current'
        /\ request.got.of = requests[r].got.of
        /\ request.got.overtaken <=> requests[r].got.overtaken \/ current' # current
    BY <2>1 DEF Pending, Catalogs
  <2>3. FiledRight(request.got)
    BY <1>5, <2>2 DEF CatalogComes, FilingInv, FiledRight
  <2>. QED
    BY <1>5, <2>2, <2>3, RequestedLemma DEF CatalogComes
<1>6. ASSUME NEW r \in Requests, CatalogFails(r)
      PROVE  CatalogInv'
  <2>1. NoRequest \in Pending /\ NoRequest.pc = "idle"
    BY DEF NoRequest, NoCatalog, Pending, Catalogs
  <2>. QED
    BY <1>6, <2>1, OneRequestLemma DEF CatalogFails, CatalogTypes, FilingInv
<1>7. ASSUME NEW r \in Requests, RememberModelCatalog(r)
      PROVE  CatalogInv'
  <2>. DEFINE request == [requests[r] EXCEPT !.pc = "fetched"]
  <2>1. requests[r] \in Pending /\ request \in Pending /\ request.pc = "fetched"
    BY DEF CatalogTypes, Pending
  <2>2. requests' = [requests EXCEPT ![r] = request]
    BY <1>7 DEF RememberModelCatalog
  <2>3. catalog' \in Catalogs /\ FiledRight(catalog')
    BY <1>7, <2>1 DEF RememberModelCatalog, FilingInv, Pending
  <2>. HIDE DEF request
  <2>. QED
    BY <1>7, <2>1, <2>2, <2>3, OneRequestLemma DEF RememberModelCatalog, CatalogTypes
<1>8. ASSUME NEW r \in Requests, Resolved(r)
      PROVE  CatalogInv'
  <2>1. NoRequest \in Pending /\ NoRequest.pc = "idle"
    BY DEF NoRequest, NoCatalog, Pending, Catalogs
  <2>. QED
    BY <1>8, <2>1, OneRequestLemma DEF Resolved, CatalogTypes, FilingInv
<1>9. CASE UNCHANGED catalogVars
  BY <1>9 DEF catalogVars, CatalogTypes, FilingInv, CatalogIsOwn, FiledRight
<1>. QED
  BY <1>1, <1>2, <1>3, <1>4, <1>5, <1>6, <1>7, <1>8, <1>9 DEF CatalogNext

(* A request that resolves its model from the cache does it against the     *)
(* catalog of its own account, but for a catalog whose fetch a switch of    *)
(* accounts overtook (executor/models.go).                                 *)
THEOREM CachedCatalogIsOwn == CatalogSpec => []CatalogIsOwn
<1>1. CatalogInit => CatalogInv
  BY CatalogInvInit
<1>2. CatalogInv /\ [CatalogNext]_catalogVars => CatalogInv'
  BY CatalogInvNext
<1>3. CatalogInv => CatalogIsOwn
  BY DEF CatalogInv
<1>. QED
  BY <1>1, <1>2, <1>3, PTL DEF CatalogSpec
=============================================================================
