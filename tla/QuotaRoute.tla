----------------------------- MODULE QuotaRoute -----------------------------
(***************************************************************************)
(* How the plugin routes by quota (plugin/cursor/kernel/quota_route.go and *)
(* the retry in execute.go): the models it advertises for an account and   *)
(* the lane an execution takes are both decided by the account's quota.    *)
(* The quota is cached for CacheTtl; the lookup and the fetch that stores  *)
(* its answer are separate steps, so the fetches of one account overlap.   *)
(*                                                                         *)
(* Cursor's answers, the account's quota and the failures of an attempt    *)
(* are chosen freely.  Steps that wait for nobody take no time.            *)
(***************************************************************************)
EXTENDS Naturals

CONSTANTS
  HostCalls,     \* host calls about one account
  Quotas,        \* the quotas the account may have
  CacheTtl,      \* quotaCacheTTL
  HttpTimeout,   \* the timeout of the account's HTTP client: 30 s
  LastTick       \* bound: the clock stops here

(* The classes modelQuotaBucket puts models in. *)
Buckets == {"cursor", "other", "bot"}

(* accountQuota, each bar by whether it is full. *)
QuotaRecords ==
  [autoFull : BOOLEAN, slowPool : BOOLEAN, noUsageBased : BOOLEAN,
   botFetched : BOOLEAN, botUnlocked : BOOLEAN, botAvailable : BOOLEAN,
   otherFetched : BOOLEAN, otherFull : BOOLEAN]

ASSUME QuotaAssumption ==
  /\ Quotas \subseteq QuotaRecords /\ Quotas # {}
  /\ CacheTtl \in Nat \ {0} /\ HttpTimeout \in Nat \ {0} /\ LastTick \in Nat

VARIABLES
  now,         \* the clock
  account,     \* the quota the account has
  quotaCache,  \* the cache's entry for the account, if there is one
  calls        \* the host calls

quotaVars == <<now, account, quotaCache, calls>>

(* The cache's entry for what a fetch came back with. *)
Entry(a) == [answer |-> a, at |-> now]
Fresh(e) == now < e.at + CacheTtl

ZeroQuota == [autoFull |-> FALSE, slowPool |-> FALSE, noUsageBased |-> FALSE,
              botFetched |-> FALSE, botUnlocked |-> FALSE, botAvailable |-> FALSE,
              otherFetched |-> FALSE, otherFull |-> FALSE]
Failed == [quota |-> ZeroQuota, ok |-> FALSE, seen |-> now]

IdleCall == [pc |-> "idle", kind |-> "none", bucket |-> "none", since |-> 0,
         got |-> [quota |-> ZeroQuota, ok |-> FALSE, seen |-> 0],
         lane |-> "none", attempts |-> 0, kept |-> {}]

QuotaInit ==
  /\ now = 0 /\ quotaCache = {}
  /\ account \in Quotas
  /\ calls = [c \in HostCalls |-> IdleCall]

(***************************************************************************)
(* What a quota says.                                                      *)
(***************************************************************************)
QuotaExhaustedBot(q) == q.botFetched /\ (~q.botUnlocked \/ ~q.botAvailable)
BotCanOverflow(q) == q.botFetched /\ q.botUnlocked /\ q.botAvailable
QuotaExhaustedOther(q) == q.slowPool /\ q.noUsageBased
ShouldOverflowOtherToBot(q) ==
  BotCanOverflow(q) /\ (QuotaExhaustedOther(q) \/ (q.otherFetched /\ q.otherFull))

NativeBucketExhausted(q, bucket) ==
  \/ bucket = "cursor" /\ q.autoFull
  \/ bucket = "other" /\ QuotaExhaustedOther(q)
  \/ bucket = "bot" /\ QuotaExhaustedBot(q)

\* Mutant of FilterModelsForQuota: the overflow into the bot lane is forgotten.
FilterWithoutOverflow(q) == {b \in Buckets : ~NativeBucketExhausted(q, b)}

(* filterModelsForQuota, by the buckets of the models it keeps. *)
FilterModelsForQuota(q) ==
  {b \in Buckets : \/ ~NativeBucketExhausted(q, b)
                   \/ b # "bot" /\ BotCanOverflow(q)}

(* decideQuotaLaneFromQuota: the lane, or "skip". *)
DecideQuotaLane(q, bucket) ==
  CASE bucket = "other" /\ ShouldOverflowOtherToBot(q)          -> "bot"
    [] bucket # "bot" /\ NativeBucketExhausted(q, bucket)       ->
         IF BotCanOverflow(q) THEN "bot" ELSE "skip"
    [] bucket = "bot"                                           ->
         IF QuotaExhaustedBot(q) THEN "skip" ELSE "bot"
    [] OTHER                                                    -> "native"

(***************************************************************************)
(* loadAccountQuota.                                                       *)
(***************************************************************************)
SetCall(c, r) == calls' = [calls EXCEPT ![c] = r]

BeginCall(c, kind, bucket) ==
  /\ calls[c] = IdleCall
  /\ SetCall(c, [IdleCall EXCEPT !.pc = "load", !.kind = kind, !.bucket = bucket])
  /\ UNCHANGED <<now, account, quotaCache>>

\* Mutant of LoadCached: reading an entry renews it.
LoadCachedRenews(c) ==
  /\ calls[c].pc = "load"
  /\ \E e \in quotaCache :
       /\ Fresh(e)
       /\ quotaCache' = {Entry(e.answer)}
       /\ SetCall(c, [calls[c] EXCEPT !.pc = "loaded", !.got = e.answer])
  /\ UNCHANGED <<now, account>>

LoadCached(c) ==
  /\ calls[c].pc = "load"
  /\ \E e \in quotaCache :
       /\ Fresh(e)
       /\ SetCall(c, [calls[c] EXCEPT !.pc = "loaded", !.got = e.answer])
  /\ UNCHANGED <<now, account, quotaCache>>

StartFetch(c) ==
  /\ calls[c].pc = "load"
  /\ \A e \in quotaCache : ~Fresh(e)
  /\ SetCall(c, [calls[c] EXCEPT !.pc = "fetch", !.since = now])
  /\ UNCHANGED <<now, account, quotaCache>>

(* Cursor looks the quota up; the answer is on its way. *)
CursorAnswers(c) ==
  /\ calls[c].pc = "fetch"
  /\ SetCall(c, [calls[c] EXCEPT !.pc = "answered",
                             !.got = [quota |-> account, ok |-> TRUE, seen |-> now]])
  /\ UNCHANGED <<now, account, quotaCache>>

(* The fetch returns, with the answer or, after an error or the timeout of  *)
(* the HTTP client, with ok = false; either is stored.                     *)
FetchReturns(c) ==
  /\ \E a \in {calls[c].got, Failed} :
       /\ \/ calls[c].pc = "answered"
          \/ calls[c].pc = "fetch" /\ a = Failed
       /\ quotaCache' = {Entry(a)}
       /\ SetCall(c, [calls[c] EXCEPT !.pc = "loaded", !.since = 0, !.got = a])
  /\ UNCHANGED <<now, account>>

(***************************************************************************)
(* What the quota is loaded for.                                           *)
(***************************************************************************)
(* handleModelsForAuth: without a quota nothing is filtered. *)
ListModels(c) ==
  /\ calls[c].pc = "loaded" /\ calls[c].kind = "models"
  /\ SetCall(c, [calls[c] EXCEPT
               !.pc = "listed",
               !.kept = IF calls[c].got.ok THEN FilterModelsForQuota(calls[c].got.quota)
                        ELSE Buckets])
  /\ UNCHANGED <<now, account, quotaCache>>

ReturnModels(c) ==
  /\ calls[c].pc = "listed"
  /\ SetCall(c, IdleCall)
  /\ UNCHANGED <<now, account, quotaCache>>

RunChat(c, lane) ==
  SetCall(c, [calls[c] EXCEPT !.pc = "run", !.lane = lane, !.attempts = @ + 1])

(* applyQuotaLane and the attempt in the lane it chose.  Without a quota    *)
(* the lane is native.                                                     *)
Route(c) ==
  LET lane == IF calls[c].got.ok THEN DecideQuotaLane(calls[c].got.quota, calls[c].bucket)
              ELSE "native"
  IN  /\ calls[c].pc = "loaded" /\ calls[c].kind = "execute" /\ calls[c].attempts = 0
      /\ \/ lane = "skip" /\ SetCall(c, IdleCall)
         \/ lane # "skip" /\ RunChat(c, lane)
      /\ UNCHANGED <<now, account, quotaCache>>

(* The attempt succeeds, or fails for a reason that is returned to the host. *)
FinishChat(c) ==
  /\ calls[c].pc = "run"
  /\ SetCall(c, IdleCall)
  /\ UNCHANGED <<now, account, quotaCache>>

\* Mutant of HitLimit: a refusal in the bot lane is retried as well.
HitLimitAgain(c) ==
  /\ calls[c].pc = "run"
  /\ SetCall(c, [calls[c] EXCEPT !.pc = "load"])
  /\ UNCHANGED <<now, account, quotaCache>>

(* Cursor refuses the attempt because the bar of other models is full: the  *)
(* quota is loaded again, unless the attempt was in the bot lane.          *)
HitLimit(c) ==
  /\ calls[c].pc = "run" /\ calls[c].lane # "bot"
  /\ SetCall(c, [calls[c] EXCEPT !.pc = "load"])
  /\ UNCHANGED <<now, account, quotaCache>>

(* retryChatOnOtherModelsLimit. *)
RetryInBot(c) ==
  /\ calls[c].pc = "loaded" /\ calls[c].kind = "execute" /\ calls[c].attempts > 0
  /\ IF calls[c].got.ok /\ BotCanOverflow(calls[c].got.quota)
     THEN RunChat(c, "bot")
     ELSE SetCall(c, IdleCall)
  /\ UNCHANGED <<now, account, quotaCache>>

(***************************************************************************)
(* Cursor's side of the account, and time.  Only a fetch and an attempt    *)
(* take time.  The RPCs of a fetch run in parallel, and each ends when the *)
(* HTTP client gives it up: the 8 s of quotaFetchTimeout are those of a    *)
(* context that usage.Client.call discards.                                *)
(***************************************************************************)
AccountChanges ==
  /\ account' \in Quotas
  /\ UNCHANGED <<now, quotaCache, calls>>

Waits(c) ==
  \/ calls[c].pc \notin {"load", "loaded", "fetch", "answered"}
  \/ calls[c].pc \in {"fetch", "answered"} /\ now < calls[c].since + HttpTimeout

Tick ==
  /\ now < LastTick
  /\ \A c \in HostCalls : Waits(c)
  /\ now' = now + 1
  /\ UNCHANGED <<account, quotaCache, calls>>

CallStep(c) ==
  \/ BeginCall(c, "models", "none") \/ \E bucket \in Buckets : BeginCall(c, "execute", bucket)
  \/ LoadCached(c) \/ StartFetch(c) \/ CursorAnswers(c) \/ FetchReturns(c)
  \/ ListModels(c) \/ ReturnModels(c)
  \/ Route(c) \/ HitLimit(c) \/ RetryInBot(c) \/ FinishChat(c)

QuotaNext == AccountChanges \/ Tick \/ \E c \in HostCalls : CallStep(c)

QuotaSpec == QuotaInit /\ [][QuotaNext]_quotaVars

(***************************************************************************)
(* Properties.                                                             *)
(***************************************************************************)
(* A decision is never made on a quota the account had longer ago than the  *)
(* cache's time to live and the HTTP client's timeout together, although   *)
(* the later of two overlapping fetches may be the one with the older      *)
(* answer, which is then stored over the newer.                            *)
QuotaIsRecent ==
  \A c \in HostCalls :
    calls[c].pc = "loaded" => now < calls[c].got.seen + CacheTtl + HttpTimeout

(* The models advertised for an account are those an execution with the     *)
(* same quota would not skip, so the host is never sent to an account that  *)
(* refuses what it advertised, nor kept from one that would serve it.      *)
AdvertisedIsServed ==
  \A c \in HostCalls :
    calls[c].pc = "listed" /\ calls[c].got.ok =>
      \A b \in Buckets : b \in calls[c].kept <=> DecideQuotaLane(calls[c].got.quota, b) # "skip"

(* An execution makes at most two attempts, the second in the bot lane, and *)
(* it never enters that lane on a quota that says the bot bar is locked or  *)
(* empty, or on none.                                                      *)
LanesAreLegal ==
  \A c \in HostCalls :
    /\ calls[c].attempts <= 2
    /\ calls[c].attempts = 2 => calls[c].lane = "bot"
    /\ calls[c].pc = "run" /\ calls[c].lane = "bot" =>
         calls[c].got.ok /\ ~QuotaExhaustedBot(calls[c].got.quota)
=============================================================================
