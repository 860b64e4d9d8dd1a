--------------------------- MODULE SidecarProofs ---------------------------
(***************************************************************************)
(* Proofs about Sidecar, for any requests, proxies, limit of the semaphore *)
(* and number of chunks.                                                   *)
(***************************************************************************)
EXTENDS Sidecar, FiniteSetTheorems, TLAPS

(* A continuation that is ready is the only one, so whoever was granted a   *)
(* slot finds it.                                                          *)
OneReady ==
  \A r, s \in Requests : at[r] \in {"granted", "start"} /\ at[s] \in {"granted", "start"} => r = s

Granted == \E r \in Requests : at[r] = "granted"

(* A slot that is granted and not yet taken is not counted, but spoken for. *)
SlotsSpokenFor ==
  /\ Granted => active + 1 <= MaxConcurrency
  /\ Granted /\ waiters # <<>> => active + 1 = MaxConcurrency
  /\ ~Granted => active <= MaxConcurrency
  /\ ~Granted /\ waiters # <<>> => active = MaxConcurrency

InQueue(r) == \E i \in 1 .. Len(waiters) : waiters[i] = r

QueueInv ==
  /\ \A i, j \in 1 .. Len(waiters) : waiters[i] = waiters[j] => i = j
  /\ \A r \in Requests : at[r] = "queued" <=> InQueue(r)

SlotInv ==
  /\ active = Cardinality(Holders)
  /\ OneReady
  /\ SlotsSpokenFor
  /\ QueueInv

(* What a client was sent, against what the page has read for it. *)
Relayed(r) ==
  /\ at[r] \notin {"fetch", "closing"} => fetch[r] = NoFetch /\ response[r] = NoResponse
  /\ at[r] = "fetch" =>
       /\ fetch[r].n = IF fetch[r].phase = "chunk" THEN response[r].sent + 1 ELSE response[r].sent
       /\ fetch[r].phase \in {"ending", "ended"} => fetch[r].done
       /\ response[r].ended => fetch[r].phase = "ended"
  /\ response[r].status = "upstream" /\ response[r].ended /\ ~response[r].notice =>
       fetch[r].done /\ response[r].sent = fetch[r].n

RelayInv == \A r \in Requests : Relayed(r)

(* A bridge that is known, to the map or to a handler, listens. *)
Listens(b, p) == b # 0 => b \in 1 .. Len(bridges) /\ bridges[b] = p

BridgeInv ==
  /\ \A p \in Proxies : Listens(proxyBridges[p], p)
  /\ \A r \in Requests : Listens(job[r].bridge, job[r].route)
  /\ \A r \in Requests : at[r] = "none" => job[r].bridge = 0
  /\ \A r \in Requests : at[r] = "bridge" => job[r].route \in Proxies

(* Shutdown closes bridges only after every connection has ended, and none  *)
(* is made then.                                                           *)
ShutInv ==
  /\ process \in {"running", "server", "context"} => shut = {}
  /\ process \notin {"running", "server"} => \A r \in Requests : Served(r)

SidecarInv == SidecarTypeOK /\ SlotInv /\ RelayInv /\ BridgeInv /\ ShutInv

-----------------------------------------------------------------------------
(* Types.                                                                   *)
LEMMA TypeInit ==
  ASSUME SidecarAssumption, SidecarInit
  PROVE  SidecarTypeOK
BY DEF SidecarAssumption, SidecarInit, SidecarTypeOK, Routes, Places, Holding, Jobs, Fetches, Responses,
       NoJob, NoFetch, NoResponse

(* Records stay of their types when a field is set. *)
LEMMA FieldTypes ==
  /\ \A j \in Jobs :
       /\ \A x \in Routes : [j EXCEPT !.route = x] \in Jobs
       /\ \A x \in Nat : [j EXCEPT !.bridge = x] \in Jobs
       /\ \A x \in {"open", "closed"} : [j EXCEPT !.page = x] \in Jobs
  /\ \A f \in Fetches :
       /\ [f EXCEPT !.phase = "chunk", !.n = f.n + 1] \in Fetches
       /\ [f EXCEPT !.phase = "ending", !.done = TRUE] \in Fetches
       /\ [f EXCEPT !.aborted = TRUE] \in Fetches
       /\ \A x \in {"sent", "starting", "reading", "drain", "ended"} :
            [f EXCEPT !.phase = x] \in Fetches
  /\ \A resp \in Responses :
       /\ [resp EXCEPT !.status = "upstream"] \in Responses
       /\ [resp EXCEPT !.sent = resp.sent + 1] \in Responses
       /\ [resp EXCEPT !.ended = TRUE] \in Responses
       /\ [Told(resp) EXCEPT !.notice = TRUE] \in Responses
<1>1. ASSUME NEW j \in Jobs
      PROVE  /\ \A x \in Routes : [j EXCEPT !.route = x] \in Jobs
             /\ \A x \in Nat : [j EXCEPT !.bridge = x] \in Jobs
             /\ \A x \in {"open", "closed"} : [j EXCEPT !.page = x] \in Jobs
  BY DEF Jobs
<1>2. ASSUME NEW f \in Fetches
      PROVE  /\ [f EXCEPT !.phase = "chunk", !.n = f.n + 1] \in Fetches
             /\ [f EXCEPT !.phase = "ending", !.done = TRUE] \in Fetches
             /\ [f EXCEPT !.aborted = TRUE] \in Fetches
             /\ \A x \in {"sent", "starting", "reading", "drain", "ended"} :
                  [f EXCEPT !.phase = x] \in Fetches
  <2>1. [f EXCEPT !.phase = "chunk", !.n = f.n + 1] \in Fetches
    <3>1. f.n + 1 \in Nat
      BY DEF Fetches
    <3>2. \A x \in Nat : [f EXCEPT !.phase = "chunk", !.n = x] \in Fetches
      BY DEF Fetches
    <3>. QED
      BY <3>1, <3>2, Zenon
  <2>2. [f EXCEPT !.phase = "ending", !.done = TRUE] \in Fetches
    BY DEF Fetches
  <2>3. [f EXCEPT !.aborted = TRUE] \in Fetches
    BY DEF Fetches
  <2>4. \A x \in {"sent", "starting", "reading", "drain", "ended"} :
          [f EXCEPT !.phase = x] \in Fetches
    BY DEF Fetches
  <2>. QED
    BY <2>1, <2>2, <2>3, <2>4
<1>3. ASSUME NEW resp \in Responses
      PROVE  /\ [resp EXCEPT !.status = "upstream"] \in Responses
             /\ [resp EXCEPT !.sent = resp.sent + 1] \in Responses
             /\ [resp EXCEPT !.ended = TRUE] \in Responses
             /\ [Told(resp) EXCEPT !.notice = TRUE] \in Responses
  <2>1. Told(resp) \in Responses
    BY DEF Responses, Told
  <2>2. [Told(resp) EXCEPT !.notice = TRUE] \in Responses
    BY <2>1 DEF Responses
  <2>3. [resp EXCEPT !.status = "upstream"] \in Responses
    BY DEF Responses
  <2>4. [resp EXCEPT !.sent = resp.sent + 1] \in Responses
    BY DEF Responses
  <2>5. [resp EXCEPT !.ended = TRUE] \in Responses
    BY DEF Responses
  <2>. QED
    BY <2>2, <2>3, <2>4, <2>5
<1>. QED
  BY <1>1, <1>2, <1>3, Zenon

(* The slot of a handler that holds one is counted. *)
LEMMA HolderIsCounted ==
  ASSUME SidecarAssumption, active = Cardinality(Holders), NEW r \in Requests, at[r] \in Holding
  PROVE  /\ IsFiniteSet(Holders)
         /\ active \in Nat /\ active - 1 \in Nat
         /\ Cardinality(Holders \ {r}) = active - 1
<1>1. IsFiniteSet(Holders)
  BY FS_Subset DEF SidecarAssumption, Holders
<1>2. r \in Holders
  BY DEF Holders
<1>3. IsFiniteSet(Holders \ {r}) /\ Cardinality(Holders \ {r}) = Cardinality(Holders) - 1
  BY <1>1, <1>2, FS_RemoveElement
<1>4. Cardinality(Holders) \in Nat /\ Cardinality(Holders \ {r}) \in Nat
  BY <1>1, <1>3, FS_CardinalityType
<1>. QED
  BY <1>1, <1>3, <1>4

LEMMA ReleaseTypes ==
  ASSUME SidecarAssumption, SidecarTypeOK, active = Cardinality(Holders),
         NEW r \in Requests, at[r] \in Holding, Release(r)
  PROVE  active' \in Nat /\ waiters' \in Seq(Requests) /\ at' \in [Requests -> Places]
<1>1. active' \in Nat
  BY HolderIsCounted DEF Release
<1>2. CASE waiters = <<>>
  BY <1>1, <1>2 DEF Release, Goes, SidecarTypeOK, Places, Holding
<1>3. CASE waiters # <<>>
  <2>1. waiters \in Seq(Requests)
    BY DEF SidecarTypeOK
  <2>2. Head(waiters) \in Requests /\ Tail(waiters) \in Seq(Requests)
    BY <1>3, <2>1
  <2>3. at' \in [Requests -> Places]
    BY <1>3, <2>2 DEF Release, SidecarTypeOK, Places, Holding
  <2>. QED
    BY <1>1, <1>3, <2>2, <2>3 DEF Release
<1>. QED
  BY <1>2, <1>3

LEMMA TypeNext ==
  ASSUME SidecarAssumption, SidecarInv, SidecarNext
  PROVE  SidecarTypeOK'
<1>1. NoJob \in Jobs /\ NoFetch \in Fetches /\ NoResponse \in Responses
  BY DEF NoJob, NoFetch, NoResponse, Jobs, Fetches, Responses, Routes
<1>. SidecarTypeOK /\ active = Cardinality(Holders)
  BY DEF SidecarInv, SlotInv
<1>. USE <1>1 DEF SidecarTypeOK, Places, Holding, processVars
<1>2. ASSUME NEW r \in Requests, NEW route \in Routes, Arrive(r, route)
      PROVE  SidecarTypeOK'
  BY <1>2, FieldTypes DEF Arrive, Quiet, Up, Goes
<1>3. ASSUME NEW r \in Requests, Refuse(r)
      PROVE  SidecarTypeOK'
  BY <1>3 DEF Refuse, Goes, Forget
<1>4. ASSUME NEW r \in Requests, BodyRead(r)
      PROVE  SidecarTypeOK'
  <2>1. waiters' \in Seq(Requests) /\ active' \in Nat
    <3>1. active' = active + 1 \/ active' = active
      BY <1>4 DEF BodyRead, Acquire
    <3>2. waiters' = Append(waiters, r) \/ waiters' = waiters
      BY <1>4 DEF BodyRead, Acquire
    <3>3. waiters \in Seq(Requests) /\ active \in Nat
      OBVIOUS
    <3>4. Append(waiters, r) \in Seq(Requests)
      BY <3>3
    <3>5. active' \in Nat
      BY <3>1, <3>3
    <3>. QED
      BY <3>2, <3>3, <3>4, <3>5
  <2>2. at' \in [Requests -> Places]
    BY <1>4 DEF BodyRead, Acquire, Goes
  <2>. QED
    BY <1>4, <2>1, <2>2 DEF BodyRead
<1>5. ASSUME NEW r \in Requests, TakeSlot(r)
      PROVE  SidecarTypeOK'
  <2>1. active' \in Nat /\ at' \in [Requests -> Places]
    BY <1>5 DEF TakeSlot, Goes
  <2>. QED
    BY <1>5, <2>1 DEF TakeSlot
<1>6. ASSUME NEW r \in Requests, Start(r)
      PROVE  SidecarTypeOK'
  <2>1. CASE Release(r) /\ Forget(r) /\ client[r] = "gone"
    <3>1. active' \in Nat /\ waiters' \in Seq(Requests) /\ at' \in [Requests -> Places]
      BY <1>6, <2>1, ReleaseTypes DEF Start
    <3>2. /\ client' \in [Requests -> {"away", "connected", "gone"}]
          /\ job' \in [Requests -> Jobs]
          /\ fetch' \in [Requests -> Fetches] /\ response' \in [Requests -> Responses]
      BY FieldTypes, <2>1 DEF Forget
    <3>. QED
      BY <1>6, <3>1, <3>2 DEF Start
  <2>2. CASE client[r] # "gone"
    <3>1. UNCHANGED <<processVars, active, waiters, bridges, proxyBridges, client, fetch>>
      BY <1>6, <2>2 DEF Start
    <3>2. CASE job[r].route \in Proxies /\ FindBridge(r, job[r].route) /\ UNCHANGED response
      <4>1. at' \in [Requests -> Places]
        BY <3>2 DEF FindBridge, Goes
      <4>2. job' \in [Requests -> Jobs]
        <5>1. proxyBridges[job[r].route] \in Nat
          BY <3>2
        <5>2. job' = job \/ job' = [job EXCEPT ![r].bridge = proxyBridges[job[r].route]]
          BY <3>2 DEF FindBridge
        <5>3. [job[r] EXCEPT !.bridge = proxyBridges[job[r].route]] \in Jobs
          BY FieldTypes, <5>1
        <5>. QED
          BY <5>2, <5>3
      <4>. QED
        BY <3>1, <3>2, <4>1, <4>2
    <3>3. CASE Goes(r, "page") /\ UNCHANGED <<job, response>>
      BY <3>1, <3>3 DEF Goes
    <3>4. CASE Fail(r) /\ UNCHANGED job
      <4>1. at' \in [Requests -> Places]
        BY <3>4 DEF Fail, Goes
      <4>2. response' \in [Requests -> Responses]
        BY FieldTypes, <3>4 DEF Fail
      <4>. QED
        BY <3>1, <3>4, <4>1, <4>2
    <3>. QED
      BY <1>6, <2>2, <3>2, <3>3, <3>4 DEF Start
  <2>. QED
    BY <1>6, <2>1, <2>2 DEF Start
<1>7. ASSUME NEW r \in Requests, BridgeListens(r)
      PROVE  SidecarTypeOK'
  <2>1. job[r].route \in Proxies
    BY <1>7 DEF BridgeListens, SidecarInv, BridgeInv
  <2>2. bridges' \in Seq(Proxies) /\ Len(bridges') \in Nat
    BY <1>7, <2>1 DEF BridgeListens
  <2>3. proxyBridges' \in [Proxies -> Nat] /\ at' \in [Requests -> Places]
    BY <1>7, <2>1, <2>2 DEF BridgeListens, Goes
  <2>4. job' \in [Requests -> Jobs]
    BY FieldTypes, <1>7, <2>2 DEF BridgeListens
  <2>. QED
    BY <1>7, <2>2, <2>3, <2>4 DEF BridgeListens
<1>8. ASSUME NEW r \in Requests, PageReady(r)
      PROVE  SidecarTypeOK'
  BY <1>8, FieldTypes DEF PageReady, Goes
<1>9. ASSUME NEW r \in Requests, BeginFetch(r)
      PROVE  SidecarTypeOK'
  BY <1>9, FieldTypes DEF BeginFetch, Goes
<1>10. ASSUME NEW r \in Requests, AwaitFails(r)
      PROVE  SidecarTypeOK'
  BY <1>10, FieldTypes DEF AwaitFails, Fail, Goes
<1>11. ASSUME NEW r \in Requests, Finally(r)
      PROVE  SidecarTypeOK'
  <2>1. active' \in Nat /\ waiters' \in Seq(Requests) /\ at' \in [Requests -> Places]
    BY <1>11, ReleaseTypes DEF Finally
  <2>2. /\ client' \in [Requests -> {"away", "connected", "gone"}]
        /\ job' \in [Requests -> Jobs]
        /\ fetch' \in [Requests -> Fetches] /\ response' \in [Requests -> Responses]
    BY FieldTypes, <1>11 DEF Finally, Forget
  <2>. QED
    BY <1>11, <2>1, <2>2 DEF Finally
<1>12. ASSUME NEW r \in Requests, Headers(r)
      PROVE  SidecarTypeOK'
  BY <1>12, FieldTypes DEF Headers, Turns, Fetching
<1>13. ASSUME NEW r \in Requests, SendHead(r)
      PROVE  SidecarTypeOK'
  BY <1>13, FieldTypes DEF SendHead, Turns, Fetching
<1>14. ASSUME NEW r \in Requests, Chunk(r)
      PROVE  SidecarTypeOK'
  BY <1>14, FieldTypes DEF Chunk, Fetching
<1>15. ASSUME NEW r \in Requests, SendChunk(r)
      PROVE  SidecarTypeOK'
  <2>1. CASE Fail(r) /\ UNCHANGED fetch
    <3>1. at' \in [Requests -> Places]
      BY <2>1 DEF Fail, Goes
    <3>2. response' \in [Requests -> Responses]
      BY FieldTypes, <2>1 DEF Fail
    <3>. QED
      BY <1>15, <2>1, <3>1, <3>2 DEF SendChunk
  <2>2. CASE /\ response' = [response EXCEPT ![r].sent = @ + 1]
             /\ Turns(r, "reading") \/ Turns(r, "drain")
             /\ UNCHANGED at
    <3>1. response' \in [Requests -> Responses]
      BY FieldTypes, <2>2
    <3>2. fetch' \in [Requests -> Fetches]
      <4>1. PICK x \in {"reading", "drain"} :
              fetch' = [fetch EXCEPT ![r] = [fetch[r] EXCEPT !.phase = x]]
        BY <2>2 DEF Turns
      <4>2. fetch \in [Requests -> Fetches]
        OBVIOUS
      <4>3. [fetch[r] EXCEPT !.phase = x] \in Fetches
        BY <4>2, FieldTypes
      <4>. QED
        BY <4>1, <4>2, <4>3
    <3>. QED
      BY <1>15, <2>2, <3>1, <3>2 DEF SendChunk
  <2>. QED
    BY <1>15, <2>1, <2>2 DEF SendChunk
<1>16. ASSUME NEW r \in Requests, Drain(r)
      PROVE  SidecarTypeOK'
  BY <1>16, FieldTypes DEF Drain, Turns, Fetching
<1>17. ASSUME NEW r \in Requests, LastChunk(r)
      PROVE  SidecarTypeOK'
  BY <1>17, FieldTypes DEF LastChunk, Fetching
<1>18. ASSUME NEW r \in Requests, SendEnd(r)
      PROVE  SidecarTypeOK'
  BY <1>18, FieldTypes DEF SendEnd, Turns, Fetching
<1>19. ASSUME NEW r \in Requests, StartTimeout(r)
      PROVE  SidecarTypeOK'
  BY <1>19, FieldTypes DEF StartTimeout, Fetching
<1>20. ASSUME NEW r \in Requests, FetchFails(r)
      PROVE  SidecarTypeOK'
  BY <1>20, FieldTypes DEF FetchFails, Fail, Goes, Fetching
<1>21. ASSUME NEW r \in Requests, FetchReturns(r)
      PROVE  SidecarTypeOK'
  BY <1>21 DEF FetchReturns, Goes, Fetching
<1>22. ASSUME NEW r \in Requests, Leave(r)
      PROVE  SidecarTypeOK'
  <2>1. client' \in [Requests -> {"away", "connected", "gone"}]
    BY <1>22 DEF Leave
  <2>2. job' \in [Requests -> Jobs]
    <3>1. job' = job \/ job' = [job EXCEPT ![r].page = "closed"]
      BY <1>22 DEF Leave
    <3>2. [job[r] EXCEPT !.page = "closed"] \in Jobs
      BY FieldTypes
    <3>. QED
      BY <3>1, <3>2
  <2>. QED
    BY <1>22, <2>1, <2>2 DEF Leave
<1>23. ASSUME NEW lost, PagesGo(lost)
       PROVE  job' \in [Requests -> Jobs]
  BY <1>23, FieldTypes DEF PagesGo
<1>24. ASSUME ProcessExits
       PROVE  SidecarTypeOK'
  <2>1. /\ active' \in Nat /\ waiters' \in Seq(Requests) /\ bridges' \in Seq(Proxies)
        /\ proxyBridges' \in [Proxies -> Nat] /\ process' = "exited"
        /\ browser' = "gone" /\ shut' = {}
    BY <1>24 DEF ProcessExits
  <2>2. /\ at' \in [Requests -> Places]
        /\ client' \in [Requests -> {"away", "connected", "gone"}]
    BY <1>24 DEF ProcessExits
  <2>3. /\ job' \in [Requests -> Jobs]
        /\ fetch' \in [Requests -> Fetches] /\ response' \in [Requests -> Responses]
    BY FieldTypes, <1>24 DEF ProcessExits
  <2>. QED
    BY <2>1, <2>2, <2>3
<1>25. CASE \E r \in Requests : PageCrashes(r) \/ FailsAfterEnd(r)
  BY <1>23, <1>24, <1>25 DEF PageCrashes, FailsAfterEnd
<1>26. CASE Shutdown
  <2>1. CASE ContextClosed
    <3>1. shut' \in SUBSET Nat
      BY <2>1 DEF ContextClosed
    <3>. QED
      BY <1>23, <2>1, <3>1 DEF ContextClosed, ShutdownGoes
  <2>2. CASE Signal \/ ServerClosed \/ BridgesClosed
    BY <2>2 DEF Signal, ServerClosed, BridgesClosed, ShutdownGoes
  <2>. QED
    BY <1>24, <1>26, <2>1, <2>2 DEF Shutdown, BrowserClosed
<1>27. CASE BrowserDies
  BY <1>23, <1>24, <1>27 DEF BrowserDies
<1>28. QED
  BY <1>2, <1>3, <1>4, <1>5, <1>6, <1>7, <1>8, <1>9, <1>10, <1>11, <1>12, <1>13, <1>14, <1>15,
     <1>16, <1>17, <1>18, <1>19, <1>20, <1>21, <1>22, <1>25, <1>26, <1>27
  DEF SidecarNext, RequestStep, FetchStep

-----------------------------------------------------------------------------
(* The semaphore.                                                           *)
LEMMA SlotInit ==
  ASSUME SidecarAssumption, SidecarInit
  PROVE  SlotInv
<1>1. Holders = {}
  BY DEF SidecarInit, Holders, Holding
<1>2. active = Cardinality(Holders)
  BY <1>1, FS_EmptySet DEF SidecarInit
<1>3. OneReady /\ SlotsSpokenFor
  BY DEF SidecarInit, OneReady, SlotsSpokenFor, Granted, SidecarAssumption
<1>4. QueueInv
  BY DEF SidecarInit, QueueInv, InQueue
<1>. QED
  BY <1>2, <1>3, <1>4 DEF SlotInv

(* Handlers that go on, without a slot or with the one they have. *)
LEMMA SlotsKept ==
  ASSUME SlotInv, UNCHANGED <<active, waiters>>,
         \A s \in Requests : /\ at'[s] \in Holding <=> at[s] \in Holding
                             /\ at'[s] = "queued" <=> at[s] = "queued"
                             /\ at'[s] = "granted" <=> at[s] = "granted"
                             /\ at'[s] = "start" => at[s] = "start"
  PROVE  SlotInv'
<1>1. Holders' = Holders
  BY DEF Holders
<1>2. OneReady'
  BY DEF SlotInv, OneReady
<1>3. Granted' <=> Granted
  BY DEF Granted
<1>4. SlotsSpokenFor'
  BY <1>3 DEF SlotInv, SlotsSpokenFor
<1>5. QueueInv'
  BY DEF SlotInv, QueueInv, InQueue
<1>. QED
  BY <1>1, <1>2, <1>4, <1>5 DEF SlotInv

LEMMA SlotsKeptByOne ==
  ASSUME SidecarTypeOK, SlotInv, UNCHANGED <<active, waiters>>,
         NEW r \in Requests, NEW there, at' = [at EXCEPT ![r] = there],
         \/ at[r] \in Holding /\ there \in Holding \ {"start"}
         \/ at[r] \in {"none", "reading"} /\ there \in {"reading", "done"}
  PROVE  SlotInv'
<1>1. \A s \in Requests : at'[s] = IF s = r THEN there ELSE at[s]
  BY DEF SidecarTypeOK
<1>2. \A s \in Requests : /\ at'[s] \in Holding <=> at[s] \in Holding
                          /\ at'[s] = "queued" <=> at[s] = "queued"
                          /\ at'[s] = "granted" <=> at[s] = "granted"
                          /\ at'[s] = "start" => at[s] = "start"
  BY <1>1 DEF Holding
<1>. QED
  BY <1>2, SlotsKept

(* A slot that is given back goes to the first in the queue, if there is one. *)
LEMMA SlotReleased ==
  ASSUME SidecarAssumption, SidecarTypeOK, SlotInv, NEW r \in Requests, at[r] \in Holding,
         \A s \in Requests : at[s] \in {"granted", "start"} => s = r,
         Release(r)
  PROVE  SlotInv'
<1>1. /\ active \in Nat /\ active' = active - 1
      /\ Cardinality(Holders \ {r}) = active - 1
  BY HolderIsCounted DEF SlotInv, Release
<1>2. ~Granted
  BY DEF Granted, Holding
<1>3. CASE waiters = <<>>
  <2>1. waiters' = <<>> /\ \A s \in Requests : at'[s] = IF s = r THEN "done" ELSE at[s]
    BY <1>3 DEF Release, Goes, SidecarTypeOK
  <2>2. Holders' = Holders \ {r}
    BY <2>1 DEF Holders, Holding
  <2>3. ~Granted'
    BY <2>1, <1>2 DEF Granted
  <2>4. SlotsSpokenFor'
    BY <1>1, <1>2, <2>1, <2>3 DEF SlotInv, SlotsSpokenFor, SidecarAssumption
  <2>5. OneReady'
    BY <2>1 DEF OneReady
  <2>6. QueueInv'
    BY <1>3, <2>1 DEF SlotInv, QueueInv, InQueue, Holding
  <2>. QED
    BY <1>1, <2>2, <2>4, <2>5, <2>6 DEF SlotInv
<1>4. CASE waiters # <<>>
  <2>. DEFINE h == Head(waiters)
  <2>1. waiters \in Seq(Requests) /\ Len(waiters) \in Nat \ {0} /\ h = waiters[1] /\ h \in Requests
    BY <1>4 DEF SidecarTypeOK
  <2>2. at[h] = "queued"
    BY <2>1 DEF SlotInv, QueueInv, InQueue
  <2>3. h # r
    BY <2>2 DEF Holding
  <2>4. \A s \in Requests :
          at'[s] = IF s = r THEN "done" ELSE IF s = h THEN "granted" ELSE at[s]
    BY <1>4, <2>1, <2>3 DEF Release, SidecarTypeOK
  <2>5. /\ waiters' = Tail(waiters) /\ Len(waiters') = Len(waiters) - 1
        /\ \A i \in 1 .. Len(waiters') : waiters'[i] = waiters[i + 1]
    BY <1>4, <2>1 DEF Release
  <2>6. Holders' = Holders \ {r}
    BY <2>2, <2>4 DEF Holders, Holding
  <2>7. SlotsSpokenFor'
    <3>1. Granted'
      BY <2>1, <2>3, <2>4 DEF Granted
    <3>2. active = MaxConcurrency
      BY <1>2, <1>4 DEF SlotInv, SlotsSpokenFor
    <3>. QED
      BY <1>1, <3>1, <3>2 DEF SlotsSpokenFor, SidecarAssumption
  <2>8. OneReady'
    BY <2>4 DEF OneReady
  <2>9. QueueInv'
    <3>1. \A i, j \in 1 .. Len(waiters') : waiters'[i] = waiters'[j] => i = j
      BY <2>1, <2>5 DEF SlotInv, QueueInv
    <3>2. ASSUME NEW s \in Requests
          PROVE  at'[s] = "queued" <=> InQueue(s)'
      <4>1. InQueue(s)' <=> InQueue(s) /\ s # h
        <5>1. ASSUME NEW i \in 1 .. Len(waiters'), waiters'[i] = s
              PROVE  InQueue(s) /\ s # h
          <6>1. i + 1 \in 1 .. Len(waiters) /\ waiters[i + 1] = s /\ 1 \in 1 .. Len(waiters) /\ i + 1 # 1
            BY <2>1, <2>5, <5>1
          <6>. QED
            BY <2>1, <6>1 DEF InQueue, SlotInv, QueueInv
        <5>2. ASSUME NEW i \in 1 .. Len(waiters), waiters[i] = s, s # h
              PROVE  InQueue(s)'
          <6>1. i - 1 \in 1 .. Len(waiters') /\ (i - 1) + 1 = i
            BY <2>1, <2>5, <5>2
          <6>2. waiters'[i - 1] = s
            BY <2>5, <5>2, <6>1
          <6>. QED
            BY <6>1, <6>2 DEF InQueue
        <5>. QED
          BY <5>1, <5>2 DEF InQueue
      <4>2. at[s] = "queued" <=> InQueue(s)
        BY DEF SlotInv, QueueInv
      <4>3. at'[s] = "queued" <=> at[s] = "queued" /\ s # h
        BY <2>2, <2>4 DEF Holding
      <4>. QED
        BY <4>1, <4>2, <4>3
    <3>. QED
      BY <3>1, <3>2 DEF QueueInv
  <2>. QED
    BY <1>1, <2>6, <2>7, <2>8, <2>9 DEF SlotInv
<1>. QED
  BY <1>3, <1>4

(* A handler takes a slot, one that is free or the one it was granted. *)
LEMMA SlotTaken ==
  ASSUME SidecarAssumption, SidecarTypeOK, SlotInv, NEW r \in Requests,
         \A s \in Requests : at[s] \in {"granted", "start"} => s = r,
         \/ at[r] = "granted"
         \/ at[r] = "reading" /\ active < MaxConcurrency,
         Goes(r, "start"), active' = active + 1, UNCHANGED waiters
  PROVE  SlotInv'
<1>1. \A s \in Requests : at'[s] = IF s = r THEN "start" ELSE at[s]
  BY DEF Goes, SidecarTypeOK
<1>2. Holders' = Holders \union {r} /\ r \notin Holders
  BY <1>1 DEF Holders, Holding
<1>3. IsFiniteSet(Holders)
  BY FS_Subset DEF SidecarAssumption, Holders
<1>4. active' = Cardinality(Holders')
  BY <1>2, <1>3, FS_AddElement DEF SlotInv
<1>5. OneReady'
  BY <1>1 DEF OneReady
<1>6. active \in Nat /\ MaxConcurrency \in Nat
  BY DEF SidecarTypeOK, SidecarAssumption
<1>7. ~Granted'
  BY <1>1 DEF Granted
<1>8. Granted <=> at[r] = "granted"
  BY DEF Granted
<1>9. SlotsSpokenFor'
  BY <1>6, <1>7, <1>8 DEF SlotInv, SlotsSpokenFor
<1>10. QueueInv'
  BY <1>1 DEF SlotInv, QueueInv, InQueue
<1>. QED
  BY <1>4, <1>5, <1>9, <1>10 DEF SlotInv

(* A handler joins the queue. *)
LEMMA SlotAwaited ==
  ASSUME SidecarAssumption, SidecarTypeOK, SlotInv, NEW r \in Requests, Quiet, at[r] = "reading",
         active >= MaxConcurrency, waiters' = Append(waiters, r), Goes(r, "queued"), UNCHANGED active
  PROVE  SlotInv'
<1>1. \A s \in Requests : at'[s] = IF s = r THEN "queued" ELSE at[s]
  BY DEF Goes, SidecarTypeOK
<1>2. Holders' = Holders
  BY <1>1 DEF Holders, Holding
<1>3. OneReady'
  BY <1>1 DEF SlotInv, OneReady
<1>4. ~Granted /\ ~Granted'
  BY <1>1 DEF Granted, Quiet
<1>5. active \in Nat /\ MaxConcurrency \in Nat
  BY DEF SidecarTypeOK, SidecarAssumption
<1>6. SlotsSpokenFor'
  BY <1>4, <1>5 DEF SlotInv, SlotsSpokenFor
<1>7. /\ Len(waiters) \in Nat /\ Len(waiters') = Len(waiters) + 1
      /\ waiters'[Len(waiters) + 1] = r
      /\ \A i \in 1 .. Len(waiters) : waiters'[i] = waiters[i]
  BY DEF SidecarTypeOK
<1>8. ~InQueue(r)
  BY DEF SlotInv, QueueInv
<1>9. \A i \in 1 .. Len(waiters') : i = Len(waiters) + 1 \/ i \in 1 .. Len(waiters)
  BY <1>7
<1>10. QueueInv'
  <2>1. \A i, j \in 1 .. Len(waiters') : waiters'[i] = waiters'[j] => i = j
    BY <1>7, <1>8, <1>9 DEF SlotInv, QueueInv, InQueue
  <2>2. \A s \in Requests : InQueue(s)' <=> InQueue(s) \/ s = r
    BY <1>7, <1>9 DEF InQueue
  <2>. QED
    BY <1>1, <1>8, <2>1, <2>2 DEF SlotInv, QueueInv
<1>. QED
  BY <1>2, <1>3, <1>6, <1>10 DEF SlotInv

LEMMA SlotNext ==
  ASSUME SidecarAssumption, SidecarInv, SidecarNext
  PROVE  SlotInv'
<1>. SidecarTypeOK /\ SlotInv
  BY DEF SidecarInv
<1>1. ASSUME NEW r \in Requests, Fail(r), at[r] \in Holding, UNCHANGED <<active, waiters>>
      PROVE  SlotInv'
  BY <1>1, SlotsKeptByOne DEF Fail, Goes, Holding
<1>2. ASSUME UNCHANGED <<active, waiters, at>>
      PROVE  SlotInv'
  BY <1>2, SlotsKept
<1>3. ASSUME NEW r \in Requests, RequestStep(r)
      PROVE  SlotInv'
  <2>1. ASSUME NEW route \in Routes, Arrive(r, route)
        PROVE  SlotInv'
    BY <2>1, SlotsKeptByOne DEF Arrive, Goes
  <2>2. CASE Refuse(r)
    BY <2>2, SlotsKeptByOne DEF Refuse, Goes
  <2>3. CASE BodyRead(r)
    <3>1. Quiet /\ at[r] = "reading" /\ Acquire(r)
      BY <2>3 DEF BodyRead
    <3>2. CASE active < MaxConcurrency /\ active' = active + 1 /\ Goes(r, "start") /\ UNCHANGED waiters
      BY <3>1, <3>2, SlotTaken DEF Quiet
    <3>3. CASE /\ active >= MaxConcurrency /\ waiters' = Append(waiters, r)
               /\ Goes(r, "queued") /\ UNCHANGED active
      BY <3>1, <3>3, SlotAwaited
    <3>. QED
      BY <3>1, <3>2, <3>3 DEF Acquire
  <2>4. CASE TakeSlot(r)
    <3>1. \A s \in Requests : at[s] \in {"granted", "start"} => s = r
      BY <2>4 DEF TakeSlot, SlotInv, OneReady
    <3>. QED
      BY <2>4, <3>1, SlotTaken DEF TakeSlot
  <2>5. CASE Start(r)
    <3>1. at[r] = "start" /\ at[r] \in Holding
      BY <2>5 DEF Start, Holding
    <3>2. CASE Release(r)
      <4>1. \A s \in Requests : at[s] \in {"granted", "start"} => s = r
        BY <3>1 DEF SlotInv, OneReady
      <4>. QED
        BY <3>1, <3>2, <4>1, SlotReleased
    <3>3. CASE UNCHANGED <<active, waiters>> /\ (Goes(r, "bridge") \/ Goes(r, "page"))
      BY <3>1, <3>3, SlotsKeptByOne DEF Goes, Holding
    <3>4. CASE UNCHANGED <<active, waiters>> /\ Fail(r)
      BY <1>1, <3>1, <3>4
    <3>. QED
      BY <2>5, <3>2, <3>3, <3>4 DEF Start, FindBridge
  <2>6. CASE BridgeListens(r) \/ PageReady(r) \/ BeginFetch(r)
    BY <2>6, SlotsKeptByOne DEF BridgeListens, PageReady, BeginFetch, Goes, Holding
  <2>7. CASE AwaitFails(r)
    BY <1>1, <2>7 DEF AwaitFails, Holding
  <2>8. CASE Finally(r)
    <3>1. at[r] \in Holding /\ Release(r) /\ \A s \in Requests : at[s] \notin {"granted", "start"}
      BY <2>8 DEF Finally, Quiet, Holding
    <3>. QED
      BY <3>1, SlotReleased
  <2>. QED
    BY <1>3, <2>1, <2>2, <2>3, <2>4, <2>5, <2>6, <2>7, <2>8 DEF RequestStep
<1>4. ASSUME NEW r \in Requests, FetchStep(r)
      PROVE  SlotInv'
  <2>1. CASE FetchReturns(r)
    BY <2>1, SlotsKeptByOne DEF FetchReturns, Fetching, Goes, Holding
  <2>2. CASE FetchFails(r)
    BY <1>1, <2>2 DEF FetchFails, Fetching, Holding
  <2>3. CASE SendChunk(r)
    BY <1>1, <1>2, <2>3 DEF SendChunk, Fetching, Holding
  <2>. QED
    BY <1>2, <1>4, <2>1, <2>2, <2>3
    DEF FetchStep, Headers, SendHead, Chunk, Drain, LastChunk, SendEnd, StartTimeout
<1>5. ASSUME NEW r \in Requests, Leave(r)
      PROVE  SlotInv'
  BY <1>2, <1>5 DEF Leave
<1>6. CASE (\E r \in Requests : PageCrashes(r)) \/ (Shutdown /\ ~BrowserClosed)
  BY <1>2, <1>6 DEF PageCrashes, Shutdown, Signal, ServerClosed, ContextClosed, BridgesClosed
<1>7. ASSUME ProcessExits
      PROVE  SlotInv'
  <2>1. active' = 0 /\ waiters' = <<>> /\ at' = [r \in Requests |-> "done"]
    BY <1>7 DEF ProcessExits
  <2>2. Holders' = {}
    BY <2>1 DEF Holders, Holding
  <2>3. active' = Cardinality(Holders')
    BY <2>1, <2>2, FS_EmptySet
  <2>4. OneReady' /\ SlotsSpokenFor'
    BY <2>1 DEF OneReady, SlotsSpokenFor, Granted, SidecarAssumption
  <2>5. QueueInv'
    BY <2>1 DEF QueueInv, InQueue
  <2>. QED
    BY <2>3, <2>4, <2>5 DEF SlotInv
<1>8. CASE (\E r \in Requests : FailsAfterEnd(r)) \/ BrowserClosed \/ BrowserDies
  BY <1>2, <1>7, <1>8 DEF FailsAfterEnd, BrowserClosed, BrowserDies
<1>. QED
  BY <1>3, <1>4, <1>5, <1>6, <1>8 DEF SidecarNext

-----------------------------------------------------------------------------
(* The relay.                                                               *)
Elsewhere(s) == at[s] = at'[s] \/ {at[s], at'[s]} \intersect {"fetch", "closing"} = {}

LEMMA RelayKept ==
  ASSUME RelayInv, UNCHANGED <<fetch, response>>, \A s \in Requests : Elsewhere(s)
  PROVE  RelayInv'
BY DEF RelayInv, Relayed, Elsewhere

LEMMA RelayOfOthers ==
  ASSUME RelayInv, NEW r \in Requests, Relayed(r)',
         \A s \in Requests \ {r} : Elsewhere(s) /\ fetch'[s] = fetch[s] /\ response'[s] = response[s]
  PROVE  RelayInv'
<1>1. ASSUME NEW s \in Requests \ {r}
      PROVE  Relayed(s)'
  <2>1. Relayed(s) /\ Elsewhere(s) /\ fetch'[s] = fetch[s] /\ response'[s] = response[s]
    BY DEF RelayInv
  <2>2. CASE at'[s] = at[s]
    BY <2>1, <2>2 DEF Relayed
  <2>3. CASE at[s] \notin {"fetch", "closing"} /\ at'[s] \notin {"fetch", "closing"}
    BY <2>1, <2>3 DEF Relayed
  <2>. QED
    BY <2>1, <2>2, <2>3 DEF Elsewhere
<1>. QED
  BY <1>1 DEF RelayInv

(* A failure is marked, if there is anyone to read it. *)
LEMMA RelayFails ==
  ASSUME SidecarTypeOK, RelayInv, NEW r \in Requests, Fail(r), UNCHANGED fetch
  PROVE  RelayInv'
<1>1. \A s \in Requests : at'[s] = IF s = r THEN "closing" ELSE at[s]
  BY DEF Fail, Goes, SidecarTypeOK
<1>2. CASE client[r] = "gone" \/ response[r].ended
  <2>1. response' = response
    BY <1>2 DEF Fail
  <2>2. Relayed(r)'
    BY <1>1, <2>1 DEF RelayInv, Relayed
  <2>. QED
    BY <1>1, <2>1, <2>2, RelayOfOthers DEF Elsewhere
<1>3. CASE client[r] # "gone" /\ ~response[r].ended
  <2>1. response' = [response EXCEPT ![r] = [Told(response[r]) EXCEPT !.notice = TRUE]]
    BY <1>3 DEF Fail
  <2>2. [Told(response[r]) EXCEPT !.notice = TRUE].notice = TRUE
    <3>1. response[r] \in Responses
      BY DEF SidecarTypeOK
    <3>2. Told(response[r]) \in Responses
      BY <3>1 DEF Told, Responses
    <3>. QED
      BY <3>2 DEF Responses
  <2>3. response'[r].notice = TRUE /\ \A s \in Requests \ {r} : response'[s] = response[s]
    BY <2>1, <2>2 DEF SidecarTypeOK
  <2>4. Relayed(r)'
    BY <1>1, <2>3 DEF RelayInv, Relayed
  <2>. QED
    BY <1>1, <2>3, <2>4, RelayOfOthers DEF Elsewhere
<1>. QED
  BY <1>2, <1>3

(* A request that is over is forgotten; another one may be granted its slot. *)
LEMMA RelayForgets ==
  ASSUME SidecarTypeOK, SlotInv, RelayInv, NEW r \in Requests, Forget(r),
         \/ Goes(r, "done")
         \/ Release(r)
  PROVE  RelayInv'
<1>1. /\ fetch'[r] = NoFetch /\ response'[r] = NoResponse
      /\ \A s \in Requests \ {r} : fetch'[s] = fetch[s] /\ response'[s] = response[s]
  <2>1. fetch \in [Requests -> Fetches] /\ response \in [Requests -> Responses]
    BY DEF SidecarTypeOK
  <2>. QED
    BY <2>1 DEF Forget
<1>2. \/ Goes(r, "done")
      \/ waiters # <<>> /\ at' = [at EXCEPT ![r] = "done", ![Head(waiters)] = "granted"]
  BY DEF Release
<1>3. at'[r] \in {"done", "granted"} /\ \A s \in Requests \ {r} : Elsewhere(s)
  <2>1. CASE Goes(r, "done")
    BY <2>1 DEF Goes, Elsewhere, SidecarTypeOK
  <2>2. CASE waiters # <<>> /\ at' = [at EXCEPT ![r] = "done", ![Head(waiters)] = "granted"]
    <3>1. Head(waiters) \in Requests /\ at[Head(waiters)] = "queued"
      BY <2>2 DEF SidecarTypeOK, SlotInv, QueueInv, InQueue
    <3>. QED
      BY <2>2, <3>1 DEF Elsewhere, SidecarTypeOK
  <2>. QED
    BY <1>2, <2>1, <2>2
<1>4. Relayed(r)'
  BY <1>1, <1>3 DEF Relayed, NoResponse
<1>. QED
  BY <1>1, <1>3, <1>4, RelayOfOthers

LEMMA RelayInit ==
  ASSUME SidecarInit
  PROVE  RelayInv
BY DEF SidecarInit, RelayInv, Relayed, NoResponse

LEMMA RelayNext ==
  ASSUME SidecarAssumption, SidecarInv, SidecarNext
  PROVE  RelayInv'
<1>. SidecarTypeOK /\ SlotInv /\ RelayInv
  BY DEF SidecarInv
<1>1. ASSUME NEW r \in Requests, RequestStep(r)
      PROVE  RelayInv'
  <2>1. CASE (\E route \in Routes : Arrive(r, route)) \/ BodyRead(r) \/ TakeSlot(r)
    <3>1. /\ UNCHANGED <<fetch, response>> /\ at[r] \in {"none", "reading", "granted"}
          /\ \E there \in {"reading", "queued", "start"} : at' = [at EXCEPT ![r] = there]
      BY <2>1 DEF Arrive, BodyRead, TakeSlot, Acquire, Goes
    <3>2. \A s \in Requests : Elsewhere(s)
      BY <3>1 DEF Elsewhere, SidecarTypeOK
    <3>. QED
      BY <3>1, <3>2, RelayKept
  <2>2. CASE BridgeListens(r) \/ PageReady(r)
    <3>1. /\ UNCHANGED <<fetch, response>> /\ at[r] \in {"bridge", "page"}
          /\ \E there \in {"page", "setup"} : at' = [at EXCEPT ![r] = there]
      BY <2>2 DEF BridgeListens, PageReady, Goes
    <3>2. \A s \in Requests : Elsewhere(s)
      BY <3>1 DEF Elsewhere, SidecarTypeOK
    <3>. QED
      BY <3>1, <3>2, RelayKept
  <2>3. CASE Start(r)
    <3>1. CASE Release(r) /\ Forget(r)
      BY <3>1, RelayForgets
    <3>2. CASE Fail(r) /\ UNCHANGED fetch
      BY <3>2, RelayFails
    <3>3. CASE UNCHANGED <<fetch, response>> /\ (Goes(r, "page") \/ Goes(r, "bridge"))
      <4>1. \A s \in Requests : Elsewhere(s)
        BY <2>3, <3>3 DEF Start, Goes, Elsewhere, SidecarTypeOK
      <4>. QED
        BY <3>3, <4>1, RelayKept
    <3>. QED
      BY <2>3, <3>1, <3>2, <3>3 DEF Start, FindBridge
  <2>4. CASE BeginFetch(r)
    <3>1. /\ at[r] = "setup" /\ response' = response
          /\ at' = [at EXCEPT ![r] = "fetch"] /\ fetch' = [fetch EXCEPT ![r].phase = "sent"]
      BY <2>4 DEF BeginFetch, Goes
    <3>2. fetch[r] = NoFetch /\ response[r] = NoResponse
      BY <3>1 DEF RelayInv, Relayed
    <3>3. fetch'[r].n = 0 /\ fetch'[r].phase = "sent"
      BY <3>1, <3>2 DEF NoFetch, SidecarTypeOK
    <3>4. Relayed(r)'
      BY <3>1, <3>2, <3>3 DEF Relayed, NoResponse, SidecarTypeOK
    <3>5. \A s \in Requests \ {r} : Elsewhere(s) /\ fetch'[s] = fetch[s] /\ response'[s] = response[s]
      BY <3>1 DEF Elsewhere, SidecarTypeOK
    <3>. QED
      BY <3>4, <3>5, RelayOfOthers
  <2>5. CASE AwaitFails(r)
    BY <2>5, RelayFails DEF AwaitFails
  <2>6. CASE Refuse(r) \/ Finally(r)
    BY <2>6, RelayForgets DEF Refuse, Finally
  <2>. QED
    BY <1>1, <2>1, <2>2, <2>3, <2>4, <2>5, <2>6 DEF RequestStep
<1>2. ASSUME NEW r \in Requests, FetchStep(r)
      PROVE  RelayInv'
  <2>. DEFINE f == fetch[r]
              resp == response[r]
  <2>1. at[r] = "fetch" /\ f \in Fetches /\ resp \in Responses
    BY <1>2 DEF FetchStep, Fetching, Headers, SendHead, Chunk, SendChunk, Drain, LastChunk,
                SendEnd, StartTimeout, FetchFails, FetchReturns, SidecarTypeOK
  <2>2. /\ f.n = IF f.phase = "chunk" THEN resp.sent + 1 ELSE resp.sent
        /\ f.phase \in {"ending", "ended"} => f.done
        /\ resp.ended => f.phase = "ended"
    BY <2>1 DEF RelayInv, Relayed
  <2>3. ASSUME at' = at,
               NEW g, fetch' = [fetch EXCEPT ![r] = g],
               NEW told, response' = [response EXCEPT ![r] = told],
               g.n = IF g.phase = "chunk" THEN told.sent + 1 ELSE told.sent,
               g.phase \in {"ending", "ended"} => g.done,
               told.ended => g.phase = "ended"
        PROVE  RelayInv'
    <3>1. fetch'[r] = g /\ response'[r] = told
      BY <2>3 DEF SidecarTypeOK
    <3>2. Relayed(r)'
      BY <2>1, <2>3, <3>1 DEF Relayed
    <3>3. \A s \in Requests \ {r} : Elsewhere(s) /\ fetch'[s] = fetch[s] /\ response'[s] = response[s]
      BY <2>3 DEF Elsewhere, SidecarTypeOK
    <3>. QED
      BY <3>2, <3>3, RelayOfOthers
  <2>4. response = [response EXCEPT ![r] = resp]
    BY DEF SidecarTypeOK
  <2>5. ASSUME at' = at, response' = response, NEW g, fetch' = [fetch EXCEPT ![r] = g],
               g.n = IF g.phase = "chunk" THEN resp.sent + 1 ELSE resp.sent,
               g.phase \in {"ending", "ended"} => g.done,
               resp.ended => g.phase = "ended"
        PROVE  RelayInv'
    BY <2>3, <2>4, <2>5, Zenon
  <2>6. ASSUME NEW phase, phase # "chunk", phase \in {"ending", "ended"} => f.done,
               f.phase \notin {"chunk", "ended"}
        PROVE  LET g == [f EXCEPT !.phase = phase]
               IN  /\ g.n = IF g.phase = "chunk" THEN resp.sent + 1 ELSE resp.sent
                   /\ g.phase \in {"ending", "ended"} => g.done
                   /\ ~resp.ended
    BY <2>1, <2>2, <2>6 DEF Fetches
  <2>7. CASE Headers(r) \/ Drain(r)
    <3>1. PICK phase \in {"starting", "reading"} :
            fetch' = [fetch EXCEPT ![r] = [f EXCEPT !.phase = phase]]
      BY <2>7 DEF Headers, Drain, Turns
    <3>2. at' = at /\ response' = response /\ f.phase \notin {"chunk", "ended"}
      BY <2>7 DEF Headers, Drain
    <3>3. LET g == [f EXCEPT !.phase = phase]
          IN  g.phase = phase /\ g.n = f.n /\ g.done = f.done
      BY <2>1 DEF Fetches
    <3>. QED
      BY <2>2, <2>3, <2>4, <3>1, <3>2, <3>3
  <2>8. CASE SendHead(r)
    <3>1. /\ f.phase = "starting" /\ at' = at
          /\ fetch' = [fetch EXCEPT ![r] = [f EXCEPT !.phase = "reading"]]
      BY <2>8 DEF SendHead, Turns
    <3>2. CASE response' = response
      BY <2>3, <2>4, <2>6, <3>1, <3>2
    <3>3. CASE response' = [response EXCEPT ![r] = [resp EXCEPT !.status = "upstream"]]
      <4>1. LET told == [resp EXCEPT !.status = "upstream"]
            IN  told.sent = resp.sent /\ told.ended = resp.ended
        BY <2>1 DEF Responses
      <4>. QED
        BY <2>3, <2>6, <3>1, <3>3, <4>1
    <3>. QED
      BY <2>8, <3>2, <3>3 DEF SendHead
  <2>9. CASE Chunk(r)
    <3>1. /\ f.phase = "reading" /\ at' = at /\ response' = response
          /\ fetch' = [fetch EXCEPT ![r] = [f EXCEPT !.phase = "chunk", !.n = f.n + 1]]
      BY <2>9 DEF Chunk
    <3>2. LET g == [f EXCEPT !.phase = "chunk", !.n = f.n + 1]
          IN  g.phase = "chunk" /\ g.n = f.n + 1
      BY <2>1 DEF Fetches
    <3>3. ~resp.ended /\ f.n = resp.sent
      BY <2>2, <3>1
    <3>. QED
      BY <2>5, <3>1, <3>2, <3>3
  <2>10. CASE SendChunk(r)
    <3>1. CASE Fail(r) /\ UNCHANGED fetch
      BY <3>1, RelayFails
    <3>2. CASE /\ response' = [response EXCEPT ![r].sent = @ + 1] /\ UNCHANGED at
               /\ Turns(r, "reading") \/ Turns(r, "drain")
      <4>1. PICK phase \in {"reading", "drain"} :
              fetch' = [fetch EXCEPT ![r] = [f EXCEPT !.phase = phase]]
        BY <3>2 DEF Turns
      <4>2. response' = [response EXCEPT ![r] = [resp EXCEPT !.sent = resp.sent + 1]]
        BY <3>2
      <4>3. LET told == [resp EXCEPT !.sent = resp.sent + 1]
            IN  told.sent = resp.sent + 1 /\ told.ended = resp.ended
        BY <2>1 DEF Responses
      <4>4. LET g == [f EXCEPT !.phase = phase]
            IN  g.n = f.n /\ g.phase = phase
        BY <2>1 DEF Fetches
      <4>5. f.phase = "chunk"
        BY <2>10 DEF SendChunk
      <4>. QED
        <5>1. f.n = resp.sent + 1 /\ ~resp.ended
          BY <2>2, <4>5
        <5>. QED
          BY <2>3, <3>2, <4>1, <4>2, <4>3, <4>4, <5>1
    <3>. QED
      BY <2>10, <3>1, <3>2 DEF SendChunk
  <2>11. CASE LastChunk(r)
    <3>1. /\ f.phase = "reading" /\ at' = at /\ response' = response
          /\ fetch' = [fetch EXCEPT ![r] = [f EXCEPT !.phase = "ending", !.done = TRUE]]
      BY <2>11 DEF LastChunk
    <3>2. LET g == [f EXCEPT !.phase = "ending", !.done = TRUE]
          IN  g.phase = "ending" /\ g.n = f.n /\ g.done
      BY <2>1 DEF Fetches
    <3>3. ~resp.ended /\ f.n = resp.sent
      BY <2>2, <3>1
    <3>. QED
      BY <2>5, <3>1, <3>2, <3>3
  <2>12. CASE SendEnd(r)
    <3>1. /\ f.phase = "ending" /\ at' = at
          /\ fetch' = [fetch EXCEPT ![r] = [f EXCEPT !.phase = "ended"]]
      BY <2>12 DEF SendEnd, Turns
    <3>2. LET g == [f EXCEPT !.phase = "ended"]
          IN  g.phase = "ended" /\ g.n = f.n /\ g.done = f.done
      BY <2>1 DEF Fetches
    <3>3. CASE response' = response
      <4>1. f.n = resp.sent /\ f.done
        BY <2>2, <3>1
      <4>. QED
        BY <2>5, <3>1, <3>2, <3>3, <4>1
    <3>4. CASE response' = [response EXCEPT ![r] = [resp EXCEPT !.ended = TRUE]]
      <4>1. [resp EXCEPT !.ended = TRUE].sent = resp.sent
        BY <2>1 DEF Responses
      <4>2. f.n = resp.sent /\ f.done
        BY <2>2, <3>1
      <4>. QED
        BY <2>3, <3>1, <3>2, <3>4, <4>1, <4>2
    <3>. QED
      BY <2>12, <3>3, <3>4 DEF SendEnd
  <2>13. CASE StartTimeout(r)
    <3>1. /\ at' = at /\ response' = response
          /\ fetch' = [fetch EXCEPT ![r] = [f EXCEPT !.aborted = TRUE]]
      BY <2>13 DEF StartTimeout
    <3>2. LET g == [f EXCEPT !.aborted = TRUE]
          IN  g.phase = f.phase /\ g.n = f.n /\ g.done = f.done
      BY <2>1 DEF Fetches
    <3>. HIDE DEF f, resp
    <3>. QED
      BY <2>2, <2>5, <3>1, <3>2
  <2>14. CASE FetchFails(r)
    BY <2>14, RelayFails DEF FetchFails
  <2>15. CASE FetchReturns(r)
    <3>1. UNCHANGED <<fetch, response>> /\ at' = [at EXCEPT ![r] = "closing"]
      BY <2>15 DEF FetchReturns, Goes
    <3>2. Relayed(r)'
      BY <3>1 DEF RelayInv, Relayed, SidecarTypeOK
    <3>. QED
      BY <3>1, <3>2, RelayOfOthers DEF Elsewhere, SidecarTypeOK
  <2>. QED
    BY <1>2, <2>7, <2>8, <2>9, <2>10, <2>11, <2>12, <2>13, <2>14, <2>15 DEF FetchStep
<1>3. ASSUME UNCHANGED <<at, fetch, response>>
      PROVE  RelayInv'
  BY <1>3, RelayKept DEF Elsewhere
<1>4. ASSUME NEW r \in Requests, Leave(r)
      PROVE  RelayInv'
  BY <1>3, <1>4 DEF Leave
<1>5. CASE (\E r \in Requests : PageCrashes(r)) \/ (Shutdown /\ ~BrowserClosed)
  BY <1>3, <1>5 DEF PageCrashes, Shutdown, Signal, ServerClosed, ContextClosed, BridgesClosed
<1>6. ASSUME ProcessExits
      PROVE  RelayInv'
  BY <1>6 DEF ProcessExits, RelayInv, Relayed, NoResponse
<1>7. CASE (\E r \in Requests : FailsAfterEnd(r)) \/ BrowserClosed \/ BrowserDies
  BY <1>3, <1>6, <1>7 DEF FailsAfterEnd, BrowserClosed, BrowserDies
<1>. QED
  BY <1>1, <1>2, <1>4, <1>5, <1>7 DEF SidecarNext

-----------------------------------------------------------------------------
(* The bridges.                                                             *)
SameJob(s) == job'[s].bridge = job[s].bridge /\ job'[s].route = job[s].route

LEMMA BridgeInit ==
  ASSUME SidecarInit
  PROVE  BridgeInv
BY DEF SidecarInit, BridgeInv, Listens, NoJob

(* A handler keeps its bridge, has none, or takes the one of the map. *)
LEMMA BridgesKept ==
  ASSUME BridgeInv, UNCHANGED <<bridges, proxyBridges>>,
         \A s \in Requests :
           /\ \/ SameJob(s) \/ job'[s].bridge = 0
              \/ job'[s].route \in Proxies /\ job'[s].bridge = proxyBridges[job'[s].route]
           /\ at'[s] = "none" => at[s] = "none" /\ SameJob(s)
           /\ at'[s] = "bridge" => job'[s].route \in Proxies
  PROVE  BridgeInv'
<1>1. \A p \in Proxies : Listens(proxyBridges[p], p)'
  BY DEF BridgeInv, Listens
<1>2. ASSUME NEW s \in Requests
      PROVE  Listens(job[s].bridge, job[s].route)'
  <2>1. Listens(job[s].bridge, job[s].route)
    BY DEF BridgeInv
  <2>2. \A p \in Proxies : Listens(proxyBridges[p], p)
    BY DEF BridgeInv
  <2>. QED
    BY <2>1, <2>2 DEF Listens, SameJob
<1>3. \A s \in Requests : at'[s] = "none" => job'[s].bridge = 0
  BY DEF BridgeInv, SameJob
<1>. QED
  BY <1>1, <1>2, <1>3 DEF BridgeInv

LEMMA BridgesKeptByOne ==
  ASSUME SidecarTypeOK, BridgeInv, UNCHANGED <<bridges, proxyBridges, job>>,
         NEW r \in Requests, NEW there, at' = [at EXCEPT ![r] = there],
         there = "none" => at[r] = "none",
         there = "bridge" => job[r].route \in Proxies
  PROVE  BridgeInv'
<1>1. \A s \in Requests : at'[s] = IF s = r THEN there ELSE at[s]
  BY DEF SidecarTypeOK
<1>2. \A s \in Requests : /\ SameJob(s)
                          /\ at'[s] = "none" => at[s] = "none"
                          /\ at'[s] = "bridge" => job'[s].route \in Proxies
  BY <1>1 DEF SameJob, BridgeInv
<1>. QED
  BY <1>2, BridgesKept

(* A request that is over has no bridge. *)
LEMMA BridgesForget ==
  ASSUME SidecarTypeOK, SlotInv, BridgeInv, UNCHANGED <<bridges, proxyBridges>>,
         NEW r \in Requests, Forget(r),
         \/ Goes(r, "done")
         \/ Release(r)
  PROVE  BridgeInv'
<1>1. job \in [Requests -> Jobs] /\ at \in [Requests -> Places]
  BY DEF SidecarTypeOK
<1>2. job'[r].bridge = 0 /\ \A s \in Requests \ {r} : SameJob(s)
  BY <1>1 DEF Forget, NoJob, SameJob
<1>3. \/ Goes(r, "done")
      \/ waiters # <<>> /\ at' = [at EXCEPT ![r] = "done", ![Head(waiters)] = "granted"]
  BY DEF Release
<1>4. at'[r] \in {"done", "granted"} /\ \A s \in Requests \ {r} : at'[s] \in {at[s], "granted"}
  <2>1. waiters # <<>> => Head(waiters) \in Requests
    BY DEF SidecarTypeOK
  <2>. QED
    BY <1>1, <1>3, <2>1 DEF Goes
<1>5. \A s \in Requests :
        /\ SameJob(s) \/ job'[s].bridge = 0
        /\ at'[s] = "none" => at[s] = "none" /\ SameJob(s)
        /\ at'[s] = "bridge" => job'[s].route \in Proxies
  BY <1>2, <1>4 DEF BridgeInv, SameJob
<1>. QED
  BY <1>5, BridgesKept

LEMMA BridgeNext ==
  ASSUME SidecarAssumption, SidecarInv, SidecarNext
  PROVE  BridgeInv'
<1>. /\ SidecarTypeOK /\ SlotInv /\ BridgeInv
     /\ job \in [Requests -> Jobs] /\ at \in [Requests -> Places]
  BY DEF SidecarInv, SidecarTypeOK
<1>1. ASSUME NEW r \in Requests, RequestStep(r)
      PROVE  BridgeInv'
  <2>1. ASSUME NEW route \in Routes, Arrive(r, route)
        PROVE  BridgeInv'
    <3>1. /\ at[r] = "none" /\ at' = [at EXCEPT ![r] = "reading"]
          /\ job' = [job EXCEPT ![r].route = route] /\ UNCHANGED <<bridges, proxyBridges>>
      BY <2>1 DEF Arrive, Goes
    <3>2. job'[r].bridge = job[r].bridge /\ \A s \in Requests \ {r} : SameJob(s)
      BY <3>1 DEF SameJob, Jobs
    <3>3. job[r].bridge = 0
      BY <3>1 DEF BridgeInv
    <3>4. \A s \in Requests :
            /\ SameJob(s) \/ job'[s].bridge = 0
            /\ at'[s] = "none" => at[s] = "none" /\ SameJob(s)
            /\ at'[s] = "bridge" => job'[s].route \in Proxies
      BY <3>1, <3>2, <3>3 DEF BridgeInv, SameJob
    <3>. QED
      BY <3>1, <3>4, BridgesKept
  <2>2. CASE BodyRead(r) \/ TakeSlot(r) \/ BeginFetch(r)
    <3>1. /\ UNCHANGED <<bridges, proxyBridges, job>>
          /\ \E there \in {"queued", "start", "fetch"} : at' = [at EXCEPT ![r] = there]
      BY <2>2 DEF BodyRead, Acquire, TakeSlot, BeginFetch, Goes
    <3>. QED
      BY <3>1, BridgesKeptByOne
  <2>3. CASE AwaitFails(r)
    BY <2>3, BridgesKeptByOne DEF AwaitFails, Fail, Goes
  <2>4. CASE Start(r)
    <3>1. CASE Release(r) /\ Forget(r)
      BY <2>4, <3>1, BridgesForget DEF Start
    <3>2. CASE job[r].route \in Proxies /\ FindBridge(r, job[r].route)
      <4>1. CASE UNCHANGED job /\ Goes(r, "bridge")
        BY <2>4, <3>2, <4>1, BridgesKeptByOne DEF Start, Goes
      <4>2. CASE /\ job' = [job EXCEPT ![r].bridge = proxyBridges[job[r].route]]
                 /\ Goes(r, "page")
        <5>1. /\ job'[r].route = job[r].route /\ job'[r].bridge = proxyBridges[job[r].route]
              /\ \A s \in Requests \ {r} : SameJob(s)
          BY <4>2 DEF SameJob, Jobs
        <5>2. \A s \in Requests :
                /\ \/ SameJob(s)
                   \/ job'[s].route \in Proxies /\ job'[s].bridge = proxyBridges[job'[s].route]
                /\ at'[s] = "none" => at[s] = "none" /\ SameJob(s)
                /\ at'[s] = "bridge" => job'[s].route \in Proxies
          BY <3>2, <4>2, <5>1 DEF BridgeInv, SameJob, Goes
        <5>. QED
          BY <2>4, <5>2, BridgesKept DEF Start
      <4>. QED
        BY <3>2, <4>1, <4>2 DEF FindBridge
    <3>3. CASE UNCHANGED job /\ (Goes(r, "page") \/ Fail(r))
      BY <2>4, <3>3, BridgesKeptByOne DEF Start, Fail, Goes
    <3>. QED
      BY <2>4, <3>1, <3>2, <3>3 DEF Start
  <2>5. CASE BridgeListens(r)
    <3>. DEFINE p == job[r].route
                b == Len(bridges')
    <3>1. /\ bridges' = Append(bridges, p) /\ proxyBridges' = [proxyBridges EXCEPT ![p] = b]
          /\ job' = [job EXCEPT ![r].bridge = b] /\ at' = [at EXCEPT ![r] = "page"]
          /\ at[r] = "bridge"
      BY <2>5 DEF BridgeListens, Goes
    <3>2. p \in Proxies
      BY <3>1 DEF BridgeInv
    <3>. DEFINE Kept(c, q) == c # 0 => c \in 1 .. Len(bridges') /\ bridges'[c] = q
    <3>3. ASSUME NEW c, NEW q, Listens(c, q)
          PROVE  Kept(c, q)
      BY <3>1, <3>2, <3>3 DEF Listens, SidecarTypeOK
    <3>4. Kept(b, p)
      BY <3>1, <3>2 DEF SidecarTypeOK
    <3>. HIDE DEF Kept, b, p
    <3>5. \A q \in Proxies : Listens(proxyBridges[q], q)'
      <4>1. \A q \in Proxies : proxyBridges'[q] = IF q = p THEN b ELSE proxyBridges[q]
        BY <3>1 DEF SidecarTypeOK
      <4>2. ASSUME NEW q \in Proxies
            PROVE  Kept(proxyBridges'[q], q)
        <5>1. Listens(proxyBridges[q], q)
          BY DEF BridgeInv
        <5>. QED
          BY <3>3, <3>4, <4>1, <5>1
      <4>. QED
        BY <4>2 DEF Kept, Listens
    <3>6. \A s \in Requests : Listens(job[s].bridge, job[s].route)'
      <4>1. job'[r].bridge = b /\ job'[r].route = p /\ \A s \in Requests \ {r} : SameJob(s)
        BY <3>1 DEF SameJob, Jobs, p
      <4>2. ASSUME NEW s \in Requests
            PROVE  Kept(job'[s].bridge, job'[s].route)
        <5>1. Listens(job[s].bridge, job[s].route)
          BY DEF BridgeInv
        <5>. QED
          BY <3>3, <3>4, <4>1, <5>1 DEF SameJob
      <4>. QED
        BY <4>2 DEF Kept, Listens
    <3>7. /\ \A s \in Requests : at'[s] = "none" => job'[s].bridge = 0
          /\ \A s \in Requests : at'[s] = "bridge" => job'[s].route \in Proxies
      BY <3>1 DEF BridgeInv
    <3>. QED
      BY <3>5, <3>6, <3>7 DEF BridgeInv
  <2>6. CASE PageReady(r)
    <3>1. /\ job' = [job EXCEPT ![r].page = "open"] /\ at' = [at EXCEPT ![r] = "setup"]
          /\ UNCHANGED <<bridges, proxyBridges>>
      BY <2>6 DEF PageReady, Goes
    <3>2. \A s \in Requests : SameJob(s)
      BY <3>1 DEF SameJob, Jobs
    <3>3. \A s \in Requests : /\ at'[s] = "none" => at[s] = "none" /\ SameJob(s)
                              /\ at'[s] = "bridge" => job'[s].route \in Proxies
      BY <3>1, <3>2 DEF BridgeInv, SameJob
    <3>. QED
      BY <3>1, <3>2, <3>3, BridgesKept
  <2>7. CASE Refuse(r) \/ Finally(r)
    BY <2>7, BridgesForget DEF Refuse, Finally
  <2>. QED
    BY <1>1, <2>1, <2>2, <2>3, <2>4, <2>5, <2>6, <2>7 DEF RequestStep
<1>2. ASSUME UNCHANGED <<bridges, proxyBridges, at, job>>
      PROVE  BridgeInv'
  BY <1>2 DEF BridgeInv, Listens
<1>3. ASSUME NEW r \in Requests, FetchStep(r)
      PROVE  BridgeInv'
  <2>1. CASE SendChunk(r) \/ FetchFails(r) \/ FetchReturns(r)
    <3>1. CASE UNCHANGED at
      BY <1>2, <2>1, <3>1 DEF SendChunk, FetchFails, FetchReturns
    <3>2. CASE at' = [at EXCEPT ![r] = "closing"]
      BY <2>1, <3>2, BridgesKeptByOne DEF SendChunk, FetchFails, FetchReturns
    <3>. QED
      BY <2>1, <3>1, <3>2 DEF SendChunk, FetchFails, FetchReturns, Fail, Goes
  <2>. QED
    BY <1>2, <1>3, <2>1
    DEF FetchStep, Headers, SendHead, Chunk, Drain, LastChunk, SendEnd, StartTimeout
<1>4. ASSUME NEW r \in Requests, Leave(r)
      PROVE  BridgeInv'
  <2>1. \A s \in Requests : SameJob(s)
    <3>1. UNCHANGED job \/ job' = [job EXCEPT ![r].page = "closed"]
      BY <1>4 DEF Leave
    <3>. QED
      BY <3>1 DEF SameJob, Jobs
  <2>2. \A s \in Requests : at'[s] = "bridge" => job'[s].route \in Proxies
    BY <1>4, <2>1 DEF Leave, SameJob, BridgeInv
  <2>. QED
    BY <1>4, <2>1, <2>2, BridgesKept DEF Leave
<1>5. ASSUME NEW lost, PagesGo(lost), UNCHANGED <<bridges, proxyBridges, at>>
      PROVE  BridgeInv'
  <2>1. \A s \in Requests : SameJob(s)
    BY <1>5 DEF PagesGo, SameJob, Jobs
  <2>2. \A s \in Requests : at'[s] = "bridge" => job'[s].route \in Proxies
    BY <1>5, <2>1 DEF SameJob, BridgeInv
  <2>. QED
    BY <1>5, <2>1, <2>2, BridgesKept
<1>6. ASSUME ProcessExits
      PROVE  BridgeInv'
  BY <1>6 DEF ProcessExits, BridgeInv, Listens, NoJob
<1>7. CASE \E r \in Requests : PageCrashes(r) \/ FailsAfterEnd(r)
  BY <1>5, <1>6, <1>7 DEF PageCrashes, FailsAfterEnd
<1>8. CASE Shutdown
  BY <1>2, <1>5, <1>6, <1>8
  DEF Shutdown, Signal, ServerClosed, ContextClosed, BridgesClosed, BrowserClosed
<1>9. CASE BrowserDies
  BY <1>5, <1>6, <1>9 DEF BrowserDies
<1>. QED
  BY <1>1, <1>3, <1>4, <1>7, <1>8, <1>9 DEF SidecarNext

-----------------------------------------------------------------------------
(* The shutdown.                                                            *)
LEMMA ShutInit ==
  ASSUME SidecarInit
  PROVE  ShutInv
BY DEF SidecarInit, ShutInv, Served

(* A connection that ended is not used again, as long as none is made. *)
LEMMA ServedKept ==
  ASSUME ShutInv, UNCHANGED processVars,
         \A s \in Requests : client'[s] = "connected" =>
            client[s] = "connected" /\ (response[s].ended => response'[s].ended)
  PROVE  ShutInv'
BY DEF ShutInv, Served, processVars

LEMMA ServedKeptByOne ==
  ASSUME SidecarTypeOK, ShutInv, UNCHANGED <<processVars, client>>, NEW r \in Requests,
         NEW told \in Responses, response[r].ended => told.ended,
         response' = response \/ response' = [response EXCEPT ![r] = told]
  PROVE  ShutInv'
<1>1. \A s \in Requests : response[s].ended => response'[s].ended
  BY DEF SidecarTypeOK
<1>. QED
  BY <1>1, ServedKept

(* What a failure writes ends the response. *)
LEMMA ShutFails ==
  ASSUME SidecarTypeOK, ShutInv, NEW r \in Requests, Fail(r), UNCHANGED <<processVars, client>>
  PROVE  ShutInv'
<1>. DEFINE told == [Told(response[r]) EXCEPT !.notice = TRUE]
<1>1. response[r] \in Responses
  BY DEF SidecarTypeOK
<1>2. told \in Responses
  BY <1>1, FieldTypes
<1>3. \/ response' = response
      \/ ~response[r].ended /\ response' = [response EXCEPT ![r] = told]
  <2>1. CASE client[r] = "gone" \/ response[r].ended
    BY <2>1 DEF Fail
  <2>2. CASE client[r] # "gone" /\ ~response[r].ended
    BY <2>2 DEF Fail
  <2>. QED
    BY <2>1, <2>2
<1>. HIDE DEF told
<1>4. CASE response' = response
  BY <1>4, ServedKept
<1>5. CASE ~response[r].ended /\ response' = [response EXCEPT ![r] = told]
  BY <1>2, <1>5, ServedKeptByOne
<1>. QED
  BY <1>3, <1>4, <1>5

LEMMA ShutForgets ==
  ASSUME SidecarTypeOK, ShutInv, NEW r \in Requests, Forget(r), UNCHANGED processVars
  PROVE  ShutInv'
<1>1. \A s \in Requests : client'[s] = "connected" =>
         client[s] = "connected" /\ response'[s] = response[s]
  BY DEF Forget, SidecarTypeOK
<1>. QED
  BY <1>1, ServedKept

LEMMA ShutNext ==
  ASSUME SidecarAssumption, SidecarInv, SidecarNext
  PROVE  ShutInv'
<1>. SidecarTypeOK /\ ShutInv
  BY DEF SidecarInv
<1>1. ASSUME UNCHANGED <<processVars, client, response>>
      PROVE  ShutInv'
  BY <1>1, ServedKept
<1>2. ASSUME NEW r \in Requests, RequestStep(r)
      PROVE  ShutInv'
  <2>1. ASSUME NEW route \in Routes, Arrive(r, route)
        PROVE  ShutInv'
    BY <2>1 DEF Arrive, ShutInv, processVars
  <2>2. CASE BodyRead(r) \/ TakeSlot(r) \/ BridgeListens(r) \/ PageReady(r) \/ BeginFetch(r)
    BY <1>1, <2>2 DEF BodyRead, TakeSlot, BridgeListens, PageReady, BeginFetch
  <2>3. CASE Refuse(r) \/ Finally(r)
    BY <2>3, ShutForgets DEF Refuse, Finally
  <2>4. CASE AwaitFails(r)
    BY <2>4, ShutFails DEF AwaitFails
  <2>5. CASE Start(r)
    <3>1. CASE Forget(r)
      BY <2>5, <3>1, ShutForgets DEF Start
    <3>2. CASE Fail(r) /\ UNCHANGED client
      BY <2>5, <3>2, ShutFails DEF Start
    <3>3. CASE UNCHANGED <<response, client>>
      BY <1>1, <2>5, <3>3 DEF Start
    <3>. QED
      BY <2>5, <3>1, <3>2, <3>3 DEF Start
  <2>. QED
    BY <1>2, <2>1, <2>2, <2>3, <2>4, <2>5 DEF RequestStep
<1>3. ASSUME NEW r \in Requests, FetchStep(r)
      PROVE  ShutInv'
  <2>. DEFINE resp == response[r]
  <2>1. /\ resp \in Responses
        /\ [resp EXCEPT !.status = "upstream"] \in Responses
        /\ [resp EXCEPT !.sent = resp.sent + 1] \in Responses
        /\ [resp EXCEPT !.ended = TRUE] \in Responses
    BY FieldTypes DEF SidecarTypeOK
  <2>2. /\ [resp EXCEPT !.status = "upstream"].ended = resp.ended
        /\ [resp EXCEPT !.sent = resp.sent + 1].ended = resp.ended
        /\ [resp EXCEPT !.ended = TRUE].ended
    BY <2>1 DEF Responses
  <2>3. CASE Headers(r) \/ Chunk(r) \/ Drain(r) \/ LastChunk(r) \/ StartTimeout(r) \/ FetchReturns(r)
    BY <1>1, <2>3 DEF Headers, Chunk, Drain, LastChunk, StartTimeout, FetchReturns
  <2>4. CASE SendHead(r)
    <3>1. \/ response' = response
          \/ response' = [response EXCEPT ![r] = [resp EXCEPT !.status = "upstream"]]
      BY <2>4 DEF SendHead
    <3>. HIDE DEF resp
    <3>. QED
      BY <2>1, <2>2, <2>4, <3>1, ServedKeptByOne DEF SendHead, resp
  <2>5. CASE SendChunk(r)
    <3>1. CASE Fail(r)
      BY <2>5, <3>1, ShutFails DEF SendChunk
    <3>2. CASE response' = [response EXCEPT ![r] = [resp EXCEPT !.sent = resp.sent + 1]]
      BY <2>1, <2>2, <2>5, <3>2, ServedKeptByOne DEF SendChunk
    <3>. QED
      BY <2>5, <3>1, <3>2 DEF SendChunk
  <2>6. CASE SendEnd(r)
    <3>1. \/ response' = response
          \/ response' = [response EXCEPT ![r] = [resp EXCEPT !.ended = TRUE]]
      BY <2>6 DEF SendEnd
    <3>. QED
      BY <2>1, <2>2, <2>6, <3>1, ServedKeptByOne DEF SendEnd
  <2>7. CASE FetchFails(r)
    BY <2>7, ShutFails DEF FetchFails
  <2>. QED
    BY <1>3, <2>3, <2>4, <2>5, <2>6, <2>7 DEF FetchStep
<1>4. CASE \E r \in Requests : Leave(r)
  <2>1. \A s \in Requests : client'[s] = "connected" => client[s] = "connected"
    BY <1>4 DEF Leave, SidecarTypeOK
  <2>. QED
    BY <1>4, <2>1, ServedKept DEF Leave
<1>5. ASSUME ProcessExits
      PROVE  ShutInv'
  BY <1>5 DEF ProcessExits, ShutInv, Served
<1>6. CASE \E r \in Requests : PageCrashes(r) \/ FailsAfterEnd(r)
  BY <1>1, <1>5, <1>6 DEF PageCrashes, FailsAfterEnd, processVars
<1>7. CASE Shutdown
  <2>1. CASE Signal \/ ServerClosed
    BY <2>1 DEF Signal, ServerClosed, ShutdownGoes, ShutInv, Served
  <2>2. CASE ContextClosed \/ BridgesClosed
    BY <2>2 DEF ContextClosed, BridgesClosed, ShutdownGoes, ShutInv, Served
  <2>. QED
    BY <1>5, <1>7, <2>1, <2>2 DEF Shutdown, BrowserClosed
<1>8. CASE BrowserDies
  <2>1. CASE ~ProcessExits
    BY <1>8, <2>1 DEF BrowserDies, ShutInv, Served
  <2>. QED
    BY <1>5, <2>1
<1>. QED
  BY <1>2, <1>3, <1>4, <1>6, <1>7, <1>8 DEF SidecarNext

-----------------------------------------------------------------------------
(* The theorems.                                                            *)
LEMMA InvInit ==
  ASSUME SidecarAssumption, SidecarInit
  PROVE  SidecarInv
BY TypeInit, SlotInit, RelayInit, BridgeInit, ShutInit DEF SidecarInv

LEMMA InvNext ==
  ASSUME SidecarAssumption, SidecarInv, [SidecarNext]_sidecarVars
  PROVE  SidecarInv'
<1>1. CASE SidecarNext
  BY <1>1, TypeNext, SlotNext, RelayNext, BridgeNext, ShutNext DEF SidecarInv
<1>2. CASE UNCHANGED sidecarVars
  BY <1>2 DEF sidecarVars, SidecarInv, SidecarTypeOK, SlotInv, Holders, OneReady, SlotsSpokenFor,
              Granted, QueueInv, InQueue, RelayInv, Relayed, BridgeInv, Listens, ShutInv, Served
<1>. QED
  BY <1>1, <1>2

(* The invariant behind the three properties of main.mjs. *)
THEOREM SidecarInvariant == SidecarSpec => []SidecarInv
<1>1. SidecarInit => SidecarInv
  BY InvInit, SidecarAssumption
<1>2. SidecarInv /\ [SidecarNext]_sidecarVars => SidecarInv'
  BY InvNext, SidecarAssumption
<1>. QED
  BY <1>1, <1>2, PTL DEF SidecarSpec

(* Every variable of the sidecar is of its type, in every behaviour. *)
THEOREM SidecarTypesCorrect == SidecarSpec => []SidecarTypeOK
<1>1. SidecarInv => SidecarTypeOK
  BY DEF SidecarInv
<1>. QED
  BY <1>1, SidecarInvariant, PTL

(* The semaphore's count, limit and queue are exact however requests end.   *)
(* A waiter that was granted a slot takes it before another event, so that *)
(* the slot, uncounted meanwhile, is not given to a request that arrives.  *)
THEOREM SlotsStayExact == SidecarSpec => []SlotsAreExact
<1>1. SidecarInv => SlotsAreExact
  <2>. SUFFICES ASSUME SidecarInv PROVE SlotsAreExact
    OBVIOUS
  <2>1. active = Cardinality(Holders) /\ SlotsSpokenFor /\ QueueInv
    BY DEF SidecarInv, SlotInv
  <2>2. active \in Nat
    BY DEF SidecarInv, SidecarTypeOK
  <2>3. active <= MaxConcurrency
    BY <2>1, <2>2, SidecarAssumption DEF SlotsSpokenFor, SidecarAssumption
  <2>4. Quiet /\ waiters # <<>> => active = MaxConcurrency
    BY <2>1 DEF SlotsSpokenFor, Granted, Quiet
  <2>. QED
    BY <2>1, <2>3, <2>4 DEF SlotsAreExact, QueueInv, InQueue
<1>. QED
  BY <1>1, SidecarInvariant, PTL

(* A response that broke off is never ended as if it were whole. *)
THEOREM BrokenIsMarked == SidecarSpec => []WholeOrMarked
<1>1. SidecarInv => WholeOrMarked
  BY DEF SidecarInv, RelayInv, Relayed, WholeOrMarked
<1>. QED
  BY <1>1, SidecarInvariant, PTL

(* No request loses its bridge to another; nor to a shutdown, which closes   *)
(* bridges while handlers still run, because every connection has ended by  *)
(* then and stays so (main.mjs:301-303).                                   *)
THEOREM BridgesStayOpen == SidecarSpec => []BridgeStaysOpen
<1>1. SidecarInv => BridgeStaysOpen
  <2>. SUFFICES ASSUME SidecarInv, NEW r \in Requests, Up, client[r] = "connected",
                       ~response[r].ended, job[r].bridge # 0
                PROVE  /\ job[r].bridge \in 1 .. Len(bridges) \ shut
                       /\ bridges[job[r].bridge] = job[r].route
    BY DEF BridgeStaysOpen
  <2>1. Listens(job[r].bridge, job[r].route)
    BY DEF SidecarInv, BridgeInv
  <2>2. ~Served(r)
    BY DEF Served
  <2>3. shut = {}
    BY <2>2 DEF SidecarInv, ShutInv
  <2>. QED
    BY <2>1, <2>3 DEF Listens
<1>. QED
  BY <1>1, SidecarInvariant, PTL
=============================================================================
