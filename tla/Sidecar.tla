------------------------------ MODULE Sidecar ------------------------------
(***************************************************************************)
(* The Chromium sidecar (chromium-sidecar/src): an HTTP server that relays *)
(* each request through a page of one browser, behind a semaphore, and     *)
(* through a local bridge if its proxy wants credentials.  The handler in  *)
(* main.mjs and browserFetchAndStream in the page run in two processes and *)
(* call one another through exposed functions.                             *)
(*                                                                         *)
(* A step is what runs between two awaits.  Node runs the promises that    *)
(* are resolved before it turns to the next event, so a request that was   *)
(* granted a slot goes on before anything else happens (Quiet).            *)
(***************************************************************************)
EXTENDS Naturals, Sequences, FiniteSets

CONSTANTS
  Requests,        \* the requests of clients
  Proxies,         \* the proxies with credentials, each of which needs a bridge
  Direct,          \* a route Chromium takes by itself
  BadProxy,        \* a header browserProxyFor cannot use
  MaxConcurrency,  \* the semaphore's limit
  MaxChunks        \* bound: chunks of an upstream response

ASSUME SidecarAssumption ==
  /\ IsFiniteSet(Requests)
  /\ MaxConcurrency \in Nat \ {0} /\ MaxChunks \in Nat
  /\ Direct \notin Proxies /\ BadProxy \notin Proxies

VARIABLES
  process,       \* "running", what its shutdown awaits the end of ("server", "context",
                 \* "bridges", "browser"), "exited"
  browser,       \* "up", or "gone"
  active,        \* Semaphore.active
  waiters,       \* Semaphore.waiters
  bridges,       \* the bridges that were made, by the proxy each is for
  shut,          \* those of them that shutdown closed
  proxyBridges,  \* proxyBridges: the bridge to use for a proxy, 0 if there is none
  at,            \* what each handler awaits
  client,        \* whether its client is connected
  job,           \* the handler's page and route
  fetch,         \* browserFetchAndStream
  response       \* what was written to the client

sidecarVars ==
  <<process, browser, active, waiters, bridges, shut, proxyBridges, at, client, job, fetch,
    response>>

processVars == <<process, browser, shut>>

Routes == Proxies \union {Direct, BadProxy}

(* A handler that holds a slot. *)
Holding == {"start", "bridge", "page", "setup", "fetch", "closing"}
Holders == {r \in Requests : at[r] \in Holding}

NoJob == [route |-> Direct, bridge |-> 0, page |-> "none"]

(* n counts the chunks the page has read; done is set at the end of them.   *)
NoFetch == [phase |-> "none", n |-> 0, done |-> FALSE, aborted |-> FALSE]

(* notice: the text of a failure was written after what was there.          *)
NoResponse == [status |-> "none", sent |-> 0, notice |-> FALSE, ended |-> FALSE]

SidecarInit ==
  /\ process = "running" /\ browser = "up"
  /\ active = 0 /\ waiters = <<>> /\ bridges = <<>> /\ shut = {}
  /\ proxyBridges = [p \in Proxies |-> 0]
  /\ at = [r \in Requests |-> "none"]
  /\ client = [r \in Requests |-> "away"]
  /\ job = [r \in Requests |-> NoJob]
  /\ fetch = [r \in Requests |-> NoFetch]
  /\ response = [r \in Requests |-> NoResponse]

Up == process # "exited"

(* No promise is resolved whose continuation has yet to run. *)
Quiet == Up /\ \A r \in Requests : at[r] \notin {"granted", "start"}

Goes(r, there) == at' = [at EXCEPT ![r] = there]

(* The exchange is over, and nothing of it is kept. *)
Forget(r) ==
  /\ client' = [client EXCEPT ![r] = "away"]
  /\ job' = [job EXCEPT ![r] = NoJob]
  /\ fetch' = [fetch EXCEPT ![r] = NoFetch]
  /\ response' = [response EXCEPT ![r] = NoResponse]

-----------------------------------------------------------------------------
(* The request arrives and its body is read.  A connection that is there     *)
(* when the server is closed may still bring one.                          *)
Arrive(r, route) ==
  /\ Quiet /\ process \in {"running", "server"} /\ at[r] = "none"
  /\ Goes(r, "reading")
  /\ client' = [client EXCEPT ![r] = "connected"]
  /\ job' = [job EXCEPT ![r].route = route]
  /\ UNCHANGED <<processVars, active, waiters, bridges, proxyBridges, fetch, response>>

(* A missing token, a foreign target, a body over the limit or broken off.  *)
Refuse(r) ==
  /\ Quiet /\ at[r] = "reading"
  /\ Goes(r, "done")
  /\ Forget(r)
  /\ UNCHANGED <<processVars, active, waiters, bridges, proxyBridges>>

Acquire(r) ==
  \/ /\ active < MaxConcurrency
     /\ active' = active + 1
     /\ Goes(r, "start")
     /\ UNCHANGED waiters
  \/ /\ active >= MaxConcurrency
     /\ waiters' = Append(waiters, r)
     /\ Goes(r, "queued")
     /\ UNCHANGED active

\* Mutant of BodyRead: the limit is off by one.
BodyReadOver(r) ==
  /\ Quiet /\ at[r] = "reading"
  /\ IF active <= MaxConcurrency
     THEN active' = active + 1 /\ Goes(r, "start") /\ UNCHANGED waiters
     ELSE waiters' = Append(waiters, r) /\ Goes(r, "queued") /\ UNCHANGED active
  /\ UNCHANGED <<processVars, bridges, proxyBridges, client, job, fetch, response>>

BodyRead(r) ==
  /\ Quiet /\ at[r] = "reading"
  /\ Acquire(r)
  /\ UNCHANGED <<processVars, bridges, proxyBridges, client, job, fetch, response>>

(* A slot is given back, and the first of the waiters is told. *)
Release(r) ==
  /\ active' = active - 1
  /\ IF waiters = <<>>
     THEN Goes(r, "done") /\ UNCHANGED waiters
     ELSE /\ at' = [at EXCEPT ![r] = "done", ![Head(waiters)] = "granted"]
          /\ waiters' = Tail(waiters)

(* It takes the slot when its continuation runs. *)
TakeSlot(r) ==
  /\ Up /\ at[r] = "granted"
  /\ active' = active + 1
  /\ Goes(r, "start")
  /\ UNCHANGED <<processVars, waiters, bridges, proxyBridges, client, job, fetch, response>>

-----------------------------------------------------------------------------
(* The status of an error, if there is none yet, and the end. *)
Told(resp) ==
  [resp EXCEPT !.status = IF resp.status = "none" THEN "error" ELSE resp.status,
               !.ended = TRUE]

(* The handler fails: the client is told in a body, whatever was written,   *)
(* unless the response is at its end.                                      *)
Fail(r) ==
  /\ Goes(r, "closing")
  /\ response' =
       IF client[r] = "gone" \/ response[r].ended THEN response
       ELSE [response EXCEPT ![r] = [Told(response[r]) EXCEPT !.notice = TRUE]]

(* browserProxyFor. *)
FindBridge(r, p) ==
  IF proxyBridges[p] # 0
  THEN job' = [job EXCEPT ![r].bridge = proxyBridges[p]] /\ Goes(r, "page")
  ELSE Goes(r, "bridge") /\ UNCHANGED job

(* The handler has its slot. *)
Start(r) ==
  /\ Up /\ at[r] = "start"
  /\ \/ /\ client[r] = "gone"
        /\ Release(r)
        /\ Forget(r)
     \/ /\ client[r] # "gone"
        /\ \/ job[r].route \in Proxies /\ FindBridge(r, job[r].route) /\ UNCHANGED response
           \/ job[r].route = Direct /\ Goes(r, "page") /\ UNCHANGED <<job, response>>
           \/ job[r].route = BadProxy /\ Fail(r) /\ UNCHANGED job
        /\ UNCHANGED <<active, waiters, client, fetch>>
  /\ UNCHANGED <<processVars, bridges, proxyBridges>>

(* createAuthenticatedSocksBridge listens, and the map is set. *)
BridgeListens(r) ==
  /\ Quiet /\ at[r] = "bridge"
  /\ bridges' = Append(bridges, job[r].route)
  /\ proxyBridges' = [proxyBridges EXCEPT ![job[r].route] = Len(bridges')]
  /\ job' = [job EXCEPT ![r].bridge = Len(bridges')]
  /\ Goes(r, "page")
  /\ UNCHANGED <<processVars, active, waiters, client, fetch, response>>

(* The browser has made the page, in a context of its own if there is a proxy, *)
(* and else in the one that shutdown closes first.                         *)
PageReady(r) ==
  /\ Quiet /\ at[r] = "page" /\ browser = "up"
  /\ job[r].route = Direct => process \notin {"bridges", "browser"}
  /\ job' = [job EXCEPT ![r].page = "open"]
  /\ Goes(r, "setup")
  /\ UNCHANGED <<processVars, active, waiters, bridges, proxyBridges, client, fetch, response>>

(* The page's functions are exposed, and the fetch begins. *)
BeginFetch(r) ==
  /\ Quiet /\ at[r] = "setup" /\ job[r].page = "open"
  /\ fetch' = [fetch EXCEPT ![r].phase = "sent"]
  /\ Goes(r, "fetch")
  /\ UNCHANGED <<processVars, active, waiters, bridges, proxyBridges, client, job, response>>

(* What the handler waits for fails, because the page was closed or by itself. *)
AwaitFails(r) ==
  /\ Quiet
  /\ \/ at[r] \in {"bridge", "page", "setup"}
     \/ at[r] = "fetch" /\ job[r].page = "closed"
  /\ Fail(r)
  /\ UNCHANGED <<processVars, active, waiters, bridges, proxyBridges, client, job, fetch>>

-----------------------------------------------------------------------------
(* browserFetchAndStream, as long as its page is there. *)
Fetching(r) == Quiet /\ at[r] = "fetch" /\ job[r].page = "open"

Turns(r, phase) == fetch' = [fetch EXCEPT ![r].phase = phase]

Headers(r) ==
  /\ Fetching(r) /\ fetch[r].phase = "sent" /\ ~fetch[r].aborted
  /\ Turns(r, "starting")
  /\ UNCHANGED <<processVars, active, waiters, bridges, proxyBridges, at, client, job, response>>

(* __cursorSidecarStart *)
SendHead(r) ==
  /\ Fetching(r) /\ fetch[r].phase = "starting"
  /\ Turns(r, "reading")
  /\ response' = IF client[r] = "gone" THEN response
                 ELSE [response EXCEPT ![r].status = "upstream"]
  /\ UNCHANGED <<processVars, active, waiters, bridges, proxyBridges, at, client, job>>

Chunk(r) ==
  /\ Fetching(r) /\ fetch[r].phase = "reading" /\ ~fetch[r].aborted
  /\ fetch[r].n < MaxChunks
  /\ fetch' = [fetch EXCEPT ![r].phase = "chunk", ![r].n = @ + 1]
  /\ UNCHANGED <<processVars, active, waiters, bridges, proxyBridges, at, client, job, response>>

\* Mutant of SendChunk: what is written to a client that left is dropped.
SendChunkToNobody(r) ==
  /\ Fetching(r) /\ fetch[r].phase = "chunk"
  /\ response' = IF client[r] = "gone" THEN response
                 ELSE [response EXCEPT ![r].sent = @ + 1]
  /\ Turns(r, "reading") \/ Turns(r, "drain")
  /\ UNCHANGED <<processVars, active, waiters, bridges, proxyBridges, at, client, job>>

(* __cursorSidecarChunk: the next one is not read before the client took this. *)
SendChunk(r) ==
  /\ Fetching(r) /\ fetch[r].phase = "chunk"
  /\ \/ /\ client[r] = "gone"
        /\ Fail(r)
        /\ UNCHANGED fetch
     \/ /\ client[r] # "gone"
        /\ response' = [response EXCEPT ![r].sent = @ + 1]
        /\ Turns(r, "reading") \/ Turns(r, "drain")
        /\ UNCHANGED at
  /\ UNCHANGED <<processVars, active, waiters, bridges, proxyBridges, client, job>>

Drain(r) ==
  /\ Fetching(r) /\ fetch[r].phase = "drain" /\ client[r] = "connected"
  /\ Turns(r, "reading")
  /\ UNCHANGED <<processVars, active, waiters, bridges, proxyBridges, at, client, job, response>>

LastChunk(r) ==
  /\ Fetching(r) /\ fetch[r].phase = "reading" /\ ~fetch[r].aborted
  /\ fetch' = [fetch EXCEPT ![r].phase = "ending", ![r].done = TRUE]
  /\ UNCHANGED <<processVars, active, waiters, bridges, proxyBridges, at, client, job, response>>

(* __cursorSidecarEnd *)
SendEnd(r) ==
  /\ Fetching(r) /\ fetch[r].phase = "ending"
  /\ Turns(r, "ended")
  /\ response' = IF client[r] = "gone" THEN response
                 ELSE [response EXCEPT ![r].ended = TRUE]
  /\ UNCHANGED <<processVars, active, waiters, bridges, proxyBridges, at, client, job>>

(* responseStartTimer: it is cleared by the first chunk or the end.         *)
StartTimeout(r) ==
  /\ Fetching(r) /\ fetch[r].phase \in {"sent", "starting", "reading"}
  /\ fetch[r].n = 0 /\ ~fetch[r].aborted
  /\ fetch' = [fetch EXCEPT ![r].aborted = TRUE]
  /\ UNCHANGED <<processVars, active, waiters, bridges, proxyBridges, at, client, job, response>>

\* Mutant of FetchFails: a response that was begun is ended as if it were whole.
FetchFailsQuietly(r) ==
  /\ Fetching(r) /\ fetch[r].phase \in {"sent", "reading"}
  /\ Goes(r, "closing")
  /\ response' =
       IF client[r] = "gone" THEN response
       ELSE [response EXCEPT ![r] = Told(response[r])]
  /\ UNCHANGED <<processVars, active, waiters, bridges, proxyBridges, client, job, fetch>>

(* The upstream fails, or what the page awaits was aborted. *)
FetchFails(r) ==
  /\ Fetching(r) /\ fetch[r].phase \in {"sent", "reading"}
  /\ Fail(r)
  /\ UNCHANGED <<processVars, active, waiters, bridges, proxyBridges, client, job, fetch>>

FetchReturns(r) ==
  /\ Fetching(r) /\ fetch[r].phase = "ended"
  /\ Goes(r, "closing")
  /\ UNCHANGED <<processVars, active, waiters, bridges, proxyBridges, client, job, fetch, response>>

(* The finally block: the page is closed, then the slot is given back. *)
Finally(r) ==
  /\ Quiet /\ at[r] = "closing"
  /\ Release(r)
  /\ Forget(r)
  /\ UNCHANGED <<processVars, bridges, proxyBridges>>

-----------------------------------------------------------------------------
(* The client closes its connection, and cancel the page, if there is one   *)
(* and the response was not flushed.  A body half read is one that Refuse  *)
(* refuses.                                                                *)
Leave(r) ==
  /\ Quiet /\ client[r] = "connected" /\ at[r] # "reading"
  /\ client' = [client EXCEPT ![r] = "gone"]
  /\ \/ /\ at[r] \in {"setup", "fetch"}
        /\ job' = [job EXCEPT ![r].page = "closed"]
     \/ /\ at[r] \in {"setup", "fetch"} => response[r].ended
        /\ UNCHANGED job
  /\ UNCHANGED <<processVars, active, waiters, bridges, proxyBridges, at, fetch, response>>

(* The pages of some handlers are closed, or crash, under them. *)
PagesGo(lost) ==
  job' = [r \in Requests |-> IF r \in lost /\ job[r].page = "open"
                             THEN [job[r] EXCEPT !.page = "closed"] ELSE job[r]]

PageCrashes(r) ==
  /\ Quiet /\ at[r] \in {"setup", "fetch"} /\ job[r].page = "open"
  /\ PagesGo({r})
  /\ UNCHANGED <<processVars, active, waiters, bridges, proxyBridges, at, client, fetch, response>>

(* Nothing of the process is left, nor of its connections. *)
ProcessExits ==
  /\ process' = "exited" /\ browser' = "gone"
  /\ active' = 0 /\ waiters' = <<>> /\ bridges' = <<>> /\ shut' = {}
  /\ proxyBridges' = [p \in Proxies |-> 0]
  /\ at' = [r \in Requests |-> "done"]
  /\ client' = [r \in Requests |-> "away"]
  /\ job' = [r \in Requests |-> NoJob]
  /\ fetch' = [r \in Requests |-> NoFetch]
  /\ response' = [r \in Requests |-> NoResponse]

(* The text of a failure is written after the end: unless all was flushed,  *)
(* this is an error event of the response that nothing handles.            *)
FailsAfterEnd(r) ==
  /\ Quiet /\ at[r] = "fetch" /\ job[r].page = "closed"
  /\ client[r] = "connected" /\ response[r].ended
  /\ ProcessExits

-----------------------------------------------------------------------------
(* shutdown, in the order of its awaits.  Handlers run between them.        *)
ShutdownGoes(from, to) == Quiet /\ process = from /\ process' = to

(* SIGTERM: the server takes no more connections. *)
Signal ==
  /\ ShutdownGoes("running", "server")
  /\ UNCHANGED <<browser, active, waiters, bridges, shut, proxyBridges, at, client, job, fetch,
                 response>>

\* Mutant of ServerClosed: shutdown does not wait for the connections.
ServerClosedAtOnce ==
  /\ ShutdownGoes("server", "context")
  /\ UNCHANGED <<browser, active, waiters, bridges, shut, proxyBridges, at, client, job, fetch,
                 response>>

(* The connection of the request has ended, or is idle. *)
Served(r) == client[r] = "connected" => response[r].ended

(* server.close: every connection has ended. *)
ServerClosed ==
  /\ ShutdownGoes("server", "context")
  /\ \A r \in Requests : Served(r)
  /\ UNCHANGED <<browser, active, waiters, bridges, shut, proxyBridges, at, client, job, fetch,
                 response>>

(* The shared context is closed, and the bridges of the map listen no more. *)
ContextClosed ==
  /\ ShutdownGoes("context", "bridges")
  /\ PagesGo({r \in Requests : job[r].route = Direct})
  /\ shut' = {proxyBridges[p] : p \in Proxies} \ {0}
  /\ UNCHANGED <<browser, active, waiters, bridges, proxyBridges, at, client, fetch, response>>

(* A bridge is closed when the connections by it have ended. *)
Receiving(r) ==
  /\ at[r] = "fetch" /\ job[r].page = "open"
  /\ fetch[r].phase \in {"starting", "reading", "chunk", "drain"}

BridgesClosed ==
  /\ ShutdownGoes("bridges", "browser")
  /\ \A r \in Requests : Receiving(r) => job[r].bridge \notin shut
  /\ UNCHANGED <<browser, active, waiters, bridges, shut, proxyBridges, at, client, job, fetch,
                 response>>

(* The browser is closed, and the process exits. *)
BrowserClosed == Quiet /\ process = "browser" /\ ProcessExits

(* The browser is gone: so is the process, unless it is shutting down.      *)
BrowserDies ==
  /\ Quiet /\ browser = "up"
  /\ \/ process = "running" /\ ProcessExits
     \/ /\ process # "running" /\ browser' = "gone"
        /\ PagesGo(Requests)
        /\ UNCHANGED <<process, active, waiters, bridges, shut, proxyBridges, at, client, fetch,
                       response>>

Shutdown == Signal \/ ServerClosed \/ ContextClosed \/ BridgesClosed \/ BrowserClosed

RequestStep(r) ==
  \/ \E route \in Routes : Arrive(r, route)
  \/ Refuse(r) \/ BodyRead(r) \/ TakeSlot(r) \/ Start(r)
  \/ BridgeListens(r) \/ PageReady(r) \/ BeginFetch(r) \/ AwaitFails(r) \/ Finally(r)

FetchStep(r) ==
  \/ Headers(r) \/ SendHead(r) \/ Chunk(r) \/ SendChunk(r) \/ Drain(r)
  \/ LastChunk(r) \/ SendEnd(r) \/ StartTimeout(r) \/ FetchFails(r) \/ FetchReturns(r)

SidecarNext ==
  \/ \E r \in Requests :
       RequestStep(r) \/ FetchStep(r) \/ Leave(r) \/ PageCrashes(r) \/ FailsAfterEnd(r)
  \/ Shutdown \/ BrowserDies

(* What runs next for r when nothing fails: at each await it is one of these. *)
Continues(r) ==
  \/ TakeSlot(r) \/ Start(r) \/ BridgeListens(r) \/ PageReady(r) \/ BeginFetch(r)
  \/ AwaitFails(r) \/ SendHead(r) \/ SendChunk(r) \/ SendEnd(r) \/ FetchReturns(r)
  \/ Finally(r)

(* Callbacks run, the browser makes and closes pages, timers fire.  Nothing *)
(* is assumed of clients, nor of the upstream once it has begun to answer.  *)
SidecarFairness ==
  \A r \in Requests :
    /\ WF_sidecarVars(Continues(r))
    /\ WF_sidecarVars(StartTimeout(r))
    /\ WF_sidecarVars(fetch[r].aborted /\ FetchFails(r))

SidecarSpec == SidecarInit /\ [][SidecarNext]_sidecarVars /\ SidecarFairness

(***************************************************************************)
(* Properties.                                                             *)
(***************************************************************************)
Places == {"none", "reading", "queued", "granted", "done"} \union Holding
Jobs == [route : Routes, bridge : Nat, page : {"none", "open", "closed"}]
Fetches ==
  [phase : {"none", "sent", "starting", "reading", "chunk", "drain", "ending", "ended"},
   n : Nat, done : BOOLEAN, aborted : BOOLEAN]
Responses ==
  [status : {"none", "upstream", "error"}, sent : Nat, notice : BOOLEAN, ended : BOOLEAN]

(* Every variable is of its type. *)
SidecarTypeOK ==
  /\ process \in {"running", "server", "context", "bridges", "browser", "exited"}
  /\ browser \in {"up", "gone"} /\ shut \in SUBSET Nat
  /\ active \in Nat /\ waiters \in Seq(Requests)
  /\ bridges \in Seq(Proxies) /\ proxyBridges \in [Proxies -> Nat]
  /\ at \in [Requests -> Places]
  /\ client \in [Requests -> {"away", "connected", "gone"}]
  /\ job \in [Requests -> Jobs]
  /\ fetch \in [Requests -> Fetches] /\ response \in [Requests -> Responses]

(* The semaphore counts the handlers that hold a slot, never more than its  *)
(* limit; those that wait are in its queue, once each; and while one waits *)
(* no slot is free, whatever way the others end: by an answer, a failure, *)
(* a timeout, or a client that left while it was queued.                   *)
SlotsAreExact ==
  /\ active = Cardinality(Holders)
  /\ active <= MaxConcurrency
  /\ \A i, j \in 1 .. Len(waiters) : waiters[i] = waiters[j] => i = j
  /\ \A r \in Requests : at[r] = "queued" <=> \E i \in 1 .. Len(waiters) : waiters[i] = r
  /\ Quiet /\ waiters # <<>> => active = MaxConcurrency

(* A client whose response ended without the text of a failure has all of  *)
(* what the upstream sent, and the upstream was at its end: a response     *)
(* that broke off, timed out or lost its page never looks whole.           *)
WholeOrMarked ==
  \A r \in Requests :
    LET resp == response[r]
    IN  resp.status = "upstream" /\ resp.ended /\ ~resp.notice =>
          fetch[r].done /\ resp.sent = fetch[r].n

(* As long as its client waits, a request that goes by a bridge finds it    *)
(* listening: no other request takes it away, and a shutdown closes it only *)
(* after the last connection has ended, whatever handlers still run then.  *)
BridgeStaysOpen ==
  \A r \in Requests :
    Up /\ client[r] = "connected" /\ ~response[r].ended /\ job[r].bridge # 0 =>
      /\ job[r].bridge \in 1 .. Len(bridges) \ shut
      /\ bridges[job[r].bridge] = job[r].route

(* A client that left does not keep a slot, at whatever await its handler   *)
(* was: the page is closed under it, or its first chunk finds nobody, or   *)
(* the timer of the response's start ends it.                              *)
SlotsComeBack ==
  \A r \in Requests :
    client[r] = "gone" /\ at[r] \in Holding ~> at[r] = "done" \/ ~Up
=============================================================================
