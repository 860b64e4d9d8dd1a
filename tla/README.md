# Verification of cursor-proto

cursor-proto is a Go implementation of Cursor's protocol: a client library
(`executor/`, `translator/`, `auth/`, `usage/`), an HTTP proxy that offers
OpenAI-, Anthropic- and Gemini-style endpoints (`cmd/cursor-proxy/`), a plugin for
a host kernel (`plugin/cursor/`), and an "agent mode" in which the proxy supervises
a Node process (`node-runner/`) that runs the Cursor SDK and multiplexes agents,
runs and tool calls over its stdin and stdout.

This directory holds TLA+ models of the parts of it whose correctness hangs on
interleavings, failures and shutdown, the TLC configurations that check them, and
theorems checked by TLAPS. Everything runs from this directory: `tlc -config X.cfg M`
for the runs, `tlapm M.tla` for the proofs. `PROJECT.json` lists the runs, the lines
each definition translates, the mutants that show each property can fail, the
findings, and the hazards the properties are aimed at.

## 1. Inventory

| Component | State | Operations and interactions | What is hard | What makes it correct |
|---|---|---|---|---|
| SDK supervisor (`executor/sdk/`) | pending calls, run and tool subscriptions, pending tool results, the child process, the shutdown flags | `call`, `Send`, `SubscribeToolCalls`, `CompleteToolCall`, `ForceExpireToolCall`, `Close`; one reader goroutine dispatches the child's lines, one goroutine per reverse tool call, one waits for the exit | two maps under two mutexes, each released before the channel found in it is used; timeouts; a child that dies; Close from two sides | every call returns, a stream is an in-order extract of its run, each tool call is answered once, no channel is closed twice |
| Node runner (`node-runner/src/`) | agents, runs, two maps of pending tool promises | ten JSON-RPC methods, one pump per run, tool promises with timers | async functions interleave at their awaits | implements the protocol the supervisor relies on, settles each promise once, tracks its runs |
| Agent HTTP handlers (`cmd/cursor-proxy/agents_*.go`) | none of their own | consume a run's channel until the final message, the close, or the client's departure | the client may leave at any time | report how a run ended |
| Chat stream reader (`executor/chat.go`) | buffer, one-shot deadline, activity clock, 32-slot channel | reads Connect frames, watches for terminal signals | a deadline, two watchdogs and a consumer that may stop reading | frames reach the consumer once and in order; a finished, lost or silent turn ends the stream; a consumer that leaves releases the reader (it does not, see 4) |
| Inference stream (`executor/inference_stream.go`) | the calls started and completed, an end or error seen, a 32-slot channel | turns frames into chat events; makes up an end of turn | read errors, bad frames and cancellation against synthetic ends of turn; parts of a call spread and repeated | a turn ends once, a call starts once |
| Proxy stream handlers (`cmd/cursor-proxy/main.go`, `*_handler.go`) | per-request | consume chat events, write SSE | early return leaves the producer behind | every event is written once, in order |
| Plugin's Anthropic stream (`plugin/cursor/kernel/execute.go` `streamClaude`, `translator/anthropic.go`, `output_limit.go`) | open block, next index, announced tools, text consumed and held back, what was emitted | one event or timer at a time to SSE frames; a failed emit ends it | text twice (deltas, snapshots), tools announced twice or never answered, failure before or after the first byte | the client reads one well-formed message, the text once and in order, and no second message spliced in |
| Simulated prompt cache (`executor/simcache/`) | LRU list and map under a mutex | LookupOrRecord: expiry, eviction | the clock is read outside the lock | bounded; what was used recently is there, what was not expires |
| Plugin quota routing (`plugin/cursor/kernel/quota_route.go`, retry in `execute.go`) | cache of quotas with a ttl | filter the models advertised; choose, and change, the lane of an execution | overlapping fetches; two functions over the same bars | decisions on a recent quota; what is advertised is served |
| Plugin account registry (`plugin/cursor/kernel/status.go`) | accounts, cache of their status | Register, Invalidate, Status | a fetch overtaken by a registration | no status of an earlier version but by overlap |
| Account reloader and model catalog (`cmd/cursor-proxy/main.go`, `executor/client.go`, `models.go`) | current account, catalog and its identity | reload when the IDE's database changes; resolve models | the account is asked for several times per call | a request uses its own account's catalog |
| Chromium sidecar (`chromium-sidecar/src/`) | a semaphore with its queue, a map of bridges, one page per request, the shutdown flag | relays a request through a page of one browser; the page calls back with the head, the chunks and the end | clients that leave at any await, timers, failures after the head, first requests for one proxy, shutdown | slots are counted exactly and come back, what broke off does not look whole, a bridge in use is open |
| Plugin client cache, login | maps | get or build; Start, Poll | check and store apart; two polls of one state | see `PROJECT.json` |
| Other translators, request building, accounts, usage, sandbox, tools | none shared | conversions and input/output | formats rather than order | conversion-level, left to unit tests |

`PROJECT.json` names the sources of each component and says of each one that is not
modelled why, or in which module of the plan it will be.

## 2. Modules and their correspondence to the code

```
GoChannels   AgentTypes
     \        /      \
     ToolCalls     RunnerProtocol
      |      \        /       \
 ToolCalls-   Supervisor     NodeRunner        GoChannels      AnthropicMessage
 Proofs \         |               |                 |                 |
       Supervisor-Proofs  NodeRunner-Proofs    ChatStream       ClaudeStream
                                                    |                 |
                                             ChatStream-Proofs  ClaudeStream-Proofs

 SimCache  QuotaRoute  AuthRegistry  ModelCatalog     Sidecar       InferenceStream
      \         \          /            /                |                |
       -----  CacheProofs  -------------            Sidecar-Proofs  InferenceStream-Proofs
```

**GoChannels.** A Go channel is a record of a buffer and a closed flag. The
operators are the rules the supervisor relies on: a `select` with a default
never blocks and drops what does not fit; a receive sees the close only when the
buffer is empty. Sends on, and closes of, a closed channel are panics; the modules
record them in the variable `panic`, after which the process does nothing more.

**AgentTypes** and **RunnerProtocol.** The pipe between the two processes, as an
abstract specification of the child: requests are answered at most once, a
successful `agent.send` names a run of its own, a run's notifications are its
events and one final message, and the process may exit at any time. Nothing says
that a run's first notification follows the reply that names it, because the code
does not say so. `Supervisor` runs against this child; `NodeRunner` is checked to
implement it, so the two halves compose.

**ToolCalls** is the reverse-RPC half of `supervisor.go`: one goroutine per
`tool.execute` request (`HandlerStep`: look up the run's channel, register under
the callId, enqueue, await, reply), `SubscribeToolCalls`, `CompleteToolCall`,
`ForceExpireToolCall`, and the part of `closeRun` that closes the tool channel. A
step is a critical section or a channel operation, so the code's unlocked gaps are
gaps of the model. On its own (`ToolSpec`) it lives in an environment that hands
it any request, ends any run, stops, or panics elsewhere.

**Supervisor** composes ToolCalls with `call` (one goroutine per request, which goes
on to be the HTTP handler of its stream), `readStdout`, `Close` and `awaitExit`.
`caller`, `reader`, `closer` and `watcher` are the program counters; `pending` and
`respCh`, `runSubs` and `runCh` are the maps and the channels they hold. The
consumers are `streamSSE` and `streamNonStreaming` (they return on the final message, on a
closed channel, or when the client leaves) and `drainToVoid` (only on a closed channel).
`AwaitExit` may lose the unread tail of stdout, as `cmd.Wait` closes the pipe. The reader ends at the end
of stdout, and also at a line over the scanner's 4 MB, while the child lives and writes (`ReaderEnds`; `OverLong` says
which kinds of line may be that long): from then on nothing is dispatched.

**NodeRunner** is the event loop: a step is what runs between two awaits. `task` is
what each dispatch awaits, `pump` where each run's stream is, `byId` and `byCallId` the
tool bridge's maps. The SDK is external: its promises settle at any time, either way.

**ChatStream** is `readSSEStream` (`executor/chat.go:391-573`) between Cursor and the handler
that consumes its events. `reader` is where the goroutine is: at the check of the
deadline, in Read, among the frames of its buffer (`buf`), in the request that approves a
server tool, or in the send to the channel `out`. `deadline`, `resultTimer` and `watchdog` are
the goroutines that close the `body`; the deadline's firing and its closing the body are
two steps, and so are the watchdog's look at the clock and its close, so the reader
may run in between. The consumers are of two kinds: the proxy's handlers read on to the
close (`nonStreamAnthropic` leaves at the end of a turn with output), the plugin's
return at a failed emission, an error trailer, or a deadline of their own. A frame is its type
and its position; a Read may return any number of the frames that have arrived.

**ClaudeStream** is `streamClaude` (`execute.go:1189-1594`) with `AnthropicStreamWriter`. A
step is an iteration of its loop: one event of Cursor's or one timer, encoded and emitted to the
host in one or more payloads, each of which may fail (`Emit`). `writer` is the encoder's state,
`assistant` is `textState`, `limiter` the `OutputLimiter`, `pendingText` the text held back for a
thinking signature, `flags` the handler's booleans. The text of the turn is the pieces 1, 2, ...,
which Cursor sends as deltas and again as snapshots of the message so far, in any mixture. The
client reads the `wire` frame by frame: `client` is the message it has, `content` its text and the
indices its blocks have started at. What an iteration emits is the writer after it, its frames and the `cuts`, the
places at which an emit that fails may end it.

**AnthropicMessage** is what such a client may rely on: one `message_start`, every tool block
started and stopped once under an index no other had, and no `message_stop` before the start, while a block
is open or while a server tool is without its result. `ClaudeStream` implements it under the mapping of
its `client` record (`MessageSpec`), except that a turn that starts no message may still write the stop of one: the mapping takes such a
client for one that has read nothing (`StartedPhase`), and `StartsBeforeStop` says, and is refuted, that there is none.

**InferenceStream** is `readInferenceStream` and the conversion of each kind of frame. `readLoop`
holds the events a frame became until each is sent; `log` is every event sent and `taken` how
many the consumer has, so the channel is what lies between. The calls of a closing message are converted one
per step, as its loop over them does. `CancelTurn` is the watcher that
closes the body: the reader notices at a later read.

**SimCache** is `Store.LookupOrRecord`. `ReadClock` and the critical section are two steps,
because the code reads the clock before it takes the mutex; the LRU list is kept as the turn at
which each element was last put in front. The ghost `history` says of each prefix when it
was last used and which others were used since.

**QuotaRoute** has the two kinds of host calls that load an account's quota: `model.for_auth`,
which filters the models it lists, and `executor.execute`, which takes a lane, or none, and may
try once more in the bot lane. Lookup, fetch and store are separate steps; a fetch takes
time, the rest does not. A fetch lasts at most `HttpTimeout`, the 30 s of the HTTP client: the 8 s of
`quotaFetchTimeout` are those of a context that `usage.Client.call` discards. **AuthRegistry** has `Register`, `Invalidate` and the two critical
sections of `Status` around an unlocked fetch. **ModelCatalog** has the IDE, whose user switches
accounts at any time, the reloader, and requests that resolve a model against the cached
catalog or fetch one; each use of `CurrentAccount` may meet another account than the last.

These six (ClaudeStream to ModelCatalog) share no state with one another nor with the supervisor, so `MCLocal`
checks them in one run with two streams of the supervisor: the variable `part` names the one that moves.

**Sidecar** is the HTTP handler of `main.mjs` with the fetch that runs in its page
(`browser_fetch.mjs`). `at` is what each handler awaits, `fetch` where the page's function is, `client` whether
anyone is still connected, `response` what was written to them. The page and the handler are two processes that call one another, so
either may have closed or ended when the other goes on. A step is what runs between two awaits; Node runs
the continuations that are ready before it takes the next event (`Quiet`), which is what lets
`Semaphore` leave a slot free until the waiter it told takes it. A page may crash at any await after it was made
(`PageCrashes`). The shutdown is a process of its own, whose `process` is the await it is at: the server, the shared context,
the bridges, the browser, the exit; handlers, and requests on connections that are still open, run between them, and the browser may die
in the middle. A bridge is a number of its own, so that two for one proxy can be told apart; `shut` are those that were closed. It shares nothing with ToolCalls either, and
`MCCalls` checks the two in one run in the same way.

**MC\*** modules give CONSTANTS their values for TLC. Operators whose comment
begins with "Mutant of" are not part of the model: each is the variant of the next
definition that a plausible bug would give, and TLC finds a property violated by it.

Abstractions: the bytes of frames (a frame is its kind, id, run and position), the
contents of parameters (a request is well formed or not), logging, the exact
durations of timeouts (a timer fires at any time), the capacity of the OS pipe (a
write succeeds or fails, it never blocks), and wrap-around of the 64-bit id counter.

## 3. Runs

| Run | Question | Bounds |
|---|---|---|
| `calls` | are reverse tool calls answered once, by the answer that was posted and accepted for them, and unwound by a stop? in the sidecar, are slots counted exactly and given back, does what broke off look whole, are bridges open while they are used? | tool calls: three requests, two of them with one callId and a third malformed; one run, two subscriptions, a channel of one slot, two posts, one of them a forced expiry. sidecar: two requests for one slot, one proxy with credentials, responses of two chunks |
| `sup_live` | do shutdown and crash release everybody? is every channel closed once? is the stream of a run with an event in order? does the tool half behave as ToolCalls allows? | one call, unary or drained, one run with one event, one tool request, one subscription; events and final messages may be over-long |
| `node_runner` | does the runner implement RunnerProtocol, keep track of its runs, settle each promise once? | three requests of any method, one agent, one run, two tool calls sharing an SDK call id |
| `sup_send_on_closed` | can the reader send on a channel Close has closed? (yes) | one call |
| `sup_terminal` | does a run's channel always close? (no) | one agent.send |
| `node_close_race` | are dispatches serialised? (no) | create, send, close |
| `node_run_end` | does the end of a run settle its tool calls? (no) | one run, one tool call |
| `chat_stream` | does every frame reach the consumer once and in order? does its stream end after a terminal signal, a lost search, a silence? | two frames besides any number of heartbeats, two in flight, a channel of one slot; requests that declare tools, with and without server tools; both kinds of consumer |
| `chat_left_behind` | does the reader end when its consumer has left? (no) | the same, the plugin |
| `local_state` | does the plugin's client read one well-formed message with the text in order? is the prompt cache an LRU cache? are routing decisions, statuses and catalogs recent and the account's own? does an inference turn end once? does each handler of the supervisor get an in-order extract of its own run, and do its maps hold what they should? | stream: two server tools, one client tool, two pieces of text, four events. cache: two handlers, three hashes, capacity 2, ttl 1, clock to 3, four lookups. quota: two host calls, two quotas, ttl 2, HTTP timeout 1, clock to 3. registry: two callers, three versions. catalog: two accounts, two requests, two switches. inference: two calls, two frames, a channel of one slot. supervisor: two agent.send, two runs (symmetric) of a final message each, channels of one slot, final messages may be over-long |
| `claude_index` | does every content block start at an index of its own? (no) | one server tool, one client tool, one piece of text, three events |
| `claude_start` | does a message start before it stops? (no) | one server tool, one piece of text, three events |

Why the bounds are enough: a race here is between a lookup and the use of what it
found, so it takes two actors and one or two messages; two runs are needed for one
run's message to reach another's handler, two requests with one callId for a
collision in a map, two subscriptions for one to displace the other, a capacity of one to have a
full channel after one message (256, 16 and 32 in the code). Two frames are what a
clobbered buffer, or an announcement and its result, take; four events take in two tools, an
announcement repeated and text between, or a snapshot between two deltas; three hashes are one more than the
cache holds, and three versions one more than two overlapping fetches can hold; two requests for one slot
are what it takes to have one wait while the other ends in any way, and the proof covers longer queues; a heartbeat is only sent when
none waits, which keeps the stream as long as anyone cares to wait and the state finite. The model's `MaxCalls`,
`MaxEvents`, `MaxCursorEvents` and `MaxSubs` bound nothing but the number of requests, events and subscriptions.

Deadlock is not checked, because every one of these systems really stops: requests
are used up, the process exits or dies of a panic. What must not be stuck is stated
as liveness instead.

### Safety properties worth reading

* `StreamInOrder` relates what a handler has read and has yet to read to the run's
  own numbering: nothing of another run, nothing after the final message, and no
  reordering, though messages may be dropped.
* `PendingHasCaller` says the pending map leaks nothing and holds no closed channel,
  at any point of a timeout, a crash and a Close.
* `AcceptedIsReplied` says the runner gets the answer that is accepted first while the handler waits, and no later one,
  whatever posts and forced expiries race for the call, unless the supervisor stops.
* `NoStrandedExecute` and `NoOrphanEntry` are the two directions of the tie between
  `pendingToolResults` and the handlers.
* `RunsTracked` says an ended run never reappears in the runner's map.
* `SettledOnce` counts the settlements of each tool promise against the bridge's
  map, under reuse of call ids, for which `byCallId` loses an entry.
* `FramesIntact` puts what the consumer has, the channel, the frame in hand and the buffer
  side by side: together they are the server's frames so far, in order. The bug the comment
  at `chat.go:476-486` remembers violates it.
* `TextInOrder` accounts for every piece of text of the turn: read by the client, on the wire,
  held back for a signature or by the limiter, together they are what was consumed, once each.
* `FailoverIsSafe` says an error for which the host tries another account is only returned while
  the client has nothing: the hazard the comments at `execute.go:1341` and `1493-1497` describe.
* `RecentIsCached` is the promise of an LRU cache in terms of uses only, so it does not depend on
  the list being sorted by access time, which it is not.
* `AdvertisedIsServed` compares the filter of `model.for_auth` with the decision of
  `executor.execute`, two functions of the same quota written apart.
* `StaleOnlyByOverlap` and `CatalogIsOwn` say exactly when a cache may hold what it should not: only
  if a registration, or a switch of accounts, overtook the fetch (see "also met" below).
* `InferenceEnds` says a turn that was not cancelled never closes without an end or a failure, and
  that an end the reader makes up comes alone.
* `SlotsAreExact` ties the semaphore's counter to the handlers that hold a slot and its queue to those
  that wait, across every way a handler can end; no slot is free while someone waits.
* `WholeOrMarked` says a response that ended without an error text is all of what the upstream sent,
  through timeouts, breaks, lost pages and clients that leave.
* `BridgeStaysOpen` says that a request whose client waits keeps its bridge: a shutdown closes the bridges while the
  process and some handlers still run, but only after the last connection has ended. It fails if `server.close` is not
  awaited (`ServerClosedAtOnce`).
* `ProtocolSpec` (of NodeRunner), `ToolSpec` (of Supervisor) and `MessageSpec` (of ClaudeStream) are
  refinements: the abstract specification is checked as a property. The first two share their
  variables with it; for the third the mapping is the client's view of the frames it has read, of a message that was started.

### Liveness and fairness

The fairness assumed is weak fairness of each goroutine of its own (a caller, the
reader, the closer, the watcher, each tool handler, each POST in progress): the Go scheduler runs
what is runnable. Timers of the supervisor's shutdown fire. A child whose stdin was
closed exits, by itself or by the SIGKILL that follows. Nothing is assumed of a living
child (it may never answer), of clients (they may never read, post or leave), or of
contexts (a call's timeout need not fire), so `ShutdownReleasesCallers` and
`StopUnwindsHandlers` hold without their help. In the runner only expired timers and
the `finally` that follows a finished pump are fair; the SDK's promises may never settle.

For the chat stream the fairness is that of its goroutines and of their timers, and of a
consumer that has something to take. A request for approval returns because its client
has a timeout of 30 s (`chat.go:693`). The idle timeout is only sure to pass while nothing
arrives, which is why `SilentStreamEnds` is stated of silence and `ServerToolEnds` needs a
timer of its own. Nothing is assumed of the server: it may send heartbeats for ever, which
is the case `TerminalSignalEnds` and `ServerToolEnds` are about.

For the sidecar it is that of continuations, of the browser where it makes, uses and closes a page, and of
the timer of the response's start. The upstream may never answer, or stop in the middle; clients may stop reading.
`SlotsComeBack` holds nevertheless, because a departure either closes the page or leaves the timer and the first
chunk to end what it could not cancel.

`TimelySubscriptionCloses` is the true form of "the channel closes": for a
subscription made before the reader reached the run's final message and before a
shutdown swept the map, and unless the reader has stopped at a line that is too long. The unconditional form is refuted (`sup_terminal`).
`AcceptedIsReplied` assumes that goroutines run, nothing of clients.

## 4. Findings

Each is a run with `expect: violation`, checked against a sentence of the repository:

1. **Send on a closed channel** (`supervisor.go:427`, `517`). The reader uses a
   channel after releasing the mutex it looked it up under; Close closes it in the gap.
   The process panics. Close waits for the child's exit, not for the reader.
2. **A stream that never ends** (`api.go:87`). `run.done` dispatched before Send
   registers the run closes nothing; the channel registered afterwards stays open.
3. **An index started twice** (`anthropic.go:513`). A tool's result takes the next index without closing
   the text or thinking block that is open at it; the block is then closed under an index nothing started.
4. **Dispatches are not serial** (`index.ts:189`). `void dispatch(...)` lets agent.send
   resume after agent.close of the same agent and record a run of a closed agent.
5. **The end of a run settles nothing** (`runner.ts:270`). Tool entries are filed
   under the placeholder run id; the promise waits for its timer.
6. **A reader left behind** (`chat.go:563`). The reader's send watches nothing; a plugin handler
   that returns early leaves it blocked once the 32 slots are full, with the body open, whatever
   the deadlines and the cancelled context do to the body.
7. **A message that stops before it starts** (`anthropic.go:537`). The end of the turn is encoded without `startFrame`:
   after a turn of nothing but a usage, the plugin's client reads a `message_stop` without a `message_start`.

Also met while modelling, without a run of its own: a line over 4 MB is not dropped, as `supervisor.go:386-388` says: `Scan`
returns false and the reader ends, so no later reply or notification is dispatched and streams stay open until a shutdown
(`StoppedReading` is how `TimelySubscriptionCloses` excludes it); an answer that CompleteToolCall accepted is lost if the run's
tool channel turns out to be full (657-662); the comment at
`supervisor.go:534-540` says closing a run unblocks its pending tool calls, but it only closes
the channel of requests; the guard at 297 tests for a nil map that Close
never leaves; a run registered after Close swept `runSubs` keeps its channel open
(`TimelySubscriptionCloses` excludes it); a `tool.execute` handler may send on a tool channel
closed since its lookup (`EnqueueToolOnClosed`, reachable, the same panic as finding 1); a full
channel drops `run.done` (517), after which the handler reports `supervisor_closed` for a run that
finished, contrary to `agents_stream.go:65-68`.
In `chat.go`: the 60 s `heartbeatDeadline`, which the comment at 343-344 says caps a read of
heartbeats only, is used for nothing but its sixth, so a turn without a terminal signal may be
kept open by heartbeats for ever as far as the reader is concerned; the 10 s armed by turn_ended are
not shortened when the assistant blob follows, as 339-340 says; a failed approval puts a Status on
an event that is no trailer (504), which every consumer ignores, though 174-176 calls it the
signal to surface. In `execute.go`, `buildClaudeNonStreaming` remembers one pending server tool
(687), so of two only the last gets the result that 549-553 says each must have.

In `anthropic.go`: a repeated announcement of a tool drops the `content_block_stop` of a text block it
closed (352-362, 431-443), so that block is never stopped, which `MessageSpec`, whose blocks are those of tools, does not
say; a tool announced again after its completion opens a second
block for one id. In `execute.go` of two server tools only the last has the timer (1246-1251).
In `models.go`: `ListModels` asks for the account again when the answer has come (51), so a switch in
between files the old account's catalog under the new one for five minutes. In `main.go` the IDE's
account is read before the modification time of its database (276-279): a switch between the two is not
noticed until the next one, contrary to 272-274. In `quota_route.go` the 8 s of `quotaFetchTimeout` (102) have no effect, as `usage/client.go:551-557` discards the context, so an
execution may wait 30 s for its quota; and of two overlapping fetches the older may be stored last (147). In `status.go` a status fetched before a re-registration
is stored after it, for 30 s, contrary to the comment at 393. In `executor.go` two concurrent calls of
one account may build two clients, contrary to 43-45. In `handlers.go` the catalog that 113 calls the newest is the
one stored last, of two listings that overlap perhaps the older. In `socks_bridge.mjs` the sockets of an established tunnel have no `error` listener of the
module's own, so the reset of one may end the process, and a client that closes during the
handshake with its proxy may leave the socket to the proxy open: its `close` has been emitted by the time line 43 listens
for it. In `main.mjs` (all four are behaviours of Sidecar) a client that leaves before its page is made cancels nothing (83),
contrary to line 175 of `docs/chromium-transport.md`: the fetch is sent and holds a slot until its first chunk or the timer;
two first requests for one proxy make two bridges (259: an await separates look-up and registration), of which the one that is
overwritten is neither reused nor closed before the process exits; and a response that times out after its head was
written ends under the upstream's status with an error text for a body (110), which is not the retryable error of lines 208-211;
and a page that crashes after the end of a response was written, but not all of it flushed, makes the handler write after the
end, an error event nobody listens for, which ends the process (`FailsAfterEnd`). In `inference_stream.go` the sends ignore the
context like those of finding 6, each usage frame gives an end of turn of its own, and a closing message
that repeats what was streamed repeats its text. In `simcache/store.go` the sweep may stop before an expired
entry, because the list is not sorted by access time; it is found at its next lookup. The fields of a shared
`auth.Account` that name a box relay are written and read without a lock (`sandbox.go:52-66`).

In this revision nothing under `cmd/` calls SubscribeToolCalls or CompleteToolCall yet;
the model lets any client call them.

## 5. Proofs

`ToolCallsProofs` proves, for any sets of requests, runs, call ids and posts, any
capacity and any number of subscriptions:

| Theorem | Establishes |
|---|---|
| `ToolTypesCorrect` | `ToolSpec => []ToolTypeOK` |
| `RepliesAreSingle` | `ToolSpec => []RepliedOnce` |
| `WaitersAreReachable` | `ToolSpec => []NoStrandedExecute` |
| `EntriesAreOwned` | `ToolSpec => []NoOrphanEntry` |
| `SubscribedChannelsOpen` | `ToolSpec => []SubscribedChannelOpen` |
| `AnswersComeFromPosts` | `ToolSpec => []AnswersArePosted` |

The assumptions are `RunAssumption` and `ToolAssumption`: the "none" values are
outside their sets and the bounds are numbers. TLC evaluates them in every run.

The argument. `TypeInv` strengthens the type invariant with what the steps need to stay
typed. `EntryInv` is the conjunction of the three facts about map entries, which
are inductive only together: a duplicate is refused because the entry in the map has
a live owner (`NoOrphanEntry`), a handler removes its entry because it is its own
(`NoStrandedExecute`). `RouteInv` adds to `SubscribedChannelOpen` that channel numbers
not yet made are unused, without which a new subscription could share a channel.
`AnswerInv` traces an answer back through the outcome channel: every outcome in a buffer was put
there by a post that has been accepted and named this callId. Each has one step per action.

The other proof modules follow the same plan: an inductive invariant that strengthens
the properties, one step per action, and a theorem per property.

| Module | Theorem | Establishes |
|---|---|---|
| `SupervisorProofs` | `SupervisorTypesCorrect` | `Spec => []TypeOK` |
| | `PendingEntriesAreLive` | `Spec => []PendingHasCaller` |
| | `SubscriptionsAreOpen` | `Spec => []SubscriptionOpen` |
| | `ChannelsCloseOnce` | `Spec => []NoDoubleClose` |
| | `HandlersReadInOrder` | `Spec => []StreamInOrder` |
| | `ComposesToolCalls` | `Spec => ToolSpec` |
| `NodeRunnerProofs` | `RunnerTypesCorrect` | `RunnerSpec => []RunnerTypeOK` |
| | `RunsStayTracked` | `RunnerSpec => []RunsTracked` |
| | `PromisesSettleOnce` | `RunnerSpec => []SettledOnce` |
| | `RunnerImplementsProtocol` | `RunnerSpec => ProtocolSpec` |
| `ChatStreamProofs` | `ChatTypesCorrect` | `ChatSpec => []ChatTypeOK` |
| | `FramesStayIntact` | `ChatSpec => []FramesIntact` |
| `CacheProofs` | `StoreIsBounded` | `CacheSpec => []CacheTypeOK` |
| | `RecentlyUsedIsCached` | `CacheSpec => []RecentIsCached` |
| | `EntriesAgeFromLastUse` | `CacheSpec => []AccessIsLastUse` |
| | `QuotasAreRecent` | `QuotaSpec => []QuotaIsRecent` |
| | `AdvertisementsAreServed` | `QuotaSpec => []AdvertisedIsServed` |
| | `LanesStayLegal` | `QuotaSpec => []LanesAreLegal` |
| | `StalenessNeedsOverlap` | `RegistrySpec => []StaleOnlyByOverlap` |
| | `CachedCatalogIsOwn` | `CatalogSpec => []CatalogIsOwn` |
| `InferenceStreamProofs` | `TurnsEndOnce` | `InferenceSpec => []InferenceEnds` |
| | `ToolCallsStartOnce` | `InferenceSpec => []CallsStartOnce` |
| `ClaudeStreamProofs` | `FailoverStaysSafe` | `ClaudeSpec => []FailoverIsSafe` |
| | `ClaudeTypes` | `ClaudeSpec => []ClaudeTypeOK` |
| | `TextStaysInOrder` | `ClaudeSpec => []TextInOrder` |
| | `MessageRefined` | `ClaudeSpec => MessageSpec` |
| `SidecarProofs` | `SidecarTypesCorrect` | `SidecarSpec => []SidecarTypeOK` |
| | `SlotsStayExact` | `SidecarSpec => []SlotsAreExact` |
| | `BrokenIsMarked` | `SidecarSpec => []WholeOrMarked` |
| | `BridgesStayOpen` | `SidecarSpec => []BridgeStaysOpen` |

**The supervisor.** `ComposesToolCalls` says every step of the whole is a step of ToolCalls or
leaves its variables alone (the reader's dispatch of a request, the close of a run and the shutdown are its
environment's steps), so what is proved of ToolCalls holds of the supervisor without a
second proof; `SupervisorTypesCorrect` uses it. `SupInv` joins what ties a map entry to the goroutine that made it:
a pending entry has a caller awaiting its reply and an open channel (`CallInv`), the reply in the reader's hand
answers the call it was looked up for (`ReplyInv`), a subscribed run was made by a call and its channel is
open until it is taken out of the map (`RunInv`). None is inductive alone, because a critical
section of one actor relies on what the others left in the maps. `HandlersReadInOrder` adds `PipeInv`, that the messages of a
run on the pipe follow in order the one in the reader's hand and end with its final message, and `HandedInv`, that what was handed
to a handler is of its own run and precedes everything that is still to come. Messages may be dropped; the order is proved of what remains.

**The runner.** `RunnerInv` says what each dispatch may await: the request it serves, of the kind
its method has, and the run it may have made (`TaskInv`); that stdin holds requests nobody has dispatched
(`StdinInv`); that a pump is only streaming or waiting for a run that lives (`PumpInv`); and, for the bridge, that an
entry of `byId` was announced to the host and is not settled (`BridgeInv`). `RunnerImplementsProtocol` is a
refinement: each action of the event loop is a step of the abstract child, and each new request a step of its parent.
With it and `ComposesToolCalls`, the two processes compose: the supervisor's theorems assume nothing of its
child that the runner is not proved to do.

**The chat stream.** `Flow` is everything between the consumer and the server: what was received, the channel, the frame
in hand, the buffer and the connection. `ChatInv` says that it holds the frames sent so far, each once and in order, with
heartbeats between them. Sends append to it, the steps of the reader move its parts along and leave it as it is
(`ReadMoves`, `MoveHead`, `SendMoves`), and the consumer drops heartbeats from it (`TakeMoves`, by `ReplacesBefore`: what may stand for the front of the flow may do so before anything). `FramesIntact` is
about a prefix of `Flow`. The bound of the buffer needs that the reader asks for more only when it has nothing left.
The theorems are about `ChatSpec`, so about `ChatFairSpec` of the run too, and about every capacity of channel and connection.

**The prompt cache.** `CacheInv` ties the list to the history of uses: all that stands in front of an
element was used since. An entry that is evicted therefore has a full cache of others used since, which is
`RecentIsCached`; the lemma that counts them (`EvictionLemma`) is about cardinalities of finite sets.

**Quota routing.** `QuotaInv` bounds the age of what is cached by the duration of a fetch, and of what a call acts on
by ttl and fetch together, where a fetch is bounded by the HTTP client's timeout and nothing else. `FilterAgreesWithDecision` is the fact behind `AdvertisedIsServed`: the filter and the decision agree
on every quota, so it does not depend on the two quotas of the run.

**Registry and catalog.** `FetchesCurrent` (a fetch is of the version registered when it began, or an
overlap is on record) and `FilingInv` (a catalog is filed under the account it was fetched for unless a switch overtook it) are inductive and
give the two properties.

**The inference stream.** `Said` is what the reader has sent and what it has yet to send, one sequence, which
sending an event does not change; only the conversion of a frame adds to it. `CallsRecorded` says that the sets of calls
started and completed are those `Said` has events of, so a part that finds its call in them says nothing twice
(`CallsInOrder`); `EndsRecorded` that the flags of an end and of a failure are set when `Said` has one, so the end that
`SyntheticTurnEnd` makes up, which looks at the flags, is the only one (`EndsAlone`). The properties are about `log`, its front.

**The plugin's stream.** `StartIsRecorded`: any frame that left the handler is on record in its flags, and
within the loop no emit has failed. Hence the error the host may retry is only returned while nothing has left.

The other three theorems need all of `ClaudeInv`. For the message (`MessageInv`) it says that the frames on the wire form a
`Path`: a sequence of messages, from the one the client has read, each made of the one before by a frame that has its place in
it (`Fits`). While the handler is in its loop, the path ends in a message that `Agrees` with the writer: its open blocks
are those the writer knows, each at an index of its own below the writer's next, the results owed are those of the server
tools it knows, and a message is open if the writer has started one. Every encoder has a lemma: its frames are a path from a message
that agrees with the writer to one that agrees with the writer after it (`ContentAgrees`, `ToolStartedAgrees`, `ToolResultAgrees`,
...; the end of the turn, `OrphansPath` and `TurnEndedPath`, for any number of open tools and any order of closing them). `ThenLeads`
joins the payloads of a step, `Emission` cuts them where an emit fails: a prefix of a path is a path, so whatever the client
reads fits, which makes each of its reads a step of AnthropicMessage (`ReadRefines`) or leaves it alone.

For the text (`TextInv`) there is a number up to which the pieces have been read or are on the wire (`WireText`: in one frame at most), and
what `pendingText` and the limiter hold are the pieces after it, consecutive `Run`s up to what was consumed unless a stop
sequence cut them off. A delta or a snapshot adds the pieces that come next (`ConsumedRuns`), which is where `consumeDelta`'s silence after a
snapshot enters, and a signature or the end of the stream releases what is held before anything that follows it (`DeliveryLeads`, `FarewellLeads`).
An emit that fails loses pieces, but the handler returns with it: what was read is still a prefix.

**The sidecar.** In `SlotInv` a slot that was granted is not counted until its waiter takes it, but spoken for:
`active` is then below the limit by that one slot, and exactly by it if others wait. That is only inductive with
`OneReady`, that a ready continuation is the only one, which is where the order of Node's event loop enters. `RelayInv` has,
for each phase of the fetch, how many of the chunks read were written. `BridgeInv` says that a bridge known to the map or
to a handler was made for the right proxy, and `ShutInv` that the shutdown has closed none before it has waited for the
server; from then on every connected client has got the end of its response, and none can arrive, which is what
`BridgesStayOpen` needs. The handlers of clients that left still run.

Assumptions: those named in the modules (`SupervisorAssumption`, `ProtocolAssumption`, `ToolAssumption`,
`RunAssumption`, `RunnerAssumption`, `StreamAssumption`, `InferenceAssumption`, `SimCacheAssumption`, `QuotaAssumption`, `RegistryAssumption`,
`CatalogAssumption`, `ClaudeAssumption`, `SidecarAssumption`). They say that "none" values are outside their sets, that bounds and capacities
are numbers (positive where the code divides or fills by them) and that hashes (of the cache) and requests (of the sidecar) are finitely many.
All are evaluated by TLC in a passing run.

The type invariants `TypeOK`, `RunnerTypeOK`, `ToolTypeOK`, `SidecarTypeOK` and `ClaudeTypeOK`, and `AccessIsLastUse`, hold by these proofs and
are not checked by the runs, which spend their states on what is said of behaviour.

What stays with TLC. Liveness under fairness and everything that needs ENABLED is beyond the prover: the
closing of channels, the unwinding of handlers, the ends of chat streams, the return of the sidecar's slots. Every safety
invariant and every refinement that the passing runs check is a theorem. The findings are counterexamples and need no proof.

## 6. Plan, and what is not modelled

Left of the plan, in this order:

1. The writers of the other formats (`translator/openai.go`, `openai_responses.go`, `gemini.go`). They consume
   the same events as `AnthropicStreamWriter`, with less state and no blocks to pair, so each is
   a smaller `ClaudeStream`.
2. The non-streaming collectors of `execute.go`, of which a case is described in 4 (two pending server tools).
3. The plugin's client cache and its login polls: two calls may build two clients, two polls of one
   state may both complete; in both cases each call goes on with a value as good as the other's.

Not modelled, because there is nothing in it for a model of states and steps: request building, decoding and formatting
(pure conversions of large records, with unit tests), account files, tokens and checksums, HTTP
clients, the bytes of the sidecar's SOCKS handshakes, the command line tools, and everything under `gen/` and `usage/pb/`, which is generated
from the protocol files and makes up most of the repository's lines. `PROJECT.json` has a
note per component.

Assumptions of the models that a change of the code could break:

* Snapshots of a message are cumulative, so the overlap heuristic of `diffSuffix` never has to guess.
* A write to the child's stdin fails or succeeds at once. A child that stops reading would block it under `writeMu`.
* The clock of the cache and of the quota routing does not go back.
