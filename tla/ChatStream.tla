----------------------------- MODULE ChatStream -----------------------------
(***************************************************************************)
(* executor/chat.go, readSSEStream: the goroutine that decodes Cursor's    *)
(* reply to a chat request into events, and the handler that consumes them *)
(* from a bounded channel.                                                 *)
(*                                                                         *)
(* Cursor keeps a finished turn's stream open with heartbeats, so the      *)
(* reader ends it itself: a one-shot deadline armed by the signals that    *)
(* end a turn, a timer armed by a server-side tool, and a watchdog that    *)
(* looks for silence.  Each of them acts by closing the response body,     *)
(* which makes a blocked Read fail.  Durations are abstracted: a step may  *)
(* take any time, so an armed timer fires at any later one, and the idle   *)
(* timeout may have passed whenever the watchdog looks.                    *)
(***************************************************************************)
EXTENDS GoChannels

CONSTANTS
    BufCap,      \* capacity of the event channel: 32 in the code
    Window,      \* frames the connection holds before the server must wait
    MaxFrames,   \* BOUND: frames other than heartbeats
    OptionSets,  \* the requests' options, see Options
    Consumers    \* the kinds of consumer, see ConsumerKinds

Options == {"turnEnd",      \* AutoStopOnTurnEnd
            "toolCall",     \* AutoStopOnToolCall: the request declares tools
            "serverTools"}  \* WebSearch or WebFetch: keepServerToolsOpen

ConsumerKinds ==
    {"proxy",    \* for ev := range events; nonStreamAnthropic breaks out after turn_ended
     "plugin"}   \* returns when an emission fails, and on its own deadlines

ASSUME StreamAssumption ==
    /\ BufCap \in Nat /\ Window \in Nat /\ MaxFrames \in Nat
    /\ OptionSets \subseteq SUBSET Options
    /\ Consumers \subseteq ConsumerKinds

VARIABLES
    options, consumerKind,  \* fixed for a request
    server,      \* "live", or "ended": no frame will follow (EOF or an error)
    nSent,       \* frames other than heartbeats sent so far
    wire,        \* frames that have arrived and have not been read
    body,        \* the response body on this side: "open" or "closed"
    cancelled,   \* the request's context is cancelled
    reader,      \* readSSEStream: where it is
    buf,         \* whole frames read and not yet taken
    readErr,     \* the last Read returned an error
    hand,        \* the frame being handled
    turnEnded, sawAssistant,
    deadline,    \* "off", "grace" (1 s), "window" (10 s), "fired"
    resultTimer, \* the server tool timer: "off", "armed", "over"
    watchdog,    \* "on", "closing" (it has found the silence), or "over"
    out,         \* the event channel
    consumer,    \* "reading" or "done"
    received     \* the frames it took, heartbeats left out

requestVars == <<options, consumerKind>>
serverVars == <<server, nSent, wire>>
bufVars == <<buf, readErr>>
turnVars == <<turnEnded, sawAssistant>>
timerVars == <<deadline, resultTimer, watchdog>>
consumerVars == <<consumer, received, cancelled>>
chatVars == <<requestVars, serverVars, body, reader, bufVars, hand, turnVars, timerVars,
              out, consumerVars>>

Trailers == {"ok", "error"}
FrameTypes ==
    {"heartbeat", "text", "assistant",  \* the assistant-role blob
     "turnEnded", "tool",               \* McpArgs, or ToolCallStarted of a client tool
     "search",                          \* ToolCallStarted of a web tool
     "query"}                           \* the permission request for one
    \cup Trailers
Frame(type, n) == [type |-> type, n |-> n]
Frames == [type : FrameTypes, n : 0..MaxFrames]
NoFrame == Frame("heartbeat", 0)

ChatTypeOK ==
    /\ options \in OptionSets /\ consumerKind \in Consumers
    /\ server \in {"live", "ended"}
    /\ nSent \in 0..MaxFrames
    /\ wire \in Seq(Frames) /\ Len(wire) <= Window
    /\ body \in {"open", "closed"} /\ cancelled \in BOOLEAN
    /\ reader \in {"check", "read", "frames", "approve", "send", "sendLast", "done"}
    /\ buf \in Seq(Frames) /\ Len(buf) <= Window
    /\ readErr \in BOOLEAN
    /\ hand \in Frames
    /\ turnEnded \in BOOLEAN /\ sawAssistant \in BOOLEAN
    /\ deadline \in {"off", "grace", "window", "fired"}
    /\ resultTimer \in {"off", "armed", "over"}
    /\ watchdog \in {"on", "closing", "over"}
    /\ out \in Chan(Frames, BufCap)
    /\ out.closed <=> reader = "done"
    /\ consumer \in {"reading", "done"}
    /\ received \in Seq(Frames)

ChatInit ==
    /\ options \in OptionSets /\ consumerKind \in Consumers
    /\ server = "live" /\ nSent = 0 /\ wire = <<>>
    /\ body = "open" /\ cancelled = FALSE
    /\ reader = "check"
    /\ buf = <<>> /\ readErr = FALSE
    /\ hand = NoFrame
    /\ turnEnded = FALSE /\ sawAssistant = FALSE
    /\ deadline = "off" /\ resultTimer = "off" /\ watchdog = "on"
    /\ out = MakeChan
    /\ consumer = "reading" /\ received = <<>>

-----------------------------------------------------------------------------
(* Cursor's side of the connection.                                         *)

Connected == server = "live" /\ body = "open" /\ ~cancelled /\ Len(wire) < Window

Arrive(f) ==
    /\ wire' = Append(wire, f)
    /\ server' = IF f.type \in Trailers THEN "ended" ELSE server
    /\ UNCHANGED <<requestVars, body, reader, bufVars, hand, turnVars, timerVars, out,
                   consumerVars>>

\* BOUND: at most one heartbeat waits to be read.
ServerHeartbeat == Connected /\ wire = <<>> /\ Arrive(NoFrame) /\ UNCHANGED nSent

ServerFrame(type) ==
    /\ Connected
    /\ nSent < MaxFrames
    /\ nSent' = nSent + 1
    /\ Arrive(Frame(type, nSent + 1))

\* The connection ends, cleanly or not, without a trailer.
ServerEnds ==
    /\ server = "live"
    /\ server' = "ended"
    /\ UNCHANGED <<requestVars, nSent, wire, body, reader, bufVars, hand, turnVars,
                   timerVars, out, consumerVars>>

-----------------------------------------------------------------------------
(* readSSEStream                                                            *)

\* Mutant of Return: the early returns leave the channel open.
ReturnUnclosed ==
    /\ reader' = "done"
    /\ body' = "closed"
    /\ UNCHANGED out

\* The deferred calls: the watchdogs are told, the body and the channel closed.
Return ==
    /\ reader' = "done"
    /\ body' = "closed"
    /\ out' = CloseChan(out)

\* select { case <-deadline: return; default: }
CheckDeadline ==
    /\ reader = "check"
    /\ IF deadline = "fired" THEN Return ELSE reader' = "read" /\ UNCHANGED <<body, out>>
    /\ UNCHANGED <<requestVars, serverVars, bufVars, hand, turnVars, timerVars, consumerVars>>

\* body.Read returns some of what has arrived, perhaps with the error that ends
\* it, or the error alone.
ReadBody ==
    /\ reader = "read"
    /\ \/ /\ body = "open"
          /\ \E n \in 1..Len(wire) :
                /\ buf' = buf \o SubSeq(wire, 1, n)
                /\ wire' = SubSeq(wire, n + 1, Len(wire))
                /\ readErr' \in {FALSE, (cancelled \/ server = "ended") /\ n = Len(wire)}
       \/ /\ body = "closed" \/ cancelled \/ (server = "ended" /\ wire = <<>>)
          /\ readErr' = TRUE
          /\ UNCHANGED <<buf, wire>>
    /\ reader' = "frames"
    /\ UNCHANGED <<requestVars, server, nSent, body, hand, turnVars, timerVars,
                   out, consumerVars>>

\* setDeadline: once.
SetDeadline(d) == deadline' = IF deadline = "off" THEN d ELSE deadline

\* armServerToolResultTimeout: once.
ArmResultTimer == resultTimer' = IF resultTimer = "off" THEN "armed" ELSE resultTimer

\* The terminal signals of a data frame: the first one seen arms the deadline.
ClientTool(f) ==
    f.type = "tool" \/ (f.type \in {"search", "query"} /\ "serverTools" \notin options)

Signals(f) ==
    /\ turnEnded' = (turnEnded \/ f.type = "turnEnded")
    /\ sawAssistant' = (sawAssistant \/ ("turnEnd" \in options /\ f.type = "assistant"))
    /\ IF "turnEnd" \in options /\ turnEnded'
         THEN SetDeadline(IF sawAssistant' THEN "grace" ELSE "window")
       ELSE IF "toolCall" \in options /\ ClientTool(f) THEN SetDeadline("grace")
       ELSE UNCHANGED deadline
    \* A query arms the timer only once it is approved.
    /\ IF "serverTools" \in options /\ f.type = "search"
         THEN ArmResultTimer ELSE UNCHANGED resultTimer

\* Mutant of TakeFrame: the buffer is compacted while the payload still aliases it,
\* and the next frame overwrites it.
TakeFrameAliased ==
    /\ reader = "frames"
    /\ buf # <<>>
    /\ buf' = Tail(buf)
    /\ hand' = IF Len(buf) > 1 THEN buf[2] ELSE Head(buf)
    /\ Signals(hand')
    /\ reader' = IF hand'.type \in Trailers THEN "sendLast" ELSE "send"
    /\ UNCHANGED <<requestVars, serverVars, body, readErr, watchdog, out, consumerVars>>

\* Mutant of TakeFrame: tool calls are not watched for.
TakeFrameIgnoresTools ==
    /\ reader = "frames"
    /\ buf # <<>>
    /\ buf' = Tail(buf)
    /\ hand' = Head(buf)
    /\ IF Head(buf).type \in {"tool", "search", "query"} \cup Trailers
         THEN UNCHANGED <<turnVars, deadline, resultTimer>>
         ELSE Signals(Head(buf))
    /\ reader' = IF Head(buf).type \in Trailers THEN "sendLast" ELSE "send"
    /\ UNCHANGED <<requestVars, serverVars, body, readErr, watchdog, out, consumerVars>>

\* The next whole frame of the buffer; the payload is detached before the buffer
\* is compacted.
TakeFrame ==
    /\ reader = "frames"
    /\ buf # <<>>
    /\ buf' = Tail(buf)
    /\ hand' = Head(buf)
    /\ LET f == Head(buf)
       IN  IF f.type \in Trailers
             THEN reader' = "sendLast" /\ UNCHANGED <<turnVars, deadline, resultTimer>>
             ELSE /\ reader' = IF f.type = "query" /\ "serverTools" \in options
                                 THEN "approve" ELSE "send"
                  /\ Signals(f)
    /\ UNCHANGED <<requestVars, serverVars, body, readErr, watchdog, out, consumerVars>>

\* Mutant of Approve: the timer is left to the frame that announces the search.
ApproveUntimed ==
    /\ reader = "approve"
    /\ reader' \in {"send", "sendLast"}
    /\ UNCHANGED <<requestVars, serverVars, body, bufVars, hand, turnVars, timerVars, out,
                   consumerVars>>

\* approveInteraction: a request of its own, which succeeds or makes this event
\* the last.
Approve ==
    /\ reader = "approve"
    /\ \/ reader' = "send" /\ ArmResultTimer
       \/ reader' = "sendLast" /\ UNCHANGED resultTimer
    /\ UNCHANGED <<requestVars, serverVars, body, bufVars, hand, turnVars, deadline, watchdog,
                   out, consumerVars>>

\* out <- ev: blocks while the channel is full, whatever happens to the body.
SendEvent ==
    /\ reader \in {"send", "sendLast"}
    /\ ~IsFull(out, BufCap)
    /\ IF reader = "sendLast"
         THEN /\ reader' = "done" /\ body' = "closed"
              /\ out' = CloseChan(TrySend(out, hand, BufCap))
         ELSE /\ reader' = "frames" /\ UNCHANGED body
              /\ out' = TrySend(out, hand, BufCap)
    /\ hand' = NoFrame
    /\ UNCHANGED <<requestVars, serverVars, bufVars, turnVars, timerVars, consumerVars>>

\* No whole frame is left.
NextRead ==
    /\ reader = "frames"
    /\ buf = <<>>
    /\ IF readErr THEN Return ELSE reader' = "check" /\ UNCHANGED <<body, out>>
    /\ UNCHANGED <<requestVars, serverVars, bufVars, hand, turnVars, timerVars, consumerVars>>

ReaderStep == CheckDeadline \/ ReadBody \/ TakeFrame \/ Approve \/ SendEvent \/ NextRead

-----------------------------------------------------------------------------
(* The timers: goroutines of their own.  stopIdleWatchdog, or the closed body,  *)
(* leaves them nothing to do once the reader has returned.                  *)

TimerStep ==
    /\ reader # "done"
    /\ UNCHANGED <<requestVars, serverVars, reader, bufVars, hand, turnVars, out,
                   consumerVars>>

\* time.Sleep(d); close(deadline); body.Close(): two steps, the second below.
DeadlineFires ==
    /\ deadline \in {"grace", "window"}
    /\ deadline' = "fired"
    /\ UNCHANGED <<body, resultTimer, watchdog>>
    /\ TimerStep

DeadlineCloses ==
    /\ deadline = "fired"
    /\ body = "open"
    /\ body' = "closed"
    /\ UNCHANGED <<deadline, resultTimer, watchdog>>
    /\ TimerStep

\* Both watchdogs retire when the deadline has passed, unless they act first.
Retire == deadline = "fired"

\* Mutant of WatchdogTick: the silence is noted and the body left open.
WatchdogTickOnlyNotes ==
    /\ watchdog = "on"
    /\ watchdog' = "over"
    /\ UNCHANGED <<body, deadline, resultTimer>>
    /\ TimerStep

\* The clock is compared with lastActivity, and then the body closed: the reader may
\* read and handle a frame in between.
WatchdogTick ==
    /\ watchdog = "on"
    /\ watchdog' = "closing" \/ (Retire /\ watchdog' = "over")
    /\ UNCHANGED <<body, deadline, resultTimer>>
    /\ TimerStep

WatchdogCloses ==
    /\ watchdog = "closing"
    /\ watchdog' = "over"
    /\ body' = "closed"
    /\ UNCHANGED <<deadline, resultTimer>>
    /\ TimerStep

ResultTimerFires ==
    /\ resultTimer = "armed"
    /\ body' = "closed" \/ (Retire /\ UNCHANGED body)
    /\ resultTimer' = "over"
    /\ UNCHANGED <<deadline, watchdog>>
    /\ TimerStep

-----------------------------------------------------------------------------
(* The consumer.  Returning from the handler cancels the request's context. *)

ConsumerStep == UNCHANGED <<requestVars, serverVars, body, reader, bufVars, hand, turnVars,
                            timerVars>>

Note(f) == received' = IF f.n = 0 THEN received ELSE Append(received, f)

\* (A web fetch counts as a tool call, a web search does not.)
HasOutput ==
    \E i \in 1..Len(received) : received[i].type \in {"text", "assistant", "tool", "search"}

\* The events a consumer may return with: the end of a turn that had output, in
\* nonStreamAnthropic; any event the plugin fails to emit; and an error trailer, with
\* which the plugin always returns.
MayLeaveAt(f) ==
    \/ consumerKind = "proxy" /\ f.type = "turnEnded" /\ HasOutput
    \/ consumerKind = "plugin" /\ f.type \notin {"ok", "query"}
MustLeaveAt(f) == consumerKind = "plugin" /\ f.type = "error"

TakeEvent ==
    /\ consumer = "reading"
    /\ HasMessage(out)
    /\ LET f == Head(out.buf)
       IN  /\ Note(f)
           /\ out' = Receive(out)
           /\ \/ ~MustLeaveAt(f) /\ UNCHANGED <<consumer, cancelled>>
              \/ MayLeaveAt(f) /\ consumer' = "done" /\ cancelled' = TRUE
    /\ ConsumerStep

SeeEnd ==
    /\ consumer = "reading"
    /\ AtClose(out)
    /\ consumer' = "done" /\ cancelled' = TRUE
    /\ UNCHANGED <<out, received>>
    /\ ConsumerStep

\* streamClaude and buildClaudeNonStreaming: one of their own timers.
OwnDeadline ==
    /\ consumer = "reading"
    /\ consumerKind = "plugin"
    /\ consumer' = "done" /\ cancelled' = TRUE
    /\ UNCHANGED <<out, received>>
    /\ ConsumerStep

\* The HTTP client of the proxy leaves: the context is cancelled, the handler
\* reads on.
ClientLeaves ==
    /\ consumer = "reading"
    /\ consumerKind = "proxy"
    /\ ~cancelled
    /\ cancelled' = TRUE
    /\ UNCHANGED <<out, consumer, received>>
    /\ ConsumerStep

-----------------------------------------------------------------------------
ChatNext ==
    \/ ServerHeartbeat \/ ServerEnds
    \/ \E type \in FrameTypes \ {"heartbeat"} : ServerFrame(type)
    \/ CheckDeadline \/ ReadBody \/ TakeFrame \/ Approve \/ SendEvent \/ NextRead
    \/ DeadlineFires \/ DeadlineCloses \/ WatchdogTick \/ WatchdogCloses
    \/ ResultTimerFires
    \/ TakeEvent \/ SeeEnd \/ OwnDeadline \/ ClientLeaves

\* The goroutines run, a request for approval returns (it has a timeout of 30 s),
\* and timers fire; the idle timeout is only sure to pass while nothing arrives.
\* Nothing is assumed of the server, or of the consumer's own reasons to leave.
ChatFairness ==
    /\ WF_chatVars(ReaderStep)
    /\ WF_chatVars(DeadlineFires) /\ WF_chatVars(DeadlineCloses)
    /\ WF_chatVars(ResultTimerFires)
    /\ WF_chatVars((wire = <<>> \/ Retire) /\ WatchdogTick) /\ WF_chatVars(WatchdogCloses)
    /\ WF_chatVars(TakeEvent \/ SeeEnd)

ChatSpec == ChatInit /\ [][ChatNext]_chatVars
ChatFairSpec == ChatSpec /\ ChatFairness

-----------------------------------------------------------------------------
(* Properties                                                               *)

\* The consumer gets the server's frames without a gap, a repetition or a change of
\* order, however they are cut into reads ("the first frame's payload gets clobbered
\* before we can decode it", chat.go:483-484, was a bug of this kind).
InHand == IF reader \in {"approve", "send", "sendLast"} THEN <<hand>> ELSE <<>>
FramesIntact ==
    LET frames == received \o out.buf \o InHand \o buf
    IN  \A i \in 1..Len(frames) :
            /\ \A n \in 1..frames[i].n : \E j \in 1..i : frames[j].n = n
            /\ \A j \in 1..(i - 1) : frames[i].n # 0 => frames[j].n < frames[i].n

\* Once the consumer has seen what ends its turn (turn_ended, or a tool call that
\* waits for the client), its stream ends, even if Cursor sends heartbeats for ever
\* (chat.go:521-560).
EndsTurn(f) ==
    \/ "turnEnd" \in options /\ f.type = "turnEnded"
    \/ "toolCall" \in options /\ ClientTool(f)
Saw(Test(_)) == \E i \in 1..Len(received) : Test(received[i])
TerminalSignalEnds == Saw(EndsTurn) ~> consumer = "done"

\* A server-side search that never returns does not hold the stream, although
\* heartbeats keep the idle watchdog quiet (chat.go:358-363, 508-511).
ServerTool(f) == "serverTools" \in options /\ f.type \in {"search", "query"}
ServerToolEnds == Saw(ServerTool) ~> consumer = "done"

\* A connection that falls silent without ending does not hold it either
\* (chat.go:347-355).
SilentStreamEnds == <>[](wire = <<>>) => <>(consumer = "done")

\* The reader of a request ends once its consumer has: "the event channel keeps being
\* drained afterwards so RunChat's reader goroutine can finish instead of blocking on
\* an unread send" (plugin/cursor/kernel/execute.go:1275-1276; drainEvents,
\* cmd/cursor-proxy/upstream_error.go:199-204, is there for it and never called).
LeftReaderEnds == consumer = "done" ~> reader = "done"
=============================================================================
