---------------------------- MODULE ClaudeStream ----------------------------
(***************************************************************************)
(* The plugin's Anthropic stream: streamClaude (execute.go) turns Cursor's *)
(* events into the frames of one Messages API response by way of           *)
(* AnthropicStreamWriter (translator/anthropic.go).                        *)
(*                                                                         *)
(* A step handles one event, or one timer, to the end of its iteration of  *)
(* the loop; every emit in it may fail, which ends the handler.  The text  *)
(* of the turn is a sequence of pieces numbered 1, 2, ...; Cursor sends it *)
(* twice, as deltas and as snapshots of the assistant's message so far.    *)
(* The fragments of tool arguments are left out: they are written in the   *)
(* payload that starts their block.                                        *)
(***************************************************************************)
EXTENDS Naturals, Sequences, FiniteSets, SequencesExt

CONSTANTS
  ServerTools,   \* ids of the searches and fetches Cursor runs itself
  ClientTools,   \* ids of the calls the client is to execute
  MaxText,       \* how many pieces of text the turn has
  MaxCursorEvents,   \* how many events Cursor sends
  NoTool         \* "", the id of no tool

ASSUME ClaudeAssumption ==
  /\ MaxText \in Nat /\ MaxCursorEvents \in Nat
  /\ NoTool \notin ServerTools \union ClientTools
  /\ ServerTools \intersect ClientTools = {}

VARIABLES
  writer,      \* AnthropicStreamWriter
  at,          \* where streamClaude is: "loop" or "returned"
  error,       \* what errOut holds: "none", "emit" or "upstream"
  assistant,   \* textState: the pieces consumed and whether a snapshot was seen
  limiter,     \* the OutputLimiter: the text it holds back, whether it stopped
  pendingText, \* held back until the signature is sent
  flags,       \* the handler's booleans
  serverTool,  \* pendingServerToolID
  wire,        \* frames the host took and the client has not read
  client,      \* the message as the client has read it
  content,     \* its text, and the indices its blocks have started at
  cursor       \* what Cursor has sent

claudeVars == <<writer, at, error, assistant, limiter, pendingText, flags, serverTool,
                wire, client, content, cursor>>

Indices == 0 .. 2 * MaxCursorEvents
Tools == ServerTools \union ClientTools

WireFrame(type, index, kind, id, text) ==
  [type |-> type, index |-> index, kind |-> kind, id |-> id, text |-> text]
Mark(type) == WireFrame(type, 0, "none", NoTool, <<>>)
BlockStart(i, kind, id) == WireFrame("start", i, kind, id, <<>>)
BlockStop(i) == WireFrame("stop", i, "none", NoTool, <<>>)

ClaudeInit ==
  /\ writer = [started |-> FALSE, block |-> "none", index |-> 0,
               blocks |-> [t \in {} |-> 0]]
  /\ at = "loop" /\ error = "none"
  /\ assistant = [text |-> <<>>, snapshot |-> FALSE]
  /\ \E limited, signature \in BOOLEAN :
       /\ limiter = [active |-> limited, held |-> <<>>, stopped |-> FALSE]
       /\ flags = [signature |-> signature, signed |-> FALSE, output |-> FALSE,
                   started |-> FALSE, usage |-> FALSE, pinged |-> FALSE]
  /\ pendingText = <<>> /\ serverTool = NoTool /\ wire = <<>>
  /\ client = [phase |-> "none", open |-> {}, used |-> {}, owed |-> {}]
  /\ content = [starts |-> {}, text |-> <<>>]
  /\ cursor = [sent |-> 0, deltas |-> 0, snapshot |-> 0,
               asked |-> {}, answered |-> {}]

(***************************************************************************)
(* AnthropicStreamWriter.  An encoder returns the writer after the call    *)
(* and the frames it appended to its payload.                              *)
(***************************************************************************)
Encoded(w, frames) == [w |-> w, frames |-> frames]

StartFrame(w) == IF w.started THEN <<>> ELSE <<Mark("message_start")>>
Started(w) == [w EXCEPT !.started = TRUE]

CloseCurrentBlock(w) == IF w.block = "none" THEN <<>> ELSE <<BlockStop(w.index)>>
BlockClosed(w) ==
  IF w.block = "none" THEN w ELSE [w EXCEPT !.block = "none", !.index = @ + 1]

(* A tool block takes the index of the writer and is known by it from then *)
(* on, until it is forgotten.                                              *)
Begun(w, id) ==
  [w EXCEPT !.index = @ + 1,
            !.blocks = [t \in DOMAIN @ \union {id} |-> IF t = id THEN w.index ELSE @[t]]]
Without(w, ids) == [w EXCEPT !.blocks = [t \in DOMAIN @ \ ids |-> @[t]]]
Forgotten(w, id) == Without(w, {id})
Announced(w, id) == id \in DOMAIN w.blocks

(* Text and thinking share a shape: close a block of the other kind, open  *)
(* one of this kind unless it is open, write the delta.                    *)
EncodeContent(w, kind, text) ==
  LET switch == w.block \notin {"none", kind}
      w1 == IF switch THEN BlockClosed(w) ELSE w
  IN  Encoded([Started(w1) EXCEPT !.block = kind],
        StartFrame(w)
        \o (IF switch THEN CloseCurrentBlock(w) ELSE <<>>)
        \o (IF w1.block = kind THEN <<>> ELSE <<BlockStart(w1.index, kind, NoTool)>>)
        \o <<WireFrame("delta", w1.index, kind, NoTool, text)>>)

EncodeSignature(w) ==
  IF w.block \notin {"none", "thinking"} THEN Encoded(Started(w), <<>>)
  ELSE EncodeContent(w, "thinking", <<>>)

\* Mutant of EncodeToolStarted: a repeated announcement opens a second block.
EncodeToolStartedTwice(w, kind, id) ==
  LET w1 == Started(BlockClosed(w))
  IN  Encoded(Begun(w1, id),
        StartFrame(w) \o CloseCurrentBlock(w) \o <<BlockStart(w1.index, kind, id)>>)

(* The frames of an announcement that was seen before are dropped, those   *)
(* that close the open block among them.                                   *)
EncodeToolStarted(w, kind, id) ==
  LET w1 == Started(BlockClosed(w))
  IN  IF Announced(w, id) THEN Encoded(w1, <<>>)
      ELSE Encoded(Begun(w1, id),
             StartFrame(w) \o CloseCurrentBlock(w) \o <<BlockStart(w1.index, kind, id)>>)

EncodeToolCompleted(w, id) ==
  IF Announced(w, id) THEN Encoded(Forgotten(w, id), <<BlockStop(w.blocks[id])>>)
  ELSE Encoded(w, <<>>)

EncodeToolResult(w, id) ==
  Encoded([Started(Forgotten(w, id)) EXCEPT !.index = @ + 1],
    StartFrame(w)
    \o (IF Announced(w, id) THEN <<BlockStop(w.blocks[id])>> ELSE <<>>)
    \o <<BlockStart(w.index, "result", id), BlockStop(w.index)>>)

(* closeOrphanServerTools answers every announced server tool, as           *)
(* EncodeToolResult does: three frames each, in an order Go leaves open.   *)
CloseOrphans(w) ==
  LET orphans == SetToSeq(DOMAIN w.blocks \intersect ServerTools)
      n == Len(orphans)
      Part(j) == LET k == (j + 2) \div 3
                 IN  CASE j % 3 = 1 -> BlockStop(w.blocks[orphans[k]])
                       [] j % 3 = 2 -> BlockStart(w.index + k - 1, "result", orphans[k])
                       [] j % 3 = 0 -> BlockStop(w.index + k - 1)
  IN  Encoded([Without(w, ServerTools) EXCEPT !.index = @ + n],
        [j \in 1 .. 3 * n |-> Part(j)])

(* The blocks of the client's tools are closed, in any order. *)
CloseToolBlocks(w) ==
  LET tools == SetToSeq(DOMAIN w.blocks \intersect ClientTools)
  IN  Encoded(Without(w, ClientTools),
        [j \in 1 .. Len(tools) |-> BlockStop(w.blocks[tools[j]])])

(* The open block is closed without taking its index: an orphan's result    *)
(* reuses it.                                                              *)
EncodeTurnEnded(w) ==
  LET tools == CloseToolBlocks([w EXCEPT !.block = "none"])
      orphans == CloseOrphans(tools.w)
  IN  Encoded(orphans.w,
        CloseCurrentBlock(w) \o tools.frames \o orphans.frames \o <<Mark("message_stop")>>)

EncodeHeartbeat(w) == Encoded(Started(w), Append(StartFrame(w), Mark("ping")))

EncodeError(w) == Encoded(w, <<Mark("error")>>)

(* The payloads of several calls of the writer, in order.  An emit that     *)
(* fails cuts them off before a payload that is not empty.                 *)
Nothing == [w |-> writer, frames |-> <<>>, cuts |-> {}]
Then(r, e) ==
  [w |-> e.w, frames |-> r.frames \o e.frames,
   cuts |-> IF e.frames = <<>> THEN r.cuts ELSE r.cuts \union {r.frames}]
Single(e) == Then(Nothing, e)

(***************************************************************************)
(* streamClaude.  Emit hands the payloads of a step to the host in order,  *)
(* until one fails; done says whether the handler returns after the last.  *)
(***************************************************************************)
EmitAll(r, done) ==
  /\ wire' = r.frames
  /\ at' = IF done THEN "returned" ELSE "loop"
  /\ error' = error

EmitFails(r) ==
  /\ wire' \in r.cuts
  /\ at' = "returned" /\ error' = "emit"

Emit(r, done) == writer' = r.w /\ (EmitAll(r, done) \/ EmitFails(r))

Marked(output, started) ==
  flags' = [flags EXCEPT !.output = @ \/ output, !.started = @ \/ started]

\* Mutant of ConsumedDelta: deltas count after a snapshot, too.
ConsumedDeltaAlways(piece) == <<piece>>

(* consumeDelta and consumeSnapshot: after a snapshot, deltas are ignored. *)
ConsumedDelta(piece) ==
  IF assistant.snapshot THEN <<>> ELSE <<piece>>

ConsumedSnapshot(k) ==
  IF k <= Len(assistant.text) THEN <<>>
  ELSE [j \in 1 .. k - Len(assistant.text) |-> Len(assistant.text) + j]

(* OutputLimiter.Feed: text may be held back, as the start of a stop        *)
(* sequence, or cut off for good.                                          *)
Fed(buffered, k, stop) ==
  [out |-> SubSeq(buffered, 1, k),
   limiter |-> [active |-> TRUE, stopped |-> stop,
                held |-> IF stop THEN <<>> ELSE SubSeq(buffered, k + 1, Len(buffered))]]

Admitted(delta) ==
  LET buffered == limiter.held \o delta
  IN  IF ~limiter.active THEN {[out |-> delta, limiter |-> limiter]}
      ELSE IF limiter.stopped \/ delta = <<>> THEN {[out |-> <<>>, limiter |-> limiter]}
      ELSE {Fed(buffered, k, stop) : k \in 0 .. Len(buffered), stop \in BOOLEAN}

Withholding == flags.signature /\ ~flags.signed

(* Text out of the limiter, and with it the signature of a blob: the first  *)
(* signature releases the text held back for it.                           *)
Delivery(out, sign, held) ==
  LET r1 == IF out = <<>> \/ Withholding THEN Nothing
            ELSE Single(EncodeContent(writer, "text", out))
      r2 == IF sign THEN Then(r1, EncodeSignature(r1.w)) ELSE r1
  IN  IF sign /\ held # <<>> THEN Then(r2, EncodeContent(r2.w, "text", held)) ELSE r2

DeliverText(delta, signature) ==
  \E a \in Admitted(delta) :
    LET sign == signature /\ Withholding
        held == pendingText \o (IF Withholding THEN a.out ELSE <<>>)
    IN  /\ Emit(Delivery(a.out, sign, held), FALSE)
        /\ limiter' = a.limiter
        /\ pendingText' = IF sign THEN <<>> ELSE held
        /\ flags' = [flags EXCEPT !.output = @ \/ a.out # <<>>, !.signed = @ \/ sign,
                                  !.started = @ \/ (wire' # <<>>)]

(* One event of Cursor's, taken from the channel. *)
TakeClaudeEvent ==
  /\ at = "loop" /\ wire = <<>>
  /\ cursor.sent < MaxCursorEvents
  /\ UNCHANGED <<client, content>>

TextDelta ==
  /\ TakeClaudeEvent
  /\ cursor.deltas < MaxText
  /\ LET delta == ConsumedDelta(cursor.deltas + 1)
     IN  /\ assistant' = [assistant EXCEPT !.text = @ \o delta]
         /\ DeliverText(delta, FALSE)
  /\ cursor' = [cursor EXCEPT !.sent = @ + 1, !.deltas = @ + 1]
  /\ UNCHANGED serverTool

Snapshot(k, signature) ==
  /\ TakeClaudeEvent
  /\ k >= cursor.snapshot /\ (k > 0 \/ signature)
  /\ LET delta == ConsumedSnapshot(k)
     IN  /\ assistant' = [text |-> assistant.text \o delta,
                          snapshot |-> assistant.snapshot \/ k > 0]
         /\ DeliverText(delta, signature)
  /\ cursor' = [cursor EXCEPT !.sent = @ + 1, !.snapshot = k]
  /\ UNCHANGED serverTool

(* An event of which the handler keeps nothing but what it emits. *)
Forward(r, output) ==
  /\ TakeClaudeEvent
  /\ Emit(r, FALSE)
  /\ Marked(output, wire' # <<>>)
  /\ UNCHANGED <<assistant, limiter, pendingText>>

ThinkingDelta ==
  /\ Forward(Single(EncodeContent(writer, "thinking", <<>>)), TRUE)
  /\ cursor' = [cursor EXCEPT !.sent = @ + 1]
  /\ UNCHANGED serverTool

\* Mutant of Heartbeat: a ping does not count as a start of the response.
HeartbeatUncounted ==
  /\ TakeClaudeEvent
  /\ \/ /\ Emit(Single(EncodeHeartbeat(writer)), FALSE)
        /\ flags' = [flags EXCEPT !.pinged = at' = "loop" \/ @]
     \/ ~flags.started /\ UNCHANGED <<writer, at, error, flags, wire>>
  /\ cursor' = [cursor EXCEPT !.sent = @ + 1]
  /\ UNCHANGED <<assistant, limiter, pendingText, serverTool>>

(* A heartbeat is passed on as a ping.  It may start the message, once the   *)
(* preamble delay is over; until then it is swallowed.                     *)
Heartbeat ==
  /\ TakeClaudeEvent
  /\ \/ /\ Emit(Single(EncodeHeartbeat(writer)), FALSE)
        /\ flags' = [flags EXCEPT !.started = at' = "loop" \/ @, !.pinged = at' = "loop" \/ @]
     \/ ~flags.started /\ UNCHANGED <<writer, at, error, flags, wire>>
  /\ cursor' = [cursor EXCEPT !.sent = @ + 1]
  /\ UNCHANGED <<assistant, limiter, pendingText, serverTool>>

(* A permission query and the tool_call_started that follows it both come   *)
(* as an announcement of the same id.                                      *)
ToolStarted(t) ==
  /\ Forward(Single(EncodeToolStarted(writer, IF t \in ServerTools THEN "server" ELSE "tool", t)), TRUE)
  /\ cursor' = [cursor EXCEPT !.sent = @ + 1, !.asked = @ \union {t}]
  /\ serverTool' = IF t \in ServerTools THEN t ELSE serverTool

(* The progress of a call encodes to nothing, yet counts as output. *)
ToolDelta(t) ==
  /\ t \in cursor.asked
  /\ Forward(Nothing, TRUE)
  /\ cursor' = [cursor EXCEPT !.sent = @ + 1]
  /\ UNCHANGED serverTool

ToolCompleted(t) ==
  /\ Forward(Single(EncodeToolCompleted(writer, t)), TRUE)
  /\ cursor' = [cursor EXCEPT !.sent = @ + 1]
  /\ UNCHANGED serverTool

ToolResult(t) ==
  /\ t \in cursor.asked \ cursor.answered
  /\ Forward(Single(EncodeToolResult(writer, t)), TRUE)
  /\ cursor' = [cursor EXCEPT !.sent = @ + 1, !.answered = @ \union {t}]
  /\ serverTool' = IF serverTool = t THEN NoTool ELSE serverTool

TurnEnded(usage) ==
  /\ TakeClaudeEvent
  /\ flags' = [flags EXCEPT !.usage = usage]
  /\ serverTool' = NoTool
  /\ cursor' = [cursor EXCEPT !.sent = @ + 1]
  /\ UNCHANGED <<writer, at, error, assistant, limiter, pendingText, wire>>

(* How a failure ends the handler: an error frame if the response is       *)
(* committed, else an error the host may answer by trying another account. *)
FailTurn ==
  /\ IF flags.started THEN Emit(Single(EncodeError(writer)), TRUE)
     ELSE /\ at' = "returned" /\ error' = "upstream"
          /\ UNCHANGED <<writer, wire>>
  /\ UNCHANGED <<assistant, limiter, pendingText, flags, serverTool, client, content, cursor>>

(* An error trailer, or a deadline: that of the turn may pass at any time. *)
DeadlineOrTrailer == at = "loop" /\ wire = <<>> /\ FailTurn

(* The result of the last announced server tool did not come in time. *)
ServerToolTimeout ==
  /\ at = "loop" /\ wire = <<>> /\ serverTool # NoTool
  /\ LET r == Single(EncodeToolResult(writer, serverTool))
     IN  Emit(Then(r, EncodeTurnEnded(r.w)), TRUE)
  /\ serverTool' = NoTool
  /\ UNCHANGED <<assistant, limiter, pendingText, flags, client, content, cursor>>

(* What is held back, a ping if there was none, the end of the message. *)
Farewell(rest) ==
  LET r1 == IF rest = <<>> THEN Nothing ELSE Single(EncodeContent(writer, "text", rest))
      r2 == IF (flags.started \/ rest # <<>>) /\ ~flags.pinged
            THEN Then(r1, EncodeHeartbeat(r1.w)) ELSE r1
  IN  Then(r2, EncodeTurnEnded(r2.w))

(* Cursor closed the channel: nothing came, or the turn is at its end. *)
ChannelClosed ==
  /\ at = "loop" /\ wire = <<>>
  /\ \/ ~flags.output /\ ~flags.usage /\ FailTurn
     \/ /\ flags.output \/ flags.usage
        /\ \E k \in 0 .. Len(limiter.held) :
             LET rest == pendingText \o (IF limiter.stopped THEN <<>> ELSE SubSeq(limiter.held, 1, k))
             IN  /\ Emit(Farewell(rest), TRUE)
                 /\ limiter' = [limiter EXCEPT !.held = <<>>,
                                               !.stopped = @ \/ k < Len(limiter.held)]
        /\ pendingText' = <<>> /\ serverTool' = NoTool
        /\ UNCHANGED <<assistant, flags, client, content, cursor>>

(***************************************************************************)
(* The client reads the frames one by one.  A frame the protocol has no    *)
(* place for leaves it with a broken message, one that ends before it has  *)
(* started with an empty one.                                              *)
(***************************************************************************)
Misplaced(c, f) ==
  \/ c.phase \notin {"none", "open"}
  \/ f.type = "message_start" /\ c.phase # "none"
  \/ f.type \in {"start", "delta", "stop", "ping", "error"} /\ c.phase # "open"
  \/ f.type \in {"start", "delta"} /\ f.index \in c.used
  \/ f.type = "stop" /\ f.index \in c.used \ c.open

OpensTool(f) == f.type = "start" /\ f.kind \in {"tool", "server"}

After(c, f) ==
  [phase |-> CASE Misplaced(c, f) -> "broken"
               [] f.type = "message_start" -> "open"
               [] f.type = "message_stop" -> IF c.phase = "none" THEN "empty" ELSE "done"
               [] f.type = "error" -> "failed"
               [] OTHER -> c.phase,
   open |-> CASE OpensTool(f) -> c.open \union {f.index}
              [] f.type = "stop" -> c.open \ {f.index}
              [] OTHER -> c.open,
   used |-> IF OpensTool(f) THEN c.used \union {f.index} ELSE c.used,
   owed |-> CASE f.type = "start" /\ f.kind = "server" -> c.owed \union {f.id}
              [] f.type = "start" /\ f.kind = "result" -> c.owed \ {f.id}
              [] OTHER -> c.owed]

ClientReads ==
  /\ wire # <<>>
  /\ LET f == Head(wire)
     IN  /\ client' = After(client, f)
         /\ content' = [starts |-> content.starts \union (IF f.type = "start" THEN {f.index} ELSE {}),
                        text |-> content.text \o f.text]
  /\ wire' = Tail(wire)
  /\ UNCHANGED <<writer, at, error, assistant, limiter, pendingText, flags, serverTool, cursor>>

ClaudeNext ==
  \/ TextDelta \/ ThinkingDelta \/ Heartbeat
  \/ \E k \in 0 .. MaxText, signature \in BOOLEAN : Snapshot(k, signature)
  \/ \E t \in Tools : ToolStarted(t)
  \/ \E t \in ClientTools : ToolDelta(t) \/ ToolCompleted(t)
  \/ \E t \in ServerTools : ToolResult(t)
  \/ \E usage \in BOOLEAN : TurnEnded(usage)
  \/ DeadlineOrTrailer \/ ServerToolTimeout \/ ChannelClosed
  \/ ClientReads

ClaudeSpec == ClaudeInit /\ [][ClaudeNext]_claudeVars

(***************************************************************************)
(* Properties.                                                             *)
(***************************************************************************)
(* The records keep their types, and the writer knows every tool block by   *)
(* an index it has passed, so no block that starts later can take it.      *)
ClaudeTypeOK ==
  /\ writer.block \in {"none", "text", "thinking"}
  /\ writer.index \in Nat /\ (at = "loop" => writer.index \in Indices)
  /\ DOMAIN writer.blocks \subseteq Tools
  /\ at \in {"loop", "returned"} /\ error \in {"none", "emit", "upstream"}
  /\ serverTool \in ServerTools \union {NoTool}
  /\ client.phase \in {"none", "open", "done", "failed", "empty", "broken"}
  /\ \A t \in DOMAIN writer.blocks : writer.blocks[t] < writer.index

(* A message that starts is one as AnthropicMessage allows it, as far as    *)
(* its tools go: it starts once, each tool block is started and stopped    *)
(* once, and no message_stop leaves one open or a server tool without      *)
(* result.  Where no message starts, nothing else is written but, perhaps, *)
(* the message_stop that StartsBeforeStop is about.                        *)
StartedPhase(c) == IF c.phase = "empty" THEN "none" ELSE c.phase
Message == INSTANCE AnthropicMessage WITH
             phase <- StartedPhase(client),
             open <- client.open, used <- client.used, owed <- client.owed
MessageSpec == Message!MessageSpec

(* The text reaches the client once and in order, whatever mixture of       *)
(* deltas and snapshots it came in: what the client has read, what is on    *)
(* its way (in one frame at most) and what is held back are together the   *)
(* pieces 1, 2, ...                                                        *)
TextFrames == {j \in 1 .. Len(wire) : wire[j].text # <<>>}
OnTheWire == IF TextFrames = {} THEN <<>> ELSE wire[CHOOSE j \in TextFrames : TRUE].text
TextInOrder ==
  LET sent == content.text \o OnTheWire
  IN  /\ \A j \in 1 .. Len(assistant.text) : assistant.text[j] = j
      /\ \A j, k \in TextFrames : j = k
      /\ IsPrefix(sent, assistant.text)
      /\ ~limiter.stopped /\ error # "emit" =>
           sent \o pendingText \o limiter.held = assistant.text

(* An error the host may answer by a second attempt is only returned while *)
(* nothing of this one has reached the client; two attempts would splice   *)
(* two messages into one response.                                         *)
FailoverIsSafe == error = "upstream" => wire = <<>> /\ client.phase = "none"

(* A message that ends has started: message_start is the first event of the *)
(* stream anthropic.go documents, message_stop its last.  A turn of nothing *)
(* but a usage, or the progress of a call, ends without.                   *)
StartsBeforeStop == client.phase # "empty"

(* No content block starts at an index that has started before.  The comment *)
(* in EventToolCallStarted calls that a protocol error; a result that comes *)
(* while a text or thinking block is open commits it.                      *)
IndexStartsOnce ==
  wire # <<>> /\ Head(wire).type = "start" => Head(wire).index \notin content.starts
=============================================================================
