--------------------------- MODULE InferenceStream ---------------------------
(***************************************************************************)
(* The reader of a legacy inference turn (executor/inference_stream.go):   *)
(* readInferenceStream turns the frames of the response into chat events   *)
(* and sends them down a bounded channel.  When the request's context is   *)
(* cancelled a second goroutine closes the body, which ends the read the   *)
(* reader is in, or the next; frames it has buffered may still come first. *)
(*                                                                         *)
(* The channel is the part of the log of events the consumer has not       *)
(* taken.  Texts, reasoning and tool arguments are left out; a partial     *)
(* event carries arguments that do not go with the start of their call.    *)
(***************************************************************************)
EXTENDS Naturals, Sequences

CONSTANTS
  ToolIds,       \* ids of tool calls
  NoToolCall,    \* an event that is about none
  Capacity,      \* of the channel: 32 in the code
  MaxFrames      \* bound: frames Cursor sends

ASSUME InferenceAssumption ==
  NoToolCall \notin ToolIds /\ Capacity \in Nat \ {0} /\ MaxFrames \in Nat

VARIABLES
  cancelled,  \* whether the context is done
  readLoop,   \* what the reader does, the events it has yet to send, and whether they
              \* are its last; of a closing message, the calls it has yet to convert
  stream,     \* inferenceStreamState: calls started and completed, an end or error seen
  frames,     \* how many frames were read
  log,        \* every event sent
  taken       \* how many of them the consumer has received

inferenceVars == <<cancelled, readLoop, stream, frames, log, taken>>

Chat(kind, call) == [kind |-> kind, call |-> call]
Content == Chat("content", NoToolCall)
Ended == Chat("ended", NoToolCall)
Failure == Chat("failure", NoToolCall)
Raw == Chat("raw", NoToolCall)

(* The reader itself ends a turn that Cursor did not end. *)
SyntheticEnd == Chat("synthetic", NoToolCall)

InferenceInit ==
  /\ cancelled = FALSE
  /\ readLoop = [pc |-> "read", queue |-> <<>>, last |-> FALSE, calls |-> {}]
  /\ stream = [started |-> {}, complete |-> {}, ended |-> FALSE, failed |-> FALSE]
  /\ frames = 0 /\ log = <<>> /\ taken = 0

(***************************************************************************)
(* Every event of a frame is put in the queue; the flags of the stream are *)
(* read by nobody until it is sent.                                        *)
(***************************************************************************)
Emitting(queue, last) ==
  readLoop' = [readLoop EXCEPT !.pc = "send", !.queue = queue, !.last = last]

ReadFrame(queue) ==
  /\ readLoop.pc = "read" /\ frames < MaxFrames
  /\ frames' = frames + 1
  /\ Emitting(queue, FALSE)
  /\ UNCHANGED <<cancelled, log, taken>>

(* A text, a thought, or a frame that has no equivalent.  An empty part is  *)
(* dropped.                                                                *)
ContentFrame == \E queue \in {<<Content>>, <<Raw>>, <<>>} : ReadFrame(queue) /\ UNCHANGED stream

UsageFrame == ReadFrame(<<Ended>>) /\ stream' = [stream EXCEPT !.ended = TRUE]

\* Mutant of ToolCallPart: every part starts its call.
ToolCallPartTwice(call, partial, complete) ==
  <<Chat("started", call)>>
  \o (IF partial THEN <<Chat("partial", call)>> ELSE <<>>)
  \o (IF complete /\ call \notin stream.complete THEN <<Chat("completed", call)>> ELSE <<>>)

(* inferenceToolCallPartEvents. *)
ToolCallPart(call, partial, complete) ==
  (IF call \in stream.started THEN <<>> ELSE <<Chat("started", call)>>)
  \o (IF partial THEN <<Chat("partial", call)>> ELSE <<>>)
  \o (IF complete /\ call \notin stream.complete THEN <<Chat("completed", call)>> ELSE <<>>)

ToolCallFrame(call) ==
  \E partial, complete \in BOOLEAN :
    /\ ReadFrame(ToolCallPart(call, partial, complete))
    /\ stream' = [stream EXCEPT !.started = @ \union {call},
                                !.complete = IF complete THEN @ \union {call} ELSE @]

(* inferenceResponseInfoEvents: whole messages, of which one may have been  *)
(* streamed before, and perhaps an error, which does not end the reading.  *)
(* A step is an iteration of the loop over the tool calls.                 *)
InfoFrame ==
  /\ readLoop.pc = "read" /\ frames < MaxFrames
  /\ frames' = frames + 1
  /\ \E calls \in SUBSET ToolIds, queue \in {<<>>, <<Content>>} :
       readLoop' = [readLoop EXCEPT !.pc = "convert", !.queue = queue, !.calls = calls]
  /\ UNCHANGED <<cancelled, stream, log, taken>>

ConvertCall(call) ==
  /\ readLoop.pc = "convert" /\ call \in readLoop.calls
  /\ \E partial \in BOOLEAN :
       readLoop' = [readLoop EXCEPT !.queue = @ \o ToolCallPart(call, partial, TRUE),
                                !.calls = @ \ {call}]
  /\ stream' = [stream EXCEPT !.started = @ \union {call}, !.complete = @ \union {call}]
  /\ UNCHANGED <<cancelled, frames, log, taken>>

InfoConverted ==
  /\ readLoop.pc = "convert" /\ readLoop.calls = {}
  /\ \/ Emitting(readLoop.queue, FALSE) /\ UNCHANGED stream
     \/ /\ Emitting(Append(readLoop.queue, Failure), FALSE)
        /\ stream' = [stream EXCEPT !.failed = TRUE]
  /\ UNCHANGED <<cancelled, frames, log, taken>>

ErrorFrame == ReadFrame(<<Failure>>) /\ stream' = [stream EXCEPT !.failed = TRUE]

\* Mutant of SyntheticTurnEnd: the flags are not consulted.
SyntheticTurnEndAlways == <<SyntheticEnd>>

SyntheticTurnEnd == IF stream.ended \/ stream.failed THEN <<>> ELSE <<SyntheticEnd>>

(* The reader's last event: a trailer, good or bad, or a frame it cannot    *)
(* decode.                                                                 *)
TrailerFrame ==
  /\ readLoop.pc = "read"
  /\ \/ Emitting(SyntheticTurnEnd \o <<Chat("ok", NoToolCall)>>, TRUE)
     \/ Emitting(<<Failure>>, TRUE)
  /\ UNCHANGED <<cancelled, stream, frames, log, taken>>

(* The read fails: nothing is said of it when the context is done.  At the  *)
(* end of the body the turn ends, unless a frame is cut short.             *)
ReadFails ==
  /\ readLoop.pc = "read"
  /\ \/ cancelled /\ Emitting(<<>>, TRUE)
     \/ ~cancelled /\ \E queue \in {SyntheticTurnEnd, <<Failure>>} : Emitting(queue, TRUE)
  /\ UNCHANGED <<cancelled, stream, frames, log, taken>>

(* The sends wait for room, whatever becomes of the context. *)
SendEvent ==
  /\ readLoop.pc = "send" /\ readLoop.queue # <<>>
  /\ Len(log) - taken < Capacity
  /\ log' = Append(log, Head(readLoop.queue))
  /\ readLoop' = [readLoop EXCEPT !.queue = Tail(@)]
  /\ UNCHANGED <<cancelled, stream, frames, taken>>

(* The channel is closed and the watcher stopped when the reader returns. *)
SentAll ==
  /\ readLoop.pc = "send" /\ readLoop.queue = <<>>
  /\ readLoop' = [readLoop EXCEPT !.pc = IF readLoop.last THEN "returned" ELSE "read"]
  /\ UNCHANGED <<cancelled, stream, frames, log, taken>>

(* The consumer, and the context it may cancel at any time. *)
ReceiveEvent ==
  /\ taken < Len(log)
  /\ taken' = taken + 1
  /\ UNCHANGED <<cancelled, readLoop, stream, frames, log>>

CancelTurn ==
  /\ ~cancelled
  /\ cancelled' = TRUE
  /\ UNCHANGED <<readLoop, stream, frames, log, taken>>

InferenceNext ==
  \/ ContentFrame \/ UsageFrame \/ InfoFrame \/ ErrorFrame \/ TrailerFrame \/ ReadFails
  \/ \E call \in ToolIds : ToolCallFrame(call) \/ ConvertCall(call)
  \/ InfoConverted
  \/ SendEvent \/ SentAll \/ ReceiveEvent
  \/ CancelTurn

InferenceSpec == InferenceInit /\ [][InferenceNext]_inferenceVars

(***************************************************************************)
(* Properties.                                                             *)
(***************************************************************************)
Sent(events) == \E j \in DOMAIN log : log[j] \in events

(* A stream that closes without having been cancelled tells its consumer    *)
(* how the turn ended.  An end the reader makes up is the only end, follows *)
(* no failure, and is followed by nothing but a good trailer.              *)
InferenceEnds ==
  /\ readLoop.pc = "returned" /\ ~cancelled => Sent({Ended, SyntheticEnd, Failure})
  /\ \A j \in DOMAIN log : log[j] = SyntheticEnd =>
       /\ \A i \in 1 .. j - 1 : log[i].kind \notin {"ended", "synthetic", "failure"}
       /\ \A i \in j + 1 .. Len(log) : log[i].kind = "ok"

(* However the parts of a call are spread over frames, and whether or not   *)
(* the closing message repeats them, the call starts once and completes at  *)
(* most once, its start before anything else that is about it.             *)
CallsStartOnce ==
  \A j \in DOMAIN log : log[j].call # NoToolCall =>
    /\ log[j].kind \in {"started", "completed"} =>
         \A i \in 1 .. j - 1 : log[i] # log[j]
    /\ log[j].kind # "started" => \E i \in 1 .. j - 1 : log[i] = Chat("started", log[j].call)
=============================================================================
