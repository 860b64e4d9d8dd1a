------------------------- MODULE ClaudeStreamProofs -------------------------
(***************************************************************************)
(* Proofs about ClaudeStream, for any tools, any length of the turn and any *)
(* number of events: an error that invites a second attempt is only        *)
(* returned while the client has seen nothing of this one; the text reaches *)
(* it once and in order; and what it sees of tools is a message as          *)
(* AnthropicMessage allows it.                                             *)
(*                                                                         *)
(* Each frame on the wire fits the message that those before it leave: the *)
(* frames form a Path from the message the client has read to one that     *)
(* Agrees with the writer.  Every encoder extends the path, and keeps the  *)
(* writer agreeing with its end; every emit that fails cuts it short.  The *)
(* text follows the same way: what was read, is on the wire, is held back  *)
(* for the signature and by the limiter are consecutive Runs of pieces.    *)
(***************************************************************************)
EXTENDS ClaudeStream, FiniteSetTheorems, TLAPS

(* The handler's booleans. *)
FlagRecords ==
  [signature : BOOLEAN, signed : BOOLEAN, output : BOOLEAN,
   started : BOOLEAN, usage : BOOLEAN, pinged : BOOLEAN]

(* Nothing is on its way to the client, and it has read nothing. *)
Untouched == wire = <<>> /\ client.phase = "none"

(* While the handler is in its loop no emit has failed, and a frame that    *)
(* left it is on record in flags.started.                                  *)
StartIsRecorded ==
  /\ flags \in FlagRecords
  /\ at = "loop" => error = "none" /\ (flags.started \/ Untouched)
  /\ error = "upstream" => Untouched

(* What Emit does to the handler, whatever the payloads are. *)
LEMMA EmitLemma ==
  ASSUME NEW r, NEW done \in BOOLEAN, Emit(r, done), at = "loop", StartIsRecorded
  PROVE  /\ error' # "upstream"
         /\ at' = "loop" => error' = "none" /\ ~done
BY DEF Emit, EmitAll, EmitFails, StartIsRecorded

(* An event whose handling records whether it emitted. *)
LEMMA RecordedLemma ==
  ASSUME StartIsRecorded, NEW r, Emit(r, FALSE), at = "loop", UNCHANGED client,
         flags' \in FlagRecords, flags'.started = (flags.started \/ (wire' # <<>>))
  PROVE  StartIsRecorded'
<1>1. error' # "upstream" /\ (at' = "loop" => error' = "none")
  BY EmitLemma
<1>2. flags'.started \/ Untouched'
  BY DEF StartIsRecorded, Untouched
<1>. QED
  BY <1>1, <1>2 DEF StartIsRecorded

(* A step that returns, after it has emitted what it could. *)
LEMMA LastEmitLemma ==
  ASSUME StartIsRecorded, NEW r, Emit(r, TRUE), at = "loop", UNCHANGED flags
  PROVE  StartIsRecorded'
<1>1. error' # "upstream" /\ at' # "loop"
  BY EmitLemma
<1>. QED
  BY <1>1 DEF StartIsRecorded

(* Delivering text keeps the record of what left. *)
LEMMA DeliverKeepsStart ==
  ASSUME StartIsRecorded, NEW delta, NEW signature \in BOOLEAN,
         DeliverText(delta, signature), at = "loop", UNCHANGED client
  PROVE  StartIsRecorded'
<1>1. PICK a \in Admitted(delta) :
        LET sign == signature /\ Withholding
        IN  /\ \E r : Emit(r, FALSE)
            /\ flags' = [flags EXCEPT !.output = @ \/ a.out # <<>>, !.signed = @ \/ sign,
                                      !.started = @ \/ (wire' # <<>>)]
  BY Zenon DEF DeliverText
<1>. DEFINE sent == (a.out # <<>>)
            sign == (signature /\ Withholding)
<1>2. flags' = [flags EXCEPT !.output = @ \/ sent, !.signed = @ \/ sign,
                            !.started = @ \/ (wire' # <<>>)]
  BY <1>1
<1>3. sent \in BOOLEAN /\ sign \in BOOLEAN
  OBVIOUS
<1>. HIDE DEF sent, sign
<1>4. flags' \in FlagRecords /\ flags'.started = (flags.started \/ (wire' # <<>>))
  BY <1>2, <1>3 DEF StartIsRecorded, FlagRecords
<1>. QED
  BY <1>1, <1>4, RecordedLemma

(* An event that is passed on records that it was. *)
LEMMA ForwardKeepsStart ==
  ASSUME StartIsRecorded, NEW r, NEW output \in BOOLEAN, Forward(r, output)
  PROVE  StartIsRecorded'
<1>1. flags' \in FlagRecords /\ flags'.started = (flags.started \/ (wire' # <<>>))
  BY DEF Forward, Marked, StartIsRecorded, FlagRecords
<1>. QED
  BY <1>1, RecordedLemma DEF Forward, TakeClaudeEvent

(* The end of a failed turn keeps it too. *)
LEMMA FailKeepsStart ==
  ASSUME StartIsRecorded, FailTurn, at = "loop", wire = <<>>
  PROVE  StartIsRecorded'
<1>1. CASE flags.started
  BY <1>1, LastEmitLemma DEF FailTurn
<1>2. CASE ~flags.started
  BY <1>2 DEF FailTurn, StartIsRecorded, Untouched
<1>. QED
  BY <1>1, <1>2

(* A ping counts as a start of the response, unless it failed. *)
LEMMA HeartbeatKeepsStart ==
  ASSUME StartIsRecorded, Heartbeat
  PROVE  StartIsRecorded'
<1>1. at = "loop" /\ UNCHANGED client
  BY DEF Heartbeat, TakeClaudeEvent
<1>2. CASE /\ Emit(Single(EncodeHeartbeat(writer)), FALSE)
           /\ flags' = [flags EXCEPT !.started = at' = "loop" \/ @, !.pinged = at' = "loop" \/ @]
  <2>1. error' # "upstream" /\ (at' = "loop" => error' = "none")
    BY <1>1, <1>2, EmitLemma
  <2>2. flags' \in FlagRecords /\ (at' = "loop" => flags'.started)
    BY <1>2 DEF StartIsRecorded, FlagRecords
  <2>. QED
    BY <2>1, <2>2 DEF StartIsRecorded
<1>3. CASE UNCHANGED <<writer, at, error, flags, wire>>
  BY <1>1, <1>3 DEF StartIsRecorded, Untouched
<1>. QED
  BY <1>2, <1>3 DEF Heartbeat

-----------------------------------------------------------------------------
(* The handler begins with nothing emitted. *)
LEMMA StartInit ==
  ASSUME ClaudeInit
  PROVE  StartIsRecorded
BY DEF ClaudeInit, StartIsRecorded, FlagRecords, Untouched

(* No step loses the record. *)
LEMMA StartNext ==
  ASSUME StartIsRecorded, [ClaudeNext]_claudeVars
  PROVE  StartIsRecorded'
<1>1. CASE TextDelta
  BY <1>1, DeliverKeepsStart DEF TextDelta, TakeClaudeEvent
<1>2. ASSUME NEW k \in 0 .. MaxText, NEW signature \in BOOLEAN, Snapshot(k, signature)
      PROVE  StartIsRecorded'
  BY <1>2, DeliverKeepsStart DEF Snapshot, TakeClaudeEvent
<1>3. CASE ThinkingDelta
  BY <1>3, ForwardKeepsStart DEF ThinkingDelta
<1>4. CASE Heartbeat
  BY <1>4, HeartbeatKeepsStart
<1>5. ASSUME NEW t, ToolStarted(t) \/ ToolDelta(t) \/ ToolCompleted(t) \/ ToolResult(t)
      PROVE  StartIsRecorded'
  BY <1>5, ForwardKeepsStart DEF ToolStarted, ToolDelta, ToolCompleted, ToolResult
<1>6. ASSUME NEW usage \in BOOLEAN, TurnEnded(usage)
      PROVE  StartIsRecorded'
  <2>1. flags' \in FlagRecords /\ flags'.started = flags.started
    BY <1>6 DEF TurnEnded, StartIsRecorded, FlagRecords
  <2>. QED
    BY <1>6, <2>1 DEF TurnEnded, TakeClaudeEvent, StartIsRecorded, Untouched
<1>7. CASE DeadlineOrTrailer
  BY <1>7, FailKeepsStart DEF DeadlineOrTrailer
<1>8. CASE ServerToolTimeout
  BY <1>8, LastEmitLemma DEF ServerToolTimeout
<1>9. CASE ChannelClosed
  <2>1. CASE FailTurn
    BY <1>9, <2>1, FailKeepsStart DEF ChannelClosed
  <2>2. CASE /\ \E r : Emit(r, TRUE)
             /\ UNCHANGED flags
    BY <1>9, <2>2, LastEmitLemma DEF ChannelClosed
  <2>. QED
    BY <1>9, <2>1, <2>2 DEF ChannelClosed
<1>10. CASE ClientReads
  <2>1. wire # <<>> /\ UNCHANGED <<at, error, flags>>
    BY <1>10 DEF ClientReads
  <2>. QED
    BY <2>1 DEF StartIsRecorded, Untouched
<1>11. CASE UNCHANGED claudeVars
  BY <1>11 DEF claudeVars, StartIsRecorded, Untouched
<1>. QED
  BY <1>1, <1>2, <1>3, <1>4, <1>5, <1>6, <1>7, <1>8, <1>9, <1>10, <1>11 DEF ClaudeNext

-----------------------------------------------------------------------------
(* The error that lets the host try another account is returned only while *)
(* no frame of this response has left the handler (streamClaude's           *)
(* `started`, execute.go).                                                 *)
THEOREM FailoverStaysSafe == ClaudeSpec => []FailoverIsSafe
<1>1. ClaudeInit => StartIsRecorded
  BY StartInit
<1>2. StartIsRecorded /\ [ClaudeNext]_claudeVars => StartIsRecorded'
  BY StartNext
<1>3. StartIsRecorded => FailoverIsSafe
  BY DEF StartIsRecorded, Untouched, FailoverIsSafe
<1>. QED
  BY <1>1, <1>2, <1>3, PTL DEF ClaudeSpec

(***************************************************************************)
(* The frames as the client reads them.                                    *)
(***************************************************************************)
Messages ==
  [phase : {"none", "open", "done", "failed", "empty", "broken"}, open : SUBSET Nat,
   used : SUBSET Nat, owed : SUBSET ServerTools]

(* The frames the writer builds. *)
Frames ==
  [type : {"message_start", "start", "delta", "stop", "ping", "error", "message_stop"},
   index : Nat, kind : {"none", "text", "thinking", "tool", "server", "result"},
   id : Tools \union {NoTool}, text : Seq(Nat)]

(* A frame the protocol has a place for, in the message c. *)
Fits(c, f) ==
  /\ f.type = "message_start" => c.phase = "none"
  /\ f.type \in {"start", "delta", "stop", "ping", "error"} => c.phase = "open"
  /\ f.type \in {"start", "delta"} => f.index \notin c.used
  /\ f.type = "start" /\ f.kind \in {"tool", "server"} => f.index \in Indices
  /\ f.type = "start" /\ f.kind \in {"server", "result"} => f.id \in ServerTools
  /\ f.type = "stop" => f.index \notin c.used \/ f.index \in c.open \intersect Indices
  /\ f.type = "message_stop" => c.phase \in {"none", "open"} /\ c.open = {} /\ c.owed = {}

(* Reading the frames of s, each of which fits, leads from c to d. *)
PathRun(c, s, d, run) ==
  /\ run \in [0 .. Len(s) -> Messages]
  /\ run[0] = c /\ run[Len(s)] = d
  /\ \A j \in 1 .. Len(s) : Fits(run[j - 1], s[j]) /\ run[j] = After(run[j - 1], s[j])

Path(c, s, d) == s \in Seq(Frames) /\ \E run : PathRun(c, s, d, run)

(* A frame that fits leaves a message of the same kind. *)
LEMMA AfterFits ==
  ASSUME NEW c \in Messages, NEW f \in Frames, Fits(c, f)
  PROVE  ~Misplaced(c, f) /\ After(c, f) \in Messages
<1>1. ~Misplaced(c, f)
  BY DEF Misplaced, Fits, Messages, Frames
<1>2. /\ c.phase \in {"none", "open", "done", "failed", "empty", "broken"}
      /\ c.open \in SUBSET Nat /\ c.used \in SUBSET Nat /\ c.owed \in SUBSET ServerTools
  BY DEF Messages
<1>3. f.type \in {"message_start", "start", "delta", "stop", "ping", "error", "message_stop"}
      /\ f.index \in Nat
  BY DEF Frames
<1>4. f.type = "start" /\ f.kind = "server" => f.id \in ServerTools
  BY DEF Fits
<1>. DEFINE d == After(c, f)
<1>5. d.phase \in {"none", "open", "done", "failed", "empty", "broken"}
  BY <1>1, <1>2 DEF After
<1>6. d.open \in SUBSET Nat /\ d.used \in SUBSET Nat
  BY <1>2, <1>3 DEF After, OpensTool
<1>7. d.owed \in SUBSET ServerTools
  BY <1>2, <1>4 DEF After
<1>8. d = [phase |-> d.phase, open |-> d.open, used |-> d.used, owed |-> d.owed]
  BY DEF After
<1>. QED
  BY <1>1, <1>5, <1>6, <1>7, <1>8 DEF Messages

(* No frames lead nowhere. *)
LEMMA PathEmpty ==
  ASSUME NEW c \in Messages
  PROVE  Path(c, <<>>, c)
<1>1. PathRun(c, <<>>, c, [j \in 0 .. 0 |-> c])
  BY DEF PathRun
<1>. QED
  BY <1>1 DEF Path

(* A frame that fits leads to the message after it. *)
LEMMA PathOne ==
  ASSUME NEW c \in Messages, NEW f \in Frames, Fits(c, f)
  PROVE  Path(c, <<f>>, After(c, f))
<1>. DEFINE run == [j \in 0 .. 1 |-> IF j = 0 THEN c ELSE After(c, f)]
<1>1. After(c, f) \in Messages
  BY AfterFits
<1>2. PathRun(c, <<f>>, After(c, f), run)
  <2>1. run \in [0 .. 1 -> Messages] /\ run[0] = c /\ run[1] = After(c, f)
    BY <1>1
  <2>2. Len(<<f>>) = 1 /\ <<f>>[1] = f
    OBVIOUS
  <2>3. 1 - 1 = 0 /\ \A j \in 1 .. 1 : j = 1
    OBVIOUS
  <2>. HIDE DEF run
  <2>. QED
    BY <2>1, <2>2, <2>3 DEF PathRun
<1>. QED
  BY <1>2 DEF Path

(* So do two, one after the other. *)
LEMMA PathTwo ==
  ASSUME NEW c \in Messages, NEW d \in Messages, NEW e \in Messages,
         NEW f \in Frames, Fits(c, f), After(c, f) = d,
         NEW g \in Frames, Fits(d, g), After(d, g) = e
  PROVE  Path(c, <<f, g>>, e)
<1>. DEFINE run == [j \in 0 .. 2 |-> IF j = 0 THEN c ELSE IF j = 1 THEN d ELSE e]
            s == <<f, g>>
<1>1. run \in [0 .. 2 -> Messages] /\ run[0] = c /\ run[1] = d /\ run[2] = e
  OBVIOUS
<1>2. Len(s) = 2 /\ s[1] = f /\ s[2] = g /\ s \in Seq(Frames)
  OBVIOUS
<1>3. (\A j \in 1 .. 2 : j = 1 \/ j = 2) /\ 1 - 1 = 0 /\ 2 - 1 = 1
  OBVIOUS
<1>. HIDE DEF run, s
<1>4. PathRun(c, s, e, run)
  BY <1>1, <1>2, <1>3 DEF PathRun
<1>. QED
  BY <1>2, <1>4 DEF Path, s

(* What two sequences hold together. *)
LEMMA Concat ==
  ASSUME NEW S, NEW a \in Seq(S), NEW b \in Seq(S)
  PROVE  /\ a \o b \in Seq(S) /\ Len(a \o b) = Len(a) + Len(b)
         /\ \A j \in 1 .. Len(a) : (a \o b)[j] = a[j]
         /\ \A j \in Len(a) + 1 .. Len(a) + Len(b) :
              j - Len(a) \in 1 .. Len(b) /\ (a \o b)[j] = b[j - Len(a)]
OBVIOUS

(* Paths are joined where one ends and the next begins. *)
LEMMA PathConcat ==
  ASSUME NEW c, NEW d, NEW e, NEW s, NEW t, Path(c, s, d), Path(d, t, e)
  PROVE  Path(c, s \o t, e)
<1>1. s \in Seq(Frames) /\ t \in Seq(Frames)
  BY DEF Path
<1>. DEFINE u == s \o t
            m == Len(s)
            n == Len(t)
<1>2. PICK p : PathRun(c, s, d, p)
  BY DEF Path
<1>3. PICK q : PathRun(d, t, e, q)
  BY DEF Path
<1>4. /\ u \in Seq(Frames) /\ Len(u) = m + n /\ m \in Nat /\ n \in Nat
      /\ \A j \in 1 .. m : u[j] = s[j]
      /\ \A j \in m + 1 .. m + n : j - m \in 1 .. n /\ u[j] = t[j - m]
  BY <1>1, Concat
<1>. DEFINE run == [j \in 0 .. m + n |-> IF j <= m THEN p[j] ELSE q[j - m]]
<1>. HIDE DEF u
<1>5. /\ p \in [0 .. m -> Messages] /\ p[0] = c /\ p[m] = d
      /\ q \in [0 .. n -> Messages] /\ q[0] = d /\ q[n] = e
  BY <1>2, <1>3 DEF PathRun
<1>6. run \in [0 .. m + n -> Messages]
  BY <1>4, <1>5
<1>7. run[0] = c /\ \A j \in 0 .. m : run[j] = p[j]
  BY <1>4, <1>5
<1>8. \A j \in m .. m + n : j - m \in 0 .. n /\ run[j] = q[j - m]
  BY <1>4, <1>5
<1>. HIDE DEF run
<1>9. run[m + n] = e
  BY <1>4, <1>5, <1>8
<1>10. ASSUME NEW j \in 1 .. m + n
      PROVE  Fits(run[j - 1], u[j]) /\ run[j] = After(run[j - 1], u[j])
  <2>1. CASE j <= m
    <3>1. j \in 1 .. m /\ j - 1 \in 0 .. m
      BY <1>4, <2>1
    <3>2. Fits(p[j - 1], s[j]) /\ p[j] = After(p[j - 1], s[j])
      BY <1>2, <3>1 DEF PathRun
    <3>3. run[j - 1] = p[j - 1] /\ run[j] = p[j] /\ u[j] = s[j]
      BY <1>4, <1>7, <3>1
    <3>. QED
      BY <3>2, <3>3
  <2>2. CASE j > m
    <3>. DEFINE i == j - m
    <3>1. j - 1 \in m .. m + n /\ j \in m .. m + n /\ (j - 1) - m = i - 1 /\ i \in 1 .. n /\ u[j] = t[i]
      BY <1>4, <2>2
    <3>2. run[j - 1] = q[i - 1] /\ run[j] = q[i]
      BY <1>8, <3>1
    <3>. HIDE DEF i
    <3>3. Fits(q[i - 1], t[i]) /\ q[i] = After(q[i - 1], t[i])
      BY <1>3, <3>1 DEF PathRun
    <3>. QED
      BY <3>1, <3>2, <3>3
  <2>. QED
    BY <1>4, <2>1, <2>2
<1>11. PathRun(c, u, e, run)
  BY <1>4, <1>6, <1>7, <1>9, <1>10 DEF PathRun
<1>. QED
  BY <1>4, <1>11 DEF Path, u

(* A path may be left at any frame. *)
LEMMA PathPrefix ==
  ASSUME NEW c, NEW d, NEW s, NEW t, Path(c, s, d), t \in Seq(Frames), Len(t) <= Len(s),
         \A j \in 1 .. Len(t) : t[j] = s[j]
  PROVE  \E e \in Messages : Path(c, t, e)
<1>1. PICK p : PathRun(c, s, d, p)
  BY DEF Path
<1>2. Len(s) \in Nat /\ Len(t) \in Nat
  BY DEF Path
<1>. DEFINE run == [j \in 0 .. Len(t) |-> p[j]]
<1>3. \A j \in 0 .. Len(t) : j \in 0 .. Len(s) /\ run[j] = p[j]
  BY <1>2
<1>4. p \in [0 .. Len(s) -> Messages] /\ p[0] = c
  BY <1>1 DEF PathRun
<1>5. run \in [0 .. Len(t) -> Messages] /\ run[0] = c /\ run[Len(t)] \in Messages
  BY <1>2, <1>4
<1>. HIDE DEF run
<1>6. ASSUME NEW j \in 1 .. Len(t)
      PROVE  Fits(run[j - 1], t[j]) /\ run[j] = After(run[j - 1], t[j])
  <2>1. j \in 0 .. Len(t) /\ j - 1 \in 0 .. Len(t) /\ j \in 1 .. Len(s) /\ t[j] = s[j]
    BY <1>2
  <2>. QED
    BY <1>1, <1>3, <2>1 DEF PathRun
<1>7. PathRun(c, t, run[Len(t)], run)
  BY <1>5, <1>6 DEF PathRun
<1>. QED
  BY <1>5, <1>7 DEF Path

(* The first frame of a path fits, and the others go on from there. *)
LEMMA PathHead ==
  ASSUME NEW c, NEW d, NEW s, Path(c, s, d), s # <<>>
  PROVE  /\ Head(s) \in Frames /\ c \in Messages /\ Fits(c, Head(s))
         /\ Path(After(c, Head(s)), Tail(s), d)
<1>1. PICK p : PathRun(c, s, d, p)
  BY DEF Path
<1>. DEFINE t == Tail(s)
            n == Len(s)
<1>2. s \in Seq(Frames) /\ Head(s) = s[1] /\ Head(s) \in Frames /\ n \in Nat /\ n >= 1
      /\ t \in Seq(Frames) /\ Len(t) = n - 1 /\ \A j \in 1 .. n - 1 : t[j] = s[j + 1]
  BY DEF Path
<1>. HIDE DEF t, n
<1>3. /\ p \in [0 .. n -> Messages] /\ p[0] = c /\ p[n] = d
      /\ \A j \in 1 .. n : Fits(p[j - 1], s[j]) /\ p[j] = After(p[j - 1], s[j])
  BY <1>1 DEF PathRun, n
<1>4. Fits(c, s[1]) /\ p[1] = After(c, s[1]) /\ c \in Messages
  <2>1. 1 \in 1 .. n /\ 1 - 1 = 0 /\ 0 \in 0 .. n
    BY <1>2
  <2>2. Fits(p[1 - 1], s[1]) /\ p[1] = After(p[1 - 1], s[1])
    BY <1>3, <2>1
  <2>. QED
    BY <1>3, <2>1, <2>2
<1>. DEFINE run == [j \in 0 .. n - 1 |-> p[j + 1]]
<1>5. /\ run \in [0 .. n - 1 -> Messages] /\ run[0] = p[1] /\ run[n - 1] = d
      /\ \A j \in 0 .. n - 1 : run[j] = p[j + 1]
  BY <1>2, <1>3
<1>. HIDE DEF run
<1>6. ASSUME NEW j \in 1 .. n - 1
      PROVE  Fits(run[j - 1], t[j]) /\ run[j] = After(run[j - 1], t[j])
  <2>1. j + 1 \in 1 .. n /\ (j + 1) - 1 = j /\ (j - 1) + 1 = j /\ j - 1 \in 0 .. n - 1 /\ j \in 0 .. n - 1
    BY <1>2
  <2>2. Fits(p[j], s[j + 1]) /\ p[j + 1] = After(p[j], s[j + 1])
    BY <1>3, <2>1
  <2>3. run[j - 1] = p[j] /\ run[j] = p[j + 1]
    BY <1>5, <2>1
  <2>. QED
    BY <1>2, <2>2, <2>3
<1>7. PathRun(p[1], t, d, run)
  BY <1>2, <1>5, <1>6 DEF PathRun
<1>. QED
  BY <1>2, <1>4, <1>7 DEF Path, t

(* No frame leads back to a message that has not begun. *)
LEMMA PathBegins ==
  ASSUME NEW c, NEW d, NEW s, Path(c, s, d), s # <<>>
  PROVE  d.phase # "none"
<1>1. PICK p : PathRun(c, s, d, p)
  BY DEF Path
<1>2. s \in Seq(Frames) /\ Len(s) \in Nat /\ Len(s) >= 1
  BY DEF Path
<1>3. Len(s) \in 1 .. Len(s) /\ Len(s) - 1 \in 0 .. Len(s)
  BY <1>2
<1>. DEFINE b == p[Len(s) - 1]
            f == s[Len(s)]
<1>4. Fits(b, f) /\ d = After(b, f) /\ b \in Messages /\ f \in Frames
  BY <1>1, <1>2, <1>3 DEF PathRun
<1>. HIDE DEF b, f
<1>5. f.type \in {"message_start", "message_stop"} \/ b.phase = "open"
  BY <1>4 DEF Fits, Frames
<1>. QED
  BY <1>4, <1>5 DEF After

-----------------------------------------------------------------------------

(***************************************************************************)
(* The text among the frames: at most one of them has any.                 *)
(***************************************************************************)
Silent(s) == \A j \in 1 .. Len(s) : s[j].text = <<>>

(* The pieces a + 1, a + 2, ... *)
Run(s, a) == s \in Seq(Nat) /\ \A j \in 1 .. Len(s) : s[j] = a + j

(* The frames of s carry the pieces from a to b. *)
WireText(s, a, b) ==
  /\ s \in Seq(Frames) /\ a \in Nat /\ b \in Nat
  /\ \/ Silent(s) /\ b = a
     \/ \E i \in 1 .. Len(s) :
          /\ Run(s[i].text, a) /\ Len(s[i].text) = b - a /\ b > a
          /\ \A j \in 1 .. Len(s) : j # i => s[j].text = <<>>

(* Frames without text have none when joined. *)
LEMMA SilentConcat ==
  ASSUME NEW s \in Seq(Frames), NEW t \in Seq(Frames), Silent(s), Silent(t)
  PROVE  Silent(s \o t) /\ s \o t \in Seq(Frames)
<1>. DEFINE u == s \o t
<1>1. /\ u \in Seq(Frames) /\ Len(u) = Len(s) + Len(t)
      /\ \A j \in 1 .. Len(s) : u[j] = s[j]
      /\ \A j \in Len(s) + 1 .. Len(s) + Len(t) : j - Len(s) \in 1 .. Len(t) /\ u[j] = t[j - Len(s)]
  BY Concat
<1>. HIDE DEF u
<1>2. Len(s) \in Nat /\ Len(t) \in Nat
  OBVIOUS
<1>3. ASSUME NEW j \in 1 .. Len(u)
      PROVE  u[j].text = <<>>
  <2>1. CASE j \in 1 .. Len(s)
    BY <1>1, <2>1 DEF Silent
  <2>2. CASE j \in Len(s) + 1 .. Len(s) + Len(t)
    BY <1>1, <2>2 DEF Silent
  <2>. QED
    BY <1>1, <1>2, <2>1, <2>2
<1>. QED
  BY <1>1, <1>3 DEF Silent, u

(* Frames with text may be joined with frames that have none. *)
LEMMA WireTextConcat ==
  ASSUME NEW s, NEW t, NEW a, NEW b, NEW c, WireText(s, a, b), WireText(t, b, c),
         Silent(s) \/ Silent(t)
  PROVE  WireText(s \o t, a, c)
<1>. DEFINE u == s \o t
            m == Len(s)
            n == Len(t)
<1>1. s \in Seq(Frames) /\ t \in Seq(Frames) /\ a \in Nat /\ b \in Nat /\ c \in Nat
  BY DEF WireText
<1>2. /\ u \in Seq(Frames) /\ Len(u) = m + n /\ m \in Nat /\ n \in Nat
      /\ \A j \in 1 .. m : u[j] = s[j]
      /\ \A j \in m + 1 .. m + n : j - m \in 1 .. n /\ u[j] = t[j - m]
  BY <1>1, Concat
<1>3. \A j \in 1 .. m + n : j \in 1 .. m \/ j \in m + 1 .. m + n
  BY <1>2
<1>. HIDE DEF u, m, n
<1>4. CASE Silent(s) /\ Silent(t)
  <2>1. b = a /\ c = b
    <3>1. \A i \in 1 .. Len(s) : s[i].text = <<>> /\ Len(<<>>) = 0
      BY <1>4 DEF Silent
    <3>2. \A i \in 1 .. Len(t) : t[i].text = <<>> /\ Len(<<>>) = 0
      BY <1>4 DEF Silent
    <3>. QED
      BY <1>1, <3>1, <3>2 DEF WireText
  <2>. QED
    BY <1>1, <1>2, <1>4, <2>1, SilentConcat DEF WireText, u
<1>5. CASE Silent(s) /\ ~Silent(t)
  <2>1. b = a
    <3>1. \A i \in 1 .. Len(s) : s[i].text = <<>> /\ Len(<<>>) = 0
      BY <1>5 DEF Silent
    <3>. QED
      BY <1>1, <3>1 DEF WireText
  <2>2. PICK i \in 1 .. n : /\ Run(t[i].text, b) /\ Len(t[i].text) = c - b /\ c > b
                            /\ \A j \in 1 .. n : j # i => t[j].text = <<>>
    BY <1>5 DEF WireText, n
  <2>3. i + m \in m + 1 .. m + n /\ i + m \in 1 .. m + n /\ (i + m) - m = i
    BY <1>2
  <2>4. u[i + m] = t[i]
    BY <1>2, <2>3
  <2>5. ASSUME NEW j \in 1 .. m + n, j # i + m
        PROVE  u[j].text = <<>>
    <3>1. CASE j \in 1 .. m
      BY <1>2, <1>5, <3>1 DEF Silent, m
    <3>2. CASE j \in m + 1 .. m + n
      <4>1. j - m \in 1 .. n /\ j - m # i /\ u[j] = t[j - m]
        BY <1>2, <2>5, <3>2
      <4>. QED
        BY <2>2, <4>1
    <3>. QED
      BY <1>3, <3>1, <3>2
  <2>. QED
    BY <1>1, <1>2, <2>1, <2>2, <2>3, <2>4, <2>5 DEF WireText, u
<1>6. CASE ~Silent(s) /\ Silent(t)
  <2>1. c = b
    <3>1. \A i \in 1 .. Len(t) : t[i].text = <<>> /\ Len(<<>>) = 0
      BY <1>6 DEF Silent
    <3>. QED
      BY <1>1, <3>1 DEF WireText
  <2>2. PICK i \in 1 .. m : /\ Run(s[i].text, a) /\ Len(s[i].text) = b - a /\ b > a
                            /\ \A j \in 1 .. m : j # i => s[j].text = <<>>
    BY <1>6 DEF WireText, m
  <2>3. i \in 1 .. m + n /\ u[i] = s[i]
    BY <1>2
  <2>4. ASSUME NEW j \in 1 .. m + n, j # i
        PROVE  u[j].text = <<>>
    <3>1. CASE j \in 1 .. m
      BY <1>2, <2>2, <2>4, <3>1
    <3>2. CASE j \in m + 1 .. m + n
      BY <1>2, <1>6, <3>2 DEF Silent, n
    <3>. QED
      BY <1>3, <3>1, <3>2
  <2>. QED
    BY <1>1, <1>2, <2>1, <2>2, <2>3, <2>4 DEF WireText, u
<1>. QED
  BY <1>4, <1>5, <1>6

(* Cut short, the frames carry the text or they do not. *)
LEMMA WireTextPrefix ==
  ASSUME NEW s, NEW t, NEW a, NEW b, WireText(s, a, b), t \in Seq(Frames), Len(t) <= Len(s),
         \A j \in 1 .. Len(t) : t[j] = s[j]
  PROVE  WireText(t, a, a) \/ WireText(t, a, b)
<1>1. /\ a \in Nat /\ b \in Nat /\ s \in Seq(Frames)
      /\ \A j \in 1 .. Len(t) : j \in 1 .. Len(s)
  BY DEF WireText
<1>2. CASE Silent(t)
  BY <1>1, <1>2 DEF WireText
<1>3. CASE ~Silent(t)
  <2>1. PICK k \in 1 .. Len(t) : t[k].text # <<>>
    BY <1>3 DEF Silent
  <2>2. k \in 1 .. Len(s) /\ s[k].text # <<>>
    BY <1>1, <2>1
  <2>3. /\ Run(s[k].text, a) /\ Len(s[k].text) = b - a /\ b > a
        /\ \A j \in 1 .. Len(s) : j # k => s[j].text = <<>>
    BY <2>2 DEF WireText, Silent
  <2>4. /\ Run(t[k].text, a) /\ Len(t[k].text) = b - a /\ b > a
        /\ \A j \in 1 .. Len(t) : j # k => t[j].text = <<>>
    BY <1>1, <2>1, <2>3
  <2>. QED
    BY <1>1, <2>1, <2>4 DEF WireText
<1>. QED
  BY <1>2, <1>3

(* The frame that is read takes its text along. *)
LEMMA WireTextHead ==
  ASSUME NEW s, NEW a, NEW b, WireText(s, a, b), s # <<>>
  PROVE  /\ Run(Head(s).text, a) /\ Len(Head(s).text) \in Nat
         /\ WireText(Tail(s), a + Len(Head(s).text), b)
<1>. DEFINE f == s[1]
            t == Tail(s)
            n == Len(s)
<1>1. /\ s \in Seq(Frames) /\ Head(s) = f /\ f \in Frames /\ n \in Nat /\ n >= 1 /\ 1 \in 1 .. n
      /\ t \in Seq(Frames) /\ Len(t) = n - 1 /\ \A j \in 1 .. n - 1 : t[j] = s[j + 1]
  BY DEF WireText
<1>2. a \in Nat /\ b \in Nat
  BY DEF WireText
<1>. HIDE DEF t
<1>3. f.text \in Seq(Nat)
  BY <1>1 DEF Frames
<1>4. CASE f.text = <<>>
  <2>1. Run(f.text, a) /\ Len(f.text) = 0 /\ a + 0 = a
    BY <1>2, <1>4 DEF Run
  <2>2. CASE Silent(s) /\ b = a
    <3>1. Silent(t)
      BY <1>1, <2>2 DEF Silent
    <3>. QED
      BY <1>1, <1>2, <2>1, <2>2, <3>1 DEF WireText, t
  <2>3. CASE ~(Silent(s) /\ b = a)
    <3>1. PICK i \in 1 .. n : /\ Run(s[i].text, a) /\ Len(s[i].text) = b - a /\ b > a
                              /\ \A j \in 1 .. n : j # i => s[j].text = <<>>
      BY <2>3 DEF WireText
    <3>2. i # 1
      BY <1>2, <2>1, <3>1
    <3>3. i - 1 \in 1 .. n - 1 /\ t[i - 1] = s[i]
      <4>1. i - 1 \in 1 .. n - 1 /\ (i - 1) + 1 = i
        BY <1>1, <3>2
      <4>2. t[i - 1] = s[(i - 1) + 1]
        BY <1>1, <4>1
      <4>. QED
        BY <4>1, <4>2
    <3>4. \A j \in 1 .. n - 1 : j # i - 1 => t[j].text = <<>>
      BY <1>1, <3>1
    <3>5. WireText(t, a, b)
      BY <1>1, <1>2, <3>1, <3>3, <3>4 DEF WireText
    <3>. QED
      BY <1>1, <2>1, <3>5 DEF t
  <2>. QED
    BY <2>2, <2>3
<1>5. CASE f.text # <<>>
  <2>1. ~Silent(s)
    BY <1>1, <1>5 DEF Silent
  <2>2. PICK i \in 1 .. n : /\ Run(s[i].text, a) /\ Len(s[i].text) = b - a /\ b > a
                            /\ \A j \in 1 .. n : j # i => s[j].text = <<>>
    BY <2>1 DEF WireText
  <2>3. i = 1
    BY <1>1, <1>5, <2>2
  <2>4. Run(f.text, a) /\ Len(f.text) = b - a /\ a + Len(f.text) = b
    <3>1. Run(f.text, a) /\ Len(f.text) = b - a
      BY <2>2, <2>3
    <3>2. Len(f.text) \in Nat
      BY <1>3
    <3>. HIDE DEF f
    <3>. QED
      BY <1>2, <3>1, <3>2
  <2>5. Silent(t)
    BY <1>1, <2>2, <2>3 DEF Silent
  <2>6. WireText(t, b, b)
    BY <1>1, <1>2, <2>5 DEF WireText
  <2>. QED
    BY <1>1, <1>2, <2>4, <2>6, <1>3 DEF t
<1>. QED
  BY <1>4, <1>5

(* Every frame but a delta is silent. *)
LEMMA SilentPieces ==
  ASSUME NEW w, NEW i, NEW kind, NEW id
  PROVE  /\ Silent(<<>>) /\ Silent(StartFrame(w)) /\ Silent(CloseCurrentBlock(w))
         /\ Silent(<<BlockStart(i, kind, id)>>) /\ Silent(<<BlockStop(i)>>)
         /\ Silent(<<Mark("ping")>>) /\ Silent(<<Mark("error")>>)
         /\ Silent(<<Mark("message_stop")>>)
         /\ Silent(<<BlockStart(i, kind, id), BlockStop(i)>>)
BY DEF Silent, StartFrame, CloseCurrentBlock, BlockStart, BlockStop, Mark, WireFrame

-----------------------------------------------------------------------------
(***************************************************************************)
(* The writer knows the message as the client will have read it, once it   *)
(* has read what is on the wire; n bounds the indices it has given out.    *)
(***************************************************************************)
Blocks == UNION {[S -> Nat] : S \in SUBSET Tools}
Writers ==
  [started : BOOLEAN, block : {"none", "text", "thinking"}, index : Nat, blocks : Blocks]
(* The index of a block that is open is not yet counted. *)
Opened(w) == IF w.block = "none" THEN 0 ELSE 1

(* The tool blocks of the message are those the writer knows. *)
SameBlocks(c, b) ==
  /\ \A t \in DOMAIN b : b[t] \in c.open
  /\ \A i \in c.open : i \in Indices /\ \E t \in DOMAIN b : i = b[t]
  /\ \A s, t \in DOMAIN b : b[s] = b[t] => s = t
  /\ c.owed = DOMAIN b \intersect ServerTools

Agrees(c, w, n) ==
  /\ c \in Messages /\ w \in Writers
  /\ c.phase = IF w.started THEN "open" ELSE "none"
  /\ ~w.started => w.block = "none" /\ DOMAIN w.blocks = {}
  /\ \A i \in c.used : i < w.index
  /\ c.open \subseteq c.used
  /\ SameBlocks(c, w.blocks)
  /\ n \in Nat /\ w.index + Opened(w) <= n

(* A table of blocks is a function from tools to indices. *)
LEMMA BlocksOf ==
  ASSUME NEW b
  PROVE  b \in Blocks <=> /\ DOMAIN b \subseteq Tools
                          /\ b = [t \in DOMAIN b |-> b[t]]
                          /\ \A t \in DOMAIN b : b[t] \in Nat
BY DEF Blocks

(* A writer is the record of its fields. *)
LEMMA WriterFields ==
  ASSUME NEW w \in Writers
  PROVE  /\ w.started \in BOOLEAN /\ w.block \in {"none", "text", "thinking"}
         /\ w.index \in Nat /\ w.blocks \in Blocks
         /\ w = [started |-> w.started, block |-> w.block, index |-> w.index, blocks |-> w.blocks]
BY DEF Writers

(* A message is the record of its fields. *)
LEMMA MessageFields ==
  ASSUME NEW c \in Messages
  PROVE  /\ c.phase \in {"none", "open", "done", "failed", "empty", "broken"}
         /\ c.open \in SUBSET Nat /\ c.used \in SUBSET Nat /\ c.owed \in SUBSET ServerTools
         /\ c = [phase |-> c.phase, open |-> c.open, used |-> c.used, owed |-> c.owed]
BY DEF Messages

(* What the encoders write are frames. *)
LEMMA FrameTypes ==
  ASSUME NEW i \in Nat, NEW kind \in {"none", "text", "thinking", "tool", "server", "result"},
         NEW id \in Tools \union {NoTool}, NEW text \in Seq(Nat)
  PROVE  /\ Mark("message_start") \in Frames /\ Mark("message_stop") \in Frames
         /\ Mark("ping") \in Frames /\ Mark("error") \in Frames
         /\ BlockStart(i, kind, id) \in Frames /\ BlockStop(i) \in Frames
         /\ WireFrame("delta", i, kind, NoTool, text) \in Frames
BY DEF Mark, WireFrame, BlockStart, BlockStop, Frames

(* The frame that begins the message. *)
LEMMA StartPiece ==
  ASSUME NEW c, NEW w, NEW n, Agrees(c, w, n)
  PROVE  \E d \in Messages : Path(c, StartFrame(w), d) /\ Agrees(d, Started(w), n)
<1>1. c \in Messages /\ w \in Writers
  BY DEF Agrees
<1>2. CASE w.started
  <2>1. StartFrame(w) = <<>> /\ Started(w) = w
    BY <1>1, <1>2, WriterFields DEF StartFrame, Started
  <2>. QED
    BY <1>1, <2>1, PathEmpty
<1>3. CASE ~w.started
  <2>. DEFINE f == Mark("message_start")
              d == After(c, f)
  <2>1. f \in Frames /\ f.type = "message_start" /\ f.kind = "none"
    BY FrameTypes DEF Mark, WireFrame, Frames
  <2>. HIDE DEF f
  <2>2. c.phase = "none"
    BY <1>3 DEF Agrees
  <2>3. Fits(c, f)
    BY <2>1, <2>2 DEF Fits
  <2>4. Path(c, <<f>>, d) /\ d \in Messages /\ ~Misplaced(c, f)
    BY <1>1, <2>1, <2>3, PathOne, AfterFits
  <2>5. d.phase = "open" /\ d.open = c.open /\ d.used = c.used /\ d.owed = c.owed
    BY <2>1, <2>4 DEF After, OpensTool
  <2>6. /\ Started(w) \in Writers /\ Started(w).started /\ Started(w).block = w.block
        /\ Started(w).index = w.index /\ Started(w).blocks = w.blocks
    BY <1>1 DEF Started, Writers
  <2>. HIDE DEF d
  <2>7. Agrees(d, Started(w), n)
    BY <2>4, <2>5, <2>6 DEF Agrees, SameBlocks, Opened
  <2>8. StartFrame(w) = <<f>>
    BY <1>3 DEF StartFrame, f
  <2>. QED
    BY <2>4, <2>7, <2>8
<1>. QED
  BY <1>2, <1>3

(* A stop of a block that is none of the tools' changes nothing. *)
LEMMA StopPiece ==
  ASSUME NEW c \in Messages, NEW i \in Nat, i \notin c.used, c.open \subseteq c.used,
         c.phase = "open"
  PROVE  Path(c, <<BlockStop(i)>>, c)
<1>. DEFINE f == BlockStop(i)
<1>1. f \in Frames /\ f.type = "stop" /\ f.index = i /\ f.kind = "none"
  BY FrameTypes DEF BlockStop, WireFrame, Frames
<1>. HIDE DEF f
<1>2. Fits(c, f)
  BY <1>1 DEF Fits
<1>3. ~Misplaced(c, f) /\ Path(c, <<f>>, After(c, f))
  BY <1>1, <1>2, AfterFits, PathOne
<1>4. c.open \ {i} = c.open
  OBVIOUS
<1>5. After(c, f) = c
  BY <1>1, <1>3, <1>4, MessageFields DEF After, OpensTool
<1>. QED
  BY <1>3, <1>5 DEF f

(* Closing the open block, with its index taken or not. *)
LEMMA ClosePiece ==
  ASSUME NEW c, NEW w, NEW n, Agrees(c, w, n)
  PROVE  /\ Path(c, CloseCurrentBlock(w), c)
         /\ Agrees(c, BlockClosed(w), n) /\ BlockClosed(w).block = "none"
         /\ BlockClosed(w).started = w.started /\ BlockClosed(w).blocks = w.blocks
         /\ Agrees(c, [w EXCEPT !.block = "none"], n)
<1>1. c \in Messages /\ w \in Writers
  BY DEF Agrees
<1>2. CASE w.block = "none"
  <2>1. [w EXCEPT !.block = "none"] = w
    BY <1>1, <1>2, WriterFields
  <2>. QED
    BY <1>1, <1>2, <2>1, PathEmpty DEF CloseCurrentBlock, BlockClosed
<1>3. CASE w.block # "none"
  <2>1. w.index \in Nat /\ w.index \notin c.used /\ c.open \subseteq c.used /\ c.phase = "open"
    BY <1>1, <1>3, WriterFields, MessageFields DEF Agrees
  <2>2. Path(c, CloseCurrentBlock(w), c)
    BY <1>1, <1>3, <2>1, StopPiece DEF CloseCurrentBlock
  <2>. DEFINE v == [w EXCEPT !.block = "none", !.index = @ + 1]
              u == [w EXCEPT !.block = "none"]
  <2>3. w.index \in Nat /\ w.index + 1 \in Nat
    BY <2>1
  <2>4. /\ v \in Writers /\ v.started = w.started /\ v.block = "none" /\ v.index = w.index + 1
         /\ v.blocks = w.blocks
    BY <1>1, <2>3 DEF Writers
  <2>5. /\ u \in Writers /\ u.started = w.started /\ u.block = "none" /\ u.index = w.index
         /\ u.blocks = w.blocks
    BY <1>1, <2>3 DEF Writers
  <2>6. /\ v \in Writers /\ v.started = w.started /\ v.block = "none" /\ v.index = w.index + 1
        /\ v.blocks = w.blocks
        /\ u \in Writers /\ u.started = w.started /\ u.block = "none" /\ u.index = w.index
        /\ u.blocks = w.blocks
    BY <2>4, <2>5
  <2>7. BlockClosed(w) = v
    BY <1>3 DEF BlockClosed
  <2>. HIDE DEF v, u
  <2>8. Opened(v) = 0 /\ Opened(u) = 0 /\ Opened(w) = 1 /\ w.started
    BY <1>3, <2>6 DEF Opened, Agrees
  <2>9. \A i \in c.used : i < v.index
    BY <2>1, <2>6, <1>1, MessageFields DEF Agrees
  <2>10. Agrees(c, v, n)
    BY <2>1, <2>6, <2>8, <2>9 DEF Agrees
  <2>11. Agrees(c, u, n)
    BY <2>1, <2>6, <2>8 DEF Agrees
  <2>. QED
    BY <2>2, <2>6, <2>7, <2>10, <2>11 DEF u
<1>. QED
  BY <1>2, <1>3

(* A frame of a block that is none of the tools' changes nothing either. *)
LEMMA BlockPiece ==
  ASSUME NEW c \in Messages, NEW f \in Frames, c.phase = "open", f.index \notin c.used,
         \/ f.type = "start" /\ f.kind \in {"text", "thinking"}
         \/ f.type = "delta"
  PROVE  Path(c, <<f>>, c)
<1>1. Fits(c, f)
  BY DEF Fits
<1>2. ~Misplaced(c, f) /\ Path(c, <<f>>, After(c, f))
  BY <1>1, AfterFits, PathOne
<1>3. After(c, f) = c
  BY <1>2, MessageFields DEF After, OpensTool
<1>. QED
  BY <1>2, <1>3

(* A text or thinking block begins and goes on without the tools. *)
LEMMA ContentPiece ==
  ASSUME NEW c, NEW w, NEW n, Agrees(c, w, n), w.started, NEW kind \in {"text", "thinking"},
         w.block \in {"none", kind}, NEW text \in Seq(Nat)
  PROVE  /\ Path(c, IF w.block = kind THEN <<>> ELSE <<BlockStart(w.index, kind, NoTool)>>, c)
         /\ Path(c, <<WireFrame("delta", w.index, kind, NoTool, text)>>, c)
         /\ Agrees(c, [w EXCEPT !.block = kind], n + 1)
<1>1. /\ c \in Messages /\ w \in Writers /\ w.index \in Nat /\ c.phase = "open"
      /\ w.index \notin c.used
  BY WriterFields, MessageFields DEF Agrees
<1>. DEFINE f == BlockStart(w.index, kind, NoTool)
            g == WireFrame("delta", w.index, kind, NoTool, text)
<1>2. f \in Frames /\ f.type = "start" /\ f.kind = kind /\ f.index = w.index
  BY <1>1, FrameTypes DEF BlockStart, WireFrame, Frames
<1>3. g \in Frames /\ g.type = "delta" /\ g.index = w.index
  BY <1>1, FrameTypes DEF WireFrame, Frames
<1>. HIDE DEF f, g
<1>4. Path(c, <<f>>, c) /\ Path(c, <<g>>, c) /\ Path(c, <<>>, c)
  BY <1>1, <1>2, <1>3, BlockPiece, PathEmpty
<1>. DEFINE v == [w EXCEPT !.block = kind]
<1>5. /\ v \in Writers /\ v.started = w.started /\ v.block = kind /\ v.index = w.index
      /\ v.blocks = w.blocks
  BY <1>1 DEF Writers
<1>. HIDE DEF v
<1>6. Opened(v) = 1 /\ Opened(w) \in {0, 1}
  BY <1>5 DEF Opened
<1>7. Agrees(c, v, n + 1)
  BY <1>1, <1>5, <1>6 DEF Agrees
<1>. QED
  BY <1>4, <1>7 DEF f, g, v

(* The frame of a delta carries its text. *)
LEMMA OneText ==
  ASSUME NEW text \in Seq(Nat), NEW a \in Nat, Run(text, a), NEW i, NEW kind, NEW id,
         <<WireFrame("delta", i, kind, id, text)>> \in Seq(Frames)
  PROVE  WireText(<<WireFrame("delta", i, kind, id, text)>>, a, a + Len(text))
<1>. DEFINE f == WireFrame("delta", i, kind, id, text)
            s == <<f>>
<1>1. f.text = text /\ Len(s) = 1 /\ s[1] = f
  BY DEF WireFrame
<1>2. (\A j \in 1 .. 1 : j = 1) /\ 1 \in 1 .. 1 /\ Len(text) \in Nat /\ s \in Seq(Frames)
  OBVIOUS
<1>. HIDE DEF f, s
<1>3. CASE text = <<>>
  <2>1. Len(text) = 0
    BY <1>3
  <2>2. Silent(s) /\ a + Len(text) = a
    BY <1>1, <1>2, <1>3, <2>1 DEF Silent
  <2>. QED
    BY <1>2, <2>2 DEF WireText, s, f
<1>4. CASE text # <<>>
  <2>1. Len(text) > 0
    BY <1>4
  <2>2. a + Len(text) \in Nat /\ (a + Len(text)) - a = Len(text) /\ a + Len(text) > a
    BY <1>2, <2>1
  <2>3. WireText(s, a, a + Len(text))
    BY <1>1, <1>2, <2>2 DEF WireText
  <2>. QED
    BY <2>3 DEF s, f
<1>. QED
  BY <1>3, <1>4

(* EncodeContent extends the path by what is a delta's. *)
LEMMA ContentAgrees ==
  ASSUME NEW c, NEW w, NEW n, Agrees(c, w, n), NEW kind \in {"text", "thinking"},
         NEW text \in Seq(Nat)
  PROVE  /\ \E d \in Messages : /\ Path(c, EncodeContent(w, kind, text).frames, d)
                                /\ Agrees(d, EncodeContent(w, kind, text).w, n + 1)
         /\ \A a \in Nat : Run(text, a) =>
              WireText(EncodeContent(w, kind, text).frames, a, a + Len(text))
<1>. DEFINE switch == w.block \notin {"none", kind}
            w1 == IF switch THEN BlockClosed(w) ELSE w
            u == Started(w)
            v == IF switch THEN BlockClosed(u) ELSE u
            A == StartFrame(w)
            B == IF switch THEN CloseCurrentBlock(w) ELSE <<>>
            C == IF w1.block = kind THEN <<>> ELSE <<BlockStart(w1.index, kind, NoTool)>>
            D == <<WireFrame("delta", w1.index, kind, NoTool, text)>>
            x == [Started(w1) EXCEPT !.block = kind]
<1>1. PICK d \in Messages : Path(c, A, d) /\ Agrees(d, u, n)
  BY StartPiece
<1>2. w \in Writers
  BY DEF Agrees
<1>3. /\ u \in Writers /\ u.started /\ u.block = w.block /\ u.index = w.index /\ u.blocks = w.blocks
  BY <1>2 DEF Started, Writers
<1>4. CloseCurrentBlock(u) = CloseCurrentBlock(w)
  BY <1>3 DEF CloseCurrentBlock
<1>5. Path(d, B, d) /\ Agrees(d, v, n) /\ v.block \in {"none", kind} /\ v.started
  BY <1>1, <1>3, <1>4, ClosePiece, PathEmpty
<1>6. v = Started(w1)
  BY <1>2 DEF Started, BlockClosed, Writers
<1>7. v.block = w1.block /\ v.index = w1.index
  BY <1>2 DEF Started, BlockClosed, Writers
<1>. HIDE DEF v, w1, u, A, B, switch
<1>8. Path(d, C, d) /\ Path(d, D, d) /\ Agrees(d, [v EXCEPT !.block = kind], n + 1)
  BY <1>5, <1>7, ContentPiece
<1>. HIDE DEF C, D
<1>9. Path(c, ((A \o B) \o C) \o D, d)
  BY <1>1, <1>5, <1>8, PathConcat
<1>10. EncodeContent(w, kind, text) = [w |-> x, frames |-> ((A \o B) \o C) \o D]
  BY DEF EncodeContent, Encoded, A, B, C, D, w1, switch
<1>11. ASSUME NEW a \in Nat, Run(text, a)
       PROVE  WireText(((A \o B) \o C) \o D, a, a + Len(text))
  <2>1. A \in Seq(Frames) /\ B \in Seq(Frames) /\ C \in Seq(Frames) /\ D \in Seq(Frames)
    BY <1>1, <1>5, <1>8 DEF Path
  <2>2. Silent(A) /\ Silent(B) /\ Silent(C)
    BY SilentPieces DEF A, B, C
  <2>3. Silent((A \o B) \o C) /\ (A \o B) \o C \in Seq(Frames)
    BY <2>1, <2>2, SilentConcat
  <2>4. WireText((A \o B) \o C, a, a)
    BY <2>3 DEF WireText
  <2>5. WireText(D, a, a + Len(text))
    BY <1>11, <2>1, OneText DEF D
  <2>. QED
    BY <2>3, <2>4, <2>5, WireTextConcat
<1>. QED
  BY <1>6, <1>8, <1>9, <1>10, <1>11

(* Thinking is content that carries no text. *)
LEMMA ThinkingAgrees ==
  ASSUME NEW c, NEW w, NEW n, Agrees(c, w, n)
  PROVE  LET e == EncodeContent(w, "thinking", <<>>)
         IN  /\ \E d \in Messages : Path(c, e.frames, d) /\ Agrees(d, e.w, n + 1)
             /\ Silent(e.frames)
<1>. DEFINE e == EncodeContent(w, "thinking", <<>>)
<1>1. <<>> \in Seq(Nat) /\ Len(<<>>) = 0 /\ Run(<<>>, 0)
  BY DEF Run
<1>. HIDE DEF e
<1>2. /\ \E d \in Messages : Path(c, e.frames, d) /\ Agrees(d, e.w, n + 1)
      /\ WireText(e.frames, 0, 0 + 0)
  BY <1>1, ContentAgrees DEF e
<1>3. Silent(e.frames)
  BY <1>2 DEF WireText
<1>. QED
  BY <1>2, <1>3 DEF e

(* A signature is thinking, or is dropped while a text block is open. *)
LEMMA SignatureAgrees ==
  ASSUME NEW c, NEW w, NEW n, Agrees(c, w, n)
  PROVE  /\ \E d \in Messages : /\ Path(c, EncodeSignature(w).frames, d)
                                /\ Agrees(d, EncodeSignature(w).w, n + 1)
         /\ Silent(EncodeSignature(w).frames)
<1>1. CASE w.block \notin {"none", "thinking"}
  <2>1. w.started /\ c \in Messages /\ w \in Writers
    BY <1>1 DEF Agrees
  <2>2. Started(w) = w
    BY <2>1, WriterFields DEF Started
  <2>3. Agrees(c, w, n + 1)
    BY WriterFields DEF Agrees, Opened
  <2>. QED
    BY <1>1, <2>1, <2>2, <2>3, PathEmpty, SilentPieces DEF EncodeSignature, Encoded
<1>2. CASE w.block \in {"none", "thinking"}
  <2>. QED
    BY <1>2, ThinkingAgrees DEF EncodeSignature
<1>. QED
  BY <1>1, <1>2

(* A ping fits any message that was begun. *)
LEMMA HeartbeatAgrees ==
  ASSUME NEW c, NEW w, NEW n, Agrees(c, w, n)
  PROVE  /\ \E d \in Messages : /\ Path(c, EncodeHeartbeat(w).frames, d)
                                /\ Agrees(d, EncodeHeartbeat(w).w, n)
         /\ Silent(EncodeHeartbeat(w).frames) /\ EncodeHeartbeat(w).frames # <<>>
<1>1. PICK d \in Messages : Path(c, StartFrame(w), d) /\ Agrees(d, Started(w), n)
  BY StartPiece
<1>. DEFINE f == Mark("ping")
<1>2. f \in Frames /\ f.type = "ping" /\ f.kind = "none"
  BY FrameTypes DEF Mark, WireFrame, Frames
<1>. HIDE DEF f
<1>3. d.phase = "open"
  BY <1>1 DEF Agrees, Started, Writers
<1>4. Path(d, <<f>>, d)
  <2>1. Fits(d, f)
    BY <1>2, <1>3 DEF Fits
  <2>2. ~Misplaced(d, f) /\ Path(d, <<f>>, After(d, f))
    BY <1>2, <2>1, AfterFits, PathOne
  <2>3. After(d, f) = d
    BY <1>2, <2>2, MessageFields DEF After, OpensTool
  <2>. QED
    BY <2>2, <2>3
<1>5. StartFrame(w) \in Seq(Frames)
  BY <1>1 DEF Path
<1>6. Append(StartFrame(w), f) = StartFrame(w) \o <<f>>
  BY <1>2, <1>5
<1>7. Path(c, StartFrame(w) \o <<f>>, d)
  BY <1>1, <1>4, PathConcat
<1>8. Silent(StartFrame(w) \o <<f>>)
  <2>1. Silent(StartFrame(w)) /\ Silent(<<f>>)
    BY SilentPieces DEF f
  <2>2. <<f>> \in Seq(Frames)
    BY <1>2
  <2>. QED
    BY <1>5, <2>1, <2>2, SilentConcat
<1>9. Append(StartFrame(w), f) # <<>>
  <2>. DEFINE s == StartFrame(w)
  <2>1. Len(Append(s, f)) = Len(s) + 1 /\ Len(s) \in Nat
    BY <1>2, <1>5
  <2>2. Len(<<>>) = 0
    OBVIOUS
  <2>. HIDE DEF s
  <2>. QED
    BY <2>1, <2>2 DEF s
<1>. QED
  BY <1>1, <1>6, <1>7, <1>8, <1>9 DEF EncodeHeartbeat, Encoded, f

(* A block that starts takes an index of its own. *)
LEMMA ToolPiece ==
  ASSUME NEW c, NEW w, NEW n, Agrees(c, w, n), w.started, w.block = "none", n <= 2 * MaxCursorEvents,
         NEW t \in Tools, t \notin DOMAIN w.blocks
  PROVE  LET kind == IF t \in ServerTools THEN "server" ELSE "tool"
             f == BlockStart(w.index, kind, t)
         IN  \E d \in Messages : Path(c, <<f>>, d) /\ Agrees(d, Begun(w, t), n + 1)
<1>. DEFINE kind == IF t \in ServerTools THEN "server" ELSE "tool"
            f == BlockStart(w.index, kind, t)
            b == [s \in DOMAIN w.blocks \union {t} |-> IF s = t THEN w.index ELSE w.blocks[s]]
            v == Begun(w, t)
            d == After(c, f)
<1>1. c \in Messages /\ w \in Writers /\ w.index \in Nat /\ w.blocks \in Blocks /\ c.phase = "open"
  BY WriterFields DEF Agrees
<1>2. c.open \in SUBSET Nat /\ c.used \in SUBSET Nat /\ c.owed \in SUBSET ServerTools
  BY <1>1, MessageFields
<1>3. /\ w.index \notin c.used /\ w.index + 0 <= n /\ n \in Nat /\ c.open \subseteq c.used
      /\ \A i \in c.used : i < w.index
  BY <1>1, <1>2 DEF Agrees, Opened
<1>4. w.index \in Indices
  BY <1>1, <1>3, ClaudeAssumption DEF Indices
<1>5. f \in Frames /\ f.type = "start" /\ f.kind = kind /\ f.index = w.index /\ f.id = t
  BY <1>1, FrameTypes DEF BlockStart, WireFrame, Frames
<1>. HIDE DEF f
<1>6. Fits(c, f)
  BY <1>1, <1>3, <1>4, <1>5 DEF Fits
<1>7. Path(c, <<f>>, d) /\ d \in Messages /\ ~Misplaced(c, f)
  BY <1>1, <1>5, <1>6, AfterFits, PathOne
<1>8. /\ d.phase = "open" /\ d.open = c.open \union {w.index} /\ d.used = c.used \union {w.index}
      /\ d.owed = IF t \in ServerTools THEN c.owed \union {t} ELSE c.owed
  BY <1>1, <1>5, <1>7 DEF After, OpensTool
<1>. HIDE DEF d
<1>9. b \in Blocks
  <2>1. DOMAIN w.blocks \subseteq Tools /\ \A s \in DOMAIN w.blocks : w.blocks[s] \in Nat
    BY <1>1, BlocksOf
  <2>2. DOMAIN b \subseteq Tools /\ b = [s \in DOMAIN b |-> b[s]] /\ \A s \in DOMAIN b : b[s] \in Nat
    BY <1>1, <2>1
  <2>. QED
    BY <2>2, BlocksOf
<1>. DEFINE x == [w EXCEPT !.index = @ + 1, !.blocks = b]
<1>10. v = x
  BY DEF Begun
<1>11. /\ v \in Writers /\ v.started = w.started /\ v.block = "none" /\ v.index = w.index + 1
       /\ v.blocks = b
  <2>1. w.index + 1 \in Nat
    BY <1>1
  <2>. HIDE DEF b
  <2>2. /\ x \in Writers /\ x.started = w.started /\ x.block = "none" /\ x.index = w.index + 1
        /\ x.blocks = b
    BY <1>1, <1>9, <2>1 DEF Writers
  <2>. QED
    BY <1>10, <2>2
<1>12. SameBlocks(d, b)
  <2>1. /\ DOMAIN b = DOMAIN w.blocks \union {t} /\ b[t] = w.index
        /\ \A s \in DOMAIN w.blocks : b[s] = w.blocks[s] /\ s # t
    OBVIOUS
  <2>2. /\ \A s \in DOMAIN w.blocks : w.blocks[s] \in c.open
        /\ \A i \in c.open : i \in Indices /\ \E s \in DOMAIN w.blocks : i = w.blocks[s]
        /\ \A r, s \in DOMAIN w.blocks : w.blocks[r] = w.blocks[s] => r = s
        /\ c.owed = DOMAIN w.blocks \intersect ServerTools
    BY DEF Agrees, SameBlocks
  <2>. HIDE DEF b
  <2>3. \A s \in DOMAIN b : b[s] \in d.open
    BY <1>8, <2>1, <2>2
  <2>4. \A i \in d.open : i \in Indices /\ \E s \in DOMAIN b : i = b[s]
    BY <1>4, <1>8, <2>1, <2>2
  <2>5. \A r, s \in DOMAIN b : b[r] = b[s] => r = s
    BY <1>3, <2>1, <2>2
  <2>6. d.owed = DOMAIN b \intersect ServerTools
    BY <1>8, <2>1, <2>2
  <2>. QED
    BY <2>3, <2>4, <2>5, <2>6 DEF SameBlocks
<1>13. Opened(v) = 0
  BY <1>11 DEF Opened
<1>14. (\A i \in d.used : i < w.index + 1) /\ w.index + 1 + 0 <= n + 1 /\ n + 1 \in Nat
  BY <1>1, <1>2, <1>3, <1>8
<1>15. d.open \subseteq d.used
  BY <1>3, <1>8
<1>. HIDE DEF v, b, x
<1>16. Agrees(d, v, n + 1)
  BY <1>7, <1>8, <1>11, <1>12, <1>13, <1>14, <1>15 DEF Agrees
<1>. QED
  BY <1>7, <1>16 DEF v, f

(* EncodeToolStarted announces a block once, or writes nothing. *)
LEMMA ToolStartedAgrees ==
  ASSUME NEW c, NEW w, NEW n, Agrees(c, w, n), n <= 2 * MaxCursorEvents, NEW t \in Tools
  PROVE  LET e == EncodeToolStarted(w, IF t \in ServerTools THEN "server" ELSE "tool", t)
         IN  /\ \E d \in Messages : Path(c, e.frames, d) /\ Agrees(d, e.w, n + 1)
             /\ Silent(e.frames)
<1>. DEFINE kind == IF t \in ServerTools THEN "server" ELSE "tool"
            u == BlockClosed(w)
            w1 == Started(u)
<1>1. c \in Messages /\ w \in Writers /\ u \in Writers
  BY ClosePiece DEF Agrees
<1>2. w1 \in Writers /\ w1.started /\ w1.block = u.block /\ w1.index = u.index /\ w1.blocks = u.blocks
  BY <1>1 DEF Started, Writers
<1>3. u.block = "none" /\ u.blocks = w.blocks /\ u.started = w.started
  BY ClosePiece
<1>4. CASE Announced(w, t)
  <2>1. w.started
    BY <1>4 DEF Announced, Agrees
  <2>2. w1 = u
    BY <1>1, <1>3, <2>1, WriterFields DEF Started
  <2>3. Agrees(c, u, n)
    BY ClosePiece
  <2>4. Agrees(c, u, n + 1)
    BY <1>1, <2>3, WriterFields DEF Agrees, Opened
  <2>. QED
    BY <1>1, <1>4, <2>2, <2>4, PathEmpty, SilentPieces DEF EncodeToolStarted, Encoded
<1>5. CASE ~Announced(w, t)
  <2>. DEFINE A == StartFrame(w)
              B == CloseCurrentBlock(w)
              f == BlockStart(w1.index, kind, t)
              v == Begun(w1, t)
  <2>1. PICK d \in Messages : Path(c, A, d) /\ Agrees(d, Started(w), n)
    BY StartPiece
  <2>2. /\ Started(w) \in Writers /\ Started(w).block = w.block /\ Started(w).index = w.index
    BY <1>1 DEF Started, Writers
  <2>3. CloseCurrentBlock(Started(w)) = B /\ BlockClosed(Started(w)) = w1
    BY <1>1, <2>2 DEF CloseCurrentBlock, BlockClosed, Started, Writers
  <2>4. Path(d, B, d) /\ Agrees(d, w1, n)
    BY <2>1, <2>3, ClosePiece
  <2>5. t \notin DOMAIN w1.blocks
    BY <1>2, <1>3, <1>5 DEF Announced
  <2>. HIDE DEF w1, A, B
  <2>6. PICK e \in Messages : Path(d, <<BlockStart(w1.index, kind, t)>>, e) /\ Agrees(e, v, n + 1)
    BY <1>2, <1>3, <2>4, <2>5, ToolPiece
  <2>7. Path(d, <<f>>, e)
    BY <2>6
  <2>. HIDE DEF f
  <2>8. Path(c, (A \o B) \o <<f>>, e)
    BY <2>1, <2>4, <2>7, PathConcat
  <2>9. EncodeToolStarted(w, kind, t) = [w |-> v, frames |-> (A \o B) \o <<f>>]
    BY <1>5 DEF EncodeToolStarted, Encoded, A, B, f, w1
  <2>. HIDE DEF v, kind
  <2>10. /\ EncodeToolStarted(w, kind, t).w = v
         /\ EncodeToolStarted(w, kind, t).frames = (A \o B) \o <<f>>
    BY <2>9
  <2>11. \E x \in Messages : /\ Path(c, EncodeToolStarted(w, kind, t).frames, x)
                             /\ Agrees(x, EncodeToolStarted(w, kind, t).w, n + 1)
    BY <2>6, <2>8, <2>10
  <2>12. Silent((A \o B) \o <<f>>)
    <3>1. A \in Seq(Frames) /\ B \in Seq(Frames) /\ <<f>> \in Seq(Frames)
      BY <2>1, <2>4, <2>7 DEF Path
    <3>2. Silent(A) /\ Silent(B) /\ Silent(<<f>>)
      BY SilentPieces DEF A, B, f
    <3>. QED
      BY <3>1, <3>2, SilentConcat
  <2>. QED
    BY <2>10, <2>11, <2>12 DEF kind
<1>. QED
  BY <1>4, <1>5

(* Stops and results, frame by frame. *)
LEMMA StopFits ==
  ASSUME NEW c \in Messages, NEW i \in Nat, c.phase = "open",
         i \notin c.used \/ i \in c.open \intersect Indices
  PROVE  /\ BlockStop(i) \in Frames /\ Fits(c, BlockStop(i))
         /\ After(c, BlockStop(i)) = [c EXCEPT !.open = @ \ {i}]
<1>. DEFINE f == BlockStop(i)
<1>1. f \in Frames /\ f.type = "stop" /\ f.index = i /\ f.kind = "none"
  BY FrameTypes DEF BlockStop, WireFrame, Frames
<1>. HIDE DEF f
<1>2. Fits(c, f)
  BY <1>1 DEF Fits
<1>3. ~Misplaced(c, f)
  BY <1>1, <1>2, AfterFits
<1>4. After(c, f) = [c EXCEPT !.open = @ \ {i}]
  <2>1. After(c, f) = [phase |-> c.phase, open |-> c.open \ {i}, used |-> c.used, owed |-> c.owed]
    BY <1>1, <1>3 DEF After, OpensTool
  <2>. QED
    BY <2>1, MessageFields
<1>. QED
  BY <1>1, <1>2, <1>4 DEF f

(* A result starts at an index no tool block has, and pays what is owed. *)
LEMMA ResultFits ==
  ASSUME NEW c \in Messages, NEW i \in Nat, c.phase = "open", i \notin c.used,
         NEW t \in ServerTools
  PROVE  LET f == BlockStart(i, "result", t)
         IN  f \in Frames /\ Fits(c, f) /\ After(c, f) = [c EXCEPT !.owed = @ \ {t}]
<1>. DEFINE f == BlockStart(i, "result", t)
<1>1. f \in Frames /\ f.type = "start" /\ f.index = i /\ f.kind = "result" /\ f.id = t
  BY FrameTypes DEF BlockStart, WireFrame, Frames, Tools
<1>. HIDE DEF f
<1>2. Fits(c, f)
  BY <1>1 DEF Fits
<1>3. ~Misplaced(c, f)
  BY <1>1, <1>2, AfterFits
<1>4. After(c, f) = [c EXCEPT !.owed = @ \ {t}]
  <2>1. ~OpensTool(f)
    BY <1>1 DEF OpensTool
  <2>2. After(c, f) = [phase |-> c.phase, open |-> c.open, used |-> c.used, owed |-> c.owed \ {t}]
    BY <1>1, <1>3, <2>1 DEF After
  <2>3. [c EXCEPT !.owed = @ \ {t}]
          = [phase |-> c.phase, open |-> c.open, used |-> c.used, owed |-> c.owed \ {t}]
    BY DEF Messages
  <2>. QED
    BY <2>2, <2>3
<1>. QED
  BY <1>1, <1>2, <1>4 DEF f

(* A result block is stopped as soon as it has started. *)
LEMMA ResultPiece ==
  ASSUME NEW c \in Messages, NEW i \in Nat, c.phase = "open", i \notin c.used,
         c.open \subseteq c.used, NEW t \in ServerTools
  PROVE  LET d == [c EXCEPT !.owed = @ \ {t}]
         IN  d \in Messages /\ Path(c, <<BlockStart(i, "result", t), BlockStop(i)>>, d)
<1>. DEFINE d == [c EXCEPT !.owed = @ \ {t}]
            f == BlockStart(i, "result", t)
            g == BlockStop(i)
<1>1. f \in Frames /\ Fits(c, f) /\ After(c, f) = d
  BY ResultFits
<1>2. d \in Messages /\ d.phase = "open" /\ d.used = c.used /\ d.open = c.open
  BY DEF Messages
<1>. HIDE DEF d, f
<1>3. g \in Frames /\ Fits(d, g) /\ After(d, g) = [d EXCEPT !.open = @ \ {i}]
  BY <1>2, StopFits
<1>4. [d EXCEPT !.open = @ \ {i}] = d
  BY <1>2, MessageFields
<1>. HIDE DEF g
<1>5. Path(c, <<f, g>>, d)
  BY <1>1, <1>2, <1>3, <1>4, PathTwo
<1>. QED
  BY <1>2, <1>5 DEF d, f, g

(* The indices of the blocks of the tools in S. *)
Places(w, S) == {w.blocks[t] : t \in DOMAIN w.blocks \intersect S}

(* Blocks are forgotten together with the places the message keeps them in. *)
LEMMA ForgetBlocks ==
  ASSUME NEW c, NEW d, NEW w, NEW n, NEW S, Agrees(c, w, n),
         d \in Messages, d.phase = c.phase, d.used = c.used, d.owed = c.owed \ S,
         d.open = c.open \ Places(w, S)
  PROVE  /\ Agrees(d, Without(w, S), n)
         /\ Without(w, S).started = w.started /\ Without(w, S).block = w.block /\ Without(w, S).index = w.index
         /\ DOMAIN Without(w, S).blocks = DOMAIN w.blocks \ S
<1>. DEFINE b == [t \in DOMAIN w.blocks \ S |-> w.blocks[t]]
            x == [w EXCEPT !.blocks = b]
<1>1. w \in Writers /\ w.blocks \in Blocks
  BY WriterFields DEF Agrees
<1>2. Without(w, S) = x
  BY DEF Without
<1>3. DOMAIN b = DOMAIN w.blocks \ S /\ \A t \in DOMAIN b : b[t] = w.blocks[t]
  OBVIOUS
<1>4. b \in Blocks
  <2>1. DOMAIN w.blocks \subseteq Tools /\ \A t \in DOMAIN w.blocks : w.blocks[t] \in Nat
    BY <1>1, BlocksOf
  <2>2. DOMAIN b \subseteq Tools /\ b = [t \in DOMAIN b |-> b[t]] /\ \A t \in DOMAIN b : b[t] \in Nat
    BY <2>1
  <2>. QED
    BY <2>2, BlocksOf
<1>. HIDE DEF b
<1>5. /\ x \in Writers /\ x.started = w.started /\ x.block = w.block /\ x.index = w.index
      /\ x.blocks = b
  BY <1>1, <1>4 DEF Writers
<1>. HIDE DEF x
<1>6. SameBlocks(d, b)
  <2>1. /\ \A t \in DOMAIN w.blocks : w.blocks[t] \in c.open
        /\ \A i \in c.open : i \in Indices /\ \E t \in DOMAIN w.blocks : i = w.blocks[t]
        /\ \A s, t \in DOMAIN w.blocks : w.blocks[s] = w.blocks[t] => s = t
        /\ c.owed = DOMAIN w.blocks \intersect ServerTools
    BY DEF Agrees, SameBlocks
  <2>2. \A t \in DOMAIN b : b[t] \in d.open
    BY <1>3, <2>1 DEF Places
  <2>3. \A i \in d.open : i \in Indices /\ \E t \in DOMAIN b : i = b[t]
    BY <1>3, <2>1 DEF Places
  <2>4. \A s, t \in DOMAIN b : b[s] = b[t] => s = t
    BY <1>3, <2>1
  <2>5. d.owed = DOMAIN b \intersect ServerTools
    BY <1>3, <2>1
  <2>. QED
    BY <2>2, <2>3, <2>4, <2>5 DEF SameBlocks
<1>7. d.open \subseteq d.used
  BY DEF Agrees
<1>8. Opened(x) = Opened(w)
  BY <1>5 DEF Opened
<1>9. ~x.started => x.block = "none" /\ DOMAIN b = {}
  BY <1>3, <1>5 DEF Agrees
<1>10. Agrees(d, x, n)
  BY <1>5, <1>6, <1>7, <1>8, <1>9 DEF Agrees
<1>. QED
  BY <1>2, <1>3, <1>5, <1>10

(* One tool has one block at most. *)
LEMMA OneBlock ==
  ASSUME NEW w, NEW t
  PROVE  /\ t \in DOMAIN w.blocks => Places(w, {t}) = {w.blocks[t]}
         /\ t \notin DOMAIN w.blocks => Places(w, {t}) = {}
BY DEF Places

(* EncodeToolCompleted stops the block it forgets, if there is one. *)
LEMMA ToolCompletedAgrees ==
  ASSUME NEW c, NEW w, NEW n, Agrees(c, w, n), NEW t \in ClientTools
  PROVE  /\ \E d \in Messages : /\ Path(c, EncodeToolCompleted(w, t).frames, d)
                                /\ Agrees(d, EncodeToolCompleted(w, t).w, n)
         /\ Silent(EncodeToolCompleted(w, t).frames)
<1>1. c \in Messages /\ w \in Writers
  BY DEF Agrees
<1>2. CASE ~Announced(w, t)
  BY <1>1, <1>2, PathEmpty, SilentPieces DEF EncodeToolCompleted, Encoded
<1>3. CASE Announced(w, t)
  <2>. DEFINE i == w.blocks[t]
              d == [c EXCEPT !.open = @ \ {i}]
  <2>1. t \in DOMAIN w.blocks /\ w.started /\ c.phase = "open"
    BY <1>1, <1>3 DEF Announced, Agrees
  <2>2. i \in c.open \intersect Indices /\ i \in Nat
    BY <1>1, <2>1, MessageFields DEF Agrees, SameBlocks
  <2>3. BlockStop(i) \in Frames /\ Fits(c, BlockStop(i)) /\ After(c, BlockStop(i)) = d
    BY <1>1, <2>1, <2>2, StopFits
  <2>4. Path(c, <<BlockStop(i)>>, d)
    BY <1>1, <2>3, PathOne
  <2>5. /\ d \in Messages /\ d.phase = "open" /\ d.used = c.used /\ d.owed = c.owed
        /\ d.open = c.open \ {i}
    BY <1>1, <2>1 DEF Messages
  <2>6. c.owed = c.owed \ {t}
    BY <1>1, MessageFields, ClaudeAssumption
  <2>7. d.open = c.open \ Places(w, {t})
    BY <2>1, <2>5, OneBlock
  <2>. HIDE DEF d
  <2>8. Agrees(d, Forgotten(w, t), n)
    BY <2>1, <2>5, <2>6, <2>7, ForgetBlocks DEF Forgotten
  <2>. QED
    BY <1>3, <2>4, <2>5, <2>8, SilentPieces DEF EncodeToolCompleted, Encoded
<1>. QED
  BY <1>2, <1>3

(* EncodeToolResult stops the announcement and answers it. *)
LEMMA ToolResultAgrees ==
  ASSUME NEW c, NEW w, NEW n, Agrees(c, w, n), NEW t \in ServerTools
  PROVE  /\ \E d \in Messages : /\ Path(c, EncodeToolResult(w, t).frames, d)
                                /\ Agrees(d, EncodeToolResult(w, t).w, n + 1)
         /\ Silent(EncodeToolResult(w, t).frames)
<1>. DEFINE A == StartFrame(w)
            B == IF Announced(w, t) THEN <<BlockStop(w.blocks[t])>> ELSE <<>>
            C == <<BlockStart(w.index, "result", t), BlockStop(w.index)>>
            u == Started(w)
            v == Forgotten(u, t)
            x == [v EXCEPT !.index = @ + 1]
<1>1. PICK d \in Messages : Path(c, A, d) /\ Agrees(d, u, n)
  BY StartPiece
<1>2. w \in Writers /\ w.index \in Nat /\ n \in Nat
  BY WriterFields DEF Agrees
<1>3. u \in Writers /\ u.started /\ u.block = w.block /\ u.index = w.index /\ u.blocks = w.blocks
  BY <1>2 DEF Started, Writers
<1>4. /\ d.phase = "open" /\ d.open \subseteq d.used /\ w.index \notin d.used
      /\ d.owed = DOMAIN w.blocks \intersect ServerTools
  BY <1>1, <1>2, <1>3, MessageFields DEF Agrees, SameBlocks
<1>. DEFINE e == IF Announced(w, t) THEN [d EXCEPT !.open = @ \ {w.blocks[t]}] ELSE d
            g == [e EXCEPT !.owed = @ \ {t}]
<1>5. /\ e \in Messages /\ e.phase = "open" /\ e.used = d.used /\ e.owed = d.owed
      /\ e.open = d.open \ Places(w, {t})
      /\ Path(d, B, e)
  <2>1. CASE ~Announced(w, t)
    <3>1. Places(w, {t}) = {}
      BY <2>1, OneBlock DEF Announced
    <3>. QED
      BY <1>4, <2>1, <3>1, PathEmpty
  <2>2. CASE Announced(w, t)
    <3>. DEFINE i == w.blocks[t]
                h == [d EXCEPT !.open = @ \ {i}]
    <3>1. t \in DOMAIN w.blocks /\ i \in d.open \intersect Indices /\ i \in Nat
      BY <1>1, <1>3, <2>2, MessageFields DEF Announced, Agrees, SameBlocks
    <3>2. BlockStop(i) \in Frames /\ Fits(d, BlockStop(i)) /\ After(d, BlockStop(i)) = h
      BY <1>4, <3>1, StopFits
    <3>3. Path(d, <<BlockStop(i)>>, h)
      BY <3>2, PathOne
    <3>4. h \in Messages /\ h.phase = "open" /\ h.used = d.used /\ h.owed = d.owed /\ h.open = d.open \ {i}
      BY <1>4 DEF Messages
    <3>. QED
      BY <2>2, <3>1, <3>3, <3>4, OneBlock
  <2>. QED
    BY <2>1, <2>2
<1>. HIDE DEF e, B
<1>6. g \in Messages /\ Path(e, C, g)
  <2>1. w.index \notin e.used /\ e.open \subseteq e.used
    BY <1>4, <1>5
  <2>. QED
    BY <1>2, <1>5, <2>1, ResultPiece
<1>7. g.phase = "open" /\ g.used = d.used /\ g.owed = d.owed \ {t} /\ g.open = e.open
  BY <1>5 DEF Messages
<1>8. g.open = d.open \ Places(u, {t})
  BY <1>3, <1>5, <1>7 DEF Places
<1>. HIDE DEF g, C, u, A
<1>9. /\ Agrees(g, v, n) /\ v.started /\ v.block = u.block /\ v.index = w.index
  <2>1. /\ Agrees(g, Without(u, {t}), n) /\ Without(u, {t}).started
        /\ Without(u, {t}).block = u.block /\ Without(u, {t}).index = u.index
    <3>1. Agrees(d, u, n) /\ u.started /\ d.phase = "open"
      BY <1>1, <1>3, <1>4
    <3>2. g \in Messages /\ g.phase = d.phase /\ g.used = d.used /\ g.owed = d.owed \ {t}
      BY <1>4, <1>6, <1>7
    <3>3. Agrees(d, u, n)
      BY <3>1
    <3>4. \A S : g.owed = d.owed \ S /\ g.open = d.open \ Places(u, S) =>
            /\ Agrees(g, Without(u, S), n) /\ Without(u, S).started = u.started
            /\ Without(u, S).block = u.block /\ Without(u, S).index = u.index
      BY <3>2, <3>3, ForgetBlocks
    <3>5. /\ Agrees(g, Without(u, {t}), n) /\ Without(u, {t}).started = u.started
          /\ Without(u, {t}).block = u.block /\ Without(u, {t}).index = u.index
      BY <1>8, <3>2, <3>4
    <3>. QED
      BY <3>1, <3>5
  <2>. QED
    BY <1>3, <2>1 DEF Forgotten
<1>10. v = Started(Forgotten(w, t))
  BY <1>2 DEF u, Started, Forgotten, Without, Writers
<1>. HIDE DEF v
<1>11. v \in Writers
  BY <1>9 DEF Agrees
<1>12. /\ x \in Writers /\ x.started /\ x.block = v.block /\ x.index = w.index + 1
       /\ x.blocks = v.blocks
  BY <1>2, <1>9, <1>11 DEF Writers
<1>. HIDE DEF x
<1>13. Opened(x) = Opened(v) /\ Opened(v) \in {0, 1}
  BY <1>12 DEF Opened
<1>14. \A i \in g.used : i < x.index
  BY <1>1, <1>2, <1>3, <1>7, <1>12, MessageFields DEF Agrees
<1>15. Agrees(g, x, n + 1)
  BY <1>2, <1>9, <1>12, <1>13, <1>14 DEF Agrees
<1>16. Path(c, (A \o B) \o C, g)
  BY <1>1, <1>5, <1>6, PathConcat
<1>17. EncodeToolResult(w, t) = [w |-> x, frames |-> (A \o B) \o C]
  BY <1>10 DEF EncodeToolResult, Encoded, A, B, C, x
<1>18. Silent((A \o B) \o C)
  <2>1. A \in Seq(Frames) /\ B \in Seq(Frames) /\ C \in Seq(Frames)
    BY <1>1, <1>5, <1>6 DEF Path
  <2>2. Silent(A) /\ Silent(B) /\ Silent(C)
    BY SilentPieces DEF A, B, C
  <2>. QED
    BY <2>1, <2>2, SilentConcat
<1>. QED
  BY <1>6, <1>15, <1>16, <1>17, <1>18

(***************************************************************************)
(* The end of the turn: what is open is closed, what is owed is answered.  *)
(***************************************************************************)
LEMMA Listed ==
  ASSUME NEW S, IsFiniteSet(S)
  PROVE  /\ SetToSeq(S) \in Seq(S)
         /\ \A j, k \in 1 .. Len(SetToSeq(S)) : SetToSeq(S)[j] = SetToSeq(S)[k] => j = k
         /\ \A t \in S : \E j \in 1 .. Len(SetToSeq(S)) : SetToSeq(S)[j] = t
<1>. DEFINE n == Cardinality(S)
            f == SetToSeq(S)
<1>1. n \in Nat /\ ExistsBijection(1 .. n, S)
  BY FS_CardinalityType
<1>2. \E g \in [1 .. n -> S] : IsInjective(g)
  BY <1>1 DEF ExistsBijection, Bijection, Injection
<1>3. f \in [1 .. n -> S] /\ IsInjective(f)
  BY <1>2 DEF SetToSeq
<1>4. IsFiniteSet(1 .. n) /\ Cardinality(1 .. n) = n
  BY <1>1, FS_Interval
<1>5. f \in Injection(1 .. n, S)
  BY <1>3 DEF Injection
<1>. HIDE DEF f
<1>6. f \in Surjection(1 .. n, S)
  BY <1>4, <1>5, FS_Injection
<1>7. f \in Seq(S) /\ Len(f) = n
  BY <1>1, <1>3
<1>8. \A t \in S : \E j \in 1 .. n : f[j] = t
  BY <1>6 DEF Surjection
<1>9. \A j, k \in 1 .. n : f[j] = f[k] => j = k
  BY <1>3 DEF IsInjective
<1>. QED
  BY <1>7, <1>8, <1>9 DEF f

(* The blocks a writer knows are finitely many: each has an index. *)
LEMMA FiniteBlocks ==
  ASSUME NEW c, NEW w, NEW n, Agrees(c, w, n), NEW S
  PROVE  IsFiniteSet(DOMAIN w.blocks \intersect S)
<1>. DEFINE D == DOMAIN w.blocks
<1>1. w.index \in Nat /\ w.blocks \in Blocks
  BY WriterFields DEF Agrees
<1>2. c.used \in SUBSET Nat /\ c.open \subseteq c.used /\ \A i \in c.used : i < w.index
  BY MessageFields DEF Agrees
<1>3. \A t \in D : w.blocks[t] \in 0 .. w.index
  BY <1>1, <1>2 DEF Agrees, SameBlocks
<1>4. w.blocks \in [D -> 0 .. w.index]
  BY <1>1, <1>3, BlocksOf
<1>5. IsInjective(w.blocks)
  BY DEF Agrees, SameBlocks, IsInjective
<1>6. IsFiniteSet(0 .. w.index)
  BY <1>1, FS_Interval
<1>7. w.blocks \in Injection(D, 0 .. w.index)
  BY <1>4, <1>5 DEF Injection
<1>8. IsFiniteSet(D)
  BY <1>6, <1>7, FS_Injection
<1>. QED
  BY <1>8, FS_Subset

(* The blocks of the client's tools are stopped, each once. *)
LEMMA ToolBlocksAgree ==
  ASSUME NEW c, NEW w, NEW n, Agrees(c, w, n)
  PROVE  /\ \E d \in Messages : /\ Path(c, CloseToolBlocks(w).frames, d)
                                /\ Agrees(d, CloseToolBlocks(w).w, n)
         /\ Silent(CloseToolBlocks(w).frames)
<1>. DEFINE S == DOMAIN w.blocks \intersect ClientTools
            order == SetToSeq(S)
            m == Len(order)
            s == [j \in 1 .. m |-> BlockStop(w.blocks[order[j]])]
            Done(j) == {w.blocks[order[i]] : i \in 1 .. j}
            At(j) == [c EXCEPT !.open = @ \ Done(j)]
            run == [j \in 0 .. m |-> At(j)]
<1>1. c \in Messages /\ w \in Writers
  BY DEF Agrees
<1>2. IsFiniteSet(S)
  BY FiniteBlocks
<1>3. /\ order \in Seq(S)
      /\ \A j, k \in 1 .. m : order[j] = order[k] => j = k
      /\ \A t \in S : \E j \in 1 .. m : order[j] = t
  BY <1>2, Listed
<1>. HIDE DEF order
<1>4. m \in Nat /\ \A j \in 1 .. m : order[j] \in DOMAIN w.blocks /\ order[j] \in ClientTools
  BY <1>3
<1>5. \A j \in 0 .. m : /\ At(j) \in Messages /\ At(j).phase = c.phase /\ At(j).used = c.used
                        /\ At(j).owed = c.owed /\ At(j).open = c.open \ Done(j)
  BY <1>1 DEF Messages
<1>6. ASSUME NEW j \in 1 .. m
      PROVE  /\ BlockStop(w.blocks[order[j]]) \in Frames
             /\ Fits(At(j - 1), BlockStop(w.blocks[order[j]]))
             /\ At(j) = After(At(j - 1), BlockStop(w.blocks[order[j]]))
  <2>. DEFINE i == w.blocks[order[j]]
              b == At(j - 1)
  <2>1. j - 1 \in 0 .. m /\ j \in 0 .. m
    BY <1>4
  <2>2. i \in c.open /\ i \in Indices /\ i \in Nat /\ c.phase = "open"
    BY <1>1, <1>4, MessageFields DEF Agrees, SameBlocks
  <2>3. i \notin Done(j - 1)
    <3>1. SUFFICES ASSUME NEW k \in 1 .. j - 1, w.blocks[order[k]] = i
                   PROVE  FALSE
      OBVIOUS
    <3>2. k \in 1 .. m /\ k # j
      BY <1>4
    <3>3. order[k] = order[j]
      BY <1>4, <3>1, <3>2 DEF Agrees, SameBlocks
    <3>. QED
      BY <1>3, <3>2, <3>3
  <2>4. b \in Messages /\ b.phase = "open" /\ b.open = c.open \ Done(j - 1)
    BY <1>5, <2>1, <2>2
  <2>5. Done(j) = Done(j - 1) \union {i}
    BY <1>4
  <2>6. [b EXCEPT !.open = @ \ {i}] = At(j)
    <3>1. (c.open \ Done(j - 1)) \ {i} = c.open \ Done(j)
      BY <2>5
    <3>. QED
      BY <1>1, <3>1 DEF Messages
  <2>. HIDE DEF b, Done, At, i
  <2>7. /\ BlockStop(i) \in Frames /\ Fits(b, BlockStop(i))
        /\ After(b, BlockStop(i)) = [b EXCEPT !.open = @ \ {i}]
    BY <2>2, <2>3, <2>4, StopFits
  <2>. QED
    BY <2>6, <2>7 DEF b, i
<1>7. Done(0) = {} /\ At(0) = c
  BY <1>1, MessageFields
<1>8. Done(m) = Places(w, ClientTools)
  <2>1. Places(w, ClientTools) = {w.blocks[t] : t \in S}
    BY DEF Places
  <2>2. \A i \in 1 .. m : order[i] \in S
    BY <1>3, <1>4
  <2>3. \A t \in S : \E i \in 1 .. m : order[i] = t
    BY <1>3
  <2>. HIDE DEF S, order, m
  <2>4. S = {order[i] : i \in 1 .. m}
    BY <2>2, <2>3
  <2>. QED
    BY <2>1, <2>4
<1>. HIDE DEF At, Done
<1>9. s \in Seq(Frames) /\ Len(s) = m /\ \A j \in 1 .. m : s[j] = BlockStop(w.blocks[order[j]])
  BY <1>4, <1>6
<1>. HIDE DEF s
<1>10. /\ run \in [0 .. m -> Messages] /\ run[0] = c /\ run[m] = At(m)
       /\ \A j \in 1 .. m : run[j] = At(j) /\ run[j - 1] = At(j - 1)
  BY <1>4, <1>5, <1>7
<1>. HIDE DEF run
<1>11. PathRun(c, s, At(m), run)
  BY <1>6, <1>9, <1>10 DEF PathRun
<1>12. Path(c, s, At(m))
  BY <1>9, <1>11 DEF Path
<1>13. c.owed = c.owed \ ClientTools
  BY <1>1, MessageFields, ClaudeAssumption
<1>14. Agrees(At(m), Without(w, ClientTools), n)
  <2>1. m \in 0 .. m
    BY <1>4
  <2>. QED
    BY <1>5, <1>8, <1>13, <2>1, ForgetBlocks
<1>15. CloseToolBlocks(w) = [w |-> Without(w, ClientTools), frames |-> s]
  BY DEF CloseToolBlocks, Encoded, s, order
<1>16. At(m) \in Messages
  BY <1>4, <1>5
<1>17. Silent(s)
  <2>1. \A i : BlockStop(i).text = <<>>
    BY DEF BlockStop, WireFrame
  <2>. QED
    BY <1>9, <2>1 DEF Silent
<1>. QED
  BY <1>12, <1>14, <1>15, <1>16, <1>17

(* Three frames answer each orphan. *)
LEMMA Threes ==
  ASSUME NEW k \in Nat, k >= 1
  PROVE  /\ (3 * k - 2 + 2) \div 3 = k /\ (3 * k - 2) % 3 = 1
         /\ (3 * k - 1 + 2) \div 3 = k /\ (3 * k - 1) % 3 = 2
         /\ (3 * k + 2) \div 3 = k /\ (3 * k) % 3 = 0
OBVIOUS

(* Every frame of the orphans is the first, second or third of one. *)
LEMMA InThrees ==
  ASSUME NEW n \in Nat, NEW j \in 1 .. 3 * n
  PROVE  \E k \in 1 .. n : j = 3 * k - 2 \/ j = 3 * k - 1 \/ j = 3 * k
<1>. DEFINE k == (j + 2) \div 3
<1>1. CASE j % 3 = 1
  <2>1. j = 3 * k - 2 /\ k \in 1 .. n
    BY <1>1
  <2>. QED
    BY <2>1
<1>2. CASE j % 3 = 2
  <2>1. j = 3 * k - 1 /\ k \in 1 .. n
    BY <1>2
  <2>. QED
    BY <2>1
<1>3. CASE j % 3 = 0
  <2>1. j = 3 * k /\ k \in 1 .. n
    BY <1>3
  <2>. QED
    BY <2>1
<1>. QED
  BY <1>1, <1>2, <1>3

(* Every server tool that was announced gets its result. *)
LEMMA OrphansPath ==
  ASSUME NEW c, NEW w, NEW n, Agrees(c, w, n)
  PROVE  /\ \E d \in Messages : /\ Path(c, CloseOrphans(w).frames, d) /\ d.phase = c.phase
                                /\ d.open = c.open \ Places(w, ServerTools) /\ d.owed = {}
         /\ Silent(CloseOrphans(w).frames)
<1>. DEFINE S == DOMAIN w.blocks \intersect ServerTools
            order == SetToSeq(S)
            m == Len(order)
            Part(j) == LET k == (j + 2) \div 3
                       IN  CASE j % 3 = 1 -> BlockStop(w.blocks[order[k]])
                             [] j % 3 = 2 -> BlockStart(w.index + k - 1, "result", order[k])
                             [] j % 3 = 0 -> BlockStop(w.index + k - 1)
            s == [j \in 1 .. 3 * m |-> Part(j)]
            Done(j) == {w.blocks[order[i]] : i \in 1 .. j}
            Told(j) == {order[i] : i \in 1 .. j}
            At(j, k) == [c EXCEPT !.open = @ \ Done(j), !.owed = @ \ Told(k)]
            run == [j \in 0 .. 3 * m |-> At((j + 2) \div 3, (j + 1) \div 3)]
<1>1. c \in Messages /\ w \in Writers /\ w.index \in Nat
  BY WriterFields DEF Agrees
<1>2. IsFiniteSet(S)
  BY FiniteBlocks
<1>3. /\ order \in Seq(S)
      /\ \A j, k \in 1 .. m : order[j] = order[k] => j = k
      /\ \A t \in S : \E j \in 1 .. m : order[j] = t
  BY <1>2, Listed
<1>. HIDE DEF order
<1>4. m \in Nat /\ \A j \in 1 .. m : order[j] \in DOMAIN w.blocks /\ order[j] \in ServerTools
  BY <1>3
<1>5. \A j, k \in 0 .. m : /\ At(j, k) \in Messages /\ At(j, k).phase = c.phase
                           /\ At(j, k).used = c.used /\ At(j, k).owed = c.owed \ Told(k)
                           /\ At(j, k).open = c.open \ Done(j)
  BY <1>1 DEF Messages
<1>6. ASSUME NEW k \in 1 .. m
      PROVE  /\ BlockStop(w.blocks[order[k]]) \in Frames
             /\ Fits(At(k - 1, k - 1), BlockStop(w.blocks[order[k]]))
             /\ At(k, k - 1) = After(At(k - 1, k - 1), BlockStop(w.blocks[order[k]]))
  <2>. DEFINE i == w.blocks[order[k]]
              b == At(k - 1, k - 1)
  <2>1. k - 1 \in 0 .. m /\ k \in 0 .. m
    BY <1>4
  <2>2. i \in c.open /\ i \in Indices /\ i \in Nat /\ c.phase = "open"
    BY <1>1, <1>4, MessageFields DEF Agrees, SameBlocks
  <2>3. i \notin Done(k - 1)
    <3>1. SUFFICES ASSUME NEW j \in 1 .. k - 1, w.blocks[order[j]] = i
                   PROVE  FALSE
      OBVIOUS
    <3>2. j \in 1 .. m /\ j # k
      BY <1>4
    <3>3. order[j] = order[k]
      BY <1>4, <3>1, <3>2 DEF Agrees, SameBlocks
    <3>. QED
      BY <1>3, <3>2, <3>3
  <2>4. b \in Messages /\ b.phase = "open" /\ b.open = c.open \ Done(k - 1)
    BY <1>5, <2>1, <2>2
  <2>5. Done(k) = Done(k - 1) \union {i}
    BY <1>4
  <2>6. [b EXCEPT !.open = @ \ {i}] = At(k, k - 1)
    <3>1. (c.open \ Done(k - 1)) \ {i} = c.open \ Done(k)
      BY <2>5
    <3>. HIDE DEF Done, Told, i
    <3>. QED
      BY <1>1, <3>1 DEF Messages
  <2>. HIDE DEF b, Done, Told, At, i
  <2>7. /\ BlockStop(i) \in Frames /\ Fits(b, BlockStop(i))
        /\ After(b, BlockStop(i)) = [b EXCEPT !.open = @ \ {i}]
    BY <2>2, <2>3, <2>4, StopFits
  <2>. QED
    BY <2>6, <2>7 DEF b, i
<1>7. ASSUME NEW k \in 1 .. m
      PROVE  LET i == w.index + k - 1
             IN  /\ BlockStart(i, "result", order[k]) \in Frames
                 /\ Fits(At(k, k - 1), BlockStart(i, "result", order[k]))
                 /\ At(k, k) = After(At(k, k - 1), BlockStart(i, "result", order[k]))
                 /\ BlockStop(i) \in Frames /\ Fits(At(k, k), BlockStop(i))
                 /\ At(k, k) = After(At(k, k), BlockStop(i))
  <2>. DEFINE i == w.index + k - 1
              b == At(k, k - 1)
              e == At(k, k)
              t == order[k]
  <2>1. k - 1 \in 0 .. m /\ k \in 0 .. m
    BY <1>4
  <2>2. i \in Nat /\ i \notin c.used /\ c.phase = "open" /\ t \in ServerTools /\ c.open \subseteq c.used
    <3>1. i \in Nat /\ i >= w.index
      BY <1>1, <1>4
    <3>2. c.used \in SUBSET Nat /\ \A j \in c.used : j < w.index
      BY <1>1, MessageFields DEF Agrees
    <3>3. c.phase = "open" /\ t \in ServerTools /\ c.open \subseteq c.used
      BY <1>4 DEF Agrees
    <3>. QED
      BY <1>1, <3>1, <3>2, <3>3
  <2>3. /\ b \in Messages /\ b.phase = "open" /\ b.used = c.used
        /\ e \in Messages /\ e.phase = "open" /\ e.used = c.used /\ e.open = c.open \ Done(k)
    BY <1>5, <2>1, <2>2
  <2>4. Told(k) = Told(k - 1) \union {t}
    BY <1>4
  <2>5. [b EXCEPT !.owed = @ \ {t}] = e
    <3>1. (c.owed \ Told(k - 1)) \ {t} = c.owed \ Told(k)
      BY <2>4
    <3>. HIDE DEF Done, Told, t
    <3>. QED
      BY <1>1, <3>1 DEF Messages
  <2>. HIDE DEF i, b, e, Done, Told, At, t
  <2>6. [e EXCEPT !.open = @ \ {i}] = e
    <3>1. e.open \ {i} = e.open
      BY <2>2, <2>3
    <3>. QED
      BY <2>3, <3>1, MessageFields
  <2>7. /\ BlockStart(i, "result", t) \in Frames /\ Fits(b, BlockStart(i, "result", t))
        /\ After(b, BlockStart(i, "result", t)) = e
    BY <2>2, <2>3, <2>5, ResultFits
  <2>8. BlockStop(i) \in Frames /\ Fits(e, BlockStop(i)) /\ After(e, BlockStop(i)) = e
    BY <2>2, <2>3, <2>6, StopFits
  <2>. QED
    BY <2>7, <2>8 DEF i, b, e, t
<1>8. At(0, 0) = c
  <2>1. c.open \ Done(0) = c.open /\ c.owed \ Told(0) = c.owed
    OBVIOUS
  <2>2. At(0, 0) = [c EXCEPT !.open = c.open, !.owed = c.owed]
    BY <2>1
  <2>3. [c EXCEPT !.open = c.open, !.owed = c.owed] = c
    BY <1>1 DEF Messages
  <2>. QED
    BY <2>2, <2>3
<1>9. Done(m) = Places(w, ServerTools) /\ Told(m) = S
  <2>1. Places(w, ServerTools) = {w.blocks[t] : t \in S}
    BY DEF Places
  <2>2. \A i \in 1 .. m : order[i] \in S
    BY <1>3, <1>4
  <2>3. \A t \in S : \E i \in 1 .. m : order[i] = t
    BY <1>3
  <2>. HIDE DEF S, order, m
  <2>4. S = Told(m)
    BY <2>2, <2>3
  <2>. QED
    BY <2>1, <2>4
<1>. DEFINE Middle(j) == At((j + 2) \div 3, (j + 1) \div 3)
<1>10. ASSUME NEW k \in Nat
       PROVE  /\ Middle(3 * k) = At(k, k)
              /\ k >= 1 => Middle(3 * k - 2) = At(k, k - 1) /\ Middle(3 * k - 1) = At(k, k)
  <2>1. (3 * k + 2) \div 3 = k /\ (3 * k + 1) \div 3 = k
    OBVIOUS
  <2>2. k >= 1 => /\ (3 * k - 2 + 2) \div 3 = k /\ (3 * k - 2 + 1) \div 3 = k - 1
                  /\ (3 * k - 1 + 2) \div 3 = k /\ (3 * k - 1 + 1) \div 3 = k
    OBVIOUS
  <2>. HIDE DEF At
  <2>. QED
    BY <2>1, <2>2
<1>11. ASSUME NEW k \in 1 .. m
       PROVE  /\ Part(3 * k - 2) = BlockStop(w.blocks[order[k]])
              /\ Part(3 * k - 1) = BlockStart(w.index + k - 1, "result", order[k])
              /\ Part(3 * k) = BlockStop(w.index + k - 1)
  <2>1. /\ (3 * k - 2 + 2) \div 3 = k /\ (3 * k - 2) % 3 = 1
        /\ (3 * k - 1 + 2) \div 3 = k /\ (3 * k - 1) % 3 = 2
        /\ (3 * k + 2) \div 3 = k /\ (3 * k) % 3 = 0
    BY <1>4, Threes
  <2>2. Part(3 * k - 2) = BlockStop(w.blocks[order[k]])
    <3>1. \A j : j % 3 = 1 => Part(j) = BlockStop(w.blocks[order[(j + 2) \div 3]])
      OBVIOUS
    <3>. HIDE DEF Part
    <3>. QED
      BY <2>1, <3>1
  <2>3. Part(3 * k - 1) = BlockStart(w.index + k - 1, "result", order[k])
    BY <2>1
  <2>4. Part(3 * k) = BlockStop(w.index + k - 1)
    BY <2>1
  <2>. QED
    BY <2>2, <2>3, <2>4
<1>12. \A j \in 0 .. 3 * m : (j + 2) \div 3 \in 0 .. m /\ (j + 1) \div 3 \in 0 .. m
  BY <1>4
<1>. HIDE DEF At, Done, Told, Part
<1>13. \A j \in 0 .. 3 * m : Middle(j) \in Messages
  BY <1>5, <1>12
<1>. HIDE DEF Run
<1>14. ASSUME NEW j \in 1 .. 3 * m
       PROVE  Part(j) \in Frames /\ Fits(Middle(j - 1), Part(j)) /\ Middle(j) = After(Middle(j - 1), Part(j))
  <2>1. PICK k \in 1 .. m : j = 3 * k - 2 \/ j = 3 * k - 1 \/ j = 3 * k
    BY <1>4, InThrees
  <2>2. k \in Nat /\ k >= 1 /\ k - 1 \in Nat /\ 3 * (k - 1) = 3 * k - 2 - 1
    BY <1>4
  <2>3. /\ Middle(3 * (k - 1)) = At(k - 1, k - 1) /\ Middle(3 * k - 2) = At(k, k - 1)
        /\ Middle(3 * k - 1) = At(k, k) /\ Middle(3 * k) = At(k, k)
    BY <1>10, <2>2
  <2>4. CASE j = 3 * k - 2
    <3>1. Middle(j - 1) = At(k - 1, k - 1) /\ Middle(j) = At(k, k - 1) /\ Part(j) = BlockStop(w.blocks[order[k]])
      BY <1>11, <2>2, <2>3, <2>4
    <3>. QED
      BY <1>6, <3>1
  <2>5. CASE j = 3 * k - 1
    <3>1. j - 1 = 3 * k - 2
      BY <2>2, <2>5
    <3>2. /\ Middle(j - 1) = At(k, k - 1) /\ Middle(j) = At(k, k)
          /\ Part(j) = BlockStart(w.index + k - 1, "result", order[k])
      BY <1>11, <2>3, <2>5, <3>1
    <3>. QED
      BY <1>7, <3>2
  <2>6. CASE j = 3 * k
    <3>1. j - 1 = 3 * k - 1
      BY <2>2, <2>6
    <3>2. Middle(j - 1) = At(k, k) /\ Middle(j) = At(k, k) /\ Part(j) = BlockStop(w.index + k - 1)
      BY <1>11, <2>3, <2>6, <3>1
    <3>. QED
      BY <1>7, <3>2
  <2>. QED
    BY <2>1, <2>4, <2>5, <2>6
<1>15. 3 * m \in Nat /\ s \in Seq(Frames) /\ Len(s) = 3 * m /\ \A j \in 1 .. 3 * m : s[j] = Part(j)
  BY <1>4, <1>14
<1>16. run = [j \in 0 .. 3 * m |-> Middle(j)]
  BY DEF Run
<1>. HIDE DEF s, run
<1>17. /\ run \in [0 .. 3 * m -> Messages]
       /\ \A j \in 0 .. 3 * m : run[j] = Middle(j)
  BY <1>13, <1>16
<1>18. run[0] = c /\ run[3 * m] = At(m, m)
  <2>1. Middle(3 * 0) = At(0, 0) /\ Middle(3 * m) = At(m, m)
    BY <1>4, <1>10
  <2>2. 3 * 0 = 0 /\ 0 \in 0 .. 3 * m /\ 3 * m \in 0 .. 3 * m
    BY <1>4
  <2>. QED
    BY <1>8, <1>17, <2>1, <2>2
<1>19. ASSUME NEW j \in 1 .. 3 * m
       PROVE  Fits(run[j - 1], s[j]) /\ run[j] = After(run[j - 1], s[j])
  <2>1. j \in 0 .. 3 * m /\ j - 1 \in 0 .. 3 * m
    BY <1>15
  <2>. QED
    BY <1>14, <1>15, <1>17, <2>1
<1>20. PathRun(c, s, At(m, m), run)
  BY <1>15, <1>17, <1>18, <1>19 DEF PathRun
<1>21. Path(c, s, At(m, m))
  BY <1>15, <1>20 DEF Path
<1>22. CloseOrphans(w).frames = s
  BY DEF CloseOrphans, Encoded, s, Part, order
<1>23. c.owed \ S = {}
  BY DEF Agrees, SameBlocks
<1>24. /\ At(m, m) \in Messages /\ At(m, m).phase = c.phase /\ At(m, m).owed = {}
       /\ At(m, m).open = c.open \ Places(w, ServerTools)
  BY <1>4, <1>5, <1>9, <1>23
<1>25. Silent(s)
  <2>1. \A i, id : BlockStop(i).text = <<>> /\ BlockStart(i, "result", id).text = <<>>
    BY DEF BlockStop, BlockStart, WireFrame
  <2>2. ASSUME NEW j \in 1 .. 3 * m
        PROVE  Part(j).text = <<>>
    <3>1. PICK k \in 1 .. m : j = 3 * k - 2 \/ j = 3 * k - 1 \/ j = 3 * k
      BY <1>4, InThrees
    <3>. QED
      BY <1>11, <2>1, <3>1
  <2>. QED
    BY <1>15, <2>2 DEF Silent
<1>. QED
  BY <1>21, <1>22, <1>24, <1>25

(* At message_stop no tool block is open and no result owed. *)
LEMMA TurnEndedPath ==
  ASSUME NEW c, NEW w, NEW n, Agrees(c, w, n)
  PROVE  /\ \E d \in Messages : Path(c, EncodeTurnEnded(w).frames, d)
         /\ Silent(EncodeTurnEnded(w).frames)
<1>. DEFINE v == [w EXCEPT !.block = "none"]
            tools == CloseToolBlocks(v)
            orphans == CloseOrphans(tools.w)
            A == CloseCurrentBlock(w)
            B == tools.frames
            C == orphans.frames
            f == Mark("message_stop")
<1>1. Path(c, A, c) /\ Agrees(c, v, n)
  BY ClosePiece
<1>2. PICK d \in Messages : Path(c, B, d) /\ Agrees(d, tools.w, n)
  BY <1>1, ToolBlocksAgree
<1>3. PICK e \in Messages : /\ Path(d, C, e) /\ e.phase = d.phase
                            /\ e.open = d.open \ Places(tools.w, ServerTools) /\ e.owed = {}
  BY <1>2, OrphansPath
<1>4. tools.w.blocks = [t \in DOMAIN v.blocks \ ClientTools |-> v.blocks[t]]
  <2>1. v \in Writers
    BY <1>1 DEF Agrees
  <2>2. tools.w = Without(v, ClientTools)
    BY DEF CloseToolBlocks, Encoded
  <2>. HIDE DEF v, tools
  <2>. QED
    BY <2>1, <2>2 DEF Without, Writers
<1>5. DOMAIN tools.w.blocks \subseteq ServerTools
  <2>1. v.blocks \in Blocks
    BY <1>1, WriterFields DEF Agrees
  <2>2. DOMAIN v.blocks \subseteq ServerTools \union ClientTools
    BY <2>1, BlocksOf DEF Tools
  <2>. HIDE DEF v, tools
  <2>. QED
    BY <1>4, <2>2
<1>. HIDE DEF tools
<1>6. e.open = {}
  <2>1. \A i \in d.open : \E t \in DOMAIN tools.w.blocks : i = tools.w.blocks[t]
    BY <1>2 DEF Agrees, SameBlocks
  <2>. QED
    BY <1>3, <1>5, <2>1 DEF Places
<1>7. f \in Frames /\ f.type = "message_stop" /\ f.kind = "none"
  BY FrameTypes DEF Mark, WireFrame, Frames
<1>8. e.phase \in {"none", "open"}
  BY <1>2, <1>3 DEF Agrees
<1>. HIDE DEF f, A, B, C
<1>9. Fits(e, f)
  BY <1>3, <1>6, <1>7, <1>8 DEF Fits
<1>10. Path(e, <<f>>, After(e, f)) /\ After(e, f) \in Messages
  BY <1>7, <1>9, AfterFits, PathOne
<1>11. Path(c, ((A \o B) \o C) \o <<f>>, After(e, f))
  BY <1>1, <1>2, <1>3, <1>10, PathConcat
<1>12. EncodeTurnEnded(w).frames = ((A \o B) \o C) \o <<f>>
  BY DEF EncodeTurnEnded, Encoded, A, B, C, f, tools
<1>13. Silent(((A \o B) \o C) \o <<f>>)
  <2>1. A \in Seq(Frames) /\ B \in Seq(Frames) /\ C \in Seq(Frames) /\ <<f>> \in Seq(Frames)
    BY <1>1, <1>2, <1>3, <1>10 DEF Path
  <2>2. Silent(A) /\ Silent(B) /\ Silent(C) /\ Silent(<<f>>)
    BY <1>1, <1>2, SilentPieces, ToolBlocksAgree, OrphansPath DEF A, B, C, f, tools
  <2>. QED
    BY <2>1, <2>2, SilentConcat
<1>. QED
  BY <1>10, <1>11, <1>12, <1>13

(* An error frame fits a message that was begun. *)
LEMMA ErrorPath ==
  ASSUME NEW c \in Messages, NEW w, c.phase = "open"
  PROVE  /\ \E d \in Messages : Path(c, EncodeError(w).frames, d)
         /\ Silent(EncodeError(w).frames)
<1>. DEFINE f == Mark("error")
<1>1. f \in Frames /\ f.type = "error" /\ f.kind = "none"
  BY FrameTypes DEF Mark, WireFrame, Frames
<1>2. EncodeError(w).frames = <<f>>
  BY DEF EncodeError, Encoded
<1>. HIDE DEF f
<1>3. Fits(c, f)
  BY <1>1 DEF Fits
<1>4. Silent(<<f>>)
  BY SilentPieces DEF f
<1>. QED
  BY <1>1, <1>2, <1>3, <1>4, AfterFits, PathOne

(***************************************************************************)
(* What a step hands to the host.                                          *)
(***************************************************************************)
(* Every payload sequence an emit may cut off begins the whole. *)
CutShort(r) ==
  \A s \in r.cuts : /\ s \in Seq(Frames) /\ Len(s) <= Len(r.frames)
                    /\ \A j \in 1 .. Len(s) : s[j] = r.frames[j]

(* The frames of r, all of them read, leave the client with d. *)
Leads(r, d) == d \in Messages /\ Path(client, r.frames, d) /\ CutShort(r)

(* No payload leaves the client where it is. *)
LEMMA NothingLeads ==
  ASSUME client \in Messages
  PROVE  Leads(Nothing, client) /\ Nothing.w = writer /\ Nothing.frames = <<>>
BY PathEmpty DEF Leads, Nothing, CutShort

(* One more payload leads on from where the others ended. *)
LEMMA ThenLeads ==
  ASSUME NEW r, NEW d, Leads(r, d), NEW e, NEW x \in Messages, Path(d, e.frames, x)
  PROVE  /\ Leads(Then(r, e), x) /\ Then(r, e).w = e.w
         /\ Then(r, e).frames = r.frames \o e.frames
<1>. DEFINE a == r.frames
            b == e.frames
            cuts == IF b = <<>> THEN r.cuts ELSE r.cuts \union {a}
<1>1. a \in Seq(Frames) /\ b \in Seq(Frames)
  BY DEF Leads, Path
<1>2. Path(client, a \o b, x)
  BY PathConcat DEF Leads
<1>3. Then(r, e) = [w |-> e.w, frames |-> a \o b, cuts |-> cuts]
  BY DEF Then
<1>. HIDE DEF a, b
<1>4. /\ Len(a \o b) = Len(a) + Len(b) /\ Len(a) \in Nat /\ Len(b) \in Nat
      /\ \A j \in 1 .. Len(a) : (a \o b)[j] = a[j]
  BY <1>1, Concat
<1>5. ASSUME NEW s \in cuts
      PROVE  s \in Seq(Frames) /\ Len(s) <= Len(a \o b) /\ \A j \in 1 .. Len(s) : s[j] = (a \o b)[j]
  <2>1. s \in r.cuts \/ s = a
    OBVIOUS
  <2>2. s \in Seq(Frames) /\ Len(s) <= Len(a) /\ \A j \in 1 .. Len(s) : s[j] = a[j]
    BY <1>1, <1>4, <2>1 DEF Leads, CutShort, a
  <2>3. Len(s) \in Nat /\ Len(s) <= Len(a \o b)
    BY <1>4, <2>2
  <2>4. \A j \in 1 .. Len(s) : j \in 1 .. Len(a)
    BY <1>4, <2>2, <2>3
  <2>. QED
    BY <1>4, <2>2, <2>3, <2>4
<1>. HIDE DEF cuts
<1>6. Then(r, e).w = e.w /\ Then(r, e).frames = a \o b /\ Then(r, e).cuts = cuts
  BY <1>3
<1>7. CutShort(Then(r, e))
  BY <1>5, <1>6 DEF CutShort
<1>. QED
  BY <1>2, <1>6, <1>7 DEF Leads, a, b

(* One payload alone leads where its frames do. *)
LEMMA SingleLeads ==
  ASSUME client \in Messages, NEW e, NEW x \in Messages, Path(client, e.frames, x)
  PROVE  Leads(Single(e), x) /\ Single(e).w = e.w /\ Single(e).frames = e.frames
<1>1. Leads(Nothing, client) /\ Nothing.frames = <<>>
  BY NothingLeads
<1>2. /\ Leads(Single(e), x) /\ Single(e).w = e.w
      /\ Single(e).frames = <<>> \o e.frames
  BY <1>1, ThenLeads DEF Single
<1>3. e.frames \in Seq(Frames)
  BY DEF Path
<1>4. <<>> \o e.frames = e.frames
  BY <1>3
<1>. QED
  BY <1>2, <1>4

(* All of it is handed over, or an emit fails and the handler returns. *)
LEMMA Emission ==
  ASSUME NEW r, NEW done \in BOOLEAN, Emit(r, done), NEW d, Leads(r, d), UNCHANGED client,
         NEW a, NEW b, WireText(r.frames, a, b)
  PROVE  /\ writer' = r.w /\ at' \in {"loop", "returned"} /\ error' \in {error, "emit"}
         /\ \E x \in Messages : Path(client', wire', x) /\ (at' = "loop" => x = d)
         /\ WireText(wire', a, b) \/ (WireText(wire', a, a) /\ error' = "emit")
         /\ at' = "loop" => wire' = r.frames /\ ~done /\ error' = error
<1>1. CASE EmitAll(r, done)
  BY <1>1 DEF EmitAll, Emit, Leads
<1>2. CASE EmitFails(r)
  <2>1. /\ wire' \in Seq(Frames) /\ Len(wire') <= Len(r.frames)
        /\ \A j \in 1 .. Len(wire') : wire'[j] = r.frames[j]
    BY <1>2 DEF EmitFails, Leads, CutShort
  <2>. DEFINE t == wire'
  <2>. HIDE DEF t
  <2>2. \E x \in Messages : Path(client, t, x)
    BY <2>1, PathPrefix DEF Leads, t
  <2>3. WireText(t, a, a) \/ WireText(t, a, b)
    BY <2>1, WireTextPrefix DEF t
  <2>. QED
    BY <1>2, <2>2, <2>3 DEF EmitFails, Emit, t
<1>. QED
  BY <1>1, <1>2 DEF Emit

-----------------------------------------------------------------------------
(***************************************************************************)
(* The inductive invariant.                                                *)
(***************************************************************************)
Cursors ==
  [sent : 0 .. MaxCursorEvents, deltas : Nat, snapshot : Nat, asked : SUBSET Tools,
   answered : SUBSET Tools]
(* OutputLimiter, and a writer that gives each index once. *)
Limiters == [active : BOOLEAN, held : Seq(Nat), stopped : BOOLEAN]
Known(w) == w \in Writers /\ \A t \in DOMAIN w.blocks : w.blocks[t] < w.index

(* The records keep their types. *)
Records ==
  /\ cursor \in Cursors /\ flags \in FlagRecords /\ limiter \in Limiters
  /\ assistant \in [text : Seq(Nat), snapshot : BOOLEAN]
  /\ content \in [starts : SUBSET Nat, text : Seq(Nat)]
  /\ pendingText \in Seq(Nat) /\ client \in Messages /\ Known(writer)
  /\ at \in {"loop", "returned"} /\ error \in {"none", "emit", "upstream"}
  /\ serverTool \in ServerTools \union {NoTool}

(* The pieces up to n have been read or are on the wire; what is held back  *)
(* follows, and is the rest of the text unless it was cut off.             *)
Carried(n) ==
  /\ WireText(wire, Len(content.text), n)
  /\ n <= Len(assistant.text)
  /\ error # "emit" =>
       /\ Run(pendingText, n) /\ Run(limiter.held, n + Len(pendingText))
       /\ n + Len(pendingText) + Len(limiter.held) <= Len(assistant.text)
       /\ ~limiter.stopped => n + Len(pendingText) + Len(limiter.held) = Len(assistant.text)

(* Every piece that was consumed is somewhere, in its place. *)
TextInv ==
  /\ Run(assistant.text, 0) /\ Run(content.text, 0)
  /\ ~assistant.snapshot => Len(assistant.text) = cursor.deltas
  /\ limiter.stopped \/ ~limiter.active => limiter.held = <<>>
  /\ limiter.stopped => limiter.active
  /\ at = "loop" /\ pendingText # <<>> => Withholding
  /\ \E n \in Nat : Carried(n)

(* What is on the wire leads to the message the writer knows; an event      *)
(* takes two indices at most.                                              *)
MessageInv ==
  \E d \in Messages :
    /\ Path(client, wire, d)
    /\ at = "loop" => /\ Agrees(d, writer, 2 * cursor.sent)
                      /\ flags.started => d.phase # "none"

(* All of it. *)
ClaudeInv ==
  /\ StartIsRecorded /\ Records /\ TextInv /\ MessageInv
  /\ client.open \subseteq client.used

(* Between two events nothing is on the wire. *)
LEMMA Quiet ==
  ASSUME ClaudeInv, at = "loop", wire = <<>>
  PROVE  /\ Agrees(client, writer, 2 * cursor.sent) /\ client \in Messages /\ error = "none"
         /\ flags.started => client.phase = "open"
         /\ Len(content.text) \in Nat /\ Carried(Len(content.text))
<1>1. PICK d \in Messages : /\ Path(client, wire, d)
                            /\ Agrees(d, writer, 2 * cursor.sent)
                            /\ flags.started => d.phase # "none"
  BY DEF ClaudeInv, MessageInv
<1>2. d = client /\ client \in Messages
  <2>1. PICK run : PathRun(client, <<>>, d, run)
    BY <1>1 DEF Path
  <2>2. Len(<<>>) = 0
    OBVIOUS
  <2>. QED
    BY <2>1, <2>2 DEF PathRun, ClaudeInv, Records
<1>3. client.phase \in {"none", "open"}
  BY <1>1, <1>2 DEF Agrees
<1>4. PICK n \in Nat : Carried(n)
  BY DEF ClaudeInv, TextInv
<1>5. n = Len(content.text)
  <2>1. \A i \in 1 .. Len(<<>>) : FALSE
    OBVIOUS
  <2>. QED
    BY <1>4, <2>1 DEF Carried, WireText
<1>. QED
  BY <1>1, <1>2, <1>3, <1>4, <1>5 DEF ClaudeInv, StartIsRecorded

(* A writer that agrees with a message has passed the indices it knows. *)
LEMMA AgreesKnows ==
  ASSUME NEW c, NEW w, NEW n, Agrees(c, w, n)
  PROVE  /\ Known(w)
         /\ \A m \in Nat : n <= m => Agrees(c, w, m)
<1>1. w \in Writers /\ c \in Messages /\ w.index \in Nat /\ n \in Nat /\ Opened(w) \in {0, 1}
  BY WriterFields DEF Agrees, Opened
<1>2. \A t \in DOMAIN w.blocks : w.blocks[t] < w.index
  BY DEF Agrees, SameBlocks
<1>3. ASSUME NEW m \in Nat, n <= m
      PROVE  Agrees(c, w, m)
  <2>1. w.index + Opened(w) <= m
    BY <1>1, <1>3 DEF Agrees
  <2>. QED
    BY <2>1 DEF Agrees
<1>. QED
  BY <1>1, <1>2, <1>3 DEF Known

(* What an event does to the message, whatever it does to the text. *)
LEMMA MessageKept ==
  ASSUME ClaudeInv, at = "loop", wire = <<>>, NEW r, NEW done \in BOOLEAN, Emit(r, done),
         NEW d, Leads(r, d), UNCHANGED client, NEW a, NEW b, WireText(r.frames, a, b),
         done \/ Agrees(d, r.w, 2 * cursor'.sent),
         done \/ (at' = "loop" /\ flags'.started => flags.started \/ wire' # <<>>)
  PROVE  MessageInv'
<1>1. PICK x \in Messages : Path(client', wire', x) /\ (at' = "loop" => x = d)
  BY Emission
<1>2. writer' = r.w /\ (at' = "loop" => wire' = r.frames /\ ~done)
  BY Emission
<1>3. at' = "loop" => Agrees(x, writer', 2 * cursor'.sent)
  BY <1>1, <1>2
<1>4. ASSUME at' = "loop", flags'.started
      PROVE  x.phase # "none"
  <2>1. CASE wire' # <<>>
    <3>. DEFINE t == wire'
    <3>1. t # <<>> /\ Path(client, t, x)
      BY <1>1, <2>1
    <3>. HIDE DEF t
    <3>. QED
      BY <3>1, PathBegins
  <2>2. CASE wire' = <<>>
    <3>1. flags.started
      BY <1>2, <1>4, <2>2
    <3>2. client.phase = "open"
      BY <3>1, Quiet
    <3>3. PICK run : PathRun(client, <<>>, x, run)
      BY <1>1, <2>2 DEF Path
    <3>4. Len(<<>>) = 0
      OBVIOUS
    <3>5. x = client
      BY <3>3, <3>4 DEF PathRun
    <3>. QED
      BY <3>2, <3>5
  <2>. QED
    BY <2>1, <2>2
<1>. QED
  BY <1>1, <1>3, <1>4 DEF MessageInv

(* An event that brings no text. *)
LEMMA SilentStep ==
  ASSUME ClaudeInv, at = "loop", wire = <<>>, NEW r, NEW done \in BOOLEAN, Emit(r, done),
         NEW d, Leads(r, d), Silent(r.frames), Known(r.w),
         UNCHANGED <<client, content, assistant, limiter, pendingText>>,
         flags' \in FlagRecords, flags'.signature = flags.signature, flags'.signed = flags.signed,
         cursor' \in Cursors, cursor'.deltas = cursor.deltas,
         serverTool' \in ServerTools \union {NoTool},
         done \/ Agrees(d, r.w, 2 * cursor'.sent),
         done \/ (at' = "loop" /\ flags'.started => flags.started \/ wire' # <<>>)
  PROVE  Records' /\ TextInv' /\ MessageInv'
<1>. DEFINE n == Len(content.text)
<1>1. n \in Nat /\ Carried(n) /\ error = "none" /\ r.frames \in Seq(Frames)
  BY Quiet DEF Leads, Path
<1>. HIDE DEF n
<1>2. WireText(r.frames, n, n)
  BY <1>1 DEF WireText
<1>3. MessageInv'
  BY <1>2, MessageKept
<1>4. writer' = r.w /\ at' \in {"loop", "returned"} /\ error' \in {error, "emit"}
  BY <1>2, Emission
<1>5. WireText(wire', n, n)
  BY <1>2, Emission
<1>6. error' # "emit" => error # "emit"
  BY <1>4
<1>7. Carried(n)'
  BY <1>1, <1>5, <1>6 DEF Carried, n
<1>8. Withholding' = Withholding
  BY DEF Withholding
<1>9. TextInv'
  <2>1. at' = "loop" /\ pendingText' # <<>> => Withholding'
    BY <1>8 DEF ClaudeInv, TextInv
  <2>2. \E m \in Nat : Carried(m)'
    BY <1>1, <1>7 DEF n
  <2>. QED
    BY <2>1, <2>2 DEF ClaudeInv, TextInv
<1>10. Records'
  BY <1>1, <1>4 DEF ClaudeInv, Records
<1>. QED
  BY <1>3, <1>9, <1>10

(* Forgetting blocks and counting on keeps them passed. *)
LEMMA KnownWithout ==
  ASSUME NEW w, Known(w), NEW S, NEW k \in Nat
  PROVE  Known([Without(w, S) EXCEPT !.index = @ + k])
<1>. DEFINE b == [t \in DOMAIN w.blocks \ S |-> w.blocks[t]]
            v == [Without(w, S) EXCEPT !.index = @ + k]
<1>1. w \in Writers /\ w.index \in Nat /\ w.blocks \in Blocks
  BY WriterFields DEF Known
<1>2. DOMAIN b = DOMAIN w.blocks \ S /\ \A t \in DOMAIN b : b[t] = w.blocks[t]
  OBVIOUS
<1>3. b \in Blocks
  <2>1. DOMAIN w.blocks \subseteq Tools /\ \A t \in DOMAIN w.blocks : w.blocks[t] \in Nat
    BY <1>1, BlocksOf
  <2>2. b = [t \in DOMAIN b |-> b[t]]
    OBVIOUS
  <2>. HIDE DEF b
  <2>. QED
    BY <1>2, <2>1, <2>2, BlocksOf
<1>4. Without(w, S) = [w EXCEPT !.blocks = b]
  BY DEF Without
<1>. HIDE DEF b
<1>5. v \in Writers /\ v.index = w.index + k /\ v.blocks = b
  <2>. DEFINE u == [w EXCEPT !.blocks = b]
  <2>1. u \in Writers /\ u.index = w.index /\ u.blocks = b
    BY <1>1, <1>3 DEF Writers
  <2>2. v = [u EXCEPT !.index = @ + k]
    BY <1>4
  <2>3. w.index + k \in Nat
    BY <1>1
  <2>. HIDE DEF u, v
  <2>. QED
    BY <2>1, <2>2, <2>3 DEF Writers
<1>. HIDE DEF v
<1>6. \A t \in DOMAIN b : b[t] < w.index + k
  <2>1. \A t \in DOMAIN w.blocks : w.blocks[t] \in Nat /\ w.blocks[t] < w.index
    BY <1>1, BlocksOf DEF Known
  <2>. QED
    BY <1>1, <1>2, <2>1
<1>7. Known(v)
  BY <1>5, <1>6 DEF Known
<1>. QED
  BY <1>7 DEF v

(* So does the end of the turn. *)
LEMMA TurnEndedKnown ==
  ASSUME NEW c, NEW w, NEW n, Agrees(c, w, n)
  PROVE  Known(EncodeTurnEnded(w).w)
<1>. DEFINE v == [w EXCEPT !.block = "none"]
            tools == CloseToolBlocks(v)
            u == tools.w
            S == DOMAIN u.blocks \intersect ServerTools
            m == Len(SetToSeq(S))
<1>1. Agrees(c, v, n)
  BY ClosePiece
<1>2. PICK d \in Messages : Agrees(d, u, n)
  BY <1>1, ToolBlocksAgree
<1>. HIDE DEF v, tools, u
<1>3. m \in Nat
  BY <1>2, FiniteBlocks, Listed
<1>4. Known([Without(u, ServerTools) EXCEPT !.index = @ + m])
  <2>1. Known(u)
    BY <1>2, AgreesKnows
  <2>. HIDE DEF m
  <2>. QED
    BY <1>3, <2>1, KnownWithout
<1>5. CloseOrphans(u).w = [Without(u, ServerTools) EXCEPT !.index = @ + m]
  BY DEF CloseOrphans, Encoded
<1>6. EncodeTurnEnded(w).w = CloseOrphans(u).w
  BY DEF EncodeTurnEnded, Encoded, u, tools, v
<1>. QED
  BY <1>4, <1>5, <1>6

-----------------------------------------------------------------------------
(***************************************************************************)
(* The events that bring no text.                                          *)
(***************************************************************************)
LEMMA Taken ==
  ASSUME ClaudeInv, TakeClaudeEvent
  PROVE  /\ at = "loop" /\ wire = <<>> /\ UNCHANGED <<client, content>>
         /\ 2 * cursor.sent \in Nat /\ 2 * cursor.sent + 1 \in Nat
         /\ 2 * cursor.sent <= 2 * MaxCursorEvents
         /\ 2 * (cursor.sent + 1) \in Nat
         /\ 2 * (cursor.sent + 1) = 2 * cursor.sent + 2
         /\ cursor.sent + 1 \in 0 .. MaxCursorEvents
         /\ cursor \in Cursors
         /\ [cursor EXCEPT !.sent = @ + 1] \in Cursors
<1>1. cursor \in Cursors /\ cursor.sent \in 0 .. MaxCursorEvents /\ MaxCursorEvents \in Nat
  BY ClaudeAssumption DEF ClaudeInv, Records, Cursors
<1>2. cursor.sent + 1 \in 0 .. MaxCursorEvents
  BY <1>1 DEF TakeClaudeEvent
<1>3. [cursor EXCEPT !.sent = @ + 1] \in Cursors
  BY <1>1, <1>2 DEF Cursors
<1>. QED
  BY <1>1, <1>2, <1>3 DEF TakeClaudeEvent

(* An event that is passed on, whatever its payloads. *)
LEMMA ForwardStep ==
  ASSUME ClaudeInv, NEW r, NEW output \in BOOLEAN, Forward(r, output),
         NEW d, Leads(r, d), Silent(r.frames),
         NEW m \in Nat, Agrees(d, r.w, m), m <= 2 * cursor.sent + 2,
         cursor' \in Cursors, cursor'.sent = cursor.sent + 1, cursor'.deltas = cursor.deltas,
         serverTool' \in ServerTools \union {NoTool}
  PROVE  Records' /\ TextInv' /\ MessageInv'
<1>1. TakeClaudeEvent /\ Emit(r, FALSE) /\ Marked(output, wire' # <<>>)
      /\ UNCHANGED <<assistant, limiter, pendingText>>
  BY DEF Forward
<1>2. at = "loop" /\ wire = <<>> /\ UNCHANGED <<client, content>>
      /\ 2 * cursor'.sent \in Nat /\ 2 * cursor'.sent = 2 * cursor.sent + 2
  BY <1>1, Taken
<1>3. Known(r.w) /\ Agrees(d, r.w, 2 * cursor'.sent)
  BY <1>2, AgreesKnows
<1>4. /\ flags' \in FlagRecords /\ flags'.signature = flags.signature /\ flags'.signed = flags.signed
      /\ flags'.started = (flags.started \/ wire' # <<>>)
  BY <1>1 DEF Marked, FlagRecords, ClaudeInv, Records
<1>. QED
  BY <1>1, <1>2, <1>3, <1>4, SilentStep

(* An event that is encoded by one call of the writer. *)
LEMMA SingleStep ==
  ASSUME ClaudeInv, NEW e, NEW output \in BOOLEAN, Forward(Single(e), output),
         NEW m \in Nat, \E d \in Messages : Path(client, e.frames, d) /\ Agrees(d, e.w, m),
         Silent(e.frames), m <= 2 * cursor.sent + 2,
         cursor' \in Cursors, cursor'.sent = cursor.sent + 1, cursor'.deltas = cursor.deltas,
         serverTool' \in ServerTools \union {NoTool}
  PROVE  Records' /\ TextInv' /\ MessageInv'
<1>1. PICK d \in Messages : Path(client, e.frames, d) /\ Agrees(d, e.w, m)
  OBVIOUS
<1>. DEFINE r == Single(e)
<1>2. client \in Messages
  BY DEF ClaudeInv, Records
<1>3. Leads(r, d) /\ r.w = e.w /\ r.frames = e.frames
  BY <1>1, <1>2, SingleLeads
<1>. HIDE DEF r
<1>4. Forward(r, output) /\ Silent(r.frames) /\ Agrees(d, r.w, m)
  BY <1>1, <1>3 DEF r
<1>. QED
  BY <1>3, <1>4, ForwardStep

(* Thinking. *)
LEMMA ThinkingStep ==
  ASSUME ClaudeInv, ThinkingDelta
  PROVE  Records' /\ TextInv' /\ MessageInv'
<1>. DEFINE e == EncodeContent(writer, "thinking", <<>>)
<1>1. Forward(Single(e), TRUE) /\ TakeClaudeEvent /\ UNCHANGED serverTool
      /\ cursor' = [cursor EXCEPT !.sent = @ + 1]
  BY DEF ThinkingDelta, Forward
<1>2. Agrees(client, writer, 2 * cursor.sent) /\ 2 * cursor.sent + 1 \in Nat
      /\ 2 * cursor.sent + 1 <= 2 * cursor.sent + 2
  BY <1>1, Taken, Quiet
<1>3. \E d \in Messages : Path(client, e.frames, d) /\ Agrees(d, e.w, 2 * cursor.sent + 1)
  BY <1>2, ThinkingAgrees
<1>4. Silent(e.frames)
  BY <1>2, ThinkingAgrees
<1>5. cursor' \in Cursors /\ cursor'.sent = cursor.sent + 1 /\ cursor'.deltas = cursor.deltas
  BY <1>1, Taken DEF Cursors
<1>6. serverTool' \in ServerTools \union {NoTool}
  BY <1>1 DEF ClaudeInv, Records
<1>. HIDE DEF e
<1>. QED
  BY <1>1, <1>2, <1>3, <1>4, <1>5, <1>6, SingleStep

(* An event of which the cursor only counts that it came. *)
LEMMA Counted ==
  ASSUME ClaudeInv, TakeClaudeEvent, cursor' = [cursor EXCEPT !.sent = @ + 1]
  PROVE  /\ at = "loop" /\ wire = <<>> /\ UNCHANGED <<client, content>> /\ client \in Messages
         /\ Agrees(client, writer, 2 * cursor.sent)
         /\ cursor' \in Cursors /\ cursor'.sent = cursor.sent + 1 /\ cursor'.deltas = cursor.deltas
         /\ 2 * cursor'.sent \in Nat /\ 2 * cursor.sent <= 2 * cursor'.sent
<1>1. /\ at = "loop" /\ wire = <<>> /\ UNCHANGED <<client, content>>
      /\ cursor' \in Cursors /\ 2 * (cursor.sent + 1) \in Nat
      /\ 2 * (cursor.sent + 1) = 2 * cursor.sent + 2 /\ 2 * cursor.sent \in Nat
  BY Taken
<1>2. cursor'.sent = cursor.sent + 1 /\ cursor'.deltas = cursor.deltas
  BY DEF ClaudeInv, Records, Cursors
<1>3. client \in Messages /\ Agrees(client, writer, 2 * cursor.sent)
  BY <1>1, Quiet
<1>. QED
  BY <1>1, <1>2, <1>3

(* A heartbeat, passed on or swallowed. *)
LEMMA HeartbeatStep ==
  ASSUME ClaudeInv, Heartbeat
  PROVE  Records' /\ TextInv' /\ MessageInv'
<1>1. /\ TakeClaudeEvent /\ UNCHANGED <<assistant, limiter, pendingText, serverTool>>
      /\ cursor' = [cursor EXCEPT !.sent = @ + 1]
  BY DEF Heartbeat
<1>2. /\ at = "loop" /\ wire = <<>> /\ UNCHANGED <<client, content>> /\ client \in Messages
      /\ Agrees(client, writer, 2 * cursor.sent)
      /\ cursor' \in Cursors /\ cursor'.sent = cursor.sent + 1 /\ cursor'.deltas = cursor.deltas
      /\ 2 * cursor'.sent \in Nat /\ 2 * cursor.sent <= 2 * cursor'.sent
  BY <1>1, Counted
<1>3. serverTool' \in ServerTools \union {NoTool}
  BY <1>1 DEF ClaudeInv, Records
<1>4. CASE /\ Emit(Single(EncodeHeartbeat(writer)), FALSE)
           /\ flags' = [flags EXCEPT !.started = at' = "loop" \/ @, !.pinged = at' = "loop" \/ @]
  <2>. DEFINE e == EncodeHeartbeat(writer)
              r == Single(e)
  <2>1. PICK d \in Messages : Path(client, e.frames, d) /\ Agrees(d, e.w, 2 * cursor.sent)
    BY <1>2, HeartbeatAgrees
  <2>2. Silent(e.frames) /\ e.frames # <<>>
    BY <1>2, HeartbeatAgrees
  <2>. HIDE DEF e
  <2>3. Leads(r, d) /\ r.w = e.w /\ r.frames = e.frames
    BY <1>2, <2>1, SingleLeads
  <2>4. Emit(r, FALSE)
    BY <1>4 DEF e
  <2>5. at' = "loop" => wire' # <<>>
    BY <2>2, <2>3, <2>4 DEF Emit, EmitAll, EmitFails
  <2>. HIDE DEF r
  <2>6. Known(r.w) /\ Agrees(d, r.w, 2 * cursor'.sent) /\ Silent(r.frames)
    BY <1>2, <2>1, <2>2, <2>3, AgreesKnows
  <2>7. flags' \in FlagRecords /\ flags'.signature = flags.signature /\ flags'.signed = flags.signed
    BY <1>4 DEF FlagRecords, ClaudeInv, Records
  <2>. QED
    BY <1>1, <1>2, <1>3, <2>3, <2>4, <2>5, <2>6, <2>7, SilentStep
<1>5. CASE UNCHANGED <<writer, at, error, flags, wire>>
  <2>1. Records'
    BY <1>1, <1>2, <1>5 DEF ClaudeInv, Records
  <2>2. TextInv'
    BY <1>1, <1>2, <1>5 DEF ClaudeInv, TextInv, Carried, Withholding
  <2>3. MessageInv'
    <3>1. Agrees(client, writer, 2 * cursor'.sent) /\ Path(client, wire, client)
      BY <1>2, AgreesKnows, PathEmpty
    <3>2. flags.started => client.phase # "none"
      BY <1>2, Quiet
    <3>. QED
      BY <1>2, <1>5, <3>1, <3>2 DEF MessageInv
  <2>. QED
    BY <2>1, <2>2, <2>3
<1>. QED
  BY <1>4, <1>5 DEF Heartbeat

(* A tool that is announced, for the first time or again. *)
LEMMA ToolStartedStep ==
  ASSUME ClaudeInv, NEW t \in Tools, ToolStarted(t)
  PROVE  Records' /\ TextInv' /\ MessageInv'
<1>. DEFINE e == EncodeToolStarted(writer, IF t \in ServerTools THEN "server" ELSE "tool", t)
<1>1. Forward(Single(e), TRUE) /\ TakeClaudeEvent
      /\ cursor' = [cursor EXCEPT !.sent = @ + 1, !.asked = @ \union {t}]
      /\ serverTool' = IF t \in ServerTools THEN t ELSE serverTool
  BY DEF ToolStarted, Forward
<1>2. Agrees(client, writer, 2 * cursor.sent) /\ 2 * cursor.sent + 1 \in Nat
      /\ 2 * cursor.sent <= 2 * MaxCursorEvents /\ 2 * cursor.sent + 1 <= 2 * cursor.sent + 2
  BY <1>1, Taken, Quiet
<1>3. \E d \in Messages : Path(client, e.frames, d) /\ Agrees(d, e.w, 2 * cursor.sent + 1)
  BY <1>2, ToolStartedAgrees
<1>4. Silent(e.frames)
  BY <1>2, ToolStartedAgrees
<1>5. cursor' \in Cursors /\ cursor'.sent = cursor.sent + 1 /\ cursor'.deltas = cursor.deltas
  <2>1. cursor \in Cursors /\ cursor.sent + 1 \in 0 .. MaxCursorEvents
    BY <1>1, Taken
  <2>. QED
    BY <1>1, <2>1 DEF Cursors
<1>6. serverTool' \in ServerTools \union {NoTool}
  BY <1>1 DEF ClaudeInv, Records
<1>. HIDE DEF e
<1>. QED
  BY <1>1, <1>2, <1>3, <1>4, <1>5, <1>6, SingleStep

(* The progress of a client tool. *)
LEMMA ToolDeltaStep ==
  ASSUME ClaudeInv, NEW t, ToolDelta(t)
  PROVE  Records' /\ TextInv' /\ MessageInv'
<1>1. Forward(Nothing, TRUE) /\ TakeClaudeEvent /\ UNCHANGED serverTool
      /\ cursor' = [cursor EXCEPT !.sent = @ + 1]
  BY DEF ToolDelta, Forward
<1>2. /\ Agrees(client, writer, 2 * cursor.sent) /\ 2 * cursor.sent \in Nat
      /\ 2 * cursor.sent <= 2 * cursor.sent + 2 /\ client \in Messages
  BY <1>1, Taken, Quiet
<1>3. Leads(Nothing, client) /\ Nothing.w = writer /\ Nothing.frames = <<>> /\ Silent(<<>>)
  BY <1>2, NothingLeads, SilentPieces
<1>4. cursor' \in Cursors /\ cursor'.sent = cursor.sent + 1 /\ cursor'.deltas = cursor.deltas
  BY <1>1, Taken DEF Cursors
<1>5. serverTool' \in ServerTools \union {NoTool}
  BY <1>1 DEF ClaudeInv, Records
<1>. QED
  BY <1>1, <1>2, <1>3, <1>4, <1>5, ForwardStep

(* The end of a client tool's arguments. *)
LEMMA ToolCompletedStep ==
  ASSUME ClaudeInv, NEW t \in ClientTools, ToolCompleted(t)
  PROVE  Records' /\ TextInv' /\ MessageInv'
<1>. DEFINE e == EncodeToolCompleted(writer, t)
<1>1. Forward(Single(e), TRUE) /\ TakeClaudeEvent /\ UNCHANGED serverTool
      /\ cursor' = [cursor EXCEPT !.sent = @ + 1]
  BY DEF ToolCompleted, Forward
<1>2. Agrees(client, writer, 2 * cursor.sent) /\ 2 * cursor.sent \in Nat
      /\ 2 * cursor.sent <= 2 * cursor.sent + 2
  BY <1>1, Taken, Quiet
<1>3. \E d \in Messages : Path(client, e.frames, d) /\ Agrees(d, e.w, 2 * cursor.sent)
  BY <1>2, ToolCompletedAgrees
<1>4. Silent(e.frames)
  BY <1>2, ToolCompletedAgrees
<1>5. cursor' \in Cursors /\ cursor'.sent = cursor.sent + 1 /\ cursor'.deltas = cursor.deltas
  BY <1>1, Taken DEF Cursors
<1>6. serverTool' \in ServerTools \union {NoTool}
  BY <1>1 DEF ClaudeInv, Records
<1>. HIDE DEF e
<1>. QED
  BY <1>1, <1>2, <1>3, <1>4, <1>5, <1>6, SingleStep

(* The result of a server tool. *)
LEMMA ToolResultStep ==
  ASSUME ClaudeInv, NEW t \in ServerTools, ToolResult(t)
  PROVE  Records' /\ TextInv' /\ MessageInv'
<1>. DEFINE e == EncodeToolResult(writer, t)
<1>1. Forward(Single(e), TRUE) /\ TakeClaudeEvent
      /\ cursor' = [cursor EXCEPT !.sent = @ + 1, !.answered = @ \union {t}]
      /\ serverTool' = IF serverTool = t THEN NoTool ELSE serverTool
  BY DEF ToolResult, Forward
<1>2. Agrees(client, writer, 2 * cursor.sent) /\ 2 * cursor.sent + 1 \in Nat
      /\ 2 * cursor.sent + 1 <= 2 * cursor.sent + 2
  BY <1>1, Taken, Quiet
<1>3. \E d \in Messages : Path(client, e.frames, d) /\ Agrees(d, e.w, 2 * cursor.sent + 1)
  BY <1>2, ToolResultAgrees
<1>4. Silent(e.frames)
  BY <1>2, ToolResultAgrees
<1>5. cursor' \in Cursors /\ cursor'.sent = cursor.sent + 1 /\ cursor'.deltas = cursor.deltas
  <2>1. cursor \in Cursors /\ cursor.sent + 1 \in 0 .. MaxCursorEvents /\ t \in Tools
    BY <1>1, Taken DEF Tools
  <2>. QED
    BY <1>1, <2>1 DEF Cursors
<1>6. serverTool' \in ServerTools \union {NoTool}
  BY <1>1 DEF ClaudeInv, Records
<1>. HIDE DEF e
<1>. QED
  BY <1>1, <1>2, <1>3, <1>4, <1>5, <1>6, SingleStep

(* The end of the turn is only noted. *)
LEMMA TurnEndedStep ==
  ASSUME ClaudeInv, NEW usage \in BOOLEAN, TurnEnded(usage)
  PROVE  Records' /\ TextInv' /\ MessageInv'
<1>1. /\ TakeClaudeEvent /\ flags' = [flags EXCEPT !.usage = usage] /\ serverTool' = NoTool
      /\ cursor' = [cursor EXCEPT !.sent = @ + 1]
      /\ UNCHANGED <<writer, at, error, assistant, limiter, pendingText, wire>>
  BY DEF TurnEnded
<1>2. /\ at = "loop" /\ wire = <<>> /\ UNCHANGED <<client, content>> /\ client \in Messages
      /\ Agrees(client, writer, 2 * cursor.sent)
      /\ cursor' \in Cursors /\ cursor'.sent = cursor.sent + 1 /\ cursor'.deltas = cursor.deltas
      /\ 2 * cursor'.sent \in Nat /\ 2 * cursor.sent <= 2 * cursor'.sent
  BY <1>1, Counted
<1>3. /\ flags' \in FlagRecords /\ flags'.signature = flags.signature
      /\ flags'.signed = flags.signed /\ flags'.started = flags.started
  BY <1>1 DEF ClaudeInv, Records, FlagRecords
<1>4. Records'
  BY <1>1, <1>2, <1>3 DEF ClaudeInv, Records
<1>5. TextInv'
  BY <1>1, <1>2, <1>3 DEF ClaudeInv, TextInv, Carried, Withholding
<1>6. MessageInv'
  <2>1. Agrees(client, writer, 2 * cursor'.sent) /\ Path(client, wire, client)
    BY <1>2, AgreesKnows, PathEmpty
  <2>2. flags.started => client.phase # "none"
    BY <1>2, Quiet
  <2>. QED
    BY <1>1, <1>2, <1>3, <2>1, <2>2 DEF MessageInv
<1>. QED
  BY <1>4, <1>5, <1>6

-----------------------------------------------------------------------------
(***************************************************************************)
(* The ends of the handler that bring no text.                             *)
(***************************************************************************)
LEMMA FailStep ==
  ASSUME ClaudeInv, at = "loop", wire = <<>>, FailTurn
  PROVE  Records' /\ TextInv' /\ MessageInv'
<1>1. /\ client \in Messages /\ Agrees(client, writer, 2 * cursor.sent)
      /\ flags.started => client.phase = "open"
  BY Quiet
<1>2. UNCHANGED <<assistant, limiter, pendingText, flags, serverTool, client, content, cursor>>
  BY DEF FailTurn
<1>3. CASE flags.started
  <2>. DEFINE e == EncodeError(writer)
              r == Single(e)
  <2>1. PICK d \in Messages : Path(client, e.frames, d)
    BY <1>1, <1>3, ErrorPath
  <2>2. Silent(e.frames) /\ e.w = writer
    BY <1>1, <1>3, ErrorPath DEF EncodeError, Encoded
  <2>. HIDE DEF e
  <2>3. Leads(r, d) /\ r.w = e.w /\ r.frames = e.frames
    BY <1>1, <2>1, SingleLeads
  <2>4. Emit(r, TRUE)
    BY <1>3 DEF FailTurn, e
  <2>. HIDE DEF r
  <2>5. Known(r.w) /\ Silent(r.frames)
    BY <2>2, <2>3 DEF ClaudeInv, Records
  <2>6. /\ flags' \in FlagRecords /\ flags'.signature = flags.signature
        /\ flags'.signed = flags.signed /\ cursor' \in Cursors /\ cursor'.deltas = cursor.deltas
        /\ serverTool' \in ServerTools \union {NoTool}
    BY <1>2 DEF ClaudeInv, Records
  <2>. QED
    BY <1>2, <2>3, <2>4, <2>5, <2>6, SilentStep
<1>4. CASE ~flags.started
  <2>1. at' = "returned" /\ error' = "upstream" /\ UNCHANGED <<writer, wire>> /\ error = "none"
    BY <1>4, Quiet DEF FailTurn
  <2>2. Records'
    BY <1>2, <2>1 DEF ClaudeInv, Records
  <2>3. TextInv'
    BY <1>2, <2>1 DEF ClaudeInv, TextInv, Carried
  <2>4. MessageInv'
    BY <1>1, <1>2, <2>1, PathEmpty DEF MessageInv
  <2>. QED
    BY <2>2, <2>3, <2>4
<1>. QED
  BY <1>3, <1>4

(* The answer to the server tool that gave none, and the end of the turn. *)
LEMMA TimeoutStep ==
  ASSUME ClaudeInv, ServerToolTimeout
  PROVE  Records' /\ TextInv' /\ MessageInv'
<1>. DEFINE e == EncodeToolResult(writer, serverTool)
            f == EncodeTurnEnded(e.w)
            r == Single(e)
            q == Then(r, EncodeTurnEnded(r.w))
<1>1. /\ at = "loop" /\ wire = <<>> /\ serverTool \in ServerTools /\ serverTool' = NoTool
      /\ Emit(q, TRUE)
      /\ UNCHANGED <<assistant, limiter, pendingText, flags, client, content, cursor>>
  BY DEF ServerToolTimeout, ClaudeInv, Records
<1>2. client \in Messages /\ Agrees(client, writer, 2 * cursor.sent)
  BY <1>1, Quiet
<1>3. PICK d \in Messages : Path(client, e.frames, d) /\ Agrees(d, e.w, 2 * cursor.sent + 1)
  BY <1>1, <1>2, ToolResultAgrees
<1>4. Silent(e.frames)
  BY <1>1, <1>2, ToolResultAgrees
<1>. HIDE DEF e
<1>5. PICK x \in Messages : Path(d, f.frames, x)
  BY <1>3, TurnEndedPath
<1>6. Silent(f.frames) /\ Known(f.w)
  BY <1>3, TurnEndedPath, TurnEndedKnown
<1>7. Leads(r, d) /\ r.w = e.w /\ r.frames = e.frames
  BY <1>2, <1>3, SingleLeads
<1>. HIDE DEF r
<1>8. q = Then(r, f)
  BY <1>7
<1>. HIDE DEF f, q
<1>9. Leads(q, x) /\ q.w = f.w /\ q.frames = r.frames \o f.frames
  BY <1>5, <1>7, <1>8, ThenLeads
<1>10. Silent(q.frames)
  <2>1. e.frames \in Seq(Frames) /\ f.frames \in Seq(Frames)
    BY <1>3, <1>5 DEF Path
  <2>. QED
    BY <1>4, <1>6, <1>7, <1>9, <2>1, SilentConcat
<1>11. /\ flags' \in FlagRecords /\ flags'.signature = flags.signature
       /\ flags'.signed = flags.signed /\ cursor' \in Cursors /\ cursor'.deltas = cursor.deltas
       /\ serverTool' \in ServerTools \union {NoTool}
  BY <1>1 DEF ClaudeInv, Records
<1>. QED
  BY <1>1, <1>6, <1>9, <1>10, <1>11, SilentStep

-----------------------------------------------------------------------------
(***************************************************************************)
(* The events that bring text: what is read, on the wire, held back for    *)
(* the signature and held back by the limiter are runs of pieces, one      *)
(* after the other.                                                        *)
(***************************************************************************)
LEMMA RunConcat ==
  ASSUME NEW n \in Nat, NEW s, NEW t, Run(s, n), Run(t, n + Len(s))
  PROVE  Run(s \o t, n) /\ Len(s \o t) = Len(s) + Len(t) /\ Len(s) \in Nat /\ Len(t) \in Nat
<1>. DEFINE u == s \o t
<1>1. s \in Seq(Nat) /\ t \in Seq(Nat) /\ Len(s) \in Nat /\ Len(t) \in Nat
  BY DEF Run
<1>2. /\ u \in Seq(Nat) /\ Len(u) = Len(s) + Len(t)
      /\ \A j \in 1 .. Len(s) : u[j] = s[j]
      /\ \A j \in Len(s) + 1 .. Len(s) + Len(t) : j - Len(s) \in 1 .. Len(t) /\ u[j] = t[j - Len(s)]
  BY <1>1, Concat
<1>. HIDE DEF u
<1>3. ASSUME NEW j \in 1 .. Len(s) + Len(t)
      PROVE  u[j] = n + j
  <2>1. CASE j \in 1 .. Len(s)
    BY <1>2, <2>1 DEF Run
  <2>2. CASE j \in Len(s) + 1 .. Len(s) + Len(t)
    <3>1. j - Len(s) \in 1 .. Len(t) /\ u[j] = t[j - Len(s)]
      BY <1>2, <2>2
    <3>2. t[j - Len(s)] = (n + Len(s)) + (j - Len(s))
      BY <3>1 DEF Run
    <3>. QED
      BY <1>1, <3>1, <3>2
  <2>. QED
    BY <1>1, <2>1, <2>2
<1>4. Run(u, n)
  BY <1>2, <1>3 DEF Run
<1>. QED
  BY <1>1, <1>2, <1>4 DEF u

(* A run is cut into two. *)
LEMMA RunSplit ==
  ASSUME NEW n \in Nat, NEW s, Run(s, n), NEW k \in 0 .. Len(s)
  PROVE  /\ Run(SubSeq(s, 1, k), n) /\ Len(SubSeq(s, 1, k)) = k
         /\ Run(SubSeq(s, k + 1, Len(s)), n + k) /\ Len(SubSeq(s, k + 1, Len(s))) = Len(s) - k
<1>. DEFINE a == SubSeq(s, 1, k)
            b == SubSeq(s, k + 1, Len(s))
<1>1. s \in Seq(Nat) /\ Len(s) \in Nat /\ k \in Nat /\ k <= Len(s)
  BY DEF Run
<1>2. a \in Seq(Nat) /\ Len(a) = k /\ \A j \in 1 .. k : a[j] = s[j]
  BY <1>1
<1>3. b \in Seq(Nat) /\ Len(b) = Len(s) - k /\ \A j \in 1 .. Len(s) - k : b[j] = s[j + k]
  BY <1>1
<1>. HIDE DEF a, b
<1>4. Run(a, n)
  <2>1. \A j \in 1 .. k : j \in 1 .. Len(s)
    BY <1>1
  <2>. QED
    BY <1>2, <2>1 DEF Run
<1>5. Run(b, n + k)
  <2>1. \A j \in 1 .. Len(s) - k : j + k \in 1 .. Len(s) /\ n + (j + k) = (n + k) + j
    BY <1>1
  <2>2. \A j \in 1 .. Len(s) - k : s[j + k] = n + (j + k)
    BY <2>1 DEF Run
  <2>. QED
    BY <1>3, <2>1, <2>2 DEF Run
<1>. QED
  BY <1>2, <1>3, <1>4, <1>5 DEF a, b

(* No pieces are a run from anywhere. *)
LEMMA RunEmpty ==
  ASSUME NEW n \in Nat
  PROVE  Run(<<>>, n) /\ Len(<<>>) = 0
BY DEF Run

(* The limiter lets a prefix of its buffer out, and holds back the rest    *)
(* or cuts it off.                                                         *)
LEMMA AdmittedRuns ==
  ASSUME limiter \in Limiters, limiter.stopped \/ ~limiter.active => limiter.held = <<>>,
         limiter.stopped => limiter.active,
         NEW n \in Nat, Run(limiter.held, n), NEW delta \in Seq(Nat),
         ~limiter.stopped => Run(delta, n + Len(limiter.held)),
         NEW a \in Admitted(delta)
  PROVE  /\ a.limiter \in Limiters /\ Run(a.out, n) /\ Run(a.limiter.held, n + Len(a.out))
         /\ Len(a.out) + Len(a.limiter.held) <= Len(limiter.held) + Len(delta)
         /\ ~a.limiter.stopped =>
              ~limiter.stopped /\
              Len(a.out) + Len(a.limiter.held) = Len(limiter.held) + Len(delta)
         /\ a.limiter.stopped \/ ~a.limiter.active => a.limiter.held = <<>>
         /\ a.limiter.stopped => a.limiter.active
<1>1. /\ limiter.held \in Seq(Nat) /\ limiter.active \in BOOLEAN /\ limiter.stopped \in BOOLEAN
      /\ Len(limiter.held) \in Nat /\ Len(delta) \in Nat
  BY DEF Limiters
<1>2. CASE ~limiter.active
  <2>1. a.out = delta /\ a.limiter = limiter
    BY <1>2 DEF Admitted
  <2>2. limiter.held = <<>> /\ ~limiter.stopped /\ Len(<<>>) = 0 /\ n + 0 = n
    BY <1>2
  <2>3. Run(delta, n) /\ Run(limiter.held, n + Len(delta))
    BY <1>1, <2>2, RunEmpty
  <2>. QED
    BY <1>1, <1>2, <2>1, <2>2, <2>3
<1>3. CASE limiter.active /\ (limiter.stopped \/ delta = <<>>)
  <2>1. Admitted(delta) = {[out |-> <<>>, limiter |-> limiter]}
    BY <1>3 DEF Admitted
  <2>2. a.out = <<>> /\ a.limiter = limiter /\ Len(<<>>) = 0 /\ n + 0 = n
    BY <2>1
  <2>3. delta = <<>> => Len(delta) = 0
    OBVIOUS
  <2>. QED
    BY <1>1, <1>3, <2>2, <2>3, RunEmpty
<1>4. CASE limiter.active /\ ~(limiter.stopped \/ delta = <<>>)
  <2>. DEFINE s == limiter.held \o delta
  <2>1. Run(s, n) /\ Len(s) = Len(limiter.held) + Len(delta) /\ Len(s) \in Nat
    <3>1. ~limiter.stopped /\ Run(delta, n + Len(limiter.held))
      BY <1>4
    <3>2. /\ Run(s, n) /\ Len(s) = Len(limiter.held) + Len(delta)
      BY <3>1, RunConcat
    <3>. HIDE DEF s
    <3>. QED
      BY <1>1, <3>2
  <2>2. PICK k \in 0 .. Len(s), stop \in BOOLEAN : a = Fed(s, k, stop)
    <3>1. Admitted(delta) = {Fed(s, k, stop) : k \in 0 .. Len(s), stop \in BOOLEAN}
      BY <1>4 DEF Admitted
    <3>. QED
      BY <3>1
  <2>. HIDE DEF s
  <2>. DEFINE rest == SubSeq(s, k + 1, Len(s))
              h == IF stop THEN <<>> ELSE rest
  <2>3. k \in Nat /\ k <= Len(s)
    BY <2>1
  <2>4. /\ Run(a.out, n) /\ Len(a.out) = k
        /\ Run(rest, n + k) /\ Len(rest) = Len(s) - k
    <3>1. /\ Run(SubSeq(s, 1, k), n) /\ Len(SubSeq(s, 1, k)) = k
          /\ Run(rest, n + k) /\ Len(rest) = Len(s) - k
      <4>1. Run(s, n)
        BY <2>1
      <4>. QED
        BY <4>1, RunSplit
    <3>2. a.out = SubSeq(s, 1, k)
      BY <2>2 DEF Fed
    <3>. QED
      BY <3>1, <3>2
  <2>5. a.limiter = [active |-> TRUE, stopped |-> stop, held |-> h]
    BY <2>2 DEF Fed
  <2>. HIDE DEF rest
  <2>6. Run(h, n + k) /\ h \in Seq(Nat) /\ Len(h) \in Nat
    BY <2>3, <2>4, RunEmpty DEF Run
  <2>7. (stop => h = <<>> /\ Len(h) = 0) /\ (~stop => Len(h) = Len(s) - k)
    BY <2>4
  <2>. HIDE DEF h
  <2>8. /\ a.limiter \in Limiters /\ a.limiter.held = h /\ a.limiter.stopped = stop
        /\ a.limiter.active
    BY <2>5, <2>6 DEF Limiters
  <2>9. Len(a.out) + Len(h) <= Len(s) /\ (~stop => Len(a.out) + Len(h) = Len(s))
    BY <2>1, <2>3, <2>4, <2>6, <2>7
  <2>. QED
    BY <1>4, <2>1, <2>4, <2>6, <2>7, <2>8, <2>9
<1>. QED
  BY <1>2, <1>3, <1>4

(* What DeliverText emits continues the message and the text. *)
LEMMA DeliveryLeads ==
  ASSUME client \in Messages, NEW m, Agrees(client, writer, m), NEW n \in Nat,
         NEW out, NEW held, Run(held, n), NEW sign \in BOOLEAN, sign => Withholding,
         ~Withholding => Run(out, n) /\ held = <<>>,
         NEW b, b = n + (IF sign THEN Len(held) ELSE IF Withholding THEN 0 ELSE Len(out))
  PROVE  \E d \in Messages :
           /\ Leads(Delivery(out, sign, held), d)
           /\ Agrees(d, Delivery(out, sign, held).w, m + 2)
           /\ WireText(Delivery(out, sign, held).frames, n, b)
<1>. DEFINE x == EncodeContent(writer, "text", out)
            y == EncodeSignature(writer)
            z == EncodeContent(y.w, "text", held)
            r == Delivery(out, sign, held)
<1>1. /\ m \in Nat /\ m + 1 \in Nat /\ m + 2 \in Nat /\ m <= m + 2 /\ m + 1 <= m + 2
      /\ (m + 1) + 1 = m + 2 /\ n + 0 = n
  BY DEF Agrees
<1>2. Leads(Nothing, client) /\ Nothing.w = writer /\ Nothing.frames = <<>>
  BY NothingLeads
<1>3. WireText(<<>>, n, n)
  <2>1. <<>> \in Seq(Frames) /\ Silent(<<>>)
    BY DEF Silent
  <2>. QED
    BY <2>1 DEF WireText
<1>4. CASE ~sign /\ (Withholding \/ out = <<>>)
  <2>1. r = Nothing
    BY <1>4 DEF Delivery
  <2>2. b = n
    BY <1>1, <1>4
  <2>3. Agrees(client, writer, m + 2)
    BY <1>1, AgreesKnows
  <2>. HIDE DEF r
  <2>. QED
    BY <1>2, <1>3, <2>1, <2>2, <2>3 DEF r
<1>5. CASE ~sign /\ ~Withholding /\ out # <<>>
  <2>1. r = Single(x)
    BY <1>5 DEF Delivery
  <2>2. Run(out, n) /\ out \in Seq(Nat) /\ b = n + Len(out)
    BY <1>5 DEF Run
  <2>3. PICK d \in Messages : Path(client, x.frames, d) /\ Agrees(d, x.w, m + 1)
    BY <2>2, ContentAgrees
  <2>4. WireText(x.frames, n, n + Len(out))
    BY <2>2, ContentAgrees
  <2>. HIDE DEF x
  <2>5. Leads(Single(x), d) /\ Single(x).w = x.w /\ Single(x).frames = x.frames
    BY <2>3, SingleLeads
  <2>6. Agrees(d, x.w, m + 2)
    BY <1>1, <2>3, AgreesKnows
  <2>. HIDE DEF r
  <2>7. Leads(r, d) /\ r.w = x.w /\ r.frames = x.frames
    BY <2>1, <2>5
  <2>. QED
    BY <2>2, <2>4, <2>6, <2>7 DEF r
<1>6. CASE sign
  <2>. DEFINE q == Then(Nothing, y)
  <2>1. PICK d \in Messages : Path(client, y.frames, d) /\ Agrees(d, y.w, m + 1)
    BY SignatureAgrees
  <2>2. Silent(y.frames) /\ y.frames \in Seq(Frames)
    BY <2>1, SignatureAgrees DEF Path
  <2>. HIDE DEF y
  <2>3. Leads(q, d) /\ q.w = y.w /\ q.frames = y.frames
    <3>1. q = Single(y)
      BY DEF Single
    <3>. HIDE DEF q
    <3>. QED
      BY <2>1, <3>1, SingleLeads
  <2>4. WireText(y.frames, n, n)
    BY <2>2 DEF WireText
  <2>5. r = IF held = <<>> THEN q ELSE Then(q, EncodeContent(q.w, "text", held))
    BY <1>2, <1>6 DEF Delivery, y
  <2>6. CASE held = <<>>
    <3>1. b = n
      BY <1>1, <1>6, <2>6
    <3>2. Agrees(d, y.w, m + 2)
      BY <1>1, <2>1, AgreesKnows
    <3>. HIDE DEF r, q
    <3>3. r = q
      BY <2>5, <2>6
    <3>. QED
      BY <2>3, <2>4, <3>1, <3>2, <3>3 DEF r
  <2>7. CASE held # <<>>
    <3>. HIDE DEF q, r
    <3>1. r = Then(q, z)
      BY <2>3, <2>5, <2>7
    <3>2. held \in Seq(Nat) /\ b = n + Len(held)
      BY <1>6 DEF Run
    <3>3. PICK e \in Messages : Path(d, z.frames, e) /\ Agrees(e, z.w, (m + 1) + 1)
      BY <2>1, <3>2, ContentAgrees
    <3>4. WireText(z.frames, n, n + Len(held))
      BY <2>1, <3>2, ContentAgrees
    <3>. HIDE DEF z
    <3>5. Leads(r, e) /\ r.w = z.w /\ r.frames = y.frames \o z.frames
      <4>1. /\ Leads(Then(q, z), e) /\ Then(q, z).w = z.w
            /\ Then(q, z).frames = q.frames \o z.frames
        BY <2>3, <3>3, ThenLeads
      <4>. QED
        BY <2>3, <3>1, <4>1
    <3>6. WireText(y.frames \o z.frames, n, b)
      BY <2>2, <2>4, <3>2, <3>4, WireTextConcat
    <3>. QED
      BY <1>1, <3>3, <3>5, <3>6 DEF r
  <2>. QED
    BY <2>6, <2>7
<1>. QED
  BY <1>4, <1>5, <1>6

(* What a delta or a snapshot adds is what comes next. *)
LEMMA ConsumedRuns ==
  ASSUME ClaudeInv
  PROVE  /\ cursor.deltas \in Nat /\ Len(assistant.text) \in Nat
         /\ Run(ConsumedDelta(cursor.deltas + 1), Len(assistant.text))
         /\ ~assistant.snapshot =>
              Len(assistant.text) + Len(ConsumedDelta(cursor.deltas + 1)) = cursor.deltas + 1
         /\ \A k \in Nat : Run(ConsumedSnapshot(k), Len(assistant.text))
<1>. DEFINE n == Len(assistant.text)
<1>1. /\ assistant.text \in Seq(Nat) /\ n \in Nat /\ cursor.deltas \in Nat
      /\ ~assistant.snapshot => n = cursor.deltas
  BY DEF ClaudeInv, Records, Cursors, TextInv
<1>. HIDE DEF n
<1>2. Run(ConsumedDelta(cursor.deltas + 1), n)
  <2>1. CASE assistant.snapshot
    BY <1>1, <2>1, RunEmpty DEF ConsumedDelta
  <2>2. CASE ~assistant.snapshot
    <3>1. ConsumedDelta(cursor.deltas + 1) = <<n + 1>>
      BY <1>1, <2>2 DEF ConsumedDelta
    <3>2. <<n + 1>> \in Seq(Nat) /\ Len(<<n + 1>>) = 1 /\ <<n + 1>>[1] = n + 1
      BY <1>1
    <3>3. \A j \in 1 .. 1 : j = 1
      OBVIOUS
    <3>. QED
      BY <3>1, <3>2, <3>3 DEF Run
  <2>. QED
    BY <2>1, <2>2
<1>3. ASSUME ~assistant.snapshot
      PROVE  n + Len(ConsumedDelta(cursor.deltas + 1)) = cursor.deltas + 1
  BY <1>1, <1>3 DEF ConsumedDelta
<1>4. ASSUME NEW k \in Nat
      PROVE  Run(ConsumedSnapshot(k), n)
  <2>1. CASE k <= n
    BY <1>1, <2>1, RunEmpty DEF ConsumedSnapshot, n
  <2>2. CASE ~(k <= n)
    <3>. DEFINE s == [j \in 1 .. k - n |-> n + j]
    <3>1. ConsumedSnapshot(k) = s
      BY <2>2 DEF ConsumedSnapshot, n
    <3>2. k - n \in Nat
      BY <1>1, <2>2
    <3>3. s \in Seq(Nat) /\ Len(s) = k - n /\ \A j \in 1 .. k - n : s[j] = n + j
      BY <1>1, <3>2
    <3>. HIDE DEF s
    <3>. QED
      BY <3>1, <3>3 DEF Run
  <2>. QED
    BY <2>1, <2>2
<1>. QED
  BY <1>1, <1>2, <1>3, <1>4 DEF n

(* What a step delivers follows what was delivered before. *)
LEMMA DeliverStep ==
  ASSUME ClaudeInv, TakeClaudeEvent, NEW delta, NEW signature \in BOOLEAN,
         DeliverText(delta, signature), Run(delta, Len(assistant.text)),
         assistant' \in [text : Seq(Nat), snapshot : BOOLEAN],
         assistant'.text = assistant.text \o delta,
         ~assistant'.snapshot => Len(assistant'.text) = cursor'.deltas,
         cursor' \in Cursors, cursor'.sent = cursor.sent + 1, UNCHANGED serverTool
  PROVE  Records' /\ TextInv' /\ MessageInv'
<1>. DEFINE n == Len(content.text)
            p == Len(pendingText)
            h == Len(limiter.held)
            T == Len(assistant.text)
            L == Len(delta)
            m == 2 * cursor.sent
<1>1. /\ at = "loop" /\ wire = <<>> /\ UNCHANGED <<client, content>>
      /\ m \in Nat /\ 2 * cursor'.sent = m + 2
  BY Taken
<1>2. /\ client \in Messages /\ Agrees(client, writer, m) /\ error = "none"
      /\ n \in Nat /\ Carried(n)
  BY <1>1, Quiet
<1>3. /\ Run(pendingText, n) /\ Run(limiter.held, n + p) /\ n + p + h <= T
      /\ ~limiter.stopped => n + p + h = T
  BY <1>2 DEF Carried
<1>4. /\ limiter \in Limiters /\ limiter.stopped \in BOOLEAN /\ flags \in FlagRecords
      /\ limiter.stopped \/ ~limiter.active => limiter.held = <<>>
      /\ limiter.stopped => limiter.active
      /\ pendingText # <<>> => Withholding
      /\ Run(assistant.text, 0) /\ Run(content.text, 0)
  BY <1>1 DEF ClaudeInv, Records, TextInv, Limiters
<1>5. /\ p \in Nat /\ h \in Nat /\ T \in Nat /\ L \in Nat /\ delta \in Seq(Nat) /\ n + p \in Nat
  BY <1>2, <1>3, <1>4 DEF Run
<1>6. /\ Run(assistant.text \o delta, 0) /\ Len(assistant.text \o delta) = T + L
  <2>1. 0 \in Nat /\ 0 + T = T
    BY <1>5
  <2>2. Run(delta, 0 + Len(assistant.text))
    BY <2>1
  <2>. QED
    BY <1>4, <2>1, <2>2, RunConcat
<1>7. PICK a \in Admitted(delta) :
        LET sign == signature /\ Withholding
            held == pendingText \o (IF Withholding THEN a.out ELSE <<>>)
        IN  /\ Emit(Delivery(a.out, sign, held), FALSE)
            /\ limiter' = a.limiter
            /\ pendingText' = IF sign THEN <<>> ELSE held
            /\ flags' = [flags EXCEPT !.output = @ \/ a.out # <<>>, !.signed = @ \/ sign,
                                      !.started = @ \/ (wire' # <<>>)]
  BY DEF DeliverText
<1>. DEFINE k == Len(a.out)
            h2 == Len(a.limiter.held)
            sign == signature /\ Withholding
            held == pendingText \o (IF Withholding THEN a.out ELSE <<>>)
            r == Delivery(a.out, sign, held)
            b == n + (IF sign THEN Len(held) ELSE IF Withholding THEN 0 ELSE k)
            someOut == (a.out # <<>>)
<1>8. /\ Emit(r, FALSE) /\ limiter' = a.limiter /\ pendingText' = IF sign THEN <<>> ELSE held
      /\ flags' = [flags EXCEPT !.output = @ \/ someOut, !.signed = @ \/ sign,
                                !.started = @ \/ (wire' # <<>>)]
  BY <1>7
<1>. HIDE DEF n, p, h, T, L, m
<1>9. /\ a.limiter \in Limiters /\ Run(a.out, n + p) /\ Run(a.limiter.held, n + p + k)
      /\ k + h2 <= h + L
      /\ ~a.limiter.stopped => ~limiter.stopped /\ k + h2 = h + L
      /\ a.limiter.stopped \/ ~a.limiter.active => a.limiter.held = <<>>
      /\ a.limiter.stopped => a.limiter.active
  <2>1. ~limiter.stopped => Run(delta, (n + p) + Len(limiter.held))
    BY <1>3 DEF h, T
  <2>. QED
    BY <1>3, <1>4, <1>5, <2>1, AdmittedRuns DEF h, L
<1>10. k \in Nat /\ h2 \in Nat
  BY <1>9 DEF Run
<1>11. /\ Run(held, n) /\ Len(held) = p + (IF Withholding THEN k ELSE 0)
       /\ ~Withholding => held = <<>> /\ p = 0 /\ Run(a.out, n)
  <2>1. CASE Withholding
    <3>1. held = pendingText \o a.out
      BY <2>1
    <3>2. Run(pendingText \o a.out, n) /\ Len(pendingText \o a.out) = p + k
      BY <1>2, <1>3, <1>9, RunConcat DEF p
    <3>. HIDE DEF held
    <3>. QED
      BY <2>1, <3>1, <3>2
  <2>2. CASE ~Withholding
    <3>1. pendingText = <<>> /\ Len(<<>>) = 0
      BY <1>4, <2>2
    <3>2. held = <<>> /\ p = 0 /\ n + 0 = n
      BY <1>2, <2>2, <3>1 DEF p
    <3>. HIDE DEF held
    <3>. QED
      BY <1>2, <1>9, <2>2, <3>1, <3>2, RunEmpty
  <2>. QED
    BY <2>1, <2>2
<1>12. sign \in BOOLEAN /\ someOut \in BOOLEAN /\ (sign => Withholding)
  OBVIOUS
<1>. HIDE DEF k, h2, held, sign, someOut
<1>13. PICK d \in Messages : Leads(r, d) /\ Agrees(d, r.w, m + 2) /\ WireText(r.frames, n, b)
  BY <1>2, <1>11, <1>12, DeliveryLeads DEF k
<1>. HIDE DEF r
<1>14. /\ flags' \in FlagRecords /\ flags'.started = (flags.started \/ (wire' # <<>>))
       /\ flags'.signature = flags.signature /\ flags'.signed = (flags.signed \/ sign)
  <2>1. flags' \in FlagRecords
    BY <1>4, <1>8, <1>12 DEF FlagRecords
  <2>2. flags'.started = (flags.started \/ (wire' # <<>>))
    BY <1>4, <1>8, <1>12 DEF FlagRecords
  <2>3. flags'.signature = flags.signature
    BY <1>4, <1>8, <1>12 DEF FlagRecords
  <2>4. flags'.signed = (flags.signed \/ sign)
    BY <1>4, <1>8, <1>12 DEF FlagRecords
  <2>. QED
    BY <2>1, <2>2, <2>3, <2>4
<1>15. MessageInv'
  BY <1>1, <1>2, <1>8, <1>13, <1>14, MessageKept
<1>. DEFINE P == Len(pendingText')
<1>16. /\ b \in Nat /\ Run(pendingText', b) /\ b + P = n + p + k /\ P \in Nat
  <2>1. CASE sign
    <3>1. pendingText' = <<>> /\ P = 0 /\ b = n + (p + k)
      BY <1>8, <1>11, <1>12, <2>1
    <3>. HIDE DEF P, b
    <3>. QED
      BY <1>2, <1>5, <1>10, <2>1, <3>1, RunEmpty
  <2>2. CASE ~sign /\ Withholding
    <3>1. pendingText' = held /\ P = p + k /\ b = n + 0
      BY <1>8, <1>11, <2>2
    <3>. HIDE DEF P, b
    <3>2. b = n
      BY <1>2, <3>1
    <3>. QED
      BY <1>2, <1>5, <1>10, <1>11, <3>1, <3>2
  <2>3. CASE ~sign /\ ~Withholding
    <3>1. pendingText' = <<>> /\ P = 0 /\ p = 0 /\ b = n + k
      BY <1>8, <1>11, <2>3
    <3>. HIDE DEF P, b
    <3>. QED
      BY <1>2, <1>5, <1>10, <3>1, RunEmpty
  <2>. QED
    BY <2>1, <2>2, <2>3
<1>. HIDE DEF P, b
<1>17. writer' = r.w /\ at' \in {"loop", "returned"} /\ error' \in {error, "emit"}
  BY <1>1, <1>8, <1>13, Emission
<1>18. WireText(wire', n, b) \/ (WireText(wire', n, n) /\ error' = "emit")
  BY <1>1, <1>8, <1>13, Emission
<1>19. PICK y \in Nat : WireText(wire', n, y) /\ y <= T + L /\ (error' # "emit" => y = b)
  <2>1. b <= T + L /\ n <= T + L
    BY <1>2, <1>3, <1>5, <1>9, <1>10, <1>16
  <2>. QED
    BY <1>2, <1>16, <1>18, <2>1
<1>20. Len(assistant'.text) = T + L
  BY <1>6
<1>21. ASSUME error' # "emit"
       PROVE  /\ Run(pendingText', y) /\ Run(limiter'.held, y + P)
              /\ y + P + h2 <= T + L
              /\ ~limiter'.stopped => y + P + h2 = T + L
  <2>1. y = b /\ y + P = n + p + k
    BY <1>16, <1>19, <1>21
  <2>2. Run(pendingText', y) /\ Run(limiter'.held, y + P)
    BY <1>8, <1>9, <1>16, <2>1
  <2>3. (y + P) + h2 <= T + L
    BY <1>2, <1>3, <1>5, <1>9, <1>10, <2>1
  <2>4. ASSUME ~limiter'.stopped
        PROVE  (y + P) + h2 = T + L
    <3>1. ~a.limiter.stopped
      BY <1>8, <2>4
    <3>2. k + h2 = h + L /\ n + p + h = T
      BY <1>3, <1>9, <3>1
    <3>3. (n + p + k) + h2 = n + p + (k + h2) /\ n + p + (h + L) = (n + p + h) + L
      BY <1>2, <1>5, <1>10
    <3>. QED
      BY <2>1, <3>2, <3>3
  <2>. QED
    BY <2>2, <2>3, <2>4
<1>22. Carried(y)'
  BY <1>1, <1>8, <1>19, <1>20, <1>21 DEF Carried, n, P, h2
<1>23. at' = "loop" /\ pendingText' # <<>> => Withholding'
  <2>1. CASE sign
    BY <1>8, <2>1
  <2>2. CASE ~sign
    <3>1. pendingText' = held
      BY <1>8, <2>2
    <3>2. held # <<>> => Withholding
      BY <1>11
    <3>3. Withholding' = Withholding
      BY <1>14, <2>2 DEF Withholding
    <3>. QED
      BY <3>1, <3>2, <3>3
  <2>. QED
    BY <2>1, <2>2
<1>24. TextInv'
  BY <1>1, <1>4, <1>6, <1>8, <1>9, <1>22, <1>23 DEF TextInv
<1>25. Records'
  <2>1. Known(writer')
    BY <1>13, <1>17, AgreesKnows
  <2>2. pendingText' \in Seq(Nat)
    BY <1>16 DEF Run
  <2>. QED
    BY <1>1, <1>8, <1>9, <1>14, <1>17, <2>1, <2>2 DEF ClaudeInv, Records
<1>. QED
  BY <1>15, <1>24, <1>25

(* A text delta. *)
LEMMA TextDeltaStep ==
  ASSUME ClaudeInv, TextDelta
  PROVE  Records' /\ TextInv' /\ MessageInv'
<1>. DEFINE delta == ConsumedDelta(cursor.deltas + 1)
<1>1. /\ TakeClaudeEvent /\ DeliverText(delta, FALSE) /\ UNCHANGED serverTool
      /\ assistant' = [assistant EXCEPT !.text = @ \o delta]
      /\ cursor' = [cursor EXCEPT !.sent = @ + 1, !.deltas = @ + 1]
  BY DEF TextDelta
<1>2. /\ cursor.deltas \in Nat /\ Run(delta, Len(assistant.text))
      /\ ~assistant.snapshot => Len(assistant.text) + Len(delta) = cursor.deltas + 1
  BY ConsumedRuns
<1>3. assistant.text \in Seq(Nat) /\ delta \in Seq(Nat)
  BY <1>2 DEF ClaudeInv, Records, Run
<1>. HIDE DEF delta
<1>4. /\ assistant' \in [text : Seq(Nat), snapshot : BOOLEAN]
      /\ assistant'.text = assistant.text \o delta /\ assistant'.snapshot = assistant.snapshot
  <2>1. assistant.text \o delta \in Seq(Nat)
    BY <1>3
  <2>. QED
    BY <1>1, <2>1 DEF ClaudeInv, Records
<1>5. Len(assistant.text \o delta) = Len(assistant.text) + Len(delta)
  BY <1>3
<1>6. cursor' \in Cursors /\ cursor'.sent = cursor.sent + 1 /\ cursor'.deltas = cursor.deltas + 1
  <2>1. cursor \in Cursors /\ cursor.sent + 1 \in 0 .. MaxCursorEvents
    BY <1>1, Taken
  <2>. DEFINE c == [cursor EXCEPT !.sent = @ + 1]
  <2>2. c \in Cursors /\ c.sent = cursor.sent + 1 /\ c.deltas = cursor.deltas
    BY <2>1 DEF Cursors
  <2>3. cursor' = [c EXCEPT !.deltas = @ + 1] /\ cursor.deltas + 1 \in Nat
    BY <1>1, <1>2
  <2>. HIDE DEF c
  <2>. QED
    BY <2>2, <2>3 DEF Cursors
<1>7. ~assistant'.snapshot => Len(assistant'.text) = cursor'.deltas
  BY <1>2, <1>4, <1>5, <1>6
<1>. QED
  BY <1>1, <1>2, <1>4, <1>6, <1>7, DeliverStep

(* A snapshot, with a signature or without. *)
LEMMA SnapshotStep ==
  ASSUME ClaudeInv, NEW k \in 0 .. MaxText, NEW signature \in BOOLEAN, Snapshot(k, signature)
  PROVE  Records' /\ TextInv' /\ MessageInv'
<1>. DEFINE delta == ConsumedSnapshot(k)
            seen == assistant.snapshot \/ k > 0
<1>1. /\ TakeClaudeEvent /\ DeliverText(delta, signature) /\ UNCHANGED serverTool
      /\ assistant' = [text |-> assistant.text \o delta, snapshot |-> seen]
      /\ cursor' = [cursor EXCEPT !.sent = @ + 1, !.snapshot = k]
  BY DEF Snapshot
<1>2. k \in Nat /\ Run(delta, Len(assistant.text))
  BY ConsumedRuns
<1>3. assistant.text \in Seq(Nat) /\ delta \in Seq(Nat) /\ assistant.snapshot \in BOOLEAN
  BY <1>2 DEF ClaudeInv, Records, Run
<1>4. ~seen => delta = <<>>
  <2>1. Len(assistant.text) \in Nat
    BY <1>3
  <2>. QED
    BY <1>2, <2>1 DEF ConsumedSnapshot
<1>5. seen \in BOOLEAN /\ (~seen => ~assistant.snapshot)
  OBVIOUS
<1>. HIDE DEF delta, seen
<1>6. /\ assistant' \in [text : Seq(Nat), snapshot : BOOLEAN]
      /\ assistant'.text = assistant.text \o delta /\ assistant'.snapshot = seen
  <2>1. assistant.text \o delta \in Seq(Nat)
    BY <1>3
  <2>. QED
    BY <1>1, <1>5, <2>1
<1>7. cursor' \in Cursors /\ cursor'.sent = cursor.sent + 1 /\ cursor'.deltas = cursor.deltas
  <2>1. cursor \in Cursors /\ cursor.sent + 1 \in 0 .. MaxCursorEvents
    BY <1>1, Taken
  <2>. QED
    BY <1>1, <1>2, <2>1 DEF Cursors
<1>8. ~assistant'.snapshot => Len(assistant'.text) = cursor'.deltas
  <2>1. SUFFICES ASSUME ~seen
                 PROVE  Len(assistant.text \o delta) = cursor.deltas
    BY <1>6, <1>7
  <2>2. assistant.text \o delta = assistant.text
    BY <1>3, <1>4, <2>1
  <2>. QED
    BY <1>5, <2>1, <2>2 DEF ClaudeInv, TextInv
<1>. QED
  BY <1>1, <1>2, <1>6, <1>7, <1>8, DeliverStep

-----------------------------------------------------------------------------
(***************************************************************************)
(* The end of the stream, and the client.                                  *)
(***************************************************************************)
LEMMA FarewellLeads ==
  ASSUME client \in Messages, NEW m, Agrees(client, writer, m), NEW n \in Nat,
         NEW rest, Run(rest, n)
  PROVE  /\ \E d \in Messages : Leads(Farewell(rest), d)
         /\ Known(Farewell(rest).w)
         /\ WireText(Farewell(rest).frames, n, n + Len(rest))
<1>. DEFINE b == n + Len(rest)
            x == EncodeContent(writer, "text", rest)
            r1 == IF rest = <<>> THEN Nothing ELSE Single(x)
            r2 == IF (flags.started \/ rest # <<>>) /\ ~flags.pinged
                  THEN Then(r1, EncodeHeartbeat(r1.w)) ELSE r1
            r3 == Then(r2, EncodeTurnEnded(r2.w))
<1>1. rest \in Seq(Nat) /\ Len(rest) \in Nat /\ b \in Nat /\ m \in Nat /\ m + 1 \in Nat /\ m <= m + 1
  BY DEF Run, Agrees
<1>2. PICK c1 \in Messages :
        Leads(r1, c1) /\ Agrees(c1, r1.w, m + 1) /\ WireText(r1.frames, n, b)
  <2>1. CASE rest = <<>>
    <3>1. b = n /\ r1 = Nothing
      BY <2>1
    <3>2. Leads(Nothing, client) /\ Nothing.w = writer /\ Nothing.frames = <<>>
      BY NothingLeads
    <3>3. WireText(<<>>, n, n)
      <4>1. <<>> \in Seq(Frames) /\ Silent(<<>>)
        BY DEF Silent
      <4>. QED
        BY <4>1 DEF WireText
    <3>4. Agrees(client, writer, m + 1)
      BY <1>1, AgreesKnows
    <3>. HIDE DEF r1, b
    <3>. QED
      BY <3>1, <3>2, <3>3, <3>4
  <2>2. CASE rest # <<>>
    <3>1. PICK c1 \in Messages : Path(client, x.frames, c1) /\ Agrees(c1, x.w, m + 1)
      BY <1>1, ContentAgrees
    <3>2. WireText(x.frames, n, b)
      BY <1>1, ContentAgrees
    <3>3. r1 = Single(x)
      BY <2>2
    <3>. HIDE DEF r1, x
    <3>4. Leads(r1, c1) /\ r1.w = x.w /\ r1.frames = x.frames
      BY <3>1, <3>3, SingleLeads
    <3>. HIDE DEF b
    <3>. QED
      BY <3>1, <3>2, <3>4
  <2>. QED
    BY <2>1, <2>2
<1>. HIDE DEF r1
<1>3. PICK c2 \in Messages :
        Leads(r2, c2) /\ Agrees(c2, r2.w, m + 1) /\ WireText(r2.frames, n, b)
  <2>. DEFINE y == EncodeHeartbeat(r1.w)
              q == Then(r1, y)
  <2>1. PICK c2 \in Messages : Path(c1, y.frames, c2) /\ Agrees(c2, y.w, m + 1)
    BY <1>2, HeartbeatAgrees
  <2>2. Silent(y.frames) /\ y.frames \in Seq(Frames)
    BY <1>2, <2>1, HeartbeatAgrees DEF Path
  <2>3. r2 \in {q, r1}
    OBVIOUS
  <2>. HIDE DEF y, r2
  <2>4. Leads(q, c2) /\ q.w = y.w /\ q.frames = r1.frames \o y.frames
    BY <1>2, <2>1, ThenLeads
  <2>. HIDE DEF q, b
  <2>5. WireText(r1.frames \o y.frames, n, b)
    <3>1. WireText(y.frames, b, b)
      BY <1>1, <2>2 DEF WireText
    <3>. QED
      BY <1>2, <2>2, <3>1, WireTextConcat
  <2>. QED
    BY <1>2, <2>1, <2>3, <2>4, <2>5
<1>4. Farewell(rest) = r3
  BY DEF Farewell, r1
<1>. HIDE DEF r2
<1>. DEFINE z == EncodeTurnEnded(r2.w)
<1>5. PICK c3 \in Messages : Path(c2, z.frames, c3)
  BY <1>3, TurnEndedPath
<1>6. Silent(z.frames) /\ z.frames \in Seq(Frames) /\ Known(z.w)
  BY <1>3, <1>5, TurnEndedPath, TurnEndedKnown DEF Path
<1>. HIDE DEF z
<1>7. r3 = Then(r2, z)
  BY DEF z
<1>. HIDE DEF r3, b
<1>8. Leads(r3, c3) /\ r3.w = z.w /\ r3.frames = r2.frames \o z.frames
  BY <1>3, <1>5, <1>7, ThenLeads
<1>9. WireText(r2.frames \o z.frames, n, b)
  <2>1. WireText(z.frames, b, b)
    BY <1>1, <1>6 DEF WireText
  <2>. QED
    BY <1>3, <1>6, <2>1, WireTextConcat
<1>. QED
  BY <1>4, <1>6, <1>8, <1>9 DEF b

(* The end of Cursor's stream. *)
LEMMA ClosedStep ==
  ASSUME ClaudeInv, ChannelClosed
  PROVE  Records' /\ TextInv' /\ MessageInv'
<1>. DEFINE n == Len(content.text)
            p == Len(pendingText)
            h == Len(limiter.held)
            T == Len(assistant.text)
<1>1. at = "loop" /\ wire = <<>>
  BY DEF ChannelClosed
<1>2. CASE FailTurn
  BY <1>1, <1>2, FailStep
<1>3. ASSUME NEW k \in 0 .. h,
             LET rest == pendingText \o (IF limiter.stopped THEN <<>> ELSE SubSeq(limiter.held, 1, k))
             IN  /\ Emit(Farewell(rest), TRUE)
                 /\ limiter' = [limiter EXCEPT !.held = <<>>, !.stopped = @ \/ k < h],
             pendingText' = <<>>, serverTool' = NoTool,
             UNCHANGED <<assistant, flags, client, content, cursor>>
      PROVE  Records' /\ TextInv' /\ MessageInv'
  <2>. DEFINE last == IF limiter.stopped THEN <<>> ELSE SubSeq(limiter.held, 1, k)
              rest == pendingText \o last
              r == Farewell(rest)
              l == Len(last)
              b == n + Len(rest)
              cut == (k < h)
  <2>1. Emit(r, TRUE) /\ limiter' = [limiter EXCEPT !.held = <<>>, !.stopped = @ \/ cut]
    BY <1>3
  <2>2. /\ client \in Messages /\ Agrees(client, writer, 2 * cursor.sent) /\ error = "none"
        /\ n \in Nat /\ Carried(n)
    BY <1>1, Quiet
  <2>3. /\ Run(pendingText, n) /\ Run(limiter.held, n + p) /\ n + p + h <= T
        /\ ~limiter.stopped => n + p + h = T
    BY <2>2 DEF Carried
  <2>4. /\ limiter \in Limiters /\ limiter.stopped \in BOOLEAN /\ limiter.active \in BOOLEAN
        /\ ~limiter.active => limiter.held = <<>>
        /\ limiter.stopped => limiter.active /\ limiter.held = <<>>
        /\ Run(assistant.text, 0)
    BY DEF ClaudeInv, Records, TextInv, Limiters
  <2>5. p \in Nat /\ h \in Nat /\ T \in Nat /\ n + p \in Nat /\ k \in Nat /\ k <= h
    BY <1>3, <2>2, <2>3, <2>4 DEF Run
  <2>6. Run(last, n + p) /\ l = IF limiter.stopped THEN 0 ELSE k
    <3>1. CASE limiter.stopped
      BY <2>5, <3>1, RunEmpty
    <3>2. CASE ~limiter.stopped
      <4>1. Run(SubSeq(limiter.held, 1, k), n + p) /\ Len(SubSeq(limiter.held, 1, k)) = k
        BY <1>3, <2>3, <2>5, RunSplit
      <4>2. last = SubSeq(limiter.held, 1, k)
        BY <3>2
      <4>. HIDE DEF last
      <4>. QED
        BY <3>2, <4>1, <4>2
    <3>. QED
      BY <3>1, <3>2
  <2>. HIDE DEF n, p, h, T, last
  <2>7. Run(rest, n) /\ Len(rest) = p + l /\ l \in Nat
    <3>1. Run(last, n + Len(pendingText))
      BY <2>6 DEF p
    <3>. QED
      BY <2>2, <2>3, <3>1, RunConcat DEF p
  <2>. HIDE DEF rest, l
  <2>8. PICK d \in Messages : Leads(r, d)
    BY <2>2, <2>7, FarewellLeads
  <2>9. Known(r.w) /\ WireText(r.frames, n, b)
    BY <2>2, <2>7, FarewellLeads
  <2>. HIDE DEF r, b, cut
  <2>10. UNCHANGED client
    BY <1>3
  <2>11. MessageInv'
    BY <1>1, <2>1, <2>8, <2>9, <2>10, MessageKept
  <2>12. /\ writer' = r.w /\ at' \in {"loop", "returned"} /\ error' \in {error, "emit"}
         /\ at' # "loop"
         /\ WireText(wire', n, b) \/ (WireText(wire', n, n) /\ error' = "emit")
    BY <1>1, <2>1, <2>8, <2>9, <2>10, Emission
  <2>13. /\ limiter' \in Limiters /\ limiter'.held = <<>> /\ limiter'.active = limiter.active
         /\ limiter'.stopped = (limiter.stopped \/ cut)
    <3>. DEFINE s == limiter.stopped \/ cut
    <3>1. limiter' = [limiter EXCEPT !.held = <<>>, !.stopped = s]
      BY <2>1
    <3>2. s \in BOOLEAN
      OBVIOUS
    <3>. HIDE DEF s
    <3>3. /\ limiter' \in Limiters /\ limiter'.held = <<>> /\ limiter'.active = limiter.active
          /\ limiter'.stopped = s
      <4>. DEFINE c == [limiter EXCEPT !.held = <<>>]
      <4>1. /\ c \in Limiters /\ c.held = <<>> /\ c.active = limiter.active
        <5>1. <<>> \in Seq(Nat)
          OBVIOUS
        <5>. QED
          BY <2>4, <5>1 DEF Limiters
      <4>2. limiter' = [c EXCEPT !.stopped = s]
        BY <3>1
      <4>. HIDE DEF c
      <4>. QED
        BY <3>2, <4>1, <4>2 DEF Limiters
    <3>. QED
      BY <3>3 DEF s
  <2>14. limiter'.stopped => limiter'.active
    <3>1. CASE limiter.active
      BY <2>13, <3>1
    <3>2. CASE ~limiter.active
      <4>1. h = 0 /\ ~limiter.stopped
        BY <2>4, <3>2 DEF h
      <4>2. ~cut
        BY <2>5, <4>1 DEF cut
      <4>. QED
        BY <2>13, <4>1, <4>2
    <3>. QED
      BY <3>1, <3>2
  <2>15. b = n + p + l /\ b <= T /\ n <= T /\ b \in Nat
    BY <2>2, <2>3, <2>5, <2>6, <2>7 DEF b
  <2>16. ~limiter'.stopped => b = T
    <3>1. SUFFICES ASSUME ~limiter.stopped, ~cut
                   PROVE  b = T
      BY <2>13
    <3>2. l = k /\ k = h /\ n + p + h = T
      BY <2>3, <2>5, <2>6, <3>1 DEF cut
    <3>. QED
      BY <2>15, <3>2
  <2>17. PICK y \in Nat : WireText(wire', n, y) /\ y <= T /\ (error' # "emit" => y = b)
    BY <2>2, <2>12, <2>15
  <2>18. Len(<<>>) = 0 /\ y + 0 = y /\ Run(<<>>, y)
    BY RunEmpty
  <2>19. ASSUME error' # "emit"
         PROVE  /\ Run(pendingText', y) /\ Run(limiter'.held, y + Len(pendingText'))
                /\ y + Len(pendingText') + Len(limiter'.held) <= T
                /\ ~limiter'.stopped => y + Len(pendingText') + Len(limiter'.held) = T
    BY <1>3, <2>13, <2>15, <2>16, <2>17, <2>18, <2>19
  <2>20. Carried(y)'
    BY <1>3, <2>17, <2>19 DEF Carried, n, T
  <2>21. TextInv'
    BY <1>3, <2>12, <2>13, <2>14, <2>17, <2>20 DEF ClaudeInv, TextInv
  <2>22. Records'
    <3>1. Known(writer') /\ pendingText' \in Seq(Nat)
      BY <1>3, <2>9, <2>12
    <3>. QED
      BY <1>3, <2>12, <2>13, <3>1 DEF ClaudeInv, Records
  <2>. QED
    BY <2>11, <2>21, <2>22
<1>. QED
  BY <1>2, <1>3 DEF ChannelClosed

(* The client reads a frame. *)
LEMMA ReadStep ==
  ASSUME ClaudeInv, ClientReads
  PROVE  Records' /\ TextInv' /\ MessageInv'
<1>. DEFINE f == Head(wire)
            n == Len(content.text)
            l == Len(f.text)
<1>1. /\ wire # <<>> /\ wire' = Tail(wire) /\ client' = After(client, f)
      /\ content' = [starts |-> content.starts \union (IF f.type = "start" THEN {f.index} ELSE {}),
                     text |-> content.text \o f.text]
      /\ UNCHANGED <<writer, at, error, assistant, limiter, pendingText, flags, serverTool, cursor>>
  BY DEF ClientReads
<1>2. PICK d \in Messages :
        /\ Path(client, wire, d)
        /\ at = "loop" => /\ Agrees(d, writer, 2 * cursor.sent)
                          /\ flags.started => d.phase # "none"
  BY DEF ClaudeInv, MessageInv
<1>3. f \in Frames /\ client \in Messages /\ Fits(client, f) /\ Path(After(client, f), Tail(wire), d)
  BY <1>1, <1>2, PathHead
<1>4. PICK m \in Nat : Carried(m)
  BY DEF ClaudeInv, TextInv
<1>5. Run(f.text, n) /\ l \in Nat /\ WireText(Tail(wire), n + l, m)
  <2>1. WireText(wire, n, m)
    BY <1>4 DEF Carried
  <2>. QED
    BY <1>1, <2>1, WireTextHead
<1>6. Run(content.text, 0) /\ n \in Nat
  BY DEF ClaudeInv, TextInv, Run
<1>. HIDE DEF f, n, l
<1>7. Run(content'.text, 0) /\ Len(content'.text) = n + l
  <2>1. Run(f.text, 0 + Len(content.text))
    BY <1>5, <1>6 DEF n
  <2>2. Run(content.text \o f.text, 0) /\ Len(content.text \o f.text) = n + l
    BY <1>6, <2>1, RunConcat DEF n, l
  <2>. QED
    BY <1>1, <2>2
<1>8. client' \in Messages
  BY <1>1, <1>3, AfterFits
<1>9. content'.starts \in SUBSET Nat /\ content'.text \in Seq(Nat)
  <2>1. f.index \in Nat /\ content.starts \in SUBSET Nat
    BY <1>3 DEF Frames, ClaudeInv, Records
  <2>2. content'.text \in Seq(Nat)
    BY <1>7 DEF Run
  <2>. QED
    BY <1>1, <2>1, <2>2
<1>10. Records'
  <2>1. content' \in [starts : SUBSET Nat, text : Seq(Nat)]
    BY <1>1, <1>9
  <2>. QED
    BY <1>1, <1>8, <2>1 DEF ClaudeInv, Records
<1>11. TextInv'
  <2>1. Carried(m)'
    BY <1>1, <1>4, <1>5, <1>7 DEF Carried
  <2>2. Withholding' = Withholding
    BY <1>1 DEF Withholding
  <2>. QED
    BY <1>1, <1>7, <2>1, <2>2 DEF ClaudeInv, TextInv
<1>12. MessageInv'
  BY <1>1, <1>2, <1>3 DEF MessageInv
<1>. QED
  BY <1>10, <1>11, <1>12

-----------------------------------------------------------------------------
(* Before the first event. *)
LEMMA ClaudeInvInit ==
  ASSUME ClaudeInit
  PROVE  ClaudeInv
<1>. DEFINE none == [t \in {} |-> 0]
<1>1. StartIsRecorded
  BY StartInit
<1>2. /\ Run(<<>>, 0) /\ Len(<<>>) = 0 /\ <<>> \in Seq(Frames) /\ <<>> \in Seq(Nat)
      /\ Silent(<<>>) /\ 0 \in Nat
  BY DEF Run, Silent
<1>3. none \in Blocks /\ DOMAIN none = {}
  BY DEF Blocks
<1>. HIDE DEF none
<1>4. writer = [started |-> FALSE, block |-> "none", index |-> 0, blocks |-> none]
  BY DEF ClaudeInit, none
<1>5. writer \in Writers /\ Known(writer)
  BY <1>3, <1>4 DEF Writers, Known
<1>6. client \in Messages /\ client.phase = "none" /\ client.open = {} /\ client.used = {}
      /\ client.owed = {}
  BY DEF ClaudeInit, Messages
<1>7. /\ cursor \in Cursors /\ cursor.sent = 0 /\ cursor.deltas = 0
      /\ 2 * cursor.sent = 0
  <2>1. 0 \in 0 .. MaxCursorEvents /\ 2 * 0 = 0
    BY ClaudeAssumption
  <2>. QED
    BY <2>1 DEF ClaudeInit, Cursors
<1>8. /\ limiter \in Limiters /\ limiter.held = <<>> /\ limiter.stopped = FALSE
      /\ flags \in FlagRecords /\ flags.started = FALSE
  BY <1>2 DEF ClaudeInit, Limiters, FlagRecords
<1>9. Records
  BY <1>2, <1>5, <1>6, <1>7, <1>8 DEF ClaudeInit, Records
<1>10. Carried(0)
  <2>1. WireText(<<>>, 0, 0) /\ 0 + 0 = 0
    BY <1>2 DEF WireText
  <2>. QED
    BY <1>2, <1>8, <2>1 DEF ClaudeInit, Carried
<1>11. TextInv
  BY <1>2, <1>7, <1>8, <1>10 DEF ClaudeInit, TextInv
<1>12. Agrees(client, writer, 0)
  BY <1>3, <1>4, <1>5, <1>6 DEF Agrees, SameBlocks, Opened
<1>13. MessageInv
  BY <1>6, <1>7, <1>8, <1>12, PathEmpty DEF ClaudeInit, MessageInv
<1>. QED
  BY <1>1, <1>6, <1>9, <1>11, <1>13 DEF ClaudeInv

(* The message changes when the client reads, and only then.               *)
LEMMA OnlyReadsTell ==
  ASSUME [ClaudeNext]_claudeVars
  PROVE  ClientReads \/ UNCHANGED client
BY DEF ClaudeNext, claudeVars, TextDelta, ThinkingDelta, Heartbeat, Snapshot, ToolStarted,
  ToolDelta, ToolCompleted, ToolResult, TurnEnded, Forward, TakeClaudeEvent,
  DeadlineOrTrailer, FailTurn, ServerToolTimeout, ChannelClosed

(* No step breaks the invariant. *)
LEMMA ClaudeInvNext ==
  ASSUME ClaudeInv, [ClaudeNext]_claudeVars
  PROVE  ClaudeInv'
<1>1. StartIsRecorded'
  BY StartNext DEF ClaudeInv
<1>. DEFINE Kept == Records' /\ TextInv' /\ MessageInv'
<1>2. ASSUME NEW k \in 0 .. MaxText, NEW signature \in BOOLEAN, Snapshot(k, signature)
      PROVE  Kept
  BY <1>2, SnapshotStep
<1>3. ASSUME NEW t \in Tools, ToolStarted(t)
      PROVE  Kept
  BY <1>3, ToolStartedStep
<1>4. ASSUME NEW t \in ClientTools, ToolDelta(t) \/ ToolCompleted(t)
      PROVE  Kept
  BY <1>4, ToolDeltaStep, ToolCompletedStep
<1>5. ASSUME NEW t \in ServerTools, ToolResult(t)
      PROVE  Kept
  BY <1>5, ToolResultStep
<1>6. ASSUME NEW usage \in BOOLEAN, TurnEnded(usage)
      PROVE  Kept
  BY <1>6, TurnEndedStep
<1>7. TextDelta \/ ThinkingDelta \/ Heartbeat => Kept
  BY TextDeltaStep, ThinkingStep, HeartbeatStep
<1>8. DeadlineOrTrailer \/ ServerToolTimeout \/ ChannelClosed => Kept
  BY FailStep, TimeoutStep, ClosedStep DEF DeadlineOrTrailer
<1>9. ClientReads => Kept
  BY ReadStep
<1>10. ASSUME UNCHANGED claudeVars
       PROVE  Kept
  <2>1. Records'
    BY <1>10 DEF claudeVars, ClaudeInv, Records
  <2>2. TextInv'
    BY <1>10 DEF claudeVars, ClaudeInv, TextInv, Carried, Withholding
  <2>3. MessageInv'
    BY <1>10 DEF claudeVars, ClaudeInv, MessageInv
  <2>. QED
    BY <2>1, <2>2, <2>3
<1>11. ClaudeNext => Kept
  <2>. HIDE DEF Kept
  <2>. QED
    BY <1>2, <1>3, <1>4, <1>5, <1>6, <1>7, <1>8, <1>9 DEF ClaudeNext
<1>12. client'.open \subseteq client'.used
  <2>1. client.open \subseteq client.used
    BY DEF ClaudeInv
  <2>2. CASE ClientReads
    BY <2>1, <2>2 DEF ClientReads, After
  <2>3. CASE UNCHANGED client
    BY <2>1, <2>3
  <2>. QED
    BY <2>2, <2>3, OnlyReadsTell
<1>. QED
  BY <1>1, <1>10, <1>11, <1>12 DEF ClaudeInv

(***************************************************************************)
(* The theorems.                                                           *)
(***************************************************************************)
(* The invariant holds in every state. *)
LEMMA ClaudeInvariance == ClaudeSpec => []ClaudeInv
<1>1. ClaudeInit => ClaudeInv
  BY ClaudeInvInit
<1>2. ClaudeInv /\ [ClaudeNext]_claudeVars => ClaudeInv'
  BY ClaudeInvNext
<1>. QED
  BY <1>1, <1>2, PTL DEF ClaudeSpec

(* The records keep their types, and the writer knows every tool block by  *)
(* an index it has passed (AnthropicStreamWriter.blockIndex).               *)
THEOREM ClaudeTypes == ClaudeSpec => []ClaudeTypeOK
<1>1. ClaudeInv => ClaudeTypeOK
  <2>. SUFFICES ASSUME ClaudeInv
                PROVE  ClaudeTypeOK
    OBVIOUS
  <2>1. /\ Known(writer) /\ client \in Messages /\ cursor \in Cursors
        /\ at \in {"loop", "returned"} /\ error \in {"none", "emit", "upstream"}
        /\ serverTool \in ServerTools \union {NoTool}
    BY DEF ClaudeInv, Records
  <2>2. /\ writer.block \in {"none", "text", "thinking"} /\ writer.index \in Nat
        /\ DOMAIN writer.blocks \subseteq Tools
        /\ \A t \in DOMAIN writer.blocks : writer.blocks[t] < writer.index
    BY <2>1, WriterFields, BlocksOf DEF Known
  <2>3. client.phase \in {"none", "open", "done", "failed", "empty", "broken"}
    BY <2>1, MessageFields
  <2>4. ASSUME at = "loop"
        PROVE  writer.index \in Indices
    <3>1. PICK d : Agrees(d, writer, 2 * cursor.sent)
      BY <2>4 DEF ClaudeInv, MessageInv
    <3>2. writer.index + Opened(writer) <= 2 * cursor.sent /\ Opened(writer) \in {0, 1}
      BY <3>1 DEF Agrees, Opened
    <3>3. cursor.sent \in 0 .. MaxCursorEvents /\ MaxCursorEvents \in Nat
      BY <2>1, ClaudeAssumption DEF Cursors
    <3>. QED
      BY <2>2, <3>2, <3>3 DEF Indices
  <2>. QED
    BY <2>1, <2>2, <2>3, <2>4 DEF ClaudeTypeOK
<1>. QED
  BY <1>1, ClaudeInvariance, PTL

(* The frames on the wire that carry text are one or none.                 *)
LEMMA TextOnTheWire ==
  ASSUME NEW a, NEW b, WireText(wire, a, b)
  PROVE  /\ \A j, k \in TextFrames : j = k
         /\ Run(OnTheWire, a) /\ a + Len(OnTheWire) = b
<1>1. a \in Nat /\ b \in Nat
  BY DEF WireText
<1>2. CASE Silent(wire) /\ b = a
  <2>1. TextFrames = {}
    BY <1>2 DEF TextFrames, Silent
  <2>2. OnTheWire = <<>>
    BY <2>1 DEF OnTheWire
  <2>3. a + 0 = a
    BY <1>1
  <2>. QED
    BY <1>1, <1>2, <2>1, <2>2, <2>3, RunEmpty
<1>3. ASSUME NEW i \in 1 .. Len(wire), Run(wire[i].text, a), Len(wire[i].text) = b - a, b > a,
             \A j \in 1 .. Len(wire) : j # i => wire[j].text = <<>>
      PROVE  /\ \A j, k \in TextFrames : j = k
             /\ Run(OnTheWire, a) /\ a + Len(OnTheWire) = b
  <2>1. Len(<<>>) = 0 /\ b - a # 0 /\ a + (b - a) = b
    BY <1>1, <1>3
  <2>2. wire[i].text # <<>>
    BY <1>3, <2>1
  <2>3. TextFrames = {i}
    BY <1>3, <2>2 DEF TextFrames
  <2>4. TextFrames # {} /\ (CHOOSE j \in TextFrames : TRUE) = i
    BY <2>3
  <2>5. OnTheWire = wire[i].text
    BY <2>4 DEF OnTheWire
  <2>. QED
    BY <1>3, <2>1, <2>3, <2>5
<1>. QED
  BY <1>2, <1>3 DEF WireText

(* A run is continued by the pieces that follow it. *)
LEMMA RunAppend ==
  ASSUME NEW s, NEW t, Run(s, 0), Run(t, Len(s))
  PROVE  Run(s \o t, 0) /\ Len(s \o t) = Len(s) + Len(t)
<1>1. 0 \in Nat /\ 0 + Len(s) = Len(s)
  BY DEF Run
<1>2. Run(t, 0 + Len(s))
  BY <1>1
<1>. QED
  BY <1>1, <1>2, RunConcat

(* Two runs from one place and of one length are the same. *)
LEMMA RunsAgree ==
  ASSUME NEW n, NEW s, NEW t, Run(s, n), Run(t, n), Len(s) = Len(t)
  PROVE  s = t
<1>1. s \in Seq(Nat) /\ t \in Seq(Nat) /\ \A j \in 1 .. Len(s) : s[j] = t[j]
  BY DEF Run
<1>. QED
  BY <1>1

(* The shorter of two runs begins the longer. *)
LEMMA RunPrefix ==
  ASSUME NEW s, NEW t, Run(s, 0), Run(t, 0), Len(s) <= Len(t)
  PROVE  IsPrefix(s, t)
<1>1. s \in Seq(Nat) /\ t \in Seq(Nat) /\ Len(s) \in Nat /\ Len(t) \in Nat
  BY DEF Run
<1>2. Len(s) \in 0 .. Len(s) /\ Len(s) \in 0 .. Len(t) /\ 0 \in Nat
  BY <1>1
<1>3. /\ Run(SubSeq(s, 1, Len(s)), 0) /\ Len(SubSeq(s, 1, Len(s))) = Len(s)
      /\ Run(SubSeq(t, 1, Len(s)), 0) /\ Len(SubSeq(t, 1, Len(s))) = Len(s)
  BY <1>2, RunSplit
<1>4. SubSeq(s, 1, Len(s)) = SubSeq(t, 1, Len(s))
  BY <1>3, RunsAgree
<1>. QED
  BY <1>4 DEF IsPrefix

(* The text of the turn reaches the client once and in order, whatever     *)
(* mixture of deltas and snapshots Cursor sent it in, and whatever was held *)
(* back for the signature or by the limiter (consumeDelta, consumeSnapshot, *)
(* emitCachedClaudeText and OutputLimiter).                                 *)
THEOREM TextStaysInOrder == ClaudeSpec => []TextInOrder
<1>1. ClaudeInv => TextInOrder
  <2>. SUFFICES ASSUME ClaudeInv
                PROVE  TextInOrder
    OBVIOUS
  <2>. DEFINE read == content.text
              sent == read \o OnTheWire
  <2>1. PICK n \in Nat : Carried(n)
    BY DEF ClaudeInv, TextInv
  <2>2. Run(assistant.text, 0) /\ Run(read, 0)
    BY DEF ClaudeInv, TextInv
  <2>3. /\ \A j, k \in TextFrames : j = k
        /\ Run(OnTheWire, Len(read)) /\ Len(read) + Len(OnTheWire) = n
    BY <2>1, TextOnTheWire DEF Carried
  <2>4. Run(sent, 0) /\ Len(sent) = n
    <3>. HIDE DEF read
    <3>. QED
      BY <2>2, <2>3, RunAppend
  <2>. HIDE DEF sent
  <2>5. IsPrefix(sent, assistant.text)
    BY <2>1, <2>2, <2>4, RunPrefix DEF Carried
  <2>6. ASSUME ~limiter.stopped, error # "emit"
        PROVE  sent \o pendingText \o limiter.held = assistant.text
    <3>1. /\ Run(pendingText, n) /\ Run(limiter.held, n + Len(pendingText))
          /\ n + Len(pendingText) + Len(limiter.held) = Len(assistant.text)
      BY <2>1, <2>6 DEF Carried
    <3>. DEFINE s == sent \o pendingText
    <3>2. Run(s, 0) /\ Len(s) = n + Len(pendingText)
      <4>1. Run(pendingText, Len(sent))
        BY <2>4, <3>1
      <4>. QED
        BY <2>4, <4>1, RunAppend
    <3>. HIDE DEF s
    <3>3. Run(s \o limiter.held, 0) /\ Len(s \o limiter.held) = Len(assistant.text)
      <4>1. Run(limiter.held, Len(s))
        BY <3>1, <3>2
      <4>2. Run(s \o limiter.held, 0) /\ Len(s \o limiter.held) = Len(s) + Len(limiter.held)
        BY <3>2, <4>1, RunAppend
      <4>. QED
        BY <3>1, <3>2, <4>2
    <3>. QED
      BY <2>2, <3>3, RunsAgree DEF s
  <2>7. \A j \in 1 .. Len(assistant.text) : assistant.text[j] = j
    BY <2>2 DEF Run
  <2>. QED
    BY <2>3, <2>5, <2>6, <2>7 DEF TextInOrder, sent
<1>. QED
  BY <1>1, ClaudeInvariance, PTL

(* The frame the client reads is one the protocol has a place for.         *)
LEMMA ReadFits ==
  ASSUME ClaudeInv, ClientReads
  PROVE  /\ client \in Messages /\ client.open \subseteq client.used
         /\ \E f \in Frames : Fits(client, f) /\ client' = After(client, f)
<1>1. PICK d : Path(client, wire, d)
  BY DEF ClaudeInv, MessageInv
<1>2. wire # <<>> /\ client' = After(client, Head(wire))
  BY DEF ClientReads
<1>3. Head(wire) \in Frames /\ Fits(client, Head(wire))
  BY <1>1, <1>2, PathHead
<1>. QED
  BY <1>2, <1>3 DEF ClaudeInv, Records

(* To read a frame that fits is a step of the message, or none. *)
LEMMA ReadRefines ==
  ASSUME ClaudeInv, ClientReads
  PROVE  Message!MessageNext \/ UNCHANGED Message!messageVars
<1>1. PICK f \in Frames : Fits(client, f) /\ client' = After(client, f)
  BY ReadFits
<1>2. client \in Messages /\ client.open \subseteq client.used /\ ~Misplaced(client, f)
  BY <1>1, ReadFits, AfterFits
<1>. DEFINE c == client'
<1>3. /\ c.phase = CASE f.type = "message_start" -> "open"
                     [] f.type = "message_stop" ->
                          IF client.phase = "none" THEN "empty" ELSE "done"
                     [] f.type = "error" -> "failed"
                     [] OTHER -> client.phase
      /\ c.open = CASE OpensTool(f) -> client.open \union {f.index}
                    [] f.type = "stop" -> client.open \ {f.index}
                    [] OTHER -> client.open
      /\ c.used = IF OpensTool(f) THEN client.used \union {f.index} ELSE client.used
      /\ c.owed = CASE f.type = "start" /\ f.kind = "server" -> client.owed \union {f.id}
                    [] f.type = "start" /\ f.kind = "result" -> client.owed \ {f.id}
                    [] OTHER -> client.owed
  BY <1>1, <1>2 DEF After
<1>. HIDE DEF c
<1>4. /\ c = client'
      /\ client.phase \in {"none", "open"}
      /\ StartedPhase(client) = client.phase
      /\ StartedPhase(client)' = IF c.phase = "empty" THEN "none" ELSE c.phase
  BY <1>1 DEF c, StartedPhase, Fits, Frames
<1>5. CASE f.type = "message_start"
  <2>1. client.phase = "none" /\ c.phase = "open"
        /\ c.open = client.open /\ c.used = client.used /\ c.owed = client.owed
    BY <1>1, <1>3, <1>5 DEF Fits, OpensTool
  <2>2. Message!StartMessage
    BY <1>4, <2>1 DEF Message!StartMessage
  <2>. QED
    BY <2>2 DEF Message!MessageNext
<1>6. CASE f.type = "message_stop"
  <2>1. client.open = {} /\ client.owed = {}
        /\ c.open = client.open /\ c.used = client.used /\ c.owed = client.owed
        /\ c.phase = IF client.phase = "none" THEN "empty" ELSE "done"
    BY <1>1, <1>3, <1>6 DEF Fits, OpensTool
  <2>2. CASE client.phase = "open"
    <3>1. Message!StopMessage
      BY <1>4, <2>1, <2>2 DEF Message!StopMessage
    <3>. QED
      BY <3>1 DEF Message!MessageNext
  <2>3. CASE client.phase = "none"
    BY <1>4, <2>1, <2>3 DEF Message!messageVars
  <2>. QED
    BY <1>4, <2>2, <2>3
<1>7. CASE f.type = "error"
  <2>1. client.phase = "open" /\ c.phase = "failed"
        /\ c.open = client.open /\ c.used = client.used /\ c.owed = client.owed
    BY <1>1, <1>3, <1>7 DEF Fits, OpensTool
  <2>2. Message!ReportError
    BY <1>4, <2>1 DEF Message!ReportError
  <2>. QED
    BY <2>2 DEF Message!MessageNext
<1>8. CASE f.type \in {"delta", "ping"}
  <2>1. c.phase = client.phase
        /\ c.open = client.open /\ c.used = client.used /\ c.owed = client.owed
    BY <1>3, <1>8 DEF OpensTool
  <2>. QED
    BY <1>4, <2>1 DEF Message!messageVars
<1>9. CASE f.type = "stop"
  <2>1. client.phase = "open" /\ c.phase = client.phase /\ c.open = client.open \ {f.index}
        /\ c.used = client.used /\ c.owed = client.owed
    BY <1>1, <1>3, <1>9 DEF Fits, OpensTool
  <2>2. CASE f.index \in client.open \intersect Indices
    <3>1. Message!StopBlock(f.index)
      BY <1>4, <2>1, <2>2 DEF Message!StopBlock
    <3>. QED
      BY <2>2, <3>1 DEF Message!MessageNext
  <2>3. CASE f.index \notin client.used
    <3>1. c.open = client.open
      BY <1>2, <2>1, <2>3
    <3>. QED
      BY <1>4, <2>1, <3>1 DEF Message!messageVars
  <2>. QED
    BY <1>1, <1>9, <2>2, <2>3 DEF Fits
<1>10. CASE f.type = "start"
  <2>1. client.phase = "open" /\ c.phase = client.phase /\ f.index \notin client.used
    BY <1>1, <1>3, <1>10 DEF Fits
  <2>2. CASE f.kind \in {"tool", "server"}
    <3>1. f.index \in Indices /\ c.open = client.open \union {f.index}
          /\ c.used = client.used \union {f.index}
      BY <1>1, <1>3, <1>10, <2>2 DEF Fits, OpensTool
    <3>2. Message!StartBlock(f.index)
      BY <1>4, <2>1, <3>1 DEF Message!StartBlock
    <3>3. CASE f.kind = "tool"
      <4>1. c.owed = client.owed
        BY <1>3, <3>3
      <4>2. Message!StartTool(f.index)
        BY <1>4, <2>1, <3>2, <4>1 DEF Message!StartTool
      <4>. QED
        BY <3>1, <4>2 DEF Message!MessageNext
    <3>4. CASE f.kind = "server"
      <4>1. f.id \in ServerTools /\ c.owed = client.owed \union {f.id}
        BY <1>1, <1>3, <1>10, <3>4 DEF Fits
      <4>2. Message!AnnounceTool(f.index, f.id)
        BY <1>4, <2>1, <3>2, <4>1 DEF Message!AnnounceTool
      <4>. QED
        BY <3>1, <4>1, <4>2 DEF Message!MessageNext
    <3>. QED
      BY <2>2, <3>3, <3>4
  <2>3. CASE f.kind = "result"
    <3>1. f.id \in ServerTools /\ c.owed = client.owed \ {f.id}
          /\ c.open = client.open /\ c.used = client.used
      BY <1>1, <1>3, <1>10, <2>3 DEF Fits, OpensTool
    <3>2. Message!AnswerTool(f.id)
      BY <1>4, <2>1, <3>1 DEF Message!AnswerTool
    <3>. QED
      BY <3>1, <3>2 DEF Message!MessageNext
  <2>4. CASE f.kind \in {"none", "text", "thinking"}
    <3>1. c.open = client.open /\ c.used = client.used /\ c.owed = client.owed
      BY <1>3, <1>10, <2>4 DEF OpensTool
    <3>. QED
      BY <1>4, <2>1, <3>1 DEF Message!messageVars
  <2>. QED
    BY <2>2, <2>3, <2>4 DEF Frames
<1>. QED
  BY <1>5, <1>6, <1>7, <1>8, <1>9, <1>10 DEF Frames

(* A message that starts is one as AnthropicMessage allows it: every frame  *)
(* the writer's encoders put on the wire has its place, for any tools and   *)
(* any order of Cursor's events (AnthropicStreamWriter).                   *)
THEOREM MessageRefined == ClaudeSpec => MessageSpec
<1>1. ClaudeInit => Message!MessageInit
  BY DEF ClaudeInit, StartedPhase, Message!MessageInit
<1>2. ASSUME ClaudeInv, [ClaudeNext]_claudeVars
      PROVE  [Message!MessageNext]_(Message!messageVars)
  <2>1. CASE ClientReads
    BY <1>2, <2>1, ReadRefines
  <2>2. CASE UNCHANGED client
    BY <2>2 DEF StartedPhase, Message!messageVars
  <2>. QED
    BY <1>2, <2>1, <2>2, OnlyReadsTell
<1>. QED
  BY <1>1, <1>2, ClaudeInvariance, PTL DEF ClaudeSpec, MessageSpec, Message!MessageSpec
=============================================================================
