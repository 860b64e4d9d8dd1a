-------------------------- MODULE ChatStreamProofs --------------------------
(***************************************************************************)
(* Proofs about ChatStream, for any requests and consumers, any capacity   *)
(* of the channel and of the connection, and any number of frames.         *)
(***************************************************************************)
EXTENDS ChatStream, SequenceTheorems, TLAPS

(* The frames from the consumer back to the connection. *)
Taken == (received \o out.buf \o InHand) \o buf
Flow == Taken \o wire

(* The frames numbered up to n, once each and in order, heartbeats between. *)
InOrder(s, n) ==
  /\ \A m \in 1 .. n : \E j \in 1 .. Len(s) : s[j].n = m
  /\ \A i \in 1 .. Len(s) :
       /\ s[i].n <= n
       /\ \A j \in 1 .. i - 1 : s[i].n # 0 => s[j].n < s[i].n

(* The reader asks the connection for more only when its buffer is empty. *)
ChatInv ==
  /\ ChatTypeOK
  /\ reader \in {"check", "read"} => buf = <<>>
  /\ InOrder(Flow, nSent)

-----------------------------------------------------------------------------
(* Sequences.                                                               *)
LEMMA OrderedAppend ==
  ASSUME NEW s \in Seq(Frames), NEW n \in Nat, NEW k \in Nat, NEW f \in Frames, InOrder(s, n),
         \/ f.n = 0 /\ k = n
         \/ f.n = n + 1 /\ k = n + 1
  PROVE  InOrder(Append(s, f), k)
<1>. DEFINE t == Append(s, f)
<1>1. /\ Len(t) = Len(s) + 1 /\ Len(s) \in Nat /\ t[Len(s) + 1] = f
      /\ \A i \in 1 .. Len(s) : t[i] = s[i]
  OBVIOUS
<1>2. \A i \in 1 .. Len(s) : s[i].n \in Nat /\ s[i].n <= n
  <2>1. \A i \in 1 .. Len(s) : s[i] \in Frames
    BY ElementOfSeq
  <2>. QED
    BY <2>1 DEF InOrder, Frames
<1>. HIDE DEF t
<1>3. ASSUME NEW m \in 1 .. k
      PROVE  \E j \in 1 .. Len(t) : t[j].n = m
  <2>1. CASE m \in 1 .. n
    <3>1. PICK j \in 1 .. Len(s) : s[j].n = m
      BY <2>1 DEF InOrder
    <3>. QED
      BY <1>1, <3>1
  <2>2. CASE m = n + 1 /\ f.n = n + 1
    BY <1>1, <2>2
  <2>. QED
    BY <2>1, <2>2
<1>4. ASSUME NEW i \in 1 .. Len(t)
      PROVE  /\ t[i].n <= k
             /\ \A j \in 1 .. i - 1 : t[i].n # 0 => t[j].n < t[i].n
  <2>1. CASE i \in 1 .. Len(s)
    <3>1. t[i] = s[i] /\ \A j \in 1 .. i - 1 : t[j] = s[j]
      BY <1>1, <2>1
    <3>2. s[i].n <= n /\ \A j \in 1 .. i - 1 : s[i].n # 0 => s[j].n < s[i].n
      BY <2>1 DEF InOrder
    <3>3. s[i].n \in Nat /\ n <= k
      BY <1>2, <2>1
    <3>. QED
      BY <3>1, <3>2, <3>3
  <2>2. CASE i = Len(s) + 1
    <3>1. t[i] = f /\ \A j \in 1 .. i - 1 : t[j].n \in Nat /\ t[j].n <= n
      BY <1>1, <1>2, <2>2
    <3>. QED
      BY <3>1
  <2>. QED
    BY <1>1, <2>1, <2>2
<1>. QED
  BY <1>3, <1>4 DEF InOrder, t

(* A heartbeat may be left out. *)
LEMMA OrderedWithout ==
  ASSUME NEW a \in Seq(Frames), NEW b \in Seq(Frames), NEW f \in Frames, f.n = 0, NEW n \in Nat,
         InOrder(Append(a, f) \o b, n)
  PROVE  InOrder(a \o b, n)
<1>. DEFINE s == Append(a, f) \o b
            t == a \o b
            Old(i) == IF i <= Len(a) THEN i ELSE i + 1
<1>1. /\ Len(a) \in Nat /\ Len(b) \in Nat
      /\ Len(s) = Len(a) + Len(b) + 1 /\ Len(t) = Len(a) + Len(b)
      /\ s[Len(a) + 1] = f
      /\ \A i \in 1 .. Len(t) : Old(i) \in 1 .. Len(s) /\ s[Old(i)] = t[i]
  OBVIOUS
<1>2. \A j \in 1 .. Len(s) : j # Len(a) + 1 => \E i \in 1 .. Len(t) : j = Old(i)
  <2>. SUFFICES ASSUME NEW j \in 1 .. Len(s), j # Len(a) + 1
                PROVE  \E i \in 1 .. Len(t) : j = Old(i)
    OBVIOUS
  <2>1. CASE j <= Len(a)
    BY <1>1, <2>1
  <2>2. CASE j > Len(a) + 1
    <3>1. j - 1 \in 1 .. Len(t) /\ j = Old(j - 1)
      BY <1>1, <2>2
    <3>. QED
      BY <3>1
  <2>. QED
    BY <1>1, <2>1, <2>2
<1>3. \A i, j \in 1 .. Len(t) : j < i => Old(j) \in 1 .. Old(i) - 1
  BY <1>1
<1>4. InOrder(s, n)
  OBVIOUS
<1>. HIDE DEF s, t, Old
<1>5. ASSUME NEW m \in 1 .. n
      PROVE  \E i \in 1 .. Len(t) : t[i].n = m
  <2>1. PICK j \in 1 .. Len(s) : s[j].n = m
    BY <1>4 DEF InOrder
  <2>2. j # Len(a) + 1
    BY <1>1, <2>1
  <2>3. PICK i \in 1 .. Len(t) : j = Old(i)
    BY <1>2, <2>2
  <2>. QED
    BY <1>1, <2>1, <2>3
<1>6. ASSUME NEW i \in 1 .. Len(t)
      PROVE  /\ t[i].n <= n
             /\ \A j \in 1 .. i - 1 : t[i].n # 0 => t[j].n < t[i].n
  BY <1>1, <1>3, <1>4 DEF InOrder
<1>. QED
  BY <1>5, <1>6 DEF InOrder, t

(* The head of a sequence moves to the end of the one in front of it. *)
LEMMA MoveHead ==
  ASSUME NEW S, NEW a \in Seq(S), NEW b \in Seq(S), b # <<>>
  PROVE  /\ Head(b) \in S /\ Tail(b) \in Seq(S)
         /\ Append(a, Head(b)) \o Tail(b) = a \o b
<1>1. Head(b) \in S /\ Tail(b) \in Seq(S)
  OBVIOUS
<1>2. Append(a, Head(b)) \o Tail(b) \in Seq(S) /\ a \o b \in Seq(S)
  BY <1>1
<1>3. Len(Append(a, Head(b)) \o Tail(b)) = Len(a \o b)
  BY <1>1
<1>4. \A i \in 1 .. Len(a \o b) : (Append(a, Head(b)) \o Tail(b))[i] = (a \o b)[i]
  BY <1>1
<1>. QED
  BY <1>1, <1>2, <1>3, <1>4, SeqEqual

LEMMA Assoc ==
  ASSUME NEW a \in Seq(Frames), NEW b \in Seq(Frames), NEW c \in Seq(Frames)
  PROVE  (a \o b) \o c = a \o (b \o c)
BY ConcatAssociative

LEMMA AppendBehind ==
  ASSUME NEW a \in Seq(Frames), NEW b \in Seq(Frames), NEW f \in Frames
  PROVE  a \o Append(b, f) = Append(a \o b, f)
<1>1. a \o b \in Seq(Frames) /\ <<f>> \in Seq(Frames)
  OBVIOUS
<1>2. Append(b, f) = b \o <<f>> /\ Append(a \o b, f) = (a \o b) \o <<f>>
  BY <1>1, AppendIsConcat
<1>3. (a \o b) \o <<f>> = a \o (b \o <<f>>)
  BY <1>1, Assoc, ZenonT(30)
<1>. QED
  BY <1>2, <1>3

(* A read moves the front of what has arrived into the buffer. *)
LEMMA ReadMoves ==
  ASSUME NEW x \in Seq(Frames), NEW b \in Seq(Frames), NEW w \in Seq(Frames), NEW n \in 1 .. Len(w),
         NEW k \in Nat, InOrder((x \o b) \o w, k)
  PROVE  InOrder((x \o (b \o SubSeq(w, 1, n))) \o SubSeq(w, n + 1, Len(w)), k)
<1>. DEFINE front == SubSeq(w, 1, n)
            rest == SubSeq(w, n + 1, Len(w))
<1>1. front \in Seq(Frames) /\ rest \in Seq(Frames) /\ x \o b \in Seq(Frames)
  OBVIOUS
<1>2. front \o rest = w
  <2>1. 1 \in 1 .. Len(w) + 1 /\ n \in 1 - 1 .. Len(w) /\ Len(w) \in n .. Len(w)
    OBVIOUS
  <2>2. SubSeq(w, 1, n) \o SubSeq(w, n + 1, Len(w)) = SubSeq(w, 1, Len(w))
    BY <2>1, ConcatAdjacentSubSeq
  <2>. QED
    BY <2>2, SubSeqFull
<1>. HIDE DEF front, rest
<1>3. (x \o b) \o front = x \o (b \o front)
  BY <1>1, Assoc, ZenonT(30)
<1>4. ((x \o b) \o front) \o rest = (x \o b) \o (front \o rest)
  BY <1>1, Assoc, ZenonT(30)
<1>5. (x \o (b \o front)) \o rest = (x \o b) \o w
  BY <1>2, <1>3, <1>4
<1>. QED
  BY <1>5 DEF front, rest

(* What the reader holds goes to the end of the channel. *)
LEMMA SendMoves ==
  ASSUME NEW r \in Seq(Frames), NEW o \in Seq(Frames), NEW f \in Frames
  PROVE  (r \o Append(o, f)) \o <<>> = (r \o o) \o <<f>>
<1>1. <<f>> \in Seq(Frames) /\ Append(o, f) = o \o <<f>>
  BY AppendIsConcat
<1>2. (r \o o) \o <<f>> = r \o (o \o <<f>>)
  BY <1>1, Assoc, ZenonT(30)
<1>3. r \o Append(o, f) \in Seq(Frames)
  OBVIOUS
<1>. QED
  BY <1>1, <1>2, <1>3, ConcatEmptySeq

(* The front r may stand where u stood, whatever comes behind.                 *)
Replaces(r, u, n) == \A a \in Seq(Frames) : InOrder(u \o a, n) => InOrder(r \o a, n)

LEMMA ReplacesBefore ==
  ASSUME NEW r \in Seq(Frames), NEW u \in Seq(Frames), NEW c \in Seq(Frames), NEW n,
         Replaces(r, u, n)
  PROVE  Replaces(r \o c, u \o c, n)
<1>. SUFFICES ASSUME NEW a \in Seq(Frames), InOrder((u \o c) \o a, n)
              PROVE  InOrder((r \o c) \o a, n)
  BY Zenon DEF Replaces
<1>1. ASSUME NEW x \in Seq(Frames)
      PROVE  (x \o c) \o a = x \o (c \o a)
  BY <1>1, Assoc, ZenonT(30)
<1>2. c \o a \in Seq(Frames)
  OBVIOUS
<1>3. InOrder(u \o (c \o a), n)
  BY <1>1, Zenon
<1>4. InOrder(r \o (c \o a), n)
  BY <1>2, <1>3, Zenon DEF Replaces
<1>. QED
  BY <1>1, <1>4, Zenon

(* The consumer takes the head of the channel, and drops it when it is a    *)
(* heartbeat.                                                              *)
LEMMA TakeMoves ==
  ASSUME NEW r \in Seq(Frames), NEW o \in Seq(Frames), o # <<>>, NEW h \in Seq(Frames),
         NEW b \in Seq(Frames), NEW w \in Seq(Frames), NEW n \in Nat,
         InOrder((((r \o o) \o h) \o b) \o w, n),
         NEW t, t = IF Head(o).n = 0 THEN r ELSE Append(r, Head(o))
  PROVE  InOrder((((t \o Tail(o)) \o h) \o b) \o w, n)
<1>. DEFINE f == Head(o)
            rest == Tail(o)
            u == Append(r, f)
<1>1. f \in Frames /\ rest \in Seq(Frames)
  BY MoveHead
<1>2. u \in Seq(Frames) /\ u \o rest \in Seq(Frames) /\ r \o rest \in Seq(Frames)
  BY <1>1
<1>3. u \o rest = r \o o
  BY MoveHead, Zenon
<1>4. InOrder((((u \o rest) \o h) \o b) \o w, n)
  BY <1>3
<1>5. CASE f.n # 0
  BY <1>4, <1>5
<1>6. CASE f.n = 0
  <2>1. Replaces(r, u, n)
    BY <1>1, <1>6, OrderedWithout DEF Replaces
  <2>2. t = r
    BY <1>6
  <2>. HIDE DEF f, rest, u
  <2>3. Replaces(r \o rest, u \o rest, n)
    BY <1>1, <1>2, <2>1, ReplacesBefore
  <2>4. Replaces((r \o rest) \o h, (u \o rest) \o h, n)
    BY <1>2, <2>3, ReplacesBefore
  <2>5. (r \o rest) \o h \in Seq(Frames) /\ (u \o rest) \o h \in Seq(Frames)
    BY <1>2, ConcatProperties
  <2>6. Replaces(((r \o rest) \o h) \o b, ((u \o rest) \o h) \o b, n)
    BY <2>4, <2>5, ReplacesBefore
  <2>7. InOrder((((r \o rest) \o h) \o b) \o w, n)
    BY <1>4, <2>6, Zenon DEF Replaces
  <2>. QED
    BY <2>2, <2>7 DEF rest
<1>. QED
  BY <1>5, <1>6

-----------------------------------------------------------------------------
(* Types.                                                                   *)
LEMMA TypeInit ==
  ASSUME ChatInit
  PROVE  ChatTypeOK
<1>1. /\ BufCap \in Nat /\ Window \in Nat /\ MaxFrames \in Nat
  BY StreamAssumption DEF StreamAssumption
<1>2. MakeChan \in Chan(Frames, BufCap) /\ ~MakeChan.closed
  BY <1>1 DEF Chan, MakeChan
<1>3. NoFrame \in Frames
  BY <1>1 DEF NoFrame, Frame, Frames, FrameTypes
<1>4. \A s : s = <<>> => s \in Seq(Frames) /\ Len(s) <= Window
  BY <1>1
<1>5. nSent \in 0 .. MaxFrames
  BY <1>1 DEF ChatInit
<1>6. out \in Chan(Frames, BufCap) /\ (out.closed <=> reader = "done")
  BY <1>2 DEF ChatInit
<1>. QED
  BY <1>3, <1>4, <1>5, <1>6 DEF ChatInit, ChatTypeOK

(* What is done to the channel leaves a channel. *)
LEMMA ChannelTypes ==
  ASSUME ChatTypeOK
  PROVE  /\ CloseChan(out) \in Chan(Frames, BufCap) /\ CloseChan(out).closed
         /\ CloseChan(out).buf = out.buf
         /\ \A f \in Frames : ~IsFull(out, BufCap) =>
              LET ch == TrySend(out, f, BufCap)
              IN  /\ ch \in Chan(Frames, BufCap) /\ ch.closed = out.closed
                  /\ ch.buf = Append(out.buf, f)
                  /\ CloseChan(ch) \in Chan(Frames, BufCap) /\ CloseChan(ch).closed
                  /\ CloseChan(ch).buf = Append(out.buf, f)
         /\ HasMessage(out) =>
              /\ out.buf # <<>> /\ Head(out.buf) \in Frames
              /\ Receive(out) \in Chan(Frames, BufCap) /\ Receive(out).closed = out.closed
              /\ Receive(out).buf = Tail(out.buf)
<1>1. /\ out \in [buf : Seq(Frames), closed : BOOLEAN] /\ Len(out.buf) <= BufCap
      /\ BufCap \in Nat
  BY StreamAssumption DEF ChatTypeOK, Chan, StreamAssumption
<1>2. /\ CloseChan(out) \in Chan(Frames, BufCap) /\ CloseChan(out).closed
      /\ CloseChan(out).buf = out.buf
  BY <1>1 DEF CloseChan, Chan
<1>3. ASSUME NEW f \in Frames, ~IsFull(out, BufCap)
      PROVE  LET ch == TrySend(out, f, BufCap)
             IN  /\ ch \in Chan(Frames, BufCap) /\ ch.closed = out.closed
                 /\ ch.buf = Append(out.buf, f)
                 /\ CloseChan(ch) \in Chan(Frames, BufCap) /\ CloseChan(ch).closed
                 /\ CloseChan(ch).buf = Append(out.buf, f)
  <2>. DEFINE ch == TrySend(out, f, BufCap)
  <2>1. /\ ch = [out EXCEPT !.buf = Append(out.buf, f)]
        /\ Append(out.buf, f) \in Seq(Frames) /\ Len(Append(out.buf, f)) <= BufCap
    BY <1>1, <1>3 DEF TrySend, IsFull
  <2>2. /\ ch \in Chan(Frames, BufCap) /\ ch.closed = out.closed
        /\ ch.buf = Append(out.buf, f)
    BY <1>1, <2>1 DEF Chan
  <2>. HIDE DEF ch
  <2>3. /\ CloseChan(ch) \in Chan(Frames, BufCap) /\ CloseChan(ch).closed
        /\ CloseChan(ch).buf = ch.buf
    BY <2>2 DEF CloseChan, Chan
  <2>. QED
    BY <2>2, <2>3 DEF ch
<1>4. ASSUME HasMessage(out)
      PROVE  /\ out.buf # <<>> /\ Head(out.buf) \in Frames
             /\ Receive(out) \in Chan(Frames, BufCap) /\ Receive(out).closed = out.closed
             /\ Receive(out).buf = Tail(out.buf)
  BY <1>1, <1>4 DEF HasMessage, Receive, Chan
<1>. QED
  BY <1>2, <1>3, <1>4

LEMMA TypeNext ==
  ASSUME ChatInv, ChatNext
  PROVE  ChatTypeOK'
<1>. ChatTypeOK /\ (reader \in {"check", "read"} => buf = <<>>)
  BY DEF ChatInv
<1>. /\ BufCap \in Nat /\ Window \in Nat /\ MaxFrames \in Nat
  BY StreamAssumption DEF StreamAssumption
<1>0. NoFrame \in Frames
  BY DEF NoFrame, Frame, Frames, FrameTypes
<1>. USE DEF ChatTypeOK
<1>1. ASSUME NEW f \in Frames, Connected, Arrive(f), nSent' \in 0 .. MaxFrames
      PROVE  ChatTypeOK'
  <2>1. wire' = Append(wire, f) /\ server' \in {"live", "ended"}
    BY <1>1 DEF Arrive
  <2>2. wire' \in Seq(Frames) /\ Len(wire') <= Window
    BY <1>1, <2>1 DEF Connected
  <2>. QED
    BY <1>1, <2>1, <2>2
       DEF Arrive, requestVars, bufVars, turnVars, timerVars, consumerVars
<1>2. CASE ServerHeartbeat
  BY <1>0, <1>1, <1>2 DEF ServerHeartbeat
<1>3. ASSUME NEW type \in FrameTypes \ {"heartbeat"}, ServerFrame(type)
      PROVE  ChatTypeOK'
  <2>1. Frame(type, nSent + 1) \in Frames /\ nSent' \in 0 .. MaxFrames
    BY <1>3 DEF ServerFrame, Frame, Frames
  <2>. QED
    BY <1>1, <1>3, <2>1 DEF ServerFrame
<1>4. CASE ServerEnds
  BY <1>4 DEF ServerEnds, requestVars, bufVars, turnVars, timerVars, consumerVars
<1>5. CASE CheckDeadline
  <2>1. \/ out' = CloseChan(out) /\ reader' = "done"
        \/ out' = out /\ reader' = "read"
    BY <1>5 DEF CheckDeadline, Return
  <2>2. out' \in Chan(Frames, BufCap) /\ (out'.closed <=> reader' = "done")
    BY <1>5, <2>1, ChannelTypes DEF CheckDeadline
  <2>. QED
    BY <1>5, <2>1, <2>2
       DEF CheckDeadline, Return, requestVars, serverVars, bufVars, turnVars, timerVars, consumerVars
<1>6. CASE ReadBody
  <2>1. /\ buf' \in Seq(Frames) /\ Len(buf') <= Window
        /\ wire' \in Seq(Frames) /\ Len(wire') <= Window /\ readErr' \in BOOLEAN
    <3>1. ASSUME NEW n \in 1 .. Len(wire), buf' = buf \o SubSeq(wire, 1, n),
                 wire' = SubSeq(wire, n + 1, Len(wire)),
                 readErr' \in {FALSE, (cancelled \/ server = "ended") /\ n = Len(wire)}
          PROVE  /\ buf' \in Seq(Frames) /\ Len(buf') <= Window
                 /\ wire' \in Seq(Frames) /\ Len(wire') <= Window /\ readErr' \in BOOLEAN
      <4>1. SubSeq(wire, 1, n) \in Seq(Frames) /\ Len(SubSeq(wire, 1, n)) = n
        BY <3>1
      <4>2. buf = <<>>
        BY <1>6 DEF ReadBody
      <4>3. buf' = SubSeq(wire, 1, n)
        BY <3>1, <4>1, <4>2
      <4>4. wire' \in Seq(Frames) /\ Len(wire') <= Window
        BY <3>1
      <4>5. readErr' \in BOOLEAN
        BY <3>1
      <4>6. n <= Window
        BY <3>1
      <4>. QED
        BY <4>1, <4>3, <4>4, <4>5, <4>6
    <3>2. CASE readErr' = TRUE /\ UNCHANGED <<buf, wire>>
      BY <3>2
    <3>. QED
      BY <1>6, <3>1, <3>2 DEF ReadBody
  <2>. QED
    BY <1>6, <2>1 DEF ReadBody, requestVars, turnVars, timerVars, consumerVars
<1>7. CASE TakeFrame
  <2>1. buf' \in Seq(Frames) /\ Len(buf') <= Window /\ hand' \in Frames
    BY <1>7 DEF TakeFrame
  <2>2. /\ reader' \in {"approve", "send", "sendLast"}
        /\ turnEnded' \in BOOLEAN /\ sawAssistant' \in BOOLEAN
        /\ deadline' \in {"off", "grace", "window", "fired"}
        /\ resultTimer' \in {"off", "armed", "over"}
    <3>1. CASE Signals(Head(buf)) /\ reader' \in {"approve", "send"}
      BY <3>1 DEF Signals, SetDeadline, ArmResultTimer
    <3>2. CASE reader' = "sendLast" /\ UNCHANGED <<turnVars, deadline, resultTimer>>
      BY <3>2 DEF turnVars
    <3>. QED
      BY <1>7, <3>1, <3>2 DEF TakeFrame
  <2>. QED
    BY <1>7, <2>1, <2>2 DEF TakeFrame, requestVars, serverVars, consumerVars
<1>8. CASE Approve
  BY <1>8 DEF Approve, ArmResultTimer, requestVars, serverVars, bufVars, turnVars, consumerVars
<1>9. CASE SendEvent
  <2>1. CASE reader = "sendLast"
    <3>1. out' \in Chan(Frames, BufCap) /\ out'.closed /\ reader' = "done"
      BY <1>9, <2>1, ChannelTypes DEF SendEvent
    <3>. QED
      BY <1>0, <1>9, <2>1, <3>1
         DEF SendEvent, requestVars, serverVars, bufVars, turnVars, timerVars, consumerVars
  <2>2. CASE reader = "send"
    <3>1. out' \in Chan(Frames, BufCap) /\ out'.closed = out.closed /\ reader' = "frames"
      BY <1>9, <2>2, ChannelTypes DEF SendEvent
    <3>. QED
      BY <1>0, <1>9, <2>2, <3>1
         DEF SendEvent, requestVars, serverVars, bufVars, turnVars, timerVars, consumerVars
  <2>. QED
    BY <1>9, <2>1, <2>2 DEF SendEvent
<1>10. CASE NextRead
  <2>1. \/ out' = CloseChan(out) /\ reader' = "done"
        \/ out' = out /\ reader' = "check"
    BY <1>10 DEF NextRead, Return
  <2>2. out' \in Chan(Frames, BufCap) /\ (out'.closed <=> reader' = "done")
    BY <1>10, <2>1, ChannelTypes DEF NextRead
  <2>. QED
    BY <1>10, <2>1, <2>2
       DEF NextRead, Return, requestVars, serverVars, bufVars, turnVars, timerVars, consumerVars
<1>11. CASE DeadlineFires \/ DeadlineCloses \/ WatchdogTick \/ WatchdogCloses \/ ResultTimerFires
  <2>1. /\ body' \in {"open", "closed"} /\ deadline' \in {"off", "grace", "window", "fired"}
        /\ resultTimer' \in {"off", "armed", "over"} /\ watchdog' \in {"on", "closing", "over"}
    BY <1>11 DEF DeadlineFires, DeadlineCloses, WatchdogTick, WatchdogCloses, ResultTimerFires
  <2>2. TimerStep
    BY <1>11 DEF DeadlineFires, DeadlineCloses, WatchdogTick, WatchdogCloses, ResultTimerFires
  <2>. QED
    BY <2>1, <2>2 DEF TimerStep, requestVars, serverVars, bufVars, turnVars, consumerVars
<1>12. CASE TakeEvent
  <2>1. /\ out' \in Chan(Frames, BufCap) /\ out'.closed = out.closed
        /\ Head(out.buf) \in Frames
    BY <1>12, ChannelTypes DEF TakeEvent
  <2>2. received' \in Seq(Frames)
    <3>1. received' = received \/ received' = Append(received, Head(out.buf))
      BY <1>12 DEF TakeEvent, Note
    <3>2. received \in Seq(Frames)
      OBVIOUS
    <3>3. \A s \in Seq(Frames), f \in Frames : Append(s, f) \in Seq(Frames)
      BY AppendProperties
    <3>4. Append(received, Head(out.buf)) \in Seq(Frames)
      BY <2>1, <3>2, <3>3, Zenon
    <3>. QED
      BY <3>1, <3>2, <3>4, Zenon
  <2>3. consumer' \in {"reading", "done"} /\ cancelled' \in BOOLEAN
    BY <1>12 DEF TakeEvent
  <2>. QED
    BY <1>12, <2>1, <2>2, <2>3
       DEF TakeEvent, ConsumerStep, requestVars, serverVars, bufVars, turnVars, timerVars
<1>13. CASE SeeEnd \/ OwnDeadline \/ ClientLeaves
  BY <1>13 DEF SeeEnd, OwnDeadline, ClientLeaves, ConsumerStep, requestVars, serverVars, bufVars,
               turnVars, timerVars
<1>. QED
  BY <1>2, <1>3, <1>4, <1>5, <1>6, <1>7, <1>8, <1>9, <1>10, <1>11, <1>12, <1>13 DEF ChatNext

-----------------------------------------------------------------------------
(* The flow of frames.                                                      *)
LEMMA FlowTypes ==
  ASSUME ChatTypeOK
  PROVE  /\ received \in Seq(Frames) /\ out.buf \in Seq(Frames) /\ InHand \in Seq(Frames)
         /\ received \o out.buf \in Seq(Frames) /\ (received \o out.buf) \o InHand \in Seq(Frames)
         /\ Taken \in Seq(Frames) /\ Flow \in Seq(Frames)
<1>1. received \in Seq(Frames) /\ out.buf \in Seq(Frames) /\ buf \in Seq(Frames) /\ wire \in Seq(Frames)
  BY DEF ChatTypeOK, Chan
<1>2. InHand \in Seq(Frames)
  BY DEF ChatTypeOK, InHand
<1>. QED
  BY <1>1, <1>2 DEF Taken, Flow

(* A step that moves frames along, or none, keeps the order. *)
LEMMA FlowKept ==
  ASSUME ChatInv, Flow' = Flow, nSent' = nSent
  PROVE  InOrder(Flow, nSent)'
BY DEF ChatInv, InOrder

LEMMA NothingMoves ==
  ASSUME ChatInv, UNCHANGED <<received, out.buf, InHand, buf, wire, nSent>>
  PROVE  InOrder(Flow, nSent)'
<1>1. Flow' = Flow
  BY DEF Flow, Taken
<1>. QED
  BY <1>1, FlowKept

LEMMA FlowNext ==
  ASSUME ChatInv, ChatNext
  PROVE  InOrder(Flow, nSent)'
<1>. /\ ChatTypeOK /\ InOrder(Flow, nSent)
     /\ nSent \in Nat /\ buf \in Seq(Frames) /\ wire \in Seq(Frames)
     /\ received \in Seq(Frames) /\ out.buf \in Seq(Frames) /\ InHand \in Seq(Frames)
     /\ received \o out.buf \in Seq(Frames) /\ (received \o out.buf) \o InHand \in Seq(Frames)
     /\ Taken \in Seq(Frames) /\ Flow \in Seq(Frames)
  BY FlowTypes DEF ChatInv, ChatTypeOK
<1>1. ASSUME NEW f \in Frames, Arrive(f), nSent' \in Nat,
             \/ f.n = 0 /\ nSent' = nSent
             \/ f.n = nSent + 1 /\ nSent' = nSent + 1
      PROVE  InOrder(Flow, nSent)'
  <2>1. UNCHANGED <<received, out.buf, InHand, buf>> /\ wire' = Append(wire, f)
    BY <1>1 DEF Arrive, InHand, bufVars, consumerVars
  <2>2. Taken' = Taken
    BY <2>1 DEF Taken
  <2>3. Flow' = Taken \o Append(wire, f)
    BY <2>1, <2>2 DEF Flow
  <2>4. Taken \o Append(wire, f) = Append(Taken \o wire, f)
    <3>1. f \in Frames
      BY <1>1
    <3>. QED
      BY <3>1, AppendBehind
  <2>5. Flow' = Append(Flow, f)
    BY <2>3, <2>4 DEF Flow
  <2>6. InOrder(Append(Flow, f), nSent')
    BY <1>1, OrderedAppend
  <2>. QED
    BY <2>5, <2>6 DEF InOrder
<1>2. CASE ServerHeartbeat
  <2>1. NoFrame \in Frames /\ NoFrame.n = 0
    BY StreamAssumption DEF NoFrame, Frame, Frames, FrameTypes, StreamAssumption
  <2>2. Arrive(NoFrame) /\ nSent' = nSent
    BY <1>2 DEF ServerHeartbeat
  <2>. QED
    BY <1>1, <2>1, <2>2
<1>3. ASSUME NEW type \in FrameTypes \ {"heartbeat"}, ServerFrame(type)
      PROVE  InOrder(Flow, nSent)'
  <2>1. nSent' = nSent + 1 /\ nSent < MaxFrames /\ Arrive(Frame(type, nSent + 1))
    BY <1>3 DEF ServerFrame
  <2>2. nSent + 1 \in 0 .. MaxFrames
    BY <2>1, StreamAssumption DEF StreamAssumption
  <2>3. Frame(type, nSent + 1) \in Frames /\ Frame(type, nSent + 1).n = nSent + 1
    BY <2>2 DEF Frame, Frames
  <2>. QED
    BY <1>1, <2>1, <2>2, <2>3
<1>4. CASE ReadBody
  <2>1. InHand = <<>> /\ InHand' = <<>> /\ UNCHANGED <<received, out.buf, nSent>>
    BY <1>4 DEF ReadBody, InHand, consumerVars
  <2>2. ASSUME NEW n \in 1 .. Len(wire),
               buf' = buf \o SubSeq(wire, 1, n), wire' = SubSeq(wire, n + 1, Len(wire))
        PROVE  InOrder(Flow, nSent)'
    <3>1. Flow' = (((received \o out.buf) \o InHand) \o (buf \o SubSeq(wire, 1, n)))
                    \o SubSeq(wire, n + 1, Len(wire))
      BY <2>1, <2>2 DEF Flow, Taken
    <3>2. InOrder((((received \o out.buf) \o InHand) \o buf) \o wire, nSent)
      BY DEF Flow, Taken
    <3>3. InOrder((((received \o out.buf) \o InHand) \o (buf \o SubSeq(wire, 1, n)))
                    \o SubSeq(wire, n + 1, Len(wire)), nSent)
      BY <3>2, ReadMoves
    <3>. QED
      BY <2>1, <3>1, <3>3 DEF InOrder
  <2>3. CASE UNCHANGED <<buf, wire>>
    BY <2>1, <2>3, NothingMoves
  <2>. QED
    BY <1>4, <2>1, <2>2, <2>3 DEF ReadBody
<1>5. CASE TakeFrame
  <2>1. /\ InHand = <<>> /\ InHand' = <<Head(buf)>> /\ buf # <<>> /\ buf' = Tail(buf)
        /\ UNCHANGED <<received, out.buf, wire, nSent>>
    BY <1>5 DEF TakeFrame, InHand, serverVars, consumerVars
  <2>. DEFINE x == received \o out.buf
  <2>2. Taken' = Append(x, Head(buf)) \o Tail(buf)
    <3>1. Head(buf) \in Frames /\ x \in Seq(Frames)
      BY <2>1
    <3>2. Append(x, Head(buf)) = x \o <<Head(buf)>>
      BY <3>1, AppendIsConcat
    <3>. QED
      BY <2>1, <3>2 DEF Taken
  <2>3. Taken = x \o buf
    BY <2>1, ConcatEmptySeq DEF Taken
  <2>4. Taken' = Taken
    <3>1. x \in Seq(Frames) /\ buf \in Seq(Frames) /\ buf # <<>>
      BY <2>1
    <3>. HIDE DEF x
    <3>2. Append(x, Head(buf)) \o Tail(buf) = x \o buf
      BY <3>1, MoveHead, Zenon
    <3>. QED
      BY <2>2, <2>3, <3>2
  <2>. QED
    BY <2>1, <2>4, FlowKept DEF Flow
<1>6. CASE SendEvent
  <2>1. /\ InHand = <<hand>> /\ InHand' = <<>> /\ hand \in Frames
        /\ out'.buf = Append(out.buf, hand) /\ UNCHANGED <<received, buf, wire, nSent>>
    <3>1. /\ InHand = <<hand>> /\ InHand' = <<>> /\ hand \in Frames /\ ~IsFull(out, BufCap)
          /\ UNCHANGED <<received, buf, wire, nSent>>
          /\ \/ out' = CloseChan(TrySend(out, hand, BufCap))
             \/ out' = TrySend(out, hand, BufCap)
      BY <1>6 DEF SendEvent, InHand, serverVars, bufVars, consumerVars, ChatTypeOK
    <3>. QED
      BY <3>1, ChannelTypes
  <2>2. (received \o Append(out.buf, hand)) \o <<>> = (received \o out.buf) \o <<hand>>
    <3>1. hand \in Frames
      BY <2>1
    <3>. QED
      BY <3>1, SendMoves, ZenonT(30)
  <2>3. Taken' = Taken
    BY <2>1, <2>2 DEF Taken
  <2>. QED
    BY <2>1, <2>3, FlowKept DEF Flow
<1>7. CASE TakeEvent
  <2>1. /\ out.buf # <<>> /\ out'.buf = Tail(out.buf)
        /\ UNCHANGED <<InHand, buf, wire, nSent>>
        /\ received' = IF Head(out.buf).n = 0 THEN received ELSE Append(received, Head(out.buf))
    BY <1>7, ChannelTypes
       DEF TakeEvent, Note, ConsumerStep, InHand, serverVars, bufVars
  <2>2. InOrder((((received \o out.buf) \o InHand) \o buf) \o wire, nSent)
    BY DEF Flow, Taken
  <2>3. InOrder((((received' \o Tail(out.buf)) \o InHand) \o buf) \o wire, nSent)
    BY <2>1, <2>2, TakeMoves
  <2>4. Flow' = (((received' \o Tail(out.buf)) \o InHand) \o buf) \o wire
    BY <2>1 DEF Flow, Taken
  <2>. QED
    BY <2>1, <2>3, <2>4 DEF InOrder
<1>8. CASE CheckDeadline \/ NextRead
  <2>1. /\ out' \in {out, CloseChan(out)} /\ UNCHANGED <<received, InHand, buf, wire, nSent>>
    BY <1>8 DEF CheckDeadline, NextRead, Return, InHand, serverVars, bufVars, consumerVars
  <2>. QED
    BY <2>1, ChannelTypes, NothingMoves
<1>9. CASE ServerEnds \/ Approve
  BY <1>9, NothingMoves DEF ServerEnds, Approve, InHand, serverVars, bufVars, consumerVars
<1>10. CASE DeadlineFires \/ DeadlineCloses \/ WatchdogTick \/ WatchdogCloses \/ ResultTimerFires
  <2>1. TimerStep
    BY <1>10 DEF DeadlineFires, DeadlineCloses, WatchdogTick, WatchdogCloses, ResultTimerFires
  <2>. QED
    BY <2>1, NothingMoves DEF TimerStep, InHand, serverVars, bufVars, consumerVars
<1>11. CASE SeeEnd \/ OwnDeadline \/ ClientLeaves
  BY <1>11, NothingMoves
     DEF SeeEnd, OwnDeadline, ClientLeaves, ConsumerStep, InHand, serverVars, bufVars
<1>. QED
  BY <1>2, <1>3, <1>4, <1>5, <1>6, <1>7, <1>8, <1>9, <1>10, <1>11 DEF ChatNext

(* The reader looks for more when nothing is left. *)
LEMMA BufferNext ==
  ASSUME ChatInv, ChatNext
  PROVE  reader' \in {"check", "read"} => buf' = <<>>
<1>. reader \in {"check", "read"} => buf = <<>>
  BY DEF ChatInv
<1>1. CASE CheckDeadline \/ NextRead
  BY <1>1 DEF CheckDeadline, NextRead, Return, bufVars
<1>2. CASE ReadBody \/ TakeFrame \/ Approve \/ SendEvent
  BY <1>2 DEF ReadBody, TakeFrame, Approve, SendEvent
<1>3. ASSUME UNCHANGED <<reader, buf>>
      PROVE  reader' \in {"check", "read"} => buf' = <<>>
  BY <1>3
<1>. QED
  BY <1>1, <1>2, <1>3
     DEF ChatNext, ServerHeartbeat, ServerFrame, Arrive, ServerEnds, DeadlineFires, DeadlineCloses,
         WatchdogTick, WatchdogCloses, ResultTimerFires, TimerStep, TakeEvent, SeeEnd, OwnDeadline,
         ClientLeaves, ConsumerStep, bufVars

-----------------------------------------------------------------------------
(* The theorems.                                                            *)
LEMMA ChatInvInit ==
  ASSUME ChatInit
  PROVE  ChatInv
<1>1. Flow = <<>> /\ nSent = 0 /\ buf = <<>>
  BY DEF ChatInit, Flow, Taken, InHand, MakeChan
<1>2. InOrder(Flow, nSent)
  BY <1>1 DEF InOrder
<1>. QED
  BY <1>1, <1>2, TypeInit DEF ChatInv

LEMMA ChatInvNext ==
  ASSUME ChatInv, [ChatNext]_chatVars
  PROVE  ChatInv'
<1>1. CASE ChatNext
  BY <1>1, TypeNext, FlowNext, BufferNext DEF ChatInv
<1>2. CASE UNCHANGED chatVars
  <2>1. InOrder(Flow, nSent)'
    BY <1>2, NothingMoves DEF chatVars, InHand, serverVars, bufVars, consumerVars
  <2>2. ChatTypeOK'
    BY <1>2 DEF ChatInv, ChatTypeOK, chatVars, requestVars, serverVars, bufVars, turnVars,
                timerVars, consumerVars
  <2>. QED
    BY <1>2, <2>1, <2>2 DEF ChatInv, chatVars, bufVars
<1>. QED
  BY <1>1, <1>2

THEOREM ChatInvariant == ChatSpec => []ChatInv
<1>1. ChatInit => ChatInv
  BY ChatInvInit
<1>2. ChatInv /\ [ChatNext]_chatVars => ChatInv'
  BY ChatInvNext
<1>. QED
  BY <1>1, <1>2, PTL DEF ChatSpec

(* Every variable of the stream is of its type; in particular neither the   *)
(* buffer nor the channel outgrows its bound, and the channel is closed     *)
(* exactly when the reader has returned.                                   *)
THEOREM ChatTypesCorrect == ChatSpec => []ChatTypeOK
<1>1. ChatInv => ChatTypeOK
  BY DEF ChatInv
<1>. QED
  BY <1>1, ChatInvariant, PTL

(* Frames are handed on once and in order, however reads cut them, timers   *)
(* race them and consumers leave (readSSEStream, executor/chat.go).        *)
THEOREM FramesStayIntact == ChatSpec => []FramesIntact
<1>1. ChatInv => FramesIntact
  <2>. SUFFICES ASSUME ChatInv PROVE FramesIntact
    OBVIOUS
  <2>1. /\ Taken \in Seq(Frames) /\ wire \in Seq(Frames) /\ Flow \in Seq(Frames)
        /\ InOrder(Flow, nSent) /\ nSent \in Nat
    BY FlowTypes DEF ChatInv, ChatTypeOK
  <2>2. /\ Len(Taken) \in Nat /\ Len(Flow) \in Nat /\ Len(Taken) <= Len(Flow)
        /\ \A i \in 1 .. Len(Taken) : i \in 1 .. Len(Flow) /\ Flow[i] = Taken[i]
        /\ \A i \in 1 .. Len(Flow) : Flow[i].n \in Nat
    <3>1. \A i \in 1 .. Len(Flow) : Flow[i] \in Frames
      BY <2>1, ElementOfSeq
    <3>2. \A i \in 1 .. Len(Flow) : Flow[i].n \in Nat
      BY <3>1 DEF Frames
    <3>. QED
      BY <2>1, <3>2 DEF Flow
  <2>3. ASSUME NEW i \in 1 .. Len(Taken)
        PROVE  /\ \A n \in 1 .. Taken[i].n : \E j \in 1 .. i : Taken[j].n = n
               /\ \A j \in 1 .. (i - 1) : Taken[i].n # 0 => Taken[j].n < Taken[i].n
    <3>1. ASSUME NEW n \in 1 .. Taken[i].n
          PROVE  \E j \in 1 .. i : Taken[j].n = n
      <4>1. Flow[i].n <= nSent /\ n \in 1 .. nSent /\ n <= Flow[i].n
        BY <2>1, <2>2 DEF InOrder
      <4>2. PICK j \in 1 .. Len(Flow) : Flow[j].n = n
        BY <2>1, <4>1 DEF InOrder
      <4>3. j <= i
        <5>1. CASE j > i
          <6>1. i \in 1 .. j - 1 /\ Flow[j].n # 0
            BY <2>2, <4>2, <5>1
          <6>2. Flow[i].n < Flow[j].n
            BY <2>1, <6>1 DEF InOrder
          <6>. QED
            BY <2>2, <4>1, <4>2, <6>2
        <5>. QED
          BY <5>1
      <4>. QED
        BY <2>2, <4>2, <4>3
    <3>2. ASSUME NEW j \in 1 .. (i - 1), Taken[i].n # 0
          PROVE  Taken[j].n < Taken[i].n
      <4>1. Flow[i] = Taken[i] /\ Flow[j] = Taken[j] /\ i \in 1 .. Len(Flow)
        BY <2>2
      <4>. QED
        BY <2>1, <3>2, <4>1 DEF InOrder
    <3>. QED
      BY <3>1, <3>2
  <2>4. received \o out.buf \o InHand \o buf = Taken
    BY DEF Taken
  <2>. QED
    BY <2>3, <2>4 DEF FramesIntact
<1>. QED
  BY <1>1, ChatInvariant, PTL
=============================================================================
