------------------------ MODULE InferenceStreamProofs ------------------------
(***************************************************************************)
(* Proofs about InferenceStream, for any tool calls, any capacity of the   *)
(* channel and any number of frames.                                       *)
(*                                                                         *)
(* What the reader has sent and what it has yet to send are one sequence,  *)
(* Said: sending an event does not change it, so only the conversion of a  *)
(* frame has to keep it in order.                                          *)
(***************************************************************************)
EXTENDS InferenceStream, TLAPS

ToolKinds == {"started", "partial", "completed"}
Kinds == ToolKinds \union {"content", "ended", "failure", "raw", "synthetic", "ok"}
Events == [kind : Kinds, call : ToolIds \union {NoToolCall}]

InferenceTypes ==
  /\ cancelled \in BOOLEAN
  /\ readLoop \in [pc : {"read", "convert", "send", "returned"}, queue : Seq(Events),
                 last : BOOLEAN, calls : SUBSET ToolIds]
  /\ stream \in [started : SUBSET ToolIds, complete : SUBSET ToolIds,
                 ended : BOOLEAN, failed : BOOLEAN]
  /\ frames \in Nat
  /\ log \in Seq(Events)
  /\ taken \in Nat

Said == log \o readLoop.queue

Occurs(e, s) == \E j \in DOMAIN s : s[j] = e

(* The events of a call, in any sequence: its start, once, comes before the *)
(* others, and it completes at most once.                                  *)
CallsInOrder(s) ==
  \A j \in DOMAIN s : s[j].call # NoToolCall =>
    /\ s[j].kind \in {"started", "completed"} => \A i \in 1 .. j - 1 : s[i] # s[j]
    /\ s[j].kind # "started" => \E i \in 1 .. j - 1 : s[i] = Chat("started", s[j].call)

(* What inferenceStreamState records of the calls is what was said of them. *)
CallsRecorded(s, started, complete) ==
  \A c \in ToolIds :
    /\ Occurs(Chat("started", c), s) <=> c \in started
    /\ Occurs(Chat("completed", c), s) => c \in complete

(* An end that was made up is the only one.                                 *)
EndsAlone(s) ==
  \A j \in DOMAIN s : s[j] = SyntheticEnd =>
    /\ \A i \in 1 .. j - 1 : s[i].kind \notin {"ended", "synthetic", "failure"}
    /\ \A i \in j + 1 .. Len(s) : s[i].kind = "ok"

(* The flags say what was said, while the reader reads on.                  *)
EndsRecorded ==
  /\ stream.ended => Occurs(Ended, Said)
  /\ stream.failed => Occurs(Failure, Said)
  /\ ~readLoop.last => \A j \in DOMAIN Said :
       /\ Said[j].kind = "ended" => stream.ended
       /\ Said[j].kind = "failure" => stream.failed
       /\ Said[j].kind # "synthetic"
  /\ readLoop.last /\ ~cancelled =>
       \E j \in DOMAIN Said : Said[j] \in {Ended, SyntheticEnd, Failure}

ReaderPlace ==
  /\ readLoop.pc = "read" => readLoop.queue = <<>> /\ ~readLoop.last
  /\ readLoop.pc = "convert" => ~readLoop.last
  /\ readLoop.pc = "returned" => readLoop.queue = <<>> /\ readLoop.last

InferenceInv ==
  /\ InferenceTypes
  /\ ReaderPlace
  /\ CallsInOrder(Said) /\ CallsRecorded(Said, stream.started, stream.complete)
  /\ EndsAlone(Said) /\ EndsRecorded

-----------------------------------------------------------------------------
(* Sequences of events.                                                     *)
LEMMA Concat ==
  ASSUME NEW s \in Seq(Events), NEW t \in Seq(Events)
  PROVE  /\ s \o t \in Seq(Events)
         /\ Len(s \o t) = Len(s) + Len(t)
         /\ \A j \in 1 .. Len(s) : (s \o t)[j] = s[j]
         /\ \A j \in 1 .. Len(t) : (s \o t)[Len(s) + j] = t[j]
  OBVIOUS

LEMMA ConcatAssoc ==
  ASSUME NEW s \in Seq(Events), NEW t \in Seq(Events), NEW u \in Seq(Events)
  PROVE  s \o (t \o u) = (s \o t) \o u
  OBVIOUS

LEMMA ConcatOne ==
  ASSUME NEW s \in Seq(Events), NEW x \in Events
  PROVE  s \o <<x>> = Append(s, x) /\ Append(s, x) \in Seq(Events) /\ <<x>> \in Seq(Events)
  OBVIOUS

LEMMA ConcatEmpty ==
  ASSUME NEW s \in Seq(Events)
  PROVE  s \o <<>> = s /\ <<>> \o s = s
  OBVIOUS

(* Sending an event moves it from one end of Said's middle to the other.    *)
LEMMA SendMoves ==
  ASSUME NEW s \in Seq(Events), NEW t \in Seq(Events), t # <<>>
  PROVE  /\ Append(s, Head(t)) \in Seq(Events) /\ Tail(t) \in Seq(Events)
         /\ Append(s, Head(t)) \o Tail(t) = s \o t
  OBVIOUS

LEMMA OccursAppend ==
  ASSUME NEW s \in Seq(Events), NEW x \in Events, NEW e
  PROVE  Occurs(e, Append(s, x)) <=> Occurs(e, s) \/ e = x
<1>1. Len(Append(s, x)) = Len(s) + 1 /\ Append(s, x)[Len(s) + 1] = x
  OBVIOUS
<1>2. \A j \in 1 .. Len(s) : Append(s, x)[j] = s[j]
  OBVIOUS
<1>3. DOMAIN Append(s, x) = 1 .. Len(s) + 1 /\ DOMAIN s = 1 .. Len(s) /\ Len(s) \in Nat
  OBVIOUS
<1>. QED
  BY <1>1, <1>2, <1>3 DEF Occurs

(* An event that may follow what was said.                                  *)
MayFollow(x, s) ==
  x.call # NoToolCall =>
    /\ x.kind \in {"started", "completed"} => ~Occurs(x, s)
    /\ x.kind # "started" => Occurs(Chat("started", x.call), s)

LEMMA InOrderAppend ==
  ASSUME NEW s \in Seq(Events), NEW x \in Events, CallsInOrder(s), MayFollow(x, s)
  PROVE  CallsInOrder(Append(s, x))
<1>. DEFINE t == Append(s, x)
<1>1. /\ DOMAIN t = 1 .. Len(s) + 1 /\ DOMAIN s = 1 .. Len(s) /\ Len(s) \in Nat
      /\ t[Len(s) + 1] = x /\ \A j \in 1 .. Len(s) : t[j] = s[j]
  OBVIOUS
<1>. HIDE DEF t
<1>2. SUFFICES ASSUME NEW j \in DOMAIN t, t[j].call # NoToolCall
               PROVE  /\ t[j].kind \in {"started", "completed"} =>
                           \A i \in 1 .. j - 1 : t[i] # t[j]
                      /\ t[j].kind # "started" =>
                           \E i \in 1 .. j - 1 : t[i] = Chat("started", t[j].call)
  BY DEF CallsInOrder, t
<1>3. CASE j \in 1 .. Len(s)
  BY <1>1, <1>2, <1>3 DEF CallsInOrder
<1>4. CASE j = Len(s) + 1
  BY <1>1, <1>2, <1>4 DEF MayFollow, Occurs
<1>. QED
  BY <1>1, <1>2, <1>3, <1>4

CallsSaid(s, started, complete) == CallsInOrder(s) /\ CallsRecorded(s, started, complete)

LEMMA SaidInThree ==
  ASSUME NEW s \in Seq(Events), NEW t \in Seq(Events), NEW u \in Seq(Events), NEW v \in Seq(Events),
         NEW started, NEW complete, CallsSaid(((s \o t) \o u) \o v, started, complete)
  PROVE  CallsSaid(s \o ((t \o u) \o v), started, complete)
<1>1. t \o u \in Seq(Events)
  BY Concat
<1>2. s \o ((t \o u) \o v) = (s \o (t \o u)) \o v
  BY <1>1, ConcatAssoc, SMTT(20)
<1>3. s \o (t \o u) = (s \o t) \o u
  BY ConcatAssoc
<1>. QED
  BY <1>2, <1>3

(* An event that is about no call.                                          *)
LEMMA OtherAppend ==
  ASSUME NEW s \in Seq(Events), NEW x \in Events, x.call = NoToolCall,
         NEW started, NEW complete, CallsSaid(s, started, complete)
  PROVE  CallsSaid(Append(s, x), started, complete)
<1>1. \A c \in ToolIds : x # Chat("started", c) /\ x # Chat("completed", c)
  BY InferenceAssumption DEF Chat
<1>2. CallsInOrder(Append(s, x))
  BY InOrderAppend DEF MayFollow, CallsSaid
<1>. QED
  BY <1>1, <1>2, OccursAppend DEF CallsSaid, CallsRecorded

(* The events of a part of a call, each where it may be.                    *)
LEMMA StartAppend ==
  ASSUME NEW s \in Seq(Events), NEW c \in ToolIds, NEW started, NEW complete,
         CallsSaid(s, started, complete), c \notin started
  PROVE  CallsSaid(Append(s, Chat("started", c)), started \union {c}, complete)
<1>1. Chat("started", c) \in Events
  BY DEF Chat, Events, Kinds, ToolKinds
<1>2. CallsInOrder(Append(s, Chat("started", c)))
  BY <1>1, InOrderAppend DEF MayFollow, CallsSaid, CallsRecorded, Chat
<1>3. \A d \in ToolIds :
        /\ Chat("started", d) = Chat("started", c) <=> d = c
        /\ Chat("completed", d) # Chat("started", c)
  BY DEF Chat
<1>. QED
  BY <1>1, <1>2, <1>3, OccursAppend DEF CallsSaid, CallsRecorded

LEMMA PartialAppend ==
  ASSUME NEW s \in Seq(Events), NEW c \in ToolIds, NEW started, NEW complete,
         CallsSaid(s, started, complete), c \in started
  PROVE  CallsSaid(Append(s, Chat("partial", c)), started, complete)
<1>1. Chat("partial", c) \in Events
  BY DEF Chat, Events, Kinds, ToolKinds
<1>2. CallsInOrder(Append(s, Chat("partial", c)))
  BY <1>1, InOrderAppend DEF MayFollow, CallsSaid, CallsRecorded, Chat
<1>3. \A d \in ToolIds :
        /\ Chat("started", d) # Chat("partial", c)
        /\ Chat("completed", d) # Chat("partial", c)
  BY DEF Chat
<1>. QED
  BY <1>1, <1>2, <1>3, OccursAppend DEF CallsSaid, CallsRecorded

LEMMA CompleteAppend ==
  ASSUME NEW s \in Seq(Events), NEW c \in ToolIds, NEW started, NEW complete,
         CallsSaid(s, started, complete), c \in started, c \notin complete
  PROVE  CallsSaid(Append(s, Chat("completed", c)), started, complete \union {c})
<1>1. Chat("completed", c) \in Events
  BY DEF Chat, Events, Kinds, ToolKinds
<1>2. CallsInOrder(Append(s, Chat("completed", c)))
  BY <1>1, InOrderAppend DEF MayFollow, CallsSaid, CallsRecorded, Chat
<1>3. \A d \in ToolIds :
        /\ Chat("started", d) # Chat("completed", c)
        /\ Chat("completed", d) = Chat("completed", c) <=> d = c
  BY DEF Chat
<1>4. ASSUME NEW d \in ToolIds
      PROVE  /\ Occurs(Chat("started", d), Append(s, Chat("completed", c))) <=> d \in started
             /\ Occurs(Chat("completed", d), Append(s, Chat("completed", c)))
                  => d \in complete \union {c}
  <2>1. \A e : Occurs(e, Append(s, Chat("completed", c)))
                <=> Occurs(e, s) \/ e = Chat("completed", c)
    BY <1>1, OccursAppend
  <2>2. /\ Occurs(Chat("started", d), s) <=> d \in started
        /\ Occurs(Chat("completed", d), s) => d \in complete
    BY DEF CallsSaid, CallsRecorded
  <2>. QED
    BY <1>3, <2>1, <2>2
<1>. QED
  BY <1>2, <1>4 DEF CallsSaid, CallsRecorded

(* inferenceToolCallPartEvents keeps the calls in order, and its events say *)
(* nothing of an end.                                                      *)
LEMMA PartAppend ==
  ASSUME InferenceTypes, NEW s \in Seq(Events), CallsSaid(s, stream.started, stream.complete),
         NEW c \in ToolIds, NEW partial \in BOOLEAN, NEW complete \in BOOLEAN
  PROVE  /\ ToolCallPart(c, partial, complete) \in Seq(Events)
         /\ \A j \in DOMAIN ToolCallPart(c, partial, complete) :
              ToolCallPart(c, partial, complete)[j].kind \in ToolKinds
         /\ CallsSaid(s \o ToolCallPart(c, partial, complete), stream.started \union {c},
                      IF complete THEN stream.complete \union {c} ELSE stream.complete)
<1>. DEFINE start == IF c \in stream.started THEN <<>> ELSE <<Chat("started", c)>>
            middle == IF partial THEN <<Chat("partial", c)>> ELSE <<>>
            end == IF complete /\ c \notin stream.complete THEN <<Chat("completed", c)>> ELSE <<>>
            s1 == s \o start
            s2 == s1 \o middle
            s3 == s2 \o end
<1>1. /\ Chat("started", c) \in Events /\ Chat("started", c).kind \in ToolKinds
      /\ Chat("partial", c) \in Events /\ Chat("partial", c).kind \in ToolKinds
      /\ Chat("completed", c) \in Events /\ Chat("completed", c).kind \in ToolKinds
  BY DEF Chat, Events, Kinds, ToolKinds
<1>2. start \in Seq(Events) /\ middle \in Seq(Events) /\ end \in Seq(Events)
  BY <1>1
<1>3. ToolCallPart(c, partial, complete) = (start \o middle) \o end
  BY DEF ToolCallPart
<1>4. \A j \in DOMAIN ((start \o middle) \o end) : ((start \o middle) \o end)[j].kind \in ToolKinds
  BY <1>1
<1>5. s1 \in Seq(Events) /\ CallsSaid(s1, stream.started \union {c}, stream.complete)
  <2>1. CASE c \in stream.started
    <3>1. s1 = s /\ stream.started \union {c} = stream.started
      BY <2>1, ConcatEmpty
    <3>. QED
      BY <3>1
  <2>2. CASE c \notin stream.started
    <3>1. s1 = Append(s, Chat("started", c)) /\ s1 \in Seq(Events)
      BY <1>1, <2>2
    <3>. QED
      BY <3>1, <2>2, StartAppend
  <2>. QED
    BY <2>1, <2>2
<1>6. s2 \in Seq(Events) /\ CallsSaid(s2, stream.started \union {c}, stream.complete)
  <2>1. CASE ~partial
    <3>1. s2 = s1
      BY <1>5, <2>1, ConcatEmpty
    <3>. QED
      BY <3>1, <1>5
  <2>2. CASE partial
    <3>1. s2 = Append(s1, Chat("partial", c)) /\ s2 \in Seq(Events)
      BY <1>1, <1>5, <2>2
    <3>. QED
      BY <3>1, <1>5, PartialAppend
  <2>. QED
    BY <2>1, <2>2
<1>7. CallsSaid(s3, stream.started \union {c},
                IF complete THEN stream.complete \union {c} ELSE stream.complete)
  <2>1. CASE end = <<>>
    <3>1. s3 = s2
      BY <1>6, <2>1, ConcatEmpty
    <3>2. (IF complete THEN stream.complete \union {c} ELSE stream.complete) = stream.complete
      BY <2>1
    <3>. QED
      BY <3>1, <3>2, <1>6
  <2>2. CASE complete /\ c \notin stream.complete
    <3>1. s3 = Append(s2, Chat("completed", c))
      BY <1>1, <1>6, <2>2, ConcatOne
    <3>2. CallsSaid(s3, stream.started \union {c}, stream.complete \union {c})
      <4>. HIDE DEF s3, s2
      <4>. QED
        BY <3>1, <2>2, <1>6, CompleteAppend
    <3>. QED
      BY <3>2, <2>2
  <2>. QED
    BY <2>1, <2>2
<1>8. CallsSaid(s \o ((start \o middle) \o end), stream.started \union {c},
                IF complete THEN stream.complete \union {c} ELSE stream.complete)
  <2>. HIDE DEF start, middle, end
  <2>. QED
    BY <1>2, <1>7, SaidInThree
<1>9. (start \o middle) \o end \in Seq(Events)
  BY <1>2, Concat
<1>. HIDE DEF start, middle, end, s3
<1>. QED
  BY <1>3, <1>4, <1>8, <1>9

-----------------------------------------------------------------------------
(* The steps.                                                               *)
LEMMA InferenceInvInit == InferenceInit => InferenceInv
<1>. SUFFICES ASSUME InferenceInit PROVE InferenceInv
  OBVIOUS
<1>1. <<>> \in Seq(Events)
  OBVIOUS
<1>2. InferenceTypes /\ ReaderPlace
  BY <1>1 DEF InferenceInit, InferenceTypes, ReaderPlace
<1>3. Said = <<>>
  BY DEF InferenceInit, Said
<1>4. DOMAIN <<>> = {}
  OBVIOUS
<1>5. CallsInOrder(Said) /\ EndsAlone(Said)
  BY <1>3, <1>4 DEF CallsInOrder, EndsAlone
<1>6. CallsRecorded(Said, stream.started, stream.complete)
  BY <1>3, <1>4 DEF CallsRecorded, Occurs, InferenceInit
<1>7. EndsRecorded
  BY <1>3, <1>4 DEF EndsRecorded, InferenceInit
<1>. QED
  BY <1>5, <1>6, <1>7, <1>2 DEF InferenceInv

LEMMA SaidType == InferenceTypes => Said \in Seq(Events)
  BY Concat DEF InferenceTypes, Said

(* Events of a frame, none of them a made-up end, and the flags that tell   *)
(* of them.                                                                *)
LEMMA FrameEnds ==
  ASSUME InferenceInv, InferenceTypes', ~readLoop.last, ~readLoop'.last,
         NEW t \in Seq(Events), Said' = Said \o t,
         \A j \in DOMAIN t : /\ t[j].kind # "synthetic"
                             /\ t[j].kind = "ended" => stream'.ended
                             /\ t[j].kind = "failure" => stream'.failed,
         stream'.ended <=> stream.ended \/ Occurs(Ended, t),
         stream'.failed <=> stream.failed \/ Occurs(Failure, t)
  PROVE  EndsAlone(Said)' /\ EndsRecorded'
<1>. DEFINE s == Said
            u == s \o t
<1>1. s \in Seq(Events)
  BY SaidType DEF InferenceInv
<1>2. /\ u \in Seq(Events) /\ Len(u) = Len(s) + Len(t)
      /\ \A j \in 1 .. Len(s) : u[j] = s[j]
      /\ \A j \in 1 .. Len(t) : u[Len(s) + j] = t[j]
  BY <1>1, Concat
<1>3. /\ DOMAIN u = 1 .. Len(u) /\ DOMAIN s = 1 .. Len(s) /\ DOMAIN t = 1 .. Len(t)
      /\ Len(s) \in Nat /\ Len(t) \in Nat
  BY <1>1, <1>2
<1>. HIDE DEF s, u
<1>4. \A j \in DOMAIN u : j \in DOMAIN s \/ (j - Len(s) \in DOMAIN t /\ u[j] = t[j - Len(s)])
  BY <1>2, <1>3
<1>5. \A e : Occurs(e, u) <=> (Occurs(e, s) \/ Occurs(e, t))
  <2>. SUFFICES ASSUME NEW e PROVE Occurs(e, u) <=> (Occurs(e, s) \/ Occurs(e, t))
    OBVIOUS
  <2>1. ASSUME NEW j \in DOMAIN u, u[j] = e PROVE Occurs(e, s) \/ Occurs(e, t)
    <3>1. CASE j \in DOMAIN s
      BY <1>2, <1>3, <2>1, <3>1 DEF Occurs
    <3>2. CASE j - Len(s) \in DOMAIN t /\ u[j] = t[j - Len(s)]
      BY <2>1, <3>2 DEF Occurs
    <3>. QED
      BY <1>4, <2>1, <3>1, <3>2
  <2>2. ASSUME NEW j \in DOMAIN s, s[j] = e PROVE Occurs(e, u)
    BY <1>2, <1>3, <2>2 DEF Occurs
  <2>3. ASSUME NEW j \in DOMAIN t, t[j] = e PROVE Occurs(e, u)
    <3>1. Len(s) + j \in DOMAIN u /\ u[Len(s) + j] = e
      BY <1>2, <1>3, <2>3
    <3>. QED
      BY <3>1 DEF Occurs
  <2>. QED
    BY <2>1, <2>2, <2>3 DEF Occurs
<1>6. \A j \in DOMAIN u : /\ u[j].kind = "ended" => stream'.ended
                          /\ u[j].kind = "failure" => stream'.failed
                          /\ u[j].kind # "synthetic"
  <2>. SUFFICES ASSUME NEW j \in DOMAIN u
                PROVE  /\ u[j].kind = "ended" => stream'.ended
                       /\ u[j].kind = "failure" => stream'.failed
                       /\ u[j].kind # "synthetic"
    OBVIOUS
  <2>1. CASE j \in DOMAIN s
    BY <1>2, <1>3, <2>1 DEF InferenceInv, EndsRecorded, s
  <2>2. CASE j - Len(s) \in DOMAIN t /\ u[j] = t[j - Len(s)]
    BY <2>2
  <2>. QED
    BY <1>4, <2>1, <2>2
<1>7. SyntheticEnd.kind = "synthetic"
  BY DEF SyntheticEnd, Chat
<1>8. EndsAlone(u)
  BY <1>6, <1>7 DEF EndsAlone
<1>9. (stream'.ended => Occurs(Ended, u)) /\ (stream'.failed => Occurs(Failure, u))
  BY <1>5 DEF InferenceInv, EndsRecorded, s
<1>10. Said' = u
  BY DEF s, u
<1>. QED
  BY <1>6, <1>8, <1>9, <1>10 DEF EndsRecorded

(* Events about no call are added to what was said, or none.                *)
LEMMA PlainStep ==
  ASSUME InferenceInv, InferenceTypes', ReaderPlace', ~readLoop.last, ~readLoop'.last,
         NEW t \in Seq(Events), Said' = Said \o t,
         t = <<>> \/ (\E x \in Events : t = <<x>> /\ x.call = NoToolCall),
         stream'.started = stream.started, stream'.complete = stream.complete,
         \A j \in DOMAIN t : /\ t[j].kind # "synthetic"
                             /\ t[j].kind = "ended" => stream'.ended
                             /\ t[j].kind = "failure" => stream'.failed,
         stream'.ended <=> stream.ended \/ Occurs(Ended, t),
         stream'.failed <=> stream.failed \/ Occurs(Failure, t)
  PROVE  InferenceInv'
<1>1. EndsAlone(Said)' /\ EndsRecorded'
  BY FrameEnds
<1>2. Said \in Seq(Events)
  BY SaidType DEF InferenceInv
<1>3. CallsSaid(Said \o t, stream.started, stream.complete)
  <2>1. CASE t = <<>>
    BY <2>1, <1>2, ConcatEmpty DEF InferenceInv, CallsSaid
  <2>2. CASE \E x \in Events : t = <<x>> /\ x.call = NoToolCall
    <3>1. PICK x \in Events : t = <<x>> /\ x.call = NoToolCall
      BY <2>2
    <3>2. Said \o t = Append(Said, x)
      BY <1>2, <3>1, ConcatOne
    <3>3. CallsSaid(Append(Said, x), stream.started, stream.complete)
      BY <1>2, <3>1, OtherAppend DEF InferenceInv, CallsSaid
    <3>. QED
      BY <3>2, <3>3
  <2>. QED
    BY <2>1, <2>2
<1>. QED
  BY <1>1, <1>3 DEF InferenceInv, CallsSaid

(* The same for the frames that are read and converted in one step.         *)
LEMMA ReadTypes ==
  ASSUME InferenceInv, NEW t \in Seq(Events), ReadFrame(t),
         stream' \in [started : SUBSET ToolIds, complete : SUBSET ToolIds,
                      ended : BOOLEAN, failed : BOOLEAN]
  PROVE  /\ InferenceTypes' /\ ReaderPlace'
         /\ ~readLoop.last /\ ~readLoop'.last
         /\ Said' = Said \o t
<1>1. /\ readLoop.queue = <<>> /\ ~readLoop.last /\ ~readLoop'.last
      /\ readLoop'.queue = t /\ readLoop'.pc = "send" /\ log' = log
  BY DEF InferenceInv, ReaderPlace, ReadFrame, Emitting, InferenceTypes
<1>2. InferenceTypes' /\ ReaderPlace'
  <2>1. readLoop' \in [pc : {"read", "convert", "send", "returned"}, queue : Seq(Events),
                     last : BOOLEAN, calls : SUBSET ToolIds]
    BY DEF InferenceInv, InferenceTypes, ReadFrame, Emitting
  <2>2. UNCHANGED <<cancelled, log, taken>> /\ frames' \in Nat
    BY DEF InferenceInv, InferenceTypes, ReadFrame
  <2>. QED
    BY <1>1, <2>1, <2>2 DEF InferenceInv, InferenceTypes, ReaderPlace
<1>3. Said \in Seq(Events) /\ Said = log
  BY <1>1, SaidType, ConcatEmpty DEF InferenceInv, InferenceTypes, Said
<1>4. Said' = Said \o t
  BY <1>1, <1>3 DEF Said
<1>. QED
  BY <1>1, <1>2, <1>4

LEMMA PlainEvents ==
  /\ \A x \in {Content, Raw, Ended, Failure, SyntheticEnd, Chat("ok", NoToolCall)} :
       x \in Events /\ x.call = NoToolCall
  /\ Content.kind = "content" /\ Raw.kind = "raw" /\ Ended.kind = "ended"
  /\ Failure.kind = "failure" /\ SyntheticEnd.kind = "synthetic"
  /\ Chat("ok", NoToolCall).kind = "ok"
  BY DEF Content, Raw, Ended, Failure, SyntheticEnd, Chat, Events, Kinds, ToolKinds

LEMMA OneEvent ==
  ASSUME NEW x
  PROVE  /\ DOMAIN <<x>> = {1} /\ <<x>>[1] = x /\ DOMAIN <<>> = {}
         /\ \A e : (Occurs(e, <<x>>) <=> e = x) /\ ~Occurs(e, <<>>)
  BY DEF Occurs

LEMMA FrameKeepsInv ==
  ASSUME InferenceInv, ContentFrame \/ UsageFrame \/ ErrorFrame
  PROVE  InferenceInv'
<1>. USE PlainEvents
<1>1. <<>> \in Seq(Events) /\ \A x \in Events : <<x>> \in Seq(Events)
  OBVIOUS
<1>2. stream \in [started : SUBSET ToolIds, complete : SUBSET ToolIds,
                  ended : BOOLEAN, failed : BOOLEAN]
  BY DEF InferenceInv, InferenceTypes
<1>3. CASE ContentFrame
  <2>1. PICK t \in {<<Content>>, <<Raw>>, <<>>} : ReadFrame(t) /\ UNCHANGED stream
    BY <1>3 DEF ContentFrame
  <2>2. t \in Seq(Events) /\ (t = <<>> \/ \E x \in Events : t = <<x>> /\ x.call = NoToolCall)
    BY <1>1
  <2>3. /\ \A j \in DOMAIN t : t[j].kind \in {"content", "raw"}
        /\ ~Occurs(Ended, t) /\ ~Occurs(Failure, t)
    <3>1. t = <<>> => DOMAIN t = {} /\ \A e : ~Occurs(e, t)
      BY OneEvent
    <3>2. ASSUME NEW x, t = <<x>>
          PROVE  DOMAIN t = {1} /\ t[1] = x /\ \A e : Occurs(e, t) <=> e = x
      BY <3>2, OneEvent
    <3>. QED
      BY <2>1, <3>1, <3>2
  <2>4. /\ InferenceTypes' /\ ReaderPlace' /\ ~readLoop.last /\ ~readLoop'.last
        /\ Said' = Said \o t
    BY <1>2, <2>1, <2>2, ReadTypes
  <2>. QED
    BY <2>1, <2>2, <2>3, <2>4, PlainStep
<1>4. CASE UsageFrame
  <2>1. ReadFrame(<<Ended>>) /\ stream' = [stream EXCEPT !.ended = TRUE]
    BY <1>4 DEF UsageFrame
  <2>2. /\ stream' \in [started : SUBSET ToolIds, complete : SUBSET ToolIds,
                        ended : BOOLEAN, failed : BOOLEAN]
        /\ stream'.started = stream.started /\ stream'.complete = stream.complete
        /\ stream'.ended /\ (stream'.failed <=> stream.failed)
    BY <1>2, <2>1
  <2>3. Occurs(Ended, <<Ended>>) /\ ~Occurs(Failure, <<Ended>>)
    BY OneEvent
  <2>4. \A j \in DOMAIN <<Ended>> : <<Ended>>[j] = Ended
    BY OneEvent
  <2>5. /\ InferenceTypes' /\ ReaderPlace' /\ ~readLoop.last /\ ~readLoop'.last
        /\ Said' = Said \o <<Ended>>
    BY <1>1, <2>1, <2>2, ReadTypes
  <2>6. /\ stream'.ended <=> stream.ended \/ Occurs(Ended, <<Ended>>)
        /\ stream'.failed <=> stream.failed \/ Occurs(Failure, <<Ended>>)
    BY <2>2, <2>3
  <2>7. \A j \in DOMAIN <<Ended>> : /\ <<Ended>>[j].kind # "synthetic"
                                    /\ <<Ended>>[j].kind = "ended" => stream'.ended
                                    /\ <<Ended>>[j].kind = "failure" => stream'.failed
    BY <2>2, <2>4
  <2>8. <<Ended>> \in Seq(Events) /\ \E x \in Events : <<Ended>> = <<x>> /\ x.call = NoToolCall
    BY <1>1
  <2>. QED
    BY <2>2, <2>5, <2>6, <2>7, <2>8, PlainStep
<1>5. CASE ErrorFrame
  <2>1. ReadFrame(<<Failure>>) /\ stream' = [stream EXCEPT !.failed = TRUE]
    BY <1>5 DEF ErrorFrame
  <2>2. /\ stream' \in [started : SUBSET ToolIds, complete : SUBSET ToolIds,
                        ended : BOOLEAN, failed : BOOLEAN]
        /\ stream'.started = stream.started /\ stream'.complete = stream.complete
        /\ stream'.failed /\ (stream'.ended <=> stream.ended)
    BY <1>2, <2>1
  <2>3. Occurs(Failure, <<Failure>>) /\ ~Occurs(Ended, <<Failure>>)
    BY OneEvent
  <2>4. \A j \in DOMAIN <<Failure>> : <<Failure>>[j] = Failure
    BY OneEvent
  <2>5. /\ InferenceTypes' /\ ReaderPlace' /\ ~readLoop.last /\ ~readLoop'.last
        /\ Said' = Said \o <<Failure>>
    BY <1>1, <2>1, <2>2, ReadTypes
  <2>6. /\ stream'.ended <=> stream.ended \/ Occurs(Ended, <<Failure>>)
        /\ stream'.failed <=> stream.failed \/ Occurs(Failure, <<Failure>>)
    BY <2>2, <2>3
  <2>7. \A j \in DOMAIN <<Failure>> : /\ <<Failure>>[j].kind # "synthetic"
                                      /\ <<Failure>>[j].kind = "ended" => stream'.ended
                                      /\ <<Failure>>[j].kind = "failure" => stream'.failed
    BY <2>2, <2>4
  <2>8. <<Failure>> \in Seq(Events) /\ \E x \in Events : <<Failure>> = <<x>> /\ x.call = NoToolCall
    BY <1>1
  <2>. QED
    BY <2>2, <2>5, <2>6, <2>7, <2>8, PlainStep
<1>. QED
  BY <1>3, <1>4, <1>5

(* A part of a call is added to what was said.                              *)
LEMMA PartStep ==
  ASSUME InferenceInv, InferenceTypes', ReaderPlace', ~readLoop.last, ~readLoop'.last,
         NEW c \in ToolIds, NEW partial \in BOOLEAN, NEW complete \in BOOLEAN,
         Said' = Said \o ToolCallPart(c, partial, complete),
         stream' = [stream EXCEPT !.started = @ \union {c},
                                  !.complete = IF complete THEN @ \union {c} ELSE @]
  PROVE  InferenceInv'
<1>. DEFINE t == ToolCallPart(c, partial, complete)
<1>1. Said \in Seq(Events) /\ CallsSaid(Said, stream.started, stream.complete)
  BY SaidType DEF InferenceInv, CallsSaid
<1>2. /\ t \in Seq(Events)
      /\ \A j \in DOMAIN t : t[j].kind \in ToolKinds
      /\ CallsSaid(Said \o t, stream.started \union {c},
                   IF complete THEN stream.complete \union {c} ELSE stream.complete)
  BY <1>1, PartAppend DEF InferenceInv
<1>. HIDE DEF t
<1>3. /\ stream'.started = stream.started \union {c}
      /\ stream'.complete = IF complete THEN stream.complete \union {c} ELSE stream.complete
      /\ stream'.ended = stream.ended /\ stream'.failed = stream.failed
  BY DEF InferenceInv, InferenceTypes
<1>4. ~Occurs(Ended, t) /\ ~Occurs(Failure, t)
  BY <1>2, PlainEvents DEF Occurs, ToolKinds
<1>5. \A j \in DOMAIN t : t[j].kind \notin {"synthetic", "ended", "failure"}
  BY <1>2 DEF ToolKinds
<1>6. Said' = Said \o t
  BY DEF t
<1>7. EndsAlone(Said)' /\ EndsRecorded'
  BY <1>2, <1>3, <1>4, <1>5, <1>6, FrameEnds
<1>. QED
  BY <1>2, <1>3, <1>6, <1>7 DEF InferenceInv, CallsSaid

LEMMA CallKeepsInv ==
  ASSUME InferenceInv, NEW c \in ToolIds, ToolCallFrame(c) \/ ConvertCall(c)
  PROVE  InferenceInv'
<1>1. \A partial, complete \in BOOLEAN : ToolCallPart(c, partial, complete) \in Seq(Events)
  <2>. SUFFICES ASSUME NEW partial \in BOOLEAN, NEW complete \in BOOLEAN
                PROVE  ToolCallPart(c, partial, complete) \in Seq(Events)
    OBVIOUS
  <2>. QED
    BY SaidType, PartAppend DEF InferenceInv, CallsSaid
<1>2. CASE ToolCallFrame(c)
  <2>1. PICK partial \in BOOLEAN, complete \in BOOLEAN :
          /\ ReadFrame(ToolCallPart(c, partial, complete))
          /\ stream' = [stream EXCEPT !.started = @ \union {c},
                                      !.complete = IF complete THEN @ \union {c} ELSE @]
    BY <1>2 DEF ToolCallFrame
  <2>2. stream' \in [started : SUBSET ToolIds, complete : SUBSET ToolIds,
                     ended : BOOLEAN, failed : BOOLEAN]
    BY <2>1 DEF InferenceInv, InferenceTypes
  <2>3. ToolCallPart(c, partial, complete) \in Seq(Events)
    BY <1>1
  <2>4. /\ InferenceTypes' /\ ReaderPlace' /\ ~readLoop.last /\ ~readLoop'.last
        /\ Said' = Said \o ToolCallPart(c, partial, complete)
    BY <2>1, <2>2, <2>3, ReadTypes
  <2>. QED
    BY <2>1, <2>4, PartStep
<1>3. CASE ConvertCall(c)
  <2>1. PICK partial \in BOOLEAN :
          readLoop' = [readLoop EXCEPT !.queue = @ \o ToolCallPart(c, partial, TRUE), !.calls = @ \ {c}]
    BY <1>3 DEF ConvertCall
  <2>. DEFINE t == ToolCallPart(c, partial, TRUE)
  <2>2. t \in Seq(Events)
    BY <1>1
  <2>. HIDE DEF t
  <2>3. /\ readLoop.queue \in Seq(Events) /\ log \in Seq(Events) /\ readLoop.pc = "convert"
        /\ readLoop \in [pc : {"read", "convert", "send", "returned"}, queue : Seq(Events),
                       last : BOOLEAN, calls : SUBSET ToolIds]
    BY <1>3 DEF InferenceInv, InferenceTypes, ConvertCall
  <2>4. readLoop.queue \o t \in Seq(Events)
    BY <2>2, <2>3, Concat
  <2>5. /\ readLoop'.pc = "convert" /\ readLoop'.last = readLoop.last /\ readLoop'.queue = readLoop.queue \o t
        /\ readLoop' \in [pc : {"read", "convert", "send", "returned"}, queue : Seq(Events),
                        last : BOOLEAN, calls : SUBSET ToolIds]
    BY <2>1, <2>3, <2>4 DEF t
  <2>6. /\ UNCHANGED <<cancelled, frames, log, taken>>
        /\ stream' = [stream EXCEPT !.started = @ \union {c}, !.complete = @ \union {c}]
    BY <1>3 DEF ConvertCall
  <2>7. stream' \in [started : SUBSET ToolIds, complete : SUBSET ToolIds,
                     ended : BOOLEAN, failed : BOOLEAN]
    BY <2>6 DEF InferenceInv, InferenceTypes
  <2>8. InferenceTypes'
    BY <2>5, <2>6, <2>7 DEF InferenceInv, InferenceTypes
  <2>9. ReaderPlace' /\ ~readLoop.last /\ ~readLoop'.last
    BY <2>3, <2>5 DEF InferenceInv, ReaderPlace
  <2>10. Said' = Said \o t
    <3>1. Said' = log \o (readLoop.queue \o t)
      BY <2>5, <2>6 DEF Said
    <3>2. log \o (readLoop.queue \o t) = (log \o readLoop.queue) \o t
      BY <2>2, <2>3, ConcatAssoc
    <3>. QED
      BY <3>1, <3>2 DEF Said
  <2>. QED
    BY <2>6, <2>8, <2>9, <2>10, PartStep DEF t
<1>. QED
  BY <1>2, <1>3

(* The closing message.                                                     *)
LEMMA InfoKeepsInv ==
  ASSUME InferenceInv, InfoFrame \/ InfoConverted
  PROVE  InferenceInv'
<1>. USE PlainEvents
<1>1. /\ readLoop \in [pc : {"read", "convert", "send", "returned"}, queue : Seq(Events),
                     last : BOOLEAN, calls : SUBSET ToolIds]
      /\ stream \in [started : SUBSET ToolIds, complete : SUBSET ToolIds,
                     ended : BOOLEAN, failed : BOOLEAN]
      /\ log \in Seq(Events) /\ Said \in Seq(Events)
  BY SaidType DEF InferenceInv, InferenceTypes
<1>2. <<>> \in Seq(Events) /\ \A x \in Events : <<x>> \in Seq(Events)
  OBVIOUS
<1>3. CASE InfoFrame
  <2>1. PICK calls \in SUBSET ToolIds, queue \in {<<>>, <<Content>>} :
          readLoop' = [readLoop EXCEPT !.pc = "convert", !.queue = queue, !.calls = calls]
    BY <1>3 DEF InfoFrame
  <2>2. queue \in Seq(Events) /\ (queue = <<>> \/ \E x \in Events : queue = <<x>> /\ x.call = NoToolCall)
    BY <1>2
  <2>3. UNCHANGED <<cancelled, stream, log, taken>> /\ frames' = frames + 1 /\ readLoop.pc = "read"
    BY <1>3 DEF InfoFrame
  <2>4. /\ readLoop.queue = <<>> /\ ~readLoop.last /\ ~readLoop'.last
        /\ readLoop'.pc = "convert" /\ readLoop'.queue = queue
        /\ readLoop' \in [pc : {"read", "convert", "send", "returned"}, queue : Seq(Events),
                        last : BOOLEAN, calls : SUBSET ToolIds]
    BY <1>1, <2>1, <2>2, <2>3 DEF InferenceInv, ReaderPlace
  <2>5. InferenceTypes' /\ ReaderPlace'
    BY <2>3, <2>4 DEF InferenceInv, InferenceTypes, ReaderPlace
  <2>6. Said = log /\ Said' = Said \o queue
    BY <1>1, <2>3, <2>4, ConcatEmpty DEF Said
  <2>7. /\ \A j \in DOMAIN queue : queue[j].kind = "content"
        /\ ~Occurs(Ended, queue) /\ ~Occurs(Failure, queue)
    <3>1. queue = <<>> => DOMAIN queue = {} /\ \A e : ~Occurs(e, queue)
      BY OneEvent
    <3>2. ASSUME queue = <<Content>>
          PROVE  DOMAIN queue = {1} /\ queue[1] = Content /\ \A e : Occurs(e, queue) <=> e = Content
      BY <3>2, OneEvent
    <3>. QED
      BY <3>1, <3>2
  <2>. QED
    BY <2>2, <2>3, <2>4, <2>5, <2>6, <2>7, PlainStep
<1>4. CASE InfoConverted
  <2>1. /\ UNCHANGED <<cancelled, frames, log, taken>> /\ readLoop.pc = "convert"
        /\ ~readLoop.last
    BY <1>4 DEF InfoConverted, InferenceInv, ReaderPlace
  <2>2. CASE Emitting(readLoop.queue, FALSE) /\ UNCHANGED stream
    <3>1. /\ readLoop'.pc = "send" /\ readLoop'.queue = readLoop.queue /\ ~readLoop'.last
          /\ readLoop' \in [pc : {"read", "convert", "send", "returned"}, queue : Seq(Events),
                          last : BOOLEAN, calls : SUBSET ToolIds]
      BY <1>1, <2>2 DEF Emitting
    <3>2. InferenceTypes' /\ ReaderPlace'
      BY <2>1, <2>2, <3>1 DEF InferenceInv, InferenceTypes, ReaderPlace
    <3>3. Said' = Said
      BY <2>1, <3>1 DEF Said
    <3>. QED
      BY <2>1, <2>2, <3>1, <3>2, <3>3 DEF InferenceInv, EndsRecorded
  <2>3. CASE Emitting(Append(readLoop.queue, Failure), FALSE) /\ stream' = [stream EXCEPT !.failed = TRUE]
    <3>1. Append(readLoop.queue, Failure) = readLoop.queue \o <<Failure>>
      BY <1>1, ConcatOne
    <3>2. readLoop.queue \o <<Failure>> \in Seq(Events)
      BY <1>1, <1>2, Concat
    <3>3. /\ readLoop'.pc = "send" /\ readLoop'.queue = readLoop.queue \o <<Failure>> /\ ~readLoop'.last
          /\ readLoop' \in [pc : {"read", "convert", "send", "returned"}, queue : Seq(Events),
                          last : BOOLEAN, calls : SUBSET ToolIds]
      BY <1>1, <2>3, <3>1, <3>2 DEF Emitting
    <3>4. /\ stream' \in [started : SUBSET ToolIds, complete : SUBSET ToolIds,
                          ended : BOOLEAN, failed : BOOLEAN]
          /\ stream'.started = stream.started /\ stream'.complete = stream.complete
          /\ stream'.failed /\ (stream'.ended <=> stream.ended)
      BY <1>1, <2>3
    <3>5. InferenceTypes' /\ ReaderPlace'
      BY <2>1, <3>3, <3>4 DEF InferenceInv, InferenceTypes, ReaderPlace
    <3>6. Said' = Said \o <<Failure>>
      <4>1. Said' = log \o (readLoop.queue \o <<Failure>>)
        BY <2>1, <3>3 DEF Said
      <4>2. log \o (readLoop.queue \o <<Failure>>) = (log \o readLoop.queue) \o <<Failure>>
        BY <1>1, <1>2, ConcatAssoc
      <4>. QED
        BY <4>1, <4>2 DEF Said
    <3>7. \A j \in DOMAIN <<Failure>> : <<Failure>>[j] = Failure
      BY OneEvent
    <3>8. /\ stream'.ended <=> stream.ended \/ Occurs(Ended, <<Failure>>)
          /\ stream'.failed <=> stream.failed \/ Occurs(Failure, <<Failure>>)
      BY <3>4, OneEvent
    <3>9. \A j \in DOMAIN <<Failure>> :
            /\ <<Failure>>[j].kind # "synthetic"
            /\ <<Failure>>[j].kind = "ended" => stream'.ended
            /\ <<Failure>>[j].kind = "failure" => stream'.failed
      BY <3>4, <3>7
    <3>10. <<Failure>> \in Seq(Events) /\ \E x \in Events : <<Failure>> = <<x>> /\ x.call = NoToolCall
      BY <1>2
    <3>. QED
      BY <2>1, <3>3, <3>4, <3>5, <3>6, <3>8, <3>9, <3>10, PlainStep
  <2>. QED
    BY <1>4, <2>2, <2>3 DEF InfoConverted
<1>. QED
  BY <1>3, <1>4

(* The reader's last events.                                                *)
LEMMA OtherConcat ==
  ASSUME NEW s \in Seq(Events), NEW t \in Seq(Events), \A j \in DOMAIN t : t[j].call = NoToolCall,
         NEW started, NEW complete, CallsSaid(s, started, complete)
  PROVE  CallsSaid(s \o t, started, complete)
<1>. DEFINE u == s \o t
<1>1. /\ Len(u) = Len(s) + Len(t)
      /\ \A j \in 1 .. Len(s) : u[j] = s[j]
      /\ \A j \in 1 .. Len(t) : u[Len(s) + j] = t[j]
      /\ DOMAIN u = 1 .. Len(u) /\ DOMAIN s = 1 .. Len(s) /\ DOMAIN t = 1 .. Len(t)
      /\ Len(s) \in Nat /\ Len(t) \in Nat
  BY Concat
<1>. HIDE DEF u
<1>2. \A j \in DOMAIN u : j \in DOMAIN s \/ u[j].call = NoToolCall
  <2>. SUFFICES ASSUME NEW j \in DOMAIN u, j \notin DOMAIN s PROVE u[j].call = NoToolCall
    OBVIOUS
  <2>1. j - Len(s) \in 1 .. Len(t) /\ j = Len(s) + (j - Len(s))
    BY <1>1
  <2>. QED
    BY <1>1, <2>1
<1>3. CallsInOrder(u)
  <2>. SUFFICES ASSUME NEW j \in DOMAIN u, u[j].call # NoToolCall
                PROVE  /\ u[j].kind \in {"started", "completed"} =>
                            \A i \in 1 .. j - 1 : u[i] # u[j]
                       /\ u[j].kind # "started" =>
                            \E i \in 1 .. j - 1 : u[i] = Chat("started", u[j].call)
    BY DEF CallsInOrder
  <2>1. j \in DOMAIN s
    BY <1>2
  <2>. QED
    BY <1>1, <2>1 DEF CallsSaid, CallsInOrder
<1>4. ASSUME NEW c \in ToolIds, NEW kind
      PROVE  Occurs(Chat(kind, c), u) <=> Occurs(Chat(kind, c), s)
  <2>1. Chat(kind, c).call # NoToolCall
    BY InferenceAssumption DEF Chat
  <2>. QED
    BY <1>1, <1>2, <2>1 DEF Occurs
<1>5. CallsRecorded(u, started, complete)
  BY <1>4 DEF CallsRecorded, CallsSaid
<1>. QED
  BY <1>3, <1>5 DEF CallsSaid, u

LEMMA LastStep ==
  ASSUME InferenceInv, readLoop.pc = "read", NEW t \in Seq(Events), Emitting(t, TRUE),
         UNCHANGED <<cancelled, stream, frames, log, taken>>,
         \A j \in DOMAIN t : t[j].call = NoToolCall,
         \A j \in DOMAIN t : t[j].kind = "synthetic" =>
           j = 1 /\ ~stream.ended /\ ~stream.failed /\ \A i \in 2 .. Len(t) : t[i].kind = "ok",
         ~cancelled /\ ~stream.ended /\ ~stream.failed =>
           \E j \in DOMAIN t : t[j] \in {Ended, SyntheticEnd, Failure}
  PROVE  InferenceInv'
<1>. DEFINE s == Said
            u == s \o t
<1>1. /\ readLoop.queue = <<>> /\ ~readLoop.last
      /\ readLoop'.pc = "send" /\ readLoop'.queue = t /\ readLoop'.last
      /\ readLoop' \in [pc : {"read", "convert", "send", "returned"}, queue : Seq(Events),
                      last : BOOLEAN, calls : SUBSET ToolIds]
  BY DEF InferenceInv, InferenceTypes, ReaderPlace, Emitting
<1>2. InferenceTypes' /\ ReaderPlace'
  BY <1>1 DEF InferenceInv, InferenceTypes, ReaderPlace
<1>3. s \in Seq(Events) /\ s = log
  BY <1>1, SaidType, ConcatEmpty DEF InferenceInv, InferenceTypes, Said
<1>4. Said' = u
  BY <1>1, <1>3 DEF Said
<1>5. /\ Len(u) = Len(s) + Len(t)
      /\ \A j \in 1 .. Len(s) : u[j] = s[j]
      /\ \A j \in 1 .. Len(t) : u[Len(s) + j] = t[j]
      /\ DOMAIN u = 1 .. Len(u) /\ DOMAIN s = 1 .. Len(s) /\ DOMAIN t = 1 .. Len(t)
      /\ Len(s) \in Nat /\ Len(t) \in Nat
  BY <1>3, Concat
<1>6. CallsSaid(u, stream'.started, stream'.complete)
  BY <1>3, OtherConcat DEF InferenceInv, CallsSaid
<1>7. /\ stream.ended => Occurs(Ended, s)
      /\ stream.failed => Occurs(Failure, s)
      /\ \A j \in DOMAIN s : /\ s[j].kind = "ended" => stream.ended
                             /\ s[j].kind = "failure" => stream.failed
                             /\ s[j].kind # "synthetic"
  BY <1>1 DEF InferenceInv, EndsRecorded
<1>. HIDE DEF u, s
<1>8. \A e : Occurs(e, s) => Occurs(e, u)
  BY <1>5 DEF Occurs
<1>9. EndsAlone(u)
  <2>. SUFFICES ASSUME NEW j \in DOMAIN u, u[j] = SyntheticEnd
                PROVE  /\ \A i \in 1 .. j - 1 : u[i].kind \notin {"ended", "synthetic", "failure"}
                       /\ \A i \in j + 1 .. Len(u) : u[i].kind = "ok"
    BY DEF EndsAlone
  <2>1. u[j].kind = "synthetic"
    BY PlainEvents
  <2>2. j \notin 1 .. Len(s)
    BY <1>5, <1>7, <2>1
  <2>3. j - Len(s) \in 1 .. Len(t) /\ j = Len(s) + (j - Len(s))
    BY <1>5, <2>2
  <2>4. /\ j - Len(s) = 1 /\ ~stream.ended /\ ~stream.failed
        /\ \A i \in 2 .. Len(t) : t[i].kind = "ok"
    BY <1>5, <2>1, <2>3
  <2>5. \A i \in 1 .. j - 1 : u[i].kind \notin {"ended", "synthetic", "failure"}
    BY <1>5, <1>7, <2>4
  <2>6. ASSUME NEW i \in j + 1 .. Len(u) PROVE u[i].kind = "ok"
    <3>1. i - Len(s) \in 2 .. Len(t) /\ i - Len(s) \in 1 .. Len(t) /\ i = Len(s) + (i - Len(s))
      BY <1>5, <2>4, <2>6
    <3>. QED
      BY <1>5, <2>4, <3>1
  <2>. QED
    BY <2>5, <2>6
<1>10. ~cancelled => \E j \in DOMAIN u : u[j] \in {Ended, SyntheticEnd, Failure}
  <2>1. ASSUME NEW j \in DOMAIN t, t[j] \in {Ended, SyntheticEnd, Failure}
        PROVE  \E i \in DOMAIN u : u[i] \in {Ended, SyntheticEnd, Failure}
    <3>1. Len(s) + j \in DOMAIN u /\ u[Len(s) + j] = t[j]
      BY <1>5
    <3>. QED
      BY <2>1, <3>1
  <2>. QED
    BY <1>7, <1>8, <2>1 DEF Occurs
<1>11. EndsRecorded'
  BY <1>1, <1>4, <1>7, <1>8, <1>10 DEF EndsRecorded
<1>. QED
  BY <1>2, <1>4, <1>6, <1>9, <1>11 DEF InferenceInv, CallsSaid

LEMMA EndKeepsInv ==
  ASSUME InferenceInv, TrailerFrame \/ ReadFails
  PROVE  InferenceInv'
<1>. DEFINE Ok == Chat("ok", NoToolCall)
            Both == Append(<<SyntheticEnd>>, Ok)
<1>1. /\ <<>> \in Seq(Events) /\ <<Failure>> \in Seq(Events) /\ <<SyntheticEnd>> \in Seq(Events)
      /\ <<Ok>> \in Seq(Events) /\ Both \in Seq(Events)
  BY PlainEvents
<1>2. readLoop.pc = "read" /\ UNCHANGED <<cancelled, stream, frames, log, taken>>
  BY DEF TrailerFrame, ReadFails
<1>3. CASE Emitting(<<Failure>>, TRUE)
  <2>1. Len(<<Failure>>) = 1 /\ DOMAIN <<Failure>> = {1} /\ <<Failure>>[1] = Failure
    OBVIOUS
  <2>. QED
    BY <1>1, <1>2, <1>3, <2>1, PlainEvents, LastStep
<1>4. CASE Emitting(<<>>, TRUE) /\ (cancelled \/ stream.ended \/ stream.failed)
  <2>1. DOMAIN <<>> = {}
    OBVIOUS
  <2>. QED
    BY <1>1, <1>2, <1>4, <2>1, LastStep
<1>5. CASE Emitting(<<SyntheticEnd>>, TRUE) /\ ~stream.ended /\ ~stream.failed
  <2>1. Len(<<SyntheticEnd>>) = 1 /\ DOMAIN <<SyntheticEnd>> = {1} /\ <<SyntheticEnd>>[1] = SyntheticEnd
    OBVIOUS
  <2>2. \A j \in DOMAIN <<SyntheticEnd>> : <<SyntheticEnd>>[j].call = NoToolCall
    BY <2>1, PlainEvents
  <2>3. \A j \in DOMAIN <<SyntheticEnd>> : <<SyntheticEnd>>[j].kind = "synthetic" =>
          /\ j = 1 /\ ~stream.ended /\ ~stream.failed
          /\ \A i \in 2 .. Len(<<SyntheticEnd>>) : <<SyntheticEnd>>[i].kind = "ok"
    BY <1>5, <2>1, PlainEvents
  <2>4. \E j \in DOMAIN <<SyntheticEnd>> : <<SyntheticEnd>>[j] \in {Ended, SyntheticEnd, Failure}
    BY <2>1
  <2>. HIDE DEF Ok
  <2>. QED
    BY <1>1, <1>2, <1>5, <2>2, <2>3, <2>4, LastStep
<1>6. CASE Emitting(<<Ok>>, TRUE) /\ (stream.ended \/ stream.failed)
  <2>1. Len(<<Ok>>) = 1 /\ DOMAIN <<Ok>> = {1} /\ <<Ok>>[1] = Ok
    OBVIOUS
  <2>. QED
    BY <1>1, <1>2, <1>6, <2>1, PlainEvents, LastStep
<1>7. CASE Emitting(Both, TRUE) /\ ~stream.ended /\ ~stream.failed
  <2>1. /\ Len(Both) = 2 /\ DOMAIN Both = {1, 2}
        /\ Both[1] = SyntheticEnd /\ Both[2] = Ok
    BY PlainEvents, <1>1
  <2>2. \A j \in DOMAIN Both : Both[j].call = NoToolCall
    BY <2>1, PlainEvents
  <2>3. \A j \in DOMAIN Both : Both[j].kind = "synthetic" =>
          j = 1 /\ ~stream.ended /\ ~stream.failed /\ \A i \in 2 .. Len(Both) : Both[i].kind = "ok"
    BY <1>7, <2>1, PlainEvents
  <2>4. \E j \in DOMAIN Both : Both[j] \in {Ended, SyntheticEnd, Failure}
    BY <2>1
  <2>. HIDE DEF Both
  <2>. QED
    BY <1>1, <1>2, <1>7, <2>2, <2>3, <2>4, LastStep
<1>8. SyntheticTurnEnd \o <<Ok>> = IF stream.ended \/ stream.failed THEN <<Ok>> ELSE Both
  <2>1. <<>> \o <<Ok>> = <<Ok>>
    BY <1>1, ConcatEmpty
  <2>2. <<SyntheticEnd>> \o <<Ok>> = Append(<<SyntheticEnd>>, Ok)
    BY <1>1, PlainEvents, ConcatOne
  <2>. QED
    BY <2>1, <2>2 DEF SyntheticTurnEnd
<1>9. SyntheticTurnEnd = IF stream.ended \/ stream.failed THEN <<>> ELSE <<SyntheticEnd>>
  BY DEF SyntheticTurnEnd
<1>. HIDE DEF Ok, Both
<1>10. CASE TrailerFrame
  BY <1>3, <1>6, <1>7, <1>8, <1>10 DEF TrailerFrame, Ok
<1>11. CASE ReadFails
  BY <1>3, <1>4, <1>5, <1>9, <1>11 DEF ReadFails
<1>. QED
  BY <1>10, <1>11

-----------------------------------------------------------------------------
(* What remains changes nothing that was said.                              *)
LEMMA SaidKept ==
  ASSUME InferenceInv, InferenceTypes', ReaderPlace', Said' = Said, stream' = stream,
         readLoop'.last = readLoop.last, cancelled => cancelled'
  PROVE  InferenceInv'
  BY DEF InferenceInv, EndsRecorded

LEMMA OtherStepsKeepInv ==
  ASSUME InferenceInv, SendEvent \/ SentAll \/ ReceiveEvent \/ CancelTurn \/ UNCHANGED inferenceVars
  PROVE  InferenceInv'
<1>1. /\ readLoop \in [pc : {"read", "convert", "send", "returned"}, queue : Seq(Events),
                     last : BOOLEAN, calls : SUBSET ToolIds]
      /\ log \in Seq(Events)
  BY DEF InferenceInv, InferenceTypes
<1>2. CASE SendEvent
  <2>1. /\ readLoop.pc = "send" /\ readLoop.queue # <<>>
        /\ log' = Append(log, Head(readLoop.queue))
        /\ readLoop' = [readLoop EXCEPT !.queue = Tail(@)]
        /\ UNCHANGED <<cancelled, stream, frames, taken>>
    BY <1>2 DEF SendEvent
  <2>2. /\ Append(log, Head(readLoop.queue)) \in Seq(Events) /\ Tail(readLoop.queue) \in Seq(Events)
        /\ Append(log, Head(readLoop.queue)) \o Tail(readLoop.queue) = log \o readLoop.queue
    BY <1>1, <2>1, SendMoves
  <2>3. /\ readLoop'.queue = Tail(readLoop.queue) /\ readLoop'.pc = "send" /\ readLoop'.last = readLoop.last
        /\ readLoop' \in [pc : {"read", "convert", "send", "returned"}, queue : Seq(Events),
                        last : BOOLEAN, calls : SUBSET ToolIds]
    BY <1>1, <2>1, <2>2
  <2>4. Said' = Said
    BY <2>1, <2>2, <2>3 DEF Said
  <2>5. InferenceTypes' /\ ReaderPlace'
    BY <2>1, <2>2, <2>3 DEF InferenceInv, InferenceTypes, ReaderPlace
  <2>. QED
    BY <2>1, <2>3, <2>4, <2>5, SaidKept
<1>3. CASE SentAll
  <2>1. /\ readLoop.pc = "send" /\ readLoop.queue = <<>>
        /\ readLoop' = [readLoop EXCEPT !.pc = IF readLoop.last THEN "returned" ELSE "read"]
        /\ UNCHANGED <<cancelled, stream, frames, log, taken>>
    BY <1>3 DEF SentAll
  <2>2. /\ readLoop'.queue = <<>> /\ readLoop'.pc = (IF readLoop.last THEN "returned" ELSE "read")
        /\ readLoop'.last = readLoop.last
        /\ readLoop' \in [pc : {"read", "convert", "send", "returned"}, queue : Seq(Events),
                        last : BOOLEAN, calls : SUBSET ToolIds]
    BY <1>1, <2>1
  <2>3. InferenceTypes' /\ ReaderPlace'
    BY <2>1, <2>2 DEF InferenceInv, InferenceTypes, ReaderPlace
  <2>4. Said' = Said
    BY <2>1, <2>2 DEF Said
  <2>. QED
    BY <2>1, <2>2, <2>3, <2>4, SaidKept
<1>4. CASE ReceiveEvent
  BY <1>4, SaidKept DEF ReceiveEvent, InferenceInv, InferenceTypes, ReaderPlace, Said
<1>5. CASE CancelTurn
  BY <1>5, SaidKept DEF CancelTurn, InferenceInv, InferenceTypes, ReaderPlace, Said
<1>6. CASE UNCHANGED inferenceVars
  BY <1>6, SaidKept DEF inferenceVars, InferenceInv, InferenceTypes, ReaderPlace, Said
<1>. QED
  BY <1>2, <1>3, <1>4, <1>5, <1>6

LEMMA InferenceInvNext == InferenceInv /\ [InferenceNext]_inferenceVars => InferenceInv'
<1>. SUFFICES ASSUME InferenceInv, [InferenceNext]_inferenceVars
              PROVE  InferenceInv'
  OBVIOUS
<1>1. CASE ContentFrame \/ UsageFrame \/ ErrorFrame
  BY <1>1, FrameKeepsInv
<1>2. CASE InfoFrame \/ InfoConverted
  BY <1>2, InfoKeepsInv
<1>3. CASE TrailerFrame \/ ReadFails
  BY <1>3, EndKeepsInv
<1>4. ASSUME NEW c \in ToolIds, ToolCallFrame(c) \/ ConvertCall(c)
      PROVE  InferenceInv'
  BY <1>4, CallKeepsInv
<1>5. CASE SendEvent \/ SentAll \/ ReceiveEvent \/ CancelTurn \/ UNCHANGED inferenceVars
  BY <1>5, OtherStepsKeepInv
<1>. QED
  BY <1>1, <1>2, <1>3, <1>4, <1>5 DEF InferenceNext

LEMMA InferenceInvariant == InferenceSpec => []InferenceInv
  BY InferenceInvInit, InferenceInvNext, PTL DEF InferenceSpec

-----------------------------------------------------------------------------
(* The log is the front of what was said.                                   *)
LEMMA LogIsFront ==
  ASSUME InferenceInv
  PROVE  /\ log \in Seq(Events) /\ Said \in Seq(Events)
         /\ DOMAIN log = 1 .. Len(log) /\ DOMAIN Said = 1 .. Len(Said)
         /\ Len(log) \in Nat /\ Len(Said) \in Nat /\ Len(log) <= Len(Said)
         /\ \A j \in 1 .. Len(log) : Said[j] = log[j]
         /\ readLoop.queue = <<>> => Said = log
<1>1. log \in Seq(Events) /\ readLoop.queue \in Seq(Events)
  BY DEF InferenceInv, InferenceTypes
<1>. QED
  BY <1>1, Concat, ConcatEmpty DEF Said

(* A stream that was not cancelled tells its consumer how the turn ended,   *)
(* and an end the reader makes up comes alone (inference_stream.go:479-485,*)
(* 540-553), for any frames, channel and consumer.                         *)
THEOREM TurnsEndOnce == InferenceSpec => []InferenceEnds
<1>1. InferenceInv => InferenceEnds
  <2>. SUFFICES ASSUME InferenceInv PROVE InferenceEnds
    OBVIOUS
  <2>1. ASSUME readLoop.pc = "returned", ~cancelled
        PROVE  Sent({Ended, SyntheticEnd, Failure})
    <3>1. Said = log /\ readLoop.last
      BY <2>1, LogIsFront DEF InferenceInv, ReaderPlace
    <3>. QED
      BY <2>1, <3>1 DEF InferenceInv, EndsRecorded, Sent
  <2>2. ASSUME NEW j \in DOMAIN log, log[j] = SyntheticEnd
        PROVE  /\ \A i \in 1 .. j - 1 : log[i].kind \notin {"ended", "synthetic", "failure"}
               /\ \A i \in j + 1 .. Len(log) : log[i].kind = "ok"
    <3>1. j \in DOMAIN Said /\ Said[j] = SyntheticEnd
      BY <2>2, LogIsFront
    <3>2. /\ \A i \in 1 .. j - 1 : Said[i].kind \notin {"ended", "synthetic", "failure"}
          /\ \A i \in j + 1 .. Len(Said) : Said[i].kind = "ok"
      BY <3>1 DEF InferenceInv, EndsAlone
    <3>. QED
      BY <2>2, <3>2, LogIsFront
  <2>. QED
    BY <2>1, <2>2 DEF InferenceEnds
<1>. QED
  BY <1>1, InferenceInvariant, PTL

(* However its parts are spread and repeated, a tool call starts once, and  *)
(* completes at most once, after it started (inference_stream.go:703-756). *)
THEOREM ToolCallsStartOnce == InferenceSpec => []CallsStartOnce
<1>1. InferenceInv => CallsStartOnce
  <2>. SUFFICES ASSUME InferenceInv, NEW j \in DOMAIN log, log[j].call # NoToolCall
                PROVE  /\ log[j].kind \in {"started", "completed"} =>
                            \A i \in 1 .. j - 1 : log[i] # log[j]
                       /\ log[j].kind # "started" =>
                            \E i \in 1 .. j - 1 : log[i] = Chat("started", log[j].call)
    BY DEF CallsStartOnce
  <2>1. j \in DOMAIN Said /\ Said[j] = log[j] /\ \A i \in 1 .. j - 1 : Said[i] = log[i]
    BY LogIsFront
  <2>. QED
    BY <2>1 DEF InferenceInv, CallsInOrder
<1>. QED
  BY <1>1, InferenceInvariant, PTL

=============================================================================
