----------------------------- MODULE GoChannels -----------------------------
(***************************************************************************)
(* The Go channel operations the supervisor relies on.  A channel is a     *)
(* bounded buffer with a closed flag; the language gives it four rules the *)
(* supervisor's correctness hangs on:                                      *)
(*   - `select { case ch <- m: default: }` never blocks: it appends when   *)
(*     there is room and otherwise drops the message;                      *)
(*   - a send on a closed channel panics, whatever the select around it;   *)
(*   - closing a channel twice panics;                                     *)
(*   - a receive drains the buffer first, and only then reports the close. *)
(* A panic in any goroutine ends the whole process.                        *)
(***************************************************************************)
EXTENDS Naturals, Sequences

\* The channels made with room for cap messages.
Chan(Msg, cap) == {ch \in [buf : Seq(Msg), closed : BOOLEAN] : Len(ch.buf) <= cap}

MakeChan == [buf |-> <<>>, closed |-> FALSE]

IsFull(ch, cap) == Len(ch.buf) >= cap

\* What a non-blocking send leaves in an open channel.
TrySend(ch, m, cap) ==
    IF IsFull(ch, cap) THEN ch ELSE [ch EXCEPT !.buf = Append(@, m)]

CloseChan(ch) == [ch EXCEPT !.closed = TRUE]

HasMessage(ch) == ch.buf # <<>>

\* The receiver sees `_, ok := <-ch` with ok = FALSE.
AtClose(ch) == ch.buf = <<>> /\ ch.closed

Receive(ch) == [ch EXCEPT !.buf = Tail(@)]
=============================================================================
