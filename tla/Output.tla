------------------------------- MODULE Output -------------------------------
(***************************************************************************)
(* JsonlSink of rustcrawl-core (sink.rs): one line per page through a       *)
(* BufWriter.  A page is two calls of write_all, its record and the         *)
(* newline, under one mutex; each step here is one write(2) of the system,  *)
(* or one copy into the buffer, so that the program can end between any two. *)
(*                                                                         *)
(* A line is three pieces: the record in two, so that it can be cut, and    *)
(* the newline.  An output is [buffer, file, rest, sound]: what is          *)
(* buffered, what has reached the file, what the call that holds the mutex  *)
(* has still to write, and whether no write has failed yet (auxiliary).     *)
(***************************************************************************)
EXTENDS Naturals, Sequences

CONSTANTS
    Capacity,     \* how many pieces the buffer holds
    Long,         \* the pages whose record is as long as the buffer, or longer
    WriteMayFail  \* whether the writer beneath may fail, a full disk for one

ASSUME OutputAssumption == Capacity \in Nat /\ Capacity > 2 /\ WriteMayFail \in BOOLEAN

\* What a page is written as; the third piece is the newline.
Line(page) == [n \in 1..3 |-> [page |-> page, part |-> n]]

\* File::create truncates.
Created == [buffer |-> <<>>, file |-> <<>>, rest |-> <<>>, sound |-> TRUE]

\* What write_all is to write now: what is left of the record, or the newline.
Now(out) == IF Len(out.rest) > 1 THEN Len(out.rest) - 1 ELSE Len(out.rest)
IsLong(out) == Len(out.rest) > 1 /\ out.rest[1].page \in Long
Fits(out) == ~IsLong(out) /\ Len(out.buffer) + Now(out) <= Capacity

Buffered(out) ==
    [out EXCEPT !.buffer = @ \o SubSeq(out.rest, 1, Now(out)),
                !.rest = SubSeq(@, Now(out) + 1, Len(@))]

\* flush_buf: a write(2) takes as much of the buffer as it likes, but something.
Drain(out) ==
    {[out EXCEPT !.file = @ \o SubSeq(out.buffer, 1, k),
                 !.buffer = SubSeq(@, k + 1, Len(@))] : k \in 1..Len(out.buffer)}

\* A record that is too long for the buffer goes past it, once it is empty.
Bypass(out) ==
    {[out EXCEPT !.file = @ \o SubSeq(out.rest, 1, k),
                 !.rest = SubSeq(@, k + 1, Len(@))] : k \in 1..Now(out)}

\* A step of Sink::page that succeeds.
Page(out) ==
    IF Fits(out) THEN {Buffered(out)}
    ELSE IF out.buffer # <<>> THEN Drain(out) ELSE Bypass(out)

\* A write(2) that fails: what is buffered stays there, the call is over.
MayFail(out) == WriteMayFail /\ (out.rest # <<>> => ~Fits(out))
Failed(out) == [out EXCEPT !.rest = <<>>, !.sound = FALSE]
=============================================================================
