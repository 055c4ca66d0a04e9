------------------------------ MODULE Fetcher -------------------------------
(***************************************************************************)
(* One call of Fetcher::fetch in rustcrawl-core (fetcher.rs): requests, the *)
(* body read chunk by chunk up to a limit, and retries after a backoff.     *)
(* What the server does is a constant: a set of answers, any of which may   *)
(* come to any request.  Durations are in milliseconds; a body and its limit *)
(* have small sizes.                                                        *)
(***************************************************************************)
EXTENDS Naturals, SequencesExt

CONSTANTS
    Answers,      \* what the server may do, see Answer
    MaxRetries,   \* config.max_retries
    MaxBody,      \* config.max_body_bytes
    None

VARIABLES
    pc,           \* "send", "chunk" (in read_capped), "sleep", "returned"
    attempt,      \* attempt of fetch: the retries made so far
    reply,        \* the response being read, None between requests
    buf,          \* how much of its body is buffered
    pause,        \* the length of the sleep before the next request
    result,       \* what fetch returns
    heard         \* auxiliary: the answers to all requests so far

vars == <<pc, attempt, reply, buf, pause, result, heard>>

(***************************************************************************)
(* An answer: send is "ok" or the kind of the error send() fails with; then *)
(* a status, the Content-Length and the Retry-After it states (seconds) and *)
(* the sizes of its chunks, and how the body ends: "ok" or a kind of error. *)
(***************************************************************************)
ErrorKind == {"Transport", "Other"}
Answer ==
    [send : {"ok"} \cup ErrorKind, status : 200..599, declared : Nat \cup {None},
     retry_after : Nat \cup {None}, chunks : Seq(Nat), ends : {"ok"} \cup ErrorKind]

BASE_BACKOFF == 200
MAX_BACKOFF == 10000
MAX_RETRY_AFTER == 30

\* FetchError, and what fetch returns.
Error ==
    [kind : ErrorKind \cup {"TooLarge", "HttpStatus"}, retryable : BOOLEAN,
     retry_after : Nat \cup {None}]
Outcome ==
    [ok : {TRUE}, kind : {None}, body : Nat]
        \cup [ok : {FALSE}, kind : ErrorKind \cup {"TooLarge", "HttpStatus"}, body : {None}]

\* The limits are of unsigned types; None is no value.
ASSUME FetcherAssumption ==
    /\ Answers \subseteq Answer
    /\ MaxRetries \in Nat /\ MaxBody \in Nat
    /\ None \notin Nat \cup Answer \cup Error \cup Outcome

Least(m, n) == IF m <= n THEN m ELSE n

\* Mutant of IsRetryableStatus: only server errors are temporary.
IsRetryableStatusMutant(status) == status >= 500

IsRetryableStatus(status) == status \in {408, 429, 500, 502, 503, 504}

\* The delay before retry n, n > 0.
BackoffForAttempt(n) == Least(BASE_BACKOFF * 2 ^ Least(n - 1, 6), MAX_BACKOFF)

\* Mutant of RetryDelay: the server's wish is not capped.
RetryDelayMutant(err, n) ==
    IF err.retry_after = None THEN BackoffForAttempt(n) ELSE 1000 * err.retry_after

RetryDelay(err, n) ==
    IF err.retry_after = None THEN BackoffForAttempt(n)
    ELSE 1000 * Least(err.retry_after, MAX_RETRY_AFTER)

Failure(kind, retryable, retry_after) ==
    [kind |-> kind, retryable |-> retryable, retry_after |-> retry_after]
IsRetryable(err) == err.kind = "Transport" \/ err.retryable

Init ==
    /\ pc = "send"
    /\ attempt = 0
    /\ reply = None
    /\ buf = 0
    /\ pause = 0
    /\ result = None
    /\ heard = <<>>

\* Mutant of Retry: one attempt too many.
RetryMutant(err) ==
    /\ IsRetryable(err)
    /\ attempt <= MaxRetries
    /\ attempt' = attempt + 1
    /\ pause' = RetryDelay(err, attempt')
    /\ pc' = "sleep"
    /\ UNCHANGED result

\* fetch's match on the result of try_fetch: retry ...
Retry(err) ==
    /\ IsRetryable(err)
    /\ attempt < MaxRetries
    /\ attempt' = attempt + 1
    /\ pause' = RetryDelay(err, attempt')
    /\ pc' = "sleep"
    /\ UNCHANGED result

\* ... or return the error.
GiveUp(err) ==
    /\ ~(IsRetryable(err) /\ attempt < MaxRetries)
    /\ result' = [ok |-> FALSE, kind |-> err.kind, body |-> None]
    /\ pc' = "returned"
    /\ UNCHANGED <<attempt, pause>>

Failed(err) ==
    /\ Retry(err) \/ GiveUp(err)
    /\ reply' = None
    /\ buf' = 0

\* try_fetch on the head of a response: the declared length comes first.
HeaderError(a) ==
    IF a.declared # None /\ a.declared > MaxBody THEN Failure("TooLarge", FALSE, None)
    ELSE IF a.status >= 400 THEN Failure("HttpStatus", IsRetryableStatus(a.status), a.retry_after)
    ELSE None

Send ==
    /\ pc = "send"
    /\ \E a \in Answers :
         /\ heard' = Append(heard, a)
         /\ IF a.send # "ok" THEN Failed(Failure(a.send, FALSE, None))
            ELSE IF HeaderError(a) # None THEN Failed(HeaderError(a))
            ELSE /\ reply' = a
                 /\ pc' = "chunk"
                 /\ UNCHANGED <<attempt, buf, pause, result>>

\* read_capped: the next chunk ...
Chunk ==
    /\ pc = "chunk"
    /\ reply.chunks # <<>>
    /\ IF buf + Head(reply.chunks) > MaxBody THEN Failed(Failure("TooLarge", FALSE, None))
       ELSE /\ buf' = buf + Head(reply.chunks)
            /\ reply' = [reply EXCEPT !.chunks = Tail(@)]
            /\ UNCHANGED <<pc, attempt, pause, result>>
    /\ UNCHANGED heard

\* Mutant of BodyEnd: a body cut short is returned as it is.
BodyEndMutant ==
    /\ pc = "chunk"
    /\ reply.chunks = <<>>
    /\ result' = [ok |-> TRUE, kind |-> None, body |-> buf]
    /\ pc' = "returned"
    /\ reply' = None
    /\ UNCHANGED <<attempt, buf, pause, heard>>

\* ... or the end of the body, or an error in it.
BodyEnd ==
    /\ pc = "chunk"
    /\ reply.chunks = <<>>
    /\ IF reply.ends # "ok" THEN Failed(Failure(reply.ends, FALSE, None))
       ELSE /\ result' = [ok |-> TRUE, kind |-> None, body |-> buf]
            /\ pc' = "returned"
            /\ reply' = None
            /\ UNCHANGED <<attempt, buf, pause>>
    /\ UNCHANGED heard

WakeUp ==
    /\ pc = "sleep"
    /\ pc' = "send"
    /\ UNCHANGED <<attempt, reply, buf, pause, result, heard>>

Done == pc = "returned" /\ UNCHANGED vars

Next == Send \/ Chunk \/ BodyEnd \/ WakeUp \/ Done

Spec == Init /\ [][Next]_vars

-----------------------------------------------------------------------------
(* Properties. *)

(* Every variable keeps its type; no more is ever buffered than the limit.  *)
TypeOK ==
    /\ pc \in {"send", "chunk", "sleep", "returned"}
    /\ attempt \in 0..MaxRetries
    /\ IF pc = "chunk" THEN reply \in Answer ELSE reply = None
    /\ buf \in 0..MaxBody
    /\ pause \in Nat
    /\ result \in Outcome \cup {None}
    /\ (pc = "returned") = (result # None)
    /\ heard \in Seq(Answers)

\* What a caller means by an answer that may be different the next time.
Temporary(a) ==
    \/ a.send = "Transport"
    \/ a.send = "ok" /\ a.status \in {408, 429, 500, 502, 503, 504}
    \/ a.send = "ok" /\ a.status < 400 /\ a.ends = "Transport"
Size(a) == FoldLeft(+, 0, a.chunks)
Oversized(a) ==
    /\ a.send = "ok"
    /\ (a.declared # None /\ a.declared > MaxBody) \/ Size(a) > MaxBody

\* The answers max_body_bytes skips: the body of an error page is not read.
Skipped(a) ==
    /\ a.send = "ok"
    /\ (a.declared # None /\ a.declared > MaxBody) \/ (a.status < 400 /\ Size(a) > MaxBody)

(* The retries are bounded and spent only on temporary failures: a page     *)
(* that was answered for good, with a body, a permanent error or one that   *)
(* is too large, is not asked for again, and none is asked for more than    *)
(* max_retries + 1 times.                                                   *)
RetriesAreSpentWell ==
    /\ Len(heard) <= MaxRetries + 1
    /\ \A i \in 1..(Len(heard) - 1) :
         Temporary(heard[i]) /\ (heard[i].status < 400 => ~Oversized(heard[i]))

(* A page is given for good only when its whole body was read and fits,     *)
(* whatever lengths the server declared.                                    *)
BodyIsWhole ==
    result # None /\ result.ok =>
        LET a == Last(heard) IN
        /\ a.send = "ok" /\ a.status < 400 /\ a.ends = "ok"
        /\ result.body = Size(a)
        /\ ~Oversized(a)

(* backoff doc "exponential backoff": without a Retry-After the pauses      *)
(* double from 200 ms to 10 s, however many retries are configured; with    *)
(* one the pause is what the server asked for, but never more than 30 s.    *)
PauseIsExponential ==
    pc = "sleep" =>
        LET a == Last(heard)
            doubled[n \in Nat] == IF n = 0 THEN 200 ELSE Least(2 * doubled[n - 1], 10000)
        IN IF a.send = "ok" /\ a.status >= 400 /\ a.retry_after # None
             THEN pause = IF a.retry_after <= 30 THEN 1000 * a.retry_after ELSE 30000
             ELSE pause = doubled[attempt - 1]

(* config.rs "Number of retry attempts for transient transport failures and *)
(* temporary HTTP statuses": a page is given up after a temporary failure   *)
(* only once the retries are used up.  An error page that declares more     *)
(* than the limit is skipped, as config.rs says of larger bodies; one that  *)
(* only sends more is retried.                                              *)
TemporaryIsRetried ==
    result # None /\ ~result.ok /\ Temporary(Last(heard)) /\ ~Skipped(Last(heard))
        => Len(heard) = MaxRetries + 1
=============================================================================
