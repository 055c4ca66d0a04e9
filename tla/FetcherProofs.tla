---------------------------- MODULE FetcherProofs ----------------------------
(***************************************************************************)
(* What a call of Fetcher::fetch promises, proved for every server: retries *)
(* are bounded and well spent, the pauses double, and a body is whole.      *)
(***************************************************************************)
EXTENDS Fetcher, SequenceTheorems, WellFoundedInduction, TLAPS

-----------------------------------------------------------------------------
(* Induction on the natural numbers, for a set instead of an operator: the  *)
(* least number that is not in it would follow one that is.                 *)
LEMMA NatSetInduction ==
    ASSUME NEW S \in SUBSET Nat, 0 \in S, \A n \in S : n + 1 \in S
    PROVE  S = Nat
<1> SUFFICES ASSUME Nat \ S # {} PROVE FALSE
  OBVIOUS
<1>1. PICK m \in Nat \ S : \A n \in Nat \ S : ~(<<n, m>> \in OpToRel(<, Nat))
  BY NatLessThanWellFounded, WFMin
<1>2. \A n \in Nat \ S : ~(n < m)
  BY <1>1 DEF OpToRel
<1>3. m - 1 \in Nat /\ m - 1 < m
  OBVIOUS
<1> QED BY <1>2, <1>3

-----------------------------------------------------------------------------
(* The size of a body: the sum of its chunks, which the library's fold adds *)
(* up from the left.                                                        *)

Total(s) == FoldLeft(+, 0, s)

\* The recursive function inside the fold, for + and s.
IsSummation(g, s) ==
    g = [T \in SUBSET DOMAIN s |-> IF T = {} THEN 0 ELSE g[T \ {Max(T)}] + s[Max(T)]]

Summation(s) == CHOOSE g : IsSummation(g, s)

LEMMA FoldIsSummation == ASSUME NEW s PROVE Total(s) = Summation(s)[DOMAIN s]
BY DEF Total, FoldLeft, MapThenFoldSet, Summation, IsSummation

LEMMA MaxIsLast ==
    ASSUME NEW n \in Nat, NEW T \in SUBSET (1..(n + 1)), n + 1 \in T
    PROVE  Max(T) = n + 1 /\ T \ {Max(T)} \in SUBSET (1..n)
<1>1. \A x \in T : x \in 1..(n + 1)
  OBVIOUS
<1>2. \A x \in T : (\A y \in T : x >= y) <=> x = n + 1
  BY <1>1
<1>3. Max(T) = n + 1
  BY <1>2 DEF Max
<1> QED BY <1>3

(* The recursion has a solution: one for the sets of the first n positions  *)
(* extends to those with the position after them.                           *)
LEMMA SummationExists ==
    ASSUME NEW s \in Seq(Nat)
    PROVE  \E g : IsSummation(g, s)
<1> DEFINE Term(g, T) == IF T = {} THEN 0 ELSE g[T \ {Max(T)}] + s[Max(T)]
           Partial(g, n) == g = [T \in SUBSET (1..n) |-> Term(g, T)]
           S == {n \in Nat : \E g : Partial(g, n)}
<1>1. 0 \in S
  <2>1. \A T \in SUBSET (1..0) : T = {}
    OBVIOUS
  <2>2. \A g, T : T = {} => Term(g, T) = 0
    OBVIOUS
  <2>3. Partial([T \in SUBSET (1..0) |-> 0], 0)
    <3> HIDE DEF Term
    <3> QED BY <2>1, <2>2
  <2> QED BY <2>3
<1>2. ASSUME NEW n \in S PROVE n + 1 \in S
  <2>1. PICK g : Partial(g, n)
    OBVIOUS
  <2> DEFINE h == [T \in SUBSET (1..(n + 1)) |-> Term(g, T)]
  <2>2. \A T \in SUBSET (1..n) : T \in SUBSET (1..(n + 1)) /\ h[T] = g[T]
    <3>1. \A T \in SUBSET (1..n) : T \in SUBSET (1..(n + 1))
      OBVIOUS
    <3>2. \A T \in SUBSET (1..n) : g[T] = Term(g, T)
      <4> HIDE DEF Term
      <4> QED BY <2>1
    <3> HIDE DEF Term
    <3> QED BY <3>1, <3>2
  <2>3. \A T \in SUBSET (1..(n + 1)) : T # {} => T \ {Max(T)} \in SUBSET (1..n)
    <3> SUFFICES ASSUME NEW T \in SUBSET (1..(n + 1)), T # {} PROVE T \ {Max(T)} \in SUBSET (1..n)
      OBVIOUS
    <3>1. CASE n + 1 \in T
      BY <3>1, MaxIsLast
    <3>2. CASE n + 1 \notin T
      <4>1. T \in SUBSET (1..n)
        BY <3>2
      <4> QED BY <4>1
    <3> QED BY <3>1, <3>2
  <2>4. \A T \in SUBSET (1..(n + 1)) : Term(g, T) = Term(h, T)
    BY <2>2, <2>3
  <2>5. Partial(h, n + 1)
    <3> HIDE DEF Term
    <3> QED BY <2>4
  <2>6. n + 1 \in Nat /\ \E k : Partial(k, n + 1)
    <3> HIDE DEF Partial, h
    <3> QED BY <2>5
  <2> QED BY <2>6
<1>3. S = Nat
  <2> HIDE DEF S
  <2>1. S \in SUBSET Nat
    BY DEF S
  <2> QED BY <1>1, <1>2, <2>1, NatSetInduction
<1>4. Len(s) \in S /\ DOMAIN s = 1..Len(s)
  <2> HIDE DEF S
  <2> QED BY <1>3
<1>5. PICK g : Partial(g, Len(s))
  BY <1>4
<1>6. g = [T \in SUBSET DOMAIN s |-> Term(g, T)]
  <2> HIDE DEF Term
  <2> QED BY <1>4, <1>5
<1> QED BY <1>6 DEF IsSummation

\* The sum of the first n elements.
Upto(s, n) == Summation(s)[1..n]

LEMMA Regroup ==
    ASSUME NEW a \in Nat, NEW b \in Nat, NEW c \in Nat
    PROVE  a + b \in Nat /\ (c + a) + b = c + (a + b)
OBVIOUS

LEMMA SumUnfolds ==
    ASSUME NEW s \in Seq(Nat)
    PROVE  /\ Total(s) = Upto(s, Len(s))
           /\ Upto(s, 0) = 0
           /\ \A n \in Nat : n < Len(s) => Upto(s, n + 1) = Upto(s, n) + s[n + 1]
<1>1. IsSummation(Summation(s), s)
  BY SummationExists DEF Summation
<1>2. \A T \in SUBSET DOMAIN s :
        Summation(s)[T] = IF T = {} THEN 0 ELSE Summation(s)[T \ {Max(T)}] + s[Max(T)]
  BY <1>1 DEF IsSummation
<1>3. Total(s) = Upto(s, Len(s))
  BY FoldIsSummation DEF Upto
<1>4. Upto(s, 0) = 0
  <2>1. 1..0 = {} /\ {} \in SUBSET DOMAIN s
    OBVIOUS
  <2> QED BY <1>2, <2>1 DEF Upto
<1>5. ASSUME NEW n \in Nat, n < Len(s) PROVE Upto(s, n + 1) = Upto(s, n) + s[n + 1]
  <2> DEFINE T == 1..(n + 1)
  <2>1. T \in SUBSET DOMAIN s /\ T \in SUBSET (1..(n + 1)) /\ T # {} /\ n + 1 \in T
    <3>1. n + 1 \in T /\ T \in SUBSET (1..(n + 1))
      OBVIOUS
    <3>2. DOMAIN s = 1..Len(s) /\ Len(s) \in Nat
      OBVIOUS
    <3>3. T \in SUBSET DOMAIN s
      BY <1>5, <3>2
    <3> HIDE DEF T
    <3> QED BY <3>1, <3>3
  <2>2. Max(T) = n + 1
    BY <2>1, MaxIsLast
  <2>3. T \ {n + 1} = 1..n
    OBVIOUS
  <2> HIDE DEF T
  <2>4. Summation(s)[T] = Summation(s)[T \ {Max(T)}] + s[Max(T)]
    BY <1>2, <2>1
  <2> QED BY <2>2, <2>3, <2>4 DEF Upto, T
<1> QED BY <1>3, <1>4, <1>5

LEMMA EmptySum == Total(<<>>) = 0
<1>1. <<>> \in Seq(Nat) /\ Len(<<>>) = 0
  OBVIOUS
<1> QED BY <1>1, SumUnfolds

(* The first element can be taken off the sum first.                        *)
LEMMA HeadAndTail ==
    ASSUME NEW s \in Seq(Nat), s # <<>>
    PROVE  /\ Head(s) \in Nat /\ Tail(s) \in Seq(Nat)
           /\ Total(s) \in Nat /\ Total(Tail(s)) \in Nat
           /\ Total(s) = Head(s) + Total(Tail(s))
<1> DEFINE t == Tail(s)
           S == {n \in Nat : n <= Len(t) =>
                   Upto(t, n) \in Nat /\ Upto(s, n + 1) = Head(s) + Upto(t, n)}
<1>1. t \in Seq(Nat) /\ Head(s) \in Nat /\ Head(s) = s[1] /\ Len(s) = Len(t) + 1
  OBVIOUS
<1>2. \A n \in Nat : n < Len(t) => t[n + 1] = s[n + 2] /\ t[n + 1] \in Nat
  OBVIOUS
<1>0. Len(t) \in Nat /\ Len(s) = Len(t) + 1
  BY <1>1
<1> HIDE DEF t
<1>3. 0 \in S
  <2>1. Upto(s, 0 + 1) = Upto(s, 0) + s[0 + 1]
    BY <1>1, SumUnfolds
  <2> QED BY <1>1, <2>1, SumUnfolds
<1>4. ASSUME NEW n \in S PROVE n + 1 \in S
  <2>0. n \in Nat /\ (n <= Len(t) => Upto(t, n) \in Nat /\ Upto(s, n + 1) = Head(s) + Upto(t, n))
    OBVIOUS
  <2>1. ASSUME n + 1 <= Len(t)
        PROVE  Upto(t, n + 1) \in Nat /\ Upto(s, n + 1 + 1) = Head(s) + Upto(t, n + 1)
    <3> HIDE DEF S
    <3>1. n \in Nat /\ n < Len(t) /\ n <= Len(t) /\ n + 1 \in Nat /\ n + 1 < Len(s)
      BY <1>0, <2>0, <2>1
    <3> PICK before, after, h, x :
          before = Upto(t, n) /\ after = Upto(t, n + 1) /\ h = Head(s) /\ x = t[n + 1]
      OBVIOUS
    <3>2. before \in Nat /\ Upto(s, n + 1) = h + before
      BY <2>0, <3>1
    <3>3. after = before + x
      BY <1>1, <3>1, SumUnfolds
    <3>4. s[n + 1 + 1] = x /\ x \in Nat /\ h \in Nat
      BY <1>1, <1>2, <3>1
    <3>5. Upto(s, n + 1 + 1) = (h + before) + x
      BY <3>1, <3>2, <3>4, SumUnfolds
    <3>6. (h + before) + x = h + (before + x) /\ before + x \in Nat
      BY <3>2, <3>4, Regroup
    <3> QED BY <3>3, <3>5, <3>6, Zenon
  <2> QED BY <2>0, <2>1
<1>5. S = Nat
  <2> HIDE DEF S
  <2>1. S \in SUBSET Nat
    BY DEF S
  <2> QED BY <1>3, <1>4, <2>1, NatSetInduction
<1>6. Upto(t, Len(t)) \in Nat /\ Upto(s, Len(t) + 1) = Head(s) + Upto(t, Len(t))
  <2>1. Len(t) \in S
    <3> HIDE DEF S
    <3> QED BY <1>1, <1>5
  <2> QED BY <1>1, <2>1
<1>7. Total(t) = Upto(t, Len(t)) /\ Total(s) = Upto(s, Len(s))
  BY <1>1, SumUnfolds
<1> QED BY <1>1, <1>6, <1>7 DEF t

-----------------------------------------------------------------------------
(* The pauses between the requests. *)

\* The delays before the retries, from the first on: doubled up to the limit.
Doubling(d) == d = [n \in Nat |-> IF n = 0 THEN 200 ELSE Least(2 * d[n - 1], 10000)]

Delays ==
    [n \in Nat |-> IF n = 0 THEN 200 ELSE IF n = 1 THEN 400 ELSE IF n = 2 THEN 800
                   ELSE IF n = 3 THEN 1600 ELSE IF n = 4 THEN 3200 ELSE IF n = 5 THEN 6400
                   ELSE 10000]

LEMMA DoublingIsDelays ==
    /\ Doubling(Delays)
    /\ \A d : Doubling(d) => d = Delays
<1>1. \A n \in Nat : Delays[n] = IF n = 0 THEN 200 ELSE Least(2 * Delays[n - 1], 10000)
  <2> SUFFICES ASSUME NEW n \in Nat, n # 0 PROVE Delays[n] = Least(2 * Delays[n - 1], 10000)
    BY DEF Delays
  <2>1. n - 1 \in Nat
    OBVIOUS
  <2> QED BY <2>1 DEF Delays, Least
<1>2. Doubling(Delays)
  <2>1. Delays = [n \in Nat |-> Delays[n]]
    BY DEF Delays
  <2> HIDE DEF Delays
  <2> QED BY <1>1, <2>1 DEF Doubling
<1>3. ASSUME NEW d, Doubling(d) PROVE d = Delays
  <2> DEFINE S == {n \in Nat : d[n] = Delays[n]}
  <2>1. \A n \in Nat : d[n] = IF n = 0 THEN 200 ELSE Least(2 * d[n - 1], 10000)
    BY <1>3 DEF Doubling
  <2>2. 0 \in S
    BY <1>1, <2>1
  <2>3. ASSUME NEW n \in S PROVE n + 1 \in S
    <3>1. n + 1 \in Nat /\ n + 1 # 0 /\ (n + 1) - 1 = n
      OBVIOUS
    <3> QED BY <1>1, <2>1, <3>1
  <2>4. S = Nat
    <3> HIDE DEF S
    <3>1. S \in SUBSET Nat
      BY DEF S
    <3> QED BY <2>2, <2>3, <3>1, NatSetInduction
  <2>5. d = [n \in Nat |-> d[n]] /\ Delays = [n \in Nat |-> Delays[n]]
    BY <1>3 DEF Doubling, Delays
  <2>6. \A n \in Nat : d[n] = Delays[n]
    BY <2>4
  <2> HIDE DEF Delays
  <2> QED BY <2>5, <2>6
<1> QED BY <1>2, <1>3

LEMMA BackoffDoubles ==
    ASSUME NEW n \in Nat, n > 0
    PROVE  /\ BackoffForAttempt(n) \in Nat
           /\ BackoffForAttempt(n) = Delays[n - 1]
<1>1. 2 ^ 0 = 1 /\ 2 ^ 1 = 2 /\ 2 ^ 2 = 4 /\ 2 ^ 3 = 8 /\ 2 ^ 4 = 16 /\ 2 ^ 5 = 32 /\ 2 ^ 6 = 64
  OBVIOUS
<1>2. n - 1 \in Nat
  OBVIOUS
<1> DEFINE k == Least(n - 1, 6)
<1>3. k = IF n - 1 <= 5 THEN n - 1 ELSE 6
  BY DEF Least
<1>4. /\ k = 0 => 2 ^ k = 1
      /\ k = 1 => 2 ^ k = 2
      /\ k = 2 => 2 ^ k = 4
      /\ k = 3 => 2 ^ k = 8
      /\ k = 4 => 2 ^ k = 16
      /\ k = 5 => 2 ^ k = 32
      /\ k = 6 => 2 ^ k = 64
  <2> HIDE DEF k
  <2> QED BY <1>1, Zenon
<1>5. 2 ^ Least(n - 1, 6) = IF n - 1 = 0 THEN 1 ELSE IF n - 1 = 1 THEN 2 ELSE IF n - 1 = 2 THEN 4
         ELSE IF n - 1 = 3 THEN 8 ELSE IF n - 1 = 4 THEN 16 ELSE IF n - 1 = 5 THEN 32 ELSE 64
  <2> DEFINE p == 2 ^ k
  <2>1. k \in 0..6 /\ k = IF n - 1 <= 5 THEN n - 1 ELSE 6
    BY <1>2, <1>3
  <2> HIDE DEF p, k
  <2>2. /\ k = 0 => p = 1
        /\ k = 1 => p = 2
        /\ k = 2 => p = 4
        /\ k = 3 => p = 8
        /\ k = 4 => p = 16
        /\ k = 5 => p = 32
        /\ k = 6 => p = 64
    BY <1>4, Zenon DEF p
  <2>3. p = IF n - 1 = 0 THEN 1 ELSE IF n - 1 = 1 THEN 2 ELSE IF n - 1 = 2 THEN 4
         ELSE IF n - 1 = 3 THEN 8 ELSE IF n - 1 = 4 THEN 16 ELSE IF n - 1 = 5 THEN 32 ELSE 64
    BY <1>2, <2>1, <2>2
  <2> QED BY <2>3 DEF p, k
<1> DEFINE p == 2 ^ Least(n - 1, 6)
<1>6. p \in Nat /\ p = IF n - 1 = 0 THEN 1 ELSE IF n - 1 = 1 THEN 2 ELSE IF n - 1 = 2 THEN 4
         ELSE IF n - 1 = 3 THEN 8 ELSE IF n - 1 = 4 THEN 16 ELSE IF n - 1 = 5 THEN 32 ELSE 64
  BY <1>5
<1>7. BackoffForAttempt(n) = Least(200 * p, 10000)
  BY DEF BackoffForAttempt, BASE_BACKOFF, MAX_BACKOFF
<1> HIDE DEF p
<1> QED BY <1>2, <1>6, <1>7 DEF Least, Delays

-----------------------------------------------------------------------------
(* The inductive invariant. *)

(* An answer may be followed by a retry only if it was temporary, and not   *)
(* too large unless it was an error page.                                   *)
WorthARetry(a) == Temporary(a) /\ (a.status < 400 => ~Oversized(a))

\* The answer whose body is being read.
Readable(a) ==
    /\ a.send = "ok" /\ a.status < 400
    /\ a.declared = None \/ a.declared <= MaxBody

Delay(a, n) ==
    IF a.send = "ok" /\ a.status >= 400 /\ a.retry_after # None
      THEN 1000 * Least(a.retry_after, MAX_RETRY_AFTER)
      ELSE BackoffForAttempt(n)

Typed ==
    /\ TypeOK
    /\ pc \in {"send", "sleep"} => buf = 0
    /\ pc = "sleep" => attempt > 0

(* Every request but the last was worth a retry; all of them are, before    *)
(* the next one.                                                            *)
Answered ==
    /\ Len(heard) = attempt + (IF pc \in {"chunk", "returned"} THEN 1 ELSE 0)
    /\ \A i \in 1..attempt : WorthARetry(heard[i])
    /\ pc = "sleep" => pause = Delay(Last(heard), attempt)

(* What is buffered and what is still to come are the body that the server  *)
(* is sending.                                                              *)
Reading ==
    pc = "chunk" =>
        /\ Readable(Last(heard))
        /\ reply.ends = Last(heard).ends
        /\ buf + Total(reply.chunks) = Total(Last(heard).chunks)

Returned ==
    pc = "returned" =>
        LET a == Last(heard) IN
        IF result.ok
          THEN /\ Readable(a) /\ a.ends = "ok"
               /\ result.body = Total(a.chunks) /\ result.body <= MaxBody
          ELSE Temporary(a) /\ ~Skipped(a) => attempt = MaxRetries

IInv == Typed /\ Answered /\ Reading /\ Returned

LEMMA Appended ==
    ASSUME NEW h \in Seq(Answers), NEW a \in Answers
    PROVE  /\ Append(h, a) \in Seq(Answers)
           /\ Len(Append(h, a)) = Len(h) + 1
           /\ Last(Append(h, a)) = a
           /\ \A i \in 1..Len(h) : Append(h, a)[i] = h[i]
BY DEF Last

(* The error an answer ends in is retryable if and only if the answer is    *)
(* temporary and is not skipped.                                            *)
Matches(err, a) ==
    /\ err \in Error
    /\ IsRetryable(err) => WorthARetry(a)
    /\ Temporary(a) /\ ~Skipped(a) => IsRetryable(err)
    /\ IsRetryable(err) =>
         err.retry_after = IF a.send = "ok" /\ a.status >= 400 THEN a.retry_after ELSE None

(* Retrying after an error, or returning it, keeps the invariant.           *)
LEMMA FailedKeeps ==
    ASSUME IInv, NEW err, Failed(err), heard' \in Seq(Answers), Len(heard') = attempt + 1,
           Matches(err, Last(heard')), pc # "returned",
           \A i \in 1..attempt : heard'[i] = heard[i]
    PROVE  IInv'
<1> DEFINE a == Last(heard')
<1>0. attempt \in Nat /\ a = heard'[attempt + 1] /\ a \in Answers /\ MaxRetries \in Nat /\ MaxBody \in Nat
  <2>1. attempt \in Nat
    BY FetcherAssumption DEF IInv, Typed, TypeOK
  <2> QED BY <2>1, FetcherAssumption DEF Last
<1>1. a \in Answer
  BY <1>0, FetcherAssumption
<1>2. reply' = None /\ buf' = 0 /\ buf' \in 0..MaxBody
  BY <1>0 DEF Failed
<1>3. CASE Retry(err)
  <2>1. attempt' = attempt + 1 /\ attempt' \in 0..MaxRetries /\ pc' = "sleep" /\ result' = None
    BY <1>0, <1>3 DEF Retry, IInv, Typed, TypeOK
  <2>2. WorthARetry(a) /\ IsRetryable(err)
    BY <1>3 DEF Retry, Matches
  <2>3. \A i \in 1..attempt' : WorthARetry(heard'[i])
    <3> SUFFICES ASSUME NEW i \in 1..attempt' PROVE WorthARetry(heard'[i])
      OBVIOUS
    <3>1. CASE i = attempt + 1
      BY <1>0, <2>2, <3>1
    <3>2. CASE i # attempt + 1
      <4>1. i \in 1..attempt
        BY <1>0, <2>1, <3>2
      <4> QED BY <4>1 DEF IInv, Answered
    <3> QED BY <3>1, <3>2
  <2>4. pause' = Delay(a, attempt') /\ pause' \in Nat
    <3>1. BackoffForAttempt(attempt + 1) \in Nat
      BY <1>0, BackoffDoubles
    <3>2. pause' = IF err.retry_after = None THEN BackoffForAttempt(attempt + 1)
                   ELSE 1000 * Least(err.retry_after, MAX_RETRY_AFTER)
      BY <1>3, <2>1 DEF Retry, RetryDelay
    <3>3. err.retry_after = IF a.send = "ok" /\ a.status >= 400 THEN a.retry_after ELSE None
      BY <2>2 DEF Matches
    <3>4. err.retry_after \in Nat \cup {None}
      BY DEF Matches, Error
    <3> HIDE DEF a
    <3> QED BY <2>1, <3>1, <3>2, <3>3, <3>4 DEF Delay, Least, MAX_RETRY_AFTER
  <2>5. Typed'
    BY <1>0, <1>2, <2>1, <2>4 DEF Typed, TypeOK
  <2> QED BY <1>0, <2>1, <2>3, <2>4, <2>5 DEF IInv, Answered, Reading, Returned
<1>4. CASE GiveUp(err)
  <2>1. attempt' = attempt /\ pause' = pause /\ pc' = "returned" /\ attempt \in 0..MaxRetries
    BY <1>4 DEF GiveUp, IInv, Typed, TypeOK
  <2>2. /\ result' = [ok |-> FALSE, kind |-> err.kind, body |-> None]
        /\ ~(IsRetryable(err) /\ attempt < MaxRetries)
    BY <1>4 DEF GiveUp
  <2>3. result' \in Outcome /\ ~result'.ok
    BY <2>2 DEF Outcome, Matches, Error
  <2>4. result' # None
    BY <2>3, FetcherAssumption
  <2>5. Typed'
    BY <1>0, <1>2, <2>1, <2>3, <2>4 DEF IInv, Typed, TypeOK
  <2>6. Returned'
    BY <1>0, <2>1, <2>2, <2>3 DEF Returned, Matches
  <2> QED BY <1>0, <2>1, <2>5, <2>6 DEF IInv, Answered, Reading
<1> QED BY <1>3, <1>4 DEF Failed

LEMMA SizeIsTotal == \A a : Size(a) = Total(a.chunks)
BY DEF Size, Total

LEMMA TotalIsNat == \A s \in Seq(Nat) : Total(s) \in Nat
BY HeadAndTail, EmptySum

LEMMA AnswerFields ==
    ASSUME NEW a \in Answer
    PROVE  /\ a.send \in {"ok"} \cup ErrorKind /\ a.ends \in {"ok"} \cup ErrorKind
           /\ a.status \in Nat /\ a.declared \in Nat \cup {None}
           /\ a.retry_after \in Nat \cup {None} /\ a.chunks \in Seq(Nat)
           /\ IsRetryableStatus(a.status) \in BOOLEAN
<1>1. IsRetryableStatus(a.status) \in BOOLEAN
  <2>1. CASE IsRetryableStatus(a.status)
    <3>1. IsRetryableStatus(a.status) = TRUE
      BY <2>1 DEF IsRetryableStatus
    <3> QED BY <3>1
  <2>2. CASE ~IsRetryableStatus(a.status)
    <3>1. IsRetryableStatus(a.status) = FALSE
      BY <2>2 DEF IsRetryableStatus
    <3> QED BY <3>1
  <2> QED BY <2>1, <2>2
<1>2. a.status \in 200..599
  BY DEF Answer
<1>3. a.status \in Nat
  BY <1>2
<1> QED BY <1>1, <1>3 DEF Answer

LEMMA SendKeeps == ASSUME IInv, Send PROVE IInv'
<1>1. PICK a \in Answers :
        /\ heard' = Append(heard, a)
        /\ IF a.send # "ok" THEN Failed(Failure(a.send, FALSE, None))
           ELSE IF HeaderError(a) # None THEN Failed(HeaderError(a))
           ELSE /\ reply' = a
                /\ pc' = "chunk"
                /\ UNCHANGED <<attempt, buf, pause, result>>
  BY DEF Send
<1>2. a \in Answer
  BY FetcherAssumption
<1>3. /\ pc = "send" /\ heard \in Seq(Answers) /\ Len(heard) = attempt /\ attempt \in Nat
      /\ buf = 0
  BY FetcherAssumption DEF Send, IInv, Typed, TypeOK, Answered
<1>4. /\ heard' \in Seq(Answers) /\ Len(heard') = attempt + 1 /\ Last(heard') = a
      /\ \A i \in 1..attempt : heard'[i] = heard[i]
  BY <1>1, <1>3, Appended
<1>5. CASE a.send # "ok"
  <2> DEFINE err == Failure(a.send, FALSE, None)
  <2>1. a.send \in ErrorKind
    BY <1>2, <1>5 DEF Answer
  <2>2. Matches(err, a)
    BY <1>2, <1>5, <2>1
       DEF Matches, Failure, Error, ErrorKind, IsRetryable, WorthARetry, Temporary, Oversized
  <2> QED BY <1>1, <1>3, <1>4, <1>5, <2>2, FailedKeeps
<1>6. CASE a.send = "ok" /\ HeaderError(a) # None
  <2>1. CASE a.declared # None /\ a.declared > MaxBody
    <3>1. HeaderError(a) = Failure("TooLarge", FALSE, None)
      BY <2>1 DEF HeaderError
    <3>2. Matches(HeaderError(a), a)
      BY <1>2, <1>6, <2>1, <3>1 DEF Matches, Failure, Error, ErrorKind, IsRetryable, Skipped
    <3> QED BY <1>1, <1>3, <1>4, <1>6, <3>2, FailedKeeps
  <2>2. CASE ~(a.declared # None /\ a.declared > MaxBody) /\ a.status >= 400
    <3>1. HeaderError(a) = Failure("HttpStatus", IsRetryableStatus(a.status), a.retry_after)
      BY <2>2 DEF HeaderError
    <3>2. a.status \in Nat /\ a.retry_after \in Nat \cup {None} /\ IsRetryableStatus(a.status) \in BOOLEAN
      BY <1>2, AnswerFields
    <3> DEFINE err == HeaderError(a)
               r == IsRetryableStatus(a.status)
    <3>3. /\ err \in Error /\ err.retry_after = a.retry_after
          /\ err.kind = "HttpStatus" /\ err.retryable = r
      <4> HIDE DEF r
      <4> QED BY <3>1, <3>2 DEF Failure, Error, ErrorKind, r
    <3>4. r <=> a.status \in {408, 429, 500, 502, 503, 504}
      BY DEF IsRetryableStatus
    <3>5. IsRetryable(err) <=> r
      <4> HIDE DEF r, err
      <4> QED BY <3>3 DEF IsRetryable
    <3>6. Matches(err, a)
      <4> HIDE DEF r, err
      <4> QED BY <1>6, <2>2, <3>2, <3>3, <3>4, <3>5 DEF Matches, WorthARetry, Temporary, ErrorKind
    <3> QED BY <1>1, <1>3, <1>4, <1>6, <3>6, FailedKeeps
  <2>3. CASE ~(a.declared # None /\ a.declared > MaxBody) /\ ~(a.status >= 400)
    BY <1>6, <2>3 DEF HeaderError
  <2> QED BY <2>1, <2>2, <2>3
<1>7. CASE a.send = "ok" /\ HeaderError(a) = None
  <2>1. reply' = a /\ pc' = "chunk" /\ UNCHANGED <<attempt, buf, pause, result>>
    BY <1>1, <1>7
  <2>2. Readable(a)
    <3>1. \A k \in {"TooLarge", "HttpStatus"}, r \in BOOLEAN, d \in Nat \cup {None} : Failure(k, r, d) # None
      BY FetcherAssumption DEF Failure, Error
    <3>2. a.status \in Nat /\ a.retry_after \in Nat \cup {None} /\ a.declared \in Nat \cup {None}
          /\ IsRetryableStatus(a.status) \in BOOLEAN
      BY <1>2, AnswerFields
    <3>3. ~(a.declared # None /\ a.declared > MaxBody)
      BY <1>7, <3>1 DEF HeaderError
    <3>4. ~(a.status >= 400)
      BY <1>7, <3>1, <3>2, <3>3 DEF HeaderError
    <3> QED BY <1>7, <3>2, <3>3, <3>4, FetcherAssumption DEF Readable
  <2>3. Typed'
    BY <1>2, <1>3, <1>4, <2>1 DEF IInv, Typed, TypeOK
  <2>4. Answered'
    BY <1>3, <1>4, <2>1 DEF IInv, Answered
  <2>5. Reading'
    <3>1. Total(a.chunks) \in Nat
      BY <1>2, TotalIsNat DEF Answer
    <3> QED BY <1>3, <1>4, <2>1, <2>2, <3>1 DEF Reading
  <2> QED BY <2>1, <2>3, <2>4, <2>5 DEF IInv, Returned
<1> QED BY <1>5, <1>6, <1>7

LEMMA AnswerGoesOn ==
    ASSUME NEW r \in Answer, NEW t \in Seq(Nat)
    PROVE  /\ [r EXCEPT !.chunks = t] \in Answer
           /\ [r EXCEPT !.chunks = t].chunks = t
           /\ [r EXCEPT !.chunks = t].ends = r.ends
<1> DEFINE Kinds == {"ok"} \cup ErrorKind
           Instants == Nat \cup {None}
<1>1. Answer = [send : Kinds, status : 200..599, declared : Instants,
                retry_after : Instants, chunks : Seq(Nat), ends : Kinds]
  BY DEF Answer
<1> HIDE DEF Kinds, Instants
<1> PICK C, Statuses : C = Seq(Nat) /\ Statuses = 200..599
  OBVIOUS
<1>2. Answer = [send : Kinds, status : Statuses, declared : Instants,
                retry_after : Instants, chunks : C, ends : Kinds]
  BY <1>1
<1>3. t \in C
  OBVIOUS
<1> HIDE DEF Answer
<1>4. [r EXCEPT !.chunks = t] \in Answer
  BY <1>2, <1>3, ZenonT(30)
<1>5. [r EXCEPT !.chunks = t].chunks = t
  BY <1>2, ZenonT(30)
<1>6. [r EXCEPT !.chunks = t].ends = r.ends
  BY <1>2, ZenonT(30)
<1> QED BY <1>4, <1>5, <1>6

LEMMA ChunkKeeps == ASSUME IInv, Chunk PROVE IInv'
<1> DEFINE a == Last(heard)
           s == reply.chunks
<1>1. /\ pc = "chunk" /\ heard' = heard /\ heard \in Seq(Answers) /\ Len(heard) = attempt + 1
      /\ attempt \in Nat /\ reply \in Answer /\ s \in Seq(Nat) /\ s # <<>> /\ buf \in Nat /\ MaxBody \in Nat
  BY FetcherAssumption DEF Chunk, IInv, Typed, TypeOK, Answered, Answer
<1>2. a \in Answer
  <2>1. a \in Answers
    BY <1>1 DEF Last
  <2> QED BY <2>1, FetcherAssumption
<1>3. /\ Head(s) \in Nat /\ Tail(s) \in Seq(Nat) /\ Total(s) \in Nat /\ Total(Tail(s)) \in Nat
      /\ Total(s) = Head(s) + Total(Tail(s))
  BY <1>1, HeadAndTail
<1>4. Readable(a) /\ reply.ends = a.ends /\ buf + Total(s) = Total(a.chunks)
  BY <1>1 DEF IInv, Reading
<1> PICK h, rest, size : h = Head(s) /\ rest = Total(Tail(s)) /\ size = Total(a.chunks)
  OBVIOUS
<1>7. h \in Nat /\ rest \in Nat /\ buf + (h + rest) = size
  BY <1>3, <1>4, Zenon
<1>5. CASE buf + Head(s) > MaxBody
  <2> DEFINE err == Failure("TooLarge", FALSE, None)
  <2>1. Failed(err)
    BY <1>5 DEF Chunk
  <2>2. Total(a.chunks) > MaxBody
    <3>1. buf + h > MaxBody /\ buf \in Nat /\ MaxBody \in Nat
      BY <1>1, <1>5, Zenon
    <3> HIDE DEF a, s
    <3>2. size > MaxBody
      BY <1>7, <3>1
    <3> QED BY <3>2
  <2>3. Skipped(a)
    BY <1>4, <2>2, SizeIsTotal DEF Skipped, Readable
  <2>4. Matches(err, a)
    BY <2>3 DEF Matches, Failure, Error, ErrorKind, IsRetryable
  <2> QED BY <1>1, <2>1, <2>4, FailedKeeps
<1>6. CASE ~(buf + Head(s) > MaxBody)
  <2>1. /\ buf' = buf + Head(s) /\ reply' = [reply EXCEPT !.chunks = Tail(@)]
        /\ UNCHANGED <<pc, attempt, pause, result>>
    BY <1>6 DEF Chunk
  <2>2. reply' \in Answer /\ reply'.chunks = Tail(s) /\ reply'.ends = reply.ends
    <3> PICK t : t = Tail(s)
      OBVIOUS
    <3>0. reply.chunks = s /\ reply \in Answer
      BY <1>1, Zenon
    <3>4. reply' = [reply EXCEPT !.chunks = Tail(reply.chunks)]
      BY <2>1
    <3>5. reply' = [reply EXCEPT !.chunks = t] /\ t \in Seq(Nat)
      BY <1>3, <3>0, <3>4, Zenon
    <3>1. reply' = [reply EXCEPT !.chunks = t] /\ t \in Seq(Nat) /\ reply \in Answer
      BY <3>0, <3>5
    <3>2. /\ [reply EXCEPT !.chunks = t] \in Answer
          /\ [reply EXCEPT !.chunks = t].chunks = t
          /\ [reply EXCEPT !.chunks = t].ends = reply.ends
      BY <3>1, AnswerGoesOn
    <3> QED BY <3>1, <3>2, Zenon
  <2>3. buf' \in 0..MaxBody
    <3>1. ~(buf + h > MaxBody) /\ buf \in Nat /\ MaxBody \in Nat /\ buf' = buf + h
      BY <1>1, <1>6, <2>1, Zenon
    <3> HIDE DEF a, s
    <3> QED BY <1>7, <3>1
  <2>4. Typed'
    BY <1>1, <2>1, <2>2, <2>3 DEF IInv, Typed, TypeOK
  <2>5. buf' + Total(Tail(s)) = Total(a.chunks)
    <3>1. buf \in Nat /\ buf' = buf + h
      BY <1>1, <2>1, Zenon
    <3> HIDE DEF a, s
    <3>2. buf' + rest = size
      BY <1>7, <3>1
    <3> QED BY <3>2
  <2>6. Reading'
    BY <1>1, <1>4, <2>2, <2>5 DEF Reading
  <2>7. Answered'
    BY <1>1, <2>1 DEF IInv, Answered
  <2> QED BY <1>1, <2>1, <2>4, <2>6, <2>7 DEF IInv, Returned
<1> QED BY <1>5, <1>6

LEMMA BodyEndKeeps == ASSUME IInv, BodyEnd PROVE IInv'
<1> DEFINE a == Last(heard)
<1>1. /\ pc = "chunk" /\ heard' = heard /\ heard \in Seq(Answers) /\ Len(heard) = attempt + 1
      /\ attempt \in Nat /\ reply \in Answer /\ reply.chunks = <<>>
      /\ buf \in 0..MaxBody /\ buf \in Nat /\ MaxBody \in Nat
  BY FetcherAssumption DEF BodyEnd, IInv, Typed, TypeOK, Answered
<1>2. a \in Answer
  <2>1. a \in Answers
    BY <1>1 DEF Last
  <2> QED BY <2>1, FetcherAssumption
<1>3. Readable(a) /\ reply.ends = a.ends /\ buf = Total(a.chunks)
  BY <1>1, EmptySum DEF IInv, Reading
<1>4. ~Oversized(a)
  <2>1. ~(a.declared # None /\ a.declared > MaxBody)
    BY <1>1, <1>2, <1>3 DEF Readable, Answer
  <2>2. ~(Size(a) > MaxBody)
    BY <1>1, <1>3, SizeIsTotal
  <2> QED BY <2>1, <2>2 DEF Oversized
<1>5. CASE a.ends # "ok"
  <2> DEFINE err == Failure(a.ends, FALSE, None)
  <2>1. Failed(err)
    BY <1>3, <1>5 DEF BodyEnd
  <2>2. a.ends \in ErrorKind /\ a.status \in Nat /\ ~(a.status >= 400)
    <3>1. a.status \in Nat /\ a.status < 400 /\ a.ends \in ErrorKind
      BY <1>2, <1>3, <1>5, AnswerFields DEF Readable
    <3> QED BY <3>1
  <2>3. Matches(err, a)
    BY <1>3, <1>4, <2>2
       DEF Matches, Failure, Error, ErrorKind, IsRetryable, WorthARetry, Temporary, Readable
  <2> QED BY <1>1, <2>1, <2>3, FailedKeeps
<1>6. CASE a.ends = "ok"
  <2>1. /\ result' = [ok |-> TRUE, kind |-> None, body |-> buf] /\ pc' = "returned" /\ reply' = None
        /\ UNCHANGED <<attempt, buf, pause>>
    BY <1>3, <1>6 DEF BodyEnd
  <2>2. result' \in Outcome /\ result' # None
    <3>1. result' \in Outcome
      BY <1>1, <2>1 DEF Outcome
    <3> QED BY <3>1, FetcherAssumption
  <2>3. Typed'
    BY <1>1, <2>1, <2>2 DEF IInv, Typed, TypeOK
  <2>4. Returned'
    BY <1>1, <1>3, <1>6, <2>1 DEF Returned
  <2> QED BY <1>1, <2>1, <2>3, <2>4 DEF IInv, Answered, Reading
<1> QED BY <1>5, <1>6

LEMMA WakeUpKeeps == ASSUME IInv, WakeUp PROVE IInv'
BY DEF IInv, WakeUp, Typed, TypeOK, Answered, Reading, Returned

LEMMA IInvKept == IInv /\ [Next]_vars => IInv'
<1>1. ASSUME IInv, Done \/ UNCHANGED vars PROVE IInv'
  BY <1>1 DEF Done, vars, IInv, Typed, TypeOK, Answered, Reading, Returned
<1> QED BY <1>1, SendKeeps, ChunkKeeps, BodyEndKeeps, WakeUpKeeps DEF Next

LEMMA SpecIInv == Spec => []IInv
<1>1. Init => IInv
  BY FetcherAssumption DEF Init, IInv, Typed, TypeOK, Answered, Reading, Returned
<1> QED BY <1>1, IInvKept, PTL DEF Spec

-----------------------------------------------------------------------------
(* What a caller of fetch may rely on. *)

LEMMA LastAnswer == IInv /\ heard # <<>> => Last(heard) = heard[Len(heard)] /\ Last(heard) \in Answer
<1> SUFFICES ASSUME IInv, heard # <<>> PROVE heard[Len(heard)] \in Answer
  BY DEF Last
<1>1. heard \in Seq(Answers)
  BY DEF IInv, Typed, TypeOK
<1>2. heard[Len(heard)] \in Answers
  BY <1>1
<1> QED BY <1>2, FetcherAssumption

(* A call keeps its types for all answers, and never buffers more of a body *)
(* than the limit, though the server may declare another length or none.    *)
THEOREM TypeCorrect == Spec => []TypeOK
<1>1. IInv => TypeOK
  BY DEF IInv, Typed
<1> QED BY <1>1, SpecIInv, PTL

(* However the server answers, at most max_retries retries are made, and    *)
(* each of them after an answer that is temporary and not too large: a good *)
(* page or a permanent error is not asked for again.                        *)
THEOREM RetriesAreSpentWellHolds == Spec => []RetriesAreSpentWell
<1>1. IInv => RetriesAreSpentWell
  <2> SUFFICES ASSUME IInv PROVE RetriesAreSpentWell
    OBVIOUS
  <2>1. attempt \in Nat /\ attempt <= MaxRetries /\ MaxRetries \in Nat
    BY FetcherAssumption DEF IInv, Typed, TypeOK
  <2>2. Len(heard) \in {attempt, attempt + 1}
    BY <2>1 DEF IInv, Answered
  <2>3. \A i \in 1..(Len(heard) - 1) : i \in 1..attempt
    BY <2>1, <2>2
  <2>4. \A i \in 1..(Len(heard) - 1) : WorthARetry(heard[i])
    BY <2>3 DEF IInv, Answered
  <2> QED BY <2>1, <2>2, <2>4 DEF RetriesAreSpentWell, WorthARetry
<1> QED BY <1>1, SpecIInv, PTL

(* A page handed to the crawl is the whole body the server sent, within the *)
(* limit: the chunks of every reply add up to it.                           *)
THEOREM BodyIsWholeHolds == Spec => []BodyIsWhole
<1>1. IInv => BodyIsWhole
  <2> SUFFICES ASSUME IInv, result # None, result.ok
               PROVE  LET a == Last(heard) IN
                      /\ a.send = "ok" /\ a.status < 400 /\ a.ends = "ok"
                      /\ result.body = Size(a)
                      /\ ~Oversized(a)
    BY DEF BodyIsWhole
  <2>1. pc = "returned" /\ attempt \in Nat /\ Len(heard) = attempt + 1
    BY FetcherAssumption DEF IInv, Typed, TypeOK, Answered
  <2> DEFINE a == Last(heard)
  <2>2. a \in Answer
    <3>1. heard # <<>>
      BY <2>1
    <3> QED BY <3>1, LastAnswer
  <2>3. Readable(a) /\ a.ends = "ok" /\ result.body = Size(a) /\ result.body <= MaxBody
    BY <2>1, SizeIsTotal DEF IInv, Returned
  <2>4. ~(Size(a) > MaxBody)
    <3>1. Size(a) \in Nat
      BY <2>2, AnswerFields, SizeIsTotal, TotalIsNat
    <3> HIDE DEF a
    <3> QED BY <2>3, <3>1, FetcherAssumption
  <2>5. ~(a.declared # None /\ a.declared > MaxBody)
    BY <2>2, <2>3, AnswerFields, FetcherAssumption DEF Readable
  <2> QED BY <2>3, <2>4, <2>5 DEF Readable, Oversized
<1> QED BY <1>1, SpecIInv, PTL

(* A page is given up after a temporary failure only when no retry is left. *)
THEOREM TemporaryIsRetriedHolds == Spec => []TemporaryIsRetried
<1>1. IInv => TemporaryIsRetried
  BY FetcherAssumption DEF IInv, Typed, TypeOK, Answered, Returned, TemporaryIsRetried
<1> QED BY <1>1, SpecIInv, PTL

(* The pauses double from 200 ms to 10 s, however many retries there are,   *)
(* unless an error page states when to come back, which is heeded up to     *)
(* 30 s.                                                                    *)
THEOREM PauseIsExponentialHolds == Spec => []PauseIsExponential
<1>1. IInv => PauseIsExponential
  <2> SUFFICES ASSUME IInv, pc = "sleep" PROVE PauseIsExponential
    BY DEF PauseIsExponential
  <2> DEFINE a == Last(heard)
             told == a.send = "ok" /\ a.status >= 400 /\ a.retry_after # None
  <2>1. attempt \in Nat /\ attempt > 0 /\ Len(heard) = attempt /\ pause = Delay(a, attempt)
    BY FetcherAssumption DEF IInv, Typed, TypeOK, Answered
  <2>2. a \in Answer
    <3>1. heard # <<>>
      BY <2>1
    <3> QED BY <3>1, LastAnswer
  <2>3. (CHOOSE d : Doubling(d)) = Delays
    BY DoublingIsDelays
  <2>4. CASE told
    <3>1. pause = IF a.retry_after <= 30 THEN 1000 * a.retry_after ELSE 30000
      <4>1. a.retry_after \in Nat /\ pause = 1000 * Least(a.retry_after, 30)
        BY <2>1, <2>2, <2>4, AnswerFields DEF Delay, MAX_RETRY_AFTER
      <4> HIDE DEF a
      <4> QED BY <4>1 DEF Least
    <3> QED BY <2>4, <3>1 DEF PauseIsExponential
  <2>5. CASE ~told
    <3>1. pause = Delays[attempt - 1]
      BY <2>1, <2>5, BackoffDoubles DEF Delay
    <3>2. pause = (CHOOSE d : Doubling(d))[attempt - 1]
      BY <2>3, <3>1
    <3> QED BY <2>5, <3>2 DEF PauseIsExponential, Doubling
  <2> QED BY <2>4, <2>5
<1> QED BY <1>1, SpecIInv, PTL
=============================================================================
