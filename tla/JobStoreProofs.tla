--------------------------- MODULE JobStoreProofs ---------------------------
(***************************************************************************)
(* What the job history promises however the writes of its processes are    *)
(* cut, lost and mixed: for any processes, any number of jobs and any       *)
(* number of writes to a record.                                            *)
(***************************************************************************)
EXTENDS JobStore, FiniteSetTheorems, SequenceTheorems, WellFoundedInduction, TLAPS

-----------------------------------------------------------------------------
(* Induction on the natural numbers, for a set instead of an operator: the  *)
(* least number that is not in it would follow one that is.                 *)
LEMMA NatSetInduction ==
    ASSUME NEW S \in SUBSET Nat, 0 \in S, \A n \in S : n + 1 \in S
    PROVE  S = Nat
<1> SUFFICES ASSUME Nat \ S # {} PROVE FALSE
  OBVIOUS
<1>1. PICK m \in Nat \ S : \A n \in Nat \ S : ~(<<n, m>> \in OpToRel(<, Nat))
  BY NatLessThanWellFounded, WFMin
<1>2. \A n \in Nat \ S : ~(n < m)
  BY <1>1 DEF OpToRel
<1>3. m - 1 \in Nat /\ m - 1 < m
  OBVIOUS
<1> QED BY <1>2, <1>3

-----------------------------------------------------------------------------
(* A set of positions in order. *)

Increasing(s) == \A i, j \in DOMAIN s : i < j => s[i] < s[j]
Enumerates(s, S) == s \in [1..Cardinality(S) -> S] /\ Increasing(s)

LEMMA FiniteBelow ==
    ASSUME NEW n \in Nat, NEW S \in SUBSET (1..n)
    PROVE  IsFiniteSet(S) /\ Cardinality(S) \in Nat /\ S \subseteq Nat
<1>1. IsFiniteSet(1..n)
  BY FS_Interval
<1>2. IsFiniteSet(S)
  BY <1>1, FS_Subset
<1> QED BY <1>2, FS_CardinalityType

(* The largest position, if it is there, comes after the others. *)
LEMMA OneMore ==
    ASSUME NEW n \in Nat, NEW T \in SUBSET (1..n), NEW s, Enumerates(s, T)
    PROVE  \E t : Enumerates(t, T \cup {n + 1})
<1> PICK U : U = T \cup {n + 1}
  OBVIOUS
<1> DEFINE t == [i \in 1..Cardinality(U) |-> IF i = Cardinality(U) THEN n + 1 ELSE s[i]]
<1>1. IsFiniteSet(T) /\ Cardinality(T) \in Nat
  BY FiniteBelow
<1>2. n + 1 \notin T
  OBVIOUS
<1>3. Cardinality(U) = Cardinality(T) + 1
  BY <1>1, <1>2, FS_AddElement
<1> PICK c : c = Cardinality(T)
  OBVIOUS
<1>4. \A i \in 1..c : s[i] \in T /\ s[i] \in 1..n
  BY DEF Enumerates
<1>5. \A i, j \in 1..c : i < j => s[i] < s[j]
  BY DEF Enumerates, Increasing
<1>6. c \in Nat /\ Cardinality(U) = c + 1
  BY <1>1, <1>3
<1>7. t \in [1..Cardinality(U) -> U]
  <2>1. \A i \in 1..(c + 1) : i # c + 1 => i \in 1..c
    BY <1>6
  <2>2. \A i \in 1..(c + 1) : (IF i = c + 1 THEN n + 1 ELSE s[i]) \in U
    BY <1>4, <2>1
  <2> QED BY <1>6, <2>2
<1>8. Increasing(t)
  <2> SUFFICES ASSUME NEW i \in 1..(c + 1), NEW j \in 1..(c + 1), i < j PROVE t[i] < t[j]
    BY <1>6 DEF Increasing
  <2>1. i \in 1..c /\ t[i] = s[i] /\ s[i] \in 1..n
    BY <1>4, <1>6
  <2>2. CASE j = c + 1
    <3>1. t[j] = n + 1
      BY <1>6, <2>2
    <3> QED BY <2>1, <3>1
  <2>3. CASE j # c + 1
    <3>1. j \in 1..c /\ t[j] = s[j]
      BY <1>6, <2>3
    <3> QED BY <1>5, <2>1, <3>1
  <2> QED BY <2>2, <2>3
<1> HIDE DEF t
<1> QED BY <1>7, <1>8 DEF Enumerates

LEMMA OrderExists ==
    ASSUME NEW n \in Nat, NEW S \in SUBSET (1..n)
    PROVE  \E s : Enumerates(s, S)
<1> DEFINE Ok == {m \in Nat : \A T \in SUBSET (1..m) : \E s : Enumerates(s, T)}
<1>1. 0 \in Ok
  <2> SUFFICES ASSUME NEW T \in SUBSET (1..0) PROVE \E s : Enumerates(s, T)
    OBVIOUS
  <2>1. T = {} /\ Cardinality({}) = 0
    BY FS_EmptySet
  <2> DEFINE s == [i \in 1..0 |-> 0]
  <2>2. s \in [1..0 -> T] /\ DOMAIN s = {}
    OBVIOUS
  <2> QED BY <2>1, <2>2 DEF Enumerates, Increasing
<1>2. ASSUME NEW m \in Ok PROVE m + 1 \in Ok
  <2>1. m \in Nat /\ m + 1 \in Nat /\ \A T \in SUBSET (1..m) : \E s : Enumerates(s, T)
    OBVIOUS
  <2> SUFFICES ASSUME NEW T \in SUBSET (1..(m + 1)) PROVE \E s : Enumerates(s, T)
    BY <2>1
  <2> PICK R : R = T \ {m + 1}
    OBVIOUS
  <2>2. R \in SUBSET (1..m)
    BY <2>1
  <2> HIDE DEF Ok
  <2>3. CASE m + 1 \in T
    <3>1. PICK s : Enumerates(s, R)
      BY <2>1, <2>2
    <3>2. R \cup {m + 1} = T
      BY <2>3
    <3>3. \E t : Enumerates(t, R \cup {m + 1})
      BY <2>1, <2>2, <3>1, OneMore
    <3> QED BY <3>2, <3>3
  <2>4. CASE m + 1 \notin T
    <3>1. R = T
      BY <2>4
    <3> QED BY <2>1, <2>2, <3>1
  <2> QED BY <2>3, <2>4
<1>3. Ok = Nat
  <2> HIDE DEF Ok
  <2>1. Ok \in SUBSET Nat
    BY DEF Ok
  <2> QED BY <1>1, <1>2, <2>1, NatSetInduction
<1>4. n \in Ok
  BY <1>3
<1> QED BY <1>4

(* So InOrder is what its name says: increasing, and it misses nothing.     *)
LEMMA InOrderIs ==
    ASSUME NEW n \in Nat, NEW S \in SUBSET (1..n), NEW s, s = InOrder(S)
    PROVE  /\ s \in Seq(S) /\ Len(s) \in Nat /\ DOMAIN s = 1..Len(s)
           /\ Increasing(s)
           /\ \A e \in S : \E i \in DOMAIN s : s[i] = e
<1>1. IsFiniteSet(S) /\ Cardinality(S) \in Nat /\ S \subseteq Nat
  BY FiniteBelow
<1>2. \A t : Enumerates(t, S) => t \in SetToSeqs(S)
  <2> SUFFICES ASSUME NEW t, Enumerates(t, S) PROVE t \in SetToSeqs(S)
    OBVIOUS
  <2> PICK c : c = Cardinality(S)
    OBVIOUS
  <2>1. t \in [1..c -> S] /\ \A i, j \in 1..c : i < j => t[i] < t[j]
    BY DEF Enumerates, Increasing
  <2>2. \A i \in 1..c : t[i] \in Nat
    BY <1>1, <2>1
  <2>3. \A i, j \in 1..c : i # j => t[i] # t[j]
    BY <1>1, <2>1, <2>2
  <2> QED BY <2>1, <2>3 DEF SetToSeqs
<1>3. s \in SetToSeqs(S) /\ Increasing(s)
  BY <1>2, OrderExists DEF InOrder, Enumerates, Increasing
<1>4. s \in [1..Cardinality(S) -> S] /\ \A i, j \in 1..Cardinality(S) : i # j => s[i] # s[j]
  BY <1>3 DEF SetToSeqs
<1>5. s \in Seq(S) /\ Len(s) = Cardinality(S) /\ DOMAIN s = 1..Len(s)
  BY <1>1, <1>4
<1>6. s \in Injection(1..Cardinality(S), S)
  BY <1>4 DEF Injection, IsInjective
<1>7. Cardinality(1..Cardinality(S)) = Cardinality(S)
  BY <1>1, FS_Interval
<1>8. s \in Surjection(1..Cardinality(S), S)
  BY <1>1, <1>6, <1>7, FS_Injection
<1> QED BY <1>1, <1>3, <1>5, <1>8 DEF Surjection

-----------------------------------------------------------------------------
(* The lines of a file. *)

\* Write k of record r is at position i of the file.
HasPiece(f, i, r, k) == i \in DOMAIN f /\ r \in Record /\ k \in 1..Pieces /\ f[i] = Piece(r, k)

\* The n first writes of r, and nothing else, are on the line before e.
OnLine(f, e, r, n) ==
    /\ n < e
    /\ \A k \in 1..n : f[e - 1 - n + k] = Piece(r, k)
    /\ e - 1 - n = 0 \/ f[e - 1 - n] = Newline

LEMMA ItemsDiffer ==
    /\ \A r, k : Piece(r, k) # Newline
    /\ \A r, k, s, l : Piece(r, k) = Piece(s, l) => r = s /\ k = l
    /\ \A e \in Edits : Mark(e) # Newline /\ \A r, k : Mark(e) # Piece(r, k)
BY JobStoreAssumption DEF Piece, Mark, Newline

LEMMA FileIs ==
    ASSUME NEW f \in Seq(Item)
    PROVE  /\ Len(f) \in Nat /\ DOMAIN f = 1..Len(f)
           /\ \A i \in 1..Len(f) : f[i] \in Item
           /\ Ends(f) \in SUBSET (1..(Len(f) + 1)) /\ Len(f) + 1 \in Ends(f)
           /\ \A i \in 1..Len(f) : i \in Ends(f) <=> f[i] = Newline
<1>1. Len(f) \in Nat /\ DOMAIN f = 1..Len(f) /\ \A i \in 1..Len(f) : f[i] \in Item
  OBVIOUS
<1> HIDE DEF Item
<1> QED BY <1>1 DEF Ends

LEMMA LastPosition ==
    ASSUME NEW n \in Nat, NEW T \in SUBSET (0..n), T # {}
    PROVE  Max(T) \in T /\ \A x \in T : Max(T) >= x
<1> DEFINE D == {k \in Nat : \E x \in T : k = n - x}
<1>1. D # {}
  <2>1. PICK x : x \in T
    OBVIOUS
  <2>2. n - x \in Nat
    BY <2>1
  <2> QED BY <2>1, <2>2
<1>2. PICK m \in D : \A k \in D : ~(<<k, m>> \in OpToRel(<, Nat))
  BY <1>1, NatLessThanWellFounded, WFMin
<1>3. \A k \in D : ~(k < m)
  BY <1>2 DEF OpToRel
<1>4. PICK y \in T : m = n - y
  OBVIOUS
<1>5. \A x \in T : y >= x
  <2> SUFFICES ASSUME NEW x \in T PROVE y >= x
    OBVIOUS
  <2>1. x \in 0..n /\ y \in 0..n
    OBVIOUS
  <2>2. n - x \in D
    BY <2>1
  <2>3. ~(n - x < n - y)
    BY <1>3, <1>4, <2>2
  <2> HIDE DEF D
  <2> QED BY <2>1, <2>3
<1> HIDE DEF D
<1> QED BY <1>5 DEF Max

\* The end of the line before the one that ends at e.
Before(f, e) == Max({j \in Ends(f) \cup {0} : j < e})

LEMMA BeforeIs ==
    ASSUME NEW f \in Seq(Item), NEW e \in Ends(f), NEW b, b = Before(f, e)
    PROVE  /\ b \in 0..Len(f) /\ b < e /\ e <= Len(f) + 1 /\ e \in Nat
           /\ b = 0 \/ f[b] = Newline
           /\ \A j \in 1..Len(f) : b < j /\ j < e => f[j] # Newline
<1> PICK T : T = {j \in Ends(f) \cup {0} : j < e}
  OBVIOUS
<1>1. e \in 1..(Len(f) + 1) /\ Len(f) \in Nat
  BY FileIs
<1>2. \A j \in T : j \in 0..Len(f) /\ j < e /\ (j = 0 \/ f[j] = Newline)
  BY <1>1, FileIs
<1>3. \A j \in 1..Len(f) : f[j] = Newline /\ j < e => j \in T
  BY FileIs
<1>4. 0 \in T /\ T \in SUBSET (0..Len(f))
  <2>1. 0 < e /\ 0 \in Ends(f) \cup {0}
    BY <1>1
  <2>2. 0 \in T
    BY <2>1
  <2>3. \A j \in T : j \in 0..Len(f)
    BY <1>2
  <2> QED BY <2>2, <2>3
<1>5. b \in T /\ \A x \in T : b >= x
  BY <1>1, <1>4, LastPosition DEF Before
<1> QED
  <2>1. \A j \in 1..Len(f) : b < j /\ j < e => f[j] # Newline
    BY <1>2, <1>3, <1>5
  <2> QED BY <1>1, <1>2, <1>5, <2>1

LEMMA LineIs ==
    ASSUME NEW f \in Seq(Item), NEW e \in Ends(f), NEW b, b = Before(f, e), NEW l, l = LineAt(f, e)
    PROVE  l \in Seq(Item) /\ Len(l) = e - 1 - b /\ \A i \in 1..(e - 1 - b) : l[i] = f[b + i]
<1>1. l = SubSeq(f, b + 1, e - 1)
  BY DEF LineAt, Before
<1>2. b \in 0..Len(f) /\ b < e /\ e <= Len(f) + 1 /\ e \in Nat /\ Len(f) \in Nat
  BY BeforeIs, FileIs
<1>3. b + 1 \in Int /\ e - 1 \in Int
  BY <1>2
<1>4. \A i \in (b + 1)..(e - 1) : f[i] \in Item
  <2>1. \A i \in (b + 1)..(e - 1) : i \in 1..Len(f)
    BY <1>2
  <2> QED BY <2>1, FileIs
<1>5. /\ l \in Seq(Item) /\ Len(l) = IF b + 1 <= e - 1 THEN (e - 1) - (b + 1) + 1 ELSE 0
      /\ \A i \in 1..((e - 1) - (b + 1) + 1) : l[i] = f[(b + 1) + i - 1]
  BY <1>1, <1>3, <1>4, SubSeqProperties
<1>6. (e - 1) - (b + 1) + 1 = e - 1 - b /\ \A i \in Nat : (b + 1) + i - 1 = b + i
  BY <1>2
<1>7. Len(l) = e - 1 - b
  BY <1>2, <1>5
<1>8. \A i \in 1..(e - 1 - b) : i \in Nat
  BY <1>2
<1> QED BY <1>5, <1>6, <1>7, <1>8

LEMMA WholeIs == ASSUME NEW r \in Record
                 PROVE  /\ Whole(r) \in Seq(Item) /\ Len(Whole(r)) = Pieces
                        /\ \A k \in 1..Pieces : Whole(r)[k] = Piece(r, k)
<1>1. Pieces \in Nat /\ \A k \in 1..Pieces : Piece(r, k) \in Item
  BY JobStoreAssumption DEF Item
<1> HIDE DEF Item
<1> QED BY <1>1 DEF Whole

(* A line is read as a record where the record's writes, and only these,    *)
(* are between two newlines.                                                *)
LEMMA LineIsRecord ==
    ASSUME NEW f \in Seq(Item), NEW e \in Ends(f), NEW r \in Record
    PROVE  LineAt(f, e) = Whole(r) <=> OnLine(f, e, r, Pieces)
<1> PICK b, l : b = Before(f, e) /\ l = LineAt(f, e)
  OBVIOUS
<1>1. b \in Nat /\ e \in Nat /\ b < e /\ Len(f) \in Nat /\ e <= Len(f) + 1 /\ Pieces \in Nat \ {0}
  BY BeforeIs, FileIs, JobStoreAssumption
<1>2. /\ b = 0 \/ f[b] = Newline
      /\ \A j \in 1..Len(f) : b < j /\ j < e => f[j] # Newline
  BY BeforeIs
<1>3. l \in Seq(Item) /\ Len(l) = e - 1 - b /\ \A i \in 1..(e - 1 - b) : l[i] = f[b + i]
  BY LineIs
<1> PICK w : w = Whole(r)
  OBVIOUS
<1>4. w \in Seq(Item) /\ Len(w) = Pieces /\ \A k \in 1..Pieces : w[k] = Piece(r, k)
  BY WholeIs
<1>5. ASSUME l = w PROVE OnLine(f, e, r, Pieces)
  <2>1. e - 1 - b = Pieces
    BY <1>3, <1>4, <1>5
  <2>2. Pieces < e /\ e - 1 - Pieces = b
    BY <1>1, <2>1
  <2>3. \A k \in 1..Pieces : f[b + k] = Piece(r, k)
    BY <1>3, <1>4, <1>5, <2>1
  <2> QED BY <1>2, <2>2, <2>3 DEF OnLine
<1>6. ASSUME OnLine(f, e, r, Pieces) PROVE l = w
  <2> PICK c : c = e - 1 - Pieces
    OBVIOUS
  <2>1. c \in Nat /\ c < e /\ Pieces = e - 1 - c /\ (c = 0 \/ f[c] = Newline)
    BY <1>1, <1>6 DEF OnLine
  <2>2. \A k \in 1..Pieces : f[c + k] = Piece(r, k)
    BY <1>6 DEF OnLine
  <2>3. ~(b < c)
    <3>1. c \in 1..Len(f) \/ c = 0
      BY <1>1, <2>1
    <3> QED BY <1>1, <1>2, <2>1, <3>1
  <2>4. ~(c < b)
    <3> SUFFICES ASSUME c < b PROVE FALSE
      OBVIOUS
    <3>1. b - c \in 1..Pieces /\ c + (b - c) = b /\ b # 0
      BY <1>1, <2>1
    <3> PICK k : k = b - c
      OBVIOUS
    <3>2. f[b] = Piece(r, k)
      BY <2>2, <3>1
    <3> QED BY <1>2, <3>1, <3>2, ItemsDiffer
  <2>5. b = c
    BY <1>1, <2>1, <2>3, <2>4
  <2>6. Len(l) = Len(w) /\ \A i \in 1..Len(l) : l[i] = w[i]
    BY <1>3, <1>4, <2>1, <2>2, <2>5
  <2> QED BY <1>3, <1>4, <2>6, SeqEqual
<1> QED BY <1>5, <1>6

-----------------------------------------------------------------------------
(* The records a file is read as. *)

\* The ends of the lines that hold a record.
Recorded(f) == {e \in Ends(f) : Readable(f, e) /\ IsRecord(LineAt(f, e))}

\* Entry n of the history is the record on the line that ends at e.
Entry(f, n, e) ==
    /\ e \in Ends(f)
    /\ All(f)[n] \in Record /\ OnLine(f, e, All(f)[n], Pieces)

(* The history is one record for each such line, in the order of the file.  *)
LEMMA AllIs ==
    ASSUME NEW f \in Seq(Item)
    PROVE  /\ Len(All(f)) \in Nat /\ DOMAIN All(f) = 1..Len(All(f))
           /\ All(f) \in Seq(Record)
           /\ \E ends : /\ DOMAIN ends = DOMAIN All(f) /\ Increasing(ends)
                        /\ \A n \in DOMAIN ends : Entry(f, n, ends[n])
                        /\ \A e \in Recorded(f) : \E n \in DOMAIN ends : ends[n] = e
<1> PICK ends, all : ends = RecordLines(f) /\ all = All(f)
  OBVIOUS
<1>1. ends = InOrder(Recorded(f))
  BY DEF RecordLines, Recorded
<1>2. Len(f) + 1 \in Nat /\ Recorded(f) \in SUBSET (1..(Len(f) + 1))
  BY FileIs DEF Recorded
<1>3. /\ ends \in Seq(Recorded(f)) /\ Len(ends) \in Nat /\ DOMAIN ends = 1..Len(ends)
      /\ Increasing(ends)
      /\ \A e \in Recorded(f) : \E n \in DOMAIN ends : ends[n] = e
  BY <1>1, <1>2, InOrderIs
<1>4. f # None
  BY JobStoreAssumption
<1>5. all = [n \in DOMAIN ends |-> ParseLine(LineAt(f, ends[n]))]
  BY <1>4 DEF All
<1>6. ASSUME NEW n \in DOMAIN ends PROVE Entry(f, n, ends[n]) /\ all[n] \in Record
  <2> PICK e : e = ends[n]
    OBVIOUS
  <2>1. e \in Recorded(f)
    BY <1>3, ElementOfSeq
  <2>2. e \in Ends(f) /\ \E r \in Record : LineAt(f, e) = Whole(r)
    BY <2>1 DEF Recorded, IsRecord
  <2>3. all[n] \in Record /\ LineAt(f, e) = Whole(all[n])
    BY <1>5, <2>2 DEF ParseLine
  <2>4. OnLine(f, e, all[n], Pieces)
    BY <2>2, <2>3, LineIsRecord
  <2> QED BY <2>2, <2>3, <2>4 DEF Entry
<1>7. DOMAIN all = 1..Len(ends) /\ Len(ends) \in Nat
  BY <1>3, <1>5
<1>8. all \in Seq(Record) /\ Len(all) = Len(ends)
  <2>1. all = [n \in 1..Len(ends) |-> all[n]]
    BY <1>3, <1>5
  <2>2. \A n \in 1..Len(ends) : all[n] \in Record
    BY <1>3, <1>6
  <2> HIDE DEF Record
  <2> QED BY <1>3, <2>1, <2>2
<1> QED BY <1>3, <1>6, <1>7, <1>8

(* Where nothing ends the reading, no whole line is passed over.            *)
LEMMA WholeIsRead ==
    ASSUME NEW f \in Seq(Item), "bytes" \notin Edits, NEW e \in Ends(f), NEW r \in Record,
           OnLine(f, e, r, Pieces)
    PROVE  e \in Recorded(f)
<1>1. e \in 1..(Len(f) + 1) /\ Len(f) \in Nat /\ \A i \in 1..Len(f) : f[i] \in Item
  BY FileIs
<1>2. \A x \in Item : x # Mark("bytes")
  BY JobStoreAssumption DEF Item, Mark, Newline, Piece
<1>3. Readable(f, e)
  <2>1. \A i \in 1..(e - 1) : i \in 1..Len(f)
    BY <1>1
  <2> QED BY <1>1, <1>2, <2>1 DEF Readable
<1>4. LineAt(f, e) = Whole(r)
  BY LineIsRecord
<1> QED BY <1>3, <1>4 DEF Recorded, IsRecord

LEMMA OnLineHas ==
    ASSUME NEW f \in Seq(Item), NEW e \in Ends(f), NEW r \in Record, OnLine(f, e, r, Pieces)
    PROVE  /\ HasPiece(f, e - Pieces, r, 1)
           /\ e \in Nat /\ Pieces \in Nat
<1>1. e \in Nat /\ e <= Len(f) + 1 /\ Len(f) \in Nat /\ DOMAIN f = 1..Len(f) /\ Pieces \in Nat \ {0}
  BY FileIs, JobStoreAssumption
<1>2. Pieces < e /\ f[e - 1 - Pieces + 1] = Piece(r, 1)
  BY <1>1 DEF OnLine
<1>3. e - 1 - Pieces + 1 = e - Pieces /\ e - Pieces \in 1..Len(f) /\ 1 \in 1..Pieces
  BY <1>1, <1>2
<1> QED BY <1>1, <1>2, <1>3 DEF HasPiece

-----------------------------------------------------------------------------
(* The inductive invariant: whose writes are in the file, and in what order.*)

\* A process works on its newest record, which no clear has swept away while
\* its handle is live.
JobsOK ==
    /\ \A r \in 1..jobs : owner[r] \in Proc
    /\ \A p \in Proc : job[p] # None =>
         /\ job[p] \in 1..jobs /\ owner[job[p]] = p
         /\ \A r \in 1..jobs : owner[r] = p => r <= job[p]
         /\ handle[p] = "live" => cleared < job[p]

\* What is in the file was written since the last clear, and is not to come.
PiecesOK ==
    file # None => \A i, r, k : HasPiece(file, i, r, k) =>
        /\ cleared < r /\ r <= jobs
        /\ job[owner[r]] = r => k <= done[owner[r]]

\* A write is made once, and a process makes its writes record by record.
OnceEach ==
    file # None => \A i, j, r, k : HasPiece(file, i, r, k) /\ HasPiece(file, j, r, k) => i = j
OwnersInOrder ==
    file # None => \A i, j, r, s, k, l :
        HasPiece(file, i, r, k) /\ HasPiece(file, j, s, l) /\ owner[r] = owner[s] /\ r < s => i < j

\* The line of an append that no other process has written into.
AloneOK ==
    \A p \in alone : job[p] # None =>
        handle[p] = "live" /\ (done[p] > 0 => OnLine(file, Len(file) + 1, job[p], done[p]))

\* The saved records that are whole are still in the file.
Kept(f, r) == \E e \in DOMAIN f : f[e] = Newline /\ OnLine(f, e, r, Pieces)
KeptOK == \A r \in kept : file # None /\ Kept(file, r)

IInv == TypeOK /\ JobsOK /\ PiecesOK /\ OnceEach /\ OwnersInOrder /\ AloneOK /\ KeptOK

LEMMA Numbers == /\ MaxJobs \in Nat /\ Pieces \in Nat \ {0} /\ Record \subseteq Nat
                 /\ None \notin Record /\ None \notin Proc /\ None \notin Seq(Item)
BY JobStoreAssumption DEF Record

LEMMA InitInv == Init => IInv
<1> SUFFICES ASSUME Init PROVE IInv
  OBVIOUS
<1>1. jobs = 0 /\ cleared = 0 /\ saved = {} /\ kept = {} /\ alone = {} /\ file = None
  BY DEF Init
<1>2. /\ job = [p \in Proc |-> None] /\ done = [p \in Proc |-> 0]
      /\ handle = [p \in Proc |-> "gone"] /\ owner = [r \in Record |-> None]
  BY DEF Init
<1> HIDE DEF Record
<1>3. TypeOK
  BY <1>1, <1>2, Numbers DEF TypeOK
<1>4. JobsOK
  BY <1>1, <1>2 DEF JobsOK
<1> QED BY <1>1, <1>3, <1>4 DEF IInv, PiecesOK, OnceEach, OwnersInOrder, AloneOK, KeptOK

\* What one more write changes.
Grown(f, g, x) ==
    /\ g \in Seq(Item) /\ Len(g) = Len(f) + 1 /\ DOMAIN g = 1..(Len(f) + 1)
    /\ \A i \in 1..Len(f) : g[i] = f[i]
    /\ g[Len(f) + 1] = x

LEMMA AppendGrows ==
    ASSUME NEW f \in Seq(Item), NEW x \in Item
    PROVE  Grown(f, Append(f, x), x)
<1> HIDE DEF Item
<1>1. Append(f, x) \in Seq(Item) /\ Len(Append(f, x)) = Len(f) + 1
  BY AppendProperties
<1>2. /\ \A i \in 1..Len(f) : Append(f, x)[i] = f[i]
      /\ Append(f, x)[Len(f) + 1] = x
  BY AppendProperties
<1>3. DOMAIN Append(f, x) = 1..(Len(f) + 1)
  BY <1>1
<1> QED BY <1>1, <1>2, <1>3 DEF Grown

LEMMA GrownPieces ==
    ASSUME NEW f \in Seq(Item), NEW x \in Item, NEW g, Grown(f, g, x),
           NEW i, NEW r, NEW k, HasPiece(g, i, r, k)
    PROVE  HasPiece(f, i, r, k) \/ (i = Len(f) + 1 /\ x = Piece(r, k) /\ r \in Record)
<1>1. Len(f) \in Nat /\ DOMAIN f = 1..Len(f)
  BY FileIs
<1>2. i \in 1..(Len(f) + 1) /\ r \in Record /\ k \in 1..Pieces /\ g[i] = Piece(r, k)
  BY DEF HasPiece, Grown
<1>3. i = Len(f) + 1 \/ i \in 1..Len(f)
  BY <1>1, <1>2
<1> HIDE DEF Record
<1> QED BY <1>1, <1>2, <1>3 DEF HasPiece, Grown

LEMMA GrownLines ==
    ASSUME NEW f \in Seq(Item), NEW x \in Item, NEW g, Grown(f, g, x),
           NEW e \in 1..(Len(f) + 1), NEW r, NEW n \in Nat, OnLine(f, e, r, n)
    PROVE  OnLine(g, e, r, n)
<1>1. Len(f) \in Nat /\ DOMAIN f = 1..Len(f)
  BY FileIs
<1>2. \A i \in 1..Len(f) : g[i] = f[i]
  BY DEF Grown
<1>3. /\ n < e /\ e \in Nat
      /\ \A k \in 1..n : f[e - 1 - n + k] = Piece(r, k)
      /\ e - 1 - n = 0 \/ f[e - 1 - n] = Newline
  BY <1>1 DEF OnLine
<1>4. \A k \in 1..n : e - 1 - n + k \in 1..Len(f)
  BY <1>1, <1>3
<1>5. e - 1 - n = 0 \/ e - 1 - n \in 1..Len(f)
  BY <1>1, <1>3
<1> QED BY <1>2, <1>3, <1>4, <1>5 DEF OnLine

LEMMA GrownKeeps ==
    ASSUME NEW f \in Seq(Item), NEW x \in Item, NEW g, Grown(f, g, x),
           NEW r, Kept(f, r)
    PROVE  Kept(g, r)
<1>1. Len(f) \in Nat /\ DOMAIN f = 1..Len(f) /\ Pieces \in Nat
  BY FileIs, Numbers
<1>2. PICK e \in 1..Len(f) : f[e] = Newline /\ OnLine(f, e, r, Pieces)
  BY <1>1 DEF Kept
<1>3. e \in 1..(Len(f) + 1) /\ e \in DOMAIN g /\ g[e] = Newline
  BY <1>1, <1>2 DEF Grown
<1>4. OnLine(g, e, r, Pieces)
  BY <1>1, <1>2, <1>3, GrownLines
<1> QED BY <1>3, <1>4 DEF Kept

\* The process that works on a record.
LEMMA AtWork ==
    ASSUME IInv, NEW p \in Proc, job[p] # None
    PROVE  /\ job[p] \in 1..jobs /\ job[p] \in Record /\ job[p] \in Nat /\ owner[job[p]] = p
           /\ \A r \in 1..jobs : owner[r] = p => r <= job[p]
           /\ handle[p] = "live" => cleared < job[p] /\ file \in Seq(Item) /\ file # None
           /\ done[p] \in 0..Pieces /\ jobs \in Nat /\ cleared \in Nat
<1>1. /\ job[p] \in Record \cup {None} /\ jobs \in 0..MaxJobs /\ cleared \in 0..jobs
      /\ done[p] \in 0..Pieces
  BY DEF IInv, TypeOK
<1>2. handle[p] = "live" => file \in Seq(Item) /\ file # None
  BY DEF IInv, TypeOK
<1>3. /\ job[p] \in 1..jobs /\ owner[job[p]] = p
      /\ \A r \in 1..jobs : owner[r] = p => r <= job[p]
      /\ handle[p] = "live" => cleared < job[p]
  BY DEF IInv, JobsOK
<1> QED BY <1>1, <1>2, <1>3, Numbers

(* A write that reaches the file.                                           *)
LEMMA WriteReaches ==
    ASSUME IInv, NEW p \in Proc, handle[p] = "live", WritePiece(p)
    PROVE  /\ job[p] # None /\ done[p] < Pieces /\ Piece(job[p], done[p] + 1) \in Item
           /\ Grown(file, file', Piece(job[p], done[p] + 1))
           /\ alone' = {q \in {p} : IF done[p] = 0 THEN AtLineStart ELSE p \in alone}
           /\ done'[p] = done[p] + 1 /\ \A q \in Proc \ {p} : done'[q] = done[q]
           /\ UNCHANGED <<job, handle, jobs, owner, cleared, saved, kept>>
<1>1. /\ job[p] # None /\ done[p] < Pieces
      /\ done' = [done EXCEPT ![p] = @ + 1]
      /\ UNCHANGED <<job, handle, jobs, owner, cleared, saved, kept>>
  BY DEF WritePiece
<1>2. /\ file' = Append(file, Piece(job[p], done[p] + 1))
      /\ alone' = {q \in {p} : IF done[p] = 0 THEN AtLineStart ELSE p \in alone}
  BY DEF WritePiece, Put
<1>3. done \in [Proc -> 0..Pieces]
  BY DEF IInv, TypeOK
<1>4. job[p] \in Record /\ done[p] \in 0..Pieces /\ file \in Seq(Item)
  BY <1>1, AtWork
<1>5. done[p] + 1 \in 1..Pieces
  BY <1>1, <1>4, Numbers
<1>6. Piece(job[p], done[p] + 1) \in Item
  BY <1>4, <1>5 DEF Item
<1>7. Grown(file, file', Piece(job[p], done[p] + 1))
  BY <1>2, <1>4, <1>6, AppendGrows
<1> QED BY <1>1, <1>2, <1>3, <1>6, <1>7

\* The next write of the record on the last line.
LEMMA LineGrows ==
    ASSUME NEW f \in Seq(Item), NEW d \in Nat, NEW r, NEW x, x = Piece(r, d + 1),
           NEW g, Grown(f, g, x), OnLine(f, Len(f) + 1, r, d)
    PROVE  OnLine(g, Len(g) + 1, r, d + 1)
<1> PICK n, c, e : n = Len(f) /\ e = n + 1 /\ c = e - 1 - d
  OBVIOUS
<1>1. n \in Nat
  BY FileIs
<1>2. Len(g) = n + 1 /\ g[n + 1] = x /\ \A i \in 1..n : g[i] = f[i]
  BY DEF Grown
<1>3. d < e /\ \A h \in 1..d : f[c + h] = Piece(r, h)
  BY DEF OnLine
<1>4. c = 0 \/ f[c] = Newline
  BY DEF OnLine
<1>5. c \in Nat /\ n = c + d
  BY <1>1, <1>3
<1>6. \A h \in 1..(d + 1) : g[c + h] = Piece(r, h)
  <2> SUFFICES ASSUME NEW h \in 1..(d + 1) PROVE g[c + h] = Piece(r, h)
    OBVIOUS
  <2>1. CASE h = d + 1
    <3>1. c + h = n + 1
      BY <1>5, <2>1
    <3> QED BY <1>2, <2>1, <3>1
  <2>2. CASE h # d + 1
    <3>1. h \in 1..d /\ c + h \in 1..n
      BY <1>5, <2>2
    <3>2. g[c + h] = f[c + h]
      BY <1>2, <3>1
    <3> QED BY <1>3, <3>1, <3>2
  <2> QED BY <2>1, <2>2
<1>7. c = 0 \/ g[c] = Newline
  <2>1. c = 0 \/ c \in 1..n
    BY <1>5
  <2> QED BY <1>2, <1>4, <2>1
<1> PICK z : z = n + 1 + 1
  OBVIOUS
<1>8. Len(g) + 1 = z /\ d + 1 < z /\ z - 1 - (d + 1) = c
  BY <1>1, <1>2, <1>5
<1>9. OnLine(g, z, r, d + 1)
  BY <1>6, <1>7, <1>8 DEF OnLine
<1> QED BY <1>8, <1>9

\* At the start of a line there is nothing of a record on it yet.
LEMMA EmptyLine ==
    ASSUME NEW f \in Seq(Item), f # <<>> => Last(f) = Newline, NEW r
    PROVE  OnLine(f, Len(f) + 1, r, 0)
<1>1. Len(f) \in Nat /\ (Len(f) = 0 \/ f[Len(f)] = Newline)
  <2> HIDE DEF Item
  <2> QED BY DEF Last
<1>2. 0 < Len(f) + 1 /\ Len(f) + 1 - 1 - 0 = Len(f) /\ \A k \in 1..0 : FALSE
  BY <1>1
<1> QED BY <1>1, <1>2 DEF OnLine

LEMMA WritePieceKeeps ==
    ASSUME IInv, NEW p \in Proc, handle[p] = "live", WritePiece(p)
    PROVE  IInv'
<1> PICK r, k, n, x : r = job[p] /\ k = done[p] + 1 /\ n = Len(file) /\ x = Piece(r, k)
  OBVIOUS
<1>1. /\ job[p] # None /\ done[p] < Pieces /\ x \in Item /\ Grown(file, file', x)
      /\ alone' = {q \in {p} : IF done[p] = 0 THEN AtLineStart ELSE p \in alone}
      /\ done'[p] = k /\ \A q \in Proc \ {p} : done'[q] = done[q]
      /\ UNCHANGED <<job, handle, jobs, owner, cleared, saved, kept>>
  BY WriteReaches
<1>2. /\ r \in 1..jobs /\ r \in Record /\ r \in Nat /\ owner[r] = p
      /\ \A s \in 1..jobs : owner[s] = p => s <= r
      /\ cleared < r /\ file \in Seq(Item) /\ file # None
      /\ done[p] \in 0..Pieces /\ jobs \in Nat /\ cleared \in Nat
  BY <1>1, AtWork
<1>3. n \in Nat /\ k \in 1..Pieces /\ file' \in Seq(Item) /\ file' # None
  BY <1>1, <1>2, FileIs, Numbers DEF Grown
<1>4. TypeOK'
  <2>1. done' \in [Proc -> 0..Pieces]
    <3>1. done' = [done EXCEPT ![p] = @ + 1] /\ done \in [Proc -> 0..Pieces]
      BY DEF WritePiece, IInv, TypeOK
    <3>2. done[p] + 1 \in 0..Pieces
      BY <1>3, Numbers
    <3> QED BY <3>1, <3>2
  <2>2. alone' \subseteq Proc
    BY <1>1
  <2> HIDE DEF Item, Record
  <2> QED BY <1>1, <1>3, <2>1, <2>2 DEF IInv, TypeOK
<1>5. JobsOK'
  BY <1>1 DEF IInv, JobsOK
<1>6. \A i, s, l : HasPiece(file', i, s, l) =>
          HasPiece(file, i, s, l) \/ (i = n + 1 /\ s = r /\ l = k)
  BY <1>1, <1>2, GrownPieces, ItemsDiffer
<1>7. \A i, s, l : HasPiece(file, i, s, l) =>
          /\ i \in 1..n /\ l \in Nat /\ s \in Nat /\ cleared < s /\ s <= jobs
          /\ job[owner[s]] = s => l <= done[owner[s]]
  <2>1. \A i, s, l : HasPiece(file, i, s, l) => i \in 1..n /\ l \in Nat /\ s \in Nat
    BY <1>2, FileIs, Numbers DEF HasPiece
  <2> QED BY <1>2, <2>1 DEF IInv, PiecesOK
<1>8. PiecesOK'
  <2> SUFFICES ASSUME NEW i, NEW s, NEW l, HasPiece(file', i, s, l)
               PROVE  cleared < s /\ s <= jobs /\ (job[owner[s]] = s => l <= done'[owner[s]])
    BY <1>1 DEF PiecesOK
  <2>1. CASE HasPiece(file, i, s, l)
    <3>1. cleared < s /\ s <= jobs /\ s \in 1..jobs /\ (job[owner[s]] = s => l <= done[owner[s]])
      BY <1>2, <1>7, <2>1
    <3>2. owner[s] \in Proc /\ l \in Nat
      BY <1>7, <2>1, <3>1 DEF IInv, JobsOK
    <3>3. done'[owner[s]] = done[owner[s]] \/ (owner[s] = p /\ done'[owner[s]] = done[owner[s]] + 1)
      BY <1>1, <3>2
    <3>4. done[owner[s]] \in Nat
      BY <3>2 DEF IInv, TypeOK
    <3> QED BY <3>1, <3>2, <3>3, <3>4
  <2>2. CASE i = n + 1 /\ s = r /\ l = k
    BY <1>1, <1>2, <1>3, <2>2
  <2> QED BY <1>6, <2>1, <2>2
<1>9. \A i : ~HasPiece(file, i, r, k)
  <2> SUFFICES ASSUME NEW i, HasPiece(file, i, r, k) PROVE FALSE
    OBVIOUS
  <2>1. job[owner[r]] = r /\ owner[r] = p
    BY <1>2
  <2>2. k <= done[p]
    BY <1>7, <2>1
  <2> QED BY <1>2, <2>2
<1>10. OnceEach'
  <2> SUFFICES ASSUME NEW i, NEW j, NEW s, NEW l, HasPiece(file', i, s, l), HasPiece(file', j, s, l)
               PROVE  i = j
    BY DEF OnceEach
  <2>1. CASE HasPiece(file, i, s, l) /\ HasPiece(file, j, s, l)
    BY <1>2, <2>1 DEF IInv, OnceEach
  <2>2. CASE i = n + 1 /\ j = n + 1
    BY <2>2
  <2> QED BY <1>6, <1>9, <2>1, <2>2
<1>11. OwnersInOrder'
  <2> SUFFICES ASSUME NEW i, NEW j, NEW s, NEW t, NEW l, NEW m,
                      HasPiece(file', i, s, l), HasPiece(file', j, t, m),
                      owner[s] = owner[t], s < t
               PROVE  i < j
    BY <1>1 DEF OwnersInOrder
  <2>1. CASE HasPiece(file, i, s, l) /\ HasPiece(file, j, t, m)
    BY <1>2, <2>1 DEF IInv, OwnersInOrder
  <2>2. CASE HasPiece(file, i, s, l) /\ j = n + 1
    BY <1>3, <1>7, <2>2
  <2>3. CASE s = r /\ HasPiece(file, j, t, m)
    <3>1. t \in 1..jobs /\ owner[t] = p
      BY <1>2, <1>7, <2>3
    <3>2. t <= r
      BY <1>2, <3>1
    <3> QED BY <1>2, <2>3, <3>1, <3>2
  <2>4. CASE s = r /\ t = r
    BY <1>2, <2>4
  <2> QED BY <1>6, <2>1, <2>2, <2>3, <2>4
<1>12. AloneOK'
  <2> SUFFICES ASSUME p \in alone' PROVE OnLine(file', Len(file') + 1, r, k)
    BY <1>1 DEF AloneOK
  <2>1. OnLine(file, Len(file) + 1, r, done[p])
    <3>1. CASE done[p] = 0
      <4>1. AtLineStart
        BY <1>1, <3>1
      <4> QED BY <1>2, <3>1, <4>1, EmptyLine DEF AtLineStart
    <3>2. CASE done[p] # 0
      <4>1. p \in alone
        BY <1>1, <3>2
      <4> QED BY <1>1, <1>2, <3>2, <4>1 DEF IInv, AloneOK
    <3> QED BY <3>1, <3>2
  <2> PICK d : d = done[p]
    OBVIOUS
  <2>2. d \in Nat /\ k = d + 1 /\ x = Piece(r, d + 1)
    BY <1>2
  <2> QED BY <1>1, <1>2, <2>1, <2>2, LineGrows
<1>13. KeptOK'
  <2>1. \A s \in kept : Kept(file, s)
    BY DEF IInv, KeptOK
  <2>2. \A s \in kept : Kept(file', s)
    BY <1>1, <1>2, <2>1, GrownKeeps
  <2> QED BY <1>1, <1>3, <2>2 DEF KeptOK, Kept
<1> QED BY <1>4, <1>5, <1>8, <1>10, <1>11, <1>12, <1>13 DEF IInv

\* A step that starts no append, makes no newer write and drops none to come.
Quiet ==
    /\ UNCHANGED <<handle, jobs, owner, cleared>>
    /\ job' \in [Proc -> Record \cup {None}] /\ done' \in [Proc -> 0..Pieces]
    /\ \A q \in Proc : job'[q] = job[q] \/ job'[q] = None
    /\ \A q \in Proc : done[q] <= done'[q]
    /\ file' = None <=> file = None
    /\ file # None => \A i, r, k : HasPiece(file', i, r, k) => HasPiece(file, i, r, k)

LEMMA QuietKeeps ==
    ASSUME IInv, Quiet
    PROVE  JobsOK' /\ PiecesOK' /\ OnceEach' /\ OwnersInOrder'
<1>1. JobsOK'
  BY DEF IInv, JobsOK, Quiet
<1>2. PiecesOK'
  <2> SUFFICES ASSUME file' # None, NEW i, NEW r, NEW k, HasPiece(file', i, r, k)
               PROVE  cleared < r /\ r <= jobs /\ (job'[owner[r]] = r => k <= done'[owner[r]])
    BY DEF PiecesOK, Quiet
  <2>1. HasPiece(file, i, r, k) /\ file # None
    BY DEF Quiet
  <2>2. cleared < r /\ r <= jobs /\ (job[owner[r]] = r => k <= done[owner[r]])
    BY <2>1 DEF IInv, PiecesOK
  <2>3. r \in Record /\ k \in 1..Pieces /\ r \in Nat /\ r # None /\ jobs \in Nat /\ cleared \in Nat
    BY <2>1, Numbers DEF HasPiece, IInv, TypeOK
  <2>4. owner[r] \in Proc
    BY <2>2, <2>3 DEF IInv, JobsOK
  <2> PICK o : o = owner[r]
    OBVIOUS
  <2>5. done[o] \in Nat /\ done'[o] \in Nat /\ done[o] <= done'[o] /\ (job'[o] = r => job[o] = r)
    BY <2>3, <2>4, Numbers DEF Quiet, IInv, TypeOK
  <2>6. job'[o] = r => k <= done'[o]
    BY <2>2, <2>3, <2>5
  <2> QED BY <2>2, <2>6
<1>3. OnceEach'
  BY DEF IInv, OnceEach, Quiet
<1>4. OwnersInOrder'
  <2> SUFFICES ASSUME file' # None, NEW i, NEW j, NEW s, NEW t, NEW l, NEW m,
                      HasPiece(file', i, s, l), HasPiece(file', j, t, m),
                      owner[s] = owner[t], s < t
               PROVE  i < j
    BY DEF OwnersInOrder, Quiet
  <2>1. HasPiece(file, i, s, l) /\ HasPiece(file, j, t, m) /\ file # None
    BY DEF Quiet
  <2> QED BY <2>1 DEF IInv, OwnersInOrder
<1> QED BY <1>1, <1>2, <1>3, <1>4

\* A write that goes to a file that was cleared away.
LEMMA LostWriteKeeps ==
    ASSUME IInv, NEW p \in Proc, handle[p] # "live", WritePiece(p) \/ WriteNewline(p)
    PROVE  IInv'
<1>1. UNCHANGED <<file, handle, jobs, owner, cleared, alone, saved, kept>>
  BY DEF WritePiece, WriteNewline, Put
<1>2. job[p] # None /\ p \notin alone
  BY DEF WritePiece, WriteNewline, IInv, AloneOK
<1>3. /\ job \in [Proc -> Record \cup {None}] /\ done \in [Proc -> 0..Pieces] /\ Pieces \in Nat
      /\ alone \subseteq Proc
  BY Numbers DEF IInv, TypeOK
<1>4. /\ job' \in [Proc -> Record \cup {None}]
      /\ job' = job \/ job' = [job EXCEPT ![p] = None]
  BY <1>3 DEF WritePiece, WriteNewline
<1>5. done' = done \/ (done[p] < Pieces /\ done' = [done EXCEPT ![p] = @ + 1])
  BY DEF WritePiece, WriteNewline
<1>6. /\ done' \in [Proc -> 0..Pieces]
      /\ \A q \in Proc : done[q] <= done'[q] /\ (q # p => done'[q] = done[q])
  <2>1. CASE done' = done
    BY <1>3, <2>1
  <2>2. CASE done[p] < Pieces /\ done' = [done EXCEPT ![p] = @ + 1]
    <3>1. done[p] \in Nat /\ done[p] + 1 \in 0..Pieces
      BY <1>3, <2>2
    <3>2. done' \in [Proc -> 0..Pieces]
      BY <1>3, <2>2, <3>1
    <3>3. \A q \in Proc : done'[q] = IF q = p THEN done[p] + 1 ELSE done[q]
      BY <1>3, <2>2
    <3> QED BY <1>3, <3>1, <3>2, <3>3
  <2> QED BY <1>5, <2>1, <2>2
<1>7. Quiet
  BY <1>1, <1>3, <1>4, <1>6 DEF Quiet
<1>8. TypeOK'
  BY <1>1, <1>4, <1>6 DEF IInv, TypeOK
<1>9. AloneOK'
  <2>1. \A q \in alone : q \in Proc /\ q # p /\ job'[q] = job[q] /\ done'[q] = done[q]
    BY <1>2, <1>3, <1>4, <1>6
  <2> QED BY <1>1, <2>1 DEF IInv, AloneOK
<1>10. KeptOK'
  BY <1>1 DEF IInv, KeptOK
<1> QED BY <1>7, <1>8, <1>9, <1>10, QuietKeeps DEF IInv

LEMMA CrashKeeps == ASSUME IInv, NEW p \in Proc, Crash(p) PROVE IInv'
<1>1. /\ UNCHANGED <<file, done, handle, jobs, owner, cleared, saved, alone, kept>>
      /\ job' = [job EXCEPT ![p] = None]
  BY DEF Crash
<1>2. /\ job \in [Proc -> Record \cup {None}] /\ done \in [Proc -> 0..Pieces] /\ Pieces \in Nat
      /\ alone \subseteq Proc
  BY Numbers DEF IInv, TypeOK
<1>3. job' \in [Proc -> Record \cup {None}] /\ \A q \in Proc : job'[q] = job[q] \/ job'[q] = None
  BY <1>1, <1>2
<1>4. Quiet
  BY <1>1, <1>2, <1>3 DEF Quiet
<1>5. TypeOK'
  BY <1>1, <1>3 DEF IInv, TypeOK
<1>6. AloneOK'
  <2>1. \A q \in alone : job'[q] # None => job'[q] = job[q]
    BY <1>2, <1>3
  <2> QED BY <1>1, <2>1 DEF IInv, AloneOK
<1>7. KeptOK'
  BY <1>1 DEF IInv, KeptOK
<1> QED BY <1>4, <1>5, <1>6, <1>7, QuietKeeps DEF IInv

\* A step that adds to the file what is no piece of a record.
LEMMA OtherItem ==
    ASSUME NEW f \in Seq(Item), NEW x \in Item, NEW g, Grown(f, g, x), \A r, k : x # Piece(r, k)
    PROVE  \A i, r, k : HasPiece(g, i, r, k) => HasPiece(f, i, r, k)
BY GrownPieces

LEMMA WriteNewlineKeeps ==
    ASSUME IInv, NEW p \in Proc, handle[p] = "live", WriteNewline(p)
    PROVE  IInv'
<1> PICK r, n : r = job[p] /\ n = Len(file)
  OBVIOUS
<1>1. /\ job[p] # None /\ done[p] = Pieces
      /\ file' = Append(file, Newline)
      /\ alone' = {q \in {p} : IF done[p] = 0 THEN AtLineStart ELSE p \in alone}
      /\ saved' = saved \cup {r}
      /\ kept' = IF p \in alone THEN kept \cup {r} ELSE kept
      /\ job' = [job EXCEPT ![p] = None]
      /\ UNCHANGED <<done, handle, jobs, owner, cleared>>
  BY DEF WriteNewline, Put
<1>2. /\ r \in 1..jobs /\ r \in Record /\ file \in Seq(Item) /\ file # None /\ jobs \in Nat
  BY <1>1, AtWork
<1>3. Newline \in Item
  BY DEF Item
<1>4. Grown(file, file', Newline)
  BY <1>1, <1>2, <1>3, AppendGrows
<1>5. /\ job \in [Proc -> Record \cup {None}] /\ done \in [Proc -> 0..Pieces] /\ Pieces \in Nat \ {0}
      /\ alone \subseteq Proc
  BY Numbers DEF IInv, TypeOK
<1>6. /\ job' \in [Proc -> Record \cup {None}] /\ job'[p] = None
      /\ \A q \in Proc : job'[q] = job[q] \/ job'[q] = None
  BY <1>1, <1>5
<1>7. n \in Nat /\ file' \in Seq(Item) /\ file' # None /\ Len(file') = n + 1
      /\ DOMAIN file' = 1..(n + 1) /\ file'[n + 1] = Newline
  BY <1>2, <1>4, FileIs, Numbers DEF Grown
<1>8. Quiet
  <2>1. \A i, s, k : HasPiece(file', i, s, k) => HasPiece(file, i, s, k)
    BY <1>2, <1>3, <1>4, OtherItem, ItemsDiffer
  <2>2. \A q \in Proc : done[q] <= done'[q]
    BY <1>1, <1>5
  <2> QED BY <1>1, <1>2, <1>5, <1>6, <1>7, <2>1, <2>2 DEF Quiet
<1>9. TypeOK'
  <2>1. saved' \subseteq 1..jobs /\ kept' \subseteq saved' /\ alone' \subseteq Proc
    BY <1>1, <1>2 DEF IInv, TypeOK
  <2> HIDE DEF Item, Record
  <2> QED BY <1>1, <1>6, <1>7, <2>1 DEF IInv, TypeOK
<1>10. AloneOK'
  BY <1>1, <1>6 DEF AloneOK
<1>11. KeptOK'
  <2>1. \A s \in kept : Kept(file', s)
    <3>1. \A s \in kept : Kept(file, s)
      BY DEF IInv, KeptOK
    <3> QED BY <1>2, <1>3, <1>4, <3>1, GrownKeeps
  <2>2. ASSUME p \in alone PROVE Kept(file', r)
    <3>1. OnLine(file, n + 1, r, Pieces)
      BY <1>1, <1>5, <2>2 DEF IInv, AloneOK
    <3>2. n + 1 \in 1..(Len(file) + 1)
      BY <1>7
    <3>3. OnLine(file', n + 1, r, Pieces)
      BY <1>2, <1>3, <1>4, <1>5, <3>1, <3>2, GrownLines
    <3>4. n + 1 \in DOMAIN file'
      BY <1>7
    <3> QED BY <1>7, <3>3, <3>4 DEF Kept
  <2> QED BY <1>1, <1>7, <2>1, <2>2 DEF KeptOK, Kept
<1> QED BY <1>8, <1>9, <1>10, <1>11, QuietKeeps DEF IInv

LEMMA ClearKeeps == ASSUME IInv, Clear PROVE IInv'
<1>1. /\ file' = None /\ handle' = [p \in Proc |-> "gone"] /\ alone' = {} /\ cleared' = jobs
      /\ saved' = {} /\ kept' = {}
      /\ UNCHANGED <<job, done, jobs, owner>>
  BY DEF Clear
<1>2. jobs \in 0..MaxJobs /\ MaxJobs \in Nat
  BY Numbers DEF IInv, TypeOK
<1>3. TypeOK'
  <2>1. cleared' \in 0..jobs
    BY <1>1, <1>2
  <2> HIDE DEF Item, Record
  <2> QED BY <1>1, <2>1 DEF IInv, TypeOK
<1>4. JobsOK'
  BY <1>1 DEF IInv, JobsOK
<1> QED BY <1>1, <1>3, <1>4 DEF IInv, PiecesOK, OnceEach, OwnersInOrder, AloneOK, KeptOK

LEMMA EditKeeps == ASSUME IInv, Edit PROVE IInv'
<1>1. /\ file # None /\ \A p \in Proc : job[p] = None
      /\ UNCHANGED <<job, done, handle, jobs, owner, cleared, saved, alone, kept>>
  BY DEF Edit
<1>2. PICK line \in Edits : file' = file \o <<Mark(line), Newline>>
  BY DEF Edit
<1> PICK f, x, h : f = file /\ x = Mark(line) /\ h = Append(f, x)
  OBVIOUS
<1>3. f \in Seq(Item) /\ x \in Item /\ Newline \in Item
  BY <1>1 DEF IInv, TypeOK, Item
<1>4. Grown(f, h, x) /\ h \in Seq(Item)
  BY <1>3, AppendGrows DEF Grown
<1>5. file' = Append(h, Newline)
  <2>1. file' = f \o <<x, Newline>>
    BY <1>2
  <2>2. \A y \in Item : f \o <<x, y>> = Append(Append(f, x), y)
    <3> HIDE DEF Item
    <3> QED BY <1>3
  <2> QED BY <1>3, <2>1, <2>2
<1>6. Grown(h, file', Newline)
  BY <1>3, <1>4, <1>5, AppendGrows
<1>7. \A i, r, k : HasPiece(file', i, r, k) => HasPiece(file, i, r, k)
  <2>1. \A i, r, k : HasPiece(file', i, r, k) => HasPiece(h, i, r, k)
    BY <1>3, <1>4, <1>6, OtherItem, ItemsDiffer
  <2>2. \A i, r, k : HasPiece(h, i, r, k) => HasPiece(f, i, r, k)
    BY <1>3, <1>4, OtherItem, ItemsDiffer
  <2> QED BY <2>1, <2>2
<1>8. file' \in Seq(Item) /\ file' # None
  BY <1>6, Numbers DEF Grown
<1>9. Quiet
  <2>1. /\ job \in [Proc -> Record \cup {None}] /\ done \in [Proc -> 0..Pieces] /\ Pieces \in Nat
    BY Numbers DEF IInv, TypeOK
  <2>2. \A q \in Proc : done[q] <= done'[q]
    BY <1>1, <2>1
  <2> QED BY <1>1, <1>7, <1>8, <2>1, <2>2 DEF Quiet
<1>10. TypeOK'
  BY <1>1, <1>8 DEF IInv, TypeOK
<1>11. AloneOK'
  <2>1. alone \subseteq Proc
    BY DEF IInv, TypeOK
  <2> QED BY <1>1, <2>1 DEF AloneOK
<1>12. KeptOK'
  <2>1. \A r \in kept : Kept(f, r)
    BY DEF IInv, KeptOK
  <2>2. \A r \in kept : Kept(h, r)
    BY <1>3, <1>4, <2>1, GrownKeeps
  <2>3. \A r \in kept : Kept(file', r)
    BY <1>3, <1>4, <1>6, <2>2, GrownKeeps
  <2> QED BY <1>1, <1>8, <2>3 DEF KeptOK, Kept
<1> QED BY <1>9, <1>10, <1>11, <1>12, QuietKeeps DEF IInv

LEMMA OpenKeeps == ASSUME IInv, NEW p \in Proc, Open(p) PROVE IInv'
<1> PICK r : r = jobs + 1
  OBVIOUS
<1>1. /\ job[p] = None /\ jobs < MaxJobs /\ jobs' = r
      /\ owner' = [owner EXCEPT ![r] = p]
      /\ job' = [job EXCEPT ![p] = r]
      /\ done' = [done EXCEPT ![p] = 0]
      /\ handle' = [handle EXCEPT ![p] = "live"]
      /\ file' = IF file = None THEN <<>> ELSE file
      /\ UNCHANGED <<cleared, saved, alone, kept>>
  BY DEF Open
<1>2. /\ jobs \in Nat /\ cleared \in 0..jobs /\ MaxJobs \in Nat /\ Pieces \in Nat
      /\ job \in [Proc -> Record \cup {None}] /\ done \in [Proc -> 0..Pieces]
      /\ handle \in [Proc -> {"live", "gone"}] /\ owner \in [Record -> Proc \cup {None}]
      /\ alone \subseteq Proc /\ saved \subseteq 1..jobs /\ kept \subseteq saved
      /\ file \in Seq(Item) \cup {None}
      /\ \A q \in Proc : handle[q] = "live" => file # None
  BY Numbers DEF IInv, TypeOK
<1>3. /\ r \in Record /\ r \in Nat /\ r # None /\ r \in 1..r /\ r \in 0..MaxJobs
      /\ \A s \in 1..jobs : s \in Record /\ s \in 1..r /\ s # r /\ s < r
      /\ \A s \in 1..r : s \in 1..jobs \/ s = r
  BY <1>1, <1>2, Numbers DEF Record
<1>4. /\ job'[p] = r /\ done'[p] = 0 /\ handle'[p] = "live" /\ owner'[r] = p
      /\ \A q \in Proc \ {p} : job'[q] = job[q] /\ done'[q] = done[q] /\ handle'[q] = handle[q]
      /\ \A s \in 1..jobs : owner'[s] = owner[s]
  BY <1>1, <1>2, <1>3
<1>5. file' # None /\ file' \in Seq(Item)
  <2>1. <<>> \in Seq(Item)
    BY EmptySeq
  <2> HIDE DEF Item
  <2> QED BY <1>1, <1>2, <2>1, Numbers
<1>6. \A i, s, k : HasPiece(file', i, s, k) => HasPiece(file, i, s, k) /\ file # None
  <2>1. CASE file = None
    <3>1. DOMAIN file' = {}
      BY <1>1, <2>1
    <3> QED BY <3>1 DEF HasPiece
  <2>2. CASE file # None
    BY <1>1, <2>2
  <2> QED BY <2>1, <2>2
<1>7. TypeOK'
  <2>1. job' \in [Proc -> Record \cup {None}] /\ owner' \in [Record -> Proc \cup {None}]
    BY <1>1, <1>2, <1>3
  <2>2. done' \in [Proc -> 0..Pieces]
    BY <1>1, <1>2
  <2>3. handle' \in [Proc -> {"live", "gone"}]
    BY <1>1, <1>2
  <2>4. cleared' \in 0..jobs' /\ saved' \subseteq 1..jobs'
    BY <1>1, <1>2, <1>3
  <2> HIDE DEF Item, Record
  <2> QED BY <1>1, <1>2, <1>3, <1>5, <2>1, <2>2, <2>3, <2>4 DEF TypeOK
<1>8. JobsOK'
  <2>1. \A s \in 1..r : owner'[s] \in Proc
    BY <1>3, <1>4 DEF IInv, JobsOK
  <2>2. ASSUME NEW q \in Proc, job'[q] # None
        PROVE  /\ job'[q] \in 1..r /\ owner'[job'[q]] = q
               /\ \A s \in 1..r : owner'[s] = q => s <= job'[q]
               /\ handle'[q] = "live" => cleared' < job'[q]
    <3>1. CASE q = p
      BY <1>1, <1>2, <1>3, <1>4, <3>1
    <3>2. CASE q # p
      <4>1. /\ job'[q] = job[q] /\ handle'[q] = handle[q] /\ job[q] # None
        BY <1>4, <2>2, <3>2
      <4>2. /\ job[q] \in 1..jobs /\ owner[job[q]] = q
            /\ \A s \in 1..jobs : owner[s] = q => s <= job[q]
            /\ handle[q] = "live" => cleared < job[q]
        BY <4>1 DEF IInv, JobsOK
      <4>3. \A s \in 1..r : owner'[s] = q => s <= job[q]
        BY <1>3, <1>4, <3>2, <4>2
      <4> QED BY <1>1, <1>3, <1>4, <4>1, <4>2, <4>3
    <3> QED BY <3>1, <3>2
  <2> QED BY <1>1, <2>1, <2>2 DEF JobsOK
<1>9. ASSUME NEW i, NEW s, NEW k, HasPiece(file', i, s, k)
      PROVE  /\ HasPiece(file, i, s, k) /\ file # None /\ s \in 1..jobs /\ s \in Nat
             /\ cleared < s /\ s <= jobs' /\ owner'[s] = owner[s] /\ owner[s] \in Proc
             /\ job[owner[s]] = s => k <= done[owner[s]]
  <2>1. HasPiece(file, i, s, k) /\ file # None
    BY <1>6, <1>9
  <2>2. cleared < s /\ s <= jobs /\ (job[owner[s]] = s => k <= done[owner[s]])
    BY <2>1 DEF IInv, PiecesOK
  <2>3. s \in 1..jobs
    BY <1>2, <2>1, <2>2 DEF HasPiece, Record
  <2>4. owner[s] \in Proc
    BY <2>3 DEF IInv, JobsOK
  <2> QED BY <1>1, <1>2, <1>4, <2>1, <2>2, <2>3, <2>4
<1>10. PiecesOK'
  <2> SUFFICES ASSUME NEW i, NEW s, NEW k, HasPiece(file', i, s, k)
               PROVE  cleared < s /\ s <= jobs' /\ (job'[owner'[s]] = s => k <= done'[owner'[s]])
    BY <1>1 DEF PiecesOK
  <2> PICK q : q = owner[s]
    OBVIOUS
  <2>1. /\ s \in 1..jobs /\ cleared < s /\ s <= jobs' /\ owner'[s] = q /\ q \in Proc
        /\ job[q] = s => k <= done[q]
    BY <1>9
  <2>2. job'[q] = s => job[q] = s /\ done'[q] = done[q]
    BY <1>3, <1>4, <2>1
  <2> QED BY <2>1, <2>2
<1>11. OnceEach'
  BY <1>6 DEF IInv, OnceEach
<1>12. OwnersInOrder'
  <2> SUFFICES ASSUME NEW i, NEW j, NEW s, NEW t, NEW l, NEW m,
                      HasPiece(file', i, s, l), HasPiece(file', j, t, m),
                      owner'[s] = owner'[t], s < t
               PROVE  i < j
    BY DEF OwnersInOrder
  <2>1. HasPiece(file, i, s, l) /\ HasPiece(file, j, t, m) /\ file # None /\ owner[s] = owner[t]
    BY <1>9
  <2> QED BY <2>1 DEF IInv, OwnersInOrder
<1>13. AloneOK'
  <2> SUFFICES ASSUME NEW q \in alone, job'[q] # None
               PROVE  /\ handle'[q] = "live"
                      /\ done'[q] > 0 => OnLine(file', Len(file') + 1, job'[q], done'[q])
    BY <1>1 DEF AloneOK
  <2>1. CASE q = p
    BY <1>4, <2>1
  <2>2. CASE q # p
    <3>1. q \in Proc /\ job'[q] = job[q] /\ done'[q] = done[q] /\ handle'[q] = handle[q]
      BY <1>2, <1>4, <2>2
    <3>2. handle[q] = "live" /\ (done[q] > 0 => OnLine(file, Len(file) + 1, job[q], done[q]))
      BY <3>1 DEF IInv, AloneOK
    <3>3. file' = file
      BY <1>1, <1>2, <3>1, <3>2
    <3> QED BY <3>1, <3>2, <3>3
  <2> QED BY <2>1, <2>2
<1>14. KeptOK'
  <2>1. \A s \in kept : file # None /\ Kept(file, s)
    BY DEF IInv, KeptOK
  <2> QED BY <1>1, <2>1 DEF KeptOK
<1> QED BY <1>7, <1>8, <1>10, <1>11, <1>12, <1>13, <1>14 DEF IInv

LEMMA StepInv == IInv /\ [Next]_vars => IInv'
<1> SUFFICES ASSUME IInv, [Next]_vars PROVE IInv'
  OBVIOUS
<1>1. ASSUME NEW p \in Proc, Open(p) PROVE IInv'
  BY <1>1, OpenKeeps
<1>2. ASSUME NEW p \in Proc, WritePiece(p) PROVE IInv'
  BY <1>2, WritePieceKeeps, LostWriteKeeps
<1>3. ASSUME NEW p \in Proc, WriteNewline(p) PROVE IInv'
  BY <1>3, WriteNewlineKeeps, LostWriteKeeps
<1>4. ASSUME NEW p \in Proc, Crash(p) PROVE IInv'
  BY <1>4, CrashKeeps
<1>5. CASE UNCHANGED vars
  BY <1>5 DEF vars, IInv, TypeOK, JobsOK, PiecesOK, OnceEach, OwnersInOrder, AloneOK, KeptOK
<1> QED BY <1>1, <1>2, <1>3, <1>4, <1>5, ClearKeeps, EditKeeps DEF Next

LEMMA SpecInv == Spec => []IInv
BY InitInv, StepInv, PTL DEF Spec

-----------------------------------------------------------------------------
(* The properties. *)

\* The history of a file that is there, by the ends of its lines.
HistoryOf(ends) ==
    /\ DOMAIN ends = DOMAIN All(file) /\ Increasing(ends)
    /\ \A n \in DOMAIN ends : Entry(file, n, ends[n])
    /\ \A e \in Recorded(file) : \E n \in DOMAIN ends : ends[n] = e

LEMMA HistoryIs ==
    ASSUME file \in Seq(Item), file # None
    PROVE  /\ Len(All(file)) \in Nat /\ DOMAIN All(file) = 1..Len(All(file))
           /\ All(file) \in Seq(Record)
           /\ \E ends : HistoryOf(ends)
BY AllIs DEF HistoryOf

\* The first write of the record that entry n shows.
LEMMA EntryIs ==
    ASSUME file \in Seq(Item), NEW ends, HistoryOf(ends), NEW n \in DOMAIN All(file)
    PROVE  /\ All(file)[n] \in Record /\ HasPiece(file, ends[n] - Pieces, All(file)[n], 1)
           /\ ends[n] \in Nat /\ Pieces \in Nat
<1>1. Entry(file, n, ends[n])
  BY DEF HistoryOf
<1> QED BY <1>1, OnLineHas DEF Entry

LEMMA AllOfNone == file = None => All(file) = <<>> /\ Loaded = {}
BY DEF All, Loaded, ToSet

(* However the writes of several processes are cut and mixed, the history   *)
(* shows no run twice, and none whose append began before the last clear    *)
(* (JobStore::append, clear and load, jobs.rs).                             *)
THEOREM NothingInventedHolds == Spec => []NothingInvented
<1>1. IInv => NothingInvented
  <2> SUFFICES ASSUME IInv PROVE NothingInvented
    OBVIOUS
  <2>1. CASE file = None
    BY <2>1, AllOfNone DEF NothingInvented, IsInjective
  <2>2. CASE file # None
    <3>1. file \in Seq(Item)
      BY <2>2 DEF IInv, TypeOK
    <3>2. PICK ends : HistoryOf(ends)
      BY <2>2, <3>1, HistoryIs
    <3> PICK all : all = All(file)
      OBVIOUS
    <3>3. /\ DOMAIN all = 1..Len(all) /\ Len(all) \in Nat /\ DOMAIN ends = DOMAIN all
          /\ \A i, j \in DOMAIN all : i < j => ends[i] < ends[j]
      BY <2>2, <3>1, <3>2, HistoryIs DEF HistoryOf, Increasing
    <3>4. \A n \in DOMAIN all : /\ HasPiece(file, ends[n] - Pieces, all[n], 1)
                                /\ ends[n] \in Nat /\ Pieces \in Nat
      BY <3>1, <3>2, EntryIs
    <3>5. ASSUME NEW i \in DOMAIN all, NEW j \in DOMAIN all, all[i] = all[j] PROVE i = j
      <4>1. ends[i] - Pieces = ends[j] - Pieces
        BY <2>2, <3>4, <3>5 DEF IInv, OnceEach
      <4>2. ends[i] = ends[j] /\ ends[i] \in Nat
        BY <3>4, <4>1
      <4>3. ~(i < j) /\ ~(j < i) /\ i \in Nat /\ j \in Nat
        BY <3>3, <4>2
      <4> QED BY <4>3
    <3>6. \A n \in DOMAIN all : cleared < all[n] /\ all[n] <= jobs
      BY <2>2, <3>4 DEF IInv, PiecesOK
    <3> QED BY <3>5, <3>6 DEF NothingInvented, IsInjective, Loaded, ToSet
  <2> QED BY <2>1, <2>2
<1> QED BY <1>1, SpecInv, PTL

\* A saved record that is whole has its entry in the history.
LEMMA KeptIsLoaded ==
    ASSUME IInv, "bytes" \notin Edits, NEW r \in kept
    PROVE  file # None /\ file \in Seq(Item) /\ \E n \in DOMAIN All(file) : All(file)[n] = r
<1>1. file # None /\ Kept(file, r) /\ file \in Seq(Item)
  BY DEF IInv, KeptOK, TypeOK
<1>2. PICK e \in DOMAIN file : file[e] = Newline /\ OnLine(file, e, r, Pieces)
  BY <1>1 DEF Kept
<1>3. e \in Ends(file)
  BY <1>2 DEF Ends
<1>4. r \in Record
  <2>1. r \in 1..jobs /\ jobs \in 0..MaxJobs /\ MaxJobs \in Nat
    BY Numbers DEF IInv, TypeOK
  <2> QED BY <2>1 DEF Record
<1>5. e \in Recorded(file)
  BY <1>1, <1>2, <1>3, <1>4, WholeIsRead
<1>6. PICK ends : HistoryOf(ends)
  BY <1>1, HistoryIs
<1>7. PICK n \in DOMAIN All(file) : ends[n] = e
  BY <1>5, <1>6 DEF HistoryOf
<1>8. All(file)[n] \in Record /\ OnLine(file, e, All(file)[n], Pieces)
  BY <1>6, <1>7 DEF HistoryOf, Entry
<1>9. Whole(All(file)[n]) = Whole(r)
  BY <1>1, <1>2, <1>3, <1>4, <1>8, LineIsRecord
<1>10. All(file)[n] = r
  <2>1. 1 \in 1..Pieces
    BY Numbers
  <2>2. Piece(All(file)[n], 1) = Piece(r, 1)
    BY <1>4, <1>8, <1>9, <2>1, WholeIs
  <2> QED BY <2>2, ItemsDiffer
<1> QED BY <1>1, <1>10

LEMMA RangeIsSmall ==
    ASSUME NEW S, NEW s \in Seq(S), NEW n, n = Len(s), NEW K, K \subseteq ToSet(s)
    PROVE  Cardinality(K) <= n
<1>0. n \in Nat /\ s \in [1..n -> S]
  OBVIOUS
<1>1. s \in Surjection(1..n, ToSet(s))
  <2>1. s \in [1..n -> ToSet(s)]
    BY <1>0 DEF ToSet
  <2>2. \A x \in ToSet(s) : \E i \in 1..n : s[i] = x
    BY <1>0 DEF ToSet
  <2> QED BY <2>1, <2>2 DEF Surjection
<1>2. IsFiniteSet(1..n) /\ Cardinality(1..n) = n
  <2>1. n \in Nat /\ 1 \in Int /\ n \in Int
    BY <1>0
  <2>2. IsFiniteSet(1..n) /\ Cardinality(1..n) = IF 1 > n THEN 0 ELSE n - 1 + 1
    BY <2>1, FS_Interval
  <2> QED BY <2>1, <2>2
<1>3. IsFiniteSet(ToSet(s)) /\ Cardinality(ToSet(s)) <= n
  BY <1>1, <1>2, FS_Surjection
<1>4. IsFiniteSet(K) /\ Cardinality(K) <= Cardinality(ToSet(s))
  BY <1>3, FS_Subset
<1>5. Cardinality(K) \in Nat /\ Cardinality(ToSet(s)) \in Nat
  BY <1>3, <1>4, FS_CardinalityType
<1> QED BY <1>0, <1>3, <1>4, <1>5

LEMMA LoadIs ==
    /\ Load(file).stats.total_jobs = Len(All(file))
    /\ Load(file).recent = SubSeq(All(file), (IF Len(All(file)) > RECENT_LIMIT
                                              THEN Len(All(file)) - RECENT_LIMIT ELSE 0) + 1,
                                  Len(All(file)))
BY DEF Load, FromRecords

(* Torn lines, foreign lines and blank ones cost no run whose own line is   *)
(* whole its place in the history and in the totals: for any interleaving   *)
(* and any crashes, as long as every line is UTF-8 (load, jobs.rs).         *)
THEOREM WholeLinesAreLoadedHolds ==
    ASSUME "bytes" \notin Edits
    PROVE  Spec => []WholeLinesAreLoaded
<1>1. IInv => WholeLinesAreLoaded
  <2> SUFFICES ASSUME IInv PROVE WholeLinesAreLoaded
    OBVIOUS
  <2>1. kept \subseteq Loaded
    BY KeptIsLoaded DEF Loaded, ToSet
  <2>2. Len(All(file)) \in Nat /\ All(file) \in Seq(Record)
    <3>1. CASE file = None
      BY <3>1, AllOfNone, EmptySeq
    <3>2. CASE file # None
      BY <3>2, HistoryIs DEF IInv, TypeOK
    <3> QED BY <3>1, <3>2
  <2>3. Cardinality(kept) <= Len(All(file))
    BY <2>1, <2>2, RangeIsSmall DEF Loaded
  <2>4. Cardinality(kept) \in Nat
    <3>1. kept \in SUBSET (1..jobs) /\ jobs \in Nat
      BY Numbers DEF IInv, TypeOK
    <3> QED BY <3>1, FiniteBelow
  <2>5. Load(file).stats.total_jobs >= Cardinality(kept)
    BY <2>2, <2>3, <2>4, LoadIs
  <2> QED BY <2>1, <2>5 DEF WholeLinesAreLoaded
<1> QED BY <1>1, SpecInv, PTL

\* all[start..]
Onward(s, start) == SubSeq(s, start + 1, Len(s))

\* t is what follows position start of s.
Splits(s, start, t) ==
    /\ Len(t) = Len(s) - start
    /\ \A x \in ToSet(t) : \E j \in DOMAIN s : start < j /\ s[j] = x
    /\ \A j \in DOMAIN s : start < j => s[j] \in ToSet(t)

LEMMA LastOnes ==
    ASSUME NEW S, NEW s \in Seq(S), NEW start \in 0..Len(s), NEW t, t = Onward(s, start)
    PROVE  Splits(s, start, t)
<1>1. /\ Len(s) \in Nat /\ start \in Nat /\ start <= Len(s) /\ DOMAIN s = 1..Len(s)
      /\ start + 1 \in Int /\ Len(s) \in Int
  OBVIOUS
<1>2. \A i \in (start + 1)..Len(s) : s[i] \in S
  BY <1>1
<1>3. /\ t \in Seq(S)
      /\ Len(t) = IF start + 1 <= Len(s) THEN Len(s) - (start + 1) + 1 ELSE 0
      /\ \A i \in 1..(Len(s) - (start + 1) + 1) : t[i] = s[(start + 1) + i - 1]
  BY <1>1, <1>2, SubSeqProperties DEF Onward
<1> PICK n : n = Len(s)
  OBVIOUS
<1>4. Len(t) = n - start /\ n - (start + 1) + 1 = n - start
  <2>1. n \in Nat /\ start \in Nat /\ start <= n
    BY <1>1
  <2>2. Len(t) = IF start + 1 <= n THEN n - (start + 1) + 1 ELSE 0
    BY <1>3
  <2>3. start + 1 <= n \/ start = n
    BY <2>1
  <2> QED BY <2>1, <2>2, <2>3
<1>5. DOMAIN t = 1..(Len(s) - start) /\ \A i \in DOMAIN t : t[i] = s[start + i]
  <2>1. DOMAIN t = 1..Len(t)
    BY <1>3
  <2>2. \A i \in Nat : (start + 1) + i - 1 = start + i
    BY <1>1
  <2>3. \A i \in 1..(Len(s) - start) : i \in Nat
    BY <1>1
  <2> QED BY <1>3, <1>4, <2>1, <2>2, <2>3
<1>6. ASSUME NEW x \in ToSet(t) PROVE \E j \in DOMAIN s : start < j /\ s[j] = x
  <2>1. PICK i \in DOMAIN t : t[i] = x
    BY DEF ToSet
  <2>2. start + i \in DOMAIN s /\ start < start + i
    BY <1>1, <1>5, <2>1
  <2> QED BY <1>5, <2>1, <2>2
<1>7. ASSUME NEW j \in DOMAIN s, start < j PROVE s[j] \in ToSet(t)
  <2>1. j - start \in DOMAIN t /\ start + (j - start) = j
    BY <1>1, <1>5, <1>7
  <2> QED BY <1>5, <2>1 DEF ToSet
<1> QED BY <1>4, <1>6, <1>7 DEF Splits

(* The dashboard's recent jobs are the newest: a run it leaves out is older *)
(* than each run of the same process that it shows (load, jobs.rs).         *)
THEOREM RecentIsNewestHolds ==
    ASSUME "bytes" \notin Edits
    PROVE  Spec => []RecentIsNewest
<1>1. IInv => RecentIsNewest
  <2> SUFFICES ASSUME IInv, NEW r \in kept, r \notin ToSet(Load(file).recent)
               PROVE  /\ Len(Load(file).recent) = RECENT_LIMIT
                      /\ \A s \in ToSet(Load(file).recent) : owner[s] = owner[r] => s > r
    BY DEF RecentIsNewest
  <2> PICK all, recent : all = All(file) /\ recent = Load(file).recent
    OBVIOUS
  <2> PICK start : start = IF Len(all) > RECENT_LIMIT THEN Len(all) - RECENT_LIMIT ELSE 0
    OBVIOUS
  <2>1. file # None /\ file \in Seq(Item) /\ \E n \in DOMAIN all : all[n] = r
    BY KeptIsLoaded
  <2>2. PICK ends : HistoryOf(ends)
    BY <2>1, HistoryIs
  <2>3. Len(all) \in Nat /\ DOMAIN all = 1..Len(all) /\ all \in Seq(Record) /\ RECENT_LIMIT \in Nat
    BY <2>1, HistoryIs, JobStoreAssumption
  <2> PICK N : N = Len(all)
    OBVIOUS
  <2>4. /\ N \in Nat /\ start \in 0..N /\ DOMAIN all = 1..N
        /\ start # 0 => N - start = RECENT_LIMIT
    <3>1. N \in Nat /\ start = IF N > RECENT_LIMIT THEN N - RECENT_LIMIT ELSE 0
      BY <2>3
    <3>2. start \in 0..N /\ (start # 0 => N - start = RECENT_LIMIT)
      BY <2>3, <3>1
    <3> QED BY <2>3, <3>1, <3>2
  <2>5. recent = Onward(all, start)
    BY LoadIs DEF Onward
  <2>6. /\ Len(recent) = N - start
        /\ \A x \in ToSet(recent) : \E j \in DOMAIN all : start < j /\ all[j] = x
        /\ \A j \in DOMAIN all : start < j => all[j] \in ToSet(recent)
    <3>1. start \in 0..Len(all)
      BY <2>4
    <3>2. all \in Seq(Record)
      BY <2>3
    <3>3. Splits(all, start, recent)
      BY <2>5, <3>1, <3>2, LastOnes, Zenon
    <3> QED BY <3>3 DEF Splits
  <2>7. PICK n \in DOMAIN all : all[n] = r
    BY <2>1
  <2>8. n <= start /\ n \in Nat /\ 1 <= n
    <3>1. ~(start < n)
      BY <2>6, <2>7
    <3> QED BY <2>4, <3>1
  <2>9. Len(recent) = RECENT_LIMIT
    BY <2>4, <2>6, <2>8
  <2>10. ASSUME NEW s \in ToSet(recent), owner[s] = owner[r] PROVE s > r
    <3>1. PICK j \in DOMAIN all : start < j /\ all[j] = s
      BY <2>6
    <3>2. n < j
      <4>1. j \in Nat /\ start \in Nat
        BY <2>4, <3>1
      <4> QED BY <2>8, <3>1, <4>1
    <3>3. ends[n] < ends[j]
      BY <2>2, <2>7, <3>1, <3>2 DEF HistoryOf, Increasing
    <3>4. /\ HasPiece(file, ends[n] - Pieces, r, 1) /\ HasPiece(file, ends[j] - Pieces, s, 1)
          /\ ends[n] \in Nat /\ ends[j] \in Nat /\ Pieces \in Nat /\ r \in Record /\ s \in Record
      BY <2>1, <2>2, <2>7, <3>1, EntryIs
    <3>5. ~(s < r)
      <4> SUFFICES ASSUME s < r PROVE FALSE
        OBVIOUS
      <4>1. ends[j] - Pieces < ends[n] - Pieces
        BY <2>1, <2>10, <3>4 DEF IInv, OwnersInOrder
      <4> QED BY <3>3, <3>4, <4>1
    <3>6. s # r
      BY <2>10
    <3> QED BY <3>4, <3>5, <3>6, Numbers
  <2> QED BY <2>9, <2>10
<1> QED BY <1>1, SpecInv, PTL
=============================================================================
