------------------------ MODULE WorkspaceListingProofs ------------------------
(***************************************************************************)
(* Proofs about WorkspaceListing, for any number of rows, any page size    *)
(* and any creations and deletions beside the walk: what a walk may miss,  *)
(* and what it may be given twice.                                         *)
(*                                                                         *)
(* The argument is about the boundary of the walk, the number of rows that *)
(* its pages should have covered.  A deletion moves at most one row it has *)
(* not seen across the boundary, to where it does not look any more; a     *)
(* creation moves at most one row it has seen to where it will look again. *)
(***************************************************************************)
EXTENDS WorkspaceListing, FiniteSetTheorems, TLAPS

-----------------------------------------------------------------------------
(* The inductive invariant. *)

Old == 1..InitCount
Given == 1..created

\* Each live row is in the table once, and every row there ever was is in it or
\* was deleted.
TableInv ==
  /\ \A i, j \in DOMAIN rows : i # j => rows[i] # rows[j]
  /\ \A i \in DOMAIN rows : rows[i] \in Given /\ rows[i] \notin deleted
  /\ \A n \in Old : n \in deleted \/ \E i \in DOMAIN rows : rows[i] = n
  /\ deleted \subseteq Given
  /\ Len(rows) <= created

\* The rows of the start that are before the boundary b and not among those seen,
\* and the rows seen that are behind it.
Missed(b, got) == {n \in Old \ got : \E i \in DOMAIN rows : i <= b /\ rows[i] = n}
Ahead(b, got) == {n \in got : \E i \in DOMAIN rows : i > b /\ rows[i] = n}

\* A walk with the boundary b, which was given n rows, those in got.
Bounded(b, got, n) ==
  /\ b \in Nat /\ n \in Nat /\ got \subseteq Given
  /\ b = 0 => got = {}
  /\ Cardinality(Missed(b, got)) <= Cardinality(deleted)
  /\ n - Cardinality(got) + Cardinality(Ahead(b, got)) <= created - InitCount

\* The walk, and the page it has been given but not counted.
WalkInv ==
  /\ Bounded(walked * WalkLimit, seen, received)
  /\ ~finished => walked * WalkLimit <= InitCount + MaxCreates
  /\ (asked.walk /\ pc # "idle") =>
       ~finished /\ asked.page = walked + 1 /\ asked.limit = WalkLimit
  /\ (asked.walk /\ pc = "count") =>
       Bounded(asked.page * asked.limit, seen \cup Range(data), received + Len(data))
  /\ finished => Cardinality(Old \ (deleted \cup seen)) <= Cardinality(deleted)

ListingInv == TypeOK /\ TableInv /\ WalkInv

LEMMA Sizes ==
  /\ InitCount \in Nat /\ MaxCreates \in Nat /\ MaxInt \in Nat /\ InitCount + MaxCreates <= MaxInt
  /\ WalkLimit \in Nat \ {0} /\ WalkLimit <= MaxLimit /\ MaxLimit \in Nat
  /\ DefaultLimit \in 1..MaxLimit
  BY CountsAssumption, SizeAssumption, LimitsAssumption

-----------------------------------------------------------------------------
(* Sequences. *)

LEMMA ConcatFacts ==
  ASSUME NEW S, NEW a \in Seq(S), NEW b \in Seq(S), NEW j \in 1..(Len(a) + Len(b)),
         ~(j <= Len(a))
  PROVE  (a \o b)[j] = b[j - Len(a)]
  OBVIOUS

LEMMA RemoveAtFacts ==
  ASSUME NEW S, NEW s \in Seq(S), NEW i \in DOMAIN s
  PROVE  /\ RemoveAt(s, i) \in Seq(S)
         /\ Len(RemoveAt(s, i)) = Len(s) - 1
         /\ \A j \in 1..(Len(s) - 1) : RemoveAt(s, i)[j] = IF j < i THEN s[j] ELSE s[j + 1]
<1> DEFINE front == SubSeq(s, 1, i - 1)
           back == SubSeq(s, i + 1, Len(s))
<1>1. Len(s) \in Nat /\ i \in 1..Len(s)
  OBVIOUS
<1>2. /\ front \in Seq(S) /\ Len(front) = i - 1
      /\ \A j \in 1..(i - 1) : front[j] = s[j]
  BY <1>1
<1>3. /\ back \in Seq(S) /\ Len(back) = Len(s) - i
      /\ \A j \in 1..(Len(s) - i) : back[j] = s[i + j]
  BY <1>1
<1>4. RemoveAt(s, i) = front \o back
  BY DEF RemoveAt
<1> HIDE DEF front, back
<1>5. front \o back \in Seq(S) /\ Len(front \o back) = Len(s) - 1
  BY <1>1, <1>2, <1>3
<1>6. ASSUME NEW j \in 1..(Len(s) - 1)
      PROVE  (front \o back)[j] = IF j < i THEN s[j] ELSE s[j + 1]
  <2>0. j \in Int /\ i \in Int /\ Len(s) \in Int /\ 1 <= j /\ j <= Len(s) - 1
    BY <1>1
  <2>1. CASE j < i
    BY <1>1, <1>2, <1>3, <2>1
  <2>2. CASE ~(j < i)
    <3>1. (front \o back)[j] = back[j - (i - 1)]
      <4>1. j \in 1..(Len(front) + Len(back)) /\ ~(j <= Len(front))
        BY <1>2, <1>3, <2>0, <2>2
      <4>2. (front \o back)[j] = back[j - Len(front)]
        BY <1>2, <1>3, <4>1, ConcatFacts
      <4> QED
        BY <1>2, <4>2
    <3>2. j - (i - 1) \in 1..(Len(s) - i) /\ i + (j - (i - 1)) = j + 1
      BY <1>1, <2>0, <2>2
    <3>3. back[j - (i - 1)] = s[j + 1]
      BY <1>3, <3>2
    <3> QED
      BY <2>2, <3>1, <3>3
  <2> QED
    BY <2>1, <2>2
<1> QED
  BY <1>4, <1>5, <1>6

LEMMA PushFacts ==
  ASSUME NEW S, NEW s \in Seq(S), NEW e \in S
  PROVE  /\ <<e>> \o s \in Seq(S)
         /\ Len(<<e>> \o s) = Len(s) + 1
         /\ (<<e>> \o s)[1] = e
         /\ \A j \in DOMAIN s : (<<e>> \o s)[j + 1] = s[j]
  OBVIOUS

\* A sequence without repetitions has as many members as places.
LEMMA RangeSize ==
  ASSUME NEW S, NEW s \in Seq(S), \A i, j \in DOMAIN s : i # j => s[i] # s[j]
  PROVE  IsFiniteSet(Range(s)) /\ Cardinality(Range(s)) = Len(s)
<1>1. DOMAIN s = 1..Len(s) /\ Len(s) \in Nat
  OBVIOUS
<1>2. IsFiniteSet(1..Len(s)) /\ Cardinality(1..Len(s)) = Len(s)
  BY <1>1, FS_Interval
<1>3. s \in [1..Len(s) -> Range(s)]
  BY <1>1 DEF Range
<1>4. s \in Surjection(1..Len(s), Range(s)) /\ s \in Injection(1..Len(s), Range(s))
  BY <1>1, <1>3 DEF Surjection, Injection, Range, IsInjective
<1> QED
  BY <1>2, <1>4, FS_Surjection

-----------------------------------------------------------------------------
(* Numbers: an offset is exact until it exceeds the largest int. *)

LEMMA Modulo ==
  ASSUME NEW n \in Nat, NEW d \in Nat \ {0}, n < d
  PROVE  n % d = n
  OBVIOUS

LEMMA WrapIsExact == ASSUME NEW n \in Nat, n <= MaxInt PROVE Wrap(n) = n
<1>1. n + MaxInt + 1 \in Nat /\ 2 * MaxInt + 2 \in Nat \ {0} /\ n + MaxInt + 1 < 2 * MaxInt + 2
  BY Sizes
<1>2. (n + MaxInt + 1) % (2 * MaxInt + 2) = n + MaxInt + 1
  BY <1>1, Modulo
<1> QED
  BY <1>2, Sizes DEF Wrap

LEMMA OffsetIsExact ==
  ASSUME NEW page \in Nat \ {0}, NEW limit \in Nat, (page - 1) * limit <= MaxInt
  PROVE  Offset(page, limit) = (page - 1) * limit /\ (page - 1) * limit \in Nat
<1>1. page - 1 \in Nat
  OBVIOUS
<1>2. (page - 1) * limit \in Nat
  BY <1>1
<1> QED
  BY <1>2, WrapIsExact DEF Offset

LEMMA WrapIsInt == ASSUME NEW n \in Int PROVE Wrap(n) \in Int
  BY CountsAssumption DEF Wrap

\* A part of a sequence, which may be empty.
LEMMA SliceFacts ==
  ASSUME NEW S, NEW s \in Seq(S), NEW from \in Nat, NEW to \in Nat, to <= Len(s)
  PROVE  /\ SubSeq(s, from + 1, to) \in Seq(S)
         /\ Len(SubSeq(s, from + 1, to)) = IF from < to THEN to - from ELSE 0
         /\ \A i \in 1..Len(SubSeq(s, from + 1, to)) :
              SubSeq(s, from + 1, to)[i] = s[from + i]
<1>1. CASE from < to
  BY <1>1
<1>2. CASE from >= to
  BY <1>2
<1> QED
  BY <1>1, <1>2

\* What a page returns.
LEMMA PageFacts ==
  ASSUME NEW S, NEW s \in Seq(S), NEW page \in Nat, NEW limit \in Nat \ {0},
         NEW first \in Nat, Offset(page, limit) = first
  PROVE  LET p == Page(s, page, limit) IN
         /\ p \in Seq(S)
         /\ \A i \in 1..Len(p) : first + i \in DOMAIN s /\ p[i] = s[first + i]
         /\ \/ Len(p) = limit
            \/ Len(p) < limit /\ first + Len(p) >= Len(s)
         /\ Len(p) <= limit
         /\ \A i \in DOMAIN s : (i > first /\ i <= first + limit) => i - first \in 1..Len(p)
<1>1. PICK to \in Nat : /\ to <= Len(s) /\ to <= first + limit
                        /\ to = first + limit \/ to = Len(s)
                        /\ Page(s, page, limit) = SubSeq(s, first + 1, to)
  <2>1. (IF first > 0 THEN first ELSE 0) = first
    OBVIOUS
  <2>2. Page(s, page, limit) =
          SubSeq(s, first + 1, IF first + limit < Len(s) THEN first + limit ELSE Len(s))
    BY <2>1 DEF Page
  <2>3. CASE first + limit < Len(s)
    BY <2>2, <2>3
  <2>4. CASE ~(first + limit < Len(s))
    BY <2>2, <2>4
  <2> QED
    BY <2>3, <2>4
<1>2. PICK p : p = SubSeq(s, first + 1, to)
  OBVIOUS
<1>3. /\ p \in Seq(S) /\ Len(p) = IF first < to THEN to - first ELSE 0
      /\ \A i \in 1..Len(p) : p[i] = s[first + i]
  BY <1>1, <1>2, SliceFacts
<1>4. PICK n \in Nat, m \in Nat : n = Len(p) /\ m = Len(s)
  <2>1. Len(p) \in Nat /\ Len(s) \in Nat
    BY <1>3
  <2> QED
    BY <2>1, Zenon
<1>5. DOMAIN s = 1..m /\ to <= m /\ to <= first + limit /\ (to = first + limit \/ to = m)
  BY <1>1, <1>4
<1>6. (first < to /\ n = to - first) \/ (first >= to /\ n = 0)
  BY <1>3, <1>4
<1>7. /\ \A i \in 1..n : first + i \in 1..m
      /\ n <= limit /\ (n = limit \/ (n < limit /\ first + n >= m))
      /\ \A i \in 1..m : (i > first /\ i <= first + limit) => i - first \in 1..n
  BY <1>5, <1>6
<1>8. /\ \A i \in 1..Len(p) : first + i \in DOMAIN s
      /\ Len(p) <= limit /\ (Len(p) = limit \/ (Len(p) < limit /\ first + Len(p) >= Len(s)))
      /\ \A i \in DOMAIN s : (i > first /\ i <= first + limit) => i - first \in 1..Len(p)
  BY <1>4, <1>5, <1>7
<1> QED
  BY <1>1, <1>2, <1>3, <1>8

LEMMA PageType ==
  ASSUME NEW S, NEW s \in Seq(S), NEW page \in Nat, NEW limit \in Nat
  PROVE  Page(s, page, limit) \in Seq(S)
<1> DEFINE from == IF Offset(page, limit) > 0 THEN Offset(page, limit) ELSE 0
           to == IF from + limit < Len(s) THEN from + limit ELSE Len(s)
<1>1. Offset(page, limit) \in Int
  BY WrapIsInt DEF Offset
<1>2. from \in Nat /\ to \in Nat /\ to <= Len(s)
  BY <1>1
<1>3. Page(s, page, limit) = SubSeq(s, from + 1, to)
  BY DEF Page
<1> HIDE DEF from, to
<1> QED
  BY <1>2, <1>3

-----------------------------------------------------------------------------
(* What one step does to the boundary. *)

\* Every set the bounds count is finite.
LEMMA Finite ==
  ASSUME TypeOK, TableInv, NEW b, NEW got, got \subseteq Given
  PROVE  /\ IsFiniteSet(deleted) /\ IsFiniteSet(got)
         /\ IsFiniteSet(Missed(b, got)) /\ IsFiniteSet(Ahead(b, got))
         /\ Cardinality(deleted) \in Nat /\ Cardinality(got) \in Nat
         /\ Cardinality(Missed(b, got)) \in Nat /\ Cardinality(Ahead(b, got)) \in Nat
<1>1. InitCount \in Int /\ created \in Int
  BY Sizes DEF TypeOK
<1>2. IsFiniteSet(Old) /\ IsFiniteSet(Given)
  BY <1>1, FS_Interval DEF Old, Given
<1>3. deleted \subseteq Given /\ Missed(b, got) \subseteq Old /\ Ahead(b, got) \subseteq got
  BY DEF TableInv, Missed, Ahead
<1>4. /\ IsFiniteSet(deleted) /\ IsFiniteSet(got)
      /\ IsFiniteSet(Missed(b, got)) /\ IsFiniteSet(Ahead(b, got))
  BY <1>2, <1>3, FS_Subset
<1> QED
  BY <1>4, FS_CardinalityType

\* One more member is one more at most.
LEMMA AddOne ==
  ASSUME NEW A, IsFiniteSet(A), NEW x, NEW B, B \subseteq A \cup {x}
  PROVE  /\ IsFiniteSet(B) /\ Cardinality(B) \in Nat
         /\ Cardinality(B) <= Cardinality(A) + 1
<1>1. IsFiniteSet(A \cup {x})
  BY FS_AddElement
<1>2. IsFiniteSet(B) /\ Cardinality(B) <= Cardinality(A \cup {x})
  BY <1>1, FS_Subset
<1>3. Cardinality(A) \in Nat /\ Cardinality(B) \in Nat /\ Cardinality(A \cup {x}) \in Nat
  BY <1>1, <1>2, FS_CardinalityType
<1>4. \/ Cardinality(A \cup {x}) = Cardinality(A)
      \/ Cardinality(A \cup {x}) = Cardinality(A) + 1
  BY FS_AddElement
<1> QED
  BY <1>2, <1>3, <1>4

\* A creation pushes at most one row over the boundary, to where the walk will
\* look again.
LEMMA CreateKeepsBound ==
  ASSUME TypeOK, TableInv, Create, NEW b, NEW got, NEW n, Bounded(b, got, n)
  PROVE  Bounded(b, got, n)'
<1>1. /\ b \in Nat /\ n \in Nat /\ got \subseteq Given
      /\ b = 0 => got = {}
      /\ Cardinality(Missed(b, got)) <= Cardinality(deleted)
      /\ n - Cardinality(got) + Cardinality(Ahead(b, got)) <= created - InitCount
  BY DEF Bounded
<1>2. created \in Nat /\ InitCount \in Nat /\ InitCount <= created
  BY Sizes DEF TypeOK
<1>3. rows' = <<created + 1>> \o rows /\ created' = created + 1 /\ deleted' = deleted
  BY DEF Create
<1>4. rows \in Seq(Ids) /\ created + 1 \in Ids
  BY <1>2, Sizes DEF TypeOK, Ids, Create
<1>5. /\ Len(rows') = Len(rows) + 1 /\ Len(rows) \in Nat
      /\ DOMAIN rows = 1..Len(rows) /\ DOMAIN rows' = 1..Len(rows')
      /\ rows'[1] = created + 1
      /\ \A j \in DOMAIN rows : rows'[j + 1] = rows[j]
  BY <1>3, <1>4, PushFacts
<1>6. ASSUME NEW m, m \in Given, NEW i \in DOMAIN rows', rows'[i] = m
      PROVE  i - 1 \in DOMAIN rows /\ rows[i - 1] = m
  <2>1. i # 1
    BY <1>2, <1>5, <1>6 DEF Given
  <2>2. i - 1 \in DOMAIN rows /\ (i - 1) + 1 = i
    BY <1>5, <2>1
  <2> QED
    BY <1>5, <1>6, <2>2
<1>7. Missed(b, got)' \subseteq Missed(b, got)
  <2>1. SUFFICES ASSUME NEW m \in Old \ got, NEW i \in DOMAIN rows', i <= b, rows'[i] = m
                 PROVE  m \in Missed(b, got)
    BY DEF Missed, Old
  <2>2. m \in Given
    BY <1>2 DEF Old, Given
  <2>3. i - 1 \in DOMAIN rows /\ rows[i - 1] = m
    BY <1>6, <2>1, <2>2
  <2>4. i - 1 <= b
    BY <1>1, <1>5, <2>1
  <2> QED
    BY <2>1, <2>3, <2>4 DEF Missed
<1>8. Ahead(b, got)' \subseteq Ahead(b, got) \cup {rows[b]}
  <2>1. SUFFICES ASSUME NEW m \in got, NEW i \in DOMAIN rows', i > b, rows'[i] = m
                 PROVE  m \in Ahead(b, got) \cup {rows[b]}
    BY DEF Ahead
  <2>2. i - 1 \in DOMAIN rows /\ rows[i - 1] = m
    BY <1>1, <1>6, <2>1
  <2>3. i - 1 > b \/ i - 1 = b
    BY <1>1, <1>5, <2>1
  <2> QED
    BY <2>1, <2>2, <2>3 DEF Ahead
<1>9. Cardinality(Missed(b, got)') <= Cardinality(Missed(b, got))
  BY <1>1, <1>7, Finite, FS_Subset
<1>10. Cardinality(Ahead(b, got)') <= Cardinality(Ahead(b, got)) + 1
  BY <1>1, <1>8, Finite, AddOne
<1>11. /\ Cardinality(deleted) \in Nat /\ Cardinality(got) \in Nat
       /\ Cardinality(Missed(b, got)) \in Nat /\ Cardinality(Ahead(b, got)) \in Nat
  BY <1>1, Finite
<1>12. Cardinality(Missed(b, got)') \in Nat /\ Cardinality(Ahead(b, got)') \in Nat
  BY <1>1, <1>7, <1>8, Finite, AddOne, FS_Subset, FS_CardinalityType
<1>13. got \subseteq Given'
  BY <1>1, <1>2, <1>3 DEF Given
<1>14. Cardinality(Missed(b, got)') <= Cardinality(deleted)
  BY <1>1, <1>9, <1>11, <1>12
<1>15. n - Cardinality(got) + Cardinality(Ahead(b, got)') <= (created + 1) - InitCount
  BY <1>1, <1>2, <1>10, <1>11, <1>12
<1> QED
  BY <1>1, <1>3, <1>13, <1>14, <1>15 DEF Bounded

\* A deletion pulls at most one row over the boundary, to where the walk has
\* looked already.
LEMMA DeleteKeepsBound ==
  ASSUME TypeOK, TableInv, Delete, NEW b, NEW got, NEW n, Bounded(b, got, n)
  PROVE  Bounded(b, got, n)'
<1>1. /\ b \in Nat /\ n \in Nat /\ got \subseteq Given
      /\ b = 0 => got = {}
      /\ Cardinality(Missed(b, got)) <= Cardinality(deleted)
      /\ n - Cardinality(got) + Cardinality(Ahead(b, got)) <= created - InitCount
  BY DEF Bounded
<1>2. PICK k \in DOMAIN rows : rows' = RemoveAt(rows, k) /\ deleted' = deleted \cup {rows[k]}
  BY DEF Delete
<1>3. created' = created /\ rows \in Seq(Ids)
  BY DEF Delete, TypeOK
<1>4. /\ rows' \in Seq(Ids) /\ Len(rows') = Len(rows) - 1
      /\ \A j \in 1..(Len(rows) - 1) : rows'[j] = IF j < k THEN rows[j] ELSE rows[j + 1]
  BY <1>2, <1>3, RemoveAtFacts
<1>5. Len(rows) \in Nat /\ DOMAIN rows = 1..Len(rows) /\ DOMAIN rows' = 1..(Len(rows) - 1)
  BY <1>3, <1>4
<1>6. \A j \in DOMAIN rows' : \/ j \in DOMAIN rows /\ rows'[j] = rows[j]
                              \/ j + 1 \in DOMAIN rows /\ rows'[j] = rows[j + 1]
  BY <1>4, <1>5
<1>7. Missed(b, got)' \subseteq Missed(b, got) \cup {rows[b + 1]}
  <2>1. SUFFICES ASSUME NEW m \in Old \ got, NEW i \in DOMAIN rows', i <= b, rows'[i] = m
                 PROVE  m \in Missed(b, got) \cup {rows[b + 1]}
    BY DEF Missed, Old
  <2>2. CASE i \in DOMAIN rows /\ rows'[i] = rows[i]
    BY <2>1, <2>2 DEF Missed
  <2>3. CASE i + 1 \in DOMAIN rows /\ rows'[i] = rows[i + 1]
    <3>1. i + 1 <= b \/ i + 1 = b + 1
      BY <1>1, <1>5, <2>1
    <3> QED
      BY <2>1, <2>3, <3>1 DEF Missed
  <2> QED
    BY <1>6, <2>2, <2>3
<1>8. Ahead(b, got)' \subseteq Ahead(b, got)
  <2>1. SUFFICES ASSUME NEW m \in got, NEW i \in DOMAIN rows', i > b, rows'[i] = m
                 PROVE  m \in Ahead(b, got)
    BY DEF Ahead
  <2>2. i + 1 > b
    BY <1>1, <1>5, <2>1
  <2> QED
    BY <1>6, <2>1, <2>2 DEF Ahead
<1>9. /\ IsFiniteSet(deleted) /\ Cardinality(deleted) \in Nat /\ Cardinality(got) \in Nat
      /\ IsFiniteSet(Missed(b, got)) /\ Cardinality(Missed(b, got)) \in Nat
      /\ IsFiniteSet(Ahead(b, got)) /\ Cardinality(Ahead(b, got)) \in Nat
  BY <1>1, Finite
<1>10. rows[k] \notin deleted
  BY DEF TableInv
<1>11. Cardinality(deleted') = Cardinality(deleted) + 1
  BY <1>2, <1>9, <1>10, FS_AddElement
<1>12. /\ Cardinality(Missed(b, got)') \in Nat
       /\ Cardinality(Missed(b, got)') <= Cardinality(Missed(b, got)) + 1
  BY <1>7, <1>9, AddOne
<1>13. /\ IsFiniteSet(Ahead(b, got)')
       /\ Cardinality(Ahead(b, got)') <= Cardinality(Ahead(b, got))
  BY <1>8, <1>9, FS_Subset
<1>14. Cardinality(Ahead(b, got)') \in Nat
  BY <1>13, FS_CardinalityType
<1>15. created \in Int /\ InitCount \in Int
  BY Sizes DEF TypeOK
<1>16. Cardinality(Missed(b, got)') <= Cardinality(deleted')
  BY <1>1, <1>9, <1>11, <1>12
<1>17. n - Cardinality(got) + Cardinality(Ahead(b, got)') <= created - InitCount
  BY <1>1, <1>9, <1>13, <1>14, <1>15
<1>18. got \subseteq Given'
  BY <1>1, <1>3 DEF Given
<1> QED
  BY <1>1, <1>3, <1>16, <1>17, <1>18 DEF Bounded

\* A page moves the boundary: the rows it repeats were ahead of the old boundary
\* and none of them is ahead of the new one.
LEMMA PageKeepsBound ==
  ASSUME TypeOK, TableInv, NEW b, NEW got, NEW n, Bounded(b, got, n),
         NEW limit \in Nat \ {0}, NEW p \in Seq(Ids), Len(p) <= limit,
         \A i \in 1..Len(p) : b + i \in DOMAIN rows /\ p[i] = rows[b + i],
         \A i \in DOMAIN rows : (i > b /\ i <= b + limit) => i - b \in 1..Len(p)
  PROVE  Bounded(b + limit, got \cup Range(p), n + Len(p))
<1>1. /\ b \in Nat /\ n \in Nat /\ got \subseteq Given
      /\ Cardinality(Missed(b, got)) <= Cardinality(deleted)
      /\ n - Cardinality(got) + Cardinality(Ahead(b, got)) <= created - InitCount
  BY DEF Bounded
<1>2. PICK k \in Nat, m \in Nat : k = Len(p) /\ m = Len(rows)
  BY DEF TypeOK
<1>3. DOMAIN p = 1..k /\ DOMAIN rows = 1..m /\ k <= limit
  BY <1>2 DEF TypeOK
<1>4. /\ \A i \in 1..k : b + i \in DOMAIN rows /\ p[i] = rows[b + i]
      /\ \A i \in DOMAIN rows : (i > b /\ i <= b + limit) => i - b \in 1..k
  BY <1>2
<1>5. \A i, j \in DOMAIN rows : rows[i] = rows[j] => i = j
  BY DEF TableInv
<1> DEFINE new == Range(p)
           all == got \cup new
<1>6. \A i, j \in DOMAIN p : i # j => p[i] # p[j]
  <2>1. ASSUME NEW i \in 1..k, NEW j \in 1..k, p[i] = p[j] PROVE i = j
    <3>1. b + i = b + j
      BY <1>4, <1>5, <2>1
    <3> QED
      BY <1>1, <3>1
  <2> QED
    BY <1>3, <2>1
<1>7. IsFiniteSet(new) /\ Cardinality(new) = k
  BY <1>2, <1>6, RangeSize
<1>8. \A x \in new : \E i \in 1..k : x = rows[b + i] /\ b + i \in DOMAIN rows
  BY <1>3, <1>4 DEF Range
<1>9. \A i \in 1..k : rows[b + i] \in new
  <2>1. ASSUME NEW i \in 1..k PROVE rows[b + i] \in new
    BY <1>3, <1>4 DEF Range
  <2> QED
    BY <2>1
<1> HIDE DEF new
<1>10. new \subseteq Given
  BY <1>8 DEF TableInv
<1>11. Missed(b + limit, all) \subseteq Missed(b, got)
  <2>1. SUFFICES ASSUME NEW x \in Old \ all, NEW i \in DOMAIN rows, i <= b + limit, rows[i] = x
                 PROVE  i <= b
    BY DEF Missed
  <2>2. SUFFICES ASSUME i > b PROVE FALSE
    BY <1>1, <1>3
  <2>3. i - b \in 1..k /\ b + (i - b) = i
    BY <1>1, <1>3, <1>4, <2>1, <2>2
  <2>4. x \in new
    BY <1>9, <2>1, <2>3
  <2> QED
    BY <2>1, <2>4
<1>12. got \cap new \subseteq Ahead(b, got)
  <2>1. SUFFICES ASSUME NEW x \in got, NEW i \in 1..k, x = rows[b + i], b + i \in DOMAIN rows
                 PROVE  x \in Ahead(b, got)
    BY <1>8
  <2>2. b + i > b
    BY <1>1
  <2> QED
    BY <2>1, <2>2 DEF Ahead
<1>13. ASSUME NEW x \in Ahead(b + limit, all) PROVE x \notin new /\ x \in Ahead(b, got)
  <2>1. PICK i \in DOMAIN rows : i > b + limit /\ rows[i] = x
    BY <1>13 DEF Ahead
  <2>2. x \notin new
    <3>1. SUFFICES ASSUME x \in new PROVE FALSE
      OBVIOUS
    <3>2. PICK j \in 1..k : x = rows[b + j] /\ b + j \in DOMAIN rows
      BY <1>8, <3>1
    <3>3. i = b + j
      BY <1>5, <2>1, <3>2
    <3> QED
      BY <1>1, <1>3, <2>1, <3>3
  <2>3. x \in got /\ i > b
    BY <1>1, <1>3, <1>13, <2>1, <2>2 DEF Ahead
  <2> QED
    BY <2>1, <2>2, <2>3 DEF Ahead
<1>14. all \subseteq Given
  BY <1>1, <1>10
<1>15. /\ IsFiniteSet(got) /\ IsFiniteSet(Ahead(b, got)) /\ IsFiniteSet(Missed(b, got))
       /\ IsFiniteSet(Ahead(b + limit, all))
       /\ Cardinality(got) \in Nat /\ Cardinality(Ahead(b, got)) \in Nat
       /\ Cardinality(deleted) \in Nat /\ Cardinality(all) \in Nat
       /\ Cardinality(Ahead(b + limit, all)) \in Nat
       /\ Cardinality(Missed(b, got)) \in Nat /\ Cardinality(Missed(b + limit, all)) \in Nat
  BY <1>1, <1>14, Finite
<1>16. IsFiniteSet(got \cap new) /\ Cardinality(got \cap new) \in Nat
  BY <1>7, FS_Subset, FS_CardinalityType
<1>17. Cardinality(all) = Cardinality(got) + k - Cardinality(got \cap new)
  BY <1>7, <1>15, FS_Union
<1>18. Cardinality(got \cap new) + Cardinality(Ahead(b + limit, all)) <= Cardinality(Ahead(b, got))
  <2>1. (got \cap new) \cap Ahead(b + limit, all) = {}
    BY <1>13
  <2>2. Cardinality((got \cap new) \cup Ahead(b + limit, all))
          = Cardinality(got \cap new) + Cardinality(Ahead(b + limit, all)) - Cardinality({})
    BY <1>15, <1>16, <2>1, FS_Union
  <2>3. (got \cap new) \cup Ahead(b + limit, all) \subseteq Ahead(b, got)
    BY <1>12, <1>13
  <2>4. /\ IsFiniteSet((got \cap new) \cup Ahead(b + limit, all))
        /\ Cardinality((got \cap new) \cup Ahead(b + limit, all)) <= Cardinality(Ahead(b, got))
    BY <1>15, <2>3, FS_Subset
  <2>5. Cardinality((got \cap new) \cup Ahead(b + limit, all)) \in Nat /\ Cardinality({}) = 0
    BY <2>4, FS_CardinalityType, FS_EmptySet
  <2> QED
    BY <1>15, <1>16, <2>2, <2>4, <2>5
<1>19. Cardinality(Missed(b + limit, all)) <= Cardinality(Missed(b, got))
  BY <1>11, <1>15, FS_Subset
<1>20. Cardinality(Missed(b + limit, all)) <= Cardinality(deleted)
  BY <1>1, <1>15, <1>19
<1>21. (n + k) - Cardinality(all) + Cardinality(Ahead(b + limit, all)) <= created - InitCount
  <2>1. created \in Int /\ InitCount \in Int
    BY Sizes DEF TypeOK
  <2>2. PICK g \in Nat, again \in Nat, a \in Nat, aNew \in Nat, gNew \in Nat :
          /\ g = Cardinality(got) /\ again = Cardinality(got \cap new)
          /\ a = Cardinality(Ahead(b, got)) /\ aNew = Cardinality(Ahead(b + limit, all))
          /\ gNew = Cardinality(all)
    BY <1>15, <1>16, Zenon
  <2>3. /\ n - g + a <= created - InitCount /\ gNew = g + k - again
        /\ again + aNew <= a
    BY <1>1, <1>17, <1>18, <2>2
  <2>4. (n + k) - gNew + aNew <= created - InitCount
    BY <1>1, <2>1, <2>3
  <2> QED
    BY <2>2, <2>4
<1>22. b + limit \in Nat /\ n + k \in Nat /\ b + limit # 0
  BY <1>1
<1> QED
  BY <1>2, <1>14, <1>20, <1>21, <1>22 DEF Bounded, new

-----------------------------------------------------------------------------
(* The parts of the invariant, step by step. *)

\* Numbers and their products.
LEMMA Products ==
  ASSUME NEW w \in Nat, NEW l \in Nat
  PROVE  /\ w * l \in Nat /\ (w + 1) * l = w * l + l
         /\ ((w + 1) - 1) * l = w * l
  OBVIOUS

LEMMA Effective ==
  /\ \A raw \in Int : EffectivePage(raw) \in Nat \ {0}
  /\ \A raw \in Int : EffectiveLimit(raw) \in 1..MaxLimit
  /\ EffectiveLimit(WalkLimit) = WalkLimit
  /\ \A w \in Nat : EffectivePage(w + 1) = w + 1
  BY Sizes DEF EffectivePage, EffectiveLimit

LEMMA InitHolds == ASSUME Init PROVE ListingInv
<1>1. InitCount \in Nat /\ MaxCreates \in Nat /\ WalkLimit \in Nat /\ DefaultLimit \in 1..MaxLimit
  BY Sizes
<1>2. /\ rows = [i \in 1..InitCount |-> InitCount + 1 - i]
      /\ created = InitCount /\ deleted = {} /\ pc = "idle" /\ data = << >>
      /\ asked = [page |-> 1, limit |-> DefaultLimit, walk |-> FALSE]
      /\ walked = 0 /\ seen = {} /\ received = 0 /\ finished = FALSE
  BY DEF Init
<1>3. rows \in Seq(Ids) /\ Len(rows) = InitCount /\ DOMAIN rows = 1..InitCount
  BY <1>1, <1>2 DEF Ids
<1>4. TypeOK
  <2>1. << >> \in Seq(Ids)
    OBVIOUS
  <2>2. asked \in [page: Nat \ {0}, limit: 1..MaxLimit, walk: BOOLEAN]
    BY <1>1, <1>2
  <2>3. created \in InitCount..(InitCount + MaxCreates)
    BY <1>1, <1>2
  <2> QED
    BY <1>2, <1>3, <2>1, <2>2, <2>3 DEF TypeOK
<1>5. TableInv
  <2>1. \A i \in DOMAIN rows : rows[i] = InitCount + 1 - i
    BY <1>2, <1>3
  <2>2. \A n \in Old : InitCount + 1 - n \in DOMAIN rows /\ rows[InitCount + 1 - n] = n
    BY <1>1, <1>3, <2>1 DEF Old
  <2> QED
    BY <1>1, <1>2, <1>3, <2>1, <2>2 DEF TableInv, Given, Old
<1>6. walked * WalkLimit = 0
  BY <1>1, <1>2
<1>7. Cardinality({}) = 0
  BY FS_EmptySet
<1>8. Missed(0, {}) = {} /\ Ahead(0, {}) = {}
  BY <1>1, <1>3 DEF Missed, Ahead
<1>9. Bounded(0, {}, 0)
  <2>1. created - InitCount = 0
    BY <1>1, <1>2
  <2>2. 0 - Cardinality({}) + Cardinality(Ahead(0, {})) = 0
    BY <1>7, <1>8
  <2>3. Cardinality(Missed(0, {})) = 0 /\ Cardinality(deleted) = 0
    BY <1>2, <1>7, <1>8
  <2> QED
    BY <2>1, <2>2, <2>3 DEF Bounded
<1>10. WalkInv
  BY <1>1, <1>2, <1>6, <1>9 DEF WalkInv
<1> QED
  BY <1>4, <1>5, <1>10 DEF ListingInv

LEMMA CreateKeepsTable ==
  ASSUME TypeOK, TableInv, Create
  PROVE  TypeOK' /\ TableInv'
<1>1. created \in Nat /\ InitCount \in Nat /\ InitCount <= created
  BY Sizes DEF TypeOK
<1>2. /\ rows' = <<created + 1>> \o rows /\ created' = created + 1
      /\ UNCHANGED <<deleted, pc, asked, data, walked, seen, received, finished>>
  BY DEF Create, walk
<1>3. rows \in Seq(Ids) /\ created + 1 \in Ids /\ created + 1 \in InitCount..(InitCount + MaxCreates)
  BY <1>1, Sizes DEF TypeOK, Ids, Create
<1>4. /\ rows' \in Seq(Ids) /\ Len(rows') = Len(rows) + 1 /\ Len(rows) \in Nat
      /\ DOMAIN rows = 1..Len(rows) /\ DOMAIN rows' = 1..Len(rows')
      /\ rows'[1] = created + 1
      /\ \A j \in DOMAIN rows : rows'[j + 1] = rows[j]
  BY <1>2, <1>3, PushFacts
<1>5. TypeOK'
  BY <1>2, <1>3, <1>4 DEF TypeOK
<1>6. \A i \in DOMAIN rows' : i = 1 \/ (i - 1 \in DOMAIN rows /\ rows'[i] = rows[i - 1])
  <2>1. SUFFICES ASSUME NEW i \in DOMAIN rows', i # 1
                 PROVE  i - 1 \in DOMAIN rows /\ rows'[i] = rows[i - 1]
    OBVIOUS
  <2>2. i - 1 \in DOMAIN rows /\ (i - 1) + 1 = i
    BY <1>4, <2>1
  <2> QED
    BY <1>4, <2>2
<1>7. created + 1 \notin Given
  BY <1>1 DEF Given
<1>8. \A i, j \in DOMAIN rows' : i # j => rows'[i] # rows'[j]
  <2>1. SUFFICES ASSUME NEW i \in DOMAIN rows', NEW j \in DOMAIN rows', i # j
                 PROVE  rows'[i] # rows'[j]
    OBVIOUS
  <2>2. CASE i # 1 /\ j # 1
    <3>1. i - 1 # j - 1
      BY <1>4, <2>1
    <3> QED
      BY <1>6, <2>2, <3>1 DEF TableInv
  <2>3. CASE i = 1
    BY <1>4, <1>6, <1>7, <2>1, <2>3 DEF TableInv
  <2>4. CASE j = 1
    BY <1>4, <1>6, <1>7, <2>1, <2>4 DEF TableInv
  <2> QED
    BY <2>2, <2>3, <2>4
<1>9. Given' = Given \cup {created + 1}
  BY <1>1, <1>2 DEF Given
<1>10. \A i \in DOMAIN rows' : rows'[i] \in Given' /\ rows'[i] \notin deleted'
  BY <1>2, <1>4, <1>6, <1>7, <1>9 DEF TableInv
<1>11. \A n \in Old : n \in deleted' \/ \E i \in DOMAIN rows' : rows'[i] = n
  <2>1. SUFFICES ASSUME NEW n \in Old, NEW i \in DOMAIN rows, rows[i] = n
                 PROVE  \E j \in DOMAIN rows' : rows'[j] = n
    BY <1>2 DEF TableInv
  <2>2. i + 1 \in DOMAIN rows' /\ rows'[i + 1] = n
    BY <1>4, <2>1
  <2> QED
    BY <2>2
<1>12. deleted' \subseteq Given' /\ Len(rows') <= created'
  BY <1>1, <1>2, <1>4, <1>9 DEF TableInv
<1>13. TableInv'
  BY <1>8, <1>10, <1>11, <1>12 DEF TableInv, Old
<1> QED
  BY <1>5, <1>13

LEMMA DeleteKeepsTable ==
  ASSUME TypeOK, TableInv, Delete
  PROVE  TypeOK' /\ TableInv'
<1>1. PICK k \in DOMAIN rows : rows' = RemoveAt(rows, k) /\ deleted' = deleted \cup {rows[k]}
  BY DEF Delete
<1>2. UNCHANGED <<created, pc, asked, data, walked, seen, received, finished>>
  BY DEF Delete, walk
<1>3. rows \in Seq(Ids)
  BY DEF TypeOK
<1>4. /\ rows' \in Seq(Ids) /\ Len(rows') = Len(rows) - 1
      /\ \A j \in 1..(Len(rows) - 1) : rows'[j] = IF j < k THEN rows[j] ELSE rows[j + 1]
  BY <1>1, <1>3, RemoveAtFacts
<1>5. /\ Len(rows) \in Nat /\ DOMAIN rows = 1..Len(rows)
      /\ DOMAIN rows' = 1..(Len(rows) - 1) /\ k \in 1..Len(rows)
  BY <1>3, <1>4
<1>6. \A j \in DOMAIN rows' : \/ j < k /\ j \in DOMAIN rows /\ rows'[j] = rows[j]
                              \/ j >= k /\ j + 1 \in DOMAIN rows /\ rows'[j] = rows[j + 1]
  BY <1>4, <1>5
<1>7. rows[k] \in Ids
  BY <1>3
<1>8. TypeOK'
  BY <1>1, <1>2, <1>4, <1>7 DEF TypeOK
<1>9. \A j \in DOMAIN rows' : \E i \in DOMAIN rows : i # k /\ rows'[j] = rows[i]
  <2>1. SUFFICES ASSUME NEW j \in DOMAIN rows'
                 PROVE  \E i \in DOMAIN rows : i # k /\ rows'[j] = rows[i]
    OBVIOUS
  <2>2. j \in Int /\ k \in Int
    BY <1>5
  <2>3. CASE j < k /\ j \in DOMAIN rows /\ rows'[j] = rows[j]
    BY <2>2, <2>3
  <2>4. CASE j >= k /\ j + 1 \in DOMAIN rows /\ rows'[j] = rows[j + 1]
    BY <2>2, <2>4
  <2> QED
    BY <1>6, <2>3, <2>4
<1>10. \A i, j \in DOMAIN rows' : i # j => rows'[i] # rows'[j]
  <2>1. SUFFICES ASSUME NEW i \in DOMAIN rows', NEW j \in DOMAIN rows', rows'[i] = rows'[j]
                 PROVE  i = j
    OBVIOUS
  <2>2. \A x, y \in DOMAIN rows : rows[x] = rows[y] => x = y
    BY DEF TableInv
  <2>3. i \in Int /\ j \in Int /\ k \in Int
    BY <1>5
  <2>4. /\ (i < k /\ i \in DOMAIN rows /\ rows'[i] = rows[i])
           \/ (i >= k /\ i + 1 \in DOMAIN rows /\ rows'[i] = rows[i + 1])
        /\ (j < k /\ j \in DOMAIN rows /\ rows'[j] = rows[j])
           \/ (j >= k /\ j + 1 \in DOMAIN rows /\ rows'[j] = rows[j + 1])
    BY <1>6
  <2>5. \/ i = j \/ (i + 1 = j /\ i >= k /\ j < k) \/ (i = j + 1 /\ j >= k /\ i < k)
        \/ i + 1 = j + 1
    BY <2>1, <2>2, <2>4
  <2> QED
    BY <2>3, <2>5
<1>11. \A i \in DOMAIN rows' : rows'[i] \in Given' /\ rows'[i] \notin deleted'
  BY <1>1, <1>2, <1>9 DEF TableInv, Given
<1>12. \A n \in Old : n \in deleted' \/ \E i \in DOMAIN rows' : rows'[i] = n
  <2>1. SUFFICES ASSUME NEW n \in Old, NEW i \in DOMAIN rows, i # k, rows[i] = n
                 PROVE  \E j \in DOMAIN rows' : rows'[j] = n
    BY <1>1 DEF TableInv
  <2>2. CASE i < k
    <3>1. i \in DOMAIN rows' /\ rows'[i] = n
      BY <1>4, <1>5, <2>1, <2>2
    <3> QED
      BY <3>1
  <2>3. CASE i > k
    <3>1. i - 1 \in 1..(Len(rows) - 1) /\ ~(i - 1 < k) /\ (i - 1) + 1 = i
      BY <1>5, <2>1, <2>3
    <3>2. rows'[i - 1] = rows[(i - 1) + 1]
      BY <1>4, <3>1
    <3> QED
      BY <1>5, <2>1, <3>1, <3>2
  <2> QED
    BY <1>5, <2>1, <2>2, <2>3
<1>13. deleted' \subseteq Given' /\ Len(rows') <= created'
  <2>1. created \in Int /\ Given' = Given /\ rows[k] \in Given
    BY <1>2, Sizes DEF TypeOK, TableInv, Given
  <2>2. deleted' \subseteq Given'
    BY <1>1, <2>1 DEF TableInv
  <2>3. Len(rows') <= created
    BY <1>4, <1>5, <2>1 DEF TableInv
  <2> QED
    BY <1>2, <2>2, <2>3
<1>14. TableInv'
  BY <1>10, <1>11, <1>12, <1>13 DEF TableInv, Old
<1> QED
  BY <1>8, <1>14

-----------------------------------------------------------------------------
(* The walk. *)

\* A bound that no variable it reads changed under.
LEMMA SameBound ==
  ASSUME NEW b, NEW got, NEW n, Bounded(b, got, n), UNCHANGED table
  PROVE  Bounded(b, got, n)'
<1>1. rows' = rows /\ created' = created /\ deleted' = deleted
  BY DEF table
<1>2. /\ Missed(b, got)' = Missed(b, got) /\ Ahead(b, got)' = Ahead(b, got)
      /\ Given' = Given
  BY <1>1 DEF Missed, Ahead, Given, Old
<1> QED
  BY <1>1, <1>2 DEF Bounded

\* What the walk was given before the step, as constants of the step.
LEMMA WalkStands ==
  ASSUME TypeOK, TableInv, WalkInv, UNCHANGED <<pc, asked, data, walk>>,
         \A b, got, n : Bounded(b, got, n) => Bounded(b, got, n)',
         finished => (Cardinality(Old \ (deleted \cup seen)) <= Cardinality(deleted))'
  PROVE  WalkInv'
<1>1. /\ pc' = pc /\ asked' = asked /\ data' = data /\ walked' = walked
      /\ seen' = seen /\ received' = received /\ finished' = finished
  BY DEF walk
<1>2. PICK b, got, n : /\ b = walked * WalkLimit /\ got = seen /\ n = received
  OBVIOUS
<1>3. Bounded(b, got, n)'
  BY <1>2 DEF WalkInv
<1>4. Bounded(walked * WalkLimit, seen, received)'
  BY <1>1, <1>2, <1>3 DEF Bounded, Missed, Ahead
<1>5. PICK b2, got2, n2 : /\ b2 = asked.page * asked.limit
                          /\ got2 = seen \cup Range(data) /\ n2 = received + Len(data)
  OBVIOUS
<1>6. (asked.walk /\ pc = "count") => Bounded(b2, got2, n2)'
  BY <1>5 DEF WalkInv
<1>7. (asked.walk /\ pc = "count") =>
        Bounded(asked.page * asked.limit, seen \cup Range(data), received + Len(data))'
  BY <1>1, <1>5, <1>6 DEF Bounded, Missed, Ahead
<1> QED
  BY <1>1, <1>4, <1>7 DEF WalkInv, Old

LEMMA CreateKeepsWalk == ASSUME TypeOK, TableInv, WalkInv, Create PROVE WalkInv'
<1>1. UNCHANGED <<pc, asked, data, walk>> /\ deleted' = deleted /\ seen' = seen
  BY DEF Create, walk
<1>2. \A b, got, n : Bounded(b, got, n) => Bounded(b, got, n)'
  BY CreateKeepsBound
<1>3. finished => (Cardinality(Old \ (deleted \cup seen)) <= Cardinality(deleted))'
  BY <1>1 DEF WalkInv, Old
<1> QED
  BY <1>1, <1>2, <1>3, WalkStands

LEMMA DeleteKeepsWalk == ASSUME TypeOK, TableInv, WalkInv, Delete PROVE WalkInv'
<1>1. UNCHANGED <<pc, asked, data, walk>> /\ created' = created /\ seen' = seen
  BY DEF Delete, walk
<1>2. \A b, got, n : Bounded(b, got, n) => Bounded(b, got, n)'
  BY DeleteKeepsBound
<1>3. deleted \subseteq deleted'
  BY DEF Delete
<1>4. IsFiniteSet(Old) /\ IsFiniteSet(deleted')
  <2>1. TableInv' /\ TypeOK'
    BY DeleteKeepsTable
  <2>2. InitCount \in Int /\ created' \in Int /\ deleted' \subseteq 1..created'
    BY <2>1, Sizes DEF TypeOK, TableInv, Given
  <2>3. 1 \in Int /\ IsFiniteSet(1..InitCount) /\ IsFiniteSet(1..created')
    BY <2>2, FS_Interval
  <2> QED
    BY <2>2, <2>3, FS_Subset DEF Old
<1>5. ASSUME finished
      PROVE  (Cardinality(Old \ (deleted \cup seen)) <= Cardinality(deleted))'
  <2>1. PICK missing : missing = Old \ (deleted \cup seen)
    OBVIOUS
  <2>2. PICK missing2 : missing2 = Old \ (deleted' \cup seen')
    OBVIOUS
  <2>3. missing \subseteq Old /\ missing2 \subseteq missing
    BY <1>1, <1>3, <2>1, <2>2
  <2>4. IsFiniteSet(missing) /\ Cardinality(missing2) <= Cardinality(missing)
    BY <1>4, <2>3, FS_Subset
  <2>5. Cardinality(deleted) <= Cardinality(deleted')
    BY <1>3, <1>4, FS_Subset
  <2>6. IsFiniteSet(missing2) /\ IsFiniteSet(deleted)
    BY <1>3, <1>4, <2>3, <2>4, FS_Subset
  <2>7. /\ Cardinality(missing) \in Nat /\ Cardinality(missing2) \in Nat
        /\ Cardinality(deleted) \in Nat /\ Cardinality(deleted') \in Nat
    BY <1>4, <2>4, <2>6, FS_CardinalityType
  <2>8. Cardinality(missing) <= Cardinality(deleted)
    BY <1>5, <2>1 DEF WalkInv
  <2>9. Cardinality(missing2) <= Cardinality(deleted')
    BY <2>4, <2>5, <2>7, <2>8
  <2> QED
    BY <2>2, <2>9 DEF Old
<1> QED
  BY <1>1, <1>2, <1>3, <1>5, WalkStands

\* A request that is read, a statement that fails and a page of another client
\* leave the walk as it was.
LEMMA AskKeepsInv ==
  ASSUME ListingInv, NEW page \in Int, NEW limit \in Int, NEW walking \in BOOLEAN,
         Ask(page, limit, walking),
         walking => ~finished /\ page = walked + 1 /\ limit = WalkLimit
  PROVE  ListingInv'
<1> USE DEF ListingInv
<1>1. /\ pc = "idle" /\ pc' = "find"
      /\ asked' = [page |-> EffectivePage(page), limit |-> EffectiveLimit(limit),
                   walk |-> walking]
      /\ rows' = rows /\ created' = created /\ deleted' = deleted /\ data' = data
      /\ walked' = walked /\ seen' = seen /\ received' = received /\ finished' = finished
  BY DEF Ask, table, walk
<1>2. asked' \in [page: Nat \ {0}, limit: 1..MaxLimit, walk: BOOLEAN]
  BY <1>1, Effective
<1>3. TypeOK'
  BY <1>1, <1>2 DEF TypeOK
<1>4. TableInv'
  BY <1>1 DEF TableInv, Given, Old
<1>5. Bounded(walked * WalkLimit, seen, received)'
  BY <1>1 DEF WalkInv, Bounded, Missed, Ahead, Given, Old
<1>6. walking => asked'.page = walked + 1 /\ asked'.limit = WalkLimit
  BY <1>1, Effective DEF TypeOK
<1>7. asked'.walk = walking
  BY <1>1
<1>8. WalkInv'
  BY <1>1, <1>5, <1>6, <1>7 DEF WalkInv, Old
<1> QED
  BY <1>3, <1>4, <1>8

LEMMA FailKeepsInv ==
  ASSUME ListingInv, Fail, UNCHANGED <<table, asked>>
  PROVE  ListingInv'
<1> USE DEF ListingInv
<1>1. /\ pc' = "idle" /\ data' = << >> /\ asked' = asked
      /\ rows' = rows /\ created' = created /\ deleted' = deleted
      /\ walked' = walked /\ seen' = seen /\ received' = received /\ finished' = finished
  BY DEF Fail, table, walk
<1>2. << >> \in Seq(Ids)
  OBVIOUS
<1>3. TypeOK'
  BY <1>1, <1>2 DEF TypeOK
<1>4. TableInv'
  BY <1>1 DEF TableInv, Given, Old
<1>5. Bounded(walked * WalkLimit, seen, received)'
  BY <1>1 DEF WalkInv, Bounded, Missed, Ahead, Given, Old
<1>6. WalkInv'
  BY <1>1, <1>5 DEF WalkInv, Old
<1> QED
  BY <1>3, <1>4, <1>6

\* The walk asks for a page at its boundary, and its offset is exact.
LEMMA FindKeepsInv ==
  ASSUME ListingInv, pc = "find", pc' = "count",
         data' = Page(rows, asked.page, asked.limit), UNCHANGED <<table, asked, walk>>
  PROVE  ListingInv'
<1> USE DEF ListingInv
<1>1. /\ asked' = asked /\ rows' = rows /\ created' = created /\ deleted' = deleted
      /\ walked' = walked /\ seen' = seen /\ received' = received /\ finished' = finished
  BY DEF table, walk
<1>2. /\ asked.page \in Nat \ {0} /\ asked.limit \in 1..MaxLimit /\ rows \in Seq(Ids)
      /\ asked.limit \in Nat \ {0} /\ walked \in Nat
  BY Sizes DEF TypeOK
<1>3. data' \in Seq(Ids)
  BY <1>2, PageType
<1>4. TypeOK'
  BY <1>1, <1>3 DEF TypeOK
<1>5. TableInv'
  BY <1>1 DEF TableInv, Given, Old
<1>6. Bounded(walked * WalkLimit, seen, received)'
  BY <1>1 DEF WalkInv, Bounded, Missed, Ahead, Given, Old
<1>7. ASSUME asked.walk
      PROVE  Bounded(asked.page * asked.limit, seen \cup Range(data), received + Len(data))'
  <2>1. /\ ~finished /\ asked.page = walked + 1 /\ asked.limit = WalkLimit
        /\ walked * WalkLimit <= InitCount + MaxCreates
        /\ Bounded(walked * WalkLimit, seen, received)
    BY <1>7 DEF WalkInv
  <2>2. PICK b \in Nat : b = walked * WalkLimit
    BY <1>2, Sizes, Products
  <2>3. b <= MaxInt /\ (asked.page - 1) * asked.limit = b /\ asked.page * asked.limit = b + WalkLimit
    <3>1. b <= MaxInt
      BY <2>1, <2>2, Sizes
    <3>2. ((walked + 1) - 1) * WalkLimit = b /\ (walked + 1) * WalkLimit = b + WalkLimit
      BY <1>2, <2>2, Sizes, Products
    <3> QED
      BY <2>1, <3>1, <3>2
  <2>4. Offset(asked.page, asked.limit) = b
    BY <1>2, <2>3, OffsetIsExact
  <2>5. PICK p : p = Page(rows, asked.page, asked.limit)
    OBVIOUS
  <2>6. /\ p \in Seq(Ids) /\ Len(p) <= WalkLimit
        /\ \A i \in 1..Len(p) : b + i \in DOMAIN rows /\ p[i] = rows[b + i]
        /\ \A i \in DOMAIN rows : (i > b /\ i <= b + WalkLimit) => i - b \in 1..Len(p)
    BY <1>2, <2>1, <2>4, <2>5, PageFacts
  <2>7. Bounded(b, seen, received)
    BY <2>1, <2>2
  <2>8. Bounded(b + WalkLimit, seen \cup Range(p), received + Len(p))
    BY <2>6, <2>7, Sizes, PageKeepsBound
  <2>9. data' = p /\ asked'.page * asked'.limit = b + WalkLimit
    BY <1>1, <2>3, <2>5
  <2> QED
    BY <1>1, <2>8, <2>9 DEF Bounded, Missed, Ahead, Given, Old
<1>8. WalkInv'
  BY <1>1, <1>6, <1>7 DEF WalkInv, Old
<1> QED
  BY <1>4, <1>5, <1>8

\* The walk takes the page in.  When it is told that the page was the last, no live
\* row is behind the boundary: what it has not been given was missed before it.
LEMMA CountKeepsInv ==
  ASSUME ListingInv, pc = "count", pc' = "idle", data' = << >>, UNCHANGED <<table, asked>>,
         IF asked.walk
         THEN /\ walked' = walked + 1
              /\ seen' = seen \cup Range(data)
              /\ received' = received + Len(data)
              /\ finished' = (asked.page * asked.limit >= Len(rows))
         ELSE UNCHANGED walk
  PROVE  ListingInv'
<1> USE DEF ListingInv
<1>1. /\ asked' = asked /\ rows' = rows /\ created' = created /\ deleted' = deleted
  BY DEF table
<1>2. << >> \in Seq(Ids)
  OBVIOUS
<1>3. TableInv'
  BY <1>1 DEF TableInv, Given, Old
<1>4. CASE ~asked.walk
  <2>1. walked' = walked /\ seen' = seen /\ received' = received /\ finished' = finished
    BY <1>4 DEF walk
  <2>2. TypeOK'
    BY <1>1, <1>2, <2>1 DEF TypeOK
  <2>3. Bounded(walked * WalkLimit, seen, received)'
    BY <1>1, <2>1 DEF WalkInv, Bounded, Missed, Ahead, Given, Old
  <2>4. WalkInv'
    BY <1>1, <2>1, <2>3 DEF WalkInv, Old
  <2> QED
    BY <1>3, <2>2, <2>4
<1>5. CASE asked.walk
  <2>1. /\ walked' = walked + 1 /\ seen' = seen \cup Range(data)
        /\ received' = received + Len(data)
        /\ finished' = (asked.page * asked.limit >= Len(rows))
    BY <1>5
  <2>2. /\ data \in Seq(Ids) /\ seen \subseteq Ids /\ received \in Nat /\ walked \in Nat
        /\ created <= InitCount + MaxCreates /\ created \in Nat /\ Len(rows) \in Nat
    BY Sizes DEF TypeOK
  <2>3. Range(data) \subseteq Ids /\ Len(data) \in Nat
    BY <2>2 DEF Range
  <2>4. TypeOK'
    BY <1>1, <1>2, <2>1, <2>2, <2>3 DEF TypeOK
  <2>5. PICK b \in Nat, got \in SUBSET Ids, n \in Nat :
          b = (walked + 1) * WalkLimit /\ got = seen \cup Range(data) /\ n = received + Len(data)
    <3>1. (walked + 1) * WalkLimit \in Nat
      BY <2>2, Sizes
    <3>2. seen \cup Range(data) \in SUBSET Ids /\ received + Len(data) \in Nat
      BY <2>2, <2>3
    <3> QED
      BY <3>1, <3>2
  <2>6. asked.page * asked.limit = b /\ Bounded(b, got, n)
    BY <1>5, <2>5 DEF WalkInv
  <2>7. Bounded(b, got, n)'
    BY <2>6, SameBound
  <2>8. walked' * WalkLimit = b /\ seen' = got /\ received' = n
    BY <2>1, <2>5
  <2>9. Bounded(walked * WalkLimit, seen, received)'
    BY <2>7, <2>8 DEF Bounded, Missed, Ahead
  <2>10. PICK size \in Nat : size = Len(rows) /\ DOMAIN rows = 1..size
    BY DEF TypeOK
  <2>11. finished' = (b >= size)
    BY <2>10, <2>1, <2>6
  <2>12. ~finished' => b <= InitCount + MaxCreates
    <3>1. size <= created
      BY <2>10 DEF TableInv
    <3>2. ASSUME ~finished' PROVE b < size
      <4>1. ~(b >= size)
        BY <2>11, <3>2
      <4> QED
        BY <4>1
    <3>3. size <= InitCount + MaxCreates
      BY <2>2, <3>1, Sizes
    <3> QED
      BY <3>2, <3>3, Sizes
  <2>13. ASSUME finished'
         PROVE  Cardinality(Old \ (deleted \cup got)) <= Cardinality(deleted)
    <3>1. \A i \in DOMAIN rows : i <= b
      <4>1. b >= size
        BY <2>11, <2>13
      <4> QED
        BY <2>10, <4>1
    <3>2. Old \ (deleted \cup got) \subseteq Missed(b, got)
      BY <3>1 DEF Missed, TableInv
    <3>3. got \subseteq Given /\ Cardinality(Missed(b, got)) <= Cardinality(deleted)
      BY <2>6 DEF Bounded
    <3>4. IsFiniteSet(Missed(b, got))
      BY <3>3, Finite
    <3>5. /\ IsFiniteSet(Old \ (deleted \cup got))
          /\ Cardinality(Old \ (deleted \cup got)) <= Cardinality(Missed(b, got))
      BY <3>2, <3>4, FS_Subset
    <3>6. /\ Cardinality(Old \ (deleted \cup got)) \in Nat /\ Cardinality(deleted) \in Nat
          /\ Cardinality(Missed(b, got)) \in Nat
      BY <3>3, <3>5, Finite, FS_CardinalityType
    <3> QED
      BY <3>3, <3>5, <3>6
  <2>14. WalkInv'
    BY <1>1, <2>8, <2>9, <2>12, <2>13 DEF WalkInv, Old
  <2> QED
    BY <1>3, <2>4, <2>14
<1> QED
  BY <1>4, <1>5

-----------------------------------------------------------------------------
(* The invariant, and what it says. *)

LEMMA NextKeepsInv == ASSUME ListingInv, [Next]_vars PROVE ListingInv'
<1>1. CASE Create
  BY <1>1, CreateKeepsTable, CreateKeepsWalk DEF ListingInv
<1>2. CASE Delete
  BY <1>2, DeleteKeepsTable, DeleteKeepsWalk DEF ListingInv
<1>3. CASE AskNext
  <2>1. walked + 1 \in Int /\ WalkLimit \in Int
    BY Sizes DEF ListingInv, TypeOK
  <2> QED
    BY <1>3, <2>1, AskKeepsInv DEF AskNext
<1>4. CASE AskAny
  <2>1. PICK p \in RawPages, l \in RawLimits : Ask(p, l, FALSE)
    BY <1>4 DEF AskAny
  <2>2. p \in Int /\ l \in Int
    BY RawAssumption
  <2> QED
    BY <2>1, <2>2, AskKeepsInv
<1>5. CASE Find
  <2>1. pc = "find" /\ UNCHANGED <<table, asked>>
    BY <1>5 DEF Find
  <2>2. CASE data' = Page(rows, asked.page, asked.limit) /\ pc' = "count" /\ UNCHANGED walk
    BY <2>1, <2>2, FindKeepsInv
  <2>3. CASE Fail
    BY <2>1, <2>3, FailKeepsInv
  <2> QED
    BY <1>5, <2>2, <2>3 DEF Find
<1>6. CASE Count
  <2>1. pc = "count" /\ UNCHANGED <<table, asked>>
    BY <1>6 DEF Count
  <2>2. CASE Fail
    BY <2>1, <2>2, FailKeepsInv
  <2>3. CASE ~Fail
    BY <1>6, <2>1, <2>3, CountKeepsInv DEF Count
  <2> QED
    BY <2>2, <2>3
<1>7. CASE UNCHANGED vars
  BY <1>7 DEF vars, table, walk, ListingInv, TypeOK, TableInv, WalkInv, Bounded, Missed,
              Ahead, Given, Old
<1> QED
  BY <1>1, <1>2, <1>3, <1>4, <1>5, <1>6, <1>7 DEF Next

LEMMA ListingInvariant == Spec => []ListingInv
<1>1. Init => ListingInv
  BY InitHolds
<1>2. ListingInv /\ [Next]_vars => ListingInv'
  BY NextKeepsInv
<1> QED
  BY <1>1, <1>2, PTL DEF Spec

\* Rows, pages and what the walk holds have their types.
THEOREM TypeCorrect == Spec => []TypeOK
<1>1. ListingInv => TypeOK
  BY DEF ListingInv
<1> QED
  BY <1>1, ListingInvariant, PTL

\* However many rows there are, whatever the page size and whatever runs beside the
\* walk: a finished walk misses at most one row for every row deleted meanwhile
\* (workspace_service.go:89-99).
THEOREM MissesBounded == Spec => []MissesBoundedByDeletions
<1>1. ListingInv => MissesBoundedByDeletions
  BY DEF ListingInv, WalkInv, MissesBoundedByDeletions, Old
<1> QED
  BY <1>1, ListingInvariant, PTL

\* And it is given a row again at most once for every row created meanwhile.
THEOREM RepeatsBounded == Spec => []RepeatsBoundedByCreations
<1>1. ASSUME ListingInv PROVE RepeatsBoundedByCreations
  <2>1. PICK b : b = walked * WalkLimit
    OBVIOUS
  <2>2. Bounded(b, seen, received) /\ TypeOK /\ TableInv
    BY <1>1, <2>1 DEF ListingInv, WalkInv
  <2>3. /\ received - Cardinality(seen) + Cardinality(Ahead(b, seen)) <= created - InitCount
        /\ seen \subseteq Given /\ received \in Nat
    BY <2>2 DEF Bounded
  <2>4. Cardinality(seen) \in Nat /\ Cardinality(Ahead(b, seen)) \in Nat
    BY <2>2, <2>3, Finite
  <2>5. created \in Int /\ InitCount \in Int
    BY <2>2, Sizes DEF TypeOK
  <2> QED
    BY <2>3, <2>4, <2>5 DEF RepeatsBoundedByCreations
<1> QED
  BY <1>1, ListingInvariant, PTL

\* A page is the slice of the table that its number and size name, for every page
\* whose offset an int holds (workspace_service.go:89).
THEOREM PagesAreSlices == Spec => PageIsSlice
<1> DEFINE Slice == LET first == (asked.page - 1) * asked.limit IN
                    (pc = "find" /\ pc' = "count" /\ first <= MaxInt) =>
                      /\ data' = [i \in 1..Len(data') |-> rows[first + i]]
                      /\ \/ Len(data') = asked.limit
                         \/ Len(data') < asked.limit /\ first + Len(data') >= Len(rows)
<1>1. ASSUME TypeOK, [Next]_vars PROVE [Slice]_vars
  <2>1. SUFFICES ASSUME pc = "find", pc' = "count", (asked.page - 1) * asked.limit <= MaxInt
                 PROVE  /\ data' = [i \in 1..Len(data') |-> rows[(asked.page - 1) * asked.limit + i]]
                        /\ \/ Len(data') = asked.limit
                           \/ /\ Len(data') < asked.limit
                              /\ (asked.page - 1) * asked.limit + Len(data') >= Len(rows)
    OBVIOUS
  <2>2. data' = Page(rows, asked.page, asked.limit)
    BY <1>1, <2>1 DEF Next, Create, Delete, AskNext, AskAny, Ask, Find, Fail, Count, vars, table, walk
  <2>3. asked.page \in Nat \ {0} /\ asked.limit \in Nat \ {0} /\ rows \in Seq(Ids)
    BY <1>1, Sizes DEF TypeOK
  <2>4. PICK first \in Nat : /\ first = (asked.page - 1) * asked.limit
                             /\ Offset(asked.page, asked.limit) = first
    BY <2>1, <2>3, OffsetIsExact
  <2>5. PICK p : p = Page(rows, asked.page, asked.limit)
    OBVIOUS
  <2>6. /\ p \in Seq(Ids)
        /\ \A i \in 1..Len(p) : p[i] = rows[first + i]
        /\ \/ Len(p) = asked.limit
           \/ Len(p) < asked.limit /\ first + Len(p) >= Len(rows)
    <3>1. asked.page \in Nat
      BY <2>3
    <3>2. PICK page \in Nat, limit \in Nat \ {0} : page = asked.page /\ limit = asked.limit
      BY <2>3, <3>1
    <3>3. Offset(page, limit) = first /\ p = Page(rows, page, limit)
      BY <2>4, <2>5, <3>2
    <3>4. p \in Seq(Ids) /\ \A i \in 1..Len(p) : p[i] = rows[first + i]
      BY <2>3, <3>3, PageFacts
    <3>5. \/ Len(p) = limit
          \/ Len(p) < limit /\ first + Len(p) >= Len(rows)
      BY <2>3, <3>3, PageFacts
    <3> QED
      BY <3>2, <3>4, <3>5
  <2>7. p = [i \in 1..Len(p) |-> rows[first + i]]
    BY <2>6
  <2> QED
    BY <2>2, <2>4, <2>5, <2>6, <2>7
<1>2. (Spec => []TypeOK) /\ (Spec => [][Next]_vars)
  BY TypeCorrect, PTL DEF Spec
<1> QED
  BY <1>1, <1>2, PTL DEF PageIsSlice
=============================================================================
