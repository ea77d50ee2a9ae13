--------------------------- MODULE WorkspaceListing ---------------------------
(***************************************************************************)
(* GET /api/v1/workspaces: one owner's live workspaces, newest first, a    *)
(* page at a time.  A listing is two statements, a SELECT with LIMIT and   *)
(* OFFSET and a COUNT, and other requests create and delete workspaces     *)
(* before, between and after them.                                         *)
(*                                                                         *)
(* A client walks: it asks for page after page of one size until the total *)
(* it was told is covered.  It may also ask for any page, and the numbers  *)
(* in a query string are any machine integers.                             *)
(*                                                                         *)
(* created_at is taken to be distinct: a later row sorts strictly before.  *)
(***************************************************************************)
EXTENDS Integers, Sequences, FiniteSets, SequencesExt

CONSTANTS InitCount,     \* rows before the walk
          MaxCreates,    \* bound: rows created during it
          WalkLimit,     \* the `limit` of the walking client
          RawPages,      \* values of `page` another client sends
          RawLimits,     \* values of `limit` another client sends
          DefaultLimit,  \* 10
          MaxLimit,      \* 100
          MaxInt,        \* the largest of Go's int
          Faults         \* may a statement fail?

ASSUME CountsAssumption == InitCount \in Nat /\ MaxCreates \in Nat /\ MaxInt \in Nat
\* No table has more rows than an int can count.
ASSUME SizeAssumption == InitCount + MaxCreates <= MaxInt
ASSUME LimitsAssumption == /\ DefaultLimit \in 1..MaxLimit /\ MaxLimit \in Nat
                           /\ WalkLimit \in 1..MaxLimit
ASSUME RawAssumption == RawPages \subseteq Int /\ RawLimits \subseteq Int
                        /\ Faults \in BOOLEAN

VARIABLES rows,      \* ids of the live rows, in the order of the SELECT
          created,   \* ids given so far; a larger id is a newer row
          deleted,   \* ids of the rows deleted since the walk began
          pc,        \* the listing in progress
          asked,     \* its page and limit, and whether the walk asked it
          data,      \* the rows its SELECT returned
          walked,    \* pages the walk has received
          seen,      \* rows the walk has received
          received,  \* how many rows that was, repetitions counted
          finished   \* the walk was told it has everything

table == <<rows, created, deleted>>
walk  == <<walked, seen, received, finished>>
vars  == <<table, pc, asked, data, walk>>

-----------------------------------------------------------------------------
(* Pure parts. *)

\* Two's complement.
Wrap(n) == ((n + MaxInt + 1) % (2 * MaxInt + 2)) - (MaxInt + 1)

\* Variant: any number is a page.
EffectivePageUnchecked(raw) == raw

\* What the handler makes of the query string, and the service of that.
EffectivePage(raw) == IF raw > 0 THEN raw ELSE 1
EffectiveLimit(raw) == IF raw > 0 /\ raw <= MaxLimit THEN raw ELSE DefaultLimit

\* Variant: the offset counts pages from zero.
OffsetFromOne(page, limit) == Wrap(page * limit)

Offset(page, limit) == Wrap((page - 1) * limit)

\* Variant: a page is one row too long.
PageOneMore(t, page, limit) ==
  LET from == IF Offset(page, limit) > 0 THEN Offset(page, limit) ELSE 0
      to == IF from + limit < Len(t) THEN from + limit + 1 ELSE Len(t) IN
  SubSeq(t, from + 1, to)

\* LIMIT and OFFSET; an OFFSET that is not positive is not put in the statement.
Page(t, page, limit) ==
  LET from == IF Offset(page, limit) > 0 THEN Offset(page, limit) ELSE 0
      to == IF from + limit < Len(t) THEN from + limit ELSE Len(t) IN
  SubSeq(t, from + 1, to)

-----------------------------------------------------------------------------
(* Actions. *)

Init == /\ rows = [i \in 1..InitCount |-> InitCount + 1 - i]
        /\ created = InitCount
        /\ deleted = {}
        /\ pc = "idle"
        /\ asked = [page |-> 1, limit |-> DefaultLimit, walk |-> FALSE]
        /\ data = << >>
        /\ walked = 0 /\ seen = {} /\ received = 0 /\ finished = FALSE

\* Another request inserts a row, or soft-deletes one.
Create == /\ created < InitCount + MaxCreates
          /\ rows' = <<created + 1>> \o rows
          /\ created' = created + 1
          /\ UNCHANGED <<deleted, pc, asked, data, walk>>

Delete == /\ \E i \in DOMAIN rows : /\ rows' = RemoveAt(rows, i)
                                    /\ deleted' = deleted \cup {rows[i]}
          /\ UNCHANGED <<created, pc, asked, data, walk>>

\* The handler reads page and limit.
Ask(page, limit, walking) ==
  /\ pc = "idle"
  /\ pc' = "find"
  /\ asked' = [page |-> EffectivePage(page), limit |-> EffectiveLimit(limit),
               walk |-> walking]
  /\ UNCHANGED <<table, data, walk>>

AskNext == ~finished /\ Ask(walked + 1, WalkLimit, TRUE)
AskAny == \E p \in RawPages, l \in RawLimits : Ask(p, l, FALSE)

\* A failed statement is a 500; the client may ask again.
Fail == Faults /\ pc' = "idle" /\ data' = << >> /\ UNCHANGED walk

\* FindByOwnerID
Find == /\ pc = "find"
        /\ \/ /\ data' = Page(rows, asked.page, asked.limit)
              /\ pc' = "count"
              /\ UNCHANGED walk
           \/ Fail
        /\ UNCHANGED <<table, asked>>

\* CountByOwnerID, and the reply; the walking client takes it in.
Count ==
  /\ pc = "count"
  /\ \/ /\ pc' = "idle" /\ data' = << >>
        /\ IF asked.walk
           THEN /\ walked' = walked + 1
                /\ seen' = seen \cup Range(data)
                /\ received' = received + Len(data)
                /\ finished' = (asked.page * asked.limit >= Len(rows))
           ELSE UNCHANGED walk
     \/ Fail
  /\ UNCHANGED <<table, asked>>

Next == Create \/ Delete \/ AskNext \/ AskAny \/ Find \/ Count

Spec == Init /\ [][Next]_vars

-----------------------------------------------------------------------------
(* Properties. *)

Ids == 1..(InitCount + MaxCreates)

\* Types.
TypeOK ==
  /\ rows \in Seq(Ids) /\ created \in InitCount..(InitCount + MaxCreates)
  /\ deleted \subseteq Ids
  /\ pc \in {"idle", "find", "count"}
  /\ asked \in [page: Nat \ {0}, limit: 1..MaxLimit, walk: BOOLEAN]
  /\ data \in Seq(Ids)
  /\ walked \in Nat /\ seen \subseteq Ids /\ received \in Nat /\ finished \in BOOLEAN

\* A walk that was told it has everything misses at most one row for every row
\* that was deleted meanwhile, and nothing at all if only creations ran beside
\* it (workspace_service.go:89-99: the total is read after the page).
MissesBoundedByDeletions ==
  finished => Cardinality((1..InitCount) \ (deleted \cup seen)) <= Cardinality(deleted)

\* A walk receives a row again at most once for every row created meanwhile.
RepeatsBoundedByCreations ==
  received - Cardinality(seen) <= created - InitCount

\* A page is the slice of the table its number and size name, as long as its
\* offset fits Go's int; past that the offset wraps and page 2^k shows first
\* rows again (workspace_service.go:89).
PageIsSlice ==
  [][LET first == (asked.page - 1) * asked.limit IN
     (pc = "find" /\ pc' = "count" /\ first <= MaxInt) =>
       /\ data' = [i \in 1..Len(data') |-> rows[first + i]]
       /\ \/ Len(data') = asked.limit
          \/ Len(data') < asked.limit /\ first + Len(data') >= Len(rows)]_vars
=============================================================================
