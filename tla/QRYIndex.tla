------------------------------ MODULE QRYIndex ------------------------------
(***************************************************************************)
(* QRYIndex: a query for a half-open range of indices, and IDXIndex, which *)
(* resolves it.  An operation yields the set of its results: one query, or *)
(* none when it throws.                                                    *)
(***************************************************************************)
EXTENDS Integers

CONSTANT UINT32_MAX   \* the largest unsigned int

ASSUME UIntAssumption == UINT32_MAX \in Nat

UInts == 0..UINT32_MAX

\* Lengths are ints; longer ones throw whatever the start.
Lengths == -(UINT32_MAX + 1)..(UINT32_MAX + 1)

Queries == {q \in [first : UInts, last : UInts] : q.first <= q.last}

NewQuery == [first |-> 0, last |-> 0]

setFirstIndex(q, index) ==
  IF index > q.last THEN {} ELSE {[q EXCEPT !.first = index]}

setLastIndex(q, index) ==
  IF index < q.first THEN {} ELSE {[q EXCEPT !.last = index]}

setIndex(index) ==
  IF index = UINT32_MAX THEN {} ELSE {[first |-> index, last |-> index + 1]}

\* setRange(unsigned int, unsigned int)
setRange(firstIndex, lastIndex) ==
  IF lastIndex < firstIndex THEN {} ELSE {[first |-> firstIndex, last |-> lastIndex]}

\* Mutant: a negative length leaves out the start.
setLengthExclusive(startIndex, length) ==
  LET low  == IF length < 0 THEN startIndex + length ELSE startIndex
      high == IF length < 0 THEN startIndex ELSE startIndex + length
  IN  IF low < 0 \/ high > UINT32_MAX THEN {} ELSE {[first |-> low, last |-> high]}

\* An unsigned int plus one.
Succ(n) == IF n = UINT32_MAX THEN 0 ELSE n + 1

\* setRange(unsigned int, int): startIndex + 1 is an unsigned int, the rest is
\* computed in long long int and does not overflow.
setLength(startIndex, length) ==
  LET iLow  == IF length < 0 THEN Succ(startIndex) ELSE startIndex
      iHigh == iLow + length
      low   == IF iLow > iHigh THEN iHigh ELSE iLow
      high  == IF iLow > iHigh THEN iLow ELSE iHigh
  IN  IF low < 0 \/ high > UINT32_MAX THEN {} ELSE {[first |-> low, last |-> high]}

\* IDXIndex::getIndexList
IndexGetIndexList(q) == q.first .. (q.last - 1)

\* What the comment on setRange says: length indices from startIndex on, or,
\* with a negative length, backwards; startIndex is one of them.
Meant(startIndex, length) ==
  IF length < 0 THEN (startIndex + length + 1) .. startIndex
  ELSE startIndex .. (startIndex + length - 1)
=============================================================================
