------------------------------- MODULE Bitmap -------------------------------
(***************************************************************************)
(* The port bitmap of go-common-libs (bitmap.go) that the process manager  *)
(* hands ports out of.  The roaring bitmap "data" is the set of the free   *)
(* positions of 0 .. Size-1; "start" is the cursor after the last range    *)
(* handed out.  Port numbers are Base + position.                          *)
(*                                                                         *)
(* The operators take the free positions and the cursor as arguments, so   *)
(* that every module that owns a bitmap keeps it in variables of its own.  *)
(***************************************************************************)
EXTENDS Integers

CONSTANTS
  Base, \* the first port of the range (portRangeMin)
  Size  \* how many ports the range has

ASSUME BitmapAssumption ==
  /\ Base \in Nat \ {0}  \* port 0 means "no ports" throughout the code
  /\ Size \in Nat \ {0}

Positions == 0 .. Size - 1

(* The port numbers of the range, and of some positions of it.             *)
AllPorts == Base .. Base + Size - 1

PortNumbers(free) == {Base + i : i \in free}

(* What the iterator yields when advanced to i: the first free position at *)
(* or after i, or Size once it has no next element.                        *)
NextFree(free, i) ==
  IF \E f \in free : f >= i
  THEN CHOOSE f \in free : f >= i /\ \A g \in free : g >= i => f <= g
  ELSE Size

(* The first position after s that is taken (or the end of the bitmap).    *)
RunEnd(free, s) == NextFree((0 .. Size) \ free, s)

(* Mutant: the last element of the range is not looked at.                 *)
FitsShort(free, count, s) == s \in free /\ s .. s + count - 2 \subseteq free

(* The first element is there and so are the others, without a gap.        *)
Fits(free, count, s) == s \in free /\ s .. s + count - 1 \subseteq free

(* Mutant: the search gives up at the first gap.                           *)
CandidatesFirstOnly(free, iStart) ==
  [k \in 0 .. Size |-> IF k = 0 THEN NextFree(free, iStart) ELSE Size]

(* A round of findAt's outer loop that started at c and met a gap has      *)
(* already read the element after the gap from the iterator, so the next   *)
(* round starts at the element that follows it.                            *)
NextRound(free, c) == NextFree(free, NextFree(free, RunEnd(free, c)) + 1)

(* The position each round starts its range at.                            *)
Candidates(free, iStart) ==
  LET cand[k \in 0 .. Size] ==
        IF k = 0 THEN NextFree(free, iStart) ELSE NextRound(free, cand[k - 1])
  IN  cand

NoRange == -1

(* findAt: the start of the first round whose range is free, or NoRange    *)
(* (the error) when the iterator runs out first.                           *)
FindAt(free, count, iStart) ==
  LET cand == Candidates(free, iStart)
      FirstFit(k) == /\ Fits(free, count, cand[k])
                     /\ \A j \in 0 .. k - 1 : ~ Fits(free, count, cand[j])
  IN  IF \E k \in 0 .. Size : FirstFit(k)
      THEN cand[CHOOSE k \in 0 .. Size : FirstFit(k)]
      ELSE NoRange

(* Mutant: the cursor is forgotten.                                        *)
SearchFromBottom(free, cursor, count) == FindAt(free, count, 0)

(* The search of AllocateRange: from the cursor, then from the bottom.     *)
Search(free, cursor, count) ==
  IF FindAt(free, count, cursor) # NoRange
  THEN FindAt(free, count, cursor)
  ELSE FindAt(free, count, 0)

(* Mutant: the end of the half-open range is not one past the last port.   *)
RemoveRangeShort(free, first, last) == free \ (first .. last - 1)

(* What RemoveRange leaves of the bitmap.                                  *)
RemoveRange(free, first, last) == free \ (first .. last)

(* ReleaseRange of the ports start..end.  Every error leaves the bitmap    *)
(* alone; so does the range 0-0 that stands for "no ports".                *)
ReleaseRange(free, start, end) ==
  IF \/ end < start
     \/ start = 0 /\ end = 0
     \/ start - Base < 0
     \/ end - Base >= Size
  THEN free
  ELSE free \cup (start - Base .. end - Base)
=============================================================================
