--------------------------- MODULE Bitmap_proofs ----------------------------
(***************************************************************************)
(* What the operations of the port bitmap do, for every Base and Size:     *)
(* the facts that the proofs about its users rest on.  The last part is    *)
(* what findAt may miss; its inductions are over the least element of a    *)
(* set of naturals.                                                        *)
(***************************************************************************)
EXTENDS Bitmap, WellFoundedInduction, TLAPS

(* findAt returns NoRange or the start of a range of free positions.       *)
LEMMA FindAtFits ==
  ASSUME NEW free, NEW count, NEW iStart,
         FindAt(free, count, iStart) # NoRange
  PROVE  Fits(free, count, FindAt(free, count, iStart))
<1> DEFINE cand == Candidates(free, iStart)
           FirstFit(k) == /\ Fits(free, count, cand[k])
                          /\ \A j \in 0 .. k - 1 : ~ Fits(free, count, cand[j])
<1>1. PICK k \in 0 .. Size : FirstFit(k)
  BY DEF FindAt
<1>2. FirstFit(CHOOSE n \in 0 .. Size : FirstFit(n))
  BY <1>1
<1>3. FindAt(free, count, iStart) = cand[CHOOSE n \in 0 .. Size : FirstFit(n)]
  BY <1>1 DEF FindAt
<1> QED
  BY <1>2, <1>3

(* So does the search of AllocateRange, wherever the cursor is.            *)
LEMMA SearchFits ==
  ASSUME NEW free, NEW cursor, NEW count,
         Search(free, cursor, count) # NoRange
  PROVE  Fits(free, count, Search(free, cursor, count))
BY FindAtFits DEF Search

(* The range that AllocateRange takes out of the bitmap: it lies in the    *)
(* bitmap, its ports were free, and they and no others are free no more.   *)
LEMMA AllocateEffect ==
  ASSUME NEW free \in SUBSET Positions, NEW cursor,
         NEW count \in Nat \ {0},
         NEW s, s = Search(free, cursor, count), s # NoRange,
         NEW e, e = s + count - 1
  PROVE  /\ s \in Positions /\ e \in Positions /\ s <= e
         /\ Base + s \in AllPorts /\ Base + e \in AllPorts
         /\ RemoveRange(free, s, e) \subseteq Positions
         /\ Base + s .. Base + e \subseteq PortNumbers(free)
         /\ PortNumbers(RemoveRange(free, s, e))
              = PortNumbers(free) \ (Base + s .. Base + e)
<1>1. s \in free /\ s .. e \subseteq free
  BY SearchFits DEF Fits
<1>2. s \in Positions /\ e \in Int /\ s <= e
  BY <1>1 DEF Positions
<1>3. e \in s .. e
  BY <1>2 DEF Positions
<1>4. e \in Positions
  BY <1>1, <1>3
<1>5. Base + s \in AllPorts /\ Base + e \in AllPorts
  BY <1>2, <1>4, BitmapAssumption DEF Positions, AllPorts
<1>6. Base + s .. Base + e \subseteq PortNumbers(free)
  <2> SUFFICES ASSUME NEW port \in Base + s .. Base + e
               PROVE  \E i \in free : port = Base + i
    BY DEF PortNumbers
  <2> port - Base \in s .. e /\ port = Base + (port - Base)
    BY <1>2, <1>4, BitmapAssumption DEF Positions
  <2> QED
    BY <1>1
<1>7. ASSUME NEW i \in free
      PROVE  i \in s .. e <=> Base + i \in Base + s .. Base + e
  BY <1>2, <1>4, BitmapAssumption DEF Positions
<1>8. PortNumbers(RemoveRange(free, s, e)) \subseteq PortNumbers(free) \ (Base + s .. Base + e)
  BY <1>7 DEF PortNumbers, RemoveRange
<1>9. PortNumbers(free) \ (Base + s .. Base + e) \subseteq PortNumbers(RemoveRange(free, s, e))
  BY <1>7 DEF PortNumbers, RemoveRange
<1> QED
  BY <1>2, <1>4, <1>5, <1>6, <1>8, <1>9 DEF RemoveRange

(* ReleaseRange of a range of the bitmap's ports makes exactly them free.  *)
LEMMA ReleaseEffect ==
  ASSUME NEW free \in SUBSET Positions,
         NEW a \in AllPorts, NEW b \in AllPorts, a <= b
  PROVE  /\ ReleaseRange(free, a, b) \subseteq Positions
         /\ PortNumbers(ReleaseRange(free, a, b)) = PortNumbers(free) \cup (a .. b)
<1>1. ReleaseRange(free, a, b) = free \cup (a - Base .. b - Base)
  BY BitmapAssumption DEF ReleaseRange, AllPorts
<1>2. a - Base .. b - Base \subseteq Positions
  BY BitmapAssumption DEF AllPorts, Positions
<1>3. ASSUME NEW port \in a .. b
      PROVE  \E i \in a - Base .. b - Base : port = Base + i
  <2> port - Base \in a - Base .. b - Base /\ port = Base + (port - Base)
    BY BitmapAssumption DEF AllPorts
  <2> QED
    OBVIOUS
<1>4. ASSUME NEW i \in a - Base .. b - Base
      PROVE  Base + i \in a .. b
  BY BitmapAssumption DEF AllPorts
<1>5. PortNumbers(free \cup (a - Base .. b - Base)) = PortNumbers(free) \cup (a .. b)
  BY <1>3, <1>4 DEF PortNumbers
<1> QED
  BY <1>1, <1>2, <1>5

(* The range 0-0 of a process without ports releases nothing.              *)
LEMMA ReleaseNothing == \A free : ReleaseRange(free, 0, 0) = free
BY DEF ReleaseRange

(* At first every port of the range is free.                               *)
LEMMA InitialPorts == PortNumbers(Positions) = AllPorts
<1>1. ASSUME NEW port \in AllPorts
      PROVE  port - Base \in Positions /\ port = Base + (port - Base)
  BY BitmapAssumption DEF AllPorts, Positions
<1>2. ASSUME NEW i \in Positions
      PROVE  Base + i \in AllPorts
  BY BitmapAssumption DEF AllPorts, Positions
<1> QED
  BY <1>1, <1>2 DEF PortNumbers
-----------------------------------------------------------------------------
(* Every set of naturals that is not empty has a least element: this is    *)
(* what the inductions below rest on.                                      *)
LEMMA LeastElement ==
  ASSUME NEW T \in SUBSET Nat, T # {}
  PROVE  \E x \in T : \A y \in T : x <= y
<1>1. PICK x \in T : \A y \in T : ~ (<<y, x>> \in OpToRel(<, Nat))
  BY NatLessThanWellFounded, WFMin, Zenon
<1>2. \A y \in T : ~ (y < x)
  BY <1>1 DEF OpToRel
<1> QED
  BY <1>2

(* What the iterator yields is the first element from i on, if there is    *)
(* one.                                                                    *)
LEMMA NextFreeIsFirst ==
  ASSUME NEW S \in SUBSET Nat, NEW i \in Nat, NEW f \in S, f >= i
  PROVE  /\ NextFree(S, i) \in S
         /\ NextFree(S, i) >= i
         /\ \A g \in S : g >= i => NextFree(S, i) <= g
<1> DEFINE T == {g \in S : g >= i}
<1>1. PICK x \in T : \A y \in T : x <= y
  <2>1. T \in SUBSET Nat /\ T # {}
    OBVIOUS
  <2> QED
    BY <2>1, LeastElement
<1>2. x \in S /\ x >= i /\ \A g \in S : g >= i => x <= g
  BY <1>1
<1>3. NextFree(S, i) = CHOOSE y \in S : y >= i /\ \A g \in S : g >= i => y <= g
  BY DEF NextFree
<1> QED
  BY <1>2, <1>3

(* Of the free positions, it yields one from i on, or Size when there is   *)
(* none.                                                                   *)
LEMMA NextFreeType ==
  ASSUME NEW free \in SUBSET Positions, NEW i \in Nat
  PROVE  /\ NextFree(free, i) \in 0 .. Size
         /\ \/ NextFree(free, i) \in free /\ NextFree(free, i) >= i
            \/ NextFree(free, i) = Size /\ \A f \in free : ~ (f >= i)
<1>1. CASE \E f \in free : f >= i
  <2>1. PICK f \in free : f >= i
    BY <1>1
  <2>2. free \in SUBSET Nat
    BY BitmapAssumption DEF Positions
  <2>3. NextFree(free, i) \in free /\ NextFree(free, i) >= i
    BY <2>1, <2>2, NextFreeIsFirst
  <2>4. free \subseteq 0 .. Size
    BY BitmapAssumption DEF Positions
  <2> QED
    BY <2>3, <2>4, Zenon
<1>2. CASE \A f \in free : ~ (f >= i)
  BY <1>2, BitmapAssumption DEF NextFree
<1> QED
  BY <1>1, <1>2

(* A run of free positions ends at a position that is not free, or at the  *)
(* end of the bitmap.                                                      *)
LEMMA RunEndIsGap ==
  ASSUME NEW free \in SUBSET Positions, NEW s \in 0 .. Size
  PROVE  /\ RunEnd(free, s) \in s .. Size
         /\ RunEnd(free, s) \notin free
         /\ s .. RunEnd(free, s) - 1 \subseteq free
<1> DEFINE S == (0 .. Size) \ free
<1>1. S \in SUBSET Nat /\ Size \in S /\ Size >= s /\ s \in Nat
  BY BitmapAssumption DEF Positions
<1>2. /\ RunEnd(free, s) \in S
      /\ RunEnd(free, s) >= s
      /\ \A g \in S : g >= s => RunEnd(free, s) <= g
  <2> HIDE DEF S
  <2>1. /\ NextFree(S, s) \in S
        /\ NextFree(S, s) >= s
        /\ \A g \in S : g >= s => NextFree(S, s) <= g
    BY <1>1, NextFreeIsFirst
  <2> QED
    BY <2>1 DEF RunEnd, S
<1>3. ASSUME NEW i \in s .. RunEnd(free, s) - 1
      PROVE  i \in free
  <2>1. RunEnd(free, s) \in 0 .. Size
    BY <1>2
  <2>2. i \in 0 .. Size /\ i >= s /\ ~ (RunEnd(free, s) <= i)
    BY <2>1, BitmapAssumption
  <2> QED
    BY <1>2, <2>2
<1> QED
  BY <1>2, <1>3, BitmapAssumption

(* The next round starts at a later position, or there is none.            *)
LEMMA NextRoundIsLater ==
  ASSUME NEW free \in SUBSET Positions, NEW c \in 0 .. Size
  PROVE  /\ NextRound(free, c) \in 0 .. Size
         /\ NextRound(free, c) \in free \/ NextRound(free, c) = Size
         /\ NextRound(free, c) = Size \/ NextRound(free, c) > c
<1> DEFINE e == RunEnd(free, c)
           n == NextFree(free, e)
<1>1. e \in c .. Size
  BY RunEndIsGap
<1>2. e \in Nat
  BY <1>1, BitmapAssumption
<1>3. n \in 0 .. Size /\ (n >= e \/ n = Size)
  <2> HIDE DEF e
  <2> QED
    BY <1>2, NextFreeType
<1>4. n + 1 \in Nat /\ n + 1 > c
  <2> HIDE DEF n, e
  <2> QED
    BY <1>1, <1>2, <1>3, BitmapAssumption
<1>5. NextRound(free, c) = NextFree(free, n + 1)
  BY DEF NextRound
<1> HIDE DEF n, e
<1> DEFINE m == n + 1
<1>6. /\ NextFree(free, m) \in 0 .. Size
      /\ \/ NextFree(free, m) \in free /\ NextFree(free, m) >= m
         \/ NextFree(free, m) = Size
  <2>1. m \in Nat
    BY <1>4
  <2> HIDE DEF m
  <2> QED
    BY <2>1, NextFreeType
<1> QED
  BY <1>4, <1>5, <1>6, <1>3

(* The rounds of findAt, as a function that satisfies the recursion.       *)
IsRounds(g, free, iStart, n) ==
  /\ g \in [0 .. n -> 0 .. Size]
  /\ g[0] = NextFree(free, iStart)
  /\ \A k \in 1 .. n : g[k] = NextRound(free, g[k - 1])

(* The recursion that defines the rounds has a solution of every length.   *)
LEMMA RoundsExist ==
  ASSUME NEW free \in SUBSET Positions, NEW iStart \in Nat
  PROVE  \A n \in Nat : \E g : IsRounds(g, free, iStart, n)
<1> DEFINE Bad == {n \in Nat : ~ \E g : IsRounds(g, free, iStart, n)}
<1> SUFFICES ASSUME Bad # {} PROVE FALSE
  OBVIOUS
<1>1. PICK n \in Bad : \A m \in Bad : n <= m
  <2>1. Bad \in SUBSET Nat
    OBVIOUS
  <2> HIDE DEF Bad
  <2> QED
    BY <2>1, LeastElement
<1>2. n \in Nat /\ ~ \E g : IsRounds(g, free, iStart, n)
  OBVIOUS
<1>3. NextFree(free, iStart) \in 0 .. Size
  BY NextFreeType
<1>4. CASE n = 0
  <2> DEFINE g == [k \in 0 .. 0 |-> NextFree(free, iStart)]
  <2>1. IsRounds(g, free, iStart, 0)
    BY <1>3 DEF IsRounds
  <2> QED
    BY <1>2, <1>4, <2>1
<1>5. CASE n # 0
  <2>1. n - 1 \in Nat /\ ~ (n <= n - 1)
    BY <1>2, <1>5
  <2>2. PICK h : IsRounds(h, free, iStart, n - 1)
    BY <1>1, <2>1
  <2>3. h[n - 1] \in 0 .. Size
    BY <2>1, <2>2 DEF IsRounds
  <2>4. NextRound(free, h[n - 1]) \in 0 .. Size
    BY <2>3, NextRoundIsLater
  <2> DEFINE g == [k \in 0 .. n |-> IF k = n THEN NextRound(free, h[n - 1]) ELSE h[k]]
  <2>5. g \in [0 .. n -> 0 .. Size]
    BY <1>2, <2>1, <2>2, <2>4 DEF IsRounds
  <2>6. g[0] = NextFree(free, iStart)
    BY <1>2, <1>5, <2>2 DEF IsRounds
  <2>7. ASSUME NEW k \in 1 .. n PROVE g[k] = NextRound(free, g[k - 1])
    <3>1. k - 1 \in 0 .. n - 1 /\ k - 1 # n /\ k \in 0 .. n
      BY <1>2
    <3>2. g[k - 1] = h[k - 1]
      BY <1>2, <3>1
    <3>3. CASE k = n
      BY <3>1, <3>2, <3>3
    <3>4. CASE k # n
      <4>1. k \in 1 .. n - 1 /\ g[k] = h[k]
        BY <1>2, <3>1, <3>4
      <4> QED
        BY <3>2, <4>1, <2>2 DEF IsRounds
    <3> QED
      BY <3>3, <3>4
  <2> QED
    BY <1>2, <2>5, <2>6, <2>7 DEF IsRounds
<1> QED
  BY <1>4, <1>5

(* So the positions the model computes are those rounds.                   *)
LEMMA CandidatesAreRounds ==
  ASSUME NEW free \in SUBSET Positions, NEW iStart \in Nat
  PROVE  IsRounds(Candidates(free, iStart), free, iStart, Size)
<1> DEFINE body(g) == [k \in 0 .. Size |->
                         IF k = 0 THEN NextFree(free, iStart) ELSE NextRound(free, g[k - 1])]
           cand == Candidates(free, iStart)
<1>1. PICK g : IsRounds(g, free, iStart, Size)
  BY RoundsExist, BitmapAssumption
<1>2. g = body(g)
  BY <1>1, BitmapAssumption DEF IsRounds
<1>3. cand = body(cand)
  BY <1>2 DEF Candidates
<1>4. cand[0] = NextFree(free, iStart)
  BY <1>3, BitmapAssumption
<1>5. \A k \in 1 .. Size : cand[k] = NextRound(free, cand[k - 1])
  BY <1>3, BitmapAssumption
<1>6. \A k \in 0 .. Size : cand[k] \in 0 .. Size
  <2> DEFINE Bad == {k \in 0 .. Size : cand[k] \notin 0 .. Size}
  <2> HIDE DEF cand
  <2> SUFFICES ASSUME Bad # {} PROVE FALSE
    OBVIOUS
  <2>1. PICK k \in Bad : \A m \in Bad : k <= m
    <3>1. Bad \in SUBSET Nat
      BY BitmapAssumption
    <3> HIDE DEF Bad
    <3> QED
      BY <3>1, LeastElement
  <2>2. k # 0
    BY <1>4, NextFreeType
  <2>3. k - 1 \in 0 .. Size /\ k \in 1 .. Size /\ ~ (k <= k - 1)
    BY <2>2, BitmapAssumption
  <2>4. cand[k - 1] \in 0 .. Size
    BY <2>1, <2>3
  <2> QED
    BY <1>5, <2>3, <2>4, NextRoundIsLater
<1>7. cand \in [0 .. Size -> 0 .. Size]
  BY <1>3, <1>6
<1> QED
  BY <1>4, <1>5, <1>7 DEF IsRounds

(* The rounds start at free positions in increasing order, from iStart on, *)
(* until none is left; after Size rounds none is.                          *)
LEMMA RoundsIncrease ==
  ASSUME NEW free \in SUBSET Positions, NEW iStart \in Nat,
         NEW g, IsRounds(g, free, iStart, Size)
  PROVE  /\ \A k \in 0 .. Size :
              /\ g[k] \in 0 .. Size
              /\ g[k] \in free \/ g[k] = Size
              /\ g[k] >= iStart \/ g[k] = Size
         /\ g[Size] = Size
<1>1. \A k \in 0 .. Size : g[k] \in 0 .. Size
  BY DEF IsRounds
<1>2. g[0] = NextFree(free, iStart)
  BY DEF IsRounds
<1>3. ASSUME NEW k \in 1 .. Size
      PROVE  /\ k - 1 \in 0 .. Size
             /\ g[k] \in free \/ g[k] = Size
             /\ g[k] = Size \/ g[k] > g[k - 1]
  <2>1. k - 1 \in 0 .. Size
    BY BitmapAssumption
  <2>2. g[k - 1] \in 0 .. Size
    BY <1>1, <2>1
  <2>3. g[k] = NextRound(free, g[k - 1])
    BY DEF IsRounds
  <2> QED
    BY <2>1, <2>2, <2>3, NextRoundIsLater
<1>4. \A k \in 0 .. Size : g[k] \in free \/ g[k] = Size
  <2>1. g[0] \in free \/ g[0] = Size
    BY <1>2, NextFreeType
  <2> QED
    BY <1>3, <2>1, BitmapAssumption
<1> DEFINE Later(k) == g[k] = Size \/ (g[k] >= iStart /\ g[k] >= k)
           Bad == {k \in 0 .. Size : ~ Later(k)}
<1>5. Bad = {}
  <2> SUFFICES ASSUME Bad # {} PROVE FALSE
    OBVIOUS
  <2>1. PICK k \in Bad : \A m \in Bad : k <= m
    <3>1. Bad \in SUBSET Nat
      BY BitmapAssumption
    <3> HIDE DEF Bad
    <3> QED
      BY <3>1, LeastElement
  <2>2. Later(0)
    <3>1. g[0] = Size \/ g[0] >= iStart
      BY <1>2, NextFreeType
    <3>2. 0 \in 0 .. Size
      BY BitmapAssumption
    <3>3. g[0] >= 0
      BY <1>1, <3>2
    <3> QED
      BY <3>1, <3>3
  <2>3. k \in 1 .. Size /\ k - 1 \in 0 .. Size /\ ~ (k <= k - 1)
    BY <2>2, BitmapAssumption
  <2>4. Later(k - 1)
    BY <2>1, <2>3
  <2>5. g[k] \in 0 .. Size /\ g[k - 1] \in 0 .. Size
    BY <1>1, <2>3
  <2>6. g[k] = Size \/ g[k] > g[k - 1]
    BY <1>3, <2>3
  <2>7. Later(k)
    <3> DEFINE a == g[k]
               b == g[k - 1]
    <3>1. a = Size \/ a > b
      BY <2>6
    <3>2. b = Size \/ (b >= iStart /\ b >= k - 1)
      BY <2>4
    <3>3. a \in 0 .. Size /\ b \in 0 .. Size
      BY <2>5
    <3> HIDE DEF a, b
    <3>4. a = Size \/ (a >= iStart /\ a >= k)
      BY <2>3, <3>1, <3>2, <3>3, BitmapAssumption
    <3> QED
      BY <3>4 DEF a
  <2> QED
    BY <2>1, <2>7
<1>6. \A k \in 0 .. Size : Later(k)
  BY <1>5
<1>7. g[Size] = Size
  <2>1. Size \in 0 .. Size
    BY BitmapAssumption
  <2> QED
    BY <1>1, <1>6, <2>1
<1> QED
  BY <1>1, <1>4, <1>6, <1>7

(* findAt fails only when no round fits, and otherwise returns the start   *)
(* of the first one that does: a position from iStart on.                  *)
LEMMA FindAtFirst ==
  ASSUME NEW free \in SUBSET Positions, NEW iStart \in Nat,
         NEW count \in Nat \ {0},
         NEW k \in 0 .. Size, Fits(free, count, Candidates(free, iStart)[k])
  PROVE  /\ FindAt(free, count, iStart) \in free
         /\ FindAt(free, count, iStart) >= iStart
         /\ FindAt(free, count, iStart) # NoRange
<1> DEFINE cand == Candidates(free, iStart)
           Fit == {j \in 0 .. Size : Fits(free, count, cand[j])}
           FirstFit(j) == /\ Fits(free, count, cand[j])
                          /\ \A i \in 0 .. j - 1 : ~ Fits(free, count, cand[i])
<1>1. PICK j \in Fit : \A m \in Fit : j <= m
  <2>1. Fit \in SUBSET Nat /\ Fit # {}
    BY BitmapAssumption
  <2> HIDE DEF Fit
  <2> QED
    BY <2>1, LeastElement
<1>2. FirstFit(j)
  <2>1. Fits(free, count, cand[j]) /\ j \in 0 .. Size
    BY <1>1
  <2>2. ASSUME NEW i \in 0 .. j - 1 PROVE i \notin Fit /\ i \in 0 .. Size
    BY <1>1, <2>1, BitmapAssumption
  <2> QED
    BY <2>1, <2>2
<1> DEFINE w == CHOOSE n \in 0 .. Size : FirstFit(n)
<1>3. w \in 0 .. Size /\ FirstFit(w)
  BY <1>1, <1>2
<1>4. FindAt(free, count, iStart) = cand[w]
  BY <1>1, <1>2 DEF FindAt
<1> HIDE DEF w
<1>5. cand[w] \in free
  BY <1>3 DEF Fits
<1>6. IsRounds(cand, free, iStart, Size)
  BY CandidatesAreRounds
<1>7. cand[w] >= iStart \/ cand[w] = Size
  <2>1. w \in 0 .. Size
    BY <1>3
  <2> HIDE DEF cand
  <2>2. \A i \in 0 .. Size : cand[i] >= iStart \/ cand[i] = Size
    BY <1>6, RoundsIncrease
  <2> QED
    BY <2>1, <2>2
<1>8. free \subseteq Nat /\ Size \notin free
  BY BitmapAssumption DEF Positions
<1> QED
  BY <1>4, <1>5, <1>7, <1>8 DEF NoRange

(* A run of one position more than asked for is never missed: the search   *)
(* meets it at its start or, having read past a gap, one position later.   *)
LEMMA LongerRunIsFound ==
  ASSUME NEW free \in SUBSET Positions, NEW iStart \in Nat,
         NEW count \in Nat \ {0},
         NEW s \in Positions, s >= iStart, Fits(free, count + 1, s)
  PROVE  \E k \in 0 .. Size : Fits(free, count, Candidates(free, iStart)[k])
<1> DEFINE cand == Candidates(free, iStart)
<1>1. IsRounds(cand, free, iStart, Size)
  BY CandidatesAreRounds
<1> HIDE DEF cand
<1>2. /\ \A k \in 0 .. Size :
           /\ cand[k] \in 0 .. Size
           /\ cand[k] \in free \/ cand[k] = Size
      /\ cand[Size] = Size
  BY <1>1, RoundsIncrease
<1>3. s \in Nat /\ s < Size /\ s \in free /\ \A i \in s .. s + count : i \in free
  BY BitmapAssumption DEF Positions, Fits
<1>4. cand[0] <= s
  <2>1. free \in SUBSET Nat
    BY BitmapAssumption DEF Positions
  <2>2. NextFree(free, iStart) <= s
    BY <1>3, <2>1, NextFreeIsFirst
  <2> QED
    BY <1>1, <2>2 DEF IsRounds
<1> DEFINE Past == {k \in 0 .. Size : cand[k] > s}
<1>5. PICK k \in Past : \A m \in Past : k <= m
  <2>1. Past \in SUBSET Nat /\ Size \in Past
    BY <1>2, <1>3, BitmapAssumption
  <2> HIDE DEF Past
  <2> QED
    BY <2>1, LeastElement
<1>6. k \in 0 .. Size /\ cand[k] > s /\ k # 0
  BY <1>3, <1>4, <1>5, <1>2, BitmapAssumption
<1>7. k - 1 \in 0 .. Size /\ k \in 1 .. Size /\ k - 1 \notin Past
  BY <1>5, <1>6, BitmapAssumption
<1> DEFINE c == cand[k - 1]
           e == RunEnd(free, c)
           n == NextFree(free, e)
<1>8. c \in free /\ c \in 0 .. Size /\ c <= s
  BY <1>2, <1>3, <1>7
<1>9. cand[k] = NextRound(free, c)
  BY <1>1, <1>7 DEF IsRounds
<1>10. /\ e \in c .. Size /\ e \notin free
       /\ c .. e - 1 \subseteq free
  <2> HIDE DEF c
  <2> QED
    BY <1>8, RunEndIsGap
<1>11. CASE e > s
  <2>1. \A i \in c .. c + count - 1 : i \in free
    <3> HIDE DEF c, e
    <3> SUFFICES ASSUME NEW i \in c .. c + count - 1 PROVE i \in free
      OBVIOUS
    <3>1. i \in c .. e - 1 \/ i \in s .. s + count
      BY <1>3, <1>8, <1>10, <1>11, BitmapAssumption
    <3> QED
      BY <1>3, <1>10, <3>1
  <2>2. Fits(free, count, c)
    BY <1>8, <2>1 DEF Fits
  <2> QED
    BY <1>7, <2>2 DEF cand
<1>12. CASE ~ (e > s)
  <2>1. e \in Nat /\ s >= e
    <3> HIDE DEF e
    <3> QED
      BY <1>8, <1>10, <1>12, <1>3, BitmapAssumption
  <2>2. free \in SUBSET Nat
    BY BitmapAssumption DEF Positions
  <2>3. n \in free /\ n <= s
    <3> HIDE DEF e
    <3> QED
      BY <1>3, <2>1, <2>2, NextFreeIsFirst
  <2> HIDE DEF n
  <2>4. n + 1 \in Nat /\ n + 1 > n
    BY <2>2, <2>3
  <2> DEFINE m == n + 1
  <2>5. cand[k] = NextFree(free, m)
    BY <1>9 DEF NextRound, n
  <2>6. n = s
    <3> SUFFICES ASSUME n # s PROVE FALSE
      OBVIOUS
    <3>1. m \in Nat /\ s >= m
      BY <1>3, <2>2, <2>3
    <3>2. NextFree(free, m) <= s
      <4> HIDE DEF m
      <4> QED
        BY <1>3, <2>2, <3>1, NextFreeIsFirst
    <3> QED
      BY <1>2, <1>3, <1>6, <2>5, <3>2
  <2>7. s + 1 \in free /\ m = s + 1 /\ m \in Nat
    BY <1>3, <2>6
  <2>8. NextFree(free, m) = m
    <3>1. m \in free /\ m >= m
      BY <2>7
    <3> HIDE DEF m
    <3> DEFINE x == NextFree(free, m)
    <3>2. x \in free /\ x >= m /\ x <= m
      BY <2>2, <2>7, <3>1, NextFreeIsFirst
    <3> HIDE DEF x
    <3>3. x = m
      BY <2>2, <2>7, <3>2
    <3> QED
      BY <3>3 DEF x
  <2>9. cand[k] = s + 1
    BY <2>5, <2>7, <2>8
  <2>10. Fits(free, count, s + 1)
    BY <1>3, <2>7 DEF Fits
  <2> QED
    BY <1>6, <2>9, <2>10 DEF cand
<1> QED
  BY <1>11, <1>12

(* findAt fails only when no run of one position more than asked for is    *)
(* free from iStart on, and for a single position only when none is free.  *)
LEMMA FindAtMisses ==
  ASSUME NEW free \in SUBSET Positions, NEW iStart \in Nat,
         NEW count \in Nat \ {0},
         NEW s \in Positions, s >= iStart,
         Fits(free, IF count = 1 THEN 1 ELSE count + 1, s)
  PROVE  /\ FindAt(free, count, iStart) >= iStart
         /\ FindAt(free, count, iStart) # NoRange
<1>1. CASE count = 1
  <2> DEFINE first == Candidates(free, iStart)[0]
  <2>1. first = NextFree(free, iStart)
    BY CandidatesAreRounds DEF IsRounds
  <2>2. s \in free
    BY <1>1 DEF Fits
  <2>3. first \in free
    BY <2>1, <2>2, NextFreeType
  <2> HIDE DEF first
  <2>4. first \in Nat
    BY <2>3, BitmapAssumption DEF Positions
  <2>5. Fits(free, 1, first)
    BY <2>3, <2>4 DEF Fits
  <2>6. 0 \in 0 .. Size
    BY BitmapAssumption
  <2> QED
    BY <1>1, <2>5, <2>6, FindAtFirst DEF first
<1>2. CASE count # 1
  <2>1. PICK k \in 0 .. Size : Fits(free, count, Candidates(free, iStart)[k])
    BY <1>2, LongerRunIsFound
  <2> QED
    BY <2>1, FindAtFirst
<1> QED
  BY <1>1, <1>2
=============================================================================
