------------------------ MODULE PortAllocator_proofs ------------------------
(***************************************************************************)
(* Proofs about the port bitmap as a component, for every Base, Size and   *)
(* MaxCount: its type invariant, that no port is lost or handed out twice, *)
(* what its search may miss, and that it implements the abstract pool.     *)
(***************************************************************************)
EXTENDS PortAllocator, Bitmap_proofs

(* The ports of a range handed out.                                        *)
PortRange(r) == r[1] .. r[2]

(* No port is lost and none is had twice, whatever the order of calls: two *)
(* ranges handed out never overlap, no port handed out is still free, and  *)
(* every other port is free (AllocateRange / ReleaseRange).                *)
Conservation ==
  /\ \A r \in held : PortRange(r) \cap FreePorts = {}
  /\ \A r, q \in held : PortRange(r) \cap PortRange(q) # {} => r = q
  /\ \A port \in AllPorts :
       port \in FreePorts \/ \E r \in held : port \in PortRange(r)

(* Conservation with the types it needs, and no range handed out is empty. *)
IInv == /\ TypeOK
        /\ Conservation
        /\ \A r \in held : r[1] <= r[2]

(* A successful AllocateRange, in port numbers.                            *)
LEMMA AllocateStep ==
  ASSUME IInv, NEW count \in 1 .. MaxCount, AllocateRange(count),
         Search(data, start, count) # NoRange
  PROVE  \E a, b \in AllPorts :
           /\ a <= b
           /\ a .. b \subseteq FreePorts
           /\ held' = held \cup {<<a, b>>}
           /\ FreePorts' = FreePorts \ (a .. b)
           /\ data' \subseteq Positions
           /\ start' \in 0 .. Size
           /\ refused' = 0
<1> DEFINE s == Search(data, start, count)
           e == s + count - 1
<1>1. count \in Nat \ {0} /\ data \in SUBSET Positions
  BY MaxCountAssumption DEF IInv, TypeOK
<1>2. /\ data' = RemoveRange(data, s, e)
      /\ start' = e + 1
      /\ held' = held \cup {<<Base + s, Base + e>>}
      /\ refused' = 0
  BY DEF AllocateRange
<1>3. /\ s \in Positions /\ e \in Positions /\ s <= e
      /\ Base + s \in AllPorts /\ Base + e \in AllPorts
      /\ RemoveRange(data, s, e) \subseteq Positions
      /\ Base + s .. Base + e \subseteq PortNumbers(data)
      /\ PortNumbers(RemoveRange(data, s, e))
           = PortNumbers(data) \ (Base + s .. Base + e)
  <2> HIDE DEF e, s
  <2>1. s = Search(data, start, count) /\ e = s + count - 1
    BY DEF s, e
  <2> QED
    BY <1>1, <2>1, AllocateEffect
<1> HIDE DEF s, e
<1>4. start' \in 0 .. Size
  BY <1>2, <1>3, BitmapAssumption DEF Positions
<1>5. Base + s <= Base + e
  BY <1>3, BitmapAssumption DEF Positions
<1> QED
  BY <1>2, <1>3, <1>4, <1>5 DEF FreePorts

(* A Release, in port numbers.                                             *)
LEMMA ReleaseStep ==
  ASSUME IInv, NEW r \in held, Release(r)
  PROVE  /\ held' = held \ {r}
         /\ FreePorts' = FreePorts \cup PortRange(r)
         /\ data' \subseteq Positions
         /\ start' = start
         /\ refused' = 0
<1>1. r[1] \in AllPorts /\ r[2] \in AllPorts /\ r[1] <= r[2]
  BY DEF IInv, TypeOK
<1>2. data \in SUBSET Positions
  BY DEF IInv, TypeOK
<1>3. /\ ReleaseRange(data, r[1], r[2]) \subseteq Positions
      /\ PortNumbers(ReleaseRange(data, r[1], r[2]))
           = PortNumbers(data) \cup (r[1] .. r[2])
  BY <1>1, <1>2, ReleaseEffect
<1> QED
  BY <1>3 DEF Release, FreePorts, PortRange

(* The inductive invariant holds at first.                                 *)
LEMMA InitIInv == Init => IInv
<1> SUFFICES ASSUME Init PROVE IInv
  OBVIOUS
<1>1. TypeOK
  BY BitmapAssumption, MaxCountAssumption DEF Init, TypeOK
<1>2. FreePorts = AllPorts /\ held = {}
  BY InitialPorts DEF Init, FreePorts
<1> QED
  BY <1>1, <1>2 DEF IInv, Conservation

(* Every call preserves it.                                                *)
LEMMA NextIInv == IInv /\ [Next]_vars => IInv'
<1> SUFFICES ASSUME IInv, [Next]_vars PROVE IInv'
  OBVIOUS
<1>1. ASSUME NEW count \in 1 .. MaxCount, AllocateRange(count)
      PROVE  IInv'
  <2>1. CASE Search(data, start, count) # NoRange
    <3>1. PICK a \in AllPorts, b \in AllPorts :
             /\ a <= b
             /\ a .. b \subseteq FreePorts
             /\ held' = held \cup {<<a, b>>}
             /\ FreePorts' = FreePorts \ (a .. b)
             /\ data' \subseteq Positions
             /\ start' \in 0 .. Size
             /\ refused' = 0
      BY <1>1, <2>1, AllocateStep
    <3>2. TypeOK'
      BY <3>1, MaxCountAssumption DEF IInv, TypeOK
    <3>3. PortRange(<<a, b>>) = a .. b
      BY DEF PortRange
    <3>4. \A r \in held' : PortRange(r) \cap FreePorts' = {}
      BY <3>1, <3>3 DEF IInv, Conservation
    <3>5. \A r, q \in held' : PortRange(r) \cap PortRange(q) # {} => r = q
      BY <3>1, <3>3 DEF IInv, Conservation
    <3>6. \A port \in AllPorts :
            port \in FreePorts' \/ \E r \in held' : port \in PortRange(r)
      BY <3>1, <3>3 DEF IInv, Conservation
    <3>7. \A r \in held' : r[1] <= r[2]
      BY <3>1 DEF IInv
    <3> QED
      BY <3>2, <3>4, <3>5, <3>6, <3>7 DEF IInv, Conservation, PortRange
  <2>2. CASE Search(data, start, count) = NoRange
    <3>1. UNCHANGED <<data, start, held>> /\ refused' = count
      BY <1>1, <2>2 DEF AllocateRange
    <3>2. TypeOK'
      BY <3>1, MaxCountAssumption DEF IInv, TypeOK
    <3> QED
      BY <3>1, <3>2 DEF IInv, Conservation, FreePorts, PortRange
  <2> QED
    BY <2>1, <2>2
<1>2. ASSUME NEW r \in held, Release(r)
      PROVE  IInv'
  <2>1. /\ held' = held \ {r}
        /\ FreePorts' = FreePorts \cup PortRange(r)
        /\ data' \subseteq Positions
        /\ start' = start
        /\ refused' = 0
    BY <1>2, ReleaseStep
  <2>2. TypeOK'
    BY <2>1, MaxCountAssumption DEF IInv, TypeOK
  <2>3. \A q \in held' : PortRange(q) \cap FreePorts' = {}
    BY <2>1, <1>2 DEF IInv, Conservation
  <2>4. \A port \in AllPorts :
          port \in FreePorts' \/ \E q \in held' : port \in PortRange(q)
    BY <2>1, <1>2 DEF IInv, Conservation
  <2> QED
    BY <2>1, <2>2, <2>3, <2>4 DEF IInv, Conservation, PortRange
<1>3. CASE UNCHANGED vars
  BY <1>3 DEF vars, IInv, TypeOK, Conservation, FreePorts, PortRange
<1> QED
  BY <1>1, <1>2, <1>3 DEF Next

(* The inductive invariant holds in every state of the component.          *)
THEOREM PortAllocatorInvariant == Spec => []IInv
BY InitIInv, NextIInv, PTL DEF Spec

(* The bitmap and its cursor stay in the range, whatever the calls.        *)
THEOREM TypeCorrect == Spec => []TypeOK
BY PortAllocatorInvariant, PTL DEF IInv

(* No sequence of AllocateRange and ReleaseRange calls loses a port or     *)
(* hands one out twice.                                                    *)
THEOREM PortsConserved == Spec => []Conservation
BY PortAllocatorInvariant, PTL DEF IInv

(* A call is refused only when no run of one port more than it asked for   *)
(* is free: what the skipped element of findAt can cost, and no more.      *)
THEOREM RefusalBounded == Spec => []RefusedOnlyWithoutLongerRun
<1>1. Init => RefusedOnlyWithoutLongerRun
  BY DEF Init, RefusedOnlyWithoutLongerRun
<1>2. ASSUME IInv, RefusedOnlyWithoutLongerRun, [Next]_vars
      PROVE  RefusedOnlyWithoutLongerRun'
  <2>1. ASSUME NEW count \in 1 .. MaxCount, AllocateRange(count)
        PROVE  RefusedOnlyWithoutLongerRun'
    <3>1. CASE Search(data, start, count) # NoRange
      BY <2>1, <3>1 DEF AllocateRange, RefusedOnlyWithoutLongerRun
    <3>2. CASE Search(data, start, count) = NoRange
      <4>1. data' = data /\ refused' = count
        BY <2>1, <3>2 DEF AllocateRange
      <4>2. FindAt(data, count, 0) = NoRange
        BY <3>2 DEF Search
      <4>3. count \in Nat \ {0} /\ data \in SUBSET Positions
        BY <1>2, MaxCountAssumption DEF IInv, TypeOK
      <4>4. ASSUME NEW s \in Positions, Fits(data, count + 1, s) PROVE FALSE
        <5>1. s >= 0 /\ s \in Nat
          BY BitmapAssumption DEF Positions
        <5>2. PICK k \in 0 .. Size : Fits(data, count, Candidates(data, 0)[k])
          BY <4>3, <4>4, <5>1, LongerRunIsFound
        <5> QED
          BY <4>2, <4>3, <5>2, FindAtFirst
      <4> QED
        BY <4>1, <4>4 DEF RefusedOnlyWithoutLongerRun
    <3> QED
      BY <3>1, <3>2
  <2>2. ASSUME NEW r \in held, Release(r)
        PROVE  RefusedOnlyWithoutLongerRun'
    BY <2>2 DEF Release, RefusedOnlyWithoutLongerRun
  <2>3. CASE UNCHANGED vars
    BY <1>2, <2>3 DEF vars, RefusedOnlyWithoutLongerRun
  <2> QED
    BY <1>2, <2>1, <2>2, <2>3 DEF Next
<1> QED
  BY <1>1, <1>2, PortAllocatorInvariant, PTL DEF Spec

(* Ports below the cursor are handed out again only when the search above  *)
(* the cursor could find none.                                             *)
THEOREM QuickReuseAvoided == Spec => NoQuickReuse
<1> DEFINE Reused(r) == r[1] - Base < start
           Run(r) == IF r[2] - r[1] + 1 = 1 THEN 1 ELSE r[2] - r[1] + 1 + 1
           Exhausted(r) == \A s \in Positions : s >= start => ~ Fits(data, Run(r), s)
           Step == \A r \in held' \ held : Reused(r) => Exhausted(r)
<1>1. ASSUME IInv, [Next]_vars PROVE [Step]_vars
  <2>1. ASSUME NEW count \in 1 .. MaxCount, AllocateRange(count),
               NEW r \in held' \ held, Reused(r)
        PROVE  Exhausted(r)
    <3> DEFINE p == Search(data, start, count)
               e == p + count - 1
    <3>1. /\ count \in Nat \ {0} /\ data \in SUBSET Positions
          /\ start \in Nat
      BY <1>1, MaxCountAssumption, BitmapAssumption DEF IInv, TypeOK
    <3>2. r = <<Base + p, Base + e>> /\ p # NoRange
      BY <2>1 DEF AllocateRange
    <3>3. p \in Positions /\ e \in Positions
      <4>1. p = Search(data, start, count) /\ e = p + count - 1
        OBVIOUS
      <4> HIDE DEF e, p
      <4> QED
        BY <3>1, <3>2, <4>1, AllocateEffect
    <3>4. e = p + count - 1
      OBVIOUS
    <3>5. ASSUME p >= start PROVE FALSE
      <4> HIDE DEF p, e
      <4>1. r[1] = Base + p
        BY <3>2
      <4> QED
        BY <2>1, <3>1, <3>3, <3>5, <4>1, BitmapAssumption DEF Positions
    <3>6. Run(r) = IF count = 1 THEN 1 ELSE count + 1
      <4> HIDE DEF p, e
      <4>1. r[1] = Base + p /\ r[2] = Base + e
        BY <3>2
      <4> QED
        BY <3>1, <3>3, <3>4, <4>1, BitmapAssumption DEF Positions
    <3> SUFFICES ASSUME NEW s \in Positions, s >= start, Fits(data, Run(r), s)
                 PROVE  FALSE
      OBVIOUS
    <3>7. Fits(data, IF count = 1 THEN 1 ELSE count + 1, s)
      BY <3>6
    <3>8. /\ FindAt(data, count, start) >= start
          /\ FindAt(data, count, start) # NoRange
      BY <3>1, <3>7, FindAtMisses
    <3>9. p >= start
      BY <3>8 DEF Search
    <3> QED
      BY <3>5, <3>9
  <2>2. ASSUME NEW r \in held, Release(r) PROVE Step
    BY <2>2 DEF Release
  <2>3. CASE UNCHANGED vars
    BY <2>3
  <2> QED
    BY <1>1, <2>1, <2>2, <2>3 DEF Next
<1>2. Step <=> \A r \in held' \ held :
                 LET count == r[2] - r[1] + 1
                     run   == IF count = 1 THEN 1 ELSE count + 1
                 IN  r[1] - Base < start =>
                       \A s \in Positions : s >= start => ~ Fits(data, run, s)
  OBVIOUS
<1> HIDE DEF Step
<1> QED
  BY <1>1, <1>2, PortAllocatorInvariant, PTL DEF Spec, NoQuickReuse

(* Every call of the bitmap is a step of the abstract pool, or none.       *)
LEMMA StepSimulation == IInv /\ [Next]_vars => [Pool!Next]_(Pool!vars)
<1> SUFFICES ASSUME IInv, [Next]_vars PROVE [Pool!Next]_(Pool!vars)
  OBVIOUS
<1>1. ASSUME NEW count \in 1 .. MaxCount, AllocateRange(count)
      PROVE  [Pool!Next]_(Pool!vars)
  <2>1. CASE Search(data, start, count) # NoRange
    <3>1. \E a, b \in AllPorts :
             /\ a <= b
             /\ a .. b \subseteq FreePorts
             /\ FreePorts' = FreePorts \ (a .. b)
             /\ held' = held \cup {<<a, b>>}
      BY <1>1, <2>1, AllocateStep
    <3> QED
      BY <3>1 DEF Pool!Next, Pool!Take
  <2>2. CASE Search(data, start, count) = NoRange
    BY <1>1, <2>2 DEF AllocateRange, Pool!vars, FreePorts
  <2> QED
    BY <2>1, <2>2
<1>2. ASSUME NEW r \in held, Release(r)
      PROVE  [Pool!Next]_(Pool!vars)
  <2>1. /\ FreePorts' = FreePorts \cup PortRange(r)
        /\ held' = held \ {r}
    BY <1>2, ReleaseStep
  <2> QED
    BY <2>1, <1>2 DEF Pool!Next, Pool!Give, Pool!Range, PortRange
<1>3. CASE UNCHANGED vars
  BY <1>3 DEF vars, Pool!vars, FreePorts
<1> QED
  BY <1>1, <1>2, <1>3 DEF Next

(* The bitmap implements the abstract port pool.                           *)
THEOREM Implementation == Spec => ImplementsPortPool
<1>1. Init => Pool!Init
  BY InitialPorts DEF Init, Pool!Init, FreePorts
<1>2. ASSUME IInv, [Next]_vars PROVE [Pool!Next]_(Pool!vars)
  BY <1>2, StepSimulation
<1> QED
  BY <1>1, <1>2, PortAllocatorInvariant, PTL DEF Spec, ImplementsPortPool, Pool!Spec
=============================================================================
