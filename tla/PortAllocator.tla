--------------------------- MODULE PortAllocator ----------------------------
(***************************************************************************)
(* The port bitmap as a component: AllocateRange and ReleaseRange called   *)
(* in any order by callers that give back exactly the ranges they were     *)
(* given (what releaseProcessPorts does with a process's PortStart and     *)
(* PortEnd).  Each call holds the bitmap's mutex to its end, so each is    *)
(* one step.                                                               *)
(***************************************************************************)
EXTENDS Bitmap

CONSTANTS
  MaxCount  \* the largest number of ports one call asks for

ASSUME MaxCountAssumption == MaxCount \in Nat \ {0}

VARIABLES
  data,   \* the free positions
  start,  \* the cursor: one past the last range handed out
  held,   \* the ranges <<first, last>> of ports the callers have
  refused \* the count the last call was refused, 0 if it was served

vars == <<data, start, held, refused>>

Init == /\ data = Positions
        /\ start = 0
        /\ held = {}
        /\ refused = 0

(* AllocateRange(count): a range starting at the position searched for, or *)
(* an error that changes nothing.                                          *)
AllocateRange(count) ==
  LET rStart == Search(data, start, count)
      rEnd   == rStart + count - 1
  IN  \/ /\ rStart # NoRange
         /\ data' = RemoveRange(data, rStart, rEnd)
         /\ start' = rEnd + 1
         /\ held' = held \cup {<<Base + rStart, Base + rEnd>>}
         /\ refused' = 0
      \/ /\ rStart = NoRange
         /\ refused' = count
         /\ UNCHANGED <<data, start, held>>

Release(r) ==
  /\ data' = ReleaseRange(data, r[1], r[2])
  /\ held' = held \ {r}
  /\ refused' = 0
  /\ UNCHANGED start

Next == \/ \E count \in 1 .. MaxCount : AllocateRange(count)
        \/ \E r \in held : Release(r)

Spec == Init /\ [][Next]_vars
-----------------------------------------------------------------------------
FreePorts == PortNumbers(data)

(* The bitmap holds positions of the range and its cursor never leaves it; *)
(* callers hold ranges of the manager's ports.                             *)
TypeOK == /\ data \subseteq Positions
          /\ start \in 0 .. Size
          /\ held \subseteq AllPorts \X AllPorts
          /\ refused \in 0 .. MaxCount

(* The search of findAt loses at most the element it reads past a gap, so  *)
(* a request is refused only when no run of one port more than it asked    *)
(* for is free.                                                            *)
RefusedOnlyWithoutLongerRun ==
  refused # 0 => \A s \in Positions : ~ Fits(data, refused + 1, s)

(* "Avoid quick reuse after free": ports below the cursor are handed out   *)
(* only when the search above the cursor finds no run, so a single port is *)
(* reused only when every port from the cursor up is taken, and a longer   *)
(* range only when no run of one port more is free from the cursor up.     *)
NoQuickReuse ==
  [][\A r \in held' \ held :
       LET count == r[2] - r[1] + 1
           run   == IF count = 1 THEN 1 ELSE count + 1
       IN  r[1] - Base < start =>
             \A s \in Positions : s >= start => ~ Fits(data, run, s)]_vars

(* What bitmap.go says of an allocation: after looking from the cursor it  *)
(* looks "again from the bottom", and only "cannot find an empty port      *)
(* range" when there is none.  A free run of the length asked for is       *)
(* always found.                                                           *)
RefusedOnlyWithoutRun ==
  refused # 0 => \A s \in Positions : ~ Fits(data, refused, s)

(* The bitmap implements the abstract port pool: a range handed out was    *)
(* free, and a refused call changes nothing.                               *)
Pool == INSTANCE PortPool WITH Ports <- AllPorts, free <- FreePorts, held <- held

ImplementsPortPool == Pool!Spec
=============================================================================
