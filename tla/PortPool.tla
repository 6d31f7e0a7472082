------------------------------ MODULE PortPool ------------------------------
(***************************************************************************)
(* What the process manager expects of its port bitmap, and no more: a     *)
(* pool of ports.  A range handed out consists of free ports and is nobody *)
(* else's until it is given back.                                          *)
(***************************************************************************)
EXTENDS Integers

CONSTANTS
  Ports  \* the ports of the pool, an interval

VARIABLES
  free,  \* the ports nobody has
  held   \* the ranges <<first, last>> handed out and not given back

vars == <<free, held>>

Range(r) == r[1] .. r[2]

Init == /\ free = Ports
        /\ held = {}

(* Hand out some range of free ports.                                      *)
Take == \E first, last \in Ports :
          /\ first <= last
          /\ first .. last \subseteq free
          /\ free' = free \ (first .. last)
          /\ held' = held \cup {<<first, last>>}

Give == \E r \in held :
          /\ free' = free \cup Range(r)
          /\ held' = held \ {r}

Next == Take \/ Give

Spec == Init /\ [][Next]_vars
=============================================================================
