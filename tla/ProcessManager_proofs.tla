----------------------- MODULE ProcessManager_proofs ------------------------
(***************************************************************************)
(* Proofs about the process manager, for any number of calls, names and    *)
(* ports, and then about the daemon around it.  Nothing in the first part  *)
(* uses the constants, the variables or the assumption of the daemon.      *)
(***************************************************************************)
EXTENDS Daemon, Bitmap_proofs

(* The registry has a process only under its own name, and only one whose  *)
(* call has published it; a call that has not begun holds no ports, and    *)
(* any other either none or a range of the manager's.                      *)
Bookkeeping ==
  /\ \A n \in Names : processes[n] # NoProc =>
       Name(processes[n]) = n /\ Published(processes[n])
  /\ \A p \in Procs : main[p] = "idle" => ports[p] = <<0, 0>>
  /\ \A p \in Procs : ports[p] # <<0, 0>> =>
       /\ ports[p][1] \in AllPorts
       /\ ports[p][2] \in AllPorts
       /\ ports[p][1] <= ports[p][2]

(* The process has run and ended, or its call ended without starting it.   *)
Dead(p) == \/ cmd[p] = "exited"
           \/ cmd[p] = "nil" /\ main[p] \notin {"idle", "start"}

(* It has its deletion timestamp, or needs no stop.                        *)
Ended(p) == deletion[p] \/ Dead(p)

(* The command of a process and the goroutine that runs it.                *)
Commands ==
  /\ \A p \in Procs : main[p] \in {"idle", "start"} => cmd[p] = "nil" /\ run[p] = "idle"
  /\ \A p \in Procs : run[p] = "start" => cmd[p] = "created"
  /\ \A p \in Procs : run[p] = "setStopped" => cmd[p] = "exited"

(* A process whose state says so has ended or has a deletion timestamp.    *)
StatesTrue ==
  \A p \in Procs : state[p] \in {"stopping", "stopped"} => Ended(p)

(* So has a process on which a StopWithSignal call was made.               *)
StopsTrue ==
  /\ \A s \in StopCalls : stop[s] # "idle" => Stopped(s) \in Procs /\ Ended(Stopped(s))
  /\ \A d \in Deletes : del[d] = "idle" => stop[<<"delete", d>>] = "idle"
  /\ \A p \in Replaces : main[p] = "idle" => stop[<<"old", p>>] = "idle"

(* So has a process that is about to lose its ports, or has lost them.     *)
RemovalsTrue ==
  /\ \A d \in Deletes : del[d] = "commit" => Ended(target[d])
  /\ \A p \in Procs : Holder(p) \/ main[p] = "idle" \/ Ended(p)

Stopping == Commands /\ StatesTrue /\ StopsTrue /\ RemovalsTrue

IInv == TypeOK /\ Bookkeeping /\ PortAccounting /\ Stopping

(* allocateProcessPorts, in port numbers: none, or a range of free ports   *)
(* that are free no more.                                                  *)
LEMMA Allocation ==
  ASSUME Types, NEW p \in Procs, AllocateProcessPorts(p)
  PROVE  /\ data' \subseteq Positions
         /\ start' \in 0 .. Size
         /\ \/ ports' = ports /\ FreePorts' = FreePorts
            \/ \E a, b \in AllPorts :
                 /\ a <= b
                 /\ ports' = [ports EXCEPT ![p] = <<a, b>>]
                 /\ a .. b \subseteq FreePorts
                 /\ FreePorts' = FreePorts \ (a .. b)
<1> DEFINE count == req[p].portCount
           s == Search(data, start, count)
           e == s + count - 1
<1> HIDE DEF count, s, e
<1>1. s = Search(data, start, count) /\ e = s + count - 1
  BY DEF s, e
<1>2. count \in Nat /\ data \in SUBSET Positions
  BY ProcessManagerAssumption DEF Types, Request, count
<1>3. CASE count = 0
  BY <1>3 DEF AllocateProcessPorts, Types, FreePorts, count
<1>4. CASE count # 0
  <2>1. s # NoRange
    BY <1>4 DEF AllocateProcessPorts, count, s
  <2>2. /\ data' = RemoveRange(data, s, e)
        /\ start' = e + 1
        /\ ports' = [ports EXCEPT ![p] = <<Base + s, Base + e>>]
    BY <1>4 DEF AllocateProcessPorts, count, s, e
  <2>3. count \in Nat \ {0}
    BY <1>2, <1>4
  <2>4. /\ s \in Positions /\ e \in Positions /\ s <= e
        /\ Base + s \in AllPorts /\ Base + e \in AllPorts
        /\ RemoveRange(data, s, e) \subseteq Positions
        /\ Base + s .. Base + e \subseteq PortNumbers(data)
        /\ PortNumbers(RemoveRange(data, s, e))
             = PortNumbers(data) \ (Base + s .. Base + e)
    BY <1>1, <1>2, <2>1, <2>3, AllocateEffect
  <2>5. start' \in 0 .. Size /\ Base + s <= Base + e
    BY <2>2, <2>4, BitmapAssumption DEF Positions
  <2> QED
    BY <2>2, <2>4, <2>5 DEF FreePorts
<1> QED
  BY <1>3, <1>4

(* releaseProcessPorts, in port numbers.                                   *)
LEMMA Release ==
  ASSUME Types, Bookkeeping, NEW p \in Procs
  PROVE  /\ ReleaseProcessPorts(p) \subseteq Positions
         /\ PortNumbers(ReleaseProcessPorts(p)) = FreePorts \cup PortsOf(p)
<1>1. data \in SUBSET Positions
  BY DEF Types
<1>2. CASE ports[p] = <<0, 0>>
  BY <1>1, <1>2, ReleaseNothing DEF ReleaseProcessPorts, PortsOf, FreePorts
<1>3. CASE ports[p] # <<0, 0>>
  <2>1. /\ ports[p][1] \in AllPorts
        /\ ports[p][2] \in AllPorts
        /\ ports[p][1] <= ports[p][2]
    BY <1>3 DEF Bookkeeping
  <2>2. ports[p][1] # 0
    BY <2>1, BitmapAssumption DEF AllPorts
  <2> QED
    BY <1>1, <2>1, <2>2, ReleaseEffect DEF ReleaseProcessPorts, PortsOf, FreePorts
<1> QED
  BY <1>2, <1>3

(* Every step keeps the types.                                             *)
LEMMA TypesStep == TypeOK /\ Bookkeeping /\ [Next]_vars => Types'
<1> SUFFICES ASSUME Types, TargetsKnown, Bookkeeping, [Next]_vars PROVE Types'
  BY DEF TypeOK
<1> USE DEF Types, requests, manager, procVars, calls, threads
<1>0. \A p : Killed(p) \in [Procs -> {"nil", "created", "running", "killed", "exited"}]
  BY DEF Killed
<1>1. ASSUME NEW p \in Procs, Reject(p) PROVE Types'
  BY <1>1 DEF Reject, Goto
<1>2. ASSUME NEW p \in Procs, Start(p) PROVE Types'
  <2>1. main' \in [Procs -> {"idle", "start", "poll", "stopOld", "cleanup",
                              "sameBinary", "done", "failed"}]
    BY <1>2 DEF Start, Goto
  <2>2. /\ state' \in [Procs -> {"starting", "running", "stopping", "stopped"}]
        /\ cmd' \in [Procs -> {"nil", "created", "running", "killed", "exited"}]
    BY <1>2 DEF Start
  <2>3. run' \in [Procs -> {"idle", "start", "running", "setStopped", "done"}]
    BY <1>2 DEF Start
  <2>4. probe' \in [Procs -> {"idle", "wait", "setRunning", "stop", "done"}]
    BY <1>2 DEF Start
  <2> QED
    BY <1>2, <2>1, <2>2, <2>3, <2>4 DEF Start
<1>3. ASSUME NEW p \in Procs, RunStart(p) PROVE Types'
  BY <1>3 DEF RunStart
<1>4. ASSUME NEW p \in Procs, RunSetState(p) PROVE Types'
  BY <1>4 DEF RunSetState
<1>5. ASSUME NEW p \in Procs, ProbeGivesUp(p) PROVE Types'
  BY <1>5 DEF ProbeGivesUp
<1>6. ASSUME NEW p \in Procs, ProbeSetRunning(p) PROVE Types'
  BY <1>6 DEF ProbeSetRunning
<1>7. ASSUME NEW p \in Procs, RunExit(p) PROVE Types'
  BY <1>7 DEF RunExit
<1>8. ASSUME NEW p \in Procs, ProbeServing(p) PROVE Types'
  BY <1>8 DEF ProbeServing
<1>9. ASSUME NEW p \in Creates, RegisterProcess(p) PROVE Types'
  <2>1. p \in Procs
    BY DEF Procs
  <2>2. main' \in [Procs -> {"idle", "start", "poll", "stopOld", "cleanup",
                              "sameBinary", "done", "failed"}]
    BY <1>9, <2>1 DEF RegisterProcess, Goto
  <2>3. /\ processes' \in [Names -> Procs \cup {NoProc}]
        /\ old' \in [Replaces -> Procs \cup {NoProc}]
    <3>1. Name(p) \in Names
      BY <2>1 DEF Name, Request
    <3> QED
      BY <1>9, <2>1, <3>1 DEF RegisterProcess
  <2>4. CASE AllocateProcessPorts(p)
    <3>1. /\ data' \subseteq Positions
          /\ start' \in 0 .. Size
          /\ \/ ports' = ports
             \/ \E a, b \in AllPorts : ports' = [ports EXCEPT ![p] = <<a, b>>]
      BY <2>1, <2>4, Allocation
    <3>2. ports' \in [Procs -> ({0} \cup AllPorts) \X ({0} \cup AllPorts)]
      BY <3>1
    <3> QED
      BY <1>9, <2>2, <2>3, <3>1, <3>2 DEF RegisterProcess
  <2>5. CASE UNCHANGED manager
    BY <1>9, <2>2, <2>3, <2>5 DEF RegisterProcess
  <2> QED
    BY <1>9, <2>4, <2>5 DEF RegisterProcess
<1>10. ASSUME NEW p \in Replaces, InitProcessReplace(p) PROVE Types'
  <2>1. p \in Procs
    BY DEF Procs
  <2>2. main' \in [Procs -> {"idle", "start", "poll", "stopOld", "cleanup",
                              "sameBinary", "done", "failed"}]
    BY <1>10, <2>1 DEF InitProcessReplace, Goto
  <2>3. /\ processes' \in [Names -> Procs \cup {NoProc}]
        /\ old' \in [Replaces -> Procs \cup {NoProc}]
    <3>1. Name(p) \in Names
      BY <2>1 DEF Name, Request
    <3> QED
      BY <1>10, <3>1 DEF InitProcessReplace
  <2>4. CASE AllocateProcessPorts(p)
    <3>1. /\ data' \subseteq Positions
          /\ start' \in 0 .. Size
          /\ \/ ports' = ports
             \/ \E a, b \in AllPorts : ports' = [ports EXCEPT ![p] = <<a, b>>]
      BY <2>1, <2>4, Allocation
    <3>2. ports' \in [Procs -> ({0} \cup AllPorts) \X ({0} \cup AllPorts)]
      BY <3>1
    <3> QED
      BY <1>10, <2>2, <2>3, <3>1, <3>2 DEF InitProcessReplace
  <2>5. CASE UNCHANGED manager
    BY <1>10, <2>2, <2>3, <2>5 DEF InitProcessReplace
  <2> QED
    BY <1>10, <2>4, <2>5 DEF InitProcessReplace
<1>11. ASSUME NEW p \in Replaces, ReplacePoll(p) PROVE Types'
  BY <1>11 DEF ReplacePoll, Goto, Procs
<1>12. ASSUME NEW p \in Replaces, ReplaceCommit(p) PROVE Types'
  <2>1. \A q \in Procs : ReleaseProcessPorts(q) \subseteq Positions
    BY Release
  <2>2. p \in Procs /\ Name(p) \in Names
    BY DEF Procs, Name, Request
  <2>3. data' \subseteq Positions
    BY <1>12, <2>1, <2>2 DEF ReplaceCommit
  <2>4. main' \in [Procs -> {"idle", "start", "poll", "stopOld", "cleanup",
                              "sameBinary", "done", "failed"}]
    BY <1>12, <2>2 DEF ReplaceCommit, Goto
  <2>5. processes' \in [Names -> Procs \cup {NoProc}]
    BY <1>12, <2>2 DEF ReplaceCommit
  <2> QED
    BY <1>12, <2>3, <2>4, <2>5 DEF ReplaceCommit
<1>13. ASSUME NEW p \in Replaces, CleanupReplacementProcess(p) PROVE Types'
  <2>1. \A q \in Procs : ReleaseProcessPorts(q) \subseteq Positions
    BY Release
  <2>2. p \in Procs
    BY DEF Procs
  <2> QED
    BY <1>13, <2>1, <2>2 DEF CleanupReplacementProcess, Goto
<1>14. ASSUME NEW s \in StopCalls, StopDecide(s) PROVE Types'
  BY <1>14 DEF StopDecide
<1>15. ASSUME NEW s \in StopCalls, StopSpawn(s) PROVE Types'
  BY <1>15 DEF StopSpawn
<1>16. ASSUME NEW s \in StopCalls, StopRunning(s) PROVE Types'
  BY <1>16, <1>0 DEF StopRunning
<1>17. ASSUME NEW s \in StopCalls, StopNotRunning(s) PROVE Types'
  BY <1>17 DEF StopNotRunning
<1>18. ASSUME NEW s \in StopCalls, StopSetStopped(s) PROVE Types'
  BY <1>18 DEF StopSetStopped
<1>19. ASSUME NEW s \in StopCalls, StopWait(s) PROVE Types'
  BY <1>19, <1>0 DEF StopWait
<1>20. ASSUME NEW d \in Deletes, FindProcess(d) PROVE Types'
  BY <1>20 DEF FindProcess
<1>21. ASSUME NEW d \in Deletes, UnregisterProcess(d) PROVE Types'
  BY <1>21 DEF UnregisterProcess
<1>22. ASSUME NEW d \in Deletes, UnregisterWait(d) PROVE Types'
  BY <1>22 DEF UnregisterWait
<1>23. ASSUME NEW d \in Deletes, UnregisterCommit(d) PROVE Types'
  <2>1. \A q \in Procs : ReleaseProcessPorts(q) \subseteq Positions
    BY Release
  <2>2. target[d] \in Procs
    BY <1>23 DEF UnregisterCommit, TargetsKnown
  <2> QED
    BY <1>23, <2>1, <2>2 DEF UnregisterCommit
<1>24. CASE UNCHANGED vars
  BY <1>24 DEF vars
<1> QED
  BY <1>1, <1>2, <1>3, <1>4, <1>5, <1>6, <1>7, <1>8, <1>9, <1>10, <1>11, <1>12,
     <1>13, <1>14, <1>15, <1>16, <1>17, <1>18, <1>19, <1>20, <1>21, <1>22, <1>23, <1>24
     DEF Next, ProcStep, ReplaceStep, StopStep, DeleteStep

(***************************************************************************)
(* The steps that leave the registry, the ports and the calls of create    *)
(* and replace alone, as against those that do not.                        *)
(***************************************************************************)
Quiet == UNCHANGED <<req, delName, processes, data, start, ports, main, old>>

(* A step is quiet or is one of those named here.                          *)
LEMMA StepCases ==
  [Next]_vars => \/ Quiet
                 \/ \E p \in Procs : Reject(p) \/ Start(p)
                 \/ \E p \in Creates : RegisterProcess(p)
                 \/ \E p \in Replaces : \/ InitProcessReplace(p) \/ ReplacePoll(p)
                                        \/ ReplaceCommit(p) \/ CleanupReplacementProcess(p)
                 \/ \E d \in Deletes : UnregisterCommit(d)
<1> USE DEF Quiet, requests, manager, procVars, calls, threads
<1>1. ASSUME NEW p, \/ RunStart(p) \/ RunExit(p) \/ RunSetState(p)
                    \/ ProbeServing(p) \/ ProbeGivesUp(p) \/ ProbeSetRunning(p)
      PROVE  Quiet
  BY <1>1 DEF RunStart, RunExit, RunSetState, ProbeServing, ProbeGivesUp, ProbeSetRunning
<1>2. ASSUME NEW s, StopStep(s)
      PROVE  Quiet
  BY <1>2 DEF StopStep, StopDecide, StopSpawn, StopRunning, StopNotRunning,
              StopSetStopped, StopWait
<1>3. ASSUME NEW d, FindProcess(d) \/ UnregisterProcess(d) \/ UnregisterWait(d)
      PROVE  Quiet
  BY <1>3 DEF FindProcess, UnregisterProcess, UnregisterWait
<1>4. UNCHANGED vars => Quiet
  BY DEF vars
<1> HIDE DEF Quiet
<1> QED
  BY <1>1, <1>2, <1>3, <1>4 DEF Next, ProcStep, ReplaceStep, DeleteStep

(* Only the steps of a delete call change where it is or what it found.    *)
LEMMA DeleteCases ==
  [Next]_vars => \/ UNCHANGED <<del, target>>
                 \/ \E d \in Deletes : FindProcess(d) \/ DeleteStep(d)
BY DEF Next, vars, ProcStep, ReplaceStep, StopStep, calls,
       Reject, RegisterProcess, Start, InitProcessReplace, ReplacePoll, ReplaceCommit,
       CleanupReplacementProcess, RunStart, RunExit, RunSetState, ProbeServing,
       ProbeGivesUp, ProbeSetRunning, StopDecide, StopSpawn, StopRunning,
       StopNotRunning, StopSetStopped, StopWait

(* Only the steps of a StopWithSignal call change where it is.             *)
LEMMA StopCases == [Next]_vars => UNCHANGED stop \/ \E s \in StopCalls : StopStep(s)
BY DEF Next, vars, ProcStep, ReplaceStep, DeleteStep,
       Reject, RegisterProcess, Start, InitProcessReplace, ReplacePoll, ReplaceCommit,
       CleanupReplacementProcess, RunStart, RunExit, RunSetState, ProbeServing,
       ProbeGivesUp, ProbeSetRunning, FindProcess, UnregisterProcess, UnregisterWait,
       UnregisterCommit

(* No create or replace call goes back to its beginning.                   *)
LEMMA MainCases ==
  [Next]_vars => \/ UNCHANGED main
                 \/ \E p \in Procs : \E pc : pc # "idle" /\ main' = [main EXCEPT ![p] = pc]
<1> SUFFICES ASSUME [Next]_vars PROVE \/ UNCHANGED main
                                      \/ \E p \in Procs : \E pc : pc # "idle" /\ Goto(p, pc)
  BY DEF Goto
<1>1. ASSUME NEW p \in Procs, Reject(p) \/ Start(p) PROVE \E pc : pc # "idle" /\ Goto(p, pc)
  BY <1>1 DEF Reject, Start
<1>2. ASSUME NEW p \in Creates, RegisterProcess(p) PROVE \E pc : pc # "idle" /\ Goto(p, pc)
  BY <1>2 DEF RegisterProcess
<1>3. ASSUME NEW p \in Replaces, \/ InitProcessReplace(p) \/ ReplacePoll(p)
                                \/ ReplaceCommit(p) \/ CleanupReplacementProcess(p)
      PROVE  \E pc : pc # "idle" /\ Goto(p, pc)
  BY <1>3 DEF InitProcessReplace, ReplacePoll, ReplaceCommit, CleanupReplacementProcess
<1> QED
  BY <1>1, <1>2, <1>3, StepCases DEF Quiet, UnregisterCommit, Procs

(* Every step keeps the bookkeeping.                                       *)
LEMMA BookkeepingStep == TypeOK /\ Bookkeeping /\ [Next]_vars => Bookkeeping'
<1> SUFFICES ASSUME Types, TargetsKnown, Bookkeeping, [Next]_vars PROVE Bookkeeping'
  BY DEF TypeOK
<1>0. \A p \in Procs : Name(p) \in Names
  BY DEF Types, Name, Request
<1>1. CASE Quiet
  BY <1>1 DEF Quiet, Bookkeeping, Name, Published
<1>2. ASSUME NEW p \in Procs, Reject(p) PROVE Bookkeeping'
  BY <1>2 DEF Reject, Goto, Types, Bookkeeping, Name, Published, requests, manager
<1>3. ASSUME NEW p \in Procs, Start(p) PROVE Bookkeeping'
  BY <1>3, ProcessManagerAssumption
     DEF Start, Goto, Types, Bookkeeping, Name, Published, requests, manager, Procs
<1>4. ASSUME NEW p \in Creates, RegisterProcess(p) PROVE Bookkeeping'
  <2>1. p \in Procs /\ main[p] = "idle" /\ p # NoProc
    BY <1>4, ProcessManagerAssumption DEF RegisterProcess, Procs
  <2>2. CASE AllocateProcessPorts(p)
    <3>1. \/ ports' = ports
          \/ \E a, b \in AllPorts : a <= b /\ ports' = [ports EXCEPT ![p] = <<a, b>>]
      BY <2>1, <2>2, Allocation
    <3>2. \A q \in Procs : ports'[q] # <<0, 0>> =>
            /\ ports'[q][1] \in AllPorts
            /\ ports'[q][2] \in AllPorts
            /\ ports'[q][1] <= ports'[q][2]
      <4>1. CASE ports' = ports
        BY <4>1 DEF Bookkeeping
      <4>2. ASSUME NEW a \in AllPorts, NEW b \in AllPorts, a <= b,
                   ports' = [ports EXCEPT ![p] = <<a, b>>],
                   NEW q \in Procs, ports'[q] # <<0, 0>>
            PROVE  /\ ports'[q][1] \in AllPorts
                   /\ ports'[q][2] \in AllPorts
                   /\ ports'[q][1] <= ports'[q][2]
        <5>1. CASE q = p
          BY <4>2, <5>1 DEF Types
        <5>2. CASE q # p
          BY <4>2, <5>2 DEF Types, Bookkeeping
        <5> QED
          BY <5>1, <5>2
      <4> QED
        BY <3>1, <4>1, <4>2
    <3>3. main'[p] # "idle" /\ \A q \in Procs \ {p} : main'[q] = main[q]
      BY <1>4, <2>1, <2>2 DEF RegisterProcess, Goto, Types
    <3>4. \A q \in Procs : main'[q] = "idle" => ports'[q] = <<0, 0>>
      BY <2>1, <3>1, <3>3 DEF Types, Bookkeeping
    <3>5. \A n \in Names : processes'[n] # NoProc =>
            Name(processes[n])' = n /\ Published(processes[n])'
      BY <1>4, <1>0, <2>1, <2>2, ProcessManagerAssumption
         DEF RegisterProcess, Goto, Types, Bookkeeping, Name, Published, requests, manager, Procs
    <3> QED
      BY <3>2, <3>4, <3>5 DEF Bookkeeping
  <2>3. CASE Goto(p, "failed") /\ UNCHANGED <<requests, manager>>
    BY <2>1, <2>3 DEF Goto, Types, Bookkeeping, Name, Published, requests, manager
  <2> QED
    BY <1>4, <2>2, <2>3 DEF RegisterProcess, manager
<1>5. ASSUME NEW p \in Replaces, InitProcessReplace(p) PROVE Bookkeeping'
  <2>1. p \in Procs /\ main[p] = "idle" /\ p # NoProc
    BY <1>5, ProcessManagerAssumption DEF InitProcessReplace, Procs
  <2>2. CASE AllocateProcessPorts(p)
    <3>1. \/ ports' = ports
          \/ \E a, b \in AllPorts : a <= b /\ ports' = [ports EXCEPT ![p] = <<a, b>>]
      BY <2>1, <2>2, Allocation
    <3>2. \A q \in Procs : ports'[q] # <<0, 0>> =>
            /\ ports'[q][1] \in AllPorts
            /\ ports'[q][2] \in AllPorts
            /\ ports'[q][1] <= ports'[q][2]
      <4>1. CASE ports' = ports
        BY <4>1 DEF Bookkeeping
      <4>2. ASSUME NEW a \in AllPorts, NEW b \in AllPorts, a <= b,
                   ports' = [ports EXCEPT ![p] = <<a, b>>],
                   NEW q \in Procs, ports'[q] # <<0, 0>>
            PROVE  /\ ports'[q][1] \in AllPorts
                   /\ ports'[q][2] \in AllPorts
                   /\ ports'[q][1] <= ports'[q][2]
        <5>1. CASE q = p
          BY <4>2, <5>1 DEF Types
        <5>2. CASE q # p
          BY <4>2, <5>2 DEF Types, Bookkeeping
        <5> QED
          BY <5>1, <5>2
      <4> QED
        BY <3>1, <4>1, <4>2
    <3>3. main'[p] # "idle" /\ \A q \in Procs \ {p} : main'[q] = main[q]
      BY <1>5, <2>1, <2>2 DEF InitProcessReplace, Goto, Types
    <3>4. \A q \in Procs : main'[q] = "idle" => ports'[q] = <<0, 0>>
      BY <2>1, <3>1, <3>3 DEF Types, Bookkeeping
    <3>5. \A n \in Names : processes'[n] # NoProc =>
            Name(processes[n])' = n /\ Published(processes[n])'
      BY <1>5, <1>0, <2>1, <2>2, ProcessManagerAssumption
         DEF InitProcessReplace, Goto, Types, Bookkeeping, Name, Published, requests, manager, Procs
    <3> QED
      BY <3>2, <3>4, <3>5 DEF Bookkeeping
  <2>3. CASE Goto(p, "failed") /\ UNCHANGED <<requests, manager>>
    BY <2>1, <2>3 DEF Goto, Types, Bookkeeping, Name, Published, requests, manager
  <2> QED
    BY <1>5, <2>2, <2>3 DEF InitProcessReplace, manager
<1>6. ASSUME NEW p \in Replaces, ReplacePoll(p) PROVE Bookkeeping'
  BY <1>6 DEF ReplacePoll, Goto, Types, Bookkeeping, Name, Published, requests, manager, Procs
<1>7. ASSUME NEW p \in Replaces, ReplaceCommit(p) PROVE Bookkeeping'
  BY <1>0, <1>7, ProcessManagerAssumption
     DEF ReplaceCommit, Goto, Types, Bookkeeping, Name, Published, requests, manager, Procs
<1>8. ASSUME NEW p \in Replaces, CleanupReplacementProcess(p) PROVE Bookkeeping'
  BY <1>8 DEF CleanupReplacementProcess, Goto, Types, Bookkeeping, Name, Published, requests, Procs
<1>9. ASSUME NEW d \in Deletes, UnregisterCommit(d) PROVE Bookkeeping'
  BY <1>9 DEF UnregisterCommit, Types, Bookkeeping, Name, Published, requests
<1> QED
  BY <1>1, <1>2, <1>3, <1>4, <1>5, <1>6, <1>7, <1>8, <1>9, StepCases

(* Every step leaves every call with the process it is to stop.            *)
LEMMA TargetsStep == TypeOK /\ [Next]_vars => TargetsKnown'
<1> SUFFICES ASSUME Types, TargetsKnown, [Next]_vars PROVE TargetsKnown'
  BY DEF TypeOK
<1> USE DEF Types, TargetsKnown
<1>1. ASSUME UNCHANGED <<main, old>>
      PROVE  \A p \in Replaces : main'[p] \in {"start", "poll", "stopOld"} => old'[p] # NoProc
  BY <1>1
<1>2. ASSUME UNCHANGED <<del, target>>
      PROVE  \A d \in Deletes : del'[d] \in {"stop", "wait", "commit"} => target'[d] # NoProc
  BY <1>2
<1>3. ASSUME NEW p \in Procs, Reject(p) \/ Start(p) PROVE TargetsKnown'
  BY <1>2, <1>3, ProcessManagerAssumption DEF Reject, Start, Goto, Procs
<1>4. ASSUME NEW p \in Creates, RegisterProcess(p) PROVE TargetsKnown'
  BY <1>2, <1>4, ProcessManagerAssumption DEF RegisterProcess, Goto, Procs
<1>5. ASSUME NEW p \in Replaces, InitProcessReplace(p) PROVE TargetsKnown'
  BY <1>2, <1>5 DEF InitProcessReplace, Goto, Procs
<1>6. ASSUME NEW p \in Replaces, \/ ReplacePoll(p) \/ ReplaceCommit(p)
                                \/ CleanupReplacementProcess(p)
      PROVE  TargetsKnown'
  BY <1>2, <1>6 DEF ReplacePoll, ReplaceCommit, CleanupReplacementProcess, Goto, Procs
<1>7. ASSUME NEW p, \/ RunStart(p) \/ RunExit(p) \/ RunSetState(p)
                    \/ ProbeServing(p) \/ ProbeGivesUp(p) \/ ProbeSetRunning(p)
      PROVE  TargetsKnown'
  BY <1>1, <1>2, <1>7 DEF RunStart, RunExit, RunSetState, ProbeServing, ProbeGivesUp,
                          ProbeSetRunning, calls
<1>8. ASSUME NEW s, StopStep(s) PROVE TargetsKnown'
  BY <1>1, <1>2, <1>8 DEF StopStep, StopDecide, StopSpawn, StopRunning, StopNotRunning,
                          StopSetStopped, StopWait, calls
<1>9. ASSUME NEW d \in Deletes, FindProcess(d) PROVE TargetsKnown'
  BY <1>1, <1>9 DEF FindProcess
<1>10. ASSUME NEW d \in Deletes, DeleteStep(d) PROVE TargetsKnown'
  BY <1>1, <1>10 DEF DeleteStep, UnregisterProcess, UnregisterWait, UnregisterCommit
<1>11. CASE UNCHANGED vars
  BY <1>1, <1>2, <1>11 DEF vars, calls
<1> QED
  BY <1>3, <1>4, <1>5, <1>6, <1>7, <1>8, <1>9, <1>10, <1>11
     DEF Next, ProcStep, ReplaceStep

(***************************************************************************)
(* What a step does to the ports is one of three things.                   *)
(***************************************************************************)

(* Nothing about the ports changes.                                        *)
PortsKept ==
  /\ ports' = ports
  /\ FreePorts' = FreePorts
  /\ \A q \in Procs : Holder(q)' <=> Holder(q)

(* A process that holds nothing becomes a holder, of a range of ports that *)
(* were free or of none.                                                   *)
PortsAcquired(p) ==
  /\ ~ Holder(p) /\ Holder(p)'
  /\ \A q \in Procs \ {p} : (Holder(q)' <=> Holder(q)) /\ ports'[q] = ports[q]
  /\ \/ ports'[p] = <<0, 0>> /\ FreePorts' = FreePorts
     \/ \E a, b \in AllPorts :
          /\ a <= b
          /\ ports'[p] = <<a, b>>
          /\ a .. b \subseteq FreePorts
          /\ FreePorts' = FreePorts \ (a .. b)

(* A holder gives its ports back and is a holder no more.                  *)
PortsReleased(p) ==
  /\ Holder(p) /\ ~ Holder(p)'
  /\ \A q \in Procs \ {p} : Holder(q)' <=> Holder(q)
  /\ ports' = ports
  /\ FreePorts' = FreePorts \cup PortsOf(p)

(* What allocateProcessPorts does when the process becomes a holder.       *)
LEMMA AcquisitionStep ==
  ASSUME Types, Bookkeeping, NEW p \in Procs,
         main[p] = "idle", AllocateProcessPorts(p),
         ~ Holder(p), Holder(p)',
         \A q \in Procs \ {p} : Holder(q)' <=> Holder(q)
  PROVE  PortsAcquired(p)
<1>1. ports[p] = <<0, 0>>
  BY DEF Bookkeeping
<1>2. \/ ports' = ports /\ FreePorts' = FreePorts
      \/ \E a, b \in AllPorts :
           /\ a <= b
           /\ ports' = [ports EXCEPT ![p] = <<a, b>>]
           /\ a .. b \subseteq FreePorts
           /\ FreePorts' = FreePorts \ (a .. b)
  BY Allocation
<1>3. \A q \in Procs \ {p} : ports'[q] = ports[q]
  BY <1>2 DEF Types
<1>4. \/ ports'[p] = <<0, 0>> /\ FreePorts' = FreePorts
      \/ \E a, b \in AllPorts :
           /\ a <= b
           /\ ports'[p] = <<a, b>>
           /\ a .. b \subseteq FreePorts
           /\ FreePorts' = FreePorts \ (a .. b)
  BY <1>1, <1>2 DEF Types
<1> QED
  BY <1>3, <1>4 DEF PortsAcquired

(* A registered process has been published; a published one is no longer   *)
(* in flight.                                                              *)
LEMMA Exclusive ==
  ASSUME Types, Bookkeeping, NEW p \in Procs
  PROVE  /\ Name(p) \in Names
         /\ p # NoProc
         /\ Registered(p) => Published(p)
         /\ Published(p) => ~ InFlight(p)
<1>1. Name(p) \in Names
  BY DEF Types, Name, Request
<1>2. p # NoProc
  BY ProcessManagerAssumption
<1>3. Registered(p) => Published(p)
  BY <1>1, <1>2 DEF Registered, Bookkeeping
<1>4. Published(p) => ~ InFlight(p)
  BY ProcessManagerAssumption DEF Published, InFlight
<1> QED
  BY <1>1, <1>2, <1>3, <1>4

(* Every step does one of the three to the ports.                          *)
LEMMA PortCases ==
  ASSUME TypeOK, Bookkeeping, [Next]_vars
  PROVE  \/ PortsKept
         \/ \E p \in Procs : PortsAcquired(p)
         \/ \E p \in Procs : PortsReleased(p)
<1> DEFINE Goal == \/ PortsKept
                   \/ \E p \in Procs : PortsAcquired(p)
                   \/ \E p \in Procs : PortsReleased(p)
<1> SUFFICES ASSUME Types, TargetsKnown PROVE Goal
  BY DEF TypeOK
<1> USE DEF PortsKept
<1>0. /\ \A p \in Procs : Name(p) \in Names /\ p # NoProc
      /\ \A p \in Procs : Registered(p) => Published(p)
      /\ \A p \in Procs : Published(p) => ~ InFlight(p)
  BY Exclusive
<1>1. ASSUME UNCHANGED <<req, processes>>,
             \A p \in Procs : InFlight(p)' <=> InFlight(p)
      PROVE  \A p \in Procs : Holder(p)' <=> Holder(p)
  BY <1>1 DEF Holder, Registered, Name
<1>2. CASE Quiet
  BY <1>1, <1>2 DEF Quiet, FreePorts, InFlight
<1>3. ASSUME NEW p \in Procs, Reject(p) \/ Start(p) PROVE Goal
  <2>1. UNCHANGED <<req, processes, ports, data>>
    BY <1>3 DEF Reject, Start, requests, manager
  <2>2. \A q \in Procs : InFlight(q)' <=> InFlight(q)
    BY <1>3, ProcessManagerAssumption DEF Reject, Start, Goto, InFlight, Types
  <2> QED
    BY <1>1, <2>1, <2>2 DEF FreePorts
<1>4. ASSUME NEW p \in Creates, RegisterProcess(p) PROVE Goal
  <2>1. p \in Procs /\ p \notin Replaces /\ main[p] = "idle"
    BY <1>4, ProcessManagerAssumption DEF RegisterProcess, Procs
  <2>2. \A q \in Procs : InFlight(q)' <=> InFlight(q)
    BY <1>4, <2>1 DEF RegisterProcess, Goto, InFlight, Types
  <2>3. CASE UNCHANGED manager
    BY <1>1, <1>4, <2>2, <2>3 DEF RegisterProcess, FreePorts, requests, manager
  <2>4. CASE /\ processes[Name(p)] = NoProc
             /\ processes' = [processes EXCEPT ![Name(p)] = p]
             /\ AllocateProcessPorts(p)
    <3>1. UNCHANGED req
      BY <1>4 DEF RegisterProcess, requests
    <3>2. ~ Holder(p)
      BY <1>0, <2>1, <2>4 DEF Holder, Registered, InFlight
    <3>3. Holder(p)'
      BY <1>0, <2>1, <2>4, <3>1 DEF Holder, Registered, Name, Types
    <3>4. \A q \in Procs \ {p} : Holder(q)' <=> Holder(q)
      BY <1>0, <2>1, <2>2, <2>4, <3>1 DEF Holder, Registered, Name, Types
    <3> QED
      BY <2>1, <2>4, <3>2, <3>3, <3>4, AcquisitionStep
  <2> QED
    BY <1>4, <2>3, <2>4 DEF RegisterProcess
<1>5. ASSUME NEW p \in Replaces, InitProcessReplace(p) PROVE Goal
  <2>1. p \in Procs /\ main[p] = "idle"
    BY <1>5 DEF InitProcessReplace, Procs
  <2>2. UNCHANGED <<req, processes>>
    BY <1>5 DEF InitProcessReplace, requests, manager
  <2>3. ~ InFlight(p) /\ ~ Published(p)
    BY <2>1, ProcessManagerAssumption DEF InFlight, Published
  <2>4. CASE Goto(p, "failed") /\ UNCHANGED manager
    <3>1. \A q \in Procs : InFlight(q)' <=> InFlight(q)
      BY <2>1, <2>4 DEF Goto, InFlight, Types
    <3> QED
      BY <1>1, <2>2, <2>4, <3>1 DEF FreePorts, manager
  <2>5. CASE AllocateProcessPorts(p) /\ (Goto(p, "sameBinary") \/ Goto(p, "start"))
    <3>1. ~ Holder(p)
      BY <1>0, <2>1, <2>3 DEF Holder
    <3>2. Holder(p)'
      BY <2>1, <2>5 DEF Holder, InFlight, Goto, Types
    <3>3. \A q \in Procs \ {p} : InFlight(q)' <=> InFlight(q)
      BY <2>1, <2>5 DEF InFlight, Goto, Types
    <3>4. \A q \in Procs \ {p} : Holder(q)' <=> Holder(q)
      BY <2>2, <3>3 DEF Holder, Registered, Name
    <3> QED
      BY <2>1, <2>5, <3>1, <3>2, <3>4, AcquisitionStep
  <2> QED
    BY <1>5, <2>4, <2>5 DEF InitProcessReplace
<1>6. ASSUME NEW p \in Replaces, ReplacePoll(p) PROVE Goal
  <2>1. UNCHANGED <<req, processes, ports, data>>
    BY <1>6 DEF ReplacePoll, requests, manager
  <2>2. \A q \in Procs : InFlight(q)' <=> InFlight(q)
    BY <1>6 DEF ReplacePoll, Goto, InFlight, Types, Procs
  <2> QED
    BY <1>1, <2>1, <2>2 DEF FreePorts
<1>7. ASSUME NEW p \in Replaces, ReplaceCommit(p) PROVE Goal
  <2>1. p \in Procs /\ main[p] = "stopOld" /\ UNCHANGED <<req, ports>>
    BY <1>7 DEF ReplaceCommit, Procs, requests
  <2>2. InFlight(p) /\ ~ Published(p) /\ ~ Registered(p)
    BY <1>0, <2>1, ProcessManagerAssumption DEF InFlight, Published
  <2>3. CASE UNCHANGED <<data, processes>> /\ Goto(p, "cleanup")
    <3>1. \A q \in Procs : InFlight(q)' <=> InFlight(q)
      BY <2>1, <2>3 DEF InFlight, Goto, Types
    <3> QED
      BY <1>1, <2>1, <2>3, <3>1 DEF FreePorts
  <2>4. CASE /\ processes[Name(p)] \in {NoProc, old[p]}
             /\ data' = IF processes[Name(p)] = NoProc THEN data
                        ELSE ReleaseProcessPorts(processes[Name(p)])
             /\ processes' = [processes EXCEPT ![Name(p)] = p]
             /\ Goto(p, "done")
    <3>1. Registered(p)' /\ Holder(p) /\ Holder(p)'
      BY <1>0, <2>1, <2>2, <2>4 DEF Holder, Registered, Name, Types
    <3>2. \A q \in Procs \ {p} : InFlight(q)' <=> InFlight(q)
      BY <2>1, <2>4 DEF InFlight, Goto, Types
    <3>3. \A q \in Procs \ {p} :
            Registered(q)' <=> Registered(q) /\ Name(q) # Name(p)
      BY <1>0, <2>1, <2>4 DEF Registered, Name, Types
    <3>4. CASE processes[Name(p)] = NoProc
      <4>1. \A q \in Procs : Holder(q)' <=> Holder(q)
        BY <1>0, <3>1, <3>2, <3>3, <3>4 DEF Holder, Registered
      <4> QED
        BY <2>1, <2>4, <3>4, <4>1 DEF FreePorts
    <3>5. CASE processes[Name(p)] # NoProc
      <4>0. PICK t \in Procs : t = processes[Name(p)]
        BY <1>0, <2>1, <3>5 DEF Types
      <4>1. Name(t) = Name(p) /\ Registered(t)
        BY <1>0, <2>1, <3>5, <4>0 DEF Bookkeeping, Registered
      <4>2. t # p /\ ~ InFlight(t)
        BY <1>0, <2>2, <4>1
      <4>3. Holder(t) /\ ~ Holder(t)'
        BY <3>2, <3>3, <4>1, <4>2 DEF Holder
      <4>4. \A q \in Procs \ {t} : Holder(q)' <=> Holder(q)
        BY <3>1, <3>2, <3>3, <4>1 DEF Holder, Registered
      <4>5. FreePorts' = FreePorts \cup PortsOf(t)
        BY <2>4, <3>5, <4>0, Release DEF FreePorts
      <4> QED
        BY <2>1, <4>1, <4>3, <4>4, <4>5 DEF PortsReleased
    <3> QED
      BY <3>4, <3>5
  <2> QED
    BY <1>7, <2>3, <2>4 DEF ReplaceCommit
<1>8. ASSUME NEW p \in Replaces, CleanupReplacementProcess(p) PROVE Goal
  <2>1. /\ p \in Procs /\ main[p] = "cleanup"
        /\ UNCHANGED <<req, processes, ports>>
        /\ data' = ReleaseProcessPorts(p)
    BY <1>8 DEF CleanupReplacementProcess, Procs, requests
  <2>2. InFlight(p) /\ ~ Registered(p)
    BY <1>0, <2>1, ProcessManagerAssumption DEF InFlight, Published
  <2>3. ~ InFlight(p)' /\ \A q \in Procs \ {p} : InFlight(q)' <=> InFlight(q)
    BY <1>8, <2>1 DEF CleanupReplacementProcess, Goto, InFlight, Types
  <2>4. Holder(p) /\ ~ Holder(p)' /\ \A q \in Procs \ {p} : Holder(q)' <=> Holder(q)
    BY <2>1, <2>2, <2>3 DEF Holder, Registered, Name
  <2>5. FreePorts' = FreePorts \cup PortsOf(p)
    BY <2>1, Release DEF FreePorts
  <2> QED
    BY <2>1, <2>4, <2>5 DEF PortsReleased
<1>9. ASSUME NEW d \in Deletes, UnregisterCommit(d) PROVE Goal
  <2>1. UNCHANGED <<req, ports, main>>
    BY <1>9 DEF UnregisterCommit, requests
  <2>2. \A q \in Procs : InFlight(q)' <=> InFlight(q)
    BY <2>1 DEF InFlight
  <2>3. CASE UNCHANGED <<processes, data>>
    BY <1>1, <2>1, <2>2, <2>3 DEF FreePorts
  <2>4. CASE /\ StillRegistered(d)
             /\ processes' = [processes EXCEPT ![delName[d]] = NoProc]
             /\ data' = ReleaseProcessPorts(target[d])
    <3>0. PICK t \in Procs : t = target[d]
      BY <1>9 DEF UnregisterCommit, Types, TargetsKnown
    <3>1. delName[d] \in Names /\ processes[delName[d]] = t
      BY <2>4, <3>0 DEF StillRegistered, Types
    <3>2. Name(t) = delName[d] /\ Registered(t)
      BY <1>0, <3>1 DEF Bookkeeping, Registered
    <3>3. \A q \in Procs : Registered(q)' <=> Registered(q) /\ q # t
      BY <1>0, <2>1, <2>4, <3>1, <3>2 DEF Registered, Name, Types
    <3>4. Holder(t) /\ ~ Holder(t)'
      BY <1>0, <2>2, <3>1, <3>2, <3>3 DEF Holder
    <3>5. \A q \in Procs \ {t} : Holder(q)' <=> Holder(q)
      BY <2>2, <3>3 DEF Holder
    <3>6. FreePorts' = FreePorts \cup PortsOf(t)
      BY <2>4, <3>0, Release DEF FreePorts
    <3> QED
      BY <2>1, <3>1, <3>4, <3>5, <3>6 DEF PortsReleased
  <2> QED
    BY <1>9, <2>3, <2>4 DEF UnregisterCommit
<1> QED
  BY <1>2, <1>3, <1>4, <1>5, <1>6, <1>7, <1>8, <1>9, StepCases

(* Every step keeps the accounts of the ports.                             *)
LEMMA PortsStep ==
  TypeOK /\ Bookkeeping /\ PortAccounting /\ [Next]_vars => PortAccounting'
<1> SUFFICES ASSUME TypeOK, Bookkeeping, PortAccounting, [Next]_vars
             PROVE  PortAccounting'
  OBVIOUS
<1>1. CASE PortsKept
  <2>1. \A q \in Procs : PortsOf(q)' = PortsOf(q)
    BY <1>1 DEF PortsOf, PortsKept
  <2> QED
    BY <1>1, <2>1 DEF PortAccounting, PortsKept
<1>2. ASSUME NEW p \in Procs, PortsAcquired(p) PROVE PortAccounting'
  <2>1. /\ ~ Holder(p) /\ Holder(p)'
        /\ \A q \in Procs \ {p} : (Holder(q)' <=> Holder(q)) /\ PortsOf(q)' = PortsOf(q)
    BY <1>2 DEF PortsAcquired, PortsOf
  <2>2. PortsOf(p)' \subseteq FreePorts /\ FreePorts' = FreePorts \ PortsOf(p)'
    <3>1. CASE ports'[p] = <<0, 0>> /\ FreePorts' = FreePorts
      BY <3>1 DEF PortsOf
    <3>2. ASSUME NEW a \in AllPorts, NEW b \in AllPorts,
                 ports'[p] = <<a, b>>, a .. b \subseteq FreePorts,
                 FreePorts' = FreePorts \ (a .. b)
          PROVE  PortsOf(p)' \subseteq FreePorts /\ FreePorts' = FreePorts \ PortsOf(p)'
      <4>1. a # 0
        BY BitmapAssumption DEF AllPorts
      <4>2. PortsOf(p)' = a .. b
        BY <3>2, <4>1 DEF PortsOf
      <4> QED
        BY <3>2, <4>2
    <3> QED
      BY <1>2, <3>1, <3>2 DEF PortsAcquired
  <2>3. \A q \in Procs : Holder(q)' => PortsOf(q)' \cap FreePorts' = {}
    BY <2>1, <2>2 DEF PortAccounting
  <2>4. \A q, r \in Procs :
          Holder(q)' /\ Holder(r)' /\ q # r => PortsOf(q)' \cap PortsOf(r)' = {}
    BY <2>1, <2>2 DEF PortAccounting
  <2>5. \A port \in AllPorts :
          port \in FreePorts' \/ \E q \in Procs : Holder(q)' /\ port \in PortsOf(q)'
    BY <2>1, <2>2 DEF PortAccounting
  <2> QED
    BY <2>3, <2>4, <2>5 DEF PortAccounting
<1>3. ASSUME NEW p \in Procs, PortsReleased(p) PROVE PortAccounting'
  <2>1. \A q \in Procs : PortsOf(q)' = PortsOf(q)
    BY <1>3 DEF PortsOf, PortsReleased
  <2>2. \A q \in Procs : Holder(q)' => PortsOf(q)' \cap FreePorts' = {}
    BY <1>3, <2>1 DEF PortAccounting, PortsReleased
  <2>3. \A q, r \in Procs :
          Holder(q)' /\ Holder(r)' /\ q # r => PortsOf(q)' \cap PortsOf(r)' = {}
    BY <1>3, <2>1 DEF PortAccounting, PortsReleased
  <2>4. \A port \in AllPorts :
          port \in FreePorts' \/ \E q \in Procs : Holder(q)' /\ port \in PortsOf(q)'
    BY <1>3, <2>1 DEF PortAccounting, PortsReleased
  <2> QED
    BY <2>2, <2>3, <2>4 DEF PortAccounting
<1> QED
  BY <1>1, <1>2, <1>3, PortCases

(* Every step takes a range from the abstract pool, gives one back to it,  *)
(* or leaves it alone.                                                     *)
LEMMA PoolStep ==
  ASSUME TypeOK, Bookkeeping, PortAccounting,
         \/ PortsKept
         \/ \E p \in Procs : PortsAcquired(p)
         \/ \E p \in Procs : PortsReleased(p)
  PROVE  [Pool!Next]_(Pool!vars)
<1> DEFINE Has(q) == Holder(q) /\ ports[q][1] # 0
<1>0. \A r : r \in HeldRanges <=> \E q \in Procs : Has(q) /\ r = ports[q]
  BY DEF HeldRanges
<1>00. \A r : r \in HeldRanges' <=> \E q \in Procs : Has(q)' /\ r = ports'[q]
  BY DEF HeldRanges
<1>1. CASE PortsKept
  <2>1. HeldRanges' = HeldRanges
    BY <1>1 DEF PortsKept, HeldRanges
  <2> QED
    BY <1>1, <2>1 DEF PortsKept, Pool!vars
<1>2. ASSUME NEW p \in Procs, PortsAcquired(p) PROVE [Pool!Next]_(Pool!vars)
  <2>1. \A q \in Procs \ {p} : (Has(q)' <=> Has(q)) /\ ports'[q] = ports[q]
    BY <1>2 DEF PortsAcquired
  <2>2. ~ Has(p)
    BY <1>2 DEF PortsAcquired
  <2>3. CASE ports'[p] = <<0, 0>> /\ FreePorts' = FreePorts
    <3>1. ~ Has(p)'
      BY <2>3
    <3>2. HeldRanges' = HeldRanges
      <4> HIDE DEF Has
      <4> QED
        BY <1>0, <1>00, <2>1, <2>2, <3>1
    <3> QED
      BY <2>3, <3>2 DEF Pool!vars
  <2>4. ASSUME NEW a \in AllPorts, NEW b \in AllPorts, a <= b,
               ports'[p] = <<a, b>>, a .. b \subseteq FreePorts,
               FreePorts' = FreePorts \ (a .. b)
        PROVE  [Pool!Next]_(Pool!vars)
    <3>1. Has(p)'
      BY <1>2, <2>4, BitmapAssumption DEF PortsAcquired, AllPorts
    <3>2. HeldRanges' = HeldRanges \cup {<<a, b>>}
      <4> HIDE DEF Has
      <4> QED
        BY <1>0, <1>00, <2>1, <2>2, <2>4, <3>1
    <3> QED
      BY <2>4, <3>2 DEF Pool!Next, Pool!Take
  <2> QED
    BY <1>2, <2>3, <2>4 DEF PortsAcquired
<1>3. ASSUME NEW p \in Procs, PortsReleased(p) PROVE [Pool!Next]_(Pool!vars)
  <2>1. \A q \in Procs \ {p} : (Has(q)' <=> Has(q)) /\ ports'[q] = ports[q]
    BY <1>3 DEF PortsReleased
  <2>2. ~ Has(p)'
    BY <1>3 DEF PortsReleased
  <2>3. CASE ports[p][1] = 0
    <3>1. ~ Has(p) /\ PortsOf(p) = {}
      BY <2>3 DEF PortsOf
    <3>2. HeldRanges' = HeldRanges
      <4> HIDE DEF Has
      <4> QED
        BY <1>0, <1>00, <2>1, <2>2, <3>1
    <3> QED
      BY <1>3, <3>1, <3>2 DEF PortsReleased, Pool!vars
  <2>4. CASE ports[p][1] # 0
    <3>1. Has(p) /\ Holder(p)
      BY <1>3, <2>4 DEF PortsReleased
    <3>2. ports[p][1] \in PortsOf(p)
      <4>1. ports[p] # <<0, 0>>
        BY <2>4
      <4>2. /\ ports[p][1] \in AllPorts /\ ports[p][2] \in AllPorts
            /\ ports[p][1] <= ports[p][2]
        BY <4>1 DEF Bookkeeping
      <4> QED
        BY <2>4, <4>2, BitmapAssumption DEF PortsOf, AllPorts
    <3>3. ASSUME NEW q \in Procs \ {p}, Has(q) PROVE ports[q] # ports[p]
      <4> SUFFICES ASSUME ports[q] = ports[p] PROVE FALSE
        OBVIOUS
      <4>1. PortsOf(q) = PortsOf(p)
        BY DEF PortsOf
      <4> QED
        BY <3>1, <3>2, <3>3, <4>1 DEF PortAccounting
    <3>4. HeldRanges' = HeldRanges \ {ports[p]}
      <4> HIDE DEF Has
      <4> QED
        BY <1>0, <1>00, <2>1, <2>2, <3>1, <3>3
    <3>5. ports[p] \in HeldRanges
      BY <1>0, <3>1
    <3>6. FreePorts' = FreePorts \cup Pool!Range(ports[p])
      BY <1>3, <2>4 DEF PortsReleased, PortsOf, Pool!Range
    <3> QED
      BY <3>4, <3>5, <3>6 DEF Pool!Next, Pool!Give
  <2> QED
    BY <2>3, <2>4
<1> QED
  BY <1>1, <1>2, <1>3

(* Every step keeps what is known of the commands.                         *)
LEMMA CommandsStep == TypeOK /\ Commands /\ [Next]_vars => Commands'
<1> SUFFICES ASSUME Types, Commands, [Next]_vars PROVE Commands'
  BY DEF TypeOK
<1> USE DEF Types, Commands
<1>1. ASSUME UNCHANGED <<cmd, run>>,
             \A p \in Procs : main'[p] \in {"idle", "start"} => main[p] \in {"idle", "start"}
      PROVE  Commands'
  BY <1>1
<1>2. ASSUME NEW p \in Procs, Reject(p) PROVE Commands'
  BY <1>1, <1>2 DEF Reject, Goto, procVars, threads
<1>3. ASSUME NEW p \in Procs, Start(p) PROVE Commands'
  <2>1. CASE UNCHANGED <<cmd, run>>
    BY <1>1, <1>3, <2>1 DEF Start, Goto
  <2>2. CASE /\ cmd' = [cmd EXCEPT ![p] = "created"]
             /\ run' = [run EXCEPT ![p] = "start"]
    <3>1. main'[p] \notin {"idle", "start"} /\ \A q \in Procs \ {p} : main'[q] = main[q]
      BY <1>3 DEF Start, Goto
    <3> QED
      BY <2>2, <3>1
  <2> QED
    BY <1>3, <2>1, <2>2 DEF Start
<1>4. ASSUME NEW p \in Creates, RegisterProcess(p) PROVE Commands'
  BY <1>1, <1>4 DEF RegisterProcess, Goto, procVars, threads, Procs
<1>5. ASSUME NEW p \in Replaces, InitProcessReplace(p) PROVE Commands'
  BY <1>1, <1>5 DEF InitProcessReplace, Goto, procVars, threads, Procs
<1>6. ASSUME NEW p \in Replaces, ReplaceStep(p) PROVE Commands'
  BY <1>1, <1>6 DEF ReplaceStep, ReplacePoll, ReplaceCommit, CleanupReplacementProcess,
                    Goto, procVars, threads, Procs
<1>7. ASSUME NEW p \in Procs, RunStart(p) PROVE Commands'
  <2>1. main[p] \notin {"idle", "start"} /\ UNCHANGED main
    BY <1>7 DEF RunStart, calls
  <2>2. \A q \in Procs \ {p} : cmd'[q] = cmd[q] /\ run'[q] = run[q]
    BY <1>7 DEF RunStart
  <2>3. \/ cmd'[p] = "running" /\ run'[p] = "running"
        \/ cmd'[p] = "exited" /\ run'[p] = "setStopped"
    BY <1>7 DEF RunStart
  <2> QED
    BY <2>1, <2>2, <2>3
<1>8. ASSUME NEW p \in Procs, RunExit(p) PROVE Commands'
  BY <1>8 DEF RunExit, calls
<1>9. ASSUME NEW p \in Procs, RunSetState(p) PROVE Commands'
  BY <1>9 DEF RunSetState, calls
<1>10. ASSUME NEW p \in Procs, ProbeServing(p) \/ ProbeGivesUp(p) \/ ProbeSetRunning(p)
       PROVE  Commands'
  BY <1>1, <1>10 DEF ProbeServing, ProbeGivesUp, ProbeSetRunning, calls, procVars
<1>11. ASSUME NEW s \in StopCalls, StopStep(s) PROVE Commands'
  <2>1. UNCHANGED <<main, run>>
    BY <1>11 DEF StopStep, StopDecide, StopSpawn, StopRunning, StopNotRunning,
                 StopSetStopped, StopWait, calls, threads
  <2>2. CASE UNCHANGED cmd
    BY <1>1, <2>1, <2>2
  <2>3. ASSUME NEW p, cmd' = Killed(p) PROVE Commands'
    BY <2>1, <2>3 DEF Killed
  <2> QED
    BY <1>11, <2>2, <2>3 DEF StopStep, StopDecide, StopSpawn, StopRunning, StopNotRunning,
                             StopSetStopped, StopWait, procVars
<1>12. ASSUME NEW d \in Deletes, FindProcess(d) \/ DeleteStep(d) PROVE Commands'
  BY <1>1, <1>12 DEF FindProcess, DeleteStep, UnregisterProcess, UnregisterWait,
                     UnregisterCommit, procVars, threads
<1>13. CASE UNCHANGED vars
  BY <1>1, <1>13 DEF vars, calls, procVars, threads
<1> QED
  BY <1>2, <1>3, <1>4, <1>5, <1>6, <1>7, <1>8, <1>9, <1>10, <1>11, <1>12, <1>13
     DEF Next, ProcStep

(* A process that has ended, or has a deletion timestamp, stays so.        *)
LEMMA EndedStable ==
  ASSUME TypeOK, Commands, [Next]_vars
  PROVE  \A p \in Procs : Ended(p) => Ended(p)'
<1> USE DEF TypeOK, Types, Commands
<1>1. ASSUME \A p \in Procs : deletion[p] => deletion'[p],
             \A p \in Procs : cmd[p] \in {"nil", "exited"} => cmd'[p] = cmd[p],
             \A p \in Procs : main'[p] \in {"idle", "start"} => main[p] \in {"idle", "start"}
      PROVE  \A p \in Procs : Ended(p) => Ended(p)'
  BY <1>1 DEF Ended, Dead
<1>2. ASSUME NEW p \in Procs, Reject(p) PROVE \A q \in Procs : Ended(q) => Ended(q)'
  BY <1>1, <1>2 DEF Reject, Goto, procVars
<1>3. ASSUME NEW p \in Procs, Start(p) PROVE \A q \in Procs : Ended(q) => Ended(q)'
  <2>1. UNCHANGED deletion /\ main[p] = "start" /\ cmd[p] = "nil"
    BY <1>3 DEF Start
  <2>2. \A q \in Procs \ {p} : cmd'[q] = cmd[q] /\ main'[q] = main[q]
    BY <1>3 DEF Start, Goto
  <2> QED
    BY <2>1, <2>2 DEF Ended, Dead
<1>4. ASSUME NEW p \in Creates, RegisterProcess(p)
      PROVE  \A q \in Procs : Ended(q) => Ended(q)'
  BY <1>1, <1>4 DEF RegisterProcess, Goto, procVars, Procs
<1>5. ASSUME NEW p \in Replaces, InitProcessReplace(p)
      PROVE  \A q \in Procs : Ended(q) => Ended(q)'
  BY <1>1, <1>5 DEF InitProcessReplace, Goto, procVars, Procs
<1>6. ASSUME NEW p \in Replaces, ReplaceStep(p)
      PROVE  \A q \in Procs : Ended(q) => Ended(q)'
  BY <1>1, <1>6 DEF ReplaceStep, ReplacePoll, ReplaceCommit, CleanupReplacementProcess,
                    Goto, procVars, Procs
<1>7. ASSUME NEW p \in Procs, RunStart(p) PROVE \A q \in Procs : Ended(q) => Ended(q)'
  BY <1>1, <1>7 DEF RunStart, calls
<1>8. ASSUME NEW p \in Procs, RunExit(p) PROVE \A q \in Procs : Ended(q) => Ended(q)'
  BY <1>8 DEF RunExit, calls, Ended, Dead
<1>9. ASSUME NEW p \in Procs, \/ RunSetState(p) \/ ProbeServing(p)
                             \/ ProbeGivesUp(p) \/ ProbeSetRunning(p)
      PROVE  \A q \in Procs : Ended(q) => Ended(q)'
  BY <1>1, <1>9 DEF RunSetState, ProbeServing, ProbeGivesUp, ProbeSetRunning, calls, procVars
<1>10. ASSUME NEW s \in StopCalls, StopStep(s)
       PROVE  \A q \in Procs : Ended(q) => Ended(q)'
  <2>1. UNCHANGED main
    BY <1>10 DEF StopStep, StopDecide, StopSpawn, StopRunning, StopNotRunning,
                 StopSetStopped, StopWait, calls
  <2>2. \A q \in Procs : deletion[q] => deletion'[q]
    BY <1>10 DEF StopStep, StopDecide, StopSpawn, StopRunning, StopNotRunning,
                 StopSetStopped, StopWait, procVars
  <2>3. \A q \in Procs : cmd[q] \in {"nil", "exited"} => cmd'[q] = cmd[q]
    BY <1>10 DEF StopStep, StopDecide, StopSpawn, StopRunning, StopNotRunning,
                 StopSetStopped, StopWait, procVars, Killed
  <2> QED
    BY <1>1, <2>1, <2>2, <2>3
<1>11. ASSUME NEW d \in Deletes, FindProcess(d) \/ DeleteStep(d)
       PROVE  \A q \in Procs : Ended(q) => Ended(q)'
  BY <1>1, <1>11 DEF FindProcess, DeleteStep, UnregisterProcess, UnregisterWait,
                     UnregisterCommit, procVars
<1>12. CASE UNCHANGED vars
  BY <1>1, <1>12 DEF vars, calls, procVars
<1> QED
  BY <1>2, <1>3, <1>4, <1>5, <1>6, <1>7, <1>8, <1>9, <1>10, <1>11, <1>12
     DEF Next, ProcStep

(* A StopWithSignal call that has begun stays with its process.            *)
LEMMA StoppedStable ==
  ASSUME TypeOK, StopsTrue, [Next]_vars
  PROVE  \A s \in StopCalls : stop[s] # "idle" => Stopped(s)' = Stopped(s)
<1> SUFFICES ASSUME NEW s \in StopCalls, stop[s] # "idle"
             PROVE  Stopped(s)' = Stopped(s)
  OBVIOUS
<1>1. /\ s[1] = "delete" => s[2] \in Deletes /\ s = <<"delete", s[2]>>
      /\ s[1] = "old" => s[2] \in Replaces /\ s = <<"old", s[2]>>
  BY DEF StopCalls
<1>2. ASSUME NEW d \in Deletes, d = s[2], s[1] = "delete" PROVE target'[d] = target[d]
  <2>1. del[d] # "idle"
    BY <1>1, <1>2 DEF StopsTrue
  <2>2. UNCHANGED target \/ \E c \in Deletes : FindProcess(c)
    BY DeleteCases DEF DeleteStep, UnregisterProcess, UnregisterWait, UnregisterCommit
  <2> QED
    BY <2>1, <2>2 DEF FindProcess, TypeOK, Types
<1>3. ASSUME NEW p \in Replaces, p = s[2], s[1] = "old" PROVE old'[p] = old[p]
  <2>1. main[p] # "idle"
    BY <1>1, <1>3 DEF StopsTrue
  <2>2. UNCHANGED old \/ \E q \in Replaces : InitProcessReplace(q)
    BY StepCases DEF Quiet, Reject, Start, RegisterProcess, ReplacePoll, ReplaceCommit,
                     CleanupReplacementProcess, UnregisterCommit
  <2> QED
    BY <2>1, <2>2 DEF InitProcessReplace, manager, TypeOK, Types
<1> QED
  BY <1>1, <1>2, <1>3 DEF Stopped

(* Every step keeps the states true.                                       *)
LEMMA StatesStep ==
  TypeOK /\ Stopping /\ [Next]_vars => StatesTrue'
<1> SUFFICES ASSUME TypeOK, Commands, StatesTrue, StopsTrue, [Next]_vars
             PROVE  StatesTrue'
  BY DEF Stopping
<1>1. \A p \in Procs : Ended(p) => Ended(p)'
  BY EndedStable
<1>2. ASSUME UNCHANGED state PROVE StatesTrue'
  BY <1>1, <1>2 DEF StatesTrue
<1>3. ASSUME NEW p \in Procs, Start(p) PROVE StatesTrue'
  <2>1. CASE state' = [state EXCEPT ![p] = "stopped"] /\ UNCHANGED cmd
    <3>1. main[p] = "start" /\ cmd'[p] = "nil" /\ main'[p] \notin {"idle", "start"}
      BY <1>3, <2>1 DEF Start, Goto, Commands, TypeOK, Types
    <3>2. Ended(p)'
      BY <3>1 DEF Ended, Dead
    <3> QED
      BY <1>1, <2>1, <3>2 DEF StatesTrue, TypeOK, Types
  <2>2. CASE UNCHANGED state
    BY <1>2, <2>2
  <2> QED
    BY <1>3, <2>1, <2>2 DEF Start
<1>4. ASSUME NEW p \in Procs, RunSetState(p) PROVE StatesTrue'
  <2>1. Ended(p)
    BY <1>4 DEF RunSetState, Commands, Ended, Dead
  <2>2. \A q \in Procs \ {p} : state'[q] = state[q]
    BY <1>4 DEF RunSetState, TypeOK, Types
  <2> QED
    BY <1>1, <2>1, <2>2 DEF StatesTrue
<1>5. ASSUME NEW p \in Procs, ProbeSetRunning(p) PROVE StatesTrue'
  <2>1. \A q \in Procs : state'[q] = state[q] \/ state'[q] = "running"
    BY <1>5 DEF ProbeSetRunning, TypeOK, Types
  <2> QED
    BY <1>1, <2>1 DEF StatesTrue
<1>6. ASSUME NEW s \in StopCalls, StopDecide(s) PROVE StatesTrue'
  <2>1. \A q \in Procs : state'[q] = state[q] \/ (q = Stopped(s) /\ deletion'[q])
    BY <1>6 DEF StopDecide, TypeOK, Types
  <2>2. \A q \in Procs : deletion'[q] => Ended(q)'
    BY DEF Ended
  <2> QED
    BY <1>1, <2>1, <2>2 DEF StatesTrue
<1>7. ASSUME NEW s \in StopCalls, StopSetStopped(s) PROVE StatesTrue'
  <2>1. Stopped(s) \in Procs /\ Ended(Stopped(s))
    BY <1>7 DEF StopSetStopped, StopsTrue
  <2>2. \A q \in Procs : state'[q] = state[q] \/ q = Stopped(s)
    BY <1>7 DEF StopSetStopped, TypeOK, Types
  <2> QED
    BY <1>1, <2>1, <2>2 DEF StatesTrue
<1>8. ASSUME NEW s \in StopCalls, \/ StopSpawn(s) \/ StopRunning(s)
                                 \/ StopNotRunning(s) \/ StopWait(s)
      PROVE  UNCHANGED state
  BY <1>8 DEF StopSpawn, StopRunning, StopNotRunning, StopWait, procVars
<1>9. ASSUME NEW p \in Procs, \/ Reject(p) \/ RunStart(p) \/ RunExit(p)
                              \/ ProbeServing(p) \/ ProbeGivesUp(p)
      PROVE  UNCHANGED state
  BY <1>9 DEF Reject, RunStart, RunExit, ProbeServing, ProbeGivesUp, procVars
<1>10. ASSUME NEW p, RegisterProcess(p) \/ InitProcessReplace(p) \/ ReplaceStep(p)
       PROVE  UNCHANGED state
  BY <1>10 DEF RegisterProcess, InitProcessReplace, ReplaceStep, ReplacePoll,
               ReplaceCommit, CleanupReplacementProcess, procVars
<1>11. ASSUME NEW d, FindProcess(d) \/ DeleteStep(d) PROVE UNCHANGED state
  BY <1>11 DEF FindProcess, DeleteStep, UnregisterProcess, UnregisterWait,
               UnregisterCommit, procVars
<1>12. UNCHANGED vars => UNCHANGED state
  BY DEF vars, procVars
<1> QED
  BY <1>2, <1>3, <1>4, <1>5, <1>6, <1>7, <1>8, <1>9, <1>10, <1>11, <1>12
     DEF Next, ProcStep, StopStep

(* Every step keeps the StopWithSignal calls true.                         *)
LEMMA StopsStep ==
  TypeOK /\ Stopping /\ [Next]_vars => StopsTrue'
<1> SUFFICES ASSUME TypeOK, Commands, StatesTrue, StopsTrue, [Next]_vars
             PROVE  StopsTrue'
  BY DEF Stopping
<1>1. \A p \in Procs : Ended(p) => Ended(p)'
  BY EndedStable
<1>2. \A s \in StopCalls : stop[s] # "idle" => Stopped(s)' = Stopped(s)
  BY StoppedStable
<1>3. UNCHANGED stop \/ \E s \in StopCalls : StopStep(s)
  BY StopCases
<1>4. \A s \in StopCalls : stop'[s] # "idle" => stop[s] # "idle" \/ StopDecide(s)
  BY <1>3 DEF StopStep, StopDecide, StopSpawn, StopRunning, StopNotRunning,
              StopSetStopped, StopWait, TypeOK, Types
<1>5. ASSUME NEW s \in StopCalls, StopDecide(s)
      PROVE  Stopped(s)' \in Procs /\ Ended(Stopped(s))'
  <2>1. PICK p \in Procs : p = Stopped(s)
    <3>1. StopCalled(s)
      BY <1>5 DEF StopDecide
    <3>2. CASE s[1] = "delete"
      BY <3>1, <3>2 DEF StopCalled, StopCalls, Stopped, TypeOK, Types, TargetsKnown
    <3>3. CASE s[1] = "old"
      BY <3>1, <3>3 DEF StopCalled, StopCalls, Stopped, TypeOK, Types, TargetsKnown
    <3>4. CASE s[1] \in {"probe", "cleanup"}
      BY <3>4 DEF StopCalls, Stopped, Procs
    <3> QED
      BY <3>2, <3>3, <3>4 DEF StopCalls
  <2>2. Stopped(s)' = p
    BY <1>5, <2>1 DEF StopDecide, Stopped, calls
  <2>3. CASE state[p] \in {"stopping", "stopped"}
    BY <1>1, <2>2, <2>3 DEF StatesTrue
  <2>4. CASE state[p] \notin {"stopping", "stopped"}
    <3>1. deletion'[p] = TRUE
      BY <1>5, <2>1, <2>4 DEF StopDecide, TypeOK, Types
    <3>2. Ended(p)'
      BY <3>1 DEF Ended
    <3> QED
      BY <2>2, <3>2
  <2> QED
    BY <2>3, <2>4
<1>6. \A s \in StopCalls : stop'[s] # "idle" => Stopped(s)' \in Procs /\ Ended(Stopped(s))'
  <2> SUFFICES ASSUME NEW s \in StopCalls, stop[s] # "idle"
               PROVE  Stopped(s)' \in Procs /\ Ended(Stopped(s))'
    BY <1>4, <1>5
  <2>1. PICK p \in Procs : p = Stopped(s) /\ Ended(p)
    BY DEF StopsTrue
  <2>2. Stopped(s)' = p /\ Ended(p)'
    BY <1>1, <1>2, <2>1
  <2> QED
    BY <2>2
<1>7. \A d \in Deletes : del'[d] = "idle" => stop'[<<"delete", d>>] = "idle"
  <2> SUFFICES ASSUME NEW d \in Deletes, del'[d] = "idle"
               PROVE  stop'[<<"delete", d>>] = "idle"
    OBVIOUS
  <2>1. del[d] = "idle"
    <3>1. ASSUME NEW c \in Deletes, FindProcess(c) \/ DeleteStep(c)
          PROVE  \E pc : pc # "idle" /\ del' = [del EXCEPT ![c] = pc]
      BY <3>1 DEF FindProcess, DeleteStep, UnregisterProcess, UnregisterWait,
                  UnregisterCommit
    <3> QED
      BY <3>1, DeleteCases DEF TypeOK, Types
  <2>2. <<"delete", d>> \in StopCalls
    BY DEF StopCalls
  <2>3. ~ StopDecide(<<"delete", d>>)
    BY <2>1 DEF StopDecide, StopCalled
  <2> QED
    BY <1>4, <2>1, <2>2, <2>3 DEF StopsTrue
<1>8. \A p \in Replaces : main'[p] = "idle" => stop'[<<"old", p>>] = "idle"
  <2> SUFFICES ASSUME NEW p \in Replaces, main'[p] = "idle"
               PROVE  stop'[<<"old", p>>] = "idle"
    OBVIOUS
  <2>1. main[p] = "idle"
    BY MainCases DEF TypeOK, Types, Procs
  <2>2. <<"old", p>> \in StopCalls
    BY DEF StopCalls
  <2>3. ~ StopDecide(<<"old", p>>)
    BY <2>1 DEF StopDecide, StopCalled
  <2> QED
    BY <1>4, <2>1, <2>2, <2>3 DEF StopsTrue
<1> QED
  BY <1>6, <1>7, <1>8 DEF StopsTrue

(* Every step keeps it true that only ended processes lose their ports.    *)
LEMMA RemovalsStep ==
  TypeOK /\ Bookkeeping /\ Stopping /\ [Next]_vars => RemovalsTrue'
<1> SUFFICES ASSUME TypeOK, Bookkeeping, Commands, StatesTrue, StopsTrue, RemovalsTrue,
                    [Next]_vars
             PROVE  RemovalsTrue'
  BY DEF Stopping
<1>0. /\ \A p \in Procs : Name(p) \in Names /\ p # NoProc
      /\ \A p \in Procs : Registered(p) => Published(p)
      /\ \A p \in Procs : Published(p) => ~ InFlight(p)
  BY Exclusive DEF TypeOK
<1>1. \A p \in Procs : Ended(p) => Ended(p)'
  BY EndedStable
<1>2. \A d \in Deletes : del'[d] = "commit" => Ended(target[d])'
  <2> SUFFICES ASSUME NEW d \in Deletes, del'[d] = "commit"
               PROVE  Ended(target[d])'
    OBVIOUS
  <2>1. /\ target'[d] = target[d]
        /\ del[d] = "commit" \/ (del[d] = "wait" /\ IsStopped(target[d]))
    <3>1. ASSUME NEW c \in Deletes, FindProcess(c)
          PROVE  c # d /\ target'[d] = target[d] /\ del'[d] = del[d]
      BY <3>1 DEF FindProcess, TypeOK, Types
    <3>2. ASSUME NEW c \in Deletes, UnregisterProcess(c) \/ UnregisterCommit(c)
          PROVE  c # d /\ target'[d] = target[d] /\ del'[d] = del[d]
      BY <3>2 DEF UnregisterProcess, UnregisterCommit, TypeOK, Types
    <3>3. ASSUME NEW c \in Deletes, UnregisterWait(c)
          PROVE  /\ target'[d] = target[d]
                 /\ del[d] = "commit" \/ (del[d] = "wait" /\ IsStopped(target[d]))
      BY <3>3 DEF UnregisterWait, TypeOK, Types
    <3> QED
      BY <3>1, <3>2, <3>3, DeleteCases DEF DeleteStep
  <2>2. PICK p \in Procs : p = target[d]
    BY <2>1 DEF TypeOK, Types, TargetsKnown
  <2>3. Ended(p)
    BY <2>1, <2>2 DEF RemovalsTrue, StatesTrue, IsStopped
  <2>4. Ended(p)'
    BY <1>1, <2>3
  <2>5. target'[d] = p
    BY <2>1, <2>2
  <2> QED
    BY <2>4, <2>5 DEF Ended, Dead
<1>3. \A p \in Procs : Holder(p)' \/ main'[p] = "idle" \/ Ended(p)'
  <2> SUFFICES ASSUME NEW q \in Procs, ~ Ended(q), Holder(q) \/ main[q] = "idle"
               PROVE  Holder(q)' \/ main'[q] = "idle" \/ Ended(q)'
    BY <1>1 DEF RemovalsTrue
  <2> USE DEF TypeOK, Types
  <2>0. main[q] = "idle" => cmd[q] = "nil"
    BY DEF Commands
  <2>1. CASE Quiet
    BY <2>1 DEF Quiet, Holder, Registered, InFlight, Name
  <2>2. ASSUME NEW p \in Procs, Reject(p) PROVE Holder(q)' \/ main'[q] = "idle" \/ Ended(q)'
    <3>1. UNCHANGED <<req, processes, cmd>> /\ main[p] = "idle" /\ Goto(p, "failed")
      BY <2>2 DEF Reject, requests, manager, procVars
    <3>2. CASE q = p
      BY <2>0, <3>1, <3>2 DEF Goto, Ended, Dead
    <3>3. CASE q # p
      BY <3>1, <3>3 DEF Goto, Holder, Registered, InFlight, Name
    <3> QED
      BY <3>2, <3>3
  <2>3. ASSUME NEW p \in Procs, Start(p) PROVE Holder(q)' \/ main'[q] = "idle" \/ Ended(q)'
    <3>1. UNCHANGED <<req, processes>> /\ main[p] = "start"
      BY <2>3 DEF Start, requests, manager
    <3>2. InFlight(q)' <=> InFlight(q)
      BY <2>3, ProcessManagerAssumption DEF Start, Goto, InFlight
    <3>3. Holder(q)' <=> Holder(q)
      BY <3>1, <3>2 DEF Holder, Registered, Name
    <3>4. main[q] = "idle" => main'[q] = "idle"
      BY <2>3 DEF Start, Goto
    <3> QED
      BY <3>3, <3>4
  <2>4. ASSUME NEW p \in Creates, RegisterProcess(p)
        PROVE  Holder(q)' \/ main'[q] = "idle" \/ Ended(q)'
    <3>1. UNCHANGED <<req, cmd>> /\ p \in Procs /\ p \notin Replaces /\ main[p] = "idle"
      BY <2>4, ProcessManagerAssumption DEF RegisterProcess, requests, procVars, Procs
    <3>2. CASE Goto(p, "failed") /\ UNCHANGED processes
      <4>1. CASE q = p
        BY <2>0, <3>1, <3>2, <4>1 DEF Goto, Ended, Dead
      <4>2. CASE q # p
        BY <3>1, <3>2, <4>2 DEF Goto, Holder, Registered, InFlight, Name
      <4> QED
        BY <4>1, <4>2
    <3>3. CASE /\ processes[Name(p)] = NoProc
               /\ processes' = [processes EXCEPT ![Name(p)] = p]
               /\ Goto(p, "start")
      <4>1. CASE q = p
        BY <1>0, <3>1, <3>3, <4>1 DEF Holder, Registered, Name
      <4>2. CASE q # p
        BY <1>0, <3>1, <3>3, <4>2 DEF Goto, Holder, Registered, InFlight, Name
      <4> QED
        BY <4>1, <4>2
    <3> QED
      BY <2>4, <3>2, <3>3 DEF RegisterProcess, manager
  <2>5. ASSUME NEW p \in Replaces, InitProcessReplace(p)
        PROVE  Holder(q)' \/ main'[q] = "idle" \/ Ended(q)'
    <3>1. UNCHANGED <<req, cmd, processes>> /\ p \in Procs /\ main[p] = "idle"
      BY <2>5 DEF InitProcessReplace, requests, procVars, manager, Procs
    <3>2. \E pc \in {"failed", "sameBinary", "start"} : Goto(p, pc)
      BY <2>5 DEF InitProcessReplace
    <3>3. CASE q = p
      <4>1. CASE main'[p] = "failed"
        BY <2>0, <3>1, <3>3, <4>1 DEF Ended, Dead
      <4>2. CASE main'[p] \in {"sameBinary", "start"}
        BY <3>3, <4>2 DEF Holder, InFlight
      <4> QED
        BY <3>1, <3>2, <4>1, <4>2 DEF Goto
    <3>4. CASE q # p
      BY <3>1, <3>2, <3>4 DEF Goto, Holder, Registered, InFlight, Name
    <3> QED
      BY <3>3, <3>4
  <2>6. ASSUME NEW p \in Replaces, ReplacePoll(p)
        PROVE  Holder(q)' \/ main'[q] = "idle" \/ Ended(q)'
    <3>1. UNCHANGED <<req, processes>> /\ p \in Procs
      BY <2>6 DEF ReplacePoll, requests, manager, Procs
    <3>2. (InFlight(q)' <=> InFlight(q)) /\ (main[q] = "idle" => main'[q] = "idle")
      BY <2>6, <3>1 DEF ReplacePoll, Goto, InFlight
    <3> QED
      BY <3>1, <3>2 DEF Holder, Registered, Name
  <2>7. ASSUME NEW p \in Replaces, ReplaceCommit(p)
        PROVE  Holder(q)' \/ main'[q] = "idle" \/ Ended(q)'
    <3>1. UNCHANGED req /\ p \in Procs /\ main[p] = "stopOld"
      BY <2>7 DEF ReplaceCommit, requests, Procs
    <3>2. \E pc \in {"done", "cleanup"} : Goto(p, pc)
      BY <2>7 DEF ReplaceCommit
    <3>3. main[q] = "idle" => main'[q] = "idle"
      BY <3>1, <3>2 DEF Goto
    <3>4. q # p => (InFlight(q)' <=> InFlight(q))
      BY <3>1, <3>2 DEF Goto, InFlight
    <3>5. CASE UNCHANGED processes /\ Goto(p, "cleanup")
      <4>1. InFlight(q)' <=> InFlight(q)
        BY <3>1, <3>5 DEF Goto, InFlight
      <4> QED
        BY <3>1, <3>3, <3>5, <4>1 DEF Holder, Registered, Name
    <3>6. CASE /\ processes[Name(p)] \in {NoProc, old[p]}
               /\ processes' = [processes EXCEPT ![Name(p)] = p]
      <4>1. CASE q = p
        BY <1>0, <3>1, <3>6, <4>1 DEF Holder, Registered, Name
      <4>2. CASE q # p
        <5>1. Ended(old[p])
          <6>1. <<"old", p>> \in StopCalls /\ stop[<<"old", p>>] # "idle"
            BY <2>7 DEF ReplaceCommit, StopReturned, StopCalls
          <6>2. Stopped(<<"old", p>>) = old[p]
            BY DEF Stopped
          <6> QED
            BY <6>1, <6>2 DEF StopsTrue
        <5>2. q # old[p]
          BY <5>1
        <5>3. Registered(q)' <=> Registered(q)
          BY <1>0, <3>1, <3>6, <4>2, <5>2 DEF Registered, Name
        <5> QED
          BY <3>3, <3>4, <4>2, <5>3 DEF Holder
      <4> QED
        BY <4>1, <4>2
    <3> QED
      BY <2>7, <3>5, <3>6 DEF ReplaceCommit
  <2>8. ASSUME NEW p \in Replaces, CleanupReplacementProcess(p)
        PROVE  Holder(q)' \/ main'[q] = "idle" \/ Ended(q)'
    <3>1. UNCHANGED <<req, processes>> /\ p \in Procs /\ Goto(p, "failed")
      BY <2>8 DEF CleanupReplacementProcess, requests, Procs
    <3>2. <<"cleanup", p>> \in StopCalls /\ stop[<<"cleanup", p>>] # "idle"
      BY <2>8 DEF CleanupReplacementProcess, StopReturned, StopCalls
    <3>3. Stopped(<<"cleanup", p>>) = p
      BY DEF Stopped
    <3>4. q # p
      BY <3>2, <3>3 DEF StopsTrue
    <3> QED
      BY <3>1, <3>4 DEF Goto, Holder, Registered, InFlight, Name
  <2>9. ASSUME NEW d \in Deletes, UnregisterCommit(d)
        PROVE  Holder(q)' \/ main'[q] = "idle" \/ Ended(q)'
    <3>1. UNCHANGED <<req, main>> /\ del[d] = "commit"
      BY <2>9 DEF UnregisterCommit, requests
    <3>2. q # target[d]
      BY <3>1 DEF RemovalsTrue
    <3>3. Registered(q) => Registered(q)'
      BY <1>0, <2>9, <3>1, <3>2 DEF UnregisterCommit, StillRegistered, Registered, Name
    <3> QED
      BY <3>1, <3>3 DEF Holder, InFlight
  <2> QED
    BY <2>1, <2>2, <2>3, <2>4, <2>5, <2>6, <2>7, <2>8, <2>9, StepCases
<1> QED
  BY <1>2, <1>3 DEF RemovalsTrue

(* The inductive invariant holds at first.                                 *)
LEMMA InitIInv == Init => IInv
<1> SUFFICES ASSUME Init PROVE IInv
  OBVIOUS
<1> USE DEF Init
<1>1. TypeOK
  <2>1. /\ data \subseteq Positions /\ start \in 0 .. Size
        /\ ports \in [Procs -> ({0} \cup AllPorts) \X ({0} \cup AllPorts)]
    BY BitmapAssumption
  <2>2. TargetsKnown
    BY DEF TargetsKnown, Procs
  <2> QED
    BY <2>1, <2>2 DEF TypeOK, Types
<1>2. Bookkeeping
  BY DEF Bookkeeping
<1>3. PortAccounting
  <2>1. FreePorts = AllPorts
    BY InitialPorts DEF FreePorts
  <2>2. \A p \in Procs : PortsOf(p) = {}
    BY DEF PortsOf
  <2> QED
    BY <2>1, <2>2 DEF PortAccounting
<1>4. Commands /\ StatesTrue
  BY DEF Commands, StatesTrue
<1>5. StopsTrue
  BY DEF StopsTrue, StopCalls
<1>6. RemovalsTrue
  BY DEF RemovalsTrue
<1> QED
  BY <1>1, <1>2, <1>3, <1>4, <1>5, <1>6 DEF IInv, Stopping

(* Every step preserves it.                                                *)
LEMMA NextIInv == IInv /\ [Next]_vars => IInv'
BY TypesStep, TargetsStep, BookkeepingStep, PortsStep, CommandsStep, StatesStep,
   StopsStep, RemovalsStep
   DEF IInv, TypeOK, Stopping

(* The inductive invariant holds in every state of the process manager.    *)
THEOREM ProcessManagerInvariant == Spec => []IInv
BY InitIInv, NextIInv, PTL DEF Spec

(* The variables keep their types, and no handler goes on with a process   *)
(* it has not found.                                                       *)
THEOREM TypeCorrect == Spec => []TypeOK
BY ProcessManagerInvariant, PTL DEF IInv

(* However many ProcessCreate, ProcessReplace and ProcessDelete calls run  *)
(* at once, every port is free or held by exactly one process.             *)
THEOREM PortsAccounted == Spec => []PortAccounting
BY ProcessManagerInvariant, PTL DEF IInv

(* At first the pool has all ports.                                        *)
LEMMA InitPool == Init => Pool!Init
<1> SUFFICES ASSUME Init PROVE Pool!Init
  OBVIOUS
<1>1. FreePorts = AllPorts
  BY InitialPorts DEF Init, FreePorts
<1>2. \A p \in Procs : ports[p][1] = 0
  BY DEF Init
<1>3. HeldRanges = {}
  BY <1>2 DEF HeldRanges
<1> QED
  BY <1>1, <1>3 DEF Pool!Init

(* The process manager, its calls and all their goroutines implement the   *)
(* abstract pool of ports.                                                 *)
THEOREM Implementation == Spec => ImplementsPortPool
<1>1. ASSUME IInv, [Next]_vars PROVE [Pool!Next]_(Pool!vars)
  BY <1>1, PortCases, PoolStep DEF IInv
<1> QED
  BY InitPool, <1>1, ProcessManagerInvariant, PTL DEF Spec, ImplementsPortPool, Pool!Spec

(* No process without a deletion timestamp runs on ports that may be given *)
(* to another.                                                             *)
THEOREM PortsOfTheRunning == Spec => []RunningHoldsPorts
<1>1. IInv => RunningHoldsPorts
  BY DEF IInv, Stopping, RemovalsTrue, Commands, RunningHoldsPorts, IsRunning, Ended, Dead
<1> QED
  BY <1>1, ProcessManagerInvariant, PTL

(* Of the processes registered under a name, now or earlier, at most one   *)
(* runs that has no deletion timestamp.                                    *)
THEOREM SingleOwner == Spec => []OneOwner
<1>1. IInv => OneOwner
  <2> SUFFICES ASSUME IInv, NEW p \in Procs, NEW q \in Procs, Name(p) = Name(q),
                      Published(p), IsRunning(p), ~ deletion[p],
                      Published(q), IsRunning(q), ~ deletion[q]
               PROVE  p = q
    BY DEF OneOwner
  <2>1. ASSUME NEW r \in Procs, Published(r), IsRunning(r), ~ deletion[r]
        PROVE  Registered(r)
    <3>1. Holder(r)
      BY <2>1 DEF IInv, Stopping, RemovalsTrue, Commands, IsRunning, Ended, Dead
    <3>2. ~ InFlight(r)
      BY <2>1, Exclusive DEF IInv, TypeOK
    <3> QED
      BY <3>1, <3>2 DEF Holder
  <2> QED
    BY <2>1 DEF Registered
<1> QED
  BY <1>1, ProcessManagerInvariant, PTL

(* The goroutine of Start is at cmd.Run exactly while the command runs.    *)
RunsCommand == \A p \in Procs : IsRunning(p) <=> run[p] = "running"

(* Every step keeps it so.                                                 *)
LEMMA RunsCommandStep == IInv /\ RunsCommand /\ [Next]_vars => RunsCommand'
<1> SUFFICES ASSUME Types, Commands, RunsCommand, [Next]_vars PROVE RunsCommand'
  BY DEF IInv, TypeOK, Stopping
<1> USE DEF Types, RunsCommand, IsRunning
<1>1. ASSUME NEW p \in Procs, Start(p) PROVE RunsCommand'
  BY <1>1 DEF Start, Commands
<1>2. ASSUME NEW p \in Procs, RunStart(p) PROVE RunsCommand'
  BY <1>2 DEF RunStart
<1>3. ASSUME NEW p \in Procs, RunExit(p) PROVE RunsCommand'
  BY <1>3 DEF RunExit
<1>4. ASSUME NEW p \in Procs, RunSetState(p) PROVE RunsCommand'
  BY <1>4 DEF RunSetState
<1>5. ASSUME NEW s \in StopCalls, StopRunning(s) \/ StopWait(s) PROVE RunsCommand'
  BY <1>5 DEF StopRunning, StopWait, Killed, threads
<1>6. \/ UNCHANGED <<cmd, run>>
      \/ \E p \in Procs : Start(p) \/ RunStart(p) \/ RunExit(p) \/ RunSetState(p)
      \/ \E s \in StopCalls : StopRunning(s) \/ StopWait(s)
  BY DEF Next, vars, procVars, threads, ProcStep, ReplaceStep, StopStep, DeleteStep,
         Reject, RegisterProcess, InitProcessReplace, ReplacePoll, ReplaceCommit,
         CleanupReplacementProcess, ProbeServing, ProbeGivesUp, ProbeSetRunning,
         StopDecide, StopSpawn, StopNotRunning, StopSetStopped, FindProcess,
         UnregisterProcess, UnregisterWait, UnregisterCommit
<1> QED
  BY <1>1, <1>2, <1>3, <1>4, <1>5, <1>6

(* A step of a stop goroutine moves no other, and leaves the goroutine     *)
(* that runs the command alone.                                            *)
LEMMA StopMoves ==
  ASSUME Types, NEW s \in StopCalls, StopStep(s)
  PROVE  UNCHANGED run /\ \A t \in StopCalls \ {s} : stop'[t] = stop[t]
BY DEF Types, StopStep, StopDecide, StopSpawn, StopRunning, StopNotRunning, StopSetStopped,
       StopWait, threads

(* Whoever is to end a stopping process hands it on or has ended it.       *)
LEMMA StoppingStep == IInv /\ RunsCommand /\ StoppingEnds /\ [Next]_vars => StoppingEnds'
<1> SUFFICES ASSUME IInv, RunsCommand, StoppingEnds, [Next]_vars,
                    NEW p \in Procs, state'[p] = "stopping"
             PROVE  StopUnderWay(p)'
  BY DEF StoppingEnds
<1>0. TypeOK /\ Types /\ Commands /\ StopsTrue
  BY DEF IInv, TypeOK, Stopping
<1>1. \A s \in StopCalls : stop[s] # "idle" => Stopped(s)' = Stopped(s)
  BY <1>0, StoppedStable
<1>2. ASSUME NEW s \in StopCalls, StopStep(s)
      PROVE  StopUnderWay(p)'
  <2>1. UNCHANGED run /\ \A t \in StopCalls \ {s} : stop'[t] = stop[t]
    BY <1>0, <1>2, StopMoves
  <2>2. cmd[p] = "killed" => cmd'[p] = "killed"
    BY <1>0, <1>2 DEF StopStep, StopDecide, StopSpawn, StopRunning, StopNotRunning,
                      StopSetStopped, StopWait, procVars, Killed, Types
  <2>3. ASSUME state[p] = "stopping",
               Stopped(s) = p /\ stop[s] = "wait"
                 => run[p] # "running" \/ cmd'[p] = "killed" \/ stop'[s] = "wait",
               Stopped(s) = p /\ stop[s] \in {"decidedStop", "noCmd", "stop", "setStopped"}
                 => \/ stop'[s] \in {"decidedStop", "noCmd", "stop", "setStopped"}
                    \/ run[p] = "running" /\ stop'[s] = "wait"
        PROVE  StopUnderWay(p)'
    <3>1. CASE run[p] = "setStopped"
      BY <2>1, <3>1 DEF StopUnderWay
    <3>2. CASE run[p] = "running" /\ cmd[p] = "killed"
      BY <2>1, <2>2, <3>2 DEF StopUnderWay
    <3>3. CASE run[p] = "running" /\ StopAt(p, {"wait"})
      <4>1. PICK t \in StopCalls : Stopped(t) = p /\ stop[t] = "wait"
        BY <3>3 DEF StopAt
      <4>2. Stopped(t)' = p /\ (stop'[t] = "wait" \/ cmd'[p] = "killed")
        BY <1>1, <2>1, <2>3, <3>3, <4>1
      <4> QED
        BY <2>1, <3>3, <4>2 DEF StopUnderWay, StopAt
    <3>4. CASE StopAt(p, {"decidedStop", "noCmd", "stop", "setStopped"})
      <4>1. PICK t \in StopCalls : /\ Stopped(t) = p
                                   /\ stop[t] \in {"decidedStop", "noCmd", "stop", "setStopped"}
        BY <3>4 DEF StopAt
      <4>2. /\ Stopped(t)' = p
            /\ \/ stop'[t] \in {"decidedStop", "noCmd", "stop", "setStopped"}
               \/ run[p] = "running" /\ stop'[t] = "wait"
        BY <1>1, <2>1, <2>3, <4>1
      <4> QED
        BY <2>1, <4>2 DEF StopUnderWay, StopAt
    <3> QED
      BY <2>3, <3>1, <3>2, <3>3, <3>4 DEF StoppingEnds, StopUnderWay
  <2>4. CASE StopDecide(s)
    <3>1. CASE state[p] = "stopping"
      BY <2>3, <2>4, <3>1 DEF StopDecide
    <3>2. CASE state[p] # "stopping"
      <4>1. Stopped(s)' = p /\ stop'[s] = "decidedStop"
        BY <1>0, <2>4, <3>2 DEF StopDecide, Types, Stopped, calls
      <4> QED
        BY <4>1 DEF StopUnderWay, StopAt
    <3> QED
      BY <3>1, <3>2
  <2>5. CASE StopSpawn(s)
    BY <1>0, <2>3, <2>5 DEF StopSpawn, procVars, Types
  <2>6. CASE StopRunning(s)
    BY <1>0, <2>3, <2>6 DEF StopRunning, RunsCommand, Types
  <2>7. CASE StopNotRunning(s)
    BY <1>0, <2>3, <2>7 DEF StopNotRunning, IsStopped, procVars, Types
  <2>8. CASE StopSetStopped(s)
    BY <1>0, <2>3, <2>8 DEF StopSetStopped, Types
  <2>9. CASE StopWait(s)
    <3>1. state[p] = "stopping" /\ ~ IsStopped(p)
      BY <2>9 DEF StopWait, IsStopped
    <3>2. Stopped(s) = p /\ run[p] = "running" => cmd'[p] = "killed"
      BY <1>0, <2>9, <3>1 DEF StopWait, Killed, RunsCommand, IsRunning, Types
    <3>3. stop[s] = "wait"
      BY <2>9 DEF StopWait
    <3> QED
      BY <2>3, <3>1, <3>2, <3>3
  <2> QED
    BY <1>2, <2>4, <2>5, <2>6, <2>7, <2>8, <2>9 DEF StopStep
<1>3. ASSUME UNCHANGED stop, state[p] = "stopping",
             \/ run'[p] = run[p] /\ cmd'[p] = cmd[p]
             \/ run'[p] = "setStopped"
             \/ run[p] \notin {"running", "setStopped"}
      PROVE  StopUnderWay(p)'
  <2>1. ASSUME NEW places, "idle" \notin places, StopAt(p, places) PROVE StopAt(p, places)'
    BY <1>1, <1>3, <2>1 DEF StopAt
  <2>2. /\ StopAt(p, {"wait"}) => StopAt(p, {"wait"})'
        /\ StopAt(p, {"decidedStop", "noCmd", "stop", "setStopped"})
             => StopAt(p, {"decidedStop", "noCmd", "stop", "setStopped"})'
    BY <2>1
  <2> QED
    BY <1>3, <2>2 DEF StoppingEnds, StopUnderWay
<1>4. ASSUME NEW q \in Procs, Start(q) \/ RunStart(q) \/ RunExit(q) \/ RunSetState(q)
      PROVE  StopUnderWay(p)'
  <2>1. UNCHANGED stop /\ state[p] = "stopping"
    BY <1>0, <1>4 DEF Start, RunStart, RunExit, RunSetState, Types
  <2>2. \/ run'[p] = run[p] /\ cmd'[p] = cmd[p]
        \/ run'[p] = "setStopped"
        \/ run[p] \notin {"running", "setStopped"}
    BY <1>0, <1>4 DEF Start, RunStart, RunExit, RunSetState, Commands, Types
  <2> QED
    BY <1>3, <2>1, <2>2
<1>5. ASSUME UNCHANGED <<stop, cmd, run>>, state[p] = "stopping" PROVE StopUnderWay(p)'
  BY <1>3, <1>5
<1>6. \/ \E q \in Procs : Start(q) \/ RunStart(q) \/ RunExit(q) \/ RunSetState(q)
      \/ \E s \in StopCalls : StopStep(s)
      \/ UNCHANGED <<stop, cmd, run, state>>
      \/ \E q \in Procs : ProbeSetRunning(q)
  BY DEF Next, vars, procVars, threads, ProcStep, ReplaceStep, DeleteStep,
         Reject, RegisterProcess, InitProcessReplace, ReplacePoll, ReplaceCommit,
         CleanupReplacementProcess, ProbeServing, ProbeGivesUp,
         FindProcess, UnregisterProcess, UnregisterWait, UnregisterCommit
<1>7. ASSUME NEW q \in Procs, ProbeSetRunning(q) PROVE StopUnderWay(p)'
  <2>1. UNCHANGED <<stop, cmd, run>> /\ state[p] = "stopping"
    BY <1>0, <1>7 DEF ProbeSetRunning, Types
  <2> QED
    BY <1>5, <2>1
<1> QED
  BY <1>2, <1>4, <1>5, <1>6, <1>7

(* A stopping process always has a goroutine that will end it or record    *)
(* that it ended, whichever of StopWithSignal's calls raced for it.        *)
THEOREM StopsCarriedOut == Spec => []StoppingEnds
<1>1. Init => RunsCommand /\ StoppingEnds
  BY DEF Init, RunsCommand, IsRunning, StoppingEnds
<1> QED
  BY <1>1, RunsCommandStep, StoppingStep, ProcessManagerInvariant, PTL DEF Spec
-----------------------------------------------------------------------------
(***************************************************************************)
(* The daemon, for any number of servers, calls and names.                 *)
(*                                                                         *)
(* Whatever the daemon does to the process manager is a step of the        *)
(* process manager, the end of the daemon excepted, so the inductive       *)
(* invariant above holds here as well and is the base of what follows.     *)
(***************************************************************************)
(* No signal has come and no server has ended or been stopped.             *)
Undisturbed ==
  /\ ~ sigs
  /\ handler = "receive"
  /\ stopped = {}
  /\ \A s \in Servers : serve[s] = "serving"

(* Where the servers and the handler are before start begins to wait for   *)
(* them and once it has returned; cleanup has an outcome when it is over.  *)
Phases ==
  /\ daemon = "setup" => Undisturbed
  /\ daemon = "returned" => \/ Undisturbed
                            \/ /\ handler = "done"
                               /\ \A s \in Servers : serve[s] = "returned"
  /\ outcome # "none" <=> serve[PmServer] = "returned"

(* Cleanup asks for each name with the delete call of that name.           *)
OwnDeletes == \A n \in Names : delName[n] = n

(* Cleanup listed what had been registered, and each process it listed has *)
(* ended, has its timestamp, or is one that it has still to delete or is   *)
(* deleting.                                                               *)
Pending(p) == \/ Name(p) \in toDelete
              \/ del[Name(p)] = "stop" /\ target[Name(p)] = p

CleanupTrue ==
  /\ \A p \in listed : Published(p)
  /\ \A p \in listed : Ended(p) \/ Pending(p)
  /\ outcome # "none" => \A p \in listed : Ended(p)

(* A process that ran when cleanup listed it, with no stop before: a stop  *)
(* that comes later finds the command, and the state says stopped only     *)
(* once the command has ended, so that no goroutine gives up on it early.  *)
StoppedLive(p) ==
  /\ cmd[p] \in {"running", "killed", "exited"}
  /\ IsStopped(p) => cmd[p] = "exited"
  /\ ~ StopAt(p, {"noCmd"})
  /\ StopAt(p, {"setStopped"}) => cmd[p] = "exited"
  /\ deletion[p] => ToldToStop(p)

LiveTrue == \A p \in live : StoppedLive(p)

DaemonIInv == IInv /\ DaemonTypeOK /\ Phases /\ OwnDeletes /\ CleanupTrue /\ LiveTrue

(* What a step of the daemon does to the process manager is a step of the  *)
(* process manager, the end of the daemon excepted.                        *)
LEMMA ManagerSteps == [DaemonNext]_allVars => [Next]_vars \/ Return
<1> USE DEF Manager, servers, cleanup
<1>1. ASSUME UNCHANGED vars PROVE [Next]_vars
  BY <1>1
<1>2. ASSUME \/ Setup \/ Signal \/ HandlerStep \/ CleanupList \/ CleanupWait
             \/ \E s \in Servers : ServeStopped(s) \/ ServeFails(s)
             \/ \E c \in ClientCalls : Arrive(c)
      PROVE  [Next]_vars
  BY <1>1, <1>2 DEF Setup, Signal, HandlerStep, HandlerReceive, HandlerStop, CleanupList,
                    CleanupWait, ServeStopped, ServeFails, Arrive
<1>3. ASSUME NEW n \in Names, CleanupDelete(n) PROVE [Next]_vars
  BY <1>3, DaemonAssumption DEF CleanupDelete, Next
<1>4. ASSUME NEW c \in ClientCalls, Call(c) PROVE [Next]_vars
  BY <1>4 DEF Call, Next
<1>5. ASSUME \/ \E p \in Procs : Manager(ProcStep(p) \/ RunExit(p) \/ ProbeServing(p))
             \/ \E p \in Replaces : Manager(ReplaceStep(p))
             \/ \E s \in StopCalls : Manager(StopStep(s))
             \/ \E d \in Deletes : Manager(DeleteStep(d))
      PROVE  [Next]_vars
  BY <1>5 DEF Next
<1>6. ASSUME UNCHANGED allVars PROVE [Next]_vars
  BY <1>1, <1>6 DEF allVars
<1> QED
  BY <1>2, <1>3, <1>4, <1>5, <1>6 DEF DaemonNext, CleanupStep

(* A process that has ended, or has its timestamp, stays so.               *)
LEMMA EndedStays ==
  ASSUME IInv, [DaemonNext]_allVars
  PROVE  \A p \in Procs : Ended(p) => Ended(p)'
<1>1. CASE [Next]_vars
  BY <1>1, EndedStable DEF IInv, Stopping
<1>2. CASE Return
  BY <1>2 DEF Return, Ended, Dead, IsRunning, IInv, TypeOK, Types, calls
<1> QED
  BY <1>1, <1>2, ManagerSteps

(* So does a process that has been under its name in the registry.         *)
LEMMA PublishedStays ==
  ASSUME IInv, [DaemonNext]_allVars
  PROVE  \A p \in Procs : Published(p) => Published(p)'
<1> USE DEF IInv, TypeOK, Types, Procs, Published
<1>1. ASSUME UNCHANGED main PROVE \A p \in Procs : Published(p) => Published(p)'
  BY <1>1
<1>2. ASSUME NEW p \in Procs, Reject(p) \/ Start(p)
      PROVE  \A q \in Procs : Published(q) => Published(q)'
  BY <1>2, ProcessManagerAssumption DEF Reject, Start, Goto
<1>3. ASSUME NEW p \in Creates, RegisterProcess(p)
      PROVE  \A q \in Procs : Published(q) => Published(q)'
  BY <1>3 DEF RegisterProcess, Goto
<1>4. ASSUME NEW p \in Replaces, \/ InitProcessReplace(p) \/ ReplacePoll(p)
                                \/ ReplaceCommit(p) \/ CleanupReplacementProcess(p)
      PROVE  \A q \in Procs : Published(q) => Published(q)'
  BY <1>4, ProcessManagerAssumption
     DEF InitProcessReplace, ReplacePoll, ReplaceCommit, CleanupReplacementProcess, Goto
<1>5. Return => UNCHANGED main
  BY DEF Return, calls
<1> QED
  BY <1>1, <1>2, <1>3, <1>4, <1>5, ManagerSteps, StepCases DEF Quiet, UnregisterCommit

(* The end of the daemon, and with it of what ran, keeps the invariant of  *)
(* the process manager.                                                    *)
LEMMA ReturnIInv == IInv /\ Return => IInv'
<1> SUFFICES ASSUME IInv, Return PROVE IInv'
  OBVIOUS
<1> USE DEF IInv, Return, requests, manager, calls, threads
<1>1. TypeOK'
  BY DEF TypeOK, Types, TargetsKnown
<1>2. Bookkeeping'
  BY DEF Bookkeeping, Name, Published
<1>3. PortAccounting'
  BY DEF PortAccounting, Holder, Registered, InFlight, PortsOf, FreePorts, Name
<1>4. Commands'
  BY DEF Stopping, Commands, TypeOK, Types, IsRunning
<1>5. \A p \in Procs : Ended(p) => Ended(p)'
  BY DEF Ended, Dead, IsRunning, TypeOK, Types
<1>6. StatesTrue'
  BY <1>5 DEF Stopping, StatesTrue
<1>7. StopsTrue'
  <2>1. \A s \in StopCalls : Stopped(s)' = Stopped(s)
    BY DEF Stopped
  <2> QED
    BY <1>5, <2>1 DEF Stopping, StopsTrue
<1>8. RemovalsTrue'
  <2>1. \A d \in Deletes : del[d] = "commit" => target[d] \in Procs
    BY DEF TypeOK, Types, TargetsKnown
  <2> QED
    BY <1>5, <2>1 DEF Stopping, RemovalsTrue, Holder, Registered, InFlight, Name
<1> QED
  BY <1>1, <1>2, <1>3, <1>4, <1>6, <1>7, <1>8 DEF Stopping

(* Every step of the daemon keeps the invariant of the process manager.    *)
LEMMA ManagerKept == IInv /\ [DaemonNext]_allVars => IInv'
BY ManagerSteps, NextIInv, ReturnIInv

(* The variables of the daemon keep their types.                           *)
LEMMA DaemonTypesStep ==
  IInv /\ DaemonTypeOK /\ [DaemonNext]_allVars => DaemonTypeOK'
<1> SUFFICES ASSUME IInv, DaemonTypeOK, [DaemonNext]_allVars PROVE DaemonTypeOK'
  OBVIOUS
<1>0. TypeOK'
  BY ManagerKept DEF IInv
<1> USE <1>0, DaemonAssumption DEF DaemonTypeOK, servers, cleanup, daemonVars
<1>1. CASE Setup \/ Signal \/ Return
  BY <1>1 DEF Setup, Signal, Return
<1>2. CASE HandlerStep
  BY <1>2 DEF HandlerStep, HandlerReceive, HandlerStop
<1>3. CASE CleanupList
  BY <1>3 DEF CleanupList, ServerGoto, Registry, TypeOK, Types
<1>4. CASE CleanupWait
  BY <1>4 DEF CleanupWait, SendSigterm, ServerGoto
<1>5. ASSUME NEW n \in Names, CleanupDelete(n) PROVE DaemonTypeOK'
  BY <1>5 DEF CleanupDelete
<1>6. ASSUME NEW s \in Servers, ServeStopped(s) \/ ServeFails(s) PROVE DaemonTypeOK'
  BY <1>6 DEF ServeStopped, ServeFails, AfterServe, SendSigterm, ServerGoto
<1>7. ASSUME NEW c \in ClientCalls, Arrive(c) PROVE DaemonTypeOK'
  BY <1>7 DEF Arrive
<1>8. ASSUME UNCHANGED daemonVars PROVE DaemonTypeOK'
  BY <1>8
<1> QED
  BY <1>1, <1>2, <1>3, <1>4, <1>5, <1>6, <1>7, <1>8
     DEF DaemonNext, CleanupStep, Call, Manager, allVars

(* Every step keeps the phases of the shutdown.                            *)
LEMMA PhasesStep == DaemonTypeOK /\ Phases /\ [DaemonNext]_allVars => Phases'
<1> SUFFICES ASSUME DaemonTypeOK, Phases, [DaemonNext]_allVars PROVE Phases'
  OBVIOUS
<1> USE DaemonAssumption DEF DaemonTypeOK, Phases, Undisturbed, servers, cleanup, daemonVars
<1>1. CASE Setup \/ Signal \/ Return
  BY <1>1 DEF Setup, Signal, Return
<1>2. CASE HandlerStep
  BY <1>2 DEF HandlerStep, HandlerReceive, HandlerStop
<1>3. CASE CleanupList
  BY <1>3 DEF CleanupList, ServerGoto
<1>4. CASE CleanupWait
  BY <1>4 DEF CleanupWait, SendSigterm, ServerGoto
<1>5. ASSUME NEW n \in Names, CleanupDelete(n) PROVE Phases'
  BY <1>5 DEF CleanupDelete
<1>6. ASSUME NEW s \in Servers, ServeStopped(s) \/ ServeFails(s) PROVE Phases'
  BY <1>6 DEF ServeStopped, ServeFails, AfterServe, SendSigterm, ServerGoto
<1>7. ASSUME NEW c \in ClientCalls, Arrive(c) PROVE Phases'
  BY <1>7 DEF Arrive
<1>8. ASSUME UNCHANGED daemonVars PROVE Phases'
  BY <1>8
<1> QED
  BY <1>1, <1>2, <1>3, <1>4, <1>5, <1>6, <1>7, <1>8
     DEF DaemonNext, CleanupStep, Call, Manager, allVars

(* The requests of the calls never change.                                 *)
LEMMA RequestsKept == [DaemonNext]_allVars => UNCHANGED <<req, delName>>
BY ManagerSteps, StepCases
   DEF Quiet, Reject, Start, RegisterProcess, InitProcessReplace, ReplacePoll, ReplaceCommit,
       CleanupReplacementProcess, UnregisterCommit, Return, requests

(* A process that was registered once, has not ended and has no timestamp  *)
(* is still registered.                                                    *)
LEMMA NotLost ==
  ASSUME IInv, NEW p \in Procs, Published(p), ~ Ended(p)
  PROVE  Name(p) \in Names /\ processes[Name(p)] = p /\ p # NoProc
<1>1. Name(p) \in Names /\ p # NoProc /\ ~ InFlight(p)
  BY Exclusive DEF IInv, TypeOK
<1>2. Holder(p)
  BY DEF IInv, Stopping, RemovalsTrue, Published
<1> QED
  BY <1>1, <1>2 DEF Holder, Registered

(* Until then no step but those of cleanup makes a process that it has     *)
(* still to delete, or is deleting, any other.                             *)
LEMMA PendingStays ==
  ASSUME IInv, DaemonTypeOK, [DaemonNext]_allVars, UNCHANGED toDelete,
         NEW p \in Procs, Pending(p)
  PROVE  Ended(p)' \/ Pending(p)'
<1>0. Name(p)' = Name(p) /\ Name(p) \in Names
  BY RequestsKept DEF Name, IInv, TypeOK, Types, Request
<1> DEFINE n == Name(p)
<1>1. CASE n \in toDelete
  BY <1>0, <1>1 DEF Pending
<1>2. CASE del[n] = "stop" /\ target[n] = p
  <2>0. n \in Deletes /\ n \in Names
    BY <1>0, DaemonAssumption
  <2>1. CASE UNCHANGED <<del, target>>
    BY <1>0, <1>2, <2>1 DEF Pending
  <2>2. ASSUME NEW d \in Deletes, FindProcess(d) \/ UnregisterWait(d) \/ UnregisterCommit(d)
        PROVE  Pending(p)'
    <3>1. d # n
      BY <1>2, <2>2 DEF FindProcess, UnregisterWait, UnregisterCommit
    <3>2. del'[n] = del[n] /\ target'[n] = target[n]
      BY <2>0, <2>2, <3>1 DEF FindProcess, UnregisterWait, UnregisterCommit, IInv, TypeOK, Types
    <3> QED
      BY <1>0, <1>2, <3>2 DEF Pending
  <2>3. ASSUME NEW d \in Deletes, UnregisterProcess(d)
        PROVE  Ended(p)' \/ Pending(p)'
    <3>1. CASE d # n
      <4>1. del'[n] = del[n] /\ target'[n] = target[n]
        BY <2>0, <2>3, <3>1 DEF UnregisterProcess, IInv, TypeOK, Types
      <4> QED
        BY <1>0, <1>2, <4>1 DEF Pending
    <3>2. CASE d = n
      <4>1. <<"delete", d>> \in StopCalls
        BY DEF StopCalls
      <4>2. Ended(Stopped(<<"delete", d>>))
        BY <2>3, <4>1 DEF UnregisterProcess, StopReturned, IInv, Stopping, StopsTrue
      <4>3. Stopped(<<"delete", d>>) = p
        BY <1>2, <3>2 DEF Stopped
      <4> QED
        BY <4>2, <4>3, EndedStays
    <3> QED
      BY <3>1, <3>2
  <2>4. Return => UNCHANGED <<del, target>>
    BY DEF Return, calls
  <2> QED
    BY <2>1, <2>2, <2>3, <2>4, ManagerSteps, DeleteCases DEF DeleteStep
<1> QED
  BY <1>1, <1>2 DEF Pending

(* Every step keeps what is known of the processes that cleanup listed.    *)
LEMMA CleanupStepTrue == DaemonIInv /\ [DaemonNext]_allVars => CleanupTrue'
<1> SUFFICES ASSUME DaemonIInv, [DaemonNext]_allVars PROVE CleanupTrue'
  OBVIOUS
<1>0. /\ listed \subseteq Procs
      /\ \A p \in Procs : Published(p) => Published(p)'
      /\ \A p \in Procs : Ended(p) => Ended(p)'
      /\ \A p \in Procs : Name(p)' = Name(p)
  BY EndedStays, PublishedStays, RequestsKept DEF DaemonIInv, DaemonTypeOK, Name
<1>1. CASE CleanupList
  <2>1. \A p \in listed' : Name(p) \in toDelete' /\ p \in Procs /\ Published(p)
    BY <1>1 DEF CleanupList, Registry, DaemonIInv, IInv, Bookkeeping, TypeOK, Types
  <2>2. outcome' = "none"
    BY <1>1 DEF CleanupList, DaemonIInv, Phases
  <2> QED
    BY <1>0, <2>1, <2>2 DEF CleanupTrue, Pending
<1>2. ASSUME NEW n \in Names, CleanupDelete(n) PROVE CleanupTrue'
  <2>1. ASSUME NEW p \in listed, ~ Ended(p) PROVE Pending(p)'
    <3>0. p \in Procs /\ n \in Deletes /\ delName[n] = n
      BY <1>0, DaemonAssumption DEF DaemonIInv, OwnDeletes
    <3>1. Name(p) \in Names /\ processes[Name(p)] = p /\ p # NoProc
      BY <2>1, <3>0, NotLost DEF DaemonIInv, CleanupTrue
    <3>2. CASE Name(p) = n
      <4>1. target'[n] = p /\ del'[n] = "stop"
        BY <1>2, <3>0, <3>1, <3>2
           DEF CleanupDelete, FindProcess, DaemonIInv, IInv, TypeOK, Types
      <4> QED
        BY <1>0, <3>0, <3>2, <4>1 DEF Pending
    <3>3. CASE Name(p) # n
      <4>1. Name(p) \in Deletes
        BY <3>1, DaemonAssumption
      <4>2. del'[Name(p)] = del[Name(p)] /\ target'[Name(p)] = target[Name(p)]
        BY <1>2, <3>3, <4>1 DEF CleanupDelete, FindProcess, DaemonIInv, IInv, TypeOK, Types
      <4>3. Pending(p)
        BY <2>1 DEF DaemonIInv, CleanupTrue
      <4> QED
        BY <1>0, <1>2, <3>0, <3>3, <4>2, <4>3 DEF Pending, CleanupDelete
    <3> QED
      BY <3>2, <3>3
  <2>2. outcome' = outcome /\ listed' = listed
    BY <1>2 DEF CleanupDelete
  <2> QED
    BY <1>0, <2>1, <2>2 DEF DaemonIInv, CleanupTrue
<1>3. CASE CleanupWait
  <2>1. \A p \in listed : Name(p) \in Names
    BY <1>0, Exclusive DEF DaemonIInv, IInv, TypeOK
  <2>2. \A p \in listed : Ended(p)
    BY <1>3, <2>1 DEF CleanupWait, DeleteReturned, Pending, DaemonIInv, CleanupTrue
  <2> QED
    BY <1>0, <1>3, <2>2 DEF CleanupWait, DaemonIInv, CleanupTrue
<1>4. ASSUME UNCHANGED cleanup PROVE CleanupTrue'
  <2>1. \A p \in listed : Ended(p)' \/ Pending(p)'
    BY <1>0, <1>4, PendingStays DEF DaemonIInv, CleanupTrue, cleanup
  <2> QED
    BY <1>0, <1>4, <2>1 DEF DaemonIInv, CleanupTrue, cleanup
<1>5. \/ CleanupList \/ CleanupWait
      \/ \E n \in Names : CleanupDelete(n)
      \/ UNCHANGED cleanup
  BY DEF DaemonNext, CleanupStep, Setup, Signal, HandlerStep, HandlerReceive, HandlerStop,
         Return, ServeStopped, ServeFails, Arrive, Call, Manager, allVars, daemonVars
<1> QED
  BY <1>1, <1>2, <1>3, <1>4, <1>5

(* A process that runs, and on which no stop was recorded, has none under  *)
(* way.                                                                    *)
LEMMA LiveBegins ==
  ASSUME IInv, NEW p \in Procs, IsRunning(p), ~ deletion[p]
  PROVE  StoppedLive(p)
<1>1. ~ Ended(p)
  BY DEF Ended, Dead, IsRunning
<1>2. ~ IsStopped(p)
  BY <1>1 DEF IInv, Stopping, StatesTrue, IsStopped
<1>3. ~ StopAt(p, {"noCmd"}) /\ ~ StopAt(p, {"setStopped"})
  BY <1>1 DEF IInv, Stopping, StopsTrue, StopAt
<1> QED
  BY <1>2, <1>3 DEF StoppedLive, IsRunning

(* Every step of the process manager keeps what is known of such a         *)
(* process; the end of the daemon ends it.                                 *)
LEMMA LiveStays ==
  ASSUME IInv, [DaemonNext]_allVars, NEW p \in Procs, StoppedLive(p)
  PROVE  StoppedLive(p)'
<1>0. TypeOK /\ Types /\ Commands /\ StopsTrue
  BY DEF IInv, TypeOK, Stopping
<1>1. CASE Return
  <2>1. \A s \in StopCalls : Stopped(s)' = Stopped(s)
    BY <1>1 DEF Return, Stopped, calls
  <2>2. cmd'[p] = "exited" /\ UNCHANGED stop
    BY <1>0, <1>1 DEF Return, IsRunning, StoppedLive, Types
  <2> QED
    BY <2>1, <2>2 DEF StoppedLive, StopAt, ToldToStop
<1>2. CASE [Next]_vars
  <2>1. \A s \in StopCalls : stop[s] # "idle" => Stopped(s)' = Stopped(s)
    BY <1>0, <1>2, StoppedStable
  <2>2. ASSUME UNCHANGED stop,
               cmd'[p] = cmd[p] \/ cmd'[p] = "exited",
               IsStopped(p)' => IsStopped(p) \/ cmd'[p] = "exited",
               deletion'[p] = deletion[p]
        PROVE  StoppedLive(p)'
    <3>1. /\ ~ StopAt(p, {"noCmd"})'
          /\ StopAt(p, {"setStopped"})' => StopAt(p, {"setStopped"})
      BY <2>1, <2>2 DEF StopAt, StoppedLive
    <3>2. StopAt(p, {"decidedStop", "stop", "wait"})
            => StopAt(p, {"decidedStop", "stop", "wait"})'
      BY <2>1, <2>2 DEF StopAt
    <3> QED
      BY <2>2, <3>1, <3>2 DEF StoppedLive, ToldToStop
  <2>3. ASSUME NEW s \in StopCalls, StopStep(s) PROVE StoppedLive(p)'
    <3>1. \A t \in StopCalls \ {s} : stop'[t] = stop[t]
      BY <1>0, <2>3, StopMoves
    <3>2. \A t \in StopCalls : Stopped(t)' = Stopped(t)
      BY <2>3 DEF StopStep, StopDecide, StopSpawn, StopRunning, StopNotRunning,
                  StopSetStopped, StopWait, calls, Stopped
    <3>3. /\ cmd'[p] \in {"running", "killed", "exited"}
          /\ cmd[p] # "running" => cmd'[p] = cmd[p]
      BY <1>0, <2>3 DEF StopStep, StopDecide, StopSpawn, StopRunning, StopNotRunning,
                        StopSetStopped, StopWait, procVars, Killed, Types, StoppedLive
    <3>4. /\ Stopped(s) = p => stop[s] # "noCmd"
          /\ Stopped(s) = p /\ stop[s] = "setStopped" => cmd[p] = "exited"
      BY DEF StoppedLive, StopAt
    <3>5. IsStopped(p)' => cmd'[p] = "exited"
      <4>1. CASE UNCHANGED state \/ state'[p] = state[p]
        BY <3>3, <4>1 DEF StoppedLive, IsStopped
      <4>2. CASE StopSetStopped(s)
        <5>1. CASE Stopped(s) = p
          BY <3>3, <3>4, <4>2, <5>1 DEF StopSetStopped
        <5>2. CASE Stopped(s) # p
          BY <1>0, <4>1, <4>2, <5>2 DEF StopSetStopped, Types
        <5> QED
          BY <5>1, <5>2
      <4>3. CASE StopDecide(s)
        <5>1. state'[p] = state[p] \/ state'[p] = "stopping"
          BY <1>0, <4>3 DEF StopDecide, Types
        <5> QED
          BY <4>1, <5>1 DEF IsStopped
      <4> QED
        BY <2>3, <4>1, <4>2, <4>3
           DEF StopStep, StopSpawn, StopRunning, StopNotRunning, StopWait, procVars
    <3>6. Stopped(s) = p => /\ stop'[s] # "noCmd"
                            /\ stop'[s] = "setStopped" => cmd'[p] = "exited"
      <4> SUFFICES ASSUME Stopped(s) = p
                   PROVE  /\ stop'[s] # "noCmd"
                          /\ stop'[s] = "setStopped" => cmd'[p] = "exited"
        OBVIOUS
      <4>1. CASE StopDecide(s) \/ StopSetStopped(s) \/ StopWait(s) \/ StopRunning(s)
        BY <1>0, <4>1 DEF StopDecide, StopSetStopped, StopWait, StopRunning, Types
      <4>2. CASE StopSpawn(s)
        BY <1>0, <4>2 DEF StopSpawn, StoppedLive, Types
      <4>3. CASE StopNotRunning(s)
        BY <1>0, <3>3, <3>4, <4>3 DEF StopNotRunning, StoppedLive, IsRunning, Types
      <4> QED
        BY <2>3, <4>1, <4>2, <4>3 DEF StopStep
    <3>7. deletion'[p] => deletion[p] \/ (Stopped(s) = p /\ stop'[s] = "decidedStop")
      BY <1>0, <2>3 DEF StopStep, StopDecide, StopSpawn, StopRunning, StopNotRunning,
                        StopSetStopped, StopWait, procVars, Types
    <3>8. Stopped(s) = p /\ stop[s] \in {"decidedStop", "stop", "wait"}
            => stop'[s] \in {"decidedStop", "stop", "wait"} \/ cmd'[p] \in {"killed", "exited"}
      <4> SUFFICES ASSUME Stopped(s) = p, stop[s] \in {"decidedStop", "stop", "wait"}
                   PROVE  \/ stop'[s] \in {"decidedStop", "stop", "wait"}
                          \/ cmd'[p] \in {"killed", "exited"}
        OBVIOUS
      <4>1. CASE StopDecide(s) \/ StopSetStopped(s)
        BY <4>1 DEF StopDecide, StopSetStopped
      <4>2. CASE StopSpawn(s)
        BY <1>0, <4>2 DEF StopSpawn, StoppedLive, Types
      <4>3. CASE StopRunning(s)
        BY <1>0, <4>3 DEF StopRunning, Types
      <4>4. CASE StopNotRunning(s)
        BY <3>3, <4>4 DEF StopNotRunning, StoppedLive, IsRunning
      <4>5. CASE StopWait(s)
        BY <1>0, <3>3, <4>5 DEF StopWait, StoppedLive, Killed, Types
      <4> QED
        BY <2>3, <4>1, <4>2, <4>3, <4>4, <4>5 DEF StopStep
    <3>9. ~ StopAt(p, {"noCmd"})' /\ (StopAt(p, {"setStopped"})' => cmd'[p] = "exited")
      BY <3>1, <3>2, <3>3, <3>6 DEF StopAt, StoppedLive
    <3>10. deletion'[p] => ToldToStop(p)'
      <4>1. ASSUME deletion[p] PROVE ToldToStop(p)'
        <5>1. CASE cmd[p] \in {"killed", "exited"}
          BY <3>3, <5>1 DEF ToldToStop
        <5>2. CASE StopAt(p, {"decidedStop", "stop", "wait"})
          BY <3>1, <3>2, <3>8, <5>2 DEF ToldToStop, StopAt
        <5> QED
          BY <4>1, <5>1, <5>2 DEF StoppedLive, ToldToStop
      <4>2. ASSUME Stopped(s) = p, stop'[s] = "decidedStop" PROVE ToldToStop(p)'
        BY <3>2, <4>2 DEF ToldToStop, StopAt
      <4> QED
        BY <3>7, <4>1, <4>2
    <3> QED
      BY <3>3, <3>5, <3>9, <3>10 DEF StoppedLive
  <2>4. ASSUME NEW q \in Procs, Start(q) PROVE StoppedLive(p)'
    <3>1. q # p
      BY <1>0, <2>4 DEF Start, Commands, StoppedLive
    <3> QED
      BY <1>0, <2>2, <2>4, <3>1 DEF Start, IsStopped, Types
  <2>5. ASSUME NEW q \in Procs, RunStart(q) PROVE StoppedLive(p)'
    <3>1. q # p
      BY <1>0, <2>5 DEF RunStart, Commands, StoppedLive
    <3> QED
      BY <1>0, <2>2, <2>5, <3>1 DEF RunStart, IsStopped, Types
  <2>6. ASSUME NEW q \in Procs, RunExit(q) PROVE StoppedLive(p)'
    BY <1>0, <2>2, <2>6 DEF RunExit, IsStopped, Types
  <2>7. ASSUME NEW q \in Procs, RunSetState(q) PROVE StoppedLive(p)'
    BY <1>0, <2>2, <2>7 DEF RunSetState, Commands, IsStopped, Types
  <2>8. ASSUME NEW q \in Procs, ProbeSetRunning(q) PROVE StoppedLive(p)'
    BY <1>0, <2>2, <2>8 DEF ProbeSetRunning, IsStopped, Types
  <2>9. ASSUME UNCHANGED <<stop, cmd, state, deletion>> PROVE StoppedLive(p)'
    BY <2>2, <2>9 DEF IsStopped
  <2>10. \/ \E q \in Procs : Start(q) \/ RunStart(q) \/ RunExit(q) \/ RunSetState(q)
         \/ \E q \in Procs : ProbeSetRunning(q)
         \/ \E s \in StopCalls : StopStep(s)
         \/ UNCHANGED <<stop, cmd, state, deletion>>
    BY <1>2
       DEF Next, vars, procVars, ProcStep, ReplaceStep, DeleteStep,
           Reject, RegisterProcess, InitProcessReplace, ReplacePoll, ReplaceCommit,
           CleanupReplacementProcess, ProbeServing, ProbeGivesUp,
           FindProcess, UnregisterProcess, UnregisterWait, UnregisterCommit
  <2> QED
    BY <2>3, <2>4, <2>5, <2>6, <2>7, <2>8, <2>9, <2>10
<1> QED
  BY <1>1, <1>2, ManagerSteps

(* Every step keeps it so of all processes that ran when cleanup began.    *)
LEMMA LiveStep == DaemonIInv /\ [DaemonNext]_allVars => LiveTrue'
<1> SUFFICES ASSUME DaemonIInv, [DaemonNext]_allVars, NEW p \in live'
             PROVE  StoppedLive(p)'
  BY DEF LiveTrue
<1>1. CASE UNCHANGED live
  <2>1. p \in Procs /\ StoppedLive(p)
    BY <1>1 DEF DaemonIInv, DaemonTypeOK, LiveTrue
  <2> QED
    BY <2>1, LiveStays DEF DaemonIInv
<1>2. CASE CleanupList
  <2>1. p \in Procs /\ IsRunning(p) /\ ~ deletion[p]
    BY <1>2 DEF CleanupList, Registry, DaemonIInv, IInv, TypeOK, Types
  <2>2. StoppedLive(p)
    BY <2>1, LiveBegins DEF DaemonIInv
  <2> QED
    BY <2>1, <2>2, LiveStays DEF DaemonIInv
<1>3. UNCHANGED live \/ CleanupList
  BY DEF DaemonNext, CleanupStep, CleanupDelete, CleanupWait, Setup, Signal, HandlerStep,
         HandlerReceive, HandlerStop, Return, ServeStopped, ServeFails, Arrive, Call, Manager,
         allVars, daemonVars, cleanup
<1> QED
  BY <1>1, <1>2, <1>3

(* The inductive invariant of the daemon holds in every state.             *)
THEOREM DaemonInvariant == DaemonSpec => []DaemonIInv
<1>1. DaemonInit => DaemonIInv
  <2> SUFFICES ASSUME DaemonInit PROVE DaemonIInv
    OBVIOUS
  <2>1. IInv
    BY InitIInv DEF DaemonInit
  <2> QED
    BY <2>1, DaemonAssumption
       DEF DaemonInit, DaemonIInv, IInv, DaemonTypeOK, Phases, Undisturbed, OwnDeletes,
           CleanupTrue, LiveTrue
<1>2. DaemonIInv /\ [DaemonNext]_allVars => DaemonIInv'
  BY ManagerKept, DaemonTypesStep, PhasesStep, RequestsKept, CleanupStepTrue, LiveStep
     DEF DaemonIInv, OwnDeletes
<1> QED
  BY <1>1, <1>2, PTL DEF DaemonSpec

(* The variables of the daemon and of the process manager inside it keep   *)
(* their types; cleanup deletes only names it has listed.                  *)
THEOREM DaemonTypeCorrect == DaemonSpec => []DaemonTypeOK
BY DaemonInvariant, PTL DEF DaemonIInv

(* However the calls in flight interleave with the shutdown, cleanup has   *)
(* an outcome when the daemon returns after a signal; then every process   *)
(* it listed has its deletion timestamp, and each of them that ran by then *)
(* has ended, was killed or is being stopped.                              *)
THEOREM ShutdownTellsAll == DaemonSpec => []AllToldToStop
<1>1. DaemonIInv => AllToldToStop
  <2> SUFFICES ASSUME DaemonIInv PROVE AllToldToStop
    OBVIOUS
  <2>1. daemon = "returned" /\ handler = "done" => outcome # "none"
    BY DaemonAssumption DEF DaemonIInv, Phases, Undisturbed
  <2>2. ASSUME outcome # "none", NEW p \in listed PROVE StopRecorded(p)
    BY <2>2 DEF DaemonIInv, CleanupTrue, StopRecorded, Ended, Dead
  <2>3. ASSUME outcome # "none", NEW p \in live PROVE ToldToStop(p)
    <3>1. Ended(p) /\ StoppedLive(p)
      BY <2>3 DEF DaemonIInv, DaemonTypeOK, CleanupTrue, LiveTrue
    <3> QED
      BY <3>1 DEF Ended, Dead, StoppedLive, ToldToStop
  <2> QED
    BY <2>1, <2>2, <2>3 DEF AllToldToStop
<1> QED
  BY <1>1, DaemonInvariant, PTL

(* What holds of the process manager holds of it in the daemon too, the    *)
(* cleanup and the end of the daemon included: every port is free or held  *)
(* by one process.                                                         *)
THEOREM DaemonPortsAccounted == DaemonSpec => []PortAccounting
BY DaemonInvariant, PTL DEF DaemonIInv, IInv

(* So it does within the daemon: the cleanup gives ports back as any other *)
(* delete does, and the end of the daemon leaves the pool alone.           *)
THEOREM DaemonImplementation == DaemonSpec => ImplementsPortPool
<1>1. ASSUME IInv, [DaemonNext]_allVars PROVE [Pool!Next]_(Pool!vars)
  <2>1. CASE [Next]_vars
    BY <1>1, <2>1, PortCases, PoolStep DEF IInv
  <2>2. CASE Return
    <3>1. UNCHANGED <<req, processes, data, ports, main>>
      BY <2>2 DEF Return, requests, manager, calls
    <3>2. PortsKept
      BY <3>1 DEF PortsKept, FreePorts, Holder, Registered, Name, InFlight
    <3> QED
      BY <1>1, <3>2, PoolStep DEF IInv
  <2> QED
    BY <1>1, <2>1, <2>2, ManagerSteps
<1>2. DaemonInit => Pool!Init
  BY InitPool DEF DaemonInit
<1>3. DaemonIInv => IInv
  BY DEF DaemonIInv
<1> QED
  BY <1>1, <1>2, <1>3, DaemonInvariant, PTL DEF DaemonSpec, ImplementsPortPool, Pool!Spec
=============================================================================
