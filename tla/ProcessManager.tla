--------------------------- MODULE ProcessManager ---------------------------
(***************************************************************************)
(* The process manager of the instance manager (pkg/process): the registry *)
(* of processes by name, the ports they hold, the life of each process,    *)
(* and the ProcessCreate, ProcessReplace and ProcessDelete handlers that   *)
(* work on them concurrently.                                              *)
(*                                                                         *)
(* Every ProcessCreate or ProcessReplace call makes one Process object     *)
(* with a UUID of its own, so the calls themselves are the objects: p in   *)
(* Creates \cup Replaces.  Each object may have the goroutines of Start    *)
(* (run: cmd.Run; probe: the health check) and those of the StopWithSignal *)
(* calls made on it.                                                       *)
(*                                                                         *)
(* The updates that all of them send are the subject of module             *)
(* UpdateChannel.  A send changes nothing here; that it may block is the   *)
(* delay any step may have.  Log files are left out, and so are            *)
(* ProcessGet, ProcessList and ProcessLog, which only read.                *)
(***************************************************************************)
EXTENDS Bitmap

CONSTANTS
  Creates,    \* the ProcessCreate calls (and the processes they make)
  Replaces,   \* the ProcessReplace calls (and the processes they make)
  Deletes,    \* the ProcessDelete calls
  Names,      \* process names the calls ask for
  Binaries,   \* binaries the calls ask for
  PortCounts, \* port counts the calls ask for
  NoProc      \* no process

Procs == Creates \cup Replaces

ASSUME ProcessManagerAssumption ==
  /\ Creates \cap Replaces = {}
  /\ NoProc \notin Procs
  /\ PortCounts \subseteq Nat

Request == [name : Names, binary : Binaries, portCount : PortCounts]

(* The StopWithSignal calls: one by each ProcessDelete, one by the health  *)
(* probe of a process that did not come up, and two by a ProcessReplace:   *)
(* on the process it replaces and, when it fails, on its own.              *)
StopCalls == ({"delete"} \X Deletes) \cup ({"probe"} \X Procs)
             \cup ({"old", "cleanup"} \X Replaces)

VARIABLES
  req,       \* the request of each create and replace call
  delName,   \* the name each delete call asks for
  processes, \* Manager.processes: the registry
  data,      \* Manager.availablePorts: free positions of the bitmap
  start,     \*   and its cursor
  ports,     \* Process.PortStart and PortEnd
  state,     \* Process.State
  deletion,  \* whether Process.DeletionTimestamp is set
  cmd,       \* Process.cmd and the operating system process behind it
  main,      \* where the create or replace call of each process is
  old,       \* processToReplace of each replace call
  run,       \* where the goroutine that runs the command is
  probe,     \* where the goroutine that probes the process is
  stop,      \* where each StopWithSignal call and its goroutine are
  del,       \* where each delete call and its unregister goroutine are
  target     \* the process a delete call found

requests == <<req, delName>>
manager  == <<processes, data, start, ports>>
procVars == <<state, deletion, cmd>>
calls    == <<main, old, del, target>>
threads  == <<run, probe>>
vars == <<requests, manager, procVars, calls, threads, stop>>

Init ==
  /\ req \in [Procs -> Request]
  /\ delName \in [Deletes -> Names]
  /\ processes = [n \in Names |-> NoProc]
  /\ data = Positions
  /\ start = 0
  /\ ports = [p \in Procs |-> <<0, 0>>]
  /\ state = [p \in Procs |-> "starting"]
  /\ deletion = [p \in Procs |-> FALSE]
  /\ cmd = [p \in Procs |-> "nil"]
  /\ main = [p \in Procs |-> "idle"]
  /\ old = [p \in Replaces |-> NoProc]
  /\ del = [d \in Deletes |-> "idle"]
  /\ target = [d \in Deletes |-> NoProc]
  /\ run = [p \in Procs |-> "idle"]
  /\ probe = [p \in Procs |-> "idle"]
  /\ stop = [s \in StopCalls |-> "idle"]

Name(p) == req[p].name

(* Process.IsStopped, and Command.IsRunning: started, not yet waited for.  *)
(* "stopped" is StateStopped or StateError: every condition of the code    *)
(* asks for either of the two.                                             *)
IsStopped(p) == state[p] = "stopped"
IsRunning(p) == cmd[p] \in {"running", "killed"}

(* allocateProcessPorts: no ports for a count of 0; otherwise a range, or  *)
(* an error when the bitmap has none.                                      *)
PortsRefused(p) == /\ req[p].portCount # 0
                   /\ Search(data, start, req[p].portCount) = NoRange

AllocateProcessPorts(p) ==
  LET count  == req[p].portCount
      rStart == Search(data, start, count)
      rEnd   == rStart + count - 1
  IN  \/ /\ count = 0
         /\ UNCHANGED <<data, start, ports>>
      \/ /\ count # 0
         /\ rStart # NoRange
         /\ data' = RemoveRange(data, rStart, rEnd)
         /\ start' = rEnd + 1
         /\ ports' = [ports EXCEPT ![p] = <<Base + rStart, Base + rEnd>>]

(* releaseProcessPorts: what it leaves free.                               *)
ReleaseProcessPorts(p) == ReleaseRange(data, ports[p][1], ports[p][2])

Goto(p, pc) == main' = [main EXCEPT ![p] = pc]
-----------------------------------------------------------------------------
(***************************************************************************)
(* ProcessCreate and ProcessReplace.                                       *)
(***************************************************************************)

(* A request that fails before it touches the manager: missing argument,   *)
(* wrong signal, the log file cannot be opened, or too many port args.     *)
Reject(p) ==
  /\ main[p] = "idle"
  /\ Goto(p, "failed")
  /\ UNCHANGED <<requests, manager, procVars, old, del, target, threads, stop>>

(* registerProcess, under Manager.lock.                                    *)
RegisterProcess(p) ==
  /\ main[p] = "idle"
  /\ \/ /\ processes[Name(p)] # NoProc \/ PortsRefused(p)
        /\ Goto(p, "failed")
        /\ UNCHANGED manager
     \/ /\ processes[Name(p)] = NoProc
        /\ AllocateProcessPorts(p)
        /\ processes' = [processes EXCEPT ![Name(p)] = p]
        /\ Goto(p, "start")
  /\ UNCHANGED <<requests, procVars, old, del, target, threads, stop>>

(* Process.Start, under the lock of the process: it does not look at the   *)
(* state.  A binary that is not found stops the process (StateError); else *)
(* the command is made and the run and probe goroutines are spawned.       *)
Start(p) ==
  /\ main[p] = "start"
  /\ \/ /\ state' = [state EXCEPT ![p] = "stopped"]
        /\ Goto(p, IF p \in Creates THEN "done" ELSE "cleanup")
        /\ UNCHANGED <<cmd, run, probe>>
     \/ /\ cmd' = [cmd EXCEPT ![p] = "created"]
        /\ run' = [run EXCEPT ![p] = "start"]
        /\ probe' = [probe EXCEPT ![p] = IF ports[p][1] # 0 THEN "wait"
                                                            ELSE "setRunning"]
        /\ Goto(p, IF p \in Creates THEN "done" ELSE "poll")
        /\ UNCHANGED state
  /\ UNCHANGED <<requests, manager, deletion, old, del, target, stop>>

(* initProcessReplace, under Manager.lock: ports for the replacement,      *)
(* which stays out of the registry.  A replacement with the binary of the  *)
(* registered process returns that process at once.                        *)
InitProcessReplace(p) ==
  /\ main[p] = "idle"
  /\ LET oldProcess == processes[Name(p)]
     IN  \/ /\ oldProcess = NoProc \/ PortsRefused(p)
            /\ Goto(p, "failed")
            /\ UNCHANGED <<manager, old>>
         \/ /\ oldProcess # NoProc
            /\ AllocateProcessPorts(p)
            /\ old' = [old EXCEPT ![p] = oldProcess]
            /\ Goto(p, IF req[oldProcess].binary = req[p].binary
                       THEN "sameBinary" ELSE "start")
            /\ UNCHANGED processes
  /\ UNCHANGED <<requests, procVars, del, target, threads, stop>>

(* The loop that waits for the replacement: it goes on to the old process  *)
(* when the replacement is running, and also when it is still starting     *)
(* after 30 rounds; any other state is a failure.                          *)
ReplacePoll(p) ==
  /\ main[p] = "poll"
  /\ Goto(p, IF state[p] \in {"starting", "running"} THEN "stopOld" ELSE "cleanup")
  /\ UNCHANGED <<requests, manager, procVars, old, del, target, threads, stop>>

(* StopWithSignal has returned to its caller.                              *)
StopReturned(s) == stop[s] \notin {"idle", "decidedStop", "decidedKill"}

(* Mutant: the process to replace is not stopped first.                    *)
ReplaceCommitWithoutStop(p) ==
  /\ main[p] = "stopOld"
  /\ processes[Name(p)] \in {NoProc, old[p]}
  /\ data' = IF processes[Name(p)] = NoProc THEN data
             ELSE ReleaseProcessPorts(processes[Name(p)])
  /\ processes' = [processes EXCEPT ![Name(p)] = p]
  /\ Goto(p, "done")
  /\ UNCHANGED <<requests, start, ports, procVars, old, del, target, threads, stop>>

(* The evaluation and assignment under Manager.lock.  A process of that    *)
(* name that is not the one to replace wins; one that is gone has already  *)
(* given its ports back.                                                   *)
ReplaceCommit(p) ==
  /\ main[p] = "stopOld"
  /\ StopReturned(<<"old", p>>)
  /\ LET existing == processes[Name(p)]
     IN  \/ /\ existing \in {NoProc, old[p]}
            /\ data' = IF existing = NoProc THEN data ELSE ReleaseProcessPorts(existing)
            /\ processes' = [processes EXCEPT ![Name(p)] = p]
            /\ Goto(p, "done")
         \/ /\ existing \notin {NoProc, old[p]}
            /\ Goto(p, "cleanup")
            /\ UNCHANGED <<data, processes>>
  /\ UNCHANGED <<requests, start, ports, procVars, old, del, target, threads, stop>>

(* cleanupReplacementProcess, after its p.Stop(): the ports go back at     *)
(* once, without Manager.lock.                                             *)
CleanupReplacementProcess(p) ==
  /\ main[p] = "cleanup"
  /\ StopReturned(<<"cleanup", p>>)
  /\ data' = ReleaseProcessPorts(p)
  /\ Goto(p, "failed")
  /\ UNCHANGED <<requests, processes, start, ports, procVars, old, del, target,
                 threads, stop>>
-----------------------------------------------------------------------------
(***************************************************************************)
(* The goroutine of Start that runs the command.                           *)
(***************************************************************************)

(* cmd.Run starts the operating system process, or fails to.               *)
RunStart(p) ==
  /\ run[p] = "start"
  /\ \/ /\ cmd' = [cmd EXCEPT ![p] = "running"]
        /\ run' = [run EXCEPT ![p] = "running"]
     \/ /\ cmd' = [cmd EXCEPT ![p] = "exited"]
        /\ run' = [run EXCEPT ![p] = "setStopped"]
  /\ UNCHANGED <<requests, manager, state, deletion, calls, probe, stop>>

(* The process ends, of itself or because it was signalled or killed;      *)
(* cmd.Run returns and the goroutine closes probeStopCh.                   *)
RunExit(p) ==
  /\ run[p] = "running"
  /\ cmd' = [cmd EXCEPT ![p] = "exited"]
  /\ run' = [run EXCEPT ![p] = "setStopped"]
  /\ UNCHANGED <<requests, manager, state, deletion, calls, probe, stop>>

RunSetState(p) ==
  /\ run[p] = "setStopped"
  /\ state' = [state EXCEPT ![p] = "stopped"]
  /\ run' = [run EXCEPT ![p] = "done"]
  /\ UNCHANGED <<requests, manager, deletion, cmd, calls, probe, stop>>

(***************************************************************************)
(* The goroutine of Start that probes the process.                         *)
(***************************************************************************)

(* GRPCHealthChecker.WaitForRunning: TRUE once a probe of the first port   *)
(* of p succeeds, whichever process answers there.  A probe that hangs     *)
(* succeeds too: on a timeout ExecuteWithTimeout wraps an error that is    *)
(* nil.  So it may be TRUE whatever runs.                                  *)
ProbeServing(p) ==
  /\ probe[p] = "wait"
  /\ probe' = [probe EXCEPT ![p] = "setRunning"]
  /\ UNCHANGED <<requests, manager, procVars, calls, run, stop>>

(* It is FALSE when the rounds are used up or probeStopCh is closed; the   *)
(* process is then stopped unless it is already.                           *)
ProbeGivesUp(p) ==
  /\ probe[p] = "wait"
  /\ probe' = [probe EXCEPT ![p] = IF IsStopped(p) THEN "done" ELSE "stop"]
  /\ UNCHANGED <<requests, manager, procVars, calls, run, stop>>

(* The state becomes running whatever it was.                              *)
ProbeSetRunning(p) ==
  /\ probe[p] = "setRunning"
  /\ state' = [state EXCEPT ![p] = "running"]
  /\ probe' = [probe EXCEPT ![p] = "done"]
  /\ UNCHANGED <<requests, manager, deletion, cmd, calls, run, stop>>
-----------------------------------------------------------------------------
(***************************************************************************)
(* Process.StopWithSignal.                                                 *)
(***************************************************************************)

(* The process the call is on, and that its caller has reached the call.   *)
Stopped(s) == CASE s[1] = "delete" -> target[s[2]]
                [] s[1] = "old" -> old[s[2]]
                [] OTHER -> s[2]

StopCalled(s) == CASE s[1] = "delete" -> del[s[2]] = "stop"
                   [] s[1] = "probe" -> probe[s[2]] = "stop"
                   [] s[1] = "old" -> main[s[2]] = "stopOld"
                   [] s[1] = "cleanup" -> main[s[2]] = "cleanup"

(* A stop of p is at one of the given places.                              *)
StopAt(p, places) == \E s \in StopCalls : Stopped(s) = p /\ stop[s] \in places

(* The section under the lock of the process: the first stop is recorded;  *)
(* a later one only retries, with a kill, what has been stopping for over  *)
(* 60 seconds.  Time is not modelled: once a stop is recorded, they may or *)
(* may not have passed.                                                    *)
StopDecide(s) ==
  LET p == Stopped(s)
      needStop == state[p] \notin {"stopping", "stopped"}
  IN  /\ stop[s] = "idle"
      /\ StopCalled(s)
      /\ \/ /\ needStop
            /\ state' = [state EXCEPT ![p] = "stopping"]
            /\ deletion' = [deletion EXCEPT ![p] = TRUE]
            /\ stop' = [stop EXCEPT ![s] = "decidedStop"]
         \/ /\ ~ needStop
            /\ stop' = [stop EXCEPT ![s] = "done"]
            /\ UNCHANGED <<state, deletion>>
         \/ /\ ~ needStop
            /\ deletion[p]
            /\ stop' = [stop EXCEPT ![s] = "decidedKill"]
            /\ UNCHANGED <<state, deletion>>
      /\ UNCHANGED <<requests, manager, cmd, calls, threads>>

(* Once its update is taken, the call reads Process.cmd and spawns the     *)
(* goroutine with what it read: a command made later is never signalled.   *)
StopSpawn(s) ==
  /\ stop[s] \in {"decidedStop", "decidedKill"}
  /\ stop' = [stop EXCEPT ![s] = IF cmd[Stopped(s)] = "nil" THEN "noCmd"
                                 ELSE IF @ = "decidedStop" THEN "stop" ELSE "kill"]
  /\ UNCHANGED <<requests, manager, procVars, calls, threads>>

(* What Kill makes of the operating system process.                        *)
Killed(p) == [cmd EXCEPT ![p] = IF @ = "running" THEN "killed" ELSE @]

(* The goroutine finds the command running: it signals it and waits, or    *)
(* kills it at once on a retry.                                            *)
StopRunning(s) ==
  LET p == Stopped(s)
  IN  /\ stop[s] \in {"stop", "kill"}
      /\ IsRunning(p)
      /\ cmd' = IF stop[s] = "kill" THEN Killed(p) ELSE cmd
      /\ stop' = [stop EXCEPT ![s] = IF @ = "stop" THEN "wait" ELSE "done"]
      /\ UNCHANGED <<requests, manager, state, deletion, calls, threads>>

(* It finds no command, or one that does not run: the state is read        *)
(* without the lock ...                                                    *)
StopNotRunning(s) ==
  LET p == Stopped(s)
  IN  /\ \/ stop[s] = "noCmd"
         \/ stop[s] \in {"stop", "kill"} /\ ~ IsRunning(p)
      /\ stop' = [stop EXCEPT ![s] = IF IsStopped(p) THEN "done" ELSE "setStopped"]
      /\ UNCHANGED <<requests, manager, procVars, calls, threads>>

(* ... and then written without it, and without an update being sent.      *)
StopSetStopped(s) ==
  /\ stop[s] = "setStopped"
  /\ state' = [state EXCEPT ![Stopped(s)] = "stopped"]
  /\ stop' = [stop EXCEPT ![s] = "done"]
  /\ UNCHANGED <<requests, manager, deletion, cmd, calls, threads>>

(* Mutant: the wait ends without a kill.                                   *)
StopWaitWithoutKill(s) ==
  /\ stop[s] = "wait"
  /\ stop' = [stop EXCEPT ![s] = "done"]
  /\ UNCHANGED <<requests, manager, procVars, calls, threads>>

(* A signalled process may or may not end.  The goroutine waits for it and *)
(* kills it when the wait is over.                                         *)
StopWait(s) ==
  LET p == Stopped(s)
  IN  /\ stop[s] = "wait"
      /\ cmd' = IF IsStopped(p) THEN cmd ELSE Killed(p)
      /\ stop' = [stop EXCEPT ![s] = "done"]
      /\ UNCHANGED <<requests, manager, state, deletion, calls, threads>>
-----------------------------------------------------------------------------
(***************************************************************************)
(* ProcessDelete and the goroutine of unregisterProcess.                   *)
(***************************************************************************)

(* Mutant: a name that is not found is not returned.                       *)
FindProcessUnchecked(d) ==
  /\ del[d] = "idle"
  /\ target' = [target EXCEPT ![d] = processes[delName[d]]]
  /\ del' = [del EXCEPT ![d] = "stop"]
  /\ UNCHANGED <<requests, manager, procVars, main, old, threads, stop>>

FindProcess(d) ==
  /\ del[d] = "idle"
  /\ target' = [target EXCEPT ![d] = processes[delName[d]]]
  /\ del' = [del EXCEPT ![d] = IF processes[delName[d]] = NoProc THEN "done"
                                                                 ELSE "stop"]
  /\ UNCHANGED <<requests, manager, procVars, main, old, threads, stop>>

(* The registered process is still the one that was stopped.               *)
StillRegistered(d) == processes[delName[d]] = target[d]

(* unregisterProcess spawns the goroutine and ProcessDelete returns.       *)
UnregisterProcess(d) ==
  /\ del[d] = "stop"
  /\ StopReturned(<<"delete", d>>)
  /\ del' = [del EXCEPT ![d] = IF StillRegistered(d) THEN "wait" ELSE "done"]
  /\ UNCHANGED <<requests, manager, procVars, main, old, target, threads, stop>>

(* The goroutine gives up on a process that has not stopped in 60 seconds. *)
UnregisterWait(d) ==
  /\ del[d] = "wait"
  /\ del' = [del EXCEPT ![d] = IF IsStopped(target[d]) THEN "commit" ELSE "done"]
  /\ UNCHANGED <<requests, manager, procVars, main, old, target, threads, stop>>

(* Mutant: the goroutine does not look again which process is registered.  *)
UnregisterCommitUnchecked(d) ==
  /\ del[d] = "commit"
  /\ processes' = [processes EXCEPT ![delName[d]] = NoProc]
  /\ data' = ReleaseProcessPorts(target[d])
  /\ del' = [del EXCEPT ![d] = "done"]
  /\ UNCHANGED <<requests, start, ports, procVars, main, old, target, threads, stop>>

(* Mutant: the ports go back, the registry keeps the process.              *)
UnregisterCommitKeepsEntry(d) ==
  /\ del[d] = "commit"
  /\ data' = IF StillRegistered(d) THEN ReleaseProcessPorts(target[d]) ELSE data
  /\ del' = [del EXCEPT ![d] = "done"]
  /\ UNCHANGED <<requests, processes, start, ports, procVars, main, old, target,
                 threads, stop>>

(* Under Manager.lock, a process that is still the registered one leaves   *)
(* the registry and gives its ports back.                                  *)
UnregisterCommit(d) ==
  /\ del[d] = "commit"
  /\ \/ /\ StillRegistered(d)
        /\ processes' = [processes EXCEPT ![delName[d]] = NoProc]
        /\ data' = ReleaseProcessPorts(target[d])
     \/ /\ ~ StillRegistered(d)
        /\ UNCHANGED <<processes, data>>
  /\ del' = [del EXCEPT ![d] = "done"]
  /\ UNCHANGED <<requests, start, ports, procVars, main, old, target, threads, stop>>
-----------------------------------------------------------------------------
(* The steps a goroutine takes once it is there, as against those the      *)
(* clients and the operating system processes are free to take.            *)
ProcStep(p) == \/ Start(p)
               \/ RunStart(p) \/ RunSetState(p)
               \/ ProbeGivesUp(p) \/ ProbeSetRunning(p)

ReplaceStep(p) == ReplacePoll(p) \/ ReplaceCommit(p) \/ CleanupReplacementProcess(p)

StopStep(s) == \/ StopDecide(s) \/ StopSpawn(s) \/ StopRunning(s)
               \/ StopNotRunning(s) \/ StopSetStopped(s) \/ StopWait(s)

DeleteStep(d) == UnregisterProcess(d) \/ UnregisterWait(d) \/ UnregisterCommit(d)

Next ==
  \/ \E p \in Procs : Reject(p) \/ ProcStep(p) \/ RunExit(p) \/ ProbeServing(p)
  \/ \E p \in Creates : RegisterProcess(p)
  \/ \E p \in Replaces : InitProcessReplace(p) \/ ReplaceStep(p)
  \/ \E s \in StopCalls : StopStep(s)
  \/ \E d \in Deletes : FindProcess(d) \/ DeleteStep(d)

Spec == Init /\ [][Next]_vars
-----------------------------------------------------------------------------
FreePorts == PortNumbers(data)

PortsOf(p) == IF ports[p][1] = 0 THEN {} ELSE ports[p][1] .. ports[p][2]

Registered(p) == processes[Name(p)] = p

(* A replacement between its allocation and its commit or cleanup; one     *)
(* with the binary of the old process keeps its ports when it returns.     *)
InFlight(p) == /\ p \in Replaces
               /\ main[p] \in {"start", "poll", "stopOld", "cleanup", "sameBinary"}

Holder(p) == Registered(p) \/ InFlight(p)

(* The process has been under its name in the registry.                    *)
Published(p) == \/ p \in Creates /\ main[p] \in {"start", "done"}
                \/ p \in Replaces /\ main[p] = "done"

Types ==
  /\ req \in [Procs -> Request]
  /\ delName \in [Deletes -> Names]
  /\ processes \in [Names -> Procs \cup {NoProc}]
  /\ data \subseteq Positions
  /\ start \in 0 .. Size
  /\ ports \in [Procs -> ({0} \cup AllPorts) \X ({0} \cup AllPorts)]
  /\ state \in [Procs -> {"starting", "running", "stopping", "stopped"}]
  /\ deletion \in [Procs -> BOOLEAN]
  /\ cmd \in [Procs -> {"nil", "created", "running", "killed", "exited"}]
  /\ main \in [Procs -> {"idle", "start", "poll", "stopOld", "cleanup",
                         "sameBinary", "done", "failed"}]
  /\ old \in [Replaces -> Procs \cup {NoProc}]
  /\ del \in [Deletes -> {"idle", "stop", "wait", "commit", "done"}]
  /\ target \in [Deletes -> Procs \cup {NoProc}]
  /\ run \in [Procs -> {"idle", "start", "running", "setStopped", "done"}]
  /\ probe \in [Procs -> {"idle", "wait", "setRunning", "stop", "done"}]
  /\ stop \in [StopCalls -> {"idle", "decidedStop", "decidedKill", "noCmd", "stop",
                             "kill", "setStopped", "wait", "done"}]

(* A call that is to stop or remove a process has one.                     *)
TargetsKnown ==
  /\ \A d \in Deletes : del[d] \in {"stop", "wait", "commit"} => target[d] # NoProc
  /\ \A p \in Replaces : main[p] \in {"start", "poll", "stopOld"} => old[p] # NoProc

(* Every variable has its type, and no handler uses a process it has not   *)
(* found (the nil pointer of findProcess and of initProcessReplace).       *)
TypeOK == Types /\ TargetsKnown

(* Whatever the calls and however they interleave, every port is either    *)
(* free or held by exactly one process: a registered one, a replacement in *)
(* flight, or one that returned early because the binary was the same.     *)
(* Nothing is released twice by ProcessDelete, ProcessReplace and the      *)
(* cleanup of a failed replacement (releaseProcessPorts).                  *)
PortAccounting ==
  /\ \A p \in Procs : Holder(p) => PortsOf(p) \cap FreePorts = {}
  /\ \A p, q \in Procs :
       Holder(p) /\ Holder(q) /\ p # q => PortsOf(p) \cap PortsOf(q) = {}
  /\ \A port \in AllPorts :
       port \in FreePorts \/ \E p \in Procs : Holder(p) /\ port \in PortsOf(p)

(* The ranges that processes hold.                                         *)
HeldRanges == {ports[p] : p \in {q \in Procs : Holder(q) /\ ports[q][1] # 0}}

Pool == INSTANCE PortPool WITH Ports <- AllPorts, free <- FreePorts, held <- HeldRanges

(* To its calls the process manager is an abstract pool of ports: each     *)
(* step of ProcessCreate, ProcessReplace, ProcessDelete and their          *)
(* goroutines takes one range of free ports, gives one range back whole    *)
(* and once, or leaves the pool alone; no range passes from one process to *)
(* another without having been free.                                       *)
ImplementsPortPool == Pool!Spec

(* A process that runs on ports which are no longer its own has a deletion *)
(* timestamp: ProcessReplace and ProcessDelete never give away the ports   *)
(* of a process on which StopWithSignal has not been called.               *)
RunningHoldsPorts ==
  \A p \in Procs : IsRunning(p) /\ ~ Holder(p) => deletion[p]

(* Of all the processes ever registered under a name at most one runs that *)
(* has no deletion timestamp: ProcessReplace and ProcessDelete stop a      *)
(* process before they let another have its name.  A process whose stop    *)
(* came before its launch has the timestamp and is launched all the same   *)
(* (NoOrphan); it may run beside its successor.                            *)
OneOwner ==
  \A p, q \in Procs :
    /\ Name(p) = Name(q)
    /\ Published(p) /\ IsRunning(p) /\ ~ deletion[p]
    /\ Published(q) /\ IsRunning(q) /\ ~ deletion[q]
    => p = q

(* A goroutine will still make the process stopped.                        *)
StopUnderWay(p) ==
  \/ run[p] = "setStopped"
  \/ run[p] = "running" /\ (cmd[p] = "killed" \/ StopAt(p, {"wait"}))
  \/ StopAt(p, {"decidedStop", "noCmd", "stop", "setStopped"})

(* A process that is stopping always has a goroutine that will see to its  *)
(* end: the one that runs it is about to record that it ended, or runs it  *)
(* while it is killed or waited for, or a stop goroutine has still to      *)
(* signal it or to set it stopped.  So however the stops of ProcessDelete, *)
(* ProcessReplace and the probe, their unlocked reads of the state, and    *)
(* the end of the command interleave (StopWithSignal), no process is left  *)
(* stopping with nobody at work on it, for which every later stop within a *)
(* minute does nothing and the unregister goroutine waits in vain.         *)
StoppingEnds == \A p \in Procs : state[p] = "stopping" => StopUnderWay(p)

(* "ProcessDelete will delete the process named by the request": a process *)
(* that has left the registry does not go on running with nobody left to   *)
(* stop it.                                                                *)
NoOrphan ==
  \A p \in Procs :
    /\ Published(p) /\ ~ Registered(p)
    /\ main[p] = "done" /\ probe[p] = "done" /\ cmd[p] = "running"
    => \E s \in StopCalls : Stopped(s) = p /\ stop[s] \notin {"idle", "done"}

(* A process that a stop goroutine has signalled ends, or is already taken *)
(* for stopped, some time later: one that ignores the signal is killed     *)
(* after the wait (StopWithSignal), so no delete or replace waits on it    *)
(* for ever.                                                               *)
StopEndsProcess ==
  \A p \in Procs :
    StopAt(p, {"wait"})
      ~> (cmd[p] = "exited" \/ IsStopped(p))
=============================================================================
