--------------------------- MODULE UpdateChannel ----------------------------
(***************************************************************************)
(* The locks and the update channel of the process manager.  Every         *)
(* goroutine that changes a process sends it on the one unbuffered channel *)
(* processUpdateCh; startMonitoring takes it, reads its state under the    *)
(* lock of the process, looks its name up under Manager.lock and           *)
(* broadcasts the event.  Only what a goroutine locks, sends and does to   *)
(* the registry is kept here; module ProcessManager has the rest.          *)
(*                                                                         *)
(* Threads: the ProcessCreate or ProcessReplace call of a process, its own *)
(* goroutines (the run, probe and stop ones all lock it, change it, unlock *)
(* it and send it), the goroutine that unregisters it, the mount point     *)
(* checker and the monitor.                                                *)
(***************************************************************************)
EXTENDS Naturals

CONSTANTS
  Creates,   \* processes that ProcessCreate may make
  Replaces,  \* processes that ProcessReplace may make
  Names,     \* their names
  NoProc,    \* no process, or no lock holder
  MaxUpdates, \* bound: updates the goroutines of one process send
  MaxChecks   \* bound: rounds of the mount point checker

Procs == Creates \cup Replaces

ASSUME UpdateChannelAssumption == /\ NoProc \notin Procs
                                  /\ MaxUpdates \in Nat
                                  /\ MaxChecks \in Nat

VARIABLES
  name,      \* Process.Name
  processes, \* Manager.processes
  waiting,   \* the calls and goroutines blocked in pm.lock.Lock()
  writer,    \* the call or unregister goroutine that holds Manager.lock
  reading,   \* whether the checker holds Manager.lock for reading
  locked,    \* the processes whose own goroutine holds their Process.lock
  call,      \* where the create or replace call is
  old,       \* processToReplace of a replace call
  life,      \* where the goroutines of the process are
  updates,   \* how many updates they have begun
  reap,      \* where the goroutine of unregisterProcess is
  checker,   \* where checkMountPointStatusForEngine is
  checks,    \* how many rounds it has begun
  toVisit,   \* processes it still has to look at
  toUpdate,  \* processesToUpdate
  monitor,   \* where startMonitoring is
  current,   \* the process it received
  announced  \* per name, what the last event said: none, exists or deleted

registry == <<name, processes, old>>
locks    == <<waiting, writer, reading, locked>>
goroutines == <<life, updates>>
check    == <<checker, checks, toVisit, toUpdate>>
watch    == <<monitor, current, announced>>
vars == <<registry, locks, call, goroutines, reap, check, watch>>

Init ==
  /\ name \in [Procs -> Names]
  /\ processes = [n \in Names |-> NoProc]
  /\ old = [p \in Procs |-> NoProc]
  /\ waiting = {}
  /\ writer = <<"none", NoProc>>
  /\ reading = FALSE
  /\ locked = {}
  /\ call = [p \in Procs |-> "idle"]
  /\ life = [p \in Procs |-> "idle"]
  /\ updates = [p \in Procs |-> 0]
  /\ reap = [p \in Procs |-> "idle"]
  /\ checker = "idle"
  /\ checks = 0
  /\ toVisit = {}
  /\ toUpdate = {}
  /\ monitor = "idle"
  /\ current = NoProc
  /\ announced = [n \in Names |-> "none"]

Unlocked == <<"none", NoProc>>

(* Manager.lock, a sync.RWMutex: Lock needs it to be free, RLock only that *)
(* nobody writes or waits to write.                                        *)
CanRLock == writer = Unlocked /\ waiting = {}
CanLock  == writer = Unlocked /\ ~ reading

(* p.UpdateCh <- p meets the receive of an idle monitor.                   *)
Send(p) == /\ monitor = "idle"
           /\ monitor' = "received"
           /\ current' = p
           /\ UNCHANGED announced
-----------------------------------------------------------------------------
(***************************************************************************)
(* The create or replace call of p.                                        *)
(***************************************************************************)

(* initProcessReplace, and the return when the binary is the same.         *)
InitProcessReplace(p) ==
  /\ call[p] = "idle"
  /\ CanLock
  /\ old' = [old EXCEPT ![p] = processes[name[p]]]
  /\ \/ call' = [call EXCEPT ![p] = "rejected"]
     \/ /\ processes[name[p]] # NoProc
        /\ call' = [call EXCEPT ![p] = "replacing"]
  /\ UNCHANGED <<name, processes, locks, goroutines, reap, check, watch>>

(* pm.lock.Lock() of registerProcess, and of ProcessReplace's commit:      *)
(* waits for the lock ...                                                  *)
CallWait(p, from) ==
  /\ call[p] = from
  /\ waiting' = waiting \cup {<<"call", p>>}
  /\ call' = [call EXCEPT ![p] = "waiting"]
  /\ UNCHANGED <<registry, writer, reading, locked, goroutines, reap, check, watch>>

(* ... and gets it.                                                        *)
CallLock(p) ==
  /\ call[p] = "waiting"
  /\ CanLock
  /\ writer' = <<"call", p>>
  /\ waiting' = waiting \ {<<"call", p>>}
  /\ call' = [call EXCEPT ![p] = "locked"]
  /\ UNCHANGED <<registry, reading, locked, goroutines, reap, check, watch>>

(* Mutant: the return with "has changed in the meantime" does not unlock.  *)
CallCommitKeepsLock(p) ==
  /\ call[p] = "locked"
  /\ \/ /\ processes[name[p]] \in {NoProc, old[p]}
        /\ processes' = [processes EXCEPT ![name[p]] = p]
        /\ call' = [call EXCEPT ![p] = "send"]
        /\ writer' = Unlocked
     \/ /\ processes[name[p]] \notin {NoProc, old[p]}
        /\ call' = [call EXCEPT ![p] = "failed"]
        /\ UNCHANGED <<processes, writer>>
  /\ UNCHANGED <<name, old, waiting, reading, locked, goroutines, reap, check, watch>>

(* The registry under the lock, and Unlock: a create registers a free      *)
(* name, a replace takes over from the process it found or a free name.    *)
CallCommit(p) ==
  /\ call[p] = "locked"
  /\ \/ /\ processes[name[p]] \in {NoProc, old[p]}
        /\ processes' = [processes EXCEPT ![name[p]] = p]
        /\ call' = [call EXCEPT ![p] = "send"]
     \/ /\ processes[name[p]] \notin {NoProc, old[p]}
        /\ call' = [call EXCEPT ![p] = "failed"]
        /\ UNCHANGED processes
  /\ writer' = Unlocked
  /\ UNCHANGED <<name, old, waiting, reading, locked, goroutines, reap, check, watch>>

CallSend(p) ==
  /\ call[p] = "send"
  /\ Send(p)
  /\ call' = [call EXCEPT ![p] = "done"]
  /\ UNCHANGED <<registry, locks, goroutines, reap, check>>

(***************************************************************************)
(* The goroutines of p: Start and StopWithSignal, once p is started, which *)
(* a create does after it has registered it and a replace before.          *)
(***************************************************************************)
LifeLock(p) ==
  /\ call[p] \in {"send", "done"} \cup
                 IF old[p] = NoProc THEN {} ELSE {"replacing", "waiting", "locked", "failed"}
  /\ life[p] = "idle"
  /\ updates[p] < MaxUpdates
  /\ p \notin locked
  /\ locked' = locked \cup {p}
  /\ life' = [life EXCEPT ![p] = "locked"]
  /\ updates' = [updates EXCEPT ![p] = @ + 1]
  /\ UNCHANGED <<registry, waiting, writer, reading, call, reap, check, watch>>

LifeUnlock(p) ==
  /\ life[p] = "locked"
  /\ locked' = locked \ {p}
  /\ life' = [life EXCEPT ![p] = "send"]
  /\ UNCHANGED <<registry, waiting, writer, reading, call, updates, reap, check, watch>>

LifeSend(p) ==
  /\ life[p] = "send"
  /\ Send(p)
  /\ life' = [life EXCEPT ![p] = "idle"]
  /\ UNCHANGED <<registry, locks, call, updates, reap, check>>

(***************************************************************************)
(* ProcessDelete and the goroutine of unregisterProcess.                   *)
(***************************************************************************)
UnregisterProcess(p) ==
  /\ reap[p] = "idle"
  /\ CanLock
  /\ processes[name[p]] = p
  /\ reap' = [reap EXCEPT ![p] = "wait"]
  /\ UNCHANGED <<registry, locks, call, goroutines, check, watch>>

(* It may give up on a process that does not stop; that ends it.           *)
ReapGiveUp(p) ==
  /\ reap[p] = "wait"
  /\ reap' = [reap EXCEPT ![p] = "done"]
  /\ UNCHANGED <<registry, locks, call, goroutines, check, watch>>

(* pm.lock.Lock() of the goroutine.                                        *)
ReapWait(p) ==
  /\ reap[p] = "wait"
  /\ waiting' = waiting \cup {<<"reap", p>>}
  /\ reap' = [reap EXCEPT ![p] = "waiting"]
  /\ UNCHANGED <<registry, writer, reading, locked, call, goroutines, check, watch>>

ReapLock(p) ==
  /\ reap[p] = "waiting"
  /\ CanLock
  /\ writer' = <<"reap", p>>
  /\ waiting' = waiting \ {<<"reap", p>>}
  /\ reap' = [reap EXCEPT ![p] = "locked"]
  /\ UNCHANGED <<registry, reading, locked, call, goroutines, check, watch>>

(* Mutant: only the mutex is given up, no update is sent.                  *)
ReapCommitWithoutSend(p) ==
  /\ reap[p] = "locked"
  /\ processes' = IF processes[name[p]] = p
                  THEN [processes EXCEPT ![name[p]] = NoProc]
                  ELSE processes
  /\ writer' = Unlocked
  /\ reap' = [reap EXCEPT ![p] = "done"]
  /\ UNCHANGED <<name, old, waiting, reading, locked, call, goroutines, check, watch>>

(* The process leaves the registry if it is still the registered one; the  *)
(* update is sent in either case.                                          *)
ReapCommit(p) ==
  /\ reap[p] = "locked"
  /\ processes' = IF processes[name[p]] = p
                  THEN [processes EXCEPT ![name[p]] = NoProc]
                  ELSE processes
  /\ writer' = Unlocked
  /\ reap' = [reap EXCEPT ![p] = "send"]
  /\ UNCHANGED <<name, old, waiting, reading, locked, call, goroutines, check, watch>>

ReapSend(p) ==
  /\ reap[p] = "send"
  /\ Send(p)
  /\ reap' = [reap EXCEPT ![p] = "done"]
  /\ UNCHANGED <<registry, locks, call, goroutines, check>>
-----------------------------------------------------------------------------
(***************************************************************************)
(* checkMountPointStatusForEngine.                                         *)
(***************************************************************************)

(* getProcessesToUpdateConditions takes Manager.lock for reading and ...   *)
CheckerRLock ==
  /\ checker = "idle"
  /\ checks < MaxChecks
  /\ CanRLock
  /\ reading' = TRUE
  /\ checker' = "visiting"
  /\ checks' = checks + 1
  /\ toVisit' = {p \in Procs : processes[name[p]] = p}
  /\ UNCHANGED <<registry, waiting, writer, locked, call, goroutines, reap, toUpdate,
                 watch>>

(* ... under it the lock of each registered process; a running engine with *)
(* a mount point gets its condition and is to be sent.                     *)
CheckerVisit(p) ==
  /\ checker = "visiting"
  /\ p \in toVisit
  /\ p \notin locked
  /\ toVisit' = toVisit \ {p}
  /\ toUpdate' \in {toUpdate, toUpdate \cup {p}}
  /\ UNCHANGED <<registry, locks, call, goroutines, reap, checker, checks, watch>>

(* Mutant: the updates are sent before the lock is given up.               *)
CheckerSendsUnderLock ==
  /\ checker = "visiting"
  /\ toVisit = {}
  /\ checker' = "sending"
  /\ UNCHANGED <<registry, locks, call, goroutines, reap, checks, toVisit, toUpdate,
                 watch>>

(* It returns, and with that gives the lock up; the updates come after.    *)
CheckerRUnlock ==
  /\ checker = "visiting"
  /\ toVisit = {}
  /\ reading' = FALSE
  /\ checker' = "sending"
  /\ UNCHANGED <<registry, waiting, writer, locked, call, goroutines, reap, checks,
                 toVisit, toUpdate, watch>>

CheckerSend(p) ==
  /\ checker = "sending"
  /\ p \in toUpdate
  /\ Send(p)
  /\ toUpdate' = toUpdate \ {p}
  /\ UNCHANGED <<registry, locks, call, goroutines, reap, checker, checks, toVisit>>

CheckerEnd ==
  /\ checker = "sending"
  /\ toUpdate = {}
  /\ checker' = "idle"
  /\ UNCHANGED <<registry, locks, call, goroutines, reap, checks, toVisit, toUpdate, watch>>

(***************************************************************************)
(* startMonitoring.                                                        *)
(***************************************************************************)

(* p.RPCResponse() needs the lock of the process.                          *)
MonitorRead ==
  /\ monitor = "received"
  /\ current \notin locked
  /\ monitor' = "read"
  /\ UNCHANGED <<registry, locks, call, goroutines, reap, check, current, announced>>

(* The name is looked up under pm.lock.RLock() and the event broadcast;    *)
(* the broadcaster never blocks.                                           *)
MonitorBroadcast ==
  /\ monitor = "read"
  /\ CanRLock
  /\ announced' = [announced EXCEPT ![name[current]] =
                     IF processes[name[current]] = NoProc THEN "deleted" ELSE "exists"]
  /\ monitor' = "idle"
  /\ current' = NoProc
  /\ UNCHANGED <<registry, locks, call, goroutines, reap, check>>
-----------------------------------------------------------------------------
(* The steps that begin something new: a call of a client, a change of a   *)
(* process, a tick of the checker.                                         *)
Begin == \/ \E p \in Creates : CallWait(p, "idle")
         \/ \E p \in Replaces : InitProcessReplace(p)
         \/ \E p \in Procs : LifeLock(p) \/ UnregisterProcess(p)
         \/ CheckerRLock

(* The steps that carry on what has begun.                                 *)
Continue ==
  \/ \E p \in Replaces : CallWait(p, "replacing")
  \/ \E p \in Procs : \/ CallLock(p) \/ CallCommit(p) \/ CallSend(p)
                      \/ LifeUnlock(p) \/ LifeSend(p)
                      \/ ReapGiveUp(p) \/ ReapWait(p) \/ ReapLock(p)
                      \/ ReapCommit(p) \/ ReapSend(p)
                      \/ CheckerVisit(p) \/ CheckerSend(p)
  \/ CheckerRUnlock \/ CheckerEnd
  \/ MonitorRead \/ MonitorBroadcast

Next == Begin \/ Continue

Spec == Init /\ [][Next]_vars

(* Some goroutine that can run on does.  Only finitely much is begun, so   *)
(* this alone makes everything that has begun end, unless it deadlocks.    *)
FairSpec == Spec /\ WF_vars(Continue)
-----------------------------------------------------------------------------
(* Types, and that a lock is held only by a goroutine that is in the       *)
(* section it guards: every early return gives it up.                      *)
TypeOK ==
  /\ name \in [Procs -> Names]
  /\ processes \in [Names -> Procs \cup {NoProc}]
  /\ old \in [Procs -> Procs \cup {NoProc}]
  /\ waiting = {<<"call", p>> : p \in {q \in Procs : call[q] = "waiting"}}
               \cup {<<"reap", p>> : p \in {q \in Procs : reap[q] = "waiting"}}
  /\ writer \in {Unlocked} \cup {<<"call", p>> : p \in {q \in Procs : call[q] = "locked"}}
                          \cup {<<"reap", p>> : p \in {q \in Procs : reap[q] = "locked"}}
  /\ reading <=> checker = "visiting"
  /\ locked = {p \in Procs : life[p] = "locked"}
  /\ call \in [Procs -> {"idle", "replacing", "waiting", "locked", "send", "done",
                         "failed", "rejected"}]
  /\ life \in [Procs -> {"idle", "locked", "send"}]
  /\ updates \in [Procs -> 0 .. MaxUpdates]
  /\ checks \in 0 .. MaxChecks
  /\ reap \in [Procs -> {"idle", "wait", "waiting", "locked", "send", "done"}]
  /\ checker \in {"idle", "visiting", "sending"}
  /\ toVisit \subseteq Procs
  /\ toUpdate \subseteq Procs
  /\ monitor \in {"idle", "received", "read"}
  /\ current \in Procs \cup {NoProc}
  /\ announced \in [Names -> {"none", "exists", "deleted"}]

(* Somebody waits for Manager.lock, for the lock of a process or for the   *)
(* update channel, or is in the section that one of the locks guards.      *)
Busy ==
  \/ \E p \in Procs : \/ call[p] \in {"waiting", "locked", "send"}
                       \/ reap[p] \in {"waiting", "locked", "send"}
                       \/ life[p] # "idle"
  \/ checker # "idle"
  \/ monitor # "idle"

(* What lets one of them go on: a section can be left, a lock that is      *)
(* wanted is free, an update is wanted by an idle monitor.                 *)
CanGoOn ==
  \/ \E p \in Procs : call[p] = "locked" \/ reap[p] = "locked" \/ life[p] = "locked"
  \/ CanLock /\ \E p \in Procs : call[p] = "waiting" \/ reap[p] = "waiting"
  \/ checker = "visiting" /\ (toVisit = {} \/ \E p \in toVisit : p \notin locked)
  \/ checker = "sending" /\ toUpdate = {}
  \/ monitor = "received" /\ current \notin locked
  \/ monitor = "read" /\ CanRLock
  \/ monitor = "idle" /\ \/ \E p \in Procs : "send" \in {call[p], reap[p], life[p]}
                         \/ checker = "sending"

(* The calls, the goroutines, the checker and the monitor never all wait   *)
(* for each other: none sends, or waits for another lock, while it holds a *)
(* lock that the one it waits for needs first, and a writer that waits     *)
(* keeps no reader out for good (the deadlock of longhorn issue 2697).     *)
NoDeadlock == Busy => CanGoOn

(* Nobody waits on the update channel for ever: no call, goroutine or      *)
(* checker sends while it holds a lock the monitor needs before it takes   *)
(* the next update (the deadlock of longhorn issue 2697).                  *)
SendsAreTaken ==
  \A p \in Procs : /\ call[p] = "send" ~> call[p] # "send"
                   /\ life[p] = "send" ~> life[p] # "send"
                   /\ reap[p] = "send" ~> reap[p] # "send"
                   /\ (checker = "sending" /\ p \in toUpdate)
                        ~> ~ (checker = "sending" /\ p \in toUpdate)

(* An update about a process of that name is to be sent after it left the  *)
(* registry, or was received and the name is still to be looked up.        *)
UpdateDue(n) ==
  \E p \in Procs : name[p] = n /\ (reap[p] = "send" \/ current = p)

(* A deletion is never forgotten: a name that had a process and has none   *)
(* was last announced as deleted, or the update that will announce it is   *)
(* on its way.  Updates about an earlier or a later process of that name   *)
(* cannot hide it, however they overtake each other.                       *)
DeletionRemembered ==
  \A n \in Names :
    /\ processes[n] = NoProc
    /\ \E p \in Procs : name[p] = n /\ call[p] \in {"send", "done"}
    => announced[n] = "deleted" \/ UpdateDue(n)

(* A name that has been used is, again and again, either registered or     *)
(* last announced as deleted: whoever follows the events learns of every   *)
(* deletion that lasts, whatever else was sent about the name meanwhile    *)
(* (unregisterProcess sends after it has removed the process, and          *)
(* startMonitoring looks the name up after it has received it).            *)
DeletionAnnounced ==
  \A n \in Names :
    []<>(\/ processes[n] # NoProc
         \/ announced[n] = "deleted"
         \/ \A p \in Procs : name[p] = n => call[p] \in {"idle", "failed", "rejected"})
=============================================================================
