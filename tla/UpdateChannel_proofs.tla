------------------------ MODULE UpdateChannel_proofs ------------------------
(***************************************************************************)
(* Proofs about the update channel and the locks around it, for any number *)
(* of processes, names, updates and rounds of the checker.                 *)
(***************************************************************************)
EXTENDS UpdateChannel, TLAPS

(* The types of TypeOK alone.                                              *)
Types ==
  /\ name \in [Procs -> Names]
  /\ processes \in [Names -> Procs \cup {NoProc}]
  /\ old \in [Procs -> Procs \cup {NoProc}]
  /\ call \in [Procs -> {"idle", "replacing", "waiting", "locked", "send", "done",
                         "failed", "rejected"}]
  /\ life \in [Procs -> {"idle", "locked", "send"}]
  /\ updates \in [Procs -> 0 .. MaxUpdates]
  /\ checks \in 0 .. MaxChecks
  /\ reap \in [Procs -> {"idle", "wait", "waiting", "locked", "send", "done"}]
  /\ checker \in {"idle", "visiting", "sending"}
  /\ toVisit \subseteq Procs
  /\ toUpdate \subseteq Procs
  /\ monitor \in {"idle", "received", "read"}
  /\ current \in Procs \cup {NoProc}
  /\ announced \in [Names -> {"none", "exists", "deleted"}]

(* Who waits for Manager.lock is where it waits.                           *)
Waiters ==
  waiting = {<<"call", p>> : p \in {q \in Procs : call[q] = "waiting"}}
            \cup {<<"reap", p>> : p \in {q \in Procs : reap[q] = "waiting"}}

(* Whoever holds Manager.lock is in the section it guards, and whoever is  *)
(* there holds it, alone.                                                  *)
Exclusive ==
  /\ \/ writer = Unlocked
     \/ \E p \in Procs : call[p] = "locked" /\ writer = <<"call", p>>
     \/ \E p \in Procs : reap[p] = "locked" /\ writer = <<"reap", p>>
  /\ \A p \in Procs : call[p] = "locked" => writer = <<"call", p>>
  /\ \A p \in Procs : reap[p] = "locked" => writer = <<"reap", p>>
  /\ reading => writer = Unlocked

(* The other locks, and the update that the monitor has while it is not    *)
(* idle.                                                                   *)
Others ==
  /\ reading = (checker = "visiting")
  /\ locked = {p \in Procs : life[p] = "locked"}
  /\ monitor = "idle" <=> current = NoProc

IInv == Types /\ Waiters /\ Exclusive /\ Others

(* The inductive invariant implies the type invariant.                     *)
LEMMA TypeOKHolds == IInv => TypeOK
BY DEF IInv, TypeOK, Types, Waiters, Exclusive, Others

(* Every step keeps the types.                                             *)
LEMMA TypesStep == IInv /\ [Next]_vars => Types'
<1> SUFFICES ASSUME IInv, [Next]_vars PROVE Types'
  OBVIOUS
<1> USE UpdateChannelAssumption DEF IInv, Types, registry, locks, goroutines, check, watch
<1>1. ASSUME NEW p \in Procs, InitProcessReplace(p) PROVE Types'
  BY <1>1 DEF InitProcessReplace
<1>2. ASSUME NEW p \in Procs, CallWait(p, "idle") \/ CallWait(p, "replacing") PROVE Types'
  BY <1>2 DEF CallWait
<1>3. ASSUME NEW p \in Procs, CallLock(p) PROVE Types'
  BY <1>3 DEF CallLock
<1>4. ASSUME NEW p \in Procs, CallCommit(p) PROVE Types'
  BY <1>4 DEF CallCommit
<1>5. ASSUME NEW p \in Procs, CallSend(p) \/ LifeSend(p) \/ ReapSend(p) \/ CheckerSend(p)
      PROVE  Types'
  BY <1>5 DEF CallSend, LifeSend, ReapSend, CheckerSend, Send
<1>6. ASSUME NEW p \in Procs, LifeLock(p) PROVE Types'
  BY <1>6 DEF LifeLock
<1>7. ASSUME NEW p \in Procs, LifeUnlock(p) PROVE Types'
  BY <1>7 DEF LifeUnlock
<1>8. ASSUME NEW p \in Procs, UnregisterProcess(p) \/ ReapGiveUp(p) \/ ReapWait(p) \/ ReapLock(p)
      PROVE  Types'
  BY <1>8 DEF UnregisterProcess, ReapGiveUp, ReapWait, ReapLock
<1>9. ASSUME NEW p \in Procs, ReapCommit(p) PROVE Types'
  BY <1>9 DEF ReapCommit
<1>10. CASE CheckerRLock \/ CheckerRUnlock \/ CheckerEnd
  BY <1>10 DEF CheckerRLock, CheckerRUnlock, CheckerEnd
<1>11. ASSUME NEW p \in Procs, CheckerVisit(p) PROVE Types'
  BY <1>11 DEF CheckerVisit
<1>12. CASE MonitorRead \/ MonitorBroadcast
  BY <1>12 DEF MonitorRead, MonitorBroadcast
<1>13. CASE UNCHANGED vars
  BY <1>13 DEF vars
<1> QED
  BY <1>1, <1>2, <1>3, <1>4, <1>5, <1>6, <1>7, <1>8, <1>9, <1>10, <1>11, <1>12, <1>13
     DEF Next, Begin, Continue, Procs

(* Every step keeps those that wait for Manager.lock in its queue.         *)
LEMMA WaitersStep == IInv /\ [Next]_vars => Waiters'
<1> SUFFICES ASSUME Types, Waiters, [Next]_vars PROVE Waiters'
  BY DEF IInv
<1> USE DEF Types, Waiters, registry, locks, goroutines, check, watch
<1>1. ASSUME UNCHANGED waiting,
             \A p \in Procs : call'[p] = "waiting" <=> call[p] = "waiting",
             \A p \in Procs : reap'[p] = "waiting" <=> reap[p] = "waiting"
      PROVE  Waiters'
  BY <1>1
<1>2. ASSUME NEW p \in Procs, CallWait(p, "idle") \/ CallWait(p, "replacing") PROVE Waiters'
  BY <1>2 DEF CallWait
<1>3. ASSUME NEW p \in Procs, CallLock(p) PROVE Waiters'
  BY <1>3 DEF CallLock
<1>4. ASSUME NEW p \in Procs, ReapWait(p) PROVE Waiters'
  BY <1>4 DEF ReapWait
<1>5. ASSUME NEW p \in Procs, ReapLock(p) PROVE Waiters'
  BY <1>5 DEF ReapLock
<1>6. ASSUME NEW p \in Procs, \/ InitProcessReplace(p) \/ CallCommit(p) \/ CallSend(p)
      PROVE  Waiters'
  BY <1>1, <1>6 DEF InitProcessReplace, CallCommit, CallSend
<1>7. ASSUME NEW p \in Procs, \/ UnregisterProcess(p) \/ ReapGiveUp(p) \/ ReapCommit(p) \/ ReapSend(p)
      PROVE  Waiters'
  BY <1>1, <1>7 DEF UnregisterProcess, ReapGiveUp, ReapCommit, ReapSend
<1>8. ASSUME NEW p \in Procs, \/ LifeLock(p) \/ LifeUnlock(p) \/ LifeSend(p)
                             \/ CheckerVisit(p) \/ CheckerSend(p)
      PROVE  Waiters'
  BY <1>1, <1>8 DEF LifeLock, LifeUnlock, LifeSend, CheckerVisit, CheckerSend
<1>9. CASE \/ CheckerRLock \/ CheckerRUnlock \/ CheckerEnd
           \/ MonitorRead \/ MonitorBroadcast \/ UNCHANGED vars
  BY <1>1, <1>9 DEF CheckerRLock, CheckerRUnlock, CheckerEnd, MonitorRead, MonitorBroadcast, vars
<1> QED
  BY <1>2, <1>3, <1>4, <1>5, <1>6, <1>7, <1>8, <1>9 DEF Next, Begin, Continue, Procs

(* Every step leaves Manager.lock to those who hold it.                    *)
LEMMA ExclusiveStep == IInv /\ [Next]_vars => Exclusive'
<1> SUFFICES ASSUME Types, Exclusive, Others, [Next]_vars PROVE Exclusive'
  BY DEF IInv
<1> USE DEF Types, Exclusive, Unlocked, registry, locks, goroutines, check, watch
<1>1. ASSUME UNCHANGED <<writer, reading>>,
             \A p \in Procs : call'[p] = "locked" <=> call[p] = "locked",
             \A p \in Procs : reap'[p] = "locked" <=> reap[p] = "locked"
      PROVE  Exclusive'
  BY <1>1
<1>2. ASSUME NEW p \in Procs, CallWait(p, "idle") \/ CallWait(p, "replacing") PROVE Exclusive'
  BY <1>1, <1>2 DEF CallWait
<1>3. ASSUME NEW p \in Procs, CallLock(p) PROVE Exclusive'
  BY <1>3 DEF CallLock, CanLock
<1>4. ASSUME NEW p \in Procs, ReapWait(p) PROVE Exclusive'
  BY <1>1, <1>4 DEF ReapWait
<1>5. ASSUME NEW p \in Procs, ReapLock(p) PROVE Exclusive'
  BY <1>5 DEF ReapLock, CanLock
<1>6. ASSUME NEW p \in Procs, InitProcessReplace(p) \/ CallSend(p)
      PROVE  Exclusive'
  BY <1>1, <1>6 DEF InitProcessReplace, CallSend
<1>7. ASSUME NEW p \in Procs, UnregisterProcess(p) \/ ReapGiveUp(p) \/ ReapSend(p)
      PROVE  Exclusive'
  BY <1>1, <1>7 DEF UnregisterProcess, ReapGiveUp, ReapSend
<1>8. ASSUME NEW p \in Procs, \/ LifeLock(p) \/ LifeUnlock(p) \/ LifeSend(p)
                             \/ CheckerVisit(p) \/ CheckerSend(p)
      PROVE  Exclusive'
  BY <1>1, <1>8 DEF LifeLock, LifeUnlock, LifeSend, CheckerVisit, CheckerSend
<1>9. CASE CheckerEnd \/ MonitorRead \/ MonitorBroadcast \/ UNCHANGED vars
  BY <1>1, <1>9 DEF CheckerEnd, MonitorRead, MonitorBroadcast, vars
<1>10. ASSUME NEW p \in Procs, CallCommit(p) PROVE Exclusive'
  BY <1>10 DEF CallCommit
<1>11. ASSUME NEW p \in Procs, ReapCommit(p) PROVE Exclusive'
  BY <1>11 DEF ReapCommit
<1>12. CASE CheckerRLock
  BY <1>12 DEF CheckerRLock, CanRLock
<1>13. CASE CheckerRUnlock
  BY <1>13 DEF CheckerRUnlock
<1> QED
  BY <1>2, <1>3, <1>4, <1>5, <1>6, <1>7, <1>8, <1>9, <1>10, <1>11, <1>12, <1>13
     DEF Next, Begin, Continue, Procs

(* Every step keeps the other locks and the received update in their       *)
(* sections.                                                               *)
LEMMA OthersStep == IInv /\ [Next]_vars => Others'
<1> SUFFICES ASSUME Types, Others, [Next]_vars PROVE Others'
  BY DEF IInv
<1> USE UpdateChannelAssumption
    DEF Types, Others, registry, locks, goroutines, check, watch
<1>1. ASSUME UNCHANGED <<reading, checker, locked, life, monitor, current>> PROVE Others'
  BY <1>1
<1>2. ASSUME NEW p \in Procs, \/ CallWait(p, "idle") \/ CallWait(p, "replacing")
                             \/ InitProcessReplace(p) \/ CallLock(p) \/ CallCommit(p)
      PROVE  Others'
  BY <1>1, <1>2 DEF CallWait, InitProcessReplace, CallLock, CallCommit
<1>3. ASSUME NEW p \in Procs, \/ UnregisterProcess(p) \/ ReapGiveUp(p) \/ ReapWait(p)
                             \/ ReapLock(p) \/ ReapCommit(p) \/ CheckerVisit(p)
      PROVE  Others'
  BY <1>1, <1>3 DEF UnregisterProcess, ReapGiveUp, ReapWait, ReapLock, ReapCommit, CheckerVisit
<1>4. ASSUME NEW p \in Procs, CallSend(p) \/ ReapSend(p) \/ CheckerSend(p) PROVE Others'
  BY <1>4 DEF CallSend, ReapSend, CheckerSend, Send
<1>5. ASSUME NEW p \in Procs, LifeSend(p) PROVE Others'
  BY <1>5 DEF LifeSend, Send
<1>6. ASSUME NEW p \in Procs, LifeLock(p) \/ LifeUnlock(p) PROVE Others'
  BY <1>6 DEF LifeLock, LifeUnlock
<1>7. CASE CheckerRLock
  BY <1>7 DEF CheckerRLock
<1>8. CASE CheckerRUnlock
  BY <1>8 DEF CheckerRUnlock
<1>9. CASE CheckerEnd
  BY <1>9 DEF CheckerEnd
<1>10. CASE MonitorRead \/ MonitorBroadcast
  BY <1>10 DEF MonitorRead, MonitorBroadcast
<1>11. CASE UNCHANGED vars
  BY <1>1, <1>11 DEF vars
<1> QED
  BY <1>2, <1>3, <1>4, <1>5, <1>6, <1>7, <1>8, <1>9, <1>10, <1>11
     DEF Next, Begin, Continue, Procs

(* The inductive invariant holds in every state.                           *)
THEOREM LockDiscipline == Spec => []IInv
<1>1. Init => IInv
  <2> SUFFICES ASSUME Init PROVE IInv
    OBVIOUS
  <2>1. Types
    BY UpdateChannelAssumption DEF Init, Types
  <2>2. Waiters
    BY DEF Init, Waiters
  <2>3. Exclusive
    BY DEF Init, Exclusive, Unlocked
  <2>4. reading = (checker = "visiting")
    BY Zenon DEF Init
  <2>5. Others
    BY <2>4 DEF Init, Others
  <2> QED
    BY <2>1, <2>2, <2>3, <2>5 DEF IInv
<1>2. IInv /\ [Next]_vars => IInv'
  BY TypesStep, WaitersStep, ExclusiveStep, OthersStep DEF IInv
<1> QED
  BY <1>1, <1>2, PTL DEF Spec

(* The variables keep their types, and a lock is held only by a goroutine  *)
(* that is in the section it guards.                                       *)
THEOREM TypeCorrect == Spec => []TypeOK
BY LockDiscipline, TypeOKHolds, PTL

(* However many processes send updates, whatever the calls, the checker    *)
(* and the monitor do: they never all wait for each other.                 *)
THEOREM DeadlockFree == Spec => []NoDeadlock
<1>1. IInv => NoDeadlock
  <2> SUFFICES ASSUME IInv, Busy PROVE CanGoOn
    BY DEF NoDeadlock
  <2>1. CASE writer # Unlocked
    BY <2>1 DEF IInv, Exclusive, CanGoOn
  <2>2. CASE writer = Unlocked /\ checker = "visiting"
    BY <2>2 DEF IInv, Others, Types, CanGoOn
  <2>3. CASE writer = Unlocked /\ checker # "visiting"
    <3>1. ~ reading
      BY <2>3 DEF IInv, Others
    <3>2. CASE waiting # {}
      BY <2>3, <3>1, <3>2 DEF IInv, Waiters, CanGoOn, CanLock
    <3>3. CASE waiting = {} /\ monitor = "idle"
      <4>1. \A p \in Procs : call[p] # "waiting" /\ reap[p] # "waiting"
        BY <3>3 DEF IInv, Waiters
      <4> QED
        BY <2>3, <3>3, <4>1 DEF Busy, CanGoOn, IInv, Types
    <3>4. CASE waiting = {} /\ monitor = "received"
      BY <3>4 DEF IInv, Others, CanGoOn
    <3>5. CASE waiting = {} /\ monitor = "read"
      BY <2>3, <3>5 DEF CanGoOn, CanRLock
    <3> QED
      BY <3>2, <3>3, <3>4, <3>5 DEF IInv, Types
  <2> QED
    BY <2>1, <2>2, <2>3
<1> QED
  BY <1>1, LockDiscipline, PTL

(* A deletion is announced, or the update that will announce it is on its  *)
(* way, whatever other updates about the name are sent meanwhile.          *)
THEOREM DeletionsRemembered == Spec => []DeletionRemembered
<1> DEFINE Used(n) == \E p \in Procs : name[p] = n /\ call[p] \in {"send", "done"}
<1>1. Init => DeletionRemembered
  BY DEF Init, DeletionRemembered
<1>2. IInv /\ DeletionRemembered /\ [Next]_vars => DeletionRemembered'
  <2> SUFFICES ASSUME IInv, DeletionRemembered, [Next]_vars,
                      NEW n \in Names, processes'[n] = NoProc, Used(n)'
               PROVE  announced'[n] = "deleted" \/ UpdateDue(n)'
    BY DEF DeletionRemembered
  <2> USE UpdateChannelAssumption
      DEF IInv, Types, UpdateDue, registry, locks, goroutines, check, watch
  <2>0. UNCHANGED name
    BY DEF Next, Begin, Continue, vars, InitProcessReplace, CallWait, CallLock, CallCommit,
           CallSend, LifeLock, LifeUnlock, LifeSend, UnregisterProcess, ReapGiveUp, ReapWait,
           ReapLock, ReapCommit, ReapSend, CheckerRLock, CheckerVisit, CheckerRUnlock,
           CheckerSend, CheckerEnd, MonitorRead, MonitorBroadcast
  <2>1. ASSUME UNCHANGED <<processes, announced, current>>,
               \A p \in Procs : call'[p] \in {"send", "done"} => call[p] \in {"send", "done"},
               \A p \in Procs : reap[p] = "send" => reap'[p] = "send"
        PROVE  announced'[n] = "deleted" \/ UpdateDue(n)'
    BY <2>0, <2>1 DEF DeletionRemembered
  <2>2. ASSUME NEW p \in Procs, \/ InitProcessReplace(p) \/ CallLock(p)
                               \/ CallWait(p, "idle") \/ CallWait(p, "replacing")
        PROVE  announced'[n] = "deleted" \/ UpdateDue(n)'
    BY <2>1, <2>2 DEF InitProcessReplace, CallWait, CallLock
  <2>3. ASSUME NEW p \in Procs, CallCommit(p)
        PROVE  announced'[n] = "deleted" \/ UpdateDue(n)'
    <3>1. name[p] # n
      BY <2>3 DEF CallCommit
    <3>2. processes[n] = NoProc /\ Used(n) /\ UNCHANGED <<announced, current, reap>>
      BY <2>0, <2>3, <3>1 DEF CallCommit
    <3> QED
      BY <2>0, <3>2 DEF DeletionRemembered
  <2>4. ASSUME NEW p \in Procs, CallSend(p) \/ LifeSend(p) \/ CheckerSend(p)
        PROVE  announced'[n] = "deleted" \/ UpdateDue(n)'
    <3>1. current = NoProc /\ UNCHANGED <<processes, announced, reap>>
      BY <2>4 DEF CallSend, LifeSend, CheckerSend, Send, Others
    <3>2. Used(n)
      BY <2>0, <2>4 DEF CallSend, LifeSend, CheckerSend
    <3> QED
      BY <2>0, <3>1, <3>2 DEF DeletionRemembered
  <2>5. ASSUME NEW p \in Procs, ReapSend(p)
        PROVE  announced'[n] = "deleted" \/ UpdateDue(n)'
    <3>1. /\ current = NoProc /\ current' = p
          /\ UNCHANGED <<processes, call, announced>>
          /\ \A q \in Procs \ {p} : reap'[q] = reap[q]
      BY <2>5 DEF ReapSend, Send, Others
    <3> QED
      BY <2>0, <3>1 DEF DeletionRemembered
  <2>6. ASSUME NEW p \in Procs, \/ UnregisterProcess(p) \/ ReapGiveUp(p)
                               \/ ReapWait(p) \/ ReapLock(p)
        PROVE  announced'[n] = "deleted" \/ UpdateDue(n)'
    BY <2>1, <2>6 DEF UnregisterProcess, ReapGiveUp, ReapWait, ReapLock
  <2>7. ASSUME NEW p \in Procs, ReapCommit(p)
        PROVE  announced'[n] = "deleted" \/ UpdateDue(n)'
    <3>1. /\ reap'[p] = "send"
          /\ UNCHANGED <<call, announced, current>>
          /\ \A q \in Procs : reap[q] = "send" => reap'[q] = "send"
      BY <2>7 DEF ReapCommit
    <3>2. CASE name[p] = n
      BY <2>0, <3>1, <3>2
    <3>3. CASE name[p] # n
      <4>1. processes[n] = NoProc
        BY <2>7, <3>3 DEF ReapCommit
      <4> QED
        BY <2>0, <3>1, <4>1 DEF DeletionRemembered
    <3> QED
      BY <3>2, <3>3
  <2>8. ASSUME NEW p \in Procs, LifeLock(p) \/ LifeUnlock(p) \/ CheckerVisit(p)
        PROVE  announced'[n] = "deleted" \/ UpdateDue(n)'
    BY <2>1, <2>8 DEF LifeLock, LifeUnlock, CheckerVisit
  <2>9. CASE \/ CheckerRLock \/ CheckerRUnlock \/ CheckerEnd \/ MonitorRead \/ UNCHANGED vars
    BY <2>1, <2>9 DEF CheckerRLock, CheckerRUnlock, CheckerEnd, MonitorRead, vars
  <2>10. CASE MonitorBroadcast
    <3>1. /\ current \in Procs
          /\ UNCHANGED <<processes, call, reap>>
          /\ name[current] = n => announced'[n] = "deleted"
          /\ name[current] # n => announced'[n] = announced[n]
      BY <2>10 DEF MonitorBroadcast, Others
    <3> QED
      BY <2>0, <3>1 DEF DeletionRemembered
  <2> QED
    BY <2>2, <2>3, <2>4, <2>5, <2>6, <2>7, <2>8, <2>9, <2>10
       DEF Next, Begin, Continue, Procs
<1> QED
  BY <1>1, <1>2, LockDiscipline, PTL DEF Spec
=============================================================================
