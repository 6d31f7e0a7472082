------------------------ MODULE InstanceWatch_proofs ------------------------
(***************************************************************************)
(* Proofs about a call of InstanceWatch, for any set of watchers, any      *)
(* size of the notification channel and any number of items.               *)
(***************************************************************************)
EXTENDS InstanceWatch, TLAPS

(* Nobody runs before the group is started, and a call that could not      *)
(* start it has returned; the watchers are all started with the handler.   *)
Started ==
  /\ handler = "idle" => ~ cancelled /\ \A w \in Watchers : watcher[w] = "idle"
  /\ handler # "idle" /\ ~ returned => \A w \in Watchers : watcher[w] # "idle"

(* The handler ends by handing over to the closer, and a watcher that      *)
(* receives has failures left.                                             *)
Ends ==
  /\ handler = "ended" => closer # "waiting"
  /\ \A w \in Watchers : watcher[w] = "recv" => failureCount[w] < MaxRetry

(* No goroutine of the call sends on notifyChan once InstanceWatch has     *)
(* returned and closed it, nor waits for a token of it.                    *)
NoSendAfterReturn ==
  returned => handler = "ended" /\ \A w \in Watchers : watcher[w] \in {"idle", "ended"}

IInv == TypeOK /\ Started /\ Ends /\ NoSendAfterReturn

(* The inductive invariant holds at first.                                 *)
LEMMA InitIInv == Init => IInv
<1> SUFFICES ASSUME Init PROVE IInv
  OBVIOUS
<1>1. TypeOK
  <2>1. 0 \in 0 .. MaxRetry /\ 0 \in 0 .. Capacity /\ 0 \in 0 .. MaxEvents
    BY InstanceWatchAssumption
  <2>2. /\ watcher \in [Watchers -> {"idle", "connect", "check", "recv", "notify", "ended"}]
        /\ failureCount \in [Watchers -> 0 .. MaxRetry]
    BY <2>1 DEF Init
  <2> QED
    BY <2>1, <2>2 DEF Init, TypeOK
<1>2. Started /\ Ends /\ NoSendAfterReturn
  BY DEF Init, Started, Ends, NoSendAfterReturn
<1> QED
  BY <1>1, <1>2 DEF IInv

(* A step of a watcher moves that watcher alone: it stays among the        *)
(* started, touches neither the handler nor the closer, and ends by        *)
(* cancelling the context.                                                 *)
LEMMA WatcherSteps ==
  ASSUME IInv, NEW w \in Watchers,
         WatcherStep(w) \/ RecvItem(w) \/ RecvError(w)
  PROVE  IInv'
<1> DEFINE Moves(pc) == /\ watcher[w] \in {"connect", "check", "recv", "notify"}
                        /\ watcher' = [watcher EXCEPT ![w] = pc]
                        /\ UNCHANGED <<handler, closer, returned>>
<1>1. /\ watcher \in [Watchers -> {"idle", "connect", "check", "recv", "notify", "ended"}]
      /\ failureCount \in [Watchers -> 0 .. MaxRetry]
      /\ notifyChan \in 0 .. Capacity
      /\ cancelled \in BOOLEAN
      /\ events \in 0 .. MaxEvents
      /\ MaxRetry \in Nat /\ Capacity \in Nat /\ MaxEvents \in Nat
  BY InstanceWatchAssumption DEF IInv, TypeOK
<1>2. ASSUME NEW pc \in {"check", "notify", "ended"}, Moves(pc),
             notifyChan' \in 0 .. Capacity, events' \in 0 .. MaxEvents,
             failureCount' \in [Watchers -> 0 .. MaxRetry],
             cancelled' \in BOOLEAN,
             \A v \in Watchers : v # w => failureCount'[v] = failureCount[v]
      PROVE  IInv'
  <2>1. TypeOK'
    BY <1>1, <1>2 DEF IInv, TypeOK
  <2>2. handler # "idle" /\ ~ returned
    BY <1>2 DEF IInv, Started, NoSendAfterReturn
  <2>3. Started'
    BY <1>1, <1>2, <2>2 DEF IInv, Started
  <2>4. Ends'
    BY <1>1, <1>2 DEF IInv, Ends
  <2> QED
    BY <1>2, <2>1, <2>2, <2>3, <2>4 DEF IInv, NoSendAfterReturn
<1>3. CASE Connect(w)
  BY <1>1, <1>2, <1>3 DEF Connect, Goto, WatcherReturns
<1>4. CASE Check(w)
  <2>1. CASE failureCount[w] >= MaxRetry \/ cancelled
    BY <1>1, <1>2, <1>4, <2>1 DEF Check, Goto, WatcherReturns
  <2>2. CASE ~ (failureCount[w] >= MaxRetry \/ cancelled)
    <3>1. /\ watcher[w] = "check"
          /\ watcher' = [watcher EXCEPT ![w] = "recv"]
          /\ UNCHANGED <<failureCount, handler, notifyChan, cancelled, closer, events, returned>>
      BY <1>4, <2>2 DEF Check, Goto
    <3>2. handler # "idle" /\ ~ returned
      BY <3>1 DEF IInv, Started, NoSendAfterReturn
    <3>3. failureCount[w] < MaxRetry
      BY <1>1, <2>2
    <3>4. TypeOK'
      BY <1>1, <3>1 DEF IInv, TypeOK
    <3>5. Started'
      BY <1>1, <3>1, <3>2 DEF IInv, Started
    <3>6. Ends'
      BY <1>1, <3>1, <3>3 DEF IInv, Ends
    <3> QED
      BY <3>1, <3>2, <3>4, <3>5, <3>6 DEF IInv, NoSendAfterReturn
  <2> QED
    BY <2>1, <2>2
<1>5. CASE Notify(w)
  BY <1>1, <1>2, <1>5 DEF Notify, Goto
<1>6. CASE RecvItem(w)
  BY <1>1, <1>2, <1>6 DEF RecvItem, Goto
<1>7. CASE RecvError(w)
  <2>1. failureCount[w] < MaxRetry
    BY <1>7 DEF RecvError, IInv, Ends
  <2> DEFINE more == [failureCount EXCEPT ![w] = @ + 1]
  <2>2. more \in [Watchers -> 0 .. MaxRetry]
    BY <1>1, <2>1
  <2>3. \A v \in Watchers : v # w => more[v] = failureCount[v]
    BY <1>1
  <2> QED
    BY <1>1, <1>2, <1>7, <2>2, <2>3 DEF RecvError, Goto, WatcherReturns
<1> QED
  BY <1>3, <1>4, <1>5, <1>6, <1>7 DEF WatcherStep

(* Every step preserves the inductive invariant.                           *)
LEMMA NextIInv == IInv /\ [Next]_vars => IInv'
<1> SUFFICES ASSUME IInv, [Next]_vars PROVE IInv'
  OBVIOUS
<1> USE DEF IInv, TypeOK, Started, Ends, NoSendAfterReturn
<1>1. ASSUME NEW w \in Watchers, WatcherStep(w) \/ RecvItem(w) \/ RecvError(w)
      PROVE  IInv'
  <2> HIDE DEF IInv
  <2> QED
    BY <1>1, WatcherSteps
<1>2. CASE CreateClients
  <2>1. handler = "idle" /\ ~ returned /\ ~ cancelled
    BY <1>2 DEF CreateClients
  <2>2. CASE handler' = "select"
    <3>1. /\ watcher' = [w \in Watchers |-> "connect"]
          /\ UNCHANGED <<closer, returned, failureCount, notifyChan, cancelled, events>>
      BY <1>2, <2>2 DEF CreateClients
    <3>2. \A w \in Watchers : watcher'[w] = "connect"
      BY <3>1
    <3>3. TypeOK'
      BY <2>2, <3>1
    <3> QED
      BY <2>1, <2>2, <3>1, <3>2, <3>3
  <2>3. CASE handler' # "select"
    BY <1>2, <2>1, <2>3 DEF CreateClients
  <2> QED
    BY <2>2, <2>3
<1>3. CASE HandlerTake
  BY <1>3, InstanceWatchAssumption DEF HandlerTake
<1>4. CASE HandlerDone
  BY <1>4 DEF HandlerDone
<1>5. CASE HandlerSend
  BY <1>5 DEF HandlerSend
<1>6. CASE HandOver
  BY <1>6 DEF HandOver
<1>7. CASE CloseClients
  BY <1>7 DEF CloseClients
<1>8. CASE Shutdown
  BY <1>8 DEF Shutdown
<1>9. CASE Return
  BY <1>9 DEF Return
<1>10. CASE UNCHANGED vars
  BY <1>10 DEF vars
<1> QED
  BY <1>1, <1>2, <1>3, <1>4, <1>5, <1>6, <1>7, <1>8, <1>9, <1>10 DEF Next, HandlerStep

(* The inductive invariant holds in every state of the call.               *)
THEOREM InstanceWatchInvariant == Spec => []IInv
BY InitIInv, NextIInv, PTL DEF Spec

(* Types: the channel never overruns and no watcher fails more often than  *)
(* maxMonitorRetryCount allows.                                            *)
THEOREM TypeCorrect == Spec => []TypeOK
BY InstanceWatchInvariant, PTL DEF IInv

(* Once the context is done, some goroutine of the call can always go on,  *)
(* unless the channel is full and nobody is left to empty it.              *)
THEOREM OnlyStuckWhenFull == Spec => []NotStranded
<1>1. ASSUME IInv PROVE NotStranded
  <2> SUFFICES ASSUME cancelled, ~ returned, ~ CanGoOn PROVE Stuck
    BY DEF NotStranded
  <2>1. handler = "ended" /\ closer = "done"
    BY <1>1 DEF IInv, TypeOK, Started, Ends, CanGoOn
  <2>2. PICK w \in Watchers : watcher[w] # "ended"
    BY <2>1 DEF CanGoOn
  <2>3. watcher[w] = "notify"
    BY <1>1, <2>1, <2>2 DEF IInv, TypeOK, Started, CanGoOn, ClientsClosed
  <2>4. notifyChan = Capacity
    BY <1>1, <2>3, InstanceWatchAssumption DEF IInv, TypeOK, CanGoOn
  <2> QED
    BY <2>1, <2>3, <2>4 DEF Stuck
<1> QED
  BY <1>1, InstanceWatchInvariant, PTL
=============================================================================
