--------------------------- MODULE InstanceWatch ----------------------------
(***************************************************************************)
(* One InstanceWatch call of the instance service (pkg/instance).  Its     *)
(* watchers (watchProcess, watchSPDKEngine, watchSPDKReplica) each receive *)
(* from a stream of another service and put a token on the buffered        *)
(* channel notifyChan; handleNotify takes the tokens and sends an empty    *)
(* message to the client for each.  All run in one errgroup: the first to  *)
(* return an error, as every one of them does in the end, cancels the      *)
(* context of the others, and the call returns when all have returned.     *)
(***************************************************************************)
EXTENDS Naturals, FiniteSets

CONSTANTS
  Watchers,  \* the watcher goroutines
  Capacity,  \* the buffer of notifyChan (1024 in the code)
  MaxRetry,  \* maxMonitorRetryCount
  MaxEvents  \* bound: items the streams deliver altogether

ASSUME InstanceWatchAssumption == /\ Capacity \in Nat \ {0}
                                  /\ MaxRetry \in Nat \ {0}
                                  /\ MaxEvents \in Nat

VARIABLES
  watcher,       \* where each watcher is
  failureCount,  \* its failureCount
  handler,       \* where handleNotify and its deferred function are
  notifyChan,    \* how many tokens are in the channel
  cancelled,     \* the context of the group is done
  closer,        \* where the goroutine that closes the clients is
  events,        \* items delivered so far
  returned       \* InstanceWatch has returned

vars == <<watcher, failureCount, handler, notifyChan, cancelled, closer, events, returned>>

Init ==
  /\ watcher = [w \in Watchers |-> "idle"]
  /\ failureCount = [w \in Watchers |-> 0]
  /\ handler = "idle"
  /\ notifyChan = 0
  /\ cancelled = FALSE
  /\ closer = "waiting"
  /\ events = 0
  /\ returned = FALSE

(* The clients, and with them their streams, are closed.                   *)
ClientsClosed == closer = "done"

Goto(w, pc) == watcher' = [watcher EXCEPT ![w] = pc]

(* A goroutine of the group returns an error.                              *)
WatcherReturns(w) == Goto(w, "ended") /\ cancelled' = TRUE
-----------------------------------------------------------------------------
(* InstanceWatch makes the clients and starts the group; when a client     *)
(* cannot be made it has those it made closed and returns.                 *)
CreateClients ==
  /\ handler = "idle"
  /\ \/ /\ handler' = "select"
        /\ watcher' = [w \in Watchers |-> "connect"]
        /\ UNCHANGED <<closer, returned>>
     \/ /\ handler' = "ended"
        /\ closer' = "closing"
        /\ returned' = TRUE
        /\ UNCHANGED watcher
  /\ UNCHANGED <<failureCount, notifyChan, cancelled, events>>

(* ProcessWatch, EngineWatch or ReplicaWatch opens the stream, or fails.   *)
Connect(w) ==
  /\ watcher[w] = "connect"
  /\ \/ ~ ClientsClosed /\ Goto(w, "check") /\ UNCHANGED cancelled
     \/ WatcherReturns(w)
  /\ UNCHANGED <<failureCount, handler, notifyChan, closer, events, returned>>

(* Mutant: failures are not limited.                                       *)
CheckWithoutLimit(w) ==
  /\ watcher[w] = "check"
  /\ IF cancelled THEN WatcherReturns(w) ELSE Goto(w, "recv") /\ UNCHANGED cancelled
  /\ UNCHANGED <<failureCount, handler, notifyChan, closer, events, returned>>

(* The head of the loop: too many failures, or the context is done.        *)
Check(w) ==
  /\ watcher[w] = "check"
  /\ IF failureCount[w] >= MaxRetry \/ cancelled
     THEN WatcherReturns(w)
     ELSE Goto(w, "recv") /\ UNCHANGED cancelled
  /\ UNCHANGED <<failureCount, handler, notifyChan, closer, events, returned>>

(* notifier.Recv() yields an item.                                         *)
RecvItem(w) ==
  /\ watcher[w] = "recv"
  /\ ~ ClientsClosed
  /\ events < MaxEvents
  /\ events' = events + 1
  /\ Goto(w, "notify")
  /\ UNCHANGED <<failureCount, handler, notifyChan, cancelled, closer,
                 returned>>

(* It fails: Canceled ends the watcher, any other error is counted.        *)
RecvError(w) ==
  /\ watcher[w] = "recv"
  /\ \/ /\ WatcherReturns(w)
        /\ UNCHANGED failureCount
     \/ /\ ~ ClientsClosed
        /\ Goto(w, "check")
        /\ failureCount' = [failureCount EXCEPT ![w] = @ + 1]
        /\ UNCHANGED cancelled
  /\ UNCHANGED <<handler, notifyChan, closer, events, returned>>

(* notifyChan <- struct{}{}: blocks while the channel is full.             *)
Notify(w) ==
  /\ watcher[w] = "notify"
  /\ notifyChan < Capacity
  /\ notifyChan' = notifyChan + 1
  /\ Goto(w, "check")
  /\ UNCHANGED <<failureCount, handler, cancelled, closer, events, returned>>
-----------------------------------------------------------------------------
(* Mutant: the last token is left in the channel.                          *)
HandlerTakeLeavesOne ==
  /\ handler = "select"
  /\ notifyChan > 1
  /\ notifyChan' = notifyChan - 1
  /\ handler' = "send"
  /\ UNCHANGED <<watcher, failureCount, cancelled, closer, events, returned>>

(* Mutant: the context is only looked at when there is a token.            *)
HandlerDoneAfterToken ==
  /\ handler = "select"
  /\ cancelled
  /\ notifyChan > 0
  /\ handler' = "done"
  /\ UNCHANGED <<watcher, failureCount, notifyChan, cancelled, closer, events,
                 returned>>

(* handleNotify: the select takes either case that is ready.               *)
HandlerTake ==
  /\ handler = "select"
  /\ notifyChan > 0
  /\ notifyChan' = notifyChan - 1
  /\ handler' = "send"
  /\ UNCHANGED <<watcher, failureCount, cancelled, closer, events, returned>>

HandlerDone ==
  /\ handler = "select"
  /\ cancelled
  /\ handler' = "done"
  /\ UNCHANGED <<watcher, failureCount, notifyChan, cancelled, closer, events,
                 returned>>

(* srv.Send to the client, which may fail.                                 *)
HandlerSend ==
  /\ handler = "send"
  /\ handler' \in {"select", "done"}
  /\ UNCHANGED <<watcher, failureCount, notifyChan, cancelled, closer, events,
                 returned>>

(* Mutant: the deferred done <- struct{}{} is missing.                     *)
HandOverNothing ==
  /\ handler = "done"
  /\ cancelled' = TRUE
  /\ handler' = "ended"
  /\ UNCHANGED <<watcher, failureCount, notifyChan, closer, events, returned>>

(* The deferred function hands over to the goroutine that closes the       *)
(* clients; then the group gets the error of handleNotify.                 *)
HandOver ==
  /\ handler = "done"
  /\ closer' = "closing"
  /\ cancelled' = TRUE
  /\ handler' = "ended"
  /\ UNCHANGED <<watcher, failureCount, notifyChan, events, returned>>

(* That goroutine closes them, in its own time.                            *)
CloseClients ==
  /\ closer = "closing"
  /\ closer' = "done"
  /\ UNCHANGED <<watcher, failureCount, handler, notifyChan, cancelled, events,
                 returned>>

(* The context of the server is done.                                      *)
Shutdown ==
  /\ handler # "idle"
  /\ ~ cancelled
  /\ cancelled' = TRUE
  /\ UNCHANGED <<watcher, failureCount, handler, notifyChan, closer, events,
                 returned>>

(* g.Wait(); then notifyChan is closed, with nobody left to send on it.    *)
Return ==
  /\ ~ returned
  /\ handler = "ended"
  /\ \A w \in Watchers : watcher[w] = "ended"
  /\ returned' = TRUE
  /\ UNCHANGED <<watcher, failureCount, handler, notifyChan, cancelled, closer,
                 events>>
-----------------------------------------------------------------------------
(* A Recv on a closed stream fails; otherwise the streams need not deliver *)
(* anything.                                                               *)
WatcherStep(w) == \/ Connect(w) \/ Check(w) \/ Notify(w)
                  \/ ClientsClosed /\ RecvError(w)

HandlerStep == HandlerTake \/ HandlerDone \/ HandlerSend \/ HandOver

Next == \/ \E w \in Watchers : WatcherStep(w) \/ RecvItem(w) \/ RecvError(w)
        \/ CreateClients \/ HandlerStep \/ CloseClients \/ Shutdown \/ Return

Spec == Init /\ [][Next]_vars

(* Goroutines run on once they can; srv.Send returns, with an error when   *)
(* the client is gone.                                                     *)
FairSpec == /\ Spec
            /\ \A w \in Watchers : WF_vars(WatcherStep(w))
            /\ WF_vars(HandlerStep) /\ WF_vars(CloseClients)
            /\ WF_vars(Return)
-----------------------------------------------------------------------------
TypeOK ==
  /\ watcher \in [Watchers -> {"idle", "connect", "check", "recv", "notify", "ended"}]
  /\ failureCount \in [Watchers -> 0 .. MaxRetry]
  /\ handler \in {"idle", "select", "send", "done", "ended"}
  /\ notifyChan \in 0 .. Capacity
  /\ cancelled \in BOOLEAN
  /\ closer \in {"waiting", "closing", "done"}
  /\ returned \in BOOLEAN
  /\ events \in 0 .. MaxEvents

(* Items the client has not been told of.                                  *)
Unsent == notifyChan + Cardinality({w \in Watchers : watcher[w] = "notify"})

(* Every update that a stream delivers is followed by a message to the     *)
(* client, unless handleNotify has ended.                                  *)
UpdatesReachClient == Unsent > 0 ~> (Unsent = 0 \/ handler \in {"done", "ended"})

Stuck == /\ handler = "ended"
         /\ notifyChan = Capacity
         /\ \E w \in Watchers : watcher[w] = "notify"

(* Some goroutine of the call can go on though the streams deliver nothing *)
(* more.                                                                   *)
CanGoOn ==
  \/ handler = "select" /\ (cancelled \/ notifyChan > 0)
  \/ handler \in {"send", "done"}
  \/ closer = "closing"
  \/ \E w \in Watchers : \/ watcher[w] \in {"connect", "check"}
                         \/ watcher[w] = "recv" /\ ClientsClosed
                         \/ watcher[w] = "notify" /\ notifyChan < Capacity
  \/ handler = "ended" /\ \A w \in Watchers : watcher[w] = "ended"

(* Once the context is done the goroutines of the call are never all       *)
(* blocked on each other, on the streams or on the client, but for the one *)
(* way that Stuck describes: who waits in Recv is released by the closer,  *)
(* which the deferred function of handleNotify has released before.        *)
NotStranded == cancelled /\ ~ returned => CanGoOn \/ Stuck

(* A call whose context is done returns; the one thing that can keep it is *)
(* a watcher with an item in its hand, no room in notifyChan and nobody    *)
(* left to make room.                                                      *)
ReturnsUnlessFull == cancelled ~> (returned \/ []Stuck)

(* Once the context is done, or the call has returned without having       *)
(* started, the clients and their streams are closed: also when a watcher  *)
(* is blocked, and also after the call has returned.                       *)
StreamsClosed == (cancelled \/ returned) ~> ClientsClosed

(* What the code says of the deferred function of handleNotify's           *)
(* goroutine: it closes the clients "for closing streams and unblocking    *)
(* notifier Recv() with error", so that the watchers and with them the     *)
(* call end once the context is done.                                      *)
InstanceWatchReturns == cancelled ~> returned
=============================================================================
