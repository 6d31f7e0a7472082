---------------------------- MODULE Broadcaster -----------------------------
(***************************************************************************)
(* The broadcaster (pkg/util/broadcaster) and the ProcessWatch streams     *)
(* that subscribe to it.  Items are numbered in the order they arrive on   *)
(* the input channel; a subscription is a buffered channel.  Each section  *)
(* under the mutex of the broadcaster is one step: its sends never block.  *)
(***************************************************************************)
EXTENDS Naturals, Sequences

CONSTANTS
  Subs,     \* the subscriptions, each made at most once
  Capacity, \* the buffer of a subscription (100 in the code)
  MaxItems  \* bound: items that arrive

ASSUME BroadcasterAssumption == /\ Capacity \in Nat \ {0}
                                /\ MaxItems \in Nat

VARIABLES
  input,    \* the last item that arrived
  open,     \* whether the input channel is open
  running,  \* Broadcaster.running
  streams,  \* how many stream goroutines read the input channel
  subs,     \* Broadcaster.subs
  closed,   \* subscriptions whose channel has been closed
  buffer,   \* what is in the channel of each subscription
  dropping, \* subscriptions a goroutine of stream is about to unsubscribe
  missed,   \* subscriptions that an item was not sent to
  watch,    \* where the ProcessWatch call of each subscription is
  joined,   \* the last item before the subscription was made
  received  \* the items its ProcessWatch call has sent on

vars == <<input, open, running, streams, subs, closed, buffer, dropping, missed,
          watch, joined, received>>

Init ==
  /\ input = 0
  /\ open = TRUE
  /\ running = FALSE
  /\ streams = 0
  /\ subs = {}
  /\ closed = {}
  /\ buffer = [s \in Subs |-> <<>>]
  /\ dropping = {}
  /\ missed = {}
  /\ watch = [s \in Subs |-> "idle"]
  /\ joined = [s \in Subs |-> 0]
  /\ received = [s \in Subs |-> <<>>]

(* Mutant: running is not looked at.                                       *)
SubscribeAlwaysStarts(s) ==
  /\ watch[s] = "idle"
  /\ running' = TRUE
  /\ streams' = streams + 1
  /\ subs' = subs \cup {s}
  /\ watch' = [watch EXCEPT ![s] = "reading"]
  /\ joined' = [joined EXCEPT ![s] = input]
  /\ UNCHANGED <<input, open, closed, buffer, dropping, missed, received>>

(* Subscribe: starts a stream goroutine unless one is running.             *)
Subscribe(s) ==
  /\ watch[s] = "idle"
  /\ running' = TRUE
  /\ streams' = IF running THEN streams ELSE streams + 1
  /\ subs' = subs \cup {s}
  /\ watch' = [watch EXCEPT ![s] = "reading"]
  /\ joined' = [joined EXCEPT ![s] = input]
  /\ UNCHANGED <<input, open, closed, buffer, dropping, missed, received>>

(* Mutant: the channel is forgotten and not closed.                        *)
UnsubWithoutClose(S) == /\ subs' = subs \ S
                        /\ UNCHANGED closed

(* unsub: closes and forgets a channel that is still subscribed.           *)
Unsub(S) == /\ closed' = closed \cup (S \cap subs)
            /\ subs' = subs \ S

(* Mutant: the send ignores the capacity of the channel.                   *)
StreamUnbounded ==
  /\ open
  /\ streams > 0
  /\ input < MaxItems
  /\ input' = input + 1
  /\ buffer' = [s \in Subs |-> IF s \in subs THEN Append(buffer[s], input + 1)
                                           ELSE buffer[s]]
  /\ UNCHANGED <<open, running, streams, subs, closed, dropping, missed, watch,
                 joined, received>>

(* Mutant: a slow consumer misses the item and stays subscribed.           *)
StreamSkipsSlow ==
  /\ open
  /\ streams > 0
  /\ input < MaxItems
  /\ input' = input + 1
  /\ LET slow == {s \in subs : Len(buffer[s]) = Capacity}
     IN  /\ buffer' = [s \in Subs |-> IF s \in subs \ slow
                                      THEN Append(buffer[s], input + 1)
                                      ELSE buffer[s]]
         /\ missed' = missed \cup slow
  /\ UNCHANGED <<open, running, streams, subs, closed, dropping, watch, joined,
                 received>>

(* stream, one item: a channel with room gets it; for one without room a   *)
(* goroutine is spawned that will unsubscribe it ("Slow consumer, drop").  *)
Stream ==
  /\ open
  /\ streams > 0
  /\ input < MaxItems
  /\ input' = input + 1
  /\ LET slow == {s \in subs : Len(buffer[s]) = Capacity}
     IN  /\ buffer' = [s \in Subs |-> IF s \in subs \ slow
                                      THEN Append(buffer[s], input + 1)
                                      ELSE buffer[s]]
         /\ dropping' = dropping \cup slow
         /\ missed' = missed \cup slow
  /\ UNCHANGED <<open, running, streams, subs, closed, watch, joined, received>>

(* The goroutine that drops a slow consumer gets the mutex.                *)
Drop(s) ==
  /\ s \in dropping
  /\ dropping' = dropping \ {s}
  /\ Unsub({s})
  /\ UNCHANGED <<input, open, running, streams, buffer, missed, watch, joined,
                 received>>

(* The context of the subscription is done.                                *)
Cancel(s) ==
  /\ watch[s] # "idle"
  /\ Unsub({s})
  /\ UNCHANGED <<input, open, running, streams, buffer, dropping, missed, watch,
                 joined, received>>

CloseInput ==
  /\ open
  /\ open' = FALSE
  /\ UNCHANGED <<input, running, streams, subs, closed, buffer, dropping, missed,
                 watch, joined, received>>

(* stream, after its range loop: everybody is unsubscribed.                *)
StreamEnd ==
  /\ ~ open
  /\ streams > 0
  /\ streams' = streams - 1
  /\ Unsub(subs)
  /\ running' = FALSE
  /\ UNCHANGED <<input, open, buffer, dropping, missed, watch, joined, received>>

(* ProcessWatch sends the next item on; when that fails it returns and     *)
(* leaves its channel subscribed, for its context is never done.           *)
WatchReceive(s) ==
  /\ watch[s] = "reading"
  /\ buffer[s] # <<>>
  /\ buffer' = [buffer EXCEPT ![s] = Tail(@)]
  /\ \/ /\ received' = [received EXCEPT ![s] = Append(@, Head(buffer[s]))]
        /\ UNCHANGED watch
     \/ /\ watch' = [watch EXCEPT ![s] = "failed"]
        /\ UNCHANGED received
  /\ UNCHANGED <<input, open, running, streams, subs, closed, dropping, missed,
                 joined>>

(* It returns when its channel is closed and empty.                        *)
WatchEnd(s) ==
  /\ watch[s] = "reading"
  /\ buffer[s] = <<>>
  /\ s \in closed
  /\ watch' = [watch EXCEPT ![s] = "ended"]
  /\ UNCHANGED <<input, open, running, streams, subs, closed, buffer, dropping,
                 missed, joined, received>>

Next ==
  \/ \E s \in Subs : \/ Subscribe(s) \/ Drop(s) \/ Cancel(s)
                     \/ WatchReceive(s) \/ WatchEnd(s)
  \/ Stream \/ CloseInput \/ StreamEnd

Spec == Init /\ [][Next]_vars

(* The goroutines of the broadcaster get the mutex, which is starvation    *)
(* free; a stream that can go on sending its items does.                   *)
FairSpec == /\ Spec
            /\ WF_vars(StreamEnd)
            /\ \A s \in Subs : /\ WF_vars(Drop(s))
                               /\ WF_vars(WatchReceive(s)) /\ WF_vars(WatchEnd(s))
-----------------------------------------------------------------------------
TypeOK ==
  /\ input \in 0 .. MaxItems
  /\ open \in BOOLEAN /\ running \in BOOLEAN
  /\ streams \in Nat
  /\ subs \subseteq Subs /\ closed \subseteq Subs
  /\ \A s \in Subs : Len(buffer[s]) <= Capacity
  /\ dropping \subseteq Subs /\ missed \subseteq Subs
  /\ watch \in [Subs -> {"idle", "reading", "failed", "ended"}]
  /\ joined \in [Subs -> 0 .. MaxItems]

(* Nobody can send on a closed channel or close one twice, both of which   *)
(* would panic: a subscribed channel is open, and there is never more than *)
(* one stream goroutine sending to it.                                     *)
NoSendOnClosed == /\ subs \cap closed = {}
                  /\ streams <= 1
                  /\ running <=> streams = 1

(* A subscription that missed nothing has, in order and without a gap,     *)
(* every item since it was made; one that missed an item is being dropped  *)
(* or has been, so that its watcher never takes a gap for the full story   *)
(* of a stream that goes on (stream, "Slow consumer, drop").               *)
Items(s) == received[s] \o buffer[s]

CompleteOrDropped ==
  \A s \in subs :
    IF s \in missed
    THEN s \in dropping
    ELSE watch[s] = "reading" =>
           Items(s) = [i \in 1 .. input - joined[s] |-> joined[s] + i]

(* A watcher that missed an item sees its stream end, after it has got     *)
(* what was still buffered, unless sending to its client failed.           *)
SlowWatcherEnds ==
  \A s \in Subs : s \in missed ~> watch[s] \in {"ended", "failed"}
=============================================================================
