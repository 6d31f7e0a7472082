------------------------- MODULE Broadcaster_proofs -------------------------
(***************************************************************************)
(* TLAPS proofs about Broadcaster, for any number of subscriptions, any    *)
(* buffer and any number of items: its types, that nobody sends on or      *)
(* closes a closed channel, and that a subscription has every item since   *)
(* it was made unless it is being dropped.                                 *)
(***************************************************************************)
EXTENDS Broadcaster, SequenceTheorems, TLAPS

(* Channels and what was sent on are sequences of items.                   *)
Sequential ==
  /\ buffer \in [Subs -> Seq(Nat)]
  /\ received \in [Subs -> Seq(Nat)]

(* A subscription that has not been made has left no trace.                *)
Fresh ==
  \A s \in Subs : watch[s] = "idle" =>
    /\ s \notin subs \cup closed \cup missed \cup dropping
    /\ buffer[s] = <<>>
    /\ received[s] = <<>>

(* One that missed an item and is still there is about to be dropped.      *)
MissedDropped == \A s \in subs \cap missed : s \in dropping

(* What the watcher of s has sent on follows joined[s], what is in the     *)
(* channel follows that, and the last of it is the last item that arrived. *)
Contiguous(s) ==
  /\ Len(received[s]) + Len(buffer[s]) = input - joined[s]
  /\ \A i \in 1 .. Len(received[s]) : received[s][i] = joined[s] + i
  /\ \A i \in 1 .. Len(buffer[s]) : buffer[s][i] = joined[s] + Len(received[s]) + i

(* No gap, for those that missed nothing.                                  *)
NoGap ==
  /\ \A s \in Subs : joined[s] <= input
  /\ \A s \in subs \ missed : watch[s] = "reading" => Contiguous(s)

IInv == TypeOK /\ Sequential /\ NoSendOnClosed /\ Fresh /\ MissedDropped /\ NoGap
-----------------------------------------------------------------------------
(* What a channel is with one more item.                                   *)
LEMMA OneMore ==
  ASSUME NEW s \in Seq(Nat), NEW e \in Nat
  PROVE  /\ Append(s, e) \in Seq(Nat)
         /\ Len(s) \in Nat
         /\ Len(Append(s, e)) = Len(s) + 1
         /\ \A i \in 1 .. Len(s) : Append(s, e)[i] = s[i]
         /\ Append(s, e)[Len(s) + 1] = e
  BY AppendProperties, LenProperties

(* What it is without its first.                                           *)
LEMMA FirstTaken ==
  ASSUME NEW s \in Seq(Nat), s # <<>>
  PROVE  /\ Head(s) = s[1]
         /\ Head(s) \in Nat
         /\ Tail(s) \in Seq(Nat)
         /\ Len(s) \in Nat \ {0}
         /\ Len(Tail(s)) = Len(s) - 1
         /\ \A i \in 1 .. Len(Tail(s)) : Tail(s)[i] = s[i + 1]
  BY HeadTailProperties, EmptySeq

(* An empty channel.                                                       *)
LEMMA NoItems == <<>> \in Seq(Nat) /\ Len(<<>>) = 0
  BY EmptySeq

(* The invariant holds before anybody subscribes.                          *)
LEMMA InitIInv == Init => IInv
<1> SUFFICES ASSUME Init PROVE IInv
  OBVIOUS
<1> USE BroadcasterAssumption, NoItems DEF Init
<1>1. Sequential
  BY DEF Sequential
<1>2. TypeOK
  <2>1. \A s \in Subs : Len(buffer[s]) <= Capacity
    <3>1. \A s \in Subs : buffer[s] = <<>>
      OBVIOUS
    <3>2. \A s \in Subs : Len(buffer[s]) = 0
      BY <3>1, NoItems, Zenon
    <3>3. 0 <= Capacity
      OBVIOUS
    <3> QED
      BY <3>2, <3>3, Zenon
  <2>2. /\ input \in 0 .. MaxItems
        /\ streams \in Nat
        /\ watch \in [Subs -> {"idle", "reading", "failed", "ended"}]
        /\ joined \in [Subs -> 0 .. MaxItems]
    OBVIOUS
  <2>3. /\ open \in BOOLEAN /\ running \in BOOLEAN
        /\ subs \subseteq Subs /\ closed \subseteq Subs
        /\ dropping \subseteq Subs /\ missed \subseteq Subs
    OBVIOUS
  <2> HIDE DEF Init
  <2> QED
    BY <2>1, <2>2, <2>3 DEF TypeOK
<1>3. NoSendOnClosed /\ Fresh /\ MissedDropped
  BY DEF NoSendOnClosed, Fresh, MissedDropped
<1>4. NoGap
  BY DEF NoGap
<1> QED
  BY <1>1, <1>2, <1>3, <1>4 DEF IInv

(* Every step keeps it.                                                    *)
LEMMA NextIInv == IInv /\ [Next]_vars => IInv'
<1> SUFFICES ASSUME IInv, [Next]_vars PROVE IInv'
  OBVIOUS
<1> USE BroadcasterAssumption DEF IInv
<1>1. CASE UNCHANGED vars
  BY <1>1 DEF TypeOK, Sequential, NoSendOnClosed, Fresh, MissedDropped, NoGap, Contiguous, vars
<1>2. ASSUME NEW s \in Subs, Subscribe(s) PROVE IInv'
  <2> USE <1>2 DEF Subscribe
  <2>1. TypeOK' /\ Sequential'
    BY DEF TypeOK, Sequential
  <2>2. NoSendOnClosed'
    BY DEF TypeOK, NoSendOnClosed, Fresh
  <2>3. Fresh' /\ MissedDropped'
    BY DEF TypeOK, Fresh, MissedDropped
  <2>4. NoGap'
    <3>1. \A t \in Subs : joined'[t] <= input'
      BY DEF TypeOK, NoGap
    <3>2. ASSUME NEW t \in subs' \ missed', watch'[t] = "reading" PROVE Contiguous(t)'
      <4>1. CASE t = s
        <5>1. Len(received[s]) = 0 /\ Len(buffer[s]) = 0 /\ joined'[s] = input /\ input \in Nat
          BY NoItems DEF TypeOK, Fresh
        <5> QED
          BY <4>1, <5>1 DEF Contiguous
      <4>2. CASE t # s
        BY <3>2, <4>2 DEF TypeOK, NoGap, Contiguous
      <4> QED
        BY <4>1, <4>2
    <3> QED
      BY <3>1, <3>2 DEF NoGap
  <2> QED
    BY <2>1, <2>2, <2>3, <2>4
<1>3. ASSUME NEW s \in Subs, Drop(s) PROVE IInv'
  <2> USE <1>3 DEF Drop, Unsub
  <2>1. TypeOK' /\ Sequential'
    BY DEF TypeOK, Sequential
  <2>2. NoSendOnClosed' /\ Fresh' /\ MissedDropped'
    BY DEF TypeOK, NoSendOnClosed, Fresh, MissedDropped
  <2>3. NoGap'
    BY DEF TypeOK, Sequential, NoGap, Contiguous
  <2> QED
    BY <2>1, <2>2, <2>3
<1>4. ASSUME NEW s \in Subs, Cancel(s) PROVE IInv'
  <2> USE <1>4 DEF Cancel, Unsub
  <2>1. TypeOK' /\ Sequential'
    BY DEF TypeOK, Sequential
  <2>2. NoSendOnClosed' /\ Fresh' /\ MissedDropped'
    BY DEF TypeOK, NoSendOnClosed, Fresh, MissedDropped
  <2>3. NoGap'
    BY DEF TypeOK, Sequential, NoGap, Contiguous
  <2> QED
    BY <2>1, <2>2, <2>3
<1>5. ASSUME NEW s \in Subs, WatchReceive(s) PROVE IInv'
  <2>1. /\ watch[s] = "reading" /\ buffer[s] # <<>>
        /\ buffer' = [buffer EXCEPT ![s] = Tail(buffer[s])]
        /\ UNCHANGED <<input, open, running, streams, subs, closed, dropping, missed, joined>>
    BY <1>5 DEF WatchReceive
  <2>2. \/ received' = [received EXCEPT ![s] = Append(received[s], Head(buffer[s]))] /\ watch' = watch
        \/ watch' = [watch EXCEPT ![s] = "failed"] /\ received' = received
    BY <1>5 DEF WatchReceive
  <2>3. buffer[s] \in Seq(Nat) /\ received[s] \in Seq(Nat)
    BY DEF Sequential
  <2>4. /\ Head(buffer[s]) = buffer[s][1] /\ Head(buffer[s]) \in Nat
        /\ Tail(buffer[s]) \in Seq(Nat)
        /\ Len(buffer[s]) \in Nat \ {0}
        /\ Len(Tail(buffer[s])) = Len(buffer[s]) - 1
        /\ \A i \in 1 .. Len(Tail(buffer[s])) : Tail(buffer[s])[i] = buffer[s][i + 1]
    BY <2>1, <2>3, FirstTaken
  <2>5. /\ buffer'[s] = Tail(buffer[s])
        /\ \A t \in Subs \ {s} : buffer'[t] = buffer[t] /\ received'[t] = received[t] /\ watch'[t] = watch[t]
    BY <2>1, <2>2 DEF TypeOK, Sequential
  <2>6. Sequential'
    <3>1. buffer' \in [Subs -> Seq(Nat)]
      BY <2>1, <2>4 DEF Sequential
    <3>2. Append(received[s], Head(buffer[s])) \in Seq(Nat)
      BY <2>3, <2>4, OneMore
    <3>3. received' \in [Subs -> Seq(Nat)]
      BY <2>2, <3>2 DEF Sequential
    <3> QED
      BY <3>1, <3>3 DEF Sequential
  <2>7. TypeOK'
    <3>1. Len(Tail(buffer[s])) <= Capacity
      BY <2>4 DEF TypeOK
    <3>2. \A t \in Subs : Len(buffer'[t]) <= Capacity
      BY <2>5, <3>1 DEF TypeOK
    <3>3. watch' \in [Subs -> {"idle", "reading", "failed", "ended"}]
      BY <2>2 DEF TypeOK
    <3> QED
      BY <2>1, <3>2, <3>3 DEF TypeOK
  <2>8. NoSendOnClosed' /\ MissedDropped'
    BY <2>1 DEF NoSendOnClosed, MissedDropped
  <2>9. Fresh'
    <3>1. watch'[s] # "idle"
      BY <2>1, <2>2 DEF TypeOK
    <3> QED
      BY <2>1, <2>5, <3>1 DEF Fresh
  <2>10. NoGap'
    <3>1. ASSUME NEW t \in subs \ missed, watch'[t] = "reading" PROVE Contiguous(t)'
      <4>1. CASE t = s
        <5>1. received' = [received EXCEPT ![s] = Append(received[s], Head(buffer[s]))]
          BY <2>2, <3>1, <4>1 DEF TypeOK
        <5>2. received'[s] = Append(received[s], Head(buffer[s]))
          BY <5>1 DEF Sequential
        <5>3. /\ Len(received[s]) \in Nat
              /\ Len(received'[s]) = Len(received[s]) + 1
              /\ \A i \in 1 .. Len(received[s]) : received'[s][i] = received[s][i]
              /\ received'[s][Len(received[s]) + 1] = Head(buffer[s])
          BY <2>3, <2>4, <5>2, OneMore
        <5>4. Contiguous(s)
          BY <2>1, <4>1 DEF NoGap
        <5>5. joined[s] \in Nat /\ input \in Nat
          BY DEF TypeOK
        <5>6. Head(buffer[s]) = joined[s] + (Len(received[s]) + 1)
          <6>1. buffer[s][1] = joined[s] + Len(received[s]) + 1
            BY <2>4, <5>4 DEF Contiguous
          <6> QED
            BY <2>4, <5>3, <5>5, <6>1
        <5>7. Len(received'[s]) + Len(buffer'[s]) = input' - joined'[s]
          <6>1. Len(received[s]) + Len(buffer[s]) = input - joined[s]
            BY <5>4 DEF Contiguous
          <6>2. Len(received'[s]) + Len(buffer'[s]) = Len(received[s]) + Len(buffer[s])
            <7>1. Len(received[s]) \in Nat /\ Len(buffer[s]) \in Nat
              BY <2>4, <5>3
            <7>2. Len(received'[s]) = Len(received[s]) + 1
              BY <5>3
            <7>3. Len(buffer'[s]) = Len(buffer[s]) - 1
              BY <2>4, <2>5
            <7> QED
              BY <2>6, <7>1, <7>2, <7>3 DEF Sequential
          <6> QED
            BY <2>1, <6>1, <6>2
        <5>8. ASSUME NEW i \in 1 .. Len(received'[s]) PROVE received'[s][i] = joined'[s] + i
          <6>1. CASE i \in 1 .. Len(received[s])
            BY <2>1, <5>3, <5>4, <6>1 DEF Contiguous
          <6>2. CASE i = Len(received[s]) + 1
            BY <2>1, <5>3, <5>6, <6>2
          <6> QED
            BY <5>3, <6>1, <6>2
        <5>9. ASSUME NEW i \in 1 .. Len(buffer'[s])
              PROVE  buffer'[s][i] = joined'[s] + Len(received'[s]) + i
          <6>1. i + 1 \in 1 .. Len(buffer[s]) /\ buffer'[s][i] = buffer[s][i + 1]
            BY <2>4, <2>5
          <6>2. buffer[s][i + 1] = joined[s] + Len(received[s]) + (i + 1)
            BY <5>4, <6>1 DEF Contiguous
          <6>3. joined[s] + Len(received[s]) + (i + 1) = joined[s] + (Len(received[s]) + 1) + i
            <7>1. Len(received[s]) \in Nat /\ i \in Nat
              BY <2>4, <2>5, <5>3
            <7> QED
              BY <5>5, <7>1
          <6> QED
            BY <2>1, <5>3, <6>1, <6>2, <6>3
        <5> QED
          BY <4>1, <5>7, <5>8, <5>9 DEF Contiguous
      <4>2. CASE t # s
        <5>1. t \in Subs \ {s} /\ watch[t] = "reading"
          BY <2>5, <3>1, <4>2 DEF TypeOK
        <5>2. Contiguous(t)
          BY <5>1 DEF NoGap
        <5> QED
          BY <2>1, <2>5, <5>1, <5>2 DEF Contiguous
      <4> QED
        BY <4>1, <4>2
    <3> QED
      BY <2>1, <3>1 DEF NoGap
  <2> QED
    BY <2>6, <2>7, <2>8, <2>9, <2>10
<1>6. ASSUME NEW s \in Subs, WatchEnd(s) PROVE IInv'
  <2> USE <1>6 DEF WatchEnd
  <2>1. TypeOK' /\ Sequential'
    BY DEF TypeOK, Sequential
  <2>2. NoSendOnClosed' /\ Fresh' /\ MissedDropped'
    BY DEF TypeOK, NoSendOnClosed, Fresh, MissedDropped
  <2>3. NoGap'
    BY DEF TypeOK, Sequential, NoGap, Contiguous
  <2> QED
    BY <2>1, <2>2, <2>3
<1>7. CASE Stream
  <2> DEFINE slow == {s \in subs : Len(buffer[s]) = Capacity}
  <2>1. /\ input < MaxItems /\ input' = input + 1
        /\ buffer' = [s \in Subs |-> IF s \in subs \ slow THEN Append(buffer[s], input + 1)
                                                          ELSE buffer[s]]
        /\ dropping' = dropping \cup slow
        /\ missed' = missed \cup slow
        /\ UNCHANGED <<open, running, streams, subs, closed, watch, joined, received>>
    BY <1>7 DEF Stream
  <2>2. input \in Nat /\ input + 1 \in Nat /\ input + 1 \in 0 .. MaxItems
    BY <2>1 DEF TypeOK
  <2>3. \A s \in Subs : buffer[s] \in Seq(Nat) /\ Len(buffer[s]) \in Nat
    BY LenProperties DEF Sequential
  <2>4. \A s \in Subs : s \in subs \ slow => Len(buffer[s]) < Capacity
    BY <2>3 DEF TypeOK
  <2>5. slow \subseteq subs /\ subs \subseteq Subs
    BY DEF TypeOK
  <2> HIDE DEF slow
  <2>6. ASSUME NEW s \in Subs, s \in subs \ slow
        PROVE  /\ buffer'[s] \in Seq(Nat)
               /\ Len(buffer'[s]) = Len(buffer[s]) + 1
               /\ \A i \in 1 .. Len(buffer[s]) : buffer'[s][i] = buffer[s][i]
               /\ buffer'[s][Len(buffer[s]) + 1] = input + 1
    <3>1. buffer'[s] = Append(buffer[s], input + 1)
      BY <2>1, <2>6
    <3> QED
      BY <2>2, <2>3, <3>1, OneMore
  <2>7. \A s \in Subs : s \notin subs \ slow => buffer'[s] = buffer[s]
    BY <2>1
  <2>8. Sequential'
    <3>1. \A s \in Subs : buffer'[s] \in Seq(Nat)
      BY <2>3, <2>6, <2>7
    <3>2. buffer' \in [Subs -> Seq(Nat)]
      BY <2>1, <3>1
    <3> QED
      BY <2>1, <3>2 DEF Sequential
  <2>9. TypeOK'
    <3>1. ASSUME NEW s \in Subs PROVE Len(buffer'[s]) <= Capacity
      <4>1. CASE s \in subs \ slow
        BY <2>3, <2>4, <2>6, <4>1
      <4>2. CASE s \notin subs \ slow
        BY <2>7, <4>2 DEF TypeOK
      <4> QED
        BY <4>1, <4>2
    <3> QED
      BY <2>1, <2>2, <2>5, <3>1 DEF TypeOK
  <2>10. NoSendOnClosed' /\ MissedDropped'
    BY <2>1 DEF NoSendOnClosed, MissedDropped
  <2>11. Fresh'
    BY <2>1, <2>5, <2>7 DEF Fresh
  <2>12. NoGap'
    <3>1. \A s \in Subs : joined'[s] <= input'
      BY <2>1, <2>2 DEF NoGap, TypeOK
    <3>2. ASSUME NEW s \in subs' \ missed', watch'[s] = "reading" PROVE Contiguous(s)'
      <4>1. s \in Subs /\ s \in subs \ slow /\ s \in subs \ missed /\ watch[s] = "reading"
        BY <2>1, <2>5, <3>2
      <4>2. Contiguous(s)
        BY <4>1 DEF NoGap
      <4>3. joined[s] \in Nat /\ joined[s] <= input /\ Len(received[s]) \in Nat
        BY <4>1, LenProperties DEF TypeOK, NoGap, Sequential
      <4> DEFINE r == Len(received[s])
                 b == Len(buffer[s])
                 j == joined[s]
      <4>4. input \in Nat /\ j \in Nat /\ r \in Nat /\ b \in Nat /\ r + b = input - j
        BY <2>2, <2>3, <4>1, <4>2, <4>3 DEF Contiguous
      <4>5. r + (b + 1) = (input + 1) - j /\ input + 1 = j + r + (b + 1)
        <5> HIDE DEF r, b, j
        <5> QED
          BY <4>4
      <4>6. Len(received'[s]) + Len(buffer'[s]) = input' - joined'[s]
        <5>1. Len(buffer'[s]) = b + 1
          BY <2>6, <4>1
        <5> QED
          BY <2>1, <4>5, <5>1
      <4>7. ASSUME NEW i \in 1 .. Len(buffer'[s])
            PROVE  buffer'[s][i] = joined[s] + Len(received[s]) + i
        <5>1. CASE i \in 1 .. Len(buffer[s])
          BY <2>6, <4>1, <4>2, <5>1 DEF Contiguous
        <5>2. CASE i = Len(buffer[s]) + 1
          BY <2>6, <4>1, <4>5, <5>2
        <5> QED
          BY <2>3, <2>6, <4>1, <5>1, <5>2
      <4>8. \A i \in 1 .. Len(received'[s]) : received'[s][i] = joined'[s] + i
        BY <2>1, <4>2 DEF Contiguous
      <4> QED
        BY <2>1, <4>7, <4>8, <4>6 DEF Contiguous
    <3> QED
      BY <3>1, <3>2 DEF NoGap
  <2> QED
    BY <2>8, <2>9, <2>10, <2>11, <2>12
<1>8. CASE CloseInput
  BY <1>8 DEF CloseInput, TypeOK, Sequential, NoSendOnClosed, Fresh, MissedDropped, NoGap,
     Contiguous
<1>9. CASE StreamEnd
  <2> USE <1>9 DEF StreamEnd, Unsub
  <2>1. streams = 1
    BY DEF TypeOK, NoSendOnClosed
  <2>2. streams' = 0
    BY <2>1
  <2>3. /\ open' \in BOOLEAN /\ running' \in BOOLEAN
        /\ subs' \subseteq Subs /\ closed' \subseteq Subs
        /\ UNCHANGED <<input, buffer, dropping, missed, watch, joined, received>>
    BY DEF TypeOK
  <2>4. TypeOK' /\ Sequential'
    BY <2>2, <2>3 DEF TypeOK, Sequential
  <2>5. NoSendOnClosed' /\ Fresh' /\ MissedDropped'
    BY <2>1 DEF TypeOK, NoSendOnClosed, Fresh, MissedDropped
  <2>6. NoGap'
    BY DEF TypeOK, Sequential, NoGap, Contiguous
  <2> QED
    BY <2>5, <2>6, <2>4
<1> QED
  BY <1>1, <1>2, <1>3, <1>4, <1>5, <1>6, <1>7, <1>8, <1>9 DEF Next

(* For any number of subscriptions and items every variable keeps its type *)
(* and no channel holds more than its buffer has room for.                 *)
THEOREM TypeCorrect == Spec => []TypeOK
<1>1. IInv => TypeOK
  BY DEF IInv
<1> QED
  BY InitIInv, NextIInv, <1>1, PTL DEF Spec

(* For any number of subscriptions no stream goroutine sends on a closed   *)
(* channel, no channel is closed twice, and never do two stream goroutines *)
(* read the input.                                                         *)
THEOREM ChannelsSafe == Spec => []NoSendOnClosed
<1>1. IInv => NoSendOnClosed
  BY DEF IInv
<1> QED
  BY InitIInv, NextIInv, <1>1, PTL DEF Spec

(* For any number of subscriptions, any buffer and any number of items, a  *)
(* subscription has every item since it was made, in order, or is being    *)
(* dropped.                                                                *)
THEOREM NothingSkipped == Spec => []CompleteOrDropped
<1>1. IInv => CompleteOrDropped
  <2> SUFFICES ASSUME IInv, NEW s \in subs
               PROVE  IF s \in missed
                      THEN s \in dropping
                      ELSE watch[s] = "reading" =>
                             Items(s) = [i \in 1 .. input - joined[s] |-> joined[s] + i]
    BY DEF CompleteOrDropped
  <2>1. s \in missed => s \in dropping
    BY DEF IInv, MissedDropped
  <2>2. ASSUME s \notin missed, watch[s] = "reading"
        PROVE  Items(s) = [i \in 1 .. input - joined[s] |-> joined[s] + i]
    <3>1. s \in Subs /\ Contiguous(s)
      BY <2>2 DEF IInv, TypeOK, NoGap
    <3>2. received[s] \in Seq(Nat) /\ buffer[s] \in Seq(Nat)
      BY <3>1 DEF IInv, Sequential
    <3>3. joined[s] \in Nat /\ input - joined[s] \in Nat
      BY <3>1 DEF IInv, TypeOK, NoGap
    <3>4. received[s] \o buffer[s] = [i \in 1 .. input - joined[s] |-> joined[s] + i]
      <4> DEFINE r == received[s]
                 b == buffer[s]
                 j == joined[s]
                 n == input - joined[s]
      <4>1. /\ Len(r) + Len(b) = n
            /\ \A i \in 1 .. Len(r) : r[i] = j + i
            /\ \A i \in 1 .. Len(b) : b[i] = j + Len(r) + i
        BY <3>1 DEF Contiguous
      <4>2. r \in Seq(Nat) /\ b \in Seq(Nat) /\ j \in Nat /\ n \in Nat
        BY <3>2, <3>3
      <4> HIDE DEF r, b, j, n
      <4>3. Len(r) \in Nat /\ Len(b) \in Nat
        BY <4>2, LenProperties
      <4>4. /\ r \o b \in Seq(Nat)
            /\ Len(r \o b) = n
            /\ \A i \in 1 .. n : (r \o b)[i] = IF i <= Len(r) THEN r[i] ELSE b[i - Len(r)]
        BY <4>1, <4>2, ConcatProperties
      <4>5. ASSUME NEW i \in 1 .. n PROVE (r \o b)[i] = j + i
        <5>1. CASE i <= Len(r)
          BY <4>1, <4>2, <4>3, <4>4, <5>1
        <5>2. CASE ~ (i <= Len(r))
          <6>1. i - Len(r) \in 1 .. Len(b)
            BY <4>1, <4>2, <4>3, <5>2
          <6>2. b[i - Len(r)] = j + Len(r) + (i - Len(r))
            BY <4>1, <6>1
          <6> QED
            BY <4>2, <4>3, <4>4, <5>2, <6>2
        <5> QED
          BY <5>1, <5>2
      <4>6. r \o b \in [1 .. n -> Nat]
        BY <4>4, LenProperties
      <4> DEFINE f == r \o b
      <4>7. f \in [1 .. n -> Nat] /\ \A i \in 1 .. n : f[i] = j + i
        BY <4>5, <4>6
      <4> HIDE DEF f
      <4>8. f = [i \in 1 .. n |-> j + i]
        BY <4>7
      <4> QED
        BY <4>8 DEF f, r, b, j, n
    <3> QED
      BY <3>4 DEF Items
  <2> QED
    BY <2>1, <2>2
<1> QED
  BY InitIInv, NextIInv, <1>1, PTL DEF Spec
=============================================================================
