-------------------------- MODULE LogStream_proofs --------------------------
(***************************************************************************)
(* TLAPS proofs about LogStream, for any number of lines and any window:   *)
(* its types, and that the client gets the lines in their order, without a *)
(* gap, and complete when the log ends without an error.                   *)
(***************************************************************************)
EXTENDS LogStream, SequenceTheorems, TLAPS

(* The lines that have been handed to ProcessLog: all that the scanner has *)
(* returned, but for one that the goroutine has not handed over yet.       *)
Handed == IF stream \in {"select", "send"} THEN pos - 1 ELSE pos

(* The lines that ProcessLog has sent of these.                            *)
Passed == IF processLog = "send" THEN Handed - 1 ELSE Handed

(* The client was sent the first lines, and what is under way follows.     *)
InOrder ==
  /\ \A i \in 1..Len(got) : got[i] = i
  /\ \A i \in 1..Len(wire) : wire[i] = Len(got) + i

(* Where the lines are, as long as the connection is up.                   *)
Whereabouts ==
  /\ stream \in {"select", "send"} => pos > 0
  /\ processLog = "send" => line = Handed /\ line > 0
  /\ connected => Len(got) + Len(wire) = Passed
  /\ Len(got) + Len(wire) <= pos

(* What the goroutines have come to says how they came to it: a line that  *)
(* InstanceLog is sending is there, nothing is scanned before the file is  *)
(* open, only a broken connection leads to doneChan, and a scan that was   *)
(* not cut has had all that was there at the call.                         *)
Progress ==
  /\ instanceLog = "send" => wire # <<>>
  /\ instanceLog \in Returned => ~ connected /\ wire = <<>>
  /\ processLog = "find" => stream = "none"
  /\ stream = "none" => pos = 0
  /\ processLog = "done" => ~ connected
  /\ processLog = "ok" => stream = "ended" /\ (cut \/ pos >= initial)
  /\ stream = "ended" /\ processLog # "error" => cut \/ pos >= initial
  /\ instanceLog = "ok" => processLog = "ok" /\ (cut \/ Len(got) >= initial)

IInv == TypeOK /\ InOrder /\ Whereabouts /\ Progress
-----------------------------------------------------------------------------
(* More lines may be read without harm to those under way or delivered.    *)
LEMMA SeqMonotone ==
  ASSUME NEW m \in Nat, NEW n \in Nat, m <= n, NEW s \in Seq(1..m)
  PROVE  s \in Seq(1..n)
  OBVIOUS

(* An empty wire is one.                                                   *)
LEMMA NoLines ==
  ASSUME NEW n \in Nat
  PROVE  <<>> \in Seq(1..n) /\ Len(<<>>) = 0
  BY EmptySeq

(* What a sequence of lines is with one more.                              *)
LEMMA OneMore ==
  ASSUME NEW n \in Nat, NEW s \in Seq(1..n), NEW e \in 1..n
  PROVE  /\ Append(s, e) \in Seq(1..n)
         /\ Append(s, e) # <<>>
         /\ Len(s) \in Nat
         /\ Len(Append(s, e)) = Len(s) + 1
         /\ \A i \in 1..Len(s) : Append(s, e)[i] = s[i]
         /\ Append(s, e)[Len(s) + 1] = e
  BY AppendProperties, LenProperties

(* What it is without its first.                                           *)
LEMMA FirstTaken ==
  ASSUME NEW n \in Nat, NEW s \in Seq(1..n), s # <<>>
  PROVE  /\ Head(s) = s[1]
         /\ Head(s) \in 1..n
         /\ Tail(s) \in Seq(1..n)
         /\ Len(s) \in Nat \ {0}
         /\ Len(Tail(s)) = Len(s) - 1
         /\ \A i \in 1..Len(Tail(s)) : Tail(s)[i] = s[i + 1]
  BY HeadTailProperties, EmptySeq

(* A single line.                                                          *)
LEMMA OneLine ==
  ASSUME NEW n \in Nat, NEW e \in 1..n
  PROVE  <<e>> \in Seq(1..n) /\ <<e>> # <<>> /\ Len(<<e>>) = 1 /\ <<e>>[1] = e
  OBVIOUS

(* The invariant holds when the call comes.                                *)
LEMMA InitIInv == Init => IInv
<1> SUFFICES ASSUME Init PROVE IInv
  OBVIOUS
<1> USE LogStreamAssumption DEF Init, Returned
<1>1. TypeOK
  <2>1. pos \in Nat /\ wire = <<>> /\ got = <<>>
    OBVIOUS
  <2>2. <<>> \in Seq(1..pos) /\ Len(<<>>) = 0
    BY <2>1, NoLines
  <2> HIDE DEF Init
  <2>3. wire \in Seq(1..pos) /\ Len(wire) <= Window /\ got \in Seq(1..pos)
    BY <2>1, <2>2
  <2>4. /\ written \in 0..MaxLines /\ initial \in 0..written
        /\ pos \in 0..written /\ line \in 0..pos
        /\ cut = FALSE /\ stream = "none" /\ file = "closed" /\ processLog = "find"
        /\ connected = TRUE /\ instanceLog = "recv"
    BY DEF Init
  <2> QED
    BY <2>3, <2>4 DEF TypeOK
<1>2. InOrder /\ Whereabouts /\ Progress
  BY DEF InOrder, Whereabouts, Progress, Handed, Passed
<1> QED
  BY <1>1, <1>2 DEF IInv

(* Losing what is under way, with the connection, keeps the invariant,     *)
(* whether InstanceLog returns an error on it or does not know yet.        *)
LEMMA WireLost ==
  ASSUME IInv, wire' = <<>>, connected' = FALSE,
         instanceLog' = "error" \/ (instanceLog' = instanceLog /\ instanceLog # "send"),
         UNCHANGED <<written, initial, pos, cut, stream, file, processLog, line, got>>
  PROVE  IInv'
<1>1. wire' \in Seq(1..pos) /\ Len(wire') = 0 /\ Len(got) \in Nat /\ Len(wire) \in Nat
  BY NoLines DEF IInv, TypeOK
<1>2. TypeOK'
  <2>1. Len(wire') <= Window /\ instanceLog' \in {"recv", "send"} \cup Returned
    BY <1>1, LogStreamAssumption DEF IInv, TypeOK, Returned
  <2> QED
    BY <1>1, <2>1 DEF IInv, TypeOK
<1>3. InOrder' /\ Whereabouts'
  BY <1>1 DEF IInv, TypeOK, InOrder, Whereabouts, Handed, Passed
<1>4. Progress'
  BY DEF IInv, Progress, Returned
<1> QED
  BY <1>2, <1>3, <1>4 DEF IInv

(* Every step keeps it.                                                    *)
LEMMA NextIInv == IInv /\ [Next]_vars => IInv'
<1> SUFFICES ASSUME IInv, [Next]_vars PROVE IInv'
  OBVIOUS
<1> USE LogStreamAssumption DEF IInv, Returned
<1>1. CASE UNCHANGED vars
  BY <1>1 DEF TypeOK, InOrder, Whereabouts, Progress, Handed, Passed,
     vars, log, reader, manager, relay
<1>2. CASE Write
  <2>1. TypeOK'
    BY <1>2, SeqMonotone DEF Write, TypeOK, Progress, Whereabouts, log, reader, manager, relay
  <2>2. InOrder'
    BY <1>2 DEF Write, TypeOK, InOrder, Whereabouts, Progress, Handed, Passed, log, reader, manager, relay
  <2>3. Whereabouts'
    BY <1>2 DEF Write, TypeOK, Whereabouts, Progress, Handed, Passed, log, reader, manager, relay
  <2>4. Progress'
    BY <1>2 DEF Write, TypeOK, Whereabouts, Progress, Handed, Passed, log, reader, manager, relay
  <2> QED
    BY <2>1, <2>2, <2>3, <2>4
<1>3. CASE Open
  <2>1. TypeOK'
    BY <1>3, SeqMonotone DEF Open, TypeOK, Progress, Whereabouts, log, reader, manager, relay
  <2>2. InOrder'
    BY <1>3 DEF Open, TypeOK, InOrder, Whereabouts, Progress, Handed, Passed, log, reader, manager, relay
  <2>3. Whereabouts'
    BY <1>3 DEF Open, TypeOK, Whereabouts, Progress, Handed, Passed, log, reader, manager, relay
  <2>4. Progress'
    BY <1>3 DEF Open, TypeOK, Whereabouts, Progress, Handed, Passed, log, reader, manager, relay
  <2> QED
    BY <2>1, <2>2, <2>3, <2>4
<1>4. CASE Scan
  <2> USE <1>4 DEF Scan, log, reader, manager, relay
  <2>1. CASE pos < written /\ pos' = pos + 1 /\ stream' = "select" /\ UNCHANGED <<cut, file>>
    <3>1. TypeOK'
      BY <2>1, SeqMonotone DEF TypeOK
    <3>2. InOrder' /\ Whereabouts' /\ Progress'
      BY <2>1 DEF TypeOK, InOrder, Whereabouts, Progress, Handed, Passed
    <3> QED
      BY <3>1, <3>2
  <2>2. CASE cut' = (pos < written) /\ stream' = "ended" /\ file' = "closed" /\ UNCHANGED pos
    <3>1. cut' \in BOOLEAN /\ (cut' \/ pos >= written)
      <4>1. cut' = (pos < written)
        BY <2>2
      <4>2. pos \in Nat /\ written \in Nat
        BY DEF TypeOK
      <4> HIDE <1>4 DEF Scan, IInv
      <4>3. CASE pos < written
        <5>1. cut' = TRUE
          BY <4>1, <4>3, Zenon
        <5> QED
          BY <5>1
      <4>4. CASE ~ (pos < written)
        <5>1. cut' = FALSE
          <6>1. (pos < written) = FALSE
            BY <4>4
          <6> QED
            BY <4>1, <6>1, Zenon
        <5>2. pos >= written
          BY <4>2, <4>4
        <5> QED
          BY <5>1, <5>2
      <4> QED
        BY <4>3, <4>4
    <3> HIDE DEF Scan
    <3>2. TypeOK'
      BY <2>2, <3>1 DEF TypeOK, Scan
    <3>3. InOrder' /\ Whereabouts'
      BY <2>2 DEF TypeOK, InOrder, Whereabouts, Progress, Handed, Passed, Scan
    <3>4. stream = "scan" /\ UNCHANGED <<written, initial, processLog, connected, wire, instanceLog, got>>
      BY DEF Scan
    <3>5. Progress'
      BY <2>2, <3>1, <3>4 DEF TypeOK, Progress
    <3> QED
      BY <3>2, <3>3, <3>5
  <2> QED
    BY <2>1, <2>2
<1>5. CASE SelectDefault
  <2>1. TypeOK'
    BY <1>5, SeqMonotone DEF SelectDefault, TypeOK, Progress, Whereabouts, log, reader, manager, relay
  <2>2. InOrder'
    BY <1>5 DEF SelectDefault, TypeOK, InOrder, Whereabouts, Progress, Handed, Passed, log, reader, manager, relay
  <2>3. Whereabouts'
    BY <1>5 DEF SelectDefault, TypeOK, Whereabouts, Progress, Handed, Passed, log, reader, manager, relay
  <2>4. Progress'
    BY <1>5 DEF SelectDefault, TypeOK, Whereabouts, Progress, Handed, Passed, log, reader, manager, relay
  <2> QED
    BY <2>1, <2>2, <2>3, <2>4
<1>6. CASE SelectDone
  <2>1. TypeOK'
    BY <1>6, SeqMonotone DEF SelectDone, TypeOK, Progress, Whereabouts, log, reader, manager, relay
  <2>2. InOrder'
    BY <1>6 DEF SelectDone, TypeOK, InOrder, Whereabouts, Progress, Handed, Passed, log, reader, manager, relay
  <2>3. Whereabouts'
    BY <1>6 DEF SelectDone, TypeOK, Whereabouts, Progress, Handed, Passed, log, reader, manager, relay
  <2>4. Progress'
    BY <1>6 DEF SelectDone, TypeOK, Whereabouts, Progress, Handed, Passed, log, reader, manager, relay
  <2> QED
    BY <2>1, <2>2, <2>3, <2>4
<1>7. CASE HandOver
  <2>1. TypeOK'
    BY <1>7, SeqMonotone DEF HandOver, TypeOK, Progress, Whereabouts, log, reader, manager, relay
  <2>2. InOrder'
    BY <1>7 DEF HandOver, TypeOK, InOrder, Whereabouts, Progress, Handed, Passed, log, reader, manager, relay
  <2>3. Whereabouts'
    BY <1>7 DEF HandOver, TypeOK, Whereabouts, Progress, Handed, Passed, log, reader, manager, relay
  <2>4. Progress'
    BY <1>7 DEF HandOver, TypeOK, Whereabouts, Progress, Handed, Passed, log, reader, manager, relay
  <2> QED
    BY <2>1, <2>2, <2>3, <2>4
<1>8. CASE RangeEnds
  <2>1. TypeOK'
    BY <1>8, SeqMonotone DEF RangeEnds, TypeOK, Progress, Whereabouts, log, reader, manager, relay
  <2>2. InOrder'
    BY <1>8 DEF RangeEnds, TypeOK, InOrder, Whereabouts, Progress, Handed, Passed, log, reader, manager, relay
  <2>3. Whereabouts'
    BY <1>8 DEF RangeEnds, TypeOK, Whereabouts, Progress, Handed, Passed, log, reader, manager, relay
  <2>4. Progress'
    BY <1>8 DEF RangeEnds, TypeOK, Whereabouts, Progress, Handed, Passed, log, reader, manager, relay
  <2> QED
    BY <2>1, <2>2, <2>3, <2>4
<1>9. CASE ProcessLogSend
  <2> USE <1>9 DEF log, reader, manager, relay
  <2>1. CASE connected
    <3>1. Len(wire) < Window /\ wire' = Append(wire, line)
      BY <2>1 DEF ProcessLogSend
    <3>2. /\ processLog = "send" /\ processLog' = "range"
          /\ UNCHANGED <<written, initial, pos, cut, stream, file, line, connected, instanceLog, got>>
      BY <2>1 DEF ProcessLogSend
    <3>3. pos \in Nat /\ wire \in Seq(1..pos) /\ line \in 1..pos /\ Len(got) \in Nat
      BY <3>2 DEF TypeOK, Whereabouts
    <3>4. /\ wire' \in Seq(1..pos) /\ wire' # <<>>
          /\ Len(wire) \in Nat /\ Len(wire') = Len(wire) + 1
          /\ \A i \in 1..Len(wire) : wire'[i] = wire[i]
          /\ wire'[Len(wire) + 1] = line
      BY <3>1, <3>3, OneMore
    <3>5. line = Len(got) + Len(wire) + 1
      BY <2>1, <3>2, <3>3, <3>4 DEF Whereabouts, Passed
    <3>6. TypeOK'
      BY <3>1, <3>2, <3>4 DEF TypeOK
    <3>7. InOrder'
      <4>1. ASSUME NEW i \in 1..Len(wire') PROVE wire'[i] = Len(got) + i
        <5>1. CASE i \in 1..Len(wire)
          <6>1. wire[i] = Len(got) + i
            BY <5>1 DEF InOrder
          <6>2. wire'[i] = wire[i]
            BY <3>4, <5>1
          <6> QED
            BY <6>1, <6>2
        <5>2. CASE i = Len(wire) + 1
          <6>1. Len(got) + i = line
            BY <3>3, <3>4, <3>5, <5>2
          <6> HIDE <1>9
          <6> QED
            BY <3>4, <5>2, <6>1
        <5> QED
          BY <3>4, <5>1, <5>2
      <4> QED
        BY <3>2, <4>1 DEF InOrder
    <3>8. Whereabouts' /\ Progress'
      BY <2>1, <3>2, <3>3, <3>4, <3>5 DEF Whereabouts, Progress, Handed, Passed
    <3> QED
      BY <3>6, <3>7, <3>8
  <2>2. CASE ~ connected
    BY <2>2 DEF ProcessLogSend, TypeOK, InOrder, Whereabouts, Progress, Handed, Passed
  <2> QED
    BY <2>1, <2>2
<1>10. CASE RelayRecv
  <2> USE <1>10 DEF log, reader, manager, relay
  <2>1. CASE wire # <<>>
    BY <2>1 DEF RelayRecv, TypeOK, InOrder, Whereabouts, Progress, Handed, Passed
  <2>2. CASE wire = <<>> /\ connected /\ processLog = "ok" /\ RelayReturns("ok")
    <3>1. Len(got) = pos /\ Len(got) \in Nat /\ (cut \/ Len(got) >= initial)
      <4>1. Len(wire) = 0 /\ Len(got) \in Nat /\ pos \in Nat
        BY <2>2 DEF TypeOK
      <4>2. Len(got) + Len(wire) = pos
        BY <2>2 DEF TypeOK, Whereabouts, Progress, Handed, Passed
      <4> QED
        BY <2>2, <4>1, <4>2 DEF Progress
    <3>2. TypeOK' /\ InOrder' /\ Whereabouts'
      BY <2>2 DEF RelayRecv, RelayReturns, TypeOK, InOrder, Whereabouts, Handed, Passed
    <3>3. Progress'
      BY <2>2, <3>1 DEF RelayRecv, RelayReturns, Progress
    <3> QED
      BY <3>2, <3>3
  <2>3. CASE wire = <<>> /\ RelayReturns("error")
    BY <2>3 DEF RelayRecv, RelayReturns, TypeOK, InOrder, Whereabouts, Progress, Handed, Passed
  <2> QED
    BY <2>1, <2>2, <2>3 DEF RelayRecv
<1>11. CASE RelaySend
  <2> USE <1>11 DEF log, reader, manager, relay
  <2>1. wire # <<>> /\ got' = Append(got, Head(wire)) /\ wire' = Tail(wire)
    BY DEF RelaySend
  <2>2. /\ instanceLog' = "recv"
        /\ UNCHANGED <<written, initial, pos, cut, stream, file, processLog, line, connected>>
    BY DEF RelaySend
  <2>3. pos \in Nat /\ wire \in Seq(1..pos) /\ got \in Seq(1..pos) /\ Len(got) \in Nat
    BY DEF TypeOK
  <2>4. /\ Head(wire) = wire[1] /\ Head(wire) \in 1..pos
        /\ Len(wire) \in Nat \ {0}
        /\ wire' \in Seq(1..pos) /\ Len(wire') = Len(wire) - 1
        /\ \A i \in 1..Len(wire') : wire'[i] = wire[i + 1]
    BY <2>1, <2>3, FirstTaken
  <2>5. /\ got' \in Seq(1..pos) /\ Len(got') = Len(got) + 1
        /\ \A i \in 1..Len(got) : got'[i] = got[i]
        /\ got'[Len(got) + 1] = Head(wire)
    BY <2>1, <2>3, <2>4, OneMore
  <2>6. TypeOK'
    BY <2>2, <2>4, <2>5 DEF TypeOK
  <2>7. InOrder'
    <3>1. Head(wire) = Len(got) + 1
      BY <2>4 DEF InOrder
    <3>2. ASSUME NEW i \in 1..Len(got') PROVE got'[i] = i
      <4>1. CASE i \in 1..Len(got)
        <5>1. got[i] = i
          BY <4>1 DEF InOrder
        <5> QED
          BY <2>5, <4>1, <5>1
      <4>2. CASE i = Len(got) + 1
        <5> HIDE <1>11
        <5> QED
          BY <2>5, <3>1, <4>2
      <4> QED
        BY <2>3, <2>5, <4>1, <4>2
    <3>3. \A i \in 1..Len(wire') : wire'[i] = Len(got') + i
      BY <2>3, <2>4, <2>5 DEF InOrder
    <3> QED
      BY <3>2, <3>3 DEF InOrder
  <2>8. Whereabouts'
    <3>1. Len(got') + Len(wire') = Len(got) + Len(wire)
      BY <2>3, <2>4, <2>5
    <3> QED
      BY <2>2, <3>1 DEF Whereabouts, Handed, Passed
  <2>9. Progress'
    BY <2>2 DEF RelaySend, Progress
  <2> QED
    BY <2>6, <2>7, <2>8, <2>9
<1>12. CASE RelaySendFails
  <2> USE <1>12 DEF log, reader, manager
  <2>1. /\ pos \in Nat /\ wire' = <<>>
        /\ connected' = FALSE /\ instanceLog' = "error"
        /\ UNCHANGED <<written, initial, pos, cut, stream, file, processLog, line, got>>
    BY DEF RelaySendFails, RelayReturns, TypeOK
  <2> QED
    BY <2>1, WireLost
<1>13. CASE Break
  <2> USE <1>13 DEF Break, log, reader, manager, relay
  <2>1. CASE instanceLog = "send"
    <3>1. pos \in Nat /\ wire \in Seq(1..pos) /\ wire # <<>> /\ wire' = <<Head(wire)>>
      BY <2>1 DEF TypeOK, Progress
    <3>2. /\ connected' = FALSE
          /\ UNCHANGED <<written, initial, pos, cut, stream, file, processLog, line, instanceLog, got>>
      OBVIOUS
    <3> HIDE <1>13 DEF Break
    <3>3. Head(wire) = wire[1] /\ Head(wire) \in 1..pos /\ Len(wire) \in Nat \ {0}
      BY <3>1, FirstTaken
    <3>4. wire' \in Seq(1..pos) /\ wire' # <<>> /\ Len(wire') = 1 /\ wire'[1] = wire[1]
      BY <3>1, <3>3, OneLine
    <3>5. TypeOK'
      <4>1. Len(wire') <= Window
        BY <3>4
      <4>2. /\ written \in 0..MaxLines /\ initial \in 0..written
            /\ pos \in 0..written /\ line \in 0..pos /\ cut \in BOOLEAN
            /\ stream \in {"none", "scan", "select", "send", "ended"}
            /\ file \in {"open", "closed"}
            /\ processLog \in {"find", "range", "send", "done"} \cup Returned
            /\ instanceLog \in {"recv", "send"} \cup Returned
            /\ got \in Seq(1..pos)
        BY DEF TypeOK
      <4>3. wire' \in Seq(1..pos)
        BY <3>4
      <4> HIDE DEF IInv, Returned
      <4> QED
        BY <3>2, <4>1, <4>2, <4>3 DEF TypeOK
    <3>6. InOrder'
      BY <3>2, <3>3, <3>4 DEF InOrder
    <3>7. Whereabouts'
      BY <3>2, <3>3, <3>4 DEF TypeOK, Whereabouts, Handed, Passed
    <3>8. Progress'
      BY <2>1, <3>2, <3>4 DEF Progress
    <3> QED
      BY <3>5, <3>6, <3>7, <3>8
  <2>2. CASE instanceLog # "send"
    <3>1. /\ wire' = <<>> /\ connected' = FALSE
          /\ UNCHANGED <<written, initial, pos, cut, stream, file, processLog, line, instanceLog, got>>
      BY <2>2
    <3> HIDE <1>13 DEF Break
    <3> QED
      BY <2>2, <3>1, WireLost DEF TypeOK
  <2> QED
    BY <2>1, <2>2
<1> QED
  BY <1>1, <1>2, <1>3, <1>4, <1>5, <1>6, <1>7, <1>8, <1>9, <1>10, <1>11, <1>12, <1>13
     DEF Next, ReaderStep, ManagerStep, RelayStep

(* For any number of lines and any window every variable keeps its type,   *)
(* and StreamLog, ProcessLog and InstanceLog pass on only lines that were  *)
(* read from the file.                                                     *)
THEOREM TypeCorrect == Spec => []TypeOK
<1>1. IInv => TypeOK
  BY DEF IInv
<1> QED
  BY InitIInv, NextIInv, <1>1, PTL DEF Spec

(* For any number of lines and any window the client gets the lines in     *)
(* their order and without a gap, and all that were there at the call when *)
(* the log ends without an error and the scan was not cut.                 *)
THEOREM LogArrives == Spec => []LogComplete
<1>1. IInv => LogComplete
  BY DEF IInv, InOrder, Progress, TypeOK, LogComplete
<1> QED
  BY InitIInv, NextIInv, <1>1, PTL DEF Spec
=============================================================================
