----------------------------- MODULE LogStream ------------------------------
(***************************************************************************)
(* The log of a process on its way to a client: the goroutine of StreamLog *)
(* (pkg/util/log.go) scans the file and hands its lines over the           *)
(* unbuffered logChan to ProcessLog (pkg/process), which sends them to     *)
(* InstanceLog (pkg/instance), which sends them to its client.  Meanwhile  *)
(* the process goes on writing.                                            *)
(*                                                                         *)
(* Lines are known by their number; a line counts as written when it ends. *)
(* What the two services send each other is the external gRPC stream: in   *)
(* order, with a window, and lost when the connection breaks.              *)
(***************************************************************************)
EXTENDS Naturals, Sequences

CONSTANTS
  MaxLines,  \* bound: the lines that are ever written
  Window     \* bound: the lines under way between the two services

ASSUME LogStreamAssumption == MaxLines \in Nat /\ Window \in Nat \ {0}

VARIABLES
  written,     \* the lines of the file
  pos,         \* the lines the scanner has returned
  initial,     \* history: the lines of the file when the call came
  cut,         \* history: whether the scanner stopped early, which nobody looks at
  stream,      \* where the goroutine of StreamLog is
  file,        \* whether its file is open
  processLog,  \* where ProcessLog is
  line,        \* the line it has
  connected,   \* whether the connection between the services is up
  wire,        \* the lines under way on it
  instanceLog, \* where InstanceLog is, or how it has returned
  got          \* the lines its client was sent

log     == <<written, initial>>
reader  == <<pos, cut, stream, file>>
manager == <<processLog, line>>
relay   == <<connected, wire, instanceLog, got>>
vars    == <<log, reader, manager, relay>>

Returned == {"ok", "error"}

Init ==
  /\ written \in 0..MaxLines
  /\ initial = written
  /\ pos = 0
  /\ cut = FALSE
  /\ stream = "none"
  /\ file = "closed"
  /\ processLog = "find"
  /\ line = 0
  /\ connected = TRUE
  /\ wire = <<>>
  /\ instanceLog = "recv"
  /\ got = <<>>
-----------------------------------------------------------------------------
(* LonghornWriter.Write of the process.                                    *)
Write ==
  /\ written < MaxLines
  /\ written' = written + 1
  /\ UNCHANGED <<initial, reader, manager, relay>>

(* ProcessLog: findProcess and the open of StreamLog, either of which may  *)
(* fail.                                                                   *)
Open ==
  /\ processLog = "find"
  /\ \/ /\ processLog' = "error"
        /\ UNCHANGED <<stream, file>>
     \/ /\ processLog' = "range"
        /\ stream' = "scan"
        /\ file' = "open"
  /\ UNCHANGED <<log, pos, cut, line, relay>>

(* Mutant: the channel is not closed at the end of the file.               *)
ScanWithoutClose ==
  /\ stream = "scan"
  /\ \/ /\ pos < written
        /\ pos' = pos + 1
        /\ stream' = "select"
        /\ UNCHANGED file
     \/ /\ stream' = "none"
        /\ file' = "closed"
        /\ UNCHANGED pos
  /\ UNCHANGED <<log, cut, manager, relay>>

(* scanner.Scan: a line, or the end of the loop at the end of the file or  *)
(* at a line too long for the scanner; then the channel is closed, and the *)
(* file.                                                                   *)
Scan ==
  /\ stream = "scan"
  /\ \/ /\ pos < written
        /\ pos' = pos + 1
        /\ stream' = "select"
        /\ UNCHANGED <<cut, file>>
     \/ /\ cut' = (pos < written)
        /\ stream' = "ended"
        /\ file' = "closed"
        /\ UNCHANGED pos
  /\ UNCHANGED <<log, manager, relay>>

(* The default of the select: done is not being sent at this moment.       *)
SelectDefault ==
  /\ stream = "select"
  /\ processLog # "done"
  /\ stream' = "send"
  /\ UNCHANGED <<log, pos, cut, file, manager, relay>>

(* Its case <-done, when ProcessLog is at its send of it: the channel is   *)
(* closed, the file is not, and ProcessLog returns the error.              *)
SelectDone ==
  /\ stream = "select"
  /\ processLog = "done"
  /\ stream' = "ended"
  /\ processLog' = "error"
  /\ UNCHANGED <<log, pos, cut, file, line, relay>>

(* Mutant: the line after the one that was scanned.                        *)
HandOverNext ==
  /\ stream = "send"
  /\ processLog = "range"
  /\ line' = pos + 1
  /\ stream' = "scan"
  /\ processLog' = "send"
  /\ UNCHANGED <<log, pos, cut, file, relay>>

(* logChan is unbuffered: the send and the range of ProcessLog meet.       *)
HandOver ==
  /\ stream = "send"
  /\ processLog = "range"
  /\ line' = pos
  /\ stream' = "scan"
  /\ processLog' = "send"
  /\ UNCHANGED <<log, pos, cut, file, relay>>

(* The range ends with the channel.                                        *)
RangeEnds ==
  /\ processLog = "range"
  /\ stream = "ended"
  /\ processLog' = "ok"
  /\ UNCHANGED <<log, reader, line, relay>>

(* srv.Send of ProcessLog.  After an error it sends on doneChan, and waits *)
(* there for the goroutine to come to its select.                          *)
ProcessLogSend ==
  /\ processLog = "send"
  /\ \/ /\ connected
        /\ Len(wire) < Window
        /\ wire' = Append(wire, line)
        /\ processLog' = "range"
     \/ /\ ~ connected
        /\ processLog' = "done"
        /\ UNCHANGED wire
  /\ UNCHANGED <<log, reader, line, connected, instanceLog, got>>
-----------------------------------------------------------------------------
(* InstanceLog has returned: its deferred Close ends the connection.       *)
RelayReturns(result) ==
  /\ instanceLog' = result
  /\ connected' = FALSE
  /\ wire' = <<>>

(* Mutant: what is still under way when the other side is done is left.    *)
RelayRecvEager ==
  /\ instanceLog = "recv"
  /\ \/ /\ wire # <<>>
        /\ instanceLog' = "send"
        /\ UNCHANGED <<connected, wire>>
     \/ connected /\ processLog = "ok" /\ RelayReturns("ok")
     \/ wire = <<>> /\ (~ connected \/ processLog = "error") /\ RelayReturns("error")
  /\ UNCHANGED <<log, reader, manager, got>>

(* Mutant: an error is logged and the loop goes on.                        *)
RelayRecvRetries ==
  /\ instanceLog = "recv"
  /\ \/ /\ wire # <<>>
        /\ instanceLog' = "send"
        /\ UNCHANGED <<connected, wire>>
     \/ wire = <<>> /\ connected /\ processLog = "ok" /\ RelayReturns("ok")
  /\ UNCHANGED <<log, reader, manager, got>>

(* stream.Recv: a line, io.EOF after the last line of a ProcessLog that    *)
(* returned no error, or an error.                                         *)
RelayRecv ==
  /\ instanceLog = "recv"
  /\ \/ /\ wire # <<>>
        /\ instanceLog' = "send"
        /\ UNCHANGED <<connected, wire>>
     \/ wire = <<>> /\ connected /\ processLog = "ok" /\ RelayReturns("ok")
     \/ wire = <<>> /\ (~ connected \/ processLog = "error") /\ RelayReturns("error")
  /\ UNCHANGED <<log, reader, manager, got>>

(* srv.Send of InstanceLog.                                                *)
RelaySend ==
  /\ instanceLog = "send"
  /\ wire # <<>>
  /\ got' = Append(got, Head(wire))
  /\ wire' = Tail(wire)
  /\ instanceLog' = "recv"
  /\ UNCHANGED <<log, reader, manager, connected>>

(* The client is gone.                                                     *)
RelaySendFails ==
  /\ instanceLog = "send"
  /\ RelayReturns("error")
  /\ UNCHANGED <<log, reader, manager, got>>

(* The connection between the services breaks; InstanceLog has the line it *)
(* is sending.                                                             *)
Break ==
  /\ connected
  /\ connected' = FALSE
  /\ wire' = IF instanceLog = "send" THEN <<Head(wire)>> ELSE <<>>
  /\ UNCHANGED <<log, reader, manager, instanceLog, got>>
-----------------------------------------------------------------------------
ReaderStep == Scan \/ SelectDefault \/ HandOver
ManagerStep == Open \/ SelectDone \/ RangeEnds \/ ProcessLogSend
RelayStep == RelayRecv \/ RelaySend

Next == Write \/ ReaderStep \/ ManagerStep \/ RelayStep \/ RelaySendFails \/ Break

(* Goroutines run on once they can.  A process need not write, a client    *)
(* need not go and a connection need not break.                            *)
Fairness == WF_vars(ReaderStep) /\ WF_vars(ManagerStep) /\ WF_vars(RelayStep)

Spec == Init /\ [][Next]_vars /\ Fairness
-----------------------------------------------------------------------------
(* Types; and what is under way or delivered has been read from the file.  *)
TypeOK ==
  /\ written \in 0..MaxLines
  /\ initial \in 0..written
  /\ pos \in 0..written
  /\ cut \in BOOLEAN
  /\ stream \in {"none", "scan", "select", "send", "ended"}
  /\ file \in {"open", "closed"}
  /\ processLog \in {"find", "range", "send", "done"} \cup Returned
  /\ line \in 0..pos
  /\ connected \in BOOLEAN
  /\ wire \in Seq(1..pos) /\ Len(wire) <= Window
  /\ instanceLog \in {"recv", "send"} \cup Returned
  /\ got \in Seq(1..pos)

(* The client gets the lines in their order and without a gap, and a log   *)
(* that ends without an error has at least every line that was there when  *)
(* the client asked, whatever the process writes meanwhile; unless the     *)
(* scanner stopped at a line that is too long, which StreamLog does not    *)
(* tell.                                                                   *)
LogComplete ==
  /\ \A i \in 1..Len(got) : got[i] = i
  /\ instanceLog = "ok" /\ ~ cut => Len(got) >= initial

(* InstanceLog returns, whatever becomes of ProcessLog.                    *)
InstanceLogReturns == <>(instanceLog \in Returned)

(* ProcessLog returns and its goroutine ends, unless a line could not be   *)
(* sent: the send on doneChan after that waits for a goroutine that may    *)
(* have ended, or may itself be waiting on logChan.                        *)
LogEndsUnlessSendFails ==
  <>(\/ processLog = "done"
     \/ processLog \in Returned /\ stream \in {"none", "ended"})
=============================================================================
