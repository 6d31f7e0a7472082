------------------------------- MODULE Daemon -------------------------------
(***************************************************************************)
(* The daemon (app/cmd/start.go) around the process manager: its gRPC      *)
(* servers, the signal handler that stops them, and cleanup, which deletes *)
(* every process before the daemon returns.                                *)
(*                                                                         *)
(* The calls of clients are those of module ProcessManager; here they have *)
(* to reach the server of the process manager first.  Stop of grpc does    *)
(* not wait for handlers, so calls that arrived before it go on during the *)
(* cleanup.  cleanup calls ProcessDelete itself, at most once for a name:  *)
(* the names are the delete calls it makes.                                *)
(***************************************************************************)
EXTENDS ProcessManager

CONSTANTS
  Servers,    \* the gRPC servers of the daemon
  PmServer    \* the one of the process manager

ASSUME DaemonAssumption == PmServer \in Servers /\ Names \subseteq Deletes

ClientCalls == Procs \cup (Deletes \ Names)

VARIABLES
  daemon,    \* where start is: setup, running, returned
  serve,     \* where the goroutine of each server is
  stopped,   \* the servers whose Stop has been called
  sigs,      \* whether a signal was put in the buffer of sigs; only the first is read
  handler,   \* where the goroutine that waits for a signal is
  arrived,   \* calls the process manager's server has begun to handle
  toDelete,  \* cleanup: listed names it has still to delete
  outcome,   \* cleanup: none, success, failure
  listed,    \* history: the processes registered when cleanup listed them
  live       \* history: those that were running then and had not been stopped

servers == <<daemon, serve, stopped, sigs, handler>>
cleanup == <<toDelete, outcome, listed, live>>
daemonVars == <<servers, arrived, cleanup>>
allVars == <<vars, daemonVars>>

DaemonInit ==
  /\ Init
  /\ \A n \in Names : delName[n] = n
  /\ daemon = "setup"
  /\ serve = [s \in Servers |-> "serving"]
  /\ stopped = {}
  /\ sigs = FALSE
  /\ handler = "receive"
  /\ arrived = {}
  /\ toDelete = {}
  /\ outcome = "none"
  /\ listed = {}
  /\ live = {}

Registry == {n \in Names : processes[n] # NoProc}

ServerGoto(s, pc) == serve' = [serve EXCEPT ![s] = pc]
-----------------------------------------------------------------------------
(* All servers are set up, or start returns because one cannot be.         *)
Setup ==
  /\ daemon = "setup"
  /\ daemon' \in {"running", "returned"}
  /\ UNCHANGED <<vars, serve, stopped, sigs, handler, arrived, cleanup>>

(* Mutant: nothing is sent when a server has ended.                        *)
SendNothing(s, pc) ==
  /\ ServerGoto(s, pc)
  /\ UNCHANGED sigs

(* The deferred send of SIGTERM as the goroutine of a server returns; it   *)
(* does not wait for a full buffer.                                        *)
SendSigterm(s, pc) ==
  /\ ServerGoto(s, pc)
  /\ sigs' = TRUE

(* What follows Serve in the goroutine of a server.                        *)
AfterServe(s) ==
  \/ s = PmServer /\ ServerGoto(s, "list") /\ UNCHANGED sigs
  \/ s # PmServer /\ SendSigterm(s, "returned")

(* server.Serve returns because the server was stopped, be it before Serve *)
(* was called ...                                                          *)
ServeStopped(s) ==
  /\ serve[s] = "serving"
  /\ s \in stopped
  /\ AfterServe(s)
  /\ UNCHANGED <<vars, daemon, stopped, handler, arrived, cleanup>>

(* ... or because its listener failed; open connections stay open.         *)
ServeFails(s) ==
  /\ daemon = "running"
  /\ serve[s] = "serving"
  /\ s \notin stopped
  /\ AfterServe(s)
  /\ UNCHANGED <<vars, daemon, stopped, handler, arrived, cleanup>>

(* SIGINT or SIGTERM from outside.                                         *)
Signal ==
  /\ daemon = "running"
  /\ sigs' = TRUE
  /\ UNCHANGED <<vars, daemon, serve, stopped, handler, arrived, cleanup>>

HandlerReceive ==
  /\ handler = "receive"
  /\ sigs
  /\ handler' = "stopping"
  /\ UNCHANGED <<vars, daemon, serve, stopped, sigs, arrived, cleanup>>

(* server.Stop() of each server.                                           *)
HandlerStop(s) ==
  /\ handler = "stopping"
  /\ s \notin stopped
  /\ stopped' = stopped \cup {s}
  /\ handler' = IF stopped' = Servers THEN "done" ELSE "stopping"
  /\ UNCHANGED <<vars, daemon, serve, sigs, arrived, cleanup>>

(* g.Wait(), and the end of the daemon: with it end all goroutines and,    *)
(* by Pdeathsig, the processes.                                            *)
Return ==
  /\ daemon = "running"
  /\ handler = "done"
  /\ \A s \in Servers : serve[s] = "returned"
  /\ daemon' = "returned"
  /\ cmd' = [p \in Procs |-> IF IsRunning(p) THEN "exited" ELSE cmd[p]]
  /\ UNCHANGED <<requests, manager, state, deletion, calls, threads, stop, serve, stopped,
                 sigs, handler, arrived, cleanup>>
-----------------------------------------------------------------------------
(***************************************************************************)
(* cleanup, in the goroutine of the process manager's server.              *)
(***************************************************************************)

(* Mutant: only what is running is listed.                                 *)
CleanupListRunning ==
  /\ serve[PmServer] = "list"
  /\ toDelete' = {n \in Registry : state[processes[n]] = "running"}
  /\ listed' = {processes[n] : n \in Registry}
  /\ live' = {p \in listed' : IsRunning(p) /\ ~ deletion[p]}
  /\ ServerGoto(PmServer, "delete")
  /\ UNCHANGED <<vars, daemon, stopped, sigs, handler, arrived, outcome>>

CleanupList ==
  /\ serve[PmServer] = "list"
  /\ toDelete' = Registry
  /\ listed' = {processes[n] : n \in Registry}
  /\ live' = {p \in listed' : IsRunning(p) /\ ~ deletion[p]}
  /\ ServerGoto(PmServer, "delete")
  /\ UNCHANGED <<vars, daemon, stopped, sigs, handler, arrived, outcome>>

(* The ProcessDelete that cleanup made last has returned.                  *)
DeleteReturned == \A n \in Names : del[n] # "stop"

(* ProcessDelete of the next name; that it is gone by now is only logged.  *)
CleanupDelete(n) ==
  /\ serve[PmServer] = "delete"
  /\ n \in toDelete
  /\ DeleteReturned
  /\ FindProcess(n)
  /\ toDelete' = toDelete \ {n}
  /\ UNCHANGED <<servers, arrived, outcome, listed, live>>

(* The loop that waits for the registry to be empty, and gives up in the   *)
(* end.                                                                    *)
CleanupWait ==
  /\ serve[PmServer] = "delete"
  /\ toDelete = {}
  /\ DeleteReturned
  /\ outcome' = IF Registry = {} THEN "success" ELSE "failure"
  /\ SendSigterm(PmServer, "returned")
  /\ UNCHANGED <<vars, daemon, stopped, handler, arrived, toDelete, listed, live>>
-----------------------------------------------------------------------------
(***************************************************************************)
(* The process manager at work.                                            *)
(***************************************************************************)

(* A call reaches the server: one that has begun to serve and was not      *)
(* stopped; of one whose listener failed the connections are still there.  *)
Arrive(c) ==
  /\ daemon = "running"
  /\ PmServer \notin stopped
  /\ c \notin arrived
  /\ arrived' = arrived \cup {c}
  /\ UNCHANGED <<vars, servers, cleanup>>

(* The first step of a call that has arrived.                              *)
Call(c) ==
  /\ daemon = "running"
  /\ c \in arrived
  /\ \/ c \in Procs /\ Reject(c)
     \/ c \in Creates /\ RegisterProcess(c)
     \/ c \in Replaces /\ InitProcessReplace(c)
     \/ c \in Deletes /\ FindProcess(c)
  /\ UNCHANGED daemonVars

Manager(Step) == daemon = "running" /\ Step /\ UNCHANGED daemonVars

HandlerStep == HandlerReceive \/ \E s \in Servers : HandlerStop(s)

CleanupStep == CleanupList \/ CleanupWait \/ \E n \in Names : CleanupDelete(n)

DaemonNext ==
  \/ Setup \/ Signal \/ HandlerStep \/ CleanupStep \/ Return
  \/ \E s \in Servers : ServeStopped(s) \/ ServeFails(s)
  \/ \E c \in ClientCalls : Arrive(c) \/ Call(c)
  \/ \E p \in Procs : Manager(ProcStep(p) \/ RunExit(p) \/ ProbeServing(p))
  \/ \E p \in Replaces : Manager(ReplaceStep(p))
  \/ \E s \in StopCalls : Manager(StopStep(s))
  \/ \E d \in Deletes : Manager(DeleteStep(d))

DaemonSpec == DaemonInit /\ [][DaemonNext]_allVars

(* The goroutines that the end of the daemon, of a stop and of a delete    *)
(* wait for, and the end of a killed process.  Signals, calls and the end  *)
(* of other processes may or may not come.                                 *)
Goroutines ==
  \/ HandlerStep \/ CleanupStep \/ Return
  \/ \E s \in Servers : ServeStopped(s)
  \/ \E p \in Procs : Manager(cmd[p] = "killed" /\ RunExit(p))
  \/ \E s \in StopCalls : Manager(StopStep(s))
  \/ \E d \in Deletes : Manager(DeleteStep(d))

(* Some goroutine runs as long as one can.  The loops of the stop          *)
(* goroutine, of unregisterProcess and of cleanup count their rounds, so   *)
(* that no goroutine can keep another from running for ever.               *)
DaemonFairness == WF_allVars(Goroutines)

DaemonFairSpec == DaemonSpec /\ DaemonFairness
-----------------------------------------------------------------------------
(* Types; one server at a time is at the cleanup, and cleanup deletes only *)
(* names it has listed.                                                    *)
DaemonTypeOK ==
  /\ TypeOK
  /\ daemon \in {"setup", "running", "returned"}
  /\ serve \in [Servers -> {"serving", "list", "delete", "returned"}]
  /\ \A s \in Servers \ {PmServer} : serve[s] \notin {"list", "delete"}
  /\ stopped \subseteq Servers
  /\ sigs \in BOOLEAN
  /\ handler \in {"receive", "stopping", "done"}
  /\ arrived \subseteq ClientCalls
  /\ toDelete \subseteq Names
  /\ outcome \in {"none", "success", "failure"}
  /\ listed \subseteq Procs /\ live \subseteq listed

(* The process has its deletion timestamp, or no command that could run.   *)
StopRecorded(p) == deletion[p] \/ cmd[p] = "exited" \/ (cmd[p] = "nil" /\ main[p] # "start")

(* It has ended, was killed, or has a stop goroutine that waits for it     *)
(* after the signal or is about to send the signal to the command it runs. *)
ToldToStop(p) == \/ cmd[p] \in {"killed", "exited"}
                 \/ StopAt(p, {"decidedStop", "stop", "wait"})

(* When cleanup is over, however it ended, and when the daemon returns,    *)
(* whatever calls in flight did to the registry between the list and the   *)
(* deletes: every process that was registered as the shutdown began has    *)
(* its deletion timestamp, and every one of them that ran by then and had  *)
(* not been stopped before has been told to stop.  A process that was      *)
(* registered but not launched gets the timestamp only: no signal is sent, *)
(* it may be launched all the same, and the end of the daemon cuts it off. *)
AllToldToStop ==
  /\ daemon = "returned" /\ handler = "done" => outcome # "none"
  /\ outcome # "none" => /\ \A p \in listed : StopRecorded(p)
                         /\ \A p \in live : ToldToStop(p)

(* A signal, or the failure of any one server, ends the daemon: the signal *)
(* reaches the handler through the buffer, every server is stopped, and    *)
(* neither cleanup nor the deferred sends wait for ever.                   *)
ShutdownEnds ==
  (daemon = "running" /\ (sigs \/ \E s \in Servers : serve[s] # "serving"))
    ~> (daemon = "returned")

(* A delete that has returned to its client is carried out: as long as the *)
(* process stays stopped its unregister goroutine takes it out of the      *)
(* registry, also when an earlier delete, or the one of cleanup, has given *)
(* up on it after 60 seconds.                                              *)
DeleteRemovesStopped ==
  \A p \in Procs :
    (\E d \in Deletes : del[d] = "wait" /\ target[d] = p)
      ~> (daemon = "returned" \/ ~ IsStopped(p) \/ ~ Registered(p))
=============================================================================
