------------------------------ MODULE Services ------------------------------
(***************************************************************************)
(* The clients and the handlers of the proxy, of the instance service and  *)
(* of the disk service at work: calls run concurrently, each through a     *)
(* method of a client (ClientOps), which may refuse it, and then as a plan *)
(* of calls to other services (EngineOps).  The handlers share the         *)
(* environment of the process, through which the credentials of backups    *)
(* pass, and the instances that the process manager and the SPDK service   *)
(* keep.  The other services are external: a call may fail, with or        *)
(* without having had its effect.  The disk service has its SPDK client.   *)
(***************************************************************************)
EXTENDS EngineOps, ClientOps, FiniteSets, Functions

CONSTANTS
  Calls,       \* the requests in flight
  Operations,  \* the operations each may ask for
  Replicas,    \* addresses of the volume's replicas
  BackupAt,    \* those of them that have the backup whose status is asked for
  Keys,        \* the environment variables of a credential
  None

ASSUME ServicesAssumption == /\ BackupAt \subseteq Replicas
                             /\ None \notin Replicas

VARIABLES
  asked,       \* the type the caller of each method named
  request,     \* the request that each server got
  pc,          \* where its handler is
  next,        \* the call of its plan that comes next
  performed,   \* the calls of its plan that had their effect
  lastErr,     \* an error that is kept
  taskError,   \* an error the answer carries
  answer,      \* what the handler answered
  list,        \* V1 SnapshotBackupStatus: the modes of the replicas it was told
  source,      \* ... and the replica whose status it answers
  env,         \* the environment: which request each variable comes from
  unset,       \* the variables a call has not set yet
  credential,  \* the variables it has read
  instances,   \* the instances that exist, one of each kind
  found,       \* InstanceList: what it has collected
  stayed,      \* history: the instances that existed since the call arrived
  overlapped   \* history: calls that set or read variables while another did

handler == <<pc, next, performed, lastErr, taskError, answer>>
status  == <<list, source>>
backup  == <<env, unset, credential, overlapped>>
listing == <<instances, found, stayed>>
vars    == <<asked, request, handler, status, backup, listing>>

Kinds == <<"process", "replica", "engine">>

Modes == {"RW", "ERR", "absent"}

(* Operations that pass a credential through the environment.              *)
Credentialed == {"SnapshotBackup", "BackupRestore"}

Engines == {"v1", "v2", "other"}
Types   == {"engine", "replica", "unknown"}
Disks   == {"block", "filesystem", "unknown"}

(* The maps ops of the servers.                                            *)
ProxyPlans    == [e \in Engines |-> ProxyOps(e)]
InstancePlans == [e \in Engines |-> [type \in Types |->
                    [flag \in BOOLEAN |-> InstanceOps(e, type, flag)]]]
LocalPlans    == [mounted \in BOOLEAN |-> LocalOps(mounted)]
DiskPlans     == [disk \in Disks |-> DiskOps(disk)]

ProxyOperations    == DOMAIN ProxyOps("v1")
InstanceOperations == DOMAIN InstanceOps("v1", "engine", TRUE)
LocalOperations    == DOMAIN LocalOps(TRUE)
DiskOperations     == DOMAIN DiskOps("block")

(* What can be asked of some operations, given what they look at: the data *)
(* engine, the type of an instance or of a disk, a flag, the address of a  *)
(* replica, the variables of a credential, and whether the parameters that *)
(* are required, if any are, are there.                                    *)
Ask(ops, es, ts, flags, addresses, keys) ==
  {a \in [op : ops, engine : es, type : ts, flag : flags, address : addresses, keys : keys,
          complete : BOOLEAN] : ClientMethods[a.op] = "plain" => a.complete}

Status == {"SnapshotBackupStatus"}
List   == {"InstanceList"}

Asks(ops) ==
  UNION {Ask(ops \cap (ProxyOperations \ (Status \cup Credentialed)), Engines, {"engine"},
             {TRUE}, {None}, {{}}),
         Ask(ops \cap Status, Engines, {"engine"}, {TRUE}, Replicas \cup {None, "stranger"}, {{}}),
         Ask(ops \cap Credentialed, Engines, {"engine"}, {TRUE}, {None}, SUBSET Keys),
         Ask(ops \cap (InstanceOperations \ List), Engines, Types, BOOLEAN, {None}, {{}}),
         Ask(ops \cap List, {"v1"}, {"engine"}, BOOLEAN, {None}, {{}}),
         Ask(ops \cap LocalOperations, {"v1"}, {"engine"}, BOOLEAN, {None}, {{}}),
         Ask(ops \cap DiskOperations, {"v1"}, Disks, {TRUE}, {None}, {{}})}

Plan(r) == CASE r.op \in InstanceOperations -> InstancePlans[r.engine][r.type][r.flag][r.op]
             [] r.op \in ProxyOperations -> ProxyPlans[r.engine][r.op]
             [] r.op \in LocalOperations -> LocalPlans[r.flag][r.op]
             [] r.op \in DiskOperations -> DiskPlans[r.type][r.op]

(* The kind of instance a create or delete is about.                       *)
Kind(r) == IF r.engine = "v1" THEN "process" ELSE r.type

Init ==
  /\ asked = [c \in Calls |-> "engine"]
  /\ request = [c \in Calls |-> None]
  /\ pc = [c \in Calls |-> "idle"]
  /\ next = [c \in Calls |-> 1]
  /\ performed = [c \in Calls |-> {}]
  /\ lastErr = [c \in Calls |-> FALSE]
  /\ taskError = [c \in Calls |-> FALSE]
  /\ answer = [c \in Calls |-> "none"]
  /\ list = [c \in Calls |-> [r \in Replicas |-> "absent"]]
  /\ source = [c \in Calls |-> None]
  /\ env = [k \in Keys |-> None]
  /\ unset = [c \in Calls |-> {}]
  /\ credential = [c \in Calls |-> [k \in {} |-> None]]
  /\ overlapped = {}
  /\ instances \in {{}, Range(Kinds)}
  /\ found = [c \in Calls |-> {}]
  /\ stayed = [c \in Calls |-> {}]
-----------------------------------------------------------------------------
Goto(c, p) == pc' = [pc EXCEPT ![c] = p]

Return(c, a) == Goto(c, "returned") /\ answer' = [answer EXCEPT ![c] = a]

(* The other calls that are between setEnv and the end of                  *)
(* GetBackupCredential.                                                    *)
InEnv(c) == {d \in Calls \ {c} : pc[d] \in {"setenv", "getenv"}}

(* A request r reaches the server of its operation.                        *)
Arrive(c, r) ==
  /\ request' = [request EXCEPT ![c] = r]
  /\ unset' = [unset EXCEPT ![c] = r.keys]
  /\ \/ /\ r.op \in Credentialed
        /\ Goto(c, "setenv")
        /\ overlapped' = IF InEnv(c) = {} THEN overlapped
                                          ELSE overlapped \cup InEnv(c) \cup {c}
     \/ /\ r.op \notin Credentialed
        /\ Goto(c, "dispatch")
        /\ UNCHANGED overlapped
  /\ stayed' = [stayed EXCEPT ![c] = instances]
  /\ UNCHANGED <<next, performed, lastErr, taskError, answer, status, env, credential,
                 instances, found>>

(* The method of the client refuses a call: a required parameter is        *)
(* missing, or a type is not known.  InstanceCreate looks at the type only *)
(* for V2.                                                                 *)
Refuses(a) ==
  \/ ClientMethods[a.op] # "plain" /\ ~ a.complete
  \/ /\ ClientMethods[a.op] = "typed"
     /\ a.type = "unknown"
     /\ a.op = "InstanceCreate" => a.engine = "v2"

(* The request it sends otherwise; the spec of a V1 instance is never      *)
(* missing.                                                                *)
Sent(a) ==
  [op       |-> a.op,
   engine   |-> DataEngine(a.engine),
   type     |-> IF a.op \in DiskOperations THEN DiskTypeValue(a.type) ELSE a.type,
   flag     |-> IF a.op \in {"InstanceCreate", "InstanceReplace"} THEN TRUE ELSE a.flag,
   address  |-> a.address,
   keys     |-> a.keys,
   complete |-> a.complete]

(* A method of a client is called.                                         *)
ClientCall(c) ==
  /\ pc[c] = "idle"
  /\ \E a \in Asks(Operations[c]) :
       /\ asked' = [asked EXCEPT ![c] = a.type]
       /\ \/ ~ Refuses(a) /\ Arrive(c, Sent(a))
          \/ /\ Refuses(a)
             /\ Goto(c, "refused")
             /\ UNCHANGED <<request, next, performed, lastErr, taskError, answer, status,
                            backup, listing>>

(* A client of another version sends what this one never does.             *)
ForeignRequest(c) ==
  /\ pc[c] = "idle"
  /\ \E r \in Asks(Operations[c]) :
       /\ \/ r.engine = "other" /\ r.complete
          \/ r.op \in {"InstanceCreate", "InstanceReplace"} /\ ~ r.flag /\ r.complete
          \/ r.op \in DiskOperations /\ (r.type = "unknown" \/ ~ r.complete)
       /\ asked' = [asked EXCEPT ![c] = r.type]
       /\ Arrive(c, r)

(* Mutant: the loop over the variables may end early.                      *)
SetEnvStopsEarly(c) ==
  /\ pc[c] = "setenv"
  /\ \/ \E k \in unset[c] :
          /\ env' = [env EXCEPT ![k] = c]
          /\ unset' = [unset EXCEPT ![c] = @ \ {k}]
          /\ UNCHANGED pc
     \/ /\ Goto(c, "getenv")
        /\ UNCHANGED <<env, unset>>
  /\ UNCHANGED <<request, next, performed, lastErr, taskError, answer, status, credential,
                 overlapped, listing>>

(* Mutant: a variable that is set already is left alone.                   *)
SetEnvKeepsOld(c) ==
  /\ pc[c] = "setenv"
  /\ \/ \E k \in unset[c] :
          /\ env' = [env EXCEPT ![k] = IF @ = None THEN c ELSE @]
          /\ unset' = [unset EXCEPT ![c] = @ \ {k}]
          /\ UNCHANGED pc
     \/ /\ unset[c] = {}
        /\ Goto(c, "getenv")
        /\ UNCHANGED <<env, unset>>
  /\ UNCHANGED <<request, next, performed, lastErr, taskError, answer, status, credential,
                 overlapped, listing>>

(* setEnv: one os.Setenv.                                                  *)
SetEnv(c) ==
  /\ pc[c] = "setenv"
  /\ \/ \E k \in unset[c] :
          /\ env' = [env EXCEPT ![k] = c]
          /\ unset' = [unset EXCEPT ![c] = @ \ {k}]
          /\ UNCHANGED pc
     \/ /\ unset[c] = {}
        /\ Goto(c, "getenv")
        /\ UNCHANGED <<env, unset>>
  /\ UNCHANGED <<request, next, performed, lastErr, taskError, answer, status, credential,
                 overlapped, listing>>

(* GetBackupCredential: one os.Getenv, and the end: the credential is      *)
(* complete, or the target needs none, or its type is unknown, or (s3) of  *)
(* two keys one is there and the other is not.                             *)
GetBackupCredential(c) ==
  /\ pc[c] = "getenv"
  /\ \/ \E k \in Keys \ DOMAIN credential[c] :
          /\ credential' = [credential EXCEPT ![c] =
                              [l \in DOMAIN @ \cup {k} |-> IF l = k THEN env[k] ELSE @[l]]]
          /\ UNCHANGED <<pc, answer>>
     \/ /\ DOMAIN credential[c] \in {{}, Keys}
        /\ Goto(c, "dispatch")
        /\ UNCHANGED <<answer, credential>>
     \/ /\ \/ DOMAIN credential[c] = {}
           \/ /\ DOMAIN credential[c] = Keys
              /\ \E k, l \in Keys : credential[c][k] = None /\ credential[c][l] # None
        /\ Return(c, "error")
        /\ UNCHANGED credential
  /\ UNCHANGED <<request, next, performed, lastErr, taskError, status, env, unset, overlapped,
                 listing>>

(* Operations whose handler works with a client made at the start, or      *)
(* without one.                                                            *)
NoConnect(r) ==
  \/ r.op \in DiskOperations \cup DOMAIN BackingImageOps
  \/ r.op \in {"CleanupBackupMountPoints", "RemountReadOnlyVolume"}
  \/ r.op = "LogSetLevel" /\ r.engine = "v1"

(* ops, ok := p.ops[req.DataEngine], or s.ops[req.DiskType] once the disk  *)
(* service has found its required parameters.                              *)
Dispatch(c) ==
  /\ pc[c] = "dispatch"
  /\ LET plan == Plan(request[c])
         known == /\ request[c].engine # "other"
                  /\ request[c].op \in DiskOperations => request[c].complete
     IN \/ /\ ~ known \/ plan = Unimplemented
           /\ Return(c, "error")
        \/ /\ known /\ plan = Stub
           /\ Return(c, "ok")
        \/ /\ known /\ plan \notin {Unimplemented, Stub}
           /\ Goto(c, IF NoConnect(request[c]) THEN "call" ELSE "connect")
           /\ UNCHANGED answer
  /\ UNCHANGED <<request, next, performed, lastErr, taskError, status, backup, listing>>

(* NewControllerClient, NewTask, NewSPDKClient or NewProcessManagerClient. *)
Connect(c) ==
  /\ pc[c] = "connect"
  /\ \/ /\ Return(c, IF request[c].op = "BackupRestore" THEN "reported" ELSE "error")
     \/ /\ Goto(c, "call")
        /\ UNCHANGED answer
  /\ UNCHANGED <<request, next, performed, lastErr, taskError, status, backup, listing>>

(* What a call that the other service performs does to the instances, and  *)
(* what InstanceList gets from it.                                         *)
Effect(c) ==
  LET r == request[c] IN
  /\ instances' = CASE r.op = "InstanceCreate" -> instances \cup {Kind(r)}
                    [] r.op = "InstanceDelete" -> instances \ {Kind(r)}
                    [] r.op = "DiskReplicaInstanceDelete" -> instances \ {"replica"}
                    [] OTHER -> instances
  /\ stayed' = [d \in Calls |-> stayed[d] \cap instances']
  /\ found' = IF r.op = "InstanceList"
              THEN [found EXCEPT ![c] = @ \cup (instances \cap {Kinds[next[c]]})]
              ELSE found
  /\ performed' = [performed EXCEPT ![c] = @ \cup {next[c]}]
  /\ IF r.op = "SnapshotBackupStatus"
     THEN \E m \in [Replicas -> Modes] : list' = [list EXCEPT ![c] = m]
     ELSE UNCHANGED list

(* The next call of the plan succeeds.                                     *)
CallSucceeds(c) ==
  /\ pc[c] = "call"
  /\ next[c] <= Len(Plan(request[c]))
  /\ Plan(request[c])[next[c]] # "search"
  /\ Effect(c)
  /\ next' = [next EXCEPT ![c] = @ + 1]
  /\ UNCHANGED <<request, pc, lastErr, taskError, answer, source, backup>>

(* It fails, after having had its effect or without.                       *)
CallFails(c) ==
  /\ pc[c] = "call"
  /\ next[c] <= Len(Plan(request[c]))
  /\ \/ Effect(c)
     \/ UNCHANGED <<performed, list, listing>>
  /\ next' = [next EXCEPT ![c] = @ + 1]
  /\ LET policy == Plan(request[c])[next[c]]
     IN /\ policy # "search"
        /\ IF policy = "return"
           THEN Return(c, "error")
           ELSE UNCHANGED <<pc, answer>>
        /\ lastErr' = [lastErr EXCEPT ![c] = @ \/ policy = "last"]
        /\ taskError' = [taskError EXCEPT ![c] = @ \/ policy = "report"]
  /\ UNCHANGED <<request, source, backup>>

(* What FetchBackupStatus of esync may return for a replica: that it has   *)
(* no such backup, or that the call failed, is put into the status, and no *)
(* error is returned.                                                      *)
EsyncFetchBackupStatus(r) ==
  {[err |-> FALSE, statusError |-> e] : e \in {TRUE, r \notin BackupAt}}

(* The rest of V1 SnapshotBackupStatus.  The replica is the one the client *)
(* names, or the first in mode RW for which a client can be made and whose *)
(* status comes without an error.  A replica the engine lists in another   *)
(* mode is refused.  The answer carries the error of the status.           *)
FetchBackupStatus(c) ==
  /\ pc[c] = "call"
  /\ next[c] <= Len(Plan(request[c]))
  /\ Plan(request[c])[next[c]] = "search"
  /\ LET readable == {r \in Replicas : list[c][r] = "RW"}
         listed   == {r \in Replicas : list[c][r] # "absent"}
     IN \/ Return(c, "error") /\ UNCHANGED <<next, source, performed, taskError>>
        \/ \E a \in IF request[c].address = None
                    THEN {r \in readable : \E f \in EsyncFetchBackupStatus(r) : ~ f.err}
                    ELSE {request[c].address} :
             \E fetched \in EsyncFetchBackupStatus(a) :
               /\ a \in listed => a \in readable
               /\ ~ fetched.err
               /\ source' = [source EXCEPT ![c] = a]
               /\ next' = [next EXCEPT ![c] = @ + 1]
               /\ taskError' = [taskError EXCEPT ![c] = @ \/ fetched.statusError]
               /\ performed' = IF fetched.statusError THEN performed
                               ELSE [performed EXCEPT ![c] = @ \cup {next[c]}]
               /\ UNCHANGED <<pc, answer>>
  /\ UNCHANGED <<request, lastErr, list, backup, listing>>

(* Mutant: errors of earlier calls are forgotten.                          *)
FinishForgets(c) ==
  /\ pc[c] = "call"
  /\ next[c] > Len(Plan(request[c]))
  /\ Return(c, IF taskError[c] THEN "reported" ELSE "ok")
  /\ UNCHANGED <<request, next, performed, lastErr, taskError, status, backup, listing>>

(* All calls made: the handler answers.                                    *)
Finish(c) ==
  /\ pc[c] = "call"
  /\ next[c] > Len(Plan(request[c]))
  /\ Return(c, IF lastErr[c] THEN "error" ELSE IF taskError[c] THEN "reported" ELSE "ok")
  /\ UNCHANGED <<request, next, performed, lastErr, taskError, status, backup, listing>>
-----------------------------------------------------------------------------
HandlerStep(c) == \/ SetEnv(c) \/ GetBackupCredential(c)
                  \/ Dispatch(c) \/ Connect(c)
                  \/ CallSucceeds(c) \/ CallFails(c) \/ FetchBackupStatus(c)
                  \/ Finish(c)

Next == \E c \in Calls : \/ ClientCall(c)
                          \/ ForeignRequest(c)
                          \/ (HandlerStep(c) /\ UNCHANGED asked)

Spec == Init /\ [][Next]_vars
-----------------------------------------------------------------------------
(* Types; and when a request is dispatched all its variables have been set *)
(* and a credential it has is complete.                                    *)
TypeOK ==
  /\ \A c \in Calls :
       /\ pc[c] \in {"idle", "refused"} \/ request[c].op \in Operations[c]
       /\ asked[c] \in Types \cup Disks
       /\ pc[c] \in {"idle", "refused", "setenv", "getenv", "dispatch", "connect", "call",
                     "returned"}
       /\ answer[c] \in {"none", "ok", "error", "reported"}
       /\ answer[c] # "none" <=> pc[c] = "returned"
       /\ performed[c] \subseteq 1..next[c] - 1
       /\ DOMAIN credential[c] \subseteq Keys
       /\ pc[c] \in {"connect", "call"} /\ request[c].op \in Credentialed
            => unset[c] = {} /\ DOMAIN credential[c] \in {{}, Keys}
  /\ next \in [Calls -> 1..2 * Items + 2]
  /\ <<lastErr, taskError>> \in [Calls -> BOOLEAN] \X [Calls -> BOOLEAN]
  /\ list \in [Calls -> [Replicas -> Modes]]
  /\ source \in [Calls -> Replicas \cup {None, "stranger"}]
  /\ env \in [Keys -> Calls \cup {None}]
  /\ unset \in [Calls -> SUBSET Keys]
  /\ instances \subseteq Range(Kinds)
  /\ overlapped \subseteq Calls

(* Mutant: the error in the answer of a restore is not looked at.          *)
ToldWithoutTaskError(c) ==
  CASE pc[c] = "refused" -> "error"
    [] answer[c] = "reported" /\ request[c].op = "BackupRestore" -> "ok"
    [] OTHER -> answer[c]

(* What the method of the client returns: an error that the answer of a    *)
(* restore carries is returned as one.                                     *)
Told(c) ==
  CASE pc[c] = "refused" -> "error"
    [] answer[c] = "reported" /\ request[c].op = "BackupRestore" -> "error"
    [] OTHER -> answer[c]

(* The operations whose success says nothing about the other service: the  *)
(* V2 operations still to be written that answer at once, V2               *)
(* SnapshotPurge, which does not look at its error, the V2 delete of an    *)
(* engine without cleanup, the flags that V1 does not have and the log     *)
(* level, which the daemon knows itself.                                   *)
Silent(r) ==
  \/ r.op = "LogGetLevel"
  \/ r.op \in {"LogSetFlags", "LogGetFlags"} /\ r.engine = "v1"
  \/ /\ r.engine = "v2"
     /\ \/ r.op \in {"VolumeFrontendStart", "VolumeFrontendShutdown",
                      "VolumeUnmapMarkSnapChainRemovedSet", "VolumeSnapshotMaxCountSet",
                      "VolumeSnapshotMaxSizeSet", "SnapshotCloneStatus", "SnapshotPurgeStatus",
                      "SnapshotPurge"}
        \/ r.op = "InstanceDelete" /\ r.type = "engine" /\ ~ r.flag

(* A method of a client that returns no error, and no answer with one in   *)
(* it, means that every call of the handler to another service was         *)
(* performed, for every operation but the silent ones: no error is lost on *)
(* the way, in particular none of the several of SnapshotRemove,           *)
(* InstanceList and ReplicaRebuildingStatus, nor those that the answers of *)
(* BackupRestore and SnapshotBackupStatus carry to the client.             *)
SuccessMeansDone ==
  \A c \in Calls :
    Told(c) = "ok" /\ ~ Silent(request[c])
      => performed[c] = DOMAIN Plan(request[c]) /\ request[c].engine # "other"

(* SnapshotRemove tries every name, whatever becomes of the others.        *)
EveryNameTried ==
  \A c \in Calls :
    pc[c] = "returned" /\ request[c].op = "SnapshotRemove" /\ next[c] > 1
      => next[c] = Items + 1

(* V1 SnapshotBackupStatus, asked without an address, answers for "a       *)
(* replica which has the corresponding backup" if one in mode RW has it.   *)
BackupReplicaFound ==
  \A c \in Calls :
    (/\ source[c] \in Replicas
     /\ request[c].address = None
     /\ \E r \in BackupAt : list[c][r] = "RW")
      => source[c] \in BackupAt

(* An InstanceList that succeeds has every instance that existed all the   *)
(* time, of V1 and, if enabled, of V2, although its three lists are taken  *)
(* at three moments and instances come and go between them.                *)
ListComplete ==
  \A c \in Calls :
    answer[c] = "ok" /\ request[c].op = "InstanceList"
      => (IF request[c].flag THEN stayed[c] ELSE stayed[c] \cap {"process"}) \subseteq found[c]

(* A backup or restore uses the values its own request gave, whatever      *)
(* earlier requests left in the environment, unless another one sets or    *)
(* reads the environment meanwhile.                                        *)
OwnCredential ==
  \A c \in Calls \ overlapped :
    pc[c] = "call" /\ request[c].op \in Credentialed
      => \A k \in request[c].keys \cap DOMAIN credential[c] : credential[c][k] = c

(* The disk service touches a disk only for a caller that called it a      *)
(* block device: what the methods of the client make of other types, some  *)
(* of which refuse them and some send 0 for them, and what the server      *)
(* makes of that, never amounts to a block device.                         *)
OnlyBlockDisks ==
  \A c \in Calls :
    performed[c] # {} /\ request[c].op \in DiskOperations => asked[c] = "block"
=============================================================================
