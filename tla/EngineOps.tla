----------------------------- MODULE EngineOps ------------------------------
(***************************************************************************)
(* What the operations of the proxy (pkg/proxy), of the instance service   *)
(* (pkg/instance) and of the disk service (pkg/disk) do.  A handler looks  *)
(* up the ops of the request's data engine or type of disk                 *)
(* (V1DataEngineProxyOps and so on), makes a client of another service and *)
(* calls it one or more times.  Its plan is the sequence of these calls,   *)
(* each written as what the handler does when the call fails:              *)
(*   "return"   it returns the error;                                      *)
(*   "last"     it keeps the error, goes on, and returns the last one;     *)
(*   "report"   it goes on, and the answer, a success, carries the error;  *)
(*   "drop"     it goes on as if the call had succeeded;                   *)
(*   "search"   (the steps of V1 SnapshotBackupStatus after ReplicaList;   *)
(*              the answer carries the error of the status it fetches).    *)
(***************************************************************************)
EXTENDS Naturals, Sequences

CONSTANT Items  \* bound: the names of a request, the replicas of a volume, the lines of a log

ASSUME ItemsAssumption == Items \in Nat \ {0}

(* The operations of several groups, no two of which have one in common.   *)
Together(groups) ==
  [op \in UNION {DOMAIN g : g \in groups} |-> (CHOOSE g \in groups : op \in DOMAIN g)[op]]

Forward       == <<"return">>
Unimplemented == <<"refuse">>  \* an error without a call
Stub          == <<"stub">>    \* a success without client or call

Each(policy) == [i \in 1..Items |-> policy]

ByEngine(e, v1, v2) == IF e = "v1" THEN v1 ELSE v2
-----------------------------------------------------------------------------
VolumeOps(e) ==
  [VolumeGet    |-> Forward,
   VolumeExpand |-> ByEngine(e, Forward, Unimplemented)]

FrontendOps(e) ==
  [VolumeFrontendStart    |-> ByEngine(e, Forward, Stub),
   VolumeFrontendShutdown |-> ByEngine(e, Forward, Stub)]

VolumeSettingOps(e) ==
  [VolumeUnmapMarkSnapChainRemovedSet |-> ByEngine(e, Forward, Stub),
   VolumeSnapshotMaxCountSet          |-> ByEngine(e, Forward, Stub),
   VolumeSnapshotMaxSizeSet           |-> ByEngine(e, Forward, Stub)]

ReplicaOps(e) ==
  [ReplicaAdd  |-> Forward,
   ReplicaList |-> Forward]

(* V2 asks the engine for the replicas being rebuilt and then each of      *)
(* these, through a client of its own, how far it is; a replica that does  *)
(* not answer has the error for its status.                                *)
RebuildingStatusOps(e) ==
  [ReplicaRebuildingStatus |->
     ByEngine(e, Forward,
              Forward \o [i \in 1..2 * Items |-> IF i % 2 = 1 THEN "return" ELSE "report"])]

ReplicaChangeOps(e) ==
  [ReplicaVerifyRebuild |-> ByEngine(e, Forward, Unimplemented),
   ReplicaRemove        |-> Forward,
   ReplicaModeUpdate    |-> ByEngine(e, Forward, Unimplemented)]

(* V1 lists the replicas of the controller and then their snapshots.       *)
SnapshotOps(e) ==
  [VolumeSnapshot |-> Forward,
   SnapshotList   |-> ByEngine(e, <<"return", "return">>, Forward)]

SnapshotCloneOps(e) ==
  [SnapshotClone       |-> ByEngine(e, Forward, Unimplemented),
   SnapshotCloneStatus |-> ByEngine(e, Forward, Stub)]

SnapshotPurgeOps(e) ==
  [SnapshotRevert      |-> Forward,
   SnapshotPurge       |-> ByEngine(e, Forward, <<"drop">>),
   SnapshotPurgeStatus |-> ByEngine(e, Forward, Stub)]

(* Mutant: the first snapshot that cannot be deleted ends the loop.        *)
SnapshotRemoveOpsStops(e) == [SnapshotRemove |-> Each("return")]

(* Both engines delete every name and return the last error.               *)
SnapshotRemoveOps(e) == [SnapshotRemove |-> Each("last")]

SnapshotHashOps(e) ==
  [SnapshotHash       |-> ByEngine(e, Forward, Unimplemented),
   SnapshotHashStatus |-> ByEngine(e, Forward, Unimplemented)]

BackupOps(e) ==
  [SnapshotBackup       |-> Forward,
   SnapshotBackupStatus |-> ByEngine(e, <<"return", "search">>, Forward)]

(* The error of a restore, of making its client too, goes into TaskError.  *)
(* It is marshalled for that, which cannot fail: it is made of strings.    *)
RestoreOps(e) ==
  [BackupRestore       |-> <<"report">>,
   BackupRestoreStatus |-> Forward]

(***************************************************************************)
(* The operations of the proxy that do not look at the data engine.        *)
(***************************************************************************)
ServerOps ==
  [ServerVersionGet         |-> Forward,
   MetricsGet               |-> Forward,
   CleanupBackupMountPoints |-> Forward]

(* Mount points, executor, and the remount of a volume that is mounted.    *)
RemountOps(mounted) ==
  [RemountReadOnlyVolume |->
     IF mounted THEN <<"return", "return", "return">> ELSE <<"return", "return">>]

BackingImageOps ==
  [SPDKBackingImageCreate |-> Forward,
   SPDKBackingImageDelete |-> Forward,
   SPDKBackingImageGet    |-> Forward,
   SPDKBackingImageList   |-> Forward]
-----------------------------------------------------------------------------
(***************************************************************************)
(* The instance service.  A request names the type of the instance; flag   *)
(* is whether it has a ProcessInstanceSpec (create, replace), CleanupRe-   *)
(* quired (delete), or the server's v2DataEngineEnabled (list).            *)
(***************************************************************************)
IfKnown(type, plan) == IF type = "unknown" THEN Unimplemented ELSE plan

IfEngine(type, plan) == IF type = "engine" THEN plan ELSE Unimplemented

InstanceCreateOps(e, type, flag) ==
  [InstanceCreate |-> ByEngine(e, IF flag THEN Forward ELSE Unimplemented, IfKnown(type, Forward))]

(* An SPDK engine that needs no cleanup is left alone.                     *)
InstanceDeleteOps(e, type, flag) ==
  [InstanceDelete |->
     ByEngine(e, Forward, IfKnown(type, IF type = "engine" /\ ~ flag THEN <<>> ELSE Forward))]

InstanceGetOps(e, type) ==
  [InstanceGet |-> ByEngine(e, Forward, IfKnown(type, Forward))]

(* Mutant: without the V2 engines.                                         *)
InstanceListOpsReplicasOnly(flag) ==
  [InstanceList |-> IF flag THEN <<"return", "return">> ELSE Forward]

(* ProcessList, and if V2 is enabled ReplicaList and EngineList.           *)
InstanceListOps(flag) ==
  [InstanceList |-> IF flag THEN <<"return", "return", "return">> ELSE Forward]

(* ProcessLog, and for each line Recv and Send.                            *)
InstanceReplaceOps(e, flag) ==
  [InstanceReplace |-> ByEngine(e, IF flag THEN Forward ELSE Unimplemented, Unimplemented),
   InstanceLog     |-> ByEngine(e, Forward \o Each("return"), Unimplemented)]

SuspendOps(e, type) ==
  [InstanceSuspend |-> ByEngine(e, Unimplemented, IfEngine(type, Forward)),
   InstanceResume  |-> ByEngine(e, Unimplemented, IfEngine(type, Forward))]

TargetOps(e, type) ==
  [InstanceSwitchOverTarget |-> ByEngine(e, Unimplemented, IfEngine(type, Forward)),
   InstanceDeleteTarget     |-> ByEngine(e, Unimplemented, IfEngine(type, Forward))]

(* V1 has no flags; the level, of either engine, is that of the daemon.    *)
LogOps(e) ==
  [LogSetLevel |-> Forward,
   LogSetFlags |-> ByEngine(e, Stub, Forward),
   LogGetLevel |-> Stub,
   LogGetFlags |-> ByEngine(e, Stub, Forward)]
-----------------------------------------------------------------------------
(***************************************************************************)
(* The disk service: a disk is a block device or it is refused.            *)
(***************************************************************************)
IfBlock(disk) == IF disk = "block" THEN Forward ELSE Unimplemented

DiskCreateOps(disk) == [DiskCreate |-> IfBlock(disk)]

DiskDeleteOps(disk) ==
  [DiskDelete |-> IfBlock(disk),
   DiskGet    |-> IfBlock(disk)]

DiskReplicaOps(disk) ==
  [DiskReplicaInstanceList   |-> IfBlock(disk),
   DiskReplicaInstanceDelete |-> IfBlock(disk)]
-----------------------------------------------------------------------------
ProxyOps(e) ==
  Together({VolumeOps(e), FrontendOps(e), VolumeSettingOps(e), ReplicaOps(e),
            RebuildingStatusOps(e), ReplicaChangeOps(e), SnapshotOps(e),
            SnapshotCloneOps(e), SnapshotPurgeOps(e), SnapshotRemoveOps(e),
            SnapshotHashOps(e), BackupOps(e), RestoreOps(e)})

InstanceOps(e, type, flag) ==
  Together({InstanceCreateOps(e, type, flag), InstanceDeleteOps(e, type, flag),
            InstanceGetOps(e, type), InstanceListOps(flag), InstanceReplaceOps(e, flag),
            SuspendOps(e, type), TargetOps(e, type), LogOps(e)})

LocalOps(mounted) == Together({ServerOps, RemountOps(mounted), BackingImageOps})

DiskOps(disk) == Together({DiskCreateOps(disk), DiskDeleteOps(disk), DiskReplicaOps(disk)})
=============================================================================
