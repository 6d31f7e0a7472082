-------------------------- MODULE Services_proofs ---------------------------
(***************************************************************************)
(* Proofs about the handlers and the clients, for any number of calls,     *)
(* operations that they ask for, replicas, variables and items.            *)
(***************************************************************************)
EXTENDS Services, TLAPS

(***************************************************************************)
(* The operations and their plans.                                         *)
(***************************************************************************)

(* Under each name, what is put together has what one of the parts has.     *)
LEMMA TogetherAt ==
  ASSUME NEW groups, NEW op \in DOMAIN Together(groups)
  PROVE  \E g \in groups : op \in DOMAIN g /\ Together(groups)[op] = g[op]
BY DEF Together

(* The operations of the proxy.                                            *)
LEMMA ProxyNames ==
  ASSUME NEW e
  PROVE  DOMAIN ProxyOps(e) =
           {"VolumeGet", "VolumeExpand", "VolumeFrontendStart", "VolumeFrontendShutdown",
            "VolumeUnmapMarkSnapChainRemovedSet", "VolumeSnapshotMaxCountSet",
            "VolumeSnapshotMaxSizeSet", "ReplicaAdd", "ReplicaList", "ReplicaRebuildingStatus",
            "ReplicaVerifyRebuild", "ReplicaRemove", "ReplicaModeUpdate", "VolumeSnapshot",
            "SnapshotList", "SnapshotClone", "SnapshotCloneStatus", "SnapshotRevert",
            "SnapshotPurge", "SnapshotPurgeStatus", "SnapshotRemove", "SnapshotHash",
            "SnapshotHashStatus", "SnapshotBackup", "SnapshotBackupStatus", "BackupRestore",
            "BackupRestoreStatus"}
<1>1. /\ DOMAIN VolumeOps(e) = {"VolumeGet", "VolumeExpand"}
      /\ DOMAIN FrontendOps(e) = {"VolumeFrontendStart", "VolumeFrontendShutdown"}
      /\ DOMAIN VolumeSettingOps(e) =
           {"VolumeUnmapMarkSnapChainRemovedSet", "VolumeSnapshotMaxCountSet",
            "VolumeSnapshotMaxSizeSet"}
      /\ DOMAIN ReplicaOps(e) = {"ReplicaAdd", "ReplicaList"}
      /\ DOMAIN RebuildingStatusOps(e) = {"ReplicaRebuildingStatus"}
      /\ DOMAIN ReplicaChangeOps(e) = {"ReplicaVerifyRebuild", "ReplicaRemove", "ReplicaModeUpdate"}
      /\ DOMAIN SnapshotOps(e) = {"VolumeSnapshot", "SnapshotList"}
      /\ DOMAIN SnapshotCloneOps(e) = {"SnapshotClone", "SnapshotCloneStatus"}
      /\ DOMAIN SnapshotPurgeOps(e) = {"SnapshotRevert", "SnapshotPurge", "SnapshotPurgeStatus"}
      /\ DOMAIN SnapshotRemoveOps(e) = {"SnapshotRemove"}
      /\ DOMAIN SnapshotHashOps(e) = {"SnapshotHash", "SnapshotHashStatus"}
      /\ DOMAIN BackupOps(e) = {"SnapshotBackup", "SnapshotBackupStatus"}
      /\ DOMAIN RestoreOps(e) = {"BackupRestore", "BackupRestoreStatus"}
  BY DEF VolumeOps, FrontendOps, VolumeSettingOps, ReplicaOps, RebuildingStatusOps,
         ReplicaChangeOps, SnapshotOps, SnapshotCloneOps, SnapshotPurgeOps, SnapshotRemoveOps,
         SnapshotHashOps, BackupOps, RestoreOps
<1>2. DOMAIN ProxyOps(e) = DOMAIN VolumeOps(e)
        \cup DOMAIN FrontendOps(e)
        \cup DOMAIN VolumeSettingOps(e)
        \cup DOMAIN ReplicaOps(e)
        \cup DOMAIN RebuildingStatusOps(e)
        \cup DOMAIN ReplicaChangeOps(e)
        \cup DOMAIN SnapshotOps(e)
        \cup DOMAIN SnapshotCloneOps(e)
        \cup DOMAIN SnapshotPurgeOps(e)
        \cup DOMAIN SnapshotRemoveOps(e)
        \cup DOMAIN SnapshotHashOps(e)
        \cup DOMAIN BackupOps(e)
        \cup DOMAIN RestoreOps(e)
  BY DEF ProxyOps, Together
<1> QED
  BY <1>1, <1>2

(* The operations of the instance service.                                 *)
LEMMA InstanceNames ==
  ASSUME NEW e, NEW type, NEW flag
  PROVE  DOMAIN InstanceOps(e, type, flag) =
           {"InstanceCreate", "InstanceDelete", "InstanceGet", "InstanceList",
            "InstanceReplace", "InstanceLog", "InstanceSuspend", "InstanceResume",
            "InstanceSwitchOverTarget", "InstanceDeleteTarget", "LogSetLevel", "LogSetFlags",
            "LogGetLevel", "LogGetFlags"}
<1>1. /\ DOMAIN InstanceCreateOps(e, type, flag) = {"InstanceCreate"}
      /\ DOMAIN InstanceDeleteOps(e, type, flag) = {"InstanceDelete"}
      /\ DOMAIN InstanceGetOps(e, type) = {"InstanceGet"}
      /\ DOMAIN InstanceListOps(flag) = {"InstanceList"}
      /\ DOMAIN InstanceReplaceOps(e, flag) = {"InstanceReplace", "InstanceLog"}
      /\ DOMAIN SuspendOps(e, type) = {"InstanceSuspend", "InstanceResume"}
      /\ DOMAIN TargetOps(e, type) = {"InstanceSwitchOverTarget", "InstanceDeleteTarget"}
      /\ DOMAIN LogOps(e) = {"LogSetLevel", "LogSetFlags", "LogGetLevel", "LogGetFlags"}
  BY DEF InstanceCreateOps, InstanceDeleteOps, InstanceGetOps, InstanceListOps,
         InstanceReplaceOps, SuspendOps, TargetOps, LogOps
<1>2. DOMAIN InstanceOps(e, type, flag) = DOMAIN InstanceCreateOps(e, type, flag)
        \cup DOMAIN InstanceDeleteOps(e, type, flag)
        \cup DOMAIN InstanceGetOps(e, type)
        \cup DOMAIN InstanceListOps(flag)
        \cup DOMAIN InstanceReplaceOps(e, flag)
        \cup DOMAIN SuspendOps(e, type)
        \cup DOMAIN TargetOps(e, type)
        \cup DOMAIN LogOps(e)
  BY DEF InstanceOps, Together
<1> QED
  BY <1>1, <1>2

(* The operations that do not look at the data engine.                     *)
LEMMA LocalNames ==
  ASSUME NEW mounted
  PROVE  DOMAIN LocalOps(mounted) =
           {"ServerVersionGet", "MetricsGet", "CleanupBackupMountPoints",
            "RemountReadOnlyVolume", "SPDKBackingImageCreate", "SPDKBackingImageDelete",
            "SPDKBackingImageGet", "SPDKBackingImageList"}
<1>1. /\ DOMAIN ServerOps = {"ServerVersionGet", "MetricsGet", "CleanupBackupMountPoints"}
      /\ DOMAIN RemountOps(mounted) = {"RemountReadOnlyVolume"}
      /\ DOMAIN BackingImageOps =
           {"SPDKBackingImageCreate", "SPDKBackingImageDelete", "SPDKBackingImageGet",
            "SPDKBackingImageList"}
  BY DEF ServerOps, RemountOps, BackingImageOps
<1>2. DOMAIN LocalOps(mounted) = DOMAIN ServerOps
        \cup DOMAIN RemountOps(mounted)
        \cup DOMAIN BackingImageOps
  BY DEF LocalOps, Together
<1> QED
  BY <1>1, <1>2

(* The operations of the disk service.                                     *)
LEMMA DiskNames ==
  ASSUME NEW disk
  PROVE  DOMAIN DiskOps(disk) =
           {"DiskCreate", "DiskDelete", "DiskGet", "DiskReplicaInstanceList",
            "DiskReplicaInstanceDelete"}
<1>1. /\ DOMAIN DiskCreateOps(disk) = {"DiskCreate"}
      /\ DOMAIN DiskDeleteOps(disk) = {"DiskDelete", "DiskGet"}
      /\ DOMAIN DiskReplicaOps(disk) = {"DiskReplicaInstanceList", "DiskReplicaInstanceDelete"}
  BY DEF DiskCreateOps, DiskDeleteOps, DiskReplicaOps
<1>2. DOMAIN DiskOps(disk) = DOMAIN DiskCreateOps(disk)
        \cup DOMAIN DiskDeleteOps(disk)
        \cup DOMAIN DiskReplicaOps(disk)
  BY DEF DiskOps, Together
<1> QED
  BY <1>1, <1>2

(* No two of the servers have an operation of the same name.               *)
LEMMA Apart ==
  /\ ProxyOperations \cap InstanceOperations = {}
  /\ ProxyOperations \cap LocalOperations = {}
  /\ ProxyOperations \cap DiskOperations = {}
  /\ InstanceOperations \cap LocalOperations = {}
  /\ InstanceOperations \cap DiskOperations = {}
  /\ LocalOperations \cap DiskOperations = {}
<1>1. ASSUME NEW op \in ProxyOperations PROVE op \notin InstanceOperations
  BY ProxyNames, InstanceNames DEF ProxyOperations, InstanceOperations
<1>2. ASSUME NEW op \in ProxyOperations PROVE op \notin LocalOperations
  BY ProxyNames, LocalNames DEF ProxyOperations, LocalOperations
<1>3. ASSUME NEW op \in ProxyOperations PROVE op \notin DiskOperations
  BY ProxyNames, DiskNames DEF ProxyOperations, DiskOperations
<1>4. ASSUME NEW op \in InstanceOperations
      PROVE  op \notin LocalOperations \cup DiskOperations
  BY InstanceNames, LocalNames, DiskNames
     DEF InstanceOperations, LocalOperations, DiskOperations
<1>5. ASSUME NEW op \in LocalOperations PROVE op \notin DiskOperations
  BY LocalNames, DiskNames DEF LocalOperations, DiskOperations
<1> QED
  BY <1>1, <1>2, <1>3, <1>4, <1>5

(* A request as a server may get it.                                       *)
IsRequest(r) ==
  /\ r.engine \in Engines
  /\ r.flag \in BOOLEAN
  /\ r.keys \subseteq Keys
  /\ r.address \in Replicas \cup {None, "stranger"}
  /\ \/ r.op \in ProxyOperations
     \/ r.op \in InstanceOperations /\ r.type \in Types
     \/ r.op \in LocalOperations /\ r.engine = "v1"
     \/ r.op \in DiskOperations /\ r.type \in Disks /\ r.engine = "v1"
  /\ r.op = "InstanceList" => r.engine = "v1"

(* The plan of a request is the one its server has for it.                 *)
LEMMA PlanOf ==
  ASSUME NEW r, IsRequest(r)
  PROVE  /\ r.op \in ProxyOperations => Plan(r) = ProxyOps(r.engine)[r.op]
         /\ r.op \in InstanceOperations => Plan(r) = InstanceOps(r.engine, r.type, r.flag)[r.op]
         /\ r.op \in LocalOperations => Plan(r) = LocalOps(r.flag)[r.op]
         /\ r.op \in DiskOperations => Plan(r) = DiskOps(r.type)[r.op]
<1>1. /\ r.op \in ProxyOperations => Plan(r) = ProxyPlans[r.engine][r.op]
      /\ r.op \in InstanceOperations => Plan(r) = InstancePlans[r.engine][r.type][r.flag][r.op]
      /\ r.op \in LocalOperations => Plan(r) = LocalPlans[r.flag][r.op]
      /\ r.op \in DiskOperations => Plan(r) = DiskPlans[r.type][r.op]
  BY Apart DEF Plan
<1>2. ProxyPlans[r.engine] = ProxyOps(r.engine)
  BY DEF IsRequest, ProxyPlans
<1>3. r.op \in InstanceOperations
        => InstancePlans[r.engine][r.type][r.flag] = InstanceOps(r.engine, r.type, r.flag)
  BY Apart DEF IsRequest, InstancePlans
<1>4. LocalPlans[r.flag] = LocalOps(r.flag)
  BY DEF IsRequest, LocalPlans
<1>5. r.op \in DiskOperations => DiskPlans[r.type] = DiskOps(r.type)
  BY Apart DEF IsRequest, DiskPlans
<1> QED
  BY <1>1, <1>2, <1>3, <1>4, <1>5

Policies == {"return", "last", "report", "drop", "search"}

(* A plan that a request may have: only a silent one is answered without a *)
(* call, or loses an error.                                                *)
Fit(r, plan) ==
  \/ plan = Unimplemented
  \/ plan = Stub /\ Silent(r)
  \/ /\ plan \in Seq(Policies)
     /\ Len(plan) <= 2 * Items + 1
     /\ \A i \in 1 .. Len(plan) : plan[i] = "drop" => Silent(r)

(* The plans that occur most.                                              *)
LEMMA FitPlans ==
  ASSUME NEW r
  PROVE  /\ Fit(r, Forward)
         /\ Fit(r, <<"return", "return">>)
         /\ Fit(r, <<"return", "return", "return">>)
         /\ Fit(r, <<"return", "search">>)
         /\ Fit(r, <<"report">>)
         /\ Fit(r, <<>>)
         /\ Fit(r, Unimplemented)
         /\ Silent(r) => Fit(r, Stub) /\ Fit(r, <<"drop">>)
<1> USE ItemsAssumption DEF Fit, Policies
<1>1. Fit(r, Forward)
  BY DEF Forward
<1>2. Fit(r, <<"return", "return">>) /\ Fit(r, <<"return", "search">>) /\ Fit(r, <<"report">>)
  OBVIOUS
<1>3. Fit(r, <<"return", "return", "return">>)
  OBVIOUS
<1>4. Fit(r, <<>>) /\ Fit(r, Unimplemented)
  OBVIOUS
<1>5. Silent(r) => Fit(r, Stub) /\ Fit(r, <<"drop">>)
  OBVIOUS
<1> QED
  BY <1>1, <1>2, <1>3, <1>4, <1>5

(* The plans that have a call for each item.                               *)
LEMMA FitEach ==
  ASSUME NEW r
  PROVE  /\ Fit(r, Each("last"))
         /\ Fit(r, Forward \o Each("return"))
         /\ Fit(r, Forward \o [i \in 1 .. 2 * Items |-> IF i % 2 = 1 THEN "return" ELSE "report"])
<1>1. ASSUME NEW p \in Seq(Policies), Len(p) <= 2 * Items,
             \A i \in 1 .. Len(p) : p[i] # "drop"
      PROVE  Fit(r, p) /\ Fit(r, Forward \o p)
  <2>1. Fit(r, p)
    BY <1>1, ItemsAssumption DEF Fit
  <2>2. Forward \o p \in Seq(Policies) /\ Len(Forward \o p) = Len(p) + 1
    BY DEF Forward, Policies
  <2>3. \A i \in 1 .. Len(p) + 1 : (Forward \o p)[i] # "drop"
    BY <1>1 DEF Forward
  <2> QED
    BY <1>1, <2>1, <2>2, <2>3, ItemsAssumption DEF Fit
<1>2. ASSUME NEW policy \in {"last", "return"}
      PROVE  /\ Each(policy) \in Seq(Policies)
             /\ Len(Each(policy)) = Items
             /\ \A i \in 1 .. Items : Each(policy)[i] # "drop"
  BY ItemsAssumption DEF Each, Policies
<1> DEFINE p == [i \in 1 .. 2 * Items |-> IF i % 2 = 1 THEN "return" ELSE "report"]
<1>3. p \in Seq(Policies) /\ Len(p) = 2 * Items /\ \A i \in 1 .. 2 * Items : p[i] # "drop"
  BY ItemsAssumption DEF Policies
<1> HIDE DEF p
<1>4. Items <= 2 * Items /\ 2 * Items <= 2 * Items
  BY ItemsAssumption
<1>5. Fit(r, Forward \o p)
  BY <1>1, <1>3, <1>4
<1> QED
  BY <1>1, <1>2, <1>4, <1>5 DEF p

(* The plans of the proxy are fit for their requests.                      *)
LEMMA ProxyFit ==
  ASSUME NEW r, r.engine \in {"v1", "v2"}, r.op \in ProxyOperations
  PROVE  Fit(r, ProxyOps(r.engine)[r.op])
<1> DEFINE e == r.engine
           groups == {VolumeOps(e), FrontendOps(e), VolumeSettingOps(e), ReplicaOps(e),
                      RebuildingStatusOps(e), ReplicaChangeOps(e), SnapshotOps(e),
                      SnapshotCloneOps(e), SnapshotPurgeOps(e), SnapshotRemoveOps(e),
                      SnapshotHashOps(e), BackupOps(e), RestoreOps(e)}
<1>1. ProxyOps(e) = Together(groups) /\ r.op \in DOMAIN ProxyOps(e)
  BY ProxyNames DEF ProxyOps, ProxyOperations
<1> HIDE DEF groups
<1>2. PICK g \in groups : r.op \in DOMAIN g /\ ProxyOps(e)[r.op] = g[r.op]
  BY <1>1, TogetherAt
<1> USE <1>2, FitPlans DEF ByEngine
<1>3. CASE g = VolumeOps(e)
  BY <1>3 DEF VolumeOps
<1>4. CASE g = FrontendOps(e)
  BY <1>4 DEF FrontendOps, Silent
<1>5. CASE g = VolumeSettingOps(e)
  BY <1>5 DEF VolumeSettingOps, Silent
<1>6. CASE g = ReplicaOps(e)
  BY <1>6 DEF ReplicaOps
<1>7. CASE g = RebuildingStatusOps(e)
  <2> DEFINE p == Forward \o [i \in 1 .. 2 * Items |-> IF i % 2 = 1 THEN "return" ELSE "report"]
  <2>1. Fit(r, p)
    BY FitEach
  <2>2. g = [ReplicaRebuildingStatus |-> ByEngine(e, Forward, p)]
    BY <1>7 DEF RebuildingStatusOps
  <2> HIDE DEF p
  <2> QED
    BY <2>1, <2>2
<1>8. CASE g = ReplicaChangeOps(e)
  BY <1>8 DEF ReplicaChangeOps
<1>9. CASE g = SnapshotOps(e)
  BY <1>9 DEF SnapshotOps
<1>10. CASE g = SnapshotCloneOps(e)
  BY <1>10 DEF SnapshotCloneOps, Silent
<1>11. CASE g = SnapshotPurgeOps(e)
  BY <1>11 DEF SnapshotPurgeOps, Silent
<1>12. CASE g = SnapshotRemoveOps(e)
  <2>1. Fit(r, Each("last"))
    BY FitEach
  <2>2. g[r.op] = Each("last")
    BY <1>12 DEF SnapshotRemoveOps
  <2> QED
    BY <2>1, <2>2
<1>13. CASE g = SnapshotHashOps(e)
  BY <1>13 DEF SnapshotHashOps
<1>14. CASE g = BackupOps(e)
  BY <1>14 DEF BackupOps
<1>15. CASE g = RestoreOps(e)
  BY <1>15 DEF RestoreOps
<1> QED
  BY <1>3, <1>4, <1>5, <1>6, <1>7, <1>8, <1>9, <1>10, <1>11, <1>12, <1>13, <1>14, <1>15 DEF groups

(* So are those of the instance service.                                   *)
LEMMA InstanceFit ==
  ASSUME NEW r, r.engine \in {"v1", "v2"}, r.flag \in BOOLEAN, r.op \in InstanceOperations
  PROVE  Fit(r, InstanceOps(r.engine, r.type, r.flag)[r.op])
<1> DEFINE e == r.engine
           type == r.type
           flag == r.flag
           groups == {InstanceCreateOps(e, type, flag), InstanceDeleteOps(e, type, flag),
                      InstanceGetOps(e, type), InstanceListOps(flag),
                      InstanceReplaceOps(e, flag), SuspendOps(e, type), TargetOps(e, type),
                      LogOps(e)}
<1>1. /\ InstanceOps(e, type, flag) = Together(groups)
      /\ r.op \in DOMAIN InstanceOps(e, type, flag)
  BY InstanceNames DEF InstanceOps, InstanceOperations
<1> HIDE DEF groups
<1>2. PICK g \in groups : r.op \in DOMAIN g /\ InstanceOps(e, type, flag)[r.op] = g[r.op]
  BY <1>1, TogetherAt
<1> USE <1>2, FitPlans DEF ByEngine, IfKnown, IfEngine
<1>3. CASE g = InstanceCreateOps(e, type, flag)
  BY <1>3 DEF InstanceCreateOps
<1>4. CASE g = InstanceDeleteOps(e, type, flag)
  BY <1>4 DEF InstanceDeleteOps, Silent
<1>5. CASE g = InstanceGetOps(e, type)
  BY <1>5 DEF InstanceGetOps
<1>6. CASE g = InstanceListOps(flag)
  BY <1>6 DEF InstanceListOps
<1>7. CASE g = InstanceReplaceOps(e, flag)
  <2> DEFINE p == Forward \o Each("return")
  <2>1. Fit(r, p)
    BY FitEach
  <2>2. g = [InstanceReplace |->
               ByEngine(e, IF flag THEN Forward ELSE Unimplemented, Unimplemented),
             InstanceLog     |-> ByEngine(e, p, Unimplemented)]
    BY <1>7 DEF InstanceReplaceOps
  <2> HIDE DEF p
  <2> QED
    BY <2>1, <2>2
<1>8. CASE g = SuspendOps(e, type)
  BY <1>8 DEF SuspendOps
<1>9. CASE g = TargetOps(e, type)
  BY <1>9 DEF TargetOps
<1>10. CASE g = LogOps(e)
  BY <1>10 DEF LogOps, Silent
<1> QED
  BY <1>3, <1>4, <1>5, <1>6, <1>7, <1>8, <1>9, <1>10 DEF groups

(* And so are all others.                                                  *)
LEMMA PlanFit ==
  ASSUME NEW r, IsRequest(r), r.engine # "other"
  PROVE  Fit(r, Plan(r))
<1>1. ASSUME r.op \in LocalOperations PROVE Fit(r, LocalOps(r.flag)[r.op])
  <2> DEFINE groups == {ServerOps, RemountOps(r.flag), BackingImageOps}
  <2>1. LocalOps(r.flag) = Together(groups) /\ r.op \in DOMAIN LocalOps(r.flag)
    BY <1>1, LocalNames DEF LocalOps, LocalOperations
  <2> HIDE DEF groups
  <2>2. PICK g \in groups : r.op \in DOMAIN g /\ LocalOps(r.flag)[r.op] = g[r.op]
    BY <2>1, TogetherAt
  <2>3. CASE g \in {ServerOps, BackingImageOps}
    BY <2>2, <2>3, FitPlans DEF ServerOps, BackingImageOps
  <2>4. CASE g = RemountOps(r.flag)
    BY <2>2, <2>4, FitPlans DEF RemountOps
  <2> QED
    BY <2>3, <2>4 DEF groups
<1>2. ASSUME r.op \in DiskOperations PROVE Fit(r, DiskOps(r.type)[r.op])
  <2> DEFINE groups == {DiskCreateOps(r.type), DiskDeleteOps(r.type), DiskReplicaOps(r.type)}
  <2>1. DiskOps(r.type) = Together(groups) /\ r.op \in DOMAIN DiskOps(r.type)
    BY <1>2, DiskNames DEF DiskOps, DiskOperations
  <2> HIDE DEF groups
  <2>2. PICK g \in groups : r.op \in DOMAIN g /\ DiskOps(r.type)[r.op] = g[r.op]
    BY <2>1, TogetherAt
  <2> QED
    BY <2>2, FitPlans DEF groups, DiskCreateOps, DiskDeleteOps, DiskReplicaOps, IfBlock
<1> QED
  BY <1>1, <1>2, PlanOf, ProxyFit, InstanceFit DEF IsRequest, Engines

(* The plans of the operations that the properties are about.              *)
LEMMA ProxyPlan ==
  ASSUME NEW r, IsRequest(r)
  PROVE  /\ r.op = "SnapshotBackupStatus"
              => Plan(r) = ByEngine(r.engine, <<"return", "search">>, Forward)
         /\ r.op = "SnapshotRemove" => Plan(r) = Each("last")
<1> DEFINE e == r.engine
           groups == {VolumeOps(e), FrontendOps(e), VolumeSettingOps(e), ReplicaOps(e),
                      RebuildingStatusOps(e), ReplicaChangeOps(e), SnapshotOps(e),
                      SnapshotCloneOps(e), SnapshotPurgeOps(e), SnapshotRemoveOps(e),
                      SnapshotHashOps(e), BackupOps(e), RestoreOps(e)}
<1> SUFFICES ASSUME r.op \in {"SnapshotBackupStatus", "SnapshotRemove"}
             PROVE  /\ r.op = "SnapshotBackupStatus"
                         => Plan(r) = ByEngine(e, <<"return", "search">>, Forward)
                    /\ r.op = "SnapshotRemove" => Plan(r) = Each("last")
  OBVIOUS
<1>1. ProxyOps(e) = Together(groups) /\ r.op \in DOMAIN ProxyOps(e) /\ r.op \in ProxyOperations
  BY ProxyNames DEF ProxyOps, ProxyOperations
<1>2. \A g \in groups : r.op \in DOMAIN g =>
        \/ r.op = "SnapshotBackupStatus" /\ g = BackupOps(e)
        \/ r.op = "SnapshotRemove" /\ g = SnapshotRemoveOps(e)
  BY DEF VolumeOps, FrontendOps, VolumeSettingOps, ReplicaOps, RebuildingStatusOps,
         ReplicaChangeOps, SnapshotOps, SnapshotCloneOps, SnapshotPurgeOps, SnapshotHashOps,
         RestoreOps, BackupOps, SnapshotRemoveOps
<1>3. Plan(r) = ProxyOps(e)[r.op]
  BY <1>1, PlanOf
<1> HIDE DEF groups
<1>4. PICK g \in groups : r.op \in DOMAIN g /\ ProxyOps(e)[r.op] = g[r.op]
  BY <1>1, TogetherAt
<1>5. CASE r.op = "SnapshotBackupStatus"
  BY <1>2, <1>3, <1>4, <1>5 DEF BackupOps
<1>6. CASE r.op = "SnapshotRemove"
  BY <1>2, <1>3, <1>4, <1>6 DEF SnapshotRemoveOps
<1> QED
  BY <1>5, <1>6

(* The same for the instance service: the lists that InstanceList takes,   *)
(* and the instances that are never created.                               *)
LEMMA InstancePlan ==
  ASSUME NEW r, IsRequest(r)
  PROVE  /\ r.op = "InstanceList"
              => Plan(r) = IF r.flag THEN <<"return", "return", "return">> ELSE Forward
         /\ r.op = "InstanceCreate" /\ r.engine = "v2" /\ r.type = "unknown"
              => Plan(r) = Unimplemented
<1> DEFINE e == r.engine
           type == r.type
           flag == r.flag
           groups == {InstanceCreateOps(e, type, flag), InstanceDeleteOps(e, type, flag),
                      InstanceGetOps(e, type), InstanceListOps(flag),
                      InstanceReplaceOps(e, flag), SuspendOps(e, type), TargetOps(e, type),
                      LogOps(e)}
<1> SUFFICES ASSUME r.op \in {"InstanceList", "InstanceCreate"}
             PROVE  /\ r.op = "InstanceList"
                         => Plan(r) = IF flag THEN <<"return", "return", "return">> ELSE Forward
                    /\ r.op = "InstanceCreate" /\ e = "v2" /\ type = "unknown"
                         => Plan(r) = Unimplemented
  OBVIOUS
<1>1. /\ InstanceOps(e, type, flag) = Together(groups)
      /\ r.op \in DOMAIN InstanceOps(e, type, flag)
      /\ r.op \in InstanceOperations
  BY InstanceNames DEF InstanceOps, InstanceOperations
<1>2. \A g \in groups : r.op \in DOMAIN g =>
        \/ r.op = "InstanceList" /\ g = InstanceListOps(flag)
        \/ r.op = "InstanceCreate" /\ g = InstanceCreateOps(e, type, flag)
  BY DEF InstanceCreateOps, InstanceDeleteOps, InstanceGetOps, InstanceListOps,
         InstanceReplaceOps, SuspendOps, TargetOps, LogOps
<1>3. Plan(r) = InstanceOps(e, type, flag)[r.op]
  BY <1>1, PlanOf
<1> HIDE DEF groups
<1>4. PICK g \in groups : r.op \in DOMAIN g /\ InstanceOps(e, type, flag)[r.op] = g[r.op]
  BY <1>1, TogetherAt
<1>5. CASE r.op = "InstanceList"
  BY <1>2, <1>3, <1>4, <1>5 DEF InstanceListOps
<1>6. CASE r.op = "InstanceCreate"
  BY <1>2, <1>3, <1>4, <1>6 DEF InstanceCreateOps, ByEngine, IfKnown
<1> QED
  BY <1>5, <1>6

(* The disk service calls SPDK for a block device and for nothing else.    *)
LEMMA DiskPlan ==
  ASSUME NEW r, IsRequest(r), r.op \in DiskOperations
  PROVE  Plan(r) = IfBlock(r.type)
<1> DEFINE groups == {DiskCreateOps(r.type), DiskDeleteOps(r.type), DiskReplicaOps(r.type)}
<1>1. DiskOps(r.type) = Together(groups) /\ r.op \in DOMAIN DiskOps(r.type)
  BY DiskNames DEF DiskOps, DiskOperations
<1> HIDE DEF groups
<1>2. PICK g \in groups : r.op \in DOMAIN g /\ DiskOps(r.type)[r.op] = g[r.op]
  BY <1>1, TogetherAt
<1>3. g[r.op] = IfBlock(r.type)
  BY <1>2 DEF groups, DiskCreateOps, DiskDeleteOps, DiskReplicaOps
<1> QED
  BY <1>2, <1>3, PlanOf

(* What a client asks, and what its methods send, are requests; a method   *)
(* sends a block device only if it was asked for one.                      *)
LEMMA Requests ==
  ASSUME NEW ops, NEW a \in Asks(ops)
  PROVE  /\ a.op \in ops
         /\ a.type \in Types \cup Disks
         /\ IsRequest(a)
         /\ IsRequest(Sent(a))
         /\ Sent(a).op = a.op
         /\ a.op \in DiskOperations /\ Sent(a).type = "block" => a.type = "block"
<1>0. /\ Credentialed \subseteq ProxyOperations
      /\ "SnapshotBackupStatus" \in ProxyOperations
      /\ "InstanceList" \in InstanceOperations
  BY ProxyNames, InstanceNames DEF ProxyOperations, InstanceOperations, Credentialed
<1>1. /\ a.op \in ops /\ a.engine \in Engines /\ a.type \in Types \cup Disks
      /\ a.flag \in BOOLEAN /\ a.address \in Replicas \cup {None, "stranger"}
      /\ a.keys \subseteq Keys
      /\ \/ a.op \in ProxyOperations
         \/ a.op \in InstanceOperations \ {"InstanceList"} /\ a.type \in Types
         \/ a.op = "InstanceList" /\ a.type \in Types /\ a.engine = "v1"
         \/ a.op \in LocalOperations /\ a.engine = "v1"
         \/ a.op \in DiskOperations /\ a.type \in Disks /\ a.engine = "v1"
  <2> USE <1>0 DEF Ask, Engines, Types
  <2>1. CASE a \in Ask(ops \cap (ProxyOperations \ (Status \cup Credentialed)), Engines,
                       {"engine"}, {TRUE}, {None}, {{}})
    BY <2>1
  <2>2. CASE a \in Ask(ops \cap Status, Engines, {"engine"}, {TRUE},
                       Replicas \cup {None, "stranger"}, {{}})
    BY <2>2 DEF Status
  <2>3. CASE a \in Ask(ops \cap Credentialed, Engines, {"engine"}, {TRUE}, {None}, SUBSET Keys)
    BY <2>3
  <2>4. CASE a \in Ask(ops \cap (InstanceOperations \ List), Engines, Types, BOOLEAN, {None}, {{}})
    BY <2>4 DEF List
  <2>5. CASE a \in Ask(ops \cap List, {"v1"}, {"engine"}, BOOLEAN, {None}, {{}})
    BY <2>5 DEF List
  <2>6. CASE a \in Ask(ops \cap LocalOperations, {"v1"}, {"engine"}, BOOLEAN, {None}, {{}})
    BY <2>6
  <2>7. CASE a \in Ask(ops \cap DiskOperations, {"v1"}, Disks, {TRUE}, {None}, {{}})
    BY <2>7
  <2> HIDE DEF Ask
  <2> QED
    BY <2>1, <2>2, <2>3, <2>4, <2>5, <2>6, <2>7 DEF Asks
<1>2. IsRequest(a)
  BY <1>0, <1>1, Apart DEF IsRequest
<1>3. /\ Sent(a).op = a.op
      /\ Sent(a).engine = DataEngine(a.engine)
      /\ Sent(a).type = IF a.op \in DiskOperations THEN DiskTypeValue(a.type) ELSE a.type
      /\ Sent(a).keys = a.keys
      /\ Sent(a).address = a.address
  BY <1>1 DEF Sent
<1>4. IsRequest(Sent(a))
  <2>1. Sent(a).flag \in BOOLEAN
    <3>1. a.flag \in BOOLEAN
      BY <1>1
    <3> QED
      BY <3>1 DEF Sent
  <2>2. Sent(a).engine \in Engines /\ (a.engine = "v1" => Sent(a).engine = "v1")
    BY <1>3 DEF DataEngine, Engines
  <2>3. a.op \in DiskOperations => Sent(a).type \in Disks
    BY <1>3 DEF DiskTypeValue, Disks
  <2>4. a.op \in InstanceOperations => Sent(a).type = a.type
    BY <1>3, Apart
  <2> QED
    BY <1>2, <1>3, <2>1, <2>2, <2>3, <2>4 DEF IsRequest
<1> QED
  BY <1>1, <1>2, <1>3, <1>4 DEF DiskTypeValue

(***************************************************************************)
(* The inductive invariant.  A call is told apart by where its handler is: *)
(* what has been performed, kept or dropped of its plan so far decides     *)
(* what the answer may be; and calls meet only in the environment, in the  *)
(* instances and in stayed, so that a step of one leaves what is known of  *)
(* the others alone.                                                       *)
(***************************************************************************)
AllKinds == {"process", "replica", "engine"}

Shapes ==
  /\ asked \in [Calls -> Types \cup Disks]
  /\ request = [c \in Calls |-> request[c]]
  /\ pc \in [Calls -> {"idle", "refused", "setenv", "getenv", "dispatch", "connect",
                       "call", "returned"}]
  /\ next \in [Calls -> Nat]
  /\ performed \in [Calls -> SUBSET Nat]
  /\ lastErr \in [Calls -> BOOLEAN]
  /\ taskError \in [Calls -> BOOLEAN]
  /\ answer \in [Calls -> {"none", "ok", "error", "reported"}]
  /\ list \in [Calls -> [Replicas -> Modes]]
  /\ source \in [Calls -> Replicas \cup {None, "stranger"}]
  /\ env \in [Keys -> Calls \cup {None}]
  /\ unset \in [Calls -> SUBSET Keys]
  /\ credential = [c \in Calls |-> credential[c]]
  /\ instances \subseteq AllKinds
  /\ found = [c \in Calls |-> found[c]]
  /\ stayed = [c \in Calls |-> stayed[c]]
  /\ overlapped \subseteq Calls

(* A server got a request, and one for a block device only from a caller   *)
(* that asked for one.                                                     *)
Requested(c) ==
  pc[c] \notin {"idle", "refused"} =>
    /\ IsRequest(request[c])
    /\ request[c].op \in Operations[c]
    /\ request[c].op \in DiskOperations /\ request[c].type = "block" => asked[c] = "block"

(* The handler has a plan and is within it; each call of the plan that it  *)
(* has left behind was performed, or its error is kept, or it is dropped.  *)
Within(c) ==
  LET r == request[c] IN
  /\ r.engine # "other"
  /\ Plan(r) \notin {Unimplemented, Stub}
  /\ r.op \in DiskOperations => r.type = "block"
  /\ next[c] <= Len(Plan(r)) + 1
  /\ \A i \in 1 .. next[c] - 1 : \/ i \in performed[c]
                                 \/ Plan(r)[i] = "last" /\ lastErr[c]
                                 \/ Plan(r)[i] \in {"report", "search"} /\ taskError[c]
                                 \/ Plan(r)[i] = "drop"

Ended(c) ==
  LET r == request[c] IN
  /\ answer[c] = "ok" /\ ~ Silent(r) => performed[c] = DOMAIN Plan(r) /\ r.engine # "other"
  /\ r.op = "SnapshotRemove" => next[c] \in {1, Items + 1}
  /\ r.op \in DiskOperations /\ performed[c] # {} => r.type = "block"

Progress(c) ==
  /\ answer[c] # "none" <=> pc[c] = "returned"
  /\ next[c] \in 1 .. 2 * Items + 2
  /\ performed[c] \subseteq 1 .. next[c] - 1
  /\ pc[c] \notin {"call", "returned"} => next[c] = 1 /\ ~ lastErr[c] /\ ~ taskError[c]
  /\ pc[c] \in {"connect", "call"} => Within(c)
  /\ pc[c] = "returned" => Ended(c)

(* InstanceList has found what stayed of the kinds it has asked for.       *)
ListKnown(c) ==
  /\ stayed[c] \subseteq instances
  /\ pc[c] = "call" /\ request[c].op = "InstanceList"
       => \A i \in 1 .. next[c] - 1 : Kinds[i] \in stayed[c] => Kinds[i] \in found[c]
  /\ answer[c] = "ok" /\ request[c].op = "InstanceList"
       => \A kind \in stayed[c] : request[c].flag \/ kind = "process" => kind \in found[c]

(* Calls that are in the environment at the same time are known to         *)
(* overlap.                                                                *)
Alone ==
  \A c, d \in Calls :
    c # d /\ pc[c] \in {"setenv", "getenv"} /\ pc[d] \in {"setenv", "getenv"}
      => c \in overlapped

(* The variables that a call has set are its own until it has read them,   *)
(* and so is then what it has read.                                        *)
CredentialKnown(c) ==
  LET r == request[c] IN
  /\ DOMAIN credential[c] \subseteq Keys
  /\ pc[c] \in {"idle", "refused", "setenv"} => DOMAIN credential[c] = {}
  /\ pc[c] \in {"setenv", "getenv"} => r.op \in Credentialed
  /\ pc[c] \in {"getenv", "dispatch", "connect", "call"} /\ r.op \in Credentialed
       => unset[c] = {}
  /\ pc[c] \in {"dispatch", "connect", "call"} /\ r.op \in Credentialed
       => DOMAIN credential[c] \in {{}, Keys}
  /\ c \notin overlapped /\ pc[c] \in {"setenv", "getenv"}
       => \A k \in r.keys \ unset[c] : env[k] = c
  /\ c \notin overlapped /\ pc[c] \in {"getenv", "dispatch", "connect", "call"}
       /\ r.op \in Credentialed
       => \A k \in r.keys \cap DOMAIN credential[c] : credential[c][k] = c

(* What is known of one call.                                              *)
Known(c) ==
  /\ Requested(c)
  /\ Progress(c)
  /\ ListKnown(c)
  /\ CredentialKnown(c)

IInv == Shapes /\ Alone /\ \A c \in Calls : Known(c)

(* A call that arrives is refused by the method of the client, or reaches  *)
(* a server as a request.                                                  *)
Refused(c) ==
  /\ Goto(c, "refused")
  /\ UNCHANGED <<request, next, performed, lastErr, taskError, answer, status, backup, listing>>

LEMMA Arrivals ==
  ASSUME Shapes, NEW c \in Calls, ClientCall(c) \/ ForeignRequest(c)
  PROVE  /\ pc[c] = "idle"
         /\ asked'[c] \in Types \cup Disks
         /\ asked' = [asked EXCEPT ![c] = asked'[c]]
         /\ \/ Refused(c)
            \/ /\ IsRequest(request'[c])
               /\ request'[c].op \in Operations[c]
               /\ request'[c].op \in DiskOperations /\ request'[c].type = "block"
                    => asked'[c] = "block"
               /\ Arrive(c, request'[c])
<1>1. CASE ClientCall(c)
  <2>1. PICK a \in Asks(Operations[c]) :
          /\ asked' = [asked EXCEPT ![c] = a.type]
          /\ Arrive(c, Sent(a)) \/ Refused(c)
    BY <1>1 DEF ClientCall, Refused
  <2>2. a.type \in Types \cup Disks /\ IsRequest(Sent(a)) /\ Sent(a).op \in Operations[c]
    BY Requests
  <2>3. Sent(a).op \in DiskOperations /\ Sent(a).type = "block" => a.type = "block"
    BY Requests
  <2>4. pc[c] = "idle"
    BY <1>1 DEF ClientCall
  <2>5. asked'[c] = a.type
    BY <2>1 DEF Shapes
  <2>6. Arrive(c, Sent(a)) => request'[c] = Sent(a)
    <3> DEFINE r == Sent(a)
    <3> HIDE DEF r
    <3>1. Arrive(c, r) => request'[c] = r
      BY DEF Arrive, Shapes
    <3> QED
      BY <3>1 DEF r
  <2> QED
    BY <2>1, <2>2, <2>3, <2>4, <2>5, <2>6
<1>2. CASE ForeignRequest(c)
  <2>1. PICK r \in Asks(Operations[c]) : asked' = [asked EXCEPT ![c] = r.type] /\ Arrive(c, r)
    BY <1>2 DEF ForeignRequest
  <2>2. r.type \in Types \cup Disks /\ IsRequest(r) /\ r.op \in Operations[c]
    BY Requests
  <2>3. pc[c] = "idle"
    BY <1>2 DEF ForeignRequest
  <2>4. asked'[c] = r.type /\ request'[c] = r
    BY <2>1 DEF Arrive, Shapes
  <2> QED
    BY <2>1, <2>2, <2>3, <2>4
<1> QED
  BY <1>1, <1>2

(* What a call that the other service performs does to the instances.      *)
LEMMA EffectOnInstances ==
  ASSUME NEW c \in Calls, Effect(c)
  PROVE  /\ request[c].op = "InstanceCreate" => instances' = instances \cup {Kind(request[c])}
         /\ request[c].op # "InstanceCreate" => instances' \subseteq instances
         /\ request[c].op = "InstanceList" => instances' = instances
BY Zenon DEF Effect

(* The steps by which the handlers, and the calls that reach them, go on.  *)
LEMMA StepCases ==
  [Next]_vars => \/ \E c \in Calls : ClientCall(c) \/ ForeignRequest(c)
                 \/ \E c \in Calls : HandlerStep(c) /\ UNCHANGED asked
                 \/ UNCHANGED vars
BY DEF Next

(* Only an instance of a known kind is ever created.                       *)
LEMMA KindKnown ==
  ASSUME IInv, NEW c \in Calls, pc[c] = "call", request[c].op = "InstanceCreate"
  PROVE  Kind(request[c]) \in AllKinds
<1>1. /\ IsRequest(request[c]) /\ request[c].engine # "other"
      /\ Plan(request[c]) # Unimplemented
  BY DEF IInv, Known, Requested, Progress, Within
<1>2. request[c].op \in InstanceOperations
  BY InstanceNames DEF InstanceOperations
<1>3. request[c].type \in Types /\ request[c].engine \in Engines
  BY <1>1, <1>2, Apart DEF IsRequest
<1>4. request[c].engine = "v2" => request[c].type # "unknown"
  BY <1>1, InstancePlan
<1> QED
  BY <1>1, <1>3, <1>4 DEF Kind, AllKinds, Types, Engines

(* What else it does.                                                      *)
LEMMA EffectOnCalls ==
  ASSUME NEW c \in Calls, Effect(c)
  PROVE  /\ performed' = [performed EXCEPT ![c] = @ \cup {next[c]}]
         /\ \/ UNCHANGED list
            \/ /\ request[c].op = "SnapshotBackupStatus"
               /\ \E m \in [Replicas -> Modes] : list' = [list EXCEPT ![c] = m]
         /\ stayed' = [d \in Calls |-> stayed[d] \cap instances']
         /\ request[c].op = "InstanceList"
              => found' = [found EXCEPT ![c] = @ \cup (instances \cap {Kinds[next[c]]})]
         /\ request[c].op # "InstanceList" => UNCHANGED found
BY Zenon DEF Effect

(* Every step keeps the shapes of the variables.                           *)
LEMMA ShapesStep == IInv /\ [Next]_vars => Shapes'
<1> SUFFICES ASSUME IInv, [Next]_vars PROVE Shapes'
  OBVIOUS
<1>0. Shapes
  BY DEF IInv
<1>1. ASSUME NEW c \in Calls, ClientCall(c) \/ ForeignRequest(c) PROVE Shapes'
  <2>1. /\ asked' \in [Calls -> Types \cup Disks]
        /\ Refused(c) \/ (IsRequest(request'[c]) /\ Arrive(c, request'[c]))
    <3>1. asked'[c] \in Types \cup Disks /\ asked' = [asked EXCEPT ![c] = asked'[c]]
      BY <1>0, <1>1, Arrivals
    <3> QED
      BY <1>0, <1>1, <3>1, Arrivals DEF Shapes
  <2>2. CASE Refused(c)
    BY <1>0, <2>1, <2>2 DEF Refused, Shapes, status, backup, listing, Goto
  <2>3. CASE IsRequest(request'[c]) /\ Arrive(c, request'[c])
    <3> DEFINE r == request'[c]
    <3>1. r.keys \in SUBSET Keys
      BY <2>3 DEF IsRequest
    <3>2. Arrive(c, r)
      BY <2>3
    <3> HIDE DEF r
    <3>3. overlapped' \subseteq Calls
      BY <1>0, <3>2 DEF Arrive, InEnv, Shapes
    <3>4. pc' \in [Calls -> {"idle", "refused", "setenv", "getenv", "dispatch", "connect",
                              "call", "returned"}]
      BY <1>0, <3>2 DEF Arrive, Shapes, Goto
    <3>5. /\ request' = [d \in Calls |-> request'[d]]
          /\ unset' \in [Calls -> SUBSET Keys]
          /\ stayed' = [d \in Calls |-> stayed'[d]]
      BY <1>0, <3>1, <3>2 DEF Arrive, Shapes
    <3>6. UNCHANGED <<next, performed, lastErr, taskError, answer, list, source, env, credential,
                      instances, found>>
      BY <3>2 DEF Arrive, status
    <3> QED
      BY <1>0, <2>1, <3>3, <3>4, <3>5, <3>6 DEF Shapes
  <2> QED
    BY <2>1, <2>2, <2>3
<1>2. ASSUME NEW c \in Calls, UNCHANGED asked, SetEnv(c) PROVE Shapes'
  <2> USE <1>0 DEF Shapes, handler, status, backup, listing, Goto, Return
  <2>1. CASE UNCHANGED <<env, unset>>
    BY <1>2, <2>1 DEF SetEnv
  <2>2. ASSUME NEW k \in unset[c], env' = [env EXCEPT ![k] = c],
               unset' = [unset EXCEPT ![c] = @ \ {k}]
        PROVE  Shapes'
    <3>1. env' \in [Keys -> Calls \cup {None}] /\ unset' \in [Calls -> SUBSET Keys]
      BY <2>2
    <3> QED
      BY <1>2, <2>2, <3>1 DEF SetEnv
  <2> QED
    BY <1>2, <2>1, <2>2 DEF SetEnv
<1>3. ASSUME NEW c \in Calls, UNCHANGED asked, GetBackupCredential(c) PROVE Shapes'
  BY <1>0, <1>3 DEF GetBackupCredential, Shapes, handler, status, backup, listing, Goto, Return
<1>4. ASSUME NEW c \in Calls, UNCHANGED asked, Dispatch(c) PROVE Shapes'
  BY <1>0, <1>4 DEF Dispatch, Shapes, handler, status, backup, listing, Goto, Return
<1>5. ASSUME NEW c \in Calls, UNCHANGED asked, Connect(c) PROVE Shapes'
  BY <1>0, <1>5 DEF Connect, Shapes, handler, status, backup, listing, Goto, Return
<1>6. ASSUME NEW c \in Calls, pc[c] = "call", Effect(c)
      PROVE  /\ performed' \in [Calls -> SUBSET Nat]
             /\ list' \in [Calls -> [Replicas -> Modes]]
             /\ instances' \subseteq AllKinds
             /\ found' = [d \in Calls |-> found'[d]]
             /\ stayed' = [d \in Calls |-> stayed'[d]]
  <2>1. instances' \subseteq AllKinds
    BY <1>0, <1>6, EffectOnInstances, KindKnown DEF Shapes
  <2> QED
    <3>1. /\ performed' = [performed EXCEPT ![c] = @ \cup {next[c]}]
          /\ \/ UNCHANGED list
             \/ \E m \in [Replicas -> Modes] : list' = [list EXCEPT ![c] = m]
          /\ stayed' = [d \in Calls |-> stayed[d] \cap instances']
          /\ \/ UNCHANGED found
             \/ found' = [found EXCEPT ![c] = @ \cup (instances \cap {Kinds[next[c]]})]
      BY <1>6, EffectOnCalls
    <3>2. performed' \in [Calls -> SUBSET Nat]
      BY <1>0, <3>1 DEF Shapes
    <3>3. list' \in [Calls -> [Replicas -> Modes]]
      BY <1>0, <3>1 DEF Shapes
    <3>4. found' = [d \in Calls |-> found'[d]] /\ stayed' = [d \in Calls |-> stayed'[d]]
      BY <1>0, <3>1 DEF Shapes
    <3> QED
      BY <2>1, <3>2, <3>3, <3>4
<1>7. ASSUME NEW c \in Calls, UNCHANGED asked, CallSucceeds(c) PROVE Shapes'
  BY <1>0, <1>6, <1>7 DEF CallSucceeds, Shapes, handler, status, backup, listing, Goto, Return
<1>8. ASSUME NEW c \in Calls, UNCHANGED asked, CallFails(c) PROVE Shapes'
  <2>1. /\ performed' \in [Calls -> SUBSET Nat]
        /\ list' \in [Calls -> [Replicas -> Modes]]
        /\ instances' \subseteq AllKinds
        /\ found' = [d \in Calls |-> found'[d]]
        /\ stayed' = [d \in Calls |-> stayed'[d]]
    <3>1. pc[c] = "call" /\ (Effect(c) \/ UNCHANGED <<performed, list, listing>>)
      BY <1>8 DEF CallFails
    <3>2. CASE UNCHANGED <<performed, list, listing>>
      BY <1>0, <3>2 DEF Shapes, listing
    <3> QED
      BY <1>6, <3>1, <3>2
  <2> DEFINE kept == lastErr[c] \/ Plan(request[c])[next[c]] = "last"
             told == taskError[c] \/ Plan(request[c])[next[c]] = "report"
  <2>2. /\ lastErr' = [lastErr EXCEPT ![c] = kept]
        /\ taskError' = [taskError EXCEPT ![c] = told]
    BY <1>8 DEF CallFails
  <2>3. kept \in BOOLEAN /\ told \in BOOLEAN
    OBVIOUS
  <2> HIDE DEF kept, told
  <2>4. lastErr' \in [Calls -> BOOLEAN] /\ taskError' \in [Calls -> BOOLEAN]
    BY <1>0, <2>2, <2>3 DEF Shapes
  <2>5. /\ UNCHANGED <<request, source, backup>>
        /\ next' = [next EXCEPT ![c] = @ + 1]
        /\ Return(c, "error") \/ UNCHANGED <<pc, answer>>
    BY <1>8 DEF CallFails
  <2>6. /\ next' \in [Calls -> Nat]
        /\ pc' \in [Calls -> {"idle", "refused", "setenv", "getenv", "dispatch", "connect",
                              "call", "returned"}]
        /\ answer' \in [Calls -> {"none", "ok", "error", "reported"}]
    <3>1. CASE Return(c, "error")
      BY <1>0, <2>5, <3>1 DEF Shapes, Goto, Return
    <3>2. CASE UNCHANGED <<pc, answer>>
      BY <1>0, <2>5, <3>2 DEF Shapes
    <3> QED
      BY <2>5, <3>1, <3>2
  <2> QED
    BY <1>0, <1>8, <2>1, <2>4, <2>5, <2>6 DEF Shapes, backup
<1>9. ASSUME NEW c \in Calls, UNCHANGED asked, FetchBackupStatus(c) PROVE Shapes'
  <2>1. request[c].address \in Replicas \cup {None, "stranger"}
    BY <1>9 DEF FetchBackupStatus, IInv, Known, Requested, IsRequest
  <2>2. CASE UNCHANGED <<next, source, performed, taskError>>
    BY <1>0, <1>9, <2>2 DEF FetchBackupStatus, Shapes, backup, listing, Goto, Return
  <2>3. ASSUME NEW a \in Replicas \cup {None, "stranger"}, NEW failed \in BOOLEAN,
               UNCHANGED <<pc, answer>>,
               source' = [source EXCEPT ![c] = a], next' = [next EXCEPT ![c] = @ + 1],
               taskError' = [taskError EXCEPT ![c] = @ \/ failed],
               performed' = IF failed THEN performed
                            ELSE [performed EXCEPT ![c] = @ \cup {next[c]}]
        PROVE  Shapes'
    <3>1. taskError' \in [Calls -> BOOLEAN]
      BY <1>0, <2>3 DEF Shapes
    <3>2. performed' \in [Calls -> SUBSET Nat]
      BY <1>0, <2>3 DEF Shapes
    <3> QED
      BY <1>0, <1>9, <2>3, <3>1, <3>2 DEF FetchBackupStatus, Shapes, backup, listing
  <2> QED
    BY <1>9, <2>1, <2>2, <2>3 DEF FetchBackupStatus, EsyncFetchBackupStatus
<1>10. ASSUME NEW c \in Calls, UNCHANGED asked, Finish(c) PROVE Shapes'
  BY <1>0, <1>10 DEF Finish, Shapes, handler, status, backup, listing, Goto, Return
<1>11. CASE UNCHANGED vars
  BY <1>0, <1>11 DEF Shapes, vars, handler, status, backup, listing
<1> QED
  BY <1>1, <1>2, <1>3, <1>4, <1>5, <1>7, <1>8, <1>9, <1>10, <1>11, StepCases DEF HandlerStep

(* What a step of another call leaves alone.                               *)
Untouched(d) ==
  /\ asked'[d] = asked[d]
  /\ request'[d] = request[d]
  /\ pc'[d] = pc[d]
  /\ next'[d] = next[d]
  /\ performed'[d] = performed[d]
  /\ lastErr'[d] <=> lastErr[d]
  /\ taskError'[d] <=> taskError[d]
  /\ answer'[d] = answer[d]
  /\ list'[d] = list[d]
  /\ source'[d] = source[d]
  /\ unset'[d] = unset[d]
  /\ credential'[d] = credential[d]
  /\ found'[d] = found[d]

(* What it may do to what the calls share.                                 *)
Shared(c, d) ==
  /\ \/ UNCHANGED <<instances, stayed>>
     \/ UNCHANGED instances /\ stayed'[d] = stayed[d]
     \/ stayed'[d] = stayed[d] \cap instances'
  /\ UNCHANGED env \/ pc[c] = "setenv"
  /\ overlapped \subseteq overlapped'

(* A step of one call leaves the others alone.                             *)
LEMMA Elsewhere ==
  ASSUME Shapes, NEW c \in Calls, NEW d \in Calls, c # d,
         ClientCall(c) \/ ForeignRequest(c) \/ (HandlerStep(c) /\ UNCHANGED asked)
  PROVE  Untouched(d) /\ Shared(c, d)
<1>1. CASE ClientCall(c) \/ ForeignRequest(c)
  <2>1. /\ asked' = [asked EXCEPT ![c] = asked'[c]]
        /\ Refused(c) \/ Arrive(c, request'[c])
    BY <1>1, Arrivals
  <2>2. asked'[d] = asked[d]
    BY <2>1 DEF Shapes
  <2>3. CASE Refused(c)
    BY <2>2, <2>3 DEF Refused, Untouched, Shared, Shapes, status, backup, listing, Goto
  <2>4. CASE Arrive(c, request'[c])
    <3> DEFINE r == request'[c]
    <3>1. Arrive(c, r)
      BY <2>4
    <3> HIDE DEF r
    <3>2. pc'[d] = pc[d] /\ overlapped \subseteq overlapped'
      BY <3>1 DEF Arrive, Shapes, Goto
    <3>3. request'[d] = request[d] /\ unset'[d] = unset[d] /\ stayed'[d] = stayed[d]
      BY <3>1 DEF Arrive, Shapes
    <3>4. UNCHANGED <<next, performed, lastErr, taskError, answer, list, source, env, credential,
                      instances, found>>
      BY <3>1 DEF Arrive, status
    <3> QED
      BY <2>2, <3>2, <3>3, <3>4 DEF Untouched, Shared
  <2> QED
    BY <2>1, <2>3, <2>4
<1>2. ASSUME Effect(c)
      PROVE  /\ performed'[d] = performed[d]
             /\ list'[d] = list[d]
             /\ found'[d] = found[d]
             /\ stayed'[d] = stayed[d] \cap instances'
  <2>1. /\ performed' = [performed EXCEPT ![c] = @ \cup {next[c]}]
        /\ \/ UNCHANGED list
           \/ \E m \in [Replicas -> Modes] : list' = [list EXCEPT ![c] = m]
        /\ stayed' = [e \in Calls |-> stayed[e] \cap instances']
        /\ \/ UNCHANGED found
           \/ found' = [found EXCEPT ![c] = @ \cup (instances \cap {Kinds[next[c]]})]
    BY <1>2, EffectOnCalls
  <2> QED
    BY <2>1 DEF Shapes
<1>3. CASE HandlerStep(c) /\ UNCHANGED asked
  <2> USE <1>3 DEF Untouched, Shared, Shapes, status, backup, listing, Goto, Return
  <2>1. CASE SetEnv(c)
    BY <2>1 DEF SetEnv
  <2>2. CASE GetBackupCredential(c)
    BY <2>2 DEF GetBackupCredential
  <2>3. CASE Dispatch(c)
    BY <2>3 DEF Dispatch
  <2>4. CASE Connect(c)
    BY <2>4 DEF Connect
  <2>5. CASE CallSucceeds(c)
    BY <1>2, <2>5 DEF CallSucceeds
  <2>6. CASE CallFails(c)
    <3>1. /\ performed'[d] = performed[d]
          /\ list'[d] = list[d]
          /\ found'[d] = found[d]
          /\ \/ UNCHANGED <<instances, stayed>>
             \/ stayed'[d] = stayed[d] \cap instances'
      BY <1>2, <2>6 DEF CallFails
    <3>2. (lastErr'[d] <=> lastErr[d]) /\ (taskError'[d] <=> taskError[d])
      BY <2>6 DEF CallFails
    <3>3. pc'[d] = pc[d] /\ answer'[d] = answer[d] /\ next'[d] = next[d]
      BY <2>6 DEF CallFails
    <3>4. UNCHANGED <<request, source, backup>>
      BY <2>6 DEF CallFails
    <3> QED
      BY <3>1, <3>2, <3>3, <3>4
  <2>7. CASE FetchBackupStatus(c)
    BY <2>7 DEF FetchBackupStatus
  <2>8. CASE Finish(c)
    BY <2>8 DEF Finish
  <2> HIDE DEF Untouched, Shared, Shapes, status, backup, listing, Goto, Return
  <2> QED
    BY <2>1, <2>2, <2>3, <2>4, <2>5, <2>6, <2>7, <2>8 DEF HandlerStep
<1> QED
  BY <1>1, <1>3

(* So what the invariant says of the others stays true.                    *)
LEMMA OthersKept ==
  ASSUME IInv, NEW c \in Calls, NEW d \in Calls, c # d,
         ClientCall(c) \/ ForeignRequest(c) \/ (HandlerStep(c) /\ UNCHANGED asked)
  PROVE  Known(d)'
<1>1. Untouched(d) /\ Shared(c, d)
  BY Elsewhere DEF IInv
<1>2. Requested(d) /\ Progress(d) /\ ListKnown(d) /\ CredentialKnown(d)
  BY DEF IInv, Known
<1>3. Requested(d)'
  BY <1>1, <1>2 DEF Requested, Untouched
<1>4. Progress(d)'
  <2>1. Within(d) => Within(d)'
    BY <1>1 DEF Within, Untouched
  <2>2. Ended(d) => Ended(d)'
    BY <1>1 DEF Ended, Untouched
  <2> QED
    BY <1>1, <1>2, <2>1, <2>2 DEF Progress, Untouched
<1>5. ListKnown(d)'
  BY <1>1, <1>2 DEF ListKnown, Untouched, Shared
<1>6. CredentialKnown(d)'
  <2>1. d \notin overlapped' /\ pc'[d] \in {"setenv", "getenv"} => UNCHANGED env
    BY <1>1 DEF Untouched, Shared, IInv, Alone
  <2> QED
    BY <1>1, <1>2, <2>1 DEF CredentialKnown, Untouched, Shared
<1> QED
  BY <1>3, <1>4, <1>5, <1>6 DEF Known

(* A call that arrives.                                                    *)
LEMMA ArrivalKept ==
  ASSUME IInv, NEW c \in Calls, ClientCall(c) \/ ForeignRequest(c)
  PROVE  Known(c)'
<1>1. Shapes /\ Known(c)
  BY DEF IInv
<1>2. /\ pc[c] = "idle"
      /\ \/ Refused(c)
         \/ /\ IsRequest(request'[c])
            /\ request'[c].op \in Operations[c]
            /\ request'[c].op \in DiskOperations /\ request'[c].type = "block"
                 => asked'[c] = "block"
            /\ Arrive(c, request'[c])
  BY <1>1, Arrivals
<1>3. CASE Refused(c)
  <2>1. pc'[c] = "refused"
    BY <1>1, <1>3 DEF Refused, Goto, Shapes
  <2>2. UNCHANGED <<request, next, performed, lastErr, taskError, answer, list, source,
                    env, unset, credential, overlapped, instances, found, stayed>>
    BY <1>3 DEF Refused, status, backup, listing
  <2> QED
    BY <1>1, <1>2, <2>1, <2>2
       DEF Known, Requested, Progress, ListKnown, CredentialKnown
<1>4. CASE Arrive(c, request'[c]) /\ ~ Refused(c)
  <2> DEFINE r == request'[c]
  <2>1. /\ Arrive(c, r) /\ r = request'[c]
        /\ IsRequest(r)
        /\ r.op \in Operations[c]
        /\ r.op \in DiskOperations /\ r.type = "block" => asked'[c] = "block"
    BY <1>2, <1>4
  <2> HIDE DEF r
  <2>2. /\ unset'[c] = r.keys
        /\ stayed'[c] = instances
        /\ \/ r.op \in Credentialed /\ pc'[c] = "setenv"
           \/ r.op \notin Credentialed /\ pc'[c] = "dispatch"
    BY <1>1, <2>1 DEF Arrive, Goto, Shapes
  <2>3. UNCHANGED <<next, performed, lastErr, taskError, answer, list, source, env, credential,
                    instances, found>>
    BY <2>1 DEF Arrive, status
  <2>4. Requested(c)'
    BY <2>1 DEF Requested
  <2>5. Progress(c)'
    BY <1>1, <1>2, <2>2, <2>3 DEF Known, Progress
  <2>6. ListKnown(c)'
    BY <1>1, <1>2, <2>2, <2>3 DEF Known, Progress, ListKnown
  <2>7. CredentialKnown(c)'
    BY <1>1, <1>2, <2>1, <2>2, <2>3 DEF Known, CredentialKnown
  <2> QED
    BY <2>4, <2>5, <2>6, <2>7 DEF Known
<1> QED
  BY <1>2, <1>3, <1>4

(* One that sets the environment.                                          *)
LEMMA SetEnvKept ==
  ASSUME IInv, NEW c \in Calls, SetEnv(c), UNCHANGED asked
  PROVE  Known(c)'
<1>1. Shapes /\ Known(c)
  BY DEF IInv
<1>2. UNCHANGED <<request, next, performed, lastErr, taskError, answer, list, source, credential,
                  overlapped, instances, found, stayed>>
  BY DEF SetEnv, status, listing
<1>3. pc[c] = "setenv" /\ pc'[c] \in {"setenv", "getenv"}
  BY <1>1 DEF SetEnv, Goto, Shapes
<1>4. Requested(c)' /\ Progress(c)' /\ ListKnown(c)'
  BY <1>1, <1>2, <1>3 DEF Known, Requested, Progress, ListKnown
<1>5. CredentialKnown(c)'
  <2>1. ASSUME NEW k \in unset[c], env' = [env EXCEPT ![k] = c],
               unset' = [unset EXCEPT ![c] = @ \ {k}], UNCHANGED pc
        PROVE  CredentialKnown(c)'
    <3>1. unset'[c] = unset[c] \ {k} /\ env'[k] = c
      BY <1>1, <2>1 DEF Shapes
    <3>2. \A l \in Keys \ {k} : env'[l] = env[l]
      BY <1>1, <2>1 DEF Shapes
    <3>3. request[c].keys \subseteq Keys
      BY <1>1, <1>3 DEF Known, Requested, IsRequest
    <3> QED
      BY <1>1, <1>2, <1>3, <2>1, <3>1, <3>2, <3>3 DEF Known, CredentialKnown
  <2>2. CASE unset[c] = {} /\ pc'[c] = "getenv" /\ UNCHANGED <<env, unset>>
    BY <1>1, <1>2, <1>3, <2>2 DEF Known, CredentialKnown
  <2> QED
    BY <1>1, <2>1, <2>2 DEF SetEnv, Goto, Shapes
<1> QED
  BY <1>4, <1>5 DEF Known

(* One that reads it.                                                      *)
LEMMA GetCredentialKept ==
  ASSUME IInv, NEW c \in Calls, GetBackupCredential(c), UNCHANGED asked
  PROVE  Known(c)'
<1>1. Shapes /\ Known(c)
  BY DEF IInv
<1>2. UNCHANGED <<request, next, performed, lastErr, taskError, list, source, env, unset,
                  overlapped, instances, found, stayed>>
  BY DEF GetBackupCredential, status, listing
<1>3. pc[c] = "getenv" /\ request[c].op \in Credentialed
  BY <1>1 DEF GetBackupCredential, Known, CredentialKnown
<1>4. /\ next[c] = 1
      /\ performed[c] = {}
      /\ request[c].op # "SnapshotRemove"
      /\ request[c].op # "InstanceList"
  BY <1>1, <1>3 DEF Known, Progress, Credentialed
<1>5. CASE \E k \in Keys \ DOMAIN credential[c] :
             /\ credential' = [credential EXCEPT ![c] =
                                 [l \in DOMAIN @ \cup {k} |-> IF l = k THEN env[k] ELSE @[l]]]
             /\ UNCHANGED <<pc, answer>>
  <2>1. PICK k \in Keys \ DOMAIN credential[c] :
             /\ credential' = [credential EXCEPT ![c] =
                                 [l \in DOMAIN @ \cup {k} |-> IF l = k THEN env[k] ELSE @[l]]]
             /\ UNCHANGED <<pc, answer>>
    BY <1>5
  <2>2. credential'[c] = [l \in DOMAIN credential[c] \cup {k} |->
                            IF l = k THEN env[k] ELSE credential[c][l]]
    BY <1>1, <2>1 DEF Shapes
  <2>3. Requested(c)' /\ Progress(c)' /\ ListKnown(c)'
    BY <1>1, <1>2, <1>3, <2>1 DEF Known, Requested, Progress, ListKnown
  <2>4. CredentialKnown(c)'
    BY <1>1, <1>2, <1>3, <2>1, <2>2 DEF Known, CredentialKnown
  <2> QED
    BY <2>3, <2>4 DEF Known
<1>6. CASE /\ DOMAIN credential[c] \in {{}, Keys}
           /\ Goto(c, "dispatch")
           /\ UNCHANGED <<answer, credential>>
  <2>1. pc'[c] = "dispatch"
    BY <1>1, <1>6 DEF Goto, Shapes
  <2> QED
    BY <1>1, <1>2, <1>3, <1>6, <2>1
       DEF Known, Requested, Progress, ListKnown, CredentialKnown
<1>7. CASE Return(c, "error") /\ UNCHANGED credential
  <2>1. pc'[c] = "returned" /\ answer'[c] = "error"
    BY <1>1, <1>7 DEF Return, Goto, Shapes
  <2>2. Progress(c)'
    BY <1>1, <1>2, <1>3, <1>4, <2>1 DEF Known, Progress, Ended
  <2> QED
    BY <1>1, <1>2, <1>3, <1>4, <1>7, <2>1, <2>2
       DEF Known, Requested, ListKnown, CredentialKnown
<1> QED
  BY <1>5, <1>6, <1>7 DEF GetBackupCredential

(* One that the handler answers at once, or begins to serve.               *)
LEMMA DispatchKept ==
  ASSUME IInv, NEW c \in Calls, Dispatch(c), UNCHANGED asked
  PROVE  Known(c)'
<1> DEFINE r == request[c]
<1>1. Shapes /\ Known(c)
  BY DEF IInv
<1>2. UNCHANGED <<request, next, performed, lastErr, taskError, list, source, env, unset,
                  credential, overlapped, instances, found, stayed>>
  BY DEF Dispatch, status, backup, listing
<1>3. pc[c] = "dispatch"
  BY DEF Dispatch
<1>4. /\ IsRequest(r)
      /\ next[c] = 1
      /\ performed[c] = {}
      /\ ~ lastErr[c] /\ ~ taskError[c]
      /\ answer[c] = "none"
  BY <1>1, <1>3 DEF Known, Requested, Progress
<1>5. /\ r.op = "InstanceList" => r.engine = "v1" /\ Plan(r) # Stub
      /\ r.engine # "other" => Fit(r, Plan(r))
  BY <1>4, InstancePlan, PlanFit DEF IsRequest, Stub, Forward
<1>6. CASE Return(c, "error")
  <2>1. pc'[c] = "returned" /\ answer'[c] = "error"
    BY <1>1, <1>6 DEF Return, Goto, Shapes
  <2>2. Progress(c)'
    BY <1>1, <1>2, <1>4, <2>1 DEF Known, Progress, Ended
  <2> QED
    BY <1>1, <1>2, <1>3, <2>1, <2>2
       DEF Known, Requested, ListKnown, CredentialKnown
<1>7. CASE r.engine # "other" /\ Plan(r) = Stub /\ Return(c, "ok")
  <2>1. pc'[c] = "returned" /\ answer'[c] = "ok"
    BY <1>1, <1>7 DEF Return, Goto, Shapes
  <2>2. Silent(r)
    BY <1>5, <1>7 DEF Fit, Stub, Unimplemented, Policies
  <2>3. Progress(c)'
    BY <1>1, <1>2, <1>4, <2>1, <2>2 DEF Known, Progress, Ended
  <2> QED
    BY <1>1, <1>2, <1>3, <1>5, <1>7, <2>1, <2>3
       DEF Known, Requested, ListKnown, CredentialKnown
<1>8. CASE /\ r.engine # "other" /\ Plan(r) \notin {Unimplemented, Stub}
           /\ Goto(c, IF NoConnect(r) THEN "call" ELSE "connect")
           /\ UNCHANGED answer
  <2>1. pc'[c] \in {"connect", "call"}
    BY <1>1, <1>8 DEF Goto, Shapes
  <2>2. Len(Plan(r)) \in Nat
    BY <1>5, <1>8 DEF Fit
  <2>3. r.op \in DiskOperations => r.type = "block"
    BY <1>4, <1>8, DiskPlan DEF IfBlock
  <2>4. Within(c)'
    BY <1>2, <1>4, <1>8, <2>2, <2>3 DEF Within
  <2>5. Progress(c)'
    BY <1>1, <1>2, <1>4, <1>8, <2>1, <2>4 DEF Known, Progress
  <2> QED
    BY <1>1, <1>2, <1>3, <1>4, <1>8, <2>1, <2>5
       DEF Known, Requested, ListKnown, CredentialKnown
<1> QED
  BY <1>6, <1>7, <1>8 DEF Dispatch

(* One whose handler makes its client.                                     *)
LEMMA ConnectKept ==
  ASSUME IInv, NEW c \in Calls, Connect(c), UNCHANGED asked
  PROVE  Known(c)'
<1>1. Shapes /\ Known(c)
  BY DEF IInv
<1>2. UNCHANGED <<request, next, performed, lastErr, taskError, list, source, env, unset,
                  credential, overlapped, instances, found, stayed>>
  BY DEF Connect, status, backup, listing
<1>3. pc[c] = "connect"
  BY DEF Connect
<1>4. next[c] = 1 /\ performed[c] = {} /\ Within(c) /\ answer[c] = "none"
  BY <1>1, <1>3 DEF Known, Progress
<1>5. ASSUME NEW a \in {"error", "reported"}, Return(c, a)
      PROVE  Known(c)'
  <2>1. pc'[c] = "returned" /\ answer'[c] = a
    BY <1>1, <1>5 DEF Return, Goto, Shapes
  <2>2. Progress(c)'
    BY <1>1, <1>2, <1>4, <1>5, <2>1 DEF Known, Progress, Ended
  <2> QED
    BY <1>1, <1>2, <1>3, <1>5, <2>1, <2>2
       DEF Known, Requested, ListKnown, CredentialKnown
<1>6. CASE Goto(c, "call") /\ UNCHANGED answer
  <2>1. pc'[c] = "call"
    BY <1>1, <1>6 DEF Goto, Shapes
  <2>2. Within(c)'
    BY <1>2, <1>4 DEF Within
  <2>3. Progress(c)'
    BY <1>1, <1>2, <1>3, <1>4, <1>6, <2>1, <2>2 DEF Known, Progress
  <2> QED
    BY <1>1, <1>2, <1>3, <1>4, <1>6, <2>1, <2>3
       DEF Known, Requested, ListKnown, CredentialKnown
<1> QED
  BY <1>5, <1>6 DEF Connect

(* A handler at work has a plan of calls.                                  *)
LEMMA PlanInUse ==
  ASSUME IInv, NEW c \in Calls, pc[c] = "call"
  PROVE  /\ Plan(request[c]) \in Seq(Policies)
         /\ Len(Plan(request[c])) <= 2 * Items + 1
         /\ \A i \in 1 .. Len(Plan(request[c])) :
              Plan(request[c])[i] = "drop" => Silent(request[c])
<1>1. Requested(c) /\ Within(c)
  BY DEF IInv, Known, Progress
<1>2. Fit(request[c], Plan(request[c]))
  BY <1>1, PlanFit DEF Requested, Within
<1> QED
  BY <1>1, <1>2 DEF Within, Fit

(* What a call that is performed means to the handler that makes it.       *)
LEMMA EffectHere ==
  ASSUME IInv, NEW c \in Calls, pc[c] = "call", next[c] <= Len(Plan(request[c])), Effect(c)
  PROVE  /\ performed'[c] = performed[c] \cup {next[c]}
         /\ stayed'[c] = stayed[c] \cap instances'
         /\ request[c].op = "InstanceList"
              => found'[c] = found[c] \cup (instances \cap {Kinds[next[c]]})
<1>1. Shapes
  BY DEF IInv
<1>2. /\ performed' = [performed EXCEPT ![c] = @ \cup {next[c]}]
      /\ stayed' = [d \in Calls |-> stayed[d] \cap instances']
      /\ request[c].op = "InstanceList"
           => found' = [found EXCEPT ![c] = @ \cup (instances \cap {Kinds[next[c]]})]
  BY EffectOnCalls
<1> QED
  BY <1>1, <1>2 DEF Shapes

(* A call of the plan that is made, whether it succeeds or fails.          *)
LEMMA CallKept ==
  ASSUME IInv, NEW c \in Calls, CallSucceeds(c) \/ CallFails(c), UNCHANGED asked
  PROVE  Known(c)'
<1> DEFINE r == request[c]
           plan == Plan(r)
<1>1. Shapes /\ Known(c)
  BY DEF IInv
<1>2. UNCHANGED <<request, source, env, unset, credential, overlapped>>
  BY DEF CallSucceeds, CallFails, backup
<1>3. pc[c] = "call" /\ next[c] <= Len(plan)
  BY DEF CallSucceeds, CallFails
<1>4. /\ plan \in Seq(Policies) /\ Len(plan) <= 2 * Items + 1
      /\ Len(plan) \in Nat
  BY <1>3, PlanInUse
<1>5. /\ IsRequest(r)
      /\ next[c] \in 1 .. 2 * Items + 2
      /\ performed[c] \subseteq 1 .. next[c] - 1
      /\ Within(c)
      /\ answer[c] = "none"
  BY <1>1, <1>3 DEF Known, Requested, Progress
<1>6. next'[c] = next[c] + 1
  BY <1>1 DEF CallSucceeds, CallFails, Shapes
<1>7. /\ performed'[c] \in {performed[c], performed[c] \cup {next[c]}}
      /\ stayed'[c] \subseteq stayed[c] \cap instances'
  <2>1. CASE Effect(c)
    BY <1>3, <2>1, EffectHere
  <2>2. CASE UNCHANGED <<performed, list, listing>>
    BY <1>1, <2>2 DEF Known, ListKnown, listing
  <2> QED
    BY <2>1, <2>2 DEF CallSucceeds, CallFails
<1>8. /\ plan[next[c]] \in Policies
      /\ plan[next[c]] # "search"
      /\ \/ plan[next[c]] # "return" /\ pc'[c] = "call" /\ answer'[c] = "none"
         \/ CallSucceeds(c) /\ pc'[c] = "call" /\ answer'[c] = "none"
         \/ plan[next[c]] = "return" /\ pc'[c] = "returned" /\ answer'[c] = "error"
  <2>1. plan[next[c]] \in Policies
    BY <1>3, <1>4, <1>5
  <2>2. CASE CallSucceeds(c)
    BY <1>3, <1>5, <2>1, <2>2 DEF CallSucceeds
  <2>3. CASE CallFails(c)
    <3> HIDE DEF plan
    <3>1. /\ plan[next[c]] # "search"
          /\ IF plan[next[c]] = "return" THEN Return(c, "error") ELSE UNCHANGED <<pc, answer>>
      BY <2>3 DEF CallFails, plan
    <3> QED
      BY <1>1, <1>3, <1>5, <2>1, <3>1 DEF Return, Goto, Shapes
  <2> QED
    BY <2>2, <2>3
<1>9. /\ lastErr[c] => lastErr'[c]
      /\ taskError[c] => taskError'[c]
      /\ \/ next[c] \in performed'[c]
         \/ plan[next[c]] = "return"
         \/ plan[next[c]] = "last" /\ lastErr'[c]
         \/ plan[next[c]] = "report" /\ taskError'[c]
         \/ plan[next[c]] = "drop"
  <2>1. CASE CallSucceeds(c)
    BY <1>3, <2>1, EffectHere DEF CallSucceeds
  <2>2. CASE CallFails(c)
    <3>1. /\ lastErr'[c] <=> lastErr[c] \/ plan[next[c]] = "last"
          /\ taskError'[c] <=> taskError[c] \/ plan[next[c]] = "report"
      BY <1>1, <2>2 DEF CallFails, Shapes
    <3> QED
      BY <1>8, <3>1 DEF Policies
  <2> QED
    BY <2>1, <2>2
<1> HIDE DEF plan
<1>10. Requested(c)' /\ CredentialKnown(c)'
  BY <1>1, <1>2, <1>3, <1>8 DEF Known, Requested, CredentialKnown
<1>11. Progress(c)'
  <2>1. next'[c] \in 1 .. 2 * Items + 2 /\ performed'[c] \subseteq 1 .. next'[c] - 1
    BY <1>3, <1>4, <1>5, <1>6, <1>7, ItemsAssumption
  <2>2. pc'[c] = "call" => Within(c)'
    <3>1. ASSUME NEW i \in 1 .. next'[c] - 1, pc'[c] = "call"
          PROVE  \/ i \in performed'[c]
                 \/ plan[i] = "last" /\ lastErr'[c]
                 \/ plan[i] \in {"report", "search"} /\ taskError'[c]
                 \/ plan[i] = "drop"
      <4>1. CASE i = next[c]
        <5>1. plan[next[c]] # "return" \/ next[c] \in performed'[c]
          BY <1>3, <1>8, <3>1, EffectHere DEF CallSucceeds
        <5> QED
          BY <1>9, <4>1, <5>1
      <4>2. CASE i \in 1 .. next[c] - 1
        BY <1>5, <1>7, <1>9, <4>2 DEF Within, plan
      <4> QED
        BY <1>5, <1>6, <4>1, <4>2
    <3> QED
      BY <1>2, <1>3, <1>4, <1>5, <1>6, <3>1 DEF Within, plan
  <2>3. pc'[c] = "returned" => Ended(c)'
    <3>1. r.op = "SnapshotRemove" => plan[next[c]] = "last"
      BY <1>3, <1>5, ProxyPlan, ItemsAssumption DEF plan, Each
    <3> QED
      BY <1>2, <1>5, <1>8, <3>1 DEF Ended, Within, plan
  <2> QED
    BY <1>8, <2>1, <2>2, <2>3 DEF Progress
<1>12. ListKnown(c)'
  <2>1. r.op = "InstanceList" => plan[next[c]] = "return"
    BY <1>3, <1>5, InstancePlan DEF plan, Forward
  <2>2. r.op = "InstanceList" /\ pc'[c] = "call"
          => found'[c] = found[c] \cup (instances \cap {Kinds[next[c]]})
    BY <1>3, <1>8, <2>1, EffectHere DEF CallSucceeds
  <2>3. ASSUME r.op = "InstanceList", pc'[c] = "call", NEW i \in 1 .. next'[c] - 1,
               Kinds[i] \in stayed'[c]
        PROVE  Kinds[i] \in found'[c]
    <3>1. Kinds[i] \in stayed[c] /\ stayed[c] \subseteq instances
      BY <1>1, <1>7, <2>3 DEF Known, ListKnown
    <3>2. CASE i = next[c]
      BY <2>2, <2>3, <3>1, <3>2
    <3>3. CASE i \in 1 .. next[c] - 1
      BY <1>1, <1>3, <2>2, <2>3, <3>1, <3>3 DEF Known, ListKnown
    <3> QED
      BY <1>5, <1>6, <3>2, <3>3
  <2> QED
    BY <1>2, <1>7, <1>8, <2>3 DEF ListKnown
<1> QED
  BY <1>10, <1>11, <1>12 DEF Known

(* A handler that looks for the replica with the status of a backup.       *)
LEMMA FetchKept ==
  ASSUME IInv, NEW c \in Calls, FetchBackupStatus(c), UNCHANGED asked
  PROVE  Known(c)'
<1> DEFINE r == request[c]
           plan == Plan(r)
<1>1. Shapes /\ Known(c)
  BY DEF IInv
<1>2. UNCHANGED <<request, lastErr, list, env, unset, credential, overlapped, instances, found,
                  stayed>>
  BY DEF FetchBackupStatus, backup, listing
<1>3. pc[c] = "call" /\ next[c] <= Len(plan) /\ plan[next[c]] = "search"
  BY DEF FetchBackupStatus
<1>4. plan \in Seq(Policies) /\ Len(plan) <= 2 * Items + 1 /\ Len(plan) \in Nat
  BY <1>3, PlanInUse
<1>5. /\ IsRequest(r)
      /\ next[c] \in 1 .. 2 * Items + 2
      /\ performed[c] \subseteq 1 .. next[c] - 1
      /\ Within(c)
      /\ answer[c] = "none"
  BY <1>1, <1>3 DEF Known, Requested, Progress
<1>6. r.op # "SnapshotRemove" /\ r.op # "InstanceList"
  <2>1. r.op # "SnapshotRemove"
    BY <1>3, <1>5, ProxyPlan, ItemsAssumption DEF Each
  <2>2. r.op # "InstanceList"
    BY <1>3, <1>5, InstancePlan DEF Forward
  <2> QED
    BY <2>1, <2>2
<1> HIDE DEF plan
<1>7. CASE Return(c, "error") /\ UNCHANGED <<next, source, performed, taskError>>
  <2>1. pc'[c] = "returned" /\ answer'[c] = "error"
    BY <1>1, <1>7 DEF Return, Goto, Shapes
  <2>2. Progress(c)'
    BY <1>1, <1>2, <1>5, <1>6, <1>7, <2>1 DEF Known, Progress, Ended, Within
  <2> QED
    BY <1>1, <1>2, <1>3, <1>7, <2>1, <2>2 DEF Known, Requested, ListKnown, CredentialKnown
<1>8. ASSUME NEW failed \in BOOLEAN,
             next' = [next EXCEPT ![c] = @ + 1],
             taskError' = [taskError EXCEPT ![c] = @ \/ failed],
             performed' = IF failed THEN performed
                          ELSE [performed EXCEPT ![c] = @ \cup {next[c]}],
             UNCHANGED <<pc, answer>>
      PROVE  Known(c)'
  <2>1. /\ next'[c] = next[c] + 1
        /\ taskError'[c] <=> taskError[c] \/ failed
        /\ performed'[c] = IF failed THEN performed[c] ELSE performed[c] \cup {next[c]}
    BY <1>1, <1>8 DEF Shapes
  <2>2. Within(c)'
    <3>1. ASSUME NEW i \in 1 .. next'[c] - 1
          PROVE  \/ i \in performed'[c]
                 \/ plan[i] = "last" /\ lastErr'[c]
                 \/ plan[i] \in {"report", "search"} /\ taskError'[c]
                 \/ plan[i] = "drop"
      <4>1. CASE i = next[c]
        BY <1>3, <2>1, <4>1
      <4>2. CASE i \in 1 .. next[c] - 1
        BY <1>2, <1>5, <2>1, <4>2 DEF Within, plan
      <4> QED
        BY <1>5, <2>1, <4>1, <4>2
    <3> QED
      BY <1>2, <1>3, <1>4, <1>5, <2>1, <3>1 DEF Within, plan
  <2>3. Progress(c)'
    <3>1. next'[c] \in 1 .. 2 * Items + 2 /\ performed'[c] \subseteq 1 .. next'[c] - 1
      BY <1>3, <1>4, <1>5, <2>1, ItemsAssumption
    <3> QED
      BY <1>3, <1>5, <1>8, <2>2, <3>1 DEF Progress
  <2> QED
    BY <1>1, <1>2, <1>3, <1>5, <1>6, <1>8, <2>3
       DEF Known, Requested, ListKnown, CredentialKnown
<1> QED
  BY <1>7, <1>8 DEF FetchBackupStatus, EsyncFetchBackupStatus

(* A handler that has made all its calls.                                  *)
LEMMA FinishKept ==
  ASSUME IInv, NEW c \in Calls, Finish(c), UNCHANGED asked
  PROVE  Known(c)'
<1> DEFINE r == request[c]
           plan == Plan(r)
<1>1. Shapes /\ Known(c)
  BY DEF IInv
<1>2. UNCHANGED <<request, next, performed, lastErr, taskError, list, source, env, unset,
                  credential, overlapped, instances, found, stayed>>
  BY DEF Finish, status, backup, listing
<1>3. pc[c] = "call" /\ next[c] > Len(plan)
  BY DEF Finish
<1>4. /\ plan \in Seq(Policies) /\ Len(plan) \in Nat /\ DOMAIN plan = 1 .. Len(plan)
      /\ \A i \in 1 .. Len(plan) : plan[i] = "drop" => Silent(r)
  BY <1>3, PlanInUse
<1>5. /\ IsRequest(r)
      /\ next[c] \in 1 .. 2 * Items + 2
      /\ performed[c] \subseteq 1 .. next[c] - 1
      /\ Within(c)
  BY <1>1, <1>3 DEF Known, Requested, Progress
<1>6. next[c] = Len(plan) + 1
  BY <1>3, <1>4, <1>5 DEF Within
<1>7. /\ pc'[c] = "returned"
      /\ answer'[c] \in {"ok", "error", "reported"}
      /\ answer'[c] = "ok" => ~ lastErr[c] /\ ~ taskError[c]
  <2>1. PICK a \in {"ok", "error", "reported"} :
          Return(c, a) /\ (a = "ok" => ~ lastErr[c] /\ ~ taskError[c])
    BY DEF Finish
  <2> QED
    BY <1>1, <2>1 DEF Return, Goto, Shapes
<1>8. Ended(c)'
  <2>1. ASSUME answer'[c] = "ok", ~ Silent(r)
        PROVE  performed[c] = DOMAIN plan /\ r.engine # "other"
    <3>1. \A i \in 1 .. Len(plan) : i \in performed[c]
      BY <1>4, <1>5, <1>6, <1>7, <2>1 DEF Within
    <3>2. performed[c] \subseteq 1 .. Len(plan)
      BY <1>4, <1>5, <1>6
    <3> QED
      BY <1>4, <1>5, <3>1, <3>2 DEF Within
  <2>2. r.op = "SnapshotRemove" => next[c] = Items + 1
    BY <1>4, <1>5, <1>6, ProxyPlan, ItemsAssumption DEF Each
  <2> QED
    BY <1>2, <1>5, <2>1, <2>2 DEF Ended, Within
<1>9. Progress(c)'
  BY <1>2, <1>5, <1>7, <1>8 DEF Progress
<1>10. ListKnown(c)'
  <2>1. ASSUME r.op = "InstanceList", NEW kind \in stayed[c], r.flag \/ kind = "process"
        PROVE  kind \in found[c]
    <3>1. plan = IF r.flag THEN <<"return", "return", "return">> ELSE Forward
      BY <1>5, <2>1, InstancePlan
    <3>2. kind \in AllKinds
      BY <1>1, <2>1 DEF Known, ListKnown, Shapes
    <3>3. PICK i \in 1 .. Len(plan) : kind = Kinds[i]
      <4>1. Kinds[1] = "process" /\ Kinds[2] = "replica" /\ Kinds[3] = "engine"
        BY DEF Kinds
      <4>2. CASE r.flag
        <5>1. Len(plan) = 3
          BY <3>1, <4>2
        <5> QED
          BY <3>2, <4>1, <5>1 DEF AllKinds
      <4>3. CASE ~ r.flag
        <5>1. Len(plan) = 1
          BY <3>1, <4>3 DEF Forward
        <5> QED
          BY <2>1, <4>1, <4>3, <5>1
      <4> QED
        BY <4>2, <4>3
    <3> QED
      BY <1>1, <1>3, <1>6, <2>1, <3>3 DEF Known, ListKnown
  <2> QED
    BY <1>1, <1>2, <1>7, <2>1 DEF Known, ListKnown
<1> QED
  BY <1>1, <1>2, <1>3, <1>7, <1>9, <1>10
     DEF Known, Requested, CredentialKnown

(* Calls that come into the environment together are known to overlap.     *)
LEMMA AloneKept ==
  ASSUME IInv, NEW c \in Calls,
         ClientCall(c) \/ ForeignRequest(c) \/ (HandlerStep(c) /\ UNCHANGED asked)
  PROVE  Alone'
<1>1. Shapes /\ Alone
  BY DEF IInv
<1>2. \A d \in Calls \ {c} : pc'[d] = pc[d]
  BY <1>1, Elsewhere DEF Untouched
<1>3. overlapped \subseteq overlapped'
  <2>1. CASE ClientCall(c) \/ ForeignRequest(c)
    <3>1. Refused(c) \/ Arrive(c, request'[c])
      BY <1>1, <2>1, Arrivals
    <3> QED
      BY <3>1 DEF Refused, Arrive, backup
  <2>2. CASE HandlerStep(c)
    BY <2>2 DEF HandlerStep, SetEnv, GetBackupCredential, Dispatch, Connect, CallSucceeds,
                CallFails, FetchBackupStatus, Finish, backup
  <2> QED
    BY <2>1, <2>2
<1>4. ASSUME NEW d \in Calls \ {c}, pc'[c] \in {"setenv", "getenv"},
             pc'[d] \in {"setenv", "getenv"}
      PROVE  c \in overlapped' /\ d \in overlapped'
  <2>1. pc[d] \in {"setenv", "getenv"}
    BY <1>2, <1>4
  <2>2. CASE pc[c] \in {"setenv", "getenv"}
    BY <1>1, <1>3, <2>1, <2>2 DEF Alone
  <2>3. CASE ClientCall(c) \/ ForeignRequest(c)
    <3>1. Refused(c) \/ Arrive(c, request'[c])
      BY <1>1, <2>3, Arrivals
    <3>2. CASE Refused(c)
      BY <1>1, <1>4, <3>2 DEF Refused, Goto, Shapes
    <3>3. CASE Arrive(c, request'[c])
      <4>1. InEnv(c) # {} /\ d \in InEnv(c)
        BY <2>1 DEF InEnv
      <4>2. request'[c].op \in Credentialed
        BY <1>1, <1>4, <3>3 DEF Arrive, Goto, Shapes
      <4> QED
        BY <3>3, <4>1, <4>2 DEF Arrive
    <3> QED
      BY <3>1, <3>2, <3>3
  <2>4. CASE HandlerStep(c) /\ pc[c] \notin {"setenv", "getenv"}
    <3>1. pc'[c] \notin {"setenv", "getenv"}
      BY <1>1, <2>4 DEF HandlerStep, SetEnv, GetBackupCredential, Dispatch, Connect,
                       CallSucceeds, CallFails, FetchBackupStatus, Finish, Return, Goto, Shapes
    <3> QED
      BY <1>4, <3>1
  <2> QED
    BY <2>2, <2>3, <2>4
<1> QED
  BY <1>1, <1>2, <1>3, <1>4 DEF Alone

(* Range(Kinds) lists the kinds.                                           *)
LEMMA RangeKinds == Range(Kinds) = AllKinds
<1>1. DOMAIN Kinds = {1, 2, 3} /\ Kinds[1] = "process" /\ Kinds[2] = "replica"
      /\ Kinds[3] = "engine"
  BY DEF Kinds
<1> QED
  BY <1>1 DEF Range, AllKinds

(* The invariant holds at the start.                                       *)
LEMMA InitIInv == Init => IInv
<1> SUFFICES ASSUME Init PROVE IInv
  OBVIOUS
<1>1. Shapes
  BY RangeKinds DEF Init, Shapes, Types, Modes
<1>2. Alone
  BY DEF Init, Alone
<1>3. ASSUME NEW c \in Calls
      PROVE  Known(c)
  <2>1. Requested(c) /\ ListKnown(c)
    BY DEF Init, Requested, ListKnown
  <2>2. Progress(c)
    BY ItemsAssumption DEF Init, Progress
  <2>3. CredentialKnown(c)
    BY DEF Init, CredentialKnown
  <2> QED
    BY <2>1, <2>2, <2>3 DEF Known
<1> QED
  BY <1>1, <1>2, <1>3 DEF IInv

(* Every step keeps it.                                                    *)
LEMMA StepIInv == IInv /\ [Next]_vars => IInv'
<1> SUFFICES ASSUME IInv, [Next]_vars PROVE IInv'
  OBVIOUS
<1>1. Shapes'
  BY ShapesStep
<1>2. ASSUME NEW c \in Calls,
             ClientCall(c) \/ ForeignRequest(c) \/ (HandlerStep(c) /\ UNCHANGED asked)
      PROVE  IInv'
  <2>1. Known(c)'
    BY <1>2, ArrivalKept, SetEnvKept, GetCredentialKept, DispatchKept, ConnectKept, CallKept,
       FetchKept, FinishKept DEF HandlerStep
  <2>2. ASSUME NEW d \in Calls PROVE Known(d)'
    BY <1>2, <2>1, OthersKept
  <2>3. Alone'
    BY <1>2, AloneKept
  <2> QED
    BY <1>1, <2>2, <2>3 DEF IInv
<1>3. CASE UNCHANGED vars
  <2>1. UNCHANGED <<asked, request, pc, next, performed, lastErr, taskError, answer, list, source,
                    env, unset, credential, overlapped, instances, found, stayed>>
    BY <1>3 DEF vars, handler, status, backup, listing
  <2>2. Alone'
    BY <2>1 DEF IInv, Alone
  <2>3. ASSUME NEW d \in Calls PROVE Known(d)'
    BY <2>1 DEF IInv, Known, Requested, Progress, Within, Ended, ListKnown,
                CredentialKnown
  <2> QED
    BY <1>1, <2>2, <2>3 DEF IInv
<1> QED
  BY <1>2, <1>3, StepCases

(* The invariant holds throughout.                                         *)
THEOREM HandlersInvariant == Spec => []IInv
BY InitIInv, StepIInv, PTL DEF Spec

(* Every variable has its type; and a request that is served has set all   *)
(* its variables and holds a whole credential or none.                     *)
THEOREM TypeCorrect == Spec => []TypeOK
<1>1. ASSUME IInv PROVE TypeOK
  <2>1. Shapes
    BY <1>1 DEF IInv
  <2>2. ASSUME NEW c \in Calls
        PROVE  /\ pc[c] \in {"idle", "refused"} \/ request[c].op \in Operations[c]
               /\ asked[c] \in Types \cup Disks
               /\ pc[c] \in {"idle", "refused", "setenv", "getenv", "dispatch", "connect",
                             "call", "returned"}
               /\ answer[c] \in {"none", "ok", "error", "reported"}
               /\ answer[c] # "none" <=> pc[c] = "returned"
               /\ performed[c] \subseteq 1 .. next[c] - 1
               /\ DOMAIN credential[c] \subseteq Keys
               /\ pc[c] \in {"connect", "call"} /\ request[c].op \in Credentialed
                    => unset[c] = {} /\ DOMAIN credential[c] \in {{}, Keys}
               /\ next[c] \in 1 .. 2 * Items + 2
    <3>1. Requested(c) /\ Progress(c) /\ CredentialKnown(c)
      BY <1>1 DEF IInv, Known
    <3> QED
      BY <2>1, <3>1 DEF Shapes, Requested, Progress, CredentialKnown
  <2>3. next \in [Calls -> 1 .. 2 * Items + 2]
    BY <2>1, <2>2 DEF Shapes
  <2> QED
    BY <2>1, <2>2, <2>3, RangeKinds DEF TypeOK, Shapes
<1> QED
  BY <1>1, HandlersInvariant, PTL

(* A client that is told of a success can rely on it: every call of the    *)
(* handler's plan was performed, except for the silent operations.         *)
THEOREM NoErrorLost == Spec => []SuccessMeansDone
<1>1. ASSUME IInv PROVE SuccessMeansDone
  <2> SUFFICES ASSUME NEW c \in Calls, Told(c) = "ok", ~ Silent(request[c])
               PROVE  performed[c] = DOMAIN Plan(request[c]) /\ request[c].engine # "other"
    BY DEF SuccessMeansDone
  <2>1. answer[c] = "ok"
    BY DEF Told
  <2> QED
    BY <1>1, <2>1 DEF IInv, Known, Progress, Ended
<1> QED
  BY <1>1, HandlersInvariant, PTL

(* SnapshotRemove goes through all names, whichever of them fail.          *)
THEOREM AllNamesTried == Spec => []EveryNameTried
<1>1. ASSUME IInv PROVE EveryNameTried
  BY <1>1 DEF IInv, Known, EveryNameTried, Progress, Ended
<1> QED
  BY <1>1, HandlersInvariant, PTL

(* An InstanceList that succeeds misses no instance that was there all the *)
(* time, whatever is created and deleted between its three lists.          *)
THEOREM ListsComplete == Spec => []ListComplete
<1>1. ASSUME IInv PROVE ListComplete
  BY <1>1 DEF IInv, Known, ListComplete, ListKnown
<1> QED
  BY <1>1, HandlersInvariant, PTL

(* A backup or restore that no other overlapped has its own credential.    *)
THEOREM CredentialsOwn == Spec => []OwnCredential
<1>1. ASSUME IInv PROVE OwnCredential
  BY <1>1 DEF IInv, Known, OwnCredential, CredentialKnown
<1> QED
  BY <1>1, HandlersInvariant, PTL

(* The disk service calls SPDK only for a caller that named a block        *)
(* device, through whichever conversions its type went.                    *)
THEOREM DisksOnlyBlock == Spec => []OnlyBlockDisks
<1>1. ASSUME IInv PROVE OnlyBlockDisks
  <2> SUFFICES ASSUME NEW c \in Calls, performed[c] # {}, request[c].op \in DiskOperations
               PROVE  asked[c] = "block"
    BY DEF OnlyBlockDisks
  <2>1. Requested(c) /\ Progress(c)
    BY <1>1 DEF IInv, Known
  <2>2. pc[c] \in {"call", "returned"}
    BY <1>1, <2>1 DEF Progress, IInv, Shapes
  <2>3. request[c].type = "block"
    BY <2>1, <2>2 DEF Progress, Within, Ended
  <2> QED
    BY <2>1, <2>2, <2>3 DEF Requested
<1> QED
  BY <1>1, HandlersInvariant, PTL
=============================================================================
