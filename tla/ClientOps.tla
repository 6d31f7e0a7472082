----------------------------- MODULE ClientOps ------------------------------
(***************************************************************************)
(* What the methods of the clients (pkg/client) do before they send a      *)
(* request.  A method is                                                   *)
(*   "checked"  if it refuses a call without its required parameters;      *)
(*   "typed"    if it refuses besides a type that it does not know;        *)
(*   "plain"    if it sends whatever it is given.                          *)
(* Requests and answers are copied field by field otherwise, but for the   *)
(* data engine, the type of a disk and the error of a restore.             *)
(***************************************************************************)
EXTENDS TLC

Methods(names, policy) == [op \in names |-> policy]

VolumeMethods ==
  Methods({"VolumeGet", "VolumeExpand", "VolumeFrontendStart"}, "checked")

VolumeSettingMethods ==
  Methods({"VolumeFrontendShutdown", "VolumeUnmapMarkSnapChainRemovedSet",
           "VolumeSnapshotMaxCountSet", "VolumeSnapshotMaxSizeSet",
           "RemountReadOnlyVolume"}, "checked")

SnapshotMethods ==
  Methods({"VolumeSnapshot", "SnapshotList"}, "checked")

SnapshotCloneMethods ==
  Methods({"SnapshotClone", "SnapshotCloneStatus", "SnapshotRevert"}, "checked")

SnapshotPurgeMethods ==
  Methods({"SnapshotPurge", "SnapshotPurgeStatus", "SnapshotRemove"}, "checked")

SnapshotHashMethods ==
  Methods({"SnapshotHash", "SnapshotHashStatus"}, "checked")

ReplicaMethods ==
  Methods({"ReplicaAdd", "ReplicaList", "ReplicaRebuildingStatus"}, "checked")

ReplicaChangeMethods ==
  Methods({"ReplicaVerifyRebuild", "ReplicaRemove", "ReplicaModeUpdate"}, "checked")

BackupMethods ==
  Methods({"SnapshotBackup", "SnapshotBackupStatus"}, "checked")
  @@ Methods({"CleanupBackupMountPoints"}, "plain")

RestoreMethods ==
  Methods({"BackupRestore", "BackupRestoreStatus"}, "checked")

(* A backing image of size 0 is refused like a missing parameter.          *)
BackingImageMethods ==
  Methods({"SPDKBackingImageCreate", "SPDKBackingImageDelete", "SPDKBackingImageGet"}, "checked")
  @@ Methods({"SPDKBackingImageList"}, "plain")

ProxyMethods ==
  Methods({"ServerVersionGet", "MetricsGet"}, "checked")

(* InstanceCreate has to know the type to build the spec of a V2 instance. *)
InstanceMethods ==
  Methods({"InstanceCreate"}, "typed")
  @@ Methods({"InstanceDelete", "InstanceGet", "InstanceLog"}, "checked")
  @@ Methods({"InstanceList"}, "plain")

(* InstanceReplace takes a terminate signal, and only SIGHUP, as required. *)
InstanceChangeMethods ==
  Methods({"InstanceReplace", "InstanceSuspend", "InstanceResume",
           "InstanceSwitchOverTarget", "InstanceDeleteTarget"}, "checked")

LogMethods ==
  Methods({"LogSetLevel", "LogSetFlags", "LogGetLevel", "LogGetFlags"}, "plain")

DiskMethods ==
  Methods({"DiskCreate", "DiskGet"}, "typed")
  @@ Methods({"DiskDelete", "DiskReplicaInstanceList", "DiskReplicaInstanceDelete"}, "checked")

ClientMethods ==
  VolumeMethods @@ VolumeSettingMethods @@ SnapshotMethods @@ SnapshotCloneMethods
  @@ SnapshotPurgeMethods @@ SnapshotHashMethods @@ ReplicaMethods @@ ReplicaChangeMethods
  @@ BackupMethods @@ RestoreMethods @@ BackingImageMethods @@ ProxyMethods
  @@ InstanceMethods @@ InstanceChangeMethods @@ LogMethods @@ DiskMethods
-----------------------------------------------------------------------------
(* getDataEngine: every name that does not end in v2 stands for V1, so     *)
(* that no name is refused for its data engine.                            *)
DataEngine(name) == IF name = "v2" THEN "v2" ELSE "v1"

(* Mutant: a disk of an unknown type is a block device.                    *)
DiskTypeValueBlock(name) == IF name = "filesystem" THEN "filesystem" ELSE "block"

(* rpc.DiskType_value: a type that is not in the map has the value 0.      *)
DiskTypeValue(name) == IF name = "block" THEN "block" ELSE "filesystem"
=============================================================================
