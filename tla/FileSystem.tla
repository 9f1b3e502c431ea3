----------------------------- MODULE FileSystem -----------------------------
(***************************************************************************)
(* xe::kernel::fs::FileSystem (src/xenia/kernel/fs/filesystem.cc): the     *)
(* registered devices (the vector devices_, in registration order), the    *)
(* symbolic links (the map symlinks_ from a drive name to a device path),  *)
(* the mount performed by InitializeFromPath, and the path resolution of   *)
(* ResolvePath.  Each public method runs to completion on its caller's     *)
(* thread, so it is one action.                                            *)
(*                                                                          *)
(* A guest path is abstracted to its drive (the part a link name can be a  *)
(* prefix of) and a device path to a name; no device path is a prefix of  *)
(* another, as for "\Device\Cdrom0" and "\Device\Harddisk1\Partition0", so *)
(* a device path is a prefix of a link's target exactly when it is that    *)
(* target.  A device is identified by the order it was allocated in.       *)
(***************************************************************************)
EXTENDS Naturals, Sequences, FiniteSets, FiniteSetsExt

CONSTANTS
  LinkNames,    \* drive names a symbolic link can have ("game:", "d:", ...)
  Game,         \* "game:"
  DriveD,       \* "d:"
  Root,         \* a path starting with '\', resolved module-relative
  CaseFold,     \* [LinkNames -> LinkNames]: the name with case folded
  DevicePaths,  \* device paths devices are registered under
  Cdrom0,       \* "\Device\Cdrom0"
  Harddisk1,    \* "\Device\Harddisk1\Partition0"
  MaxDevices    \* bound on the devices allocated

ASSUME FileSystemAssumption ==
  /\ {Game, DriveD} \subseteq LinkNames
  /\ Root \notin LinkNames
  /\ CaseFold \in [LinkNames -> LinkNames]
  /\ {Cdrom0, Harddisk1} \subseteq DevicePaths
  /\ MaxDevices \in Nat

\* FileSystemType.
Types == {"STFS_TITLE", "XEX_FILE", "DISC_IMAGE"}

\* The drives of the guest paths ResolvePath is asked about.
Drives == LinkNames \cup {Root}

VARIABLES
  devices,    \* devices_: <<[path, id]>> in registration order
  symlinks,   \* symlinks_: a function from link names to device paths
  allocated,  \* Device objects allocated with new so far
  freed,      \* ids of the Device objects deleted
  alive,      \* the FileSystem object has not been destroyed
  mounted     \* history: the device the last successful mount registered

vars == <<devices, symlinks, allocated, freed, alive, mounted>>

\* The ids of the registered devices.
Registered == {devices[i].id : i \in 1 .. Len(devices)}

-----------------------------------------------------------------------------
(* Devices.                                                                *)

\* A device numbered before the count of allocated devices is advanced.
NextIdStale == allocated

\* The next device allocated by new.
NextId == allocated + 1

\* RegisterDevice: devices_.push_back(device).
RegisterDevice(p) == devices' = Append(devices, [path |-> p, id |-> NextId])

\* RegisterDiscImageDevice / RegisterSTFSContainerDevice: the device is
\* allocated, then registered when its Init() succeeds; when Init() fails
\* the method returns 1 and the device is neither registered nor deleted.
\* ok is Init()'s outcome.  RegisterHostPathDevice passes ok = TRUE.
NewDevice(p, ok) ==
  /\ allocated < MaxDevices
  /\ allocated' = NextId
  /\ IF ok THEN RegisterDevice(p) ELSE UNCHANGED devices

-----------------------------------------------------------------------------
(* Symbolic links.                                                         *)

\* symlinks_.insert({path, target}): a link whose name is already present
\* is left as it is.
CreateLink(f, k, t) ==
  IF k \in DOMAIN f THEN f ELSE [x \in DOMAIN f \cup {k} |-> IF x = k THEN t ELSE f[x]]

-----------------------------------------------------------------------------
(* Path resolution (ResolvePath, lines 151-184).                           *)

\* A path starting with '\' is made relative to "game:".
Normalized(d) == IF d = Root THEN Game ELSE d

\* The device paths the link lookup can produce: symlinks_ is iterated in
\* an unspecified order and the first link that is a case-insensitive
\* prefix of the path wins.  With no matching link the path keeps its drive
\* and names no device (none is returned).
Targets(d) ==
  LET m == {k \in DOMAIN symlinks : CaseFold[k] = CaseFold[Normalized(d)]}
  IN  IF m = {} THEN {} ELSE {symlinks[k] : k \in m}

\* The device the scan of devices_ finds for a target: the first
\* registered under that path (0: nullptr).
DeviceFor(t) ==
  LET i == {j \in 1 .. Len(devices) : devices[j].path = t}
  IN  IF i = {} THEN 0 ELSE devices[Min(i)].id

\* The devices ResolvePath may pass a path on drive d to (0: nullptr).
Resolve(d) ==
  IF Targets(d) = {} THEN {0} ELSE {DeviceFor(t) : t \in Targets(d)}

-----------------------------------------------------------------------------
(* Operations.                                                             *)

\* RegisterHostPathDevice: always registers.
RegisterHostPathDevice ==
  /\ alive
  /\ \E p \in DevicePaths : NewDevice(p, TRUE)
  /\ UNCHANGED <<symlinks, freed, alive, mounted>>

\* RegisterDiscImageDevice and RegisterSTFSContainerDevice.
RegisterContainerDevice ==
  /\ alive
  /\ \E p \in DevicePaths, ok \in BOOLEAN : NewDevice(p, ok)
  /\ UNCHANGED <<symlinks, freed, alive, mounted>>

\* The device path InitializeFromPath mounts a container of each type at.
MountPath(type) == IF type = "XEX_FILE" THEN Harddisk1 ELSE Cdrom0

\* InitializeFromPath: register the container (a host directory always
\* succeeds; a disc image or STFS container may fail its Init()), then
\* CreateSymbolicLink("game:", ...) and CreateSymbolicLink("d:", ...).
InitializeFromPath ==
  /\ alive
  /\ \E type \in Types, ok \in BOOLEAN :
       /\ type = "XEX_FILE" => ok
       /\ NewDevice(MountPath(type), ok)
       /\ IF ok
            THEN /\ symlinks' = CreateLink(CreateLink(symlinks, Game, MountPath(type)),
                                           DriveD, MountPath(type))
                 /\ mounted' = NextId
            ELSE UNCHANGED <<symlinks, mounted>>
  /\ UNCHANGED <<freed, alive>>

\* CreateSymbolicLink(path, target), called by the kernel.
CreateSymbolicLink ==
  /\ alive
  /\ \E k \in LinkNames, t \in DevicePaths : symlinks' = CreateLink(symlinks, k, t)
  /\ UNCHANGED <<devices, allocated, freed, alive, mounted>>

\* DeleteSymbolicLink(path): returns 1, changing nothing, for an unknown
\* name; else erases the link.
DeleteSymbolicLink ==
  /\ alive
  /\ \E k \in DOMAIN symlinks :
       symlinks' = [x \in DOMAIN symlinks \ {k} |-> symlinks[x]]
  /\ UNCHANGED <<devices, allocated, freed, alive, mounted>>

\* ~FileSystem(): delete every registered device, clear both containers.
Destroy ==
  /\ alive
  /\ freed' = freed \cup Registered
  /\ devices' = <<>>
  /\ symlinks' = <<>>
  /\ alive' = FALSE
  /\ UNCHANGED <<allocated, mounted>>

Init ==
  /\ devices = <<>>
  /\ symlinks = <<>>
  /\ allocated = 0
  /\ freed = {}
  /\ alive = TRUE
  /\ mounted = 0

Next ==
  \/ RegisterHostPathDevice \/ RegisterContainerDevice
  \/ InitializeFromPath
  \/ CreateSymbolicLink \/ DeleteSymbolicLink
  \/ Destroy

Spec == Init /\ [][Next]_vars

-----------------------------------------------------------------------------
(* Properties.                                                             *)

\* Every variable holds a value of its type.
TypeOK ==
  /\ devices \in Seq([path : DevicePaths, id : 1 .. MaxDevices])
  /\ DOMAIN symlinks \subseteq LinkNames
  /\ \A k \in DOMAIN symlinks : symlinks[k] \in DevicePaths
  /\ allocated \in 0 .. MaxDevices
  /\ freed \subseteq 1 .. MaxDevices
  /\ alive \in BOOLEAN
  /\ mounted \in 0 .. MaxDevices

\* Every Device object in devices_ was allocated by the new of the
\* Register* method that pushed it, so the destructor's loop (lines 27-30)
\* deletes each registered device exactly once, and ResolvePath (line 178)
\* never hands a path to a device that was deleted: the devices in
\* devices_ are pairwise distinct objects and none of them is freed.
DevicesOwnedOnce ==
  /\ \A i, j \in 1 .. Len(devices) : devices[i].id = devices[j].id => i = j
  /\ Registered \cap freed = {}

\* The strengthening DevicesOwnedOnce rests on: a registered device was
\* allocated (its id is at most the count), nothing is freed before the
\* destructor, and the destructor leaves devices_ empty.
IdsBelow == \A i \in 1 .. Len(devices) : devices[i].id <= allocated

OwnedInv ==
  /\ IdsBelow
  /\ alive => freed = {}
  /\ ~alive => devices = <<>>

-----------------------------------------------------------------------------
(* What the comments say and the code does not do (each checked alone).   *)

\* "Create symlinks to the device" (lines 66, 84, 97): after a successful
\* InitializeFromPath, game: resolves to the device it just registered.
MountResolvesGame == mounted # 0 /\ alive => Resolve(Game) = {mounted}

\* "Delete all devices" (line 25): every Device allocated is owned by the
\* file system, registered until the destructor deletes it; a container
\* whose Init() failed is neither.
NoDeviceLeak == \A i \in 1 .. allocated : i \in Registered \cup freed

=============================================================================
