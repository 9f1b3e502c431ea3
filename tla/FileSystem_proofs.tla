-------------------------- MODULE FileSystem_proofs --------------------------
(***************************************************************************)
(* Proofs, for every set of link names and device paths and every bound on *)
(* the devices, of what the run fs_safety checks on a small instance: the  *)
(* state is well typed, and the destructor deletes each registered device  *)
(* once and ResolvePath only reaches devices not deleted                   *)
(* (DevicesOwnedOnce).                                                     *)
(***************************************************************************)
EXTENDS FileSystem, TLAPS, SequenceTheorems

-----------------------------------------------------------------------------
(* symlinks_.insert.                                                       *)

\* CreateLink adds the name when it is absent and changes no existing link.
LEMMA CreateLinkKeeps ==
  ASSUME NEW f, NEW k, NEW t
  PROVE  /\ DOMAIN CreateLink(f, k, t) = DOMAIN f \cup {k}
         /\ \A x \in DOMAIN f : CreateLink(f, k, t)[x] = f[x]
         /\ k \notin DOMAIN f => CreateLink(f, k, t)[k] = t
BY DEF CreateLink

\* CreateLink keeps the links' names and targets in their sets.
LEMMA CreateLinkType ==
  ASSUME NEW f, DOMAIN f \subseteq LinkNames,
         \A x \in DOMAIN f : f[x] \in DevicePaths,
         NEW k \in LinkNames, NEW t \in DevicePaths
  PROVE  /\ DOMAIN CreateLink(f, k, t) \subseteq LinkNames
         /\ \A x \in DOMAIN CreateLink(f, k, t) : CreateLink(f, k, t)[x] \in DevicePaths
<1>1. CASE k \in DOMAIN f
  BY <1>1 DEF CreateLink
<1>2. CASE k \notin DOMAIN f
  BY <1>2 DEF CreateLink
<1>3. QED
  BY <1>1, <1>2

-----------------------------------------------------------------------------
(* Type correctness.                                                       *)

\* A new device has an id within the bound.
LEMMA NewDeviceType ==
  ASSUME TypeOK, NEW p \in DevicePaths, NEW ok \in BOOLEAN, NewDevice(p, ok)
  PROVE  /\ devices' \in Seq([path : DevicePaths, id : 1 .. MaxDevices])
         /\ allocated' \in 0 .. MaxDevices
         /\ NextId \in 1 .. MaxDevices
<1>1. NextId \in 1 .. MaxDevices
  BY FileSystemAssumption DEF NewDevice, NextId, TypeOK
<1>2. [path |-> p, id |-> NextId] \in [path : DevicePaths, id : 1 .. MaxDevices]
  BY <1>1
<1>3. allocated' \in 0 .. MaxDevices
  BY <1>1 DEF NewDevice
<1>4. CASE ok
  <2>1. devices' = Append(devices, [path |-> p, id |-> NextId])
    BY <1>4 DEF NewDevice, RegisterDevice
  <2>2. QED
    BY <1>1, <1>2, <1>3, <2>1, AppendProperties DEF TypeOK
<1>5. CASE ~ok
  BY <1>1, <1>3, <1>5 DEF NewDevice, TypeOK
<1>6. QED
  BY <1>4, <1>5

\* The ids of the registered devices are within the bound.
LEMMA RegisteredType ==
  ASSUME TypeOK PROVE Registered \subseteq 1 .. MaxDevices
<1>1. \A i \in 1 .. Len(devices) :
        devices[i] \in [path : DevicePaths, id : 1 .. MaxDevices]
  BY ElementOfSeq DEF TypeOK
<1>2. QED
  BY <1>1 DEF Registered

\* No step leaves the types.
LEMMA TypeStep == TypeOK /\ [Next]_vars => TypeOK'
<1> SUFFICES ASSUME TypeOK, [Next]_vars PROVE TypeOK'
  OBVIOUS
<1>1. CASE RegisterHostPathDevice \/ RegisterContainerDevice
  BY <1>1, NewDeviceType DEF RegisterHostPathDevice, RegisterContainerDevice,
                             TypeOK
<1>2. CASE InitializeFromPath
  <2>1. PICK type \in Types, ok \in BOOLEAN :
          /\ type = "XEX_FILE" => ok
          /\ NewDevice(MountPath(type), ok)
          /\ IF ok
               THEN /\ symlinks' = CreateLink(CreateLink(symlinks, Game, MountPath(type)),
                                              DriveD, MountPath(type))
                    /\ mounted' = NextId
               ELSE UNCHANGED <<symlinks, mounted>>
    BY <1>2 DEF InitializeFromPath
  <2>2. MountPath(type) \in DevicePaths
    BY FileSystemAssumption DEF MountPath
  <2>3. /\ DOMAIN symlinks' \subseteq LinkNames
        /\ \A k \in DOMAIN symlinks' : symlinks'[k] \in DevicePaths
    <3>1. CASE ok
      <4>1. /\ DOMAIN CreateLink(symlinks, Game, MountPath(type)) \subseteq LinkNames
            /\ \A x \in DOMAIN CreateLink(symlinks, Game, MountPath(type)) :
                 CreateLink(symlinks, Game, MountPath(type))[x] \in DevicePaths
        BY <2>2, CreateLinkType, FileSystemAssumption DEF TypeOK
      <4>2. QED
        BY <2>1, <2>2, <3>1, <4>1, CreateLinkType, FileSystemAssumption
    <3>2. CASE ~ok
      BY <2>1, <3>2 DEF TypeOK
    <3>3. QED
      BY <3>1, <3>2
  <2>4. mounted' \in 0 .. MaxDevices
    BY <2>1, <2>2, NewDeviceType DEF TypeOK
  <2>5. QED
    BY <1>2, <2>1, <2>2, <2>3, <2>4, NewDeviceType DEF InitializeFromPath, TypeOK
<1>3. CASE CreateSymbolicLink
  BY <1>3, CreateLinkType DEF CreateSymbolicLink, TypeOK
<1>4. CASE DeleteSymbolicLink
  BY <1>4 DEF DeleteSymbolicLink, TypeOK
<1>5. CASE Destroy
  <2>1. <<>> \in Seq([path : DevicePaths, id : 1 .. MaxDevices])
    BY EmptySeq
  <2>2. DOMAIN symlinks' = {} /\ devices' = <<>>
    BY <1>5 DEF Destroy
  <2>3. freed' \subseteq 1 .. MaxDevices
    BY <1>5, RegisteredType DEF Destroy, TypeOK
  <2>4. alive' \in BOOLEAN /\ UNCHANGED <<allocated, mounted>>
    BY <1>5, Zenon DEF Destroy
  <2>5. QED
    BY <2>1, <2>2, <2>3, <2>4 DEF TypeOK
<1>6. CASE UNCHANGED vars
  BY <1>6 DEF vars, TypeOK
<1>7. QED
  BY <1>1, <1>2, <1>3, <1>4, <1>5, <1>6 DEF Next

\* Every reachable state is well typed.
THEOREM TypeCorrect == Spec => []TypeOK
<1>1. Init => TypeOK
  BY FileSystemAssumption DEF Init, TypeOK
<1>2. QED
  BY <1>1, TypeStep, PTL DEF Spec

-----------------------------------------------------------------------------
(* Ownership of the devices.                                               *)

\* The elements of devices_ are records of a path and an id.
LEMMA DevicesElems ==
  ASSUME TypeOK
  PROVE  \A i \in 1 .. Len(devices) :
           devices[i] \in [path : DevicePaths, id : 1 .. MaxDevices]
BY ElementOfSeq DEF TypeOK

\* No Device object occurs twice in devices_.
Distinct == \A i, j \in 1 .. Len(devices) : devices[i].id = devices[j].id => i = j

\* The inductive invariant: DevicesOwnedOnce strengthened by the facts that
\* every registered device was allocated, that nothing is freed before the
\* destructor, and that the destructor leaves devices_ empty.
IInv == TypeOK /\ OwnedInv /\ Distinct

\* A new device gets the id allocated + 1, above every registered one, so
\* its push_back keeps the devices distinct.
LEMMA NewDeviceOwned ==
  ASSUME TypeOK, IdsBelow, Distinct,
         NEW p \in DevicePaths, NEW ok \in BOOLEAN, NewDevice(p, ok)
  PROVE  IdsBelow' /\ Distinct'
<1>0. \A i \in 1 .. Len(devices) : devices[i].id \in Nat
  BY DevicesElems
<1>1. allocated' = allocated + 1 /\ allocated \in Nat /\ Len(devices) \in Nat
  BY DEF NewDevice, NextId, TypeOK
<1>2. CASE ok
  <2>1. devices' = Append(devices, [path |-> p, id |-> allocated + 1])
    BY <1>2 DEF NewDevice, RegisterDevice, NextId
  <2>2. /\ Len(devices') = Len(devices) + 1
        /\ \A i \in 1 .. Len(devices) : devices'[i] = devices[i]
        /\ devices'[Len(devices) + 1].id = allocated + 1
    BY <2>1, AppendProperties DEF TypeOK
  <2>3. IdsBelow'
    BY <1>0, <1>1, <2>2 DEF IdsBelow
  <2>4. Distinct'
    <3> SUFFICES ASSUME NEW i \in 1 .. Len(devices'), NEW j \in 1 .. Len(devices'),
                        devices'[i].id = devices'[j].id
                 PROVE  i = j
      BY DEF Distinct
    <3>1. CASE i \in 1 .. Len(devices) /\ j \in 1 .. Len(devices)
      BY <2>2, <3>1 DEF Distinct
    <3>2. CASE i = Len(devices) + 1 /\ j \in 1 .. Len(devices)
      BY <1>0, <1>1, <2>2, <3>2 DEF IdsBelow
    <3>3. CASE i \in 1 .. Len(devices) /\ j = Len(devices) + 1
      BY <1>0, <1>1, <2>2, <3>3 DEF IdsBelow
    <3>4. CASE i = Len(devices) + 1 /\ j = Len(devices) + 1
      BY <3>4
    <3>5. QED
      BY <1>1, <2>2, <3>1, <3>2, <3>3, <3>4
  <2>5. QED
    BY <2>3, <2>4
<1>3. CASE ~ok
  BY <1>0, <1>1, <1>3 DEF NewDevice, IdsBelow, Distinct
<1>4. QED
  BY <1>2, <1>3

\* No step leaves the inductive invariant.
LEMMA OwnedStep == IInv /\ [Next]_vars => IInv'
<1> SUFFICES ASSUME IInv, [Next]_vars PROVE IInv'
  OBVIOUS
<1>1. TypeOK'
  BY TypeStep DEF IInv
<1>2. ASSUME NEW p \in DevicePaths, NEW ok \in BOOLEAN, NewDevice(p, ok),
             alive, UNCHANGED <<freed, alive>>
      PROVE  IInv'
  <2>1. IdsBelow' /\ Distinct'
    BY <1>2, NewDeviceOwned DEF IInv, OwnedInv
  <2>2. alive' => freed' = {}
    BY <1>2 DEF IInv, OwnedInv
  <2>3. ~alive' => devices' = <<>>
    BY <1>2
  <2>4. QED
    BY <1>1, <2>1, <2>2, <2>3 DEF IInv, OwnedInv
<1>3. CASE RegisterHostPathDevice \/ RegisterContainerDevice
  BY <1>2, <1>3 DEF RegisterHostPathDevice, RegisterContainerDevice
<1>4. CASE InitializeFromPath
  <2>1. PICK type \in Types, ok \in BOOLEAN : NewDevice(MountPath(type), ok)
    BY <1>4 DEF InitializeFromPath
  <2>2. MountPath(type) \in DevicePaths
    BY FileSystemAssumption DEF MountPath
  <2>3. alive /\ UNCHANGED <<freed, alive>>
    BY <1>4 DEF InitializeFromPath
  <2>4. QED
    BY <1>2, <2>1, <2>2, <2>3
<1>5. CASE CreateSymbolicLink \/ DeleteSymbolicLink \/ UNCHANGED vars
  BY <1>1, <1>5 DEF CreateSymbolicLink, DeleteSymbolicLink, vars, IInv, OwnedInv,
                    IdsBelow, Distinct
<1>6. CASE Destroy
  <2>1. devices' = <<>> /\ alive' = FALSE
    BY <1>6 DEF Destroy
  <2>2. Len(devices') = 0
    BY <2>1
  <2>3. QED
    BY <1>1, <2>1, <2>2 DEF IInv, OwnedInv, IdsBelow, Distinct
<1>7. QED
  BY <1>3, <1>4, <1>5, <1>6 DEF Next

\* Every Device object in devices_ is there once and has not been deleted,
\* so the destructor's loop deletes each registered device exactly once and
\* ResolvePath never passes a path to a deleted device.
THEOREM DevicesOwnedOnceHolds == Spec => []DevicesOwnedOnce
<1>1. Init => IInv
  BY FileSystemAssumption DEF Init, IInv, TypeOK, OwnedInv, IdsBelow, Distinct
<1>2. IInv => DevicesOwnedOnce
  <2> SUFFICES ASSUME IInv PROVE DevicesOwnedOnce
    OBVIOUS
  <2>1. Registered \cap freed = {}
    <3>1. CASE alive
      BY <3>1 DEF IInv, OwnedInv
    <3>2. CASE ~alive
      <4>1. devices = <<>>
        BY <3>2 DEF IInv, OwnedInv
      <4>2. QED
        BY <4>1 DEF Registered
    <3>3. QED
      BY <3>1, <3>2
  <2>2. QED
    BY <2>1 DEF IInv, Distinct, DevicesOwnedOnce
<1>3. QED
  BY <1>1, <1>2, OwnedStep, PTL DEF Spec

=============================================================================
