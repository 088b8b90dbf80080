-------------------------- MODULE VusbDeviceTable --------------------------
(***************************************************************************)
(* The table of virtual USB devices kept by the kernel driver              *)
(* (driver/vusb_device.c): an array of VUSB_MAX_DEVICES slots and a count, *)
(* both guarded by DeviceListLock.  A device's id is its slot number plus  *)
(* one, so ids are REUSED after an unplug.  `plugs' is a history variable: *)
(* it numbers the successful creations, so that properties can tell two    *)
(* devices apart that had the same id.                                     *)
(***************************************************************************)
EXTENDS Naturals, FiniteSets

CONSTANTS MaxDevices,  \* VUSB_MAX_DEVICES (16), also DeviceContext->MaxDevices
          MaxPlugs     \* bound of the model: number of creations

ASSUME TableAssumption == /\ MaxDevices \in Nat \ {0}
                          /\ MaxPlugs \in Nat

VARIABLES Devices,      \* DeviceContext->Devices[], indexed by id = slot + 1
          DeviceCount,  \* DeviceContext->DeviceCount
          plugs         \* history: successful creations so far

tableVars == <<Devices, DeviceCount, plugs>>

DeviceIds == 1..MaxDevices

\* The only states the driver ever assigns to a present device.
DeviceStates == {"ATTACHED", "DEFAULT"}

\* A NULL slot of the array.
NoDevice == [plug |-> 0, State |-> "DISCONNECTED", UrbsCompleted |-> 0, UrbsError |-> 0]

\* A device as VusbCreateVirtualDevice fills it in; the rest is zeroed.
NewDevice(p) == [plug |-> p, State |-> "ATTACHED", UrbsCompleted |-> 0, UrbsError |-> 0]

DeviceType == [plug: Nat, State: DeviceStates \cup {"DISCONNECTED"},
               UrbsCompleted: Nat, UrbsError: Nat]

Present(id) == id \in DeviceIds /\ Devices[id].plug # 0

Occupied == {id \in DeviceIds : Present(id)}
FreeIds == DeviceIds \ Occupied

TableInit ==
    /\ Devices = [id \in DeviceIds |-> NoDevice]
    /\ DeviceCount = 0
    /\ plugs = 0

----------------------------------------------------------------------------
(***************************************************************************)
(* The first-fit search of VusbCreateVirtualDevice: the lowest free slot.  *)
(***************************************************************************)
FirstFit(id) == id \in FreeIds /\ \A other \in FreeIds : id <= other

\* A faulty variant: the count is not incremented.
CreateWithoutCount(id) ==
    \/ /\ DeviceCount < MaxDevices
       /\ plugs < MaxPlugs
       /\ FirstFit(id)
       /\ Devices' = [Devices EXCEPT ![id] = NewDevice(plugs + 1)]
       /\ plugs' = plugs + 1
       /\ UNCHANGED DeviceCount
    \/ /\ id = 0
       /\ UNCHANGED tableVars

(***************************************************************************)
(* VusbCreateVirtualDevice with *DeviceId = id on return.  id = 0 is every *)
(* failure: the pool allocations may fail at any time, and the table may   *)
(* be full (STATUS_TOO_MANY_NODES).                                        *)
(***************************************************************************)
VusbCreateVirtualDevice(id) ==
    \/ /\ DeviceCount < MaxDevices
       /\ plugs < MaxPlugs
       /\ FirstFit(id)
       /\ Devices' = [Devices EXCEPT ![id] = NewDevice(plugs + 1)]
       /\ DeviceCount' = DeviceCount + 1
       /\ plugs' = plugs + 1
    \/ /\ id = 0
       /\ UNCHANGED tableVars

\* A faulty variant: no check for an empty slot.
DestroyWithoutNullCheck(id) ==
    \/ /\ id \in DeviceIds
       /\ Devices' = [Devices EXCEPT ![id] = NoDevice]
       /\ DeviceCount' = DeviceCount - 1
       /\ UNCHANGED plugs
    \/ /\ id \notin DeviceIds
       /\ UNCHANGED tableVars

(***************************************************************************)
(* VusbDestroyVirtualDevice: STATUS_INVALID_PARAMETER for an id out of     *)
(* range and STATUS_DEVICE_NOT_CONNECTED for an empty slot change nothing. *)
(***************************************************************************)
VusbDestroyVirtualDevice(id) ==
    \/ /\ Present(id)
       /\ Devices' = [Devices EXCEPT ![id] = NoDevice]
       /\ DeviceCount' = DeviceCount - 1
       /\ UNCHANGED plugs
    \/ /\ ~Present(id)
       /\ UNCHANGED tableVars

(***************************************************************************)
(* VusbCleanupAllDevices: VusbDestroyVirtualDevice for every id in turn,   *)
(* so the count drops by the number of devices found.                      *)
(***************************************************************************)
VusbCleanupAllDevices ==
    /\ Devices' = [id \in DeviceIds |-> NoDevice]
    /\ DeviceCount' = DeviceCount - Cardinality(Occupied)
    /\ UNCHANGED plugs

----------------------------------------------------------------------------
TableTypeOK ==
    /\ Devices \in [DeviceIds -> DeviceType]
    /\ DeviceCount \in 0..MaxDevices
    /\ plugs \in Nat

(***************************************************************************)
(* DeviceCount, the limit check of VusbCreateVirtualDevice, and the array  *)
(* always agree.  This is why the search below the check "shouldn't" fail  *)
(* (vusb_device.c:93) and why the unsigned count never wraps below zero.   *)
(***************************************************************************)
CountMatchesSlots == DeviceCount = Cardinality(Occupied)
=============================================================================
