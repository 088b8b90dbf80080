-------------------------- MODULE VusbDescriptors --------------------------
(***************************************************************************)
(* The way of a device's descriptors: read from the real device by the     *)
(* Windows client (client/vusb_capture.c), sent with the attach request    *)
(* (vusb_client_enhanced.c), kept by the server or the driver, and         *)
(* searched there when the host asks for a descriptor.                     *)
(*                                                                         *)
(* The interactive thread scans, shows and attaches devices; the receive   *)
(* thread opens a device when a URB names it (which device that is, see    *)
(* VusbClient, is any choice).  Opening is one step here; VusbClient takes *)
(* it apart.  A descriptor is a record; its bytes matter only as lengths.  *)
(***************************************************************************)
EXTENDS Naturals, FiniteSets, Sequences

CONSTANTS Real,           \* real devices, known by their device paths
          Configs,        \* the configurations real devices may have
          MaxSlots,       \* MAX_USB_DEVICES
          MaxInterfaces,  \* MAX_USB_INTERFACES
          MaxEndpoints,   \* MAX_USB_ENDPOINTS
          MaxCommands,    \* bound of the model: commands typed
          MaxBusEvents    \* bound of the model: devices plugged and unplugged

VARIABLES bus,          \* the real devices present
          kind,         \* vendor and product id of each real device
          config,       \* its configuration, behind the configuration header
          Devices,      \* ctx->Devices[]
          NextLocalId,  \* ctx->NextLocalId
          DeviceCount,  \* ctx->DeviceCount
          command,      \* what the interactive thread executes
          ipc,          \* where it is in that
          slot,         \* the device it is working on
          todo,         \* device interfaces the enumeration has not come to yet
          sent,         \* the descriptors of the attach requests, by device
          commands,     \* history: commands typed
          events        \* history: devices plugged and unplugged

busVars == <<bus, kind, config, events>>
scanVars == <<NextLocalId, DeviceCount, todo>>
vars == <<busVars, Devices, scanVars, command, ipc, slot, sent, commands>>

Slots == 1..MaxSlots
Kinds == {"mouse", "disk"}
MaxLocalId == MaxSlots + 1

----------------------------------------------------------------------------
(* Descriptors.                                                            *)

\* id: number of an interface, address of an endpoint.  alt, eps:
\* bAlternateSetting and bNumEndpoints of an interface.
Descriptor == [type: {"DEVICE", "CONFIGURATION", "INTERFACE", "ENDPOINT", "CLASS"},
               id: Nat, alt: Nat, eps: Nat]

ASSUME DescriptorAssumption ==
    /\ IsFiniteSet(Real)
    /\ Configs \subseteq Seq(Descriptor)
    /\ {MaxSlots, MaxInterfaces, MaxEndpoints} \subseteq Nat \ {0}
    /\ {MaxCommands, MaxBusEvents} \subseteq Nat

DeviceDescriptor == [type |-> "DEVICE", id |-> 0, alt |-> 0, eps |-> 0]
ConfigurationDescriptor == [type |-> "CONFIGURATION", id |-> 0, alt |-> 0, eps |-> 0]

\* bLength
Size(d) == IF d.type = "DEVICE" THEN 18 ELSE IF d.type = "ENDPOINT" THEN 7 ELSE 9

----------------------------------------------------------------------------
(* The captured devices.                                                   *)

\* The interface table before anything is parsed: zeros.
NoInterfaces == [n \in 0..(MaxInterfaces - 1) |->
                    [AlternateSetting |-> 0, NumEndpoints |-> 0,
                     Endpoints |-> [k \in 1..MaxEndpoints |-> 0]]]

InterfaceType == [AlternateSetting: Nat, NumEndpoints: Nat, Endpoints: [1..MaxEndpoints -> Nat]]

\* A device as the enumeration enters it.  info: was DeviceInfo.DeviceId set?
\* openedBy, failed: history, who opened it and whether a read has failed.
NewDevice(r, id) ==
    [Active |-> TRUE, path |-> r, LocalId |-> id, Opened |-> FALSE, info |-> FALSE,
     Interfaces |-> NoInterfaces, parsed |-> FALSE, Descriptors |-> <<>>,
     openedBy |-> "nobody", failed |-> FALSE]

\* A slot that is not in use: zeros.
NoPath == "none"
NoSlot == [NewDevice(NoPath, 0) EXCEPT !.Active = FALSE]

Active(i) == Devices[i].Active

Init ==
    /\ bus \in SUBSET Real
    /\ kind \in [Real -> Kinds]
    /\ config \in [Real -> Configs]
    /\ Devices = [i \in Slots |-> NoSlot]
    /\ NextLocalId = 1
    /\ DeviceCount = 0
    /\ command = "none"
    /\ ipc = "prompt"
    /\ slot = 1
    /\ todo = {}
    /\ sent = [i \in Slots |-> {}]
    /\ commands = 0
    /\ events = 0

\* A device is plugged into or pulled from the client's machine (external).
BusEvent(r) ==
    /\ events < MaxBusEvents
    /\ events' = events + 1
    /\ bus' = IF r \in bus THEN bus \ {r} ELSE bus \cup {r}
    /\ UNCHANGED <<kind, config, Devices, scanVars, command, ipc, slot, sent, commands>>

----------------------------------------------------------------------------
(* UsbCaptureRefreshDevices: enumerate, then open and read every device.   *)

\* Bound: SetupDi and malloc() succeed; a device whose path cannot be parsed is
\* one that is not on the bus.
Scan ==
    /\ ipc = "prompt"
    /\ commands < MaxCommands
    /\ commands' = commands + 1
    /\ command' = "scan"
    /\ ipc' = "enumerate"
    /\ todo' = bus
    /\ UNCHANGED <<busVars, Devices, NextLocalId, DeviceCount, slot, sent>>

\* UsbCaptureFindDeviceByVidPid
FindDeviceByVidPid(r) == {i \in Slots : Active(i) /\ kind[Devices[i].path] = kind[r]}

\* A faulty variant: without "Check if device already exists".
EnumerateAlways(r) ==
    /\ ipc = "enumerate"
    /\ r \in todo
    /\ todo' = todo \ {r}
    /\ IF DeviceCount < MaxSlots
       THEN \E i \in Slots :
               /\ ~Active(i)
               /\ \A j \in Slots : ~Active(j) => i <= j
               /\ Devices' = [Devices EXCEPT ![i] = NewDevice(r, NextLocalId)]
               /\ NextLocalId' = NextLocalId + 1
               /\ DeviceCount' = DeviceCount + 1
       ELSE UNCHANGED <<Devices, NextLocalId, DeviceCount>>
    /\ UNCHANGED <<busVars, command, ipc, slot, sent, commands>>

\* One round of the enumeration: a device whose ids are new gets the first
\* free slot, as long as there is one.
Enumerate(r) ==
    /\ ipc = "enumerate"
    /\ r \in todo
    /\ todo' = todo \ {r}
    /\ IF FindDeviceByVidPid(r) = {} /\ DeviceCount < MaxSlots
       THEN \E i \in Slots :
               /\ ~Active(i)
               /\ \A j \in Slots : ~Active(j) => i <= j
               /\ Devices' = [Devices EXCEPT ![i] = NewDevice(r, NextLocalId)]
               /\ NextLocalId' = NextLocalId + 1
               /\ DeviceCount' = DeviceCount + 1
       ELSE UNCHANGED <<Devices, NextLocalId, DeviceCount>>
    /\ UNCHANGED <<busVars, command, ipc, slot, sent, commands>>

EnumerationEnds ==
    /\ ipc = "enumerate"
    /\ todo = {}
    /\ ipc' = "refresh"
    /\ slot' = 1
    /\ UNCHANGED <<busVars, Devices, scanVars, command, sent, commands>>

\* UsbCaptureOpenDevice by a thread, which may always fail.
OpenOk(i, by) ==
    /\ ~Devices[i].Opened
    /\ Devices[i].path \in bus
    /\ Devices' = [Devices EXCEPT ![i].Opened = TRUE, ![i].openedBy = by]

\* A faulty variant: the loop goes to i <= MAX_USB_DEVICES.
RefreshPastEnd ==
    /\ ipc = "refresh"
    /\ slot <= MaxSlots + 1
    /\ \/ /\ slot <= MaxSlots
          /\ Active(slot)
          /\ OpenOk(slot, "user")
          /\ ipc' = "readDevice"
          /\ UNCHANGED slot
       \/ /\ slot' = slot + 1
          /\ UNCHANGED <<Devices, ipc>>
    /\ UNCHANGED <<busVars, scanVars, command, sent, commands>>

\* The next device of the refresh: opened and to be read, or passed over.
Refresh ==
    /\ ipc = "refresh"
    /\ slot <= MaxSlots
    /\ \/ /\ Active(slot)
          /\ OpenOk(slot, "user")
          /\ ipc' = "readDevice"
          /\ UNCHANGED slot
       \/ /\ slot' = slot + 1
          /\ UNCHANGED <<Devices, ipc>>
    /\ UNCHANGED <<busVars, scanVars, command, sent, commands>>

RefreshEnds ==
    /\ ipc = "refresh"
    /\ slot > MaxSlots
    /\ ipc' = "prompt"
    /\ command' = "none"
    /\ slot' = 1
    /\ UNCHANGED <<busVars, Devices, scanVars, sent, commands>>

----------------------------------------------------------------------------
(* The commands info and attach.                                           *)

\* They find the device and see whether it is open.
InfoOrAttach(cmd, i) ==
    /\ ipc = "prompt"
    /\ commands < MaxCommands
    /\ Active(i)
    /\ commands' = commands + 1
    /\ command' = cmd
    /\ slot' = i
    /\ ipc' = IF ~Devices[i].Opened THEN "open" ELSE IF cmd = "attach" THEN "send" ELSE "prompt"
    /\ UNCHANGED <<busVars, Devices, scanVars, sent>>

\* UsbCaptureOpenDevice: info reads the descriptors whatever it returns (but
\* UsbCaptureGetDescriptors looks at Opened), attach only when it succeeds.
OpenForCommand ==
    /\ ipc = "open"
    /\ \/ /\ OpenOk(slot, "user")
          /\ ipc' = "readDevice"
       \/ /\ ipc' = IF command = "info" /\ Devices[slot].Opened THEN "readDevice" ELSE "prompt"
          /\ UNCHANGED Devices
    /\ UNCHANGED <<busVars, scanVars, command, slot, sent, commands>>

\* Where UsbCaptureGetDescriptors returns to; nobody looks at its result.
AfterDescriptors ==
    IF command = "scan" THEN "refresh" ELSE IF command = "attach" THEN "send" ELSE "prompt"

\* ReadDeviceDescriptor fills in DeviceInfo.
ReadDeviceDescriptor ==
    /\ ipc = "readDevice"
    /\ \/ /\ Devices[slot].path \in bus
          /\ Devices' = [Devices EXCEPT ![slot].info = TRUE]
          /\ ipc' = "readConfig"
       \/ /\ Devices' = [Devices EXCEPT ![slot].failed = TRUE]
          /\ ipc' = AfterDescriptors
    /\ UNCHANGED <<busVars, scanVars, command, slot, sent, commands>>

\* A faulty variant: the endpoint index goes on counting.
ParseWithoutReset(acc, d) ==
    IF d.type = "INTERFACE" /\ d.id < MaxInterfaces
    THEN [current |-> d.id, endpoint |-> acc.endpoint,
          Interfaces |-> [acc.Interfaces EXCEPT ![d.id] =
                             [AlternateSetting |-> d.alt, NumEndpoints |-> d.eps,
                              Endpoints |-> @.Endpoints]]]
    ELSE IF d.type = "ENDPOINT" /\ acc.current < MaxInterfaces /\ acc.endpoint < MaxEndpoints
         THEN [current |-> acc.current, endpoint |-> acc.endpoint + 1,
               Interfaces |-> [acc.Interfaces EXCEPT
                                  ![acc.current].Endpoints[acc.endpoint + 1] = d.id]]
         ELSE acc

\* One round of the parsing loop, over the descriptors of a device that states
\* their lengths correctly (the loop stops at a length of 0 and skips an interface
\* or endpoint descriptor that is too short).  current: the interface that endpoints are
\* added to (MaxInterfaces: none yet), endpoint: the index of the next one.
ParseDescriptor(acc, d) ==
    IF d.type = "INTERFACE" /\ d.id < MaxInterfaces
    THEN [current |-> d.id, endpoint |-> 0,
          Interfaces |-> [acc.Interfaces EXCEPT ![d.id] =
                             [AlternateSetting |-> d.alt, NumEndpoints |-> d.eps,
                              Endpoints |-> @.Endpoints]]]
    ELSE IF d.type = "ENDPOINT" /\ acc.current < MaxInterfaces /\ acc.endpoint < MaxEndpoints
         THEN [current |-> acc.current, endpoint |-> acc.endpoint + 1,
               Interfaces |-> [acc.Interfaces EXCEPT
                                  ![acc.current].Endpoints[acc.endpoint + 1] = d.id]]
         ELSE acc

\* The loop over the descriptors, after each of its rounds ...
ParseLoop(interfaces, descriptors) ==
    LET parse[n \in 0..Len(descriptors)] ==
            IF n = 0
            THEN [current |-> MaxInterfaces, endpoint |-> 0, Interfaces |-> interfaces]
            ELSE ParseDescriptor(parse[n - 1], descriptors[n])
    IN parse

\* ... and what it leaves in the device's table.
ParseConfiguration(interfaces, descriptors) ==
    ParseLoop(interfaces, descriptors)[Len(descriptors)].Interfaces

\* ReadConfigDescriptor: the header, the whole, and the parsing.
ReadConfigDescriptor ==
    /\ ipc = "readConfig"
    /\ \/ /\ Devices[slot].path \in bus
          /\ Devices' = [Devices EXCEPT ![slot].parsed = TRUE,
                            ![slot].Interfaces = 
                ParseConfiguration(Devices[slot].Interfaces, config[Devices[slot].path])]
          /\ ipc' = "build"
       \/ /\ Devices' = [Devices EXCEPT ![slot].failed = TRUE]
          /\ ipc' = AfterDescriptors
    /\ UNCHANGED <<busVars, scanVars, command, slot, sent, commands>>

\* A faulty variant: the configuration is stored over the device descriptor.
BuildWithoutAdvance ==
    /\ ipc = "build"
    /\ Devices[slot].path \in bus
    /\ Devices' = [Devices EXCEPT ![slot].Descriptors =
                      <<ConfigurationDescriptor>> \o config[Devices[slot].path]]
    /\ ipc' = AfterDescriptors
    /\ UNCHANGED <<busVars, scanVars, command, slot, sent, commands>>

\* BuildDescriptorBuffer reads the configuration again and leaves it out when
\* that fails.  The configuration is taken to fit its buffer of 4096 bytes:
\* wTotalLength is not compared with it.
BuildDescriptorBuffer ==
    /\ ipc = "build"
    /\ \/ /\ Devices[slot].path \in bus
          /\ Devices' = [Devices EXCEPT ![slot].Descriptors =
                <<DeviceDescriptor, ConfigurationDescriptor>> \o config[Devices[slot].path]]
       \/ Devices' = [Devices EXCEPT ![slot].Descriptors = <<DeviceDescriptor>>,
                                     ![slot].failed = TRUE]
    /\ ipc' = AfterDescriptors
    /\ UNCHANGED <<busVars, scanVars, command, slot, sent, commands>>

\* AttachRealDevice sends what there is; the server keeps a copy.
SendAttach ==
    /\ ipc = "send"
    /\ sent' = [sent EXCEPT ![slot] = @ \cup {[info |-> Devices[slot].info,
                                               Descriptors |-> Devices[slot].Descriptors]}]
    /\ ipc' = "prompt"
    /\ UNCHANGED <<busVars, Devices, scanVars, command, slot, commands>>

\* ClientUrbProcess, "Make sure device is open"; it reads no descriptors.
OpenForUrb(i) ==
    /\ Active(i)
    /\ OpenOk(i, "urb")
    /\ UNCHANGED <<busVars, scanVars, command, ipc, slot, sent, commands>>

----------------------------------------------------------------------------
(* Requests for descriptors, at the driver and at the userspace server.    *)

\* The setup packet of URB_FUNCTION_GET_DESCRIPTOR_FROM_DEVICE, _INTERFACE or
\* _ENDPOINT for n bytes: always addressed to the device, wLength has 16 bits.
VusbUrbParse(type, index, n) ==
    [bmRequestType |-> 128, bRequest |-> 6, type |-> type, index |-> index, wLength |-> n % 65536]

\* VusbProcessStandardRequest: the first 18 bytes for a device descriptor that
\* the caller has room for; otherwise the request is not handled (<<>>).
VusbProcessStandardRequest(descriptors, setup, room) ==
    IF /\ setup.bmRequestType = 128
       /\ setup.bRequest = 6
       /\ descriptors # <<>>
       /\ setup.type = "DEVICE"
       /\ setup.index = 0
       /\ room >= 18
    THEN <<[descriptor |-> descriptors[1], length |-> 18]>>
    ELSE <<>>

\* A faulty variant: the index is decremented before it is tested.
SearchFromOne(setup, acc, d) ==
    IF acc.found # <<>> \/ d.type # setup.type
    THEN acc
    ELSE IF acc.descIndex = 1
         THEN [acc EXCEPT !.found = <<[descriptor |-> d,
                   length |-> IF Size(d) > setup.wLength THEN setup.wLength ELSE Size(d)]>>]
         ELSE [acc EXCEPT !.descIndex = @ - 1]

\* One round of the search in HandleStandardRequest: descIndex counts down.
SearchDescriptor(setup, acc, d) ==
    IF acc.found # <<>> \/ d.type # setup.type
    THEN acc
    ELSE IF acc.descIndex = 0
         THEN [acc EXCEPT !.found = <<[descriptor |-> d,
                   length |-> IF Size(d) > setup.wLength THEN setup.wLength ELSE Size(d)]>>]
         ELSE [acc EXCEPT !.descIndex = @ - 1]

\* The search through the descriptors, after each of its rounds.
SearchLoop(descriptors, setup) ==
    LET search[n \in 0..Len(descriptors)] ==
            IF n = 0
            THEN [descIndex |-> setup.index, found |-> <<>>]
            ELSE SearchDescriptor(setup, search[n - 1], descriptors[n])
    IN search

\* GET_DESCRIPTOR in HandleStandardRequest: <<>> is "Descriptor not found".
HandleGetDescriptor(descriptors, setup) ==
    SearchLoop(descriptors, setup)[Len(descriptors)].found

----------------------------------------------------------------------------
Interactive ==
    \/ Scan \/ (\E r \in Real : Enumerate(r)) \/ EnumerationEnds \/ Refresh \/ RefreshEnds
    \/ (\E cmd \in {"info", "attach"}, i \in Slots : InfoOrAttach(cmd, i))
    \/ OpenForCommand \/ ReadDeviceDescriptor \/ ReadConfigDescriptor
    \/ BuildDescriptorBuffer \/ SendAttach

Next ==
    \/ Interactive
    \/ \E i \in Slots : OpenForUrb(i)
    \/ \E r \in Real : BusEvent(r)

Spec == Init /\ [][Next]_vars

----------------------------------------------------------------------------
(* Properties.                                                             *)

DeviceType == [Active: BOOLEAN, path: Real \cup {NoPath}, LocalId: 0..MaxSlots,
               Opened: BOOLEAN, info: BOOLEAN, parsed: BOOLEAN, failed: BOOLEAN,
               Interfaces: [0..(MaxInterfaces - 1) -> InterfaceType],
               Descriptors: Seq(Descriptor), openedBy: {"nobody", "user", "urb"}]

\* Every variable has its type; the counters of the enumeration stay within
\* the table that they count.
TypeOK ==
    /\ bus \subseteq Real
    /\ todo \subseteq Real
    /\ kind \in [Real -> Kinds]
    /\ config \in [Real -> Configs]
    /\ Devices \in [Slots -> DeviceType]
    /\ \A i \in Slots : Active(i) => Devices[i].path \in Real /\ Devices[i].LocalId # 0
    /\ NextLocalId \in 1..MaxLocalId
    /\ DeviceCount \in 0..MaxSlots
    /\ command \in {"none", "scan", "info", "attach"}
    /\ ipc \in {"prompt", "enumerate", "refresh", "open", "readDevice", "readConfig",
               "build", "send"}
    /\ slot \in 1..(MaxSlots + 1)
    /\ sent \in [Slots -> SUBSET [info: BOOLEAN, Descriptors: Seq(Descriptor)]]
    /\ commands \in 0..MaxCommands
    /\ events \in 0..MaxBusEvents

\* Repeated scans neither list a device twice nor lose count: DeviceCount is
\* the number of active slots, and no two of them have the same ids or the
\* same LocalId (UsbCaptureEnumerateDevices).
OneSlotPerDevice ==
    /\ DeviceCount = Cardinality({i \in Slots : Active(i)})
    /\ \A i, j \in Slots :
          (Active(i) /\ Active(j) /\ i # j) =>
             /\ kind[Devices[i].path] # kind[Devices[j].path]
             /\ Devices[i].path # Devices[j].path
             /\ Devices[i].LocalId # Devices[j].LocalId

\* The positions of the descriptors of interface n in a configuration.
SettingsOf(n, c) == {k \in DOMAIN c : c[k].type = "INTERFACE" /\ c[k].id = n}

\* Position e holds an endpoint of the interface descriptor at position p, and
\* which of its endpoints that is.
EndpointOf(e, p, c) ==
    p < e /\ c[e].type = "ENDPOINT" /\ \A x \in (p + 1)..e : c[x].type # "INTERFACE"
EndpointNumber(e, p, c) == Cardinality({x \in (p + 1)..e : c[x].type = "ENDPOINT"})

\* The entry of interface n after configuration c has been parsed.
ParsedEntry(iface, n, c) ==
    LET settings == SettingsOf(n, c)
    IN IF settings = {}
       THEN iface = NoInterfaces[n]
       ELSE \E p \in settings :
               /\ \A q \in settings : q <= p
               /\ iface.AlternateSetting = c[p].alt
               /\ iface.NumEndpoints = c[p].eps
               /\ \A e \in DOMAIN c :
                     (EndpointOf(e, p, c) /\ EndpointNumber(e, p, c) <= MaxEndpoints) =>
                        iface.Endpoints[EndpointNumber(e, p, c)] = c[e].id

\* ReadConfigDescriptor leaves in the table, for every interface it has room
\* for, the last alternate setting of the configuration with that setting's
\* own endpoints, whatever other interfaces, settings or class descriptors
\* come before, between or behind them; interfaces that do not occur stay empty.
ParsedAsConfigured ==
    \A i \in Slots : (Active(i) /\ Devices[i].parsed) =>
        \A n \in 0..(MaxInterfaces - 1) :
            ParsedEntry(Devices[i].Interfaces[n], n, config[Devices[i].path])

\* What an attach request for a real device has to carry.
Complete(m, r) ==
    /\ m.info
    /\ m.Descriptors = <<DeviceDescriptor, ConfigurationDescriptor>> \o config[r]

\* An attach request carries the device's identity and all its descriptors,
\* however scans, info and attach commands came before it, unless a read from
\* the device has failed or the receive thread opened the device
\* (AttachRealDevice, UsbCaptureRefreshDevices, UsbCaptureGetDescriptors).
AttachCarriesDescriptors ==
    \A i \in Slots : \A m \in sent[i] :
        Complete(m, Devices[i].path) \/ Devices[i].failed \/ Devices[i].openedBy = "urb"

\* The reference for GET_DESCRIPTOR: position p holds descriptor number index of
\* the type asked for, and it is returned, cut to wLength bytes; or there is none.
IsAsked(p, descriptors, setup) ==
    /\ descriptors[p].type = setup.type
    /\ Cardinality({q \in 1..(p - 1) : descriptors[q].type = setup.type}) = setup.index
AnswersRequest(answer, descriptors, setup) ==
    \/ \E p \in DOMAIN descriptors :
          /\ IsAsked(p, descriptors, setup)
          /\ answer = <<[descriptor |-> descriptors[p],
                         length |-> IF Size(descriptors[p]) <= setup.wLength
                                    THEN Size(descriptors[p]) ELSE setup.wLength]>>
    \/ answer = <<>> /\ \A p \in DOMAIN descriptors : ~IsAsked(p, descriptors, setup)

\* What the search answers where the driver answers a request for n bytes: the
\* same descriptor, cut to the 16 bits of n that wLength keeps.  The driver goes
\* by the 32-bit buffer length, so they differ in length when n is 65536 or more
\* and its low 16 bits are less than the descriptor.
SameDescriptor(search, driver, n) ==
    search = <<[descriptor |-> driver[1].descriptor,
                length |-> IF driver[1].length <= n % 65536 THEN driver[1].length ELSE n % 65536]>>

\* The search through the descriptors an attach request has stored finds
\* exactly the one asked for, also where others of its type, or descriptors of
\* other types, are in front of it (HandleStandardRequest); and when the driver
\* answers a request itself (VusbProcessStandardRequest), the search finds the
\* same descriptor, in the same length unless wLength has wrapped around.
AnsweredFromStore ==
    \A i \in Slots : \A m \in sent[i] :
        \A type \in {"DEVICE", "CONFIGURATION", "INTERFACE", "ENDPOINT", "STRING"},
           index \in 0..2, n \in {0, 8, 18, 65536, 65544, 65560} :
            LET setup == VusbUrbParse(type, index, n)
                search == HandleGetDescriptor(m.Descriptors, setup)
                driver == VusbProcessStandardRequest(m.Descriptors, setup, n)
            IN /\ AnswersRequest(search, m.Descriptors, setup)
               /\ driver # <<>> => SameDescriptor(search, driver, n)

----------------------------------------------------------------------------
(* Statements of the code that do not hold of it; no run checks them.      *)

\* "Enumerate all USB devices" (vusb_capture.c): with a free slot, every device
\* present at the scan is listed.  A second device with the same ids is not,
\* nor is one that comes back under another path.
AllListed ==
    (ipc = "refresh" /\ DeviceCount < MaxSlots /\ events = 0) =>
        bus \subseteq {Devices[i].path : i \in {j \in Slots : Active(j)}}

\* Every attach request is complete.
AttachAlwaysComplete ==
    \A i \in Slots : \A m \in sent[i] : Complete(m, Devices[i].path)

\* The answer to GET_DESCRIPTOR(CONFIGURATION) is the whole configuration: the
\* search returns the header alone (bLength), never wTotalLength bytes.
ConfigurationWhole ==
    \A i \in Slots : \A m \in sent[i] :
        \A k \in DOMAIN HandleGetDescriptor(m.Descriptors, VusbUrbParse("CONFIGURATION", 0, 255)) :
            HandleGetDescriptor(m.Descriptors, VusbUrbParse("CONFIGURATION", 0, 255))[k].length
                > Size(ConfigurationDescriptor)

=============================================================================
