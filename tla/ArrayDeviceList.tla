--------------------------- MODULE ArrayDeviceList ---------------------------
(***************************************************************************)
(* ArrayDeviceList (src/poseidonos-main/src/array/device/                  *)
(* array_device_list.cpp): an array's NVM, data and spare devices. Each    *)
(* ArrayDevice object holds a ublock (a physical device, or nullptr for a  *)
(* missing one) and a state. Every operation runs under the list's mutex,  *)
(* so each is one step. Adding checks Exists(name) over the three lists    *)
(* and marks the ublock's class ARRAY; RemoveSpare and Clear mark it       *)
(* SYSTEM again; SpareToData hands the last spare's ublock to a faulty     *)
(* data device and pops the spare. The callers and the device layer are    *)
(* not in the repository: AddData gets a device with a ublock (NORMAL) or  *)
(* a missing one (nullptr, FAULT); a data device can fail, keeping its     *)
(* ublock, or be detached, losing it.                                      *)
(***************************************************************************)
EXTENDS Integers, Sequences, SequencesExt

CONSTANTS
    Udevs,          \* physical devices (ublocks), by name
    Devs,           \* ArrayDevice objects
    NoUblock,       \* nullptr
    FaultyName      \* "Faulty Device"

VARIABLES
    nvm, data, spares,  \* devSet_: sequences of ArrayDevice objects
    ublockOf,           \* object -> its ublock, or NoUblock
    devState,           \* object -> "NORMAL" | "FAULT"
    cls,                \* ublock -> "SYSTEM" | "ARRAY"
    leaked,             \* objects neither in a list nor deleted
    present,            \* physical devices still attached to the system
    ret                 \* the last call's return code

vars == <<nvm, data, spares, ublockOf, devState, cls, leaked, present, ret>>

Members == ToSet(nvm) \cup ToSet(data) \cup ToSet(spares)

\* Objects the caller can construct: neither listed nor leaked.
FreeDevs == Devs \ (Members \cup leaked)

\* FindNvm/FindData/FindSpare by name, and Exists with only the NVM and
\* data lists searched.
Found(list, name) == \E k \in DOMAIN list : ublockOf[list[k]] = name

ExistsNoSpare(name) ==
    IF Found(nvm, name) THEN "NVM"
    ELSE IF Found(data, name) THEN "DATA"
    ELSE "NONE"

\* Exists(devName): the first list holding a device of that name.
Exists(name) ==
    IF Found(nvm, name) THEN "NVM"
    ELSE IF Found(data, name) THEN "DATA"
    ELSE IF Found(spares, name) THEN "SPARE"
    ELSE "NONE"

\* Construct object d with ublock u and state s.
Make(d, u, s) ==
    /\ ublockOf' = [ublockOf EXCEPT ![d] = u]
    /\ devState' = [devState EXCEPT ![d] = s]

Fail == ret' = "ARRAY_DEVICE_ADD_FAIL" /\ UNCHANGED <<nvm, data, spares, ublockOf, devState, cls, leaked, present>>

SetNvm(d, u) ==
    /\ d \in FreeDevs
    /\ IF nvm # <<>> \/ u = NoUblock \/ Exists(u) # "NONE" THEN Fail
       ELSE /\ Make(d, u, "NORMAL")
            /\ cls' = [cls EXCEPT ![u] = "ARRAY"]
            /\ nvm' = Append(nvm, d)
            /\ ret' = 0
            /\ UNCHANGED <<data, spares, leaked, present>>

\* AddData: the duplicate check and the class only when there is a ublock.
AddData(d, u) ==
    /\ d \in FreeDevs
    /\ IF u # NoUblock /\ Exists(u) # "NONE" THEN Fail
       ELSE /\ Make(d, u, IF u = NoUblock THEN "FAULT" ELSE "NORMAL")
            /\ cls' = IF u = NoUblock THEN cls ELSE [cls EXCEPT ![u] = "ARRAY"]
            /\ data' = Append(data, d)
            /\ ret' = 0
            /\ UNCHANGED <<nvm, spares, leaked, present>>

AddSpare(d, u) ==
    /\ d \in FreeDevs
    /\ u # NoUblock
    /\ IF Exists(u) # "NONE" THEN Fail
       ELSE /\ Make(d, u, "NORMAL")
            /\ cls' = [cls EXCEPT ![u] = "ARRAY"]
            /\ spares' = Append(spares, d)
            /\ ret' = 0
            /\ UNCHANGED <<nvm, data, leaked, present>>

RemoveSpare(d) ==
    IF d \notin ToSet(spares)
    THEN /\ ret' = "ARRAY_DEVICE_REMOVE_FAIL"
         /\ UNCHANGED <<nvm, data, spares, ublockOf, devState, cls, leaked, present>>
    ELSE /\ cls' = [cls EXCEPT ![ublockOf[d]] = "SYSTEM"]
         /\ spares' = SelectSeq(spares, LAMBDA x : x # d)
         /\ ret' = 0
         /\ UNCHANGED <<nvm, data, ublockOf, devState, leaked, present>>

\* Clear: every listed ublock back to SYSTEM, every object deleted.
Clear ==
    /\ cls' = [u \in Udevs |->
                 IF \E d \in Members : ublockOf[d] = u THEN "SYSTEM" ELSE cls[u]]
    /\ nvm' = <<>> /\ data' = <<>> /\ spares' = <<>>
    /\ UNCHANGED <<ublockOf, devState, leaked, present, ret>>

\* SpareToData(target) for a faulty data device: target takes the last
\* spare's ublock, and the spare object is popped from the list.
SpareToData(target) ==
    /\ target \in ToSet(data)
    /\ devState[target] = "FAULT"
    /\ IF spares = <<>>
       THEN /\ ret' = "ARRAY_NO_REMAINING_SPARE"
            /\ UNCHANGED <<nvm, data, spares, ublockOf, devState, cls, leaked, present>>
       ELSE LET spare == Last(spares) IN
            /\ ublockOf' = [ublockOf EXCEPT ![target] = ublockOf[spare]]
            /\ spares' = Front(spares)
            /\ leaked' = leaked \cup {spare}
            /\ ret' = 0
            /\ UNCHANGED <<nvm, data, devState, cls, present>>

\* The device layer: a NORMAL data device fails, keeping its ublock or
\* losing it to a detach.
DeviceFault(d, detached) ==
    /\ d \in ToSet(data)
    /\ devState[d] = "NORMAL"
    /\ ublockOf[d] # NoUblock
    /\ devState' = [devState EXCEPT ![d] = "FAULT"]
    /\ ublockOf' = IF detached THEN [ublockOf EXCEPT ![d] = NoUblock] ELSE ublockOf
    /\ present' = IF detached THEN present \ {ublockOf[d]} ELSE present
    /\ UNCHANGED <<nvm, data, spares, cls, leaked, ret>>

Init ==
    /\ nvm = <<>> /\ data = <<>> /\ spares = <<>>
    /\ ublockOf = [d \in Devs |-> NoUblock]
    /\ devState = [d \in Devs |-> "NORMAL"]
    /\ cls = [u \in Udevs |-> "SYSTEM"]
    /\ leaked = {}
    /\ present = Udevs
    /\ ret = 0

Next ==
    \/ \E d \in Devs, u \in present :
         SetNvm(d, u) \/ AddData(d, u) \/ AddSpare(d, u)
    \/ \E d \in Devs : AddData(d, NoUblock)
    \/ \E d \in Devs : RemoveSpare(d) \/ SpareToData(d)
    \/ Clear
    \/ \E d \in Devs, detached \in BOOLEAN : DeviceFault(d, detached)

Spec == Init /\ [][Next]_vars

(***************************************************************************)
(* ExportNames: the names of the three lists, "Faulty Device" for a faulty *)
(* data device; a ublock read through nullptr shows as NoUblock.           *)
(***************************************************************************)
ExportNamesNoFaultCheck ==
    [nvm |-> [k \in DOMAIN nvm |-> ublockOf[nvm[k]]],
     data |-> [k \in DOMAIN data |-> ublockOf[data[k]]],
     spares |-> [k \in DOMAIN spares |-> ublockOf[spares[k]]]]

ExportNames ==
    [nvm |-> [k \in DOMAIN nvm |-> ublockOf[nvm[k]]],
     data |-> [k \in DOMAIN data |->
                 IF devState[data[k]] = "FAULT" THEN FaultyName
                 ELSE ublockOf[data[k]]],
     spares |-> [k \in DOMAIN spares |-> ublockOf[spares[k]]]]

(***************************************************************************)
(* Properties.                                                             *)
(***************************************************************************)

Listed == nvm \o data \o spares

(***************************************************************************)
(* No physical device is in the array twice, in one list or across the     *)
(* NVM, data and spare lists, over any sequence of adds, removals, faults, *)
(* spare replacements and clears.                                          *)
(***************************************************************************)
NoDuplicateDevice ==
    \A a, b \in DOMAIN Listed :
        a # b /\ ublockOf[Listed[a]] # NoUblock =>
            ublockOf[Listed[a]] # ublockOf[Listed[b]]

(***************************************************************************)
(* ExportNames never reads the name of a missing ublock: the devices       *)
(* without one are exactly faulty data devices, which it reports as        *)
(* "Faulty Device".                                                        *)
(***************************************************************************)
ExportDereferencesOnlyAttached ==
    LET e == ExportNames IN
    \A l \in {e.nvm, e.data, e.spares} : \A k \in DOMAIN l : l[k] # NoUblock
=============================================================================
