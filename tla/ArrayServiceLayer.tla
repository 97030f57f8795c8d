-------------------------- MODULE ArrayServiceLayer --------------------------
(***************************************************************************)
(* ArrayServiceLayer (src/poseidonos-main/src/array/service/               *)
(* array_service_layer.cpp): the per-array-index registries of the I/O    *)
(* translator, the recover and the device checker. Register calls the      *)
(* three registries in that order and returns at the first that fails,     *)
(* without undoing the earlier ones; Unregister removes the index from all *)
(* three, in the reverse order. The array name is not used by either.      *)
(* The registries (IOTranslator, IORecover, IODeviceChecker) are not in    *)
(* the repository: each is a map from array index (spec 109), and its     *)
(* Register fails for an argument it cannot use (the unit test's empty     *)
(* translator) or for an index it already holds. Each array mounts with   *)
(* its own index, so the caller is an index; the calls of one index are    *)
(* sequential, and those of different indexes touch different entries.    *)
(***************************************************************************)
EXTENDS FiniteSets

CONSTANTS Indexes

Services == {"translator", "recover", "checker"}

VARIABLES
    held,       \* service -> indexes its registry holds
    last,       \* history: index -> "none" | "ok" | "failed" | "unregistered",
                \* the result of the last call for the index
    okSince     \* history: indexes with a Register that returned true
                \* since their last Unregister

vars == <<held, last, okSince>>

\* IOTranslator/IORecover/IODeviceChecker::Register(arrayIndex, x).
RegistryRegister(s, idx, valid) == valid /\ idx \notin held[s]

\* Register with the recover and the checker tried after a failed
\* translator registration.
RegisterNoEarlyReturn(idx, ok) ==
    LET got == {s \in Services : RegistryRegister(s, idx, ok[s])}
    IN  /\ held' = [s \in Services |->
                      IF s \in got THEN held[s] \cup {idx} ELSE held[s]]
        /\ last' = [last EXCEPT ![idx] =
                      IF got = Services THEN "ok" ELSE "failed"]
        /\ okSince' = IF got = Services THEN okSince \cup {idx} ELSE okSince

(***************************************************************************)
(* Register(array, arrayIndex, trans, recover, checker); ok[s] says        *)
(* whether the argument for service s is one its registry accepts.         *)
(***************************************************************************)
Register(idx, ok) ==
    LET t == RegistryRegister("translator", idx, ok["translator"])
        r == t /\ RegistryRegister("recover", idx, ok["recover"])
        c == r /\ RegistryRegister("checker", idx, ok["checker"])
        add(s, b) == IF b THEN held[s] \cup {idx} ELSE held[s]
    IN  /\ held' = [translator |-> add("translator", t),
                    recover    |-> add("recover", r),
                    checker    |-> add("checker", c)]
        /\ last' = [last EXCEPT ![idx] = IF c THEN "ok" ELSE "failed"]
        /\ okSince' = IF c THEN okSince \cup {idx} ELSE okSince

\* Unregister(array, arrayIndex): each registry drops the index, held or not.
Unregister(idx) ==
    /\ held' = [s \in Services |-> held[s] \ {idx}]
    /\ last' = [last EXCEPT ![idx] = "unregistered"]
    /\ okSince' = okSince \ {idx}

\* The constructor creates the three empty registries.
Init ==
    /\ held = [s \in Services |-> {}]
    /\ last = [i \in Indexes |-> "none"]
    /\ okSince = {}

Next ==
    \E idx \in Indexes :
        \/ \E ok \in [Services -> BOOLEAN] : Register(idx, ok)
        \/ Unregister(idx)

Spec == Init /\ [][Next]_vars

(***************************************************************************)
(* Properties.                                                             *)
(***************************************************************************)

HeldBy(idx) == {s \in Services : idx \in held[s]}

(***************************************************************************)
(* After any sequence of Register and Unregister calls, each failing at    *)
(* any of its registries, an index's registrations are a prefix of the     *)
(* registration order (a checker only with a recover, a recover only with  *)
(* a translator). An index held only in part is left by a Register that    *)
(* returned false and not yet unregistered. An index is served by all      *)
(* three exactly when a Register for it returned true with no Unregister   *)
(* since: one that returned false on a served index leaves it served.      *)
(***************************************************************************)
RegistrationConsistent ==
    \A idx \in Indexes :
        /\ HeldBy(idx) \in {{}, {"translator"}, {"translator", "recover"},
                            Services}
        /\ HeldBy(idx) \notin {{}, Services} => last[idx] = "failed"
        /\ last[idx] \in {"none", "unregistered"} => HeldBy(idx) = {}
        /\ HeldBy(idx) = Services <=> idx \in okSince
=============================================================================
