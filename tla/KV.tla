----------------------------------- MODULE KV -----------------------------------
(***************************************************************************)
(* The key-value storage as a whole: the connection to the leader          *)
(* (KVManager) and the record of a file that the client gives access to    *)
(* (MetaRecords).  The API writes through the client handed to it at       *)
(* start-up; what it is doing is lost with the process, and what is in the *)
(* record stays.                                                           *)
(***************************************************************************)
EXTENDS KVManager, MetaRecords

CONSTANTS
    MaxWrites,      \* bound: writes of the record begun
    MaxMixed        \* bound: writes and events of the manager, once there is a write

VARIABLE writes         \* so far

kvVars == <<vars, recordVars, writes>>

ASSUME KVWritesAssumption == MaxWrites \in Nat /\ MaxMixed \in Nat /\ Writers \subseteq Nat

KVInit == Init /\ RecordInit /\ writes = 0

\* The API server is there from "ready" to the signal, with a client.
Serving == boot = "ready" /\ ~shuttingDown /\ handed # NoClient

CountWrite == writes < MaxWrites /\ writes + Happened < MaxMixed /\ writes' = writes + 1

RouteBegins(w) ==
    /\ Serving /\ CountWrite
    /\ \A v \in Writers : v < w => routes[v].at # "idle"
    /\ \E key \in Keys, v \in Values :
           \/ \E op \in {"set", "patch", "add"} : Begin(w, op, key, v)
           \/ Begin(w, "delete", key, {})
    /\ UNCHANGED vars

RouteGoesOn(w) ==
    /\ RouteRead(w) \/ RouteWrite(w) \/ RouteFails(w)
    /\ UNCHANGED <<vars, writes>>

\* The file processor and the plugins write at any time.
OtherWriter ==
    /\ Serving /\ CountWrite
    /\ DropRecord \/ \E key \in Keys, v \in Values : Store(key, v)
    /\ UNCHANGED vars

ManagerStep ==
    /\ Next
    /\ writes = 0 \/ writes + Happened' <= MaxMixed
    /\ routes' = IF boot' = "down" THEN [w \in Writers |-> NoRoute] ELSE routes
    /\ UNCHANGED <<record, writes>>

KVNext ==
    \/ ManagerStep \/ OtherWriter
    \/ \E w \in Writers : RouteBegins(w) \/ RouteGoesOn(w)

KVSpec == KVInit /\ [][KVNext]_kvVars

KVFairSpec == KVSpec /\ WF_kvVars(Heartbeat /\ UNCHANGED <<recordVars, writes>>)
=============================================================================
