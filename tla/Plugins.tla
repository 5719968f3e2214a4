-------------------------------- MODULE Plugins --------------------------------
(***************************************************************************)
(* The plugins and their recomputation together: a page asks for a         *)
(* recomputation, the API server (api/UnifiedAPIServer.ts) looks up the    *)
(* files while plugins are switched on and off, and the TaskScheduler      *)
(* creates tasks if the plugin is still active.                            *)
(***************************************************************************)
EXTENDS PluginManager, TaskScheduler

CONSTANT MaxEvents  \* bound: requests, ends (which count twice), faults, resets and
                    \* tasks of the pipeline together

ASSUME PluginsAssumption == MaxEvents \in Nat

vars == <<pluginVars, taskVars>>

Init == PluginInit /\ TaskInit

\* POST /api/plugins/:pluginId/recompute, up to the list of files ...
AskRecompute(c, p) ==
    /\ p \in ToSet(active)
    /\ Ask(c)
    /\ calls' = [calls EXCEPT ![c] = Begin(p, "listing")]
    /\ UNCHANGED <<offered, deps, memoryVars, file, ghostVars, taskVars>>

\* ... and from there: files of which KV has the path.
CreateTasks(c, new) ==
    /\ calls[c].at = "listing"
    /\ calls[c].op \in ToSet(active) \/ new = {}
    /\ Recompute(new)
    /\ calls' = [calls EXCEPT ![c] = NoCall]
    /\ UNCHANGED <<offered, deps, memoryVars, file, ghostVars, countVars>>

Exit == PluginExit /\ TaskExit

Step ==
    \/ PluginStep /\ UNCHANGED taskVars
    \/ TaskStep /\ UNCHANGED pluginVars
    \/ \E c \in Pages : \/ \E p \in Plugins : AskRecompute(c, p)
                        \/ \E new \in SUBSET Tasks : CreateTasks(c, new)
    \/ Exit

Events == requests + 2 * exits + faults + resets + Cardinality(Tasks \ (asked \cup At("new")))

Next == Step /\ Events' <= MaxEvents

Spec == Init /\ [][Next]_vars
=============================================================================
