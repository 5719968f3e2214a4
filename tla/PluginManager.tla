----------------------------- MODULE PluginManager -----------------------------
(***************************************************************************)
(* Which plugins are active and how they are configured: class             *)
(* PluginManager (plugin-engine/PluginManager.ts), the requests of         *)
(* api/UnifiedAPIServer.ts that change it, the page of the web interface   *)
(* that sends them (meta-sort-ui, pages/Plugins.tsx), and the file         *)
(* plugins.json that outlives the process.                                 *)
(*                                                                         *)
(* A caller is an open page, which sends one request at a time, or the     *)
(* start-up.  Calls interleave at every await, and any read or write of    *)
(* the file may fail.                                                      *)
(*                                                                         *)
(* Not modelled: requests that are refused, which change nothing; the      *)
(* events, which nobody listens to; the configurations sent to containers  *)
(* at the end of a call; the display.                                      *)
(***************************************************************************)
EXTENDS Naturals, FiniteSets, Sequences, SequencesExt, PluginExecutor

CONSTANTS
    Plugins,        \* plugins of the container configuration
    Offers,         \* plugins that may have a manifest to begin with
    Graphs,         \* dependencies their manifests may have
    Configs,        \* what a plugin can be configured with
    Pages,          \* open pages of the web interface
    Files,          \* contents of plugins.json to begin with
    NoEntry,        \* a plugin of which the file says nothing
    Unreadable,     \* a file that is missing, empty or cut
    MaxRequests,    \* bound: requests of the pages
    MaxExits,       \* bound: ends of the process
    MaxFaults       \* bound: reads and writes of the file that fail

Boot == "boot"
Callers == Pages \cup {Boot}
Default == "{}"
Entries == [active : BOOLEAN, config : Configs \cup {Default}]
States == [Plugins -> Entries \cup {NoEntry}]
NoPlugins == [p \in Plugins |-> NoEntry]

ASSUME PluginManagerAssumption ==
    /\ IsFiniteSet(Plugins) /\ Offers \subseteq SUBSET Plugins
    /\ Graphs \subseteq [Plugins -> Seq(Plugins)]
    /\ Boot \notin Pages /\ Default \notin Configs
    /\ NoEntry \notin Entries /\ Unreadable \notin States
    /\ Files \subseteq States \cup {Unreadable}
    /\ MaxRequests \in Nat /\ MaxExits \in Nat /\ MaxFaults \in Nat

VARIABLES
    offered,      \* plugins whose manifest the container manager has
    deps,         \* dependencies of each plugin
    manifests,    \* plugins loaded
    active,       \* activePluginIds, in the order of insertion
    executionOrder,
    configs,
    file,         \* plugins.json
    calls,        \* what each caller's request is at
    wanted,       \* what was asked for, plugin by plugin
    crossed,      \* plugins of which two calls met, or one failed, since the start in a
                  \* way the code does not handle
    requests, exits, faults

memoryVars == <<manifests, active, executionOrder, configs>>
ghostVars == <<wanted, crossed>>
countVars == <<requests, exits, faults>>
pluginVars == <<offered, deps, memoryVars, file, calls, ghostVars, countVars>>

\* A call: the next thing it does, the state loadState() gave it, what it writes, and
\* whether it wrote when another did.
NoCall == [op |-> "none", at |-> "idle", read |-> NoPlugins, out |-> NoPlugins, mixed |-> FALSE]
Begin(op, at) == [NoCall EXCEPT !.op = op, !.at = at]

CallsAt(where) == {c \in Callers : calls[c].at \in where}
Saving == {"reading", "read", "writing", "opened"}

PluginInit ==
    /\ offered \in Offers /\ deps \in Graphs
    /\ manifests = {} /\ active = <<>> /\ executionOrder = <<>>
    /\ configs = [p \in Plugins |-> Default]
    /\ file \in Files
    \* index.ts: the requests are served before the plugins are loaded.
    /\ calls = [c \in Callers |-> IF c = Boot THEN Begin("rescan", "loading") ELSE NoCall]
    /\ wanted = IF file = Unreadable THEN NoPlugins ELSE file
    /\ crossed = {}
    /\ requests = 0 /\ exits = 0 /\ faults = 0

-----------------------------------------------------------------------------
\* A file that cannot be read counts as one without plugins.
Parsed == IF file = Unreadable THEN NoPlugins ELSE file

\* A request comes from a page whose buttons are enabled.
Ask(c) ==
    /\ c \in Pages /\ calls[c] = NoCall
    /\ requests < MaxRequests
    /\ requests' = requests + 1
    /\ UNCHANGED <<exits, faults>>

Fault == faults < MaxFaults /\ faults' = faults + 1 /\ UNCHANGED <<requests, exits>>

\* A change of memory is at once followed by saveState().
Change(c, p) ==
    /\ Ask(c)
    /\ calls' = [calls EXCEPT ![c] = Begin("change", "reading")]
    \* A rescan that has read the file will undo the change.
    /\ crossed' = crossed \cup (IF CallsAt({"loaded"}) # {} THEN {p} ELSE {})
    /\ UNCHANGED <<offered, deps, manifests, file>>

RebuildExecutionOrder == executionOrder' = ResolveDependencyOrder(deps, active')

Activate(c, p) ==
    /\ p \in manifests \ ToSet(active) /\ CanActivate(p, deps, active)
    /\ Change(c, p)
    /\ active' = Append(active, p)
    /\ RebuildExecutionOrder
    /\ wanted' = [wanted EXCEPT ![p].active = TRUE]
    /\ UNCHANGED configs

Deactivate(c, p) ==
    /\ p \in ToSet(active) /\ CanDeactivate(p, deps, active)
    /\ Change(c, p)
    /\ \E i \in DOMAIN active : active[i] = p /\ active' = RemoveAt(active, i)
    /\ RebuildExecutionOrder
    /\ wanted' = [wanted EXCEPT ![p].active = FALSE]
    /\ UNCHANGED configs

UpdateConfig(c, p, config) ==
    /\ p \in manifests
    /\ Change(c, p)
    /\ configs' = [configs EXCEPT ![p] = config]
    /\ wanted' = [wanted EXCEPT ![p].config = config]
    /\ UNCHANGED <<active, executionOrder>>

Rescan(c) ==
    /\ Ask(c)
    /\ calls' = [calls EXCEPT ![c] = Begin("rescan", "loading")]
    /\ UNCHANGED <<offered, deps, memoryVars, file, ghostVars>>

-----------------------------------------------------------------------------
\* A rescan that reads while a change is not saved yet, or whose read fails, takes over
\* what nobody asked for; a save that reads a file being written, or whose read fails,
\* forgets the plugins that are not loaded.
Misread(c, failed) ==
    IF calls[c].at = "loading" /\ (failed \/ CallsAt(Saving) # {}) THEN Plugins
    ELSE IF failed \/ CallsAt({"opened"}) # {} THEN Plugins \ manifests
    ELSE {}

\* loadState(), of loadContainerPlugins() or of saveState().
LoadState(c) ==
    LET call == calls[c]
    IN  /\ call.at \in {"loading", "reading"}
        /\ \E failed \in BOOLEAN :
              /\ calls' = [calls EXCEPT
                              ![c].at = IF call.at = "loading" THEN "loaded" ELSE "read",
                              ![c].read = IF failed THEN NoPlugins ELSE Parsed]
              /\ crossed' = crossed \cup Misread(c, failed)
              /\ IF failed THEN Fault ELSE UNCHANGED countVars
        /\ UNCHANGED <<offered, deps, memoryVars, file, wanted>>

\* Activity is the default, and needs no dependency to be active.
ActiveIn(state, p) == state[p] = NoEntry \/ state[p].active
ConfigIn(state, p) == IF state[p] = NoEntry THEN Default ELSE state[p].config

\* loadContainerPlugins after loadState(): the file decides, for every plugin whose
\* manifest is known by now.
LoadPlugins(c) ==
    LET state == calls[c].read
        new == {p \in offered : ActiveIn(state, p)} \ ToSet(active)
    IN  /\ calls[c].at = "loaded"
        /\ manifests' = manifests \cup offered
        /\ active' = active \o SetToSeq(new)
        /\ configs' = [p \in Plugins |-> IF p \in offered THEN ConfigIn(state, p) ELSE configs[p]]
        /\ RebuildExecutionOrder
        /\ calls' = [calls EXCEPT ![c] = Begin("change", "reading")]
        /\ wanted' = [p \in Plugins |-> IF p \in offered /\ wanted[p] = NoEntry
                                        THEN [active |-> TRUE, config |-> Default]
                                        ELSE wanted[p]]
        \* Two rescans do not disturb each other, a change and a rescan do.
        /\ UNCHANGED <<offered, deps, file, crossed, countVars>>

\* BUG variant: only what is loaded is written.
MutantToWrite(read) ==
    [p \in Plugins |-> IF p \in manifests
                       THEN [active |-> p \in ToSet(active), config |-> configs[p]]
                       ELSE NoEntry]

\* What saveState() writes: what it read, with what is loaded put over it.
ToWrite(read) ==
    [p \in Plugins |-> IF p \in manifests
                       THEN [active |-> p \in ToSet(active), config |-> configs[p]]
                       ELSE read[p]]

\* saveState after loadState(): the state is taken from memory as it is now.
TakeState(c) ==
    /\ calls[c].at = "read"
    /\ calls' = [calls EXCEPT ![c].at = "writing", ![c].read = NoPlugins,
                              ![c].out = ToWrite(calls[c].read)]
    /\ crossed' = IF CallsAt({"writing", "opened"}) # {} THEN Plugins ELSE crossed
    /\ UNCHANGED <<offered, deps, memoryVars, file, wanted, countVars>>

\* writeFile() empties the file and then writes it.
OpenFile(c) ==
    /\ calls[c].at = "writing"
    /\ calls' = [calls EXCEPT ![c].at = "opened"]
    /\ file' = Unreadable
    /\ UNCHANGED <<offered, deps, memoryVars, ghostVars, countVars>>

\* A text over a longer one leaves the end of the longer one.
EndWrite(c) ==
    calls' = [d \in Callers |-> IF d = c THEN NoCall
                               ELSE [calls[d] EXCEPT !.mixed = @ \/ calls[d].at = "opened"]]

WriteFile(c) ==
    /\ calls[c].at = "opened"
    /\ file' \in {calls[c].out} \cup (IF calls[c].mixed THEN {Unreadable} ELSE {})
    /\ EndWrite(c)
    /\ UNCHANGED <<offered, deps, memoryVars, ghostVars, countVars>>

\* Nobody writes again what could not be written.
WriteFails(c) ==
    /\ calls[c].at \in {"writing", "opened"}
    /\ EndWrite(c)
    /\ crossed' = Plugins
    /\ Fault
    /\ UNCHANGED <<offered, deps, memoryVars, file, wanted>>

CallStep(c) ==
    \/ LoadState(c) \/ LoadPlugins(c) \/ TakeState(c)
    \/ OpenFile(c) \/ WriteFile(c) \/ WriteFails(c)

\* The container manager has the manifest of one more plugin.
ManifestArrives(p) ==
    /\ p \in Plugins \ offered
    /\ offered' = offered \cup {p}
    /\ UNCHANGED <<deps, memoryVars, file, calls, ghostVars, countVars>>

\* The process ends and starts again; the file is as it was left.
PluginExit ==
    /\ exits < MaxExits /\ exits' = exits + 1
    /\ manifests' = {} /\ active' = <<>> /\ executionOrder' = <<>>
    /\ configs' = [p \in Plugins |-> Default]
    /\ calls' = [c \in Callers |-> IF c = Boot THEN Begin("rescan", "loading") ELSE NoCall]
    \* What was not saved is lost.
    /\ wanted' = [p \in Plugins |-> IF p \in crossed \/ CallsAt(Saving) # {} THEN Parsed[p]
                                    ELSE wanted[p]]
    /\ crossed' = {}
    /\ UNCHANGED <<offered, deps, file, requests, faults>>

PluginRequest(c) ==
    \/ \E p \in Plugins :
           \/ Activate(c, p) \/ Deactivate(c, p)
           \/ \E config \in Configs : UpdateConfig(c, p, config)
    \/ Rescan(c)

PluginStep ==
    \/ \E c \in Callers : PluginRequest(c) \/ CallStep(c)
    \/ \E p \in Plugins : ManifestArrives(p)

-----------------------------------------------------------------------------
\* The order that is reported has every active plugin once, after its active
\* dependencies, whichever way the active plugins came about, and leaves out only
\* what a cycle blocks (PluginExecutor.ts 28-95, PluginManager.ts 380-393).
OrderSound == InOrder(executionOrder, deps, active)

\* What was asked for stays: memory has for a loaded plugin what was last asked for, or
\* what the file said, or the default; and when no save is under way the file has it for
\* every plugin, the ones that are not loaded and the ones of an earlier process
\* included.  The exceptions are plugin by plugin: one that is changed while a rescan has
\* read the file; those that are not loaded, when a save reads while another one writes
\* or its read fails; and all, when a rescan reads during a save or its read fails, when
\* two saves write at once, or when a write fails (PluginManager.ts 94-193, 212-296,
\* 395-427).
StateKept ==
    \A p \in Plugins \ crossed :
        /\ p \in manifests => wanted[p] = [active |-> p \in ToSet(active), config |-> configs[p]]
        /\ CallsAt(Saving) = {} => Parsed[p] = wanted[p]
=============================================================================
