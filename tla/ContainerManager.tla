--------------------------- MODULE ContainerManager ---------------------------
(***************************************************************************)
(* The containers of the plugins: class ContainerManager                   *)
(* (container-plugins/ContainerManager.ts) with the requests of            *)
(* api/UnifiedAPIServer.ts that call it, the configuration file behind it  *)
(* (ConfigParser.ts), and Docker (external; DockerClient.ts only passes    *)
(* the calls on).                                                          *)
(*                                                                         *)
(* A call is a request, initialize() or shutdown(); calls interleave at    *)
(* every await.  A container is its slot (plugin and instance number, from *)
(* which its name is made) and its state; a container id is used again     *)
(* when nobody knows it any more.                                          *)
(*                                                                         *)
(* A configuration of a plugin is a value; reading it from the file may    *)
(* give another one, for the parser puts environment variables into it and *)
(* spells some values anew, and writing puts down what is in memory.  The  *)
(* environment is that of one deployment: it stays.                        *)
(*                                                                         *)
(* Not modelled: images, resources, mounts, environment and manifests;     *)
(* entries of the file with enabled: false, which only pass through;       *)
(* the counters of getHealthyInstance() and recordTaskCompletion().        *)
(***************************************************************************)
EXTENDS Naturals, FiniteSets, Sequences, SequencesExt

CONSTANTS
    Plugins,
    Count,          \* instances of each plugin
    NameHolds,      \* <<s, t>>: the container name of slot t contains that of s
    Requests,       \* bound: requests the API may be serving at once, numbered
    Files,          \* configuration files to begin with
    Ids,            \* bound: container ids
    Versions,       \* configurations a file may give a plugin,
    Given,          \* and a request
    Loaded,         \* what the parser of the file makes of each
    MaxRequests,    \* bound: requests in all
    MaxFaults,      \* bound: calls to Docker and writes that fail
    MaxExits,       \* bound: crashes and shutdowns
    MaxEvents       \* bound: requests, faults and exits together

NoConfig == "none"
Refused == "refused"
Slots == UNION {{p} \X (0..(Count[p] - 1)) : p \in Plugins}

ASSUME ContainerAssumption ==
    /\ IsFiniteSet(Plugins) /\ Count \in [Plugins -> Nat \ {0}]
    /\ NameHolds \subseteq Slots \X Slots /\ \A s \in Slots : <<s, s>> \in NameHolds
    \* The number ends the name: "meta-plugin-a-10" contains "meta-plugin-a-1".
    /\ \A pair \in NameHolds : pair[1][1] = pair[2][1] => pair[1][2] <= pair[2][2]
    /\ Requests \subseteq Nat \ {0, 1} /\ IsFiniteSet(Ids) /\ Ids \subseteq Nat \ {0}
    /\ {NoConfig, Refused, "cut"} \cap Versions = {} /\ NoConfig # Refused
    /\ Given \subseteq Versions
    /\ Loaded \in [Versions -> Versions \cup {Refused}]
    /\ Files \subseteq [Plugins -> Versions \cup {NoConfig}]
    /\ {MaxRequests, MaxFaults, MaxExits, MaxEvents} \subseteq Nat

\* The two calls that are no requests.
Startup == 0
Signal == 1
Callers == Requests \cup {Startup, Signal}

VARIABLES
    docker,       \* slot and state of each container; "gone" where there is none
    status,       \* what the manager thinks of each instance: "live" stands for
                  \* "starting", "healthy" and "unhealthy"
    instances,    \* instances of each plugin; none is a missing entry of the map
    timers,       \* plugins with a health check interval
    asked,        \* instances whose health check is under way (bound: one at a time)
    config,       \* pluginsConfig
    file,         \* the configuration file
    calls,        \* what each call is at
    phase,        \* of the process: "down", "starting", "ready", or "broken"
    quiet,        \* plugins none of whose calls overlapped or failed since the start
    loneSave,     \* the last save was not cut short, overlapped no other and did not fail
    requests, faults, exits

managerVars == <<status, instances, timers>>
saveVars == <<file, loneSave>>
countVars == <<requests, faults, exits>>
vars == <<docker, managerVars, asked, config, saveVars, calls, phase, quiet, countVars>>

NoPlugin == "no plugin"
NoId == 0
CutFile == [p \in Plugins |-> "cut"]
Gone == [slot |-> <<NoPlugin, 0>>, state |-> "gone"]
IdleCall == [op |-> "none", at |-> "idle", plugin |-> NoPlugin, rest |-> {},
             list |-> <<>>, target |-> NoId, text |-> CutFile]
EmptyConfig == [p \in Plugins |-> NoConfig]

Exists(id) == docker[id].state # "gone"
PluginOf(id) == docker[id].slot[1]
Busy(c) == calls[c].at # "idle"
Whole == {"start", "restartAll", "shutdown"}

\* The plugins a call in progress may touch.
Concerns(c, p) == Busy(c) /\ (calls[c].op \in Whole \/ calls[c].plugin = p)

Budget == requests + faults + exits < MaxEvents

\* Docker fails a call: the caller's plugin is quiet no longer.
Fault(c) ==
    /\ Budget /\ faults < MaxFaults /\ faults' = faults + 1
    /\ quiet' = quiet \ {calls[c].plugin}

\* An earlier process may have left a container.
Init ==
    /\ \E left \in {<<>>} \cup {<<[slot |-> s, state |-> "up"]>> : s \in Slots} :
           docker = [id \in Ids |-> IF id \in DOMAIN left THEN left[id] ELSE Gone]
    /\ status = [id \in Ids |-> "stopped"]
    /\ instances = [p \in Plugins |-> <<>>]
    /\ timers = {} /\ asked = {}
    /\ config = EmptyConfig
    /\ file \in Files
    /\ calls = [c \in Callers |-> IdleCall]
    /\ phase = "down" /\ quiet = {} /\ loneSave = TRUE
    /\ requests = 0 /\ faults = 0 /\ exits = 0
-----------------------------------------------------------------------------
EndCall(c) == calls' = [calls EXCEPT ![c] = IdleCall]

\* spawnPlugin() is over, well or not: initialize() and restartAllPlugins() go on
\* with the next plugin.
AfterPlugin(c) ==
    IF calls[c].op \in {"start", "restartAll"}
    THEN calls' = [calls EXCEPT ![c].at = "next", ![c].list = <<>>, ![c].target = NoId]
    ELSE EndCall(c)

MutantBeforeChange(cfg) == config

\* saveConfig(): the text is made at once, of the configuration as it is then, ...
TextToSave(cfg) == cfg

\* ... and writeFile() empties the file, sooner or later, before it writes.
Saving(c) ==
    /\ file' \in {file, CutFile}
    /\ loneSave' = (\A d \in Callers \ {c} : calls[d].at # "save")

\* stopInstance() for each instance, after the health check timer is cleared.
Stopping(c, op, p, rest) ==
    /\ timers' = timers \ {p}
    /\ calls' = [calls EXCEPT ![c] = [IdleCall EXCEPT !.op = op, !.at = "stop",
                                        !.plugin = p, !.rest = rest,
                                        !.list = instances[p]]]

SavingCall(c, op, p, cfg) ==
    /\ Saving(c)
    /\ config' = cfg
    /\ calls' = [calls EXCEPT ![c] = [IdleCall EXCEPT !.op = op, !.at = "save",
                                        !.plugin = p, !.text = TextToSave(cfg)]]
-----------------------------------------------------------------------------
\* A request comes in while the manager is ready.
Request(c, touched) ==
    /\ phase = "ready" /\ ~Busy(Signal)
    /\ ~Busy(c) /\ \A d \in Requests : d < c => Busy(d)
    /\ Budget /\ requests < MaxRequests /\ requests' = requests + 1
    /\ quiet' = {p \in quiet : p \in touched => \A d \in Callers : ~Concerns(d, p)}
    /\ UNCHANGED <<docker, status, instances, asked, phase, faults, exits>>

\* restartPlugin(); it throws at once for a plugin without instances.
RestartPlugin(c, p) ==
    /\ Request(c, {p})
    /\ instances[p] # <<>> /\ config[p] # NoConfig
    /\ Stopping(c, "restart", p, {})
    /\ UNCHANGED <<config, saveVars>>

RestartAll(c) ==
    /\ Request(c, Plugins)
    /\ calls' = [calls EXCEPT ![c] = [IdleCall EXCEPT !.op = "restartAll", !.at = "next",
                      !.rest = {p \in Plugins : instances[p] # <<>>}]]
    /\ UNCHANGED <<timers, config, saveVars>>

\* addPlugin().
AddPlugin(c, p, v) ==
    /\ Request(c, {p})
    /\ instances[p] = <<>>
    /\ SavingCall(c, "add", p, [config EXCEPT ![p] = v])
    /\ UNCHANGED timers

WithoutConfig(c, op, p) ==
    IF config[p] # NoConfig THEN SavingCall(c, op, p, [config EXCEPT ![p] = NoConfig])
    ELSE EndCall(c) /\ UNCHANGED <<config, saveVars>>

\* removePlugin().
RemovePlugin(c, p) ==
    /\ Request(c, {p})
    /\ IF instances[p] # <<>>
       THEN Stopping(c, "remove", p, {}) /\ UNCHANGED <<config, saveVars>>
       ELSE WithoutConfig(c, "remove", p) /\ UNCHANGED timers

\* updatePluginConfig(), and updatePluginImage(), which differs in that it restarts
\* without asking for instances.
Update(c, p, v) ==
    /\ Request(c, {p})
    /\ config[p] # NoConfig
    /\ SavingCall(c, "update", p, [config EXCEPT ![p] = v])
    /\ UNCHANGED timers
-----------------------------------------------------------------------------
\* saveConfig() ends; what follows depends on the call.
SaveEnds(c) ==
    /\ calls[c].at = "save"
    /\ file' = calls[c].text
    /\ LET op == calls[c].op  p == calls[c].plugin
       IN  \/ /\ op = "add"
              /\ calls' = [calls EXCEPT ![c].at = "list", ![c].text = CutFile]
              /\ UNCHANGED timers
           \/ /\ op = "update" /\ instances[p] # <<>> /\ config[p] # NoConfig
              /\ Stopping(c, "update", p, {})
           \/ /\ op \in {"remove", "update"}
              /\ op = "update" => instances[p] = <<>> \/ config[p] = NoConfig
              /\ EndCall(c)
              /\ UNCHANGED timers
    /\ UNCHANGED <<docker, status, instances, asked, config, loneSave, phase, quiet,
                   countVars>>

SaveFails(c) ==
    /\ calls[c].at = "save"
    /\ Fault(c)
    /\ loneSave' = FALSE
    /\ EndCall(c)
    /\ UNCHANGED <<docker, managerVars, asked, config, file, phase, requests, exits>>

\* stopInstance(): the container is given ten seconds ...
StopContainer(c) ==
    /\ calls[c].at = "stop"
    /\ LET id == Head(calls[c].list)
       IN  docker' = [docker EXCEPT ![id].state = IF @ = "up" THEN "down" ELSE @]
    /\ calls' = [calls EXCEPT ![c].at = "remove"]
    /\ UNCHANGED <<managerVars, asked, config, saveVars, phase, quiet, countVars>>

\* ... the last one of a plugin takes the plugin out of the map ...
AllStopped(c) ==
    LET op == calls[c].op  p == calls[c].plugin
    IN  \/ /\ op \in {"restart", "update", "restartAll"}
           /\ instances' = [instances EXCEPT ![p] = <<>>]
           /\ calls' = [calls EXCEPT ![c].at = "list", ![c].list = <<>>]
           /\ UNCHANGED <<config, saveVars>>
        \/ /\ op = "remove"
           /\ instances' = [instances EXCEPT ![p] = <<>>]
           /\ WithoutConfig(c, "remove", p)
        \/ /\ op = "shutdown"
           /\ calls' = [calls EXCEPT ![c].at = "next", ![c].list = <<>>]
           /\ UNCHANGED <<instances, config, saveVars>>

\* ... and is removed; errors of both are swallowed.
RemoveContainer(c) ==
    /\ calls[c].at = "remove"
    /\ LET id == Head(calls[c].list)
       IN  /\ \/ docker' = [docker EXCEPT ![id] = Gone] /\ UNCHANGED <<quiet, faults>>
              \/ Exists(id) /\ Fault(c) /\ UNCHANGED docker
           /\ status' = [status EXCEPT ![id] = "stopped"]
    /\ \/ /\ Len(calls[c].list) > 1
          /\ calls' = [calls EXCEPT ![c].at = "stop", ![c].list = Tail(@)]
          /\ UNCHANGED <<instances, config, saveVars>>
       \/ Len(calls[c].list) = 1 /\ AllStopped(c)
    /\ UNCHANGED <<timers, asked, phase, requests, exits>>
-----------------------------------------------------------------------------
\* spawnInstance() for the next instance of a call.
NextSlot(c) == <<calls[c].plugin, Len(calls[c].list)>>

SpawnFails(c) ==
    /\ AfterPlugin(c)
    /\ UNCHANGED <<docker, managerVars, asked, config, saveVars, phase, requests, exits>>

SpawnRefused(c) ==
    /\ quiet' = quiet \ {calls[c].plugin} /\ UNCHANGED faults
    /\ SpawnFails(c)

\* Docker's name filter finds the containers whose name holds the one asked for.
Found(c) == {id \in Ids : Exists(id) /\ <<NextSlot(c), docker[id].slot>> \in NameHolds}

Look(c) ==
    /\ calls[c].at = "list"
    /\ \/ /\ Found(c) = {}
          /\ calls' = [calls EXCEPT ![c].at = "create"]
       \/ \E id \in Found(c) :
              calls' = [calls EXCEPT ![c].at = "clear", ![c].target = id]
    /\ UNCHANGED <<docker, managerVars, asked, config, saveVars, phase, quiet, countVars>>

ClearExisting(c) ==
    /\ calls[c].at = "clear"
    /\ LET id == calls[c].target
       IN  IF Exists(id)
           THEN /\ docker' = [docker EXCEPT ![id] = Gone]
                /\ calls' = [calls EXCEPT ![c].at = "create", ![c].target = NoId]
                /\ quiet' = quiet \ ({PluginOf(id)} \ {calls[c].plugin})
                /\ UNCHANGED <<managerVars, asked, config, saveVars, phase, countVars>>
           ELSE SpawnRefused(c)

Known(id) ==
    \/ Exists(id)
    \/ id \in asked
    \/ \E p \in Plugins : id \in ToSet(instances[p])
    \/ \E c \in Callers : id \in ToSet(calls[c].list) \cup {calls[c].target}

Create(c) ==
    /\ calls[c].at = "create"
    /\ IF \E id \in Ids : docker[id].slot = NextSlot(c)
       THEN SpawnRefused(c)
       ELSE /\ \E id \in Ids :
                  /\ ~Known(id) /\ \A other \in 1..(id - 1) : Known(other)
                  /\ docker' = [docker EXCEPT ![id] = [slot |-> NextSlot(c),
                                                         state |-> "created"]]
                  /\ calls' = [calls EXCEPT ![c].at = "run", ![c].target = id]
            /\ UNCHANGED <<managerVars, asked, config, saveVars, phase, quiet, countVars>>

\* The instances become known to the rest of the program together, after the last
\* one was started.
SetInstances(c, ids) ==
    LET p == calls[c].plugin
    IN  /\ instances' = [instances EXCEPT ![p] = ids]
        /\ timers' = timers \cup {p}
        /\ calls' = [calls EXCEPT ![c].at = "wait", ![c].list = <<>>, ![c].target = NoId]

StartContainer(c) ==
    /\ calls[c].at = "run"
    /\ LET id == calls[c].target  ids == Append(calls[c].list, calls[c].target)
       IN  IF Exists(id)
           THEN /\ docker' = [docker EXCEPT ![id].state = "up"]
                /\ status' = [status EXCEPT ![id] = "live"]
                /\ IF Len(ids) = Count[calls[c].plugin] THEN SetInstances(c, ids)
                   ELSE /\ calls' = [calls EXCEPT ![c].at = "list", ![c].list = ids,
                                                   ![c].target = NoId]
                        /\ UNCHANGED <<instances, timers>>
                /\ UNCHANGED <<asked, config, saveVars, phase, quiet, countVars>>
           ELSE SpawnRefused(c)

DockerFails(c) ==
    /\ calls[c].at \in {"list", "clear", "create", "run"}
    /\ Fault(c)
    /\ SpawnFails(c)

\* waitForHealthy(): an instance answers well and is marked, whatever happened to
\* it meanwhile, ...
WaitAsks(c) ==
    /\ calls[c].at = "wait"
    /\ \E id \in ToSet(instances[calls[c].plugin]) :
           /\ docker[id].state = "up"
           /\ calls' = [calls EXCEPT ![c].at = "answered", ![c].target = id]
    /\ UNCHANGED <<docker, managerVars, asked, config, saveVars, phase, quiet, countVars>>

WaitAnswered(c) ==
    /\ calls[c].at = "answered"
    /\ status' = [status EXCEPT ![calls[c].target] = "live"]
    /\ AfterPlugin(c)
    /\ UNCHANGED <<docker, instances, timers, asked, config, saveVars, phase, quiet,
                   countVars>>

\* ... or thirty seconds pass, or the plugin has gone.
MutantWaitsOn(c) == instances[calls[c].plugin] = <<>>

MayGiveUp(c) == TRUE

WaitOver(c) ==
    /\ calls[c].at = "wait"
    /\ MayGiveUp(c)
    /\ AfterPlugin(c)
    /\ UNCHANGED <<docker, managerVars, asked, config, saveVars, phase, quiet, countVars>>
-----------------------------------------------------------------------------
\* startHealthCheck(): the instances that are not stopped are asked; a round that
\* began before its timer was cleared goes on.
HealthAsked(p) ==
    /\ asked = {}
    /\ \E id \in ToSet(instances[p]) : status[id] # "stopped" /\ asked' = {id}
    /\ UNCHANGED <<docker, managerVars, config, saveVars, calls, phase, quiet, countVars>>

\* The answer is written whatever happened to the instance meanwhile.
HealthWritten ==
    /\ asked # {}
    /\ status' = [id \in Ids |-> IF id \in asked THEN "live" ELSE status[id]]
    /\ asked' = {}
    /\ UNCHANGED <<docker, instances, timers, config, saveVars, calls, phase, quiet,
                   countVars>>
-----------------------------------------------------------------------------
\* loadConfig() puts environment variables into the values, spells them as the program
\* uses them, and checks every plugin of the file; addPlugin() and updatePluginConfig()
\* do nothing of this with what they are given.
Read(v) == IF v = NoConfig THEN NoConfig ELSE Loaded[v]
Parses(text) == \A p \in Plugins : text[p] # "cut" /\ Read(text[p]) # Refused
Load(text) == [p \in Plugins |-> Read(text[p])]

EnabledPlugins(cfg) == {p \in Plugins : cfg[p] # NoConfig}

MutantNoCleanup == <<>>

StaleContainers == SetToSeq({id \in Ids : Exists(id)})

\* initialize().  When it cannot reach Docker or read the file, or not parse it, the
\* program goes on without container plugins, and leaves the containers it finds alone.
StartFails ==
    /\ phase = "down"
    /\ Budget /\ faults < MaxFaults /\ faults' = faults + 1
    /\ phase' = "broken"
    /\ UNCHANGED <<docker, managerVars, asked, config, saveVars, calls, quiet, requests, exits>>

Start ==
    /\ phase = "down"
    /\ IF ~Parses(file)
       THEN /\ phase' = "broken"
            /\ UNCHANGED <<config, calls, quiet, loneSave>>
       ELSE /\ phase' = "starting"
            /\ config' = Load(file)
            /\ quiet' = Plugins /\ loneSave' = TRUE
            /\ calls' = [calls EXCEPT ![Startup] =
                  [IdleCall EXCEPT !.op = "start", !.list = StaleContainers,
                                   !.at = IF StaleContainers = <<>> THEN "next" ELSE "clean",
                                   !.rest = EnabledPlugins(Load(file))]]
    /\ UNCHANGED <<docker, managerVars, asked, file, countVars>>

\* cleanupStaleContainers(): errors are logged.
CleanUp(c) ==
    /\ calls[c].at = "clean"
    /\ LET id == Head(calls[c].list)
       IN  \/ docker' = [docker EXCEPT ![id] = Gone] /\ UNCHANGED <<quiet, faults>>
           \/ /\ Budget /\ faults < MaxFaults /\ faults' = faults + 1
              /\ quiet' = quiet \ {PluginOf(id)}
              /\ UNCHANGED docker
    /\ calls' = [calls EXCEPT ![c].list = Tail(@),
                              ![c].at = IF Len(calls[c].list) = 1 THEN "next" ELSE "clean"]
    /\ UNCHANGED <<managerVars, asked, config, saveVars, phase, requests, exits>>

\* The loops over plugins of initialize() and restartAllPlugins().
NextPlugin(c) ==
    /\ calls[c].at = "next" /\ calls[c].op # "shutdown"
    /\ \/ \E p \in calls[c].rest :
             LET others == calls[c].rest \ {p}
             IN  /\ \/ /\ calls[c].op = "start"
                       /\ calls' = [calls EXCEPT ![c].at = "list", ![c].plugin = p,
                                                 ![c].rest = others]
                       /\ UNCHANGED timers
                    \/ /\ calls[c].op = "restartAll"
                       /\ IF instances[p] # <<>> /\ config[p] # NoConfig
                          THEN Stopping(c, "restartAll", p, others)
                          ELSE /\ calls' = [calls EXCEPT ![c].rest = others]
                               /\ UNCHANGED timers
                 /\ UNCHANGED phase
       \/ /\ calls[c].rest = {}
          /\ EndCall(c)
          /\ phase' = IF calls[c].op = "start" THEN "ready" ELSE phase
          /\ UNCHANGED timers
    /\ UNCHANGED <<docker, status, instances, asked, config, saveVars, quiet, countVars>>

\* shutdown(), on a signal.
Shutdown ==
    /\ phase \in {"starting", "ready"} /\ ~Busy(Signal)
    /\ Budget /\ exits < MaxExits /\ exits' = exits + 1
    /\ timers' = {}
    /\ quiet' = {p \in quiet : \A d \in Callers : ~Concerns(d, p)}
    /\ calls' = [calls EXCEPT ![Signal] = [IdleCall EXCEPT !.op = "shutdown",
                                                              !.at = "next"]]
    /\ UNCHANGED <<docker, status, instances, asked, config, saveVars, phase,
                   requests, faults>>

ShutdownNext ==
    /\ calls[Signal].at = "next"
    /\ \E p \in Plugins \ calls[Signal].rest :
           /\ instances[p] # <<>>
           /\ calls' = [calls EXCEPT ![Signal].at = "stop", ![Signal].plugin = p,
                                     ![Signal].rest = @ \cup {p},
                                     ![Signal].list = instances[p]]
    /\ UNCHANGED <<docker, managerVars, asked, config, saveVars, phase, quiet, countVars>>

ProcessEnds ==
    /\ status' = [id \in Ids |-> "stopped"]
    /\ instances' = [p \in Plugins |-> <<>>]
    /\ timers' = {} /\ asked' = {}
    /\ config' = EmptyConfig
    /\ loneSave' = (loneSave /\ \A c \in Callers : calls[c].at # "save")
    /\ calls' = [c \in Callers |-> IdleCall]
    /\ phase' = "down"
    /\ UNCHANGED <<docker, file, requests, faults>>

Exit ==
    /\ calls[Signal].at = "next"
    /\ \A p \in Plugins \ calls[Signal].rest : instances[p] = <<>>
    /\ ProcessEnds
    /\ UNCHANGED <<quiet, exits>>

Crash ==
    /\ phase # "down"
    /\ Budget /\ exits < MaxExits /\ exits' = exits + 1
    /\ quiet' = {}
    /\ ProcessEnds

\* What a call does of its own accord; no container has to become healthy.
CallStep(c) ==
    \/ SaveEnds(c) \/ StopContainer(c) \/ RemoveContainer(c)
    \/ Look(c) \/ ClearExisting(c) \/ Create(c) \/ StartContainer(c)
    \/ WaitAnswered(c) \/ WaitOver(c) \/ CleanUp(c) \/ NextPlugin(c)

Next ==
    \/ \E c \in Requests :
          \/ RestartAll(c)
          \/ \E p \in Plugins : RestartPlugin(c, p) \/ RemovePlugin(c, p)
          \/ \E p \in Plugins, v \in Given : AddPlugin(c, p, v) \/ Update(c, p, v)
    \/ \E c \in Callers : CallStep(c) \/ SaveFails(c) \/ DockerFails(c) \/ WaitAsks(c)
    \/ HealthWritten \/ \E p \in Plugins : HealthAsked(p)
    \/ Start \/ StartFails \/ Shutdown \/ ShutdownNext \/ Exit \/ Crash

Spec == Init /\ [][Next]_vars

\* Docker and the file system answer, and timers expire.
Fairness ==
    /\ \A c \in Callers : WF_vars(CallStep(c))
    /\ WF_vars(ShutdownNext) /\ WF_vars(Exit)

FairSpec == Spec /\ Fairness
-----------------------------------------------------------------------------
ConfigType == [Plugins -> Versions \cup {NoConfig}]

Stages == {"idle", "clean", "next", "save", "stop", "remove", "list", "clear",
           "create", "run", "wait", "answered"}

TypeOK ==
    /\ docker \in [Ids -> [slot : Slots, state : {"created", "up", "down"}] \cup {Gone}]
    /\ status \in [Ids -> {"live", "stopped"}]
    /\ instances \in [Plugins -> Seq(Ids)]
    /\ timers \subseteq Plugins /\ quiet \subseteq Plugins
    /\ asked \subseteq Ids
    /\ config \in ConfigType /\ file \in ConfigType \cup {CutFile}
    /\ calls \in [Callers -> [op : Whole \cup {"none", "restart", "add", "remove", "update"},
                              at : Stages, plugin : Plugins \cup {NoPlugin},
                              rest : SUBSET Plugins, list : Seq(Ids),
                              target : Ids \cup {NoId}, text : ConfigType \cup {CutFile}]]
    /\ \A c \in Callers : calls[c].at \in {"stop", "remove", "clean"} => calls[c].list # <<>>
    /\ phase \in {"down", "starting", "ready", "broken"}
    /\ loneSave \in BOOLEAN
    /\ requests \in 0..MaxRequests /\ faults \in 0..MaxFaults /\ exits \in 0..MaxExits

ContainersOf(p) == {id \in Ids : Exists(id) /\ PluginOf(id) = p}

Untouched(p) == \A c \in Callers : ~Concerns(c, p)

\* Between calls the three records of a plugin agree: a plugin is in the
\* configuration if and only if its instances are known and checked, Docker runs
\* those containers and no other of the plugin, and none of them is taken for
\* stopped (health checks would skip it for ever); and a shutdown leaves none.
\* This holds of the plugins whose calls did not overlap and got no error from
\* Docker since the process started, whatever earlier processes left behind.
Settled ==
    \A p \in quiet :
        /\ (phase = "ready" /\ Untouched(p)) =>
              /\ (instances[p] # <<>>) = (config[p] # NoConfig)
              /\ (p \in timers) = (instances[p] # <<>>)
              /\ ContainersOf(p) = ToSet(instances[p])
              /\ \A id \in ContainersOf(p) : docker[id].state = "up" /\ status[id] # "stopped"
        /\ phase = "down" => ContainersOf(p) = {}

\* Unless the last save was cut by a crash, met another one or failed, the file is whole,
\* whatever became of the process; and of every plugin a restart will read what the
\* manager works with now, save for a configuration that loadConfig() does not leave as
\* it is: the literal "${VAR}" or "2" a request gave (or the environment did) will be
\* read otherwise, and one that is refused takes all plugins with it.
ConfigSaved ==
    (loneSave /\ \A c \in Callers : calls[c].at # "save") =>
        /\ \A p \in Plugins : file[p] # "cut"
        /\ phase \in {"starting", "ready"} =>
              \A p \in Plugins : Read(config[p]) = config[p] => Read(file[p]) = config[p]

\* Every call ends, though containers never become healthy, requests overlap and
\* Docker refuses: when no more requests come, none is left hanging, and neither
\* start-up nor shutdown is.
CallsEnd == (\E c \in Callers : Busy(c)) ~> (\A c \in Callers : ~Busy(c))
=============================================================================
