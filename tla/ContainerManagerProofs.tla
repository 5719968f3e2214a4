------------------------ MODULE ContainerManagerProofs ------------------------
(***************************************************************************)
(* Theorems about the containers of the plugins, for every set of plugins  *)
(* with any number of instances, any names, and any number of requests at  *)
(* once.                                                                   *)
(*                                                                         *)
(*   TypeOK      the types;                                                *)
(*   CallsSound  what each call may be at, and what it has in hand then;   *)
(*   PhaseSound  what there is at each stage of the process;               *)
(*   SaveInv     a lone save writes what the manager works with;           *)
(*   OwnersInv   a container id that somebody knows stays its plugin's;    *)
(*   QuietInv    of a plugin none of whose calls overlapped or failed: one *)
(*               call at most is about it, and what that call has reached. *)
(*                                                                         *)
(* Together they are inductive.                                            *)
(***************************************************************************)
EXTENDS ContainerManager, FiniteSetTheorems, SequenceTheorems, TLAPS

CallType ==
    [op : Whole \cup {"none", "restart", "add", "remove", "update"}, at : Stages,
     plugin : Plugins \cup {NoPlugin}, rest : SUBSET Plugins, list : Seq(Ids),
     target : Ids \cup {NoId}, text : ConfigType \cup {CutFile}]
ContainerType == [slot : Slots, state : {"created", "up", "down"}] \cup {Gone}

Spawning == {"list", "clear", "create", "run"}
Waiting == {"wait", "answered"}
Ending == {"stop", "remove"}
Working == Spawning \cup Waiting \cup Ending \cup {"save"}

\* The stages of each call.
StagesOf(op) ==
    CASE op = "start" -> {"clean", "next"} \cup Spawning \cup Waiting
      [] op = "shutdown" -> {"next"} \cup Ending
      [] op = "restartAll" -> {"next"} \cup Ending \cup Spawning \cup Waiting
      [] op = "restart" -> Ending \cup Spawning \cup Waiting
      [] op = "add" -> {"save"} \cup Spawning \cup Waiting
      [] op = "update" -> {"save"} \cup Ending \cup Spawning \cup Waiting
      [] op = "remove" -> {"save"} \cup Ending
      [] OTHER -> {"idle"}

OpsOf(c) == IF c = Startup THEN {"start"} ELSE IF c = Signal THEN {"shutdown"}
            ELSE {"restart", "restartAll", "add", "remove", "update"}

SoundCall(c, call) ==
    /\ call.at = "idle" => call = IdleCall
    /\ call.at # "idle" => call.op \in OpsOf(c) /\ call.at \in StagesOf(call.op)
    /\ call.at \in Working =>
          /\ call.plugin \in Plugins
          /\ call.op = "shutdown" => call.plugin \in call.rest
          /\ call.op \in {"start", "restartAll"} => call.plugin \notin call.rest
    /\ call.at \in Ending \cup {"clean"} => call.list # <<>>
    /\ call.at \in Waiting \cup {"save", "next"} => call.list = <<>>
    /\ call.at \in Spawning => Len(call.list) < Count[call.plugin]
    /\ call.at \in {"clear", "run", "answered"} => call.target \in Ids

CallsSound == \A c \in Callers : SoundCall(c, calls[c])

PhaseSound ==
    /\ phase \in {"down", "broken"} =>
          /\ \A c \in Callers : ~Busy(c)
          /\ \A p \in Plugins : instances[p] = <<>>
          /\ timers = {}
    /\ phase = "starting" <=> Busy(Startup)

FileWhole == \A p \in Plugins : file[p] # "cut"

FileServes ==
    phase \in {"starting", "ready"} =>
        \A p \in Plugins : Read(config[p]) = config[p] => Read(file[p]) = config[p]

SaveInv ==
    loneSave =>
        /\ \A c, d \in Callers : calls[c].at = "save" /\ calls[d].at = "save" => c = d
        /\ \A c \in Callers : calls[c].at = "save" => calls[c].text = config
        /\ (\A c \in Callers : calls[c].at # "save") => FileWhole /\ FileServes

\* Those of the containers that are there are of plugin p.
Owned(ids, p) == \A id \in ToSet(ids) : Exists(id) => PluginOf(id) = p

OwnersInv ==
    /\ \A p \in Plugins : Owned(instances[p], p)
    /\ \A c \in Callers :
          /\ calls[c].at # "clean" => Owned(calls[c].list, calls[c].plugin)
          /\ calls[c].at = "run" /\ Exists(calls[c].target) =>
                PluginOf(calls[c].target) = calls[c].plugin

-----------------------------------------------------------------------------
(* What is known of a quiet plugin. *)

NoInstances(p) == instances[p] = <<>> /\ p \notin timers
Absent(p) == NoInstances(p) /\ ContainersOf(p) = {}
Holds(p, ids) == ContainersOf(p) = ToSet(ids) /\ IsInjective(ids)
Lives(id) == docker[id].state = "up" /\ status[id] = "live"

\* The three records agree.
Agrees(p) ==
    /\ (instances[p] # <<>>) = (config[p] # NoConfig)
    /\ (p \in timers) = (instances[p] # <<>>)
    /\ Holds(p, instances[p])
    /\ \A id \in ContainersOf(p) : Lives(id)

\* Instances ids have been spawned, and those of more are being spawned.
Spawned(p, ids, more) ==
    /\ NoInstances(p) /\ config[p] # NoConfig /\ IsInjective(ids)
    /\ ContainersOf(p) = ToSet(ids) \cup more
    /\ \A id \in ToSet(ids) : Lives(id) /\ docker[id].slot[2] < Len(ids)

\* What a call has reached for the plugin it works on, ...
WorkAgrees(call, p) ==
    /\ call.at = "save" =>
          /\ call.op = "add" => Absent(p) /\ config[p] # NoConfig
          /\ call.op = "update" => Agrees(p)
          /\ call.op = "remove" => Absent(p) /\ config[p] = NoConfig
    /\ call.at \in Ending =>
          /\ Holds(p, call.list)
          /\ call.op # "shutdown" => p \notin timers
          /\ call.op \in {"restart", "update", "restartAll"} => config[p] # NoConfig
    /\ call.at \in Spawning \ {"run"} => Spawned(p, call.list, {})
    /\ call.at = "clear" => call.target \notin ContainersOf(p)
    /\ call.at = "run" =>
          /\ Spawned(p, call.list, {call.target}) /\ call.target \notin ToSet(call.list)
          /\ docker[call.target].slot[2] = Len(call.list)
    /\ call.at \in Waiting => Agrees(p)

\* ... and for the plugins it has done or will come to.
RestAgrees(call, p) ==
    /\ call.at = "clean" =>
          /\ NoInstances(p) /\ ContainersOf(p) \subseteq ToSet(call.list)
          /\ (p \in call.rest) = (config[p] # NoConfig)
    /\ call.op = "start" /\ call.at # "clean" =>
          IF p \in call.rest THEN Absent(p) /\ config[p] # NoConfig ELSE Agrees(p)
    /\ call.op = "restartAll" => Agrees(p)
    /\ call.op = "shutdown" =>
          IF p \in call.rest THEN ContainersOf(p) = {} ELSE Holds(p, instances[p])

CallAgrees(call, p) ==
    IF call.plugin = p /\ call.at \in Working THEN WorkAgrees(call, p) ELSE RestAgrees(call, p)

QuietPlugin(p) ==
    /\ \A c, d \in Callers : Concerns(c, p) /\ Concerns(d, p) => c = d
    /\ phase \in {"down", "broken"} => ContainersOf(p) = {}
    /\ \A c \in Callers : Concerns(c, p) => CallAgrees(calls[c], p)
    /\ phase = "ready" /\ Untouched(p) => Agrees(p)

QuietInv == \A p \in quiet : QuietPlugin(p)

ManagerInv ==
    TypeOK /\ CallsSound /\ PhaseSound /\ SaveInv /\ OwnersInv /\ QuietInv

-----------------------------------------------------------------------------
(* The moves of a call. *)

Moves(c, new) ==
    /\ c \in Callers /\ new \in CallType /\ SoundCall(c, new)
    /\ calls' = [calls EXCEPT ![c] = new]

CallsInv == TypeOK /\ CallsSound

LEMMA CallTypes ==
    ASSUME CallsInv
    PROVE  /\ calls \in [Callers -> CallType]
           /\ docker \in [Ids -> ContainerType]
           /\ instances \in [Plugins -> Seq(Ids)] /\ status \in [Ids -> {"live", "stopped"}]
           /\ config \in ConfigType /\ file \in ConfigType \cup {CutFile}
           /\ \A c \in Callers : SoundCall(c, calls[c])
BY DEF CallsInv, TypeOK, CallType, ContainerType, CallsSound

LEMMA IdleCallSound == IdleCall \in CallType /\ \A c : SoundCall(c, IdleCall)
BY DEF IdleCall, CallType, SoundCall, Stages, Working, Waiting, Ending, Spawning, ConfigType,
       NoId

LEMMA MovedCalls ==
    ASSUME calls \in [Callers -> CallType], NEW c, NEW new, Moves(c, new)
    PROVE  /\ calls' \in [Callers -> CallType]
           /\ calls'[c] = new
           /\ \A d \in Callers : d # c => calls'[d] = calls[d]
BY DEF Moves

LEMMA MovedCallsSound ==
    ASSUME CallsInv, NEW c, NEW new, Moves(c, new)
    PROVE  CallsSound'
<1> SUFFICES ASSUME NEW d \in Callers
             PROVE  SoundCall(d, calls'[d])
    BY DEF CallsSound, SoundCall
<1>1. CASE d = c
    BY <1>1, CallTypes, MovedCalls DEF Moves
<1>2. CASE d # c
    BY <1>2, CallTypes, MovedCalls
<1> QED  BY <1>1, <1>2

LEMMA EndedCall ==
    ASSUME CallsInv, NEW c \in Callers, EndCall(c)
    PROVE  Moves(c, IdleCall)
BY IdleCallSound DEF Moves, EndCall

LEMMA NextCall ==
    ASSUME CallsInv, NEW c \in Callers, calls[c].op \in {"start", "restartAll", "shutdown"},
           Busy(c)
    PROVE  LET new == [calls[c] EXCEPT !.at = "next", !.list = <<>>, !.target = NoId]
           IN  /\ new \in CallType /\ SoundCall(c, new)
               /\ [calls EXCEPT ![c].at = "next", ![c].list = <<>>, ![c].target = NoId]
                    = [calls EXCEPT ![c] = new]
<1> DEFINE new == [calls[c] EXCEPT !.at = "next", !.list = <<>>, !.target = NoId]
<1>1. calls[c] \in CallType /\ SoundCall(c, calls[c]) /\ calls \in [Callers -> CallType]
    BY CallTypes
<1>2. <<>> \in Seq(Ids)
    OBVIOUS
<1>3. new \in CallType
    BY <1>1, <1>2 DEF CallType, Stages
<1>4. SoundCall(c, new)
    BY <1>1 DEF SoundCall, CallType, Busy, StagesOf, Working, Waiting, Ending, Spawning,
                IdleCall
<1>5. [calls EXCEPT ![c].at = "next", ![c].list = <<>>, ![c].target = NoId]
        = [calls EXCEPT ![c] = new]
    BY <1>1 DEF CallType
<1> QED  BY <1>3, <1>4, <1>5


LEMMA AfterPluginMoves ==
    ASSUME CallsInv, NEW c \in Callers, Busy(c), calls[c].op # "shutdown", AfterPlugin(c)
    PROVE  Moves(c, IF calls[c].op \in {"start", "restartAll"}
                    THEN [calls[c] EXCEPT !.at = "next", !.list = <<>>, !.target = NoId]
                    ELSE IdleCall)
<1>1. CASE calls[c].op \in {"start", "restartAll"}
    BY <1>1, NextCall DEF AfterPlugin, Moves
<1>2. CASE calls[c].op \notin {"start", "restartAll"}
    BY <1>2, EndedCall DEF AfterPlugin
<1> QED  BY <1>1, <1>2

\* A call that begins to stop the instances of a plugin.
StopCall(op, p, rest, list) ==
    [IdleCall EXCEPT !.op = op, !.at = "stop", !.plugin = p, !.rest = rest, !.list = list]

LEMMA StopCallSound ==
    ASSUME CallsInv, NEW c \in Callers, NEW op \in OpsOf(c), NEW p \in Plugins,
           NEW rest \in SUBSET Plugins, p \notin rest, "stop" \in StagesOf(op),
           op # "shutdown", instances[p] # <<>>
    PROVE  StopCall(op, p, rest, instances[p]) \in CallType
           /\ SoundCall(c, StopCall(op, p, rest, instances[p]))
<1> DEFINE new == StopCall(op, p, rest, instances[p])
<1>1. instances[p] \in Seq(Ids)
    BY CallTypes
<1>2. op \in {"start", "restart", "restartAll", "add", "update", "remove"}
    BY DEF OpsOf
<1>3. new \in CallType
    BY <1>1, <1>2, IdleCallSound DEF StopCall, CallType, Whole, Stages
<1>4. SoundCall(c, new)
    BY <1>2, IdleCallSound DEF StopCall, SoundCall, IdleCall, Working, Waiting, Ending, Spawning
<1> QED  BY <1>3, <1>4

\* A call that begins to save the configuration.
SaveCall(op, p, cfg) ==
    [IdleCall EXCEPT !.op = op, !.at = "save", !.plugin = p, !.text = cfg]

LEMMA SaveCallSound ==
    ASSUME CallsInv, NEW c \in Callers, NEW op \in OpsOf(c), NEW p \in Plugins,
           op \in {"add", "remove", "update"}, NEW cfg \in ConfigType
    PROVE  SaveCall(op, p, cfg) \in CallType /\ SoundCall(c, SaveCall(op, p, cfg))
<1> DEFINE new == SaveCall(op, p, cfg)
<1>3. new \in CallType
    BY IdleCallSound DEF SaveCall, CallType, Whole, Stages
<1>4. SoundCall(c, new)
    BY IdleCallSound DEF SaveCall, SoundCall, IdleCall, Working, Waiting, Ending, Spawning,
                         StagesOf
<1> QED  BY <1>3, <1>4

LEMMA StoppingMoves ==
    ASSUME CallsInv, NEW c \in Callers, NEW op \in OpsOf(c), NEW p \in Plugins,
           NEW rest \in SUBSET Plugins, p \notin rest, "stop" \in StagesOf(op),
           op # "shutdown", instances[p] # <<>>, Stopping(c, op, p, rest)
    PROVE  Moves(c, StopCall(op, p, rest, instances[p]))
BY StopCallSound DEF Stopping, StopCall, Moves

LEMMA SavingMoves ==
    ASSUME CallsInv, NEW c \in Callers, NEW op \in OpsOf(c), NEW p \in Plugins,
           op \in {"add", "remove", "update"}, NEW cfg \in ConfigType,
           SavingCall(c, op, p, cfg)
    PROVE  Moves(c, SaveCall(op, p, cfg))
BY SaveCallSound DEF SavingCall, SaveCall, TextToSave, Moves

\* A request is neither initialize() nor shutdown().
LEMMA RequestCaller ==
    ASSUME NEW c \in Requests
    PROVE  /\ c \in Callers /\ c # Startup /\ c # Signal
           /\ OpsOf(c) = {"restart", "restartAll", "add", "remove", "update"}
BY ContainerAssumption DEF Callers, Startup, Signal, OpsOf

LEMMA RestartAllMoves ==
    ASSUME CallsInv, NEW c \in Requests, RestartAll(c)
    PROVE  Moves(c, [IdleCall EXCEPT !.op = "restartAll", !.at = "next",
                                     !.rest = {p \in Plugins : instances[p] # <<>>}])
<1> DEFINE rest == {p \in Plugins : instances[p] # <<>>}
           new == [IdleCall EXCEPT !.op = "restartAll", !.at = "next", !.rest = rest]
<1>1. rest \in SUBSET Plugins /\ c \in Callers /\ "restartAll" \in OpsOf(c)
    BY RequestCaller
<1>2. calls' = [calls EXCEPT ![c] = new]
    BY DEF RestartAll
<1> HIDE DEF rest
<1>3. new \in CallType
    BY <1>1, IdleCallSound DEF CallType, Stages, Whole
<1>4. SoundCall(c, new)
    BY <1>1 DEF SoundCall, IdleCall, Working, Waiting, Ending, Spawning, StagesOf
<1> QED  BY <1>1, <1>2, <1>3, <1>4 DEF Moves, rest


\* What the call in hand allows: the plugin a call works on is a plugin, and so on.
LEMMA WorkingCall ==
    ASSUME CallsInv, NEW c \in Callers, calls[c].at \in Working
    PROVE  /\ Busy(c) /\ calls[c].plugin \in Plugins
           /\ calls[c].op \in OpsOf(c) /\ calls[c].at \in StagesOf(calls[c].op)
           /\ calls[c].list \in Seq(Ids)
BY CallTypes DEF SoundCall, Busy, CallType, Working, Waiting, Ending, Spawning

LEMMA SaveEndsMoves ==
    ASSUME CallsInv, NEW c \in Callers, SaveEnds(c)
    PROVE  LET p == calls[c].plugin
           IN  \/ /\ calls[c].op = "add" /\ timers' = timers
                  /\ Moves(c, [calls[c] EXCEPT !.at = "list", !.text = CutFile])
               \/ /\ calls[c].op = "update" /\ instances[p] # <<>> /\ config[p] # NoConfig
                  /\ Stopping(c, "update", p, {})
                  /\ Moves(c, StopCall("update", p, {}, instances[p]))
               \/ /\ calls[c].op \in {"remove", "update"} /\ timers' = timers
                  /\ calls[c].op = "update" => instances[p] = <<>> \/ config[p] = NoConfig
                  /\ Moves(c, IdleCall)
<1> DEFINE p == calls[c].plugin
           new == [calls[c] EXCEPT !.at = "list", !.text = CutFile]
<1>1. /\ calls[c] \in CallType /\ SoundCall(c, calls[c]) /\ calls \in [Callers -> CallType]
      /\ calls[c].at = "save"
    BY CallTypes DEF SaveEnds
<1>2. p \in Plugins /\ calls[c].op \in OpsOf(c) /\ calls[c].list = <<>>
    BY <1>1 DEF SoundCall, Working, Waiting, Ending, Spawning
<1>3. CASE calls[c].op = "add" /\ UNCHANGED timers
               /\ calls' = [calls EXCEPT ![c].at = "list", ![c].text = CutFile]
  <2>1. calls' = [calls EXCEPT ![c] = new]
    BY <1>1, <1>3 DEF CallType
  <2>2. new \in CallType
    BY <1>1 DEF CallType, Stages
  <2>3. Count[p] > 0 /\ Len(<<>>) = 0 /\ Count[p] \in Nat
    BY <1>2, ContainerAssumption
  <2>4. SoundCall(c, new)
    BY <1>1, <1>2, <1>3, <2>3 DEF SoundCall, CallType, StagesOf, Working, Waiting, Ending,
                                  Spawning
  <2> QED  BY <1>3, <2>1, <2>2, <2>4 DEF Moves
<1>4. CASE /\ calls[c].op = "update" /\ instances[p] # <<>> /\ config[p] # NoConfig
           /\ Stopping(c, "update", p, {})
  <2>1. "stop" \in StagesOf("update")
    BY DEF StagesOf, Ending
  <2>2. Moves(c, StopCall("update", p, {}, instances[p]))
    BY <1>2, <1>4, <2>1, StoppingMoves
  <2> QED  BY <1>4, <2>2
<1>5. CASE /\ calls[c].op \in {"remove", "update"}
           /\ calls[c].op = "update" => instances[p] = <<>> \/ config[p] = NoConfig
           /\ EndCall(c) /\ UNCHANGED timers
    BY <1>5, EndedCall
<1> QED  BY <1>3, <1>4, <1>5 DEF SaveEnds

LEMMA StopContainerMoves ==
    ASSUME CallsInv, NEW c \in Callers, StopContainer(c)
    PROVE  Moves(c, [calls[c] EXCEPT !.at = "remove"])
<1> DEFINE new == [calls[c] EXCEPT !.at = "remove"]
<1>1. /\ calls[c] \in CallType /\ SoundCall(c, calls[c]) /\ calls \in [Callers -> CallType]
      /\ calls[c].at = "stop"
    BY CallTypes DEF StopContainer
<1>2. calls' = [calls EXCEPT ![c] = new]
    BY <1>1 DEF CallType, StopContainer
<1>3. new \in CallType
    BY <1>1 DEF CallType, Stages
<1>4. SoundCall(c, new)
    BY <1>1 DEF SoundCall, CallType, StagesOf, Working, Waiting, Ending, Spawning
<1> QED  BY <1>2, <1>3, <1>4 DEF Moves

LEMMA SeqParts ==
    ASSUME NEW s \in Seq(Ids), s # <<>>
    PROVE  /\ Head(s) \in Ids /\ Tail(s) \in Seq(Ids)
           /\ Len(s) \in Nat \ {0}
           /\ Len(Tail(s)) = Len(s) - 1
           /\ Len(s) = 1 <=> Tail(s) = <<>>
<1>1. Len(s) \in Nat \ {0}
    BY EmptySeq
<1>2. Head(s) \in Ids /\ Tail(s) \in Seq(Ids) /\ Len(Tail(s)) = Len(s) - 1
    BY HeadTailProperties
<1>3. Tail(s) = <<>> <=> Len(Tail(s)) = 0
    BY <1>2, EmptySeq
<1>4. Len(s) = 1 <=> Tail(s) = <<>>
    BY <1>1, <1>2, <1>3
<1> QED  BY <1>1, <1>2, <1>4

LEMMA LongSeq ==
    ASSUME NEW s \in Seq(Ids), Len(s) > 1
    PROVE  s # <<>> /\ Len(s) # 1 /\ Tail(s) # <<>> /\ Tail(s) \in Seq(Ids)
<1>1. Len(s) \in Nat /\ s # <<>>
    BY EmptySeq, LenProperties
<1>2. \A n \in Nat : n > 1 => n # 1
    OBVIOUS
<1>3. Len(s) # 1
    BY <1>1, <1>2
<1> QED  BY <1>1, <1>3, SeqParts, Zenon

\* The list of a call that stops instances.
LEMMA ListInHand ==
    ASSUME CallsInv, NEW c \in Callers, calls[c].at \in Ending \cup {"clean"}
    PROVE  calls[c].list \in Seq(Ids) /\ calls[c].list # <<>>
BY CallTypes DEF SoundCall, CallType

LEMMA AllStoppedMoves ==
    ASSUME CallsInv, NEW c \in Callers, calls[c].at = "remove", AllStopped(c)
    PROVE  LET p == calls[c].plugin
               cfg == [config EXCEPT ![p] = NoConfig]
           IN  \/ /\ calls[c].op \in {"restart", "update", "restartAll"}
                  /\ instances' = [instances EXCEPT ![p] = <<>>]
                  /\ UNCHANGED <<config, saveVars>>
                  /\ Moves(c, [calls[c] EXCEPT !.at = "list", !.list = <<>>])
               \/ /\ calls[c].op = "remove" /\ config[p] # NoConfig
                  /\ instances' = [instances EXCEPT ![p] = <<>>]
                  /\ SavingCall(c, "remove", p, cfg)
                  /\ Moves(c, SaveCall("remove", p, cfg))
               \/ /\ calls[c].op = "remove" /\ config[p] = NoConfig
                  /\ instances' = [instances EXCEPT ![p] = <<>>]
                  /\ UNCHANGED <<config, saveVars>>
                  /\ Moves(c, IdleCall)
               \/ /\ calls[c].op = "shutdown"
                  /\ UNCHANGED <<instances, config, saveVars>>
                  /\ Moves(c, [calls[c] EXCEPT !.at = "next", !.list = <<>>])
<1> DEFINE p == calls[c].plugin
           cfg == [config EXCEPT ![p] = NoConfig]
           new(at) == [calls[c] EXCEPT !.at = at, !.list = <<>>]
<1>1. /\ calls[c] \in CallType /\ SoundCall(c, calls[c]) /\ calls \in [Callers -> CallType]
      /\ calls[c].at = "remove" /\ <<>> \in Seq(Ids)
    BY CallTypes
<1>2. p \in Plugins /\ calls[c].op \in OpsOf(c)
    BY <1>1 DEF SoundCall, Working, Waiting, Ending, Spawning
<1>3. Count[p] > 0 /\ Len(<<>>) = 0 /\ Count[p] \in Nat
    BY <1>2, ContainerAssumption
<1>4. CASE /\ calls[c].op \in {"restart", "update", "restartAll"}
           /\ instances' = [instances EXCEPT ![p] = <<>>]
           /\ calls' = [calls EXCEPT ![c].at = "list", ![c].list = <<>>]
           /\ UNCHANGED <<config, saveVars>>
  <2>1. calls' = [calls EXCEPT ![c] = new("list")]
    BY <1>1, <1>4 DEF CallType
  <2>2. new("list") \in CallType
    BY <1>1 DEF CallType, Stages
  <2>3. SoundCall(c, new("list"))
    BY <1>1, <1>2, <1>3, <1>4 DEF SoundCall, CallType, StagesOf, Working, Waiting, Ending,
                                  Spawning
  <2> QED  BY <1>4, <2>1, <2>2, <2>3 DEF Moves
<1>5. CASE /\ calls[c].op = "remove"
           /\ instances' = [instances EXCEPT ![p] = <<>>]
           /\ WithoutConfig(c, "remove", p)
  <2>1. cfg \in ConfigType
    BY CallTypes DEF ConfigType
  <2>2. CASE config[p] # NoConfig
    BY <1>2, <1>5, <2>1, <2>2, SavingMoves DEF WithoutConfig
  <2>3. CASE config[p] = NoConfig
    BY <1>5, <2>3, EndedCall DEF WithoutConfig
  <2> QED  BY <2>2, <2>3
<1>6. CASE /\ calls[c].op = "shutdown"
           /\ calls' = [calls EXCEPT ![c].at = "next", ![c].list = <<>>]
           /\ UNCHANGED <<instances, config, saveVars>>
  <2>1. calls' = [calls EXCEPT ![c] = new("next")]
    BY <1>1, <1>6 DEF CallType
  <2>2. new("next") \in CallType
    BY <1>1 DEF CallType, Stages
  <2>3. SoundCall(c, new("next"))
    BY <1>1, <1>2, <1>6 DEF SoundCall, CallType, StagesOf, Working, Waiting, Ending, Spawning
  <2> QED  BY <1>6, <2>1, <2>2, <2>3 DEF Moves
<1> QED  BY <1>4, <1>5, <1>6 DEF AllStopped

LEMMA RemoveOneMoves ==
    ASSUME CallsInv, NEW c \in Callers, calls[c].at = "remove", Len(calls[c].list) > 1,
           calls' = [calls EXCEPT ![c].at = "stop", ![c].list = Tail(@)]
    PROVE  Moves(c, [calls[c] EXCEPT !.at = "stop", !.list = Tail(calls[c].list)])
<1> DEFINE new == [calls[c] EXCEPT !.at = "stop", !.list = Tail(calls[c].list)]
<1>1. /\ calls[c] \in CallType /\ SoundCall(c, calls[c]) /\ calls \in [Callers -> CallType]
      /\ calls[c].at = "remove"
    BY CallTypes
<1>2. calls[c].list \in Seq(Ids) /\ calls[c].list # <<>>
    BY ListInHand DEF Ending
<1>3. Tail(calls[c].list) # <<>> /\ Tail(calls[c].list) \in Seq(Ids)
    BY <1>2, LongSeq, Zenon
<1>4. calls' = [calls EXCEPT ![c] = new]
    BY <1>1 DEF CallType
<1>5. new \in CallType
    BY <1>1, <1>3 DEF CallType, Stages
<1>6. SoundCall(c, new)
    BY <1>1, <1>3 DEF SoundCall, CallType, StagesOf, Working, Waiting, Ending, Spawning
<1> QED  BY <1>4, <1>5, <1>6 DEF Moves


\* A call about the next instance to spawn.
LEMMA SpawningCall ==
    ASSUME CallsInv, NEW c \in Callers, calls[c].at \in Spawning
    PROVE  /\ Busy(c) /\ calls[c].op \in OpsOf(c) \ {"shutdown", "remove"}
           /\ calls[c].plugin \in Plugins /\ calls[c].list \in Seq(Ids)
           /\ Len(calls[c].list) \in 0..(Count[calls[c].plugin] - 1)
           /\ Count[calls[c].plugin] \in Nat
           /\ NextSlot(c) \in Slots
<1>1. /\ calls[c] \in CallType /\ SoundCall(c, calls[c])
      /\ calls[c].at \in {"list", "clear", "create", "run"}
    BY CallTypes DEF Spawning
<1>2. /\ Busy(c) /\ calls[c].op \in OpsOf(c) /\ calls[c].plugin \in Plugins
      /\ calls[c].list \in Seq(Ids) /\ Len(calls[c].list) < Count[calls[c].plugin]
      /\ calls[c].at \in StagesOf(calls[c].op)
    BY <1>1 DEF SoundCall, Busy, CallType, Working, Spawning
<1>3. calls[c].op \notin {"shutdown", "remove"}
    BY <1>1, <1>2 DEF StagesOf, Ending
<1>4. Len(calls[c].list) \in Nat /\ Count[calls[c].plugin] \in Nat
    BY <1>2, LenProperties, ContainerAssumption
<1>5. Len(calls[c].list) \in 0..(Count[calls[c].plugin] - 1)
    BY <1>2, <1>4
<1>6. NextSlot(c) \in Slots
    BY <1>2, <1>5 DEF NextSlot, Slots
<1> QED  BY <1>2, <1>3, <1>4, <1>5, <1>6

\* The call spawns on: only where it is and the container it is about change.
LEMMA SpawnsOn ==
    ASSUME CallsInv, NEW c \in Callers, calls[c].at \in Spawning,
           NEW at \in Spawning, NEW target \in Ids \cup {NoId},
           at \in {"clear", "run"} => target \in Ids
    PROVE  LET new == [calls[c] EXCEPT !.at = at, !.target = target]
           IN  new \in CallType /\ SoundCall(c, new)
<1> DEFINE new == [calls[c] EXCEPT !.at = at, !.target = target]
<1>1. /\ calls[c] \in CallType /\ SoundCall(c, calls[c])
      /\ calls[c].at \in {"list", "clear", "create", "run"}
      /\ at \in {"list", "clear", "create", "run"}
    BY CallTypes DEF Spawning
<1>2. new \in CallType
    BY <1>1 DEF CallType, Stages
<1>3. SoundCall(c, new)
    BY <1>1, SpawningCall
       DEF SoundCall, CallType, StagesOf, Working, Waiting, Ending, Spawning
<1> QED  BY <1>2, <1>3

LEMMA LookMoves ==
    ASSUME CallsInv, NEW c \in Callers, Look(c)
    PROVE  \/ /\ Found(c) = {}
              /\ Moves(c, [calls[c] EXCEPT !.at = "create"])
           \/ \E id \in Found(c) :
                  Moves(c, [calls[c] EXCEPT !.at = "clear", !.target = id])
<1>1. /\ calls[c] \in CallType /\ calls \in [Callers -> CallType]
      /\ calls[c].at \in Spawning
    BY CallTypes DEF Look, Spawning
<1>2. CASE Found(c) = {} /\ calls' = [calls EXCEPT ![c].at = "create"]
  <2> DEFINE new == [calls[c] EXCEPT !.at = "create"]
  <2>1. new = [calls[c] EXCEPT !.at = "create", !.target = calls[c].target]
    BY <1>1 DEF CallType
  <2>2. calls[c].target \in Ids \cup {NoId} /\ "create" \in Spawning
        /\ "create" \notin {"clear", "run"}
    BY <1>1 DEF CallType, Spawning
  <2>3. calls' = [calls EXCEPT ![c] = new]
    BY <1>1, <1>2 DEF CallType
  <2>4. new \in CallType /\ SoundCall(c, new)
    BY <1>1, <2>1, <2>2, SpawnsOn
  <2> QED  BY <1>2, <2>3, <2>4 DEF Moves
<1>3. ASSUME NEW id \in Found(c),
             calls' = [calls EXCEPT ![c].at = "clear", ![c].target = id]
      PROVE  Moves(c, [calls[c] EXCEPT !.at = "clear", !.target = id])
  <2> DEFINE new == [calls[c] EXCEPT !.at = "clear", !.target = id]
  <2>1. calls' = [calls EXCEPT ![c] = new]
    BY <1>1, <1>3 DEF CallType
  <2>2. id \in Ids \cup {NoId} /\ id \in Ids /\ "clear" \in Spawning
    BY DEF Found, Spawning
  <2>3. new \in CallType /\ SoundCall(c, new)
    BY <1>1, <2>2, SpawnsOn
  <2> QED  BY <2>1, <2>3 DEF Moves
<1> QED  BY <1>2, <1>3 DEF Look

\* What a call becomes that cannot spawn.
Unspawned(c) == IF calls[c].op \in {"start", "restartAll"}
                THEN [calls[c] EXCEPT !.at = "next", !.list = <<>>, !.target = NoId]
                ELSE IdleCall

LEMMA SpawnFailsMoves ==
    ASSUME CallsInv, NEW c \in Callers, calls[c].at \in Spawning \cup Waiting, AfterPlugin(c)
    PROVE  Moves(c, Unspawned(c))
<1>1. SoundCall(c, calls[c]) /\ calls[c].at \in {"list", "clear", "create", "run",
                                                 "wait", "answered"}
    BY CallTypes DEF Spawning, Waiting
<1>2. Busy(c) /\ calls[c].op # "shutdown"
    BY <1>1 DEF SoundCall, Busy, StagesOf, Ending
<1> QED  BY <1>2, AfterPluginMoves DEF Unspawned

LEMMA ClearExistingMoves ==
    ASSUME CallsInv, NEW c \in Callers, calls[c].at = "clear",
           calls' = [calls EXCEPT ![c].at = "create", ![c].target = NoId]
    PROVE  Moves(c, [calls[c] EXCEPT !.at = "create", !.target = NoId])
<1> DEFINE new == [calls[c] EXCEPT !.at = "create", !.target = NoId]
<1>1. /\ calls[c] \in CallType /\ calls \in [Callers -> CallType]
      /\ calls[c].at \in Spawning /\ "create" \in Spawning
    BY CallTypes DEF Spawning
<1>2. calls' = [calls EXCEPT ![c] = new]
    BY <1>1 DEF CallType
<1>3. new \in CallType /\ SoundCall(c, new)
    BY <1>1, SpawnsOn
<1> QED  BY <1>2, <1>3 DEF Moves

LEMMA CreateMoves ==
    ASSUME CallsInv, NEW c \in Callers, calls[c].at = "create", NEW id \in Ids,
           calls' = [calls EXCEPT ![c].at = "run", ![c].target = id]
    PROVE  Moves(c, [calls[c] EXCEPT !.at = "run", !.target = id])
<1> DEFINE new == [calls[c] EXCEPT !.at = "run", !.target = id]
<1>1. /\ calls[c] \in CallType /\ calls \in [Callers -> CallType]
      /\ calls[c].at \in Spawning /\ "run" \in Spawning
    BY CallTypes DEF Spawning
<1>2. calls' = [calls EXCEPT ![c] = new]
    BY <1>1 DEF CallType
<1>3. new \in CallType /\ SoundCall(c, new)
    BY <1>1, SpawnsOn
<1> QED  BY <1>2, <1>3 DEF Moves


LEMMA SpawnedOne ==
    ASSUME CallsInv, NEW c \in Callers, calls[c].at = "run", Exists(calls[c].target),
           calls[c].target \in Ids
    PROVE  LET ids == Append(calls[c].list, calls[c].target)
           IN  /\ ids \in Seq(Ids) /\ ids # <<>>
               /\ Len(ids) = Len(calls[c].list) + 1
               /\ Len(ids) # Count[calls[c].plugin] => Len(ids) < Count[calls[c].plugin]
<1> DEFINE ids == Append(calls[c].list, calls[c].target)
<1>1. /\ calls[c].list \in Seq(Ids)
      /\ Len(calls[c].list) \in 0..(Count[calls[c].plugin] - 1)
      /\ Count[calls[c].plugin] \in Nat
    BY SpawningCall DEF Spawning
<1>2. ids \in Seq(Ids) /\ ids # <<>> /\ Len(ids) = Len(calls[c].list) + 1
    BY <1>1, AppendProperties
<1>3. \A n, k \in Nat : n \in 0..(k - 1) /\ n + 1 # k => n + 1 < k
    OBVIOUS
<1>4. Len(calls[c].list) \in Nat
    BY <1>1
<1> QED  BY <1>1, <1>2, <1>3, <1>4

LEMMA StartContainerMoves ==
    ASSUME CallsInv, NEW c \in Callers, StartContainer(c), Exists(calls[c].target),
           calls[c].target \in Ids
    PROVE  LET ids == Append(calls[c].list, calls[c].target)
           IN  \/ /\ Len(ids) = Count[calls[c].plugin] /\ SetInstances(c, ids)
                  /\ Moves(c, [calls[c] EXCEPT !.at = "wait", !.list = <<>>, !.target = NoId])
               \/ /\ Len(ids) # Count[calls[c].plugin] /\ UNCHANGED <<instances, timers>>
                  /\ Moves(c, [calls[c] EXCEPT !.at = "list", !.list = ids, !.target = NoId])
<1> DEFINE ids == Append(calls[c].list, calls[c].target)
           new(at, list) == [calls[c] EXCEPT !.at = at, !.list = list, !.target = NoId]
<1>1. /\ calls[c] \in CallType /\ SoundCall(c, calls[c]) /\ calls \in [Callers -> CallType]
      /\ calls[c].at = "run" /\ <<>> \in Seq(Ids)
    BY CallTypes DEF StartContainer
<1>2. /\ calls[c].plugin \in Plugins /\ calls[c].op \in OpsOf(c)
      /\ ids \in Seq(Ids)
    BY <1>1, SpawnedOne, SpawningCall DEF Spawning
<1>3. CASE Len(ids) = Count[calls[c].plugin] /\ SetInstances(c, ids)
  <2>1. calls' = [calls EXCEPT ![c] = new("wait", <<>>)]
    BY <1>1, <1>3 DEF CallType, SetInstances
  <2>2. new("wait", <<>>) \in CallType
    BY <1>1 DEF CallType, Stages
  <2>3. SoundCall(c, new("wait", <<>>))
    BY <1>1, <1>2 DEF SoundCall, CallType, StagesOf, Working, Waiting, Ending, Spawning
  <2> QED  BY <1>3, <2>1, <2>2, <2>3 DEF Moves
<1>4. CASE /\ Len(ids) # Count[calls[c].plugin] /\ UNCHANGED <<instances, timers>>
           /\ calls' = [calls EXCEPT ![c].at = "list", ![c].list = ids, ![c].target = NoId]
  <2>1. Len(ids) < Count[calls[c].plugin]
    BY <1>1, <1>4, SpawnedOne
  <2> HIDE DEF ids
  <2>2. calls' = [calls EXCEPT ![c] = new("list", ids)]
    BY <1>1, <1>4 DEF CallType
  <2>3. new("list", ids) \in CallType
    BY <1>1, <1>2 DEF CallType, Stages
  <2>4. SoundCall(c, new("list", ids))
    BY <1>1, <1>2, <2>1 DEF SoundCall, CallType, StagesOf, Working, Waiting, Ending, Spawning
  <2> QED  BY <1>4, <2>2, <2>3, <2>4 DEF Moves, ids
<1> QED  BY <1>3, <1>4 DEF StartContainer

LEMMA WaitAsksMoves ==
    ASSUME CallsInv, NEW c \in Callers, calls[c].at = "wait", NEW id \in Ids,
           calls' = [calls EXCEPT ![c].at = "answered", ![c].target = id]
    PROVE  Moves(c, [calls[c] EXCEPT !.at = "answered", !.target = id])
<1> DEFINE new == [calls[c] EXCEPT !.at = "answered", !.target = id]
<1>1. /\ calls[c] \in CallType /\ SoundCall(c, calls[c]) /\ calls \in [Callers -> CallType]
      /\ calls[c].at = "wait"
    BY CallTypes
<1>2. calls' = [calls EXCEPT ![c] = new]
    BY <1>1 DEF CallType
<1>3. new \in CallType
    BY <1>1 DEF CallType, Stages
<1>4. SoundCall(c, new)
    BY <1>1 DEF SoundCall, CallType, StagesOf, Working, Waiting, Ending, Spawning
<1> QED  BY <1>2, <1>3, <1>4 DEF Moves

LEMMA CleanUpMoves ==
    ASSUME CallsInv, NEW c \in Callers, CleanUp(c)
    PROVE  /\ calls[c].op = "start"
           /\ \/ Len(calls[c].list) = 1 /\ Moves(c, [calls[c] EXCEPT !.list = <<>>, !.at = "next"])
              \/ /\ Len(calls[c].list) # 1
                 /\ Moves(c, [calls[c] EXCEPT !.list = Tail(calls[c].list)])
<1> DEFINE new(at, list) == [calls[c] EXCEPT !.list = list, !.at = at]
           list == calls[c].list
<1>1. /\ calls[c] \in CallType /\ SoundCall(c, calls[c]) /\ calls \in [Callers -> CallType]
      /\ calls[c].at = "clean" /\ <<>> \in Seq(Ids)
    BY CallTypes DEF CleanUp
<1>2. calls[c].op = "start" /\ calls[c].op \in OpsOf(c)
    BY <1>1 DEF SoundCall, StagesOf, Spawning, Waiting, Ending
<1>3. list \in Seq(Ids) /\ list # <<>>
    BY <1>1, ListInHand
<1>4. Tail(list) \in Seq(Ids) /\ (Len(list) = 1 <=> Tail(list) = <<>>)
    BY <1>3, SeqParts, Zenon
<1>5. calls' = [calls EXCEPT ![c].list = Tail(@),
                             ![c].at = IF Len(list) = 1 THEN "next" ELSE "clean"]
    BY DEF CleanUp
<1>6. CASE Len(list) = 1
  <2>1. calls' = [calls EXCEPT ![c] = new("next", <<>>)]
    BY <1>1, <1>4, <1>5, <1>6 DEF CallType
  <2>2. new("next", <<>>) \in CallType
    BY <1>1 DEF CallType, Stages
  <2>3. SoundCall(c, new("next", <<>>))
    BY <1>1, <1>2 DEF SoundCall, CallType, StagesOf, Working, Waiting, Ending, Spawning
  <2> QED  BY <1>2, <1>6, <2>1, <2>2, <2>3 DEF Moves
<1>7. CASE Len(list) # 1
  <2> DEFINE other == [calls[c] EXCEPT !.list = Tail(calls[c].list)]
  <2>1. calls' = [calls EXCEPT ![c] = other]
    BY <1>1, <1>5, <1>7 DEF CallType
  <2>2. other \in CallType
    BY <1>1, <1>4 DEF CallType, Stages
  <2>3. SoundCall(c, other)
    BY <1>1, <1>2, <1>4, <1>7
       DEF SoundCall, CallType, StagesOf, Working, Waiting, Ending, Spawning
  <2> QED  BY <1>2, <1>7, <2>1, <2>2, <2>3 DEF Moves
<1> QED  BY <1>6, <1>7


LEMMA NextPluginMoves ==
    ASSUME CallsInv, NEW c \in Callers, NextPlugin(c)
    PROVE  /\ calls[c].op \in {"start", "restartAll"} /\ Busy(c)
           /\ \/ \E p \in calls[c].rest :
                    LET others == calls[c].rest \ {p}
                    IN  \/ /\ calls[c].op = "start" /\ UNCHANGED <<timers, phase>>
                           /\ Moves(c, [calls[c] EXCEPT !.at = "list", !.plugin = p,
                                                        !.rest = others])
                        \/ /\ calls[c].op = "restartAll" /\ UNCHANGED phase
                           /\ instances[p] # <<>> /\ config[p] # NoConfig
                           /\ Stopping(c, "restartAll", p, others)
                           /\ Moves(c, StopCall("restartAll", p, others, instances[p]))
                        \/ /\ calls[c].op = "restartAll" /\ UNCHANGED <<timers, phase>>
                           /\ Moves(c, [calls[c] EXCEPT !.rest = others])
              \/ /\ calls[c].rest = {} /\ UNCHANGED timers
                 /\ phase' = IF calls[c].op = "start" THEN "ready" ELSE phase
                 /\ Moves(c, IdleCall)
<1>1. /\ calls[c] \in CallType /\ SoundCall(c, calls[c]) /\ calls \in [Callers -> CallType]
      /\ calls[c].at = "next" /\ calls[c].op # "shutdown" /\ <<>> \in Seq(Ids)
  <2>1. calls[c].at = "next" /\ calls[c].op # "shutdown"
    BY DEF NextPlugin
  <2> QED  BY <2>1, CallTypes
<1>2. /\ calls[c].op \in {"start", "restartAll"} /\ calls[c].op \in OpsOf(c) /\ Busy(c)
      /\ calls[c].list = <<>> /\ calls[c].rest \in SUBSET Plugins
    BY <1>1 DEF SoundCall, StagesOf, Spawning, Waiting, Ending, Busy, CallType
<1>3. CASE /\ calls[c].rest = {} /\ EndCall(c) /\ UNCHANGED timers
           /\ phase' = IF calls[c].op = "start" THEN "ready" ELSE phase
    BY <1>2, <1>3, EndedCall
<1>4. ASSUME NEW p \in calls[c].rest, UNCHANGED <<timers, phase>>, calls[c].op = "start",
             calls' = [calls EXCEPT ![c].at = "list", ![c].plugin = p,
                                    ![c].rest = calls[c].rest \ {p}]
      PROVE  Moves(c, [calls[c] EXCEPT !.at = "list", !.plugin = p,
                                       !.rest = calls[c].rest \ {p}])
  <2> DEFINE new == [calls[c] EXCEPT !.at = "list", !.plugin = p,
                                     !.rest = calls[c].rest \ {p}]
  <2>1. calls' = [calls EXCEPT ![c] = new]
    BY <1>1, <1>4 DEF CallType
  <2>2. new \in CallType /\ p \in Plugins
    BY <1>1, <1>2 DEF CallType, Stages
  <2>3. Count[p] > 0 /\ Len(<<>>) = 0 /\ Count[p] \in Nat
    BY <2>2, ContainerAssumption
  <2>4. SoundCall(c, new)
    BY <1>1, <1>2, <1>4, <2>2, <2>3
       DEF SoundCall, CallType, StagesOf, Working, Waiting, Ending, Spawning
  <2> QED  BY <2>1, <2>2, <2>4 DEF Moves
<1>5. ASSUME NEW p \in calls[c].rest, calls[c].op = "restartAll", instances[p] # <<>>,
             Stopping(c, "restartAll", p, calls[c].rest \ {p})
      PROVE  Moves(c, StopCall("restartAll", p, calls[c].rest \ {p}, instances[p]))
  <2>1. p \in Plugins /\ calls[c].rest \ {p} \in SUBSET Plugins /\ p \notin calls[c].rest \ {p}
    BY <1>2
  <2>2. "stop" \in StagesOf("restartAll") /\ "restartAll" \in OpsOf(c)
    BY <1>2, <1>5 DEF StagesOf, Ending
  <2> QED  BY <1>5, <2>1, <2>2, StoppingMoves
<1>6. ASSUME NEW p \in calls[c].rest, calls[c].op = "restartAll",
             calls' = [calls EXCEPT ![c].rest = calls[c].rest \ {p}]
      PROVE  Moves(c, [calls[c] EXCEPT !.rest = calls[c].rest \ {p}])
  <2> DEFINE new == [calls[c] EXCEPT !.rest = calls[c].rest \ {p}]
  <2>1. calls' = [calls EXCEPT ![c] = new]
    BY <1>1, <1>6 DEF CallType
  <2>2. new \in CallType
    BY <1>1, <1>2 DEF CallType
  <2>3. SoundCall(c, new)
    BY <1>1, <1>2 DEF SoundCall, CallType, StagesOf, Working, Waiting, Ending, Spawning
  <2> QED  BY <2>1, <2>2, <2>3 DEF Moves
<1> QED  BY <1>2, <1>3, <1>4, <1>5, <1>6 DEF NextPlugin

LEMMA SignalCaller == Signal \in Callers /\ OpsOf(Signal) = {"shutdown"} /\ Signal # Startup
BY DEF Callers, OpsOf, Signal, Startup

LEMMA StartupCaller == Startup \in Callers /\ OpsOf(Startup) = {"start"}
BY DEF Callers, OpsOf

LEMMA ShutdownMoves ==
    ASSUME CallsInv, Shutdown
    PROVE  Moves(Signal, [IdleCall EXCEPT !.op = "shutdown", !.at = "next"])
<1> DEFINE new == [IdleCall EXCEPT !.op = "shutdown", !.at = "next"]
<1>1. calls' = [calls EXCEPT ![Signal] = new]
    BY DEF Shutdown
<1>2. new \in CallType
    BY IdleCallSound DEF CallType, Stages, Whole
<1>3. SoundCall(Signal, new)
    BY SignalCaller DEF SoundCall, IdleCall, Working, Waiting, Ending, Spawning, StagesOf
<1> QED  BY <1>1, <1>2, <1>3, SignalCaller DEF Moves

LEMMA ShutdownNextMoves ==
    ASSUME CallsInv, ShutdownNext
    PROVE  /\ calls[Signal].op = "shutdown" /\ calls[Signal].at = "next"
           /\ \E p \in Plugins \ calls[Signal].rest :
                 /\ instances[p] # <<>>
                 /\ Moves(Signal, [calls[Signal] EXCEPT !.at = "stop", !.plugin = p,
                                       !.rest = calls[Signal].rest \cup {p},
                                       !.list = instances[p]])
<1>1. /\ calls[Signal] \in CallType /\ SoundCall(Signal, calls[Signal])
      /\ calls \in [Callers -> CallType] /\ calls[Signal].at = "next"
    BY CallTypes, SignalCaller DEF ShutdownNext
<1>2. calls[Signal].op = "shutdown"
    BY <1>1, SignalCaller DEF SoundCall
<1>3. PICK p \in Plugins \ calls[Signal].rest :
          /\ instances[p] # <<>>
          /\ calls' = [calls EXCEPT ![Signal].at = "stop", ![Signal].plugin = p,
                                    ![Signal].rest = @ \cup {p},
                                    ![Signal].list = instances[p]]
    BY DEF ShutdownNext
<1> DEFINE new == [calls[Signal] EXCEPT !.at = "stop", !.plugin = p,
                      !.rest = calls[Signal].rest \cup {p}, !.list = instances[p]]
<1>4. calls' = [calls EXCEPT ![Signal] = new]
    BY <1>1, <1>3, SignalCaller DEF CallType
<1>5. instances[p] \in Seq(Ids)
    BY CallTypes
<1>6. new \in CallType
    BY <1>1, <1>5 DEF CallType, Stages
<1>7. SoundCall(Signal, new)
    BY <1>1, <1>2, <1>3, SignalCaller
       DEF SoundCall, CallType, StagesOf, Working, Waiting, Ending, Spawning
<1> QED  BY <1>1, <1>2, <1>3, <1>4, <1>6, <1>7, SignalCaller DEF Moves

\* The containers there are, in some order.
LEMMA StaleList ==
    /\ StaleContainers \in Seq(Ids)
    /\ ToSet(StaleContainers) = {id \in Ids : Exists(id)}
    /\ IsInjective(StaleContainers)
<1> DEFINE S == {id \in Ids : Exists(id)}
           n == Cardinality(S)
           list == StaleContainers
<1>1. IsFiniteSet(S) /\ S \subseteq Ids
    BY FS_Subset, ContainerAssumption
<1> HIDE DEF S
<1>2. n \in Nat /\ ExistsBijection(1..n, S)
    BY <1>1, FS_CardinalityType
<1>3. \E f \in [1..n -> S] : IsInjective(f)
    BY <1>2 DEF ExistsBijection, Bijection, Injection, Surjection
<1>4. list = CHOOSE f \in [1..n -> S] : IsInjective(f)
    BY DEF StaleContainers, SetToSeq, S
<1> HIDE DEF n, list
<1>5. list \in [1..n -> S] /\ IsInjective(list)
    BY <1>3, <1>4
<1>6. IsFiniteSet(1..n) /\ Cardinality(1..n) = n
    BY <1>2, FS_Interval
<1>7. \A x \in S : \E i \in 1..n : list[i] = x
  <2>1. Cardinality(1..n) = Cardinality(S)
    BY <1>6 DEF n
  <2>2. list \in Injection(1..n, S)
    BY <1>5 DEF Injection
  <2>3. list \in Surjection(1..n, S)
    BY <1>1, <2>1, <2>2, FS_Injection
  <2> QED  BY <2>3 DEF Surjection
<1>8. list \in Seq(Ids)
    BY <1>1, <1>2, <1>5, IsASeq
<1>9. ToSet(list) = S
    BY <1>5, <1>7 DEF ToSet
<1> QED  BY <1>5, <1>8, <1>9 DEF list, S


LEMMA StartMoves ==
    ASSUME CallsInv, Start, Parses(file)
    PROVE  LET stale == StaleContainers
           IN  Moves(Startup, [IdleCall EXCEPT !.op = "start", !.list = stale,
                                   !.at = IF stale = <<>> THEN "next" ELSE "clean",
                                   !.rest = EnabledPlugins(Load(file))])
<1> DEFINE stale == StaleContainers
           rest == EnabledPlugins(Load(file))
           new == [IdleCall EXCEPT !.op = "start", !.list = stale,
                                   !.at = IF stale = <<>> THEN "next" ELSE "clean",
                                   !.rest = rest]
<1>1. calls' = [calls EXCEPT ![Startup] = new]
    BY DEF Start
<1>2. stale \in Seq(Ids) /\ rest \in SUBSET Plugins
    BY StaleList DEF EnabledPlugins
<1> HIDE DEF stale, rest
<1>3. new \in CallType
    BY <1>2, IdleCallSound DEF CallType, Stages, Whole
<1>4. SoundCall(Startup, new)
    BY StartupCaller DEF SoundCall, IdleCall, Working, Waiting, Ending, Spawning, StagesOf
<1> QED  BY <1>1, <1>3, <1>4, StartupCaller DEF Moves, stale, rest

LEMMA RestartPluginMoves ==
    ASSUME CallsInv, NEW c \in Requests, NEW p \in Plugins, RestartPlugin(c, p)
    PROVE  Moves(c, StopCall("restart", p, {}, instances[p]))
<1>1. /\ c \in Callers /\ "restart" \in OpsOf(c) /\ "stop" \in StagesOf("restart")
    BY RequestCaller DEF StagesOf, Ending
<1>2. instances[p] # <<>> /\ Stopping(c, "restart", p, {})
    BY DEF RestartPlugin
<1> QED  BY <1>1, <1>2, StoppingMoves

LEMMA AddPluginMoves ==
    ASSUME CallsInv, NEW c \in Requests, NEW p \in Plugins, NEW v \in Given,
           AddPlugin(c, p, v)
    PROVE  LET cfg == [config EXCEPT ![p] = v]
           IN  /\ cfg \in ConfigType /\ SavingCall(c, "add", p, cfg)
               /\ Moves(c, SaveCall("add", p, cfg))
<1> DEFINE cfg == [config EXCEPT ![p] = v]
<1>1. cfg \in ConfigType
    BY CallTypes, ContainerAssumption DEF ConfigType
<1>2. SavingCall(c, "add", p, cfg)
    BY DEF AddPlugin
<1>3. c \in Callers /\ "add" \in OpsOf(c)
    BY RequestCaller
<1> HIDE DEF cfg
<1>4. Moves(c, SaveCall("add", p, cfg))
    BY <1>1, <1>2, <1>3, SavingMoves
<1> QED  BY <1>1, <1>2, <1>4 DEF cfg

LEMMA UpdateMoves ==
    ASSUME CallsInv, NEW c \in Requests, NEW p \in Plugins, NEW v \in Given,
           Update(c, p, v)
    PROVE  LET cfg == [config EXCEPT ![p] = v]
           IN  /\ cfg \in ConfigType /\ SavingCall(c, "update", p, cfg)
               /\ Moves(c, SaveCall("update", p, cfg))
<1> DEFINE cfg == [config EXCEPT ![p] = v]
<1>1. cfg \in ConfigType
    BY CallTypes, ContainerAssumption DEF ConfigType
<1>2. SavingCall(c, "update", p, cfg)
    BY DEF Update
<1>3. c \in Callers /\ "update" \in OpsOf(c)
    BY RequestCaller
<1> HIDE DEF cfg
<1>4. Moves(c, SaveCall("update", p, cfg))
    BY <1>1, <1>2, <1>3, SavingMoves
<1> QED  BY <1>1, <1>2, <1>4 DEF cfg

LEMMA RemovePluginMoves ==
    ASSUME CallsInv, NEW c \in Requests, NEW p \in Plugins, RemovePlugin(c, p)
    PROVE  LET cfg == [config EXCEPT ![p] = NoConfig]
           IN  \/ /\ instances[p] # <<>> /\ Stopping(c, "remove", p, {})
                  /\ UNCHANGED <<config, saveVars>>
                  /\ Moves(c, StopCall("remove", p, {}, instances[p]))
               \/ /\ instances[p] = <<>> /\ config[p] # NoConfig /\ UNCHANGED timers
                  /\ cfg \in ConfigType /\ SavingCall(c, "remove", p, cfg)
                  /\ Moves(c, SaveCall("remove", p, cfg))
               \/ /\ instances[p] = <<>> /\ config[p] = NoConfig
                  /\ UNCHANGED <<timers, config, saveVars>>
                  /\ Moves(c, IdleCall)
<1> DEFINE cfg == [config EXCEPT ![p] = NoConfig]
<1>1. cfg \in ConfigType
    BY CallTypes DEF ConfigType
<1>2. c \in Callers /\ "remove" \in OpsOf(c) /\ "stop" \in StagesOf("remove")
    BY RequestCaller DEF StagesOf, Ending
<1>3. CASE instances[p] # <<>>
  <2>1. Stopping(c, "remove", p, {}) /\ UNCHANGED <<config, saveVars>>
    BY <1>3 DEF RemovePlugin
  <2>2. Moves(c, StopCall("remove", p, {}, instances[p]))
    BY <1>2, <1>3, <2>1, StoppingMoves
  <2> QED  BY <1>3, <2>1, <2>2
<1>4. CASE instances[p] = <<>> /\ config[p] # NoConfig
  <2>1. SavingCall(c, "remove", p, cfg) /\ UNCHANGED timers
    BY <1>4 DEF RemovePlugin, WithoutConfig
  <2>2. Moves(c, SaveCall("remove", p, cfg))
    BY <1>1, <1>2, <2>1, SavingMoves
  <2> QED  BY <1>1, <1>4, <2>1, <2>2
<1>5. CASE instances[p] = <<>> /\ config[p] = NoConfig
    BY <1>2, <1>5, EndedCall DEF RemovePlugin, WithoutConfig
<1> QED  BY <1>3, <1>4, <1>5

-----------------------------------------------------------------------------
(* Types, and what each call may be at. *)

StateTypes ==
    /\ docker \in [Ids -> ContainerType]
    /\ status \in [Ids -> {"live", "stopped"}]
    /\ instances \in [Plugins -> Seq(Ids)]
    /\ timers \subseteq Plugins /\ quiet \subseteq Plugins
    /\ asked \subseteq Ids
    /\ config \in ConfigType /\ file \in ConfigType \cup {CutFile}
    /\ phase \in {"down", "starting", "ready", "broken"}
    /\ loneSave \in BOOLEAN
    /\ requests \in 0..MaxRequests /\ faults \in 0..MaxFaults /\ exits \in 0..MaxExits

LEMMA TypesOf == CallsInv => StateTypes
BY DEF CallsInv, TypeOK, StateTypes, ContainerType

LEMMA TypesHold ==
    ASSUME StateTypes', calls' \in [Callers -> CallType],
           \A c \in Callers : SoundCall(c, calls'[c])
    PROVE  CallsInv'
<1>1. \A c \in Callers : calls'[c].at \in {"stop", "remove", "clean"} => calls'[c].list # <<>>
    BY DEF SoundCall, Ending
<1>2. CallsSound'
    BY DEF CallsSound, SoundCall
<1>3. TypeOK'
    BY <1>1 DEF TypeOK, StateTypes, CallType, ContainerType
<1> QED  BY <1>2, <1>3 DEF CallsInv

LEMMA MovedTypes ==
    ASSUME CallsInv, StateTypes', NEW c, NEW new, Moves(c, new)
    PROVE  CallsInv'
<1>1. calls' \in [Callers -> CallType]
    BY CallTypes, MovedCalls
<1>2. \A d \in Callers : SoundCall(d, calls'[d])
    BY MovedCallsSound DEF CallsSound, SoundCall
<1> QED  BY <1>1, <1>2, TypesHold

LEMMA InitTypes == Init => CallsInv
<1> SUFFICES ASSUME Init PROVE CallsInv
    OBVIOUS
<1>1. calls \in [Callers -> CallType] /\ \A c \in Callers : calls[c] = IdleCall
    BY IdleCallSound DEF Init
<1>2. CallsSound
    BY <1>1, IdleCallSound DEF CallsSound
<1>3. docker \in [Ids -> ContainerType]
  <2>1. PICK left \in {<<>>} \cup {<<[slot |-> s, state |-> "up"]>> : s \in Slots} :
            docker = [id \in Ids |-> IF id \in DOMAIN left THEN left[id] ELSE Gone]
    BY DEF Init
  <2>2. CASE left = <<>>
    BY <2>1, <2>2 DEF ContainerType
  <2>3. ASSUME NEW s \in Slots, left = <<[slot |-> s, state |-> "up"]>>
        PROVE  docker \in [Ids -> ContainerType]
    <3>1. DOMAIN left = {1} /\ left[1] = [slot |-> s, state |-> "up"]
      BY <2>3
    <3>2. left[1] \in ContainerType /\ Gone \in ContainerType
      BY <3>1 DEF ContainerType
    <3> QED  BY <2>1, <3>1, <3>2
  <2> QED  BY <2>1, <2>2, <2>3
<1>4. /\ status \in [Ids -> {"live", "stopped"}]
      /\ instances \in [Plugins -> Seq(Ids)]
      /\ config \in ConfigType
    BY DEF Init, EmptyConfig, ConfigType
<1>5. file \in ConfigType
    BY ContainerAssumption DEF Init, ConfigType
<1>6. requests \in 0..MaxRequests /\ faults \in 0..MaxFaults /\ exits \in 0..MaxExits
    BY ContainerAssumption DEF Init
<1>7. TypeOK
    BY <1>1, <1>3, <1>4, <1>5, <1>6 DEF TypeOK, Init, IdleCall, ContainerType, CallType
<1> QED  BY <1>2, <1>7 DEF CallsInv

LEMMA BoundStep ==
    ASSUME NEW n \in 0..MaxRequests, n < MaxRequests
    PROVE  n + 1 \in 0..MaxRequests
BY ContainerAssumption

LEMMA FaultTypes ==
    ASSUME CallsInv, NEW c \in Callers, Fault(c)
    PROVE  faults' \in 0..MaxFaults /\ quiet' \subseteq Plugins
BY ContainerAssumption, TypesOf DEF Fault, StateTypes

LEMMA RequestTypes ==
    ASSUME CallsInv, NEW c, NEW T, Request(c, T)
    PROVE  /\ requests' \in 0..MaxRequests /\ quiet' \subseteq Plugins
           /\ UNCHANGED <<docker, status, instances, asked, phase, faults, exits>>
BY ContainerAssumption, TypesOf DEF Request, StateTypes

LEMMA RequestsTypes ==
    ASSUME CallsInv, NEW c \in Requests,
           \/ RestartAll(c)
           \/ \E p \in Plugins : RestartPlugin(c, p) \/ RemovePlugin(c, p)
           \/ \E p \in Plugins, v \in Given : AddPlugin(c, p, v) \/ Update(c, p, v)
    PROVE  CallsInv'
<1>1. StateTypes
    BY TypesOf
<1>2. CASE RestartAll(c)
  <2>1. StateTypes'
    BY <1>1, <1>2, RequestTypes DEF StateTypes, RestartAll, saveVars
  <2> QED  BY <1>2, <2>1, RestartAllMoves, MovedTypes
<1>3. ASSUME NEW p \in Plugins, RestartPlugin(c, p) PROVE CallsInv'
  <2>1. StateTypes'
    BY <1>1, <1>3, RequestTypes DEF StateTypes, RestartPlugin, Stopping, saveVars
  <2> QED  BY <1>3, <2>1, RestartPluginMoves, MovedTypes
<1>4. ASSUME NEW p \in Plugins, RemovePlugin(c, p) PROVE CallsInv'
  <2>1. Request(c, {p})
    BY <1>4 DEF RemovePlugin
  <2>2. PICK new : Moves(c, new) /\ timers' \subseteq Plugins /\ config' \in ConfigType
                   /\ file' \in ConfigType \cup {CutFile} /\ loneSave' \in BOOLEAN
    BY <1>1, <1>4, RemovePluginMoves DEF StateTypes, Stopping, SavingCall, Saving, saveVars
  <2>3. StateTypes'
    BY <1>1, <2>1, <2>2, RequestTypes DEF StateTypes
  <2> QED  BY <2>2, <2>3, MovedTypes
<1>5. ASSUME NEW p \in Plugins, NEW v \in Given, AddPlugin(c, p, v) PROVE CallsInv'
  <2>1. /\ Request(c, {p}) /\ UNCHANGED timers
        /\ SavingCall(c, "add", p, [config EXCEPT ![p] = v])
    BY <1>5 DEF AddPlugin
  <2>2. StateTypes'
    BY <1>1, <1>5, <2>1, RequestTypes, AddPluginMoves DEF StateTypes, SavingCall, Saving
  <2> QED  BY <1>5, <2>2, AddPluginMoves, MovedTypes
<1>6. ASSUME NEW p \in Plugins, NEW v \in Given, Update(c, p, v) PROVE CallsInv'
  <2>1. /\ Request(c, {p}) /\ UNCHANGED timers
        /\ SavingCall(c, "update", p, [config EXCEPT ![p] = v])
    BY <1>6 DEF Update
  <2>2. StateTypes'
    BY <1>1, <1>6, <2>1, RequestTypes, UpdateMoves DEF StateTypes, SavingCall, Saving
  <2> QED  BY <1>6, <2>2, UpdateMoves, MovedTypes
<1> QED  BY <1>2, <1>3, <1>4, <1>5, <1>6


\* Containers that are stopped, started, removed or made.
LEMMA DockerTypes ==
    ASSUME CallsInv, NEW id \in Ids
    PROVE  /\ [docker EXCEPT ![id] = Gone] \in [Ids -> ContainerType]
           /\ [docker EXCEPT ![id].state = IF @ = "up" THEN "down" ELSE @]
                 \in [Ids -> ContainerType]
           /\ Exists(id) => [docker EXCEPT ![id].state = "up"] \in [Ids -> ContainerType]
           /\ \A s \in Slots : [docker EXCEPT ![id] = [slot |-> s, state |-> "created"]]
                                   \in [Ids -> ContainerType]
<1>1. docker \in [Ids -> ContainerType] /\ docker[id] \in ContainerType
    BY CallTypes
<1>2. Gone \in ContainerType
    BY DEF ContainerType
<1>3. Exists(id) => [docker[id] EXCEPT !.state = "up"] \in ContainerType
    BY <1>1 DEF ContainerType, Exists, Gone
<1>4. docker[id].state = "up" => [docker[id] EXCEPT !.state = "down"] \in ContainerType
    BY <1>1 DEF ContainerType, Gone
<1>5. docker[id].state # "up" => [docker[id] EXCEPT !.state = docker[id].state] \in ContainerType
    BY <1>1 DEF ContainerType, Gone
<1>6. \A s \in Slots : [slot |-> s, state |-> "created"] \in ContainerType
    BY DEF ContainerType
<1>7. [docker EXCEPT ![id].state = IF @ = "up" THEN "down" ELSE @] \in [Ids -> ContainerType]
    BY <1>1, <1>4, <1>5
<1> QED  BY <1>1, <1>2, <1>3, <1>6, <1>7

LEMMA SavesTypes ==
    ASSUME CallsInv, NEW c \in Callers, SaveEnds(c) \/ SaveFails(c)
    PROVE  CallsInv'
<1>1. StateTypes
    BY TypesOf
<1>2. CASE SaveEnds(c)
  <2>1. PICK new : Moves(c, new) /\ timers' \subseteq timers
    BY <1>2, SaveEndsMoves DEF Stopping
  <2>2. calls[c].text \in ConfigType \cup {CutFile}
    BY CallTypes DEF CallType
  <2>3. StateTypes'
    BY <1>1, <1>2, <2>1, <2>2 DEF StateTypes, SaveEnds, countVars
  <2> QED  BY <2>1, <2>3, MovedTypes
<1>3. CASE SaveFails(c)
  <2>1. Moves(c, IdleCall)
    BY <1>3, EndedCall DEF SaveFails
  <2>2. StateTypes'
    BY <1>1, <1>3, FaultTypes DEF StateTypes, SaveFails, managerVars
  <2> QED  BY <2>1, <2>2, MovedTypes
<1> QED  BY <1>2, <1>3

\* The container a call is about to stop or to remove.
LEMMA HeadInHand ==
    ASSUME CallsInv, NEW c \in Callers, calls[c].at \in Ending \cup {"clean"}
    PROVE  Head(calls[c].list) \in Ids
BY ListInHand, SeqParts

LEMMA StopsTypes ==
    ASSUME CallsInv, NEW c \in Callers, StopContainer(c) \/ RemoveContainer(c)
    PROVE  CallsInv'
<1>1. StateTypes
    BY TypesOf
<1>2. Head(calls[c].list) \in Ids
    BY HeadInHand DEF StopContainer, RemoveContainer, Ending
<1>3. CASE StopContainer(c)
  <2>1. StateTypes'
    BY <1>1, <1>3, <1>2, DockerTypes
       DEF StateTypes, StopContainer, managerVars, saveVars, countVars
  <2> QED  BY <1>3, <2>1, StopContainerMoves, MovedTypes
<1>4. CASE RemoveContainer(c)
  <2>1. docker' \in [Ids -> ContainerType] /\ quiet' \subseteq Plugins /\ faults' \in 0..MaxFaults
    BY <1>1, <1>4, <1>2, DockerTypes, FaultTypes DEF StateTypes, RemoveContainer
  <2>2. /\ status' \in [Ids -> {"live", "stopped"}]
        /\ UNCHANGED <<timers, asked, phase, requests, exits>>
    BY <1>1, <1>4, <1>2 DEF StateTypes, RemoveContainer
  <2>3. CASE /\ Len(calls[c].list) > 1
             /\ calls' = [calls EXCEPT ![c].at = "stop", ![c].list = Tail(@)]
             /\ UNCHANGED <<instances, config, saveVars>>
    <3>1. Moves(c, [calls[c] EXCEPT !.at = "stop", !.list = Tail(calls[c].list)])
      BY <1>4, <2>3, RemoveOneMoves DEF RemoveContainer
    <3>2. StateTypes'
      BY <1>1, <2>1, <2>2, <2>3 DEF StateTypes, saveVars
    <3> QED  BY <3>1, <3>2, MovedTypes
  <2>4. CASE AllStopped(c)
    <3>1. /\ calls[c].at = "remove" /\ calls[c].plugin \in Plugins
          /\ [config EXCEPT ![calls[c].plugin] = NoConfig] \in ConfigType
          /\ [instances EXCEPT ![calls[c].plugin] = <<>>] \in [Plugins -> Seq(Ids)]
      BY <1>4, WorkingCall, CallTypes DEF RemoveContainer, Working, Ending, ConfigType
    <3>2. PICK new : /\ Moves(c, new) /\ instances' \in [Plugins -> Seq(Ids)]
                     /\ config' \in ConfigType /\ file' \in ConfigType \cup {CutFile}
                     /\ loneSave' \in BOOLEAN
      BY <1>1, <2>4, <3>1, AllStoppedMoves DEF StateTypes, saveVars, SavingCall, Saving
    <3>3. StateTypes'
      BY <1>1, <2>1, <2>2, <3>2 DEF StateTypes
    <3> QED  BY <3>2, <3>3, MovedTypes
  <2> QED  BY <1>4, <2>3, <2>4 DEF RemoveContainer
<1> QED  BY <1>3, <1>4


LEMMA TargetInHand ==
    ASSUME CallsInv, NEW c \in Callers, calls[c].at \in {"clear", "run", "answered"}
    PROVE  calls[c].target \in Ids
BY CallTypes DEF SoundCall

LEMMA SpawnsTypes ==
    ASSUME CallsInv, NEW c \in Callers,
           Look(c) \/ ClearExisting(c) \/ Create(c) \/ StartContainer(c) \/ DockerFails(c)
    PROVE  CallsInv'
<1>1. StateTypes
    BY TypesOf
<1>2. ASSUME SpawnRefused(c), calls[c].at \in Spawning PROVE CallsInv'
  <2>1. Moves(c, Unspawned(c))
    BY <1>2, SpawnFailsMoves DEF SpawnRefused, SpawnFails
  <2>2. StateTypes'
    BY <1>1, <1>2 DEF StateTypes, SpawnRefused, SpawnFails, managerVars, saveVars
  <2> QED  BY <2>1, <2>2, MovedTypes
<1>3. CASE Look(c)
  <2>1. PICK new : Moves(c, new)
    BY <1>3, LookMoves
  <2>2. StateTypes'
    BY <1>1, <1>3 DEF StateTypes, Look, managerVars, saveVars, countVars
  <2> QED  BY <2>1, <2>2, MovedTypes
<1>4. CASE ClearExisting(c)
  <2>1. calls[c].at = "clear" /\ calls[c].target \in Ids
    BY <1>4, TargetInHand DEF ClearExisting
  <2>2. CASE Exists(calls[c].target)
    <3>1. Moves(c, [calls[c] EXCEPT !.at = "create", !.target = NoId])
      BY <1>4, <2>1, <2>2, ClearExistingMoves DEF ClearExisting
    <3>2. StateTypes'
      BY <1>1, <1>4, <2>1, <2>2, DockerTypes
         DEF StateTypes, ClearExisting, managerVars, saveVars, countVars
    <3> QED  BY <3>1, <3>2, MovedTypes
  <2>3. CASE ~Exists(calls[c].target)
    BY <1>4, <1>2, <2>1, <2>3 DEF ClearExisting, Spawning
  <2> QED  BY <2>2, <2>3
<1>5. CASE Create(c)
  <2>1. calls[c].at = "create" /\ calls[c].at \in Spawning
    BY <1>5 DEF Create, Spawning
  <2>2. CASE SpawnRefused(c)
    BY <1>2, <2>1, <2>2
  <2>3. ASSUME NEW id \in Ids,
               docker' = [docker EXCEPT ![id] = [slot |-> NextSlot(c), state |-> "created"]],
               calls' = [calls EXCEPT ![c].at = "run", ![c].target = id],
               UNCHANGED <<managerVars, asked, config, saveVars, phase, quiet, countVars>>
        PROVE  CallsInv'
    <3>1. Moves(c, [calls[c] EXCEPT !.at = "run", !.target = id])
      BY <2>1, <2>3, CreateMoves
    <3>2. docker' \in [Ids -> ContainerType]
      BY <2>1, <2>3, DockerTypes, SpawningCall
    <3>3. StateTypes'
      BY <1>1, <2>3, <3>2 DEF StateTypes, managerVars, saveVars, countVars
    <3> QED  BY <3>1, <3>3, MovedTypes
  <2> QED  BY <1>5, <2>2, <2>3 DEF Create
<1>6. CASE StartContainer(c)
  <2>1. /\ calls[c].at = "run" /\ calls[c].target \in Ids
        /\ calls[c].at \in Spawning
    BY <1>6, TargetInHand DEF StartContainer, Spawning
  <2>2. CASE Exists(calls[c].target)
    <3>1. PICK new : Moves(c, new)
      BY <1>6, <2>1, <2>2, StartContainerMoves
    <3>2. /\ docker' = [docker EXCEPT ![calls[c].target].state = "up"]
          /\ status' = [status EXCEPT ![calls[c].target] = "live"]
          /\ UNCHANGED <<asked, config, saveVars, phase, quiet, countVars>>
      BY <1>6, <2>2 DEF StartContainer
    <3>3. instances' \in [Plugins -> Seq(Ids)] /\ timers' \subseteq Plugins
      <4>1. Append(calls[c].list, calls[c].target) \in Seq(Ids) /\ calls[c].plugin \in Plugins
        BY <2>1, <2>2, SpawnedOne, SpawningCall
      <4> QED  BY <1>1, <1>6, <2>1, <2>2, <4>1, StartContainerMoves DEF SetInstances, StateTypes
    <3>4. StateTypes'
      BY <1>1, <2>1, <2>2, <3>2, <3>3, DockerTypes DEF StateTypes, saveVars, countVars
    <3> QED  BY <3>1, <3>4, MovedTypes
  <2>3. CASE ~Exists(calls[c].target)
    BY <1>6, <1>2, <2>1, <2>3 DEF StartContainer
  <2> QED  BY <2>2, <2>3
<1>7. CASE DockerFails(c)
  <2>1. Moves(c, Unspawned(c))
    BY <1>7, SpawnFailsMoves DEF DockerFails, SpawnFails, Spawning
  <2>2. StateTypes'
    BY <1>1, <1>7, FaultTypes DEF StateTypes, DockerFails, SpawnFails, managerVars, saveVars
  <2> QED  BY <2>1, <2>2, MovedTypes
<1> QED  BY <1>3, <1>4, <1>5, <1>6, <1>7

LEMMA WaitsTypes ==
    ASSUME CallsInv, NEW c \in Callers, WaitAsks(c) \/ WaitAnswered(c) \/ WaitOver(c)
    PROVE  CallsInv'
<1>1. StateTypes
    BY TypesOf
<1>2. CASE WaitAsks(c)
  <2>1. PICK id \in ToSet(instances[calls[c].plugin]) :
            calls' = [calls EXCEPT ![c].at = "answered", ![c].target = id]
    BY <1>2 DEF WaitAsks
  <2>2. calls[c].at = "wait" /\ calls[c].plugin \in Plugins
    BY <1>2, WorkingCall DEF WaitAsks, Working, Waiting
  <2>3. instances[calls[c].plugin] \in Seq(Ids)
    BY <2>2, CallTypes
  <2>4. id \in Ids
    BY <2>1, <2>3, LenProperties DEF ToSet
  <2>5. Moves(c, [calls[c] EXCEPT !.at = "answered", !.target = id])
    BY <2>1, <2>2, <2>4, WaitAsksMoves
  <2>6. StateTypes'
    BY <1>1, <1>2 DEF StateTypes, WaitAsks, managerVars, saveVars, countVars
  <2> QED  BY <2>5, <2>6, MovedTypes
<1>3. CASE WaitAnswered(c)
  <2>1. Moves(c, Unspawned(c))
    BY <1>3, SpawnFailsMoves DEF WaitAnswered, Waiting
  <2>2. StateTypes'
    BY <1>1, <1>3 DEF StateTypes, WaitAnswered, saveVars, countVars
  <2> QED  BY <2>1, <2>2, MovedTypes
<1>4. CASE WaitOver(c)
  <2>1. Moves(c, Unspawned(c))
    BY <1>4, SpawnFailsMoves DEF WaitOver, Waiting
  <2>2. StateTypes'
    BY <1>1, <1>4 DEF StateTypes, WaitOver, managerVars, saveVars, countVars
  <2> QED  BY <2>1, <2>2, MovedTypes
<1> QED  BY <1>2, <1>3, <1>4


LEMMA LoopsTypes ==
    ASSUME CallsInv, NEW c \in Callers, CleanUp(c) \/ NextPlugin(c)
    PROVE  CallsInv'
<1>1. StateTypes
    BY TypesOf
<1>2. CASE CleanUp(c)
  <2>1. PICK new : Moves(c, new)
    BY <1>2, CleanUpMoves
  <2>2. calls[c].at = "clean" /\ Head(calls[c].list) \in Ids
    BY <1>2, HeadInHand DEF CleanUp
  <2>3. docker' \in [Ids -> ContainerType]
    BY <1>1, <1>2, <2>2, DockerTypes DEF StateTypes, CleanUp
  <2>5. quiet' \subseteq Plugins /\ faults' \in 0..MaxFaults
    BY <1>1, <1>2, ContainerAssumption DEF StateTypes, CleanUp
  <2>4. StateTypes'
    BY <1>1, <1>2, <2>3, <2>5 DEF StateTypes, CleanUp, managerVars, saveVars
  <2> QED  BY <2>1, <2>4, MovedTypes
<1>3. CASE NextPlugin(c)
  <2>1. PICK new : Moves(c, new) /\ timers' \subseteq timers /\ phase' \in {phase, "ready"}
    BY <1>3, NextPluginMoves DEF Stopping
  <2>2. UNCHANGED <<docker, status, instances, asked, config, saveVars, quiet, countVars>>
    BY <1>3 DEF NextPlugin
  <2>3. StateTypes'
    BY <1>1, <2>1, <2>2 DEF StateTypes, saveVars, countVars
  <2> QED  BY <2>1, <2>3, MovedTypes
<1> QED  BY <1>2, <1>3

LEMMA HealthTypes ==
    ASSUME CallsInv, HealthWritten \/ \E p \in Plugins : HealthAsked(p)
    PROVE  CallsInv'
<1>1. StateTypes /\ calls' = calls
    BY TypesOf DEF HealthWritten, HealthAsked
<1>2. CASE HealthWritten
  <2>1. StateTypes'
    BY <1>1, <1>2 DEF StateTypes, HealthWritten, saveVars, countVars
  <2> QED  BY <1>1, <2>1, CallTypes, TypesHold
<1>3. ASSUME NEW p \in Plugins, HealthAsked(p) PROVE CallsInv'
  <2>1. PICK id \in ToSet(instances[p]) : asked' = {id}
    BY <1>3 DEF HealthAsked
  <2>2. instances[p] \in Seq(Ids)
    BY CallTypes
  <2>3. asked' \subseteq Ids
    BY <2>1, <2>2, LenProperties DEF ToSet
  <2>4. StateTypes'
    BY <1>1, <1>3, <2>3 DEF StateTypes, HealthAsked, managerVars, saveVars, countVars
  <2> QED  BY <1>1, <2>4, CallTypes, TypesHold
<1> QED  BY <1>2, <1>3

\* What ProcessEnds leaves.
LEMMA EndsTypes ==
    ASSUME CallsInv, ProcessEnds
    PROVE  /\ calls' \in [Callers -> CallType]
           /\ \A c \in Callers : calls'[c] = IdleCall /\ SoundCall(c, calls'[c])
           /\ status' \in [Ids -> {"live", "stopped"}]
           /\ instances' \in [Plugins -> Seq(Ids)] /\ timers' \subseteq Plugins
           /\ asked' \subseteq Ids /\ config' \in ConfigType
           /\ phase' = "down" /\ loneSave' \in BOOLEAN
           /\ UNCHANGED <<docker, file, requests, faults>>
<1>1. calls' = [c \in Callers |-> IdleCall]
    BY DEF ProcessEnds
<1>2. /\ calls' \in [Callers -> CallType]
      /\ \A c \in Callers : calls'[c] = IdleCall /\ SoundCall(c, calls'[c])
    BY <1>1, IdleCallSound
<1>3. config' \in ConfigType
    BY DEF ProcessEnds, EmptyConfig, ConfigType
<1>4. instances' \in [Plugins -> Seq(Ids)] /\ status' \in [Ids -> {"live", "stopped"}]
    BY DEF ProcessEnds
<1> QED  BY <1>2, <1>3, <1>4 DEF ProcessEnds

\* What the parser takes, it turns into configurations.
LEMMA LoadType ==
    ASSUME file \in ConfigType, Parses(file)
    PROVE  Load(file) \in ConfigType
<1>1. ASSUME NEW p \in Plugins PROVE Read(file[p]) \in Versions \cup {NoConfig}
    BY <1>1, ContainerAssumption DEF ConfigType, Parses, Read
<1> QED  BY <1>1 DEF Load, ConfigType

LEMMA ProcessTypes ==
    ASSUME CallsInv, Start \/ StartFails \/ Shutdown \/ ShutdownNext \/ Exit \/ Crash
    PROVE  CallsInv'
<1>1. StateTypes
    BY TypesOf
<1>2. CASE Start
  <2>1. CASE Parses(file)
    <3>1. PICK new : Moves(Startup, new)
      BY <1>2, <2>1, StartMoves
    <3>2. file \in ConfigType
      <4>2. ASSUME file = CutFile PROVE file \in ConfigType
        BY <2>1, <4>2, ContainerAssumption DEF Parses, CutFile, ConfigType
      <4> QED  BY <1>1, <4>2 DEF StateTypes
    <3>3. Load(file) \in ConfigType
      BY <2>1, <3>2, LoadType
    <3>4. StateTypes'
      BY <1>1, <1>2, <2>1, <3>2, <3>3 DEF StateTypes, Start, managerVars, countVars
    <3> QED  BY <3>1, <3>4, MovedTypes
  <2>2. CASE ~Parses(file)
    <3>1. StateTypes' /\ calls' = calls
      BY <1>1, <1>2, <2>2 DEF StateTypes, Start, managerVars, countVars
    <3> QED  BY <3>1, CallTypes, TypesHold
  <2> QED  BY <2>1, <2>2
<1>9. CASE StartFails
  <2>1. faults' \in 0..MaxFaults
    BY <1>1, <1>9, ContainerAssumption DEF StateTypes, StartFails
  <2>2. StateTypes' /\ calls' = calls
    BY <1>1, <1>9, <2>1 DEF StateTypes, StartFails, managerVars, saveVars
  <2> QED  BY <2>2, CallTypes, TypesHold
<1>3. CASE Shutdown
  <2>1. exits' \in 0..MaxExits
    BY <1>1, <1>3, ContainerAssumption DEF StateTypes, Shutdown
  <2>2. StateTypes'
    BY <1>1, <1>3, <2>1 DEF StateTypes, Shutdown, saveVars
  <2> QED  BY <1>3, <2>2, ShutdownMoves, MovedTypes
<1>4. CASE ShutdownNext
  <2>1. PICK new : Moves(Signal, new)
    BY <1>4, ShutdownNextMoves
  <2>2. StateTypes'
    BY <1>1, <1>4 DEF StateTypes, ShutdownNext, managerVars, saveVars, countVars
  <2> QED  BY <2>1, <2>2, MovedTypes
<1>5. CASE Exit
  <2>1. UNCHANGED <<quiet, exits>> /\ ProcessEnds
    BY <1>5 DEF Exit
  <2>2. StateTypes'
    BY <1>1, <2>1, EndsTypes DEF StateTypes
  <2> QED  BY <2>1, <2>2, EndsTypes, TypesHold
<1>6. CASE Crash
  <2>1. quiet' = {} /\ ProcessEnds /\ exits' \in 0..MaxExits
    BY <1>1, <1>6, ContainerAssumption DEF Crash, StateTypes
  <2>2. StateTypes'
    BY <1>1, <2>1, EndsTypes DEF StateTypes
  <2> QED  BY <2>1, <2>2, EndsTypes, TypesHold
<1> QED  BY <1>2, <1>3, <1>4, <1>5, <1>6, <1>9

LEMMA StutterTypes ==
    ASSUME CallsInv, UNCHANGED vars
    PROVE  CallsInv'
<1>1. StateTypes
    BY TypesOf
<1>2. StateTypes' /\ calls' = calls
    BY <1>1 DEF StateTypes, vars, managerVars, saveVars, countVars
<1> QED  BY <1>2, CallTypes, TypesHold

LEMMA NextTypes ==
    ASSUME CallsInv, [Next]_vars
    PROVE  CallsInv'
<1>1. CASE UNCHANGED vars
    BY <1>1, StutterTypes
<1>2. ASSUME NEW c \in Requests,
             \/ RestartAll(c)
             \/ \E p \in Plugins : RestartPlugin(c, p) \/ RemovePlugin(c, p)
             \/ \E p \in Plugins, v \in Given : AddPlugin(c, p, v) \/ Update(c, p, v)
      PROVE  CallsInv'
    BY <1>2, RequestsTypes
<1>3. ASSUME NEW c \in Callers, CallStep(c) \/ SaveFails(c) \/ DockerFails(c) \/ WaitAsks(c)
      PROVE  CallsInv'
    BY <1>3, SavesTypes, StopsTypes, SpawnsTypes, WaitsTypes, LoopsTypes DEF CallStep
<1>4. CASE HealthWritten \/ \E p \in Plugins : HealthAsked(p)
    BY <1>4, HealthTypes
<1>5. CASE Start \/ StartFails \/ Shutdown \/ ShutdownNext \/ Exit \/ Crash
    BY <1>5, ProcessTypes
<1> QED  BY <1>1, <1>2, <1>3, <1>4, <1>5 DEF Next

-----------------------------------------------------------------------------
(* The stages of the process, and the configuration file. *)

ConfigInv == CallsInv /\ PhaseSound /\ SaveInv

\* While a call is in progress, the process is up.
LEMMA BusyUp ==
    ASSUME ConfigInv, NEW c \in Callers, Busy(c)
    PROVE  phase \in {"starting", "ready"}
BY TypesOf DEF ConfigInv, PhaseSound, StateTypes

\* initialize() ends only by getting ready.
LEMMA PhaseStays ==
    ASSUME ConfigInv, NEW c, NEW new, Moves(c, new), UNCHANGED phase,
           phase \in {"starting", "ready"},
           c = Startup => Busy(c) /\ new.at # "idle"
    PROVE  PhaseSound'
<1>1. calls'[c] = new /\ \A d \in Callers : d # c => calls'[d] = calls[d]
    BY MovedCalls, CallTypes DEF ConfigInv
<1>2. Busy(Startup)' <=> Busy(Startup)
    BY <1>1, StartupCaller DEF Busy
<1>3. phase' = "starting" <=> Busy(Startup)'
    BY <1>2 DEF ConfigInv, PhaseSound
<1>4. phase' \notin {"down", "broken"}
    OBVIOUS
<1> QED  BY <1>3, <1>4 DEF PhaseSound

LEMMA SaveStays ==
    ASSUME ConfigInv, NEW c, NEW new, Moves(c, new), UNCHANGED <<config, file, loneSave>>,
           phase \in {"starting", "ready"}, calls[c].at # "save", new.at # "save"
    PROVE  SaveInv'
<1>1. calls'[c] = new /\ \A d \in Callers : d # c => calls'[d] = calls[d]
    BY MovedCalls, CallTypes DEF ConfigInv
<1>2. \A d \in Callers : /\ calls'[d].at = "save" <=> calls[d].at = "save"
                         /\ calls[d].at = "save" => calls'[d] = calls[d]
    BY <1>1
<1>3. FileWhole' = FileWhole /\ (FileServes => FileServes')
    BY DEF FileWhole, FileServes
<1> QED  BY <1>2, <1>3 DEF ConfigInv, SaveInv

LEMMA SaveBegins ==
    ASSUME ConfigInv, NEW c, NEW op, NEW p, NEW cfg, SavingCall(c, op, p, cfg),
           Moves(c, SaveCall(op, p, cfg))
    PROVE  SaveInv'
<1>1. /\ calls'[c] = SaveCall(op, p, cfg) /\ c \in Callers
      /\ \A d \in Callers : d # c => calls'[d] = calls[d]
    BY MovedCalls, CallTypes DEF ConfigInv, Moves
<1>2. calls'[c].at = "save" /\ calls'[c].text = config'
  <2>1. SaveCall(op, p, cfg).at = "save" /\ SaveCall(op, p, cfg).text = cfg
    BY DEF SaveCall, IdleCall
  <2>2. config' = cfg
    BY DEF SavingCall
  <2> QED  BY <1>1, <2>1, <2>2
<1>3. loneSave' => \A d \in Callers : d # c => calls'[d].at # "save"
    BY <1>1 DEF SavingCall, Saving
<1> QED  BY <1>1, <1>2, <1>3 DEF SaveInv

LEMMA RequestsConfig ==
    ASSUME ConfigInv, NEW c \in Requests,
           \/ RestartAll(c)
           \/ \E p \in Plugins : RestartPlugin(c, p) \/ RemovePlugin(c, p)
           \/ \E p \in Plugins, v \in Given : AddPlugin(c, p, v) \/ Update(c, p, v)
    PROVE  PhaseSound' /\ SaveInv'
<1>1. CallsInv /\ c # Startup /\ c \in Callers
    BY RequestCaller DEF ConfigInv
<1>2. phase' = phase /\ phase = "ready" /\ calls[c].at = "idle"
    BY DEF RestartAll, RestartPlugin, RemovePlugin, AddPlugin, Update, Request, Busy
<1>3. ASSUME NEW new, Moves(c, new), new.at # "save", UNCHANGED <<config, file, loneSave>>
      PROVE  PhaseSound' /\ SaveInv'
    BY <1>1, <1>2, <1>3, PhaseStays, SaveStays
<1>4. ASSUME NEW op, NEW p, NEW cfg, SavingCall(c, op, p, cfg), Moves(c, SaveCall(op, p, cfg))
      PROVE  PhaseSound' /\ SaveInv'
    BY <1>1, <1>2, <1>4, PhaseStays, SaveBegins
<1>5. CASE RestartAll(c)
  <2> DEFINE new == [IdleCall EXCEPT !.op = "restartAll", !.at = "next",
                                     !.rest = {p \in Plugins : instances[p] # <<>>}]
  <2>1. Moves(c, new) /\ UNCHANGED <<config, file, loneSave>>
    BY <1>1, <1>5, RestartAllMoves DEF RestartAll, saveVars
  <2>2. new.at # "save"
    BY DEF IdleCall
  <2> HIDE DEF new
  <2> QED  BY <1>3, <2>1, <2>2
<1>6. ASSUME NEW p \in Plugins, RestartPlugin(c, p) PROVE PhaseSound' /\ SaveInv'
  <2>1. /\ Moves(c, StopCall("restart", p, {}, instances[p]))
        /\ UNCHANGED <<config, file, loneSave>>
    BY <1>1, <1>6, RestartPluginMoves DEF RestartPlugin, saveVars
  <2>2. StopCall("restart", p, {}, instances[p]).at # "save"
    BY DEF StopCall, IdleCall
  <2> QED  BY <1>3, <2>1, <2>2
<1>7. ASSUME NEW p \in Plugins, RemovePlugin(c, p) PROVE PhaseSound' /\ SaveInv'
  <2>1. StopCall("remove", p, {}, instances[p]).at # "save" /\ IdleCall.at # "save"
    BY DEF StopCall, IdleCall
  <2>2. CASE /\ UNCHANGED <<config, saveVars>>
             /\ Moves(c, StopCall("remove", p, {}, instances[p])) \/ Moves(c, IdleCall)
    BY <1>3, <2>1, <2>2 DEF saveVars
  <2>3. CASE /\ SavingCall(c, "remove", p, [config EXCEPT ![p] = NoConfig])
             /\ Moves(c, SaveCall("remove", p, [config EXCEPT ![p] = NoConfig]))
    BY <1>4, <2>3
  <2> QED  BY <1>1, <1>7, <2>2, <2>3, RemovePluginMoves
<1>8. ASSUME NEW p \in Plugins, NEW v \in Given, AddPlugin(c, p, v) \/ Update(c, p, v)
      PROVE  PhaseSound' /\ SaveInv'
    BY <1>1, <1>4, <1>8, AddPluginMoves, UpdateMoves
<1> QED  BY <1>5, <1>6, <1>7, <1>8


\* A call goes on that has nothing to save.
LEMMA GoesOn ==
    ASSUME ConfigInv, NEW c, NEW new, Moves(c, new), Busy(c), UNCHANGED phase,
           UNCHANGED <<config, file, loneSave>>, calls[c].at # "save", new.at # "save",
           c = Startup => new.at # "idle"
    PROVE  PhaseSound' /\ SaveInv'
<1>1. phase \in {"starting", "ready"}
    BY BusyUp DEF Moves
<1> QED  BY <1>1, PhaseStays, SaveStays

LEMMA SavesConfig ==
    ASSUME ConfigInv, NEW c \in Callers, SaveEnds(c) \/ SaveFails(c)
    PROVE  PhaseSound' /\ SaveInv'
<1>1. CallsInv /\ calls[c].at = "save" /\ Busy(c) /\ phase' = phase /\ config' = config
    BY DEF ConfigInv, SaveEnds, SaveFails, Busy
<1>2. phase \in {"starting", "ready"}
    BY <1>1, BusyUp
<1>3. calls[c].op # "start" /\ c # Startup
  <2>1. calls[c].op \in OpsOf(c) /\ "save" \in StagesOf(calls[c].op)
    BY <1>1, WorkingCall DEF Working
  <2> QED  BY <2>1, StartupCaller DEF StagesOf, Spawning, Waiting
<1>4. CASE SaveEnds(c)
  <2>1. /\ [calls[c] EXCEPT !.at = "list", !.text = CutFile].at # "save"
        /\ StopCall("update", calls[c].plugin, {}, instances[calls[c].plugin]).at # "save"
        /\ IdleCall.at # "save"
    BY <1>1, CallTypes DEF StopCall, IdleCall, CallType
  <2>2. PICK new : Moves(c, new) /\ new.at # "save"
    BY <1>1, <1>4, <2>1, SaveEndsMoves
  <2>3. calls'[c] = new /\ \A d \in Callers : d # c => calls'[d] = calls[d]
    BY <1>1, <2>2, MovedCalls, CallTypes
  <2>4. file' = calls[c].text /\ loneSave' = loneSave
    BY <1>4 DEF SaveEnds
  <2>5. loneSave => file' = config'
    BY <1>1, <2>4 DEF ConfigInv, SaveInv
  <2>6. loneSave => FileWhole'
    <3>1. ASSUME NEW p \in Plugins PROVE config[p] # "cut"
      BY <1>1, <3>1, TypesOf, ContainerAssumption DEF StateTypes, ConfigType, NoConfig
    <3> QED  BY <1>1, <2>5, <3>1 DEF FileWhole
  <2>7. loneSave => FileServes'
    BY <2>5 DEF FileServes
  <2>8. loneSave => \A d \in Callers : calls'[d].at # "save"
    BY <1>1, <2>2, <2>3 DEF ConfigInv, SaveInv
  <2>9. SaveInv'
    BY <2>4, <2>6, <2>7, <2>8 DEF SaveInv
  <2> QED  BY <1>1, <1>2, <1>3, <2>2, <2>9, PhaseStays
<1>5. CASE SaveFails(c)
  <2>1. Moves(c, IdleCall) /\ loneSave' = FALSE
    BY <1>1, <1>5, EndedCall DEF SaveFails
  <2>2. SaveInv'
    BY <2>1 DEF SaveInv
  <2> QED  BY <1>1, <1>2, <1>3, <2>1, <2>2, PhaseStays
<1> QED  BY <1>4, <1>5

LEMMA StopsConfig ==
    ASSUME ConfigInv, NEW c \in Callers, StopContainer(c) \/ RemoveContainer(c)
    PROVE  PhaseSound' /\ SaveInv'
<1>1. /\ CallsInv /\ calls[c].at \in Ending /\ calls[c].at # "save" /\ Busy(c)
      /\ phase' = phase /\ calls[c] \in CallType
    BY CallTypes DEF ConfigInv, StopContainer, RemoveContainer, Ending, Busy
<1>2. phase \in {"starting", "ready"}
    BY <1>1, BusyUp
<1>3. c # Startup
  <2>1. calls[c].op \in OpsOf(c) /\ calls[c].at \in StagesOf(calls[c].op)
    BY <1>1, WorkingCall DEF Working
  <2> QED  BY <1>1, <2>1, StartupCaller DEF StagesOf, Spawning, Waiting, Ending
<1>4. ASSUME NEW new, Moves(c, new), new.at # "save", UNCHANGED <<config, file, loneSave>>
      PROVE  PhaseSound' /\ SaveInv'
    BY <1>1, <1>3, <1>4, GoesOn
<1>5. /\ [calls[c] EXCEPT !.at = "remove"].at # "save"
      /\ [calls[c] EXCEPT !.at = "stop", !.list = Tail(calls[c].list)].at # "save"
      /\ [calls[c] EXCEPT !.at = "list", !.list = <<>>].at # "save"
      /\ [calls[c] EXCEPT !.at = "next", !.list = <<>>].at # "save"
      /\ IdleCall.at # "save"
    BY <1>1 DEF CallType, IdleCall
<1>6. CASE StopContainer(c)
  <2>1. UNCHANGED <<config, file, loneSave>>
    BY <1>6 DEF StopContainer, saveVars
  <2> QED  BY <1>1, <1>4, <1>5, <1>6, <2>1, StopContainerMoves
<1>7. CASE RemoveContainer(c)
  <2>1. CASE /\ Len(calls[c].list) > 1
             /\ calls' = [calls EXCEPT ![c].at = "stop", ![c].list = Tail(@)]
             /\ UNCHANGED <<instances, config, saveVars>>
    <3>1. calls[c].at = "remove" /\ UNCHANGED <<config, file, loneSave>>
      BY <1>7, <2>1 DEF RemoveContainer, saveVars
    <3>2. Moves(c, [calls[c] EXCEPT !.at = "stop", !.list = Tail(calls[c].list)])
      BY <1>1, <2>1, <3>1, RemoveOneMoves
    <3> QED  BY <1>4, <1>5, <3>1, <3>2
  <2>2. CASE AllStopped(c)
    <3>1. calls[c].at = "remove"
      BY <1>7 DEF RemoveContainer
    <3>2. CASE /\ UNCHANGED <<config, saveVars>>
               /\ \/ Moves(c, [calls[c] EXCEPT !.at = "list", !.list = <<>>])
                  \/ Moves(c, IdleCall)
                  \/ Moves(c, [calls[c] EXCEPT !.at = "next", !.list = <<>>])
      BY <1>4, <1>5, <3>2 DEF saveVars
    <3>3. ASSUME NEW p, NEW cfg, SavingCall(c, "remove", p, cfg),
                 Moves(c, SaveCall("remove", p, cfg))
          PROVE  PhaseSound' /\ SaveInv'
      BY <1>1, <1>2, <1>3, <3>3, PhaseStays, SaveBegins
    <3> QED  BY <1>1, <2>2, <3>1, <3>2, <3>3, AllStoppedMoves
  <2> QED  BY <1>7, <2>1, <2>2 DEF RemoveContainer
<1> QED  BY <1>6, <1>7


LEMMA UnspawnedStage ==
    ASSUME CallsInv, NEW c \in Callers, Busy(c)
    PROVE  /\ Unspawned(c).at # "save"
           /\ c = Startup => Unspawned(c).at # "idle"
<1>1. calls[c] \in CallType /\ SoundCall(c, calls[c])
    BY CallTypes
<1>2. c = Startup => calls[c].op = "start"
    BY <1>1, StartupCaller DEF SoundCall, Busy
<1>3. [calls[c] EXCEPT !.at = "next", !.list = <<>>, !.target = NoId].at = "next"
    BY <1>1 DEF CallType
<1>4. IdleCall.at # "save"
    BY DEF IdleCall
<1> QED  BY <1>2, <1>3, <1>4 DEF Unspawned

LEMMA SpawnsConfig ==
    ASSUME ConfigInv, NEW c \in Callers,
           Look(c) \/ ClearExisting(c) \/ Create(c) \/ StartContainer(c) \/ DockerFails(c)
    PROVE  PhaseSound' /\ SaveInv'
<1>1. /\ CallsInv /\ calls[c].at \in Spawning /\ calls[c].at # "save" /\ Busy(c)
      /\ calls[c] \in CallType
    BY CallTypes DEF ConfigInv, Look, ClearExisting, Create, StartContainer, DockerFails,
                     Spawning, Busy
<1>2. UNCHANGED <<config, file, loneSave, phase>>
    BY DEF Look, ClearExisting, Create, StartContainer, DockerFails, SpawnRefused, SpawnFails,
           saveVars
<1>3. ASSUME NEW new, Moves(c, new), new.at # "save", c = Startup => new.at # "idle"
      PROVE  PhaseSound' /\ SaveInv'
    BY <1>1, <1>2, <1>3, GoesOn
<1>4. CASE Moves(c, Unspawned(c))
    BY <1>1, <1>3, <1>4, UnspawnedStage
<1>5. /\ [calls[c] EXCEPT !.at = "create"].at = "create"
      /\ [calls[c] EXCEPT !.at = "create", !.target = NoId].at = "create"
      /\ \A id : /\ [calls[c] EXCEPT !.at = "clear", !.target = id].at = "clear"
                 /\ [calls[c] EXCEPT !.at = "run", !.target = id].at = "run"
      /\ \A ids : /\ [calls[c] EXCEPT !.at = "wait", !.list = ids, !.target = NoId].at = "wait"
                  /\ [calls[c] EXCEPT !.at = "list", !.list = ids, !.target = NoId].at = "list"
    BY <1>1 DEF CallType
<1>6. CASE Look(c)
    BY <1>1, <1>3, <1>5, <1>6, LookMoves
<1>7. CASE SpawnRefused(c) \/ DockerFails(c)
    BY <1>1, <1>4, <1>7, SpawnFailsMoves DEF SpawnRefused, DockerFails, SpawnFails
<1>8. CASE ClearExisting(c) /\ Exists(calls[c].target)
  <2>1. Moves(c, [calls[c] EXCEPT !.at = "create", !.target = NoId])
    BY <1>1, <1>8, ClearExistingMoves DEF ClearExisting
  <2> QED  BY <1>3, <1>5, <2>1
<1>9. CASE Create(c) /\ ~SpawnRefused(c)
  <2>1. PICK id \in Ids : calls' = [calls EXCEPT ![c].at = "run", ![c].target = id]
    BY <1>9 DEF Create
  <2>2. Moves(c, [calls[c] EXCEPT !.at = "run", !.target = id])
    BY <1>1, <1>9, <2>1, CreateMoves DEF Create
  <2> QED  BY <1>3, <1>5, <2>2
<1>10. CASE StartContainer(c) /\ Exists(calls[c].target)
  <2>1. calls[c].target \in Ids
    BY <1>1, <1>10, TargetInHand DEF StartContainer
  <2> QED  BY <1>1, <1>3, <1>5, <1>10, <2>1, StartContainerMoves
<1> QED  BY <1>6, <1>7, <1>8, <1>9, <1>10 DEF ClearExisting, StartContainer

LEMMA WaitsConfig ==
    ASSUME ConfigInv, NEW c \in Callers, WaitAsks(c) \/ WaitAnswered(c) \/ WaitOver(c)
    PROVE  PhaseSound' /\ SaveInv'
<1>1. /\ CallsInv /\ calls[c].at \in Waiting /\ calls[c].at # "save" /\ Busy(c)
      /\ calls[c] \in CallType
    BY CallTypes DEF ConfigInv, WaitAsks, WaitAnswered, WaitOver, Waiting, Busy
<1>2. UNCHANGED <<config, file, loneSave, phase>>
    BY DEF WaitAsks, WaitAnswered, WaitOver, saveVars
<1>3. CASE WaitAsks(c)
  <2>1. PICK id \in ToSet(instances[calls[c].plugin]) :
            calls' = [calls EXCEPT ![c].at = "answered", ![c].target = id]
    BY <1>3 DEF WaitAsks
  <2>2. calls[c].at = "wait" /\ calls[c].plugin \in Plugins
    BY <1>1, <1>3, WorkingCall DEF WaitAsks, Working
  <2>3. id \in Ids
    BY <1>1, <2>1, <2>2, CallTypes, LenProperties DEF ToSet
  <2>4. Moves(c, [calls[c] EXCEPT !.at = "answered", !.target = id])
    BY <1>1, <2>1, <2>2, <2>3, WaitAsksMoves
  <2>5. [calls[c] EXCEPT !.at = "answered", !.target = id].at = "answered"
    BY <1>1 DEF CallType
  <2> QED  BY <1>1, <1>2, <2>4, <2>5, GoesOn
<1>4. CASE WaitAnswered(c) \/ WaitOver(c)
  <2>1. Moves(c, Unspawned(c))
    BY <1>1, <1>4, SpawnFailsMoves DEF WaitAnswered, WaitOver
  <2> QED  BY <1>1, <1>2, <2>1, UnspawnedStage, GoesOn
<1> QED  BY <1>3, <1>4

LEMMA LoopsConfig ==
    ASSUME ConfigInv, NEW c \in Callers, CleanUp(c) \/ NextPlugin(c)
    PROVE  PhaseSound' /\ SaveInv'
<1>1. /\ CallsInv /\ calls[c].at \in {"clean", "next"} /\ Busy(c)
      /\ calls[c] \in CallType
    BY CallTypes DEF ConfigInv, CleanUp, NextPlugin, Busy
<1>2. UNCHANGED <<config, file, loneSave>>
    BY DEF CleanUp, NextPlugin, saveVars
<1>3. CASE CleanUp(c)
  <2>1. /\ [calls[c] EXCEPT !.list = <<>>, !.at = "next"].at = "next"
        /\ [calls[c] EXCEPT !.list = Tail(calls[c].list)].at = calls[c].at
    BY <1>1 DEF CallType
  <2>2. phase' = phase
    BY <1>3 DEF CleanUp
  <2> QED  BY <1>1, <1>2, <1>3, <2>1, <2>2, CleanUpMoves, GoesOn
<1>4. CASE NextPlugin(c)
  <2>1. ASSUME NEW new, Moves(c, new), new.at \in {"list", "stop", "next"}, UNCHANGED phase
        PROVE  PhaseSound' /\ SaveInv'
    BY <1>1, <1>2, <2>1, GoesOn
  <2>2. CASE calls[c].rest = {} /\ Moves(c, IdleCall)
             /\ phase' = IF calls[c].op = "start" THEN "ready" ELSE phase
    <3>1. IdleCall.at = "idle"
      BY DEF IdleCall
    <3>2. c = Startup <=> calls[c].op = "start"
      <4>1. calls[c].op \in OpsOf(c)
        BY <1>1, CallTypes DEF SoundCall, Busy
      <4> QED  BY <4>1 DEF OpsOf
    <3>3. CASE c # Startup
      BY <1>1, <1>2, <2>2, <3>1, <3>2, <3>3, GoesOn
    <3>4. CASE c = Startup
      <4>1. phase' = "ready" /\ ~Busy(Startup)'
        BY <1>1, <2>2, <3>1, <3>2, <3>4, MovedCalls, CallTypes DEF Busy
      <4>2. PhaseSound'
        BY <4>1 DEF PhaseSound
      <4>3. phase \in {"starting", "ready"}
        BY <1>1, BusyUp
      <4> QED  BY <1>1, <1>2, <2>2, <3>1, <4>2, <4>3, SaveStays
    <3> QED  BY <3>3, <3>4
  <2>3. \A p, others :
           /\ [calls[c] EXCEPT !.at = "list", !.plugin = p, !.rest = others].at = "list"
           /\ StopCall("restartAll", p, others, instances[p]).at = "stop"
           /\ [calls[c] EXCEPT !.rest = others].at = calls[c].at
    BY <1>1 DEF CallType, StopCall, IdleCall
  <2>4. calls[c].at = "next"
    BY <1>4 DEF NextPlugin
  <2>5. ASSUME NEW p, NEW others, UNCHANGED phase,
               \/ Moves(c, [calls[c] EXCEPT !.at = "list", !.plugin = p, !.rest = others])
               \/ Moves(c, StopCall("restartAll", p, others, instances[p]))
               \/ Moves(c, [calls[c] EXCEPT !.rest = others])
        PROVE  PhaseSound' /\ SaveInv'
    <3>1. CASE Moves(c, [calls[c] EXCEPT !.at = "list", !.plugin = p, !.rest = others])
      BY <2>1, <2>3, <2>5, <3>1
    <3>2. CASE Moves(c, StopCall("restartAll", p, others, instances[p]))
      BY <2>1, <2>3, <2>5, <3>2
    <3>3. CASE Moves(c, [calls[c] EXCEPT !.rest = others])
      BY <2>1, <2>3, <2>4, <2>5, <3>3
    <3> QED  BY <2>5, <3>1, <3>2, <3>3
  <2>6. \/ /\ calls[c].rest = {} /\ Moves(c, IdleCall)
           /\ phase' = IF calls[c].op = "start" THEN "ready" ELSE phase
        \/ \E p, others :
              /\ UNCHANGED phase
              /\ \/ Moves(c, [calls[c] EXCEPT !.at = "list", !.plugin = p, !.rest = others])
                 \/ Moves(c, StopCall("restartAll", p, others, instances[p]))
                 \/ Moves(c, [calls[c] EXCEPT !.rest = others])
    BY <1>1, <1>4, NextPluginMoves
  <2> QED  BY <2>2, <2>5, <2>6
<1> QED  BY <1>3, <1>4


LEMMA ConfigSame ==
    ASSUME ConfigInv, UNCHANGED <<instances, timers, config, file, loneSave, calls, phase>>
    PROVE  PhaseSound' /\ SaveInv'
<1>1. PhaseSound'
    BY DEF ConfigInv, PhaseSound, Busy
<1>2. SaveInv'
    BY DEF ConfigInv, SaveInv, FileWhole, FileServes
<1> QED  BY <1>1, <1>2

\* The process is down or broken: nobody is at work, and nothing is in memory.
LEMMA PhaseEnds ==
    ASSUME phase' \in {"down", "broken"}, \A c \in Callers : calls'[c] = IdleCall,
           \A p \in Plugins : instances'[p] = <<>>, timers' = {}, SaveInv, UNCHANGED file,
           loneSave' => loneSave /\ \A c \in Callers : calls[c].at # "save"
    PROVE  PhaseSound' /\ SaveInv'
<1>1. \A c \in Callers : ~Busy(c)' /\ calls'[c].at # "save"
    BY DEF Busy, IdleCall
<1>2. PhaseSound'
    BY <1>1, StartupCaller DEF PhaseSound
<1>3. SaveInv'
    BY <1>1 DEF SaveInv, FileWhole, FileServes
<1> QED  BY <1>2, <1>3

LEMMA ProcessConfig ==
    ASSUME ConfigInv, Start \/ StartFails \/ Shutdown \/ ShutdownNext \/ Exit \/ Crash
    PROVE  PhaseSound' /\ SaveInv'
<1>1. CallsInv
    BY DEF ConfigInv
<1>2. CASE Start
  <2>1. /\ \A c \in Callers : calls[c] = IdleCall
        /\ \A p \in Plugins : instances[p] = <<>>
        /\ timers = {}
    <3>1. \A c \in Callers : ~Busy(c)
      BY <1>2 DEF Start, ConfigInv, PhaseSound
    <3>2. \A c \in Callers : calls[c] = IdleCall
      BY <1>1, <3>1, CallTypes DEF Busy, SoundCall
    <3> QED  BY <1>2, <3>2 DEF Start, ConfigInv, PhaseSound
  <2>2. UNCHANGED <<instances, timers>>
    BY <1>2 DEF Start, managerVars
  <2>3. CASE Parses(file)
    <3> DEFINE at == IF StaleContainers = <<>> THEN "next" ELSE "clean"
               new == [IdleCall EXCEPT !.op = "start", !.list = StaleContainers, !.at = at,
                                       !.rest = EnabledPlugins(Load(file))]
    <3>1. Moves(Startup, new)
      BY <1>2, <1>1, <2>3, StartMoves
    <3>2. new.at \in {"next", "clean"}
      BY DEF IdleCall
    <3> HIDE DEF new
    <3>3. calls'[Startup] = new /\ \A d \in Callers : d # Startup => calls'[d] = IdleCall
      BY <1>1, <2>1, <3>1, MovedCalls, CallTypes
    <3>4. phase' = "starting" /\ config' = Load(file) /\ file' = file
      BY <1>2, <2>3 DEF Start
    <3>5. \A d \in Callers : calls'[d].at # "save"
      BY <3>2, <3>3 DEF IdleCall
    <3>6. Busy(Startup)'
      BY <3>2, <3>3 DEF Busy
    <3>7. PhaseSound'
      BY <3>4, <3>6 DEF PhaseSound
    <3>8. FileWhole' /\ FileServes'
      BY <2>3, <3>4 DEF FileWhole, FileServes, Parses, Load
    <3>9. SaveInv'
      BY <3>5, <3>8 DEF SaveInv
    <3> QED  BY <3>7, <3>9
  <2>4. CASE ~Parses(file)
    <3>1. /\ phase' = "broken" /\ UNCHANGED <<file, loneSave, calls>>
          /\ \A c \in Callers : calls[c].at # "save"
      BY <1>2, <2>1, <2>4 DEF Start, IdleCall
    <3> QED  BY <2>1, <2>2, <3>1, PhaseEnds DEF ConfigInv
  <2> QED  BY <2>3, <2>4
<1>6. CASE StartFails
  <2>1. /\ phase = "down" /\ phase' = "broken"
        /\ UNCHANGED <<instances, timers, file, loneSave, calls>>
    BY <1>6 DEF StartFails, managerVars, saveVars
  <2>2. /\ \A c \in Callers : calls[c] = IdleCall
        /\ \A p \in Plugins : instances[p] = <<>>
        /\ timers = {}
    <3>1. \A c \in Callers : ~Busy(c)
      BY <2>1 DEF ConfigInv, PhaseSound
    <3>2. \A c \in Callers : calls[c] = IdleCall
      BY <1>1, <3>1, CallTypes DEF Busy, SoundCall
    <3> QED  BY <2>1, <3>2 DEF ConfigInv, PhaseSound
  <2>3. \A c \in Callers : calls[c].at # "save"
    BY <2>2 DEF IdleCall
  <2> QED  BY <2>1, <2>2, <2>3, PhaseEnds DEF ConfigInv
<1>3. CASE Shutdown
  <2> DEFINE new == [IdleCall EXCEPT !.op = "shutdown", !.at = "next"]
  <2>1. Moves(Signal, new) /\ new.at = "next"
    BY <1>3, <1>1, ShutdownMoves DEF IdleCall
  <2> HIDE DEF new
  <2>2. /\ UNCHANGED <<config, file, loneSave, phase>> /\ phase \in {"starting", "ready"}
        /\ calls[Signal].at # "save"
    BY <1>3 DEF Shutdown, saveVars, Busy
  <2> QED  BY <2>1, <2>2, SignalCaller, PhaseStays, SaveStays
<1>4. CASE ShutdownNext
  <2>1. PICK p : Moves(Signal, [calls[Signal] EXCEPT !.at = "stop", !.plugin = p,
                                       !.rest = calls[Signal].rest \cup {p},
                                       !.list = instances[p]])
    BY <1>4, <1>1, ShutdownNextMoves
  <2> DEFINE new == [calls[Signal] EXCEPT !.at = "stop", !.plugin = p,
                                       !.rest = calls[Signal].rest \cup {p},
                                       !.list = instances[p]]
  <2>2. new.at = "stop"
    BY <1>1, CallTypes, SignalCaller DEF CallType
  <2>3. calls[Signal].at = "next" /\ UNCHANGED <<config, file, loneSave, phase>>
    BY <1>4 DEF ShutdownNext, saveVars
  <2>4. Moves(Signal, new)
    BY <2>1
  <2> HIDE DEF new
  <2>5. Busy(Signal)
    BY <2>3 DEF Busy
  <2> QED  BY <2>2, <2>3, <2>4, <2>5, SignalCaller, GoesOn
<1>5. CASE Exit \/ Crash
  <2>1. ProcessEnds
    BY <1>5 DEF Exit, Crash
  <2>2. \A p \in Plugins : instances'[p] = <<>>
    BY <2>1 DEF ProcessEnds
  <2>3. /\ timers' = {} /\ UNCHANGED file
        /\ loneSave' => loneSave /\ \A c \in Callers : calls[c].at # "save"
    BY <2>1 DEF ProcessEnds
  <2> QED  BY <1>1, <2>1, <2>2, <2>3, EndsTypes, PhaseEnds DEF ConfigInv
<1> QED  BY <1>2, <1>3, <1>4, <1>5, <1>6

LEMMA ConfigStep ==
    ASSUME ConfigInv, [Next]_vars
    PROVE  ConfigInv'
<1>1. CallsInv'
    BY NextTypes DEF ConfigInv
<1> SUFFICES PhaseSound' /\ SaveInv'
    BY <1>1 DEF ConfigInv
<1>2. CASE UNCHANGED vars
    BY <1>2, ConfigSame DEF vars, managerVars, saveVars
<1>3. ASSUME NEW c \in Requests,
             \/ RestartAll(c)
             \/ \E p \in Plugins : RestartPlugin(c, p) \/ RemovePlugin(c, p)
             \/ \E p \in Plugins, v \in Given : AddPlugin(c, p, v) \/ Update(c, p, v)
      PROVE  PhaseSound' /\ SaveInv'
    BY <1>3, RequestsConfig
<1>4. ASSUME NEW c \in Callers, CallStep(c) \/ SaveFails(c) \/ DockerFails(c) \/ WaitAsks(c)
      PROVE  PhaseSound' /\ SaveInv'
    BY <1>4, SavesConfig, StopsConfig, SpawnsConfig, WaitsConfig, LoopsConfig DEF CallStep
<1>5. CASE HealthWritten \/ \E p \in Plugins : HealthAsked(p)
    BY <1>5, ConfigSame DEF HealthWritten, HealthAsked, managerVars, saveVars
<1>6. CASE Start \/ StartFails \/ Shutdown \/ ShutdownNext \/ Exit \/ Crash
    BY <1>6, ProcessConfig
<1> QED  BY <1>1, <1>2, <1>3, <1>4, <1>5, <1>6 DEF Next

LEMMA ConfigInit == Init => ConfigInv
<1> SUFFICES ASSUME Init PROVE ConfigInv
    OBVIOUS
<1>1. CallsInv
    BY InitTypes
<1>2. \A c \in Callers : calls[c] = IdleCall /\ ~Busy(c)
    BY DEF Init, Busy, IdleCall
<1>3. PhaseSound
    BY <1>2, StartupCaller DEF Init, PhaseSound
<1>4. FileWhole
  <2>1. file \in [Plugins -> Versions \cup {NoConfig}]
    BY ContainerAssumption DEF Init
  <2> QED  BY <2>1, ContainerAssumption DEF FileWhole, NoConfig
<1>5. SaveInv
    BY <1>2, <1>4 DEF Init, SaveInv, FileServes, IdleCall
<1> QED  BY <1>1, <1>3, <1>5 DEF ConfigInv

-----------------------------------------------------------------------------
(* The elements of a list of containers. *)

LEMMA EmptyList == ToSet(<<>>) = {} /\ IsInjective(<<>>)
BY DEF ToSet, IsInjective

LEMMA ToSetTyped ==
    ASSUME NEW s \in Seq(Ids)
    PROVE  ToSet(s) \subseteq Ids /\ ToSet(s) = {s[i] : i \in 1..Len(s)}
BY LenProperties DEF ToSet

LEMMA ToSetTail ==
    ASSUME NEW s \in Seq(Ids), s # <<>>
    PROVE  /\ Head(s) \in ToSet(s)
           /\ ToSet(s) = {Head(s)} \cup ToSet(Tail(s))
           /\ IsInjective(s) => /\ IsInjective(Tail(s))
                                /\ ToSet(Tail(s)) = ToSet(s) \ {Head(s)}
<1>1. /\ Len(s) \in Nat \ {0} /\ Len(Tail(s)) = Len(s) - 1 /\ Tail(s) \in Seq(Ids)
      /\ \A i \in 1..Len(Tail(s)) : Tail(s)[i] = s[i + 1]
    BY EmptySeq, HeadTailProperties
<1>2. Head(s) = s[1] /\ 1 \in 1..Len(s)
    BY <1>1
<1>3. DOMAIN s = 1..Len(s) /\ DOMAIN Tail(s) = 1..Len(Tail(s))
    BY <1>1, LenProperties
<1>4. ToSet(s) = {s[i] : i \in 1..Len(s)} /\ ToSet(Tail(s)) = {Tail(s)[i] : i \in 1..Len(Tail(s))}
    BY <1>3 DEF ToSet
<1>5. ASSUME NEW i \in 1..Len(s), i # 1
      PROVE  i - 1 \in 1..Len(Tail(s)) /\ Tail(s)[i - 1] = s[i]
  <2>1. i - 1 \in 1..Len(Tail(s)) /\ (i - 1) + 1 = i
    BY <1>1, <1>5
  <2> QED  BY <1>1, <2>1
<1>6. ASSUME NEW i \in 1..Len(Tail(s))
      PROVE  i + 1 \in 1..Len(s) /\ i + 1 # 1 /\ Tail(s)[i] = s[i + 1]
    BY <1>1, <1>6
<1>7. \A x : x \in ToSet(s) <=> x = Head(s) \/ x \in ToSet(Tail(s))
  <2>1. ASSUME NEW x \in ToSet(s), x # Head(s) PROVE x \in ToSet(Tail(s))
    <3>1. PICK i \in 1..Len(s) : x = s[i]
      BY <1>4
    <3>2. i # 1
      BY <1>2, <2>1, <3>1
    <3> QED  BY <1>4, <1>5, <3>1, <3>2
  <2>2. ASSUME NEW x \in ToSet(Tail(s)) PROVE x \in ToSet(s)
    BY <1>4, <1>6
  <2>3. Head(s) \in ToSet(s)
    BY <1>2, <1>4
  <2> QED  BY <2>1, <2>2, <2>3
<1>8. ASSUME IsInjective(s) PROVE IsInjective(Tail(s)) /\ Head(s) \notin ToSet(Tail(s))
  <2>1. \A i, j \in 1..Len(s) : s[i] = s[j] => i = j
    BY <1>3, <1>8 DEF IsInjective
  <2>2. ASSUME NEW i \in 1..Len(Tail(s)), NEW j \in 1..Len(Tail(s)), Tail(s)[i] = Tail(s)[j]
        PROVE  i = j
    <3>1. i + 1 = j + 1
      BY <1>6, <2>1, <2>2
    <3> QED  BY <1>1, <3>1
  <2>3. IsInjective(Tail(s))
    BY <1>3, <2>2 DEF IsInjective
  <2>4. \A i \in 1..Len(Tail(s)) : Tail(s)[i] # Head(s)
    BY <1>2, <1>6, <2>1
  <2> QED  BY <1>4, <2>3, <2>4
<1> QED  BY <1>7, <1>8

LEMMA ToSetAppend ==
    ASSUME NEW s \in Seq(Ids), NEW id \in Ids
    PROVE  /\ ToSet(Append(s, id)) = ToSet(s) \cup {id}
           /\ IsInjective(s) /\ id \notin ToSet(s) => IsInjective(Append(s, id))
<1> DEFINE t == Append(s, id)
<1>1. /\ Len(s) \in Nat /\ t \in Seq(Ids) /\ Len(t) = Len(s) + 1
      /\ \A i \in 1..Len(s) : t[i] = s[i]
      /\ t[Len(s) + 1] = id
    BY AppendProperties, LenProperties
<1>2. DOMAIN s = 1..Len(s) /\ DOMAIN t = 1..Len(t)
    BY <1>1, LenProperties
<1>3. ToSet(s) = {s[i] : i \in 1..Len(s)} /\ ToSet(t) = {t[i] : i \in 1..Len(t)}
    BY <1>2 DEF ToSet
<1> HIDE DEF t
<1>4. \A i \in 1..Len(t) : i \in 1..Len(s) \/ i = Len(s) + 1
    BY <1>1
<1>5. 1..Len(s) \subseteq 1..Len(t) /\ Len(s) + 1 \in 1..Len(t)
    BY <1>1
<1>6. ToSet(t) = ToSet(s) \cup {id}
    BY <1>1, <1>3, <1>4, <1>5
<1>7. ASSUME IsInjective(s), id \notin ToSet(s) PROVE IsInjective(t)
  <2>1. \A i, j \in 1..Len(s) : s[i] = s[j] => i = j
    BY <1>2, <1>7 DEF IsInjective
  <2>2. \A i \in 1..Len(s) : s[i] # id
    BY <1>3, <1>7
  <2>3. ASSUME NEW i \in 1..Len(t), NEW j \in 1..Len(t), t[i] = t[j] PROVE i = j
    BY <1>1, <1>4, <2>1, <2>2, <2>3
  <2> QED  BY <1>2, <2>3 DEF IsInjective
<1> QED  BY <1>6, <1>7 DEF t
-----------------------------------------------------------------------------
(* Whose a container is. *)

\* No container that somebody knows appears, or becomes another's.
KeepsOwners ==
    \A id \in Ids : Known(id) /\ Exists(id)' => Exists(id) /\ docker'[id].slot = docker[id].slot

LEMMA OwnedStays ==
    ASSUME KeepsOwners, NEW ids, ToSet(ids) \subseteq Ids, \A id \in ToSet(ids) : Known(id),
           NEW p, Owned(ids, p)
    PROVE  Owned(ids, p)'
BY DEF KeepsOwners, Owned, PluginOf

LEMMA KnownLists ==
    ASSUME CallsInv
    PROVE  /\ \A p \in Plugins : /\ ToSet(instances[p]) \subseteq Ids
                                 /\ \A id \in ToSet(instances[p]) : Known(id)
           /\ \A c \in Callers : /\ ToSet(calls[c].list) \subseteq Ids
                                 /\ \A id \in ToSet(calls[c].list) : Known(id)
                                 /\ Known(calls[c].target)
<1>1. \A p \in Plugins : instances[p] \in Seq(Ids)
    BY CallTypes
<1>2. \A c \in Callers : calls[c].list \in Seq(Ids)
    BY CallTypes DEF CallType
<1> QED  BY <1>1, <1>2, ToSetTyped DEF Known

\* A call owns what it has in hand.
OwnsHand(call) ==
    /\ call.at # "clean" => Owned(call.list, call.plugin)
    /\ call.at = "run" /\ Exists(call.target) => PluginOf(call.target) = call.plugin

LEMMA OwnersOf ==
    OwnersInv <=> /\ \A p \in Plugins : Owned(instances[p], p)
                  /\ \A c \in Callers : OwnsHand(calls[c])
BY DEF OwnersInv, OwnsHand

LEMMA OwnersStep ==
    ASSUME CallsInv, OwnersInv, KeepsOwners, NEW c, NEW new, Moves(c, new), OwnsHand(new)',
           \A p \in Plugins : instances'[p] = instances[p] \/ Owned(instances[p], p)'
    PROVE  OwnersInv'
<1>1. calls'[c] = new /\ \A d \in Callers : d # c => calls'[d] = calls[d]
    BY MovedCalls, CallTypes
<1>2. ASSUME NEW d \in Callers PROVE OwnsHand(calls[d])'
  <2>1. PICK call : call = calls'[d]
    OBVIOUS
  <2>2. CASE d = c
    BY <1>1, <2>1, <2>2 DEF OwnsHand, Owned, Exists, PluginOf
  <2>3. CASE d # c
    <3>1. call = calls[d] /\ OwnsHand(call)
      BY <1>1, <2>1, <2>3, OwnersOf
    <3>2. ToSet(call.list) \subseteq Ids /\ \A id \in ToSet(call.list) : Known(id)
      BY <3>1, KnownLists
    <3>3. call.at # "clean" => Owned(call.list, call.plugin)'
      BY <3>1, <3>2, OwnedStays DEF OwnsHand
    <3>4. call.at = "run" => call.target \in Ids /\ Known(call.target)
      BY <3>1, KnownLists, TargetInHand
    <3>5. call.at = "run" /\ Exists(call.target)' => PluginOf(call.target)' = call.plugin
      BY <3>1, <3>4 DEF OwnsHand, KeepsOwners, PluginOf
    <3> QED  BY <2>1, <3>3, <3>5 DEF OwnsHand, Owned, Exists, PluginOf
  <2> QED  BY <2>2, <2>3
<1>3. ASSUME NEW p \in Plugins PROVE Owned(instances[p], p)'
  <2>1. CASE instances'[p] = instances[p]
    <3>1. PICK ids : ids = instances[p]
      OBVIOUS
    <3>2. Owned(ids, p)'
      BY <3>1, KnownLists, OwnedStays, OwnersOf
    <3> QED  BY <2>1, <3>1, <3>2 DEF Owned, Exists, PluginOf
  <2> QED  BY <2>1
<1> QED  BY <1>2, <1>3 DEF OwnersInv, OwnsHand


LEMMA KeepsWhenSame ==
    ASSUME UNCHANGED docker
    PROVE  KeepsOwners
BY DEF KeepsOwners, Exists

LEMMA KeepsWhenGone ==
    ASSUME CallsInv, NEW id \in Ids, docker' = [docker EXCEPT ![id] = Gone]
    PROVE  KeepsOwners
<1>1. docker \in [Ids -> ContainerType]
    BY CallTypes
<1> QED  BY <1>1 DEF KeepsOwners, Exists, Gone

LEMMA KeepsWhenStarted ==
    ASSUME CallsInv, NEW id \in Ids, NEW state, Exists(id) \/ state = docker[id].state,
           docker' = [docker EXCEPT ![id].state = state]
    PROVE  KeepsOwners
<1>1. docker \in [Ids -> ContainerType] /\ \A i \in Ids : docker[i] \in ContainerType
    BY CallTypes
<1>2. \A i \in Ids : docker'[i].slot = docker[i].slot /\ (i # id => docker'[i] = docker[i])
    BY <1>1 DEF ContainerType, Gone
<1>3. docker'[id].state = state
    BY <1>1 DEF ContainerType, Gone
<1> QED  BY <1>2, <1>3 DEF KeepsOwners, Exists

LEMMA HandStays ==
    ASSUME CallsInv, OwnersInv, KeepsOwners, NEW new, new.at # "run",
           \/ new.list = <<>>
           \/ new.plugin \in Plugins /\ ToSet(new.list) \subseteq ToSet(instances[new.plugin])
           \/ \E c \in Callers : /\ calls[c].at # "clean" /\ new.plugin = calls[c].plugin
                                 /\ ToSet(new.list) \subseteq ToSet(calls[c].list)
    PROVE  OwnsHand(new)'
<1>1. /\ Owned(new.list, new.plugin)
      /\ ToSet(new.list) \subseteq Ids /\ \A id \in ToSet(new.list) : Known(id)
  <2>1. CASE new.list = <<>>
    BY <2>1, EmptyList DEF Owned
  <2>2. CASE new.plugin \in Plugins /\ ToSet(new.list) \subseteq ToSet(instances[new.plugin])
    BY <2>2, KnownLists, OwnersOf DEF Owned
  <2>3. ASSUME NEW c \in Callers, calls[c].at # "clean", new.plugin = calls[c].plugin,
               ToSet(new.list) \subseteq ToSet(calls[c].list)
        PROVE  /\ Owned(new.list, new.plugin)
               /\ ToSet(new.list) \subseteq Ids /\ \A id \in ToSet(new.list) : Known(id)
    BY <2>3, KnownLists, OwnersOf DEF Owned, OwnsHand
  <2> QED  BY <2>1, <2>2, <2>3
<1>2. Owned(new.list, new.plugin)'
    BY <1>1, OwnedStays
<1> QED  BY <1>2 DEF OwnsHand

LEMMA IdleHand == IdleCall.list = <<>> /\ IdleCall.at = "idle"
BY DEF IdleCall

LEMMA StopHand ==
    ASSUME NEW op, NEW p, NEW rest, NEW list
    PROVE  /\ StopCall(op, p, rest, list).op = op /\ StopCall(op, p, rest, list).at = "stop"
           /\ StopCall(op, p, rest, list).plugin = p
           /\ StopCall(op, p, rest, list).rest = rest
           /\ StopCall(op, p, rest, list).list = list
BY DEF StopCall, IdleCall

LEMMA SaveHand ==
    ASSUME NEW op, NEW p, NEW cfg
    PROVE  /\ SaveCall(op, p, cfg).op = op /\ SaveCall(op, p, cfg).at = "save"
           /\ SaveCall(op, p, cfg).plugin = p /\ SaveCall(op, p, cfg).list = <<>>
BY DEF SaveCall, IdleCall

LEMMA UnspawnedHand ==
    ASSUME CallsInv, NEW c \in Callers
    PROVE  /\ Unspawned(c).list = <<>> /\ Unspawned(c).at \in {"next", "idle"}
           /\ calls[c].op \in {"start", "restartAll"} =>
                 /\ Unspawned(c).at = "next" /\ Unspawned(c).op = calls[c].op
                 /\ Unspawned(c).rest = calls[c].rest /\ Unspawned(c).plugin = calls[c].plugin
           /\ calls[c].op \notin {"start", "restartAll"} => Unspawned(c) = IdleCall
<1>1. calls[c] \in CallType
    BY CallTypes
<1> QED  BY <1>1 DEF Unspawned, IdleCall, CallType

LEMMA RequestsOwners ==
    ASSUME CallsInv, OwnersInv, NEW c \in Requests,
           \/ RestartAll(c)
           \/ \E p \in Plugins : RestartPlugin(c, p) \/ RemovePlugin(c, p)
           \/ \E p \in Plugins, v \in Given : AddPlugin(c, p, v) \/ Update(c, p, v)
    PROVE  OwnersInv'
<1>1. UNCHANGED <<docker, instances>>
    BY DEF RestartAll, RestartPlugin, RemovePlugin, AddPlugin, Update, Request
<1>2. KeepsOwners
    BY <1>1, KeepsWhenSame
<1>3. ASSUME NEW new, Moves(c, new), OwnsHand(new)' PROVE OwnersInv'
    BY <1>1, <1>2, <1>3, OwnersStep
<1>4. ASSUME NEW new, new.at # "run",
             \/ new.list = <<>>
             \/ new.plugin \in Plugins /\ ToSet(new.list) \subseteq ToSet(instances[new.plugin])
      PROVE  OwnsHand(new)'
    BY <1>2, <1>4, HandStays
<1>5. CASE RestartAll(c)
  <2> DEFINE new == [IdleCall EXCEPT !.op = "restartAll", !.at = "next",
                                     !.rest = {p \in Plugins : instances[p] # <<>>}]
  <2>1. Moves(c, new)
    BY <1>5, RestartAllMoves
  <2>2. new.at = "next" /\ new.list = <<>>
    BY DEF IdleCall
  <2> HIDE DEF new
  <2>3. PICK call : call = new
    OBVIOUS
  <2> QED  BY <1>3, <1>4, <2>1, <2>2, <2>3
<1>6. ASSUME NEW p \in Plugins, NEW op, Moves(c, StopCall(op, p, {}, instances[p]))
      PROVE  OwnersInv'
  <2>1. PICK call : call = StopCall(op, p, {}, instances[p])
    OBVIOUS
  <2>2. call.at = "stop" /\ call.plugin = p /\ call.list = instances[p]
    BY <2>1, StopHand
  <2> QED  BY <1>3, <1>4, <1>6, <2>1, <2>2
<1>7. ASSUME NEW p, NEW op, NEW cfg, Moves(c, SaveCall(op, p, cfg)) PROVE OwnersInv'
  <2>1. PICK call : call = SaveCall(op, p, cfg)
    OBVIOUS
  <2>2. call.at = "save" /\ call.list = <<>>
    BY <2>1, SaveHand
  <2> QED  BY <1>3, <1>4, <1>7, <2>1, <2>2
<1>8. ASSUME Moves(c, IdleCall) PROVE OwnersInv'
    BY <1>3, <1>4, <1>8, IdleHand
<1>9. ASSUME NEW p \in Plugins, RestartPlugin(c, p) \/ RemovePlugin(c, p) PROVE OwnersInv'
    BY <1>6, <1>7, <1>8, <1>9, RestartPluginMoves, RemovePluginMoves
<1>10. ASSUME NEW p \in Plugins, NEW v \in Given, AddPlugin(c, p, v) \/ Update(c, p, v)
       PROVE  OwnersInv'
    BY <1>7, <1>10, AddPluginMoves, UpdateMoves
<1> QED  BY <1>5, <1>9, <1>10


\* A call goes on with some of what it has, or of the instances of its plugin.
LEMMA OwnersGo ==
    ASSUME CallsInv, OwnersInv, KeepsOwners, NEW c \in Callers, NEW new, Moves(c, new),
           new.at # "run",
           \/ new.list = <<>>
           \/ new.plugin \in Plugins /\ ToSet(new.list) \subseteq ToSet(instances[new.plugin])
           \/ /\ calls[c].at # "clean" /\ new.plugin = calls[c].plugin
              /\ ToSet(new.list) \subseteq ToSet(calls[c].list),
           \A p \in Plugins : instances'[p] \in {instances[p], <<>>}
    PROVE  OwnersInv'
<1>1. OwnsHand(new)'
    BY HandStays
<1>2. ASSUME NEW p \in Plugins, instances'[p] = <<>> PROVE Owned(instances[p], p)'
    BY <1>2, EmptyList DEF Owned
<1> QED  BY <1>1, <1>2, OwnersStep

LEMMA OwnersDone ==
    ASSUME CallsInv, OwnersInv, KeepsOwners, NEW c \in Callers,
           Moves(c, IdleCall) \/ Moves(c, Unspawned(c)),
           \A p \in Plugins : instances'[p] \in {instances[p], <<>>}
    PROVE  OwnersInv'
<1>1. PICK new : Moves(c, new) /\ new.at # "run" /\ new.list = <<>>
    BY IdleHand, UnspawnedHand
<1> QED  BY <1>1, OwnersGo

LEMMA SavesOwners ==
    ASSUME CallsInv, OwnersInv, NEW c \in Callers, SaveEnds(c) \/ SaveFails(c)
    PROVE  OwnersInv'
<1>1. UNCHANGED <<docker, instances>> /\ KeepsOwners /\ calls[c].at = "save"
    BY KeepsWhenSame DEF SaveEnds, SaveFails, managerVars
<1>2. calls[c].plugin \in Plugins /\ calls[c] \in CallType
    BY <1>1, WorkingCall, CallTypes DEF Working
<1>3. CASE SaveFails(c)
    BY <1>1, <1>3, EndedCall, OwnersDone DEF SaveFails
<1>4. CASE SaveEnds(c)
  <2>1. CASE Moves(c, IdleCall)
    BY <1>1, <2>1, OwnersDone
  <2>2. CASE Moves(c, [calls[c] EXCEPT !.at = "list", !.text = CutFile])
    <3>1. PICK new : new = [calls[c] EXCEPT !.at = "list", !.text = CutFile]
      OBVIOUS
    <3>2. new.at = "list" /\ new.plugin = calls[c].plugin /\ new.list = calls[c].list
      BY <1>2, <3>1 DEF CallType
    <3> QED  BY <1>1, <2>2, <3>1, <3>2, OwnersGo
  <2>3. CASE Moves(c, StopCall("update", calls[c].plugin, {}, instances[calls[c].plugin]))
    <3>1. PICK new : new = StopCall("update", calls[c].plugin, {}, instances[calls[c].plugin])
      OBVIOUS
    <3>2. new.at = "stop" /\ new.plugin = calls[c].plugin /\ new.list = instances[calls[c].plugin]
      BY <3>1, StopHand
    <3> QED  BY <1>1, <1>2, <2>3, <3>1, <3>2, OwnersGo
  <2> QED  BY <1>4, <2>1, <2>2, <2>3, SaveEndsMoves
<1> QED  BY <1>3, <1>4

LEMMA StopsOwners ==
    ASSUME CallsInv, OwnersInv, NEW c \in Callers, StopContainer(c) \/ RemoveContainer(c)
    PROVE  OwnersInv'
<1>1. calls[c].at \in Ending
    BY DEF StopContainer, RemoveContainer, Ending
<1>2. /\ calls[c] \in CallType /\ calls[c].plugin \in Plugins /\ calls[c].at # "clean"
      /\ Head(calls[c].list) \in Ids /\ calls[c].list \in Seq(Ids) /\ calls[c].list # <<>>
    BY <1>1, WorkingCall, CallTypes, HeadInHand, ListInHand DEF Working, Ending
<1>3. CASE StopContainer(c)
  <2>1. PICK id \in Ids : docker' = [docker EXCEPT ![id].state = IF @ = "up" THEN "down" ELSE @]
    BY <1>2, <1>3 DEF StopContainer
  <2>2. KeepsOwners
    <3>1. docker[id].state = "up" => Exists(id)
      BY DEF Exists
    <3>2. PICK state : /\ docker' = [docker EXCEPT ![id].state = state]
                       /\ Exists(id) \/ state = docker[id].state
      BY <2>1, <3>1
    <3> QED  BY <3>2, KeepsWhenStarted
  <2>3. PICK new : new = [calls[c] EXCEPT !.at = "remove"]
    OBVIOUS
  <2>4. new.at = "remove" /\ new.plugin = calls[c].plugin /\ new.list = calls[c].list
    BY <1>2, <2>3 DEF CallType
  <2>5. Moves(c, new) /\ instances' = instances
    BY <1>3, <2>3, StopContainerMoves DEF StopContainer, managerVars
  <2> QED  BY <1>2, <2>2, <2>4, <2>5, OwnersGo
<1>4. CASE RemoveContainer(c)
  <2>1. KeepsOwners
    BY <1>2, <1>4, KeepsWhenGone, KeepsWhenSame DEF RemoveContainer
  <2>2. calls[c].at = "remove"
    BY <1>4 DEF RemoveContainer
  <2>3. CASE /\ Len(calls[c].list) > 1
             /\ calls' = [calls EXCEPT ![c].at = "stop", ![c].list = Tail(@)]
             /\ UNCHANGED <<instances, config, saveVars>>
    <3>1. PICK new : new = [calls[c] EXCEPT !.at = "stop", !.list = Tail(calls[c].list)]
      OBVIOUS
    <3>2. new.at = "stop" /\ new.plugin = calls[c].plugin /\ new.list = Tail(calls[c].list)
      BY <1>2, <3>1 DEF CallType
    <3>3. Moves(c, new)
      BY <2>2, <2>3, <3>1, RemoveOneMoves
    <3>4. ToSet(Tail(calls[c].list)) \subseteq ToSet(calls[c].list)
      BY <1>2, ToSetTail
    <3>5. \A p \in Plugins : instances'[p] = instances[p]
      BY <2>3
    <3> QED  BY <1>2, <2>1, <3>2, <3>3, <3>4, <3>5, OwnersGo
  <2>4. CASE AllStopped(c)
    <3>1. \A p \in Plugins : instances'[p] \in {instances[p], <<>>}
      BY <1>2, <2>2, <2>4, CallTypes DEF AllStopped
    <3>2. /\ [calls[c] EXCEPT !.at = "list", !.list = <<>>].list = <<>>
          /\ [calls[c] EXCEPT !.at = "list", !.list = <<>>].at = "list"
          /\ [calls[c] EXCEPT !.at = "next", !.list = <<>>].list = <<>>
          /\ [calls[c] EXCEPT !.at = "next", !.list = <<>>].at = "next"
      BY <1>2 DEF CallType
    <3>3. PICK new : Moves(c, new) /\ new.list = <<>> /\ new.at # "run"
      BY <2>2, <2>4, <3>2, AllStoppedMoves, IdleHand, SaveHand
    <3> QED  BY <2>1, <3>1, <3>3, OwnersGo
  <2> QED  BY <1>4, <2>3, <2>4 DEF RemoveContainer
<1> QED  BY <1>3, <1>4


LEMMA CreateKeeps ==
    ASSUME CallsInv, NEW id \in Ids, ~Known(id), NEW container,
           docker' = [docker EXCEPT ![id] = container]
    PROVE  KeepsOwners
<1>1. docker \in [Ids -> ContainerType]
    BY CallTypes
<1>2. \A other \in Ids : Known(other) => docker'[other] = docker[other]
    BY <1>1
<1> QED  BY <1>2 DEF KeepsOwners, Exists

LEMMA SpawnsOwners ==
    ASSUME CallsInv, OwnersInv, NEW c \in Callers,
           Look(c) \/ ClearExisting(c) \/ Create(c) \/ StartContainer(c) \/ DockerFails(c)
    PROVE  OwnersInv'
<1>1. calls[c].at \in Spawning /\ calls[c].at # "clean"
    BY DEF Look, ClearExisting, Create, StartContainer, DockerFails, Spawning
<1>2. /\ calls[c] \in CallType /\ calls[c].plugin \in Plugins /\ calls[c].list \in Seq(Ids)
      /\ Owned(calls[c].list, calls[c].plugin)
    BY <1>1, SpawningCall, CallTypes, OwnersOf DEF OwnsHand
<1>3. CASE SpawnRefused(c) \/ DockerFails(c)
  <2>1. Moves(c, Unspawned(c)) /\ UNCHANGED <<docker, instances>>
    BY <1>1, <1>3, SpawnFailsMoves DEF SpawnRefused, DockerFails, SpawnFails, managerVars
  <2> QED  BY <2>1, KeepsWhenSame, OwnersDone
<1>4. ASSUME NEW at, NEW target, KeepsOwners, instances' = instances, at # "run",
             Moves(c, [calls[c] EXCEPT !.at = at, !.target = target])
      PROVE  OwnersInv'
  <2>1. PICK new : new = [calls[c] EXCEPT !.at = at, !.target = target]
    OBVIOUS
  <2>2. new.at = at /\ new.plugin = calls[c].plugin /\ new.list = calls[c].list
    BY <1>2, <2>1 DEF CallType
  <2> QED  BY <1>1, <1>4, <2>1, <2>2, OwnersGo
<1>5. CASE Look(c)
  <2>1. KeepsOwners /\ instances' = instances
    BY <1>5, KeepsWhenSame DEF Look, managerVars
  <2>2. [calls[c] EXCEPT !.at = "create"]
            = [calls[c] EXCEPT !.at = "create", !.target = calls[c].target]
    BY <1>2 DEF CallType
  <2> QED  BY <1>4, <1>5, <2>1, <2>2, LookMoves
<1>6. CASE ClearExisting(c) /\ Exists(calls[c].target)
  <2>1. /\ Moves(c, [calls[c] EXCEPT !.at = "create", !.target = NoId])
        /\ docker' = [docker EXCEPT ![calls[c].target] = Gone] /\ instances' = instances
        /\ calls[c].target \in Ids
    BY <1>6, ClearExistingMoves, TargetInHand DEF ClearExisting, managerVars
  <2> QED  BY <1>4, <2>1, KeepsWhenGone
<1>7. CASE Create(c) /\ ~SpawnRefused(c)
  <2>1. PICK id \in Ids :
            /\ ~Known(id)
            /\ docker' = [docker EXCEPT ![id] = [slot |-> NextSlot(c), state |-> "created"]]
            /\ calls' = [calls EXCEPT ![c].at = "run", ![c].target = id]
    BY <1>7 DEF Create
  <2>2. KeepsOwners /\ instances' = instances
    BY <1>7, <2>1, CreateKeeps DEF Create, managerVars
  <2>3. Moves(c, [calls[c] EXCEPT !.at = "run", !.target = id])
    BY <1>7, <2>1, CreateMoves DEF Create
  <2>4. PICK new : new = [calls[c] EXCEPT !.at = "run", !.target = id]
    OBVIOUS
  <2>5. /\ new.at = "run" /\ new.plugin = calls[c].plugin /\ new.list = calls[c].list
        /\ new.target = id
    BY <1>2, <2>4 DEF CallType
  <2>6. PluginOf(id)' = calls[c].plugin
    BY <2>1, CallTypes DEF PluginOf, NextSlot
  <2>7. Owned(new.list, new.plugin)'
    BY <1>2, <2>2, <2>5, KnownLists, OwnedStays
  <2>8. OwnsHand(new)'
    BY <2>5, <2>6, <2>7 DEF OwnsHand
  <2> QED  BY <2>2, <2>3, <2>4, <2>8, OwnersStep
<1>8. CASE StartContainer(c) /\ Exists(calls[c].target)
  <2> DEFINE id == calls[c].target
  <2>1. /\ id \in Ids /\ calls[c].at = "run"
        /\ docker' = [docker EXCEPT ![id].state = "up"]
    BY <1>8, TargetInHand DEF StartContainer
  <2>2. KeepsOwners
    BY <1>8, <2>1, KeepsWhenStarted
  <2>3. PICK ids : ids = Append(calls[c].list, id)
    OBVIOUS
  <2>4. ToSet(ids) = ToSet(calls[c].list) \cup {id}
    BY <1>2, <2>1, <2>3, ToSetAppend
  <2>5. Owned(ids, calls[c].plugin) /\ ToSet(ids) \subseteq Ids /\ \A i \in ToSet(ids) : Known(i)
    BY <1>2, <2>1, <2>4, KnownLists, OwnersOf DEF Owned, OwnsHand
  <2>6. PICK p : p = calls[c].plugin
    OBVIOUS
  <2>7. Owned(ids, p)'
    BY <2>2, <2>5, <2>6, OwnedStays
  <2>8. CASE /\ SetInstances(c, ids)
             /\ Moves(c, [calls[c] EXCEPT !.at = "wait", !.list = <<>>, !.target = NoId])
    <3>1. PICK new : new = [calls[c] EXCEPT !.at = "wait", !.list = <<>>, !.target = NoId]
      OBVIOUS
    <3>2. new.list = <<>> /\ new.at = "wait"
      BY <1>2, <3>1 DEF CallType
    <3>3. OwnsHand(new)'
      BY <2>2, <3>2, HandStays
    <3>4. instances' = [instances EXCEPT ![p] = ids]
      BY <2>6, <2>8 DEF SetInstances
    <3>5. Owned(instances[p], p)'
      BY <1>2, <2>6, <2>7, <3>4, CallTypes DEF Owned
    <3>6. \A q \in Plugins : instances'[q] = instances[q] \/ Owned(instances[q], q)'
      BY <3>4, <3>5, CallTypes
    <3> QED  BY <2>2, <2>8, <3>1, <3>3, <3>6, OwnersStep
  <2>9. CASE /\ UNCHANGED <<instances, timers>>
             /\ Moves(c, [calls[c] EXCEPT !.at = "list", !.list = ids, !.target = NoId])
    <3>1. PICK new : new = [calls[c] EXCEPT !.at = "list", !.list = ids, !.target = NoId]
      OBVIOUS
    <3>2. new.list = ids /\ new.at = "list" /\ new.plugin = p
      BY <1>2, <2>6, <3>1 DEF CallType
    <3>3. OwnsHand(new)'
      BY <2>7, <3>2 DEF OwnsHand
    <3>4. Moves(c, new) /\ \A q \in Plugins : instances'[q] = instances[q]
      BY <2>9, <3>1
    <3> QED  BY <2>2, <3>3, <3>4, OwnersStep
  <2> QED  BY <1>8, <2>1, <2>3, <2>8, <2>9, StartContainerMoves
<1> QED  BY <1>3, <1>5, <1>6, <1>7, <1>8 DEF ClearExisting, StartContainer


LEMMA WaitsOwners ==
    ASSUME CallsInv, OwnersInv, NEW c \in Callers,
           WaitAsks(c) \/ WaitAnswered(c) \/ WaitOver(c)
    PROVE  OwnersInv'
<1>1. calls[c].at \in Waiting /\ UNCHANGED <<docker, instances>>
    BY DEF WaitAsks, WaitAnswered, WaitOver, Waiting, managerVars
<1>2. calls[c] \in CallType /\ SoundCall(c, calls[c]) /\ KeepsOwners
    BY <1>1, CallTypes, KeepsWhenSame
<1>3. CASE WaitAsks(c)
  <2>1. PICK id \in ToSet(instances[calls[c].plugin]) :
            calls' = [calls EXCEPT ![c].at = "answered", ![c].target = id]
    BY <1>3 DEF WaitAsks
  <2>2. calls[c].plugin \in Plugins
    BY <1>1, WorkingCall DEF Working
  <2>3. id \in Ids /\ calls[c].at = "wait"
    BY <1>3, <2>1, <2>2, KnownLists DEF WaitAsks
  <2>4. Moves(c, [calls[c] EXCEPT !.at = "answered", !.target = id])
    BY <2>1, <2>3, WaitAsksMoves
  <2>5. PICK new : new = [calls[c] EXCEPT !.at = "answered", !.target = id]
    OBVIOUS
  <2>6. new.at = "answered" /\ new.list = calls[c].list
    BY <1>2, <2>5 DEF CallType
  <2>7. new.list = <<>>
    BY <1>1, <1>2, <2>6 DEF SoundCall
  <2> QED  BY <1>1, <1>2, <2>4, <2>5, <2>6, <2>7, OwnersGo
<1>4. CASE WaitAnswered(c) \/ WaitOver(c)
  <2>1. Moves(c, Unspawned(c))
    BY <1>1, <1>4, SpawnFailsMoves DEF WaitAnswered, WaitOver
  <2> QED  BY <1>1, <1>2, <2>1, OwnersDone
<1> QED  BY <1>3, <1>4

LEMMA LoopsOwners ==
    ASSUME CallsInv, OwnersInv, NEW c \in Callers, CleanUp(c) \/ NextPlugin(c)
    PROVE  OwnersInv'
<1>1. calls[c] \in CallType /\ SoundCall(c, calls[c]) /\ instances' = instances
    BY CallTypes DEF CleanUp, NextPlugin, managerVars
<1>2. ASSUME NEW new, Moves(c, new), new.at # "run", new.list = <<>>, KeepsOwners
      PROVE  OwnersInv'
    BY <1>1, <1>2, OwnersGo
<1>3. CASE CleanUp(c)
  <2>1. calls[c].at = "clean" /\ Head(calls[c].list) \in Ids
    BY <1>3, HeadInHand DEF CleanUp
  <2>2. KeepsOwners
    BY <1>3, <2>1, KeepsWhenSame, KeepsWhenGone DEF CleanUp
  <2>3. CASE Moves(c, [calls[c] EXCEPT !.list = <<>>, !.at = "next"])
    <3>1. PICK new : new = [calls[c] EXCEPT !.list = <<>>, !.at = "next"]
      OBVIOUS
    <3>2. new.at = "next" /\ new.list = <<>>
      BY <1>1, <3>1 DEF CallType
    <3> QED  BY <1>2, <2>2, <2>3, <3>1, <3>2
  <2>4. CASE Moves(c, [calls[c] EXCEPT !.list = Tail(calls[c].list)])
    <3>1. PICK new : new = [calls[c] EXCEPT !.list = Tail(calls[c].list)]
      OBVIOUS
    <3>2. new.at = "clean"
      BY <1>1, <2>1, <3>1 DEF CallType
    <3>3. OwnsHand(new)'
      BY <3>2 DEF OwnsHand
    <3> QED  BY <1>1, <2>2, <2>4, <3>1, <3>3, OwnersStep
  <2> QED  BY <1>3, <2>3, <2>4, CleanUpMoves
<1>4. CASE NextPlugin(c)
  <2>1. calls[c].at = "next" /\ calls[c].list = <<>> /\ KeepsOwners
    BY <1>1, <1>4, KeepsWhenSame DEF NextPlugin, SoundCall
  <2>2. CASE Moves(c, IdleCall)
    BY <1>2, <2>1, <2>2, IdleHand
  <2>3. ASSUME NEW p \in Plugins, NEW others,
               \/ Moves(c, [calls[c] EXCEPT !.at = "list", !.plugin = p, !.rest = others])
               \/ Moves(c, [calls[c] EXCEPT !.rest = others])
        PROVE  OwnersInv'
    <3>1. /\ [calls[c] EXCEPT !.at = "list", !.plugin = p, !.rest = others].at = "list"
          /\ [calls[c] EXCEPT !.at = "list", !.plugin = p, !.rest = others].list = <<>>
          /\ [calls[c] EXCEPT !.rest = others].at = "next"
          /\ [calls[c] EXCEPT !.rest = others].list = <<>>
      BY <1>1, <2>1 DEF CallType
    <3>2. PICK new : Moves(c, new) /\ new.at # "run" /\ new.list = <<>>
      BY <2>3, <3>1
    <3> QED  BY <1>2, <2>1, <3>2
  <2>4. ASSUME NEW p \in Plugins, NEW others,
               Moves(c, StopCall("restartAll", p, others, instances[p]))
        PROVE  OwnersInv'
    <3>1. PICK new : new = StopCall("restartAll", p, others, instances[p])
      OBVIOUS
    <3>2. new.at = "stop" /\ new.plugin = p /\ new.list = instances[p]
      BY <3>1, StopHand
    <3> QED  BY <1>1, <2>1, <2>4, <3>1, <3>2, OwnersGo
  <2>5. calls[c].rest \subseteq Plugins
    BY <1>1 DEF CallType
  <2>6. \/ Moves(c, IdleCall)
        \/ \E p \in Plugins : \E others :
              \/ Moves(c, [calls[c] EXCEPT !.at = "list", !.plugin = p, !.rest = others])
              \/ Moves(c, [calls[c] EXCEPT !.rest = others])
              \/ Moves(c, StopCall("restartAll", p, others, instances[p]))
    BY <1>4, <2>5, NextPluginMoves
  <2> QED  BY <2>2, <2>3, <2>4, <2>6
<1> QED  BY <1>3, <1>4

\* Nobody does anything, or nobody is left that knows a container.
LEMMA OwnersSame ==
    ASSUME OwnersInv, UNCHANGED <<docker, instances, calls>>
    PROVE  OwnersInv'
BY DEF OwnersInv, Owned, Exists, PluginOf

LEMMA OwnersEnd ==
    ASSUME \A p \in Plugins : instances'[p] = <<>>,
           \A c \in Callers : calls'[c] = IdleCall
    PROVE  OwnersInv'
BY EmptyList, IdleHand DEF OwnersInv, Owned

LEMMA ProcessOwners ==
    ASSUME ConfigInv, OwnersInv, Start \/ StartFails \/ Shutdown \/ ShutdownNext \/ Exit \/ Crash
    PROVE  OwnersInv'
<1>1. CallsInv
    BY DEF ConfigInv
<1>2. CASE Start
  <2>1. UNCHANGED <<docker, instances>>
    BY <1>2 DEF Start, managerVars
  <2>2. CASE Parses(file)
    <3> DEFINE at == IF StaleContainers = <<>> THEN "next" ELSE "clean"
    <3>1. PICK new : new = [IdleCall EXCEPT !.op = "start", !.list = StaleContainers,
                                            !.at = at, !.rest = EnabledPlugins(Load(file))]
      OBVIOUS
    <3>2. new.at = at /\ new.list = StaleContainers /\ Moves(Startup, new)
      BY <1>2, <1>1, <2>2, <3>1, StartMoves DEF IdleCall
    <3>3. CASE new.at = "clean"
      BY <1>1, <2>1, <3>2, <3>3, KeepsWhenSame, OwnersStep DEF OwnsHand
    <3>4. CASE new.at = "next" /\ new.list = <<>>
      BY <1>1, <2>1, <3>2, <3>4, KeepsWhenSame, StartupCaller, OwnersGo
    <3> QED  BY <3>2, <3>3, <3>4
  <2>3. CASE ~Parses(file)
    BY <1>2, <2>1, <2>3, OwnersSame DEF Start
  <2> QED  BY <2>2, <2>3
<1>6. CASE StartFails
    BY <1>6, OwnersSame DEF StartFails, managerVars
<1>3. CASE Shutdown
  <2>1. PICK new : new = [IdleCall EXCEPT !.op = "shutdown", !.at = "next"]
    OBVIOUS
  <2>2. new.at = "next" /\ new.list = <<>> /\ Moves(Signal, new)
    BY <1>3, <1>1, <2>1, ShutdownMoves DEF IdleCall
  <2>3. UNCHANGED <<docker, instances>>
    BY <1>3 DEF Shutdown
  <2> QED  BY <1>1, <2>2, <2>3, KeepsWhenSame, SignalCaller, OwnersGo
<1>4. CASE ShutdownNext
  <2>1. PICK p \in Plugins : Moves(Signal, [calls[Signal] EXCEPT !.at = "stop", !.plugin = p,
                                       !.rest = calls[Signal].rest \cup {p},
                                       !.list = instances[p]])
    BY <1>4, <1>1, ShutdownNextMoves
  <2>2. PICK new : new = [calls[Signal] EXCEPT !.at = "stop", !.plugin = p,
                                       !.rest = calls[Signal].rest \cup {p},
                                       !.list = instances[p]]
    OBVIOUS
  <2>3. new.at = "stop" /\ new.plugin = p /\ new.list = instances[p]
    BY <1>1, <2>2, CallTypes, SignalCaller DEF CallType
  <2>4. UNCHANGED <<docker, instances>>
    BY <1>4 DEF ShutdownNext, managerVars
  <2> QED  BY <1>1, <2>1, <2>2, <2>3, <2>4, KeepsWhenSame, SignalCaller, OwnersGo
<1>5. CASE Exit \/ Crash
  <2>1. ProcessEnds
    BY <1>5 DEF Exit, Crash
  <2>2. \A p \in Plugins : instances'[p] = <<>>
    BY <2>1 DEF ProcessEnds
  <2> QED  BY <1>1, <2>1, <2>2, EndsTypes, OwnersEnd
<1> QED  BY <1>2, <1>3, <1>4, <1>5, <1>6

LEMMA OwnersNext ==
    ASSUME ConfigInv, OwnersInv, [Next]_vars
    PROVE  OwnersInv'
<1>1. CallsInv
    BY DEF ConfigInv
<1>2. CASE UNCHANGED vars
    BY <1>2, OwnersSame DEF vars, managerVars
<1>3. ASSUME NEW c \in Requests,
             \/ RestartAll(c)
             \/ \E p \in Plugins : RestartPlugin(c, p) \/ RemovePlugin(c, p)
             \/ \E p \in Plugins, v \in Given : AddPlugin(c, p, v) \/ Update(c, p, v)
      PROVE  OwnersInv'
    BY <1>1, <1>3, RequestsOwners
<1>4. ASSUME NEW c \in Callers, CallStep(c) \/ SaveFails(c) \/ DockerFails(c) \/ WaitAsks(c)
      PROVE  OwnersInv'
    BY <1>1, <1>4, SavesOwners, StopsOwners, SpawnsOwners, WaitsOwners, LoopsOwners
       DEF CallStep
<1>5. CASE HealthWritten \/ \E p \in Plugins : HealthAsked(p)
    BY <1>5, OwnersSame DEF HealthWritten, HealthAsked, managerVars
<1>6. CASE Start \/ StartFails \/ Shutdown \/ ShutdownNext \/ Exit \/ Crash
    BY <1>6, ProcessOwners
<1> QED  BY <1>2, <1>3, <1>4, <1>5, <1>6 DEF Next

LEMMA OwnersInit == Init => OwnersInv
BY EmptyList, IdleHand DEF Init, OwnersInv, Owned

-----------------------------------------------------------------------------
(* What a quiet plugin does not notice. *)

SameWorld(p) ==
    /\ instances'[p] = instances[p] /\ config'[p] = config[p]
    /\ p \in timers' <=> p \in timers
    /\ ContainersOf(p)' = ContainersOf(p)
    /\ \A id \in ContainersOf(p) :
          /\ docker'[id] = docker[id]
          /\ status[id] = "live" => status'[id] = "live"

\* Of the containers one at most changes, and it is none of the plugin's.
LEMMA OneChanges ==
    ASSUME NEW p \in Plugins, NEW id \in Ids,
           \A other \in Ids : other # id =>
               docker'[other] = docker[other] /\ status'[other] = status[other],
           Exists(id) => PluginOf(id) # p, Exists(id)' => PluginOf(id)' # p,
           config'[p] = config[p], instances'[p] = instances[p], p \in timers' <=> p \in timers
    PROVE  SameWorld(p)
<1>1. ASSUME NEW other \in Ids
      PROVE  /\ other \in ContainersOf(p)' <=> other \in ContainersOf(p)
             /\ other \in ContainersOf(p) => other # id
    BY DEF ContainersOf, Exists, PluginOf
<1>2. ContainersOf(p)' = ContainersOf(p) /\ ContainersOf(p) \subseteq Ids
    BY <1>1 DEF ContainersOf
<1> QED  BY <1>1, <1>2 DEF SameWorld

LEMMA NoneChanges ==
    ASSUME NEW p \in Plugins, UNCHANGED <<docker, config>>, instances'[p] = instances[p],
           p \in timers' <=> p \in timers,
           \A id \in Ids : status[id] = "live" => status'[id] = "live"
    PROVE  SameWorld(p)
BY DEF SameWorld, ContainersOf, Exists, PluginOf

LEMMA HoldsStays ==
    ASSUME NEW p, SameWorld(p), NEW ids, Holds(p, ids)
    PROVE  Holds(p, ids)'
BY DEF SameWorld, Holds

LEMMA AgreesStays ==
    ASSUME NEW p, SameWorld(p), Agrees(p)
    PROVE  Agrees(p)'
<1>1. /\ instances'[p] = instances[p] /\ config'[p] = config[p]
      /\ p \in timers' <=> p \in timers
      /\ ContainersOf(p)' = ContainersOf(p)
    BY DEF SameWorld
<1>2. \A id \in ContainersOf(p) : Lives(id)'
    BY DEF SameWorld, Agrees, Lives
<1> QED  BY <1>1, <1>2 DEF Agrees, Holds

LEMMA SpawnedStays ==
    ASSUME NEW p, SameWorld(p), NEW ids, NEW more, Spawned(p, ids, more)
    PROVE  Spawned(p, ids, more)'
<1>1. /\ instances'[p] = instances[p] /\ config'[p] = config[p]
      /\ p \in timers' <=> p \in timers
      /\ ContainersOf(p)' = ContainersOf(p)
    BY DEF SameWorld
<1>2. \A id \in ToSet(ids) : id \in ContainersOf(p)
    BY DEF Spawned
<1>3. \A id \in ToSet(ids) : Lives(id)' /\ docker'[id].slot[2] < Len(ids)
    BY <1>2 DEF SameWorld, Spawned, Lives
<1> QED  BY <1>1, <1>3 DEF Spawned, NoInstances

LEMMA AbsentStays ==
    ASSUME NEW p, SameWorld(p)
    PROVE  /\ Absent(p) => Absent(p)'
           /\ NoInstances(p) => NoInstances(p)'
           /\ config'[p] = config[p] /\ ContainersOf(p)' = ContainersOf(p)
BY DEF SameWorld, Absent, NoInstances

LEMMA WorkStays ==
    ASSUME NEW p, SameWorld(p), NEW call, WorkAgrees(call, p)
    PROVE  WorkAgrees(call, p)'
<1>1. CASE call.at = "save"
    BY <1>1, AbsentStays, AgreesStays DEF WorkAgrees, Ending, Spawning, Waiting
<1>2. CASE call.at \in Ending
  <2>1. Holds(p, call.list)' /\ (call.op # "shutdown" => p \notin timers')
    BY <1>2, HoldsStays DEF WorkAgrees, SameWorld
  <2> QED  BY <1>2, <2>1, AbsentStays DEF WorkAgrees, Ending, Spawning, Waiting
<1>3. CASE call.at \in Spawning \ {"run"}
  <2>1. Spawned(p, call.list, {})'
    BY <1>3, SpawnedStays DEF WorkAgrees
  <2>2. call.at = "clear" => call.target \notin ContainersOf(p)'
    BY <1>3, AbsentStays DEF WorkAgrees
  <2> QED  BY <1>3, <2>1, <2>2 DEF WorkAgrees, Ending, Spawning, Waiting
<1>4. CASE call.at = "run"
  <2>1. Spawned(p, call.list, {call.target})'
    BY <1>4, SpawnedStays DEF WorkAgrees
  <2>2. call.target \in ContainersOf(p) /\ docker[call.target].slot[2] = Len(call.list)
    BY <1>4 DEF WorkAgrees, Spawned
  <2>3. docker'[call.target].slot[2] = Len(call.list)
    BY <2>2 DEF SameWorld
  <2> QED  BY <1>4, <2>1, <2>3 DEF WorkAgrees, Ending, Spawning, Waiting
<1>5. CASE call.at \in Waiting
  <2>1. Agrees(p)'
    BY <1>5, AgreesStays DEF WorkAgrees
  <2> QED  BY <1>5, <2>1 DEF WorkAgrees, Ending, Spawning, Waiting
<1>6. CASE call.at \notin Working
    BY <1>6 DEF WorkAgrees, Working, Spawning, Waiting, Ending
<1> QED  BY <1>1, <1>2, <1>3, <1>4, <1>5, <1>6 DEF Working, Spawning

LEMMA RestStays ==
    ASSUME NEW p, SameWorld(p), NEW call, RestAgrees(call, p)
    PROVE  RestAgrees(call, p)'
<1>1. PICK ids : ids = instances[p] /\ ids = instances'[p]
    BY DEF SameWorld
<1>2. Holds(p, ids) => Holds(p, ids)'
    BY HoldsStays
<1>3. Holds(p, instances[p]) => Holds(p, instances[p])'
    BY <1>1, <1>2 DEF Holds
<1>4. call.op = "restartAll" => Agrees(p)'
    BY AgreesStays DEF RestAgrees
<1>5. call.op = "shutdown" =>
          IF p \in call.rest THEN ContainersOf(p)' = {} ELSE Holds(p, instances[p])'
    BY <1>3, AbsentStays DEF RestAgrees
<1>6. call.at = "clean" =>
          /\ NoInstances(p)' /\ ContainersOf(p)' \subseteq ToSet(call.list)
          /\ (p \in call.rest) = (config'[p] # NoConfig)
    BY AbsentStays DEF RestAgrees
<1>7. call.op = "start" /\ call.at # "clean" =>
          IF p \in call.rest THEN Absent(p)' /\ config'[p] # NoConfig ELSE Agrees(p)'
    BY AbsentStays, AgreesStays DEF RestAgrees
<1> QED  BY <1>4, <1>5, <1>6, <1>7 DEF RestAgrees

LEMMA CallStays ==
    ASSUME NEW p, SameWorld(p), NEW call, CallAgrees(call, p)
    PROVE  CallAgrees(call, p)'
<1>1. CASE call.plugin = p /\ call.at \in Working
    BY <1>1, WorkStays DEF CallAgrees
<1>2. CASE ~(call.plugin = p /\ call.at \in Working)
    BY <1>2, RestStays DEF CallAgrees
<1> QED  BY <1>1, <1>2

-----------------------------------------------------------------------------
(* How one call's step is seen by a quiet plugin. *)

About(call, p) == call.at # "idle" /\ (call.op \in Whole \/ call.plugin = p)

LEMMA ConcernsAbout == \A c, p : Concerns(c, p) <=> About(calls[c], p)
BY DEF Concerns, About, Busy

LEMMA QuietParts ==
    ASSUME NEW p
    PROVE  QuietPlugin(p) <=>
              /\ \A c, d \in Callers : About(calls[c], p) /\ About(calls[d], p) => c = d
              /\ phase \in {"down", "broken"} => ContainersOf(p) = {}
              /\ \A c \in Callers : About(calls[c], p) => CallAgrees(calls[c], p)
              /\ phase = "ready" /\ (\A c \in Callers : ~About(calls[c], p)) => Agrees(p)
BY DEF QuietPlugin, Concerns, About, Busy, Untouched

\* The same of the state after a step, in terms of what the calls are then.
LEMMA QuietAfter ==
    ASSUME NEW p, NEW after, after = calls',
           \A c, d \in Callers : About(after[c], p) /\ About(after[d], p) => c = d,
           phase' \in {"down", "broken"} => ContainersOf(p)' = {},
           \A c \in Callers : About(after[c], p) => CallAgrees(after[c], p)',
           phase' = "ready" /\ (\A c \in Callers : ~About(after[c], p)) => Agrees(p)'
    PROVE  QuietPlugin(p)'
<1>1. \A c \in Callers : Concerns(c, p)' <=> About(after[c], p)
    BY DEF Concerns, About, Busy
<1>2. ASSUME NEW c \in Callers, Concerns(c, p)' PROVE CallAgrees(calls[c], p)'
  <2>1. PICK call : call = after[c] /\ call = calls'[c]
    OBVIOUS
  <2>2. CallAgrees(call, p)'
    BY <1>1, <1>2, <2>1
  <2> QED  BY <2>1, <2>2 DEF CallAgrees, WorkAgrees, RestAgrees, Spawned, Holds
<1> QED  BY <1>1, <1>2 DEF QuietPlugin, Untouched

\* Call c, which is in progress, goes on as new.
LEMMA QuietStep ==
    ASSUME CallsInv, NEW p \in Plugins, QuietPlugin(p), NEW c \in Callers, NEW new,
           Moves(c, new), phase' \in {"starting", "ready"},
           About(new, p) => About(calls[c], p) /\ CallAgrees(new, p)',
           ~About(calls[c], p) => SameWorld(p) /\ phase' = phase,
           About(calls[c], p) /\ ~About(new, p) /\ phase' = "ready" => Agrees(p)'
    PROVE  QuietPlugin(p)'
<1>1. PICK after : after = calls'
    OBVIOUS
<1>2. after[c] = new /\ \A d \in Callers : d # c => after[d] = calls[d]
    BY <1>1, MovedCalls, CallTypes
<1>3. \A d \in Callers : About(after[d], p) => About(calls[d], p)
    BY <1>2
<1>4. \A d, e \in Callers : About(after[d], p) /\ About(after[e], p) => d = e
    BY <1>3, QuietParts
<1>5. ASSUME NEW d \in Callers, About(after[d], p) PROVE CallAgrees(after[d], p)'
  <2>1. CASE d = c
    <3>1. CallAgrees(new, p)'
      BY <1>2, <1>5, <2>1
    <3> QED  BY <1>2, <2>1, <3>1
  <2>2. CASE d # c
    <3>1. ~About(calls[c], p) /\ after[d] = calls[d] /\ CallAgrees(calls[d], p)
      BY <1>2, <1>3, <1>5, <2>2, QuietParts
    <3>2. PICK call : call = after[d]
      OBVIOUS
    <3>3. CallAgrees(call, p)'
      BY <3>1, <3>2, CallStays
    <3> QED  BY <3>2, <3>3
  <2> QED  BY <2>1, <2>2
<1>6. ASSUME phase' = "ready", \A d \in Callers : ~About(after[d], p) PROVE Agrees(p)'
  <2>1. CASE About(calls[c], p)
    BY <1>2, <1>6, <2>1
  <2>2. CASE ~About(calls[c], p)
    <3>1. \A d \in Callers : ~About(calls[d], p)
      BY <1>2, <1>6, <2>2
    <3>2. Agrees(p)
      BY <1>6, <2>2, <3>1, QuietParts
    <3> QED  BY <2>2, <3>2, AgreesStays
  <2> QED  BY <2>1, <2>2
<1> QED  BY <1>1, <1>4, <1>5, <1>6, QuietAfter

\* Call c begins.
LEMMA QuietBegins ==
    ASSUME ConfigInv, NEW p \in Plugins, QuietPlugin(p), NEW c \in Callers, NEW new,
           Moves(c, new), ~Busy(c), phase \in {"starting", "ready"}, phase' = phase,
           About(new, p) => Untouched(p) /\ (Agrees(p) => CallAgrees(new, p)'),
           ~About(new, p) => SameWorld(p)
    PROVE  QuietPlugin(p)'
<1>1. PICK after : after = calls'
    OBVIOUS
<1>2. after[c] = new /\ \A d \in Callers : d # c => after[d] = calls[d]
    BY <1>1, MovedCalls, CallTypes DEF ConfigInv
<1>3. ~About(calls[c], p)
    BY DEF About, Busy
<1>4. CASE About(new, p)
  <2>1. \A d \in Callers : ~About(calls[d], p)
    BY <1>4, ConcernsAbout DEF Untouched
  <2>2. phase = "ready"
    <3>1. calls[Startup] \in CallType /\ SoundCall(Startup, calls[Startup])
      BY CallTypes, StartupCaller DEF ConfigInv
    <3>2. Busy(Startup) => About(calls[Startup], p)
      BY <3>1, StartupCaller DEF SoundCall, About, Busy, Whole
    <3> QED  BY <2>1, <3>2, StartupCaller DEF ConfigInv, PhaseSound
  <2>3. CallAgrees(new, p)'
    BY <1>4, <2>1, <2>2, QuietParts
  <2>4. \A d \in Callers : About(after[d], p) <=> d = c
    BY <1>2, <1>4, <2>1
  <2>5. ASSUME NEW d \in Callers, About(after[d], p) PROVE CallAgrees(after[d], p)'
    BY <1>2, <2>3, <2>4, <2>5
  <2> QED  BY <1>1, <1>2, <1>4, <2>4, <2>5, QuietAfter
<1>5. CASE ~About(new, p)
  <2>1. \A d \in Callers : About(after[d], p) <=> About(calls[d], p)
    BY <1>2, <1>3, <1>5
  <2>2. \A d \in Callers : About(after[d], p) => after[d] = calls[d]
    BY <1>2, <1>5
  <2>3. ASSUME NEW d \in Callers, About(after[d], p) PROVE CallAgrees(after[d], p)'
    <3>1. PICK call : call = after[d] /\ call = calls[d] /\ CallAgrees(call, p)
      BY <2>1, <2>2, <2>3, QuietParts
    <3>2. CallAgrees(call, p)'
      BY <1>5, <3>1, CallStays
    <3> QED  BY <3>1, <3>2
  <2>4. ASSUME phase' = "ready", \A d \in Callers : ~About(after[d], p) PROVE Agrees(p)'
    <3>1. Agrees(p)
      BY <2>1, <2>4, QuietParts
    <3> QED  BY <1>5, <3>1, AgreesStays
  <2>5. \A d, e \in Callers : About(after[d], p) /\ About(after[e], p) => d = e
    BY <2>1, QuietParts
  <2> QED  BY <1>1, <2>3, <2>4, <2>5, QuietAfter
<1> QED  BY <1>4, <1>5

\* No call does anything.
LEMMA QuietSame ==
    ASSUME NEW p \in Plugins, QuietPlugin(p), SameWorld(p), UNCHANGED <<calls, phase>>
    PROVE  QuietPlugin(p)'
<1>1. PICK after : after = calls' /\ after = calls
    OBVIOUS
<1>2. ASSUME NEW d \in Callers, About(after[d], p) PROVE CallAgrees(after[d], p)'
    BY <1>1, <1>2, QuietParts, CallStays
<1>3. phase' \in {"down", "broken"} => ContainersOf(p)' = {}
    BY QuietParts DEF SameWorld
<1>4. phase' = "ready" /\ (\A d \in Callers : ~About(after[d], p)) => Agrees(p)'
    BY <1>1, QuietParts, AgreesStays
<1>5. \A d, e \in Callers : About(after[d], p) /\ About(after[e], p) => d = e
    BY <1>1, QuietParts
<1> QED  BY <1>1, <1>2, <1>3, <1>4, <1>5, QuietAfter


\* What a call has reached that begins to stop a plugin's instances, ...
LEMMA StopAgrees ==
    ASSUME NEW p, NEW op, NEW rest, NEW ids, Holds(p, ids)', op # "shutdown",
           p \notin timers', config'[p] # NoConfig \/ op = "remove"
    PROVE  CallAgrees(StopCall(op, p, rest, ids), p)'
<1>1. PICK call : call = StopCall(op, p, rest, ids)
    OBVIOUS
<1>2. call.op = op /\ call.at = "stop" /\ call.plugin = p /\ call.list = ids
    BY <1>1, StopHand
<1>3. WorkAgrees(call, p)'
    BY <1>2 DEF WorkAgrees, Ending, Spawning, Waiting
<1>4. CallAgrees(call, p)'
    BY <1>2, <1>3 DEF CallAgrees, Working, Ending
<1> QED  BY <1>1, <1>4

\* ... and one that begins to save what it did to the configuration.
LEMMA SaveAgrees ==
    ASSUME NEW p, NEW op, NEW cfg,
           op = "add" => Absent(p)' /\ config'[p] # NoConfig,
           op = "update" => Agrees(p)',
           op = "remove" => Absent(p)' /\ config'[p] = NoConfig
    PROVE  CallAgrees(SaveCall(op, p, cfg), p)'
<1>1. PICK call : call = SaveCall(op, p, cfg)
    OBVIOUS
<1>2. call.op = op /\ call.at = "save" /\ call.plugin = p
    BY <1>1, SaveHand
<1>3. WorkAgrees(call, p)'
    BY <1>2 DEF WorkAgrees, Ending, Spawning, Waiting
<1>4. CallAgrees(call, p)'
    BY <1>2, <1>3 DEF CallAgrees, Working
<1> QED  BY <1>1, <1>4

LEMMA HoldsSame ==
    ASSUME NEW p, NEW ids, Holds(p, ids), UNCHANGED docker
    PROVE  Holds(p, ids)'
BY DEF Holds, ContainersOf, Exists, PluginOf

\* A plugin without instances, between calls, is no part of anything.
LEMMA AgreesAbsent ==
    ASSUME NEW p
    PROVE  Agrees(p) /\ instances[p] = <<>> <=> Absent(p) /\ config[p] = NoConfig
<1>1. ASSUME Agrees(p), instances[p] = <<>> PROVE Absent(p) /\ config[p] = NoConfig
  <2>1. config[p] = NoConfig /\ p \notin timers /\ Holds(p, instances[p])
    BY <1>1 DEF Agrees
  <2>2. ContainersOf(p) = {}
    BY <1>1, <2>1, EmptyList DEF Holds
  <2> QED  BY <1>1, <2>1, <2>2 DEF Absent, NoInstances
<1>2. ASSUME Absent(p), config[p] = NoConfig PROVE Agrees(p) /\ instances[p] = <<>>
  <2>1. instances[p] = <<>> /\ p \notin timers /\ ContainersOf(p) = {}
    BY <1>2 DEF Absent, NoInstances
  <2>2. Holds(p, instances[p])
    BY <2>1, EmptyList DEF Holds
  <2> QED  BY <1>2, <2>1, <2>2 DEF Agrees
<1> QED  BY <1>1, <1>2

\* The requests about one plugin that begin by stopping its instances.
LEMMA StopBegins ==
    ASSUME ConfigInv, QuietInv, NEW c \in Requests, NEW q \in Plugins, NEW op,
           op \in {"restart", "remove"}, Request(c, {q}), Stopping(c, op, q, {}),
           config[q] # NoConfig \/ op = "remove", UNCHANGED config,
           Moves(c, StopCall(op, q, {}, instances[q])), NEW p \in quiet'
    PROVE  QuietPlugin(p)'
<1>1. /\ p \in quiet /\ p \in Plugins /\ QuietPlugin(p) /\ (p = q => Untouched(p))
      /\ phase = "ready" /\ phase' = phase /\ ~Busy(c) /\ c \in Callers
      /\ UNCHANGED <<docker, status, instances>>
    BY RequestCaller, TypesOf DEF Request, Untouched, QuietInv, ConfigInv, StateTypes
<1>2. timers' = timers \ {q}
    BY DEF Stopping
<1>3. PICK ids : ids = instances[q]
    OBVIOUS
<1>4. PICK new : new = StopCall(op, q, {}, ids)
    OBVIOUS
<1>5. About(new, p) <=> p = q
    BY <1>4, StopHand DEF About, Whole
<1>6. ASSUME p = q, Agrees(p) PROVE CallAgrees(new, p)'
  <2>1. Holds(p, ids)'
    BY <1>1, <1>3, <1>6, HoldsSame DEF Agrees
  <2> QED  BY <1>2, <1>4, <1>6, <2>1, StopAgrees
<1>7. ASSUME p # q PROVE SameWorld(p)
    BY <1>1, <1>2, <1>7, NoneChanges
<1> QED  BY <1>1, <1>3, <1>4, <1>5, <1>6, <1>7, QuietBegins

\* Those that begin by saving.
LEMMA SavingBegins ==
    ASSUME ConfigInv, QuietInv, NEW c \in Requests, NEW q \in Plugins, NEW op, NEW v,
           Request(c, {q}), UNCHANGED timers,
           SavingCall(c, op, q, [config EXCEPT ![q] = v]),
           Moves(c, SaveCall(op, q, [config EXCEPT ![q] = v])), NEW p \in quiet',
           \/ op = "add" /\ instances[q] = <<>> /\ v # NoConfig
           \/ op = "update" /\ config[q] # NoConfig /\ v # NoConfig
           \/ op = "remove" /\ instances[q] = <<>> /\ config[q] # NoConfig /\ v = NoConfig
    PROVE  QuietPlugin(p)'
<1>1. /\ p \in quiet /\ p \in Plugins /\ QuietPlugin(p) /\ (p = q => Untouched(p))
      /\ phase = "ready" /\ phase' = phase /\ ~Busy(c) /\ c \in Callers
      /\ UNCHANGED <<docker, status, instances>>
    BY RequestCaller, TypesOf DEF Request, Untouched, QuietInv, ConfigInv, StateTypes
<1>2. config' = [config EXCEPT ![q] = v]
    BY DEF SavingCall
<1>3. config'[q] = v /\ (p # q => config'[p] = config[p])
    BY <1>1, <1>2, CallTypes DEF ConfigInv, ConfigType
<1>4. PICK cfg : cfg = [config EXCEPT ![q] = v]
    OBVIOUS
<1>5. PICK new : new = SaveCall(op, q, cfg)
    OBVIOUS
<1>6. op \notin Whole
    BY DEF Whole
<1>7. About(new, p) <=> p = q
    BY <1>5, <1>6, SaveHand DEF About
<1>8. /\ ContainersOf(p)' = ContainersOf(p)
      /\ Absent(p) => Absent(p)'
      /\ \A ids : Holds(p, ids) => Holds(p, ids)'
    BY <1>1 DEF ContainersOf, Exists, PluginOf, Absent, NoInstances, Holds
<1>9. ASSUME p = q, Agrees(p) PROVE CallAgrees(new, p)'
  <2>1. CASE op = "add"
    <3>1. Absent(p)
      BY <1>9, <2>1, AgreesAbsent
    <3> QED  BY <1>3, <1>5, <1>8, <1>9, <2>1, <3>1, SaveAgrees
  <2>2. CASE op = "update"
    <3>1. Agrees(p)'
      <4>1. \A id \in ContainersOf(p) : Lives(id)'
        BY <1>1, <1>9 DEF Agrees, Lives
      <4>2. PICK ids : ids = instances[p] /\ ids = instances'[p]
        BY <1>1
      <4>3. Holds(p, ids)'
        BY <1>8, <1>9, <4>2 DEF Agrees
      <4>4. Holds(p, instances[p])'
        BY <4>2, <4>3 DEF Holds
      <4> QED  BY <1>1, <1>3, <1>8, <1>9, <2>2, <4>1, <4>4 DEF Agrees
    <3> QED  BY <1>5, <1>9, <2>2, <3>1, SaveAgrees
  <2>3. CASE op = "remove"
    \* In a plugin's quiet times a configuration means instances.
    BY <1>9, <2>3 DEF Agrees
  <2> QED  BY <2>1, <2>2, <2>3
<1>10. ASSUME p # q PROVE SameWorld(p)
  <2>1. \A id \in ContainersOf(p) : docker'[id] = docker[id] /\ status'[id] = status[id]
    BY <1>1
  <2> QED  BY <1>1, <1>3, <1>8, <1>10, <2>1 DEF SameWorld
<1> QED  BY <1>1, <1>4, <1>5, <1>7, <1>9, <1>10, QuietBegins


LEMMA RequestsQuiet ==
    ASSUME ConfigInv, QuietInv, NEW c \in Requests,
           \/ RestartAll(c)
           \/ \E p \in Plugins : RestartPlugin(c, p) \/ RemovePlugin(c, p)
           \/ \E p \in Plugins, v \in Given : AddPlugin(c, p, v) \/ Update(c, p, v)
    PROVE  QuietInv'
<1>1. CallsInv /\ c \in Callers
    BY RequestCaller DEF ConfigInv
<1> SUFFICES ASSUME NEW p \in quiet' PROVE QuietPlugin(p)'
    BY DEF QuietInv
<1>2. CASE RestartAll(c)
  <2>1. /\ p \in quiet /\ p \in Plugins /\ QuietPlugin(p) /\ Untouched(p)
        /\ phase = "ready" /\ phase' = phase /\ ~Busy(c)
        /\ UNCHANGED <<docker, status, instances, timers, config>>
    <3>1. Request(c, Plugins) /\ UNCHANGED <<timers, config>>
      BY <1>2 DEF RestartAll
    <3> QED  BY <1>1, <3>1, TypesOf DEF Request, Untouched, QuietInv, StateTypes
  <2>2. PICK new : new = [IdleCall EXCEPT !.op = "restartAll", !.at = "next",
                                          !.rest = {q \in Plugins : instances[q] # <<>>}]
    OBVIOUS
  <2>3. Moves(c, new) /\ new.op = "restartAll" /\ new.at = "next"
    BY <1>1, <1>2, <2>2, RestartAllMoves DEF IdleCall
  <2>4. SameWorld(p)
    BY <2>1, NoneChanges
  <2>5. ASSUME Agrees(p) PROVE CallAgrees(new, p)'
    <3>1. Agrees(p)'
      BY <2>4, <2>5, AgreesStays
    <3> QED  BY <2>3, <3>1 DEF CallAgrees, RestAgrees, Working, Spawning, Waiting, Ending
  <2> QED  BY <1>1, <2>1, <2>3, <2>4, <2>5, QuietBegins
<1>3. ASSUME NEW q \in Plugins, RestartPlugin(c, q) PROVE QuietPlugin(p)'
  <2>1. /\ Request(c, {q}) /\ config[q] # NoConfig /\ Stopping(c, "restart", q, {})
        /\ UNCHANGED config
    BY <1>3 DEF RestartPlugin
  <2> QED  BY <1>1, <1>3, <2>1, RestartPluginMoves, StopBegins
<1>4. ASSUME NEW q \in Plugins, RemovePlugin(c, q) PROVE QuietPlugin(p)'
  <2>1. Request(c, {q})
    BY <1>4 DEF RemovePlugin
  <2>2. CASE /\ instances[q] # <<>> /\ Stopping(c, "remove", q, {})
             /\ UNCHANGED <<config, saveVars>>
             /\ Moves(c, StopCall("remove", q, {}, instances[q]))
    BY <2>1, <2>2, StopBegins
  <2>3. CASE /\ instances[q] = <<>> /\ config[q] # NoConfig /\ UNCHANGED timers
             /\ SavingCall(c, "remove", q, [config EXCEPT ![q] = NoConfig])
             /\ Moves(c, SaveCall("remove", q, [config EXCEPT ![q] = NoConfig]))
    BY <2>1, <2>3, SavingBegins
  <2>4. CASE UNCHANGED <<timers, config, saveVars>> /\ Moves(c, IdleCall)
    <3>1. /\ p \in quiet /\ p \in Plugins /\ QuietPlugin(p)
          /\ phase = "ready" /\ phase' = phase /\ ~Busy(c)
          /\ UNCHANGED <<docker, status, instances>>
      BY <1>1, <2>1, TypesOf DEF Request, QuietInv, StateTypes
    <3>2. SameWorld(p)
      BY <2>4, <3>1, NoneChanges
    <3>3. ~About(IdleCall, p)
      BY IdleHand DEF About
    <3> QED  BY <1>1, <2>4, <3>1, <3>2, <3>3, QuietBegins
  <2> QED  BY <1>1, <1>4, <2>2, <2>3, <2>4, RemovePluginMoves
<1>5. ASSUME NEW q \in Plugins, NEW v \in Given, AddPlugin(c, q, v) PROVE QuietPlugin(p)'
  <2>1. /\ Request(c, {q}) /\ instances[q] = <<>> /\ UNCHANGED timers /\ v # NoConfig
    BY <1>5, ContainerAssumption DEF AddPlugin
  <2>2. /\ SavingCall(c, "add", q, [config EXCEPT ![q] = v])
        /\ Moves(c, SaveCall("add", q, [config EXCEPT ![q] = v]))
    BY <1>1, <1>5, AddPluginMoves
  <2> QED  BY <2>1, <2>2, SavingBegins
<1>6. ASSUME NEW q \in Plugins, NEW v \in Given, Update(c, q, v) PROVE QuietPlugin(p)'
  <2>1. /\ Request(c, {q}) /\ config[q] # NoConfig /\ UNCHANGED timers /\ v # NoConfig
    BY <1>6, ContainerAssumption DEF Update
  <2>2. /\ SavingCall(c, "update", q, [config EXCEPT ![q] = v])
        /\ Moves(c, SaveCall("update", q, [config EXCEPT ![q] = v]))
    BY <1>1, <1>6, UpdateMoves
  <2> QED  BY <2>1, <2>2, SavingBegins
<1> QED  BY <1>2, <1>3, <1>4, <1>5, <1>6


-----------------------------------------------------------------------------
(* A call at work on a plugin goes on. *)

\* Only the plugin a call works on notices; what the call has reached for it then is
\* for each step to say.
LEMMA QuietWork ==
    ASSUME ConfigInv, NEW p \in Plugins, QuietPlugin(p), NEW c \in Callers, NEW new,
           Moves(c, new), calls[c].at \in Working, phase' = phase,
           \/ new = IdleCall /\ calls[c].op \notin Whole
           \/ /\ new.op = calls[c].op /\ new.plugin = calls[c].plugin
              /\ new.op \in Whole => new.rest = calls[c].rest
              /\ new.at \in Working \cup {"next"},
           p # calls[c].plugin => SameWorld(p),
           p = calls[c].plugin /\ WorkAgrees(calls[c], p) =>
               IF new.at = "idle" THEN Agrees(p)' ELSE CallAgrees(new, p)'
    PROVE  QuietPlugin(p)'
<1>1. /\ CallsInv /\ Busy(c) /\ calls[c].at # "idle" /\ calls[c].at # "clean"
      /\ phase' \in {"starting", "ready"}
    BY BusyUp DEF ConfigInv, Busy, Working, Spawning, Waiting, Ending
<1>2. new.at # "clean" /\ (new.at = "idle" <=> new = IdleCall)
    BY IdleHand DEF Working, Spawning, Waiting, Ending
<1>3. CASE p = calls[c].plugin
  <2>1. About(calls[c], p)
    BY <1>1, <1>3 DEF About
  <2>2. CallAgrees(calls[c], p)
    BY <2>1, QuietParts
  <2>3. WorkAgrees(calls[c], p)
    BY <1>3, <2>2 DEF CallAgrees
  <2>4. About(new, p) => new.at # "idle"
    BY DEF About
  <2>5. new.at # "idle" => About(new, p)
    BY <1>2, <1>3 DEF About
  <2> QED  BY <1>1, <1>3, <2>1, <2>3, <2>4, <2>5, QuietStep
<1>4. CASE p # calls[c].plugin
  <2>1. About(calls[c], p) <=> calls[c].op \in Whole
    BY <1>1, <1>4 DEF About
  <2>2. About(new, p) <=> calls[c].op \in Whole
    BY <1>2, <1>4, IdleHand DEF About, Working, Spawning, Waiting, Ending
  <2>3. ASSUME About(new, p) PROVE CallAgrees(new, p)'
    <3>1. CallAgrees(calls[c], p)
      BY <2>1, <2>2, <2>3, QuietParts
    <3>2. RestAgrees(calls[c], p)
      BY <1>4, <3>1 DEF CallAgrees
    <3>3. /\ new.op = calls[c].op /\ new.plugin = calls[c].plugin
          /\ new.rest = calls[c].rest
      BY <2>2, <2>3
    <3>4. RestAgrees(new, p)
      BY <1>1, <1>2, <3>2, <3>3 DEF RestAgrees
    <3>5. CallAgrees(new, p)
      BY <1>4, <3>3, <3>4 DEF CallAgrees
    <3> QED  BY <1>4, <3>5, CallStays
  <2> QED  BY <1>1, <1>4, <2>1, <2>2, <2>3, QuietStep
<1> QED  BY <1>3, <1>4

\* What a call has reached at each stage.
LEMMA SpawningAgrees ==
    ASSUME NEW p, NEW new, new.plugin = p, new.at \in Spawning \ {"run"},
           Spawned(p, new.list, {})', new.at = "clear" => new.target \notin ContainersOf(p)'
    PROVE  CallAgrees(new, p)'
<1>1. WorkAgrees(new, p)'
    BY DEF WorkAgrees, Ending, Spawning, Waiting
<1> QED  BY <1>1 DEF CallAgrees, Working, Spawning

LEMMA RunningAgrees ==
    ASSUME NEW p, NEW new, new.plugin = p, new.at = "run",
           Spawned(p, new.list, {new.target})', new.target \notin ToSet(new.list),
           docker'[new.target].slot[2] = Len(new.list)
    PROVE  CallAgrees(new, p)'
<1>1. WorkAgrees(new, p)'
    BY DEF WorkAgrees, Ending, Spawning, Waiting
<1> QED  BY <1>1 DEF CallAgrees, Working, Spawning

LEMMA WaitingAgrees ==
    ASSUME NEW p, NEW new, new.plugin = p, new.at \in Waiting, Agrees(p)'
    PROVE  CallAgrees(new, p)'
<1>1. WorkAgrees(new, p)'
    BY DEF WorkAgrees, Ending, Spawning, Waiting
<1> QED  BY <1>1 DEF CallAgrees, Working, Waiting

LEMMA EndingAgrees ==
    ASSUME NEW p, NEW new, new.plugin = p, new.at \in Ending, Holds(p, new.list)',
           new.op # "shutdown" => p \notin timers',
           new.op \in {"restart", "update", "restartAll"} => config'[p] # NoConfig
    PROVE  CallAgrees(new, p)'
<1>1. WorkAgrees(new, p)'
    BY DEF WorkAgrees, Ending, Spawning, Waiting
<1> QED  BY <1>1 DEF CallAgrees, Working, Ending

\* Nothing is there of a plugin, ...
LEMMA AbsentSpawns ==
    ASSUME NEW p, Absent(p)', config'[p] # NoConfig
    PROVE  Spawned(p, <<>>, {})'
BY EmptyList DEF Absent, Spawned

\* ... and nothing is wanted.
LEMMA AbsentAgrees ==
    ASSUME NEW p, Absent(p)', config'[p] = NoConfig
    PROVE  Agrees(p)'
<1>1. instances'[p] = <<>> /\ p \notin timers' /\ ContainersOf(p)' = {}
    BY DEF Absent, NoInstances
<1>2. Holds(p, instances[p])'
    BY <1>1, EmptyList DEF Holds
<1> QED  BY <1>1, <1>2 DEF Agrees


LEMMA SavesQuiet ==
    ASSUME ConfigInv, QuietInv, NEW c \in Callers, SaveEnds(c) \/ SaveFails(c)
    PROVE  QuietInv'
<1>1. /\ CallsInv /\ calls[c].at = "save" /\ calls[c].at \in Working
      /\ UNCHANGED <<docker, status, instances, config>> /\ phase' = phase
    BY DEF ConfigInv, SaveEnds, SaveFails, managerVars, Working
<1>2. PICK q : q = calls[c].plugin
    OBVIOUS
<1>3. /\ q \in Plugins /\ calls[c] \in CallType /\ calls[c].list = <<>>
      /\ calls[c].op \in {"add", "update", "remove"}
  <2>1. q \in Plugins /\ calls[c] \in CallType /\ SoundCall(c, calls[c])
    BY <1>1, <1>2, WorkingCall, CallTypes
  <2>2. calls[c].list = <<>> /\ calls[c].at \in StagesOf(calls[c].op)
    BY <1>1, <2>1 DEF SoundCall
  <2>3. calls[c].op \in {"add", "update", "remove"}
    BY <1>1, <2>2 DEF StagesOf, Spawning, Waiting, Ending
  <2> QED  BY <2>1, <2>2, <2>3
<1>4. calls[c].op \notin Whole
    BY <1>3 DEF Whole
<1> SUFFICES ASSUME NEW p \in quiet' PROVE QuietPlugin(p)'
    BY DEF QuietInv
<1>5. p \in quiet /\ p \in Plugins /\ QuietPlugin(p)
    BY <1>1, TypesOf DEF SaveEnds, SaveFails, Fault, QuietInv, StateTypes
<1>6. CASE SaveFails(c)
  <2>1. Moves(c, IdleCall) /\ timers' = timers /\ p # q
    BY <1>1, <1>2, <1>6, EndedCall DEF SaveFails, Fault, managerVars
  <2>2. SameWorld(p)
    BY <1>1, <1>5, <2>1, NoneChanges
  <2> QED  BY <1>1, <1>2, <1>4, <1>5, <2>1, <2>2, QuietWork
<1>7. CASE SaveEnds(c)
  <2>1. CASE /\ calls[c].op = "add" /\ timers' = timers
             /\ Moves(c, [calls[c] EXCEPT !.at = "list", !.text = CutFile])
    <3>1. PICK new : new = [calls[c] EXCEPT !.at = "list", !.text = CutFile]
      OBVIOUS
    <3>2. /\ new.op = calls[c].op /\ new.plugin = q /\ new.rest = calls[c].rest
          /\ new.at = "list" /\ new.list = <<>>
      BY <1>2, <1>3, <3>1 DEF CallType
    <3>3. SameWorld(p)
      BY <1>1, <1>5, <2>1, NoneChanges
    <3>4. ASSUME p = q, WorkAgrees(calls[c], p) PROVE CallAgrees(new, p)'
      <4>1. Absent(p) /\ config[p] # NoConfig
        BY <1>1, <2>1, <3>4 DEF WorkAgrees
      <4>2. Absent(p)' /\ config'[p] # NoConfig
        BY <3>3, <4>1, AbsentStays
      <4>3. Spawned(p, <<>>, {})'
        BY <4>2, AbsentSpawns
      <4>4. Spawned(p, new.list, {})'
        BY <3>2, <4>3
      <4> QED  BY <3>2, <3>4, <4>4, SpawningAgrees DEF Spawning
    <3>5. new.at # "idle" /\ new.at \in Working
      BY <3>2 DEF Working, Spawning
    <3> QED  BY <1>1, <1>2, <1>5, <2>1, <3>1, <3>2, <3>3, <3>4, <3>5, QuietWork
  <2>2. CASE /\ calls[c].op = "update" /\ config[q] # NoConfig
             /\ Stopping(c, "update", q, {})
             /\ Moves(c, StopCall("update", q, {}, instances[q]))
    <3>1. PICK ids : ids = instances[q]
      OBVIOUS
    <3>2. PICK new : new = StopCall("update", q, {}, ids)
      OBVIOUS
    <3>3. /\ new.op = calls[c].op /\ new.plugin = q /\ new.at = "stop" /\ new.list = ids
      BY <2>2, <3>2, StopHand
    <3>4. timers' = timers \ {q}
      BY <2>2 DEF Stopping
    <3>5. p # q => SameWorld(p)
      BY <1>1, <1>5, <3>4, NoneChanges
    <3>6. ASSUME p = q, WorkAgrees(calls[c], p) PROVE CallAgrees(new, p)'
      <4>1. Agrees(p)
        BY <1>1, <2>2, <3>6 DEF WorkAgrees
      <4>2. Holds(p, ids)'
        BY <1>1, <3>1, <3>6, <4>1, HoldsSame DEF Agrees
      <4> QED  BY <1>1, <2>2, <3>2, <3>4, <3>6, <4>2, StopAgrees
    <3>7. new.at # "idle" /\ new.at \in Working /\ new.op \notin Whole
      BY <1>4, <3>3 DEF Working, Ending
    <3> QED  BY <1>1, <1>2, <1>5, <2>2, <3>1, <3>2, <3>3, <3>5, <3>6, <3>7, QuietWork
  <2>3. CASE /\ calls[c].op \in {"remove", "update"} /\ timers' = timers
             /\ Moves(c, IdleCall)
    <3>1. SameWorld(p)
      BY <1>1, <1>5, <2>3, NoneChanges
    <3>2. ASSUME p = q, WorkAgrees(calls[c], p) PROVE Agrees(p)'
      <4>1. Agrees(p) \/ (Absent(p) /\ config[p] = NoConfig)
        BY <1>1, <2>3, <3>2 DEF WorkAgrees
      <4> QED  BY <3>1, <4>1, AgreesAbsent, AgreesStays
    <3> QED  BY <1>1, <1>2, <1>4, <1>5, <2>3, <3>1, <3>2, IdleHand, QuietWork
  <2> QED  BY <1>1, <1>2, <1>7, <2>1, <2>2, <2>3, SaveEndsMoves
<1> QED  BY <1>6, <1>7

\* A container that a call has in hand is no other plugin's.
LEMMA HandOwned ==
    ASSUME CallsInv, OwnersInv, NEW c \in Callers, calls[c].at \in Ending
    PROVE  LET id == Head(calls[c].list)
           IN  id \in Ids /\ (Exists(id) => PluginOf(id) = calls[c].plugin)
<1>1. /\ calls[c].list \in Seq(Ids) /\ calls[c].list # <<>>
      /\ Owned(calls[c].list, calls[c].plugin)
    BY ListInHand, OwnersOf DEF OwnsHand, Ending
<1>2. Head(calls[c].list) \in Ids /\ Head(calls[c].list) \in ToSet(calls[c].list)
    BY <1>1, HeadInHand, ToSetTail
<1> QED  BY <1>1, <1>2 DEF Owned

LEMMA StopsQuiet ==
    ASSUME ConfigInv, OwnersInv, QuietInv, NEW c \in Callers, StopContainer(c)
    PROVE  QuietInv'
<1>1. /\ CallsInv /\ calls[c].at \in Ending /\ calls[c].at \in Working
      /\ UNCHANGED <<status, instances, timers, config, phase, quiet>>
    BY DEF ConfigInv, StopContainer, managerVars, Working, Ending
<1>2. PICK q : q = calls[c].plugin
    OBVIOUS
<1>3. PICK id : id = Head(calls[c].list)
    OBVIOUS
<1>4. id \in Ids /\ (Exists(id) => PluginOf(id) = q) /\ calls[c] \in CallType
    BY <1>1, <1>2, <1>3, HandOwned, CallTypes
<1>5. docker' = [docker EXCEPT ![id].state = IF @ = "up" THEN "down" ELSE @]
    BY <1>3 DEF StopContainer
<1>6. \A other \in Ids : /\ other # id => docker'[other] = docker[other]
                         /\ PluginOf(other)' = PluginOf(other)
                         /\ Exists(other)' <=> Exists(other)
  <2>1. docker \in [Ids -> ContainerType] /\ docker[id] \in ContainerType
    BY <1>4, CallTypes, <1>1
  <2>2. /\ \A other \in Ids : other # id => docker'[other] = docker[other]
        /\ docker'[id].slot = docker[id].slot
        /\ docker'[id].state = IF docker[id].state = "up" THEN "down" ELSE docker[id].state
    BY <1>4, <1>5, <2>1 DEF ContainerType, Gone
  <2> QED  BY <2>2 DEF PluginOf, Exists
<1> SUFFICES ASSUME NEW p \in quiet' PROVE QuietPlugin(p)'
    BY DEF QuietInv
<1>7. p \in Plugins /\ QuietPlugin(p)
    BY <1>1, TypesOf DEF QuietInv, StateTypes
<1>8. ContainersOf(p)' = ContainersOf(p)
    BY <1>6 DEF ContainersOf
<1>9. PICK new : new = [calls[c] EXCEPT !.at = "remove"]
    OBVIOUS
<1>10. /\ Moves(c, new) /\ new.op = calls[c].op /\ new.plugin = q /\ new.at = "remove"
       /\ new.rest = calls[c].rest /\ new.list = calls[c].list
    BY <1>1, <1>2, <1>4, <1>9, StopContainerMoves DEF CallType
<1>11. ASSUME p # q PROVE SameWorld(p)
  <2>1. (Exists(id) => PluginOf(id) # p) /\ (Exists(id)' => PluginOf(id)' # p)
    BY <1>4, <1>6, <1>11
  <2> QED  BY <1>1, <1>4, <1>6, <1>7, <2>1, OneChanges
<1>12. ASSUME p = q, WorkAgrees(calls[c], p) PROVE CallAgrees(new, p)'
  <2>1. /\ Holds(p, calls[c].list) /\ (calls[c].op # "shutdown" => p \notin timers)
        /\ calls[c].op \in {"restart", "update", "restartAll"} => config[p] # NoConfig
    BY <1>1, <1>12 DEF WorkAgrees
  <2>2. PICK ids : ids = calls[c].list
    OBVIOUS
  <2>3. Holds(p, ids)'
    BY <1>8, <2>1, <2>2 DEF Holds
  <2>4. Holds(p, new.list)'
    BY <1>10, <2>2, <2>3
  <2> QED  BY <1>1, <1>10, <1>12, <2>1, <2>4, EndingAgrees DEF Ending
<1>13. new.at # "idle" /\ new.at \in Working
    BY <1>10 DEF Working, Ending
<1> QED  BY <1>1, <1>2, <1>7, <1>10, <1>11, <1>12, <1>13, QuietWork


LEMMA RemovesQuiet ==
    ASSUME ConfigInv, OwnersInv, QuietInv, NEW c \in Callers, RemoveContainer(c)
    PROVE  QuietInv'
<1>1. /\ CallsInv /\ calls[c].at = "remove" /\ calls[c].at \in Ending
      /\ calls[c].at \in Working /\ UNCHANGED <<timers, phase>>
    BY DEF ConfigInv, RemoveContainer, Working, Ending
<1>2. PICK q : q = calls[c].plugin
    OBVIOUS
<1>3. PICK list : list = calls[c].list
    OBVIOUS
<1>4. PICK id : id = Head(list)
    OBVIOUS
<1>5. /\ id \in Ids /\ (Exists(id) => PluginOf(id) = q) /\ calls[c] \in CallType
      /\ q \in Plugins /\ list \in Seq(Ids) /\ list # <<>> /\ SoundCall(c, calls[c])
    BY <1>1, <1>2, <1>3, <1>4, HandOwned, CallTypes, WorkingCall, ListInHand
<1>6. /\ docker' = [docker EXCEPT ![id] = Gone] \/ docker' = docker
      /\ status' = [status EXCEPT ![id] = "stopped"]
    BY <1>3, <1>4 DEF RemoveContainer
<1>7. \A other \in Ids : /\ docker'[other] = docker[other] \/ (other = id /\ ~Exists(id)')
                         /\ other # id => status'[other] = status[other]
    BY <1>1, <1>5, <1>6, CallTypes DEF Exists, Gone
<1> SUFFICES ASSUME NEW p \in quiet' PROVE QuietPlugin(p)'
    BY DEF QuietInv
<1>8. /\ p \in quiet /\ p \in Plugins /\ QuietPlugin(p)
      /\ p = q => docker' = [docker EXCEPT ![id] = Gone]
  <2>1. \/ docker' = [docker EXCEPT ![id] = Gone] /\ quiet' = quiet
        \/ quiet' = quiet \ {q}
    BY <1>2, <1>3, <1>4 DEF RemoveContainer, Fault
  <2> QED  BY <1>1, <2>1, TypesOf DEF QuietInv, StateTypes
<1>9. ASSUME p # q, instances'[p] = instances[p], config'[p] = config[p] PROVE SameWorld(p)
  <2>1. (Exists(id) => PluginOf(id) # p) /\ (Exists(id)' => PluginOf(id)' # p)
    BY <1>5, <1>7, <1>9 DEF Exists, PluginOf
  <2>2. \A other \in Ids : other # id => docker'[other] = docker[other]
                                         /\ status'[other] = status[other]
    BY <1>7
  <2> QED  BY <1>1, <1>5, <1>8, <1>9, <2>1, <2>2, OneChanges
<1>10. ASSUME p = q PROVE ContainersOf(p)' = ContainersOf(p) \ {id}
  <2>1. docker'[id] = Gone /\ \A other \in Ids : other # id => docker'[other] = docker[other]
    BY <1>1, <1>5, <1>8, <1>10, CallTypes
  <2> QED  BY <2>1 DEF ContainersOf, Exists, PluginOf, Gone
<1>11. ASSUME p = q, WorkAgrees(calls[c], p)
       PROVE  /\ Holds(p, list) /\ (calls[c].op # "shutdown" => p \notin timers')
              /\ calls[c].op \in {"restart", "update", "restartAll"} => config[p] # NoConfig
              /\ ContainersOf(p)' = ToSet(Tail(list)) /\ IsInjective(Tail(list))
  <2>1. /\ Holds(p, list) /\ (calls[c].op # "shutdown" => p \notin timers)
        /\ calls[c].op \in {"restart", "update", "restartAll"} => config[p] # NoConfig
    BY <1>1, <1>3, <1>11 DEF WorkAgrees
  <2>2. ContainersOf(p)' = ToSet(Tail(list)) /\ IsInjective(Tail(list))
    BY <1>4, <1>5, <1>10, <1>11, <2>1, ToSetTail DEF Holds
  <2> QED  BY <1>1, <2>1, <2>2
<1>12. CASE /\ Len(list) > 1 /\ calls' = [calls EXCEPT ![c].at = "stop", ![c].list = Tail(@)]
            /\ UNCHANGED <<instances, config, saveVars>>
  <2>1. PICK new : new = [calls[c] EXCEPT !.at = "stop", !.list = Tail(calls[c].list)]
    OBVIOUS
  <2>2. /\ Moves(c, new) /\ new.op = calls[c].op /\ new.plugin = q /\ new.at = "stop"
        /\ new.rest = calls[c].rest /\ new.list = Tail(list)
    BY <1>1, <1>2, <1>3, <1>5, <1>12, <2>1, RemoveOneMoves DEF CallType
  <2>3. ASSUME p = q, WorkAgrees(calls[c], p) PROVE CallAgrees(new, p)'
    <3>1. PICK ids : ids = Tail(list) /\ ids = new.list
      BY <2>2
    <3>2. Holds(p, ids)'
      BY <1>11, <2>3, <3>1 DEF Holds
    <3>3. Holds(p, new.list)'
      BY <3>1, <3>2
    <3> QED  BY <1>11, <1>12, <2>2, <2>3, <3>3, EndingAgrees DEF Ending
  <2>4. new.at # "idle" /\ new.at \in Working
    BY <2>2 DEF Working, Ending
  <2> QED  BY <1>1, <1>2, <1>8, <1>9, <1>12, <2>2, <2>3, <2>4, QuietWork
<1>13. CASE Len(list) = 1 /\ AllStopped(c)
  <2>1. Tail(list) = <<>>
    BY <1>5, <1>13, SeqParts
  <2>2. WorkAgrees(calls[c], p) /\ p = q => ContainersOf(p)' = {}
    BY <1>11, <2>1, EmptyList
  <2>3. ASSUME instances' = [instances EXCEPT ![q] = <<>>]
        PROVE  /\ p # q => instances'[p] = instances[p]
               /\ p = q => instances'[p] = <<>>
    BY <1>1, <1>5, <1>8, <2>3, CallTypes
  <2>4. ASSUME instances' = [instances EXCEPT ![q] = <<>>], calls[c].op # "shutdown",
               p = q, WorkAgrees(calls[c], p)
        PROVE  Absent(p)'
    <3>1. instances'[p] = <<>> /\ p \notin timers' /\ ContainersOf(p)' = {}
      BY <1>11, <2>2, <2>3, <2>4
    <3> QED  BY <3>1 DEF Absent, NoInstances
  <2>5. CASE /\ calls[c].op \in {"restart", "update", "restartAll"}
             /\ instances' = [instances EXCEPT ![q] = <<>>] /\ UNCHANGED config
             /\ Moves(c, [calls[c] EXCEPT !.at = "list", !.list = <<>>])
    <3>1. PICK new : new = [calls[c] EXCEPT !.at = "list", !.list = <<>>]
      OBVIOUS
    <3>2. /\ new.op = calls[c].op /\ new.plugin = q /\ new.at = "list"
          /\ new.rest = calls[c].rest /\ new.list = <<>>
      BY <1>2, <1>5, <3>1 DEF CallType
    <3>3. ASSUME p = q, WorkAgrees(calls[c], p) PROVE CallAgrees(new, p)'
      <4>1. Absent(p)' /\ config'[p] # NoConfig
        BY <1>11, <2>4, <2>5, <3>3
      <4>2. Spawned(p, <<>>, {})'
        BY <4>1, AbsentSpawns
      <4>3. Spawned(p, new.list, {})'
        BY <3>2, <4>2
      <4> QED  BY <3>2, <3>3, <4>3, SpawningAgrees DEF Spawning
    <3>4. new.at # "idle" /\ new.at \in Working
      BY <3>2 DEF Working, Spawning
    <3> QED  BY <1>1, <1>2, <1>8, <1>9, <2>3, <2>5, <3>1, <3>2, <3>3, <3>4, QuietWork
  <2>6. CASE /\ calls[c].op = "remove"
             /\ instances' = [instances EXCEPT ![q] = <<>>]
             /\ SavingCall(c, "remove", q, [config EXCEPT ![q] = NoConfig])
             /\ Moves(c, SaveCall("remove", q, [config EXCEPT ![q] = NoConfig]))
    <3>1. PICK cfg : cfg = [config EXCEPT ![q] = NoConfig]
      OBVIOUS
    <3>2. PICK new : new = SaveCall("remove", q, cfg)
      OBVIOUS
    <3>3. new.op = calls[c].op /\ new.plugin = q /\ new.at = "save" /\ new.op \notin Whole
      BY <2>6, <3>2, SaveHand DEF Whole
    <3>4. /\ p # q => config'[p] = config[p]
          /\ p = q => config'[p] = NoConfig
      BY <1>1, <1>5, <1>8, <2>6, CallTypes DEF SavingCall, ConfigType
    <3>5. ASSUME p = q, WorkAgrees(calls[c], p) PROVE CallAgrees(new, p)'
      <4>1. Absent(p)'
        BY <2>4, <2>6, <3>5
      <4>2. "remove" # "add" /\ "remove" # "update"
        OBVIOUS
      <4> QED  BY <3>2, <3>4, <3>5, <4>1, <4>2, SaveAgrees
    <3>6. new.at # "idle" /\ new.at \in Working
      BY <3>3 DEF Working
    <3> QED  BY <1>1, <1>2, <1>8, <1>9, <2>3, <2>6, <3>1, <3>2, <3>3, <3>4, <3>5, <3>6,
                QuietWork
  <2>7. CASE /\ calls[c].op = "remove" /\ config[q] = NoConfig
             /\ instances' = [instances EXCEPT ![q] = <<>>] /\ UNCHANGED config
             /\ Moves(c, IdleCall)
    <3>1. ASSUME p = q, WorkAgrees(calls[c], p) PROVE Agrees(p)'
      <4>1. Absent(p)' /\ config'[p] = NoConfig
        BY <2>4, <2>7, <3>1
      <4> QED  BY <4>1, AbsentAgrees
    <3>2. calls[c].op \notin Whole
      BY <2>7 DEF Whole
    <3> QED  BY <1>1, <1>2, <1>8, <1>9, <2>3, <2>7, <3>1, <3>2, IdleHand, QuietWork
  <2>8. CASE /\ calls[c].op = "shutdown" /\ UNCHANGED <<instances, config>>
             /\ Moves(c, [calls[c] EXCEPT !.at = "next", !.list = <<>>])
    <3>1. PICK new : new = [calls[c] EXCEPT !.at = "next", !.list = <<>>]
      OBVIOUS
    <3>2. /\ new.op = calls[c].op /\ new.plugin = q /\ new.at = "next"
          /\ new.rest = calls[c].rest
      BY <1>2, <1>5, <3>1 DEF CallType
    <3>3. q \in calls[c].rest
      BY <1>1, <1>2, <1>5, <2>8 DEF SoundCall
    <3>4. ASSUME p = q, WorkAgrees(calls[c], p) PROVE CallAgrees(new, p)'
      <4>1. RestAgrees(new, p)'
        BY <2>2, <2>8, <3>2, <3>3, <3>4 DEF RestAgrees
      <4> QED  BY <3>2, <4>1 DEF CallAgrees, Working, Spawning, Waiting, Ending
    <3>5. new.at # "idle"
      BY <3>2
    <3> QED  BY <1>1, <1>2, <1>8, <1>9, <2>8, <3>1, <3>2, <3>4, <3>5, QuietWork
  <2> QED  BY <1>1, <1>2, <1>13, <2>5, <2>6, <2>7, <2>8, AllStoppedMoves
<1> QED  BY <1>3, <1>12, <1>13 DEF RemoveContainer


LEMMA SpawnsQuiet ==
    ASSUME ConfigInv, OwnersInv, QuietInv, NEW c \in Callers,
           Look(c) \/ ClearExisting(c) \/ Create(c) \/ StartContainer(c) \/ DockerFails(c)
    PROVE  QuietInv'
<1>1. /\ CallsInv /\ calls[c].at \in Spawning /\ calls[c].at \in Working
      /\ UNCHANGED <<config, phase>>
    BY DEF ConfigInv, Look, ClearExisting, Create, StartContainer, DockerFails, SpawnRefused,
           SpawnFails, Spawning, Working
<1>2. PICK q : q = calls[c].plugin
    OBVIOUS
<1>3. PICK list : list = calls[c].list
    OBVIOUS
<1>4. PICK id : id = calls[c].target
    OBVIOUS
<1>5. /\ q \in Plugins /\ calls[c] \in CallType /\ list \in Seq(Ids) /\ Len(list) \in Nat
      /\ calls[c].op \notin {"shutdown", "remove"} /\ NextSlot(c) = <<q, Len(list)>>
  <2>1. /\ calls[c].op \notin {"shutdown", "remove"} /\ calls[c].plugin \in Plugins
        /\ calls[c].list \in Seq(Ids)
    BY <1>1, SpawningCall
  <2>2. calls[c] \in CallType
    BY <1>1, CallTypes
  <2>3. Len(list) \in Nat
    BY <1>3, <2>1, LenProperties
  <2>4. NextSlot(c) = <<q, Len(list)>>
    BY <1>2, <1>3 DEF NextSlot
  <2> QED  BY <1>2, <1>3, <2>1, <2>2, <2>3, <2>4
<1> SUFFICES ASSUME NEW p \in quiet' PROVE QuietPlugin(p)'
    BY DEF QuietInv
<1>6. p \in quiet /\ p \in Plugins /\ QuietPlugin(p)
    BY <1>1, TypesOf DEF Look, ClearExisting, Create, StartContainer, DockerFails, Fault,
                         SpawnRefused, QuietInv, StateTypes
<1>7. CASE /\ quiet' = quiet \ {q} /\ AfterPlugin(c)
           /\ UNCHANGED <<docker, status, instances, timers>>
  \* The call goes on with other plugins, and this one is quiet no longer.
  <2>1. Moves(c, Unspawned(c)) /\ p # q
    BY <1>1, <1>7, SpawnFailsMoves
  <2>2. SameWorld(p)
    BY <1>1, <1>6, <1>7, NoneChanges
  <2>3. PICK new : new = Unspawned(c)
    OBVIOUS
  <2>4. CASE calls[c].op \in {"start", "restartAll"}
    <3>1. /\ new.op = calls[c].op /\ new.plugin = calls[c].plugin /\ new.rest = calls[c].rest
          /\ new.at = "next"
      BY <1>1, <2>3, <2>4, UnspawnedHand
    <3> QED  BY <1>1, <1>2, <1>6, <2>1, <2>2, <2>3, <3>1, QuietWork
  <2>5. CASE calls[c].op \notin {"start", "restartAll"}
    <3>1. new = IdleCall /\ calls[c].op \notin Whole
      BY <1>1, <1>5, <2>3, <2>5, UnspawnedHand DEF Whole
    <3> QED  BY <1>1, <1>2, <1>6, <2>1, <2>2, <2>3, <3>1, QuietWork
  <2> QED  BY <2>4, <2>5
\* The call goes on with this plugin.
<1>8. ASSUME NEW new, Moves(c, new), p # q => SameWorld(p), new.op = calls[c].op,
             new.plugin = q, new.rest = calls[c].rest, new.at \in Spawning \cup Waiting,
             p = q /\ WorkAgrees(calls[c], p) => CallAgrees(new, p)'
      PROVE  QuietPlugin(p)'
  <2>1. new.at # "idle" /\ new.at \in Working
    BY <1>8 DEF Working, Spawning, Waiting
  <2> QED  BY <1>1, <1>2, <1>6, <1>8, <2>1, QuietWork
<1>9. CASE Look(c)
  <2>1. SameWorld(p)
    BY <1>6, <1>9, NoneChanges DEF Look, managerVars
  <2>2. calls[c].at = "list"
    BY <1>9 DEF Look
  <2>3. ASSUME p = q, WorkAgrees(calls[c], p)
        PROVE  Spawned(p, list, {}) /\ Spawned(p, list, {})'
    <3>1. Spawned(p, list, {})
      BY <1>3, <2>2, <2>3 DEF WorkAgrees, Spawning
    <3> QED  BY <2>1, <3>1, SpawnedStays
  <2>4. CASE Moves(c, [calls[c] EXCEPT !.at = "create"])
    <3>1. PICK new : new = [calls[c] EXCEPT !.at = "create"]
      OBVIOUS
    <3>2. /\ Moves(c, new) /\ new.op = calls[c].op /\ new.plugin = q /\ new.at = "create"
          /\ new.rest = calls[c].rest /\ new.list = list
      BY <1>2, <1>3, <1>5, <2>4, <3>1 DEF CallType
    <3>3. ASSUME p = q, WorkAgrees(calls[c], p) PROVE CallAgrees(new, p)'
      <4>1. Spawned(p, new.list, {})'
        BY <2>3, <3>2, <3>3
      <4> QED  BY <3>2, <3>3, <4>1, SpawningAgrees DEF Spawning
    <3> QED  BY <1>8, <2>1, <3>2, <3>3 DEF Spawning
  <2>5. ASSUME NEW found \in Found(c),
               Moves(c, [calls[c] EXCEPT !.at = "clear", !.target = found])
        PROVE  QuietPlugin(p)'
    <3>1. PICK new : new = [calls[c] EXCEPT !.at = "clear", !.target = found]
      OBVIOUS
    <3>2. /\ Moves(c, new) /\ new.op = calls[c].op /\ new.plugin = q /\ new.at = "clear"
          /\ new.rest = calls[c].rest /\ new.list = list /\ new.target = found
      BY <1>2, <1>3, <1>5, <2>5, <3>1 DEF CallType
    \* The container found by its name has a higher number than those spawned so far.
    <3>3. ASSUME p = q, WorkAgrees(calls[c], p) PROVE found \notin ContainersOf(p)
      <4> SUFFICES ASSUME found \in ContainersOf(p) PROVE FALSE
          OBVIOUS
      <4>1. docker[found].slot[1] = p /\ docker[found].slot[2] < Len(list)
        BY <2>3, <3>3 DEF Spawned, ContainersOf, PluginOf
      <4>2. <<<<q, Len(list)>>, docker[found].slot>> \in NameHolds /\ Exists(found)
        BY <1>5 DEF Found
      <4>3. Len(list) <= docker[found].slot[2]
        <5>1. PICK pair : pair = <<<<q, Len(list)>>, docker[found].slot>>
          OBVIOUS
        <5>2. pair[1][1] = q /\ pair[1][2] = Len(list) /\ pair[2] = docker[found].slot
          BY <5>1
        <5> QED  BY <3>3, <4>1, <4>2, <5>1, <5>2, ContainerAssumption
      <4>4. docker[found].slot \in Slots
        <5>1. docker[found] \in ContainerType
          BY <1>1, CallTypes DEF Found
        <5> QED  BY <4>2, <5>1 DEF ContainerType, Exists, Gone
      <4>5. docker[found].slot[2] \in Nat
        BY <4>4, ContainerAssumption DEF Slots
      <4> QED  BY <1>5, <4>1, <4>3, <4>5
    <3>4. ASSUME p = q, WorkAgrees(calls[c], p) PROVE CallAgrees(new, p)'
      <4>1. Spawned(p, new.list, {})'
        BY <2>3, <3>2, <3>4
      <4>2. new.target \notin ContainersOf(p)'
        BY <2>1, <3>2, <3>3, <3>4, AbsentStays
      <4> QED  BY <3>2, <3>4, <4>1, <4>2, SpawningAgrees DEF Spawning
    <3> QED  BY <1>8, <2>1, <3>2, <3>4 DEF Spawning
  <2> QED  BY <1>1, <1>9, <2>4, <2>5, LookMoves
<1>10. CASE ClearExisting(c) /\ Exists(id)
  <2>1. /\ id \in Ids /\ calls[c].at = "clear" /\ docker' = [docker EXCEPT ![id] = Gone]
        /\ quiet' = quiet \ ({PluginOf(id)} \ {q})
        /\ UNCHANGED <<status, instances, timers>>
        /\ Moves(c, [calls[c] EXCEPT !.at = "create", !.target = NoId])
    BY <1>1, <1>2, <1>4, <1>10, TargetInHand, ClearExistingMoves DEF ClearExisting, managerVars
  <2>2. ASSUME p # q \/ WorkAgrees(calls[c], p) PROVE PluginOf(id) # p
    <3>1. CASE p # q
      BY <2>1, <3>1
    <3>2. CASE WorkAgrees(calls[c], p)
      BY <1>4, <1>10, <2>1, <3>2 DEF WorkAgrees, ContainersOf
    <3> QED  BY <2>2, <3>1, <3>2
  <2>3. ASSUME PluginOf(id) # p PROVE SameWorld(p)
    <3>1. ~Exists(id)' /\ \A other \in Ids : other # id => docker'[other] = docker[other]
      BY <1>1, <2>1, CallTypes DEF Exists, Gone
    <3> QED  BY <1>1, <1>6, <2>1, <2>3, <3>1, OneChanges
  <2>4. PICK new : new = [calls[c] EXCEPT !.at = "create", !.target = NoId]
    OBVIOUS
  <2>5. /\ Moves(c, new) /\ new.op = calls[c].op /\ new.plugin = q /\ new.at = "create"
        /\ new.rest = calls[c].rest /\ new.list = list
    BY <1>2, <1>3, <1>5, <2>1, <2>4 DEF CallType
  <2>6. ASSUME p = q, WorkAgrees(calls[c], p) PROVE CallAgrees(new, p)'
    <3>1. Spawned(p, list, {})
      BY <1>3, <2>1, <2>6 DEF WorkAgrees, Spawning
    <3>2. Spawned(p, list, {})'
      BY <2>2, <2>3, <2>6, <3>1, SpawnedStays
    <3>3. Spawned(p, new.list, {})'
      BY <2>5, <3>2
    <3> QED  BY <2>5, <2>6, <3>3, SpawningAgrees DEF Spawning
  <2> QED  BY <1>8, <2>2, <2>3, <2>5, <2>6 DEF Spawning
<1>11. ASSUME calls[c].at = "create", NEW made \in Ids, ~Known(made),
              docker' = [docker EXCEPT ![made] = [slot |-> NextSlot(c), state |-> "created"]],
              calls' = [calls EXCEPT ![c].at = "run", ![c].target = made],
              UNCHANGED <<status, instances, timers>>
       PROVE  QuietPlugin(p)'
  <2>1. PICK new : new = [calls[c] EXCEPT !.at = "run", !.target = made]
    OBVIOUS
  <2>2. /\ Moves(c, new) /\ new.op = calls[c].op /\ new.plugin = q /\ new.at = "run"
        /\ new.rest = calls[c].rest /\ new.list = list /\ new.target = made
    BY <1>1, <1>2, <1>3, <1>5, <1>11, <2>1, CreateMoves DEF CallType
  <2>3. ~Exists(made) /\ made \notin ToSet(list)
    BY <1>3, <1>11 DEF Known
  <2>4. /\ docker'[made].slot = <<q, Len(list)>> /\ docker'[made].state = "created"
        /\ \A other \in Ids : other # made => docker'[other] = docker[other]
    BY <1>1, <1>5, <1>11, CallTypes
  <2>5. ASSUME p # q PROVE SameWorld(p)
    <3>1. PluginOf(made)' # p
      BY <2>4, <2>5 DEF PluginOf
    <3> QED  BY <1>1, <1>6, <1>11, <2>3, <2>4, <3>1, OneChanges
  <2>6. ASSUME p = q, WorkAgrees(calls[c], p) PROVE CallAgrees(new, p)'
    <3>1. Spawned(p, list, {})
      BY <1>3, <1>11, <2>6 DEF WorkAgrees, Spawning
    <3>2. ContainersOf(p)' = ContainersOf(p) \cup {made}
      BY <2>3, <2>4, <2>6 DEF ContainersOf, Exists, PluginOf
    <3>3. \A i \in ToSet(list) : i # made /\ i \in Ids
      BY <2>3, <3>1 DEF Spawned, ContainersOf
    <3>4. \A i \in ToSet(list) : Lives(i)' /\ docker'[i].slot[2] < Len(list)
      BY <1>11, <2>4, <3>1, <3>3 DEF Spawned, Lives
    <3>5. Spawned(p, list, {made})'
      BY <1>1, <1>11, <3>1, <3>2, <3>4 DEF Spawned, NoInstances
    <3>6. Spawned(p, new.list, {new.target})'
      BY <2>2, <3>5
    <3>7. docker'[new.target].slot[2] = Len(new.list)
      BY <2>2, <2>4
    <3> QED  BY <2>2, <2>3, <2>6, <3>6, <3>7, RunningAgrees
  <2> QED  BY <1>8, <2>2, <2>5, <2>6 DEF Spawning
<1>12. CASE StartContainer(c) /\ Exists(id)
  <2>1. /\ id \in Ids /\ calls[c].at = "run" /\ PluginOf(id) = q
        /\ docker' = [docker EXCEPT ![id].state = "up"]
        /\ status' = [status EXCEPT ![id] = "live"]
    BY <1>1, <1>2, <1>4, <1>12, TargetInHand, OwnersOf DEF StartContainer, OwnsHand
  <2>2. /\ docker'[id].slot = docker[id].slot /\ docker'[id].state = "up"
        /\ status'[id] = "live"
        /\ \A other \in Ids : other # id => /\ docker'[other] = docker[other]
                                            /\ status'[other] = status[other]
    <3>1. docker \in [Ids -> ContainerType] /\ docker[id] \in ContainerType
      BY <1>1, <2>1, CallTypes
    <3>2. status \in [Ids -> {"live", "stopped"}]
      BY <1>1, CallTypes
    <3> QED  BY <2>1, <3>1, <3>2 DEF ContainerType, Gone
  <2>3. PICK ids : ids = Append(list, id)
    OBVIOUS
  <2>4. ids \in Seq(Ids) /\ ids # <<>> /\ Len(ids) = Len(list) + 1
    BY <1>1, <1>3, <1>4, <1>12, <2>1, <2>3, SpawnedOne
  <2>5. ASSUME p # q, instances'[p] = instances[p], p \in timers' <=> p \in timers
        PROVE  SameWorld(p)
    <3>1. PluginOf(id) # p /\ PluginOf(id)' # p
      BY <2>1, <2>2, <2>5 DEF PluginOf
    <3> QED  BY <1>1, <1>6, <2>1, <2>2, <2>5, <3>1, OneChanges
  <2>6. ASSUME p = q, WorkAgrees(calls[c], p)
        PROVE  /\ NoInstances(p) /\ config'[p] # NoConfig /\ IsInjective(ids)
               /\ ContainersOf(p)' = ToSet(ids)
               /\ \A i \in ToSet(ids) : Lives(i)' /\ docker'[i].slot[2] < Len(ids)
    <3>1. /\ Spawned(p, list, {id}) /\ id \notin ToSet(list)
          /\ docker[id].slot[2] = Len(list)
      BY <1>3, <1>4, <2>1, <2>6 DEF WorkAgrees
    <3>2. ToSet(ids) = ToSet(list) \cup {id} /\ IsInjective(ids)
      BY <1>5, <2>1, <2>3, <3>1, ToSetAppend DEF Spawned
    <3>3. ContainersOf(p)' = ContainersOf(p)
      <4>1. Exists(id)' /\ PluginOf(id)' = PluginOf(id)
        BY <2>2 DEF Exists, PluginOf
      <4>2. \A other \in Ids : /\ Exists(other)' <=> Exists(other)
                               /\ PluginOf(other)' = PluginOf(other)
        BY <1>12, <2>2, <4>1 DEF Exists, PluginOf
      <4> QED  BY <4>2 DEF ContainersOf
    <3>4. ASSUME NEW i \in ToSet(ids) PROVE Lives(i)' /\ docker'[i].slot[2] < Len(ids)
      <4>1. CASE i = id
        BY <1>5, <2>2, <2>4, <3>1, <4>1 DEF Lives
      <4>2. CASE i # id
        <5>1. i \in ToSet(list) /\ i \in Ids
          BY <3>1, <3>2, <4>2 DEF Spawned, ContainersOf
        <5>2. Lives(i) /\ docker[i].slot[2] < Len(list) /\ docker'[i] = docker[i]
              /\ status'[i] = status[i]
          BY <2>2, <3>1, <4>2, <5>1 DEF Spawned
        <5>3. docker[i].slot[2] \in Nat
          <6>1. docker[i] \in ContainerType /\ docker[i].state = "up"
            BY <1>1, <5>1, <5>2, CallTypes DEF Lives
          <6>2. docker[i].slot \in Slots
            BY <6>1 DEF ContainerType, Gone
          <6> QED  BY <6>2, ContainerAssumption DEF Slots
        <5> QED  BY <1>5, <2>4, <5>2, <5>3 DEF Lives
      <4> QED  BY <4>1, <4>2
    <3> QED  BY <1>1, <3>1, <3>2, <3>3, <3>4 DEF Spawned
  <2>7. CASE /\ SetInstances(c, ids)
             /\ Moves(c, [calls[c] EXCEPT !.at = "wait", !.list = <<>>, !.target = NoId])
    <3>1. PICK new : new = [calls[c] EXCEPT !.at = "wait", !.list = <<>>, !.target = NoId]
      OBVIOUS
    <3>2. /\ Moves(c, new) /\ new.op = calls[c].op /\ new.plugin = q /\ new.at = "wait"
          /\ new.rest = calls[c].rest
      BY <1>2, <1>5, <2>7, <3>1 DEF CallType
    <3>3. instances' = [instances EXCEPT ![q] = ids] /\ timers' = timers \cup {q}
      BY <1>2, <2>7 DEF SetInstances
    <3>4. /\ p # q => instances'[p] = instances[p] /\ (p \in timers' <=> p \in timers)
          /\ p = q => instances'[p] = ids /\ p \in timers'
      BY <1>1, <1>5, <1>6, <3>3, CallTypes
    <3>5. ASSUME p = q, WorkAgrees(calls[c], p) PROVE CallAgrees(new, p)'
      <4>1. Holds(p, ids)' /\ \A i \in ContainersOf(p)' : Lives(i)'
        BY <2>6, <3>5 DEF Holds
      <4>2. Holds(p, instances[p])'
        BY <3>4, <3>5, <4>1 DEF Holds
      <4>3. Agrees(p)'
        BY <2>4, <2>6, <3>4, <3>5, <4>1, <4>2 DEF Agrees
      <4> QED  BY <3>2, <3>5, <4>3, WaitingAgrees DEF Waiting
    <3> QED  BY <1>8, <2>5, <3>2, <3>4, <3>5 DEF Waiting
  <2>8. CASE /\ UNCHANGED <<instances, timers>>
             /\ Moves(c, [calls[c] EXCEPT !.at = "list", !.list = ids, !.target = NoId])
    <3>1. PICK new : new = [calls[c] EXCEPT !.at = "list", !.list = ids, !.target = NoId]
      OBVIOUS
    <3>2. /\ Moves(c, new) /\ new.op = calls[c].op /\ new.plugin = q /\ new.at = "list"
          /\ new.rest = calls[c].rest /\ new.list = ids
      BY <1>2, <1>5, <2>8, <3>1 DEF CallType
    <3>3. ASSUME p = q, WorkAgrees(calls[c], p) PROVE CallAgrees(new, p)'
      <4>1. Spawned(p, ids, {})'
        BY <2>6, <2>8, <3>3 DEF Spawned, NoInstances
      <4>2. Spawned(p, new.list, {})'
        BY <3>2, <4>1
      <4> QED  BY <3>2, <3>3, <4>2, SpawningAgrees DEF Spawning
    <3> QED  BY <1>8, <2>5, <2>8, <3>2, <3>3 DEF Spawning
  <2> QED  BY <1>1, <1>3, <1>4, <1>12, <2>1, <2>3, <2>7, <2>8, StartContainerMoves
<1>13. CASE SpawnRefused(c) \/ DockerFails(c)
    BY <1>2, <1>7, <1>13 DEF SpawnRefused, DockerFails, Fault, SpawnFails, managerVars
<1>14. CASE Create(c) /\ ~SpawnRefused(c)
    BY <1>11, <1>14 DEF Create, managerVars
<1> QED  BY <1>4, <1>9, <1>10, <1>12, <1>13, <1>14 DEF ClearExisting, StartContainer


LEMMA WaitsQuiet ==
    ASSUME ConfigInv, QuietInv, NEW c \in Callers,
           WaitAsks(c) \/ WaitAnswered(c) \/ WaitOver(c)
    PROVE  QuietInv'
<1>1. /\ CallsInv /\ calls[c].at \in Waiting /\ calls[c].at \in Working
      /\ UNCHANGED <<docker, instances, timers, config, phase, quiet>>
    BY DEF ConfigInv, WaitAsks, WaitAnswered, WaitOver, managerVars, Waiting, Working
<1>2. \A id \in Ids : status[id] = "live" => status'[id] = "live"
    BY <1>1, CallTypes DEF WaitAsks, WaitAnswered, WaitOver, managerVars
<1>3. PICK q : q = calls[c].plugin
    OBVIOUS
<1>4. /\ q \in Plugins /\ calls[c] \in CallType /\ SoundCall(c, calls[c])
      /\ calls[c].op # "shutdown"
  <2>1. q \in Plugins /\ calls[c] \in CallType /\ SoundCall(c, calls[c])
    BY <1>1, <1>3, WorkingCall, CallTypes
  <2>2. calls[c].at \in StagesOf(calls[c].op)
    BY <1>1, WorkingCall
  <2>3. calls[c].op # "shutdown"
    BY <1>1, <2>2 DEF StagesOf, Waiting, Ending
  <2> QED  BY <2>1, <2>3
<1> SUFFICES ASSUME NEW p \in quiet' PROVE QuietPlugin(p)'
    BY DEF QuietInv
<1>5. p \in Plugins /\ QuietPlugin(p)
    BY <1>1, TypesOf DEF QuietInv, StateTypes
<1>6. SameWorld(p)
    BY <1>1, <1>2, <1>5, NoneChanges
<1>7. ASSUME WorkAgrees(calls[c], p) PROVE Agrees(p)'
  <2>1. Agrees(p)
    BY <1>1, <1>7 DEF WorkAgrees
  <2> QED  BY <1>6, <2>1, AgreesStays
<1>8. CASE WaitAsks(c)
  <2>1. PICK id \in ToSet(instances[q]) :
            calls' = [calls EXCEPT ![c].at = "answered", ![c].target = id]
    BY <1>3, <1>8 DEF WaitAsks
  <2>2. id \in Ids /\ calls[c].at = "wait"
    BY <1>1, <1>4, <1>8, <2>1, KnownLists DEF WaitAsks
  <2>3. PICK new : new = [calls[c] EXCEPT !.at = "answered", !.target = id]
    OBVIOUS
  <2>4. /\ Moves(c, new) /\ new.op = calls[c].op /\ new.plugin = q /\ new.at = "answered"
        /\ new.rest = calls[c].rest
    BY <1>1, <1>3, <1>4, <2>1, <2>2, <2>3, WaitAsksMoves DEF CallType
  <2>5. new.at # "idle" /\ new.at \in Working /\ new.at \in Waiting
    BY <2>4 DEF Working, Waiting
  <2>6. ASSUME p = q, WorkAgrees(calls[c], p) PROVE CallAgrees(new, p)'
    BY <1>7, <2>4, <2>5, <2>6, WaitingAgrees
  <2> QED  BY <1>1, <1>3, <1>5, <1>6, <2>4, <2>5, <2>6, QuietWork
<1>9. CASE WaitAnswered(c) \/ WaitOver(c)
  <2>1. Moves(c, Unspawned(c))
    BY <1>1, <1>9, SpawnFailsMoves DEF WaitAnswered, WaitOver
  <2>2. PICK new : new = Unspawned(c)
    OBVIOUS
  <2>3. CASE calls[c].op \in {"start", "restartAll"}
    <3>1. /\ new.op = calls[c].op /\ new.plugin = calls[c].plugin /\ new.rest = calls[c].rest
          /\ new.at = "next"
      BY <1>1, <2>2, <2>3, UnspawnedHand
    <3>2. q \notin calls[c].rest
      BY <1>1, <1>3, <1>4, <2>3 DEF SoundCall
    <3>3. ASSUME p = q, WorkAgrees(calls[c], p) PROVE CallAgrees(new, p)'
      <4>1. RestAgrees(new, p)'
        BY <1>4, <1>7, <3>1, <3>2, <3>3 DEF RestAgrees
      <4> QED  BY <3>1, <4>1 DEF CallAgrees, Working, Spawning, Waiting, Ending
    <3>4. new.at # "idle"
      BY <3>1
    <3> QED  BY <1>1, <1>3, <1>5, <1>6, <2>1, <2>2, <3>1, <3>3, <3>4, QuietWork
  <2>4. CASE calls[c].op \notin {"start", "restartAll"}
    <3>1. new = IdleCall /\ calls[c].op \notin Whole
      BY <1>1, <1>4, <2>2, <2>4, UnspawnedHand DEF Whole
    <3> QED  BY <1>1, <1>3, <1>5, <1>6, <1>7, <2>1, <2>2, <3>1, IdleHand, QuietWork
  <2> QED  BY <2>3, <2>4
<1> QED  BY <1>8, <1>9

LEMMA HealthQuiet ==
    ASSUME ConfigInv, QuietInv, HealthWritten \/ \E p \in Plugins : HealthAsked(p)
    PROVE  QuietInv'
<1> SUFFICES ASSUME NEW p \in quiet' PROVE QuietPlugin(p)'
    BY DEF QuietInv
<1>1. UNCHANGED <<docker, instances, timers, config, calls, phase, quiet>>
    BY DEF HealthWritten, HealthAsked, managerVars
<1>2. \A id \in Ids : status[id] = "live" => status'[id] = "live"
    BY DEF HealthWritten, HealthAsked, managerVars
<1>3. p \in Plugins /\ QuietPlugin(p)
    BY <1>1, TypesOf DEF ConfigInv, QuietInv, StateTypes
<1>4. SameWorld(p)
    BY <1>1, <1>2, <1>3, NoneChanges
<1> QED  BY <1>1, <1>3, <1>4, QuietSame


LEMMA CleansQuiet ==
    ASSUME ConfigInv, QuietInv, NEW c \in Callers, CleanUp(c)
    PROVE  QuietInv'
<1>1. /\ CallsInv /\ calls[c].at = "clean" /\ calls[c].op = "start" /\ Busy(c)
      /\ UNCHANGED <<status, instances, timers, config, phase>>
    BY CleanUpMoves DEF ConfigInv, CleanUp, managerVars, Busy
<1>2. phase' \in {"starting", "ready"}
    BY <1>1, BusyUp
<1>3. PICK list : list = calls[c].list
    OBVIOUS
<1>4. PICK id : id = Head(list)
    OBVIOUS
<1>5. calls[c] \in CallType /\ list \in Seq(Ids) /\ list # <<>> /\ id \in Ids
    BY <1>1, <1>3, <1>4, CallTypes, ListInHand, HeadInHand
<1> SUFFICES ASSUME NEW p \in quiet' PROVE QuietPlugin(p)'
    BY DEF QuietInv
<1>6. /\ p \in quiet /\ docker' \in {docker, [docker EXCEPT ![id] = Gone]}
      /\ docker' = [docker EXCEPT ![id] = Gone] \/ p # PluginOf(id)
    BY <1>3, <1>4 DEF CleanUp
<1>7. p \in Plugins /\ QuietPlugin(p)
    BY <1>1, <1>6, TypesOf DEF QuietInv, StateTypes
<1>8. About(calls[c], p)
    BY <1>1 DEF About, Whole
<1>9. /\ NoInstances(p) /\ ContainersOf(p) \subseteq ToSet(list)
      /\ (p \in calls[c].rest) = (config[p] # NoConfig)
  <2>1. CallAgrees(calls[c], p)
    BY <1>7, <1>8, QuietParts
  <2>2. RestAgrees(calls[c], p)
    BY <1>1, <2>1 DEF CallAgrees, Working, Spawning, Waiting, Ending
  <2> QED  BY <1>1, <1>3, <2>2 DEF RestAgrees
<1>10. ContainersOf(p)' \subseteq ToSet(Tail(list))
  <2>1. \A other \in Ids : /\ Exists(other)' => docker'[other] = docker[other]
                           /\ Exists(other)' /\ other = id => PluginOf(id) # p
    BY <1>1, <1>5, <1>6, CallTypes DEF Exists, Gone
  <2>2. \A other \in ContainersOf(p)' : other \in ContainersOf(p) /\ other # id
    BY <2>1 DEF ContainersOf, Exists, PluginOf
  <2> QED  BY <1>4, <1>5, <1>9, <2>2, ToSetTail
<1>11. NoInstances(p)' /\ config'[p] = config[p]
    BY <1>1, <1>9 DEF NoInstances
<1>12. CASE Len(list) = 1 /\ Moves(c, [calls[c] EXCEPT !.list = <<>>, !.at = "next"])
  <2>1. PICK new : new = [calls[c] EXCEPT !.list = <<>>, !.at = "next"]
    OBVIOUS
  <2>2. Moves(c, new) /\ new.op = "start" /\ new.at = "next" /\ new.rest = calls[c].rest
    BY <1>1, <1>5, <1>12, <2>1 DEF CallType
  <2>3. Absent(p)'
    <3>1. ContainersOf(p)' = {}
      BY <1>5, <1>10, <1>12, SeqParts, EmptyList
    <3> QED  BY <1>11, <3>1 DEF Absent
  <2>4. IF p \in new.rest THEN Absent(p)' /\ config'[p] # NoConfig ELSE Agrees(p)'
    BY <1>9, <1>11, <2>2, <2>3, AbsentAgrees
  <2>5. RestAgrees(new, p)'
    BY <2>2, <2>4 DEF RestAgrees
  <2>6. CallAgrees(new, p)'
    BY <2>2, <2>5 DEF CallAgrees, Working, Spawning, Waiting, Ending
  <2>7. About(new, p)
    BY <2>2 DEF About, Whole
  <2> QED  BY <1>1, <1>2, <1>7, <1>8, <2>2, <2>6, <2>7, QuietStep
<1>13. CASE Moves(c, [calls[c] EXCEPT !.list = Tail(calls[c].list)])
  <2>1. PICK new : new = [calls[c] EXCEPT !.list = Tail(calls[c].list)]
    OBVIOUS
  <2>2. /\ Moves(c, new) /\ new.op = "start" /\ new.at = "clean" /\ new.rest = calls[c].rest
        /\ new.list = Tail(list)
    BY <1>1, <1>3, <1>5, <1>13, <2>1 DEF CallType
  <2>3. RestAgrees(new, p)'
    BY <1>9, <1>10, <1>11, <2>2 DEF RestAgrees
  <2>4. CallAgrees(new, p)'
    BY <2>2, <2>3 DEF CallAgrees, Working, Spawning, Waiting, Ending
  <2>5. About(new, p)
    BY <2>2 DEF About, Whole
  <2> QED  BY <1>1, <1>2, <1>7, <1>8, <2>2, <2>4, <2>5, QuietStep
<1> QED  BY <1>1, <1>3, <1>12, <1>13, CleanUpMoves

LEMMA LoopsQuiet ==
    ASSUME ConfigInv, QuietInv, NEW c \in Callers, NextPlugin(c)
    PROVE  QuietInv'
<1>1. /\ CallsInv /\ calls[c].at = "next" /\ calls[c].op \in {"start", "restartAll"}
      /\ Busy(c) /\ UNCHANGED <<docker, status, instances, config, quiet>>
    BY NextPluginMoves DEF ConfigInv, NextPlugin
<1>2. phase \in {"starting", "ready"}
    BY <1>1, BusyUp
<1>3. calls[c] \in CallType /\ calls[c].list = <<>> /\ calls[c].rest \subseteq Plugins
  <2>1. calls[c] \in CallType /\ SoundCall(c, calls[c])
    BY CallTypes, <1>1
  <2> QED  BY <1>1, <2>1 DEF SoundCall, CallType
<1> SUFFICES ASSUME NEW p \in quiet' PROVE QuietPlugin(p)'
    BY DEF QuietInv
<1>4. p \in Plugins /\ QuietPlugin(p)
    BY <1>1, TypesOf DEF QuietInv, StateTypes
<1>5. About(calls[c], p)
    BY <1>1 DEF About, Whole
<1>6. RestAgrees(calls[c], p)
  <2>1. CallAgrees(calls[c], p)
    BY <1>4, <1>5, QuietParts
  <2> QED  BY <1>1, <2>1 DEF CallAgrees, Working, Spawning, Waiting, Ending
<1>7. /\ calls[c].op = "restartAll" => Agrees(p)
      /\ calls[c].op = "start" =>
             IF p \in calls[c].rest THEN Absent(p) /\ config[p] # NoConfig ELSE Agrees(p)
    BY <1>1, <1>6 DEF RestAgrees
<1>8. ASSUME UNCHANGED timers PROVE SameWorld(p)
    BY <1>1, <1>4, <1>8, NoneChanges
\* The loop goes on: it is about every plugin still.
<1>9. ASSUME NEW new, Moves(c, new), new.op = calls[c].op, new.at # "idle",
             CallAgrees(new, p)', UNCHANGED phase
      PROVE  QuietPlugin(p)'
  <2>1. About(new, p)
    BY <1>1, <1>9 DEF About, Whole
  <2> QED  BY <1>1, <1>2, <1>4, <1>5, <1>9, <2>1, QuietStep
<1>10. CASE /\ calls[c].rest = {} /\ UNCHANGED timers /\ Moves(c, IdleCall)
            /\ phase' = IF calls[c].op = "start" THEN "ready" ELSE phase
  <2>1. Agrees(p) /\ SameWorld(p)
    BY <1>1, <1>7, <1>8, <1>10
  <2>2. Agrees(p)' /\ phase' \in {"starting", "ready"}
    BY <1>2, <1>10, <2>1, AgreesStays
  <2>3. ~About(IdleCall, p)
    BY IdleHand DEF About
  <2> QED  BY <1>1, <1>4, <1>5, <1>10, <2>2, <2>3, QuietStep
<1>11. ASSUME NEW q \in calls[c].rest, calls[c].op = "start", UNCHANGED <<timers, phase>>,
              Moves(c, [calls[c] EXCEPT !.at = "list", !.plugin = q,
                                        !.rest = calls[c].rest \ {q}])
       PROVE  QuietPlugin(p)'
  <2>1. PICK new : new = [calls[c] EXCEPT !.at = "list", !.plugin = q,
                                          !.rest = calls[c].rest \ {q}]
    OBVIOUS
  <2>2. /\ Moves(c, new) /\ new.op = "start" /\ new.plugin = q /\ new.at = "list"
        /\ new.rest = calls[c].rest \ {q} /\ new.list = <<>>
    BY <1>3, <1>11, <2>1 DEF CallType
  <2>3. SameWorld(p)
    BY <1>8, <1>11
  <2>4. CASE p = q
    <3>1. Absent(p)' /\ config'[p] # NoConfig
      BY <1>7, <1>11, <2>3, <2>4, AbsentStays
    <3>2. Spawned(p, <<>>, {})'
      BY <3>1, AbsentSpawns
    <3>3. Spawned(p, new.list, {})'
      BY <2>2, <3>2
    <3>4. CallAgrees(new, p)'
      BY <2>2, <2>4, <3>3, SpawningAgrees DEF Spawning
    <3> QED  BY <1>9, <1>11, <2>2, <3>4
  <2>5. CASE p # q
    <3>1. IF p \in new.rest THEN Absent(p)' /\ config'[p] # NoConfig ELSE Agrees(p)'
      BY <1>7, <1>11, <2>2, <2>3, <2>5, AbsentStays, AgreesStays
    <3>2. RestAgrees(new, p)'
      BY <2>2, <3>1 DEF RestAgrees
    <3>3. CallAgrees(new, p)'
      BY <2>2, <2>5, <3>2 DEF CallAgrees
    <3> QED  BY <1>9, <1>11, <2>2, <3>3
  <2> QED  BY <2>4, <2>5
<1>12. ASSUME NEW q \in calls[c].rest, calls[c].op = "restartAll", UNCHANGED phase,
              config[q] # NoConfig, Stopping(c, "restartAll", q, calls[c].rest \ {q}),
              Moves(c, StopCall("restartAll", q, calls[c].rest \ {q}, instances[q]))
       PROVE  QuietPlugin(p)'
  <2>1. PICK ids : ids = instances[q]
    OBVIOUS
  <2>2. PICK new : new = StopCall("restartAll", q, calls[c].rest \ {q}, ids)
    OBVIOUS
  <2>3. /\ Moves(c, new) /\ new.op = "restartAll" /\ new.plugin = q /\ new.at = "stop"
    BY <1>12, <2>1, <2>2, StopHand
  <2>4. timers' = timers \ {q}
    BY <1>12 DEF Stopping
  <2>5. CASE p = q
    <3>1. Holds(p, ids)'
      BY <1>1, <1>7, <1>12, <2>1, <2>5, HoldsSame DEF Agrees
    <3>2. CallAgrees(new, p)'
      BY <1>1, <1>12, <2>2, <2>4, <2>5, <3>1, StopAgrees
    <3> QED  BY <1>9, <1>12, <2>3, <3>2
  <2>6. CASE p # q
    <3>1. SameWorld(p)
      BY <1>1, <1>4, <2>4, <2>6, NoneChanges
    <3>2. Agrees(p)'
      BY <1>7, <1>12, <3>1, AgreesStays
    <3>3. RestAgrees(new, p)'
      BY <2>3, <3>2 DEF RestAgrees
    <3>4. CallAgrees(new, p)'
      BY <2>3, <2>6, <3>3 DEF CallAgrees
    <3> QED  BY <1>9, <1>12, <2>3, <3>4
  <2> QED  BY <2>5, <2>6
<1>13. ASSUME NEW q \in calls[c].rest, calls[c].op = "restartAll", UNCHANGED <<timers, phase>>,
              Moves(c, [calls[c] EXCEPT !.rest = calls[c].rest \ {q}])
       PROVE  QuietPlugin(p)'
  <2>1. PICK new : new = [calls[c] EXCEPT !.rest = calls[c].rest \ {q}]
    OBVIOUS
  <2>2. Moves(c, new) /\ new.op = "restartAll" /\ new.at = "next"
    BY <1>1, <1>3, <1>13, <2>1 DEF CallType
  <2>3. Agrees(p)'
    BY <1>7, <1>8, <1>13, AgreesStays
  <2>4. RestAgrees(new, p)'
    BY <2>2, <2>3 DEF RestAgrees
  <2>5. CallAgrees(new, p)'
    BY <2>2, <2>4 DEF CallAgrees, Working, Spawning, Waiting, Ending
  <2> QED  BY <1>9, <1>13, <2>2, <2>5
<1> QED  BY <1>1, <1>10, <1>11, <1>12, <1>13, NextPluginMoves


\* No call is in progress while the process is down or broken.
LEMMA NobodyBusy ==
    ASSUME ConfigInv, phase \in {"down", "broken"}
    PROVE  /\ \A c \in Callers : calls[c] = IdleCall
           /\ \A p \in Plugins : NoInstances(p)
<1>1. \A c \in Callers : ~Busy(c)
    BY DEF ConfigInv, PhaseSound
<1>2. \A c \in Callers : calls[c] = IdleCall
    BY <1>1, CallTypes DEF ConfigInv, SoundCall, Busy
<1> QED  BY <1>2 DEF ConfigInv, PhaseSound, NoInstances

LEMMA StartQuiet ==
    ASSUME ConfigInv, QuietInv, Start
    PROVE  QuietInv'
<1>1. phase = "down" /\ UNCHANGED <<docker, instances, timers>>
    BY DEF Start, managerVars
<1>2. (\A c \in Callers : calls[c] = IdleCall) /\ \A p \in Plugins : NoInstances(p)
    BY <1>1, NobodyBusy
<1> SUFFICES ASSUME NEW p \in quiet' PROVE QuietPlugin(p)'
    BY DEF QuietInv
<1>3. CASE ~Parses(file)
  <2>1. PICK after : after = calls' /\ after = calls
    BY <1>3 DEF Start
  <2>2. /\ p \in quiet /\ phase' = "broken"
    BY <1>3 DEF Start
  <2>3. ContainersOf(p)' = {}
    BY <1>1, <2>2 DEF QuietInv, QuietPlugin, ContainersOf, Exists, PluginOf
  <2>4. \A c \in Callers : ~About(after[c], p)
    BY <1>2, <2>1, IdleHand DEF About
  <2> QED  BY <2>1, <2>2, <2>3, <2>4, QuietAfter
<1>4. CASE Parses(file)
  <2>1. PICK after : after = calls'
    OBVIOUS
  <2>2. p \in Plugins /\ phase' = "starting" /\ config' = Load(file)
    BY <1>4 DEF Start
  <2>3. PICK at : at = IF StaleContainers = <<>> THEN "next" ELSE "clean"
    OBVIOUS
  <2>4. PICK stale : stale = StaleContainers
    OBVIOUS
  <2>5. PICK wanted : wanted = EnabledPlugins(Load(file))
    OBVIOUS
  <2>6. PICK new : new = [IdleCall EXCEPT !.op = "start", !.list = stale, !.at = at,
                                          !.rest = wanted]
    OBVIOUS
  <2>7. new.op = "start" /\ new.at = at /\ new.rest = wanted /\ new.list = stale
    BY <2>6 DEF IdleCall
  <2>8. Moves(Startup, new)
    BY <1>4, <2>3, <2>4, <2>5, <2>6, StartMoves DEF ConfigInv
  <2>9. after[Startup] = new /\ \A d \in Callers : d # Startup => after[d] = IdleCall
    BY <1>2, <2>1, <2>8, MovedCalls, CallTypes DEF ConfigInv
  <2>10. \A d \in Callers : About(after[d], p) => d = Startup
    BY <2>9, IdleHand DEF About
  <2>11. NoInstances(p)' /\ ContainersOf(p)' \subseteq ToSet(stale)
    <3>1. NoInstances(p)' /\ ContainersOf(p)' = ContainersOf(p)
      BY <1>1, <1>2, <2>2 DEF NoInstances, ContainersOf, Exists, PluginOf
    <3> QED  BY <2>4, <3>1, StaleList DEF ContainersOf
  <2>12. (p \in wanted) = (config'[p] # NoConfig)
    BY <2>2, <2>5 DEF EnabledPlugins
  <2>13. CallAgrees(new, p)'
    <3>1. CASE at = "clean"
      <4>1. RestAgrees(new, p)'
        BY <2>7, <2>11, <2>12, <3>1 DEF RestAgrees
      <4> QED  BY <2>7, <3>1, <4>1 DEF CallAgrees, Working, Spawning, Waiting, Ending
    <3>2. CASE at = "next" /\ stale = <<>>
      <4>1. Absent(p)'
        BY <2>11, <3>2, EmptyList DEF Absent
      <4>2. IF p \in new.rest THEN Absent(p)' /\ config'[p] # NoConfig ELSE Agrees(p)'
        BY <2>7, <2>12, <4>1, AbsentAgrees
      <4>3. RestAgrees(new, p)'
        BY <2>7, <3>2, <4>2 DEF RestAgrees
      <4> QED  BY <2>7, <3>2, <4>3 DEF CallAgrees, Working, Spawning, Waiting, Ending
    <3> QED  BY <2>3, <2>4, <3>1, <3>2
  <2>14. ASSUME NEW d \in Callers, About(after[d], p) PROVE CallAgrees(after[d], p)'
    BY <2>9, <2>10, <2>13, <2>14
  <2> QED  BY <2>1, <2>2, <2>10, <2>14, QuietAfter
<1> QED  BY <1>3, <1>4

LEMMA StartFailsQuiet ==
    ASSUME ConfigInv, QuietInv, StartFails
    PROVE  QuietInv'
<1>1. /\ phase = "down" /\ phase' = "broken"
      /\ UNCHANGED <<docker, calls, quiet>>
    BY DEF StartFails
<1> SUFFICES ASSUME NEW p \in quiet' PROVE QuietPlugin(p)'
    BY DEF QuietInv
<1>2. PICK after : after = calls' /\ after = calls
    BY <1>1
<1>3. ContainersOf(p)' = {}
    BY <1>1 DEF QuietInv, QuietPlugin, ContainersOf, Exists, PluginOf
<1>4. \A c \in Callers : ~About(after[c], p)
    BY <1>1, <1>2, NobodyBusy, IdleHand DEF About
<1> QED  BY <1>1, <1>2, <1>3, <1>4, QuietAfter

LEMMA ShutdownQuiet ==
    ASSUME ConfigInv, QuietInv, Shutdown
    PROVE  QuietInv'
<1>1. /\ phase \in {"starting", "ready"} /\ phase' = phase /\ ~Busy(Signal)
      /\ UNCHANGED <<docker, status, instances, config>> /\ CallsInv
    BY DEF Shutdown, ConfigInv
<1>2. PICK new : new = [IdleCall EXCEPT !.op = "shutdown", !.at = "next"]
    OBVIOUS
<1>3. Moves(Signal, new) /\ new.op = "shutdown" /\ new.at = "next" /\ new.rest = {}
    BY <1>1, <1>2, ShutdownMoves DEF IdleCall
<1> SUFFICES ASSUME NEW p \in quiet' PROVE QuietPlugin(p)'
    BY DEF QuietInv
<1>4. p \in quiet /\ Untouched(p)
    BY DEF Shutdown, Untouched
<1>5. p \in Plugins /\ QuietPlugin(p)
    BY <1>1, <1>4, TypesOf DEF QuietInv, StateTypes
<1>6. About(new, p)
    BY <1>3 DEF About, Whole
<1>7. ASSUME Agrees(p) PROVE CallAgrees(new, p)'
  <2>1. PICK ids : ids = instances[p] /\ ids = instances'[p]
    BY <1>1
  <2>2. Holds(p, ids)'
    BY <1>1, <1>7, <2>1, HoldsSame DEF Agrees
  <2>3. Holds(p, instances[p])'
    BY <2>1, <2>2 DEF Holds
  <2>4. RestAgrees(new, p)'
    BY <1>3, <2>3 DEF RestAgrees
  <2> QED  BY <1>3, <2>4 DEF CallAgrees, Working, Spawning, Waiting, Ending
<1> QED  BY <1>1, <1>3, <1>4, <1>5, <1>6, <1>7, SignalCaller, QuietBegins

\* A shutdown that has a plugin before it or behind it.
LEMMA ShutdownAgrees ==
    ASSUME ConfigInv, NEW p \in quiet, QuietInv, calls[Signal].at = "next"
    PROVE  /\ About(calls[Signal], p) /\ p \in Plugins /\ QuietPlugin(p)
           /\ calls[Signal] \in CallType /\ calls[Signal].op = "shutdown"
           /\ IF p \in calls[Signal].rest THEN ContainersOf(p) = {}
              ELSE Holds(p, instances[p])
<1>1. calls[Signal] \in CallType /\ SoundCall(Signal, calls[Signal])
    BY CallTypes, SignalCaller DEF ConfigInv
<1>2. calls[Signal].op = "shutdown"
    BY <1>1, SignalCaller DEF SoundCall
<1>3. About(calls[Signal], p) /\ p \in Plugins /\ QuietPlugin(p)
    BY <1>2, TypesOf DEF About, Whole, ConfigInv, QuietInv, StateTypes
<1>4. CallAgrees(calls[Signal], p)
    BY <1>3, QuietParts, SignalCaller
<1>5. RestAgrees(calls[Signal], p)
    BY <1>4 DEF CallAgrees, Working, Spawning, Waiting, Ending
<1> QED  BY <1>1, <1>2, <1>3, <1>5 DEF RestAgrees

LEMMA ShutdownNextQuiet ==
    ASSUME ConfigInv, QuietInv, ShutdownNext
    PROVE  QuietInv'
<1>1. /\ UNCHANGED <<docker, status, instances, timers, config, phase, quiet>> /\ CallsInv
      /\ calls[Signal].at = "next" /\ Busy(Signal)
    BY DEF ShutdownNext, managerVars, ConfigInv, Busy
<1>2. phase' \in {"starting", "ready"}
    BY <1>1, BusyUp, SignalCaller
<1>3. PICK q \in Plugins \ calls[Signal].rest :
          Moves(Signal, [calls[Signal] EXCEPT !.at = "stop", !.plugin = q,
                             !.rest = calls[Signal].rest \cup {q}, !.list = instances[q]])
    BY <1>1, ShutdownNextMoves
<1>4. PICK ids : ids = instances[q]
    OBVIOUS
<1>5. PICK new : new = [calls[Signal] EXCEPT !.at = "stop", !.plugin = q,
                                             !.rest = calls[Signal].rest \cup {q}, !.list = ids]
    OBVIOUS
<1> SUFFICES ASSUME NEW p \in quiet' PROVE QuietPlugin(p)'
    BY DEF QuietInv
<1>6. /\ About(calls[Signal], p) /\ p \in Plugins /\ QuietPlugin(p)
      /\ calls[Signal] \in CallType /\ calls[Signal].op = "shutdown"
      /\ IF p \in calls[Signal].rest THEN ContainersOf(p) = {} ELSE Holds(p, instances[p])
    BY <1>1, ShutdownAgrees
<1>7. /\ Moves(Signal, new) /\ new.op = "shutdown" /\ new.at = "stop" /\ new.plugin = q
      /\ new.rest = calls[Signal].rest \cup {q} /\ new.list = ids
    BY <1>3, <1>4, <1>5, <1>6 DEF CallType
<1>8. About(new, p)
    BY <1>7 DEF About, Whole
<1>9. CASE p = q
  <2>1. Holds(p, ids)'
    BY <1>1, <1>3, <1>4, <1>6, <1>9, HoldsSame
  <2>2. Holds(p, new.list)'
    BY <1>7, <2>1
  <2>3. CallAgrees(new, p)'
    BY <1>7, <1>9, <2>2, EndingAgrees DEF Ending
  <2> QED  BY <1>1, <1>2, <1>6, <1>7, <1>8, <2>3, SignalCaller, QuietStep
<1>10. CASE p # q
  <2>1. PICK these : these = instances[p] /\ these = instances'[p]
    BY <1>1
  <2>2. Holds(p, these) => Holds(p, these)'
    BY <1>1, HoldsSame
  <2>3. Holds(p, instances[p]) => Holds(p, instances[p])'
    BY <2>1, <2>2 DEF Holds
  <2>4. ContainersOf(p)' = ContainersOf(p)
    BY <1>1 DEF ContainersOf, Exists, PluginOf
  <2>5. IF p \in new.rest THEN ContainersOf(p)' = {} ELSE Holds(p, instances[p])'
    BY <1>6, <1>7, <1>10, <2>3, <2>4
  <2>6. RestAgrees(new, p)'
    BY <1>7, <2>5 DEF RestAgrees
  <2>7. CallAgrees(new, p)'
    BY <1>7, <1>10, <2>6 DEF CallAgrees
  <2> QED  BY <1>1, <1>2, <1>6, <1>7, <1>8, <2>7, SignalCaller, QuietStep
<1> QED  BY <1>9, <1>10

LEMMA EndsQuiet ==
    ASSUME ConfigInv, QuietInv, Exit \/ Crash
    PROVE  QuietInv'
<1> SUFFICES ASSUME NEW p \in quiet' PROVE QuietPlugin(p)'
    BY DEF QuietInv
<1>1. CASE Crash
    BY <1>1 DEF Crash
<1>2. CASE Exit
  <2>1. /\ calls[Signal].at = "next" /\ p \in quiet /\ phase' = "down"
        /\ UNCHANGED docker /\ ProcessEnds
        /\ p \in Plugins \ calls[Signal].rest => instances[p] = <<>>
    BY <1>2 DEF Exit, ProcessEnds
  <2>2. /\ p \in Plugins
        /\ IF p \in calls[Signal].rest THEN ContainersOf(p) = {} ELSE Holds(p, instances[p])
    BY <2>1, ShutdownAgrees
  <2>3. ContainersOf(p) = {}
    BY <2>1, <2>2, EmptyList DEF Holds
  <2>4. ContainersOf(p)' = {}
    BY <2>1, <2>3 DEF ContainersOf, Exists, PluginOf
  <2>5. PICK after : after = calls'
    OBVIOUS
  <2>6. \A c \in Callers : ~About(after[c], p)
    BY <2>1, <2>5, IdleHand DEF ProcessEnds, About
  <2> QED  BY <2>1, <2>4, <2>5, <2>6, QuietAfter
<1> QED  BY <1>1, <1>2

LEMMA QuietNext ==
    ASSUME ConfigInv, OwnersInv, QuietInv, [Next]_vars
    PROVE  QuietInv'
<1>1. CASE UNCHANGED vars
  <2> SUFFICES ASSUME NEW p \in quiet' PROVE QuietPlugin(p)'
      BY DEF QuietInv
  <2>1. UNCHANGED <<docker, status, instances, timers, config, calls, phase, quiet>>
    BY <1>1 DEF vars, managerVars
  <2>2. p \in Plugins /\ QuietPlugin(p)
    BY <2>1, TypesOf DEF ConfigInv, QuietInv, StateTypes
  <2>3. SameWorld(p)
    BY <2>1, <2>2, NoneChanges
  <2> QED  BY <2>1, <2>2, <2>3, QuietSame
<1>2. ASSUME NEW c \in Requests,
             \/ RestartAll(c)
             \/ \E p \in Plugins : RestartPlugin(c, p) \/ RemovePlugin(c, p)
             \/ \E p \in Plugins, v \in Given : AddPlugin(c, p, v) \/ Update(c, p, v)
      PROVE  QuietInv'
    BY <1>2, RequestsQuiet
<1>3. ASSUME NEW c \in Callers, CallStep(c) \/ SaveFails(c) \/ DockerFails(c) \/ WaitAsks(c)
      PROVE  QuietInv'
    BY <1>3, SavesQuiet, StopsQuiet, RemovesQuiet, SpawnsQuiet, WaitsQuiet, CleansQuiet,
       LoopsQuiet DEF CallStep
<1>4. CASE HealthWritten \/ \E p \in Plugins : HealthAsked(p)
    BY <1>4, HealthQuiet
<1>5. CASE Start \/ StartFails \/ Shutdown \/ ShutdownNext \/ Exit \/ Crash
    BY <1>5, StartQuiet, StartFailsQuiet, ShutdownQuiet, ShutdownNextQuiet, EndsQuiet
<1> QED  BY <1>1, <1>2, <1>3, <1>4, <1>5 DEF Next

-----------------------------------------------------------------------------
(* The theorems. *)

\* Of every reachable state: the types; what each call has in hand fits what it is at;
\* what the process keeps in memory fits its stage; a lone save writes what the manager
\* works with; a container id that somebody knows is its plugin's or nobody's; and a
\* quiet plugin is where the one call about it has brought it.
THEOREM ContainersInvariant == Spec => []ManagerInv
<1>1. ManagerInv <=> ConfigInv /\ OwnersInv /\ QuietInv
    BY DEF ManagerInv, ConfigInv, CallsInv
<1>2. Init => ManagerInv
  <2>1. Init => QuietInv
    BY DEF Init, QuietInv
  <2> QED  BY <1>1, <2>1, ConfigInit, OwnersInit
<1>3. ManagerInv /\ [Next]_vars => ManagerInv'
  <2> SUFFICES ASSUME ManagerInv, [Next]_vars PROVE ManagerInv'
      OBVIOUS
  <2>1. ConfigInv' /\ OwnersInv' /\ QuietInv'
    BY <1>1, ConfigStep, OwnersNext, QuietNext
  <2> QED  BY <2>1 DEF ManagerInv, ConfigInv, CallsInv
<1> QED  BY <1>2, <1>3, PTL DEF Spec

\* The state of the manager keeps its types, and a call that stops or removes has an
\* instance left to stop or remove.
THEOREM ContainersTypeCorrect == Spec => []TypeOK
<1>1. ManagerInv => TypeOK
    BY DEF ManagerInv
<1> QED  BY <1>1, ContainersInvariant, PTL

\* Between calls the configuration, the known instances with their health checks, and
\* the containers Docker runs agree for every plugin none of whose calls overlapped or
\* failed, and a shutdown leaves no container of it: spawnPlugin(), stopPlugin(),
\* initialize() and shutdown() of ContainerManager.ts, whatever else is going on.
THEOREM ContainersSettled == Spec => []Settled
<1>1. ASSUME ManagerInv, NEW p \in quiet, phase = "ready", Untouched(p)
      PROVE  /\ (instances[p] # <<>>) = (config[p] # NoConfig)
             /\ (p \in timers) = (instances[p] # <<>>)
             /\ ContainersOf(p) = ToSet(instances[p])
             /\ \A id \in ContainersOf(p) : docker[id].state = "up" /\ status[id] # "stopped"
  <2>1. Agrees(p)
    BY <1>1 DEF ManagerInv, QuietInv, QuietPlugin
  <2> QED  BY <2>1 DEF Agrees, Holds, Lives
<1>2. ASSUME ManagerInv, NEW p \in quiet, phase = "down" PROVE ContainersOf(p) = {}
    BY <1>2 DEF ManagerInv, QuietInv, QuietPlugin
<1>3. ManagerInv => Settled
    BY <1>1, <1>2 DEF Settled
<1> QED  BY <1>3, ContainersInvariant, PTL

\* Once the last save is over the configuration file is whole and a restart reads from it
\* what the manager works with, unless that save was cut by a crash, met another one or
\* failed, and save for the configurations loadConfig() of ConfigParser.ts reads otherwise
\* than saveConfig() wrote them: whatever the parser makes of each.
THEOREM ContainersConfigSaved == Spec => []ConfigSaved
<1>1. ManagerInv => ConfigSaved
    BY DEF ManagerInv, SaveInv, ConfigSaved, FileWhole, FileServes
<1> QED  BY <1>1, ContainersInvariant, PTL
=============================================================================
