------------------------------- MODULE Bringup -------------------------------
(***************************************************************************)
(* CMD_INIT and CMD_SHUTDOWN of the wrapper (atlas_bridge.py): discovery of *)
(* the inputs on Atlas, the process groups it starts for Nav2, the wait for *)
(* Nav2, and what a failed start or a shutdown takes down again.            *)
(*                                                                         *)
(* Driver calls do not overlap.  A group dies once it is signalled; any     *)
(* group may also die by itself, and the leaders in Headless (ros2 run and  *)
(* ros2 launch are parents of the programs they start) may die before their *)
(* children do.                                                            *)
(***************************************************************************)
EXTENDS Naturals, Sequences, FiniteSets

CONSTANTS
  Required, Optional,  \* contracts of _REQUIRED_DEPS and _OPTIONAL_DEPS
  Camera,              \* contracts of the depth camera
  Providers, None,     \* providers on Atlas, and the absence of one
  Configs,             \* configurations CMD_INIT may carry
  Headless             \* groups whose leader may die before its children

Contracts == Required \cup Optional \cup Camera
ScanGroups == {"deskew", "projector", "filter"}
Groups == ScanGroups \cup {"depth", "guard", "monitor", "nav2"}
SpawnOrder == <<"deskew", "projector", "filter", "depth", "guard", "monitor", "nav2">>
KillOrder == <<"projector", "deskew", "filter", "depth", "monitor", "nav2", "guard">>

ASSUME BringupAssumption ==
  /\ {"scan", "scan_cloud"} \subseteq Optional
  /\ Camera \cap (Required \cup Optional) = {}
  /\ None \notin Providers
  /\ Headless \subseteq Groups
  /\ Configs \subseteq [valid: BOOLEAN, override: SUBSET Contracts,
                        wants: SUBSET {"deskew", "projector", "depth", "monitor"},
                        clock: {"wall", "sim"}]

VARIABLES
  pc,           \* where the driver call is
  call,         \* the driver call answered last or under way
  reply,        \* its answer
  initialized, cfg,
  ask,          \* contracts still to be looked up
  bound,        \* contract -> provider this start uses, or None
  channel,      \* _dep_channels: contract -> provider held, or None
  open,         \* <<contract, provider>> channels Atlas sees as open
  wanted,       \* groups this start runs
  at,           \* position in SpawnOrder or KillOrder
  proc,         \* what the reference to each group points to
  stray,        \* groups alive that no reference points to
  node          \* clock of the rclpy node, or "none"

deps == <<ask, bound, channel, open>>
vars == <<pc, call, reply, initialized, cfg, deps, wanted, at, proc, stray, node>>

Alive(g) == proc[g] \in {"whole", "headless"}

BringupInit ==
  /\ pc = "idle" /\ call = "none" /\ reply = "none" /\ initialized = FALSE
  /\ cfg \in Configs
  /\ ask = {} /\ open = {}
  /\ bound = [c \in Contracts |-> None] /\ channel = bound
  /\ wanted = {} /\ at = 1 /\ proc = [g \in Groups |-> "none"] /\ stray = {}
  /\ node = "none"

(***************************************************************************)
(* Discovery                                                               *)
(***************************************************************************)
Answer(r) == pc' = "idle" /\ reply' = r

\* init() up to discovery: nothing to do twice, an invalid configuration
\* starts nothing.
CmdInit ==
  /\ pc = "idle" /\ call # "shutdown"
  /\ call' = "init"
  /\ IF initialized
       THEN Answer("ok") /\ UNCHANGED <<cfg, ask, bound>>
       ELSE \E new \in Configs:
              /\ cfg' = new
              /\ IF new.valid
                   THEN /\ pc' = "resolve" /\ reply' = "none"
                        /\ ask' = (Required \cup Optional) \ new.override
                        /\ bound' = [c \in Contracts |-> None]
                   ELSE Answer("error") /\ UNCHANGED <<ask, bound>>
  /\ UNCHANGED <<initialized, channel, open, wanted, at, proc, stray, node>>

ConnectedBeside(c, p) ==  \* seeded fault: held.close() forgotten
  channel' = [channel EXCEPT ![c] = p] /\ open' = open \cup {<<c, p>>}

\* The channels after provider p of contract c was found and connected; the
\* channel of another provider is closed after that.
Connected(c, p) ==
  /\ channel' = [channel EXCEPT ![c] = p]
  /\ open' = (open \ {<<c, channel[c]>>}) \cup {<<c, p>>}

\* _resolve_dep(c): Atlas knows nobody (or nobody can be connected), or a
\* provider whose channel is held already or is connected now; an endpoint
\* that is empty is none.
ResolveDep(c) ==
  /\ c \in ask
  /\ ask' = ask \ {c}
  /\ \/ UNCHANGED <<bound, channel, open>>
     \/ \E p \in Providers:
          /\ \E b \in {p, None}: bound' = [bound EXCEPT ![c] = b]
          /\ IF channel[c] = p THEN UNCHANGED <<channel, open>>
                               ELSE Connected(c, p)
  /\ UNCHANGED <<pc, call, reply, initialized, cfg, wanted, at, proc, stray, node>>

Have(c) == bound[c] # None \/ c \in cfg.override

Projecting == "projector" \in cfg.wants /\ ~Have("scan")

\* The groups a start runs; a scan pipeline that runs already is taken over.
Wanted ==
  {"guard", "nav2"} \cup (cfg.wants \cap {"depth", "monitor"})
    \cup IF Projecting /\ proc["projector"] # "whole"
           THEN {"projector", "filter"} \cup (cfg.wants \cap {"deskew"})
           ELSE {}

Discovered ==
  /\ pc = "resolve" /\ ask = {}
  /\ IF \A c \in Required: Have(c)
       THEN pc' = "spawn" /\ at' = 1 /\ wanted' = Wanted /\ UNCHANGED reply
       ELSE Answer("deferred") /\ UNCHANGED <<at, wanted>>
  /\ UNCHANGED <<call, initialized, cfg, deps, proc, stray, node>>

(***************************************************************************)
(* Starting the process groups                                             *)
(***************************************************************************)
Current == SpawnOrder[at]

\* Go on with the next group; after the last one the rclpy thread starts.
\* Its rclpy.init() raises in every thread but the first.
Advance ==
  IF at < Len(SpawnOrder)
    THEN pc' = "spawn" /\ at' = at + 1 /\ UNCHANGED node
    ELSE pc' = "action" /\ node' = (IF node = "none" THEN cfg.clock ELSE node) /\ UNCHANGED at

\* _kill_nav2 begins: of an exception, a timeout or CMD_SHUTDOWN.
StartKill == pc' = "kill" /\ at' = 1

Skip ==
  /\ pc = "spawn" /\ Current \notin wanted
  /\ Advance
  /\ UNCHANGED <<call, reply, initialized, cfg, deps, wanted, proc, stray>>

SomeCamera(g) == Have("scan_cloud") \/ g \notin ScanGroups  \* seeded fault

\* What the group needs to have been found on Atlas before it is started.
Inputs(g) == IF g \in ScanGroups THEN Have("scan_cloud")
             ELSE g = "depth" => \A c \in Camera: bound[c] # None

\* _start_depth_cloud looks its camera up before it starts anything.
AskForCamera ==
  /\ pc = "spawn" /\ Current = "depth" /\ "depth" \in wanted
  /\ pc' = "camera" /\ ask' = Camera
  /\ UNCHANGED <<call, reply, initialized, cfg, bound, channel, open, wanted, at, proc, stray, node>>

\* subprocess.Popen(start_new_session=True): the reference to an earlier
\* group is overwritten, whatever became of it.
Popen(g) ==
  /\ proc' = [proc EXCEPT ![g] = "whole"]
  /\ stray' = IF Alive(g) THEN stray \cup {g} ELSE stray

Spawn ==
  /\ \/ pc = "spawn" /\ Current # "depth"
     \/ pc = "camera" /\ ask = {}
  /\ Current \in wanted /\ Inputs(Current)
  /\ Popen(Current)
  /\ IF Current \in ScanGroups
       THEN pc' = "check" /\ UNCHANGED <<at, node>>
       ELSE Advance
  /\ UNCHANGED <<call, reply, initialized, cfg, deps, wanted>>

\* 0.25 s later each program of the scan pipeline must still run.
Check ==
  /\ pc = "check"
  /\ IF proc[Current] = "whole" THEN Advance ELSE StartKill /\ UNCHANGED node
  /\ UNCHANGED <<call, reply, initialized, cfg, deps, wanted, proc, stray>>

\* A missing input, a failed Popen, unresolved tokens, an unknown launch
\* layout, Soma: whatever raises between two groups.
SpawnRaises ==
  /\ pc \in {"spawn", "camera"} /\ ask = {}
  /\ StartKill
  /\ UNCHANGED <<call, reply, initialized, cfg, deps, wanted, proc, stray, node>>

(***************************************************************************)
(* Waiting for Nav2                                                        *)
(***************************************************************************)
Running(g) == Alive(g) \/ g \in stray

ActionReady ==
  /\ pc = "action" /\ Running("nav2")
  /\ pc' = "speed"
  /\ UNCHANGED <<call, reply, initialized, cfg, deps, wanted, at, proc, stray, node>>

SpeedReady ==
  /\ pc = "speed" /\ Running("nav2") /\ Running("guard")
  /\ initialized' = TRUE /\ Answer("ok")
  /\ UNCHANGED <<call, cfg, deps, wanted, at, proc, stray, node>>

ActionWaitFails ==  \* seeded fault: the wait for subscribers has no deadline
  /\ pc = "action"
  /\ StartKill
  /\ UNCHANGED <<call, reply, initialized, cfg, deps, wanted, proc, stray, node>>

\* Either wait times out, or the first publish raises.
WaitFails ==
  /\ pc \in {"action", "speed"}
  /\ StartKill
  /\ UNCHANGED <<call, reply, initialized, cfg, deps, wanted, proc, stray, node>>

(***************************************************************************)
(* _kill_nav2                                                              *)
(***************************************************************************)
CmdShutdown ==
  /\ pc = "idle" /\ call # "shutdown"
  /\ call' = "shutdown" /\ reply' = "none" /\ StartKill
  /\ UNCHANGED <<initialized, cfg, deps, wanted, proc, stray, node>>

SignalledByLeader(g) == proc[g] = "whole"  \* seeded fault: poll() decides for all

\* The scan programs' groups are signalled by number, the other groups only
\* while their leader runs; Nav2's reference alone is kept.
Signalled(g) == g \in ScanGroups \/ proc[g] = "whole"

KillGroup(g) ==
  /\ proc' = [proc EXCEPT ![g] = IF g # "nav2" THEN "none"
                                 ELSE IF Signalled(g) THEN "gone" ELSE @]
  /\ stray' = IF g # "nav2" /\ Alive(g) /\ ~Signalled(g) THEN stray \cup {g} ELSE stray

KillNext ==
  /\ pc = "kill"
  /\ KillGroup(KillOrder[at])
  /\ IF at < Len(KillOrder)
       THEN at' = at + 1 /\ UNCHANGED <<pc, reply>>
       ELSE Answer(IF call = "init" THEN "error" ELSE "ok") /\ UNCHANGED at
  /\ UNCHANGED <<call, initialized, cfg, deps, wanted, node>>

(***************************************************************************)
(* The environment: groups die by themselves                               *)
(***************************************************************************)
Die(g) ==
  /\ \/ /\ Alive(g) /\ proc' = [proc EXCEPT ![g] = "gone"] /\ UNCHANGED stray
     \/ /\ g \in Headless /\ proc[g] = "whole"
        /\ proc' = [proc EXCEPT ![g] = "headless"] /\ UNCHANGED stray
     \/ /\ g \in stray /\ stray' = stray \ {g} /\ UNCHANGED proc
  /\ UNCHANGED <<pc, call, reply, initialized, cfg, deps, wanted, at, node>>

InitStep ==
  \/ \E c \in Contracts: ResolveDep(c)
  \/ Discovered \/ Skip \/ AskForCamera \/ Spawn \/ Check \/ SpawnRaises
  \/ ActionReady \/ SpeedReady \/ WaitFails \/ KillNext

BringupNext == CmdInit \/ CmdShutdown \/ InitStep \/ \E g \in Groups: Die(g)

\* The thread of a driver call goes on, and each of its waits is bounded.
BringupSpec == BringupInit /\ [][BringupNext]_vars /\ WF_vars(InitStep)

(***************************************************************************)
(* Properties                                                              *)
(***************************************************************************)
\* Type invariant of the bring-up.
BringupTypeOK ==
  /\ pc \in {"idle", "resolve", "spawn", "camera", "check", "action", "speed", "kill"}
  /\ call \in {"none", "init", "shutdown"}
  /\ reply \in {"none", "ok", "deferred", "error"}
  /\ initialized \in BOOLEAN
  /\ cfg \in Configs
  /\ ask \subseteq Contracts
  /\ bound \in [Contracts -> Providers \cup {None}]
  /\ channel \in [Contracts -> Providers \cup {None}]
  /\ open \subseteq Contracts \X Providers
  /\ wanted \subseteq Groups
  /\ at \in 1..7
  /\ proc \in [Groups -> {"none", "whole", "headless", "gone"}]
  /\ stray \subseteq Groups
  /\ node \in {"none", "wall", "sim"}

\* README: an error "tears down every child process", and shutdown leaves
\* none behind.  Whichever step of init() fails, over any number of retries
\* and deaths on the way, no group runs once the call is answered without a
\* running Nav2: none that a reference points to, none that lost its reference.
NothingLeftRunning ==
  pc = "idle" /\ (~initialized \/ call = "shutdown")
    => stray = {} /\ \A g \in Groups: ~Alive(g)

\* A start that answers ok has started the whole chain its configuration asks
\* for, out of inputs that were found, and nothing beside it: no piece is
\* taken over from an earlier attempt or forgotten by the path it took.
StartedWhole ==
  initialized /\ call # "shutdown" =>
    /\ {g \in Groups: proc[g] # "none"} = wanted
    /\ {"guard", "nav2"} \subseteq wanted
    /\ \A c \in Required: Have(c)
    /\ Projecting => {"projector", "filter"} \subseteq wanted /\ Have("scan_cloud")
    /\ "depth" \in wanted => \A c \in Camera: bound[c] # None

\* The channels "are how Atlas knows navigation consumes the input": over
\* retries and changes of provider, every input in use is the one open channel
\* of its contract.
ConsumersKnown ==
  /\ open = {<<c, channel[c]>> : c \in {d \in Contracts: channel[d] # None}}
  /\ \A c \in Contracts: bound[c] # None => bound[c] = channel[c]

\* Every CMD_INIT and CMD_SHUTDOWN is answered, whatever dies meanwhile.
DriverAnswers == pc # "idle" ~> pc = "idle"
=============================================================================
