---------------------------- MODULE VelocityChain ----------------------------
(***************************************************************************)
(* The topics a velocity crosses from Nav2 to the base, as the wrapper     *)
(* wires them at bring-up (_materialize_guarded_launch,                    *)
(* _pin_collision_monitor, _spawn_velocity_guard), and how configuration   *)
(* and environment name the last one (configuration.py).                   *)
(*                                                                         *)
(* Both layouts of the launch file, composed and not, are patched alike.   *)
(* One command at a time travels; speed control and guard decisions are    *)
(* other modules' matter.  The code accepts any valid names, also ones     *)
(* that lead past the guard; the properties are about names that are       *)
(* apart, NamesApart.                                                      *)
(***************************************************************************)
EXTENDS Naturals, Sequences, FiniteSets

CONSTANTS
  OutputTopics,      \* valid names for the guard's output, "/cmd_vel" among them
  ControllerTopics,  \* valid names for the controller's output, before a mux
  Invalid            \* names validate_absolute_ros_topic rejects, "" among them

DefaultOutput == "/cmd_vel"
Inner == {"/cmd_vel_nav", "/cmd_vel_collision_input", "/cmd_vel_guard_input"}

\* The valid names may be any, those of the chain's own topics included.
ASSUME VelocityChainAssumption ==
  /\ DefaultOutput \in OutputTopics /\ "" \in Invalid
  /\ {"absent", "none"} \cap (OutputTopics \cup ControllerTopics \cup Invalid) = {}
  /\ (OutputTopics \cup ControllerTopics) \cap Invalid = {}

VARIABLES
  config,   \* velocity_output_topic, or "absent"
  environ,  \* ROBONIX_VELOCITY_OUTPUT_TOPIC, or "absent"
  controllerTopic,  \* controller_velocity_output_topic, or "absent"
  monitor,  \* the parameters have a collision_monitor section
  state,    \* "down", "up", or "error" after a rejected start
  command   \* where the command is, and which nodes it crossed

chainVars == <<config, environ, controllerTopic, monitor, state, command>>

NoCommand == [topic |-> "none", crossed |-> {}]

ChainInit ==
  /\ config \in {"absent"} \cup OutputTopics \cup Invalid
  /\ environ \in {"absent"} \cup OutputTopics \cup Invalid
  /\ controllerTopic \in {"absent"} \cup ControllerTopics \cup Invalid
  /\ monitor \in BOOLEAN
  /\ state = "down" /\ command = NoCommand

\* resolve_velocity_output_topic: what is present counts, empty or not.
SkipEmptyNames ==  \* seeded fault: an empty name counts as absent
  IF config \notin {"absent", ""} THEN config
  ELSE IF environ \notin {"absent", ""} THEN environ ELSE DefaultOutput
VelocityOutput ==
  IF config # "absent" THEN config
  ELSE IF environ # "absent" THEN environ ELSE DefaultOutput

Validated(topic) == topic \notin Invalid

\* CMD_INIT as far as topics go; a rejected name starts nothing.
Start ==
  /\ state = "down"
  /\ state' = IF Validated(VelocityOutput) /\ Validated(controllerTopic) THEN "up" ELSE "error"
  /\ UNCHANGED <<config, environ, controllerTopic, monitor, command>>

\* The remaps of the patched launch file.
ControllerOutput == IF controllerTopic = "absent" THEN "/cmd_vel_nav" ELSE controllerTopic
DistroBehaviors == IF controllerTopic = "absent" THEN "/cmd_vel" ELSE controllerTopic  \* seeded fault
BehaviorOutput == IF controllerTopic = "absent" THEN "/cmd_vel_guard_input" ELSE controllerTopic
SmootherPinned == "/cmd_vel_collision_input"  \* seeded fault: also without a monitor
SmootherToGuard == "/cmd_vel_guard_input"  \* seeded fault: past the monitor
SmootherOutput == IF monitor THEN "/cmd_vel_collision_input" ELSE "/cmd_vel_guard_input"

\* What runs: each node's input topic and the topic it publishes on.  The
\* deployment's mux is the only publisher on /cmd_vel_nav when it is needed.
Node(name, in, out) == [name |-> name, in |-> in, out |-> out]
Nodes ==
  {Node("smoother", "/cmd_vel_nav", SmootherOutput),
   Node("guard", "/cmd_vel_guard_input", VelocityOutput)}
    \cup (IF monitor THEN {Node("monitor", "/cmd_vel_collision_input", "/cmd_vel_guard_input")} ELSE {})
    \cup (IF controllerTopic # "absent" THEN {Node("mux", controllerTopic, "/cmd_vel_nav")} ELSE {})

Source(name, topic) ==
  /\ state = "up" /\ command = NoCommand
  /\ command' = [topic |-> topic, crossed |-> {name}]
  /\ UNCHANGED <<config, environ, controllerTopic, monitor, state>>

ControllerCommands == Source("controller", ControllerOutput)
BehaviorCommands == Source("behavior", BehaviorOutput)

Forward(n) ==
  /\ n \in Nodes /\ command.topic = n.in
  /\ command' = [topic |-> n.out, crossed |-> command.crossed \cup {n.name}]
  /\ UNCHANGED <<config, environ, controllerTopic, monitor, state>>

\* The base listens on its own topic and on the one the guard was given.
BaseTopics == {DefaultOutput, VelocityOutput}

Arrive ==
  /\ command.topic \in BaseTopics
  /\ command' = NoCommand
  /\ UNCHANGED <<config, environ, controllerTopic, monitor, state>>

ForwardStep == \E n \in Nodes: Forward(n)

ChainNext == Start \/ ControllerCommands \/ BehaviorCommands \/ ForwardStep \/ Arrive

ChainSpec == ChainInit /\ [][ChainNext]_chainVars /\ WF_chainVars(ForwardStep) /\ WF_chainVars(Arrive)

(***************************************************************************)
(* Properties                                                              *)
(***************************************************************************)
Arrived == command.topic \in BaseTopics

\* The names a deployment gave are apart: the controller's output is neither
\* a topic of the base nor one inside the chain, nor is the guard's output one
\* inside the chain.  Nothing in the code checks it.
NamesApart == controllerTopic \notin BaseTopics \cup Inner /\ VelocityOutput \notin Inner

\* "every Nav2 velocity crosses our final guard", whatever is configured before
\* it, if the names are apart: controller and recovery behaviors, with or
\* without a mux and a Collision Monitor.
EveryVelocityIsGuarded == NamesApart /\ Arrived => "guard" \in command.crossed

\* A configured sink keeps the robot still: velocities come out on the topic
\* configuration names, else the environment, and on /cmd_vel only when one
\* of them says so or both are silent; a present but invalid name, the empty
\* one included, starts nothing.
SinkIsRespected ==
  NamesApart /\ Arrived =>
    /\ config # "absent" => command.topic = config
    /\ config = "absent" /\ environ # "absent" => command.topic = environ
    /\ {config, environ} = {"absent"} => command.topic = DefaultOutput

\* The Collision Monitor, when configured, sees what the controller planned.
ControllerIsMonitored ==
  NamesApart /\ Arrived /\ monitor /\ "controller" \in command.crossed
    => "monitor" \in command.crossed

\* No wiring of names that are apart leaves a topic that nobody reads: each
\* command arrives.
CommandsArrive == (NamesApart /\ command # NoCommand) ~> command = NoCommand
=============================================================================
