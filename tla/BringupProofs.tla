---------------------------- MODULE BringupProofs ----------------------------
(***************************************************************************)
(* What a failed start or a shutdown leaves running, for every set of      *)
(* contracts, providers and configurations: nothing, if only the scan      *)
(* programs' leaders may die before their children.                        *)
(***************************************************************************)
EXTENDS Bringup, TLAPS

\* While groups are started, those still to come are not running; while they
\* are taken down, those done with are not; no reference to a running group is
\* ever overwritten, and a start begins with nothing running.
BringupInv ==
  /\ BringupTypeOK
  /\ stray = {}
  /\ \A g \in Groups \ ScanGroups: proc[g] # "headless"
  /\ initialized => pc = "idle" \/ call = "shutdown"
  /\ call = "shutdown" => pc \in {"idle", "kill"}
  /\ pc \in {"idle", "resolve"} /\ (~initialized \/ call = "shutdown") => \A g \in Groups: ~Alive(g)
  /\ pc \in {"spawn", "camera"} => \A k \in at..7: ~Alive(SpawnOrder[k])
  /\ pc = "check" => \A k \in at + 1..7: ~Alive(SpawnOrder[k])
  /\ pc = "kill" => \A k \in 1..at - 1: ~Alive(KillOrder[k])

\* The two orders name each group once.
LEMMA Orders ==
  /\ Len(SpawnOrder) = 7 /\ Len(KillOrder) = 7
  /\ \A k \in 1..7: SpawnOrder[k] \in Groups /\ KillOrder[k] \in Groups
  /\ \A k, l \in 1..7: SpawnOrder[k] = SpawnOrder[l] => k = l
  /\ \A g \in Groups: \E k \in 1..7: KillOrder[k] = g
BY DEF SpawnOrder, KillOrder, Groups, ScanGroups

LEMMA InitEstablishes == BringupInit => BringupInv
<1> SUFFICES ASSUME BringupInit PROVE BringupInv
  OBVIOUS
<1>1. bound \in [Contracts -> Providers \cup {None}] /\ channel \in [Contracts -> Providers \cup {None}]
  BY DEF BringupInit
<1>2. proc \in [Groups -> {"none", "whole", "headless", "gone"}] /\ \A g \in Groups: proc[g] = "none"
  BY DEF BringupInit
<1>3. ask \subseteq Contracts /\ open \subseteq Contracts \X Providers /\ wanted \subseteq Groups
      /\ stray \subseteq Groups /\ at \in 1..7
  BY DEF BringupInit
<1>4. /\ pc = "idle" /\ call = "none" /\ reply = "none" /\ initialized = FALSE
      /\ cfg \in Configs /\ node = "none" /\ stray = {}
  BY DEF BringupInit
<1>5. BringupTypeOK
  BY <1>1, <1>2, <1>3, <1>4 DEF BringupTypeOK
<1> QED BY <1>2, <1>4, <1>5 DEF BringupInv, Alive

\* Type correctness, step by step.
LEMMA TypeStep == BringupTypeOK /\ [BringupNext]_vars => BringupTypeOK'
<1> SUFFICES ASSUME BringupTypeOK, [BringupNext]_vars PROVE BringupTypeOK'
  OBVIOUS
<1> USE BringupAssumption DEF BringupTypeOK
<1>1. CASE CmdInit
  BY <1>1 DEF CmdInit, Answer, Contracts
<1>2. CASE CmdShutdown
  BY <1>2 DEF CmdShutdown, StartKill, deps
<1>3. ASSUME NEW c \in Contracts, ResolveDep(c) PROVE BringupTypeOK'
  <2>1. CASE UNCHANGED <<bound, channel, open>>
    BY <1>3, <2>1 DEF ResolveDep
  <2>2. CASE \E p \in Providers: /\ \E b \in {p, None}: bound' = [bound EXCEPT ![c] = b]
                                 /\ IF channel[c] = p THEN UNCHANGED <<channel, open>>
                                                      ELSE Connected(c, p)
    BY <1>3, <2>2 DEF ResolveDep, Connected
  <2> QED BY <1>3, <2>1, <2>2 DEF ResolveDep
<1>4. CASE Discovered
  <2>1. Wanted \subseteq Groups
    BY DEF Wanted, Groups, ScanGroups
  <2> QED BY <1>4, <2>1 DEF Discovered, Answer, deps
<1>5. CASE Skip
  BY <1>5, Orders DEF Skip, Advance, deps
<1>6. CASE AskForCamera
  BY <1>6 DEF AskForCamera, Contracts
<1>7. CASE Spawn
  BY <1>7, Orders DEF Spawn, Popen, Current, Advance, deps
<1>8. CASE Check
  BY <1>8, Orders DEF Check, StartKill, Advance, deps
<1>9. CASE SpawnRaises
  BY <1>9 DEF SpawnRaises, StartKill, deps
<1>10. CASE ActionReady
  BY <1>10 DEF ActionReady, deps
<1>11. CASE SpeedReady
  BY <1>11 DEF SpeedReady, Answer, deps
<1>12. CASE WaitFails
  BY <1>12 DEF WaitFails, StartKill, deps
<1>13. CASE KillNext
  BY <1>13, Orders DEF KillNext, KillGroup, Signalled, Answer, deps
<1>14. ASSUME NEW g \in Groups, Die(g) PROVE BringupTypeOK'
  BY <1>14 DEF Die, deps
<1>15. CASE UNCHANGED vars
  BY <1>15 DEF vars, deps
<1> QED
  BY <1>1, <1>2, <1>3, <1>4, <1>5, <1>6, <1>7, <1>8, <1>9, <1>10, <1>11, <1>12, <1>13,
     <1>14, <1>15 DEF BringupNext, InitStep

\* Where the start goes on after a group.
LEMMA Advances ==
  ASSUME BringupTypeOK, Advance
  PROVE  (pc' = "spawn" /\ at' = at + 1) \/ pc' = "action"
BY Orders DEF Advance

LEMMA InvStep ==
  ASSUME Headless \subseteq ScanGroups, BringupInv, [BringupNext]_vars
  PROVE  BringupInv'
<1>0. BringupTypeOK /\ BringupTypeOK'
  BY TypeStep DEF BringupInv
<1> USE <1>0 DEF BringupInv, BringupTypeOK, Alive
<1>1. CASE CmdInit
  BY <1>1 DEF CmdInit, Answer
<1>2. CASE CmdShutdown
  BY <1>2 DEF CmdShutdown, StartKill, deps
<1>3. ASSUME NEW c \in Contracts, ResolveDep(c) PROVE BringupInv'
  <2>1. UNCHANGED <<pc, call, initialized, at, proc, stray>>
    BY <1>3 DEF ResolveDep
  <2> QED BY <2>1
<1>4. CASE Discovered
  BY <1>4, Orders DEF Discovered, Answer, deps
<1>5. CASE Skip
  <2>1. pc = "spawn" /\ Advance /\ UNCHANGED <<call, initialized, proc, stray>>
    BY <1>5 DEF Skip
  <2>2. \A k \in at + 1..7: ~Alive(SpawnOrder[k])'
    BY <2>1
  <2> QED BY <2>1, <2>2, Advances
<1>6. CASE AskForCamera
  BY <1>6 DEF AskForCamera
<1>7. CASE Spawn
  <2>1. ~Alive(Current) /\ Current \in Groups
    BY <1>7, Orders DEF Spawn, Current
  <2>2. stray' = {} /\ proc' = [proc EXCEPT ![Current] = "whole"]
    BY <1>7, <2>1 DEF Spawn, Popen
  <2>3. ASSUME NEW k \in at + 1..7 PROVE ~Alive(SpawnOrder[k])'
    <3>1. k \in at..7 /\ SpawnOrder[k] \in Groups /\ SpawnOrder[k] # Current
      BY Orders DEF Current
    <3>2. proc[SpawnOrder[k]] \notin {"whole", "headless"}
      BY <1>7, <3>1 DEF Spawn
    <3> QED BY <2>2, <3>1, <3>2
  <2>4. \A g \in Groups \ ScanGroups: proc'[g] # "headless"
    BY <2>2
  <2>5. pc \in {"spawn", "camera"} /\ UNCHANGED <<call, initialized>>
    BY <1>7 DEF Spawn
  <2>6. CASE pc' = "check" /\ at' = at
    BY <2>2, <2>3, <2>4, <2>5, <2>6
  <2>7. CASE Advance
    BY <2>2, <2>3, <2>4, <2>5, <2>7, Advances
  <2> QED BY <1>7, <2>6, <2>7 DEF Spawn
<1>8. CASE Check
  <2>1. pc = "check" /\ UNCHANGED <<call, initialized, proc, stray>>
    BY <1>8 DEF Check
  <2>2. \A k \in at + 1..7: ~Alive(SpawnOrder[k])'
    BY <2>1
  <2>3. Advance \/ (pc' = "kill" /\ at' = 1)
    BY <1>8 DEF Check, StartKill
  <2>4. CASE Advance
    BY <2>1, <2>2, <2>4, Advances
  <2>5. CASE pc' = "kill" /\ at' = 1
    BY <2>1, <2>5
  <2> QED BY <2>3, <2>4, <2>5
<1>9. CASE SpawnRaises
  BY <1>9 DEF SpawnRaises, StartKill, deps
<1>10. CASE ActionReady
  BY <1>10 DEF ActionReady, deps
<1>11. CASE SpeedReady
  BY <1>11 DEF SpeedReady, Answer, deps
<1>12. CASE WaitFails
  BY <1>12 DEF WaitFails, StartKill, deps
<1>13. CASE KillNext
  <2>1. pc = "kill" /\ KillOrder[at] \in Groups /\ KillGroup(KillOrder[at])
    BY <1>13, Orders DEF KillNext
  <2>2. ASSUME NEW g \in Groups, KillGroup(g)
        PROVE  /\ stray' = {}
               /\ proc'[g] \in {"none", "gone"}
               /\ \A h \in Groups: h # g => proc'[h] = proc[h]
    BY <2>2 DEF KillGroup, Signalled
  <2>3. stray' = {} /\ \A h \in Groups: proc'[h] = proc[h] \/ proc'[h] \in {"none", "gone"}
    BY <2>1, <2>2
  <2>4. ASSUME NEW k \in 1..at PROVE proc'[KillOrder[k]] \in {"none", "gone"}
    <3>1. KillOrder[k] \in Groups
      BY Orders
    <3>2. CASE k = at
      BY <2>1, <2>2, <3>2
    <3>3. CASE k < at
      <4>1. proc[KillOrder[k]] \in {"none", "gone"}
        BY <2>1, <3>1, <3>3
      <4> QED BY <2>3, <3>1, <4>1
    <3> QED BY <3>2, <3>3
  <2>5. CASE at = 7
    <3>1. \A g \in Groups: proc'[g] \in {"none", "gone"}
      BY <2>4, <2>5, Orders
    <3> QED BY <1>13, <2>1, <2>3, <2>5, <3>1, Orders DEF KillNext, Answer, deps
  <2>6. CASE at < 7
    <3>1. at' = at + 1 /\ pc' = "kill" /\ UNCHANGED <<call, initialized>>
      BY <1>13, <2>1, <2>6, Orders DEF KillNext
    <3>2. \A k \in 1..at' - 1: proc'[KillOrder[k]] \in {"none", "gone"}
      BY <2>4, <3>1
    <3>3. \A g \in Groups \ ScanGroups: proc'[g] # "headless"
      BY <2>3
    <3>4. pc' = "kill" => \A k \in 1..at' - 1: ~Alive(KillOrder[k])'
      BY <3>2
    <3> QED BY <2>1, <2>3, <3>1, <3>3, <3>4
  <2>7. at = 7 \/ at < 7
    OBVIOUS
  <2> HIDE <1>0 DEF BringupInv, BringupTypeOK, Alive
  <2> QED BY <2>5, <2>6, <2>7
<1>14. ASSUME NEW g \in Groups, Die(g) PROVE BringupInv'
  <2>1. /\ stray' = {}
        /\ \A h \in Groups: ~Alive(h) => proc'[h] = proc[h]
        /\ \A h \in Groups: proc'[h] = "headless" => proc[h] = "headless" \/ h \in ScanGroups
    BY <1>14 DEF Die
  <2> QED BY <1>14, <2>1, Orders DEF Die, deps
<1>15. CASE UNCHANGED vars
  BY <1>15 DEF vars, deps
<1> QED
  BY <1>1, <1>2, <1>3, <1>4, <1>5, <1>6, <1>7, <1>8, <1>9, <1>10, <1>11, <1>12, <1>13,
     <1>14, <1>15 DEF BringupNext, InitStep

\* Type correctness of the bring-up, whatever dies and whoever offers inputs.
THEOREM BringupTypeCorrect == BringupSpec => []BringupTypeOK
<1>1. BringupInit => BringupTypeOK
  BY InitEstablishes DEF BringupInv
<1> QED BY <1>1, TypeStep, PTL DEF BringupSpec

\* If no leader but those of the scan programs can die before its children, an
\* error and a shutdown leave no process group running, for every number of
\* retries, contracts, providers and configurations.
THEOREM NothingLeftCorrect ==
  ASSUME Headless \subseteq ScanGroups
  PROVE  BringupSpec => []NothingLeftRunning
<1>1. BringupInv /\ [BringupNext]_vars => BringupInv'
  BY InvStep
<1>2. BringupInv => NothingLeftRunning
  BY DEF BringupInv, NothingLeftRunning
<1> QED BY <1>1, <1>2, InitEstablishes, PTL DEF BringupSpec

\* Over any number of starts and changes of provider, the channels Atlas sees
\* are one for each contract held, and the provider in use is the one held.
THEOREM ConsumersCorrect == BringupSpec => []ConsumersKnown
<1> DEFINE Inv == BringupTypeOK /\ ConsumersKnown
<1>1. BringupInit => Inv
  <2>1. BringupInit => ConsumersKnown
    BY DEF BringupInit, ConsumersKnown
  <2> QED BY <2>1, InitEstablishes DEF BringupInv
<1>2. Inv /\ [BringupNext]_vars => Inv'
  <2> SUFFICES ASSUME Inv, [BringupNext]_vars PROVE ConsumersKnown'
    BY TypeStep
  <2>1. ASSUME NEW c \in Contracts, ResolveDep(c) PROVE ConsumersKnown'
    <3>1. CASE UNCHANGED <<bound, channel, open>>
      BY <3>1 DEF ConsumersKnown
    <3>2. ASSUME NEW p \in Providers, NEW b \in {p, None}, bound' = [bound EXCEPT ![c] = b],
                 channel[c] = p, UNCHANGED <<channel, open>>
          PROVE  ConsumersKnown'
      BY <3>2 DEF ConsumersKnown, BringupTypeOK
    <3>3. ASSUME NEW p \in Providers, NEW b \in {p, None}, bound' = [bound EXCEPT ![c] = b],
                 Connected(c, p)
          PROVE  ConsumersKnown'
      <4>1. channel' = [channel EXCEPT ![c] = p] /\ p # None
        BY <3>3, BringupAssumption DEF Connected
      <4>2. \A d \in Contracts: bound'[d] # None => bound'[d] = channel'[d]
        BY <3>3, <4>1 DEF ConsumersKnown, BringupTypeOK
      <4>3. open' = {<<d, channel'[d]>> : d \in {e \in Contracts: channel'[e] # None}}
        BY <3>3, <4>1 DEF ConsumersKnown, BringupTypeOK, Connected
      <4> QED BY <4>2, <4>3 DEF ConsumersKnown
    <3> QED BY <2>1, <3>1, <3>2, <3>3 DEF ResolveDep
  <2>2. CASE CmdInit
    <3>1. UNCHANGED <<channel, open>> /\ (bound' = bound \/ bound' = [c \in Contracts |-> None])
      BY <2>2 DEF CmdInit
    <3> QED BY <3>1 DEF ConsumersKnown
  <2>3. CASE UNCHANGED <<bound, channel, open>>
    BY <2>3 DEF ConsumersKnown
  <2> QED
    BY <2>1, <2>2, <2>3 DEF BringupNext, InitStep, vars, deps, CmdShutdown, Discovered, Skip,
       AskForCamera, Spawn, Check, SpawnRaises, ActionReady, SpeedReady, WaitFails, KillNext, Die
<1>3. Inv => ConsumersKnown
  OBVIOUS
<1> HIDE DEF Inv
<1> QED BY <1>1, <1>2, <1>3, PTL DEF BringupSpec

(***************************************************************************)
(* What a start that answers ok has started.                               *)
(***************************************************************************)
\* The first n groups of the order are the wanted ones, out of inputs found;
\* of those after them only Nav2's reference may be left from before.
Started(n) ==
  \A k \in 1..7:
    /\ k <= n => (proc[SpawnOrder[k]] # "none" <=> SpawnOrder[k] \in wanted)
    /\ k <= n /\ SpawnOrder[k] \in wanted => Inputs(SpawnOrder[k])
    /\ k > n /\ SpawnOrder[k] # "nav2" => proc[SpawnOrder[k]] = "none"

\* The configuration's chain is wanted.
Chain ==
  /\ {"guard", "nav2"} \subseteq wanted
  /\ \A c \in Required: Have(c)
  /\ Projecting => {"projector", "filter"} \subseteq wanted

Serving == initialized /\ call # "shutdown"
Starting == pc \in {"spawn", "camera", "check", "action", "speed"}

PhaseInv ==
  /\ initialized => pc = "idle" \/ call = "shutdown"
  /\ call = "shutdown" => pc \in {"idle", "kill"}
  /\ pc \notin {"resolve", "camera"} => ask = {}
  /\ pc = "camera" => at = 4 /\ ask \subseteq Camera

StartInv ==
  /\ pc \in {"idle", "resolve"} /\ ~initialized =>
       \A g \in Groups \ {"nav2"}: proc[g] = "none"
  /\ pc = "kill" =>
       \A k \in 1..at - 1: KillOrder[k] # "nav2" => proc[KillOrder[k]] = "none"
  /\ pc \in {"spawn", "camera"} => Started(at - 1)
  /\ pc = "check" => Started(at)
  /\ pc \in {"action", "speed"} \/ Serving => Started(7)
  /\ Starting \/ Serving => Chain

LEMMA SpawnOrders ==
  /\ \A k \in 1..7: SpawnOrder[k] \in Groups /\ (SpawnOrder[k] = "nav2" <=> k = 7)
                    /\ (SpawnOrder[k] = "depth" <=> k = 4)
  /\ \A k, l \in 1..7: SpawnOrder[k] = SpawnOrder[l] => k = l
  /\ \A g \in Groups: \E k \in 1..7: SpawnOrder[k] = g
  /\ "nav2" \in Groups /\ "projector" \in ScanGroups /\ "depth" \notin ScanGroups
BY DEF SpawnOrder, Groups, ScanGroups

LEMMA PhaseStep == ASSUME BringupTypeOK, PhaseInv, [BringupNext]_vars PROVE PhaseInv'
<1> USE DEF PhaseInv
<1>1. CASE CmdInit
  BY <1>1 DEF CmdInit, Answer
<1>2. CASE CmdShutdown
  BY <1>2 DEF CmdShutdown, StartKill, deps
<1>3. ASSUME NEW c \in Contracts, ResolveDep(c) PROVE PhaseInv'
  BY <1>3 DEF ResolveDep
<1>4. CASE Discovered
  BY <1>4 DEF Discovered, Answer, deps
<1>5. CASE Skip
  BY <1>5 DEF Skip, Advance, deps
<1>6. CASE AskForCamera
  BY <1>6, SpawnOrders DEF AskForCamera, Current, BringupTypeOK
<1>7. CASE Spawn
  BY <1>7 DEF Spawn, Advance, deps
<1>8. CASE Check
  BY <1>8 DEF Check, StartKill, Advance, deps
<1>9. CASE SpawnRaises
  BY <1>9 DEF SpawnRaises, StartKill, deps
<1>10. CASE ActionReady \/ SpeedReady \/ WaitFails
  BY <1>10 DEF ActionReady, SpeedReady, WaitFails, Answer, StartKill, deps
<1>11. CASE KillNext
  BY <1>11 DEF KillNext, Answer, deps
<1>12. ASSUME NEW g \in Groups, Die(g) PROVE PhaseInv'
  BY <1>12 DEF Die, deps
<1>13. CASE UNCHANGED vars
  BY <1>13 DEF vars, deps
<1> QED
  BY <1>1, <1>2, <1>3, <1>4, <1>5, <1>6, <1>7, <1>8, <1>9, <1>10, <1>11, <1>12, <1>13
     DEF BringupNext, InitStep

\* While the camera is looked up, no other input moves.
LEMMA CameraApart ==
  ASSUME BringupTypeOK, PhaseInv, pc = "camera", NEW c \in Contracts, ResolveDep(c)
  PROVE  /\ \A d \in Required \cup Optional: Have(d)' <=> Have(d)
         /\ UNCHANGED <<pc, call, initialized, cfg, wanted, at, proc>>
<1>1. c \in Camera /\ UNCHANGED <<pc, call, initialized, cfg, wanted, at, proc>>
  BY DEF ResolveDep, PhaseInv
<1>2. bound' = bound \/ \E b \in Providers \cup {None}: bound' = [bound EXCEPT ![c] = b]
  BY DEF ResolveDep
<1>3. \A d \in Required \cup Optional: d # c /\ d \in Contracts
  BY <1>1, BringupAssumption DEF Contracts, BringupAssumption
<1>4. \A d \in Required \cup Optional: bound'[d] = bound[d]
  BY <1>2, <1>3 DEF BringupTypeOK
<1> QED BY <1>1, <1>4 DEF Have

LEMMA StartStep ==
  ASSUME BringupTypeOK, BringupTypeOK', PhaseInv, PhaseInv', StartInv, [BringupNext]_vars
  PROVE  StartInv'
<1> USE DEF StartInv, Serving, Starting
<1>1. CASE CmdInit
  <2>1. CASE initialized
    <3>1. UNCHANGED <<pc, initialized, cfg, bound, wanted, at, proc>> /\ pc = "idle" /\ call # "shutdown"
      BY <1>1, <2>1 DEF CmdInit, Answer
    <3> QED BY <2>1, <3>1 DEF Started, Chain, Inputs, Have, Projecting
  <2>2. CASE ~initialized
    BY <1>1, <2>2 DEF CmdInit, Answer
  <2> QED BY <2>1, <2>2 DEF BringupTypeOK
<1>2. CASE CmdShutdown
  BY <1>2 DEF CmdShutdown, StartKill, deps
<1>3. ASSUME NEW c \in Contracts, ResolveDep(c) PROVE StartInv'
  <2>1. UNCHANGED <<pc, call, initialized, cfg, wanted, at, proc>> /\ ask # {}
    BY <1>3 DEF ResolveDep
  <2>2. CASE pc = "resolve"
    BY <2>1, <2>2 DEF PhaseInv
  <2>3. CASE pc = "camera"
    <3>1. \A d \in Required \cup Optional: Have(d)' <=> Have(d)
      BY <1>3, <2>3, CameraApart
    <3>2. at = 4
      BY <2>3 DEF PhaseInv
    <3>3. \A k \in 1..3: Inputs(SpawnOrder[k])' <=> Inputs(SpawnOrder[k])
      BY <3>1, SpawnOrders, BringupAssumption DEF Inputs, BringupAssumption
    <3>4. Started(3)'
      BY <2>1, <2>3, <3>2, <3>3, SpawnOrders DEF Started
    <3>5. Chain'
      BY <2>1, <2>3, <3>1, BringupAssumption DEF Chain, Projecting, BringupAssumption
    <3> QED BY <2>1, <2>3, <3>2, <3>4, <3>5 DEF PhaseInv
  <2> QED BY <2>1, <2>2, <2>3 DEF PhaseInv
<1>4. CASE Discovered
  <2>1. CASE pc' = "idle"
    BY <1>4, <2>1 DEF Discovered, Answer, deps, PhaseInv
  <2>2. CASE pc' # "idle"
    <3>1. /\ pc = "resolve" /\ pc' = "spawn" /\ at' = 1 /\ wanted' = Wanted
          /\ \A c \in Required: Have(c)
          /\ UNCHANGED <<call, initialized, cfg, bound, proc>>
      BY <1>4, <2>2 DEF Discovered, Answer, deps
    <3>2. \A g \in Groups \ {"nav2"}: proc[g] = "none"
      BY <3>1 DEF PhaseInv
    <3>3. Started(0)'
      BY <3>1, <3>2, SpawnOrders DEF Started
    <3>4. Chain'
      BY <3>1, <3>2, SpawnOrders DEF Chain, Wanted, Projecting, Have, Groups
    <3> QED BY <3>1, <3>3, <3>4 DEF PhaseInv
  <2> QED BY <2>1, <2>2
<1>5. CASE Skip
  <2>1. /\ pc = "spawn" /\ SpawnOrder[at] \notin wanted /\ at \in 1..7
        /\ UNCHANGED <<call, initialized, cfg, bound, wanted, proc>>
    BY <1>5 DEF Skip, Current, deps, BringupTypeOK
  <2>2. at # 7
    BY <2>1, SpawnOrders DEF Chain
  <2>3. pc' = "spawn" /\ at' = at + 1
    BY <1>5, <2>1, <2>2, Orders DEF Skip, Advance
  <2>4. (Started(at - 1))'
    <3>1. proc[SpawnOrder[at]] = "none"
      BY <2>1, <2>2, SpawnOrders DEF Started
    <3> QED BY <2>1, <2>2, <2>3, <3>1 DEF Started, Inputs, Have
  <2>5. Chain'
    BY <2>1 DEF Chain, Projecting, Have
  <2> QED BY <2>1, <2>3, <2>4, <2>5 DEF PhaseInv
<1>6. CASE AskForCamera
  BY <1>6 DEF AskForCamera, PhaseInv, Started, Chain, Inputs, Have, Projecting
<1>7. CASE Spawn
  <2>1. /\ pc \in {"spawn", "camera"} /\ SpawnOrder[at] \in wanted /\ Inputs(SpawnOrder[at]) /\ at \in 1..7
        /\ proc' = [proc EXCEPT ![SpawnOrder[at]] = "whole"]
        /\ UNCHANGED <<call, initialized, cfg, bound, wanted>>
    BY <1>7 DEF Spawn, Popen, Current, deps, BringupTypeOK
  <2>2. /\ proc'[SpawnOrder[at]] = "whole"
        /\ \A k \in 1..7: k # at => proc'[SpawnOrder[k]] = proc[SpawnOrder[k]]
    BY <2>1, SpawnOrders DEF BringupTypeOK
  <2>3. ASSUME NEW k \in 1..7
        PROVE  /\ k <= at => (proc'[SpawnOrder[k]] # "none" <=> SpawnOrder[k] \in wanted)
               /\ k <= at /\ SpawnOrder[k] \in wanted => Inputs(SpawnOrder[k])
               /\ k > at /\ SpawnOrder[k] # "nav2" => proc'[SpawnOrder[k]] = "none"
    <3>1. CASE k = at
      BY <2>1, <2>2, <3>1
    <3>2. CASE k # at
      <4>1. k <= at => k <= at - 1
        BY <2>1, <3>2
      <4>2. k > at => k > at - 1
        BY <2>1
      <4>3. proc'[SpawnOrder[k]] = proc[SpawnOrder[k]]
        BY <2>2, <3>2
      <4> QED BY <2>1, <4>1, <4>2, <4>3 DEF Started
    <3> QED BY <3>1, <3>2
  <2>4. \A g: Inputs(g)' <=> Inputs(g)
    BY <2>1 DEF Inputs, Have
  <2>5. Chain'
    BY <2>1 DEF Chain, Projecting, Have
  <2>6. CASE pc' = "check" /\ at' = at
    <3>1. (Started(at))'
      BY <2>1, <2>3, <2>4, <2>6 DEF Started
    <3> QED BY <2>1, <2>5, <2>6, <3>1 DEF PhaseInv
  <2>7. CASE pc' = "spawn" /\ at' = at + 1
    <3>1. (Started(at - 1))'
      BY <2>1, <2>3, <2>4, <2>7 DEF Started
    <3> QED BY <2>1, <2>5, <2>7, <3>1 DEF PhaseInv
  <2>8. CASE pc' = "action" /\ at = 7
    <3>1. Started(7)'
      BY <2>1, <2>3, <2>4, <2>8 DEF Started
    <3> QED BY <2>1, <2>5, <2>8, <3>1 DEF PhaseInv
  <2>9. \/ pc' = "check" /\ at' = at
        \/ pc' = "spawn" /\ at' = at + 1
        \/ pc' = "action" /\ at = 7
    BY <1>7, <2>1, Orders DEF Spawn, Advance
  <2> QED BY <2>6, <2>7, <2>8, <2>9
<1>8. CASE Check
  <2>1. pc = "check" /\ at \in 1..7 /\ UNCHANGED <<call, initialized, cfg, bound, wanted, proc>>
    BY <1>8 DEF Check, deps, BringupTypeOK
  <2>2. \/ pc' = "kill" /\ at' = 1
        \/ pc' = "spawn" /\ at' = at + 1
        \/ pc' = "action" /\ at = 7
    BY <1>8, <2>1, Orders DEF Check, StartKill, Advance
  <2>3. Chain'
    BY <2>1 DEF Chain, Projecting, Have
  <2>4. CASE pc' = "kill" /\ at' = 1
    BY <2>1, <2>4 DEF PhaseInv
  <2>5. CASE pc' = "spawn" /\ at' = at + 1
    <3>1. (Started(at - 1))'
      BY <2>1, <2>5 DEF Started, Inputs, Have
    <3> QED BY <2>1, <2>3, <2>5, <3>1 DEF PhaseInv
  <2>6. CASE pc' = "action" /\ at = 7
    <3>1. Started(7)'
      BY <2>1, <2>6 DEF Started, Inputs, Have
    <3> QED BY <2>1, <2>3, <2>6, <3>1 DEF PhaseInv
  <2> QED BY <2>2, <2>4, <2>5, <2>6
<1>9. CASE SpawnRaises
  BY <1>9 DEF SpawnRaises, StartKill, PhaseInv, deps
<1>10. CASE ActionReady \/ SpeedReady
  <2>1. /\ pc \in {"action", "speed"} /\ pc' \in {"speed", "idle"} /\ (pc' = "idle" => initialized')
        /\ UNCHANGED <<call, cfg, bound, wanted, proc>>
    BY <1>10 DEF ActionReady, SpeedReady, Answer, deps
  <2>2. Started(7)' /\ Chain'
    BY <2>1 DEF Started, Chain, Inputs, Have, Projecting
  <2> QED BY <2>1, <2>2
<1>11. CASE WaitFails
  BY <1>11 DEF WaitFails, StartKill, PhaseInv, deps
<1>12. CASE KillNext
  <2>1. /\ pc = "kill" /\ at \in 1..7 /\ KillOrder[at] \in Groups
        /\ UNCHANGED <<call, initialized>>
        /\ proc' = [proc EXCEPT ![KillOrder[at]] =
                      IF KillOrder[at] # "nav2" THEN "none"
                      ELSE IF Signalled(KillOrder[at]) THEN "gone" ELSE @]
    BY <1>12, Orders DEF KillNext, KillGroup, BringupTypeOK
  <2>2. ASSUME NEW k \in 1..at, KillOrder[k] # "nav2" PROVE proc'[KillOrder[k]] = "none"
    <3>1. CASE k = at
      BY <2>1, <2>2, <3>1 DEF BringupTypeOK
    <3>2. CASE k # at
      <4>1. k \in 1..at - 1 /\ KillOrder[k] \in Groups
        BY <2>1, <3>2, Orders
      <4>2. proc[KillOrder[k]] = "none"
        BY <2>1, <2>2, <4>1
      <4> QED BY <2>1, <2>2, <4>1, <4>2 DEF BringupTypeOK
    <3> QED BY <3>1, <3>2
  <2>3. CASE at = 7
    <3>1. \A g \in Groups \ {"nav2"}: proc'[g] = "none"
      BY <2>2, <2>3, Orders
    <3>2. pc' = "idle"
      BY <1>12, <2>3, Orders DEF KillNext, Answer
    <3> QED BY <2>1, <3>1, <3>2 DEF PhaseInv
  <2>4. CASE at # 7
    <3>1. pc' = "kill" /\ at' = at + 1
      BY <1>12, <2>1, <2>4, Orders DEF KillNext
    <3>2. \A k \in 1..at' - 1: KillOrder[k] # "nav2" => proc'[KillOrder[k]] = "none"
      BY <2>1, <2>2, <3>1
    <3> QED BY <2>1, <3>1, <3>2 DEF PhaseInv
  <2> QED BY <2>3, <2>4
<1>13. ASSUME NEW g \in Groups, Die(g) PROVE StartInv'
  <2>1. UNCHANGED <<pc, call, initialized, cfg, bound, wanted, at>>
    BY <1>13 DEF Die, deps
  <2>2. \A h \in Groups: proc'[h] = "none" <=> proc[h] = "none"
    BY <1>13 DEF Die, Alive, BringupTypeOK
  <2>3. \A k \in 1..7: /\ proc'[SpawnOrder[k]] = "none" <=> proc[SpawnOrder[k]] = "none"
                       /\ proc'[KillOrder[k]] = "none" <=> proc[KillOrder[k]] = "none"
    BY <2>2, Orders
  <2>4. \A h: Inputs(h)' <=> Inputs(h)
    BY <2>1 DEF Inputs, Have
  <2>5. Chain => Chain'
    BY <2>1 DEF Chain, Projecting, Have
  <2>6. /\ pc \in {"spawn", "camera"} => (Started(at - 1))'
        /\ pc = "check" => (Started(at))'
        /\ pc \in {"action", "speed"} \/ Serving => (Started(7))'
    BY <2>1, <2>3, <2>4 DEF Started
  <2>7. pc = "kill" => \A k \in 1..at - 1: KillOrder[k] # "nav2" => proc'[KillOrder[k]] = "none"
    BY <2>3 DEF BringupTypeOK
  <2> QED BY <2>1, <2>2, <2>5, <2>6, <2>7
<1>14. CASE UNCHANGED vars
  BY <1>14 DEF vars, deps, Started, Chain, Inputs, Have, Projecting
<1> QED
  BY <1>1, <1>2, <1>3, <1>4, <1>5, <1>6, <1>7, <1>8, <1>9, <1>10, <1>11, <1>12, <1>13,
     <1>14 DEF BringupNext, InitStep

\* Whatever attempts failed before it and whatever dies while it runs, a start
\* that answers ok has started what its configuration asks for, out of inputs
\* that were found, and nothing else.
THEOREM StartedCorrect == BringupSpec => []StartedWhole
<1>1. BringupInit => BringupTypeOK /\ PhaseInv /\ StartInv
  <2>1. BringupInit => PhaseInv /\ StartInv
    BY DEF BringupInit, PhaseInv, StartInv, Serving, Starting
  <2> QED BY <2>1, InitEstablishes DEF BringupInv
<1>2. BringupTypeOK /\ BringupTypeOK' /\ PhaseInv /\ StartInv /\ [BringupNext]_vars => PhaseInv' /\ StartInv'
  BY PhaseStep, StartStep
<1>3. BringupTypeOK /\ StartInv => StartedWhole
  <2> SUFFICES ASSUME BringupTypeOK, StartInv, Serving PROVE StartedWhole
    BY DEF StartedWhole, Serving
  <2>1. Started(7) /\ Chain /\ wanted \subseteq Groups
    BY DEF StartInv, BringupTypeOK
  <2>2. ASSUME NEW g \in Groups
        PROVE  (proc[g] # "none" <=> g \in wanted) /\ (g \in wanted => Inputs(g))
    <3>1. PICK k \in 1..7: SpawnOrder[k] = g
      BY SpawnOrders
    <3> QED BY <2>1, <3>1 DEF Started
  <2>3. {g \in Groups: proc[g] # "none"} = wanted
    BY <2>1, <2>2
  <2>4. "projector" \in wanted => Have("scan_cloud")
    BY <2>2, SpawnOrders DEF Inputs, Groups
  <2>5. "depth" \in wanted => \A c \in Camera: bound[c] # None
    BY <2>2, SpawnOrders DEF Inputs, Groups
  <2> QED BY <2>1, <2>3, <2>4, <2>5 DEF Chain, StartedWhole
<1> QED BY <1>1, <1>2, <1>3, BringupTypeCorrect, PTL DEF BringupSpec
=============================================================================
