------------------------------ MODULE MCBringup ------------------------------
(***************************************************************************)
(* Instances of Bringup for TLC.                                           *)
(***************************************************************************)
EXTENDS Bringup

CONSTANTS p1, p2

ScanTools == {"deskew", "projector"}
Launches == {"monitor", "nav2"}

NoHelpers == [valid |-> TRUE, override |-> {"map"}, wants |-> {}, clock |-> "wall"]

Cfg(w, o) == [valid |-> TRUE, override |-> o, wants |-> w, clock |-> "wall"]

\* Everything discovered for every helper; an overridden projector input; a
\* camera; a monitored scan pipeline; nothing; and a rejected configuration.
StartConfigs ==
  {Cfg({"deskew", "projector", "depth", "monitor"}, {}), Cfg({"projector"}, {"scan_cloud"}),
   Cfg({"depth"}, {"map"}), Cfg({"deskew", "projector", "monitor"}, {"map"}),
   NoHelpers, [NoHelpers EXCEPT !.valid = FALSE]}

WithMonitor == {Cfg({"monitor"}, {"map"})}
=============================================================================
