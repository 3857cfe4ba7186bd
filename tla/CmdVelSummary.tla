---------------------------- MODULE CmdVelSummary ----------------------------
(***************************************************************************)
(* The rolling summary of commands (cmd_vel_summary.py) that               *)
(* velocity_guard.py logs: one line a period, over every command of the    *)
(* window.  The guard hands it each command as bounded by the speed limit, *)
(* before the latch of the rotation guard: while latched it sends zero     *)
(* instead, and the zeros its timer sends are not handed over at all.  Of  *)
(* the two peaks the linear one is kept; speeds are counted in units.      *)
(***************************************************************************)
EXTENDS Naturals

CONSTANTS
  Speeds, StillLimit,  \* magnitudes of commands; still below the limit
  Period,
  MaxTime, MaxSeen     \* bounds: the clock, the commands observed

ASSUME CmdVelSummaryAssumption ==
  Speeds \subseteq Nat /\ StillLimit \in Nat \ {0} /\ Period \in Nat
    /\ MaxTime \in Nat /\ MaxSeen \in Nat

VARIABLES
  now, started, loggedAt,  \* started: _logged_at is not None
  count, still, peak,
  sent,            \* history: the fastest velocity of the window the base was sent
  line,            \* the line logged last
  seen, reported   \* history: commands observed, and counted in lines

summaryVars == <<now, started, loggedAt, count, still, peak, sent, line, seen, reported>>

NoLine == [n |-> 0, still |-> 0, peak |-> 0, sent |-> 0]

SummaryInit ==
  /\ now = 0 /\ started = FALSE /\ loggedAt = 0
  /\ count = 0 /\ still = 0 /\ peak = 0 /\ sent = 0
  /\ line = NoLine /\ seen = 0 /\ reported = 0

CountAgain == count' = 1 /\ still' = 0 /\ peak' = 0  \* seeded fault: the last command stays
Reset == count' = 0 /\ still' = 0 /\ peak' = 0

FasterOf(a, b) == IF a > b THEN a ELSE b

\* _on_cmd: what the base gets for a command the guard has evaluated.
SentFor(speed, latched) == IF latched THEN 0 ELSE speed

\* The window with one more command in it.
With(speed, latched) ==
  [n |-> count + 1,
   still |-> IF speed < StillLimit THEN still + 1 ELSE still,
   peak |-> FasterOf(speed, peak),
   sent |-> FasterOf(SentFor(speed, latched), sent)]

Keep(w) == count' = w.n /\ still' = w.still /\ peak' = w.peak

PeriodElapsed == started /\ now - loggedAt >= Period

Observe(speed, latched) ==
  LET w == With(speed, latched) IN
  /\ seen < MaxSeen
  /\ seen' = seen + 1
  /\ started' = TRUE
  /\ IF PeriodElapsed
       THEN /\ Reset /\ sent' = 0
            /\ loggedAt' = now
            /\ line' = w
            /\ reported' = reported + w.n
       ELSE /\ Keep(w) /\ sent' = w.sent
            /\ loggedAt' = (IF started THEN loggedAt ELSE now)
            /\ UNCHANGED <<line, reported>>
  /\ UNCHANGED now

\* A latched guard's timer sends zeros: nothing of this changes.
Tick ==
  /\ now < MaxTime /\ now' = now + 1
  /\ UNCHANGED <<started, loggedAt, count, still, peak, sent, line, seen, reported>>

SummaryNext == Tick \/ \E speed \in Speeds, latched \in BOOLEAN: Observe(speed, latched)

SummarySpec == SummaryInit /\ [][SummaryNext]_summaryVars

(***************************************************************************)
(* Properties                                                              *)
(***************************************************************************)
\* Lines account for the commands the guard was given: every command observed
\* is in exactly one line or in the window under way, whatever the pauses, and
\* a line, for its own window alone, tells a robot that was asked to move from
\* one that was not: all of its commands were still exactly if its peak is.  Of
\* what the base was sent a line gives no more than a bound: nothing was faster
\* than its peak, so a line of still commands alone means that nothing moved
\* the robot; a higher peak may have been held back by the latch.
EveryCommandIsReported ==
  /\ seen = reported + count
  /\ line.still = line.n <=> line.peak < StillLimit
  /\ line.sent <= line.peak
=============================================================================
