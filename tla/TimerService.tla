---------------------------- MODULE TimerService ----------------------------
(***************************************************************************)
(* What clock.TestClock promises its callers: a schedule that gives each   *)
(* ticker, timer and After channel at most one deadline, and an Advance    *)
(* that expires what is due, earliest first, before time moves.  Expired   *)
(* firings are owed to the handle until they are delivered, and are        *)
(* delivered (or dropped on a full channel) one by one.                    *)
(***************************************************************************)
EXTENDS Integers

CONSTANTS
  Handles,     \* tickers, timers and After channels
  Tickers,     \* the tickers among them
  None,        \* no deadline, no Advance in progress
  Durations, Steps, SetTimes   \* arguments of registrations, Advance and Set

VARIABLES
  time,    \* what Now returns
  until,   \* the time an Advance in progress is moving to, or None
  armed,   \* the deadline of each handle, or None
  period,  \* the interval of each ticker
  owed     \* per handle: expired firings not delivered yet

Init ==
  /\ time = 0 /\ until = None
  /\ armed  = [h \in Handles |-> None]
  /\ period = [h \in Tickers |-> 0]
  /\ owed   = [h \in Handles |-> 0]

\* NewTicker starts h with interval d.
StartTicker(h, d) ==
  /\ until = None /\ armed[h] = None /\ d > 0
  /\ armed'  = [armed EXCEPT ![h] = time + d]
  /\ period' = [period EXCEPT ![h] = d]
  /\ UNCHANGED <<time, until, owed>>

\* After and AfterFunc arm a one-shot handle, Reset re-arms it: an earlier
\* deadline is forgotten.
Arm(h, d) ==
  /\ until = None
  /\ armed' = [armed EXCEPT ![h] = time + d]
  /\ UNCHANGED <<time, until, period, owed>>

\* Stop: the deadline is forgotten.
Disarm(h) ==
  /\ until = None
  /\ armed' = [armed EXCEPT ![h] = None]
  /\ UNCHANGED <<time, until, period, owed>>

\* Set moves the time and expires nothing.
Jump(t) ==
  /\ until = None
  /\ time' = t
  /\ UNCHANGED <<until, armed, period, owed>>

\* Advance begins, and nobody changes the schedule until it has expired all
\* that is due.
Begin(d) ==
  /\ until = None
  /\ until' = time + d
  /\ UNCHANGED <<time, armed, period, owed>>

\* The earliest deadline that is due expires; a ticker is due again one
\* interval after it.
Expire(h) ==
  /\ until # None /\ armed[h] # None
  /\ armed[h] <= until
  /\ \A g \in Handles : armed[g] # None => armed[h] <= armed[g]
  /\ armed' = [armed EXCEPT ![h] = IF h \in Tickers THEN @ + period[h] ELSE None]
  /\ owed'  = [owed EXCEPT ![h] = @ + 1]
  /\ UNCHANGED <<time, until, period>>

\* Nothing else is due: time moves.
Finish ==
  /\ until # None
  /\ \A h \in Handles : armed[h] # None => armed[h] > until
  /\ time' = until
  /\ until' = None
  /\ UNCHANGED <<armed, period, owed>>

\* One owed firing of h is delivered.
Deliver(h) ==
  /\ owed[h] > 0
  /\ owed' = [owed EXCEPT ![h] = @ - 1]
  /\ UNCHANGED <<time, until, armed, period>>

Next ==
  \/ \E d \in Steps : Begin(d)
  \/ \E t \in SetTimes : Jump(t)
  \/ Finish
  \/ \E h \in Handles : Disarm(h) \/ Expire(h) \/ Deliver(h)
  \/ \E d \in Durations : \/ \E h \in Tickers : StartTicker(h, d)
                          \/ \E h \in Handles \ Tickers : Arm(h, d)

Spec == Init /\ [][Next]_<<time, until, armed, period, owed>>
=============================================================================
