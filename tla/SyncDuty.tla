------------------------------- MODULE SyncDuty -------------------------------
(* What the watcher, the tickers and the loop together promise the user: a   *)
(* change leaves a pass owed, and an owed pass starts unless syncing is      *)
(* halted.  How a change is noticed is not said here.                        *)
VARIABLES
    owed,      \* something changed since the last pass started
    halted     \* paused, or going down

vars == <<owed, halted>>

Init == owed = TRUE /\ halted = FALSE

Change == owed' = TRUE /\ UNCHANGED halted

\* A pass starts.  One may start with nothing owed, and even while halted: on
\* request, or because it was about to start.
Work == owed' = FALSE /\ UNCHANGED halted

Toggle == halted' \in BOOLEAN /\ UNCHANGED owed

Next == Change \/ Work \/ Toggle

\* A pass that is owed and not halted for ever is not put off for ever.
Fairness == WF_vars(owed /\ ~halted /\ Work)

Safety == Init /\ [][Next]_vars
Spec   == Safety /\ Fairness
===============================================================================
