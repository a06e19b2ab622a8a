------------------------------- MODULE MCDaemon -------------------------------
(* Daemon for TLC: the service and the user interface on one port.           *)
EXTENDS Daemon, TLC

CONSTANTS svc, ui
SamePort == [p \in Procs |-> 7777]

\* Secrets, keys and tokens are only compared for equality, and on one port the
\* processes are alike.
Alike == Permutations(Procs) \cup Permutations(Tokens)
            \cup Permutations(Passphrases) \cup Permutations(Draws)
===============================================================================
