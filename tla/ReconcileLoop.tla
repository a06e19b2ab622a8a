---------------------------- MODULE ReconcileLoop ----------------------------
(* What makes the daemon start a pass: the watcher (sync/watcher.go) with    *)
(* its debounce timer, the loop's channel and tickers                        *)
(* (daemon.runReconcileLoop), pause, resume and POST /sync.  What a pass     *)
(* does is the business of SyncEngine; here it has a start, from which on it *)
(* sees what the folders hold, and an end.                                   *)
EXTENDS Naturals, Sequences

CONSTANTS
    Dirs,          \* directories that may exist below a watched folder
    Root,          \* the folder itself
    Parent,        \* Parent[d], for every directory but Root
    EventCap,      \* events the kernel keeps for the watcher
    Debounce,      \* length of the debounce, in steps of the timer
    None           \* an event that creates no directory

ASSUME DirsAssumption ==
    /\ Root \in Dirs
    /\ Parent \in [Dirs \ {Root} -> Dirs]
    /\ None \notin Dirs
ASSUME BoundsAssumption == EventCap \in Nat \ {0} /\ Debounce \in Nat \ {0}

Tickers == {"remote", "full"}
Sources == Tickers \cup {"watch"}

VARIABLES
    exists,      \* directories on disk
    watched,     \* directories the notifier watches
    listed,      \* directories WalkDir has read in a parent and not visited
    watcher,     \* "walk" | "run" | "off"
    events,      \* what the kernel holds for notifier.Events
    armed,       \* w's armed flag
    left,        \* what the debounce timer has still to run
    slot,        \* the one-slot channels: ticks, remoteT.C and fullT.C
    pc,          \* the loop: "boot" | "idle" | "checked" | "pass" | "done"
    paused,      \* Daemon.paused
    cancelled,   \* the context of Run is done
    \* History, read by properties only.
    owed,        \* something changed since a pass last started
    noticed,     \* some of that was in a watched directory
    missed,      \* a tick of the watcher was thrown away since, while paused
    sincePause   \* passes the loop started since the last pause; up to 2

disk    == <<exists, owed>>
watch   == <<watched, listed, watcher, armed, left>>
loop    == <<pc, missed, sincePause>>
user    == <<paused, cancelled>>
vars == <<disk, watch, loop, user, events, slot, noticed>>

Init ==
    /\ exists \in {D \in SUBSET Dirs : Root \in D
                        /\ \A d \in D \ {Root} : Parent[d] \in D}
    /\ watched = {} /\ listed = {Root} /\ watcher = "walk"
    /\ events = <<>> /\ armed = FALSE /\ left = 0
    /\ slot = [s \in Sources |-> FALSE]
    /\ pc = "boot" /\ paused = FALSE /\ cancelled = FALSE
    /\ owed = TRUE /\ noticed = FALSE /\ missed = FALSE /\ sincePause = 0

-------------------------------------------------------------------------------
(* The folders.  An event beyond what the kernel keeps is lost (the watcher  *)
(* ignores notifier.Errors), and so is one in a directory nobody watches.    *)

Notify(d, event) ==
    /\ owed' = TRUE
    /\ noticed' = (noticed \/ d \in watched)
    /\ events' = IF d \in watched /\ Len(events) < EventCap
                 THEN Append(events, event) ELSE events

ChangeFile(d) ==
    /\ d \in exists
    /\ Notify(d, None)
    /\ UNCHANGED <<exists, watch, loop, user, slot>>

MakeDir(d) ==
    /\ d \in Dirs \ exists /\ Parent[d] \in exists
    /\ exists' = exists \cup {d}
    /\ Notify(Parent[d], d)
    /\ UNCHANGED <<watch, loop, user, slot>>

\* The notifier forgets a directory that is gone.
RemoveDir(d) ==
    /\ d \in exists \ {Root} /\ \A c \in exists \ {Root} : Parent[c] # d
    /\ exists' = exists \ {d}
    /\ Notify(Parent[d], None)
    /\ watched' = watched \ {d}
    /\ UNCHANGED <<listed, watcher, armed, left, loop, user, slot>>

-------------------------------------------------------------------------------
(* Watcher.Run, a goroutine of its own.  It ends without a word when the     *)
(* notifier cannot be made.                                                  *)

WatcherFails ==
    /\ watcher = "walk" /\ watched = {} /\ listed = {Root}
    /\ watcher' = "off"
    /\ UNCHANGED <<disk, watched, listed, armed, left, loop, user, events, slot, noticed>>

\* WalkDir: the directory is added, perhaps in vain, and then read.
WatchDir(d) ==
    /\ watcher = "walk" /\ d \in listed
    /\ \/ d \in exists /\ watched' = watched \cup {d}
       \/ UNCHANGED watched
    /\ listed' = (listed \ {d}) \cup {c \in exists \ {Root} : d \in exists /\ Parent[c] = d}
    /\ UNCHANGED <<disk, watcher, armed, left, loop, user, events, slot, noticed>>

WalkDone ==
    /\ watcher = "walk" /\ listed = {}
    /\ watcher' = "run"
    /\ UNCHANGED <<disk, watched, listed, armed, left, loop, user, events, slot, noticed>>

\* An event: a directory that was created and is still there is watched, what
\* it already holds is not looked at; the timer is started if it is not running.
Arm_Restarts == armed' = TRUE /\ left' = Debounce

Arm == /\ armed' = TRUE
       /\ left' = IF armed THEN left ELSE Debounce

HandleEvent_WatchesFiles ==
    /\ watcher = "run" /\ events # <<>>
    /\ events' = Tail(events)
    /\ watched' \in {watched, watched \cup {Head(events)}}
    /\ Arm
    /\ UNCHANGED <<disk, listed, watcher, loop, user, slot, noticed>>

HandleEvent ==
    /\ watcher = "run" /\ events # <<>>
    /\ events' = Tail(events)
    /\ \/ Head(events) \in exists /\ watched' = watched \cup {Head(events)}
       \/ UNCHANGED watched
    /\ Arm
    /\ UNCHANGED <<disk, listed, watcher, loop, user, slot, noticed>>

TimerRuns ==
    /\ armed /\ left > 0
    /\ left' = left - 1
    /\ UNCHANGED <<disk, watched, listed, watcher, armed, loop, user, events, slot, noticed>>

\* tick.C: one tick for the loop, unless one is waiting there.
Fire_Unbuffered ==
    /\ watcher = "run" /\ armed /\ left = 0
    /\ armed' = FALSE
    /\ slot' = [slot EXCEPT !["watch"] = pc = "idle"]
    /\ UNCHANGED <<disk, watched, listed, watcher, left, loop, user, events, noticed>>

Fire ==
    /\ watcher = "run" /\ armed /\ left = 0
    /\ armed' = FALSE
    /\ slot' = [slot EXCEPT !["watch"] = TRUE]
    /\ UNCHANGED <<disk, watched, listed, watcher, left, loop, user, events, noticed>>

\* ctx.Done; the notifier is closed.
WatcherStops ==
    /\ cancelled /\ watcher = "run"
    /\ watcher' = "off" /\ watched' = {} /\ events' = <<>>
    /\ UNCHANGED <<disk, listed, armed, left, loop, user, slot, noticed>>

-------------------------------------------------------------------------------
(* The loop.  A ticker's channel holds one tick, as time.Ticker's does.      *)

Ring(t) ==
    /\ pc # "done" /\ ~slot[t]
    /\ slot' = [slot EXCEPT ![t] = TRUE]
    /\ UNCHANGED <<disk, watch, loop, user, events, noticed>>

\* select: any tick that is there.  While paused it is thrown away.
TakeTick_Unchecked(s) ==
    /\ pc = "idle" /\ slot[s]
    /\ slot' = [slot EXCEPT ![s] = FALSE]
    /\ pc' = "checked"
    /\ UNCHANGED <<disk, watch, user, events, noticed, missed, sincePause>>

TakeTick_LeavesLoop(s) ==
    /\ pc = "idle" /\ slot[s]
    /\ slot' = [slot EXCEPT ![s] = FALSE]
    /\ pc' = IF paused THEN "done" ELSE "checked"
    /\ missed' = (missed \/ (paused /\ s = "watch"))
    /\ UNCHANGED <<disk, watch, user, events, noticed, sincePause>>

TakeTick(s) ==
    /\ pc = "idle" /\ slot[s]
    /\ slot' = [slot EXCEPT ![s] = FALSE]
    /\ pc' = IF paused THEN "idle" ELSE "checked"
    /\ missed' = (missed \/ (paused /\ s = "watch"))
    /\ UNCHANGED <<disk, watch, user, events, noticed, sincePause>>

\* A pass starts and will see all that was changed until now.
SeesAll == owed' = FALSE /\ noticed' = FALSE /\ missed' = FALSE

\* reconcileOnce: the first one without a look at paused.
StartPass ==
    /\ pc \in {"boot", "checked"}
    /\ pc' = "pass"
    /\ SeesAll
    /\ sincePause' = IF paused /\ sincePause < 2 THEN sincePause + 1 ELSE sincePause
    /\ UNCHANGED <<exists, watch, user, events, slot>>

EndPass ==
    /\ pc = "pass"
    /\ pc' = "idle"
    /\ UNCHANGED <<disk, watch, user, events, slot, noticed, missed, sincePause>>

LoopStops ==
    /\ cancelled /\ pc = "idle"
    /\ pc' = "done"
    /\ UNCHANGED <<disk, watch, user, events, slot, noticed, missed, sincePause>>

-------------------------------------------------------------------------------
(* The API, and the signal that ends the process.                            *)

Pause ==
    /\ ~cancelled
    /\ paused' = TRUE
    /\ sincePause' = IF paused THEN sincePause ELSE 0
    /\ UNCHANGED <<disk, watch, cancelled, events, slot, noticed, pc, missed>>

Resume ==
    /\ ~cancelled
    /\ paused' = FALSE
    /\ UNCHANGED <<disk, watch, loop, cancelled, events, slot, noticed>>

\* handleSync: a pass beside the loop, paused or not.
KickSync ==
    /\ ~cancelled
    /\ SeesAll
    /\ UNCHANGED <<exists, watch, user, events, slot, pc, sincePause>>

Cancel ==
    /\ ~cancelled
    /\ cancelled' = TRUE
    /\ UNCHANGED <<disk, watch, loop, paused, events, slot, noticed>>

-------------------------------------------------------------------------------
Watcher ==
    \/ WatcherFails \/ WalkDone \/ HandleEvent \/ TimerRuns \/ Fire \/ WatcherStops
    \/ \E d \in Dirs : WatchDir(d)
Loop == StartPass \/ EndPass \/ LoopStops \/ \E s \in Sources : TakeTick(s)
Disk == \E d \in Dirs : ChangeFile(d) \/ MakeDir(d) \/ RemoveDir(d)
User == Pause \/ Resume \/ KickSync \/ Cancel

Next == Watcher \/ Loop \/ Disk \/ User \/ \E t \in Tickers : Ring(t)

\* The loop goes on (a pass has a deadline), the tickers ring, and the watcher's
\* select takes what is ready: it chooses at random, so that nothing that stays
\* ready is passed over for ever.
Fairness ==
    /\ WF_vars(Loop)
    /\ \A t \in Tickers : WF_vars(Ring(t))
    /\ WF_vars(TimerRuns) /\ WF_vars(Fire) /\ WF_vars(HandleEvent)
    /\ WF_vars(WalkDone) /\ WF_vars(\E d \in Dirs : WatchDir(d))

Spec == Init /\ [][Next]_vars /\ Fairness

-------------------------------------------------------------------------------
(* Every variable of watcher, loop and history has its type.                 *)
TypeOK ==
    /\ exists \subseteq Dirs /\ watched \subseteq Dirs /\ listed \subseteq Dirs
    /\ watcher \in {"walk", "run", "off"}
    /\ events \in Seq(Dirs \cup {None}) /\ Len(events) <= EventCap
    /\ armed \in BOOLEAN /\ left \in 0..Debounce
    /\ slot \in [Sources -> BOOLEAN]
    /\ pc \in {"boot", "idle", "checked", "pass", "done"}
    /\ paused \in BOOLEAN /\ cancelled \in BOOLEAN
    /\ owed \in BOOLEAN /\ noticed \in BOOLEAN /\ missed \in BOOLEAN
    /\ sincePause \in 0..2

(* A change in a watched directory is never dropped between the notifier and *)
(* the loop, whatever a pass or a burst of events is doing meanwhile: until  *)
(* a pass starts, an event, the timer, a tick or a start is under way, or    *)
(* the loop threw the tick away because it was paused.                       *)
NoticedIsOnItsWay ==
    noticed /\ ~cancelled =>
        \/ events # <<>> /\ watcher # "off"
        \/ armed /\ watcher = "run"
        \/ slot["watch"] \/ pc \in {"boot", "checked"} \/ missed

(* Pausing halts the loop: it starts at most one more pass, the one it was   *)
(* about to start, and no other until the user resumes.                      *)
AtMostOnePassAfterPause == paused => sincePause <= 1

(* A burst of events that never ends does not put off the tick for ever.     *)
BurstsAreCut == armed ~> (~armed \/ watcher # "run")

(* Watcher, channel, tickers and loop together do their duty: after a change *)
(* a pass starts, also if the watcher never saw the change, unless the user  *)
(* keeps the daemon paused or stops it.                                      *)
Duty == INSTANCE SyncDuty WITH halted <- paused \/ cancelled
DoesItsDuty == Duty!Spec
===============================================================================
