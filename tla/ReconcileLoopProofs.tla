------------------------- MODULE ReconcileLoopProofs -------------------------
(* For every tree of directories, every length of the kernel's queue and of  *)
(* the debounce: types, no change dropped on its way to the loop, the limit  *)
(* of a pause, and the safety half of the duty.                              *)
EXTENDS ReconcileLoop, TLAPS

LEMMA InitTypes == Init => TypeOK
<1> SUFFICES ASSUME Init PROVE TypeOK
  OBVIOUS
<1>1. /\ events \in Seq(Dirs \cup {None}) /\ Len(events) <= EventCap
      /\ left \in 0..Debounce /\ sincePause \in 0..2
  BY BoundsAssumption DEF Init
<1>2. slot \in [Sources -> BOOLEAN]
  BY DEF Init
<1>3. exists \subseteq Dirs /\ listed \subseteq Dirs
  BY DirsAssumption DEF Init
<1>4. /\ watched \subseteq Dirs
      /\ watcher \in {"walk", "run", "off"}
      /\ pc \in {"boot", "idle", "checked", "pass", "done"}
      /\ armed \in BOOLEAN /\ paused \in BOOLEAN /\ cancelled \in BOOLEAN
      /\ owed \in BOOLEAN /\ noticed \in BOOLEAN /\ missed \in BOOLEAN
  BY DEF Init
<1>5. QED
  BY <1>1, <1>2, <1>3, <1>4 DEF TypeOK

LEMMA WatcherTypes == TypeOK /\ Watcher => TypeOK'
<1> SUFFICES ASSUME TypeOK, Watcher PROVE TypeOK'
  OBVIOUS
<1> USE DirsAssumption, BoundsAssumption DEF TypeOK, disk, watch, loop, user
<1>1. CASE WatcherFails
  BY <1>1 DEF WatcherFails
<1>2. CASE WalkDone
  BY <1>2 DEF WalkDone
<1>3. CASE HandleEvent
  BY <1>3 DEF HandleEvent, Arm
<1>4. CASE TimerRuns
  BY <1>4 DEF TimerRuns
<1>5. CASE Fire
  BY <1>5 DEF Fire, Sources
<1>6. CASE WatcherStops
  BY <1>6 DEF WatcherStops
<1>7. ASSUME NEW d \in Dirs, WatchDir(d) PROVE TypeOK'
  BY <1>7 DEF WatchDir
<1>8. QED
  BY <1>1, <1>2, <1>3, <1>4, <1>5, <1>6, <1>7 DEF Watcher

LEMMA LoopTypes == TypeOK /\ Loop => TypeOK'
<1> SUFFICES ASSUME TypeOK, Loop PROVE TypeOK'
  OBVIOUS
<1> USE DEF TypeOK, disk, watch, loop, user
<1>1. CASE StartPass
  <2>1. sincePause' \in 0..2
    <3>1. sincePause < 2 => sincePause + 1 \in 0..2
      OBVIOUS
    <3>2. QED
      BY <1>1, <3>1 DEF StartPass
  <2>2. QED
    BY <1>1, <2>1 DEF StartPass, SeesAll
<1>2. CASE EndPass
  BY <1>2 DEF EndPass
<1>3. CASE LoopStops
  BY <1>3 DEF LoopStops
<1>4. ASSUME NEW s \in Sources, TakeTick(s) PROVE TypeOK'
  BY <1>4 DEF TakeTick
<1>5. QED
  BY <1>1, <1>2, <1>3, <1>4 DEF Loop

LEMMA DiskTypes == TypeOK /\ Disk => TypeOK'
<1> SUFFICES ASSUME TypeOK, NEW d \in Dirs,
                    ChangeFile(d) \/ MakeDir(d) \/ RemoveDir(d)
             PROVE  TypeOK'
  BY DEF Disk
<1> USE DirsAssumption, BoundsAssumption DEF TypeOK, disk, watch, loop, user, Notify
<1>1. CASE ChangeFile(d)
  BY <1>1 DEF ChangeFile
<1>2. CASE MakeDir(d)
  BY <1>2 DEF MakeDir
<1>3. CASE RemoveDir(d)
  BY <1>3 DEF RemoveDir
<1>4. QED
  BY <1>1, <1>2, <1>3

LEMMA UserTypes == TypeOK /\ User => TypeOK'
<1> SUFFICES ASSUME TypeOK, User PROVE TypeOK'
  OBVIOUS
<1> USE DEF TypeOK, disk, watch, loop, user
<1>1. CASE Pause
  BY <1>1 DEF Pause
<1>2. CASE Resume
  BY <1>2 DEF Resume
<1>3. CASE KickSync
  BY <1>3 DEF KickSync, SeesAll
<1>4. CASE Cancel
  BY <1>4 DEF Cancel
<1>5. QED
  BY <1>1, <1>2, <1>3, <1>4 DEF User

LEMMA RingTypes == ASSUME TypeOK, NEW t \in Tickers, Ring(t) PROVE TypeOK'
BY DEF TypeOK, disk, watch, loop, user, Ring, Sources

(* Types: every variable has its type at all times.                          *)
THEOREM Types == Spec => []TypeOK
<1>1. TypeOK /\ [Next]_vars => TypeOK'
  <2> SUFFICES ASSUME TypeOK, [Next]_vars PROVE TypeOK'
    OBVIOUS
  <2>1. CASE UNCHANGED vars
    BY <2>1 DEF vars, disk, watch, loop, user, TypeOK
  <2>2. QED
    BY <2>1, WatcherTypes, LoopTypes, DiskTypes, UserTypes, RingTypes DEF Next
<1>2. QED
  BY <1>1, InitTypes, PTL DEF Spec

-------------------------------------------------------------------------------
(* While the daemon is up, the watcher lives as long as it has anything to    *)
(* deliver: it can only fail before it has watched its first directory.       *)
WatcherLives ==
    ~cancelled =>
        /\ events # <<>> => watcher # "off"
        /\ armed => watcher = "run"
        /\ watcher = "off" => watched = {}
        /\ Root \in listed => /\ listed = {Root} /\ watched = {}
                             /\ events = <<>> /\ watcher # "run"

OnItsWay == WatcherLives /\ NoticedIsOnItsWay

LEMMA InitOnItsWay == Init => OnItsWay
BY DEF Init, OnItsWay, WatcherLives, NoticedIsOnItsWay

LEMMA WatcherKeeps == TypeOK /\ OnItsWay /\ Watcher => OnItsWay'
<1> SUFFICES ASSUME TypeOK, OnItsWay, Watcher PROVE OnItsWay'
  OBVIOUS
<1> USE DirsAssumption DEF TypeOK, disk, watch, loop, user, OnItsWay, WatcherLives, NoticedIsOnItsWay
<1>1. CASE WatcherFails
  BY <1>1 DEF WatcherFails
<1>2. CASE WalkDone
  BY <1>2 DEF WalkDone
<1>3. CASE HandleEvent
  BY <1>3 DEF HandleEvent, Arm
<1>4. CASE TimerRuns
  BY <1>4 DEF TimerRuns
<1>5. CASE Fire
  BY <1>5 DEF Fire, Sources
<1>6. CASE WatcherStops
  BY <1>6 DEF WatcherStops
<1>7. ASSUME NEW d \in Dirs, WatchDir(d) PROVE OnItsWay'
  BY <1>7 DEF WatchDir
<1>8. QED
  BY <1>1, <1>2, <1>3, <1>4, <1>5, <1>6, <1>7 DEF Watcher

LEMMA LoopKeeps == TypeOK /\ OnItsWay /\ Loop => OnItsWay'
<1> SUFFICES ASSUME TypeOK, OnItsWay, Loop PROVE OnItsWay'
  OBVIOUS
<1> USE DEF TypeOK, disk, watch, loop, user, OnItsWay, WatcherLives, NoticedIsOnItsWay
<1>1. CASE StartPass
  BY <1>1 DEF StartPass, SeesAll
<1>2. CASE EndPass
  BY <1>2 DEF EndPass
<1>3. CASE LoopStops
  BY <1>3 DEF LoopStops
<1>4. ASSUME NEW s \in Sources, TakeTick(s) PROVE OnItsWay'
  BY <1>4 DEF TakeTick, Sources, Tickers
<1>5. QED
  BY <1>1, <1>2, <1>3, <1>4 DEF Loop

LEMMA DiskKeeps == TypeOK /\ OnItsWay /\ Disk => OnItsWay'
<1> SUFFICES ASSUME TypeOK, OnItsWay, NEW d \in Dirs,
                    ChangeFile(d) \/ MakeDir(d) \/ RemoveDir(d)
             PROVE  OnItsWay'
  BY DEF Disk
<1>1. ASSUME NEW p \in Dirs, NEW e, Notify(p, e)
      PROVE  /\ p \notin watched => noticed' = noticed /\ events' = events
             /\ p \in watched => events' # <<>>
             /\ events # <<>> => events' # <<>>
  BY <1>1, BoundsAssumption DEF Notify, TypeOK
<1> USE DirsAssumption DEF disk, watch, loop, user, OnItsWay, WatcherLives, NoticedIsOnItsWay
<1>2. CASE ChangeFile(d)
  BY <1>1, <1>2 DEF ChangeFile
<1>3. CASE MakeDir(d)
  <2>1. Parent[d] \in Dirs
    BY <1>3, <1>1, DirsAssumption DEF MakeDir, TypeOK
  <2>2. QED
    BY <2>1, <1>1, <1>3 DEF MakeDir
<1>4. CASE RemoveDir(d)
  <2>1. Parent[d] \in Dirs
    BY <1>4, <1>1, DirsAssumption DEF RemoveDir, TypeOK
  <2>2. QED
    BY <2>1, <1>1, <1>4 DEF RemoveDir
<1>5. QED
  BY <1>2, <1>3, <1>4

LEMMA UserKeeps == TypeOK /\ OnItsWay /\ User => OnItsWay'
BY DEF User, Pause, Resume, KickSync, SeesAll, Cancel, TypeOK, disk, watch, loop, user,
       OnItsWay, WatcherLives, NoticedIsOnItsWay

LEMMA RingKeeps == ASSUME TypeOK, OnItsWay, NEW t \in Tickers, Ring(t) PROVE OnItsWay'
BY DEF Ring, Sources, Tickers, TypeOK, disk, watch, loop, user,
       OnItsWay, WatcherLives, NoticedIsOnItsWay

(* ChangesArrive: a change the notifier reported is followed by a pass or is *)
(* still on its way to one (NoticedIsOnItsWay).                              *)
THEOREM ChangesArrive == Spec => []NoticedIsOnItsWay
<1>1. TypeOK /\ OnItsWay /\ [Next]_vars => OnItsWay'
  <2> SUFFICES ASSUME TypeOK, OnItsWay, [Next]_vars PROVE OnItsWay'
    OBVIOUS
  <2>1. CASE UNCHANGED vars
    BY <2>1 DEF vars, disk, watch, loop, user, OnItsWay, WatcherLives, NoticedIsOnItsWay
  <2>2. QED
    BY <2>1, WatcherKeeps, LoopKeeps, DiskKeeps, UserKeeps, RingKeeps DEF Next
<1>2. OnItsWay => NoticedIsOnItsWay
  BY DEF OnItsWay
<1>3. QED
  BY <1>1, <1>2, InitOnItsWay, Types, PTL DEF Spec

-------------------------------------------------------------------------------
(* A pass that may still start although the daemon is paused was checked, or *)
(* is the first, and then none has started since the pause.                  *)
PauseCounts ==
    paused => /\ sincePause <= 1
              /\ pc \in {"boot", "checked"} => sincePause = 0

(* PausesHold: after a pause the loop starts at most one more pass           *)
(* (AtMostOnePassAfterPause).                                                *)
THEOREM PausesHold == Spec => []AtMostOnePassAfterPause
<1>1. Init => PauseCounts
  BY DEF Init, PauseCounts
<1>2. TypeOK /\ PauseCounts /\ [Next]_vars => PauseCounts'
  <2> SUFFICES ASSUME TypeOK, PauseCounts, [Next]_vars PROVE PauseCounts'
    OBVIOUS
  <2> USE DEF PauseCounts, disk, watch, loop, user
  <2>1. CASE Watcher
    BY <2>1 DEF Watcher, WatcherFails, WatchDir, WalkDone, HandleEvent, TimerRuns, Fire, WatcherStops
  <2>2. CASE Loop
    <3>1. CASE StartPass
      <4>1. paused => sincePause = 0
        BY <3>1 DEF StartPass
      <4>2. 0 < 2 /\ 0 + 1 <= 1
        OBVIOUS
      <4>3. paused => sincePause' = 0 + 1
        BY <3>1, <4>1, <4>2 DEF StartPass
      <4>4. QED
        BY <3>1, <4>2, <4>3 DEF StartPass
    <3>2. CASE EndPass \/ LoopStops
      BY <3>2 DEF EndPass, LoopStops
    <3>3. ASSUME NEW s \in Sources, TakeTick(s) PROVE PauseCounts'
      BY <3>3 DEF TakeTick
    <3>4. QED
      BY <2>2, <3>1, <3>2, <3>3 DEF Loop
  <2>3. CASE Disk
    BY <2>3 DEF Disk, ChangeFile, MakeDir, RemoveDir
  <2>4. CASE User
    <3>1. 0 <= 1
      OBVIOUS
    <3>2. CASE Pause
      BY <3>1, <3>2 DEF Pause
    <3>3. QED
      BY <2>4, <3>2 DEF User, Resume, KickSync, Cancel
  <2>5. ASSUME NEW t \in Tickers, Ring(t) PROVE PauseCounts'
    BY <2>5 DEF Ring
  <2>6. CASE UNCHANGED vars
    BY <2>6 DEF vars
  <2>7. QED
    BY <2>1, <2>2, <2>3, <2>4, <2>5, <2>6 DEF Next
<1>3. PauseCounts => AtMostOnePassAfterPause
  BY DEF PauseCounts, AtMostOnePassAfterPause
<1>4. QED
  BY <1>1, <1>2, <1>3, Types, PTL DEF Spec

-------------------------------------------------------------------------------
(* ImplementsDuty: every step of watcher, loop and user is a step of the     *)
(* duty or leaves it as it was, so only a pass that starts settles what is   *)
(* owed.  That an owed pass does start is liveness and left to TLC.          *)
THEOREM ImplementsDuty == Spec => Duty!Safety
<1>1. Init => Duty!Init
  BY DEF Init, Duty!Init
<1>2. TypeOK /\ TypeOK' /\ [Next]_vars => [Duty!Next]_(Duty!vars)
  <2> SUFFICES ASSUME TypeOK, TypeOK', [Next]_vars
               PROVE  Duty!Next \/ UNCHANGED Duty!vars
    OBVIOUS
  <2> USE DEF disk, watch, loop, user, Duty!Next, Duty!Change, Duty!Work, Duty!Toggle, Duty!vars
  <2>1. CASE Watcher
    BY <2>1 DEF Watcher, WatcherFails, WatchDir, WalkDone, HandleEvent, TimerRuns, Fire, WatcherStops
  <2>2. CASE Loop
    BY <2>2 DEF Loop, StartPass, SeesAll, EndPass, LoopStops, TakeTick
  <2>3. CASE Disk
    BY <2>3 DEF Disk, ChangeFile, MakeDir, RemoveDir, Notify
  <2>4. CASE User
    BY <2>4 DEF User, Pause, Resume, KickSync, SeesAll, Cancel, TypeOK
  <2>5. ASSUME NEW t \in Tickers, Ring(t) PROVE UNCHANGED Duty!vars
    BY <2>5 DEF Ring
  <2>6. CASE UNCHANGED vars
    BY <2>6 DEF vars
  <2>7. QED
    BY <2>1, <2>2, <2>3, <2>4, <2>5, <2>6 DEF Next
<1>3. QED
  BY <1>1, <1>2, Types, PTL DEF Spec, Duty!Safety
===============================================================================
