----------------------------- MODULE FolderConfig -----------------------------
(***************************************************************************)
(* The list of watched folders: config.yaml, the copy in Server.Cfg that   *)
(* the HTTP handlers change (server/handlers.go), the copy in the engine   *)
(* that a pass iterates over (sync/engine.go), and the commands that       *)
(* rewrite the file behind the daemon's back (cli/).  Copying a            *)
(* config.Config copies a slice header: server and engine start on one     *)
(* array.                                                                  *)
(***************************************************************************)
EXTENDS Integers, Sequences, FiniteSets

CONSTANTS
    Folders,    \* absolute paths of directories that could be watched
    Requests,   \* handler goroutines, one per request being served
    MaxChanges, \* bound: how often users change the configuration
    None,       \* the zero Folder in a slot that append has not filled
    Garbled     \* config.yaml when two writes mixed: Load fails

\* What an element of an array may be.
Slots == Folders \cup {None}

Config == [bucket : BOOLEAN, folders : Seq(Slots)]

ASSUME BoundIsANumber    == MaxChanges \in Nat
ASSUME NoneIsNoFolder    == None \notin Folders
ASSUME GarbledIsNoConfig == Garbled \notin Config

VARIABLES
    file,       \* config.yaml: a Config, or Garbled
    up,         \* the daemon runs
    engine,     \* its engine: cannot be made, locked, or on
    heap,       \* the arrays behind the slices; heap[1] is the one Load made
    srv,        \* Server.Cfg: bucket set?, and the header of Folders
    req,        \* [Requests -> ...] what each handler is doing
    cmd,        \* the command that is rewriting the file
    pass,       \* the pass: folders walked so far, and the index reached
    stored,     \* folders whose files have rows and objects
    removed,    \* history: folders a user has asked to remove, see Loaded
    raced,      \* history: a removal moved elements while the walk read them
    clobbered,  \* history: see Change and Stop
    changes     \* history: how many changes there have been

memory  == <<up, engine, heap, srv, req>>
history == <<removed, raced, clobbered, changes>>
vars    == <<file, memory, cmd, pass, stored, history>>

\* Lists without repetition.
Lists == UNION {{s \in [1..n -> Folders] : \A i, j \in 1..n : s[i] = s[j] => i = j} :
                    n \in 0..Cardinality(Folders)}

Elements(s) == {s[i] : i \in DOMAIN s}

\* Load of an empty file: no error, and Default() has neither bucket nor
\* folders.
Empty == [bucket |-> FALSE, folders |-> <<>>]

\* A slice header, with the bucket of the Config it was copied with.
Header == [bucket : BOOLEAN, arr : Nat, len : Nat]
NoHeader == [bucket |-> FALSE, arr |-> 0, len |-> 0]

\* The elements a header denotes: only under the lock is that one read.
View(h) == IF h.arr = 0 THEN <<>> ELSE SubSeq(heap[h.arr], 1, h.len)

\* i and n are the two indices of a removal; out is what Marshal has read.
Idle   == [pc |-> "idle", hdr |-> NoHeader, folder |-> None, i |-> 0, n |-> 0, out |-> Empty]
NoCmd  == [pc |-> "idle", out |-> Empty]
NoPass == [i |-> 0, seen |-> {}]

TypeOK ==
    /\ file \in Config \cup {Garbled}
    /\ up \in BOOLEAN /\ engine \in {"none", "locked", "on"}
    /\ heap \in Seq(Seq(Slots))
    /\ srv \in Header
    /\ up => srv.arr \in DOMAIN heap /\ srv.len <= Len(heap[srv.arr])
    /\ req \in [Requests -> [pc : {"idle", "compact", "marshal", "truncate", "write"},
                             hdr : Header, folder : Slots,
                             i : Nat, n : Nat, out : Config]]
    /\ cmd \in [pc : {"idle", "truncate", "write"}, out : Config]
    /\ pass \in [i : Nat, seen : SUBSET Slots]
    /\ stored \subseteq Folders /\ removed \subseteq Folders
    /\ raced \in BOOLEAN /\ clobbered \in BOOLEAN
    /\ changes \in 0..MaxChanges

\* The daemon is stopped; whatever folders are configured are in the bucket.
Init ==
    /\ \E s \in Lists :
           /\ file = [bucket |-> TRUE, folders |-> s]
           /\ stored = Elements(s)
    /\ up = FALSE /\ engine = "none"
    /\ heap = <<>> /\ srv = NoHeader
    /\ req = [h \in Requests |-> Idle]
    /\ cmd = NoCmd /\ pass = NoPass
    /\ removed = {}
    /\ raced = FALSE /\ clobbered = FALSE
    /\ changes = 0

-------------------------------------------------------------------------------
(* What the properties make exceptions for.                                 *)

Saving == cmd.pc # "idle" \/ \E h \in Requests : req[h].pc # "idle"

\* A user changes the configuration.  Two things can make the file fall
\* behind: another rewriting under way, of which the slower may undo the
\* quicker; and a bucket given to a configuration that has none, perhaps because
\* it was lost, and the folders with it.
Change(givesBucket) ==
    /\ changes < MaxChanges
    /\ changes' = changes + 1
    /\ clobbered' = (clobbered \/ Saving \/ givesBucket)

-------------------------------------------------------------------------------
(* The daemon starts and stops.                                             *)

\* Mutant: the engine is made without a look at the bucket.
Configured_Always(c) == TRUE

\* initEngine: no engine without a bucket.
Configured(c) == c.bucket

\* Folders the daemon finds in the file, and no command is about to drop: a
\* removal of one of them was cut short or taken back.
Loaded ==
    {f \in Elements(file.folders) : cmd.pc # "idle" => f \in Elements(cmd.out.folders)}

\* config.Load, daemon.New and Run, with the passphrase at hand or not.  yaml
\* makes the array as long as the list.
Start ==
    /\ ~up
    /\ file # Garbled
    /\ up' = TRUE
    /\ engine' \in IF Configured(file) THEN {"locked", "on"} ELSE {"none"}
    /\ heap' = <<file.folders>>
    /\ srv' = [bucket |-> file.bucket, arr |-> 1, len |-> Len(file.folders)]
    /\ removed' = removed \ Loaded
    /\ UNCHANGED <<file, req, cmd, pass, stored, raced, clobbered, changes>>

\* Daemon.Unlock: the engine gets the daemon's copy of the configuration, on
\* the same array, whatever a handler has done to it since.
Unlock ==
    /\ engine = "locked"
    /\ engine' = "on"
    /\ UNCHANGED <<file, up, heap, srv, req, cmd, pass, stored, history>>

\* The process ends, whatever its goroutines are doing.  A change that a
\* request has made in memory and not begun to save is lost.
Stop ==
    /\ up
    /\ up' = FALSE /\ engine' = "none"
    /\ heap' = <<>> /\ srv' = NoHeader
    /\ req' = [h \in Requests |-> Idle]
    /\ pass' = NoPass /\ raced' = FALSE
    /\ clobbered' = (clobbered \/ \E h \in Requests :
                                      req[h].pc \in {"compact", "marshal", "truncate"})
    /\ UNCHANGED <<file, cmd, stored, removed, changes>>

-------------------------------------------------------------------------------
(* The handlers.  Server.mu is held from the first step of a removal to the *)
(* last; the other changes under it are one step.  config.Save runs after   *)
(* the lock is released.                                                    *)

Locked == \E h \in Requests : req[h].pc = "compact"

\* Mutant: what is saved is the configuration as it was before the change.
ToSave_Before(hdr) == srv

\* `cfg := s.Cfg` before the unlock.
ToSave(hdr) == hdr

Save(h, hdr) == req' = [req EXCEPT ![h] = [Idle EXCEPT !.pc = "marshal", !.hdr = ToSave(hdr)]]

\* append at full capacity: an array of twice the size.
Grown(s, f) ==
    [i \in 1..(IF s = <<>> THEN 1 ELSE 2 * Len(s)) |->
        IF i <= Len(s) THEN s[i] ELSE IF i = Len(s) + 1 THEN f ELSE None]

\* handleFoldersAdd.  A removal earlier has left room in the array.  The engine
\* may not see the folder: one that is added again stays in removed.
FoldersAdd(h, f) ==
    /\ up /\ ~Locked
    /\ req[h].pc = "idle"
    /\ f \notin Elements(View(srv))
    /\ Change(FALSE)
    /\ IF srv.len < Len(heap[srv.arr])
       THEN /\ heap' = [heap EXCEPT ![srv.arr][srv.len + 1] = f]
            /\ srv' = [srv EXCEPT !.len = @ + 1]
       ELSE /\ heap' = Append(heap, Grown(heap[srv.arr], f))
            /\ srv' = [srv EXCEPT !.arr = Len(heap) + 1, !.len = @ + 1]
    /\ Save(h, srv')
    /\ UNCHANGED <<file, up, engine, cmd, pass, stored, removed, raced>>

\* handleFoldersRemove, `next := s.Cfg.Folders[:0]`.  A folder that is not
\* watched is a 404 and changes nothing.
FoldersRemove(h, f) ==
    /\ up /\ ~Locked
    /\ req[h].pc = "idle"
    /\ f \in Elements(View(srv))
    /\ Change(FALSE)
    /\ removed' = removed \cup {f}
    /\ req' = [req EXCEPT ![h] =
                  [Idle EXCEPT !.pc = "compact", !.hdr = srv, !.folder = f, !.i = 1]]
    /\ UNCHANGED <<file, up, engine, heap, srv, cmd, pass, stored, raced>>

\* Mutant: the kept element lands one slot too far.
Kept_TooFar(h) == req[h].n + 1 + (IF req[h].i < req[h].hdr.len THEN 1 ELSE 0)

\* The slot that takes the next kept element.
Kept(h) == req[h].n + 1

\* The removal's loop over the slice it is compacting.
Compact(h) ==
    LET r == req[h]
        a == heap[r.hdr.arr]
    IN  /\ r.pc = "compact"
        /\ r.i <= r.hdr.len
        /\ IF a[r.i] = r.folder
           THEN /\ req' = [req EXCEPT ![h].i = @ + 1]
                /\ UNCHANGED <<heap, raced>>
           ELSE /\ req' = [req EXCEPT ![h].i = @ + 1, ![h].n = @ + 1]
                /\ heap' = [heap EXCEPT ![r.hdr.arr][Kept(h)] = a[r.i]]
                /\ raced' = (raced \/ (pass.i > 0 /\ heap'[1] # heap[1]))
        /\ UNCHANGED <<file, up, engine, srv, cmd, pass, stored, removed, clobbered, changes>>

\* `s.Cfg.Folders = next`, and the lock is released.
Compacted(h) ==
    /\ req[h].pc = "compact"
    /\ req[h].i > req[h].hdr.len
    /\ srv' = [srv EXCEPT !.len = req[h].n]
    /\ Save(h, srv')
    /\ UNCHANGED <<file, up, engine, heap, cmd, pass, stored, history>>

\* Mutant: the folders are replaced too, by none.
SettingsPut_Folders(h, b) ==
    /\ up /\ ~Locked
    /\ req[h].pc = "idle"
    /\ Change(b /\ ~srv.bucket)
    /\ srv' = [NoHeader EXCEPT !.bucket = b]
    /\ Save(h, srv')
    /\ UNCHANGED <<file, up, engine, heap, cmd, pass, stored, removed, raced>>

\* handleSettingsPut: every field but Folders is replaced, the bucket by one or by
\* the empty string.
SettingsPut(h, b) ==
    /\ up /\ ~Locked
    /\ req[h].pc = "idle"
    /\ Change(b /\ ~srv.bucket)
    /\ srv' = [srv EXCEPT !.bucket = b]
    /\ Save(h, srv')
    /\ UNCHANGED <<file, up, engine, heap, cmd, pass, stored, removed, raced>>

\* yaml.Marshal reads the array, which a later request may have changed.
Marshal(h) ==
    /\ req[h].pc = "marshal"
    /\ LET hdr == req[h].hdr
       IN  req' = [req EXCEPT ![h] = [Idle EXCEPT
                      !.pc = "truncate",
                      !.out = [bucket |-> hdr.bucket, folders |-> View(hdr)]]]
    /\ UNCHANGED <<file, up, engine, heap, srv, cmd, pass, stored, history>>

\* os.WriteFile: opening truncates.
Truncate(h) ==
    /\ req[h].pc = "truncate"
    /\ file' = Empty
    /\ req' = [req EXCEPT ![h].pc = "write"]
    /\ UNCHANGED <<up, engine, heap, srv, cmd, pass, stored, history>>

\* Writing over what another writer wrote since the truncation leaves that
\* one's tail behind when it was longer.
Written(c) == IF file \in {Empty, c} THEN {c} ELSE {c, Garbled}

Write(h) ==
    /\ req[h].pc = "write"
    /\ file' \in Written(req[h].out)
    /\ req' = [req EXCEPT ![h] = Idle]
    /\ UNCHANGED <<up, engine, heap, srv, cmd, pass, stored, history>>

-------------------------------------------------------------------------------
(* Commands: config.Load, a change, config.Save, in a process of its own.   *)

Loads == cmd.pc = "idle" /\ file # Garbled

Command(c) ==
    /\ cmd' = [pc |-> "truncate", out |-> c]
    /\ UNCHANGED <<file, memory, pass, stored, raced>>

\* `dropboy add`
CliAdd(f) ==
    /\ Loads
    /\ f \notin Elements(file.folders)
    /\ Command([file EXCEPT !.folders = Append(@, f)])
    /\ Change(FALSE)
    /\ UNCHANGED removed

\* The positions the loop of the command keeps, and the list that is left: its
\* j-th element is the one with j such positions up to it.
Others(s, f) == {i \in DOMAIN s : s[i] # f}
Rank(s, f, i) == Cardinality({k \in Others(s, f) : k <= i})
Without(s, f) ==
    [j \in 1..Cardinality(Others(s, f)) |-> s[CHOOSE i \in Others(s, f) : Rank(s, f, i) = j]]

\* `dropboy remove`
CliRemove(f) ==
    /\ Loads
    /\ f \in Elements(file.folders)
    /\ Command([file EXCEPT !.folders = Without(@, f)])
    /\ Change(FALSE)
    /\ removed' = removed \cup {f}

\* `dropboy init` keeps the folders and asks for a bucket.  With its flag
\* --non-interactive, and at the end of its input, it keeps the bucket or none.
CliInit(b) ==
    /\ Loads
    /\ b \in {TRUE, file.bucket}
    /\ Command([file EXCEPT !.bucket = b])
    /\ Change(b /\ ~file.bucket)
    /\ UNCHANGED removed

CliSave ==
    /\ \/ cmd.pc = "truncate" /\ file' = Empty /\ cmd' = [cmd EXCEPT !.pc = "write"]
       \/ cmd.pc = "write" /\ file' \in Written(cmd.out) /\ cmd' = NoCmd
    /\ UNCHANGED <<memory, pass, stored, history>>

\* The command is killed, before it writes or between truncation and write.
CliKilled ==
    /\ cmd.pc # "idle"
    /\ cmd' = NoCmd
    /\ UNCHANGED <<file, memory, pass, stored, history>>

-------------------------------------------------------------------------------
(* A pass: snapshotLocal's loop over e.cfg.Folders, and what becomes of the *)
(* folders it has and has not seen.                                         *)

BeginPass ==
    /\ engine = "on"
    /\ pass.i = 0
    /\ pass' = [i |-> 1, seen |-> {}]
    /\ raced' = FALSE
    /\ UNCHANGED <<file, memory, cmd, stored, removed, clobbered, changes>>

\* The range expression was evaluated once: the length is that of the start.
WalkFolder ==
    /\ pass.i > 0
    /\ pass.i <= Len(heap[1])
    /\ pass' = [i |-> pass.i + 1, seen |-> pass.seen \cup {heap[1][pass.i]}]
    /\ UNCHANGED <<file, memory, cmd, stored, history>>

\* Files that were seen are uploaded; files with rows that were not seen are
\* deleted from the bucket; an error may end the pass after any of that.
EndPass ==
    /\ pass.i > 0
    /\ pass.i > Len(heap[1])
    /\ pass' = NoPass
    /\ \E some \in SUBSET (Folders \cap (pass.seen \cup stored)) :
           stored' = (stored \ (some \ pass.seen)) \cup (some \cap pass.seen)
    /\ UNCHANGED <<file, memory, cmd, history>>

-------------------------------------------------------------------------------

Handler(h) ==
    \/ \E f \in Folders : FoldersAdd(h, f) \/ FoldersRemove(h, f)
    \/ Compact(h)
    \/ Compacted(h)
    \/ \E b \in BOOLEAN : SettingsPut(h, b)
    \/ Marshal(h)
    \/ Truncate(h)
    \/ Write(h)

Cli == \/ \E f \in Folders : CliAdd(f) \/ CliRemove(f)
       \/ \E b \in BOOLEAN : CliInit(b)
       \/ CliSave
       \/ CliKilled

Pass == BeginPass \/ WalkFolder \/ EndPass

Next == Start \/ Unlock \/ Stop \/ Cli \/ Pass \/ \E h \in Requests : Handler(h)

Spec == Init /\ [][Next]_vars

-------------------------------------------------------------------------------
(* Properties.                                                              *)

\* Handlers compact and extend, in place, the array the engine reads.  No
\* such change hides from the engine a folder whose files it has stored and
\* that nobody removed since the daemon loaded it: at every moment it is in some
\* slot.  One that is removed and added again has no such promise before the
\* next start: append may have put it in an array the engine does not read.
EngineSeesWhatItStored ==
    engine = "on" /\ ~clobbered => stored \ removed \subseteq Elements(heap[1])

\* The exact limit of "does not delete from S3" (PRD, CLI surface) for a folder
\* nobody removed since the daemon loaded it: its objects are deleted only by a
\* pass whose walk a removal raced, or after overlapping saves, a change cut short
\* before its save, or a bucket given to a configuration without one.
ObjectsLostOnlyInWindow ==
    [][~clobbered /\ ~raced => stored \ stored' \subseteq removed]_vars

\* A request that no other rewriting overlapped leaves the file with what the
\* server has in memory, although it saves after releasing the lock.  That is
\* all it may rely on: what a command had put in the file before and the server
\* never read is overwritten (handlers.go:424).
SavedAsInMemory ==
    [][\A h \in Requests :
          req[h].pc = "write" /\ req'[h].pc = "idle" /\ up' /\ ~clobbered
          => file' = [bucket |-> srv.bucket, folders |-> View(srv)]]_vars

\* "Stop watching a folder (does not delete from S3)" (PRD, CLI surface), in
\* its weakest form: at least the other folders keep their objects.
OthersKeepTheirObjects == [][stored \ stored' \subseteq removed]_vars
===============================================================================
