------------------------------ MODULE SyncEngine ------------------------------
(***************************************************************************)
(* Engine.ReconcileOnce of src/backend/internal/sync/engine.go, run by any *)
(* number of goroutines against the disk, the bucket and the state store,  *)
(* while users edit files, other machines write objects, calls fail and    *)
(* the process dies.  No lock covers a pass, so one action is one effect   *)
(* another actor can see: a file hashed, an object headed, one S3 call,    *)
(* one row written.                                                        *)
(***************************************************************************)
EXTENDS ReconcilePlan

CONSTANTS
    Paths,      \* absolute paths; path <-> S3 key is one-to-one on these
    Hidden,     \* the paths whose key contains "/.dropboy/"
    Passes,     \* goroutines that may be inside ReconcileOnce
    Env         \* which behaviours of the environment are enabled

EnvKinds == {"edit",    \* the user changes files
             "remote",  \* another writer changes objects
             "foreign", \* an object appears without dropboy metadata
             "race",    \* the two above also happen while a pass runs
             "walk",    \* an unreadable or excluded file is skipped
             "head",    \* HeadObject fails
             "s3",      \* List, Get, Put or Delete fails
             "store",   \* a SQLite call fails
             "disk",    \* a file cannot be read or written
             "crash",   \* the process stops and is started again
             "resolve"} \* the user resolves a conflict

ASSUME HiddenAssumption == Hidden \subseteq Paths
ASSUME EnvAssumption    == Env \subseteq EnvKinds

VARIABLES
    local,      \* [Paths -> Bytes or None]   the watched folders
    remote,     \* [Paths -> Object or None]  the bucket, by path
    row,        \* [Paths -> Bytes or None]   LocalHash of the row in state.db
    conflicts,  \* paths on Engine.conflicts
    upQ, downQ, \* paths counted in Engine.upQ and Engine.downQ
    pc,         \* [Passes -> Labels]  where each pass is
    todo,       \* [Passes -> SUBSET Paths]  files to hash, then keys to head
    seenL,      \* [Passes -> [Paths -> Bytes or None]]   snapshotLocal
    seenR,      \* [Passes -> [Paths -> Object or None]]  snapshotRemote
    ops,        \* [Passes -> [Paths -> OpKinds]]  planned and not yet done
    at,         \* [Passes -> Paths or None]  the path of the op under way
    buf         \* [Passes -> Object or None] what the op holds in memory

stats    == <<conflicts, upQ, downQ>>
snapshot == <<todo, seenL, seenR>>
exec     == <<ops, at, buf>>
pass     == <<pc, snapshot, exec>>
vars     == <<local, remote, row, stats, pass>>

Labels == {"idle",     \* not inside ReconcileOnce
           "walk",     \* snapshotLocal
           "head",     \* snapshotRemote, after List
           "exec",     \* between two ops
           "put",      \* doUpload: file read, object not put
           "commit",   \* object put or file written, row not written
           "fetched",  \* doDownload: object read, file not opened
           "write",    \* doDownload: file truncated, not written
           "forget"}   \* OpDeleteRemote: object deleted, row not deleted

Nothing == [p \in Paths |-> None]
NoOps   == [p \in Paths |-> "noop"]

TypeOK ==
    /\ local \in [Paths -> Bytes \cup {None}]
    /\ remote \in [Paths -> Object \cup {None}]
    /\ row \in [Paths -> Bytes \cup {None}]
    /\ conflicts \subseteq Paths
    /\ upQ \subseteq Paths
    /\ downQ \subseteq Paths
    /\ pc \in [Passes -> Labels]
    /\ todo \in [Passes -> SUBSET Paths]
    /\ seenL \in [Passes -> [Paths -> Bytes \cup {None}]]
    /\ seenR \in [Passes -> [Paths -> Object \cup {None}]]
    /\ ops \in [Passes -> [Paths -> OpKinds]]
    /\ at \in [Passes -> Paths \cup {None}]
    /\ buf \in [Passes -> Object \cup {None}]

\* A fresh install: whatever the user already has on disk, an empty bucket
\* prefix and an empty store.
Init ==
    /\ local \in [Paths -> Contents \cup {None}]
    /\ remote = Nothing
    /\ row = Nothing
    /\ conflicts = {} /\ upQ = {} /\ downQ = {}
    /\ pc = [w \in Passes |-> "idle"]
    /\ todo = [w \in Passes |-> {}]
    /\ seenL = [w \in Passes |-> Nothing]
    /\ seenR = [w \in Passes |-> Nothing]
    /\ ops = [w \in Passes |-> NoOps]
    /\ at = [w \in Passes |-> None]
    /\ buf = [w \in Passes |-> None]

-------------------------------------------------------------------------------
(* Leaving ReconcileOnce, by its end or by the first error: the snapshots,  *)
(* the rest of the ops and the op's buffers are garbage.                    *)

Leave(w) ==
    /\ pc' = [pc EXCEPT ![w] = "idle"]
    /\ todo' = [todo EXCEPT ![w] = {}]
    /\ seenL' = [seenL EXCEPT ![w] = Nothing]
    /\ seenR' = [seenR EXCEPT ![w] = Nothing]
    /\ ops' = [ops EXCEPT ![w] = NoOps]
    /\ at' = [at EXCEPT ![w] = None]
    /\ buf' = [buf EXCEPT ![w] = None]

\* An error returned by execute or a snapshot; upQ and downQ keep what the
\* pass put there.
Abort(w) ==
    /\ Leave(w)
    /\ UNCHANGED <<local, remote, row, stats>>

-------------------------------------------------------------------------------
(* The snapshots and the plan.                                              *)

Begin(w) ==
    /\ pc[w] = "idle"
    /\ pc' = [pc EXCEPT ![w] = "walk"]
    /\ todo' = [todo EXCEPT ![w] = Paths]
    /\ UNCHANGED <<local, remote, row, stats, seenL, seenR, exec>>

\* The walk reaches p: absent files and, when enabled, files whose directory
\* entry, stat or hash fails or that an exclude pattern matches are left out.
WalkFile(w, p) ==
    /\ pc[w] = "walk"
    /\ p \in todo[w]
    /\ todo' = [todo EXCEPT ![w] = @ \ {p}]
    /\ \/ seenL' = [seenL EXCEPT ![w][p] = local[p]]
       \/ "walk" \in Env /\ UNCHANGED seenL
    /\ UNCHANGED <<local, remote, row, stats, pc, seenR, exec>>

Listed == {p \in Paths \ Hidden : remote[p] # None}

ListObjects(w) ==
    /\ pc[w] = "walk"
    /\ todo[w] = {}
    /\ pc' = [pc EXCEPT ![w] = "head"]
    /\ todo' = [todo EXCEPT ![w] = Listed]
    /\ UNCHANGED <<local, remote, row, stats, seenL, seenR, exec>>

\* A Head that fails, or whose object is gone by now, drops the object from
\* the snapshot without an error.
HeadObject(w, p) ==
    /\ pc[w] = "head"
    /\ p \in todo[w]
    /\ todo' = [todo EXCEPT ![w] = @ \ {p}]
    /\ \/ seenR' = [seenR EXCEPT ![w][p] = remote[p]]
       \/ "head" \in Env /\ UNCHANGED seenR
    /\ UNCHANGED <<local, remote, row, stats, pc, seenL, exec>>

\* Mutant: only the ops of the loop over local files are counted.
Counted_LocalLoop(planned, kind) == {p \in Paths : planned[p] = kind /\ local[p] # None}

Counted(planned, kind) == {p \in Paths : planned[p] = kind}

\* store.List, plan(), and the queue lengths for Stats.
Plan(w) ==
    /\ pc[w] = "head"
    /\ todo[w] = {}
    /\ LET planned == [p \in Paths |-> PlanOp(seenL[w][p], seenR[w][p], row[p])]
       IN  /\ ops' = [ops EXCEPT ![w] = planned]
           /\ upQ' = Counted(planned, "upload")
           /\ downQ' = Counted(planned, "download")
    /\ pc' = [pc EXCEPT ![w] = "exec"]
    /\ UNCHANGED <<local, remote, row, conflicts, snapshot, at, buf>>

\* The ops still to run.  The ones of plan()'s loop over local files come
\* first, then the ones of its loop over remote-only objects; inside each
\* loop the order is that of a Go map: any.
Pending(w)   == {p \in Paths : ops[w][p] # "noop"}
LocalOps(w)  == {p \in Pending(w) : seenL[w][p] # None}
Due(w, kind) ==
    {p \in Pending(w) : /\ ops[w][p] = kind
                        /\ LocalOps(w) = {} \/ p \in LocalOps(w)}

-------------------------------------------------------------------------------
(* doUpload.                                                                *)

\* Mutant: the metadata takes the hash of the store's row.
Sealed_RowHash(w, p) == [hash |-> row[p], body |-> local[p]]

\* The body is read now; the metadata, and later the row, carry the hash of
\* the snapshot.
Sealed(w, p) == [hash |-> seenL[w][p], body |-> local[p]]

ReadFile(w, p) ==
    /\ pc[w] = "exec"
    /\ p \in Due(w, "upload")
    /\ IF local[p] = None
       THEN Abort(w)
       ELSE /\ pc' = [pc EXCEPT ![w] = "put"]
            /\ at' = [at EXCEPT ![w] = p]
            /\ buf' = [buf EXCEPT ![w] = Sealed(w, p)]
            /\ UNCHANGED <<local, remote, row, stats, snapshot, ops>>

PutObject(w) ==
    /\ pc[w] = "put"
    /\ remote' = [remote EXCEPT ![at[w]] = buf[w]]
    /\ pc' = [pc EXCEPT ![w] = "commit"]
    /\ UNCHANGED <<local, row, stats, snapshot, exec>>

\* The op is done: store.Put (or store.Delete) has returned.
OpDone(w) ==
    /\ pc' = [pc EXCEPT ![w] = "exec"]
    /\ ops' = [ops EXCEPT ![w][at[w]] = "noop"]
    /\ at' = [at EXCEPT ![w] = None]
    /\ buf' = [buf EXCEPT ![w] = None]

\* Mutant: the row takes the hash of the bytes that were sent.
CommitRow_BodyHash(w) ==
    /\ pc[w] = "commit"
    /\ row' = [row EXCEPT ![at[w]] = buf[w].body]
    /\ OpDone(w)
    /\ UNCHANGED <<local, remote, stats, snapshot>>

\* store.Put at the end of doUpload and of doDownload.
CommitRow(w) ==
    /\ pc[w] = "commit"
    /\ row' = [row EXCEPT ![at[w]] = buf[w].hash]
    /\ OpDone(w)
    /\ UNCHANGED <<local, remote, stats, snapshot>>

-------------------------------------------------------------------------------
(* doDownload.                                                              *)

\* An object without encryption metadata is an error, and so is a missing one.
\* The row will carry the hash of the plaintext, whatever the metadata says.
GetObject(w, p) ==
    /\ pc[w] = "exec"
    /\ p \in Due(w, "download")
    /\ IF remote[p] = None \/ remote[p].hash = NoHash
       THEN Abort(w)
       ELSE /\ pc' = [pc EXCEPT ![w] = "fetched"]
            /\ at' = [at EXCEPT ![w] = p]
            /\ buf' = [buf EXCEPT ![w] = [hash |-> remote[p].body, body |-> remote[p].body]]
            /\ UNCHANGED <<local, remote, row, stats, snapshot, ops>>

\* os.WriteFile opens with O_CREATE|O_TRUNC ...
TruncateFile(w) ==
    /\ pc[w] = "fetched"
    /\ local' = [local EXCEPT ![at[w]] = Torn]
    /\ pc' = [pc EXCEPT ![w] = "write"]
    /\ UNCHANGED <<remote, row, stats, snapshot, exec>>

\* ... and then writes to the open file.  Nothing is left to see of it when
\* the file was unlinked in between; when someone else wrote it in between,
\* either content or a mix of both remains.
WriteOutcomes(now, body) ==
    IF now = None THEN {None}
    ELSE IF now = Torn THEN {body}
    ELSE {now, body, Torn}

\* Mutant: a write that fails goes unnoticed.
WriteFile_Unnoticed(w) ==
    /\ pc[w] = "write"
    /\ \E c \in WriteOutcomes(local[at[w]], buf[w].body) \cup {local[at[w]]} :
           local' = [local EXCEPT ![at[w]] = c]
    /\ pc' = [pc EXCEPT ![w] = "commit"]
    /\ UNCHANGED <<remote, row, stats, snapshot, exec>>

WriteFile(w) ==
    /\ pc[w] = "write"
    /\ \E c \in WriteOutcomes(local[at[w]], buf[w].body) :
           local' = [local EXCEPT ![at[w]] = c]
    /\ pc' = [pc EXCEPT ![w] = "commit"]
    /\ UNCHANGED <<remote, row, stats, snapshot, exec>>

-------------------------------------------------------------------------------
(* The other ops, and the end of the pass.                                  *)

DeleteObject(w, p) ==
    /\ pc[w] = "exec"
    /\ p \in Due(w, "delete-remote")
    /\ remote' = [remote EXCEPT ![p] = None]
    /\ pc' = [pc EXCEPT ![w] = "forget"]
    /\ at' = [at EXCEPT ![w] = p]
    /\ UNCHANGED <<local, row, stats, snapshot, ops, buf>>

\* Mutant: the row is forgotten about.
DeleteRow_Kept(w) ==
    /\ pc[w] = "forget"
    /\ OpDone(w)
    /\ UNCHANGED <<local, remote, row, stats, snapshot>>

DeleteRow(w) ==
    /\ pc[w] = "forget"
    /\ row' = [row EXCEPT ![at[w]] = None]
    /\ OpDone(w)
    /\ UNCHANGED <<local, remote, stats, snapshot>>

RecordConflict(w, p) ==
    /\ pc[w] = "exec"
    /\ p \in Due(w, "conflict")
    /\ conflicts' = conflicts \cup {p}
    /\ ops' = [ops EXCEPT ![w][p] = "noop"]
    /\ UNCHANGED <<local, remote, row, upQ, downQ, pc, snapshot, at, buf>>

Finish(w) ==
    /\ pc[w] = "exec"
    /\ Pending(w) = {}
    /\ upQ' = {} /\ downQ' = {}
    /\ Leave(w)
    /\ UNCHANGED <<local, remote, row, conflicts>>

\* One step of a pass in which nothing goes wrong outside the engine.
Step(w) ==
    \/ Begin(w)
    \/ \E p \in Paths : WalkFile(w, p)
    \/ ListObjects(w)
    \/ \E p \in Paths : HeadObject(w, p)
    \/ Plan(w)
    \/ \E p \in Paths : ReadFile(w, p)
    \/ PutObject(w)
    \/ CommitRow(w)
    \/ \E p \in Paths : GetObject(w, p)
    \/ TruncateFile(w)
    \/ WriteFile(w)
    \/ \E p \in Paths : DeleteObject(w, p)
    \/ DeleteRow(w)
    \/ \E p \in Paths : RecordConflict(w, p)
    \/ Finish(w)

-------------------------------------------------------------------------------
(* What goes wrong.  Every failed call ends the pass.                       *)

\* List, Put, Get or Delete returns an error without having had an effect.
CallFails(w) ==
    /\ "s3" \in Env
    /\ \/ pc[w] = "walk" /\ todo[w] = {}
       \/ pc[w] = "put"
       \/ pc[w] = "exec" /\ Due(w, "download") \cup Due(w, "delete-remote") # {}
    /\ Abort(w)

\* store.List, store.Put or store.Delete returns an error.  The bucket and
\* the file keep the op's effect, as they do when the S3 call took effect and
\* only its answer was lost.
StoreFails(w) ==
    /\ "store" \in Env
    /\ \/ pc[w] = "head" /\ todo[w] = {}
       \/ pc[w] \in {"commit", "forget"}
    /\ Abort(w)

\* Mutant: an op that fails is skipped and the pass goes on.
DiskFails_GoesOn(w) ==
    /\ "disk" \in Env
    /\ pc[w] \in {"fetched", "write"}
    /\ OpDone(w)
    /\ UNCHANGED <<local, remote, row, stats, snapshot>>

\* ReadFile, MkdirAll, open or write fails; a failed write leaves the
\* truncated file behind.
DiskFails(w) ==
    /\ "disk" \in Env
    /\ \/ pc[w] = "exec" /\ Due(w, "upload") # {}
       \/ pc[w] \in {"fetched", "write"}
    /\ Abort(w)

\* The process dies, or stops with the store closed under a running pass.
\* Disk, bucket and store survive; the engine's memory does not.
Crash ==
    /\ "crash" \in Env
    /\ conflicts' = {} /\ upQ' = {} /\ downQ' = {}
    /\ pc' = [w \in Passes |-> "idle"]
    /\ todo' = [w \in Passes |-> {}]
    /\ seenL' = [w \in Passes |-> Nothing]
    /\ seenR' = [w \in Passes |-> Nothing]
    /\ ops' = [w \in Passes |-> NoOps]
    /\ at' = [w \in Passes |-> None]
    /\ buf' = [w \in Passes |-> None]
    /\ UNCHANGED <<local, remote, row>>

Fail(w) == CallFails(w) \/ StoreFails(w) \/ DiskFails(w)

-------------------------------------------------------------------------------
(* The environment.                                                         *)

Idle == \A w \in Passes : pc[w] = "idle"
Calm == "race" \in Env \/ Idle

\* The user writes, replaces or removes a file.
UserEdit(p) ==
    /\ "edit" \in Env
    /\ Calm
    /\ \E c \in Contents \cup {None} : local' = [local EXCEPT ![p] = c]
    /\ UNCHANGED <<remote, row, stats, pass>>

\* Somebody else with the bucket and the master key writes or removes the
\* object: another machine that uses this machine id, a restore, the console.
RemoteEdit(p) ==
    /\ "remote" \in Env
    /\ Calm
    /\ \/ \E c \in Contents : remote' = [remote EXCEPT ![p] = [hash |-> c, body |-> c]]
       \/ remote' = [remote EXCEPT ![p] = None]
    /\ UNCHANGED <<local, row, stats, pass>>

\* An object put under the prefix by something other than dropboy.
ForeignPut(p) ==
    /\ "foreign" \in Env
    /\ Calm
    /\ \E c \in Contents : remote' = [remote EXCEPT ![p] = [hash |-> NoHash, body |-> c]]
    /\ UNCHANGED <<local, row, stats, pass>>

\* Engine.ResolveConflict: whatever action the user chose, only the entry goes.
ResolveConflict(p) ==
    /\ "resolve" \in Env
    /\ p \in conflicts
    /\ conflicts' = conflicts \ {p}
    /\ UNCHANGED <<local, remote, row, upQ, downQ, pass>>

Environment ==
    \/ \E p \in Paths : UserEdit(p) \/ RemoteEdit(p) \/ ForeignPut(p) \/ ResolveConflict(p)
    \/ \E w \in Passes : Fail(w)
    \/ Crash

Next == Environment \/ \E w \in Passes : Step(w)

Spec == Init /\ [][Next]_vars

\* The daemon's tickers start a pass again and again, and a started pass runs:
\* weak fairness of its steps.  Nothing is assumed of the environment.
Fairness == \A w \in Passes : WF_vars(Step(w))
FairSpec == Spec /\ Fairness

-------------------------------------------------------------------------------
(* Properties.                                                              *)

\* Only the engine's own steps move a pass; users, other machines and the UI
\* do not.
EngineActs == pass' # pass

\* "No silent overwrite is ever performed" (PRD 5.4), for the disk: when a
\* pass replaces a complete file, that content is the one recorded at the last
\* sync, so it is an old version and not an edit nobody has uploaded.
NoSilentLocalOverwrite ==
    [][\A p \in Paths :
          /\ EngineActs
          /\ local[p] \in Contents
          /\ local'[p] # local[p]
          => local[p] = row[p]]_vars

\* The same for the bucket: an object that a pass replaces was the one of the
\* last sync, carried no dropboy metadata, or is one the listing hides.
NoSilentRemoteOverwrite ==
    [][\A p \in Paths \ Hidden :
          /\ EngineActs
          /\ remote[p] # None
          /\ remote'[p] # None
          /\ remote'[p] # remote[p]
          => remote[p].hash \in {row[p], NoHash}]_vars

\* What remains of the first promise when files change under a running pass.
\* A pass that overwrites an edit had seen the version of the last sync or,
\* where there is no row, no file at all.  So it had not seen the edit: it was
\* made after the walk had passed the file, or it is a file without a row that
\* the walk had left out as unreadable or excluded (engine.go:207).
LocalOverwriteOnlyUnseen ==
    [][\A w \in Passes, p \in Paths :
          /\ EngineActs
          /\ at[w] = p
          /\ local[p] \in Contents
          /\ local'[p] # local[p]
          /\ local[p] # row[p]
          => seenL[w][p] = row[p]]_vars

\* The same for the bucket.  A pass that replaces an object put since the last
\* sync had headed the old one or a foreign one, or none: the object was put
\* after it had headed that key, or the Head failed (engine.go:268-270).
RemoteOverwriteOnlyUnseen ==
    [][\A w \in Passes, p \in Paths \ Hidden :
          /\ EngineActs
          /\ at[w] = p
          /\ remote[p] # None
          /\ remote'[p] # None
          /\ remote'[p] # remote[p]
          /\ remote[p].hash \notin {row[p], NoHash}
          => seenR[w][p] = None \/ seenR[w][p].hash \in {row[p], NoHash}]_vars

\* The metadata dropboy-plain-sha256 is the hash of what the body decrypts to
\* (PRD 5.2): every reader decides from the metadata alone.
ObjectHashMatchesBody ==
    \A p \in Paths :
        remote[p] # None => remote[p].hash \in {remote[p].body, NoHash}

\* GET /api/status never shows an empty queue while a pass still has a file
\* to upload or download.
QueueReportsWork ==
    \A w \in Passes, p \in Paths :
        /\ ops[w][p] = "upload" => p \in upQ
        /\ ops[w][p] = "download" => p \in downQ

-------------------------------------------------------------------------------
(* Properties of a bucket prefix that only this engine writes: one machine, *)
(* one machine id, the ordinary installation.                               *)

\* Between Put and store.Put, or between Delete and store.Delete.
InFlight(p) == \E w \in Passes : pc[w] \in {"commit", "forget"} /\ at[w] = p

\* "The DB is the source of truth for what does each side look like as of the
\* last sync" (PRD 5.1): outside the two windows a row and an object exist
\* together and agree.
RowMirrorsObject ==
    \A p \in Paths :
        InFlight(p) \/ IF remote[p] = None THEN row[p] = None
                       ELSE row[p] = remote[p].hash

\* "A conflict is recorded when both sides changed since the last sync" (PRD
\* 5.4): with no other writer the remote side never does.
NoConflict == conflicts = {}

\* With no other writer there is nothing to fetch: the engine reads the
\* user's files and never touches one.
FilesLeftAlone == [][EngineActs => UNCHANGED local]_vars

-------------------------------------------------------------------------------
(* Deletions.                                                               *)

\* "Both unchanged -> no-op", and an object goes only when its file is "local
\* deleted" (PRD 5.1): whatever failures, crashes and other writers the row
\* outlived, where the walk leaves nothing out (engine.go:325-334).
DeletionFollowsDeletion ==
    \A w \in Passes, p \in Paths :
        ops[w][p] = "delete-remote" => local[p] = None

-------------------------------------------------------------------------------
(* The abstract synchronizer.                                               *)

\* Files truncated by doDownload and not yet written.
Truncated == {p \in Paths : \E w \in Passes : pc[w] = "write" /\ at[w] = p}

\* Where neither side changes under a pass and nothing is left out of its
\* snapshots, snapshots, plan and ops come to nothing else than looking at
\* file, object and row in one step each time one of them is changed or a
\* conflict is recorded (engine.go:134-172, 290-361), through failures and
\* crashes.
Atomic == INSTANCE AtomicSync
              WITH disk <- local, bucket <- remote, base <- row,
                   opened <- Truncated, reported <- conflicts
ActsOnTheMoment == Atomic!Spec

-------------------------------------------------------------------------------
(* Convergence.                                                             *)

\* A file that changed under its own upload left this object under the hash
\* of its earlier content; no pass repairs that.
Mislabelled(p) == remote[p] # None /\ remote[p].hash # remote[p].body

InStep(p) == \/ local[p] = None /\ remote[p] = None
             \/ local[p] # None /\ remote[p] # None /\ local[p] = remote[p].hash

\* Both sides hold the same, or the user has been told that they do not.
Settled == \A p \in Paths \ Hidden : p \in conflicts \/ Mislabelled(p) \/ InStep(p)

FinishLeavesSettled ==
    \A w \in Passes, p \in Paths \ Hidden :
        Finish(w) => \/ InStep(p)
                     \/ Mislabelled(p)
                     \/ WantsConflict(local[p], remote[p], row[p])

\* Where nothing moves under a pass, ReconcileOnce returns without an error
\* only when each path is the same on both sides, or changed on both since the
\* last sync, or has an object whose metadata is not the hash of its body (a
\* foreign one without metadata is one), whatever failed passes, crashes and
\* half-written files came before and in whatever order the ops ran
\* (engine.go:134-172).
FinishedPassSettles == [][FinishLeavesSettled]_vars

\* Once nobody edits and nothing fails, the passes bring every path to rest,
\* whatever crashes, failures and half-written files came before.
Converges == <>[][\E w \in Passes : Step(w)]_vars => <>[]Settled
===============================================================================
