---------------------------- MODULE ReconcilePlan ----------------------------
(***************************************************************************)
(* The planner of the sync engine: what plan() of                          *)
(* src/backend/internal/sync/engine.go decides for one path from the three *)
(* things a pass has seen of it: the hash of the local file (l), the       *)
(* remote object (r) and the hash stored at the last sync (s).  SHA-256 is *)
(* taken to be injective, so a content stands for its own hash.            *)
(***************************************************************************)

CONSTANTS
    Contents,   \* what a complete file can hold
    Torn,       \* what a file holds between open(O_TRUNC) and the last write
    NoHash,     \* "" : the object carries no dropboy-plain-sha256
    None        \* the file, the object or the row does not exist

Bytes == Contents \cup {Torn}

\* What S3 keeps under a key: the plaintext hash claimed by the metadata, and
\* the plaintext the body decrypts to.
Object == [hash : Bytes \cup {NoHash}, body : Bytes]

ASSUME SentinelsAreDistinct ==
    /\ Torn \notin Contents
    /\ NoHash \notin Contents \cup {Torn}
    /\ None \notin Contents \cup {Torn, NoHash} \cup Object

OpKinds == {"noop", "upload", "download", "delete-remote", "conflict"}

LocalChanged(l, s)  == l # s
RemoteChanged(r, s) == r.hash # s /\ r.hash # NoHash

\* Mutant: a synced file whose object is gone is not put again.
WantsUpload_NewOnly(l, r, s) ==
    /\ l # None
    /\ \/ r = None /\ s = None
       \/ r # None /\ s # None /\ LocalChanged(l, s) /\ ~RemoteChanged(r, s)

WantsUpload(l, r, s) ==
    /\ l # None
    /\ \/ r = None
       \/ s # None /\ LocalChanged(l, s) /\ ~RemoteChanged(r, s)

WantsConflict(l, r, s) ==
    /\ l # None
    /\ r # None
    /\ \/ s = None /\ r.hash # l
       \/ s # None /\ LocalChanged(l, s) /\ RemoteChanged(r, s)

\* Mutant: a file that is gone is fetched again although a row says it was
\* synced.
WantsDownload_IgnoresRow(l, r, s) ==
    /\ r # None
    /\ \/ l = None
       \/ l # None /\ s # None /\ ~LocalChanged(l, s) /\ RemoteChanged(r, s)

WantsDownload(l, r, s) ==
    /\ r # None
    /\ \/ l = None /\ s = None
       \/ l # None /\ s # None /\ ~LocalChanged(l, s) /\ RemoteChanged(r, s)

\* Mutant: a file that is there and in order is taken for deleted.
WantsDeleteRemote_AnyFile(l, r, s) == r # None /\ s # None

WantsDeleteRemote(l, r, s) == l = None /\ r # None /\ s # None

\* Mutants: one changed side is tested before both.
PlanOp_LocalFirst(l, r, s) ==
    IF l # None /\ LocalChanged(l, s) THEN "upload"
    ELSE IF WantsDownload(l, r, s) THEN "download"
    ELSE IF WantsDeleteRemote(l, r, s) THEN "delete-remote"
    ELSE "noop"

PlanOp_RemoteFirst(l, r, s) ==
    IF r # None /\ RemoteChanged(r, s) THEN "download"
    ELSE IF WantsUpload(l, r, s) THEN "upload"
    ELSE IF WantsDeleteRemote(l, r, s) THEN "delete-remote"
    ELSE "noop"

\* OpDeleteLocal exists as a kind and execute() handles it, but plan() never
\* emits it.
PlanOp(l, r, s) ==
    IF WantsUpload(l, r, s) THEN "upload"
    ELSE IF WantsConflict(l, r, s) THEN "conflict"
    ELSE IF WantsDownload(l, r, s) THEN "download"
    ELSE IF WantsDeleteRemote(l, r, s) THEN "delete-remote"
    ELSE "noop"

==============================================================================
