------------------------------ MODULE AtomicSync ------------------------------
(***************************************************************************)
(* What the sync engine promises about disk, bucket and store: whatever it *)
(* does to one of them is called for by what all three hold at that very   *)
(* moment.  It has no snapshot and no plan, and nothing is ever acted on   *)
(* that has changed since; what it did and did not record, or began and    *)
(* did not end, it may forget at any time.                                 *)
(***************************************************************************)
CONSTANTS Paths, Hidden, Contents, Torn, NoHash, None

VARIABLES
    disk,       \* path -> what the file holds, or None
    bucket,     \* path -> hash and body of the object, or None
    base,       \* path -> what both sides held at the last sync, or None
    opened,     \* files truncated to be filled from the bucket
    reported    \* paths the user has been told to decide about

vars == <<disk, bucket, base, opened, reported>>

Init ==
    /\ disk \in [Paths -> Contents \cup {None}]
    /\ bucket = [p \in Paths |-> None]
    /\ base = [p \in Paths |-> None]
    /\ opened = {} /\ reported = {}

\* What a listing shows: an object below a hidden key is not there.
Shown(p) == bucket[p] # None /\ p \notin Hidden

\* The bucket holds something newer than the last sync.
Newer(p) == Shown(p) /\ bucket[p].hash \notin {base[p], NoHash}

\* The file of a path with no object, or the edit of a synced one.
Push(p) ==
    /\ disk[p] # None
    /\ ~Shown(p) \/ (disk[p] # base[p] /\ base[p] # None /\ ~Newer(p))
    /\ bucket' = [bucket EXCEPT ![p] = [hash |-> disk[p], body |-> disk[p]]]
    /\ UNCHANGED <<disk, base, opened, reported>>

\* The file is what it was at the last sync, or was not there then and is not
\* now, and the bucket has something newer ...
Open(p) ==
    /\ Newer(p) /\ disk[p] = base[p]
    /\ disk' = [disk EXCEPT ![p] = Torn]
    /\ opened' = opened \cup {p}
    /\ UNCHANGED <<bucket, base, reported>>

\* ... and that is what it then holds.
Fill(p) ==
    /\ p \in opened
    /\ disk' = [disk EXCEPT ![p] = bucket[p].body]
    /\ opened' = opened \ {p}
    /\ UNCHANGED <<bucket, base, reported>>

\* The file of a synced path is gone, and so goes its object.
Erase(p) ==
    /\ disk[p] = None /\ base[p] # None /\ Shown(p)
    /\ bucket' = [bucket EXCEPT ![p] = None]
    /\ UNCHANGED <<disk, base, opened, reported>>

\* Only what both sides hold, or neither does, is recorded as synced.
Record(p) ==
    /\ disk[p] = IF bucket[p] = None THEN None ELSE bucket[p].body
    /\ base' = [base EXCEPT ![p] = disk[p]]
    /\ UNCHANGED <<disk, bucket, opened, reported>>

\* Both sides have a content, both are new and, on a first sync, they differ.
Report(p) ==
    /\ disk[p] # None /\ Shown(p)
    /\ IF base[p] = None THEN disk[p] # bucket[p].hash ELSE disk[p] # base[p] /\ Newer(p)
    /\ reported' = reported \cup {p}
    /\ UNCHANGED <<disk, bucket, base, opened>>

Forget ==
    /\ opened' \subseteq opened /\ reported' \subseteq reported
    /\ UNCHANGED <<disk, bucket, base>>

\* Others change the sides, but no file while it is being filled.
Edit(p) ==
    /\ opened = {}
    /\ \E c \in Contents \cup {None} : disk' = [disk EXCEPT ![p] = c]
    /\ UNCHANGED <<bucket, base, opened, reported>>

Replace(p) ==
    /\ opened = {}
    /\ \E o \in {None} \cup [hash : Contents \cup {NoHash}, body : Contents] :
           /\ o # None => o.hash \in {o.body, NoHash}
           /\ bucket' = [bucket EXCEPT ![p] = o]
    /\ UNCHANGED <<disk, base, opened, reported>>

Next ==
    \/ Forget
    \/ \E p \in Paths : \/ Push(p) \/ Open(p) \/ Fill(p) \/ Erase(p)
                        \/ Record(p) \/ Report(p) \/ Edit(p) \/ Replace(p)

Spec == Init /\ [][Next]_vars
===============================================================================
