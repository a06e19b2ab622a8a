---------------------------- MODULE OnePassProofs ----------------------------
(***************************************************************************)
(* One pass at a time against everything the environment can do: files and *)
(* objects that change under the pass, skipped files, failing calls and    *)
(* crashes, for any paths and contents.                                    *)
(***************************************************************************)
EXTENDS SyncEngineProofs

-------------------------------------------------------------------------------
(* What the ops of a pass remember of its snapshots.                        *)

\* An upload was planned for an object that was absent, old or foreign when it
\* was headed; a download for a file that was absent or old when it was walked.
\* The row has not moved since, because only the op itself writes it.
UploadMemory(w)   == \A p \in Paths : ops[w][p] = "upload" =>
                         seenR[w][p] = None \/ seenR[w][p].hash \in {row[p], NoHash}
DownloadMemory(w) == \A p \in Paths : ops[w][p] = "download" => seenL[w][p] = row[p]

\* The op under way is the one that was planned.
OpMemory(w) ==
    /\ pc[w] = "put" => ops[w][at[w]] = "upload"
    /\ pc[w] \in {"fetched", "write"} => ops[w][at[w]] = "download"

\* The queues cover what the pass has planned.
QueueMemory(w) ==
    \A p \in Paths : /\ ops[w][p] = "upload" => p \in upQ
                     /\ ops[w][p] = "download" => p \in downQ

PlanMemory(w) == UploadMemory(w) /\ DownloadMemory(w) /\ OpMemory(w) /\ QueueMemory(w)

PlanInv(w) == TypeInv /\ PlanMemory(w)

LEMMA PlanInit ==
    ASSUME NEW w \in Passes, Init
    PROVE  PlanInv(w)
<1>1. TypeInv
      BY TypeInit
<1>2. ops[w] = NoOps /\ pc[w] = "idle"
      BY DEF Init
<1> QED
    BY <1>1, <1>2 DEF PlanInv, PlanMemory, UploadMemory, DownloadMemory, OpMemory,
                      QueueMemory, NoOps

\* A pass that leaves has nothing planned.
LEMMA PlanLeave ==
    ASSUME NEW w \in Passes, TypeInv, Leave(w)
    PROVE  PlanMemory(w)'
<1>1. ops'[w] = NoOps /\ pc'[w] = "idle"
      BY DEF Leave, TypeInv, TypeOK
<1> QED
    BY <1>1 DEF PlanMemory, UploadMemory, DownloadMemory, OpMemory, QueueMemory, NoOps

\* Before the plan there is nothing to remember.
LEMMA NothingPlanned ==
    ASSUME NEW w \in Passes, TypeInv, pc[w] \in {"idle", "walk", "head"},
           ops' = ops, pc'[w] \in {"idle", "walk", "head"}
    PROVE  PlanMemory(w)'
<1>1. ops'[w] = NoOps
      BY DEF TypeInv, Shape
<1> QED
    BY <1>1 DEF PlanMemory, UploadMemory, DownloadMemory, OpMemory, QueueMemory, NoOps

\* What Plan remembers is what PlanOp decided.
LEMMA PlanRemembers ==
    ASSUME NEW w \in Passes, TypeInv, Plan(w)
    PROVE  PlanMemory(w)'
<1>1. /\ \A p \in Paths : ops'[w][p] = PlanOp(seenL[w][p], seenR[w][p], row[p])
      /\ pc'[w] = "exec"
      /\ UNCHANGED <<row, seenL, seenR>>
      BY DEF Plan, snapshot, TypeInv, TypeOK
<1>2. UploadMemory(w)'
      BY <1>1, PlanOpCases DEF UploadMemory, WantsUpload, RemoteChanged
<1>3. DownloadMemory(w)'
      BY <1>1, PlanOpCases DEF DownloadMemory, WantsDownload, LocalChanged
<1>4. QueueMemory(w)'
      <2> DEFINE planned == [p \in Paths |-> PlanOp(seenL[w][p], seenR[w][p], row[p])]
      <2>1. ops'[w] = planned /\ upQ' = Counted(planned, "upload") /\ downQ' = Counted(planned, "download")
            BY DEF Plan, TypeInv, TypeOK
      <2> HIDE DEF planned
      <2> QED BY <2>1 DEF QueueMemory, Counted
<1> QED
    BY <1>1, <1>2, <1>3, <1>4 DEF PlanMemory, OpMemory

\* An op that ends takes its memory with it; the row it writes is its own.
LEMMA OpDoneForgets ==
    ASSUME NEW w \in Passes, PlanInv(w), at[w] \in Paths, OpDone(w),
           \A p \in Paths : p # at[w] => row'[p] = row[p],
           UNCHANGED <<upQ, downQ, snapshot>>
    PROVE  PlanMemory(w)'
<1>1. \A p \in Paths : ops'[w][p] = IF p = at[w] THEN "noop" ELSE ops[w][p]
      BY DEF OpDone, PlanInv, TypeInv, TypeOK
<1>2. pc'[w] = "exec"
      BY DEF OpDone, PlanInv, TypeInv, TypeOK
<1> QED
    BY <1>1, <1>2 DEF PlanInv, PlanMemory, UploadMemory, DownloadMemory, OpMemory,
                      QueueMemory, snapshot

LEMMA PlanStep ==
    ASSUME NEW w \in Passes, PlanInv(w), Step(w)
    PROVE  PlanMemory(w)'
<1> USE DEF PlanInv, stats, snapshot, exec
<1> TypeInv /\ TypeOK /\ Shape(w) /\ PlanMemory(w)
    BY DEF TypeInv
<1> DEFINE Same == /\ ops' = ops /\ row' = row /\ seenL' = seenL /\ seenR' = seenR
                   /\ upQ' = upQ /\ downQ' = downQ
<1>a. ASSUME Same, OpMemory(w)' PROVE PlanMemory(w)'
      BY <1>a DEF PlanMemory, UploadMemory, DownloadMemory, QueueMemory
<1>1. CASE Begin(w) \/ ListObjects(w)
      BY <1>1, NothingPlanned DEF Begin, ListObjects, TypeOK
<1>2. CASE \E p \in Paths : WalkFile(w, p) \/ HeadObject(w, p)
      BY <1>2, NothingPlanned DEF WalkFile, HeadObject
<1>3. CASE Plan(w)
      BY <1>3, PlanRemembers
<1>4. ASSUME NEW p \in Paths, ReadFile(w, p) PROVE PlanMemory(w)'
      <2>1. CASE local[p] = None
            BY <1>4, <2>1, PlanLeave DEF ReadFile, Abort
      <2>2. CASE local[p] # None
            <3>1. ops[w][p] = "upload" /\ pc'[w] = "put" /\ at'[w] = p /\ ops' = ops
                  BY <1>4, <2>2 DEF ReadFile, Due, TypeOK
            <3>2. Same
                  BY <1>4, <2>2 DEF ReadFile
            <3> QED BY <1>a, <3>1, <3>2 DEF OpMemory
      <2> QED BY <2>1, <2>2
<1>5. ASSUME NEW p \in Paths, GetObject(w, p) PROVE PlanMemory(w)'
      <2>1. CASE remote[p] = None \/ remote[p].hash = NoHash
            BY <1>5, <2>1, PlanLeave DEF GetObject, Abort
      <2>2. CASE ~(remote[p] = None \/ remote[p].hash = NoHash)
            <3>1. ops[w][p] = "download" /\ pc'[w] = "fetched" /\ at'[w] = p /\ ops' = ops
                  BY <1>5, <2>2 DEF GetObject, Due, TypeOK
            <3>2. Same
                  BY <1>5, <2>2 DEF GetObject
            <3> QED BY <1>a, <3>1, <3>2 DEF OpMemory
      <2> QED BY <2>1, <2>2
<1>6. CASE PutObject(w) \/ TruncateFile(w) \/ WriteFile(w)
      <2>1. Same /\ at' = at
            BY <1>6 DEF PutObject, TruncateFile, WriteFile
      <2>2. pc'[w] = "commit" \/ (pc[w] = "fetched" /\ pc'[w] = "write")
            BY <1>6 DEF PutObject, TruncateFile, WriteFile, TypeOK
      <2> QED BY <1>a, <2>1, <2>2 DEF PlanMemory, OpMemory
<1>7. CASE CommitRow(w) \/ DeleteRow(w)
      <2>1. at[w] \in Paths /\ OpDone(w) /\ UNCHANGED <<upQ, downQ, snapshot>>
            BY <1>7 DEF CommitRow, DeleteRow, Shape
      <2>2. \A p \in Paths : p # at[w] => row'[p] = row[p]
            BY <1>7, <2>1 DEF CommitRow, DeleteRow, TypeOK
      <2> QED BY <2>1, <2>2, OpDoneForgets
<1>8. ASSUME NEW p \in Paths, DeleteObject(w, p) PROVE PlanMemory(w)'
      <2>1. Same
            BY <1>8 DEF DeleteObject
      <2>2. pc'[w] = "forget"
            BY <1>8 DEF DeleteObject, TypeOK
      <2> QED BY <1>a, <2>1, <2>2 DEF OpMemory
<1>9. ASSUME NEW p \in Paths, RecordConflict(w, p) PROVE PlanMemory(w)'
      <2>1. \A q \in Paths : ops'[w][q] = IF q = p THEN "noop" ELSE ops[w][q]
            BY <1>9 DEF RecordConflict, TypeOK
      <2>2. pc'[w] = "exec" /\ UNCHANGED <<row, seenL, seenR, upQ, downQ>>
            BY <1>9 DEF RecordConflict
      <2> QED BY <2>1, <2>2 DEF PlanMemory, UploadMemory, DownloadMemory, OpMemory, QueueMemory
<1>10. CASE Finish(w)
      BY <1>10, PlanLeave DEF Finish
<1> QED
    BY <1>1, <1>2, <1>3, <1>4, <1>5, <1>6, <1>7, <1>8, <1>9, <1>10 DEF Step

LEMMA PlanEnvironment ==
    ASSUME NEW w, Passes = {w}, PlanInv(w), Environment
    PROVE  PlanMemory(w)'
<1> USE DEF PlanInv, stats, snapshot, exec, pass
<1>1. CASE \E p \in Paths : UserEdit(p) \/ RemoteEdit(p) \/ ForeignPut(p) \/ ResolveConflict(p)
      BY <1>1 DEF UserEdit, RemoteEdit, ForeignPut, ResolveConflict, PlanMemory,
                  UploadMemory, DownloadMemory, OpMemory, QueueMemory
<1>2. CASE Fail(w)
      BY <1>2, PlanLeave DEF Fail, CallFails, StoreFails, DiskFails, Abort
<1>3. CASE Crash
      <2>1. ops'[w] = NoOps /\ pc'[w] = "idle"
            BY <1>3 DEF Crash
      <2> QED BY <2>1 DEF PlanMemory, UploadMemory, DownloadMemory, OpMemory, QueueMemory, NoOps
<1> QED
    BY <1>1, <1>2, <1>3 DEF Environment

LEMMA PlanNext ==
    ASSUME NEW w, Passes = {w}, PlanInv(w), [Next]_vars
    PROVE  PlanInv(w)'
<1>1. TypeInv'
      BY TypeStep DEF PlanInv
<1>2. CASE \E v \in Passes : Step(v)
      BY <1>1, <1>2, PlanStep DEF PlanInv
<1>3. CASE Environment
      BY <1>1, <1>3, PlanEnvironment DEF PlanInv
<1>4. CASE UNCHANGED vars
      BY <1>1, <1>4 DEF vars, pass, stats, snapshot, exec, PlanInv, PlanMemory,
                        UploadMemory, DownloadMemory, OpMemory, QueueMemory
<1> QED
    BY <1>2, <1>3, <1>4 DEF Next

LEMMA PlanAlways ==
    ASSUME NEW w, Passes = {w}
    PROVE  Spec => []PlanInv(w)
<1>1. Init => PlanInv(w)
      BY PlanInit
<1>2. PlanInv(w) /\ [Next]_vars => PlanInv(w)'
      BY PlanNext
<1> QED
    BY <1>1, <1>2, PTL DEF Spec

-------------------------------------------------------------------------------
(* The queue numbers.                                                       *)

\* While the pass has a file to upload or to download, the status says so,
\* through failed passes and crashes.
THEOREM QueueCoversWork ==
    ASSUME NEW w, Passes = {w}
    PROVE  Spec => []QueueReportsWork
<1>1. PlanInv(w) => QueueReportsWork
      BY DEF PlanInv, PlanMemory, QueueMemory, QueueReportsWork
<1> QED
    BY <1>1, PlanAlways, PTL

-------------------------------------------------------------------------------
(* The windows of the no-overwrite promise.                                 *)

\* Only doDownload writes files, only of the op under way.
LEMMA OnlyDownloadsWrite ==
    ASSUME NEW w, Passes = {w}, PlanInv(w), [Next]_vars, EngineActs
    PROVE  local' = local \/ (at[w] \in Paths /\ ops[w][at[w]] = "download")
<1> USE DEF stats, snapshot, exec, pass
<1> w \in Passes /\ Shape(w) /\ OpMemory(w)
    BY DEF PlanInv, TypeInv, PlanMemory
<1>1. CASE TruncateFile(w) \/ WriteFile(w)
      BY <1>1 DEF TruncateFile, WriteFile, OpMemory, Shape
<1>2. CASE Environment
      BY <1>2 DEF Environment, UserEdit, RemoteEdit, ForeignPut, ResolveConflict, Crash,
                  Fail, CallFails, StoreFails, DiskFails, Abort, EngineActs
<1>3. ASSUME Step(w), ~TruncateFile(w), ~WriteFile(w) PROVE local' = local
      BY <1>3 DEF Step, Begin, WalkFile, ListObjects, HeadObject, Plan, ReadFile, Abort, PutObject,
                  CommitRow, GetObject, DeleteObject, DeleteRow, RecordConflict, Finish
<1>4. CASE UNCHANGED vars
      BY <1>4 DEF vars
<1> QED
    BY <1>1, <1>2, <1>3, <1>4 DEF Next

\* Only doUpload puts objects, only of the op under way.
LEMMA OnlyUploadsPut ==
    ASSUME NEW w, Passes = {w}, PlanInv(w), [Next]_vars, EngineActs,
           NEW p \in Paths, remote'[p] # None
    PROVE  remote'[p] = remote[p] \/ ops[w][at[w]] = "upload"
<1> USE DEF stats, snapshot, exec, pass
<1> w \in Passes /\ TypeOK /\ OpMemory(w)
    BY DEF PlanInv, TypeInv, PlanMemory
<1>1. CASE PutObject(w)
      BY <1>1 DEF PutObject, OpMemory
<1>2. ASSUME NEW q \in Paths, DeleteObject(w, q) PROVE remote'[p] = remote[p]
      BY <1>2 DEF DeleteObject, TypeOK
<1>3. CASE Environment
      BY <1>3 DEF Environment, UserEdit, RemoteEdit, ForeignPut, ResolveConflict, Crash,
                  Fail, CallFails, StoreFails, DiskFails, Abort, EngineActs
<1>4. ASSUME Step(w), ~PutObject(w), \A q \in Paths : ~DeleteObject(w, q)
      PROVE  remote' = remote
      BY <1>4 DEF Step, Begin, WalkFile, ListObjects, HeadObject, Plan, ReadFile, Abort,
                  CommitRow, GetObject, TruncateFile, WriteFile, DeleteRow, RecordConflict, Finish
<1>5. CASE UNCHANGED vars
      BY <1>5 DEF vars
<1> QED
    BY <1>1, <1>2, <1>3, <1>4, <1>5 DEF Next

\* With files changing under the pass and left out of its walk, a complete file
\* that it overwrites is the one of the last sync, or the pass had seen that one
\* or, where there is no row, none.
THEOREM LocalUnseen ==
    ASSUME NEW one, Passes = {one}
    PROVE  Spec => LocalOverwriteOnlyUnseen
<1> DEFINE Unseen == \A w \in Passes, p \in Paths :
                        /\ EngineActs
                        /\ at[w] = p
                        /\ local[p] \in Contents
                        /\ local'[p] # local[p]
                        /\ local[p] # row[p]
                        => seenL[w][p] = row[p]
<1>1. PlanInv(one) /\ [Next]_vars => [Unseen]_vars
      <2> SUFFICES ASSUME PlanInv(one), [Next]_vars, NEW p \in Paths, EngineActs, at[one] = p,
                          local'[p] # local[p], local[p] # row[p]
                   PROVE  seenL[one][p] = row[p]
          OBVIOUS
      <2>1. ops[one][p] = "download"
            BY OnlyDownloadsWrite
      <2> QED
          BY <2>1 DEF PlanInv, PlanMemory, DownloadMemory
<1>2. Init => PlanInv(one)
      BY PlanInit
<1>3. PlanInv(one) /\ [Next]_vars => PlanInv(one)'
      BY PlanNext
<1> QED
    BY <1>1, <1>2, <1>3, PTL DEF Spec, LocalOverwriteOnlyUnseen

\* With objects changing under the pass and Heads failing, an object that it
\* replaces is the one of the last sync or a foreign one, or the pass had seen
\* such a one or none.
THEOREM RemoteUnseen ==
    ASSUME NEW one, Passes = {one}
    PROVE  Spec => RemoteOverwriteOnlyUnseen
<1> DEFINE Unseen == \A w \in Passes, p \in Paths \ Hidden :
                        /\ EngineActs
                        /\ at[w] = p
                        /\ remote[p] # None
                        /\ remote'[p] # None
                        /\ remote'[p] # remote[p]
                        /\ remote[p].hash \notin {row[p], NoHash}
                        => seenR[w][p] = None \/ seenR[w][p].hash \in {row[p], NoHash}
<1>1. PlanInv(one) /\ [Next]_vars => [Unseen]_vars
      <2> SUFFICES ASSUME PlanInv(one), [Next]_vars, NEW p \in Paths \ Hidden, EngineActs,
                          at[one] = p, remote[p] # None, remote'[p] # None,
                          remote'[p] # remote[p], remote[p].hash \notin {row[p], NoHash}
                   PROVE  seenR[one][p] = None \/ seenR[one][p].hash \in {row[p], NoHash}
          OBVIOUS
      <2>1. ops[one][p] = "upload"
            BY OnlyUploadsPut
      <2> QED
          BY <2>1 DEF PlanInv, PlanMemory, UploadMemory
<1>2. Init => PlanInv(one)
      BY PlanInit
<1>3. PlanInv(one) /\ [Next]_vars => PlanInv(one)'
      BY PlanNext
<1> QED
    BY <1>1, <1>2, <1>3, PTL DEF Spec, RemoteOverwriteOnlyUnseen
===============================================================================
