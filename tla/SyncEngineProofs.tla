--------------------------- MODULE SyncEngineProofs ---------------------------
(***************************************************************************)
(* Theorems about the sync engine for any set of paths, contents and       *)
(* passes.  Each rests on an inductive invariant that says what a pass     *)
(* holds in memory at each of its labels.                                  *)
(***************************************************************************)
EXTENDS SyncEngine, TLAPS

-------------------------------------------------------------------------------
(* The planner.                                                             *)

\* PlanOp names a kind, and each kind it names has the conditions of its case.
LEMMA PlanOpCases ==
    ASSUME NEW l, NEW r, NEW s
    PROVE  /\ PlanOp(l, r, s) \in OpKinds
           /\ PlanOp(l, r, s) = "upload" => WantsUpload(l, r, s)
           /\ PlanOp(l, r, s) = "conflict" => WantsConflict(l, r, s)
           /\ PlanOp(l, r, s) = "download" => WantsDownload(l, r, s)
           /\ PlanOp(l, r, s) = "delete-remote" => WantsDeleteRemote(l, r, s)
BY DEF PlanOp, OpKinds

\* The four conditions exclude one another: the cases of the switch in plan()
\* may be read, and tested, in any order.
THEOREM CasesAreExclusive ==
    ASSUME NEW l, NEW r, NEW s
    PROVE  /\ PlanOp(l, r, s) = "upload" <=> WantsUpload(l, r, s)
           /\ PlanOp(l, r, s) = "conflict" <=> WantsConflict(l, r, s)
           /\ PlanOp(l, r, s) = "download" <=> WantsDownload(l, r, s)
           /\ PlanOp(l, r, s) = "delete-remote" <=> WantsDeleteRemote(l, r, s)
<1>1. WantsUpload(l, r, s) => ~WantsConflict(l, r, s) /\ ~WantsDownload(l, r, s)
          /\ ~WantsDeleteRemote(l, r, s)
      BY DEF WantsUpload, WantsConflict, WantsDownload, WantsDeleteRemote
<1>2. WantsConflict(l, r, s) => ~WantsDownload(l, r, s) /\ ~WantsDeleteRemote(l, r, s)
      BY DEF WantsConflict, WantsDownload, WantsDeleteRemote
<1>3. WantsDownload(l, r, s) => ~WantsDeleteRemote(l, r, s)
      BY DEF WantsDownload, WantsDeleteRemote
<1> QED
    BY <1>1, <1>2, <1>3 DEF PlanOp

-------------------------------------------------------------------------------
(* Types.                                                                   *)

\* What the labels of a pass say about the rest of its memory: nothing is
\* planned before Plan, an upload is planned only for a file that was seen,
\* and between the two halves of an op its path and its bytes are there.
Shape(w) ==
    /\ pc[w] \in {"idle", "walk", "head"} => ops[w] = NoOps
    /\ \A p \in Paths : ops[w][p] = "upload" => seenL[w][p] # None
    /\ pc[w] \in {"put", "commit", "fetched", "write"} =>
           at[w] \in Paths /\ buf[w] \in Object /\ buf[w].hash \in Bytes
    /\ pc[w] = "forget" => at[w] \in Paths

TypeInv == TypeOK /\ \A w \in Passes : Shape(w)

LEMMA TypeInit == Init => TypeInv
<1> SUFFICES ASSUME Init PROVE TypeInv
    OBVIOUS
<1>1. TypeOK
      BY DEF Init, TypeOK, Nothing, NoOps, Labels, OpKinds, Bytes
<1>2. ASSUME NEW w \in Passes PROVE Shape(w)
      BY DEF Init, Shape, NoOps
<1> QED
    BY <1>1, <1>2 DEF TypeInv

\* Leaving a pass is harmless whatever else the step does to the rest of the
\* state, as long as that keeps its type.
LEMMA LeaveKeepsShape ==
    ASSUME TypeInv, NEW w \in Passes, Leave(w)
    PROVE  /\ pc' \in [Passes -> Labels]
           /\ todo' \in [Passes -> SUBSET Paths]
           /\ seenL' \in [Passes -> [Paths -> Bytes \cup {None}]]
           /\ seenR' \in [Passes -> [Paths -> Object \cup {None}]]
           /\ ops' \in [Passes -> [Paths -> OpKinds]]
           /\ at' \in [Passes -> Paths \cup {None}]
           /\ buf' \in [Passes -> Object \cup {None}]
           /\ \A v \in Passes : Shape(v)'
<1> USE DEF TypeInv
<1>1. NoOps \in [Paths -> OpKinds] /\ Nothing \in [Paths -> Bytes \cup {None}]
          /\ Nothing \in [Paths -> Object \cup {None}]
      BY DEF NoOps, Nothing, OpKinds
<1>2. \A v \in Passes : Shape(v)'
      BY DEF Leave, TypeOK, Shape, NoOps
<1> QED
    BY <1>1, <1>2 DEF Leave, TypeOK, Labels

LEMMA AbortKeepsTypes ==
    ASSUME TypeInv, NEW w \in Passes, Abort(w)
    PROVE  TypeInv'
BY LeaveKeepsShape DEF Abort, TypeInv, TypeOK, stats

\* A step of a pass keeps the types and the shape of every pass.
LEMMA StepKeepsTypes ==
    ASSUME TypeInv, NEW w \in Passes, Step(w)
    PROVE  TypeInv'
<1> USE DEF TypeInv, stats, snapshot, exec
<1>1. ASSUME Begin(w) PROVE TypeInv'
      <2>1. TypeOK'
            BY <1>1 DEF TypeOK, Labels, OpKinds, Object, Begin
      <2>2. ASSUME NEW v \in Passes PROVE Shape(v)'
            BY <1>1, <2>1 DEF TypeOK, Shape, Begin
      <2> QED BY <2>1, <2>2
<1>2. ASSUME NEW p \in Paths, WalkFile(w, p) PROVE TypeInv'
      <2>1. TypeOK'
            <3>1. /\ todo' = [todo EXCEPT ![w] = @ \ {p}]
                  /\ seenL' = [seenL EXCEPT ![w][p] = local[p]] \/ seenL' = seenL
                  BY <1>2 DEF WalkFile
            <3>2. todo' \in [Passes -> SUBSET Paths]
                  BY <3>1 DEF TypeOK
            <3>3. seenL' \in [Passes -> [Paths -> Bytes \cup {None}]]
                  <4>1. seenL \in [Passes -> [Paths -> Bytes \cup {None}]] /\ local[p] \in Bytes \cup {None}
                        BY <1>2 DEF TypeOK
                  <4> QED BY <1>2, <3>1, <4>1
            <3> QED BY <1>2, <3>2, <3>3 DEF TypeOK, WalkFile
      <2>2. ASSUME NEW v \in Passes PROVE Shape(v)'
            BY <1>2 DEF TypeOK, Shape, NoOps, WalkFile
      <2> QED BY <2>1, <2>2
<1>3. ASSUME ListObjects(w) PROVE TypeInv'
      <2>1. TypeOK'
            BY <1>3 DEF TypeOK, Labels, OpKinds, Object, ListObjects, Listed
      <2>2. ASSUME NEW v \in Passes PROVE Shape(v)'
            BY <1>3, <2>1 DEF TypeOK, Shape, ListObjects, Listed
      <2> QED BY <2>1, <2>2
<1>4. ASSUME NEW p \in Paths, HeadObject(w, p) PROVE TypeInv'
      <2>1. TypeOK'
            <3>1. /\ todo' = [todo EXCEPT ![w] = @ \ {p}]
                  /\ seenR' = [seenR EXCEPT ![w][p] = remote[p]] \/ seenR' = seenR
                  BY <1>4 DEF HeadObject
            <3>2. todo' \in [Passes -> SUBSET Paths]
                  BY <3>1 DEF TypeOK
            <3>3. seenR' \in [Passes -> [Paths -> Object \cup {None}]]
                  <4>1. seenR \in [Passes -> [Paths -> Object \cup {None}]] /\ remote[p] \in Object \cup {None}
                        BY <1>4 DEF TypeOK
                  <4> QED BY <1>4, <3>1, <4>1
            <3> QED BY <1>4, <3>2, <3>3 DEF TypeOK, HeadObject
      <2>2. ASSUME NEW v \in Passes PROVE Shape(v)'
            BY <1>4 DEF TypeOK, Shape, NoOps, HeadObject
      <2> QED BY <2>1, <2>2
<1>5. ASSUME Plan(w) PROVE TypeInv'
      <2> DEFINE planned == [p \in Paths |-> PlanOp(seenL[w][p], seenR[w][p], row[p])]
      <2>1. planned \in [Paths -> OpKinds]
            BY PlanOpCases
      <2>2. \A p \in Paths : planned[p] = "upload" => seenL[w][p] # None
            BY PlanOpCases DEF WantsUpload
      <2>3. /\ ops' = [ops EXCEPT ![w] = planned]
            /\ upQ' \subseteq Paths /\ downQ' \subseteq Paths
            /\ pc' = [pc EXCEPT ![w] = "exec"]
            /\ UNCHANGED <<local, remote, row, conflicts, snapshot, at, buf>>
            BY <1>5 DEF Plan, Counted
      <2> HIDE DEF planned
      <2>4. TypeOK'
            BY <2>1, <2>3 DEF TypeOK, Labels
      <2>5. ASSUME NEW v \in Passes PROVE Shape(v)'
            BY <2>1, <2>2, <2>3 DEF TypeOK, Shape
      <2> QED BY <2>4, <2>5
<1>6. ASSUME NEW p \in Paths, ReadFile(w, p) PROVE TypeInv'
      <2>1. CASE local[p] = None
            BY <1>6, <2>1, AbortKeepsTypes DEF ReadFile
      <2>2. CASE local[p] # None
            <3>1. seenL[w][p] \in Bytes /\ local[p] \in Bytes
                  BY <1>6, <2>2 DEF ReadFile, Due, Pending, TypeOK, Shape
            <3>2. Sealed(w, p) \in Object /\ Sealed(w, p).hash \in Bytes
                  BY <3>1 DEF Sealed, Object
            <3>3. /\ pc' = [pc EXCEPT ![w] = "put"]
                  /\ at' = [at EXCEPT ![w] = p]
                  /\ buf' = [buf EXCEPT ![w] = Sealed(w, p)]
                  /\ UNCHANGED <<local, remote, row, stats, snapshot, ops>>
                  BY <1>6, <2>2 DEF ReadFile
            <3>4. TypeOK'
                  BY <1>6, <3>2, <3>3 DEF TypeOK, Labels
            <3>5. ASSUME NEW v \in Passes PROVE Shape(v)'
                  BY <1>6, <3>2, <3>3 DEF ReadFile, TypeOK, Shape
            <3> QED BY <3>4, <3>5
      <2> QED BY <2>1, <2>2
<1>7. ASSUME PutObject(w) PROVE TypeInv'
      <2>1. TypeOK'
            BY <1>7 DEF TypeOK, Labels, Object, Shape, PutObject
      <2>2. ASSUME NEW v \in Passes PROVE Shape(v)'
            BY <1>7, <2>1 DEF TypeOK, Shape, PutObject
      <2> QED BY <2>1, <2>2
<1>8. ASSUME CommitRow(w) PROVE TypeInv'
      <2>1. TypeOK'
            BY <1>8 DEF TypeOK, Labels, OpKinds, Object, Shape, CommitRow, OpDone
      <2>2. ASSUME NEW v \in Passes PROVE Shape(v)'
            BY <1>8, <2>1 DEF TypeOK, Shape, CommitRow, OpDone
      <2> QED BY <2>1, <2>2
<1>9. ASSUME NEW p \in Paths, GetObject(w, p) PROVE TypeInv'
      <2>1. CASE remote[p] = None \/ remote[p].hash = NoHash
            BY <1>9, <2>1, AbortKeepsTypes DEF GetObject
      <2>2. CASE ~(remote[p] = None \/ remote[p].hash = NoHash)
            <3> DEFINE plain == [hash |-> remote[p].body, body |-> remote[p].body]
            <3>1. plain \in Object /\ plain.hash \in Bytes
                  BY <2>2 DEF TypeOK, Object
            <3>2. /\ pc' = [pc EXCEPT ![w] = "fetched"]
                  /\ at' = [at EXCEPT ![w] = p]
                  /\ buf' = [buf EXCEPT ![w] = plain]
                  /\ UNCHANGED <<local, remote, row, stats, snapshot, ops>>
                  BY <1>9, <2>2 DEF GetObject
            <3> HIDE DEF plain
            <3>3. TypeOK'
                  BY <3>1, <3>2, <1>9 DEF TypeOK, Labels
            <3>4. ASSUME NEW v \in Passes PROVE Shape(v)'
                  BY <3>1, <3>2, <1>9 DEF GetObject, TypeOK, Shape
            <3> QED BY <3>3, <3>4
      <2> QED BY <2>1, <2>2
<1>10. ASSUME TruncateFile(w) PROVE TypeInv'
      <2>1. TypeOK'
            BY <1>10 DEF TypeOK, Labels, Bytes, Object, Shape, TruncateFile
      <2>2. ASSUME NEW v \in Passes PROVE Shape(v)'
            BY <1>10, <2>1 DEF TypeOK, Shape, TruncateFile
      <2> QED BY <2>1, <2>2
<1>11. ASSUME WriteFile(w) PROVE TypeInv'
      <2>1. TypeOK'
            BY <1>11 DEF TypeOK, Labels, Bytes, Object, Shape, WriteFile, WriteOutcomes
      <2>2. ASSUME NEW v \in Passes PROVE Shape(v)'
            BY <1>11, <2>1 DEF TypeOK, Shape, WriteFile, WriteOutcomes
      <2> QED BY <2>1, <2>2
<1>12. ASSUME NEW p \in Paths, DeleteObject(w, p) PROVE TypeInv'
      <2>1. TypeOK'
            BY <1>12 DEF TypeOK, Labels, OpKinds, Object, DeleteObject, Due, Pending
      <2>2. ASSUME NEW v \in Passes PROVE Shape(v)'
            BY <1>12, <2>1 DEF TypeOK, Shape, DeleteObject, Due, Pending
      <2> QED BY <2>1, <2>2
<1>13. ASSUME DeleteRow(w) PROVE TypeInv'
      <2>1. TypeOK'
            BY <1>13 DEF TypeOK, Labels, OpKinds, Object, DeleteRow, OpDone
      <2>2. ASSUME NEW v \in Passes PROVE Shape(v)'
            BY <1>13, <2>1 DEF TypeOK, Shape, DeleteRow, OpDone
      <2> QED BY <2>1, <2>2
<1>14. ASSUME NEW p \in Paths, RecordConflict(w, p) PROVE TypeInv'
      <2>1. TypeOK'
            BY <1>14 DEF TypeOK, Labels, OpKinds, Object, RecordConflict, Due, Pending
      <2>2. ASSUME NEW v \in Passes PROVE Shape(v)'
            BY <1>14, <2>1 DEF TypeOK, Shape, RecordConflict, Due, Pending
      <2> QED BY <2>1, <2>2
<1>15. ASSUME Finish(w) PROVE TypeInv'
      BY <1>15, LeaveKeepsShape DEF Finish, TypeOK
<1> QED
    BY <1>1, <1>2, <1>3, <1>4, <1>5, <1>6, <1>7, <1>8, <1>9, <1>10, <1>11, <1>12, <1>13, <1>14, <1>15 DEF Step

\* So does everything that happens around the passes.
LEMMA EnvironmentKeepsTypes ==
    ASSUME TypeInv, Environment
    PROVE  TypeInv'
<1> USE DEF TypeInv, stats, pass, snapshot, exec
<1>1. ASSUME NEW p \in Paths, UserEdit(p) PROVE TypeInv'
      <2>1. local' \in [Paths -> Bytes \cup {None}]
            BY <1>1 DEF UserEdit, TypeOK, Bytes
      <2>2. UNCHANGED <<remote, row, stats, pass>>
            BY <1>1 DEF UserEdit
      <2> QED BY <2>1, <2>2 DEF TypeOK, Shape
<1>2. ASSUME NEW p \in Paths, RemoteEdit(p) PROVE TypeInv'
      <2>1. remote' \in [Paths -> Object \cup {None}]
            <3>1. PICK o \in Object \cup {None} : remote' = [remote EXCEPT ![p] = o]
                  BY <1>2 DEF RemoteEdit, Object, Bytes
            <3> QED BY <3>1 DEF TypeOK
      <2>2. UNCHANGED <<local, row, stats, pass>>
            BY <1>2 DEF RemoteEdit
      <2> QED BY <2>1, <2>2 DEF TypeOK, Shape
<1>3. ASSUME NEW p \in Paths, ForeignPut(p) PROVE TypeInv'
      <2>1. remote' \in [Paths -> Object \cup {None}]
            BY <1>3 DEF ForeignPut, TypeOK, Object, Bytes
      <2>2. UNCHANGED <<local, row, stats, pass>>
            BY <1>3 DEF ForeignPut
      <2> QED BY <2>1, <2>2 DEF TypeOK, Shape
<1>4. ASSUME NEW p \in Paths, ResolveConflict(p) PROVE TypeInv'
      BY <1>4 DEF ResolveConflict, TypeOK, Shape
<1>5. ASSUME NEW w \in Passes, Fail(w) PROVE TypeInv'
      BY <1>5, AbortKeepsTypes DEF Fail, CallFails, StoreFails, DiskFails
<1>6. ASSUME Crash PROVE TypeInv'
      <2>1. /\ NoOps \in [Paths -> OpKinds] /\ Nothing \in [Paths -> Bytes \cup {None}]
            /\ Nothing \in [Paths -> Object \cup {None}]
            BY DEF NoOps, Nothing, OpKinds
      <2>2. TypeOK'
            BY <1>6, <2>1 DEF Crash, TypeOK, Labels
      <2>3. ASSUME NEW v \in Passes PROVE Shape(v)'
            BY <1>6 DEF Crash, Shape, NoOps
      <2> QED BY <2>2, <2>3
<1> QED
    BY <1>1, <1>2, <1>3, <1>4, <1>5, <1>6 DEF Environment

LEMMA TypeStep == TypeInv /\ [Next]_vars => TypeInv'
<1> SUFFICES ASSUME TypeInv, [Next]_vars PROVE TypeInv'
    OBVIOUS
<1>1. CASE Next
      BY <1>1, StepKeepsTypes, EnvironmentKeepsTypes DEF Next
<1>2. CASE UNCHANGED vars
      BY <1>2 DEF vars, stats, pass, snapshot, exec, TypeInv, TypeOK, Shape
<1> QED BY <1>1, <1>2

\* Every variable keeps its type and every pass its shape, whatever the
\* environment does and however many passes overlap.
THEOREM TypeCorrect == Spec => []TypeInv
<1> QED BY TypeInit, TypeStep, PTL DEF Spec

\* The same for the type invariant alone, which a run checks.
THEOREM Types == Spec => []TypeOK
<1>1. TypeInv => TypeOK
      BY DEF TypeInv
<1> QED BY TypeCorrect, <1>1, PTL

-------------------------------------------------------------------------------
(* One machine, one pass at a time.  The user may edit at any moment, files *)
(* may be skipped, Heads, S3 calls and disk operations may fail.            *)

OnlyWriter == Env \cap {"remote", "foreign", "store", "crash"} = {}

Agree(p) == IF remote[p] = None THEN row[p] = None ELSE row[p] = remote[p].hash

\* Why nothing is ever planned but uploads and deletes: an object that the
\* pass has headed carries the row's hash, so the remote side never looks
\* changed.  Why that lasts: between the two halves of an op the bucket holds
\* what the row is about to say.
SoleMemory(w) ==
    /\ \A p \in Paths : (pc[w] \in {"commit", "forget"} /\ at[w] = p) \/ Agree(p)
    /\ pc[w] \notin {"fetched", "write"}
    /\ \A p \in Paths : ops[w][p] \notin {"conflict", "download"}
    /\ pc[w] \in {"idle", "walk"} => seenR[w] = Nothing
    /\ pc[w] = "head" => \A p \in Paths : seenR[w][p] # None => row[p] = seenR[w][p].hash
    /\ pc[w] = "commit" => remote[at[w]] = buf[w]
    /\ pc[w] = "forget" => remote[at[w]] = None

SoleInv(w) == TypeInv /\ NoConflict /\ SoleMemory(w)

LEMMA SoleInit ==
    ASSUME NEW w, Passes = {w}, Init
    PROVE  SoleInv(w)
<1>1. TypeInv
      BY TypeInit
<1> QED
    BY <1>1 DEF Init, SoleInv, NoConflict, SoleMemory, Agree, Nothing, NoOps

\* What the planner makes of a path whose object, when seen, matches the row.
LEMMA NothingToFetch ==
    ASSUME NEW l, NEW r \in Object \cup {None}, NEW s, r # None => r.hash = s
    PROVE  PlanOp(l, r, s) \notin {"conflict", "download"}
<1>1. r # None => r.hash # None
      BY SentinelsAreDistinct DEF Object, Bytes
<1>2. ~WantsConflict(l, r, s)
      BY <1>1 DEF WantsConflict, RemoteChanged
<1>3. WantsDownload(l, r, s) => s = None /\ r # None
      BY DEF WantsDownload, RemoteChanged
<1> QED
    BY PlanOpCases, <1>1, <1>2, <1>3

\* A pass may leave anywhere but between the two halves of an op.
LEMMA SoleLeave ==
    ASSUME NEW w, Passes = {w}, SoleInv(w), Leave(w),
           pc[w] \notin {"commit", "forget"}, UNCHANGED <<remote, row>>
    PROVE  SoleMemory(w)'
BY DEF SoleInv, TypeInv, TypeOK, Leave, SoleMemory, Agree, NoOps, Nothing

LEMMA SoleStep ==
    ASSUME NEW w, Passes = {w}, SoleInv(w), Step(w)
    PROVE  SoleMemory(w)' /\ NoConflict' /\ UNCHANGED local
<1> DEFINE Goal == SoleMemory(w)' /\ NoConflict' /\ UNCHANGED local
<1> USE DEF SoleInv, stats, snapshot, exec
<1> w \in Passes /\ TypeOK /\ Shape(w)
    BY DEF TypeInv
<1>1. ASSUME Begin(w) PROVE Goal
      BY <1>1 DEF Begin, SoleMemory, NoConflict, Agree, TypeOK
<1>2. ASSUME NEW p \in Paths, WalkFile(w, p) PROVE Goal
      BY <1>2 DEF WalkFile, SoleMemory, NoConflict, Agree, TypeOK
<1>3. ASSUME ListObjects(w) PROVE Goal
      BY <1>3 DEF ListObjects, SoleMemory, NoConflict, Agree, TypeOK, Nothing
<1>4. ASSUME NEW p \in Paths, HeadObject(w, p) PROVE Goal
      <2>1. row[p] = remote[p].hash \/ remote[p] = None
            BY <1>4 DEF HeadObject, SoleMemory, Agree
      <2>2. seenR'[w] = [seenR[w] EXCEPT ![p] = remote[p]] \/ seenR' = seenR
            BY <1>4 DEF HeadObject, TypeOK
      <2>3. \A q \in Paths : seenR'[w][q] # None => row[q] = seenR'[w][q].hash
            BY <1>4, <2>1, <2>2 DEF HeadObject, SoleMemory, TypeOK
      <2> QED BY <1>4, <2>3 DEF HeadObject, SoleMemory, NoConflict, Agree
<1>5. ASSUME Plan(w) PROVE Goal
      <2>1. ASSUME NEW p \in Paths
            PROVE  ops'[w][p] \notin {"conflict", "download"}
            <3>1. ops'[w][p] = PlanOp(seenL[w][p], seenR[w][p], row[p])
                  BY <1>5 DEF Plan, TypeOK
            <3>2. seenR[w][p] \in Object \cup {None} /\ (seenR[w][p] # None => seenR[w][p].hash = row[p])
                  BY <1>5 DEF Plan, SoleMemory, TypeOK
            <3> QED BY <3>1, <3>2, NothingToFetch
      <2>2. pc'[w] = "exec"
            BY <1>5 DEF Plan, TypeOK
      <2> QED BY <1>5, <2>1, <2>2 DEF Plan, SoleMemory, NoConflict, Agree
<1>6. ASSUME NEW p \in Paths, ReadFile(w, p) PROVE Goal
      <2>1. CASE local[p] = None
            BY <1>6, <2>1, SoleLeave DEF ReadFile, Abort, NoConflict
      <2>2. CASE local[p] # None
            BY <1>6, <2>2 DEF ReadFile, SoleMemory, NoConflict, Agree, TypeOK
      <2> QED BY <2>1, <2>2
<1>7. ASSUME PutObject(w) PROVE Goal
      BY <1>7 DEF PutObject, SoleMemory, NoConflict, Agree, TypeOK, Shape
<1>8. ASSUME CommitRow(w) PROVE Goal
      <2>1. at[w] \in Paths /\ buf[w] # None
            BY <1>8, SentinelsAreDistinct DEF CommitRow, Shape, Object
      <2>2. \A q \in Paths : Agree(q)'
            BY <1>8, <2>1 DEF CommitRow, SoleMemory, Agree, TypeOK
      <2> QED BY <1>8, <2>1, <2>2 DEF CommitRow, OpDone, SoleMemory, NoConflict, TypeOK
<1>9. ASSUME NEW p \in Paths, GetObject(w, p) PROVE Goal
      BY <1>9 DEF GetObject, Due, Pending, SoleMemory
<1>10. ASSUME TruncateFile(w) PROVE Goal
      BY <1>10 DEF TruncateFile, SoleMemory
<1>11. ASSUME WriteFile(w) PROVE Goal
      BY <1>11 DEF WriteFile, SoleMemory
<1>12. ASSUME NEW p \in Paths, DeleteObject(w, p) PROVE Goal
      BY <1>12 DEF DeleteObject, SoleMemory, NoConflict, Agree, TypeOK, Shape
<1>13. ASSUME DeleteRow(w) PROVE Goal
      <2>1. at[w] \in Paths
            BY <1>13 DEF DeleteRow, Shape
      <2>2. \A q \in Paths : Agree(q)'
            BY <1>13, <2>1 DEF DeleteRow, SoleMemory, Agree, TypeOK
      <2> QED BY <1>13, <2>1, <2>2 DEF DeleteRow, OpDone, SoleMemory, NoConflict, TypeOK
<1>14. ASSUME NEW p \in Paths, RecordConflict(w, p) PROVE Goal
      BY <1>14 DEF RecordConflict, Due, Pending, SoleMemory
<1>15. ASSUME Finish(w) PROVE Goal
      BY <1>15, SoleLeave DEF Finish, NoConflict
<1> QED
    BY <1>1, <1>2, <1>3, <1>4, <1>5, <1>6, <1>7, <1>8, <1>9, <1>10, <1>11, <1>12, <1>13, <1>14, <1>15 DEF Step

\* Around the pass, only the user's edits and failed calls are left.
LEMMA SoleEnvironment ==
    ASSUME NEW w, Passes = {w}, OnlyWriter, SoleInv(w), Environment
    PROVE  SoleMemory(w)' /\ NoConflict' /\ (EngineActs => UNCHANGED local)
<1> DEFINE Goal == SoleMemory(w)' /\ NoConflict' /\ (EngineActs => UNCHANGED local)
<1> USE DEF SoleInv, stats, snapshot, exec, pass
<1>1. ASSUME NEW p \in Paths, UserEdit(p) PROVE Goal
      BY <1>1 DEF UserEdit, EngineActs, SoleMemory, NoConflict, Agree
<1>2. ASSUME NEW p \in Paths, RemoteEdit(p) \/ ForeignPut(p) PROVE FALSE
      BY <1>2 DEF RemoteEdit, ForeignPut, OnlyWriter
<1>3. ASSUME NEW p \in Paths, ResolveConflict(p) PROVE FALSE
      BY <1>3 DEF ResolveConflict, NoConflict
<1>4. ASSUME CallFails(w) \/ DiskFails(w) PROVE Goal
      BY <1>4, SoleLeave DEF CallFails, DiskFails, Abort, NoConflict
<1>5. ASSUME StoreFails(w) \/ Crash PROVE FALSE
      BY <1>5 DEF StoreFails, Crash, OnlyWriter
<1> QED
    BY <1>1, <1>2, <1>3, <1>4, <1>5 DEF Environment, Fail

LEMMA SoleNext ==
    ASSUME NEW w, Passes = {w}, OnlyWriter, SoleInv(w), [Next]_vars
    PROVE  SoleInv(w)' /\ (EngineActs => UNCHANGED local)
<1>1. TypeInv'
      BY TypeStep DEF SoleInv
<1>2. CASE \E v \in Passes : Step(v)
      BY <1>1, <1>2, SoleStep DEF SoleInv
<1>3. CASE Environment
      BY <1>1, <1>3, SoleEnvironment DEF SoleInv
<1>4. CASE UNCHANGED vars
      BY <1>1, <1>4 DEF vars, pass, stats, snapshot, exec, SoleInv, SoleMemory,
                        NoConflict, Agree, EngineActs
<1> QED
    BY <1>2, <1>3, <1>4 DEF Next

LEMMA SoleRow ==
    ASSUME NEW w, Passes = {w}, SoleInv(w)
    PROVE  RowMirrorsObject
BY DEF SoleInv, SoleMemory, RowMirrorsObject, InFlight, Agree

\* One machine, one pass at a time, files changing under it: the store and the
\* bucket never disagree outside the two windows between an S3 call and the
\* store's ...
THEOREM SoleWriterKeepsRows ==
    ASSUME NEW w, Passes = {w}, OnlyWriter
    PROVE  Spec => []RowMirrorsObject
<1>1. Init => SoleInv(w)
      BY SoleInit
<1>2. SoleInv(w) /\ [Next]_vars => SoleInv(w)'
      BY SoleNext
<1>3. SoleInv(w) => RowMirrorsObject
      BY SoleRow
<1> QED
    BY <1>1, <1>2, <1>3, PTL DEF Spec

\* ... no conflict is ever reported ...
THEOREM SoleWriterMeetsNoConflict ==
    ASSUME NEW w, Passes = {w}, OnlyWriter
    PROVE  Spec => []NoConflict
<1>1. Init => SoleInv(w)
      BY SoleInit
<1>2. SoleInv(w) /\ [Next]_vars => SoleInv(w)'
      BY SoleNext
<1>3. SoleInv(w) => NoConflict
      BY DEF SoleInv
<1> QED
    BY <1>1, <1>2, <1>3, PTL DEF Spec

\* ... and the engine never writes into the user's folders.
THEOREM SoleWriterLeavesFiles ==
    ASSUME NEW w, Passes = {w}, OnlyWriter
    PROVE  Spec => FilesLeftAlone
<1>1. Init => SoleInv(w)
      BY SoleInit
<1>2. SoleInv(w) /\ [Next]_vars => SoleInv(w)'
      BY SoleNext
<1>3. SoleInv(w) /\ [Next]_vars => [EngineActs => UNCHANGED local]_vars
      BY SoleNext
<1> QED
    BY <1>1, <1>2, <1>3, PTL DEF Spec, FilesLeftAlone
===============================================================================
