--------------------------- MODULE CalmPassProofs ---------------------------
(***************************************************************************)
(* One pass at a time, and both sides change only between passes: what the *)
(* pass saw is still there when it acts.  For any paths and contents, and  *)
(* with every failure and crash, the engine then keeps its promises: true  *)
(* metadata, and no silent overwrite on either side.                       *)
(***************************************************************************)
EXTENDS SyncEngineProofs

NoRace == "race" \notin Env

Executing == {"exec", "put", "commit", "fetched", "write", "forget"}

-------------------------------------------------------------------------------
(* The metadata of every object is the hash of its body.                    *)

\* What was hashed is what is still on disk, up to the moment it is read
\* again; a file the walk skipped is not uploaded at all.
HashMemory(w) ==
    /\ pc[w] = "idle" => seenL[w] = Nothing
    /\ pc[w] \in {"walk", "head"} => \A p \in Paths : seenL[w][p] \in {None, local[p]}
    /\ pc[w] \in Executing => \A p \in Paths : ops[w][p] = "upload" => seenL[w][p] = local[p]
    /\ pc[w] = "put" => buf[w].hash = buf[w].body
    /\ pc[w] \in {"fetched", "write"} => ops[w][at[w]] = "download"

HashInv(w) == TypeInv /\ ObjectHashMatchesBody /\ HashMemory(w)

LEMMA HashLeave ==
    ASSUME NEW w, Passes = {w}, HashInv(w), Leave(w)
    PROVE  HashMemory(w)'
BY DEF HashInv, TypeInv, TypeOK, Leave, HashMemory, Executing

LEMMA HashStep ==
    ASSUME NEW w, Passes = {w}, HashInv(w), Step(w)
    PROVE  HashMemory(w)' /\ ObjectHashMatchesBody'
<1> DEFINE Goal == HashMemory(w)' /\ ObjectHashMatchesBody'
<1> USE DEF HashInv, stats, snapshot, exec
<1> w \in Passes /\ TypeOK /\ Shape(w)
    BY DEF TypeInv
<1>1. ASSUME Begin(w) PROVE Goal
      BY <1>1 DEF Begin, HashMemory, ObjectHashMatchesBody, Executing, TypeOK, Nothing
<1>2. ASSUME NEW p \in Paths, WalkFile(w, p) PROVE Goal
      <2>1. \A q \in Paths : seenL'[w][q] \in {seenL[w][q], local[q]}
            BY <1>2 DEF WalkFile, TypeOK
      <2> QED BY <1>2, <2>1 DEF WalkFile, HashMemory, ObjectHashMatchesBody, Executing
<1>3. ASSUME ListObjects(w) PROVE Goal
      BY <1>3 DEF ListObjects, HashMemory, ObjectHashMatchesBody, Executing, TypeOK
<1>4. ASSUME NEW p \in Paths, HeadObject(w, p) PROVE Goal
      BY <1>4 DEF HeadObject, HashMemory, ObjectHashMatchesBody, Executing, TypeOK
<1>5. ASSUME Plan(w) PROVE Goal
      <2>1. ASSUME NEW p \in Paths, ops'[w][p] = "upload"
            PROVE  seenL[w][p] # None
            <3>1. ops'[w][p] = PlanOp(seenL[w][p], seenR[w][p], row[p])
                  BY <1>5 DEF Plan, TypeOK
            <3> QED BY <2>1, <3>1, PlanOpCases DEF WantsUpload
      <2>2. pc'[w] = "exec"
            BY <1>5 DEF Plan, TypeOK
      <2> QED BY <1>5, <2>1, <2>2 DEF Plan, HashMemory, ObjectHashMatchesBody
<1>6. ASSUME NEW p \in Paths, ReadFile(w, p) PROVE Goal
      <2>1. CASE local[p] = None
            BY <1>6, <2>1, HashLeave DEF ReadFile, Abort, ObjectHashMatchesBody
      <2>2. CASE local[p] # None
            <3>1. buf'[w] = [hash |-> local[p], body |-> local[p]]
                  BY <1>6, <2>2 DEF ReadFile, Sealed, Due, Pending, HashMemory, Executing, TypeOK
            <3>2. buf'[w].hash = buf'[w].body
                  BY <3>1
            <3> QED BY <1>6, <2>2, <3>2
                       DEF ReadFile, HashMemory, ObjectHashMatchesBody, Executing, TypeOK
      <2> QED BY <2>1, <2>2
<1>7. ASSUME PutObject(w) PROVE Goal
      BY <1>7 DEF PutObject, HashMemory, ObjectHashMatchesBody, Executing, TypeOK
<1>8. ASSUME CommitRow(w) PROVE Goal
      BY <1>8 DEF CommitRow, OpDone, HashMemory, ObjectHashMatchesBody, Executing, TypeOK
<1>9. ASSUME NEW p \in Paths, GetObject(w, p) PROVE Goal
      <2>1. CASE remote[p] = None \/ remote[p].hash = NoHash
            BY <1>9, <2>1, HashLeave DEF GetObject, Abort, ObjectHashMatchesBody
      <2>2. CASE ~(remote[p] = None \/ remote[p].hash = NoHash)
            BY <1>9, <2>2 DEF GetObject, Due, Pending, HashMemory, ObjectHashMatchesBody, Executing, TypeOK
      <2> QED BY <2>1, <2>2
<1>10. ASSUME TruncateFile(w) PROVE Goal
      BY <1>10 DEF TruncateFile, HashMemory, ObjectHashMatchesBody, Executing, TypeOK
<1>11. ASSUME WriteFile(w) PROVE Goal
      BY <1>11 DEF WriteFile, HashMemory, ObjectHashMatchesBody, Executing, TypeOK
<1>12. ASSUME NEW p \in Paths, DeleteObject(w, p) PROVE Goal
      BY <1>12 DEF DeleteObject, HashMemory, ObjectHashMatchesBody, Executing, TypeOK
<1>13. ASSUME DeleteRow(w) PROVE Goal
      BY <1>13 DEF DeleteRow, OpDone, HashMemory, ObjectHashMatchesBody, Executing, TypeOK
<1>14. ASSUME NEW p \in Paths, RecordConflict(w, p) PROVE Goal
      BY <1>14 DEF RecordConflict, HashMemory, ObjectHashMatchesBody, Executing, TypeOK
<1>15. ASSUME Finish(w) PROVE Goal
      BY <1>15, HashLeave DEF Finish, ObjectHashMatchesBody
<1> QED
    BY <1>1, <1>2, <1>3, <1>4, <1>5, <1>6, <1>7, <1>8, <1>9, <1>10, <1>11, <1>12, <1>13, <1>14, <1>15 DEF Step

LEMMA HashEnvironment ==
    ASSUME NEW w, Passes = {w}, NoRace, HashInv(w), Environment
    PROVE  HashMemory(w)' /\ ObjectHashMatchesBody'
<1> DEFINE Goal == HashMemory(w)' /\ ObjectHashMatchesBody'
<1> USE DEF HashInv, stats, snapshot, exec, pass
<1> TypeOK
    BY DEF TypeInv
<1>1. ASSUME NEW p \in Paths, UserEdit(p) PROVE Goal
      BY <1>1 DEF UserEdit, Calm, Idle, NoRace, HashMemory, ObjectHashMatchesBody, Executing
<1>2. ASSUME NEW p \in Paths, RemoteEdit(p) \/ ForeignPut(p) PROVE Goal
      <2>1. \A q \in Paths : \/ remote'[q] = remote[q]
                             \/ remote'[q] = None
                             \/ remote'[q].hash \in {remote'[q].body, NoHash}
            BY <1>2 DEF RemoteEdit, ForeignPut, TypeOK
      <2> QED BY <1>2, <2>1 DEF RemoteEdit, ForeignPut, HashMemory, ObjectHashMatchesBody
<1>3. ASSUME NEW p \in Paths, ResolveConflict(p) PROVE Goal
      BY <1>3 DEF ResolveConflict, HashMemory, ObjectHashMatchesBody
<1>4. ASSUME Fail(w) PROVE Goal
      BY <1>4, HashLeave DEF Fail, CallFails, StoreFails, DiskFails, Abort, ObjectHashMatchesBody
<1>5. ASSUME Crash PROVE Goal
      BY <1>5 DEF Crash, HashMemory, ObjectHashMatchesBody, Executing
<1> QED
    BY <1>1, <1>2, <1>3, <1>4, <1>5 DEF Environment

LEMMA HashInit ==
    ASSUME NEW w, Passes = {w}, Init
    PROVE  HashInv(w)
BY TypeInit DEF HashInv, Init, HashMemory, ObjectHashMatchesBody, Executing, Nothing

LEMMA HashNext ==
    ASSUME NEW w, Passes = {w}, NoRace, HashInv(w), [Next]_vars
    PROVE  HashInv(w)'
<1>1. TypeInv'
      BY TypeStep DEF HashInv
<1>2. CASE \E v \in Passes : Step(v)
      BY <1>1, <1>2, HashStep DEF HashInv
<1>3. CASE Environment
      BY <1>1, <1>3, HashEnvironment DEF HashInv
<1>4. CASE UNCHANGED vars
      BY <1>1, <1>4 DEF vars, pass, stats, snapshot, exec, HashInv, HashMemory,
                        ObjectHashMatchesBody
<1> QED
    BY <1>2, <1>3, <1>4 DEF Next

\* No object ever claims a content it does not hold.
THEOREM MetadataIsTrue ==
    ASSUME NEW w, Passes = {w}, NoRace
    PROVE  Spec => []ObjectHashMatchesBody
<1>1. Init => HashInv(w)
      BY HashInit
<1>2. HashInv(w) /\ [Next]_vars => HashInv(w)'
      BY HashNext
<1>3. HashInv(w) => ObjectHashMatchesBody
      BY DEF HashInv
<1> QED
    BY <1>1, <1>2, <1>3, PTL DEF Spec

-------------------------------------------------------------------------------
(* No silent overwrite of a file.                                           *)

\* A planned download finds no file, or the version of the last sync, until
\* it truncates the file itself.
LocalMemory(w) ==
    /\ pc[w] = "walk" => \A p \in Paths \ todo[w] : seenL[w][p] = local[p]
    /\ pc[w] = "head" => \A p \in Paths : seenL[w][p] = local[p]
    /\ pc[w] \in Executing =>
           \A p \in Paths :
               ops[w][p] = "download" =>
                   \/ local[p] \in {None, row[p]}
                   \/ pc[w] \in {"write", "commit"} /\ at[w] = p
    /\ pc[w] \in {"fetched", "write"} => ops[w][at[w]] = "download"
    /\ pc[w] = "write" => local[at[w]] = Torn

LocalInv(w) == TypeInv /\ LocalMemory(w)

\* A file that changes is absent, torn, or the version of the last sync.
LocalKept == \A p \in Paths : local'[p] = local[p] \/ local[p] \in {None, Torn, row[p]}

LEMMA LocalLeave ==
    ASSUME NEW w, Passes = {w}, LocalInv(w), Leave(w)
    PROVE  LocalMemory(w)'
BY DEF LocalInv, TypeInv, TypeOK, Leave, LocalMemory, Executing

LEMMA LocalStep ==
    ASSUME NEW w, Passes = {w}, "walk" \notin Env, LocalInv(w), Step(w)
    PROVE  LocalMemory(w)' /\ LocalKept
<1> DEFINE Goal == LocalMemory(w)' /\ LocalKept
<1> USE DEF LocalInv, stats, snapshot, exec
<1> w \in Passes /\ TypeOK /\ Shape(w)
    BY DEF TypeInv
<1>1. ASSUME Begin(w) PROVE Goal
      BY <1>1 DEF Begin, LocalMemory, LocalKept, Executing, TypeOK
<1>2. ASSUME NEW p \in Paths, WalkFile(w, p) PROVE Goal
      <2>1. /\ todo'[w] = todo[w] \ {p}
            /\ \A q \in Paths : seenL'[w][q] = IF q = p THEN local[q] ELSE seenL[w][q]
            BY <1>2 DEF WalkFile, TypeOK
      <2> QED BY <1>2, <2>1 DEF WalkFile, LocalMemory, LocalKept, Executing
<1>3. ASSUME ListObjects(w) PROVE Goal
      BY <1>3 DEF ListObjects, LocalMemory, LocalKept, Executing, TypeOK
<1>4. ASSUME NEW p \in Paths, HeadObject(w, p) PROVE Goal
      BY <1>4 DEF HeadObject, LocalMemory, LocalKept, Executing, TypeOK
<1>5. ASSUME Plan(w) PROVE Goal
      <2>1. ASSUME NEW p \in Paths, ops'[w][p] = "download"
            PROVE  seenL[w][p] \in {None, row[p]}
            <3>1. ops'[w][p] = PlanOp(seenL[w][p], seenR[w][p], row[p])
                  BY <1>5 DEF Plan, TypeOK
            <3> QED BY <2>1, <3>1, PlanOpCases DEF WantsDownload, LocalChanged
      <2>2. pc'[w] = "exec"
            BY <1>5 DEF Plan, TypeOK
      <2> QED BY <1>5, <2>1, <2>2 DEF Plan, LocalMemory, LocalKept
<1>6. ASSUME NEW p \in Paths, ReadFile(w, p) PROVE Goal
      <2>1. CASE local[p] = None
            BY <1>6, <2>1, LocalLeave DEF ReadFile, Abort, LocalKept
      <2>2. CASE local[p] # None
            BY <1>6, <2>2 DEF ReadFile, LocalMemory, LocalKept, Executing, TypeOK
      <2> QED BY <2>1, <2>2
<1>7. ASSUME PutObject(w) PROVE Goal
      BY <1>7 DEF PutObject, LocalMemory, LocalKept, Executing, TypeOK
<1>8. ASSUME CommitRow(w) PROVE Goal
      BY <1>8 DEF CommitRow, OpDone, LocalMemory, LocalKept, Executing, TypeOK, Shape
<1>9. ASSUME NEW p \in Paths, GetObject(w, p) PROVE Goal
      <2>1. CASE remote[p] = None \/ remote[p].hash = NoHash
            BY <1>9, <2>1, LocalLeave DEF GetObject, Abort, LocalKept
      <2>2. CASE ~(remote[p] = None \/ remote[p].hash = NoHash)
            BY <1>9, <2>2 DEF GetObject, Due, Pending, LocalMemory, LocalKept, Executing, TypeOK
      <2> QED BY <2>1, <2>2
<1>10. ASSUME TruncateFile(w) PROVE Goal
      BY <1>10 DEF TruncateFile, LocalMemory, LocalKept, Executing, TypeOK, Shape
<1>11. ASSUME WriteFile(w) PROVE Goal
      <2>1. at[w] \in Paths /\ local[at[w]] = Torn
            BY <1>11 DEF WriteFile, Shape, LocalMemory
      <2> QED BY <1>11, <2>1 DEF WriteFile, LocalMemory, LocalKept, Executing, TypeOK
<1>12. ASSUME NEW p \in Paths, DeleteObject(w, p) PROVE Goal
      BY <1>12 DEF DeleteObject, LocalMemory, LocalKept, Executing, TypeOK
<1>13. ASSUME DeleteRow(w) PROVE Goal
      BY <1>13 DEF DeleteRow, OpDone, LocalMemory, LocalKept, Executing, TypeOK, Shape
<1>14. ASSUME NEW p \in Paths, RecordConflict(w, p) PROVE Goal
      BY <1>14 DEF RecordConflict, LocalMemory, LocalKept, Executing, TypeOK
<1>15. ASSUME Finish(w) PROVE Goal
      BY <1>15, LocalLeave DEF Finish, LocalKept
<1> QED
    BY <1>1, <1>2, <1>3, <1>4, <1>5, <1>6, <1>7, <1>8, <1>9, <1>10, <1>11, <1>12, <1>13, <1>14, <1>15 DEF Step

LEMMA LocalEnvironment ==
    ASSUME NEW w, Passes = {w}, NoRace, LocalInv(w), Environment
    PROVE  LocalMemory(w)' /\ (EngineActs => LocalKept)
<1> DEFINE Goal == LocalMemory(w)' /\ (EngineActs => LocalKept)
<1> USE DEF LocalInv, stats, snapshot, exec, pass
<1>1. ASSUME NEW p \in Paths, UserEdit(p) PROVE Goal
      BY <1>1 DEF UserEdit, Calm, Idle, NoRace, EngineActs, LocalMemory, Executing
<1>2. ASSUME NEW p \in Paths, RemoteEdit(p) \/ ForeignPut(p) PROVE Goal
      BY <1>2 DEF RemoteEdit, ForeignPut, EngineActs, LocalMemory
<1>3. ASSUME NEW p \in Paths, ResolveConflict(p) PROVE Goal
      BY <1>3 DEF ResolveConflict, EngineActs, LocalMemory
<1>4. ASSUME Fail(w) PROVE Goal
      BY <1>4, LocalLeave DEF Fail, CallFails, StoreFails, DiskFails, Abort, LocalKept
<1>5. ASSUME Crash PROVE Goal
      BY <1>5 DEF Crash, LocalMemory, LocalKept, Executing
<1> QED
    BY <1>1, <1>2, <1>3, <1>4, <1>5 DEF Environment

LEMMA LocalInit ==
    ASSUME NEW w, Passes = {w}, Init
    PROVE  LocalInv(w)
BY TypeInit DEF LocalInv, Init, LocalMemory, Executing

LEMMA LocalNext ==
    ASSUME NEW w, Passes = {w}, NoRace, "walk" \notin Env, LocalInv(w), [Next]_vars
    PROVE  LocalInv(w)' /\ (EngineActs => LocalKept)
<1>1. TypeInv'
      BY TypeStep DEF LocalInv
<1>2. CASE \E v \in Passes : Step(v)
      BY <1>1, <1>2, LocalStep DEF LocalInv
<1>3. CASE Environment
      BY <1>1, <1>3, LocalEnvironment DEF LocalInv
<1>4. CASE UNCHANGED vars
      BY <1>1, <1>4 DEF vars, pass, stats, snapshot, exec, LocalInv, LocalMemory, EngineActs
<1> QED
    BY <1>2, <1>3, <1>4 DEF Next

\* The engine replaces a complete file only when that is the version recorded
\* at the last sync.
THEOREM FilesAreNotOverwritten ==
    ASSUME NEW w, Passes = {w}, NoRace, "walk" \notin Env
    PROVE  Spec => NoSilentLocalOverwrite
<1> DEFINE Kept == \A p \in Paths :
                      /\ EngineActs
                      /\ local[p] \in Contents
                      /\ local'[p] # local[p]
                      => local[p] = row[p]
<1>1. Init => LocalInv(w)
      BY LocalInit
<1>2. LocalInv(w) /\ [Next]_vars => LocalInv(w)'
      BY LocalNext
<1>3. LocalInv(w) /\ [Next]_vars => [Kept]_vars
      <2> SUFFICES ASSUME LocalInv(w), [Next]_vars, NEW p \in Paths,
                          EngineActs, local[p] \in Contents, local'[p] # local[p]
                   PROVE  local[p] = row[p]
          OBVIOUS
      <2> QED BY LocalNext, SentinelsAreDistinct DEF LocalKept
<1> QED
    BY <1>1, <1>2, <1>3, PTL DEF Spec, NoSilentLocalOverwrite

-------------------------------------------------------------------------------
(* No object is deleted under a file.                                       *)

\* Only Plan adds to the ops of a pass.
LEMMA OpsOnlyShrink ==
    ASSUME NEW w, Passes = {w}, TypeInv, Next, ~Plan(w), NEW p \in Paths
    PROVE  ops'[w][p] \in {ops[w][p], "noop"}
<1> USE DEF stats, snapshot, exec, pass
<1> w \in Passes /\ TypeOK
    BY DEF TypeInv
<1>1. ASSUME Leave(w) PROVE ops'[w][p] = "noop"
      BY <1>1 DEF Leave, NoOps, TypeOK
<1>2. ASSUME OpDone(w) PROVE ops'[w][p] \in {ops[w][p], "noop"}
      BY <1>2 DEF OpDone, TypeOK
<1>3. ASSUME NEW q \in Paths, RecordConflict(w, q) PROVE ops'[w][p] \in {ops[w][p], "noop"}
      BY <1>3 DEF RecordConflict, TypeOK
<1>4. ASSUME Crash PROVE ops'[w][p] = "noop"
      BY <1>4 DEF Crash, NoOps
<1>5. \/ ops' = ops \/ Leave(w) \/ OpDone(w) \/ Crash \/ \E q \in Paths : RecordConflict(w, q)
      BY DEF Next, Step, Begin, WalkFile, ListObjects, HeadObject, ReadFile, Abort, PutObject,
             CommitRow, GetObject, TruncateFile, WriteFile, DeleteObject, DeleteRow, Finish,
             Environment, UserEdit, RemoteEdit, ForeignPut, ResolveConflict,
             Fail, CallFails, StoreFails, DiskFails
<1> QED
    BY <1>1, <1>2, <1>3, <1>4, <1>5

\* A file changes under a pass only where the pass downloads it.
LEMMA OnlyDownloadsMoveFiles ==
    ASSUME NEW w, Passes = {w}, NoRace, LocalInv(w), Next, NEW p \in Paths
    PROVE  local'[p] = local[p] \/ ops[w][p] \in {"noop", "download"}
<1> USE DEF stats, snapshot, exec, pass
<1> w \in Passes /\ TypeOK /\ Shape(w)
    BY DEF LocalInv, TypeInv
<1>1. ASSUME NEW q \in Paths, UserEdit(q) PROVE ops[w][p] = "noop"
      BY <1>1 DEF UserEdit, Calm, Idle, NoRace, Shape, NoOps
<1>2. CASE TruncateFile(w) \/ WriteFile(w)
      BY <1>2 DEF TruncateFile, WriteFile, LocalInv, LocalMemory, TypeOK
<1>3. \/ local' = local \/ TruncateFile(w) \/ WriteFile(w) \/ \E q \in Paths : UserEdit(q)
      BY DEF Next, Step, Begin, WalkFile, ListObjects, HeadObject, Plan, ReadFile, Abort, PutObject,
             CommitRow, GetObject, DeleteObject, DeleteRow, RecordConflict, Finish,
             Environment, RemoteEdit, ForeignPut, ResolveConflict, Crash,
             Fail, CallFails, StoreFails, DiskFails
<1> QED
    BY <1>1, <1>2, <1>3

\* When an object is about to be deleted, its file is gone.
THEOREM DeletionsAreTheUsers ==
    ASSUME NEW w, Passes = {w}, NoRace, "walk" \notin Env
    PROVE  Spec => []DeletionFollowsDeletion
<1> DEFINE Inv == LocalInv(w) /\ DeletionFollowsDeletion
<1>1. Init => Inv
      BY LocalInit DEF Init, NoOps, DeletionFollowsDeletion
<1>2. Inv /\ [Next]_vars => Inv'
      <2> SUFFICES ASSUME Inv, [Next]_vars PROVE Inv'
          OBVIOUS
      <2>1. LocalInv(w)'
            BY LocalNext
      <2>2. CASE Plan(w)
            <3>1. ASSUME NEW p \in Paths, ops'[w][p] = "delete-remote" PROVE local'[p] = None
                  <4>1. ops'[w][p] = PlanOp(seenL[w][p], seenR[w][p], row[p])
                        BY <2>2 DEF Plan, LocalInv, TypeInv, TypeOK
                  <4>2. seenL[w][p] = None
                        BY <3>1, <4>1, PlanOpCases DEF WantsDeleteRemote
                  <4> QED BY <2>2, <4>2 DEF Plan, LocalInv, LocalMemory
            <3> QED BY <2>1, <3>1 DEF DeletionFollowsDeletion
      <2>3. CASE Next /\ ~Plan(w)
            <3>1. ASSUME NEW p \in Paths, ops'[w][p] = "delete-remote" PROVE local'[p] = None
                  <4>1. ops[w][p] = "delete-remote"
                        BY <2>3, <3>1, OpsOnlyShrink DEF LocalInv
                  <4>2. local'[p] = local[p]
                        BY <2>3, <4>1, OnlyDownloadsMoveFiles
                  <4> QED BY <4>1, <4>2 DEF DeletionFollowsDeletion
            <3> QED BY <2>1, <3>1 DEF DeletionFollowsDeletion
      <2>4. CASE UNCHANGED vars
            BY <2>1, <2>4 DEF vars, pass, exec, DeletionFollowsDeletion
      <2> QED BY <2>2, <2>3, <2>4
<1>3. Inv => DeletionFollowsDeletion
      OBVIOUS
<1> QED
    BY <1>1, <1>2, <1>3, PTL DEF Spec

-------------------------------------------------------------------------------
(* No silent overwrite of an object.                                        *)

\* A planned upload finds no object, or one that is not newer than the last
\* sync, until it puts its own.
Replaceable(p) == remote[p] = None \/ remote[p].hash \in {row[p], NoHash}

RemoteMemory(w) ==
    /\ pc[w] \in {"idle", "walk"} => seenR[w] = Nothing
    /\ pc[w] = "head" => \A p \in Paths \ Hidden : p \notin todo[w] => seenR[w][p] = remote[p]
    /\ pc[w] \in Executing =>
           \A p \in Paths \ Hidden :
               ops[w][p] = "upload" => Replaceable(p) \/ (pc[w] = "commit" /\ at[w] = p)
    /\ pc[w] = "put" => ops[w][at[w]] = "upload"

RemoteInv(w) == TypeInv /\ RemoteMemory(w)

\* An object that is replaced was replaceable.
RemoteKept ==
    \A p \in Paths \ Hidden :
        remote'[p] = remote[p] \/ remote'[p] = None \/ Replaceable(p)

LEMMA RemoteLeave ==
    ASSUME NEW w, Passes = {w}, RemoteInv(w), Leave(w)
    PROVE  RemoteMemory(w)'
BY DEF RemoteInv, TypeInv, TypeOK, Leave, RemoteMemory, Executing

LEMMA RemoteStep ==
    ASSUME NEW w, Passes = {w}, "head" \notin Env, RemoteInv(w), Step(w)
    PROVE  RemoteMemory(w)' /\ RemoteKept
<1> DEFINE Goal == RemoteMemory(w)' /\ RemoteKept
<1> USE DEF RemoteInv, stats, snapshot, exec
<1> w \in Passes /\ TypeOK /\ Shape(w)
    BY DEF TypeInv
<1>1. ASSUME Begin(w) PROVE Goal
      BY <1>1 DEF Begin, RemoteMemory, RemoteKept, Replaceable, Executing, TypeOK
<1>2. ASSUME NEW p \in Paths, WalkFile(w, p) PROVE Goal
      BY <1>2 DEF WalkFile, RemoteMemory, RemoteKept, Replaceable, Executing, TypeOK
<1>3. ASSUME ListObjects(w) PROVE Goal
      <2>1. todo'[w] = Listed /\ seenR'[w] = Nothing
            BY <1>3 DEF ListObjects, RemoteMemory, TypeOK
      <2>2. \A q \in Paths \ Hidden : q \notin Listed => remote[q] = None
            BY DEF Listed
      <2> QED BY <1>3, <2>1, <2>2
                 DEF ListObjects, RemoteMemory, RemoteKept, Executing, Nothing, TypeOK
<1>4. ASSUME NEW p \in Paths, HeadObject(w, p) PROVE Goal
      <2>1. /\ todo'[w] = todo[w] \ {p}
            /\ \A q \in Paths : seenR'[w][q] = IF q = p THEN remote[q] ELSE seenR[w][q]
            BY <1>4 DEF HeadObject, TypeOK
      <2> QED BY <1>4, <2>1 DEF HeadObject, RemoteMemory, RemoteKept, Executing
<1>5. ASSUME Plan(w) PROVE Goal
      <2>1. ASSUME NEW p \in Paths \ Hidden, ops'[w][p] = "upload"
            PROVE  Replaceable(p)
            <3>1. ops'[w][p] = PlanOp(seenL[w][p], remote[p], row[p])
                  BY <1>5 DEF Plan, RemoteMemory, TypeOK
            <3> QED BY <2>1, <3>1, PlanOpCases DEF WantsUpload, RemoteChanged, Replaceable
      <2>2. pc'[w] = "exec"
            BY <1>5 DEF Plan, TypeOK
      <2> QED BY <1>5, <2>1, <2>2 DEF Plan, RemoteMemory, RemoteKept, Replaceable
<1>6. ASSUME NEW p \in Paths, ReadFile(w, p) PROVE Goal
      <2>1. CASE local[p] = None
            BY <1>6, <2>1, RemoteLeave DEF ReadFile, Abort, RemoteKept
      <2>2. CASE local[p] # None
            BY <1>6, <2>2
               DEF ReadFile, Due, Pending, RemoteMemory, RemoteKept, Replaceable, Executing, TypeOK
      <2> QED BY <2>1, <2>2
<1>7. ASSUME PutObject(w) PROVE Goal
      <2>1. at[w] \in Paths /\ (at[w] \notin Hidden => Replaceable(at[w]))
            BY <1>7 DEF PutObject, Shape, RemoteMemory, Executing
      <2> QED BY <1>7, <2>1
                 DEF PutObject, RemoteMemory, RemoteKept, Replaceable, Executing, TypeOK
<1>8. ASSUME CommitRow(w) PROVE Goal
      BY <1>8 DEF CommitRow, OpDone, RemoteMemory, RemoteKept, Replaceable, Executing, TypeOK, Shape
<1>9. ASSUME NEW p \in Paths, GetObject(w, p) PROVE Goal
      <2>1. CASE remote[p] = None \/ remote[p].hash = NoHash
            BY <1>9, <2>1, RemoteLeave DEF GetObject, Abort, RemoteKept
      <2>2. CASE ~(remote[p] = None \/ remote[p].hash = NoHash)
            BY <1>9, <2>2 DEF GetObject, RemoteMemory, RemoteKept, Replaceable, Executing, TypeOK
      <2> QED BY <2>1, <2>2
<1>10. ASSUME TruncateFile(w) PROVE Goal
      BY <1>10 DEF TruncateFile, RemoteMemory, RemoteKept, Replaceable, Executing, TypeOK
<1>11. ASSUME WriteFile(w) PROVE Goal
      BY <1>11 DEF WriteFile, RemoteMemory, RemoteKept, Replaceable, Executing, TypeOK
<1>12. ASSUME NEW p \in Paths, DeleteObject(w, p) PROVE Goal
      BY <1>12 DEF DeleteObject, RemoteMemory, RemoteKept, Replaceable, Executing, TypeOK
<1>13. ASSUME DeleteRow(w) PROVE Goal
      BY <1>13 DEF DeleteRow, OpDone, RemoteMemory, RemoteKept, Replaceable, Executing, TypeOK, Shape
<1>14. ASSUME NEW p \in Paths, RecordConflict(w, p) PROVE Goal
      BY <1>14 DEF RecordConflict, RemoteMemory, RemoteKept, Replaceable, Executing, TypeOK
<1>15. ASSUME Finish(w) PROVE Goal
      BY <1>15, RemoteLeave DEF Finish, RemoteKept
<1> QED
    BY <1>1, <1>2, <1>3, <1>4, <1>5, <1>6, <1>7, <1>8, <1>9, <1>10, <1>11, <1>12, <1>13, <1>14, <1>15 DEF Step

LEMMA RemoteEnvironment ==
    ASSUME NEW w, Passes = {w}, NoRace, RemoteInv(w), Environment
    PROVE  RemoteMemory(w)' /\ (EngineActs => RemoteKept)
<1> DEFINE Goal == RemoteMemory(w)' /\ (EngineActs => RemoteKept)
<1> USE DEF RemoteInv, stats, snapshot, exec, pass
<1>1. ASSUME NEW p \in Paths, UserEdit(p) PROVE Goal
      BY <1>1 DEF UserEdit, EngineActs, RemoteMemory, Replaceable
<1>2. ASSUME NEW p \in Paths, RemoteEdit(p) \/ ForeignPut(p) PROVE Goal
      BY <1>2 DEF RemoteEdit, ForeignPut, Calm, Idle, NoRace, EngineActs, RemoteMemory, Executing
<1>3. ASSUME NEW p \in Paths, ResolveConflict(p) PROVE Goal
      BY <1>3 DEF ResolveConflict, EngineActs, RemoteMemory, Replaceable
<1>4. ASSUME Fail(w) PROVE Goal
      BY <1>4, RemoteLeave DEF Fail, CallFails, StoreFails, DiskFails, Abort, RemoteKept
<1>5. ASSUME Crash PROVE Goal
      BY <1>5 DEF Crash, RemoteMemory, RemoteKept, Executing
<1> QED
    BY <1>1, <1>2, <1>3, <1>4, <1>5 DEF Environment

LEMMA RemoteInit ==
    ASSUME NEW w, Passes = {w}, Init
    PROVE  RemoteInv(w)
BY TypeInit DEF RemoteInv, Init, RemoteMemory, Executing

LEMMA RemoteNext ==
    ASSUME NEW w, Passes = {w}, NoRace, "head" \notin Env, RemoteInv(w), [Next]_vars
    PROVE  RemoteInv(w)' /\ (EngineActs => RemoteKept)
<1>1. TypeInv'
      BY TypeStep DEF RemoteInv
<1>2. CASE \E v \in Passes : Step(v)
      BY <1>1, <1>2, RemoteStep DEF RemoteInv
<1>3. CASE Environment
      BY <1>1, <1>3, RemoteEnvironment DEF RemoteInv
<1>4. CASE UNCHANGED vars
      BY <1>1, <1>4 DEF vars, pass, stats, snapshot, exec, RemoteInv, RemoteMemory,
                        Replaceable, EngineActs
<1> QED
    BY <1>2, <1>3, <1>4 DEF Next

\* The engine replaces an object only when that is the version recorded at the
\* last sync, carries no dropboy metadata, or is hidden from the listing.
THEOREM ObjectsAreNotOverwritten ==
    ASSUME NEW w, Passes = {w}, NoRace, "head" \notin Env
    PROVE  Spec => NoSilentRemoteOverwrite
<1> DEFINE Kept == \A p \in Paths \ Hidden :
                      /\ EngineActs
                      /\ remote[p] # None
                      /\ remote'[p] # None
                      /\ remote'[p] # remote[p]
                      => remote[p].hash \in {row[p], NoHash}
<1>1. Init => RemoteInv(w)
      BY RemoteInit
<1>2. RemoteInv(w) /\ [Next]_vars => RemoteInv(w)'
      BY RemoteNext
<1>3. RemoteInv(w) /\ [Next]_vars => [Kept]_vars
      <2> SUFFICES ASSUME RemoteInv(w), [Next]_vars, NEW p \in Paths \ Hidden, EngineActs,
                          remote[p] # None, remote'[p] # None, remote'[p] # remote[p]
                   PROVE  remote[p].hash \in {row[p], NoHash}
          OBVIOUS
      <2> QED BY RemoteNext DEF RemoteKept, Replaceable
<1> QED
    BY <1>1, <1>2, <1>3, PTL DEF Spec, NoSilentRemoteOverwrite

-------------------------------------------------------------------------------
(* The pass implements the abstract synchronizer.                           *)

\* What the planner would say of p now.
Wanted(p) == PlanOp(local[p], IF p \in Hidden THEN None ELSE remote[p], row[p])

\* Hidden keys are headed by nobody.
HiddenMemory(w) ==
    /\ pc[w] = "head" => todo[w] \cap Hidden = {}
    /\ pc[w] \in {"walk", "head"} => \A p \in Hidden : seenR[w][p] = None

\* An op that was planned and not begun is still the one to do.
StillWanted(w) ==
    \A p \in Paths : \/ ops[w][p] \in {"noop", Wanted(p)}
                     \/ pc[w] \in {"write", "commit", "forget"} /\ at[w] = p

\* An op that was begun has its effects behind it, and holds for the next one
\* what the side it came from holds.
Holding(w) ==
    /\ pc[w] = "put" => buf[w] = [hash |-> local[at[w]], body |-> local[at[w]]]
    /\ pc[w] \in {"fetched", "write"} =>
           /\ remote[at[w]] # None /\ remote[at[w]].hash # NoHash
           /\ buf[w] = [hash |-> remote[at[w]].body, body |-> remote[at[w]].body]
    /\ pc[w] = "commit" =>
           /\ remote[at[w]] # None
           /\ local[at[w]] = remote[at[w]].body /\ buf[w].hash = local[at[w]]
    /\ pc[w] = "forget" => local[at[w]] = None /\ remote[at[w]] = None

CalmMemory(w) == HiddenMemory(w) /\ StillWanted(w) /\ Holding(w)

CalmInv(w) == HashInv(w) /\ LocalInv(w) /\ RemoteInv(w) /\ CalmMemory(w)

SeesEverything == "walk" \notin Env /\ "head" \notin Env

\* With nothing planned and nothing begun there is nothing to remember.
LEMMA CalmBefore ==
    ASSUME NEW w \in Passes, ops'[w] = NoOps, pc'[w] \in {"idle", "walk", "head"},
           HiddenMemory(w)'
    PROVE  CalmMemory(w)'
BY DEF CalmMemory, StillWanted, Holding, NoOps

LEMMA CalmLeave ==
    ASSUME NEW w \in Passes, TypeInv, Leave(w)
    PROVE  CalmMemory(w)'
<1>1. ops'[w] = NoOps /\ pc'[w] = "idle"
      BY DEF Leave, TypeInv, TypeOK
<1> QED
    BY <1>1, CalmBefore DEF HiddenMemory

\* The snapshots are what the sides hold, so the plan is what they ask for.
LEMMA CalmPlan ==
    ASSUME NEW w \in Passes, CalmInv(w), Plan(w)
    PROVE  CalmMemory(w)'
<1>1. \A p \in Paths : ops'[w][p] = PlanOp(seenL[w][p], seenR[w][p], row[p])
      BY DEF Plan, CalmInv, HashInv, TypeInv, TypeOK
<1>2. \A p \in Paths : /\ seenL[w][p] = local[p]
                       /\ seenR[w][p] = IF p \in Hidden THEN None ELSE remote[p]
      BY DEF Plan, CalmInv, LocalInv, LocalMemory, RemoteInv, RemoteMemory, CalmMemory, HiddenMemory
<1>3. pc'[w] = "exec" /\ UNCHANGED <<local, remote, row>>
      BY DEF Plan, CalmInv, HashInv, TypeInv, TypeOK
<1>4. \A p \in Paths : ops'[w][p] = Wanted(p)'
      BY <1>1, <1>2, <1>3 DEF Wanted
<1> QED
    BY <1>3, <1>4 DEF CalmMemory, HiddenMemory, StillWanted, Holding

\* One path changes, and it is the one of the op that is behind its first effect.
LEMMA OthersStillWanted ==
    ASSUME NEW w \in Passes, StillWanted(w), ops' = ops, NEW q \in Paths, at'[w] = q,
           pc'[w] \in {"write", "commit", "forget"},
           pc[w] \in {"write", "commit", "forget"} => at[w] = q,
           \A p \in Paths \ {q} : /\ local'[p] = local[p]
                                  /\ remote'[p] = remote[p] /\ row'[p] = row[p]
    PROVE  StillWanted(w)'
<1>1. \A p \in Paths \ {q} : Wanted(p)' = Wanted(p)
      BY DEF Wanted
<1> QED
    BY <1>1 DEF StillWanted

\* The path of an op that is done wants nothing more of this pass.
LEMMA DoneIsDone ==
    ASSUME NEW w \in Passes, TypeOK, StillWanted(w), at[w] \in Paths, OpDone(w),
           UNCHANGED <<local, remote>>,
           \A p \in Paths : p # at[w] => row'[p] = row[p]
    PROVE  CalmMemory(w)'
<1>1. \A p \in Paths : ops'[w][p] = IF p = at[w] THEN "noop" ELSE ops[w][p]
      BY DEF OpDone, TypeOK
<1>2. pc'[w] = "exec"
      BY DEF OpDone, TypeOK
<1>3. \A p \in Paths : p # at[w] => Wanted(p)' = Wanted(p)
      BY DEF Wanted
<1> QED
    BY <1>1, <1>2, <1>3 DEF CalmMemory, HiddenMemory, StillWanted, Holding

LEMMA CalmStep ==
    ASSUME NEW w, Passes = {w}, CalmInv(w), Step(w)
    PROVE  CalmMemory(w)'
<1> USE DEF CalmInv, stats, snapshot, exec
<1> w \in Passes /\ TypeInv /\ TypeOK /\ Shape(w) /\ HiddenMemory(w) /\ StillWanted(w) /\ Holding(w)
    BY DEF HashInv, TypeInv, CalmMemory
<1>1. CASE Begin(w)
      <2>1. seenR[w] = Nothing /\ ops[w] = NoOps
            BY <1>1 DEF Begin, RemoteInv, RemoteMemory, Shape
      <2>2. pc'[w] = "walk" /\ ops' = ops /\ seenR' = seenR
            BY <1>1 DEF Begin, TypeOK
      <2> QED BY <2>1, <2>2, CalmBefore, HiddenAssumption DEF HiddenMemory, Nothing
<1>2. ASSUME NEW p \in Paths, WalkFile(w, p) PROVE CalmMemory(w)'
      BY <1>2, CalmBefore DEF WalkFile, HiddenMemory, Shape
<1>3. CASE ListObjects(w)
      BY <1>3, CalmBefore DEF ListObjects, Listed, HiddenMemory, Shape, TypeOK
<1>4. ASSUME NEW p \in Paths, HeadObject(w, p) PROVE CalmMemory(w)'
      <2>1. /\ todo'[w] = todo[w] \ {p} /\ p \notin Hidden
            /\ \A q \in Paths \ {p} : seenR'[w][q] = seenR[w][q]
            BY <1>4 DEF HeadObject, HiddenMemory, TypeOK
      <2> QED BY <1>4, <2>1, CalmBefore, HiddenAssumption DEF HeadObject, HiddenMemory, Shape
<1>5. CASE Plan(w)
      BY <1>5, CalmPlan
<1>6. ASSUME NEW p \in Paths, ReadFile(w, p) PROVE CalmMemory(w)'
      <2>1. CASE local[p] = None
            BY <1>6, <2>1, CalmLeave DEF ReadFile, Abort
      <2>2. CASE local[p] # None
            <3>1. seenL[w][p] = local[p]
                  BY <1>6 DEF ReadFile, Due, Pending, HashInv, HashMemory, Executing
            <3>2. /\ pc[w] = "exec" /\ pc'[w] = "put" /\ at'[w] = p
                  /\ buf'[w] = [hash |-> local[p], body |-> local[p]]
                  /\ UNCHANGED <<local, remote, row, ops>>
                  BY <1>6, <2>2, <3>1 DEF ReadFile, Sealed, TypeOK
            <3> QED BY <3>2 DEF CalmMemory, HiddenMemory, StillWanted, Holding, Wanted
      <2> QED BY <2>1, <2>2
<1>7. CASE PutObject(w)
      <2>1. /\ pc[w] = "put" /\ pc'[w] = "commit" /\ at[w] \in Paths /\ at' = at /\ ops' = ops
            /\ buf' = buf /\ local' = local /\ row' = row
            /\ remote' = [remote EXCEPT ![at[w]] = buf[w]]
            BY <1>7 DEF PutObject, Shape, TypeOK
      <2>2. StillWanted(w)'
            BY <2>1, OthersStillWanted DEF TypeOK
      <2>3. buf[w] # None /\ remote'[at[w]] = buf[w]
            BY <2>1, SentinelsAreDistinct DEF Shape, TypeOK
      <2>4. Holding(w)'
            BY <2>1, <2>3 DEF Holding
      <2> QED BY <2>1, <2>2, <2>4 DEF CalmMemory, HiddenMemory
<1>8. CASE CommitRow(w) \/ DeleteRow(w)
      <2>1. at[w] \in Paths /\ OpDone(w) /\ UNCHANGED <<local, remote>>
            BY <1>8 DEF CommitRow, DeleteRow, Shape
      <2>2. \A p \in Paths : p # at[w] => row'[p] = row[p]
            BY <1>8, <2>1 DEF CommitRow, DeleteRow, TypeOK
      <2> QED BY <2>1, <2>2, DoneIsDone
<1>9. ASSUME NEW p \in Paths, GetObject(w, p) PROVE CalmMemory(w)'
      <2>1. CASE remote[p] = None \/ remote[p].hash = NoHash
            BY <1>9, <2>1, CalmLeave DEF GetObject, Abort
      <2>2. CASE ~(remote[p] = None \/ remote[p].hash = NoHash)
            <3>1. /\ pc[w] = "exec" /\ pc'[w] = "fetched" /\ at'[w] = p
                  /\ buf'[w] = [hash |-> remote[p].body, body |-> remote[p].body]
                  /\ UNCHANGED <<local, remote, row, ops>>
                  BY <1>9, <2>2 DEF GetObject, TypeOK
            <3> QED BY <2>2, <3>1 DEF CalmMemory, HiddenMemory, StillWanted, Holding, Wanted
      <2> QED BY <2>1, <2>2
<1>10. CASE TruncateFile(w)
      <2>1. /\ pc[w] = "fetched" /\ pc'[w] = "write" /\ at[w] \in Paths /\ at' = at /\ ops' = ops
            /\ buf' = buf /\ remote' = remote /\ row' = row
            /\ local' = [local EXCEPT ![at[w]] = Torn]
            BY <1>10 DEF TruncateFile, Shape, TypeOK
      <2>2. StillWanted(w)'
            BY <2>1, OthersStillWanted DEF TypeOK
      <2> QED BY <2>1, <2>2 DEF CalmMemory, HiddenMemory, Holding
<1>11. CASE WriteFile(w)
      <2>1. /\ pc[w] = "write" /\ pc'[w] = "commit" /\ at[w] \in Paths /\ at' = at /\ ops' = ops
            /\ buf' = buf /\ remote' = remote /\ row' = row
            BY <1>11 DEF WriteFile, Shape, TypeOK
      <2>2. local' = [local EXCEPT ![at[w]] = buf[w].body]
            BY <1>11, SentinelsAreDistinct DEF WriteFile, WriteOutcomes, LocalInv, LocalMemory
      <2>3. StillWanted(w)'
            BY <2>1, <2>2, OthersStillWanted DEF TypeOK
      <2>4. local'[at[w]] = buf[w].body
            BY <2>1, <2>2 DEF TypeOK
      <2> QED BY <2>1, <2>3, <2>4 DEF CalmMemory, HiddenMemory, Holding
<1>12. ASSUME NEW p \in Paths, DeleteObject(w, p) PROVE CalmMemory(w)'
      <2>1. /\ pc[w] = "exec" /\ pc'[w] = "forget" /\ at'[w] = p /\ ops' = ops
            /\ local' = local /\ row' = row /\ remote' = [remote EXCEPT ![p] = None]
            /\ ops[w][p] = "delete-remote"
            BY <1>12 DEF DeleteObject, Due, TypeOK
      <2>2. StillWanted(w)'
            BY <2>1, OthersStillWanted DEF TypeOK
      <2>3. Wanted(p) = "delete-remote"
            BY <2>1 DEF StillWanted
      <2>4. local[p] = None /\ remote'[p] = None
            BY <2>1, <2>3, PlanOpCases DEF Wanted, WantsDeleteRemote, TypeOK
      <2> QED BY <2>1, <2>2, <2>4 DEF CalmMemory, HiddenMemory, Holding
<1>13. ASSUME NEW p \in Paths, RecordConflict(w, p) PROVE CalmMemory(w)'
      <2>1. /\ \A q \in Paths : ops'[w][q] = IF q = p THEN "noop" ELSE ops[w][q]
            /\ pc[w] = "exec" /\ pc'[w] = "exec" /\ UNCHANGED <<local, remote, row>>
            BY <1>13 DEF RecordConflict, TypeOK
      <2> QED BY <2>1 DEF CalmMemory, HiddenMemory, StillWanted, Holding, Wanted
<1>14. CASE Finish(w)
      BY <1>14, CalmLeave DEF Finish
<1> QED
    BY <1>1, <1>2, <1>3, <1>4, <1>5, <1>6, <1>7, <1>8, <1>9, <1>10, <1>11, <1>12, <1>13, <1>14 DEF Step

LEMMA CalmEnvironment ==
    ASSUME NEW w, Passes = {w}, NoRace, CalmInv(w), Environment
    PROVE  CalmMemory(w)'
<1> USE DEF CalmInv, stats, snapshot, exec, pass
<1> w \in Passes /\ TypeInv /\ TypeOK /\ Shape(w) /\ CalmMemory(w)
    BY DEF HashInv, TypeInv
<1>1. ASSUME NEW p \in Paths, UserEdit(p) \/ RemoteEdit(p) \/ ForeignPut(p) PROVE CalmMemory(w)'
      <2>1. pc[w] = "idle" /\ UNCHANGED pass
            BY <1>1 DEF UserEdit, RemoteEdit, ForeignPut, Calm, Idle, NoRace
      <2> QED BY <2>1, CalmBefore DEF HiddenMemory, Shape
<1>2. ASSUME NEW p \in Paths, ResolveConflict(p) PROVE CalmMemory(w)'
      BY <1>2 DEF ResolveConflict, CalmMemory, HiddenMemory, StillWanted, Holding, Wanted
<1>3. CASE Fail(w)
      BY <1>3, CalmLeave DEF Fail, CallFails, StoreFails, DiskFails, Abort
<1>4. CASE Crash
      <2>1. ops'[w] = NoOps /\ pc'[w] = "idle"
            BY <1>4 DEF Crash
      <2> QED BY <2>1, CalmBefore DEF HiddenMemory
<1> QED
    BY <1>1, <1>2, <1>3, <1>4 DEF Environment

LEMMA CalmInit ==
    ASSUME NEW w, Passes = {w}, Init
    PROVE  CalmInv(w)
<1>1. ops[w] = NoOps /\ pc[w] = "idle"
      BY DEF Init
<1>2. CalmMemory(w)
      BY <1>1 DEF CalmMemory, HiddenMemory, StillWanted, Holding, NoOps
<1> QED
    BY <1>2, HashInit, LocalInit, RemoteInit DEF CalmInv

LEMMA CalmNext ==
    ASSUME NEW w, Passes = {w}, NoRace, SeesEverything, CalmInv(w), [Next]_vars
    PROVE  CalmInv(w)'
<1>1. HashInv(w)' /\ LocalInv(w)' /\ RemoteInv(w)'
      BY HashNext, LocalNext, RemoteNext DEF CalmInv, SeesEverything
<1>2. CASE \E v \in Passes : Step(v)
      BY <1>1, <1>2, CalmStep DEF CalmInv
<1>3. CASE Environment
      BY <1>1, <1>3, CalmEnvironment DEF CalmInv
<1>4. CASE UNCHANGED vars
      BY <1>1, <1>4 DEF vars, pass, stats, snapshot, exec, CalmInv, CalmMemory, HiddenMemory,
                        StillWanted, Holding, Wanted
<1> QED
    BY <1>2, <1>3, <1>4 DEF Next

-------------------------------------------------------------------------------
(* What the planner wants is what the abstract synchronizer may do.         *)

LEMMA WantedIsAllowed ==
    ASSUME TypeOK, NEW p \in Paths
    PROVE  /\ Wanted(p) = "upload" =>
                  /\ local[p] # None
                  /\ ~Atomic!Shown(p) \/ (local[p] # row[p] /\ row[p] # None /\ ~Atomic!Newer(p))
           /\ Wanted(p) = "download" /\ remote[p].hash # NoHash =>
                  Atomic!Newer(p) /\ local[p] = row[p]
           /\ Wanted(p) = "delete-remote" =>
                  local[p] = None /\ row[p] # None /\ Atomic!Shown(p)
           /\ Wanted(p) = "conflict" =>
                  /\ local[p] # None /\ Atomic!Shown(p)
                  /\ IF row[p] = None THEN local[p] # remote[p].hash
                                      ELSE local[p] # row[p] /\ Atomic!Newer(p)
<1> DEFINE r == IF p \in Hidden THEN None ELSE remote[p]
<1>1. r # None <=> Atomic!Shown(p)
      BY DEF Atomic!Shown
<1>2. r # None => r = remote[p] /\ r.hash # None
      BY SentinelsAreDistinct DEF TypeOK, Object, Bytes
<1>3. Wanted(p) = PlanOp(local[p], r, row[p])
      BY DEF Wanted
<1>4. Atomic!Newer(p) <=> r # None /\ r.hash # row[p] /\ r.hash # NoHash
      BY <1>1, <1>2 DEF Atomic!Newer
<1> HIDE DEF r
<1>5. Wanted(p) = "upload" => WantsUpload(local[p], r, row[p])
      BY <1>3, PlanOpCases
<1>6. Wanted(p) = "download" => WantsDownload(local[p], r, row[p])
      BY <1>3, PlanOpCases
<1>7. Wanted(p) = "delete-remote" => WantsDeleteRemote(local[p], r, row[p])
      BY <1>3, PlanOpCases
<1>8. Wanted(p) = "conflict" => WantsConflict(local[p], r, row[p])
      BY <1>3, PlanOpCases
<1> USE DEF LocalChanged, RemoteChanged
<1>9. Wanted(p) = "upload" =>
          /\ local[p] # None
          /\ ~Atomic!Shown(p) \/ (local[p] # row[p] /\ row[p] # None /\ ~Atomic!Newer(p))
      BY <1>1, <1>4, <1>5 DEF WantsUpload
<1>10. Wanted(p) = "download" /\ remote[p].hash # NoHash => Atomic!Newer(p) /\ local[p] = row[p]
      BY <1>1, <1>2, <1>4, <1>6 DEF WantsDownload
<1>11. Wanted(p) = "delete-remote" => local[p] = None /\ row[p] # None /\ Atomic!Shown(p)
      BY <1>1, <1>7 DEF WantsDeleteRemote
<1>12. Wanted(p) = "conflict" =>
           /\ local[p] # None /\ Atomic!Shown(p)
           /\ IF row[p] = None THEN local[p] # remote[p].hash
                               ELSE local[p] # row[p] /\ Atomic!Newer(p)
      BY <1>1, <1>2, <1>4, <1>8 DEF WantsConflict
<1> QED
    BY <1>9, <1>10, <1>11, <1>12

\* The file that is open is the one of the only pass.
LEMMA TruncatedByPass ==
    ASSUME NEW w, Passes = {w}
    PROVE  /\ pc[w] # "write" => Truncated = {}
           /\ pc[w] = "write" /\ at[w] \in Paths => Truncated = {at[w]}
           /\ pc'[w] # "write" => Truncated' = {}
           /\ pc'[w] = "write" /\ at'[w] \in Paths => Truncated' = {at'[w]}
BY DEF Truncated

\* A step that moves neither side nor the store opens no file and reports
\* nothing.
LEMMA QuietForgets ==
    ASSUME UNCHANGED <<local, remote, row>>, conflicts' \subseteq conflicts,
           Truncated' \subseteq Truncated
    PROVE  Atomic!Next
BY DEF Atomic!Next, Atomic!Forget

LEMMA LeavingForgets ==
    ASSUME NEW w, Passes = {w}, TypeInv, Leave(w),
           UNCHANGED <<local, remote, row>>, conflicts' \subseteq conflicts
    PROVE  Atomic!Next
<1>1. pc'[w] # "write"
      BY DEF Leave, TypeInv, TypeOK
<1> QED
    BY <1>1, TruncatedByPass, QuietForgets

\* What a pass does to a side, to the store or to the list of conflicts is a
\* step of the abstract synchronizer on the path of the op; all the rest of it
\* is forgotten.
LEMMA StepIsAtomic ==
    ASSUME NEW w, Passes = {w}, CalmInv(w), Step(w)
    PROVE  Atomic!Next
<1> USE DEF CalmInv, stats, snapshot, exec
<1> w \in Passes /\ TypeInv /\ TypeOK /\ Shape(w) /\ StillWanted(w) /\ Holding(w)
    BY DEF HashInv, TypeInv, CalmMemory
<1>1. ASSUME UNCHANGED <<local, remote, row, conflicts>>, pc'[w] # "write"
      PROVE  Atomic!Next
      BY <1>1, TruncatedByPass, QuietForgets
<1>2. CASE Begin(w) \/ ListObjects(w) \/ Plan(w)
      BY <1>1, <1>2 DEF Begin, ListObjects, Plan, TypeOK
<1>3. ASSUME NEW p \in Paths, WalkFile(w, p) \/ HeadObject(w, p) PROVE Atomic!Next
      BY <1>1, <1>3 DEF WalkFile, HeadObject
<1>4. ASSUME NEW p \in Paths, ReadFile(w, p) PROVE Atomic!Next
      <2>1. CASE local[p] = None
            BY <1>4, <2>1, LeavingForgets DEF ReadFile, Abort
      <2>2. CASE local[p] # None
            BY <1>1, <1>4, <2>2 DEF ReadFile, TypeOK
      <2> QED BY <2>1, <2>2
<1>5. CASE PutObject(w)
      <2> DEFINE p == at[w]
      <2>1. /\ p \in Paths /\ pc[w] = "put" /\ pc'[w] = "commit"
            /\ UNCHANGED <<local, row, conflicts>>
            /\ remote' = [remote EXCEPT ![p] = [hash |-> local[p], body |-> local[p]]]
            BY <1>5 DEF PutObject, Shape, Holding, TypeOK
      <2>2. ops[w][p] = "upload"
            BY <2>1 DEF RemoteInv, RemoteMemory
      <2>3. Wanted(p) = "upload"
            BY <2>1, <2>2 DEF StillWanted
      <2>4. Truncated' = Truncated
            BY <2>1, TruncatedByPass
      <2>5. Atomic!Push(p)
            BY <2>1, <2>3, <2>4, WantedIsAllowed DEF Atomic!Push
      <2> QED BY <2>1, <2>5 DEF Atomic!Next
<1>6. CASE CommitRow(w)
      <2> DEFINE p == at[w]
      <2>1. /\ p \in Paths /\ pc[w] = "commit" /\ pc'[w] = "exec"
            /\ UNCHANGED <<local, remote, conflicts>> /\ row' = [row EXCEPT ![p] = local[p]]
            /\ remote[p] # None /\ local[p] = remote[p].body
            BY <1>6 DEF CommitRow, OpDone, Shape, Holding, TypeOK
      <2>2. Truncated' = Truncated
            BY <2>1, TruncatedByPass
      <2>3. Atomic!Record(p)
            BY <2>1, <2>2 DEF Atomic!Record
      <2> QED BY <2>1, <2>3 DEF Atomic!Next
<1>7. ASSUME NEW p \in Paths, GetObject(w, p) PROVE Atomic!Next
      <2>1. CASE remote[p] = None \/ remote[p].hash = NoHash
            BY <1>7, <2>1, LeavingForgets DEF GetObject, Abort
      <2>2. CASE ~(remote[p] = None \/ remote[p].hash = NoHash)
            BY <1>1, <1>7, <2>2 DEF GetObject, TypeOK
      <2> QED BY <2>1, <2>2
<1>8. CASE TruncateFile(w)
      <2> DEFINE p == at[w]
      <2>1. /\ p \in Paths /\ pc[w] = "fetched" /\ pc'[w] = "write" /\ at'[w] = p
            /\ UNCHANGED <<remote, row, conflicts>> /\ local' = [local EXCEPT ![p] = Torn]
            /\ remote[p].hash # NoHash
            BY <1>8 DEF TruncateFile, Shape, Holding, TypeOK
      <2>2. ops[w][p] = "download"
            BY <2>1 DEF LocalInv, LocalMemory
      <2>3. Wanted(p) = "download"
            BY <2>1, <2>2 DEF StillWanted
      <2>4. Truncated = {} /\ Truncated' = {p}
            BY <2>1, TruncatedByPass
      <2>5. Atomic!Open(p)
            BY <2>1, <2>3, <2>4, WantedIsAllowed DEF Atomic!Open
      <2> QED BY <2>1, <2>5 DEF Atomic!Next
<1>9. CASE WriteFile(w)
      <2> DEFINE p == at[w]
      <2>1. /\ p \in Paths /\ pc[w] = "write" /\ pc'[w] = "commit"
            /\ UNCHANGED <<remote, row, conflicts>>
            /\ buf[w].body = remote[p].body
            BY <1>9 DEF WriteFile, Shape, Holding, TypeOK
      <2>2. local' = [local EXCEPT ![p] = remote[p].body]
            BY <1>9, <2>1, SentinelsAreDistinct DEF WriteFile, WriteOutcomes, LocalInv, LocalMemory
      <2>3. Truncated = {p} /\ Truncated' = {}
            BY <2>1, TruncatedByPass
      <2>4. Atomic!Fill(p)
            BY <2>1, <2>2, <2>3 DEF Atomic!Fill
      <2> QED BY <2>1, <2>4 DEF Atomic!Next
<1>10. ASSUME NEW p \in Paths, DeleteObject(w, p) PROVE Atomic!Next
      <2>1. /\ pc[w] = "exec" /\ pc'[w] = "forget" /\ ops[w][p] = "delete-remote"
            /\ UNCHANGED <<local, row, conflicts>> /\ remote' = [remote EXCEPT ![p] = None]
            BY <1>10 DEF DeleteObject, Due, TypeOK
      <2>2. Wanted(p) = "delete-remote"
            BY <2>1 DEF StillWanted
      <2>3. Truncated' = Truncated
            BY <2>1, TruncatedByPass
      <2>4. Atomic!Erase(p)
            BY <2>1, <2>2, <2>3, WantedIsAllowed DEF Atomic!Erase
      <2> QED BY <2>4 DEF Atomic!Next
<1>11. CASE DeleteRow(w)
      <2> DEFINE p == at[w]
      <2>1. /\ p \in Paths /\ pc[w] = "forget" /\ pc'[w] = "exec"
            /\ UNCHANGED <<local, remote, conflicts>> /\ row' = [row EXCEPT ![p] = None]
            /\ local[p] = None /\ remote[p] = None
            BY <1>11 DEF DeleteRow, OpDone, Shape, Holding, TypeOK
      <2>2. Truncated' = Truncated
            BY <2>1, TruncatedByPass
      <2>3. Atomic!Record(p)
            BY <2>1, <2>2 DEF Atomic!Record
      <2> QED BY <2>1, <2>3 DEF Atomic!Next
<1>12. ASSUME NEW p \in Paths, RecordConflict(w, p) PROVE Atomic!Next
      <2>1. /\ pc[w] = "exec" /\ pc' = pc /\ ops[w][p] = "conflict"
            /\ UNCHANGED <<local, remote, row>> /\ conflicts' = conflicts \cup {p}
            BY <1>12 DEF RecordConflict, Due
      <2>2. Wanted(p) = "conflict"
            BY <2>1 DEF StillWanted
      <2>3. Truncated' = Truncated
            BY <2>1, TruncatedByPass
      <2>4. Atomic!Report(p)
            BY <2>1, <2>2, <2>3, WantedIsAllowed DEF Atomic!Report
      <2> QED BY <2>4 DEF Atomic!Next
<1>13. CASE Finish(w)
      BY <1>13, LeavingForgets DEF Finish
<1> QED
    BY <1>2, <1>3, <1>4, <1>5, <1>6, <1>7, <1>8, <1>9, <1>10, <1>11, <1>12, <1>13 DEF Step

\* Users and other machines are the same on both levels; a failure and a
\* crash forget.
LEMMA EnvironmentIsAtomic ==
    ASSUME NEW w, Passes = {w}, NoRace, TypeInv, Environment
    PROVE  Atomic!Next
<1> USE DEF stats, snapshot, exec, pass
<1> w \in Passes /\ TypeOK
    BY DEF TypeInv
<1>1. ASSUME NEW p \in Paths, UserEdit(p) PROVE Atomic!Next
      <2>1. Truncated = {} /\ Truncated' = {}
            BY <1>1, TruncatedByPass DEF UserEdit, Calm, Idle, NoRace
      <2>2. Atomic!Edit(p)
            BY <1>1, <2>1 DEF UserEdit, Atomic!Edit
      <2> QED BY <2>2 DEF Atomic!Next
<1>2. ASSUME NEW p \in Paths, RemoteEdit(p) \/ ForeignPut(p) PROVE Atomic!Next
      <2>1. Truncated = {} /\ Truncated' = {}
            BY <1>2, TruncatedByPass DEF RemoteEdit, ForeignPut, Calm, Idle, NoRace
      <2>2. PICK o \in {None} \cup [hash : Contents \cup {NoHash}, body : Contents] :
                /\ o # None => o.hash \in {o.body, NoHash}
                /\ remote' = [remote EXCEPT ![p] = o]
            BY <1>2 DEF RemoteEdit, ForeignPut
      <2>3. Atomic!Replace(p)
            BY <1>2, <2>1, <2>2 DEF RemoteEdit, ForeignPut, Atomic!Replace
      <2> QED BY <2>3 DEF Atomic!Next
<1>3. ASSUME NEW p \in Paths, ResolveConflict(p) PROVE Atomic!Next
      BY <1>3, QuietForgets DEF ResolveConflict, Truncated
<1>4. CASE Fail(w)
      BY <1>4, LeavingForgets DEF Fail, CallFails, StoreFails, DiskFails, Abort
<1>5. CASE Crash
      BY <1>5, TruncatedByPass, QuietForgets DEF Crash
<1> QED
    BY <1>1, <1>2, <1>3, <1>4, <1>5 DEF Environment

LEMMA NextIsAtomic ==
    ASSUME NEW w, Passes = {w}, NoRace, CalmInv(w), [Next]_vars
    PROVE  Atomic!Next \/ UNCHANGED Atomic!vars
<1> TypeInv
    BY DEF CalmInv, HashInv
<1>1. CASE \E v \in Passes : Step(v)
      BY <1>1, StepIsAtomic
<1>2. CASE Environment
      BY <1>2, EnvironmentIsAtomic
<1>3. CASE UNCHANGED vars
      BY <1>3 DEF vars, pass, stats, exec, Atomic!vars, Truncated
<1> QED
    BY <1>1, <1>2, <1>3 DEF Next

\* One pass at a time, nothing changing under it and nothing left out of its
\* snapshots: to disk, bucket, store and conflict list the engine does nothing
\* but what these call for at that very moment, through every failed call,
\* failed write and crash.
THEOREM ImplementsAtomicSync ==
    ASSUME NEW w, Passes = {w}, NoRace, SeesEverything
    PROVE  Spec => ActsOnTheMoment
<1>1. Init => CalmInv(w) /\ Atomic!Init
      <2> SUFFICES ASSUME Init PROVE Atomic!Init
          BY CalmInit
      <2>1. Truncated = {}
            BY DEF Init, Truncated
      <2> QED BY <2>1 DEF Init, Nothing, Atomic!Init
<1>2. CalmInv(w) /\ [Next]_vars => CalmInv(w)'
      BY CalmNext
<1>3. CalmInv(w) /\ [Next]_vars => [Atomic!Next]_(Atomic!vars)
      BY NextIsAtomic
<1> QED
    BY <1>1, <1>2, <1>3, PTL DEF Spec, ActsOnTheMoment, Atomic!Spec

-------------------------------------------------------------------------------
(* What a finished pass leaves behind.                                      *)

Done(p) == InStep(p) \/ Mislabelled(p) \/ WantsConflict(local[p], remote[p], row[p])

\* A path with no op left was in order from the start, or its op has put it in
\* order.
DoneMemory(w) ==
    pc[w] \in Executing => \A p \in Paths \ Hidden : ops[w][p] = "noop" => Done(p)

\* Where the planner wants nothing, there is nothing to do.
LEMMA NothingWanted ==
    ASSUME TypeOK, NEW p \in Paths \ Hidden, Wanted(p) = "noop"
    PROVE  Done(p)
<1>1. /\ ~WantsUpload(local[p], remote[p], row[p])
      /\ ~WantsDownload(local[p], remote[p], row[p])
      /\ ~WantsDeleteRemote(local[p], remote[p], row[p])
      /\ ~WantsConflict(local[p], remote[p], row[p])
      BY DEF Wanted, PlanOp
<1>2. CASE local[p] = None
      BY <1>1, <1>2 DEF WantsDownload, WantsDeleteRemote, Done, InStep
<1>3. CASE local[p] # None
      <2>1. remote[p] # None /\ (remote[p].hash = local[p] \/ remote[p].hash = NoHash)
            BY <1>1, <1>3 DEF WantsUpload, WantsDownload, WantsConflict, LocalChanged, RemoteChanged
      <2>2. NoHash # remote[p].body
            BY <2>1, SentinelsAreDistinct DEF TypeOK, Object, Bytes
      <2> QED BY <1>3, <2>1, <2>2 DEF Done, InStep, Mislabelled
<1> QED
    BY <1>2, <1>3

\* A step of a pass that is past its plan ends no op but the one it says, and
\* moves no path but that of its op.
LEMMA DoneStep ==
    ASSUME NEW w, Passes = {w}, CalmInv(w), CalmInv(w)', DoneMemory(w), Step(w)
    PROVE  DoneMemory(w)'
<1> USE DEF CalmInv, stats, snapshot, exec
<1> w \in Passes /\ TypeInv /\ TypeOK /\ Shape(w) /\ StillWanted(w) /\ Holding(w)
    BY DEF HashInv, TypeInv, CalmMemory
<1>1. ASSUME pc'[w] \notin Executing PROVE DoneMemory(w)'
      BY <1>1 DEF DoneMemory
<1>2. ASSUME pc[w] \in Executing, ops' = ops, NEW q \in Paths, ops[w][q] # "noop",
             \A p \in Paths \ {q} : /\ local'[p] = local[p]
                                    /\ remote'[p] = remote[p] /\ row'[p] = row[p]
      PROVE  DoneMemory(w)'
      <2>1. \A p \in Paths \ {q} : Done(p)' <=> Done(p)
            BY <1>2 DEF Done, InStep, Mislabelled
      <2> QED BY <1>2, <2>1 DEF DoneMemory
<1>3. ASSUME pc[w] \in Executing, NEW q \in Paths, Done(q)',
             \A p \in Paths \ {q} : /\ local'[p] = local[p] /\ remote'[p] = remote[p]
                                    /\ row'[p] = row[p] /\ ops'[w][p] = ops[w][p]
      PROVE  DoneMemory(w)'
      <2>1. \A p \in Paths \ {q} : Done(p)' <=> Done(p)
            BY <1>3 DEF Done, InStep, Mislabelled
      <2> QED BY <1>3, <2>1 DEF DoneMemory
<1>4. CASE Begin(w) \/ ListObjects(w)
      BY <1>1, <1>4 DEF Begin, ListObjects, Executing, TypeOK
<1>5. ASSUME NEW p \in Paths, WalkFile(w, p) \/ HeadObject(w, p) PROVE DoneMemory(w)'
      BY <1>1, <1>5 DEF WalkFile, HeadObject, Executing
<1>6. CASE Plan(w)
      <2>1. ASSUME NEW p \in Paths \ Hidden, ops'[w][p] = "noop" PROVE Done(p)'
            <3>1. ops'[w][p] = PlanOp(seenL[w][p], seenR[w][p], row[p])
                  BY <1>6 DEF Plan, TypeOK
            <3>2. seenL[w][p] = local[p] /\ seenR[w][p] = remote[p]
                  BY <1>6 DEF Plan, LocalInv, LocalMemory, RemoteInv, RemoteMemory
            <3>3. Wanted(p) = "noop"
                  BY <2>1, <3>1, <3>2 DEF Wanted
            <3>4. Done(p)
                  BY <3>3, NothingWanted
            <3> QED BY <1>6, <3>4 DEF Plan, Done, InStep, Mislabelled
      <2> QED BY <2>1 DEF DoneMemory
<1>7. ASSUME Leave(w) PROVE DoneMemory(w)'
      BY <1>1, <1>7 DEF Leave, Executing, TypeOK
<1>8. ASSUME NEW p \in Paths, ReadFile(w, p) \/ GetObject(w, p) PROVE DoneMemory(w)'
      <2>1. CASE Leave(w)
            BY <1>7, <2>1
      <2>2. CASE ~Leave(w)
            BY <1>2, <1>8, <2>2 DEF ReadFile, GetObject, Abort, Due, Pending, Executing
      <2> QED BY <2>1, <2>2
<1>9. CASE PutObject(w)
      BY <1>2, <1>9 DEF PutObject, Shape, RemoteInv, RemoteMemory, Executing, TypeOK
<1>10. CASE TruncateFile(w) \/ WriteFile(w)
      BY <1>2, <1>10 DEF TruncateFile, WriteFile, Shape, LocalInv, LocalMemory, Executing, TypeOK
<1>11. ASSUME NEW p \in Paths, DeleteObject(w, p) PROVE DoneMemory(w)'
      BY <1>2, <1>11 DEF DeleteObject, Due, Executing, TypeOK
<1>12. CASE CommitRow(w) \/ DeleteRow(w)
      <2> PICK q \in Paths : q = at[w]
          BY <1>12 DEF CommitRow, DeleteRow, Shape
      <2>1. /\ pc[w] \in Executing /\ UNCHANGED <<local, remote>>
            /\ \A p \in Paths \ {q} : row'[p] = row[p] /\ ops'[w][p] = ops[w][p]
            BY <1>12 DEF CommitRow, DeleteRow, OpDone, Shape, Executing, TypeOK
      <2>2. \/ local[q] = None /\ remote[q] = None
            \/ remote[q] # None /\ local[q] = remote[q].body
            BY <1>12 DEF CommitRow, DeleteRow, Holding
      <2>3. InStep(q) \/ Mislabelled(q)
            BY <2>1, <2>2, SentinelsAreDistinct DEF InStep, Mislabelled, TypeOK, Object, Bytes
      <2>4. Done(q)'
            BY <2>1, <2>3 DEF Done, InStep, Mislabelled
      <2> QED BY <1>3, <2>1, <2>4
<1>13. ASSUME NEW p \in Paths, RecordConflict(w, p) PROVE DoneMemory(w)'
      <2>1. /\ pc[w] = "exec" /\ ops[w][p] = "conflict" /\ UNCHANGED <<local, remote, row>>
            /\ \A q \in Paths \ {p} : ops'[w][q] = ops[w][q]
            BY <1>13 DEF RecordConflict, Due, TypeOK
      <2>2. CASE p \in Hidden
            BY <2>1, <2>2 DEF DoneMemory, Done, InStep, Mislabelled, Executing
      <2>3. CASE p \notin Hidden
            <3>1. WantsConflict(local[p], remote[p], row[p])
                  BY <2>1, <2>3, PlanOpCases DEF StillWanted, Wanted
            <3>2. Done(p)'
                  BY <2>1, <3>1 DEF Done
            <3> QED BY <1>3, <2>1, <3>2 DEF Executing
      <2> QED BY <2>2, <2>3
<1>14. CASE Finish(w)
      BY <1>7, <1>14 DEF Finish
<1> QED
    BY <1>4, <1>5, <1>6, <1>8, <1>9, <1>10, <1>11, <1>12, <1>13, <1>14 DEF Step

LEMMA DoneEnvironment ==
    ASSUME NEW w, Passes = {w}, NoRace, TypeInv, DoneMemory(w), Environment
    PROVE  DoneMemory(w)'
<1> USE DEF stats, snapshot, exec, pass
<1> w \in Passes /\ TypeOK
    BY DEF TypeInv
<1>1. ASSUME NEW p \in Paths, UserEdit(p) \/ RemoteEdit(p) \/ ForeignPut(p)
      PROVE  DoneMemory(w)'
      BY <1>1 DEF UserEdit, RemoteEdit, ForeignPut, Calm, Idle, NoRace, DoneMemory, Executing
<1>2. ASSUME NEW p \in Paths, ResolveConflict(p) PROVE DoneMemory(w)'
      BY <1>2 DEF ResolveConflict, DoneMemory, Done, InStep, Mislabelled
<1>3. CASE Fail(w) \/ Crash
      BY <1>3 DEF Fail, CallFails, StoreFails, DiskFails, Abort, Leave, Crash, DoneMemory,
                  Executing, TypeOK
<1> QED
    BY <1>1, <1>2, <1>3 DEF Environment

\* A pass that ends without an error has brought every path in step, or found
\* it changed on both sides.
THEOREM FinishedPassesSettle ==
    ASSUME NEW w, Passes = {w}, NoRace, SeesEverything
    PROVE  Spec => FinishedPassSettles
<1> DEFINE Inv == CalmInv(w) /\ DoneMemory(w)
<1>1. Init => Inv
      BY CalmInit DEF Init, DoneMemory, Executing
<1>2. Inv /\ [Next]_vars => Inv'
      <2> SUFFICES ASSUME Inv, [Next]_vars PROVE Inv'
          OBVIOUS
      <2>1. CalmInv(w)' /\ TypeInv
            BY CalmNext DEF CalmInv, HashInv
      <2>2. CASE \E v \in Passes : Step(v)
            BY <2>1, <2>2, DoneStep
      <2>3. CASE Environment
            BY <2>1, <2>3, DoneEnvironment
      <2>4. CASE UNCHANGED vars
            BY <2>1, <2>4 DEF vars, pass, exec, DoneMemory, Done, InStep, Mislabelled
      <2> QED BY <2>2, <2>3, <2>4 DEF Next
<1>3. Inv => FinishLeavesSettled
      <2> SUFFICES ASSUME Inv, NEW p \in Paths \ Hidden, Finish(w) PROVE Done(p)
          BY DEF Done, FinishLeavesSettled
      <2> QED BY DEF Finish, Pending, DoneMemory, Executing
<1> QED
    BY <1>1, <1>2, <1>3, PTL DEF Spec, FinishedPassSettles
===============================================================================
