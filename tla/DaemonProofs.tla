----------------------------- MODULE DaemonProofs -----------------------------
(* The promises of Daemon for any processes, ports, secrets and tokens.      *)
EXTENDS Daemon, TLAPS

Drawing == {"truncate key", "write key", "truncate recovery", "write recovery", "show"}

\* What init holds in memory and what it has written so far go together.
KeyInv ==
    /\ init \in Drawing \cup {"none", "save"}
    /\ {keyFile, recFile} \subseteq Sealed \cup {None, Torn}
    /\ config \in {None, "no bucket", "bucket"}
    /\ {passphrase, notedPass} \subseteq Passphrases \cup {None}
    /\ {draw, notedCode} \subseteq Draws \cup {None}
    /\ drawn \subseteq Draws
    /\ keyFile = None => recFile = None /\ notedCode = None
    /\ init \in Drawing =>
          /\ passphrase \in Passphrases /\ draw \in Draws
          /\ passphrase = notedPass /\ notedCode = None
    /\ init = "truncate key" => keyFile = None
    /\ init = "write key" => keyFile = Torn /\ recFile = None
    /\ init \in {"truncate recovery", "write recovery", "show"} =>
          keyFile = [secret |-> passphrase, master |-> draw]
    /\ init = "truncate recovery" => recFile = None
    /\ init = "write recovery" => recFile = Torn
    /\ init = "show" => recFile = [secret |-> draw, master |-> draw]
    /\ recFile \in Sealed => keyFile \in Sealed /\ recFile.master = keyFile.master
    /\ notedCode # None =>
          /\ keyFile \in Sealed /\ keyFile.secret = notedPass
          /\ recFile \in Sealed /\ recFile.secret = notedCode

LEMMA KeyInvInit == KeyInit => KeyInv
<1> SUFFICES ASSUME KeyInit PROVE KeyInv
  OBVIOUS
<1> QED
  BY SealedAssumption DEF KeyInit, KeyInv, Drawing

LEMMA SealedFile ==
    ASSUME NEW s \in Secrets, NEW m \in Draws
    PROVE  /\ [secret |-> s, master |-> m] \in Sealed
           /\ [secret |-> s, master |-> m].secret = s
           /\ [secret |-> s, master |-> m].master = m
BY DEF Sealed

LEMMA InitKeepsKeyInv ==
    ASSUME KeyInv, InitCommand
    PROVE  KeyInv' /\ (keyFile \in Sealed => keyFile' = keyFile)
<1> USE SecretsAssumption, SealedAssumption DEF KeyInv, Drawing, files, command, notes
<1>1. CASE InitDefaults
  BY <1>1 DEF InitDefaults
<1>2. CASE InitKeepsKey
  BY <1>2 DEF InitKeepsKey, HasMasterKey
<1>3. ASSUME NEW p \in Passphrases, NEW d \in Fresh, InitChooses(p, d)
      PROVE  KeyInv' /\ keyFile' = keyFile
  BY <1>3 DEF InitChooses, HasMasterKey, Fresh
<1>4. CASE TruncateKey
  BY <1>4 DEF TruncateKey
<1>5. CASE WriteKey
  <2>1. keyFile' \in Sealed /\ keyFile = Torn
    BY <1>5 DEF WriteKey, Sealed, Secrets
  <2> QED
    BY <1>5, <2>1 DEF WriteKey
<1> DEFINE Whole == [secret |-> passphrase, master |-> draw]
           Copy  == [secret |-> draw, master |-> draw]
<1>a. init \in Drawing =>
          /\ Whole \in Sealed /\ Whole.secret = passphrase /\ Whole.master = draw
          /\ Copy \in Sealed /\ Copy.secret = draw /\ Copy.master = draw
  BY SealedFile DEF Secrets
<1>b. /\ init \in {"truncate recovery", "write recovery", "show"} => keyFile = Whole
      /\ init = "show" => recFile = Copy
  OBVIOUS
<1> HIDE DEF Whole, Copy
<1>6. CASE TruncateRecovery
  BY <1>6, <1>a, <1>b DEF TruncateRecovery
<1>7. CASE WriteRecovery
  <2>1. recFile' = Copy
    BY <1>7 DEF WriteRecovery, Copy
  <2> QED
    BY <1>7, <2>1, <1>a, <1>b DEF WriteRecovery
<1>8. CASE ShowRecoveryCode
  BY <1>8, <1>a, <1>b DEF ShowRecoveryCode
<1>9. CASE InitSaves
  BY <1>9 DEF InitSaves
<1>10. CASE InitDies
  BY <1>10 DEF InitDies
<1> QED
  BY <1>1, <1>2, <1>3, <1>4, <1>5, <1>6, <1>7, <1>8, <1>9, <1>10 DEF InitCommand

\* Where no secret and no key leaves memory, nothing about the files changes.
LEMMA ProcessLeavesKeys ==
    ASSUME NEW p \in Procs, Process(p)
    PROVE  UNCHANGED keyVars
BY DEF Process, UnlockRequest, RecoverRequest, Boots, Boot, StartLoop, LoadToken,
       DrawToken, TruncateToken, WriteToken, Listen, Gone, Shutdown, Exit, Die,
       ForgetPassphrase, Upload, Start, Unlock, Recover, ShowUnlocked, KeepPassphrase,
       LoopAfterUnlock

LEMMA KeyInvStep ==
    ASSUME KeyInv, [Next]_vars
    PROVE  KeyInv' /\ (keyFile \in Sealed => keyFile' = keyFile)
<1>1. CASE Install
  BY <1>1, InitKeepsKeyInv DEF Install
<1>2. CASE UNCHANGED keyVars
  BY <1>2 DEF KeyInv, keyVars, files, command, notes
<1> QED
  BY <1>1, <1>2, ProcessLeavesKeys DEF Next, vars

-------------------------------------------------------------------------------
(* Types, and which process a step touches.                                  *)

RestType ==
    /\ keychain \in Passphrases \cup {None}
    /\ proc \in [Procs -> Memory]
    /\ tokenFile \in Tokens \cup {None, Torn}
    /\ sealedWith \subseteq Draws /\ raced \subseteq Procs

LEMMA OpenType ==
    ASSUME NEW file, NEW secret, Open(file, secret) # None
    PROVE  /\ file \in Sealed /\ file.secret = secret
           /\ Open(file, secret) = file.master /\ file.master \in Draws
BY DEF Open, Sealed

LEMMA MasterForType ==
    ASSUME NEW p, NEW secret, MasterFor(p, secret) # None
    PROVE  /\ keyFile \in Sealed /\ keyFile.secret = secret
           /\ MasterFor(p, secret) = keyFile.master /\ keyFile.master \in Draws
<1>1. MasterFor(p, secret) = Open(keyFile, secret)
  BY DEF MasterFor
<1> QED
  BY <1>1, OpenType

\* How far Run is, and how far the handler that has d.mu is, say what there is.
Consistent(m) ==
    /\ m.pc \in {"off", "boot"} => m.engine = None
    /\ m.pc \in {"off", "boot", "loop"} => ~m.looping
    /\ m.pc = "loop" => (m.locked <=> m.engine = None)
    /\ m.pc \notin {"serve", "down"} => m.mu = "free"
    /\ m.pc \notin {"off", "boot", "loop"} /\ m.mu = "free" =>
          /\ m.locked <=> m.engine = None
          /\ m.looping <=> m.engine # None
    /\ m.mu # "free" =>
          /\ m.engine # None /\ ~m.looping
          /\ m.mu # "show" => ~m.locked
          /\ m.mu = "keep" => m.pass # None

LockInv == \A p \in Procs : Consistent(proc[p])

LEMMA Moves ==
    ASSUME proc \in [Procs -> Memory], LockInv, NEW p \in Procs,
           NEW m \in Memory, Consistent(m), proc' = [proc EXCEPT ![p] = m]
    PROVE  /\ proc' \in [Procs -> Memory] /\ LockInv'
           /\ \A q \in Procs \ {p} : proc'[q] = proc[q]
BY DEF LockInv

\* One step of one process: its own memory only, and within its types.
LEMMA ProcessStep ==
    ASSUME RestType, LockInv, NEW p \in Procs, Process(p)
    PROVE  /\ RestType' /\ LockInv'
           /\ \A q \in Procs \ {p} : proc'[q] = proc[q]
<1> USE DEF RestType, machine, history
<1>a. proc[p] \in Memory /\ Consistent(proc[p])
  BY DEF LockInv
<1> DEFINE Own == \E m \in Memory : Consistent(m) /\ proc' = [proc EXCEPT ![p] = m]
           Rest == /\ keychain' \in Passphrases \cup {None}
                   /\ tokenFile' \in Tokens \cup {None, Torn}
                   /\ sealedWith' \subseteq Draws /\ raced' \subseteq Procs
<1>b. SUFFICES (Own \/ UNCHANGED proc) /\ Rest
  BY Moves DEF LockInv
<1>1. CASE Boot(p)
  <2>1. PICK e \in {MasterFor(p, proc[p].pass), None} :
           proc' = [proc EXCEPT ![p].pc = "loop", ![p].pass = None,
                                ![p].engine = e, ![p].locked = e = None]
    BY <1>1 DEF Boot
  <2> DEFINE m == [proc[p] EXCEPT !.pc = "loop", !.pass = None, !.engine = e, !.locked = e = None]
  <2>2. e \in Draws \cup {None}
    BY MasterForType
  <2>3. m \in Memory /\ Consistent(m)
    BY <1>1, <1>a, <2>2 DEF Boot, Memory, Steps, Consistent
  <2>4. proc' = [proc EXCEPT ![p] = m] /\ Rest
    BY <1>1, <1>a, <2>1 DEF Boot, Memory
  <2> QED
    BY <2>3, <2>4
<1>2. CASE StartLoop(p)
  <2> DEFINE m == [proc[p] EXCEPT !.pc = "token", !.looping = proc[p].engine # None]
  <2>1. m \in Memory /\ Consistent(m)
    BY <1>2, <1>a DEF StartLoop, Memory, Steps, Consistent
  <2>2. proc' = [proc EXCEPT ![p] = m] /\ Rest
    BY <1>2, <1>a DEF StartLoop, Memory
  <2> QED
    BY <2>1, <2>2
<1>3. CASE LoadToken(p)
  <2> DEFINE m == [proc[p] EXCEPT !.pc = "listen", !.token = tokenFile]
  <2>1. m \in Memory /\ Consistent(m)
    BY <1>3, <1>a DEF LoadToken, Memory, Steps, Consistent
  <2>2. proc' = [proc EXCEPT ![p] = m] /\ Rest
    BY <1>3, <1>a DEF LoadToken, Memory, Meets, Makers
  <2> QED
    BY <2>1, <2>2
<1>4. CASE TruncateToken(p)
  <2> DEFINE m == [proc[p] EXCEPT !.pc = "write"]
  <2>1. m \in Memory /\ Consistent(m)
    BY <1>4, <1>a DEF TruncateToken, Memory, Steps, Consistent
  <2>2. proc' = [proc EXCEPT ![p] = m] /\ Rest
    BY <1>4, <1>a DEF TruncateToken, Memory
  <2> QED
    BY <2>1, <2>2
<1>5. CASE WriteToken(p)
  <2> DEFINE m == [proc[p] EXCEPT !.pc = "listen"]
  <2>1. m \in Memory /\ Consistent(m)
    BY <1>5, <1>a DEF WriteToken, Memory, Steps, Consistent
  <2>2. proc' = [proc EXCEPT ![p] = m] /\ Rest
    BY <1>5, <1>a DEF WriteToken, Memory
  <2> QED
    BY <2>1, <2>2
<1>6. CASE Gone(p)
  <2>1. Off \in Memory /\ Consistent(Off)
    BY DEF Off, Memory, Steps, Holders, Consistent
  <2> QED
    BY <1>6, <2>1 DEF Gone
<1>7. CASE Listen(p) /\ ~Gone(p)
  <2> DEFINE m == [proc[p] EXCEPT !.pc = "serve"]
  <2>1. m \in Memory /\ Consistent(m)
    BY <1>7, <1>a DEF Listen, Memory, Steps, Consistent
  <2>2. proc' = [proc EXCEPT ![p] = m] /\ Rest
    BY <1>7, <1>a DEF Listen, Memory
  <2> QED
    BY <2>1, <2>2
<1>8. ASSUME NEW t \in Tokens, DrawToken(p, t)
      PROVE  (Own \/ UNCHANGED proc) /\ Rest
  <2> DEFINE m == [proc[p] EXCEPT !.pc = "truncate", !.token = t]
  <2>1. m \in Memory /\ Consistent(m)
    BY <1>8, <1>a DEF DrawToken, Memory, Steps, Consistent
  <2>2. proc' = [proc EXCEPT ![p] = m] /\ Rest
    BY <1>8, <1>a DEF DrawToken, Memory, Meets, Makers
  <2> QED
    BY <2>1, <2>2
<1>9. CASE Shutdown(p)
  <2> DEFINE m == [proc[p] EXCEPT !.pc = "down"]
  <2>1. m \in Memory /\ Consistent(m)
    BY <1>9, <1>a DEF Shutdown, Memory, Steps, Consistent
  <2>2. proc' = [proc EXCEPT ![p] = m] /\ Rest
    BY <1>9, <1>a DEF Shutdown, Memory
  <2> QED
    BY <2>1, <2>2
<1>10. CASE ForgetPassphrase(p)
  BY <1>10 DEF ForgetPassphrase
<1>11. CASE Upload(p)
  <2>1. proc[p].engine \in Draws
    BY <1>11, <1>a DEF Upload, Passes, Consistent, Memory, Steps
  <2> QED
    BY <1>11, <2>1 DEF Upload
<1>12. ASSUME NEW env \in Passphrases \cup {None}, Start(p, env)
       PROVE  (Own \/ UNCHANGED proc) /\ Rest
  <2>1. PICK found \in KeychainGet :
          proc' = [proc EXCEPT ![p].pc = "boot",
                               ![p].pass = IF env # None THEN env ELSE found,
                               ![p].bucket = config = "bucket"]
    BY <1>12 DEF Start
  <2> DEFINE m == [proc[p] EXCEPT !.pc = "boot",
                                  !.pass = IF env # None THEN env ELSE found,
                                  !.bucket = config = "bucket"]
  <2>2. m \in Memory /\ Consistent(m)
    BY <1>12, <1>a, <2>1, ZenonT(60) DEF Start, KeychainGet, Memory, Steps, Consistent
  <2>3. proc' = [proc EXCEPT ![p] = m] /\ Rest
    BY <1>12, <1>a, <2>1 DEF Start, Memory
  <2> QED
    BY <2>2, <2>3
<1>13. CASE ShowUnlocked(p)
  <2> DEFINE m == [proc[p] EXCEPT !.locked = FALSE,
                                  !.mu = IF proc[p].pass = None THEN "loop" ELSE "keep"]
  <2>1. m \in Memory /\ Consistent(m)
    BY <1>13, <1>a DEF ShowUnlocked, Memory, Steps, Holders, Consistent
  <2>2. proc' = [proc EXCEPT ![p] = m] /\ Rest
    BY <1>13, <1>a DEF ShowUnlocked, Memory
  <2> QED
    BY <2>1, <2>2
<1>18. CASE LoopAfterUnlock(p)
  <2> DEFINE m == [proc[p] EXCEPT !.looping = TRUE, !.mu = "free"]
  <2>1. m \in Memory /\ Consistent(m)
    BY <1>18, <1>a DEF LoopAfterUnlock, Memory, Steps, Holders, Consistent
  <2>2. proc' = [proc EXCEPT ![p] = m] /\ Rest
    BY <1>18, <1>a DEF LoopAfterUnlock, Memory
  <2> QED
    BY <2>1, <2>2
<1>14. ASSUME NEW e \in Draws, NEW keep \in Passphrases \cup {None}, Online(p, e, keep), Enters(p)
       PROVE  Own
  <2> DEFINE m == [proc[p] EXCEPT !.engine = e, !.pass = keep, !.mu = "show"]
  <2>1. m \in Memory /\ Consistent(m)
    BY <1>14, <1>a, SecretsAssumption DEF Memory, Steps, Holders, Consistent, Enters, Handles
  <2>2. proc' = [proc EXCEPT ![p] = m]
    BY <1>14, <1>a DEF Online, Memory
  <2> QED
    BY <2>1, <2>2
<1>15. ASSUME NEW s \in Passphrases, NEW r \in BOOLEAN, Unlock(p, s, r)
       PROVE  (Own \/ UNCHANGED proc) /\ Rest
  <2>1. MasterFor(p, s) \in Draws /\ Remembered(s, r) \in Passphrases \cup {None}
    BY <1>15, MasterForType DEF Unlock, Remembered
  <2> QED
    BY <1>14, <1>15, <2>1 DEF Unlock
<1>16. ASSUME NEW c \in Draws, Recover(p, c)
       PROVE  (Own \/ UNCHANGED proc) /\ Rest
  BY <1>14, <1>16, OpenType DEF Recover, MasterByCode
<1>17. CASE KeepPassphrase(p)
  <2> DEFINE m == [proc[p] EXCEPT !.pass = None, !.mu = "loop"]
  <2>1. m \in Memory /\ Consistent(m)
    BY <1>17, <1>a DEF KeepPassphrase, Memory, Steps, Holders, Consistent
  <2>2. proc' = [proc EXCEPT ![p] = m]
    BY <1>17, <1>a DEF KeepPassphrase, Memory
  <2>3. Rest
    BY <1>17, <1>a DEF KeepPassphrase, KeychainSet, Memory, Consistent
  <2> QED
    BY <2>1, <2>2, <2>3
<1> QED
  BY <1>1, <1>2, <1>3, <1>4, <1>5, <1>6, <1>7, <1>8, <1>9, <1>10, <1>11, <1>12, <1>13, <1>15,
     <1>16, <1>17, <1>18 DEF Process, UnlockRequest, RecoverRequest, Boots, Exit, Die

-------------------------------------------------------------------------------
(* Engines, objects and the keychain.                                        *)

\* Where the key of an engine can come from in one step.
LEMMA EngineComesFromFile ==
    ASSUME RestType, KeyInv, NEW p \in Procs, Process(p)
    PROVE  \/ proc'[p].engine \in {None, proc[p].engine}
           \/ keyFile \in Sealed /\ proc'[p].engine = keyFile.master
<1> DEFINE Goal == \/ proc'[p].engine \in {None, proc[p].engine}
                   \/ keyFile \in Sealed /\ proc'[p].engine = keyFile.master
<1>a. proc[p] \in Memory /\ proc \in [Procs -> Memory]
  BY DEF RestType
<1>1. CASE Boot(p)
  <2>1. PICK e \in {MasterFor(p, proc[p].pass), None} : proc'[p].engine = e
    BY <1>1, <1>a DEF Boot, Memory
  <2> QED
    BY <2>1, MasterForType
<1>2. CASE Gone(p)
  BY <1>2, <1>a DEF Gone, Off
<1>3. ASSUME NEW e, NEW keep, Online(p, e, keep)
      PROVE  proc'[p].engine = e
  BY <1>3, <1>a DEF Online, Memory
<1>4. ASSUME NEW s \in Passphrases, NEW r \in BOOLEAN, Unlock(p, s, r)
      PROVE  Goal
  BY <1>3, <1>4, MasterForType DEF Unlock
<1>5. ASSUME NEW c \in Draws, Recover(p, c)
      PROVE  Goal
  BY <1>3, <1>5, OpenType, ZenonT(60) DEF Recover, MasterByCode, KeyInv
<1>6. CASE \/ StartLoop(p) \/ LoadToken(p) \/ TruncateToken(p) \/ WriteToken(p)
           \/ Shutdown(p) \/ ShowUnlocked(p) \/ KeepPassphrase(p) \/ LoopAfterUnlock(p)
  BY <1>6, <1>a DEF StartLoop, LoadToken, TruncateToken, WriteToken, Shutdown,
     ShowUnlocked, KeepPassphrase, LoopAfterUnlock, Memory
<1>7. CASE ForgetPassphrase(p) \/ Upload(p) \/ (Listen(p) /\ ~Gone(p))
  BY <1>7, <1>a DEF ForgetPassphrase, Upload, Listen, Memory
<1>8. ASSUME NEW t \in Tokens, DrawToken(p, t)
      PROVE  Goal
  BY <1>8, <1>a DEF DrawToken, Memory
<1>9. ASSUME NEW env \in Passphrases \cup {None}, Start(p, env)
      PROVE  Goal
  <2>1. PICK found \in KeychainGet :
          proc' = [proc EXCEPT ![p].pc = "boot",
                               ![p].pass = IF env # None THEN env ELSE found,
                               ![p].bucket = config = "bucket"]
    BY <1>9 DEF Start
  <2> QED
    BY <2>1, <1>a DEF Memory
<1> QED
  BY <1>1, <1>2, <1>4, <1>5, <1>6, <1>7, <1>8, <1>9
     DEF Process, UnlockRequest, RecoverRequest, Boots, Exit, Die

\* What a step stores in the keychain and what it seals with.
LEMMA OthersComeFromEngine ==
    ASSUME NEW p \in Procs, Process(p)
    PROVE  /\ keychain' \in {None, keychain, proc[p].pass}
           /\ keychain' \in {None, keychain} \/ proc[p].mu = "keep"
           /\ sealedWith' \subseteq sealedWith \cup {proc[p].engine}
BY DEF Process, UnlockRequest, RecoverRequest, Boots, Boot, StartLoop, LoadToken,
       DrawToken, TruncateToken, WriteToken, Listen, Gone, Shutdown, Exit, Die,
       ForgetPassphrase, Upload, Start, Unlock, Recover, ShowUnlocked, KeepPassphrase,
       KeychainSet, LoopAfterUnlock, Meets, machine, history

\* What a handler is about to remember has opened the key.
KeepsRight(q) ==
    proc[q].mu \in {"show", "keep"} /\ proc[q].pass # None => Open(keyFile, proc[q].pass) # None

KeepInv == \A q \in Procs : KeepsRight(q)

LEMMA KeepStep ==
    ASSUME RestType, LockInv, KeepInv, NEW p \in Procs, Process(p)
    PROVE  KeepInv'
<1>a. proc \in [Procs -> Memory] /\ proc[p] \in Memory /\ Consistent(proc[p])
  BY DEF RestType, LockInv
<1>b. keyFile' = keyFile /\ \A q \in Procs \ {p} : proc'[q] = proc[q]
  BY ProcessLeavesKeys, ProcessStep DEF keyVars, files
<1>c. SUFFICES KeepsRight(p)'
  BY <1>b DEF KeepInv, KeepsRight, Open
<1>1. CASE proc'[p].mu \notin {"show", "keep"}
  BY <1>1 DEF KeepsRight
<1>2. CASE proc'[p].mu \in {"show", "keep"}
  <2>1. ASSUME NEW s \in Passphrases, NEW r \in BOOLEAN, Unlock(p, s, r)
        PROVE  KeepsRight(p)'
    <3>1. proc'[p].pass = Remembered(s, r)
      BY <2>1, <1>a DEF Unlock, Online, Memory
    <3>2. Open(keyFile, s) # None
      BY <2>1 DEF Unlock, MasterFor
    <3> QED
      BY <3>1, <3>2, <1>b DEF Remembered, KeepsRight, Open
  <2>2. ASSUME NEW c \in Draws, Recover(p, c)
        PROVE  KeepsRight(p)'
    <3>1. proc'[p].pass = None
      BY <2>2, <1>a DEF Recover, Online, Memory
    <3> QED
      BY <3>1 DEF KeepsRight
  <2>3. CASE proc'[p].pass = proc[p].pass /\ proc[p].mu \in {"show", "keep"}
    BY <2>3, <1>b DEF KeepInv, KeepsRight, Open
  <2>4. CASE ShowUnlocked(p) \/ ForgetPassphrase(p) \/ Upload(p) \/ Shutdown(p)
    BY <2>3, <2>4, <1>2, <1>a DEF ShowUnlocked, ForgetPassphrase, Upload, Shutdown, Memory
  <2>5. CASE KeepPassphrase(p) \/ LoopAfterUnlock(p) \/ Gone(p)
    BY <2>5, <1>2, <1>a DEF KeepPassphrase, LoopAfterUnlock, Gone, Off, Memory
  <2>6. CASE (Boots(p) /\ ~Gone(p)) \/ \E env \in Passphrases \cup {None} : Start(p, env)
    <3>1. proc[p].mu = "free"
      BY <2>6, <1>a DEF Boots, Start, Boot, StartLoop, LoadToken, DrawToken, TruncateToken,
         WriteToken, Listen, Consistent
    <3>2. proc'[p].mu = "free"
      <4>1. CASE Boot(p) \/ StartLoop(p) \/ LoadToken(p) \/ TruncateToken(p) \/ WriteToken(p)
        BY <4>1, <3>1, <1>a DEF Boot, StartLoop, LoadToken, TruncateToken, WriteToken, Memory
      <4>2. CASE (Listen(p) /\ ~Gone(p)) \/ \E t \in Tokens : DrawToken(p, t)
        BY <4>2, <3>1, <1>a DEF Listen, DrawToken, Memory
      <4>3. CASE \E env \in Passphrases \cup {None} : Start(p, env)
        BY <4>3, <3>1, <1>a DEF Start, Memory
      <4> QED
        BY <2>6, <4>1, <4>2, <4>3 DEF Boots
    <3> QED
      BY <3>2, <1>2
  <2> QED
    BY <2>1, <2>2, <2>4, <2>5, <2>6 DEF Process, UnlockRequest, RecoverRequest, Exit, Die
<1> QED
  BY <1>1, <1>2

LEMMA MasterStep ==
    ASSUME KeyInv, RestType, LockInv, KeepInv, OneMasterForAll, RememberedOpens, [Next]_vars
    PROVE  OneMasterForAll' /\ RememberedOpens' /\ KeepInv'
<1> DEFINE Ok(m) == m # None => keyFile \in Sealed /\ keyFile.master = m
<1>1. keyFile \in Sealed => keyFile' = keyFile
  BY KeyInvStep
<1>2. (\A m \in sealedWith : Ok(m)) /\ \A q \in Procs : Ok(proc[q].engine)
  BY DEF OneMasterForAll
<1>3. CASE Install \/ UNCHANGED vars
  <2>1. UNCHANGED <<proc, machine, history>>
    BY <1>3 DEF Install, vars
  <2>2. OneMasterForAll'
    BY <1>1, <1>2, <2>1 DEF OneMasterForAll, history
  <2>3. KeepInv'
    BY <1>1, <2>1 DEF KeepInv, KeepsRight, Open
  <2> QED
    BY <1>1, <2>1, <2>2, <2>3 DEF RememberedOpens, Open, machine
<1>4. ASSUME NEW p \in Procs, Process(p)
      PROVE  OneMasterForAll' /\ RememberedOpens' /\ KeepInv'
  <2>1. keyFile' = keyFile
    BY <1>4, ProcessLeavesKeys DEF keyVars, files
  <2>2. Ok(proc'[p].engine)
    BY <1>2, <1>4, EngineComesFromFile
  <2>3. \A q \in Procs \ {p} : proc'[q] = proc[q]
    BY <1>4, ProcessStep
  <2>4. \A m \in sealedWith' \cup {proc'[q].engine : q \in Procs} : Ok(m)
    BY <1>2, <1>4, <2>2, <2>3, OthersComeFromEngine
  <2>5. OneMasterForAll'
    BY <2>1, <2>4 DEF OneMasterForAll
  <2>6. keychain' \in {None, keychain} \/ (proc[p].mu = "keep" /\ keychain' = proc[p].pass)
    BY <1>4, OthersComeFromEngine
  <2>7. RememberedOpens'
    BY <2>1, <2>6 DEF RememberedOpens, KeepInv, KeepsRight, Open
  <2> QED
    BY <1>4, <2>5, <2>7, KeepStep
<1> QED
  BY <1>3, <1>4 DEF Next

-------------------------------------------------------------------------------
(* The session token.                                                        *)

\* Outside a race nobody is writing the file while p makes a token, and nobody
\* writes it after p has one.
TokenInv ==
    \A p \in Procs :
        /\ proc[p].pc \in {"truncate", "write"} => proc[p].token \in Tokens
        /\ p \notin raced /\ proc[p].pc \in {"truncate", "write"} => Makers(p) = {}
        /\ p \notin raced /\ proc[p].pc \in {"listen", "serve", "down"} =>
              /\ Makers(p) = {}
              /\ tokenFile \in Tokens /\ tokenFile = proc[p].token

\* A step that is not about the token leaves p where it was in that respect.
Quiet(p) ==
    /\ UNCHANGED <<tokenFile, raced>>
    /\ proc'[p].pc \notin {"truncate", "write"} /\ proc[p].pc \notin {"truncate", "write"}
    /\ proc'[p].pc \in {"listen", "serve", "down"} =>
          proc[p].pc \in {"listen", "serve", "down"} /\ proc'[p].token = proc[p].token

LEMMA TokenStep ==
    ASSUME RestType, LockInv, TokenInv, NEW p \in Procs, Process(p)
    PROVE  TokenInv'
<1>a. proc \in [Procs -> Memory] /\ proc[p] \in Memory
  BY DEF RestType
<1>b. \A q \in Procs \ {p} : proc'[q] = proc[q]
  BY ProcessStep
<1>c. TokensAssumption
  BY TokensAssumption
<1>1. CASE Quiet(p)
  BY <1>1, <1>b DEF Quiet, TokenInv, Makers
<1>2. CASE LoadToken(p)
  <2>1. proc'[p].pc = "listen" /\ proc'[p].token = tokenFile
    BY <1>2, <1>a DEF LoadToken, Memory
  <2>2. proc[p].pc = "token" /\ tokenFile \in Tokens /\ tokenFile' = tokenFile
    BY <1>2 DEF LoadToken, machine
  <2>3. \A q \in Procs : Makers(q)' = Makers(q)
    BY <1>b, <2>1, <2>2 DEF Makers
  <2>4. Meets(p)
    BY <1>2 DEF LoadToken
  <2>5. \A q \in Procs : q \notin raced' => q \notin raced
    BY <2>4 DEF Meets
  <2>6. p \notin raced' => Makers(p) = {}
    BY <2>4 DEF Meets
  <2> QED
    BY <1>b, <2>1, <2>2, <2>3, <2>5, <2>6 DEF TokenInv
<1>3. ASSUME NEW t \in Tokens, DrawToken(p, t)
      PROVE  TokenInv'
  <2>1. proc'[p].pc = "truncate" /\ proc'[p].token = t
    BY <1>3, <1>a DEF DrawToken, Memory
  <2> QED
    BY <1>3, <1>b, <2>1, ZenonT(60) DEF DrawToken, Meets, TokenInv, Makers, machine
<1>4. CASE TruncateToken(p)
  <2>1. proc'[p].pc = "write" /\ proc'[p].token = proc[p].token
    BY <1>4, <1>a DEF TruncateToken, Memory
  <2> QED
    BY <1>4, <1>b, <2>1 DEF TruncateToken, TokenInv, Makers, history
<1>5. CASE WriteToken(p)
  <2>1. proc'[p].pc = "listen" /\ proc'[p].token = proc[p].token
    BY <1>5, <1>a DEF WriteToken, Memory
  <2> QED
    BY <1>5, <1>b, <2>1 DEF WriteToken, TokenInv, Makers, history
<1>6. CASE Gone(p)
  <2>1. proc'[p].pc = "off"
    BY <1>6, <1>a DEF Gone, Off
  <2> QED
    BY <1>6, <1>b, <2>1 DEF Gone, TokenInv, Makers, machine
<1>7. CASE \/ Boot(p) \/ StartLoop(p) \/ Shutdown(p) \/ ForgetPassphrase(p) \/ Upload(p)
           \/ \E env \in Passphrases \cup {None} : Start(p, env)
           \/ \E s \in Passphrases, r \in BOOLEAN : Unlock(p, s, r)
           \/ \E c \in Draws : Recover(p, c)
           \/ ShowUnlocked(p) \/ KeepPassphrase(p) \/ LoopAfterUnlock(p)
  <2>1. CASE Boot(p) \/ StartLoop(p) \/ Shutdown(p)
    BY <2>1, <1>1, <1>a DEF Boot, StartLoop, Shutdown, Quiet, Memory, machine, history
  <2>2. CASE ForgetPassphrase(p) \/ Upload(p) \/ \E env \in Passphrases \cup {None} : Start(p, env)
    <3>1. CASE \E env \in Passphrases \cup {None} : Start(p, env)
      BY <3>1, <1>1, <1>a DEF Start, Quiet, Memory, machine, history
    <3>2. CASE ForgetPassphrase(p) \/ Upload(p)
      BY <3>2 DEF ForgetPassphrase, Upload, TokenInv, Makers, machine, history
    <3> QED
      BY <2>2, <3>1, <3>2
  <2>4. ASSUME NEW e, NEW keep, Online(p, e, keep), Enters(p), UNCHANGED <<tokenFile, raced>>
        PROVE  TokenInv'
    BY <2>4, <1>1, <1>a DEF Online, Enters, Handles, Quiet, Memory
  <2>5. ASSUME NEW s \in Passphrases, NEW r \in BOOLEAN, Unlock(p, s, r)
        PROVE  TokenInv'
    BY <2>4, <2>5 DEF Unlock, machine, history
  <2>6. ASSUME NEW c \in Draws, Recover(p, c)
        PROVE  TokenInv'
    BY <2>4, <2>6 DEF Recover, MasterByCode, machine, history
  <2>7. CASE ShowUnlocked(p) \/ KeepPassphrase(p) \/ LoopAfterUnlock(p)
    <3>1. proc[p].pc \in {"serve", "down"}
      BY <2>7, <1>a DEF ShowUnlocked, KeepPassphrase, LoopAfterUnlock, Consistent, LockInv
    <3> QED
      BY <2>7, <3>1, <1>1, <1>a DEF ShowUnlocked, KeepPassphrase, LoopAfterUnlock, Quiet,
         Memory, machine, history
  <2> QED
    BY <1>7, <2>1, <2>2, <2>5, <2>6, <2>7
<1>8. CASE Listen(p) /\ ~Gone(p)
  <2>1. Quiet(p)
    BY <1>8, <1>a DEF Listen, Quiet, Memory, machine, history
  <2> QED
    BY <1>1, <2>1
<1> QED
  BY <1>2, <1>3, <1>4, <1>5, <1>6, <1>7, <1>8
     DEF Process, UnlockRequest, RecoverRequest, Boots, Exit, Die

-------------------------------------------------------------------------------
(* The specification.                                                        *)

DaemonInv ==
    /\ KeyInv /\ RestType /\ LockInv /\ KeepInv /\ TokenInv
    /\ OneMasterForAll /\ RememberedOpens

LEMMA InvInit == Init => DaemonInv
<1> SUFFICES ASSUME Init PROVE DaemonInv
  OBVIOUS
<1>1. KeyInv
  BY KeyInvInit DEF Init
<1>2. Off \in Memory /\ Consistent(Off) /\ Off.engine = None /\ Off.pc = "off"
      /\ Off.mu = "free"
  BY DEF Off, Memory, Steps, Holders, Consistent
<1>3. RestType /\ LockInv /\ KeepInv /\ TokenInv
  BY <1>2 DEF Init, RestType, LockInv, KeepInv, KeepsRight, TokenInv
<1>4. OneMasterForAll /\ RememberedOpens
  BY <1>2 DEF Init, OneMasterForAll, RememberedOpens
<1> QED
  BY <1>1, <1>3, <1>4 DEF DaemonInv

LEMMA InvStep == DaemonInv /\ [Next]_vars => DaemonInv'
<1> SUFFICES ASSUME DaemonInv, [Next]_vars PROVE DaemonInv'
  OBVIOUS
<1> USE DEF DaemonInv
<1>1. KeyInv' /\ OneMasterForAll' /\ RememberedOpens' /\ KeepInv'
  BY KeyInvStep, MasterStep
<1>2. ASSUME NEW p \in Procs, Process(p)
      PROVE  RestType' /\ LockInv' /\ TokenInv'
  BY <1>2, ProcessStep, TokenStep
<1>3. CASE Install \/ UNCHANGED vars
  <2>1. UNCHANGED <<proc, machine, history>>
    BY <1>3 DEF Install, vars
  <2>2. RestType' /\ LockInv'
    BY <2>1 DEF RestType, LockInv, Consistent, machine, history
  <2>3. \A p \in Procs : Makers(p)' = Makers(p)
    BY <2>1 DEF Makers
  <2>4. TokenInv'
    BY <2>1, <2>3 DEF TokenInv, machine, history
  <2> QED
    BY <1>1, <2>2, <2>4
<1> QED
  BY <1>1, <1>2, <1>3 DEF Next

LEMMA InvAlways == Spec => []DaemonInv
BY InvInit, InvStep, PTL DEF Spec

\* Every variable keeps its type.
THEOREM DaemonTypes == Spec => []TypeOK
<1>1. DaemonInv => TypeOK
  BY DEF DaemonInv, KeyInv, RestType, TypeOK
<1> QED
  BY <1>1, InvAlways, PTL

\* Once the user has been shown the recovery code, the passphrase and the code open
\* the same master key, for any number of later inits and wherever one is cut short.
THEOREM EitherSecretOpensAlways == Spec => []EitherSecretOpens
<1>1. DaemonInv => EitherSecretOpens
  <2> SUFFICES ASSUME DaemonInv, notedCode # None PROVE EitherSecretOpens
    BY DEF EitherSecretOpens
  <2>1. /\ keyFile \in Sealed /\ keyFile.secret = notedPass
        /\ recFile \in Sealed /\ recFile.secret = notedCode
        /\ recFile.master = keyFile.master
    BY DEF DaemonInv, KeyInv
  <2>2. keyFile.master # None
    BY <2>1, SecretsAssumption DEF Sealed
  <2> QED
    BY <2>1, <2>2 DEF EitherSecretOpens, Open
<1> QED
  BY <1>1, InvAlways, PTL

\* All engines and all objects of all processes have the one key that is on disk.
THEOREM OneMasterAlways == Spec => []OneMasterForAll
BY InvAlways, PTL DEF DaemonInv

\* What the keychain holds opens the key.
THEOREM RememberedOpensAlways == Spec => []RememberedOpens
BY InvAlways, PTL DEF DaemonInv

\* At every statement of Unlock and UnlockWithRecovery, a daemon that says it is
\* unlocked has its engine, and a loop runs only in one that says so.
THEOREM UnlockedHasEngineAlways == Spec => []UnlockedHasEngine
<1>1. DaemonInv => UnlockedHasEngine
  BY DEF DaemonInv, LockInv, Consistent, UnlockedHasEngine, Handles
<1> QED
  BY <1>1, InvAlways, PTL

\* Whoever finds d.mu free finds engine, loop and locked in agreement, whatever the
\* keychain did and whichever of the two ways was taken.
THEOREM NeverHalfUnlockedAlways == Spec => []NeverHalfUnlocked
<1>1. DaemonInv => NeverHalfUnlocked
  BY DEF DaemonInv, LockInv, Consistent, NeverHalfUnlocked, Handles
<1> QED
  BY <1>1, InvAlways, PTL

\* The token file and the daemon that serves agree for any number of processes, but
\* for those that met one another making it.
THEOREM ClientsGetInAlways == Spec => []ClientsGetIn
<1>1. DaemonInv => ClientsGetIn
  BY DEF DaemonInv, TokenInv, ClientsGetIn
<1> QED
  BY <1>1, InvAlways, PTL
===============================================================================
