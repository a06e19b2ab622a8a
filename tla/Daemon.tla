-------------------------------- MODULE Daemon --------------------------------
(* The life of daemon processes (daemon/daemon.go, Server.Start) on one data *)
(* directory: the one the service manager keeps running and the one          *)
(* dropboy ui starts.  A process gets its passphrase, makes an engine or     *)
(* stays locked, starts the loop, finds or makes the session token, listens, *)
(* serves unlock, recover and forget, and goes down.                         *)
EXTENDS KeyStore

CONSTANTS
    Procs,         \* daemon processes
    Port,          \* Port[p], the port it is told to listen on
    Tokens         \* session tokens

ASSUME TokensAssumption == {None, Torn} \cap Tokens = {}

VARIABLES
    proc,          \* what each process has in memory, see Memory
    keychain,      \* the passphrase in the OS keychain, or None
    tokenFile,     \* ui.token
    sealedWith,    \* history: the master keys objects were sealed with
    raced          \* history: processes that met another one making a token

machine == <<keychain, tokenFile>>
history == <<sealedWith, raced>>
vars == <<keyVars, proc, machine, history>>

Steps == {"off", "boot", "loop", "token", "truncate", "write", "listen", "serve", "down"}

\* A handler that has d.mu: about to show that it is unlocked, to store the
\* passphrase, to start the loop.
Holders == {"free", "show", "keep", "loop"}

Memory == [
    pc      : Steps,                     \* where Run is
    pass    : Passphrases \cup {None},   \* what Run found, or Unlock is to remember
    bucket  : BOOLEAN,                   \* whether its configuration names one
    engine  : Draws \cup {None},         \* the master key of its engine
    locked  : BOOLEAN,                   \* Daemon.locked
    looping : BOOLEAN,                   \* its reconcile loop was started
    mu      : Holders,                   \* d.mu: free, or where its holder is
    token   : Tokens \cup {None}]        \* Server.token, or the one being made

Off == [pc |-> "off", pass |-> None, bucket |-> FALSE, engine |-> None,
        locked |-> FALSE, looping |-> FALSE, mu |-> "free", token |-> None]

Init ==
    /\ KeyInit
    /\ proc = [p \in Procs |-> Off]
    /\ keychain = None /\ tokenFile = None
    /\ sealedWith = {} /\ raced = {}

-------------------------------------------------------------------------------
(* Run.                                                                      *)

\* The keychain's tool may be missing, refuse, or have nothing.
KeychainGet == {keychain, None}

\* The passphrase of the environment, else that of the keychain.
Start(p, env) ==
    /\ proc[p].pc = "off" /\ config # None
    /\ \E found \in KeychainGet :
          proc' = [proc EXCEPT ![p].pc = "boot",
                               ![p].pass = IF env # None THEN env ELSE found,
                               ![p].bucket = config = "bucket"]
    /\ UNCHANGED <<keyVars, machine, history>>

\* initEngine, as Run and Unlock call it: no bucket, no file, no passphrase, one
\* that does not open the file.
MasterFor(p, secret) == IF proc[p].bucket /\ HasMasterKey THEN Open(keyFile, secret) ELSE None

\* None also for an error of store.Open or s3.New.
Boot(p) ==
    /\ proc[p].pc = "boot"
    /\ \E e \in {MasterFor(p, proc[p].pass), None} :
          proc' = [proc EXCEPT ![p].pc = "loop", ![p].pass = None,
                               ![p].engine = e, ![p].locked = e = None]
    /\ UNCHANGED <<keyVars, machine, history>>

\* The loop starts before the server does.
StartLoop(p) ==
    /\ proc[p].pc = "loop"
    /\ proc' = [proc EXCEPT ![p].pc = "token", ![p].looping = proc[p].engine # None]
    /\ UNCHANGED <<keyVars, machine, history>>

Makers(p) == {q \in Procs \ {p} : proc[q].pc \in {"truncate", "write"}}

\* p looks at the token file while others may be writing it.
Meets(p) == raced' = IF Makers(p) = {} THEN raced ELSE raced \cup Makers(p) \cup {p}

\* loadOrCreateToken: what is too short for a token is replaced.
LoadToken(p) ==
    /\ proc[p].pc = "token" /\ tokenFile \in Tokens
    /\ proc' = [proc EXCEPT ![p].pc = "listen", ![p].token = tokenFile]
    /\ Meets(p)
    /\ UNCHANGED <<keyVars, machine, sealedWith>>

DrawToken(p, t) ==
    /\ proc[p].pc = "token" /\ tokenFile \notin Tokens
    /\ proc' = [proc EXCEPT ![p].pc = "truncate", ![p].token = t]
    /\ Meets(p)
    /\ UNCHANGED <<keyVars, machine, sealedWith>>

TruncateToken(p) ==
    /\ proc[p].pc = "truncate"
    /\ proc' = [proc EXCEPT ![p].pc = "write"]
    /\ tokenFile' = Torn
    /\ UNCHANGED <<keyVars, keychain, history>>

WriteToken_Unchecked(p) ==
    /\ proc[p].pc = "write"
    /\ proc' = [proc EXCEPT ![p].pc = "listen"]
    /\ tokenFile' \in {tokenFile, proc[p].token}
    /\ UNCHANGED <<keyVars, keychain, history>>

WriteToken(p) ==
    /\ proc[p].pc = "write"
    /\ proc' = [proc EXCEPT ![p].pc = "listen"]
    /\ tokenFile' = proc[p].token
    /\ UNCHANGED <<keyVars, keychain, history>>

\* The process is gone and with it all it had in memory.
Gone(p) ==
    /\ proc' = [proc EXCEPT ![p] = Off]
    /\ raced' = raced \ {p}
    /\ UNCHANGED <<keyVars, machine, sealedWith>>

Taken(port) == \E q \in Procs : proc[q].pc = "serve" /\ Port[q] = port

\* net.Listen: an error ends Run and the process.
Listen(p) ==
    /\ proc[p].pc = "listen"
    /\ \/ Taken(Port[p]) /\ Gone(p)
       \/ /\ ~Taken(Port[p])
          /\ proc' = [proc EXCEPT ![p].pc = "serve"]
          /\ UNCHANGED <<keyVars, machine, history>>

\* SIGTERM: the listener is closed, requests under way have 15 seconds more.
Shutdown(p) ==
    /\ proc[p].pc = "serve"
    /\ proc' = [proc EXCEPT ![p].pc = "down"]
    /\ UNCHANGED <<keyVars, machine, history>>

Exit(p) == proc[p].pc = "down" /\ Gone(p)

\* Killed, or an error before the server is up.
Die(p) == proc[p].pc # "off" /\ Gone(p)

-------------------------------------------------------------------------------
(* The handlers.  Unlock and Recover exclude each other by d.mu, from their   *)
(* look at the engine to the start of the loop.  All others read engine and  *)
(* locked without it, so every statement that they can tell apart is a step.  *)

Handles(p) == proc[p].pc \in {"serve", "down"}

\* The lock is free, and so far no handler has found an engine.
Enters(p) == Handles(p) /\ proc[p].mu = "free" /\ proc[p].engine = None

\* initEngineWithMaster ends with the engine in place; keep is what is to be
\* remembered.
Online(p, e, keep) ==
    proc' = [proc EXCEPT ![p].engine = e, ![p].pass = keep, ![p].mu = "show"]

\* What Unlock's caller wants to be remembered.
Remembered(secret, remember) == IF remember THEN secret ELSE None

\* Nobody asks whether the keychain's tool did it.
KeychainSet(secret) == keychain' \in {secret, keychain}

Unlock_StoresFirst(p, secret, remember) ==
    /\ Enters(p)
    /\ IF remember THEN KeychainSet(secret) ELSE UNCHANGED keychain
    /\ IF MasterFor(p, secret) = None
       THEN UNCHANGED proc
       ELSE Online(p, MasterFor(p, secret), None)
    /\ UNCHANGED <<keyVars, tokenFile, history>>

Unlock_ShowsFirst(p, secret, remember) ==
    /\ Enters(p)
    /\ IF MasterFor(p, secret) = None
       THEN proc' = [proc EXCEPT ![p].locked = FALSE]
       ELSE Online(p, MasterFor(p, secret), Remembered(secret, remember))
    /\ UNCHANGED <<keyVars, machine, history>>

\* With an engine Unlock is over before it looks at its arguments, and the handler
\* answers as if all had been done: nothing changes, remember or not.
Unlock(p, secret, remember) ==
    /\ Enters(p)
    /\ MasterFor(p, secret) # None
    /\ Online(p, MasterFor(p, secret), Remembered(secret, remember))
    /\ UNCHANGED <<keyVars, machine, history>>

\* handleUnlock: an empty passphrase is turned away.
UnlockRequest(p) == \E s \in Passphrases, r \in BOOLEAN : Unlock(p, s, r)

\* loadMasterWithRecovery: also None without a second file.
MasterByCode(code) == Open(recFile, code)

Recover(p, code) ==
    /\ Enters(p) /\ proc[p].bucket
    /\ MasterByCode(code) # None
    /\ Online(p, MasterByCode(code), None)
    /\ UNCHANGED <<keyVars, machine, history>>

\* dropboy recover and handleRecover: an empty code is turned away.
RecoverRequest(p) == \E c \in Draws : Recover(p, c)

\* d.locked.Store(false), in both.
ShowUnlocked(p) ==
    /\ proc[p].mu = "show"
    /\ proc' = [proc EXCEPT ![p].locked = FALSE,
                            ![p].mu = IF proc[p].pass = None THEN "loop" ELSE "keep"]
    /\ UNCHANGED <<keyVars, machine, history>>

KeepPassphrase_OrFail(p) ==
    /\ proc[p].mu = "keep"
    /\ KeychainSet(proc[p].pass)
    /\ proc' = [proc EXCEPT ![p].pass = None,
                            ![p].mu = IF keychain' = proc[p].pass THEN "loop" ELSE "free"]
    /\ UNCHANGED <<keyVars, tokenFile, history>>

\* keychain.Set runs a tool that may ask the user first, or not come back.
KeepPassphrase(p) ==
    /\ proc[p].mu = "keep"
    /\ KeychainSet(proc[p].pass)
    /\ proc' = [proc EXCEPT ![p].pass = None, ![p].mu = "loop"]
    /\ UNCHANGED <<keyVars, tokenFile, history>>

\* startReconcileLoop, and d.mu is free again.
LoopAfterUnlock(p) ==
    /\ proc[p].mu = "loop"
    /\ proc' = [proc EXCEPT ![p].looping = TRUE, ![p].mu = "free"]
    /\ UNCHANGED <<keyVars, machine, history>>

\* Not under d.mu: an Unlock half way may store after it what it has deleted.
ForgetPassphrase(p) ==
    /\ Handles(p)
    /\ keychain' = None
    /\ UNCHANGED <<keyVars, proc, tokenFile, history>>

\* A pass of the loop, or of KickSync, which asks only for an engine, uploads: an
\* object is sealed with the engine's key.
Passes(p) == proc[p].looping \/ (Handles(p) /\ proc[p].engine # None)

Upload_Locked(p) ==
    /\ proc[p].pc = "serve"
    /\ sealedWith' = sealedWith \cup {proc[p].engine}
    /\ UNCHANGED <<keyVars, proc, machine, raced>>

Upload(p) ==
    /\ Passes(p)
    /\ sealedWith' = sealedWith \cup {proc[p].engine}
    /\ UNCHANGED <<keyVars, proc, machine, raced>>

-------------------------------------------------------------------------------
Boots(p) ==
    \/ Boot(p) \/ StartLoop(p) \/ LoadToken(p) \/ TruncateToken(p) \/ WriteToken(p)
    \/ Listen(p)
    \/ \E t \in Tokens : DrawToken(p, t)

Process(p) ==
    \/ Boots(p) \/ Shutdown(p) \/ Exit(p) \/ Die(p) \/ ForgetPassphrase(p) \/ Upload(p)
    \/ \E env \in Passphrases \cup {None} : Start(p, env)
    \/ UnlockRequest(p) \/ RecoverRequest(p)
    \/ ShowUnlocked(p) \/ KeepPassphrase(p) \/ LoopAfterUnlock(p)

Install == InitCommand /\ UNCHANGED <<proc, machine, history>>

Next == Install \/ \E p \in Procs : Process(p)

Spec == Init /\ [][Next]_vars
-------------------------------------------------------------------------------
TypeOK ==
    /\ {keyFile, recFile} \subseteq Sealed \cup {None, Torn}
    /\ config \in {None, "no bucket", "bucket"}
    /\ {passphrase, notedPass, keychain} \subseteq Passphrases \cup {None}
    /\ {draw, notedCode} \subseteq Draws \cup {None}
    /\ proc \in [Procs -> Memory]
    /\ tokenFile \in Tokens \cup {None, Torn}
    /\ drawn \subseteq Draws /\ sealedWith \subseteq Draws /\ raced \subseteq Procs

\* Either secret opens the master key, from the moment the user is told the
\* recovery code and through every later init (keystore.go:9-10, init.go:85-89).
EitherSecretOpens ==
    notedCode # None =>
        /\ Open(keyFile, notedPass) # None
        /\ Open(recFile, notedCode) = Open(keyFile, notedPass)

\* Whatever is uploaded, by whichever process and unlocked by either secret, is
\* sealed with the one master key that is on disk (daemon.go:212-265,
\* init.go:71): no sequence of inits, restarts and recoveries leaves two.
OneMasterForAll ==
    \A m \in sealedWith \cup {proc[p].engine : p \in Procs} :
        m # None => keyFile \in Sealed /\ keyFile.master = m

\* A passphrase in the keychain opens the key at the next boot, whatever was
\* typed and whichever process stored it (daemon.go:159-174).
RememberedOpens == keychain # None => Open(keyFile, keychain) # None

\* What Locked, Stats and KickSync may go by, which read without d.mu (daemon.go:90,
\* 108, 199) while Unlock and UnlockWithRecovery are half way: a daemon that says
\* it is unlocked has its engine, and a loop runs only in one that says so.
UnlockedHasEngine ==
    \A p \in Procs :
        Handles(p) => /\ ~proc[p].locked => proc[p].engine # None
                      /\ proc[p].looping => ~proc[p].locked

\* Whoever finds d.mu free finds the unlocking done to its end or not begun, with
\* the keychain willing or not: since a second Unlock returns at the engine
\* (daemon.go:162), an engine without its loop would be left so for ever.
NeverHalfUnlocked ==
    \A p \in Procs :
        Handles(p) /\ proc[p].mu = "free" =>
            /\ proc[p].locked <=> proc[p].engine = None
            /\ proc[p].looping <=> proc[p].engine # None

\* The token a client reads from ui.token is the one the daemon asks for, unless
\* two daemons made one at the same time (auth.go:23-43, cli/api_client.go:20-30).
ClientsGetIn ==
    \A p \in Procs \ raced : proc[p].pc = "serve" => tokenFile = proc[p].token
===============================================================================
