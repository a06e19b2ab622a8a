------------------------------- MODULE KeyStore -------------------------------
(* The two sealed copies of the master key (crypto/keystore.go) and the      *)
(* command that makes them, dropboy init (cli/init.go).  Sealing is ideal:   *)
(* a whole file opens with the secret it was sealed with and no other.       *)
EXTENDS Naturals

CONSTANTS
    Passphrases,   \* what a user may choose
    Draws,         \* what one init draws: a master key and a recovery code
    None,          \* no file, no secret
    Torn           \* a file that was truncated and not written

ASSUME SecretsAssumption ==
    /\ Passphrases \cap Draws = {}
    /\ {None, Torn} \cap (Passphrases \cup Draws) = {} /\ None # Torn

Secrets == Passphrases \cup Draws
Sealed  == [secret : Secrets, master : Draws]

ASSUME SealedAssumption == {None, Torn} \cap Sealed = {}

VARIABLES
    keyFile,       \* master.key
    recFile,       \* master.recovery.key
    config,        \* config.yaml: None, without a bucket, or with one
    init,          \* how far the init command is, or "none"
    passphrase,    \* the passphrase it was given
    draw,          \* what it drew
    drawn,         \* history: everything drawn so far
    notedPass,     \* history: the passphrase the user last chose
    notedCode      \* history: the recovery code the user was shown

files   == <<keyFile, recFile>>
command == <<init, passphrase, draw>>
notes   == <<drawn, notedPass, notedCode>>
keyVars == <<files, config, command, notes>>

KeyInit ==
    /\ keyFile = None /\ recFile = None /\ config = None
    /\ init = "none" /\ passphrase = None /\ draw = None
    /\ drawn = {} /\ notedPass = None /\ notedCode = None

\* HasMasterKey asks whether the file is there, not what is in it.
HasMasterKey == keyFile # None

\* loadAndOpen: the master key, or None for any error.
Open(file, secret) ==
    IF file \in Sealed /\ file.secret = secret THEN file.master ELSE None

-------------------------------------------------------------------------------
(* dropboy init.  One user runs it, again whenever it was cut short.         *)

\* init --non-interactive, on what configuration there is.
InitDefaults ==
    /\ init = "none"
    /\ config' = IF config = None THEN "no bucket" ELSE config
    /\ UNCHANGED <<files, command, notes>>

\* The questions about bucket, region and machine are answered.
InitKeepsKey ==
    /\ init = "none" /\ HasMasterKey
    /\ init' = "save"
    /\ UNCHANGED <<files, config, passphrase, draw, notes>>

\* GenerateRecoveryCode and GenerateKey: what is drawn was never drawn before.
Fresh == Draws \ drawn

\* promptPassphrase, and what it draws.
InitChooses_Again(p, d) ==
    /\ init = "none"
    /\ init' = "truncate key" /\ passphrase' = p /\ draw' = d
    /\ drawn' = drawn \cup {d} /\ notedPass' = p
    /\ UNCHANGED <<files, config, notedCode>>

InitChooses(p, d) ==
    /\ init = "none" /\ ~HasMasterKey
    /\ init' = "truncate key" /\ passphrase' = p /\ draw' = d
    /\ drawn' = drawn \cup {d} /\ notedPass' = p
    /\ UNCHANGED <<files, config, notedCode>>

\* sealAndWrite, twice: os.WriteFile truncates the file and then writes it.
TruncateKey ==
    /\ init = "truncate key"
    /\ init' = "write key" /\ keyFile' = Torn
    /\ UNCHANGED <<recFile, config, passphrase, draw, notes>>

WriteKey ==
    /\ init = "write key"
    /\ init' = "truncate recovery"
    /\ keyFile' = [secret |-> passphrase, master |-> draw]
    /\ UNCHANGED <<recFile, config, passphrase, draw, notes>>

TruncateRecovery ==
    /\ init = "truncate recovery"
    /\ init' = "write recovery" /\ recFile' = Torn
    /\ UNCHANGED <<keyFile, config, passphrase, draw, notes>>

WriteRecovery ==
    /\ init = "write recovery"
    /\ init' = "show"
    /\ recFile' = [secret |-> draw, master |-> draw]
    /\ UNCHANGED <<keyFile, config, passphrase, draw, notes>>

\* showRecoveryCode, after both files.
ShowRecoveryCode_Early ==
    /\ init \in {"truncate key", "show"}
    /\ notedCode' = draw
    /\ init' = IF init = "show" THEN "save" ELSE init
    /\ UNCHANGED <<files, config, passphrase, draw, drawn, notedPass>>

ShowRecoveryCode ==
    /\ init = "show"
    /\ init' = "save" /\ notedCode' = draw
    /\ UNCHANGED <<files, config, passphrase, draw, drawn, notedPass>>

\* At the end of the input the question about the bucket answers itself: with
\* the one there is, or with none.
InitSaves ==
    /\ init = "save"
    /\ init' = "none" /\ passphrase' = None /\ draw' = None
    /\ config' \in {"bucket", IF config = "bucket" THEN config ELSE "no bucket"}
    /\ UNCHANGED <<files, notes>>

\* An error, an answer that aborts, or the end of the process.
InitDies ==
    /\ init # "none"
    /\ init' = "none" /\ passphrase' = None /\ draw' = None
    /\ UNCHANGED <<files, config, notes>>

InitCommand ==
    \/ InitDefaults \/ InitKeepsKey
    \/ \E p \in Passphrases, d \in Fresh : InitChooses(p, d)
    \/ TruncateKey \/ WriteKey \/ TruncateRecovery \/ WriteRecovery
    \/ ShowRecoveryCode \/ InitSaves \/ InitDies
===============================================================================
