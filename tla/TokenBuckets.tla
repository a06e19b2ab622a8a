----------------------------- MODULE TokenBuckets -----------------------------
(* The two token buckets: rateLimiter of server/middleware.go, in front of   *)
(* the routes that take a passphrase or a code, and throttledReader of       *)
(* sync/throttle.go, one for each upload.  What a bucket earns in a tick is  *)
(* its unit; the rounding of floats and of time.Duration is left out, and so *)
(* is the plain reader of a daemon without an upload limit (bytesPerSec <= 0 *)
(* in newThrottledReader): it has no bucket.                                 *)
EXTENDS Integers

CONSTANTS
    Passes,     \* goroutines that may be inside ReconcileOnce, an upload each at a time
    Routes,     \* keys of rl.buckets: route name and host
    Cost,       \* one token
    Burst,      \* rl.burst
    Rate,       \* bytesPerSec: what a second earns, and what the bucket holds
    Chunk,      \* 16 KiB
    Starts      \* when an observer may start to count

ASSUME SizesAssumption ==
    /\ Cost \in Nat \ {0} /\ Burst \in Nat /\ Cost <= Burst
    \* 1 Mbps, the lowest limit there is, earns 125000 bytes.
    /\ Chunk \in Nat \ {0} /\ Rate \in Nat /\ Chunk <= Rate
    /\ Starts \subseteq Nat

VARIABLES
    now,        \* time.Now()
    level,      \* level[k], tokens of the bucket of k
    last,       \* last[k], when it was last refilled
    reader,     \* reader[w], the throttledReader of w's upload: bucket, last, what it sleeps for
    \* History, read by properties only.
    from,       \* the observer counts from here
    passed,     \* passed[k], tokens of the requests let in since
    passedAt,   \* passedAt[k], when the last one was let in
    sent,       \* sent[w], bytes read since
    granted     \* what the readers of w started with: the one of then, and those since

limiter == <<level, last, passed, passedAt>>
upload  == <<reader, sent, granted>>
vars    == <<now, from, limiter, upload>>

\* An unknown key gets a full bucket, which is what a full one is after any time.
Init ==
    /\ now = 0 /\ from \in Starts
    /\ level = [k \in Routes |-> Burst] /\ last = [k \in Routes |-> 0]
    /\ reader = [w \in Passes |-> [bucket |-> Rate, last |-> 0, asleep |-> 0]]
    /\ passed = [k \in Routes |-> 0] /\ passedAt = [k \in Routes |-> 0]
    /\ sent = [w \in Passes |-> 0] /\ granted = [w \in Passes |-> Rate]

Tick ==
    /\ now' = now + 1
    /\ UNCHANGED <<from, limiter, upload>>

\* x if the observer counts already.
Counted(x) == IF now >= from THEN x ELSE 0

-------------------------------------------------------------------------------
Refilled_Uncapped(bucket, since, full) == bucket + (now - since)

Refilled(bucket, since, full) ==
    IF bucket + (now - since) > full THEN full ELSE bucket + (now - since)

-------------------------------------------------------------------------------
(* allow, called by rateLimit, under rl.mu.                                  *)

Tokens(k) == Refilled(level[k], last[k], Burst)

LetIn_Free(k) ==
    /\ Tokens(k) >= Cost
    /\ level' = [level EXCEPT ![k] = Tokens(k)]
    /\ last' = [last EXCEPT ![k] = now]
    /\ passed' = [passed EXCEPT ![k] = @ + Counted(Cost)]
    /\ passedAt' = [passedAt EXCEPT ![k] = now]
    /\ UNCHANGED <<now, from, upload>>

LetIn(k) ==
    /\ Tokens(k) >= Cost
    /\ level' = [level EXCEPT ![k] = Tokens(k) - Cost]
    /\ last' = [last EXCEPT ![k] = now]
    /\ passed' = [passed EXCEPT ![k] = @ + Counted(Cost)]
    /\ passedAt' = [passedAt EXCEPT ![k] = now]
    /\ UNCHANGED <<now, from, upload>>

\* The refusal takes nothing, but the bucket is refilled.
Refuse_Charged(k) ==
    /\ Tokens(k) < Cost
    /\ level' = [level EXCEPT ![k] = 0]
    /\ last' = [last EXCEPT ![k] = now]
    /\ UNCHANGED <<now, from, passed, passedAt, upload>>

Refuse(k) ==
    /\ Tokens(k) < Cost
    /\ level' = [level EXCEPT ![k] = Tokens(k)]
    /\ last' = [last EXCEPT ![k] = now]
    /\ UNCHANGED <<now, from, passed, passedAt, upload>>

-------------------------------------------------------------------------------
(* throttledReader, over a ciphertext in memory: reading it takes no time.   *)

Has(w, bucket, asleep) ==
    reader' = [reader EXCEPT ![w] = [bucket |-> bucket, last |-> now, asleep |-> asleep]]

\* doUpload makes one for each file, with a full bucket, where there is a limit.
NewReader(w) ==
    /\ reader[w].asleep = 0
    /\ Has(w, Rate, 0)
    /\ granted' = [granted EXCEPT ![w] = @ + Counted(Rate)]
    /\ UNCHANGED <<now, from, limiter, sent>>

Bucket(w) == Refilled(reader[w].bucket, reader[w].last, Rate)

\* n bytes are read of a bucket that holds b.
Reads(w, b, n) ==
    /\ Has(w, b - n, 0)
    /\ sent' = [sent EXCEPT ![w] = @ + Counted(n)]
    /\ UNCHANGED <<now, from, limiter, granted>>

ReadNow(w, want) ==
    /\ reader[w].asleep = 0 /\ Bucket(w) >= want
    /\ \E n \in 0..want : Reads(w, Bucket(w), n)

FallAsleep(w, want) ==
    /\ reader[w].asleep = 0 /\ Bucket(w) < want
    /\ Has(w, Bucket(w), want)
    /\ UNCHANGED <<now, from, limiter, sent, granted>>

Slept(w) == now - reader[w].last >= reader[w].asleep - reader[w].bucket

ReadAwake_Full(w) ==
    /\ reader[w].asleep > 0 /\ Slept(w)
    /\ \E n \in 0..reader[w].asleep : Reads(w, Rate, n)

\* Also if the sleep was longer than asked for, the bucket holds what was wanted.
ReadAwake(w) ==
    /\ reader[w].asleep > 0 /\ Slept(w)
    /\ \E n \in 0..reader[w].asleep : Reads(w, reader[w].asleep, n)

Upload(w) ==
    \/ NewReader(w) \/ ReadAwake(w)
    \/ \E want \in 1..Chunk : ReadNow(w, want) \/ FallAsleep(w, want)

-------------------------------------------------------------------------------
Next ==
    \/ Tick
    \/ \E k \in Routes : LetIn(k) \/ Refuse(k)
    \/ \E w \in Passes : Upload(w)

Spec == Init /\ [][Next]_vars

-------------------------------------------------------------------------------
TypeOK ==
    /\ now \in Nat /\ from \in Nat
    /\ level \in [Routes -> 0..Burst]
    /\ last \in [Routes -> Nat] /\ \A k \in Routes : last[k] <= now
    /\ reader \in [Passes -> [bucket : 0..Rate, last : Nat, asleep : 0..Chunk]]
    /\ \A w \in Passes : reader[w].last <= now
    /\ passed \in [Routes -> Nat] /\ passedAt \in [Routes -> Nat]
    /\ sent \in [Passes -> Nat] /\ granted \in [Passes -> Nat]

Observed == IF now >= from THEN now - from ELSE 0

\* However requests are timed, in any stretch of time a route lets in no more than the
\* burst and what the stretch earns (middleware.go:111-115: it slows brute force).
GuessesAreSlow == \A k \in Routes : passed[k] <= Burst + Observed

\* A refused request holds nobody up: who comes one token's time after the last request
\* that was let in is let in, however many were refused in between (middleware.go:143-149).
NeverShutOut == [][\A k \in Routes : Refuse(k) => now < passedAt[k] + Cost]_vars

\* In any stretch of time the uploads of a pass take no more than the limit allows and
\* one second's worth for each that began in it (throttle.go:25-51, engine.go:395).
UploadsAreSlow == \A w \in Passes : sent[w] <= granted[w] + Observed
===============================================================================
