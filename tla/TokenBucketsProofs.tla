-------------------------- MODULE TokenBucketsProofs --------------------------
(* The bounds of the two token buckets, for any sizes, routes and times.     *)
EXTENDS TokenBuckets, TLAPS

\* What the observer has counted of route k, and what the bucket still holds; and that
\* the bucket has earned all since the last request it let in, unless it is full enough.
RouteInv(k) ==
    /\ IF last[k] < from THEN passed[k] = 0
       ELSE passed[k] + level[k] <= Burst + (last[k] - from)
    /\ passedAt[k] <= last[k]
    /\ level[k] >= Cost \/ level[k] >= last[k] - passedAt[k]

\* The same of the uploads of w.
UploadInv(w) ==
    /\ IF reader[w].last < from THEN sent[w] = 0
       ELSE sent[w] + reader[w].bucket <= granted[w] + (reader[w].last - from)
    /\ granted[w] >= Rate

Inv == TypeOK /\ (\A k \in Routes : RouteInv(k)) /\ (\A w \in Passes : UploadInv(w))

LEMMA RefilledFacts ==
    ASSUME NEW full \in Nat, NEW bucket \in 0..full, NEW since \in Nat, now \in Nat, since <= now
    PROVE  /\ Refilled(bucket, since, full) \in 0..full
           /\ Refilled(bucket, since, full) >= bucket
           /\ Refilled(bucket, since, full) <= bucket + (now - since)
           /\ \/ Refilled(bucket, since, full) = full
              \/ Refilled(bucket, since, full) = bucket + (now - since)
BY DEF Refilled

LEMMA InvInit == Init => Inv
BY SizesAssumption DEF Init, Inv, TypeOK, RouteInv, UploadInv

\* A step of the limiter at k: the bucket is refilled and pays for what is let in.
LEMMA RouteStep ==
    ASSUME Inv, NEW k \in Routes, NEW pays \in {0, Cost},
           level' = [level EXCEPT ![k] = Tokens(k) - pays], Tokens(k) >= pays,
           last' = [last EXCEPT ![k] = now],
           passed' = [passed EXCEPT ![k] = @ + Counted(pays)],
           passedAt' = IF pays = 0 THEN passedAt ELSE [passedAt EXCEPT ![k] = now],
           UNCHANGED <<now, from, upload>>
    PROVE  Inv'
<1>1. /\ level \in [Routes -> 0..Burst] /\ last \in [Routes -> Nat] /\ last[k] <= now
      /\ passed \in [Routes -> Nat] /\ passedAt \in [Routes -> Nat] /\ now \in Nat /\ from \in Nat
      /\ Cost \in Nat \ {0} /\ Burst \in Nat /\ Cost <= Burst /\ RouteInv(k)
  BY SizesAssumption DEF Inv, TypeOK
<1>2. /\ Tokens(k) \in 0..Burst /\ Tokens(k) >= level[k]
      /\ Tokens(k) <= level[k] + (now - last[k])
      /\ Tokens(k) = Burst \/ Tokens(k) = level[k] + (now - last[k])
  BY <1>1, RefilledFacts DEF Tokens
<1>3. level'[k] = Tokens(k) - pays /\ level'[k] \in 0..Burst /\ level' \in [Routes -> 0..Burst]
  BY <1>1, <1>2
<1>4. last'[k] = now /\ last' \in [Routes -> Nat] /\ \A j \in Routes : last'[j] <= now'
  BY <1>1 DEF Inv, TypeOK
<1>5. passed'[k] = passed[k] + Counted(pays) /\ passed' \in [Routes -> Nat]
  BY <1>1 DEF Counted
<1>6. passedAt'[k] = (IF pays = 0 THEN passedAt[k] ELSE now) /\ passedAt' \in [Routes -> Nat]
  BY <1>1
<1>7. TypeOK'
  BY <1>3, <1>4, <1>5, <1>6 DEF Inv, TypeOK, upload
<1>8. RouteInv(k)'
  <2>1. from' = from
    OBVIOUS
  <2>2. IF last'[k] < from' THEN passed'[k] = 0
        ELSE passed'[k] + level'[k] <= Burst + (last'[k] - from')
    BY <1>1, <1>2, <1>3, <1>4, <1>5, <2>1 DEF RouteInv, Counted
  <2>3. passedAt'[k] <= last'[k]
    BY <1>1, <1>4, <1>6 DEF RouteInv
  <2>4. level'[k] >= Cost \/ level'[k] >= last'[k] - passedAt'[k]
    BY <1>1, <1>2, <1>3, <1>4, <1>6 DEF RouteInv
  <2> QED
    BY <2>2, <2>3, <2>4 DEF RouteInv
<1>9. ASSUME NEW j \in Routes, j # k PROVE RouteInv(j)'
  <2>1. /\ level'[j] = level[j] /\ last'[j] = last[j] /\ passed'[j] = passed[j]
        /\ passedAt'[j] = passedAt[j] /\ from' = from
    BY <1>1, <1>9
  <2> QED
    BY <2>1 DEF RouteInv, Inv
<1>10. \A w \in Passes : UploadInv(w)'
  BY DEF UploadInv, Inv, upload
<1> QED
  BY <1>7, <1>8, <1>9, <1>10 DEF Inv

\* A step of w's upload: the bucket takes the time that has passed, and either all of
\* it and n bytes are accounted for or a new reader is.
LEMMA ReaderStep ==
    ASSUME Inv, NEW w \in Passes, NEW b \in 0..Rate, NEW asleep \in 0..Chunk,
           NEW n \in Nat, NEW g \in {0, Rate},
           b + n <= Rate, b + n <= reader[w].bucket + (now - reader[w].last) + g,
           reader' = [reader EXCEPT ![w] = [bucket |-> b, last |-> now, asleep |-> asleep]],
           sent' = [sent EXCEPT ![w] = @ + Counted(n)],
           granted' = [granted EXCEPT ![w] = @ + Counted(g)],
           UNCHANGED <<now, from, limiter>>
    PROVE  Inv'
<1>1. /\ reader \in [Passes -> [bucket : 0..Rate, last : Nat, asleep : 0..Chunk]]
      /\ reader[w].last <= now /\ reader[w].last \in Nat /\ reader[w].bucket \in 0..Rate
      /\ sent \in [Passes -> Nat] /\ granted \in [Passes -> Nat] /\ now \in Nat /\ from \in Nat
      /\ Rate \in Nat /\ Chunk \in Nat /\ UploadInv(w)
  BY SizesAssumption DEF Inv, TypeOK
<1>2. reader'[w].bucket = b /\ reader'[w].last = now
  BY <1>1
<1>3. /\ reader' \in [Passes -> [bucket : 0..Rate, last : Nat, asleep : 0..Chunk]]
      /\ \A v \in Passes : reader'[v].last <= now'
  BY <1>1 DEF Inv, TypeOK
<1>4. /\ sent'[w] = sent[w] + Counted(n) /\ sent' \in [Passes -> Nat]
      /\ granted'[w] = granted[w] + Counted(g) /\ granted' \in [Passes -> Nat]
  BY <1>1 DEF Counted
<1>5. TypeOK'
  BY <1>3, <1>4 DEF Inv, TypeOK, limiter
<1>6. UploadInv(w)'
  BY <1>1, <1>2, <1>4 DEF UploadInv, Counted
<1>7. ASSUME NEW v \in Passes, v # w PROVE UploadInv(v)'
  <2>1. reader'[v] = reader[v] /\ sent'[v] = sent[v] /\ granted'[v] = granted[v] /\ from' = from
    BY <1>1, <1>7
  <2> QED
    BY <2>1 DEF UploadInv, Inv
<1>8. \A k \in Routes : RouteInv(k)'
  BY DEF RouteInv, Inv, limiter
<1> QED
  BY <1>5, <1>6, <1>7, <1>8 DEF Inv

\* The two ways to read.
LEMMA ReadStep ==
    ASSUME Inv, NEW w \in Passes, NEW b \in Int, NEW n \in Nat, b - n \in 0..Rate,
           b <= Rate, b <= reader[w].bucket + (now - reader[w].last),
           Reads(w, b, n)
    PROVE  Inv'
<1>1. /\ reader[w].bucket \in Nat /\ reader[w].last \in Nat /\ now \in Nat
      /\ granted \in [Passes -> Nat] /\ Chunk \in Nat
  BY SizesAssumption DEF Inv, TypeOK
<1>2. /\ 0 \in 0..Chunk /\ 0 \in {0, Rate} /\ b - n + n <= Rate
      /\ b - n + n <= reader[w].bucket + (now - reader[w].last) + 0
  BY <1>1
<1>3. /\ reader' = [reader EXCEPT ![w] = [bucket |-> b - n, last |-> now, asleep |-> 0]]
      /\ sent' = [sent EXCEPT ![w] = @ + Counted(n)]
      /\ granted' = granted /\ UNCHANGED <<now, from, limiter>>
  BY DEF Reads, Has
<1>4. granted' = [granted EXCEPT ![w] = @ + Counted(0)]
  BY <1>1, <1>3 DEF Counted
<1> QED
  BY <1>2, <1>3, <1>4, ReaderStep

LEMMA InvStep == Inv /\ [Next]_vars => Inv'
<1> SUFFICES ASSUME Inv, [Next]_vars PROVE Inv'
  OBVIOUS
<1>1. CASE Tick
  BY <1>1 DEF Tick, Inv, TypeOK, RouteInv, UploadInv, limiter, upload
<1>2. CASE UNCHANGED vars
  BY <1>2 DEF vars, Inv, TypeOK, RouteInv, UploadInv, limiter, upload
<1>3. ASSUME NEW k \in Routes, LetIn(k) PROVE Inv'
  <2>1. passedAt' = IF Cost = 0 THEN passedAt ELSE [passedAt EXCEPT ![k] = now]
    BY <1>3, SizesAssumption DEF LetIn
  <2> QED
    BY <1>3, <2>1, RouteStep DEF LetIn
<1>4. ASSUME NEW k \in Routes, Refuse(k) PROVE Inv'
  <2>1. Tokens(k) \in Nat /\ passed \in [Routes -> Nat]
    BY RefilledFacts, SizesAssumption DEF Inv, TypeOK, Tokens
  <2>2. passed' = [passed EXCEPT ![k] = @ + Counted(0)]
    BY <1>4, <2>1 DEF Refuse, Counted
  <2>3. Tokens(k) - 0 = Tokens(k) /\ Tokens(k) >= 0
    BY <2>1
  <2>4. level' = [level EXCEPT ![k] = Tokens(k) - 0]
    BY <1>4, <2>3 DEF Refuse
  <2> QED
    BY <1>4, <2>2, <2>3, <2>4, RouteStep DEF Refuse
<1>5. ASSUME NEW w \in Passes, Upload(w) PROVE Inv'
  <2>1. /\ reader[w].bucket \in 0..Rate /\ reader[w].last \in Nat /\ reader[w].last <= now
        /\ reader[w].asleep \in 0..Chunk /\ now \in Nat
        /\ sent \in [Passes -> Nat] /\ granted \in [Passes -> Nat]
        /\ Rate \in Nat /\ Chunk \in Nat /\ Chunk <= Rate
    BY SizesAssumption DEF Inv, TypeOK
  <2>2. Bucket(w) \in 0..Rate /\ Bucket(w) <= reader[w].bucket + (now - reader[w].last)
    BY <2>1, RefilledFacts DEF Bucket
  <2>3. sent = [sent EXCEPT ![w] = @ + Counted(0)] /\ granted = [granted EXCEPT ![w] = @ + Counted(0)]
    BY <2>1 DEF Counted
  <2>4. CASE NewReader(w)
    <3>1. /\ Rate \in 0..Rate /\ 0 \in 0..Chunk /\ 0 \in Nat /\ Rate \in {0, Rate} /\ Rate + 0 <= Rate
          /\ Rate + 0 <= reader[w].bucket + (now - reader[w].last) + Rate
      BY <2>1
    <3>2. /\ reader' = [reader EXCEPT ![w] = [bucket |-> Rate, last |-> now, asleep |-> 0]]
          /\ granted' = [granted EXCEPT ![w] = @ + Counted(Rate)]
          /\ sent' = sent /\ UNCHANGED <<now, from, limiter>>
      BY <2>4 DEF NewReader, Has
    <3>3. sent' = [sent EXCEPT ![w] = @ + Counted(0)]
      BY <2>3, <3>2
    <3> QED
      BY <3>1, <3>2, <3>3, ReaderStep
  <2>5. ASSUME NEW want \in 1..Chunk, ReadNow(w, want) PROVE Inv'
    <3>1. PICK n \in 0..want : Reads(w, Bucket(w), n)
      BY <2>5 DEF ReadNow
    <3>2. Bucket(w) - n \in 0..Rate /\ n \in Nat /\ Bucket(w) - n + n = Bucket(w)
      BY <2>1, <2>2, <2>5 DEF ReadNow
    <3> QED
      BY <2>1, <2>2, <3>1, <3>2, ReadStep
  <2>6. ASSUME NEW want \in 1..Chunk, FallAsleep(w, want) PROVE Inv'
    <3>1. /\ want \in 0..Chunk /\ 0 \in Nat /\ 0 \in {0, Rate} /\ Bucket(w) + 0 <= Rate
          /\ Bucket(w) + 0 <= reader[w].bucket + (now - reader[w].last) + 0
      BY <2>1, <2>2
    <3>2. /\ reader' = [reader EXCEPT ![w] = [bucket |-> Bucket(w), last |-> now, asleep |-> want]]
          /\ sent' = sent /\ granted' = granted /\ UNCHANGED <<now, from, limiter>>
      BY <2>6 DEF FallAsleep, Has
    <3>3. /\ sent' = [sent EXCEPT ![w] = @ + Counted(0)]
          /\ granted' = [granted EXCEPT ![w] = @ + Counted(0)]
      BY <2>3, <3>2
    <3> QED
      BY <2>2, <3>1, <3>2, <3>3, ReaderStep
  <2>7. CASE ReadAwake(w)
    <3> DEFINE a == reader[w].asleep
    <3>1. PICK n \in 0..a : Reads(w, a, n)
      BY <2>7 DEF ReadAwake
    <3>2. /\ a - n \in 0..Rate /\ n \in Nat /\ a \in Int /\ a <= Rate
          /\ a <= reader[w].bucket + (now - reader[w].last)
      BY <2>1, <2>7 DEF ReadAwake, Slept
    <3> QED
      BY <2>1, <3>1, <3>2, ReadStep
  <2> QED
    BY <1>5, <2>4, <2>5, <2>6, <2>7 DEF Upload
<1> QED
  BY <1>1, <1>2, <1>3, <1>4, <1>5 DEF Next

LEMMA InvAlways == Spec => []Inv
BY InvInit, InvStep, PTL DEF Spec

-------------------------------------------------------------------------------
\* No bucket is overdrawn or holds more than it may.
THEOREM BucketTypes == Spec => []TypeOK
BY InvAlways, PTL DEF Inv

\* No timing of the requests gets more of them in than the burst and the rate allow.
THEOREM GuessesAreAlwaysSlow == Spec => []GuessesAreSlow
<1>1. Inv => GuessesAreSlow
  <2> SUFFICES ASSUME Inv, NEW k \in Routes PROVE passed[k] <= Burst + Observed
    BY DEF GuessesAreSlow
  <2>1. /\ level[k] \in 0..Burst /\ last[k] \in Nat /\ last[k] <= now /\ passed[k] \in Nat
        /\ now \in Nat /\ from \in Nat /\ Burst \in Nat /\ RouteInv(k)
    BY SizesAssumption DEF Inv, TypeOK
  <2> QED
    BY <2>1 DEF RouteInv, Observed
<1> QED
  BY <1>1, InvAlways, PTL

\* Refusals delay nobody.
THEOREM NobodyIsShutOut == Spec => NeverShutOut
<1>1. Inv => \A k \in Routes : Refuse(k) => now < passedAt[k] + Cost
  <2> SUFFICES ASSUME Inv, NEW k \in Routes, Refuse(k) PROVE now < passedAt[k] + Cost
    OBVIOUS
  <2>1. /\ level[k] \in 0..Burst /\ last[k] \in Nat /\ last[k] <= now /\ passedAt[k] \in Nat
        /\ now \in Nat /\ Burst \in Nat /\ Cost \in Nat /\ Cost <= Burst /\ RouteInv(k)
    BY SizesAssumption DEF Inv, TypeOK
  <2>2. /\ Tokens(k) >= level[k] /\ Tokens(k) \in 0..Burst /\ Tokens(k) < Cost
        /\ Tokens(k) = Burst \/ Tokens(k) = level[k] + (now - last[k])
    BY <2>1, RefilledFacts DEF Refuse, Tokens
  <2> QED
    BY <2>1, <2>2 DEF RouteInv
<1>2. Inv /\ [Next]_vars => [\A k \in Routes : Refuse(k) => now < passedAt[k] + Cost]_vars
  BY <1>1
<1> QED
  BY <1>2, InvAlways, PTL DEF Spec, NeverShutOut

\* The uploads of a pass keep to the limit, but for a second's worth each.
THEOREM UploadsAreAlwaysSlow == Spec => []UploadsAreSlow
<1>1. Inv => UploadsAreSlow
  <2> SUFFICES ASSUME Inv, NEW w \in Passes PROVE sent[w] <= granted[w] + Observed
    BY DEF UploadsAreSlow
  <2>1. /\ reader[w].bucket \in 0..Rate /\ reader[w].last \in Nat /\ reader[w].last <= now
        /\ sent[w] \in Nat /\ granted[w] \in Nat /\ now \in Nat /\ from \in Nat /\ Rate \in Nat
        /\ UploadInv(w)
    BY SizesAssumption DEF Inv, TypeOK
  <2> QED
    BY <2>1 DEF UploadInv, Observed
<1> QED
  BY <1>1, InvAlways, PTL
===============================================================================
