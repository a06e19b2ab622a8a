-------------------------- MODULE FolderConfigProofs --------------------------
(***************************************************************************)
(* What the runs of FolderConfig check, for any folders and any number of  *)
(* requests and changes.                                                   *)
(***************************************************************************)
EXTENDS FolderConfig, FiniteSetTheorems, FunctionTheorems, SequenceTheorems, TLAPS

Busy(h) == req[h].pc # "idle"

\* Who may hold what, whoever saves and however they overlap.
Holders ==
    /\ engine # "none" => up
    /\ pass # NoPass => engine = "on"
    /\ pass.i = 0 => pass.seen = {}
    /\ \A h \in Requests : Busy(h) => up
    /\ \A h \in Requests : req[h].pc = "marshal" =>
           req[h].hdr.arr \in DOMAIN heap /\ req[h].hdr.len <= Len(heap[req[h].hdr.arr])

\* A removal holds the lock: nobody else moves the slice, and what it has
\* passed over is the removed folder or in a slot it has filled.
Compacting ==
    \A h \in Requests : req[h].pc = "compact" =>
        /\ \A g \in Requests : req[g].pc = "compact" => g = h
        /\ req[h].hdr = srv
        /\ req[h].folder \in removed
        /\ req[h].i \in 1..(srv.len + 1)
        /\ req[h].n < req[h].i
        /\ \A k \in 1..(req[h].i - 1) :
               \/ heap[srv.arr][k] = req[h].folder
               \/ \E m \in 1..req[h].n : heap[srv.arr][m] = heap[srv.arr][k]

\* As long as no two rewritings overlap, the one under way has the file to
\* itself and is about to write what the server has.
OneWriter ==
    /\ \A g, h \in Requests : Busy(g) /\ Busy(h) => g = h
    /\ \A h \in Requests : Busy(h) => cmd.pc = "idle"
    /\ \A h \in Requests : req[h].pc = "write" => file = Empty
    /\ cmd.pc = "write" => file = Empty
    /\ \A h \in Requests : req[h].pc = "marshal" => req[h].hdr = srv
    /\ \A h \in Requests : req[h].pc \in {"truncate", "write"} =>
           req[h].out = [bucket |-> srv.bucket, folders |-> View(srv)]
    /\ up /\ srv.bucket => engine # "none"

\* The folders with something to lose: stored, or about to be.
AtStake ==
    ((stored \cup pass.seen \cup IF engine = "none" THEN {} ELSE Elements(heap[1]))
        \cap Folders) \ removed

\* No copy of the list that could replace another lacks one of them.
NothingForgotten ==
    /\ engine # "none" => AtStake \subseteq Elements(heap[1]) \cap Elements(View(srv))
    /\ file # Garbled /\ file.bucket /\ (\A h \in Requests : ~Busy(h)) =>
           AtStake \subseteq Elements(file.folders)
    /\ cmd.pc # "idle" /\ cmd.out.bucket => AtStake \subseteq Elements(cmd.out.folders)
    /\ cmd.pc = "truncate" =>
           /\ file # Garbled
           /\ cmd.out.bucket = file.bucket
           /\ Elements(file.folders) \ removed \subseteq Elements(cmd.out.folders)

\* What the walk has passed it has seen, or it had nothing stored.
Walked ==
    ~raced => \A k \in 1..(pass.i - 1) :
                  k \in DOMAIN heap[1] => heap[1][k] \in pass.seen \cup removed \/ heap[1][k] \notin stored

IInv ==
    /\ Holders
    /\ Compacting
    /\ ~clobbered => OneWriter /\ NothingForgotten /\ (engine = "on" => Walked)

-------------------------------------------------------------------------------
(* Lists.                                                                   *)

\* Rank counts the kept positions from 1 without a gap, so the list that is
\* left has each kept element and nothing else.
LEMMA WithoutFilters ==
    ASSUME NEW S, NEW s \in Seq(S), NEW f
    PROVE  Without(s, f) \in Seq(S) /\ Elements(Without(s, f)) = Elements(s) \ {f}
<1> DEFINE K == Others(s, f)
           n == Cardinality(K)
           upTo(i) == {k \in K : k <= i}
           rank == [i \in K |-> Rank(s, f, i)]
<1>1. Len(s) \in Nat /\ DOMAIN s = 1..Len(s) /\ s \in [1..Len(s) -> S]
      OBVIOUS
<1>2. K \subseteq 1..Len(s) /\ K \subseteq Int
      BY <1>1 DEF Others
<1>3. IsFiniteSet(K) /\ n \in Nat
  <2>1. IsFiniteSet(1..Len(s))
        BY <1>1, FS_Interval
  <2>2. IsFiniteSet(K)
    <3> HIDE DEF K
    <3> QED  BY <1>2, <2>1, FS_Subset
  <2> QED  BY <2>2, FS_CardinalityType
<1>4. \A i \in K : IsFiniteSet(upTo(i)) /\ rank[i] = Cardinality(upTo(i)) /\ rank[i] \in 1..n
  <2> TAKE i \in K
  <2>1. upTo(i) \subseteq K /\ i \in upTo(i)
        BY <1>2
  <2>2. IsFiniteSet(upTo(i)) /\ Cardinality(upTo(i)) \in Nat /\ Cardinality(upTo(i)) <= n
        BY <1>3, <2>1, FS_Subset, FS_CardinalityType
  <2>3. Cardinality(upTo(i)) # 0
        BY <2>1, <2>2, FS_EmptySet
  <2> QED  BY <2>2, <2>3, <1>3 DEF Rank
<1>5. rank \in [K -> 1..n] /\ \A i \in K : rank[i] = Rank(s, f, i)
      BY <1>4
<1> HIDE DEF K, n, rank
<1>6. \A i, j \in K : i < j => rank[i] < rank[j]
  <2> SUFFICES ASSUME NEW i \in K, NEW j \in K, i < j  PROVE rank[i] < rank[j]
      OBVIOUS
  <2>1. upTo(i) \subseteq upTo(j) /\ j \in upTo(j) /\ j \notin upTo(i)
    <3>1. i \in Int /\ j \in Int
          BY <1>2
    <3>2. \A k \in K : k <= i => k <= j
          BY <1>2, <3>1
    <3>3. upTo(i) \subseteq upTo(j)
          BY <3>2
    <3>4. j \in upTo(j) /\ j \notin upTo(i)
          BY <3>1
    <3> QED  BY <3>3, <3>4
  <2>2. /\ IsFiniteSet(upTo(i)) /\ rank[i] = Cardinality(upTo(i))
        /\ IsFiniteSet(upTo(j)) /\ rank[j] = Cardinality(upTo(j))
        BY <1>4
  <2> HIDE DEF upTo
  <2>3. Cardinality(upTo(i)) <= Cardinality(upTo(j)) /\ Cardinality(upTo(i)) # Cardinality(upTo(j))
        BY <2>1, <2>2, FS_Subset
  <2>4. rank[i] \in Nat /\ rank[j] \in Nat
        BY <1>3, <1>5
  <2> QED  BY <2>2, <2>3, <2>4
<1>7. rank \in Injection(K, 1..n)
  <2>1. \A i, j \in K : rank[i] = rank[j] => i = j
    <3> SUFFICES ASSUME NEW i \in K, NEW j \in K, rank[i] = rank[j]  PROVE i = j
        OBVIOUS
    <3>1. i \in Int /\ j \in Int /\ rank[i] \in Int
          BY <1>1, <1>2, <1>3, <1>5
    <3> QED  BY <1>6, <3>1
  <2> QED  BY <1>5, <2>1, Fun_IsInj
<1>8. \A j \in 1..n : \E i \in K : rank[i] = j
  <2>1. IsFiniteSet(1..n) /\ Cardinality(1..n) = n
        BY <1>3, FS_Interval
  <2>2. Cardinality(K) = n
        BY DEF n
  <2>3. rank \in Surjection(K, 1..n)
        BY <1>7, <2>1, <2>2, FS_Injection
  <2> QED  BY <2>3, Fun_SurjectionProperties
<1> DEFINE pos(j) == CHOOSE i \in K : Rank(s, f, i) = j
<1>9. \A j \in 1..n : pos(j) \in K /\ rank[pos(j)] = j
  <2> TAKE j \in 1..n
  <2>1. \E i \in K : Rank(s, f, i) = j
        BY <1>5, <1>8
  <2>2. pos(j) \in K /\ Rank(s, f, pos(j)) = j
        BY <2>1
  <2> QED  BY <1>5, <2>2
<1>10. Without(s, f) = [j \in 1..n |-> s[pos(j)]]
      BY DEF Without, K, n
<1>11. \A j \in 1..n : s[pos(j)] \in S
       BY <1>1, <1>2, <1>9
<1>12. Without(s, f) \in Seq(S)
  <2> HIDE DEF pos
  <2> QED  BY <1>3, <1>10, <1>11, SeqDef
<1>13. \A x : x \in Elements(Without(s, f)) <=> x \in Elements(s) \ {f}
  <2>1. ASSUME NEW x \in Elements(Without(s, f))  PROVE x \in Elements(s) \ {f}
    <3>1. PICK j \in 1..n : x = s[pos(j)]
          BY <1>10, <2>1 DEF Elements
    <3> QED  BY <1>9, <3>1 DEF Elements, Others, K
  <2>2. ASSUME NEW x \in Elements(s) \ {f}  PROVE x \in Elements(Without(s, f))
    <3>1. PICK i \in K : x = s[i]
          BY <2>2 DEF Elements, Others, K
    <3>2. rank[i] \in 1..n
          BY <1>5
    <3>3. pos(rank[i]) = i
          BY <1>7, <1>9, <3>2, Fun_InjectionProperties
    <3> HIDE DEF pos
    <3> QED  BY <1>10, <3>1, <3>2, <3>3 DEF Elements
  <2> QED  BY <2>1, <2>2
<1> QED  BY <1>12, <1>13

\* A longer array has the elements of the shorter one where they were.
LEMMA GrownExtends ==
    ASSUME NEW s \in Seq(Slots), NEW f \in Slots
    PROVE  /\ Grown(s, f) \in Seq(Slots)
           /\ Len(Grown(s, f)) > Len(s)
           /\ \A i \in 1..Len(s) : Grown(s, f)[i] = s[i]
           /\ Grown(s, f)[Len(s) + 1] = f
<1> DEFINE n == IF s = <<>> THEN 1 ELSE 2 * Len(s)
           e(i) == IF i <= Len(s) THEN s[i] ELSE IF i = Len(s) + 1 THEN f ELSE None
<1>1. Len(s) \in Nat /\ n \in Nat /\ n > Len(s)
      BY EmptySeq
<1>2. \A i \in 1..n : e(i) \in Slots
      BY <1>1 DEF Slots
<1>3. Grown(s, f) = [i \in 1..n |-> e(i)]
      BY DEF Grown
<1> HIDE DEF n
<1>4. Grown(s, f) \in [1..n -> Slots]
      BY <1>2, <1>3
<1>5. Grown(s, f) \in Seq(Slots) /\ Len(Grown(s, f)) = n
      BY <1>1, <1>4, SeqDef
<1> QED  BY <1>1, <1>3, <1>5

\* What a header denotes are the slots up to its length.
LEMMA ViewSlots ==
    ASSUME NEW a \in Seq(Slots), NEW k \in 0..Len(a)
    PROVE  /\ SubSeq(a, 1, k) \in Seq(Slots)
           /\ Elements(SubSeq(a, 1, k)) = {a[j] : j \in 1..k}
<1>1. \A i \in 1..k : a[i] \in Slots
      OBVIOUS
<1>2. /\ SubSeq(a, 1, k) \in Seq(Slots)
      /\ Len(SubSeq(a, 1, k)) = k
      /\ \A i \in 1..k : SubSeq(a, 1, k)[i] = a[i]
      BY <1>1, SubSeqProperties
<1> QED  BY <1>2 DEF Elements

\* Writing one slot moves nothing else.
LEMMA SlotWritten ==
    ASSUME heap \in Seq(Seq(Slots)),
           NEW a \in DOMAIN heap, NEW k \in DOMAIN heap[a], NEW v \in Slots,
           heap' = [heap EXCEPT ![a][k] = v]
    PROVE  /\ heap' \in Seq(Seq(Slots))
           /\ DOMAIN heap' = DOMAIN heap
           /\ \A b \in DOMAIN heap : Len(heap'[b]) = Len(heap[b]) /\ DOMAIN heap'[b] = DOMAIN heap[b]
           /\ \A b \in DOMAIN heap \ {a} : heap'[b] = heap[b]
           /\ heap'[a][k] = v
           /\ \A j \in DOMAIN heap[a] \ {k} : heap'[a][j] = heap[a][j]
<1>1. heap[a] \in Seq(Slots) /\ a \in 1..Len(heap) /\ k \in 1..Len(heap[a])
      OBVIOUS
<1> DEFINE s2 == [heap[a] EXCEPT ![k] = v]
<1>2. s2 \in Seq(Slots) /\ Len(s2) = Len(heap[a])
      BY <1>1, ExceptSeq
<1>3. heap' = [heap EXCEPT ![a] = s2]
      OBVIOUS
<1>4. DOMAIN s2 = DOMAIN heap[a] /\ s2[k] = v /\ \A j \in DOMAIN heap[a] \ {k} : s2[j] = heap[a][j]
      BY <1>1
<1> HIDE DEF s2
<1>5. heap' \in Seq(Seq(Slots))
      BY <1>1, <1>2, <1>3, ExceptSeq
<1>6. DOMAIN heap' = DOMAIN heap /\ heap'[a] = s2 /\ \A b \in DOMAIN heap \ {a} : heap'[b] = heap[b]
      BY <1>3
<1> QED  BY <1>2, <1>4, <1>5, <1>6

-------------------------------------------------------------------------------
(* Types, and who holds what.                                               *)

Structure == TypeOK /\ Holders /\ Compacting

LEMMA ViewType ==
    ASSUME TypeOK, NEW h, h.arr \in DOMAIN heap, h.len \in 0..Len(heap[h.arr])
    PROVE  /\ View(h) \in Seq(Slots)
           /\ Elements(View(h)) = {heap[h.arr][j] : j \in 1..h.len}
<1>1. heap[h.arr] \in Seq(Slots) /\ h.arr # 0
      BY DEF TypeOK, Slots
<1>2. View(h) = SubSeq(heap[h.arr], 1, h.len)
      BY <1>1 DEF View
<1> QED  BY <1>1, <1>2, ViewSlots

ReqRec == [pc : {"idle", "compact", "marshal", "truncate", "write"},
           hdr : Header, folder : Slots, i : Nat, n : Nat, out : Config]

LEMMA Constants ==
    /\ Empty \in Config /\ NoHeader \in Header
    /\ Idle.pc = "idle"
    /\ Idle \in ReqRec
    /\ NoCmd \in [pc : {"idle", "truncate", "write"}, out : Config]
    /\ NoPass \in [i : Nat, seen : SUBSET Slots]
<1>1. <<>> \in Seq(Slots)
      BY EmptySeq
<1>2. Empty \in Config
      BY <1>1 DEF Empty, Config, Slots
<1> QED  BY <1>2 DEF NoHeader, Header, Idle, NoCmd, NoPass, Slots, ReqRec

LEMMA Changed ==
    ASSUME TypeOK, NEW b \in BOOLEAN, Change(b)
    PROVE  /\ changes' \in 0..MaxChanges
           /\ clobbered' \in BOOLEAN
           /\ ~clobbered' => /\ ~clobbered /\ ~b
                             /\ cmd.pc = "idle" /\ \A h \in Requests : ~Busy(h)
<1>1. changes' \in 0..MaxChanges
      BY BoundIsANumber DEF TypeOK, Change
<1>2. clobbered' \in BOOLEAN
      BY DEF TypeOK, Change
<1>3. ~clobbered' => ~clobbered /\ ~b /\ ~Saving
      BY DEF TypeOK, Change
<1> QED  BY <1>1, <1>2, <1>3 DEF Saving, Busy

LEMMA TypesAtFirst == Init => TypeOK
<1> SUFFICES ASSUME Init  PROVE TypeOK
    OBVIOUS
<1>1. PICK s \in Lists : file = [bucket |-> TRUE, folders |-> s] /\ stored = Elements(s)
      BY DEF Init
<1>2. s \in Seq(Folders)
      BY SeqDef DEF Lists
<1>3. s \in Seq(Slots) /\ Elements(s) \subseteq Folders
      BY <1>2, SeqMonotonic DEF Elements, Slots
<1>4. file \in Config
      BY <1>1, <1>3 DEF Config, Slots
<1>5. heap = <<>> /\ heap \in Seq(Seq(Slots))
      BY EmptySeq DEF Init
<1>6. req \in [Requests -> ReqRec]
      BY Constants DEF Init
<1>7. changes \in 0..MaxChanges
      BY BoundIsANumber DEF Init
<1> QED  BY <1>1, <1>3, <1>4, <1>5, <1>6, <1>7, Constants DEF Init, TypeOK, ReqRec

LEMMA PassedOver ==
    ASSUME req \in [Requests -> ReqRec], NEW h \in Requests,
           req' = [req EXCEPT ![h].i = @ + 1]
    PROVE  /\ req' \in [Requests -> ReqRec]
           /\ req'[h].i = req[h].i + 1 /\ req'[h].n = req[h].n
           /\ \A g \in Requests : req'[g].pc = req[g].pc /\ req'[g].hdr = req[g].hdr
                                 /\ req'[g].folder = req[g].folder /\ req'[g].out = req[g].out
           /\ \A g \in Requests \ {h} : req'[g] = req[g]
<1>1. req[h] \in ReqRec /\ req[h].i + 1 \in Nat /\ req[h].n + 1 \in Nat
      BY DEF ReqRec
<1>2. req'[h] = [req[h] EXCEPT !.i = @ + 1] /\ \A g \in Requests \ {h} : req'[g] = req[g]
      OBVIOUS
<1>3. \A r \in ReqRec, k, m \in Nat : [r EXCEPT !.i = k] \in ReqRec /\ [r EXCEPT !.i = k, !.n = m] \in ReqRec
      BY DEF ReqRec
<1>4. req'[h] \in ReqRec
      BY <1>1, <1>2, <1>3
<1>5. req' \in [Requests -> ReqRec]
      BY <1>2, <1>4
<1>6. /\ req'[h].i = req[h].i + 1 /\ req'[h].n = req[h].n
      /\ req'[h].pc = req[h].pc /\ req'[h].hdr = req[h].hdr
      /\ req'[h].folder = req[h].folder /\ req'[h].out = req[h].out
      BY <1>1, <1>2 DEF ReqRec
<1> QED  BY <1>2, <1>5, <1>6

LEMMA KeptOne ==
    ASSUME req \in [Requests -> ReqRec], NEW h \in Requests,
           req' = [req EXCEPT ![h].i = @ + 1, ![h].n = @ + 1]
    PROVE  /\ req' \in [Requests -> ReqRec]
           /\ req'[h].i = req[h].i + 1 /\ req'[h].n = req[h].n + 1
           /\ \A g \in Requests : req'[g].pc = req[g].pc /\ req'[g].hdr = req[g].hdr
                                 /\ req'[g].folder = req[g].folder /\ req'[g].out = req[g].out
           /\ \A g \in Requests \ {h} : req'[g] = req[g]
<1>1. req[h] \in ReqRec /\ req[h].i + 1 \in Nat /\ req[h].n + 1 \in Nat
      BY DEF ReqRec
<1>2. req'[h] = [req[h] EXCEPT !.i = @ + 1, !.n = @ + 1] /\ \A g \in Requests \ {h} : req'[g] = req[g]
      OBVIOUS
<1>3. \A r \in ReqRec, k, m \in Nat : [r EXCEPT !.i = k] \in ReqRec /\ [r EXCEPT !.i = k, !.n = m] \in ReqRec
      BY DEF ReqRec
<1>4. req'[h] \in ReqRec
      BY <1>1, <1>2, <1>3
<1>5. req' \in [Requests -> ReqRec]
      BY <1>2, <1>4
<1>6. /\ req'[h].i = req[h].i + 1 /\ req'[h].n = req[h].n + 1
      /\ req'[h].pc = req[h].pc /\ req'[h].hdr = req[h].hdr
      /\ req'[h].folder = req[h].folder /\ req'[h].out = req[h].out
      BY <1>1, <1>2 DEF ReqRec
<1> QED  BY <1>2, <1>5, <1>6

\* What a removal under way knows.
LEMMA WhileCompacting ==
    ASSUME Structure, NEW h \in Requests, req[h].pc = "compact"
    PROVE  /\ up /\ req[h].hdr = srv /\ srv \in Header
           /\ srv.arr \in DOMAIN heap /\ heap[srv.arr] \in Seq(Slots)
           /\ srv.len \in 0..Len(heap[srv.arr])
           /\ req[h].folder \in removed
           /\ req[h].i \in 1..(srv.len + 1) /\ req[h].n \in 0..(req[h].i - 1)
<1>1. up /\ req[h].n \in Nat
      BY DEF Structure, TypeOK, Holders, Busy
<1>2. srv \in Header /\ srv.arr \in DOMAIN heap /\ srv.len <= Len(heap[srv.arr]) /\ heap[srv.arr] \in Seq(Slots)
      BY <1>1 DEF Structure, TypeOK
<1>3. srv.len \in 0..Len(heap[srv.arr])
      BY <1>2 DEF Header
<1>4. req[h].hdr = srv /\ req[h].folder \in removed /\ req[h].i \in 1..(srv.len + 1) /\ req[h].n < req[h].i
      BY DEF Structure, Compacting
<1>5. req[h].n \in 0..(req[h].i - 1)
      BY <1>1, <1>3, <1>4
<1> QED  BY <1>1, <1>2, <1>3, <1>4, <1>5

LEMMA SlotsCompacted ==
    ASSUME Structure, NEW h \in Requests, Compact(h)
    PROVE  /\ req[h].pc = "compact" /\ req[h].hdr = srv /\ srv.arr \in DOMAIN heap
           /\ heap \in Seq(Seq(Slots)) /\ heap[srv.arr] \in Seq(Slots)
           /\ req[h].n \in Nat /\ req[h].i \in Nat /\ req[h].n < req[h].i /\ req[h].i <= srv.len
           /\ req[h].i \in DOMAIN heap[srv.arr] /\ req[h].n + 1 \in DOMAIN heap[srv.arr]
           /\ heap[srv.arr][req[h].i] \in Slots
<1> DEFINE r == req[h]
<1>1. r.pc = "compact" /\ r.i <= r.hdr.len /\ heap \in Seq(Seq(Slots))
      BY DEF Structure, TypeOK, Compact
<1>2. /\ r.hdr = srv /\ srv.arr \in DOMAIN heap /\ heap[srv.arr] \in Seq(Slots)
      /\ srv.len \in 0..Len(heap[srv.arr])
      /\ r.i \in 1..(srv.len + 1) /\ r.n \in 0..(r.i - 1)
      BY <1>1, WhileCompacting
<1>3. r.i <= srv.len
      BY <1>1, <1>2
<1> HIDE DEF r
<1>4. r.i \in 1..Len(heap[srv.arr]) /\ r.n + 1 \in 1..r.i /\ r.n \in Nat /\ r.i \in Nat /\ r.n < r.i
      BY <1>2, <1>3
<1>5. r.i \in DOMAIN heap[srv.arr] /\ r.n + 1 \in DOMAIN heap[srv.arr] /\ heap[srv.arr][r.i] \in Slots
      BY <1>2, <1>4
<1> QED  BY <1>1, <1>2, <1>3, <1>4, <1>5 DEF r

LEMMA TypesNext == Structure /\ [Next]_vars => TypeOK'
<1> SUFFICES ASSUME Structure, [Next]_vars  PROVE TypeOK'
    OBVIOUS
<1>1. CASE Start
  <2>1. file \in Config /\ file.folders \in Seq(Slots) /\ file.bucket \in BOOLEAN
        BY <1>1 DEF Structure, TypeOK, ReqRec, Start, Config, Slots
  <2>2. heap' = <<file.folders>> /\ heap' \in Seq(Seq(Slots)) /\ heap'[1] = file.folders /\ 1 \in DOMAIN heap'
        BY <1>1, <2>1 DEF Structure, TypeOK, ReqRec, Start
  <2>3. srv' \in Header /\ srv'.arr = 1 /\ srv'.len = Len(file.folders) /\ Len(file.folders) \in Nat
        BY <1>1, <2>1 DEF Structure, TypeOK, ReqRec, Start, Header
  <2> QED  BY <1>1, Constants, <2>1, <2>2, <2>3 DEF Structure, TypeOK, ReqRec, Start, history
<1>2. CASE Unlock
      BY <1>2, Constants DEF Structure, TypeOK, ReqRec, Unlock, history
<1>3. CASE Stop
      BY <1>3, Constants, EmptySeq DEF Structure, TypeOK, ReqRec, Stop
<1>4. ASSUME NEW h \in Requests, NEW f \in Folders, FoldersAdd(h, f)  PROVE TypeOK'
  <2>1. /\ up /\ srv \in Header /\ srv.arr \in DOMAIN heap /\ srv.arr \in Nat
        /\ srv.len \in 0..Len(heap[srv.arr]) /\ srv.len \in Nat /\ srv.len + 1 \in Nat
        /\ heap[srv.arr] \in Seq(Slots) /\ Len(heap) + 1 \in Nat /\ heap \in Seq(Seq(Slots))
    <3>1. up
          BY <1>4 DEF FoldersAdd
    <3>2. /\ srv \in Header /\ srv.arr \in DOMAIN heap /\ srv.len <= Len(heap[srv.arr])
          /\ heap \in Seq(Seq(Slots))
          BY <3>1 DEF Structure, TypeOK
    <3>3. heap[srv.arr] \in Seq(Slots) /\ srv.len \in Nat /\ srv.arr \in Nat
          BY <3>2 DEF Header
    <3> QED  BY <3>1, <3>2, <3>3
  <2>2. changes' \in 0..MaxChanges /\ clobbered' \in BOOLEAN
        BY <1>4, Changed DEF Structure, TypeOK, ReqRec, FoldersAdd
  <2>3. f \in Slots
        BY DEF Slots
  <2>4. /\ heap' \in Seq(Seq(Slots)) /\ srv' \in Header
        /\ srv'.arr \in DOMAIN heap' /\ srv'.len <= Len(heap'[srv'.arr])
    <3>1. CASE srv.len < Len(heap[srv.arr])
      <4>1. heap' = [heap EXCEPT ![srv.arr][srv.len + 1] = f] /\ srv' = [srv EXCEPT !.len = @ + 1]
            BY <1>4, <3>1 DEF FoldersAdd
      <4>2. srv.len + 1 \in DOMAIN heap[srv.arr]
            BY <2>1, <3>1
      <4>3. srv' \in Header /\ srv'.arr = srv.arr /\ srv'.len = srv.len + 1
            BY <2>1, <4>1 DEF Header
      <4>4. heap' \in Seq(Seq(Slots)) /\ DOMAIN heap' = DOMAIN heap /\ Len(heap'[srv.arr]) = Len(heap[srv.arr])
            BY <2>1, <2>3, <4>1, <4>2, SlotWritten
      <4> QED  BY <2>1, <3>1, <4>3, <4>4
    <3>2. CASE ~(srv.len < Len(heap[srv.arr]))
      <4>1. /\ heap' = Append(heap, Grown(heap[srv.arr], f))
            /\ srv' = [srv EXCEPT !.arr = Len(heap) + 1, !.len = @ + 1]
            BY <1>4, <3>2 DEF FoldersAdd
      <4>2. /\ Grown(heap[srv.arr], f) \in Seq(Slots)
            /\ Len(Grown(heap[srv.arr], f)) > Len(heap[srv.arr])
            BY <2>1, <2>3, GrownExtends
      <4>3. heap' \in Seq(Seq(Slots)) /\ Len(heap') = Len(heap) + 1 /\ heap'[Len(heap) + 1] = Grown(heap[srv.arr], f)
            BY <2>1, <4>1, <4>2, AppendProperties
      <4>4. srv' \in Header /\ srv'.arr = Len(heap) + 1 /\ srv'.len = srv.len + 1
            BY <2>1, <4>1 DEF Header
      <4>5. srv.len + 1 <= Len(Grown(heap[srv.arr], f)) /\ Len(heap) + 1 \in DOMAIN heap'
        <5>1. Len(heap) + 1 \in 1..Len(heap') /\ DOMAIN heap' = 1..Len(heap')
              BY <2>1, <4>3
        <5>2. srv.len + 1 <= Len(Grown(heap[srv.arr], f))
              BY <2>1, <3>2, <4>2
        <5> QED  BY <5>1, <5>2
      <4>6. heap'[srv'.arr] = Grown(heap[srv.arr], f) /\ srv'.arr \in DOMAIN heap'
            BY <4>3, <4>4, <4>5
      <4> QED  BY <4>3, <4>4, <4>5, <4>6
    <3> QED  BY <3>1, <3>2
  <2> QED  BY <1>4, Constants, <2>2, <2>4 DEF Structure, TypeOK, ReqRec, FoldersAdd, Save, ToSave
<1>5. ASSUME NEW h \in Requests, NEW f \in Folders, FoldersRemove(h, f)  PROVE TypeOK'
  <2>1. changes' \in 0..MaxChanges /\ clobbered' \in BOOLEAN
        BY <1>5, Changed DEF Structure, TypeOK, ReqRec, FoldersRemove
  <2>2. f \in Slots
        BY DEF Slots
  <2> QED  BY <1>5, Constants, <2>1, <2>2 DEF Structure, TypeOK, ReqRec, FoldersRemove
<1>6. ASSUME NEW h \in Requests, Compact(h)  PROVE TypeOK'
  <2> DEFINE r == req[h]
  <2>1. r.hdr = srv /\ srv.arr \in DOMAIN heap
        BY <1>6, SlotsCompacted
  <2>3. CASE heap[srv.arr][r.i] = r.folder
    <3>1. req' = [req EXCEPT ![h].i = @ + 1] /\ UNCHANGED <<heap, raced>>
          BY <1>6, <2>1, <2>3 DEF Compact
    <3>2. req' \in [Requests -> ReqRec]
          BY <2>1, <3>1, PassedOver, KeptOne DEF Structure, TypeOK, ReqRec
    <3> QED  BY <1>6, <3>1, <3>2 DEF Structure, TypeOK, ReqRec, Compact
  <2>4. CASE heap[srv.arr][r.i] # r.folder
    <3>1. /\ heap' = [heap EXCEPT ![srv.arr][r.n + 1] = heap[srv.arr][r.i]]
          /\ req' = [req EXCEPT ![h].i = @ + 1, ![h].n = @ + 1]
          /\ raced' = (raced \/ (pass.i > 0 /\ heap'[1] # heap[1]))
          BY <1>6, <2>1, <2>4 DEF Compact, Kept
    <3>2. /\ heap' \in Seq(Seq(Slots)) /\ DOMAIN heap' = DOMAIN heap
          /\ Len(heap'[srv.arr]) = Len(heap[srv.arr])
          BY <1>6, <3>1, SlotsCompacted, SlotWritten
    <3>3. req' \in [Requests -> ReqRec]
          BY <2>1, <3>1, PassedOver, KeptOne DEF Structure, TypeOK, ReqRec
    <3>4. raced' \in BOOLEAN
          BY <3>1 DEF Structure, TypeOK
    <3>5. /\ UNCHANGED <<file, up, engine, srv, cmd, pass, stored, removed, clobbered, changes>>
          /\ up' => srv'.arr \in DOMAIN heap' /\ srv'.len <= Len(heap'[srv'.arr])
          BY <1>6, <3>2 DEF Structure, TypeOK, ReqRec, Compact
    <3> QED  BY <3>2, <3>3, <3>4, <3>5 DEF Structure, TypeOK, ReqRec
  <2> QED  BY <2>3, <2>4
<1>7. ASSUME NEW h \in Requests, Compacted(h)  PROVE TypeOK'
  <2>1. req[h].pc = "compact" /\ srv' = [srv EXCEPT !.len = req[h].n]
        BY <1>7 DEF Compacted
  <2>2. req[h].n \in Nat /\ req[h].n <= Len(heap[srv.arr]) /\ srv.arr \in DOMAIN heap /\ srv \in Header
        BY <2>1, WhileCompacting
  <2>3. srv' \in Header /\ srv'.arr = srv.arr /\ srv'.len = req[h].n
        BY <2>1, <2>2 DEF Header
  <2>4. srv'.arr \in DOMAIN heap /\ srv'.len <= Len(heap[srv'.arr])
        BY <2>2, <2>3
  <2> QED  BY <1>7, Constants, <2>3, <2>4 DEF Structure, TypeOK, ReqRec, Compacted, Save, ToSave, history
<1>8. ASSUME NEW h \in Requests, NEW b \in BOOLEAN, SettingsPut(h, b)  PROVE TypeOK'
  <2>1. changes' \in 0..MaxChanges /\ clobbered' \in BOOLEAN
    <3>1. TypeOK /\ (b /\ ~srv.bucket) \in BOOLEAN /\ Change(b /\ ~srv.bucket)
          BY <1>8 DEF Structure, TypeOK, ReqRec, SettingsPut, Header
    <3> QED  BY <3>1, Changed
  <2>2. srv' \in Header /\ srv'.arr = srv.arr /\ srv'.len = srv.len
        BY <1>8 DEF Structure, TypeOK, ReqRec, SettingsPut, Header
  <2> QED  BY <1>8, Constants, <2>1, <2>2 DEF Structure, TypeOK, ReqRec, SettingsPut, Save, ToSave
<1>9. ASSUME NEW h \in Requests, Marshal(h)  PROVE TypeOK'
  <2>1. req[h].hdr \in Header /\ req[h].hdr.arr \in DOMAIN heap /\ req[h].hdr.len <= Len(heap[req[h].hdr.arr])
        BY <1>9 DEF Structure, TypeOK, ReqRec, Marshal, Holders
  <2>2. View(req[h].hdr) \in Seq(Slots)
        BY <2>1, ViewType DEF Structure, Header
  <2>3. [bucket |-> req[h].hdr.bucket, folders |-> View(req[h].hdr)] \in Config
        BY <2>1, <2>2 DEF Config, Header, Slots
  <2> QED  BY <1>9, Constants, <2>3 DEF Structure, TypeOK, ReqRec, Marshal, history
<1>10. ASSUME NEW h \in Requests, Truncate(h)  PROVE TypeOK'
      BY <1>10, Constants DEF Structure, TypeOK, ReqRec, Truncate, history
<1>11. ASSUME NEW h \in Requests, Write(h)  PROVE TypeOK'
  <2>1. file' \in Config \cup {Garbled}
        BY <1>11 DEF Structure, TypeOK, ReqRec, Write, Written
  <2> QED  BY <1>11, Constants, <2>1 DEF Structure, TypeOK, ReqRec, Write, history
<1>12. ASSUME NEW f \in Folders, CliAdd(f) \/ CliRemove(f)  PROVE TypeOK'
  <2>1. file \in Config /\ file.folders \in Seq(Slots) /\ file.bucket \in BOOLEAN /\ f \in Slots
        BY <1>12 DEF Structure, TypeOK, ReqRec, CliAdd, CliRemove, Loads, Config, Slots
  <2>2. Append(file.folders, f) \in Seq(Slots) /\ Without(file.folders, f) \in Seq(Slots)
        BY <2>1, AppendProperties, WithoutFilters
  <2>3. /\ [file EXCEPT !.folders = Append(@, f)] \in Config
        /\ [file EXCEPT !.folders = Without(@, f)] \in Config
        BY <2>1, <2>2 DEF Config, Slots
  <2>4. changes' \in 0..MaxChanges /\ clobbered' \in BOOLEAN
        BY <1>12, Changed DEF Structure, TypeOK, ReqRec, CliAdd, CliRemove
  <2>5. cmd' \in [pc : {"idle", "truncate", "write"}, out : Config]
    <3>1. CASE CliAdd(f)
          BY <2>3, <3>1 DEF CliAdd, Command
    <3>2. CASE CliRemove(f)
          BY <2>3, <3>2 DEF CliRemove, Command
    <3> QED  BY <1>12, <3>1, <3>2
  <2>6. removed' \subseteq Folders
        BY <1>12 DEF Structure, TypeOK, ReqRec, CliAdd, CliRemove
  <2>7. UNCHANGED <<file, up, engine, heap, srv, req, pass, stored, raced>>
        BY <1>12 DEF CliAdd, CliRemove, Command, memory
  <2> QED  BY <2>4, <2>5, <2>6, <2>7 DEF Structure, TypeOK
<1>13. ASSUME NEW b \in BOOLEAN, CliInit(b)  PROVE TypeOK'
  <2>1. [file EXCEPT !.bucket = b] \in Config
        BY <1>13 DEF Structure, TypeOK, ReqRec, CliInit, Loads, Config
  <2>2. changes' \in 0..MaxChanges /\ clobbered' \in BOOLEAN
        BY <1>13, Changed DEF Structure, TypeOK, ReqRec, CliInit, Loads, Config
  <2> QED  BY <1>13, Constants, <2>1, <2>2 DEF Structure, TypeOK, ReqRec, CliInit, Command, memory
<1>14. CASE CliSave
  <2>1. file' \in Config \cup {Garbled}
    <3>1. CASE cmd.pc = "truncate"
          BY <1>14, <3>1, Constants DEF CliSave
    <3>2. CASE cmd.pc = "write"
          BY <1>14, <3>2, Constants DEF Structure, TypeOK, ReqRec, CliSave, Written
    <3> QED  BY <1>14, <3>1, <3>2 DEF CliSave
  <2>2. cmd' \in [pc : {"idle", "truncate", "write"}, out : Config]
    <3>1. CASE cmd.pc = "truncate"
          BY <1>14, <3>1 DEF Structure, TypeOK, ReqRec, CliSave
    <3>2. CASE cmd.pc = "write"
          BY <1>14, <3>2, Constants DEF CliSave
    <3> QED  BY <1>14, <3>1, <3>2 DEF CliSave
  <2> QED  BY <1>14, Constants, <2>1, <2>2 DEF Structure, TypeOK, ReqRec, CliSave, memory, history
<1>15. CASE CliKilled
      BY <1>15, Constants DEF Structure, TypeOK, ReqRec, CliKilled, memory, history
<1>16. CASE BeginPass
      BY <1>16, Constants DEF Structure, TypeOK, ReqRec, BeginPass, memory
<1>17. CASE WalkFolder
  <2>1. 1 \in DOMAIN heap /\ heap[1][pass.i] \in Slots
    <3>1. up /\ srv.arr \in 1..Len(heap)
          BY <1>17 DEF Structure, TypeOK, ReqRec, WalkFolder, Holders, NoPass
    <3>2. 1 \in DOMAIN heap
          BY <3>1
    <3> QED  BY <1>17, Constants, <3>2 DEF Structure, TypeOK, ReqRec, WalkFolder
  <2> QED  BY <1>17, Constants, <2>1 DEF Structure, TypeOK, ReqRec, WalkFolder, memory, history
<1>18. CASE EndPass
      BY <1>18, Constants DEF Structure, TypeOK, ReqRec, EndPass, memory, history
<1>19. CASE UNCHANGED vars
      BY <1>19, Constants DEF Structure, TypeOK, ReqRec, vars, memory, history
<1> QED  BY <1>1, <1>2, <1>3, <1>4, <1>5, <1>6, <1>7, <1>8, <1>9, <1>10, <1>11, <1>12, <1>13,
            <1>14, <1>15, <1>16, <1>17, <1>18, <1>19 DEF Next, Handler, Cli, Pass

LEMMA HoldersNext == Structure /\ [Next]_vars => Holders'
<1> SUFFICES ASSUME Structure, [Next]_vars  PROVE Holders'
    OBVIOUS
<1>0. TypeOK /\ Holders
      BY DEF Structure
<1>1. CASE Start
  <2>1. \A h \in Requests : ~Busy(h)
        BY <1>0, <1>1 DEF Start, Holders
  <2> QED  BY <1>0, <1>1, <2>1 DEF Start, Holders, Configured, Busy, NoPass
<1>2. CASE Unlock
      BY <1>0, <1>2 DEF Unlock, Holders, Busy
<1>3. CASE Stop
      BY <1>3, Constants DEF Stop, Holders, Busy, NoPass
<1>4. ASSUME NEW h \in Requests, NEW f \in Folders, FoldersAdd(h, f)  PROVE Holders'
  <2>1. /\ up /\ srv \in Header /\ srv.arr \in DOMAIN heap /\ heap[srv.arr] \in Seq(Slots) /\ f \in Slots
        /\ heap \in Seq(Seq(Slots)) /\ srv.len \in 0..Len(heap[srv.arr])
        BY <1>0, <1>4 DEF TypeOK, FoldersAdd, Header, Slots
  <2>2. srv'.bucket = srv.bucket /\ UNCHANGED <<up, engine, pass>>
        BY <1>4, <2>1 DEF FoldersAdd, Header
  <2>3. \A a \in DOMAIN heap : a \in DOMAIN heap' /\ Len(heap'[a]) = Len(heap[a])
    <3>1. CASE srv.len < Len(heap[srv.arr])
      <4>1. heap' = [heap EXCEPT ![srv.arr][srv.len + 1] = f]
            BY <1>4, <3>1 DEF FoldersAdd
      <4>2. srv.len + 1 \in DOMAIN heap[srv.arr]
            BY <2>1, <3>1
      <4> QED  BY <2>1, <4>1, <4>2, SlotWritten
    <3>2. CASE ~(srv.len < Len(heap[srv.arr]))
      <4>1. heap' = Append(heap, Grown(heap[srv.arr], f)) /\ Grown(heap[srv.arr], f) \in Seq(Slots)
            BY <1>4, <2>1, <3>2, GrownExtends DEF FoldersAdd
      <4> QED  BY <2>1, <4>1, AppendProperties
    <3> QED  BY <3>1, <3>2
  <2>4. req' = [req EXCEPT ![h] = [Idle EXCEPT !.pc = "marshal", !.hdr = srv']]
        BY <1>4 DEF FoldersAdd, Save, ToSave
  <2>5. srv'.arr \in DOMAIN heap' /\ srv'.len <= Len(heap'[srv'.arr])
        BY <1>0, <2>1, <2>2, TypesNext DEF TypeOK, Structure
  <2>6. \A g \in Requests \ {h} : req'[g] = req[g]
        BY <1>0, <2>4 DEF TypeOK
  <2>7. req'[h].pc = "marshal" /\ req'[h].hdr = srv'
        BY <1>0, <2>4 DEF TypeOK, Idle
  <2> QED  BY <1>0, <2>1, <2>2, <2>3, <2>5, <2>6, <2>7 DEF Holders, Busy
<1>5. ASSUME NEW h \in Requests, NEW f \in Folders, FoldersRemove(h, f)  PROVE Holders'
      BY <1>0, <1>5 DEF TypeOK, FoldersRemove, Holders, Busy, Idle
<1>6. ASSUME NEW h \in Requests, Compact(h)  PROVE Holders'
  <2>1. /\ req[h].hdr = srv /\ srv.arr \in DOMAIN heap /\ heap[srv.arr] \in Seq(Slots) /\ heap \in Seq(Seq(Slots))
        /\ req[h].i \in DOMAIN heap[srv.arr] /\ req[h].n + 1 \in DOMAIN heap[srv.arr]
        /\ heap[srv.arr][req[h].i] \in Slots
        BY <1>0, <1>6, SlotsCompacted
  <2>2. \A a \in DOMAIN heap : a \in DOMAIN heap' /\ Len(heap'[a]) = Len(heap[a])
    <3>1. CASE UNCHANGED heap
          BY <3>1
    <3>2. CASE heap' = [heap EXCEPT ![srv.arr][req[h].n + 1] = heap[srv.arr][req[h].i]]
          BY <2>1, <3>2, SlotWritten
    <3> QED  BY <1>6, <2>1, <3>1, <3>2 DEF Compact, Kept
  <2>3. \A g \in Requests : req'[g].pc = req[g].pc /\ req'[g].hdr = req[g].hdr
    <3>1. \/ req' = [req EXCEPT ![h].i = @ + 1]
          \/ req' = [req EXCEPT ![h].i = @ + 1, ![h].n = @ + 1]
          BY <1>6 DEF Compact
    <3> QED  BY <1>0, <3>1, PassedOver, KeptOne DEF TypeOK, ReqRec
  <2>4. Holders /\ UNCHANGED <<up, engine, pass>>
        BY <1>0, <1>6 DEF Compact
  <2>5. \A g \in Requests : Busy(g)' => Busy(g)
        BY <2>3 DEF Busy
  <2> QED  BY <2>2, <2>3, <2>4, <2>5 DEF Holders
<1>7. ASSUME NEW h \in Requests, Compacted(h)  PROVE Holders'
  <2>1. req[h].pc = "compact" /\ srv' = [srv EXCEPT !.len = req[h].n]
        BY <1>7 DEF Compacted
  <2>2. srv'.bucket = srv.bucket /\ UNCHANGED <<up, engine, heap, pass>>
        BY <1>0, <1>7, <2>1 DEF TypeOK, Compacted, Header, history
  <2>3. up /\ srv'.arr \in DOMAIN heap /\ srv'.len <= Len(heap[srv'.arr])
        BY <2>1, <2>2, WhileCompacting, TypesNext DEF Structure, TypeOK
  <2>4. req' = [req EXCEPT ![h] = [Idle EXCEPT !.pc = "marshal", !.hdr = srv']]
        BY <1>7 DEF Compacted, Save, ToSave
  <2>5. \A g \in Requests \ {h} : req'[g] = req[g]
        BY <1>0, <2>4 DEF TypeOK
  <2>6. req'[h].pc = "marshal" /\ req'[h].hdr = srv'
        BY <1>0, <2>4 DEF TypeOK, Idle
  <2> QED  BY <1>0, <2>2, <2>3, <2>5, <2>6 DEF Holders, Busy
<1>8. ASSUME NEW h \in Requests, NEW b \in BOOLEAN, SettingsPut(h, b)  PROVE Holders'
  <2>1. srv'.arr = srv.arr /\ srv'.len = srv.len
        BY <1>0, <1>8 DEF TypeOK, SettingsPut, Header
  <2>2. req' = [req EXCEPT ![h] = [Idle EXCEPT !.pc = "marshal", !.hdr = srv']]
        BY <1>8 DEF SettingsPut, Save, ToSave
  <2>3. \A g \in Requests \ {h} : req'[g] = req[g]
        BY <1>0, <2>2 DEF TypeOK
  <2>4. req'[h].pc = "marshal" /\ req'[h].hdr = srv'
        BY <1>0, <2>2 DEF TypeOK, Idle
  <2>5. up /\ UNCHANGED <<up, engine, heap, pass>> /\ srv.arr \in DOMAIN heap /\ srv.len <= Len(heap[srv.arr])
        BY <1>0, <1>8 DEF TypeOK, SettingsPut
  <2> QED  BY <1>0, <2>1, <2>3, <2>4, <2>5 DEF Holders, Busy
<1>9. ASSUME NEW h \in Requests, Marshal(h) \/ Truncate(h) \/ Write(h)  PROVE Holders'
  <2>1. UNCHANGED <<up, engine, heap, srv, pass>>
        BY <1>9 DEF Marshal, Truncate, Write, history
  <2>2. Busy(h) /\ req'[h].pc # "marshal" /\ \A g \in Requests \ {h} : req'[g] = req[g]
    <3>1. CASE Marshal(h)
          BY <1>0, <3>1 DEF TypeOK, Marshal, Busy, Idle
    <3>2. CASE Truncate(h)
          BY <1>0, <3>2 DEF TypeOK, Truncate, Busy
    <3>3. CASE Write(h)
          BY <1>0, <3>3 DEF TypeOK, Write, Busy, Idle
    <3> QED  BY <1>9, <3>1, <3>2, <3>3
  <2> QED  BY <1>0, <2>1, <2>2 DEF Holders, Busy
<1>10. CASE Cli
  <2>1. UNCHANGED <<up, engine, heap, srv, req, pass>>
        BY <1>10 DEF Cli, CliAdd, CliRemove, CliInit, CliSave, CliKilled, Command, memory
  <2> QED  BY <1>0, <2>1 DEF Holders, Busy
<1>11. CASE Pass
  <2>1. UNCHANGED <<up, engine, heap, srv, req>>
        BY <1>11 DEF Pass, BeginPass, WalkFolder, EndPass, memory
  <2>2. (pass' # NoPass => engine = "on") /\ (pass'.i = 0 => pass'.seen = {})
    <3>1. CASE BeginPass
          BY <3>1 DEF BeginPass
    <3>2. CASE WalkFolder
          BY <1>0, <3>2 DEF TypeOK, WalkFolder, Holders, NoPass
    <3>3. CASE EndPass
          BY <3>3 DEF EndPass, NoPass
    <3> QED  BY <1>11, <3>1, <3>2, <3>3 DEF Pass
  <2> QED  BY <1>0, <2>1, <2>2 DEF Holders, Busy
<1>12. CASE UNCHANGED vars
      BY <1>0, <1>12 DEF vars, memory, history, Holders, Busy
<1> QED  BY <1>1, <1>2, <1>3, <1>4, <1>5, <1>6, <1>7, <1>8, <1>9, <1>10, <1>11, <1>12 DEF Next, Handler

\* One step of a removal, told by its effect on the array it compacts: a slot
\* it has passed over is written, and what that slot held is the removed
\* folder, or in a slot filled before, or stays.
LEMMA CompactStep ==
    ASSUME Structure, NEW h \in Requests, Compact(h)
    PROVE  LET r == req[h]
               a == heap[srv.arr]
           IN  /\ req'[h].i = r.i + 1 /\ req'[h].n \in Nat /\ req'[h].n <= r.n + 1
               /\ \A g \in Requests : /\ req'[g].pc = req[g].pc /\ req'[g].hdr = req[g].hdr
                                     /\ req'[g].folder = req[g].folder /\ req'[g].out = req[g].out
               /\ \A b \in DOMAIN heap \ {srv.arr} : heap'[b] = heap[b]
               /\ DOMAIN heap' = DOMAIN heap /\ \A b \in DOMAIN heap : DOMAIN heap'[b] = DOMAIN heap[b]
               /\ \A k \in DOMAIN a : k # r.n + 1 => heap'[srv.arr][k] = a[k]
               /\ \/ a[r.i] = r.folder /\ heap' = heap /\ req'[h].n = r.n
                  \/ a[r.i] # r.folder /\ heap'[srv.arr][r.n + 1] = a[r.i] /\ req'[h].n = r.n + 1
<1>0. /\ TypeOK /\ req \in [Requests -> ReqRec]
      /\ req[h].hdr = srv /\ srv.arr \in DOMAIN heap
      /\ heap \in Seq(Seq(Slots)) /\ req[h].n \in Nat
      /\ req[h].n + 1 \in DOMAIN heap[srv.arr] /\ heap[srv.arr][req[h].i] \in Slots
      BY SlotsCompacted DEF Structure, TypeOK, ReqRec
<1>1. CASE heap[srv.arr][req[h].i] = req[h].folder
  <2>1. req' = [req EXCEPT ![h].i = @ + 1] /\ heap' = heap
        BY <1>0, <1>1 DEF Compact
  <2>2. /\ req'[h].i = req[h].i + 1 /\ req'[h].n = req[h].n
        /\ \A g \in Requests : /\ req'[g].pc = req[g].pc /\ req'[g].hdr = req[g].hdr
                              /\ req'[g].folder = req[g].folder /\ req'[g].out = req[g].out
        BY <1>0, <2>1, PassedOver
  <2> QED  BY <1>0, <1>1, <2>1, <2>2
<1>2. CASE heap[srv.arr][req[h].i] # req[h].folder
  <2>1. /\ req' = [req EXCEPT ![h].i = @ + 1, ![h].n = @ + 1]
        /\ heap' = [heap EXCEPT ![srv.arr][req[h].n + 1] = heap[srv.arr][req[h].i]]
        BY <1>0, <1>2 DEF Compact, Kept
  <2>2. /\ req'[h].i = req[h].i + 1 /\ req'[h].n = req[h].n + 1
        /\ \A g \in Requests : /\ req'[g].pc = req[g].pc /\ req'[g].hdr = req[g].hdr
                              /\ req'[g].folder = req[g].folder /\ req'[g].out = req[g].out
        BY <1>0, <2>1, KeptOne
  <2>3. /\ \A b \in DOMAIN heap \ {srv.arr} : heap'[b] = heap[b]
        /\ DOMAIN heap' = DOMAIN heap /\ \A b \in DOMAIN heap : DOMAIN heap'[b] = DOMAIN heap[b]
        /\ \A k \in DOMAIN heap[srv.arr] : k # req[h].n + 1 => heap'[srv.arr][k] = heap[srv.arr][k]
        /\ heap'[srv.arr][req[h].n + 1] = heap[srv.arr][req[h].i]
        BY <1>0, <2>1, SlotWritten
  <2> QED  BY <1>0, <1>2, <2>2, <2>3
<1> QED  BY <1>1, <1>2

LEMMA CompactingNext == Structure /\ [Next]_vars => Compacting'
<1> SUFFICES ASSUME Structure, [Next]_vars  PROVE Compacting'
    OBVIOUS
<1>0. TypeOK /\ Compacting
      BY DEF Structure
<1>a. ASSUME \A g \in Requests : req'[g].pc # "compact"  PROVE Compacting'
      BY <1>a DEF Compacting
<1>b. ASSUME UNCHANGED <<heap, srv>>, removed \subseteq removed',
             \A g \in Requests : req'[g].pc = "compact" => req'[g] = req[g]
      PROVE  Compacting'
      BY <1>0, <1>b DEF Compacting
<1>1. CASE Start
  <2>1. \A h \in Requests : req'[h].pc = "idle"
        BY <1>1 DEF Structure, Holders, Busy, Start
  <2> QED  BY <1>a, <2>1
<1>2. CASE Unlock
      BY <1>b, <1>2 DEF Unlock, history
<1>3. CASE Stop
      BY <1>a, <1>3, Constants DEF Stop
<1>4. ASSUME NEW h \in Requests,
              (\E b \in BOOLEAN : SettingsPut(h, b)) \/ \E f \in Folders : FoldersAdd(h, f)
       PROVE  Compacting'
  <2>1. ~Locked /\ req' = [req EXCEPT ![h] = [Idle EXCEPT !.pc = "marshal", !.hdr = srv']]
        BY <1>4 DEF FoldersAdd, SettingsPut, Save, ToSave
  <2>2. \A g \in Requests : req'[g].pc # "compact"
        BY <1>0, <2>1 DEF Locked, Idle, TypeOK
  <2> QED  BY <1>a, <2>2
<1>5. ASSUME NEW h \in Requests, NEW f \in Folders, FoldersRemove(h, f)  PROVE Compacting'
  <2>1. /\ ~Locked /\ UNCHANGED <<heap, srv>> /\ f \in removed'
        /\ req' = [req EXCEPT ![h] = [Idle EXCEPT !.pc = "compact", !.hdr = srv, !.folder = f, !.i = 1]]
        BY <1>5 DEF FoldersRemove
  <2>2. \A g \in Requests : req'[g].pc = "compact" => g = h
        BY <1>0, <2>1 DEF Locked, TypeOK
  <2>3. req'[h].hdr = srv /\ req'[h].folder = f /\ req'[h].i = 1 /\ req'[h].n = 0
        BY <1>0, <2>1 DEF Idle, TypeOK
  <2>4. srv.len \in Nat
        BY <1>0 DEF TypeOK, Header
  <2> QED  BY <2>1, <2>2, <2>3, <2>4 DEF Compacting
<1>6. ASSUME NEW h \in Requests, Compact(h)  PROVE Compacting'
  <2> DEFINE r == req[h]
             a == heap[srv.arr]
             b == heap'[srv.arr]
  <2>1. /\ r.pc = "compact" /\ r.hdr = srv /\ r.folder \in removed
        /\ r.n \in Nat /\ r.i \in Nat /\ r.n < r.i /\ r.i <= srv.len /\ srv.len \in Nat
        /\ srv.arr \in DOMAIN heap /\ \A k \in 1..srv.len : k \in DOMAIN a
    <3>1. r.pc = "compact" /\ r.n \in Nat /\ r.i \in Nat /\ r.n < r.i /\ r.i <= srv.len
          BY <1>6, SlotsCompacted
    <3>2. /\ r.hdr = srv /\ r.folder \in removed /\ srv.arr \in DOMAIN heap
          /\ a \in Seq(Slots) /\ srv.len \in 0..Len(a)
          BY <3>1, WhileCompacting
    <3> HIDE DEF r, a
    <3> QED  BY <3>1, <3>2
  <2>2. UNCHANGED <<srv, removed>>
        BY <1>6 DEF Compact
  <2>3. /\ req'[h].i = r.i + 1 /\ req'[h].n \in Nat /\ req'[h].n <= r.n + 1
        /\ \A g \in Requests : req'[g].pc = req[g].pc /\ req'[g].hdr = req[g].hdr /\ req'[g].folder = req[g].folder
        /\ \A k \in DOMAIN a : k # r.n + 1 => b[k] = a[k]
        /\ \/ a[r.i] = r.folder /\ b = a /\ req'[h].n = r.n
           \/ a[r.i] # r.folder /\ b[r.n + 1] = a[r.i] /\ req'[h].n = r.n + 1
        BY <1>6, CompactStep
  <2>4. /\ \A g \in Requests : req[g].pc = "compact" => g = h
        /\ \A k \in 1..(r.i - 1) : a[k] = r.folder \/ \E m \in 1..r.n : a[m] = a[k]
        BY <1>0, <2>1 DEF Compacting
  <2>5. ASSUME NEW k \in 1..r.i  PROVE b[k] = r.folder \/ \E m \in 1..req'[h].n : b[m] = b[k]
    <3> HIDE DEF r, a, b
    <3>1. k \in DOMAIN a /\ r.i \in DOMAIN a /\ \A m \in 1..r.n : m \in DOMAIN a /\ m # r.n + 1
          BY <2>1
    <3>2. CASE a[r.i] = r.folder /\ b = a /\ req'[h].n = r.n
      <4>1. CASE k = r.i
            BY <3>2, <4>1
      <4>2. CASE k # r.i
        <5>1. k \in 1..(r.i - 1)
              BY <2>1, <4>2
        <5> QED  BY <2>4, <3>2, <5>1
      <4> QED  BY <4>1, <4>2
    <3>3. CASE b[r.n + 1] = a[r.i] /\ req'[h].n = r.n + 1
      <4>0. r.n + 1 \in 1..req'[h].n /\ \A m \in 1..r.n : m \in 1..req'[h].n
            BY <2>1, <3>3
      <4>1. CASE k = r.n + 1
            BY <4>0, <4>1
      <4>2. CASE k # r.n + 1 /\ k = r.i
        <5>1. b[k] = a[r.i]
              BY <2>3, <3>1, <4>2
        <5> QED  BY <3>3, <4>0, <5>1
      <4>3. CASE k # r.n + 1 /\ k # r.i
        <5>1. k \in 1..(r.i - 1) /\ b[k] = a[k]
              BY <2>1, <2>3, <3>1, <4>3
        <5>2. CASE a[k] = r.folder
              BY <5>1, <5>2
        <5>3. CASE \E m \in 1..r.n : a[m] = a[k]
          <6>1. PICK m \in 1..r.n : a[m] = a[k]
                BY <5>3
          <6>2. b[m] = a[m]
                BY <2>3, <3>1
          <6> QED  BY <4>0, <5>1, <6>1, <6>2
        <5> QED  BY <2>4, <5>1, <5>2, <5>3
      <4> QED  BY <4>1, <4>2, <4>3
    <3> QED  BY <2>3, <3>2, <3>3
  <2>6. req'[h].i \in 1..(srv.len + 1) /\ req'[h].n < req'[h].i /\ req'[h].i - 1 = r.i
    <3> HIDE DEF r, a, b
    <3> QED  BY <2>1, <2>3
  <2>7. /\ req'[h].hdr = srv' /\ req'[h].folder = r.folder /\ req'[h].folder \in removed'
        /\ \A g \in Requests : req'[g].pc = "compact" => g = h
        BY <2>1, <2>2, <2>3, <2>4
  <2>8. req'[h].i \in 1..(srv'.len + 1) /\ b = heap'[srv'.arr]
        BY <2>2, <2>6
  <2>9. \A k \in 1..(req'[h].i - 1) : b[k] = req'[h].folder \/ \E m \in 1..req'[h].n : b[m] = b[k]
        BY <2>5, <2>6, <2>7
  <2> HIDE DEF r, a, b
  <2> QED  BY <2>6, <2>7, <2>8, <2>9 DEF Compacting
<1>7. ASSUME NEW h \in Requests, Compacted(h)  PROVE Compacting'
  <2>1. req[h].pc = "compact" /\ req' = [req EXCEPT ![h] = [Idle EXCEPT !.pc = "marshal", !.hdr = srv']]
        BY <1>7 DEF Compacted, Save, ToSave
  <2>2. \A g \in Requests : req[g].pc = "compact" => g = h
        BY <1>0, <2>1 DEF Compacting
  <2>3. \A g \in Requests : req'[g].pc # "compact"
        BY <1>0, <2>1, <2>2 DEF Idle, TypeOK
  <2> QED  BY <1>a, <2>3
<1>8. ASSUME NEW h \in Requests, Marshal(h) \/ Truncate(h) \/ Write(h)  PROVE Compacting'
  <2>1. UNCHANGED <<heap, srv, removed>>
        BY <1>8 DEF Marshal, Truncate, Write, history
  <2>2. \A g \in Requests : req'[g].pc = "compact" => req'[g] = req[g]
    <3>1. CASE Marshal(h)
          BY <1>0, <3>1 DEF TypeOK, Marshal, Idle
    <3>2. CASE Truncate(h)
          BY <1>0, <3>2 DEF TypeOK, Truncate
    <3>3. CASE Write(h)
          BY <1>0, <3>3 DEF TypeOK, Write, Idle
    <3> QED  BY <1>8, <3>1, <3>2, <3>3
  <2> QED  BY <1>b, <2>1, <2>2
<1>9. CASE Cli
      BY <1>b, <1>9 DEF Cli, CliAdd, CliRemove, CliInit, CliSave, CliKilled, Command, memory, history
<1>10. CASE Pass
      BY <1>b, <1>10 DEF Pass, BeginPass, WalkFolder, EndPass, memory, history
<1>11. CASE UNCHANGED vars
      BY <1>b, <1>11 DEF vars, memory, history
<1> QED  BY <1>1, <1>2, <1>3, <1>4, <1>5, <1>6, <1>7, <1>8, <1>9, <1>10, <1>11 DEF Next, Handler

\* The structure is never left.
THEOREM Types == Spec => []TypeOK
<1>1. Init => Structure
  <2> SUFFICES ASSUME Init  PROVE Holders /\ Compacting
      BY TypesAtFirst DEF Structure
  <2>1. \A h \in Requests : req[h].pc = "idle"
        BY Constants DEF Init
  <2> QED  BY <2>1 DEF Init, Holders, Compacting, Busy, NoPass
<1>2. Structure /\ [Next]_vars => Structure'
      BY TypesNext, HoldersNext, CompactingNext DEF Structure
<1>3. Structure => TypeOK
      BY DEF Structure
<1> QED  BY <1>1, <1>2, <1>3, PTL DEF Spec

-------------------------------------------------------------------------------
(* One writer at a time, until something clobbers.                          *)

LEMMA StructureNext == Structure /\ [Next]_vars => Structure'
BY TypesNext, HoldersNext, CompactingNext DEF Structure

\* After a request has changed the slice it is the only writer.
LEMMA SavingAlone ==
    ASSUME Structure, NEW h \in Requests, Save(h, srv'), srv'.bucket => srv.bucket,
           UNCHANGED <<up, engine, cmd>>,
           cmd.pc = "idle", \A g \in Requests \ {h} : ~Busy(g),
           up /\ srv.bucket => engine # "none"
    PROVE  OneWriter'
<1>1. req' = [req EXCEPT ![h] = [Idle EXCEPT !.pc = "marshal", !.hdr = srv']]
      BY DEF Save, ToSave
<1>2. req'[h].pc = "marshal" /\ req'[h].hdr = srv' /\ \A g \in Requests \ {h} : req'[g].pc = "idle"
      BY <1>1 DEF Structure, TypeOK, Idle, Busy
<1> QED  BY <1>2 DEF OneWriter, Busy

LEMMA OneWriterNext ==
    ASSUME Structure, ~clobbered => OneWriter, [Next]_vars, ~clobbered'
    PROVE  OneWriter'
<1>0. TypeOK
      BY DEF Structure
<1>a. ASSUME OneWriter, UNCHANGED <<file, up, engine, heap, srv, req, cmd>>  PROVE OneWriter'
      BY <1>a DEF OneWriter, Busy, View
<1>1. CASE Start
  <2>1. OneWriter /\ \A h \in Requests : req[h].pc = "idle"
        BY <1>1 DEF Structure, Holders, Busy, Start, history
  <2>2. UNCHANGED <<file, req, cmd>> /\ (srv'.bucket => engine' # "none")
        BY <1>1 DEF Start, Configured
  <2> QED  BY <2>1, <2>2 DEF OneWriter, Busy
<1>2. CASE Unlock
      BY <1>2 DEF Unlock, history, OneWriter, Busy, View
<1>3. CASE Stop
  <2>1. OneWriter /\ \A h \in Requests : req'[h].pc = "idle"
        BY <1>0, <1>3, Constants DEF Stop, TypeOK
  <2>2. UNCHANGED <<file, cmd>> /\ ~up'
        BY <1>3 DEF Stop
  <2> QED  BY <2>1, <2>2 DEF OneWriter, Busy
<1>4. ASSUME NEW h \in Requests, NEW f \in Folders, FoldersAdd(h, f)  PROVE OneWriter'
  <2>1. OneWriter /\ cmd.pc = "idle" /\ \A g \in Requests : ~Busy(g)
        BY <1>0, <1>4, Changed DEF FoldersAdd
  <2>2. srv'.bucket = srv.bucket
        BY <1>0, <1>4 DEF FoldersAdd, TypeOK, Header
  <2> QED  BY <1>4, <2>1, <2>2, SavingAlone DEF FoldersAdd, OneWriter
<1>5. ASSUME NEW h \in Requests, NEW f \in Folders, FoldersRemove(h, f)  PROVE OneWriter'
  <2>1. OneWriter /\ cmd.pc = "idle" /\ \A g \in Requests : ~Busy(g)
        BY <1>0, <1>5, Changed DEF FoldersRemove
  <2>2. req'[h].pc = "compact" /\ \A g \in Requests \ {h} : req'[g].pc = "idle"
        BY <1>0, <1>5, <2>1 DEF FoldersRemove, TypeOK, Idle, Busy
  <2> QED  BY <1>5, <2>1, <2>2 DEF FoldersRemove, OneWriter, Busy
<1>6. ASSUME NEW h \in Requests, Compact(h)  PROVE OneWriter'
  <2>1. OneWriter /\ Busy(h) /\ req[h].pc = "compact" /\ UNCHANGED <<file, up, engine, srv, cmd>>
        BY <1>6 DEF Compact, Busy
  <2>2. \A g \in Requests : req'[g].pc = req[g].pc /\ (g # h => req[g].pc = "idle")
        BY <1>6, <2>1, CompactStep DEF OneWriter, Busy
  <2> QED  BY <2>1, <2>2 DEF OneWriter, Busy
<1>7. ASSUME NEW h \in Requests, Compacted(h)  PROVE OneWriter'
  <2>1. OneWriter /\ Busy(h)
        BY <1>7 DEF Compacted, history, Busy
  <2>2. srv'.bucket = srv.bucket
        BY <1>0, <1>7 DEF Compacted, TypeOK, Header
  <2> QED  BY <1>7, <2>1, <2>2, SavingAlone DEF Compacted, OneWriter
<1>8. ASSUME NEW h \in Requests, NEW b \in BOOLEAN, SettingsPut(h, b)  PROVE OneWriter'
  <2>1. OneWriter /\ (b => srv.bucket) /\ cmd.pc = "idle" /\ \A g \in Requests : ~Busy(g)
    <3>1. TypeOK /\ (b /\ ~srv.bucket) \in BOOLEAN /\ Change(b /\ ~srv.bucket)
          BY <1>0, <1>8 DEF TypeOK, SettingsPut, Header
    <3> QED  BY <3>1, Changed
  <2>2. srv'.bucket = b
        BY <1>0, <1>8 DEF TypeOK, SettingsPut, Header
  <2> QED  BY <1>8, <2>1, <2>2, SavingAlone DEF SettingsPut, OneWriter
<1>9. ASSUME NEW h \in Requests, Marshal(h)  PROVE OneWriter'
  <2>1. OneWriter /\ Busy(h) /\ req[h].hdr = srv /\ UNCHANGED <<file, up, engine, heap, srv, cmd>>
        BY <1>9 DEF Marshal, history, OneWriter, Busy
  <2>2. /\ req'[h].pc = "truncate"
        /\ req'[h].out = [bucket |-> srv.bucket, folders |-> View(srv)]
        /\ \A g \in Requests \ {h} : req'[g] = req[g]
        BY <1>0, <1>9, <2>1 DEF Marshal, TypeOK, Idle
  <2> QED  BY <2>1, <2>2 DEF OneWriter, Busy, View
<1>10. ASSUME NEW h \in Requests, Truncate(h)  PROVE OneWriter'
  <2>1. OneWriter /\ Busy(h) /\ req[h].pc = "truncate" /\ file' = Empty /\ UNCHANGED <<up, engine, heap, srv, cmd>>
        BY <1>10 DEF Truncate, history, OneWriter, Busy
  <2>2. /\ req'[h].pc = "write" /\ req'[h].out = req[h].out
        /\ \A g \in Requests \ {h} : req'[g] = req[g]
        BY <1>0, <1>10 DEF Truncate, TypeOK
  <2>3. \A g \in Requests : Busy(g)' => g = h
        BY <2>1, <2>2 DEF OneWriter, Busy
  <2>4. /\ req'[h].out = [bucket |-> srv'.bucket, folders |-> View(srv)']
        /\ cmd'.pc = "idle"
        BY <2>1, <2>2 DEF OneWriter, View
  <2> QED  BY <2>1, <2>2, <2>3, <2>4 DEF OneWriter, Busy
<1>11. ASSUME NEW h \in Requests, Write(h)  PROVE OneWriter'
  <2>1. OneWriter /\ Busy(h) /\ UNCHANGED <<up, engine, heap, srv, cmd>>
        BY <1>11 DEF Write, history, OneWriter, Busy
  <2>2. req'[h].pc = "idle" /\ \A g \in Requests \ {h} : req'[g] = req[g]
        BY <1>0, <1>11 DEF Write, TypeOK, Idle
  <2>3. \A g \in Requests : req'[g].pc = "idle"
        BY <2>1, <2>2 DEF OneWriter, Busy
  <2> QED  BY <2>1, <2>3 DEF OneWriter, Busy
<1>12. ASSUME \/ \E f \in Folders : CliAdd(f) \/ CliRemove(f)
              \/ \E b \in BOOLEAN : CliInit(b)
       PROVE  OneWriter'
  <2>1. PICK b \in BOOLEAN : Change(b)
        BY <1>0, <1>12 DEF CliAdd, CliRemove, CliInit, Loads, TypeOK, Config
  <2>2. OneWriter /\ \A g \in Requests : ~Busy(g)
        BY <1>0, <2>1, Changed
  <2>3. cmd'.pc = "truncate" /\ UNCHANGED <<file, up, engine, heap, srv, req>>
    <3>1. \E c : Command(c)
          BY <1>12 DEF CliAdd, CliRemove, CliInit
    <3> QED  BY <3>1 DEF Command, memory
  <2> QED  BY <2>2, <2>3 DEF OneWriter, Busy
<1>13. CASE CliSave
  <2>1. OneWriter /\ cmd.pc # "idle" /\ UNCHANGED <<up, engine, heap, srv, req>>
        BY <1>13 DEF CliSave, memory, history
  <2>2. cmd'.pc = "write" => file' = Empty
        BY <1>0, <1>13, Constants DEF CliSave, TypeOK, NoCmd
  <2> QED  BY <2>1, <2>2 DEF OneWriter, Busy
<1>14. CASE CliKilled
  <2>1. OneWriter /\ cmd.pc # "idle" /\ cmd'.pc = "idle" /\ UNCHANGED <<file, up, engine, heap, srv, req>>
        BY <1>14 DEF CliKilled, memory, history, NoCmd
  <2> QED  BY <2>1 DEF OneWriter, Busy
<1>15. CASE Pass
      BY <1>a, <1>15 DEF Pass, BeginPass, WalkFolder, EndPass, memory, history
<1>16. CASE UNCHANGED vars
      BY <1>a, <1>16 DEF vars, memory, history
<1> QED  BY <1>1, <1>2, <1>3, <1>4, <1>5, <1>6, <1>7, <1>8, <1>9, <1>10, <1>11, <1>12, <1>13, <1>14, <1>15, <1>16
         DEF Next, Handler, Cli

\* What a request writes when nobody has interfered is what the server has.
LEMMA WriteSaves ==
    ASSUME Structure, OneWriter, [Next]_vars,
           NEW h \in Requests, req[h].pc = "write", req'[h].pc = "idle", up'
    PROVE  file' = [bucket |-> srv.bucket, folders |-> View(srv)]
<1>0. req \in [Requests -> ReqRec] /\ Busy(h) /\ up
      BY DEF Structure, TypeOK, ReqRec, Holders, Busy
<1>1. CASE Write(h)
  <2>1. file = Empty /\ req[h].out = [bucket |-> srv.bucket, folders |-> View(srv)]
        BY DEF OneWriter
  <2> QED  BY <1>1, <2>1 DEF Write, Written
<1>2. ASSUME req'[h] = req[h]  PROVE FALSE
      BY <1>2
<1>3. ASSUME NEW g \in Requests, Handler(g), g # h  PROVE FALSE
  <2>1. ~Busy(g)
        BY <1>0, <1>3 DEF OneWriter
  <2>2. \/ \E f \in Folders : FoldersAdd(g, f) \/ FoldersRemove(g, f)
        \/ \E b \in BOOLEAN : SettingsPut(g, b)
        BY <1>3, <2>1 DEF Handler, Compact, Compacted, Marshal, Truncate, Write, Busy
  <2>3. req'[h] = req[h]
        BY <1>0, <1>3, <2>2 DEF FoldersAdd, FoldersRemove, SettingsPut, Save
  <2> QED  BY <1>2, <2>3
<1>4. CASE Handler(h)
      BY <1>1, <1>4 DEF Handler, FoldersAdd, FoldersRemove, SettingsPut, Compact, Compacted, Marshal, Truncate
<1>5. CASE Start \/ Unlock \/ Stop \/ Cli \/ Pass \/ UNCHANGED vars
  <2>1. req' = req
        BY <1>0, <1>5 DEF Start, Unlock, Stop, Cli, CliAdd, CliRemove, CliInit, CliSave, CliKilled, Command,
                          Pass, BeginPass, WalkFolder, EndPass, memory, vars
  <2> QED  BY <1>2, <2>1
<1> QED  BY <1>3, <1>4, <1>5 DEF Next

-------------------------------------------------------------------------------
(* No copy of the list loses a folder that nobody removed.                  *)

LEMMA ViewElements == TypeOK /\ up => Elements(View(srv)) = {heap[srv.arr][j] : j \in 1..srv.len}
<1> SUFFICES ASSUME TypeOK, up  PROVE Elements(View(srv)) = {heap[srv.arr][j] : j \in 1..srv.len}
    OBVIOUS
<1>1. srv.arr \in DOMAIN heap /\ srv.len \in 0..Len(heap[srv.arr])
      BY DEF TypeOK, Header
<1> QED  BY <1>1, ViewType

LEMMA ViewElementsNext ==
    (TypeOK /\ up => Elements(View(srv)) = {heap[srv.arr][j] : j \in 1..srv.len})'
BY ViewElements, PTL

\* A step of a removal loses no element but the removed folder, neither from
\* the array nor from the part of it that the server uses.
LEMMA CompactKeeps ==
    ASSUME Structure, NEW h \in Requests, Compact(h)
    PROVE  /\ \A k \in DOMAIN heap[srv.arr] : heap[srv.arr][k] # req[h].folder =>
                  \E m \in DOMAIN heap[srv.arr] : heap'[srv.arr][m] = heap[srv.arr][k]
           /\ \A k \in 1..srv.len : heap[srv.arr][k] # req[h].folder =>
                  \E m \in 1..srv.len : heap'[srv.arr][m] = heap[srv.arr][k]
           /\ \A k \in DOMAIN heap[srv.arr] :
                  \E m \in DOMAIN heap[srv.arr] : heap'[srv.arr][k] = heap[srv.arr][m]
<1> DEFINE r == req[h]
           a == heap[srv.arr]
           b == heap'[srv.arr]
<1>1. /\ r.pc = "compact" /\ r.n \in Nat /\ r.i \in Nat /\ r.n < r.i /\ r.i <= srv.len
      /\ a \in Seq(Slots) /\ r.i \in DOMAIN a /\ r.n + 1 \in DOMAIN a /\ srv.arr \in DOMAIN heap
      BY SlotsCompacted
<1>2. srv.len \in 0..Len(a)
      BY <1>1, WhileCompacting
<1>3. /\ \A j \in DOMAIN a : j # r.n + 1 => b[j] = a[j]
      /\ b = a \/ b[r.n + 1] = a[r.i]
      BY CompactStep
<1>4. \A j \in 1..(r.i - 1) : a[j] = r.folder \/ \E m \in 1..r.n : a[m] = a[j]
      BY <1>1 DEF Structure, Compacting
<1>5. DOMAIN a = 1..Len(a) /\ Len(a) \in Nat
      BY <1>1
<1> HIDE DEF r, a, b
<1>6. \A k \in DOMAIN a : \E m \in DOMAIN a : b[k] = a[m]
      BY <1>1, <1>3 DEF a
<1>7. ASSUME NEW k \in DOMAIN a, b[k] # a[k], a[k] # r.folder
      PROVE  \E m \in 1..srv.len : m \in DOMAIN a /\ b[m] = a[k]
  <2>1. k = r.n + 1 /\ b[k] = a[r.i]
        BY <1>3, <1>7 DEF a
  <2>2. k \in 1..(r.i - 1)
        BY <1>1, <1>7, <2>1
  <2>3. PICK m \in 1..r.n : a[m] = a[k]
        BY <1>4, <1>7, <2>2
  <2>4. m \in DOMAIN a /\ m # r.n + 1 /\ m \in 1..srv.len
        BY <1>1, <1>2, <1>5
  <2> QED  BY <1>3, <2>3, <2>4
<1>8. ASSUME NEW k \in DOMAIN a, a[k] # r.folder  PROVE \E m \in DOMAIN a : b[m] = a[k]
      BY <1>7, <1>8
<1>9. ASSUME NEW k \in 1..srv.len, a[k] # r.folder  PROVE \E m \in 1..srv.len : b[m] = a[k]
  <2>1. k \in DOMAIN a
        BY <1>2, <1>5
  <2> QED  BY <1>7, <1>9, <2>1
<1> QED  BY <1>6, <1>8, <1>9 DEF r, a, b

\* While a request is being served the file waits for it.
LEMMA OnlyLists ==
    ASSUME UNCHANGED <<engine, cmd>>, cmd.pc = "idle", \E h \in Requests : Busy(h)',
           engine # "none" => AtStake' \subseteq Elements(heap[1])' \cap Elements(View(srv))'
    PROVE  NothingForgotten'
BY DEF NothingForgotten

LEMMA NothingForgottenNext ==
    ASSUME Structure, ~clobbered => OneWriter /\ NothingForgotten, [Next]_vars, ~clobbered'
    PROVE  NothingForgotten'
<1>0. TypeOK /\ Holders /\ TypeOK' /\ OneWriter'
      BY StructureNext, OneWriterNext DEF Structure
<1>v. /\ up => Elements(View(srv)) = {heap[srv.arr][j] : j \in 1..srv.len}
      /\ up' => Elements(View(srv))' = {heap'[srv'.arr][j] : j \in 1..srv'.len}
      BY <1>0, ViewElements, ViewElementsNext
<1>h. up => 1 \in DOMAIN heap /\ srv.arr \in DOMAIN heap /\ srv.len \in 0..Len(heap[srv.arr]) /\ heap \in Seq(Seq(Slots))
  <2>1. up => srv.arr \in DOMAIN heap /\ srv.len \in 0..Len(heap[srv.arr]) /\ heap \in Seq(Seq(Slots))
        BY <1>0 DEF TypeOK, Header
  <2>2. up => 1 \in DOMAIN heap
        BY <2>1
  <2> QED  BY <2>1, <2>2
<1>a. ASSUME NothingForgotten, UNCHANGED <<file, heap, srv, req, cmd>>, AtStake' \subseteq AtStake,
             removed \subseteq removed', engine' # "none" => engine # "none"
      PROVE  NothingForgotten'
  <2>1. Elements(heap[1])' = Elements(heap[1]) /\ Elements(View(srv))' = Elements(View(srv))
        BY <1>a DEF View
  <2>2. \A h \in Requests : Busy(h)' <=> Busy(h)
        BY <1>a DEF Busy
  <2>3. engine' # "none" => AtStake' \subseteq Elements(heap[1])' \cap Elements(View(srv))'
        BY <1>a, <2>1 DEF NothingForgotten
  <2>4. file # Garbled /\ file.bucket /\ (\A h \in Requests : ~Busy(h)) => AtStake' \subseteq Elements(file.folders)
        BY <1>a DEF NothingForgotten
  <2>5. cmd.pc # "idle" /\ cmd.out.bucket => AtStake' \subseteq Elements(cmd.out.folders)
        BY <1>a DEF NothingForgotten
  <2>6. cmd.pc = "truncate" =>
           /\ file # Garbled /\ cmd.out.bucket = file.bucket
           /\ Elements(file.folders) \ removed \subseteq Elements(cmd.out.folders)
        BY <1>a DEF NothingForgotten
  <2> QED  BY <1>a, <2>2, <2>3, <2>4, <2>5, <2>6 DEF NothingForgotten
<1>1. CASE Start
  <2>1. /\ OneWriter /\ NothingForgotten /\ engine = "none" /\ pass.seen = {} /\ file # Garbled
        /\ \A h \in Requests : ~Busy(h)
        BY <1>0, <1>1 DEF Start, Holders, history, NoPass
  <2>2. /\ UNCHANGED <<file, req, cmd, pass, stored>> /\ up' /\ removed' = removed \ Loaded
        /\ engine' # "none" <=> file.bucket
        /\ heap'[1] = file.folders /\ srv'.arr = 1 /\ srv'.len = Len(file.folders)
        BY <1>1 DEF Start, Configured, history
  <2>3. AtStake = (stored \cap Folders) \ removed
        BY <2>1 DEF AtStake
  <2>l. /\ Loaded \subseteq Elements(file.folders)
        /\ cmd.pc # "idle" => Loaded \subseteq Elements(cmd.out.folders)
        BY DEF Loaded
  <2>f. file.bucket => AtStake \subseteq Elements(file.folders)
        BY <2>1 DEF NothingForgotten
  <2>c. cmd.pc # "idle" /\ cmd.out.bucket => AtStake \subseteq Elements(cmd.out.folders)
        BY <2>1 DEF NothingForgotten
  <2>t. cmd.pc = "truncate" =>
           /\ cmd.out.bucket = file.bucket
           /\ Elements(file.folders) \ removed' \subseteq Elements(cmd.out.folders)
        BY <2>1, <2>2, <2>l DEF NothingForgotten
  <2>4. CASE ~file.bucket
    <3>1. AtStake' \subseteq AtStake \cup Loaded
          BY <2>1, <2>2, <2>4 DEF AtStake
    <3> QED  BY <2>1, <2>2, <2>4, <2>l, <2>c, <2>t, <3>1 DEF NothingForgotten, Busy
  <2>5. CASE file.bucket
    <3>1. AtStake' = ((stored \cup Elements(file.folders)) \cap Folders) \ removed'
          BY <2>1, <2>2, <2>5 DEF AtStake
    <3>3. AtStake' \subseteq Elements(file.folders)
          BY <2>2, <2>3, <2>5, <2>f, <2>l, <3>1
    <3>4. Elements(View(srv))' = Elements(file.folders) /\ Elements(heap[1])' = Elements(file.folders)
      <4>1. file.folders \in Seq(Slots)
            BY <1>0, <2>1 DEF TypeOK, Config
      <4>2. DOMAIN file.folders = 1..Len(file.folders)
            BY <4>1
      <4>3. Elements(View(srv))' = {file.folders[j] : j \in 1..Len(file.folders)}
            BY <1>v, <2>2
      <4> QED  BY <2>2, <4>2, <4>3 DEF Elements
    <3>5. ASSUME cmd.pc # "idle", cmd.out.bucket  PROVE AtStake' \subseteq Elements(cmd.out.folders)
      <4>1. cmd.pc = "truncate"
            BY <1>0, <2>1, <2>5, <3>5 DEF TypeOK, OneWriter, Empty
      <4> QED  BY <2>t, <3>1, <3>3, <4>1
    <3> QED  BY <2>1, <2>2, <2>t, <3>3, <3>4, <3>5 DEF NothingForgotten, Busy
  <2> QED  BY <2>4, <2>5
<1>2. CASE Unlock
  <2>1. NothingForgotten /\ engine = "locked" /\ engine' = "on" /\ AtStake' = AtStake
        BY <1>2 DEF Unlock, history, AtStake
  <2> QED  BY <1>2, <1>a, <2>1 DEF Unlock, history
<1>3. CASE Stop
  <2>1. /\ OneWriter /\ NothingForgotten /\ \A h \in Requests : req[h].pc \in {"idle", "write"}
        /\ engine' = "none" /\ pass'.seen = {} /\ UNCHANGED <<file, cmd, stored, removed>>
        BY <1>0, <1>3 DEF Stop, NoPass, TypeOK
  <2>2. AtStake' \subseteq AtStake
        BY <2>1 DEF AtStake
  <2>3. file # Garbled /\ file.bucket => \A h \in Requests : ~Busy(h)
        BY <2>1 DEF OneWriter, Busy, Empty
  <2> QED  BY <2>1, <2>2, <2>3 DEF NothingForgotten
<1>4. ASSUME NEW h \in Requests, NEW f \in Folders, FoldersAdd(h, f)  PROVE NothingForgotten'
  <2>1. OneWriter /\ NothingForgotten /\ cmd.pc = "idle"
        BY <1>0, <1>4, Changed DEF FoldersAdd
  <2>2. Busy(h)'
        BY <1>0, <1>4 DEF FoldersAdd, Save, TypeOK, Busy, Idle
  <2>3. up /\ up' /\ UNCHANGED <<engine, cmd, pass, stored, removed>>
        BY <1>4 DEF FoldersAdd
  <2>4. ASSUME engine # "none"
        PROVE  /\ Elements(heap[1])' \subseteq Elements(heap[1]) \cup {f}
               /\ AtStake \subseteq Elements(heap[1])'
               /\ Elements(View(srv)) \cup {f} \subseteq Elements(View(srv))'
    <3>0. AtStake \subseteq Elements(heap[1]) \cap Elements(View(srv)) /\ f \in Slots
          BY <2>1, <2>4 DEF NothingForgotten, Slots
    <3>1. CASE srv.len < Len(heap[srv.arr])
      <4>1. heap' = [heap EXCEPT ![srv.arr][srv.len + 1] = f] /\ srv' = [srv EXCEPT !.len = @ + 1]
            BY <1>4, <3>1 DEF FoldersAdd
      <4>2. srv.len + 1 \in DOMAIN heap[srv.arr] /\ srv.len \in Nat /\ \A j \in 1..srv.len : j \in DOMAIN heap[srv.arr] /\ j # srv.len + 1
            BY <1>h, <2>3, <3>1
      <4>3. srv'.arr = srv.arr /\ srv'.len = srv.len + 1
            BY <1>0, <4>1, <4>2 DEF TypeOK, Header
      <4>4. /\ \A b \in DOMAIN heap : DOMAIN heap'[b] = DOMAIN heap[b]
            /\ \A b \in DOMAIN heap \ {srv.arr} : heap'[b] = heap[b]
            /\ heap'[srv.arr][srv.len + 1] = f
            /\ \A j \in DOMAIN heap[srv.arr] \ {srv.len + 1} : heap'[srv.arr][j] = heap[srv.arr][j]
            BY <1>h, <2>3, <3>0, <4>1, <4>2, SlotWritten
      <4>5. Elements(View(srv)) \cup {f} \subseteq Elements(View(srv))'
        <5>1. f \in Elements(View(srv))'
              BY <1>v, <2>3, <4>2, <4>3, <4>4
        <5>2. ASSUME NEW j \in 1..srv.len  PROVE heap[srv.arr][j] \in Elements(View(srv))'
          <6>1. j \in 1..srv'.len /\ heap'[srv'.arr][j] = heap[srv.arr][j]
                BY <4>2, <4>3, <4>4
          <6> QED  BY <1>v, <2>3, <6>1
        <5> QED  BY <1>v, <2>3, <5>1, <5>2
      <4>6. Elements(heap[1])' \subseteq Elements(heap[1]) \cup {f}
        <5>1. CASE srv.arr # 1
              BY <1>h, <2>3, <4>4, <5>1 DEF Elements
        <5>2. CASE srv.arr = 1
          <6>1. \A j \in DOMAIN heap'[1] : j \in DOMAIN heap[1] /\ heap'[1][j] \in {heap[1][j], f}
                BY <1>h, <2>3, <4>4, <5>2
          <6> QED  BY <6>1 DEF Elements
        <5> QED  BY <5>1, <5>2
      <4>7. ASSUME NEW x \in AtStake  PROVE x \in Elements(heap[1])'
        <5>1. CASE srv.arr # 1
          <6>1. heap'[1] = heap[1]
                BY <1>h, <2>3, <4>4, <5>1
          <6> QED  BY <3>0, <6>1 DEF Elements
        <5>2. CASE srv.arr = 1
          <6>1. PICK j \in 1..srv.len : x = heap[srv.arr][j]
                BY <1>v, <2>3, <3>0
          <6>2. j \in DOMAIN heap'[1] /\ heap'[1][j] = x
                BY <1>h, <2>3, <4>2, <4>4, <5>2, <6>1
          <6> QED  BY <6>2 DEF Elements
        <5> QED  BY <5>1, <5>2
      <4> QED  BY <4>5, <4>6, <4>7
    <3>2. CASE ~(srv.len < Len(heap[srv.arr]))
      <4>1. /\ heap' = Append(heap, Grown(heap[srv.arr], f))
            /\ srv' = [srv EXCEPT !.arr = Len(heap) + 1, !.len = @ + 1]
            BY <1>4, <3>2 DEF FoldersAdd
      <4>2. heap[srv.arr] \in Seq(Slots) /\ srv.len = Len(heap[srv.arr]) /\ srv.len \in Nat /\ Len(heap) \in Nat
            BY <1>h, <2>3, <3>2
      <4>3. /\ Grown(heap[srv.arr], f) \in Seq(Slots)
            /\ \A j \in 1..srv.len : Grown(heap[srv.arr], f)[j] = heap[srv.arr][j]
            /\ Grown(heap[srv.arr], f)[srv.len + 1] = f
        <5> DEFINE s == heap[srv.arr]
        <5>1. s \in Seq(Slots) /\ f \in Slots /\ Len(s) = srv.len
              BY <3>0, <4>2
        <5> HIDE DEF s
        <5>2. /\ Grown(s, f) \in Seq(Slots)
              /\ \A j \in 1..Len(s) : Grown(s, f)[j] = s[j]
              /\ Grown(s, f)[Len(s) + 1] = f
              BY <5>1, GrownExtends
        <5> QED  BY <5>1, <5>2 DEF s
      <4>4. heap'[Len(heap) + 1] = Grown(heap[srv.arr], f) /\ heap'[1] = heap[1]
            BY <1>h, <2>3, <4>1, <4>3, AppendProperties
      <4>5. srv'.arr = Len(heap) + 1 /\ srv'.len = srv.len + 1
            BY <1>0, <4>1, <4>2 DEF TypeOK, Header
      <4>6. Elements(View(srv)) \cup {f} \subseteq Elements(View(srv))'
        <5>1. f \in Elements(View(srv))'
              BY <1>v, <2>3, <4>2, <4>3, <4>4, <4>5
        <5>2. ASSUME NEW j \in 1..srv.len  PROVE heap[srv.arr][j] \in Elements(View(srv))'
          <6>1. j \in 1..srv'.len /\ heap'[srv'.arr][j] = heap[srv.arr][j]
                BY <4>2, <4>3, <4>4, <4>5
          <6> QED  BY <1>v, <2>3, <6>1
        <5> QED  BY <1>v, <2>3, <5>1, <5>2
      <4> QED  BY <3>0, <4>4, <4>6
    <3> QED  BY <3>1, <3>2
  <2>5. ASSUME engine # "none"  PROVE AtStake' \subseteq Elements(heap[1])' \cap Elements(View(srv))'
    <3>1. AtStake \subseteq Elements(View(srv)) /\ f \notin Elements(View(srv))
          BY <1>4, <2>1, <2>5 DEF NothingForgotten, FoldersAdd
    <3>2. /\ AtStake = ((stored \cup pass.seen \cup Elements(heap[1])) \cap Folders) \ removed
          /\ AtStake' = ((stored \cup pass.seen \cup Elements(heap[1])') \cap Folders) \ removed
          BY <2>3, <2>5 DEF AtStake
    <3> QED  BY <2>4, <2>5, <3>1, <3>2
  <2> QED  BY <2>1, <2>2, <2>3, <2>5, OnlyLists
<1>5. ASSUME NEW h \in Requests, NEW f \in Folders, FoldersRemove(h, f)  PROVE NothingForgotten'
  <2>1. NothingForgotten /\ cmd.pc = "idle"
        BY <1>0, <1>5, Changed DEF FoldersRemove
  <2>2. Busy(h)' /\ UNCHANGED <<engine, heap, srv, cmd, pass, stored>> /\ removed \subseteq removed'
        BY <1>0, <1>5 DEF FoldersRemove, TypeOK, Busy, Idle
  <2>3. AtStake' \subseteq AtStake
        BY <2>2 DEF AtStake
  <2>4. engine # "none" => AtStake' \subseteq Elements(heap[1])' \cap Elements(View(srv))'
        BY <2>1, <2>2, <2>3 DEF NothingForgotten, View
  <2> QED  BY <2>1, <2>2, <2>4, OnlyLists
<1>6. ASSUME NEW h \in Requests, Compact(h)  PROVE NothingForgotten'
  <2>1. /\ OneWriter /\ NothingForgotten /\ Busy(h)
        /\ UNCHANGED <<engine, srv, cmd, pass, stored, removed, up>>
        BY <1>6 DEF Compact, Busy
  <2>2. /\ up /\ srv.arr \in DOMAIN heap /\ req[h].folder \in removed /\ Busy(h)' /\ cmd.pc = "idle"
        /\ \A b \in DOMAIN heap : DOMAIN heap'[b] = DOMAIN heap[b]
        /\ \A b \in DOMAIN heap \ {srv.arr} : heap'[b] = heap[b]
    <3>1. req[h].pc = "compact" /\ req'[h].pc = req[h].pc
          BY <1>6, CompactStep DEF Compact
    <3> QED  BY <1>6, <2>1, <3>1, WhileCompacting, CompactStep DEF OneWriter, Busy
  <2>3. ASSUME NEW k \in DOMAIN heap[srv.arr]
        PROVE  \E m \in DOMAIN heap[srv.arr] : heap'[srv.arr][k] = heap[srv.arr][m]
        BY <1>6, CompactKeeps
  <2>a. \A k \in DOMAIN heap[srv.arr] : heap[srv.arr][k] \notin removed =>
            \E m \in DOMAIN heap[srv.arr] : heap'[srv.arr][m] = heap[srv.arr][k]
        BY <1>6, <2>2, CompactKeeps
  <2>b. \A k \in 1..srv.len : heap[srv.arr][k] \notin removed =>
            \E m \in 1..srv.len : heap'[srv.arr][m] = heap[srv.arr][k]
        BY <1>6, <2>2, CompactKeeps
  <2>4. ASSUME engine # "none"  PROVE AtStake' \subseteq Elements(heap[1])' \cap Elements(View(srv))'
    <3>1. AtStake \subseteq Elements(heap[1]) \cap Elements(View(srv)) /\ AtStake \cap removed = {}
          BY <2>1, <2>4 DEF NothingForgotten, AtStake
    <3>2. Elements(heap[1])' \subseteq Elements(heap[1])
      <4>1. CASE srv.arr # 1
            BY <1>h, <2>2, <4>1 DEF Elements
      <4>2. CASE srv.arr = 1
        <5>1. \A k \in DOMAIN heap[1] : \E m \in DOMAIN heap[1] : heap'[1][k] = heap[1][m]
              BY <2>3, <4>2
        <5> QED  BY <1>h, <2>2, <5>1 DEF Elements
      <4> QED  BY <4>1, <4>2
    <3>3. AtStake' \subseteq AtStake
          BY <2>1, <3>2 DEF AtStake
    <3>4. ASSUME NEW x \in AtStake  PROVE x \in Elements(heap[1])'
      <4>1. CASE srv.arr # 1
            BY <1>h, <2>2, <3>1, <4>1 DEF Elements
      <4>2. CASE srv.arr = 1
        <5>1. PICK k \in DOMAIN heap[1] : heap[1][k] = x
              BY <3>1 DEF Elements
        <5>2. x \notin removed
              BY <3>1
        <5>3. \E m \in DOMAIN heap[1] : heap'[1][m] = x
          <6>1. k \in DOMAIN heap[srv.arr] /\ heap[srv.arr][k] \notin removed
                BY <4>2, <5>1, <5>2
          <6>2. PICK m \in DOMAIN heap[srv.arr] : heap'[srv.arr][m] = heap[srv.arr][k]
                BY <2>a, <6>1
          <6> QED  BY <4>2, <5>1, <6>2
        <5> QED  BY <1>h, <2>2, <5>3 DEF Elements
      <4> QED  BY <4>1, <4>2
    <3>5. ASSUME NEW x \in AtStake  PROVE x \in Elements(View(srv))'
      <4>1. PICK j \in 1..srv.len : x = heap[srv.arr][j]
            BY <1>v, <2>2, <3>1
      <4>2. heap[srv.arr][j] \notin removed
            BY <3>1, <4>1
      <4>3. \E m \in 1..srv.len : heap'[srv.arr][m] = heap[srv.arr][j]
            BY <2>b, <4>2
      <4> QED  BY <1>v, <2>1, <2>2, <4>1, <4>3
    <3> QED  BY <3>3, <3>4, <3>5
  <2> QED  BY <2>1, <2>2, <2>4, OnlyLists
<1>7. ASSUME NEW h \in Requests, Compacted(h)  PROVE NothingForgotten'
  <2>1. /\ OneWriter /\ NothingForgotten /\ Busy(h) /\ req[h].pc = "compact"
        /\ UNCHANGED <<engine, heap, cmd, pass, stored, removed, up>>
        BY <1>7 DEF Compacted, Busy, history
  <2>2. /\ up /\ srv \in Header /\ req[h].folder \in removed /\ cmd.pc = "idle"
        /\ req[h].i \in 1..(srv.len + 1) /\ req[h].n \in Nat
        BY <1>0, <2>1, WhileCompacting DEF OneWriter
  <2>3. Busy(h)' /\ srv'.arr = srv.arr /\ srv'.len = req[h].n
        BY <1>0, <1>7, <2>2 DEF Compacted, Save, TypeOK, Busy, Idle, Header
  <2>4. \A j \in 1..srv.len : \/ heap[srv.arr][j] = req[h].folder
                              \/ \E m \in 1..req[h].n : heap[srv.arr][m] = heap[srv.arr][j]
    <3>1. req[h].hdr = srv /\ srv.len \in Nat
          BY <2>1, <2>2, WhileCompacting DEF Header
    <3>2. req[h].i > srv.len
          BY <1>7, <3>1 DEF Compacted
    <3>3. req[h].i - 1 = srv.len
          BY <2>2, <3>1, <3>2
    <3> QED  BY <2>1, <3>3 DEF Structure, Compacting
  <2>5. AtStake' = AtStake /\ AtStake \cap removed = {}
        BY <2>1 DEF AtStake
  <2>6. ASSUME engine # "none"  PROVE AtStake' \subseteq Elements(heap[1])' \cap Elements(View(srv))'
    <3>1. AtStake \subseteq Elements(heap[1]) \cap Elements(View(srv))
          BY <2>1, <2>6 DEF NothingForgotten
    <3>2. ASSUME NEW x \in AtStake  PROVE x \in Elements(View(srv))'
      <4>1. PICK j \in 1..srv.len : x = heap[srv.arr][j]
            BY <1>v, <2>2, <3>1
      <4>2. PICK m \in 1..req[h].n : heap[srv.arr][m] = x
            BY <2>2, <2>4, <2>5, <4>1
      <4> QED  BY <1>v, <2>1, <2>2, <2>3, <4>2
    <3> QED  BY <2>1, <2>5, <3>1, <3>2
  <2> QED  BY <2>1, <2>2, <2>3, <2>6, OnlyLists
<1>8. ASSUME NEW h \in Requests, NEW b \in BOOLEAN, SettingsPut(h, b)  PROVE NothingForgotten'
  <2>1. NothingForgotten /\ cmd.pc = "idle"
    <3>1. TypeOK /\ (b /\ ~srv.bucket) \in BOOLEAN /\ Change(b /\ ~srv.bucket)
          BY <1>0, <1>8 DEF TypeOK, SettingsPut, Header
    <3> QED  BY <1>0, <3>1, Changed
  <2>2. /\ up /\ UNCHANGED <<up, engine, heap, cmd, pass, stored, removed>>
        /\ srv'.arr = srv.arr /\ srv'.len = srv.len /\ Busy(h)'
        BY <1>0, <1>8 DEF SettingsPut, Save, TypeOK, Busy, Idle, Header
  <2>3. AtStake' = AtStake /\ Elements(View(srv))' = Elements(View(srv)) /\ Elements(heap[1])' = Elements(heap[1])
        BY <1>v, <2>2 DEF AtStake
  <2>4. engine # "none" => AtStake' \subseteq Elements(heap[1])' \cap Elements(View(srv))'
        BY <2>1, <2>3 DEF NothingForgotten
  <2> QED  BY <2>1, <2>2, <2>4, OnlyLists
<1>9. ASSUME NEW h \in Requests, Marshal(h) \/ Truncate(h)  PROVE NothingForgotten'
  <2>1. /\ OneWriter /\ NothingForgotten /\ Busy(h)
        /\ UNCHANGED <<up, engine, heap, srv, cmd, pass, stored, removed>>
        BY <1>9 DEF Marshal, Truncate, Busy, history
  <2>2. Busy(h)' /\ cmd.pc = "idle"
    <3>1. CASE Marshal(h)
          BY <1>0, <2>1, <3>1 DEF Marshal, TypeOK, Busy, Idle, OneWriter
    <3>2. CASE Truncate(h)
          BY <1>0, <2>1, <3>2 DEF Truncate, TypeOK, Busy, OneWriter
    <3> QED  BY <1>9, <3>1, <3>2
  <2>3. AtStake' = AtStake /\ Elements(View(srv))' = Elements(View(srv)) /\ Elements(heap[1])' = Elements(heap[1])
        BY <2>1 DEF AtStake, View
  <2>4. engine # "none" => AtStake' \subseteq Elements(heap[1])' \cap Elements(View(srv))'
        BY <2>1, <2>3 DEF NothingForgotten
  <2> QED  BY <2>1, <2>2, <2>4, OnlyLists
<1>10. ASSUME NEW h \in Requests, Write(h)  PROVE NothingForgotten'
  <2>1. /\ OneWriter /\ NothingForgotten /\ Busy(h) /\ req[h].pc = "write"
        /\ UNCHANGED <<up, engine, heap, srv, cmd, pass, stored, removed>>
        BY <1>10 DEF Write, Busy, history
  <2>2. up /\ cmd.pc = "idle" /\ file' = [bucket |-> srv.bucket, folders |-> View(srv)]
    <3>1. up /\ req'[h].pc = "idle"
          BY <1>0, <1>10, <2>1 DEF Write, TypeOK, Idle, Holders
    <3> QED  BY <2>1, <3>1, WriteSaves DEF OneWriter
  <2>3. AtStake' = AtStake /\ Elements(View(srv))' = Elements(View(srv)) /\ Elements(heap[1])' = Elements(heap[1])
        BY <2>1 DEF AtStake, View
  <2>4. engine # "none" => AtStake' \subseteq Elements(heap[1])' \cap Elements(View(srv))'
        BY <2>1, <2>3 DEF NothingForgotten
  <2>5. file'.bucket => AtStake' \subseteq Elements(file'.folders)
        BY <2>1, <2>2, <2>3 DEF NothingForgotten, OneWriter
  <2> QED  BY <2>1, <2>2, <2>4, <2>5 DEF NothingForgotten
<1>11. ASSUME NEW c, Command(c), NothingForgotten, \A h \in Requests : ~Busy(h), file # Garbled,
              removed \subseteq removed', c.bucket = file.bucket,
              Elements(file.folders) \ removed' \subseteq Elements(c.folders)
       PROVE  NothingForgotten'
  <2>1. /\ UNCHANGED <<file, up, engine, heap, srv, req, pass, stored>>
        /\ cmd'.pc = "truncate" /\ cmd'.out = c
        BY <1>11 DEF Command, memory
  <2>2. AtStake' \subseteq AtStake /\ AtStake' \cap removed' = {}
        BY <1>11, <2>1 DEF AtStake
  <2>3. Elements(View(srv))' = Elements(View(srv)) /\ Elements(heap[1])' = Elements(heap[1])
        BY <2>1 DEF View
  <2>4. engine # "none" => AtStake' \subseteq Elements(heap[1])' \cap Elements(View(srv))'
        BY <1>11, <2>2, <2>3 DEF NothingForgotten
  <2>5. file.bucket => AtStake' \subseteq Elements(file.folders)
        BY <1>11, <2>2 DEF NothingForgotten
  <2>6. c.bucket => AtStake' \subseteq Elements(c.folders)
        BY <1>11, <2>2, <2>5
  <2> QED  BY <1>11, <2>1, <2>4, <2>5, <2>6 DEF NothingForgotten
<1>12. ASSUME NEW f \in Folders, CliAdd(f)  PROVE NothingForgotten'
  <2>1. NothingForgotten /\ (\A h \in Requests : ~Busy(h)) /\ file \in Config /\ file # Garbled /\ removed' = removed
        BY <1>0, <1>12, Changed DEF CliAdd, Loads, TypeOK
  <2> DEFINE c == [file EXCEPT !.folders = Append(@, f)]
  <2>2. file.folders \in Seq(Slots) /\ f \in Slots
        BY <2>1 DEF Config, Slots
  <2>3. Elements(file.folders) \subseteq Elements(Append(file.folders, f))
        BY <2>2, AppendProperties DEF Elements
  <2>4. Command(c) /\ c.bucket = file.bucket /\ c.folders = Append(file.folders, f)
        BY <1>12, <2>1 DEF CliAdd, Config
  <2> HIDE DEF c
  <2> QED  BY <1>11, <2>1, <2>3, <2>4
<1>13. ASSUME NEW f \in Folders, CliRemove(f)  PROVE NothingForgotten'
  <2>1. NothingForgotten /\ (\A h \in Requests : ~Busy(h)) /\ file \in Config /\ file # Garbled /\ removed' = removed \cup {f}
        BY <1>0, <1>13, Changed DEF CliRemove, Loads, TypeOK
  <2> DEFINE c == [file EXCEPT !.folders = Without(@, f)]
  <2>2. file.folders \in Seq(Slots)
        BY <2>1 DEF Config
  <2>3. Elements(Without(file.folders, f)) = Elements(file.folders) \ {f}
        BY <2>2, WithoutFilters
  <2>4. Command(c) /\ c.bucket = file.bucket /\ c.folders = Without(file.folders, f)
        BY <1>13, <2>1 DEF CliRemove, Config
  <2> HIDE DEF c
  <2> QED  BY <1>11, <2>1, <2>3, <2>4
<1>14. ASSUME NEW b \in BOOLEAN, CliInit(b)  PROVE NothingForgotten'
  <2>1. /\ file \in Config /\ (b /\ ~file.bucket) \in BOOLEAN /\ Change(b /\ ~file.bucket)
        /\ b \in {TRUE, file.bucket} /\ file.bucket \in BOOLEAN
        BY <1>0, <1>14 DEF CliInit, Loads, TypeOK, Config
  <2>2. NothingForgotten /\ (\A h \in Requests : ~Busy(h)) /\ b = file.bucket
        BY <1>0, <2>1, Changed
  <2> DEFINE c == [file EXCEPT !.bucket = b]
  <2>3. Command(c) /\ c.bucket = file.bucket /\ c.folders = file.folders /\ file # Garbled /\ removed' = removed
        BY <1>14, <2>1, <2>2 DEF CliInit, Loads, Config
  <2> HIDE DEF c
  <2> QED  BY <1>11, <2>2, <2>3
<1>15. CASE CliSave
  <2>1. /\ OneWriter /\ NothingForgotten /\ cmd.pc # "idle"
        /\ UNCHANGED <<up, engine, heap, srv, req, pass, stored, removed>>
        BY <1>15 DEF CliSave, memory, history
  <2>2. AtStake' = AtStake /\ Elements(View(srv))' = Elements(View(srv)) /\ Elements(heap[1])' = Elements(heap[1])
        BY <2>1 DEF AtStake, View
  <2>3. engine # "none" => AtStake' \subseteq Elements(heap[1])' \cap Elements(View(srv))'
        BY <2>1, <2>2 DEF NothingForgotten
  <2>4. CASE cmd.pc = "truncate"
    <3>1. ~file'.bucket /\ cmd'.pc = "write" /\ cmd'.out = cmd.out
          BY <1>0, <1>15, <2>4 DEF CliSave, Empty, TypeOK
    <3> QED  BY <2>1, <2>2, <2>3, <3>1 DEF NothingForgotten
  <2>5. CASE cmd.pc = "write"
    <3>1. file' = cmd.out /\ cmd'.pc = "idle"
          BY <1>15, <2>1, <2>5, Constants DEF CliSave, OneWriter, Written, NoCmd
    <3> QED  BY <2>1, <2>2, <2>3, <3>1 DEF NothingForgotten
  <2> QED  BY <1>15, <2>4, <2>5 DEF CliSave
<1>16. CASE CliKilled
  <2>1. /\ NothingForgotten /\ cmd'.pc = "idle"
        /\ UNCHANGED <<file, up, engine, heap, srv, req, pass, stored, removed>>
        BY <1>16 DEF CliKilled, memory, history, NoCmd
  <2>2. AtStake' = AtStake /\ Elements(View(srv))' = Elements(View(srv)) /\ Elements(heap[1])' = Elements(heap[1])
        BY <2>1 DEF AtStake, View
  <2>3. \A h \in Requests : Busy(h)' <=> Busy(h)
        BY <2>1 DEF Busy
  <2> QED  BY <2>1, <2>2, <2>3 DEF NothingForgotten
<1>17. CASE Pass
  <2>1. NothingForgotten /\ engine = "on" /\ UNCHANGED <<file, engine, heap, srv, req, cmd, removed>>
    <3>1. CASE BeginPass
          BY <3>1 DEF BeginPass, memory
    <3>2. CASE WalkFolder \/ EndPass
          BY <1>0, <3>2 DEF WalkFolder, EndPass, memory, history, Holders, NoPass
    <3> QED  BY <1>17, <3>1, <3>2 DEF Pass
  <2>2. ((stored' \cup pass'.seen) \cap Folders) \subseteq stored \cup pass.seen \cup Elements(heap[1])
    <3>1. CASE BeginPass
          BY <3>1 DEF BeginPass
    <3>2. CASE WalkFolder
      <4>1. pass.i \in DOMAIN heap[1]
        <5>1. up /\ heap[1] \in Seq(Slots) /\ pass.i \in Nat
              BY <1>0, <1>h, <2>1 DEF TypeOK, Holders
        <5> QED  BY <3>2, <5>1 DEF WalkFolder
      <4>2. heap[1][pass.i] \in Elements(heap[1])
            BY <4>1 DEF Elements
      <4> QED  BY <3>2, <4>2 DEF WalkFolder, history
    <3>3. CASE EndPass
          BY <3>3 DEF EndPass, NoPass
    <3> QED  BY <1>17, <3>1, <3>2, <3>3 DEF Pass
  <2>3. AtStake' \subseteq AtStake
        BY <2>1, <2>2 DEF AtStake
  <2> QED  BY <1>a, <2>1, <2>3
<1>18. CASE UNCHANGED vars
  <2>1. NothingForgotten /\ AtStake' = AtStake /\ UNCHANGED <<file, engine, heap, srv, req, cmd, removed>>
        BY <1>18 DEF vars, memory, history, AtStake
  <2> QED  BY <1>a, <2>1
<1> QED  BY <1>1, <1>2, <1>3, <1>4, <1>5, <1>6, <1>7, <1>8, <1>9, <1>10, <1>12, <1>13, <1>14, <1>15, <1>16, <1>17, <1>18
         DEF Next, Handler, Cli

-------------------------------------------------------------------------------
(* The walk passes over nothing that is stored.                             *)

LEMMA ClobberedStays == TypeOK /\ [Next]_vars /\ ~clobbered' => ~clobbered
<1> SUFFICES ASSUME TypeOK, [Next]_vars, ~clobbered'  PROVE ~clobbered
    OBVIOUS
<1>1. CASE \E b \in BOOLEAN : Change(b)
      BY <1>1, Changed
<1>2. CASE clobbered' = clobbered
      BY <1>2
<1>3. CASE Stop
      BY <1>3 DEF Stop
<1>4. ASSUME NEW h \in Requests, NEW b \in BOOLEAN, SettingsPut(h, b)  PROVE \E d \in BOOLEAN : Change(d)
  <2>1. (b /\ ~srv.bucket) \in BOOLEAN
        OBVIOUS
  <2> QED  BY <1>4, <2>1 DEF SettingsPut
<1>5. ASSUME NEW b \in BOOLEAN, CliInit(b)  PROVE \E d \in BOOLEAN : Change(d)
  <2>1. (b /\ ~file.bucket) \in BOOLEAN
        OBVIOUS
  <2> QED  BY <1>5, <2>1 DEF CliInit
<1>6. ASSUME NEW f \in Folders, CliAdd(f) \/ CliRemove(f)  PROVE \E b \in BOOLEAN : Change(b)
      BY <1>6 DEF CliAdd, CliRemove
<1>7. ASSUME NEW h \in Requests, NEW f \in Folders, FoldersAdd(h, f) \/ FoldersRemove(h, f)
      PROVE  \E b \in BOOLEAN : Change(b)
      BY <1>7 DEF FoldersAdd, FoldersRemove
<1>8. ASSUME NEW h \in Requests, Compact(h) \/ Compacted(h) \/ Marshal(h) \/ Truncate(h) \/ Write(h)
      PROVE  clobbered' = clobbered
      BY <1>8 DEF Compact, Compacted, Marshal, Truncate, Write, history
<1>9. CASE Start \/ Unlock \/ CliSave \/ CliKilled \/ Pass \/ UNCHANGED vars
      BY <1>2, <1>9 DEF Start, Unlock, CliSave, CliKilled, Pass, BeginPass, WalkFolder, EndPass, vars, history
<1> QED  BY <1>1, <1>2, <1>3, <1>4, <1>5, <1>6, <1>7, <1>8, <1>9 DEF Next, Handler, Cli

\* What an append writes into the array of the walk has nothing stored.
LEMMA AppendedIsNew ==
    ASSUME Structure, NothingForgotten, engine = "on",
           NEW h \in Requests, NEW f \in Folders, FoldersAdd(h, f)
    PROVE  /\ f \in removed \/ f \notin stored
           /\ \A k \in DOMAIN heap'[1] : \/ k \in DOMAIN heap[1] /\ heap'[1][k] = heap[1][k]
                                        \/ heap'[1][k] = f
<1>1. f \notin AtStake
      BY DEF NothingForgotten, FoldersAdd
<1>2. up /\ heap \in Seq(Seq(Slots)) /\ srv \in Header /\ srv.arr \in DOMAIN heap /\ srv.len <= Len(heap[srv.arr])
      BY DEF Structure, TypeOK, FoldersAdd
<1>3. 1 \in DOMAIN heap /\ heap[srv.arr] \in Seq(Slots) /\ srv.len \in Nat /\ f \in Slots
      BY <1>2 DEF Header, Slots
<1>4. CASE srv.len < Len(heap[srv.arr])
  <2>1. heap' = [heap EXCEPT ![srv.arr][srv.len + 1] = f]
        BY <1>4 DEF FoldersAdd
  <2>2. srv.len + 1 \in DOMAIN heap[srv.arr]
        BY <1>3, <1>4
  <2>3. /\ \A b \in DOMAIN heap : DOMAIN heap'[b] = DOMAIN heap[b]
        /\ \A b \in DOMAIN heap \ {srv.arr} : heap'[b] = heap[b]
        /\ heap'[srv.arr][srv.len + 1] = f
        /\ \A j \in DOMAIN heap[srv.arr] \ {srv.len + 1} : heap'[srv.arr][j] = heap[srv.arr][j]
        BY <1>2, <1>3, <2>1, <2>2, SlotWritten
  <2>4. DOMAIN heap'[1] = DOMAIN heap[1] /\ (srv.arr # 1 => heap'[1] = heap[1])
        BY <1>3, <2>3
  <2> QED  BY <1>1, <2>3, <2>4 DEF AtStake
<1>5. CASE ~(srv.len < Len(heap[srv.arr]))
  <2>1. heap' = Append(heap, Grown(heap[srv.arr], f))
        BY <1>5 DEF FoldersAdd
  <2>2. heap'[1] = heap[1]
        BY <1>2, <1>3, <2>1
  <2> QED  BY <1>1, <2>2 DEF AtStake
<1> QED  BY <1>4, <1>5

LEMMA WalkedNext ==
    ASSUME Structure, ~clobbered => NothingForgotten /\ (engine = "on" => Walked),
           [Next]_vars, ~clobbered', engine' = "on"
    PROVE  Walked'
<1>0. TypeOK /\ Holders /\ TypeOK' /\ Holders' /\ ~clobbered /\ NothingForgotten
      BY StructureNext, ClobberedStays DEF Structure
<1>n. ASSUME pass'.i \in {0, 1}  PROVE Walked'
      BY <1>n DEF Walked
<1>o. pass.i # 0 => engine = "on"
      BY <1>0 DEF Holders, NoPass
<1>w. pass'.i # 0 /\ pass' = pass => Walked
      BY <1>0, <1>o
<1>a. ASSUME pass' = pass, raced' <=> raced, stored' = stored, removed \subseteq removed', heap'[1] = heap[1]
      PROVE  Walked'
      BY <1>a, <1>n, <1>w DEF Walked
<1>1. CASE Start
      BY <1>0, <1>1, <1>n DEF Start, Holders, NoPass
<1>2. CASE Unlock
      BY <1>0, <1>2, <1>a DEF Unlock, memory, history
<1>3. CASE Stop
      BY <1>3, <1>n DEF Stop, NoPass
<1>4. CASE Cli
  <2>1. /\ pass' = pass /\ raced' = raced /\ stored' = stored /\ heap' = heap
        /\ removed \subseteq removed'
        BY <1>4 DEF Cli, CliAdd, CliRemove, CliInit, CliSave, CliKilled, Command, memory, history
  <2> QED  BY <1>a, <2>1
<1>5. CASE BeginPass
      BY <1>5, <1>n DEF BeginPass
<1>6. CASE WalkFolder
  <2>1. /\ pass.i \in Nat /\ pass'.i = pass.i + 1 /\ pass'.seen = pass.seen \cup {heap[1][pass.i]}
        /\ UNCHANGED <<heap, stored, removed, raced>>
        BY <1>0, <1>6 DEF WalkFolder, TypeOK, memory, history
  <2>2. Walked
        BY <1>0, <1>6, <1>o DEF WalkFolder
  <2>3. ASSUME ~raced, NEW k \in 1..(pass'.i - 1), k \in DOMAIN heap[1]
        PROVE  heap[1][k] \in pass'.seen \cup removed \/ heap[1][k] \notin stored
    <3>1. CASE k = pass.i
          BY <2>1, <3>1
    <3>2. CASE k \in 1..(pass.i - 1)
          BY <2>1, <2>2, <2>3, <3>2 DEF Walked
    <3> QED  BY <2>1, <3>1, <3>2
  <2> QED  BY <2>1, <2>3 DEF Walked
<1>7. CASE EndPass
      BY <1>7, <1>n DEF EndPass, NoPass
<1>8. ASSUME NEW h \in Requests, NEW f \in Folders, FoldersAdd(h, f)  PROVE Walked'
  <2>1. UNCHANGED <<engine, pass, raced, stored, removed>>
        BY <1>8 DEF FoldersAdd
  <2>2. Walked
        BY <1>0, <2>1
  <2>3. /\ f \in removed \/ f \notin stored
        /\ \A k \in DOMAIN heap'[1] : \/ k \in DOMAIN heap[1] /\ heap'[1][k] = heap[1][k]
                                     \/ heap'[1][k] = f
        BY <1>0, <1>8, <2>1, AppendedIsNew
  <2>4. ASSUME ~raced, NEW k \in 1..(pass.i - 1), k \in DOMAIN heap'[1]
        PROVE  heap'[1][k] \in pass.seen \cup removed \/ heap'[1][k] \notin stored
    <3>1. CASE k \in DOMAIN heap[1] /\ heap'[1][k] = heap[1][k]
          BY <2>2, <2>4, <3>1 DEF Walked
    <3> QED  BY <2>3, <2>4, <3>1
  <2> QED  BY <2>1, <2>4 DEF Walked
<1>9. ASSUME NEW h \in Requests, NEW f \in Folders, FoldersRemove(h, f)  PROVE Walked'
      BY <1>9, <1>a DEF FoldersRemove
<1>10. ASSUME NEW h \in Requests, Compact(h)  PROVE Walked'
  <2>1. UNCHANGED <<engine, pass, stored, removed>>
        BY <1>10 DEF Compact
  <2>2. CASE UNCHANGED <<heap, raced>>
        BY <1>a, <2>1, <2>2
  <2>3. CASE raced' = (raced \/ (pass.i > 0 /\ heap'[1] # heap[1]))
    <3>1. CASE pass.i = 0
          BY <1>n, <2>1, <3>1
    <3>2. CASE pass.i > 0
      <4>1. CASE raced'
            BY <4>1 DEF Walked
      <4>2. CASE ~raced'
            BY <1>a, <2>1, <2>3, <3>2, <4>2
      <4> QED  BY <4>1, <4>2
    <3> QED  BY <1>0, <3>1, <3>2 DEF TypeOK
  <2> QED  BY <1>10, <2>2, <2>3 DEF Compact
<1>11. ASSUME NEW h \in Requests,
              \/ Compacted(h) \/ Marshal(h) \/ Truncate(h) \/ Write(h)
              \/ \E b \in BOOLEAN : SettingsPut(h, b)
       PROVE  Walked'
      BY <1>11, <1>a DEF Compacted, SettingsPut, Marshal, Truncate, Write, history
<1>12. CASE UNCHANGED vars
      BY <1>12, <1>a DEF vars, memory, history
<1> QED  BY <1>1, <1>2, <1>3, <1>4, <1>5, <1>6, <1>7, <1>8, <1>9, <1>10, <1>11, <1>12 DEF Next, Handler, Pass

-------------------------------------------------------------------------------
(* The inductive invariant and what follows from it.                        *)

LEMMA Invariance == Spec => [](TypeOK /\ IInv)
<1>1. Init => TypeOK /\ IInv
  <2> SUFFICES ASSUME Init  PROVE TypeOK /\ IInv
      OBVIOUS
  <2>1. TypeOK
        BY TypesAtFirst
  <2>2. /\ \A h \in Requests : req[h].pc = "idle"
        /\ cmd.pc = "idle" /\ engine = "none" /\ ~up /\ pass.i = 0 /\ pass.seen = {} /\ pass = NoPass
        /\ stored = Elements(file.folders)
        BY Constants DEF Init, NoCmd, NoPass
  <2>3. Holders /\ Compacting /\ OneWriter
        BY <2>2 DEF Holders, Compacting, OneWriter, Busy
  <2>4. AtStake \subseteq Elements(file.folders)
        BY <2>2 DEF AtStake
  <2>5. NothingForgotten
        BY <2>2, <2>4 DEF NothingForgotten
  <2> QED  BY <2>1, <2>2, <2>3, <2>5 DEF IInv
<1>2. TypeOK /\ IInv /\ [Next]_vars => (TypeOK /\ IInv)'
  <2> SUFFICES ASSUME TypeOK, IInv, [Next]_vars  PROVE (TypeOK /\ IInv)'
      OBVIOUS
  <2>1. Structure /\ (~clobbered => OneWriter /\ NothingForgotten /\ (engine = "on" => Walked))
        BY DEF Structure, IInv
  <2>2. Structure'
        BY <2>1, StructureNext
  <2>3. ~clobbered' => OneWriter'
        BY <2>1, OneWriterNext
  <2>4. ~clobbered' => NothingForgotten'
        BY <2>1, NothingForgottenNext
  <2>5. ~clobbered' => (engine' = "on" => Walked')
        BY <2>1, WalkedNext
  <2> QED  BY <2>2, <2>3, <2>4, <2>5 DEF IInv, Structure
<1> QED  BY <1>1, <1>2, PTL DEF Spec

\* Whatever removals and additions do to the array that server and engine
\* share, a folder that has objects and that nobody removed stays in it.
THEOREM EngineAlwaysSees == Spec => []EngineSeesWhatItStored
<1>1. TypeOK /\ IInv => EngineSeesWhatItStored
  <2> SUFFICES ASSUME TypeOK, IInv, engine = "on", ~clobbered
               PROVE  stored \ removed \subseteq Elements(heap[1])
      BY DEF EngineSeesWhatItStored
  <2>1. stored \ removed \subseteq AtStake
        BY DEF TypeOK, AtStake
  <2>2. AtStake \subseteq Elements(heap[1])
        BY DEF IInv, NothingForgotten
  <2> QED  BY <2>1, <2>2
<1> QED  BY <1>1, Invariance, PTL

\* A handler saves its copy of the configuration after it has released the
\* lock; if nobody else was saving, the file is left with the server's.
THEOREM SavesWhatIsInMemory == Spec => SavedAsInMemory
<1> DEFINE Saved == \A h \in Requests :
                        req[h].pc = "write" /\ req'[h].pc = "idle" /\ up' /\ ~clobbered
                        => file' = [bucket |-> srv.bucket, folders |-> View(srv)]
<1>1. TypeOK /\ IInv /\ [Next]_vars => [Saved]_vars
  <2> SUFFICES ASSUME TypeOK, IInv, [Next]_vars,
                      NEW h \in Requests, req[h].pc = "write", req'[h].pc = "idle", up', ~clobbered
               PROVE  file' = [bucket |-> srv.bucket, folders |-> View(srv)]
      OBVIOUS
  <2>1. Structure /\ OneWriter
        BY DEF IInv, Structure
  <2> QED  BY <2>1, WriteSaves
<1> QED  BY <1>1, Invariance, PTL DEF Spec, SavedAsInMemory

\* A pass deletes objects of a folder that nobody removed only when a removal
\* moved elements under its walk, or the configuration was clobbered.
THEOREM LossOnlyInWindow == Spec => ObjectsLostOnlyInWindow
<1> DEFINE OnlyRemoved == ~clobbered /\ ~raced => stored \ stored' \subseteq removed
<1>1. TypeOK /\ IInv /\ [Next]_vars => [OnlyRemoved]_vars
  <2> SUFFICES ASSUME TypeOK, IInv, [Next]_vars, ~clobbered, ~raced, NEW g \in stored \ stored', g \notin removed
               PROVE  FALSE
      OBVIOUS
  <2>1. EndPass
    <3>1. stored' # stored
          OBVIOUS
    <3> QED  BY <3>1 DEF Next, vars, history, memory, Start, Unlock, Stop, Cli, CliAdd, CliRemove, CliInit,
                CliSave, CliKilled, Command, Pass, BeginPass, WalkFolder, Handler, FoldersAdd, FoldersRemove,
                Compact, Compacted, SettingsPut, Marshal, Truncate, Write
  <2>2. engine = "on" /\ up /\ Walked /\ NothingForgotten
        BY <2>1 DEF EndPass, IInv, Holders, NoPass
  <2>3. g \in AtStake
        BY DEF AtStake, TypeOK
  <2>4. PICK k \in DOMAIN heap[1] : heap[1][k] = g
        BY <2>2, <2>3 DEF NothingForgotten, Elements
  <2>5. k \in 1..(pass.i - 1)
    <3>1. heap \in Seq(Seq(Slots)) /\ srv.arr \in DOMAIN heap /\ pass.i \in Nat /\ pass.i > Len(heap[1])
          BY <2>1, <2>2 DEF TypeOK, EndPass
    <3>2. heap[1] \in Seq(Slots)
          BY <3>1
    <3> QED  BY <2>4, <3>1, <3>2
  <2>6. g \in pass.seen
        BY <2>2, <2>4, <2>5 DEF Walked
  <2>7. g \in stored'
        BY <2>1, <2>6 DEF EndPass
  <2> QED  BY <2>7
<1> QED  BY <1>1, Invariance, PTL DEF Spec, ObjectsLostOnlyInWindow
===============================================================================
