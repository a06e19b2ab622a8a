---------------------------- MODULE MCTokenBuckets ----------------------------
(* TokenBuckets for TLC: time and the number of uploads are bounded.         *)
EXTENDS TokenBuckets

CONSTANTS MaxTime, MaxUploads

MCNext ==
    \/ Tick /\ now < MaxTime
    \/ \E k \in Routes : LetIn(k) \/ Refuse(k)
    \/ \E w \in Passes : Upload(w) /\ granted'[w] <= Rate * MaxUploads

MCSpec == Init /\ [][MCNext]_vars
===============================================================================
