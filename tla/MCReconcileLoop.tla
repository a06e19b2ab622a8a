--------------------------- MODULE MCReconcileLoop ---------------------------
(* Instances of ReconcileLoop for TLC: a folder, a directory in it.          *)
EXTENDS ReconcileLoop

CONSTANTS root, sub

ParentOf == [d \in {sub} |-> root]
===============================================================================
