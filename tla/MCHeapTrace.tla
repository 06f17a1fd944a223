----------------------------- MODULE MCHeapTrace -----------------------------
(***************************************************************************)
(* HeapTrace with the values of MCHeap.                                    *)
(***************************************************************************)
EXTENDS MCHeap, HeapTrace
==============================================================================
