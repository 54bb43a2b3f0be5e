----------------------------- MODULE MCHeapOps ------------------------------
(* Constants for model checking HeapAlone: every heap of up to 12 timers.  *)
EXTENDS HeapAlone

ThirteenItems == 1..13
=============================================================================
