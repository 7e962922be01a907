------------------------------- MODULE MCHeap -------------------------------
(* An instance of Heap: pages of a few units, two objects per slab. *)
EXTENDS Heap
=============================================================================
