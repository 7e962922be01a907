----------------------------- MODULE MCFlexbuf ------------------------------
(* Instances of Flexbuf: pages of three bytes and a pipe of one page, as in *)
(* the kernel, or a longer queue. *)
EXTENDS Flexbuf

MCBytes == {1, 2}
=============================================================================
