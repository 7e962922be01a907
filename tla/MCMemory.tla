------------------------------ MODULE MCMemory ------------------------------
(***************************************************************************)
(* The instance of Memory.  Page 0 is free, an image goes to page 1, the   *)
(* heap is page 2 at first, the user stack page 5.                         *)
(***************************************************************************)
EXTENDS Memory

\* init only forks and the last process only exits; the one between them does
\* everything, on frames that it shares with one or both.
MCProgram == <<{"fork"}, {"fork", "mmap", "munmap", "sbrk", "execve", "exit"}, {"exit"}>>

RO == {"VM_READ"}
RW == {"VM_READ", "VM_WRITE"}

\* two pages at a given place, with a length that is not a multiple of a page,
\* nothing at the same place, and a page of a file wherever there is room
MCMmaps == {<<6, 3, RW, "anon", TRUE>>, <<6, 0, RW, "anon", TRUE>>, <<0, 2, RO, "file", FALSE>>}

\* the page behind the first heap page, which is the first half of the fixed
\* mapping; that page and the heap
MCRanges == {<<6, 2>>, <<4, 3>>}

\* more than a page, and a page back
MCIncs == {3, -2}
=============================================================================
