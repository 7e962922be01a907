------------------------------ MODULE PageHeap ------------------------------
(***************************************************************************)
(* The pages of the kernel's heap (kernel/paging.c): kalloc_pages maps a   *)
(* run of consecutive pages, kfree_pages unmaps one.  A page is the number *)
(* of a virtual page from FirstPage on, where frame_pool_init puts the     *)
(* heap, to LastPage.  The frames behind the pages are in Memory.          *)
(*                                                                         *)
(* The code searches without a limit ("TODO: if (i == LIMIT) fail()"); the *)
(* model allocates only what fits below LastPage.                          *)
(***************************************************************************)
EXTENDS Integers

CONSTANTS FirstPage, LastPage

ASSUME PagesAssumption ==
    FirstPage \in Nat \ {0} /\ LastPage \in Nat /\ LastPage + 1 >= FirstPage

VARIABLES
    mapped,       \* the pages whose entries have PE_P
    first_free    \* where the search for free pages begins

pages == <<mapped, first_free>>

Pages == FirstPage .. LastPage

Run(start, n) == start .. (start + n) - 1

IsFree(start, n) == \A i \in Run(start, n) : i \notin mapped

frame_pool_init == mapped = {} /\ first_free = FirstPage

\* Mutant: a mapped page does not reset the count.
find_run_Gaps(n, start) ==
    /\ start >= first_free /\ start \notin mapped
    /\ \A i \in Run(first_free, start - first_free) : i \in mapped

\* The first loop: the first n consecutive free pages from first_free on.
find_run(n, start) ==
    /\ start >= first_free /\ IsFree(start, n)
    /\ \A i \in Run(first_free, start - first_free) : ~IsFree(i, n)

\* The last loop: the first free page behind the run.
next_free(from, f) ==
    /\ f >= from /\ f \notin mapped
    /\ \A i \in Run(from, f - from) : i \in mapped

kalloc_pages(n, start) ==
    /\ Run(start, n) \subseteq Pages
    /\ find_run(n, start)
    /\ mapped' = mapped \cup Run(start, n)
    /\ IF start = first_free
       THEN \E f \in start + n .. LastPage + 1 : next_free(start + n, f) /\ first_free' = f
       ELSE UNCHANGED first_free

\* Mutant: first_free only moves up.
kfree_pages_NoHint(start, n) ==
    /\ mapped' = mapped \ Run(start, n)
    /\ UNCHANGED first_free

kfree_pages(start, n) ==
    /\ mapped' = mapped \ Run(start, n)
    /\ first_free' = IF start < first_free THEN start ELSE first_free

\* kalloc_pages searches only from first_free on, and kfree_pages lowers it:
\* no free page is ever below it, and it is free itself.
FirstFreeLeast ==
    /\ first_free \notin mapped
    /\ \A i \in Pages : i < first_free => i \in mapped
=============================================================================
