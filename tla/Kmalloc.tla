------------------------------ MODULE Kmalloc -------------------------------
(***************************************************************************)
(* kmalloc and kfree (kernel/kmalloc.c).  Memory is counted in units of 16 *)
(* bytes, the alignment of hmalloc and the size of a struct mem_header;    *)
(* PageUnits of them are a page.  A block is named by the address of its   *)
(* header; its data are the units behind it.  The chains of the headers    *)
(* are in free, a heap of list nodes (see List) with the head free_list.   *)
(***************************************************************************)
EXTENDS PageHeap, List, FiniteSets

CONSTANT PageUnits

ASSUME UnitsAssumption == PageUnits \in Nat \ {0}

VARIABLES
    free,     \* the chains
    header,   \* address -> size and magic of the header there
    used      \* the headers of the blocks that are allocated

heap == <<free, header, used>>

free_list == -1
Addresses == FirstPage * PageUnits .. ((LastPage + 1) * PageUnits) - 1

NoHeader == [size |-> 0, magic |-> "none"]

kmalloc_init ==
    /\ free = INIT_LIST_HEAD([next |-> [a \in Addresses \cup {free_list} |-> LIST_POISON],
                              prev |-> [a \in Addresses \cup {free_list} |-> LIST_POISON]], free_list)
    /\ header = [a \in Addresses |-> NoHeader]
    /\ used = {}

pages_needed(size) == (size + PageUnits) \div PageUnits

\* Mutant: the header of the second part is not taken from its size.
Carve_NoHeader(l, h, p, size) ==
    LET r == p + 1 + size
    IN
    /\ used' = used \cup {p}
    /\ IF h[p].size - size <= 2
       THEN /\ header' = [h EXCEPT ![p].magic = "MAGIC_OK"]
            /\ free' = list_del(l, p)
       ELSE /\ header' = [h EXCEPT ![r] = [size |-> h[p].size - size, magic |-> "MAGIC_FREE"],
                                   ![p] = [size |-> size, magic |-> "MAGIC_OK"]]
            /\ free' = list_replace(l, p, r)

\* The end of hmalloc: take the whole block p, or split it.
Carve(l, h, p, size) ==
    LET r == p + 1 + size
    IN
    /\ used' = used \cup {p}
    /\ IF h[p].size - size <= 2
       THEN /\ header' = [h EXCEPT ![p].magic = "MAGIC_OK"]
            /\ free' = list_del(l, p)
       ELSE /\ header' = [h EXCEPT ![r] = [size |-> h[p].size - size - 1, magic |-> "MAGIC_FREE"],
                                   ![p] = [size |-> size, magic |-> "MAGIC_OK"]]
            /\ free' = list_replace(l, p, r)

FirstFit(size) == list_find(free, free_list, LAMBDA a : header[a].size >= size)

\* From the free list...
hmalloc_fit(size) ==
    /\ FirstFit(size) # free_list
    /\ Carve(free, header, FirstFit(size), size)
    /\ UNCHANGED pages

\* ... or from new pages, which become a block first.
hmalloc_grow(size, start) ==
    /\ FirstFit(size) = free_list
    /\ kalloc_pages(pages_needed(size), start)
    /\ LET p == start * PageUnits
       IN  Carve(list_add(free, p, free_list),
                 [header EXCEPT ![p].size = (pages_needed(size) * PageUnits) - 1], p, size)

\* hfree leaves the magic number as it is: of two frees of one block it
\* detects none.  Callers free what they have allocated, once.
hfree(p) ==
    /\ p \in used /\ header[p].magic = "MAGIC_OK"
    /\ free' = list_add(free, p, free_list)
    /\ used' = used \ {p}
    /\ UNCHANGED <<header, pages>>
=============================================================================
