-------------------------------- MODULE Slab --------------------------------
(***************************************************************************)
(* One slab cache (kernel/slab.c) of objects of obj_size units on slabs of *)
(* one page: a descriptor with a bitmap, then the objects.  A slab is      *)
(* named by its page; an object is a pair of its slab and index.  The      *)
(* cache's three lists are in chain (see List).                            *)
(***************************************************************************)
EXTENDS PageHeap, List, FiniteSets, FiniteSetsExt

CONSTANTS
    obj_size, slab_mem_size,    \* units per object, units for objects per slab
    bitmap_length               \* bits per slab

objs_per_slab == slab_mem_size \div obj_size

ASSUME SlabAssumption ==
    /\ obj_size \in Nat \ {0} /\ slab_mem_size \in Nat /\ bitmap_length \in Nat
    /\ objs_per_slab \in 1 .. bitmap_length

VARIABLES
    chain,     \* the lists
    in_use,    \* slab -> number of objects in use
    bitmap,    \* slab -> indices of those
    objects    \* the objects that are allocated

cache == <<chain, in_use, bitmap, objects>>

full    == -1
partial == -2
empty   == -3

slab_cache_create ==
    LET poison == [a \in Pages \cup {full, partial, empty} |-> LIST_POISON]
        l == [next |-> poison, prev |-> poison]
    IN
    /\ chain = INIT_LIST_HEAD(INIT_LIST_HEAD(INIT_LIST_HEAD(l, full), partial), empty)
    /\ in_use = [p \in Pages |-> 0] /\ bitmap = [p \in Pages |-> {}]
    /\ objects = {}

bitmap_ffz(b) == Min((0 .. bitmap_length - 1) \ b)

list_moved(l, p, h) == list_add(list_del(l, p), p, h)

\* Mutant: a slab is full one object too late.
Filed_Late(l, p, n) ==
    IF n > objs_per_slab THEN list_moved(l, p, full)
    ELSE IF n = 1 THEN list_moved(l, p, partial) ELSE l

\* slab_alloc: the list of slab p once it has n objects in use.
Filed(l, p, n) ==
    IF n = objs_per_slab THEN list_moved(l, p, full)
    ELSE IF n = 1 THEN list_moved(l, p, partial) ELSE l

Grant(l, bits, p) ==
    LET zero == bitmap_ffz(bits[p])
    IN
    /\ bitmap' = [bits EXCEPT ![p] = @ \cup {zero}]
    /\ in_use' = [in_use EXCEPT ![p] = @ + 1]
    /\ chain' = Filed(l, p, in_use[p] + 1)
    /\ objects' = objects \cup {<<p, zero>>}

\* get_slab: a partial slab before an empty one before a new one.
NoSlab   == list_empty(chain, partial) /\ list_empty(chain, empty)
get_slab == list_first_entry(chain, IF list_empty(chain, partial) THEN empty ELSE partial)

slab_alloc ==
    /\ ~NoSlab
    /\ Grant(chain, bitmap, get_slab)
    /\ UNCHANGED pages

\* new_slab, in get_slab.  Its in_use is 0: a slab is never given back.
slab_alloc_new(start) ==
    /\ NoSlab
    /\ kalloc_pages(1, start)
    /\ Grant(list_add(chain, start, partial), [bitmap EXCEPT ![start] = {}], start)

\* find_slab looks in the full list, then in the partial one.
find_slab(p) ==
    \/ list_find(chain, full, LAMBDA s : s = p) = p
    \/ list_find(chain, partial, LAMBDA s : s = p) = p

\* Mutant: a slab that was full stays in that list.
Refiled_Stays(p, n) == IF n = 0 THEN list_moved(chain, p, empty) ELSE chain

\* slab_free: the list of slab p once it has n objects in use.
Refiled(p, n) ==
    IF n = 0 THEN list_moved(chain, p, empty)
    ELSE IF n + 1 = objs_per_slab THEN list_moved(chain, p, partial) ELSE chain

\* An object whose slab is not found is reported and stays allocated.
slab_free(o) ==
    LET p == o[1]
    IN
    /\ o \in objects
    /\ objects' = objects \ {o}
    /\ bitmap' = IF find_slab(p) THEN [bitmap EXCEPT ![p] = @ \ {o[2]}] ELSE bitmap
    /\ in_use' = IF find_slab(p) THEN [in_use EXCEPT ![p] = @ - 1] ELSE in_use
    /\ chain' = IF find_slab(p) THEN Refiled(p, in_use[p] - 1) ELSE chain
    /\ UNCHANGED pages
=============================================================================
