-------------------------------- MODULE Heap --------------------------------
(***************************************************************************)
(* The kernel's dynamic memory: kmalloc and a slab cache take their pages  *)
(* from kalloc_pages, as do buffers and flexbufs directly, in any order of *)
(* calls.  owner records what each page was allocated for, runs the page   *)
(* runs that callers hold themselves.                                      *)
(***************************************************************************)
EXTENDS Kmalloc, Slab

CONSTANTS
    Sizes,       \* sizes kmalloc is called with, in units
    RunLengths   \* lengths kalloc_pages is called with

ASSUME RequestsAssumption == Sizes \subseteq Nat \ {0} /\ RunLengths \subseteq Nat \ {0}

VARIABLES owner, runs

vars == <<pages, heap, cache, owner, runs>>

Init ==
    /\ frame_pool_init /\ kmalloc_init /\ slab_cache_create
    /\ owner = [p \in Pages |-> "none"]
    /\ runs = {}

Owned(start, n, who) ==
    owner' = [p \in Pages |-> IF p \in Run(start, n) THEN who ELSE owner[p]]

KmallocFit(size) == hmalloc_fit(size) /\ UNCHANGED <<cache, owner, runs>>

KmallocGrow(size, start) ==
    /\ hmalloc_grow(size, start)
    /\ Owned(start, pages_needed(size), "kmalloc")
    /\ UNCHANGED <<cache, runs>>

Kfree(p) == hfree(p) /\ UNCHANGED <<cache, owner, runs>>

SlabAlloc == slab_alloc /\ UNCHANGED <<heap, owner, runs>>

SlabGrow(start) ==
    /\ slab_alloc_new(start)
    /\ Owned(start, 1, "slab")
    /\ UNCHANGED <<heap, runs>>

SlabFree(o) == slab_free(o) /\ UNCHANGED <<heap, owner, runs>>

PagesAlloc(n, start) ==
    /\ kalloc_pages(n, start)
    /\ Owned(start, n, "caller")
    /\ runs' = runs \cup {<<start, n>>}
    /\ UNCHANGED <<heap, cache>>

PagesFree(r) ==
    /\ r \in runs
    /\ kfree_pages(r[1], r[2])
    /\ Owned(r[1], r[2], "none")
    /\ runs' = runs \ {r}
    /\ UNCHANGED <<heap, cache>>

Next ==
    \/ \E size \in Sizes : KmallocFit(size) \/ \E start \in Pages : KmallocGrow(size, start)
    \/ \E p \in used : Kfree(p)
    \/ SlabAlloc
    \/ \E start \in Pages : SlabGrow(start)
    \/ \E o \in objects : SlabFree(o)
    \/ \E n \in RunLengths, start \in Pages : PagesAlloc(n, start)
    \/ \E r \in runs : PagesFree(r)

Spec == Init /\ [][Next]_vars

-----------------------------------------------------------------------------
(* Properties *)

Slabs == {p \in Pages : owner[p] = "slab"}

Blocks         == {a \in Addresses : header[a].magic # "none"}
BlockUnits(a)  == a + 1 .. a + header[a].size
ObjectUnits(o) ==
    LET first == ((o[1] + 1) * PageUnits - slab_mem_size) + o[2] * obj_size
    IN  first .. (first + obj_size) - 1
RunUnits(r)    == r[1] * PageUnits .. ((r[1] + r[2]) * PageUnits) - 1

\* The units of everything callers hold, and what the allocators keep between
\* them: headers and slab descriptors.
Held ==
    {BlockUnits(a) : a \in used} \cup {ObjectUnits(o) : o \in objects} \cup {RunUnits(r) : r \in runs}
Bookkeeping ==
    Blocks \cup UNION {p * PageUnits .. ((p + 1) * PageUnits - slab_mem_size) - 1 : p \in Slabs}

\* No two callers of kmalloc, slab_alloc and kalloc_pages ever hold the same
\* memory, none holds a header or a slab descriptor, and what they hold is
\* mapped, whatever the order of allocations and frees.
AllocationsDisjoint ==
    /\ Cardinality(Held) = Cardinality(used) + Cardinality(objects) + Cardinality(runs)
    /\ \A x, y \in Held : x # y => x \cap y = {}
    /\ \A x \in Held : x \cap Bookkeeping = {} /\ \A u \in x : u \div PageUnits \in mapped

\* Headers h divide the units K among the blocks: the blocks are in K, and
\* each unit is in exactly one of them, as its header or in its data.
Extent(h, a) == a .. a + h[a].size
BlocksOf(h)  == {a \in Addresses : h[a].magic # "none"}
Tiled(h, K)  ==
    /\ \A a \in BlocksOf(h) : Extent(h, a) \subseteq K
    /\ \A u \in K : \E a \in BlocksOf(h) : \A b \in BlocksOf(h) : u \in Extent(h, b) <=> b = a

\* Splitting and reusing blocks (hmalloc, hfree) neither loses memory nor lets
\* blocks overlap: the blocks divide the pages kmalloc has taken.
HeapTiled == Tiled(header, {u \in Addresses : owner[u \div PageUnits] = "kmalloc"})

\* A list is a ring: following next from its head comes back to it, and prev
\* is the way back.
Ring(l, h) ==
    /\ list_walk_ends(l, h)
    /\ \A x \in list_nodes(l, h) \cup {h} : l.prev[l.next[x]] = x

\* hmalloc moves a list entry to a header inside the block it belongs to, and
\* slab_alloc and slab_free move slabs between lists as they fill and empty.
\* The free list always links exactly the blocks nobody holds; each slab is
\* in the list for the number of objects in use, which is what its bitmap
\* says.
ListsSound ==
    /\ Ring(free, free_list) /\ list_nodes(free, free_list) = Blocks \ used
    /\ \A h \in {full, partial, empty} : Ring(chain, h)
    /\ list_nodes(chain, full) = {p \in Slabs : in_use[p] = objs_per_slab}
    /\ list_nodes(chain, partial) = {p \in Slabs : in_use[p] \in 1 .. objs_per_slab - 1}
    /\ list_nodes(chain, empty) = {p \in Slabs : in_use[p] = 0}
    /\ \A p \in Pages : in_use[p] = Cardinality(bitmap[p]) /\ bitmap[p] = {o[2] : o \in {q \in objects : q[1] = p}}

\* A page is mapped exactly while somebody owns it.
MappedIsOwned == mapped = {p \in Pages : owner[p] # "none"}

\* A page passes from one user to another only by way of kfree_pages: an
\* allocation never maps a page that is in use.
OwnersApart ==
    [][\A p \in Pages : owner[p] = owner[p]' \/ "none" \in {owner[p], owner[p]'}]_vars
=============================================================================
