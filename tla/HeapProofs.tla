----------------------------- MODULE HeapProofs -----------------------------
(***************************************************************************)
(* Proofs about the kernel's heap, for every number of pages, every page   *)
(* size, and all sizes and lengths of requests: first_free, the owners of  *)
(* pages, and kmalloc's blocks.                                            *)
(***************************************************************************)
EXTENDS Heap, TLAPS

Owners == {"none", "kmalloc", "slab", "caller"}

\* Where the variables of the page allocator and its ledger range.
PageTypes ==
    /\ mapped \subseteq Pages
    /\ first_free \in FirstPage .. LastPage + 1
    /\ owner \in [Pages -> Owners]
    /\ runs \subseteq (Pages \X (Nat \ {0}))

\* The runs that callers hold are theirs, and no two share a page.
RunsOwned ==
    /\ \A r \in runs : \A i \in Run(r[1], r[2]) : i \in Pages /\ owner[i] = "caller"
    /\ \A r, s \in runs : r # s => Run(r[1], r[2]) \cap Run(s[1], s[2]) = {}

\* The inductive invariant: kfree_pages keeps MappedIsOwned only because the
\* pages of a run have one owner, and kalloc_pages keeps RunsOwned only
\* because mapped says which pages are owned.
PageInv == PageTypes /\ FirstFreeLeast /\ MappedIsOwned /\ RunsOwned

-----------------------------------------------------------------------------
\* The run kalloc_pages finds is free and inside the heap, and first_free
\* stays the least free page.
LEMMA AllocPages ==
    ASSUME PageTypes, FirstFreeLeast,
           NEW n \in Nat \ {0}, NEW start \in Pages, kalloc_pages(n, start)
    PROVE  /\ Run(start, n) \subseteq Pages
           /\ \A i \in Run(start, n) : i \notin mapped
           /\ mapped' = mapped \cup Run(start, n)
           /\ mapped' \subseteq Pages
           /\ first_free' \in FirstPage .. LastPage + 1
           /\ FirstFreeLeast'
  <1> USE PagesAssumption
  <1>1. /\ Run(start, n) \subseteq Pages
        /\ \A i \in Run(start, n) : i \notin mapped
        /\ mapped' = mapped \cup Run(start, n)
        /\ start >= first_free
    BY DEF kalloc_pages, find_run, IsFree
  <1>2. mapped' \subseteq Pages
    BY <1>1 DEF PageTypes
  <1>3. CASE start = first_free
    <2>1. PICK f \in start + n .. LastPage + 1 : next_free(start + n, f) /\ first_free' = f
      BY <1>3 DEF kalloc_pages
    <2>2. f \notin mapped /\ \A i \in start + n .. f - 1 : i \in mapped
      BY <2>1 DEF next_free, Run, Pages
    <2>3. f \notin mapped'
      BY <1>1, <2>1, <2>2 DEF Run, Pages
    <2>4. ASSUME NEW i \in Pages, i < f PROVE i \in mapped'
      <3>1. CASE i < first_free
        BY <3>1, <1>1 DEF FirstFreeLeast
      <3>2. CASE i \in start .. (start + n) - 1
        BY <3>2, <1>1 DEF Run
      <3>3. CASE i \in start + n .. f - 1
        BY <3>3, <1>1, <2>2
      <3> QED BY <3>1, <3>2, <3>3, <2>4, <1>3 DEF Pages
    <2> QED BY <1>1, <1>2, <2>1, <2>3, <2>4 DEF FirstFreeLeast, Pages, PageTypes
  <1>4. CASE start # first_free
    <2>1. first_free' = first_free
      BY <1>4 DEF kalloc_pages
    <2>2. first_free \notin Run(start, n)
      BY <1>1, <1>4 DEF Run, PageTypes, Pages
    <2> QED BY <1>1, <1>2, <2>1, <2>2 DEF FirstFreeLeast, PageTypes
  <1> QED BY <1>3, <1>4

\* Whoever takes pages from kalloc_pages becomes their only owner.
LEMMA AllocKeeps ==
    ASSUME PageInv,
           NEW n \in Nat \ {0}, NEW start \in Pages, NEW who \in Owners \ {"none"},
           kalloc_pages(n, start), Owned(start, n, who),
           \/ UNCHANGED runs
           \/ who = "caller" /\ runs' = runs \cup {<<start, n>>}
    PROVE  PageInv' /\ \A p \in Pages : owner[p] = owner'[p] \/ owner[p] = "none"
  <1>1. /\ Run(start, n) \subseteq Pages
        /\ \A i \in Run(start, n) : i \notin mapped
        /\ mapped' = mapped \cup Run(start, n)
        /\ mapped' \subseteq Pages
        /\ first_free' \in FirstPage .. LastPage + 1
        /\ FirstFreeLeast'
    BY AllocPages DEF PageInv
  <1>2. owner' = [p \in Pages |-> IF p \in Run(start, n) THEN who ELSE owner[p]]
    BY DEF Owned
  <1>3. \A i \in Run(start, n) : owner[i] = "none"
    BY <1>1 DEF PageInv, MappedIsOwned
  <1>4. owner' \in [Pages -> Owners]
    BY <1>2 DEF PageInv, PageTypes
  <1>5. runs' \subseteq (Pages \X (Nat \ {0}))
    BY DEF PageInv, PageTypes
  <1>6. MappedIsOwned'
    BY <1>1, <1>2 DEF PageInv, MappedIsOwned, Owners
  <1>7. \A r \in runs : \A i \in Run(r[1], r[2]) : i \in Pages /\ owner[i] = "caller" /\ i \notin Run(start, n)
    BY <1>3 DEF PageInv, RunsOwned
  <1>8. \A r \in runs : \A i \in Run(r[1], r[2]) : i \in Pages /\ owner'[i] = "caller"
    BY <1>7, <1>2
  <1>9. RunsOwned'
    <2>1. CASE UNCHANGED runs
      BY <2>1, <1>8 DEF PageInv, RunsOwned, Run
    <2>2. CASE who = "caller" /\ runs' = runs \cup {<<start, n>>}
      <3>1. \A i \in Run(start, n) : i \in Pages /\ owner'[i] = "caller"
        BY <2>2, <1>1, <1>2
      <3>2. \A r \in runs' : \A i \in Run(r[1], r[2]) : i \in Pages /\ owner'[i] = "caller"
        BY <2>2, <3>1, <1>8
      <3>3. \A r \in runs : Run(r[1], r[2]) \cap Run(start, n) = {}
        BY <1>7
      <3>4. \A r, s \in runs' : r # s => Run(r[1], r[2]) \cap Run(s[1], s[2]) = {}
        BY <2>2, <3>3 DEF PageInv, RunsOwned
      <3> QED BY <3>2, <3>4 DEF RunsOwned, Run
    <2> QED BY <2>1, <2>2
  <1>10. PageInv'
    BY <1>1, <1>4, <1>5, <1>6, <1>9 DEF PageInv, PageTypes
  <1> QED BY <1>10, <1>2, <1>3

\* A run that is given back becomes free, and only that run.
LEMMA FreeKeeps ==
    ASSUME PageInv, NEW r \in runs, PagesFree(r)
    PROVE  PageInv' /\ \A p \in Pages : owner[p] = owner'[p] \/ owner'[p] = "none"
  <1> USE PagesAssumption
  <1> DEFINE R == Run(r[1], r[2])
  <1>1. /\ mapped' = mapped \ R
        /\ first_free' = IF r[1] < first_free THEN r[1] ELSE first_free
        /\ owner' = [p \in Pages |-> IF p \in R THEN "none" ELSE owner[p]]
        /\ runs' = runs \ {r}
    BY DEF PagesFree, kfree_pages, Owned
  <1>2. r[1] \in Pages /\ r[2] \in Nat \ {0} /\ r[1] \in R
    BY DEF PageInv, PageTypes, Run, Pages
  <1>3. \A i \in R : i \in Pages /\ owner[i] = "caller"
    BY DEF PageInv, RunsOwned
  <1>4. PageTypes'
    <2>1. mapped' \subseteq Pages /\ runs' \subseteq (Pages \X (Nat \ {0}))
      BY <1>1 DEF PageInv, PageTypes
    <2>2. first_free' \in FirstPage .. LastPage + 1
      BY <1>1, <1>2 DEF PageInv, PageTypes, Pages
    <2>3. owner' \in [Pages -> Owners]
      BY <1>1 DEF PageInv, PageTypes, Owners
    <2> QED BY <2>1, <2>2, <2>3 DEF PageTypes
  <1>5. MappedIsOwned'
    BY <1>1, <1>3 DEF PageInv, MappedIsOwned
  <1>6. FirstFreeLeast'
    <2>1. first_free' \notin mapped'
      BY <1>1, <1>2 DEF PageInv, FirstFreeLeast
    <2>2. ASSUME NEW i \in Pages, i < first_free' PROVE i \in mapped'
      <3>1. i < first_free /\ i < r[1]
        BY <2>2, <1>1, <1>2 DEF PageInv, PageTypes, Pages
      <3>2. i \notin R
        BY <3>1, <1>2 DEF Run, Pages
      <3> QED BY <3>1, <3>2, <1>1 DEF PageInv, FirstFreeLeast
    <2> QED BY <2>1, <2>2 DEF FirstFreeLeast, Pages
  <1>7. RunsOwned'
    <2>1. \A s \in runs' : Run(s[1], s[2]) \cap R = {}
      BY <1>1 DEF PageInv, RunsOwned
    <2>2. \A s \in runs' : \A i \in Run(s[1], s[2]) : i \in Pages /\ owner'[i] = "caller"
      BY <1>1, <2>1 DEF PageInv, RunsOwned
    <2> QED BY <1>1, <2>2 DEF PageInv, RunsOwned, Run
  <1> QED BY <1>1, <1>4, <1>5, <1>6, <1>7 DEF PageInv

\* A request of any size needs at least one page.
LEMMA PagesNeeded ==
    ASSUME NEW size \in Nat
    PROVE  pages_needed(size) \in Nat \ {0}
  BY UnitsAssumption, SMTT(30) DEF pages_needed

\* Every step keeps the invariant and moves no page from owner to owner.
LEMMA StepKeeps ==
    ASSUME PageInv, [Next]_vars
    PROVE  /\ PageInv'
           /\ \A p \in Pages : owner[p] = owner'[p] \/ "none" \in {owner[p], owner'[p]}
  <1>1. CASE UNCHANGED <<pages, owner, runs>>
    BY <1>1 DEF PageInv, PageTypes, FirstFreeLeast, MappedIsOwned, RunsOwned, pages, Pages, Run
  <1>2. ASSUME NEW size \in Sizes, NEW start \in Pages, KmallocGrow(size, start)
        PROVE  /\ PageInv'
               /\ \A p \in Pages : owner[p] = owner'[p] \/ "none" \in {owner[p], owner'[p]}
    <2>1. pages_needed(size) \in Nat \ {0}
      BY PagesNeeded, RequestsAssumption
    <2>2. /\ kalloc_pages(pages_needed(size), start)
          /\ Owned(start, pages_needed(size), "kmalloc")
          /\ UNCHANGED runs
      BY <1>2 DEF KmallocGrow, hmalloc_grow
    <2> HIDE DEF pages_needed
    <2> QED BY <2>1, <2>2, AllocKeeps DEF Owners
  <1>3. ASSUME NEW start \in Pages, SlabGrow(start)
        PROVE  /\ PageInv'
               /\ \A p \in Pages : owner[p] = owner'[p] \/ "none" \in {owner[p], owner'[p]}
    <2>1. kalloc_pages(1, start) /\ Owned(start, 1, "slab") /\ UNCHANGED runs
      BY <1>3 DEF SlabGrow, slab_alloc_new
    <2> QED BY <2>1, AllocKeeps DEF Owners
  <1>4. ASSUME NEW n \in RunLengths, NEW start \in Pages, PagesAlloc(n, start)
        PROVE  /\ PageInv'
               /\ \A p \in Pages : owner[p] = owner'[p] \/ "none" \in {owner[p], owner'[p]}
    <2>1. n \in Nat \ {0}
      BY RequestsAssumption
    <2>2. kalloc_pages(n, start) /\ Owned(start, n, "caller") /\ runs' = runs \cup {<<start, n>>}
      BY <1>4 DEF PagesAlloc
    <2> QED BY <2>1, <2>2, AllocKeeps DEF Owners
  <1>5. ASSUME NEW r \in runs, PagesFree(r)
        PROVE  /\ PageInv'
               /\ \A p \in Pages : owner[p] = owner'[p] \/ "none" \in {owner[p], owner'[p]}
    BY <1>5, FreeKeeps
  <1>6. ASSUME NEW size \in Sizes, KmallocFit(size) PROVE UNCHANGED <<pages, owner, runs>>
    BY <1>6 DEF KmallocFit, hmalloc_fit
  <1>7. ASSUME NEW p \in used, Kfree(p) PROVE UNCHANGED <<pages, owner, runs>>
    BY <1>7 DEF Kfree, hfree
  <1>8. ASSUME SlabAlloc PROVE UNCHANGED <<pages, owner, runs>>
    BY <1>8 DEF SlabAlloc, slab_alloc
  <1>9. ASSUME NEW o \in objects, SlabFree(o) PROVE UNCHANGED <<pages, owner, runs>>
    BY <1>9 DEF SlabFree, slab_free
  <1>10. ASSUME UNCHANGED vars PROVE UNCHANGED <<pages, owner, runs>>
    BY <1>10 DEF vars
  <1> QED
    BY <1>1, <1>2, <1>3, <1>4, <1>5, <1>6, <1>7, <1>8, <1>9, <1>10 DEF Next

\* The state frame_pool_init leaves satisfies the invariant.
LEMMA InitKeeps ==
    ASSUME Init
    PROVE  PageInv
  BY PagesAssumption
     DEF Init, frame_pool_init, PageInv, PageTypes, FirstFreeLeast, MappedIsOwned, RunsOwned, Pages, Owners

-----------------------------------------------------------------------------
(* Units and pages *)

\* Multiplication by the page size keeps the order.
LEMMA TimesMonotone ==
    ASSUME NEW a \in Nat, NEW b \in Nat, NEW m \in Nat, a >= b
    PROVE  a * m >= b * m
  <1>1. (a - b) * m >= 0
    BY SMT
  <1> QED BY <1>1, SMT

\* A unit is in page s or a later one from the first unit of s on.
LEMMA PageOfUnit ==
    ASSUME NEW u \in Nat, NEW m \in Nat \ {0}, NEW s \in Nat
    PROVE  u \div m \in Nat /\ (u \div m >= s <=> u >= s * m)
  <1>1. PICK q \in Nat, r \in 0 .. m - 1 : q = u \div m /\ u = (q * m) + r
    <2>1. u \div m \in Nat /\ u % m \in 0 .. m - 1 /\ u = ((u \div m) * m) + (u % m)
      BY SMT
    <2> QED BY <2>1
  <1>2. q >= s => q * m >= s * m
    BY TimesMonotone
  <1>3. s >= q + 1 => s * m >= (q + 1) * m
    BY TimesMonotone
  <1>4. (q + 1) * m = (q * m) + m /\ q * m \in Nat /\ s * m \in Nat
    BY SMT
  <1> QED BY <1>1, <1>2, <1>3, <1>4, SMT

\* The pages hmalloc asks for hold a header and the block.
LEMMA PagesSuffice ==
    ASSUME NEW size \in Nat
    PROVE  pages_needed(size) * PageUnits >= size + 1
  <1>1. PICK q \in Nat, r \in 0 .. PageUnits - 1 :
            q = (size + PageUnits) \div PageUnits /\ size + PageUnits = (q * PageUnits) + r
    <2>1. LET u == size + PageUnits
          IN  /\ u \div PageUnits \in Nat /\ u % PageUnits \in 0 .. PageUnits - 1
              /\ u = ((u \div PageUnits) * PageUnits) + (u % PageUnits)
      BY UnitsAssumption, SMT
    <2> QED BY <2>1
  <1> QED BY <1>1, UnitsAssumption, SMT DEF pages_needed

\* The units of a run of pages of the heap.
LEMMA UnitsOfRun ==
    ASSUME NEW start \in Pages, NEW n \in Nat \ {0}, Run(start, n) \subseteq Pages
    PROVE  /\ start * PageUnits \in Addresses
           /\ n * PageUnits \in Nat
           /\ \A u \in Addresses : u \in Nat /\ u \div PageUnits \in Pages
           /\ \A u : u \in Addresses /\ u \div PageUnits \in Run(start, n)
                     <=> u \in start * PageUnits .. (start * PageUnits + n * PageUnits) - 1
  <1> USE PagesAssumption, UnitsAssumption
  <1>1. /\ start \in Nat /\ start >= FirstPage /\ start + n <= LastPage + 1
    BY DEF Run, Pages
  <1>2. /\ start * PageUnits >= FirstPage * PageUnits
        /\ (LastPage + 1) * PageUnits >= (start + n) * PageUnits
    BY <1>1, TimesMonotone
  <1>3. /\ FirstPage * PageUnits \in Nat /\ (LastPage + 1) * PageUnits \in Nat
        /\ start * PageUnits \in Nat /\ n * PageUnits \in Nat /\ n * PageUnits >= 1
        /\ (start + n) * PageUnits = (start * PageUnits) + (n * PageUnits)
    BY <1>1, SMT
  <1>4. ASSUME NEW u \in Nat
        PROVE  /\ u \div PageUnits \in Nat
               /\ u \div PageUnits >= FirstPage <=> u >= FirstPage * PageUnits
               /\ u \div PageUnits >= LastPage + 1 <=> u >= (LastPage + 1) * PageUnits
               /\ u \div PageUnits >= start <=> u >= start * PageUnits
               /\ u \div PageUnits >= start + n <=> u >= (start + n) * PageUnits
    <2>1. u \div PageUnits >= FirstPage <=> u >= FirstPage * PageUnits
      BY PageOfUnit
    <2>2. u \div PageUnits >= LastPage + 1 <=> u >= (LastPage + 1) * PageUnits
      BY PageOfUnit, LastPage + 1 \in Nat
    <2>3. u \div PageUnits >= start <=> u >= start * PageUnits
      BY <1>1, PageOfUnit
    <2>4. u \div PageUnits >= start + n <=> u >= (start + n) * PageUnits
      BY <1>1, PageOfUnit, start + n \in Nat
    <2>5. u \div PageUnits \in Nat
      BY PageOfUnit
    <2> QED BY <2>1, <2>2, <2>3, <2>4, <2>5
  <1>5. \A u \in Addresses : u \in Nat
    BY <1>3 DEF Addresses
  <1>6. \A u \in Addresses : u \div PageUnits \in Pages
    BY <1>3, <1>4, <1>5, SMT DEF Addresses, Pages
  <1>7. start * PageUnits \in Addresses
    BY <1>2, <1>3 DEF Addresses
  <1>8. ASSUME NEW u \in Addresses, u \div PageUnits \in Run(start, n)
        PROVE  u \in start * PageUnits .. (start * PageUnits + n * PageUnits) - 1
    <2>1. u \in Nat /\ u \div PageUnits \in Nat
      BY <1>4, <1>5
    <2>2. u \div PageUnits >= start /\ ~(u \div PageUnits >= start + n)
      BY <2>1, <1>1, <1>8 DEF Run
    <2>3. u >= start * PageUnits /\ ~(u >= (start + n) * PageUnits)
      BY <2>1, <2>2, <1>4
    <2> QED BY <2>1, <2>3, <1>3
  <1>9. ASSUME NEW u, u \in start * PageUnits .. (start * PageUnits + n * PageUnits) - 1
        PROVE  u \in Addresses /\ u \div PageUnits \in Run(start, n)
    <2>1. u \in Nat /\ u \in Addresses
      BY <1>2, <1>3, <1>9 DEF Addresses
    <2>2. u \div PageUnits \in Nat /\ u \div PageUnits >= start /\ ~(u \div PageUnits >= start + n)
      BY <2>1, <1>3, <1>4, <1>9
    <2> QED BY <2>1, <2>2, <1>1 DEF Run
  <1> QED BY <1>3, <1>5, <1>6, <1>7, <1>8, <1>9

-----------------------------------------------------------------------------
(* kmalloc *)

HeaderType == [Addresses -> [size : Nat, magic : {"none", "MAGIC_OK", "MAGIC_FREE"}]]

\* Only headers have a size.
Headers == header \in HeaderType /\ \A a \in Addresses : header[a].magic = "none" => header[a].size = 0

KmallocUnits == {u \in Addresses : owner[u \div PageUnits] = "kmalloc"}

\* The headers after Carve has taken size units from block p.
Carved(h, p, size) ==
    IF h[p].size - size <= 2
    THEN [h EXCEPT ![p] = [size |-> h[p].size, magic |-> "MAGIC_OK"]]
    ELSE [h EXCEPT ![p + 1 + size] = [size |-> h[p].size - size - 1, magic |-> "MAGIC_FREE"],
                   ![p] = [size |-> size, magic |-> "MAGIC_OK"]]

\* Carve takes a block whole, or divides it into a block and its rest.
LEMMA CarveTiles ==
    ASSUME NEW h \in HeaderType, NEW K \in SUBSET Addresses, Tiled(h, K),
           \A a \in Addresses : h[a].magic = "none" => h[a].size = 0,
           NEW p \in BlocksOf(h), NEW size \in Nat \ {0}, h[p].size >= size,
           NEW g, g = Carved(h, p, size)
    PROVE  /\ Tiled(g, K) /\ g \in HeaderType
           /\ \A a \in Addresses : g[a].magic = "none" => g[a].size = 0
  <1> USE PagesAssumption, UnitsAssumption
  <1>0. \A a \in Addresses : a \in Int
    BY DEF Addresses
  <1>1. p \in Addresses /\ p \in Int /\ h[p].size \in Nat /\ h[p].magic # "none"
    BY <1>0 DEF BlocksOf, HeaderType
  <1>2. CASE h[p].size - size <= 2
    <2>1. g = [h EXCEPT ![p] = [size |-> h[p].size, magic |-> "MAGIC_OK"]]
      BY <1>2 DEF Carved
    <2>2. \A a \in Addresses : g[a].size = h[a].size /\ (g[a].magic = "none" <=> h[a].magic = "none")
      BY <2>1, <1>1 DEF HeaderType
    <2>3. BlocksOf(g) = BlocksOf(h)
      BY <2>2 DEF BlocksOf
    <2>4. \A a \in BlocksOf(h) : Extent(g, a) = Extent(h, a)
      BY <2>2 DEF BlocksOf, Extent
    <2>5. Tiled(g, K)
      <3>1. \A a \in BlocksOf(g) : Extent(g, a) \subseteq K
        BY <2>3, <2>4 DEF Tiled
      <3>2. ASSUME NEW u \in K
            PROVE  \E a \in BlocksOf(g) : \A b \in BlocksOf(g) : u \in Extent(g, b) <=> b = a
        <4>1. PICK a \in BlocksOf(h) : \A b \in BlocksOf(h) : u \in Extent(h, b) <=> b = a
          BY DEF Tiled
        <4>2. \A b \in BlocksOf(h) : u \in Extent(g, b) <=> b = a
          BY <4>1, <2>4
        <4>3. a \in BlocksOf(g)
          BY <2>3
        <4> WITNESS a \in BlocksOf(g)
        <4> QED BY <4>2, <2>3
      <3> QED BY <3>1, <3>2 DEF Tiled
    <2>6. g \in HeaderType
      BY <2>1, <1>1 DEF HeaderType
    <2> QED BY <2>2, <2>5, <2>6
  <1>3. CASE ~(h[p].size - size <= 2)
    <2>0. PICK r : r = p + 1 + size
      OBVIOUS
    <2>1. r \in Extent(h, p) /\ r # p /\ r \in Int /\ h[p].size - size - 1 \in Nat
      BY <2>0, <1>1, <1>3 DEF Extent
    <2>2. r \in Addresses /\ r \in K
      BY <2>1 DEF Tiled
    <2>3. r \notin BlocksOf(h)
      <3>1. SUFFICES ASSUME r \in BlocksOf(h) PROVE FALSE
        OBVIOUS
      <3>2. h[r].size \in Nat
        BY <2>2 DEF HeaderType
      <3>3. r \in Extent(h, r)
        BY <2>1, <3>2 DEF Extent
      <3> QED BY <2>1, <2>2, <3>1, <3>3 DEF Tiled
    <2>4. /\ g[p] = [size |-> size, magic |-> "MAGIC_OK"]
          /\ g[r] = [size |-> h[p].size - size - 1, magic |-> "MAGIC_FREE"]
          /\ \A a \in Addresses \ {p, r} : g[a] = h[a]
      BY <2>0, <1>1, <1>3, <2>1, <2>2 DEF HeaderType, Carved
    <2>5. g \in HeaderType
      BY <2>0, <1>3, <2>1, <2>2, <1>1 DEF HeaderType, Carved
    <2>6. BlocksOf(g) = BlocksOf(h) \cup {r}
      <3>1. g[p].magic # "none" /\ g[r].magic # "none"
        BY <2>4
      <3>2. \A a \in Addresses : g[a].magic # "none" <=> h[a].magic # "none" \/ a = r
        BY <3>1, <2>4, <1>1
      <3> QED BY <3>2, <2>2 DEF BlocksOf
    <2>7. \A a \in BlocksOf(h) \ {p} : Extent(g, a) = Extent(h, a)
      <3>1. \A a \in BlocksOf(h) \ {p} : g[a] = h[a]
        BY <2>3, <2>4 DEF BlocksOf
      <3> QED BY <3>1 DEF Extent
    <2>8. Extent(g, p) = p .. p + size /\ Extent(g, r) = r .. p + h[p].size
      <3>1. g[p].size = size /\ g[r].size = h[p].size - size - 1
        BY <2>4
      <3>2. r + (h[p].size - size - 1) = p + h[p].size
        BY <2>0, <1>1
      <3> QED BY <3>1, <3>2 DEF Extent
    <2>9. \A u : u \in Extent(h, p) <=> u \in Extent(g, p) \/ u \in Extent(g, r)
      <3>1. \A u : u \in p .. p + h[p].size <=> u \in p .. p + size \/ u \in r .. p + h[p].size
        BY <2>0, <1>1, <1>3
      <3> QED BY <3>1, <2>8 DEF Extent
    <2>10. \A u : ~(u \in Extent(g, p) /\ u \in Extent(g, r))
      <3>1. \A u : ~(u \in p .. p + size /\ u \in r .. p + h[p].size)
        BY <2>0, <1>1
      <3> QED BY <3>1, <2>8
    <2>11. \A a \in BlocksOf(g) : Extent(g, a) \subseteq K
      BY <2>6, <2>7, <2>9 DEF Tiled
    <2>12. ASSUME NEW u \in K
           PROVE  \E a \in BlocksOf(g) : \A b \in BlocksOf(g) : u \in Extent(g, b) <=> b = a
      <3>1. PICK a \in BlocksOf(h) : \A b \in BlocksOf(h) : u \in Extent(h, b) <=> b = a
        BY DEF Tiled
      <3>2. CASE a # p
        <4>1. u \notin Extent(g, p) /\ u \notin Extent(g, r) /\ a # r
          BY <3>1, <3>2, <2>3, <2>9
        <4>2. \A b \in BlocksOf(h) : u \in Extent(g, b) <=> b = a
          BY <3>1, <3>2, <4>1, <2>7
        <4>3. a \in BlocksOf(g)
          BY <2>6
        <4> WITNESS a \in BlocksOf(g)
        <4> QED BY <4>1, <4>2, <2>6
      <3>3. CASE a = p /\ u \in Extent(g, p)
        <4>1. u \notin Extent(g, r) /\ p # r
          BY <3>3, <2>1, <2>10
        <4>2. \A b \in BlocksOf(h) : u \in Extent(g, b) <=> b = p
          BY <3>1, <3>3, <2>7
        <4>3. p \in BlocksOf(g)
          BY <2>6
        <4> WITNESS p \in BlocksOf(g)
        <4> QED BY <4>1, <4>2, <2>6
      <3>4. CASE a = p /\ u \in Extent(g, r)
        <4>1. u \notin Extent(g, p)
          BY <3>4, <2>10
        <4>2. \A b \in BlocksOf(h) : u \notin Extent(g, b)
          BY <3>1, <3>4, <4>1, <2>7
        <4>3. r \in BlocksOf(g)
          BY <2>6
        <4> WITNESS r \in BlocksOf(g)
        <4> QED BY <3>4, <4>2, <2>3, <2>6
      <3>5. a = p => u \in Extent(g, p) \/ u \in Extent(g, r)
        BY <3>1, <2>9
      <3> QED BY <3>2, <3>3, <3>4, <3>5
    <2>13. Tiled(g, K)
      BY <2>11, <2>12 DEF Tiled
    <2>14. \A a \in Addresses : g[a].magic = "none" => g[a].size = 0
      <3>1. g[p].magic # "none" /\ g[r].magic # "none"
        BY <2>4
      <3> QED BY <3>1, <2>4
    <2> QED BY <2>5, <2>13, <2>14
  <1> QED BY <1>2, <1>3

\* The headers with a new block of len units at p.
Grown(h, p, len) == [h EXCEPT ![p] = [size |-> len, magic |-> "MAGIC_OK"]]

\* The new units N are one stretch from p, beside the units K that h divides.
NewStretch(h, K, N, p, len) ==
    /\ h \in HeaderType /\ K \in SUBSET Addresses /\ Tiled(h, K)
    /\ N \in SUBSET Addresses /\ N \cap K = {} /\ p \in Addresses /\ len \in Nat
    /\ \A u : u \in N <=> u \in p .. p + len

\* New pages become one block before Carve cuts it.
LEMMA GrowTiles ==
    ASSUME NEW h, NEW K, NEW N, NEW p, NEW len, NewStretch(h, K, N, p, len),
           NEW g, g = Grown(h, p, len)
    PROVE  Tiled(g, K \cup N) /\ g \in HeaderType /\ p \in BlocksOf(g) /\ g[p].size = len
  <1>0. /\ h \in HeaderType /\ K \in SUBSET Addresses /\ Tiled(h, K)
        /\ N \in SUBSET Addresses /\ N \cap K = {} /\ p \in Addresses /\ len \in Nat
        /\ \A u : u \in N <=> u \in p .. p + len
    BY DEF NewStretch
  <1> USE <1>0
  <1>1. p \in Int
    BY PagesAssumption, UnitsAssumption DEF Addresses
  <1>2. p \in N /\ p \notin K
    BY <1>1
  <1>3. p \notin BlocksOf(h)
    <2>1. SUFFICES ASSUME p \in BlocksOf(h) PROVE FALSE
      OBVIOUS
    <2>2. h[p].size \in Nat
      BY DEF HeaderType
    <2>3. p \in Extent(h, p)
      BY <1>1, <2>2 DEF Extent
    <2> QED BY <2>1, <2>3, <1>2 DEF Tiled
  <1>4. g[p] = [size |-> len, magic |-> "MAGIC_OK"] /\ \A a \in Addresses \ {p} : g[a] = h[a]
    BY DEF HeaderType, Grown
  <1>5. g \in HeaderType
    BY DEF HeaderType, Grown
  <1>6. BlocksOf(g) = BlocksOf(h) \cup {p}
    <2>1. g[p].magic # "none"
      BY <1>4
    <2>2. \A a \in Addresses : g[a].magic # "none" <=> h[a].magic # "none" \/ a = p
      BY <2>1, <1>4
    <2> QED BY <2>2 DEF BlocksOf
  <1>7. \A a \in BlocksOf(h) : Extent(g, a) = Extent(h, a)
    <2>1. \A a \in BlocksOf(h) : g[a] = h[a]
      BY <1>3, <1>4 DEF BlocksOf
    <2> QED BY <2>1 DEF Extent
  <1>8. \A u : u \in Extent(g, p) <=> u \in N
    <2>1. Extent(g, p) = p .. p + len
      BY <1>4 DEF Extent
    <2> QED BY <2>1
  <1>9. \A a \in BlocksOf(g) : Extent(g, a) \subseteq K \cup N
    BY <1>6, <1>7, <1>8 DEF Tiled
  <1>10. ASSUME NEW u \in K \cup N
         PROVE  \E a \in BlocksOf(g) : \A b \in BlocksOf(g) : u \in Extent(g, b) <=> b = a
    <2>1. CASE u \in K
      <3>1. PICK a \in BlocksOf(h) : \A b \in BlocksOf(h) : u \in Extent(h, b) <=> b = a
        BY <2>1 DEF Tiled
      <3>2. \A b \in BlocksOf(h) : u \in Extent(g, b) <=> b = a
        BY <3>1, <1>7
      <3>3. a # p /\ u \notin Extent(g, p)
        BY <2>1, <1>3, <1>8
      <3>4. a \in BlocksOf(g)
        BY <1>6
      <3> WITNESS a \in BlocksOf(g)
      <3> QED BY <3>2, <3>3, <1>6
    <2>2. CASE u \in N
      <3>1. \A b \in BlocksOf(h) : u \notin Extent(g, b)
        BY <2>2, <1>7 DEF Tiled
      <3>2. u \in Extent(g, p)
        BY <2>2, <1>8
      <3>3. p \in BlocksOf(g)
        BY <1>6
      <3> WITNESS p \in BlocksOf(g)
      <3> QED BY <3>1, <3>2, <1>3, <1>6
    <2> QED BY <2>1, <2>2
  <1>11. Tiled(g, K \cup N)
    BY <1>9, <1>10 DEF Tiled
  <1>12. p \in BlocksOf(g)
    BY <1>6
  <1>13. g[p].size = len
    BY <1>4
  <1> QED BY <1>5, <1>11, <1>12, <1>13

\* What FirstFit finds is a block that is large enough, whatever the list.
LEMMA FitIsBlock ==
    ASSUME Headers, NEW size \in Nat \ {0}, FirstFit(size) # free_list,
           DOMAIN free.next = Addresses \cup {free_list}
    PROVE  FirstFit(size) \in BlocksOf(header) /\ header[FirstFit(size)].size >= size
  <1> DEFINE w     == list_walk(free, free_list)
             hits  == {n \in DOMAIN w : w[n] \in DOMAIN free.next \ {free_list} /\ header[w[n]].size >= size}
             first == {n \in hits : \A m \in hits : n <= m}
  <1>1. FirstFit(size) = IF first = {} THEN free_list ELSE w[CHOOSE n \in first : TRUE]
    BY DEF FirstFit, list_find
  <1>2. PICK n \in first : FirstFit(size) = w[n]
    BY <1>1
  <1> DEFINE p == w[n]
  <1>3. p \in DOMAIN free.next \ {free_list} /\ header[p].size >= size
    OBVIOUS
  <1> HIDE DEF w, p
  <1>4. p \in Addresses
    BY <1>3
  <1>5. header[p].size \in Nat /\ (header[p].magic = "none" => header[p].size = 0)
    BY <1>4 DEF Headers, HeaderType
  <1>6. p \in BlocksOf(header)
    BY <1>3, <1>4, <1>5 DEF BlocksOf
  <1> QED BY <1>2, <1>3, <1>6 DEF p

\* The headers, and the domain of their chains.
HeapInv == PageInv /\ Headers /\ HeapTiled /\ DOMAIN free.next = Addresses \cup {free_list}

\* No list operation changes which nodes there are.
LEMMA ListDomains ==
    ASSUME NEW l, NEW a, NEW b
    PROVE  /\ DOMAIN list_add(l, a, b).next = DOMAIN l.next
           /\ DOMAIN list_del(l, a).next = DOMAIN l.next
           /\ DOMAIN list_replace(l, a, b).next = DOMAIN l.next
  BY DEF list_add, list_insert, list_del, list_replace

\* Carve's effect on headers that divide K.
LEMMA CarveKeeps ==
    ASSUME NEW h \in HeaderType, NEW K \in SUBSET Addresses, Tiled(h, K),
           \A a \in Addresses : h[a].magic = "none" => h[a].size = 0,
           NEW p \in BlocksOf(h), NEW size \in Nat \ {0}, h[p].size >= size,
           NEW l, DOMAIN l.next = Addresses \cup {free_list},
           Carve(l, h, p, size)
    PROVE  /\ Tiled(header', K) /\ header' \in HeaderType
           /\ \A a \in Addresses : header'[a].magic = "none" => header'[a].size = 0
           /\ DOMAIN free'.next = Addresses \cup {free_list}
  <1>1. p \in Addresses /\ DOMAIN h = Addresses /\ h[p] = [size |-> h[p].size, magic |-> h[p].magic]
    BY DEF BlocksOf, HeaderType
  <1>2. header' = Carved(h, p, size)
    BY <1>1 DEF Carve, Carved
  <1>3. DOMAIN free'.next = Addresses \cup {free_list}
    BY ListDomains DEF Carve
  <1>4. PICK g : g = header'
    OBVIOUS
  <1>5. /\ Tiled(g, K) /\ g \in HeaderType
        /\ \A a \in Addresses : g[a].magic = "none" => g[a].size = 0
    BY <1>2, <1>4, CarveTiles
  <1> QED BY <1>3, <1>4, <1>5

\* Every unit of the heap is in a page of the heap.
LEMMA UnitPages ==
    ASSUME NEW u \in Addresses
    PROVE  u \div PageUnits \in Pages
  <1> USE PagesAssumption, UnitsAssumption
  <1>1. FirstPage * PageUnits \in Nat /\ (LastPage + 1) * PageUnits \in Nat /\ LastPage + 1 \in Nat
    BY SMT
  <1>2. u \in Nat /\ u >= FirstPage * PageUnits /\ ~(u >= (LastPage + 1) * PageUnits)
    BY <1>1 DEF Addresses
  <1>3. u \div PageUnits \in Nat /\ u \div PageUnits >= FirstPage
    BY <1>2, PageOfUnit
  <1>4. ~(u \div PageUnits >= LastPage + 1)
    BY <1>1, <1>2, PageOfUnit
  <1> QED BY <1>3, <1>4 DEF Pages

\* Pages that pass between callers, slabs and nobody leave kmalloc's alone.
LEMMA SameUnits ==
    ASSUME \A p \in Pages : owner[p] = "kmalloc" <=> owner'[p] = "kmalloc"
    PROVE  KmallocUnits' = KmallocUnits
  BY UnitPages DEF KmallocUnits, Addresses, Pages

\* kmalloc takes new pages.
LEMMA GrowKeeps ==
    ASSUME HeapInv, NEW size \in Sizes, NEW start \in Pages, KmallocGrow(size, start)
    PROVE  Headers' /\ HeapTiled' /\ DOMAIN free'.next = Addresses \cup {free_list}
  <1> USE PagesAssumption, UnitsAssumption
  <1>0. size \in Nat \ {0}
    BY RequestsAssumption
  <1>1. PICK n \in Nat \ {0} : n = pages_needed(size) /\ n * PageUnits >= size + 1
    BY <1>0, PagesNeeded, PagesSuffice
  <1>2. PICK p : p = start * PageUnits
    OBVIOUS
  <1>3. PICK h : h = [header EXCEPT ![p].size = (n * PageUnits) - 1]
    OBVIOUS
  <1>4. /\ kalloc_pages(n, start) /\ Owned(start, n, "kmalloc")
        /\ Carve(list_add(free, p, free_list), h, p, size)
    BY <1>1, <1>2, <1>3 DEF KmallocGrow, hmalloc_grow
  <1>5. Run(start, n) \subseteq Pages /\ \A i \in Run(start, n) : i \notin mapped
    BY <1>4, AllocPages DEF HeapInv, PageInv
  <1>6. /\ p \in Addresses /\ n * PageUnits \in Nat
        /\ \A u \in Addresses : u \in Nat /\ u \div PageUnits \in Pages
        /\ \A u : u \in Addresses /\ u \div PageUnits \in Run(start, n)
                  <=> u \in p .. (p + n * PageUnits) - 1
    BY <1>2, <1>5, UnitsOfRun
  <1> DEFINE N == {u \in Addresses : u \div PageUnits \in Run(start, n)}
             K == KmallocUnits
  <1>7. KmallocUnits' = K \cup N
    BY <1>4, <1>6 DEF Owned, KmallocUnits, Addresses
  <1>8. N \cap K = {}
    BY <1>5 DEF HeapInv, PageInv, MappedIsOwned, KmallocUnits
  <1>9. \A u : u \in N <=> u \in p .. p + ((n * PageUnits) - 1)
    <2>1. (p + n * PageUnits) - 1 = p + ((n * PageUnits) - 1)
      BY <1>6
    <2> QED BY <1>6, <2>1
  <1>10. PICK g : g = [header EXCEPT ![p] = [size |-> (n * PageUnits) - 1, magic |-> "MAGIC_OK"]]
    OBVIOUS
  <1>11. header \in HeaderType /\ Tiled(header, K) /\ (n * PageUnits) - 1 \in Nat
    BY <1>0, <1>1, <1>6 DEF HeapInv, Headers, HeapTiled, KmallocUnits
  <1>12. /\ Tiled(g, K \cup N) /\ g \in HeaderType
         /\ p \in BlocksOf(g) /\ g[p].size = (n * PageUnits) - 1
    <2> HIDE DEF N, K
    <2>1. N \in SUBSET Addresses /\ K \in SUBSET Addresses /\ p \in Addresses
      BY <1>6 DEF N, K, KmallocUnits
    <2>2. PICK len \in Nat : len = (n * PageUnits) - 1
      BY <1>11
    <2>3. g = Grown(header, p, len)
      BY <1>10, <2>2 DEF Grown
    <2>4. \A u : u \in N <=> u \in p .. p + len
      BY <1>9, <2>2
    <2>5. NewStretch(header, K, N, p, len)
      BY <1>8, <1>11, <2>1, <2>4 DEF NewStretch
    <2>6. Tiled(g, K \cup N) /\ g \in HeaderType /\ p \in BlocksOf(g) /\ g[p].size = len
      BY <2>3, <2>5, GrowTiles
    <2> QED BY <2>2, <2>6
  <1>13. \A a \in Addresses : g[a].magic = "none" => g[a].size = 0
    BY <1>6, <1>10, <1>11 DEF HeapInv, Headers, HeaderType
  <1>14. header' = Carved(g, p, size)
    <2>1. /\ h[p].size = (n * PageUnits) - 1 /\ g[p].size = (n * PageUnits) - 1
          /\ DOMAIN h = Addresses /\ DOMAIN g = Addresses
          /\ \A a \in Addresses \ {p} : g[a] = h[a]
      BY <1>3, <1>6, <1>10, <1>11 DEF HeaderType
    <2>2. h[p] = [size |-> h[p].size, magic |-> h[p].magic] /\ g[p] = [size |-> g[p].size, magic |-> g[p].magic]
      BY <1>3, <1>6, <1>10, <1>11 DEF HeaderType
    <2>3. CASE h[p].size - size <= 2
      <3>1. header' = [h EXCEPT ![p].magic = "MAGIC_OK"]
        BY <2>3, <1>4 DEF Carve
      <3>2. Carved(g, p, size) = [g EXCEPT ![p] = [size |-> g[p].size, magic |-> "MAGIC_OK"]]
        BY <2>1, <2>3 DEF Carved
      <3> QED BY <3>1, <3>2, <2>1, <2>2, <1>6
    <2>4. CASE ~(h[p].size - size <= 2)
      <3>1. header' = [h EXCEPT ![p + 1 + size] = [size |-> h[p].size - size - 1, magic |-> "MAGIC_FREE"],
                                ![p] = [size |-> size, magic |-> "MAGIC_OK"]]
        BY <2>4, <1>4 DEF Carve
      <3>2. Carved(g, p, size) =
                [g EXCEPT ![p + 1 + size] = [size |-> g[p].size - size - 1, magic |-> "MAGIC_FREE"],
                          ![p] = [size |-> size, magic |-> "MAGIC_OK"]]
        BY <2>1, <2>4 DEF Carved
      <3> QED BY <3>1, <3>2, <2>1, <1>6
    <2> QED BY <2>3, <2>4
  <1>15. PICK e : e = header'
    OBVIOUS
  <1>16. /\ Tiled(e, K \cup N) /\ e \in HeaderType
         /\ \A a \in Addresses : e[a].magic = "none" => e[a].size = 0
    <2> HIDE DEF N, K
    <2>1. K \cup N \subseteq Addresses
      BY DEF N, K, KmallocUnits
    <2>2. g[p].size >= size
      BY <1>0, <1>1, <1>12, <1>6
    <2> QED BY <1>0, <1>12, <1>13, <1>14, <1>15, <2>1, <2>2, CarveTiles
  <1>17. DOMAIN free'.next = Addresses \cup {free_list}
    BY <1>4, ListDomains DEF Carve, HeapInv
  <1>18. HeapTiled'
    BY <1>7, <1>15, <1>16 DEF HeapTiled, KmallocUnits, Tiled, BlocksOf, Extent, Addresses
  <1>19. Headers'
    BY <1>15, <1>16 DEF Headers, HeaderType, Addresses
  <1> QED BY <1>17, <1>18, <1>19

\* Every step of the allocators keeps kmalloc's headers a division of its pages.
LEMMA TilesKept ==
    ASSUME HeapInv, [Next]_vars
    PROVE  HeapInv'
  <1>1. PageInv'
    BY StepKeeps DEF HeapInv
  <1>2. ASSUME UNCHANGED header, \A p \in Pages : owner[p] = "kmalloc" <=> owner'[p] = "kmalloc"
        PROVE  Headers' /\ HeapTiled'
    <2>1. KmallocUnits' = KmallocUnits
      BY <1>2, SameUnits
    <2> QED BY <1>2, <2>1
        DEF HeapInv, Headers, HeapTiled, KmallocUnits, Tiled, BlocksOf, Extent, Addresses, HeaderType
  <1>3. ASSUME NEW size \in Sizes, KmallocFit(size)
        PROVE  Headers' /\ HeapTiled' /\ DOMAIN free'.next = Addresses \cup {free_list}
    <2>1. PICK p : p = FirstFit(size)
      OBVIOUS
    <2>2. size \in Nat \ {0} /\ p # free_list /\ Carve(free, header, p, size) /\ UNCHANGED owner
      BY <1>3, <2>1, RequestsAssumption DEF KmallocFit, hmalloc_fit
    <2>3. p \in BlocksOf(header) /\ header[p].size >= size
      BY <2>1, <2>2, FitIsBlock DEF HeapInv
    <2>4. KmallocUnits' = KmallocUnits /\ KmallocUnits \subseteq Addresses
      BY <2>2 DEF KmallocUnits, Addresses
    <2>5. Tiled(header, KmallocUnits) /\ header \in HeaderType
      BY DEF HeapInv, HeapTiled, KmallocUnits, Headers
    <2>6. /\ Tiled(header', KmallocUnits) /\ header' \in HeaderType
          /\ \A a \in Addresses : header'[a].magic = "none" => header'[a].size = 0
          /\ DOMAIN free'.next = Addresses \cup {free_list}
      BY <2>2, <2>3, <2>4, <2>5, CarveKeeps DEF HeapInv, Headers
    <2>7. HeapTiled'
      BY <2>4, <2>6 DEF HeapTiled, KmallocUnits, Tiled, BlocksOf, Extent, Addresses
    <2> QED BY <2>6, <2>7 DEF Headers, HeaderType, Addresses
  <1>4. ASSUME NEW size \in Sizes, NEW start \in Pages, KmallocGrow(size, start)
        PROVE  Headers' /\ HeapTiled' /\ DOMAIN free'.next = Addresses \cup {free_list}
    BY <1>4, GrowKeeps
  <1>5. ASSUME NEW p \in used, Kfree(p)
        PROVE  Headers' /\ HeapTiled' /\ DOMAIN free'.next = Addresses \cup {free_list}
    <2>1. UNCHANGED <<header, owner>> /\ free' = list_add(free, p, free_list)
      BY <1>5 DEF Kfree, hfree
    <2> QED BY <2>1, <1>2, ListDomains DEF HeapInv
  <1>6. ASSUME NEW start \in Pages, NEW n \in Nat \ {0}, NEW who \in {"slab", "caller"},
               kalloc_pages(n, start), Owned(start, n, who), UNCHANGED heap
        PROVE  Headers' /\ HeapTiled' /\ DOMAIN free'.next = Addresses \cup {free_list}
    <2>1. \A i \in Run(start, n) : i \in Pages /\ owner[i] = "none"
      BY <1>6, AllocPages DEF HeapInv, PageInv, MappedIsOwned
    <2>2. \A p \in Pages : owner[p] = "kmalloc" <=> owner'[p] = "kmalloc"
      BY <1>6, <2>1 DEF Owned
    <2> QED BY <1>2, <1>6, <2>2 DEF heap, HeapInv
  <1>7. ASSUME NEW r \in runs, PagesFree(r)
        PROVE  Headers' /\ HeapTiled' /\ DOMAIN free'.next = Addresses \cup {free_list}
    <2>1. \A i \in Run(r[1], r[2]) : i \in Pages /\ owner[i] = "caller"
      BY DEF HeapInv, PageInv, RunsOwned
    <2>2. \A p \in Pages : owner[p] = "kmalloc" <=> owner'[p] = "kmalloc"
      BY <1>7, <2>1 DEF PagesFree, Owned
    <2> QED BY <1>2, <1>7, <2>2 DEF PagesFree, heap, HeapInv
  <1>8. ASSUME UNCHANGED <<heap, owner>>
        PROVE  Headers' /\ HeapTiled' /\ DOMAIN free'.next = Addresses \cup {free_list}
    BY <1>2, <1>8 DEF heap, HeapInv
  <1>9. ASSUME NEW start \in Pages, SlabGrow(start)
        PROVE  Headers' /\ HeapTiled' /\ DOMAIN free'.next = Addresses \cup {free_list}
    <2>1. kalloc_pages(1, start) /\ Owned(start, 1, "slab") /\ UNCHANGED heap
      BY <1>9 DEF SlabGrow, slab_alloc_new
    <2> QED BY <1>6, <2>1
  <1>10. ASSUME NEW n \in RunLengths, NEW start \in Pages, PagesAlloc(n, start)
         PROVE  Headers' /\ HeapTiled' /\ DOMAIN free'.next = Addresses \cup {free_list}
    <2>1. kalloc_pages(n, start) /\ Owned(start, n, "caller") /\ UNCHANGED heap /\ n \in Nat \ {0}
      BY <1>10, RequestsAssumption DEF PagesAlloc
    <2> QED BY <1>6, <2>1
  <1>11. ASSUME SlabAlloc PROVE UNCHANGED <<heap, owner>>
    BY <1>11 DEF SlabAlloc
  <1>12. ASSUME NEW o \in objects, SlabFree(o) PROVE UNCHANGED <<heap, owner>>
    BY <1>12 DEF SlabFree
  <1>13. ASSUME UNCHANGED vars PROVE UNCHANGED <<heap, owner>>
    BY <1>13 DEF vars
  <1>14. Headers' /\ HeapTiled' /\ DOMAIN free'.next = Addresses \cup {free_list}
    BY <1>3, <1>4, <1>5, <1>7, <1>8, <1>9, <1>10, <1>11, <1>12, <1>13 DEF Next
  <1> QED BY <1>1, <1>14 DEF HeapInv, Addresses, free_list

\* At boot kmalloc has no pages and no headers.
LEMMA InitTiles ==
    ASSUME Init
    PROVE  HeapInv
  <1>1. PageInv
    BY InitKeeps
  <1>2. /\ header = [a \in Addresses |-> NoHeader]
        /\ owner = [p \in Pages |-> "none"]
        /\ DOMAIN free.next = Addresses \cup {free_list}
    BY DEF Init, kmalloc_init, INIT_LIST_HEAD
  <1>3. Headers
    BY <1>2 DEF Headers, HeaderType, NoHeader
  <1>4. HeapTiled
    <2>1. KmallocUnits = {}
      BY <1>2, UnitPages DEF KmallocUnits
    <2>2. BlocksOf(header) = {}
      BY <1>2 DEF BlocksOf, NoHeader
    <2> QED BY <2>1, <2>2 DEF HeapTiled, KmallocUnits, Tiled
  <1> QED BY <1>1, <1>2, <1>3, <1>4 DEF HeapInv

-----------------------------------------------------------------------------
\* first_free is free and nothing below it is: kalloc_pages overlooks no page
\* by starting there, in every sequence of kmalloc, slab and page requests.
THEOREM FirstFreeIsLeast == Spec => []FirstFreeLeast
  <1>1. Init => PageInv
    BY InitKeeps
  <1>2. PageInv /\ [Next]_vars => PageInv'
    BY StepKeeps
  <1>3. PageInv => FirstFreeLeast
    BY DEF PageInv
  <1> QED BY <1>1, <1>2, <1>3, PTL DEF Spec

\* No allocation by kmalloc, a slab cache or a caller of kalloc_pages takes a
\* page that somebody else holds.
THEOREM OwnersStayApart == Spec => OwnersApart
  <1>1. Init => PageInv
    BY InitKeeps
  <1>2. PageInv /\ [Next]_vars => PageInv'
    BY StepKeeps
  <1>3. PageInv /\ [Next]_vars =>
            [\A p \in Pages : owner[p] = owner[p]' \/ "none" \in {owner[p], owner[p]'}]_vars
    BY StepKeeps
  <1> QED BY <1>1, <1>2, <1>3, PTL DEF Spec, OwnersApart

\* kmalloc's blocks divide its pages: no two blocks overlap and no memory is
\* lost between them, whatever is allocated and freed in which order, and
\* whatever order the free list is in.
THEOREM HeapIsTiled == Spec => []HeapTiled
  <1>1. Init => HeapInv
    BY InitTiles
  <1>2. HeapInv /\ [Next]_vars => HeapInv'
    BY TilesKept
  <1>3. HeapInv => HeapTiled
    BY DEF HeapInv
  <1> QED BY <1>1, <1>2, <1>3, PTL DEF Spec
=============================================================================
