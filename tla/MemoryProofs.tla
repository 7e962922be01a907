---------------------------- MODULE MemoryProofs ----------------------------
(***************************************************************************)
(* Proofs about the areas of Memory, for every page size, every size of    *)
(* page tables and of user space, and whatever programs call.              *)
(***************************************************************************)
EXTENDS Memory, WellFoundedInduction, TLAPS

-----------------------------------------------------------------------------
(* Numbers *)

\* A set of naturals has a least, and a bounded one a greatest member.
LEMMA Least ==
  ASSUME NEW S \in SUBSET Nat, S # {}
  PROVE  \E m \in S : \A k \in S : m <= k
  <1> DEFINE R == OpToRel(<, Nat)
  <1>1. IsWellFoundedOn(R, Nat)
    BY NatLessThanWellFounded
  <1>2. \A x, y \in Nat : <<x, y>> \in R <=> x < y
    BY DEF OpToRel
  <1> HIDE DEF R
  <1>3. PICK m \in S : \A k \in S : ~(<<k, m>> \in R)
    BY <1>1, WFMin
  <1>4. ASSUME NEW k \in S PROVE m <= k
    <2>1. k \in Nat /\ m \in Nat /\ ~(k < m)
      BY <1>2, <1>3
    <2> QED
      BY <2>1
  <1> QED
    BY <1>4

LEMMA Greatest ==
  ASSUME NEW S \in SUBSET Nat, S # {}, NEW bound \in Nat, \A k \in S : k <= bound
  PROVE  \E m \in S : \A k \in S : k <= m
  <1> DEFINE T == {bound - k : k \in S}
  <1>0. ASSUME NEW k \in S PROVE bound - k \in Nat
    <2>1. k \in Nat /\ k <= bound
      OBVIOUS
    <2> QED
      BY <2>1
  <1>1. T \in SUBSET Nat /\ T # {}
    BY <1>0
  <1>2. PICK t \in T : \A u \in T : t <= u
    BY <1>1, Least
  <1>3. PICK m \in S : t = bound - m
    OBVIOUS
  <1>4. ASSUME NEW k \in S PROVE k <= m
    <2>1. t <= bound - k /\ k \in Nat /\ m \in Nat
      BY <1>2
    <2> QED
      BY <2>1, <1>3
  <1> QED
    BY <1>4

LEMMA Division ==
  ASSUME NEW n \in Nat, NEW d \in Nat \ {0}
  PROVE  n \div d \in Nat /\ n % d \in 0 .. d - 1 /\ n = ((n \div d) * d) + (n % d)
  BY SMT

LEMMA Divided ==
  ASSUME NEW n \in Nat, NEW d \in Nat \ {0}
  PROVE  \E q \in Nat : \E r \in 0 .. d - 1 : q = n \div d /\ r = n % d /\ n = (q * d) + r
  BY Division

LEMMA TimesMonotone ==
  ASSUME NEW a \in Nat, NEW b \in Nat, NEW m \in Nat, a >= b
  PROVE  a * m \in Nat /\ b * m \in Nat /\ a * m >= b * m
  <1>1. (a - b) * m >= 0
    BY SMT
  <1> QED
    BY <1>1, SMT

\* n lies in the k-th stretch of length d or a later one.
LEMMA QuotientAtLeast ==
  ASSUME NEW n \in Nat, NEW d \in Nat \ {0}, NEW k \in Nat
  PROVE  n \div d >= k <=> n >= k * d
  <1>1. PICK q \in Nat, r \in 0 .. d - 1 : q = n \div d /\ n = (q * d) + r
    BY Division
  <1>2. q >= k => q * d >= k * d
    BY TimesMonotone
  <1>3. k >= q + 1 => k * d >= (q + 1) * d
    BY TimesMonotone
  <1>4. (q + 1) * d = (q * d) + d /\ q * d \in Nat /\ k * d \in Nat
    BY SMT
  <1> QED
    BY <1>1, <1>2, <1>3, <1>4, SMT

LEMMA QuotientIs ==
  ASSUME NEW n \in Nat, NEW d \in Nat \ {0}, NEW q \in Nat, NEW r \in 0 .. d - 1,
         n = (q * d) + r
  PROVE  n \div d = q /\ n % d = r
  <1>1. n \div d >= q <=> n >= q * d
    BY QuotientAtLeast
  <1>2. n \div d >= q + 1 <=> n >= (q + 1) * d
    BY QuotientAtLeast, q + 1 \in Nat
  <1>3. (q + 1) * d = (q * d) + d /\ q * d \in Nat
    BY SMT
  <1>4. n \div d = q
    BY <1>1, <1>2, <1>3, Division, SMT
  <1>5. PICK k \in Nat, m \in 0 .. d - 1 : k = n \div d /\ m = n % d /\ n = (k * d) + m
    BY Division
  <1>6. k * d = q * d
    BY <1>4, <1>5
  <1>7. m = r
    BY <1>3, <1>5, <1>6
  <1> QED
    BY <1>4, <1>5, <1>7

\* Dividing by a page table's length in bytes is dividing twice.
LEMMA QuotientTwice ==
  ASSUME NEW n \in Nat, NEW d \in Nat \ {0}, NEW e \in Nat \ {0}
  PROVE  n \div (e * d) = (n \div d) \div e
  <1> DEFINE q == (n \div d) \div e
             r == (n \div d) % e
             s == n % d
  <1>1. n \div d \in Nat /\ s \in 0 .. d - 1 /\ n = ((n \div d) * d) + s
    BY Division
  <1>2. q \in Nat /\ r \in 0 .. e - 1 /\ n \div d = (q * e) + r
    BY <1>1, Division
  <1>3. ((q * e) + r) * d = (q * (e * d)) + (r * d)
    BY <1>2, SMT
  <1>4. e - 1 \in Nat /\ r \in Nat /\ r * d \in Nat /\ (e - 1) * d \in Nat /\ (e - 1) * d >= r * d
    BY <1>2, TimesMonotone
  <1>5. (e - 1) * d = (e * d) - d /\ e * d \in Nat \ {0}
    BY SMT
  <1>6. (r * d) + s \in 0 .. (e * d) - 1
    BY <1>1, <1>4, <1>5
  <1>7. n = (q * (e * d)) + ((r * d) + s)
    BY <1>1, <1>2, <1>3, <1>4, q * (e * d) \in Nat
  <1>8. ASSUME NEW m \in Nat \ {0}, NEW t \in 0 .. m - 1, n = (q * m) + t
        PROVE  n \div m = q
    <2>1. q \in Nat
      BY <1>2
    <2> HIDE DEF q
    <2> QED
      BY <1>8, <2>1, QuotientIs
  <1> QED
    BY <1>5, <1>6, <1>7, <1>8

-----------------------------------------------------------------------------
(* Pages *)

Aligned(n) == n \in Nat /\ n % FRAME_SIZE = 0

LEMMA AlignedForm ==
  ASSUME NEW n \in Nat
  PROVE  Aligned(n) <=> \E k \in Nat : n = k * FRAME_SIZE
  <1> USE FrameAssumption
  <1>1. ASSUME Aligned(n) PROVE \E k \in Nat : n = k * FRAME_SIZE
    <2>1. PICK k \in Nat, m \in Nat : k = n \div FRAME_SIZE /\ m = n % FRAME_SIZE /\ n = (k * FRAME_SIZE) + m
      BY Division
    <2>2. m = 0 /\ k * FRAME_SIZE \in Nat
      BY <1>1, <2>1, TimesMonotone DEF Aligned
    <2> QED
      BY <2>1, <2>2
  <1>2. ASSUME NEW k \in Nat, n = k * FRAME_SIZE PROVE Aligned(n)
    <2>1. 0 \in 0 .. FRAME_SIZE - 1 /\ n = (k * FRAME_SIZE) + 0
      BY <1>2
    <2> QED
      BY <2>1, QuotientIs DEF Aligned
  <1> QED
    BY <1>1, <1>2

LEMMA AlignedSum ==
  ASSUME NEW a, NEW b, Aligned(a), Aligned(b)
  PROVE  Aligned(a + b) /\ (a >= b => Aligned(a - b)) /\ (a > b => a >= b + FRAME_SIZE)
  <1> USE FrameAssumption
  <1>1. PICK j \in Nat : a = j * FRAME_SIZE
    BY AlignedForm DEF Aligned
  <1>2. PICK k \in Nat : b = k * FRAME_SIZE
    BY AlignedForm DEF Aligned
  <1>3. a + b = (j + k) * FRAME_SIZE /\ a - b = (j - k) * FRAME_SIZE
    BY <1>1, <1>2, SMT
  <1>4. Aligned(a + b)
    BY <1>3, AlignedForm, a + b \in Nat, j + k \in Nat DEF Aligned
  <1>5. k > j => b > a
    <2>1. k >= j + 1 => k * FRAME_SIZE >= (j + 1) * FRAME_SIZE
      BY TimesMonotone, j + 1 \in Nat
    <2>2. (j + 1) * FRAME_SIZE = a + FRAME_SIZE
      BY <1>1, SMT
    <2> QED
      BY <2>1, <2>2, <1>2 DEF Aligned
  <1>6. a >= b => Aligned(a - b)
    <2> SUFFICES ASSUME a >= b PROVE Aligned(a - b)
      OBVIOUS
    <2>1. j - k \in Nat /\ a - b \in Nat
      BY <1>5 DEF Aligned
    <2> QED
      BY <2>1, <1>3, AlignedForm
  <1>7. a > b => a >= b + FRAME_SIZE
    <2> SUFFICES ASSUME a > b PROVE a >= b + FRAME_SIZE
      OBVIOUS
    <2>1. j >= k + 1
      <3>1. j <= k => k * FRAME_SIZE >= j * FRAME_SIZE
        BY TimesMonotone
      <3> QED
        BY <3>1, <1>1, <1>2 DEF Aligned
    <2>2. j * FRAME_SIZE >= (k + 1) * FRAME_SIZE
      BY <2>1, TimesMonotone, k + 1 \in Nat
    <2>3. (k + 1) * FRAME_SIZE = b + FRAME_SIZE
      BY <1>2, SMT
    <2> QED
      BY <1>1, <2>2, <2>3
  <1> QED
    BY <1>4, <1>6, <1>7

LEMMA PageBase ==
  ASSUME NEW n \in Nat
  PROVE  Aligned(page_base(n)) /\ page_base(n) <= n /\ n < page_base(n) + FRAME_SIZE
  <1>1. PICK k \in Nat : \E m \in 0 .. FRAME_SIZE - 1 :
            k = n \div FRAME_SIZE /\ m = n % FRAME_SIZE /\ n = (k * FRAME_SIZE) + m
    BY Divided, FrameAssumption
  <1>2. page_base(n) = k * FRAME_SIZE /\ k * FRAME_SIZE \in Nat
    BY <1>1, TimesMonotone, FrameAssumption DEF page_base
  <1>3. Aligned(page_base(n))
    BY <1>2, AlignedForm
  <1> QED
    BY <1>1, <1>2, <1>3, FrameAssumption

\* page_align rounds up, to the next page and no further.
LEMMA PageAlign ==
  ASSUME NEW n \in Nat
  PROVE  /\ Aligned(page_align(n)) /\ n <= page_align(n) /\ page_align(n) < n + FRAME_SIZE
         /\ \A m : Aligned(m) /\ n <= m => page_align(n) <= m
  <1> USE FrameAssumption
  <1>1. Aligned(page_align(n)) /\ n <= page_align(n) /\ page_align(n) < n + FRAME_SIZE
    <2>1. CASE n % FRAME_SIZE = 0
      BY <2>1 DEF page_align, Aligned
    <2>2. CASE n % FRAME_SIZE # 0
      <3>1. n + FRAME_SIZE \in Nat /\ page_align(n) = page_base(n + FRAME_SIZE)
        BY <2>2 DEF page_align
      <3>2. /\ Aligned(page_align(n)) /\ page_align(n) <= n + FRAME_SIZE
            /\ n < page_align(n)
        BY <3>1, PageBase DEF Aligned
      <3>3. page_align(n) # n + FRAME_SIZE
        <4>1. Aligned(FRAME_SIZE)
          BY AlignedForm, FRAME_SIZE = 1 * FRAME_SIZE
        <4>2. page_align(n) = n + FRAME_SIZE => Aligned((n + FRAME_SIZE) - FRAME_SIZE)
          BY <3>2, <4>1, AlignedSum, n + FRAME_SIZE >= FRAME_SIZE
        <4>3. (n + FRAME_SIZE) - FRAME_SIZE = n
          OBVIOUS
        <4> QED
          BY <2>2, <4>2, <4>3 DEF Aligned
      <3> QED
        BY <3>2, <3>3 DEF Aligned
    <2> QED
      BY <2>1, <2>2
  <1>2. ASSUME NEW m, Aligned(m), n <= m PROVE page_align(n) <= m
    <2>1. page_align(n) > m => page_align(n) >= m + FRAME_SIZE
      BY <1>1, <1>2, AlignedSum
    <2> QED
      BY <1>1, <1>2, <2>1 DEF Aligned
  <1> QED
    BY <1>1, <1>2

LEMMA PageAlignFrom ==
  ASSUME NEW a, Aligned(a), NEW n \in Nat
  PROVE  page_align(a + n) = a + page_align(n)
  <1>1. a + n \in Nat /\ a \in Nat
    BY DEF Aligned
  <1>2. Aligned(a + page_align(n)) /\ a + n <= a + page_align(n)
    BY <1>1, PageAlign, AlignedSum DEF Aligned
  <1>3. page_align(a + n) <= a + page_align(n)
    BY <1>1, <1>2, PageAlign
  <1>4. Aligned(page_align(a + n) - a)
    BY <1>1, PageAlign, AlignedSum DEF Aligned
  <1>5. n <= page_align(a + n) - a
    BY <1>1, PageAlign DEF Aligned
  <1>6. page_align(n) <= page_align(a + n) - a
    BY <1>4, <1>5, PageAlign
  <1> QED
    BY <1>1, <1>3, <1>6, PageAlign DEF Aligned

-----------------------------------------------------------------------------
(* Areas *)

Area == [start : Nat, end : Nat, flags : SUBSET FlagNames, op : {"anon", "file"}]

\* An area of whole pages, possibly none, that does not end at address 0.
Whole(a) == a \in Area /\ Aligned(a.start) /\ Aligned(a.end) /\ a.start <= a.end /\ a.end > 0

Apart(a, b) == a.end <= b.start \/ b.end <= a.start

Sound(areas) == /\ \A a \in areas : Whole(a)
                /\ \A a, b \in areas : a # b => Apart(a, b)

LEMMA SoundIsDisjoint ==
  ASSUME NEW areas, Sound(areas)
  PROVE  Disjoint(areas)
  BY DEF Sound, Whole, Apart, Aligned, Area, Disjoint

LEMMA AddSound ==
  ASSUME NEW areas, Sound(areas), NEW a, Whole(a), \A b \in areas : Apart(a, b)
  PROVE  Sound(areas \cup {a})
  BY DEF Sound, Apart

LEMMA LowestIs ==
  ASSUME NEW S, S # {}, \A a \in S : a \in Area
  PROVE  Lowest(S) \in S /\ \A b \in S : Lowest(S).start <= b.start
  <1> DEFINE starts == {a.start : a \in S}
  <1>1. starts \in SUBSET Nat /\ starts # {}
    BY DEF Area
  <1>2. PICK m \in starts : \A k \in starts : m <= k
    BY <1>1, Least
  <1>3. \E a \in S : \A b \in S : a.start <= b.start
    BY <1>2
  <1> QED
    BY <1>3 DEF Lowest

LEMMA NewArea ==
  ASSUME NEW start, NEW end, Aligned(start), Aligned(end), start <= end, end > 0,
         NEW flags \in SUBSET FlagNames, NEW op \in {"anon", "file"}
  PROVE  /\ Whole(new_vma(start, end, flags, op))
         /\ new_vma(start, end, flags, op).start = start
         /\ new_vma(start, end, flags, op).end = end
  BY DEF Whole, new_vma, Area, Aligned

\* vma_create_fixed looks at the first area above start only, and compares the
\* length before it is rounded up.
LEMMA FixedSound ==
  ASSUME NEW areas, Sound(areas), NEW start, Aligned(start), NEW len \in Nat, start + len > 0,
         NEW flags \in SUBSET FlagNames, NEW op \in {"anon", "file"},
         vma_create_fixed(areas, start, len, flags, op) # {}
  PROVE  Sound(vma_create_fixed(areas, start, len, flags, op))
  <1> DEFINE end == page_align(start + len)
             new == new_vma(start, end, flags, op)
  <1>1. /\ ~FixedTaken(areas, start, len)
        /\ vma_create_fixed(areas, start, len, flags, op) = areas \cup {new}
    BY DEF vma_create_fixed
  <1>2. start \in Nat /\ start + len \in Nat
    BY DEF Aligned
  <1>3. Aligned(end) /\ start <= end /\ end > 0 /\ \A m : Aligned(m) /\ start + len <= m => end <= m
    BY <1>2, PageAlign DEF Aligned
  <1>4. Whole(new) /\ new.start = start /\ new.end = end
    BY <1>3, NewArea
  <1>5. ASSUME NEW b \in areas PROVE b.end <= start \/ end <= b.start
    <2> SUFFICES ASSUME b.end > start PROVE end <= b.start
      BY <1>2 DEF Sound, Whole, Area
    <2> DEFINE a == Lowest(Above(areas, start))
    <2>1. b \in Above(areas, start) /\ \A x \in Above(areas, start) : x \in Area
      BY DEF Above, Sound, Whole
    <2>2. a \in Above(areas, start) /\ a.start <= b.start
      BY <2>1, LowestIs
    <2>3. ~vma_contains(a, start) /\ ~(a.start - start < len)
      BY <1>1, <2>1 DEF FixedTaken
    <2>4. Aligned(a.start) /\ Aligned(b.start)
      BY <2>2 DEF Above, Sound, Whole
    <2> HIDE DEF a
    <2>5. start + len <= a.start
      BY <1>2, <2>3, <2>4 DEF Aligned
    <2> QED
      BY <1>3, <2>2, <2>4, <2>5 DEF Aligned
  <1> HIDE DEF new, end
  <1>6. \A b \in areas : Apart(new, b)
    BY <1>4, <1>5 DEF Apart
  <1> QED
    BY <1>1, <1>4, <1>6, AddSound

LEMMA HighSound ==
  ASSUME NEW areas, Sound(areas), NEW low, NEW high, Aligned(high), low \in Nat \ {0},
         NEW len \in Nat, NEW flags \in SUBSET FlagNames, NEW op \in {"anon", "file"},
         vma_create_high(areas, low, high, len, flags, op) # {}
  PROVE  Sound(vma_create_high(areas, low, high, len, flags, op))
  <1> DEFINE l == page_align(len)
             Below(e) == {a \in areas : a.start < e}
             ends == {high} \cup {a.start : a \in Below(high)}
             roomy == {e \in ends : /\ low < e /\ low + l <= e
                                    /\ \A a \in Below(e) : a.end + l <= e}
             top == CHOOSE e \in roomy : \A x \in roomy : x <= e
             addr == vma_find_space_high(areas, low, high, len)
             new == new_vma(addr, page_align(addr + len), flags, op)
  <1>1. Aligned(l) /\ l >= 0
    BY PageAlign DEF Aligned
  <1>2. addr # 0 /\ vma_create_high(areas, low, high, len, flags, op) = areas \cup {new}
    BY DEF vma_create_high
  <1>3. roomy # {} /\ addr = top - l
    BY <1>2 DEF vma_find_space_high
  <1>4. top \in roomy
    <2>1. \A e \in ends : e \in Nat /\ e <= high
      BY DEF Sound, Whole, Area, Aligned
    <2>2. roomy \in SUBSET Nat /\ \A e \in roomy : e <= high
      BY <2>1
    <2>3. \E e \in roomy : \A x \in roomy : x <= e
      BY <1>3, <2>2, Greatest DEF Aligned
    <2> QED
      BY <2>3
  <1>5. /\ Aligned(top) /\ low + l <= top
        /\ \A a \in areas : a.start < top => a.end + l <= top
    BY <1>4 DEF Sound, Whole
  <1> HIDE DEF top, addr, l
  <1>6. Aligned(addr) /\ addr + l = top
    <2>1. top >= l
      BY <1>1, <1>5 DEF Aligned
    <2>2. Aligned(top - l)
      BY <1>1, <1>5, <2>1, AlignedSum
    <2> QED
      BY <1>1, <1>3, <1>5, <2>2 DEF Aligned
  <1>7. page_align(addr + len) = top
    BY <1>6, PageAlignFrom DEF l
  <1>8. Whole(new) /\ new.start = addr /\ new.end = top
    <2>1. addr <= top /\ top > 0
      BY <1>1, <1>5, <1>6 DEF Aligned
    <2>2. new = new_vma(addr, top, flags, op)
      BY <1>7
    <2> QED
      BY <1>5, <1>6, <2>1, <2>2, NewArea
  <1> HIDE DEF new
  <1>9. \A b \in areas : Apart(new, b)
    BY <1>1, <1>5, <1>6, <1>8 DEF Apart, Sound, Whole, Area, Aligned
  <1> QED
    BY <1>2, <1>8, <1>9, AddSound

\* get_heap maps the page of an address that is in no area.
LEMMA PageSound ==
  ASSUME NEW areas, Sound(areas), NEW dst \in Nat, vma_get(areas, dst) = {},
         NEW flags \in SUBSET FlagNames
  PROVE  Sound(vma_map(areas, dst, 1, flags)) /\ vma_get(vma_map(areas, dst, 1, flags), dst) # {}
  <1> DEFINE base == page_base(dst)
             new == new_vma(base, base + FRAME_SIZE, flags, "anon")
  <1>1. Aligned(base) /\ base <= dst /\ dst < base + FRAME_SIZE
    BY PageBase
  <1>2. Aligned(base + FRAME_SIZE)
    BY <1>1, AlignedSum, AlignedForm, FrameAssumption, FRAME_SIZE = 1 * FRAME_SIZE
  <1>3. vma_map(areas, dst, 1, flags) = areas \cup {new}
    <2>1. PICK m \in 0 .. FRAME_SIZE - 1 : m = dst % FRAME_SIZE
      BY Division, FrameAssumption
    <2>2. m + (1 - 1) = m /\ m \in Nat /\ m = (0 * FRAME_SIZE) + m
      BY FrameAssumption
    <2>3. m \div FRAME_SIZE = 0
      BY <2>2, QuotientIs, FrameAssumption
    <2>4. ((dst % FRAME_SIZE) + (1 - 1)) \div FRAME_SIZE + 1 = 1
      BY <2>1, <2>2, <2>3
    <2>5. 1 * FRAME_SIZE = FRAME_SIZE
      BY FrameAssumption
    <2> QED
      BY <2>4, <2>5 DEF vma_map
  <1>4. Whole(new) /\ new.start = base /\ new.end = base + FRAME_SIZE
    BY <1>1, <1>2, NewArea, base <= base + FRAME_SIZE, base + FRAME_SIZE > 0, FrameAssumption DEF Aligned
  <1> HIDE DEF new, base
  <1>5. ASSUME NEW b \in areas PROVE Apart(new, b)
    <2>1. Aligned(b.start) /\ Aligned(b.end)
      BY DEF Sound, Whole
    <2>2. ~(b.start <= dst /\ dst < b.end)
      BY DEF vma_get, vma_contains
    <2>3. b.start > base => b.start >= base + FRAME_SIZE
      BY <1>1, <2>1, AlignedSum
    <2>4. b.end > base => b.end >= base + FRAME_SIZE
      BY <1>1, <2>1, AlignedSum
    <2> QED
      BY <1>1, <1>4, <2>1, <2>2, <2>3, <2>4, FrameAssumption DEF Apart, Aligned
  <1>6. Sound(vma_map(areas, dst, 1, flags))
    BY <1>3, <1>4, <1>5, AddSound
  <1>7. new \in vma_get(vma_map(areas, dst, 1, flags), dst)
    BY <1>1, <1>3, <1>4 DEF vma_get, vma_contains
  <1> QED
    BY <1>6, <1>7

\* vma_grow_up compares the amount with the room before it is rounded up.
LEMMA GrowSound ==
  ASSUME NEW areas, Sound(areas), NEW a \in areas, a.start < a.end, NEW amount \in Nat,
         CanGrow(areas, a, amount)
  PROVE  Sound(vma_grow_up(areas, a, amount))
  <1> DEFINE end == a.end + page_align(amount)
             new == [a EXCEPT !.end = end]
             after == {b \in areas : b.start > a.start}
  <1>1. Whole(a) /\ a \in Area /\ Aligned(a.start) /\ Aligned(a.end) /\ a.start < a.end
    BY DEF Sound, Whole
  <1>2. Aligned(page_align(amount)) /\ amount <= page_align(amount)
    BY PageAlign
  <1>3. Aligned(end) /\ a.end <= end
    BY <1>1, <1>2, AlignedSum DEF Aligned
  <1>4. end = page_align(a.end + amount)
    BY <1>1, PageAlignFrom
  <1> HIDE DEF end
  <1>5. Whole(new) /\ new.start = a.start /\ new.end = end
    BY <1>1, <1>3 DEF Whole, Area, Aligned
  <1>6. ASSUME NEW b \in areas \ {a} PROVE Apart(new, b)
    <2>1. Apart(a, b) /\ Whole(b)
      BY DEF Sound
    <2>2. CASE b.end <= a.start
      BY <1>5, <2>2 DEF Apart
    <2>3. CASE a.end <= b.start
      <3>1. b \in after /\ \A x \in after : x \in Area
        BY <1>1, <2>1, <2>3 DEF Sound, Whole, Aligned
      <3>2. Lowest(after) \in after /\ Lowest(after).start <= b.start
        BY <3>1, LowestIs
      <3>3. ~(Lowest(after).start < a.end + amount)
        BY <3>1 DEF CanGrow
      <3>4. a.end + amount <= b.start
        BY <1>1, <2>1, <3>2, <3>3 DEF Sound, Whole, Aligned
      <3>5. end <= b.start
        BY <1>1, <1>4, <2>1, <3>4, PageAlign DEF Whole, Aligned
      <3> QED
        BY <1>5, <3>5 DEF Apart
    <2> QED
      BY <2>1, <2>2, <2>3 DEF Apart
  <1>7. Sound(areas \ {a})
    BY DEF Sound
  <1> QED
    BY <1>5, <1>6, <1>7, AddSound DEF vma_grow_up, end

\* munmap leaves of an area what is outside of the range.
LEMMA MunmapSound ==
  ASSUME NEW areas, Sound(areas), NEW start, NEW end, Aligned(start), Aligned(end), start <= end
  PROVE  Sound(MapAfterMunmap(areas, start, end))
  <1> DEFINE cut == InRange(areas, start, end)
             left == MapAfterMunmap(areas, start, end)
  <1>1. ASSUME NEW a \in cut, NEW x \in Rest(a, start, end)
        PROVE  /\ Whole(x) /\ a.start <= x.start /\ x.end <= a.end
               /\ x.end <= start \/ end <= x.start
    <2>1. Whole(a) /\ a \in Area /\ start <= a.end /\ a.start < end
      BY DEF Sound, Whole, InRange, Aligned, Area
    <2>2. CASE a.start < start /\ x = [a EXCEPT !.end = start]
      BY <2>1, <2>2 DEF Whole, Area, Aligned
    <2>3. CASE a.end > end /\ x = [a EXCEPT !.start = end]
      BY <2>1, <2>3 DEF Whole, Area, Aligned
    <2> QED
      BY <2>2, <2>3 DEF Rest
  <1>2. ASSUME NEW x \in left
        PROVE  \E a \in areas : /\ Whole(x) /\ Whole(a) /\ a.start <= x.start /\ x.end <= a.end
                                /\ IF a \in cut THEN x \in Rest(a, start, end) ELSE x = a
    <2>1. CASE x \in areas \ cut
      BY <2>1 DEF Sound, Whole, Area
    <2>2. CASE \E a \in cut : x \in Rest(a, start, end)
      BY <1>1, <2>2 DEF Sound, InRange
    <2> QED
      BY <2>1, <2>2 DEF MapAfterMunmap
  <1>3. ASSUME NEW x \in left, NEW y \in left, x # y PROVE Apart(x, y)
    <2>1. PICK a \in areas : /\ Whole(x) /\ Whole(a) /\ a.start <= x.start /\ x.end <= a.end
                             /\ IF a \in cut THEN x \in Rest(a, start, end) ELSE x = a
      BY <1>2
    <2>2. PICK b \in areas : /\ Whole(y) /\ Whole(b) /\ b.start <= y.start /\ y.end <= b.end
                             /\ IF b \in cut THEN y \in Rest(b, start, end) ELSE y = b
      BY <1>2
    <2>3. CASE a # b
      <3>1. Apart(a, b)
        BY <2>3 DEF Sound
      <3> QED
        BY <2>1, <2>2, <3>1 DEF Apart, Whole, Aligned
    <2>4. CASE a = b
      <3>1. x \in Rest(a, start, end) /\ y \in Rest(a, start, end)
        BY <1>3, <2>1, <2>2, <2>4
      <3> QED
        BY <1>3, <2>1, <2>2, <3>1 DEF Rest, Apart, Whole, Area, Aligned
    <2> QED
      BY <2>3, <2>4
  <1> QED
    BY <1>2, <1>3 DEF Sound

-----------------------------------------------------------------------------
(* From areas to pages *)

\* Quotient first, then remainder.
LEMMA Order ==
  ASSUME NEW P \in Nat \ {0}, NEW a \in Nat, NEW b \in Nat, NEW y \in 0 .. P - 1, NEW z \in 0 .. P - 1
  PROVE  (a * P) + y <= (b * P) + z <=> a < b \/ (a = b /\ y <= z)
  <1>1. a + 1 <= b => (a + 1) * P <= b * P
    BY TimesMonotone, a + 1 \in Nat
  <1>2. b + 1 <= a => (b + 1) * P <= a * P
    BY TimesMonotone, b + 1 \in Nat
  <1>3. (a + 1) * P = (a * P) + P /\ (b + 1) * P = (b * P) + P
    BY SMT
  <1>4. PICK u \in Nat, v \in Nat : u = a * P /\ v = b * P
    BY TimesMonotone
  <1>5. (a + 1 <= b => u + P <= v) /\ (b + 1 <= a => v + P <= u) /\ (a = b => u = v)
    BY <1>1, <1>2, <1>3, <1>4
  <1>6. u + y <= v + z <=> a < b \/ (a = b /\ y <= z)
    BY <1>5
  <1> QED
    BY <1>4, <1>6

\* The entry of page table k at which pm_apply starts, and the one at which it
\* stops, for an area that begins with entry r of table s and ends with entry t
\* of table e.
LEMMA FirstEntry ==
  ASSUME NEW start \in Nat, NEW s \in Nat, NEW r \in 0 .. PTRS - 1,
         start \div FRAME_SIZE = (s * PTRS) + r,
         NEW k \in Nat, s <= k
  PROVE  (IF start > k * PTRS * FRAME_SIZE THEN addr_to_pti(start) ELSE 0) = IF k = s THEN r ELSE 0
  <1> USE FrameAssumption
  <1>1. PICK n \in Nat : n = k * PTRS
    BY TimesMonotone
  <1>2. PICK b \in Nat : b = n * FRAME_SIZE
    BY TimesMonotone
  <1>3. PICK q \in Nat : q = start \div FRAME_SIZE
    BY Division
  <1>4. q % PTRS = r
    BY <1>3, QuotientIs
  <1>5. n <= q <=> b <= start
    BY <1>2, <1>3, QuotientAtLeast
  <1>6. (k * PTRS) + 0 <= (s * PTRS) + r <=> k < s \/ (k = s /\ 0 <= r)
    BY Order, 0 \in 0 .. PTRS - 1
  <1>7. k = s <=> b <= start
    BY <1>1, <1>3, <1>5, <1>6
  <1>8. ASSUME b = start, k = s PROVE r = 0
    <2>1. start \div FRAME_SIZE = n
      BY <1>2, <1>8, QuotientIs, 0 \in 0 .. FRAME_SIZE - 1, start = (n * FRAME_SIZE) + 0
    <2> QED
      BY <1>1, <1>8, <2>1
  <1> QED
    BY <1>1, <1>2, <1>3, <1>4, <1>7, <1>8 DEF addr_to_pti

LEMMA LastEntry ==
  ASSUME NEW end \in Nat \ {0}, NEW e \in Nat, NEW t \in 0 .. PTRS - 1,
         (end - 1) \div FRAME_SIZE = (e * PTRS) + t,
         NEW k \in Nat, k <= e
  PROVE  (IF end < (k + 1) * PTRS * FRAME_SIZE THEN addr_to_pti(end - 1) ELSE PTRS - 1)
            = IF k = e THEN t ELSE PTRS - 1
  <1> USE FrameAssumption
  <1>0. end - 1 \in Nat /\ k + 1 \in Nat
    OBVIOUS
  <1>1. PICK n \in Nat : n = (k + 1) * PTRS
    BY <1>0, TimesMonotone
  <1>2. PICK b \in Nat : b = n * FRAME_SIZE
    BY TimesMonotone
  <1>3. PICK q \in Nat : q = (end - 1) \div FRAME_SIZE
    BY <1>0, Division
  <1>4. q % PTRS = t
    BY <1>3, QuotientIs
  <1>5. n <= q <=> b <= end - 1
    BY <1>0, <1>2, <1>3, QuotientAtLeast
  <1>6. ((k + 1) * PTRS) + 0 <= (e * PTRS) + t <=> k + 1 < e \/ (k + 1 = e /\ 0 <= t)
    BY <1>0, Order, 0 \in 0 .. PTRS - 1
  <1>7. k = e <=> end <= b
    BY <1>0, <1>1, <1>3, <1>5, <1>6
  <1>8. ASSUME end = b, k = e PROVE t = PTRS - 1
    <2>1. n >= 1 /\ n = (k * PTRS) + PTRS /\ k * PTRS \in Nat
      BY <1>1, TimesMonotone, SMT
    <2>2. PICK c \in Nat : c = n - 1
      BY <2>1
    <2>3. b = (c * FRAME_SIZE) + FRAME_SIZE /\ c * FRAME_SIZE \in Nat
      BY <1>2, <2>2, TimesMonotone, SMT
    <2>4. end - 1 = (c * FRAME_SIZE) + (FRAME_SIZE - 1)
      BY <1>8, <2>3
    <2>5. (end - 1) \div FRAME_SIZE = c
      BY <1>0, <2>4, QuotientIs, FRAME_SIZE - 1 \in 0 .. FRAME_SIZE - 1
    <2> QED
      BY <1>8, <2>1, <2>2, <2>5
  <1> QED
    BY <1>0, <1>1, <1>2, <1>3, <1>4, <1>7, <1>8 DEF addr_to_pti

\* pm_apply visits the pages of any stretch of addresses.
LEMMA PmApply ==
  ASSUME NEW a, a.start \in Nat, a.end \in Nat \ {0}
  PROVE  pm_apply(a) = PagesOf(a)
  <1> USE FrameAssumption
  <1>1. PICK S \in Nat, E \in Nat : S = a.start \div FRAME_SIZE /\ E = (a.end - 1) \div FRAME_SIZE
    BY Division, a.end - 1 \in Nat
  <1>2. PICK s \in Nat : \E r \in 0 .. PTRS - 1 : s = S \div PTRS /\ r = S % PTRS /\ S = (s * PTRS) + r
    BY Divided
  <1>3. PICK r \in 0 .. PTRS - 1 : s = S \div PTRS /\ S = (s * PTRS) + r
    BY <1>2
  <1>4. PICK e \in Nat : \E t \in 0 .. PTRS - 1 : e = E \div PTRS /\ t = E % PTRS /\ E = (e * PTRS) + t
    BY Divided
  <1>5. PICK t \in 0 .. PTRS - 1 : e = E \div PTRS /\ E = (e * PTRS) + t
    BY <1>4
  <1>6. addr_to_pdi(a.start) = s /\ addr_to_pdi(a.end - 1) = e
    <2>1. a.start \div (PTRS * FRAME_SIZE) = (a.start \div FRAME_SIZE) \div PTRS
      BY QuotientTwice
    <2>2. (a.end - 1) \div (PTRS * FRAME_SIZE) = ((a.end - 1) \div FRAME_SIZE) \div PTRS
      BY QuotientTwice, a.end - 1 \in Nat
    <2> QED
      BY <1>1, <1>3, <1>5, <2>1, <2>2 DEF addr_to_pdi
  <1> DEFINE first(k) == IF a.start > k * PTRS * FRAME_SIZE THEN addr_to_pti(a.start) ELSE 0
             last(k) == IF a.end < (k + 1) * PTRS * FRAME_SIZE THEN addr_to_pti(a.end - 1) ELSE PTRS - 1
             visited(k) == {k * PTRS + x : x \in first(k) .. last(k)}
  <1>7. pm_apply(a) = UNION {visited(k) : k \in addr_to_pdi(a.start) .. addr_to_pdi(a.end - 1)}
    BY DEF pm_apply
  <1>8. \A k \in s .. e : /\ first(k) = IF k = s THEN r ELSE 0
                          /\ last(k) = IF k = e THEN t ELSE PTRS - 1
    <2> TAKE k \in s .. e
    <2>1. k \in Nat /\ s <= k /\ k <= e
      OBVIOUS
    <2> QED
      <3>1. first(k) = IF k = s THEN r ELSE 0
        BY <1>1, <1>3, <2>1, FirstEntry
      <3>2. last(k) = IF k = e THEN t ELSE PTRS - 1
        BY <1>1, <1>5, <2>1, LastEntry
      <3> QED
        BY <3>1, <3>2
  <1> HIDE DEF first, last
  <1>9. ASSUME NEW k \in s .. e, NEW x \in first(k) .. last(k)
        PROVE  k * PTRS + x \in S .. E
    <2>1. k \in Nat /\ x \in 0 .. PTRS - 1
      BY <1>8
    <2>2. (s * PTRS) + r <= (k * PTRS) + x /\ (k * PTRS) + x <= (e * PTRS) + t
      BY <1>8, <2>1, Order
    <2> QED
      BY <1>3, <1>5, <2>1, <2>2, TimesMonotone
  <1>10. ASSUME NEW pg \in S .. E
        PROVE  \E k \in s .. e : \E x \in first(k) .. last(k) : pg = k * PTRS + x
    <2>1. pg \in Nat /\ S <= pg /\ pg <= E
      OBVIOUS
    <2>2. PICK k \in Nat : \E x \in 0 .. PTRS - 1 : k = pg \div PTRS /\ x = pg % PTRS /\ pg = (k * PTRS) + x
      BY <2>1, Divided
    <2>3. PICK x \in 0 .. PTRS - 1 : pg = (k * PTRS) + x
      BY <2>2
    <2>4. (s < k \/ (s = k /\ r <= x)) /\ (k < e \/ (k = e /\ x <= t))
      BY <1>3, <1>5, <2>1, <2>3, Order
    <2>5. k \in s .. e /\ x \in first(k) .. last(k)
      BY <1>8, <2>4
    <2> QED
      BY <2>3, <2>5
  <1>11. PagesOf(a) = S .. E
    BY <1>1 DEF PagesOf
  <1>12. ASSUME NEW pg PROVE pg \in pm_apply(a) <=> pg \in S .. E
    <2>1. pg \in pm_apply(a) <=> \E k \in s .. e : pg \in visited(k)
      BY <1>6, <1>7
    <2> QED
      BY <1>9, <1>10, <2>1
  <1> QED
    BY <1>11, <1>12

-----------------------------------------------------------------------------
(* The calls *)

\* The inductive invariant: the areas of every slot are whole pages and apart,
\* and the break of a live process is in user space.
AreasInv ==
    /\ state \in [Procs -> {"live", "zombie", "dead"}]
    /\ map \in [Procs -> SUBSET Area] /\ \A p \in Procs : Sound(map[p])
    /\ brk \in [Procs -> Nat] /\ \A p \in Procs : state[p] = "live" => brk[p] >= user_base

LEMMA SoundPart ==
  ASSUME NEW areas, Sound(areas), NEW part \in SUBSET areas
  PROVE  Sound(part)
  BY DEF Sound

LEMMA Bounds ==
  Aligned(user_base) /\ user_base \in Nat \ {0} /\ Aligned(kernel_base)
  <1> USE FrameAssumption, MemoryAssumption
  <1>1. Aligned(FRAME_SIZE)
    BY AlignedForm, FRAME_SIZE = 1 * FRAME_SIZE
  <1>2. PICK k \in Nat, b \in Nat : k = NPages + 1 /\ b = k * FRAME_SIZE
    BY TimesMonotone, NPages + 1 \in Nat
  <1>3. Aligned(b)
    BY <1>2, AlignedForm
  <1> QED
    BY <1>1, <1>2, <1>3 DEF user_base, kernel_base

LEMMA AreasChanged ==
  ASSUME AreasInv, NEW p \in Procs, NEW newmap, Sound(newmap),
         NEW newbrk \in Nat, newbrk >= user_base, state' = state,
         map' = [map EXCEPT ![p] = newmap], brk' = [brk EXCEPT ![p] = newbrk]
  PROVE  AreasInv'
  <1>1. newmap \in SUBSET Area
    BY DEF Sound, Whole
  <1>2. map' \in [Procs -> SUBSET Area]
    BY <1>1 DEF AreasInv
  <1>3. ASSUME NEW q \in Procs PROVE Sound(map'[q])
    <2>1. map'[q] = IF q = p THEN newmap ELSE map[q]
      BY DEF AreasInv
    <2> QED
      BY <2>1 DEF AreasInv
  <1>4. /\ brk' \in [Procs -> Nat] /\ state' = state
        /\ \A q \in Procs : brk'[q] = IF q = p THEN newbrk ELSE brk[q]
    BY DEF AreasInv
  <1> QED
    BY <1>2, <1>3, <1>4 DEF AreasInv

LEMMA ForkStep ==
  ASSUME AreasInv, NEW p \in Procs, NEW q \in Procs, Fork(p, q)
  PROVE  AreasInv'
  <1>1. CASE UNCHANGED <<state, map, brk>>
    BY <1>1 DEF AreasInv
  <1>2. CASE /\ state' = [state EXCEPT ![q] = "live"]
             /\ map' = [map EXCEPT ![q] = map[p]]
             /\ brk' = [brk EXCEPT ![q] = brk[p]]
             /\ state[p] = "live"
    <2>1. /\ state' \in [Procs -> {"live", "zombie", "dead"}]
          /\ map' \in [Procs -> SUBSET Area] /\ brk' \in [Procs -> Nat]
      BY <1>2 DEF AreasInv
    <2>2. ASSUME NEW x \in Procs
          PROVE  Sound(map'[x]) /\ (state'[x] = "live" => brk'[x] >= user_base)
      <3>1. /\ map'[x] = IF x = q THEN map[p] ELSE map[x]
            /\ brk'[x] = IF x = q THEN brk[p] ELSE brk[x]
            /\ state'[x] = IF x = q THEN "live" ELSE state[x]
        BY <1>2 DEF AreasInv
      <3> QED
        BY <1>2, <3>1 DEF AreasInv
    <2> QED
      BY <2>1, <2>2 DEF AreasInv
  <1> QED
    BY <1>1, <1>2 DEF Fork, Panic, CanCall, Live

\* The process stays in its slot without its memory.
LEMMA ExitStep ==
  ASSUME AreasInv, NEW p \in Procs, Exit(p) \/ Reap(p)
  PROVE  AreasInv'
  <1>1. PICK kept \in SUBSET map[p] : map' = [map EXCEPT ![p] = kept]
    <2>1. CASE Exit(p)
      BY <2>1 DEF Exit, AreasInv
    <2>2. CASE Reap(p)
      <3>1. map' = [map EXCEPT ![p] = map[p]]
        BY <2>2 DEF Reap, AreasInv
      <3> QED
        BY <3>1
    <2> QED
      BY <2>1, <2>2
  <1>2. /\ state' \in [Procs -> {"live", "zombie", "dead"}] /\ brk' = brk
        /\ \A q \in Procs : state'[q] = "live" => state[q] = "live"
    BY DEF Exit, Reap, AreasInv
  <1>3. ASSUME NEW q \in Procs PROVE map'[q] \in SUBSET Area /\ Sound(map'[q])
    <2>1. map'[q] = IF q = p THEN kept ELSE map[q]
      BY <1>1 DEF AreasInv
    <2> QED
      BY <2>1, SoundPart DEF AreasInv
  <1>4. map' \in [Procs -> SUBSET Area]
    BY <1>1, <1>3 DEF AreasInv
  <1> QED
    BY <1>2, <1>3, <1>4 DEF AreasInv

LEMMA MmapStep ==
  ASSUME AreasInv, NEW p \in Procs, NEW m \in Mmaps, sys_mmap(p, m[1], m[2], m[3], m[4], m[5])
  PROVE  AreasInv'
  <1> DEFINE flags == IF m[4] = "anon" THEN m[3] \cup {"VM_ZERO"} ELSE m[3]
             new == mmap_create_vma(p, m[1], m[2], flags, m[4], m[5])
  <1>1. /\ m[1] \in Nat /\ m[2] \in Nat /\ (m[5] => m[1] + m[2] > 0) /\ m[4] \in {"anon", "file"}
        /\ flags \in SUBSET FlagNames
    BY ArgumentsAssumption DEF FlagNames
  <1>2. /\ new # {} /\ (m[5] => m[1] % FRAME_SIZE = 0) /\ state[p] = "live"
        /\ AreaCall(p, new, brk[p])
    BY DEF sys_mmap, CanCall, Live
  <1> HIDE DEF flags
  <1>3. Sound(map[p]) /\ brk[p] \in Nat /\ brk[p] >= user_base
    BY <1>2 DEF AreasInv
  <1>4. Sound(new)
    <2>1. CASE m[5]
      BY <1>1, <1>2, <1>3, <2>1, FixedSound DEF mmap_create_vma, Aligned
    <2>2. CASE ~m[5]
      BY <1>1, <1>2, <1>3, <2>2, HighSound, Bounds DEF mmap_create_vma
    <2> QED
      BY <2>1, <2>2
  <1> QED
    BY <1>2, <1>3, <1>4, AreasChanged DEF AreaCall

LEMMA MunmapStep ==
  ASSUME AreasInv, NEW p \in Procs, NEW r \in Ranges, sys_munmap(p, r[1], r[2])
  PROVE  AreasInv'
  <1> DEFINE end == r[1] + page_align(r[2])
  <1>1. r[1] \in Nat /\ r[2] \in Nat
    BY ArgumentsAssumption
  <1>2. Aligned(r[1])
    BY <1>1 DEF sys_munmap, Aligned
  <1>3. Aligned(end) /\ r[1] <= end
    BY <1>1, <1>2, PageAlign, AlignedSum DEF Aligned
  <1>4. /\ map' = [map EXCEPT ![p] = MapAfterMunmap(map[p], r[1], end)]
        /\ state' = state /\ brk' = [brk EXCEPT ![p] = brk[p]] /\ state[p] = "live"
    BY DEF sys_munmap, CanCall, Live, AreasInv
  <1> HIDE DEF end
  <1>5. Sound(MapAfterMunmap(map[p], r[1], end))
    BY <1>2, <1>3, MunmapSound DEF AreasInv
  <1> QED
    BY <1>4, <1>5, AreasChanged DEF AreasInv

\* get_heap gives the page of brk - 1 an area, so that there is one to grow.
LEMMA SbrkStep ==
  ASSUME AreasInv, NEW p \in Procs, NEW inc \in Incs, sys_sbrk(p, inc)
  PROVE  AreasInv'
  <1> DEFINE m == MapWithHeap(p)
             heap == CHOOSE a \in vma_get(m, brk[p] - 1) : TRUE
             new == brk[p] + inc
  <1>1. /\ inc \in Int /\ Sound(map[p]) /\ state[p] = "live"
        /\ brk[p] \in Nat /\ brk[p] >= user_base /\ brk[p] - 1 \in Nat
    <2>1. inc \in Int
      BY MemoryAssumption
    <2>2. state[p] = "live"
      BY DEF sys_sbrk, CanCall, Live
    <2>3. Sound(map[p]) /\ brk[p] \in Nat /\ brk[p] >= user_base
      BY <2>2 DEF AreasInv
    <2> QED
      BY <2>1, <2>2, <2>3, Bounds
  <1>2. HEAP_FLAGS \in SUBSET FlagNames
    BY DEF HEAP_FLAGS, FlagNames
  <1>3. Sound(m) /\ vma_get(m, brk[p] - 1) # {}
    BY <1>1, <1>2, PageSound DEF MapWithHeap
  <1>4. heap \in m /\ heap.start < heap.end
    <2>1. heap \in vma_get(m, brk[p] - 1)
      BY <1>3
    <2> HIDE DEF heap
    <2> QED
      BY <1>1, <1>3, <2>1 DEF vma_get, vma_contains, Sound, Whole, Area
  <1>5. /\ new >= user_base
        /\ \/ AreaCall(p, m, brk[p])
           \/ AreaCall(p, m, new)
           \/ inc > 0 /\ CanGrow(m, heap, inc) /\ AreaCall(p, vma_grow_up(m, heap, inc), new)
    BY DEF sys_sbrk
  <1> HIDE DEF m, heap
  <1>6. new \in Nat
    BY <1>1, <1>5, Bounds
  <1>7. CASE AreaCall(p, m, brk[p])
    BY <1>1, <1>3, <1>7, AreasChanged DEF AreaCall
  <1>8. CASE AreaCall(p, m, new)
    BY <1>3, <1>5, <1>6, <1>8, AreasChanged DEF AreaCall
  <1>9. CASE inc > 0 /\ CanGrow(m, heap, inc) /\ AreaCall(p, vma_grow_up(m, heap, inc), new)
    <2>1. Sound(vma_grow_up(m, heap, inc))
      BY <1>1, <1>3, <1>4, <1>9, GrowSound
    <2> QED
      BY <1>5, <1>6, <1>9, <2>1, AreasChanged DEF AreaCall
  <1> QED
    BY <1>5, <1>7, <1>8, <1>9

LEMMA ExecveStep ==
  ASSUME AreasInv, NEW p \in Procs, NEW size \in ArgSizes, sys_execve(p, FRAME_SIZE, size)
  PROVE  AreasInv'
  <1> DEFINE kept == mm_exec(map[p])
             args == execve_copy_to_user(kept, size)
             elf == elf_map_segment(args, FRAME_SIZE)
  <1>1. /\ Sound(map[p]) /\ state[p] = "live" /\ brk[p] \in Nat /\ brk[p] >= user_base
        /\ state' = state /\ brk' = [brk EXCEPT ![p] = brk[p]]
    BY DEF AreasInv, sys_execve, CanCall, Live
  <1>2. \/ map' = [map EXCEPT ![p] = kept]
        \/ map' = [map EXCEPT ![p] = map[p]]
        \/ args # {} /\ map' = [map EXCEPT ![p] = IF elf = {} THEN args ELSE elf]
    BY DEF AreasInv, sys_execve
  <1>3. size \in Nat \ {0} /\ FRAME_SIZE \in Nat \ {0} /\ Aligned(FRAME_SIZE)
    BY MemoryAssumption, FrameAssumption, Bounds DEF user_base
  <1>4. HEAP_FLAGS \in SUBSET FlagNames /\ {"VM_READ", "VM_WRITE"} \in SUBSET FlagNames
    BY DEF HEAP_FLAGS, FlagNames
  <1>5. Sound(kept)
    BY <1>1, SoundPart DEF mm_exec
  <1> HIDE DEF kept
  <1>6. args # {} => Sound(args)
    BY <1>3, <1>4, <1>5, HighSound, Bounds DEF execve_copy_to_user
  <1> HIDE DEF args
  <1>7. args # {} /\ elf # {} => Sound(elf)
    BY <1>3, <1>4, <1>6, FixedSound DEF elf_map_segment
  <1> HIDE DEF elf
  <1>8. PICK newmap : Sound(newmap) /\ map' = [map EXCEPT ![p] = newmap]
    BY <1>1, <1>2, <1>5, <1>6, <1>7
  <1> QED
    BY <1>1, <1>8, AreasChanged

LEMMA StepAreas ==
  ASSUME AreasInv, [Next]_vars
  PROVE  AreasInv'
  <1>1. ASSUME NEW p \in Procs, NEW pg \in Touched,
               DemandPage(p, pg) \/ WriteFault(p, pg) \/ \E v \in Data : Store(p, pg, v)
        PROVE  UNCHANGED <<state, map, brk>>
    BY <1>1 DEF DemandPage, WriteFault, Store, Panic
  <1>2. ASSUME NEW p \in Procs, Calls(p) \/ Reap(p)
        PROVE  AreasInv'
    BY <1>2, ForkStep, ExitStep, MmapStep, MunmapStep, SbrkStep, ExecveStep DEF Calls
  <1>3. kmap_page_table \/ Halted \/ UNCHANGED vars => UNCHANGED <<state, map, brk>>
    BY DEF kmap_page_table, Halted, vars, Panic
  <1>4. UNCHANGED <<state, map, brk>> => AreasInv'
    BY DEF AreasInv
  <1> QED
    BY <1>1, <1>2, <1>3, <1>4 DEF Next

LEMMA InitAreas == Init => AreasInv
  <1> SUFFICES ASSUME Init PROVE AreasInv
    OBVIOUS
  <1> USE FrameAssumption, MemoryAssumption
  <1>1. Aligned(FRAME_SIZE) /\ Aligned(kernel_base)
    BY Bounds DEF user_base
  <1>2. PICK F \in Nat \ {0} : F = FRAME_SIZE
    OBVIOUS
  <1>3. HEAP_START = F + F /\ HEAP_START + FRAME_SIZE = F + F + F
    BY <1>2 DEF HEAP_START
  <1>4. PICK K \in Nat : K = kernel_base /\ K >= F + F + F + F
    <2>1. NPages + 1 \in Nat /\ 4 \in Nat /\ NPages + 1 >= 4
      OBVIOUS
    <2>2. (NPages + 1) * FRAME_SIZE \in Nat /\ (NPages + 1) * FRAME_SIZE >= 4 * FRAME_SIZE
      BY <2>1, TimesMonotone
    <2> QED
      BY <1>2, <2>2 DEF kernel_base
  <1>5. /\ Aligned(F + F) /\ Aligned(F + F + F) /\ Aligned(K) /\ Aligned(K - F) /\ Aligned(K + F)
    <2>1. Aligned(F) /\ Aligned(K) /\ F <= K
      BY <1>1, <1>2, <1>4
    <2>2. Aligned(F + F)
      BY <2>1, AlignedSum
    <2>3. Aligned(F + F + F)
      BY <2>1, <2>2, AlignedSum
    <2> QED
      BY <2>1, <2>2, <2>3, AlignedSum
  <1>6. /\ HEAP_FLAGS \in SUBSET FlagNames /\ USTACK_FLAGS \in SUBSET FlagNames
        /\ RODATA_FLAGS \in SUBSET FlagNames
    BY DEF HEAP_FLAGS, USTACK_FLAGS, RODATA_FLAGS, FlagNames
  <1> DEFINE h == new_vma(HEAP_START, HEAP_START + FRAME_SIZE, HEAP_FLAGS, "anon")
             s == new_vma(kernel_base - FRAME_SIZE, kernel_base, USTACK_FLAGS, "anon")
             k == new_vma(kernel_base, kernel_base + FRAME_SIZE, RODATA_FLAGS, "anon")
  <1>7. Whole(h) /\ h.start = F + F /\ h.end = F + F + F
    <2>1. Aligned(HEAP_START) /\ Aligned(HEAP_START + FRAME_SIZE)
          /\ HEAP_START <= HEAP_START + FRAME_SIZE /\ HEAP_START + FRAME_SIZE > 0
      BY <1>2, <1>3, <1>5
    <2>2. /\ Whole(h) /\ h.start = HEAP_START /\ h.end = HEAP_START + FRAME_SIZE
      BY <1>6, <2>1, NewArea
    <2> QED
      BY <1>3, <2>2
  <1>8. Whole(s) /\ s.start = K - F /\ s.end = K
    <2>1. Aligned(K - F) /\ Aligned(K) /\ K - F <= K /\ K > 0
      BY <1>4, <1>5
    <2>2. s = new_vma(K - F, K, USTACK_FLAGS, "anon")
      BY <1>2, <1>4
    <2> HIDE DEF s
    <2> QED
      BY <1>6, <2>1, <2>2, NewArea
  <1>9. Whole(k) /\ k.start = K /\ k.end = K + F
    <2>1. PICK e \in Nat : e = K + F /\ K <= e /\ e > 0
      BY <1>2, <1>4
    <2>2. Aligned(K) /\ Aligned(e)
      BY <1>5, <2>1
    <2>3. k = new_vma(K, e, RODATA_FLAGS, "anon")
      BY <1>2, <1>4, <2>1
    <2> HIDE DEF k
    <2>4. Whole(k) /\ k.start = K /\ k.end = e
      BY <1>6, <2>1, <2>2, <2>3, NewArea
    <2> QED
      BY <2>1, <2>4
  <1>10. map = [p \in Procs |-> IF p # INIT THEN {} ELSE {h, s, k}]
    BY DEF Init
  <1> HIDE DEF h, s, k
  <1>11. Sound({h, s, k}) /\ Sound({}) /\ {h, s, k} \in SUBSET Area
    <2>1. Apart(h, s) /\ Apart(h, k) /\ Apart(s, k) /\ Apart(s, h) /\ Apart(k, h) /\ Apart(k, s)
      BY <1>4, <1>7, <1>8, <1>9 DEF Apart
    <2> QED
      BY <1>7, <1>8, <1>9, <2>1 DEF Sound, Whole
  <1>12. map \in [Procs -> SUBSET Area] /\ \A p \in Procs : Sound(map[p])
    BY <1>10, <1>11
  <1>13. /\ brk \in [Procs -> Nat]
         /\ \A p \in Procs : state[p] = "live" => brk[p] >= user_base
    <2>1. HEAP_START + FRAME_SIZE \in Nat /\ HEAP_START + FRAME_SIZE >= user_base
      BY <1>2, <1>3 DEF user_base
    <2> HIDE DEF HEAP_START
    <2> QED
      BY <2>1 DEF Init
  <1>14. state \in [Procs -> {"live", "zombie", "dead"}]
    BY DEF Init
  <1> QED
    BY <1>12, <1>13, <1>14 DEF AreasInv

LEMMA InvAreas == AreasInv => AreasDisjoint
  <1> SUFFICES ASSUME AreasInv, NEW p \in Procs, NEW a \in map[p]
               PROVE  /\ Disjoint(map[p]) /\ pm_apply(a) = PagesOf(a)
                      /\ \A r \in Ranges :
                             LET end == r[1] + page_align(r[2])
                             IN  a \in InRange(map[p], r[1], end) =>
                                     pm_apply(Cut(a, r[1], end)) = PagesOf(Cut(a, r[1], end))
    <2>1. \A p \in Procs : map[p] = {} => Disjoint(map[p])
      BY DEF Disjoint
    <2> QED
      BY <2>1 DEF AreasDisjoint
  <1>1. Sound(map[p])
    BY DEF AreasInv
  <1>2. a \in Area /\ a.end > 0
    BY <1>1 DEF Sound, Whole
  <1>3. pm_apply(a) = PagesOf(a)
    BY <1>2, PmApply DEF Area
  <1>4. ASSUME NEW r \in Ranges, NEW end \in Nat, a \in InRange(map[p], r[1], end)
        PROVE  pm_apply(Cut(a, r[1], end)) = PagesOf(Cut(a, r[1], end))
    <2>1. r[1] \in Nat /\ a.start < end
      BY <1>2, <1>4, ArgumentsAssumption DEF InRange, Area
    <2>2. Cut(a, r[1], end).start \in Nat /\ Cut(a, r[1], end).end \in Nat \ {0}
      BY <1>2, <2>1 DEF Cut, Area
    <2> QED
      BY <2>2, PmApply
  <1>5. \A r \in Ranges : r[1] + page_align(r[2]) \in Nat
    BY ArgumentsAssumption, PageAlign DEF Aligned
  <1> QED
    BY <1>1, <1>3, <1>4, <1>5, SoundIsDisjoint

\* Whatever mmap, munmap, sbrk, fork and exec have done, no address of a process
\* is in two of its areas, and pm_apply visits the pages of an area, or of the
\* piece of one that munmap cuts, and no others.  Lengths of 0 are included.
\* ArgumentsAssumption is used, and needed: sys_mmap does not check that an
\* address plus a length stays below 2^32, nor refuse an empty fixed mapping at
\* address 0; the theorem is about programs that ask for neither.
THEOREM AreasCorrect == Spec => []AreasDisjoint
  <1>1. AreasInv /\ [Next]_vars => AreasInv'
    BY StepAreas
  <1> QED
    BY InitAreas, InvAreas, <1>1, PTL DEF Spec
=============================================================================
