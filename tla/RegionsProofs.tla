--------------------------- MODULE RegionsProofs ---------------------------
(***************************************************************************)
(* The region cache for every memory map, page size, number of steps and   *)
(* of faults: find_page() is exact, the contents of every known page that  *)
(* was written are recorded, no page is stored twice for a step, and only  *)
(* the first brk() can be lost.  All of it needs that the kernel hands out *)
(* no address twice (Reuse is FALSE): else regions overlap in the array.   *)
(*                                                                         *)
(* The invariant has four parts.  The array is sorted and its regions are  *)
(* apart (Shape), which comes from what the child can map where (Layout).  *)
(* A page has rows only if it is known, at most one for a step, and the    *)
(* last one is the copy (Stored).  Where the copy of a written page is out *)
(* of date, a fault on that page is still in the channel (Pending).        *)
(***************************************************************************)
EXTENDS Regions, InductionFacts, SequenceTheorems, FiniteSetTheorems

\* A region, and the pages the regions of an array hold.
RegionSet == UNION {{[start |-> r.page * PAGE_SIZE, end |-> (r.page + r.count) * PAGE_SIZE, pages |-> f] :
                       f \in [PagesOf(r) -> Values]} : r \in Extent}
RegionsOf(c) == {c[k] : k \in DOMAIN c}
Holds(c, p) == \E x \in RegionsOf(c) : p \in DOMAIN x.pages

Sorted(c) == \A i, j \in DOMAIN c : i < j => c[i].end <= c[j].start
Shape == cache \in Seq(RegionSet) /\ Sorted(cache)

\* The cached part of the heap ends below HeapEnd, which the heap never leaves
\* behind; init_cache() reads its map in address order.
HeapEnd == IF brk_boundary = 0 THEN brk ELSE brk_boundary
Layout ==
    /\ brk_boundary # 0 => HeapBase <= brk_boundary /\ brk <= brk_boundary /\ brk_boundary <= HeapTop
    /\ \A p \in HeapBase .. HeapTop - 1 : /\ Holds(cache, p) => p < HeapEnd
                                          /\ mem[p] # None => p < brk
    /\ \A p : Holds(cache, p) => p \in used
    /\ Mapped \subseteq used
    /\ pc = "init" =>
         /\ brk_boundary = 0 /\ IsHeapEnd(brk) /\ step_id = 1 /\ proc_mem_ch = <<>>
         /\ mem = Contents(InitialPages) /\ used = InitialPages /\ written = {}
         /\ Len(cache) <= Len(InitialMap)
         /\ \A p : Holds(cache, p) => \E j \in 1 .. Len(cache) : p \in PagesOf(InitialMap[j])

\* v is the last row of a page, whose rows are rs.
LastRow(rs, s, v) ==
    \E t \in 1 .. s : rs[t] = <<v>> /\ \A u \in Steps : u > t => rs[u] = <<>>

\* The rows rs after step s, for the array c.
StoredAt(c, rs, s) ==
    /\ \A p \in Pages, t \in Steps : ~Holds(c, p) \/ t > s => rs[p][t] = <<>>
    /\ \A p \in Pages, t \in Steps : Len(rs[p][t]) <= 1
    /\ \A x \in RegionsOf(c) : \A p \in DOMAIN x.pages :
         p \in Pages /\ LastRow(rs[p], s, x.pages[p])
\* A page that has a row for step s already has the memory m as its copy.
OnceAt(c, rs, s, m) ==
    \A x \in RegionsOf(c) : \A p \in DOMAIN x.pages : rs[p][s] # <<>> => x.pages[p] = m[p]
Stored ==
    /\ StoredAt(cache, rows, step_id)
    /\ pc = "drain" => OnceAt(cache, rows, step_id, mem)

\* The channel has a fault on page p.
Faulted(ch, p) == \E i \in DOMAIN ch : ch[i] \div PAGE_SIZE = p
\* The copy of a page among ws is the memory m, or a fault on it is in the channel.
FollowedAt(c, ch, ws, m) ==
    \A x \in RegionsOf(c) : \A p \in DOMAIN x.pages \cap ws : x.pages[p] = m[p] \/ Faulted(ch, p)
Pending ==
    /\ pc = "run" => \A p \in Mapped \ prot : Faulted(proc_mem_ch, p)
    /\ pc # "run" => Mapped \subseteq prot
    /\ pc = "stored" => proc_mem_ch = <<>>
    /\ FollowedAt(cache, proc_mem_ch, written, mem)

\* Known pages stay known, and a boundary that moves leaves known pages behind.
Growth ==
    /\ \A p : Holds(cache, p) => Holds(cache', p)
    /\ \/ brk_boundary' = brk_boundary \/ brk_boundary = 0
       \/ brk_boundary < brk_boundary' /\ \A p \in brk_boundary .. brk_boundary' - 1 : Holds(cache', p)

RegionsInv == TypeOK /\ Shape /\ Layout /\ Stored /\ Pending
-----------------------------------------------------------------------------
(* Pages and addresses *)

\* Products with the size of a page are monotonic.
LEMMA PageMono ==
  ASSUME NEW x \in Int, NEW y \in Int, NEW n \in Nat, n > 0
  PROVE  /\ x * n \in Int /\ y * n \in Int
         /\ x <= y => x * n <= y * n
         /\ x < y => x * n + n <= y * n
<1>1. x * n \in Int /\ y * n \in Int  OBVIOUS
<1>2. ASSUME x <= y PROVE x * n <= y * n
  <2>1. PICK d \in Nat : y = x + d  BY <1>2
  <2>2. y * n = x * n + d * n  BY <2>1
  <2>3. d * n \in Nat  OBVIOUS
  <2> QED  BY <1>1, <2>2, <2>3
<1>3. ASSUME x < y PROVE x * n + n <= y * n
  <2>1. PICK d \in Nat : y = (x + 1) + d  BY <1>3
  <2>2. y * n = x * n + n + d * n  BY <2>1
  <2>3. d * n \in Nat  OBVIOUS
  <2> QED  BY <1>1, <2>2, <2>3
<1> QED  BY <1>1, <1>2, <1>3

\* The page an address lies on (memcache.c:173 divides by the size of a page).
LEMMA PageOf ==
  ASSUME NEW a \in Int, NEW q \in Int
  PROVE  /\ a \div PAGE_SIZE \in Int
         /\ q * PAGE_SIZE \in Int
         /\ q * PAGE_SIZE <= a <=> q <= a \div PAGE_SIZE
         /\ a < q * PAGE_SIZE <=> a \div PAGE_SIZE < q
         /\ q * PAGE_SIZE <= a /\ a < q * PAGE_SIZE + PAGE_SIZE => a \div PAGE_SIZE = q
<1>1. PICK n \in Nat : n = PAGE_SIZE /\ n > 0  BY RegionsAssumption
<1>2. PICK d \in Int : d = a \div n  BY <1>1
<1>3. n * d <= a /\ a < n * d + n  BY <1>1, <1>2
<1>4. PICK x \in Int, y \in Int : x = d * n /\ y = q * n /\ x = n * d  BY <1>1
<1>5. x <= a /\ a < x + n  BY <1>3, <1>4
<1>6. /\ q <= d => y <= x
      /\ q < d => y + n <= x
      /\ d < q => x + n <= y
  BY <1>1, <1>4, PageMono
<1>7. (y <= a <=> q <= d) /\ (a < y <=> d < q)  BY <1>5, <1>6
<1>8. y <= a /\ a < y + n => d = q  BY <1>5, <1>6
<1> QED  BY <1>1, <1>2, <1>4, <1>7, <1>8

\* The pages are natural numbers, and page 0 is never mapped.
LEMMA PagesAreNatural ==
  Pages \subseteq Nat \ {0} /\ InitialPages \subseteq Pages /\ InitialPages \subseteq Nat \ {0}
<1>1. ASSUME NEW i \in DOMAIN InitialMap PROVE PagesOf(InitialMap[i]) \subseteq Nat \ {0}
  <2>1. InitialMap[i] \in Extent  BY RegionsAssumption
  <2>2. PICK q \in Nat \ {0}, c \in Nat \ {0} : q = InitialMap[i].page /\ c = InitialMap[i].count
    BY <2>1 DEF Extent
  <2> QED  BY <2>2 DEF PagesOf
<1>2. InitialPages \subseteq Nat \ {0}  BY <1>1 DEF InitialPages
<1>3. HeapBase .. HeapTop - 1 \subseteq Nat \ {0}  BY RegionsAssumption
<1> QED  BY <1>2, <1>3, RegionsAssumption DEF Pages

\* The addresses the child may write lie on its pages.
LEMMA AddressFacts ==
  ASSUME NEW a \in Addresses
  PROVE  a \in Int /\ a \div PAGE_SIZE \in Pages
<1>1. PICK p \in Pages : a \in p * PAGE_SIZE .. p * PAGE_SIZE + PAGE_SIZE - 1  BY DEF Addresses
<1>2. p \in Int  BY PagesAreNatural
<1>3. PICK n \in Nat, b \in Int : n = PAGE_SIZE /\ b = p * PAGE_SIZE  BY <1>2, RegionsAssumption
<1>4. a \in Int /\ b <= a /\ a < b + n  BY <1>1, <1>3
<1> QED  BY <1>2, <1>3, <1>4, PageOf

\* The first address of a page lies on that page.
LEMMA PageStart ==
  ASSUME NEW q \in Int
  PROVE  (q * PAGE_SIZE) \div PAGE_SIZE = q /\ q * PAGE_SIZE \in Int
<1>1. PICK a \in Int : a = q * PAGE_SIZE  BY RegionsAssumption
<1>2. a < a + PAGE_SIZE /\ PAGE_SIZE \in Int  BY RegionsAssumption
<1> QED  BY <1>1, <1>2, PageOf

\* What find_page() returns (memcache.c:175) for an address at or after page q.
LEMMA PageFound ==
  ASSUME NEW a \in Int, NEW q \in Int
  PROVE  (q * PAGE_SIZE + ((a - q * PAGE_SIZE) \div PAGE_SIZE) * PAGE_SIZE) \div PAGE_SIZE
           = a \div PAGE_SIZE
<1>1. PICK n \in Nat : n = PAGE_SIZE /\ n > 0  BY RegionsAssumption
<1>2. PICK x \in Int : x = q * n  BY <1>1
<1>3. PICK b \in Int : b = a - x  BY <1>2
<1>4. PICK e \in Int : e = b \div n  BY <1>1, <1>3
<1>5. PICK z \in Int : z = e * n /\ z <= b /\ b < z + n
  <2>1. n * e <= b /\ b < n * e + n  BY <1>1, <1>3, <1>4
  <2> QED  BY <1>1, <2>1
<1>6. PICK w \in Int : w = (q + e) * n /\ w = x + z  BY <1>1, <1>2, <1>5
<1>7. w <= a /\ a < w + n  BY <1>3, <1>5, <1>6
<1>8. a \div n = q + e  BY <1>1, <1>6, <1>7, PageOf
<1>9. w \div n = q + e  BY <1>1, <1>6, PageStart
<1> QED  BY <1>1, <1>2, <1>3, <1>4, <1>5, <1>6, <1>8, <1>9

\* A region in terms of pages: an address is inside when its page is.
LEMMA RegionFacts ==
  ASSUME NEW x \in RegionSet
  PROVE  /\ x.start \in Nat /\ x.end \in Nat /\ x.start < x.end
         /\ DOMAIN x.pages \subseteq Nat \ {0}
         /\ \A p \in DOMAIN x.pages : x.pages[p] \in Values
         /\ \A a \in Int : (x.start <= a /\ a < x.end) <=> a \div PAGE_SIZE \in DOMAIN x.pages
         /\ \A a \in Int : (x.start + ((a - x.start) \div PAGE_SIZE) * PAGE_SIZE) \div PAGE_SIZE
                             = a \div PAGE_SIZE
<1>0. PICK r \in Extent : \E f \in [PagesOf(r) -> Values] :
        x = [start |-> r.page * PAGE_SIZE, end |-> (r.page + r.count) * PAGE_SIZE, pages |-> f]
  BY DEF RegionSet
<1>1. PICK f \in [PagesOf(r) -> Values] :
        x = [start |-> r.page * PAGE_SIZE, end |-> (r.page + r.count) * PAGE_SIZE, pages |-> f]
  BY <1>0
<1>2. PICK q \in Nat, e \in Nat : q = r.page /\ e = r.page + r.count /\ q < e /\ q > 0
  BY DEF Extent
<1>3. DOMAIN x.pages = q .. e - 1 /\ \A p \in DOMAIN x.pages : x.pages[p] \in Values
  BY <1>1, <1>2 DEF PagesOf, Extent
<1>4. x.start = q * PAGE_SIZE /\ x.end = e * PAGE_SIZE  BY <1>1, <1>2
<1>5. PICK n \in Nat : n = PAGE_SIZE /\ n > 0  BY RegionsAssumption
<1>6. x.start \in Nat /\ x.end \in Nat /\ x.start < x.end
  <2>1. PICK u \in Nat, v \in Nat : u = q * n /\ v = e * n  BY <1>5
  <2>2. u + n <= v  BY <1>2, <1>5, <2>1, PageMono
  <2> QED  BY <1>4, <1>5, <2>1, <2>2
<1>7. \A a \in Int : (x.start <= a /\ a < x.end) <=> a \div PAGE_SIZE \in q .. e - 1
  <2> TAKE a \in Int
  <2>1. a \div PAGE_SIZE \in Int  BY PageOf
  <2>2. q * PAGE_SIZE <= a <=> q <= a \div PAGE_SIZE  BY PageOf
  <2>3. a < e * PAGE_SIZE <=> a \div PAGE_SIZE < e  BY PageOf
  <2> QED  BY <1>4, <2>1, <2>2, <2>3
<1>8. \A a \in Int : (x.start + ((a - x.start) \div PAGE_SIZE) * PAGE_SIZE) \div PAGE_SIZE
                       = a \div PAGE_SIZE
  BY <1>4, PageFound
<1>9. DOMAIN x.pages \subseteq Nat \ {0}  BY <1>2, <1>3
<1>10. \A a \in Int : (x.start <= a /\ a < x.end) <=> a \div PAGE_SIZE \in DOMAIN x.pages
  BY <1>3, <1>7
<1> QED  BY <1>3, <1>6, <1>8, <1>9, <1>10

\* A page in terms of addresses.
LEMMA HeldPage ==
  ASSUME NEW x \in RegionSet, NEW p \in Int
  PROVE  /\ p * PAGE_SIZE \in Int
         /\ p \in DOMAIN x.pages <=> (x.start <= p * PAGE_SIZE /\ p * PAGE_SIZE < x.end)
<1>1. PICK a \in Int : a = p * PAGE_SIZE /\ a \div PAGE_SIZE = p  BY PageStart
<1> QED  BY <1>1, RegionFacts

\* Two regions without a common page: the one that starts first ends first.
LEMMA RegionsApart ==
  ASSUME NEW x \in RegionSet, NEW y \in RegionSet,
         \A p \in DOMAIN y.pages : p \notin DOMAIN x.pages,
         x.start <= y.start
  PROVE  x.end <= y.start
<1>1. /\ x.start \in Nat /\ x.end \in Nat /\ y.start \in Nat /\ y.end \in Nat /\ y.start < y.end
  BY RegionFacts
<1>2. y.start \div PAGE_SIZE \in DOMAIN y.pages  BY <1>1, RegionFacts
<1>3. ~(y.start < x.end)  BY <1>1, <1>2, RegionFacts
<1> QED  BY <1>1, <1>3
-----------------------------------------------------------------------------
(* The binary search of find_page() *)

\* The variables of the search, over an array of n regions.
SearchSet(n) == [left : 0 .. n, right : 0 .. n, found : 0 .. n]

\* What an array in order is made of.
LEMMA ShapeFacts ==
  ASSUME Shape
  PROVE  /\ Len(cache) \in Nat /\ DOMAIN cache = 1 .. Len(cache)
         /\ \A k \in 1 .. Len(cache) :
              cache[k] \in RegionSet /\ cache[k].start \in Nat /\ cache[k].end \in Nat
                /\ cache[k].start < cache[k].end
         /\ \A i, j \in 1 .. Len(cache) : i < j => cache[i].end <= cache[j].start
<1>1. Len(cache) \in Nat /\ DOMAIN cache = 1 .. Len(cache)  BY DEF Shape
<1>2. \A k \in 1 .. Len(cache) : cache[k] \in RegionSet  BY <1>1 DEF Shape
<1> QED  BY <1>1, <1>2, RegionFacts DEF Shape, Sorted

\* One iteration (memcache.c:160) stays inside the array, keeps the regions that have
\* the address in the interval, and makes the interval smaller or ends the search.
LEMMA NarrowStep ==
  ASSUME Shape, NEW a \in Int, NEW n, n = Len(cache), NEW s \in SearchSet(n)
  PROVE  /\ Narrow(s, a) \in SearchSet(n)
         /\ (/\ s.left <= s.right
             /\ s.found # 0 => s.found \in Covering(a)
             /\ s.found = 0 => \A k \in Covering(a) : s.left < k /\ k <= s.right)
            => (/\ Narrow(s, a).left <= Narrow(s, a).right
                /\ Narrow(s, a).found # 0 => Narrow(s, a).found \in Covering(a)
                /\ Narrow(s, a).found = 0 =>
                     /\ \A k \in Covering(a) : Narrow(s, a).left < k /\ k <= Narrow(s, a).right
                     /\ s.found = 0
                     /\ \/ s.left = s.right /\ Narrow(s, a) = s
                        \/ Narrow(s, a).right - Narrow(s, a).left < s.right - s.left)
<1>0. n \in Nat /\ DOMAIN cache = 1 .. n
      /\ \A k \in 1 .. n : cache[k].start \in Nat /\ cache[k].end \in Nat /\ cache[k].start < cache[k].end
      /\ \A i, j \in 1 .. n : i < j => cache[i].end <= cache[j].start
  BY ShapeFacts
<1>1. PICK l \in 0 .. n, r \in 0 .. n, f \in 0 .. n : s = [left |-> l, right |-> r, found |-> f]
  <2>1. s.left \in 0 .. n /\ s.right \in 0 .. n /\ s.found \in 0 .. n
        /\ s = [left |-> s.left, right |-> s.right, found |-> s.found]
    BY DEF SearchSet
  <2> QED  BY <2>1
<1>2. s.left = l /\ s.right = r /\ s.found = f  BY <1>1
<1>3. CASE l = r \/ f # 0
  <2>1. Narrow(s, a) = s  BY <1>2, <1>3 DEF Narrow
  <2> QED  BY <1>2, <1>3, <2>1
<1>4. CASE l # r /\ f = 0
  <2>1. PICK i \in Int : i = (l + r) \div 2  BY <1>0
  <2>2. i \in 0 .. n - 1 /\ (l < r => l <= i /\ i < r) /\ i + 1 \in 1 .. n  BY <1>0, <1>4, <2>1
  <2>3. PICK x \in Nat, y \in Nat : x = cache[i + 1].start /\ y = cache[i + 1].end /\ x < y
    BY <1>0, <2>2
  <2>4. Narrow(s, a) = IF a < x THEN [s EXCEPT !.right = i]
                       ELSE IF a >= y THEN [s EXCEPT !.left = i + 1]
                       ELSE [s EXCEPT !.found = i + 1]
    BY <1>2, <1>4, <2>1, <2>3 DEF Narrow
  <2>5. ASSUME NEW k \in Covering(a)
        PROVE  k \in 1 .. n /\ (a < x => k <= i) /\ (a >= y => i + 1 < k)
    <3>1. k \in 1 .. n /\ cache[k].start <= a /\ a < cache[k].end  BY <1>0 DEF Covering
    <3>2. PICK u \in Nat, v \in Nat : u = cache[k].start /\ v = cache[k].end /\ u <= a /\ a < v
      BY <1>0, <3>1
    <3>3. k < i + 1 => v <= x  BY <1>0, <2>2, <2>3, <3>1, <3>2
    <3>4. i + 1 < k => y <= u  BY <1>0, <2>2, <2>3, <3>1, <3>2
    <3>5. k = i + 1 => u = x /\ v = y  BY <2>3, <3>2
    <3>6. k \in Int /\ k \in 1 .. n  BY <1>0, <3>1
    <3>9. x < y /\ u <= a /\ a < v  BY <2>3, <3>2
    <3>7. ASSUME a < x PROVE k <= i
      <4>1. k # i + 1  BY <3>5, <3>7, <3>9
      <4>2. ~(y <= u)  BY <3>7, <3>9
      <4>3. ~(i + 1 < k)  BY <3>4, <4>2
      <4> QED  BY <3>6, <4>1, <4>3
    <3>8. ASSUME a >= y PROVE i + 1 < k
      <4>1. k # i + 1  BY <3>5, <3>8, <3>9
      <4>2. ~(v <= x)  BY <3>8, <3>9
      <4>3. ~(k < i + 1)  BY <3>3, <4>2
      <4> QED  BY <3>6, <4>1, <4>3
    <3> QED  BY <3>6, <3>7, <3>8
  <2>6. CASE a < x
    <3>1. Narrow(s, a) = [left |-> l, right |-> i, found |-> f]  BY <1>1, <2>4, <2>6
    <3>2. PICK t : t = Narrow(s, a) /\ t.left = l /\ t.right = i /\ t.found = 0 /\ t \in SearchSet(n)
      BY <1>4, <2>2, <3>1 DEF SearchSet
    <3>3. l <= r => l <= i /\ i - l < r - l  BY <1>4, <2>2
    <3>4. \A k \in Covering(a) : l < k => l < k /\ k <= i  BY <2>5, <2>6
    <3> QED  BY <1>2, <1>4, <3>2, <3>3, <3>4
  <2>7. CASE ~(a < x) /\ a >= y
    <3>1. Narrow(s, a) = [left |-> i + 1, right |-> r, found |-> f]  BY <1>1, <2>4, <2>7
    <3>2. PICK t : t = Narrow(s, a) /\ t.left = i + 1 /\ t.right = r /\ t.found = 0 /\ t \in SearchSet(n)
      BY <1>4, <2>2, <3>1 DEF SearchSet
    <3>3. l <= r => i + 1 <= r /\ r - (i + 1) < r - l  BY <1>4, <2>2
    <3>4. \A k \in Covering(a) : k <= r => i + 1 < k /\ k <= r  BY <2>5, <2>7
    <3> QED  BY <1>2, <1>4, <3>2, <3>3, <3>4
  <2>8. CASE ~(a < x) /\ ~(a >= y)
    <3>1. Narrow(s, a) = [left |-> l, right |-> r, found |-> i + 1]  BY <1>1, <2>4, <2>8
    <3>2. PICK t : t = Narrow(s, a) /\ t.left = l /\ t.right = r /\ t.found = i + 1 /\ t \in SearchSet(n)
      BY <2>2, <3>1 DEF SearchSet
    <3>3. i + 1 \in Covering(a) /\ i + 1 # 0  BY <1>0, <2>2, <2>3, <2>8 DEF Covering
    <3> QED  BY <1>2, <3>2, <3>3
  <2> QED  BY <2>6, <2>7, <2>8
<1> QED  BY <1>3, <1>4

\* The search as the recursive function of FindRegion.
LEMMA SearchRecursion ==
  ASSUME Shape, NEW a \in Int, NEW n, n = Len(cache)
  PROVE  \E f : /\ f[0] = [left |-> 0, right |-> n, found |-> 0]
                /\ \A m \in 1 .. n : f[m] = Narrow(f[m - 1], a)
                /\ FindRegion(a) = f[n].found
<1> DEFINE V == SearchSet(n)
           v == [left |-> 0, right |-> n, found |-> 0]
           F == [m \in 1 .. n |-> [s \in V |-> Narrow(s, a)]]
           Body(g) == [m \in 0 .. n |-> IF m = 0 THEN v ELSE Narrow(g[m - 1], a)]
<1>1. n \in Nat  BY ShapeFacts
<1>2. v \in V  BY <1>1 DEF SearchSet
<1>3. F \in [1 .. n -> [V -> V]]
  <2>1. \A s \in V : Narrow(s, a) \in V  BY NarrowStep
  <2> HIDE DEF V
  <2> QED  BY <2>1
<1>4. PICK f \in [0 .. n -> V] : f[0] = v /\ \A m \in 1 .. n : f[m] = F[m][f[m - 1]]
  <2> HIDE DEF F, V, v
  <2>1. DefinedUpTo(n, V, v, F)  BY <1>1, <1>2, <1>3, RecursionUpTo
  <2> QED  BY <2>1 DEF DefinedUpTo
<1>5. \A m \in 1 .. n : m - 1 \in 0 .. n /\ f[m - 1] \in V  BY <1>1
<1>6. \A m \in 1 .. n : f[m] = Narrow(f[m - 1], a)
  <2> HIDE DEF V
  <2> QED  BY <1>4, <1>5
<1>7. f = Body(f)
  <2>1. \A m \in 0 .. n : f[m] = IF m = 0 THEN v ELSE Narrow(f[m - 1], a)  BY <1>4, <1>6
  <2> HIDE DEF V, v
  <2> QED  BY <2>1
<1>8. FindRegion(a) = (CHOOSE g : g = Body(g))[n].found  BY DEF FindRegion
<1> HIDE DEF Body
<1>9. PICK g : g = Body(g) /\ FindRegion(a) = g[n].found  BY <1>7, <1>8
<1>10. /\ g[0] = v
       /\ \A m \in 1 .. n : g[m] = Narrow(g[m - 1], a)
  <2> HIDE DEF v
  <2> QED  BY <1>1, <1>9 DEF Body
<1> QED  BY <1>9, <1>10

\* find_page() (memcache.c:154) finds a region that has the address, when there is one.
LEMMA FindRegionExact ==
  ASSUME Shape, NEW a \in Int
  PROVE  /\ FindRegion(a) = 0 => Covering(a) = {}
         /\ FindRegion(a) # 0 => FindRegion(a) \in Covering(a)
         /\ 0 \notin Covering(a)
<1>1. PICK n \in Nat : n = Len(cache) /\ DOMAIN cache = 1 .. n  BY ShapeFacts
<1>2. PICK f : /\ f[0] = [left |-> 0, right |-> n, found |-> 0]
               /\ \A m \in 1 .. n : f[m] = Narrow(f[m - 1], a)
               /\ FindRegion(a) = f[n].found
  BY <1>1, SearchRecursion
<1>3. \A k \in Covering(a) : k \in Int /\ 0 < k /\ k <= n  BY <1>1 DEF Covering
<1> DEFINE Good(m) == /\ f[m] \in SearchSet(n)
                      /\ f[m].left <= f[m].right
                      /\ f[m].found # 0 => f[m].found \in Covering(a)
                      /\ f[m].found = 0 =>
                           /\ \A k \in Covering(a) : f[m].left < k /\ k <= f[m].right
                           /\ f[m].right - f[m].left <= n - m \/ f[m].left = f[m].right
           S == {m \in Nat : Good(m)}
<1>4. 0 \in S
  <2>1. f[0] \in SearchSet(n) /\ f[0].left = 0 /\ f[0].right = n /\ f[0].found = 0
    BY <1>1, <1>2 DEF SearchSet
  <2> QED  BY <1>1, <1>3, <2>1
<1>5. ASSUME NEW m \in 0 .. n - 1, m \in S PROVE m + 1 \in S
  <2>1. m \in Nat /\ m + 1 \in 1 .. n /\ (m + 1) - 1 = m /\ m + 1 \in Nat  BY <1>1
  <2>2. PICK s, t : s = f[m] /\ t = f[m + 1] /\ t = Narrow(s, a)  BY <1>2, <2>1
  <2>3. /\ s \in SearchSet(n) /\ s.left <= s.right
        /\ s.found # 0 => s.found \in Covering(a)
        /\ s.found = 0 => \A k \in Covering(a) : s.left < k /\ k <= s.right
        /\ s.found = 0 => s.right - s.left <= n - m \/ s.left = s.right
    BY <1>5, <2>2
  <2> HIDE DEF S, Good
  <2>4. /\ t \in SearchSet(n) /\ t.left <= t.right
        /\ t.found # 0 => t.found \in Covering(a)
        /\ t.found = 0 => \A k \in Covering(a) : t.left < k /\ k <= t.right
        /\ t.found = 0 => /\ s.found = 0
                          /\ (s.left = s.right /\ t = s) \/ t.right - t.left < s.right - s.left
    BY <1>1, <2>2, <2>3, NarrowStep
  <2>5. s.left \in Int /\ s.right \in Int /\ t.left \in Int /\ t.right \in Int
    BY <1>1, <2>3, <2>4 DEF SearchSet
  <2>6. t.found = 0 => t.right - t.left <= n - (m + 1) \/ t.left = t.right
    BY <1>1, <2>1, <2>3, <2>4, <2>5
  <2> QED  BY <2>1, <2>2, <2>4, <2>6 DEF S, Good
<1>6. n \in S
  <2> HIDE DEF S
  <2>1. 0 .. n \subseteq S  BY <1>1, <1>4, <1>5, InductionUpTo
  <2> QED  BY <1>1, <2>1
<1>7. Good(n)  BY <1>6
<1>8. f[n].found = 0 => Covering(a) = {}
  <2> SUFFICES ASSUME f[n].found = 0, NEW k \in Covering(a) PROVE FALSE  OBVIOUS
  <2>1. PICK l \in Int, r \in Int : l = f[n].left /\ r = f[n].right  BY <1>1, <1>7 DEF SearchSet
  <2>2. l <= r /\ (r - l <= n - n \/ l = r) /\ l < k /\ k <= r  BY <1>7, <2>1
  <2>3. l = r /\ k \in Int  BY <1>1, <1>3, <2>1, <2>2
  <2> QED  BY <2>1, <2>2, <2>3
<1> QED  BY <1>2, <1>3, <1>7, <1>8

\* SearchExact is what an array in order gives.
LEMMA ShapeSearches ==
  ASSUME Shape
  PROVE  SearchExact
<1> SUFFICES ASSUME NEW a \in Addresses
             PROVE  /\ FindRegion(a) = 0 <=> Covering(a) = {}
                    /\ FindRegion(a) # 0 => /\ FindRegion(a) \in Covering(a)
                                            /\ FindPage(a, FindRegion(a)) = a \div PAGE_SIZE
  BY DEF SearchExact
<1>1. a \in Int  BY AddressFacts
<1>2. PICK k : k = FindRegion(a)  OBVIOUS
<1>3. /\ k = 0 => Covering(a) = {}
      /\ k # 0 => k \in Covering(a)
      /\ 0 \notin Covering(a)
  BY <1>1, <1>2, FindRegionExact
<1>4. ASSUME k \in Covering(a) PROVE FindPage(a, k) = a \div PAGE_SIZE
  <2>1. cache[k] \in RegionSet  BY <1>4, ShapeFacts DEF Covering
  <2> QED  BY <1>1, <2>1, RegionFacts DEF FindPage
<1> QED  BY <1>2, <1>3, <1>4
-----------------------------------------------------------------------------
(* The operations on the array *)

\* d is the array c with the region x, in its place.
Inserted(c, x, d) ==
    /\ d \in Seq(RegionSet) /\ Sorted(d) /\ Len(d) = Len(c) + 1
    /\ RegionsOf(d) = RegionsOf(c) \cup {x}

\* d is the array c with the contents v of page p.
Updated(c, p, v, d) ==
    /\ d \in Seq(RegionSet) /\ Sorted(d)
    /\ \A q : Holds(d, q) <=> Holds(c, q)
    /\ \A y \in RegionsOf(d) : \E x \in RegionsOf(c) :
         /\ DOMAIN y.pages = DOMAIN x.pages
         /\ \A q \in DOMAIN y.pages : y.pages[q] = IF q = p THEN v ELSE x.pages[q]

\* The loop that looks for the position (memcache.c:236) ends at the first region
\* that starts after the new one.
LEMMA PositionExists ==
  ASSUME NEW c, NEW n \in Nat, \A j \in 1 .. n : c[j].start \in Nat, NEW b \in Nat
  PROVE  \E i \in 0 .. n : /\ \A j \in 1 .. i : c[j].start <= b
                           /\ i < n => c[i + 1].start > b
<1> DEFINE S == {j \in 1 .. n : c[j].start > b}
<1>1. CASE S = {}
  <2>1. \A j \in 1 .. n : c[j].start <= b  BY <1>1
  <2>2. n \in 0 .. n /\ ~(n < n)  OBVIOUS
  <2> QED  BY <2>1, <2>2
<1>2. CASE S # {}
  <2>1. S \in SUBSET Nat  OBVIOUS
  <2>2. PICK m \in S : \A k \in S : m <= k  BY <1>2, <2>1, NatHasLeast
  <2>3. m \in 1 .. n /\ c[m].start > b  BY <2>2
  <2>4. m - 1 \in 0 .. n /\ (m - 1) + 1 = m  BY <2>3
  <2>5. ASSUME NEW j \in 1 .. m - 1 PROVE c[j].start <= b
    <3>1. j \in 1 .. n /\ ~(m <= j)  BY <2>3
    <3>2. j \notin S  BY <2>2, <3>1
    <3> QED  BY <3>1, <3>2
  <2> QED  BY <2>3, <2>4, <2>5
<1> QED  BY <1>1, <1>2

\* d has the elements of c, with x after the first i of them.
PutAfter(S, c, i, x, d) ==
    /\ d \in Seq(S) /\ Len(d) = Len(c) + 1
    /\ \A j \in 1 .. i : d[j] = c[j]
    /\ d[i + 1] = x
    /\ \A j \in i + 1 .. Len(c) : d[j + 1] = c[j]

\* An element put after the first i of a sequence (memcache.c:245).
LEMMA InsertAtFacts ==
  ASSUME NEW S, NEW c \in Seq(S), NEW x \in S, NEW i \in 0 .. Len(c)
  PROVE  PutAfter(S, c, i, x, InsertAt(c, i + 1, x))
<1>0. PICK n, d : n = Len(c) /\ d = InsertAt(c, i + 1, x)  OBVIOUS
<1> USE <1>0
<1>1. n \in Nat /\ i \in Nat /\ i <= n /\ \A j \in 1 .. n : c[j] \in S  OBVIOUS
<1>2. PICK A : A = SubSeq(c, 1, i)  OBVIOUS
<1>3. A \in Seq(S) /\ Len(A) = i /\ \A j \in 1 .. i : A[j] = c[j]
  <2>1. \A j \in 1 .. i : c[j] \in S  BY <1>1
  <2>2. /\ A \in Seq(S) /\ Len(A) = IF 1 <= i THEN i - 1 + 1 ELSE 0
        /\ \A j \in 1 .. i - 1 + 1 : A[j] = c[1 + j - 1]
    BY <1>1, <1>2, <2>1, SubSeqProperties
  <2>3. \A j \in 1 .. i : j \in 1 .. i - 1 + 1 /\ 1 + j - 1 = j  BY <1>1
  <2> QED  BY <1>1, <2>2, <2>3
<1>4. PICK B : B = SubSeq(c, i + 1, n)  OBVIOUS
<1>5. B \in Seq(S) /\ Len(B) = n - i /\ \A j \in i + 1 .. n : B[j - i] = c[j]
  <2>1. \A j \in i + 1 .. n : c[j] \in S  BY <1>1
  <2>2. /\ B \in Seq(S) /\ Len(B) = IF i + 1 <= n THEN n - (i + 1) + 1 ELSE 0
        /\ \A j \in 1 .. n - (i + 1) + 1 : B[j] = c[(i + 1) + j - 1]
    BY <1>1, <1>4, <2>1, SubSeqProperties
  <2>3. \A j \in i + 1 .. n : j - i \in 1 .. n - (i + 1) + 1 /\ (i + 1) + (j - i) - 1 = j  BY <1>1
  <2> QED  BY <1>1, <2>2, <2>3
<1>6. PICK C : C = A \o <<x>>  OBVIOUS
<1>7. C \in Seq(S) /\ Len(C) = i + 1 /\ (\A j \in 1 .. i : C[j] = c[j]) /\ C[i + 1] = x
  BY <1>1, <1>3, <1>6
<1>8. d = C \o B
  <2>1. (i + 1) - 1 = i  BY <1>1
  <2>2. d = (SubSeq(c, 1, (i + 1) - 1) \o <<x>>) \o SubSeq(c, i + 1, Len(c))  BY DEF InsertAt
  <2> QED  BY <1>2, <1>4, <1>6, <2>1, <2>2
<1>9. /\ d \in Seq(S) /\ Len(d) = (i + 1) + (n - i)
      /\ \A j \in 1 .. (i + 1) + (n - i) : d[j] = IF j <= i + 1 THEN C[j] ELSE B[j - (i + 1)]
  <2>1. /\ C \o B \in Seq(S) /\ Len(C \o B) = Len(C) + Len(B)
        /\ \A j \in 1 .. Len(C) + Len(B) : (C \o B)[j] = IF j <= Len(C) THEN C[j] ELSE B[j - Len(C)]
    BY <1>5, <1>7, ConcatProperties
  <2> QED  BY <1>5, <1>7, <1>8, <2>1
<1>10. /\ (i + 1) + (n - i) = n + 1
       /\ \A j \in 1 .. i + 1 : j \in 1 .. n + 1 /\ j <= i + 1
       /\ \A j \in i + 1 .. n : j + 1 \in 1 .. n + 1 /\ ~(j + 1 <= i + 1) /\ (j + 1) - (i + 1) = j - i
  BY <1>1
<1>11. \A j \in 1 .. i + 1 : d[j] = C[j]  BY <1>9, <1>10
<1>12. \A j \in i + 1 .. n : d[j + 1] = c[j]  BY <1>5, <1>9, <1>10
<1>13. i + 1 \in 1 .. i + 1 /\ \A j \in 1 .. i : j \in 1 .. i + 1  BY <1>1
<1> QED  BY <1>7, <1>9, <1>10, <1>11, <1>12, <1>13 DEF PutAfter

\* cache_add_region() (memcache.c:233) keeps the array sorted.
LEMMA InsertKeeps ==
  ASSUME NEW c \in Seq(RegionSet), Sorted(c), NEW x \in RegionSet,
         \A p \in DOMAIN x.pages : ~Holds(c, p)
  PROVE  Inserted(c, x, Insert(c, x))
<1>1. PICK n \in Nat : n = Len(c) /\ DOMAIN c = 1 .. n  OBVIOUS
<1>2. \A j \in 1 .. n : c[j] \in RegionSet /\ c[j].start \in Nat /\ c[j].end \in Nat /\ c[j].start < c[j].end
  BY <1>1, RegionFacts
<1>3. x.start \in Nat /\ x.end \in Nat /\ x.start < x.end  BY RegionFacts
<1>4. PICK i \in 0 .. n : /\ (\A j \in 1 .. i : c[j].start <= x.start)
                          /\ (i < n => c[i + 1].start > x.start)
                          /\ Insert(c, x) = InsertAt(c, i + 1, x)
  <2>1. \E i \in 0 .. n : /\ \A j \in 1 .. i : c[j].start <= x.start
                          /\ i < n => c[i + 1].start > x.start
    BY <1>2, <1>3, PositionExists
  <2> QED  BY <1>1, <2>1 DEF Insert
<1>5. PICK d : d = Insert(c, x)  OBVIOUS
<1>6. /\ d \in Seq(RegionSet) /\ Len(d) = n + 1
      /\ \A j \in 1 .. i : d[j] = c[j]
      /\ d[i + 1] = x
      /\ \A j \in i + 1 .. n : d[j + 1] = c[j]
  <2>1. d = InsertAt(c, i + 1, x) /\ i \in 0 .. Len(c)  BY <1>1, <1>4, <1>5
  <2>2. PutAfter(RegionSet, c, i, x, InsertAt(c, i + 1, x))  BY <2>1, InsertAtFacts
  <2> QED  BY <1>1, <2>1, <2>2 DEF PutAfter
<1>7. DOMAIN d = 1 .. n + 1  BY <1>6
<1>8. \A j \in 1 .. n : \A p \in DOMAIN x.pages : p \notin DOMAIN c[j].pages
  BY <1>1 DEF Holds, RegionsOf
<1>9. \A j \in 1 .. i : c[j].end <= x.start
  BY <1>2, <1>4, <1>8, RegionsApart
<1>10. ASSUME NEW j \in i + 1 .. n PROVE x.end <= c[j].start
  <2>1. j \in 1 .. n /\ i + 1 \in 1 .. n /\ i < n /\ (j = i + 1 \/ i + 1 < j)  BY <1>1
  <2>2. c[i + 1].start > x.start  BY <1>4, <2>1
  <2>3. i + 1 < j => c[i + 1].end <= c[j].start  BY <1>1, <2>1 DEF Sorted
  <2>4. x.start <= c[j].start  BY <1>2, <1>3, <2>1, <2>2, <2>3
  <2>5. \A p \in DOMAIN c[j].pages : p \notin DOMAIN x.pages  BY <1>8, <2>1
  <2> QED  BY <1>2, <2>1, <2>4, <2>5, RegionsApart
<1>11. \A j \in 1 .. n + 1 : \/ j \in 1 .. i /\ d[j] = c[j]
                             \/ j = i + 1 /\ d[j] = x
                             \/ j - 1 \in i + 1 .. n /\ d[j] = c[j - 1]
  <2> TAKE j \in 1 .. n + 1
  <2>1. j \in 1 .. i \/ j = i + 1 \/ (j - 1 \in i + 1 .. n /\ (j - 1) + 1 = j)  BY <1>1
  <2> QED  BY <1>6, <2>1
<1>12. Sorted(d)
  <2> SUFFICES ASSUME NEW j \in 1 .. n + 1, NEW k \in 1 .. n + 1, j < k
               PROVE  d[j].end <= d[k].start
    BY <1>7 DEF Sorted
  <2>1. \A u, w \in 1 .. n : u < w => c[u].end <= c[w].start  BY <1>1 DEF Sorted
  <2>2. CASE j \in 1 .. i /\ k \in 1 .. i
    <3>1. j \in 1 .. n /\ k \in 1 .. n  BY <1>1, <2>2
    <3> QED  BY <1>6, <2>1, <2>2, <3>1
  <2>3. CASE j \in 1 .. i /\ k = i + 1  BY <1>6, <1>9, <2>3
  <2>4. CASE j \in 1 .. i /\ k - 1 \in i + 1 .. n
    <3>1. j \in 1 .. n /\ k - 1 \in 1 .. n /\ j < k - 1  BY <1>1, <2>4
    <3>2. d[j] = c[j] /\ d[k] = c[k - 1]  BY <1>6, <1>11, <2>4, <3>1
    <3> QED  BY <2>1, <3>1, <3>2
  <2>5. CASE j = i + 1 /\ k - 1 \in i + 1 .. n
    <3>1. d[j] = x /\ d[k] = c[k - 1]  BY <1>6, <1>11, <2>5
    <3> QED  BY <1>10, <2>5, <3>1
  <2>6. CASE j - 1 \in i + 1 .. n /\ k - 1 \in i + 1 .. n
    <3>1. j - 1 \in 1 .. n /\ k - 1 \in 1 .. n /\ j - 1 < k - 1  BY <1>1, <2>6
    <3>2. d[j] = c[j - 1] /\ d[k] = c[k - 1]  BY <1>11, <2>6
    <3> QED  BY <2>1, <3>1, <3>2
  <2>7. \/ j \in 1 .. i /\ k \in 1 .. i
        \/ j \in 1 .. i /\ k = i + 1
        \/ j \in 1 .. i /\ k - 1 \in i + 1 .. n
        \/ j = i + 1 /\ k - 1 \in i + 1 .. n
        \/ j - 1 \in i + 1 .. n /\ k - 1 \in i + 1 .. n
    BY <1>1
  <2> QED  BY <2>2, <2>3, <2>4, <2>5, <2>6, <2>7
<1>13. RegionsOf(d) = RegionsOf(c) \cup {x}
  <2>1. \A y \in RegionsOf(d) : y \in RegionsOf(c) \cup {x}
    <3>1. \A j \in 1 .. i : j \in 1 .. n  BY <1>1
    <3>2. \A j \in i + 1 .. n : j \in 1 .. n  BY <1>1
    <3> QED  BY <1>1, <1>7, <1>11, <3>1, <3>2 DEF RegionsOf
  <2>2. x \in RegionsOf(d)
    <3>1. i + 1 \in 1 .. n + 1  BY <1>1
    <3> QED  BY <1>6, <1>7, <3>1 DEF RegionsOf
  <2>3. ASSUME NEW j \in 1 .. n PROVE c[j] \in RegionsOf(d)
    <3>1. (j \in 1 .. i /\ j \in 1 .. n + 1) \/ (j \in i + 1 .. n /\ j + 1 \in 1 .. n + 1)  BY <1>1
    <3> QED  BY <1>6, <1>7, <3>1 DEF RegionsOf
  <2> QED  BY <1>1, <2>1, <2>2, <2>3 DEF RegionsOf
<1> QED  BY <1>1, <1>5, <1>6, <1>12, <1>13 DEF Inserted

\* A page is in one region only.
LEMMA OneRegion ==
  ASSUME NEW c \in Seq(RegionSet), Sorted(c), NEW i \in DOMAIN c, NEW j \in DOMAIN c,
         NEW p \in DOMAIN c[i].pages, p \in DOMAIN c[j].pages
  PROVE  i = j
<1>1. i \in Nat /\ j \in Nat /\ c[i] \in RegionSet /\ c[j] \in RegionSet  OBVIOUS
<1>2. p \in Int  BY <1>1, RegionFacts
<1>3. PICK a \in Int : a = p * PAGE_SIZE  BY <1>1, <1>2, HeldPage
<1>4. /\ c[i].start <= a /\ a < c[i].end /\ c[j].start <= a /\ a < c[j].end
      /\ c[i].start \in Nat /\ c[i].end \in Nat /\ c[j].start \in Nat /\ c[j].end \in Nat
  BY <1>1, <1>2, <1>3, HeldPage, RegionFacts
<1>5. (i < j => c[i].end <= c[j].start) /\ (j < i => c[j].end <= c[i].start)  BY DEF Sorted
<1> QED  BY <1>1, <1>3, <1>4, <1>5

\* process_page() (memcache.c:193) brings the copy of one page up to date.
LEMMA UpdateKeeps ==
  ASSUME NEW c \in Seq(RegionSet), Sorted(c), NEW k \in DOMAIN c, NEW p \in DOMAIN c[k].pages,
         NEW v \in Values
  PROVE  Updated(c, p, v, [c EXCEPT ![k].pages[p] = v])
<1>1. PICK d : d = [c EXCEPT ![k].pages[p] = v]  OBVIOUS
<1>2. PICK x \in RegionSet : x = c[k]  OBVIOUS
<1>3. PICK r \in Extent : \E f \in [PagesOf(r) -> Values] :
        x = [start |-> r.page * PAGE_SIZE, end |-> (r.page + r.count) * PAGE_SIZE, pages |-> f]
  BY DEF RegionSet
<1>4. PICK f \in [PagesOf(r) -> Values] :
        x = [start |-> r.page * PAGE_SIZE, end |-> (r.page + r.count) * PAGE_SIZE, pages |-> f]
  BY <1>3
<1>5. PICK g : g = [f EXCEPT ![p] = v]  OBVIOUS
<1>6. g \in [PagesOf(r) -> Values] /\ DOMAIN g = DOMAIN f /\ p \in DOMAIN f /\ x.pages = f
      /\ \A q \in DOMAIN f : g[q] = IF q = p THEN v ELSE f[q]
  BY <1>2, <1>4, <1>5
<1>7. PICK y : y = [start |-> r.page * PAGE_SIZE, end |-> (r.page + r.count) * PAGE_SIZE, pages |-> g]
  OBVIOUS
<1>8. y \in RegionSet /\ y.start = x.start /\ y.end = x.end /\ y.pages = g
  <2>1. y \in {[start |-> r.page * PAGE_SIZE, end |-> (r.page + r.count) * PAGE_SIZE, pages |-> h] :
                 h \in [PagesOf(r) -> Values]}
    BY <1>6, <1>7
  <2>2. y \in RegionSet  BY <2>1 DEF RegionSet
  <2> QED  BY <1>4, <1>7, <2>2
<1>9. [x EXCEPT !.pages[p] = v] = y  BY <1>4, <1>5, <1>7
<1>10. d = [c EXCEPT ![k] = y]  BY <1>1, <1>2, <1>9
<1>11. d \in Seq(RegionSet) /\ DOMAIN d = DOMAIN c /\ d[k] = y /\ \A j \in DOMAIN c : j # k => d[j] = c[j]
  BY <1>8, <1>10
<1>12. \A j \in DOMAIN c : /\ d[j].start = c[j].start /\ d[j].end = c[j].end
                          /\ DOMAIN d[j].pages = DOMAIN c[j].pages
  BY <1>2, <1>6, <1>8, <1>11
<1>13. Sorted(d)  BY <1>11, <1>12 DEF Sorted
<1>14. \A q : Holds(d, q) <=> Holds(c, q)  BY <1>11, <1>12 DEF Holds, RegionsOf
<1>15. ASSUME NEW j \in DOMAIN c, NEW q \in DOMAIN c[j].pages
       PROVE  d[j].pages[q] = IF q = p THEN v ELSE c[j].pages[q]
  <2>1. CASE j = k  BY <1>2, <1>6, <1>8, <1>11, <2>1
  <2>2. CASE j # k
    <3>1. q # p  BY <2>2, OneRegion
    <3> QED  BY <1>11, <2>2, <3>1
  <2> QED  BY <2>1, <2>2
<1>16. \A z \in RegionsOf(d) : \E w \in RegionsOf(c) :
         /\ DOMAIN z.pages = DOMAIN w.pages
         /\ \A q \in DOMAIN z.pages : z.pages[q] = IF q = p THEN v ELSE w.pages[q]
  <2> TAKE z \in RegionsOf(d)
  <2>1. PICK j \in DOMAIN c : z = d[j]  BY <1>11 DEF RegionsOf
  <2>2. c[j] \in RegionsOf(c)  BY DEF RegionsOf
  <2> WITNESS c[j] \in RegionsOf(c)
  <2> QED  BY <1>12, <1>15, <2>1
<1> QED  BY <1>1, <1>11, <1>13, <1>14, <1>16 DEF Updated
-----------------------------------------------------------------------------
(* What is stored *)

RowSet == [Pages -> [Steps -> Seq(Values)]]

\* The array d and the rows qs come from c and rs by adding region r with contents m.
Grown(c, rs, r, m, s, d, qs) ==
    /\ d \in Seq(RegionSet) /\ Sorted(d) /\ Len(d) = Len(c) + 1
    /\ qs \in RowSet /\ StoredAt(d, qs, s)
    /\ \A p : Holds(d, p) <=> Holds(c, p) \/ p \in PagesOf(r)
    /\ \A y \in RegionsOf(d) :
         \/ y \in RegionsOf(c)
         \/ DOMAIN y.pages = PagesOf(r) /\ \A p \in PagesOf(r) : y.pages[p] = m[p]

\* cache_add_region() (memcache.c:233) for pages that are not known yet.
LEMMA RegionAdded ==
  ASSUME NEW c \in Seq(RegionSet), Sorted(c), NEW rs \in RowSet, NEW s \in Steps, StoredAt(c, rs, s),
         NEW r \in Extent, PagesOf(r) \subseteq Pages,
         NEW m, \A p \in PagesOf(r) : m[p] \in Values /\ ~Holds(c, p)
  PROVE  Grown(c, rs, r, m, s, Insert(c, Region(r, m)), StoreAll(rs, PagesOf(r), m, s))
<1>1. PICK x : x = Region(r, m)  OBVIOUS
<1>2. x \in RegionSet /\ DOMAIN x.pages = PagesOf(r) /\ \A p \in PagesOf(r) : x.pages[p] = m[p]
  <2>1. PICK f : f = [p \in PagesOf(r) |-> m[p]]  OBVIOUS
  <2>2. f \in [PagesOf(r) -> Values]  BY <2>1
  <2>3. x = [start |-> r.page * PAGE_SIZE, end |-> (r.page + r.count) * PAGE_SIZE, pages |-> f]
    BY <1>1, <2>1 DEF Region
  <2>4. x \in {[start |-> r.page * PAGE_SIZE, end |-> (r.page + r.count) * PAGE_SIZE, pages |-> h] :
                 h \in [PagesOf(r) -> Values]}
    BY <2>2, <2>3
  <2>5. x \in RegionSet  BY <2>4 DEF RegionSet
  <2>6. x.pages = f  BY <2>3
  <2> QED  BY <2>1, <2>5, <2>6
<1>3. PICK d : d = Insert(c, x)  OBVIOUS
<1>4. /\ d \in Seq(RegionSet) /\ Sorted(d) /\ Len(d) = Len(c) + 1
      /\ RegionsOf(d) = RegionsOf(c) \cup {x}
  <2>1. Inserted(c, x, Insert(c, x))  BY <1>2, InsertKeeps
  <2> QED  BY <1>3, <2>1 DEF Inserted
<1>5. PICK qs : qs = StoreAll(rs, PagesOf(r), m, s)  OBVIOUS
<1>6. \A p \in Pages : \A t \in Steps :
        qs[p][t] = IF p \in PagesOf(r) /\ t = s THEN Append(rs[p][t], m[p]) ELSE rs[p][t]
  BY <1>5 DEF StoreAll, RowSet
<1>7. \A p : Holds(d, p) <=> Holds(c, p) \/ p \in PagesOf(r)
  BY <1>2, <1>4 DEF Holds
<1>8. \A p \in PagesOf(r) : p \in Pages /\ rs[p][s] = <<>> /\ \A t \in Steps : rs[p][t] = <<>>
  BY DEF StoredAt
<1>9. \A p \in PagesOf(r) : qs[p][s] = <<m[p]>> /\ \A t \in Steps : t # s => qs[p][t] = <<>>
  <2> TAKE p \in PagesOf(r)
  <2>1. qs[p][s] = Append(rs[p][s], m[p])  BY <1>6, <1>8
  <2>2. Append(<<>>, m[p]) = <<m[p]>>  OBVIOUS
  <2>3. \A t \in Steps : t # s => qs[p][t] = <<>>  BY <1>6, <1>8
  <2> QED  BY <1>8, <2>1, <2>2, <2>3
<1>10. \A p \in Pages : p \notin PagesOf(r) => qs[p] = rs[p]
  BY <1>5 DEF StoreAll
<1>11. qs \in RowSet
  <2>1. \A p \in Pages : qs[p] \in [Steps -> Seq(Values)]
    <3> TAKE p \in Pages
    <3>1. CASE p \notin PagesOf(r)  BY <1>10, <3>1 DEF RowSet
    <3>2. CASE p \in PagesOf(r)
      <4>1. qs[p] = [rs[p] EXCEPT ![s] = Append(@, m[p])]  BY <1>5, <3>2 DEF StoreAll
      <4>2. rs[p] \in [Steps -> Seq(Values)] /\ rs[p][s] \in Seq(Values)  BY DEF RowSet
      <4>3. Append(rs[p][s], m[p]) \in Seq(Values)  BY <3>2, <4>2
      <4> QED  BY <4>1, <4>2, <4>3
    <3> QED  BY <3>1, <3>2
  <2>2. qs = [p \in Pages |-> qs[p]]  BY <1>5 DEF StoreAll
  <2> QED  BY <2>1, <2>2 DEF RowSet
<1>12. StoredAt(d, qs, s)
  <2>1. ASSUME NEW p \in Pages, NEW t \in Steps, ~Holds(d, p) \/ t > s
        PROVE  qs[p][t] = <<>>
    <3>1. CASE p \in PagesOf(r)
      <4>1. s \in Int /\ t > s  BY <1>7, <2>1, <3>1 DEF Steps
      <4>2. t # s  BY <4>1 DEF Steps
      <4> QED  BY <1>9, <3>1, <4>2
    <3>2. CASE p \notin PagesOf(r)
      <4>1. rs[p][t] = <<>>  BY <1>7, <2>1, <3>2 DEF StoredAt
      <4> QED  BY <1>10, <3>2, <4>1
    <3> QED  BY <3>1, <3>2
  <2>2. ASSUME NEW p \in Pages, NEW t \in Steps PROVE Len(qs[p][t]) <= 1
    <3>1. CASE p \in PagesOf(r)
      <4>1. qs[p][t] = <<m[p]>> \/ qs[p][t] = <<>>  BY <1>9, <3>1
      <4>2. Len(<<m[p]>>) = 1 /\ Len(<<>>) = 0  OBVIOUS
      <4>3. CASE qs[p][t] = <<>>  BY <4>2, <4>3
      <4>4. CASE qs[p][t] = <<m[p]>>  BY <4>2, <4>4
      <4> QED  BY <4>1, <4>3, <4>4
    <3>2. CASE p \notin PagesOf(r)  BY <1>10, <3>2 DEF StoredAt
    <3> QED  BY <3>1, <3>2
  <2>3. ASSUME NEW y \in RegionsOf(d), NEW p \in DOMAIN y.pages
        PROVE  p \in Pages /\ LastRow(qs[p], s, y.pages[p])
    <3>1. CASE y \in RegionsOf(c)
      <4>1. p \notin PagesOf(r)  BY <2>3, <3>1 DEF Holds
      <4>2. p \in Pages /\ LastRow(rs[p], s, y.pages[p])  BY <2>3, <3>1 DEF StoredAt
      <4> QED  BY <1>10, <4>1, <4>2
    <3>2. CASE y = x
      <4>1. p \in PagesOf(r) /\ y.pages[p] = m[p] /\ p \in Pages  BY <1>2, <1>8, <2>3, <3>2
      <4>2. s \in 1 .. s  BY DEF Steps
      <4>3. \A u \in Steps : u > s => u # s  BY DEF Steps
      <4> QED  BY <1>9, <4>1, <4>2, <4>3 DEF LastRow
    <3> QED  BY <1>4, <2>3, <3>1, <3>2
  <2> QED  BY <2>1, <2>2, <2>3 DEF StoredAt
<1>13. \A y \in RegionsOf(d) :
         \/ y \in RegionsOf(c)
         \/ DOMAIN y.pages = PagesOf(r) /\ \A p \in PagesOf(r) : y.pages[p] = m[p]
  BY <1>2, <1>4
<1> QED  BY <1>1, <1>3, <1>4, <1>5, <1>7, <1>11, <1>12, <1>13 DEF Grown

\* process_page() (memcache.c:193) stores a page that has no row for the step yet.
LEMMA PageStored ==
  ASSUME NEW c \in Seq(RegionSet), Sorted(c), NEW rs \in RowSet, NEW s \in Steps, StoredAt(c, rs, s),
         NEW k \in DOMAIN c, NEW p \in DOMAIN c[k].pages, NEW v \in Values, rs[p][s] = <<>>,
         NEW d, d = [c EXCEPT ![k].pages[p] = v],
         NEW qs, qs = [rs EXCEPT ![p][s] = Append(@, v)]
  PROVE  Updated(c, p, v, d) /\ qs \in RowSet /\ StoredAt(d, qs, s)
<1>1. Updated(c, p, v, d)  BY UpdateKeeps
<1>2. c[k] \in RegionsOf(c)  BY DEF RegionsOf
<1>3. p \in Pages /\ Holds(c, p)  BY <1>2 DEF StoredAt, Holds
<1>4. /\ \A q \in Pages : q # p => qs[q] = rs[q]
      /\ \A t \in Steps : t # s => qs[p][t] = rs[p][t]
      /\ qs[p][s] = <<v>>
  BY <1>3 DEF RowSet
<1>5. qs \in RowSet
  <2>1. rs[p] \in [Steps -> Seq(Values)] /\ Append(rs[p][s], v) \in Seq(Values)  BY <1>3 DEF RowSet
  <2>2. [rs[p] EXCEPT ![s] = Append(@, v)] \in [Steps -> Seq(Values)]  BY <2>1
  <2>3. qs = [rs EXCEPT ![p] = [rs[p] EXCEPT ![s] = Append(@, v)]]  OBVIOUS
  <2> QED  BY <1>3, <2>2, <2>3 DEF RowSet
<1>6. StoredAt(d, qs, s)
  <2>1. ASSUME NEW q \in Pages, NEW t \in Steps, ~Holds(d, q) \/ t > s
        PROVE  qs[q][t] = <<>>
    <3>1. ~Holds(c, q) \/ t > s  BY <1>1, <2>1 DEF Updated
    <3>2. rs[q][t] = <<>>  BY <3>1 DEF StoredAt
    <3>3. ~(q = p /\ t = s)  BY <1>3, <3>1 DEF Steps
    <3> QED  BY <1>4, <3>2, <3>3
  <2>2. ASSUME NEW q \in Pages, NEW t \in Steps PROVE Len(qs[q][t]) <= 1
    <3>1. CASE q = p /\ t = s  BY <1>4, <3>1
    <3>2. CASE ~(q = p /\ t = s)
      <4>1. qs[q][t] = rs[q][t]  BY <1>4, <3>2
      <4> QED  BY <4>1 DEF StoredAt
    <3> QED  BY <3>1, <3>2
  <2>3. ASSUME NEW y \in RegionsOf(d), NEW q \in DOMAIN y.pages
        PROVE  q \in Pages /\ LastRow(qs[q], s, y.pages[q])
    <3>1. PICK x \in RegionsOf(c) : /\ DOMAIN y.pages = DOMAIN x.pages
                                   /\ y.pages[q] = IF q = p THEN v ELSE x.pages[q]
      BY <1>1, <2>3 DEF Updated
    <3>2. q \in Pages /\ LastRow(rs[q], s, x.pages[q])  BY <2>3, <3>1 DEF StoredAt
    <3>3. CASE q # p  BY <1>4, <3>1, <3>2, <3>3
    <3>4. CASE q = p
      <4>1. s \in 1 .. s /\ \A u \in Steps : u > s => u # s  BY DEF Steps
      <4>2. \A u \in Steps : u > s => qs[p][u] = <<>>  BY <1>3, <1>4, <4>1 DEF StoredAt
      <4> QED  BY <1>3, <1>4, <3>1, <3>4, <4>1, <4>2 DEF LastRow
    <3> QED  BY <3>3, <3>4
  <2> QED  BY <2>1, <2>2, <2>3 DEF StoredAt
<1> QED  BY <1>1, <1>5, <1>6

\* A fault is put in the channel.
LEMMA FaultAppended ==
  ASSUME NEW S, NEW ch \in Seq(S), NEW a \in S
  PROVE  \A p : Faulted(Append(ch, a), p) <=> Faulted(ch, p) \/ a \div PAGE_SIZE = p
<1>1. PICK n \in Nat : n = Len(ch) /\ DOMAIN ch = 1 .. n  OBVIOUS
<1>2. PICK d : d = Append(ch, a)  OBVIOUS
<1>3. DOMAIN d = 1 .. n + 1 /\ d[n + 1] = a /\ \A i \in 1 .. n : d[i] = ch[i]  BY <1>1, <1>2
<1>4. n + 1 \in 1 .. n + 1 /\ \A i \in 1 .. n : i \in 1 .. n + 1  OBVIOUS
<1>5. \A i \in 1 .. n + 1 : i \in 1 .. n \/ i = n + 1  OBVIOUS
<1>6. \A p : Faulted(d, p) <=> Faulted(ch, p) \/ a \div PAGE_SIZE = p
  BY <1>1, <1>3, <1>4, <1>5 DEF Faulted
<1> QED  BY <1>2, <1>6

\* ... and one is taken out.
LEMMA FaultTaken ==
  ASSUME NEW S, NEW ch \in Seq(S), ch # <<>>
  PROVE  /\ \A p : Faulted(ch, p) => Faulted(Tail(ch), p) \/ Head(ch) \div PAGE_SIZE = p
         /\ Head(ch) \in S /\ Tail(ch) \in Seq(S)
<1>1. PICK n \in Nat : n = Len(ch) /\ DOMAIN ch = 1 .. n /\ n > 0  OBVIOUS
<1>2. PICK d : d = Tail(ch)  OBVIOUS
<1>3. /\ d \in Seq(S) /\ Head(ch) \in S /\ Len(d) = n - 1 /\ \A i \in 1 .. n - 1 : d[i] = ch[i + 1]
      /\ Head(ch) = ch[1]
  BY <1>1, <1>2, HeadTailProperties
<1>4. DOMAIN d = 1 .. n - 1  BY <1>3
<1>5. \A i \in 1 .. n : i = 1 \/ (i - 1 \in 1 .. n - 1 /\ (i - 1) + 1 = i)  BY <1>1
<1>6. ASSUME NEW p, Faulted(ch, p), Head(ch) \div PAGE_SIZE # p PROVE Faulted(d, p)
  <2>1. PICK i \in 1 .. n : ch[i] \div PAGE_SIZE = p  BY <1>1, <1>6 DEF Faulted
  <2>2. i - 1 \in 1 .. n - 1 /\ (i - 1) + 1 = i  BY <1>3, <1>5, <1>6, <2>1
  <2>3. d[i - 1] = ch[i]  BY <1>3, <2>2
  <2> QED  BY <1>4, <2>1, <2>2, <2>3 DEF Faulted
<1> QED  BY <1>2, <1>3, <1>6
-----------------------------------------------------------------------------
(* The invariant is inductive *)

\* The part of TypeOK about the array.
CacheTypes(c) ==
    \A k \in DOMAIN c : /\ c[k].start \in Nat /\ c[k].end \in Nat
                        /\ \A p \in DOMAIN c[k].pages : c[k].pages[p] \in Values

\* ... follows from its shape.
LEMMA CacheTyped ==
  ASSUME NEW c \in Seq(RegionSet)
  PROVE  CacheTypes(c)
<1>1. \A k \in DOMAIN c : c[k] \in RegionSet  OBVIOUS
<1> QED  BY <1>1, RegionFacts DEF CacheTypes

\* The parts of the invariant, with the sets the steps refer to.
LEMMA InvParts ==
  ASSUME RegionsInv
  PROVE  /\ TypeOK /\ Shape /\ Layout /\ Stored /\ Pending
         /\ cache \in Seq(RegionSet) /\ Sorted(cache)
         /\ rows \in RowSet /\ step_id \in Steps /\ StoredAt(cache, rows, step_id)
         /\ mem \in [Pages -> Values \cup {None}] /\ brk \in HeapBase .. HeapTop
         /\ FollowedAt(cache, proc_mem_ch, written, mem)
         /\ proc_mem_ch \in Seq(Addresses)
BY DEF RegionsInv, TypeOK, Shape, Stored, Pending, RowSet

\* The heap's pages are pages.
LEMMA HeapPages ==
  /\ HeapBase \in Nat /\ HeapTop \in Nat /\ HeapBase > 0
  /\ HeapBase .. HeapTop - 1 \subseteq Pages
  /\ MapPages \subseteq Pages
BY RegionsAssumption DEF Pages

\* Before init_cache() (memcache.c:83) nothing is known.
LEMMA RegionsInit == Init => RegionsInv
<1> SUFFICES ASSUME Init PROVE RegionsInv  OBVIOUS
<1> USE DEF Init
<1>1. RegionsOf(cache) = {} /\ \A p : ~Holds(cache, p)  BY DEF RegionsOf, Holds
<1>2. mem = [p \in Pages |-> IF p \in InitialPages THEN Zero ELSE None]  BY DEF Contents
<1>3. Zero \in Values /\ Zero # None  BY RegionsAssumption
<1>4. Mapped = InitialPages  BY <1>2, <1>3, PagesAreNatural DEF Mapped
<1>5. 1 \in Steps  BY RegionsAssumption DEF Steps
<1>6. rows \in RowSet
  <2>1. <<>> \in Seq(Values)  OBVIOUS
  <2> QED  BY <2>1 DEF RowSet
<1>7. TypeOK
  <2>1. mem \in [Pages -> Values \cup {None}]  BY <1>2, <1>3
  <2> QED  BY <1>4, <1>5, <1>6, <2>1, PagesAreNatural DEF TypeOK, RowSet
<1>8. Shape  BY DEF Shape, Sorted
<1>9. Layout
  <2>1. ASSUME NEW p \in HeapBase .. HeapTop - 1, mem[p] # None PROVE p < brk
    <3>1. p \in InitialPages  BY <1>2, <2>1, HeapPages
    <3>2. p \in HeapBase .. brk - 1  BY <3>1 DEF IsHeapEnd
    <3> QED  BY <3>2, HeapPages
  <2>2. Len(cache) <= Len(InitialMap)  BY RegionsAssumption
  <2> QED  BY <1>1, <1>4, <2>1, <2>2 DEF Layout
<1>10. Stored
  <2>1. \A p \in Pages, t \in Steps : rows[p][t] = <<>> /\ Len(rows[p][t]) <= 1
    <3>1. Len(<<>>) <= 1  OBVIOUS
    <3>2. \A p \in Pages, t \in Steps : rows[p][t] = <<>>  OBVIOUS
    <3> QED  BY <3>1, <3>2
  <2> QED  BY <1>1, <2>1 DEF Stored, StoredAt
<1>11. Pending  BY <1>1, <1>4 DEF Pending, FollowedAt
<1> QED  BY <1>7, <1>8, <1>9, <1>10, <1>11 DEF RegionsInv

\* init_cache() adds the regions of the map in address order (memcache.c:133).
LEMMA InitRegionStep ==
  ASSUME RegionsInv, InitRegion
  PROVE  RegionsInv' /\ Growth
<1>1. /\ pc = "init" /\ Len(cache) < Len(InitialMap)
      /\ UNCHANGED <<mem, brk, prot, used, written, pc, step_id, proc_mem_ch, brk_boundary>>
      /\ cache' = Insert(cache, Region(InitialMap[Len(cache) + 1], mem))
      /\ rows' = StoreAll(rows, PagesOf(InitialMap[Len(cache) + 1]), mem, 1)
  BY DEF InitRegion, AddRegion, child
<1> USE InvParts
<1>2. /\ brk_boundary = 0 /\ IsHeapEnd(brk) /\ step_id = 1 /\ proc_mem_ch = <<>>
      /\ mem = Contents(InitialPages) /\ used = InitialPages /\ written = {}
      /\ \A p : Holds(cache, p) => \E j \in 1 .. Len(cache) : p \in PagesOf(InitialMap[j])
  BY <1>1 DEF Layout
<1>3. PICK n \in Nat, i \in Nat : n = Len(cache) /\ i = n + 1 /\ i \in DOMAIN InitialMap /\ i <= Len(InitialMap)
  BY <1>1, RegionsAssumption
<1>4. PICK r \in Extent : r = InitialMap[i]  BY <1>3, RegionsAssumption
<1>5. PagesOf(r) \subseteq InitialPages  BY <1>3, <1>4 DEF InitialPages
<1>6. \A p \in PagesOf(r) : mem[p] \in Values
  BY <1>2, <1>5, RegionsAssumption, PagesAreNatural DEF Contents
<1>7. ASSUME NEW p \in PagesOf(r) PROVE ~Holds(cache, p)
  <2> SUFFICES ASSUME NEW j \in 1 .. n, p \in PagesOf(InitialMap[j]) PROVE FALSE  BY <1>2, <1>3
  <2>1. j \in DOMAIN InitialMap /\ j < i  BY <1>3, RegionsAssumption
  <2>2. PICK q \in Extent : q = InitialMap[j]  BY <2>1, RegionsAssumption
  <2>3. q.page + q.count <= r.page  BY <1>3, <1>4, <2>1, <2>2, RegionsAssumption
  <2>4. PICK a \in Nat, b \in Nat, c \in Nat, e \in Nat :
          a = q.page /\ b = q.count /\ c = r.page /\ e = r.count
    BY DEF Extent
  <2>5. p \in a .. a + b - 1 /\ p \in c .. c + e - 1  BY <2>2, <2>4 DEF PagesOf
  <2>6. a + b <= c  BY <2>3, <2>4
  <2> HIDE InvParts
  <2> QED  BY <2>5, <2>6
<1>8. Grown(cache, rows, r, mem, 1, cache', rows')
  <2>1. PICK m : m = mem  OBVIOUS
  <2>2. Grown(cache, rows, r, m, 1, Insert(cache, Region(r, m)), StoreAll(rows, PagesOf(r), m, 1))
    BY <1>2, <1>5, <1>6, <1>7, <2>1, PagesAreNatural, RegionAdded
  <2> QED  BY <1>1, <1>3, <1>4, <2>1, <2>2
<1>9. /\ cache' \in Seq(RegionSet) /\ Sorted(cache') /\ Len(cache') = i
      /\ rows' \in RowSet /\ StoredAt(cache', rows', 1)
      /\ \A p : Holds(cache', p) <=> Holds(cache, p) \/ p \in PagesOf(r)
  BY <1>3, <1>8 DEF Grown
<1>10. TypeOK'
  <2>1. CacheTypes(cache')  BY <1>9, CacheTyped
  <2>2. Mapped' = Mapped  BY <1>1 DEF Mapped
  <2> QED  BY <1>1, <1>9, <2>1, <2>2 DEF TypeOK, CacheTypes, RowSet
<1>11. Shape'  BY <1>9 DEF Shape
<1>12. \A p : Holds(cache', p) => p \in InitialPages /\ \E j \in 1 .. i : p \in PagesOf(InitialMap[j])
  <2> TAKE p
  <2> HAVE Holds(cache', p)
  <2>1. CASE p \in PagesOf(r)
    <3>1. i \in 1 .. i  BY <1>3
    <3> QED  BY <1>4, <1>5, <2>1, <3>1
  <2>2. CASE Holds(cache, p)
    <3>1. PICK j \in 1 .. n : p \in PagesOf(InitialMap[j])  BY <1>2, <1>3, <2>2
    <3>2. j \in 1 .. i /\ j \in DOMAIN InitialMap  BY <1>3, RegionsAssumption
    <3> QED  BY <3>1, <3>2 DEF InitialPages
  <2> QED  BY <1>9, <2>1, <2>2
<1>13. Layout'
  <2>1. \A p \in HeapBase .. HeapTop - 1 : Holds(cache', p) => p < brk
    <3>1. \A p \in HeapBase .. HeapTop - 1 : Holds(cache', p) => p \in HeapBase .. brk - 1
      BY <1>2, <1>12 DEF IsHeapEnd
    <3> QED  BY <3>1, HeapPages
  <2>2. \A p \in HeapBase .. HeapTop - 1 : mem[p] # None => p < brk  BY DEF Layout
  <2>3. Mapped' = Mapped /\ Mapped \subseteq used  BY <1>1 DEF Mapped, Layout
  <2> QED  BY <1>1, <1>2, <1>3, <1>9, <1>12, <2>1, <2>2, <2>3 DEF Layout, HeapEnd
<1>14. Stored'  BY <1>1, <1>2, <1>9 DEF Stored
<1>15. Pending'
  <2>1. Mapped' = Mapped  BY <1>1 DEF Mapped
  <2> QED  BY <1>1, <1>2, <2>1 DEF Pending, FollowedAt
<1>16. Growth  BY <1>1, <1>9 DEF Growth
<1> QED  BY <1>10, <1>11, <1>13, <1>14, <1>15, <1>16 DEF RegionsInv

\* Steps that leave the child and the array alone.
LEMMA QuietStep ==
  ASSUME RegionsInv, UNCHANGED <<mem, brk, prot, used, written, cache, brk_boundary, rows, step_id, proc_mem_ch>>,
         \/ pc' = pc
         \/ pc = "init" /\ pc' = "run"
         \/ pc = "drain" /\ pc' = "stored" /\ proc_mem_ch = <<>>
         \/ pc = "stored" /\ pc' = "run"
  PROVE  RegionsInv' /\ Growth
<1> USE InvParts
<1>1. Mapped' = Mapped /\ HeapEnd' = HeapEnd  BY DEF Mapped, HeapEnd
<1>2. TypeOK'  BY <1>1 DEF TypeOK
<1>3. Shape'  BY DEF Shape
<1>4. Layout'  BY <1>1 DEF Layout
<1>5. Stored'  BY DEF Stored
<1>6. Pending'  BY <1>1 DEF Pending
<1>7. Growth  BY DEF Growth
<1> QED  BY <1>2, <1>3, <1>4, <1>5, <1>6, <1>7 DEF RegionsInv

\* A write of the child puts a fault in the channel, or there is one on the page.
LEMMA WriteStep ==
  ASSUME RegionsInv, NEW a \in Addresses, NEW v \in Values, Write(a, v)
  PROVE  RegionsInv' /\ Growth
<1> USE InvParts
<1>1. PICK p : p = a \div PAGE_SIZE /\ p \in Pages  BY AddressFacts
<1>2. /\ pc = "run" /\ p \in Mapped
      /\ mem' = [mem EXCEPT ![p] = v]
      /\ prot' = prot \ {p}
      /\ proc_mem_ch' = IF p \in prot THEN Append(proc_mem_ch, a) ELSE proc_mem_ch
      /\ written' = written \cup {p}
      /\ UNCHANGED <<brk, used, pc, step_id, cache, brk_boundary, rows>>
  BY <1>1 DEF Write
<1>3. v # None  BY RegionsAssumption
<1>4. /\ mem' \in [Pages -> Values \cup {None}] /\ mem'[p] = v /\ \A q \in Pages : q # p => mem'[q] = mem[q]
  BY <1>1, <1>2
<1>5. Mapped' = Mapped  BY <1>2, <1>3, <1>4 DEF Mapped
<1>6. proc_mem_ch' \in Seq(Addresses)  BY <1>2
<1>7. TypeOK'  BY <1>2, <1>4, <1>5, <1>6 DEF TypeOK
<1>8. Shape'  BY <1>2 DEF Shape
<1>9. \A q \in Pages : mem'[q] # None <=> mem[q] # None  BY <1>1, <1>2, <1>3, <1>4 DEF Mapped
<1>10. Layout'  BY <1>2, <1>5, <1>9, HeapPages DEF Layout, HeapEnd
<1>11. Stored'  BY <1>2 DEF Stored
<1>12. \A q : Faulted(proc_mem_ch, q) => Faulted(proc_mem_ch', q)  BY <1>2, FaultAppended
<1>13. Faulted(proc_mem_ch', p)
  <2>1. CASE p \in prot  BY <1>1, <1>2, <2>1, FaultAppended
  <2>2. CASE p \notin prot  BY <1>2, <2>2 DEF Pending
  <2> QED  BY <2>1, <2>2
<1>14. \A q \in Mapped' \ prot' : Faulted(proc_mem_ch', q)
  BY <1>2, <1>5, <1>12, <1>13 DEF Pending
<1>15. FollowedAt(cache', proc_mem_ch', written', mem')
  <2> SUFFICES ASSUME NEW x \in RegionsOf(cache), NEW q \in DOMAIN x.pages \cap written'
               PROVE  x.pages[q] = mem'[q] \/ Faulted(proc_mem_ch', q)
    BY <1>2 DEF FollowedAt
  <2>1. CASE q = p  BY <1>13, <2>1
  <2>2. CASE q # p
    <3>1. q \in written /\ q \in Pages  BY <1>2, <2>2 DEF TypeOK, Mapped
    <3>2. x.pages[q] = mem[q] \/ Faulted(proc_mem_ch, q)  BY <3>1 DEF FollowedAt
    <3> QED  BY <1>4, <1>12, <2>2, <3>1, <3>2
  <2> QED  BY <2>1, <2>2
<1>16. Pending'  BY <1>2, <1>14, <1>15 DEF Pending
<1>17. Growth  BY <1>2 DEF Growth
<1> QED  BY <1>7, <1>8, <1>10, <1>11, <1>16, <1>17 DEF RegionsInv
\* Pages that appear are mapped, protected and not written yet; the copies of the
\* written pages are as good as they were.
LEMMA AppearKeeps ==
  ASSUME RegionsInv, pc = "run", NEW ps \in SUBSET Pages, Appear(ps), ps \cap written = {},
         UNCHANGED <<written, pc, proc_mem_ch>>
  PROVE  /\ mem' \in [Pages -> Values \cup {None}]
         /\ \A p \in ps : mem'[p] = Zero /\ mem'[p] \in Values /\ mem'[p] # None
         /\ \A p \in Pages \ ps : mem'[p] = mem[p]
         /\ Mapped' = Mapped \cup ps
         /\ prot' \subseteq Mapped' /\ written' \subseteq Mapped' /\ used' = used \cup ps /\ used' \subseteq Pages
         /\ \A p \in Mapped' \ prot' : Faulted(proc_mem_ch', p)
         /\ FollowedAt(cache, proc_mem_ch', written', mem')
<1>1. TypeOK /\ Pending /\ FollowedAt(cache, proc_mem_ch, written, mem)  BY InvParts
<1>2. Zero \in Values /\ Zero # None  BY RegionsAssumption
<1>3. mem' = [p \in Pages |-> IF p \in ps THEN Zero ELSE mem[p]] /\ prot' = prot \cup ps /\ used' = used \cup ps
  BY DEF Appear
<1>4. mem' \in [Pages -> Values \cup {None}]  BY <1>1, <1>2, <1>3 DEF TypeOK
<1>5. \A p \in ps : mem'[p] = Zero /\ mem'[p] \in Values /\ mem'[p] # None  BY <1>2, <1>3
<1>6. \A p \in Pages \ ps : mem'[p] = mem[p]  BY <1>3
<1>7. Mapped' = Mapped \cup ps  BY <1>5, <1>6 DEF Mapped
<1>8. prot' \subseteq Mapped' /\ written' \subseteq Mapped' /\ used' \subseteq Pages
  BY <1>1, <1>3, <1>7 DEF TypeOK
<1>9. \A p \in Mapped' \ prot' : Faulted(proc_mem_ch', p)  BY <1>1, <1>3, <1>7 DEF Pending
<1>10. \A p \in written : mem'[p] = mem[p]  BY <1>1, <1>6 DEF TypeOK, Mapped
<1>11. FollowedAt(cache, proc_mem_ch', written', mem')  BY <1>1, <1>10 DEF FollowedAt
<1> QED  BY <1>3, <1>4, <1>5, <1>6, <1>7, <1>8, <1>9, <1>11

\* ... and cache_add_region() makes those of region r known.
LEMMA AddKeeps ==
  ASSUME RegionsInv, pc = "run", NEW ps \in SUBSET Pages, Appear(ps), ps \cap written = {},
         UNCHANGED <<written, pc, proc_mem_ch, step_id>>,
         NEW r \in Extent, PagesOf(r) \subseteq ps, \A p \in PagesOf(r) : ~Holds(cache, p),
         AddRegion(r, mem', step_id)
  PROVE  /\ Shape' /\ Stored' /\ Pending' /\ CacheTypes(cache') /\ rows' \in RowSet
         /\ \A p : Holds(cache', p) <=> Holds(cache, p) \/ p \in PagesOf(r)
<1>1. PICK m : m = mem'  OBVIOUS
<1>2. \A p \in PagesOf(r) : m[p] \in Values /\ ~Holds(cache, p)  BY <1>1, AppearKeeps
<1>3. Grown(cache, rows, r, m, step_id, Insert(cache, Region(r, m)), StoreAll(rows, PagesOf(r), m, step_id))
  BY <1>2, InvParts, RegionAdded
<1>0. PICK s \in Steps : s = step_id /\ s = step_id'  BY InvParts
<1>4. PICK d, qs : d = cache' /\ qs = rows'  OBVIOUS
<1>5. Grown(cache, rows, r, m, s, d, qs)  BY <1>0, <1>1, <1>3, <1>4 DEF AddRegion
<1>6. /\ cache' \in Seq(RegionSet) /\ Sorted(cache') /\ rows' \in RowSet /\ StoredAt(cache', rows', step_id')
      /\ \A p : Holds(cache', p) <=> Holds(cache, p) \/ p \in PagesOf(r)
      /\ \A y \in RegionsOf(d) : \/ y \in RegionsOf(cache)
                                 \/ DOMAIN y.pages = PagesOf(r) /\ \A p \in PagesOf(r) : y.pages[p] = m[p]
  BY <1>0, <1>4, <1>5 DEF Grown
<1>7. CacheTypes(cache')  BY <1>6, CacheTyped
<1>8. Shape'  BY <1>6 DEF Shape
<1>9. Stored'  BY <1>6 DEF Stored
<1>10. FollowedAt(cache', proc_mem_ch', written', mem')
  <2>1. FollowedAt(cache, proc_mem_ch', written', mem')  BY AppearKeeps
  <2> QED  BY <1>1, <1>4, <1>6, <2>1 DEF FollowedAt
<1>11. \A p \in Mapped' \ prot' : Faulted(proc_mem_ch', p)  BY AppearKeeps
<1>12. Pending'  BY <1>10, <1>11 DEF Pending
<1> QED  BY <1>6, <1>7, <1>8, <1>9, <1>12

\* The child's memory map changes and the array does not.
LEMMA SameCache ==
  ASSUME RegionsInv, pc = "run", UNCHANGED <<cache, rows, step_id, pc>>
  PROVE  Shape' /\ Stored' /\ CacheTypes(cache') /\ rows' \in RowSet
<1> USE InvParts
<1>1. Shape'  BY DEF Shape
<1>2. Stored'  BY DEF Stored
<1>3. CacheTypes(cache')  BY CacheTyped
<1> QED  BY <1>1, <1>2, <1>3
\* What the child may ask mmap() for are regions.
LEMMA ExtentsAreRegions ==
  ASSUME NEW r \in Extents
  PROVE  r \in Extent
<1>1. Cardinality(MapPages) \in Nat  BY RegionsAssumption, FS_CardinalityType
<1>2. PICK p \in MapPages, n \in 1 .. Cardinality(MapPages) : r = [page |-> p, count |-> n]
  BY DEF Extents
<1>3. p \in Nat \ {0} /\ n \in Nat \ {0}  BY <1>1, RegionsAssumption
<1> QED  BY <1>2, <1>3 DEF Extent

\* mmap() adds a region away from the known ones (run.c:699).
LEMMA MmapStep ==
  ASSUME ~Reuse, RegionsInv, NEW r \in Extents, Mmap(r)
  PROVE  RegionsInv' /\ Growth
<1>1. PICK ps \in SUBSET Pages : ps = PagesOf(r) /\ ps \subseteq MapPages
  BY HeapPages DEF Mmap
<1>2. r \in Extent  BY ExtentsAreRegions
<1>3. /\ pc = "run" /\ ps \cap used = {} /\ Appear(ps) /\ AddRegion(r, mem', step_id)
      /\ UNCHANGED <<brk, written, pc, step_id, proc_mem_ch, brk_boundary>>
  BY <1>1 DEF Mmap
<1>4. \A p : Holds(cache, p) => p \in used  BY InvParts DEF Layout
<1>5. \A p \in PagesOf(r) : ~Holds(cache, p)  BY <1>1, <1>3, <1>4
<1>6. ps \cap written = {}  BY <1>3, InvParts DEF TypeOK, Layout
<1>7. /\ mem' \in [Pages -> Values \cup {None}] /\ \A p \in Pages \ ps : mem'[p] = mem[p]
      /\ prot' \subseteq Mapped' /\ written' \subseteq Mapped' /\ used' = used \cup ps /\ used' \subseteq Pages
  BY <1>3, <1>6, AppearKeeps
<1>8. /\ Shape' /\ Stored' /\ Pending' /\ CacheTypes(cache') /\ rows' \in RowSet
      /\ \A p : Holds(cache', p) <=> Holds(cache, p) \/ p \in PagesOf(r)
  BY <1>1, <1>2, <1>3, <1>5, <1>6, AddKeeps
<1>9. TypeOK'  BY <1>3, <1>7, <1>8, InvParts DEF TypeOK, CacheTypes, RowSet
<1>10. Layout'
  <2>1. ASSUME NEW p \in HeapBase .. HeapTop - 1
        PROVE  /\ mem'[p] = mem[p]
               /\ Holds(cache', p) => Holds(cache, p)
    <3>1. p \notin ps /\ p \in Pages  BY <1>1, HeapPages, RegionsAssumption
    <3> QED  BY <1>1, <1>7, <1>8, <3>1
  <2>2. \A p : Holds(cache', p) => p \in used'  BY <1>1, <1>4, <1>7, <1>8
  <2>3. Layout  BY InvParts
  <2>4. HeapEnd' = HeapEnd  BY <1>3 DEF HeapEnd
  <2>5. Mapped' \subseteq used'  BY <1>3, <1>6, <1>7, <2>3, AppearKeeps DEF Layout
  <2> QED  BY <1>3, <2>1, <2>2, <2>3, <2>4, <2>5 DEF Layout
<1>11. Growth  BY <1>3, <1>8 DEF Growth
<1> QED  BY <1>8, <1>9, <1>10, <1>11 DEF RegionsInv
\* Pages that disappear are not written any more; nothing new has to be recorded.
LEMMA DisappearKeeps ==
  ASSUME RegionsInv, pc = "run", NEW ps \in SUBSET Pages, Disappear(ps),
         UNCHANGED <<pc, proc_mem_ch, cache>>
  PROVE  /\ mem' \in [Pages -> Values \cup {None}]
         /\ \A p \in ps : mem'[p] = None
         /\ \A p \in Pages \ ps : mem'[p] = mem[p]
         /\ Mapped' \subseteq Mapped
         /\ prot' \subseteq Mapped' /\ written' \subseteq Mapped' /\ used' = used /\ Pending'
<1>1. TypeOK /\ Pending /\ FollowedAt(cache, proc_mem_ch, written, mem)  BY InvParts
<1>2. /\ mem' = [p \in Pages |-> IF p \in ps THEN None ELSE mem[p]] /\ prot' = prot \ ps /\ used' = used
      /\ written' = written \ ps
  BY DEF Disappear
<1>3. mem' \in [Pages -> Values \cup {None}]  BY <1>1, <1>2 DEF TypeOK
<1>4. \A p \in ps : mem'[p] = None  BY <1>2
<1>5. \A p \in Pages \ ps : mem'[p] = mem[p]  BY <1>2
<1>6. Mapped' = Mapped \ ps  BY <1>4, <1>5 DEF Mapped
<1>7. prot' \subseteq Mapped' /\ written' \subseteq Mapped'  BY <1>1, <1>2, <1>6 DEF TypeOK
<1>8. \A p \in Mapped' \ prot' : Faulted(proc_mem_ch', p)  BY <1>1, <1>2, <1>6 DEF Pending
<1>9. \A p \in written' : p \in written /\ mem'[p] = mem[p]  BY <1>1, <1>2, <1>5 DEF TypeOK, Mapped
<1>10. FollowedAt(cache', proc_mem_ch', written', mem')  BY <1>1, <1>9 DEF FollowedAt
<1>11. Pending'  BY <1>8, <1>10 DEF Pending
<1> QED  BY <1>2, <1>3, <1>4, <1>5, <1>6, <1>7, <1>11

\* munmap() leaves the region in the array (run.c:703).
LEMMA MunmapStep ==
  ASSUME RegionsInv, NEW r \in Extents, Munmap(r)
  PROVE  RegionsInv' /\ Growth
<1>1. PICK ps \in SUBSET Pages : ps = PagesOf(r) /\ ps \subseteq MapPages  BY HeapPages DEF Munmap
<1>2. /\ pc = "run" /\ Disappear(ps)
      /\ UNCHANGED <<brk, pc, step_id, proc_mem_ch, cache, brk_boundary, rows>>
  BY <1>1 DEF Munmap
<1>3. /\ mem' \in [Pages -> Values \cup {None}] /\ \A p \in Pages \ ps : mem'[p] = mem[p]
      /\ Mapped' \subseteq Mapped
      /\ prot' \subseteq Mapped' /\ written' \subseteq Mapped' /\ used' = used /\ Pending'
  BY <1>2, DisappearKeeps
<1>4. Shape' /\ Stored' /\ CacheTypes(cache') /\ rows' \in RowSet  BY <1>2, SameCache
<1>5. TypeOK'  BY <1>2, <1>3, <1>4, InvParts DEF TypeOK, CacheTypes, RowSet
<1>6. Layout'
  <2>1. ASSUME NEW p \in HeapBase .. HeapTop - 1 PROVE mem'[p] = mem[p]
    <3>1. p \notin ps /\ p \in Pages  BY <1>1, HeapPages, RegionsAssumption
    <3> QED  BY <1>3, <3>1
  <2>2. Layout  BY InvParts
  <2>3. HeapEnd' = HeapEnd  BY <1>2 DEF HeapEnd
  <2> QED  BY <1>2, <1>3, <2>1, <2>2, <2>3 DEF Layout
<1>7. Growth  BY <1>2 DEF Growth
<1> QED  BY <1>3, <1>4, <1>5, <1>6, <1>7 DEF RegionsInv

\* The heap shrinks: its end stays below the boundary, and OnBrk() does nothing (run.c:707).
LEMMA BrkShrinksStep ==
  ASSUME ~Reuse, RegionsInv, NEW b \in HeapBase .. HeapTop, BrkShrinks(b)
  PROVE  RegionsInv' /\ Growth
<1>1. Layout /\ brk \in HeapBase .. HeapTop  BY InvParts
<1>2. PICK e \in Nat, k \in Nat : e = brk /\ k = brk_boundary /\ k # 0 /\ b < e /\ e <= k /\ HeapBase <= k /\ e <= HeapTop
  BY <1>1, HeapPages, InvParts DEF BrkShrinks, Layout, TypeOK
<1>3. b \in Nat /\ b \in HeapBase .. HeapTop  BY HeapPages
<1>4. PICK ps \in SUBSET Pages : ps = b .. e - 1
  <2>1. b .. e - 1 \subseteq HeapBase .. HeapTop - 1  BY <1>2, <1>3, HeapPages
  <2> QED  BY <2>1, HeapPages
<1>5. ~(b > k)  BY <1>2, <1>3
<1>6. /\ pc = "run" /\ Disappear(ps) /\ brk' = b
      /\ UNCHANGED <<pc, step_id, proc_mem_ch, cache, brk_boundary, rows>>
  BY <1>2, <1>4, <1>5 DEF BrkShrinks, OnBrk
<1>7. /\ mem' \in [Pages -> Values \cup {None}]
      /\ \A p \in ps : mem'[p] = None
      /\ \A p \in Pages \ ps : mem'[p] = mem[p]
      /\ Mapped' \subseteq Mapped
      /\ prot' \subseteq Mapped' /\ written' \subseteq Mapped' /\ used' = used /\ Pending'
  BY <1>6, DisappearKeeps
<1>8. Shape' /\ Stored' /\ CacheTypes(cache') /\ rows' \in RowSet  BY <1>6, SameCache
<1>9. TypeOK'  BY <1>6, <1>7, <1>8, InvParts DEF TypeOK, CacheTypes, RowSet
<1>10. Layout'
  <2>1. ASSUME NEW p \in HeapBase .. HeapTop - 1, mem'[p] # None PROVE p < b
    <3>1. p \in Int /\ p \in Pages /\ p \notin ps  BY <1>7, <2>1, HeapPages
    <3>2. p < e  BY <1>1, <1>2, <1>7, <2>1, <3>1 DEF Layout
    <3> QED  BY <1>2, <1>3, <1>4, <3>1, <3>2
  <2>2. HeapEnd' = k /\ HeapEnd = k  BY <1>2, <1>6 DEF HeapEnd
  <2>3. b <= k  BY <1>2, <1>3
  <2> QED  BY <1>1, <1>2, <1>6, <1>7, <2>1, <2>2, <2>3 DEF Layout
<1>11. Growth  BY <1>6 DEF Growth
<1> QED  BY <1>7, <1>8, <1>9, <1>10, <1>11 DEF RegionsInv
\* The heap grows (run.c:707): the first brk() sets the boundary, and from then on
\* what lies past the boundary becomes a region.
LEMMA BrkGrowsStep ==
  ASSUME RegionsInv, NEW b \in HeapBase .. HeapTop, BrkGrows(b)
  PROVE  RegionsInv' /\ Growth
<1>1. Layout /\ brk \in HeapBase .. HeapTop /\ brk_boundary \in Nat  BY InvParts DEF TypeOK
<1>2. PICK e \in Nat, k \in Nat : e = brk /\ k = brk_boundary /\ e <= b /\ HeapBase <= e /\ e <= HeapTop
  BY <1>1, HeapPages DEF BrkGrows
<1>3. b \in Nat /\ HeapBase <= b /\ b <= HeapTop /\ b # 0  BY HeapPages
<1>4. PICK ps \in SUBSET Pages : ps = e .. b - 1
  <2>1. e .. b - 1 \subseteq HeapBase .. HeapTop - 1  BY <1>2, <1>3, HeapPages
  <2> QED  BY <2>1, HeapPages
<1>5. pc = "run" /\ Appear(ps) /\ brk' = b /\ OnBrk(b) /\ UNCHANGED <<written, pc, step_id, proc_mem_ch>>
  BY <1>2, <1>4 DEF BrkGrows
<1>6. \A p \in ps : p \in HeapBase .. HeapTop - 1 /\ p \notin Mapped
  <2> TAKE p \in ps
  <2>1. p \in HeapBase .. HeapTop - 1 /\ ~(p < e)  BY <1>2, <1>3, <1>4, HeapPages
  <2> QED  BY <1>1, <1>2, <2>1 DEF Layout, Mapped
<1>7. ps \cap written = {}  BY <1>6, InvParts DEF TypeOK
<1>8. /\ mem' \in [Pages -> Values \cup {None}]
      /\ \A p \in Pages \ ps : mem'[p] = mem[p]
      /\ Mapped' = Mapped \cup ps
      /\ prot' \subseteq Mapped' /\ written' \subseteq Mapped' /\ used' = used \cup ps /\ used' \subseteq Pages
      /\ \A p \in Mapped' \ prot' : Faulted(proc_mem_ch', p)
      /\ FollowedAt(cache, proc_mem_ch', written', mem')
  BY <1>5, <1>7, AppearKeeps
<1>9. ASSUME NEW p \in HeapBase .. HeapTop - 1, mem'[p] # None PROVE p < b
  <2>1. p \in Int /\ p \in Pages  BY HeapPages
  <2>2. CASE p \in ps  BY <1>2, <1>3, <1>4, <2>1, <2>2
  <2>3. CASE p \notin ps
    <3>1. p < e  BY <1>1, <1>2, <1>8, <1>9, <2>1, <2>3 DEF Layout
    <3> QED  BY <1>2, <1>3, <2>1, <3>1
  <2> QED  BY <2>2, <2>3
<1>10. Mapped' \subseteq used'  BY <1>1, <1>8 DEF Layout
<1>11. CASE UNCHANGED <<cache, rows>> /\ ((k = 0 /\ brk_boundary' = b) \/ (k # 0 /\ brk_boundary' = k /\ b <= k))
  <2>1. Shape' /\ Stored' /\ CacheTypes(cache') /\ rows' \in RowSet  BY <1>5, <1>11, SameCache
  <2>2. TypeOK'  BY <1>3, <1>5, <1>8, <1>11, <2>1, InvParts DEF TypeOK, CacheTypes, RowSet
  <2>3. FollowedAt(cache', proc_mem_ch', written', mem')  BY <1>8, <1>11
  <2>4. Pending'  BY <1>5, <1>8, <2>3 DEF Pending
  <2>5. brk_boundary' \in Nat /\ brk_boundary' # 0 /\ b <= brk_boundary' /\ HeapBase <= brk_boundary' /\ brk_boundary' <= HeapTop
    BY <1>1, <1>2, <1>3, <1>11 DEF Layout
  <2>6. ASSUME NEW p \in HeapBase .. HeapTop - 1, Holds(cache, p) PROVE p < brk_boundary'
    <3>1. p \in Int  BY HeapPages
    <3>2. p < HeapEnd  BY <1>1, <2>6 DEF Layout
    <3>3. p < (IF k = 0 THEN e ELSE k)  BY <1>2, <3>2 DEF HeapEnd
    <3> QED  BY <1>2, <1>3, <1>11, <3>1, <3>3
  <2>7. \A p : Holds(cache', p) => p \in used'  BY <1>1, <1>8, <1>11 DEF Layout
  <2>8. HeapEnd' = brk_boundary'  BY <2>5 DEF HeapEnd
  <2>9. Layout'  BY <1>5, <1>9, <1>10, <1>11, <2>5, <2>6, <2>7, <2>8 DEF Layout
  <2>10. Growth  BY <1>2, <1>11 DEF Growth
  <2> QED  BY <2>1, <2>2, <2>4, <2>9, <2>10 DEF RegionsInv
<1>12. CASE k # 0 /\ b > k
  <2>1. PICK r \in Extent : r = [page |-> k, count |-> b - k] /\ PagesOf(r) = k .. b - 1
    <3>1. k \in Nat \ {0} /\ b - k \in Nat \ {0} /\ k + (b - k) - 1 = b - 1  BY <1>2, <1>3, <1>12
    <3>2. PICK r : r = [page |-> k, count |-> b - k]  OBVIOUS
    <3>3. r \in Extent  BY <3>1, <3>2 DEF Extent
    <3>4. PagesOf(r) = k .. b - 1  BY <3>1, <3>2 DEF PagesOf
    <3> QED  BY <3>2, <3>3, <3>4
  <2>2. e <= k  BY <1>1, <1>2, <1>12 DEF Layout
  <2>3. PagesOf(r) \subseteq ps  BY <1>2, <1>3, <1>4, <2>1, <2>2
  <2>4. AddRegion(r, mem', step_id) /\ brk_boundary' = b
    BY <1>2, <1>5, <1>12, <2>1 DEF OnBrk
  <2>5. ASSUME NEW p \in HeapBase .. HeapTop - 1, Holds(cache, p) PROVE p < k
    <3>1. p < HeapEnd  BY <1>1, <2>5 DEF Layout
    <3> QED  BY <1>2, <1>12, <3>1 DEF HeapEnd
  <2>6. \A p \in PagesOf(r) : ~Holds(cache, p)
    <3> TAKE p \in PagesOf(r)
    <3>1. p \in HeapBase .. HeapTop - 1  BY <1>6, <2>3
    <3>2. ~(p < k)  BY <1>2, <2>1
    <3> QED  BY <2>5, <3>1, <3>2
  <2>7. /\ Shape' /\ Stored' /\ Pending' /\ CacheTypes(cache') /\ rows' \in RowSet
        /\ \A p : Holds(cache', p) <=> Holds(cache, p) \/ p \in PagesOf(r)
    BY <1>5, <1>7, <2>3, <2>4, <2>6, AddKeeps
  <2>8. TypeOK'  BY <1>3, <1>5, <1>8, <2>4, <2>7, InvParts DEF TypeOK, CacheTypes, RowSet
  <2>9. ASSUME NEW p \in HeapBase .. HeapTop - 1, Holds(cache', p) PROVE p < b
    <3>1. p \in Int  BY HeapPages
    <3>2. CASE p \in PagesOf(r)  BY <1>2, <1>3, <2>1, <3>1, <3>2
    <3>3. CASE Holds(cache, p)
      <4>1. p < k  BY <2>5, <3>3
      <4> QED  BY <1>2, <1>3, <1>12, <3>1, <4>1
    <3> QED  BY <2>7, <2>9, <3>2, <3>3
  <2>10. \A p : Holds(cache', p) => p \in used'  BY <1>1, <1>8, <2>3, <2>7 DEF Layout
  <2>11. HeapEnd' = b  BY <1>3, <2>4 DEF HeapEnd
  <2>12. b <= b  BY <1>3
  <2>13. Layout'  BY <1>3, <1>5, <1>9, <1>10, <2>4, <2>9, <2>10, <2>11, <2>12 DEF Layout
  <2>14. Growth  BY <1>2, <1>12, <2>1, <2>4, <2>7 DEF Growth
  <2> QED  BY <2>7, <2>8, <2>13, <2>14 DEF RegionsInv
<1>13. \/ UNCHANGED <<cache, rows>> /\ ((k = 0 /\ brk_boundary' = b) \/ (k # 0 /\ brk_boundary' = k /\ b <= k))
       \/ k # 0 /\ b > k
  <2>1. b > k \/ b <= k  BY <1>2, <1>3
  <2> QED  BY <1>2, <1>5, <2>1 DEF OnBrk
<1> QED  BY <1>11, <1>12, <1>13
\* A new step has no rows yet, and the rows of the steps before it stay the last ones.
LEMMA StepStep ==
  ASSUME RegionsInv, Step
  PROVE  RegionsInv' /\ Growth
<1>1. PICK s \in Steps : s = step_id /\ StoredAt(cache, rows, s)  BY InvParts
<1>2. s \in Nat /\ s + 1 \in Steps /\ step_id' = s + 1
  BY <1>1, RegionsAssumption DEF Step, Steps
<1>3. /\ pc = "run" /\ pc' = "drain" /\ prot' = Mapped
      /\ UNCHANGED <<mem, brk, used, written, proc_mem_ch, cache, brk_boundary, rows>>
  BY DEF Step
<1>4. Mapped' = Mapped /\ HeapEnd' = HeapEnd  BY <1>3 DEF Mapped, HeapEnd
<1>5. TypeOK'  BY <1>2, <1>3, <1>4, InvParts DEF TypeOK
<1>6. Shape'  BY <1>3, InvParts DEF Shape
<1>7. Layout'
  <2>1. Layout  BY InvParts
  <2>2. pc' # "init"  BY <1>3
  <2> QED  BY <1>3, <1>4, <2>1, <2>2 DEF Layout
<1>8. \A p \in Pages : \A t \in Steps : t > s => rows[p][t] = <<>>  BY <1>1 DEF StoredAt
<1>9. StoredAt(cache, rows, s + 1)
  <2>1. \A p \in Pages, t \in Steps : ~Holds(cache, p) \/ t > s + 1 => rows[p][t] = <<>>
    <3>1. \A t \in Steps : t > s + 1 => t > s  BY <1>2 DEF Steps
    <3> QED  BY <1>1, <3>1 DEF StoredAt
  <2>2. \A p \in Pages, t \in Steps : Len(rows[p][t]) <= 1  BY <1>1 DEF StoredAt
  <2>3. ASSUME NEW x \in RegionsOf(cache), NEW p \in DOMAIN x.pages
        PROVE  p \in Pages /\ LastRow(rows[p], s + 1, x.pages[p])
    <3>1. p \in Pages /\ LastRow(rows[p], s, x.pages[p])  BY <1>1, <2>3 DEF StoredAt
    <3>2. \A t \in 1 .. s : t \in 1 .. s + 1  BY <1>2
    <3> QED  BY <3>1, <3>2 DEF LastRow
  <2> QED  BY <2>1, <2>2, <2>3 DEF StoredAt
<1>10. OnceAt(cache, rows, s + 1, mem)
  <2> SUFFICES ASSUME NEW x \in RegionsOf(cache), NEW p \in DOMAIN x.pages
               PROVE  rows[p][s + 1] = <<>>
    BY DEF OnceAt
  <2>1. p \in Pages  BY <1>1 DEF StoredAt
  <2>2. s + 1 > s  BY <1>2
  <2> QED  BY <1>2, <1>8, <2>1, <2>2
<1>11. Stored'  BY <1>2, <1>3, <1>9, <1>10 DEF Stored
<1>12. Pending'  BY <1>3, <1>4, InvParts DEF Pending
<1>13. Growth  BY <1>3 DEF Growth
<1> QED  BY <1>5, <1>6, <1>7, <1>11, <1>12, <1>13 DEF RegionsInv

\* proc_dirty_mem() (memcache.c:293) takes a fault: the page is found and its copy brought up to
\* date, it has not changed, or it is not known.
LEMMA DrainPageStep ==
  ASSUME RegionsInv, DrainPage
  PROVE  RegionsInv' /\ Growth
<1>1. /\ pc = "drain" /\ proc_mem_ch # <<>> /\ proc_mem_ch' = Tail(proc_mem_ch)
      /\ UNCHANGED <<mem, brk, prot, used, written, pc, step_id, brk_boundary>>
  BY DEF DrainPage, child
<1>2. PICK a \in Addresses : /\ a = Head(proc_mem_ch) /\ proc_mem_ch' \in Seq(Addresses)
                             /\ \A q : Faulted(proc_mem_ch, q) => Faulted(proc_mem_ch', q) \/ a \div PAGE_SIZE = q
  BY <1>1, InvParts, FaultTaken
<1>3. PICK p \in Pages : p = a \div PAGE_SIZE /\ a \in Int  BY AddressFacts
<1>4. PICK k : k = FindRegion(a)  OBVIOUS
<1>5. (k = 0 <=> Covering(a) = {}) /\ (k # 0 => k \in Covering(a) /\ FindPage(a, k) = p)
  <2>1. SearchExact  BY InvParts, ShapeSearches
  <2> QED  BY <1>3, <1>4, <2>1 DEF SearchExact
<1>6. cache \in Seq(RegionSet) /\ \A j \in DOMAIN cache : cache[j] \in RegionSet
  <2>1. cache \in Seq(RegionSet)  BY InvParts
  <2> QED  BY <2>1
<1>7. \A j \in DOMAIN cache : j \in Covering(a) <=> p \in DOMAIN cache[j].pages
  BY <1>3, <1>6, RegionFacts DEF Covering
<1>8. Mapped' = Mapped /\ HeapEnd' = HeapEnd  BY <1>1 DEF Mapped, HeapEnd
<1>9. CASE UNCHANGED <<cache, rows>> /\ \A x \in RegionsOf(cache) : p \in DOMAIN x.pages \cap written => x.pages[p] = mem[p]
  <2>1. TypeOK'  BY <1>1, <1>2, <1>8, <1>9, InvParts DEF TypeOK
  <2>2. Shape'  BY <1>9, InvParts DEF Shape
  <2>3. Layout'
    <3>1. Layout  BY InvParts
    <3>2. pc' # "init"  BY <1>1
    <3> QED  BY <1>1, <1>8, <1>9, <3>1, <3>2 DEF Layout
  <2>4. Stored'  BY <1>1, <1>9, InvParts DEF Stored
  <2>5. FollowedAt(cache', proc_mem_ch', written', mem')
    <3>1. FollowedAt(cache, proc_mem_ch, written, mem)  BY InvParts
    <3> SUFFICES ASSUME NEW x \in RegionsOf(cache), NEW q \in DOMAIN x.pages \cap written
                 PROVE  x.pages[q] = mem[q] \/ Faulted(proc_mem_ch', q)
      BY <1>1, <1>9 DEF FollowedAt
    <3>2. CASE q = p  BY <1>9, <3>2
    <3>3. CASE q # p  BY <1>2, <1>3, <3>1, <3>3 DEF FollowedAt
    <3> QED  BY <3>2, <3>3
  <2>6. Pending'  BY <1>1, <1>8, <2>5, InvParts DEF Pending
  <2>7. Growth  BY <1>1, <1>9 DEF Growth
  <2> QED  BY <2>1, <2>2, <2>3, <2>4, <2>6, <2>7 DEF RegionsInv
<1>10. CASE k = 0
  <2>1. UNCHANGED <<cache, rows>>  BY <1>2, <1>4, <1>10 DEF DrainPage
  <2>2. \A x \in RegionsOf(cache) : p \notin DOMAIN x.pages  BY <1>5, <1>7, <1>10 DEF RegionsOf
  <2> QED  BY <1>9, <2>1, <2>2
<1>11. CASE k # 0
  <2>1. k \in DOMAIN cache /\ p \in DOMAIN cache[k].pages  BY <1>5, <1>7, <1>11 DEF Covering
  <2>2. ProcessPage(k, p)  BY <1>2, <1>4, <1>5, <1>11 DEF DrainPage
  <2>3. cache[k] \in RegionsOf(cache)  BY <2>1 DEF RegionsOf
  <2>4. CASE ~(mem[p] # None /\ mem[p] # cache[k].pages[p])
    <3>1. UNCHANGED <<cache, rows>>  BY <2>2, <2>4 DEF ProcessPage
    <3>2. p \in written => mem[p] # None  BY InvParts DEF TypeOK, Mapped
    <3>3. \A x \in RegionsOf(cache) : p \in DOMAIN x.pages => x = cache[k]
      BY <2>1, InvParts, OneRegion DEF RegionsOf
    <3> QED  BY <1>9, <2>4, <3>1, <3>2, <3>3
  <2>5. CASE mem[p] # None /\ mem[p] # cache[k].pages[p]
    <3>1. PICK v \in Values : v = mem[p]  BY <2>5, InvParts
    <3>2. PICK s \in Steps : s = step_id /\ s = step_id' /\ StoredAt(cache, rows, s)  BY <1>1, InvParts
    <3>3. cache' = [cache EXCEPT ![k].pages[p] = v] /\ rows' = [rows EXCEPT ![p][s] = Append(@, v)]
      BY <2>2, <2>5, <3>1, <3>2 DEF ProcessPage
    <3>4. OnceAt(cache, rows, s, mem)  BY <1>1, <3>2, InvParts DEF Stored
    <3>5. rows[p][s] = <<>>  BY <2>1, <2>3, <2>5, <3>4 DEF OnceAt
    <3>6. PICK d, qs : d = cache' /\ qs = rows'  OBVIOUS
    <3>7. Updated(cache, p, v, d) /\ qs \in RowSet /\ StoredAt(d, qs, s)
      BY <2>1, <3>2, <3>3, <3>5, <3>6, InvParts, PageStored
    <3>8. /\ cache' \in Seq(RegionSet) /\ Sorted(cache') /\ \A q : Holds(cache', q) <=> Holds(cache, q)
          /\ \A y \in RegionsOf(d) : \E w \in RegionsOf(cache) :
               /\ DOMAIN y.pages = DOMAIN w.pages
               /\ \A q \in DOMAIN y.pages : y.pages[q] = IF q = p THEN v ELSE w.pages[q]
      BY <3>6, <3>7 DEF Updated
    <3>9. TypeOK'
      <4>1. CacheTypes(cache')  BY <3>8, CacheTyped
      <4> QED  BY <1>1, <1>2, <1>8, <3>6, <3>7, <4>1, InvParts DEF TypeOK, CacheTypes, RowSet
    <3>10. Shape'  BY <3>8 DEF Shape
    <3>11. Layout'
      <4>1. Layout  BY InvParts
      <4>2. pc' # "init"  BY <1>1
      <4> QED  BY <1>1, <1>8, <3>8, <4>1, <4>2 DEF Layout
    <3>12. \A q \in Pages : q # p => qs[q] = rows[q]  BY <1>3, <3>3, <3>6, InvParts DEF RowSet
    <3>13. OnceAt(d, qs, s, mem)
      <4> SUFFICES ASSUME NEW y \in RegionsOf(d), NEW q \in DOMAIN y.pages, qs[q][s] # <<>>
                   PROVE  y.pages[q] = mem[q]
        BY DEF OnceAt
      <4>1. PICK w \in RegionsOf(cache) : /\ DOMAIN y.pages = DOMAIN w.pages
                                         /\ y.pages[q] = IF q = p THEN v ELSE w.pages[q]
        BY <3>8
      <4>2. CASE q = p  BY <3>1, <4>1, <4>2
      <4>3. CASE q # p
        <5>1. q \in Pages  BY <3>2, <4>1 DEF StoredAt
        <5>2. rows[q][s] # <<>>  BY <3>12, <4>3, <5>1
        <5> QED  BY <3>4, <4>1, <4>3, <5>2 DEF OnceAt
      <4> QED  BY <4>2, <4>3
    <3>14. Stored'  BY <1>1, <3>2, <3>6, <3>7, <3>13 DEF Stored
    <3>15. FollowedAt(cache', proc_mem_ch', written', mem')
      <4> SUFFICES ASSUME NEW y \in RegionsOf(d), NEW q \in DOMAIN y.pages \cap written
                   PROVE  y.pages[q] = mem[q] \/ Faulted(proc_mem_ch', q)
        BY <1>1, <3>6 DEF FollowedAt
      <4>1. PICK w \in RegionsOf(cache) : /\ DOMAIN y.pages = DOMAIN w.pages
                                         /\ y.pages[q] = IF q = p THEN v ELSE w.pages[q]
        BY <3>8
      <4>2. CASE q = p  BY <3>1, <4>1, <4>2
      <4>3. CASE q # p
        <5>1. w.pages[q] = mem[q] \/ Faulted(proc_mem_ch, q)  BY <4>1, InvParts DEF FollowedAt
        <5> QED  BY <1>2, <1>3, <4>1, <4>3, <5>1
      <4> QED  BY <4>2, <4>3
    <3>16. Pending'  BY <1>1, <1>8, <3>15, InvParts DEF Pending
    <3>17. Growth  BY <1>1, <3>8 DEF Growth
    <3> QED  BY <3>9, <3>10, <3>11, <3>14, <3>16, <3>17 DEF RegionsInv
  <2> QED  BY <2>4, <2>5
<1> QED  BY <1>10, <1>11
\* Every step of the child and of the recorder keeps the invariant, if no address
\* is handed out twice.
LEMMA RegionsStep ==
  ASSUME ~Reuse, RegionsInv, [Next]_vars
  PROVE  RegionsInv' /\ Growth
<1>1. CASE UNCHANGED vars  BY <1>1, QuietStep DEF vars, child
<1>2. CASE InitRegion  BY <1>2, InitRegionStep
<1>3. CASE InitDone  BY <1>3, QuietStep DEF InitDone, child
<1>4. CASE \E a \in Addresses, v \in Values : Write(a, v)  BY <1>4, WriteStep
<1>5. CASE SystemCall
  BY <1>5, MmapStep, MunmapStep, BrkGrowsStep, BrkShrinksStep DEF SystemCall
<1>6. CASE Step  BY <1>6, StepStep
<1>7. CASE DrainPage  BY <1>7, DrainPageStep
<1>8. CASE DrainDone  BY <1>8, QuietStep DEF DrainDone, child
<1>9. CASE Resume  BY <1>9, QuietStep DEF Resume, child
<1> QED  BY <1>1, <1>2, <1>3, <1>4, <1>5, <1>6, <1>7, <1>8, <1>9 DEF Next
-----------------------------------------------------------------------------
(* What the invariant says *)

\* The known pages are the ones the regions hold.
LEMMA KnownIsHeld ==
  ASSUME NEW c \in Seq(RegionSet), NEW p \in Pages
  PROVE  (\E k \in DOMAIN c : c[k].start <= p * PAGE_SIZE /\ p * PAGE_SIZE < c[k].end) <=> Holds(c, p)
<1>1. p \in Int  BY PagesAreNatural
<1>2. \A k \in DOMAIN c : c[k] \in RegionSet  OBVIOUS
<1> QED  BY <1>1, <1>2, HeldPage DEF Holds, RegionsOf

\* Examine finds the copy: it is the row of the greatest step that has one.
LEMMA LastRowReplayed ==
  ASSUME NEW p, NEW s \in Steps, NEW v, LastRow(rows[p], s, v)
  PROVE  Replay(p, s) = v
<1>1. s \in Nat /\ \A t \in 1 .. s : t \in Steps  BY RegionsAssumption DEF Steps
<1>2. PICK t \in 1 .. s : rows[p][t] = <<v>> /\ \A u \in Steps : u > t => rows[p][u] = <<>>
  BY DEF LastRow
<1>3. <<v>> # <<>> /\ Last(<<v>>) = v  BY DEF Last
<1>4. t \in RowSteps(p, s)  BY <1>2, <1>3 DEF RowSteps
<1>5. ASSUME NEW u \in RowSteps(p, s) PROVE u \in Int /\ u <= t
  <2>1. u \in 1 .. s /\ rows[p][u] # <<>>  BY DEF RowSteps
  <2>2. ~(u > t)  BY <1>1, <1>2, <2>1
  <2> QED  BY <1>1, <2>1, <2>2
<1>6. PICK w : w = CHOOSE x \in RowSteps(p, s) : \A u \in RowSteps(p, s) : u <= x  OBVIOUS
<1>7. w \in RowSteps(p, s) /\ t <= w  BY <1>4, <1>5, <1>6
<1>8. w = t
  <2>1. w \in Int /\ w <= t  BY <1>5, <1>7
  <2> QED  BY <1>7, <2>1
<1> QED  BY <1>2, <1>3, <1>4, <1>6, <1>8 DEF Replay

\* When the channel is empty every copy of a written page is the memory.
LEMMA InvRecords ==
  ASSUME RegionsInv
  PROVE  KnownMemoryExact
<1> SUFFICES ASSUME pc = "stored", NEW p \in written \cap KnownPages
             PROVE  Replay(p, step_id) = mem[p]
  BY DEF KnownMemoryExact
<1>1. p \in Pages /\ Covering(p * PAGE_SIZE) # {}  BY DEF KnownPages
<1>2. Holds(cache, p)  BY <1>1, InvParts, KnownIsHeld DEF Covering
<1>3. PICK x \in RegionsOf(cache) : p \in DOMAIN x.pages  BY <1>2 DEF Holds
<1>4. LastRow(rows[p], step_id, x.pages[p])  BY <1>3, InvParts DEF StoredAt
<1>5. ~Faulted(proc_mem_ch, p)  BY InvParts DEF Pending, Faulted
<1>6. x.pages[p] = mem[p]  BY <1>3, <1>5, InvParts DEF FollowedAt
<1> QED  BY <1>4, <1>6, InvParts, LastRowReplayed

\* A boundary that moves leaves no lost page behind.
LEMMA InvGrows ==
  ASSUME RegionsInv, RegionsInv', Growth, brk_boundary # 0
  PROVE  LostHeap' \subseteq LostHeap /\ brk' <= brk_boundary'
<1>1. PICK k \in Nat, j \in Nat : k = brk_boundary /\ j = brk_boundary' /\ k # 0
  BY DEF RegionsInv, TypeOK
<1>2. j = k \/ (k < j /\ \A p \in k .. j - 1 : Holds(cache', p))  BY <1>1 DEF Growth
<1>3. brk' <= brk_boundary' /\ j <= HeapTop /\ HeapBase <= k
  <2>0. k # 0 /\ (j = k \/ k < j)  BY <1>1, <1>2
  <2>1. j # 0  BY <2>0
  <2>2. Layout /\ Layout'  BY DEF RegionsInv
  <2>3. brk' <= brk_boundary' /\ brk_boundary' <= HeapTop  BY <1>1, <2>1, <2>2 DEF Layout
  <2>4. HeapBase <= brk_boundary  BY <2>2 DEF Layout
  <2> QED  BY <1>1, <2>3, <2>4
<1>4. cache \in Seq(RegionSet) /\ cache' \in Seq(RegionSet)  BY DEF RegionsInv, Shape
<1>5. ASSUME NEW p \in HeapBase .. j - 1, p \notin KnownPages' PROVE p \in LostHeap
  <2>1. p \in Int /\ HeapBase <= p /\ p <= j - 1 /\ p \in Pages
    <3>1. PICK h \in Nat, e \in Nat : h = HeapBase /\ e = HeapTop /\ j <= e  BY <1>3, HeapPages
    <3>2. p \in Int /\ h <= p /\ p <= j - 1 /\ p \in h .. e - 1  BY <1>5, <3>1
    <3> QED  BY <3>1, <3>2, HeapPages
  <2>2. ~Holds(cache', p)
    <3>1. PICK c \in Seq(RegionSet) : c = cache'  BY <1>4
    <3>2. ~ \E i \in DOMAIN c : c[i].start <= p * PAGE_SIZE /\ p * PAGE_SIZE < c[i].end
      BY <1>5, <2>1, <3>1 DEF KnownPages, Covering
    <3> QED  BY <2>1, <3>1, <3>2, KnownIsHeld
  <2>3. ~Holds(cache, p)  BY <2>2 DEF Growth
  <2>4. p \notin KnownPages  BY <1>4, <2>1, <2>3, KnownIsHeld DEF KnownPages, Covering
  <2>5. p \in HeapBase .. k - 1
    <3>1. p \notin k .. j - 1 \/ j = k  BY <1>2, <2>2
    <3>2. PICK h \in Nat : h = HeapBase  BY HeapPages
    <3>3. h <= p /\ p <= j - 1  BY <2>1, <3>2
    <3>4. p \in h .. k - 1  BY <2>1, <3>1, <3>3
    <3> QED  BY <3>2, <3>4
  <2> QED  BY <1>1, <2>4, <2>5 DEF LostHeap
<1>6. LostHeap' = {p \in HeapBase .. j - 1 : p \notin KnownPages'}  BY <1>1 DEF LostHeap
<1> QED  BY <1>3, <1>5, <1>6
-----------------------------------------------------------------------------
(* The theorems *)

\* The invariant holds for every memory map and every behaviour of the child in
\* which no address is mapped twice.
THEOREM RegionsInvariant == ~Reuse /\ Spec => []RegionsInv
<1>1. ASSUME ~Reuse, RegionsInv, [Next]_vars PROVE RegionsInv'  BY <1>1, RegionsStep
<1>2. CASE ~Reuse  BY <1>1, <1>2, RegionsInit, PTL DEF Spec
<1> QED  BY <1>2

\* Type correctness of the array, the channel and the rows (memcache.c:52).
THEOREM RegionsTypes == ~Reuse /\ Spec => []TypeOK
<1>1. RegionsInv => TypeOK  BY DEF RegionsInv
<1> QED  BY <1>1, RegionsInvariant, PTL

\* find_page() (memcache.c:155): the binary search finds exactly the addresses that
\* lie in a region, with the right page, in every reachable array.
THEOREM SearchIsExact == ~Reuse /\ Spec => []SearchExact
<1>1. RegionsInv => SearchExact  BY ShapeSearches DEF RegionsInv
<1> QED  BY <1>1, RegionsInvariant, PTL

\* When proc_dirty_mem() is done with a step (memcache.c:293), table mem has the
\* contents of every page in a known region that the child has written.
THEOREM KnownMemoryIsExact == ~Reuse /\ Spec => []KnownMemoryExact
<1>1. RegionsInv => KnownMemoryExact  BY InvRecords
<1> QED  BY <1>1, RegionsInvariant, PTL

\* cache_add_region() and process_page() together insert at most one row for a page
\* and a step, so that the unique index of db_workers.c:386 can be created.
THEOREM RowsAreUnique == ~Reuse /\ Spec => []RowsUnique
<1>1. RegionsInv => RowsUnique  BY DEF RegionsInv, Stored, StoredAt, RowsUnique
<1> QED  BY <1>1, RegionsInvariant, PTL

\* BPF_EVT_BRK (run.c:707): after the first brk() every page by which the heap grows
\* past its highest end becomes known, and the boundary never falls behind the heap.
THEOREM HeapGrowthIsKnown == ~Reuse /\ Spec => HeapGrowthKnown
<1>1. ASSUME ~Reuse, RegionsInv, RegionsInv', [Next]_vars
      PROVE  [brk_boundary # 0 => LostHeap' \subseteq LostHeap /\ brk' <= brk_boundary']_vars
  BY <1>1, RegionsStep, InvGrows
<1>2. CASE ~Reuse  BY <1>1, <1>2, RegionsInvariant, PTL DEF Spec, HeapGrowthKnown
<1> QED  BY <1>2
=============================================================================
