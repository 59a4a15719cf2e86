----------------------------- MODULE HeapProofs -----------------------------
(***************************************************************************)
(* Proofs about Heap for every page size, header size, alignment and set   *)
(* of requests.  The operators on the block list (Appended, Split with     *)
(* Taken, Released, Absorb) each get a lemma that gives their fields and   *)
(* one that says they keep a list.  HeapInv is inductive; the actions put  *)
(* these lemmas together.  The last part is about used_bytes, a sum over   *)
(* what the callers hold, and about the frames behind the window.          *)
(***************************************************************************)
EXTENDS Heap, FiniteSetTheorems, TLAPS

(* What every operator on the list keeps; Merged holds only between calls. *)
List(bs, top) ==
  /\ top \in Nat
  /\ Headers(bs)
  /\ bs = [x \in DOMAIN bs |-> bs[x]]
  /\ Linked(bs, top) /\ Apart(bs) /\ Marked(bs)

HasLast(bs) == \E a \in DOMAIN bs : bs[a].next = Null

(* The blocks in use and their sizes are the same in both lists. *)
SameUse(bs, cs) ==
  /\ InUse(cs) = InUse(bs)
  /\ \A a \in InUse(bs) : cs[a].requested = bs[a].requested

----------------------------------------------------------------------------
(* Arithmetic. *)
LEMMA ConstantsNat ==
  /\ HeaderUnits \in Nat /\ HeaderUnits > 0
  /\ PageUnits \in Nat /\ PageUnits > HeaderUnits
  /\ UnitBytes \in Nat /\ UnitBytes > 0 /\ CanaryBytes \in Nat /\ CanaryBytes > 0
  /\ MaxPages \in Nat /\ MaxPages > 0 /\ Word \in Nat /\ Word > 0
  /\ PoolFrames \in Nat
BY HeapAssumption

LEMMA DivNat ==
  ASSUME NEW x \in Nat, NEW d \in Nat, d > 0
  PROVE  x \div d \in Nat /\ (x \div d) * d <= x /\ x < (x \div d) * d + d
<1>1. x \div d \in Int /\ x \div d >= 0
  OBVIOUS
<1>2. ASSUME NEW q \in Int, q = x \div d
      PROVE  d * q <= x /\ x < d * q + d
  BY <1>2
<1>3. ASSUME NEW q \in Int
      PROVE  d * q = q * d /\ d * q \in Int
  BY <1>3
<1> DEFINE q == x \div d
<1>4. q \in Nat /\ d * q <= x /\ x < d * q + d /\ d * q = q * d /\ d * q \in Int
  BY <1>1, <1>2, <1>3
<1> HIDE DEF q
<1>5. q \in Nat /\ q * d <= x /\ x < q * d + d
  BY <1>4, Zenon
<1> QED BY <1>5, Zenon DEF q

LEMMA NeedNat ==
  ASSUME NEW size \in Nat
  PROVE  Need(size) \in Nat /\ Need(size) > 0
<1>1. size + CanaryBytes + UnitBytes - 1 \in Nat /\ size + CanaryBytes + UnitBytes - 1 >= UnitBytes
  BY ConstantsNat
<1>2. Need(size) \in Nat
  BY <1>1, ConstantsNat, DivNat, Zenon DEF Need, Units
<1>3. size + CanaryBytes + UnitBytes - 1 < Need(size) * UnitBytes + UnitBytes
  BY <1>1, ConstantsNat, DivNat, Zenon DEF Need, Units
<1>4. Need(size) # 0
  BY <1>1, <1>3, ConstantsNat
<1> QED BY <1>2, <1>4

LEMMA PagesNat ==
  ASSUME NEW units \in Nat, units > 0
  PROVE  /\ Pages(units) \in Nat /\ Pages(units) > 0
         /\ Pages(units) * PageUnits \in Nat /\ Pages(units) * PageUnits >= PageUnits
<1>1. units + PageUnits - 1 \in Nat /\ units + PageUnits - 1 >= PageUnits
  BY ConstantsNat
<1>2. Pages(units) \in Nat
  BY <1>1, ConstantsNat, DivNat DEF Pages
<1>3. units + PageUnits - 1 < Pages(units) * PageUnits + PageUnits
  BY <1>1, ConstantsNat, DivNat DEF Pages
<1>4. Pages(units) # 0
  BY <1>1, <1>3, ConstantsNat
<1>5. ASSUME NEW m \in Nat, NEW k \in Nat, m > 0
      PROVE  m * k \in Nat /\ m * k >= k
  BY <1>5
<1> QED BY <1>2, <1>4, <1>5, ConstantsNat

(* kcalloc: a product that passes its check does not wrap. *)
LEMMA ProductFits ==
  ASSUME NEW count \in Nat, NEW size \in Nat, ~(count # 0 /\ size > (Word - 1) \div count)
  PROVE  count * size \in Nat /\ (count * size) % Word = count * size
<1>1. ASSUME NEW m \in Nat, NEW n \in Nat PROVE m * n \in Nat
  BY <1>1
<1>2. ASSUME NEW m \in Nat, NEW n \in Nat, NEW q \in Nat, n <= q PROVE m * n <= m * q
  BY <1>2
<1>3. ASSUME NEW m \in Nat, m < Word PROVE m % Word = m
  BY <1>3, ConstantsNat
<1>4. CASE count = 0
  BY <1>3, <1>4, ConstantsNat
<1>5. CASE count # 0
  <2> DEFINE q == (Word - 1) \div count
  <2>1. q \in Nat /\ q * count <= Word - 1
    BY <1>5, ConstantsNat, DivNat
  <2>2. size <= q
    BY <1>5, <2>1
  <2>3. count * size <= count * q
    BY <1>2, <2>1, <2>2, Zenon
  <2>4. count * q = q * count
    BY <2>1
  <2> QED BY <1>1, <1>3, <2>1, <2>3, <2>4, ConstantsNat
<1> QED BY <1>4, <1>5, Zenon

----------------------------------------------------------------------------
(* Lists in general. *)
LEMMA Neighbours ==
  ASSUME NEW bs, NEW top, List(bs, top), NEW a \in DOMAIN bs
  PROVE  /\ a \in Nat /\ bs[a] \in Block /\ End(bs, a) \in Nat /\ a < End(bs, a)
         /\ bs[a].next # Null =>
              /\ bs[a].next \in DOMAIN bs /\ bs[a].next = End(bs, a)
              /\ bs[bs[a].next].previous = a
         /\ bs[a].previous # Null =>
              /\ bs[a].previous \in DOMAIN bs /\ bs[bs[a].previous].next = a
              /\ bs[a].previous < a
<1>1. a \in Nat /\ bs[a] \in Block
  BY Zenon DEF List, Headers
<1>2. bs[a].capacity \in Nat
  BY <1>1, Zenon DEF Block
<1>3. ASSUME NEW b \in DOMAIN bs
      PROVE  b \in Nat /\ End(bs, b) \in Nat /\ b < End(bs, b)
  BY <1>3, ConstantsNat DEF List, Headers, Block, End
<1>4. bs[a].next # Null => /\ bs[a].next \in DOMAIN bs /\ bs[a].next = End(bs, a)
                           /\ bs[bs[a].next].previous = a
  BY Zenon DEF List, Linked
<1>5. ASSUME bs[a].previous # Null
      PROVE  /\ bs[a].previous \in DOMAIN bs /\ bs[bs[a].previous].next = a
             /\ bs[a].previous < a
  <2>1. bs[a].previous \in DOMAIN bs /\ bs[bs[a].previous].next = a
    BY <1>5, Zenon DEF List, Linked
  <2>2. a # Null
    BY <1>1 DEF Null
  <2>3. a = End(bs, bs[a].previous)
    BY <2>1, <2>2, Zenon DEF List, Linked
  <2> QED BY <1>3, <2>1, <2>3, Zenon
<1> QED BY <1>1, <1>3, <1>4, <1>5, Zenon

(* The two ways a header on the list is changed. *)
LEMMA ResizedHeader ==
  ASSUME NEW b \in Block, NEW c \in Nat, NEW n \in Nat \cup {Null}
  PROVE  /\ Resized(b, c, n).capacity = c /\ Resized(b, c, n).next = n
         /\ Resized(b, c, n).previous = b.previous /\ Resized(b, c, n).free = b.free
         /\ Resized(b, c, n).requested = b.requested /\ Resized(b, c, n).canary = b.canary
         /\ Resized(b, c, n).cookie = Cookie(Resized(b, c, n))
         /\ Resized(b, c, n) \in Block
<1> DEFINE r == Resized(b, c, n)
<1>1. r = [b EXCEPT !.capacity = c, !.next = n, !.cookie = <<c, b.requested>>]
  BY Zenon DEF Resized, Fresh, Block
<1> HIDE DEF r
<1>2. /\ r.capacity = c /\ r.next = n /\ r.previous = b.previous /\ r.free = b.free
      /\ r.requested = b.requested /\ r.canary = b.canary
      /\ r.cookie = <<c, b.requested>>
  BY <1>1, Zenon DEF Block
<1>3. r \in Block
  BY <1>1, Zenon DEF Block
<1>4. r.cookie = Cookie(r)
  BY <1>2, Zenon DEF Cookie
<1> QED BY <1>2, <1>3, <1>4, Zenon DEF r

LEMMA RelinkedHeader ==
  ASSUME NEW b \in Block, NEW p \in Nat \cup {Null}
  PROVE  /\ Relinked(b, p).capacity = b.capacity /\ Relinked(b, p).next = b.next
         /\ Relinked(b, p).previous = p /\ Relinked(b, p).free = b.free
         /\ Relinked(b, p).requested = b.requested /\ Relinked(b, p).canary = b.canary
         /\ Relinked(b, p).cookie = Cookie(Relinked(b, p))
         /\ Relinked(b, p) \in Block
<1> DEFINE r == Relinked(b, p)
<1>1. r = [b EXCEPT !.previous = p, !.cookie = <<b.capacity, b.requested>>]
  BY Zenon DEF Relinked, Fresh, Block
<1> HIDE DEF r
<1>2. /\ r.capacity = b.capacity /\ r.next = b.next /\ r.previous = p /\ r.free = b.free
      /\ r.requested = b.requested /\ r.canary = b.canary
      /\ r.cookie = <<b.capacity, b.requested>>
  BY <1>1, Zenon DEF Block
<1>3. r \in Block
  BY <1>1, Zenon DEF Block
<1>4. r.cookie = Cookie(r)
  BY <1>2, Zenon DEF Cookie
<1> QED BY <1>2, <1>3, <1>4, Zenon DEF r

(* The result of merge_with_next as a function. *)
LEMMA AbsorbFields ==
  ASSUME NEW bs, NEW top, List(bs, top), NEW a \in DOMAIN bs, bs[a].next # Null,
         NEW n, n = bs[a].next, NEW nn, nn = bs[n].next, NEW f, f = Absorb(bs, a)
  PROVE  /\ n \in DOMAIN bs /\ n = End(bs, a) /\ n > a
         /\ nn # Null => nn \in DOMAIN bs /\ nn = End(bs, n) /\ nn > n
         /\ f = [x \in DOMAIN f |-> f[x]]
         /\ DOMAIN f = DOMAIN bs \ {n}
         /\ f[a] = Resized(bs[a], bs[a].capacity + HeaderUnits + bs[n].capacity, nn)
         /\ nn # Null => f[nn] = Relinked(bs[nn], a)
         /\ \A x \in DOMAIN f : x # a /\ x # nn => f[x] = bs[x]
<1>1. n \in DOMAIN bs /\ n = End(bs, a) /\ n > a /\ n \in Nat
  BY Neighbours
<1>2. nn # Null => nn \in DOMAIN bs /\ nn = End(bs, n) /\ nn > n /\ nn # a /\ nn # n
  BY <1>1, Neighbours
<1> DEFINE g == Put(Drop(bs, n), a,
                  Resized(bs[a], bs[a].capacity + HeaderUnits + bs[n].capacity, nn))
<1>3. /\ DOMAIN g = DOMAIN bs \ {n}
      /\ g[a] = Resized(bs[a], bs[a].capacity + HeaderUnits + bs[n].capacity, nn)
      /\ \A x \in DOMAIN g : x # a => g[x] = bs[x]
      /\ g = [x \in DOMAIN g |-> g[x]]
  BY <1>1 DEF Put, Drop
<1> HIDE DEF g
<1>4. CASE nn = Null
  <2>1. f = g
    BY <1>4, Zenon DEF Absorb, g
  <2> QED BY <1>1, <1>3, <1>4, <2>1, Zenon
<1>5. CASE nn # Null
  <2>1. f = Put(g, nn, Relinked(bs[nn], a))
    BY <1>5, Zenon DEF Absorb, g
  <2>2. /\ DOMAIN f = DOMAIN g /\ f[nn] = Relinked(bs[nn], a)
        /\ \A x \in DOMAIN f : x # nn => f[x] = g[x]
        /\ f = [x \in DOMAIN f |-> f[x]]
    BY <1>2, <1>3, <1>5, <2>1 DEF Put
  <2> QED BY <1>1, <1>2, <1>3, <1>5, <2>2, Zenon
<1> QED BY <1>4, <1>5, Zenon

(* Two free blocks side by side. *)
FreePair(bs, x, y) ==
  x \in DOMAIN bs /\ y \in DOMAIN bs /\ bs[x].free /\ bs[y].free /\ End(bs, x) = y

LEMMA AbsorbKeeps ==
  ASSUME NEW bs, NEW top, List(bs, top), NEW a \in DOMAIN bs, bs[a].free, CanAbsorb(bs, a),
         NEW f, f = Absorb(bs, a)
  PROVE  /\ List(f, top) /\ SameUse(bs, f)
         /\ a \in DOMAIN f /\ f[a].free /\ f[a].previous = bs[a].previous
         /\ HasLast(bs) => HasLast(f)
         /\ 0 \in DOMAIN bs => 0 \in DOMAIN f
         /\ \A x, y : FreePair(f, x, y) =>
              FreePair(bs, IF x = a THEN bs[a].next ELSE x, y)
         /\ \A x \in DOMAIN f : x \in DOMAIN bs /\ f[x].free = bs[x].free
<1> DEFINE n == bs[a].next
           nn == bs[n].next
<1>0. n # Null /\ bs[n].free /\ n = bs[a].next /\ nn = bs[n].next
  BY Zenon DEF CanAbsorb
<1> HIDE DEF n, nn
<1>1. /\ n \in DOMAIN bs /\ n = End(bs, a) /\ n > a
      /\ nn # Null => nn \in DOMAIN bs /\ nn = End(bs, n) /\ nn > n
      /\ f = [x \in DOMAIN f |-> f[x]]
      /\ DOMAIN f = DOMAIN bs \ {n}
      /\ f[a] = Resized(bs[a], bs[a].capacity + HeaderUnits + bs[n].capacity, nn)
      /\ nn # Null => f[nn] = Relinked(bs[nn], a)
      /\ \A x \in DOMAIN f : x # a /\ x # nn => f[x] = bs[x]
  BY <1>0, AbsorbFields
<1>2. \A x \in DOMAIN bs : x \in Nat /\ bs[x] \in Block /\ End(bs, x) \in Nat /\ x < End(bs, x)
  BY Neighbours, Zenon
<1>3. a \in DOMAIN f /\ a \in Nat /\ n \in Nat /\ (nn # Null => nn \in DOMAIN f)
  BY <1>1, <1>2
<1>a. /\ f[a].capacity = bs[a].capacity + HeaderUnits + bs[n].capacity
      /\ f[a].next = nn /\ f[a].previous = bs[a].previous /\ f[a].free = bs[a].free
      /\ f[a].requested = bs[a].requested /\ f[a].canary = bs[a].canary
      /\ f[a].cookie = Cookie(f[a])
      /\ f[a] \in Block
  <2>1. bs[a] \in Block /\ bs[n] \in Block /\ nn \in Nat \cup {Null}
    BY <1>1, <1>2, Zenon DEF nn, Block
  <2>2. bs[a].capacity + HeaderUnits + bs[n].capacity \in Nat
    BY <2>1, ConstantsNat DEF Block
  <2> DEFINE c == bs[a].capacity + HeaderUnits + bs[n].capacity
  <2>3. c \in Nat /\ f[a] = Resized(bs[a], c, nn)
    BY <1>1, <2>2, Zenon
  <2> HIDE DEF c
  <2>4. /\ f[a].capacity = c /\ f[a].next = nn /\ f[a].previous = bs[a].previous
        /\ f[a].requested = bs[a].requested /\ f[a].canary = bs[a].canary
        /\ f[a].cookie = Cookie(f[a]) /\ f[a] \in Block
    BY <2>1, <2>3, ResizedHeader
  <2>5. f[a].free = bs[a].free
    BY <2>1, <2>3, Zenon DEF Resized, Fresh, Block
  <2> QED BY <2>4, <2>5, Zenon DEF c
<1>b. ASSUME nn # Null
      PROVE  /\ f[nn].capacity = bs[nn].capacity /\ f[nn].next = bs[nn].next
             /\ f[nn].previous = a /\ f[nn].free = bs[nn].free
             /\ f[nn].requested = bs[nn].requested /\ f[nn].canary = bs[nn].canary
             /\ f[nn].cookie = Cookie(f[nn])
             /\ f[nn] \in Block
  <2>1. bs[nn] \in Block
    BY <1>1, <1>2, <1>b, Zenon
  <2> QED BY <1>1, <1>3, <1>b, <2>1, RelinkedHeader
<1>c. \A x \in DOMAIN f : x \in DOMAIN bs /\ x # n
  BY <1>1, Zenon
<1>d. \A x \in DOMAIN f : f[x] \in Block /\ f[x].free = bs[x].free
                       /\ f[x].requested = bs[x].requested
                       /\ (x # a => f[x].capacity = bs[x].capacity /\ f[x].next = bs[x].next)
                       /\ (x # nn => f[x].previous = bs[x].previous)
                       /\ f[x].canary = bs[x].canary
  <2> TAKE x \in DOMAIN f
  <2>1. CASE x = a
    BY <1>1, <1>2, <1>3, <1>a, <2>1, Zenon
  <2>2. CASE x # a /\ x = nn
    <3>1. nn # Null
      BY <1>2, <1>c, <2>2 DEF Null
    <3> QED BY <1>b, <2>2, <3>1, Zenon
  <2>3. CASE x # a /\ x # nn
    BY <1>1, <1>2, <1>c, <2>3, Zenon
  <2> QED BY <2>1, <2>2, <2>3, Zenon
<1>e. /\ End(f, a) = End(bs, n)
      /\ \A x \in DOMAIN f : x # a => End(f, x) = End(bs, x)
  <2>1. bs[a].capacity \in Nat /\ bs[n].capacity \in Nat
    BY <1>1, <1>2, Zenon DEF Block
  <2> QED BY <1>1, <1>3, <1>a, <1>d, <2>1, ConstantsNat DEF End
<1>4. Headers(f)
  BY <1>c, <1>d, <1>2, Zenon DEF Headers
<1>5. Apart(f)
  <2> SUFFICES ASSUME NEW x \in DOMAIN f, NEW y \in DOMAIN f, x < y PROVE End(f, x) <= y
    BY Zenon DEF Apart
  <2>1. End(bs, x) <= y
    BY <1>c, Zenon DEF List, Apart
  <2>2. CASE x = a
    <3>1. n < y
      BY <1>1, <1>2, <1>3, <1>c, <2>1, <2>2
    <3> QED BY <1>1, <1>c, <1>e, <2>2, <3>1, Zenon DEF List, Apart
  <2> QED BY <1>e, <2>1, <2>2, Zenon
<1>6. Marked(f)
  <2> SUFFICES ASSUME NEW x \in DOMAIN f
               PROVE  /\ f[x].cookie = Cookie(f[x])
                      /\ ~f[x].free => f[x].canary = f[x].cookie /\ Need(f[x].requested) <= f[x].capacity
    BY Zenon DEF Marked
  <2>1. /\ bs[x].cookie = Cookie(bs[x])
        /\ ~bs[x].free => bs[x].canary = bs[x].cookie /\ Need(bs[x].requested) <= bs[x].capacity
    BY <1>c, Zenon DEF List, Marked
  <2>2. f[x].cookie = Cookie(f[x])
    <3>1. CASE x = a
      BY <1>a, <3>1, Zenon
    <3>2. CASE x # a /\ x = nn
      BY <1>2, <1>b, <1>c, <3>2 DEF Null
    <3>3. CASE x # a /\ x # nn
      BY <1>1, <2>1, <3>3, Zenon
    <3> QED BY <3>1, <3>2, <3>3, Zenon
  <2>3. CASE x = a
    BY <1>a, <2>2, <2>3, Zenon
  <2>4. CASE x # a
    BY <1>d, <2>1, <2>2, <2>4, Zenon DEF Cookie
  <2> QED BY <2>3, <2>4, Zenon
<1>7. Linked(f, top)
  <2> SUFFICES ASSUME NEW x \in DOMAIN f
               PROVE  /\ End(f, x) <= top
                      /\ f[x].next = Null <=> End(f, x) = top
                      /\ f[x].next # Null => /\ f[x].next = End(f, x) /\ f[x].next \in DOMAIN f
                                             /\ f[f[x].next].previous = x
                      /\ f[x].previous = Null <=> x = 0
                      /\ f[x].previous # Null => /\ f[x].previous \in DOMAIN f
                                                 /\ f[f[x].previous].next = x
    BY Zenon DEF Linked
  <2>1. \A y \in DOMAIN bs :
          /\ End(bs, y) <= top
          /\ bs[y].next = Null <=> End(bs, y) = top
          /\ bs[y].next # Null => /\ bs[y].next = End(bs, y) /\ bs[y].next \in DOMAIN bs
                                  /\ bs[bs[y].next].previous = y
          /\ bs[y].previous = Null <=> y = 0
          /\ bs[y].previous # Null => /\ bs[y].previous \in DOMAIN bs
                                      /\ bs[bs[y].previous].next = y
    BY Zenon DEF List, Linked
  <2>2. /\ End(f, x) <= top
        /\ f[x].next = Null <=> End(f, x) = top
    BY <1>1, <1>a, <1>c, <1>d, <1>e, <2>1 DEF nn
  <2>3. ASSUME f[x].next # Null
        PROVE  /\ f[x].next = End(f, x) /\ f[x].next \in DOMAIN f /\ f[f[x].next].previous = x
    <3>1. CASE x = a
      BY <1>1, <1>3, <1>a, <1>b, <1>e, <2>3, <3>1, Zenon
    <3>2. CASE x # a
      <4>1. bs[x].next = End(bs, x) /\ bs[x].next \in DOMAIN bs /\ bs[bs[x].next].previous = x
        BY <1>c, <1>d, <2>1, <2>3, <3>2
      <4>2. bs[n].previous = a /\ (nn # Null => bs[nn].previous = n)
        BY <1>0, <1>1, <2>1, Zenon DEF n, nn
      <4>3. bs[x].next # n /\ bs[x].next # nn
        BY <1>1, <1>c, <2>3, <1>d, <3>2, <4>1, <4>2
      <4> QED BY <1>1, <1>d, <1>e, <3>2, <4>1, <4>3
    <3> QED BY <3>1, <3>2, Zenon
  <2>4. f[x].previous = Null <=> x = 0
    BY <1>1, <1>2, <1>3, <1>b, <1>c, <1>d, <2>1 DEF Null
  <2>5. ASSUME f[x].previous # Null
        PROVE  f[x].previous \in DOMAIN f /\ f[f[x].previous].next = x
    <3>1. CASE x = nn
      BY <1>1, <1>2, <1>3, <1>a, <1>b, <1>c, <2>5, <3>1 DEF Null
    <3>2. CASE x # nn
      <4>1. bs[x].previous \in DOMAIN bs /\ bs[bs[x].previous].next = x
        BY <1>c, <1>d, <2>1, <2>5, <3>2
      <4>2. bs[x].previous # n /\ bs[x].previous # a
        BY <1>c, <3>2, <4>1, Zenon DEF n, nn
      <4> QED BY <1>1, <1>d, <3>2, <4>1, <4>2
    <3> QED BY <3>1, <3>2, Zenon
  <2> QED BY <2>2, <2>3, <2>4, <2>5, Zenon
<1>8. List(f, top)
  BY <1>1, <1>4, <1>5, <1>6, <1>7, Zenon DEF List
<1>9. SameUse(bs, f)
  BY <1>0, <1>1, <1>c, <1>d, Zenon DEF SameUse, InUse, n
<1>10. HasLast(bs) => HasLast(f)
  <2> SUFFICES ASSUME NEW z \in DOMAIN bs, bs[z].next = Null PROVE HasLast(f)
    BY Zenon DEF HasLast
  <2>1. CASE z = n
    BY <1>0, <1>3, <1>a, <2>1, Zenon DEF HasLast
  <2>2. CASE z # n
    <3>1. z \in DOMAIN f /\ z # a
      BY <1>0, <1>1, <2>2, Zenon
    <3> QED BY <1>d, <3>1, Zenon DEF HasLast
  <2> QED BY <2>1, <2>2, Zenon
<1>11. ASSUME NEW x, NEW y, FreePair(f, x, y)
       PROVE  FreePair(bs, IF x = a THEN n ELSE x, y)
  <2>1. CASE x = a
    BY <1>0, <1>1, <1>11, <1>c, <1>d, <1>e, <2>1, Zenon DEF FreePair
  <2>2. CASE x # a
    BY <1>11, <1>c, <1>d, <1>e, <2>2, Zenon DEF FreePair
  <2> QED BY <2>1, <2>2, Zenon
<1>12. 0 \in DOMAIN bs => 0 \in DOMAIN f
  BY <1>1, <1>2
<1> QED BY <1>3, <1>8, <1>9, <1>10, <1>11, <1>12, <1>a, <1>c, <1>d, Zenon DEF n

----------------------------------------------------------------------------
(* Changes that leave sizes and links alone: taking and releasing a block. *)
LEMMA SameShape ==
  ASSUME NEW bs, NEW top, List(bs, top), NEW h, DOMAIN h = DOMAIN bs,
         h = [x \in DOMAIN h |-> h[x]], Marked(h),
         \A x \in DOMAIN h : /\ h[x] \in Block /\ h[x].capacity = bs[x].capacity
                             /\ h[x].next = bs[x].next /\ h[x].previous = bs[x].previous
  PROVE  /\ List(h, top)
         /\ HasLast(bs) => HasLast(h)
         /\ \A x \in DOMAIN h : End(h, x) = End(bs, x)
<1>1. \A x \in DOMAIN h : End(h, x) = End(bs, x)
  BY Zenon DEF End
<1>2. Headers(h)
  BY Zenon DEF List, Headers
<1>3. Apart(h)
  BY <1>1, Zenon DEF List, Apart
<1>4. Linked(h, top)
  BY <1>1 DEF List, Linked
<1>5. HasLast(bs) => HasLast(h)
  BY Zenon DEF HasLast
<1> QED BY <1>1, <1>2, <1>3, <1>4, <1>5, Zenon DEF List

LEMMA FreeHeaderFields ==
  ASSUME NEW c \in Nat, NEW p \in Nat \cup {Null}, NEW n \in Nat \cup {Null}
  PROVE  /\ FreeHeader(c, p, n).capacity = c /\ FreeHeader(c, p, n).next = n
         /\ FreeHeader(c, p, n).previous = p /\ FreeHeader(c, p, n).free
         /\ FreeHeader(c, p, n).cookie = Cookie(FreeHeader(c, p, n))
         /\ FreeHeader(c, p, n) \in Block
<1>1. FreeHeader(c, p, n) \in Block
  BY Zenon DEF FreeHeader, Block
<1> QED BY <1>1, Zenon DEF FreeHeader, Cookie

LEMMA TakenKeeps ==
  ASSUME NEW bs, NEW top, List(bs, top), NEW a \in DOMAIN bs,
         NEW size \in Nat, Need(size) <= bs[a].capacity, NEW h, h = Taken(bs, a, size)
  PROVE  /\ List(h, top) /\ DOMAIN h = DOMAIN bs
         /\ HasLast(bs) => HasLast(h)
         /\ h[a].requested = size /\ ~h[a].free
         /\ \A x \in DOMAIN h : x # a => h[x] = bs[x]
         /\ \A x \in DOMAIN h : End(h, x) = End(bs, x)
<1> DEFINE r == [bs[a] EXCEPT !.requested = size, !.free = FALSE,
                              !.cookie = <<bs[a].capacity, size>>,
                              !.canary = <<bs[a].capacity, size>>]
<1>1. bs[a] \in Block
  BY Neighbours, Zenon
<1>2. /\ r.requested = size /\ r.capacity = bs[a].capacity /\ r.next = bs[a].next
      /\ r.previous = bs[a].previous /\ r.canary = r.cookie
      /\ r.cookie = <<r.capacity, r.requested>>
  BY <1>1, Zenon DEF Block
<1>3. r \in Block /\ r.free = FALSE
  BY <1>1, Zenon DEF Block
<1>4. h = [x \in DOMAIN bs |-> IF x = a THEN r ELSE bs[x]]
  BY Zenon DEF Taken, Put
<1> HIDE DEF r
<1>5. /\ DOMAIN h = DOMAIN bs /\ h[a] = r /\ h = [x \in DOMAIN h |-> h[x]]
      /\ \A x \in DOMAIN h : x # a => h[x] = bs[x]
  BY <1>4, Zenon
<1>6. Marked(h)
  <2> SUFFICES ASSUME NEW x \in DOMAIN h
               PROVE  /\ h[x].cookie = Cookie(h[x])
                      /\ ~h[x].free => /\ h[x].canary = h[x].cookie
                                       /\ Need(h[x].requested) <= h[x].capacity
    BY Zenon DEF Marked
  <2>1. CASE x = a
    BY <1>2, <1>5, <2>1, Zenon DEF Cookie
  <2>2. CASE x # a
    BY <1>5, <2>2, Zenon DEF List, Marked
  <2> QED BY <2>1, <2>2, Zenon
<1>7. \A x \in DOMAIN h : /\ h[x] \in Block /\ h[x].capacity = bs[x].capacity
                          /\ h[x].next = bs[x].next /\ h[x].previous = bs[x].previous
  <2> TAKE x \in DOMAIN h
  <2>1. CASE x = a
    BY <1>2, <1>3, <1>5, <2>1, Zenon
  <2>2. CASE x # a
    BY <1>5, <2>2, Neighbours, Zenon
  <2> QED BY <2>1, <2>2, Zenon
<1>8. /\ List(h, top) /\ (HasLast(bs) => HasLast(h))
      /\ \A x \in DOMAIN h : End(h, x) = End(bs, x)
  BY <1>5, <1>6, <1>7, SameShape
<1> QED BY <1>2, <1>3, <1>5, <1>8, Zenon

LEMMA ReleasedKeeps ==
  ASSUME NEW bs, NEW top, List(bs, top), NEW a \in DOMAIN bs, NEW h, h = Released(bs, a)
  PROVE  /\ List(h, top) /\ DOMAIN h = DOMAIN bs
         /\ HasLast(bs) => HasLast(h)
         /\ h[a].free /\ h[a].previous = bs[a].previous
         /\ \A x \in DOMAIN h : x # a => h[x] = bs[x]
         /\ \A x \in DOMAIN h : End(h, x) = End(bs, x)
<1> DEFINE c == bs[a].capacity
           p == bs[a].previous
           n == bs[a].next
           r == FreeHeader(c, p, n)
<1>1. c \in Nat /\ p \in Nat \cup {Null} /\ n \in Nat \cup {Null}
  BY Neighbours, Zenon DEF Block
<1>2. /\ r.capacity = bs[a].capacity /\ r.next = bs[a].next /\ r.previous = bs[a].previous
      /\ r.free /\ r.cookie = Cookie(r) /\ r \in Block
  <2>1. /\ r.capacity = c /\ r.next = n /\ r.previous = p
        /\ r.free /\ r.cookie = Cookie(r) /\ r \in Block
    <3> HIDE DEF c, p, n
    <3> QED BY <1>1, FreeHeaderFields
  <2> QED BY <2>1, Zenon
<1>3. h = [x \in DOMAIN bs |-> IF x = a THEN r ELSE bs[x]]
  BY Zenon DEF Released, Put
<1> HIDE DEF r
<1>4. /\ DOMAIN h = DOMAIN bs /\ h[a] = r /\ h = [x \in DOMAIN h |-> h[x]]
      /\ \A x \in DOMAIN h : x # a => h[x] = bs[x]
  BY <1>3, Zenon
<1>5. Marked(h)
  <2> SUFFICES ASSUME NEW x \in DOMAIN h
               PROVE  /\ h[x].cookie = Cookie(h[x])
                      /\ ~h[x].free => /\ h[x].canary = h[x].cookie
                                       /\ Need(h[x].requested) <= h[x].capacity
    BY Zenon DEF Marked
  <2>1. CASE x = a
    BY <1>2, <1>4, <2>1, Zenon
  <2>2. CASE x # a
    BY <1>4, <2>2, Zenon DEF List, Marked
  <2> QED BY <2>1, <2>2, Zenon
<1>6. \A x \in DOMAIN h : /\ h[x] \in Block /\ h[x].capacity = bs[x].capacity
                          /\ h[x].next = bs[x].next /\ h[x].previous = bs[x].previous
  <2> TAKE x \in DOMAIN h
  <2>1. CASE x = a
    BY <1>2, <1>4, <2>1, Zenon
  <2>2. CASE x # a
    BY <1>4, <2>2, Neighbours, Zenon
  <2> QED BY <2>1, <2>2, Zenon
<1>7. /\ List(h, top) /\ (HasLast(bs) => HasLast(h))
      /\ \A x \in DOMAIN h : End(h, x) = End(bs, x)
  BY <1>4, <1>5, <1>6, SameShape
<1> QED BY <1>2, <1>4, <1>7, Zenon

----------------------------------------------------------------------------
(* split_block: f is bs with block a cut at rest. *)
SplitShape(bs, a, c, rest, n, f) ==
  /\ rest \in Nat /\ rest > a /\ rest < End(bs, a) /\ rest \notin DOMAIN bs
  /\ n # Null => n \in DOMAIN bs /\ n = End(bs, a) /\ n > rest
  /\ f = [x \in DOMAIN f |-> f[x]]
  /\ DOMAIN f = DOMAIN bs \cup {rest}
  /\ f[a] = Resized(bs[a], c, rest)
  /\ f[rest] = FreeHeader(bs[a].capacity - c - HeaderUnits, a, n)
  /\ n # Null => f[n] = Relinked(bs[n], rest)
  /\ \A x \in DOMAIN f : x # a /\ x # rest /\ x # n => f[x] = bs[x]

LEMMA SplitFields ==
  ASSUME NEW bs, NEW top, List(bs, top), NEW a \in DOMAIN bs, NEW c \in Nat,
         bs[a].capacity >= c + HeaderUnits + 1,
         NEW rest, rest = a + HeaderUnits + c, NEW n, n = bs[a].next,
         NEW f, f = Split(bs, a, c)
  PROVE  SplitShape(bs, a, c, rest, n, f)
<1>1. a \in Nat /\ bs[a].capacity \in Nat
  BY Neighbours, Zenon DEF Block
<1>2. rest \in Nat /\ rest > a /\ rest < End(bs, a)
  BY <1>1, ConstantsNat DEF End
<1>3. rest \notin DOMAIN bs
  <2> SUFFICES ASSUME rest \in DOMAIN bs PROVE FALSE
    BY Zenon
  <2>1. End(bs, a) <= rest
    BY <1>2, Zenon DEF List, Apart
  <2> QED BY <1>2, <2>1, Neighbours
<1>4. n # Null => n \in DOMAIN bs /\ n = End(bs, a) /\ n > rest /\ n # a /\ n # rest
  BY <1>2, <1>3, Neighbours
<1> DEFINE g1 == Put(bs, a, Resized(bs[a], c, rest))
           g  == Put(g1, rest, FreeHeader(bs[a].capacity - c - HeaderUnits, a, n))
<1>5. /\ DOMAIN g1 = DOMAIN bs /\ g1[a] = Resized(bs[a], c, rest)
      /\ \A x \in DOMAIN g1 : x # a => g1[x] = bs[x]
  BY Zenon DEF Put
<1>6. /\ f = IF n = Null THEN g ELSE Put(g, n, Relinked(bs[n], rest))
  <2>1. ~(bs[a].capacity < c + HeaderUnits + 1)
    BY <1>1, ConstantsNat
  <2> QED BY <2>1, Zenon DEF Split
<1> HIDE DEF g1
<1>7. /\ DOMAIN g = DOMAIN bs \cup {rest} /\ g = [x \in DOMAIN g |-> g[x]]
      /\ g[a] = Resized(bs[a], c, rest)
      /\ g[rest] = FreeHeader(bs[a].capacity - c - HeaderUnits, a, n)
      /\ \A x \in DOMAIN g : x # a /\ x # rest => g[x] = bs[x]
  BY <1>2, <1>3, <1>5, Zenon DEF Put
<1> HIDE DEF g
<1> USE DEF SplitShape
<1>8. CASE n = Null
  BY <1>2, <1>3, <1>6, <1>7, <1>8, Zenon
<1>9. CASE n # Null
  <2>1. /\ DOMAIN f = DOMAIN g /\ f[n] = Relinked(bs[n], rest)
        /\ \A x \in DOMAIN f : x # n => f[x] = g[x]
        /\ f = [x \in DOMAIN f |-> f[x]]
    BY <1>4, <1>6, <1>7, <1>9, Zenon DEF Put
  <2> QED BY <1>2, <1>3, <1>4, <1>7, <1>9, <2>1, Zenon
<1> QED BY <1>8, <1>9, Zenon

LEMMA SplitKeeps ==
  ASSUME NEW bs, NEW top, List(bs, top), NEW a \in DOMAIN bs, bs[a].free, NEW c \in Nat,
         bs[a].capacity >= c + HeaderUnits + 1, NEW f, f = Split(bs, a, c)
  PROVE  /\ List(f, top) /\ SameUse(bs, f)
         /\ a \in DOMAIN f /\ f[a].capacity = c
         /\ HasLast(bs) => HasLast(f)
         /\ 0 \in DOMAIN bs => 0 \in DOMAIN f
         /\ \A x, y : FreePair(f, x, y) /\ x # a => \E z : FreePair(bs, z, y)
         /\ \A x \in InUse(bs) : f[x].free = bs[x].free
<1> DEFINE n == bs[a].next
           rest == a + HeaderUnits + c
<1>0. n = bs[a].next /\ rest = a + HeaderUnits + c
  BY Zenon
<1> HIDE DEF n, rest
<1>1. /\ rest \in Nat /\ rest > a /\ rest < End(bs, a) /\ rest \notin DOMAIN bs
      /\ n # Null => n \in DOMAIN bs /\ n = End(bs, a) /\ n > rest
      /\ f = [x \in DOMAIN f |-> f[x]]
      /\ DOMAIN f = DOMAIN bs \cup {rest}
      /\ f[a] = Resized(bs[a], c, rest)
      /\ f[rest] = FreeHeader(bs[a].capacity - c - HeaderUnits, a, n)
      /\ n # Null => f[n] = Relinked(bs[n], rest)
      /\ \A x \in DOMAIN f : x # a /\ x # rest /\ x # n => f[x] = bs[x]
  <2>1. SplitShape(bs, a, c, rest, n, f)
    BY <1>0, SplitFields, Zenon
  <2> QED BY <2>1, Zenon DEF SplitShape
<1>2. \A x \in DOMAIN bs : x \in Nat /\ bs[x] \in Block /\ End(bs, x) \in Nat /\ x < End(bs, x)
  BY Neighbours, Zenon
<1>3. a \in Nat /\ a \in DOMAIN f /\ rest \in DOMAIN f /\ rest # Null /\ a # Null
  BY <1>1, <1>2 DEF Null
<1>a. /\ f[a].capacity = c /\ f[a].next = rest /\ f[a].previous = bs[a].previous
      /\ f[a].requested = bs[a].requested /\ f[a].canary = bs[a].canary
      /\ f[a].cookie = Cookie(f[a]) /\ f[a] \in Block
      /\ f[a].free = bs[a].free
  <2>1. bs[a] \in Block
    BY <1>2, Zenon
  <2>2. /\ f[a].capacity = c /\ f[a].next = rest /\ f[a].previous = bs[a].previous
        /\ f[a].requested = bs[a].requested /\ f[a].canary = bs[a].canary
        /\ f[a].cookie = Cookie(f[a]) /\ f[a] \in Block
    BY <1>1, <2>1, ResizedHeader
  <2>3. f[a].free = bs[a].free
    BY <1>1, <2>1, Zenon DEF Resized, Fresh, Block
  <2> QED BY <2>2, <2>3, Zenon
<1>r. /\ f[rest].capacity = bs[a].capacity - c - HeaderUnits /\ f[rest].next = n
      /\ f[rest].previous = a /\ f[rest].free
      /\ f[rest].cookie = Cookie(f[rest]) /\ f[rest] \in Block
  <2>1. bs[a].capacity \in Nat /\ n \in Nat \cup {Null}
    BY <1>2, Zenon DEF n, Block
  <2>2. bs[a].capacity - c - HeaderUnits \in Nat
    BY <2>1, ConstantsNat
  <2> DEFINE k == bs[a].capacity - c - HeaderUnits
  <2>3. k \in Nat /\ f[rest] = FreeHeader(k, a, n)
    BY <1>1, <2>2, Zenon
  <2> HIDE DEF k
  <2>4. /\ f[rest].capacity = k /\ f[rest].next = n /\ f[rest].previous = a /\ f[rest].free
        /\ f[rest].cookie = Cookie(f[rest]) /\ f[rest] \in Block
    BY <1>3, <2>1, <2>3, FreeHeaderFields, SMTT(30)
  <2> QED BY <2>4, Zenon DEF k
<1>n. ASSUME n # Null
      PROVE  /\ f[n].capacity = bs[n].capacity /\ f[n].next = bs[n].next
             /\ f[n].previous = rest /\ f[n].free = bs[n].free
             /\ f[n].requested = bs[n].requested /\ f[n].canary = bs[n].canary
             /\ f[n].cookie = Cookie(f[n]) /\ f[n] \in Block
  <2>1. bs[n] \in Block
    BY <1>1, <1>2, <1>n, Zenon
  <2> QED BY <1>1, <1>n, <2>1, RelinkedHeader
<1>c. \A x \in DOMAIN f : x # rest => x \in DOMAIN bs /\ x # Null
  BY <1>1, <1>2 DEF Null
<1>d. \A x \in DOMAIN f : x # rest =>
        /\ f[x] \in Block /\ f[x].free = bs[x].free /\ f[x].requested = bs[x].requested
        /\ (x # a => f[x].capacity = bs[x].capacity /\ f[x].next = bs[x].next)
        /\ (x # n => f[x].previous = bs[x].previous)
        /\ f[x].canary = bs[x].canary
  <2> SUFFICES ASSUME NEW x \in DOMAIN f, x # rest
               PROVE  /\ f[x] \in Block /\ f[x].free = bs[x].free
                      /\ f[x].requested = bs[x].requested
                      /\ (x # a => f[x].capacity = bs[x].capacity /\ f[x].next = bs[x].next)
                      /\ (x # n => f[x].previous = bs[x].previous)
                      /\ f[x].canary = bs[x].canary
    BY Zenon
  <2>1. CASE x = a
    BY <1>a, <2>1, Zenon
  <2>2. CASE x # a /\ x = n
    <3>1. n # Null
      BY <1>c, <2>2, Zenon
    <3> QED BY <1>n, <2>2, <3>1, Zenon
  <2>3. CASE x # a /\ x # n
    BY <1>1, <1>2, <1>c, <2>3, Zenon
  <2> QED BY <2>1, <2>2, <2>3, Zenon
<1>e. /\ End(f, a) = rest /\ End(f, rest) = End(bs, a)
      /\ \A x \in DOMAIN f : x # a /\ x # rest => End(f, x) = End(bs, x)
  <2>1. bs[a].capacity \in Nat
    BY <1>2, Zenon DEF Block
  <2>2. End(f, a) = rest /\ End(f, rest) = End(bs, a)
    BY <1>0, <1>3, <1>a, <1>r, <2>1, ConstantsNat DEF End
  <2> QED BY <1>d, <2>2, Zenon DEF End
<1>4. Headers(f)
  BY <1>1, <1>2, <1>c, <1>d, <1>r, Zenon DEF Headers
<1>5. Apart(f)
  <2> SUFFICES ASSUME NEW x \in DOMAIN f, NEW y \in DOMAIN f, x < y PROVE End(f, x) <= y
    BY Zenon DEF Apart
  <2>0. \A u, v \in DOMAIN bs : u < v => End(bs, u) <= v
    BY Zenon DEF List, Apart
  <2>1. CASE x = a /\ y = rest
    BY <1>1, <1>e, <2>1
  <2>2. CASE x = a /\ y # rest
    BY <1>1, <1>2, <1>c, <1>e, <2>0, <2>2
  <2>3. CASE x = rest
    BY <1>1, <1>2, <1>3, <1>c, <1>e, <2>0, <2>3
  <2>4. CASE x # rest /\ x # a /\ y = rest
    <3>1. x < a
      <4> SUFFICES ASSUME a < x PROVE FALSE
        BY <1>2, <1>c, <2>4
      <4>1. End(bs, a) <= x
        BY <1>c, <2>0, <2>4, Zenon
      <4> QED BY <1>1, <1>2, <1>c, <2>4, <4>1
    <3>2. End(bs, x) <= a
      BY <1>c, <2>0, <2>4, <3>1, Zenon
    <3> QED BY <1>1, <1>2, <1>c, <1>e, <2>4, <3>2
  <2>5. CASE x # rest /\ x # a /\ y # rest
    BY <1>c, <1>e, <2>0, <2>5, Zenon
  <2> QED BY <2>1, <2>2, <2>3, <2>4, <2>5, Zenon
<1>6. Marked(f)
  <2> SUFFICES ASSUME NEW x \in DOMAIN f
               PROVE  /\ f[x].cookie = Cookie(f[x])
                      /\ ~f[x].free => /\ f[x].canary = f[x].cookie
                                       /\ Need(f[x].requested) <= f[x].capacity
    BY Zenon DEF Marked
  <2>1. CASE x = rest
    BY <1>r, <2>1, Zenon
  <2>2. CASE x = a
    BY <1>a, <2>2, Zenon
  <2>3. CASE x # rest /\ x # a
    <3>1. /\ bs[x].cookie = Cookie(bs[x])
          /\ ~bs[x].free => bs[x].canary = bs[x].cookie /\ Need(bs[x].requested) <= bs[x].capacity
      BY <1>c, <2>3, Zenon DEF List, Marked
    <3>2. f[x].cookie = Cookie(f[x])
      BY <1>1, <1>c, <1>n, <2>3, <3>1, Zenon
    <3> QED BY <1>d, <2>3, <3>1, <3>2, Zenon DEF Cookie
  <2> QED BY <2>1, <2>2, <2>3, Zenon
<1>7. Linked(f, top)
  <2> SUFFICES ASSUME NEW x \in DOMAIN f
               PROVE  /\ End(f, x) <= top
                      /\ f[x].next = Null <=> End(f, x) = top
                      /\ f[x].next # Null => /\ f[x].next = End(f, x) /\ f[x].next \in DOMAIN f
                                             /\ f[f[x].next].previous = x
                      /\ f[x].previous = Null <=> x = 0
                      /\ f[x].previous # Null => /\ f[x].previous \in DOMAIN f
                                                 /\ f[f[x].previous].next = x
    BY Zenon DEF Linked
  <2>1. \A y \in DOMAIN bs :
          /\ End(bs, y) <= top
          /\ bs[y].next = Null <=> End(bs, y) = top
          /\ bs[y].next # Null => /\ bs[y].next = End(bs, y) /\ bs[y].next \in DOMAIN bs
                                  /\ bs[bs[y].next].previous = y
          /\ bs[y].previous = Null <=> y = 0
          /\ bs[y].previous # Null => /\ bs[y].previous \in DOMAIN bs
                                      /\ bs[bs[y].previous].next = y
    BY Zenon DEF List, Linked
  <2>2. top \in Nat
    BY Zenon DEF List
  <2>3. CASE x = a
    <3>1. End(f, x) <= top /\ End(f, x) # top
      BY <1>1, <1>2, <1>e, <2>1, <2>2, <2>3
    <3>2. a # n /\ bs[a].previous # a
      BY <1>1, <1>2, <1>3, <2>1
    <3> QED BY <1>0, <1>1, <1>3, <1>a, <1>r, <1>d, <1>e, <1>c, <2>1, <2>3, <3>1, <3>2, SMTT(30)
  <2>4. CASE x = rest
    <3>1. rest # 0
      BY <1>1, <1>3
    <3> QED BY <1>0, <1>1, <1>3, <1>a, <1>r, <1>n, <1>e, <2>1, <2>4, <3>1, SMTT(30)
  <2>5. CASE x # a /\ x # rest
    <3>1. x \in DOMAIN bs /\ End(f, x) = End(bs, x) /\ f[x].next = bs[x].next
      BY <1>c, <1>d, <1>e, <2>5, Zenon
    <3>2. ASSUME bs[x].next # Null
          PROVE  f[bs[x].next].previous = x /\ bs[x].next \in DOMAIN f
      <4>1. bs[x].next # rest /\ bs[x].next # n
        BY <1>0, <1>1, <2>1, <2>5, <3>1, <3>2
      <4> QED BY <1>1, <1>d, <2>1, <3>1, <3>2, <4>1
    <3>3. /\ f[x].previous = Null <=> x = 0
          /\ f[x].previous # Null => f[x].previous \in DOMAIN f /\ f[f[x].previous].next = x
      <4>1. CASE x = n
        <5>1. x # Null /\ x # 0
          BY <1>1, <1>3, <1>c, <2>5, <4>1
        <5> QED BY <1>3, <1>n, <1>r, <4>1, <5>1, Zenon
      <4>2. CASE x # n
        <5>1. f[x].previous = bs[x].previous
          BY <1>d, <2>5, <4>2, Zenon
        <5>2. bs[x].previous # a
          BY <1>0, <1>3, <2>1, <3>1, <4>2
        <5> QED BY <1>1, <1>d, <2>1, <3>1, <5>1, <5>2
      <4> QED BY <4>1, <4>2, Zenon
    <3> QED BY <2>1, <3>1, <3>2, <3>3
  <2> QED BY <2>3, <2>4, <2>5, Zenon
<1>8. List(f, top)
  BY <1>1, <1>4, <1>5, <1>6, <1>7, Zenon DEF List
<1>9. SameUse(bs, f)
  BY <1>1, <1>c, <1>d, <1>r DEF SameUse, InUse
<1>10. HasLast(bs) => HasLast(f)
  <2> SUFFICES ASSUME NEW z \in DOMAIN bs, bs[z].next = Null PROVE HasLast(f)
    BY Zenon DEF HasLast
  <2>1. CASE z = a
    BY <1>0, <1>3, <1>r, <2>1, Zenon DEF HasLast
  <2>2. CASE z # a
    BY <1>1, <1>d, <2>2, Zenon DEF HasLast
  <2> QED BY <2>1, <2>2, Zenon
<1>11. ASSUME NEW x, NEW y, FreePair(f, x, y), x # a
       PROVE  \E z : FreePair(bs, z, y)
  <2>1. x \in DOMAIN f /\ y \in DOMAIN f /\ f[x].free /\ f[y].free /\ End(f, x) = y
    BY <1>11, Zenon DEF FreePair
  <2>2. y # rest
    <3> SUFFICES ASSUME y = rest PROVE FALSE
      BY Zenon
    <3>1. x # rest /\ x \in DOMAIN bs /\ End(bs, x) = rest
      BY <1>1, <1>2, <1>c, <1>e, <1>11, <2>1
    <3>2. bs[x].next = rest \/ End(bs, x) = top
      BY <3>1, Zenon DEF List, Linked
    <3>3. End(bs, x) # top
      BY <1>1, <1>2, <3>1 DEF List, Linked
    <3>4. bs[x].next # Null => bs[x].next \in DOMAIN bs
      BY <3>1, Zenon DEF List, Linked
    <3> QED BY <1>1, <1>3, <3>2, <3>3, <3>4, Zenon
  <2>3. y \in DOMAIN bs /\ bs[y].free
    BY <1>c, <1>d, <2>1, <2>2, Zenon
  <2>4. CASE x = rest
    <3>1. FreePair(bs, a, y)
      BY <1>e, <2>1, <2>3, <2>4, Zenon DEF FreePair
    <3> QED BY <3>1, Zenon
  <2>5. CASE x # rest
    <3>1. FreePair(bs, x, y)
      BY <1>11, <1>c, <1>d, <1>e, <2>1, <2>3, <2>5, Zenon DEF FreePair
    <3> QED BY <3>1, Zenon
  <2> QED BY <2>4, <2>5, Zenon
<1>12. 0 \in DOMAIN bs => 0 \in DOMAIN f
  BY <1>1, Zenon
<1>13. \A x \in InUse(bs) : f[x].free = bs[x].free
  BY <1>1, <1>d, Zenon DEF InUse
<1> QED BY <1>3, <1>8, <1>9, <1>10, <1>11, <1>12, <1>13, <1>a, Zenon

----------------------------------------------------------------------------
(* expand_heap: the last block grows, or a new one follows it. *)
LEMMA LastIs ==
  ASSUME NEW bs, NEW top, List(bs, top), HasLast(bs), NEW z, z = Last(bs)
  PROVE  /\ z \in DOMAIN bs /\ bs[z].next = Null /\ End(bs, z) = top
         /\ \A x \in DOMAIN bs : x \in Nat /\ x < top /\ (x # z => x < z /\ bs[x].next # Null)
<1>1. z \in DOMAIN bs /\ bs[z].next = Null
  BY Zenon DEF HasLast, Last
<1>2. End(bs, z) = top
  BY <1>1, Zenon DEF List, Linked
<1>3. \A x \in DOMAIN bs : x \in Nat /\ End(bs, x) \in Nat /\ x < End(bs, x) /\ End(bs, x) <= top
  BY Neighbours, Zenon DEF List, Linked
<1>4. ASSUME NEW x \in DOMAIN bs, x # z PROVE x < z /\ bs[x].next # Null
  <2>1. x < z
    <3> SUFFICES ASSUME z < x PROVE FALSE
      BY <1>1, <1>3, <1>4
    <3>1. End(bs, z) <= x
      BY <1>1, Zenon DEF List, Apart
    <3>2. top \in Nat
      BY Zenon DEF List
    <3> QED BY <1>2, <1>3, <3>1, <3>2
  <2>2. End(bs, x) <= z
    BY <1>1, <2>1, Zenon DEF List, Apart
  <2>3. End(bs, x) # top
    BY <1>1, <1>2, <1>3, <2>2
  <2> QED BY <2>1, <2>3, Zenon DEF List, Linked
<1>5. \A x \in DOMAIN bs : x < top
  BY <1>3 DEF List
<1> QED BY <1>1, <1>2, <1>3, <1>4, <1>5, Zenon

LEMMA AppendFirst ==
  ASSUME NEW bs, DOMAIN bs = {}, NEW added \in Nat, added > HeaderUnits,
         NEW f, f = Appended(bs, 0, added)
  PROVE  List(f, added) /\ SameUse(bs, f) /\ HasLast(f) /\ 0 \in DOMAIN f /\ Merged(f)
<1> DEFINE k == added - HeaderUnits
           r == FreeHeader(k, Null, Null)
<1>1. k \in Nat /\ k + HeaderUnits = added
  BY ConstantsNat
<1>2. f = [x \in {0} |-> r]
  BY Zenon DEF Appended, Put
<1> HIDE DEF k
<1>3. /\ r.capacity = k /\ r.next = Null /\ r.previous = Null /\ r.free
      /\ r.cookie = Cookie(r) /\ r \in Block
  <2>1. Null \in Nat \cup {Null}
    BY Zenon
  <2>2. ASSUME NEW n \in Nat \cup {Null}, NEW h, h = FreeHeader(k, n, n)
        PROVE  /\ h.capacity = k /\ h.next = n /\ h.previous = n /\ h.free
               /\ h.cookie = Cookie(h) /\ h \in Block
    BY <1>1, <2>2, FreeHeaderFields
  <2> QED BY <2>1, <2>2, Zenon
<1> HIDE DEF r
<1>4. DOMAIN f = {0} /\ f[0] = r /\ f = [x \in DOMAIN f |-> f[x]]
  BY <1>2, Zenon
<1>5. End(f, 0) = added
  BY <1>1, <1>3, <1>4, ConstantsNat DEF End
<1>6. Headers(f) /\ Apart(f) /\ Marked(f)
  BY <1>3, <1>4 DEF Headers, Apart, Marked
<1>7. Linked(f, added)
  BY <1>3, <1>4, <1>5 DEF Linked, Null
<1>8. Merged(f)
  BY <1>4, <1>5, ConstantsNat DEF Merged
<1>9. SameUse(bs, f) /\ HasLast(f)
  BY <1>3, <1>4, Zenon DEF SameUse, InUse, HasLast
<1> QED BY <1>4, <1>6, <1>7, <1>8, <1>9, Zenon DEF List

LEMMA AppendGrows ==
  ASSUME NEW bs, NEW top, List(bs, top), HasLast(bs), Merged(bs),
         NEW added \in Nat, added > HeaderUnits, bs[Last(bs)].free,
         NEW f, f = Appended(bs, top, added)
  PROVE  /\ List(f, top + added) /\ SameUse(bs, f) /\ HasLast(f) /\ Merged(f)
         /\ DOMAIN f = DOMAIN bs
<1> DEFINE z == Last(bs)
<1>1. /\ z \in DOMAIN bs /\ bs[z].next = Null /\ End(bs, z) = top
      /\ \A x \in DOMAIN bs : x \in Nat /\ x < top /\ (x # z => x < z /\ bs[x].next # Null)
  BY LastIs, Zenon
<1>2. bs[z] \in Block /\ bs[z].capacity \in Nat /\ top \in Nat
  BY <1>1, Neighbours, Zenon DEF Block, List
<1> DEFINE k == bs[z].capacity + added
           r == Resized(bs[z], k, Null)
<1>3. k \in Nat
  BY <1>2
<1>4. f = [x \in DOMAIN bs |-> IF x = z THEN r ELSE bs[x]]
  BY <1>1, Zenon DEF Appended, Put
<1>5. r.free = bs[z].free
  BY <1>2, Zenon DEF Resized, Fresh, Block
<1>6. k = bs[z].capacity + added
  BY Zenon
<1>u. bs[z].free
  BY Zenon
<1> HIDE DEF k, z
<1>7. /\ r.capacity = k /\ r.next = Null /\ r.previous = bs[z].previous
      /\ r.requested = bs[z].requested /\ r.cookie = Cookie(r) /\ r \in Block
  <2>1. Null \in Nat \cup {Null}
    BY Zenon
  <2>2. ASSUME NEW b \in Block, NEW n \in Nat \cup {Null}, NEW h, h = Resized(b, k, n)
        PROVE  /\ h.capacity = k /\ h.next = n /\ h.previous = b.previous
               /\ h.requested = b.requested /\ h.cookie = Cookie(h) /\ h \in Block
    BY <1>3, <2>2, ResizedHeader, ZenonT(30)
  <2> QED BY <1>2, <2>1, <2>2, Zenon
<1> HIDE DEF r
<1>8. /\ DOMAIN f = DOMAIN bs /\ f[z] = r /\ f = [x \in DOMAIN f |-> f[x]]
      /\ \A x \in DOMAIN f : x # z => f[x] = bs[x]
  BY <1>1, <1>4, Zenon
<1>9. /\ End(f, z) = top + added
      /\ \A x \in DOMAIN f : x # z => End(f, x) = End(bs, x)
  BY <1>1, <1>2, <1>6, <1>7, <1>8, ConstantsNat DEF End
<1>10. Headers(f)
  BY <1>1, <1>7, <1>8, Neighbours DEF Headers
<1>11. Apart(f)
  <2> SUFFICES ASSUME NEW x \in DOMAIN f, NEW y \in DOMAIN f, x < y PROVE End(f, x) <= y
    BY Zenon DEF Apart
  <2>1. x # z
    BY <1>1, <1>8
  <2> QED BY <1>8, <1>9, <2>1, Zenon DEF List, Apart
<1>12. Marked(f)
  <2> SUFFICES ASSUME NEW x \in DOMAIN f
               PROVE  /\ f[x].cookie = Cookie(f[x])
                      /\ ~f[x].free => /\ f[x].canary = f[x].cookie
                                       /\ Need(f[x].requested) <= f[x].capacity
    BY Zenon DEF Marked
  <2>1. CASE x = z
    BY <1>5, <1>7, <1>8, <1>u, <2>1, Zenon
  <2>2. CASE x # z
    BY <1>8, <2>2, Zenon DEF List, Marked
  <2> QED BY <2>1, <2>2, Zenon
<1>13. Linked(f, top + added)
  <2> SUFFICES ASSUME NEW x \in DOMAIN f
               PROVE  /\ End(f, x) <= top + added
                      /\ f[x].next = Null <=> End(f, x) = top + added
                      /\ f[x].next # Null => /\ f[x].next = End(f, x) /\ f[x].next \in DOMAIN f
                                             /\ f[f[x].next].previous = x
                      /\ f[x].previous = Null <=> x = 0
                      /\ f[x].previous # Null => /\ f[x].previous \in DOMAIN f
                                                 /\ f[f[x].previous].next = x
    BY Zenon DEF Linked
  <2>1. \A y \in DOMAIN bs :
          /\ End(bs, y) <= top
          /\ bs[y].next = Null <=> End(bs, y) = top
          /\ bs[y].next # Null => /\ bs[y].next = End(bs, y) /\ bs[y].next \in DOMAIN bs
                                  /\ bs[bs[y].next].previous = y
          /\ bs[y].previous = Null <=> y = 0
          /\ bs[y].previous # Null => /\ bs[y].previous \in DOMAIN bs
                                      /\ bs[bs[y].previous].next = y
    BY Zenon DEF List, Linked
  <2>2. f[x].previous = bs[x].previous /\ f[x].next = bs[x].next
    BY <1>1, <1>7, <1>8, Zenon
  <2>3. x \in Nat /\ End(bs, x) \in Nat
    BY <1>8, Neighbours, Zenon
  <2>4. \A y \in DOMAIN f : f[y].previous = bs[y].previous /\ f[y].next = bs[y].next
    BY <1>1, <1>7, <1>8, Zenon
  <2>5. CASE x = z
    BY <1>1, <1>2, <1>8, <1>9, <2>1, <2>2, <2>4, <2>5
  <2>6. CASE x # z
    <3>1. bs[x].next # Null /\ End(bs, x) <= top /\ End(f, x) = End(bs, x)
      BY <1>1, <1>8, <1>9, <2>1, <2>6, Zenon
    <3>2. End(f, x) <= top + added /\ End(f, x) # top + added
      BY <1>2, <2>3, <3>1, ConstantsNat
    <3> QED BY <1>8, <2>1, <2>2, <2>4, <3>1, <3>2
  <2> QED BY <2>5, <2>6, Zenon
<1>14. SameUse(bs, f)
  BY <1>1, <1>5, <1>8, <1>u, Zenon DEF SameUse, InUse
<1>15. HasLast(f)
  BY <1>1, <1>7, <1>8, Zenon DEF HasLast
<1>16. Merged(f)
  <2> SUFFICES ASSUME NEW x \in DOMAIN f, NEW y \in DOMAIN f, f[x].free, f[y].free,
                      End(f, x) = y
               PROVE  FALSE
    BY Zenon DEF Merged
  <2>1. x # z
    BY <1>1, <1>2, <1>8, <1>9
  <2>2. bs[x].free /\ bs[y].free /\ End(bs, x) = y
    BY <1>8, <1>9, <1>u, <2>1, Zenon
  <2> QED BY <1>8, <2>2, Zenon DEF Merged
<1> QED BY <1>2, <1>8, <1>10, <1>11, <1>12, <1>13, <1>14, <1>15, <1>16 DEF List

LEMMA AppendAdds ==
  ASSUME NEW bs, NEW top, List(bs, top), HasLast(bs), Merged(bs),
         NEW added \in Nat, added > HeaderUnits, ~bs[Last(bs)].free,
         NEW f, f = Appended(bs, top, added)
  PROVE  /\ List(f, top + added) /\ SameUse(bs, f) /\ HasLast(f) /\ Merged(f)
         /\ DOMAIN f = DOMAIN bs \cup {top}
<1> DEFINE z == Last(bs)
<1>1. /\ z \in DOMAIN bs /\ bs[z].next = Null /\ End(bs, z) = top
      /\ \A x \in DOMAIN bs : x \in Nat /\ x < top /\ (x # z => x < z /\ bs[x].next # Null)
  BY LastIs, Zenon
<1>2. /\ bs[z] \in Block /\ bs[z].capacity \in Nat /\ top \in Nat /\ top \notin DOMAIN bs
      /\ \A x \in DOMAIN bs : End(bs, x) \in Nat
  BY <1>1, Neighbours DEF Block, List
<1>3. top # Null /\ z # Null /\ z # top /\ top # 0
  BY <1>1, <1>2 DEF Null
<1> DEFINE k == added - HeaderUnits
           r == Resized(bs[z], bs[z].capacity, top)
           t == FreeHeader(k, z, Null)
           g == Put(bs, z, r)
<1>4. k \in Nat /\ k + HeaderUnits = added
  BY ConstantsNat
<1>5. f = Put(g, top, t)
  BY <1>1, Zenon DEF Appended
<1>6. r.free = bs[z].free
  BY <1>2, Zenon DEF Resized, Fresh, Block
<1>u. ~bs[z].free
  BY Zenon
<1> HIDE DEF k, z
<1>7. /\ r.capacity = bs[z].capacity /\ r.next = top /\ r.previous = bs[z].previous
      /\ r.requested = bs[z].requested /\ r.canary = bs[z].canary
      /\ r.cookie = Cookie(r) /\ r \in Block
  <2>1. ASSUME NEW b \in Block, NEW c \in Nat, NEW n \in Nat \cup {Null},
               NEW h, h = Resized(b, c, n)
        PROVE  /\ h.capacity = c /\ h.next = n /\ h.previous = b.previous
               /\ h.requested = b.requested /\ h.canary = b.canary
               /\ h.cookie = Cookie(h) /\ h \in Block
    BY <2>1, ResizedHeader, ZenonT(30)
  <2>2. top \in Nat \cup {Null}
    BY <1>2, Zenon
  <2> QED BY <1>2, <2>1, <2>2, Zenon
<1>8. /\ t.capacity = k /\ t.next = Null /\ t.previous = z /\ t.free
      /\ t.cookie = Cookie(t) /\ t \in Block
  <2>1. Null \in Nat \cup {Null} /\ z \in Nat
    BY <1>1, Zenon
  <2>2. ASSUME NEW n \in Nat \cup {Null}, NEW h, h = FreeHeader(k, z, n)
        PROVE  /\ h.capacity = k /\ h.next = n /\ h.previous = z /\ h.free
               /\ h.cookie = Cookie(h) /\ h \in Block
    BY <1>4, <2>1, <2>2, FreeHeaderFields
  <2> QED BY <2>1, <2>2, Zenon
<1> HIDE DEF r, t
<1>9. /\ DOMAIN g = DOMAIN bs /\ g[z] = r
      /\ \A x \in DOMAIN g : x # z => g[x] = bs[x]
  BY <1>1, Zenon DEF Put
<1> HIDE DEF g
<1>10. /\ DOMAIN f = DOMAIN bs \cup {top} /\ f[z] = r /\ f[top] = t
       /\ f = [x \in DOMAIN f |-> f[x]]
       /\ \A x \in DOMAIN f : x # z /\ x # top => f[x] = bs[x]
  BY <1>1, <1>2, <1>3, <1>5, <1>9, Zenon DEF Put
<1>11. /\ End(f, top) = top + added
       /\ \A x \in DOMAIN bs : End(f, x) = End(bs, x) /\ f[x].previous = bs[x].previous
  <2>1. End(f, top) = top + added
    BY <1>2, <1>4, <1>8, <1>10, ConstantsNat DEF End
  <2>2. ASSUME NEW x \in DOMAIN bs PROVE End(f, x) = End(bs, x) /\ f[x].previous = bs[x].previous
    <3>1. CASE x = z
      BY <1>7, <1>10, <3>1, Zenon DEF End
    <3>2. CASE x # z
      BY <1>2, <1>10, <3>2, Zenon DEF End
    <3> QED BY <3>1, <3>2, Zenon
  <2> QED BY <2>1, <2>2, Zenon
<1>12. \A x \in DOMAIN f : x # top => x \in DOMAIN bs
  BY <1>10, Zenon
<1>13. Headers(f)
  BY <1>1, <1>2, <1>7, <1>8, <1>10, Neighbours DEF Headers
<1>14. Apart(f)
  <2> SUFFICES ASSUME NEW x \in DOMAIN f, NEW y \in DOMAIN f, x < y PROVE End(f, x) <= y
    BY Zenon DEF Apart
  <2>1. x # top
    BY <1>1, <1>2, <1>10
  <2>2. CASE y = top
    BY <1>11, <1>12, <2>1, <2>2, Zenon DEF List, Linked
  <2>3. CASE y # top
    BY <1>11, <1>12, <2>1, <2>3, Zenon DEF List, Apart
  <2> QED BY <2>2, <2>3, Zenon
<1>15. Marked(f)
  <2> SUFFICES ASSUME NEW x \in DOMAIN f
               PROVE  /\ f[x].cookie = Cookie(f[x])
                      /\ ~f[x].free => /\ f[x].canary = f[x].cookie
                                       /\ Need(f[x].requested) <= f[x].capacity
    BY Zenon DEF Marked
  <2>1. CASE x = top
    BY <1>8, <1>10, <2>1, Zenon
  <2>2. CASE x = z
    <3>1. /\ bs[z].cookie = Cookie(bs[z]) /\ bs[z].canary = bs[z].cookie
          /\ Need(bs[z].requested) <= bs[z].capacity
      BY <1>1, <1>u, Zenon DEF List, Marked
    <3>2. Cookie(r) = Cookie(bs[z])
      BY <1>7, Zenon DEF Cookie
    <3> QED BY <1>7, <1>10, <2>2, <3>1, <3>2, Zenon
  <2>3. CASE x # z /\ x # top
    BY <1>10, <2>3, Zenon DEF List, Marked
  <2> QED BY <2>1, <2>2, <2>3, Zenon
<1>16. Linked(f, top + added)
  <2> SUFFICES ASSUME NEW x \in DOMAIN f
               PROVE  /\ End(f, x) <= top + added
                      /\ f[x].next = Null <=> End(f, x) = top + added
                      /\ f[x].next # Null => /\ f[x].next = End(f, x) /\ f[x].next \in DOMAIN f
                                             /\ f[f[x].next].previous = x
                      /\ f[x].previous = Null <=> x = 0
                      /\ f[x].previous # Null => /\ f[x].previous \in DOMAIN f
                                                 /\ f[f[x].previous].next = x
    BY Zenon DEF Linked
  <2>1. \A y \in DOMAIN bs :
          /\ End(bs, y) <= top
          /\ bs[y].next # Null => /\ bs[y].next = End(bs, y) /\ bs[y].next \in DOMAIN bs
                                  /\ bs[bs[y].next].previous = y
          /\ bs[y].previous = Null <=> y = 0
          /\ bs[y].previous # Null => /\ bs[y].previous \in DOMAIN bs
                                      /\ bs[bs[y].previous].next = y
    BY Zenon DEF List, Linked
  <2>2. CASE x = top
    <3>1. f[x].next = Null /\ f[x].previous = z /\ End(f, x) = top + added /\ x # 0
      BY <1>3, <1>8, <1>10, <1>11, <2>2, Zenon
    <3>2. z \in DOMAIN f /\ f[z].next = x
      BY <1>1, <1>7, <1>10, <2>2, Zenon
    <3>3. top + added \in Nat
      BY <1>2
    <3> QED BY <1>3, <3>1, <3>2, <3>3
  <2>3. CASE x # top
    <3>1. x \in DOMAIN bs /\ End(f, x) = End(bs, x) /\ f[x].previous = bs[x].previous
      BY <1>11, <1>12, <2>3, Zenon
    <3>2. End(f, x) <= top + added /\ End(f, x) # top + added
      BY <1>2, <2>1, <3>1, ConstantsNat
    <3>3. /\ f[x].next # Null /\ f[x].next = End(f, x) /\ f[x].next \in DOMAIN f
          /\ f[f[x].next].previous = x
      <4>1. CASE x = z
        BY <1>1, <1>3, <1>7, <1>8, <1>10, <3>1, <4>1, Zenon
      <4>2. CASE x # z
        BY <1>1, <1>10, <1>11, <2>1, <2>3, <3>1, <4>2
      <4> QED BY <4>1, <4>2, Zenon
    <3>4. ASSUME f[x].previous # Null
          PROVE  f[x].previous \in DOMAIN f /\ f[f[x].previous].next = x
      <4>1. bs[x].previous \in DOMAIN bs /\ bs[bs[x].previous].next = x
        BY <2>1, <3>1, <3>4, Zenon
      <4>2. bs[x].previous # z
        BY <1>1, <3>1, <4>1 DEF Null
      <4> QED BY <1>2, <1>10, <3>1, <4>1, <4>2, Zenon
    <3> QED BY <2>1, <3>1, <3>2, <3>3, <3>4, Zenon
  <2> QED BY <2>2, <2>3, Zenon
<1>17. SameUse(bs, f)
  <2>1. \A x \in DOMAIN bs : f[x].free = bs[x].free /\ f[x].requested = bs[x].requested
    BY <1>2, <1>6, <1>7, <1>10, Zenon
  <2> QED BY <1>8, <1>10, <1>12, <2>1, Zenon DEF SameUse, InUse
<1>18. HasLast(f)
  BY <1>8, <1>10, Zenon DEF HasLast
<1>19. Merged(f)
  <2> SUFFICES ASSUME NEW x \in DOMAIN f, NEW y \in DOMAIN f, f[x].free, f[y].free,
                      End(f, x) = y
               PROVE  FALSE
    BY Zenon DEF Merged
  <2>1. x # top /\ x # z
    BY <1>1, <1>2, <1>6, <1>10, <1>11, <1>u, ConstantsNat
  <2>2. x \in DOMAIN bs /\ End(bs, x) = y /\ bs[x].next # Null
    BY <1>1, <1>11, <1>12, <2>1, Zenon
  <2>3. y \in DOMAIN bs /\ y # z
    <3>1. y \in DOMAIN bs
      BY <2>2 DEF List, Linked
    <3> QED BY <1>6, <1>10, <1>u, <3>1, Zenon
  <2> QED BY <1>2, <1>10, <2>1, <2>2, <2>3, Zenon DEF Merged
<1> QED BY <1>2, <1>10, <1>13, <1>14, <1>15, <1>16, <1>17, <1>18, <1>19 DEF List

----------------------------------------------------------------------------
(* A list passes every check of the allocator. *)
LEMMA ListIsValid ==
  ASSUME NEW bs, NEW top, List(bs, top)
  PROVE  /\ \A a \in DOMAIN bs : IsValid(bs, top, a) /\ ~MergePanics(bs, top, a)
         /\ \A more \in Nat : ListIsSound(bs, top + more)
<1>1. ASSUME NEW a \in DOMAIN bs
      PROVE  /\ End(bs, a) <= top /\ bs[a].cookie = Cookie(bs[a]) /\ End(bs, a) \in Nat
             /\ bs[a].next # Null => bs[a].next \in DOMAIN bs /\ bs[a].next = End(bs, a)
             /\ bs[a].next # Null => bs[a].next > a
  BY Neighbours DEF List, Linked, Marked
<1>2. ASSUME NEW a \in DOMAIN bs, NEW t \in Nat, top <= t PROVE IsValid(bs, t, a)
  <2>1. top \in Nat
    BY Zenon DEF List
  <2>2. End(bs, a) <= t
    BY <1>1, <1>2, <2>1
  <2> QED BY <1>1, <2>2, Zenon DEF IsValid, End
<1>3. top \in Nat
  BY Zenon DEF List
<1>4. ASSUME NEW a \in DOMAIN bs PROVE ~MergePanics(bs, top, a)
  BY <1>1, <1>2, <1>3 DEF MergePanics
<1>5. ASSUME NEW more \in Nat PROVE ListIsSound(bs, top + more)
  BY <1>1, <1>2, <1>3 DEF ListIsSound
<1> QED BY <1>2, <1>3, <1>4, <1>5

LEMMA NoFreePair ==
  ASSUME NEW bs
  PROVE  Merged(bs) <=> \A x, y : ~FreePair(bs, x, y)
BY Zenon DEF Merged, FreePair

(* Only the block in front of a block ends where it begins. *)
LEMMA FrontIsPrevious ==
  ASSUME NEW bs, NEW top, List(bs, top), NEW x \in DOMAIN bs, NEW y \in DOMAIN bs,
         End(bs, x) = y
  PROVE  bs[x].next = y /\ bs[y].previous = x /\ x < y
<1>1. y < End(bs, y) /\ End(bs, y) \in Nat /\ y \in Nat /\ x < y
  BY Neighbours, Zenon
<1>2. End(bs, y) <= top /\ top \in Nat
  BY Zenon DEF List, Linked
<1>3. bs[x].next # Null
  BY <1>1, <1>2 DEF List, Linked
<1> QED BY <1>1, <1>3, Neighbours

(* kmalloc: the block it found, split and taken. *)
LEMMA SplitTaken ==
  ASSUME NEW bs, NEW top, List(bs, top), Merged(bs), HasLast(bs),
         NEW a \in DOMAIN bs, bs[a].free, NEW size \in Nat, bs[a].capacity >= Need(size),
         NEW h, h = Taken(Split(bs, a, Need(size)), a, size)
  PROVE  /\ List(h, top) /\ Merged(h) /\ HasLast(h)
         /\ 0 \in DOMAIN bs => 0 \in DOMAIN h
         /\ InUse(h) = InUse(bs) \cup {a}
         /\ h[a].requested = size
         /\ \A x \in InUse(bs) : h[x].requested = bs[x].requested
<1> DEFINE c == Need(size)
           g == Split(bs, a, c)
<1>1. c \in Nat /\ bs[a].capacity \in Nat /\ bs[a].capacity >= c
  BY NeedNat, Neighbours, Zenon DEF Block
<1>u. bs[a].free
  BY Zenon
<1>2. /\ List(g, top) /\ SameUse(bs, g) /\ a \in DOMAIN g /\ g[a].capacity >= c
      /\ HasLast(g) /\ (0 \in DOMAIN bs => 0 \in DOMAIN g)
      /\ \A x, y : FreePair(g, x, y) => x = a
  <2> HIDE DEF c
  <2>1. CASE bs[a].capacity < c + HeaderUnits + 1
    <3>1. g = bs
      BY <2>1, Zenon DEF Split
    <3>2. \A x, y : ~FreePair(g, x, y)
      BY <3>1, NoFreePair, Zenon
    <3> QED BY <1>1, <3>1, <3>2, Zenon DEF SameUse
  <2>2. CASE ~(bs[a].capacity < c + HeaderUnits + 1)
    <3>1. bs[a].capacity >= c + HeaderUnits + 1
      BY <1>1, <2>2, ConstantsNat
    <3> HIDE DEF g
    <3>2. /\ List(g, top) /\ SameUse(bs, g) /\ a \in DOMAIN g /\ g[a].capacity = c
          /\ HasLast(g) /\ (0 \in DOMAIN bs => 0 \in DOMAIN g)
          /\ \A x, y : FreePair(g, x, y) /\ x # a => \E z : FreePair(bs, z, y)
      BY <1>1, <1>u, <3>1, SplitKeeps, SMTT(30) DEF g
    <3> QED BY <1>1, <3>2, NoFreePair
  <2> QED BY <2>1, <2>2, Zenon
<1>3. h = Taken(g, a, size) /\ Need(size) <= g[a].capacity
  <2>1. g[a].capacity \in Nat
    BY <1>2, Neighbours, Zenon DEF Block
  <2> QED BY <1>1, <1>2, <2>1, Zenon
<1> HIDE DEF g, c
<1>4. /\ List(h, top) /\ DOMAIN h = DOMAIN g /\ (HasLast(g) => HasLast(h))
      /\ h[a].requested = size /\ ~h[a].free
      /\ \A x \in DOMAIN h : x # a => h[x] = g[x]
      /\ \A x \in DOMAIN h : End(h, x) = End(g, x)
  BY <1>2, <1>3, TakenKeeps, SMTT(30)
<1>5. Merged(h)
  <2> SUFFICES ASSUME NEW x, NEW y, FreePair(h, x, y) PROVE FALSE
    BY NoFreePair, Zenon
  <2>1. x # a /\ y # a
    BY <1>4, Zenon DEF FreePair
  <2>2. FreePair(g, x, y)
    BY <1>4, <2>1, Zenon DEF FreePair
  <2> QED BY <1>2, <2>1, <2>2, Zenon
<1>6. a \notin InUse(bs)
  BY <1>u, Zenon DEF InUse
<1>7. InUse(h) = InUse(g) \cup {a}
  BY <1>2, <1>4, Zenon DEF InUse
<1>8. \A x \in InUse(bs) : h[x].requested = bs[x].requested
  <2> TAKE x \in InUse(bs)
  <2>1. x \in InUse(g) /\ g[x].requested = bs[x].requested /\ x # a
    BY <1>2, <1>6, Zenon DEF SameUse
  <2> QED BY <1>4, <2>1, Zenon DEF InUse
<1> QED BY <1>2, <1>4, <1>5, <1>7, <1>8, Zenon DEF SameUse

(* kfree: the block released and merged with its neighbours. *)
LEMMA ReleasedMerged ==
  ASSUME NEW bs, NEW top, List(bs, top), Merged(bs), HasLast(bs), NEW a \in InUse(bs),
         NEW fw, fw = MergeNext(Released(bs, a), a)
  PROVE  /\ ~MergePanics(Released(bs, a), top, a)
         /\ List(fw, top) /\ HasLast(fw) /\ a \in DOMAIN fw /\ fw[a].free
         /\ 0 \in DOMAIN bs => 0 \in DOMAIN fw
         /\ \A x, y : FreePair(fw, x, y) => y = a
         /\ InUse(fw) = InUse(bs) \ {a}
         /\ \A x \in InUse(fw) : fw[x].requested = bs[x].requested
<1> DEFINE r == Released(bs, a)
<1>0. a \in DOMAIN bs
  BY Zenon DEF InUse
<1>1. /\ List(r, top) /\ DOMAIN r = DOMAIN bs /\ HasLast(r) /\ r[a].free
      /\ \A x \in DOMAIN r : x # a => r[x] = bs[x]
      /\ \A x \in DOMAIN r : End(r, x) = End(bs, x)
  BY <1>0, ReleasedKeeps
<1>2. fw = MergeNext(r, a)
  BY Zenon
<1> HIDE DEF r
<1>3. ~MergePanics(r, top, a)
  BY <1>0, <1>1, ListIsValid, Zenon
<1>4. ASSUME NEW x, NEW y, FreePair(r, x, y) PROVE x = a \/ y = a
  <2> SUFFICES ASSUME x # a, y # a PROVE FALSE
    BY Zenon
  <2>1. FreePair(bs, x, y)
    BY <1>1, <1>4, Zenon DEF FreePair
  <2> QED BY <2>1, NoFreePair, Zenon
<1>5. InUse(r) = InUse(bs) \ {a} /\ \A x \in InUse(r) : r[x].requested = bs[x].requested
  BY <1>1, Zenon DEF InUse
<1>6. CASE CanAbsorb(r, a)
  <2>1. fw = Absorb(r, a)
    BY <1>2, <1>6, Zenon DEF MergeNext
  <2>2. /\ List(fw, top) /\ SameUse(r, fw) /\ a \in DOMAIN fw /\ fw[a].free /\ HasLast(fw)
        /\ 0 \in DOMAIN r => 0 \in DOMAIN fw
        /\ \A x, y : FreePair(fw, x, y) => FreePair(r, IF x = a THEN r[a].next ELSE x, y)
    BY <1>0, <1>1, <1>6, <2>1, AbsorbKeeps, Zenon
  <2>3. ASSUME NEW x, NEW y, FreePair(fw, x, y) PROVE y = a
    <3>1. CASE x = a
      <4>1. FreePair(r, r[a].next, y)
        BY <2>2, <2>3, <3>1, Zenon
      <4>2. r[a].next \in Nat /\ r[a].next > a /\ a \in Nat
        BY <1>0, <1>1, <1>6, Neighbours, SMTT(30) DEF CanAbsorb
      <4>3. r[a].next # a
        BY <4>2
      <4> QED BY <1>4, <4>1, <4>3, Zenon
    <3>2. CASE x # a
      BY <1>4, <2>2, <2>3, <3>2, Zenon
    <3> QED BY <3>1, <3>2, Zenon
  <2> QED BY <1>1, <1>3, <1>5, <2>2, <2>3, Zenon DEF SameUse, r
<1>7. CASE ~CanAbsorb(r, a)
  <2>1. fw = r
    BY <1>2, <1>7, Zenon DEF MergeNext
  <2>2. ASSUME NEW x, NEW y, FreePair(r, x, y) PROVE y = a
    <3> SUFFICES ASSUME x = a PROVE FALSE
      BY <1>4, <2>2, Zenon
    <3>1. y \in DOMAIN r /\ r[y].free /\ End(r, a) = y /\ a \in DOMAIN r
      BY <2>2, Zenon DEF FreePair
    <3>2. r[a].next = y
      BY <1>1, <3>1, FrontIsPrevious
    <3>3. y # Null
      BY <1>1, <3>1, Neighbours DEF Null
    <3> QED BY <1>7, <3>1, <3>2, <3>3, Zenon DEF CanAbsorb
  <2> QED BY <1>0, <1>1, <1>3, <1>5, <2>1, <2>2, Zenon DEF r
<1> QED BY <1>6, <1>7, Zenon

LEMMA FreedMerged ==
  ASSUME NEW bs, NEW top, List(bs, top), Merged(bs), HasLast(bs), NEW a \in InUse(bs),
         NEW fw, fw = MergeNext(Released(bs, a), a), NEW b, b = fw[a].previous,
         NEW h, b # Null /\ fw[b].free => h = MergeNext(fw, b),
         ~(b # Null /\ fw[b].free) => h = fw
  PROVE  /\ b # Null => IsValid(fw, top, b) /\ ~MergePanics(fw, top, b)
         /\ List(h, top) /\ Merged(h) /\ HasLast(h)
         /\ 0 \in DOMAIN bs => 0 \in DOMAIN h
         /\ InUse(h) = InUse(bs) \ {a}
         /\ \A x \in InUse(h) : h[x].requested = bs[x].requested
<1>1. /\ List(fw, top) /\ HasLast(fw) /\ a \in DOMAIN fw /\ fw[a].free
      /\ 0 \in DOMAIN bs => 0 \in DOMAIN fw
      /\ \A x, y : FreePair(fw, x, y) => y = a
      /\ InUse(fw) = InUse(bs) \ {a}
      /\ \A x \in InUse(fw) : fw[x].requested = bs[x].requested
  BY ReleasedMerged, SMTT(30)
<1>2. \A x : FreePair(fw, x, a) => x = b /\ x # Null /\ x < a
  <2> SUFFICES ASSUME NEW x, FreePair(fw, x, a) PROVE x = b /\ x # Null /\ x < a
    BY Zenon
  <2>1. x \in DOMAIN fw /\ End(fw, x) = a
    BY Zenon DEF FreePair
  <2>2. fw[a].previous = x /\ x < a
    BY <1>1, <2>1, FrontIsPrevious, ZenonT(30)
  <2> QED BY <1>1, <2>1, <2>2, Neighbours, SMTT(30) DEF Null
<1>3. b # Null => b \in DOMAIN fw /\ fw[b].next = a /\ a # Null
  BY <1>1, Neighbours, SMTT(30) DEF Null
<1>4. b # Null => IsValid(fw, top, b) /\ ~MergePanics(fw, top, b)
  BY <1>1, <1>3, ListIsValid, Zenon
<1>5. CASE b # Null /\ fw[b].free
  <2>1. CanAbsorb(fw, b) /\ h = Absorb(fw, b)
    BY <1>1, <1>3, <1>5, Zenon DEF CanAbsorb, MergeNext
  <2>2. /\ List(h, top) /\ SameUse(fw, h) /\ HasLast(h)
        /\ 0 \in DOMAIN fw => 0 \in DOMAIN h
        /\ \A x, y : FreePair(h, x, y) => FreePair(fw, IF x = b THEN fw[b].next ELSE x, y)
    BY <1>1, <1>3, <1>5, <2>1, AbsorbKeeps, SMTT(30)
  <2>3. Merged(h)
    <3> SUFFICES ASSUME NEW x, NEW y, FreePair(h, x, y) PROVE FALSE
      BY NoFreePair, Zenon
    <3>1. CASE x = b
      <4>1. FreePair(fw, a, y)
        BY <1>3, <1>5, <2>2, <3>1, Zenon
      <4>2. FreePair(fw, a, a)
        BY <1>1, <4>1, Zenon
      <4>3. a < a /\ a \in Nat
        BY <1>1, <1>2, <4>2, Neighbours, Zenon
      <4> QED BY <4>3
    <3>2. CASE x # b
      BY <1>1, <1>2, <2>2, <3>2
    <3> QED BY <3>1, <3>2, Zenon
  <2> QED BY <1>1, <1>4, <2>2, <2>3, Zenon DEF SameUse
<1>6. CASE ~(b # Null /\ fw[b].free)
  <2>1. h = fw
    BY <1>6, Zenon
  <2>2. Merged(h)
    <3> SUFFICES ASSUME NEW x, NEW y, FreePair(fw, x, y) PROVE FALSE
      BY <2>1, NoFreePair, Zenon
    <3>1. x = b /\ b # Null
      BY <1>1, <1>2, Zenon
    <3> QED BY <1>6, <3>1, Zenon DEF FreePair
  <2> QED BY <1>1, <1>4, <2>1, <2>2, Zenon
<1> QED BY <1>5, <1>6, Zenon

----------------------------------------------------------------------------
(* What the callers hold follows the blocks in use. *)
LEMMA HeldKept ==
  ASSUME HeapInv, SameUse(blocks, blocks'), live' = live
  PROVE  Held'
<1>1. /\ DOMAIN live = {a + HeaderUnits : a \in InUse(blocks)}
      /\ live = [p \in DOMAIN live |-> blocks[p - HeaderUnits].requested]
  BY Zenon DEF HeapInv, Held
<1>2. InUse(blocks') = InUse(blocks)
  BY Zenon DEF SameUse, InUse
<1>3. \A a \in InUse(blocks) : a \in Nat /\ blocks'[a].requested = blocks[a].requested
  BY Zenon DEF SameUse, InUse, HeapInv, TypeOK, Headers
<1>4. \A p \in DOMAIN live : p - HeaderUnits \in InUse(blocks)
  BY <1>1, <1>3, ConstantsNat
<1>5. live = [p \in DOMAIN live |-> blocks'[p - HeaderUnits].requested]
  BY <1>1, <1>3, <1>4, Zenon
<1> QED BY <1>1, <1>2, <1>5, Zenon DEF Held

LEMMA HeldTaken ==
  ASSUME HeapInv, NEW a \in Nat, a \notin InUse(blocks), NEW size,
         InUse(blocks') = InUse(blocks) \cup {a}, blocks'[a].requested = size,
         \A x \in InUse(blocks) : blocks'[x].requested = blocks[x].requested,
         live' = Put(live, a + HeaderUnits, size)
  PROVE  Held'
<1>1. /\ DOMAIN live = {x + HeaderUnits : x \in InUse(blocks)}
      /\ live = [p \in DOMAIN live |-> blocks[p - HeaderUnits].requested]
  BY Zenon DEF HeapInv, Held
<1>2. \A x \in InUse(blocks) : x \in Nat
  BY Zenon DEF InUse, HeapInv, TypeOK, Headers
<1>3. DOMAIN live' = DOMAIN live \cup {a + HeaderUnits}
  BY Zenon DEF Put
<1>4. DOMAIN live' = {x + HeaderUnits : x \in InUse(blocks')}
  BY <1>1, <1>3, Zenon
<1>5. ASSUME NEW p \in DOMAIN live' PROVE live'[p] = blocks'[p - HeaderUnits].requested
  <2>1. CASE p = a + HeaderUnits
    <3>1. p - HeaderUnits = a
      BY <2>1, ConstantsNat
    <3> QED BY <2>1, <3>1, Zenon DEF Put
  <2>2. CASE p # a + HeaderUnits
    <3>1. p \in DOMAIN live /\ live'[p] = live[p]
      BY <1>3, <2>2, Zenon DEF Put
    <3>2. p - HeaderUnits \in InUse(blocks)
      BY <1>1, <1>2, <3>1, ConstantsNat
    <3> QED BY <1>1, <3>1, <3>2, Zenon
  <2> QED BY <2>1, <2>2, Zenon
<1>6. live' = [p \in DOMAIN live' |-> blocks'[p - HeaderUnits].requested]
  BY <1>5, Zenon DEF Put
<1> QED BY <1>4, <1>6, Zenon DEF Held

LEMMA HeldFreed ==
  ASSUME HeapInv, NEW a \in InUse(blocks), InUse(blocks') = InUse(blocks) \ {a},
         \A x \in InUse(blocks') : blocks'[x].requested = blocks[x].requested,
         live' = Drop(live, a + HeaderUnits)
  PROVE  Held'
<1>1. /\ DOMAIN live = {x + HeaderUnits : x \in InUse(blocks)}
      /\ live = [p \in DOMAIN live |-> blocks[p - HeaderUnits].requested]
  BY Zenon DEF HeapInv, Held
<1>2. \A x \in InUse(blocks) : x \in Nat
  BY Zenon DEF InUse, HeapInv, TypeOK, Headers
<1>3. DOMAIN live' = DOMAIN live \ {a + HeaderUnits}
  BY Zenon DEF Drop
<1>4. DOMAIN live' = {x + HeaderUnits : x \in InUse(blocks')}
  <2>1. ASSUME NEW p \in DOMAIN live' PROVE p \in {x + HeaderUnits : x \in InUse(blocks')}
    <3>1. PICK x \in InUse(blocks) : p = x + HeaderUnits
      BY <1>1, <1>3, Zenon
    <3>2. x # a
      BY <1>3, <3>1, Zenon
    <3> QED BY <3>1, <3>2, Zenon
  <2>2. ASSUME NEW x \in InUse(blocks') PROVE x + HeaderUnits \in DOMAIN live'
    <3>1. x \in InUse(blocks) /\ x # a
      BY Zenon
    <3>2. x + HeaderUnits # a + HeaderUnits
      BY <1>2, <3>1, ConstantsNat
    <3> QED BY <1>1, <1>3, <3>1, <3>2, Zenon
  <2> QED BY <2>1, <2>2, Zenon
<1>5. ASSUME NEW p \in DOMAIN live' PROVE live'[p] = blocks'[p - HeaderUnits].requested
  <2>1. p \in DOMAIN live /\ live'[p] = live[p]
    BY <1>3, Zenon DEF Drop
  <2>2. p - HeaderUnits \in InUse(blocks')
    BY <1>2, <1>4, ConstantsNat
  <2> QED BY <1>1, <2>1, <2>2, Zenon
<1>6. live' = [p \in DOMAIN live' |-> blocks'[p - HeaderUnits].requested]
  BY <1>5, Zenon DEF Drop
<1> QED BY <1>4, <1>6, Zenon DEF Held

----------------------------------------------------------------------------

(* A set of naturals that is not empty has a least element. *)
LEMMA LeastNatural ==
  ASSUME NEW T, T \subseteq Nat, T # {}
  PROVE  \E x \in T : \A y \in T : x <= y
<1> DEFINE R == {ss \in Nat \X Nat : ss[1] < ss[2]}
<1>1. IsWellFoundedOn(R, Nat)
  BY NatLessThanWellFounded, Zenon DEF OpToRel
<1>2. PICK x \in T : \A y \in T : ~(<<y, x>> \in R)
  <2> HIDE DEF R
  <2> QED BY <1>1, WFMin, Zenon
<1>3. ASSUME NEW y \in T PROVE x <= y
  <2>1. x \in Nat /\ y \in Nat /\ <<y, x>> \in Nat \X Nat
    BY Zenon
  <2>2. ~(y < x)
    BY <1>2, <2>1, Zenon
  <2> QED BY <2>1, <2>2
<1> QED BY <1>3, Zenon

----------------------------------------------------------------------------
(* The actions. *)
LEMMA InvList ==
  ASSUME HeapInv
  PROVE  /\ List(blocks, mapped) /\ Merged(blocks) /\ Held
         /\ initialized => HasLast(blocks) /\ 0 \in DOMAIN blocks
         /\ ~initialized => DOMAIN blocks = {} /\ mapped = 0
         /\ mapped \in Nat /\ used \in Int /\ pool \in Nat
         /\ initialized \in BOOLEAN /\ panicked = FALSE
<1>1. panicked = FALSE
  BY Zenon DEF HeapInv, TypeOK
<1>2. List(blocks, mapped)
  BY Zenon DEF HeapInv, TypeOK, List
<1> QED BY <1>1, <1>2, Zenon DEF HeapInv, TypeOK, HasLast

(* HeapInv' from its parts. *)
LEMMA ListInv ==
  ASSUME List(blocks', mapped'), Merged(blocks'), Held', HasLast(blocks'), 0 \in DOMAIN blocks',
         used' \in Int, pool' \in Nat, initialized' = TRUE, panicked' = FALSE
  PROVE  HeapInv'
BY Zenon DEF List, HeapInv, TypeOK, HasLast

LEMMA PoolStaysNat ==
  ASSUME HeapInv, NEW units \in Nat, units > 0
  PROVE  /\ GrowFails(units) => pool' \in Nat
         /\ GrowSucceeds(units) =>
              /\ pool' \in Nat /\ mapped' \in Nat
              /\ mapped' - mapped \in Nat /\ mapped' - mapped > HeaderUnits
<1>1. mapped \in Nat /\ pool \in Nat /\ Pages(units) \in Nat
  BY InvList, PagesNat, Zenon
<1>2. ASSUME GrowFails(units) PROVE pool' \in Nat
  <2>1. PICK got \in 0 .. Pages(units) - 1 :
          /\ got <= pool
          /\ pool' = pool - got
                       + Cardinality((window \cup NewPages(got)) \cap RolledBack(got))
    BY <1>2, Zenon DEF GrowFails
  <2> DEFINE m == mapped \div PageUnits
             back == (window \cup NewPages(got)) \cap RolledBack(got)
  <2>2. m \in Nat
    BY <1>1, ConstantsNat, DivNat
  <2>3. back \subseteq {m + k : k \in 0 .. got - 1}
    BY Zenon DEF RolledBack, NewPages
  <2> HIDE DEF m
  <2>4. {m + k : k \in 0 .. got - 1} \subseteq m .. m + got
    BY <1>1, <2>2
  <2>5. IsFiniteSet(m .. m + got)
    BY <1>1, <2>2, FS_Interval
  <2>6. IsFiniteSet(back)
    BY <2>3, <2>4, <2>5, FS_Subset, Zenon
  <2>7. Cardinality(back) \in Nat
    BY <2>6, FS_CardinalityType, Zenon
  <2> HIDE DEF back
  <2>8. pool' = pool - got + Cardinality(back)
    BY <2>1, Zenon DEF back
  <2> QED BY <1>1, <2>1, <2>7, <2>8
<1>3. ASSUME GrowSucceeds(units)
      PROVE  /\ pool' \in Nat /\ mapped' \in Nat
             /\ mapped' - mapped \in Nat /\ mapped' - mapped > HeaderUnits
  <2> DEFINE d == Pages(units) * PageUnits
  <2>1. d \in Nat /\ d >= PageUnits
    BY PagesNat, Zenon
  <2>2. mapped' = mapped + d /\ pool' = pool - Pages(units) /\ Pages(units) <= pool
    BY <1>3, Zenon DEF GrowSucceeds
  <2> HIDE DEF d
  <2> QED BY <1>1, <2>1, <2>2, ConstantsNat
<1> QED BY <1>2, <1>3, Zenon

LEMMA InitEstablishes ==
  ASSUME Init
  PROVE  HeapInv
<1>1. DOMAIN blocks = {} /\ DOMAIN live = {}
  BY Zenon DEF Init, NoBlocks
<1>2. blocks = [a \in DOMAIN blocks |-> blocks[a]] /\ live = [p \in DOMAIN live |-> live[p]]
  BY Zenon DEF Init, NoBlocks
<1>3. TypeOK
  <2>1. Headers(blocks)
    BY <1>1, Zenon DEF Headers
  <2>2. mapped \in Nat /\ used \in Int /\ pool \in Nat
    BY ConstantsNat DEF Init
  <2>3. initialized \in BOOLEAN /\ panicked \in BOOLEAN
    BY Zenon DEF Init
  <2> QED BY <1>2, <2>1, <2>2, <2>3, Zenon DEF TypeOK
<1>4. Held
  <2>1. InUse(blocks) = {}
    BY <1>1, Zenon DEF InUse
  <2>2. live = [p \in DOMAIN live |-> blocks[p - HeaderUnits].requested]
    BY <1>1, <1>2, Zenon
  <2> QED BY <1>1, <2>1, <2>2, Zenon DEF Held
<1>5. Linked(blocks, mapped) /\ Apart(blocks) /\ Merged(blocks) /\ Marked(blocks)
  BY <1>1, Zenon DEF Linked, Apart, Merged, Marked
<1> QED BY <1>1, <1>3, <1>4, <1>5, Zenon DEF Init, HeapInv

LEMMA HeapInitKeeps ==
  ASSUME HeapInv, heap_init
  PROVE  HeapInv'
<1>1. /\ List(blocks, mapped) /\ DOMAIN blocks = {} /\ mapped = 0 /\ used \in Int
      /\ panicked = FALSE /\ initialized = FALSE
  BY InvList, Zenon DEF heap_init
<1>2. PageUnits \in Nat /\ PageUnits > 0
  BY ConstantsNat
<1>3. CASE GrowFails(PageUnits) /\ UNCHANGED <<blocks, mapped, initialized>>
  <2>1. pool' \in Nat
    BY <1>2, <1>3, PoolStaysNat, Zenon
  <2>2. UNCHANGED <<blocks, mapped, initialized, used, live, panicked>>
    BY <1>3, Zenon DEF heap_init
  <2> QED BY <2>1, <2>2, Zenon DEF HeapInv, TypeOK, Held
<1>4. CASE /\ GrowSucceeds(PageUnits) /\ blocks' = Appended(blocks, mapped, PageUnits)
           /\ initialized' = TRUE
  <2>1. pool' \in Nat
    BY <1>2, <1>4, PoolStaysNat, Zenon
  <2>2. mapped' = PageUnits
    <3>1. Pages(PageUnits) = 1
      <4>1. ASSUME NEW d \in Nat, d > 0 PROVE (d + d - 1) \div d = 1
        BY <4>1
      <4> QED BY <1>2, <4>1, Zenon DEF Pages
    <3> QED BY <1>1, <1>2, <1>4, <3>1 DEF GrowSucceeds
  <2>3. /\ List(blocks', PageUnits) /\ SameUse(blocks, blocks') /\ HasLast(blocks')
        /\ 0 \in DOMAIN blocks' /\ Merged(blocks')
    BY <1>1, <1>4, ConstantsNat, AppendFirst, Zenon
  <2>4. Held'
    BY <2>3, HeldKept, Zenon DEF heap_init
  <2> QED BY <1>1, <1>4, <2>1, <2>2, <2>3, <2>4, ListInv, Zenon DEF heap_init
<1> QED BY <1>3, <1>4, Zenon DEF heap_init

(* How a call changes used_bytes and what the callers hold. *)
Grant(size) ==
  \E p \in Nat : p \notin DOMAIN live /\ live' = Put(live, p, size) /\ used' = used + size

UseStep ==
  \/ UNCHANGED <<used, live>>
  \/ \E size \in Nat : Grant(size)
  \/ \E p \in DOMAIN live : live' = Drop(live, p) /\ used' = used - live[p]

LEMMA HandOutKeeps ==
  ASSUME HeapInv, NEW bs, NEW top, List(bs, top), Merged(bs), HasLast(bs), 0 \in DOMAIN bs,
         SameUse(blocks, bs), NEW size \in Nat, Fitting(bs, Need(size)) # {},
         HandOut(bs, size, size)
  PROVE  /\ List(blocks', top) /\ Merged(blocks') /\ HasLast(blocks') /\ 0 \in DOMAIN blocks'
         /\ Held' /\ used' \in Int /\ Grant(size)
<1> DEFINE T == Fitting(bs, Need(size))
           a == FindFree(bs, Need(size))
<1>1. T \subseteq DOMAIN bs /\ DOMAIN bs \subseteq Nat
  BY Zenon DEF Fitting, List, Headers
<1>2. a \in T
  <2>1. \E x \in T : \A y \in T : x <= y
    <3> HIDE DEF T
    <3> QED BY <1>1, LeastNatural, Zenon DEF T
  <2> QED BY <2>1, Zenon DEF FindFree
<1>3. /\ blocks' = Taken(Split(bs, a, Need(size)), a, size)
      /\ used' = used + size /\ live' = Put(live, a + HeaderUnits, size)
  BY Zenon DEF HandOut
<1>4. a \in DOMAIN bs /\ a \in Nat /\ bs[a].free /\ bs[a].capacity >= Need(size)
  BY <1>1, <1>2, Zenon DEF Fitting
<1> HIDE DEF a, T
<1>5. /\ List(blocks', top) /\ Merged(blocks') /\ HasLast(blocks') /\ 0 \in DOMAIN blocks'
      /\ InUse(blocks') = InUse(bs) \cup {a}
      /\ blocks'[a].requested = size
      /\ \A x \in InUse(bs) : blocks'[x].requested = bs[x].requested
  BY <1>3, <1>4, SplitTaken, SMTT(30)
<1>6. a \notin InUse(blocks)
  BY <1>4, Zenon DEF SameUse, InUse
<1>7. Held'
  BY <1>3, <1>4, <1>5, <1>6, HeldTaken, Zenon DEF SameUse
<1>8. used' \in Int
  BY <1>3, InvList
<1>9. Grant(size)
  <2>1. DOMAIN live = {x + HeaderUnits : x \in InUse(blocks)}
    BY InvList, Zenon DEF Held
  <2>2. \A x \in InUse(blocks) : x \in Nat /\ x # a
    BY <1>6, Zenon DEF InUse, HeapInv, TypeOK, Headers
  <2>3. \A x \in InUse(blocks) : x + HeaderUnits # a + HeaderUnits
    BY <1>4, <2>2, ConstantsNat
  <2>4. a + HeaderUnits \in Nat /\ a + HeaderUnits \notin DOMAIN live
    BY <1>4, <2>1, <2>3, ConstantsNat
  <2> QED BY <1>3, <2>4, Zenon DEF Grant
<1> QED BY <1>5, <1>7, <1>8, <1>9, Zenon

LEMMA KmallocKeeps ==
  ASSUME HeapInv, NEW size \in Nat, Kmalloc(size, size)
  PROVE  HeapInv' /\ UseStep
<1>1. /\ List(blocks, mapped) /\ Merged(blocks) /\ used \in Int /\ pool \in Nat
      /\ mapped \in Nat /\ panicked = FALSE /\ initialized \in BOOLEAN
      /\ initialized => HasLast(blocks) /\ 0 \in DOMAIN blocks
  BY InvList, Zenon
<1>2. ~ScanPanics(blocks, mapped, Need(size))
  BY <1>1, ListIsValid, Zenon DEF ScanPanics
<1>3. Need(size) + HeaderUnits \in Nat /\ Need(size) + HeaderUnits > 0
  BY NeedNat, ConstantsNat
<1>4. CASE UNCHANGED vars
  BY <1>4, Zenon DEF vars, HeapInv, TypeOK, Held, UseStep
<1> SUFFICES ASSUME ~IllegalSize(size) PROVE HeapInv' /\ UseStep
  BY <1>4, Zenon DEF Kmalloc
<1>5. initialized = TRUE /\ HasLast(blocks) /\ 0 \in DOMAIN blocks
  BY <1>1, Zenon DEF IllegalSize
<1>6. CASE /\ Fitting(blocks, Need(size)) # {}
           /\ HandOut(blocks, size, size)
           /\ UNCHANGED <<mapped, initialized, window, pool, panicked>>
  <2>1. SameUse(blocks, blocks)
    BY Zenon DEF SameUse
  <2>2. /\ List(blocks', mapped) /\ Merged(blocks') /\ HasLast(blocks') /\ 0 \in DOMAIN blocks'
        /\ Held' /\ used' \in Int /\ Grant(size)
    BY <1>1, <1>5, <1>6, <2>1, HandOutKeeps, Zenon
  <2> QED BY <1>1, <1>5, <1>6, <2>2, ListInv, Zenon DEF UseStep
<1>7. CASE /\ GrowFails(Need(size) + HeaderUnits)
           /\ UNCHANGED <<blocks, mapped, used, initialized, live, panicked>>
  <2>1. pool' \in Nat
    BY <1>3, <1>7, PoolStaysNat, Zenon
  <2> QED BY <1>7, <2>1, Zenon DEF HeapInv, TypeOK, Held, UseStep
<1>8. ASSUME GrowSucceeds(Need(size) + HeaderUnits), NEW grown,
             grown = Appended(blocks, mapped, mapped' - mapped), UNCHANGED initialized,
             \/ ~ListIsSound(blocks, mapped')
             \/ /\ Fitting(grown, Need(size)) # {}
                /\ HandOut(grown, size, size)
                /\ UNCHANGED panicked
             \/ blocks' = grown /\ UNCHANGED <<used, live, panicked>>
      PROVE  HeapInv' /\ UseStep
  <2> DEFINE d == mapped' - mapped
  <2>1. /\ pool' \in Nat /\ mapped' \in Nat /\ d \in Nat /\ d > HeaderUnits
        /\ mapped' = mapped + d
    <3>1. pool' \in Nat /\ mapped' \in Nat /\ d \in Nat /\ d > HeaderUnits
      BY <1>3, <1>8, PoolStaysNat, Zenon
    <3>2. ASSUME NEW m \in Nat, NEW n \in Nat PROVE n = m + (n - m)
      BY <3>2
    <3>3. mapped' = mapped + d
      BY <1>1, <3>1, <3>2, Zenon
    <3> QED BY <3>1, <3>3, Zenon
  <2> HIDE DEF d
  <2>2. ListIsSound(blocks, mapped')
    BY <1>1, <2>1, ListIsValid, Zenon
  <2>3. grown = Appended(blocks, mapped, d)
    BY <1>8, Zenon DEF d
  <2>4. /\ List(grown, mapped') /\ SameUse(blocks, grown) /\ HasLast(grown) /\ Merged(grown)
        /\ 0 \in DOMAIN grown
    <3>1. CASE blocks[Last(blocks)].free
      <4>1. /\ List(grown, mapped + d) /\ SameUse(blocks, grown) /\ HasLast(grown)
            /\ Merged(grown) /\ DOMAIN grown = DOMAIN blocks
        BY <1>1, <1>5, <2>1, <2>3, <3>1, AppendGrows, ZenonT(30)
      <4> QED BY <1>5, <2>1, <4>1, Zenon
    <3>2. CASE ~blocks[Last(blocks)].free
      <4>1. /\ List(grown, mapped + d) /\ SameUse(blocks, grown) /\ HasLast(grown)
            /\ Merged(grown) /\ DOMAIN grown = DOMAIN blocks \cup {mapped}
        BY <1>1, <1>5, <2>1, <2>3, <3>2, AppendAdds, ZenonT(30)
      <4> QED BY <1>5, <2>1, <4>1, Zenon
    <3> QED BY <3>1, <3>2, Zenon
  <2>5. CASE /\ Fitting(grown, Need(size)) # {} /\ HandOut(grown, size, size)
             /\ UNCHANGED panicked
    <3>1. /\ List(blocks', mapped') /\ Merged(blocks') /\ HasLast(blocks')
          /\ 0 \in DOMAIN blocks' /\ Held' /\ used' \in Int /\ Grant(size)
      BY <2>4, <2>5, HandOutKeeps, Zenon
    <3> QED BY <1>1, <1>5, <1>8, <2>1, <2>5, <3>1, ListInv, Zenon DEF UseStep
  <2>6. CASE blocks' = grown /\ UNCHANGED <<used, live, panicked>>
    <3>1. Held'
      BY <2>4, <2>6, HeldKept, Zenon
    <3> QED BY <1>1, <1>5, <1>8, <2>1, <2>4, <2>6, <3>1, ListInv, Zenon DEF UseStep
  <2> QED BY <1>8, <2>2, <2>5, <2>6, Zenon
<1> QED BY <1>2, <1>4, <1>6, <1>7, <1>8, Zenon DEF Kmalloc

LEMMA KfreeKeeps ==
  ASSUME HeapInv, NEW p \in DOMAIN live, kfree(p)
  PROVE  HeapInv' /\ UseStep
<1> DEFINE a == p - HeaderUnits
           fw == MergeNext(Released(blocks, a), a)
           b == fw[a].previous
<1>1. /\ List(blocks, mapped) /\ Merged(blocks) /\ Held /\ used \in Int /\ pool \in Nat
      /\ panicked = FALSE /\ mapped \in Nat
  BY InvList, Zenon
<1>2. PICK x \in InUse(blocks) : p = x + HeaderUnits
  BY <1>1, Zenon DEF Held
<1>3. a \in InUse(blocks) /\ p = a + HeaderUnits /\ a \in Nat /\ a \in DOMAIN blocks
  BY <1>1, <1>2, ConstantsNat, Neighbours DEF InUse
<1>4. initialized = TRUE /\ HasLast(blocks) /\ 0 \in DOMAIN blocks
  BY <1>3, InvList, Zenon DEF InUse
<1>5. ~FreePanics(p)
  <2>1. IsValid(blocks, mapped, a)
    BY <1>1, <1>3, ListIsValid, Zenon
  <2>2. a + HeaderUnits + blocks[a].capacity <= mapped /\ blocks[a].capacity \in Nat
    BY <1>1, <1>3, <2>1, Neighbours, Zenon DEF IsValid, Block
  <2>3. /\ ~blocks[a].free /\ blocks[a].canary = blocks[a].cookie
        /\ Need(blocks[a].requested) <= blocks[a].capacity
    BY <1>1, <1>3, Zenon DEF List, Marked, InUse
  <2>4. Need(blocks[a].requested) \in Nat /\ Need(blocks[a].requested) > 0
    BY <1>1, <1>3, Neighbours, NeedNat, Zenon DEF Block
  <2>5. ~(p < HeaderUnits) /\ ~(p >= mapped)
    BY <1>1, <1>3, <2>2, <2>3, <2>4, ConstantsNat
  <2>6. ~(Need(blocks[a].requested) > blocks[a].capacity)
    BY <2>2, <2>3, <2>4
  <2> QED BY <2>1, <2>3, <2>5, <2>6, Zenon DEF FreePanics
<1> DEFINE h == IF b # Null /\ fw[b].free THEN MergeNext(fw, b) ELSE fw
<1>6. /\ fw = MergeNext(Released(blocks, a), a) /\ b = fw[a].previous
      /\ b # Null /\ fw[b].free => h = MergeNext(fw, b)
      /\ ~(b # Null /\ fw[b].free) => h = fw
  BY Zenon
<1>7. ~MergePanics(Released(blocks, a), mapped, a)
  BY <1>1, <1>3, <1>4, ReleasedMerged, Zenon
<1>8. (b # Null => IsValid(fw, mapped, b) /\ ~MergePanics(fw, mapped, b)) =>
        /\ blocks' = h /\ used' = used - blocks[a].requested /\ live' = Drop(live, p)
        /\ UNCHANGED <<mapped, initialized, window, pool, panicked>>
  BY <1>5, <1>7, Zenon DEF kfree
<1> HIDE DEF h, a, b, fw
<1>9. /\ b # Null => IsValid(fw, mapped, b) /\ ~MergePanics(fw, mapped, b)
      /\ List(h, mapped) /\ Merged(h) /\ HasLast(h) /\ 0 \in DOMAIN h
      /\ InUse(h) = InUse(blocks) \ {a}
      /\ \A y \in InUse(h) : h[y].requested = blocks[y].requested
  BY <1>1, <1>3, <1>4, <1>6, FreedMerged
<1>10. /\ blocks' = h /\ used' = used - blocks[a].requested /\ live' = Drop(live, p)
       /\ UNCHANGED <<mapped, initialized, window, pool, panicked>>
  BY <1>8, <1>9, Zenon
<1>11. used' \in Int
  BY <1>1, <1>3, <1>10, Neighbours DEF Block
<1>12. Held'
  BY <1>3, <1>9, <1>10, HeldFreed, Zenon
<1>13. live[p] = blocks[a].requested
  BY <1>1, Zenon DEF Held, a
<1>14. UseStep
  BY <1>10, <1>13, Zenon DEF UseStep
<1> QED BY <1>1, <1>4, <1>9, <1>10, <1>11, <1>12, <1>14, ListInv, Zenon

LEMMA StepKeeps ==
  ASSUME HeapInv, [Next]_vars
  PROVE  HeapInv' /\ UseStep
<1>1. CASE UNCHANGED vars
  BY <1>1, Zenon DEF vars, HeapInv, TypeOK, Held, UseStep
<1>2. CASE heap_init
  BY <1>2, HeapInitKeeps, Zenon DEF heap_init, UseStep
<1>3. ASSUME NEW size \in Sizes, kmalloc(size) PROVE HeapInv' /\ UseStep
  BY <1>3, HeapAssumption, KmallocKeeps, Zenon DEF kmalloc
<1>4. ASSUME NEW count \in Counts, NEW size \in Sizes, kcalloc(count, size)
      PROVE  HeapInv' /\ UseStep
  <2>0. count \in Nat /\ size \in Nat
    BY HeapAssumption, Zenon
  <2>1. CASE count # 0 /\ size > (Word - 1) \div count
    BY <1>1, <1>4, <2>1, Zenon DEF kcalloc
  <2>2. CASE ~(count # 0 /\ size > (Word - 1) \div count)
    <3> DEFINE n == count * size
    <3>1. n \in Nat /\ n % Word = n
      BY <2>0, <2>2, ProductFits, Zenon
    <3>2. Kmalloc(n % Word, n)
      BY <1>4, <2>2, Zenon DEF kcalloc
    <3> HIDE DEF n
    <3> QED BY <3>1, <3>2, KmallocKeeps, Zenon
  <2> QED BY <2>1, <2>2, Zenon
<1>5. ASSUME NEW p \in DOMAIN live, kfree(p) PROVE HeapInv' /\ UseStep
  BY <1>5, KfreeKeeps, Zenon
<1> QED BY <1>1, <1>2, <1>3, <1>4, <1>5, Zenon DEF Next

(* The allocator of memory/heap.c keeps its list sound, hands every caller *)
(* a block of its own with room for the request and its canary, and never  *)
(* panics, whatever its callers ask for and release.                       *)
THEOREM HeapIsSound ==
  Spec => []HeapInv
<1>1. Init => HeapInv
  BY InitEstablishes, Zenon
<1>2. HeapInv /\ [Next]_vars => HeapInv'
  BY StepKeeps, Zenon
<1> QED BY <1>1, <1>2, PTL DEF Spec

----------------------------------------------------------------------------
(* Every address of the window lies in a block. *)
LEMMA BlocksCover ==
  ASSUME NEW bs, NEW top, List(bs, top), 0 \in DOMAIN bs, NEW lo \in Nat, lo < top
  PROVE  \E a \in DOMAIN bs : a <= lo /\ lo < End(bs, a)
<1> DEFINE Below == {x \in DOMAIN bs : x <= lo}
           T == {lo - x : x \in Below}
<1>1. Below \subseteq Nat /\ 0 \in Below
  BY DEF List, Headers
<1>2. T \subseteq Nat /\ T # {}
  BY <1>1
<1>3. PICK t \in T : \A u \in T : t <= u
  <2> HIDE DEF T
  <2> QED BY <1>2, LeastNatural, Zenon
<1>4. PICK a \in Below : t = lo - a
  BY Zenon
<1>5. a \in DOMAIN bs /\ a \in Nat /\ a <= lo
  BY <1>1, <1>4, Zenon
<1>6. ASSUME NEW x \in DOMAIN bs, x <= lo PROVE x <= a
  <2>1. x \in Nat /\ lo - x \in T
    BY <1>1, <1>6, Zenon
  <2>2. lo - a <= lo - x
    BY <1>3, <1>4, <2>1, Zenon
  <2> QED BY <1>5, <2>1, <2>2
<1> HIDE DEF Below, T
<1>7. lo < End(bs, a)
  <2> SUFFICES ASSUME End(bs, a) <= lo PROVE FALSE
    BY <1>5, Neighbours, SMTT(30)
  <2>1. End(bs, a) # top /\ End(bs, a) \in Nat /\ a < End(bs, a)
    BY <1>5, Neighbours DEF List
  <2>2. bs[a].next # Null /\ bs[a].next = End(bs, a) /\ bs[a].next \in DOMAIN bs
    BY <1>5, <2>1, Zenon DEF List, Linked
  <2>3. End(bs, a) <= a
    BY <1>6, <2>2, Zenon
  <2> QED BY <1>5, <2>1, <2>3
<1> QED BY <1>5, <1>7, Zenon

(* A hole in front of the blocks in use lies in one free block. *)
LEMMA HoleFits ==
  ASSUME HeapInv, initialized, NEW size \in Nat, NEW lo \in Nat,
         IsHole(lo, Need(size) + HeaderUnits)
  PROVE  Fitting(blocks, Need(size)) # {}
<1> DEFINE n == Need(size) + HeaderUnits
<1>1. List(blocks, mapped) /\ Merged(blocks) /\ 0 \in DOMAIN blocks /\ mapped \in Nat
  BY InvList, Zenon
<1>2. Need(size) \in Nat /\ n \in Nat /\ n > 0 /\ n = Need(size) + HeaderUnits
  BY NeedNat, ConstantsNat
<1>3. /\ lo + n <= mapped
      /\ \A a \in DOMAIN blocks : ~blocks[a].free => End(blocks, a) <= lo \/ lo + n <= a
  BY Zenon DEF IsHole
<1> HIDE DEF n
<1>4. PICK a \in DOMAIN blocks : a <= lo /\ lo < End(blocks, a)
  BY <1>1, <1>2, <1>3, BlocksCover
<1>5. a \in Nat /\ End(blocks, a) \in Nat /\ blocks[a].capacity \in Nat
  BY <1>1, Neighbours, Zenon DEF Block
<1>6. blocks[a].free
  BY <1>2, <1>3, <1>4, <1>5
<1>7. lo + n <= End(blocks, a)
  <2>1. CASE blocks[a].next = Null
    BY <1>1, <1>3, <2>1, Zenon DEF List, Linked
  <2>2. CASE blocks[a].next # Null
    <3> DEFINE b == blocks[a].next
    <3>1. b \in DOMAIN blocks /\ b = End(blocks, a) /\ b < End(blocks, b) /\ End(blocks, b) \in Nat
      BY <1>1, <2>2, Neighbours, Zenon
    <3> HIDE DEF b
    <3>2. ~blocks[b].free
      BY <1>1, <1>6, <3>1, Zenon DEF Merged
    <3>3. End(blocks, b) <= lo \/ lo + n <= b
      BY <1>3, <3>1, <3>2, Zenon
    <3> QED BY <1>4, <1>5, <3>1, <3>3
  <2> QED BY <2>1, <2>2, Zenon
<1>8. blocks[a].capacity >= Need(size)
  BY <1>2, <1>4, <1>5, <1>7, ConstantsNat DEF End
<1> QED BY <1>6, <1>8, Zenon DEF Fitting

(* find_free_block finds a block whenever the bytes in use leave room for  *)
(* one: the merging in kfree and expand_heap is complete.                  *)
THEOREM FreeSpaceAlwaysFound ==
  Spec => []FreeSpaceIsFound
<1>1. ASSUME HeapInv PROVE FreeSpaceIsFound
  <2> SUFFICES ASSUME NEW size \in Sizes, ~IllegalSize(size), NEW lo \in 0 .. mapped,
                      IsHole(lo, Need(size) + HeaderUnits)
               PROVE  Fitting(blocks, Need(size)) # {}
    BY Zenon DEF FreeSpaceIsFound
  <2>1. size \in Nat /\ lo \in Nat /\ initialized
    BY <1>1, HeapAssumption, InvList DEF IllegalSize
  <2> QED BY <1>1, <2>1, HoleFits, Zenon
<1> QED BY <1>1, HeapIsSound, PTL

----------------------------------------------------------------------------
(* Induction over the subsets of a finite set, the property as a set. *)
LEMMA BySubsets ==
  ASSUME NEW U, IsFiniteSet(U), NEW P,
         \A s \in SUBSET U : (\A t \in SUBSET s : t # s => t \in P) => s \in P
  PROVE  \A s \in SUBSET U : s \in P
<1> DEFINE T == {s \in SUBSET U : s \notin P}
           R == StrictSubsetOrdering(U)
<1> SUFFICES ASSUME T # {} PROVE FALSE
  BY Zenon
<1>1. IsWellFoundedOn(R, SUBSET U)
  <2>1. FiniteSubsetsOf(U) = SUBSET U
    BY FS_FiniteSubsetsOfFinite, Zenon
  <2>2. IsWellFoundedOn(R, FiniteSubsetsOf(U))
    BY FS_StrictSubsetOrderingWellFounded, Zenon
  <2> HIDE DEF R
  <2> QED BY <2>1, <2>2, Zenon
<1> HIDE DEF R
<1>2. PICK s \in T : \A t \in T : ~(<<t, s>> \in R)
  <2>1. T \subseteq SUBSET U
    BY Zenon
  <2> DEFINE Q == SUBSET U
  <2>2. IsWellFoundedOn(R, Q) /\ T \subseteq Q
    BY <1>1, <2>1, Zenon
  <2> HIDE DEF T, Q
  <2> QED BY <2>2, WFMin
<1>3. ASSUME NEW t \in SUBSET s, t # s PROVE t \in P
  <2>1. t \in SUBSET U
    BY <1>2, Zenon
  <2>2. <<t, s>> \in R
    BY <1>2, <1>3, <2>1, Zenon DEF R, StrictSubsetOrdering
  <2> QED BY <1>2, <2>1, <2>2, Zenon
<1> QED BY <1>2, <1>3, Zenon

(* The loop of a sum over the set S, and the sum it computes. *)
First(s) == CHOOSE x \in s : TRUE

IsSum(h, g, S) ==
  h = [s \in SUBSET S |-> IF s = {} THEN 0 ELSE g[First(s)] + h[s \ {First(s)}]]

Total(g, S) == MapThenSumSet(LAMBDA p : g[p], S)

(* The loop takes one element of the set and goes on with a smaller one. *)
LEMMA FirstIs ==
  ASSUME NEW s, s # {}
  PROVE  /\ First(s) \in s /\ s \ {First(s)} \in SUBSET s /\ s \ {First(s)} # s
<1>1. First(s) \in s
  BY Zenon DEF First
<1> QED BY <1>1, Zenon

(* One turn of the loop, the last one included. *)
LEMMA SumAt ==
  ASSUME NEW h, NEW g, NEW S, IsSum(h, g, S), NEW s \in SUBSET S
  PROVE  /\ s = {} => h[s] = 0
         /\ s # {} => h[s] = g[First(s)] + h[s \ {First(s)}]
<1>1. h[s] = IF s = {} THEN 0 ELSE g[First(s)] + h[s \ {First(s)}]
  BY Zenon DEF IsSum
<1> QED BY <1>1, Zenon

Unfolds(h, g, S) == \A s \in SUBSET S : s # {} => h[s] = g[First(s)] + h[s \ {First(s)}]

(* A sum unfolds at every set that is not empty. *)
LEMMA SumUnfolds ==
  ASSUME NEW h, NEW g, NEW S, IsSum(h, g, S)
  PROVE  Unfolds(h, g, S)
<1> SUFFICES ASSUME NEW s \in SUBSET S, s # {}
             PROVE  h[s] = g[First(s)] + h[s \ {First(s)}]
  BY Zenon DEF Unfolds
<1>1. h[s] = IF s = {} THEN 0 ELSE g[First(s)] + h[s \ {First(s)}]
  BY Zenon DEF IsSum
<1> QED BY <1>1, Zenon

(* Two sums over sets that share t and the numbers in it agree on t. *)
LEMMA SumUnique ==
  ASSUME NEW h, NEW g, NEW S, IsSum(h, g, S), NEW k, NEW f, NEW V, IsSum(k, f, V),
         NEW U, IsFiniteSet(U), U \subseteq S, U \subseteq V,
         \A x \in U : g[x] = f[x]
  PROVE  h[U] = k[U]
<1>0. Unfolds(h, g, S) /\ Unfolds(k, f, V)
  BY SumUnfolds, Zenon
<1> DEFINE P == {t \in SUBSET U : h[t] = k[t]}
<1>1. ASSUME NEW s \in SUBSET U, \A t \in SUBSET s : t # s => t \in P PROVE s \in P
  <2>0. s \in SUBSET S /\ s \in SUBSET V
    BY Zenon
  <2>1. CASE s = {}
    BY <2>0, <2>1, SumAt, Zenon
  <2>2. CASE s # {}
    <3>3. First(s) \in s /\ s \ {First(s)} \in SUBSET s /\ s \ {First(s)} # s
      BY <2>2, FirstIs, Zenon
    <3>1. g[First(s)] = f[First(s)] /\ h[s \ {First(s)}] = k[s \ {First(s)}]
      <4>1. s \ {First(s)} \in P
        BY <1>1, <3>3, Zenon
      <4>2. First(s) \in U
        BY <3>3, Zenon
      <4> QED BY <4>1, <4>2, Zenon
    <3>2. h[s] = g[First(s)] + h[s \ {First(s)}] /\ k[s] = f[First(s)] + k[s \ {First(s)}]
      BY <1>0, <2>0, <2>2, Zenon DEF Unfolds
    <3> QED BY <3>1, <3>2, Zenon
  <2> QED BY <2>1, <2>2, Zenon
<1> HIDE DEF P
<1>2. \A s \in SUBSET U : s \in P
  BY <1>1, BySubsets, Zenon
<1> QED BY <1>2, Zenon DEF P

(* Every finite set has its sum. *)
LEMMA SumExists ==
  ASSUME NEW g, NEW U, IsFiniteSet(U)
  PROVE  \E h : IsSum(h, g, U)
<1> DEFINE V(t) == (CHOOSE h : IsSum(h, g, t))[t]
           P == {s \in SUBSET U : \E h : IsSum(h, g, s)}
<1>1. ASSUME NEW s \in SUBSET U, \A t \in SUBSET s : t # s => t \in P PROVE s \in P
  <2> DEFINE v(r) == IF r # s THEN V(r) ELSE IF s = {} THEN 0
                     ELSE g[First(s)] + V(s \ {First(s)})
             k == [r \in SUBSET s |-> v(r)]
  <2>1. ASSUME NEW r \in SUBSET s, r # s
        PROVE  /\ r = {} => V(r) = 0
               /\ r # {} => V(r) = g[First(r)] + V(r \ {First(r)})
    <3> DEFINE h == CHOOSE q : IsSum(q, g, r)
    <3>1. IsSum(h, g, r)
      BY <1>1, <2>1, Zenon
    <3>2. V(r) = h[r]
      BY Zenon
    <3> HIDE DEF h
    <3>3. CASE r = {}
      BY <3>1, <3>2, <3>3, SumAt, Zenon
    <3>4. CASE r # {}
      <4> DEFINE d == r \ {First(r)}
                 e == CHOOSE q : IsSum(q, g, d)
      <4>1. d \in SUBSET s /\ d # s /\ d \subseteq r
        BY <2>1, <3>4, FirstIs, Zenon
      <4>2. IsSum(e, g, d) /\ V(d) = e[d]
        BY <1>1, <4>1, Zenon
      <4>3. h[r] = g[First(r)] + h[d]
        <5>1. r \in SUBSET r
          BY Zenon
        <5> HIDE DEF e
        <5> QED BY <3>1, <3>4, <5>1, SumAt
      <4>4. IsFiniteSet(d)
        BY <4>1, FS_Subset, Zenon
      <4> HIDE DEF e, d
      <4>5. e[d] = h[d]
        BY <3>1, <4>1, <4>2, <4>4, SumUnique
      <4> QED BY <3>2, <3>4, <4>2, <4>3, <4>5, Zenon DEF d
    <3> QED BY <3>3, <3>4, Zenon
  <2> HIDE DEF V
  <2>2. ASSUME NEW r \in SUBSET s
        PROVE  v(r) = IF r = {} THEN 0 ELSE g[First(r)] + k[r \ {First(r)}]
    <3>1. CASE r # s
      <4>1. CASE r = {}
        BY <2>1, <3>1, <4>1, Zenon
      <4>2. CASE r # {}
        <5>1. r \ {First(r)} \in SUBSET s /\ r \ {First(r)} # s
          BY <3>1, <4>2, FirstIs, Zenon
        <5>2. k[r \ {First(r)}] = V(r \ {First(r)})
          BY <5>1, Zenon
        <5> QED BY <2>1, <3>1, <4>2, <5>2, Zenon
      <4> QED BY <4>1, <4>2, Zenon
    <3>2. CASE r = s
      <4>1. CASE s = {}
        BY <3>2, <4>1, Zenon
      <4>2. CASE s # {}
        <5>1. s \ {First(s)} \in SUBSET s /\ s \ {First(s)} # s
          BY <4>2, FirstIs, Zenon
        <5>2. k[s \ {First(s)}] = V(s \ {First(s)})
          BY <5>1, Zenon
        <5> QED BY <3>2, <4>2, <5>2, Zenon
      <4> QED BY <4>1, <4>2, Zenon
    <3> QED BY <3>1, <3>2, Zenon
  <2>3. k = [r \in SUBSET s |-> IF r = {} THEN 0 ELSE g[First(r)] + k[r \ {First(r)}]]
    <3>1. \A r \in SUBSET s : v(r) = IF r = {} THEN 0 ELSE g[First(r)] + k[r \ {First(r)}]
      BY <2>2, Zenon
    <3> HIDE DEF v
    <3>2. k = [r \in SUBSET s |-> v(r)]
      BY Zenon
    <3> HIDE DEF k
    <3> QED BY <3>1, <3>2, Zenon
  <2> HIDE DEF k
  <2>4. IsSum(k, g, s)
    BY <2>3, Zenon DEF IsSum
  <2> QED BY <2>4, Zenon
<1> HIDE DEF P
<1>2. U \in P
  BY <1>1, BySubsets, Zenon
<1> QED BY <1>2, Zenon DEF P

(* Total is the value of that loop. *)
LEMMA TotalIs ==
  ASSUME NEW g, NEW S, IsFiniteSet(S)
  PROVE  \E h : IsSum(h, g, S) /\ Total(g, S) = h[S]
<1> DEFINE step(h) == [s \in SUBSET S |-> IF s = {} THEN 0
                                          ELSE g[First(s)] + h[s \ {First(s)}]]
           K == CHOOSE h : h = step(h)
<1>1. Total(g, S) = K[S]
  BY Zenon DEF Total, MapThenSumSet, MapThenFoldSet, First
<1>2. \E h : h = step(h)
  <2>1. PICK h : IsSum(h, g, S)
    BY SumExists, Zenon
  <2>2. h = step(h)
    BY <2>1, Zenon DEF IsSum
  <2> HIDE DEF step
  <2> QED BY <2>2, Zenon
<1>3. K = step(K)
  <2> HIDE DEF step
  <2> QED BY <1>2, Zenon
<1>4. IsSum(K, g, S)
  BY <1>3, Zenon DEF IsSum
<1> HIDE DEF K
<1> QED BY <1>1, <1>4, Zenon

(* The order in which a sum is taken does not matter. *)
LEMMA SumTakesAny ==
  ASSUME NEW g, NEW S, IsFiniteSet(S), \A x \in S : g[x] \in Nat, NEW h, IsSum(h, g, S)
  PROVE  \A s \in SUBSET S : h[s] \in Nat /\ \A x \in s : h[s] = g[x] + h[s \ {x}]
<1> DEFINE P == {s \in SUBSET S : h[s] \in Nat /\ \A x \in s : h[s] = g[x] + h[s \ {x}]}
<1>1. ASSUME NEW s \in SUBSET S, \A t \in SUBSET s : t # s => t \in P PROVE s \in P
  <2>1. CASE s = {}
    <3>1. h[s] = 0
      BY <2>1, SumAt, Zenon
    <3>2. h[s] \in Nat
      BY <3>1
    <3> QED BY <2>1, <3>2, Zenon
  <2>2. CASE s # {}
    <3> DEFINE y == First(s)
    <3>1. y \in s /\ s \ {y} \in P /\ h[s] = g[y] + h[s \ {y}] /\ g[y] \in Nat
      <4>1. y \in s /\ s \ {y} \in SUBSET s /\ s \ {y} # s
        BY <2>2, FirstIs, Zenon
      <4>2. h[s] = g[y] + h[s \ {y}]
        BY <2>2, SumAt
      <4> HIDE DEF y
      <4> QED BY <1>1, <4>1, <4>2, Zenon
    <3> HIDE DEF y
    <3>2. h[s \ {y}] \in Nat
      BY <3>1, Zenon
    <3>3. ASSUME NEW x \in s PROVE h[s] = g[x] + h[s \ {x}]
      <4>1. CASE x = y
        BY <3>1, <4>1, Zenon
      <4>2. CASE x # y
        <5> DEFINE d == (s \ {y}) \ {x}
        <5>1. s \ {x} \in P /\ d \in P /\ d = (s \ {x}) \ {y} /\ x \in s \ {y} /\ y \in s \ {x}
          <6>1. s \ {x} \in SUBSET s /\ s \ {x} # s /\ d \in SUBSET s /\ d # s
            BY Zenon
          <6> QED BY <1>1, <3>1, <4>2, <6>1, Zenon
        <5>2. h[s \ {y}] = g[x] + h[d] /\ h[s \ {x}] = g[y] + h[d] /\ h[d] \in Nat
          BY <3>1, <5>1, Zenon
        <5>3. g[x] \in Nat
          BY Zenon
        <5> HIDE DEF d, P
        <5>4. h[s] = g[y] + (g[x] + h[d])
          BY <3>1, <5>2, Zenon
        <5>5. g[y] + (g[x] + h[d]) = g[x] + (g[y] + h[d])
          BY <3>1, <5>2, <5>3
        <5> QED BY <5>2, <5>4, <5>5, Zenon
      <4> QED BY <4>1, <4>2, Zenon
    <3>4. h[s] \in Nat
      BY <3>1, <3>2
    <3> QED BY <3>3, <3>4, Zenon
  <2> QED BY <2>1, <2>2, Zenon
<1> HIDE DEF P
<1>2. \A s \in SUBSET S : s \in P
  BY <1>1, BySubsets, Zenon
<1> QED BY <1>2, Zenon DEF P

(* One number more. *)
LEMMA TotalAdds ==
  ASSUME NEW f, NEW g, NEW S, IsFiniteSet(S), NEW p, p \notin S,
         \A x \in S : g[x] = f[x], \A x \in S \cup {p} : g[x] \in Nat
  PROVE  Total(g, S \cup {p}) = Total(f, S) + g[p] /\ Total(f, S) \in Nat
<1> DEFINE V == S \cup {p}
<1>1. IsFiniteSet(V)
  BY FS_AddElement, Zenon
<1>2. PICK h : IsSum(h, g, V) /\ Total(g, V) = h[V]
  BY <1>1, TotalIs, Zenon
<1>3. PICK k : IsSum(k, f, S) /\ Total(f, S) = k[S]
  BY TotalIs, Zenon
<1>4. h[S] = k[S]
  <2>1. S \subseteq V
    BY Zenon
  <2> HIDE DEF V
  <2> QED BY <1>2, <1>3, <2>1, SumUnique
<1>5. V \ {p} = S /\ p \in V /\ S \in SUBSET V /\ \A x \in V : g[x] \in Nat
  BY Zenon
<1> HIDE DEF V
<1>6. h[V] = g[p] + h[S] /\ h[S] \in Nat
  <2>1. \A s \in SUBSET V : h[s] \in Nat /\ \A x \in s : h[s] = g[x] + h[s \ {x}]
    BY <1>1, <1>2, <1>5, SumTakesAny, SMTT(30)
  <2>2. V \in SUBSET V
    BY Zenon
  <2> QED BY <1>5, <2>1, <2>2, Zenon
<1>7. g[p] \in Nat
  BY <1>5, Zenon
<1>8. h[V] = h[S] + g[p]
  BY <1>6, <1>7
<1> QED BY <1>2, <1>3, <1>4, <1>6, <1>8, Zenon DEF V

(* Nothing held is zero bytes. *)
LEMMA TotalOfNothing ==
  ASSUME NEW f
  PROVE  Total(f, {}) = 0
<1>1. PICK h : IsSum(h, f, {}) /\ Total(f, {}) = h[{}]
  BY FS_EmptySet, TotalIs, Zenon
<1> QED BY <1>1, SumAt, Zenon

----------------------------------------------------------------------------
(* What the callers hold: finitely many pointers, each for some bytes. *)
LEMMA LiveIsFinite ==
  ASSUME HeapInv
  PROVE  IsFiniteSet(DOMAIN live) /\ \A p \in DOMAIN live : live[p] \in Nat
<1>1. List(blocks, mapped) /\ Held /\ mapped \in Nat
  BY InvList, Zenon
<1>2. ASSUME NEW p \in DOMAIN live PROVE p \in 0 .. mapped /\ live[p] \in Nat
  <2>1. PICK a \in InUse(blocks) : p = a + HeaderUnits
    BY <1>1, Zenon DEF Held
  <2>2. a \in DOMAIN blocks /\ a \in Nat /\ blocks[a] \in Block /\ End(blocks, a) <= mapped
    BY <1>1, <2>1, Zenon DEF InUse, List, Headers, Linked
  <2>3. blocks[a].capacity \in Nat /\ blocks[a].requested \in Nat
    BY <2>2, Zenon DEF Block
  <2>4. p \in 0 .. mapped /\ p - HeaderUnits = a
    BY <1>1, <2>1, <2>2, <2>3, ConstantsNat DEF End
  <2>5. live[p] = blocks[p - HeaderUnits].requested
    BY <1>1, Zenon DEF Held
  <2> QED BY <2>3, <2>4, <2>5, Zenon
<1>3. IsFiniteSet(0 .. mapped) /\ DOMAIN live \in SUBSET (0 .. mapped)
  BY <1>1, <1>2, FS_Interval
<1> QED BY <1>2, <1>3, FS_Subset, Zenon

(* used_bytes follows the callers through every call. *)
LEMMA UsedFollows ==
  ASSUME HeapInv, UseStep, used = Total(live, DOMAIN live)
  PROVE  used' = Total(live', DOMAIN live')
<1>1. /\ IsFiniteSet(DOMAIN live) /\ \A p \in DOMAIN live : live[p] \in Nat
      /\ used \in Int
  BY LiveIsFinite, InvList, Zenon
<1>2. CASE UNCHANGED <<used, live>>
  BY <1>2, Zenon
<1>3. ASSUME NEW size \in Nat, Grant(size) PROVE used' = Total(live', DOMAIN live')
  <2>1. PICK p \in Nat : p \notin DOMAIN live /\ live' = Put(live, p, size) /\ used' = used + size
    BY <1>3, Zenon DEF Grant
  <2>2. /\ DOMAIN live' = DOMAIN live \cup {p} /\ live'[p] = size
        /\ \A x \in DOMAIN live : live'[x] = live[x]
    BY <2>1, Zenon DEF Put
  <2>3. \A x \in DOMAIN live \cup {p} : live'[x] \in Nat
    BY <1>1, <2>2, Zenon
  <2>4. Total(live', DOMAIN live \cup {p}) = Total(live, DOMAIN live) + live'[p]
    BY <1>1, <2>1, <2>2, <2>3, TotalAdds
  <2> QED BY <2>1, <2>2, <2>4, Zenon
<1>4. ASSUME NEW p \in DOMAIN live, live' = Drop(live, p), used' = used - live[p]
      PROVE  used' = Total(live', DOMAIN live')
  <2> DEFINE S == DOMAIN live \ {p}
  <2>1. /\ DOMAIN live' = S /\ p \notin S /\ S \cup {p} = DOMAIN live
        /\ \A x \in S : live[x] = live'[x]
    BY <1>4, Zenon DEF Drop
  <2>2. IsFiniteSet(S)
    BY <1>1, FS_RemoveElement, Zenon
  <2>3. \A x \in S \cup {p} : live[x] \in Nat
    BY <1>1, <2>1, Zenon
  <2> HIDE DEF S
  <2>4. Total(live, S \cup {p}) = Total(live', S) + live[p] /\ Total(live', S) \in Nat
    BY <2>1, <2>2, <2>3, TotalAdds
  <2>5. used = Total(live', S) + live[p]
    BY <2>1, <2>4, Zenon
  <2>6. live[p] \in Nat
    BY <1>1, Zenon
  <2>7. used' = Total(live', S)
    BY <1>4, <2>4, <2>5, <2>6
  <2> QED BY <2>1, <2>7, Zenon
<1> QED BY <1>2, <1>3, <1>4, Zenon DEF UseStep

----------------------------------------------------------------------------
(* The pages of the window and the frames of the pool. *)
PagesStep ==
  \/ UNCHANGED <<mapped, window, pool>>
  \/ \E units \in Nat : units > 0 /\ GrowFails(units) /\ mapped' = mapped
  \/ \E units \in Nat : units > 0 /\ GrowSucceeds(units)

(* kmalloc touches the window and the pool only in expand_heap. *)
LEMMA KmallocPages ==
  ASSUME NEW size \in Nat, NEW want, Kmalloc(size, want)
  PROVE  PagesStep
<1>1. Need(size) + HeaderUnits \in Nat /\ Need(size) + HeaderUnits > 0
  BY NeedNat, ConstantsNat
<1>2. \/ UNCHANGED <<mapped, window, pool>>
      \/ GrowFails(Need(size) + HeaderUnits) /\ mapped' = mapped
      \/ GrowSucceeds(Need(size) + HeaderUnits)
  BY Zenon DEF Kmalloc, vars, kernel_panic
<1> QED BY <1>1, <1>2, Zenon DEF PagesStep

(* So does every other call; kfree gives no page back. *)
LEMMA NextPages ==
  ASSUME [Next]_vars
  PROVE  PagesStep
<1>1. CASE UNCHANGED vars
  BY <1>1, Zenon DEF vars, PagesStep
<1>2. CASE heap_init
  <2>1. PageUnits \in Nat /\ PageUnits > 0
    BY ConstantsNat
  <2> QED BY <1>2, <2>1, Zenon DEF heap_init, PagesStep
<1>3. ASSUME NEW size \in Sizes, kmalloc(size) PROVE PagesStep
  BY <1>3, HeapAssumption, KmallocPages, Zenon DEF kmalloc
<1>4. ASSUME NEW count \in Counts, NEW size \in Sizes, kcalloc(count, size) PROVE PagesStep
  <2>0. count \in Nat /\ size \in Nat
    BY HeapAssumption, Zenon
  <2>1. CASE count # 0 /\ size > (Word - 1) \div count
    BY <1>1, <1>4, <2>1, Zenon DEF kcalloc
  <2>2. CASE ~(count # 0 /\ size > (Word - 1) \div count)
    <3> DEFINE n == count * size
    <3>1. n \in Nat /\ n % Word = n
      BY <2>0, <2>2, ProductFits, Zenon
    <3>2. Kmalloc(n % Word, n)
      BY <1>4, <2>2, Zenon DEF kcalloc
    <3> HIDE DEF n
    <3> QED BY <3>1, <3>2, KmallocPages, Zenon
  <2> QED BY <2>1, <2>2, Zenon
<1>5. ASSUME NEW p \in DOMAIN live, kfree(p) PROVE PagesStep
  BY <1>5, Zenon DEF kfree, kernel_panic, PagesStep
<1> QED BY <1>1, <1>2, <1>3, <1>4, <1>5, Zenon DEF Next

(* n pages more are n page numbers more. *)
LEMMA DivAdds ==
  ASSUME NEW x \in Nat, NEW n \in Nat, NEW d \in Nat, d > 0
  PROVE  (x + n * d) \div d = x \div d + n
<1> DEFINE q == x \div d
           r == (x + n * d) \div d
<1>1. n * d \in Nat
  OBVIOUS
<1>2. q \in Nat /\ q * d <= x /\ x < q * d + d
  BY DivNat
<1>3. x + n * d \in Nat
  BY <1>1
<1>4. r \in Nat /\ r * d <= x + n * d /\ x + n * d < r * d + d
  BY <1>3, DivNat
<1> HIDE DEF q, r
<1>5. (q + n) * d = q * d + n * d /\ (r + 1) * d = r * d + d /\ (q + n + 1) * d = q * d + n * d + d
  BY <1>2, <1>4
<1>6. ASSUME NEW i \in Nat, NEW j \in Nat, i * d < j * d PROVE i < j
  <2>1. ASSUME j <= i PROVE j * d <= i * d
    BY <2>1
  <2> QED BY <1>6, <2>1
<1>7. (q + n) * d < (r + 1) * d /\ r * d < (q + n + 1) * d
  <2>1. q * d \in Nat /\ r * d \in Nat
    BY <1>2, <1>4
  <2> QED BY <1>1, <1>2, <1>4, <1>5, <2>1
<1>8. q + n < r + 1 /\ r < q + n + 1
  <2>1. q + n \in Nat /\ r + 1 \in Nat /\ q + n + 1 \in Nat
    BY <1>2, <1>4
  <2> QED BY <1>4, <1>6, <1>7, <2>1
<1>9. r = q + n
  BY <1>2, <1>4, <1>8
<1> QED BY <1>9, Zenon DEF q, r

(* Every frame of the pool is free or behind a page below mapped_bytes. *)
FramesAddUp ==
  window = 0 .. mapped \div PageUnits - 1 /\ pool + Cardinality(window) = PoolFrames

(* A page joins the window with a frame of the pool, or neither moves. *)
LEMMA FramesFollow ==
  ASSUME HeapInv, FramesAddUp, PagesStep
  PROVE  FramesAddUp'
<1> DEFINE m == mapped \div PageUnits
<1>1. mapped \in Nat /\ pool \in Nat /\ m \in Nat
  BY InvList, ConstantsNat, DivNat
<1>2. window = 0 .. m - 1 /\ pool + Cardinality(window) = PoolFrames
  BY Zenon DEF FramesAddUp
<1>3. \A n \in Nat : NewPages(n) = {m + k : k \in 0 .. n - 1}
  BY Zenon DEF NewPages
<1> HIDE DEF m
<1>4. ASSUME NEW n \in Nat
      PROVE  /\ NewPages(n) = m .. (m + n) - 1 /\ Cardinality(NewPages(n)) = n
             /\ window \cup NewPages(n) = 0 .. (m + n) - 1 /\ window \cap NewPages(n) = {}
  <2>1. NewPages(n) = m .. (m + n) - 1
    <3>1. ASSUME NEW y \in m .. (m + n) - 1 PROVE y - m \in 0 .. n - 1 /\ y = m + (y - m)
      BY <1>1
    <3>2. ASSUME NEW k \in 0 .. n - 1 PROVE m + k \in m .. (m + n) - 1
      BY <1>1
    <3> QED BY <1>3, <3>1, <3>2, Zenon
  <2>2. Cardinality(m .. (m + n) - 1) = n
    BY <1>1, FS_Interval
  <2>3. (0 .. m - 1) \cup (m .. (m + n) - 1) = 0 .. (m + n) - 1
    BY <1>1
  <2>4. (0 .. m - 1) \cap (m .. (m + n) - 1) = {}
    BY <1>1
  <2> QED BY <1>2, <2>1, <2>2, <2>3, <2>4, Zenon
<1>5. \A n \in Nat : Cardinality(0 .. n - 1) = n
  BY FS_Interval
<1>6. CASE UNCHANGED <<mapped, window, pool>>
  BY <1>6, Zenon DEF FramesAddUp
<1>7. ASSUME NEW units \in Nat, units > 0, GrowFails(units), mapped' = mapped PROVE FramesAddUp'
  <2>1. Pages(units) \in Nat
    BY <1>7, PagesNat, Zenon
  <2>2. PICK got \in 0 .. Pages(units) - 1 :
          /\ got <= pool
          /\ window' = (window \cup NewPages(got)) \ NewPages(got)
          /\ pool' = pool - got + Cardinality((window \cup NewPages(got)) \cap NewPages(got))
    BY <1>7, Zenon DEF GrowFails, RolledBack
  <2>3. got \in Nat
    BY <2>1
  <2>4. /\ (window \cup NewPages(got)) \ NewPages(got) = window
        /\ (window \cup NewPages(got)) \cap NewPages(got) = NewPages(got)
        /\ Cardinality(NewPages(got)) = got
    BY <1>4, <2>3, Zenon
  <2>5. pool' = pool
    BY <1>1, <2>2, <2>3, <2>4
  <2> QED BY <1>7, <2>2, <2>4, <2>5, Zenon DEF FramesAddUp
<1>8. ASSUME NEW units \in Nat, units > 0, GrowSucceeds(units) PROVE FramesAddUp'
  <2> DEFINE n == Pages(units)
  <2>1. n \in Nat
    BY <1>8, PagesNat, Zenon
  <2>2. /\ window' = window \cup NewPages(n) /\ pool' = pool - n
        /\ mapped' = mapped + n * PageUnits
    BY <1>8, Zenon DEF GrowSucceeds
  <2> HIDE DEF n
  <2>3. mapped' \div PageUnits = m + n
    BY <1>1, <2>1, <2>2, ConstantsNat, DivAdds DEF m
  <2>4. window' = 0 .. (m + n) - 1
    BY <1>4, <2>1, <2>2, Zenon
  <2>5. Cardinality(window') = m + n /\ Cardinality(window) = m
    BY <1>1, <1>2, <1>5, <2>1, <2>4
  <2>6. pool' + Cardinality(window') = PoolFrames
    BY <1>1, <1>2, <2>1, <2>2, <2>5
  <2> QED BY <2>3, <2>4, <2>6, Zenon DEF FramesAddUp
<1> QED BY <1>6, <1>7, <1>8, Zenon DEF PagesStep

(* used_bytes of memory/heap.c is what the callers hold, and no frame is   *)
(* lost: each is in the pool or behind a page below mapped_bytes, also     *)
(* after a growth that fails half way and rolls its pages back.            *)
THEOREM BytesAlwaysAddUp ==
  Spec => []BytesAddUp
<1> DEFINE I == HeapInv /\ used = Total(live, DOMAIN live) /\ FramesAddUp
<1>1. Init => I
  <2> SUFFICES ASSUME Init PROVE I
    OBVIOUS
  <2>1. DOMAIN live = {} /\ used = 0 /\ window = {} /\ mapped = 0 /\ pool = PoolFrames
    BY Zenon DEF Init
  <2>2. Total(live, DOMAIN live) = 0
    BY <2>1, TotalOfNothing, Zenon
  <2>3. 0 \div PageUnits = 0 /\ 0 .. 0 - 1 = {}
    BY ConstantsNat
  <2>4. pool + Cardinality(window) = PoolFrames
    BY <2>1, FS_EmptySet, ConstantsNat
  <2> QED BY <2>1, <2>2, <2>3, <2>4, InitEstablishes DEF FramesAddUp
<1>2. I /\ [Next]_vars => I'
  BY StepKeeps, UsedFollows, NextPages, FramesFollow, Zenon
<1>3. I => BytesAddUp
  BY Zenon DEF BytesAddUp, FramesAddUp, Total
<1> QED BY <1>1, <1>2, <1>3, PTL DEF Spec

=============================================================================
