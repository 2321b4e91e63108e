---------------------------- MODULE SearchTrees ----------------------------
(***************************************************************************)
(* Search trees in general, as sets of nodes that name their children: how *)
(* they are split, merged and read.  BplusTreeProofs is about the steps of *)
(* BplusTree; here are the trees those steps make, and the functions of    *)
(* BplusTree that follow pointers, for exact keys (Eps = 1).               *)
(***************************************************************************)
EXTENDS BplusTree, TLAPS, NaturalsInduction, WellFoundedInduction, FiniteSetTheorems

(* Keys and their order *)

K == Int \X Int

Lt(j, k) == j[1] < k[1] \/ (j[1] = k[1] /\ j[2] < k[2])

Ascending(keys) == \A i, j \in 1 .. Len(keys) : i < j => Lt(keys[i], keys[j])

Convex(S) == \A a, b \in S, k \in K : Lt(a, k) /\ Lt(k, b) => k \in S

Before(S, T) == \A j \in S, k \in T : Lt(j, k)

\* The keys of S that keys sends to its place i
Slot(S, keys, i) ==
  {k \in S : (i > 1 => ~Lt(k, keys[i - 1])) /\ (i <= Len(keys) => Lt(k, keys[i]))}

-----------------------------------------------------------------------------
(* A search tree: the nodes ns with the root r. Every node x has a height  *)
(* h[x] and a span sp[x], the keys that are looked for below it; rk falls  *)
(* along the chain of the leaves.                                          *)

PageIds == 1 .. MaxPage + 1

NodeType == [leaf : BOOLEAN, parent : Int, keys : Seq(Entries), ptrs : Seq(Int), next : Int]

Leaves(ns) == {p \in DOMAIN ns : ns[p].leaf}
Nexts(ns) == [p \in Leaves(ns) |-> ns[p].next]

NodesOK(ns) == DOMAIN ns \subseteq PageIds /\ \A x \in DOMAIN ns : ns[x] \in NodeType

GhostsOK(h, sp, rk) ==
  h \in [PageIds -> Nat] /\ sp \in [PageIds -> SUBSET K] /\ rk \in [PageIds -> Nat \ {0}]

RootAt(ns, r, sp) == r \in DOMAIN ns /\ ns[r].parent = -1 /\ sp[r] = K

SpanAt(sp, x) == sp[x] # {} /\ Convex(sp[x])

KeysAt(ns, sp, x) ==
  Ascending(ns[x].keys) /\ \A i \in 1 .. Len(ns[x].keys) : ns[x].keys[i] \in sp[x]

LeafAt(ns, h, x) ==
  /\ h[x] = 0
  /\ Len(ns[x].ptrs) = Len(ns[x].keys)
  /\ \A i \in 1 .. Len(ns[x].keys) : ns[x].ptrs[i] = ns[x].keys[i][2]

EdgeAt(ns, h, sp, x, i) ==
  /\ ns[x].ptrs[i] \in DOMAIN ns
  /\ ns[ns[x].ptrs[i]].parent = x
  /\ h[ns[x].ptrs[i]] + 1 = h[x]
  /\ sp[ns[x].ptrs[i]] = Slot(sp[x], ns[x].keys, i)

InnerAt(ns, h, sp, x) ==
  /\ ns[x].next = 0
  /\ Len(ns[x].ptrs) = Len(ns[x].keys) + 1
  /\ \A i \in 1 .. Len(ns[x].ptrs) : EdgeAt(ns, h, sp, x, i)

NodeAt(ns, h, sp, x) ==
  /\ SpanAt(sp, x)
  /\ KeysAt(ns, sp, x)
  /\ ns[x].leaf => LeafAt(ns, h, x)
  /\ ~ns[x].leaf => InnerAt(ns, h, sp, x)

UpAt(ns, x) ==
  /\ ns[x].parent \in DOMAIN ns
  /\ ~ns[ns[x].parent].leaf
  /\ \E i \in 1 .. Len(ns[ns[x].parent].ptrs) : ns[ns[x].parent].ptrs[i] = x

\* The leaves L with the spans sp, each linked to the one after it
NextAt(L, sp, nx, rk, p) ==
  \/ nx[p] = 0 /\ \A x \in L \ {p} : Before(sp[x], sp[p])
  \/ /\ nx[p] \in L \ {p} /\ rk[nx[p]] < rk[p]
     /\ Before(sp[p], sp[nx[p]])
     /\ \A x \in L \ {p, nx[p]} : Before(sp[x], sp[p]) \/ Before(sp[nx[p]], sp[x])

ChainOK(L, sp, nx, rk) ==
  /\ FirstPage \in L
  /\ \A x \in L \ {FirstPage} : Before(sp[FirstPage], sp[x])
  /\ \A p, q \in L : p # q => Before(sp[p], sp[q]) \/ Before(sp[q], sp[p])
  /\ \A p \in L : NextAt(L, sp, nx, rk, p)

Tree(ns, r, h, sp, rk) ==
  /\ NodesOK(ns)
  /\ GhostsOK(h, sp, rk)
  /\ RootAt(ns, r, sp)
  /\ \A x \in DOMAIN ns : NodeAt(ns, h, sp, x)
  /\ \A x \in DOMAIN ns \ {r} : UpAt(ns, x)
  /\ ChainOK(Leaves(ns), sp, Nexts(ns), rk)

\* Some heights, spans and ranks make ns with the root r a search tree.
Sound(ns, r) ==
  \E h \in [PageIds -> Nat], sp \in [PageIds -> SUBSET K], rk \in [PageIds -> Nat \ {0}] :
    Tree(ns, r, h, sp, rk)

\* Where v stands in s
PlaceIn(s, v) == Min({i \in 1 .. Len(s) : s[i] = v} \cup {Len(s) + 1})

\* The entries of the tree
LeafKeys(ns) == UNION {ToSet(ns[p].keys) : p \in Leaves(ns)}

-----------------------------------------------------------------------------
(* Natural numbers: every set of them has a least one *)

NatLess == {ss \in Nat \X Nat : ss[1] < ss[2]}

LEMMA LeastNat ==
  ASSUME NEW T, T \subseteq Nat, T # {}
  PROVE  \E x \in T : \A y \in T : x <= y
<1>1. IsWellFoundedOn(NatLess, Nat)
  BY NatLessThanWellFounded DEF OpToRel, NatLess
<1>2. PICK x \in T : \A y \in T : ~(<<y, x>> \in NatLess)
  BY <1>1, WFMin
<1>3. ASSUME NEW y \in T PROVE x <= y
  <2>1. x \in Nat /\ y \in Nat
    OBVIOUS
  <2>2. ~(<<y, x>> \in NatLess)
    BY <1>2
  <2>3. ~(y < x)
    BY <2>1, <2>2 DEF NatLess
  <2>4. QED
    BY <2>1, <2>3
<1>4. QED
  BY <1>3

LEMMA MinNat ==
  ASSUME NEW T, T \subseteq Nat, T # {}
  PROVE  Min(T) \in T /\ \A y \in T : Min(T) <= y
<1>1. \E x \in T : \A y \in T : x <= y
  BY LeastNat
<1>2. QED
  BY <1>1 DEF Min

\* A set of numbers that has n whenever it has all smaller ones has them all.
LEMMA Induction ==
  ASSUME NEW T, \A n \in Nat : (\A m \in Nat : m < n => m \in T) => n \in T
  PROVE  Nat \subseteq T
<1>1. SUFFICES ASSUME Nat \ T # {} PROVE FALSE
  OBVIOUS
<1>2. PICK n \in Nat \ T : \A m \in Nat \ T : n <= m
  BY <1>1, LeastNat
<1>3. \A m \in Nat : m < n => m \in T
  BY <1>2
<1>4. QED
  BY <1>2, <1>3

-----------------------------------------------------------------------------
(* The order of the keys *)

LEMMA EntriesInK == Entries \subseteq K
BY EntriesAssumption DEF K

LEMMA LtOrder ==
  /\ \A j \in K : ~Lt(j, j)
  /\ \A j, k \in K : Lt(j, k) => ~Lt(k, j)
  /\ \A i, j, k \in K : Lt(i, j) /\ Lt(j, k) => Lt(i, k)
  /\ \A j, k \in K : j = k \/ Lt(j, k) \/ Lt(k, j)
<1>1. \A j \in K : j[1] \in Int /\ j[2] \in Int /\ j = <<j[1], j[2]>>
  BY DEF K
<1>2. QED
  BY <1>1 DEF Lt

\* cmp of the B+ tree, for exact keys, is this order.
LEMMA CmpIsLt ==
  ASSUME Eps = 1, NEW j \in K, NEW k \in K
  PROVE  /\ CmpKey(j, k) < 0 <=> Lt(j, k)
         /\ CmpKey(j, k) = 0 <=> j = k
<1>1. /\ j[1] \in Int /\ j[2] \in Int /\ k[1] \in Int /\ k[2] \in Int
      /\ j = <<j[1], j[2]>> /\ k = <<k[1], k[2]>>
  BY DEF K
<1>2. CompareKey(j[1], k[1]) = IF j[1] = k[1] THEN 0 ELSE IF j[1] > k[1] THEN 1 ELSE -1
  BY <1>1 DEF CompareKey
<1>3. QED
  BY <1>1, <1>2 DEF CmpKey, CmpRid, Lt

LEMMA BeforeFacts ==
  /\ \A S, T \in SUBSET K : S # {} /\ T # {} /\ Before(S, T) => ~Before(T, S) /\ S # T
  /\ \A S, T, U \in SUBSET K : T # {} /\ Before(S, T) /\ Before(T, U) => Before(S, U)
<1>1. ASSUME NEW S \in SUBSET K, NEW T \in SUBSET K, S # {}, T # {}, Before(S, T)
      PROVE  ~Before(T, S) /\ S # T
  <2>1. PICK j \in S, k \in T : Lt(j, k)
    BY <1>1 DEF Before
  <2>2. j \in K /\ k \in K
    OBVIOUS
  <2>3. ~Lt(k, j)
    BY <2>1, <2>2, LtOrder
  <2>4. S # T
    <3>1. SUFFICES ASSUME S = T PROVE FALSE
      OBVIOUS
    <3>2. Lt(j, j)
      BY <3>1, <1>1 DEF Before
    <3>3. QED
      BY <3>2, <2>2, LtOrder
  <2>5. QED
    BY <2>3, <2>4 DEF Before
<1>2. ASSUME NEW S \in SUBSET K, NEW T \in SUBSET K, NEW U \in SUBSET K,
             T # {}, Before(S, T), Before(T, U), NEW j \in S, NEW k \in U
      PROVE  Lt(j, k)
  <2>1. PICK t \in T : TRUE
    BY <1>2
  <2>2. Lt(j, t) /\ Lt(t, k)
    BY <1>2 DEF Before
  <2>3. j \in K /\ t \in K /\ k \in K
    OBVIOUS
  <2>4. QED
    BY <2>2, <2>3, LtOrder
<1>3. QED
  BY <1>1, <1>2 DEF Before

\* A key goes to the place whose bounds it meets.
LEMMA PlaceOfSlot ==
  ASSUME Eps = 1, NEW keys \in Seq(K), NEW k \in K
  PROVE  /\ PlaceOf(keys, k) \in 1 .. Len(keys) + 1
         /\ PlaceOf(keys, k) <= Len(keys) => Lt(k, keys[PlaceOf(keys, k)])
         /\ \A i \in 1 .. Len(keys) : i < PlaceOf(keys, k) => ~Lt(k, keys[i])
<1> DEFINE T == {i \in 1 .. Len(keys) : CmpKey(k, keys[i]) < 0} \cup {Len(keys) + 1}
<1>1. Len(keys) \in Nat /\ \A i \in 1 .. Len(keys) : keys[i] \in K
  OBVIOUS
<1>2. T \subseteq Nat /\ T # {}
  BY <1>1
<1>3. PlaceOf(keys, k) = Min(T)
  BY DEF PlaceOf
<1>4. Min(T) \in T /\ \A y \in T : Min(T) <= y
  BY <1>2, MinNat
<1>5. \A i \in 1 .. Len(keys) : CmpKey(k, keys[i]) < 0 <=> Lt(k, keys[i])
  BY <1>1, CmpIsLt
<1>6. PICK m : m = Min(T)
  OBVIOUS
<1>7. m \in 1 .. Len(keys) + 1
  BY <1>1, <1>4, <1>6
<1>8. m <= Len(keys) => Lt(k, keys[m])
  BY <1>1, <1>4, <1>5, <1>6
<1>9. ASSUME NEW i \in 1 .. Len(keys), i < m PROVE ~Lt(k, keys[i])
  <2>1. i \notin T
    BY <1>9, <1>4, <1>6, <1>7, <1>1
  <2>2. QED
    BY <2>1, <1>5
<1>10. QED
  BY <1>3, <1>6, <1>7, <1>8, <1>9

-----------------------------------------------------------------------------
(* Sequences *)

LEMMA ConcatIs ==
  ASSUME NEW S, NEW a \in Seq(S), NEW b \in Seq(S)
  PROVE  /\ a \o b \in Seq(S)
         /\ Len(a \o b) = Len(a) + Len(b)
         /\ \A j \in 1 .. Len(a) + Len(b) : (a \o b)[j] = IF j <= Len(a) THEN a[j] ELSE b[j - Len(a)]
OBVIOUS

CatSeq(a, b, c) ==
  /\ Len(c) = Len(a) + Len(b)
  /\ \A j \in 1 .. Len(a) + Len(b) : c[j] = IF j <= Len(a) THEN a[j] ELSE b[j - Len(a)]

LEMMA Catenated ==
  ASSUME NEW S, NEW a \in Seq(S), NEW b \in Seq(S), NEW c, c = a \o b
  PROVE  c \in Seq(S) /\ CatSeq(a, b, c)
BY ConcatIs DEF CatSeq

LEMMA SubSeqIs ==
  ASSUME NEW S, NEW s \in Seq(S), NEW m \in 1 .. Len(s) + 1, NEW n \in 0 .. Len(s), m <= n + 1
  PROVE  /\ SubSeq(s, m, n) \in Seq(S)
         /\ Len(SubSeq(s, m, n)) = n - m + 1
         /\ \A j \in 1 .. n - m + 1 : SubSeq(s, m, n)[j] = s[j + m - 1]
OBVIOUS

\* is is s with e at its place i; rs is s without its place i
InsertedSeq(s, i, e, is) ==
  /\ Len(is) = Len(s) + 1
  /\ \A j \in 1 .. Len(s) + 1 : is[j] = IF j < i THEN s[j] ELSE IF j = i THEN e ELSE s[j - 1]

LEMMA Inserted ==
  ASSUME NEW S, NEW s \in Seq(S), NEW e \in S, NEW i \in 1 .. Len(s) + 1,
         NEW is, is = InsertAt(s, i, e)
  PROVE  is \in Seq(S) /\ InsertedSeq(s, i, e, is)
<1>1. PICK a : a = SubSeq(s, 1, i - 1)
  OBVIOUS
<1>2. PICK b : b = SubSeq(s, i, Len(s))
  OBVIOUS
<1>3. a \in Seq(S) /\ Len(a) = i - 1 /\ \A j \in 1 .. i - 1 : a[j] = s[j]
  BY <1>1
<1>4. b \in Seq(S) /\ Len(b) = Len(s) - i + 1 /\ \A j \in 1 .. Len(s) - i + 1 : b[j] = s[j + i - 1]
  BY <1>2
<1>5. PICK c : c = a \o <<e>>
  OBVIOUS
<1>6. c \in Seq(S) /\ Len(c) = i /\ \A j \in 1 .. i : c[j] = IF j < i THEN s[j] ELSE e
  BY <1>3, <1>5
<1>7. /\ c \o b \in Seq(S) /\ Len(c \o b) = Len(s) + 1
      /\ \A j \in 1 .. Len(s) + 1 : (c \o b)[j] = IF j <= i THEN c[j] ELSE b[j - i]
  BY <1>4, <1>6, ConcatIs
<1>8. \A j \in 1 .. Len(s) + 1 : j > i => b[j - i] = s[j - 1]
  <2>1. SUFFICES ASSUME NEW j \in 1 .. Len(s) + 1, j > i PROVE b[j - i] = s[j - 1]
    OBVIOUS
  <2>2. j - i \in 1 .. Len(s) - i + 1 /\ (j - i) + i - 1 = j - 1
    BY <2>1
  <2>3. QED
    BY <2>2, <1>4
<1>9. is = c \o b
  BY <1>1, <1>2, <1>5 DEF InsertAt
<1>10. QED
  BY <1>6, <1>7, <1>8, <1>9 DEF InsertedSeq

RemovedSeq(s, i, rs) ==
  /\ Len(rs) = Len(s) - 1
  /\ \A j \in 1 .. Len(s) - 1 : rs[j] = IF j < i THEN s[j] ELSE s[j + 1]

LEMMA RemoveAtIs ==
  ASSUME NEW S, NEW s \in Seq(S), NEW i \in 1 .. Len(s)
  PROVE  /\ RemoveAt(s, i) \in Seq(S)
         /\ Len(RemoveAt(s, i)) = Len(s) - 1
         /\ \A j \in 1 .. Len(s) - 1 :
              RemoveAt(s, i)[j] = IF j < i THEN s[j] ELSE s[j + 1]
<1>1. PICK a : a = SubSeq(s, 1, i - 1)
  OBVIOUS
<1>2. PICK b : b = SubSeq(s, i + 1, Len(s))
  OBVIOUS
<1>3. a \in Seq(S) /\ Len(a) = i - 1 /\ \A j \in 1 .. i - 1 : a[j] = s[j]
  BY <1>1
<1>4. b \in Seq(S) /\ Len(b) = Len(s) - i /\ \A j \in 1 .. Len(s) - i : b[j] = s[j + i]
  BY <1>2
<1>5. /\ a \o b \in Seq(S) /\ Len(a \o b) = Len(s) - 1
      /\ \A j \in 1 .. Len(s) - 1 : (a \o b)[j] = IF j < i THEN a[j] ELSE b[j - i + 1]
  <2>1. a \o b \in Seq(S) /\ Len(a \o b) = Len(a) + Len(b)
    BY <1>3, <1>4, ConcatIs
  <2>2. ASSUME NEW j \in 1 .. Len(s) - 1 PROVE (a \o b)[j] = IF j < i THEN a[j] ELSE b[j - i + 1]
    <3>1. j \in 1 .. Len(a) + Len(b) /\ (j <= Len(a) <=> j < i) /\ j - Len(a) = j - i + 1
      BY <1>3, <1>4
    <3>2. (a \o b)[j] = IF j <= Len(a) THEN a[j] ELSE b[j - Len(a)]
      <4>1. CatSeq(a, b, a \o b)
        BY <1>3, <1>4, Catenated
      <4>2. QED
        BY <3>1, <4>1 DEF CatSeq
    <3>3. QED
      BY <3>1, <3>2
  <2>3. QED
    BY <2>1, <2>2, <1>3, <1>4
<1>6. \A j \in 1 .. Len(s) - 1 : j >= i => b[j - i + 1] = s[j + 1]
  <2>1. SUFFICES ASSUME NEW j \in 1 .. Len(s) - 1, j >= i PROVE b[j - i + 1] = s[j + 1]
    OBVIOUS
  <2>2. j - i + 1 \in 1 .. Len(s) - i /\ (j - i + 1) + i = j + 1
    BY <2>1
  <2>3. QED
    BY <2>2, <1>4
<1>7. RemoveAt(s, i) = a \o b
  BY <1>1, <1>2 DEF RemoveAt
<1>8. ASSUME NEW j \in 1 .. Len(s) - 1 PROVE (a \o b)[j] = IF j < i THEN s[j] ELSE s[j + 1]
  <2>1. CASE j < i
    <3>1. j \in 1 .. i - 1
      BY <2>1
    <3>2. QED
      BY <3>1, <2>1, <1>3, <1>5
  <2>2. CASE ~(j < i)
    BY <2>2, <1>5, <1>6
  <2>3. QED
    BY <2>1, <2>2
<1>9. QED
  BY <1>5, <1>7, <1>8

LEMMA Removed ==
  ASSUME NEW S, NEW s \in Seq(S), NEW i \in 1 .. Len(s), NEW rs, rs = RemoveAt(s, i)
  PROVE  rs \in Seq(S) /\ RemovedSeq(s, i, rs)
BY RemoveAtIs DEF RemovedSeq

LEMMA PlaceInIs ==
  ASSUME NEW S, NEW s \in Seq(S), NEW v, NEW i \in 1 .. Len(s), s[i] = v,
         \A j \in 1 .. Len(s) : s[j] = v => j = i
  PROVE  PlaceIn(s, v) = i
<1> DEFINE T == {j \in 1 .. Len(s) : s[j] = v} \cup {Len(s) + 1}
<1>1. T = {i, Len(s) + 1}
  OBVIOUS
<1>2. T \subseteq Nat /\ T # {}
  OBVIOUS
<1>3. Min(T) \in T /\ \A y \in T : Min(T) <= y
  BY <1>2, MinNat
<1>4. Min(T) <= i /\ Min(T) \in {i, Len(s) + 1}
  BY <1>1, <1>3
<1>5. Min(T) = i
  BY <1>4
<1>6. QED
  BY <1>5 DEF PlaceIn

-----------------------------------------------------------------------------
(* The places of a node, when its keys change *)

LEMMA AscendingIn ==
  ASSUME NEW keys \in Seq(K), Ascending(keys), NEW i \in 1 .. Len(keys), NEW j \in 1 .. Len(keys)
  PROVE  /\ i < j => Lt(keys[i], keys[j])
         /\ keys[i] = keys[j] => i = j
         /\ keys[i] \in K
<1>1. i < j => Lt(keys[i], keys[j])
  BY DEF Ascending
<1>2. j < i => Lt(keys[j], keys[i])
  BY DEF Ascending
<1>3. keys[i] \in K /\ keys[j] \in K
  OBVIOUS
<1>4. QED
  BY <1>1, <1>2, <1>3, LtOrder

\* The spans of the places are apart and in order.
LEMMA SlotsApart ==
  ASSUME NEW keys \in Seq(K), Ascending(keys), NEW S \in SUBSET K,
         NEW i \in 1 .. Len(keys) + 1, NEW j \in 1 .. Len(keys) + 1, i < j
  PROVE  Before(Slot(S, keys, i), Slot(S, keys, j))
<1>1. SUFFICES ASSUME NEW a \in Slot(S, keys, i), NEW b \in Slot(S, keys, j) PROVE Lt(a, b)
  BY DEF Before
<1>2. i \in 1 .. Len(keys) /\ j - 1 \in 1 .. Len(keys) /\ i <= j - 1 /\ j > 1 /\ i <= Len(keys)
  OBVIOUS
<1>3. a \in K /\ b \in K /\ Lt(a, keys[i]) /\ ~Lt(b, keys[j - 1])
  BY <1>2 DEF Slot
<1>4. keys[i] \in K /\ keys[j - 1] \in K
  BY <1>2
<1>5. keys[i] = keys[j - 1] \/ Lt(keys[i], keys[j - 1])
  BY <1>2, AscendingIn
<1>6. Lt(a, keys[j - 1])
  BY <1>3, <1>4, <1>5, LtOrder
<1>7. b = keys[j - 1] \/ Lt(keys[j - 1], b)
  BY <1>3, <1>4, LtOrder
<1>8. QED
  BY <1>3, <1>4, <1>6, <1>7, LtOrder

LEMMA SlotConvex ==
  ASSUME NEW keys \in Seq(K), NEW S \in SUBSET K, Convex(S), NEW i \in 1 .. Len(keys) + 1
  PROVE  Convex(Slot(S, keys, i))
<1>1. SUFFICES ASSUME NEW a \in Slot(S, keys, i), NEW b \in Slot(S, keys, i), NEW k \in K,
                      Lt(a, k), Lt(k, b)
               PROVE  k \in Slot(S, keys, i)
  BY DEF Convex
<1>2. a \in S /\ b \in S /\ a \in K /\ b \in K
  BY DEF Slot
<1>3. k \in S
  BY <1>1, <1>2 DEF Convex
<1>4. ASSUME i > 1 PROVE ~Lt(k, keys[i - 1])
  <2>1. keys[i - 1] \in K /\ ~Lt(a, keys[i - 1])
    BY <1>4 DEF Slot
  <2>2. QED
    BY <2>1, <1>1, <1>2, LtOrder
<1>5. ASSUME i <= Len(keys) PROVE Lt(k, keys[i])
  <2>1. keys[i] \in K /\ Lt(b, keys[i])
    BY <1>5 DEF Slot
  <2>2. QED
    BY <2>1, <1>1, <1>2, LtOrder
<1>6. QED
  BY <1>3, <1>4, <1>5 DEF Slot

\* The parts of S below key and from key on
Below(S, key) == {k \in S : Lt(k, key)}
From(S, key) == {k \in S : ~Lt(k, key)}
Cup(S, T) == S \cup T

\* The keys ks with the places of keys, its place i divided at key
Divided(S, keys, i, key, ks) ==
  /\ ks \in Seq(K) /\ Len(ks) = Len(keys) + 1 /\ Ascending(ks)
  /\ \A j \in 1 .. Len(keys) + 1 : j < i => Slot(S, ks, j) = Slot(S, keys, j)
  /\ Slot(S, ks, i) = Below(Slot(S, keys, i), key)
  /\ Slot(S, ks, i + 1) = From(Slot(S, keys, i), key)
  /\ \A j \in 1 .. Len(keys) + 1 : j > i => Slot(S, ks, j + 1) = Slot(S, keys, j)

LEMMA SlotInsert ==
  ASSUME NEW keys \in Seq(K), Ascending(keys), NEW S \in SUBSET K, NEW key \in K,
         NEW i \in 1 .. Len(keys) + 1, NEW ks, ks = InsertAt(keys, i, key),
         i > 1 => Lt(keys[i - 1], key), i <= Len(keys) => Lt(key, keys[i])
  PROVE  Divided(S, keys, i, key, ks)
<1>1. /\ ks \in Seq(K) /\ Len(ks) = Len(keys) + 1
      /\ \A j \in 1 .. Len(keys) + 1 : ks[j] = IF j < i THEN keys[j] ELSE IF j = i THEN key ELSE keys[j - 1]
  <2>1. ks \in Seq(K) /\ InsertedSeq(keys, i, key, ks)
    BY Inserted
  <2>2. QED
    BY <2>1 DEF InsertedSeq
<1>2. \A j \in 1 .. Len(keys) : keys[j] \in K
  OBVIOUS
<1>3. \A j \in 1 .. Len(keys) : j < i => Lt(keys[j], key)
  <2>1. SUFFICES ASSUME NEW j \in 1 .. Len(keys), j < i PROVE Lt(keys[j], key)
    OBVIOUS
  <2>2. i - 1 \in 1 .. Len(keys) /\ (j = i - 1 \/ j < i - 1)
    BY <2>1
  <2>3. keys[j] = keys[i - 1] \/ Lt(keys[j], keys[i - 1])
    BY <2>2, AscendingIn
  <2>4. Lt(keys[i - 1], key)
    BY <2>2
  <2>5. QED
    BY <1>2, <2>2, <2>3, <2>4, LtOrder
<1>4. \A j \in 1 .. Len(keys) : j >= i => Lt(key, keys[j])
  <2>1. SUFFICES ASSUME NEW j \in 1 .. Len(keys), j >= i PROVE Lt(key, keys[j])
    OBVIOUS
  <2>2. i \in 1 .. Len(keys) /\ (j = i \/ i < j)
    BY <2>1
  <2>3. keys[j] = keys[i] \/ Lt(keys[i], keys[j])
    BY <2>2, AscendingIn
  <2>4. Lt(key, keys[i])
    BY <2>2
  <2>5. QED
    BY <1>2, <2>2, <2>3, <2>4, LtOrder
<1>5. Ascending(ks)
  <2>1. SUFFICES ASSUME NEW a \in 1 .. Len(ks), NEW b \in 1 .. Len(ks), a < b PROVE Lt(ks[a], ks[b])
    BY DEF Ascending
  <2>2. a \in 1 .. Len(keys) + 1 /\ b \in 1 .. Len(keys) + 1
    BY <1>1
  <2>3. CASE b < i
    <3>1. ks[a] = keys[a] /\ ks[b] = keys[b] /\ a \in 1 .. Len(keys) /\ b \in 1 .. Len(keys)
      BY <1>1, <2>1, <2>2, <2>3
    <3>2. QED
      BY <3>1, <2>1, AscendingIn
  <2>4. CASE b = i
    <3>1. ks[a] = keys[a] /\ ks[b] = key /\ a \in 1 .. Len(keys) /\ a < i
      BY <1>1, <2>1, <2>2, <2>4
    <3>2. QED
      BY <3>1, <1>3
  <2>5. CASE b > i /\ a = i
    <3>1. ks[a] = key /\ ks[b] = keys[b - 1] /\ b - 1 \in 1 .. Len(keys) /\ b - 1 >= i
      BY <1>1, <2>1, <2>2, <2>5
    <3>2. QED
      BY <3>1, <1>4
  <2>6. CASE b > i /\ a > i
    <3>1. /\ ks[a] = keys[a - 1] /\ ks[b] = keys[b - 1] /\ a - 1 < b - 1
          /\ b - 1 \in 1 .. Len(keys) /\ a - 1 \in 1 .. Len(keys)
      BY <1>1, <2>1, <2>2, <2>6
    <3>2. QED
      BY <3>1, AscendingIn
  <2>7. CASE b > i /\ a < i
    <3>1. /\ ks[a] = keys[a] /\ ks[b] = keys[b - 1] /\ a < b - 1
          /\ b - 1 \in 1 .. Len(keys) /\ a \in 1 .. Len(keys)
      BY <1>1, <2>1, <2>2, <2>7
    <3>2. QED
      BY <3>1, AscendingIn
  <2>8. QED
    BY <2>2, <2>3, <2>4, <2>5, <2>6, <2>7
<1>6. ASSUME NEW j \in 1 .. Len(keys) + 1, j < i PROVE Slot(S, ks, j) = Slot(S, keys, j)
  <2>1. /\ j > 1 => ks[j - 1] = keys[j - 1]
        /\ j <= Len(ks) /\ j <= Len(keys) /\ ks[j] = keys[j]
    BY <1>1, <1>6
  <2>2. QED
    BY <2>1 DEF Slot
<1>7. Slot(S, ks, i) = Below(Slot(S, keys, i), key)
  <2>1. (i > 1 => ks[i - 1] = keys[i - 1]) /\ i <= Len(ks) /\ ks[i] = key
    BY <1>1
  <2>2. Slot(S, ks, i) = {k \in S : (i > 1 => ~Lt(k, keys[i - 1])) /\ Lt(k, key)}
    BY <2>1 DEF Slot
  <2>3. i <= Len(keys) => \A k \in S : Lt(k, key) => Lt(k, keys[i])
    BY <1>2, <1>4, LtOrder
  <2>4. QED
    BY <2>2, <2>3 DEF Below, Slot
<1>8. Slot(S, ks, i + 1) = From(Slot(S, keys, i), key)
  <2>1. (i + 1) - 1 = i /\ i + 1 > 1 /\ ks[i] = key /\ (i + 1 <= Len(ks) <=> i <= Len(keys))
        /\ (i <= Len(keys) => ks[i + 1] = keys[i])
    BY <1>1
  <2>2. Slot(S, ks, i + 1) = {k \in S : ~Lt(k, key) /\ (i <= Len(keys) => Lt(k, keys[i]))}
    BY <2>1 DEF Slot
  <2>3. i > 1 => \A k \in S : ~Lt(k, key) => ~Lt(k, keys[i - 1])
    <3>1. SUFFICES ASSUME i > 1, NEW k \in S, Lt(k, keys[i - 1]) PROVE Lt(k, key)
      OBVIOUS
    <3>2. i - 1 \in 1 .. Len(keys) /\ Lt(keys[i - 1], key)
      BY <3>1
    <3>3. QED
      BY <3>1, <3>2, <1>2, LtOrder
  <2>4. QED
    BY <2>2, <2>3 DEF From, Slot
<1>9. ASSUME NEW j \in 1 .. Len(keys) + 1, j > i PROVE Slot(S, ks, j + 1) = Slot(S, keys, j)
  <2>1. /\ j > 1 /\ j + 1 > 1 /\ (j + 1) - 1 = j /\ ks[j] = keys[j - 1]
        /\ (j + 1 <= Len(ks) <=> j <= Len(keys)) /\ (j <= Len(keys) => ks[j + 1] = keys[j])
    BY <1>1, <1>9
  <2>2. QED
    BY <2>1 DEF Slot
<1>10. QED
  BY <1>1, <1>5, <1>6, <1>7, <1>8, <1>9 DEF Divided

\* The keys ks with the places of keys, its places i and i + 1 in one
United(S, keys, i, ks) ==
  /\ ks \in Seq(K) /\ Len(ks) = Len(keys) - 1 /\ Ascending(ks)
  /\ \A j \in 1 .. Len(keys) : j < i => Slot(S, ks, j) = Slot(S, keys, j)
  /\ Slot(S, ks, i) = Cup(Slot(S, keys, i), Slot(S, keys, i + 1))
  /\ \A j \in 1 .. Len(keys) : j > i => Slot(S, ks, j) = Slot(S, keys, j + 1)

LEMMA SlotRemove ==
  ASSUME NEW keys \in Seq(K), Ascending(keys), NEW S \in SUBSET K,
         NEW i \in 1 .. Len(keys), NEW ks, ks = RemoveAt(keys, i)
  PROVE  United(S, keys, i, ks)
<1>1. /\ ks \in Seq(K) /\ Len(ks) = Len(keys) - 1
      /\ \A j \in 1 .. Len(keys) - 1 : ks[j] = IF j < i THEN keys[j] ELSE keys[j + 1]
  BY RemoveAtIs
<1>2. \A j \in 1 .. Len(keys) : keys[j] \in K
  OBVIOUS
<1>3. Ascending(ks)
  <2>1. SUFFICES ASSUME NEW a \in 1 .. Len(ks), NEW b \in 1 .. Len(ks), a < b PROVE Lt(ks[a], ks[b])
    BY DEF Ascending
  <2>2. PICK c \in 1 .. Len(keys) : ks[a] = keys[c] /\ c = IF a < i THEN a ELSE a + 1
    BY <1>1
  <2>3. PICK d \in 1 .. Len(keys) : ks[b] = keys[d] /\ d = IF b < i THEN b ELSE b + 1
    BY <1>1
  <2>4. c < d
    BY <2>1, <2>2, <2>3, <1>1
  <2>5. QED
    BY <2>2, <2>3, <2>4, AscendingIn
<1>4. ASSUME NEW j \in 1 .. Len(keys), j < i PROVE Slot(S, ks, j) = Slot(S, keys, j)
  <2>1. /\ j > 1 => ks[j - 1] = keys[j - 1]
        /\ j <= Len(ks) /\ j <= Len(keys) /\ ks[j] = keys[j]
    BY <1>1, <1>4
  <2>2. QED
    BY <2>1 DEF Slot
<1>5. Slot(S, ks, i) = Cup(Slot(S, keys, i), Slot(S, keys, i + 1))
  <2>1. /\ (i > 1 => ks[i - 1] = keys[i - 1]) /\ (i <= Len(ks) <=> i + 1 <= Len(keys))
        /\ (i + 1 <= Len(keys) => ks[i] = keys[i + 1])
    BY <1>1
  <2>2. Slot(S, ks, i) = {k \in S : (i > 1 => ~Lt(k, keys[i - 1])) /\ (i + 1 <= Len(keys) => Lt(k, keys[i + 1]))}
    BY <2>1 DEF Slot
  <2>3. Slot(S, keys, i) = {k \in S : (i > 1 => ~Lt(k, keys[i - 1])) /\ Lt(k, keys[i])}
    BY DEF Slot
  <2>4. (i + 1) - 1 = i /\ i + 1 > 1
    OBVIOUS
  <2>5. Slot(S, keys, i + 1) = {k \in S : ~Lt(k, keys[i]) /\ (i + 1 <= Len(keys) => Lt(k, keys[i + 1]))}
    BY <2>4 DEF Slot
  <2>6. i + 1 <= Len(keys) => \A k \in S : Lt(k, keys[i]) => Lt(k, keys[i + 1])
    <3>1. SUFFICES ASSUME i + 1 <= Len(keys), NEW k \in S, Lt(k, keys[i]) PROVE Lt(k, keys[i + 1])
      OBVIOUS
    <3>2. i + 1 \in 1 .. Len(keys) /\ i < i + 1
      BY <3>1
    <3>3. Lt(keys[i], keys[i + 1])
      BY <3>2, AscendingIn
    <3>4. QED
      BY <3>1, <3>2, <3>3, <1>2, LtOrder
  <2>7. i > 1 => \A k \in S : ~Lt(k, keys[i]) => ~Lt(k, keys[i - 1])
    <3>1. SUFFICES ASSUME i > 1, NEW k \in S, Lt(k, keys[i - 1]) PROVE Lt(k, keys[i])
      OBVIOUS
    <3>2. i - 1 \in 1 .. Len(keys) /\ i - 1 < i
      BY <3>1
    <3>3. Lt(keys[i - 1], keys[i])
      BY <3>2, AscendingIn
    <3>4. QED
      BY <3>1, <3>2, <3>3, <1>2, LtOrder
  <2>8. QED
    BY <2>2, <2>3, <2>5, <2>6, <2>7 DEF Cup
<1>6. ASSUME NEW j \in 1 .. Len(keys), j > i PROVE Slot(S, ks, j) = Slot(S, keys, j + 1)
  <2>1. /\ j > 1 /\ j + 1 > 1 /\ (j + 1) - 1 = j /\ ks[j - 1] = keys[j]
        /\ (j <= Len(ks) <=> j + 1 <= Len(keys)) /\ (j + 1 <= Len(keys) => ks[j] = keys[j + 1])
    BY <1>1, <1>6
  <2>2. QED
    BY <2>1 DEF Slot
<1>7. QED
  BY <1>1, <1>3, <1>4, <1>5, <1>6 DEF United

\* A node that is split at its key s
LeftPart(S, keys, s, ks) ==
  /\ ks \in Seq(K) /\ Len(ks) = s - 1 /\ Ascending(ks)
  /\ \A j \in 1 .. s - 1 : ks[j] = keys[j]
  /\ \A j \in 1 .. s : Slot(Below(S, keys[s]), ks, j) = Slot(S, keys, j)

RightPart(S, keys, s, ks) ==
  /\ ks \in Seq(K) /\ Len(ks) = Len(keys) - s /\ Ascending(ks)
  /\ \A j \in 1 .. Len(keys) - s : ks[j] = keys[j + s]
  /\ \A j \in 1 .. Len(keys) - s + 1 : Slot(From(S, keys[s]), ks, j) = Slot(S, keys, j + s)

LEMMA SlotLeftPart ==
  ASSUME NEW keys \in Seq(K), Ascending(keys), NEW S \in SUBSET K,
         NEW s \in 1 .. Len(keys), NEW ks, ks = SubSeq(keys, 1, s - 1)
  PROVE  LeftPart(S, keys, s, ks)
<1>1. ks \in Seq(K) /\ Len(ks) = s - 1 /\ \A j \in 1 .. s - 1 : ks[j] = keys[j]
  BY SubSeqIs
<1>2. \A j \in 1 .. Len(keys) : keys[j] \in K
  OBVIOUS
<1>3. Ascending(ks)
  <2>1. \A j \in 1 .. Len(ks) : j \in 1 .. Len(keys) /\ ks[j] = keys[j]
    BY <1>1
  <2>2. QED
    BY <2>1 DEF Ascending
<1>4. ASSUME NEW j \in 1 .. s PROVE Slot(Below(S, keys[s]), ks, j) = Slot(S, keys, j)
  <2>1. j > 1 => ks[j - 1] = keys[j - 1]
    BY <1>1
  <2>2. CASE j < s
    <3>1. j <= Len(ks) /\ j <= Len(keys) /\ ks[j] = keys[j]
      BY <2>2, <1>1
    <3>2. \A k \in S : Lt(k, keys[j]) => Lt(k, keys[s])
      <4>1. j \in 1 .. Len(keys)
        BY <2>2
      <4>2. Lt(keys[j], keys[s])
        BY <4>1, <2>2, AscendingIn
      <4>3. QED
        BY <4>1, <4>2, <1>2, LtOrder
    <3>3. QED
      BY <2>1, <3>1, <3>2 DEF Slot, Below
  <2>3. CASE j = s
    <3>1. ~(j <= Len(ks)) /\ j <= Len(keys)
      BY <2>3, <1>1
    <3>2. QED
      BY <2>1, <2>3, <3>1 DEF Slot, Below
  <2>4. QED
    BY <2>2, <2>3
<1>5. QED
  BY <1>1, <1>3, <1>4 DEF LeftPart

LEMMA SlotRightPart ==
  ASSUME NEW keys \in Seq(K), Ascending(keys), NEW S \in SUBSET K,
         NEW s \in 1 .. Len(keys), NEW ks, ks = SubSeq(keys, s + 1, Len(keys))
  PROVE  RightPart(S, keys, s, ks)
<1>1. /\ ks \in Seq(K) /\ Len(ks) = Len(keys) - s
      /\ \A j \in 1 .. Len(keys) - s : ks[j] = keys[j + s]
  <2>1. /\ s + 1 \in 1 .. Len(keys) + 1 /\ Len(keys) \in 0 .. Len(keys) /\ s + 1 <= Len(keys) + 1
        /\ Len(keys) - (s + 1) + 1 = Len(keys) - s
    OBVIOUS
  <2>2. /\ ks \in Seq(K) /\ Len(ks) = Len(keys) - (s + 1) + 1
        /\ \A j \in 1 .. Len(keys) - (s + 1) + 1 : ks[j] = keys[j + (s + 1) - 1]
    BY <2>1, SubSeqIs
  <2>3. \A j \in 1 .. Len(keys) - s : j + (s + 1) - 1 = j + s
    OBVIOUS
  <2>4. QED
    BY <2>1, <2>2, <2>3
<1>2. \A j \in 1 .. Len(keys) : keys[j] \in K
  OBVIOUS
<1>3. Ascending(ks)
  <2>1. SUFFICES ASSUME NEW a \in 1 .. Len(ks), NEW b \in 1 .. Len(ks), a < b PROVE Lt(ks[a], ks[b])
    BY DEF Ascending
  <2>2. /\ a + s \in 1 .. Len(keys) /\ b + s \in 1 .. Len(keys) /\ a + s < b + s
        /\ ks[a] = keys[a + s] /\ ks[b] = keys[b + s]
    BY <1>1, <2>1
  <2>3. QED
    BY <2>2, AscendingIn
<1>4. ASSUME NEW j \in 1 .. Len(keys) - s + 1 PROVE Slot(From(S, keys[s]), ks, j) = Slot(S, keys, j + s)
  <2>1. /\ j + s > 1 /\ (j <= Len(ks) <=> j + s <= Len(keys)) /\ (j <= Len(ks) => ks[j] = keys[j + s])
    BY <1>1
  <2>2. CASE j = 1
    <3>1. ~(j > 1) /\ (j + s) - 1 = s
      BY <2>2
    <3>2. QED
      BY <2>1, <3>1 DEF Slot, From
  <2>3. CASE j > 1
    <3>1. ks[j - 1] = keys[(j + s) - 1] /\ (j + s) - 1 \in 1 .. Len(keys) /\ s < (j + s) - 1
      <4>1. j - 1 \in 1 .. Len(keys) - s /\ (j - 1) + s = (j + s) - 1
        BY <2>3
      <4>2. ks[j - 1] = keys[(j - 1) + s]
        BY <4>1, <1>1, Zenon
      <4>3. (j + s) - 1 \in 1 .. Len(keys) /\ s < (j + s) - 1
        BY <2>3
      <4>4. QED
        BY <4>1, <4>2, <4>3
    <3>2. Lt(keys[s], keys[(j + s) - 1])
      BY <3>1, AscendingIn
    <3>3. \A k \in S : ~Lt(k, keys[(j + s) - 1]) => ~Lt(k, keys[s])
      BY <3>1, <3>2, <1>2, LtOrder
    <3>4. QED
      BY <2>1, <2>3, <3>1, <3>3 DEF Slot, From
  <2>4. QED
    BY <2>2, <2>3
<1>5. QED
  BY <1>1, <1>3, <1>4 DEF RightPart

Joined(kl, key, kr) == kl \o <<key>> \o kr

\* Two neighbours with the spans S and T under one parent become one.
MergedKeys(S, T, kl, kr, key, ks) ==
  /\ ks \in Seq(K) /\ Len(ks) = Len(kl) + Len(kr) + 1 /\ Ascending(ks)
  /\ \A i \in 1 .. Len(kl) : ks[i] = kl[i]
  /\ ks[Len(kl) + 1] = key
  /\ \A i \in 1 .. Len(kr) : ks[i + Len(kl) + 1] = kr[i]
  /\ \A j \in 1 .. Len(kl) + 1 : Slot(Cup(S, T), ks, j) = Slot(S, kl, j)
  /\ \A j \in 1 .. Len(kr) + 1 : Slot(Cup(S, T), ks, j + Len(kl) + 1) = Slot(T, kr, j)

LEMMA SlotMerge ==
  ASSUME NEW kl \in Seq(K), NEW kr \in Seq(K), NEW key \in K, Ascending(kl), Ascending(kr),
         NEW S \in SUBSET K, NEW T \in SUBSET K,
         \A k \in S : Lt(k, key), \A k \in T : ~Lt(k, key),
         \A i \in 1 .. Len(kl) : kl[i] \in S,
         \A i \in 1 .. Len(kr) : kr[i] \in T,
         \A i \in 1 .. Len(kr) : Lt(key, kr[i]),
         NEW ks, ks = Joined(kl, key, kr)
  PROVE  MergedKeys(S, T, kl, kr, key, ks)
<1>0. PICK m \in Nat, n \in Nat : m = Len(kl) /\ n = Len(kr)
  OBVIOUS
<1>1. PICK a : a = kl \o <<key>>
  OBVIOUS
<1>2. /\ a \in Seq(K) /\ Len(a) = m + 1 /\ a[m + 1] = key /\ \A i \in 1 .. m : a[i] = kl[i]
  BY <1>0, <1>1
<1>3. ks = a \o kr
  BY <1>1 DEF Joined
<1>4. /\ ks \in Seq(K) /\ Len(ks) = m + n + 1
      /\ \A i \in 1 .. m + n + 1 : ks[i] = IF i <= m + 1 THEN a[i] ELSE kr[i - (m + 1)]
  <2>1. /\ a \o kr \in Seq(K) /\ Len(a \o kr) = Len(a) + Len(kr)
        /\ \A i \in 1 .. Len(a) + Len(kr) : (a \o kr)[i] = IF i <= Len(a) THEN a[i] ELSE kr[i - Len(a)]
    <3>1. a \in Seq(K) /\ kr \in Seq(K)
      BY <1>2
    <3>2. QED
      <4>1. a \o kr \in Seq(K) /\ CatSeq(a, kr, a \o kr)
        BY <3>1, Catenated
      <4>2. QED
        BY <4>1 DEF CatSeq
  <2>2. QED
    BY <2>1, <1>0, <1>2, <1>3
<1>5. \A i \in 1 .. m : ks[i] = kl[i]
  BY <1>2, <1>4
<1>6. ks[m + 1] = key
  BY <1>2, <1>4
<1>7. ASSUME NEW i \in 1 .. n PROVE ks[i + m + 1] = kr[i]
  <2>1. i + m + 1 \in 1 .. m + n + 1 /\ ~(i + m + 1 <= m + 1) /\ (i + m + 1) - (m + 1) = i
    OBVIOUS
  <2>2. QED
    BY <2>1, <1>4
<1>8. \A i \in 1 .. m : kl[i] \in K /\ kl[i] \in S /\ Lt(kl[i], key)
  BY <1>0
<1>9. \A i \in 1 .. n : kr[i] \in K /\ kr[i] \in T /\ Lt(key, kr[i])
  BY <1>0
<1>10. Ascending(ks)
  <2>1. SUFFICES ASSUME NEW c \in 1 .. m + n + 1, NEW d \in 1 .. m + n + 1, c < d PROVE Lt(ks[c], ks[d])
    BY <1>4 DEF Ascending
  <2>2. CASE d <= m
    <3>1. c \in 1 .. Len(kl) /\ d \in 1 .. Len(kl)
      BY <1>0, <2>1, <2>2
    <3>2. Lt(kl[c], kl[d])
      BY <3>1, <2>1, AscendingIn
    <3>3. QED
      BY <3>1, <3>2, <1>0, <1>5
  <2>3. CASE d = m + 1
    <3>1. c \in 1 .. m
      BY <2>1, <2>3
    <3>2. QED
      BY <3>1, <2>3, <1>5, <1>6, <1>8
  <2>4. CASE d > m + 1
    <3>1. PICK f \in 1 .. n : f = d - (m + 1) /\ ks[d] = kr[f]
      BY <2>4, <1>4
    <3>2. CASE c <= m
      <4>1. c \in 1 .. m
        BY <3>2
      <4>3. ks[c] = kl[c]
        BY <4>1, <1>5
      <4>2. QED
        BY <4>1, <4>3, <3>1, <1>8, <1>9, LtOrder
    <3>3. CASE c = m + 1
      BY <3>1, <3>3, <1>6, <1>9
    <3>4. CASE c > m + 1
      <4>1. PICK e \in 1 .. n : e = c - (m + 1) /\ ks[c] = kr[e]
        BY <3>4, <1>4
      <4>2. e < f /\ e \in 1 .. Len(kr) /\ f \in 1 .. Len(kr)
        BY <4>1, <3>1, <2>1, <1>0
      <4>3. Lt(kr[e], kr[f])
        BY <4>2, AscendingIn
      <4>4. QED
        BY <4>1, <4>3, <3>1
    <3>5. QED
      BY <3>2, <3>3, <3>4
  <2>5. QED
    BY <2>2, <2>3, <2>4
<1>11. ASSUME NEW j \in 1 .. m + 1 PROVE Slot(Cup(S, T), ks, j) = Slot(S, kl, j)
  <2>1. (j > 1 => ks[j - 1] = kl[j - 1]) /\ j <= Len(ks)
    BY <1>4, <1>5
  <2>2. CASE j <= m
    <3>1. ks[j] = kl[j] /\ j <= Len(kl) /\ j \in 1 .. m
      BY <2>2, <1>0, <1>5
    <3>2. \A k \in T : ~Lt(k, kl[j])
      BY <3>1, <1>8, LtOrder
    <3>3. QED
      BY <2>1, <3>1, <3>2 DEF Slot, Cup
  <2>3. CASE j = m + 1
    <3>1. ks[j] = key /\ ~(j <= Len(kl))
      BY <2>3, <1>0, <1>6
    <3>2. QED
      BY <2>1, <3>1 DEF Slot, Cup
  <2>4. QED
    BY <2>2, <2>3
<1>12. ASSUME NEW j \in 1 .. n + 1 PROVE Slot(Cup(S, T), ks, j + m + 1) = Slot(T, kr, j)
  <2>1. /\ j + m + 1 > 1 /\ (j + m + 1 <= Len(ks) <=> j <= Len(kr))
        /\ (j <= Len(kr) => ks[j + m + 1] = kr[j])
    BY <1>0, <1>4, <1>7
  <2>2. CASE j = 1
    <3>3. (j + m + 1) - 1 = m + 1 /\ ~(j > 1)
      BY <2>2
    <3>1. ks[(j + m + 1) - 1] = key /\ ~(j > 1)
      BY <3>3, <1>6
    <3>2. QED
      BY <2>1, <3>1 DEF Slot, Cup
  <2>3. CASE j > 1
    <3>1. j - 1 \in 1 .. n /\ (j - 1) + m + 1 = (j + m + 1) - 1
      BY <2>3
    <3>2. ks[(j + m + 1) - 1] = kr[j - 1]
      BY <3>1, <1>7
    <3>3. \A k \in S : Lt(k, kr[j - 1])
      BY <3>1, <1>9, LtOrder
    <3>4. QED
      BY <2>1, <2>3, <3>2, <3>3 DEF Slot, Cup
  <2>4. QED
    BY <2>2, <2>3
<1>13. QED
  BY <1>0, <1>4, <1>5, <1>6, <1>7, <1>10, <1>11, <1>12 DEF MergedKeys

Changed(keys, i, key) == [keys EXCEPT ![i] = key]

\* The keys ks with the places of keys, but key between the places i and i + 1
Redivided(S, keys, i, key, ks) ==
  /\ ks \in Seq(K) /\ Len(ks) = Len(keys) /\ Ascending(ks)
  /\ \A j \in 1 .. Len(keys) + 1 : j \notin {i, i + 1} => Slot(S, ks, j) = Slot(S, keys, j)
  /\ Slot(S, ks, i) = Below(Cup(Slot(S, keys, i), Slot(S, keys, i + 1)), key)
  /\ Slot(S, ks, i + 1) = From(Cup(Slot(S, keys, i), Slot(S, keys, i + 1)), key)

\* The key between two neighbours changes.
LEMMA SlotChange ==
  ASSUME NEW keys \in Seq(K), Ascending(keys), NEW S \in SUBSET K, NEW key \in K,
         NEW i \in 1 .. Len(keys), NEW ks, ks = Changed(keys, i, key),
         i > 1 => Lt(keys[i - 1], key), i < Len(keys) => Lt(key, keys[i + 1])
  PROVE  Redivided(S, keys, i, key, ks)
<1>1. ks \in Seq(K) /\ Len(ks) = Len(keys) /\ ks[i] = key /\ \A j \in 1 .. Len(keys) : j # i => ks[j] = keys[j]
  BY DEF Changed
<1>2. PICK rs : rs = RemoveAt(keys, i)
  OBVIOUS
<1>3. United(S, keys, i, rs)
  BY <1>2, SlotRemove
<1>11. rs \in Seq(K) /\ Len(rs) = Len(keys) - 1 /\ Ascending(rs)
  BY <1>3 DEF United
<1>4. \A j \in 1 .. Len(keys) - 1 : rs[j] = IF j < i THEN keys[j] ELSE keys[j + 1]
  BY <1>2, RemoveAtIs
<1>5. ks = InsertAt(rs, i, key)
  <2>1. PICK is : is = InsertAt(rs, i, key)
    OBVIOUS
  <2>2. /\ i \in 1 .. Len(rs) + 1 /\ Len(rs) + 1 = Len(keys)
    BY <1>11
  <2>3. /\ is \in Seq(K) /\ Len(is) = Len(rs) + 1
        /\ \A j \in 1 .. Len(rs) + 1 : is[j] = IF j < i THEN rs[j] ELSE IF j = i THEN key ELSE rs[j - 1]
    <3>1. rs \in Seq(K)
      BY <1>11
    <3>2. is \in Seq(K) /\ InsertedSeq(rs, i, key, is)
      BY <3>1, <2>1, <2>2, Inserted
    <3>3. QED
      BY <3>2 DEF InsertedSeq
  <2>4. ASSUME NEW j \in 1 .. Len(keys) PROVE is[j] = ks[j]
    <3>1. is[j] = IF j < i THEN rs[j] ELSE IF j = i THEN key ELSE rs[j - 1]
      BY <2>2, <2>3
    <3>2. CASE j < i
      <4>1. j \in 1 .. Len(keys) - 1
        BY <3>2
      <4>2. rs[j] = keys[j]
        BY <4>1, <3>2, <1>4
      <4>3. QED
        BY <4>2, <3>1, <3>2, <1>1
    <3>3. CASE j = i
      BY <3>1, <3>3, <1>1
    <3>4. CASE j > i
      <4>1. j - 1 \in 1 .. Len(keys) - 1 /\ ~(j - 1 < i) /\ (j - 1) + 1 = j
        BY <3>4
      <4>2. rs[j - 1] = keys[j]
        BY <4>1, <1>4
      <4>3. QED
        BY <4>2, <3>1, <3>4, <1>1
    <3>5. QED
      BY <3>2, <3>3, <3>4
  <2>5. QED
    BY <1>1, <2>1, <2>2, <2>3, <2>4
<1>6. i > 1 => rs[i - 1] = keys[i - 1]
  BY <1>4
<1>7. i <= Len(rs) => rs[i] = keys[i + 1] /\ i < Len(keys)
  BY <1>11, <1>4
<1>8. Divided(S, rs, i, key, ks)
  <2>1. i \in 1 .. Len(rs) + 1
    BY <1>11
  <2>2. (i > 1 => Lt(rs[i - 1], key)) /\ (i <= Len(rs) => Lt(key, rs[i]))
    BY <1>6, <1>7
  <2>3. QED
    <3>1. rs \in Seq(K) /\ Ascending(rs)
      BY <1>11
    <3>2. QED
      BY <1>5, <2>1, <2>2, <3>1, SlotInsert
<1>9. ASSUME NEW j \in 1 .. Len(keys) + 1, j \notin {i, i + 1} PROVE Slot(S, ks, j) = Slot(S, keys, j)
  <2>1. CASE j < i
    <3>1. j \in 1 .. Len(keys) /\ j \in 1 .. Len(rs) + 1
      BY <2>1, <1>11
    <3>2. Slot(S, ks, j) = Slot(S, rs, j)
      BY <3>1, <2>1, <1>8 DEF Divided
    <3>3. Slot(S, rs, j) = Slot(S, keys, j)
      BY <3>1, <2>1, <1>3 DEF United
    <3>4. QED
      BY <3>2, <3>3
  <2>2. CASE j > i + 1
    <3>1. j - 1 \in 1 .. Len(keys) /\ j - 1 > i /\ (j - 1) + 1 = j /\ j - 1 \in 1 .. Len(rs) + 1
      BY <2>2, <1>11
    <3>2. Slot(S, rs, j - 1) = Slot(S, keys, (j - 1) + 1)
      BY <3>1, <1>3 DEF United
    <3>3. Slot(S, ks, (j - 1) + 1) = Slot(S, rs, j - 1)
      BY <3>1, <1>8 DEF Divided
    <3>4. QED
      BY <3>1, <3>2, <3>3
  <2>3. QED
    BY <1>9, <2>1, <2>2
<1>10. Slot(S, rs, i) = Cup(Slot(S, keys, i), Slot(S, keys, i + 1))
  BY <1>3 DEF United
<1>12. /\ Ascending(ks)
       /\ Slot(S, ks, i) = Below(Slot(S, rs, i), key)
       /\ Slot(S, ks, i + 1) = From(Slot(S, rs, i), key)
  BY <1>8 DEF Divided
<1>13. QED
  BY <1>1, <1>9, <1>10, <1>12 DEF Redivided

-----------------------------------------------------------------------------
(* The chain of the leaves, when leaves are split and merged *)

ChainGhosts(L, sp, rk) ==
  /\ L \subseteq PageIds
  /\ sp \in [PageIds -> SUBSET K] /\ rk \in [PageIds -> Nat \ {0}]
  /\ \A x \in L : sp[x] # {}

LEMMA BeforeParts ==
  ASSUME NEW S \in SUBSET K, NEW T \in SUBSET K, NEW key \in K
  PROVE  /\ Below(S, key) \in SUBSET K /\ From(S, key) \in SUBSET K /\ Cup(S, T) \in SUBSET K
         /\ Before(Below(S, key), From(S, key))
         /\ Before(T, S) => Before(T, Below(S, key)) /\ Before(T, From(S, key))
         /\ Before(S, T) => Before(Below(S, key), T) /\ Before(From(S, key), T)
<1>1. ASSUME NEW a \in Below(S, key), NEW b \in From(S, key) PROVE Lt(a, b)
  <2>1. a \in K /\ b \in K /\ Lt(a, key) /\ ~Lt(b, key)
    BY DEF Below, From
  <2>2. QED
    BY <2>1, LtOrder
<1>2. QED
  BY <1>1 DEF Below, From, Cup, Before

LEMMA BeforeCup ==
  ASSUME NEW S, NEW T, NEW U
  PROVE  /\ Before(U, S) /\ Before(U, T) => Before(U, Cup(S, T))
         /\ Before(S, U) /\ Before(T, U) => Before(Cup(S, T), U)
BY DEF Cup, Before

\* No two nonempty spans are before each other; the relation is transitive.
LEMMA ChainOrder ==
  ASSUME NEW L, NEW sp, NEW rk, ChainGhosts(L, sp, rk)
  PROVE  /\ \A x, y \in L : Before(sp[x], sp[y]) => ~Before(sp[y], sp[x]) /\ x # y
         /\ \A x, y, z \in L : Before(sp[x], sp[y]) /\ Before(sp[y], sp[z]) => Before(sp[x], sp[z])
<1>1. \A x \in L : sp[x] \in SUBSET K /\ sp[x] # {}
  BY DEF ChainGhosts
<1>2. QED
  BY <1>1, BeforeFacts

LEMMA ChainSplit ==
  ASSUME NEW L, NEW sp, NEW nx, NEW rk, ChainGhosts(L, sp, rk), ChainOK(L, sp, nx, rk),
         NEW p \in L, NEW q \in PageIds \ L, NEW key \in K,
         NEW M, NEW sq, NEW ny, NEW rj, M = L \cup {q},
         sq[p] = Below(sp[p], key), sq[q] = From(sp[p], key), \A x \in L \ {p} : sq[x] = sp[x],
         ny[p] = q, ny[q] = nx[p], \A x \in L \ {p} : ny[x] = nx[x],
         rj[q] = 2 * rk[p] - 1, \A x \in L : rj[x] = 2 * rk[x]
  PROVE  ChainOK(M, sq, ny, rj)
<1>20. L \subseteq PageIds /\ sp \in [PageIds -> SUBSET K] /\ rk \in [PageIds -> Nat \ {0}]
  BY DEF ChainGhosts
<1>21. 0 \notin PageIds
  BY DEF PageIds
<1>22. FirstPage \in L
  BY DEF ChainOK
<1>1. /\ \A x \in L : sp[x] \in SUBSET K /\ rk[x] \in Nat \ {0}
      /\ q # p /\ q \notin L /\ FirstPage \in L /\ q # 0 /\ 0 \notin L
  BY <1>20, <1>21, <1>22
<1>2. Before(sq[p], sq[q])
  <2>1. sp[p] \in SUBSET K
    BY <1>1
  <2>2. Before(Below(sp[p], key), From(sp[p], key))
    BY <2>1, BeforeParts
  <2>3. QED
    BY <2>2
<1>3. ASSUME NEW x \in L \ {p}
      PROVE  /\ Before(sp[x], sp[p]) => Before(sq[x], sq[p]) /\ Before(sq[x], sq[q])
             /\ Before(sp[p], sp[x]) => Before(sq[p], sq[x]) /\ Before(sq[q], sq[x])
  BY <1>1, BeforeParts
<1>4. \A x, y \in L \ {p} : Before(sp[x], sp[y]) <=> Before(sq[x], sq[y])
  OBVIOUS
<1>5. \A x \in L \ {FirstPage} : Before(sp[FirstPage], sp[x])
  BY DEF ChainOK
<1>6. \A x, y \in L : x # y => Before(sp[x], sp[y]) \/ Before(sp[y], sp[x])
  BY DEF ChainOK
<1>7. ASSUME NEW x \in M \ {FirstPage} PROVE Before(sq[FirstPage], sq[x])
  <2>1. CASE FirstPage = p
    BY <2>1, <1>1, <1>2, <1>3, <1>5
  <2>2. CASE FirstPage # p
    <3>1. FirstPage \in L \ {p} /\ Before(sp[FirstPage], sp[p])
      BY <2>2, <1>1, <1>5
    <3>2. CASE x \in {p, q}
      BY <3>1, <3>2, <1>3
    <3>3. CASE x \notin {p, q}
      BY <3>1, <3>3, <1>4, <1>5
    <3>4. QED
      BY <3>2, <3>3
  <2>3. QED
    BY <2>1, <2>2
<1>8. ASSUME NEW x \in M, NEW y \in M, x # y PROVE Before(sq[x], sq[y]) \/ Before(sq[y], sq[x])
  <2>1. CASE x \in L \ {p} /\ y \in L \ {p}
    BY <2>1, <1>4, <1>6, <1>8
  <2>2. CASE x \in L \ {p} /\ y \in {p, q}
    BY <2>2, <1>3, <1>6, <1>8
  <2>3. CASE x \in {p, q} /\ y \in L \ {p}
    BY <2>3, <1>3, <1>6, <1>8
  <2>4. CASE x \in {p, q} /\ y \in {p, q}
    BY <2>4, <1>2, <1>8
  <2>5. QED
    BY <2>1, <2>2, <2>3, <2>4
<1>9. NextAt(M, sq, ny, rj, p)
  <2>1. ny[p] \in M \ {p} /\ rj[ny[p]] < rj[p]
    BY <1>1
  <2>2. ASSUME NEW x \in M \ {p, q} PROVE Before(sq[x], sq[p]) \/ Before(sq[q], sq[x])
    <3>1. x \in L \ {p}
      BY <2>2
    <3>2. QED
      BY <3>1, <1>3, <1>6
  <2>3. QED
    BY <2>1, <2>2, <1>2 DEF NextAt
<1>10. NextAt(M, sq, ny, rj, q)
  <2>1. NextAt(L, sp, nx, rk, p)
    BY DEF ChainOK
  <2>2. CASE nx[p] = 0
    <3>1. \A x \in L \ {p} : Before(sp[x], sp[p])
      BY <2>1, <2>2, <1>1 DEF NextAt
    <3>2. ASSUME NEW x \in M \ {q} PROVE Before(sq[x], sq[q])
      BY <3>1, <1>2, <1>3
    <3>3. QED
      BY <2>2, <3>2 DEF NextAt
  <2>3. CASE nx[p] # 0
    <3>1. PICK n : n = nx[p]
      OBVIOUS
    <3>2. /\ n \in L \ {p} /\ rk[n] < rk[p] /\ Before(sp[p], sp[n])
          /\ \A x \in L \ {p, n} : Before(sp[x], sp[p]) \/ Before(sp[n], sp[x])
      BY <2>1, <2>3, <3>1 DEF NextAt
    <3>3. n \in M \ {q} /\ rj[n] < rj[q]
      <4>1. rj[n] = 2 * rk[n] /\ rk[n] \in Nat /\ rk[p] \in Nat
        BY <3>2, <1>1
      <4>2. QED
        BY <4>1, <3>2, <1>1
    <3>4. Before(sq[q], sq[n])
      BY <3>2, <1>3
    <3>5. ASSUME NEW x \in M \ {q, n} PROVE Before(sq[x], sq[q]) \/ Before(sq[n], sq[x])
      <4>1. CASE x = p
        BY <4>1, <1>2
      <4>2. CASE x # p
        <5>1. x \in L \ {p, n}
          BY <4>2, <3>5
        <5>2. QED
          BY <5>1, <3>2, <1>3, <1>4
      <4>3. QED
        BY <4>1, <4>2
    <3>6. ny[q] = n
      BY <3>1
    <3>7. QED
      BY <3>3, <3>4, <3>5, <3>6 DEF NextAt
  <2>4. QED
    BY <2>2, <2>3
<1>11. ASSUME NEW y \in L \ {p} PROVE NextAt(M, sq, ny, rj, y)
  <2>1. NextAt(L, sp, nx, rk, y) /\ ny[y] = nx[y]
    BY DEF ChainOK
  <2>2. CASE nx[y] = 0
    <3>1. \A x \in L \ {y} : Before(sp[x], sp[y])
      BY <2>1, <2>2, <1>1 DEF NextAt
    <3>2. ASSUME NEW x \in M \ {y} PROVE Before(sq[x], sq[y])
      <4>1. CASE x \in {p, q}
        BY <4>1, <3>1, <1>3
      <4>2. CASE x \notin {p, q}
        BY <4>2, <3>1, <3>2, <1>4
      <4>3. QED
        BY <4>1, <4>2
    <3>3. QED
      BY <2>1, <2>2, <3>2 DEF NextAt
  <2>3. CASE nx[y] # 0
    <3>1. PICK n : n = nx[y]
      OBVIOUS
    <3>2. /\ n \in L \ {y} /\ rk[n] < rk[y] /\ Before(sp[y], sp[n])
          /\ \A x \in L \ {y, n} : Before(sp[x], sp[y]) \/ Before(sp[n], sp[x])
      BY <2>1, <2>3, <3>1 DEF NextAt
    <3>3. n \in M \ {y} /\ rj[n] < rj[y]
      <4>1. rj[n] = 2 * rk[n] /\ rj[y] = 2 * rk[y] /\ rk[n] \in Nat /\ rk[y] \in Nat
        BY <3>2, <1>1
      <4>2. QED
        BY <4>1, <3>2
    <3>4. Before(sq[y], sq[n])
      BY <3>2, <1>3, <1>4
    <3>5. ASSUME NEW x \in M \ {y, n} PROVE Before(sq[x], sq[y]) \/ Before(sq[n], sq[x])
      <4>1. CASE x \notin {p, q} /\ n # p
        <5>1. x \in L \ {p} /\ x \in L \ {y, n} /\ n \in L \ {p}
          BY <4>1, <3>2, <3>5
        <5>2. QED
          BY <5>1, <3>2, <1>4
      <4>2. CASE x \notin {p, q} /\ n = p
        <5>1. x \in L \ {p} /\ x \in L \ {y, n}
          BY <4>2, <3>2, <3>5
        <5>2. QED
          BY <5>1, <4>2, <3>2, <1>3, <1>4
      <4>3. CASE x \in {p, q} /\ n # p
        <5>1. p \in L \ {y, n} /\ n \in L \ {p}
          BY <4>3, <3>2
        <5>2. Before(sp[p], sp[y]) \/ Before(sp[n], sp[p])
          BY <5>1, <3>2
        <5>3. QED
          BY <5>1, <5>2, <4>3, <1>3
      <4>4. CASE x \in {p, q} /\ n = p
        BY <4>4, <3>5, <1>2
      <4>5. QED
        BY <4>1, <4>2, <4>3, <4>4
    <3>6. QED
      BY <2>1, <3>1, <3>3, <3>4, <3>5 DEF NextAt
  <2>4. QED
    BY <2>2, <2>3
<1>12. \A y \in M : NextAt(M, sq, ny, rj, y)
  BY <1>9, <1>10, <1>11
<1>13. QED
  BY <1>1, <1>7, <1>8, <1>12 DEF ChainOK

LEMMA ChainMerge ==
  ASSUME NEW L, NEW sp, NEW nx, NEW rk, ChainGhosts(L, sp, rk), ChainOK(L, sp, nx, rk),
         NEW l \in L, NEW r \in L, nx[l] = r,
         NEW M, NEW sq, NEW ny, M = L \ {r},
         sq[l] = Cup(sp[l], sp[r]), \A x \in M \ {l} : sq[x] = sp[x],
         ny[l] = nx[r], \A x \in M \ {l} : ny[x] = nx[x]
  PROVE  r # l /\ r # FirstPage /\ ChainOK(M, sq, ny, rk)
<1>20. L \subseteq PageIds /\ sp \in [PageIds -> SUBSET K] /\ rk \in [PageIds -> Nat \ {0}]
  BY DEF ChainGhosts
<1>21. 0 \notin PageIds
  BY DEF PageIds
<1>22. /\ FirstPage \in L
       /\ \A x \in L \ {FirstPage} : Before(sp[FirstPage], sp[x])
       /\ \A x, y \in L : x # y => Before(sp[x], sp[y]) \/ Before(sp[y], sp[x])
       /\ \A y \in L : NextAt(L, sp, nx, rk, y)
  BY DEF ChainOK
<1>23. /\ \A x, y \in L : Before(sp[x], sp[y]) => ~Before(sp[y], sp[x]) /\ x # y
       /\ \A x, y, z \in L : Before(sp[x], sp[y]) /\ Before(sp[y], sp[z]) => Before(sp[x], sp[z])
  BY ChainOrder
<1>24. \A x \in L : rk[x] \in Nat
  BY <1>20
<1>1. 0 \notin L
  BY <1>20, <1>21
<1>2. /\ r # l /\ rk[r] < rk[l] /\ Before(sp[l], sp[r])
      /\ \A x \in L \ {l, r} : Before(sp[x], sp[l]) \/ Before(sp[r], sp[x])
  BY <1>22, <1>1 DEF NextAt
<1>3. r # FirstPage /\ FirstPage \in M
  BY <1>2, <1>22, <1>23
<1>4. ASSUME NEW x \in L \ {l, r}
      PROVE  \/ Before(sp[x], sp[l]) /\ Before(sp[x], sp[r]) /\ Before(sq[x], sq[l])
             \/ Before(sp[l], sp[x]) /\ Before(sp[r], sp[x]) /\ Before(sq[l], sq[x])
  <2>1. sq[x] = sp[x] /\ x \in L
    OBVIOUS
  <2>2. CASE Before(sp[x], sp[l])
    <3>1. Before(sp[x], sp[r])
      BY <2>1, <2>2, <1>2, <1>23
    <3>2. Before(sp[x], Cup(sp[l], sp[r]))
      BY <2>2, <3>1, BeforeCup
    <3>3. QED
      BY <2>1, <2>2, <3>1, <3>2
  <2>3. CASE Before(sp[r], sp[x])
    <3>1. Before(sp[l], sp[x])
      BY <2>1, <2>3, <1>2, <1>23
    <3>2. Before(Cup(sp[l], sp[r]), sp[x])
      BY <2>3, <3>1, BeforeCup
    <3>3. QED
      BY <2>1, <2>3, <3>1, <3>2
  <2>4. QED
    BY <2>2, <2>3, <1>2
\* What the order was, it is.
<1>5. ASSUME NEW x \in M, NEW y \in M, x # y, Before(sp[x], sp[y]) PROVE Before(sq[x], sq[y])
  <2>1. CASE x = l
    <3>1. y \in L \ {l, r}
      BY <1>5, <2>1
    <3>2. QED
      BY <3>1, <2>1, <1>4, <1>5, <1>23
  <2>2. CASE y = l
    <3>1. x \in L \ {l, r}
      BY <1>5, <2>2
    <3>2. QED
      BY <3>1, <2>2, <1>4, <1>5, <1>23
  <2>3. CASE x # l /\ y # l
    BY <2>3, <1>5
  <2>4. QED
    BY <2>1, <2>2, <2>3
<1>6. \A x \in M \ {FirstPage} : Before(sq[FirstPage], sq[x])
  BY <1>3, <1>5, <1>22
<1>7. \A x, y \in M : x # y => Before(sq[x], sq[y]) \/ Before(sq[y], sq[x])
  BY <1>5, <1>22
<1>8. NextAt(M, sq, ny, rk, l)
  <2>1. NextAt(L, sp, nx, rk, r)
    BY <1>22
  <2>2. CASE nx[r] = 0
    <3>1. \A x \in L \ {r} : Before(sp[x], sp[r])
      BY <2>1, <2>2, <1>1 DEF NextAt
    <3>2. \A x \in M \ {l} : Before(sq[x], sq[l])
      BY <3>1, <1>4, <1>23
    <3>3. QED
      BY <2>2, <3>2 DEF NextAt
  <2>3. CASE nx[r] # 0
    <3>1. PICK n : n = nx[r]
      OBVIOUS
    <3>2. /\ n \in L \ {r} /\ rk[n] < rk[r] /\ Before(sp[r], sp[n])
          /\ \A x \in L \ {r, n} : Before(sp[x], sp[r]) \/ Before(sp[n], sp[x])
      BY <2>1, <2>3, <3>1 DEF NextAt
    <3>3. n # l /\ n \in M \ {l}
      BY <3>2, <1>2, <1>23
    <3>4. rk[n] < rk[l]
      BY <3>2, <1>2, <1>24
    <3>5. Before(sp[l], sp[n])
      BY <3>2, <1>2, <1>23
    <3>6. Before(sq[l], sq[n])
      BY <3>3, <3>5, <1>2, <1>5
    <3>7. ASSUME NEW x \in M \ {l, n} PROVE Before(sq[x], sq[l]) \/ Before(sq[n], sq[x])
      <4>1. x \in L \ {l, r} /\ x \in L \ {r, n}
        OBVIOUS
      <4>2. CASE Before(sp[x], sp[r])
        BY <4>1, <4>2, <1>4, <1>23
      <4>3. CASE Before(sp[n], sp[x])
        BY <4>1, <4>3, <3>3, <1>5
      <4>4. QED
        BY <4>1, <4>2, <4>3, <3>2
    <3>8. QED
      BY <3>1, <3>3, <3>4, <3>6, <3>7 DEF NextAt
  <2>4. QED
    BY <2>2, <2>3
<1>9. ASSUME NEW y \in M \ {l} PROVE NextAt(M, sq, ny, rk, y)
  <2>1. NextAt(L, sp, nx, rk, y) /\ ny[y] = nx[y] /\ y \in L \ {l, r}
    BY <1>22
  <2>2. CASE nx[y] = 0
    <3>1. \A x \in L \ {y} : Before(sp[x], sp[y])
      BY <2>1, <2>2, <1>1 DEF NextAt
    <3>2. \A x \in M \ {y} : Before(sq[x], sq[y])
      BY <3>1, <1>5
    <3>3. QED
      BY <2>1, <2>2, <3>2 DEF NextAt
  <2>3. CASE nx[y] # 0
    <3>1. PICK n : n = nx[y]
      OBVIOUS
    <3>2. /\ n \in L \ {y} /\ rk[n] < rk[y] /\ Before(sp[y], sp[n])
          /\ \A x \in L \ {y, n} : Before(sp[x], sp[y]) \/ Before(sp[n], sp[x])
      BY <2>1, <2>3, <3>1 DEF NextAt
    <3>3. n # r
      <4>1. SUFFICES ASSUME n = r PROVE FALSE
        OBVIOUS
      <4>2. l \in L \ {y, n}
        BY <4>1, <2>1, <1>2
      <4>3. Before(sp[l], sp[y])
        BY <4>1, <4>2, <3>2, <1>2, <1>23
      <4>4. Before(sp[y], sp[r])
        BY <4>1, <3>2
      <4>5. QED
        BY <2>1, <4>3, <4>4, <1>2, <1>23
    <3>4. n \in M \ {y}
      BY <3>2, <3>3
    <3>5. Before(sq[y], sq[n])
      BY <3>2, <3>4, <1>5
    <3>6. ASSUME NEW x \in M \ {y, n} PROVE Before(sq[x], sq[y]) \/ Before(sq[n], sq[x])
      <4>1. Before(sp[x], sp[y]) \/ Before(sp[n], sp[x])
        BY <3>2
      <4>2. QED
        BY <4>1, <3>4, <1>5
    <3>7. QED
      BY <2>1, <3>1, <3>2, <3>4, <3>5, <3>6 DEF NextAt
  <2>4. QED
    BY <2>2, <2>3
<1>10. \A y \in M : NextAt(M, sq, ny, rk, y)
  BY <1>8, <1>9
<1>11. QED
  BY <1>2, <1>3, <1>6, <1>7, <1>10 DEF ChainOK

LEMMA ChainSame ==
  ASSUME NEW L, NEW sp, NEW nx, NEW rk, ChainOK(L, sp, nx, rk), NEW sq, NEW ny,
         \A x \in L : sq[x] = sp[x] /\ ny[x] = nx[x]
  PROVE  ChainOK(L, sq, ny, rk)
<1>1. ASSUME NEW p \in L PROVE NextAt(L, sq, ny, rk, p)
  <2>1. NextAt(L, sp, nx, rk, p) /\ ny[p] = nx[p] /\ sq[p] = sp[p]
    BY DEF ChainOK
  <2>2. CASE nx[p] \in L
    BY <2>1, <2>2 DEF NextAt
  <2>3. CASE nx[p] \notin L
    BY <2>1, <2>3 DEF NextAt
  <2>4. QED
    BY <2>2, <2>3
<1>2. QED
  BY <1>1 DEF ChainOK

LEMMA ChainRanks ==
  ASSUME NEW L, NEW sp, NEW nx, NEW rk, NEW rj, ChainOK(L, sp, nx, rk),
         \A x \in L : rk[x] \in Nat /\ rj[x] = 2 * rk[x]
  PROVE  ChainOK(L, sp, nx, rj)
<1>1. \A x, y \in L : rk[x] < rk[y] => rj[x] < rj[y]
  OBVIOUS
<1>2. ASSUME NEW p \in L PROVE NextAt(L, sp, nx, rj, p)
  <2>1. NextAt(L, sp, nx, rk, p)
    BY DEF ChainOK
  <2>2. QED
    BY <1>1, <2>1 DEF NextAt
<1>3. QED
  BY <1>2 DEF ChainOK

-----------------------------------------------------------------------------
(* Reading a tree *)

TypeAt(ns, h, sp, rk, x) ==
  /\ x \in PageIds /\ ns[x] \in NodeType
  /\ h[x] \in Nat /\ rk[x] \in Nat \ {0} /\ sp[x] \in SUBSET K

LEMMA TreeNode ==
  ASSUME NEW ns, NEW r, NEW h, NEW sp, NEW rk, Tree(ns, r, h, sp, rk), NEW x \in DOMAIN ns
  PROVE  /\ TypeAt(ns, h, sp, rk, x)
         /\ ns[x].keys \in Seq(K) /\ ns[x].ptrs \in Seq(Int)
         /\ NodeAt(ns, h, sp, x)
         /\ sp[x] # {} /\ Convex(sp[x])
         /\ Ascending(ns[x].keys)
         /\ \A i \in 1 .. Len(ns[x].keys) : ns[x].keys[i] \in sp[x]
<1>1. x \in PageIds /\ ns[x] \in NodeType
  BY DEF Tree, NodesOK
<1>2. h[x] \in Nat /\ rk[x] \in Nat \ {0} /\ sp[x] \in SUBSET K
  BY <1>1 DEF Tree, GhostsOK
<1>3. ns[x].keys \in Seq(Entries) /\ ns[x].ptrs \in Seq(Int)
  BY <1>1 DEF NodeType
<1>4. ns[x].keys \in Seq(K)
  BY <1>3, EntriesInK
<1>5. NodeAt(ns, h, sp, x)
  BY DEF Tree
<1>6. QED
  BY <1>1, <1>2, <1>3, <1>4, <1>5 DEF TypeAt, NodeAt, SpanAt, KeysAt

LEMMA TreeEdge ==
  ASSUME NEW ns, NEW r, NEW h, NEW sp, NEW rk, Tree(ns, r, h, sp, rk),
         NEW x \in DOMAIN ns, ~ns[x].leaf
  PROVE  /\ ns[x].next = 0
         /\ Len(ns[x].ptrs) = Len(ns[x].keys) + 1
         /\ Len(ns[x].keys) \in Nat
         /\ \A i \in 1 .. Len(ns[x].keys) + 1 : EdgeAt(ns, h, sp, x, i)
<1>1. InnerAt(ns, h, sp, x)
  BY DEF Tree, NodeAt
<1>2. ns[x].keys \in Seq(K)
  BY TreeNode
<1>3. QED
  BY <1>1, <1>2 DEF InnerAt

LEMMA TreeChild ==
  ASSUME NEW ns, NEW r, NEW h, NEW sp, NEW rk, Tree(ns, r, h, sp, rk),
         NEW x \in DOMAIN ns, ~ns[x].leaf, NEW i \in 1 .. Len(ns[x].keys) + 1, NEW c, c = ns[x].ptrs[i]
  PROVE  /\ c \in DOMAIN ns /\ ns[c].parent = x /\ h[c] + 1 = h[x]
         /\ sp[c] = Slot(sp[x], ns[x].keys, i)
         /\ c # x /\ c # r
<1>1. c \in DOMAIN ns /\ ns[c].parent = x /\ h[c] + 1 = h[x] /\ sp[c] = Slot(sp[x], ns[x].keys, i)
  BY TreeEdge DEF EdgeAt
<1>2. h[x] \in Nat /\ h[c] \in Nat /\ x \in PageIds
  BY <1>1, TreeNode DEF TypeAt
<1>3. ns[r].parent = -1
  BY DEF Tree, RootAt
<1>4. x # -1
  BY <1>2 DEF PageIds
<1>5. QED
  BY <1>1, <1>2, <1>3, <1>4

\* A node is the child of its parent at one place.
LEMMA ChildrenApart ==
  ASSUME NEW ns, NEW r, NEW h, NEW sp, NEW rk, Tree(ns, r, h, sp, rk),
         NEW x \in DOMAIN ns, ~ns[x].leaf,
         NEW i \in 1 .. Len(ns[x].keys) + 1, NEW j \in 1 .. Len(ns[x].keys) + 1
  PROVE  ns[x].ptrs[i] = ns[x].ptrs[j] => i = j
<1>1. SUFFICES ASSUME NEW a \in 1 .. Len(ns[x].keys) + 1, NEW b \in 1 .. Len(ns[x].keys) + 1,
                      a < b, ns[x].ptrs[a] = ns[x].ptrs[b]
               PROVE  FALSE
  <2>1. Len(ns[x].keys) \in Nat
    BY TreeEdge
  <2>2. QED
    BY <1>1, <2>1
<1>2. PICK c : c = ns[x].ptrs[a]
  OBVIOUS
<1>3. PICK keys : keys = ns[x].keys
  OBVIOUS
<1>4. PICK S : S = sp[x]
  OBVIOUS
<1>5. keys \in Seq(K) /\ Ascending(keys) /\ S \in SUBSET K
  BY <1>3, <1>4, TreeNode DEF TypeAt
<1>6. c \in DOMAIN ns /\ sp[c] = Slot(S, keys, a)
  BY <1>2, <1>3, <1>4, TreeChild
<1>7. sp[c] = Slot(S, keys, b)
  BY <1>1, <1>2, <1>3, <1>4, TreeChild
<1>8. Before(Slot(S, keys, a), Slot(S, keys, b))
  BY <1>1, <1>3, <1>5, SlotsApart
<1>9. sp[c] \in SUBSET K /\ sp[c] # {}
  BY <1>6, TreeNode DEF TypeAt
<1>10. QED
  BY <1>6, <1>7, <1>8, <1>9, BeforeFacts

LEMMA TreeUp ==
  ASSUME NEW ns, NEW r, NEW h, NEW sp, NEW rk, Tree(ns, r, h, sp, rk), NEW x \in DOMAIN ns
  PROVE  /\ r \in DOMAIN ns /\ sp[r] = K /\ ns[r].parent = -1
         /\ x = r <=> ns[x].parent = -1
         /\ x # r => /\ ns[x].parent \in DOMAIN ns /\ ~ns[ns[x].parent].leaf
                     /\ \E i \in 1 .. Len(ns[ns[x].parent].keys) + 1 : ns[ns[x].parent].ptrs[i] = x
<1>1. r \in DOMAIN ns /\ sp[r] = K /\ ns[r].parent = -1
  BY DEF Tree, RootAt
<1>2. ASSUME x # r
      PROVE  /\ ns[x].parent \in DOMAIN ns /\ ~ns[ns[x].parent].leaf /\ ns[x].parent # -1
             /\ \E i \in 1 .. Len(ns[ns[x].parent].keys) + 1 : ns[ns[x].parent].ptrs[i] = x
  <2>1. UpAt(ns, x)
    BY <1>2 DEF Tree
  <2>2. PICK y : y = ns[x].parent
    OBVIOUS
  <2>3. y \in DOMAIN ns /\ ~ns[y].leaf /\ \E i \in 1 .. Len(ns[y].ptrs) : ns[y].ptrs[i] = x
    BY <2>1, <2>2 DEF UpAt
  <2>4. Len(ns[y].ptrs) = Len(ns[y].keys) + 1
    BY <2>3, TreeEdge
  <2>5. y \in PageIds
    BY <2>3 DEF Tree, NodesOK
  <2>6. y # -1
    BY <2>5 DEF PageIds
  <2>7. QED
    BY <2>2, <2>3, <2>4, <2>6
<1>3. QED
  BY <1>1, <1>2

\* A node with a parent is not the root and is one of its children.
LEMMA TreeParent ==
  ASSUME NEW ns, NEW r, NEW h, NEW sp, NEW rk, Tree(ns, r, h, sp, rk),
         NEW x \in DOMAIN ns, NEW y \in DOMAIN ns, ns[x].parent = y
  PROVE  x # r /\ x # y /\ ~ns[y].leaf /\ \E i \in 1 .. Len(ns[y].keys) + 1 : ns[y].ptrs[i] = x
<1>1. y \in PageIds
  BY DEF Tree, NodesOK
<1>2. y # -1
  BY <1>1 DEF PageIds
<1>3. x # r
  BY <1>2, TreeUp
<1>4. ~ns[y].leaf /\ \E i \in 1 .. Len(ns[y].keys) + 1 : ns[y].ptrs[i] = x
  BY <1>3, TreeUp
<1>5. x # y
  BY <1>4, TreeChild
<1>6. QED
  BY <1>3, <1>4, <1>5

-----------------------------------------------------------------------------
(* What a change of a tree leaves alone *)

SameBody(ns, ms, x) ==
  /\ ms[x].leaf = ns[x].leaf /\ ms[x].keys = ns[x].keys
  /\ ms[x].ptrs = ns[x].ptrs /\ ms[x].next = ns[x].next

\* Node x is as it was, and so are the heights, spans and parents of its children.
LEMMA NodeKept ==
  ASSUME NEW ns, NEW r, NEW h, NEW sp, NEW rk, Tree(ns, r, h, sp, rk), NEW x \in DOMAIN ns,
         NEW ms, NEW hh, NEW sq, SameBody(ns, ms, x), hh[x] = h[x], sq[x] = sp[x],
         \A c \in DOMAIN ns : ns[c].parent = x =>
           c \in DOMAIN ms /\ ms[c].parent = x /\ hh[c] = h[c] /\ sq[c] = sp[c]
  PROVE  NodeAt(ms, hh, sq, x)
<1>1. NodeAt(ns, h, sp, x)
  BY DEF Tree
<1>2. SpanAt(sq, x) /\ KeysAt(ms, sq, x)
  BY <1>1 DEF NodeAt, SpanAt, KeysAt, SameBody
<1>3. CASE ns[x].leaf
  BY <1>1, <1>2, <1>3 DEF NodeAt, SameBody, LeafAt
<1>4. CASE ~ns[x].leaf
  <2>1. ms[x].next = 0 /\ Len(ms[x].ptrs) = Len(ms[x].keys) + 1 /\ ~ms[x].leaf
    BY <1>4, TreeEdge DEF SameBody
  <2>2. ASSUME NEW i \in 1 .. Len(ns[x].keys) + 1 PROVE EdgeAt(ms, hh, sq, x, i)
    <3>1. PICK c : c = ns[x].ptrs[i]
      OBVIOUS
    <3>2. c \in DOMAIN ns /\ ns[c].parent = x /\ h[c] + 1 = h[x] /\ sp[c] = Slot(sp[x], ns[x].keys, i)
      BY <1>4, <3>1, TreeChild
    <3>3. c \in DOMAIN ms /\ ms[c].parent = x /\ hh[c] = h[c] /\ sq[c] = sp[c]
      BY <3>2
    <3>4. c = ms[x].ptrs[i] /\ ms[x].keys = ns[x].keys
      BY <3>1 DEF SameBody
    <3>5. QED
      BY <3>2, <3>3, <3>4 DEF EdgeAt
  <2>3. QED
    BY <2>1, <2>2, <1>2 DEF NodeAt, InnerAt, SameBody
<1>5. QED
  BY <1>3, <1>4

LEMMA UpKept ==
  ASSUME NEW ns, NEW r, NEW h, NEW sp, NEW rk, Tree(ns, r, h, sp, rk), NEW x \in DOMAIN ns \ {r},
         NEW ms, ms[x].parent = ns[x].parent, ns[x].parent \in DOMAIN ms,
         SameBody(ns, ms, ns[x].parent)
  PROVE  UpAt(ms, x)
<1>1. UpAt(ns, x)
  BY DEF Tree
<1>2. QED
  BY <1>1 DEF UpAt, SameBody

-----------------------------------------------------------------------------
(* A node is split *)

\* ms is ns with the child p of y, at its place i, divided into p and the new q
SplitBody(ns, ms, p, q, y, i, key) ==
  /\ y \in DOMAIN ns /\ ~ns[y].leaf
  /\ i \in 1 .. Len(ns[y].keys) + 1 /\ ns[y].ptrs[i] = p
  /\ q \in PageIds \ DOMAIN ns /\ DOMAIN ms = DOMAIN ns \cup {q} /\ NodesOK(ms)
  /\ ms[y].leaf = ns[y].leaf /\ ms[y].next = 0
  /\ ms[y].keys = InsertAt(ns[y].keys, i, key) /\ ms[y].ptrs = InsertAt(ns[y].ptrs, i + 1, q)
  /\ ms[p].leaf = ns[p].leaf /\ ms[q].leaf = ns[p].leaf
  /\ ms[q].parent = y
  /\ \A x \in DOMAIN ns \ {p, y} : SameBody(ns, ms, x)
  /\ \A x \in DOMAIN ns : ns[x].parent # p => ms[x].parent = ns[x].parent

SplitHeights(h, p, q) == [h EXCEPT ![q] = h[p]]
SplitSpans(sp, p, q, key) == [sp EXCEPT ![p] = Below(sp[p], key), ![q] = From(sp[p], key)]
SplitRanks(rk, p, q) == [x \in PageIds |-> IF x = q THEN 2 * rk[p] - 1 ELSE 2 * rk[x]]

\* What the ghosts hh, sq, rj of the split tree are
SplitGhostsAre(h, sp, rk, p, q, key, hh, sq, rj) ==
  /\ GhostsOK(hh, sq, rj)
  /\ hh[q] = h[p] /\ \A x \in PageIds \ {q} : hh[x] = h[x]
  /\ sq[p] = Below(sp[p], key) /\ sq[q] = From(sp[p], key)
  /\ \A x \in PageIds \ {p, q} : sq[x] = sp[x]
  /\ rj[q] = 2 * rk[p] - 1 /\ \A x \in PageIds \ {q} : rj[x] = 2 * rk[x]

LEMMA SplitGhosts ==
  ASSUME NEW h, NEW sp, NEW rk, GhostsOK(h, sp, rk), NEW p \in PageIds, NEW q \in PageIds, p # q,
         NEW key \in K,
         NEW hh, NEW sq, NEW rj, hh = SplitHeights(h, p, q), sq = SplitSpans(sp, p, q, key),
         rj = SplitRanks(rk, p, q)
  PROVE  SplitGhostsAre(h, sp, rk, p, q, key, hh, sq, rj)
<1>1. h \in [PageIds -> Nat] /\ sp \in [PageIds -> SUBSET K] /\ rk \in [PageIds -> Nat \ {0}]
  BY DEF GhostsOK
<1>2. hh \in [PageIds -> Nat] /\ hh[q] = h[p] /\ \A x \in PageIds \ {q} : hh[x] = h[x]
  BY <1>1 DEF SplitHeights
<1>3. sp[p] \in SUBSET K
  BY <1>1
<1>4. Below(sp[p], key) \in SUBSET K /\ From(sp[p], key) \in SUBSET K
  BY <1>3, BeforeParts
<1>5. /\ sq \in [PageIds -> SUBSET K]
      /\ sq[p] = Below(sp[p], key) /\ sq[q] = From(sp[p], key)
      /\ \A x \in PageIds \ {p, q} : sq[x] = sp[x]
  BY <1>1, <1>4 DEF SplitSpans
<1>6. \A x \in PageIds : rk[x] \in Nat \ {0} /\ 2 * rk[x] \in Nat \ {0} /\ 2 * rk[x] - 1 \in Nat \ {0}
  BY <1>1
<1>7. /\ rj \in [PageIds -> Nat \ {0}]
      /\ rj[q] = 2 * rk[p] - 1 /\ \A x \in PageIds \ {q} : rj[x] = 2 * rk[x]
  BY <1>6 DEF SplitRanks
<1>8. QED
  BY <1>2, <1>5, <1>7 DEF GhostsOK, SplitGhostsAre

\* The parent of the node that is split
LEMMA SplitParent ==
  ASSUME NEW ns, NEW r, NEW h, NEW sp, NEW rk, Tree(ns, r, h, sp, rk),
         NEW ms, NEW p, NEW q, NEW y, NEW i, NEW key \in K, SplitBody(ns, ms, p, q, y, i, key),
         NEW hh, NEW sq, hh = SplitHeights(h, p, q), sq = SplitSpans(sp, p, q, key),
         key \in sp[p], Below(sp[p], key) # {}
  PROVE  /\ NodeAt(ms, hh, sq, y)
         /\ UpAt(ms, p) /\ UpAt(ms, q)
         /\ \A x \in DOMAIN ns \ {p} : ns[x].parent = y => UpAt(ms, x)
<1>1. /\ y \in DOMAIN ns /\ ~ns[y].leaf /\ i \in 1 .. Len(ns[y].keys) + 1 /\ ns[y].ptrs[i] = p
      /\ q \in PageIds \ DOMAIN ns /\ DOMAIN ms = DOMAIN ns \cup {q}
      /\ ~ms[y].leaf /\ ms[y].next = 0 /\ ms[q].parent = y
      /\ ms[y].keys = InsertAt(ns[y].keys, i, key) /\ ms[y].ptrs = InsertAt(ns[y].ptrs, i + 1, q)
      /\ \A x \in DOMAIN ns : ns[x].parent # p => ms[x].parent = ns[x].parent
  BY DEF SplitBody
<1>2. p \in DOMAIN ns /\ ns[p].parent = y /\ h[p] + 1 = h[y] /\ sp[p] = Slot(sp[y], ns[y].keys, i) /\ p # y
  BY <1>1, TreeChild
<1>3. p \in PageIds /\ p # q /\ y \in PageIds /\ y # q
  BY <1>1, <1>2, TreeNode DEF TypeAt
<1>4. /\ hh[q] = h[p] /\ \A x \in PageIds \ {q} : hh[x] = h[x]
      /\ sq[p] = Below(sp[p], key) /\ sq[q] = From(sp[p], key)
      /\ \A x \in PageIds \ {p, q} : sq[x] = sp[x]
  <2>1. GhostsOK(h, sp, rk)
    BY DEF Tree
  <2>2. PICK rj : rj = SplitRanks(rk, p, q)
    OBVIOUS
  <2>3. SplitGhostsAre(h, sp, rk, p, q, key, hh, sq, rj)
    BY <1>1, <1>3, <2>1, <2>2, SplitGhosts
  <2>4. QED
    BY <2>3 DEF SplitGhostsAre
<1>5. PICK keys, ks, ps, qs, S :
        keys = ns[y].keys /\ ks = ms[y].keys /\ ps = ns[y].ptrs /\ qs = ms[y].ptrs /\ S = sp[y]
  OBVIOUS
<1>6. /\ keys \in Seq(K) /\ Ascending(keys) /\ S \in SUBSET K /\ S # {} /\ Convex(S) /\ ps \in Seq(Int)
      /\ \A j \in 1 .. Len(keys) : keys[j] \in S
  BY <1>1, <1>5, TreeNode DEF TypeAt
<1>7. Len(ps) = Len(keys) + 1 /\ Len(keys) \in Nat /\ i \in 1 .. Len(keys) + 1
  BY <1>1, <1>5, TreeEdge
<1>8. sp[p] = Slot(S, keys, i) /\ key \in S
  <2>1. sp[p] = Slot(S, keys, i)
    BY <1>2, <1>5
  <2>2. QED
    BY <2>1 DEF Slot
<1>9. i <= Len(keys) => Lt(key, keys[i])
  BY <1>8 DEF Slot
<1>10. ASSUME i > 1 PROVE Lt(keys[i - 1], key)
  <2>1. PICK k \in sp[p] : Lt(k, key)
    BY DEF Below
  <2>2. ~Lt(k, keys[i - 1]) /\ k \in K
    BY <1>6, <1>8, <1>10 DEF Slot
  <2>3. keys[i - 1] \in K
    BY <1>6, <1>7, <1>10
  <2>4. QED
    BY <2>1, <2>2, <2>3, LtOrder
<1>11. ks = InsertAt(keys, i, key)
  BY <1>1, <1>5
<1>12. Divided(S, keys, i, key, ks)
  BY <1>6, <1>7, <1>9, <1>10, <1>11, SlotInsert
<1>13. /\ ks \in Seq(K) /\ Len(ks) = Len(keys) + 1 /\ Ascending(ks)
       /\ \A j \in 1 .. Len(keys) + 1 : j < i => Slot(S, ks, j) = Slot(S, keys, j)
       /\ Slot(S, ks, i) = Below(sp[p], key)
       /\ Slot(S, ks, i + 1) = From(sp[p], key)
       /\ \A j \in 1 .. Len(keys) + 1 : j > i => Slot(S, ks, j + 1) = Slot(S, keys, j)
  BY <1>12, <1>8 DEF Divided
<1>14. /\ Len(qs) = Len(ks) + 1
       /\ \A j \in 1 .. Len(ks) + 1 :
            qs[j] = IF j < i + 1 THEN ps[j] ELSE IF j = i + 1 THEN q ELSE ps[j - 1]
  <2>1. q \in Int
    BY <1>1 DEF PageIds
  <2>2. qs = InsertAt(ps, i + 1, q) /\ i + 1 \in 1 .. Len(ps) + 1
    BY <1>1, <1>5, <1>7
  <2>3. /\ Len(qs) = Len(ps) + 1
        /\ \A j \in 1 .. Len(ps) + 1 :
             qs[j] = IF j < i + 1 THEN ps[j] ELSE IF j = i + 1 THEN q ELSE ps[j - 1]
    <3>1. PICK n : n = i + 1
      OBVIOUS
    <3>2. qs = InsertAt(ps, n, q) /\ n \in 1 .. Len(ps) + 1
      BY <2>2, <3>1
    <3>3. InsertedSeq(ps, n, q, qs)
      BY <1>6, <2>1, <3>2, Inserted
    <3>4. QED
      BY <3>1, <3>3 DEF InsertedSeq
  <2>4. QED
    BY <2>3, <1>7, <1>13
\* An old child of y other than p
<1>15. ASSUME NEW j \in 1 .. Len(keys) + 1, j # i, NEW c, c = ps[j]
       PROVE  /\ c \in DOMAIN ms /\ ms[c].parent = y /\ hh[c] + 1 = hh[y]
              /\ sq[c] = Slot(S, keys, j)
  <2>1. c \in DOMAIN ns /\ ns[c].parent = y /\ h[c] + 1 = h[y] /\ sp[c] = Slot(S, keys, j) /\ c # y
    BY <1>1, <1>5, <1>15, TreeChild
  <2>2. c # p
    BY <1>1, <1>5, <1>15, ChildrenApart
  <2>3. c \in PageIds /\ c # q
    BY <1>1, <2>1, TreeNode DEF TypeAt
  <2>4. QED
    BY <1>1, <1>2, <1>3, <1>4, <2>1, <2>2, <2>3
<1>16. ASSUME NEW j \in 1 .. Len(ks) + 1 PROVE EdgeAt(ms, hh, sq, y, j)
  <2>0. sq[y] = S
    BY <1>2, <1>3, <1>4, <1>5
  <2>1. CASE j < i
    <3>1. j \in 1 .. Len(keys) + 1 /\ qs[j] = ps[j] /\ j # i
      BY <2>1, <1>7, <1>13, <1>14
    <3>2. Slot(S, ks, j) = Slot(S, keys, j)
      BY <3>1, <2>1, <1>13
    <3>3. QED
      BY <2>0, <3>1, <3>2, <1>5, <1>15 DEF EdgeAt
  <2>2. CASE j = i
    <3>1. qs[j] = p
      BY <2>2, <1>1, <1>5, <1>7, <1>13, <1>14
    <3>2. p \in DOMAIN ms /\ ms[p].parent = y /\ hh[p] + 1 = hh[y] /\ sq[p] = Slot(S, ks, j)
      BY <2>2, <1>1, <1>2, <1>3, <1>4, <1>13
    <3>3. QED
      BY <2>0, <3>1, <3>2, <1>5 DEF EdgeAt
  <2>3. CASE j = i + 1
    <3>1. qs[j] = q
      BY <2>3, <1>7, <1>13, <1>14
    <3>2. q \in DOMAIN ms /\ ms[q].parent = y /\ hh[q] + 1 = hh[y] /\ sq[q] = Slot(S, ks, j)
      BY <2>3, <1>1, <1>2, <1>3, <1>4, <1>13
    <3>3. QED
      BY <2>0, <3>1, <3>2, <1>5 DEF EdgeAt
  <2>4. CASE j > i + 1
    <3>0. PICK m : m = j - 1
      OBVIOUS
    <3>1. m \in 1 .. Len(keys) + 1 /\ qs[j] = ps[m] /\ m # i /\ m > i /\ m + 1 = j
      BY <2>4, <3>0, <1>7, <1>13, <1>14
    <3>2. Slot(S, ks, j) = Slot(S, keys, m)
      BY <3>1, <1>13
    <3>3. QED
      BY <2>0, <3>1, <3>2, <1>5, <1>15 DEF EdgeAt
  <2>5. QED
    BY <2>1, <2>2, <2>3, <2>4, <1>7
<1>17. NodeAt(ms, hh, sq, y)
  <2>1. sq[y] = S
    BY <1>2, <1>3, <1>4, <1>5
  <2>2. ASSUME NEW j \in 1 .. Len(ks) PROVE ks[j] \in S
    <3>1. ks[j] = IF j < i THEN keys[j] ELSE IF j = i THEN key ELSE keys[j - 1]
      <4>1. InsertedSeq(keys, i, key, ks)
        BY <1>6, <1>7, <1>11, Inserted
      <4>2. QED
        BY <4>1, <1>13 DEF InsertedSeq
    <3>2. QED
      BY <3>1, <1>6, <1>7, <1>8, <1>13
  <2>3. InnerAt(ms, hh, sq, y)
    BY <1>1, <1>5, <1>14, <1>16 DEF InnerAt
  <2>4. QED
    BY <2>1, <2>2, <2>3, <1>1, <1>5, <1>6, <1>13 DEF NodeAt, SpanAt, KeysAt
<1>18. \A j \in 1 .. Len(keys) + 1 : \E m \in 1 .. Len(qs) : qs[m] = ps[j]
  <2>1. SUFFICES ASSUME NEW j \in 1 .. Len(keys) + 1 PROVE \E m \in 1 .. Len(qs) : qs[m] = ps[j]
    OBVIOUS
  <2>2. CASE j <= i
    BY <2>2, <1>7, <1>13, <1>14
  <2>3. CASE j > i
    <3>1. j + 1 \in 1 .. Len(qs) /\ ~(j + 1 < i + 1) /\ j + 1 # i + 1 /\ (j + 1) - 1 = j
      BY <2>3, <1>7, <1>13, <1>14
    <3>2. qs[j + 1] = ps[j]
      BY <3>1, <1>7, <1>13, <1>14
    <3>3. QED
      BY <3>1, <3>2
  <2>4. QED
    BY <2>2, <2>3, <1>7
<1>19. ASSUME NEW x \in DOMAIN ns, ns[x].parent = y PROVE UpAt(ms, x)
  <2>1. \E j \in 1 .. Len(keys) + 1 : ps[j] = x
    BY <1>1, <1>5, <1>19, TreeParent
  <2>2. \E m \in 1 .. Len(qs) : qs[m] = x
    BY <2>1, <1>18
  <2>3. ms[x].parent = y /\ y \in DOMAIN ms
    BY <1>1, <1>2, <1>19
  <2>4. QED
    BY <2>2, <2>3, <1>1, <1>5 DEF UpAt
<1>20. UpAt(ms, q)
  <2>1. i + 1 \in 1 .. Len(qs) /\ qs[i + 1] = q
    BY <1>7, <1>13, <1>14
  <2>2. QED
    BY <2>1, <1>1, <1>5 DEF UpAt
<1>21. QED
  BY <1>2, <1>17, <1>19, <1>20

LEMMA SplitTree ==
  ASSUME NEW ns, NEW r, NEW h, NEW sp, NEW rk, Tree(ns, r, h, sp, rk),
         NEW ms, NEW p, NEW q, NEW y, NEW i, NEW key \in K, SplitBody(ns, ms, p, q, y, i, key),
         NEW hh, NEW sq, NEW rj, hh = SplitHeights(h, p, q), sq = SplitSpans(sp, p, q, key),
         rj = SplitRanks(rk, p, q),
         key \in sp[p], NodeAt(ms, hh, sq, p), NodeAt(ms, hh, sq, q),
         \A x \in DOMAIN ns : ns[x].parent = p => UpAt(ms, x),
         ChainOK(Leaves(ms), sq, Nexts(ms), rj)
  PROVE  Tree(ms, r, hh, sq, rj)
<1>1. /\ y \in DOMAIN ns /\ ~ns[y].leaf /\ i \in 1 .. Len(ns[y].keys) + 1 /\ ns[y].ptrs[i] = p
      /\ q \in PageIds \ DOMAIN ns /\ DOMAIN ms = DOMAIN ns \cup {q} /\ NodesOK(ms)
      /\ \A x \in DOMAIN ns \ {p, y} : SameBody(ns, ms, x)
      /\ \A x \in DOMAIN ns : ns[x].parent # p => ms[x].parent = ns[x].parent
  BY DEF SplitBody
<1>2. p \in DOMAIN ns /\ ns[p].parent = y /\ p # y /\ p # r
  BY <1>1, TreeChild
<1>3. p \in PageIds /\ p # q /\ \A x \in DOMAIN ns : x \in PageIds /\ x # q
  BY <1>1, <1>2, TreeNode DEF TypeAt
<1>4. /\ GhostsOK(hh, sq, rj)
      /\ hh[q] = h[p] /\ \A x \in PageIds \ {q} : hh[x] = h[x]
      /\ sq[p] = Below(sp[p], key) /\ sq[q] = From(sp[p], key)
      /\ \A x \in PageIds \ {p, q} : sq[x] = sp[x]
  <2>1. GhostsOK(h, sp, rk)
    BY DEF Tree
  <2>2. SplitGhostsAre(h, sp, rk, p, q, key, hh, sq, rj)
    BY <1>1, <1>3, <2>1, SplitGhosts
  <2>3. QED
    BY <2>2 DEF SplitGhostsAre
<1>5. Below(sp[p], key) # {}
  BY <1>4 DEF NodeAt, SpanAt
<1>6. /\ NodeAt(ms, hh, sq, y) /\ UpAt(ms, p) /\ UpAt(ms, q)
      /\ \A x \in DOMAIN ns \ {p} : ns[x].parent = y => UpAt(ms, x)
  BY <1>5, SplitParent
<1>7. ASSUME NEW x \in DOMAIN ns \ {p, y} PROVE NodeAt(ms, hh, sq, x)
  <2>1. SameBody(ns, ms, x) /\ hh[x] = h[x] /\ sq[x] = sp[x]
    BY <1>1, <1>3, <1>4
  <2>2. ASSUME NEW c \in DOMAIN ns, ns[c].parent = x
        PROVE  c \in DOMAIN ms /\ ms[c].parent = x /\ hh[c] = h[c] /\ sq[c] = sp[c]
    <3>1. c # p
      BY <1>2, <1>7, <2>2
    <3>2. QED
      BY <3>1, <2>2, <1>1, <1>3, <1>4, <1>7
  <2>3. QED
    BY <2>1, <2>2, NodeKept
<1>8. ASSUME NEW x \in DOMAIN ns \ {r, p}, ns[x].parent \notin {p, y} PROVE UpAt(ms, x)
  <2>1. ns[x].parent \in DOMAIN ns
    BY TreeUp
  <2>2. ms[x].parent = ns[x].parent /\ ns[x].parent \in DOMAIN ms /\ SameBody(ns, ms, ns[x].parent)
    BY <1>1, <1>8, <2>1
  <2>3. QED
    BY <2>2, UpKept
<1>9. RootAt(ms, r, sq)
  <2>1. r \in DOMAIN ns /\ sp[r] = K /\ ns[r].parent = -1
    BY DEF Tree, RootAt
  <2>2. p # -1
    BY <1>3 DEF PageIds
  <2>3. QED
    BY <2>1, <2>2, <1>1, <1>2, <1>3, <1>4 DEF RootAt
<1>10. \A x \in DOMAIN ms : NodeAt(ms, hh, sq, x)
  BY <1>1, <1>6, <1>7
<1>11. \A x \in DOMAIN ms \ {r} : UpAt(ms, x)
  BY <1>1, <1>6, <1>8
<1>12. QED
  BY <1>1, <1>4, <1>9, <1>10, <1>11 DEF Tree

LEMMA ConvexParts ==
  ASSUME NEW S \in SUBSET K, Convex(S), NEW key \in K
  PROVE  Convex(Below(S, key)) /\ Convex(From(S, key))
<1>1. ASSUME NEW a \in Below(S, key), NEW b \in Below(S, key), NEW k \in K, Lt(a, k), Lt(k, b)
      PROVE  k \in Below(S, key)
  <2>1. a \in S /\ b \in S /\ b \in K /\ Lt(b, key)
    BY DEF Below
  <2>2. k \in S
    BY <1>1, <2>1 DEF Convex
  <2>3. Lt(k, key)
    BY <1>1, <2>1, LtOrder
  <2>4. QED
    BY <2>2, <2>3 DEF Below
<1>2. ASSUME NEW a \in From(S, key), NEW b \in From(S, key), NEW k \in K, Lt(a, k), Lt(k, b)
      PROVE  k \in From(S, key)
  <2>1. a \in S /\ b \in S /\ a \in K /\ ~Lt(a, key)
    BY DEF From
  <2>2. k \in S
    BY <1>2, <2>1 DEF Convex
  <2>3. ~Lt(k, key)
    BY <1>2, <2>1, LtOrder
  <2>4. QED
    BY <2>2, <2>3 DEF From
<1>3. QED
  BY <1>1, <1>2 DEF Convex

\* The halves of a leaf that is divided after s keys, of an inner node without key s
HalfLeaves(ns, ms, p, q, s, key) ==
  /\ ns[p].leaf /\ s \in 1 .. Len(ns[p].keys) - 1 /\ key = ns[p].keys[s + 1]
  /\ ms[p].keys = SubSeq(ns[p].keys, 1, s) /\ ms[p].ptrs = SubSeq(ns[p].ptrs, 1, s)
  /\ ms[q].keys = SubSeq(ns[p].keys, s + 1, Len(ns[p].keys))
  /\ ms[q].ptrs = SubSeq(ns[p].ptrs, s + 1, Len(ns[p].keys))
  /\ ms[p].next = q /\ ms[q].next = ns[p].next

HalfInners(ns, ms, p, q, s, key) ==
  /\ ~ns[p].leaf /\ s \in 1 .. Len(ns[p].keys) /\ key = ns[p].keys[s]
  /\ ms[p].keys = SubSeq(ns[p].keys, 1, s - 1) /\ ms[p].ptrs = SubSeq(ns[p].ptrs, 1, s)
  /\ ms[q].keys = SubSeq(ns[p].keys, s + 1, Len(ns[p].keys))
  /\ ms[q].ptrs = SubSeq(ns[p].ptrs, s + 1, Len(ns[p].keys) + 1)
  /\ ms[p].next = 0 /\ ms[q].next = 0
  /\ \A j \in 1 .. s : ms[ns[p].ptrs[j]].parent = p
  /\ \A j \in s + 1 .. Len(ns[p].keys) + 1 : ms[ns[p].ptrs[j]].parent = q

LEMMA SplitLeaf ==
  ASSUME NEW ns, NEW r, NEW h, NEW sp, NEW rk, Tree(ns, r, h, sp, rk),
         NEW ms, NEW p, NEW q, NEW y, NEW i, NEW key, SplitBody(ns, ms, p, q, y, i, key),
         NEW hh, NEW sq, NEW rj, hh = SplitHeights(h, p, q), sq = SplitSpans(sp, p, q, key),
         rj = SplitRanks(rk, p, q),
         NEW s, HalfLeaves(ns, ms, p, q, s, key)
  PROVE  Tree(ms, r, hh, sq, rj)
<1>1. /\ y \in DOMAIN ns /\ ~ns[y].leaf /\ i \in 1 .. Len(ns[y].keys) + 1 /\ ns[y].ptrs[i] = p
      /\ q \in PageIds \ DOMAIN ns /\ DOMAIN ms = DOMAIN ns \cup {q} /\ NodesOK(ms)
      /\ ms[p].leaf = ns[p].leaf /\ ms[q].leaf = ns[p].leaf /\ ms[y].leaf = ns[y].leaf
      /\ \A x \in DOMAIN ns \ {p, y} : SameBody(ns, ms, x)
  BY DEF SplitBody
<1>0. ns[p].leaf
  BY DEF HalfLeaves
<1>2. p \in DOMAIN ns /\ ns[p].parent = y /\ p # y
  BY <1>1, TreeChild
<1>3. p \in PageIds /\ p # q /\ \A x \in DOMAIN ns : x \in PageIds /\ x # q
  BY <1>1, <1>2, TreeNode DEF TypeAt
<1>4. PICK keys, ptrs, S : keys = ns[p].keys /\ ptrs = ns[p].ptrs /\ S = sp[p]
  OBVIOUS
<1>5. /\ keys \in Seq(K) /\ ptrs \in Seq(Int) /\ Ascending(keys) /\ S \in SUBSET K /\ Convex(S)
      /\ \A j \in 1 .. Len(keys) : keys[j] \in S
      /\ ns[p] \in NodeType
  BY <1>2, <1>4, TreeNode DEF TypeAt
<1>6. Len(ptrs) = Len(keys) /\ h[p] = 0 /\ \A j \in 1 .. Len(keys) : ptrs[j] = keys[j][2]
  <2>1. NodeAt(ns, h, sp, p)
    BY <1>2, TreeNode
  <2>2. QED
    BY <2>1, <1>0, <1>4 DEF NodeAt, LeafAt
<1>30. s \in 1 .. Len(keys) - 1 /\ key = keys[s + 1] /\ ms[p].next = q /\ ms[q].next = ns[p].next
  BY <1>4 DEF HalfLeaves
<1>31. /\ ms[p].keys = SubSeq(keys, 1, s) /\ ms[p].ptrs = SubSeq(ptrs, 1, s)
       /\ ms[q].keys = SubSeq(keys, s + 1, Len(keys)) /\ ms[q].ptrs = SubSeq(ptrs, s + 1, Len(keys))
  BY <1>4 DEF HalfLeaves
<1>7. Len(keys) \in Nat /\ s \in 1 .. Len(keys) /\ s + 1 \in 1 .. Len(keys) /\ s < s + 1
  BY <1>5, <1>30
<1>8. key = keys[s + 1] /\ key \in S /\ key \in K
  BY <1>5, <1>7, <1>30
<1>9. /\ GhostsOK(hh, sq, rj)
      /\ hh[q] = h[p] /\ \A x \in PageIds \ {q} : hh[x] = h[x]
      /\ sq[p] = Below(S, key) /\ sq[q] = From(S, key)
      /\ \A x \in PageIds \ {p, q} : sq[x] = sp[x]
      /\ rj[q] = 2 * rk[p] - 1 /\ \A x \in PageIds \ {q} : rj[x] = 2 * rk[x]
  <2>1. GhostsOK(h, sp, rk)
    BY DEF Tree
  <2>2. SplitGhostsAre(h, sp, rk, p, q, key, hh, sq, rj)
    BY <1>1, <1>3, <1>4, <1>8, <2>1, SplitGhosts
  <2>3. QED
    BY <2>2, <1>1, <1>3, <1>4 DEF SplitGhostsAre
<1>10. /\ Len(ms[p].keys) = s /\ Len(ms[p].ptrs) = s
       /\ \A j \in 1 .. s : ms[p].keys[j] = keys[j] /\ ms[p].ptrs[j] = ptrs[j]
  <2>1. 1 \in 1 .. Len(keys) + 1 /\ s \in 0 .. Len(keys) /\ 1 <= s + 1 /\ s - 1 + 1 = s
        /\ \A j \in 1 .. s : j + 1 - 1 = j
    BY <1>7
  <2>2. Len(ms[p].keys) = s /\ \A j \in 1 .. s : ms[p].keys[j] = keys[j]
    BY <2>1, <1>31, <1>5, <1>7, SubSeqIs
  <2>3. Len(ms[p].ptrs) = s /\ \A j \in 1 .. s : ms[p].ptrs[j] = ptrs[j]
    BY <2>1, <1>31, <1>5, <1>6, <1>7, SubSeqIs
  <2>4. QED
    BY <2>2, <2>3
<1>11. PICK n : n = Len(keys) - s /\ n \in Nat
  BY <1>7
<1>12. /\ Len(ms[q].keys) = n /\ Len(ms[q].ptrs) = n
       /\ \A j \in 1 .. n : ms[q].keys[j] = keys[j + s] /\ ms[q].ptrs[j] = ptrs[j + s]
  <2>1. /\ s + 1 \in 1 .. Len(keys) + 1 /\ Len(keys) \in 0 .. Len(keys) /\ s + 1 <= Len(keys) + 1
        /\ Len(keys) - (s + 1) + 1 = n /\ \A j \in 1 .. n : j + (s + 1) - 1 = j + s
    BY <1>7, <1>11
  <2>2. /\ Len(ms[q].keys) = Len(keys) - (s + 1) + 1
        /\ \A j \in 1 .. Len(keys) - (s + 1) + 1 : ms[q].keys[j] = keys[j + (s + 1) - 1]
    BY <2>1, <1>31, <1>5, SubSeqIs
  <2>3. /\ Len(ms[q].ptrs) = Len(keys) - (s + 1) + 1
        /\ \A j \in 1 .. Len(keys) - (s + 1) + 1 : ms[q].ptrs[j] = ptrs[j + (s + 1) - 1]
    BY <2>1, <1>31, <1>5, <1>6, SubSeqIs
  <2>4. QED
    BY <2>1, <2>2, <2>3
<1>13. \A j \in 1 .. s : j \in 1 .. Len(keys) /\ Lt(keys[j], key)
  <2>1. SUFFICES ASSUME NEW j \in 1 .. s PROVE j \in 1 .. Len(keys) /\ Lt(keys[j], key)
    OBVIOUS
  <2>2. j \in 1 .. Len(keys) /\ j < s + 1
    BY <1>7
  <2>3. QED
    BY <2>2, <1>5, <1>7, <1>8, AscendingIn
<1>14. \A j \in 1 .. n : j + s \in 1 .. Len(keys) /\ ~Lt(keys[j + s], key)
  <2>1. SUFFICES ASSUME NEW j \in 1 .. n PROVE j + s \in 1 .. Len(keys) /\ ~Lt(keys[j + s], key)
    OBVIOUS
  <2>2. PICK m : m = j + s
    OBVIOUS
  <2>3. m \in 1 .. Len(keys) /\ (m = s + 1 \/ s + 1 < m)
    BY <1>7, <1>11, <2>2
  <2>4. keys[m] = key \/ Lt(key, keys[m])
    BY <2>3, <1>5, <1>7, <1>8, AscendingIn
  <2>5. keys[m] \in K
    BY <2>3, <1>5
  <2>6. QED
    BY <2>2, <2>3, <2>4, <2>5, <1>8, LtOrder
<1>15. Convex(Below(S, key)) /\ Convex(From(S, key))
  BY <1>5, <1>8, ConvexParts
<1>16. NodeAt(ms, hh, sq, p)
  <2>1. SpanAt(sq, p)
    <3>1. keys[s] \in Below(S, key)
      BY <1>5, <1>7, <1>13 DEF Below
    <3>2. QED
      BY <3>1, <1>9, <1>15 DEF SpanAt
  <2>2. ASSUME NEW a \in 1 .. s, NEW b \in 1 .. s, a < b PROVE Lt(ms[p].keys[a], ms[p].keys[b])
    BY <2>2, <1>5, <1>10, <1>13 DEF Ascending
  <2>3. \A j \in 1 .. s : ms[p].keys[j] \in Below(S, key)
    BY <1>5, <1>10, <1>13 DEF Below
  <2>4. KeysAt(ms, sq, p)
    BY <2>2, <2>3, <1>9, <1>10 DEF KeysAt, Ascending
  <2>5. LeafAt(ms, hh, p)
    BY <1>3, <1>6, <1>9, <1>10, <1>13 DEF LeafAt
  <2>6. QED
    BY <2>1, <2>4, <2>5, <1>0, <1>1 DEF NodeAt
<1>17. NodeAt(ms, hh, sq, q)
  <2>1. SpanAt(sq, q)
    <3>1. key \in From(S, key)
      BY <1>8, LtOrder DEF From
    <3>2. QED
      BY <3>1, <1>9, <1>15 DEF SpanAt
  <2>2. ASSUME NEW a \in 1 .. n, NEW b \in 1 .. n, a < b PROVE Lt(ms[q].keys[a], ms[q].keys[b])
    <3>1. a + s \in 1 .. Len(keys) /\ b + s \in 1 .. Len(keys) /\ a + s < b + s
      BY <2>2, <1>7, <1>14
    <3>2. Lt(keys[a + s], keys[b + s])
      BY <3>1, <1>5, AscendingIn
    <3>3. QED
      BY <3>2, <1>12
  <2>3. \A j \in 1 .. n : ms[q].keys[j] \in From(S, key)
    BY <1>5, <1>12, <1>14 DEF From
  <2>4. KeysAt(ms, sq, q)
    BY <2>2, <2>3, <1>9, <1>12 DEF KeysAt, Ascending
  <2>5. \A j \in 1 .. n : ms[q].ptrs[j] = ms[q].keys[j][2]
    BY <1>6, <1>12, <1>14
  <2>6. LeafAt(ms, hh, q)
    BY <2>5, <1>6, <1>9, <1>12 DEF LeafAt
  <2>7. QED
    BY <2>1, <2>4, <2>6, <1>0, <1>1 DEF NodeAt
<1>18. \A x \in DOMAIN ns : ns[x].parent # p
  BY <1>0, <1>2, TreeParent
<1>19. ChainOK(Leaves(ms), sq, Nexts(ms), rj)
  <2>1. PICK L, M, nx, ny : L = Leaves(ns) /\ M = Leaves(ms) /\ nx = Nexts(ns) /\ ny = Nexts(ms)
    OBVIOUS
  <2>2. ChainOK(L, sp, nx, rk)
    BY <2>1 DEF Tree
  <2>3. ChainGhosts(L, sp, rk)
    <3>1. GhostsOK(h, sp, rk)
      BY DEF Tree
    <3>2. \A x \in L : x \in DOMAIN ns
      BY <2>1 DEF Leaves
    <3>3. \A x \in L : sp[x] # {} /\ x \in PageIds
      BY <3>2, <1>3, TreeNode
    <3>4. QED
      BY <3>1, <3>3 DEF ChainGhosts, GhostsOK
  <2>4. M = L \cup {q}
    <3>1. \A x \in DOMAIN ns : ms[x].leaf = ns[x].leaf
      BY <1>1 DEF SameBody
    <3>2. QED
      BY <3>1, <2>1, <1>0, <1>1 DEF Leaves
  <2>5. p \in L /\ q \in PageIds \ L
    BY <2>1, <1>0, <1>1, <1>2 DEF Leaves
  <2>6. /\ sq[p] = Below(sp[p], key) /\ sq[q] = From(sp[p], key) /\ \A x \in L \ {p} : sq[x] = sp[x]
    <3>1. \A x \in L : x \in PageIds /\ x # q
      BY <2>1, <1>3 DEF Leaves
    <3>2. QED
      BY <3>1, <1>4, <1>9
  <2>7. ny[p] = q /\ ny[q] = nx[p] /\ \A x \in L \ {p} : ny[x] = nx[x]
    <3>1. \A x \in M : ny[x] = ms[x].next
      BY <2>1 DEF Nexts
    <3>2. \A x \in L : nx[x] = ns[x].next /\ x \in DOMAIN ns /\ x # y
      BY <2>1, <1>1 DEF Nexts, Leaves
    <3>3. \A x \in L \ {p} : ms[x].next = ns[x].next
      BY <3>2, <1>1 DEF SameBody
    <3>4. QED
      BY <3>1, <3>2, <3>3, <2>4, <2>5, <1>30
  <2>8. rj[q] = 2 * rk[p] - 1 /\ \A x \in L : rj[x] = 2 * rk[x]
    <3>1. \A x \in L : x \in PageIds /\ x # q
      BY <2>1, <1>3 DEF Leaves
    <3>2. QED
      BY <3>1, <1>9
  <2>9. ChainOK(M, sq, ny, rj)
    BY <2>2, <2>3, <2>4, <2>5, <2>6, <2>7, <2>8, <1>8, ChainSplit
  <2>10. QED
    BY <2>1, <2>9
<1>20. key \in sp[p]
  BY <1>4, <1>8
<1>21. QED
  BY <1>8, <1>16, <1>17, <1>18, <1>19, <1>20, SplitTree

LEMMA SplitInner ==
  ASSUME NEW ns, NEW r, NEW h, NEW sp, NEW rk, Tree(ns, r, h, sp, rk),
         NEW ms, NEW p, NEW q, NEW y, NEW i, NEW key, SplitBody(ns, ms, p, q, y, i, key),
         NEW hh, NEW sq, NEW rj, hh = SplitHeights(h, p, q), sq = SplitSpans(sp, p, q, key),
         rj = SplitRanks(rk, p, q),
         NEW s, HalfInners(ns, ms, p, q, s, key)
  PROVE  Tree(ms, r, hh, sq, rj)
<1>1. /\ y \in DOMAIN ns /\ ~ns[y].leaf /\ i \in 1 .. Len(ns[y].keys) + 1 /\ ns[y].ptrs[i] = p
      /\ q \in PageIds \ DOMAIN ns /\ DOMAIN ms = DOMAIN ns \cup {q} /\ NodesOK(ms)
      /\ ms[p].leaf = ns[p].leaf /\ ms[q].leaf = ns[p].leaf /\ ms[y].leaf = ns[y].leaf
      /\ \A x \in DOMAIN ns \ {p, y} : SameBody(ns, ms, x)
  BY DEF SplitBody
<1>0. ~ns[p].leaf
  BY DEF HalfInners
<1>2. p \in DOMAIN ns /\ ns[p].parent = y /\ p # y
  BY <1>1, TreeChild
<1>3. p \in PageIds /\ p # q /\ \A x \in DOMAIN ns : x \in PageIds /\ x # q
  BY <1>1, <1>2, TreeNode DEF TypeAt
<1>4. PICK keys, ptrs, S : keys = ns[p].keys /\ ptrs = ns[p].ptrs /\ S = sp[p]
  OBVIOUS
<1>5. /\ keys \in Seq(K) /\ ptrs \in Seq(Int) /\ Ascending(keys) /\ S \in SUBSET K /\ Convex(S)
      /\ \A j \in 1 .. Len(keys) : keys[j] \in S
  BY <1>2, <1>4, TreeNode DEF TypeAt
<1>6. Len(ptrs) = Len(keys) + 1 /\ Len(keys) \in Nat /\ s \in 1 .. Len(keys)
  <2>1. Len(ptrs) = Len(keys) + 1 /\ Len(keys) \in Nat
    BY <1>0, <1>2, <1>4, TreeEdge
  <2>2. QED
    BY <2>1, <1>4 DEF HalfInners
<1>7. /\ ms[p].keys = SubSeq(keys, 1, s - 1) /\ ms[p].ptrs = SubSeq(ptrs, 1, s)
      /\ ms[q].keys = SubSeq(keys, s + 1, Len(keys))
      /\ ms[q].ptrs = SubSeq(ptrs, s + 1, Len(keys) + 1)
      /\ ms[p].next = 0 /\ ms[q].next = 0
  BY <1>4 DEF HalfInners
<1>30. /\ \A j \in 1 .. s : ms[ptrs[j]].parent = p
       /\ \A j \in s + 1 .. Len(keys) + 1 : ms[ptrs[j]].parent = q
  BY <1>4 DEF HalfInners
<1>8. key = keys[s] /\ key \in S /\ key \in K
  <2>1. key = keys[s]
    BY <1>4 DEF HalfInners
  <2>2. QED
    BY <2>1, <1>5, <1>6
<1>9. /\ GhostsOK(hh, sq, rj)
      /\ hh[q] = h[p] /\ \A x \in PageIds \ {q} : hh[x] = h[x]
      /\ sq[p] = Below(S, key) /\ sq[q] = From(S, key)
      /\ \A x \in PageIds \ {p, q} : sq[x] = sp[x]
      /\ rj[q] = 2 * rk[p] - 1 /\ \A x \in PageIds \ {q} : rj[x] = 2 * rk[x]
  <2>1. GhostsOK(h, sp, rk)
    BY DEF Tree
  <2>2. SplitGhostsAre(h, sp, rk, p, q, key, hh, sq, rj)
    BY <1>1, <1>3, <1>4, <1>8, <2>1, SplitGhosts
  <2>3. QED
    BY <2>2, <1>1, <1>3, <1>4 DEF SplitGhostsAre
<1>10. PICK kl, kr : kl = ms[p].keys /\ kr = ms[q].keys
  OBVIOUS
<1>11. LeftPart(S, keys, s, kl)
  BY <1>5, <1>6, <1>7, <1>10, SlotLeftPart
<1>12. RightPart(S, keys, s, kr)
  BY <1>5, <1>6, <1>7, <1>10, SlotRightPart
<1>13. PICK n : n = Len(keys) - s /\ n \in Nat
  BY <1>6
<1>14. /\ Len(kl) = s - 1 /\ Ascending(kl) /\ \A j \in 1 .. s - 1 : kl[j] = keys[j]
       /\ \A j \in 1 .. s : Slot(Below(S, key), kl, j) = Slot(S, keys, j)
  BY <1>8, <1>11 DEF LeftPart
<1>15. /\ Len(kr) = n /\ Ascending(kr) /\ \A j \in 1 .. n : kr[j] = keys[j + s]
       /\ \A j \in 1 .. n + 1 : Slot(From(S, key), kr, j) = Slot(S, keys, j + s)
  BY <1>8, <1>12, <1>13 DEF RightPart
<1>16. Len(ms[p].ptrs) = s /\ \A j \in 1 .. s : ms[p].ptrs[j] = ptrs[j]
  <2>1. 1 \in 1 .. Len(ptrs) + 1 /\ s \in 0 .. Len(ptrs) /\ 1 <= s + 1 /\ s - 1 + 1 = s
        /\ \A j \in 1 .. s : j + 1 - 1 = j
    BY <1>6
  <2>2. QED
    BY <2>1, <1>5, <1>7, SubSeqIs
<1>17. Len(ms[q].ptrs) = n + 1 /\ \A j \in 1 .. n + 1 : ms[q].ptrs[j] = ptrs[j + s]
  <2>1. /\ s + 1 \in 1 .. Len(ptrs) + 1 /\ Len(ptrs) \in 0 .. Len(ptrs) /\ s + 1 <= Len(ptrs) + 1
        /\ Len(ptrs) - (s + 1) + 1 = n + 1 /\ \A j \in 1 .. n + 1 : j + (s + 1) - 1 = j + s
    BY <1>6, <1>13
  <2>2. ms[q].ptrs = SubSeq(ptrs, s + 1, Len(ptrs))
    BY <1>6, <1>7
  <2>3. /\ Len(ms[q].ptrs) = Len(ptrs) - (s + 1) + 1
        /\ \A j \in 1 .. Len(ptrs) - (s + 1) + 1 : ms[q].ptrs[j] = ptrs[j + (s + 1) - 1]
    BY <2>1, <2>2, <1>5, SubSeqIs
  <2>4. QED
    BY <2>1, <2>3
<1>18. ASSUME NEW j \in 1 .. Len(keys) + 1, NEW c, c = ptrs[j]
       PROVE  /\ c \in DOMAIN ms /\ hh[c] + 1 = h[p] /\ sq[c] = Slot(S, keys, j)
              /\ sq[c] # {}
  <2>1. c \in DOMAIN ns /\ h[c] + 1 = h[p] /\ sp[c] = Slot(S, keys, j) /\ c # p
    BY <1>0, <1>2, <1>4, <1>18, TreeChild
  <2>2. sp[c] # {}
    BY <2>1, TreeNode
  <2>3. QED
    BY <2>1, <2>2, <1>1, <1>3, <1>9
<1>19. Convex(Below(S, key)) /\ Convex(From(S, key))
  BY <1>5, <1>8, ConvexParts
<1>20. NodeAt(ms, hh, sq, p)
  <2>1. SpanAt(sq, p)
    <3>1. s \in 1 .. Len(keys) + 1 /\ s \in 1 .. s
      BY <1>6
    <3>2. Slot(S, keys, s) # {}
      BY <3>1, <1>18
    <3>3. Below(S, key) # {}
      BY <3>1, <3>2, <1>14 DEF Slot
    <3>4. QED
      BY <3>3, <1>9, <1>19 DEF SpanAt
  <2>2. ASSUME NEW j \in 1 .. s - 1 PROVE kl[j] \in Below(S, key)
    <3>1. j \in 1 .. Len(keys) /\ j < s
      BY <1>6
    <3>2. Lt(keys[j], keys[s])
      BY <3>1, <1>5, <1>6, AscendingIn
    <3>3. QED
      BY <3>1, <3>2, <1>5, <1>8, <1>14 DEF Below
  <2>3. KeysAt(ms, sq, p)
    BY <2>2, <1>9, <1>10, <1>14 DEF KeysAt
  <2>4. ASSUME NEW j \in 1 .. s PROVE EdgeAt(ms, hh, sq, p, j)
    <3>1. PICK c : c = ptrs[j]
      OBVIOUS
    <3>2. j \in 1 .. Len(keys) + 1
      BY <1>6
    <3>3. c \in DOMAIN ms /\ hh[c] + 1 = h[p] /\ sq[c] = Slot(S, keys, j)
      BY <3>1, <3>2, <1>18
    <3>4. ms[c].parent = p
      BY <3>1, <1>30
    <3>5. sq[c] = Slot(sq[p], ms[p].keys, j) /\ ms[p].ptrs[j] = c /\ hh[p] = h[p]
      BY <3>1, <3>3, <1>3, <1>9, <1>10, <1>14, <1>16
    <3>6. QED
      BY <3>3, <3>4, <3>5 DEF EdgeAt
  <2>5. InnerAt(ms, hh, sq, p)
    <3>1. Len(ms[p].ptrs) = Len(ms[p].keys) + 1
      BY <1>6, <1>10, <1>14, <1>16
    <3>2. QED
      BY <3>1, <2>4, <1>7, <1>16 DEF InnerAt
  <2>6. QED
    BY <2>1, <2>3, <2>5, <1>0, <1>1 DEF NodeAt
<1>21. NodeAt(ms, hh, sq, q)
  <2>1. SpanAt(sq, q)
    <3>1. key \in From(S, key)
      BY <1>8, LtOrder DEF From
    <3>2. QED
      BY <3>1, <1>9, <1>19 DEF SpanAt
  <2>2. ASSUME NEW j \in 1 .. n PROVE kr[j] \in From(S, key)
    <3>1. j + s \in 1 .. Len(keys) /\ s < j + s
      BY <1>6, <1>13
    <3>2. Lt(keys[s], keys[j + s])
      BY <3>1, <1>5, <1>6, AscendingIn
    <3>3. keys[j + s] \in S /\ keys[j + s] \in K
      BY <3>1, <1>5
    <3>4. ~Lt(keys[j + s], key)
      BY <3>2, <3>3, <1>8, LtOrder
    <3>5. QED
      BY <3>3, <3>4, <1>15 DEF From
  <2>3. KeysAt(ms, sq, q)
    BY <2>2, <1>9, <1>10, <1>15 DEF KeysAt
  <2>4. ASSUME NEW j \in 1 .. n + 1 PROVE EdgeAt(ms, hh, sq, q, j)
    <3>0. PICK m : m = j + s
      OBVIOUS
    <3>1. PICK c : c = ptrs[m]
      OBVIOUS
    <3>2. m \in 1 .. Len(keys) + 1 /\ m \in s + 1 .. Len(keys) + 1
      BY <3>0, <1>6, <1>13
    <3>3. c \in DOMAIN ms /\ hh[c] + 1 = h[p] /\ sq[c] = Slot(S, keys, m)
      BY <3>1, <3>2, <1>18
    <3>4. ms[c].parent = q
      BY <3>1, <3>2, <1>30
    <3>5. sq[c] = Slot(sq[q], ms[q].keys, j) /\ ms[q].ptrs[j] = c /\ hh[q] = h[p]
      BY <3>0, <3>1, <3>3, <1>9, <1>10, <1>15, <1>17
    <3>6. QED
      BY <3>3, <3>4, <3>5 DEF EdgeAt
  <2>5. InnerAt(ms, hh, sq, q)
    <3>1. Len(ms[q].ptrs) = Len(ms[q].keys) + 1
      BY <1>10, <1>15, <1>17
    <3>2. QED
      BY <3>1, <2>4, <1>7, <1>17 DEF InnerAt
  <2>6. QED
    BY <2>1, <2>3, <2>5, <1>0, <1>1 DEF NodeAt
<1>22. ASSUME NEW x \in DOMAIN ns, ns[x].parent = p PROVE UpAt(ms, x)
  <2>1. PICK j \in 1 .. Len(keys) + 1 : ptrs[j] = x
    BY <1>2, <1>4, <1>22, TreeParent
  <2>2. CASE j <= s
    <3>1. j \in 1 .. s
      BY <2>2, <1>6
    <3>2. ms[x].parent = p /\ j \in 1 .. Len(ms[p].ptrs) /\ ms[p].ptrs[j] = x
      BY <3>1, <2>1, <1>30, <1>16
    <3>3. QED
      BY <3>2, <1>0, <1>1, <1>2 DEF UpAt
  <2>3. CASE j > s
    <3>0. PICK m : m = j - s
      OBVIOUS
    <3>1. j \in s + 1 .. Len(keys) + 1 /\ m \in 1 .. n + 1 /\ m + s = j
      BY <3>0, <2>3, <1>6, <1>13
    <3>2. ms[x].parent = q /\ m \in 1 .. Len(ms[q].ptrs) /\ ms[q].ptrs[m] = x
      BY <3>1, <2>1, <1>30, <1>17
    <3>3. QED
      BY <3>2, <1>0, <1>1, <1>2 DEF UpAt
  <2>4. QED
    BY <2>2, <2>3, <1>6
<1>23. ChainOK(Leaves(ms), sq, Nexts(ms), rj)
  <2>1. Leaves(ms) = Leaves(ns)
    <3>1. \A x \in DOMAIN ns : ms[x].leaf = ns[x].leaf
      BY <1>1 DEF SameBody
    <3>2. QED
      BY <3>1, <1>0, <1>1 DEF Leaves
  <2>2. \A x \in Leaves(ns) : x \in DOMAIN ns \ {p, y} /\ x \in PageIds \ {p, q}
    BY <1>0, <1>1, <1>3 DEF Leaves
  <2>3. \A x \in Leaves(ns) : sq[x] = sp[x] /\ rj[x] = 2 * rk[x]
    BY <2>2, <1>9
  <2>4. \A x \in Leaves(ns) : Nexts(ms)[x] = Nexts(ns)[x]
    BY <2>1, <2>2, <1>1 DEF Nexts, SameBody
  <2>5. ChainOK(Leaves(ns), sp, Nexts(ns), rk)
    BY DEF Tree
  <2>6. \A x \in Leaves(ns) : rk[x] \in Nat
    BY <2>2, TreeNode DEF TypeAt
  <2>7. ChainOK(Leaves(ns), sq, Nexts(ms), rk)
    BY <2>3, <2>4, <2>5, ChainSame
  <2>8. QED
    BY <2>1, <2>3, <2>6, <2>7, ChainRanks
<1>24. key \in sp[p]
  BY <1>4, <1>8
<1>25. QED
  BY <1>8, <1>20, <1>21, <1>22, <1>23, <1>24, SplitTree

-----------------------------------------------------------------------------
(* Two neighbours are merged *)

\* ms is ns with the children l and m of y, at its places i and i + 1, in one
MergeBody(ns, ms, l, m, y, i) ==
  /\ y \in DOMAIN ns /\ ~ns[y].leaf
  /\ i \in 1 .. Len(ns[y].keys) /\ ns[y].ptrs[i] = l /\ ns[y].ptrs[i + 1] = m
  /\ DOMAIN ms = DOMAIN ns \ {m} /\ NodesOK(ms)
  /\ ms[y].leaf = ns[y].leaf /\ ms[y].next = 0
  /\ ms[y].keys = RemoveAt(ns[y].keys, i) /\ ms[y].ptrs = RemoveAt(ns[y].ptrs, i + 1)
  /\ ms[l].leaf = ns[l].leaf
  /\ \A x \in DOMAIN ns \ {l, m, y} : SameBody(ns, ms, x)
  /\ \A x \in DOMAIN ns \ {m} : ns[x].parent # m => ms[x].parent = ns[x].parent

MergeSpans(sp, l, m) == [sp EXCEPT ![l] = Cup(sp[l], sp[m])]

MergedSpans(sp, l, m, sq) ==
  sq[l] = Cup(sp[l], sp[m]) /\ \A x \in PageIds \ {l} : sq[x] = sp[x]

LEMMA MergeGhosts ==
  ASSUME NEW h, NEW sp, NEW rk, GhostsOK(h, sp, rk), NEW l \in PageIds, NEW m \in PageIds,
         NEW sq, sq = MergeSpans(sp, l, m)
  PROVE  GhostsOK(h, sq, rk) /\ MergedSpans(sp, l, m, sq)
<1>1. sp \in [PageIds -> SUBSET K]
  BY DEF GhostsOK
<1>2. Cup(sp[l], sp[m]) \in SUBSET K
  BY <1>1 DEF Cup
<1>3. /\ sq \in [PageIds -> SUBSET K]
      /\ sq[l] = Cup(sp[l], sp[m]) /\ \A x \in PageIds \ {l} : sq[x] = sp[x]
  BY <1>1, <1>2 DEF MergeSpans
<1>4. QED
  BY <1>3 DEF GhostsOK, MergedSpans

\* Two neighbours are apart, and both are leaves or both are not.
LEMMA Siblings ==
  ASSUME NEW ns, NEW r, NEW h, NEW sp, NEW rk, Tree(ns, r, h, sp, rk),
         NEW y \in DOMAIN ns, ~ns[y].leaf, NEW i \in 1 .. Len(ns[y].keys),
         NEW l, NEW m, l = ns[y].ptrs[i], m = ns[y].ptrs[i + 1]
  PROVE  /\ l \in DOMAIN ns /\ m \in DOMAIN ns /\ l # m /\ l # y /\ m # y /\ l # r /\ m # r
         /\ ns[l].parent = y /\ ns[m].parent = y
         /\ sp[l] = Slot(sp[y], ns[y].keys, i) /\ sp[m] = Slot(sp[y], ns[y].keys, i + 1)
         /\ Before(sp[l], sp[m])
         /\ h[l] = h[m] /\ ns[l].leaf = ns[m].leaf
<1>1. ns[y].keys \in Seq(K) /\ Ascending(ns[y].keys) /\ sp[y] \in SUBSET K
  BY TreeNode DEF TypeAt
<1>2. PICK j : j = i + 1
  OBVIOUS
<1>3. i \in 1 .. Len(ns[y].keys) + 1 /\ j \in 1 .. Len(ns[y].keys) + 1 /\ i < j /\ m = ns[y].ptrs[j]
  BY <1>1, <1>2
<1>4. l \in DOMAIN ns /\ ns[l].parent = y /\ h[l] + 1 = h[y] /\ sp[l] = Slot(sp[y], ns[y].keys, i) /\ l # y /\ l # r
  BY <1>3, TreeChild
<1>5. m \in DOMAIN ns /\ ns[m].parent = y /\ h[m] + 1 = h[y] /\ sp[m] = Slot(sp[y], ns[y].keys, j) /\ m # y /\ m # r
  BY <1>3, TreeChild
<1>6. l # m
  BY <1>3, ChildrenApart
<1>7. Before(sp[l], sp[m])
  <2>1. Before(Slot(sp[y], ns[y].keys, i), Slot(sp[y], ns[y].keys, j))
    BY <1>1, <1>3, SlotsApart
  <2>2. QED
    BY <2>1, <1>4, <1>5, Zenon
<1>8. h[l] \in Nat /\ h[m] \in Nat /\ h[l] = h[m]
  <2>1. h[l] \in Nat
    BY <1>4, TreeNode DEF TypeAt
  <2>2. h[m] \in Nat
    BY <1>5, TreeNode DEF TypeAt
  <2>3. QED
    BY <2>1, <2>2, <1>4, <1>5
<1>9. \A x \in DOMAIN ns : ns[x].leaf \in BOOLEAN /\ (ns[x].leaf <=> h[x] = 0)
  <2>1. SUFFICES ASSUME NEW x \in DOMAIN ns PROVE ns[x].leaf \in BOOLEAN /\ (ns[x].leaf <=> h[x] = 0)
    OBVIOUS
  <2>2. ns[x].leaf \in BOOLEAN /\ h[x] \in Nat
    <3>1. ns[x] \in NodeType /\ h[x] \in Nat
      BY TreeNode DEF TypeAt
    <3>2. QED
      BY <3>1 DEF NodeType
  <2>3. ns[x].leaf => h[x] = 0
    BY DEF Tree, NodeAt, LeafAt
  <2>4. ASSUME ~ns[x].leaf PROVE h[x] # 0
    <3>1. Len(ns[x].keys) \in Nat /\ EdgeAt(ns, h, sp, x, 1)
      BY <2>4, TreeEdge
    <3>2. PICK c : c = ns[x].ptrs[1]
      OBVIOUS
    <3>3. c \in DOMAIN ns /\ h[c] + 1 = h[x]
      BY <3>1, <3>2 DEF EdgeAt
    <3>4. h[c] \in Nat
      BY <3>3, TreeNode DEF TypeAt
    <3>5. QED
      BY <3>3, <3>4
  <2>5. QED
    BY <2>2, <2>3, <2>4
<1>10. (ns[l].leaf <=> ns[m].leaf) /\ ns[l].leaf \in BOOLEAN /\ ns[m].leaf \in BOOLEAN
  BY <1>4, <1>5, <1>8, <1>9
<1>11. ns[l].leaf = ns[m].leaf
  BY <1>10
<1>12. QED
  BY <1>2, <1>4, <1>5, <1>6, <1>7, <1>8, <1>11

LEMMA MergeParent ==
  ASSUME NEW ns, NEW r, NEW h, NEW sp, NEW rk, Tree(ns, r, h, sp, rk),
         NEW ms, NEW l, NEW m, NEW y, NEW i, MergeBody(ns, ms, l, m, y, i),
         NEW sq, sq = MergeSpans(sp, l, m)
  PROVE  /\ NodeAt(ms, h, sq, y) /\ SpanAt(sq, l)
         /\ \A x \in DOMAIN ns \ {m} : ns[x].parent = y => UpAt(ms, x)
<1>1. /\ y \in DOMAIN ns /\ ~ns[y].leaf /\ i \in 1 .. Len(ns[y].keys)
      /\ ns[y].ptrs[i] = l /\ ns[y].ptrs[i + 1] = m
      /\ DOMAIN ms = DOMAIN ns \ {m} /\ ms[y].leaf = ns[y].leaf /\ ms[y].next = 0
      /\ \A x \in DOMAIN ns \ {m} : ns[x].parent # m => ms[x].parent = ns[x].parent
  BY DEF MergeBody
<1>2. /\ l \in DOMAIN ns /\ m \in DOMAIN ns /\ l # m /\ l # y /\ m # y
      /\ ns[l].parent = y /\ ns[m].parent = y
      /\ sp[l] = Slot(sp[y], ns[y].keys, i) /\ sp[m] = Slot(sp[y], ns[y].keys, i + 1)
  BY <1>1, Siblings
<1>3. l \in PageIds /\ m \in PageIds /\ \A x \in DOMAIN ns : x \in PageIds
  BY <1>2, TreeNode DEF TypeAt
<1>4. sq[l] = Cup(sp[l], sp[m]) /\ \A x \in PageIds \ {l} : sq[x] = sp[x]
  <2>1. GhostsOK(h, sp, rk)
    BY DEF Tree
  <2>2. QED
    <3>1. l \in PageIds /\ m \in PageIds
      BY <1>3
    <3>2. MergedSpans(sp, l, m, sq)
      BY <3>1, <2>1, MergeGhosts
    <3>3. GhostsOK(h, sq, rk)
      BY <3>1, <2>1, MergeGhosts
    <3>4. QED
      BY <3>2, <3>3 DEF MergedSpans
<1>5. PICK keys, ks, ps, qs, S :
        keys = ns[y].keys /\ ks = ms[y].keys /\ ps = ns[y].ptrs /\ qs = ms[y].ptrs /\ S = sp[y]
  OBVIOUS
<1>6. /\ keys \in Seq(K) /\ Ascending(keys) /\ S \in SUBSET K /\ S # {} /\ Convex(S) /\ ps \in Seq(Int)
      /\ \A j \in 1 .. Len(keys) : keys[j] \in S
  BY <1>1, <1>5, TreeNode DEF TypeAt
<1>7. Len(ps) = Len(keys) + 1 /\ Len(keys) \in Nat /\ i \in 1 .. Len(keys)
  BY <1>1, <1>5, TreeEdge
<1>8. ks = RemoveAt(keys, i) /\ qs = RemoveAt(ps, i + 1)
  BY <1>5 DEF MergeBody
<1>9. United(S, keys, i, ks)
  BY <1>6, <1>7, <1>8, SlotRemove
<1>10. /\ ks \in Seq(K) /\ Len(ks) = Len(keys) - 1 /\ Ascending(ks)
       /\ \A j \in 1 .. Len(keys) : j < i => Slot(S, ks, j) = Slot(S, keys, j)
       /\ Slot(S, ks, i) = sq[l]
       /\ \A j \in 1 .. Len(keys) : j > i => Slot(S, ks, j) = Slot(S, keys, j + 1)
  BY <1>2, <1>4, <1>5, <1>9 DEF United
<1>11. /\ Len(qs) = Len(keys)
       /\ \A j \in 1 .. Len(keys) : qs[j] = IF j <= i THEN ps[j] ELSE ps[j + 1]
  <2>1. PICK n : n = i + 1
    OBVIOUS
  <2>2. n \in 1 .. Len(ps) /\ qs = RemoveAt(ps, n)
    BY <2>1, <1>7, <1>8
  <2>3. RemovedSeq(ps, n, qs)
    BY <2>2, <1>6, Removed
  <2>4. QED
    BY <2>1, <2>3, <1>7 DEF RemovedSeq
<1>12. ASSUME NEW j \in 1 .. Len(keys) + 1, j \notin {i, i + 1}, NEW c, c = ps[j]
       PROVE  /\ c \in DOMAIN ms /\ ms[c].parent = y /\ h[c] + 1 = h[y]
              /\ sq[c] = Slot(S, keys, j)
  <2>1. c \in DOMAIN ns /\ ns[c].parent = y /\ h[c] + 1 = h[y] /\ sp[c] = Slot(S, keys, j)
    BY <1>1, <1>5, <1>12, TreeChild
  <2>2. i \in 1 .. Len(keys) + 1 /\ i + 1 \in 1 .. Len(keys) + 1
    BY <1>7
  <2>3. c # l
    BY <2>2, <1>1, <1>5, <1>12, ChildrenApart
  <2>4. PICK n : n = i + 1
    OBVIOUS
  <2>5. n \in 1 .. Len(keys) + 1 /\ ps[n] = m /\ j # n
    BY <2>2, <2>4, <1>1, <1>5, <1>12
  <2>6. c # m
    BY <2>5, <1>1, <1>5, <1>12, ChildrenApart
  <2>7. QED
    BY <1>1, <1>2, <1>3, <1>4, <2>1, <2>3, <2>6
<1>13. sq[y] = S
  BY <1>1, <1>2, <1>3, <1>4, <1>5
<1>14. ASSUME NEW j \in 1 .. Len(keys) PROVE EdgeAt(ms, h, sq, y, j)
  <2>1. CASE j < i
    <3>1. j \in 1 .. Len(keys) + 1 /\ qs[j] = ps[j] /\ j \notin {i, i + 1}
      BY <2>1, <1>7, <1>11
    <3>2. Slot(S, ks, j) = Slot(S, keys, j)
      BY <2>1, <1>10
    <3>3. QED
      BY <3>1, <3>2, <1>5, <1>12, <1>13 DEF EdgeAt
  <2>2. CASE j = i
    <3>1. qs[j] = l
      BY <2>2, <1>1, <1>5, <1>11
    <3>2. l \in DOMAIN ms /\ ms[l].parent = y /\ h[l] + 1 = h[y] /\ sq[l] = Slot(S, ks, j)
      <4>1. h[l] + 1 = h[y]
        <5>1. i \in 1 .. Len(ns[y].keys) + 1
          BY <1>5, <1>7
        <5>2. QED
          BY <5>1, <1>1, TreeChild
      <4>2. QED
        BY <4>1, <2>2, <1>1, <1>2, <1>10
    <3>3. QED
      BY <3>1, <3>2, <1>5, <1>13 DEF EdgeAt
  <2>3. CASE j > i
    <3>0. PICK n : n = j + 1
      OBVIOUS
    <3>1. n \in 1 .. Len(keys) + 1 /\ qs[j] = ps[n] /\ n \notin {i, i + 1}
      BY <2>3, <3>0, <1>7, <1>11
    <3>2. Slot(S, ks, j) = Slot(S, keys, n)
      BY <2>3, <3>0, <1>10
    <3>3. QED
      BY <3>1, <3>2, <1>5, <1>12, <1>13 DEF EdgeAt
  <2>4. QED
    BY <2>1, <2>2, <2>3, <1>7
<1>15. NodeAt(ms, h, sq, y)
  <2>1. ASSUME NEW j \in 1 .. Len(ks) PROVE ks[j] \in S
    <3>1. RemovedSeq(keys, i, ks)
      BY <1>6, <1>7, <1>8, Removed
    <3>2. ks[j] = IF j < i THEN keys[j] ELSE keys[j + 1]
      BY <3>1, <1>10 DEF RemovedSeq
    <3>3. QED
      BY <3>2, <1>6, <1>7, <1>10
  <2>2. Len(qs) = Len(ks) + 1
    BY <1>7, <1>10, <1>11
  <2>3. InnerAt(ms, h, sq, y)
    BY <2>2, <1>1, <1>5, <1>11, <1>14 DEF InnerAt
  <2>4. QED
    BY <2>1, <2>3, <1>1, <1>5, <1>6, <1>10, <1>13 DEF NodeAt, SpanAt, KeysAt
<1>16. SpanAt(sq, l)
  <2>1. i \in 1 .. Len(ks) + 1
    BY <1>7, <1>10
  <2>2. Convex(Slot(S, ks, i))
    BY <2>1, <1>6, <1>10, SlotConvex
  <2>3. sp[l] # {}
    BY <1>2, TreeNode
  <2>4. sq[l] # {}
    BY <2>3, <1>4 DEF Cup
  <2>5. QED
    BY <2>2, <2>4, <1>10 DEF SpanAt
<1>17. ASSUME NEW x \in DOMAIN ns \ {m}, ns[x].parent = y PROVE UpAt(ms, x)
  <2>1. PICK j \in 1 .. Len(keys) + 1 : ps[j] = x
    BY <1>1, <1>5, <1>17, TreeParent
  <2>2. j # i + 1
    BY <2>1, <1>1, <1>5, <1>17
  <2>3. \E n \in 1 .. Len(qs) : qs[n] = x
    <3>1. CASE j <= i
      BY <3>1, <2>1, <1>7, <1>11
    <3>2. CASE j > i
      <4>0. PICK n : n = j - 1
        OBVIOUS
      <4>1. n \in 1 .. Len(keys) /\ ~(n <= i) /\ n + 1 = j
        BY <4>0, <3>2, <2>2, <1>7
      <4>2. QED
        BY <4>1, <2>1, <1>11
    <3>3. QED
      BY <3>1, <3>2, <1>7
  <2>4. ms[x].parent = y /\ y \in DOMAIN ms
    BY <1>1, <1>2, <1>17
  <2>5. QED
    BY <2>3, <2>4, <1>1, <1>5 DEF UpAt
<1>18. QED
  BY <1>15, <1>16, <1>17

LEMMA MergeTree ==
  ASSUME NEW ns, NEW r, NEW h, NEW sp, NEW rk, Tree(ns, r, h, sp, rk),
         NEW ms, NEW l, NEW m, NEW y, NEW i, MergeBody(ns, ms, l, m, y, i),
         NEW sq, sq = MergeSpans(sp, l, m),
         NodeAt(ms, h, sq, l),
         \A x \in DOMAIN ns : ns[x].parent \in {l, m} => UpAt(ms, x),
         ChainOK(Leaves(ms), sq, Nexts(ms), rk)
  PROVE  Tree(ms, r, h, sq, rk)
<1>1. /\ y \in DOMAIN ns /\ ~ns[y].leaf /\ i \in 1 .. Len(ns[y].keys)
      /\ ns[y].ptrs[i] = l /\ ns[y].ptrs[i + 1] = m
      /\ DOMAIN ms = DOMAIN ns \ {m} /\ NodesOK(ms)
      /\ \A x \in DOMAIN ns \ {l, m, y} : SameBody(ns, ms, x)
      /\ \A x \in DOMAIN ns \ {m} : ns[x].parent # m => ms[x].parent = ns[x].parent
  BY DEF MergeBody
<1>2. /\ l \in DOMAIN ns /\ m \in DOMAIN ns /\ l # m /\ l # y /\ m # y /\ l # r /\ m # r
      /\ ns[l].parent = y /\ ns[m].parent = y
  BY <1>1, Siblings
<1>3. l \in PageIds /\ m \in PageIds /\ \A x \in DOMAIN ns : x \in PageIds
  BY <1>2, TreeNode DEF TypeAt
<1>4. GhostsOK(h, sq, rk) /\ \A x \in PageIds \ {l} : sq[x] = sp[x]
  <2>1. GhostsOK(h, sp, rk)
    BY DEF Tree
  <2>2. QED
    <3>1. l \in PageIds /\ m \in PageIds
      BY <1>3
    <3>2. MergedSpans(sp, l, m, sq)
      BY <3>1, <2>1, MergeGhosts
    <3>3. GhostsOK(h, sq, rk)
      BY <3>1, <2>1, MergeGhosts
    <3>4. QED
      BY <3>2, <3>3 DEF MergedSpans
<1>5. NodeAt(ms, h, sq, y) /\ \A x \in DOMAIN ns \ {m} : ns[x].parent = y => UpAt(ms, x)
  BY MergeParent
<1>6. ASSUME NEW x \in DOMAIN ns \ {l, m, y} PROVE NodeAt(ms, h, sq, x)
  <2>1. SameBody(ns, ms, x) /\ sq[x] = sp[x]
    BY <1>1, <1>3, <1>4
  <2>2. ASSUME NEW c \in DOMAIN ns, ns[c].parent = x
        PROVE  c \in DOMAIN ms /\ ms[c].parent = x /\ sq[c] = sp[c]
    BY <2>2, <1>1, <1>2, <1>3, <1>4, <1>6
  <2>3. QED
    BY <2>1, <2>2, NodeKept
<1>7. ASSUME NEW x \in DOMAIN ns \ {r, l, m}, ns[x].parent \notin {l, m, y} PROVE UpAt(ms, x)
  <2>1. ns[x].parent \in DOMAIN ns
    BY TreeUp
  <2>2. ms[x].parent = ns[x].parent /\ ns[x].parent \in DOMAIN ms /\ SameBody(ns, ms, ns[x].parent)
    BY <1>1, <1>7, <2>1
  <2>3. QED
    BY <2>2, UpKept
<1>8. RootAt(ms, r, sq)
  <2>1. r \in DOMAIN ns /\ sp[r] = K /\ ns[r].parent = -1
    BY DEF Tree, RootAt
  <2>2. m # -1
    BY <1>3 DEF PageIds
  <2>3. QED
    BY <2>1, <2>2, <1>1, <1>2, <1>3, <1>4 DEF RootAt
<1>9. \A x \in DOMAIN ms : NodeAt(ms, h, sq, x)
  BY <1>1, <1>5, <1>6
<1>10. \A x \in DOMAIN ms \ {r} : UpAt(ms, x)
  BY <1>1, <1>2, <1>5, <1>7
<1>11. QED
  BY <1>1, <1>4, <1>8, <1>9, <1>10 DEF Tree

\* The leaf after a leaf is its neighbour under the same parent.
LEMMA NextSibling ==
  ASSUME NEW ns, NEW r, NEW h, NEW sp, NEW rk, Tree(ns, r, h, sp, rk),
         NEW y \in DOMAIN ns, ~ns[y].leaf, NEW i \in 1 .. Len(ns[y].keys),
         NEW l, NEW m, l = ns[y].ptrs[i], m = ns[y].ptrs[i + 1], ns[l].leaf
  PROVE  ns[l].next = m /\ l \in Leaves(ns) /\ m \in Leaves(ns)
<1>1. /\ l \in DOMAIN ns /\ m \in DOMAIN ns /\ l # m
      /\ sp[l] = Slot(sp[y], ns[y].keys, i) /\ sp[m] = Slot(sp[y], ns[y].keys, i + 1)
      /\ Before(sp[l], sp[m]) /\ ns[m].leaf
  BY Siblings
<1>2. l \in Leaves(ns) /\ m \in Leaves(ns)
  BY <1>1 DEF Leaves
<1>3. NextAt(Leaves(ns), sp, Nexts(ns), rk, l)
  BY <1>2 DEF Tree, ChainOK
<1>4. \A x \in Leaves(ns) : sp[x] \in SUBSET K /\ sp[x] # {} /\ x \in PageIds
  <2>1. \A x \in Leaves(ns) : x \in DOMAIN ns
    BY DEF Leaves
  <2>2. QED
    BY <2>1, TreeNode DEF TypeAt
<1>5. ~Before(sp[m], sp[l])
  BY <1>1, <1>2, <1>4, BeforeFacts
<1>6. PICK n : n = Nexts(ns)[l]
  OBVIOUS
<1>7. n = ns[l].next
  BY <1>2, <1>6 DEF Nexts
<1>8. /\ n \in Leaves(ns) /\ Before(sp[l], sp[n])
      /\ \A x \in Leaves(ns) \ {l, n} : Before(sp[x], sp[l]) \/ Before(sp[n], sp[x])
  BY <1>1, <1>2, <1>3, <1>5, <1>6 DEF NextAt
<1>9. SUFFICES ASSUME n # m PROVE FALSE
  BY <1>2, <1>7
<1>10. Before(sp[n], sp[m])
  BY <1>1, <1>2, <1>5, <1>8, <1>9
<1>11. PICK keys, S : keys = ns[y].keys /\ S = sp[y]
  OBVIOUS
<1>12. keys \in Seq(K) /\ S \in SUBSET K /\ Convex(S) /\ i \in 1 .. Len(keys)
  BY <1>11, TreeNode DEF TypeAt
<1>13. PICK a \in sp[l], k \in sp[n], b \in sp[m] : TRUE
  BY <1>2, <1>4, <1>8
<1>14. a \in K /\ k \in K /\ b \in K /\ Lt(a, k) /\ Lt(k, b)
  BY <1>2, <1>4, <1>8, <1>10, <1>13 DEF Before
<1>15. a \in Slot(S, keys, i) /\ b \in Slot(S, keys, i + 1)
  BY <1>1, <1>11
<1>16. k \in S
  <2>1. a \in S /\ b \in S
    BY <1>15 DEF Slot
  <2>2. QED
    BY <2>1, <1>12, <1>14 DEF Convex
<1>17. i > 1 => ~Lt(k, keys[i - 1])
  <2>1. SUFFICES ASSUME i > 1 PROVE ~Lt(k, keys[i - 1])
    OBVIOUS
  <2>2. ~Lt(a, keys[i - 1]) /\ keys[i - 1] \in K
    BY <2>1, <1>12, <1>15 DEF Slot
  <2>3. QED
    BY <2>2, <1>14, LtOrder
<1>18. i + 1 <= Len(keys) => Lt(k, keys[i + 1])
  <2>1. SUFFICES ASSUME i + 1 <= Len(keys) PROVE Lt(k, keys[i + 1])
    OBVIOUS
  <2>2. Lt(b, keys[i + 1]) /\ keys[i + 1] \in K
    BY <2>1, <1>12, <1>15 DEF Slot
  <2>3. QED
    BY <2>2, <1>14, LtOrder
<1>19. CASE Lt(k, keys[i])
  <2>1. k \in Slot(S, keys, i)
    BY <1>12, <1>16, <1>17, <1>19 DEF Slot
  <2>2. Lt(k, k)
    BY <2>1, <1>1, <1>8, <1>11, <1>13 DEF Before
  <2>3. QED
    BY <2>2, <1>14, LtOrder
<1>20. CASE ~Lt(k, keys[i])
  <2>0. (i + 1) - 1 = i
    BY <1>12
  <2>1. k \in Slot(S, keys, i + 1)
    BY <2>0, <1>16, <1>18, <1>20 DEF Slot
  <2>2. Lt(k, k)
    BY <2>1, <1>1, <1>10, <1>11, <1>13 DEF Before
  <2>3. QED
    BY <2>2, <1>14, LtOrder
<1>21. QED
  BY <1>19, <1>20

LEMMA TreeChain ==
  ASSUME NEW ns, NEW r, NEW h, NEW sp, NEW rk, Tree(ns, r, h, sp, rk)
  PROVE  ChainGhosts(Leaves(ns), sp, rk) /\ ChainOK(Leaves(ns), sp, Nexts(ns), rk)
<1>1. GhostsOK(h, sp, rk) /\ ChainOK(Leaves(ns), sp, Nexts(ns), rk)
  BY DEF Tree
<1>2. \A x \in Leaves(ns) : x \in DOMAIN ns
  BY DEF Leaves
<1>3. \A x \in Leaves(ns) : sp[x] # {} /\ x \in PageIds
  BY <1>2, TreeNode DEF TypeAt
<1>4. QED
  BY <1>1, <1>3 DEF ChainGhosts, GhostsOK

WholeLeaf(ns, ms, l, m) ==
  /\ ns[l].leaf
  /\ ms[l].keys = ns[l].keys \o ns[m].keys
  /\ ms[l].ptrs = ns[l].ptrs \o ns[m].ptrs
  /\ ms[l].next = ns[m].next

LEMMA MergeLeaf ==
  ASSUME NEW ns, NEW r, NEW h, NEW sp, NEW rk, Tree(ns, r, h, sp, rk),
         NEW ms, NEW l, NEW m, NEW y, NEW i, MergeBody(ns, ms, l, m, y, i),
         NEW sq, sq = MergeSpans(sp, l, m), WholeLeaf(ns, ms, l, m)
  PROVE  Tree(ms, r, h, sq, rk)
<1>1. /\ y \in DOMAIN ns /\ ~ns[y].leaf /\ i \in 1 .. Len(ns[y].keys)
      /\ ns[y].ptrs[i] = l /\ ns[y].ptrs[i + 1] = m
      /\ DOMAIN ms = DOMAIN ns \ {m} /\ ms[l].leaf = ns[l].leaf /\ ms[y].leaf = ns[y].leaf
      /\ \A x \in DOMAIN ns \ {l, m, y} : SameBody(ns, ms, x)
  BY DEF MergeBody
<1>0. ns[l].leaf
  BY DEF WholeLeaf
<1>2. /\ l \in DOMAIN ns /\ m \in DOMAIN ns /\ l # m /\ l # y /\ m # y
      /\ Before(sp[l], sp[m]) /\ ns[m].leaf /\ h[l] = h[m]
  BY <1>0, <1>1, Siblings
<1>3. ns[l].next = m /\ l \in Leaves(ns) /\ m \in Leaves(ns)
  BY <1>0, <1>1, NextSibling
<1>4. l \in PageIds /\ m \in PageIds /\ \A x \in DOMAIN ns : x \in PageIds
  BY <1>2, TreeNode DEF TypeAt
<1>5. MergedSpans(sp, l, m, sq)
  <2>1. GhostsOK(h, sp, rk)
    BY DEF Tree
  <2>2. l \in PageIds /\ m \in PageIds
    BY <1>4
  <2>3. QED
    BY <2>1, <2>2, MergeGhosts
<1>6. sq[l] = Cup(sp[l], sp[m]) /\ \A x \in PageIds \ {l} : sq[x] = sp[x]
  BY <1>5 DEF MergedSpans
<1>7. PICK kl, kr, ks, pl, pr, ps :
        /\ kl = ns[l].keys /\ kr = ns[m].keys /\ ks = ms[l].keys
        /\ pl = ns[l].ptrs /\ pr = ns[m].ptrs /\ ps = ms[l].ptrs
  OBVIOUS
<1>8. /\ kl \in Seq(K) /\ kr \in Seq(K) /\ pl \in Seq(Int) /\ pr \in Seq(Int)
      /\ Ascending(kl) /\ Ascending(kr)
      /\ \A j \in 1 .. Len(kl) : kl[j] \in sp[l]
      /\ \A j \in 1 .. Len(kr) : kr[j] \in sp[m]
  BY <1>2, <1>7, TreeNode
<1>9. /\ h[l] = 0 /\ Len(pl) = Len(kl) /\ Len(pr) = Len(kr)
      /\ \A j \in 1 .. Len(kl) : pl[j] = kl[j][2]
      /\ \A j \in 1 .. Len(kr) : pr[j] = kr[j][2]
  <2>1. NodeAt(ns, h, sp, l) /\ NodeAt(ns, h, sp, m)
    BY <1>2, TreeNode
  <2>2. QED
    BY <2>1, <1>0, <1>2, <1>7 DEF NodeAt, LeafAt
<1>30. Len(kl) \in Nat /\ Len(kr) \in Nat
  BY <1>8
<1>10. PICK a, b : a = Len(kl) /\ b = Len(kr) /\ a \in Nat /\ b \in Nat
  BY <1>30
<1>11. ks = kl \o kr /\ ps = pl \o pr /\ ms[l].next = ns[m].next
  BY <1>7 DEF WholeLeaf
<1>12. Len(ks) = a + b /\ \A j \in 1 .. a + b : ks[j] = IF j <= a THEN kl[j] ELSE kr[j - a]
  <2>1. CatSeq(kl, kr, ks)
    BY <1>8, <1>11, Catenated
  <2>2. QED
    BY <2>1, <1>10 DEF CatSeq
<1>13. Len(ps) = a + b /\ \A j \in 1 .. a + b : ps[j] = IF j <= a THEN pl[j] ELSE pr[j - a]
  <2>1. CatSeq(pl, pr, ps)
    BY <1>8, <1>11, Catenated
  <2>2. QED
    BY <2>1, <1>9, <1>10 DEF CatSeq
<1>14. \A j \in 1 .. a + b : j <= a => j \in 1 .. Len(kl)
  BY <1>10
<1>15. \A j \in 1 .. a + b : ~(j <= a) => j - a \in 1 .. Len(kr)
  BY <1>10
<1>16. ASSUME NEW c \in 1 .. a + b, NEW d \in 1 .. a + b, c < d PROVE Lt(ks[c], ks[d])
  <2>1. CASE d <= a
    <3>1. c <= a /\ c \in 1 .. Len(kl) /\ d \in 1 .. Len(kl)
      BY <2>1, <1>10, <1>16
    <3>2. Lt(kl[c], kl[d])
      BY <3>1, <1>8, <1>16, AscendingIn
    <3>3. QED
      BY <3>1, <3>2, <2>1, <1>12
  <2>2. CASE c <= a /\ ~(d <= a)
    <3>1. kl[c] \in sp[l] /\ kr[d - a] \in sp[m]
      BY <2>2, <1>8, <1>14, <1>15
    <3>2. Lt(kl[c], kr[d - a])
      BY <3>1, <1>2 DEF Before
    <3>3. QED
      BY <3>2, <2>2, <1>12
  <2>3. CASE ~(c <= a)
    <3>0. PICK e, f : e = c - a /\ f = d - a
      OBVIOUS
    <3>1. e \in 1 .. Len(kr) /\ f \in 1 .. Len(kr) /\ e < f /\ ~(d <= a)
      BY <3>0, <2>3, <1>10, <1>16
    <3>2. Lt(kr[e], kr[f])
      BY <3>1, <1>8, AscendingIn
    <3>3. QED
      BY <3>0, <3>1, <3>2, <2>3, <1>12
  <2>4. QED
    BY <2>1, <2>2, <2>3
<1>17. \A j \in 1 .. a + b : ks[j] \in sq[l]
  BY <1>6, <1>8, <1>12, <1>14, <1>15 DEF Cup
<1>18. \A j \in 1 .. a + b : ps[j] = ks[j][2]
  BY <1>9, <1>12, <1>13, <1>14, <1>15
<1>19. NodeAt(ms, h, sq, l)
  <2>1. SpanAt(sq, l)
    BY MergeParent
  <2>2. KeysAt(ms, sq, l)
    BY <1>7, <1>12, <1>16, <1>17 DEF KeysAt, Ascending
  <2>3. LeafAt(ms, h, l)
    BY <1>7, <1>9, <1>12, <1>13, <1>18 DEF LeafAt
  <2>4. QED
    BY <2>1, <2>2, <2>3, <1>0, <1>1 DEF NodeAt
<1>20. \A x \in DOMAIN ns : ns[x].parent \notin {l, m}
  BY <1>0, <1>2, TreeParent
<1>21. ChainOK(Leaves(ms), sq, Nexts(ms), rk)
  <2>1. PICK L, M, nx, ny : L = Leaves(ns) /\ M = Leaves(ms) /\ nx = Nexts(ns) /\ ny = Nexts(ms)
    OBVIOUS
  <2>2. ChainOK(L, sp, nx, rk) /\ ChainGhosts(L, sp, rk)
    BY <2>1, TreeChain
  <2>3. M = L \ {m}
    <3>1. \A x \in DOMAIN ns \ {m} : ms[x].leaf = ns[x].leaf
      BY <1>1 DEF SameBody
    <3>2. QED
      BY <3>1, <2>1, <1>1 DEF Leaves
  <2>4. l \in L /\ m \in L /\ nx[l] = m
    BY <2>1, <1>3 DEF Nexts
  <2>5. sq[l] = Cup(sp[l], sp[m]) /\ \A x \in M \ {l} : sq[x] = sp[x]
    <3>1. \A x \in M : x \in PageIds
      BY <2>1, <1>1, <1>4 DEF Leaves
    <3>2. QED
      BY <3>1, <1>6
  <2>6. ny[l] = nx[m] /\ \A x \in M \ {l} : ny[x] = nx[x]
    <3>1. \A x \in M : ny[x] = ms[x].next
      BY <2>1 DEF Nexts
    <3>2. \A x \in L : nx[x] = ns[x].next /\ x \in DOMAIN ns /\ x # y
      BY <2>1, <1>1 DEF Nexts, Leaves
    <3>3. \A x \in L \ {l, m} : ms[x].next = ns[x].next
      BY <3>2, <1>1 DEF SameBody
    <3>4. l \in M
      BY <2>3, <2>4, <1>2
    <3>5. QED
      BY <3>1, <3>2, <3>3, <3>4, <2>3, <2>4, <1>11
  <2>7. ChainOK(M, sq, ny, rk)
    BY <2>2, <2>3, <2>4, <2>5, <2>6, ChainMerge
  <2>8. QED
    BY <2>1, <2>7
<1>22. QED
  BY <1>19, <1>20, <1>21, MergeTree

WholeInner(ns, ms, l, m, key) ==
  /\ ~ns[l].leaf
  /\ ms[l].keys = Joined(ns[l].keys, key, ns[m].keys)
  /\ ms[l].ptrs = ns[l].ptrs \o ns[m].ptrs
  /\ ms[l].next = 0
  /\ \A c \in DOMAIN ns : ns[c].parent = m => ms[c].parent = l

LEMMA MergeInner ==
  ASSUME NEW ns, NEW r, NEW h, NEW sp, NEW rk, Tree(ns, r, h, sp, rk),
         NEW ms, NEW l, NEW m, NEW y, NEW i, MergeBody(ns, ms, l, m, y, i),
         NEW sq, sq = MergeSpans(sp, l, m), NEW key, key = ns[y].keys[i], WholeInner(ns, ms, l, m, key)
  PROVE  Tree(ms, r, h, sq, rk)
<1>1. /\ y \in DOMAIN ns /\ ~ns[y].leaf /\ i \in 1 .. Len(ns[y].keys)
      /\ ns[y].ptrs[i] = l /\ ns[y].ptrs[i + 1] = m
      /\ DOMAIN ms = DOMAIN ns \ {m} /\ ms[l].leaf = ns[l].leaf /\ ms[y].leaf = ns[y].leaf
      /\ \A x \in DOMAIN ns \ {l, m, y} : SameBody(ns, ms, x)
      /\ \A x \in DOMAIN ns \ {m} : ns[x].parent # m => ms[x].parent = ns[x].parent
  BY DEF MergeBody
<1>0. ~ns[l].leaf
  BY DEF WholeInner
<1>2. /\ l \in DOMAIN ns /\ m \in DOMAIN ns /\ l # m /\ l # y /\ m # y
      /\ ns[l].parent = y /\ ns[m].parent = y
      /\ sp[l] = Slot(sp[y], ns[y].keys, i) /\ sp[m] = Slot(sp[y], ns[y].keys, i + 1)
      /\ Before(sp[l], sp[m]) /\ ~ns[m].leaf /\ h[l] = h[m]
  BY <1>0, <1>1, Siblings
<1>4. l \in PageIds /\ m \in PageIds /\ \A x \in DOMAIN ns : x \in PageIds
  BY <1>2, TreeNode DEF TypeAt
<1>5. MergedSpans(sp, l, m, sq)
  <2>1. GhostsOK(h, sp, rk)
    BY DEF Tree
  <2>2. l \in PageIds /\ m \in PageIds
    BY <1>4
  <2>3. QED
    BY <2>1, <2>2, MergeGhosts
<1>6. sq[l] = Cup(sp[l], sp[m]) /\ \A x \in PageIds \ {l} : sq[x] = sp[x]
  BY <1>5 DEF MergedSpans
<1>7. PICK kl, kr, ks, pl, pr, ps, S, T :
        /\ kl = ns[l].keys /\ kr = ns[m].keys /\ ks = ms[l].keys
        /\ pl = ns[l].ptrs /\ pr = ns[m].ptrs /\ ps = ms[l].ptrs
        /\ S = sp[l] /\ T = sp[m]
  OBVIOUS
<1>8. /\ kl \in Seq(K) /\ kr \in Seq(K) /\ pl \in Seq(Int) /\ pr \in Seq(Int)
      /\ Ascending(kl) /\ Ascending(kr) /\ S \in SUBSET K /\ T \in SUBSET K
      /\ \A j \in 1 .. Len(kl) : kl[j] \in S
      /\ \A j \in 1 .. Len(kr) : kr[j] \in T
  BY <1>2, <1>7, TreeNode DEF TypeAt
<1>9. /\ Len(pl) = Len(kl) + 1 /\ Len(pr) = Len(kr) + 1 /\ Len(kl) \in Nat /\ Len(kr) \in Nat
  BY <1>0, <1>2, <1>7, TreeEdge
<1>10. PICK a, b : a = Len(kl) /\ b = Len(kr) /\ a \in Nat /\ b \in Nat
  BY <1>9
<1>11. ks = Joined(kl, key, kr) /\ ps = pl \o pr /\ ms[l].next = 0
  BY <1>7 DEF WholeInner
<1>12. key \in K /\ (\A k \in S : Lt(k, key)) /\ (\A k \in T : ~Lt(k, key))
  <2>1. ns[y].keys \in Seq(K) /\ i \in 1 .. Len(ns[y].keys)
    BY <1>1, TreeNode
  <2>2. key \in K /\ i <= Len(ns[y].keys) /\ i + 1 > 1 /\ (i + 1) - 1 = i
    BY <2>1
  <2>3. S = Slot(sp[y], ns[y].keys, i) /\ T = Slot(sp[y], ns[y].keys, i + 1)
    BY <1>2, <1>7
  <2>4. QED
    BY <2>2, <2>3 DEF Slot
<1>13. \A j \in 1 .. Len(kr) : Lt(key, kr[j])
  <2>1. SUFFICES ASSUME NEW j \in 1 .. Len(kr) PROVE Lt(key, kr[j])
    OBVIOUS
  <2>2. PICK c : c = pr[1]
    OBVIOUS
  <2>3. 1 \in 1 .. Len(kr) + 1 /\ 1 \in 1 .. Len(kr) /\ (1 = j \/ 1 < j)
    BY <1>9
  <2>4. c \in DOMAIN ns /\ sp[c] = Slot(T, kr, 1)
    BY <2>2, <2>3, <1>2, <1>7, TreeChild
  <2>5. sp[c] # {}
    BY <2>4, TreeNode
  <2>6. PICK k \in T : Lt(k, kr[1])
    BY <2>3, <2>4, <2>5 DEF Slot
  <2>7. kr[1] = kr[j] \/ Lt(kr[1], kr[j])
    BY <2>3, <1>8, AscendingIn
  <2>8. k \in K /\ kr[1] \in K /\ kr[j] \in K /\ ~Lt(k, key)
    BY <2>3, <1>8, <1>12
  <2>9. QED
    BY <2>6, <2>7, <2>8, <1>12, LtOrder
<1>14. MergedKeys(S, T, kl, kr, key, ks)
  BY <1>8, <1>11, <1>12, <1>13, SlotMerge
<1>15. /\ Len(ks) = a + b + 1 /\ Ascending(ks)
       /\ \A j \in 1 .. a : ks[j] = kl[j]
       /\ ks[a + 1] = key
       /\ \A j \in 1 .. b : ks[j + a + 1] = kr[j]
       /\ \A j \in 1 .. a + 1 : Slot(sq[l], ks, j) = Slot(S, kl, j)
       /\ \A j \in 1 .. b + 1 : Slot(sq[l], ks, j + a + 1) = Slot(T, kr, j)
  BY <1>6, <1>7, <1>10, <1>14 DEF MergedKeys
<1>16. /\ Len(ps) = a + b + 2
       /\ \A j \in 1 .. a + b + 2 : ps[j] = IF j <= a + 1 THEN pl[j] ELSE pr[j - (a + 1)]
  <2>1. CatSeq(pl, pr, ps)
    BY <1>8, <1>11, Catenated
  <2>2. QED
    BY <2>1, <1>9, <1>10 DEF CatSeq
<1>17. ASSUME NEW j \in 1 .. a + 1, NEW c, c = pl[j]
       PROVE  c \in DOMAIN ms /\ ms[c].parent = l /\ h[c] + 1 = h[l] /\ sq[c] = Slot(S, kl, j)
  <2>1. j \in 1 .. Len(ns[l].keys) + 1
    BY <1>7, <1>10
  <2>2. c \in DOMAIN ns /\ ns[c].parent = l /\ h[c] + 1 = h[l] /\ sp[c] = Slot(S, kl, j) /\ c # l
    BY <2>1, <1>0, <1>2, <1>7, <1>17, TreeChild
  <2>3. c # m
    BY <2>2, <1>2
  <2>4. QED
    BY <2>2, <2>3, <1>1, <1>2, <1>4, <1>6
<1>18. ASSUME NEW j \in 1 .. b + 1, NEW c, c = pr[j]
       PROVE  c \in DOMAIN ms /\ ms[c].parent = l /\ h[c] + 1 = h[l] /\ sq[c] = Slot(T, kr, j)
  <2>1. j \in 1 .. Len(ns[m].keys) + 1
    BY <1>7, <1>10
  <2>2. c \in DOMAIN ns /\ ns[c].parent = m /\ h[c] + 1 = h[m] /\ sp[c] = Slot(T, kr, j) /\ c # m
    BY <2>1, <1>2, <1>7, <1>18, TreeChild
  <2>3. c # l
    BY <2>2, <1>2
  <2>4. ms[c].parent = l
    BY <2>2 DEF WholeInner
  <2>5. QED
    BY <2>2, <2>3, <2>4, <1>1, <1>2, <1>4, <1>6
<1>19. ASSUME NEW j \in 1 .. a + b + 2 PROVE EdgeAt(ms, h, sq, l, j)
  <2>1. CASE j <= a + 1
    <3>1. j \in 1 .. a + 1
      BY <2>1, <1>10
    <3>2. PICK c : c = pl[j]
      OBVIOUS
    <3>3. ms[l].ptrs[j] = c
      BY <3>1, <3>2, <2>1, <1>7, <1>16
    <3>4. sq[c] = Slot(sq[l], ms[l].keys, j)
      BY <3>1, <3>2, <1>7, <1>15, <1>17
    <3>5. QED
      BY <3>1, <3>2, <3>3, <3>4, <1>17 DEF EdgeAt
  <2>2. CASE ~(j <= a + 1)
    <3>0. PICK n : n = j - (a + 1)
      OBVIOUS
    <3>1. n \in 1 .. b + 1 /\ n + a + 1 = j
      BY <3>0, <2>2, <1>10
    <3>2. PICK c : c = pr[n]
      OBVIOUS
    <3>3. ms[l].ptrs[j] = c
      BY <3>0, <3>2, <2>2, <1>7, <1>16
    <3>4. sq[c] = Slot(sq[l], ms[l].keys, j)
      <4>1. Slot(sq[l], ks, n + a + 1) = Slot(T, kr, n)
        BY <3>1, <1>15
      <4>2. sq[c] = Slot(T, kr, n)
        BY <3>1, <3>2, <1>18
      <4>3. QED
        BY <4>1, <4>2, <3>1, <1>7
    <3>5. QED
      BY <3>1, <3>2, <3>3, <3>4, <1>18 DEF EdgeAt
  <2>3. QED
    BY <2>1, <2>2
<1>20. NodeAt(ms, h, sq, l)
  <2>1. SpanAt(sq, l)
    BY MergeParent
  <2>2. ASSUME NEW j \in 1 .. a + b + 1 PROVE ks[j] \in sq[l]
    <3>1. CASE j <= a
      <4>1. j \in 1 .. a /\ j \in 1 .. Len(kl)
        BY <3>1, <1>10
      <4>2. QED
        BY <4>1, <1>6, <1>7, <1>8, <1>15 DEF Cup
    <3>2. CASE j = a + 1
      <4>1. PICK keys, R : keys = ns[y].keys /\ R = sp[y]
        OBVIOUS
      <4>2. keys \in Seq(K) /\ Ascending(keys) /\ i \in 1 .. Len(keys) /\ \A n \in 1 .. Len(keys) : keys[n] \in R
        BY <4>1, <1>1, TreeNode
      <4>3. key \in R /\ key = keys[i]
        BY <4>1, <4>2
      <4>4. (i + 1) - 1 = i /\ (i + 1 <= Len(keys) => i + 1 \in 1 .. Len(keys) /\ i < i + 1)
        BY <4>2
      <4>5. i + 1 <= Len(keys) => Lt(key, keys[i + 1])
        BY <4>2, <4>3, <4>4, AscendingIn
      <4>6. key \in Slot(R, keys, i + 1)
        BY <4>3, <4>4, <4>5, <1>12, LtOrder DEF Slot
      <4>7. key \in T
        BY <4>1, <4>6, <1>2, <1>7
      <4>8. QED
        BY <4>7, <3>2, <1>6, <1>7, <1>15 DEF Cup
    <3>3. CASE j > a + 1
      <4>0. PICK n : n = j - (a + 1)
        OBVIOUS
      <4>1. n \in 1 .. b /\ n + a + 1 = j /\ n \in 1 .. Len(kr)
        BY <4>0, <3>3, <1>10
      <4>2. ks[j] = kr[n]
        BY <4>1, <1>15
      <4>3. QED
        BY <4>1, <4>2, <1>6, <1>7, <1>8 DEF Cup
    <3>4. QED
      BY <3>1, <3>2, <3>3, <1>10
  <2>3. KeysAt(ms, sq, l)
    BY <2>2, <1>7, <1>15 DEF KeysAt
  <2>4. Len(ps) = Len(ks) + 1
    BY <1>10, <1>15, <1>16
  <2>5. InnerAt(ms, h, sq, l)
    BY <2>4, <1>7, <1>11, <1>16, <1>19 DEF InnerAt
  <2>6. QED
    BY <2>1, <2>3, <2>5, <1>0, <1>1 DEF NodeAt
<1>21. ASSUME NEW x \in DOMAIN ns, ns[x].parent \in {l, m} PROVE UpAt(ms, x)
  <2>1. CASE ns[x].parent = l
    <3>1. PICK j \in 1 .. Len(kl) + 1 : pl[j] = x
      BY <2>1, <1>2, <1>7, TreeParent
    <3>2. j \in 1 .. a + 1 /\ j \in 1 .. a + b + 2 /\ j <= a + 1
      BY <1>10
    <3>3. ps[j] = x /\ j \in 1 .. Len(ps)
      BY <3>1, <3>2, <1>16
    <3>4. ms[x].parent = l
      BY <3>1, <3>2, <1>17
    <3>5. QED
      BY <3>3, <3>4, <1>0, <1>1, <1>2, <1>7 DEF UpAt
  <2>2. CASE ns[x].parent = m
    <3>1. PICK j \in 1 .. Len(kr) + 1 : pr[j] = x
      BY <2>2, <1>2, <1>7, TreeParent
    <3>0. PICK n : n = j + (a + 1)
      OBVIOUS
    <3>2. j \in 1 .. b + 1 /\ n \in 1 .. a + b + 2 /\ ~(n <= a + 1) /\ n - (a + 1) = j
      BY <3>0, <1>10
    <3>3. ps[n] = x /\ n \in 1 .. Len(ps)
      BY <3>1, <3>2, <1>16
    <3>4. ms[x].parent = l
      BY <3>1, <3>2, <1>18
    <3>5. QED
      BY <3>3, <3>4, <1>0, <1>1, <1>2, <1>7 DEF UpAt
  <2>3. QED
    BY <2>1, <2>2, <1>21
<1>22. ChainOK(Leaves(ms), sq, Nexts(ms), rk)
  <2>1. Leaves(ms) = Leaves(ns)
    <3>1. \A x \in DOMAIN ns \ {m} : ms[x].leaf = ns[x].leaf
      BY <1>1 DEF SameBody
    <3>2. QED
      BY <3>1, <1>1, <1>2 DEF Leaves
  <2>2. \A x \in Leaves(ns) : x \in DOMAIN ns \ {l, m, y} /\ x \in PageIds \ {l}
    BY <1>0, <1>1, <1>2, <1>4 DEF Leaves
  <2>3. \A x \in Leaves(ns) : sq[x] = sp[x]
    BY <2>2, <1>6
  <2>4. \A x \in Leaves(ns) : Nexts(ms)[x] = Nexts(ns)[x]
    BY <2>1, <2>2, <1>1 DEF Nexts, SameBody
  <2>5. ChainOK(Leaves(ns), sp, Nexts(ns), rk)
    BY TreeChain
  <2>6. ChainOK(Leaves(ns), sq, Nexts(ms), rk)
    BY <2>3, <2>4, <2>5, ChainSame
  <2>7. QED
    BY <2>1, <2>6
<1>23. QED
  BY <1>20, <1>21, <1>22, MergeTree

-----------------------------------------------------------------------------
(* A leaf changes, the root grows and shrinks *)

LeafBody(ns, ms, sp, p) ==
  /\ DOMAIN ms = DOMAIN ns /\ NodesOK(ms)
  /\ p \in DOMAIN ns /\ ns[p].leaf
  /\ \A x \in DOMAIN ns : ms[x].parent = ns[x].parent /\ ms[x].leaf = ns[x].leaf /\ ms[x].next = ns[x].next
  /\ \A x \in DOMAIN ns \ {p} : SameBody(ns, ms, x)
  /\ KeysAt(ms, sp, p)
  /\ Len(ms[p].ptrs) = Len(ms[p].keys)
  /\ \A i \in 1 .. Len(ms[p].keys) : ms[p].ptrs[i] = ms[p].keys[i][2]

LEMMA LeafTree ==
  ASSUME NEW ns, NEW r, NEW h, NEW sp, NEW rk, Tree(ns, r, h, sp, rk),
         NEW ms, NEW p, LeafBody(ns, ms, sp, p)
  PROVE  Tree(ms, r, h, sp, rk)
<1>1. /\ DOMAIN ms = DOMAIN ns /\ NodesOK(ms) /\ p \in DOMAIN ns /\ ns[p].leaf
      /\ \A x \in DOMAIN ns : ms[x].parent = ns[x].parent /\ ms[x].leaf = ns[x].leaf /\ ms[x].next = ns[x].next
      /\ \A x \in DOMAIN ns \ {p} : SameBody(ns, ms, x)
  BY DEF LeafBody
<1>2. ASSUME NEW x \in DOMAIN ns \ {p} PROVE NodeAt(ms, h, sp, x)
  BY <1>1, NodeKept
<1>3. NodeAt(ms, h, sp, p)
  <2>1. NodeAt(ns, h, sp, p)
    BY <1>1, TreeNode
  <2>2. SpanAt(sp, p) /\ h[p] = 0
    BY <2>1, <1>1 DEF NodeAt, LeafAt
  <2>3. QED
    BY <2>2, <1>1 DEF LeafBody, NodeAt, LeafAt
<1>4. ASSUME NEW x \in DOMAIN ns \ {r} PROVE UpAt(ms, x)
  <2>1. ns[x].parent \in DOMAIN ns /\ ~ns[ns[x].parent].leaf
    BY TreeUp
  <2>2. SameBody(ns, ms, ns[x].parent)
    BY <2>1, <1>1
  <2>3. QED
    BY <2>1, <2>2, <1>1, UpKept
<1>5. Leaves(ms) = Leaves(ns) /\ Nexts(ms) = Nexts(ns)
  <2>1. Leaves(ms) = Leaves(ns)
    BY <1>1 DEF Leaves
  <2>2. QED
    BY <2>1, <1>1 DEF Nexts, Leaves
<1>6. RootAt(ms, r, sp)
  BY <1>1 DEF Tree, RootAt
<1>7. GhostsOK(h, sp, rk) /\ ChainOK(Leaves(ms), sp, Nexts(ms), rk)
  BY <1>5 DEF Tree
<1>8. QED
  BY <1>1, <1>2, <1>3, <1>4, <1>6, <1>7 DEF Tree

\* ms is ns with a new root q above the old one, without keys
GrowBody(ns, ms, r, q) ==
  /\ q \in PageIds \ DOMAIN ns /\ DOMAIN ms = DOMAIN ns \cup {q} /\ NodesOK(ms)
  /\ ms[q] = Inner(-1, <<>>, <<r>>)
  /\ \A x \in DOMAIN ns : SameBody(ns, ms, x)
  /\ ms[r].parent = q
  /\ \A x \in DOMAIN ns \ {r} : ms[x].parent = ns[x].parent

GrowHeights(h, r, q) == [h EXCEPT ![q] = h[r] + 1]
GrowSpans(sp, q) == [sp EXCEPT ![q] = K]

LEMMA GrowTree ==
  ASSUME NEW ns, NEW r, NEW h, NEW sp, NEW rk, Tree(ns, r, h, sp, rk),
         NEW ms, NEW q, GrowBody(ns, ms, r, q),
         NEW hh, NEW sq, hh = GrowHeights(h, r, q), sq = GrowSpans(sp, q)
  PROVE  Tree(ms, q, hh, sq, rk)
<1>1. /\ q \in PageIds \ DOMAIN ns /\ DOMAIN ms = DOMAIN ns \cup {q} /\ NodesOK(ms)
      /\ ms[q] = Inner(-1, <<>>, <<r>>)
      /\ \A x \in DOMAIN ns : SameBody(ns, ms, x)
      /\ ms[r].parent = q
      /\ \A x \in DOMAIN ns \ {r} : ms[x].parent = ns[x].parent
  BY DEF GrowBody
<1>2. /\ ms[q].leaf = FALSE /\ ms[q].parent = -1 /\ ms[q].keys = <<>> /\ ms[q].ptrs = <<r>> /\ ms[q].next = 0
  BY <1>1 DEF Inner
<1>3. r \in DOMAIN ns /\ sp[r] = K /\ r \in PageIds /\ \A x \in DOMAIN ns : x \in PageIds /\ x # q
  BY <1>1 DEF Tree, RootAt, NodesOK
<1>4. h \in [PageIds -> Nat] /\ sp \in [PageIds -> SUBSET K] /\ rk \in [PageIds -> Nat \ {0}]
  BY DEF Tree, GhostsOK
<1>5. hh \in [PageIds -> Nat] /\ hh[q] = h[r] + 1 /\ \A x \in DOMAIN ns : hh[x] = h[x]
  BY <1>1, <1>3, <1>4 DEF GrowHeights
<1>6. sq \in [PageIds -> SUBSET K] /\ sq[q] = K /\ \A x \in DOMAIN ns : sq[x] = sp[x]
  BY <1>1, <1>3, <1>4 DEF GrowSpans
<1>7. ASSUME NEW x \in DOMAIN ns PROVE NodeAt(ms, hh, sq, x)
  <2>1. SameBody(ns, ms, x) /\ hh[x] = h[x] /\ sq[x] = sp[x]
    BY <1>1, <1>5, <1>6
  <2>2. ASSUME NEW c \in DOMAIN ns, ns[c].parent = x
        PROVE  c \in DOMAIN ms /\ ms[c].parent = x /\ hh[c] = h[c] /\ sq[c] = sp[c]
    <3>1. c # r
      BY <2>2, TreeParent
    <3>2. QED
      BY <3>1, <2>2, <1>1, <1>5, <1>6
  <2>3. QED
    BY <2>1, <2>2, NodeKept
<1>8. NodeAt(ms, hh, sq, q)
  <2>1. SpanAt(sq, q)
    <3>1. <<0, 0>> \in K
      BY DEF K
    <3>2. Convex(K)
      BY DEF Convex
    <3>3. QED
      BY <3>1, <3>2, <1>6 DEF SpanAt
  <2>2. Len(ms[q].keys) = 0 /\ Len(ms[q].ptrs) = 1 /\ ms[q].ptrs[1] = r
    BY <1>2
  <2>3. KeysAt(ms, sq, q)
    BY <2>2 DEF KeysAt, Ascending
  <2>4. Slot(K, ms[q].keys, 1) = K
    BY <2>2 DEF Slot
  <2>5. EdgeAt(ms, hh, sq, q, 1)
    BY <2>2, <2>4, <1>1, <1>3, <1>5, <1>6 DEF EdgeAt
  <2>6. \A i \in 1 .. Len(ms[q].ptrs) : EdgeAt(ms, hh, sq, q, i)
    BY <2>2, <2>5
  <2>7. InnerAt(ms, hh, sq, q)
    BY <2>2, <2>6, <1>2 DEF InnerAt
  <2>8. QED
    BY <2>1, <2>3, <2>7, <1>2 DEF NodeAt
<1>9. ASSUME NEW x \in DOMAIN ns \ {r} PROVE UpAt(ms, x)
  <2>1. ns[x].parent \in DOMAIN ns
    BY TreeUp
  <2>2. QED
    BY <2>1, <1>1, UpKept
<1>10. UpAt(ms, r)
  <2>1. Len(ms[q].ptrs) = 1 /\ ms[q].ptrs[1] = r
    BY <1>2
  <2>2. QED
    BY <2>1, <1>1, <1>2 DEF UpAt
<1>11. RootAt(ms, q, sq)
  BY <1>1, <1>2, <1>6 DEF RootAt
<1>12. ChainOK(Leaves(ms), sq, Nexts(ms), rk)
  <2>1. Leaves(ms) = Leaves(ns)
    <3>1. \A x \in DOMAIN ns : ms[x].leaf = ns[x].leaf
      BY <1>1 DEF SameBody
    <3>2. QED
      BY <3>1, <1>1, <1>2 DEF Leaves
  <2>2. \A x \in Leaves(ns) : x \in DOMAIN ns
    BY DEF Leaves
  <2>3. \A x \in Leaves(ns) : sq[x] = sp[x]
    BY <2>2, <1>6
  <2>4. \A x \in Leaves(ns) : Nexts(ms)[x] = Nexts(ns)[x]
    BY <2>1, <2>2, <1>1 DEF Nexts, SameBody
  <2>5. ChainOK(Leaves(ns), sp, Nexts(ns), rk)
    BY TreeChain
  <2>6. ChainOK(Leaves(ns), sq, Nexts(ms), rk)
    BY <2>3, <2>4, <2>5, ChainSame
  <2>7. QED
    BY <2>1, <2>6
<1>13. GhostsOK(hh, sq, rk)
  BY <1>4, <1>5, <1>6 DEF GhostsOK
<1>14. \A x \in DOMAIN ms : NodeAt(ms, hh, sq, x)
  BY <1>1, <1>7, <1>8
<1>15. \A x \in DOMAIN ms \ {q} : UpAt(ms, x)
  BY <1>1, <1>9, <1>10
<1>16. QED
  BY <1>1, <1>11, <1>12, <1>13, <1>14, <1>15 DEF Tree

\* ms is ns without its root r, which has no keys and one child c
ShrinkBody(ns, ms, r, c) ==
  /\ ~ns[r].leaf /\ ns[r].keys = <<>> /\ c = ns[r].ptrs[1]
  /\ DOMAIN ms = DOMAIN ns \ {r} /\ NodesOK(ms)
  /\ \A x \in DOMAIN ms : SameBody(ns, ms, x)
  /\ ms[c].parent = -1
  /\ \A x \in DOMAIN ms \ {c} : ms[x].parent = ns[x].parent

LEMMA ShrinkTree ==
  ASSUME NEW ns, NEW r, NEW h, NEW sp, NEW rk, Tree(ns, r, h, sp, rk),
         NEW ms, NEW c, ShrinkBody(ns, ms, r, c)
  PROVE  Tree(ms, c, h, sp, rk)
<1>1. /\ ~ns[r].leaf /\ ns[r].keys = <<>> /\ c = ns[r].ptrs[1]
      /\ DOMAIN ms = DOMAIN ns \ {r} /\ NodesOK(ms)
      /\ \A x \in DOMAIN ms : SameBody(ns, ms, x)
      /\ ms[c].parent = -1
      /\ \A x \in DOMAIN ms \ {c} : ms[x].parent = ns[x].parent
  BY DEF ShrinkBody
<1>2. r \in DOMAIN ns /\ sp[r] = K /\ Len(ns[r].keys) = 0
  BY <1>1 DEF Tree, RootAt
<1>3. 1 \in 1 .. Len(ns[r].keys) + 1
  BY <1>2
<1>4. c \in DOMAIN ns /\ ns[c].parent = r /\ c # r /\ sp[c] = Slot(sp[r], ns[r].keys, 1)
  BY <1>1, <1>2, <1>3, TreeChild
<1>5. sp[c] = K
  BY <1>2, <1>4 DEF Slot
\* It is the only child.
<1>6. \A x \in DOMAIN ns : ns[x].parent = r => x = c
  <2>1. SUFFICES ASSUME NEW x \in DOMAIN ns, ns[x].parent = r PROVE x = c
    OBVIOUS
  <2>2. PICK i \in 1 .. Len(ns[r].keys) + 1 : ns[r].ptrs[i] = x
    BY <2>1, <1>2, TreeParent
  <2>3. i = 1
    BY <1>2
  <2>4. QED
    BY <2>2, <2>3, <1>1
<1>7. ASSUME NEW x \in DOMAIN ms PROVE NodeAt(ms, h, sp, x)
  <2>1. ASSUME NEW d \in DOMAIN ns, ns[d].parent = x PROVE d \in DOMAIN ms /\ ms[d].parent = x
    <3>1. d # r /\ d # c
      BY <2>1, <1>1, <1>4, TreeParent
    <3>2. QED
      BY <3>1, <2>1, <1>1
  <2>2. QED
    BY <2>1, <1>1, NodeKept
<1>8. ASSUME NEW x \in DOMAIN ms \ {c} PROVE UpAt(ms, x)
  <2>1. ns[x].parent \in DOMAIN ns /\ ns[x].parent # r
    BY <1>1, <1>6, <1>8, TreeUp
  <2>2. QED
    BY <2>1, <1>1, UpKept
<1>9. RootAt(ms, c, sp)
  BY <1>1, <1>4, <1>5 DEF RootAt
<1>10. Leaves(ms) = Leaves(ns) /\ Nexts(ms) = Nexts(ns)
  <2>1. \A x \in DOMAIN ms : ms[x].leaf = ns[x].leaf /\ ms[x].next = ns[x].next
    BY <1>1 DEF SameBody
  <2>2. Leaves(ms) = Leaves(ns)
    BY <2>1, <1>1 DEF Leaves
  <2>3. QED
    BY <2>1, <2>2 DEF Nexts, Leaves
<1>11. GhostsOK(h, sp, rk) /\ ChainOK(Leaves(ms), sp, Nexts(ms), rk)
  BY <1>10 DEF Tree
<1>12. QED
  BY <1>1, <1>7, <1>8, <1>9, <1>11 DEF Tree

-----------------------------------------------------------------------------
(* Functions that are defined by recursion: each application is to a node   *)
(* of a lower rank.                                                         *)

LEMMA RankBound ==
  ASSUME NEW D, D \subseteq PageIds, NEW m \in [D -> Nat]
  PROVE  \E n \in Nat : \A x \in D : m[x] < n
<1> DEFINE T == {n \in Nat : \E N \in Nat : \A x \in D : x <= n => m[x] < N}
<1>1. D \subseteq Nat \ {0} /\ \A x \in D : x <= MaxPage + 1
  BY MaxPageAssumption DEF PageIds
<1>2. ASSUME NEW n \in Nat, \A k \in Nat : k < n => k \in T PROVE n \in T
  <2>1. CASE n = 0
    <3>1. \A x \in D : ~(x <= n)
      BY <2>1, <1>1
    <3>2. QED
      BY <3>1
  <2>2. CASE n # 0
    <3>1. n - 1 \in T
      BY <2>2, <1>2
    <3>2. PICK N \in Nat : \A x \in D : x <= n - 1 => m[x] < N
      BY <3>1
    <3>3. PICK M \in Nat : N <= M /\ (n \in D => m[n] < M)
      <4>1. CASE n \in D
        <5>1. m[n] \in Nat
          BY <4>1
        <5>2. N + m[n] + 1 \in Nat /\ N <= N + m[n] + 1 /\ m[n] < N + m[n] + 1
          BY <5>1
        <5>3. QED
          BY <5>2
      <4>2. CASE n \notin D
        BY <4>2
      <4>3. QED
        BY <4>1, <4>2
    <3>4. ASSUME NEW x \in D, x <= n PROVE m[x] < M
      <4>1. x \in Nat /\ m[x] \in Nat
        BY <1>1
      <4>2. x = n \/ x <= n - 1
        BY <4>1, <3>4
      <4>3. QED
        BY <4>1, <4>2, <3>2, <3>3
    <3>5. QED
      BY <3>4
  <2>3. QED
    BY <2>1, <2>2
<1>3. Nat \subseteq T
  <2> HIDE DEF T
  <2>1. QED
    BY <1>2, Induction
<1>4. MaxPage + 1 \in T
  BY <1>3, MaxPageAssumption
<1>5. QED
  BY <1>1, <1>4

\* From node to node, as far as a node of F
StepsDown(D, F, g, m) ==
  /\ D \subseteq PageIds /\ F \subseteq D
  /\ g \in [D -> D] /\ m \in [D -> Nat]
  /\ \A x \in D \ F : m[g[x]] < m[x]

DescentOn(D, F, g, f, x) == f[x] = IF x \in F THEN x ELSE f[g[x]]

LEMMA DescentExists ==
  ASSUME NEW D, NEW F, NEW g, NEW m, StepsDown(D, F, g, m)
  PROVE  \E f \in [D -> D] : \A x \in D : DescentOn(D, F, g, f, x)
<1> DEFINE T == {n \in Nat : \E f \in [D -> D] : \A x \in D : m[x] < n => DescentOn(D, F, g, f, x)}
<1>1. /\ F \subseteq D /\ D \subseteq PageIds /\ m \in [D -> Nat] /\ \A x \in D : g[x] \in D /\ m[x] \in Nat
      /\ \A x \in D \ F : m[g[x]] < m[x]
  BY DEF StepsDown
<1>2. ASSUME NEW n \in Nat, \A k \in Nat : k < n => k \in T PROVE n \in T
  <2>1. CASE n = 0
    <3>1. [x \in D |-> x] \in [D -> D] /\ \A x \in D : ~(m[x] < n)
      BY <2>1, <1>1
    <3>2. QED
      BY <3>1
  <2>2. CASE n # 0
    <3>1. n - 1 \in T /\ n - 1 \in Nat
      BY <2>2, <1>2
    <3>2. PICK f \in [D -> D] : \A x \in D : m[x] < n - 1 => DescentOn(D, F, g, f, x)
      BY <3>1
    <3>3. PICK e : e = [x \in D |-> IF x \in F THEN x ELSE f[g[x]]]
      OBVIOUS
    <3>4. e \in [D -> D] /\ \A x \in D : e[x] = IF x \in F THEN x ELSE f[g[x]]
      BY <3>3, <1>1
    <3>5. ASSUME NEW x \in D, m[x] < n PROVE DescentOn(D, F, g, e, x)
      <4>1. CASE x \in F
        BY <4>1, <3>4 DEF DescentOn
      <4>2. CASE x \notin F
        <5>1. PICK y : y = g[x]
          OBVIOUS
        <5>2. y \in D /\ m[y] \in Nat /\ m[x] \in Nat /\ m[y] < m[x]
          BY <5>1, <4>2, <1>1
        <5>3. m[y] < n - 1
          BY <5>2, <3>5
        <5>4. f[y] = IF y \in F THEN y ELSE f[g[y]]
          BY <5>2, <5>3, <3>2 DEF DescentOn
        <5>5. e[y] = f[y]
          BY <5>2, <5>4, <3>4
        <5>6. e[x] = f[y]
          BY <5>1, <4>2, <3>4
        <5>7. QED
          BY <5>1, <5>5, <5>6, <4>2 DEF DescentOn
      <4>3. QED
        BY <4>1, <4>2
    <3>6. QED
      BY <3>4, <3>5
  <2>3. QED
    BY <2>1, <2>2
<1>3. PICK n \in Nat : \A x \in D : m[x] < n
  BY <1>1, RankBound
<1>4. n \in T
  <2> HIDE DEF T
  <2>1. QED
    BY <1>2, Induction
<1>5. QED
  BY <1>3, <1>4

\* A set that no step leaves is not left.
LEMMA DescentStays ==
  ASSUME NEW D, NEW F, NEW g, NEW m, StepsDown(D, F, g, m),
         NEW f, \A x \in D : DescentOn(D, F, g, f, x),
         NEW X, X \subseteq D, \A x \in X \ F : g[x] \in X
  PROVE  \A x \in X : f[x] \in X /\ f[x] \in F
<1> DEFINE T == {n \in Nat : \A x \in X : m[x] = n => f[x] \in X /\ f[x] \in F}
<1>1. /\ \A x \in D : m[x] \in Nat
      /\ \A x \in D \ F : m[g[x]] < m[x]
  BY DEF StepsDown
<1>2. ASSUME NEW n \in Nat, \A k \in Nat : k < n => k \in T PROVE n \in T
  <2>1. SUFFICES ASSUME NEW x \in X, m[x] = n PROVE f[x] \in X /\ f[x] \in F
    OBVIOUS
  <2>2. CASE x \in F
    BY <2>2 DEF DescentOn
  <2>3. CASE x \notin F
    <3>1. PICK y : y = g[x]
      OBVIOUS
    <3>2. y \in X /\ m[y] < n /\ m[y] \in Nat
      BY <2>1, <2>3, <3>1, <1>1
    <3>3. m[y] \in T
      BY <3>2, <1>2
    <3>4. f[y] \in X /\ f[y] \in F
      BY <3>2, <3>3
    <3>5. f[x] = f[y]
      BY <2>3, <3>1 DEF DescentOn
    <3>6. QED
      BY <3>4, <3>5
  <2>4. QED
    BY <2>2, <2>3
<1>3. Nat \subseteq T
  <2> HIDE DEF T
  <2>1. QED
    BY <1>2, Induction
<1>4. QED
  BY <1>1, <1>3

-----------------------------------------------------------------------------
(* Finding a leaf *)

LEMMA LeafHeights ==
  ASSUME NEW ns, NEW r, NEW h, NEW sp, NEW rk, Tree(ns, r, h, sp, rk),
         NEW g, g \in [DOMAIN ns -> DOMAIN ns],
         \A x \in DOMAIN ns \ Leaves(ns) :
           \E i \in 1 .. Len(ns[x].keys) + 1 : g[x] = ns[x].ptrs[i],
         NEW m, m = [x \in DOMAIN ns |-> h[x]]
  PROVE  StepsDown(DOMAIN ns, Leaves(ns), g, m)
<1>1. DOMAIN ns \subseteq PageIds /\ Leaves(ns) \subseteq DOMAIN ns
  BY DEF Tree, NodesOK, Leaves
<1>2. \A x \in DOMAIN ns : h[x] \in Nat
  BY TreeNode DEF TypeAt
<1>3. m \in [DOMAIN ns -> Nat]
  BY <1>2
<1>4. ASSUME NEW x \in DOMAIN ns \ Leaves(ns) PROVE m[g[x]] < m[x]
  <2>1. PICK i \in 1 .. Len(ns[x].keys) + 1 : g[x] = ns[x].ptrs[i]
    OBVIOUS
  <2>2. ~ns[x].leaf
    BY DEF Leaves
  <2>3. g[x] \in DOMAIN ns /\ h[g[x]] + 1 = h[x]
    BY <2>1, <2>2, TreeChild
  <2>4. h[g[x]] \in Nat /\ h[x] \in Nat
    BY <2>3, <1>2
  <2>5. QED
    BY <2>3, <2>4
<1>5. QED
  BY <1>1, <1>3, <1>4 DEF StepsDown

\* The step of find_leaf, and of the walk to the first leaf
StepTo(k) ==
  [x \in DOMAIN nodes |-> IF nodes[x].leaf THEN x ELSE nodes[x].ptrs[PlaceOf(nodes[x].keys, k)]]
StepLeft == [x \in DOMAIN nodes |-> IF nodes[x].leaf THEN x ELSE nodes[x].ptrs[1]]

LEMMA FindLeafIs ==
  ASSUME NEW h, NEW sp, NEW rk, Tree(nodes, root, h, sp, rk), Eps = 1, NEW k \in K
  PROVE  FindLeaf(k) \in Leaves(nodes) /\ k \in sp[FindLeaf(k)]
<1>1. PICK D, F, g, m : /\ D = DOMAIN nodes /\ F = Leaves(nodes) /\ g = StepTo(k)
                        /\ m = [x \in DOMAIN nodes |-> h[x]]
  OBVIOUS
<1>2. ASSUME NEW x \in D \ F
      PROVE  /\ \E i \in 1 .. Len(nodes[x].keys) + 1 : g[x] = nodes[x].ptrs[i]
             /\ g[x] \in D
             /\ k \in sp[x] => k \in sp[g[x]]
  <2>1. x \in DOMAIN nodes /\ ~nodes[x].leaf
    BY <1>1 DEF Leaves
  <2>2. PICK keys, i : keys = nodes[x].keys /\ i = PlaceOf(keys, k)
    OBVIOUS
  <2>3. keys \in Seq(K)
    BY <2>1, <2>2, TreeNode
  <2>4. /\ i \in 1 .. Len(keys) + 1
        /\ i <= Len(keys) => Lt(k, keys[i])
        /\ \A j \in 1 .. Len(keys) : j < i => ~Lt(k, keys[j])
    BY <2>2, <2>3, PlaceOfSlot
  <2>5. g[x] = nodes[x].ptrs[i]
    BY <2>1, <2>2, <1>1 DEF StepTo
  <2>6. g[x] \in D /\ sp[g[x]] = Slot(sp[x], keys, i)
    BY <2>1, <2>2, <2>4, <2>5, <1>1, TreeChild
  <2>7. i > 1 => ~Lt(k, keys[i - 1])
    <3>1. Len(keys) \in Nat
      BY <2>3
    <3>2. i > 1 => i - 1 \in 1 .. Len(keys) /\ i - 1 < i
      BY <3>1, <2>4
    <3>3. QED
      BY <3>2, <2>4
  <2>8. k \in sp[x] => k \in Slot(sp[x], keys, i)
    BY <2>4, <2>7 DEF Slot
  <2>9. QED
    BY <2>2, <2>4, <2>5, <2>6, <2>8
<1>3. g \in [DOMAIN nodes -> DOMAIN nodes]
  <2>1. g = [x \in D |-> g[x]]
    BY <1>1 DEF StepTo
  <2>2. \A x \in F : g[x] = x
    BY <1>1 DEF StepTo, Leaves
  <2>3. \A x \in D : g[x] \in D
    BY <2>2, <1>2
  <2>4. QED
    BY <2>1, <2>3, <1>1
<1>4. StepsDown(D, F, g, m)
  BY <1>1, <1>2, <1>3, LeafHeights
<1>5. F \subseteq D
  BY <1>1 DEF Leaves
<1> DEFINE IsDown(f) == f = [p \in DOMAIN nodes |->
                               IF nodes[p].leaf THEN p
                               ELSE f[nodes[p].ptrs[PlaceOf(nodes[p].keys, k)]]]
<1>6. PICK f : f = CHOOSE d : IsDown(d)
  OBVIOUS
<1>7. FindLeaf(k) = f[root]
  BY <1>6 DEF FindLeaf
<1>8. \E d : IsDown(d)
  <2>1. PICK d \in [D -> D] : \A x \in D : DescentOn(D, F, g, d, x)
    BY <1>4, DescentExists
  <2>2. ASSUME NEW x \in D
        PROVE  d[x] = IF nodes[x].leaf THEN x ELSE d[nodes[x].ptrs[PlaceOf(nodes[x].keys, k)]]
    BY <2>1, <1>1 DEF DescentOn, StepTo, Leaves
  <2>3. IsDown(d)
    BY <2>1, <2>2, <1>1
  <2>4. QED
    BY <2>3
<1>9. IsDown(f)
  BY <1>6, <1>8
<1>10. \A x \in D : DescentOn(D, F, g, f, x)
  <2>1. ASSUME NEW x \in D
        PROVE  f[x] = IF nodes[x].leaf THEN x ELSE f[nodes[x].ptrs[PlaceOf(nodes[x].keys, k)]]
    BY <1>1, <1>9
  <2>2. ASSUME NEW x \in D PROVE DescentOn(D, F, g, f, x)
    <3> HIDE DEF IsDown
    <3>1. QED
      BY <2>1, <1>1 DEF DescentOn, StepTo, Leaves
  <2>3. QED
    BY <2>2
<1>11. PICK X : X = {x \in D : k \in sp[x]}
  OBVIOUS
<1>12. X \subseteq D /\ \A x \in X \ F : g[x] \in X
  BY <1>2, <1>11
<1>13. \A x \in X : f[x] \in X /\ f[x] \in F
  <2> HIDE DEF IsDown
  <2>1. QED
    BY <1>4, <1>10, <1>12, DescentStays
<1>14. root \in X
  BY <1>1, <1>11 DEF Tree, RootAt
<1>15. QED
  BY <1>1, <1>7, <1>11, <1>13, <1>14

\* No key is before a key of S and not in it.
Initial(S) == \A a \in S, b \in K : Lt(b, a) => b \in S

LEMMA FirstLeafIs ==
  ASSUME NEW h, NEW sp, NEW rk, Tree(nodes, root, h, sp, rk)
  PROVE  FirstLeaf = FirstPage
<1>1. PICK D, F, g, m : /\ D = DOMAIN nodes /\ F = Leaves(nodes) /\ g = StepLeft
                        /\ m = [x \in DOMAIN nodes |-> h[x]]
  OBVIOUS
<1>2. ASSUME NEW x \in D \ F
      PROVE  /\ \E i \in 1 .. Len(nodes[x].keys) + 1 : g[x] = nodes[x].ptrs[i]
             /\ g[x] \in D
             /\ Initial(sp[x]) => Initial(sp[g[x]])
  <2>1. x \in DOMAIN nodes /\ ~nodes[x].leaf
    BY <1>1 DEF Leaves
  <2>2. PICK keys, S : keys = nodes[x].keys /\ S = sp[x]
    OBVIOUS
  <2>3. keys \in Seq(K) /\ S \in SUBSET K
    BY <2>1, <2>2, TreeNode DEF TypeAt
  <2>4. 1 \in 1 .. Len(keys) + 1
    BY <2>3
  <2>5. g[x] = nodes[x].ptrs[1]
    BY <2>1, <1>1 DEF StepLeft
  <2>6. g[x] \in D /\ sp[g[x]] = Slot(S, keys, 1)
    BY <2>1, <2>2, <2>4, <2>5, <1>1, TreeChild
  <2>7. ASSUME Initial(S), NEW a \in Slot(S, keys, 1), NEW b \in K, Lt(b, a) PROVE b \in Slot(S, keys, 1)
    <3>1. a \in S /\ a \in K
      BY <2>3 DEF Slot
    <3>2. b \in S
      BY <3>1, <2>7 DEF Initial
    <3>3. 1 <= Len(keys) => Lt(b, keys[1])
      <4>1. SUFFICES ASSUME 1 <= Len(keys) PROVE Lt(b, keys[1])
        OBVIOUS
      <4>2. keys[1] \in K /\ Lt(a, keys[1])
        BY <4>1, <2>3 DEF Slot
      <4>3. QED
        BY <4>2, <3>1, <2>7, LtOrder
    <3>4. QED
      BY <3>2, <3>3 DEF Slot
  <2>8. Initial(sp[x]) => Initial(sp[g[x]])
    BY <2>2, <2>6, <2>7 DEF Initial
  <2>9. QED
    BY <2>2, <2>4, <2>5, <2>6, <2>8
<1>3. g \in [DOMAIN nodes -> DOMAIN nodes]
  <2>1. g = [x \in D |-> g[x]]
    BY <1>1 DEF StepLeft
  <2>2. \A x \in F : g[x] = x
    BY <1>1 DEF StepLeft, Leaves
  <2>3. \A x \in D : g[x] \in D
    BY <2>2, <1>2
  <2>4. QED
    BY <2>1, <2>3, <1>1
<1>4. StepsDown(D, F, g, m)
  BY <1>1, <1>2, <1>3, LeafHeights
<1>5. F \subseteq D
  BY <1>1 DEF Leaves
<1> DEFINE IsDown(f) == f = [p \in DOMAIN nodes |-> IF nodes[p].leaf THEN p ELSE f[nodes[p].ptrs[1]]]
<1>6. PICK f : f = CHOOSE d : IsDown(d)
  OBVIOUS
<1>7. FirstLeaf = f[root]
  BY <1>6 DEF FirstLeaf
<1>8. \E d : IsDown(d)
  <2>1. PICK d \in [D -> D] : \A x \in D : DescentOn(D, F, g, d, x)
    BY <1>4, DescentExists
  <2>2. ASSUME NEW x \in D PROVE d[x] = IF nodes[x].leaf THEN x ELSE d[nodes[x].ptrs[1]]
    BY <2>1, <1>1 DEF DescentOn, StepLeft, Leaves
  <2>3. IsDown(d)
    BY <2>1, <2>2, <1>1
  <2>4. QED
    BY <2>3
<1>9. IsDown(f)
  BY <1>6, <1>8
<1>10. \A x \in D : DescentOn(D, F, g, f, x)
  <2>1. ASSUME NEW x \in D PROVE f[x] = IF nodes[x].leaf THEN x ELSE f[nodes[x].ptrs[1]]
    BY <1>1, <1>9
  <2>2. ASSUME NEW x \in D PROVE DescentOn(D, F, g, f, x)
    <3> HIDE DEF IsDown
    <3>1. QED
      BY <2>1, <1>1 DEF DescentOn, StepLeft, Leaves
  <2>3. QED
    BY <2>2
<1>11. PICK X : X = {x \in D : Initial(sp[x])}
  OBVIOUS
<1>12. X \subseteq D /\ \A x \in X \ F : g[x] \in X
  BY <1>2, <1>11
<1>13. \A x \in X : f[x] \in X /\ f[x] \in F
  <2> HIDE DEF IsDown
  <2>1. QED
    BY <1>4, <1>10, <1>12, DescentStays
<1>14. root \in X
  BY <1>1, <1>11 DEF Tree, RootAt, Initial
<1>15. PICK p : p = f[root]
  OBVIOUS
<1>16. p \in F /\ Initial(sp[p])
  BY <1>11, <1>13, <1>14, <1>15
<1>17. SUFFICES ASSUME p # FirstPage PROVE FALSE
  BY <1>7, <1>15
<1>18. FirstPage \in F /\ Before(sp[FirstPage], sp[p])
  BY <1>1, <1>16, <1>17 DEF Tree, ChainOK
<1>19. \A x \in F : sp[x] \in SUBSET K /\ sp[x] # {}
  <2>1. \A x \in F : x \in DOMAIN nodes
    BY <1>1, <1>5
  <2>2. QED
    BY <2>1, TreeNode DEF TypeAt
<1>20. PICK b \in sp[FirstPage], a \in sp[p] : TRUE
  BY <1>16, <1>18, <1>19
<1>21. b \in K /\ Lt(b, a)
  BY <1>18, <1>19, <1>20 DEF Before
<1>22. b \in sp[p]
  BY <1>16, <1>20, <1>21 DEF Initial
<1>23. Lt(b, b)
  BY <1>18, <1>20, <1>22 DEF Before
<1>24. QED
  BY <1>21, <1>23, LtOrder

-----------------------------------------------------------------------------
(* Walking along the leaves *)

Walk(ns, f, x) == <<x>> \o IF ns[x].next \in DOMAIN ns THEN f[ns[x].next] ELSE <<>>

ChainRank(ns, rk) == [x \in DOMAIN ns |-> IF ns[x].leaf THEN rk[x] ELSE 0]

LEMMA NextRank ==
  ASSUME NEW ns, NEW r, NEW h, NEW sp, NEW rk, Tree(ns, r, h, sp, rk),
         NEW m, m = ChainRank(ns, rk)
  PROVE  /\ m \in [DOMAIN ns -> Nat]
         /\ \A x \in DOMAIN ns : ns[x].next \in DOMAIN ns =>
              /\ x \in Leaves(ns) /\ ns[x].next \in Leaves(ns) /\ m[ns[x].next] < m[x]
              /\ Before(sp[x], sp[ns[x].next])
              /\ \A z \in Leaves(ns) \ {x, ns[x].next} : Before(sp[z], sp[x]) \/ Before(sp[ns[x].next], sp[z])
         /\ \A x \in Leaves(ns) : ns[x].next \notin DOMAIN ns =>
              \A z \in Leaves(ns) \ {x} : Before(sp[z], sp[x])
<1>1. \A x \in DOMAIN ns : rk[x] \in Nat /\ x \in PageIds
  BY TreeNode DEF TypeAt
<1>2. m \in [DOMAIN ns -> Nat]
  BY <1>1 DEF ChainRank
<1>3. 0 \notin DOMAIN ns
  BY <1>1 DEF PageIds
<1>4. ASSUME NEW x \in Leaves(ns) PROVE x \in DOMAIN ns /\ Nexts(ns)[x] = ns[x].next /\ m[x] = rk[x]
  BY DEF Leaves, Nexts, ChainRank
<1>5. ASSUME NEW x \in DOMAIN ns, ns[x].next \in DOMAIN ns
      PROVE  /\ x \in Leaves(ns) /\ ns[x].next \in Leaves(ns) /\ m[ns[x].next] < m[x]
             /\ Before(sp[x], sp[ns[x].next])
             /\ \A z \in Leaves(ns) \ {x, ns[x].next} : Before(sp[z], sp[x]) \/ Before(sp[ns[x].next], sp[z])
  <2>1. x \in Leaves(ns)
    BY <1>3, <1>5, TreeEdge DEF Leaves
  <2>2. PICK n : n = ns[x].next
    OBVIOUS
  <2>3. Nexts(ns)[x] = n /\ n # 0 /\ m[x] = rk[x]
    BY <2>1, <2>2, <1>3, <1>4, <1>5
  <2>4. NextAt(Leaves(ns), sp, Nexts(ns), rk, x)
    BY <2>1 DEF Tree, ChainOK
  <2>5. /\ n \in Leaves(ns) /\ rk[n] < rk[x] /\ Before(sp[x], sp[n])
        /\ \A z \in Leaves(ns) \ {x, n} : Before(sp[z], sp[x]) \/ Before(sp[n], sp[z])
    BY <2>3, <2>4 DEF NextAt
  <2>6. m[n] = rk[n]
    BY <2>5, <1>4
  <2>7. QED
    BY <2>1, <2>2, <2>3, <2>5, <2>6
<1>6. ASSUME NEW x \in Leaves(ns), ns[x].next \notin DOMAIN ns, NEW z \in Leaves(ns) \ {x}
      PROVE  Before(sp[z], sp[x])
  <2>1. NextAt(Leaves(ns), sp, Nexts(ns), rk, x) /\ Nexts(ns)[x] \notin Leaves(ns)
    BY <1>4, <1>6 DEF Tree, ChainOK, Leaves
  <2>2. QED
    BY <2>1 DEF NextAt
<1>7. QED
  BY <1>2, <1>5, <1>6

LEMMA WalkExists ==
  ASSUME NEW ns, NEW r, NEW h, NEW sp, NEW rk, Tree(ns, r, h, sp, rk)
  PROVE  \E f \in [DOMAIN ns -> Seq(DOMAIN ns)] : \A x \in DOMAIN ns : f[x] = Walk(ns, f, x)
<1>1. PICK m : m = ChainRank(ns, rk)
  OBVIOUS
<1>2. /\ m \in [DOMAIN ns -> Nat]
      /\ \A x \in DOMAIN ns : ns[x].next \in DOMAIN ns => m[ns[x].next] < m[x]
  BY <1>1, NextRank
<1>3. PICK D : D = DOMAIN ns
  OBVIOUS
<1>4. D \subseteq PageIds /\ m \in [D -> Nat] /\ \A x \in D : m[x] \in Nat
  BY <1>2, <1>3 DEF Tree, NodesOK
<1>20. \A f \in [D -> Seq(D)], x \in D : Walk(ns, f, x) \in Seq(D)
  <2>1. SUFFICES ASSUME NEW f \in [D -> Seq(D)], NEW x \in D PROVE Walk(ns, f, x) \in Seq(D)
    OBVIOUS
  <2>2. PICK t : t = IF ns[x].next \in D THEN f[ns[x].next] ELSE <<>>
    OBVIOUS
  <2>3. t \in Seq(D)
    BY <2>2
  <2>4. <<x>> \o t \in Seq(D)
    BY <2>3
  <2>5. QED
    BY <2>2, <2>4, <1>3 DEF Walk
<1> DEFINE T == {n \in Nat : \E f \in [D -> Seq(D)] : \A x \in D : m[x] < n => f[x] = Walk(ns, f, x)}
<1>5. ASSUME NEW n \in Nat, \A k \in Nat : k < n => k \in T PROVE n \in T
  <2>1. CASE n = 0
    <3>1. [x \in D |-> <<>>] \in [D -> Seq(D)] /\ \A x \in D : ~(m[x] < n)
      BY <2>1, <1>4
    <3>2. QED
      BY <3>1
  <2>2. CASE n # 0
    <3>1. n - 1 \in T /\ n - 1 \in Nat
      <4>1. n - 1 \in Nat /\ n - 1 < n
        BY <2>2
      <4> HIDE DEF T
      <4>2. QED
        BY <4>1, <1>5
    <3>2. PICK f \in [D -> Seq(D)] : \A x \in D : m[x] < n - 1 => f[x] = Walk(ns, f, x)
      BY <3>1
    <3>3. PICK e : e = [x \in D |-> Walk(ns, f, x)]
      OBVIOUS
    <3>4. e \in [D -> Seq(D)] /\ \A x \in D : e[x] = Walk(ns, f, x)
      BY <3>3, <1>20
    <3>5. ASSUME NEW x \in D, m[x] < n PROVE e[x] = Walk(ns, e, x)
      <4>1. CASE ns[x].next \in D
        <5>1. PICK y : y = ns[x].next
          OBVIOUS
        <5>2. y \in D /\ m[y] < m[x] /\ m[y] \in Nat /\ m[x] \in Nat
          BY <5>1, <4>1, <1>2, <1>3, <1>4
        <5>3. m[y] < n - 1
          BY <5>2, <3>5
        <5>4. e[y] = f[y]
          BY <5>2, <5>3, <3>2, <3>4
        <5>5. Walk(ns, e, x) = Walk(ns, f, x)
          BY <5>1, <5>4 DEF Walk
        <5>6. QED
          BY <5>5, <3>4
      <4>2. CASE ns[x].next \notin D
        <5>1. Walk(ns, e, x) = Walk(ns, f, x)
          BY <4>2, <1>3 DEF Walk
        <5>2. QED
          BY <5>1, <3>4
      <4>3. QED
        BY <4>1, <4>2
    <3>6. QED
      BY <3>4, <3>5
  <2>3. QED
    BY <2>1, <2>2
<1>6. PICK n \in Nat : \A x \in D : m[x] < n
  BY <1>4, RankBound
<1>7. n \in T
  <2> HIDE DEF T
  <2>1. QED
    BY <1>5, Induction
<1>8. QED
  BY <1>3, <1>6, <1>7

\* The walk s from the leaf p: the leaves from p on, in order
WalkOf(ns, sp, p, s) ==
  /\ s \in Seq(Leaves(ns)) /\ Len(s) >= 1 /\ s[1] = p
  /\ \A a, b \in 1 .. Len(s) : a < b => Before(sp[s[a]], sp[s[b]])
  /\ \A x \in Leaves(ns) : Before(sp[p], sp[x]) => \E a \in 1 .. Len(s) : s[a] = x

LEMMA WalkStep ==
  ASSUME NEW ns, NEW r, NEW h, NEW sp, NEW rk, Tree(ns, r, h, sp, rk),
         NEW p \in Leaves(ns), NEW n \in Leaves(ns), NEW t, WalkOf(ns, sp, n, t),
         Before(sp[p], sp[n]),
         \A z \in Leaves(ns) \ {p, n} : Before(sp[z], sp[p]) \/ Before(sp[n], sp[z]),
         NEW s, s = <<p>> \o t
  PROVE  WalkOf(ns, sp, p, s)
<1>1. PICK L : L = Leaves(ns)
  OBVIOUS
<1>2. /\ t \in Seq(L) /\ Len(t) >= 1 /\ t[1] = n
      /\ \A a, b \in 1 .. Len(t) : a < b => Before(sp[t[a]], sp[t[b]])
      /\ \A x \in L : Before(sp[n], sp[x]) => \E a \in 1 .. Len(t) : t[a] = x
  BY <1>1 DEF WalkOf
<1>3. /\ \A x, y \in L : Before(sp[x], sp[y]) => ~Before(sp[y], sp[x]) /\ x # y
      /\ \A x, y, z \in L : Before(sp[x], sp[y]) /\ Before(sp[y], sp[z]) => Before(sp[x], sp[z])
  <2>1. ChainGhosts(L, sp, rk)
    BY <1>1, TreeChain
  <2>2. QED
    BY <2>1, ChainOrder
<1>4. /\ s \in Seq(L) /\ Len(s) = Len(t) + 1 /\ s[1] = p /\ Len(t) \in Nat
      /\ \A j \in 1 .. Len(t) : s[j + 1] = t[j]
  <2>1. p \in L /\ <<p>> \in Seq(L) /\ Len(<<p>>) = 1 /\ <<p>>[1] = p
    BY <1>1
  <2>2. PICK u : u = <<p>>
    OBVIOUS
  <2>3. u \in Seq(L) /\ Len(u) = 1 /\ u[1] = p /\ s = u \o t
    BY <2>1, <2>2
  <2>4. s \in Seq(L) /\ CatSeq(u, t, s)
    BY <2>3, <1>2, Catenated
  <2>5. Len(t) \in Nat
    BY <1>2
  <2>6. /\ Len(s) = 1 + Len(t)
        /\ \A j \in 1 .. 1 + Len(t) : s[j] = IF j <= 1 THEN u[j] ELSE t[j - 1]
    BY <2>3, <2>4 DEF CatSeq
  <2>7. ASSUME NEW j \in 1 .. Len(t) PROVE s[j + 1] = t[j]
    <3>1. j + 1 \in 1 .. 1 + Len(t) /\ ~(j + 1 <= 1) /\ (j + 1) - 1 = j
      BY <2>5
    <3>2. QED
      BY <3>1, <2>6
  <2>8. QED
    BY <2>3, <2>4, <2>5, <2>6, <2>7
<1>5. \A j \in 1 .. Len(t) : t[j] \in L /\ Before(sp[p], sp[t[j]])
  <2>1. SUFFICES ASSUME NEW j \in 1 .. Len(t) PROVE t[j] \in L /\ Before(sp[p], sp[t[j]])
    OBVIOUS
  <2>2. t[j] \in L /\ (j = 1 \/ 1 < j) /\ 1 \in 1 .. Len(t)
    BY <1>2, <1>4
  <2>3. j = 1 \/ Before(sp[n], sp[t[j]])
    BY <2>2, <1>2
  <2>4. QED
    BY <2>2, <2>3, <1>1, <1>2, <1>3
<1>6. ASSUME NEW a \in 1 .. Len(s), NEW b \in 1 .. Len(s), a < b PROVE Before(sp[s[a]], sp[s[b]])
  <2>1. PICK d : d = b - 1
    OBVIOUS
  <2>2. d \in 1 .. Len(t) /\ s[b] = t[d]
    <3>1. d \in 1 .. Len(t) /\ d + 1 = b
      BY <2>1, <1>4, <1>6
    <3>2. QED
      BY <3>1, <1>4
  <2>3. CASE a = 1
    BY <2>2, <2>3, <1>4, <1>5
  <2>4. CASE a # 1
    <3>1. PICK c : c = a - 1
      OBVIOUS
    <3>2. c \in 1 .. Len(t) /\ c + 1 = a /\ c < d
      BY <3>1, <2>1, <2>4, <1>4, <1>6
    <3>3. s[a] = t[c]
      BY <3>2, <1>4
    <3>4. QED
      BY <3>2, <3>3, <2>2, <1>2
  <2>5. QED
    BY <2>3, <2>4
<1>7. ASSUME NEW x \in L, Before(sp[p], sp[x]) PROVE \E a \in 1 .. Len(s) : s[a] = x
  <2>1. x = n \/ Before(sp[n], sp[x])
    BY <1>1, <1>3, <1>7
  <2>2. PICK c \in 1 .. Len(t) : t[c] = x
    BY <2>1, <1>2, <1>4
  <2>3. c + 1 \in 1 .. Len(s) /\ s[c + 1] = x
    BY <2>2, <1>4
  <2>4. QED
    BY <2>3
<1>8. s \in Seq(Leaves(ns)) /\ Len(s) >= 1
  BY <1>1, <1>4
<1>9. QED
  BY <1>1, <1>4, <1>6, <1>7, <1>8 DEF WalkOf

LEMMA WalkIs ==
  ASSUME NEW ns, NEW r, NEW h, NEW sp, NEW rk, Tree(ns, r, h, sp, rk),
         NEW f, \A x \in Leaves(ns) : f[x] = Walk(ns, f, x)
  PROVE  \A p \in Leaves(ns) : WalkOf(ns, sp, p, f[p])
<1>1. PICK m : m = ChainRank(ns, rk)
  OBVIOUS
<1>2. /\ m \in [DOMAIN ns -> Nat]
      /\ \A x \in DOMAIN ns : ns[x].next \in DOMAIN ns =>
           /\ x \in Leaves(ns) /\ ns[x].next \in Leaves(ns) /\ m[ns[x].next] < m[x]
           /\ Before(sp[x], sp[ns[x].next])
           /\ \A z \in Leaves(ns) \ {x, ns[x].next} : Before(sp[z], sp[x]) \/ Before(sp[ns[x].next], sp[z])
      /\ \A x \in Leaves(ns) : ns[x].next \notin DOMAIN ns =>
           \A z \in Leaves(ns) \ {x} : Before(sp[z], sp[x])
  BY <1>1, NextRank
<1>3. \A p \in Leaves(ns) : p \in DOMAIN ns /\ m[p] \in Nat
  BY <1>2 DEF Leaves
<1> DEFINE T == {n \in Nat : \A p \in Leaves(ns) : m[p] = n => WalkOf(ns, sp, p, f[p])}
<1>4. ASSUME NEW n \in Nat, \A k \in Nat : k < n => k \in T PROVE n \in T
  <2>1. SUFFICES ASSUME NEW p \in Leaves(ns), m[p] = n PROVE WalkOf(ns, sp, p, f[p])
    OBVIOUS
  <2>2. f[p] = Walk(ns, f, p) /\ p \in DOMAIN ns
    BY <1>3
  <2>3. CASE ns[p].next \in DOMAIN ns
    <3>1. PICK q : q = ns[p].next
      OBVIOUS
    <3>2. /\ q \in Leaves(ns) /\ m[q] < m[p] /\ Before(sp[p], sp[q])
          /\ \A z \in Leaves(ns) \ {p, q} : Before(sp[z], sp[p]) \/ Before(sp[q], sp[z])
      BY <2>2, <2>3, <3>1, <1>2
    <3>3. m[q] \in T
      BY <3>2, <2>1, <1>3, <1>4
    <3>4. WalkOf(ns, sp, q, f[q])
      BY <3>2, <3>3
    <3>5. f[p] = <<p>> \o f[q]
      BY <2>2, <2>3, <3>1 DEF Walk
    <3>6. QED
      <4> HIDE DEF T
      <4>1. QED
        BY <3>2, <3>4, <3>5, WalkStep
  <2>4. CASE ns[p].next \notin DOMAIN ns
    <3>1. f[p] = <<p>>
      BY <2>2, <2>4 DEF Walk
    <3>2. <<p>> \in Seq(Leaves(ns)) /\ Len(<<p>>) = 1 /\ <<p>>[1] = p
      OBVIOUS
    <3>3. ASSUME NEW x \in Leaves(ns), Before(sp[p], sp[x]) PROVE x = p
      <4>1. SUFFICES ASSUME x # p PROVE FALSE
        OBVIOUS
      <4>2. Before(sp[x], sp[p])
        BY <4>1, <2>4, <1>2
      <4>3. ChainGhosts(Leaves(ns), sp, rk)
        BY TreeChain
      <4>4. QED
        BY <4>2, <4>3, <3>3, ChainOrder
    <3>4. \A a, b \in 1 .. Len(<<p>>) : ~(a < b)
      BY <3>2
    <3>5. QED
      BY <3>1, <3>2, <3>3, <3>4 DEF WalkOf
  <2>5. QED
    BY <2>3, <2>4
<1>5. Nat \subseteq T
  <2> HIDE DEF T
  <2>1. QED
    BY <1>4, Induction
<1>6. QED
  BY <1>3, <1>5

\* ws has the leaves of ns
SameLeaves(ns, ws) ==
  /\ DOMAIN ns \subseteq DOMAIN ws /\ Leaves(ws) = Leaves(ns)
  /\ \A x \in DOMAIN ns : ws[x].next = ns[x].next
  /\ \A x \in Leaves(ns) : ws[x].keys = ns[x].keys /\ ws[x].ptrs = ns[x].ptrs

LEMMA ChainIs ==
  ASSUME NEW ws, NEW r, NEW h, NEW sp, NEW rk, Tree(ws, r, h, sp, rk), SameLeaves(nodes, ws),
         NEW p \in Leaves(nodes)
  PROVE  WalkOf(ws, sp, p, Chain(p))
<1> DEFINE IsFrom(f) == f = [q \in DOMAIN nodes |->
                               <<q>> \o IF nodes[q].next \in DOMAIN nodes THEN f[nodes[q].next] ELSE <<>>]
<1>1. PICK f : f = CHOOSE d : IsFrom(d)
  OBVIOUS
<1>2. Chain(p) = f[p]
  BY <1>1 DEF Chain
<1>3. /\ DOMAIN nodes \subseteq DOMAIN ws /\ Leaves(ws) = Leaves(nodes)
      /\ \A x \in DOMAIN nodes : ws[x].next = nodes[x].next
  BY DEF SameLeaves
<1>4. \A x \in DOMAIN ws : ws[x].next \in DOMAIN ws => ws[x].next \in Leaves(ws)
  BY NextRank
<1>5. \A x \in DOMAIN nodes : ws[x].next \in DOMAIN ws <=> nodes[x].next \in DOMAIN nodes
  BY <1>3, <1>4 DEF Leaves
<1>6. ASSUME NEW d, NEW x \in DOMAIN nodes
      PROVE  Walk(ws, d, x) = <<x>> \o IF nodes[x].next \in DOMAIN nodes THEN d[nodes[x].next] ELSE <<>>
  BY <1>3, <1>5 DEF Walk
<1>7. \E d : IsFrom(d)
  <2>1. PICK d : \A x \in DOMAIN ws : d[x] = Walk(ws, d, x)
    BY WalkExists
  <2>2. PICK e : e = [x \in DOMAIN nodes |-> d[x]]
    OBVIOUS
  <2>3. ASSUME NEW x \in DOMAIN nodes
        PROVE  e[x] = <<x>> \o IF nodes[x].next \in DOMAIN nodes THEN e[nodes[x].next] ELSE <<>>
    <3>1. e[x] = <<x>> \o IF nodes[x].next \in DOMAIN nodes THEN d[nodes[x].next] ELSE <<>>
      BY <2>1, <2>2, <1>3, <1>6
    <3>2. nodes[x].next \in DOMAIN nodes => d[nodes[x].next] = e[nodes[x].next]
      BY <2>2
    <3>3. QED
      BY <3>1, <3>2
  <2>4. e = [x \in DOMAIN nodes |-> e[x]]
    BY <2>2
  <2>5. IsFrom(e)
    BY <2>3, <2>4
  <2>6. QED
    BY <2>5
<1>8. IsFrom(f)
  BY <1>1, <1>7
<1>9. \A x \in DOMAIN nodes : f[x] = Walk(ws, f, x)
  BY <1>6, <1>8
<1> HIDE DEF IsFrom
<1>10. \A x \in Leaves(ws) : f[x] = Walk(ws, f, x)
  BY <1>3, <1>9 DEF Leaves
<1>11. WalkOf(ws, sp, p, f[p])
  BY <1>3, <1>10, WalkIs
<1>12. QED
  BY <1>2, <1>11

\* All leaves are on the chain from the first page.
LEMMA ChainAll ==
  ASSUME NEW ws, NEW r, NEW h, NEW sp, NEW rk, Tree(ws, r, h, sp, rk), SameLeaves(nodes, ws)
  PROVE  /\ FirstPage \in Leaves(nodes)
         /\ Chain(FirstPage) \in Seq(Leaves(nodes))
         /\ \A x \in Leaves(nodes) : \E a \in 1 .. Len(Chain(FirstPage)) : Chain(FirstPage)[a] = x
<1>1. /\ FirstPage \in Leaves(ws) /\ Leaves(ws) = Leaves(nodes)
      /\ \A x \in Leaves(ws) \ {FirstPage} : Before(sp[FirstPage], sp[x])
  BY DEF Tree, ChainOK, SameLeaves
<1>2. WalkOf(ws, sp, FirstPage, Chain(FirstPage))
  BY <1>1, ChainIs
<1>3. PICK s : s = Chain(FirstPage)
  OBVIOUS
<1>4. /\ s \in Seq(Leaves(nodes)) /\ Len(s) >= 1 /\ s[1] = FirstPage
      /\ \A x \in Leaves(nodes) : Before(sp[FirstPage], sp[x]) => \E a \in 1 .. Len(s) : s[a] = x
  BY <1>1, <1>2, <1>3 DEF WalkOf
<1>5. ASSUME NEW x \in Leaves(nodes) PROVE \E a \in 1 .. Len(s) : s[a] = x
  <2>1. CASE x = FirstPage
    <3>1. 1 \in 1 .. Len(s)
      BY <1>4
    <3>2. QED
      BY <2>1, <3>1, <1>4
  <2>2. CASE x # FirstPage
    BY <2>2, <1>1, <1>4
  <2>3. QED
    BY <2>1, <2>2
<1>6. QED
  BY <1>1, <1>3, <1>4, <1>5

LEMMA ContentIs ==
  ASSUME NEW ws, NEW r, NEW h, NEW sp, NEW rk, Tree(ws, r, h, sp, rk), SameLeaves(nodes, ws)
  PROVE  Content = LeafKeys(nodes)
<1>1. PICK s : s = Chain(FirstPage)
  OBVIOUS
<1>2. s \in Seq(Leaves(nodes)) /\ \A x \in Leaves(nodes) : \E a \in 1 .. Len(s) : s[a] = x
  BY <1>1, ChainAll
<1>3. ToSet(s) = Leaves(nodes)
  BY <1>2 DEF ToSet
<1>4. ASSUME NEW p \in Leaves(nodes)
      PROVE  {EntryAt(p, i) : i \in 1 .. Len(nodes[p].keys)} = ToSet(nodes[p].keys)
  <2>1. ws[p].keys = nodes[p].keys /\ ws[p].ptrs = nodes[p].ptrs /\ p \in DOMAIN ws /\ ws[p].leaf
    BY DEF SameLeaves, Leaves
  <2>2. NodeAt(ws, h, sp, p) /\ ws[p].keys \in Seq(K)
    BY <2>1, TreeNode
  <2>3. \A i \in 1 .. Len(ws[p].keys) : ws[p].ptrs[i] = ws[p].keys[i][2]
    BY <2>1, <2>2 DEF NodeAt, LeafAt
  <2>4. ASSUME NEW i \in 1 .. Len(nodes[p].keys) PROVE EntryAt(p, i) = nodes[p].keys[i]
    <3>1. nodes[p].keys[i] \in K /\ nodes[p].ptrs[i] = nodes[p].keys[i][2]
      BY <2>1, <2>2, <2>3
    <3>2. \A k \in K : k = <<k[1], k[2]>>
      BY DEF K
    <3>3. QED
      BY <3>1, <3>2 DEF EntryAt
  <2>5. DOMAIN nodes[p].keys = 1 .. Len(nodes[p].keys)
    BY <2>1, <2>2
  <2>6. QED
    BY <2>4, <2>5 DEF ToSet
<1>5. Content = UNION {{EntryAt(p, i) : i \in 1 .. Len(nodes[p].keys)} : p \in Leaves(nodes)}
  BY <1>1, <1>3 DEF Content
<1>6. {{EntryAt(p, i) : i \in 1 .. Len(nodes[p].keys)} : p \in Leaves(nodes)}
        = {ToSet(nodes[p].keys) : p \in Leaves(nodes)}
  BY <1>4
<1>7. QED
  BY <1>5, <1>6 DEF LeafKeys

-----------------------------------------------------------------------------
(* Looking for a value *)

LEMMA CompareIs ==
  ASSUME Eps = 1, NEW a \in Int, NEW b \in Int
  PROVE  /\ CompareKey(a, b) = 0 <=> a = b
         /\ CompareKey(a, b) > 0 <=> a > b
         /\ CompareKey(a, b) >= 0 <=> a >= b
BY DEF CompareKey

\* The leaf of a key that is not before k0 is the leaf of k0 or one after it.
LEMMA OnWalk ==
  ASSUME NEW h, NEW sp, NEW rk, Tree(nodes, root, h, sp, rk), NEW p \in Leaves(nodes),
         NEW s, WalkOf(nodes, sp, p, s), NEW x \in Leaves(nodes),
         NEW k0 \in sp[p], NEW k \in sp[x], ~Lt(k, k0)
  PROVE  \E a \in 1 .. Len(s) : s[a] = x
<1>1. /\ s \in Seq(Leaves(nodes)) /\ Len(s) >= 1 /\ s[1] = p
      /\ \A y \in Leaves(nodes) : Before(sp[p], sp[y]) => \E a \in 1 .. Len(s) : s[a] = y
  BY DEF WalkOf
<1>2. CASE x = p
  <2>1. 1 \in 1 .. Len(s)
    BY <1>1
  <2>2. QED
    BY <2>1, <1>1, <1>2
<1>3. CASE x # p
  <2>1. Before(sp[p], sp[x]) \/ Before(sp[x], sp[p])
    BY <1>3 DEF Tree, ChainOK
  <2>2. ~Before(sp[x], sp[p])
    BY DEF Before
  <2>3. QED
    BY <2>1, <2>2, <1>1
<1>4. QED
  BY <1>2, <1>3

\* The first reached key on the walk s, the walk from the leaf of the value
FirstOn(s, op, v) ==
  LET at(n) == {i \in 1 .. Len(nodes[s[n]].keys) : Reached(nodes[s[n]].keys[i], op, v)}
      hits == {n \in 1 .. Len(s) : at(n) # {}}
  IN  IF hits = {}
      THEN [page |-> -1, idx |-> -1, leaks |-> ToSet(Front(s))]
      ELSE [page |-> s[Min(hits)], idx |-> Min(at(Min(hits))),
            leaks |-> ToSet(SubSeq(s, 1, Min(hits) - 1))]

LEMMA FindFirstOn ==
  ASSUME NEW op, op \notin {"LESS_THAN", "LESS_EQUAL", "NOT_EQUAL"}, NEW v
  PROVE  FindFirst(op, v) = FirstOn(Chain(FindLeaf(<<v, -1>>)), op, v)
BY DEF FindFirst, FirstOn

\* Where a scan for one value starts
LEMMA FindFirstPages ==
  ASSUME NEW h, NEW sp, NEW rk, Tree(nodes, root, h, sp, rk), Eps = 1, NEW op, NEW v \in Int
  PROVE  /\ FindFirst(op, v).page \in Leaves(nodes) \cup {-1}
         /\ FindFirst(op, v).leaks \subseteq Leaves(nodes)
<1>1. CASE op \in {"LESS_THAN", "LESS_EQUAL", "NOT_EQUAL"}
  <2>1. FindFirst(op, v) = [page |-> FirstLeaf, idx |-> 1, leaks |-> {}]
    BY <1>1 DEF FindFirst
  <2>2. FirstLeaf = FirstPage /\ FirstPage \in Leaves(nodes)
    BY FirstLeafIs DEF Tree, ChainOK
  <2>3. QED
    BY <2>1, <2>2
<1>2. CASE op \notin {"LESS_THAN", "LESS_EQUAL", "NOT_EQUAL"}
  <2>1. PICK p : p = FindLeaf(<<v, -1>>)
    OBVIOUS
  <2>2. <<v, -1>> \in K
    BY DEF K
  <2>3. p \in Leaves(nodes)
    BY <2>1, <2>2, FindLeafIs
  <2>4. SameLeaves(nodes, nodes)
    BY DEF SameLeaves
  <2>5. PICK s : s = Chain(p)
    OBVIOUS
  <2>6. s \in Seq(Leaves(nodes)) /\ Len(s) >= 1
    BY <2>3, <2>4, <2>5, ChainIs DEF WalkOf
  <2> DEFINE at(n) == {i \in 1 .. Len(nodes[s[n]].keys) : Reached(nodes[s[n]].keys[i], op, v)}
             hits == {n \in 1 .. Len(s) : at(n) # {}}
  <2>7. FindFirst(op, v) =
          IF hits = {}
          THEN [page |-> -1, idx |-> -1, leaks |-> ToSet(Front(s))]
          ELSE [page |-> s[Min(hits)], idx |-> Min(at(Min(hits))),
                leaks |-> ToSet(SubSeq(s, 1, Min(hits) - 1))]
    <3>1. FindFirst(op, v) = FirstOn(s, op, v)
      BY <1>2, <2>1, <2>5, FindFirstOn
    <3>2. QED
      BY <3>1 DEF FirstOn
  <2>8. \A n \in 0 .. Len(s) : ToSet(SubSeq(s, 1, n)) \subseteq Leaves(nodes)
    <3>1. SUFFICES ASSUME NEW n \in 0 .. Len(s) PROVE ToSet(SubSeq(s, 1, n)) \subseteq Leaves(nodes)
      OBVIOUS
    <3>2. SubSeq(s, 1, n) \in Seq(Leaves(nodes))
      BY <2>6
    <3>3. QED
      BY <3>2 DEF ToSet
  <2>9. CASE hits = {}
    <3>1. Front(s) = SubSeq(s, 1, Len(s) - 1) /\ Len(s) - 1 \in 0 .. Len(s)
      BY <2>6 DEF Front
    <3>2. ToSet(Front(s)) \subseteq Leaves(nodes)
      BY <3>1, <2>8
    <3>3. FindFirst(op, v) = [page |-> -1, idx |-> -1, leaks |-> ToSet(Front(s))]
      BY <2>7, <2>9
    <3>4. QED
      BY <3>2, <3>3
  <2>10. CASE hits # {}
    <3>1. hits \subseteq Nat /\ hits \subseteq 1 .. Len(s)
      BY <2>6
    <3>2. PICK m : m = Min(hits)
      OBVIOUS
    <3>3. m \in 1 .. Len(s)
      BY <2>10, <3>1, <3>2, MinNat
    <3>4. m - 1 \in 0 .. Len(s) /\ s[m] \in Leaves(nodes)
      BY <3>3, <2>6
    <3>5. ToSet(SubSeq(s, 1, m - 1)) \subseteq Leaves(nodes)
      BY <3>4, <2>8
    <3>6. FindFirst(op, v) = [page |-> s[m], idx |-> Min(at(m)), leaks |-> ToSet(SubSeq(s, 1, m - 1))]
      BY <2>7, <2>10, <3>2
    <3>7. QED
      BY <3>4, <3>5, <3>6
  <2>11. QED
    BY <2>9, <2>10
<1>3. QED
  BY <1>1, <1>2

LEMMA LookupPages ==
  ASSUME NEW h, NEW sp, NEW rk, Tree(nodes, root, h, sp, rk), Eps = 1, NEW v \in Int
  PROVE  Lookup(v).leaks \subseteq Leaves(nodes)
<1>1. PICK f : f = FindFirst("EQUAL_TO", v)
  OBVIOUS
<1>2. f.page \in Leaves(nodes) \cup {-1} /\ f.leaks \subseteq Leaves(nodes)
  BY <1>1, FindFirstPages
<1>3. Lookup(v) = IF ~unique THEN [found |-> FALSE, leaks |-> {}]
                  ELSE IF f.page = -1 THEN [found |-> FALSE, leaks |-> f.leaks]
                  ELSE [found |-> NextIn(f.page, f.idx, "EQUAL_TO", v) # 0,
                        leaks |-> f.leaks \cup {f.page}]
  BY <1>1 DEF Lookup
<1>4. CASE ~unique
  BY <1>3, <1>4
<1>5. CASE unique /\ f.page = -1
  BY <1>2, <1>3, <1>5
<1>6. CASE unique /\ f.page # -1
  <2>1. Lookup(v).leaks = f.leaks \cup {f.page}
    BY <1>3, <1>6
  <2>2. QED
    BY <2>1, <1>2, <1>6
<1>7. QED
  BY <1>4, <1>5, <1>6

\* A unique index finds a value that one of its keys has.
LEMMA LookupFinds ==
  ASSUME NEW h, NEW sp, NEW rk, Tree(nodes, root, h, sp, rk), Eps = 1, NEW v \in Int,
         unique, NEW k \in LeafKeys(nodes), k[1] = v
  PROVE  Lookup(v).found
<1>1. PICK x \in Leaves(nodes) : k \in ToSet(nodes[x].keys)
  BY DEF LeafKeys
<1>2. \A y \in Leaves(nodes) : /\ y \in DOMAIN nodes /\ nodes[y].keys \in Seq(K) /\ Ascending(nodes[y].keys)
                               /\ \A i \in 1 .. Len(nodes[y].keys) : nodes[y].keys[i] \in sp[y]
  BY TreeNode DEF Leaves
<1>3. PICK j \in 1 .. Len(nodes[x].keys) : nodes[x].keys[j] = k
  BY <1>1, <1>2 DEF ToSet
<1>4. k \in sp[x] /\ k \in K
  BY <1>2, <1>3
<1>5. k \in Entries
  BY <1>1, <1>3 DEF Tree, NodesOK, NodeType, Leaves
<1>6. k[2] \in Nat \ {0}
  BY <1>5, EntriesAssumption
<1>7. PICK k0 : k0 = <<v, -1>>
  OBVIOUS
<1>8. k0 \in K /\ Lt(k0, k)
  BY <1>6, <1>7 DEF K, Lt
<1>9. ~Lt(k, k0)
  BY <1>4, <1>8, LtOrder
<1>10. PICK p : p = FindLeaf(k0)
  OBVIOUS
<1>11. p \in Leaves(nodes) /\ k0 \in sp[p]
  BY <1>8, <1>10, FindLeafIs
<1>12. PICK s : s = Chain(p)
  OBVIOUS
<1>13. WalkOf(nodes, sp, p, s)
  <2>1. SameLeaves(nodes, nodes)
    BY DEF SameLeaves
  <2>2. QED
    BY <2>1, <1>11, <1>12, ChainIs
<1>14. PICK a \in 1 .. Len(s) : s[a] = x
  BY <1>4, <1>9, <1>11, <1>13, OnWalk
<1>15. /\ s \in Seq(Leaves(nodes))
       /\ \A c, d \in 1 .. Len(s) : c < d => Before(sp[s[c]], sp[s[d]])
  BY <1>13 DEF WalkOf
<1> DEFINE at(n) == {i \in 1 .. Len(nodes[s[n]].keys) : Reached(nodes[s[n]].keys[i], "EQUAL_TO", v)}
           hits == {n \in 1 .. Len(s) : at(n) # {}}
<1>16. FindFirst("EQUAL_TO", v) =
         IF hits = {}
         THEN [page |-> -1, idx |-> -1, leaks |-> ToSet(Front(s))]
         ELSE [page |-> s[Min(hits)], idx |-> Min(at(Min(hits))),
               leaks |-> ToSet(SubSeq(s, 1, Min(hits) - 1))]
  <2>1. FindFirst("EQUAL_TO", v) = FirstOn(s, "EQUAL_TO", v)
    BY <1>7, <1>10, <1>12, FindFirstOn
  <2>2. QED
    BY <2>1 DEF FirstOn
<1>17. \A f \in K : Reached(f, "EQUAL_TO", v) <=> f[1] >= v
  BY CompareIs DEF Reached, K
<1>18. j \in at(a)
  BY <1>3, <1>4, <1>14, <1>17
<1>19. a \in hits /\ hits \subseteq Nat
  BY <1>18
<1>20. PICK m : m = Min(hits)
  OBVIOUS
<1>21. m \in hits /\ m <= a
  BY <1>19, <1>20, MinNat
<1>22. m \in 1 .. Len(s) /\ at(m) # {} /\ at(m) \subseteq Nat
  BY <1>21
<1>23. PICK b : b = Min(at(m))
  OBVIOUS
<1>24. b \in at(m) /\ \A c \in at(m) : b <= c
  BY <1>22, <1>23, MinNat
<1>25. PICK y : y = s[m]
  OBVIOUS
<1>26. y \in Leaves(nodes) /\ b \in 1 .. Len(nodes[y].keys) /\ Reached(nodes[y].keys[b], "EQUAL_TO", v)
  BY <1>15, <1>22, <1>24, <1>25
<1>27. PICK f : f = nodes[y].keys[b]
  OBVIOUS
<1>28. f \in K /\ f \in sp[y] /\ f[1] >= v
  BY <1>2, <1>17, <1>26, <1>27
<1>29. ~Lt(k, f)
  <2>1. CASE m < a
    <3>1. Before(sp[y], sp[x])
      BY <2>1, <1>14, <1>15, <1>22, <1>25
    <3>2. Lt(f, k)
      BY <3>1, <1>4, <1>28 DEF Before
    <3>3. QED
      BY <3>2, <1>4, <1>28, LtOrder
  <2>2. CASE m = a
    <3>1. y = x /\ b <= j
      BY <2>2, <1>14, <1>18, <1>24, <1>25
    <3>2. b < j => Lt(f, k)
      BY <3>1, <1>2, <1>3, <1>26, <1>27, AscendingIn
    <3>3. b = j => f = k
      BY <3>1, <1>3, <1>27
    <3>4. b = j \/ b < j
      BY <3>1, <1>26, <1>3
    <3>5. QED
      BY <3>2, <3>3, <3>4, <1>4, <1>28, LtOrder
  <2>3. m \in Nat /\ a \in Nat
    BY <1>22
  <2>4. QED
    BY <2>1, <2>2, <2>3, <1>21
<1>30. f[1] = v
  BY <1>4, <1>28, <1>29 DEF Lt, K
<1>31. Satisfy(f, "EQUAL_TO", v)
  BY <1>28, <1>30, CompareIs DEF Satisfy, K
<1>32. NextIn(y, b, "EQUAL_TO", v) # 0
  <2> DEFINE H == {i \in b .. Len(nodes[y].keys) : Satisfy(nodes[y].keys[i], "EQUAL_TO", v)}
  <2>1. b \in H /\ H \subseteq Nat /\ 0 \notin H
    BY <1>26, <1>27, <1>31
  <2>2. Min(H) \in H
    BY <2>1, MinNat
  <2>3. NextIn(y, b, "EQUAL_TO", v) = IF H = {} THEN 0 ELSE Min(H)
    BY DEF NextIn
  <2>4. QED
    BY <2>1, <2>2, <2>3
<1>33. y # -1
  BY <1>26 DEF Leaves, Tree, NodesOK, PageIds
<1>34. FindFirst("EQUAL_TO", v) = [page |-> y, idx |-> b, leaks |-> ToSet(SubSeq(s, 1, m - 1))]
  BY <1>16, <1>19, <1>20, <1>23, <1>25
<1>35. PICK g : g = FindFirst("EQUAL_TO", v)
  OBVIOUS
<1>36. g.page = y /\ g.idx = b
  BY <1>34, <1>35
<1>37. Lookup(v) = IF ~unique THEN [found |-> FALSE, leaks |-> {}]
                   ELSE IF g.page = -1 THEN [found |-> FALSE, leaks |-> g.leaks]
                   ELSE [found |-> NextIn(g.page, g.idx, "EQUAL_TO", v) # 0,
                         leaks |-> g.leaks \cup {g.page}]
  BY <1>35 DEF Lookup
<1>38. Lookup(v).found = (NextIn(y, b, "EQUAL_TO", v) # 0)
  BY <1>33, <1>36, <1>37
<1>39. QED
  BY <1>32, <1>38
=============================================================================
