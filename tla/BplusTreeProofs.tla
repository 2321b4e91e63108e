--------------------------- MODULE BplusTreeProofs ---------------------------
(***************************************************************************)
(* The B+ tree stays a search tree and is the index of IndexSet: for every *)
(* order, every set of entries and every number of pages, with exact keys  *)
(* (Eps = 1). The proofs are about Spec, the steps that leave the tree     *)
(* sound.                                                                  *)
(***************************************************************************)
EXTENDS SearchTrees

(* The tree that the pending call is about to complete *)

WithChild(ns, p, left, key, right) ==
  LET i == PlaceIn(ns[p].ptrs, left)
  IN  [ns EXCEPT ![p].keys = InsertAt(@, i, key), ![p].ptrs = InsertAt(@, i + 1, right)]

WithRoot(ns, q, left, key, right) ==
  Adopt(Put(ns, q, Inner(-1, <<key>>, <<left, right>>)), {left, right}, q)

WithoutChild(ns, p, key) ==
  LET i == PlaceIn(ns[p].keys, key)
  IN  [ns EXCEPT ![p] = [ns[p] EXCEPT !.keys = RemoveAt(@, i), !.ptrs = RemoveAt(@, i + 1)]]

\* The page of the next root
RootPage(ns) == Min(PageIds \ DOMAIN ns)

Whole(ns, c) ==
  CASE c.fn = "insert_into_parent" /\ c.page # -1 -> WithChild(ns, c.page, c.left, c.key, c.right)
    [] c.fn = "insert_into_parent" /\ c.page = -1 -> WithRoot(ns, RootPage(ns), c.left, c.key, c.right)
    [] c.fn = "delete_entry_internal" -> WithoutChild(ns, c.page, c.key)
    [] OTHER -> ns

WholeRoot(ns, r, c) ==
  IF c.fn = "insert_into_parent" /\ c.page = -1 THEN RootPage(ns) ELSE r

\* What is pending
InsertFits(ns, r, c) ==
  /\ c.left \in DOMAIN ns /\ c.right \in DOMAIN ns /\ c.left # c.right
  /\ c.key \in Entries
  /\ ns[c.left].parent = c.page /\ ns[c.right].parent = c.page
  /\ c.page = -1 => r = c.left
  /\ c.page # -1 => /\ c.page \in DOMAIN ns /\ ~ns[c.page].leaf
                    /\ \E i \in 1 .. Len(ns[c.page].ptrs) : ns[c.page].ptrs[i] = c.left

DeleteFits(ns, c) ==
  /\ c.page \in DOMAIN ns /\ ~ns[c.page].leaf
  /\ \E i \in 1 .. Len(ns[c.page].keys) : ns[c.page].keys[i] = c.key

SiblingsFit(ns, c) ==
  /\ c.left \in DOMAIN ns /\ c.right \in DOMAIN ns
  /\ ns[c.left].parent \in DOMAIN ns /\ ~ns[ns[c.left].parent].leaf
  /\ \E i \in 1 .. Len(ns[ns[c.left].parent].keys) :
       /\ ns[ns[c.left].parent].ptrs[i] = c.left
       /\ ns[ns[c.left].parent].ptrs[i + 1] = c.right

SiblingCalls == {"coalesce_node", "redistribute_nodes"}

CallFits(ns, r, c) ==
  \/ c = Idle
  \/ c.fn = "insert_into_parent" /\ InsertFits(ns, r, c)
  \/ c.fn = "delete_entry_internal" /\ DeleteFits(ns, c)
  \/ c.fn \in SiblingCalls /\ SiblingsFit(ns, c)

\* How many keys the nodes have: a node may be one short while it is to be
\* merged with a neighbour or to get a key from it.
Enough(ns, x) == Len(ns[x].keys) >= MinKeys(ns[x])

OneShort(ns, a, b, fn) ==
  /\ Len(ns[a].keys) + 1 = MinKeys(ns[a])
  /\ IF fn = "coalesce_node" THEN Len(ns[b].keys) = MinKeys(ns[a])
                             ELSE Len(ns[b].keys) > MinKeys(ns[a])

Sizes(ns, r, c) ==
  /\ ~ns[r].leaf => Len(ns[r].keys) >= 1
  /\ \A x \in DOMAIN ns \ {r} : (c.fn \in SiblingCalls => x \notin {c.left, c.right}) => Enough(ns, x)
  /\ c.fn = "insert_into_parent" => Enough(ns, c.left)
  /\ c.fn \in SiblingCalls => OneShort(ns, c.left, c.right, c.fn) \/ OneShort(ns, c.right, c.left, c.fn)

\* What is pinned and what a scan has loaded are leaves.
ScanFields == {"open", "op", "val", "page", "done", "next", "idx", "seen", "stable", "eof"}

OpenScan(ns, c, sc) ==
  /\ DOMAIN sc = ScanFields
  /\ sc.open = TRUE /\ sc.stable \in BOOLEAN
  /\ sc.stable => c = Idle
  /\ sc.page \in Leaves(ns) \cup {0}
  /\ sc.next \notin DOMAIN ns \ Leaves(ns)
  /\ sc.stable \/ c.fn = "insert_into_parent" => sc.next \in Leaves(ns) \cup {0, -1}

ScanFits(ns, c, sc) == sc = NoScan \/ OpenScan(ns, c, sc)

\* A unique index has no two keys with the same value.
DistinctValues(ns, u) == u => \A j, k \in LeafKeys(ns) : j[1] = k[1] => j = k

\* The type of a node, whatever its neighbours are
Shape(n) ==
  /\ n.parent \in Pages \cup {-1}
  /\ Len(n.keys) < Order
  /\ n.ptrs \in Seq(IF n.leaf THEN Rids ELSE Pages)
  /\ Len(n.ptrs) = Len(n.keys) + (IF n.leaf THEN 0 ELSE 1)

Shapes(ns) == DOMAIN ns \subseteq Pages /\ \A x \in DOMAIN ns : Shape(ns[x])

IInv ==
  /\ Shapes(nodes) /\ NodesOK(nodes)
  /\ root \in DOMAIN nodes /\ unique \in BOOLEAN
  /\ CallFits(nodes, root, call)
  /\ Sizes(nodes, root, call)
  /\ leaked \subseteq Leaves(nodes) /\ ScanFits(nodes, call, scan)
  /\ Sound(Whole(nodes, call), WholeRoot(nodes, root, call))
  /\ DistinctValues(nodes, unique)

-----------------------------------------------------------------------------
(* The tree that a call completes, node by node *)

\* ms is ns with other keys and pointers on page p.
Rewritten(ns, ms, p, ks, ps) ==
  /\ DOMAIN ms = DOMAIN ns
  /\ \A x \in DOMAIN ns \ {p} : ms[x] = ns[x]
  /\ ms[p].leaf = ns[p].leaf /\ ms[p].parent = ns[p].parent /\ ms[p].next = ns[p].next
  /\ ms[p].keys = ks /\ ms[p].ptrs = ps
  /\ ks \in Seq(Entries) /\ ps \in Seq(Int) => ms[p] \in NodeType

LEMMA NodeFields ==
  ASSUME NEW n \in NodeType
  PROVE  /\ n = [leaf |-> n.leaf, parent |-> n.parent, keys |-> n.keys, ptrs |-> n.ptrs, next |-> n.next]
         /\ n.leaf \in BOOLEAN /\ n.parent \in Int /\ n.keys \in Seq(Entries) /\ n.ptrs \in Seq(Int)
         /\ n.next \in Int
         /\ Len(n.keys) \in Nat /\ Len(n.ptrs) \in Nat
BY DEF NodeType

LEMMA RewrittenIs ==
  ASSUME NEW ns, NEW p \in DOMAIN ns, ns[p] \in NodeType, NEW ks, NEW ps, NEW ms,
         ms = [ns EXCEPT ![p] = [ns[p] EXCEPT !.keys = ks, !.ptrs = ps]]
  PROVE  Rewritten(ns, ms, p, ks, ps)
<1>1. DOMAIN ms = DOMAIN ns /\ \A x \in DOMAIN ns \ {p} : ms[x] = ns[x]
  OBVIOUS
<1>2. ms[p] = [ns[p] EXCEPT !.keys = ks, !.ptrs = ps]
  OBVIOUS
<1>3. PICK n : n = ns[p]
  OBVIOUS
<1>4. /\ n = [leaf |-> n.leaf, parent |-> n.parent, keys |-> n.keys, ptrs |-> n.ptrs, next |-> n.next]
      /\ n.leaf \in BOOLEAN /\ n.parent \in Int /\ n.next \in Int
  BY <1>3, NodeFields
<1>5. [n EXCEPT !.keys = ks, !.ptrs = ps] =
        [leaf |-> n.leaf, parent |-> n.parent, keys |-> ks, ptrs |-> ps, next |-> n.next]
  <2>1. PICK m : m = [n EXCEPT !.keys = ks]
    OBVIOUS
  <2>2. m = [leaf |-> n.leaf, parent |-> n.parent, keys |-> ks, ptrs |-> n.ptrs, next |-> n.next]
    BY <2>1, <1>4
  <2>3. [m EXCEPT !.ptrs = ps] =
          [leaf |-> n.leaf, parent |-> n.parent, keys |-> ks, ptrs |-> ps, next |-> n.next]
    BY <2>2
  <2>4. QED
    BY <2>1, <2>3
<1>6. ms[p] = [leaf |-> n.leaf, parent |-> n.parent, keys |-> ks, ptrs |-> ps, next |-> n.next]
  BY <1>2, <1>3, <1>5
<1>7. /\ ms[p].leaf = ns[p].leaf /\ ms[p].parent = ns[p].parent /\ ms[p].next = ns[p].next
      /\ ms[p].keys = ks /\ ms[p].ptrs = ps
  BY <1>3, <1>6
<1>8. ks \in Seq(Entries) /\ ps \in Seq(Int) => ms[p] \in NodeType
  BY <1>4, <1>6 DEF NodeType
<1>9. QED
  BY <1>1, <1>7, <1>8 DEF Rewritten

LEMMA WithChildIs ==
  ASSUME NEW ns, NEW p \in DOMAIN ns, ns[p] \in NodeType, NEW left, NEW key, NEW right,
         NEW i, i = PlaceIn(ns[p].ptrs, left), NEW ms, ms = WithChild(ns, p, left, key, right)
  PROVE  Rewritten(ns, ms, p, InsertAt(ns[p].keys, i, key), InsertAt(ns[p].ptrs, i + 1, right))
<1>1. PICK ks, ps : ks = InsertAt(ns[p].keys, i, key) /\ ps = InsertAt(ns[p].ptrs, i + 1, right)
  OBVIOUS
<1>2. ms = [ns EXCEPT ![p].keys = InsertAt(@, i, key), ![p].ptrs = InsertAt(@, i + 1, right)]
  BY DEF WithChild
<1>3. ms = [ns EXCEPT ![p] = [ns[p] EXCEPT !.keys = ks, !.ptrs = ps]]
  BY <1>1, <1>2
<1>4. QED
  BY <1>1, <1>3, RewrittenIs

LEMMA WithoutChildIs ==
  ASSUME NEW ns, NEW p \in DOMAIN ns, ns[p] \in NodeType, NEW key,
         NEW i, i = PlaceIn(ns[p].keys, key), NEW ms, ms = WithoutChild(ns, p, key)
  PROVE  Rewritten(ns, ms, p, RemoveAt(ns[p].keys, i), RemoveAt(ns[p].ptrs, i + 1))
<1>1. PICK ks, ps : ks = RemoveAt(ns[p].keys, i) /\ ps = RemoveAt(ns[p].ptrs, i + 1)
  OBVIOUS
<1>2. ms = [ns EXCEPT ![p] = [ns[p] EXCEPT !.keys = RemoveAt(@, i), !.ptrs = RemoveAt(@, i + 1)]]
  BY DEF WithoutChild
<1>3. ms = [ns EXCEPT ![p] = [ns[p] EXCEPT !.keys = ks, !.ptrs = ps]]
  BY <1>1, <1>2
<1>4. QED
  BY <1>1, <1>3, RewrittenIs

\* A node that only has another parent
Moved(n, m, parent) ==
  /\ m.leaf = n.leaf /\ m.keys = n.keys /\ m.ptrs = n.ptrs /\ m.next = n.next
  /\ m.parent = parent
  /\ m \in NodeType

LEMMA MovedIs ==
  ASSUME NEW n \in NodeType, NEW parent \in Int, NEW m, m = [n EXCEPT !.parent = parent]
  PROVE  Moved(n, m, parent)
<1>1. /\ n = [leaf |-> n.leaf, parent |-> n.parent, keys |-> n.keys, ptrs |-> n.ptrs, next |-> n.next]
      /\ n.leaf \in BOOLEAN /\ n.keys \in Seq(Entries) /\ n.ptrs \in Seq(Int) /\ n.next \in Int
  BY NodeFields
<1>2. m = [leaf |-> n.leaf, parent |-> parent, keys |-> n.keys, ptrs |-> n.ptrs, next |-> n.next]
  BY <1>1
<1>3. m \in NodeType
  BY <1>1, <1>2 DEF NodeType
<1>4. QED
  BY <1>2, <1>3 DEF Moved

\* ms is ns with the children C below page q.
Adopted(ns, ms, C, q) ==
  /\ DOMAIN ms = DOMAIN ns
  /\ \A x \in DOMAIN ns \ C : ms[x] = ns[x]
  /\ \A x \in DOMAIN ns \cap C : Moved(ns[x], ms[x], q)

LEMMA AdoptedIs ==
  ASSUME NEW ns, \A x \in DOMAIN ns : ns[x] \in NodeType, NEW C, NEW q \in Int,
         NEW ms, ms = Adopt(ns, C, q)
  PROVE  Adopted(ns, ms, C, q)
<1>1. ms = [x \in DOMAIN ns |-> IF x \in C THEN [ns[x] EXCEPT !.parent = q] ELSE ns[x]]
  BY DEF Adopt
<1>2. DOMAIN ms = DOMAIN ns /\ \A x \in DOMAIN ns \ C : ms[x] = ns[x]
  BY <1>1
<1>3. ASSUME NEW x \in DOMAIN ns \cap C PROVE Moved(ns[x], ms[x], q)
  <2>1. ms[x] = [ns[x] EXCEPT !.parent = q] /\ ns[x] \in NodeType
    BY <1>1
  <2>2. QED
    BY <2>1, MovedIs
<1>4. QED
  BY <1>2, <1>3 DEF Adopted

\* ms is ns with the new root q above left and right.
Rooted(ns, ms, q, left, key, right) ==
  /\ DOMAIN ms = DOMAIN ns \cup {q}
  /\ ms[q].leaf = FALSE /\ ms[q].parent = -1 /\ ms[q].next = 0
  /\ ms[q].keys = <<key>> /\ ms[q].ptrs = <<left, right>>
  /\ \A x \in DOMAIN ns \ {left, right} : ms[x] = ns[x]
  /\ \A x \in DOMAIN ns \cap {left, right} : Moved(ns[x], ms[x], q)
  /\ \A x \in DOMAIN ms : ms[x] \in NodeType

LEMMA WithRootIs ==
  ASSUME NEW ns, \A x \in DOMAIN ns : ns[x] \in NodeType, NEW q \in Int, q \notin DOMAIN ns,
         NEW left \in Int, NEW key \in Entries, NEW right \in Int, q \notin {left, right},
         NEW ms, ms = WithRoot(ns, q, left, key, right)
  PROVE  Rooted(ns, ms, q, left, key, right)
<1>1. PICK n : n = Inner(-1, <<key>>, <<left, right>>)
  OBVIOUS
<1>2. /\ n \in NodeType
      /\ n.leaf = FALSE /\ n.parent = -1 /\ n.keys = <<key>> /\ n.ptrs = <<left, right>> /\ n.next = 0
  <2>1. PICK u, a, b : u = -1 /\ a = <<key>> /\ b = <<left, right>>
    OBVIOUS
  <2>2. u \in Int /\ a \in Seq(Entries) /\ b \in Seq(Int)
    BY <2>1
  <2>3. n = Inner(u, a, b)
    BY <2>1, <1>1
  <2>4. /\ n \in NodeType
        /\ n.leaf = FALSE /\ n.parent = u /\ n.keys = a /\ n.ptrs = b /\ n.next = 0
    <3>1. n = [leaf |-> FALSE, parent |-> u, keys |-> a, ptrs |-> b, next |-> 0]
      BY <2>3 DEF Inner
    <3>2. n \in NodeType
      BY <2>2, <3>1 DEF NodeType
    <3>3. QED
      BY <3>1, <3>2
  <2>5. QED
    BY <2>1, <2>4
<1>3. n \in NodeType
  BY <1>2
<1>4. PICK ps : ps = Put(ns, q, n)
  OBVIOUS
<1>5. DOMAIN ps = DOMAIN ns \cup {q} /\ ps[q] = n /\ \A x \in DOMAIN ns : ps[x] = ns[x]
  BY <1>4 DEF Put
<1>6. \A x \in DOMAIN ps : ps[x] \in NodeType
  BY <1>3, <1>5
<1>7. PICK C : C = {left, right}
  OBVIOUS
<1>8. ms = Adopt(ps, C, q)
  BY <1>1, <1>4, <1>7 DEF WithRoot
<1>9. Adopted(ps, ms, C, q)
  BY <1>6, <1>8, AdoptedIs
<1>10. /\ DOMAIN ms = DOMAIN ps
       /\ \A x \in DOMAIN ps \ C : ms[x] = ps[x]
       /\ \A x \in DOMAIN ps \cap C : Moved(ps[x], ms[x], q)
  BY <1>9 DEF Adopted
<1>11. ms[q] = n
  BY <1>5, <1>7, <1>10
<1>12. \A x \in DOMAIN ns \ {left, right} : ms[x] = ns[x]
  BY <1>5, <1>7, <1>10
<1>13. \A x \in DOMAIN ns \cap {left, right} : Moved(ns[x], ms[x], q)
  BY <1>5, <1>7, <1>10
<1>14. \A x \in DOMAIN ms : ms[x] \in NodeType
  BY <1>6, <1>10 DEF Moved
<1>15. QED
  BY <1>2, <1>5, <1>10, <1>11, <1>12, <1>13, <1>14 DEF Rooted

LEMMA WholeCases ==
  ASSUME NEW ns, NEW r, NEW c
  PROVE  /\ c.fn = "insert_into_parent" /\ c.page # -1 =>
              Whole(ns, c) = WithChild(ns, c.page, c.left, c.key, c.right) /\ WholeRoot(ns, r, c) = r
         /\ c.fn = "insert_into_parent" /\ c.page = -1 =>
              /\ Whole(ns, c) = WithRoot(ns, RootPage(ns), c.left, c.key, c.right)
              /\ WholeRoot(ns, r, c) = RootPage(ns)
         /\ c.fn = "delete_entry_internal" =>
              Whole(ns, c) = WithoutChild(ns, c.page, c.key) /\ WholeRoot(ns, r, c) = r
         /\ c.fn \in SiblingCalls => Whole(ns, c) = ns /\ WholeRoot(ns, r, c) = r
         /\ c = Idle => Whole(ns, c) = ns /\ WholeRoot(ns, r, c) = r
<1>1. CASE c.fn = "insert_into_parent" /\ c.page # -1
  <2>1. Whole(ns, c) = WithChild(ns, c.page, c.left, c.key, c.right)
    BY <1>1 DEF Whole
  <2>2. QED
    BY <1>1, <2>1 DEF WholeRoot, Idle, SiblingCalls
<1>2. CASE c.fn = "insert_into_parent" /\ c.page = -1
  <2>1. Whole(ns, c) = WithRoot(ns, RootPage(ns), c.left, c.key, c.right)
    BY <1>2 DEF Whole
  <2>2. QED
    BY <1>2, <2>1 DEF WholeRoot, Idle, SiblingCalls
<1>3. CASE c.fn = "delete_entry_internal"
  <2>1. Whole(ns, c) = WithoutChild(ns, c.page, c.key)
    BY <1>3 DEF Whole
  <2>2. QED
    BY <1>3, <2>1 DEF WholeRoot, Idle, SiblingCalls
<1>4. CASE c.fn \notin {"insert_into_parent", "delete_entry_internal"}
  <2>1. Whole(ns, c) = ns
    BY <1>4 DEF Whole
  <2>2. QED
    BY <1>4, <2>1 DEF WholeRoot, Idle, SiblingCalls
<1>5. QED
  BY <1>1, <1>2, <1>3, <1>4

LEMMA RootPageIs ==
  ASSUME NEW ns, DOMAIN ns \subseteq Pages
  PROVE  /\ RootPage(ns) \in PageIds /\ RootPage(ns) \notin DOMAIN ns
         /\ ~(Pages \subseteq DOMAIN ns) =>
              /\ RootPage(ns) = FreshPage(ns)
              /\ FreshPage(ns) \in Pages /\ FreshPage(ns) \notin DOMAIN ns /\ FreshPage(ns) \in PageIds
<1>1. PICK A, B : A = PageIds \ DOMAIN ns /\ B = Pages \ DOMAIN ns
  OBVIOUS
<1>2. MaxPage \in Nat
  BY MaxPageAssumption
<1>3. A \subseteq Nat /\ B \subseteq Nat /\ B \subseteq A /\ \A x \in A : x = MaxPage + 1 \/ x \in B
  BY <1>1, <1>2 DEF PageIds, Pages
<1>4. MaxPage + 1 \in A
  BY <1>1, <1>2 DEF PageIds, Pages
<1>5. Min(A) \in A /\ \A y \in A : Min(A) <= y
  BY <1>3, <1>4, MinNat
<1>6. RootPage(ns) = Min(A) /\ FreshPage(ns) = Min(B)
  BY <1>1 DEF RootPage, FreshPage
<1>7. ASSUME ~(Pages \subseteq DOMAIN ns) PROVE Min(B) = Min(A) /\ Min(B) \in B
  <2>1. B # {}
    BY <1>7, <1>1
  <2>2. Min(B) \in B /\ \A y \in B : Min(B) <= y
    BY <1>3, <2>1, MinNat
  <2>3. PICK a, b : a = Min(A) /\ b = Min(B)
    OBVIOUS
  <2>4. a \in Nat /\ b \in Nat /\ a <= b /\ b <= MaxPage
    BY <2>2, <2>3, <1>1, <1>2, <1>3, <1>5 DEF Pages
  <2>5. a \in B
    BY <2>3, <2>4, <1>2, <1>3, <1>5
  <2>6. b <= a
    BY <2>2, <2>3, <2>5
  <2>7. QED
    BY <2>2, <2>3, <2>4, <2>6
<1>8. QED
  BY <1>1, <1>3, <1>5, <1>6, <1>7

LEMMA RewrittenLeaves ==
  ASSUME NEW ns, NEW ms, NEW p \in DOMAIN ns, NEW ks, NEW ps, Rewritten(ns, ms, p, ks, ps), ~ns[p].leaf
  PROVE  SameLeaves(ns, ms)
<1>1. \A x \in DOMAIN ns : ms[x].leaf = ns[x].leaf /\ ms[x].next = ns[x].next
  BY DEF Rewritten
<1>2. Leaves(ms) = Leaves(ns)
  BY <1>1 DEF Rewritten, Leaves
<1>3. \A x \in Leaves(ns) : ms[x].keys = ns[x].keys /\ ms[x].ptrs = ns[x].ptrs
  BY DEF Rewritten, Leaves
<1>4. QED
  BY <1>1, <1>2, <1>3 DEF SameLeaves, Rewritten

LEMMA RootedLeaves ==
  ASSUME NEW ns, NEW ms, NEW q, q \notin DOMAIN ns, NEW left, NEW key, NEW right,
         Rooted(ns, ms, q, left, key, right)
  PROVE  SameLeaves(ns, ms)
<1>1. \A x \in DOMAIN ns : /\ ms[x].leaf = ns[x].leaf /\ ms[x].next = ns[x].next
                           /\ ms[x].keys = ns[x].keys /\ ms[x].ptrs = ns[x].ptrs
  BY DEF Rooted, Moved
<1>2. DOMAIN ms = DOMAIN ns \cup {q} /\ ms[q].leaf = FALSE
  BY DEF Rooted
<1>3. Leaves(ms) = Leaves(ns)
  BY <1>1, <1>2 DEF Leaves
<1>4. QED
  BY <1>1, <1>2, <1>3 DEF SameLeaves, Leaves

LEMMA WholeLeaves ==
  ASSUME NEW ns, NEW r, NEW c, DOMAIN ns \subseteq Pages, NodesOK(ns), CallFits(ns, r, c)
  PROVE  SameLeaves(ns, Whole(ns, c))
<1>1. \A x \in DOMAIN ns : x \in Int /\ ns[x] \in NodeType
  BY DEF NodesOK, PageIds
<1>2. PICK ws : ws = Whole(ns, c)
  OBVIOUS
<1>3. CASE c.fn = "insert_into_parent" /\ c.page # -1 /\ InsertFits(ns, r, c)
  <2>1. c.page \in DOMAIN ns /\ ~ns[c.page].leaf
    BY <1>3 DEF InsertFits
  <2>2. ws = WithChild(ns, c.page, c.left, c.key, c.right)
    BY <1>2, <1>3, WholeCases
  <2>3. PICK ks, ps : Rewritten(ns, ws, c.page, ks, ps)
    BY <2>1, <2>2, <1>1, WithChildIs
  <2>4. QED
    BY <2>1, <2>3, <1>2, RewrittenLeaves
<1>4. CASE c.fn = "insert_into_parent" /\ c.page = -1 /\ InsertFits(ns, r, c)
  <2>1. c.left \in DOMAIN ns /\ c.right \in DOMAIN ns /\ c.key \in Entries
    BY <1>4 DEF InsertFits
  <2>2. PICK q : q = RootPage(ns)
    OBVIOUS
  <2>3. q \in Int /\ q \notin DOMAIN ns /\ q \notin {c.left, c.right}
    BY <2>1, <2>2, RootPageIs DEF PageIds
  <2>4. ws = WithRoot(ns, q, c.left, c.key, c.right)
    BY <2>2, <1>2, <1>4, WholeCases
  <2>5. Rooted(ns, ws, q, c.left, c.key, c.right)
    BY <2>1, <2>3, <2>4, <1>1, WithRootIs
  <2>6. QED
    BY <2>3, <2>5, <1>2, RootedLeaves
<1>5. CASE c.fn = "delete_entry_internal" /\ DeleteFits(ns, c)
  <2>1. c.page \in DOMAIN ns /\ ~ns[c.page].leaf
    BY <1>5 DEF DeleteFits
  <2>2. ws = WithoutChild(ns, c.page, c.key)
    BY <1>2, <1>5, WholeCases
  <2>3. PICK ks, ps : Rewritten(ns, ws, c.page, ks, ps)
    BY <2>1, <2>2, <1>1, WithoutChildIs
  <2>4. QED
    BY <2>1, <2>3, <1>2, RewrittenLeaves
<1>6. CASE c = Idle \/ c.fn \in SiblingCalls
  <2>1. ws = ns
    BY <1>2, <1>6, WholeCases
  <2>2. QED
    BY <2>1, <1>2 DEF SameLeaves
<1>7. QED
  BY <1>3, <1>4, <1>5, <1>6 DEF CallFits

LEMMA SoundIs ==
  ASSUME NEW ns, NEW r, NEW h, NEW sp, NEW rk, Tree(ns, r, h, sp, rk)
  PROVE  Sound(ns, r)
BY DEF Tree, GhostsOK, Sound

LEMMA IdleSound ==
  ASSUME IInv, call = Idle
  PROVE  Sound(nodes, root)
BY WholeCases DEF IInv

-----------------------------------------------------------------------------
(* What the invariant says *)

LEMMA ImpliesUnique ==
  ASSUME IInv
  PROVE  UniqueValues
<1>1. SameLeaves(nodes, Whole(nodes, call))
  BY WholeLeaves DEF IInv, Shapes
<1>2. Content = LeafKeys(nodes)
  BY <1>1, ContentIs DEF IInv, Sound
<1>3. QED
  BY <1>2 DEF UniqueValues, IInv, DistinctValues

\* A key that a leaf holds is where find_leaf looks for it.
LEMMA KeyIsFound ==
  ASSUME NEW h, NEW sp, NEW rk, Tree(nodes, root, h, sp, rk), Eps = 1,
         NEW x \in Leaves(nodes), NEW j \in 1 .. Len(nodes[x].keys), NEW k, k = nodes[x].keys[j]
  PROVE  FindLeaf(k) = x /\ HasKey(FindLeaf(k), k)
<1>1. x \in DOMAIN nodes
  BY DEF Leaves
<1>2. nodes[x].keys \in Seq(K) /\ k \in sp[x]
  BY <1>1, TreeNode
<1>3. k \in K /\ Len(nodes[x].keys) \in Nat /\ \A i \in 1 .. Len(nodes[x].keys) : nodes[x].keys[i] \in K
  BY <1>2
<1>4. FindLeaf(k) \in Leaves(nodes) /\ k \in sp[FindLeaf(k)]
  BY <1>3, FindLeafIs
<1>5. FindLeaf(k) = x
  <2>1. SUFFICES ASSUME FindLeaf(k) # x PROVE FALSE
    OBVIOUS
  <2>2. Before(sp[x], sp[FindLeaf(k)]) \/ Before(sp[FindLeaf(k)], sp[x])
    BY <2>1, <1>4 DEF Tree, ChainOK
  <2>3. Lt(k, k)
    BY <2>2, <1>2, <1>4 DEF Before
  <2>4. QED
    BY <2>3, <1>3, LtOrder
<1>6. HasKey(x, k)
  <2> DEFINE H == {i \in 1 .. Len(nodes[x].keys) : CmpKey(k, nodes[x].keys[i]) = 0} \cup {Len(nodes[x].keys) + 1}
  <2>1. CmpKey(k, nodes[x].keys[j]) = 0
    BY <1>3, CmpIsLt
  <2>2. j \in H /\ H \subseteq Nat
    BY <2>1, <1>3
  <2>3. Min(H) <= j /\ Min(H) \in H
    BY <2>2, MinNat
  <2>4. Min(H) <= Len(nodes[x].keys)
    BY <2>2, <2>3, <1>3
  <2>5. KeyIndex(x, k) = Min(H)
    BY DEF KeyIndex
  <2>6. QED
    BY <2>4, <2>5 DEF HasKey
<1>7. QED
  BY <1>5, <1>6

LEMMA ImpliesFindable ==
  ASSUME IInv, Eps = 1
  PROVE  Findable
<1>1. SUFFICES ASSUME call = Idle
               PROVE  LET leaves == Chain(FirstPage)
                          keys(n) == nodes[leaves[n]].keys
                      IN  /\ \A m, n \in DOMAIN leaves : \A i \in DOMAIN keys(m), j \in DOMAIN keys(n) :
                               m < n \/ (m = n /\ i < j) => CmpKey(keys(m)[i], keys(n)[j]) < 0
                          /\ \A n \in DOMAIN leaves : \A i \in DOMAIN keys(n) :
                               HasKey(FindLeaf(keys(n)[i]), keys(n)[i])
                          /\ FirstLeaf = FirstPage
  BY DEF Findable
<1>2. PICK h, sp, rk : Tree(nodes, root, h, sp, rk)
  BY <1>1, IdleSound DEF Sound
<1>3. PICK s : s = Chain(FirstPage)
  OBVIOUS
<1>4. SameLeaves(nodes, nodes) /\ FirstPage \in Leaves(nodes)
  BY <1>2 DEF SameLeaves, Tree, ChainOK
<1>5. /\ s \in Seq(Leaves(nodes))
      /\ \A a, b \in 1 .. Len(s) : a < b => Before(sp[s[a]], sp[s[b]])
  BY <1>2, <1>3, <1>4, ChainIs DEF WalkOf
<1>6. ASSUME NEW n \in DOMAIN s
      PROVE  /\ n \in 1 .. Len(s) /\ s[n] \in Leaves(nodes)
             /\ DOMAIN nodes[s[n]].keys = 1 .. Len(nodes[s[n]].keys)
             /\ nodes[s[n]].keys \in Seq(K) /\ Ascending(nodes[s[n]].keys)
             /\ \A i \in 1 .. Len(nodes[s[n]].keys) : nodes[s[n]].keys[i] \in sp[s[n]] /\ nodes[s[n]].keys[i] \in K
  <2>1. n \in 1 .. Len(s) /\ s[n] \in Leaves(nodes) /\ s[n] \in DOMAIN nodes
    BY <1>5 DEF Leaves
  <2>2. /\ nodes[s[n]].keys \in Seq(K) /\ Ascending(nodes[s[n]].keys)
        /\ \A i \in 1 .. Len(nodes[s[n]].keys) : nodes[s[n]].keys[i] \in sp[s[n]]
    BY <1>2, <2>1, TreeNode
  <2>3. QED
    BY <2>1, <2>2
<1>7. ASSUME NEW m \in DOMAIN s, NEW n \in DOMAIN s, NEW i \in DOMAIN nodes[s[m]].keys,
             NEW j \in DOMAIN nodes[s[n]].keys, m < n \/ (m = n /\ i < j)
      PROVE  CmpKey(nodes[s[m]].keys[i], nodes[s[n]].keys[j]) < 0
  <2>1. PICK a, b : a = nodes[s[m]].keys[i] /\ b = nodes[s[n]].keys[j]
    OBVIOUS
  <2>2. a \in K /\ b \in K /\ a \in sp[s[m]] /\ b \in sp[s[n]]
    BY <2>1, <1>6
  <2>3. CASE m < n
    <3>1. Before(sp[s[m]], sp[s[n]])
      BY <2>3, <1>5, <1>6
    <3>2. Lt(a, b)
      BY <3>1, <2>2 DEF Before
    <3>3. QED
      BY <3>2, <2>1, <2>2, CmpIsLt
  <2>4. CASE m = n /\ i < j
    <3>1. Lt(a, b)
      BY <2>1, <2>4, <1>6, AscendingIn
    <3>2. QED
      BY <3>1, <2>1, <2>2, CmpIsLt
  <2>5. QED
    BY <2>3, <2>4, <1>7
<1>8. ASSUME NEW n \in DOMAIN s, NEW i \in DOMAIN nodes[s[n]].keys
      PROVE  HasKey(FindLeaf(nodes[s[n]].keys[i]), nodes[s[n]].keys[i])
  <2>1. s[n] \in Leaves(nodes) /\ i \in 1 .. Len(nodes[s[n]].keys)
    BY <1>6
  <2>2. QED
    BY <2>1, <1>2, KeyIsFound
<1>9. FirstLeaf = FirstPage
  BY <1>2, FirstLeafIs
<1>10. QED
  BY <1>3, <1>7, <1>8, <1>9

LEMMA ImpliesWellFormed ==
  ASSUME IInv
  PROVE  WellFormed
<1>1. SUFFICES ASSUME call = Idle
               PROVE  /\ nodes[root].parent = -1
                      /\ \A p \in DOMAIN nodes \ {root} :
                           /\ nodes[p].parent \in DOMAIN nodes
                           /\ ~nodes[nodes[p].parent].leaf
                           /\ Cardinality({i \in DOMAIN nodes[nodes[p].parent].ptrs :
                                             nodes[nodes[p].parent].ptrs[i] = p}) = 1
                           /\ Len(nodes[p].keys) >= MinKeys(nodes[p])
                      /\ \A p \in DOMAIN nodes : ~nodes[p].leaf =>
                           \A i \in DOMAIN nodes[p].ptrs : nodes[nodes[p].ptrs[i]].parent = p
  BY DEF WellFormed
<1>2. PICK h, sp, rk : Tree(nodes, root, h, sp, rk)
  BY <1>1, IdleSound DEF Sound
<1>3. nodes[root].parent = -1
  BY <1>2 DEF Tree, RootAt
<1>4. ASSUME NEW y \in DOMAIN nodes, ~nodes[y].leaf
      PROVE  /\ DOMAIN nodes[y].ptrs = 1 .. Len(nodes[y].keys) + 1
             /\ \A i \in DOMAIN nodes[y].ptrs : nodes[nodes[y].ptrs[i]].parent = y
             /\ \A i, j \in DOMAIN nodes[y].ptrs : nodes[y].ptrs[i] = nodes[y].ptrs[j] => i = j
  <2>1. nodes[y].ptrs \in Seq(Int)
    BY <1>2, <1>4, TreeNode
  <2>2. Len(nodes[y].ptrs) = Len(nodes[y].keys) + 1
    BY <1>2, <1>4, TreeEdge
  <2>3. DOMAIN nodes[y].ptrs = 1 .. Len(nodes[y].keys) + 1
    BY <2>1, <2>2
  <2>4. \A i \in 1 .. Len(nodes[y].keys) + 1 : nodes[nodes[y].ptrs[i]].parent = y
    BY <1>2, <1>4, TreeChild
  <2>5. \A i, j \in 1 .. Len(nodes[y].keys) + 1 : nodes[y].ptrs[i] = nodes[y].ptrs[j] => i = j
    BY <1>2, <1>4, ChildrenApart
  <2>6. QED
    BY <2>3, <2>4, <2>5
<1>5. ASSUME NEW p \in DOMAIN nodes \ {root}
      PROVE  /\ nodes[p].parent \in DOMAIN nodes
             /\ ~nodes[nodes[p].parent].leaf
             /\ Cardinality({i \in DOMAIN nodes[nodes[p].parent].ptrs :
                               nodes[nodes[p].parent].ptrs[i] = p}) = 1
             /\ Len(nodes[p].keys) >= MinKeys(nodes[p])
  <2>1. PICK y : y = nodes[p].parent
    OBVIOUS
  <2>2. y \in DOMAIN nodes /\ ~nodes[y].leaf /\ \E i \in 1 .. Len(nodes[y].keys) + 1 : nodes[y].ptrs[i] = p
    BY <1>2, <2>1, TreeUp
  <2>3. PICK i \in DOMAIN nodes[y].ptrs : nodes[y].ptrs[i] = p
    BY <2>2, <1>4
  <2>4. {j \in DOMAIN nodes[y].ptrs : nodes[y].ptrs[j] = p} = {i}
    BY <2>2, <2>3, <1>4
  <2>5. Cardinality({i}) = 1
    BY FS_Singleton
  <2>6. Len(nodes[p].keys) >= MinKeys(nodes[p])
    BY <1>1 DEF IInv, Sizes, SiblingCalls, Idle, Enough
  <2>7. QED
    BY <2>1, <2>2, <2>4, <2>5, <2>6
<1>6. QED
  BY <1>3, <1>4, <1>5

-----------------------------------------------------------------------------
(* A node is split, and its parent is still to be told *)

\* ms is ns with page p divided into p and the new q
RawSplit(ns, ms, p, q) ==
  /\ p \in DOMAIN ns /\ q \in PageIds \ DOMAIN ns /\ DOMAIN ms = DOMAIN ns \cup {q} /\ NodesOK(ms)
  /\ ms[p].leaf = ns[p].leaf /\ ms[q].leaf = ns[p].leaf
  /\ ms[p].parent = ns[p].parent /\ ms[q].parent = ns[p].parent
  /\ \A x \in DOMAIN ns \ {p} : SameBody(ns, ms, x)
  /\ \A x \in DOMAIN ns : ns[x].parent # p => ms[x].parent = ns[x].parent

Halved(ns, ms, p, q, s, key) == HalfLeaves(ns, ms, p, q, s, key) \/ HalfInners(ns, ms, p, q, s, key)

LEMMA HalvedTree ==
  ASSUME NEW ns, NEW r, NEW h, NEW sp, NEW rk, Tree(ns, r, h, sp, rk),
         NEW ms, NEW p, NEW q, NEW y, NEW i, NEW key, SplitBody(ns, ms, p, q, y, i, key),
         NEW s, Halved(ns, ms, p, q, s, key)
  PROVE  Sound(ms, r)
<1>1. PICK hh, sq, rj : hh = SplitHeights(h, p, q) /\ sq = SplitSpans(sp, p, q, key) /\ rj = SplitRanks(rk, p, q)
  OBVIOUS
<1>2. Tree(ms, r, hh, sq, rj)
  BY <1>1, SplitLeaf, SplitInner DEF Halved
<1>3. QED
  BY <1>2, SoundIs

\* The halves of a node are also halves when all nodes but p and q are renewed.
LEMMA HalvedKept ==
  ASSUME NEW ns, NEW ms, NEW p, NEW q, NEW s, NEW key, Halved(ns, ms, p, q, s, key),
         NEW gs, NEW ws, gs[p].leaf = ns[p].leaf, SameBody(ns, gs, p), SameBody(ms, ws, p), SameBody(ms, ws, q),
         ~ns[p].leaf => \A j \in 1 .. Len(ns[p].keys) + 1 : ws[ns[p].ptrs[j]].parent = ms[ns[p].ptrs[j]].parent,
         Len(ns[p].keys) \in Nat
  PROVE  Halved(gs, ws, p, q, s, key)
<1>1. /\ gs[p].keys = ns[p].keys /\ gs[p].ptrs = ns[p].ptrs /\ gs[p].next = ns[p].next
      /\ ws[p].keys = ms[p].keys /\ ws[p].ptrs = ms[p].ptrs /\ ws[p].next = ms[p].next
      /\ ws[q].keys = ms[q].keys /\ ws[q].ptrs = ms[q].ptrs /\ ws[q].next = ms[q].next
  BY DEF SameBody
<1>2. CASE HalfLeaves(ns, ms, p, q, s, key)
  <2>1. HalfLeaves(gs, ws, p, q, s, key)
    BY <1>1, <1>2 DEF HalfLeaves
  <2>2. QED
    BY <2>1 DEF Halved
<1>3. CASE HalfInners(ns, ms, p, q, s, key)
  <2>1. ~ns[p].leaf /\ s \in 1 .. Len(ns[p].keys)
    BY <1>3 DEF HalfInners
  <2>2. \A j \in 1 .. s : ws[gs[p].ptrs[j]].parent = p
    <3>1. SUFFICES ASSUME NEW j \in 1 .. s PROVE ws[ns[p].ptrs[j]].parent = p
      BY <1>1
    <3>2. j \in 1 .. Len(ns[p].keys) + 1
      BY <2>1
    <3>3. ms[ns[p].ptrs[j]].parent = p
      BY <1>3 DEF HalfInners
    <3>4. QED
      BY <2>1, <3>2, <3>3
  <2>3. \A j \in s + 1 .. Len(ns[p].keys) + 1 : ws[gs[p].ptrs[j]].parent = q
    <3>1. SUFFICES ASSUME NEW j \in s + 1 .. Len(ns[p].keys) + 1 PROVE ws[ns[p].ptrs[j]].parent = q
      BY <1>1
    <3>2. j \in 1 .. Len(ns[p].keys) + 1
      BY <2>1
    <3>3. ms[ns[p].ptrs[j]].parent = q
      BY <1>3 DEF HalfInners
    <3>4. QED
      BY <2>1, <3>2, <3>3
  <2>4. HalfInners(gs, ws, p, q, s, key)
    BY <1>1, <1>3, <2>2, <2>3 DEF HalfInners
  <2>5. QED
    BY <2>4 DEF Halved
<1>4. QED
  BY <1>2, <1>3 DEF Halved

LEMMA SplitUnder ==
  ASSUME NEW ns, NEW r, NEW h, NEW sp, NEW rk, Tree(ns, r, h, sp, rk),
         NEW ms, NEW p, NEW q, RawSplit(ns, ms, p, q), NEW s, NEW key \in Entries, Halved(ns, ms, p, q, s, key),
         p # r, NEW y, y = ns[p].parent, NEW ws, ws = WithChild(ms, y, p, key, q)
  PROVE  Sound(ws, r)
<1>1. /\ p \in DOMAIN ns /\ q \in PageIds /\ q \notin DOMAIN ns /\ DOMAIN ms = DOMAIN ns \cup {q}
      /\ \A x \in DOMAIN ms : ms[x] \in NodeType /\ x \in PageIds
  BY DEF RawSplit, NodesOK
<1>2. y \in DOMAIN ns /\ ~ns[y].leaf /\ \E i \in 1 .. Len(ns[y].keys) + 1 : ns[y].ptrs[i] = p
  BY <1>1, TreeUp
<1>3. y # p /\ y # q
  BY <1>1, <1>2, TreeParent
<1>4. PICK i \in 1 .. Len(ns[y].keys) + 1 : ns[y].ptrs[i] = p
  BY <1>2
<1>5. /\ ms[y].leaf = ns[y].leaf /\ ms[y].keys = ns[y].keys /\ ms[y].ptrs = ns[y].ptrs /\ ms[y].next = ns[y].next
  BY <1>2, <1>3 DEF RawSplit, SameBody
<1>6. ns[y].next = 0 /\ Len(ns[y].ptrs) = Len(ns[y].keys) + 1 /\ Len(ns[y].keys) \in Nat
  BY <1>2, TreeEdge
<1>7. ms[y].ptrs \in Seq(Int) /\ ms[y].keys \in Seq(Entries)
  BY <1>1, <1>2, NodeFields
<1>8. PlaceIn(ms[y].ptrs, p) = i
  <2>1. \A j \in 1 .. Len(ns[y].keys) + 1 : ns[y].ptrs[j] = ns[y].ptrs[i] => j = i
    BY <1>2, ChildrenApart
  <2>2. i \in 1 .. Len(ms[y].ptrs) /\ ms[y].ptrs[i] = p
        /\ \A j \in 1 .. Len(ms[y].ptrs) : ms[y].ptrs[j] = p => j = i
    BY <2>1, <1>4, <1>5, <1>6
  <2>3. PICK us : us = ms[y].ptrs
    OBVIOUS
  <2>4. us \in Seq(Int) /\ i \in 1 .. Len(us) /\ us[i] = p /\ \A j \in 1 .. Len(us) : us[j] = p => j = i
    BY <2>2, <2>3, <1>7
  <2>5. PlaceIn(us, p) = i
    BY <2>4, PlaceInIs
  <2>6. QED
    BY <2>3, <2>5
<1>9. PICK ks, ps : ks = InsertAt(ms[y].keys, i, key) /\ ps = InsertAt(ms[y].ptrs, i + 1, q)
  OBVIOUS
<1>10. Rewritten(ms, ws, y, ks, ps)
  BY <1>1, <1>2, <1>8, <1>9, WithChildIs
<1>11. ks \in Seq(Entries)
  BY <1>5, <1>7, <1>9, Inserted
<1>12. ps \in Seq(Int)
  <2>1. i + 1 \in 1 .. Len(ms[y].ptrs) + 1 /\ q \in Int
    BY <1>1, <1>5, <1>6 DEF PageIds
  <2>2. PICK n : n = i + 1
    OBVIOUS
  <2>3. n \in 1 .. Len(ms[y].ptrs) + 1 /\ ps = InsertAt(ms[y].ptrs, n, q)
    BY <2>1, <2>2, <1>9
  <2>4. QED
    BY <2>1, <2>3, <1>7, Inserted
<1>13. /\ DOMAIN ws = DOMAIN ms /\ \A x \in DOMAIN ms \ {y} : ws[x] = ms[x]
       /\ ws[y].leaf = ms[y].leaf /\ ws[y].parent = ms[y].parent /\ ws[y].next = ms[y].next
       /\ ws[y].keys = ks /\ ws[y].ptrs = ps /\ ws[y] \in NodeType
  BY <1>10, <1>11, <1>12 DEF Rewritten
<1>14. NodesOK(ws)
  BY <1>1, <1>13 DEF NodesOK
<1>15. ws[p] = ms[p] /\ ws[q] = ms[q] /\ \A x \in DOMAIN ms : ws[x].parent = ms[x].parent
  BY <1>1, <1>3, <1>13
<1>16. \A x \in DOMAIN ns \ {p, y} : SameBody(ns, ws, x)
  BY <1>1, <1>13 DEF RawSplit, SameBody
<1>17. \A x \in DOMAIN ns : ns[x].parent # p => ws[x].parent = ns[x].parent
  BY <1>1, <1>15 DEF RawSplit
<1>18. ws[p].leaf = ns[p].leaf /\ ws[q].leaf = ns[p].leaf /\ ws[q].parent = y
  BY <1>15 DEF RawSplit
<1>19. SplitBody(ns, ws, p, q, y, i, key)
  <2>1. ws[y].leaf = ns[y].leaf /\ ws[y].next = 0 /\ ws[y].keys = InsertAt(ns[y].keys, i, key)
        /\ ws[y].ptrs = InsertAt(ns[y].ptrs, i + 1, q)
    BY <1>5, <1>6, <1>9, <1>13
  <2>2. DOMAIN ws = DOMAIN ns \cup {q} /\ q \in PageIds \ DOMAIN ns
    BY <1>1, <1>13
  <2>3. QED
    BY <2>1, <2>2, <1>2, <1>4, <1>14, <1>16, <1>17, <1>18 DEF SplitBody
<1>20. Halved(ns, ws, p, q, s, key)
  <2>1. SameBody(ns, ns, p) /\ SameBody(ms, ws, p) /\ SameBody(ms, ws, q)
    BY <1>15 DEF SameBody
  <2>2. ASSUME ~ns[p].leaf, NEW j \in 1 .. Len(ns[p].keys) + 1
        PROVE  ws[ns[p].ptrs[j]].parent = ms[ns[p].ptrs[j]].parent
    <3>1. ns[p].ptrs[j] \in DOMAIN ns
      BY <1>1, <2>2, TreeChild
    <3>2. QED
      BY <3>1, <1>1, <1>15
  <2>3. ns[p].keys \in Seq(K)
    BY <1>1, TreeNode
  <2>4. QED
    BY <2>1, <2>2, <2>3, HalvedKept
<1>21. QED
  BY <1>19, <1>20, HalvedTree

LEMMA FirstChild ==
  ASSUME NEW key \in Entries, NEW p \in Int, NEW q \in Int
  PROVE  InsertAt(<<>>, 1, key) = <<key>> /\ InsertAt(<<p>>, 2, q) = <<p, q>>
<1>1. PICK a, b, one, two : a = <<>> /\ b = <<p>> /\ one = 1 /\ two = 2
  OBVIOUS
<1>2. a \in Seq(Entries) /\ Len(a) = 0 /\ b \in Seq(Int) /\ Len(b) = 1 /\ b[1] = p
  BY <1>1
<1>3. one \in 1 .. Len(a) + 1 /\ two \in 1 .. Len(b) + 1
  BY <1>1, <1>2
<1>4. PICK c, d : c = InsertAt(a, one, key) /\ d = InsertAt(b, two, q)
  OBVIOUS
<1>5. c \in Seq(Entries) /\ InsertedSeq(a, one, key, c)
  BY <1>2, <1>3, <1>4, Inserted
<1>6. d \in Seq(Int) /\ InsertedSeq(b, two, q, d)
  BY <1>2, <1>3, <1>4, Inserted
<1>7. Len(c) = 1 /\ c[1] = key
  BY <1>1, <1>2, <1>5 DEF InsertedSeq
<1>8. Len(d) = 2 /\ d[1] = p /\ d[2] = q
  BY <1>1, <1>2, <1>6 DEF InsertedSeq
<1>9. c = <<key>>
  BY <1>5, <1>7
<1>10. d = <<p, q>>
  BY <1>6, <1>8
<1>11. QED
  BY <1>1, <1>4, <1>9, <1>10

LEMMA SplitAtRoot ==
  ASSUME NEW ns, NEW r, NEW h, NEW sp, NEW rk, Tree(ns, r, h, sp, rk),
         NEW ms, NEW p, NEW q, RawSplit(ns, ms, p, q), NEW s, NEW key \in Entries, Halved(ns, ms, p, q, s, key),
         p = r, NEW t, t \in PageIds, t \notin DOMAIN ms, NEW ws, ws = WithRoot(ms, t, p, key, q)
  PROVE  Sound(ws, t)
<1>1. /\ p \in DOMAIN ns /\ q \in PageIds /\ q \notin DOMAIN ns /\ DOMAIN ms = DOMAIN ns \cup {q}
      /\ \A x \in DOMAIN ms : ms[x] \in NodeType /\ x \in PageIds
  BY DEF RawSplit, NodesOK
<1>2. t # p /\ t # q /\ t \notin DOMAIN ns /\ \A x \in PageIds : x \in Int
  BY <1>1 DEF PageIds
<1>3. DOMAIN ns \subseteq PageIds /\ \A x \in DOMAIN ns : ns[x] \in NodeType
  BY DEF Tree, NodesOK
<1>4. PICK as : as = Adopt(ns, {p}, t)
  OBVIOUS
<1>5. Adopted(ns, as, {p}, t)
  BY <1>2, <1>3, <1>4, AdoptedIs
<1>6. DOMAIN as = DOMAIN ns /\ (\A x \in DOMAIN ns \ {p} : as[x] = ns[x]) /\ Moved(ns[p], as[p], t)
  BY <1>1, <1>5 DEF Adopted
<1>7. PICK n : n = Inner(-1, <<>>, <<p>>)
  OBVIOUS
<1>8. n \in NodeType /\ n.leaf = FALSE /\ n.parent = -1 /\ n.keys = <<>> /\ n.ptrs = <<p>> /\ n.next = 0
  <2>1. n = [leaf |-> FALSE, parent |-> -1, keys |-> <<>>, ptrs |-> <<p>>, next |-> 0]
    BY <1>7 DEF Inner
  <2>2. <<>> \in Seq(Entries) /\ <<p>> \in Seq(Int)
    BY <1>1, <1>2
  <2>3. n \in NodeType
    BY <2>1, <2>2 DEF NodeType
  <2>4. QED
    BY <2>1, <2>3
<1>9. PICK gs : gs = Put(as, t, n)
  OBVIOUS
<1>10. DOMAIN gs = DOMAIN ns \cup {t} /\ gs[t] = n /\ \A x \in DOMAIN ns : gs[x] = as[x]
  <2>1. DOMAIN gs = DOMAIN as \cup {t} /\ gs[t] = n /\ \A x \in DOMAIN as \ {t} : gs[x] = as[x]
    BY <1>9 DEF Put
  <2>2. QED
    BY <2>1, <1>2, <1>6
<1>11. NodesOK(gs)
  BY <1>3, <1>6, <1>8, <1>10 DEF NodesOK, Moved
<1>12. gs[p].parent = t /\ SameBody(ns, gs, p) /\ gs[p].leaf = ns[p].leaf
  BY <1>1, <1>6, <1>10 DEF Moved, SameBody
<1>13. \A x \in DOMAIN ns \ {p} : gs[x] = ns[x]
  BY <1>6, <1>10
<1>14. GrowBody(ns, gs, r, t)
  <2>1. \A x \in DOMAIN ns : SameBody(ns, gs, x)
    BY <1>12, <1>13 DEF SameBody
  <2>2. \A x \in DOMAIN ns \ {r} : gs[x].parent = ns[x].parent
    BY <1>13
  <2>3. gs[t] = Inner(-1, <<>>, <<r>>)
    BY <1>7, <1>10
  <2>4. t \in PageIds \ DOMAIN ns /\ DOMAIN gs = DOMAIN ns \cup {t}
    BY <1>2, <1>10
  <2>5. QED
    BY <2>1, <2>2, <2>3, <2>4, <1>11, <1>12 DEF GrowBody
<1>15. PICK hh, sq : hh = GrowHeights(h, r, t) /\ sq = GrowSpans(sp, t)
  OBVIOUS
<1>16. Tree(gs, t, hh, sq, rk)
  BY <1>14, <1>15, GrowTree
<1>17. Rooted(ms, ws, t, p, key, q)
  BY <1>1, <1>2, WithRootIs
<1>18. /\ DOMAIN ws = DOMAIN ms \cup {t}
       /\ ws[t].leaf = FALSE /\ ws[t].parent = -1 /\ ws[t].next = 0
       /\ ws[t].keys = <<key>> /\ ws[t].ptrs = <<p, q>>
       /\ \A x \in DOMAIN ms \ {p, q} : ws[x] = ms[x]
       /\ Moved(ms[p], ws[p], t) /\ Moved(ms[q], ws[q], t)
       /\ \A x \in DOMAIN ws : ws[x] \in NodeType
  BY <1>1, <1>17 DEF Rooted
<1>19. /\ ws[p].parent = t /\ ws[q].parent = t /\ ws[p].leaf = ms[p].leaf /\ ws[q].leaf = ms[q].leaf
       /\ SameBody(ms, ws, p) /\ SameBody(ms, ws, q)
  BY <1>18 DEF Moved, SameBody
<1>20. SplitBody(gs, ws, p, q, t, 1, key)
  <2>1. t \in DOMAIN gs /\ ~gs[t].leaf /\ gs[t].keys = <<>> /\ gs[t].ptrs = <<p>>
    BY <1>8, <1>10
  <2>2. 1 \in 1 .. Len(gs[t].keys) + 1 /\ gs[t].ptrs[1] = p
    BY <2>1
  <2>3. q \in PageIds \ DOMAIN gs /\ DOMAIN ws = DOMAIN gs \cup {q}
    BY <1>1, <1>2, <1>10, <1>18
  <2>4. NodesOK(ws)
    BY <1>1, <1>18 DEF NodesOK
  <2>5. ws[t].leaf = gs[t].leaf /\ ws[t].next = 0
    BY <1>8, <1>10, <1>18
  <2>6. ws[t].keys = InsertAt(gs[t].keys, 1, key) /\ ws[t].ptrs = InsertAt(gs[t].ptrs, 1 + 1, q)
    <3>1. 1 + 1 = 2
      OBVIOUS
    <3>2. QED
      BY <3>1, <2>1, <1>1, <1>2, <1>3, <1>18, FirstChild
  <2>7. ws[p].leaf = gs[p].leaf /\ ws[q].leaf = gs[p].leaf
    BY <1>12, <1>19 DEF RawSplit
  <2>8. ASSUME NEW x \in DOMAIN gs \ {p, t} PROVE SameBody(gs, ws, x)
    <3>1. x \in DOMAIN ns \ {p} /\ gs[x] = ns[x] /\ ws[x] = ms[x]
      BY <1>1, <1>10, <1>13, <1>18
    <3>2. SameBody(ns, ms, x)
      BY <3>1 DEF RawSplit
    <3>3. QED
      BY <3>1, <3>2 DEF SameBody
  <2>9. ASSUME NEW x \in DOMAIN gs, gs[x].parent # p PROVE ws[x].parent = gs[x].parent
    <3>1. CASE x = t
      BY <3>1, <1>8, <1>10, <1>18
    <3>2. CASE x = p
      BY <3>2, <1>12, <1>19
    <3>3. CASE x \in DOMAIN ns \ {p}
      <4>1. gs[x] = ns[x] /\ ws[x] = ms[x]
        BY <3>3, <1>1, <1>13, <1>18
      <4>2. ms[x].parent = ns[x].parent
        BY <3>3, <4>1, <2>9 DEF RawSplit
      <4>3. QED
        BY <4>1, <4>2
    <3>4. QED
      BY <3>1, <3>2, <3>3, <1>10
  <2>10. QED
    BY <2>1, <2>2, <2>3, <2>4, <2>5, <2>6, <2>7, <2>8, <2>9, <1>19 DEF SplitBody
<1>21. Halved(gs, ws, p, q, s, key)
  <2>1. ASSUME ~ns[p].leaf, NEW j \in 1 .. Len(ns[p].keys) + 1
        PROVE  ws[ns[p].ptrs[j]].parent = ms[ns[p].ptrs[j]].parent
    <3>1. ns[p].ptrs[j] \in DOMAIN ns /\ ns[p].ptrs[j] # p
      BY <1>1, <2>1, TreeChild
    <3>2. QED
      BY <3>1, <1>1, <1>18
  <2>2. ns[p].keys \in Seq(K)
    BY <1>1, TreeNode
  <2>3. QED
    BY <2>1, <2>2, <1>12, <1>19, HalvedKept
<1>22. QED
  BY <1>16, <1>20, <1>21, HalvedTree

\* Either way, what the pending call completes is a search tree.
LEMMA SplitSound ==
  ASSUME NEW ns, NEW r, Sound(ns, r),
         NEW ms, NEW p, NEW q, RawSplit(ns, ms, p, q), NEW s, NEW key \in Entries, Halved(ns, ms, p, q, s, key),
         DOMAIN ms \subseteq Pages, NEW c, c = ToParent(ns[p].parent, p, key, q)
  PROVE  /\ Sound(Whole(ms, c), WholeRoot(ms, r, c))
         /\ CallFits(ms, r, c)
<1>1. PICK h, sp, rk : Tree(ns, r, h, sp, rk)
  BY DEF Sound
<1>2. p \in DOMAIN ns /\ q \in DOMAIN ms /\ p \in DOMAIN ms /\ p # q
  BY DEF RawSplit
<1>3. /\ c.fn = "insert_into_parent" /\ c.page = ns[p].parent /\ c.left = p /\ c.key = key /\ c.right = q
  BY DEF ToParent
<1>4. p = r <=> ns[p].parent = -1
  BY <1>1, <1>2, TreeUp
<1>5. Sound(Whole(ms, c), WholeRoot(ms, r, c))
  <2>1. CASE p = r
    <3>1. PICK t : t = RootPage(ms)
      OBVIOUS
    <3>2. t \in PageIds /\ t \notin DOMAIN ms
      BY <3>1, RootPageIs
    <3>3. PICK ws : ws = WithRoot(ms, t, p, key, q)
      OBVIOUS
    <3>4. Sound(ws, t)
      BY <1>1, <2>1, <3>2, <3>3, SplitAtRoot
    <3>5. Whole(ms, c) = ws /\ WholeRoot(ms, r, c) = t
      BY <1>3, <1>4, <2>1, <3>1, <3>3, WholeCases
    <3>6. QED
      BY <3>4, <3>5
  <2>2. CASE p # r
    <3>1. PICK y : y = ns[p].parent
      OBVIOUS
    <3>2. PICK ws : ws = WithChild(ms, y, p, key, q)
      OBVIOUS
    <3>3. Sound(ws, r)
      BY <1>1, <2>2, <3>1, <3>2, SplitUnder
    <3>4. Whole(ms, c) = ws /\ WholeRoot(ms, r, c) = r
      BY <1>3, <1>4, <2>2, <3>1, <3>2, WholeCases
    <3>5. QED
      BY <3>3, <3>4
  <2>3. QED
    BY <2>1, <2>2
<1>6. InsertFits(ms, r, c)
  <2>1. ms[p].parent = c.page /\ ms[q].parent = c.page
    BY <1>3 DEF RawSplit
  <2>2. ASSUME c.page # -1
        PROVE  /\ c.page \in DOMAIN ms /\ ~ms[c.page].leaf
               /\ \E i \in 1 .. Len(ms[c.page].ptrs) : ms[c.page].ptrs[i] = p
    <3>1. PICK y : y = c.page
      OBVIOUS
    <3>2. y \in DOMAIN ns /\ ~ns[y].leaf /\ \E i \in 1 .. Len(ns[y].keys) + 1 : ns[y].ptrs[i] = p
      BY <1>1, <1>2, <1>3, <1>4, <2>2, <3>1, TreeUp
    <3>3. Len(ns[y].ptrs) = Len(ns[y].keys) + 1 /\ y # p
      BY <1>1, <1>2, <1>3, <3>1, <3>2, TreeEdge, TreeParent
    <3>4. y \in DOMAIN ms /\ ms[y].leaf = ns[y].leaf /\ ms[y].ptrs = ns[y].ptrs
      BY <3>2, <3>3 DEF RawSplit, SameBody
    <3>5. QED
      BY <3>1, <3>2, <3>3, <3>4
  <2>3. QED
    BY <1>2, <1>3, <1>4, <2>1, <2>2 DEF InsertFits
<1>7. QED
  BY <1>3, <1>5, <1>6 DEF CallFits

-----------------------------------------------------------------------------
(* The type of the state *)

LEMMA ImpliesType ==
  ASSUME IInv
  PROVE  TypeOK
<1>1. PICK ws : ws = Whole(nodes, call)
  OBVIOUS
<1>2. SameLeaves(nodes, ws)
  BY <1>1, WholeLeaves DEF IInv, Shapes
<1>3. PICK r, h, sp, rk : Tree(ws, r, h, sp, rk)
  BY <1>1 DEF IInv, Sound
<1>4. DOMAIN nodes \subseteq Pages /\ root \in DOMAIN nodes /\ unique \in BOOLEAN /\ leaked \subseteq DOMAIN nodes
  BY DEF IInv, Shapes, Leaves
<1>5. FirstPage \in DOMAIN nodes
  BY <1>2, <1>3 DEF SameLeaves, Tree, ChainOK, Leaves
<1>6. ASSUME NEW x \in DOMAIN nodes PROVE nodes[x].next \in DOMAIN nodes \cup {0}
  <2>1. x \in DOMAIN ws /\ ws[x].next = nodes[x].next /\ Leaves(ws) = Leaves(nodes)
    BY <1>2 DEF SameLeaves
  <2>2. CASE nodes[x].leaf
    <3>1. x \in Leaves(ws) /\ Nexts(ws)[x] = nodes[x].next
      BY <2>1, <2>2 DEF Leaves, Nexts
    <3>2. NextAt(Leaves(ws), sp, Nexts(ws), rk, x)
      BY <3>1, <1>3 DEF Tree, ChainOK
    <3>3. nodes[x].next = 0 \/ nodes[x].next \in Leaves(nodes)
      BY <3>1, <3>2, <2>1 DEF NextAt
    <3>4. QED
      BY <3>3 DEF Leaves
  <2>3. CASE ~nodes[x].leaf
    <3>1. ~ws[x].leaf
      BY <2>1, <2>3 DEF Leaves
    <3>2. ws[x].next = 0
      BY <3>1, <2>1, <1>3, TreeEdge
    <3>3. QED
      BY <3>2, <2>1
  <2>4. QED
    BY <2>2, <2>3
<1>7. ASSUME NEW x \in DOMAIN nodes
      PROVE  /\ nodes[x].leaf \in BOOLEAN
             /\ nodes[x].parent \in Pages \cup {-1}
             /\ nodes[x].keys \in Seq(Entries) /\ Len(nodes[x].keys) < Order
             /\ nodes[x].ptrs \in Seq(IF nodes[x].leaf THEN Rids ELSE Pages)
             /\ Len(nodes[x].ptrs) = Len(nodes[x].keys) + (IF nodes[x].leaf THEN 0 ELSE 1)
  <2>1. nodes[x] \in NodeType /\ Shape(nodes[x])
    BY DEF IInv, NodesOK, Shapes
  <2>2. nodes[x].leaf \in BOOLEAN /\ nodes[x].keys \in Seq(Entries)
    BY <2>1, NodeFields
  <2>3. QED
    BY <2>1, <2>2 DEF Shape
<1>8. QED
  BY <1>4, <1>5, <1>6, <1>7 DEF TypeOK

LEMMA SeqMono ==
  ASSUME NEW S, NEW T, S \subseteq T, NEW s \in Seq(S)
  PROVE  s \in Seq(T)
OBVIOUS

\* What a change of one node leaves alone
LEMMA RewrittenShapes ==
  ASSUME NEW ns, Shapes(ns), NodesOK(ns), NEW ms, NEW p \in DOMAIN ns, NEW ks \in Seq(Entries), NEW ps,
         Rewritten(ns, ms, p, ks, ps),
         Len(ks) < Order, ps \in Seq(IF ns[p].leaf THEN Rids ELSE Pages),
         Len(ps) = Len(ks) + (IF ns[p].leaf THEN 0 ELSE 1)
  PROVE  Shapes(ms) /\ NodesOK(ms)
<1>1. ps \in Seq(Int)
  <2>1. Rids \subseteq Int /\ Pages \subseteq Int
    BY EntriesAssumption DEF Rids, Pages
  <2>2. CASE ns[p].leaf
    <3>1. ps \in Seq(Rids)
      BY <2>2
    <3>2. QED
      BY <3>1, <2>1, SeqMono
  <2>3. CASE ~ns[p].leaf
    <3>1. ps \in Seq(Pages)
      BY <2>3
    <3>2. QED
      BY <3>1, <2>1, SeqMono
  <2>4. QED
    BY <2>2, <2>3
<1>2. /\ DOMAIN ms = DOMAIN ns /\ \A x \in DOMAIN ns \ {p} : ms[x] = ns[x]
      /\ ms[p].leaf = ns[p].leaf /\ ms[p].parent = ns[p].parent /\ ms[p].keys = ks /\ ms[p].ptrs = ps
      /\ ms[p] \in NodeType
  BY <1>1 DEF Rewritten
<1>3. Shape(ms[p])
  <2>1. ms[p].parent \in Pages \cup {-1}
    BY <1>2 DEF Shapes, Shape
  <2>2. QED
    BY <2>1, <1>2 DEF Shape
<1>4. QED
  BY <1>2, <1>3 DEF Shapes, NodesOK

LEMMA RewrittenSizes ==
  ASSUME NEW ns, NEW ms, NEW p \in DOMAIN ns, NEW ks, NEW ps, Rewritten(ns, ms, p, ks, ps)
  PROVE  /\ \A x \in DOMAIN ns \ {p} : Enough(ms, x) <=> Enough(ns, x)
         /\ MinKeys(ms[p]) = MinKeys(ns[p])
         /\ Len(ms[p].keys) = Len(ks)
         /\ Leaves(ms) = Leaves(ns)
<1>1. \A x \in DOMAIN ns : ms[x].leaf = ns[x].leaf
  BY DEF Rewritten
<1>2. Leaves(ms) = Leaves(ns)
  BY <1>1 DEF Rewritten, Leaves
<1>3. \A x \in DOMAIN ns \ {p} : Enough(ms, x) <=> Enough(ns, x)
  BY DEF Rewritten, Enough
<1>4. MinKeys(ms[p]) = MinKeys(ns[p])
  BY <1>1 DEF MinKeys
<1>5. QED
  BY <1>2, <1>3, <1>4 DEF Rewritten

\* A step that changes no node
LEMMA Quiet ==
  ASSUME IInv, UNCHANGED <<nodes, root, unique, call>>, leaked' \subseteq Leaves(nodes),
         ScanFits(nodes, call, scan')
  PROVE  IInv'
BY DEF IInv

-----------------------------------------------------------------------------
(* Scanning *)

\* sc has been moved to page p, and the page after it is next.
ScanAt(sc, t, p, next) ==
  /\ DOMAIN t = ScanFields
  /\ t.open = sc.open /\ t.stable = sc.stable
  /\ t.page = p /\ t.next = next

LEMMA ScanAtIs ==
  ASSUME NEW sc, DOMAIN sc = ScanFields, NEW p, NEW i, NEW d, NEW z
  PROVE  ScanAt(sc, [sc EXCEPT !.page = p, !.idx = i, !.done = d, !.seen = z], p, sc.next)
<1>1. PICK a : a = [sc EXCEPT !.page = p]
  OBVIOUS
<1>2. DOMAIN a = ScanFields /\ a.open = sc.open /\ a.stable = sc.stable /\ a.next = sc.next /\ a.page = p
  BY <1>1 DEF ScanFields
<1>3. PICK b : b = [a EXCEPT !.idx = i]
  OBVIOUS
<1>4. DOMAIN b = ScanFields /\ b.open = sc.open /\ b.stable = sc.stable /\ b.next = sc.next /\ b.page = p
  BY <1>2, <1>3 DEF ScanFields
<1>5. PICK c : c = [b EXCEPT !.done = d]
  OBVIOUS
<1>6. DOMAIN c = ScanFields /\ c.open = sc.open /\ c.stable = sc.stable /\ c.next = sc.next /\ c.page = p
  BY <1>4, <1>5 DEF ScanFields
<1>7. PICK e : e = [c EXCEPT !.seen = z]
  OBVIOUS
<1>8. DOMAIN e = ScanFields /\ e.open = sc.open /\ e.stable = sc.stable /\ e.next = sc.next /\ e.page = p
  BY <1>6, <1>7 DEF ScanFields
<1>9. QED
  BY <1>1, <1>3, <1>5, <1>7, <1>8 DEF ScanAt

LEMMA ScanLeft ==
  ASSUME NEW sc, DOMAIN sc = ScanFields, NEW p, NEW i, NEW d
  PROVE  /\ ScanAt(sc, [sc EXCEPT !.page = p, !.done = d, !.idx = i], p, sc.next)
         /\ ScanAt(sc, [sc EXCEPT !.page = p, !.idx = i, !.done = d], p, sc.next)
<1>1. PICK a : a = [sc EXCEPT !.page = p]
  OBVIOUS
<1>2. DOMAIN a = ScanFields /\ a.open = sc.open /\ a.stable = sc.stable /\ a.next = sc.next /\ a.page = p
  BY <1>1 DEF ScanFields
<1>3. PICK b, c : b = [a EXCEPT !.done = d] /\ c = [a EXCEPT !.idx = i]
  OBVIOUS
<1>4. DOMAIN b = ScanFields /\ b.open = sc.open /\ b.stable = sc.stable /\ b.next = sc.next /\ b.page = p
  BY <1>2, <1>3 DEF ScanFields
<1>5. DOMAIN c = ScanFields /\ c.open = sc.open /\ c.stable = sc.stable /\ c.next = sc.next /\ c.page = p
  BY <1>2, <1>3 DEF ScanFields
<1>6. PICK e, f : e = [b EXCEPT !.idx = i] /\ f = [c EXCEPT !.done = d]
  OBVIOUS
<1>7. DOMAIN e = ScanFields /\ e.open = sc.open /\ e.stable = sc.stable /\ e.next = sc.next /\ e.page = p
  BY <1>4, <1>6 DEF ScanFields
<1>8. DOMAIN f = ScanFields /\ f.open = sc.open /\ f.stable = sc.stable /\ f.next = sc.next /\ f.page = p
  BY <1>5, <1>6 DEF ScanFields
<1>9. QED
  BY <1>1, <1>3, <1>6, <1>7, <1>8 DEF ScanAt

LEMMA ScanFieldSet ==
  ASSUME NEW sc, DOMAIN sc = ScanFields, NEW v
  PROVE  /\ DOMAIN [sc EXCEPT !.next = v] = ScanFields
         /\ [sc EXCEPT !.next = v].open = sc.open /\ [sc EXCEPT !.next = v].stable = sc.stable
         /\ [sc EXCEPT !.next = v].page = sc.page /\ [sc EXCEPT !.next = v].next = v
         /\ DOMAIN [sc EXCEPT !.eof = v] = ScanFields
         /\ [sc EXCEPT !.eof = v].open = sc.open /\ [sc EXCEPT !.eof = v].stable = sc.stable
         /\ [sc EXCEPT !.eof = v].page = sc.page /\ [sc EXCEPT !.eof = v].next = sc.next
BY DEF ScanFields

LEMMA ScanIsOpen ==
  ASSUME IInv, scan.open
  PROVE  OpenScan(nodes, call, scan)
<1>1. scan # NoScan
  BY DEF NoScan
<1>2. QED
  BY <1>1 DEF IInv, ScanFits

LEMMA ScanMoved ==
  ASSUME NEW ns, NEW c, NEW sc, OpenScan(ns, c, sc), NEW t, NEW p \in Leaves(ns) \cup {0}, ScanAt(sc, t, p, sc.next)
  PROVE  ScanFits(ns, c, t)
BY DEF OpenScan, ScanAt, ScanFits

LEMMA NotANode ==
  ASSUME IInv
  PROVE  0 \notin DOMAIN nodes /\ -1 \notin DOMAIN nodes
BY DEF IInv, Shapes, Pages

LEMMA AttrsInt == \A v \in Attrs : v \in Int
BY EntriesAssumption DEF Attrs

LEMMA InvScanOpen ==
  ASSUME IInv, Eps = 1, NEW op, NEW v \in Attrs, ScanOpen(op, v)
  PROVE  IInv'
<1>1. call = Idle /\ UNCHANGED <<nodes, root, unique, call>>
  BY DEF ScanOpen
<1>2. PICK h, sp, rk : Tree(nodes, root, h, sp, rk)
  BY <1>1, IdleSound DEF Sound
<1>3. PICK f : f = FindFirst(op, v)
  OBVIOUS
<1>4. f.page \in Leaves(nodes) \cup {-1} /\ f.leaks \subseteq Leaves(nodes)
  BY <1>2, <1>3, AttrsInt, FindFirstPages
<1>5. leaked' = leaked \cup f.leaks
  BY <1>3 DEF ScanOpen, Leak
<1>6. leaked' \subseteq Leaves(nodes)
  BY <1>4, <1>5 DEF IInv
<1>7. scan' = [open |-> TRUE, op |-> op, val |-> v, page |-> 0, done |-> FALSE,
               next |-> f.page, idx |-> f.idx, seen |-> {}, stable |-> TRUE, eof |-> FALSE]
  BY <1>3 DEF ScanOpen
<1>8. DOMAIN scan' = ScanFields /\ scan'.open = TRUE /\ scan'.stable = TRUE /\ scan'.page = 0
      /\ scan'.next = f.page
  BY <1>7 DEF ScanFields
<1>9. ScanFits(nodes, call, scan')
  BY <1>1, <1>4, <1>8, NotANode DEF ScanFits, OpenScan
<1>10. QED
  BY <1>1, <1>6, <1>9, Quiet

LEMMA InvScanHere ==
  ASSUME IInv, ScanHere
  PROVE  IInv'
<1>1. scan.open /\ UNCHANGED <<nodes, root, unique, call, leaked>>
  BY DEF ScanHere
<1>2. OpenScan(nodes, call, scan)
  BY <1>1, ScanIsOpen
<1>3. PICK p : p = scan.page
  OBVIOUS
<1>4. PICK i, z : scan' = [scan EXCEPT !.page = p, !.idx = i, !.done = FALSE, !.seen = z]
  BY <1>3 DEF ScanHere, Returned
<1>5. ScanAt(scan, scan', p, scan.next)
  BY <1>2, <1>4, ScanAtIs DEF OpenScan
<1>6. p \in Leaves(nodes) \cup {0}
  BY <1>2, <1>3 DEF OpenScan
<1>7. ScanFits(nodes, call, scan')
  BY <1>2, <1>5, <1>6, ScanMoved
<1>8. leaked' \subseteq Leaves(nodes)
  BY <1>1 DEF IInv
<1>9. QED
  BY <1>1, <1>7, <1>8, Quiet

LEMMA InvScanOn ==
  ASSUME IInv, ScanOn
  PROVE  IInv'
<1>1. scan.open /\ call = Idle /\ UNCHANGED <<nodes, root, unique, call, leaked>>
  BY DEF ScanOn
<1>2. OpenScan(nodes, call, scan)
  BY <1>1, ScanIsOpen
<1>3. PICK p : p = scan.next
  OBVIOUS
<1>4. p \in DOMAIN nodes
  BY <1>3 DEF ScanOn
<1>5. p \in Leaves(nodes)
  BY <1>2, <1>3, <1>4 DEF OpenScan
<1>6. PICK s : /\ s \in {Returned(p, NextIn(p, ResumeAt, scan.op, scan.val)), [scan EXCEPT !.page = p, !.idx = 1, !.done = TRUE]}
               /\ scan' = [s EXCEPT !.next = nodes[p].next]
  BY <1>3 DEF ScanOn
<1>7. ScanAt(scan, s, p, scan.next)
  <2>1. CASE s = Returned(p, NextIn(p, ResumeAt, scan.op, scan.val))
    <3>1. PICK i, z : s = [scan EXCEPT !.page = p, !.idx = i, !.done = FALSE, !.seen = z]
      BY <2>1 DEF Returned
    <3>2. QED
      BY <3>1, <1>2, ScanAtIs DEF OpenScan
  <2>2. CASE s = [scan EXCEPT !.page = p, !.idx = 1, !.done = TRUE]
    BY <2>2, <1>2, ScanLeft DEF OpenScan
  <2>3. QED
    BY <2>1, <2>2, <1>6
<1>8. DOMAIN scan' = ScanFields /\ scan'.open = TRUE /\ scan'.stable \in BOOLEAN
      /\ scan'.page = p /\ scan'.next = nodes[p].next
  BY <1>2, <1>6, <1>7, ScanFieldSet DEF ScanAt, OpenScan
<1>9. nodes[p].next \in Leaves(nodes) \cup {0}
  <2>1. PICK h, sp, rk : Tree(nodes, root, h, sp, rk)
    BY <1>1, IdleSound DEF Sound
  <2>2. NextAt(Leaves(nodes), sp, Nexts(nodes), rk, p)
    BY <2>1, <1>5 DEF Tree, ChainOK
  <2>3. Nexts(nodes)[p] = nodes[p].next
    BY <1>5 DEF Nexts
  <2>4. QED
    BY <2>2, <2>3 DEF NextAt
<1>10. ScanFits(nodes, call, scan')
  BY <1>1, <1>5, <1>8, <1>9, NotANode DEF ScanFits, OpenScan
<1>11. leaked' \subseteq Leaves(nodes)
  BY <1>1 DEF IInv
<1>12. QED
  BY <1>1, <1>10, <1>11, Quiet

LEMMA InvScanEnd ==
  ASSUME IInv, ScanEnd \/ ScanLost
  PROVE  IInv'
<1>1. scan.open /\ UNCHANGED <<nodes, root, unique, call, leaked>>
  BY DEF ScanEnd, ScanLost
<1>2. OpenScan(nodes, call, scan)
  BY <1>1, ScanIsOpen
<1>3. leaked' \subseteq Leaves(nodes)
  BY <1>1 DEF IInv
<1>4. PICK s : s = [scan EXCEPT !.page = 0, !.done = FALSE, !.idx = ResumeAt]
  OBVIOUS
<1>5. ScanAt(scan, s, 0, scan.next)
  BY <1>2, <1>4, ScanLeft DEF OpenScan
<1>6. scan' = s \/ scan' = [s EXCEPT !.eof = TRUE]
  BY <1>4 DEF ScanEnd, ScanLost
<1>7. ScanAt(scan, scan', 0, scan.next)
  <2>1. CASE scan' = s
    BY <2>1, <1>5
  <2>2. CASE scan' = [s EXCEPT !.eof = TRUE]
    <3>1. DOMAIN s = ScanFields /\ s.open = scan.open /\ s.stable = scan.stable /\ s.page = 0 /\ s.next = scan.next
      BY <1>5 DEF ScanAt
    <3>2. PICK u : u = scan' /\ u = [s EXCEPT !.eof = TRUE]
      BY <2>2
    <3>3. DOMAIN u = ScanFields /\ u.open = s.open /\ u.stable = s.stable /\ u.page = s.page /\ u.next = s.next
      BY <3>1, <3>2 DEF ScanFields
    <3>4. QED
      BY <3>1, <3>2, <3>3 DEF ScanAt
  <2>3. QED
    BY <2>1, <2>2, <1>6
<1>8. ScanFits(nodes, call, scan')
  BY <1>2, <1>7, ScanMoved
<1>9. QED
  BY <1>1, <1>3, <1>8, Quiet

LEMMA InvScanClose ==
  ASSUME IInv, ScanClose
  PROVE  IInv'
<1>1. scan.open /\ UNCHANGED <<nodes, root, unique, call>> /\ scan' = NoScan
  BY DEF ScanClose
<1>2. OpenScan(nodes, call, scan)
  BY <1>1, ScanIsOpen
<1>3. leaked' = leaked \cup ({scan.page} \ {0})
  BY DEF ScanClose, Leak
<1>4. leaked' \subseteq Leaves(nodes)
  BY <1>2, <1>3 DEF IInv, OpenScan
<1>5. QED
  BY <1>1, <1>4, Quiet DEF ScanFits

-----------------------------------------------------------------------------
(* Steps that change no page *)

LEMMA InvRefuse ==
  ASSUME IInv, Eps = 1, NEW e \in Entries,
         RefuseDuplicate(e) \/ RefuseExisting(e) \/ InsertLost(e) \/ DeleteMissing(e)
  PROVE  IInv'
<1>1. call = Idle /\ UNCHANGED <<nodes, root, unique, call, scan>>
  BY DEF RefuseDuplicate, RefuseExisting, InsertLost, DeleteMissing, MayChange
<1>2. PICK h, sp, rk : Tree(nodes, root, h, sp, rk)
  BY <1>1, IdleSound DEF Sound
<1>3. e \in K /\ e[1] \in Int
  BY EntriesAssumption DEF K
<1>4. FindLeaf(e) \in Leaves(nodes)
  BY <1>2, <1>3, FindLeafIs
<1>5. Lookup(e[1]).leaks \subseteq Leaves(nodes)
  BY <1>2, <1>3, LookupPages
<1>6. leaked' \in {leaked \cup Lookup(e[1]).leaks, leaked \cup (Lookup(e[1]).leaks \cup {FindLeaf(e)}), leaked \cup {FindLeaf(e)}}
  BY DEF RefuseDuplicate, RefuseExisting, InsertLost, DeleteMissing, Leak
<1>7. leaked' \subseteq Leaves(nodes)
  BY <1>4, <1>5, <1>6 DEF IInv
<1>8. ScanFits(nodes, call, scan')
  BY <1>1 DEF IInv
<1>9. QED
  BY <1>1, <1>7, <1>8, Quiet

LEMMA InvReopen ==
  ASSUME IInv, root = FirstPage, Reopen
  PROVE  IInv'
<1>1. UNCHANGED <<nodes, root, call, scan>> /\ unique' = FALSE /\ leaked' = {}
  BY DEF Reopen
<1>2. QED
  BY <1>1 DEF IInv, DistinctValues

-----------------------------------------------------------------------------
(* A leaf gains or loses an entry *)

\* The scan, when no leaf goes away
LEMMA ScanStays ==
  ASSUME IInv, scan.open => scan.stable \/ call.fn = "insert_into_parent",
         NEW ns, Leaves(nodes) \subseteq Leaves(ns), DOMAIN ns \subseteq Pages, NEW c, call # Idle \/ c = Idle
  PROVE  ScanFits(ns, c, scan)
<1>1. CASE scan = NoScan
  BY <1>1 DEF ScanFits
<1>2. CASE OpenScan(nodes, call, scan)
  <2>1. scan.open = TRUE
    BY <1>2 DEF OpenScan
  <2>2. scan.next \in Leaves(nodes) \cup {0, -1}
    BY <1>2, <2>1 DEF OpenScan
  <2>3. scan.next \in Leaves(ns) \cup {0, -1}
    BY <2>2
  <2>4. 0 \notin DOMAIN ns /\ -1 \notin DOMAIN ns
    BY DEF Pages
  <2>5. scan.next \notin DOMAIN ns \ Leaves(ns)
    BY <2>3, <2>4
  <2>6. scan.page \in Leaves(ns) \cup {0} /\ (scan.stable => c = Idle)
    BY <1>2 DEF OpenScan
  <2>7. OpenScan(ns, c, scan)
    BY <1>2, <2>3, <2>5, <2>6 DEF OpenScan
  <2>8. QED
    BY <2>7 DEF ScanFits
<1>3. QED
  BY <1>1, <1>2 DEF IInv, ScanFits

LEMMA DisturbedFits ==
  ASSUME IInv, MayChange, NEW ns, Leaves(nodes) \subseteq Leaves(ns), DOMAIN ns \subseteq Pages, NEW c
  PROVE  ScanFits(ns, c, Disturbed)
<1>1. CASE scan = NoScan
  BY <1>1 DEF ScanFits, Disturbed, NoScan
<1>2. CASE OpenScan(nodes, call, scan)
  <2>1. scan.open = TRUE /\ scan.stable = TRUE /\ DOMAIN scan = ScanFields
    BY <1>2 DEF OpenScan, MayChange
  <2>2. scan.next \in Leaves(nodes) \cup {0, -1} /\ scan.page \in Leaves(nodes) \cup {0}
    BY <1>2, <2>1 DEF OpenScan
  <2>3. scan.next \in Leaves(ns) \cup {0, -1} /\ scan.page \in Leaves(ns) \cup {0}
    BY <2>2
  <2>4. 0 \notin DOMAIN ns /\ -1 \notin DOMAIN ns
    BY DEF Pages
  <2>5. scan.next \notin DOMAIN ns \ Leaves(ns)
    BY <2>3, <2>4
  <2>6. PICK a, t : a = [scan EXCEPT !.stable = FALSE] /\ t = [a EXCEPT !.seen = {}]
    OBVIOUS
  <2>7. DOMAIN a = ScanFields /\ a.open = TRUE /\ a.stable = FALSE /\ a.page = scan.page /\ a.next = scan.next
    BY <2>1, <2>6 DEF ScanFields
  <2>8. DOMAIN t = ScanFields /\ t.open = TRUE /\ t.stable = FALSE /\ t.page = scan.page /\ t.next = scan.next
    BY <2>6, <2>7 DEF ScanFields
  <2>9. Disturbed = t
    BY <2>1, <2>6 DEF Disturbed
  <2>10. OpenScan(ns, c, t)
    BY <2>3, <2>5, <2>8 DEF OpenScan
  <2>11. QED
    BY <2>9, <2>10 DEF ScanFits
<1>3. QED
  BY <1>1, <1>2 DEF IInv, ScanFits

\* An entry is added to the leaf that find_leaf leads to.
Gains(ns, p, e, ks, ps) ==
  /\ ks = InsertAt(ns[p].keys, PlaceOf(ns[p].keys, e), e)
  /\ ps = InsertAt(ns[p].ptrs, PlaceOf(ns[p].keys, e), e[2])

GainedLeaf(ns, p, ks, ps) ==
  /\ ks \in Seq(Entries) /\ ps \in Seq(Int) /\ Len(ks) = Len(ns[p].keys) + 1 /\ Len(ps) = Len(ks)
  /\ \A j \in 1 .. Len(ks) : ps[j] = ks[j][2]

LEMMA LeafGains ==
  ASSUME NEW ns, NEW r, NEW h, NEW sp, NEW rk, Tree(ns, r, h, sp, rk), Eps = 1,
         NEW p \in Leaves(ns), NEW e \in Entries, e \in sp[p],
         \A j \in 1 .. Len(ns[p].keys) : ns[p].keys[j] # e,
         NEW ks, NEW ps, Gains(ns, p, e, ks, ps), NEW ms, Rewritten(ns, ms, p, ks, ps)
  PROVE  Tree(ms, r, h, sp, rk) /\ GainedLeaf(ns, p, ks, ps)
<1>20. PICK i : i = PlaceOf(ns[p].keys, e)
  OBVIOUS
<1>21. ks = InsertAt(ns[p].keys, i, e) /\ ps = InsertAt(ns[p].ptrs, i, e[2])
  BY <1>20 DEF Gains
<1>1. p \in DOMAIN ns /\ ns[p].leaf
  BY DEF Leaves
<1>2. ns[p] \in NodeType /\ DOMAIN ns \subseteq PageIds /\ \A x \in DOMAIN ns : ns[x] \in NodeType
  BY <1>1 DEF Tree, NodesOK
<1>3. /\ ns[p].keys \in Seq(K) /\ Ascending(ns[p].keys) /\ NodeAt(ns, h, sp, p)
      /\ \A j \in 1 .. Len(ns[p].keys) : ns[p].keys[j] \in sp[p]
  BY <1>1, TreeNode
<1>4. /\ Len(ns[p].ptrs) = Len(ns[p].keys)
      /\ \A j \in 1 .. Len(ns[p].keys) : ns[p].ptrs[j] = ns[p].keys[j][2]
  BY <1>1, <1>3 DEF NodeAt, LeafAt
<1>5. e \in K /\ e[2] \in Int
  BY EntriesAssumption DEF K
<1>6. /\ i \in 1 .. Len(ns[p].keys) + 1
      /\ i <= Len(ns[p].keys) => Lt(e, ns[p].keys[i])
      /\ \A j \in 1 .. Len(ns[p].keys) : j < i => ~Lt(e, ns[p].keys[j])
  BY <1>3, <1>5, <1>20, PlaceOfSlot
<1>7. i > 1 => Lt(ns[p].keys[i - 1], e)
  <2>1. SUFFICES ASSUME i > 1 PROVE Lt(ns[p].keys[i - 1], e)
    OBVIOUS
  <2>2. i - 1 \in 1 .. Len(ns[p].keys) /\ i - 1 < i
    BY <2>1, <1>3, <1>6
  <2>3. ~Lt(e, ns[p].keys[i - 1]) /\ ns[p].keys[i - 1] # e /\ ns[p].keys[i - 1] \in K
    BY <2>2, <1>3, <1>6
  <2>4. QED
    BY <2>3, <1>5, LtOrder
<1>8. Ascending(ks)
  <2>1. Divided(K, ns[p].keys, i, e, ks)
    BY <1>3, <1>5, <1>6, <1>7, <1>21, SlotInsert
  <2>2. QED
    BY <2>1 DEF Divided
<1>9. ns[p].keys \in Seq(Entries) /\ ns[p].ptrs \in Seq(Int) /\ Len(ns[p].keys) \in Nat
  BY <1>2, NodeFields
<1>10. ks \in Seq(Entries) /\ InsertedSeq(ns[p].keys, i, e, ks)
  BY <1>6, <1>9, <1>21, Inserted
<1>11. ps \in Seq(Int) /\ InsertedSeq(ns[p].ptrs, i, e[2], ps)
  BY <1>4, <1>5, <1>6, <1>9, <1>21, Inserted
<1>12. Len(ks) = Len(ns[p].keys) + 1 /\ Len(ps) = Len(ks)
  BY <1>4, <1>10, <1>11 DEF InsertedSeq
<1>13. ASSUME NEW j \in 1 .. Len(ks) PROVE ps[j] = ks[j][2] /\ ks[j] \in sp[p]
  <2>1. j \in 1 .. Len(ns[p].keys) + 1
    BY <1>12
  <2>2. ks[j] = IF j < i THEN ns[p].keys[j] ELSE IF j = i THEN e ELSE ns[p].keys[j - 1]
    BY <2>1, <1>10 DEF InsertedSeq
  <2>3. ps[j] = IF j < i THEN ns[p].ptrs[j] ELSE IF j = i THEN e[2] ELSE ns[p].ptrs[j - 1]
    BY <2>1, <1>4, <1>11 DEF InsertedSeq
  <2>4. CASE j < i
    <3>1. j \in 1 .. Len(ns[p].keys)
      BY <2>1, <2>4, <1>6, <1>9
    <3>2. QED
      BY <2>2, <2>3, <2>4, <3>1, <1>3, <1>4
  <2>5. CASE j = i
    BY <2>2, <2>3, <2>5
  <2>6. CASE j > i
    <3>1. j - 1 \in 1 .. Len(ns[p].keys)
      BY <2>1, <2>6, <1>6, <1>9
    <3>2. ks[j] = ns[p].keys[j - 1] /\ ps[j] = ns[p].ptrs[j - 1]
      BY <2>1, <2>2, <2>3, <2>6, <1>6, <1>9
    <3>3. QED
      BY <3>1, <3>2, <1>3, <1>4
  <2>7. QED
    BY <2>1, <2>4, <2>5, <2>6, <1>6, <1>9
<1>14. /\ DOMAIN ms = DOMAIN ns /\ \A x \in DOMAIN ns \ {p} : ms[x] = ns[x]
       /\ ms[p].leaf = ns[p].leaf /\ ms[p].parent = ns[p].parent /\ ms[p].next = ns[p].next
       /\ ms[p].keys = ks /\ ms[p].ptrs = ps /\ ms[p] \in NodeType
  BY <1>10, <1>11 DEF Rewritten
<1>15. LeafBody(ns, ms, sp, p)
  <2>1. NodesOK(ms)
    BY <1>2, <1>14 DEF NodesOK
  <2>2. KeysAt(ms, sp, p)
    BY <1>8, <1>13, <1>14 DEF KeysAt
  <2>3. \A x \in DOMAIN ns : ms[x].parent = ns[x].parent /\ ms[x].leaf = ns[x].leaf /\ ms[x].next = ns[x].next
    BY <1>14
  <2>4. \A x \in DOMAIN ns \ {p} : SameBody(ns, ms, x)
    BY <1>14 DEF SameBody
  <2>5. Len(ms[p].ptrs) = Len(ms[p].keys) /\ \A j \in 1 .. Len(ms[p].keys) : ms[p].ptrs[j] = ms[p].keys[j][2]
    BY <1>12, <1>13, <1>14
  <2>6. QED
    BY <2>1, <2>2, <2>3, <2>4, <2>5, <1>1, <1>14 DEF LeafBody
<1>16. Tree(ms, r, h, sp, rk)
  BY <1>15, LeafTree
<1>17. QED
  BY <1>10, <1>11, <1>12, <1>13, <1>16 DEF GainedLeaf

LEMMA LeafKeysIs ==
  ASSUME NEW ns, NodesOK(ns), NEW k
  PROVE  k \in LeafKeys(ns) <=> \E x \in Leaves(ns) : \E j \in 1 .. Len(ns[x].keys) : ns[x].keys[j] = k
<1>1. \A x \in Leaves(ns) : DOMAIN ns[x].keys = 1 .. Len(ns[x].keys)
  BY NodeFields DEF NodesOK, Leaves
<1>2. \A x \in Leaves(ns) : k \in ToSet(ns[x].keys) <=> \E j \in 1 .. Len(ns[x].keys) : ns[x].keys[j] = k
  BY <1>1 DEF ToSet
<1>3. QED
  BY <1>2 DEF LeafKeys

OneMoreKey(ns, ms, e) == \A k \in LeafKeys(ms) : k \in LeafKeys(ns) \/ k = e

LEMMA KeysGain ==
  ASSUME NEW ns, NodesOK(ns), NEW ms, NodesOK(ms), NEW p \in Leaves(ns), NEW e \in Entries,
         PlaceOf(ns[p].keys, e) \in 1 .. Len(ns[p].keys) + 1,
         NEW ks, NEW ps, Gains(ns, p, e, ks, ps), Rewritten(ns, ms, p, ks, ps)
  PROVE  OneMoreKey(ns, ms, e)
<1>20. PICK i : i \in 1 .. Len(ns[p].keys) + 1 /\ ks = InsertAt(ns[p].keys, i, e)
  BY DEF Gains
<1>1. p \in DOMAIN ns /\ ns[p].keys \in Seq(Entries) /\ Len(ns[p].keys) \in Nat
  BY NodeFields DEF NodesOK, Leaves
<1>2. InsertedSeq(ns[p].keys, i, e, ks)
  BY <1>1, <1>20, Inserted
<1>3. SUFFICES ASSUME NEW k \in LeafKeys(ms), k # e PROVE k \in LeafKeys(ns)
  BY DEF OneMoreKey
<1>4. PICK x \in Leaves(ms) : \E j \in 1 .. Len(ms[x].keys) : ms[x].keys[j] = k
  BY <1>3, LeafKeysIs
<1>5. PICK j \in 1 .. Len(ms[x].keys) : ms[x].keys[j] = k
  BY <1>4
<1>6. x \in Leaves(ns)
  BY <1>1, RewrittenSizes
<1>7. CASE x # p
  <2>1. ms[x] = ns[x]
    BY <1>6, <1>7 DEF Rewritten, Leaves
  <2>2. QED
    BY <2>1, <1>5, <1>6, LeafKeysIs
<1>8. CASE x = p
  <2>1. Len(ks) = Len(ns[p].keys) + 1 /\ j \in 1 .. Len(ns[p].keys) + 1 /\ ks[j] = k
    BY <1>2, <1>5, <1>8 DEF Rewritten, InsertedSeq
  <2>2. ks[j] = IF j < i THEN ns[p].keys[j] ELSE IF j = i THEN e ELSE ns[p].keys[j - 1]
    BY <2>1, <1>2 DEF InsertedSeq
  <2>3. \E l \in 1 .. Len(ns[p].keys) : ns[p].keys[l] = k
    <3>1. CASE j < i
      <4>1. j \in 1 .. Len(ns[p].keys) /\ ns[p].keys[j] = k
        BY <2>1, <2>2, <3>1, <1>1, <1>20
      <4>2. QED
        BY <4>1
    <3>2. CASE ~(j < i)
      <4>1. j # i
        BY <2>1, <2>2, <1>3
      <4>2. j - 1 \in 1 .. Len(ns[p].keys) /\ ns[p].keys[j - 1] = k
        BY <2>1, <2>2, <3>2, <4>1, <1>1, <1>20
      <4>3. QED
        BY <4>2
    <3>3. QED
      BY <3>1, <3>2
  <2>4. QED
    BY <2>3, LeafKeysIs
<1>9. QED
  BY <1>7, <1>8

\* The keys of the leaves are those of ns and e.
GainsKey(ns, ms, e) == \A k : k \in LeafKeys(ms) <=> k \in LeafKeys(ns) \/ k = e

LEMMA KeysKept ==
  ASSUME NEW ns, NodesOK(ns), NEW ms, NodesOK(ms), NEW p \in Leaves(ns), NEW e \in Entries,
         PlaceOf(ns[p].keys, e) \in 1 .. Len(ns[p].keys) + 1,
         NEW ks, NEW ps, Gains(ns, p, e, ks, ps), Rewritten(ns, ms, p, ks, ps)
  PROVE  GainsKey(ns, ms, e)
<1>1. PICK i : i \in 1 .. Len(ns[p].keys) + 1 /\ ks = InsertAt(ns[p].keys, i, e)
  BY DEF Gains
<1>2. p \in DOMAIN ns /\ ns[p].keys \in Seq(Entries) /\ Len(ns[p].keys) \in Nat
  BY NodeFields DEF NodesOK, Leaves
<1>3. InsertedSeq(ns[p].keys, i, e, ks)
  BY <1>1, <1>2, Inserted
<1>4. Leaves(ms) = Leaves(ns) /\ ms[p].keys = ks /\ \A x \in Leaves(ns) \ {p} : ms[x] = ns[x]
  BY <1>2, RewrittenSizes DEF Rewritten, Leaves
<1>5. e \in LeafKeys(ms)
  <2>1. i \in 1 .. Len(ks) /\ ks[i] = e
    BY <1>1, <1>2, <1>3 DEF InsertedSeq
  <2>2. QED
    BY <2>1, <1>4, LeafKeysIs
<1>6. ASSUME NEW k \in LeafKeys(ns) PROVE k \in LeafKeys(ms)
  <2>1. PICK x \in Leaves(ns) : \E j \in 1 .. Len(ns[x].keys) : ns[x].keys[j] = k
    BY LeafKeysIs
  <2>2. CASE x # p
    <3>1. x \in Leaves(ms) /\ ms[x] = ns[x]
      BY <2>2, <1>4
    <3>2. QED
      BY <3>1, <2>1, LeafKeysIs
  <2>3. CASE x = p
    <3>1. PICK j \in 1 .. Len(ns[p].keys) : ns[p].keys[j] = k
      BY <2>1, <2>3
    <3>2. PICK a : a = IF j < i THEN j ELSE j + 1
      OBVIOUS
    <3>3. a \in 1 .. Len(ns[p].keys) + 1 /\ (j < i => a < i /\ a = j) /\ (~(j < i) => ~(a < i) /\ a # i /\ a - 1 = j)
      BY <3>2, <1>1, <1>2
    <3>4. ks[a] = k /\ a \in 1 .. Len(ks)
      BY <3>1, <3>3, <1>3 DEF InsertedSeq
    <3>5. QED
      BY <3>4, <1>4, LeafKeysIs
  <2>4. QED
    BY <2>2, <2>3
<1>7. OneMoreKey(ns, ms, e)
  BY KeysGain
<1>8. QED
  BY <1>5, <1>6, <1>7 DEF GainsKey, OneMoreKey

\* What the guards of an insertion say
InsertReady(e, h, sp, rk) ==
  /\ Tree(nodes, root, h, sp, rk)
  /\ FindLeaf(e) \in Leaves(nodes) /\ e \in sp[FindLeaf(e)]
  /\ e \notin LeafKeys(nodes)
  /\ unique => \A k \in LeafKeys(nodes) : k[1] # e[1]
  /\ Lookup(e[1]).leaks \subseteq Leaves(nodes)

\* The search of insert_into_leaf finds an entry that the leaf has.
LEMMA HeldIsMet ==
  ASSUME NEW h, NEW sp, NEW rk, Tree(nodes, root, h, sp, rk), Eps = 1,
         NEW x \in Leaves(nodes), NEW i \in 1 .. Len(nodes[x].keys), NEW e, e = nodes[x].keys[i]
  PROVE  Holds(FindLeaf(e), e)
<1>1. FindLeaf(e) = x /\ x \in DOMAIN nodes
  BY KeyIsFound DEF Leaves
<1>2. nodes[x].keys \in Seq(K) /\ Ascending(nodes[x].keys)
  BY <1>1, TreeNode
<1>3. e \in K /\ Len(nodes[x].keys) \in Nat /\ \A j \in 1 .. Len(nodes[x].keys) : nodes[x].keys[j] \in K
  BY <1>2
<1>4. CmpKey(e, nodes[x].keys[i]) = 0
  BY <1>3, CmpIsLt
<1>5. ASSUME NEW j \in 1 .. i - 1 PROVE CmpKey(e, nodes[x].keys[j]) > 0
  <2>1. j \in 1 .. Len(nodes[x].keys) /\ j < i
    BY <1>3
  <2>2. PICK k \in K : k = nodes[x].keys[j]
    BY <1>3, <2>1
  <2>3. Lt(k, e)
    BY <1>2, <2>1, <2>2 DEF Ascending
  <2>4. ~Lt(e, k) /\ e # k
    BY <1>3, <2>3, LtOrder
  <2>5. ~(CmpKey(e, k) < 0) /\ CmpKey(e, k) # 0
    BY <1>3, <2>4, CmpIsLt
  <2>6. CmpKey(e, k) \in Int
    <3>1. e[1] \in Int /\ k[1] \in Int
      BY <1>3 DEF K
    <3>2. QED
      BY <3>1 DEF CmpKey, CompareKey, CmpRid
  <2>7. QED
    BY <2>2, <2>5, <2>6
<1>6. QED
  BY <1>1, <1>4, <1>5 DEF Holds

LEMMA InsertIsReady ==
  ASSUME IInv, Eps = 1, NEW e \in Entries, call = Idle, ~Lookup(e[1]).found, ~Holds(FindLeaf(e), e)
  PROVE  \E h, sp, rk : InsertReady(e, h, sp, rk)
<1>2. PICK h, sp, rk : Tree(nodes, root, h, sp, rk)
  BY IdleSound DEF Sound
<1>3. e \in K /\ e[1] \in Int
  BY EntriesAssumption DEF K
<1>6. e \notin LeafKeys(nodes)
  <2>1. NodesOK(nodes)
    BY <1>2 DEF Tree
  <2>2. QED
    BY <1>2, <2>1, LeafKeysIs, HeldIsMet
<1>7. unique => \A k \in LeafKeys(nodes) : k[1] # e[1]
  BY <1>2, <1>3, LookupFinds
<1>8. FindLeaf(e) \in Leaves(nodes) /\ e \in sp[FindLeaf(e)]
  BY <1>2, <1>3, FindLeafIs
<1>9. Lookup(e[1]).leaks \subseteq Leaves(nodes)
  BY <1>2, <1>3, LookupPages
<1>10. InsertReady(e, h, sp, rk)
  BY <1>2, <1>6, <1>7, <1>8, <1>9 DEF InsertReady
<1>11. QED
  BY <1>10

LEMMA DistinctGain ==
  ASSUME NEW ns, NEW ms, NEW u, NEW e, DistinctValues(ns, u), u => \A k \in LeafKeys(ns) : k[1] # e[1],
         OneMoreKey(ns, ms, e)
  PROVE  DistinctValues(ms, u)
BY DEF DistinctValues, OneMoreKey

\* The leaf with the entry in it, whether or not it is split afterwards
LEMMA LeafWithEntry ==
  ASSUME IInv, Eps = 1, NEW e \in Entries, NEW h, NEW sp, NEW rk, InsertReady(e, h, sp, rk),
         NEW p, p = FindLeaf(e), NEW ks, NEW ps, Gains(nodes, p, e, ks, ps),
         NEW ms, Rewritten(nodes, ms, p, ks, ps)
  PROVE  /\ NodesOK(ms)
         /\ Tree(ms, root, h, sp, rk)
         /\ GainedLeaf(nodes, p, ks, ps) /\ ps \in Seq(Rids)
         /\ DistinctValues(ms, unique) /\ GainsKey(nodes, ms, e)
<1>1. p \in Leaves(nodes) /\ p \in DOMAIN nodes /\ e \in sp[p] /\ Tree(nodes, root, h, sp, rk)
  BY DEF InsertReady, Leaves
<1>2. NodesOK(nodes) /\ nodes[p] \in NodeType /\ DistinctValues(nodes, unique)
  BY <1>1 DEF IInv, NodesOK
<1>4. \A j \in 1 .. Len(nodes[p].keys) : nodes[p].keys[j] # e
  BY <1>1, <1>2, LeafKeysIs DEF InsertReady
<1>5. Tree(ms, root, h, sp, rk) /\ GainedLeaf(nodes, p, ks, ps)
  BY <1>1, <1>4, LeafGains
<1>6. NodesOK(ms)
  BY <1>5 DEF Tree
<1>7. PlaceOf(nodes[p].keys, e) \in 1 .. Len(nodes[p].keys) + 1
  <2>1. nodes[p].keys \in Seq(K) /\ e \in K
    BY <1>1, TreeNode, EntriesInK
  <2>2. QED
    BY <2>1, PlaceOfSlot
<1>8. OneMoreKey(nodes, ms, e)
  BY <1>1, <1>2, <1>6, <1>7, KeysGain
<1>12. GainsKey(nodes, ms, e)
  BY <1>1, <1>2, <1>6, <1>7, KeysKept
<1>9. DistinctValues(ms, unique)
  <2>1. unique => \A k \in LeafKeys(nodes) : k[1] # e[1]
    BY DEF InsertReady
  <2>2. QED
    BY <2>1, <1>2, <1>8, DistinctGain
<1>10. ps \in Seq(Rids)
  <2>1. \A j \in 1 .. Len(ps) : ps[j] \in Rids
    <3>1. SUFFICES ASSUME NEW j \in 1 .. Len(ps) PROVE ps[j] \in Rids
      OBVIOUS
    <3>2. ks[j] \in Entries /\ ps[j] = ks[j][2]
      BY <1>5 DEF GainedLeaf
    <3>3. QED
      BY <3>2 DEF Rids
  <2>2. ps \in Seq(Int)
    BY <1>5 DEF GainedLeaf
  <2>3. QED
    BY <2>1, <2>2
<1>11. QED
  BY <1>5, <1>6, <1>9, <1>10, <1>12

LEMMA InvInsertIntoLeaf ==
  ASSUME IInv, Eps = 1, NEW e \in Entries, InsertIntoLeaf(e)
  PROVE  IInv' /\ GainsKey(nodes, nodes', e)
<1>1. PICK p, i : p = FindLeaf(e) /\ i = PlaceOf(nodes[p].keys, e)
  OBVIOUS
<1>2. /\ ~Lookup(e[1]).found /\ HasRoom(p) /\ ~Holds(p, e)
      /\ nodes' = [nodes EXCEPT ![p].keys = InsertAt(@, i, e), ![p].ptrs = InsertAt(@, i, e[2])]
      /\ leaked' = leaked \cup Lookup(e[1]).leaks
      /\ scan' = Disturbed /\ root' = root /\ unique' = unique /\ call' = call /\ call = Idle /\ MayChange
  BY <1>1 DEF InsertIntoLeaf, Leak, MayChange
<1>3. PICK h, sp, rk : InsertReady(e, h, sp, rk)
  BY <1>1, <1>2, InsertIsReady
<1>4. PICK ks, ps : ks = InsertAt(nodes[p].keys, i, e) /\ ps = InsertAt(nodes[p].ptrs, i, e[2])
  OBVIOUS
<1>5. PICK ms : ms = nodes'
  OBVIOUS
<1>20. Rewritten(nodes, ms, p, ks, ps) /\ Gains(nodes, p, e, ks, ps)
  <2>1. ms = [nodes EXCEPT ![p] = [nodes[p] EXCEPT !.keys = ks, !.ptrs = ps]]
    BY <1>2, <1>4, <1>5
  <2>2. p \in DOMAIN nodes /\ nodes[p] \in NodeType
    BY <1>1, <1>3 DEF InsertReady, Leaves, IInv, NodesOK
  <2>3. QED
    BY <2>1, <2>2, <1>1, <1>4, RewrittenIs DEF Gains
<1>21. /\ NodesOK(ms)
       /\ Tree(ms, root, h, sp, rk)
       /\ GainedLeaf(nodes, p, ks, ps) /\ ps \in Seq(Rids)
       /\ DistinctValues(ms, unique) /\ GainsKey(nodes, ms, e)
  BY <1>1, <1>3, <1>20, LeafWithEntry
<1>6. /\ Rewritten(nodes, ms, p, ks, ps) /\ NodesOK(ms)
      /\ Tree(ms, root, h, sp, rk)
      /\ ks \in Seq(Entries) /\ ps \in Seq(Rids) /\ Len(ks) = Len(nodes[p].keys) + 1 /\ Len(ps) = Len(ks)
      /\ DistinctValues(ms, unique)
  BY <1>20, <1>21 DEF GainedLeaf
<1>7. p \in DOMAIN nodes /\ nodes[p].leaf /\ p \in Leaves(nodes) /\ Len(nodes[p].keys) \in Nat
  BY <1>1, <1>3, NodeFields DEF InsertReady, Leaves, IInv, NodesOK
<1>8. Shapes(ms)
  <2>1. Len(ks) < Order
    BY <1>2, <1>6, <1>7, OrderAssumption DEF HasRoom
  <2>2. ps \in Seq(IF nodes[p].leaf THEN Rids ELSE Pages) /\ Len(ps) = Len(ks) + (IF nodes[p].leaf THEN 0 ELSE 1)
    BY <1>6, <1>7
  <2>3. QED
    BY <2>1, <2>2, <1>6, <1>7, RewrittenShapes DEF IInv
<1>9. DOMAIN ms = DOMAIN nodes /\ Leaves(ms) = Leaves(nodes)
  BY <1>6, <1>7, RewrittenSizes DEF Rewritten
<1>10. Sizes(ms, root, call)
  <2>1. /\ \A x \in DOMAIN nodes \ {p} : Enough(ms, x) <=> Enough(nodes, x)
        /\ MinKeys(ms[p]) = MinKeys(nodes[p]) /\ Len(ms[p].keys) = Len(ks)
    BY <1>6, <1>7 DEF Rewritten, Enough, MinKeys
  <2>2. /\ ~nodes[root].leaf => Len(nodes[root].keys) >= 1
        /\ \A x \in DOMAIN nodes \ {root} : Enough(nodes, x)
    BY <1>2 DEF IInv, Sizes, Idle, SiblingCalls
  <2>3. MinKeys(nodes[p]) \in Int
    BY OrderAssumption DEF MinKeys
  <2>4. p # root => Enough(ms, p)
    BY <2>1, <2>2, <2>3, <1>6, <1>7 DEF Enough
  <2>5. ~ms[root].leaf => Len(ms[root].keys) >= 1
    BY <2>2, <1>6, <1>7 DEF Rewritten, IInv
  <2>6. QED
    BY <2>1, <2>2, <2>4, <2>5, <1>2, <1>9 DEF Sizes, Idle, SiblingCalls
<1>11. leaked' \subseteq Leaves(ms)
  BY <1>2, <1>3, <1>9 DEF IInv, InsertReady
<1>12. ScanFits(ms, call, scan')
  BY <1>2, <1>8, <1>9, DisturbedFits DEF Shapes
<1>13. Sound(Whole(ms, call), WholeRoot(ms, root, call))
  <2>1. Sound(ms, root)
    BY <1>6, SoundIs
  <2>2. QED
    BY <2>1, <1>2, WholeCases
<1>14. CallFits(ms, root, call)
  BY <1>2 DEF CallFits
<1>15. root \in DOMAIN ms /\ unique \in BOOLEAN
  BY <1>9 DEF IInv
<1>16. IInv'
  BY <1>2, <1>5, <1>6, <1>8, <1>10, <1>11, <1>12, <1>13, <1>14, <1>15 DEF IInv
<1>17. QED
  BY <1>5, <1>16, <1>21

-----------------------------------------------------------------------------
(* A full leaf is divided: insert_into_leaf_after_split *)

\* ms is ns with the keys ks and record ids ps on page p and the new page q
DividedLeaf(ns, ms, p, q, ks, ps, s) ==
  /\ DOMAIN ms = DOMAIN ns \cup {q}
  /\ \A x \in DOMAIN ns \ {p} : ms[x] = ns[x]
  /\ ms[p] \in NodeType /\ ms[q] \in NodeType
  /\ ms[p].leaf /\ ms[q].leaf /\ ms[p].parent = ns[p].parent /\ ms[q].parent = ns[p].parent
  /\ ms[p].keys = SubSeq(ks, 1, s) /\ ms[p].ptrs = SubSeq(ps, 1, s)
  /\ ms[q].keys = SubSeq(ks, s + 1, Len(ks)) /\ ms[q].ptrs = SubSeq(ps, s + 1, Len(ks))
  /\ ms[p].next = q /\ ms[q].next = ns[p].next

\* The parts of a sequence that is divided after s places
Parts(S, t, s, a, b) ==
  /\ a \in Seq(S) /\ b \in Seq(S) /\ Len(a) = s /\ Len(b) = Len(t) - s
  /\ \A j \in 1 .. s : a[j] = t[j]
  /\ \A j \in 1 .. Len(t) - s : b[j] = t[j + s]

LEMMA PartsAre ==
  ASSUME NEW S, NEW t \in Seq(S), NEW s \in 1 .. Len(t), NEW a, NEW b,
         a = SubSeq(t, 1, s), b = SubSeq(t, s + 1, Len(t))
  PROVE  Parts(S, t, s, a, b)
<1>1. a \in Seq(S) /\ Len(a) = s /\ \A j \in 1 .. s : a[j] = t[j]
  OBVIOUS
<1>2. b \in Seq(S) /\ Len(b) = Len(t) - s
  OBVIOUS
<1>3. \A j \in 1 .. Len(t) - s : b[j] = t[j + s]
  OBVIOUS
<1>4. QED
  BY <1>1, <1>2, <1>3 DEF Parts

LEMMA LeafSplitIs ==
  ASSUME NEW e, NEW p \in DOMAIN nodes, nodes[p] \in NodeType, nodes[p].leaf,
         NEW q \in Int, q \notin DOMAIN nodes,
         NEW ks \in Seq(Entries), NEW ps \in Seq(Rids), Gains(nodes, p, e, ks, ps), Len(ks) = Order, Len(ps) = Order,
         NEW s, s = Order \div 2, s \in 1 .. Order, NEW ms, ms = LeafSplit(e, p, q)
  PROVE  /\ DividedLeaf(nodes, ms, p, q, ks, ps, s)
         /\ Parts(Entries, ks, s, ms[p].keys, ms[q].keys) /\ Parts(Rids, ps, s, ms[p].ptrs, ms[q].ptrs)
<1>1. PICK ka, pa, kb, pb : /\ ka = SubSeq(ks, 1, s) /\ pa = SubSeq(ps, 1, s)
                            /\ kb = SubSeq(ks, s + 1, Len(ks)) /\ pb = SubSeq(ps, s + 1, Len(ks))
  OBVIOUS
<1>2. Parts(Entries, ks, s, ka, kb)
  BY <1>1, PartsAre
<1>3. Parts(Rids, ps, s, pa, pb)
  <2>1. s \in 1 .. Len(ps) /\ pb = SubSeq(ps, s + 1, Len(ps))
    BY <1>1
  <2>2. QED
    BY <1>1, <2>1, PartsAre
<1>4. PICK n : n = [nodes[p] EXCEPT !.keys = ka, !.ptrs = pa, !.next = q]
  OBVIOUS
<1>5. PICK m : m = Leaf(nodes[p].parent, kb, pb, nodes[p].next)
  OBVIOUS
<1>6. ms = Put([nodes EXCEPT ![p] = n], q, m)
  BY <1>1, <1>4, <1>5 DEF LeafSplit, Gains
<1>7. Rids \subseteq Int
  BY EntriesAssumption DEF Rids
<1>8. pa \in Seq(Int) /\ pb \in Seq(Int) /\ ka \in Seq(Entries) /\ kb \in Seq(Entries)
  BY <1>2, <1>3, <1>7, SeqMono DEF Parts
<1>9. n = [leaf |-> nodes[p].leaf, parent |-> nodes[p].parent, keys |-> ka, ptrs |-> pa, next |-> q]
  <2>1. nodes[p] = [leaf |-> nodes[p].leaf, parent |-> nodes[p].parent, keys |-> nodes[p].keys,
                    ptrs |-> nodes[p].ptrs, next |-> nodes[p].next]
    BY NodeFields
  <2>2. PICK n1 : n1 = [nodes[p] EXCEPT !.keys = ka]
    OBVIOUS
  <2>3. n1 = [leaf |-> nodes[p].leaf, parent |-> nodes[p].parent, keys |-> ka,
                    ptrs |-> nodes[p].ptrs, next |-> nodes[p].next]
    BY <2>1, <2>2
  <2>4. PICK n2 : n2 = [n1 EXCEPT !.ptrs = pa]
    OBVIOUS
  <2>5. n2 = [leaf |-> nodes[p].leaf, parent |-> nodes[p].parent, keys |-> ka,
                    ptrs |-> pa, next |-> nodes[p].next]
    BY <2>3, <2>4
  <2>6. n = [n2 EXCEPT !.next = q]
    BY <1>4, <2>2, <2>4
  <2>7. QED
    BY <2>5, <2>6
<1>10. nodes[p].leaf \in BOOLEAN /\ nodes[p].parent \in Int /\ nodes[p].next \in Int
  BY NodeFields
<1>11. /\ n \in NodeType /\ n.leaf = nodes[p].leaf /\ n.parent = nodes[p].parent
       /\ n.keys = ka /\ n.ptrs = pa /\ n.next = q
  BY <1>8, <1>9, <1>10 DEF NodeType
<1>12. /\ m \in NodeType /\ m.leaf /\ m.parent = nodes[p].parent
       /\ m.keys = kb /\ m.ptrs = pb /\ m.next = nodes[p].next
  BY <1>5, <1>8, <1>10 DEF NodeType, Leaf
<1>13. /\ DOMAIN ms = DOMAIN nodes \cup {q} /\ ms[p] = n /\ ms[q] = m
       /\ \A x \in DOMAIN nodes \ {p} : ms[x] = nodes[x]
  BY <1>6 DEF Put
<1>14. DividedLeaf(nodes, ms, p, q, ks, ps, s)
  BY <1>1, <1>11, <1>12, <1>13 DEF DividedLeaf
<1>15. QED
  BY <1>2, <1>3, <1>11, <1>12, <1>13, <1>14

\* Seen from the leaf that has one entry too many, it is halved.
LEMMA DividedIsHalved ==
  ASSUME NEW ns, NodesOK(ns), NEW p \in DOMAIN ns, ns[p].leaf, NEW q \in PageIds, q \notin DOMAIN ns,
         NEW ks, NEW ps, NEW s, s \in 1 .. Len(ks) - 1, NEW ms, DividedLeaf(ns, ms, p, q, ks, ps, s),
         NEW big, Rewritten(ns, big, p, ks, ps), NEW key, key = ks[s + 1]
  PROVE  /\ RawSplit(big, ms, p, q) /\ Halved(big, ms, p, q, s, key)
         /\ big[p].parent = ns[p].parent
<1>1. /\ DOMAIN big = DOMAIN ns /\ big[p].keys = ks /\ big[p].ptrs = ps /\ big[p].leaf = ns[p].leaf
      /\ big[p].parent = ns[p].parent /\ big[p].next = ns[p].next
      /\ \A x \in DOMAIN ns \ {p} : big[x] = ns[x]
  BY DEF Rewritten
<1>2. NodesOK(ms)
  BY DEF NodesOK, DividedLeaf
<1>3. \A x \in DOMAIN ns \ {p} : ms[x] = ns[x]
  BY DEF DividedLeaf
<1>4. \A x \in DOMAIN big \ {p} : SameBody(big, ms, x)
  BY <1>1, <1>3 DEF SameBody
<1>5. ms[p].parent = ns[p].parent /\ ms[q].parent = ns[p].parent /\ ms[p].leaf /\ ms[q].leaf
  BY DEF DividedLeaf
<1>6. \A x \in DOMAIN big : ms[x].parent = big[x].parent
  BY <1>1, <1>3, <1>5
<1>12. /\ ms[p].leaf \in BOOLEAN /\ ms[q].leaf \in BOOLEAN /\ ns[p].leaf \in BOOLEAN
  BY NodeFields DEF DividedLeaf, NodesOK
<1>7. DOMAIN ms = DOMAIN ns \cup {q}
  BY DEF DividedLeaf
<1>8. RawSplit(big, ms, p, q)
  BY <1>1, <1>2, <1>4, <1>5, <1>6, <1>7, <1>12 DEF RawSplit
<1>9. HalfLeaves(big, ms, p, q, s, key)
  BY <1>1 DEF HalfLeaves, DividedLeaf
<1>10. QED
  BY <1>1, <1>8, <1>9 DEF Halved

LEMMA DistinctMono ==
  ASSUME NEW ns, NEW ms, NEW u, DistinctValues(ns, u), LeafKeys(ms) \subseteq LeafKeys(ns)
  PROVE  DistinctValues(ms, u)
BY DEF DistinctValues

LEMMA DividedKeys ==
  ASSUME NEW ns, NodesOK(ns), NEW p \in DOMAIN ns, ns[p].leaf, NEW q \in PageIds, q \notin DOMAIN ns,
         NEW ks, NEW ps, NEW s, s \in 1 .. Len(ks), NEW ms, DividedLeaf(ns, ms, p, q, ks, ps, s), NodesOK(ms),
         Parts(Entries, ks, s, ms[p].keys, ms[q].keys),
         NEW big, Rewritten(ns, big, p, ks, ps), NodesOK(big), Len(ks) \in Nat
  PROVE  LeafKeys(ms) \subseteq LeafKeys(big)
<1>1. SUFFICES ASSUME NEW k \in LeafKeys(ms) PROVE k \in LeafKeys(big)
  OBVIOUS
<1>9. PICK x \in Leaves(ms) : \E j \in 1 .. Len(ms[x].keys) : ms[x].keys[j] = k
  BY LeafKeysIs
<1>2. PICK j \in 1 .. Len(ms[x].keys) : ms[x].keys[j] = k
  BY <1>9
<1>3. /\ DOMAIN big = DOMAIN ns /\ big[p].keys = ks /\ big[p].leaf
      /\ \A y \in DOMAIN ns \ {p} : big[y] = ns[y]
  BY DEF Rewritten
<1>4. p \in Leaves(big)
  BY <1>3 DEF Leaves
<1>5. CASE x \notin {p, q}
  <2>1. x \in DOMAIN ns \ {p} /\ ms[x] = ns[x] /\ ms[x].leaf
    BY <1>5 DEF Leaves, DividedLeaf
  <2>2. x \in Leaves(big) /\ big[x].keys = ms[x].keys
    BY <2>1, <1>3 DEF Leaves
  <2>3. QED
    BY <1>2, <2>2, LeafKeysIs
<1>6. CASE x = p
  <2>1. j \in 1 .. Len(ks) /\ ks[j] = k
    BY <1>2, <1>6 DEF Parts
  <2>2. QED
    BY <2>1, <1>3, <1>4, LeafKeysIs
<1>7. CASE x = q
  <2>1. j \in 1 .. Len(ks) - s
    BY <1>2, <1>7 DEF Parts
  <2>2. PICK i : i = j + s
    OBVIOUS
  <2>3. i \in 1 .. Len(ks) /\ ks[i] = k
    BY <2>1, <2>2, <1>2, <1>7 DEF Parts
  <2>4. QED
    BY <2>3, <1>3, <1>4, LeafKeysIs
<1>8. QED
  BY <1>5, <1>6, <1>7

LEMMA DividedKept ==
  ASSUME NEW ns, NodesOK(ns), NEW p \in DOMAIN ns, ns[p].leaf, NEW q \in PageIds, q \notin DOMAIN ns,
         NEW ks, NEW ps, NEW s, s \in 1 .. Len(ks), NEW ms, DividedLeaf(ns, ms, p, q, ks, ps, s), NodesOK(ms),
         Parts(Entries, ks, s, ms[p].keys, ms[q].keys),
         NEW big, Rewritten(ns, big, p, ks, ps), NodesOK(big), Len(ks) \in Nat
  PROVE  LeafKeys(ms) = LeafKeys(big)
<1>1. ASSUME NEW k \in LeafKeys(big) PROVE k \in LeafKeys(ms)
  <2>1. PICK x \in Leaves(big) : \E j \in 1 .. Len(big[x].keys) : big[x].keys[j] = k
    BY LeafKeysIs
  <2>2. PICK j \in 1 .. Len(big[x].keys) : big[x].keys[j] = k
    BY <2>1
  <2>3. /\ DOMAIN big = DOMAIN ns /\ big[p].keys = ks
        /\ \A y \in DOMAIN ns \ {p} : big[y] = ns[y]
    BY DEF Rewritten
  <2>4. p \in Leaves(ms) /\ q \in Leaves(ms)
    BY DEF Leaves, DividedLeaf
  <2>5. CASE x # p
    <3>1. x \in DOMAIN ns \ {p} /\ big[x] = ns[x] /\ ms[x] = ns[x] /\ x \in Leaves(ms)
      BY <2>3, <2>5 DEF Leaves, DividedLeaf
    <3>2. QED
      BY <3>1, <2>2, LeafKeysIs
  <2>6. CASE x = p
    <3>1. j \in 1 .. Len(ks) /\ ks[j] = k
      BY <2>2, <2>3, <2>6
    <3>2. CASE j <= s
      <4>1. j \in 1 .. Len(ms[p].keys) /\ ms[p].keys[j] = k
        BY <3>1, <3>2 DEF Parts
      <4>2. QED
        BY <4>1, <2>4, LeafKeysIs
    <3>3. CASE ~(j <= s)
      <4>1. PICK i : i = j - s
        OBVIOUS
      <4>2. i \in 1 .. Len(ks) - s /\ i + s = j
        BY <3>1, <3>3, <4>1
      <4>3. i \in 1 .. Len(ms[q].keys) /\ ms[q].keys[i] = k
        BY <3>1, <4>2 DEF Parts
      <4>4. QED
        BY <4>3, <2>4, LeafKeysIs
    <3>4. QED
      BY <3>2, <3>3
  <2>7. QED
    BY <2>5, <2>6
<1>2. LeafKeys(ms) \subseteq LeafKeys(big)
  BY DividedKeys
<1>3. QED
  BY <1>1, <1>2

\* The halves have the shape and the size of leaves.
LEMMA HalfOrder ==
  ASSUME NEW s, s = Order \div 2
  PROVE  s \in 1 .. Order - 1 /\ s \in 1 .. Order /\ Order - s >= s /\ Order - s < Order
BY OrderAssumption

LEMMA DividedFits ==
  ASSUME IInv, call = Idle, NEW p \in DOMAIN nodes, nodes[p].leaf, NEW q \in Pages, q \notin DOMAIN nodes,
         NEW ks, NEW ps, NEW s, s = Order \div 2, NEW ms, DividedLeaf(nodes, ms, p, q, ks, ps, s),
         Len(ks) = Order, Len(ps) = Order,
         Parts(Entries, ks, s, ms[p].keys, ms[q].keys), Parts(Rids, ps, s, ms[p].ptrs, ms[q].ptrs),
         NEW c, c.fn = "insert_into_parent", c.left = p
  PROVE  /\ Shapes(ms) /\ NodesOK(ms) /\ Leaves(nodes) \subseteq Leaves(ms)
         /\ Sizes(ms, root, c)
<1>1. /\ DOMAIN ms = DOMAIN nodes \cup {q} /\ \A x \in DOMAIN nodes \ {p} : ms[x] = nodes[x]
      /\ ms[p] \in NodeType /\ ms[q] \in NodeType
      /\ ms[p].leaf /\ ms[q].leaf /\ ms[p].parent = nodes[p].parent /\ ms[q].parent = nodes[p].parent
  BY DEF DividedLeaf
<1>2. /\ ms[p].ptrs \in Seq(Rids) /\ ms[q].ptrs \in Seq(Rids)
      /\ Len(ms[p].keys) = s /\ Len(ms[p].ptrs) = s
      /\ Len(ms[q].keys) = Order - s /\ Len(ms[q].ptrs) = Order - s
  BY DEF Parts
<1>3. /\ s \in 1 .. Order - 1 /\ Order - s >= s /\ Order - s < Order
  BY HalfOrder
<1>4. nodes[p].parent \in Pages \cup {-1} /\ DOMAIN nodes \subseteq Pages /\ \A x \in DOMAIN nodes : Shape(nodes[x])
  BY DEF IInv, Shapes, Shape
<1>5. Shape(ms[p])
  BY <1>1, <1>2, <1>3, <1>4, OrderAssumption DEF Shape
<1>6. Shape(ms[q])
  BY <1>1, <1>2, <1>3, <1>4, OrderAssumption DEF Shape
<1>7. Shapes(ms)
  BY <1>1, <1>4, <1>5, <1>6 DEF Shapes
<1>8. NodesOK(ms)
  <2>1. DOMAIN ms \subseteq PageIds
    BY <1>1, <1>4, MaxPageAssumption DEF Pages, PageIds
  <2>2. QED
    BY <2>1, <1>1 DEF IInv, NodesOK
<1>9. Leaves(nodes) \subseteq Leaves(ms)
  BY <1>1 DEF Leaves
<1>10. /\ ~nodes[root].leaf => Len(nodes[root].keys) >= 1
       /\ \A x \in DOMAIN nodes \ {root} : Enough(nodes, x)
       /\ root \in DOMAIN nodes
  BY DEF IInv, Sizes, Idle, SiblingCalls
<1>11. Enough(ms, p) /\ Enough(ms, q)
  <2>1. MinKeys(ms[p]) = s /\ MinKeys(ms[q]) = s
    BY <1>1 DEF MinKeys
  <2>2. QED
    BY <2>1, <1>2, <1>3 DEF Enough
<1>12. \A x \in DOMAIN ms \ {root} : Enough(ms, x)
  <2>1. SUFFICES ASSUME NEW x \in DOMAIN ms \ {root} PROVE Enough(ms, x)
    OBVIOUS
  <2>2. CASE x \in {p, q}
    BY <2>2, <1>11
  <2>3. CASE x \notin {p, q}
    <3>1. x \in DOMAIN nodes \ {root} /\ ms[x] = nodes[x]
      BY <2>3, <1>1
    <3>2. QED
      BY <3>1, <1>10 DEF Enough
  <2>4. QED
    BY <2>2, <2>3
<1>13. ~ms[root].leaf => Len(ms[root].keys) >= 1
  BY <1>1, <1>10
<1>14. Sizes(ms, root, c)
  BY <1>11, <1>12, <1>13 DEF Sizes, SiblingCalls
<1>15. QED
  BY <1>7, <1>8, <1>9, <1>14

LEMMA InvInsertIntoLeafAfterSplit ==
  ASSUME IInv, Eps = 1, NEW e \in Entries, ~Holds(FindLeaf(e), e), InsertIntoLeafAfterSplit(e)
  PROVE  IInv' /\ GainsKey(nodes, nodes', e)
<1>1. PICK p, q : p = FindLeaf(e) /\ q = FreshPage(nodes)
  OBVIOUS
<1>2. PICK ms : ms = nodes'
  OBVIOUS
<1>3. PICK c : c = call'
  OBVIOUS
<1>4. /\ ~Lookup(e[1]).found /\ ~HasRoom(p) /\ CanAllocate
      /\ ms = LeafSplit(e, p, q)
      /\ c = ToParent(nodes[p].parent, p, ms[q].keys[1], q)
      /\ leaked' = leaked \cup Lookup(e[1]).leaks
      /\ scan' = Disturbed /\ root' = root /\ unique' = unique /\ call = Idle /\ MayChange
  BY <1>1, <1>2, <1>3 DEF InsertIntoLeafAfterSplit, Leak, MayChange
<1>5. PICK h, sp, rk : InsertReady(e, h, sp, rk)
  BY <1>4, InsertIsReady
<1>6. PICK ks, ps : /\ ks = InsertAt(nodes[p].keys, PlaceOf(nodes[p].keys, e), e)
                    /\ ps = InsertAt(nodes[p].ptrs, PlaceOf(nodes[p].keys, e), e[2])
  OBVIOUS
<1>7. PICK big : big = [nodes EXCEPT ![p] = [nodes[p] EXCEPT !.keys = ks, !.ptrs = ps]]
  OBVIOUS
<1>8. p \in DOMAIN nodes /\ nodes[p] \in NodeType /\ nodes[p].leaf /\ p \in Leaves(nodes)
  BY <1>1, <1>5 DEF InsertReady, Leaves, IInv, NodesOK
<1>9. Rewritten(nodes, big, p, ks, ps) /\ Gains(nodes, p, e, ks, ps)
  BY <1>6, <1>7, <1>8, RewrittenIs DEF Gains
<1>10. /\ NodesOK(big) /\ Tree(big, root, h, sp, rk)
       /\ GainedLeaf(nodes, p, ks, ps) /\ ps \in Seq(Rids)
       /\ DistinctValues(big, unique) /\ GainsKey(nodes, big, e)
  BY <1>1, <1>5, <1>9, LeafWithEntry
<1>11. q \in Pages /\ q \notin DOMAIN nodes /\ q \in PageIds /\ q \in Int
  <2>1. DOMAIN nodes \subseteq Pages
    BY DEF IInv, Shapes
  <2>2. q \in Pages /\ q \notin DOMAIN nodes /\ q \in PageIds
    BY <1>1, <1>4, <2>1, RootPageIs DEF CanAllocate
  <2>3. QED
    BY <2>2 DEF Pages
<1>12. ks \in Seq(Entries) /\ Len(ks) = Order /\ Len(ps) = Order
  <2>1. Len(nodes[p].keys) \in Nat /\ Len(nodes[p].keys) < Order
    BY <1>8, NodeFields DEF IInv, Shapes, Shape
  <2>2. ~(Len(nodes[p].keys) < Order - 1)
    BY <1>4 DEF HasRoom
  <2>3. ks \in Seq(Entries) /\ Len(ks) = Len(nodes[p].keys) + 1 /\ Len(ps) = Len(ks)
    BY <1>10 DEF GainedLeaf
  <2>4. QED
    BY <2>1, <2>2, <2>3, OrderAssumption
<1>13. PICK s : s = Order \div 2
  OBVIOUS
<1>14. s \in 1 .. Order - 1 /\ s \in 1 .. Order
  BY <1>13, HalfOrder
<1>15. /\ DividedLeaf(nodes, ms, p, q, ks, ps, s)
       /\ Parts(Entries, ks, s, ms[p].keys, ms[q].keys) /\ Parts(Rids, ps, s, ms[p].ptrs, ms[q].ptrs)
  BY <1>4, <1>8, <1>9, <1>10, <1>11, <1>12, <1>13, <1>14, LeafSplitIs
<1>16. PICK key : key = ks[s + 1]
  OBVIOUS
<1>17. key \in Entries /\ ms[q].keys[1] = key
  <2>1. 1 \in 1 .. Len(ks) - s /\ 1 + s = s + 1 /\ s + 1 \in 1 .. Len(ks)
    BY <1>12, <1>14, OrderAssumption
  <2>2. ms[q].keys[1] = ks[1 + s]
    BY <2>1, <1>15 DEF Parts
  <2>3. QED
    BY <2>1, <2>2, <1>12, <1>16
<1>18. RawSplit(big, ms, p, q) /\ Halved(big, ms, p, q, s, key) /\ big[p].parent = nodes[p].parent
  <2>1. s \in 1 .. Len(ks) - 1
    BY <1>12, <1>14
  <2>2. QED
    BY <2>1, <1>8, <1>9, <1>11, <1>15, <1>16, DividedIsHalved DEF IInv
<1>19. c = ToParent(big[p].parent, p, key, q)
  BY <1>4, <1>17, <1>18
<1>20. c.fn = "insert_into_parent" /\ c.left = p
  BY <1>19 DEF ToParent
<1>21. Shapes(ms) /\ NodesOK(ms) /\ Leaves(nodes) \subseteq Leaves(ms) /\ Sizes(ms, root, c)
  BY <1>4, <1>8, <1>11, <1>12, <1>13, <1>15, <1>20, DividedFits
<1>22. DOMAIN ms \subseteq Pages
  BY <1>21 DEF Shapes
<1>23. Sound(Whole(ms, c), WholeRoot(ms, root, c)) /\ CallFits(ms, root, c)
  <2>1. Sound(big, root)
    BY <1>10, SoundIs
  <2>2. QED
    BY <2>1, <1>17, <1>18, <1>19, <1>22, SplitSound
<1>24. DistinctValues(ms, unique)
  <2>1. Len(ks) \in Nat /\ s \in 1 .. Len(ks)
    BY <1>12, <1>14
  <2>2. LeafKeys(ms) \subseteq LeafKeys(big)
    BY <2>1, <1>8, <1>9, <1>10, <1>11, <1>15, <1>21, DividedKeys DEF IInv
  <2>3. QED
    BY <2>2, <1>10, DistinctMono
<1>25. leaked' \subseteq Leaves(ms)
  BY <1>4, <1>5, <1>21 DEF IInv, InsertReady
<1>26. ScanFits(ms, c, scan')
  BY <1>4, <1>21, <1>22, DisturbedFits
<1>27. root \in DOMAIN ms /\ unique \in BOOLEAN
  BY <1>15 DEF IInv, DividedLeaf
<1>28. IInv'
  BY <1>2, <1>3, <1>4, <1>21, <1>23, <1>24, <1>25, <1>26, <1>27 DEF IInv
<1>29. GainsKey(nodes, ms, e)
  <2>1. Len(ks) \in Nat /\ s \in 1 .. Len(ks)
    BY <1>12, <1>14
  <2>2. LeafKeys(ms) = LeafKeys(big)
    BY <2>1, <1>8, <1>9, <1>10, <1>11, <1>15, <1>21, DividedKept DEF IInv
  <2>3. QED
    BY <2>2, <1>10 DEF GainsKey
<1>30. QED
  BY <1>2, <1>28, <1>29

-----------------------------------------------------------------------------
(* The parent takes the new node: insert_into_new_root, insert_intern_node *)

LEMMA PlaceInRange ==
  ASSUME NEW S, NEW s \in Seq(S), NEW v, \E i \in 1 .. Len(s) : s[i] = v
  PROVE  PlaceIn(s, v) \in 1 .. Len(s) /\ s[PlaceIn(s, v)] = v
<1> DEFINE T == {j \in 1 .. Len(s) : s[j] = v} \cup {Len(s) + 1}
<1>1. T \subseteq Nat /\ T # {}
  OBVIOUS
<1>2. Min(T) \in T /\ \A y \in T : Min(T) <= y
  BY <1>1, MinNat
<1>3. PICK i \in 1 .. Len(s) : s[i] = v
  OBVIOUS
<1>4. Min(T) <= i
  BY <1>2, <1>3
<1>5. Min(T) # Len(s) + 1
  BY <1>3, <1>4, <1>2
<1>6. Min(T) \in {j \in 1 .. Len(s) : s[j] = v}
  BY <1>2, <1>5
<1>7. QED
  BY <1>6 DEF PlaceIn

LEMMA SameLeafKeys ==
  ASSUME NEW ns, NEW ms, SameLeaves(ns, ms)
  PROVE  LeafKeys(ms) = LeafKeys(ns)
BY DEF SameLeaves, LeafKeys

\* What the tree that the call completes keeps
LEMMA Completed ==
  ASSUME IInv, NEW ws, ws = Whole(nodes, call), NEW r, r = WholeRoot(nodes, root, call)
  PROVE  /\ SameLeaves(nodes, ws) /\ Leaves(ws) = Leaves(nodes)
         /\ DistinctValues(ws, unique)
         /\ NodesOK(ws) /\ r \in DOMAIN ws
         /\ Sound(ws, r) /\ Sound(Whole(ws, Idle), WholeRoot(ws, r, Idle))
<1>1. SameLeaves(nodes, ws)
  BY WholeLeaves DEF IInv, Shapes
<1>2. Leaves(ws) = Leaves(nodes)
  BY <1>1 DEF SameLeaves
<1>3. DistinctValues(ws, unique)
  <2>1. LeafKeys(ws) \subseteq LeafKeys(nodes)
    BY <1>1, SameLeafKeys
  <2>2. DistinctValues(nodes, unique)
    BY DEF IInv
  <2>3. QED
    BY <2>1, <2>2, DistinctMono
<1>4. Sound(ws, r)
  BY DEF IInv
<1>5. NodesOK(ws) /\ r \in DOMAIN ws
  BY <1>4 DEF Sound, Tree, RootAt
<1>6. Whole(ws, Idle) = ws /\ WholeRoot(ws, r, Idle) = r
  BY WholeCases
<1>7. QED
  BY <1>1, <1>2, <1>3, <1>4, <1>5, <1>6

\* The keys and children of a node that gets one more
ChildGained(ns, p, ks, ps) ==
  /\ ks \in Seq(Entries) /\ ps \in Seq(Pages)
  /\ Len(ks) = Len(ns[p].keys) + 1 /\ Len(ps) = Len(ns[p].keys) + 2

LEMMA ChildGains ==
  ASSUME NEW ns, NodesOK(ns), Shapes(ns), NEW r, NEW c, InsertFits(ns, r, c), c.page # -1,
         NEW p, p = c.page, NEW i, i = PlaceIn(ns[p].ptrs, c.left),
         NEW ks, ks = InsertAt(ns[p].keys, i, c.key), NEW ps, ps = InsertAt(ns[p].ptrs, i + 1, c.right)
  PROVE  ChildGained(ns, p, ks, ps) /\ p \in DOMAIN ns /\ ~ns[p].leaf /\ ns[p] \in NodeType
<1>1. /\ p \in DOMAIN ns /\ ~ns[p].leaf /\ c.key \in Entries /\ c.right \in DOMAIN ns
      /\ \E j \in 1 .. Len(ns[p].ptrs) : ns[p].ptrs[j] = c.left
  BY DEF InsertFits
<1>2. ns[p] \in NodeType /\ ns[p].keys \in Seq(Entries) /\ Len(ns[p].keys) \in Nat
  BY <1>1, NodeFields DEF NodesOK
<1>3. ns[p].ptrs \in Seq(Pages) /\ Len(ns[p].ptrs) = Len(ns[p].keys) + 1 /\ c.right \in Pages
  BY <1>1 DEF Shapes, Shape
<1>4. i \in 1 .. Len(ns[p].keys) + 1
  BY <1>1, <1>3, PlaceInRange
<1>5. ks \in Seq(Entries) /\ Len(ks) = Len(ns[p].keys) + 1
  BY <1>1, <1>2, <1>4, Inserted DEF InsertedSeq
<1>6. PICK j : j = i + 1
  OBVIOUS
<1>7. j \in 1 .. Len(ns[p].ptrs) + 1
  BY <1>2, <1>3, <1>4, <1>6
<1>8. ps \in Seq(Pages) /\ InsertedSeq(ns[p].ptrs, j, c.right, ps)
  BY <1>3, <1>6, <1>7, Inserted
<1>9. Len(ps) = Len(ns[p].keys) + 2
  BY <1>8, <1>3, <1>2 DEF InsertedSeq
<1>10. QED
  BY <1>1, <1>2, <1>5, <1>8, <1>9 DEF ChildGained

LEMMA InsertPending ==
  ASSUME IInv, call.fn = "insert_into_parent"
  PROVE  /\ InsertFits(nodes, root, call) /\ call # Idle
         /\ Enough(nodes, call.left)
         /\ ~nodes[root].leaf => Len(nodes[root].keys) >= 1
         /\ \A x \in DOMAIN nodes \ {root} : Enough(nodes, x)
BY DEF IInv, CallFits, Sizes, Idle, SiblingCalls

LEMMA InvInsertInternNode ==
  ASSUME IInv, InsertInternNode
  PROVE  IInv' /\ LeafKeys(nodes') = LeafKeys(nodes)
<1>1. PICK ms : ms = nodes'
  OBVIOUS
<1>2. PICK p, i : p = call.page /\ i = PlaceIn(nodes[p].ptrs, call.left)
  OBVIOUS
<1>3. PICK ks, ps : ks = InsertAt(nodes[p].keys, i, call.key) /\ ps = InsertAt(nodes[p].ptrs, i + 1, call.right)
  OBVIOUS
<1>4. /\ call.fn = "insert_into_parent" /\ p # -1 /\ HasRoom(p) /\ call' = Idle
      /\ root' = root /\ unique' = unique /\ leaked' = leaked /\ scan' = scan
  BY <1>2 DEF InsertInternNode, Pending
<1>5. InsertFits(nodes, root, call) /\ call # Idle
  BY <1>4, InsertPending
<1>6. ms = WithChild(nodes, p, call.left, call.key, call.right)
  BY <1>1, <1>2 DEF InsertInternNode, WithChild, ChildIndex, PlaceIn
<1>7. ms = Whole(nodes, call) /\ root = WholeRoot(nodes, root, call)
  BY <1>2, <1>4, <1>6, WholeCases
<1>8. ChildGained(nodes, p, ks, ps) /\ p \in DOMAIN nodes /\ ~nodes[p].leaf /\ nodes[p] \in NodeType
  BY <1>2, <1>3, <1>4, <1>5, ChildGains DEF IInv
<1>9. Rewritten(nodes, ms, p, ks, ps)
  BY <1>2, <1>3, <1>6, <1>8, WithChildIs
<1>10. /\ SameLeaves(nodes, ms) /\ Leaves(ms) = Leaves(nodes) /\ DistinctValues(ms, unique)
       /\ NodesOK(ms) /\ root \in DOMAIN ms
       /\ Sound(ms, root) /\ Sound(Whole(ms, Idle), WholeRoot(ms, root, Idle))
  BY <1>7, Completed
<1>11. Len(nodes[p].keys) \in Nat
  BY <1>8, NodeFields
<1>12. Shapes(ms)
  <2>1. Len(ks) < Order
    BY <1>4, <1>8, <1>11, OrderAssumption DEF HasRoom, ChildGained
  <2>2. /\ ps \in Seq(IF nodes[p].leaf THEN Rids ELSE Pages) /\ ks \in Seq(Entries)
        /\ Len(ps) = Len(ks) + (IF nodes[p].leaf THEN 0 ELSE 1)
    BY <1>8, <1>11 DEF ChildGained
  <2>3. QED
    BY <2>1, <2>2, <1>8, <1>9, RewrittenShapes DEF IInv
<1>13. Sizes(ms, root, Idle)
  <2>1. /\ ~nodes[root].leaf => Len(nodes[root].keys) >= 1
        /\ \A x \in DOMAIN nodes \ {root} : Enough(nodes, x)
    BY <1>4, InsertPending
  <2>2. \A x \in DOMAIN nodes \ {p} : ms[x] = nodes[x]
    BY <1>9 DEF Rewritten
  <2>3. ms[p].leaf = nodes[p].leaf /\ Len(ms[p].keys) = Len(nodes[p].keys) + 1 /\ DOMAIN ms = DOMAIN nodes
    BY <1>8, <1>9 DEF Rewritten, ChildGained
  <2>4. MinKeys(ms[p]) = MinKeys(nodes[p]) /\ MinKeys(nodes[p]) \in Int
    BY <2>3, OrderAssumption DEF MinKeys
  <2>5. p # root => Enough(ms, p)
    BY <2>1, <2>3, <2>4, <1>8, <1>11 DEF Enough
  <2>6. \A x \in DOMAIN ms \ {root} : Enough(ms, x)
    BY <2>1, <2>2, <2>3, <2>5 DEF Enough
  <2>7. Len(ms[root].keys) >= 1 \/ ms[root].leaf
    BY <2>1, <2>2, <2>3, <1>10, <1>11
  <2>8. QED
    BY <2>6, <2>7 DEF Sizes, Idle, SiblingCalls
<1>14. ScanFits(ms, Idle, scan)
  BY <1>4, <1>10, <1>12, ScanStays DEF Shapes
<1>15. leaked \subseteq Leaves(ms) /\ unique \in BOOLEAN
  BY <1>10 DEF IInv
<1>16. CallFits(ms, root, Idle)
  BY DEF CallFits
<1>17. IInv'
  BY <1>1, <1>4, <1>10, <1>12, <1>13, <1>14, <1>15, <1>16 DEF IInv
<1>18. QED
  BY <1>1, <1>10, <1>17, SameLeafKeys

LEMMA InvInsertIntoNewRoot ==
  ASSUME IInv, InsertIntoNewRoot
  PROVE  IInv' /\ LeafKeys(nodes') = LeafKeys(nodes)
<1>1. PICK ms : ms = nodes'
  OBVIOUS
<1>2. PICK q : q = FreshPage(nodes)
  OBVIOUS
<1>4. /\ call.fn = "insert_into_parent" /\ call.page = -1 /\ CanAllocate /\ call' = Idle
      /\ root' = q /\ unique' = unique /\ leaked' = leaked /\ scan' = scan
      /\ ms = WithRoot(nodes, q, call.left, call.key, call.right)
  BY <1>1, <1>2 DEF InsertIntoNewRoot, Pending, WithRoot
<1>5. InsertFits(nodes, root, call) /\ call # Idle
  BY <1>4, InsertPending
<1>6. /\ DOMAIN nodes \subseteq Pages /\ q \in Pages /\ q \notin DOMAIN nodes /\ q = RootPage(nodes)
  BY <1>2, <1>4, RootPageIs DEF CanAllocate, IInv, Shapes
<1>7. ms = Whole(nodes, call) /\ q = WholeRoot(nodes, root, call)
  BY <1>4, <1>6, WholeCases
<1>8. /\ call.left \in DOMAIN nodes /\ call.right \in DOMAIN nodes /\ call.key \in Entries /\ root = call.left
  BY <1>4, <1>5 DEF InsertFits
<1>9. Rooted(nodes, ms, q, call.left, call.key, call.right)
  <2>1. call.left \in Int /\ call.right \in Int /\ q \in Int /\ q \notin {call.left, call.right}
    BY <1>6, <1>8 DEF Pages
  <2>2. \A x \in DOMAIN nodes : nodes[x] \in NodeType
    BY DEF IInv, NodesOK
  <2>3. QED
    BY <2>1, <2>2, <1>4, <1>6, <1>8, WithRootIs
<1>10. /\ SameLeaves(nodes, ms) /\ Leaves(ms) = Leaves(nodes) /\ DistinctValues(ms, unique)
       /\ NodesOK(ms) /\ q \in DOMAIN ms
       /\ Sound(ms, q) /\ Sound(Whole(ms, Idle), WholeRoot(ms, q, Idle))
  BY <1>7, Completed
<1>11. /\ DOMAIN ms = DOMAIN nodes \cup {q} /\ ms[q].leaf = FALSE /\ ms[q].parent = -1
       /\ ms[q].keys = <<call.key>> /\ ms[q].ptrs = <<call.left, call.right>>
       /\ \A x \in DOMAIN nodes : /\ ms[x].leaf = nodes[x].leaf /\ ms[x].keys = nodes[x].keys
                                  /\ ms[x].ptrs = nodes[x].ptrs
                                  /\ ms[x].parent \in {nodes[x].parent, q}
  BY <1>9 DEF Rooted, Moved
<1>12. Shapes(ms)
  <2>1. Shape(ms[q])
    <3>1. ms[q].ptrs \in Seq(Pages) /\ Len(ms[q].ptrs) = 2
      BY <1>6, <1>8, <1>11
    <3>2. Len(ms[q].keys) = 1
      BY <1>11
    <3>3. ms[q].leaf = FALSE /\ ms[q].parent = -1 /\ 1 < Order
      BY <1>11, OrderAssumption
    <3>4. /\ ms[q].ptrs \in Seq(IF ms[q].leaf THEN Rids ELSE Pages)
          /\ Len(ms[q].ptrs) = Len(ms[q].keys) + (IF ms[q].leaf THEN 0 ELSE 1)
      BY <3>1, <3>2, <3>3
    <3>5. QED
      BY <3>2, <3>3, <3>4 DEF Shape
  <2>2. ASSUME NEW x \in DOMAIN nodes PROVE Shape(ms[x])
    <3>1. Shape(nodes[x])
      BY DEF IInv, Shapes
    <3>2. ms[x].parent \in Pages \cup {-1}
      BY <3>1, <1>6, <1>11 DEF Shape
    <3>3. /\ Len(nodes[x].keys) < Order
          /\ nodes[x].ptrs \in Seq(IF nodes[x].leaf THEN Rids ELSE Pages)
          /\ Len(nodes[x].ptrs) = Len(nodes[x].keys) + (IF nodes[x].leaf THEN 0 ELSE 1)
      BY <3>1 DEF Shape
    <3>4. ms[x].leaf = nodes[x].leaf /\ ms[x].keys = nodes[x].keys /\ ms[x].ptrs = nodes[x].ptrs
      BY <1>11
    <3>5. QED
      BY <3>2, <3>3, <3>4 DEF Shape
  <2>3. QED
    BY <2>1, <2>2, <1>6, <1>11 DEF Shapes
<1>13. Sizes(ms, q, Idle)
  <2>1. \A x \in DOMAIN nodes : Enough(nodes, x)
    BY <1>4, <1>8, InsertPending
  <2>2. \A x \in DOMAIN nodes : Enough(ms, x)
    BY <2>1, <1>11 DEF Enough, MinKeys
  <2>3. Len(ms[q].keys) >= 1
    BY <1>11
  <2>4. QED
    BY <2>2, <2>3, <1>11 DEF Sizes, Idle, SiblingCalls
<1>14. ScanFits(ms, Idle, scan)
  BY <1>4, <1>10, <1>12, ScanStays DEF Shapes
<1>15. leaked \subseteq Leaves(ms) /\ unique \in BOOLEAN
  BY <1>10 DEF IInv
<1>16. CallFits(ms, q, Idle)
  BY DEF CallFits
<1>17. IInv'
  BY <1>1, <1>4, <1>10, <1>12, <1>13, <1>14, <1>15, <1>16 DEF IInv
<1>18. QED
  BY <1>1, <1>10, <1>17, SameLeafKeys

-----------------------------------------------------------------------------
(* A full inner node is divided: insert_intern_node_after_split *)

\* ms is ns with ka and pa on page p, kb and pb on the new page q, whose children are C
DividedInner(ns, ms, p, q, ka, pa, kb, pb, C) ==
  /\ DOMAIN ms = DOMAIN ns \cup {q}
  /\ \A x \in DOMAIN ns \ {p} : x \notin C => ms[x] = ns[x]
  /\ \A x \in DOMAIN ns \ {p} : x \in C => Moved(ns[x], ms[x], q)
  /\ ms[p] \in NodeType /\ ms[q] \in NodeType
  /\ ms[p].leaf = FALSE /\ ms[q].leaf = FALSE /\ ms[p].parent = ns[p].parent /\ ms[q].parent = ns[p].parent
  /\ ms[p].keys = ka /\ ms[p].ptrs = pa /\ ms[q].keys = kb /\ ms[q].ptrs = pb
  /\ ms[p].next = ns[p].next /\ ms[q].next = 0

\* The keys and children of the two halves
InnerParts(ks, ps, s, ka, pa, kb, pb) ==
  /\ ka \in Seq(Entries) /\ pa \in Seq(Pages) /\ kb \in Seq(Entries) /\ pb \in Seq(Pages)
  /\ Len(ka) = s - 1 /\ Len(pa) = s /\ Len(kb) = Len(ks) - s /\ Len(pb) = Len(ks) + 1 - s
  /\ \A x : x \in ToSet(pb) <=> \E j \in s + 1 .. Len(ks) + 1 : ps[j] = x

LEMMA InnerPartsAre ==
  ASSUME NEW ks \in Seq(Entries), NEW ps \in Seq(Pages), Len(ps) = Len(ks) + 1, NEW s \in 1 .. Len(ks),
         NEW ka, NEW pa, NEW kb, NEW pb, ka = SubSeq(ks, 1, s - 1), pa = SubSeq(ps, 1, s),
         kb = SubSeq(ks, s + 1, Len(ks)), pb = SubSeq(ps, s + 1, Len(ks) + 1)
  PROVE  InnerParts(ks, ps, s, ka, pa, kb, pb)
<1>1. ka \in Seq(Entries) /\ Len(ka) = s - 1
  OBVIOUS
<1>2. kb \in Seq(Entries) /\ Len(kb) = Len(ks) - s
  OBVIOUS
<1>3. pa \in Seq(Pages) /\ Len(pa) = s
  OBVIOUS
<1>4. pb = SubSeq(ps, s + 1, Len(ps)) /\ s \in 1 .. Len(ps) /\ Len(ps) - s = Len(ks) + 1 - s
  OBVIOUS
<1>5. Parts(Pages, ps, s, pa, pb)
  BY <1>4, PartsAre
<1>6. pb \in Seq(Pages) /\ Len(pb) = Len(ks) + 1 - s /\ \A j \in 1 .. Len(ks) + 1 - s : pb[j] = ps[j + s]
  BY <1>4, <1>5 DEF Parts
<1>7. ASSUME NEW x PROVE x \in ToSet(pb) <=> \E j \in s + 1 .. Len(ks) + 1 : ps[j] = x
  <2>1. x \in ToSet(pb) <=> \E j \in 1 .. Len(ks) + 1 - s : pb[j] = x
    <3>1. pb \in Seq(Pages) /\ Len(pb) = Len(ks) + 1 - s
      BY <1>6
    <3>2. DOMAIN pb = 1 .. Len(pb)
      BY <3>1
    <3>3. x \in ToSet(pb) <=> \E j \in 1 .. Len(pb) : pb[j] = x
      BY <3>2 DEF ToSet
    <3>4. QED
      BY <3>1, <3>3
  <2>2. ASSUME NEW j \in 1 .. Len(ks) + 1 - s, pb[j] = x
        PROVE  \E i \in s + 1 .. Len(ks) + 1 : ps[i] = x
    <3>1. j + s \in s + 1 .. Len(ks) + 1 /\ ps[j + s] = x
      BY <2>2, <1>6
    <3>2. QED
      BY <3>1
  <2>3. ASSUME NEW i \in s + 1 .. Len(ks) + 1, ps[i] = x
        PROVE  \E j \in 1 .. Len(ks) + 1 - s : pb[j] = x
    <3>1. PICK j : j = i - s
      OBVIOUS
    <3>2. j \in 1 .. Len(ks) + 1 - s /\ j + s = i
      BY <3>1
    <3>3. pb[j] = ps[j + s]
      BY <3>2, <1>6
    <3>4. QED
      BY <3>2, <3>3, <2>3
  <2>4. QED
    BY <2>1, <2>2, <2>3
<1>8. QED
  BY <1>1, <1>2, <1>3, <1>6, <1>7 DEF InnerParts

LEMMA InnerSplitIs ==
  ASSUME NEW ns, NodesOK(ns), NEW p \in DOMAIN ns, ~ns[p].leaf, NEW q \in Int, q \notin DOMAIN ns,
         NEW ks, NEW ps, NEW s, NEW ka, NEW pa, NEW kb, NEW pb, InnerParts(ks, ps, s, ka, pa, kb, pb),
         NEW C, p \notin C, q \notin C,
         NEW ms, ms = Adopt(Put([ns EXCEPT ![p] = [ns[p] EXCEPT !.keys = ka, !.ptrs = pa]],
                                q, Inner(ns[p].parent, kb, pb)), C, q)
  PROVE  DividedInner(ns, ms, p, q, ka, pa, kb, pb, C)
<1>2. Pages \subseteq Int
  BY DEF Pages
<1>3. ka \in Seq(Entries) /\ kb \in Seq(Entries) /\ pa \in Seq(Int) /\ pb \in Seq(Int)
  <2>1. ka \in Seq(Entries) /\ kb \in Seq(Entries) /\ pa \in Seq(Pages) /\ pb \in Seq(Pages)
    BY DEF InnerParts
  <2>2. QED
    BY <2>1, <1>2, SeqMono
<1>4. PICK g : g = [ns EXCEPT ![p] = [ns[p] EXCEPT !.keys = ka, !.ptrs = pa]]
  OBVIOUS
<1>5. ns[p] \in NodeType
  BY DEF NodesOK
<1>6. Rewritten(ns, g, p, ka, pa)
  BY <1>4, <1>5, RewrittenIs
<1>7. PICK m : m = Inner(ns[p].parent, kb, pb)
  OBVIOUS
<1>8. /\ m \in NodeType /\ m.leaf = FALSE /\ m.parent = ns[p].parent /\ m.keys = kb /\ m.ptrs = pb /\ m.next = 0
  <2>1. ns[p].parent \in Int
    BY <1>5, NodeFields
  <2>2. QED
    BY <2>1, <1>3, <1>7 DEF NodeType, Inner
<1>9. PICK f : f = Put(g, q, m)
  OBVIOUS
<1>10. DOMAIN f = DOMAIN ns \cup {q} /\ f[q] = m /\ \A x \in DOMAIN ns : f[x] = g[x]
  BY <1>6, <1>9 DEF Put, Rewritten
<1>11. \A x \in DOMAIN f : f[x] \in NodeType
  BY <1>3, <1>6, <1>8, <1>10 DEF Rewritten, NodesOK
<1>12. ms = Adopt(f, C, q)
  BY <1>4, <1>7, <1>9
<1>13. Adopted(f, ms, C, q)
  BY <1>11, <1>12, AdoptedIs
<1>14. DOMAIN ms = DOMAIN ns \cup {q} /\ ms[p] = f[p] /\ ms[q] = f[q]
  BY <1>10, <1>13 DEF Adopted
<1>15. ms[p] = g[p] /\ ms[q] = m
  BY <1>10, <1>14
<1>16. /\ ms[p] \in NodeType /\ ms[p].leaf = ns[p].leaf /\ ms[p].parent = ns[p].parent
       /\ ms[p].keys = ka /\ ms[p].ptrs = pa /\ ms[p].next = ns[p].next
  BY <1>3, <1>6, <1>15 DEF Rewritten
<1>17. \A x \in DOMAIN ns \ {p} : f[x] = ns[x]
  BY <1>6, <1>10 DEF Rewritten
<1>18. \A x \in DOMAIN ns \ {p} : x \notin C => ms[x] = ns[x]
  BY <1>10, <1>13, <1>17 DEF Adopted
<1>19. \A x \in DOMAIN ns \ {p} : x \in C => Moved(ns[x], ms[x], q)
  BY <1>10, <1>13, <1>17 DEF Adopted
<1>20. ns[p].leaf = FALSE
  BY <1>5, NodeFields
<1>21. QED
  BY <1>8, <1>14, <1>15, <1>16, <1>18, <1>19, <1>20 DEF DividedInner

InnerCut(ks, ps, s, ka, pa, kb, pb, C) ==
  /\ ka = SubSeq(ks, 1, s - 1) /\ pa = SubSeq(ps, 1, s)
  /\ kb = SubSeq(ks, s + 1, Len(ks)) /\ pb = SubSeq(ps, s + 1, Len(ks) + 1)
  /\ \A x : x \in C <=> \E j \in s + 1 .. Len(ks) + 1 : ps[j] = x

\* Seen from the node that has one child too many, it is halved.
LEMMA InnerIsHalved ==
  ASSUME NEW ns, NodesOK(ns), NEW p \in DOMAIN ns, ~ns[p].leaf, NEW q \in PageIds, q \notin DOMAIN ns,
         NEW ks \in Seq(Entries), NEW ps, NEW s \in 1 .. Len(ks),
         NEW ka, NEW pa, NEW kb, NEW pb, NEW C, InnerCut(ks, ps, s, ka, pa, kb, pb, C),
         NEW ms, DividedInner(ns, ms, p, q, ka, pa, kb, pb, C), NodesOK(ms),
         NEW w, Rewritten(ns, w, p, ks, ps), NEW r, NEW h, NEW sp, NEW rk, Tree(w, r, h, sp, rk),
         NEW key, key = ks[s]
  PROVE  RawSplit(w, ms, p, q) /\ Halved(w, ms, p, q, s, key)
<1>1. /\ DOMAIN w = DOMAIN ns /\ w[p].keys = ks /\ w[p].ptrs = ps /\ w[p].leaf = ns[p].leaf
      /\ w[p].parent = ns[p].parent /\ w[p].next = ns[p].next
      /\ \A x \in DOMAIN ns \ {p} : w[x] = ns[x]
  BY DEF Rewritten
<1>2. p \in DOMAIN w /\ ~w[p].leaf /\ Len(ks) \in Nat
  BY <1>1
<1>3. \A j \in 1 .. Len(ks) + 1 : ps[j] \in DOMAIN w /\ w[ps[j]].parent = p /\ ps[j] # p
  <2>1. SUFFICES ASSUME NEW j \in 1 .. Len(w[p].keys) + 1
                 PROVE  w[p].ptrs[j] \in DOMAIN w /\ w[w[p].ptrs[j]].parent = p /\ w[p].ptrs[j] # p
    BY <1>1
  <2>2. PICK x : x = w[p].ptrs[j]
    OBVIOUS
  <2>3. x \in DOMAIN w /\ w[x].parent = p /\ x # p
    BY <2>2, <1>2, TreeChild
  <2>4. QED
    BY <2>2, <2>3
<1>4. \A i, j \in 1 .. Len(ks) + 1 : ps[i] = ps[j] => i = j
  <2>1. SUFFICES ASSUME NEW i \in 1 .. Len(w[p].keys) + 1, NEW j \in 1 .. Len(w[p].keys) + 1
                 PROVE  w[p].ptrs[i] = w[p].ptrs[j] => i = j
    BY <1>1
  <2>2. QED
    BY <1>2, ChildrenApart
<1>15. /\ \A x \in C : \E j \in s + 1 .. Len(ks) + 1 : ps[j] = x
       /\ \A j \in s + 1 .. Len(ks) + 1 : ps[j] \in C
  BY DEF InnerCut
<1>5. \A x \in C : x \in DOMAIN ns \ {p} /\ w[x].parent = p
  <2>1. SUFFICES ASSUME NEW x \in C PROVE x \in DOMAIN ns \ {p} /\ w[x].parent = p
    OBVIOUS
  <2>2. PICK j \in s + 1 .. Len(ks) + 1 : ps[j] = x
    BY <1>15
  <2>3. j \in 1 .. Len(ks) + 1
    BY <1>2
  <2>4. QED
    BY <2>2, <2>3, <1>1, <1>3
<1>6. /\ DOMAIN ms = DOMAIN ns \cup {q}
      /\ \A x \in DOMAIN ns \ {p} : x \notin C => ms[x] = ns[x]
      /\ \A x \in DOMAIN ns \ {p} : x \in C => Moved(ns[x], ms[x], q)
      /\ ms[p].leaf = FALSE /\ ms[q].leaf = FALSE /\ ms[p].parent = ns[p].parent /\ ms[q].parent = ns[p].parent
      /\ ms[p].keys = ka /\ ms[p].ptrs = pa /\ ms[q].keys = kb /\ ms[q].ptrs = pb
      /\ ms[p].next = ns[p].next /\ ms[q].next = 0
  BY DEF DividedInner
<1>7. w[p].leaf = FALSE /\ w[p].next = 0
  <2>1. w[p] \in NodeType
    BY <1>2 DEF Tree, NodesOK
  <2>2. w[p].leaf \in BOOLEAN
    BY <2>1, NodeFields
  <2>3. QED
    BY <2>2, <1>2, TreeEdge
<1>8. \A x \in DOMAIN w \ {p} : SameBody(w, ms, x)
  <2>1. SUFFICES ASSUME NEW x \in DOMAIN ns \ {p} PROVE SameBody(ns, ms, x) /\ w[x] = ns[x]
    BY <1>1 DEF SameBody
  <2>2. CASE x \in C
    BY <2>2, <1>1, <1>6 DEF Moved, SameBody
  <2>3. CASE x \notin C
    BY <2>3, <1>1, <1>6 DEF SameBody
  <2>4. QED
    BY <2>2, <2>3
<1>9. \A x \in DOMAIN w : w[x].parent # p => ms[x].parent = w[x].parent
  <2>1. SUFFICES ASSUME NEW x \in DOMAIN ns, w[x].parent # p PROVE ms[x].parent = w[x].parent
    BY <1>1
  <2>2. CASE x = p
    BY <2>2, <1>1, <1>6
  <2>3. CASE x # p
    <3>1. x \notin C
      BY <2>1, <1>5
    <3>2. QED
      BY <3>1, <2>3, <1>1, <1>6
  <2>4. QED
    BY <2>2, <2>3
<1>10. RawSplit(w, ms, p, q)
  BY <1>1, <1>6, <1>7, <1>8, <1>9 DEF RawSplit
<1>11. \A j \in 1 .. s : ms[ps[j]].parent = p
  <2>1. SUFFICES ASSUME NEW j \in 1 .. s PROVE ms[ps[j]].parent = p
    OBVIOUS
  <2>2. j \in 1 .. Len(ks) + 1
    BY <1>2
  <2>3. ps[j] \notin C
    <3>1. SUFFICES ASSUME NEW i \in s + 1 .. Len(ks) + 1, ps[i] = ps[j] PROVE FALSE
      BY <1>15
    <3>2. i \in 1 .. Len(ks) + 1 /\ i # j
      BY <1>2
    <3>3. QED
      BY <3>1, <3>2, <2>2, <1>4
  <2>4. ps[j] \in DOMAIN ns \ {p} /\ w[ps[j]].parent = p
    BY <2>2, <1>1, <1>3
  <2>5. QED
    BY <2>3, <2>4, <1>1, <1>6
<1>12. \A j \in s + 1 .. Len(ks) + 1 : ms[ps[j]].parent = q
  <2>1. SUFFICES ASSUME NEW j \in s + 1 .. Len(ks) + 1 PROVE ms[ps[j]].parent = q
    OBVIOUS
  <2>2. ps[j] \in C
    BY <1>15
  <2>3. Moved(ns[ps[j]], ms[ps[j]], q)
    BY <2>2, <1>5, <1>6
  <2>4. QED
    BY <2>3 DEF Moved
<1>13. HalfInners(w, ms, p, q, s, key)
  <2>1. /\ ka = SubSeq(ks, 1, s - 1) /\ pa = SubSeq(ps, 1, s)
        /\ kb = SubSeq(ks, s + 1, Len(ks)) /\ pb = SubSeq(ps, s + 1, Len(ks) + 1)
    BY DEF InnerCut
  <2>2. QED
    BY <2>1, <1>1, <1>2, <1>6, <1>7, <1>11, <1>12 DEF HalfInners
<1>14. QED
  BY <1>10, <1>13 DEF Halved

\* The halves have the shape and the size of inner nodes.
LEMMA HalfInnerOrder ==
  ASSUME NEW s, s = (Order + 1) \div 2
  PROVE  s \in 1 .. Order /\ s >= 2 /\ s - 1 < Order /\ Order - s < Order /\ Order - s >= s - 1 /\ s \in Nat
BY OrderAssumption

LEMMA InnerDividedFits ==
  ASSUME IInv, call.fn = "insert_into_parent", NEW p \in DOMAIN nodes, ~nodes[p].leaf,
         NEW q \in Pages, q \notin DOMAIN nodes,
         NEW ks, NEW ps, NEW s, s = (Order + 1) \div 2, Len(ks) = Order,
         NEW ka, NEW pa, NEW kb, NEW pb, InnerParts(ks, ps, s, ka, pa, kb, pb),
         NEW C, NEW ms, DividedInner(nodes, ms, p, q, ka, pa, kb, pb, C),
         NEW c, c.fn = "insert_into_parent", c.left = p
  PROVE  /\ Shapes(ms) /\ NodesOK(ms) /\ SameLeaves(nodes, ms)
         /\ Sizes(ms, root, c)
<1>1. /\ DOMAIN ms = DOMAIN nodes \cup {q} /\ ms[p] \in NodeType /\ ms[q] \in NodeType
      /\ ms[p].leaf = FALSE /\ ms[q].leaf = FALSE
      /\ ms[p].parent = nodes[p].parent /\ ms[q].parent = nodes[p].parent
      /\ ms[p].keys = ka /\ ms[p].ptrs = pa /\ ms[q].keys = kb /\ ms[q].ptrs = pb
      /\ ms[p].next = nodes[p].next
  BY DEF DividedInner
<1>2. \A x \in DOMAIN nodes \ {p} : /\ ms[x].leaf = nodes[x].leaf /\ ms[x].keys = nodes[x].keys
                                    /\ ms[x].ptrs = nodes[x].ptrs /\ ms[x].next = nodes[x].next
                                    /\ ms[x].parent \in {nodes[x].parent, q} /\ ms[x] \in NodeType
  <2>1. \A x \in DOMAIN nodes : nodes[x] \in NodeType
    BY DEF IInv, NodesOK
  <2>2. SUFFICES ASSUME NEW x \in DOMAIN nodes \ {p}
                 PROVE  /\ ms[x].leaf = nodes[x].leaf /\ ms[x].keys = nodes[x].keys
                        /\ ms[x].ptrs = nodes[x].ptrs /\ ms[x].next = nodes[x].next
                        /\ ms[x].parent \in {nodes[x].parent, q} /\ ms[x] \in NodeType
    OBVIOUS
  <2>3. CASE x \in C
    BY <2>3 DEF DividedInner, Moved
  <2>4. CASE x \notin C
    BY <2>1, <2>4 DEF DividedInner
  <2>5. QED
    BY <2>3, <2>4
<1>3. s \in 1 .. Order /\ s >= 2 /\ s - 1 < Order /\ Order - s < Order /\ Order - s >= s - 1 /\ s \in Nat
  BY HalfInnerOrder
<1>4. /\ pa \in Seq(Pages) /\ pb \in Seq(Pages)
      /\ Len(ka) = s - 1 /\ Len(pa) = s /\ Len(kb) = Order - s /\ Len(pb) = Order + 1 - s
  BY DEF InnerParts
<1>5. nodes[p].parent \in Pages \cup {-1} /\ DOMAIN nodes \subseteq Pages /\ \A x \in DOMAIN nodes : Shape(nodes[x])
  BY DEF IInv, Shapes, Shape
<1>6. Shape(ms[p])
  <2>1. /\ ms[p].ptrs \in Seq(IF ms[p].leaf THEN Rids ELSE Pages)
        /\ Len(ms[p].ptrs) = Len(ms[p].keys) + (IF ms[p].leaf THEN 0 ELSE 1)
    <3>1. ms[p].ptrs \in Seq(IF ms[p].leaf THEN Rids ELSE Pages)
      BY <1>1, <1>4
    <3>2. Len(ms[p].ptrs) = s /\ Len(ms[p].keys) = s - 1 /\ s \in Nat /\ ms[p].leaf = FALSE
      <4>1. Len(ms[p].ptrs) = s
        BY <1>1, <1>4
      <4>2. Len(ms[p].keys) = s - 1
        BY <1>1, <1>4
      <4>3. QED
        BY <4>1, <4>2, <1>1, <1>3
    <3>3. QED
      BY <3>1, <3>2
  <2>2. QED
    BY <2>1, <1>1, <1>3, <1>4, <1>5 DEF Shape
<1>7. Shape(ms[q])
  <2>1. /\ ms[q].ptrs \in Seq(IF ms[q].leaf THEN Rids ELSE Pages)
        /\ Len(ms[q].ptrs) = Len(ms[q].keys) + (IF ms[q].leaf THEN 0 ELSE 1)
    BY <1>1, <1>3, <1>4, OrderAssumption
  <2>2. QED
    BY <2>1, <1>1, <1>3, <1>4, <1>5 DEF Shape
<1>8. ASSUME NEW x \in DOMAIN nodes \ {p} PROVE Shape(ms[x])
  <2>1. /\ nodes[x].parent \in Pages \cup {-1}
        /\ Len(nodes[x].keys) < Order
        /\ nodes[x].ptrs \in Seq(IF nodes[x].leaf THEN Rids ELSE Pages)
        /\ Len(nodes[x].ptrs) = Len(nodes[x].keys) + (IF nodes[x].leaf THEN 0 ELSE 1)
    BY <1>5 DEF Shape
  <2>2. /\ ms[x].leaf = nodes[x].leaf /\ ms[x].keys = nodes[x].keys /\ ms[x].ptrs = nodes[x].ptrs
        /\ ms[x].parent \in {nodes[x].parent, q}
    BY <1>2
  <2>3. QED
    BY <2>1, <2>2 DEF Shape
<1>9. Shapes(ms)
  BY <1>1, <1>5, <1>6, <1>7, <1>8 DEF Shapes
<1>10. NodesOK(ms)
  <2>1. DOMAIN ms \subseteq PageIds
    BY <1>1, <1>5, MaxPageAssumption DEF Pages, PageIds
  <2>2. QED
    BY <2>1, <1>1, <1>2 DEF NodesOK
<1>11. SameLeaves(nodes, ms)
  <2>1. Leaves(ms) = Leaves(nodes)
    BY <1>1, <1>2 DEF Leaves
  <2>2. \A x \in DOMAIN nodes : ms[x].next = nodes[x].next
    BY <1>1, <1>2
  <2>3. \A x \in Leaves(nodes) : ms[x].keys = nodes[x].keys /\ ms[x].ptrs = nodes[x].ptrs
    BY <1>2 DEF Leaves
  <2>4. QED
    BY <2>1, <2>2, <2>3, <1>1 DEF SameLeaves
<1>12. /\ ~nodes[root].leaf => Len(nodes[root].keys) >= 1
       /\ \A x \in DOMAIN nodes \ {root} : Enough(nodes, x)
       /\ root \in DOMAIN nodes
  BY InsertPending DEF IInv
<1>13. Enough(ms, p) /\ Enough(ms, q)
  <2>1. MinKeys(ms[p]) = s - 1 /\ MinKeys(ms[q]) = s - 1
    BY <1>1 DEF MinKeys
  <2>2. QED
    BY <2>1, <1>1, <1>3, <1>4 DEF Enough
<1>14. \A x \in DOMAIN ms \ {root} : Enough(ms, x)
  <2>1. SUFFICES ASSUME NEW x \in DOMAIN ms \ {root} PROVE Enough(ms, x)
    OBVIOUS
  <2>2. CASE x \in {p, q}
    BY <2>2, <1>13
  <2>3. CASE x \notin {p, q}
    <3>1. x \in DOMAIN nodes \ {root} /\ ms[x].leaf = nodes[x].leaf /\ ms[x].keys = nodes[x].keys
      BY <2>3, <1>1, <1>2
    <3>2. QED
      BY <3>1, <1>12 DEF Enough, MinKeys
  <2>4. QED
    BY <2>2, <2>3
<1>15. ~ms[root].leaf => Len(ms[root].keys) >= 1
  <2>1. CASE root = p
    BY <2>1, <1>1, <1>3, <1>4
  <2>2. CASE root # p
    BY <2>2, <1>2, <1>12
  <2>3. QED
    BY <2>1, <2>2
<1>16. Sizes(ms, root, c)
  BY <1>13, <1>14, <1>15 DEF Sizes, SiblingCalls
<1>17. QED
  BY <1>9, <1>10, <1>11, <1>16

LEMMA InvInsertInternNodeAfterSplit ==
  ASSUME IInv, InsertInternNodeAfterSplit
  PROVE  IInv' /\ LeafKeys(nodes') = LeafKeys(nodes)
<1>1. PICK ms : ms = nodes'
  OBVIOUS
<1>2. PICK p, i, q, s : /\ p = call.page /\ i = PlaceIn(nodes[p].ptrs, call.left)
                        /\ q = FreshPage(nodes) /\ s = (Order + 1) \div 2
  OBVIOUS
<1>3. PICK ks, ps : ks = InsertAt(nodes[p].keys, i, call.key) /\ ps = InsertAt(nodes[p].ptrs, i + 1, call.right)
  OBVIOUS
<1>4. /\ call.fn = "insert_into_parent" /\ p # -1 /\ ~HasRoom(p) /\ CanAllocate
      /\ root' = root /\ unique' = unique /\ leaked' = leaked /\ scan' = scan
  BY <1>2 DEF InsertInternNodeAfterSplit, Pending
<1>5. InsertFits(nodes, root, call) /\ call # Idle
  BY <1>4, InsertPending
<1>6. ChildGained(nodes, p, ks, ps) /\ p \in DOMAIN nodes /\ ~nodes[p].leaf /\ nodes[p] \in NodeType
  BY <1>2, <1>3, <1>4, <1>5, ChildGains DEF IInv
<1>7. ks \in Seq(Entries) /\ ps \in Seq(Pages) /\ Len(ks) = Order /\ Len(ps) = Len(ks) + 1
  <2>1. Len(nodes[p].keys) \in Nat /\ Len(nodes[p].keys) < Order
    BY <1>6, NodeFields DEF IInv, Shapes, Shape
  <2>2. ~(Len(nodes[p].keys) < Order - 1)
    BY <1>4 DEF HasRoom
  <2>3. QED
    BY <2>1, <2>2, <1>6, OrderAssumption DEF ChildGained
<1>8. PICK ka, pa, kb, pb : /\ ka = SubSeq(ks, 1, s - 1) /\ pa = SubSeq(ps, 1, s)
                            /\ kb = SubSeq(ks, s + 1, Len(ks)) /\ pb = SubSeq(ps, s + 1, Len(ks) + 1)
  OBVIOUS
<1>9. PICK C : C = ToSet(pb)
  OBVIOUS
<1>10. ms = Adopt(Put([nodes EXCEPT ![p] = [nodes[p] EXCEPT !.keys = ka, !.ptrs = pa]],
                      q, Inner(nodes[p].parent, kb, pb)), C, q)
  <2>1. ms = Adopt(Put([nodes EXCEPT ![p].keys = ka, ![p].ptrs = pa],
                       q, Inner(nodes[p].parent, kb, pb)), C, q)
    BY <1>1, <1>2, <1>3, <1>7, <1>8, <1>9
       DEF InsertInternNodeAfterSplit, AdoptMoved, ChildIndex, PlaceIn
  <2>2. QED
    BY <2>1
<1>11. PICK c : c = call'
  OBVIOUS
<1>12. PICK key : key = ks[s]
  OBVIOUS
<1>13. c = ToParent(nodes[p].parent, p, key, q)
  BY <1>2, <1>3, <1>11, <1>12 DEF InsertInternNodeAfterSplit, ChildIndex, PlaceIn
<1>14. s \in 1 .. Len(ks) /\ key \in Entries
  <2>1. s \in 1 .. Len(ks)
    BY <1>2, <1>7, HalfInnerOrder
  <2>2. QED
    BY <2>1, <1>7, <1>12
<1>15. InnerParts(ks, ps, s, ka, pa, kb, pb)
  BY <1>7, <1>8, <1>14, InnerPartsAre
<1>16. InnerCut(ks, ps, s, ka, pa, kb, pb, C)
  <2>1. \A x : x \in C <=> \E j \in s + 1 .. Len(ks) + 1 : ps[j] = x
    BY <1>9, <1>15 DEF InnerParts
  <2>2. QED
    BY <2>1, <1>8 DEF InnerCut
<1>17. PICK w : w = Whole(nodes, call)
  OBVIOUS
<1>18. Rewritten(nodes, w, p, ks, ps) /\ root = WholeRoot(nodes, root, call)
  <2>1. w = WithChild(nodes, p, call.left, call.key, call.right)
    BY <1>2, <1>4, <1>17, WholeCases
  <2>2. root = WholeRoot(nodes, root, call)
    BY <1>2, <1>4, WholeCases
  <2>3. QED
    BY <2>1, <2>2, <1>2, <1>3, <1>6, WithChildIs
<1>19. Sound(w, root)
  BY <1>17, <1>18, Completed
<1>20. PICK h, sp, rk : Tree(w, root, h, sp, rk)
  BY <1>19 DEF Sound
<1>21. /\ DOMAIN nodes \subseteq Pages /\ q \in Pages /\ q \in PageIds /\ q \notin DOMAIN nodes /\ q \in Int
  <2>1. DOMAIN nodes \subseteq Pages
    BY DEF IInv, Shapes
  <2>2. q \in Pages /\ q \notin DOMAIN nodes /\ q \in PageIds
    BY <1>2, <1>4, <2>1, RootPageIs DEF CanAllocate
  <2>3. QED
    BY <2>1, <2>2 DEF Pages
<1>22. p \notin C /\ q \notin C
  <2>1. /\ DOMAIN w = DOMAIN nodes /\ w[p].keys = ks /\ w[p].ptrs = ps /\ w[p].leaf = nodes[p].leaf
    BY <1>18 DEF Rewritten
  <2>2. ASSUME NEW x \in C PROVE x # p /\ x # q
    <3>1. PICK j \in s + 1 .. Len(ks) + 1 : ps[j] = x
      BY <2>2, <1>16 DEF InnerCut
    <3>2. j \in 1 .. Len(w[p].keys) + 1 /\ x = w[p].ptrs[j]
      BY <3>1, <2>1, <1>7, <1>14
    <3>3. x \in DOMAIN w /\ x # p
      BY <3>2, <2>1, <1>6, <1>20, TreeChild
    <3>4. QED
      BY <3>3, <2>1, <1>21
  <2>3. QED
    BY <2>2
<1>23. DividedInner(nodes, ms, p, q, ka, pa, kb, pb, C)
  BY <1>6, <1>10, <1>15, <1>21, <1>22, InnerSplitIs DEF IInv
<1>24. c.fn = "insert_into_parent" /\ c.left = p
  BY <1>13 DEF ToParent
<1>25. Shapes(ms) /\ NodesOK(ms) /\ SameLeaves(nodes, ms) /\ Sizes(ms, root, c)
  BY <1>2, <1>4, <1>6, <1>7, <1>15, <1>21, <1>23, <1>24, InnerDividedFits
<1>26. RawSplit(w, ms, p, q) /\ Halved(w, ms, p, q, s, key)
  BY <1>6, <1>7, <1>12, <1>14, <1>16, <1>18, <1>20, <1>21, <1>23, <1>25, InnerIsHalved DEF IInv
<1>27. Sound(Whole(ms, c), WholeRoot(ms, root, c)) /\ CallFits(ms, root, c)
  <2>1. c = ToParent(w[p].parent, p, key, q)
    BY <1>13, <1>18 DEF Rewritten
  <2>2. DOMAIN ms \subseteq Pages
    BY <1>25 DEF Shapes
  <2>3. QED
    BY <2>1, <2>2, <1>14, <1>19, <1>26, SplitSound
<1>28. Leaves(ms) = Leaves(nodes) /\ DOMAIN ms \subseteq Pages /\ root \in DOMAIN ms
  BY <1>23, <1>25 DEF SameLeaves, Shapes, IInv, DividedInner
<1>29. DistinctValues(ms, unique)
  <2>1. LeafKeys(ms) \subseteq LeafKeys(nodes)
    BY <1>25, SameLeafKeys
  <2>2. DistinctValues(nodes, unique)
    BY DEF IInv
  <2>3. QED
    BY <2>1, <2>2, DistinctMono
<1>30. ScanFits(ms, c, scan)
  BY <1>4, <1>5, <1>28, ScanStays
<1>31. leaked \subseteq Leaves(ms) /\ unique \in BOOLEAN
  BY <1>28 DEF IInv
<1>32. IInv'
  BY <1>1, <1>4, <1>11, <1>25, <1>27, <1>28, <1>29, <1>30, <1>31 DEF IInv
<1>33. QED
  BY <1>1, <1>25, <1>32, SameLeafKeys

-----------------------------------------------------------------------------
(* A node loses a key and may have to be repaired: delete_entry_internal *)

LEMMA LeafLoses ==
  ASSUME NEW ns, NEW r, NEW h, NEW sp, NEW rk, Tree(ns, r, h, sp, rk),
         NEW p \in Leaves(ns), NEW i \in 1 .. Len(ns[p].keys),
         NEW ks, NEW ps, ks = RemoveAt(ns[p].keys, i), ps = RemoveAt(ns[p].ptrs, i),
         NEW ms, Rewritten(ns, ms, p, ks, ps)
  PROVE  Tree(ms, r, h, sp, rk)
<1>1. p \in DOMAIN ns /\ ns[p].leaf
  BY DEF Leaves
<1>2. ns[p] \in NodeType /\ DOMAIN ns \subseteq PageIds /\ \A x \in DOMAIN ns : ns[x] \in NodeType
  BY <1>1 DEF Tree, NodesOK
<1>3. /\ ns[p].keys \in Seq(K) /\ Ascending(ns[p].keys) /\ NodeAt(ns, h, sp, p)
      /\ \A j \in 1 .. Len(ns[p].keys) : ns[p].keys[j] \in sp[p]
  BY <1>1, TreeNode
<1>4. /\ Len(ns[p].ptrs) = Len(ns[p].keys)
      /\ \A j \in 1 .. Len(ns[p].keys) : ns[p].ptrs[j] = ns[p].keys[j][2]
  BY <1>1, <1>3 DEF NodeAt, LeafAt
<1>5. ns[p].keys \in Seq(Entries) /\ ns[p].ptrs \in Seq(Int) /\ Len(ns[p].keys) \in Nat
  BY <1>2, NodeFields
<1>6. Ascending(ks)
  <2>1. United(K, ns[p].keys, i, ks)
    BY <1>3, SlotRemove
  <2>2. QED
    BY <2>1 DEF United
<1>7. ks \in Seq(Entries) /\ RemovedSeq(ns[p].keys, i, ks)
  BY <1>5, Removed
<1>8. ps \in Seq(Int) /\ RemovedSeq(ns[p].ptrs, i, ps)
  BY <1>4, <1>5, Removed
<1>9. Len(ks) = Len(ns[p].keys) - 1 /\ Len(ps) = Len(ks)
  BY <1>4, <1>7, <1>8 DEF RemovedSeq
<1>10. ASSUME NEW j \in 1 .. Len(ks) PROVE ps[j] = ks[j][2] /\ ks[j] \in sp[p]
  <2>1. j \in 1 .. Len(ns[p].keys) - 1
    BY <1>9
  <2>2. PICK a : a = IF j < i THEN j ELSE j + 1
    OBVIOUS
  <2>3. a \in 1 .. Len(ns[p].keys)
    BY <2>1, <2>2, <1>5
  <2>4. ks[j] = ns[p].keys[a]
    BY <2>1, <2>2, <1>7 DEF RemovedSeq
  <2>5. ps[j] = ns[p].ptrs[a]
    BY <2>1, <2>2, <1>4, <1>8 DEF RemovedSeq
  <2>6. QED
    BY <2>3, <2>4, <2>5, <1>3, <1>4
<1>11. /\ DOMAIN ms = DOMAIN ns /\ \A x \in DOMAIN ns \ {p} : ms[x] = ns[x]
       /\ ms[p].leaf = ns[p].leaf /\ ms[p].parent = ns[p].parent /\ ms[p].next = ns[p].next
       /\ ms[p].keys = ks /\ ms[p].ptrs = ps /\ ms[p] \in NodeType
  BY <1>7, <1>8 DEF Rewritten
<1>12. LeafBody(ns, ms, sp, p)
  <2>1. NodesOK(ms)
    BY <1>2, <1>11 DEF NodesOK
  <2>2. KeysAt(ms, sp, p)
    BY <1>6, <1>10, <1>11 DEF KeysAt
  <2>3. \A x \in DOMAIN ns : ms[x].parent = ns[x].parent /\ ms[x].leaf = ns[x].leaf /\ ms[x].next = ns[x].next
    BY <1>11
  <2>4. \A x \in DOMAIN ns \ {p} : SameBody(ns, ms, x)
    BY <1>11 DEF SameBody
  <2>5. Len(ms[p].ptrs) = Len(ms[p].keys) /\ \A j \in 1 .. Len(ms[p].keys) : ms[p].ptrs[j] = ms[p].keys[j][2]
    BY <1>9, <1>10, <1>11
  <2>6. QED
    BY <2>1, <2>2, <2>3, <2>4, <2>5, <1>1, <1>11 DEF LeafBody
<1>13. QED
  BY <1>12, LeafTree

\* Every element of s is one of t
Among(s, t) == \A j \in 1 .. Len(s) : \E i \in 1 .. Len(t) : s[j] = t[i]

LEMMA KeysAmong ==
  ASSUME NEW ns, NodesOK(ns), NEW ms, NodesOK(ms), Leaves(ms) \subseteq Leaves(ns),
         \A x \in Leaves(ms) : Among(ms[x].keys, ns[x].keys)
  PROVE  LeafKeys(ms) \subseteq LeafKeys(ns)
<1>1. SUFFICES ASSUME NEW k \in LeafKeys(ms) PROVE k \in LeafKeys(ns)
  OBVIOUS
<1>2. PICK x \in Leaves(ms) : \E j \in 1 .. Len(ms[x].keys) : ms[x].keys[j] = k
  BY LeafKeysIs
<1>3. \E j \in 1 .. Len(ns[x].keys) : ns[x].keys[j] = k
  BY <1>2 DEF Among
<1>4. QED
  BY <1>2, <1>3, LeafKeysIs

LEMMA RemovedAmong ==
  ASSUME NEW S, NEW s \in Seq(S), NEW i \in 1 .. Len(s), NEW t, RemovedSeq(s, i, t)
  PROVE  Among(t, s)
<1>1. SUFFICES ASSUME NEW j \in 1 .. Len(t) PROVE \E a \in 1 .. Len(s) : t[j] = s[a]
  BY DEF Among
<1>2. j \in 1 .. Len(s) - 1 /\ Len(s) \in Nat
  BY DEF RemovedSeq
<1>3. PICK a : a = IF j < i THEN j ELSE j + 1
  OBVIOUS
<1>4. a \in 1 .. Len(s) /\ t[j] = s[a]
  BY <1>2, <1>3 DEF RemovedSeq
<1>5. QED
  BY <1>4

\* The place (x, m) of the leaves comes before the place i of page p.
Behind(sp, x, m, p, i) == Before(sp[x], sp[p]) \/ (x = p /\ m < i)

LEMMA LeafPlaces ==
  ASSUME NEW ns, NEW r, NEW h, NEW sp, NEW rk, Tree(ns, r, h, sp, rk), NEW x \in Leaves(ns)
  PROVE  /\ x \in DOMAIN ns /\ ns[x].keys \in Seq(K) /\ ns[x].keys \in Seq(Entries) /\ Len(ns[x].keys) \in Nat
         /\ Ascending(ns[x].keys)
         /\ sp[x] # {} /\ sp[x] \subseteq K
         /\ ~Before(sp[x], sp[x])
         /\ \A m \in 1 .. Len(ns[x].keys) : ns[x].keys[m] \in sp[x] /\ ns[x].keys[m] \in K
<1>1. x \in DOMAIN ns
  BY DEF Leaves
<1>2. TypeAt(ns, h, sp, rk, x) /\ ns[x].keys \in Seq(K) /\ sp[x] # {} /\ Ascending(ns[x].keys)
      /\ \A m \in 1 .. Len(ns[x].keys) : ns[x].keys[m] \in sp[x]
  BY <1>1, TreeNode
<1>3. sp[x] \subseteq K /\ ns[x].keys \in Seq(Entries) /\ Len(ns[x].keys) \in Nat
  BY <1>2, NodeFields DEF TypeAt
<1>4. ~Before(sp[x], sp[x])
  <2>1. PICK k \in sp[x] : TRUE
    BY <1>2
  <2>2. ~Lt(k, k)
    BY <2>1, <1>3, LtOrder
  <2>3. QED
    BY <2>1, <2>2 DEF Before
<1>5. QED
  BY <1>1, <1>2, <1>3, <1>4

\* The keys of the leaves are in the order of their places.
LEMMA PlacesOrder ==
  ASSUME NEW ns, NEW r, NEW h, NEW sp, NEW rk, Tree(ns, r, h, sp, rk),
         NEW x \in Leaves(ns), NEW m \in 1 .. Len(ns[x].keys),
         NEW p \in Leaves(ns), NEW j \in 1 .. Len(ns[p].keys)
  PROVE  /\ Lt(ns[x].keys[m], ns[p].keys[j]) <=> Behind(sp, x, m, p, j)
         /\ ns[x].keys[m] = ns[p].keys[j] <=> x = p /\ m = j
<1>1. PICK d, e : d = ns[x].keys[m] /\ e = ns[p].keys[j]
  OBVIOUS
<1>2. d \in sp[x] /\ d \in K /\ e \in sp[p] /\ e \in K
  BY <1>1, LeafPlaces
<1>3. CASE x = p
  <2>1. ns[p].keys \in Seq(K) /\ Ascending(ns[p].keys) /\ ~Before(sp[x], sp[p])
    BY <1>3, LeafPlaces
  <2>2. m \in 1 .. Len(ns[p].keys) /\ ns[p].keys[m] = d
    BY <1>1, <1>3
  <2>3. (m < j => Lt(d, e)) /\ (j < m => Lt(e, d)) /\ (d = e => m = j)
    BY <2>1, <2>2, <1>1, AscendingIn
  <2>4. m < j \/ m = j \/ j < m
    OBVIOUS
  <2>5. m = j => d = e
    BY <2>2, <1>1
  <2>6. Lt(d, e) <=> m < j
    BY <2>3, <2>4, <2>5, <1>2, LtOrder
  <2>7. QED
    BY <2>1, <2>3, <2>5, <2>6, <1>1, <1>3 DEF Behind
<1>4. CASE x # p
  <2>1. Before(sp[x], sp[p]) \/ Before(sp[p], sp[x])
    BY <1>4 DEF Tree, ChainOK
  <2>2. Before(sp[x], sp[p]) => Lt(d, e)
    BY <1>2 DEF Before
  <2>3. Before(sp[p], sp[x]) => Lt(e, d)
    BY <1>2 DEF Before
  <2>4. Lt(d, e) <=> Before(sp[x], sp[p])
    BY <2>1, <2>2, <2>3, <1>2, LtOrder
  <2>5. d # e
    BY <2>1, <2>2, <2>3, <1>2, LtOrder
  <2>6. QED
    BY <2>4, <2>5, <1>1, <1>4 DEF Behind
<1>5. QED
  BY <1>3, <1>4

\* The keys of the leaves are those of ns without e.
LosesKey(ns, ms, e) == e \in LeafKeys(ns) /\ \A k : k \in LeafKeys(ms) <=> k \in LeafKeys(ns) /\ k # e

LEMMA KeyLost ==
  ASSUME NEW ns, NEW r, NEW h, NEW sp, NEW rk, Tree(ns, r, h, sp, rk),
         NEW p \in Leaves(ns), NEW i \in 1 .. Len(ns[p].keys), NEW e, e = ns[p].keys[i],
         NEW ks, RemovedSeq(ns[p].keys, i, ks), NEW ps, NEW ms, Rewritten(ns, ms, p, ks, ps), NodesOK(ms)
  PROVE  LosesKey(ns, ms, e)
<1>1. NodesOK(ns) /\ p \in DOMAIN ns /\ Len(ns[p].keys) \in Nat
  BY LeafPlaces DEF Tree
<1>2. Leaves(ms) = Leaves(ns) /\ ms[p].keys = ks /\ \A x \in Leaves(ns) \ {p} : ms[x] = ns[x]
  BY <1>1, RewrittenSizes DEF Rewritten, Leaves
<1>3. e \in LeafKeys(ns)
  BY <1>1, LeafKeysIs
<1>4. ASSUME NEW k \in LeafKeys(ns), k # e PROVE k \in LeafKeys(ms)
  <2>1. PICK x \in Leaves(ns) : \E j \in 1 .. Len(ns[x].keys) : ns[x].keys[j] = k
    BY <1>1, LeafKeysIs
  <2>2. CASE x # p
    <3>1. x \in Leaves(ms) /\ ms[x] = ns[x]
      BY <2>2, <1>2
    <3>2. QED
      BY <3>1, <2>1, LeafKeysIs
  <2>3. CASE x = p
    <3>1. PICK j \in 1 .. Len(ns[p].keys) : ns[p].keys[j] = k
      BY <2>1, <2>3
    <3>2. PICK a : a = IF j < i THEN j ELSE j - 1
      OBVIOUS
    <3>3. j # i
      BY <3>1, <1>4
    <3>4. a \in 1 .. Len(ns[p].keys) - 1 /\ (j < i => a < i /\ a = j) /\ (~(j < i) => ~(a < i) /\ a + 1 = j)
      BY <3>2, <3>3, <1>1
    <3>5. a \in 1 .. Len(ks) /\ ks[a] = k
      BY <3>1, <3>4 DEF RemovedSeq
    <3>6. QED
      BY <3>5, <1>2, LeafKeysIs
  <2>4. QED
    BY <2>2, <2>3
<1>5. ASSUME NEW k \in LeafKeys(ms) PROVE k \in LeafKeys(ns) /\ k # e
  <2>1. PICK x \in Leaves(ms) : \E j \in 1 .. Len(ms[x].keys) : ms[x].keys[j] = k
    BY LeafKeysIs
  <2>2. \E j \in 1 .. Len(ns[x].keys) : ns[x].keys[j] = k /\ ~(x = p /\ j = i)
    <3>1. CASE x # p
      <4>1. ms[x] = ns[x]
        BY <3>1, <1>2
      <4>2. QED
        BY <4>1, <3>1, <2>1
    <3>2. CASE x = p
      <4>1. PICK j \in 1 .. Len(ks) : ks[j] = k
        BY <3>2, <2>1, <1>2
      <4>2. PICK a : a = IF j < i THEN j ELSE j + 1
        OBVIOUS
      <4>3. j \in 1 .. Len(ns[p].keys) - 1
        BY <4>1 DEF RemovedSeq
      <4>4. a \in 1 .. Len(ns[p].keys) /\ a # i
        BY <4>2, <4>3, <1>1
      <4>5. ns[p].keys[a] = k
        BY <4>1, <4>2, <4>3 DEF RemovedSeq
      <4>6. QED
        BY <4>4, <4>5, <3>2
    <3>3. QED
      BY <3>1, <3>2
  <2>3. PICK j \in 1 .. Len(ns[x].keys) : ns[x].keys[j] = k /\ ~(x = p /\ j = i)
    BY <2>2
  <2>4. x \in Leaves(ns)
    BY <1>2
  <2>5. ns[x].keys[j] # ns[p].keys[i]
    BY <2>3, <2>4, PlacesOrder
  <2>6. QED
    BY <2>3, <2>4, <2>5, <1>1, LeafKeysIs
<1>6. QED
  BY <1>3, <1>4, <1>5 DEF LosesKey

\* All nodes have enough keys
AllEnough(ns, r) ==
  /\ ~ns[r].leaf => Len(ns[r].keys) >= 1
  /\ \A x \in DOMAIN ns \ {r} : Enough(ns, x)

\* An inner node with enough keys has two children.
LEMMA TwoChildren ==
  ASSUME NEW ns, NEW r, AllEnough(ns, r), NEW y \in DOMAIN ns, ~ns[y].leaf, Len(ns[y].keys) \in Nat
  PROVE  Len(ns[y].keys) >= 1
<1>1. CASE y = r
  BY <1>1 DEF AllEnough
<1>2. CASE y # r
  <2>1. Len(ns[y].keys) >= MinKeys(ns[y])
    BY <1>2 DEF AllEnough, Enough
  <2>2. MinKeys(ns[y]) = ((Order + 1) \div 2) - 1
    BY DEF MinKeys
  <2>3. ((Order + 1) \div 2) - 1 >= 1 /\ ((Order + 1) \div 2) - 1 \in Int
    BY OrderAssumption
  <2>4. QED
    BY <2>1, <2>2, <2>3
<1>3. QED
  BY <1>1, <1>2

\* The call for the two neighbours at the places j and j + 1 of y
Neighbours(ns, y, j, c) == c.left = ns[y].ptrs[j] /\ c.right = ns[y].ptrs[j + 1]

SiblingFn(ns, a, b, fn) ==
  fn = IF Len(ns[b].keys) > MinKeys(ns[a]) THEN "redistribute_nodes" ELSE "coalesce_node"

\* Page p has lost a key and has too few.
LEMMA ShortFits ==
  ASSUME NEW ns, NodesOK(ns), NEW r, AllEnough(ns, r), NEW ms, NEW h, NEW sp, NEW rk, Tree(ms, r, h, sp, rk),
         NEW p \in DOMAIN ns, p # r, NEW ks, NEW ps, Rewritten(ns, ms, p, ks, ps),
         Len(ks) + 1 = Len(ns[p].keys), Len(ks) < MinKeys(ns[p]), Len(ks) \in Nat,
         NEW y \in DOMAIN ms, ~ms[y].leaf, NEW j \in 1 .. Len(ms[y].keys),
         NEW b, NEW c, Neighbours(ms, y, j, c),
         (c.left = p /\ c.right = b) \/ (c.left = b /\ c.right = p), SiblingFn(ms, p, b, c.fn)
  PROVE  SiblingsFit(ms, c) /\ c.fn \in SiblingCalls /\ Sizes(ms, r, c)
<1>1. PICK l, m : l = c.left /\ m = c.right
  OBVIOUS
<1>2. l = ms[y].ptrs[j] /\ m = ms[y].ptrs[j + 1]
  BY <1>1 DEF Neighbours
<1>3. /\ l \in DOMAIN ms /\ m \in DOMAIN ms /\ l # m /\ l # y /\ m # y /\ l # r /\ m # r
      /\ ms[l].parent = y /\ ms[m].parent = y /\ ms[l].leaf = ms[m].leaf
  BY <1>2, Siblings
<1>4. SiblingsFit(ms, c)
  BY <1>1, <1>2, <1>3 DEF SiblingsFit
<1>5. c.fn \in SiblingCalls
  BY DEF SiblingFn, SiblingCalls
<1>6. /\ DOMAIN ms = DOMAIN ns /\ \A x \in DOMAIN ns \ {p} : ms[x] = ns[x]
      /\ ms[p].leaf = ns[p].leaf /\ ms[p].keys = ks
  BY DEF Rewritten
<1>7. b \in DOMAIN ns \ {p, r} /\ ms[b].leaf = ms[p].leaf /\ ms[b] = ns[b]
  BY <1>1, <1>3, <1>6
<1>8. MinKeys(ms[b]) = MinKeys(ms[p]) /\ MinKeys(ms[p]) = MinKeys(ns[p]) /\ MinKeys(ms[p]) \in Int
  BY <1>6, <1>7, OrderAssumption DEF MinKeys
<1>9. Len(ms[b].keys) >= MinKeys(ms[p]) /\ Len(ms[b].keys) \in Nat
  <2>1. ns[b] \in NodeType
    BY <1>7 DEF NodesOK
  <2>2. Len(ns[b].keys) \in Nat
    BY <2>1, NodeFields
  <2>3. Len(ns[b].keys) >= MinKeys(ns[b])
    BY <1>7 DEF AllEnough, Enough
  <2>4. QED
    BY <2>2, <2>3, <1>7, <1>8
<1>10. Len(ks) + 1 >= MinKeys(ns[p])
  BY DEF AllEnough, Enough
<1>11. Len(ms[p].keys) + 1 = MinKeys(ms[p])
  BY <1>6, <1>8, <1>10
<1>12. OneShort(ms, p, b, c.fn)
  <2>1. CASE Len(ms[b].keys) > MinKeys(ms[p])
    BY <2>1, <1>11 DEF SiblingFn, OneShort
  <2>2. CASE ~(Len(ms[b].keys) > MinKeys(ms[p]))
    <3>1. Len(ms[b].keys) = MinKeys(ms[p])
      BY <2>2, <1>8, <1>9
    <3>2. QED
      BY <2>2, <3>1, <1>11 DEF SiblingFn, OneShort
  <2>3. QED
    BY <2>1, <2>2
<1>13. OneShort(ms, c.left, c.right, c.fn) \/ OneShort(ms, c.right, c.left, c.fn)
  BY <1>12
<1>14. \A x \in DOMAIN ms \ {r} : x \notin {c.left, c.right} => Enough(ms, x)
  <2>1. SUFFICES ASSUME NEW x \in DOMAIN ms \ {r}, x \notin {c.left, c.right} PROVE Enough(ms, x)
    OBVIOUS
  <2>2. x # p /\ ms[x] = ns[x] /\ x \in DOMAIN ns \ {r}
    BY <2>1, <1>6
  <2>3. QED
    BY <2>2 DEF AllEnough, Enough
<1>15. ~ms[r].leaf => Len(ms[r].keys) >= 1
  <2>1. r \in DOMAIN ns /\ ms[r] = ns[r]
    BY <1>6 DEF Tree, RootAt
  <2>2. QED
    BY <2>1 DEF AllEnough
<1>16. Sizes(ms, r, c)
  BY <1>5, <1>13, <1>14, <1>15 DEF Sizes, SiblingCalls
<1>17. QED
  BY <1>4, <1>5, <1>16

LEMMA SiblingCallFits ==
  ASSUME NodesOK(nodes), AllEnough(nodes, root), NEW ms, NEW h, NEW sp, NEW rk, Tree(ms, root, h, sp, rk),
         NEW p \in DOMAIN nodes, p # root, NEW ks, NEW ps, Rewritten(nodes, ms, p, ks, ps),
         Len(ks) + 1 = Len(nodes[p].keys), Len(ks) < MinKeys(nodes[p]), Len(ks) \in Nat,
         NEW node, node = ms[p], NEW c, c = SiblingCall(p, node)
  PROVE  SiblingsFit(ms, c) /\ c.fn \in SiblingCalls /\ Sizes(ms, root, c)
<1>1. /\ DOMAIN ms = DOMAIN nodes /\ \A x \in DOMAIN nodes \ {p} : ms[x] = nodes[x]
      /\ ms[p].leaf = nodes[p].leaf
  BY DEF Rewritten
<1>2. PICK y : y = ms[p].parent
  OBVIOUS
<1>3. /\ y \in DOMAIN ms /\ ~ms[y].leaf /\ y # p
      /\ \E i \in 1 .. Len(ms[y].keys) + 1 : ms[y].ptrs[i] = p
  <2>1. y \in DOMAIN ms
    BY <1>1, <1>2, TreeUp
  <2>2. QED
    BY <2>1, <1>1, <1>2, TreeParent
<1>4. /\ Len(ms[y].ptrs) = Len(ms[y].keys) + 1 /\ Len(ms[y].keys) \in Nat /\ ms[y].ptrs \in Seq(Int)
  BY <1>3, TreeEdge, TreeNode
<1>5. nodes[y] = ms[y] /\ y \in DOMAIN nodes
  BY <1>1, <1>3
<1>6. Len(ms[y].keys) >= 1
  BY <1>3, <1>4, <1>5, TwoChildren
<1>7. PICK i : i = PlaceIn(ms[y].ptrs, p)
  OBVIOUS
<1>8. i \in 1 .. Len(ms[y].keys) + 1 /\ ms[y].ptrs[i] = p
  BY <1>3, <1>4, <1>7, PlaceInRange
<1>9. ChildIndex(node.parent, p) = i /\ nodes[node.parent] = ms[y]
  BY <1>2, <1>5, <1>7 DEF ChildIndex, PlaceIn
<1>10. CASE i = 1
  <2>1. PICK b : b = ms[y].ptrs[2]
    OBVIOUS
  <2>2. /\ c.left = p /\ c.right = b
        /\ c.fn = IF Len(nodes[b].keys) > MinKeys(node) THEN "redistribute_nodes" ELSE "coalesce_node"
    BY <2>1, <1>9, <1>10 DEF SiblingCall
  <2>3. PICK j : j = 1
    OBVIOUS
  <2>4. j \in 1 .. Len(ms[y].keys) /\ c.left = ms[y].ptrs[j] /\ c.right = ms[y].ptrs[j + 1]
    BY <2>1, <2>2, <2>3, <1>4, <1>6, <1>8, <1>10
  <2>5. Neighbours(ms, y, j, c)
    BY <2>4 DEF Neighbours
  <2>6. c.left \in DOMAIN ms /\ c.right \in DOMAIN ms /\ c.left # c.right
    BY <2>4, <1>3, Siblings
  <2>7. nodes[b] = ms[b]
    BY <2>2, <2>6, <1>1
  <2>8. SiblingFn(ms, p, b, c.fn)
    BY <2>2, <2>7 DEF SiblingFn
  <2>9. QED
    BY <2>2, <2>4, <2>5, <2>8, <1>3, ShortFits
<1>11. CASE i # 1
  <2>1. PICK j : j = i - 1
    OBVIOUS
  <2>3. PICK b : b = ms[y].ptrs[j]
    OBVIOUS
  <2>2. /\ c.left = b /\ c.right = p
        /\ c.fn = IF Len(nodes[b].keys) > MinKeys(node) THEN "redistribute_nodes" ELSE "coalesce_node"
    BY <2>1, <2>3, <1>9, <1>11 DEF SiblingCall
  <2>10. j \in 1 .. Len(ms[y].keys) /\ j + 1 = i
    BY <2>1, <1>4, <1>8, <1>11
  <2>4. j \in 1 .. Len(ms[y].keys) /\ c.left = ms[y].ptrs[j] /\ c.right = ms[y].ptrs[j + 1]
    BY <2>10, <2>2, <2>3, <1>8
  <2>5. Neighbours(ms, y, j, c)
    BY <2>4 DEF Neighbours
  <2>6. c.left \in DOMAIN ms /\ c.right \in DOMAIN ms /\ c.left # c.right
    BY <2>4, <1>3, Siblings
  <2>7. nodes[b] = ms[b]
    BY <2>2, <2>6, <1>1
  <2>8. SiblingFn(ms, p, b, c.fn)
    BY <2>2, <2>7 DEF SiblingFn
  <2>9. QED
    BY <2>2, <2>4, <2>5, <2>8, <1>3, ShortFits
<1>12. QED
  BY <1>10, <1>11

\* What delete_entry_internal does next with a node that keeps its page
NextCall(p, node) ==
  IF node.parent = -1 \/ Len(node.keys) >= MinKeys(node) THEN Idle ELSE SiblingCall(p, node)

LEMMA NextCallFits ==
  ASSUME NodesOK(nodes), AllEnough(nodes, root), NEW ms, NEW h, NEW sp, NEW rk, Tree(ms, root, h, sp, rk),
         NEW p \in DOMAIN nodes, NEW ks, NEW ps, Rewritten(nodes, ms, p, ks, ps),
         Len(ks) + 1 = Len(nodes[p].keys), Len(ks) \in Nat, ~ms[root].leaf => Len(ms[root].keys) >= 1,
         NEW node, node = ms[p], NEW c, c = NextCall(p, node)
  PROVE  /\ CallFits(ms, root, c) /\ Sizes(ms, root, c)
         /\ Sound(Whole(ms, c), WholeRoot(ms, root, c))
         /\ c.fn # "insert_into_parent"
<1>1. /\ DOMAIN ms = DOMAIN nodes /\ \A x \in DOMAIN nodes \ {p} : ms[x] = nodes[x]
      /\ ms[p].leaf = nodes[p].leaf /\ ms[p].keys = ks
  BY DEF Rewritten
<1>2. MinKeys(node) = MinKeys(nodes[p]) /\ MinKeys(node) \in Int
  BY <1>1, OrderAssumption DEF MinKeys
<1>3. p = root <=> node.parent = -1
  BY <1>1, TreeUp
<1>4. Sound(ms, root)
  BY SoundIs
<1>5. CASE node.parent = -1 \/ Len(node.keys) >= MinKeys(node)
  <2>1. c = Idle
    BY <1>5 DEF NextCall
  <2>2. p # root => Enough(ms, p)
    BY <1>3, <1>5 DEF Enough
  <2>3. ASSUME NEW x \in DOMAIN ms \ {root} PROVE Enough(ms, x)
    <3>1. CASE x = p
      BY <3>1, <2>2
    <3>2. CASE x # p
      <4>1. x \in DOMAIN nodes \ {root} /\ ms[x] = nodes[x]
        BY <3>2, <1>1
      <4>2. QED
        BY <4>1 DEF AllEnough, Enough
    <3>3. QED
      BY <3>1, <3>2
  <2>4. Sizes(ms, root, Idle)
    BY <2>3 DEF Sizes, Idle, SiblingCalls
  <2>5. CallFits(ms, root, Idle) /\ Idle.fn # "insert_into_parent"
    BY DEF CallFits, Idle
  <2>6. Sound(Whole(ms, Idle), WholeRoot(ms, root, Idle))
    BY <1>4, WholeCases
  <2>7. QED
    BY <2>1, <2>4, <2>5, <2>6
<1>6. CASE ~(node.parent = -1 \/ Len(node.keys) >= MinKeys(node))
  <2>1. c = SiblingCall(p, node)
    BY <1>6 DEF NextCall
  <2>2. p # root /\ Len(ks) < MinKeys(nodes[p])
    BY <1>1, <1>2, <1>3, <1>6
  <2>3. SiblingsFit(ms, c) /\ c.fn \in SiblingCalls /\ Sizes(ms, root, c)
    BY <2>1, <2>2, SiblingCallFits
  <2>4. CallFits(ms, root, c) /\ c.fn # "insert_into_parent"
    BY <2>3 DEF CallFits, SiblingCalls
  <2>5. Whole(ms, c) = ms /\ WholeRoot(ms, root, c) = root
    BY <2>3, WholeCases
  <2>6. QED
    BY <2>3, <2>4, <2>5, <1>4
<1>7. QED
  BY <1>5, <1>6

LEMMA KeyIndexIs ==
  ASSUME NEW p, nodes[p].keys \in Seq(Entries), NEW k, HasKey(p, k)
  PROVE  KeyIndex(p, k) \in 1 .. Len(nodes[p].keys) /\ CmpKey(k, nodes[p].keys[KeyIndex(p, k)]) = 0
<1> DEFINE T == {i \in 1 .. Len(nodes[p].keys) : CmpKey(k, nodes[p].keys[i]) = 0} \cup {Len(nodes[p].keys) + 1}
<1>1. Len(nodes[p].keys) \in Nat
  OBVIOUS
<1>2. T \subseteq Nat /\ T # {}
  BY <1>1
<1>3. Min(T) \in T
  BY <1>2, MinNat
<1>4. KeyIndex(p, k) = Min(T)
  BY DEF KeyIndex
<1>5. Min(T) <= Len(nodes[p].keys)
  BY <1>4 DEF HasKey
<1>6. Min(T) \in {i \in 1 .. Len(nodes[p].keys) : CmpKey(k, nodes[p].keys[i]) = 0}
  BY <1>1, <1>3, <1>5
<1>7. QED
  BY <1>4, <1>6

LEMMA IdleEnough ==
  ASSUME IInv, call.fn \notin SiblingCalls
  PROVE  AllEnough(nodes, root)
BY DEF IInv, Sizes, AllEnough

LEMMA InvDeleteEntry ==
  ASSUME IInv, Eps = 1, NEW e \in Entries, DeleteEntry(e)
  PROVE  IInv' /\ LosesKey(nodes, nodes', e)
<1>1. PICK p : p = FindLeaf(e)
  OBVIOUS
<1>2. PICK node : node = WithoutKey(p, e)
  OBVIOUS
<1>3. /\ MayChange /\ call = Idle /\ HasKey(p, e) /\ scan' = Disturbed /\ unique' = unique /\ leaked' = leaked
      /\ nodes' = Shrunk(p, node).nodes /\ root' = Shrunk(p, node).root /\ call' = Shrunk(p, node).call
  BY <1>1, <1>2 DEF DeleteEntry, MayChange
<1>4. PICK h, sp, rk : Tree(nodes, root, h, sp, rk)
  BY <1>3, IdleSound DEF Sound
<1>5. p \in Leaves(nodes) /\ p \in DOMAIN nodes /\ nodes[p].leaf /\ nodes[p] \in NodeType
  <2>1. e \in K
    BY EntriesInK
  <2>2. p \in Leaves(nodes)
    BY <2>1, <1>1, <1>4, FindLeafIs
  <2>3. QED
    BY <2>2 DEF Leaves, IInv, NodesOK
<1>6. nodes[p].keys \in Seq(Entries) /\ Len(nodes[p].keys) \in Nat
  BY <1>5, NodeFields
<1>7. PICK i : i = KeyIndex(p, e)
  OBVIOUS
<1>8. i \in 1 .. Len(nodes[p].keys) /\ e = nodes[p].keys[i]
  <2>1. i \in 1 .. Len(nodes[p].keys) /\ CmpKey(e, nodes[p].keys[i]) = 0
    BY <1>3, <1>6, <1>7, KeyIndexIs
  <2>2. e \in K /\ nodes[p].keys[i] \in K
    BY <2>1, <1>6, EntriesInK
  <2>3. QED
    BY <2>1, <2>2, CmpIsLt
<1>9. PICK ks, ps : ks = RemoveAt(nodes[p].keys, i) /\ ps = RemoveAt(nodes[p].ptrs, i)
  OBVIOUS
<1>10. node = [nodes[p] EXCEPT !.keys = ks, !.ptrs = ps]
  BY <1>2, <1>5, <1>7, <1>9 DEF WithoutKey
<1>11. PICK ms : ms = [nodes EXCEPT ![p] = node]
  OBVIOUS
<1>12. Rewritten(nodes, ms, p, ks, ps) /\ ms[p] = node
  <2>1. ms = [nodes EXCEPT ![p] = [nodes[p] EXCEPT !.keys = ks, !.ptrs = ps]]
    BY <1>10, <1>11
  <2>2. ms[p] = node
    BY <1>5, <1>11
  <2>3. QED
    BY <2>1, <2>2, <1>5, RewrittenIs
<1>13. node.leaf
  BY <1>5, <1>12 DEF Rewritten
<1>14. PICK c : c = NextCall(p, node)
  OBVIOUS
<1>15. nodes' = ms /\ root' = root /\ call' = c
  BY <1>3, <1>11, <1>13, <1>14 DEF Shrunk, NextCall
<1>16. /\ Tree(ms, root, h, sp, rk) /\ RemovedSeq(nodes[p].keys, i, ks) /\ ks \in Seq(Entries)
  <2>1. Tree(ms, root, h, sp, rk)
    BY <1>4, <1>5, <1>8, <1>9, <1>12, LeafLoses
  <2>2. ks \in Seq(Entries) /\ RemovedSeq(nodes[p].keys, i, ks)
    BY <1>6, <1>8, <1>9, Removed
  <2>3. QED
    BY <2>1, <2>2
<1>17. NodesOK(nodes) /\ AllEnough(nodes, root) /\ NodesOK(ms)
  <2>1. call.fn \notin SiblingCalls
    BY <1>3 DEF Idle, SiblingCalls
  <2>2. QED
    BY <2>1, <1>16, IdleEnough DEF IInv, Tree
<1>18. Len(ks) + 1 = Len(nodes[p].keys) /\ Len(ks) \in Nat
  BY <1>6, <1>8, <1>16 DEF RemovedSeq
<1>19. /\ DOMAIN ms = DOMAIN nodes /\ \A x \in DOMAIN nodes \ {p} : ms[x] = nodes[x]
       /\ ms[p].leaf = nodes[p].leaf /\ ms[p].keys = ks
  BY <1>12 DEF Rewritten
<1>20. root \in DOMAIN ms /\ unique \in BOOLEAN /\ leaked \subseteq Leaves(nodes)
  BY <1>19 DEF IInv
<1>21. ~ms[root].leaf => Len(ms[root].keys) >= 1
  <2>1. SUFFICES ASSUME ~ms[root].leaf PROVE Len(ms[root].keys) >= 1
    OBVIOUS
  <2>2. root # p
    BY <2>1, <1>5, <1>19
  <2>3. QED
    BY <2>1, <2>2, <1>17, <1>19, <1>20 DEF AllEnough
<1>22. /\ CallFits(ms, root, c) /\ Sizes(ms, root, c) /\ Sound(Whole(ms, c), WholeRoot(ms, root, c))
  BY <1>5, <1>12, <1>14, <1>16, <1>17, <1>18, <1>21, NextCallFits
<1>23. Leaves(ms) = Leaves(nodes)
  BY <1>19 DEF Leaves
<1>24. Shapes(ms)
  <2>1. nodes[p].ptrs \in Seq(Rids) /\ Len(nodes[p].ptrs) = Len(nodes[p].keys) /\ Len(nodes[p].keys) < Order
    <3>1. Shape(nodes[p])
      BY <1>5 DEF IInv, Shapes
    <3>2. QED
      BY <3>1, <1>5, <1>6 DEF Shape
  <2>2. ps \in Seq(Rids) /\ RemovedSeq(nodes[p].ptrs, i, ps)
    BY <2>1, <1>8, <1>9, Removed
  <2>3. Len(ks) < Order /\ Len(ps) = Len(ks)
    BY <2>1, <2>2, <1>16, <1>18, OrderAssumption DEF RemovedSeq
  <2>4. ps \in Seq(IF nodes[p].leaf THEN Rids ELSE Pages) /\ Len(ps) = Len(ks) + (IF nodes[p].leaf THEN 0 ELSE 1)
    BY <2>2, <2>3, <1>5, <1>18
  <2>5. QED
    BY <2>3, <2>4, <1>5, <1>12, <1>16, RewrittenShapes DEF IInv
<1>25. DistinctValues(ms, unique)
  <2>1. Among(ks, nodes[p].keys)
    BY <1>6, <1>8, <1>16, RemovedAmong
  <2>2. ASSUME NEW x \in Leaves(ms) PROVE Among(ms[x].keys, nodes[x].keys)
    <3>1. CASE x = p
      BY <3>1, <2>1, <1>19
    <3>2. CASE x # p
      <4>1. ms[x] = nodes[x]
        BY <3>2, <1>19 DEF Leaves
      <4>2. QED
        BY <4>1 DEF Among
    <3>3. QED
      BY <3>1, <3>2
  <2>3. LeafKeys(ms) \subseteq LeafKeys(nodes)
    BY <2>2, <1>17, <1>23, KeysAmong
  <2>4. DistinctValues(nodes, unique)
    BY DEF IInv
  <2>5. QED
    BY <2>3, <2>4, DistinctMono
<1>26. ScanFits(ms, c, Disturbed)
  BY <1>3, <1>23, <1>24, DisturbedFits DEF Shapes
<1>27. IInv'
  BY <1>3, <1>15, <1>17, <1>20, <1>22, <1>23, <1>24, <1>25, <1>26 DEF IInv
<1>28. LosesKey(nodes, ms, e)
  BY <1>4, <1>5, <1>8, <1>12, <1>16, <1>17, KeyLost
<1>29. QED
  BY <1>15, <1>27, <1>28

\* A step of a deletion keeps the pages that are pinned, and makes no inner node.
LEMMA ScanKept ==
  ASSUME IInv, call # Idle, NEW ns, NEW c, c.fn # "insert_into_parent",
         \A x \in Leaves(nodes) : x \in Pinned => x \in Leaves(ns),
         DOMAIN ns \ Leaves(ns) \subseteq DOMAIN nodes \ Leaves(nodes)
  PROVE  ScanFits(ns, c, scan) /\ leaked \subseteq Leaves(ns)
<1>1. leaked \subseteq Leaves(ns)
  BY DEF IInv, Pinned
<1>2. CASE scan = NoScan
  BY <1>1, <1>2 DEF ScanFits
<1>3. CASE OpenScan(nodes, call, scan)
  <2>1. /\ DOMAIN scan = ScanFields /\ scan.open = TRUE /\ scan.stable \in BOOLEAN /\ ~scan.stable
        /\ scan.page \in Leaves(nodes) \cup {0} /\ scan.next \notin DOMAIN nodes \ Leaves(nodes)
    BY <1>3 DEF OpenScan
  <2>2. scan.page \in Leaves(ns) \cup {0}
    <3>1. CASE scan.page = 0
      BY <3>1
    <3>2. CASE scan.page # 0
      <4>1. scan.page \in Pinned
        BY <2>1, <3>2 DEF Pinned
      <4>2. QED
        BY <4>1, <3>2, <2>1
    <3>3. QED
      BY <3>1, <3>2
  <2>3. OpenScan(ns, c, scan)
    BY <2>1, <2>2 DEF OpenScan
  <2>4. QED
    BY <2>3, <1>1 DEF ScanFits
<1>4. QED
  BY <1>2, <1>3 DEF IInv, ScanFits

\* Inner pages are not pinned.
LEMMA PinnedLeaves ==
  ASSUME IInv
  PROVE  Pinned \subseteq Leaves(nodes)
<1>1. leaked \subseteq Leaves(nodes)
  BY DEF IInv
<1>2. scan.open => scan.page \in Leaves(nodes) \cup {0}
  BY ScanIsOpen DEF OpenScan
<1>3. QED
  BY <1>1, <1>2 DEF Pinned

\* What the parent of two merged nodes is left with
ChildLost(ns, p, ks, ps) ==
  /\ ks \in Seq(Entries) /\ ps \in Seq(Pages)
  /\ Len(ks) + 1 = Len(ns[p].keys) /\ Len(ps) = Len(ks) + 1 /\ Len(ks) \in Nat

LEMMA ChildLoses ==
  ASSUME NEW ns, NodesOK(ns), Shapes(ns), NEW c, DeleteFits(ns, c), NEW p, p = c.page,
         NEW i, i = PlaceIn(ns[p].keys, c.key),
         NEW ks, NEW ps, ks = RemoveAt(ns[p].keys, i), ps = RemoveAt(ns[p].ptrs, i + 1)
  PROVE  ChildLost(ns, p, ks, ps) /\ p \in DOMAIN ns /\ ~ns[p].leaf /\ ns[p] \in NodeType
<1>1. /\ p \in DOMAIN ns /\ ~ns[p].leaf /\ \E j \in 1 .. Len(ns[p].keys) : ns[p].keys[j] = c.key
  BY DEF DeleteFits
<1>2. ns[p] \in NodeType /\ ns[p].keys \in Seq(Entries) /\ Len(ns[p].keys) \in Nat
  BY <1>1, NodeFields DEF NodesOK
<1>3. ns[p].ptrs \in Seq(Pages) /\ Len(ns[p].ptrs) = Len(ns[p].keys) + 1
  BY <1>1 DEF Shapes, Shape
<1>4. i \in 1 .. Len(ns[p].keys)
  BY <1>1, <1>2, PlaceInRange
<1>5. ks \in Seq(Entries) /\ RemovedSeq(ns[p].keys, i, ks)
  BY <1>2, <1>4, Removed
<1>6. PICK j : j = i + 1
  OBVIOUS
<1>7. j \in 1 .. Len(ns[p].ptrs)
  BY <1>2, <1>3, <1>4, <1>6
<1>8. ps \in Seq(Pages) /\ RemovedSeq(ns[p].ptrs, j, ps)
  BY <1>3, <1>6, <1>7, Removed
<1>9. Len(ks) + 1 = Len(ns[p].keys) /\ Len(ps) = Len(ks) + 1 /\ Len(ks) \in Nat
  BY <1>2, <1>3, <1>4, <1>5, <1>8 DEF RemovedSeq
<1>10. QED
  BY <1>1, <1>2, <1>5, <1>8, <1>9 DEF ChildLost

LEMMA KeyIndexPlace ==
  ASSUME Eps = 1, NEW p, nodes[p].keys \in Seq(Entries), NEW k \in Entries
  PROVE  KeyIndex(p, k) = PlaceIn(nodes[p].keys, k)
<1>1. k \in K /\ \A i \in 1 .. Len(nodes[p].keys) : nodes[p].keys[i] \in K
  BY EntriesInK
<1>2. \A i \in 1 .. Len(nodes[p].keys) : CmpKey(k, nodes[p].keys[i]) = 0 <=> nodes[p].keys[i] = k
  BY <1>1, CmpIsLt
<1>3. {i \in 1 .. Len(nodes[p].keys) : CmpKey(k, nodes[p].keys[i]) = 0}
        = {i \in 1 .. Len(nodes[p].keys) : nodes[p].keys[i] = k}
  BY <1>2
<1>4. QED
  BY <1>3 DEF KeyIndex, PlaceIn

\* The node that the pending deletion leaves, as delete_entry_from_node makes it
LEMMA ParentLoses ==
  ASSUME IInv, Eps = 1, call.fn = "delete_entry_internal", NEW p, p = call.page
  PROVE  \E ks, ps, ms, node :
           /\ node = WithoutKey(p, call.key) /\ ms = [nodes EXCEPT ![p] = node]
           /\ ms = Whole(nodes, call) /\ root = WholeRoot(nodes, root, call) /\ ms[p] = node
           /\ Rewritten(nodes, ms, p, ks, ps) /\ ChildLost(nodes, p, ks, ps)
           /\ p \in DOMAIN nodes /\ ~nodes[p].leaf /\ AllEnough(nodes, root) /\ call # Idle
<1>1. DeleteFits(nodes, call) /\ call # Idle /\ AllEnough(nodes, root)
  <2>1. DeleteFits(nodes, call) /\ call # Idle
    BY DEF IInv, CallFits, Idle, SiblingCalls
  <2>2. QED
    BY <2>1, IdleEnough DEF SiblingCalls
<1>2. PICK i : i = PlaceIn(nodes[p].keys, call.key)
  OBVIOUS
<1>3. PICK ks, ps : ks = RemoveAt(nodes[p].keys, i) /\ ps = RemoveAt(nodes[p].ptrs, i + 1)
  OBVIOUS
<1>4. ChildLost(nodes, p, ks, ps) /\ p \in DOMAIN nodes /\ ~nodes[p].leaf /\ nodes[p] \in NodeType
  BY <1>1, <1>2, <1>3, ChildLoses DEF IInv
<1>5. nodes[p].keys \in Seq(Entries)
  BY <1>4, NodeFields
<1>6. call.key \in Entries
  BY <1>1, <1>5 DEF DeleteFits
<1>7. KeyIndex(p, call.key) = i
  BY <1>2, <1>5, <1>6, KeyIndexPlace
<1>8. PICK node : node = WithoutKey(p, call.key)
  OBVIOUS
<1>9. node = [nodes[p] EXCEPT !.keys = ks, !.ptrs = ps]
  BY <1>3, <1>4, <1>7, <1>8 DEF WithoutKey
<1>10. PICK ms : ms = [nodes EXCEPT ![p] = node]
  OBVIOUS
<1>11. ms = WithoutChild(nodes, p, call.key)
  BY <1>2, <1>3, <1>9, <1>10 DEF WithoutChild
<1>12. ms = Whole(nodes, call) /\ root = WholeRoot(nodes, root, call)
  BY <1>11, WholeCases
<1>13. Rewritten(nodes, ms, p, ks, ps)
  <2>1. ms = [nodes EXCEPT ![p] = [nodes[p] EXCEPT !.keys = ks, !.ptrs = ps]]
    BY <1>9, <1>10
  <2>2. QED
    BY <2>1, <1>4, RewrittenIs
<1>14. ms[p] = node
  BY <1>4, <1>10
<1>15. QED
  BY <1>1, <1>4, <1>8, <1>10, <1>12, <1>13, <1>14

\* The root has one child left: the child becomes the root.
LEMMA RootShrinks ==
  ASSUME IInv, AllEnough(nodes, root), NEW w, Sound(w, root), NEW ks, NEW ps, Rewritten(nodes, w, root, ks, ps),
         ChildLost(nodes, root, ks, ps), ~nodes[root].leaf, ks = <<>>,
         NEW c, c = w[root].ptrs[1], NEW ms, ms = Dispose(Adopt(w, {c}, -1), root)
  PROVE  /\ Shapes(ms) /\ NodesOK(ms) /\ c \in DOMAIN ms /\ Sound(ms, c)
         /\ Sizes(ms, c, Idle) /\ SameLeaves(nodes, w) /\ Leaves(ms) = Leaves(nodes)
         /\ LeafKeys(ms) = LeafKeys(nodes)
<1>1. PICK h, sp, rk : Tree(w, root, h, sp, rk)
  BY DEF Sound
<1>2. /\ DOMAIN w = DOMAIN nodes /\ \A x \in DOMAIN nodes \ {root} : w[x] = nodes[x]
      /\ w[root].leaf = nodes[root].leaf /\ w[root].keys = ks
  BY DEF Rewritten
<1>3. root \in DOMAIN w /\ ~w[root].leaf /\ Len(w[root].keys) = 0
  BY <1>2 DEF IInv
<1>4. c \in DOMAIN w /\ c # root /\ c \in DOMAIN nodes
  <2>1. 1 \in 1 .. Len(w[root].keys) + 1
    BY <1>3
  <2>2. PICK j : j = 1
    OBVIOUS
  <2>3. j \in 1 .. Len(w[root].keys) + 1 /\ c = w[root].ptrs[j]
    BY <2>1, <2>2
  <2>4. QED
    BY <2>3, <1>1, <1>2, <1>3, TreeChild
<1>5. PICK f : f = Adopt(w, {c}, -1)
  OBVIOUS
<1>6. Adopted(w, f, {c}, -1)
  <2>1. \A x \in DOMAIN w : w[x] \in NodeType
    BY <1>1 DEF Tree, NodesOK
  <2>2. PICK q : q = -1
    OBVIOUS
  <2>3. q \in Int /\ f = Adopt(w, {c}, q)
    BY <2>2, <1>5
  <2>4. Adopted(w, f, {c}, q)
    BY <2>1, <2>3, AdoptedIs
  <2>5. QED
    BY <2>2, <2>4
<1>7. DOMAIN f = DOMAIN w /\ (\A x \in DOMAIN w \ {c} : f[x] = w[x]) /\ Moved(w[c], f[c], -1)
  BY <1>4, <1>6 DEF Adopted
<1>8. root \notin Pinned
  BY <1>3, <1>2, PinnedLeaves DEF Leaves
<1>9. ms = [x \in DOMAIN f \ {root} |-> f[x]]
  BY <1>5, <1>8 DEF Dispose
<1>10. DOMAIN ms = DOMAIN w \ {root} /\ \A x \in DOMAIN ms : ms[x] = f[x]
  BY <1>7, <1>9
<1>11. \A x \in DOMAIN ms \ {c} : ms[x] = w[x] /\ w[x] = nodes[x]
  BY <1>2, <1>7, <1>10
<1>12. c \in DOMAIN ms /\ Moved(nodes[c], ms[c], -1)
  BY <1>2, <1>4, <1>7, <1>10
<1>13. DOMAIN ms = DOMAIN nodes \ {root}
  BY <1>2, <1>10
<1>14. ASSUME NEW x \in DOMAIN ms
       PROVE  /\ ms[x].leaf = nodes[x].leaf /\ ms[x].keys = nodes[x].keys /\ ms[x].ptrs = nodes[x].ptrs
              /\ ms[x].next = nodes[x].next /\ ms[x].parent \in {nodes[x].parent, -1}
              /\ ms[x] \in NodeType /\ w[x] = nodes[x]
  <2>1. w[x] = nodes[x] /\ nodes[x] \in NodeType
    BY <1>2, <1>13 DEF IInv, NodesOK
  <2>2. CASE x = c
    BY <2>1, <2>2, <1>12 DEF Moved
  <2>3. CASE x # c
    BY <2>1, <2>3, <1>11
  <2>4. QED
    BY <2>2, <2>3
<1>15. NodesOK(ms)
  BY <1>13, <1>14 DEF NodesOK, IInv
<1>16. ShrinkBody(w, ms, root, c)
  <2>1. w[root].keys = <<>>
    BY <1>2
  <2>2. ASSUME NEW x \in DOMAIN ms PROVE SameBody(w, ms, x)
    <3>1. /\ ms[x].leaf = nodes[x].leaf /\ ms[x].keys = nodes[x].keys /\ ms[x].ptrs = nodes[x].ptrs
          /\ ms[x].next = nodes[x].next /\ w[x] = nodes[x]
      BY <1>14
    <3>2. QED
      BY <3>1 DEF SameBody
  <2>3. ms[c].parent = -1
    BY <1>12 DEF Moved
  <2>4. QED
    BY <2>1, <2>2, <2>3, <1>3, <1>10, <1>11, <1>15 DEF ShrinkBody
<1>17. Sound(ms, c)
  <2>1. Tree(ms, c, h, sp, rk)
    BY <1>1, <1>16, ShrinkTree
  <2>2. QED
    BY <2>1, SoundIs
<1>18. Shapes(ms)
  <2>1. ASSUME NEW x \in DOMAIN ms PROVE Shape(ms[x])
    <3>1. Shape(nodes[x])
      BY <1>13 DEF IInv, Shapes
    <3>2. /\ nodes[x].parent \in Pages \cup {-1} /\ Len(nodes[x].keys) < Order
          /\ nodes[x].ptrs \in Seq(IF nodes[x].leaf THEN Rids ELSE Pages)
          /\ Len(nodes[x].ptrs) = Len(nodes[x].keys) + (IF nodes[x].leaf THEN 0 ELSE 1)
      BY <3>1 DEF Shape
    <3>3. /\ ms[x].leaf = nodes[x].leaf /\ ms[x].keys = nodes[x].keys /\ ms[x].ptrs = nodes[x].ptrs
          /\ ms[x].parent \in {nodes[x].parent, -1}
      BY <1>14
    <3>4. QED
      BY <3>2, <3>3 DEF Shape
  <2>2. DOMAIN ms \subseteq Pages
    BY <1>13 DEF IInv, Shapes
  <2>3. QED
    BY <2>1, <2>2 DEF Shapes
<1>19. Sizes(ms, c, Idle)
  <2>1. ASSUME NEW x \in DOMAIN ms PROVE Enough(ms, x)
    <3>1. Enough(nodes, x)
      BY <1>13 DEF AllEnough
    <3>2. ms[x].leaf = nodes[x].leaf /\ ms[x].keys = nodes[x].keys
      BY <1>14
    <3>3. QED
      BY <3>1, <3>2 DEF Enough, MinKeys
  <2>2. ~ms[c].leaf => Len(ms[c].keys) >= 1
    <3>1. SUFFICES ASSUME ~ms[c].leaf PROVE Len(ms[c].keys) >= 1
      OBVIOUS
    <3>2. ms[c].leaf = nodes[c].leaf /\ ms[c].keys = nodes[c].keys /\ nodes[c] \in NodeType
      BY <1>4, <1>12, <1>14 DEF IInv, NodesOK
    <3>3. Len(nodes[c].keys) \in Nat
      BY <3>2, NodeFields
    <3>4. Len(nodes[c].keys) >= 1
      BY <3>1, <3>2, <3>3, <1>4, TwoChildren
    <3>5. QED
      BY <3>2, <3>4
  <2>3. QED
    BY <2>1, <2>2 DEF Sizes, Idle, SiblingCalls
<1>20. Leaves(ms) = Leaves(nodes)
  BY <1>13, <1>14 DEF Leaves
<1>21. \A x \in Leaves(ms) : Among(ms[x].keys, nodes[x].keys) /\ Among(nodes[x].keys, ms[x].keys)
  BY <1>14 DEF Leaves, Among
<1>22. LeafKeys(ms) = LeafKeys(nodes)
  <2>1. LeafKeys(ms) \subseteq LeafKeys(nodes)
    BY <1>15, <1>20, <1>21, KeysAmong DEF IInv
  <2>2. LeafKeys(nodes) \subseteq LeafKeys(ms)
    BY <1>15, <1>20, <1>21, KeysAmong DEF IInv
  <2>3. QED
    BY <2>1, <2>2
<1>23. SameLeaves(nodes, w)
  BY RewrittenLeaves DEF IInv
<1>24. QED
  BY <1>12, <1>15, <1>17, <1>18, <1>19, <1>20, <1>22, <1>23

LEMMA InvDeleteFromParent ==
  ASSUME IInv, Eps = 1, DeleteFromParent
  PROVE  IInv' /\ LeafKeys(nodes') = LeafKeys(nodes)
<1>1. PICK p : p = call.page
  OBVIOUS
<1>2. call.fn = "delete_entry_internal"
  BY DEF DeleteFromParent, Pending
<1>3. PICK ks, ps, w, node :
        /\ node = WithoutKey(p, call.key) /\ w = [nodes EXCEPT ![p] = node]
        /\ w = Whole(nodes, call) /\ root = WholeRoot(nodes, root, call) /\ w[p] = node
        /\ Rewritten(nodes, w, p, ks, ps) /\ ChildLost(nodes, p, ks, ps)
        /\ p \in DOMAIN nodes /\ ~nodes[p].leaf /\ AllEnough(nodes, root) /\ call # Idle
  BY <1>1, <1>2, ParentLoses
<1>4. /\ nodes' = Shrunk(p, node).nodes /\ root' = Shrunk(p, node).root /\ call' = Shrunk(p, node).call
      /\ unique' = unique /\ leaked' = leaked /\ scan' = scan
  BY <1>1, <1>3 DEF DeleteFromParent
<1>5. /\ SameLeaves(nodes, w) /\ Leaves(w) = Leaves(nodes) /\ DistinctValues(w, unique)
      /\ NodesOK(w) /\ root \in DOMAIN w /\ Sound(w, root)
  BY <1>3, Completed
<1>6. PICK h, sp, rk : Tree(w, root, h, sp, rk)
  BY <1>5 DEF Sound
<1>7. /\ DOMAIN w = DOMAIN nodes /\ w[p].leaf = nodes[p].leaf /\ w[p].keys = ks /\ w[p].ptrs = ps
      /\ \A x \in DOMAIN nodes \ {p} : w[x] = nodes[x]
  BY <1>3 DEF Rewritten
<1>8. node.parent = -1 <=> p = root
  <2>1. p \in DOMAIN w /\ node = w[p]
    BY <1>3, <1>7
  <2>2. p = root <=> w[p].parent = -1
    BY <2>1, <1>6, TreeUp
  <2>3. QED
    BY <2>1, <2>2
<1>9. unique \in BOOLEAN /\ DistinctValues(nodes, unique) /\ NodesOK(nodes) /\ Shapes(nodes)
  BY DEF IInv
<1>10. ~node.leaf /\ node.keys = ks
  BY <1>3, <1>7
<1>11. CASE p = root /\ ks = <<>>
  <2>1. PICK c : c = w[root].ptrs[1]
    OBVIOUS
  <2>2. PICK ms : ms = Dispose(Adopt(w, {c}, -1), root)
    OBVIOUS
  <2>3. nodes' = ms /\ root' = c /\ call' = Idle
    BY <2>1, <2>2, <1>3, <1>4, <1>8, <1>10, <1>11 DEF Shrunk
  <2>4. /\ Shapes(ms) /\ NodesOK(ms) /\ c \in DOMAIN ms /\ Sound(ms, c)
        /\ Sizes(ms, c, Idle) /\ Leaves(ms) = Leaves(nodes) /\ LeafKeys(ms) = LeafKeys(nodes)
    <3>1. Rewritten(nodes, w, root, ks, ps) /\ ChildLost(nodes, root, ks, ps) /\ ~nodes[root].leaf /\ ks = <<>>
      BY <1>3, <1>11
    <3>2. AllEnough(nodes, root) /\ Sound(w, root)
      BY <1>3, <1>5
    <3>3. QED
      BY <3>1, <3>2, <2>1, <2>2, RootShrinks
  <2>5. DistinctValues(ms, unique)
    <3>1. LeafKeys(ms) \subseteq LeafKeys(nodes)
      BY <2>4
    <3>2. QED
      BY <3>1, <1>9, DistinctMono
  <2>6. Sound(Whole(ms, Idle), WholeRoot(ms, c, Idle))
    BY <2>4, WholeCases
  <2>7. CallFits(ms, c, Idle) /\ Idle.fn # "insert_into_parent"
    BY DEF CallFits, Idle
  <2>8. DOMAIN ms \ Leaves(ms) \subseteq DOMAIN nodes \ Leaves(nodes)
    <3>1. DOMAIN ms \subseteq DOMAIN nodes
      <4>1. DOMAIN Adopt(w, {c}, -1) = DOMAIN nodes
        BY <1>7 DEF Adopt
      <4>2. QED
        BY <4>1, <2>2 DEF Dispose
    <3>2. QED
      BY <3>1, <2>4
  <2>9. ScanFits(ms, Idle, scan) /\ leaked \subseteq Leaves(ms)
    BY <2>4, <2>7, <2>8, <1>3, ScanKept
  <2>10. IInv'
    BY <2>3, <2>4, <2>5, <2>6, <2>7, <2>9, <1>4, <1>9 DEF IInv
  <2>11. QED
    BY <2>3, <2>4, <2>10
<1>12. CASE ~(p = root /\ ks = <<>>)
  <2>1. PICK c : c = NextCall(p, node)
    OBVIOUS
  <2>2. nodes' = w /\ root' = root /\ call' = c
    BY <2>1, <1>3, <1>4, <1>8, <1>10, <1>12 DEF Shrunk, NextCall
  <2>3. Len(ks) + 1 = Len(nodes[p].keys) /\ Len(ks) \in Nat /\ ks \in Seq(Entries) /\ ps \in Seq(Pages) /\ Len(ps) = Len(ks) + 1
    BY <1>3 DEF ChildLost
  <2>4. ~w[root].leaf => Len(w[root].keys) >= 1
    <3>1. SUFFICES ASSUME ~w[root].leaf PROVE Len(w[root].keys) >= 1
      OBVIOUS
    <3>2. CASE p = root
      <4>1. ks # <<>>
        BY <3>2, <1>12
      <4>2. Len(ks) # 0
        BY <4>1, <2>3
      <4>3. QED
        BY <4>2, <3>2, <2>3, <1>7
    <3>3. CASE p # root
      BY <3>1, <3>3, <1>3, <1>5, <1>7 DEF AllEnough
    <3>4. QED
      BY <3>2, <3>3
  <2>5. /\ CallFits(w, root, c) /\ Sizes(w, root, c) /\ Sound(Whole(w, c), WholeRoot(w, root, c))
        /\ c.fn # "insert_into_parent"
    BY <2>1, <2>3, <2>4, <1>3, <1>6, <1>9, NextCallFits
  <2>6. Shapes(w)
    <3>1. Len(nodes[p].keys) < Order /\ nodes[p].leaf = FALSE
      <4>1. nodes[p] \in NodeType /\ Shape(nodes[p])
        BY <1>3, <1>9 DEF Shapes, NodesOK
      <4>2. nodes[p].leaf \in BOOLEAN
        BY <4>1, NodeFields
      <4>3. QED
        BY <4>1, <4>2, <1>3 DEF Shape
    <3>2. Len(ks) < Order
      BY <3>1, <2>3, OrderAssumption
    <3>3. ps \in Seq(IF nodes[p].leaf THEN Rids ELSE Pages) /\ Len(ps) = Len(ks) + (IF nodes[p].leaf THEN 0 ELSE 1)
      BY <3>1, <2>3
    <3>4. QED
      BY <3>2, <3>3, <2>3, <1>3, <1>9, RewrittenShapes
  <2>7. DOMAIN w \ Leaves(w) \subseteq DOMAIN nodes \ Leaves(nodes)
    BY <1>5, <1>7
  <2>8. ScanFits(w, c, scan) /\ leaked \subseteq Leaves(w)
    BY <2>5, <2>7, <1>3, <1>5, ScanKept
  <2>9. IInv'
    BY <2>2, <2>5, <2>6, <2>8, <1>4, <1>5, <1>9 DEF IInv
  <2>10. QED
    BY <2>2, <2>9, <1>5, SameLeafKeys
<1>13. QED
  BY <1>11, <1>12

-----------------------------------------------------------------------------
(* Two neighbours are merged: coalesce_node *)

\* The children l and m of y, at its places i and i + 1
PairAt(ns, y, i, l, m) ==
  /\ y \in DOMAIN ns /\ ~ns[y].leaf /\ i \in 1 .. Len(ns[y].keys)
  /\ ns[y].ptrs[i] = l /\ ns[y].ptrs[i + 1] = m

LEMMA SiblingPending ==
  ASSUME IInv, call.fn \in SiblingCalls, NEW l, l = call.left, NEW m, m = call.right
  PROVE  \E h, sp, rk, y, i :
           /\ Tree(nodes, root, h, sp, rk) /\ PairAt(nodes, y, i, l, m)
           /\ y = nodes[l].parent /\ ChildIndex(y, l) = i /\ call # Idle
<1>1. SiblingsFit(nodes, call) /\ call # Idle
  BY DEF IInv, CallFits, Idle, SiblingCalls
<1>2. Sound(nodes, root)
  BY WholeCases DEF IInv
<1>3. PICK h, sp, rk : Tree(nodes, root, h, sp, rk)
  BY <1>2 DEF Sound
<1>4. PICK y : y = nodes[l].parent
  OBVIOUS
<1>5. y \in DOMAIN nodes /\ ~nodes[y].leaf
  BY <1>1, <1>4 DEF SiblingsFit
<1>6. PICK i \in 1 .. Len(nodes[y].keys) : nodes[y].ptrs[i] = l /\ nodes[y].ptrs[i + 1] = m
  BY <1>1, <1>4 DEF SiblingsFit
<1>7. /\ Len(nodes[y].ptrs) = Len(nodes[y].keys) + 1 /\ Len(nodes[y].keys) \in Nat
      /\ nodes[y].ptrs \in Seq(Int)
  <2>1. Len(nodes[y].ptrs) = Len(nodes[y].keys) + 1 /\ Len(nodes[y].keys) \in Nat
    BY <1>3, <1>5, TreeEdge, Zenon
  <2>2. nodes[y].ptrs \in Seq(Int)
    BY <1>3, <1>5, TreeNode, Zenon
  <2>3. QED
    BY <2>1, <2>2
<1>8. \A j \in 1 .. Len(nodes[y].ptrs) : nodes[y].ptrs[j] = l => j = i
  <2>1. SUFFICES ASSUME NEW j \in 1 .. Len(nodes[y].keys) + 1, nodes[y].ptrs[j] = nodes[y].ptrs[i] PROVE j = i
    BY <1>6, <1>7
  <2>2. i \in 1 .. Len(nodes[y].keys) + 1
    BY <1>6, <1>7
  <2>3. QED
    BY <1>3, <1>5, <2>1, <2>2, ChildrenApart
<1>9. PlaceIn(nodes[y].ptrs, l) = i
  <2>1. i \in 1 .. Len(nodes[y].ptrs)
    BY <1>6, <1>7
  <2>2. QED
    BY <2>1, <1>6, <1>7, <1>8, PlaceInIs
<1>10. ChildIndex(y, l) = i
  BY <1>9 DEF ChildIndex, PlaceIn
<1>11. QED
  BY <1>1, <1>3, <1>4, <1>5, <1>6, <1>10 DEF PairAt

LEMMA PairFacts ==
  ASSUME NEW ns, NEW r, NEW h, NEW sp, NEW rk, Tree(ns, r, h, sp, rk),
         NEW y, NEW i, NEW l, NEW m, PairAt(ns, y, i, l, m)
  PROVE  /\ l \in DOMAIN ns /\ m \in DOMAIN ns /\ l # m /\ l # y /\ m # y /\ l # r /\ m # r
         /\ ns[l].parent = y /\ ns[m].parent = y /\ ns[l].leaf = ns[m].leaf
         /\ y \in DOMAIN ns /\ ~ns[y].leaf
BY Siblings DEF PairAt

\* ms is ns with m merged into l, which gets ks and ps; C are m's children
RawMerge(ns, ms, l, m, C, ks, ps) ==
  /\ DOMAIN ms = DOMAIN ns \ {m}
  /\ \A x \in DOMAIN ns \ {l, m} : x \notin C => ms[x] = ns[x]
  /\ \A x \in DOMAIN ns \ {l, m} : x \in C => Moved(ns[x], ms[x], l)
  /\ ms[l] \in NodeType /\ ms[l].leaf = ns[l].leaf /\ ms[l].parent = ns[l].parent
  /\ ms[l].keys = ks /\ ms[l].ptrs = ps /\ ms[l].next = ns[m].next

\* What the merged node holds
MergedBody(ns, l, m, key, ks, ps) ==
  /\ ks = IF ns[l].leaf THEN ns[l].keys \o ns[m].keys ELSE Joined(ns[l].keys, key, ns[m].keys)
  /\ ps = ns[l].ptrs \o ns[m].ptrs

\* The children of m, if it has any
ChildrenOf(ns, m, C) ==
  /\ ns[m].leaf => C = {}
  /\ ~ns[m].leaf => \A x \in DOMAIN ns : x \in C <=> ns[x].parent = m

LEMMA RawMergeNodes ==
  ASSUME NEW ns, NodesOK(ns), NEW ms, NEW l, NEW m, l \in DOMAIN ns, NEW C, NEW ks, NEW ps, RawMerge(ns, ms, l, m, C, ks, ps)
  PROVE  /\ NodesOK(ms)
         /\ \A x \in DOMAIN ns \ {l, m} : /\ SameBody(ns, ms, x)
                                          /\ ms[x].parent \in {ns[x].parent, l}
                                          /\ x \notin C => ms[x].parent = ns[x].parent
                                          /\ x \in C => ms[x].parent = l
<1>1. ASSUME NEW x \in DOMAIN ns \ {l, m}
      PROVE  /\ SameBody(ns, ms, x) /\ ms[x] \in NodeType
             /\ ms[x].parent \in {ns[x].parent, l}
             /\ x \notin C => ms[x].parent = ns[x].parent
             /\ x \in C => ms[x].parent = l
  <2>1. CASE x \in C
    BY <2>1 DEF RawMerge, Moved, SameBody
  <2>2. CASE x \notin C
    BY <2>2 DEF RawMerge, SameBody, NodesOK
  <2>3. QED
    BY <2>1, <2>2
<1>2. NodesOK(ms)
  BY <1>1 DEF NodesOK, RawMerge
<1>3. QED
  BY <1>1, <1>2

LEMMA RawMergeSound ==
  ASSUME NEW ns, NEW r, NEW h, NEW sp, NEW rk, Tree(ns, r, h, sp, rk),
         NEW y, NEW i, NEW l, NEW m, PairAt(ns, y, i, l, m), NEW key, key = ns[y].keys[i],
         NEW C, ChildrenOf(ns, m, C), NEW ks, NEW ps, MergedBody(ns, l, m, key, ks, ps),
         NEW ms, RawMerge(ns, ms, l, m, C, ks, ps), NEW w, w = WithoutChild(ms, y, key)
  PROVE  Sound(w, r) /\ y \in DOMAIN ms /\ ~ms[y].leaf /\ ms[y].keys = ns[y].keys
<1>1. /\ l \in DOMAIN ns /\ m \in DOMAIN ns /\ l # m /\ l # y /\ m # y /\ l # r /\ m # r
      /\ ns[l].parent = y /\ ns[m].parent = y /\ ns[l].leaf = ns[m].leaf
      /\ y \in DOMAIN ns /\ ~ns[y].leaf
  BY PairFacts
<1>2. NodesOK(ns)
  BY DEF Tree
<1>3. /\ NodesOK(ms)
      /\ \A x \in DOMAIN ns \ {l, m} : /\ SameBody(ns, ms, x)
                                       /\ x \notin C => ms[x].parent = ns[x].parent
                                       /\ x \in C => ms[x].parent = l
  BY <1>1, <1>2, RawMergeNodes
<1>4. /\ DOMAIN ms = DOMAIN ns \ {m} /\ ms[l].leaf = ns[l].leaf /\ ms[l].parent = ns[l].parent
      /\ ms[l].keys = ks /\ ms[l].ptrs = ps /\ ms[l].next = ns[m].next
  BY DEF RawMerge
<1>5. SameBody(ns, ms, y) /\ y \in DOMAIN ms /\ ms[y] \in NodeType
  BY <1>1, <1>3, <1>4 DEF NodesOK
<1>6. ms[y].keys = ns[y].keys /\ ms[y].ptrs = ns[y].ptrs /\ ms[y].leaf = ns[y].leaf /\ ms[y].next = ns[y].next
  BY <1>5 DEF SameBody
<1>7. /\ ns[y].keys \in Seq(K) /\ Ascending(ns[y].keys) /\ ns[y].ptrs \in Seq(Int)
      /\ Len(ns[y].ptrs) = Len(ns[y].keys) + 1 /\ Len(ns[y].keys) \in Nat /\ ns[y].next = 0
  BY <1>1, TreeNode, TreeEdge
<1>8. i \in 1 .. Len(ns[y].keys) /\ ns[y].ptrs[i] = l /\ ns[y].ptrs[i + 1] = m
  BY DEF PairAt
<1>9. PlaceIn(ms[y].keys, key) = i
  <2>1. \A j \in 1 .. Len(ns[y].keys) : ns[y].keys[j] = key => j = i
    BY <1>7, <1>8, AscendingIn
  <2>4. PICK kk : kk = ns[y].keys
    OBVIOUS
  <2>5. kk \in Seq(K) /\ i \in 1 .. Len(kk) /\ kk[i] = key /\ \A j \in 1 .. Len(kk) : kk[j] = key => j = i
    BY <2>1, <2>4, <1>7, <1>8
  <2>2. PlaceIn(ns[y].keys, key) = i
    BY <2>4, <2>5, PlaceInIs
  <2>3. QED
    BY <2>2, <1>6
<1>10. PICK ky, py : ky = RemoveAt(ns[y].keys, i) /\ py = RemoveAt(ns[y].ptrs, i + 1)
  OBVIOUS
<1>11. Rewritten(ms, w, y, ky, py)
  BY <1>5, <1>6, <1>9, <1>10, WithoutChildIs
<1>12. ky \in Seq(Entries) /\ py \in Seq(Int)
  <2>1. ns[y].keys \in Seq(Entries)
    BY <1>1, <1>2, NodeFields DEF NodesOK
  <2>2. PICK j : j = i + 1
    OBVIOUS
  <2>3. j \in 1 .. Len(ns[y].ptrs)
    BY <2>2, <1>7, <1>8
  <2>4. py \in Seq(Int)
    BY <2>2, <2>3, <1>7, <1>10, Removed
  <2>5. ky \in Seq(Entries)
    BY <2>1, <1>8, <1>10, Removed
  <2>6. QED
    BY <2>4, <2>5
<1>13. /\ DOMAIN w = DOMAIN ms /\ \A x \in DOMAIN ms \ {y} : w[x] = ms[x]
       /\ w[y].leaf = ms[y].leaf /\ w[y].parent = ms[y].parent /\ w[y].next = ms[y].next
       /\ w[y].keys = ky /\ w[y].ptrs = py /\ w[y] \in NodeType
  BY <1>11, <1>12 DEF Rewritten
<1>14. NodesOK(w)
  BY <1>3, <1>13 DEF NodesOK
<1>15. w[l] = ms[l]
  BY <1>1, <1>4, <1>13
<1>16. ASSUME NEW x \in DOMAIN ns \ {l, m, y} PROVE SameBody(ns, w, x)
  <2>1. SameBody(ns, ms, x) /\ w[x] = ms[x]
    BY <1>3, <1>4, <1>13
  <2>2. QED
    BY <2>1 DEF SameBody
<1>17. \A x \in C : x \in DOMAIN ns => ns[x].parent = m
  BY DEF ChildrenOf
<1>18. ASSUME NEW x \in DOMAIN ns \ {m}, ns[x].parent # m PROVE w[x].parent = ns[x].parent
  <2>1. w[x].parent = ms[x].parent
    BY <1>4, <1>13
  <2>2. CASE x = l
    BY <2>1, <2>2, <1>4
  <2>3. CASE x # l
    BY <2>1, <2>3, <1>3, <1>17, <1>18
  <2>4. QED
    BY <2>2, <2>3
<1>19. MergeBody(ns, w, l, m, y, i)
  BY <1>1, <1>4, <1>6, <1>7, <1>8, <1>10, <1>13, <1>14, <1>15, <1>16, <1>18 DEF MergeBody
<1>20. PICK sq : sq = MergeSpans(sp, l, m)
  OBVIOUS
<1>21. CASE ns[l].leaf
  <2>1. WholeLeaf(ns, w, l, m)
    BY <1>4, <1>15, <1>21 DEF WholeLeaf, MergedBody
  <2>2. Tree(w, r, h, sq, rk)
    BY <2>1, <1>19, <1>20, MergeLeaf
  <2>3. QED
    BY <2>2, <1>1, <1>5, <1>6, SoundIs
<1>22. CASE ~ns[l].leaf
  <2>1. ns[m].next = 0 /\ ~ns[m].leaf
    BY <1>1, <1>22, TreeEdge
  <2>2. ASSUME NEW x \in DOMAIN ns, ns[x].parent = m PROVE w[x].parent = l
    <3>1. x \in C
      BY <2>1, <2>2 DEF ChildrenOf
    <3>2. x # l /\ x # m
      <4>1. ns[l].parent # m /\ ns[m].parent # m
        BY <1>1
      <4>2. QED
        BY <4>1, <2>2
    <3>3. ms[x].parent = l
      BY <3>1, <3>2, <1>3
    <3>4. QED
      BY <3>2, <3>3, <1>4, <1>13
  <2>3. WholeInner(ns, w, l, m, key)
    BY <2>1, <2>2, <1>4, <1>15, <1>22 DEF WholeInner, MergedBody
  <2>4. Tree(w, r, h, sq, rk)
    BY <2>3, <1>19, <1>20, MergeInner
  <2>5. QED
    BY <2>4, <1>1, <1>5, <1>6, SoundIs
<1>23. QED
  BY <1>21, <1>22

\* What comes between the keys of the two nodes
Separator(n, key) == IF n.leaf THEN <<>> ELSE <<key>>
Separators(n) == IF n.leaf THEN 0 ELSE 1

OneAfterOther(ns, l, m, key, ks) == ks = (ns[l].keys \o Separator(ns[l], key)) \o ns[m].keys

LEMMA MergedSeqs ==
  ASSUME NEW ns, NodesOK(ns), NEW l \in DOMAIN ns, NEW m \in DOMAIN ns, NEW key \in Entries,
         NEW ks, NEW ps, MergedBody(ns, l, m, key, ks, ps)
  PROVE  /\ OneAfterOther(ns, l, m, key, ks)
         /\ ks \in Seq(Entries) /\ ps \in Seq(Int)
         /\ Len(ks) = Len(ns[l].keys) + Len(ns[m].keys) + Separators(ns[l])
         /\ Len(ps) = Len(ns[l].ptrs) + Len(ns[m].ptrs)
<1>1. /\ ns[l].keys \in Seq(Entries) /\ ns[m].keys \in Seq(Entries)
      /\ ns[l].ptrs \in Seq(Int) /\ ns[m].ptrs \in Seq(Int) /\ ns[l].leaf \in BOOLEAN
  BY NodeFields DEF NodesOK
<1>2. ps \in Seq(Int) /\ Len(ps) = Len(ns[l].ptrs) + Len(ns[m].ptrs)
  <2>1. ps = ns[l].ptrs \o ns[m].ptrs
    BY DEF MergedBody
  <2>2. QED
    BY <2>1, <1>1, Catenated DEF CatSeq
<1>3. CASE ns[l].leaf
  <2>1. ks = ns[l].keys \o ns[m].keys
    BY <1>3 DEF MergedBody
  <2>2. ks \in Seq(Entries) /\ Len(ks) = Len(ns[l].keys) + Len(ns[m].keys)
    BY <2>1, <1>1, Catenated DEF CatSeq
  <2>5. PICK e : e = <<>>
    OBVIOUS
  <2>6. e \in Seq(Entries) /\ Len(e) = 0
    BY <2>5
  <2>7. PICK kl, kk : kl = ns[l].keys /\ kk = kl \o e
    OBVIOUS
  <2>8. kl \in Seq(Entries) /\ kk \in Seq(Entries) /\ CatSeq(kl, e, kk)
    BY <2>6, <2>7, <1>1, Catenated
  <2>9. Len(kl) \in Nat /\ Len(kk) = Len(kl) /\ \A j \in 1 .. Len(kl) : kk[j] = kl[j]
    BY <2>6, <2>8 DEF CatSeq
  <2>10. kk = kl
    BY <2>8, <2>9
  <2>3. ns[l].keys \o <<>> = ns[l].keys
    BY <2>5, <2>7, <2>10
  <2>4. QED
    <3>1. Separator(ns[l], key) = <<>> /\ Separators(ns[l]) = 0
      BY <1>3 DEF Separator, Separators
    <3>2. ks = (ns[l].keys \o Separator(ns[l], key)) \o ns[m].keys
      BY <3>1, <2>1, <2>3
    <3>3. Len(ks) = Len(ns[l].keys) + Len(ns[m].keys) + Separators(ns[l])
      BY <3>1, <2>2, <1>1
    <3>4. QED
      BY <3>2, <3>3, <2>2, <1>2 DEF OneAfterOther
<1>4. CASE ~ns[l].leaf
  <2>1. ks = (ns[l].keys \o <<key>>) \o ns[m].keys
    BY <1>4 DEF MergedBody, Joined
  <2>2. PICK kk : kk = ns[l].keys \o <<key>>
    OBVIOUS
  <2>3. <<key>> \in Seq(Entries) /\ Len(<<key>>) = 1
    OBVIOUS
  <2>4. kk \in Seq(Entries) /\ Len(kk) = Len(ns[l].keys) + 1
    BY <2>2, <2>3, <1>1, Catenated DEF CatSeq
  <2>5. ks \in Seq(Entries) /\ Len(ks) = Len(kk) + Len(ns[m].keys)
    BY <2>1, <2>2, <2>4, <1>1, Catenated DEF CatSeq
  <2>6. Len(ns[l].keys) \in Nat /\ Len(ns[m].keys) \in Nat
    BY <1>1
  <2>7. QED
    <3>1. Separator(ns[l], key) = <<key>> /\ Separators(ns[l]) = 1
      BY <1>4 DEF Separator, Separators
    <3>2. ks = (ns[l].keys \o Separator(ns[l], key)) \o ns[m].keys
      BY <3>1, <2>1
    <3>3. Len(ks) = Len(ns[l].keys) + Len(ns[m].keys) + Separators(ns[l])
      <4>1. PICK a, b : a = Len(ns[l].keys) /\ b = Len(ns[m].keys)
        OBVIOUS
      <4>2. a \in Nat /\ b \in Nat /\ Len(kk) = a + 1 /\ Len(ks) = Len(kk) + b
        BY <4>1, <2>4, <2>5, <2>6
      <4>3. Len(ks) = a + b + 1
        BY <4>2
      <4>4. QED
        BY <4>1, <4>3, <3>1
    <3>4. QED
      BY <3>2, <3>3, <2>5, <1>2 DEF OneAfterOther
<1>5. QED
  BY <1>1, <1>3, <1>4

LEMMA MergedIs ==
  ASSUME NodesOK(nodes), NEW l, l = call.left, NEW m, m = call.right, NEW y, y = nodes[l].parent,
         NEW i, ChildIndex(y, l) = i, l \in DOMAIN nodes, m \in DOMAIN nodes, l # m,
         NEW key \in Entries, key = nodes[y].keys[i],
         NEW C, C = (IF nodes[l].leaf THEN {} ELSE ToSet(nodes[m].ptrs)), l \notin C,
         NEW ks, NEW ps, MergedBody(nodes, l, m, key, ks, ps), m \notin Pinned,
         NEW ms, ms = Dispose(Merged, m)
  PROVE  RawMerge(nodes, ms, l, m, C, ks, ps)
<1>1. /\ ks = (nodes[l].keys \o Separator(nodes[l], key)) \o nodes[m].keys
      /\ ks \in Seq(Entries) /\ ps \in Seq(Int) /\ ps = nodes[l].ptrs \o nodes[m].ptrs
  <2>1. OneAfterOther(nodes, l, m, key, ks) /\ ks \in Seq(Entries) /\ ps \in Seq(Int)
    BY MergedSeqs
  <2>2. QED
    BY <2>1 DEF MergedBody, OneAfterOther
<1>2. PICK nn, nl : nn = nodes[m].next /\ nl = nodes[l]
  OBVIOUS
<1>3. nl \in NodeType /\ nn \in Int /\ l \in Int
  BY <1>2, NodeFields DEF NodesOK, PageIds
<1>4. PICK n : n = MergedNode(nodes[l], nodes[m])
  OBVIOUS
<1>5. n = [nl EXCEPT !.keys = ks, !.ptrs = ps, !.next = nn]
  BY <1>1, <1>2, <1>4 DEF MergedNode, Separator
<1>6. nl = [leaf |-> nl.leaf, parent |-> nl.parent, keys |-> nl.keys, ptrs |-> nl.ptrs, next |-> nl.next]
  BY <1>3, NodeFields
<1>7. n = [leaf |-> nl.leaf, parent |-> nl.parent, keys |-> ks, ptrs |-> ps, next |-> nn]
  BY <1>5, <1>6
<1>8. n \in NodeType
  BY <1>1, <1>3, <1>7, NodeFields DEF NodeType
<1>9. PICK a : a = [nodes EXCEPT ![l] = n]
  OBVIOUS
<1>10. DOMAIN a = DOMAIN nodes /\ a[l] = n /\ \A x \in DOMAIN nodes \ {l} : a[x] = nodes[x]
  BY <1>9
<1>11. \A x \in DOMAIN a : a[x] \in NodeType
  BY <1>8, <1>10 DEF NodesOK
<1>12. PICK b : b = Adopt(a, C, l)
  OBVIOUS
<1>13. Adopted(a, b, C, l)
  BY <1>3, <1>11, <1>12, AdoptedIs
<1>14. ms = [q \in DOMAIN b \ {m} |-> b[q]]
  BY <1>4, <1>9, <1>12 DEF Merged, Dispose
<1>15. DOMAIN ms = DOMAIN nodes \ {m} /\ \A x \in DOMAIN nodes \ {m} : ms[x] = b[x]
  BY <1>10, <1>13, <1>14 DEF Adopted
<1>16. \A x \in DOMAIN nodes \ {l, m} : x \notin C => ms[x] = nodes[x]
  BY <1>10, <1>13, <1>15 DEF Adopted
<1>17. \A x \in DOMAIN nodes \ {l, m} : x \in C => Moved(nodes[x], ms[x], l)
  BY <1>10, <1>13, <1>15 DEF Adopted
<1>18. ms[l] = n
  BY <1>10, <1>13, <1>15 DEF Adopted
<1>19. QED
  BY <1>2, <1>7, <1>8, <1>15, <1>16, <1>17, <1>18 DEF RawMerge

LEMMA MergedSize ==
  ASSUME NEW n \in Nat, NEW a, NEW lf \in BOOLEAN,
         a = IF lf THEN Order \div 2 ELSE ((Order + 1) \div 2) - 1,
         n = a + (a - 1) + (IF lf THEN 0 ELSE 1)
  PROVE  n < Order /\ n >= a
<1>1. CASE lf
  BY <1>1, OrderAssumption
<1>2. CASE ~lf
  BY <1>2, OrderAssumption
<1>3. QED
  BY <1>1, <1>2

LEMMA RawMergeLength ==
  ASSUME NEW ns, NodesOK(ns), NEW l \in DOMAIN ns, NEW m \in DOMAIN ns, ns[l].leaf = ns[m].leaf,
         NEW key \in Entries, NEW ks, NEW ps, MergedBody(ns, l, m, key, ks, ps),
         \/ OneShort(ns, l, m, "coalesce_node")
         \/ OneShort(ns, m, l, "coalesce_node")
  PROVE  Len(ks) < Order /\ Len(ks) >= MinKeys(ns[l])
<1>1. PICK lf, a, nl, nm : lf = ns[l].leaf /\ a = MinKeys(ns[l]) /\ nl = Len(ns[l].keys) /\ nm = Len(ns[m].keys)
  OBVIOUS
<1>2. lf \in BOOLEAN /\ nl \in Nat /\ nm \in Nat
  BY <1>1, NodeFields DEF NodesOK
<1>3. a = IF lf THEN Order \div 2 ELSE ((Order + 1) \div 2) - 1
  BY <1>1 DEF MinKeys
<1>4. a = MinKeys(ns[m])
  BY <1>1, <1>3 DEF MinKeys
<1>5. (nl + 1 = a /\ nm = a) \/ (nm + 1 = a /\ nl = a)
  BY <1>1, <1>4 DEF OneShort
<1>6. Len(ks) = nl + nm + (IF lf THEN 0 ELSE 1)
  <2>1. Len(ks) = nl + nm + Separators(ns[l])
    BY <1>1, MergedSeqs
  <2>2. QED
    BY <2>1, <1>1 DEF Separators
<1>7. PICK n : n = Len(ks)
  OBVIOUS
<1>8. PICK o : o = IF lf THEN 0 ELSE 1
  OBVIOUS
<1>9. o \in Nat /\ n = nl + nm + o
  BY <1>6, <1>7, <1>8
<1>10. a \in Nat
  BY <1>2, <1>5
<1>11. n \in Nat /\ n = a + (a - 1) + o
  BY <1>2, <1>5, <1>9, <1>10
<1>12. n < Order /\ n >= a
  BY <1>2, <1>3, <1>8, <1>11, MergedSize
<1>13. QED
  BY <1>1, <1>7, <1>12

LEMMA RawMergeShapes ==
  ASSUME NEW ns, NodesOK(ns), Shapes(ns), NEW l \in DOMAIN ns, NEW m \in DOMAIN ns, ns[l].leaf = ns[m].leaf,
         NEW key \in Entries, NEW ks, NEW ps, MergedBody(ns, l, m, key, ks, ps), Len(ks) < Order,
         NEW ms, NEW C, RawMerge(ns, ms, l, m, C, ks, ps)
  PROVE  Shapes(ms)
<1>1. DOMAIN ms = DOMAIN ns \ {m} /\ l \in Pages
  BY DEF RawMerge, Shapes
<1>2. ASSUME NEW x \in DOMAIN ns \ {l, m} PROVE Shape(ms[x])
  <2>1. /\ ms[x].leaf = ns[x].leaf /\ ms[x].keys = ns[x].keys /\ ms[x].ptrs = ns[x].ptrs
        /\ ms[x].parent \in {ns[x].parent, l}
    <3>1. SameBody(ns, ms, x) /\ ms[x].parent \in {ns[x].parent, l}
      BY RawMergeNodes
    <3>2. QED
      BY <3>1 DEF SameBody
  <2>2. Shape(ns[x])
    BY DEF Shapes
  <2>3. ms[x].parent \in Pages \cup {-1} /\ Len(ms[x].keys) < Order
    BY <2>1, <2>2, <1>1 DEF Shape
  <2>4. ms[x].ptrs \in Seq(IF ms[x].leaf THEN Rids ELSE Pages)
    BY <2>1, <2>2 DEF Shape
  <2>5. Len(ms[x].ptrs) = Len(ms[x].keys) + (IF ms[x].leaf THEN 0 ELSE 1)
    BY <2>1, <2>2 DEF Shape
  <2>6. QED
    BY <2>3, <2>4, <2>5 DEF Shape
<1>3. Shape(ms[l])
  <2>1. ms[l].leaf = ns[l].leaf /\ ms[l].parent = ns[l].parent /\ ms[l].keys = ks /\ ms[l].ptrs = ps
    BY DEF RawMerge
  <2>2. Shape(ns[l]) /\ Shape(ns[m])
    BY DEF Shapes
  <2>3. PICK S : S = IF ns[l].leaf THEN Rids ELSE Pages
    OBVIOUS
  <2>4. ns[l].ptrs \in Seq(S) /\ ns[m].ptrs \in Seq(S)
    BY <2>2, <2>3 DEF Shape
  <2>5. ps = ns[l].ptrs \o ns[m].ptrs
    BY DEF MergedBody
  <2>6. ps \in Seq(S)
    BY <2>4, <2>5, Catenated
  <2>7. Len(ps) = Len(ks) + (IF ns[l].leaf THEN 0 ELSE 1)
    <3>1. PICK o : o = IF ns[l].leaf THEN 0 ELSE 1
      OBVIOUS
    <3>2. o \in Nat /\ Len(ns[l].ptrs) = Len(ns[l].keys) + o /\ Len(ns[m].ptrs) = Len(ns[m].keys) + o
      BY <3>1, <2>2 DEF Shape
    <3>3. Len(ps) = Len(ns[l].ptrs) + Len(ns[m].ptrs) /\ Len(ks) = Len(ns[l].keys) + Len(ns[m].keys) + o
      <4>1. o = Separators(ns[l])
        BY <3>1 DEF Separators
      <4>2. Len(ps) = Len(ns[l].ptrs) + Len(ns[m].ptrs)
        BY <2>4, <2>5, Catenated DEF CatSeq
      <4>3. Len(ks) = Len(ns[l].keys) + Len(ns[m].keys) + Separators(ns[l])
        BY MergedSeqs
      <4>4. QED
        BY <4>1, <4>2, <4>3
    <3>4. Len(ns[l].keys) \in Nat /\ Len(ns[m].keys) \in Nat
      BY NodeFields DEF NodesOK
    <3>5. PICK a, b : a = Len(ns[l].keys) /\ b = Len(ns[m].keys)
      OBVIOUS
    <3>6. Len(ps) = (a + o) + (b + o) /\ Len(ks) = a + b + o /\ a \in Nat /\ b \in Nat
      BY <3>2, <3>3, <3>4, <3>5
    <3>7. Len(ps) = Len(ks) + o
      BY <3>2, <3>6
    <3>8. QED
      BY <3>1, <3>7
  <2>8. ms[l].parent \in Pages \cup {-1} /\ Len(ms[l].keys) < Order
    BY <2>1, <2>2 DEF Shape
  <2>9. ms[l].ptrs \in Seq(IF ms[l].leaf THEN Rids ELSE Pages)
    BY <2>1, <2>3, <2>6
  <2>10. Len(ms[l].ptrs) = Len(ms[l].keys) + (IF ms[l].leaf THEN 0 ELSE 1)
    BY <2>1, <2>7
  <2>11. QED
    BY <2>8, <2>9, <2>10 DEF Shape
<1>4. QED
  BY <1>1, <1>2, <1>3 DEF Shapes

LEMMA RawMergeLeaves ==
  ASSUME NEW ns, NodesOK(ns), NEW l \in DOMAIN ns, NEW m \in DOMAIN ns, l # m, ns[l].leaf = ns[m].leaf,
         NEW key \in Entries, NEW ks, NEW ps, MergedBody(ns, l, m, key, ks, ps),
         NEW ms, NEW C, RawMerge(ns, ms, l, m, C, ks, ps)
  PROVE  Leaves(ms) = Leaves(ns) \ {m} /\ LeafKeys(ms) = LeafKeys(ns)
<1>1. DOMAIN ms = DOMAIN ns \ {m} /\ ms[l].leaf = ns[l].leaf /\ ms[l].keys = ks
  BY DEF RawMerge
<1>2. ASSUME NEW x \in DOMAIN ns \ {l, m} PROVE ms[x].leaf = ns[x].leaf /\ ms[x].keys = ns[x].keys
  <2>1. SameBody(ns, ms, x)
    BY RawMergeNodes
  <2>2. QED
    BY <2>1 DEF SameBody
<1>3. Leaves(ms) = Leaves(ns) \ {m}
  BY <1>1, <1>2 DEF Leaves
<1>4. NodesOK(ms)
  BY RawMergeNodes
<1>5. ASSUME NEW k \in LeafKeys(ms) PROVE k \in LeafKeys(ns)
  <2>1. PICK x \in Leaves(ms) : \E j \in 1 .. Len(ms[x].keys) : ms[x].keys[j] = k
    BY <1>4, LeafKeysIs
  <2>2. x \in Leaves(ns) \ {m} /\ x \in DOMAIN ns
    BY <1>3, <2>1 DEF Leaves
  <2>3. CASE x # l
    <3>1. \E j \in 1 .. Len(ns[x].keys) : ns[x].keys[j] = k
      BY <2>1, <2>2, <2>3, <1>2
    <3>2. QED
      BY <3>1, <2>2, LeafKeysIs
  <2>4. CASE x = l
    <3>1. ns[l].leaf /\ l \in Leaves(ns) /\ m \in Leaves(ns)
      BY <2>2, <2>4 DEF Leaves
    <3>2. PICK kl, km : kl = ns[l].keys /\ km = ns[m].keys
      OBVIOUS
    <3>3. ks = kl \o km
      BY <3>1, <3>2 DEF MergedBody
    <3>4. kl \in Seq(Entries) /\ km \in Seq(Entries) /\ Len(kl) \in Nat /\ Len(km) \in Nat
      BY <3>2, NodeFields DEF NodesOK
    <3>5. CatSeq(kl, km, ks)
      BY <3>3, <3>4, Catenated
    <3>6. PICK j \in 1 .. Len(ks) : ks[j] = k
      BY <2>1, <2>4, <1>1
    <3>7. j \in 1 .. Len(kl) + Len(km) /\ k = IF j <= Len(kl) THEN kl[j] ELSE km[j - Len(kl)]
      BY <3>5, <3>6 DEF CatSeq
    <3>8. CASE j <= Len(kl)
      <4>1. j \in 1 .. Len(kl) /\ kl[j] = k
        BY <3>7, <3>8, <3>4
      <4>2. QED
        BY <4>1, <3>1, <3>2, LeafKeysIs
    <3>9. CASE ~(j <= Len(kl))
      <4>1. PICK a : a = j - Len(kl)
        OBVIOUS
      <4>2. a \in 1 .. Len(km) /\ km[a] = k
        BY <3>7, <3>9, <3>4, <4>1
      <4>3. QED
        BY <4>2, <3>1, <3>2, LeafKeysIs
    <3>10. QED
      BY <3>8, <3>9
  <2>5. QED
    BY <2>3, <2>4
<1>7. ASSUME NEW k \in LeafKeys(ns) PROVE k \in LeafKeys(ms)
  <2>1. PICK x \in Leaves(ns) : \E j \in 1 .. Len(ns[x].keys) : ns[x].keys[j] = k
    BY LeafKeysIs
  <2>2. PICK j \in 1 .. Len(ns[x].keys) : ns[x].keys[j] = k
    BY <2>1
  <2>3. CASE x \notin {l, m}
    <3>1. x \in Leaves(ms) /\ ms[x].keys = ns[x].keys
      BY <2>3, <1>2, <1>3 DEF Leaves
    <3>2. QED
      BY <3>1, <2>2, <1>4, LeafKeysIs
  <2>4. CASE x \in {l, m}
    <3>1. ns[l].leaf /\ l \in Leaves(ms)
      BY <2>4, <1>3 DEF Leaves
    <3>2. PICK kl, km : kl = ns[l].keys /\ km = ns[m].keys
      OBVIOUS
    <3>3. ks = kl \o km
      BY <3>1, <3>2 DEF MergedBody
    <3>4. kl \in Seq(Entries) /\ km \in Seq(Entries) /\ Len(kl) \in Nat /\ Len(km) \in Nat
      BY <3>2, NodeFields DEF NodesOK
    <3>5. CatSeq(kl, km, ks)
      BY <3>3, <3>4, Catenated
    <3>6. \E a \in 1 .. Len(ks) : ks[a] = k
      <4>1. CASE x = l
        <5>4. j \in 1 .. Len(kl) /\ kl[j] = k
          BY <4>1, <2>2, <3>2
        <5>1. j \in 1 .. Len(kl) + Len(km) /\ j <= Len(kl) /\ kl[j] = k
          BY <5>4, <3>4
        <5>2. j \in 1 .. Len(ks) /\ ks[j] = k
          BY <5>1, <3>5 DEF CatSeq
        <5>3. QED
          BY <5>2
      <4>2. CASE x = m
        <5>1. PICK a : a = j + Len(kl)
          OBVIOUS
        <5>5. j \in 1 .. Len(km) /\ km[j] = k
          BY <4>2, <2>2, <3>2
        <5>2. a \in 1 .. Len(kl) + Len(km) /\ ~(a <= Len(kl)) /\ a - Len(kl) = j /\ km[j] = k
          BY <5>1, <5>5, <3>4
        <5>3. a \in 1 .. Len(ks) /\ ks[a] = k
          BY <5>2, <3>5 DEF CatSeq
        <5>4. QED
          BY <5>3
      <4>3. QED
        BY <4>1, <4>2, <2>4
    <3>7. QED
      BY <3>1, <3>6, <1>1, <1>4, LeafKeysIs
  <2>5. QED
    BY <2>3, <2>4
<1>6. QED
  BY <1>3, <1>5, <1>7

LEMMA MergeChildren ==
  ASSUME NEW ns, NEW r, NEW h, NEW sp, NEW rk, Tree(ns, r, h, sp, rk), NEW l, NEW m \in DOMAIN ns,
         ns[l].leaf = ns[m].leaf, NEW C, C = (IF ns[l].leaf THEN {} ELSE ToSet(ns[m].ptrs))
  PROVE  ChildrenOf(ns, m, C)
<1>1. ns[m].leaf => C = {}
  OBVIOUS
<1>2. ASSUME ~ns[m].leaf, NEW x \in DOMAIN ns PROVE x \in C <=> ns[x].parent = m
  <2>1. ns[m].ptrs \in Seq(Int) /\ Len(ns[m].ptrs) = Len(ns[m].keys) + 1 /\ Len(ns[m].keys) \in Nat
    BY <1>2, TreeNode, TreeEdge
  <2>2. x \in C <=> \E j \in 1 .. Len(ns[m].ptrs) : ns[m].ptrs[j] = x
    BY <1>2, <2>1 DEF ToSet
  <2>3. ASSUME x \in C PROVE ns[x].parent = m
    <3>1. PICK j \in 1 .. Len(ns[m].keys) + 1 : ns[m].ptrs[j] = x
      BY <2>1, <2>2, <2>3
    <3>2. QED
      BY <3>1, <1>2, TreeChild
  <2>4. ASSUME ns[x].parent = m PROVE x \in C
    <3>1. \E j \in 1 .. Len(ns[m].keys) + 1 : ns[m].ptrs[j] = x
      BY <2>4, TreeParent
    <3>2. QED
      BY <3>1, <2>1, <2>2
  <2>5. QED
    BY <2>3, <2>4
<1>3. QED
  BY <1>1, <1>2 DEF ChildrenOf

\* coalesce_node keeps the invariant.
LEMMA InvCoalesceNode ==
  ASSUME IInv, CoalesceNode
  PROVE  IInv' /\ LeafKeys(nodes') = LeafKeys(nodes)
<1>1. PICK l, m, ms, y : l = call.left /\ m = call.right /\ ms = nodes' /\ y = nodes[l].parent
  OBVIOUS
<1>2. /\ call.fn = "coalesce_node" /\ m \notin Pinned /\ ms = Dispose(Merged, m)
      /\ call' = [fn |-> "delete_entry_internal", page |-> y, key |-> nodes[y].keys[ChildIndex(y, l)]]
      /\ UNCHANGED <<root, unique, leaked, scan>>
  BY <1>1 DEF CoalesceNode, Pending
<1>3. call.fn \in SiblingCalls
  BY <1>2 DEF SiblingCalls
<1>4. PICK h, sp, rk, y0, i :
        /\ Tree(nodes, root, h, sp, rk) /\ PairAt(nodes, y0, i, l, m)
        /\ y0 = nodes[l].parent /\ ChildIndex(y0, l) = i /\ call # Idle
  BY <1>1, <1>3, SiblingPending
<1>5. y0 = y
  BY <1>1, <1>4
<1>6. /\ l \in DOMAIN nodes /\ m \in DOMAIN nodes /\ l # m /\ l # y /\ m # y /\ l # root /\ m # root
      /\ nodes[l].parent = y /\ nodes[m].parent = y /\ nodes[l].leaf = nodes[m].leaf
      /\ y \in DOMAIN nodes /\ ~nodes[y].leaf
  BY <1>4, <1>5, PairFacts
<1>7. i \in 1 .. Len(nodes[y].keys) /\ PairAt(nodes, y, i, l, m) /\ ChildIndex(y, l) = i
  BY <1>4, <1>5 DEF PairAt
<1>8. /\ NodesOK(nodes) /\ Shapes(nodes) /\ root \in DOMAIN nodes /\ unique \in BOOLEAN
      /\ DistinctValues(nodes, unique) /\ Sizes(nodes, root, call)
  BY DEF IInv
<1>9. PICK key : key = nodes[y].keys[i]
  OBVIOUS
<1>10. key \in Entries
  <2>1. nodes[y].keys \in Seq(Entries)
    BY <1>6, <1>8, NodeFields DEF NodesOK
  <2>2. QED
    BY <2>1, <1>7, <1>9
<1>11. PICK C : C = (IF nodes[l].leaf THEN {} ELSE ToSet(nodes[m].ptrs))
  OBVIOUS
<1>12. ChildrenOf(nodes, m, C)
  BY <1>4, <1>6, <1>11, MergeChildren
<1>13. l \notin C
  <2>1. CASE nodes[m].leaf
    BY <2>1, <1>12 DEF ChildrenOf
  <2>2. CASE ~nodes[m].leaf
    BY <2>2, <1>6, <1>12 DEF ChildrenOf
  <2>3. QED
    BY <2>1, <2>2
<1>14. PICK ks, ps : /\ ks = (IF nodes[l].leaf THEN nodes[l].keys \o nodes[m].keys
                                              ELSE Joined(nodes[l].keys, key, nodes[m].keys))
                     /\ ps = nodes[l].ptrs \o nodes[m].ptrs
  OBVIOUS
<1>15. MergedBody(nodes, l, m, key, ks, ps)
  BY <1>14 DEF MergedBody
<1>16. RawMerge(nodes, ms, l, m, C, ks, ps)
  BY <1>1, <1>2, <1>6, <1>7, <1>8, <1>9, <1>10, <1>11, <1>13, <1>15, MergedIs
<1>17. \/ OneShort(nodes, l, m, "coalesce_node")
       \/ OneShort(nodes, m, l, "coalesce_node")
  BY <1>1, <1>2, <1>3, <1>8 DEF Sizes
<1>18. Len(ks) < Order /\ Len(ks) >= MinKeys(nodes[l])
  BY <1>6, <1>8, <1>10, <1>15, <1>17, RawMergeLength
<1>19. Shapes(ms)
  BY <1>6, <1>8, <1>10, <1>15, <1>16, <1>18, RawMergeShapes
<1>20. Leaves(ms) = Leaves(nodes) \ {m} /\ LeafKeys(ms) = LeafKeys(nodes)
  BY <1>6, <1>8, <1>10, <1>15, <1>16, RawMergeLeaves
<1>21. DOMAIN ms = DOMAIN nodes \ {m} /\ ms[l].leaf = nodes[l].leaf /\ ms[l].keys = ks
  BY <1>16 DEF RawMerge
<1>22. NodesOK(ms)
  BY <1>6, <1>8, <1>16, RawMergeNodes
<1>23. ASSUME NEW x \in DOMAIN nodes \ {l, m} PROVE ms[x].leaf = nodes[x].leaf /\ ms[x].keys = nodes[x].keys
  <2>1. SameBody(nodes, ms, x)
    BY <1>6, <1>8, <1>16, RawMergeNodes
  <2>2. QED
    BY <2>1 DEF SameBody
<1>24. PICK c : c = [fn |-> "delete_entry_internal", page |-> y, key |-> key]
  OBVIOUS
<1>25. c.fn = "delete_entry_internal" /\ c.page = y /\ c.key = key
  BY <1>24
<1>26. call' = c
  BY <1>2, <1>7, <1>9, <1>24
<1>27. PICK w : w = WithoutChild(ms, y, key)
  OBVIOUS
<1>28. Sound(w, root) /\ y \in DOMAIN ms /\ ~ms[y].leaf /\ ms[y].keys = nodes[y].keys
  BY <1>4, <1>7, <1>9, <1>12, <1>15, <1>16, <1>27, RawMergeSound
<1>29. Sound(Whole(ms, c), WholeRoot(ms, root, c))
  BY <1>25, <1>27, <1>28, WholeCases
<1>30. CallFits(ms, root, c)
  BY <1>7, <1>9, <1>25, <1>28 DEF CallFits, DeleteFits
<1>31. Sizes(ms, root, c)
  <2>1. c.fn \notin SiblingCalls /\ c.fn # "insert_into_parent"
    BY <1>25 DEF SiblingCalls
  <2>2. ~ms[root].leaf => Len(ms[root].keys) >= 1
    BY <1>6, <1>8, <1>23 DEF Sizes
  <2>3. ASSUME NEW x \in DOMAIN ms \ {root} PROVE Enough(ms, x)
    <3>1. CASE x = l
      <4>1. MinKeys(ms[l]) = MinKeys(nodes[l])
        BY <1>21 DEF MinKeys
      <4>2. QED
        BY <3>1, <4>1, <1>18, <1>21 DEF Enough
    <3>2. CASE x # l
      <4>1. x \in DOMAIN nodes \ {l, m} /\ x # root
        BY <3>2, <1>21
      <4>2. Enough(nodes, x)
        BY <4>1, <1>1, <1>8 DEF Sizes
      <4>3. ms[x].leaf = nodes[x].leaf /\ ms[x].keys = nodes[x].keys
        BY <4>1, <1>23
      <4>4. MinKeys(ms[x]) = MinKeys(nodes[x])
        BY <4>3 DEF MinKeys
      <4>5. QED
        BY <4>2, <4>3, <4>4 DEF Enough
    <3>3. QED
      BY <3>1, <3>2
  <2>4. QED
    BY <2>1, <2>2, <2>3 DEF Sizes
<1>32. DistinctValues(ms, unique)
  <2>1. LeafKeys(ms) \subseteq LeafKeys(nodes)
    BY <1>20
  <2>2. QED
    BY <2>1, <1>8, DistinctMono
<1>33. ScanFits(ms, c, scan) /\ leaked \subseteq Leaves(ms)
  <2>1. c.fn # "insert_into_parent"
    BY <1>25
  <2>2. \A x \in Leaves(nodes) : x \in Pinned => x \in Leaves(ms)
    BY <1>2, <1>20
  <2>3. DOMAIN ms \ Leaves(ms) \subseteq DOMAIN nodes \ Leaves(nodes)
    BY <1>20, <1>21
  <2>4. QED
    BY <2>1, <2>2, <2>3, <1>4, ScanKept
<1>34. root \in DOMAIN ms
  BY <1>6, <1>8, <1>21
<1>35. nodes' = ms /\ root' = root /\ unique' = unique /\ leaked' = leaked /\ scan' = scan
  BY <1>1, <1>2
<1>36. IInv'
  BY <1>8, <1>19, <1>22, <1>26, <1>29, <1>30, <1>31, <1>32, <1>33, <1>34, <1>35 DEF IInv
<1>37. QED
  BY <1>20, <1>35, <1>36

-----------------------------------------------------------------------------
(* A leaf gets an entry from the leaf after it: redistribute_nodes *)

\* b's first element has gone to the end of a, which makes them c and d.
MovedOver(a, b, c, d) ==
  /\ Len(c) = Len(a) + 1 /\ \A j \in 1 .. Len(a) + 1 : c[j] = IF j <= Len(a) THEN a[j] ELSE b[1]
  /\ Len(d) = Len(b) - 1 /\ \A j \in 1 .. Len(b) - 1 : d[j] = b[j + 1]

LEMMA MovedOverIs ==
  ASSUME NEW S, NEW a \in Seq(S), NEW b \in Seq(S), Len(b) >= 1,
         NEW c, c = Append(a, Head(b)), NEW d, d = Tail(b)
  PROVE  c \in Seq(S) /\ d \in Seq(S) /\ MovedOver(a, b, c, d)
<1>1. Len(a) \in Nat /\ Len(b) \in Nat /\ b # <<>> /\ 1 \in 1 .. Len(b)
  OBVIOUS
<1>2. Head(b) = b[1] /\ b[1] \in S
  BY <1>1
<1>3. c \in Seq(S) /\ Len(c) = Len(a) + 1
  BY <1>2
<1>4. \A j \in 1 .. Len(a) + 1 : c[j] = IF j <= Len(a) THEN a[j] ELSE b[1]
  BY <1>1, <1>2
<1>5. d \in Seq(S) /\ Len(d) = Len(b) - 1
  BY <1>1
<1>6. \A j \in 1 .. Len(b) - 1 : d[j] = b[j + 1]
  BY <1>1
<1>7. QED
  BY <1>3, <1>4, <1>5, <1>6 DEF MovedOver

LEMMA SeqEqual ==
  ASSUME NEW S, NEW a \in Seq(S), NEW b \in Seq(S), Len(a) = Len(b), \A j \in 1 .. Len(b) : a[j] = b[j]
  PROVE  a = b
OBVIOUS

CutAt(t, a, b, c, d, s, n) ==
  /\ Len(t) = n /\ s \in 1 .. n - 1 /\ t[s + 1] = b[2]
  /\ c = SubSeq(t, 1, s) /\ d = SubSeq(t, s + 1, n)

\* The two are what cutting a and b together one place further on gives.
LEMMA MovedOverCuts ==
  ASSUME NEW S, NEW a \in Seq(S), NEW b \in Seq(S), Len(b) >= 2, NEW c \in Seq(S), NEW d \in Seq(S),
         MovedOver(a, b, c, d), NEW t, t = a \o b, NEW s, s = Len(a) + 1, NEW n, n = Len(a) + Len(b)
  PROVE  CutAt(t, a, b, c, d, s, n)
<1>1. Len(a) \in Nat /\ Len(b) \in Nat
  OBVIOUS
<1>2. t \in Seq(S) /\ CatSeq(a, b, t)
  BY Catenated
<1>3. Len(t) = n /\ s \in 1 .. n - 1 /\ n \in Nat /\ s \in Nat
  BY <1>1, <1>2 DEF CatSeq
<1>4. \A j \in 1 .. n : t[j] = IF j <= Len(a) THEN a[j] ELSE b[j - Len(a)]
  BY <1>2 DEF CatSeq
<1>5. t[s + 1] = b[2]
  BY <1>1, <1>3, <1>4
<1>6. PICK u, v : u = SubSeq(t, 1, s) /\ v = SubSeq(t, s + 1, Len(t))
  OBVIOUS
<1>7. Parts(S, t, s, u, v)
  <2>1. s \in 1 .. Len(t)
    BY <1>3
  <2>2. QED
    BY <2>1, <1>2, <1>6, PartsAre
<1>8. /\ u \in Seq(S) /\ Len(u) = s /\ \A j \in 1 .. s : u[j] = t[j]
      /\ v \in Seq(S) /\ Len(v) = Len(t) - s /\ \A j \in 1 .. Len(t) - s : v[j] = t[j + s]
  BY <1>7 DEF Parts
<1>9. c = u
  <2>1. Len(c) = Len(u)
    BY <1>8 DEF MovedOver
  <2>2. ASSUME NEW j \in 1 .. Len(u) PROVE c[j] = u[j]
    <3>1. j \in 1 .. s /\ u[j] = t[j]
      BY <1>8
    <3>2. c[j] = IF j <= Len(a) THEN a[j] ELSE b[1]
      BY <3>1 DEF MovedOver
    <3>3. t[j] = IF j <= Len(a) THEN a[j] ELSE b[j - Len(a)]
      BY <3>1, <1>3, <1>4
    <3>4. ~(j <= Len(a)) => j - Len(a) = 1
      BY <3>1, <1>1
    <3>5. QED
      BY <3>1, <3>2, <3>3, <3>4
  <2>3. u \in Seq(S)
    BY <1>8
  <2>4. QED
    BY <2>1, <2>2, <2>3, SeqEqual
<1>10. d = v
  <2>1. Len(d) = Len(v)
    BY <1>1, <1>3, <1>8 DEF MovedOver
  <2>2. ASSUME NEW j \in 1 .. Len(v) PROVE d[j] = v[j]
    <3>1. j \in 1 .. n - s /\ v[j] = t[j + s]
      BY <1>3, <1>8
    <3>2. j \in 1 .. Len(b) - 1
      BY <3>1, <1>1, <1>3
    <3>3. d[j] = b[j + 1]
      BY <3>2 DEF MovedOver
    <3>4. j + s \in 1 .. n /\ ~(j + s <= Len(a)) /\ (j + s) - Len(a) = j + 1
      BY <3>1, <1>1, <1>3
    <3>5. PICK z : z = j + s
      OBVIOUS
    <3>6. t[z] = b[z - Len(a)]
      BY <3>4, <3>5, <1>4
    <3>7. z - Len(a) = j + 1
      BY <3>4, <3>5
    <3>8. t[z] = b[j + 1]
      BY <3>6, <3>7
    <3>9. QED
      BY <3>1, <3>3, <3>5, <3>8
  <2>3. v \in Seq(S)
    BY <1>8
  <2>4. QED
    BY <2>1, <2>2, <2>3, SeqEqual
<1>11. QED
  <2>1. d = SubSeq(t, s + 1, n)
    BY <1>3, <1>6, <1>10
  <2>2. c = SubSeq(t, 1, s)
    BY <1>6, <1>9
  <2>3. QED
    BY <2>1, <2>2, <1>3, <1>5 DEF CutAt

\* Taking an element out and putting another in its place changes just that.
LEMMA PutBack ==
  ASSUME NEW S, NEW s \in Seq(S), NEW i \in 1 .. Len(s), NEW e \in S, NEW rs, rs = RemoveAt(s, i),
         NEW t \in Seq(S), Len(t) = Len(s), \A j \in 1 .. Len(s) : t[j] = IF j = i THEN e ELSE s[j]
  PROVE  t = InsertAt(rs, i, e)
<1>1. rs \in Seq(S) /\ RemovedSeq(s, i, rs)
  BY Removed
<1>2. Len(s) \in Nat /\ Len(rs) = Len(s) - 1
  BY <1>1 DEF RemovedSeq
<1>3. i \in 1 .. Len(rs) + 1
  BY <1>2
<1>4. PICK is : is = InsertAt(rs, i, e)
  OBVIOUS
<1>5. is \in Seq(S) /\ InsertedSeq(rs, i, e, is)
  BY <1>1, <1>3, <1>4, Inserted
<1>6. Len(is) = Len(s)
  BY <1>2, <1>5 DEF InsertedSeq
<1>7. ASSUME NEW j \in 1 .. Len(is) PROVE t[j] = is[j]
  <2>1. j \in 1 .. Len(s) /\ j \in 1 .. Len(rs) + 1
    BY <1>2, <1>6
  <2>2. is[j] = IF j < i THEN rs[j] ELSE IF j = i THEN e ELSE rs[j - 1]
    BY <2>1, <1>5 DEF InsertedSeq
  <2>3. CASE j < i
    <3>1. j \in 1 .. Len(s) - 1
      BY <2>1, <2>3, <1>2
    <3>2. rs[j] = s[j]
      BY <3>1, <2>3, <1>1 DEF RemovedSeq
    <3>3. QED
      BY <3>2, <2>1, <2>2, <2>3
  <2>4. CASE j = i
    BY <2>1, <2>2, <2>4
  <2>5. CASE i < j
    <3>1. PICK z : z = j - 1
      OBVIOUS
    <3>2. z \in 1 .. Len(s) - 1 /\ ~(z < i) /\ z + 1 = j
      BY <2>1, <2>5, <1>2, <3>1
    <3>3. rs[z] = s[z + 1]
      BY <3>2, <1>1 DEF RemovedSeq
    <3>4. t[j] = s[j] /\ is[j] = rs[z]
      BY <2>1, <2>2, <2>5, <3>1
    <3>5. QED
      BY <3>2, <3>3, <3>4
  <2>6. QED
    BY <2>1, <2>3, <2>4, <2>5
<1>8. t = is
  BY <1>5, <1>6, <1>7, SeqEqual
<1>9. QED
  BY <1>4, <1>8

\* ms is ns with the first entry of m at the end of l.
Shifted(ns, ms, y, i, l, m) ==
  /\ DOMAIN ms = DOMAIN ns /\ NodesOK(ms)
  /\ \A x \in DOMAIN ns \ {l, m, y} : ms[x] = ns[x]
  /\ \A x \in {l, m, y} : ms[x].leaf = ns[x].leaf /\ ms[x].parent = ns[x].parent /\ ms[x].next = ns[x].next
  /\ ms[y].ptrs = ns[y].ptrs /\ Len(ms[y].keys) = Len(ns[y].keys)
  /\ \A j \in 1 .. Len(ns[y].keys) : ms[y].keys[j] = IF j = i THEN ns[m].keys[2] ELSE ns[y].keys[j]
  /\ MovedOver(ns[l].keys, ns[m].keys, ms[l].keys, ms[m].keys)
  /\ MovedOver(ns[l].ptrs, ns[m].ptrs, ms[l].ptrs, ms[m].ptrs)

\* The tree in between: the two leaves are one, and the parent has neither
\* the separator nor the second child.
Joint(ns, ws, y, i, l, m) ==
  /\ DOMAIN ws = DOMAIN ns \ {m} /\ NodesOK(ws)
  /\ \A x \in DOMAIN ns \ {l, m, y} : ws[x] = ns[x]
  /\ \A x \in {l, y} : ws[x].leaf = ns[x].leaf /\ ws[x].parent = ns[x].parent
  /\ ws[l].keys = ns[l].keys \o ns[m].keys /\ ws[l].ptrs = ns[l].ptrs \o ns[m].ptrs /\ ws[l].next = ns[m].next
  /\ ws[y].keys = RemoveAt(ns[y].keys, i) /\ ws[y].ptrs = RemoveAt(ns[y].ptrs, i + 1) /\ ws[y].next = ns[y].next

LEMMA JointExists ==
  ASSUME NEW ns, NodesOK(ns), NEW y \in DOMAIN ns, NEW l \in DOMAIN ns, NEW m \in DOMAIN ns,
         l # m, l # y, m # y, ~ns[y].leaf, Len(ns[y].ptrs) = Len(ns[y].keys) + 1,
         NEW i \in 1 .. Len(ns[y].keys)
  PROVE  \E ws : Joint(ns, ws, y, i, l, m)
<1>1. /\ ns[l].keys \in Seq(Entries) /\ ns[m].keys \in Seq(Entries) /\ ns[y].keys \in Seq(Entries)
      /\ ns[l].ptrs \in Seq(Int) /\ ns[m].ptrs \in Seq(Int) /\ ns[y].ptrs \in Seq(Int)
      /\ ns[l].leaf \in BOOLEAN /\ ns[y].leaf \in BOOLEAN /\ ns[l].parent \in Int /\ ns[y].parent \in Int
      /\ ns[m].next \in Int /\ ns[y].next \in Int /\ Len(ns[y].keys) \in Nat
  BY NodeFields DEF NodesOK
<1>2. PICK kw, pw : kw = ns[l].keys \o ns[m].keys /\ pw = ns[l].ptrs \o ns[m].ptrs
  OBVIOUS
<1>3. kw \in Seq(Entries) /\ pw \in Seq(Int)
  BY <1>1, <1>2, Catenated
<1>4. PICK ky, j : ky = RemoveAt(ns[y].keys, i) /\ j = i + 1
  OBVIOUS
<1>5. PICK py : py = RemoveAt(ns[y].ptrs, j)
  OBVIOUS
<1>6. j \in 1 .. Len(ns[y].ptrs)
  BY <1>1, <1>4
<1>7. ky \in Seq(Entries)
  BY <1>1, <1>4, Removed
<1>8. py \in Seq(Int)
  BY <1>1, <1>5, <1>6, Removed
<1>9. PICK nl, ny : /\ nl = [leaf |-> ns[l].leaf, parent |-> ns[l].parent, keys |-> kw, ptrs |-> pw, next |-> ns[m].next]
                    /\ ny = [leaf |-> ns[y].leaf, parent |-> ns[y].parent, keys |-> ky, ptrs |-> py, next |-> ns[y].next]
  OBVIOUS
<1>10. nl \in NodeType
  BY <1>1, <1>3, <1>9 DEF NodeType
<1>11. ny \in NodeType
  BY <1>1, <1>7, <1>8, <1>9 DEF NodeType
<1>12. /\ nl.leaf = ns[l].leaf /\ nl.parent = ns[l].parent /\ nl.keys = kw /\ nl.ptrs = pw /\ nl.next = ns[m].next
       /\ ny.leaf = ns[y].leaf /\ ny.parent = ns[y].parent /\ ny.keys = ky /\ ny.ptrs = py /\ ny.next = ns[y].next
  BY <1>9
<1>13. PICK ws : ws = [x \in DOMAIN ns \ {m} |-> IF x = l THEN nl ELSE IF x = y THEN ny ELSE ns[x]]
  OBVIOUS
<1>14. /\ DOMAIN ws = DOMAIN ns \ {m} /\ ws[l] = nl /\ ws[y] = ny
       /\ \A x \in DOMAIN ns \ {l, m, y} : ws[x] = ns[x]
  BY <1>13
<1>15. NodesOK(ws)
  BY <1>10, <1>11, <1>14 DEF NodesOK
<1>16. \A x \in {l, y} : ws[x].leaf = ns[x].leaf /\ ws[x].parent = ns[x].parent
  BY <1>12, <1>14
<1>17. /\ ws[l].keys = ns[l].keys \o ns[m].keys /\ ws[l].ptrs = ns[l].ptrs \o ns[m].ptrs
       /\ ws[l].next = ns[m].next
  BY <1>2, <1>12, <1>14
<1>18. /\ ws[y].keys = RemoveAt(ns[y].keys, i) /\ ws[y].ptrs = RemoveAt(ns[y].ptrs, i + 1)
       /\ ws[y].next = ns[y].next
  BY <1>4, <1>5, <1>12, <1>14
<1>19. Joint(ns, ws, y, i, l, m)
  BY <1>14, <1>15, <1>16, <1>17, <1>18 DEF Joint
<1>20. QED
  BY <1>19

LEMMA JointTree ==
  ASSUME NEW ns, NEW r, NEW h, NEW sp, NEW rk, Tree(ns, r, h, sp, rk),
         NEW y, NEW i, NEW l, NEW m, PairAt(ns, y, i, l, m), ns[l].leaf,
         NEW ws, Joint(ns, ws, y, i, l, m)
  PROVE  \E sq : Tree(ws, r, h, sq, rk)
<1>1. /\ l \in DOMAIN ns /\ m \in DOMAIN ns /\ l # m /\ l # y /\ m # y /\ l # r /\ m # r
      /\ ns[l].parent = y /\ ns[m].parent = y /\ ns[l].leaf = ns[m].leaf
      /\ y \in DOMAIN ns /\ ~ns[y].leaf
  BY PairFacts
<1>2. ns[y].next = 0
  BY <1>1, TreeEdge
<1>3. i \in 1 .. Len(ns[y].keys) /\ ns[y].ptrs[i] = l /\ ns[y].ptrs[i + 1] = m
  BY DEF PairAt
<1>4. ASSUME NEW x \in DOMAIN ns \ {l, m, y} PROVE SameBody(ns, ws, x)
  <2>1. ws[x] = ns[x]
    BY DEF Joint
  <2>2. QED
    BY <2>1 DEF SameBody
<1>5. ASSUME NEW x \in DOMAIN ns \ {m} PROVE ws[x].parent = ns[x].parent
  BY DEF Joint
<1>6. DOMAIN ws = DOMAIN ns \ {m} /\ NodesOK(ws) /\ ws[y].leaf = ns[y].leaf /\ ws[l].leaf = ns[l].leaf
  BY DEF Joint
<1>7. /\ ws[y].keys = RemoveAt(ns[y].keys, i) /\ ws[y].ptrs = RemoveAt(ns[y].ptrs, i + 1) /\ ws[y].next = 0
  BY <1>2 DEF Joint
<1>8. MergeBody(ns, ws, l, m, y, i)
  BY <1>1, <1>3, <1>4, <1>5, <1>6, <1>7 DEF MergeBody
<1>9. WholeLeaf(ns, ws, l, m)
  BY DEF WholeLeaf, Joint
<1>10. PICK sq : sq = MergeSpans(sp, l, m)
  OBVIOUS
<1>11. Tree(ws, r, h, sq, rk)
  BY <1>8, <1>9, <1>10, MergeLeaf
<1>12. QED
  BY <1>11

ChildBack(ws, ms, y, i, key, l, m) ==
  /\ ms[y].keys = InsertAt(ws[y].keys, i, key) /\ ms[y].ptrs = InsertAt(ws[y].ptrs, i + 1, m)
  /\ i \in 1 .. Len(ws[y].keys) + 1 /\ ws[y].ptrs[i] = l

LEMMA ShiftedParent ==
  ASSUME NEW ns, NodesOK(ns), NEW y \in DOMAIN ns, NEW i \in 1 .. Len(ns[y].keys),
         Len(ns[y].ptrs) = Len(ns[y].keys) + 1,
         NEW l, NEW m, m = ns[y].ptrs[i + 1], l = ns[y].ptrs[i], NEW key \in Entries, key = ns[m].keys[2],
         NEW ms, Shifted(ns, ms, y, i, l, m), NEW ws, Joint(ns, ws, y, i, l, m)
  PROVE  ChildBack(ws, ms, y, i, key, l, m)
<1>1. ns[y].keys \in Seq(Entries) /\ ns[y].ptrs \in Seq(Int) /\ Len(ns[y].keys) \in Nat
  BY NodeFields DEF NodesOK
<1>2. ms[y].keys \in Seq(Entries)
  <2>1. ms[y] \in NodeType
    BY DEF Shifted, NodesOK
  <2>2. QED
    BY <2>1, NodeFields
<1>3. PICK kk, rs : kk = ns[y].keys /\ rs = ws[y].keys
  OBVIOUS
<1>4. rs = RemoveAt(kk, i)
  BY <1>3 DEF Joint
<1>5. PICK t : t = ms[y].keys
  OBVIOUS
<1>6. Len(t) = Len(kk) /\ \A j \in 1 .. Len(kk) : t[j] = IF j = i THEN key ELSE kk[j]
  BY <1>3, <1>5 DEF Shifted
<1>7. t = InsertAt(rs, i, key)
  <2>1. kk \in Seq(Entries) /\ t \in Seq(Entries) /\ i \in 1 .. Len(kk)
    BY <1>1, <1>2, <1>3, <1>5
  <2>2. QED
    BY <2>1, <1>4, <1>6, PutBack
<1>8. PICK pp, j, rp : pp = ns[y].ptrs /\ j = i + 1 /\ rp = ws[y].ptrs
  OBVIOUS
<1>9. rp = RemoveAt(pp, j) /\ ms[y].ptrs = pp
  BY <1>8 DEF Joint, Shifted
<1>10. pp \in Seq(Int) /\ j \in 1 .. Len(pp) /\ m = pp[j]
  BY <1>1, <1>8
<1>11. m \in Int /\ \A a \in 1 .. Len(pp) : pp[a] = IF a = j THEN m ELSE pp[a]
  BY <1>10
<1>12. pp = InsertAt(rp, j, m)
  BY <1>9, <1>10, <1>11, PutBack
<1>13. RemovedSeq(pp, j, rp)
  BY <1>9, <1>10, Removed
<1>14. rp[i] = l
  <2>1. i \in 1 .. Len(pp) - 1 /\ i < j /\ pp[i] = l
    BY <1>1, <1>8
  <2>2. QED
    BY <2>1, <1>13 DEF RemovedSeq
<1>15. i \in 1 .. Len(rs) + 1
  <2>1. RemovedSeq(kk, i, rs) /\ Len(kk) \in Nat /\ i \in 1 .. Len(kk)
    BY <1>1, <1>3, <1>4, Removed
  <2>2. QED
    BY <2>1 DEF RemovedSeq
<1>16. QED
  BY <1>3, <1>5, <1>7, <1>8, <1>9, <1>12, <1>14, <1>15 DEF ChildBack

LEMMA ShiftedSound ==
  ASSUME NEW ns, NEW r, NEW h, NEW sp, NEW rk, Tree(ns, r, h, sp, rk),
         NEW y, NEW i, NEW l, NEW m, PairAt(ns, y, i, l, m), ns[l].leaf, Len(ns[m].keys) >= 2,
         NEW ms, Shifted(ns, ms, y, i, l, m)
  PROVE  Sound(ms, r)
<1>1. /\ l \in DOMAIN ns /\ m \in DOMAIN ns /\ l # m /\ l # y /\ m # y /\ l # r /\ m # r
      /\ ns[l].parent = y /\ ns[m].parent = y /\ ns[l].leaf = ns[m].leaf
      /\ y \in DOMAIN ns /\ ~ns[y].leaf
  BY PairFacts
<1>2. Len(ns[y].ptrs) = Len(ns[y].keys) + 1 /\ NodesOK(ns) /\ ns[y].next = 0
  BY <1>1, TreeEdge DEF Tree
<1>3. i \in 1 .. Len(ns[y].keys) /\ ns[y].ptrs[i] = l /\ ns[y].ptrs[i + 1] = m
  BY DEF PairAt
<1>4. PICK ws : Joint(ns, ws, y, i, l, m)
  BY <1>1, <1>2, <1>3, JointExists
<1>5. PICK sq : Tree(ws, r, h, sq, rk)
  BY <1>4, JointTree
<1>6. ns[l].next = m
  BY <1>1, <1>3, NextSibling
<1>7. /\ ns[l].keys \in Seq(Entries) /\ ns[m].keys \in Seq(Entries)
      /\ ns[l].ptrs \in Seq(Int) /\ ns[m].ptrs \in Seq(Int)
  BY <1>1, <1>2, NodeFields DEF NodesOK
<1>8. Len(ns[l].ptrs) = Len(ns[l].keys) /\ Len(ns[m].ptrs) = Len(ns[m].keys)
  <2>1. NodeAt(ns, h, sp, l) /\ NodeAt(ns, h, sp, m)
    BY <1>1, TreeNode
  <2>2. QED
    BY <2>1, <1>1 DEF NodeAt, LeafAt
<1>9. PICK key : key = ns[m].keys[2]
  OBVIOUS
<1>10. key \in Entries
  BY <1>7, <1>9
<1>11. /\ ms[y].keys = InsertAt(ws[y].keys, i, key) /\ ms[y].ptrs = InsertAt(ws[y].ptrs, i + 1, m)
       /\ i \in 1 .. Len(ws[y].keys) + 1 /\ ws[y].ptrs[i] = l
  <2>1. ChildBack(ws, ms, y, i, key, l, m)
    BY <1>1, <1>2, <1>3, <1>4, <1>9, <1>10, ShiftedParent
  <2>2. QED
    BY <2>1 DEF ChildBack
<1>12. /\ DOMAIN ws = DOMAIN ns \ {m} /\ ws[l].leaf /\ ~ws[y].leaf /\ ws[l].next = ns[m].next
       /\ ws[l].parent = y /\ ws[y].leaf = ns[y].leaf /\ ws[l].leaf = ns[l].leaf
  BY <1>1, <1>4 DEF Joint
<1>13. /\ DOMAIN ms = DOMAIN ns /\ NodesOK(ms) /\ ms[y].leaf = ns[y].leaf /\ ms[y].next = 0
       /\ ms[l].leaf = ns[l].leaf /\ ms[m].leaf = ns[m].leaf /\ ms[m].parent = y
       /\ ms[l].next = m /\ ms[m].next = ns[m].next
  BY <1>1, <1>2, <1>6 DEF Shifted
<1>14. m \in PageIds
  BY <1>1, <1>2 DEF NodesOK
<1>15. ASSUME NEW x \in DOMAIN ws \ {l, y} PROVE SameBody(ws, ms, x)
  <2>1. x \in DOMAIN ns \ {l, m, y}
    BY <1>12
  <2>2. ms[x] = ns[x] /\ ws[x] = ns[x]
    BY <2>1, <1>4 DEF Shifted, Joint
  <2>3. QED
    BY <2>2 DEF SameBody
<1>16. ASSUME NEW x \in DOMAIN ws PROVE ms[x].parent = ws[x].parent
  <2>1. x \in DOMAIN ns \ {m}
    BY <1>12
  <2>2. CASE x \in {l, y}
    BY <2>2, <1>4 DEF Shifted, Joint
  <2>3. CASE x \notin {l, y}
    BY <2>1, <2>3, <1>4 DEF Shifted, Joint
  <2>4. QED
    BY <2>2, <2>3
<1>17. SplitBody(ws, ms, l, m, y, i, key)
  BY <1>1, <1>11, <1>12, <1>13, <1>14, <1>15, <1>16 DEF SplitBody
<1>18. PICK s, n, kw, pw : s = Len(ns[l].keys) + 1 /\ n = Len(ns[l].keys) + Len(ns[m].keys)
                           /\ kw = ws[l].keys /\ pw = ws[l].ptrs
  OBVIOUS
<1>19. /\ ms[l].keys \in Seq(Entries) /\ ms[m].keys \in Seq(Entries)
       /\ ms[l].ptrs \in Seq(Int) /\ ms[m].ptrs \in Seq(Int)
  BY <1>1, <1>13, NodeFields DEF NodesOK
<1>20. kw = ns[l].keys \o ns[m].keys /\ pw = ns[l].ptrs \o ns[m].ptrs
  BY <1>4, <1>18 DEF Joint
<1>21. MovedOver(ns[l].keys, ns[m].keys, ms[l].keys, ms[m].keys)
  BY DEF Shifted
<1>22. MovedOver(ns[l].ptrs, ns[m].ptrs, ms[l].ptrs, ms[m].ptrs)
  BY DEF Shifted
<1>23. /\ Len(kw) = n /\ s \in 1 .. n - 1 /\ kw[s + 1] = ns[m].keys[2]
       /\ ms[l].keys = SubSeq(kw, 1, s) /\ ms[m].keys = SubSeq(kw, s + 1, n)
  <2>1. PICK kl, km, ml, mm : kl = ns[l].keys /\ km = ns[m].keys /\ ml = ms[l].keys /\ mm = ms[m].keys
    OBVIOUS
  <2>2. /\ kl \in Seq(Entries) /\ km \in Seq(Entries) /\ ml \in Seq(Entries) /\ mm \in Seq(Entries)
        /\ Len(km) >= 2 /\ MovedOver(kl, km, ml, mm) /\ kw = kl \o km /\ s = Len(kl) + 1 /\ n = Len(kl) + Len(km)
    BY <2>1, <1>7, <1>18, <1>19, <1>20, <1>21
  <2>3. CutAt(kw, kl, km, ml, mm, s, n)
    BY <2>2, MovedOverCuts
  <2>4. QED
    BY <2>1, <2>3 DEF CutAt
<1>24. ms[l].ptrs = SubSeq(pw, 1, s) /\ ms[m].ptrs = SubSeq(pw, s + 1, n)
  <2>1. PICK pl, pm, ml, mm : pl = ns[l].ptrs /\ pm = ns[m].ptrs /\ ml = ms[l].ptrs /\ mm = ms[m].ptrs
    OBVIOUS
  <2>2. /\ pl \in Seq(Int) /\ pm \in Seq(Int) /\ ml \in Seq(Int) /\ mm \in Seq(Int)
        /\ Len(pm) >= 2 /\ MovedOver(pl, pm, ml, mm) /\ pw = pl \o pm /\ s = Len(pl) + 1 /\ n = Len(pl) + Len(pm)
    BY <2>1, <1>7, <1>8, <1>18, <1>19, <1>20, <1>22
  <2>3. CutAt(pw, pl, pm, ml, mm, s, n)
    BY <2>2, MovedOverCuts
  <2>4. QED
    BY <2>1, <2>3 DEF CutAt
<1>25. HalfLeaves(ws, ms, l, m, s, key)
  BY <1>9, <1>12, <1>13, <1>18, <1>23, <1>24 DEF HalfLeaves
<1>26. QED
  BY <1>5, <1>17, <1>25, HalvedTree DEF Halved

\* A node with other keys and pointers
Refilled(n, m, ks, ps) ==
  /\ m.leaf = n.leaf /\ m.parent = n.parent /\ m.next = n.next /\ m.keys = ks /\ m.ptrs = ps
  /\ m \in NodeType

LEMMA RefilledIs ==
  ASSUME NEW n \in NodeType, NEW ks \in Seq(Entries), NEW ps \in Seq(Int),
         NEW m, m = [n EXCEPT !.keys = ks, !.ptrs = ps]
  PROVE  Refilled(n, m, ks, ps)
<1>1. /\ n = [leaf |-> n.leaf, parent |-> n.parent, keys |-> n.keys, ptrs |-> n.ptrs, next |-> n.next]
      /\ n.leaf \in BOOLEAN /\ n.parent \in Int /\ n.next \in Int
  BY NodeFields
<1>2. PICK n1 : n1 = [n EXCEPT !.keys = ks]
  OBVIOUS
<1>3. n1 = [leaf |-> n.leaf, parent |-> n.parent, keys |-> ks, ptrs |-> n.ptrs, next |-> n.next]
  BY <1>1, <1>2
<1>4. m = [n1 EXCEPT !.ptrs = ps]
  BY <1>2
<1>5. m = [leaf |-> n.leaf, parent |-> n.parent, keys |-> ks, ptrs |-> ps, next |-> n.next]
  BY <1>3, <1>4
<1>6. m \in NodeType
  BY <1>1, <1>5 DEF NodeType
<1>7. QED
  BY <1>5, <1>6 DEF Refilled

LEMMA RekeyedIs ==
  ASSUME NEW n \in NodeType, NEW ks \in Seq(Entries), NEW m, m = [n EXCEPT !.keys = ks]
  PROVE  Refilled(n, m, ks, n.ptrs)
<1>1. /\ n = [leaf |-> n.leaf, parent |-> n.parent, keys |-> n.keys, ptrs |-> n.ptrs, next |-> n.next]
      /\ n.leaf \in BOOLEAN /\ n.parent \in Int /\ n.next \in Int /\ n.ptrs \in Seq(Int)
  BY NodeFields
<1>2. m = [leaf |-> n.leaf, parent |-> n.parent, keys |-> ks, ptrs |-> n.ptrs, next |-> n.next]
  BY <1>1
<1>3. m \in NodeType
  BY <1>1, <1>2 DEF NodeType
<1>4. QED
  BY <1>2, <1>3 DEF Refilled

\* The separator of l and its right neighbour is replaced.
NewSeparator(ns, y, i, key) == [ns EXCEPT ![y].keys[i] = key]

Separated(ns, ms, y, i, key) ==
  /\ DOMAIN ms = DOMAIN ns /\ \A x \in DOMAIN ns \ {y} : ms[x] = ns[x]
  /\ ms[y] \in NodeType /\ ms[y].leaf = ns[y].leaf /\ ms[y].parent = ns[y].parent
  /\ ms[y].ptrs = ns[y].ptrs /\ ms[y].next = ns[y].next /\ Len(ms[y].keys) = Len(ns[y].keys)
  /\ \A j \in 1 .. Len(ns[y].keys) : ms[y].keys[j] = IF j = i THEN key ELSE ns[y].keys[j]

LEMMA SeparatorIs ==
  ASSUME NEW ns, NEW y \in DOMAIN ns, ns[y] \in NodeType, NEW i \in 1 .. Len(ns[y].keys), NEW key \in Entries,
         NEW ms, ms = NewSeparator(ns, y, i, key)
  PROVE  Separated(ns, ms, y, i, key)
<1>1. PICK n, kk : n = ns[y] /\ kk = [ns[y].keys EXCEPT ![i] = key]
  OBVIOUS
<1>2. ms = [ns EXCEPT ![y] = [n EXCEPT !.keys = kk]]
  BY <1>1 DEF NewSeparator
<1>3. /\ n = [leaf |-> n.leaf, parent |-> n.parent, keys |-> n.keys, ptrs |-> n.ptrs, next |-> n.next]
      /\ n.leaf \in BOOLEAN /\ n.parent \in Int /\ n.keys \in Seq(Entries) /\ n.ptrs \in Seq(Int) /\ n.next \in Int
  BY <1>1, NodeFields
<1>5. kk \in Seq(Entries) /\ Len(kk) = Len(n.keys)
  BY <1>1, <1>3
<1>6. \A j \in 1 .. Len(n.keys) : kk[j] = IF j = i THEN key ELSE n.keys[j]
  BY <1>1, <1>3
<1>7. PICK n1 : n1 = [n EXCEPT !.keys = kk]
  OBVIOUS
<1>8. DOMAIN ms = DOMAIN ns /\ \A x \in DOMAIN ns \ {y} : ms[x] = ns[x]
  BY <1>2
<1>9. ms[y] = n1
  BY <1>2, <1>7
<1>10. Refilled(n, n1, kk, n.ptrs)
  BY <1>1, <1>5, <1>7, RekeyedIs
<1>11. QED
  BY <1>1, <1>5, <1>6, <1>8, <1>9, <1>10 DEF Separated, Refilled

LEMMA ShiftedIs ==
  ASSUME NodesOK(nodes), Shapes(nodes), NEW y \in DOMAIN nodes, NEW l \in DOMAIN nodes, NEW m \in DOMAIN nodes,
         l # m, l # y, m # y, l = call.left, m = call.right, nodes[l].parent = y,
         NEW i \in 1 .. Len(nodes[y].keys), ChildIndex(y, l) = i, nodes[l].leaf, nodes[m].leaf, Len(nodes[m].keys) >= 2,
         BorrowFromRightLeaf, NEW ms, ms = nodes'
  PROVE  Shifted(nodes, ms, y, i, l, m) /\ ms[l].ptrs \in Seq(Rids) /\ ms[m].ptrs \in Seq(Rids)
<1>1. PICK kl, km, pl, pm : kl = nodes[l].keys /\ km = nodes[m].keys /\ pl = nodes[l].ptrs /\ pm = nodes[m].ptrs
  OBVIOUS
<1>2. kl \in Seq(Entries) /\ km \in Seq(Entries) /\ nodes[l] \in NodeType /\ nodes[m] \in NodeType /\ nodes[y] \in NodeType
  BY <1>1, NodeFields DEF NodesOK
<1>3. pl \in Seq(Rids) /\ pm \in Seq(Rids) /\ Len(pm) = Len(km)
  <2>1. Shape(nodes[l]) /\ Shape(nodes[m])
    BY DEF Shapes
  <2>2. nodes[l].ptrs \in Seq(Rids) /\ nodes[m].ptrs \in Seq(Rids) /\ Len(nodes[m].ptrs) = Len(nodes[m].keys) + 0
    BY <2>1 DEF Shape
  <2>3. Len(km) \in Nat
    BY <1>2
  <2>4. QED
    BY <2>2, <2>3, <1>1
<1>4. PICK ka, kb : ka = Append(kl, Head(km)) /\ kb = Tail(km)
  OBVIOUS
<1>5. PICK pa, pb : pa = Append(pl, Head(pm)) /\ pb = Tail(pm)
  OBVIOUS
<1>6. Len(km) >= 1 /\ Len(pm) >= 1 /\ Len(km) \in Nat
  BY <1>1, <1>2, <1>3
<1>7. ka \in Seq(Entries) /\ kb \in Seq(Entries) /\ MovedOver(kl, km, ka, kb)
  BY <1>2, <1>4, <1>6, MovedOverIs
<1>8. pa \in Seq(Rids) /\ pb \in Seq(Rids) /\ MovedOver(pl, pm, pa, pb)
  BY <1>3, <1>5, <1>6, MovedOverIs
<1>9. Rids \subseteq Int
  BY EntriesAssumption DEF Rids
<1>10. pa \in Seq(Int) /\ pb \in Seq(Int)
  BY <1>8, <1>9, SeqMono
<1>11. PICK nl, nm, key : /\ nl = [nodes[l] EXCEPT !.keys = ka, !.ptrs = pa]
                          /\ nm = [nodes[m] EXCEPT !.keys = kb, !.ptrs = pb]
                          /\ key = km[2]
  OBVIOUS
<1>12. Refilled(nodes[l], nl, ka, pa)
  BY <1>2, <1>7, <1>10, <1>11, RefilledIs
<1>13. Refilled(nodes[m], nm, kb, pb)
  BY <1>2, <1>7, <1>10, <1>11, RefilledIs
<1>14. key \in Entries
  BY <1>1, <1>2, <1>11
<1>15. ms = Redistributed(nl, nm, key)
  <2>1. nl = [nodes[l] EXCEPT !.keys = Append(@, Head(nodes[m].keys)), !.ptrs = Append(@, Head(nodes[m].ptrs))]
    BY <1>1, <1>4, <1>5, <1>11
  <2>2. nm = [nodes[m] EXCEPT !.keys = Tail(@), !.ptrs = Tail(@)]
    BY <1>1, <1>4, <1>5, <1>11
  <2>3. ms = Redistributed([nodes[l] EXCEPT !.keys = Append(@, Head(nodes[m].keys)), !.ptrs = Append(@, Head(nodes[m].ptrs))],
                           [nodes[m] EXCEPT !.keys = Tail(@), !.ptrs = Tail(@)], nodes[m].keys[2])
    BY DEF BorrowFromRightLeaf
  <2>4. QED
    BY <2>1, <2>2, <2>3, <1>1, <1>11
<1>16. nl.parent = y /\ nl \in NodeType /\ nm \in NodeType
  BY <1>12, <1>13 DEF Refilled
<1>17. PICK a : a = [nodes EXCEPT ![l] = nl]
  OBVIOUS
<1>18. PICK b : b = [a EXCEPT ![m] = nm]
  OBVIOUS
<1>19. ms = NewSeparator(b, y, i, key)
  BY <1>15, <1>16, <1>17, <1>18 DEF Redistributed, NewSeparator
<1>20. /\ DOMAIN b = DOMAIN nodes /\ b[l] = nl /\ b[m] = nm
       /\ \A x \in DOMAIN nodes \ {l, m} : b[x] = nodes[x]
  BY <1>17, <1>18
<1>21. b[y] = nodes[y] /\ y \in DOMAIN b
  BY <1>20
<1>22. /\ DOMAIN ms = DOMAIN b /\ \A x \in DOMAIN b \ {y} : ms[x] = b[x]
       /\ ms[y] \in NodeType /\ ms[y].leaf = b[y].leaf /\ ms[y].parent = b[y].parent
       /\ ms[y].ptrs = b[y].ptrs /\ ms[y].next = b[y].next /\ Len(ms[y].keys) = Len(b[y].keys)
       /\ \A j \in 1 .. Len(b[y].keys) : ms[y].keys[j] = IF j = i THEN key ELSE b[y].keys[j]
  <2>1. Separated(b, ms, y, i, key)
    BY <1>2, <1>14, <1>19, <1>21, SeparatorIs
  <2>2. QED
    BY <2>1 DEF Separated
<1>23. ms[l] = nl /\ ms[m] = nm /\ DOMAIN ms = DOMAIN nodes /\ \A x \in DOMAIN nodes \ {l, m, y} : ms[x] = nodes[x]
  BY <1>20, <1>22
<1>24. NodesOK(ms)
  <2>1. ms[y] \in NodeType
    BY <1>22
  <2>2. \A x \in DOMAIN ms : ms[x] \in NodeType
    BY <2>1, <1>16, <1>23 DEF NodesOK
  <2>3. QED
    BY <2>2, <1>23 DEF NodesOK
<1>25. \A x \in {l, m, y} : ms[x].leaf = nodes[x].leaf /\ ms[x].parent = nodes[x].parent /\ ms[x].next = nodes[x].next
  <2>1. ms[l].leaf = nodes[l].leaf /\ ms[l].parent = nodes[l].parent /\ ms[l].next = nodes[l].next
    BY <1>12, <1>23 DEF Refilled
  <2>2. ms[m].leaf = nodes[m].leaf /\ ms[m].parent = nodes[m].parent /\ ms[m].next = nodes[m].next
    BY <1>13, <1>23 DEF Refilled
  <2>3. ms[y].leaf = nodes[y].leaf /\ ms[y].parent = nodes[y].parent /\ ms[y].next = nodes[y].next
    BY <1>21, <1>22
  <2>4. QED
    BY <2>1, <2>2, <2>3
<1>26. ms[l].keys = ka /\ ms[l].ptrs = pa /\ ms[m].keys = kb /\ ms[m].ptrs = pb
  BY <1>12, <1>13, <1>23 DEF Refilled
<1>27. /\ ms[y].ptrs = nodes[y].ptrs /\ Len(ms[y].keys) = Len(nodes[y].keys)
       /\ \A j \in 1 .. Len(nodes[y].keys) : ms[y].keys[j] = IF j = i THEN nodes[m].keys[2] ELSE nodes[y].keys[j]
  BY <1>1, <1>11, <1>21, <1>22
<1>28. Shifted(nodes, ms, y, i, l, m)
  BY <1>1, <1>7, <1>8, <1>23, <1>24, <1>25, <1>26, <1>27 DEF Shifted
<1>29. QED
  BY <1>8, <1>26, <1>28

LEMMA ShiftedLeaves ==
  ASSUME NEW ns, NodesOK(ns), NEW y \in DOMAIN ns, NEW l \in DOMAIN ns, NEW m \in DOMAIN ns, NEW i,
         ns[l].leaf, ns[m].leaf, ~ns[y].leaf, Len(ns[m].keys) >= 2,
         NEW ms, Shifted(ns, ms, y, i, l, m)
  PROVE  Leaves(ms) = Leaves(ns) /\ LeafKeys(ms) = LeafKeys(ns)
<1>1. DOMAIN ms = DOMAIN ns /\ NodesOK(ms) /\ \A x \in DOMAIN ns \ {l, m, y} : ms[x] = ns[x]
  BY DEF Shifted
<1>2. ms[l].leaf = ns[l].leaf /\ ms[m].leaf = ns[m].leaf /\ ms[y].leaf = ns[y].leaf
  BY DEF Shifted
<1>3. \A x \in DOMAIN ns : ms[x].leaf = ns[x].leaf
  BY <1>1, <1>2
<1>4. Leaves(ms) = Leaves(ns)
  BY <1>1, <1>3 DEF Leaves
<1>5. ASSUME NEW k \in LeafKeys(ms) PROVE k \in LeafKeys(ns)
  <2>1. PICK x \in Leaves(ms) : \E j \in 1 .. Len(ms[x].keys) : ms[x].keys[j] = k
    BY <1>1, LeafKeysIs
  <2>2. PICK j \in 1 .. Len(ms[x].keys) : ms[x].keys[j] = k
    BY <2>1
  <2>3. x \in Leaves(ns) /\ x # y /\ l \in Leaves(ns) /\ m \in Leaves(ns)
    BY <1>4 DEF Leaves
  <2>4. PICK kl, km : kl = ns[l].keys /\ km = ns[m].keys
    OBVIOUS
  <2>5. Len(kl) \in Nat /\ Len(km) \in Nat /\ Len(km) >= 2
    BY <2>4, NodeFields DEF NodesOK
  <2>6. MovedOver(kl, km, ms[l].keys, ms[m].keys)
    BY <2>4 DEF Shifted
  <2>7. CASE x = l
    <3>1. j \in 1 .. Len(kl) + 1 /\ k = IF j <= Len(kl) THEN kl[j] ELSE km[1]
      BY <2>2, <2>6, <2>7 DEF MovedOver
    <3>2. (\E a \in 1 .. Len(kl) : kl[a] = k) \/ (\E a \in 1 .. Len(km) : km[a] = k)
      <4>1. CASE j <= Len(kl)
        <5>1. j \in 1 .. Len(kl) /\ kl[j] = k
          BY <4>1, <3>1, <2>5
        <5>2. QED
          BY <5>1
      <4>2. CASE ~(j <= Len(kl))
        <5>1. 1 \in 1 .. Len(km) /\ km[1] = k
          BY <4>2, <3>1, <2>5
        <5>2. QED
          BY <5>1
      <4>3. QED
        BY <4>1, <4>2
    <3>3. QED
      BY <3>2, <2>3, <2>4, LeafKeysIs
  <2>8. CASE x = m
    <3>1. PICK a : a = j + 1
      OBVIOUS
    <3>2. a \in 1 .. Len(km) /\ km[a] = k
      BY <2>2, <2>5, <2>6, <2>8, <3>1 DEF MovedOver
    <3>3. QED
      BY <3>2, <2>3, <2>4, LeafKeysIs
  <2>9. CASE x # l /\ x # m
    <3>1. ms[x] = ns[x]
      BY <2>3, <2>9, <1>1 DEF Leaves
    <3>2. QED
      BY <3>1, <2>2, <2>3, LeafKeysIs
  <2>10. QED
    BY <2>7, <2>8, <2>9
<1>7. ASSUME NEW k \in LeafKeys(ns) PROVE k \in LeafKeys(ms)
  <2>1. PICK x \in Leaves(ns) : \E j \in 1 .. Len(ns[x].keys) : ns[x].keys[j] = k
    BY LeafKeysIs
  <2>2. PICK j \in 1 .. Len(ns[x].keys) : ns[x].keys[j] = k
    BY <2>1
  <2>3. x \in Leaves(ms) /\ x # y /\ l \in Leaves(ms) /\ m \in Leaves(ms)
    BY <1>4 DEF Leaves
  <2>4. PICK kl, km, cl, cm : kl = ns[l].keys /\ km = ns[m].keys /\ cl = ms[l].keys /\ cm = ms[m].keys
    OBVIOUS
  <2>5. Len(kl) \in Nat /\ Len(km) \in Nat /\ Len(km) >= 2
    BY <2>4, NodeFields DEF NodesOK
  <2>6. MovedOver(kl, km, cl, cm)
    BY <2>4 DEF Shifted
  <2>7. CASE x = l
    <3>1. j \in 1 .. Len(kl) + 1 /\ j <= Len(kl) /\ kl[j] = k
      BY <2>2, <2>4, <2>5, <2>7
    <3>2. j \in 1 .. Len(cl) /\ cl[j] = k
      BY <3>1, <2>6 DEF MovedOver
    <3>3. QED
      BY <3>2, <2>3, <2>4, <1>1, LeafKeysIs
  <2>8. CASE x = m
    <3>1. j \in 1 .. Len(km) /\ km[j] = k
      BY <2>2, <2>4, <2>8
    <3>2. CASE j = 1
      <4>1. PICK a : a = Len(kl) + 1
        OBVIOUS
      <4>2. a \in 1 .. Len(kl) + 1 /\ ~(a <= Len(kl)) /\ km[1] = k
        BY <4>1, <3>1, <3>2, <2>5
      <4>3. a \in 1 .. Len(cl) /\ cl[a] = k
        BY <4>2, <2>6 DEF MovedOver
      <4>4. QED
        BY <4>3, <2>3, <2>4, <1>1, LeafKeysIs
    <3>3. CASE j # 1
      <4>1. PICK a : a = j - 1
        OBVIOUS
      <4>2. a \in 1 .. Len(km) - 1 /\ a + 1 = j
        BY <4>1, <3>1, <3>3, <2>5
      <4>3. a \in 1 .. Len(cm) /\ cm[a] = k
        BY <4>2, <3>1, <2>6 DEF MovedOver
      <4>4. QED
        BY <4>3, <2>3, <2>4, <1>1, LeafKeysIs
    <3>4. QED
      BY <3>2, <3>3
  <2>9. CASE x # l /\ x # m
    <3>1. ms[x] = ns[x]
      BY <2>3, <2>9, <1>1 DEF Leaves
    <3>2. QED
      BY <3>1, <2>2, <2>3, <1>1, LeafKeysIs
  <2>10. QED
    BY <2>7, <2>8, <2>9
<1>6. QED
  BY <1>4, <1>5, <1>7

LEMMA ShiftedShapes ==
  ASSUME NEW ns, NodesOK(ns), Shapes(ns), NEW y \in DOMAIN ns, NEW l \in DOMAIN ns, NEW m \in DOMAIN ns, NEW i,
         ns[l].leaf, ns[m].leaf, ~ns[y].leaf, Len(ns[m].keys) >= 2, Len(ns[l].keys) + 1 < Order,
         NEW ms, Shifted(ns, ms, y, i, l, m), ms[l].ptrs \in Seq(Rids), ms[m].ptrs \in Seq(Rids)
  PROVE  Shapes(ms)
<1>1. DOMAIN ms = DOMAIN ns /\ NodesOK(ms) /\ \A x \in DOMAIN ns \ {l, m, y} : ms[x] = ns[x]
  BY DEF Shifted
<1>2. /\ ms[l].leaf = ns[l].leaf /\ ms[m].leaf = ns[m].leaf /\ ms[y].leaf = ns[y].leaf
      /\ ms[l].parent = ns[l].parent /\ ms[m].parent = ns[m].parent /\ ms[y].parent = ns[y].parent
      /\ ms[y].ptrs = ns[y].ptrs /\ Len(ms[y].keys) = Len(ns[y].keys)
  BY DEF Shifted
<1>3. Shape(ns[l]) /\ Shape(ns[m]) /\ Shape(ns[y])
  BY DEF Shapes
<1>4. Len(ns[l].keys) \in Nat /\ Len(ns[m].keys) \in Nat
  BY NodeFields DEF NodesOK
<1>5. Len(ns[l].ptrs) = Len(ns[l].keys) /\ Len(ns[m].ptrs) = Len(ns[m].keys) /\ Len(ns[m].keys) < Order
  <2>1. Len(ns[l].ptrs) = Len(ns[l].keys) + 0 /\ Len(ns[m].ptrs) = Len(ns[m].keys) + 0 /\ Len(ns[m].keys) < Order
    BY <1>3 DEF Shape
  <2>2. QED
    BY <2>1, <1>4
<1>6. /\ Len(ms[l].keys) = Len(ns[l].keys) + 1 /\ Len(ms[l].ptrs) = Len(ns[l].ptrs) + 1
      /\ Len(ms[m].keys) = Len(ns[m].keys) - 1 /\ Len(ms[m].ptrs) = Len(ns[m].ptrs) - 1
  BY DEF Shifted, MovedOver
<1>7. Shape(ms[l])
  <2>1. ms[l].parent \in Pages \cup {-1} /\ Len(ms[l].keys) < Order
    BY <1>2, <1>3, <1>6 DEF Shape
  <2>2. ms[l].ptrs \in Seq(IF ms[l].leaf THEN Rids ELSE Pages)
    BY <1>2
  <2>3. Len(ms[l].ptrs) = Len(ms[l].keys) + (IF ms[l].leaf THEN 0 ELSE 1)
    BY <1>2, <1>4, <1>5, <1>6
  <2>4. QED
    BY <2>1, <2>2, <2>3 DEF Shape
<1>8. Shape(ms[m])
  <2>1. ms[m].parent \in Pages \cup {-1}
    BY <1>2, <1>3 DEF Shape
  <2>2. ms[m].ptrs \in Seq(IF ms[m].leaf THEN Rids ELSE Pages)
    BY <1>2
  <2>3. Len(ms[m].ptrs) = Len(ms[m].keys) + (IF ms[m].leaf THEN 0 ELSE 1)
    BY <1>2, <1>4, <1>5, <1>6
  <2>4. Len(ms[m].keys) < Order
    BY <1>4, <1>5, <1>6, OrderAssumption
  <2>5. QED
    BY <2>1, <2>2, <2>3, <2>4 DEF Shape
<1>9. Shape(ms[y])
  <2>1. ms[y].parent \in Pages \cup {-1} /\ Len(ms[y].keys) < Order
    BY <1>2, <1>3 DEF Shape
  <2>2. ms[y].ptrs \in Seq(IF ms[y].leaf THEN Rids ELSE Pages)
    BY <1>2, <1>3 DEF Shape
  <2>3. Len(ms[y].ptrs) = Len(ms[y].keys) + (IF ms[y].leaf THEN 0 ELSE 1)
    BY <1>2, <1>3 DEF Shape
  <2>4. QED
    BY <2>1, <2>2, <2>3 DEF Shape
<1>10. QED
  BY <1>1, <1>7, <1>8, <1>9 DEF Shapes

\* redistribute_nodes, from the right leaf to the left one, keeps the invariant.
LEMMA InvBorrowFromRightLeaf ==
  ASSUME IInv, BorrowFromRightLeaf
  PROVE  IInv' /\ LeafKeys(nodes') = LeafKeys(nodes)
<1>1. PICK l, m, ms : l = call.left /\ m = call.right /\ ms = nodes'
  OBVIOUS
<1>2. /\ call.fn = "redistribute_nodes" /\ nodes[l].leaf = TRUE /\ Len(nodes[l].keys) < MinKeys(nodes[l])
      /\ call' = Idle /\ UNCHANGED <<root, unique, leaked, scan>>
  BY <1>1 DEF BorrowFromRightLeaf, Redistributing, Pending
<1>3. call.fn \in SiblingCalls
  BY <1>2 DEF SiblingCalls
<1>4. PICK h, sp, rk, y, i :
        /\ Tree(nodes, root, h, sp, rk) /\ PairAt(nodes, y, i, l, m)
        /\ y = nodes[l].parent /\ ChildIndex(y, l) = i /\ call # Idle
  BY <1>1, <1>3, SiblingPending
<1>5. /\ l \in DOMAIN nodes /\ m \in DOMAIN nodes /\ l # m /\ l # y /\ m # y /\ l # root /\ m # root
      /\ nodes[l].parent = y /\ nodes[m].parent = y /\ nodes[l].leaf = nodes[m].leaf
      /\ y \in DOMAIN nodes /\ ~nodes[y].leaf
  BY <1>4, PairFacts
<1>6. i \in 1 .. Len(nodes[y].keys)
  BY <1>4 DEF PairAt
<1>7. /\ NodesOK(nodes) /\ Shapes(nodes) /\ root \in DOMAIN nodes /\ unique \in BOOLEAN
      /\ DistinctValues(nodes, unique) /\ Sizes(nodes, root, call)
  BY DEF IInv
<1>8. Len(nodes[l].keys) \in Nat /\ Len(nodes[m].keys) \in Nat
  BY <1>5, <1>7, NodeFields DEF NodesOK
<1>9. PICK a : a = Order \div 2
  OBVIOUS
<1>10. a \in Nat /\ a >= 1 /\ a < Order /\ MinKeys(nodes[l]) = a /\ MinKeys(nodes[m]) = a
  BY <1>2, <1>5, <1>9, OrderAssumption DEF MinKeys
<1>11. Len(nodes[l].keys) + 1 = a /\ Len(nodes[m].keys) > a
  <2>1. OneShort(nodes, l, m, "redistribute_nodes") \/ OneShort(nodes, m, l, "redistribute_nodes")
    BY <1>1, <1>2, <1>3, <1>7 DEF Sizes
  <2>2. ~OneShort(nodes, m, l, "redistribute_nodes")
    BY <1>2, <1>8, <1>10 DEF OneShort
  <2>3. QED
    BY <2>1, <2>2, <1>10 DEF OneShort
<1>12. Len(nodes[m].keys) >= 2 /\ Len(nodes[l].keys) + 1 < Order /\ nodes[l].leaf /\ nodes[m].leaf
  BY <1>2, <1>5, <1>8, <1>10, <1>11
<1>13. Shifted(nodes, ms, y, i, l, m) /\ ms[l].ptrs \in Seq(Rids) /\ ms[m].ptrs \in Seq(Rids)
  BY <1>1, <1>4, <1>5, <1>6, <1>7, <1>12, ShiftedIs
<1>14. Shapes(ms)
  BY <1>5, <1>7, <1>12, <1>13, ShiftedShapes
<1>15. Leaves(ms) = Leaves(nodes) /\ LeafKeys(ms) = LeafKeys(nodes)
  BY <1>5, <1>7, <1>12, <1>13, ShiftedLeaves
<1>16. Sound(ms, root)
  BY <1>4, <1>12, <1>13, ShiftedSound
<1>17. DOMAIN ms = DOMAIN nodes /\ NodesOK(ms)
  BY <1>13 DEF Shifted
<1>18. ASSUME NEW x \in DOMAIN nodes \ {l, m}
       PROVE  ms[x].leaf = nodes[x].leaf /\ Len(ms[x].keys) = Len(nodes[x].keys)
  <2>1. CASE x = y
    BY <2>1, <1>13 DEF Shifted
  <2>2. CASE x # y
    BY <2>2, <1>13 DEF Shifted
  <2>3. QED
    BY <2>1, <2>2
<1>19. Sizes(ms, root, Idle)
  <2>1. Idle.fn \notin SiblingCalls /\ Idle.fn # "insert_into_parent"
    BY DEF SiblingCalls, Idle
  <2>2. ~ms[root].leaf => Len(ms[root].keys) >= 1
    BY <1>5, <1>7, <1>18 DEF Sizes
  <2>3. ASSUME NEW x \in DOMAIN ms \ {root} PROVE Enough(ms, x)
    <3>1. CASE x = l \/ x = m
      <4>1. /\ ms[l].leaf = nodes[l].leaf /\ ms[m].leaf = nodes[m].leaf
            /\ Len(ms[l].keys) = Len(nodes[l].keys) + 1 /\ Len(ms[m].keys) = Len(nodes[m].keys) - 1
        BY <1>13 DEF Shifted, MovedOver
      <4>2. MinKeys(ms[l]) = a /\ MinKeys(ms[m]) = a
        BY <4>1, <1>12, <1>9 DEF MinKeys
      <4>3. Len(ms[l].keys) >= a /\ Len(ms[m].keys) >= a
        BY <4>1, <1>8, <1>10, <1>11
      <4>4. QED
        BY <3>1, <4>2, <4>3 DEF Enough
    <3>2. CASE x # l /\ x # m
      <4>1. x \in DOMAIN nodes \ {l, m} /\ x # root
        BY <3>2, <1>17
      <4>2. Enough(nodes, x)
        BY <4>1, <1>1, <1>7 DEF Sizes
      <4>3. ms[x].leaf = nodes[x].leaf /\ Len(ms[x].keys) = Len(nodes[x].keys)
        BY <4>1, <1>18
      <4>4. MinKeys(ms[x]) = MinKeys(nodes[x])
        BY <4>3 DEF MinKeys
      <4>5. QED
        BY <4>2, <4>3, <4>4 DEF Enough
    <3>3. QED
      BY <3>1, <3>2
  <2>4. QED
    BY <2>1, <2>2, <2>3 DEF Sizes
<1>20. CallFits(ms, root, Idle) /\ Sound(Whole(ms, Idle), WholeRoot(ms, root, Idle))
  BY <1>16, WholeCases DEF CallFits
<1>21. DistinctValues(ms, unique)
  <2>1. LeafKeys(ms) \subseteq LeafKeys(nodes)
    BY <1>15
  <2>2. QED
    BY <2>1, <1>7, DistinctMono
<1>22. ScanFits(ms, Idle, scan) /\ leaked \subseteq Leaves(ms)
  <2>1. Idle.fn # "insert_into_parent"
    BY DEF Idle
  <2>2. \A x \in Leaves(nodes) : x \in Pinned => x \in Leaves(ms)
    BY <1>15
  <2>3. DOMAIN ms \ Leaves(ms) \subseteq DOMAIN nodes \ Leaves(nodes)
    BY <1>15, <1>17
  <2>4. QED
    BY <2>1, <2>2, <2>3, <1>4, ScanKept
<1>23. /\ nodes' = ms /\ root' = root /\ unique' = unique /\ leaked' = leaked /\ scan' = scan /\ call' = Idle
       /\ root \in DOMAIN ms
  BY <1>1, <1>2, <1>7, <1>17
<1>24. IInv'
  BY <1>7, <1>14, <1>17, <1>19, <1>20, <1>21, <1>22, <1>23 DEF IInv
<1>25. QED
  BY <1>15, <1>23, <1>24

-----------------------------------------------------------------------------
(* The invariant holds in the beginning and stays *)

LEMMA FirstTree ==
  ASSUME NEW ns, ns = [p \in {FirstPage} |-> Leaf(-1, <<>>, <<>>, 0)]
  PROVE  Sound(ns, FirstPage) /\ NodesOK(ns) /\ Shapes(ns) /\ Leaves(ns) = {FirstPage} /\ LeafKeys(ns) = {}
<1>1. PICK n : n = Leaf(-1, <<>>, <<>>, 0)
  OBVIOUS
<1>2. n.leaf = TRUE /\ n.parent = -1 /\ n.keys = <<>> /\ n.ptrs = <<>> /\ n.next = 0
  BY <1>1 DEF Leaf
<1>3. n \in NodeType
  BY <1>1 DEF Leaf, NodeType
<1>4. DOMAIN ns = {FirstPage} /\ ns[FirstPage] = n
  BY <1>1
<1>5. FirstPage \in Pages /\ FirstPage \in PageIds
  BY MaxPageAssumption DEF FirstPage, Pages, PageIds
<1>6. NodesOK(ns)
  BY <1>3, <1>4, <1>5 DEF NodesOK
<1>7. Len(n.keys) = 0 /\ Len(n.ptrs) = 0
  BY <1>2
<1>8. Shape(n)
  <2>1. n.ptrs \in Seq(IF n.leaf THEN Rids ELSE Pages)
    BY <1>2
  <2>2. Len(n.ptrs) = Len(n.keys) + (IF n.leaf THEN 0 ELSE 1)
    BY <1>2, <1>7
  <2>3. Len(n.keys) < Order
    BY <1>7, OrderAssumption
  <2>4. n.parent \in Pages \cup {-1}
    BY <1>2
  <2>5. QED
    BY <2>1, <2>2, <2>3, <2>4 DEF Shape
<1>9. Shapes(ns)
  BY <1>4, <1>5, <1>8 DEF Shapes
<1>10. Leaves(ns) = {FirstPage}
  BY <1>2, <1>4 DEF Leaves
<1>11. LeafKeys(ns) = {}
  <2>1. SUFFICES ASSUME NEW k, k \in LeafKeys(ns) PROVE FALSE
    OBVIOUS
  <2>2. PICK x \in Leaves(ns) : \E j \in 1 .. Len(ns[x].keys) : ns[x].keys[j] = k
    BY <2>1, <1>6, LeafKeysIs
  <2>3. Len(ns[x].keys) = 0
    BY <1>4, <1>7, <1>10
  <2>4. QED
    BY <2>2, <2>3
<1>12. PICK h, sp, rk : h = [x \in PageIds |-> 0] /\ sp = [x \in PageIds |-> K] /\ rk = [x \in PageIds |-> 1]
  OBVIOUS
<1>13. GhostsOK(h, sp, rk)
  BY <1>12 DEF GhostsOK
<1>14. h[FirstPage] = 0 /\ sp[FirstPage] = K
  BY <1>5, <1>12
<1>15. NodeAt(ns, h, sp, FirstPage)
  <2>1. Convex(K) /\ K # {}
    <3>1. <<0, 0>> \in K
      BY DEF K
    <3>2. QED
      BY <3>1 DEF Convex
  <2>2. SpanAt(sp, FirstPage)
    BY <2>1, <1>14 DEF SpanAt
  <2>3. KeysAt(ns, sp, FirstPage)
    BY <1>4, <1>7 DEF KeysAt, Ascending
  <2>4. LeafAt(ns, h, FirstPage)
    BY <1>4, <1>7, <1>14 DEF LeafAt
  <2>5. QED
    BY <2>2, <2>3, <2>4, <1>2, <1>4 DEF NodeAt
<1>16. RootAt(ns, FirstPage, sp)
  BY <1>2, <1>4, <1>14 DEF RootAt
<1>17. ChainOK(Leaves(ns), sp, Nexts(ns), rk)
  <2>1. PICK nx : nx = Nexts(ns)
    OBVIOUS
  <2>2. nx[FirstPage] = 0
    BY <2>1, <1>2, <1>4, <1>10 DEF Nexts
  <2>3. NextAt({FirstPage}, sp, nx, rk, FirstPage)
    BY <2>2 DEF NextAt
  <2>4. ChainOK({FirstPage}, sp, nx, rk)
    BY <2>3 DEF ChainOK
  <2>5. QED
    BY <2>1, <2>4, <1>10
<1>18. Tree(ns, FirstPage, h, sp, rk)
  BY <1>4, <1>6, <1>13, <1>15, <1>16, <1>17 DEF Tree
<1>19. Sound(ns, FirstPage)
  BY <1>18, SoundIs
<1>20. QED
  BY <1>6, <1>9, <1>10, <1>11, <1>19

LEMMA InitInv == Init => IInv
<1>1. SUFFICES ASSUME Init PROVE IInv
  OBVIOUS
<1>2. /\ Sound(nodes, FirstPage) /\ NodesOK(nodes) /\ Shapes(nodes) /\ Leaves(nodes) = {FirstPage}
      /\ LeafKeys(nodes) = {}
  BY <1>1, FirstTree DEF Init
<1>3. root = FirstPage /\ call = Idle /\ leaked = {} /\ scan = NoScan /\ unique \in BOOLEAN
  BY <1>1 DEF Init
<1>4. root \in DOMAIN nodes /\ nodes[root].leaf /\ DOMAIN nodes = {root}
  BY <1>1, <1>2, <1>3 DEF Init, Leaves
<1>5. Sizes(nodes, root, call)
  BY <1>3, <1>4 DEF Sizes, Idle, SiblingCalls
<1>6. CallFits(nodes, root, call) /\ ScanFits(nodes, call, scan) /\ DistinctValues(nodes, unique)
  BY <1>2, <1>3 DEF CallFits, ScanFits, DistinctValues
<1>7. Sound(Whole(nodes, call), WholeRoot(nodes, root, call))
  BY <1>2, <1>3, WholeCases
<1>8. QED
  BY <1>2, <1>3, <1>4, <1>5, <1>6, <1>7 DEF IInv

LEMMA NextInv ==
  ASSUME Eps = 1, IInv, [Next]_vars
  PROVE  IInv'
<1>1. CASE Scanning
  <2>1. CASE \E op \in ScanOps, v \in Attrs : ScanOpen(op, v)
    BY <2>1, InvScanOpen
  <2>2. CASE ScanHere
    BY <2>2, InvScanHere
  <2>3. CASE ScanOn
    BY <2>3, InvScanOn
  <2>4. CASE ScanEnd \/ ScanLost
    BY <2>4, InvScanEnd
  <2>5. CASE ScanClose
    BY <2>5, InvScanClose
  <2>6. QED
    BY <1>1, <2>1, <2>2, <2>3, <2>4, <2>5 DEF Scanning
<1>2. CASE Insertion
  <2>1. ASSUME NEW e \in Entries, RefuseDuplicate(e) \/ RefuseExisting(e) \/ InsertLost(e) PROVE IInv'
    BY <2>1, InvRefuse
  <2>2. ASSUME NEW e \in Entries, InsertIntoLeaf(e) PROVE IInv'
    BY <2>2, InvInsertIntoLeaf
  <2>3. ASSUME NEW e \in Entries, ~Holds(FindLeaf(e), e), InsertIntoLeafAfterSplit(e) PROVE IInv'
    BY <2>3, InvInsertIntoLeafAfterSplit
  <2>4. CASE InsertIntoNewRoot
    BY <2>4, InvInsertIntoNewRoot
  <2>5. CASE InsertInternNode
    BY <2>5, InvInsertInternNode
  <2>6. CASE InsertInternNodeAfterSplit
    BY <2>6, InvInsertInternNodeAfterSplit
  <2>7. QED
    BY <1>2, <2>1, <2>2, <2>3, <2>4, <2>5, <2>6 DEF Insertion
<1>3. CASE Deletion
  <2>1. ASSUME NEW e \in Entries, DeleteEntry(e) PROVE IInv'
    BY <2>1, InvDeleteEntry
  <2>2. ASSUME NEW e \in Entries, DeleteMissing(e) PROVE IInv'
    BY <2>2, InvRefuse
  <2>3. CASE DeleteFromParent
    BY <2>3, InvDeleteFromParent
  <2>4. CASE CoalesceNode
    BY <2>4, InvCoalesceNode
  <2>5. CASE BorrowFromRightLeaf
    BY <2>5, InvBorrowFromRightLeaf
  <2>6. QED
    BY <1>3, <2>1, <2>2, <2>3, <2>4, <2>5 DEF Deletion
<1>4. CASE root = FirstPage /\ Reopen
  BY <1>4, InvReopen
<1>5. CASE UNCHANGED vars
  <2>1. UNCHANGED <<nodes, root, unique, call>> /\ leaked' = leaked /\ scan' = scan
    BY <1>5 DEF vars
  <2>2. leaked' \subseteq Leaves(nodes) /\ ScanFits(nodes, call, scan')
    BY <2>1 DEF IInv
  <2>3. QED
    BY <2>1, <2>2, Quiet
<1>6. QED
  BY <1>1, <1>2, <1>3, <1>4, <1>5 DEF Next

LEMMA AlwaysInv ==
  ASSUME Eps = 1
  PROVE  Spec => []IInv
<1>1. IInv /\ [Next]_vars => IInv'
  BY NextInv
<1>2. QED
  BY <1>1, InitInv, PTL DEF Spec

-----------------------------------------------------------------------------
(* Theorems *)

\* The types of bplus_tree.cpp's state: whatever splits and merges take place,
\* pages stay within the file, no node has more keys than the order allows,
\* record ids and children match the keys in number, a leaf's next page is
\* allocated, and only allocated pages stay pinned.
THEOREM TypeCorrect ==
  ASSUME Eps = 1
  PROVE  Spec => []TypeOK
<1>1. IInv => TypeOK
  BY ImpliesType
<1>2. QED
  BY <1>1, AlwaysInv, PTL

\* Between two operations of the handler the tree is whole: insert_into_parent
\* and coalesce_node have set all parent pages, every page is some node's child
\* exactly once or the root, and no node but the root has too few keys.
THEOREM TreeWellFormed ==
  ASSUME Eps = 1
  PROVE  Spec => []WellFormed
<1>1. IInv => WellFormed
  BY ImpliesWellFormed
<1>2. QED
  BY <1>1, AlwaysInv, PTL

\* Between two operations find_leaf leads to every key that the chain of the
\* leaves holds, the chain holds the keys in ascending order, and the leftmost
\* descent ends at the first leaf: no split, merge or borrowing loses a key.
THEOREM EveryKeyFindable ==
  ASSUME Eps = 1
  PROVE  Spec => []Findable
<1>1. IInv => Findable
  BY ImpliesFindable
<1>2. QED
  BY <1>1, AlwaysInv, PTL

\* The scan that insert_entry of a unique index makes before it inserts finds
\* the value wherever it is, so that no value is ever there twice.
THEOREM UniqueKept ==
  ASSUME Eps = 1
  PROVE  Spec => []UniqueValues
<1>1. IInv => UniqueValues
  BY ImpliesUnique
<1>2. QED
  BY <1>1, AlwaysInv, PTL

-----------------------------------------------------------------------------
(* What a scan has returned *)

\* A scan that goes on from place i of page p, or is at the end if p is no
\* leaf, has returned what satisfies and lies behind.
SeenAt(ns, sp, p, i, op, v, seen) ==
  /\ seen \subseteq LeafKeys(ns)
  /\ p \in Leaves(ns) => i \in Nat \ {0}
  /\ \A x \in Leaves(ns) : \A m \in 1 .. Len(ns[x].keys) :
       ns[x].keys[m] \in seen <=> Satisfy(ns[x].keys[m], op, v) /\ (p \in Leaves(ns) => Behind(sp, x, m, p, i))

\* Nothing satisfies on page p from place i up to place j.
NoneBetween(ns, p, i, j, op, v) ==
  \A m \in 1 .. Len(ns[p].keys) : i <= m /\ m < j => ~Satisfy(ns[p].keys[m], op, v)

\* Of what satisfies, the keys before e and no others have been returned.
InOrder(ns, op, v, seen, e) ==
  \A d \in LeafKeys(ns) : Satisfy(d, op, v) => (d \in seen <=> Lt(d, e))

\* next_entry returns the key at place j: it is the next in order.
LEMMA ReturnsNext ==
  ASSUME NEW ns, NEW r, NEW h, NEW sp, NEW rk, Tree(ns, r, h, sp, rk), NEW p \in Leaves(ns),
         NEW i, NEW op, NEW v, NEW seen, SeenAt(ns, sp, p, i, op, v, seen),
         NEW j \in 1 .. Len(ns[p].keys), i <= j, NoneBetween(ns, p, i, j, op, v),
         NEW e, e = ns[p].keys[j], Satisfy(e, op, v), NEW z, z = seen \cup {e}
  PROVE  /\ e \in LeafKeys(ns)
         /\ InOrder(ns, op, v, seen, e)
         /\ SeenAt(ns, sp, p, j + 1, op, v, z)
<1>1. NodesOK(ns) /\ i \in Nat \ {0} /\ j \in Nat
  BY DEF Tree, SeenAt
<1>2. e \in LeafKeys(ns)
  BY <1>1, LeafKeysIs
<1>3. ASSUME NEW x \in Leaves(ns), NEW m \in 1 .. Len(ns[x].keys), Satisfy(ns[x].keys[m], op, v)
      PROVE  Behind(sp, x, m, p, i) <=> Behind(sp, x, m, p, j)
  <2>1. CASE x = p
    <3>1. ~(i <= m /\ m < j)
      BY <2>1, <1>3 DEF NoneBetween
    <3>2. m < i <=> m < j
      BY <3>1, <1>1
    <3>3. QED
      BY <3>2 DEF Behind
  <2>2. CASE x # p
    BY <2>2 DEF Behind
  <2>3. QED
    BY <2>1, <2>2
<1>4. ASSUME NEW x \in Leaves(ns), NEW m \in 1 .. Len(ns[x].keys), Satisfy(ns[x].keys[m], op, v)
      PROVE  ns[x].keys[m] \in seen <=> Behind(sp, x, m, p, j)
  BY <1>3, <1>4 DEF SeenAt
<1>5. ASSUME NEW d \in LeafKeys(ns), Satisfy(d, op, v)
      PROVE  d \in seen <=> Lt(d, e)
  <2>1. PICK x \in Leaves(ns) : \E m \in 1 .. Len(ns[x].keys) : ns[x].keys[m] = d
    BY <1>1, LeafKeysIs
  <2>2. PICK m \in 1 .. Len(ns[x].keys) : ns[x].keys[m] = d
    BY <2>1
  <2>3. d \in seen <=> Behind(sp, x, m, p, j)
    BY <2>2, <1>4, <1>5
  <2>4. Lt(d, e) <=> Behind(sp, x, m, p, j)
    BY <2>2, PlacesOrder
  <2>5. QED
    BY <2>3, <2>4
<1>6. ASSUME NEW x \in Leaves(ns), NEW m \in 1 .. Len(ns[x].keys)
      PROVE  ns[x].keys[m] \in seen \cup {e} <=> Satisfy(ns[x].keys[m], op, v) /\ Behind(sp, x, m, p, j + 1)
  <2>1. ns[x].keys[m] = e <=> x = p /\ m = j
    BY PlacesOrder
  <2>2. Behind(sp, x, m, p, j + 1) <=> Behind(sp, x, m, p, j) \/ (x = p /\ m = j)
    <3>1. m < j + 1 <=> m < j \/ m = j
      BY <1>1
    <3>2. QED
      BY <3>1 DEF Behind
  <2>3. ns[x].keys[m] \in seen => Satisfy(ns[x].keys[m], op, v)
    BY DEF SeenAt
  <2>4. QED
    BY <2>1, <2>2, <2>3, <1>4
<1>7. seen \cup {e} \subseteq LeafKeys(ns)
  BY <1>2 DEF SeenAt
<1>8. SeenAt(ns, sp, p, j + 1, op, v, z)
  <2>1. j + 1 \in Nat \ {0}
    BY <1>1
  <2>2. QED
    BY <2>1, <1>6, <1>7 DEF SeenAt
<1>9. QED
  BY <1>2, <1>5, <1>8 DEF InOrder

LEMMA NextInIs ==
  ASSUME NEW p, Len(nodes[p].keys) \in Nat, NEW i \in Nat \ {0}, NEW op, NEW v,
         NEW j, j = NextIn(p, i, op, v)
  PROVE  /\ j = 0 => NoneBetween(nodes, p, i, Len(nodes[p].keys) + 1, op, v)
         /\ j # 0 => /\ j \in 1 .. Len(nodes[p].keys) /\ i <= j
                     /\ Satisfy(nodes[p].keys[j], op, v) /\ NoneBetween(nodes, p, i, j, op, v)
<1>1. PICK n : n = Len(nodes[p].keys)
  OBVIOUS
<1>2. PICK H : H = {m \in i .. n : Satisfy(nodes[p].keys[m], op, v)}
  OBVIOUS
<1>3. j = IF H = {} THEN 0 ELSE Min(H)
  BY <1>1, <1>2 DEF NextIn
<1>4. n \in Nat /\ H \subseteq Nat
  BY <1>1, <1>2
<1>5. CASE H = {}
  <2>1. j = 0
    BY <1>3, <1>5
  <2>2. \A m \in 1 .. n : i <= m /\ m < n + 1 => ~Satisfy(nodes[p].keys[m], op, v)
    BY <1>2, <1>4, <1>5
  <2>3. QED
    BY <2>1, <2>2, <1>1 DEF NoneBetween
<1>6. CASE H # {}
  <2>1. j \in H /\ \A m \in H : j <= m
    BY <1>3, <1>4, <1>6, MinNat
  <2>2. j \in 1 .. n /\ i <= j /\ j # 0 /\ Satisfy(nodes[p].keys[j], op, v)
    BY <2>1, <1>2, <1>4
  <2>3. \A m \in 1 .. n : i <= m /\ m < j => ~Satisfy(nodes[p].keys[m], op, v)
    <3>1. SUFFICES ASSUME NEW m \in 1 .. n, i <= m, m < j, Satisfy(nodes[p].keys[m], op, v)
                   PROVE  FALSE
      OBVIOUS
    <3>2. m \in H
      BY <3>1, <1>2, <1>4
    <3>3. QED
      BY <3>1, <3>2, <2>1, <2>2, <1>4
  <2>4. QED
    BY <2>2, <2>3, <1>1 DEF NoneBetween
<1>7. QED
  BY <1>5, <1>6

\* The scan leaves a page on which nothing more satisfies for the next one.
LEMMA TurnsPage ==
  ASSUME NEW ns, NEW r, NEW h, NEW sp, NEW rk, Tree(ns, r, h, sp, rk), NEW p \in Leaves(ns),
         NEW i, NEW op, NEW v, NEW seen, SeenAt(ns, sp, p, i, op, v, seen),
         NoneBetween(ns, p, i, Len(ns[p].keys) + 1, op, v), NEW q, q = ns[p].next
  PROVE  SeenAt(ns, sp, q, 1, op, v, seen)
<1>1. /\ seen \subseteq LeafKeys(ns) /\ i \in Nat \ {0}
      /\ \A x \in Leaves(ns) : \A m \in 1 .. Len(ns[x].keys) :
           ns[x].keys[m] \in seen <=> Satisfy(ns[x].keys[m], op, v) /\ Behind(sp, x, m, p, i)
  BY DEF SeenAt
<1>2. NextAt(Leaves(ns), sp, Nexts(ns), rk, p) /\ Nexts(ns)[p] = q
  BY DEF Tree, ChainOK, Nexts
<1>3. ASSUME NEW x \in Leaves(ns), NEW m \in 1 .. Len(ns[x].keys), Satisfy(ns[x].keys[m], op, v)
      PROVE  Behind(sp, x, m, p, i) <=> (q \in Leaves(ns) => Behind(sp, x, m, q, 1))
  <2>1. x = p => m < i
    <3>1. x = p => m < Len(ns[p].keys) + 1 /\ ~(i <= m /\ m < Len(ns[p].keys) + 1)
      BY <1>3, LeafPlaces DEF NoneBetween
    <3>2. QED
      BY <3>1, <1>1
  <2>2. Behind(sp, x, m, p, i) <=> x = p \/ Before(sp[x], sp[p])
    BY <2>1 DEF Behind
  <2>3. CASE q \notin Leaves(ns)
    <3>1. x = p \/ Before(sp[x], sp[p])
      BY <1>2, <2>3 DEF NextAt
    <3>2. QED
      BY <3>1, <2>2, <2>3
  <2>4. CASE q \in Leaves(ns)
    <3>1. q # 0
      BY <2>4 DEF Leaves, Tree, NodesOK, PageIds
    <3>2. /\ q # p /\ Before(sp[p], sp[q])
          /\ \A y \in Leaves(ns) \ {p, q} : Before(sp[y], sp[p]) \/ Before(sp[q], sp[y])
      BY <3>1, <1>2 DEF NextAt
    <3>3. Behind(sp, x, m, q, 1) <=> Before(sp[x], sp[q])
      BY DEF Behind
    <3>4. /\ \A y, z \in Leaves(ns) : Before(sp[y], sp[z]) => ~Before(sp[z], sp[y]) /\ y # z
          /\ \A y, z, u \in Leaves(ns) : Before(sp[y], sp[z]) /\ Before(sp[z], sp[u]) => Before(sp[y], sp[u])
      BY TreeChain, ChainOrder
    <3>5. Before(sp[x], sp[q]) <=> x = p \/ Before(sp[x], sp[p])
      <4>1. CASE x = p
        BY <4>1, <3>2
      <4>2. CASE x = q
        BY <4>2, <2>4, <3>2, <3>4
      <4>3. CASE x \notin {p, q}
        <5>1. Before(sp[x], sp[p]) \/ Before(sp[q], sp[x])
          BY <4>3, <3>2
        <5>2. Before(sp[x], sp[p]) => Before(sp[x], sp[q])
          BY <2>4, <3>2, <3>4
        <5>3. Before(sp[q], sp[x]) => ~Before(sp[x], sp[q])
          BY <2>4, <3>4
        <5>4. QED
          BY <4>3, <5>1, <5>2, <5>3
      <4>4. QED
        BY <4>1, <4>2, <4>3
    <3>6. QED
      BY <2>2, <2>4, <3>3, <3>5
  <2>5. QED
    BY <2>3, <2>4
<1>4. \A x \in Leaves(ns) : \A m \in 1 .. Len(ns[x].keys) :
        ns[x].keys[m] \in seen <=> Satisfy(ns[x].keys[m], op, v) /\ (q \in Leaves(ns) => Behind(sp, x, m, q, 1))
  BY <1>1, <1>3
<1>5. QED
  BY <1>1, <1>4 DEF SeenAt

\* What satisfies one of these comparisons is reached on the leaves.
LEMMA ReachedIs ==
  ASSUME Eps = 1, NEW op \in {"EQUAL_TO", "GREAT_EQUAL", "GREAT_THAN"}, NEW v \in Int,
         NEW k \in Entries, Satisfy(k, op, v)
  PROVE  Reached(k, op, v) /\ ~Lt(k, <<v, -1>>)
<1>1. k[1] \in Int /\ k[2] \in Nat
  BY EntriesAssumption
<1>2. op = "EQUAL_TO" => k[1] = v
  BY <1>1, CompareIs DEF Satisfy
<1>3. op = "GREAT_EQUAL" => k[1] >= v
  BY DEF Satisfy
<1>4. op = "GREAT_THAN" => k[1] > v
  BY DEF Satisfy
<1>5. k[1] >= v /\ (op = "GREAT_THAN" => k[1] > v)
  BY <1>1, <1>2, <1>3, <1>4
<1>6. Reached(k, op, v)
  BY <1>1, <1>5, CompareIs DEF Reached
<1>7. ~Lt(k, <<v, -1>>)
  BY <1>1, <1>5 DEF Lt
<1>8. QED
  BY <1>6, <1>7

\* Nothing that satisfies lies behind the first page and place.
LEMMA StartsAtFirst ==
  ASSUME NEW h, NEW sp, NEW rk, Tree(nodes, root, h, sp, rk), NEW op, NEW v
  PROVE  SeenAt(nodes, sp, FirstPage, 1, op, v, {})
<1>1. FirstPage \in Leaves(nodes) /\ \A x \in Leaves(nodes) \ {FirstPage} : Before(sp[FirstPage], sp[x])
  BY DEF Tree, ChainOK
<1>2. ASSUME NEW x \in Leaves(nodes), NEW m \in 1 .. Len(nodes[x].keys)
      PROVE  ~Behind(sp, x, m, FirstPage, 1)
  <2>1. ~Before(sp[x], sp[FirstPage])
    <3>1. CASE x = FirstPage
      BY <3>1, LeafPlaces
    <3>2. CASE x # FirstPage
      BY <3>2, <1>1, TreeChain, ChainOrder
    <3>3. QED
      BY <3>1, <3>2
  <2>2. QED
    BY <2>1 DEF Behind
<1>3. QED
  BY <1>1, <1>2 DEF SeenAt

\* find_first_index_satisfied goes past nothing that satisfies.
LEMMA StartsAtHit ==
  ASSUME NEW h, NEW sp, NEW rk, Tree(nodes, root, h, sp, rk), Eps = 1,
         NEW op \in {"EQUAL_TO", "GREAT_EQUAL", "GREAT_THAN"}, NEW v \in Int, NEW f, f = FindFirst(op, v)
  PROVE  SeenAt(nodes, sp, f.page, f.idx, op, v, {})
<1>1. PICK k0 : k0 = <<v, -1>>
  OBVIOUS
<1>2. k0 \in K
  BY <1>1 DEF K
<1>3. PICK p : p = FindLeaf(k0)
  OBVIOUS
<1>4. p \in Leaves(nodes) /\ k0 \in sp[p]
  BY <1>2, <1>3, FindLeafIs
<1>5. PICK s : s = Chain(p)
  OBVIOUS
<1>6. WalkOf(nodes, sp, p, s)
  <2>1. SameLeaves(nodes, nodes)
    BY DEF SameLeaves
  <2>2. QED
    BY <2>1, <1>4, <1>5, ChainIs
<1>7. s \in Seq(Leaves(nodes)) /\ \A c, d \in 1 .. Len(s) : c < d => Before(sp[s[c]], sp[s[d]])
  BY <1>6 DEF WalkOf
<1> DEFINE at(n) == {i \in 1 .. Len(nodes[s[n]].keys) : Reached(nodes[s[n]].keys[i], op, v)}
           hits == {n \in 1 .. Len(s) : at(n) # {}}
<1>8. f = IF hits = {}
          THEN [page |-> -1, idx |-> -1, leaks |-> ToSet(Front(s))]
          ELSE [page |-> s[Min(hits)], idx |-> Min(at(Min(hits))),
                leaks |-> ToSet(SubSeq(s, 1, Min(hits) - 1))]
  <2>1. f = FirstOn(s, op, v)
    BY <1>1, <1>3, <1>5, FindFirstOn
  <2>2. QED
    BY <2>1 DEF FirstOn
<1>9. ASSUME NEW x \in Leaves(nodes), NEW j \in 1 .. Len(nodes[x].keys), Satisfy(nodes[x].keys[j], op, v)
      PROVE  \E a \in hits : s[a] = x /\ j \in at(a)
  <2>1. PICK k : k = nodes[x].keys[j]
    OBVIOUS
  <2>2. k \in sp[x] /\ k \in Entries
    BY <2>1, LeafPlaces
  <2>3. Reached(k, op, v) /\ ~Lt(k, k0)
    BY <2>1, <2>2, <1>1, <1>9, ReachedIs
  <2>4. PICK a \in 1 .. Len(s) : s[a] = x
    BY <2>2, <2>3, <1>4, <1>6, OnWalk
  <2>5. j \in at(a)
    BY <2>1, <2>3, <2>4
  <2>6. QED
    BY <2>4, <2>5
<1>10. CASE hits = {}
  <2>1. f.page = -1
    <3>1. PICK L : L = ToSet(Front(s))
      OBVIOUS
    <3>2. f = [page |-> -1, idx |-> -1, leaks |-> L]
      BY <3>1, <1>8, <1>10
    <3>3. QED
      BY <3>2
  <2>2. -1 \notin Leaves(nodes)
    BY DEF Leaves, Tree, NodesOK, PageIds
  <2>3. \A x \in Leaves(nodes) : \A j \in 1 .. Len(nodes[x].keys) : ~Satisfy(nodes[x].keys[j], op, v)
    BY <1>9, <1>10
  <2>4. QED
    BY <2>1, <2>2, <2>3 DEF SeenAt
<1>11. CASE hits # {}
  <2>1. hits \subseteq Nat
    OBVIOUS
  <2>2. PICK b : b = Min(hits)
    OBVIOUS
  <2>3. b \in hits /\ \A a \in hits : b <= a
    BY <2>1, <2>2, <1>11, MinNat
  <2>4. b \in 1 .. Len(s) /\ at(b) # {} /\ at(b) \subseteq Nat
    BY <2>3
  <2>5. PICK i : i = Min(at(b))
    OBVIOUS
  <2>6. i \in at(b) /\ \A c \in at(b) : i <= c
    BY <2>4, <2>5, MinNat
  <2>7. PICK y : y = s[b]
    OBVIOUS
  <2>8. y \in Leaves(nodes) /\ i \in Nat \ {0} /\ b \in Nat
    BY <2>4, <2>6, <2>7, <1>7
  <2>9. f.page = y /\ f.idx = i
    <3>1. f = [page |-> y, idx |-> i, leaks |-> ToSet(SubSeq(s, 1, b - 1))]
      BY <2>2, <2>5, <2>7, <1>8, <1>11
    <3>2. QED
      BY <3>1
  <2>10. ASSUME NEW x \in Leaves(nodes), NEW j \in 1 .. Len(nodes[x].keys), Satisfy(nodes[x].keys[j], op, v)
         PROVE  ~Behind(sp, x, j, y, i)
    <3>1. PICK a \in hits : s[a] = x /\ j \in at(a)
      BY <1>9, <2>10
    <3>2. a \in 1 .. Len(s) /\ b <= a /\ a \in Nat
      BY <3>1, <2>3
    <3>3. CASE b = a
      <4>1. x = y /\ i <= j /\ j \in Nat
        BY <3>1, <3>3, <2>6, <2>7
      <4>2. ~Before(sp[x], sp[y])
        BY <4>1, LeafPlaces
      <4>3. ~(j < i)
        BY <4>1, <2>8
      <4>4. QED
        BY <4>2, <4>3 DEF Behind
    <3>4. CASE b < a
      <4>1. Before(sp[y], sp[x])
        BY <3>1, <3>2, <3>4, <2>4, <2>7, <1>7
      <4>2. ~Before(sp[x], sp[y]) /\ x # y
        BY <4>1, <2>8, TreeChain, ChainOrder
      <4>3. QED
        BY <4>2 DEF Behind
    <3>5. QED
      BY <3>2, <3>3, <3>4, <2>8
  <2>11. SeenAt(nodes, sp, y, i, op, v, {})
    BY <2>8, <2>10 DEF SeenAt
  <2>12. QED
    BY <2>9, <2>11
<1>12. QED
  BY <1>10, <1>11

LEMMA ScanStarts ==
  ASSUME NEW h, NEW sp, NEW rk, Tree(nodes, root, h, sp, rk), Eps = 1,
         NEW op \in ScanOps, NEW v \in Int, NEW f, f = FindFirst(op, v)
  PROVE  SeenAt(nodes, sp, f.page, f.idx, op, v, {})
<1>1. CASE op \in {"LESS_THAN", "LESS_EQUAL", "NOT_EQUAL"}
  <2>1. f = [page |-> FirstLeaf, idx |-> 1, leaks |-> {}]
    BY <1>1 DEF FindFirst
  <2>2. f.page = FirstPage /\ f.idx = 1
    BY <2>1, FirstLeafIs
  <2>3. QED
    BY <2>2, StartsAtFirst
<1>2. CASE op \notin {"LESS_THAN", "LESS_EQUAL", "NOT_EQUAL"}
  <2>1. op \in {"EQUAL_TO", "GREAT_EQUAL", "GREAT_THAN"}
    BY <1>2, ScanOpsAssumption
  <2>2. QED
    BY <2>1, StartsAtHit
<1>3. QED
  BY <1>1, <1>2

\* t is the scanner sc, moved: what changes is named.
MovedScan(sc, t, page, done, idx, next, seen, eof) ==
  /\ t.open = sc.open /\ t.op = sc.op /\ t.val = sc.val /\ t.stable = sc.stable
  /\ t.page = page /\ t.done = done /\ t.idx = idx /\ t.next = next /\ t.seen = seen /\ t.eof = eof
  /\ DOMAIN t = ScanFields

LEMMA SameScan ==
  ASSUME NEW sc, DOMAIN sc = ScanFields
  PROVE  MovedScan(sc, sc, sc.page, sc.done, sc.idx, sc.next, sc.seen, sc.eof)
BY DEF MovedScan

LEMMA MovedPage ==
  ASSUME NEW sc, NEW t, NEW p, NEW d, NEW i, NEW n, NEW z, NEW e, MovedScan(sc, t, p, d, i, n, z, e),
         NEW v, NEW u, u = [t EXCEPT !.page = v]
  PROVE  MovedScan(sc, u, v, d, i, n, z, e)
BY DEF MovedScan, ScanFields

LEMMA MovedDone ==
  ASSUME NEW sc, NEW t, NEW p, NEW d, NEW i, NEW n, NEW z, NEW e, MovedScan(sc, t, p, d, i, n, z, e),
         NEW v, NEW u, u = [t EXCEPT !.done = v]
  PROVE  MovedScan(sc, u, p, v, i, n, z, e)
BY DEF MovedScan, ScanFields

LEMMA MovedIdx ==
  ASSUME NEW sc, NEW t, NEW p, NEW d, NEW i, NEW n, NEW z, NEW e, MovedScan(sc, t, p, d, i, n, z, e),
         NEW v, NEW u, u = [t EXCEPT !.idx = v]
  PROVE  MovedScan(sc, u, p, d, v, n, z, e)
BY DEF MovedScan, ScanFields

LEMMA MovedNext ==
  ASSUME NEW sc, NEW t, NEW p, NEW d, NEW i, NEW n, NEW z, NEW e, MovedScan(sc, t, p, d, i, n, z, e),
         NEW v, NEW u, u = [t EXCEPT !.next = v]
  PROVE  MovedScan(sc, u, p, d, i, v, z, e)
BY DEF MovedScan, ScanFields

LEMMA MovedSeen ==
  ASSUME NEW sc, NEW t, NEW p, NEW d, NEW i, NEW n, NEW z, NEW e, MovedScan(sc, t, p, d, i, n, z, e),
         NEW v, NEW u, u = [t EXCEPT !.seen = v]
  PROVE  MovedScan(sc, u, p, d, i, n, v, e)
BY DEF MovedScan, ScanFields

LEMMA MovedEof ==
  ASSUME NEW sc, NEW t, NEW p, NEW d, NEW i, NEW n, NEW z, NEW e, MovedScan(sc, t, p, d, i, n, z, e),
         NEW v, NEW u, u = [t EXCEPT !.eof = v]
  PROVE  MovedScan(sc, u, p, d, i, n, z, v)
BY DEF MovedScan, ScanFields

LEMMA ReturnedIs ==
  ASSUME NEW p, NEW i, NEW t, t = Returned(p, i), DOMAIN scan = ScanFields
  PROVE  MovedScan(scan, t, p, FALSE, i + 1, scan.next,
                   IF scan.stable THEN scan.seen \cup {EntryAt(p, i)} ELSE {}, scan.eof)
<1>1. PICK z : z = IF scan.stable THEN scan.seen \cup {EntryAt(p, i)} ELSE {}
  OBVIOUS
<1>2. PICK a : a = [scan EXCEPT !.page = p]
  OBVIOUS
<1>3. PICK b : b = [a EXCEPT !.idx = i + 1]
  OBVIOUS
<1>4. PICK c : c = [b EXCEPT !.done = FALSE]
  OBVIOUS
<1>5. PICK u : u = [c EXCEPT !.seen = z]
  OBVIOUS
<1>6. MovedScan(scan, a, p, scan.done, scan.idx, scan.next, scan.seen, scan.eof)
  BY <1>2, SameScan, MovedPage
<1>7. MovedScan(scan, b, p, scan.done, i + 1, scan.next, scan.seen, scan.eof)
  BY <1>3, <1>6, MovedIdx
<1>8. MovedScan(scan, c, p, FALSE, i + 1, scan.next, scan.seen, scan.eof)
  BY <1>4, <1>7, MovedDone
<1>9. MovedScan(scan, u, p, FALSE, i + 1, scan.next, z, scan.eof)
  BY <1>5, <1>8, MovedSeen
<1>10. t = [scan EXCEPT !.page = p, !.idx = i + 1, !.done = FALSE, !.seen = z]
  BY <1>1 DEF Returned
<1>11. t = u
  BY <1>2, <1>3, <1>4, <1>5, <1>10
<1>12. QED
  BY <1>1, <1>9, <1>11

-----------------------------------------------------------------------------
(* The tree implements the index *)

ContentFits == Content = LeafKeys(nodes)

\* Where a scan goes on: on the page it has loaded, or on the one to load
Position(sc) == IF sc.page # 0 /\ ~sc.done THEN sc.page ELSE sc.next

ScanSees(ns, r, sc) ==
  /\ sc.page # 0 => sc.next = ns[sc.page].next
  /\ \A h, sp, rk : Tree(ns, r, h, sp, rk) =>
       SeenAt(ns, sp, Position(sc), sc.idx, sc.op, sc.val, sc.seen)

\* An undisturbed scan has returned exactly what satisfies before its position.
ScanInv ==
  scan.open => /\ scan.stable => ScanSees(nodes, root, scan)
               /\ ~scan.stable => scan.seen = {}

\* The step of the index that a step of the tree is
IndexStep == [Index!Next]_(Index!vars)

LEMMA ImpliesContent ==
  ASSUME IInv
  PROVE  ContentFits
<1>1. PICK ws, r : ws = Whole(nodes, call) /\ r = WholeRoot(nodes, root, call)
  OBVIOUS
<1>2. SameLeaves(nodes, ws) /\ Sound(ws, r)
  BY <1>1, Completed
<1>3. PICK h, sp, rk : Tree(ws, r, h, sp, rk)
  BY <1>2 DEF Sound
<1>4. QED
  BY <1>2, <1>3, ContentIs DEF ContentFits

CursorOf(sc) ==
  IF sc.open THEN [open |-> TRUE, op |-> sc.op, val |-> sc.val,
                   seen |-> sc.seen, stable |-> sc.stable, eof |-> sc.eof]
             ELSE NoScan

LEMMA CursorIs == Cursor = CursorOf(scan) /\ Cursor' = CursorOf(scan')
BY DEF Cursor, CursorOf

CursorFields == {"open", "op", "val", "seen", "stable", "eof"}

IsCursor(c, op, v, seen, stable, eof) ==
  /\ DOMAIN c = CursorFields /\ c = [x \in CursorFields |-> c[x]]
  /\ c.open = TRUE /\ c.op = op /\ c.val = v /\ c.seen = seen /\ c.stable = stable /\ c.eof = eof

LEMMA CursorSet ==
  ASSUME NEW op, NEW v, NEW z, NEW s, NEW f, NEW c, IsCursor(c, op, v, z, s, f), NEW y
  PROVE  /\ \A d : d = [c EXCEPT !.seen = y] => IsCursor(d, op, v, y, s, f)
         /\ \A d : d = [c EXCEPT !.stable = y] => IsCursor(d, op, v, z, y, f)
         /\ \A d : d = [c EXCEPT !.eof = y] => IsCursor(d, op, v, z, s, y)
<1>1. ASSUME NEW d, d = [c EXCEPT !.seen = y] PROVE IsCursor(d, op, v, y, s, f)
  BY <1>1 DEF IsCursor, CursorFields
<1>2. ASSUME NEW d, d = [c EXCEPT !.stable = y] PROVE IsCursor(d, op, v, z, y, f)
  BY <1>2 DEF IsCursor, CursorFields
<1>3. ASSUME NEW d, d = [c EXCEPT !.eof = y] PROVE IsCursor(d, op, v, z, s, y)
  BY <1>3 DEF IsCursor, CursorFields
<1>4. QED
  BY <1>1, <1>2, <1>3

LEMMA CursorEqual ==
  ASSUME NEW op, NEW v, NEW z, NEW s, NEW f, NEW c, NEW d, IsCursor(c, op, v, z, s, f), IsCursor(d, op, v, z, s, f)
  PROVE  c = d
<1>1. \A x \in CursorFields : c[x] = d[x]
  BY DEF IsCursor, CursorFields
<1>2. QED
  BY <1>1 DEF IsCursor

SeenSet(c, y) == [c EXCEPT !.seen = y]
EofSet(c) == [c EXCEPT !.eof = TRUE]
StableReset(c) == [c EXCEPT !.stable = FALSE, !.seen = {}]

LEMMA CursorGains ==
  ASSUME NEW op, NEW v, NEW z, NEW s, NEW f, NEW c, IsCursor(c, op, v, z, s, f),
         NEW y, NEW d, IsCursor(d, op, v, y, s, f)
  PROVE  d = SeenSet(c, y)
<1>1. PICK e : e = [c EXCEPT !.seen = y]
  OBVIOUS
<1>2. IsCursor(e, op, v, y, s, f)
  BY <1>1, CursorSet
<1>3. d = e
  BY <1>2, CursorEqual
<1>4. QED
  BY <1>1, <1>3 DEF SeenSet

LEMMA CursorEnds ==
  ASSUME NEW op, NEW v, NEW z, NEW s, NEW f, NEW c, IsCursor(c, op, v, z, s, f),
         NEW d, IsCursor(d, op, v, z, s, TRUE)
  PROVE  d = EofSet(c)
<1>1. PICK e : e = [c EXCEPT !.eof = TRUE]
  OBVIOUS
<1>2. IsCursor(e, op, v, z, s, TRUE)
  BY <1>1, CursorSet
<1>3. d = e
  BY <1>2, CursorEqual
<1>4. QED
  BY <1>1, <1>3 DEF EofSet

LEMMA CursorResets ==
  ASSUME NEW op, NEW v, NEW z, NEW s, NEW f, NEW c, IsCursor(c, op, v, z, s, f),
         NEW d, IsCursor(d, op, v, {}, FALSE, f)
  PROVE  d = StableReset(c)
<1>1. PICK a, e : a = [c EXCEPT !.stable = FALSE] /\ e = [a EXCEPT !.seen = {}]
  OBVIOUS
<1>2. IsCursor(a, op, v, z, FALSE, f)
  BY <1>1, CursorSet
<1>3. IsCursor(e, op, v, {}, FALSE, f)
  BY <1>1, <1>2, CursorSet
<1>4. d = e
  BY <1>3, CursorEqual
<1>5. QED
  BY <1>1, <1>4 DEF StableReset

LEMMA OpenCursor ==
  ASSUME NEW sc, sc.open
  PROVE  IsCursor(CursorOf(sc), sc.op, sc.val, sc.seen, sc.stable, sc.eof)
<1>1. CursorOf(sc) = [open |-> TRUE, op |-> sc.op, val |-> sc.val,
                      seen |-> sc.seen, stable |-> sc.stable, eof |-> sc.eof]
  BY DEF CursorOf
<1>2. QED
  BY <1>1 DEF IsCursor, CursorFields

\* The keys and the cursor stay as they are.
LEMMA IndexStutters ==
  ASSUME ContentFits, ContentFits', LeafKeys(nodes') = LeafKeys(nodes), CursorOf(scan') = CursorOf(scan)
  PROVE  IndexStep
<1>1. Content' = Content
  BY DEF ContentFits
<1>2. Cursor' = Cursor
  BY CursorIs
<1>3. QED
  BY <1>1, <1>2 DEF IndexStep, Index!vars

LEMMA StepScanOpen ==
  ASSUME IInv, Eps = 1, ContentFits, ContentFits', NEW op \in ScanOps, NEW v \in Attrs, ScanOpen(op, v)
  PROVE  ScanInv' /\ IndexStep
<1>1. call = Idle /\ ~scan.open /\ UNCHANGED <<nodes, root, unique, call>>
  BY DEF ScanOpen
<1>2. PICK f : f = FindFirst(op, v)
  OBVIOUS
<1>3. PICK t : t = scan'
  OBVIOUS
<1>4. t = [open |-> TRUE, op |-> op, val |-> v, page |-> 0, done |-> FALSE,
           next |-> f.page, idx |-> f.idx, seen |-> {}, stable |-> TRUE, eof |-> FALSE]
  BY <1>2, <1>3 DEF ScanOpen
<1>5. /\ t.open = TRUE /\ t.op = op /\ t.val = v /\ t.page = 0 /\ t.next = f.page /\ t.idx = f.idx
      /\ t.seen = {} /\ t.stable = TRUE /\ t.eof = FALSE
  BY <1>4
<1>6. Position(t) = f.page
  BY <1>5 DEF Position
<1>7. \A h, sp, rk : Tree(nodes, root, h, sp, rk) => SeenAt(nodes, sp, f.page, f.idx, op, v, {})
  BY <1>2, AttrsInt, ScanStarts
<1>8. ScanSees(nodes, root, t)
  BY <1>5, <1>6, <1>7 DEF ScanSees
<1>9. ScanInv'
  BY <1>1, <1>3, <1>5, <1>8 DEF ScanInv
<1>10. Cursor = NoScan
  BY <1>1 DEF Cursor
<1>11. Cursor' = [open |-> TRUE, op |-> op, val |-> v, seen |-> {}, stable |-> TRUE, eof |-> FALSE]
  BY <1>3, <1>5 DEF Cursor
<1>12. Content' = Content
  BY <1>1 DEF ContentFits
<1>13. Index!Open
  BY <1>10, <1>11, <1>12 DEF Index!Open, NoScan
<1>14. QED
  BY <1>9, <1>13 DEF IndexStep, Index!Next

LEMMA StepScanClose ==
  ASSUME ContentFits, ContentFits', ScanClose
  PROVE  ScanInv' /\ IndexStep
<1>1. scan.open /\ scan' = NoScan /\ nodes' = nodes
  BY DEF ScanClose
<1>2. ScanInv'
  BY <1>1 DEF ScanInv, NoScan
<1>3. Content' = Content
  BY <1>1 DEF ContentFits
<1>4. Cursor.open /\ Cursor' = NoScan
  BY <1>1 DEF Cursor, NoScan
<1>5. Index!Close
  BY <1>3, <1>4 DEF Index!Close, Index!Closed, NoScan
<1>6. QED
  BY <1>2, <1>5 DEF IndexStep, Index!Next

\* The scan has returned what satisfies before place i of page p.
SeenFrom(p, i) ==
  \A h, sp, rk : Tree(nodes, root, h, sp, rk) => SeenAt(nodes, sp, p, i, scan.op, scan.val, scan.seen)

\* next_entry returns the entry at place j, the first hit from place i on.
LEMMA StepReturns ==
  ASSUME IInv, call = Idle, scan.open, ContentFits, ContentFits', nodes' = nodes, root' = root,
         NEW p, NEW i, scan.stable => p \in Leaves(nodes) /\ SeenFrom(p, i), ~scan.stable => scan.seen = {},
         NEW j, j = NextIn(p, i, scan.op, scan.val), j # 0,
         NEW n, scan.stable => n = nodes[p].next, NEW z,
         z = IF scan.stable THEN scan.seen \cup {EntryAt(p, j)} ELSE {},
         NEW t, t = scan', MovedScan(scan, t, p, FALSE, j + 1, n, z, scan.eof)
  PROVE  ScanInv' /\ IndexStep
<1>1. /\ t.open = scan.open /\ t.op = scan.op /\ t.val = scan.val /\ t.stable = scan.stable
      /\ t.page = p /\ t.done = FALSE /\ t.idx = j + 1 /\ t.next = n /\ t.seen = z /\ t.eof = scan.eof
  BY DEF MovedScan
<1>2. CASE ~scan.stable
  <2>1. z = scan.seen
    BY <1>2
  <2>2. ScanInv'
    BY <1>1, <1>2, <2>1 DEF ScanInv
  <2>3. CursorOf(t) = CursorOf(scan)
    BY <1>1, <2>1 DEF CursorOf
  <2>4. QED
    BY <2>2, <2>3, IndexStutters
<1>3. CASE scan.stable
  <2>1. p \in Leaves(nodes) /\ SeenFrom(p, i) /\ n = nodes[p].next
    BY <1>3
  <2>2. PICK h, sp, rk : Tree(nodes, root, h, sp, rk)
    BY IdleSound DEF Sound
  <2>3. SeenAt(nodes, sp, p, i, scan.op, scan.val, scan.seen)
    BY <2>1, <2>2 DEF SeenFrom
  <2>4. i \in Nat \ {0} /\ Len(nodes[p].keys) \in Nat
    BY <2>1, <2>2, <2>3, LeafPlaces DEF SeenAt
  <2>5. /\ j \in 1 .. Len(nodes[p].keys) /\ i <= j
        /\ Satisfy(nodes[p].keys[j], scan.op, scan.val) /\ NoneBetween(nodes, p, i, j, scan.op, scan.val)
    BY <2>4, NextInIs
  <2>6. PICK e : e = nodes[p].keys[j]
    OBVIOUS
  <2>7. EntryAt(p, j) = e
    <3>1. LeafAt(nodes, h, p)
      BY <2>1, <2>2 DEF Tree, NodeAt, Leaves
    <3>2. nodes[p].ptrs[j] = e[2] /\ e \in K
      BY <3>1, <2>1, <2>2, <2>5, <2>6, LeafPlaces DEF LeafAt
    <3>3. QED
      BY <3>2, <2>6 DEF EntryAt, K
  <2>8. z = scan.seen \cup {e}
    BY <1>3, <2>7
  <2>9. e \in LeafKeys(nodes) /\ InOrder(nodes, scan.op, scan.val, scan.seen, e)
    BY <2>1, <2>2, <2>3, <2>5, <2>6, ReturnsNext
  <2>10. ASSUME NEW hh, NEW sq, NEW rj, Tree(nodes, root, hh, sq, rj)
         PROVE  SeenAt(nodes, sq, p, j + 1, scan.op, scan.val, z)
    <3>1. SeenAt(nodes, sq, p, i, scan.op, scan.val, scan.seen)
      BY <2>1, <2>10 DEF SeenFrom
    <3>2. QED
      BY <3>1, <2>1, <2>5, <2>6, <2>8, <2>10, ReturnsNext
  <2>11. Position(t) = p
    <3>1. p # 0
      BY <2>1, NotANode DEF Leaves
    <3>2. QED
      BY <3>1, <1>1 DEF Position
  <2>12. ScanSees(nodes, root, t)
    BY <1>1, <2>1, <2>10, <2>11 DEF ScanSees
  <2>13. ScanInv'
    BY <1>1, <1>3, <2>12 DEF ScanInv
  <2>14. Content = LeafKeys(nodes) /\ Content' = LeafKeys(nodes)
    BY DEF ContentFits
  <2>15. IsCursor(Cursor, scan.op, scan.val, scan.seen, scan.stable, scan.eof)
    BY CursorIs, OpenCursor
  <2>16. IsCursor(Cursor', scan.op, scan.val, z, scan.stable, scan.eof)
    <3>1. IsCursor(CursorOf(t), t.op, t.val, t.seen, t.stable, t.eof)
      BY <1>1, OpenCursor
    <3>2. QED
      BY <1>1, <3>1, CursorIs
  <2>17. Cursor' = [Cursor EXCEPT !.seen = @ \cup {e}]
    <3>1. Cursor' = SeenSet(Cursor, z)
      BY <2>15, <2>16, CursorGains
    <3>2. Cursor.seen = scan.seen
      BY <2>15 DEF IsCursor
    <3>3. QED
      BY <3>1, <3>2, <2>8 DEF SeenSet
  <2>18. Cursor.open /\ Cursor.stable /\ Cursor.op = scan.op /\ Cursor.val = scan.val /\ Cursor.seen = scan.seen
    BY <1>3, <2>15 DEF IsCursor
  <2>19. \A d : d \in Index!Matching <=> d \in LeafKeys(nodes) /\ Satisfy(d, scan.op, scan.val)
    BY <2>14, <2>18 DEF Index!Matching
  <2>20. e \in Index!Matching
    BY <2>5, <2>6, <2>9, <2>19
  <2>21. \A d \in Index!Matching : (d \in Cursor.seen) <=> Index!Before(d, e)
    BY <2>9, <2>18, <2>19 DEF Index!Before, Lt, InOrder
  <2>22. Index!Return
    BY <2>14, <2>17, <2>18, <2>20, <2>21 DEF Index!Return
  <2>23. QED
    BY <2>13, <2>22 DEF IndexStep, Index!Next
<1>4. QED
  BY <1>2, <1>3

LEMMA StepScanHere ==
  ASSUME IInv, ScanInv, ContentFits, ContentFits', ScanHere
  PROVE  ScanInv' /\ IndexStep
<1>1. call = Idle /\ scan.open /\ nodes' = nodes /\ root' = root
  BY DEF ScanHere
<1>2. OpenScan(nodes, call, scan)
  BY <1>1, ScanIsOpen
<1>3. PICK j : j = NextIn(scan.page, scan.idx, scan.op, scan.val)
  OBVIOUS
<1>4. scan.page # 0 /\ ~scan.done /\ j # 0
  BY <1>3 DEF ScanHere, PageExhausted
<1>5. Position(scan) = scan.page
  BY <1>4 DEF Position
<1>6. scan.stable => scan.next = nodes[scan.page].next /\ SeenFrom(scan.page, scan.idx)
  BY <1>1, <1>4, <1>5 DEF ScanInv, ScanSees, SeenFrom
<1>7. scan.page \in Leaves(nodes) /\ DOMAIN scan = ScanFields
  BY <1>2, <1>4 DEF OpenScan
<1>8. PICK t, z : t = scan' /\ z = IF scan.stable THEN scan.seen \cup {EntryAt(scan.page, j)} ELSE {}
  OBVIOUS
<1>9. t = Returned(scan.page, j)
  BY <1>3, <1>8 DEF ScanHere
<1>10. MovedScan(scan, t, scan.page, FALSE, j + 1, scan.next, z, scan.eof)
  BY <1>7, <1>8, <1>9, ReturnedIs
<1>11. ~scan.stable => scan.seen = {}
  BY <1>1 DEF ScanInv
<1>12. QED
  BY <1>1, <1>3, <1>4, <1>6, <1>7, <1>8, <1>10, <1>11, StepReturns

\* A page on which no place from i on satisfies is left for the next one.
LEMMA SeenTurns ==
  ASSUME IInv, call = Idle, NEW p \in Leaves(nodes), NEW i, SeenFrom(p, i),
         NextIn(p, i, scan.op, scan.val) = 0, NEW q, q = nodes[p].next
  PROVE  SeenFrom(q, 1)
<1>1. SUFFICES ASSUME NEW h, NEW sp, NEW rk, Tree(nodes, root, h, sp, rk)
               PROVE  SeenAt(nodes, sp, q, 1, scan.op, scan.val, scan.seen)
  BY DEF SeenFrom
<1>2. SeenAt(nodes, sp, p, i, scan.op, scan.val, scan.seen)
  BY <1>1 DEF SeenFrom
<1>3. i \in Nat \ {0} /\ Len(nodes[p].keys) \in Nat
  BY <1>1, <1>2, LeafPlaces DEF SeenAt
<1>4. NoneBetween(nodes, p, i, Len(nodes[p].keys) + 1, scan.op, scan.val)
  BY <1>3, NextInIs
<1>5. QED
  BY <1>1, <1>2, <1>4, TurnsPage

\* When the page at hand is exhausted, the scan goes on at the next one.
LEMMA SeenResumes ==
  ASSUME IInv, call = Idle, ScanInv, scan.open, scan.stable, PageExhausted
  PROVE  SeenFrom(scan.next, ResumeAt)
<1>1. OpenScan(nodes, call, scan)
  BY ScanIsOpen
<1>2. /\ scan.page # 0 => scan.next = nodes[scan.page].next
      /\ SeenFrom(Position(scan), scan.idx)
  BY DEF ScanInv, ScanSees, SeenFrom
<1>3. CASE scan.page # 0 /\ ~scan.done
  <2>1. Position(scan) = scan.page /\ ResumeAt = 1
    BY <1>3 DEF Position, ResumeAt
  <2>2. NextIn(scan.page, scan.idx, scan.op, scan.val) = 0
    BY <1>3 DEF PageExhausted
  <2>3. scan.page \in Leaves(nodes)
    BY <1>1, <1>3 DEF OpenScan
  <2>4. SeenFrom(scan.next, 1)
    BY <1>2, <1>3, <2>1, <2>2, <2>3, SeenTurns
  <2>5. QED
    BY <2>1, <2>4
<1>4. CASE ~(scan.page # 0 /\ ~scan.done)
  <2>1. Position(scan) = scan.next /\ ResumeAt = scan.idx
    BY <1>4 DEF Position, ResumeAt
  <2>2. QED
    BY <1>2, <2>1
<1>5. QED
  BY <1>3, <1>4

\* The scanner has moved without returning anything.
LEMMA StepMoves ==
  ASSUME IInv, ScanInv, scan.open, ContentFits, ContentFits', nodes' = nodes, root' = root,
         NEW t, t = scan', NEW p, NEW d, NEW i, NEW n, MovedScan(scan, t, p, d, i, n, scan.seen, scan.eof),
         scan.stable => (p # 0 => n = nodes[p].next) /\ SeenFrom(IF p # 0 /\ ~d THEN p ELSE n, i)
  PROVE  ScanInv' /\ IndexStep
<1>1. /\ t.open = scan.open /\ t.op = scan.op /\ t.val = scan.val /\ t.stable = scan.stable
      /\ t.page = p /\ t.done = d /\ t.idx = i /\ t.next = n /\ t.seen = scan.seen /\ t.eof = scan.eof
  BY DEF MovedScan
<1>2. Position(t) = IF p # 0 /\ ~d THEN p ELSE n
  BY <1>1 DEF Position
<1>3. scan.stable => ScanSees(nodes, root, t)
  BY <1>1, <1>2 DEF ScanSees, SeenFrom
<1>4. ~scan.stable => t.seen = {}
  BY <1>1 DEF ScanInv
<1>5. ScanInv'
  BY <1>1, <1>3, <1>4 DEF ScanInv
<1>6. CursorOf(t) = CursorOf(scan)
  BY <1>1 DEF CursorOf
<1>7. QED
  BY <1>5, <1>6, IndexStutters

LEMMA ScanTurned ==
  ASSUME DOMAIN scan = ScanFields, NEW p, NEW i, NEW d, NEW t,
         t = [scan EXCEPT !.page = p, !.idx = i, !.done = d] \/ t = [scan EXCEPT !.page = p, !.done = d, !.idx = i]
  PROVE  MovedScan(scan, t, p, d, i, scan.next, scan.seen, scan.eof)
<1>1. PICK a : a = [scan EXCEPT !.page = p]
  OBVIOUS
<1>2. MovedScan(scan, a, p, scan.done, scan.idx, scan.next, scan.seen, scan.eof)
  BY <1>1, SameScan, MovedPage
<1>3. PICK b, c : b = [a EXCEPT !.idx = i] /\ c = [a EXCEPT !.done = d]
  OBVIOUS
<1>4. MovedScan(scan, b, p, scan.done, i, scan.next, scan.seen, scan.eof)
  BY <1>2, <1>3, MovedIdx
<1>5. MovedScan(scan, c, p, d, scan.idx, scan.next, scan.seen, scan.eof)
  BY <1>2, <1>3, MovedDone
<1>6. t = [b EXCEPT !.done = d] \/ t = [c EXCEPT !.idx = i]
  BY <1>1, <1>3
<1>7. QED
  BY <1>4, <1>5, <1>6, MovedDone, MovedIdx

LEMMA StepScanOn ==
  ASSUME IInv, ScanInv, ContentFits, ContentFits', ScanOn
  PROVE  ScanInv' /\ IndexStep
<1>1. call = Idle /\ scan.open /\ PageExhausted /\ nodes' = nodes /\ root' = root
  BY DEF ScanOn
<1>2. OpenScan(nodes, call, scan)
  BY <1>1, ScanIsOpen
<1>3. PICK p, i, j : p = scan.next /\ i = ResumeAt /\ j = NextIn(p, i, scan.op, scan.val)
  OBVIOUS
<1>4. p \in Leaves(nodes) /\ DOMAIN scan = ScanFields
  BY <1>2, <1>3 DEF OpenScan, ScanOn
<1>5. scan.stable => SeenFrom(p, i)
  BY <1>1, <1>3, SeenResumes
<1>6. PICK t, n : t = scan' /\ n = nodes[p].next
  OBVIOUS
<1>7. CASE j # 0
  <2>1. PICK a, z : a = Returned(p, j) /\ z = IF scan.stable THEN scan.seen \cup {EntryAt(p, j)} ELSE {}
    OBVIOUS
  <2>2. MovedScan(scan, a, p, FALSE, j + 1, scan.next, z, scan.eof)
    BY <1>4, <2>1, ReturnedIs
  <2>3. t = [a EXCEPT !.next = n]
    BY <1>3, <1>6, <1>7, <2>1 DEF ScanOn
  <2>4. MovedScan(scan, t, p, FALSE, j + 1, n, z, scan.eof)
    BY <2>2, <2>3, MovedNext
  <2>5. ~scan.stable => scan.seen = {}
    BY <1>1 DEF ScanInv
  <2>6. QED
    BY <1>1, <1>3, <1>4, <1>5, <1>6, <1>7, <2>1, <2>4, <2>5, StepReturns
<1>8. CASE j = 0
  <2>1. PICK a : a = [scan EXCEPT !.page = p, !.idx = 1, !.done = TRUE]
    OBVIOUS
  <2>2. MovedScan(scan, a, p, TRUE, 1, scan.next, scan.seen, scan.eof)
    BY <1>4, <2>1, ScanTurned
  <2>3. t = [a EXCEPT !.next = n]
    BY <1>3, <1>6, <1>8, <2>1 DEF ScanOn
  <2>4. MovedScan(scan, t, p, TRUE, 1, n, scan.seen, scan.eof)
    BY <2>2, <2>3, MovedNext
  <2>5. scan.stable => SeenFrom(n, 1)
    BY <1>1, <1>3, <1>4, <1>5, <1>6, <1>8, SeenTurns
  <2>6. (IF p # 0 /\ ~TRUE THEN p ELSE n) = n
    OBVIOUS
  <2>7. QED
    BY <1>1, <1>6, <2>4, <2>5, <2>6, StepMoves
<1>9. QED
  BY <1>7, <1>8

\* A scan whose next page is none has returned all that satisfies.
LEMMA AllSeen ==
  ASSUME IInv, call = Idle, NEW p, NEW i, p \notin Leaves(nodes), SeenFrom(p, i)
  PROVE  \A d : d \in scan.seen <=> d \in LeafKeys(nodes) /\ Satisfy(d, scan.op, scan.val)
<1>1. PICK h, sp, rk : Tree(nodes, root, h, sp, rk)
  BY IdleSound DEF Sound
<1>2. SeenAt(nodes, sp, p, i, scan.op, scan.val, scan.seen)
  BY <1>1 DEF SeenFrom
<1>3. NodesOK(nodes)
  BY DEF IInv
<1>4. scan.seen \subseteq LeafKeys(nodes)
  BY <1>2 DEF SeenAt
<1>5. ASSUME NEW d \in LeafKeys(nodes)
      PROVE  d \in scan.seen <=> Satisfy(d, scan.op, scan.val)
  <2>1. PICK x \in Leaves(nodes) : \E m \in 1 .. Len(nodes[x].keys) : nodes[x].keys[m] = d
    BY <1>3, LeafKeysIs
  <2>2. QED
    BY <2>1, <1>2 DEF SeenAt
<1>6. QED
  BY <1>4, <1>5

LEMMA StepScanEnd ==
  ASSUME IInv, ScanInv, ContentFits, ContentFits', ScanEnd
  PROVE  ScanInv' /\ IndexStep
<1>1. call = Idle /\ scan.open /\ PageExhausted /\ nodes' = nodes /\ root' = root
  BY DEF ScanEnd
<1>2. OpenScan(nodes, call, scan)
  BY <1>1, ScanIsOpen
<1>3. PICK n, i, t : n = scan.next /\ i = ResumeAt /\ t = scan'
  OBVIOUS
<1>4. scan.stable => SeenFrom(n, i)
  BY <1>1, <1>3, SeenResumes
<1>5. PICK a : a = [scan EXCEPT !.page = 0, !.done = FALSE, !.idx = i]
  OBVIOUS
<1>6. MovedScan(scan, a, 0, FALSE, i, n, scan.seen, scan.eof)
  BY <1>2, <1>3, <1>5, ScanTurned DEF OpenScan
<1>7. t = [a EXCEPT !.eof = TRUE]
  BY <1>3, <1>5 DEF ScanEnd
<1>8. MovedScan(scan, t, 0, FALSE, i, n, scan.seen, TRUE)
  BY <1>6, <1>7, MovedEof
<1>9. /\ t.open = scan.open /\ t.op = scan.op /\ t.val = scan.val /\ t.stable = scan.stable
      /\ t.page = 0 /\ t.idx = i /\ t.next = n /\ t.seen = scan.seen /\ t.eof = TRUE
  BY <1>8 DEF MovedScan
<1>10. Position(t) = n
  BY <1>9 DEF Position
<1>11. ScanInv'
  <2>1. scan.stable => ScanSees(nodes, root, t)
    BY <1>4, <1>9, <1>10 DEF ScanSees, SeenFrom
  <2>2. ~scan.stable => t.seen = {}
    BY <1>1, <1>9 DEF ScanInv
  <2>3. QED
    BY <2>1, <2>2, <1>1, <1>3, <1>9 DEF ScanInv
<1>12. n \notin Leaves(nodes)
  <2>1. n <= 0
    BY <1>3 DEF ScanEnd
  <2>2. DOMAIN nodes \subseteq Pages
    BY DEF IInv, Shapes
  <2>3. QED
    BY <2>1, <2>2 DEF Leaves, Pages
<1>13. IsCursor(Cursor, scan.op, scan.val, scan.seen, scan.stable, scan.eof)
  BY <1>1, CursorIs, OpenCursor
<1>14. IsCursor(Cursor', scan.op, scan.val, scan.seen, scan.stable, TRUE)
  <2>1. IsCursor(CursorOf(t), t.op, t.val, t.seen, t.stable, t.eof)
    BY <1>1, <1>9, OpenCursor
  <2>2. QED
    BY <2>1, <1>3, <1>9, CursorIs
<1>15. Cursor' = [Cursor EXCEPT !.eof = TRUE]
  BY <1>13, <1>14, CursorEnds DEF EofSet
<1>16. /\ Cursor.open /\ Cursor.op = scan.op /\ Cursor.val = scan.val /\ Cursor.seen = scan.seen
       /\ Cursor.stable = scan.stable
  BY <1>13 DEF IsCursor
<1>17. Content = LeafKeys(nodes) /\ Content' = LeafKeys(nodes)
  BY <1>1 DEF ContentFits
<1>18. Cursor.stable => Cursor.seen = Index!Matching
  <2>1. SUFFICES ASSUME scan.stable PROVE scan.seen = Index!Matching
    BY <1>16
  <2>2. \A d : d \in Index!Matching <=> d \in LeafKeys(nodes) /\ Satisfy(d, scan.op, scan.val)
    BY <1>16, <1>17 DEF Index!Matching
  <2>3. \A d : d \in scan.seen <=> d \in LeafKeys(nodes) /\ Satisfy(d, scan.op, scan.val)
    BY <2>1, <1>1, <1>4, <1>12, AllSeen
  <2>4. \A d : d \in scan.seen <=> d \in Index!Matching
    BY <2>2, <2>3
  <2>5. PICK A, B : A = scan.seen /\ B = Index!Matching
    OBVIOUS
  <2>6. A = B
    BY <2>4, <2>5
  <2>7. QED
    BY <2>5, <2>6
<1>19. Index!ReportEnd
  BY <1>15, <1>16, <1>17, <1>18 DEF Index!ReportEnd
<1>20. QED
  BY <1>11, <1>19 DEF IndexStep, Index!Next

LEMMA StepScanLost ==
  ASSUME IInv, ScanInv, ContentFits, ContentFits', ScanLost
  PROVE  ScanInv' /\ IndexStep
<1>1. call = Idle /\ scan.open /\ nodes' = nodes /\ root' = root
  BY DEF ScanLost
<1>2. OpenScan(nodes, call, scan)
  BY <1>1, ScanIsOpen
<1>3. PICK t, i : t = scan' /\ i = ResumeAt
  OBVIOUS
<1>4. t = [scan EXCEPT !.page = 0, !.done = FALSE, !.idx = i]
  BY <1>3 DEF ScanLost
<1>5. MovedScan(scan, t, 0, FALSE, i, scan.next, scan.seen, scan.eof)
  BY <1>2, <1>4, ScanTurned DEF OpenScan
<1>6. ~scan.stable
  BY <1>2 DEF ScanLost, OpenScan, Leaves
<1>7. QED
  BY <1>1, <1>3, <1>5, <1>6, StepMoves

-----------------------------------------------------------------------------
(* Steps that leave the entries and the scanner alone *)

LEMMA StepKeeps ==
  ASSUME ScanInv, ContentFits, ContentFits', scan' = scan, LeafKeys(nodes') = LeafKeys(nodes),
         scan.open /\ scan.stable => nodes' = nodes /\ root' = root
  PROVE  ScanInv' /\ IndexStep
<1>1. ScanInv'
  BY DEF ScanInv
<1>2. QED
  BY <1>1, IndexStutters

\* An operation on the pages is under way: no scan is undisturbed.
LEMMA StepWithin ==
  ASSUME IInv, call # Idle, ScanInv, ContentFits, ContentFits', scan' = scan, LeafKeys(nodes') = LeafKeys(nodes)
  PROVE  ScanInv' /\ IndexStep
<1>1. ~(scan.open /\ scan.stable)
  BY ScanIsOpen DEF OpenScan
<1>2. QED
  BY <1>1, StepKeeps

LEMMA StepRefuse ==
  ASSUME ScanInv, ContentFits, ContentFits', NEW e,
         RefuseDuplicate(e) \/ RefuseExisting(e) \/ InsertLost(e) \/ DeleteMissing(e)
  PROVE  ScanInv' /\ IndexStep
<1>1. UNCHANGED <<nodes, root, scan>>
  BY DEF RefuseDuplicate, RefuseExisting, InsertLost, DeleteMissing
<1>2. QED
  BY <1>1, StepKeeps

LEMMA StepReopen ==
  ASSUME ScanInv, ContentFits, ContentFits', Reopen
  PROVE  ScanInv' /\ IndexStep
<1>1. UNCHANGED <<nodes, scan>> /\ ~scan.open
  BY DEF Reopen
<1>2. QED
  BY <1>1, StepKeeps

-----------------------------------------------------------------------------
(* Steps that change the entries *)

LEMMA DisturbedIs ==
  ASSUME DOMAIN scan = ScanFields, scan.open, NEW t, t = Disturbed
  PROVE  /\ t.open = scan.open /\ t.op = scan.op /\ t.val = scan.val /\ t.eof = scan.eof
         /\ t.stable = FALSE /\ t.seen = {}
<1>1. PICK a : a = [scan EXCEPT !.stable = FALSE]
  OBVIOUS
<1>2. /\ DOMAIN a = ScanFields /\ a.open = scan.open /\ a.op = scan.op /\ a.val = scan.val
      /\ a.eof = scan.eof /\ a.stable = FALSE
  BY <1>1 DEF ScanFields
<1>3. t = [a EXCEPT !.seen = {}]
  BY <1>1 DEF Disturbed
<1>4. QED
  BY <1>2, <1>3 DEF ScanFields

\* The cursor's promise ends, as the index says.
LEMMA CursorTouched ==
  ASSUME IInv, scan' = Disturbed
  PROVE  ScanInv' /\ Cursor' = Index!Touched
<1>1. CASE ~scan.open
  <2>1. scan' = scan
    BY <1>1 DEF Disturbed
  <2>2. Cursor = NoScan /\ Cursor' = NoScan
    BY <1>1, <2>1 DEF Cursor
  <2>3. ScanInv'
    BY <1>1, <2>1 DEF ScanInv
  <2>4. ~Cursor.open
    BY <2>2 DEF NoScan
  <2>5. QED
    BY <2>2, <2>3, <2>4 DEF Index!Touched
<1>2. CASE scan.open
  <2>1. DOMAIN scan = ScanFields
    BY <1>2, ScanIsOpen DEF OpenScan
  <2>2. PICK t : t = scan'
    OBVIOUS
  <2>3. /\ t.open = scan.open /\ t.op = scan.op /\ t.val = scan.val /\ t.eof = scan.eof
        /\ t.stable = FALSE /\ t.seen = {}
    BY <2>1, <2>2, <1>2, DisturbedIs
  <2>4. ScanInv'
    BY <2>2, <2>3 DEF ScanInv
  <2>5. IsCursor(Cursor, scan.op, scan.val, scan.seen, scan.stable, scan.eof)
    BY <1>2, CursorIs, OpenCursor
  <2>6. IsCursor(Cursor', scan.op, scan.val, {}, FALSE, scan.eof)
    <3>1. IsCursor(CursorOf(t), t.op, t.val, t.seen, t.stable, t.eof)
      BY <1>2, <2>3, OpenCursor
    <3>2. QED
      BY <3>1, <2>2, <2>3, CursorIs
  <2>7. Cursor' = [Cursor EXCEPT !.stable = FALSE, !.seen = {}]
    BY <2>5, <2>6, CursorResets DEF StableReset
  <2>8. Cursor.open
    BY <2>5 DEF IsCursor
  <2>9. QED
    BY <2>4, <2>7, <2>8 DEF Index!Touched
<1>3. QED
  BY <1>1, <1>2

LEMMA StepChange ==
  ASSUME IInv, ContentFits, ContentFits', scan' = Disturbed, NEW e \in Entries,
         (e \notin LeafKeys(nodes) /\ GainsKey(nodes, nodes', e)) \/ LosesKey(nodes, nodes', e)
  PROVE  ScanInv' /\ IndexStep
<1>1. ScanInv' /\ Cursor' = Index!Touched
  BY CursorTouched
<1>2. PICK A, B : A = LeafKeys(nodes) /\ B = LeafKeys(nodes')
  OBVIOUS
<1>3. Content = A /\ Content' = B
  BY <1>2 DEF ContentFits
<1>4. \/ e \notin A /\ B = A \cup {e}
      \/ e \in A /\ B = A \ {e}
  BY <1>2 DEF GainsKey, LosesKey
<1>5. Index!Change
  BY <1>1, <1>3, <1>4 DEF Index!Change
<1>6. QED
  BY <1>1, <1>5 DEF IndexStep, Index!Next

LEMMA StepInsert ==
  ASSUME IInv, Eps = 1, ContentFits, ContentFits', NEW e \in Entries,
         InsertIntoLeaf(e) \/ (~Holds(FindLeaf(e), e) /\ InsertIntoLeafAfterSplit(e))
  PROVE  ScanInv' /\ IndexStep
<1>1. call = Idle /\ ~Lookup(e[1]).found /\ ~Holds(FindLeaf(e), e) /\ scan' = Disturbed
  BY DEF InsertIntoLeaf, InsertIntoLeafAfterSplit, MayChange
<1>2. e \notin LeafKeys(nodes)
  BY <1>1, InsertIsReady DEF InsertReady
<1>3. GainsKey(nodes, nodes', e)
  BY InvInsertIntoLeaf, InvInsertIntoLeafAfterSplit
<1>4. QED
  BY <1>1, <1>2, <1>3, StepChange

LEMMA StepDelete ==
  ASSUME IInv, Eps = 1, ContentFits, ContentFits', NEW e \in Entries, DeleteEntry(e)
  PROVE  ScanInv' /\ IndexStep
<1>1. scan' = Disturbed
  BY DEF DeleteEntry
<1>2. LosesKey(nodes, nodes', e)
  BY InvDeleteEntry
<1>3. QED
  BY <1>1, <1>2, StepChange

\* The steps of an operation after its first leave the entries alone.
LEMMA StepRepair ==
  ASSUME IInv, Eps = 1, ScanInv, ContentFits, ContentFits',
         \/ InsertIntoNewRoot \/ InsertInternNode \/ InsertInternNodeAfterSplit
         \/ DeleteFromParent \/ CoalesceNode \/ BorrowFromRightLeaf
  PROVE  ScanInv' /\ IndexStep
<1>1. scan' = scan
  BY DEF InsertIntoNewRoot, InsertInternNode, InsertInternNodeAfterSplit,
         DeleteFromParent, CoalesceNode, BorrowFromRightLeaf
<1>2. call.fn \in {"insert_into_parent", "delete_entry_internal", "coalesce_node", "redistribute_nodes"}
  BY DEF InsertIntoNewRoot, InsertInternNode, InsertInternNodeAfterSplit,
         DeleteFromParent, CoalesceNode, BorrowFromRightLeaf, Redistributing, Pending
<1>3. call # Idle
  BY <1>2 DEF Idle
<1>4. LeafKeys(nodes') = LeafKeys(nodes)
  BY InvInsertIntoNewRoot, InvInsertInternNode, InvInsertInternNodeAfterSplit,
     InvDeleteFromParent, InvCoalesceNode, InvBorrowFromRightLeaf
<1>5. QED
  BY <1>1, <1>3, <1>4, StepWithin

LEMMA InitIndex ==
  ASSUME Init
  PROVE  ScanInv /\ Index!Init
<1>1. LeafKeys(nodes) = {}
  BY FirstTree DEF Init
<1>2. Content = {}
  BY <1>1, InitInv, ImpliesContent DEF ContentFits
<1>3. scan = NoScan /\ ~scan.open
  BY DEF Init, NoScan
<1>4. Cursor = NoScan
  BY <1>3 DEF Cursor
<1>5. QED
  BY <1>2, <1>3, <1>4 DEF ScanInv, Index!Init, Index!Closed, NoScan

\* Every step of the tree is a step of the index or none.
LEMMA NextIndex ==
  ASSUME Eps = 1, IInv, IInv', ScanInv, [Next]_vars
  PROVE  ScanInv' /\ IndexStep
<1>1. ContentFits
  BY ImpliesContent
<1>2. ContentFits'
  BY ImpliesContent, PTL
<1>3. CASE Scanning
  <2>1. CASE \E op \in ScanOps, v \in Attrs : ScanOpen(op, v)
    BY <2>1, <1>1, <1>2, StepScanOpen
  <2>2. CASE ScanHere
    BY <2>2, <1>1, <1>2, StepScanHere
  <2>3. CASE ScanOn
    BY <2>3, <1>1, <1>2, StepScanOn
  <2>4. CASE ScanEnd
    BY <2>4, <1>1, <1>2, StepScanEnd
  <2>5. CASE ScanLost
    BY <2>5, <1>1, <1>2, StepScanLost
  <2>6. CASE ScanClose
    BY <2>6, <1>1, <1>2, StepScanClose
  <2>7. QED
    BY <1>3, <2>1, <2>2, <2>3, <2>4, <2>5, <2>6 DEF Scanning
<1>4. CASE Insertion
  <2>1. ASSUME NEW e \in Entries, RefuseDuplicate(e) \/ RefuseExisting(e) \/ InsertLost(e)
        PROVE  ScanInv' /\ IndexStep
    BY <2>1, <1>1, <1>2, StepRefuse
  <2>2. ASSUME NEW e \in Entries,
               InsertIntoLeaf(e) \/ (~Holds(FindLeaf(e), e) /\ InsertIntoLeafAfterSplit(e))
        PROVE  ScanInv' /\ IndexStep
    BY <2>2, <1>1, <1>2, StepInsert
  <2>3. CASE InsertIntoNewRoot \/ InsertInternNode \/ InsertInternNodeAfterSplit
    BY <2>3, <1>1, <1>2, StepRepair
  <2>4. QED
    BY <1>4, <2>1, <2>2, <2>3 DEF Insertion
<1>5. CASE Deletion
  <2>1. ASSUME NEW e \in Entries, DeleteEntry(e) PROVE ScanInv' /\ IndexStep
    BY <2>1, <1>1, <1>2, StepDelete
  <2>2. ASSUME NEW e \in Entries, DeleteMissing(e) PROVE ScanInv' /\ IndexStep
    BY <2>2, <1>1, <1>2, StepRefuse
  <2>3. CASE DeleteFromParent \/ CoalesceNode \/ BorrowFromRightLeaf
    BY <2>3, <1>1, <1>2, StepRepair
  <2>4. QED
    BY <1>5, <2>1, <2>2, <2>3 DEF Deletion
<1>6. CASE root = FirstPage /\ Reopen
  BY <1>6, <1>1, <1>2, StepReopen
<1>7. CASE UNCHANGED vars
  <2>1. nodes' = nodes /\ root' = root /\ scan' = scan
    BY <1>7 DEF vars
  <2>2. QED
    BY <2>1, <1>1, <1>2, StepKeeps
<1>8. QED
  BY <1>3, <1>4, <1>5, <1>6, <1>7 DEF Next

\* The B+ tree is an index as IndexSet describes it: whatever splits, merges and
\* borrowing the handler goes through, the leaves hold a set of entries that
\* changes by one entry, at most once per insert_entry or delete_entry; and a
\* scanner under which nothing changed returns the entries that satisfy its
\* comparison in ascending order, none twice, and says RECORD_EOF only after all
\* of them. Spec leaves out the steps in Lossy: a full leaf that takes an entry
\* it has (insert_into_leaf_after_split), a merge, a split or a borrowing that
\* goes wrong, and a restart that forgets the root.
THEOREM TreeImplementsIndex ==
  ASSUME Eps = 1
  PROVE  Spec => ImplementsIndex
<1>1. IInv /\ IInv' /\ ScanInv /\ [Next]_vars => ScanInv' /\ [Index!Next]_(Index!vars)
  BY NextIndex DEF IndexStep
<1>2. Init => ScanInv /\ Index!Init
  BY InitIndex
<1>3. Spec => []IInv
  BY AlwaysInv
<1>4. Spec => Index!Init /\ [][Index!Next]_(Index!vars)
  BY <1>1, <1>2, <1>3, PTL DEF Spec
<1>5. QED
  BY <1>4, PTL DEF ImplementsIndex, Index!Spec
=============================================================================
