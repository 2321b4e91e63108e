----------------------------- MODULE BplusTree -----------------------------
(***************************************************************************)
(* The B+ tree of an index: BplusTreeHandler, BplusTreeScanner and the     *)
(* BplusTreeIndex around them.                                             *)
(*                                                                         *)
(* Each function of the handler that changes pages is one action. A        *)
(* function calls the next one as its last act, so `call' is the call that *)
(* is still to be made. A key is a field value and a record id; a leaf     *)
(* also keeps the record ids in an array of their own, `ptrs', which for   *)
(* an inner node holds the children. The last place of a leaf's array is   *)
(* the next leaf; that place is never used for a record id and is `next'   *)
(* here. The pages themselves are kept by the page cache.                  *)
(***************************************************************************)
EXTENDS Integers, Sequences, FiniteSets, SequencesExt, FiniteSetsExt

CONSTANTS Entries,   \* the entries, <<field value, record id>>, that may exist
          Order,     \* file_header_.order: a node has at most Order - 1 keys
          MaxPage,   \* bound on the pages of the file
          Eps,       \* values closer than this are equal (1 for exact values)
          ScanOps,   \* the comparisons that scans use
          AllocFails,\* may allocate_page fail?
          Damages,   \* which of the steps that damage the tree FullSpec has
          MaxLeaks   \* bound on the pages that leaked pins hold

ASSUME EntriesAssumption == Entries \subseteq Int \X (Nat \ {0})
ASSUME OrderAssumption == Order \in Nat /\ Order >= 3
ASSUME MaxPageAssumption == MaxPage \in Nat \ {0}
ASSUME EpsAssumption == Eps \in Nat \ {0}
ASSUME ScanOpsAssumption ==
  ScanOps \subseteq {"EQUAL_TO", "LESS_EQUAL", "NOT_EQUAL", "LESS_THAN", "GREAT_EQUAL", "GREAT_THAN"}
ASSUME MaxLeaksAssumption == MaxLeaks \in Nat
ASSUME AllocAssumption == AllocFails \in BOOLEAN

VARIABLES nodes,     \* the allocated pages and the node on each
          root,      \* file_header_.root_page of the handler
          unique,    \* unique_ of BplusTreeIndex
          call,      \* the pending call of an insertion or a deletion
          leaked,    \* pages that stay pinned although nobody uses them
          scan       \* the open scanner, with what it returned so far,
                     \* forgotten when the entries change under it

vars == <<nodes, root, unique, call, leaked, scan>>

Attrs == {e[1] : e \in Entries}
Rids == {e[2] : e \in Entries}
Pages == 1 .. MaxPage
FirstPage == 1       \* holds the file header and the first leaf

Idle == [fn |-> "idle"]
NoScan == [open |-> FALSE]

----------------------------------------------------------------------------
(* Comparison *)

\* float_compare, and for Eps = 1 the exact comparison of the other types
CompareKey(a, b) == IF a - b < Eps /\ b - a < Eps THEN 0
                    ELSE IF a > b THEN 1 ELSE -1

CmpRid(r, s) == IF r > s THEN 1 ELSE IF r < s THEN -1 ELSE 0

CmpKey(j, k) == LET c == CompareKey(j[1], k[1])
                IN  IF c # 0 THEN c ELSE CmpRid(j[2], k[2])

\* EQUAL_TO and NOT_EQUAL use the tolerance, the others do not.
Satisfy(e, op, v) ==
  CASE op = "EQUAL_TO"    -> CompareKey(e[1], v) = 0
    [] op = "NOT_EQUAL"   -> CompareKey(e[1], v) # 0
    [] op = "LESS_THAN"   -> e[1] < v
    [] op = "LESS_EQUAL"  -> e[1] <= v
    [] op = "GREAT_THAN"  -> e[1] > v
    [] op = "GREAT_EQUAL" -> e[1] >= v

----------------------------------------------------------------------------
(* Nodes *)

Leaf(parent, keys, ptrs, next) ==
  [leaf |-> TRUE, parent |-> parent, keys |-> keys, ptrs |-> ptrs, next |-> next]
Inner(parent, keys, ptrs) ==
  [leaf |-> FALSE, parent |-> parent, keys |-> keys, ptrs |-> ptrs, next |-> 0]

\* Pages whose pin is not given back. MaxLeaks bounds them.
Leak(pages) ==
  /\ Cardinality(leaked \cup pages) <= MaxLeaks
  /\ leaked' = leaked \cup pages

\* allocate_page: the first page that is not in use. MaxPage bounds the file.
CanAllocate == ~(Pages \subseteq DOMAIN nodes)
FreshPage(ns) == Min(Pages \ DOMAIN ns)

Put(ns, p, node) == [q \in DOMAIN ns \cup {p} |-> IF q = p THEN node ELSE ns[q]]

\* dispose_page refuses a page that is pinned.
Pinned == leaked \cup (IF scan.open THEN {scan.page} \ {0} ELSE {})
Dispose(ns, p) == IF p \in Pinned THEN ns ELSE [q \in DOMAIN ns \ {p} |-> ns[q]]

Adopt(ns, children, p) ==
  [q \in DOMAIN ns |-> IF q \in children THEN [ns[q] EXCEPT !.parent = p] ELSE ns[q]]

\* The first place whose key is greater, where a key is inserted or followed.
PlaceOf(keys, k) ==
  Min({i \in 1 .. Len(keys) : CmpKey(k, keys[i]) < 0} \cup {Len(keys) + 1})

\* Mutant: descends to the left of an equal separator.
FindLeafLeft(k) ==
  LET down[p \in DOMAIN nodes] ==
        IF nodes[p].leaf THEN p
        ELSE down[nodes[p].ptrs[Min({i \in 1 .. Len(nodes[p].keys) :
                                       CmpKey(k, nodes[p].keys[i]) <= 0}
                                    \cup {Len(nodes[p].keys) + 1})]]
  IN  down[root]

FindLeaf(k) ==
  LET down[p \in DOMAIN nodes] ==
        IF nodes[p].leaf THEN p
        ELSE down[nodes[p].ptrs[PlaceOf(nodes[p].keys, k)]]
  IN  down[root]

FirstLeaf ==
  LET down[p \in DOMAIN nodes] ==
        IF nodes[p].leaf THEN p ELSE down[nodes[p].ptrs[1]]
  IN  down[root]

\* The leaves from page p on, as a scan walks them.
Chain(p) ==
  LET from[q \in DOMAIN nodes] ==
        <<q>> \o IF nodes[q].next \in DOMAIN nodes THEN from[nodes[q].next] ELSE <<>>
  IN  from[p]

EntryAt(p, i) == <<nodes[p].keys[i][1], nodes[p].ptrs[i]>>

\* What the leaves hold: the values and the record ids a scan returns.
Content == UNION {{EntryAt(p, i) : i \in 1 .. Len(nodes[p].keys)} : p \in ToSet(Chain(FirstPage))}

MinKeys(node) == IF node.leaf THEN Order \div 2 ELSE ((Order + 1) \div 2) - 1

----------------------------------------------------------------------------
(* Creating and opening *)

Init ==
  /\ nodes = [p \in {FirstPage} |-> Leaf(-1, <<>>, <<>>, 0)]
  /\ root = FirstPage
  /\ unique \in BOOLEAN
  /\ call = Idle
  /\ leaked = {}
  /\ scan = NoScan

\* close flushes the pages and gives up all frames, leaked pins included. The
\* header on the first page still has the root page that create wrote, and
\* Table::open makes an index that is not unique.
Reopen ==
  /\ call = Idle /\ ~scan.open
  /\ root' = FirstPage
  /\ unique' = FALSE
  /\ leaked' = {}
  /\ UNCHANGED <<nodes, call, scan>>

----------------------------------------------------------------------------
(* Scanning *)

\* The first place at or after i of page p whose entry satisfies, or 0.
NextIn(p, i, op, v) ==
  LET hits == {j \in i .. Len(nodes[p].keys) : Satisfy(nodes[p].keys[j], op, v)}
  IN  IF hits = {} THEN 0 ELSE Min(hits)

\* The condition that find_first_index_satisfied looks for on a leaf
Reached(e, op, v) == IF op = "GREAT_THAN" THEN CompareKey(e[1], v) > 0
                                          ELSE CompareKey(e[1], v) >= 0

\* find_first_index_satisfied: page and place to start at, and the pages it
\* leaves pinned because it keeps one page handle for the whole walk.
FindFirst(op, v) ==
  IF op \in {"LESS_THAN", "LESS_EQUAL", "NOT_EQUAL"}
  THEN [page |-> FirstLeaf, idx |-> 1, leaks |-> {}]
  ELSE LET walk == Chain(FindLeaf(<<v, -1>>))
           at(n) == {i \in 1 .. Len(nodes[walk[n]].keys) :
                       Reached(nodes[walk[n]].keys[i], op, v)}
           hits == {n \in 1 .. Len(walk) : at(n) # {}}
       IN  IF hits = {}
           THEN [page |-> -1, idx |-> -1, leaks |-> ToSet(Front(walk))]
           ELSE [page |-> walk[Min(hits)], idx |-> Min(at(Min(hits))),
                 leaks |-> ToSet(SubSeq(walk, 1, Min(hits) - 1))]

ScanOpen(op, v) ==
  /\ call = Idle /\ ~scan.open
  /\ LET first == FindFirst(op, v)
     IN  /\ scan' = [open |-> TRUE, op |-> op, val |-> v, page |-> 0, done |-> FALSE,
                     next |-> first.page, idx |-> first.idx,
                     seen |-> {}, stable |-> TRUE, eof |-> FALSE]
         /\ Leak(first.leaks)
  /\ UNCHANGED <<nodes, root, unique, call>>

\* The page at hand has nothing more, or there is none: find_idx_pages
PageExhausted ==
  (scan.page # 0 /\ ~scan.done) => NextIn(scan.page, scan.idx, scan.op, scan.val) = 0

\* The place to go on from on the page that find_idx_pages loads
ResumeAt == IF scan.page # 0 /\ ~scan.done THEN 1 ELSE scan.idx

Returned(p, i) == [scan EXCEPT !.page = p, !.idx = i + 1, !.done = FALSE,
                               !.seen = IF scan.stable THEN @ \cup {EntryAt(p, i)} ELSE {}]

\* next_entry, from the page that is loaded
ScanHere ==
  /\ call = Idle /\ scan.open /\ ~PageExhausted
  /\ scan' = Returned(scan.page, NextIn(scan.page, scan.idx, scan.op, scan.val))
  /\ UNCHANGED <<nodes, root, unique, call, leaked>>

\* next_entry, when the next page has to be loaded. RECORD_NO_MORE_IDX_IN_MEM
\* is returned if it holds nothing that satisfies; the caller calls again.
ScanOn ==
  /\ call = Idle /\ scan.open /\ PageExhausted
  /\ scan.next > 0 /\ scan.next \in DOMAIN nodes
  /\ LET p == scan.next
         i == NextIn(p, ResumeAt, scan.op, scan.val)
         s == IF i # 0 THEN Returned(p, i)
              ELSE [scan EXCEPT !.page = p, !.idx = 1, !.done = TRUE]
     IN  scan' = [s EXCEPT !.next = nodes[p].next]
  /\ UNCHANGED <<nodes, root, unique, call, leaked>>

\* next_entry returns RECORD_EOF
ScanEnd ==
  /\ call = Idle /\ scan.open /\ PageExhausted /\ ~scan.eof
  /\ scan.next <= 0
  /\ scan' = [scan EXCEPT !.page = 0, !.done = FALSE, !.idx = ResumeAt, !.eof = TRUE]
  /\ UNCHANGED <<nodes, root, unique, call, leaked>>

\* Closing a scanner does not unpin the page it has loaded.
ScanClose ==
  /\ call = Idle /\ scan.open
  /\ scan' = NoScan
  /\ Leak({scan.page} \ {0})
  /\ UNCHANGED <<nodes, root, unique, call>>

\* A change of the entries under the scanner; one such change is enough
\* to explore (a bound).
MayChange == call = Idle /\ (scan.open => scan.stable)

Disturbed == IF scan.open THEN [scan EXCEPT !.stable = FALSE, !.seen = {}] ELSE scan

\* next_entry fails: the page it is to load was disposed of meanwhile.
ScanLost ==
  /\ call = Idle /\ scan.open /\ PageExhausted
  /\ scan.next > 0 /\ scan.next \notin DOMAIN nodes
  /\ scan' = [scan EXCEPT !.page = 0, !.done = FALSE, !.idx = ResumeAt]
  /\ UNCHANGED <<nodes, root, unique, call, leaked>>

----------------------------------------------------------------------------
(* Insertion *)

\* BplusTreeIndex::insert_entry looks for the value with a scanner of its
\* own when the index is unique, and leaves its page pinned.

\* Mutant: only looks at the leaf that find_leaf leads to.
LookupOneLeaf(v) ==
  LET p == FindLeaf(<<v, -1>>)
  IN  IF ~unique THEN [found |-> FALSE, leaks |-> {}]
      ELSE [found |-> NextIn(p, 1, "EQUAL_TO", v) # 0, leaks |-> {p}]

Lookup(v) ==
  LET first == FindFirst("EQUAL_TO", v)
  IN  IF ~unique THEN [found |-> FALSE, leaks |-> {}]
      ELSE IF first.page = -1 THEN [found |-> FALSE, leaks |-> first.leaks]
      ELSE [found |-> NextIn(first.page, first.idx, "EQUAL_TO", v) # 0,
            leaks |-> first.leaks \cup {first.page}]

RefuseDuplicate(e) ==
  /\ MayChange /\ Lookup(e[1]).found
  /\ Leak(Lookup(e[1]).leaks)
  /\ UNCHANGED <<nodes, root, unique, call, scan>>

\* Mutant: a node takes one key too many before it is split.
HasRoomForOneMore(p) == Len(nodes[p].keys) < Order

HasRoom(p) == Len(nodes[p].keys) < Order - 1

\* insert_into_leaf meets the entry itself before it meets a greater key.
Holds(p, e) ==
  \E i \in 1 .. Len(nodes[p].keys) :
    /\ CmpKey(e, nodes[p].keys[i]) = 0
    /\ \A j \in 1 .. i - 1 : CmpKey(e, nodes[p].keys[j]) > 0

\* It returns RECORD_DUPLICATE_KEY then, and leaves the leaf pinned.
RefuseExisting(e) ==
  LET p == FindLeaf(e)
  IN  /\ MayChange /\ ~Lookup(e[1]).found
      /\ HasRoom(p) /\ Holds(p, e)
      /\ Leak(Lookup(e[1]).leaks \cup {p})
      /\ UNCHANGED <<nodes, root, unique, call, scan>>

InsertIntoLeaf(e) ==
  LET p == FindLeaf(e)
      i == PlaceOf(nodes[p].keys, e)
  IN  /\ MayChange /\ ~Lookup(e[1]).found
      /\ HasRoom(p) /\ ~Holds(p, e)
      /\ nodes' = [nodes EXCEPT ![p].keys = InsertAt(@, i, e),
                                ![p].ptrs = InsertAt(@, i, e[2])]
      /\ Leak(Lookup(e[1]).leaks)
      /\ scan' = Disturbed
      /\ UNCHANGED <<root, unique, call>>

ToParent(parent, left, key, right) ==
  [fn |-> "insert_into_parent", page |-> parent, left |-> left, key |-> key, right |-> right]

\* Mutant: the new leaf is not linked to the leaf after it.
LeafSplitUnlinked(e, p, q) ==
  LET i == PlaceOf(nodes[p].keys, e)
      keys == InsertAt(nodes[p].keys, i, e)
      ptrs == InsertAt(nodes[p].ptrs, i, e[2])
      s == Order \div 2
  IN  Put([nodes EXCEPT ![p].keys = SubSeq(keys, 1, s), ![p].ptrs = SubSeq(ptrs, 1, s),
                        ![p].next = q],
          q, Leaf(nodes[p].parent, SubSeq(keys, s + 1, Order), SubSeq(ptrs, s + 1, Order), 0))

LeafSplit(e, p, q) ==
  LET i == PlaceOf(nodes[p].keys, e)
      keys == InsertAt(nodes[p].keys, i, e)
      ptrs == InsertAt(nodes[p].ptrs, i, e[2])
      s == Order \div 2
  IN  Put([nodes EXCEPT ![p].keys = SubSeq(keys, 1, s), ![p].ptrs = SubSeq(ptrs, 1, s),
                        ![p].next = q],
          q, Leaf(nodes[p].parent, SubSeq(keys, s + 1, Order), SubSeq(ptrs, s + 1, Order),
                  nodes[p].next))

\* A full leaf is not searched for the entry.
InsertIntoLeafAfterSplit(e) ==
  LET p == FindLeaf(e)
      q == FreshPage(nodes)
  IN  /\ MayChange /\ ~Lookup(e[1]).found
      /\ ~HasRoom(p) /\ CanAllocate
      /\ nodes' = LeafSplit(e, p, q)
      /\ call' = ToParent(nodes[p].parent, p, nodes'[q].keys[1], q)
      /\ Leak(Lookup(e[1]).leaks)
      /\ scan' = Disturbed
      /\ UNCHANGED <<root, unique>>

\* allocate_page fails, nothing is inserted, the leaf stays pinned, and
\* insert_entry returns SUCCESS.
InsertLost(e) ==
  LET p == FindLeaf(e)
  IN  /\ AllocFails
      /\ MayChange /\ ~Lookup(e[1]).found
      /\ ~HasRoom(p)
      /\ Leak(Lookup(e[1]).leaks \cup {p})
      /\ UNCHANGED <<nodes, root, unique, call, scan>>

Pending(fn) == call.fn = fn

InsertIntoNewRoot ==
  LET q == FreshPage(nodes)
  IN  /\ Pending("insert_into_parent") /\ call.page = -1 /\ CanAllocate
      /\ nodes' = Adopt(Put(nodes, q, Inner(-1, <<call.key>>, <<call.left, call.right>>)),
                        {call.left, call.right}, q)
      /\ root' = q
      /\ call' = Idle
      /\ UNCHANGED <<unique, leaked, scan>>

\* The place of a child among its parent's children
ChildIndex(p, child) == Min({i \in 1 .. Len(nodes[p].ptrs) : nodes[p].ptrs[i] = child}
                            \cup {Len(nodes[p].ptrs) + 1})

InsertInternNode ==
  LET p == call.page
      i == ChildIndex(p, call.left)
  IN  /\ Pending("insert_into_parent") /\ p # -1 /\ HasRoom(p)
      /\ nodes' = [nodes EXCEPT ![p].keys = InsertAt(@, i, call.key),
                                ![p].ptrs = InsertAt(@, i + 1, call.right)]
      /\ call' = Idle
      /\ UNCHANGED <<root, unique, leaked, scan>>

\* Mutant: the children that move to the new node keep their parent.
NotAdopted(ns, children, p) == ns

AdoptMoved(ns, children, p) == Adopt(ns, children, p)

InsertInternNodeAfterSplit ==
  LET p == call.page
      q == FreshPage(nodes)
      i == ChildIndex(p, call.left)
      keys == InsertAt(nodes[p].keys, i, call.key)
      ptrs == InsertAt(nodes[p].ptrs, i + 1, call.right)
      s == (Order + 1) \div 2
      moved == SubSeq(ptrs, s + 1, Order + 1)
  IN  /\ Pending("insert_into_parent") /\ p # -1 /\ ~HasRoom(p) /\ CanAllocate
      /\ nodes' = AdoptMoved(
                    Put([nodes EXCEPT ![p].keys = SubSeq(keys, 1, s - 1),
                                      ![p].ptrs = SubSeq(ptrs, 1, s)],
                        q, Inner(nodes[p].parent, SubSeq(keys, s + 1, Order), moved)),
                    ToSet(moved), q)
      /\ call' = ToParent(nodes[p].parent, p, keys[s], q)
      /\ UNCHANGED <<root, unique, leaked, scan>>

\* allocate_page fails further up: the new node is not below any parent.
ParentSplitFails ==
  /\ AllocFails
  /\ Pending("insert_into_parent") /\ (call.page # -1 => ~HasRoom(call.page))
  /\ Leak({call.page} \ {-1})
  /\ call' = Idle
  /\ UNCHANGED <<nodes, root, unique, scan>>

----------------------------------------------------------------------------
(* Deletion *)

KeyIndex(p, k) == Min({i \in 1 .. Len(nodes[p].keys) : CmpKey(k, nodes[p].keys[i]) = 0}
                      \cup {Len(nodes[p].keys) + 1})

HasKey(p, k) == KeyIndex(p, k) <= Len(nodes[p].keys)

\* delete_entry_from_node: an inner node loses the child after the key
WithoutKey(p, k) ==
  LET i == KeyIndex(p, k)
  IN  [nodes[p] EXCEPT !.keys = RemoveAt(@, i),
                       !.ptrs = RemoveAt(@, IF nodes[p].leaf THEN i ELSE i + 1)]

\* How a node that has too few keys is repaired: it borrows from or is merged
\* with its left sibling, the first child with its right one.
SiblingCall(p, node) ==
  LET parent == nodes[node.parent]
      i == ChildIndex(node.parent, p)
      left == IF i = 1 THEN p ELSE parent.ptrs[i - 1]
      right == IF i = 1 THEN parent.ptrs[2] ELSE p
      sibling == IF i = 1 THEN right ELSE left
  IN  [fn |-> IF Len(nodes[sibling].keys) > MinKeys(node) THEN "redistribute_nodes"
                                                          ELSE "coalesce_node",
       left |-> left, right |-> right]

\* What delete_entry_internal does once `node' on page p has lost a key: the
\* nodes afterwards, the root and the pending call.
Shrunk(p, node) ==
  LET ns == [nodes EXCEPT ![p] = node]
      rootEmpty == node.parent = -1 /\ ~node.leaf /\ node.keys = <<>>
  IN  [nodes |-> IF rootEmpty THEN Dispose(Adopt(ns, {node.ptrs[1]}, -1), p) ELSE ns,
       root |-> IF rootEmpty THEN node.ptrs[1] ELSE root,
       call |-> IF node.parent = -1 \/ Len(node.keys) >= MinKeys(node)
                THEN Idle ELSE SiblingCall(p, node)]

\* delete_entry of an entry that find_leaf leads to
DeleteEntry(e) ==
  LET p == FindLeaf(e)
      after == Shrunk(p, WithoutKey(p, e))
  IN  /\ MayChange /\ HasKey(p, e)
      /\ nodes' = after.nodes /\ root' = after.root /\ call' = after.call
      /\ scan' = Disturbed
      /\ UNCHANGED <<unique, leaked>>

\* delete_entry returns RECORD_INVALID_KEY and leaves the leaf pinned.
DeleteMissing(e) ==
  LET p == FindLeaf(e)
  IN  /\ call = Idle /\ ~HasKey(p, e)
      /\ Leak({p})
      /\ UNCHANGED <<nodes, root, unique, call, scan>>

\* delete_entry_internal for the parent of two nodes that were merged
DeleteFromParent ==
  /\ Pending("delete_entry_internal") /\ HasKey(call.page, call.key)
  /\ LET after == Shrunk(call.page, WithoutKey(call.page, call.key))
     IN  nodes' = after.nodes /\ root' = after.root /\ call' = after.call
  /\ UNCHANGED <<unique, leaked, scan>>

\* coalesce_node: the pages once the left node has taken over the right one
MergedNode(l, r) ==
  LET separator == nodes[l.parent].keys[ChildIndex(l.parent, call.left)]
  IN  [l EXCEPT !.keys = @ \o (IF l.leaf THEN <<>> ELSE <<separator>>) \o r.keys,
                !.ptrs = @ \o r.ptrs,
                !.next = r.next]

Merged ==
  LET l == nodes[call.left]
      r == nodes[call.right]
  IN  Adopt([nodes EXCEPT ![call.left] = MergedNode(l, r)],
            IF l.leaf THEN {} ELSE ToSet(r.ptrs), call.left)

CoalesceNode ==
  LET parent == nodes[call.left].parent
  IN  /\ Pending("coalesce_node") /\ call.right \notin Pinned
      /\ nodes' = Dispose(Merged, call.right)
      /\ call' = [fn |-> "delete_entry_internal", page |-> parent,
                  key |-> nodes[parent].keys[ChildIndex(parent, call.left)]]
      /\ UNCHANGED <<root, unique, leaked, scan>>

\* The right page is pinned, so it cannot be disposed of: the merge is left half
\* done, the parent still leads to the right page, and stays pinned.
CoalesceFails ==
  /\ Pending("coalesce_node") /\ call.right \in Pinned
  /\ nodes' = Merged
  /\ call' = Idle
  /\ Leak({nodes[call.left].parent})
  /\ UNCHANGED <<root, unique, scan>>

\* redistribute_nodes has four cases: leaves or inner nodes, and which side is
\* short. Only the first moves everything it should.
Redistributing(leaf, leftShort) ==
  LET l == nodes[call.left]
  IN  /\ Pending("redistribute_nodes")
      /\ l.leaf = leaf
      /\ (Len(l.keys) < MinKeys(l)) = leftShort

Redistributed(l, r, separator) ==
  LET parent == l.parent
      i == ChildIndex(parent, call.left)
  IN  [nodes EXCEPT ![call.left] = l, ![call.right] = r, ![parent].keys[i] = separator]

BorrowFromRightLeaf ==
  LET l == nodes[call.left]
      r == nodes[call.right]
  IN  /\ Redistributing(TRUE, TRUE)
      /\ nodes' = Redistributed([l EXCEPT !.keys = Append(@, Head(r.keys)),
                                          !.ptrs = Append(@, Head(r.ptrs))],
                                [r EXCEPT !.keys = Tail(@), !.ptrs = Tail(@)],
                                r.keys[2])
      /\ call' = Idle
      /\ UNCHANGED <<root, unique, leaked, scan>>

\* The key moves to the right leaf but its record id does not: the right
\* leaf's first record id, or what is left of it, is there twice.
BorrowFromLeftLeaf ==
  LET l == nodes[call.left]
      r == nodes[call.right]
      stale == IF r.ptrs = <<>> THEN Rids ELSE {Head(r.ptrs)}
  IN  /\ Redistributing(TRUE, FALSE)
      /\ \E rid \in stale :
           nodes' = Redistributed([l EXCEPT !.keys = Front(@), !.ptrs = Front(@)],
                                  [r EXCEPT !.keys = <<Last(l.keys)>> \o @,
                                            !.ptrs = <<rid>> \o @],
                                  Last(l.keys))
      /\ call' = Idle
      /\ UNCHANGED <<root, unique, leaked, scan>>

\* The right node's last child is not moved down and is lost.
BorrowFromRightInner ==
  LET l == nodes[call.left]
      r == nodes[call.right]
      separator == nodes[l.parent].keys[ChildIndex(l.parent, call.left)]
      n == Len(r.ptrs)
  IN  /\ Redistributing(FALSE, TRUE)
      /\ nodes' = Adopt(
                    Redistributed([l EXCEPT !.keys = Append(@, separator),
                                            !.ptrs = Append(@, Head(r.ptrs))],
                                  [r EXCEPT !.keys = Tail(@),
                                            !.ptrs = Append(SubSeq(@, 2, n - 1), @[n - 1])],
                                  Head(r.keys)),
                    {Head(r.ptrs)}, call.left)
      /\ call' = Idle
      /\ UNCHANGED <<root, unique, leaked, scan>>

\* The right node's last child is overwritten; the place after it, which is
\* now in use, holds what an earlier use of the page left there.
BorrowFromLeftInner ==
  LET l == nodes[call.left]
      r == nodes[call.right]
      separator == nodes[l.parent].keys[ChildIndex(l.parent, call.left)]
  IN  /\ Redistributing(FALSE, FALSE)
      /\ \E stale \in 0 .. MaxPage :
           nodes' = Adopt(
                      Redistributed([l EXCEPT !.keys = Front(@), !.ptrs = Front(@)],
                                    [r EXCEPT !.keys = <<separator>> \o @,
                                              !.ptrs = <<Last(l.ptrs)>> \o Front(@) \o <<stale>>],
                                    Last(l.keys)),
                      {Last(l.ptrs)}, call.right)
      /\ call' = Idle
      /\ UNCHANGED <<root, unique, leaked, scan>>

----------------------------------------------------------------------------
(* Specifications *)

Scanning ==
  \/ \E op \in ScanOps, v \in Attrs : ScanOpen(op, v)
  \/ ScanHere
  \/ ScanOn
  \/ ScanEnd
  \/ ScanLost
  \/ ScanClose

Insertion ==
  \/ \E e \in Entries : \/ RefuseDuplicate(e)
                        \/ RefuseExisting(e)
                        \/ InsertIntoLeaf(e)
                        \/ InsertIntoLeafAfterSplit(e) /\ ~Holds(FindLeaf(e), e)
                        \/ InsertLost(e)
  \/ InsertIntoNewRoot
  \/ InsertInternNode
  \/ InsertInternNodeAfterSplit

Deletion ==
  \/ \E e \in Entries : DeleteEntry(e) \/ DeleteMissing(e)
  \/ DeleteFromParent
  \/ CoalesceNode
  \/ BorrowFromRightLeaf

\* The steps that damage the tree; "twice" is the insertion of an entry into a
\* full leaf that has it, which then holds it twice.
Lossy ==
  \/ "split" \in Damages /\ ParentSplitFails
  \/ "merge" \in Damages /\ CoalesceFails
  \/ "left_leaf" \in Damages /\ BorrowFromLeftLeaf
  \/ "right_inner" \in Damages /\ BorrowFromRightInner
  \/ "left_inner" \in Damages /\ BorrowFromLeftInner
  \/ "twice" \in Damages /\ \E e \in Entries : InsertIntoLeafAfterSplit(e) /\ Holds(FindLeaf(e), e)
  \/ "reopen" \in Damages /\ root # FirstPage /\ Reopen

\* Everything that leaves the tree sound
Next == Scanning \/ Deletion \/ Insertion \/ (root = FirstPage /\ Reopen)

Spec == Init /\ [][Next]_vars

\* With all of Damages, the whole code
FullSpec == Init /\ [][Next \/ Lossy]_vars

----------------------------------------------------------------------------
(* Properties *)

TypeOK ==
  /\ DOMAIN nodes \subseteq Pages /\ FirstPage \in DOMAIN nodes
  /\ \A p \in DOMAIN nodes :
       /\ nodes[p].leaf \in BOOLEAN
       /\ nodes[p].parent \in Pages \cup {-1}
       /\ nodes[p].keys \in Seq(Entries) /\ Len(nodes[p].keys) < Order
       /\ nodes[p].ptrs \in Seq(IF nodes[p].leaf THEN Rids ELSE Pages)
       /\ Len(nodes[p].ptrs) = Len(nodes[p].keys) + (IF nodes[p].leaf THEN 0 ELSE 1)
       /\ nodes[p].next \in DOMAIN nodes \cup {0}
  /\ root \in DOMAIN nodes
  /\ unique \in BOOLEAN
  /\ leaked \subseteq DOMAIN nodes

\* The root page and the parent pointers agree with the children, every page of
\* the file is in the tree, and no node but the root has too few keys: between
\* two operations of the handler, whatever splits and merges they took.
WellFormed ==
  call = Idle =>
    /\ nodes[root].parent = -1
    /\ \A p \in DOMAIN nodes \ {root} :
         /\ nodes[p].parent \in DOMAIN nodes
         /\ ~nodes[nodes[p].parent].leaf
         /\ Cardinality({i \in DOMAIN nodes[nodes[p].parent].ptrs :
                           nodes[nodes[p].parent].ptrs[i] = p}) = 1
         /\ Len(nodes[p].keys) >= MinKeys(nodes[p])
    /\ \A p \in DOMAIN nodes : ~nodes[p].leaf =>
         \A i \in DOMAIN nodes[p].ptrs : nodes[nodes[p].ptrs[i]].parent = p

\* find_leaf leads to every entry that the leaves hold, and the leaves hold
\* them in order: what a later deletion or a unique check relies on.
Findable ==
  call = Idle =>
    LET leaves == Chain(FirstPage)
        keys(n) == nodes[leaves[n]].keys
    IN  /\ \A m, n \in DOMAIN leaves : \A i \in DOMAIN keys(m), j \in DOMAIN keys(n) :
             m < n \/ (m = n /\ i < j) => CmpKey(keys(m)[i], keys(n)[j]) < 0
        /\ \A n \in DOMAIN leaves : \A i \in DOMAIN keys(n) : HasKey(FindLeaf(keys(n)[i]), keys(n)[i])
        /\ FirstLeaf = FirstPage

\* An index that unique_ marks in memory holds no value twice. After a restart
\* no index is marked (Table::open), and the property says nothing.
UniqueValues == unique => \A d, e \in Content : d[1] = e[1] => d = e

Cursor == IF scan.open
          THEN [open |-> TRUE, op |-> scan.op, val |-> scan.val,
                seen |-> scan.seen, stable |-> scan.stable, eof |-> scan.eof]
          ELSE NoScan

Index == INSTANCE IndexSet WITH entries <- Content, cursor <- Cursor, Satisfies <- Satisfy

\* The tree is a set of entries that only insertions and deletions change, one
\* entry at a time, and a scan returns what satisfies, in order and completely.
ImplementsIndex == Index!Spec

\* bplus_tree.h of delete_entry: RECORD_INVALID_KEY means the value does not
\* exist.
InvalidKeyMeansAbsent ==
  [][\A e \in Entries : DeleteMissing(e) => e \notin Content]_vars
=============================================================================
