----------------------------- MODULE PageStore -----------------------------
(***************************************************************************)
(* What the page cache promises: every page of every file has one content, *)
(* and only a caller's write, a new page, or the creation or removal of a  *)
(* file changes it.                                                        *)
(***************************************************************************)
EXTENDS Integers

CONSTANTS FileName, MaxPageCount, Value, Zero, Hole

VARIABLE store

PageNum == 0 .. MaxPageCount - 1
NoPages == [p \in PageNum |-> Hole]

Init == store = [n \in FileName |-> NoPages]

Create(n) ==
  /\ store[n] = NoPages
  /\ store' = [store EXCEPT ![n][0] = [count |-> 1, alloc |-> 1, bits |-> {0}]]

Remove(n) ==
  /\ store[n] # NoPages
  /\ store' = [store EXCEPT ![n] = NoPages]

\* The next page of the file comes into being, empty.
Extend(n) ==
  LET p == store[n][0].count
  IN
  /\ store[n] # NoPages
  /\ p < MaxPageCount
  /\ store' = [store EXCEPT ![n][p] = Zero,
                            ![n][0] = [count |-> p + 1, alloc |-> @.alloc + 1,
                                       bits |-> @.bits \cup {p}]]

Write(n, p, v) ==
  /\ store[n] # NoPages
  /\ p \in store[n][0].bits \ {0}
  /\ store' = [store EXCEPT ![n][p] = v]

Next == \E n \in FileName :
  \/ Create(n)
  \/ Remove(n)
  \/ Extend(n)
  \/ \E p \in PageNum, v \in Value : Write(n, p, v)

Spec == Init /\ [][Next]_store
=============================================================================
