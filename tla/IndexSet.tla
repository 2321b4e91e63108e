------------------------------ MODULE IndexSet ------------------------------
(***************************************************************************)
(* What an index promises its callers: it is a set of entries (value,      *)
(* record id) that only insertions and deletions change, and a cursor over *)
(* it returns the entries that satisfy its condition in order, each once,  *)
(* and all of them if the set did not change while the cursor was open.    *)
(***************************************************************************)
EXTENDS Integers

CONSTANTS Entries,       \* the entries, <<field value, record id>>, that may exist
          Satisfies(_, _, _) \* does an entry satisfy an operator and a value?

VARIABLES entries,       \* the entries of the index
          cursor         \* condition, what was returned, did the set change, end

vars == <<entries, cursor>>

Closed == [open |-> FALSE]

Before(d, e) == d[1] < e[1] \/ (d[1] = e[1] /\ d[2] < e[2])

Matching == {e \in entries : Satisfies(e, cursor.op, cursor.val)}

Init == entries = {} /\ cursor = Closed

\* The cursor makes no promise about entries that come or go under it.
Touched == IF cursor.open THEN [cursor EXCEPT !.stable = FALSE, !.seen = {}] ELSE cursor

Change ==
  /\ \E e \in Entries : \/ e \notin entries /\ entries' = entries \cup {e}
                        \/ e \in entries /\ entries' = entries \ {e}
  /\ cursor' = Touched

Open ==
  /\ ~cursor.open
  /\ cursor'.open /\ cursor'.seen = {} /\ cursor'.stable /\ ~cursor'.eof
  /\ UNCHANGED entries

Return ==
  /\ cursor.open /\ cursor.stable
  /\ \E e \in Matching :
       /\ \A d \in Matching : (d \in cursor.seen) <=> Before(d, e)
       /\ cursor' = [cursor EXCEPT !.seen = @ \cup {e}]
  /\ UNCHANGED entries

\* The end of the entries is only reported after all that match.
ReportEnd ==
  /\ cursor.open
  /\ cursor.stable => cursor.seen = Matching
  /\ cursor' = [cursor EXCEPT !.eof = TRUE]
  /\ UNCHANGED entries

Close ==
  /\ cursor.open
  /\ cursor' = Closed
  /\ UNCHANGED entries

Next == Change \/ Open \/ Return \/ ReportEnd \/ Close

Spec == Init /\ [][Next]_vars
=============================================================================
