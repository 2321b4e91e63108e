----------------------------- MODULE SedaProofs -----------------------------
(***************************************************************************)
(* Proofs about Seda for any number of threads, stages and events: a stage *)
(* owes what it counts, whoever takes an event finds one, a disconnected   *)
(* stage has no event of its own left, and no wake-up is lost.             *)
(***************************************************************************)
EXTENDS Seda, FiniteSetTheorems, TLAPS

AllStage == Stage \cup {Killer}

OwnerPc   == {"connect", "backlog", "run", "disconnect", "dwait", "dwoken",
              "kill", "kadd", "schedule", "kwait", "kwoken", "done"}
WorkerPc  == {"loop", "wait", "woken", "remove", "handle", "schedule", "release", "kill", "dead"}
OutsidePc == {"idle", "schedule"}

\* Each thread is somewhere in its own code, and a worker in a handler serves
\* a stage of the configuration; the pool's own stage only kills.
Placed(t) ==
  /\ t = Owner => pc[t] \in OwnerPc
  /\ t \in Outside => pc[t] \in OutsidePc
  /\ t \in Worker => /\ pc[t] \in WorkerPc
                     /\ pc[t] \in {"handle", "schedule"} => at[t] \in Stage
                     /\ pc[t] = "handle" => cur[t] \in Event
                     /\ pc[t] = "kill" => at[t] = Killer
Places == \A t \in Thread : Placed(t)

\* Only the pool's stage has kill events.
Queues    == \A s \in Stage : queue[s] \in Seq(Event)
Queued(s) == Len(queue[s])

\* The stages are connected and disconnected in order, a connected stage has
\* its pool, and so has the one whose disconnect waits.
Waiting == pc[Owner] \in {"dwait", "dwoken"}
Phases ==
  /\ \A s \in AllStage : connected[s] => pool[s]
  /\ \A s \in Stage : connected[s] =>
       /\ pc[Owner] \in {"connect", "backlog", "run", "disconnect", "dwait", "dwoken"}
       /\ step \in Stage
       /\ pc[Owner] = "connect" => s < step
       /\ pc[Owner] = "backlog" => s <= step
       /\ pc[Owner] = "disconnect" => step <= s
       /\ Waiting => step < s
  /\ Waiting => pool[step] /\ ~connected[step]
  /\ pc[Owner] \in {"connect", "backlog"} => \A s \in Stage : pool[s]
  /\ pc[Owner] \in {"connect", "backlog", "run", "kill"} => step \in Stage
  /\ pc[Owner] \in {"kadd", "schedule", "kwait", "kwoken"} => step = Killer
  /\ pc[Owner] \in {"kadd", "schedule"} => connected[Killer]
  /\ pc[Owner] = "schedule" => tgt[Owner] = Killer
  /\ pc[Owner] = "backlog" => tgt[Owner] = step

\* What a stage owes, it owes while it is connected or its disconnect waits.
Owing == \A s \in AllStage : ref[s] > 0 => connected[s] \/ (Waiting /\ step = s)

\* n_idles_ counts the threads that wait, the woken ones included.
Idle  == {w \in Worker : pc[w] \in {"wait", "woken"}}
Idles == nIdles = Cardinality(Idle)

\* Each thread that is to be killed has an event for it; once they are all
\* scheduled, threads_to_kill_ counts the threads that are left.
AfterKill == step = Killer /\ pc[Owner] \notin {"kadd", "schedule"}
Doomed   == {w \in Worker : pc[w] = "kill"}
KillsDue == Queued(Killer) + Cardinality(Doomed)
KillCounts ==
  /\ pc[Owner] = "kadd" => KillsDue + left = nthreads
  /\ pc[Owner] = "schedule" => left > 0 /\ KillsDue + left = nthreads + 1
  /\ pc[Owner] \notin {"kadd", "schedule"} => KillsDue = toKill
  /\ AfterKill => nthreads = toKill
  /\ ~AfterKill => toKill = 0

\* While a thread sleeps, each entry of the run queue has a thread that will
\* come for it.
Coming  == {w \in Worker : \/ pc[w] \in {"loop", "woken"}
                           \/ pc[w] \in {"remove", "handle", "schedule", "release"} /\ at[w] # Killer}
WakeUps == Asleep # {} => Len(runQueue) <= Cardinality(Coming)

\* What a stage owes is on the run queue, about to be put there, or in the
\* hands of workers; and its queue has an event for each of them that is
\* still to be taken.
InHands(s) == Cardinality(Scheduling(s)) + Cardinality(Serving(s)) + Cardinality(Adding(s))
ToTake(s)  == Cardinality(Scheduling(s)) + Cardinality(Removing(s))
Counted  == \A s \in AllStage : ref[s] = Entries(s) + OwnerLeft(s) + InHands(s)
Supplied == \A s \in AllStage : Entries(s) + OwnerLeft(s) + ToTake(s) <= Queued(s)

IInv ==
  /\ TypeOK /\ Places /\ Queues /\ Phases /\ Owing /\ Idles /\ KillCounts
  /\ Counted /\ Supplied /\ WakeUps
-----------------------------------------------------------------------------
(* Counting *)

In(b) == IF b THEN 1 ELSE 0

\* A set that changes at one element at most.
LEMMA CardStep ==
  ASSUME NEW S, NEW R, NEW x, IsFiniteSet(S), R \ {x} = S \ {x}
  PROVE  /\ IsFiniteSet(R) /\ Cardinality(R) \in Nat /\ Cardinality(S) \in Nat
         /\ Cardinality(R) = Cardinality(S) + In(x \in R) - In(x \in S)
<1>0. Cardinality(S) \in Nat
  BY FS_CardinalityType
<1>1. CASE (x \in R) = (x \in S)
  <2>1. R = S
    BY <1>1
  <2>2. QED
    BY <1>0, <2>1 DEF In
<1>2. CASE x \in R /\ x \notin S
  <2>1. R = S \cup {x}
    BY <1>2
  <2>2. IsFiniteSet(R) /\ Cardinality(R) = Cardinality(S) + 1
    BY <1>2, <2>1, FS_AddElement
  <2>3. QED
    BY <1>0, <1>2, <2>2 DEF In
<1>3. CASE x \notin R /\ x \in S
  <2>1. R = S \ {x}
    BY <1>3
  <2>2. IsFiniteSet(R) /\ Cardinality(R) = Cardinality(S) - 1
    BY <1>3, <2>1, FS_RemoveElement
  <2>3. Cardinality(R) \in Nat
    BY <2>2, FS_CardinalityType
  <2>4. QED
    BY <1>0, <1>3, <2>2, <2>3 DEF In
<1>4. QED
  BY <1>1, <1>2, <1>3

\* schedule puts one entry on the run queue.
LEMMA EntriesAppend ==
  ASSUME runQueue \in Seq(AllStage), NEW x \in AllStage, NEW s,
         runQueue' = Append(runQueue, x)
  PROVE  Entries(s) \in Nat /\ Entries(s)' = Entries(s) + In(x = s)
<1> DEFINE S == {i \in DOMAIN runQueue : runQueue[i] = s}
           R == {i \in DOMAIN runQueue' : runQueue'[i] = s}
           n == Len(runQueue) + 1
<1>1. IsFiniteSet(S)
  <2>1. IsFiniteSet(1 .. Len(runQueue))
    BY FS_Interval
  <2>2. S \in SUBSET (1 .. Len(runQueue))
    OBVIOUS
  <2>3. QED
    BY <2>1, <2>2, FS_Subset
<1>2. R \ {n} = S \ {n}
  OBVIOUS
<1>3. n \notin S /\ (n \in R <=> x = s)
  OBVIOUS
<1> HIDE DEF S, R, n
<1>4. Cardinality(S) \in Nat /\ Cardinality(R) = Cardinality(S) + In(n \in R) - In(n \in S)
  BY <1>1, <1>2, CardStep
<1>5. Cardinality(R) = Cardinality(S) + In(x = s)
  BY <1>3, <1>4 DEF In
<1>6. QED
  BY <1>4, <1>5 DEF Entries, S, R

\* A worker takes the first entry off the run queue.
LEMMA EntriesTail ==
  ASSUME runQueue \in Seq(AllStage), runQueue # <<>>, NEW s, runQueue' = Tail(runQueue)
  PROVE  Entries(s) \in Nat /\ Entries(s)' = Entries(s) - In(Head(runQueue) = s)
<1> DEFINE S == {i \in DOMAIN runQueue : runQueue[i] = s}
           R == {i \in DOMAIN runQueue' : runQueue'[i] = s}
           f == [i \in R |-> i + 1]
<1>1. IsFiniteSet(S) /\ IsFiniteSet(R)
  <2>1. IsFiniteSet(1 .. Len(runQueue)) /\ IsFiniteSet(1 .. Len(runQueue'))
    BY FS_Interval
  <2>2. S \in SUBSET (1 .. Len(runQueue)) /\ R \in SUBSET (1 .. Len(runQueue'))
    OBVIOUS
  <2>3. QED
    BY <2>1, <2>2, FS_Subset
<1>2. /\ \A i \in R : i \in Nat /\ i + 1 \in S \ {1}
      /\ \A j \in S \ {1} : j - 1 \in R /\ j \in Nat
      /\ 1 \in S <=> Head(runQueue) = s
  OBVIOUS
<1> HIDE DEF S, R
<1>3. f \in Bijection(R, S \ {1})
  <2>1. f \in [R -> S \ {1}]
    BY <1>2
  <2>2. \A i, j \in R : f[i] = f[j] => i = j
    BY <1>2
  <2>3. \A j \in S \ {1} : \E i \in R : f[i] = j
    BY <1>2
  <2>4. QED
    BY <2>1, <2>2, <2>3 DEF Bijection, Injection, Surjection, IsInjective
<1>4. Cardinality(R) = Cardinality(S \ {1})
  BY <1>1, <1>3, FS_Bijection DEF ExistsBijection
<1>5. Cardinality(S) \in Nat /\ Cardinality(S \ {1}) = Cardinality(S) - In(1 \in S)
  BY <1>1, FS_RemoveElement, FS_CardinalityType DEF In
<1>6. Cardinality(R) = Cardinality(S) - In(Head(runQueue) = s)
  BY <1>2, <1>4, <1>5 DEF In
<1>7. QED
  BY <1>5, <1>6 DEF Entries, S, R

-----------------------------------------------------------------------------
(* Threads *)

\* A step of the thread t: another thread is at most woken.
Woken(p, q) == <<p, q>> \in {<<"wait", "woken">>, <<"dwait", "dwoken">>, <<"kwait", "kwoken">>}
Moves(t) ==
  \A u \in Thread \ {t} : /\ u \in Worker => at'[u] = at[u]
                          /\ tgt'[u] = tgt[u]
                          /\ pc'[u] = pc[u] \/ Woken(pc[u], pc'[u])

\* What a thread has in hand of the stage s, and what it is still to take.
Puts(t, s)   == pc[t] = "schedule" /\ tgt[t] = s
Serves(t, s) == t \in Worker /\ at[t] = s /\ pc[t] \in {"remove", "handle", "kill", "release"}
Adds(t, s)   == t \in Worker /\ at[t] = s /\ pc[t] = "schedule"
Fetches(t, s) == t \in Worker /\ at[t] = s /\ pc[t] = "remove"
Holds(t, s)  == In(Puts(t, s)) + In(Serves(t, s)) + In(Adds(t, s))
Takes(t, s)  == In(Puts(t, s)) + In(Fetches(t, s))

LEMMA ThreadsFinite == IsFiniteSet(Worker) /\ IsFiniteSet(Thread)
<1>1. IsFiniteSet(Worker \cup Outside)
  BY SedaAssumption, FS_Union
<1>2. IsFiniteSet(Worker \cup Outside \cup {Owner})
  BY <1>1, FS_AddElement
<1>3. QED
  BY <1>2, SedaAssumption DEF Thread

\* The sets of threads that the counts are about change at the thread that
\* takes the step.
LEMMA MovesLemma ==
  ASSUME NEW t \in Thread, Moves(t), NEW s
  PROVE  /\ InHands(s) \in Nat /\ InHands(s)' = InHands(s) + Holds(t, s)' - Holds(t, s)
         /\ ToTake(s) \in Nat /\ ToTake(s)' = ToTake(s) + Takes(t, s)' - Takes(t, s)
         /\ Cardinality(Doomed) \in Nat
         /\ Cardinality(Doomed)' = Cardinality(Doomed) + In(t \in Doomed)' - In(t \in Doomed)
         /\ Cardinality(Idle) \in Nat
<1>0. Owner \notin Worker /\ Worker \subseteq Thread /\ Owner \in Thread
  BY SedaAssumption DEF Thread
<1>1. /\ IsFiniteSet(Scheduling(s)) /\ IsFiniteSet(Serving(s)) /\ IsFiniteSet(Adding(s))
      /\ IsFiniteSet(Removing(s)) /\ IsFiniteSet(Doomed) /\ IsFiniteSet(Idle)
  <2>1. /\ Scheduling(s) \in SUBSET Thread /\ Serving(s) \in SUBSET Worker
        /\ Adding(s) \in SUBSET Worker /\ Removing(s) \in SUBSET Worker
        /\ Doomed \in SUBSET Worker /\ Idle \in SUBSET Worker
    BY DEF Scheduling, Serving, Adding, Removing, Doomed, Idle
  <2>2. QED
    BY <2>1, ThreadsFinite, FS_Subset
<1>2. \A u \in Thread \ {t} : /\ u \in Worker => at'[u] = at[u]
                              /\ tgt'[u] = tgt[u]
                              /\ \/ pc'[u] = pc[u]
                                 \/ pc[u] = "wait" /\ pc'[u] = "woken"
                                 \/ pc[u] = "dwait" /\ pc'[u] = "dwoken"
                                 \/ pc[u] = "kwait" /\ pc'[u] = "kwoken"
  BY DEF Moves, Woken
<1>3. Scheduling(s)' \ {t} = Scheduling(s) \ {t}
  BY <1>2 DEF Scheduling
<1>4. Serving(s)' \ {t} = Serving(s) \ {t}
  BY <1>0, <1>2 DEF Serving
<1>5. Adding(s)' \ {t} = Adding(s) \ {t}
  BY <1>0, <1>2 DEF Adding
<1>6. Removing(s)' \ {t} = Removing(s) \ {t}
  BY <1>0, <1>2 DEF Removing
<1>7. Doomed' \ {t} = Doomed \ {t}
  BY <1>0, <1>2 DEF Doomed
<1>8. /\ t \in Scheduling(s) <=> Puts(t, s)
      /\ t \in Serving(s) <=> Serves(t, s)
      /\ t \in Adding(s) <=> Adds(t, s)
      /\ t \in Removing(s) <=> Fetches(t, s)
  BY DEF Scheduling, Serving, Adding, Removing, Puts, Serves, Adds, Fetches
<1>9. /\ t \in Scheduling(s)' <=> Puts(t, s)'
      /\ t \in Serving(s)' <=> Serves(t, s)'
      /\ t \in Adding(s)' <=> Adds(t, s)'
      /\ t \in Removing(s)' <=> Fetches(t, s)'
  BY DEF Scheduling, Serving, Adding, Removing, Puts, Serves, Adds, Fetches
<1> DEFINE Step(m, n, b, c) == m \in Nat /\ n = m + In(c) - In(b)
<1>10. Step(Cardinality(Scheduling(s)), Cardinality(Scheduling(s)'), Puts(t, s), Puts(t, s)')
  <2>1. Step(Cardinality(Scheduling(s)), Cardinality(Scheduling(s)'), t \in Scheduling(s), t \in Scheduling(s)')
    BY <1>1, <1>3, CardStep
  <2>2. QED
    BY <1>8, <1>9, <2>1 DEF In
<1>11. Step(Cardinality(Serving(s)), Cardinality(Serving(s)'), Serves(t, s), Serves(t, s)')
  <2>1. Step(Cardinality(Serving(s)), Cardinality(Serving(s)'), t \in Serving(s), t \in Serving(s)')
    BY <1>1, <1>4, CardStep
  <2>2. QED
    BY <1>8, <1>9, <2>1 DEF In
<1>12. Step(Cardinality(Adding(s)), Cardinality(Adding(s)'), Adds(t, s), Adds(t, s)')
  <2>1. Step(Cardinality(Adding(s)), Cardinality(Adding(s)'), t \in Adding(s), t \in Adding(s)')
    BY <1>1, <1>5, CardStep
  <2>2. QED
    BY <1>8, <1>9, <2>1 DEF In
<1>13. Step(Cardinality(Removing(s)), Cardinality(Removing(s)'), Fetches(t, s), Fetches(t, s)')
  <2>1. Step(Cardinality(Removing(s)), Cardinality(Removing(s)'), t \in Removing(s), t \in Removing(s)')
    BY <1>1, <1>6, CardStep
  <2>2. QED
    BY <1>8, <1>9, <2>1 DEF In
<1>14. /\ Cardinality(Doomed) \in Nat /\ Cardinality(Idle) \in Nat
       /\ Cardinality(Doomed)' = Cardinality(Doomed) + In(t \in Doomed)' - In(t \in Doomed)
  BY <1>1, <1>7, CardStep, FS_CardinalityType
<1>15. InHands(s) \in Nat /\ InHands(s)' = InHands(s) + Holds(t, s)' - Holds(t, s)
  BY <1>10, <1>11, <1>12 DEF InHands, Holds, In
<1>16. ToTake(s) \in Nat /\ ToTake(s)' = ToTake(s) + Takes(t, s)' - Takes(t, s)
  BY <1>10, <1>13 DEF ToTake, Takes, In
<1>17. QED
  BY <1>14, <1>15, <1>16

\* Numbers of entries and of events still to be scheduled.
LEMMA EntriesType ==
  ASSUME runQueue \in Seq(AllStage), NEW s
  PROVE  Entries(s) \in Nat
<1>1. IsFiniteSet(1 .. Len(runQueue))
  BY FS_Interval
<1>2. {i \in DOMAIN runQueue : runQueue[i] = s} \in SUBSET (1 .. Len(runQueue))
  OBVIOUS
<1>3. QED
  BY <1>1, <1>2, FS_Subset, FS_CardinalityType DEF Entries

\* A step that changes what a stage owes by what it changes in the run queue,
\* in the backlog and in the hands of the thread keeps the books.
LEMMA CountedStep ==
  ASSUME TypeOK, Counted, NEW t \in Thread, Moves(t), NEW s \in AllStage,
         ref'[s] - ref[s] = (Entries(s)' - Entries(s)) + (OwnerLeft(s)' - OwnerLeft(s))
                            + (Holds(t, s)' - Holds(t, s)),
         Entries(s)' \in Nat, OwnerLeft(s)' \in Nat, ref'[s] \in Nat
  PROVE  ref'[s] = Entries(s)' + OwnerLeft(s)' + InHands(s)'
<1>1. Entries(s) \in Nat /\ OwnerLeft(s) \in Nat /\ ref[s] \in Nat
  BY EntriesType DEF TypeOK, OwnerLeft, AllStage
<1>2. Holds(t, s) \in Nat /\ Holds(t, s)' \in Nat
  BY DEF Holds, In
<1>3. InHands(s) \in Nat /\ InHands(s)' = InHands(s) + Holds(t, s)' - Holds(t, s)
  BY MovesLemma
<1>4. ref[s] = Entries(s) + OwnerLeft(s) + InHands(s)
  BY DEF Counted
<1>5. QED
  BY <1>1, <1>2, <1>3, <1>4

\* The same for the events of its queue.
LEMMA SuppliedStep ==
  ASSUME TypeOK, Supplied, NEW t \in Thread, Moves(t), NEW s \in AllStage,
         (Entries(s)' - Entries(s)) + (OwnerLeft(s)' - OwnerLeft(s))
           + (Takes(t, s)' - Takes(t, s)) <= Queued(s)' - Queued(s),
         Entries(s)' \in Nat, OwnerLeft(s)' \in Nat, Queued(s)' \in Nat
  PROVE  Entries(s)' + OwnerLeft(s)' + ToTake(s)' <= Queued(s)'
<1>1. Entries(s) \in Nat /\ OwnerLeft(s) \in Nat
  BY EntriesType DEF TypeOK, OwnerLeft, AllStage
<1>2. Queued(s) \in Nat
  BY DEF TypeOK, Queued, AllStage
<1>3. Takes(t, s) \in Nat /\ Takes(t, s)' \in Nat
  BY DEF Takes, In
<1>4. ToTake(s) \in Nat /\ ToTake(s)' = ToTake(s) + Takes(t, s)' - Takes(t, s)
  BY MovesLemma
<1>5. Entries(s) + OwnerLeft(s) + ToTake(s) <= Queued(s)
  BY DEF Supplied
<1>6. QED
  BY <1>1, <1>2, <1>3, <1>4, <1>5

-----------------------------------------------------------------------------
(* What a step leaves alone *)

\* The owner does nothing, or is woken.
Rests ==
  /\ UNCHANGED <<connected, pool, step, left>>
  /\ tgt'[Owner] = tgt[Owner]
  /\ pc'[Owner] = pc[Owner] \/ Woken(pc[Owner], pc'[Owner])

LEMMA RestsLemma ==
  ASSUME Phases, Rests
  PROVE  Phases' /\ \A s : OwnerLeft(s)' = OwnerLeft(s)
<1>1. CASE pc'[Owner] = pc[Owner]
  BY <1>1 DEF Rests, Phases, Waiting, OwnerLeft
<1>2. CASE pc[Owner] = "dwait" /\ pc'[Owner] = "dwoken"
  BY <1>2 DEF Rests, Phases, Waiting, OwnerLeft
<1>3. CASE pc[Owner] = "kwait" /\ pc'[Owner] = "kwoken"
  BY <1>3 DEF Rests, Phases, Waiting, OwnerLeft
<1>4. CASE pc[Owner] = "wait" /\ pc'[Owner] = "woken"
  BY <1>4 DEF Rests, Phases, Waiting, OwnerLeft
<1>5. QED
  BY <1>1, <1>2, <1>3, <1>4 DEF Rests, Woken

\* What is owed by stages that are not connected does not grow.
LEMMA OwingLemma ==
  ASSUME TypeOK, Owing, Rests,
         \A s \in AllStage : ref'[s] \in Nat /\ (ref'[s] > ref[s] => connected[s])
  PROVE  Owing'
<1>1. Waiting => Waiting'
  BY DEF Waiting, Rests, Woken
<1>2. ASSUME NEW s \in AllStage, ref'[s] > 0 PROVE connected'[s] \/ (Waiting' /\ step' = s)
  <2>1. ref[s] \in Nat /\ ref'[s] \in Nat /\ connected' = connected /\ step' = step
    BY DEF TypeOK, AllStage, Rests
  <2>2. CASE connected[s]
    BY <2>1, <2>2
  <2>3. CASE ~connected[s]
    <3>1. ref[s] > 0
      BY <1>2, <2>1, <2>3
    <3>2. QED
      BY <1>1, <2>1, <2>3, <3>1 DEF Owing
  <2>4. QED
    BY <2>2, <2>3
<1>3. QED
  BY <1>2 DEF Owing

\* The threads other than t stay where they belong.
LEMMA PlacesLemma ==
  ASSUME Places, NEW t \in Thread, Moves(t), Placed(t)',
         \A u \in Worker \ {t} : cur'[u] = cur[u]
  PROVE  Places'
<1> SUFFICES ASSUME NEW u \in Thread, u # t PROVE Placed(u)'
  BY DEF Places
<1>1. Placed(u)
  BY DEF Places
<1>2. CASE pc'[u] = pc[u]
  BY <1>1, <1>2 DEF Placed, Moves
<1>3. CASE Woken(pc[u], pc'[u])
  BY <1>1, <1>3 DEF Placed, Moves, Woken, OwnerPc, OutsidePc, WorkerPc
<1>4. QED
  BY <1>2, <1>3 DEF Moves

\* The run queue is as it was, and nobody who will come for it goes away.
LEMMA WakeUpsLemma ==
  ASSUME WakeUps, runQueue' = runQueue, Len(runQueue) \in Nat,
         Asleep' # {} => Asleep # {}, Coming \subseteq Coming'
  PROVE  WakeUps'
<1>1. Coming' \in SUBSET Worker
  BY DEF Coming
<1>2. IsFiniteSet(Coming')
  BY <1>1, ThreadsFinite, FS_Subset
<1>3. IsFiniteSet(Coming) /\ Cardinality(Coming) <= Cardinality(Coming')
  BY <1>2, FS_Subset
<1>4. Cardinality(Coming) \in Nat /\ Cardinality(Coming') \in Nat
  BY <1>2, <1>3, FS_CardinalityType
<1>5. QED
  BY <1>3, <1>4 DEF WakeUps

\* No kill event is added or taken.
LEMMA KillCountsLemma ==
  ASSUME KillCounts, KillsDue' = KillsDue, UNCHANGED <<step, left, nthreads, toKill>>,
         pc'[Owner] = pc[Owner] \/ Woken(pc[Owner], pc'[Owner])
  PROVE  KillCounts'
  BY DEF KillCounts, AfterKill, Woken

\* A step of t accounts for what it changes of the stage s.
Books(t, s) ==
  /\ ref'[s] - ref[s] = (Entries(s)' - Entries(s)) + (Holds(t, s)' - Holds(t, s))
  /\ (Entries(s)' - Entries(s)) + (Takes(t, s)' - Takes(t, s)) <= Queued(s)' - Queued(s)

\* What remains to be shown of a step in which the owner does nothing.
LEMMA StepInv ==
  ASSUME IInv, NEW t \in Thread, Moves(t), Rests, TypeOK', Placed(t)',
         \A u \in Worker \ {t} : cur'[u] = cur[u],
         Queues', Idles', KillCounts', WakeUps',
         \A s \in AllStage : ref'[s] = ref[s] \/ ref'[s] < ref[s] \/ connected[s],
         \A s \in AllStage : Books(t, s)
  PROVE  IInv'
<1>0. TypeOK /\ Places /\ Phases /\ Owing /\ Counted /\ Supplied
  BY DEF IInv
<1>1. Places'
  BY <1>0, PlacesLemma
<1>2. Phases' /\ \A s : OwnerLeft(s)' = OwnerLeft(s)
  BY <1>0, RestsLemma
<1>3. \A s \in AllStage : ref'[s] \in Nat
  BY DEF TypeOK, AllStage
<1>4. Owing'
  <2>1. \A s \in AllStage : ref[s] \in Nat
    BY <1>0 DEF TypeOK, AllStage
  <2>2. QED
    BY <1>0, <1>3, <2>1, OwingLemma
<1>5. ASSUME NEW s \in AllStage
      PROVE  /\ Entries(s)' \in Nat /\ Queued(s)' \in Nat /\ OwnerLeft(s)' \in Nat
             /\ OwnerLeft(s)' - OwnerLeft(s) = 0
  <2>1. runQueue' \in Seq(AllStage) /\ queue'[s] \in Seq(Event \cup {KillEvent}) /\ left \in Nat
    BY <1>0, <1>5 DEF TypeOK, AllStage
  <2>2. {i \in DOMAIN runQueue' : runQueue'[i] = s} \in SUBSET (1 .. Len(runQueue'))
    BY <2>1
  <2>3. Entries(s)' \in Nat
    <3>1. IsFiniteSet(1 .. Len(runQueue'))
      BY <2>1, FS_Interval
    <3>2. QED
      BY <2>2, <3>1, FS_Subset, FS_CardinalityType DEF Entries
  <2>4. Queued(s)' \in Nat
    BY <2>1 DEF Queued
  <2>5. OwnerLeft(s) \in Nat
    BY <2>1 DEF OwnerLeft
  <2>6. QED
    BY <1>2, <2>3, <2>4, <2>5
<1>6. ASSUME NEW s \in AllStage
      PROVE  /\ ref'[s] - ref[s] = (Entries(s)' - Entries(s)) + (OwnerLeft(s)' - OwnerLeft(s))
                                   + (Holds(t, s)' - Holds(t, s))
             /\ (Entries(s)' - Entries(s)) + (OwnerLeft(s)' - OwnerLeft(s))
                + (Takes(t, s)' - Takes(t, s)) <= Queued(s)' - Queued(s)
  <2>1. Entries(s) \in Nat /\ Entries(s)' \in Nat
    BY <1>0, <1>5, EntriesType DEF TypeOK, AllStage
  <2>2. /\ Holds(t, s) \in Nat /\ Holds(t, s)' \in Nat
        /\ Takes(t, s) \in Nat /\ Takes(t, s)' \in Nat
    BY DEF Holds, Takes, In
  <2>3. Books(t, s)
    BY <1>6
  <2>4. QED
    BY <1>5, <2>1, <2>2, <2>3 DEF Books
<1>7. Counted'
  BY <1>0, <1>3, <1>5, <1>6, CountedStep DEF Counted
<1>8. Supplied'
  BY <1>0, <1>5, <1>6, SuppliedStep DEF Supplied
<1>9. QED
  BY <1>1, <1>2, <1>4, <1>7, <1>8 DEF IInv

\* A step that touches neither the queues nor what a thread has in hand.
LEMMA BooksSame ==
  ASSUME TypeOK, NEW t \in Thread, UNCHANGED <<queue, ref, runQueue>>,
         NEW s \in AllStage, Holds(t, s)' = Holds(t, s), Takes(t, s)' <= Takes(t, s)
  PROVE  Books(t, s)
<1>1. Entries(s)' = Entries(s) /\ Queued(s)' = Queued(s) /\ ref' = ref
  BY DEF Entries, Queued
<1>2. Entries(s) \in Nat /\ Queued(s) \in Nat /\ ref[s] \in Nat
  BY EntriesType DEF TypeOK, AllStage, Queued
<1>3. /\ Holds(t, s) \in Nat /\ Holds(t, s)' \in Nat
      /\ Takes(t, s) \in Nat /\ Takes(t, s)' \in Nat
  BY DEF Holds, Takes, In
<1>4. QED
  BY <1>1, <1>2, <1>3 DEF Books

-----------------------------------------------------------------------------
(* Workers *)

AllPc == {"loop", "wait", "woken", "remove", "handle", "schedule", "release",
          "kill", "dead", "idle", "connect", "backlog", "run", "disconnect",
          "dwait", "dwoken", "kadd", "kwait", "kwoken", "done"}

LEMMA ThreadFacts ==
  /\ Worker \subseteq Thread /\ Outside \subseteq Thread /\ Owner \in Thread
  /\ Owner \notin Worker /\ Owner \notin Outside /\ Worker \cap Outside = {}
  BY SedaAssumption DEF Thread

LEMMA StageFacts ==
  /\ Stage \subseteq Nat /\ Killer = 0 /\ Killer \notin Stage /\ AllStage \subseteq Nat
  /\ Stage \subseteq AllStage /\ Killer \in AllStage /\ 1 \in Stage /\ NumStages \in Stage
  /\ Event \subseteq Nat /\ KillEvent = 0
  BY SedaAssumption DEF Stage, Killer, AllStage, Event, KillEvent

\* The thread t goes to the place p, and no other thread moves.
LEMMA GoLemma ==
  ASSUME TypeOK, NEW t \in Thread, NEW p \in AllPc, pc' = [pc EXCEPT ![t] = p]
  PROVE  /\ pc' \in [Thread -> AllPc] /\ pc'[t] = p
         /\ \A u \in Thread \ {t} : pc'[u] = pc[u]
<1>1. pc \in [Thread -> AllPc]
  BY DEF TypeOK, AllPc
<1>2. QED
  BY <1>1

\* n_idles_ follows the thread that goes to wait or comes back.
LEMMA IdleStep ==
  ASSUME NEW w \in Worker, \A u \in Worker \ {w} : pc'[u] = pc[u], Idles
  PROVE  /\ Cardinality(Idle') \in 0 .. Cardinality(Worker)
         /\ nIdles \in Nat
         /\ Cardinality(Idle') = nIdles + In(pc'[w] \in {"wait", "woken"}) - In(pc[w] \in {"wait", "woken"})
<1>1. Idle' \ {w} = Idle \ {w}
  BY DEF Idle
<1>2. Idle \in SUBSET Worker /\ Idle' \in SUBSET Worker
  BY DEF Idle
<1>3. IsFiniteSet(Idle) /\ IsFiniteSet(Idle') /\ Cardinality(Idle') <= Cardinality(Worker)
  BY <1>2, ThreadsFinite, FS_Subset
<1>4. Cardinality(Idle) \in Nat /\ Cardinality(Idle') \in Nat /\ Cardinality(Worker) \in Nat
  BY <1>3, ThreadsFinite, FS_CardinalityType
<1>5. Cardinality(Idle') = Cardinality(Idle) + In(w \in Idle') - In(w \in Idle)
  BY <1>1, <1>3, CardStep
<1>6. (w \in Idle <=> pc[w] \in {"wait", "woken"}) /\ (w \in Idle' <=> pc'[w] \in {"wait", "woken"})
  BY DEF Idle
<1>7. In(w \in Idle) = In(pc[w] \in {"wait", "woken"}) /\ In(w \in Idle') = In(pc'[w] \in {"wait", "woken"})
  BY <1>6 DEF In
<1>8. nIdles = Cardinality(Idle)
  BY DEF Idles
<1> HIDE DEF In
<1>9. QED
  BY <1>3, <1>4, <1>5, <1>7, <1>8

LEMMA SleepInv ==
  ASSUME IInv, NEW w \in Worker, Sleep(w)
  PROVE  IInv'
<1>0. TypeOK /\ Places /\ Queues /\ Idles /\ KillCounts /\ w \in Thread /\ w # Owner /\ Owner \in Thread
  BY ThreadFacts DEF IInv
<1>1. /\ pc[w] \in {"loop", "woken"} /\ runQueue = <<>> /\ pc' = [pc EXCEPT ![w] = "wait"]
      /\ nIdles' = IF pc[w] = "loop" THEN nIdles + 1 ELSE nIdles
      /\ UNCHANGED <<queue, connected, ref, pool, runQueue, nthreads, toKill, at, inside, cur,
                     tgt, step, left, made, hops, handled>>
  BY DEF Sleep, stages, workers, owner, counts
<1>2. pc' \in [Thread -> AllPc] /\ pc'[w] = "wait" /\ \A u \in Thread \ {w} : pc'[u] = pc[u]
  BY <1>0, <1>1, GoLemma DEF AllPc
<1>3. Moves(w) /\ Rests
  BY <1>0, <1>1, <1>2 DEF Moves, Rests
<1>4. nIdles' = Cardinality(Idle') /\ nIdles' \in 0 .. Cardinality(Worker)
  <2>1. \A u \in Worker \ {w} : pc'[u] = pc[u]
    BY <1>2, ThreadFacts
  <2>2. /\ Cardinality(Idle') \in 0 .. Cardinality(Worker) /\ nIdles \in Nat
        /\ Cardinality(Idle') = nIdles + In(pc'[w] \in {"wait", "woken"}) - In(pc[w] \in {"wait", "woken"})
    BY <1>0, <2>1, IdleStep
  <2>3. CASE pc[w] = "loop"
    BY <1>1, <1>2, <2>2, <2>3 DEF In
  <2>4. CASE pc[w] = "woken"
    BY <1>1, <1>2, <2>2, <2>4 DEF In
  <2>5. QED
    BY <1>1, <2>2, <2>3, <2>4
<1>5. TypeOK'
  BY <1>0, <1>1, <1>2, <1>4 DEF TypeOK, AllPc
<1>6. Placed(w)' /\ Queues' /\ Idles'
  BY <1>0, <1>1, <1>2, <1>4, ThreadFacts DEF Placed, WorkerPc, Queues, Idles
<1>7. KillCounts'
  <2>1. Doomed' = Doomed
    BY <1>1, <1>2, ThreadFacts DEF Doomed
  <2>2. QED
    BY <1>0, <1>1, <1>2, <2>1, KillCountsLemma DEF KillsDue, Queued
<1>8. WakeUps'
  <2>1. Cardinality(Coming') \in Nat
    BY ThreadsFinite, FS_Subset, FS_CardinalityType DEF Coming
  <2>2. QED
    BY <1>1, <2>1 DEF WakeUps
<1>9. ASSUME NEW s \in AllStage PROVE Books(w, s)
  <2>1. Holds(w, s)' = Holds(w, s) /\ Takes(w, s)' = Takes(w, s) /\ Takes(w, s) \in Nat
    BY <1>1, <1>2 DEF Holds, Takes, Puts, Serves, Adds, Fetches, In
  <2>2. QED
    BY <1>0, <1>1, <2>1, BooksSame
<1>10. QED
  BY <1>0, <1>1, <1>3, <1>5, <1>6, <1>7, <1>8, <1>9, StepInv

LEMMA SpuriousInv ==
  ASSUME IInv, NEW w \in Worker, Spurious(w)
  PROVE  IInv'
<1>0. TypeOK /\ Places /\ Queues /\ Idles /\ KillCounts /\ WakeUps /\ w \in Thread /\ w # Owner /\ Owner \in Thread
  BY ThreadFacts DEF IInv
<1>1. /\ pc[w] = "wait" /\ pc' = [pc EXCEPT ![w] = "woken"]
      /\ UNCHANGED <<queue, connected, ref, pool, runQueue, nIdles, nthreads, toKill, at, inside, cur,
                     tgt, step, left, made, hops, handled>>
  BY DEF Spurious, stages, workers, owner, counts
<1>2. pc' \in [Thread -> AllPc] /\ pc'[w] = "woken" /\ \A u \in Thread \ {w} : pc'[u] = pc[u]
  BY <1>0, <1>1, GoLemma DEF AllPc
<1>3. Moves(w) /\ Rests
  BY <1>0, <1>1, <1>2 DEF Moves, Rests
<1>4. Idle' = Idle /\ Doomed' = Doomed /\ Asleep' \subseteq Asleep /\ Coming \subseteq Coming'
  BY <1>1, <1>2, ThreadFacts DEF Idle, Doomed, Asleep, Coming
<1>5. TypeOK'
  BY <1>0, <1>1, <1>2 DEF TypeOK, AllPc
<1>6. Placed(w)' /\ Queues' /\ Idles'
  BY <1>0, <1>1, <1>2, <1>4, ThreadFacts DEF Placed, WorkerPc, Queues, Idles
<1>7. KillCounts'
  BY <1>0, <1>1, <1>2, <1>4, KillCountsLemma DEF KillsDue, Queued
<1>8. WakeUps'
  <2>1. Len(runQueue) \in Nat
    BY <1>0 DEF TypeOK
  <2>2. QED
    BY <1>0, <1>1, <1>4, <2>1, WakeUpsLemma
<1>9. ASSUME NEW s \in AllStage PROVE Books(w, s)
  <2>1. Holds(w, s)' = Holds(w, s) /\ Takes(w, s)' = Takes(w, s) /\ Takes(w, s) \in Nat
    BY <1>1, <1>2 DEF Holds, Takes, Puts, Serves, Adds, Fetches, In
  <2>2. QED
    BY <1>0, <1>1, <2>1, BooksSame
<1>10. QED
  BY <1>0, <1>1, <1>3, <1>5, <1>6, <1>7, <1>8, <1>9, StepInv

\* A handler that calls the next one or returns keeps the event in hand.
LEMMA HandlerInv ==
  ASSUME IInv, NEW w \in Worker,
         pc[w] = "handle", NEW p \in {"handle", "release"}, pc' = [pc EXCEPT ![w] = p],
         inside' \in [Worker -> AllStage], handled' \subseteq Event,
         UNCHANGED <<queue, connected, ref, pool, runQueue, nIdles, nthreads, toKill, at, cur,
                     tgt, step, left, made, hops>>
  PROVE  IInv'
<1>0. TypeOK /\ Places /\ Queues /\ Idles /\ KillCounts /\ WakeUps /\ w \in Thread /\ w # Owner /\ Owner \in Thread
  BY ThreadFacts DEF IInv
<1>1. pc' \in [Thread -> AllPc] /\ pc'[w] = p /\ \A u \in Thread \ {w} : pc'[u] = pc[u]
  BY <1>0, GoLemma DEF AllPc
<1>2. Moves(w) /\ Rests
  BY <1>0, <1>1 DEF Moves, Rests
<1>3. Idle' = Idle /\ Doomed' = Doomed /\ Asleep' \subseteq Asleep /\ Coming \subseteq Coming'
  BY <1>1, ThreadFacts DEF Idle, Doomed, Asleep, Coming
<1>4. TypeOK'
  BY <1>0, <1>1 DEF TypeOK, AllPc, AllStage
<1>5. Placed(w)
  BY <1>0 DEF Places
<1>6. Placed(w)' /\ Queues' /\ Idles'
  BY <1>0, <1>1, <1>3, <1>5, ThreadFacts DEF Placed, WorkerPc, Queues, Idles
<1>7. KillCounts'
  BY <1>0, <1>1, <1>3, KillCountsLemma DEF KillsDue, Queued
<1>8. WakeUps'
  <2>1. Len(runQueue) \in Nat
    BY <1>0 DEF TypeOK
  <2>2. QED
    BY <1>0, <1>3, <2>1, WakeUpsLemma
<1>9. ASSUME NEW s \in AllStage PROVE Books(w, s)
  <2>1. Holds(w, s)' = Holds(w, s) /\ Takes(w, s)' = Takes(w, s) /\ Takes(w, s) \in Nat
    BY <1>1 DEF Holds, Takes, Puts, Serves, Adds, Fetches, In
  <2>2. QED
    BY <1>0, <2>1, BooksSame
<1>10. QED
  BY <1>0, <1>2, <1>4, <1>6, <1>7, <1>8, <1>9, StepInv

LEMMA CallNextInv ==
  ASSUME IInv, NEW w \in Worker, NEW s \in Stage, CallNext(w, s)
  PROVE  IInv'
<1>1. /\ pc \in [Thread -> AllPc] /\ inside \in [Worker -> AllStage] /\ handled \subseteq Event
      /\ w \in Thread /\ s \in AllStage
  BY ThreadFacts, StageFacts DEF IInv, TypeOK, AllPc, AllStage
<1>2. /\ pc[w] = "handle" /\ inside' = [inside EXCEPT ![w] = s]
      /\ UNCHANGED <<queue, connected, ref, pool, runQueue, nIdles, nthreads, toKill, pc, at, cur,
                     tgt, step, left, made, hops, handled>>
  BY DEF CallNext, stages, owner, counts
<1>3. pc' = [pc EXCEPT ![w] = "handle"] /\ inside' \in [Worker -> AllStage] /\ handled' \subseteq Event
  BY <1>1, <1>2
<1>4. QED
  BY <1>2, <1>3, HandlerInv

LEMMA FinishInv ==
  ASSUME IInv, NEW w \in Worker, Finish(w)
  PROVE  IInv'
<1>1. /\ inside \in [Worker -> AllStage] /\ at \in [Worker -> AllStage]
      /\ handled \subseteq Event /\ w \in Thread /\ Placed(w)
  BY ThreadFacts DEF IInv, TypeOK, AllStage, Places
<1>2. /\ pc[w] = "handle" /\ pc' = [pc EXCEPT ![w] = "release"]
      /\ inside' = [inside EXCEPT ![w] = at[w]] /\ handled' = handled \cup {cur[w]}
      /\ UNCHANGED <<queue, connected, ref, pool, runQueue, nIdles, nthreads, toKill, at, cur,
                     tgt, step, left, made, hops>>
  BY DEF Finish, stages, owner
<1>3. inside' \in [Worker -> AllStage]
  BY <1>1, <1>2
<1>4. cur[w] \in Event
  BY <1>1, <1>2 DEF Placed
<1>5. handled' \subseteq Event
  BY <1>1, <1>2, <1>4
<1>6. QED
  BY <1>2, <1>3, <1>5, HandlerInv

LEMMA PopInv ==
  ASSUME IInv, NEW w \in Worker, Pop(w)
  PROVE  IInv'
<1> DEFINE h == Head(runQueue)
<1>0. /\ TypeOK /\ Places /\ Queues /\ Idles /\ KillCounts /\ WakeUps
      /\ w \in Thread /\ w # Owner /\ Owner \in Thread /\ runQueue \in Seq(AllStage)
      /\ at \in [Worker -> AllStage]
  BY ThreadFacts DEF IInv, TypeOK, AllStage
<1>1. /\ pc[w] \in {"loop", "woken"} /\ runQueue # <<>> /\ pc' = [pc EXCEPT ![w] = "remove"]
      /\ at' = [at EXCEPT ![w] = h] /\ runQueue' = Tail(runQueue)
      /\ nIdles' = IF pc[w] = "woken" THEN nIdles - 1 ELSE nIdles
      /\ UNCHANGED <<queue, connected, ref, pool, nthreads, toKill, inside, cur,
                     tgt, step, left, made, hops, handled>>
  BY DEF Pop, stages, owner, counts
<1>2. pc' \in [Thread -> AllPc] /\ pc'[w] = "remove" /\ \A u \in Thread \ {w} : pc'[u] = pc[u]
  BY <1>0, <1>1, GoLemma DEF AllPc
<1>3. /\ h \in AllStage /\ at' \in [Worker -> AllStage] /\ at'[w] = h
      /\ \A u \in Worker \ {w} : at'[u] = at[u]
      /\ runQueue' \in Seq(AllStage) /\ Len(runQueue') = Len(runQueue) - 1 /\ Len(runQueue) \in Nat
  BY <1>0, <1>1
<1> HIDE DEF h
<1>4. Moves(w) /\ Rests
  BY <1>0, <1>1, <1>2, <1>3 DEF Moves, Rests
<1>5. nIdles' = Cardinality(Idle') /\ nIdles' \in 0 .. Cardinality(Worker)
  <2>1. \A u \in Worker \ {w} : pc'[u] = pc[u]
    BY <1>2, ThreadFacts
  <2>2. /\ Cardinality(Idle') \in 0 .. Cardinality(Worker) /\ nIdles \in Nat
        /\ Cardinality(Idle') = nIdles + In(pc'[w] \in {"wait", "woken"}) - In(pc[w] \in {"wait", "woken"})
    BY <1>0, <2>1, IdleStep
  <2>3. CASE pc[w] = "loop"
    BY <1>1, <1>2, <2>2, <2>3 DEF In
  <2>4. CASE pc[w] = "woken"
    BY <1>1, <1>2, <2>2, <2>4 DEF In
  <2>5. QED
    BY <1>1, <2>2, <2>3, <2>4
<1>6. TypeOK'
  BY <1>0, <1>1, <1>2, <1>3, <1>5 DEF TypeOK, AllPc, AllStage
<1>7. Placed(w)' /\ Queues' /\ Idles'
  BY <1>0, <1>1, <1>2, <1>5, ThreadFacts DEF Placed, WorkerPc, Queues, Idles
<1>8. KillCounts'
  <2>1. Doomed' = Doomed
    BY <1>1, <1>2, ThreadFacts DEF Doomed
  <2>2. QED
    BY <1>0, <1>1, <1>2, <2>1, KillCountsLemma DEF KillsDue, Queued
<1>9. WakeUps'
  <2>1. Coming' \ {w} = Coming \ {w} /\ w \in Coming /\ Asleep' = Asleep
    BY <1>1, <1>2, <1>3, ThreadFacts DEF Coming, Asleep
  <2>2. IsFiniteSet(Coming)
    BY ThreadsFinite, FS_Subset DEF Coming
  <2>3. /\ Cardinality(Coming) \in Nat /\ Cardinality(Coming') \in Nat
        /\ Cardinality(Coming') = Cardinality(Coming) + In(w \in Coming') - In(w \in Coming)
    BY <2>1, <2>2, CardStep
  <2>4. Cardinality(Coming) - 1 <= Cardinality(Coming')
    BY <2>1, <2>3 DEF In
  <2>5. QED
    BY <1>0, <1>3, <2>1, <2>3, <2>4 DEF WakeUps
<1>10. ASSUME NEW s \in AllStage PROVE Books(w, s)
  <2>1. Entries(s) \in Nat /\ Entries(s)' = Entries(s) - In(h = s)
    BY <1>0, <1>1, EntriesTail DEF h
  <2>2. Holds(w, s) = 0 /\ Takes(w, s) = 0 /\ Holds(w, s)' = In(h = s) /\ Takes(w, s)' = In(h = s)
    BY <1>1, <1>2, <1>3 DEF Holds, Takes, Puts, Serves, Adds, Fetches, In
  <2>3. Queued(s)' = Queued(s) /\ Queued(s) \in Nat /\ ref'[s] = ref[s] /\ ref[s] \in Nat
    BY <1>0, <1>1 DEF Queued, TypeOK, AllStage
  <2>4. In(h = s) \in Nat
    BY DEF In
  <2>5. QED
    BY <2>1, <2>2, <2>3, <2>4 DEF Books
<1>11. QED
  BY <1>0, <1>1, <1>4, <1>6, <1>7, <1>8, <1>9, <1>10, StepInv

\* remove_event takes the event that the entry is for.
LEMMA RemoveInv ==
  ASSUME IInv, NEW w \in Worker, Remove(w)
  PROVE  IInv'
<1> DEFINE a == at[w]
           p == IF a = Killer THEN "kill" ELSE "handle"
<1>0. /\ TypeOK /\ Places /\ Queues /\ Idles /\ KillCounts /\ WakeUps
      /\ w \in Thread /\ w # Owner /\ Owner \in Thread
      /\ a \in AllStage /\ cur \in [Worker -> Event \cup {KillEvent}] /\ inside \in [Worker -> AllStage]
      /\ queue \in [AllStage -> Seq(Event \cup {KillEvent})]
  BY ThreadFacts DEF IInv, TypeOK, AllStage
<1>1. /\ pc[w] = "remove" /\ queue[a] # <<>> /\ pc' = [pc EXCEPT ![w] = p]
      /\ cur' = [cur EXCEPT ![w] = Head(queue[a])] /\ queue' = [queue EXCEPT ![a] = Tail(@)]
      /\ inside' = [inside EXCEPT ![w] = a]
      /\ UNCHANGED <<connected, ref, pool, runQueue, nIdles, nthreads, toKill, at,
                     tgt, step, left, made, hops, handled>>
  BY DEF Remove, owner, counts
<1>2. /\ pc' \in [Thread -> AllPc] /\ pc'[w] = p /\ \A u \in Thread \ {w} : pc'[u] = pc[u]
  BY <1>0, <1>1, GoLemma DEF AllPc
<1>3. /\ queue' \in [AllStage -> Seq(Event \cup {KillEvent})]
      /\ cur' \in [Worker -> Event \cup {KillEvent}] /\ inside' \in [Worker -> AllStage]
      /\ cur'[w] = Head(queue[a]) /\ \A u \in Worker \ {w} : cur'[u] = cur[u]
      /\ queue'[a] = Tail(queue[a]) /\ \A s \in AllStage \ {a} : queue'[s] = queue[s]
  BY <1>0, <1>1
<1>4. \A s \in AllStage : s = a => Queued(s)' = Queued(s) - 1 /\ Queued(s) \in Nat
  BY <1>0, <1>1, <1>3 DEF Queued
<1>5. \A s \in AllStage \ {a} : Queued(s)' = Queued(s)
  BY <1>3 DEF Queued
<1>6. a \in Stage => Head(queue[a]) \in Event /\ Tail(queue[a]) \in Seq(Event)
  BY <1>0, <1>1 DEF Queues
<1>7. a = Killer \/ a \in Stage
  BY <1>0 DEF AllStage
<1>8. at'[w] = a /\ at' = at
  BY <1>1
<1>9. (p = "kill" <=> a = Killer) /\ (p = "handle" <=> a # Killer) /\ p \in {"kill", "handle"}
  OBVIOUS
<1> HIDE DEF a, p
<1>10. Moves(w) /\ Rests
  BY <1>0, <1>1, <1>2, <1>8 DEF Moves, Rests
<1>11. TypeOK'
  BY <1>0, <1>1, <1>2, <1>3 DEF TypeOK, AllPc, AllStage
<1>12. Placed(w)'
  BY <1>0, <1>2, <1>3, <1>6, <1>7, <1>8, <1>9, ThreadFacts DEF Placed, WorkerPc
<1>13. Queues'
  BY <1>0, <1>3, <1>6, StageFacts DEF Queues
<1>14. Idle' = Idle /\ Asleep' \subseteq Asleep
  BY <1>1, <1>2, <1>9, ThreadFacts DEF Idle, Asleep
<1>15. Idles'
  BY <1>0, <1>1, <1>14 DEF Idles
<1>16. Coming \subseteq Coming'
  BY <1>1, <1>2, <1>8, <1>9, ThreadFacts DEF Coming
<1>17. WakeUps'
  <2>1. Len(runQueue) \in Nat
    BY <1>0 DEF TypeOK
  <2>2. QED
    BY <1>0, <1>1, <1>14, <1>16, <2>1, WakeUpsLemma
<1>18. KillCounts'
  <2>1. /\ Cardinality(Doomed) \in Nat
        /\ Cardinality(Doomed)' = Cardinality(Doomed) + In(w \in Doomed)' - In(w \in Doomed)
    BY <1>0, <1>10, MovesLemma
  <2>2. In(w \in Doomed) = 0 /\ In(w \in Doomed)' = In(a = Killer)
    BY <1>1, <1>2, <1>9 DEF In, Doomed
  <2>3. Queued(Killer)' = Queued(Killer) - In(a = Killer) /\ Queued(Killer) \in Nat
    <3>1. Queued(Killer) \in Nat
      BY <1>0, StageFacts DEF Queued
    <3>2. CASE a = Killer
      BY <1>4, <3>2, StageFacts DEF In
    <3>3. CASE a # Killer
      BY <1>5, <3>1, <3>3, StageFacts DEF In
    <3>4. QED
      BY <3>1, <3>2, <3>3
  <2>4. In(a = Killer) \in Nat
    BY DEF In
  <2>5. KillsDue' = KillsDue
    BY <2>1, <2>2, <2>3, <2>4 DEF KillsDue
  <2>6. QED
    BY <1>0, <1>1, <1>2, <2>5, KillCountsLemma
<1>19. ASSUME NEW s \in AllStage PROVE Books(w, s)
  <2>1. Entries(s) \in Nat /\ Entries(s)' = Entries(s)
    BY <1>0, <1>1, EntriesType DEF TypeOK, AllStage, Entries
  <2>2. /\ Holds(w, s) = In(a = s) /\ Takes(w, s) = In(a = s)
        /\ Holds(w, s)' = In(a = s) /\ Takes(w, s)' = 0
    BY <1>1, <1>2, <1>8, <1>9 DEF Holds, Takes, Puts, Serves, Adds, Fetches, In, a
  <2>3. Queued(s)' = Queued(s) - In(a = s) /\ Queued(s) \in Nat
    <3>1. Queued(s) \in Nat
      BY <1>0 DEF Queued
    <3>2. CASE a = s
      BY <1>4, <3>2 DEF In
    <3>3. CASE a # s
      BY <1>5, <3>1, <3>3 DEF In
    <3>4. QED
      BY <3>1, <3>2, <3>3
  <2>4. In(a = s) \in Nat /\ ref'[s] = ref[s] /\ ref[s] \in Nat
    BY <1>0, <1>1 DEF In, TypeOK, AllStage
  <2>5. QED
    BY <2>1, <2>2, <2>3, <2>4 DEF Books
<1>20. QED
  BY <1>0, <1>1, <1>3, <1>10, <1>11, <1>12, <1>13, <1>15, <1>17, <1>18, <1>19, StepInv

\* add_event, up to the unlock.
LEMMA PushLemma ==
  ASSUME TypeOK, Queues, NEW s \in AllStage, NEW e \in Event \cup {KillEvent},
         s \in Stage => e \in Event, Push(s, e)
  PROVE  /\ queue' \in [AllStage -> Seq(Event \cup {KillEvent})] /\ Queues'
         /\ ref' \in [AllStage -> Nat]
         /\ Queued(s)' = Queued(s) + 1
         /\ \A q \in AllStage \ {s} : Queued(q)' = Queued(q) /\ ref'[q] = ref[q]
         /\ \A q \in AllStage : Queued(q) \in Nat /\ ref[q] \in Nat
         /\ ref'[s] = ref[s] + In(connected[s])
<1>1. queue \in [AllStage -> Seq(Event \cup {KillEvent})] /\ ref \in [AllStage -> Nat]
  BY DEF TypeOK, AllStage
<1>2. /\ queue' = [queue EXCEPT ![s] = Append(@, e)]
      /\ ref' = IF connected[s] THEN [ref EXCEPT ![s] = @ + 1] ELSE ref
  BY DEF Push
<1>3. /\ queue' \in [AllStage -> Seq(Event \cup {KillEvent})] /\ queue'[s] = Append(queue[s], e)
      /\ \A q \in AllStage \ {s} : queue'[q] = queue[q]
  BY <1>1, <1>2
<1>4. Queues'
  <2> SUFFICES ASSUME NEW q \in Stage PROVE queue'[q] \in Seq(Event)
    BY DEF Queues
  <2>1. queue[q] \in Seq(Event) /\ q \in AllStage
    BY StageFacts DEF Queues
  <2>2. CASE q = s
    BY <1>3, <2>1, <2>2
  <2>3. CASE q # s
    BY <1>3, <2>1, <2>3
  <2>4. QED
    BY <2>2, <2>3
<1>5. /\ ref' \in [AllStage -> Nat] /\ \A q \in AllStage \ {s} : ref'[q] = ref[q]
      /\ ref'[s] = ref[s] + In(connected[s])
  <2>1. CASE connected[s]
    BY <1>1, <1>2, <2>1 DEF In
  <2>2. CASE ~connected[s]
    BY <1>1, <1>2, <2>2 DEF In
  <2>3. QED
    BY <2>1, <2>2
<1>6. Queued(s)' = Queued(s) + 1
  BY <1>1, <1>3 DEF Queued
<1>7. /\ \A q \in AllStage \ {s} : Queued(q)' = Queued(q)
      /\ \A q \in AllStage : Queued(q) \in Nat /\ ref[q] \in Nat
  BY <1>1, <1>3 DEF Queued
<1>8. QED
  BY <1>3, <1>4, <1>5, <1>6, <1>7

LEMMA PassOnInv ==
  ASSUME IInv, NEW w \in Worker, NEW s \in Stage, PassOn(w, s)
  PROVE  IInv'
<1> DEFINE p == IF connected[s] THEN "schedule" ELSE "release"
           a == at[w]
<1>0. /\ TypeOK /\ Places /\ Queues /\ Idles /\ KillCounts /\ WakeUps
      /\ w \in Thread /\ w # Owner /\ Owner \in Thread /\ s \in AllStage
      /\ a \in AllStage /\ inside \in [Worker -> AllStage] /\ tgt \in [Thread -> AllStage]
      /\ hops \in 0 .. MaxHops /\ Placed(w)
  BY ThreadFacts, StageFacts DEF IInv, TypeOK, AllStage, Places
<1>1. /\ pc[w] = "handle" /\ hops < MaxHops /\ hops' = hops + 1
      /\ Push(s, cur[w]) /\ pc' = [pc EXCEPT ![w] = p] /\ tgt' = [tgt EXCEPT ![w] = s]
      /\ inside' = [inside EXCEPT ![w] = a]
      /\ UNCHANGED <<connected, pool, runQueue, nIdles, nthreads, toKill, at, cur,
                     step, left, made, handled>>
  BY DEF PassOn, AfterPush, owner
<1>2. cur[w] \in Event /\ a \in Stage /\ a # Killer
  BY <1>0, <1>1, StageFacts DEF Placed
<1>3. /\ pc' \in [Thread -> AllPc] /\ pc'[w] = p /\ \A u \in Thread \ {w} : pc'[u] = pc[u]
  BY <1>0, <1>1, GoLemma DEF AllPc
<1>4. /\ queue' \in [AllStage -> Seq(Event \cup {KillEvent})] /\ Queues'
      /\ ref' \in [AllStage -> Nat]
      /\ Queued(s)' = Queued(s) + 1
      /\ \A q \in AllStage \ {s} : Queued(q)' = Queued(q) /\ ref'[q] = ref[q]
      /\ \A q \in AllStage : Queued(q) \in Nat /\ ref[q] \in Nat
      /\ ref'[s] = ref[s] + In(connected[s])
  BY <1>0, <1>1, <1>2, PushLemma
<1>5. /\ tgt' \in [Thread -> AllStage] /\ tgt'[w] = s /\ \A u \in Thread \ {w} : tgt'[u] = tgt[u]
      /\ inside' \in [Worker -> AllStage] /\ hops' \in 0 .. MaxHops
  BY <1>0, <1>1, SedaAssumption
<1>6. (p = "schedule" <=> connected[s]) /\ (p = "release" <=> ~connected[s]) /\ p \in {"schedule", "release"}
  OBVIOUS
<1>7. at'[w] = a /\ at' = at
  BY <1>1
<1> HIDE DEF a, p
<1>8. Moves(w) /\ Rests
  BY <1>0, <1>1, <1>3, <1>5, <1>7 DEF Moves, Rests
<1>9. TypeOK'
  BY <1>0, <1>1, <1>3, <1>4, <1>5 DEF TypeOK, AllPc, AllStage
<1>10. Placed(w)'
  BY <1>0, <1>2, <1>3, <1>6, <1>7, ThreadFacts DEF Placed, WorkerPc
<1>11. Idle' = Idle /\ Asleep' \subseteq Asleep /\ Doomed' = Doomed
  BY <1>1, <1>3, <1>6, ThreadFacts DEF Idle, Asleep, Doomed
<1>12. Idles'
  BY <1>0, <1>1, <1>11 DEF Idles
<1>13. Coming \subseteq Coming'
  BY <1>1, <1>2, <1>3, <1>6, <1>7, ThreadFacts DEF Coming
<1>14. WakeUps'
  <2>1. Len(runQueue) \in Nat
    BY <1>0 DEF TypeOK
  <2>2. QED
    BY <1>0, <1>1, <1>11, <1>13, <2>1, WakeUpsLemma
<1>15. KillCounts'
  <2>1. Queued(Killer)' = Queued(Killer)
    BY <1>4, StageFacts
  <2>2. QED
    BY <1>0, <1>1, <1>3, <1>11, <2>1, KillCountsLemma DEF KillsDue
<1>16. ASSUME NEW q \in AllStage PROVE Books(w, q)
  <2>1. Entries(q) \in Nat /\ Entries(q)' = Entries(q)
    BY <1>0, <1>1, EntriesType DEF TypeOK, AllStage, Entries
  <2>2. Holds(w, q) = In(a = q) /\ Takes(w, q) = 0 /\ In(a = q) \in Nat
    BY <1>1 DEF Holds, Takes, Puts, Serves, Adds, Fetches, In, a
  <2>3. CASE connected[s]
    <3>1. Holds(w, q)' = In(a = q) + In(q = s) /\ Takes(w, q)' = In(q = s) /\ In(q = s) \in Nat
      BY <1>3, <1>5, <1>6, <1>7, <2>3 DEF Holds, Takes, Puts, Serves, Adds, Fetches, In
    <3>2. /\ ref'[q] = ref[q] + In(q = s) /\ Queued(q)' = Queued(q) + In(q = s)
          /\ ref[q] \in Nat /\ Queued(q) \in Nat
      BY <1>4, <2>3 DEF In
    <3>3. QED
      BY <2>1, <2>2, <3>1, <3>2 DEF Books
  <2>4. CASE ~connected[s]
    <3>1. Holds(w, q)' = In(a = q) /\ Takes(w, q)' = 0
      BY <1>3, <1>5, <1>6, <1>7, <2>4 DEF Holds, Takes, Puts, Serves, Adds, Fetches, In
    <3>2. /\ ref'[q] = ref[q] /\ Queued(q)' = Queued(q) + In(q = s)
          /\ ref[q] \in Nat /\ Queued(q) \in Nat /\ In(q = s) \in 0 .. 1
      BY <1>4, <2>4 DEF In
    <3>3. QED
      BY <2>1, <2>2, <3>1, <3>2 DEF Books
  <2>5. QED
    BY <2>3, <2>4
<1>17. \A q \in AllStage : ref'[q] = ref[q] \/ connected[q]
  BY <1>4 DEF In
<1>18. QED
  BY <1>0, <1>1, <1>4, <1>8, <1>9, <1>10, <1>12, <1>14, <1>15, <1>16, <1>17, StepInv

\* Threadpool::schedule loses no wake-up: it signals, or the worker that
\* calls it comes for the entry itself.
LEMMA ScheduleLemma ==
  ASSUME IInv, NEW t \in Thread, pc[t] \in {"schedule", "backlog"},
         NEW p \in {"release", "kadd", "backlog", "idle"},
         t \in Worker => pc[t] = "schedule" /\ p = "release",
         Schedule(t, p), UNCHANGED <<at, tgt>>
  PROVE  /\ pc' \in [Thread -> AllPc] /\ pc'[t] = p /\ Moves(t)
         /\ \A u \in Thread \ (Worker \cup {t}) : pc'[u] = pc[u]
         /\ runQueue' \in Seq(AllStage)
         /\ Idle' = Idle /\ Doomed' = Doomed /\ WakeUps'
         /\ \A s : Entries(s) \in Nat /\ Entries(s)' = Entries(s) + In(tgt[t] = s)
<1>0. /\ pc \in [Thread -> AllPc] /\ runQueue \in Seq(AllStage) /\ tgt[t] \in AllStage
      /\ Len(runQueue) \in Nat /\ WakeUps /\ Idles /\ Placed(t) /\ p \in AllPc
  BY DEF IInv, TypeOK, AllPc, AllStage, Places
<1>1. runQueue' = Append(runQueue, tgt[t])
  BY DEF Schedule
<1>2. runQueue' \in Seq(AllStage) /\ Len(runQueue') = Len(runQueue) + 1
  BY <1>0, <1>1
<1>3. \A s : Entries(s) \in Nat /\ Entries(s)' = Entries(s) + In(tgt[t] = s)
  BY <1>0, <1>1, EntriesAppend
<1>4. /\ IsFiniteSet(Coming) /\ IsFiniteSet(Coming') /\ IsFiniteSet(Idle)
      /\ Cardinality(Coming) \in Nat /\ Cardinality(Coming') \in Nat /\ Cardinality(Idle) \in Nat
  <2>1. Coming \in SUBSET Worker /\ Coming' \in SUBSET Worker /\ Idle \in SUBSET Worker
    BY DEF Coming, Idle
  <2>2. QED
    BY <2>1, ThreadsFinite, FS_Subset, FS_CardinalityType
<1>5. t \in Worker => t \in Coming
  BY <1>0, StageFacts DEF Placed, Coming
<1>6. CASE Signals(t) /\ Asleep # {}
  <2>1. PICK w \in Asleep : pc' = [pc EXCEPT ![w] = "woken", ![t] = p]
    BY <1>6 DEF Schedule
  <2>2. w \in Worker /\ w \in Thread /\ pc[w] = "wait" /\ w # t
    BY <2>1, ThreadFacts DEF Asleep
  <2>3. /\ pc' \in [Thread -> AllPc] /\ pc'[t] = p /\ pc'[w] = "woken"
        /\ \A u \in Thread \ {w, t} : pc'[u] = pc[u]
    BY <1>0, <2>1, <2>2 DEF AllPc
  <2>4. Moves(t)
    BY <2>2, <2>3 DEF Moves, Woken
  <2>5. Idle' = Idle /\ Doomed' = Doomed
    BY <2>2, <2>3, ThreadFacts DEF Idle, Doomed
  <2>6. Coming' \ {w} = Coming \ {w} /\ w \in Coming' /\ w \notin Coming
    BY <1>5, <2>2, <2>3, ThreadFacts DEF Coming
  <2>7. Cardinality(Coming') = Cardinality(Coming) + In(w \in Coming') - In(w \in Coming)
    BY <1>4, <2>6, CardStep
  <2>8. Cardinality(Coming') = Cardinality(Coming) + 1
    BY <1>4, <2>6, <2>7 DEF In
  <2>9. WakeUps'
    BY <1>0, <1>2, <1>4, <1>6, <2>8 DEF WakeUps
  <2>10. QED
    BY <1>2, <1>3, <2>2, <2>3, <2>4, <2>5, <2>9
<1>7. CASE ~(Signals(t) /\ Asleep # {})
  <2>1. pc' = [pc EXCEPT ![t] = p]
    BY <1>7 DEF Schedule
  <2>2. /\ pc' \in [Thread -> AllPc] /\ pc'[t] = p /\ \A u \in Thread \ {t} : pc'[u] = pc[u]
    BY <1>0, <2>1
  <2>3. Moves(t)
    BY <2>2 DEF Moves
  <2>4. Idle' = Idle /\ Doomed' = Doomed /\ Asleep' = Asleep
    BY <2>2, ThreadFacts DEF Idle, Doomed, Asleep
  <2>5. WakeUps'
    <3>1. CASE Asleep = {}
      BY <2>4, <3>1 DEF WakeUps
    <3>2. CASE Asleep # {}
      <4>1. Idle # {}
        BY <3>2 DEF Asleep, Idle
      <4>2. Cardinality(Idle) # 0
        BY <1>4, <4>1, FS_EmptySet
      <4>3. nIdles > 0
        BY <1>0, <1>4, <4>2 DEF Idles
      <4>4. runQueue = <<>> /\ t \in Worker
        BY <1>7, <3>2, <4>3 DEF Signals
      <4>5. t \in Coming'
        BY <1>0, <2>2, <4>4, StageFacts DEF Coming, Placed
      <4>6. Cardinality(Coming') # 0
        BY <1>4, <4>5, FS_EmptySet
      <4>7. Len(runQueue') = 1
        BY <1>2, <4>4
      <4>8. QED
        BY <1>4, <4>6, <4>7 DEF WakeUps
    <3>3. QED
      BY <3>1, <3>2
  <2>6. QED
    BY <1>2, <1>3, <2>2, <2>3, <2>4, <2>5
<1>8. QED
  BY <1>6, <1>7

LEMMA WorkerScheduleInv ==
  ASSUME IInv, NEW w \in Worker, WorkerSchedule(w)
  PROVE  IInv'
<1>0. /\ TypeOK /\ Places /\ Queues /\ Idles /\ KillCounts /\ Placed(w)
      /\ w \in Thread /\ w # Owner /\ Owner \in Thread \ (Worker \cup {w}) /\ Owner \in Thread
  BY ThreadFacts DEF IInv, Places
<1>1. /\ pc[w] = "schedule" /\ Schedule(w, "release")
      /\ UNCHANGED <<queue, connected, ref, pool, nIdles, nthreads, toKill, at, inside, cur,
                     tgt, step, left, made, hops, handled>>
  BY DEF WorkerSchedule, stages, workers, owner, counts
<1>2. /\ pc' \in [Thread -> AllPc] /\ pc'[w] = "release" /\ Moves(w)
      /\ \A u \in Thread \ (Worker \cup {w}) : pc'[u] = pc[u]
      /\ runQueue' \in Seq(AllStage)
      /\ Idle' = Idle /\ Doomed' = Doomed /\ WakeUps'
      /\ \A s : Entries(s) \in Nat /\ Entries(s)' = Entries(s) + In(tgt[w] = s)
  BY <1>0, <1>1, ScheduleLemma
<1>3. Rests
  BY <1>0, <1>1, <1>2 DEF Rests
<1>4. TypeOK'
  BY <1>0, <1>1, <1>2 DEF TypeOK, AllPc, AllStage
<1>5. Placed(w)' /\ Queues' /\ Idles'
  BY <1>0, <1>1, <1>2, ThreadFacts DEF Placed, WorkerPc, Queues, Idles
<1>6. KillCounts'
  BY <1>0, <1>1, <1>2, KillCountsLemma DEF KillsDue, Queued
<1>7. ASSUME NEW s \in AllStage PROVE Books(w, s)
  <2>1. Queued(s)' = Queued(s) /\ Queued(s) \in Nat /\ ref'[s] = ref[s] /\ ref[s] \in Nat
    BY <1>0, <1>1 DEF Queued, TypeOK, AllStage
  <2>2. /\ Holds(w, s) = In(tgt[w] = s) + In(at[w] = s) /\ Takes(w, s) = In(tgt[w] = s)
        /\ Holds(w, s)' = In(at[w] = s) /\ Takes(w, s)' = 0
        /\ In(tgt[w] = s) \in Nat /\ In(at[w] = s) \in Nat
    BY <1>1, <1>2 DEF Holds, Takes, Puts, Serves, Adds, Fetches, In
  <2>3. Entries(s) \in Nat /\ Entries(s)' = Entries(s) + In(tgt[w] = s)
    BY <1>2
  <2>4. QED
    BY <2>1, <2>2, <2>3 DEF Books
<1>8. QED
  BY <1>0, <1>1, <1>2, <1>3, <1>4, <1>5, <1>6, <1>7, StepInv

\* A stage that a worker serves owes something.
LEMMA ServedOwes ==
  ASSUME IInv, NEW w \in Worker, Serves(w, at[w])
  PROVE  ref[at[w]] \in Nat /\ ref[at[w]] > 0
<1> DEFINE a == at[w]
<1>0. a \in AllStage /\ ref[a] \in Nat /\ left \in Nat /\ runQueue \in Seq(AllStage)
  BY DEF IInv, TypeOK, AllStage
<1>1. Entries(a) \in Nat /\ OwnerLeft(a) \in Nat
  BY <1>0, EntriesType DEF OwnerLeft
<1>2. w \in Serving(a)
  BY DEF Serves, Serving
<1>3. /\ IsFiniteSet(Scheduling(a)) /\ IsFiniteSet(Serving(a)) /\ IsFiniteSet(Adding(a))
  <2>1. /\ Scheduling(a) \in SUBSET Thread /\ Serving(a) \in SUBSET Worker
        /\ Adding(a) \in SUBSET Worker
    BY DEF Scheduling, Serving, Adding
  <2>2. QED
    BY <2>1, ThreadsFinite, FS_Subset
<1>4. /\ Cardinality(Scheduling(a)) \in Nat /\ Cardinality(Serving(a)) \in Nat
      /\ Cardinality(Adding(a)) \in Nat /\ Cardinality(Serving(a)) # 0
  BY <1>2, <1>3, FS_CardinalityType, FS_EmptySet
<1>5. ref[a] = Entries(a) + OwnerLeft(a) + InHands(a)
  BY <1>0 DEF IInv, Counted
<1> HIDE DEF a
<1>6. ref[a] > 0
  BY <1>0, <1>1, <1>4, <1>5 DEF InHands
<1>7. QED
  BY <1>0, <1>6 DEF a

LEMMA ReleaseInv ==
  ASSUME IInv, NEW w \in Worker, Release(w)
  PROVE  IInv'
<1> DEFINE a == at[w]
           p == IF a = Killer THEN "dead" ELSE "loop"
           b == [pc EXCEPT ![w] = p]
<1>0. /\ TypeOK /\ Places /\ Queues /\ Idles /\ KillCounts /\ WakeUps
      /\ w \in Thread /\ w # Owner /\ Owner \in Thread
      /\ a \in AllStage /\ ref \in [AllStage -> Nat] /\ pc \in [Thread -> AllPc]
  BY ThreadFacts DEF IInv, TypeOK, AllStage, AllPc
<1>1. /\ pc[w] = "release" /\ ref' = [ref EXCEPT ![a] = @ - 1] /\ pc' = Told(a, b)
      /\ UNCHANGED <<queue, connected, pool, runQueue, nIdles, nthreads, toKill, at, inside, cur,
                     tgt, step, left, made, hops, handled>>
  BY DEF Release, workers, owner, counts
<1>2. (p = "dead" <=> a = Killer) /\ (p = "loop" <=> a # Killer) /\ p \in {"dead", "loop"}
  OBVIOUS
<1> HIDE DEF p
<1>3. b \in [Thread -> AllPc] /\ b[w] = p /\ \A u \in Thread \ {w} : b[u] = pc[u]
  BY <1>0, <1>2 DEF AllPc
<1> HIDE DEF b
<1>4. /\ pc' \in [Thread -> AllPc] /\ pc'[w] = p /\ \A u \in Thread \ {w, Owner} : pc'[u] = pc[u]
      /\ pc'[Owner] = pc[Owner] \/ (pc[Owner] = "dwait" /\ pc'[Owner] = "dwoken")
  <2>1. pc' = b \/ (b[Owner] = "dwait" /\ pc' = [b EXCEPT ![Owner] = "dwoken"])
    BY <1>1 DEF Told
  <2>2. CASE pc' = b
    BY <1>0, <1>3, <2>2
  <2>3. CASE b[Owner] = "dwait" /\ pc' = [b EXCEPT ![Owner] = "dwoken"]
    BY <1>0, <1>3, <2>3 DEF AllPc
  <2>4. QED
    BY <2>1, <2>2, <2>3
<1>5. ref[a] \in Nat /\ ref[a] > 0
  BY <1>1, ServedOwes DEF Serves
<1>6. /\ ref' \in [AllStage -> Nat] /\ ref'[a] = ref[a] - 1
      /\ \A s \in AllStage \ {a} : ref'[s] = ref[s]
  BY <1>0, <1>1, <1>5
<1>7. at'[w] = a /\ at' = at
  BY <1>1
<1> HIDE DEF a
<1>8. Moves(w) /\ Rests
  BY <1>0, <1>1, <1>4 DEF Moves, Rests, Woken
<1>9. TypeOK'
  BY <1>0, <1>1, <1>4, <1>6 DEF TypeOK, AllPc, AllStage
<1>10. Placed(w)' /\ Queues'
  BY <1>0, <1>1, <1>2, <1>4, ThreadFacts DEF Placed, WorkerPc, Queues
<1>11. \A u \in Worker \ {w} : pc'[u] = pc[u] /\ at'[u] = at[u]
  BY <1>4, <1>7, ThreadFacts
<1>12. Idle' = Idle /\ Asleep' = Asleep /\ Doomed' = Doomed
  BY <1>1, <1>2, <1>4, <1>11 DEF Idle, Asleep, Doomed
<1>13. Idles'
  BY <1>0, <1>1, <1>12 DEF Idles
<1>14. Coming \subseteq Coming'
  BY <1>1, <1>2, <1>4, <1>11 DEF Coming, a
<1>15. WakeUps'
  <2>1. Len(runQueue) \in Nat
    BY <1>0 DEF TypeOK
  <2>2. QED
    BY <1>0, <1>1, <1>12, <1>14, <2>1, WakeUpsLemma
<1>16. KillCounts'
  BY <1>0, <1>1, <1>4, <1>12, KillCountsLemma DEF KillsDue, Queued, Woken
<1>17. ASSUME NEW s \in AllStage PROVE Books(w, s)
  <2>1. Entries(s) \in Nat /\ Entries(s)' = Entries(s)
    BY <1>0, <1>1, EntriesType DEF TypeOK, AllStage, Entries
  <2>2. Queued(s) \in Nat /\ Queued(s)' = Queued(s)
    BY <1>0, <1>1 DEF Queued, TypeOK, AllStage
  <2>3. Holds(w, s) = In(a = s) /\ Takes(w, s) = 0 /\ Holds(w, s)' = 0 /\ Takes(w, s)' = 0
    BY <1>1, <1>2, <1>4 DEF Holds, Takes, Puts, Serves, Adds, Fetches, In, a
  <2>4. ref'[s] = ref[s] - In(a = s) /\ ref[s] \in Nat /\ In(a = s) \in Nat
    BY <1>0, <1>6 DEF In
  <2>5. QED
    BY <2>1, <2>2, <2>3, <2>4 DEF Books
<1>18. \A s \in AllStage : ref'[s] = ref[s] \/ ref'[s] < ref[s]
  BY <1>5, <1>6
<1>19. QED
  BY <1>0, <1>1, <1>8, <1>9, <1>10, <1>13, <1>15, <1>16, <1>17, <1>18, StepInv

\* thread_kill: there is a kill event for each thread that is left, so the
\* counters do not pass zero and the last thread is the one that tells.
LEMMA ThreadKillInv ==
  ASSUME IInv, NEW w \in Worker, ThreadKill(w)
  PROVE  IInv'
<1> DEFINE o == IF toKill = 1 /\ pc[Owner] = "kwait" THEN "kwoken" ELSE pc[Owner]
<1>0. /\ TypeOK /\ Places /\ Queues /\ Idles /\ KillCounts /\ WakeUps /\ Phases /\ Placed(w)
      /\ w \in Thread /\ w # Owner /\ Owner \in Thread /\ pc \in [Thread -> AllPc]
      /\ nthreads \in 0 .. Cardinality(Worker) /\ toKill \in 0 .. Cardinality(Worker)
  BY ThreadFacts DEF IInv, TypeOK, AllPc, Places
<1>1. /\ pc[w] = "kill" /\ ~ThreadMutexHeld /\ nthreads' = nthreads - 1 /\ toKill' = toKill - 1
      /\ pc' = [pc EXCEPT ![w] = "release",
                          ![Owner] = IF toKill = 1 /\ @ = "kwait" THEN "kwoken" ELSE @]
      /\ UNCHANGED <<queue, connected, ref, pool, runQueue, nIdles, at, inside, cur,
                     tgt, step, left, made, hops, handled>>
  BY DEF ThreadKill, stages, workers, owner, counts
<1>2. /\ Cardinality(Worker) \in Nat /\ IsFiniteSet(Doomed)
      /\ Cardinality(Doomed) \in Nat /\ Cardinality(Doomed) # 0
  <2>1. w \in Doomed /\ Doomed \in SUBSET Worker
    BY <1>1 DEF Doomed
  <2>2. QED
    BY <2>1, ThreadsFinite, FS_Subset, FS_CardinalityType, FS_EmptySet
<1>3. Queued(Killer) \in Nat
  BY <1>0, StageFacts DEF Queued, TypeOK, AllStage
<1>4. pc[Owner] \notin {"kadd", "schedule"}
  BY <1>0, <1>1 DEF ThreadMutexHeld, Phases
<1>5. KillsDue = toKill /\ toKill \in Nat /\ toKill > 0
  BY <1>0, <1>2, <1>3, <1>4 DEF KillCounts, AfterKill, KillsDue
<1>6. step = Killer /\ nthreads = toKill
  BY <1>0, <1>5 DEF KillCounts, AfterKill
<1>7. /\ pc' \in [Thread -> AllPc] /\ pc'[w] = "release" /\ pc'[Owner] = o
      /\ \A u \in Thread \ {w, Owner} : pc'[u] = pc[u]
  BY <1>0, <1>1, <1>6 DEF AllPc
<1>8. (o = pc[Owner] \/ Woken(pc[Owner], o)) /\ o \notin {"kadd", "schedule"}
  BY <1>4 DEF Woken
<1> HIDE DEF o
<1>9. Moves(w)
  BY <1>1, <1>6, <1>7, <1>8 DEF Moves, Woken
<1>10. Rests
  BY <1>1, <1>6, <1>7, <1>8 DEF Rests, Woken
<1>11. nthreads' \in 0 .. Cardinality(Worker) /\ toKill' \in 0 .. Cardinality(Worker)
  BY <1>0, <1>1, <1>2, <1>5, <1>6
<1>12. TypeOK'
  BY <1>0, <1>1, <1>7, <1>11 DEF TypeOK, AllPc
<1>13. Placed(w)' /\ Queues'
  BY <1>0, <1>1, <1>7, ThreadFacts DEF Placed, WorkerPc, Queues
<1>14. \A u \in Worker \ {w} : pc'[u] = pc[u] /\ at'[u] = at[u]
  BY <1>1, <1>7, ThreadFacts
<1>15. Idle' = Idle /\ Asleep' = Asleep
  BY <1>1, <1>7, <1>14 DEF Idle, Asleep
<1>16. Idles'
  BY <1>0, <1>1, <1>15 DEF Idles
<1>17. Coming \subseteq Coming'
  BY <1>1, <1>14 DEF Coming
<1>18. WakeUps'
  <2>1. Len(runQueue) \in Nat
    BY <1>0 DEF TypeOK
  <2>2. QED
    BY <1>0, <1>1, <1>15, <1>17, <2>1, WakeUpsLemma
<1>19. KillCounts'
  <2>1. Cardinality(Doomed)' = Cardinality(Doomed) + In(w \in Doomed)' - In(w \in Doomed)
    BY <1>0, <1>9, MovesLemma
  <2>2. In(w \in Doomed) = 1 /\ In(w \in Doomed)' = 0
    BY <1>1, <1>7 DEF In, Doomed
  <2>3. Queued(Killer)' = Queued(Killer)
    BY <1>1 DEF Queued
  <2>4. KillsDue' = toKill - 1
    BY <1>2, <1>3, <1>5, <2>1, <2>2, <2>3 DEF KillsDue
  <2>5. QED
    BY <1>1, <1>6, <1>7, <1>8, <2>4 DEF KillCounts, AfterKill
<1>20. ASSUME NEW s \in AllStage PROVE Books(w, s)
  <2>1. Holds(w, s)' = Holds(w, s) /\ Takes(w, s)' = Takes(w, s) /\ Takes(w, s) \in Nat
    BY <1>1, <1>7 DEF Holds, Takes, Puts, Serves, Adds, Fetches, In
  <2>2. QED
    BY <1>0, <1>1, <2>1, BooksSame
<1>21. QED
  BY <1>0, <1>1, <1>9, <1>10, <1>12, <1>13, <1>16, <1>18, <1>19, <1>20, StepInv

-----------------------------------------------------------------------------
(* The network and the timer thread *)

LEMMA AddEventInv ==
  ASSUME IInv, NEW t \in Outside, NEW s \in Stage, AddEvent(t, s)
  PROVE  IInv'
<1> DEFINE p == IF connected[s] THEN "schedule" ELSE "idle"
<1>0. /\ TypeOK /\ Places /\ Queues /\ Idles /\ KillCounts /\ WakeUps
      /\ t \in Thread /\ t # Owner /\ t \notin Worker /\ Owner \in Thread /\ s \in AllStage
      /\ tgt \in [Thread -> AllStage] /\ made \in 0 .. MaxEvent
  BY ThreadFacts, StageFacts DEF IInv, TypeOK, AllStage
<1>1. /\ pc[t] = "idle" /\ made < MaxEvent /\ made' = made + 1
      /\ Push(s, made + 1) /\ pc' = [pc EXCEPT ![t] = p] /\ tgt' = [tgt EXCEPT ![t] = s]
      /\ UNCHANGED <<connected, pool, runQueue, nIdles, nthreads, toKill, at, inside, cur,
                     step, left, hops, handled>>
  BY DEF AddEvent, AfterPush, workers, owner
<1>2. made + 1 \in Event /\ made' \in 0 .. MaxEvent
  BY <1>0, <1>1, SedaAssumption DEF Event
<1>3. /\ pc' \in [Thread -> AllPc] /\ pc'[t] = p /\ \A u \in Thread \ {t} : pc'[u] = pc[u]
  BY <1>0, <1>1, GoLemma DEF AllPc
<1>4. /\ queue' \in [AllStage -> Seq(Event \cup {KillEvent})] /\ Queues'
      /\ ref' \in [AllStage -> Nat]
      /\ Queued(s)' = Queued(s) + 1
      /\ \A q \in AllStage \ {s} : Queued(q)' = Queued(q) /\ ref'[q] = ref[q]
      /\ \A q \in AllStage : Queued(q) \in Nat /\ ref[q] \in Nat
      /\ ref'[s] = ref[s] + In(connected[s])
  BY <1>0, <1>1, <1>2, PushLemma
<1>5. /\ tgt' \in [Thread -> AllStage] /\ tgt'[t] = s /\ \A u \in Thread \ {t} : tgt'[u] = tgt[u]
  BY <1>0, <1>1
<1>6. (p = "schedule" <=> connected[s]) /\ (p = "idle" <=> ~connected[s]) /\ p \in {"schedule", "idle"}
  OBVIOUS
<1> HIDE DEF p
<1>7. Moves(t) /\ Rests
  BY <1>0, <1>1, <1>3, <1>5 DEF Moves, Rests
<1>8. TypeOK'
  BY <1>0, <1>1, <1>2, <1>3, <1>4, <1>5 DEF TypeOK, AllPc, AllStage
<1>9. Placed(t)'
  BY <1>0, <1>3, <1>6 DEF Placed, OutsidePc
<1>10. \A u \in Worker : pc'[u] = pc[u] /\ at'[u] = at[u] /\ cur'[u] = cur[u]
  BY <1>0, <1>1, <1>3, ThreadFacts
<1>11. Idle' = Idle /\ Asleep' = Asleep /\ Doomed' = Doomed /\ Coming' = Coming
  BY <1>10 DEF Idle, Asleep, Doomed, Coming
<1>12. Idles'
  BY <1>0, <1>1, <1>11 DEF Idles
<1>13. WakeUps'
  BY <1>0, <1>1, <1>11 DEF WakeUps
<1>14. KillCounts'
  <2>1. Queued(Killer)' = Queued(Killer)
    BY <1>4, StageFacts
  <2>2. QED
    BY <1>0, <1>1, <1>3, <1>11, <2>1, KillCountsLemma DEF KillsDue
<1>15. ASSUME NEW q \in AllStage PROVE Books(t, q)
  <2>1. Entries(q) \in Nat /\ Entries(q)' = Entries(q)
    BY <1>0, <1>1, EntriesType DEF TypeOK, AllStage, Entries
  <2>2. Holds(t, q) = 0 /\ Takes(t, q) = 0
    BY <1>0, <1>1 DEF Holds, Takes, Puts, Serves, Adds, Fetches, In
  <2>3. CASE connected[s]
    <3>1. Holds(t, q)' = In(q = s) /\ Takes(t, q)' = In(q = s) /\ In(q = s) \in Nat
      BY <1>0, <1>3, <1>5, <1>6, <2>3 DEF Holds, Takes, Puts, Serves, Adds, Fetches, In
    <3>2. /\ ref'[q] = ref[q] + In(q = s) /\ Queued(q)' = Queued(q) + In(q = s)
          /\ ref[q] \in Nat /\ Queued(q) \in Nat
      BY <1>4, <2>3 DEF In
    <3>3. QED
      BY <2>1, <2>2, <3>1, <3>2 DEF Books
  <2>4. CASE ~connected[s]
    <3>1. Holds(t, q)' = 0 /\ Takes(t, q)' = 0
      BY <1>0, <1>3, <1>5, <1>6, <2>4 DEF Holds, Takes, Puts, Serves, Adds, Fetches, In
    <3>2. /\ ref'[q] = ref[q] /\ Queued(q)' = Queued(q) + In(q = s)
          /\ ref[q] \in Nat /\ Queued(q) \in Nat /\ In(q = s) \in 0 .. 1
      BY <1>4, <2>4 DEF In
    <3>3. QED
      BY <2>1, <2>2, <3>1, <3>2 DEF Books
  <2>5. QED
    BY <2>3, <2>4
<1>16. \A q \in AllStage : ref'[q] = ref[q] \/ connected[q]
  BY <1>4 DEF In
<1>17. QED
  BY <1>0, <1>4, <1>7, <1>8, <1>9, <1>10, <1>12, <1>13, <1>14, <1>15, <1>16, StepInv

LEMMA OutsideScheduleInv ==
  ASSUME IInv, NEW t \in Outside, OutsideSchedule(t)
  PROVE  IInv'
<1>0. /\ TypeOK /\ Places /\ Queues /\ Idles /\ KillCounts
      /\ t \in Thread /\ t # Owner /\ t \notin Worker
      /\ Owner \in Thread \ (Worker \cup {t}) /\ Owner \in Thread
  BY ThreadFacts DEF IInv, Places
<1>1. /\ pc[t] = "schedule" /\ Schedule(t, "idle")
      /\ UNCHANGED <<queue, connected, ref, pool, nIdles, nthreads, toKill, at, inside, cur,
                     tgt, step, left, made, hops, handled>>
  BY DEF OutsideSchedule, stages, workers, owner, counts
<1>2. /\ pc' \in [Thread -> AllPc] /\ pc'[t] = "idle" /\ Moves(t)
      /\ \A u \in Thread \ (Worker \cup {t}) : pc'[u] = pc[u]
      /\ runQueue' \in Seq(AllStage)
      /\ Idle' = Idle /\ Doomed' = Doomed /\ WakeUps'
      /\ \A s : Entries(s) \in Nat /\ Entries(s)' = Entries(s) + In(tgt[t] = s)
  BY <1>0, <1>1, ScheduleLemma
<1>3. Rests
  BY <1>0, <1>1, <1>2 DEF Rests
<1>4. TypeOK'
  BY <1>0, <1>1, <1>2 DEF TypeOK, AllPc, AllStage
<1>5. Placed(t)' /\ Queues' /\ Idles'
  BY <1>0, <1>1, <1>2 DEF Placed, OutsidePc, Queues, Idles
<1>6. KillCounts'
  BY <1>0, <1>1, <1>2, KillCountsLemma DEF KillsDue, Queued
<1>7. ASSUME NEW s \in AllStage PROVE Books(t, s)
  <2>1. Queued(s)' = Queued(s) /\ Queued(s) \in Nat /\ ref'[s] = ref[s] /\ ref[s] \in Nat
    BY <1>0, <1>1 DEF Queued, TypeOK, AllStage
  <2>2. /\ Holds(t, s) = In(tgt[t] = s) /\ Takes(t, s) = In(tgt[t] = s)
        /\ Holds(t, s)' = 0 /\ Takes(t, s)' = 0 /\ In(tgt[t] = s) \in Nat
    BY <1>0, <1>1, <1>2 DEF Holds, Takes, Puts, Serves, Adds, Fetches, In
  <2>3. Entries(s) \in Nat /\ Entries(s)' = Entries(s) + In(tgt[t] = s)
    BY <1>2
  <2>4. QED
    BY <2>1, <2>2, <2>3 DEF Books
<1>8. QED
  BY <1>0, <1>1, <1>2, <1>3, <1>4, <1>5, <1>6, <1>7, StepInv

-----------------------------------------------------------------------------
(* The owner *)

\* What remains to be shown of a step of the owner.
LEMMA OwnerInv ==
  ASSUME IInv, Moves(Owner), pc'[Owner] \in OwnerPc, cur' = cur,
         TypeOK', Queues', Phases', Owing', Idles', KillCounts', Counted', Supplied', WakeUps'
  PROVE  IInv'
<1>1. Owner \in Thread /\ Places /\ Placed(Owner)'
  BY ThreadFacts DEF IInv, Placed
<1>2. Places'
  BY <1>1, PlacesLemma
<1>3. QED
  BY <1>2 DEF IInv

\* The owner goes to p; the workers are where they were.
LEMMA OwnerGoes ==
  ASSUME IInv, NEW p \in AllPc, pc' = [pc EXCEPT ![Owner] = p], UNCHANGED <<at, nIdles, runQueue>>,
         tgt' \in [Thread -> AllStage], \A u \in Thread \ {Owner} : tgt'[u] = tgt[u]
  PROVE  /\ pc' \in [Thread -> AllPc] /\ pc'[Owner] = p /\ Moves(Owner)
         /\ Doomed' = Doomed /\ Idles' /\ WakeUps'
<1>0. TypeOK /\ Owner \in Thread /\ Idles /\ WakeUps
  BY ThreadFacts DEF IInv
<1>1. pc' \in [Thread -> AllPc] /\ pc'[Owner] = p /\ \A u \in Thread \ {Owner} : pc'[u] = pc[u]
  BY <1>0, GoLemma
<1>2. Moves(Owner)
  BY <1>1 DEF Moves
<1>3. Doomed' = Doomed /\ Idle' = Idle /\ Asleep' = Asleep /\ Coming' = Coming
  BY <1>1, ThreadFacts DEF Doomed, Idle, Asleep, Coming
<1>4. QED
  BY <1>0, <1>1, <1>2, <1>3 DEF Idles, WakeUps

\* What is still to be taken of a stage is part of what it owes.
LEMMA DueLemma ==
  ASSUME IInv, NEW s \in AllStage
  PROVE  /\ Entries(s) \in Nat /\ OwnerLeft(s) \in Nat /\ ToTake(s) \in Nat /\ ref[s] \in Nat
         /\ Cardinality(Scheduling(s)) \in Nat /\ Cardinality(Serving(s)) \in Nat
         /\ Cardinality(Adding(s)) \in Nat /\ Cardinality(Removing(s)) \in Nat
         /\ Entries(s) + OwnerLeft(s) + ToTake(s) <= ref[s]
<1>0. ref[s] \in Nat /\ left \in Nat /\ runQueue \in Seq(AllStage)
  BY DEF IInv, TypeOK, AllStage
<1>1. Entries(s) \in Nat /\ OwnerLeft(s) \in Nat
  BY <1>0, EntriesType DEF OwnerLeft
<1>2. /\ IsFiniteSet(Scheduling(s)) /\ IsFiniteSet(Serving(s)) /\ IsFiniteSet(Adding(s))
      /\ IsFiniteSet(Removing(s)) /\ Cardinality(Removing(s)) <= Cardinality(Serving(s))
  <2>1. /\ Scheduling(s) \in SUBSET Thread /\ Serving(s) \in SUBSET Worker
        /\ Adding(s) \in SUBSET Worker /\ Removing(s) \in SUBSET Serving(s)
    BY DEF Scheduling, Serving, Adding, Removing
  <2>2. IsFiniteSet(Scheduling(s)) /\ IsFiniteSet(Serving(s)) /\ IsFiniteSet(Adding(s))
    BY <2>1, ThreadsFinite, FS_Subset
  <2>3. QED
    BY <2>1, <2>2, FS_Subset
<1>3. /\ Cardinality(Scheduling(s)) \in Nat /\ Cardinality(Serving(s)) \in Nat
      /\ Cardinality(Adding(s)) \in Nat /\ Cardinality(Removing(s)) \in Nat
  BY <1>2, FS_CardinalityType
<1>4. ref[s] = Entries(s) + OwnerLeft(s) + InHands(s)
  BY DEF IInv, Counted
<1>5. QED
  BY <1>0, <1>1, <1>2, <1>3, <1>4 DEF InHands, ToTake

\* What the owner does to a stage's books; the queue may also be of a stage
\* of which nothing was to be taken.
Accounts(s) ==
  /\ ref'[s] - ref[s] = (Entries(s)' - Entries(s)) + (OwnerLeft(s)' - OwnerLeft(s))
                        + (Holds(Owner, s)' - Holds(Owner, s))
  /\ \/ (Entries(s)' - Entries(s)) + (OwnerLeft(s)' - OwnerLeft(s))
          + (Takes(Owner, s)' - Takes(Owner, s)) <= Queued(s)' - Queued(s)
     \/ /\ ToTake(s) = 0 /\ Takes(Owner, s)' = Takes(Owner, s)
        /\ Entries(s)' + OwnerLeft(s)' <= Queued(s)'

LEMMA AccountsLemma ==
  ASSUME IInv, Moves(Owner), TypeOK', \A s \in AllStage : Accounts(s)
  PROVE  Counted' /\ Supplied'
<1>0. TypeOK /\ Counted /\ Supplied /\ Owner \in Thread
  BY ThreadFacts DEF IInv
<1>1. ASSUME NEW s \in AllStage
      PROVE  Entries(s)' \in Nat /\ Queued(s)' \in Nat /\ OwnerLeft(s)' \in Nat /\ ref'[s] \in Nat
  <2>1. /\ runQueue' \in Seq(AllStage) /\ queue'[s] \in Seq(Event \cup {KillEvent})
        /\ left' \in Nat /\ ref'[s] \in Nat
    BY <1>1 DEF TypeOK, AllStage
  <2>2. {i \in DOMAIN runQueue' : runQueue'[i] = s} \in SUBSET (1 .. Len(runQueue'))
    BY <2>1
  <2>3. IsFiniteSet(1 .. Len(runQueue'))
    BY <2>1, FS_Interval
  <2>4. Entries(s)' \in Nat
    BY <2>2, <2>3, FS_Subset, FS_CardinalityType DEF Entries
  <2>5. Queued(s)' \in Nat
    BY <2>1 DEF Queued
  <2>6. OwnerLeft(s)' \in Nat
    BY <2>1 DEF OwnerLeft
  <2>7. QED
    BY <2>1, <2>4, <2>5, <2>6
<1>2. ASSUME NEW s \in AllStage
      PROVE  /\ ref'[s] = Entries(s)' + OwnerLeft(s)' + InHands(s)'
             /\ Entries(s)' + OwnerLeft(s)' + ToTake(s)' <= Queued(s)'
  <2>1. Accounts(s)
    BY <1>2
  <2>2. ref'[s] = Entries(s)' + OwnerLeft(s)' + InHands(s)'
    BY <1>0, <1>1, <2>1, CountedStep DEF Accounts
  <2>3. CASE /\ ToTake(s) = 0 /\ Takes(Owner, s)' = Takes(Owner, s)
             /\ Entries(s)' + OwnerLeft(s)' <= Queued(s)'
    <3>1. ToTake(s)' = ToTake(s) + Takes(Owner, s)' - Takes(Owner, s)
      BY <1>0, MovesLemma
    <3>2. Takes(Owner, s) \in Nat
      BY DEF Takes, In
    <3>3. ToTake(s)' = 0
      BY <2>3, <3>1, <3>2
    <3>4. QED
      BY <1>1, <2>2, <2>3, <3>3
  <2>4. CASE (Entries(s)' - Entries(s)) + (OwnerLeft(s)' - OwnerLeft(s))
               + (Takes(Owner, s)' - Takes(Owner, s)) <= Queued(s)' - Queued(s)
    BY <1>0, <1>1, <2>2, <2>4, SuppliedStep
  <2>5. QED
    BY <2>1, <2>3, <2>4 DEF Accounts
<1>3. QED
  BY <1>2 DEF Counted, Supplied

\* A step that schedules nothing and touches no queue.
LEMMA AccountsSame ==
  ASSUME IInv, Moves(Owner), TypeOK', UNCHANGED <<queue, ref, runQueue>>,
         pc[Owner] \notin {"backlog", "schedule"}, pc'[Owner] \notin {"backlog", "schedule"}
  PROVE  Counted' /\ Supplied'
<1>1. ASSUME NEW s \in AllStage PROVE Accounts(s)
  <2>1. Entries(s)' = Entries(s) /\ Queued(s)' = Queued(s) /\ ref' = ref
    BY DEF Entries, Queued
  <2>2. Entries(s) \in Nat /\ Queued(s) \in Nat /\ ref[s] \in Nat
    <3>1. /\ runQueue \in Seq(AllStage) /\ ref \in [AllStage -> Nat]
          /\ queue \in [AllStage -> Seq(Event \cup {KillEvent})]
      BY DEF IInv, TypeOK, AllStage
    <3>2. QED
      BY <3>1, EntriesType DEF Queued
  <2>3. /\ Holds(Owner, s) = 0 /\ Holds(Owner, s)' = 0
        /\ Takes(Owner, s) = 0 /\ Takes(Owner, s)' = 0
        /\ OwnerLeft(s) = 0 /\ OwnerLeft(s)' = 0
    BY ThreadFacts DEF Holds, Takes, Puts, Serves, Adds, Fetches, In, OwnerLeft
  <2>4. QED
    BY <2>1, <2>2, <2>3 DEF Accounts
<1>2. QED
  BY <1>1, AccountsLemma

LEMMA CleanupInv ==
  ASSUME IInv, Cleanup
  PROVE  IInv'
<1>0. TypeOK /\ Queues /\ Phases /\ Owing /\ KillCounts /\ tgt \in [Thread -> AllStage]
  BY DEF IInv, TypeOK, AllStage
<1>1. /\ pc[Owner] = "run" /\ pc' = [pc EXCEPT ![Owner] = "disconnect"] /\ step' = 1
      /\ UNCHANGED <<queue, connected, ref, pool, runQueue, nIdles, nthreads, toKill,
                     at, inside, cur, tgt, left, made, hops, handled>>
  BY DEF Cleanup, stages, workers, counts
<1>2. /\ pc' \in [Thread -> AllPc] /\ pc'[Owner] = "disconnect" /\ Moves(Owner)
      /\ Doomed' = Doomed /\ Idles' /\ WakeUps'
  BY <1>0, <1>1, OwnerGoes DEF AllPc
<1>3. TypeOK' /\ Queues'
  BY <1>0, <1>1, <1>2, StageFacts DEF TypeOK, Queues, AllPc, AllStage
<1>4. Phases'
  <2>1. \A s \in Stage : 1 <= s
    BY SedaAssumption DEF Stage
  <2>2. QED
    BY <1>0, <1>1, <1>2, <2>1, StageFacts DEF Phases, Waiting
<1>5. Owing'
  BY <1>0, <1>1, <1>2 DEF Owing, Waiting
<1>6. KillCounts'
  BY <1>0, <1>1, <1>2, StageFacts DEF Phases, KillCounts, AfterKill, KillsDue, Queued
<1>7. Counted' /\ Supplied'
  BY <1>1, <1>2, <1>3, AccountsSame
<1>8. QED
  BY <1>1, <1>2, <1>3, <1>4, <1>5, <1>6, <1>7, OwnerInv DEF OwnerPc

LEMMA DisconnectWakesInv ==
  ASSUME IInv, DisconnectWakes
  PROVE  IInv'
<1>0. TypeOK /\ Queues /\ Phases /\ Owing /\ KillCounts /\ tgt \in [Thread -> AllStage]
  BY DEF IInv, TypeOK, AllStage
<1>1. /\ pc[Owner] = "dwait" /\ pc' = [pc EXCEPT ![Owner] = "dwoken"]
      /\ UNCHANGED <<queue, connected, ref, pool, runQueue, nIdles, nthreads, toKill,
                     at, inside, cur, tgt, step, left, made, hops, handled>>
  BY DEF DisconnectWakes, stages, workers, owner, counts
<1>2. /\ pc' \in [Thread -> AllPc] /\ pc'[Owner] = "dwoken" /\ Moves(Owner)
      /\ Doomed' = Doomed /\ Idles' /\ WakeUps'
  BY <1>0, <1>1, OwnerGoes DEF AllPc
<1>3. TypeOK' /\ Queues'
  BY <1>0, <1>1, <1>2 DEF TypeOK, Queues, AllPc, AllStage
<1>4. Rests
  BY <1>1, <1>2 DEF Rests, Woken
<1>5. Phases'
  BY <1>0, <1>4, RestsLemma
<1>6. Owing'
  BY <1>0, <1>1, <1>2 DEF Owing, Waiting
<1>7. KillCounts'
  BY <1>0, <1>1, <1>2, KillCountsLemma DEF KillsDue, Queued, Woken
<1>8. Counted' /\ Supplied'
  BY <1>1, <1>2, <1>3, AccountsSame
<1>9. QED
  BY <1>1, <1>2, <1>3, <1>5, <1>6, <1>7, <1>8, OwnerInv DEF OwnerPc

LEMMA KillInv ==
  ASSUME IInv, Kill
  PROVE  IInv'
<1>0. /\ TypeOK /\ Queues /\ Phases /\ Owing /\ KillCounts /\ tgt \in [Thread -> AllStage]
      /\ connected \in [AllStage -> BOOLEAN] /\ pool \in [AllStage -> BOOLEAN]
      /\ nthreads \in 0 .. Cardinality(Worker) /\ Cardinality(Worker) \in Nat
  BY ThreadsFinite, FS_CardinalityType DEF IInv, TypeOK, AllStage
<1>1. /\ pc[Owner] = "kill" /\ pc' = [pc EXCEPT ![Owner] = "kadd"]
      /\ pool' = [pool EXCEPT ![Killer] = TRUE] /\ connected' = [connected EXCEPT ![Killer] = TRUE]
      /\ step' = Killer /\ left' = nthreads
      /\ UNCHANGED <<queue, ref, runQueue, nIdles, nthreads, toKill,
                     at, inside, cur, tgt, made, hops, handled>>
  BY DEF Kill, workers, counts
<1>2. /\ pc' \in [Thread -> AllPc] /\ pc'[Owner] = "kadd" /\ Moves(Owner)
      /\ Doomed' = Doomed /\ Idles' /\ WakeUps'
  BY <1>0, <1>1, OwnerGoes DEF AllPc
<1>3. /\ connected' \in [AllStage -> BOOLEAN] /\ pool' \in [AllStage -> BOOLEAN]
      /\ connected'[Killer] /\ pool'[Killer] /\ left' \in Nat /\ step' \in AllStage
      /\ \A s \in Stage : connected'[s] = connected[s] /\ pool'[s] = pool[s]
  <2>1. Killer \in AllStage /\ \A s \in Stage : s \in AllStage /\ s # Killer
    BY StageFacts
  <2>2. connected' \in [AllStage -> BOOLEAN] /\ pool' \in [AllStage -> BOOLEAN]
    BY <1>0, <1>1, <2>1
  <2>3. connected'[Killer] /\ pool'[Killer]
    BY <1>0, <1>1, <2>1, Zenon
  <2>4. \A s \in Stage : connected'[s] = connected[s] /\ pool'[s] = pool[s]
    BY <1>0, <1>1, <2>1
  <2>5. left' \in Nat /\ step' \in AllStage
    BY <1>0, <1>1, <2>1
  <2>6. QED
    BY <2>2, <2>3, <2>4, <2>5
<1>4. TypeOK' /\ Queues'
  BY <1>0, <1>1, <1>2, <1>3 DEF TypeOK, Queues, AllPc, AllStage
<1>5. \A s \in Stage : ~connected[s]
  BY <1>0, <1>1 DEF Phases
<1>6. \A s \in AllStage : s = Killer \/ s \in Stage
  BY DEF AllStage
<1>7. Phases'
  BY <1>1, <1>2, <1>3, <1>5, <1>6 DEF Phases, Waiting
<1>8. Owing'
  <2>1. ASSUME NEW s \in AllStage, ref[s] > 0 PROVE connected'[s]
    BY <1>0, <1>1, <1>3, <1>5, <1>6, <2>1 DEF Owing, Waiting
  <2>2. QED
    BY <1>1, <2>1 DEF Owing
<1>9. KillCounts'
  <2>1. KillsDue = 0 /\ toKill = 0 /\ KillsDue' = KillsDue
    BY <1>0, <1>1, <1>2, StageFacts DEF Phases, KillCounts, AfterKill, KillsDue, Queued
  <2>2. QED
    BY <1>0, <1>1, <1>2, <2>1 DEF KillCounts, AfterKill
<1>10. Counted' /\ Supplied'
  BY <1>1, <1>2, <1>4, AccountsSame
<1>11. QED
  BY <1>1, <1>2, <1>4, <1>7, <1>8, <1>9, <1>10, OwnerInv DEF OwnerPc

LEMMA KillWaitInv ==
  ASSUME IInv, KillWait
  PROVE  IInv'
<1>0. /\ TypeOK /\ Queues /\ Phases /\ Owing /\ KillCounts /\ tgt \in [Thread -> AllStage]
      /\ nthreads \in 0 .. Cardinality(Worker) /\ Cardinality(Worker) \in Nat
  BY ThreadsFinite, FS_CardinalityType DEF IInv, TypeOK, AllStage
<1>1. /\ pc[Owner] = "kadd" /\ left = 0 /\ toKill' = nthreads /\ pc' = [pc EXCEPT ![Owner] = "kwait"]
      /\ UNCHANGED <<queue, connected, ref, pool, runQueue, nIdles, nthreads,
                     at, inside, cur, tgt, step, left, made, hops, handled>>
  BY DEF KillWait, stages, workers, owner, counts
<1>2. /\ pc' \in [Thread -> AllPc] /\ pc'[Owner] = "kwait" /\ Moves(Owner)
      /\ Doomed' = Doomed /\ Idles' /\ WakeUps'
  BY <1>0, <1>1, OwnerGoes DEF AllPc
<1>3. TypeOK' /\ Queues'
  BY <1>0, <1>1, <1>2 DEF TypeOK, Queues, AllPc, AllStage
<1>4. Phases'
  BY <1>0, <1>1, <1>2 DEF Phases, Waiting
<1>5. Owing'
  BY <1>0, <1>1, <1>2 DEF Owing, Waiting
<1>6. KillCounts'
  <2>1. KillsDue + left = nthreads /\ KillsDue' = KillsDue
    BY <1>0, <1>1, <1>2 DEF KillCounts, AfterKill, KillsDue, Queued
  <2>2. KillsDue \in Nat
    <3>1. Queued(Killer) \in Nat
      BY <1>0, StageFacts DEF Queued, TypeOK, AllStage
    <3>2. Cardinality(Doomed) \in Nat
      BY <1>2, ThreadFacts, MovesLemma
    <3>3. QED
      BY <3>1, <3>2 DEF KillsDue
  <2>3. KillsDue' = toKill'
    BY <1>0, <1>1, <2>1, <2>2
  <2>4. QED
    BY <1>0, <1>1, <1>2, <2>3 DEF Phases, KillCounts, AfterKill
<1>7. Counted' /\ Supplied'
  BY <1>1, <1>2, <1>3, AccountsSame
<1>8. QED
  BY <1>1, <1>2, <1>3, <1>4, <1>5, <1>6, <1>7, OwnerInv DEF OwnerPc

\* The wait of kill_threads ends without a signal: nothing else changes.
LEMMA KillWakesInv ==
  ASSUME IInv, KillWakes
  PROVE  IInv'
<1>0. TypeOK /\ Queues /\ Phases /\ Owing /\ KillCounts /\ tgt \in [Thread -> AllStage]
  BY DEF IInv, TypeOK, AllStage
<1>1. /\ pc[Owner] = "kwait" /\ pc' = [pc EXCEPT ![Owner] = "kwoken"]
      /\ UNCHANGED <<queue, connected, ref, pool, runQueue, nIdles, nthreads, toKill,
                     at, inside, cur, tgt, step, left, made, hops, handled>>
  BY DEF KillWakes, stages, workers, owner, counts
<1>2. /\ pc' \in [Thread -> AllPc] /\ pc'[Owner] = "kwoken" /\ Moves(Owner)
      /\ Doomed' = Doomed /\ Idles' /\ WakeUps'
  BY <1>0, <1>1, OwnerGoes DEF AllPc
<1>3. TypeOK' /\ Queues'
  BY <1>0, <1>1, <1>2 DEF TypeOK, Queues, AllPc, AllStage
<1>4. Rests
  BY <1>1, <1>2 DEF Rests, Woken
<1>5. Phases'
  BY <1>0, <1>4, RestsLemma
<1>6. Owing'
  BY <1>0, <1>1, <1>2 DEF Owing, Waiting
<1>7. KillCounts'
  BY <1>0, <1>1, <1>2, KillCountsLemma DEF KillsDue, Queued, Woken
<1>8. Counted' /\ Supplied'
  BY <1>1, <1>2, <1>3, AccountsSame
<1>9. QED
  BY <1>1, <1>2, <1>3, <1>5, <1>6, <1>7, <1>8, OwnerInv DEF OwnerPc

LEMMA KilledInv ==
  ASSUME IInv, Killed
  PROVE  IInv'
<1>0. TypeOK /\ Queues /\ Phases /\ Owing /\ KillCounts /\ tgt \in [Thread -> AllStage]
  BY DEF IInv, TypeOK, AllStage
<1>1. /\ pc[Owner] = "kwoken" /\ pc' = [pc EXCEPT ![Owner] = "disconnect"]
      /\ UNCHANGED <<queue, connected, ref, pool, runQueue, nIdles, nthreads, toKill,
                     at, inside, cur, tgt, step, left, made, hops, handled>>
  BY DEF Killed, stages, workers, owner, counts
<1>2. /\ pc' \in [Thread -> AllPc] /\ pc'[Owner] = "disconnect" /\ Moves(Owner)
      /\ Doomed' = Doomed /\ Idles' /\ WakeUps'
  BY <1>0, <1>1, OwnerGoes DEF AllPc
<1>3. TypeOK' /\ Queues'
  BY <1>0, <1>1, <1>2 DEF TypeOK, Queues, AllPc, AllStage
<1>4. Phases'
  <2>1. \A s \in Stage : ~connected[s]
    BY <1>0, <1>1 DEF Phases
  <2>2. QED
    BY <1>0, <1>1, <1>2, <2>1 DEF Phases, Waiting
<1>5. Owing'
  BY <1>0, <1>1, <1>2 DEF Owing, Waiting
<1>6. KillCounts'
  BY <1>0, <1>1, <1>2 DEF KillCounts, AfterKill, KillsDue, Queued
<1>7. Counted' /\ Supplied'
  BY <1>1, <1>2, <1>3, AccountsSame
<1>8. QED
  BY <1>1, <1>2, <1>3, <1>4, <1>5, <1>6, <1>7, OwnerInv DEF OwnerPc

LEMMA AddKillInv ==
  ASSUME IInv, AddKill
  PROVE  IInv'
<1>0. /\ TypeOK /\ Queues /\ Phases /\ Owing /\ KillCounts /\ tgt \in [Thread -> AllStage]
      /\ Killer \in AllStage /\ Killer \notin Stage /\ KillEvent \in Event \cup {KillEvent}
      /\ left \in Nat /\ Owner \in Thread
  BY StageFacts, ThreadFacts DEF IInv, TypeOK, AllStage
<1>1. /\ pc[Owner] = "kadd" /\ left > 0 /\ Push(Killer, KillEvent) /\ AfterPush(Owner, Killer, "kadd")
      /\ UNCHANGED <<connected, pool, runQueue, nIdles, nthreads, toKill,
                     at, inside, cur, step, left, made, hops, handled>>
  BY DEF AddKill, workers, owner, counts
<1>2. connected[Killer] /\ step = Killer
  BY <1>0, <1>1 DEF Phases
<1>3. pc' = [pc EXCEPT ![Owner] = "schedule"] /\ tgt' = [tgt EXCEPT ![Owner] = Killer]
  BY <1>1, <1>2 DEF AfterPush
<1>4. tgt' \in [Thread -> AllStage] /\ tgt'[Owner] = Killer /\ \A u \in Thread \ {Owner} : tgt'[u] = tgt[u]
  BY <1>0, <1>3
<1>5. /\ pc' \in [Thread -> AllPc] /\ pc'[Owner] = "schedule" /\ Moves(Owner)
      /\ Doomed' = Doomed /\ Idles' /\ WakeUps'
  BY <1>1, <1>3, <1>4, OwnerGoes DEF AllPc
<1>6. /\ queue' \in [AllStage -> Seq(Event \cup {KillEvent})] /\ Queues'
      /\ ref' \in [AllStage -> Nat]
      /\ Queued(Killer)' = Queued(Killer) + 1
      /\ \A q \in AllStage \ {Killer} : Queued(q)' = Queued(q) /\ ref'[q] = ref[q]
      /\ \A q \in AllStage : Queued(q) \in Nat /\ ref[q] \in Nat
      /\ ref'[Killer] = ref[Killer] + In(connected[Killer])
  <2>1. Killer \in Stage => KillEvent \in Event
    BY <1>0
  <2>2. QED
    BY <1>0, <1>1, <2>1, PushLemma
<1>7. TypeOK'
  BY <1>0, <1>1, <1>4, <1>5, <1>6 DEF TypeOK, AllPc, AllStage
<1>8. Phases'
  <2>1. \A s \in Stage : ~connected[s]
    BY <1>0, <1>1 DEF Phases
  <2>2. QED
    BY <1>0, <1>1, <1>2, <1>4, <1>5, <2>1 DEF Phases, Waiting
<1>9. Owing'
  <2>1. ASSUME NEW s \in AllStage, ref'[s] > 0 PROVE connected'[s]
    <3>1. CASE s = Killer
      BY <1>1, <1>2, <3>1
    <3>2. CASE s # Killer
      BY <1>0, <1>1, <1>6, <2>1, <3>2 DEF Owing, Waiting
    <3>3. QED
      BY <3>1, <3>2
  <2>2. QED
    BY <2>1 DEF Owing
<1>10. KillCounts'
  <2>1. Cardinality(Doomed) \in Nat /\ Queued(Killer) \in Nat
    BY <1>0, <1>5, <1>6, MovesLemma
  <2>2. KillsDue + left = nthreads /\ KillsDue' = KillsDue + 1 /\ KillsDue \in Nat /\ toKill = 0
    BY <1>0, <1>1, <1>5, <1>6, <2>1 DEF KillCounts, AfterKill, KillsDue
  <2>3. KillsDue' + left' = nthreads' + 1 /\ left' > 0
    BY <1>0, <1>1, <2>2
  <2>4. QED
    BY <1>1, <1>5, <2>2, <2>3 DEF KillCounts, AfterKill
<1>11. ASSUME NEW s \in AllStage PROVE Accounts(s)
  <2>1. Entries(s)' = Entries(s) /\ Entries(s) \in Nat /\ In(s = Killer) \in Nat
    BY <1>0, <1>1, EntriesType DEF Entries, TypeOK, AllStage, In
  <2>2. /\ OwnerLeft(s) = 0 /\ OwnerLeft(s)' = 0 /\ Holds(Owner, s) = 0 /\ Takes(Owner, s) = 0
        /\ Holds(Owner, s)' = In(s = Killer) /\ Takes(Owner, s)' = In(s = Killer)
    BY <1>1, <1>4, <1>5, ThreadFacts
       DEF Holds, Takes, Puts, Serves, Adds, Fetches, In, OwnerLeft
  <2>3. /\ ref'[s] = ref[s] + In(s = Killer) /\ Queued(s)' = Queued(s) + In(s = Killer)
        /\ ref[s] \in Nat /\ Queued(s) \in Nat
    BY <1>2, <1>6 DEF In
  <2>4. QED
    BY <2>1, <2>2, <2>3 DEF Accounts
<1>12. Counted' /\ Supplied'
  BY <1>5, <1>7, <1>11, AccountsLemma
<1>13. QED
  BY <1>1, <1>5, <1>6, <1>7, <1>8, <1>9, <1>10, <1>12, OwnerInv DEF OwnerPc

LEMMA OwnerScheduleInv ==
  ASSUME IInv, OwnerSchedule
  PROVE  IInv'
<1>0. /\ TypeOK /\ Queues /\ Phases /\ Owing /\ KillCounts /\ Idles /\ left \in Nat
      /\ Owner \in Thread /\ Owner \notin Worker
  BY ThreadFacts DEF IInv, TypeOK
<1>1. /\ pc[Owner] = "schedule" /\ left' = left - 1 /\ Schedule(Owner, "kadd")
      /\ UNCHANGED <<queue, connected, ref, pool, nIdles, nthreads, toKill,
                     at, inside, cur, tgt, step, made, hops, handled>>
  BY DEF OwnerSchedule, stages, workers, counts
<1>2. /\ pc' \in [Thread -> AllPc] /\ pc'[Owner] = "kadd" /\ Moves(Owner)
      /\ runQueue' \in Seq(AllStage)
      /\ Idle' = Idle /\ Doomed' = Doomed /\ WakeUps'
      /\ \A s : Entries(s) \in Nat /\ Entries(s)' = Entries(s) + In(tgt[Owner] = s)
  BY <1>0, <1>1, ScheduleLemma
<1>3. tgt[Owner] = Killer /\ step = Killer /\ left > 0 /\ left' \in Nat
  BY <1>0, <1>1 DEF Phases, KillCounts
<1>4. TypeOK' /\ Queues' /\ Idles'
  BY <1>0, <1>1, <1>2, <1>3 DEF TypeOK, Queues, Idles, AllPc, AllStage
<1>5. Phases'
  <2>1. \A s \in Stage : ~connected[s]
    BY <1>0, <1>1 DEF Phases
  <2>2. QED
    BY <1>0, <1>1, <1>2, <1>3, <2>1 DEF Phases, Waiting
<1>6. Owing'
  BY <1>0, <1>1, <1>2 DEF Owing, Waiting
<1>7. KillCounts'
  <2>1. Cardinality(Doomed) \in Nat /\ Queued(Killer) \in Nat
    <3>1. Queued(Killer) \in Nat
      BY <1>0, StageFacts DEF TypeOK, AllStage, Queued
    <3>2. QED
      BY <1>0, <1>2, <3>1, MovesLemma
  <2>2. KillsDue + left = nthreads + 1 /\ KillsDue' = KillsDue /\ KillsDue \in Nat /\ toKill = 0
    BY <1>0, <1>1, <1>2, <2>1 DEF KillCounts, AfterKill, KillsDue, Queued
  <2>3. nthreads \in Nat
    BY <1>0, ThreadsFinite, FS_CardinalityType DEF TypeOK
  <2>4. KillsDue' + left' = nthreads'
    BY <1>0, <1>1, <2>2, <2>3
  <2>5. QED
    BY <1>1, <1>2, <2>2, <2>4 DEF KillCounts, AfterKill
<1>8. ASSUME NEW s \in AllStage PROVE Accounts(s)
  <2>1. Queued(s)' = Queued(s) /\ Queued(s) \in Nat /\ ref'[s] = ref[s] /\ ref[s] \in Nat
    BY <1>0, <1>1 DEF Queued, TypeOK, AllStage
  <2>2. Entries(s) \in Nat /\ Entries(s)' = Entries(s) + In(s = Killer) /\ In(s = Killer) \in Nat
    BY <1>2, <1>3 DEF In
  <2>3. /\ OwnerLeft(s) = 0 /\ OwnerLeft(s)' = 0 /\ Holds(Owner, s)' = 0 /\ Takes(Owner, s)' = 0
        /\ Holds(Owner, s) = In(s = Killer) /\ Takes(Owner, s) = In(s = Killer)
    BY <1>0, <1>1, <1>2, <1>3 DEF Holds, Takes, Puts, Serves, Adds, Fetches, In, OwnerLeft
  <2>4. QED
    BY <2>1, <2>2, <2>3 DEF Accounts
<1>9. Counted' /\ Supplied'
  BY <1>2, <1>4, <1>8, AccountsLemma
<1>10. QED
  BY <1>1, <1>2, <1>4, <1>5, <1>6, <1>7, <1>9, OwnerInv DEF OwnerPc

\* The backlog of the stage being connected goes to the run queue.
LEMMA BacklogInv ==
  ASSUME IInv, Backlog
  PROVE  IInv'
<1>0. /\ TypeOK /\ Queues /\ Phases /\ Owing /\ KillCounts /\ Idles /\ left \in Nat
      /\ Owner \in Thread /\ Owner \notin Worker /\ pc[Owner] = "backlog"
      /\ tgt \in [Thread -> AllStage]
  BY ThreadFacts DEF IInv, TypeOK, Backlog, AllStage
<1>1. UNCHANGED <<queue, connected, ref, pool, nIdles, nthreads, toKill,
                  at, inside, cur, tgt, made, hops, handled>>
  BY DEF Backlog, stages, workers, counts
<1>2. step \in Stage /\ tgt[Owner] = step /\ step \in Nat /\ (\A s \in Stage : pool[s])
  BY <1>0, StageFacts DEF Phases
<1>3. CASE left > 0 /\ left' = left - 1 /\ Schedule(Owner, "backlog") /\ step' = step
  <2>1. /\ pc' \in [Thread -> AllPc] /\ pc'[Owner] = "backlog" /\ Moves(Owner)
        /\ runQueue' \in Seq(AllStage)
        /\ Idle' = Idle /\ Doomed' = Doomed /\ WakeUps'
        /\ \A s : Entries(s) \in Nat /\ Entries(s)' = Entries(s) + In(tgt[Owner] = s)
    BY <1>0, <1>1, <1>3, ScheduleLemma
  <2>2. left' \in Nat
    BY <1>0, <1>3
  <2>3. TypeOK' /\ Queues' /\ Idles'
    BY <1>0, <1>1, <1>3, <2>1, <2>2 DEF TypeOK, Queues, Idles, AllPc, AllStage
  <2>4. Phases'
    BY <1>0, <1>1, <1>2, <1>3, <2>1 DEF Phases, Waiting
  <2>5. Owing'
    BY <1>0, <1>1, <1>3, <2>1 DEF Owing, Waiting
  <2>6. KillCounts'
    BY <1>0, <1>1, <1>2, <1>3, <2>1, StageFacts DEF Phases, KillCounts, AfterKill, KillsDue, Queued
  <2>7. ASSUME NEW s \in AllStage PROVE Accounts(s)
    <3>1. Queued(s)' = Queued(s) /\ Queued(s) \in Nat /\ ref'[s] = ref[s] /\ ref[s] \in Nat
      BY <1>0, <1>1 DEF Queued, TypeOK, AllStage
    <3>2. Entries(s) \in Nat /\ Entries(s)' = Entries(s) + In(step = s) /\ In(step = s) \in Nat
      BY <1>2, <2>1 DEF In
    <3>3. /\ Holds(Owner, s) = 0 /\ Takes(Owner, s) = 0 /\ Holds(Owner, s)' = 0 /\ Takes(Owner, s)' = 0
      BY <1>0, <2>1 DEF Holds, Takes, Puts, Serves, Adds, Fetches, In
    <3>4. OwnerLeft(s)' = OwnerLeft(s) - In(step = s) /\ OwnerLeft(s) \in Nat
      BY <1>0, <1>3, <2>1 DEF OwnerLeft, In
    <3>5. QED
      BY <3>1, <3>2, <3>3, <3>4 DEF Accounts
  <2>8. Counted' /\ Supplied'
    BY <2>1, <2>3, <2>7, AccountsLemma
  <2>9. QED
    BY <1>1, <2>1, <2>3, <2>4, <2>5, <2>6, <2>8, OwnerInv DEF OwnerPc
<1>4. CASE /\ left = 0 /\ UNCHANGED <<runQueue, left>>
           /\ pc' = [pc EXCEPT ![Owner] = IF step = NumStages THEN "run" ELSE "connect"]
           /\ step' = IF step = NumStages THEN step ELSE step + 1
  <2> DEFINE p == IF step = NumStages THEN "run" ELSE "connect"
  <2>1. /\ pc' \in [Thread -> AllPc] /\ pc'[Owner] = p /\ Moves(Owner)
        /\ Doomed' = Doomed /\ Idles' /\ WakeUps'
    BY <1>0, <1>1, <1>4, OwnerGoes DEF AllPc
  <2>2. step' \in Stage /\ step' \in Nat /\ (step # NumStages => step' = step + 1)
    BY <1>2, <1>4, SedaAssumption DEF Stage
  <2>3. (p = "run" /\ step = NumStages) \/ (p = "connect" /\ step # NumStages)
    OBVIOUS
  <2> HIDE DEF p
  <2>4. TypeOK' /\ Queues'
    BY <1>0, <1>1, <1>4, <2>1, <2>2, StageFacts DEF TypeOK, Queues, AllPc, AllStage
  <2>5. Phases'
    <3>1. \A s \in Stage : connected[s] => s <= step /\ s \in Nat
      BY <1>0, StageFacts DEF Phases
    <3>2. \A s \in Stage : connected[s] /\ p = "connect" => s < step'
      BY <1>2, <2>2, <2>3, <3>1
    <3>3. QED
      BY <1>0, <1>1, <1>2, <2>1, <2>2, <2>3, <3>2 DEF Phases, Waiting
  <2>6. Owing'
    BY <1>0, <1>1, <2>1, <2>3 DEF Owing, Waiting
  <2>7. KillCounts'
    BY <1>0, <1>1, <1>2, <2>1, <2>2, <2>3, StageFacts DEF Phases, KillCounts, AfterKill, KillsDue, Queued
  <2>8. ASSUME NEW s \in AllStage PROVE Accounts(s)
    <3>1. Queued(s)' = Queued(s) /\ Queued(s) \in Nat /\ ref'[s] = ref[s] /\ ref[s] \in Nat
      BY <1>0, <1>1 DEF Queued, TypeOK, AllStage
    <3>2. Entries(s) \in Nat /\ Entries(s)' = Entries(s)
      BY <1>0, <1>4, EntriesType DEF TypeOK, AllStage, Entries
    <3>3. /\ Holds(Owner, s) = 0 /\ Takes(Owner, s) = 0 /\ Holds(Owner, s)' = 0 /\ Takes(Owner, s)' = 0
      BY <1>0, <2>1, <2>3 DEF Holds, Takes, Puts, Serves, Adds, Fetches, In
    <3>4. OwnerLeft(s)' = 0 /\ OwnerLeft(s) = 0
      BY <1>4, <2>1, <2>3 DEF OwnerLeft
    <3>5. QED
      BY <3>1, <3>2, <3>3, <3>4 DEF Accounts
  <2>9. Counted' /\ Supplied'
    BY <2>1, <2>4, <2>8, AccountsLemma
  <2>10. pc'[Owner] \in OwnerPc
    BY <2>1, <2>3 DEF OwnerPc
  <2>11. QED
    BY <1>1, <2>1, <2>4, <2>5, <2>6, <2>7, <2>9, <2>10, OwnerInv
<1>5. QED
  BY <1>3, <1>4 DEF Backlog

\* Stage::connect: what is on the queue is what the stage owes.
LEMMA ConnectInv ==
  ASSUME IInv, Connect
  PROVE  IInv'
<1>0. /\ TypeOK /\ Queues /\ Phases /\ Owing /\ KillCounts /\ Idles /\ Counted
      /\ Owner \in Thread /\ Owner \notin Worker /\ pc[Owner] = "connect"
      /\ tgt \in [Thread -> AllStage] /\ made \in 0 .. MaxEvent
      /\ queue \in [AllStage -> Seq(Event \cup {KillEvent})] /\ ref \in [AllStage -> Nat]
      /\ connected \in [AllStage -> BOOLEAN]
  BY ThreadFacts DEF IInv, TypeOK, Connect, AllStage
<1>1. UNCHANGED <<pool, runQueue, nIdles, nthreads, toKill, at, inside, cur, hops, handled>>
  BY DEF Connect, workers
<1>2. /\ step \in Stage /\ step \in AllStage /\ step # Killer /\ step \in Nat
      /\ \A s \in Stage : pool[s]
      /\ \A s \in Stage : connected[s] => s < step
  BY <1>0, StageFacts DEF Phases
<1>3. ref[step] = 0
  <2>1. ~connected[step]
    BY <1>2
  <2>2. ~(ref[step] > 0)
    BY <1>0, <1>2, <2>1 DEF Owing, Waiting
  <2>3. QED
    BY <1>0, <1>2, <2>2
<1>4. ASSUME NEW b \in {0, 1}, NEW q,
             q = IF b = 0 THEN queue[step] ELSE Append(queue[step], made + 1),
             made + b <= MaxEvent, made' = made + b,
             queue' = [queue EXCEPT ![step] = q], ref' = [ref EXCEPT ![step] = Len(q)],
             connected' = [connected EXCEPT ![step] = TRUE], left' = Len(q),
             pc' = [pc EXCEPT ![Owner] = "backlog"], tgt' = [tgt EXCEPT ![Owner] = step], step' = step
      PROVE  IInv'
  <2>1. made' \in 0 .. MaxEvent /\ (b # 0 => made + 1 \in Event)
    BY <1>0, <1>4, SedaAssumption DEF Event
  <2>2. q \in Seq(Event) /\ q \in Seq(Event \cup {KillEvent}) /\ Len(q) \in Nat /\ Len(queue[step]) <= Len(q)
    <3>1. queue[step] \in Seq(Event) /\ queue[step] \in Seq(Event \cup {KillEvent})
      BY <1>0, <1>2 DEF Queues
    <3>2. CASE b = 0
      <4>1. q = queue[step]
        BY <1>4, <3>2
      <4>2. QED
        BY <3>1, <4>1
    <3>3. CASE b # 0
      <4>1. q = Append(queue[step], made + 1) /\ made + 1 \in Event
        BY <1>4, <2>1, <3>3
      <4>2. QED
        BY <3>1, <4>1
    <3>4. QED
      BY <3>2, <3>3
  <2>3. /\ queue' \in [AllStage -> Seq(Event \cup {KillEvent})] /\ queue'[step] = q
        /\ \A s \in AllStage \ {step} : queue'[s] = queue[s]
    BY <1>0, <1>2, <1>4, <2>2
  <2>4. /\ ref' \in [AllStage -> Nat] /\ ref'[step] = Len(q)
        /\ \A s \in AllStage \ {step} : ref'[s] = ref[s]
    BY <1>0, <1>2, <1>4, <2>2
  <2>5. /\ connected' \in [AllStage -> BOOLEAN]
        /\ \A s \in AllStage \ {step} : connected'[s] = connected[s]
    BY <1>0, <1>2, <1>4
  <2>6. connected'[step]
    BY <1>0, <1>2, <1>4, Zenon
  <2>7. tgt' \in [Thread -> AllStage] /\ tgt'[Owner] = step /\ \A u \in Thread \ {Owner} : tgt'[u] = tgt[u]
    BY <1>0, <1>2, <1>4
  <2>8. /\ pc' \in [Thread -> AllPc] /\ pc'[Owner] = "backlog" /\ Moves(Owner)
        /\ Doomed' = Doomed /\ Idles' /\ WakeUps'
    BY <1>1, <1>4, <2>7, OwnerGoes DEF AllPc
  <2>9. TypeOK'
    BY <1>0, <1>1, <1>4, <2>1, <2>2, <2>3, <2>4, <2>5, <2>7, <2>8 DEF TypeOK, AllPc, AllStage
  <2>10. Queues'
    <3>1. ASSUME NEW s \in Stage PROVE queue'[s] \in Seq(Event)
      BY <1>0, <2>2, <2>3, StageFacts DEF Queues
    <3>2. QED
      BY <3>1 DEF Queues
  <2>11. Phases'
    <3>1. ASSUME NEW s \in AllStage, connected'[s] PROVE pool'[s]
      <4>1. CASE s = step
        BY <1>1, <1>2, <4>1
      <4>2. CASE s # step
        BY <1>0, <1>1, <2>5, <3>1, <4>2 DEF Phases
      <4>3. QED
        BY <4>1, <4>2
    <3>2. ASSUME NEW s \in Stage, connected'[s] PROVE s <= step
      <4>1. s \in Nat /\ (s # step => s < step)
        BY <1>2, <2>5, <3>2, StageFacts
      <4>2. QED
        BY <1>2, <4>1
    <3>3. step' = step
      BY <1>4
    <3>4. QED
      BY <1>1, <1>2, <2>7, <2>8, <3>1, <3>2, <3>3 DEF Phases, Waiting
  <2>12. Owing'
    <3>1. ASSUME NEW s \in AllStage, ref'[s] > 0 PROVE connected'[s]
      <4>1. CASE s = step
        BY <2>6, <4>1
      <4>2. CASE s # step
        BY <1>0, <2>4, <2>5, <3>1, <4>2 DEF Owing, Waiting
      <4>3. QED
        BY <4>1, <4>2
    <3>2. QED
      BY <3>1 DEF Owing
  <2>13. KillCounts'
    <3>1. Queued(Killer)' = Queued(Killer)
      BY <1>2, <2>3, StageFacts DEF Queued
    <3>2. QED
      BY <1>0, <1>1, <1>2, <1>4, <2>8, <3>1 DEF KillCounts, AfterKill, KillsDue
  <2>14. ASSUME NEW s \in AllStage PROVE Accounts(s)
    <3>1. Entries(s) \in Nat /\ Entries(s)' = Entries(s)
      BY <1>0, <1>1, EntriesType DEF TypeOK, AllStage, Entries
    <3>2. /\ Holds(Owner, s) = 0 /\ Takes(Owner, s) = 0 /\ Holds(Owner, s)' = 0 /\ Takes(Owner, s)' = 0
      BY <1>0, <2>8 DEF Holds, Takes, Puts, Serves, Adds, Fetches, In
    <3>3. OwnerLeft(s) = 0 /\ ref[s] \in Nat /\ Queued(s) \in Nat
      BY <1>0 DEF OwnerLeft, Queued
    <3>4. CASE s = step
      <4>1. OwnerLeft(s)' = ref'[s] /\ ref'[s] \in Nat /\ ref[s] = 0
        BY <1>3, <1>4, <2>2, <2>4, <2>8, <3>4 DEF OwnerLeft
      <4>2. ToTake(s) = 0 /\ Entries(s) = 0
        BY <3>1, <3>3, <4>1, DueLemma
      <4>3. Queued(s)' = ref'[s]
        BY <2>3, <2>4, <3>4 DEF Queued
      <4>4. QED
        BY <3>1, <3>2, <3>3, <4>1, <4>2, <4>3 DEF Accounts
    <3>5. CASE s # step
      <4>1. OwnerLeft(s)' = 0 /\ ref'[s] = ref[s] /\ Queued(s)' = Queued(s)
        BY <1>4, <2>3, <2>4, <3>5 DEF OwnerLeft, Queued
      <4>2. QED
        BY <3>1, <3>2, <3>3, <4>1 DEF Accounts
    <3>6. QED
      BY <3>4, <3>5
  <2>15. Counted' /\ Supplied'
    BY <2>8, <2>9, <2>14, AccountsLemma
  <2>16. QED
    BY <1>1, <2>8, <2>9, <2>10, <2>11, <2>12, <2>13, <2>15, OwnerInv DEF OwnerPc
<1>5. CASE /\ pc' = [pc EXCEPT ![Owner] = "disconnect"] /\ step' = 1
           /\ UNCHANGED <<queue, ref, connected, left, made, tgt>>
  <2>1. /\ pc' \in [Thread -> AllPc] /\ pc'[Owner] = "disconnect" /\ Moves(Owner)
        /\ Doomed' = Doomed /\ Idles' /\ WakeUps'
    BY <1>0, <1>1, <1>5, OwnerGoes DEF AllPc
  <2>2. TypeOK' /\ Queues'
    BY <1>0, <1>1, <1>5, <2>1, StageFacts DEF TypeOK, Queues, AllPc, AllStage
  <2>3. Phases'
    <3>1. \A s \in Stage : 1 <= s
      BY SedaAssumption DEF Stage
    <3>2. QED
      BY <1>0, <1>1, <1>5, <2>1, <3>1, StageFacts DEF Phases, Waiting
  <2>4. Owing'
    BY <1>0, <1>1, <1>5, <2>1 DEF Owing, Waiting
  <2>5. KillCounts'
    BY <1>0, <1>1, <1>2, <1>5, <2>1, StageFacts DEF Phases, KillCounts, AfterKill, KillsDue, Queued
  <2>6. Counted' /\ Supplied'
    BY <1>0, <1>1, <1>5, <2>1, <2>2, AccountsSame
  <2>7. QED
    BY <1>1, <2>1, <2>2, <2>3, <2>4, <2>5, <2>6, OwnerInv DEF OwnerPc
<1>6. QED
  <2> DEFINE Queue(b) == IF b = 0 THEN queue[step] ELSE Append(queue[step], made + 1)
  <2>1. \/ \E b \in {0, 1} :
             /\ made + b <= MaxEvent /\ made' = made + b
             /\ queue' = [queue EXCEPT ![step] = Queue(b)] /\ ref' = [ref EXCEPT ![step] = Len(Queue(b))]
             /\ connected' = [connected EXCEPT ![step] = TRUE] /\ left' = Len(Queue(b))
             /\ pc' = [pc EXCEPT ![Owner] = "backlog"] /\ tgt' = [tgt EXCEPT ![Owner] = step]
             /\ step' = step
        \/ /\ pc' = [pc EXCEPT ![Owner] = "disconnect"] /\ step' = 1
           /\ UNCHANGED <<queue, ref, connected, left, made, tgt>>
    BY DEF Connect
  <2>2. QED
    BY <1>4, <1>5, <2>1

\* disconnect returns: nothing is owed, so nothing of the stage is in use.
LEMMA DetachInv ==
  ASSUME IInv, Detach, pc[Owner] \in {"disconnect", "dwoken"}, ref[step] = 0,
         connected' = [connected EXCEPT ![step] = FALSE],
         UNCHANGED <<ref, runQueue, nIdles, nthreads, toKill, at, inside, cur, tgt, left,
                     made, hops, handled>>
  PROVE  IInv'
<1>0. /\ TypeOK /\ Queues /\ Phases /\ Owing /\ KillCounts /\ Idles
      /\ Owner \in Thread /\ Owner \notin Worker /\ step \in AllStage /\ tgt \in [Thread -> AllStage]
      /\ queue \in [AllStage -> Seq(Event \cup {KillEvent})] /\ ref \in [AllStage -> Nat]
      /\ connected \in [AllStage -> BOOLEAN] /\ pool \in [AllStage -> BOOLEAN]
  BY ThreadFacts DEF IInv, TypeOK, AllStage
<1>1. /\ connected' \in [AllStage -> BOOLEAN] /\ pool' \in [AllStage -> BOOLEAN]
      /\ \A s \in AllStage \ {step} : connected'[s] = connected[s] /\ pool'[s] = pool[s]
  BY <1>0 DEF Detach
<1>2. ~connected'[step]
  BY <1>0, Zenon
<1>3. ASSUME NEW s \in AllStage, connected'[s] PROVE connected[s] /\ s # step /\ pool'[s]
  <2>1. s # step
    BY <1>2, <1>3
  <2>2. connected[s]
    BY <1>1, <1>3, <2>1
  <2>3. QED
    BY <1>0, <1>1, <2>1, <2>2 DEF Phases
<1>4. ASSUME NEW s \in AllStage, ref[s] > 0 PROVE connected[s] /\ connected'[s] /\ s # step
  <2>1. s # step
    BY <1>4
  <2>2. connected[s]
    BY <1>0, <1>4, <2>1 DEF Owing
  <2>3. QED
    BY <1>1, <2>1, <2>2
<1>5. ASSUME NEW s \in Stage, connected'[s]
      PROVE  step \in Stage /\ step < s /\ step \in Nat /\ s \in Nat
  <2>1. connected[s] /\ s # step /\ s \in AllStage
    BY <1>3, <1>5, StageFacts
  <2>2. step \in Stage /\ (step <= s \/ step < s)
    BY <1>0, <2>1 DEF Phases, Waiting
  <2>3. QED
    BY <2>1, <2>2, StageFacts
<1>6. NumStages \in Stage /\ NumStages # Killer
  BY SedaAssumption DEF Stage, Killer
<1>7. CASE step = NumStages
  <2>1. pc' = [pc EXCEPT ![Owner] = "kill"] /\ queue' = [s \in AllStage |-> <<>>] /\ step' = step
    BY <1>6, <1>7 DEF Detach, AllStage
  <2>2. /\ pc' \in [Thread -> AllPc] /\ pc'[Owner] = "kill" /\ Moves(Owner)
        /\ Doomed' = Doomed /\ Idles' /\ WakeUps'
    BY <1>0, <2>1, OwnerGoes DEF AllPc
  <2>3. KillsDue = 0 /\ toKill = 0 /\ Queued(Killer) = 0 /\ Cardinality(Doomed) = 0
    <3>1. KillsDue = 0 /\ toKill = 0
      BY <1>0, <1>7, StageFacts DEF KillCounts, AfterKill
    <3>2. Queued(Killer) \in Nat
      BY <1>0, StageFacts DEF Queued
    <3>3. Doomed \in SUBSET Worker
      BY DEF Doomed
    <3>4. Cardinality(Doomed) \in Nat
      BY <3>3, ThreadsFinite, FS_Subset, FS_CardinalityType
    <3>5. QED
      BY <3>1, <3>2, <3>4 DEF KillsDue
  <2>4. <<>> \in Seq(Event) /\ <<>> \in Seq(Event \cup {KillEvent})
    OBVIOUS
  <2>5. queue' \in [AllStage -> Seq(Event \cup {KillEvent})] /\ Queues'
    BY <2>1, <2>4, StageFacts DEF Queues
  <2>6. TypeOK'
    BY <1>0, <1>1, <2>1, <2>2, <2>5 DEF TypeOK, AllPc, AllStage
  <2>7. \A s \in Stage : ~connected'[s]
    <3>1. \A s \in Stage : s <= NumStages /\ s \in Nat
      BY SedaAssumption DEF Stage
    <3>2. QED
      BY <1>5, <1>7, <3>1, StageFacts, SedaAssumption
  <2>8. Phases'
    BY <1>3, <1>6, <1>7, <2>1, <2>2, <2>7 DEF Phases, Waiting
  <2>9. Owing'
    BY <1>4 DEF Owing
  <2>10. \A s \in AllStage : Queued(s)' = 0
    BY <2>1 DEF Queued
  <2>11. KillCounts'
    <3>1. KillsDue' = 0
      BY <2>2, <2>3, <2>10, StageFacts DEF KillsDue
    <3>2. QED
      BY <1>6, <1>7, <2>1, <2>2, <2>3, <3>1 DEF KillCounts, AfterKill
  <2>12. ASSUME NEW s \in AllStage PROVE Accounts(s)
    <3>1. /\ Entries(s) \in Nat /\ OwnerLeft(s) \in Nat /\ ToTake(s) \in Nat /\ ref[s] \in Nat
          /\ Entries(s) + OwnerLeft(s) + ToTake(s) <= ref[s]
      BY DueLemma
    <3>2. Entries(s) = 0 /\ ToTake(s) = 0
      <4>1. CASE s = Killer
        <5>1. Entries(s) + OwnerLeft(s) + ToTake(s) <= Queued(s)
          BY DEF IInv, Supplied
        <5>2. QED
          BY <2>3, <3>1, <4>1, <5>1
      <4>2. CASE s # Killer
        <5>1. ~connected'[s]
          BY <2>7, <4>2 DEF AllStage
        <5>2. ref[s] = 0
          BY <1>4, <3>1, <5>1
        <5>3. QED
          BY <3>1, <5>2
      <4>3. QED
        BY <4>1, <4>2
    <3>3. Entries(s)' = Entries(s) /\ ref'[s] = ref[s] /\ Queued(s)' = 0
      BY <2>10 DEF Entries
    <3>4. /\ Holds(Owner, s) = 0 /\ Takes(Owner, s) = 0 /\ Holds(Owner, s)' = 0 /\ Takes(Owner, s)' = 0
      BY <1>0, <2>2 DEF Holds, Takes, Puts, Serves, Adds, Fetches, In
    <3>5. OwnerLeft(s)' = 0 /\ OwnerLeft(s) = 0
      BY <2>2 DEF OwnerLeft
    <3>6. QED
      BY <3>1, <3>2, <3>3, <3>4, <3>5 DEF Accounts
  <2>13. Counted' /\ Supplied'
    BY <2>2, <2>6, <2>12, AccountsLemma
  <2>14. pc'[Owner] \in OwnerPc
    BY <2>2 DEF OwnerPc
  <2>15. QED
    BY <2>2, <2>5, <2>6, <2>8, <2>9, <2>11, <2>13, <2>14, OwnerInv
<1>8. CASE step \notin {Killer, NumStages}
  <2>1. pc' = [pc EXCEPT ![Owner] = "disconnect"] /\ queue' = queue /\ step' = step + 1
    BY <1>8 DEF Detach
  <2>2. /\ pc' \in [Thread -> AllPc] /\ pc'[Owner] = "disconnect" /\ Moves(Owner)
        /\ Doomed' = Doomed /\ Idles' /\ WakeUps'
    BY <1>0, <2>1, OwnerGoes DEF AllPc
  <2>3. step \in Stage /\ step' \in Stage /\ step \in Nat
    BY <1>0, <1>8, <2>1, SedaAssumption DEF AllStage, Stage
  <2>4. TypeOK' /\ Queues'
    BY <1>0, <1>1, <2>1, <2>2, <2>3 DEF TypeOK, Queues, AllPc, AllStage
  <2>5. Phases'
    <3>1. ASSUME NEW s \in Stage, connected'[s] PROVE step' <= s
      BY <1>5, <2>1, <3>1
    <3>2. QED
      BY <1>3, <2>2, <2>3, <3>1 DEF Phases, Waiting
  <2>6. Owing'
    BY <1>4 DEF Owing
  <2>7. KillCounts'
    BY <1>0, <1>8, <2>1, <2>2, <2>3, StageFacts DEF KillCounts, AfterKill, KillsDue, Queued
  <2>8. Counted' /\ Supplied'
    BY <2>1, <2>2, <2>4, AccountsSame
  <2>9. QED
    BY <2>2, <2>4, <2>5, <2>6, <2>7, <2>8, OwnerInv DEF OwnerPc
<1>9. CASE step = Killer
  <2>1. pc' = [pc EXCEPT ![Owner] = "done"] /\ queue' = queue /\ step' = step
    BY <1>9 DEF Detach
  <2>2. /\ pc' \in [Thread -> AllPc] /\ pc'[Owner] = "done" /\ Moves(Owner)
        /\ Doomed' = Doomed /\ Idles' /\ WakeUps'
    BY <1>0, <2>1, OwnerGoes DEF AllPc
  <2>3. TypeOK' /\ Queues'
    BY <1>0, <1>1, <2>1, <2>2 DEF TypeOK, Queues, AllPc, AllStage
  <2>4. \A s \in Stage : ~connected'[s]
    BY <1>5, <1>9, StageFacts
  <2>5. Phases'
    BY <1>3, <2>2, <2>4 DEF Phases, Waiting
  <2>6. Owing'
    BY <1>4 DEF Owing
  <2>7. KillCounts'
    BY <1>0, <2>1, <2>2 DEF KillCounts, AfterKill, KillsDue, Queued
  <2>8. Counted' /\ Supplied'
    BY <2>1, <2>2, <2>3, AccountsSame
  <2>9. QED
    BY <2>2, <2>3, <2>5, <2>6, <2>7, <2>8, OwnerInv DEF OwnerPc
<1>10. QED
  BY <1>7, <1>8, <1>9

\* disconnect goes to wait, again or for the first time.
LEMMA WaitInv ==
  ASSUME IInv, pc[Owner] \in {"disconnect", "dwoken"}, pc' = [pc EXCEPT ![Owner] = "dwait"],
         pc[Owner] = "disconnect" => connected[step],
         connected' = [connected EXCEPT ![step] = FALSE],
         UNCHANGED <<queue, pool, step, ref, runQueue, nIdles, nthreads, toKill,
                     at, inside, cur, tgt, left, made, hops, handled>>
  PROVE  IInv'
<1>0. /\ TypeOK /\ Queues /\ Phases /\ Owing /\ KillCounts /\ Idles
      /\ step \in AllStage /\ tgt \in [Thread -> AllStage] /\ connected \in [AllStage -> BOOLEAN]
  BY DEF IInv, TypeOK, AllStage
<1>1. /\ connected' \in [AllStage -> BOOLEAN]
      /\ \A s \in AllStage \ {step} : connected'[s] = connected[s]
  BY <1>0
<1>2. ~connected'[step]
  BY <1>0, Zenon
<1>3. pool[step]
  BY <1>0 DEF Phases, Waiting
<1>4. /\ pc' \in [Thread -> AllPc] /\ pc'[Owner] = "dwait" /\ Moves(Owner)
      /\ Doomed' = Doomed /\ Idles' /\ WakeUps'
  BY <1>0, OwnerGoes DEF AllPc
<1>5. TypeOK' /\ Queues'
  BY <1>0, <1>1, <1>4 DEF TypeOK, Queues, AllPc, AllStage
<1>6. ASSUME NEW s \in AllStage, connected'[s] PROVE connected[s] /\ s # step
  BY <1>1, <1>2, <1>6
<1>7. ASSUME NEW s \in Stage, connected'[s] PROVE step \in Stage /\ step < s
  <2>1. connected[s] /\ s # step /\ s \in AllStage
    BY <1>6, <1>7, StageFacts
  <2>2. step \in Stage /\ (step <= s \/ step < s)
    BY <1>0, <2>1 DEF Phases, Waiting
  <2>3. QED
    BY <2>1, <2>2, StageFacts
<1>8. Phases'
  <2>1. ASSUME NEW s \in AllStage, connected'[s] PROVE pool[s]
    BY <1>0, <1>6, <2>1 DEF Phases
  <2>2. QED
    BY <1>2, <1>3, <1>4, <1>7, <2>1 DEF Phases, Waiting
<1>9. Owing'
  <2>1. ASSUME NEW s \in AllStage, ref[s] > 0 PROVE connected'[s] \/ s = step
    BY <1>0, <1>1, <2>1 DEF Owing
  <2>2. QED
    BY <1>4, <2>1 DEF Owing, Waiting
<1>10. KillCounts'
  BY <1>0, <1>4 DEF KillCounts, AfterKill, KillsDue, Queued
<1>11. Counted' /\ Supplied'
  BY <1>4, <1>5, AccountsSame
<1>12. QED
  BY <1>4, <1>5, <1>8, <1>9, <1>10, <1>11, OwnerInv DEF OwnerPc

LEMMA DisconnectInv ==
  ASSUME IInv, Disconnect
  PROVE  IInv'
<1>0. step \in AllStage /\ ref[step] \in Nat /\ Owing
  BY DEF IInv, TypeOK, AllStage
<1>1. /\ pc[Owner] = "disconnect" /\ StartDetach
      /\ UNCHANGED <<ref, runQueue, nIdles, nthreads, toKill, at, inside, cur, tgt, left,
                     made, hops, handled>>
  BY DEF Disconnect, workers, counts
<1>2. connected' = [connected EXCEPT ![step] = FALSE]
  BY <1>1 DEF StartDetach
<1>3. CASE connected[step] /\ ref[step] > 0
  <2>1. pc' = [pc EXCEPT ![Owner] = "dwait"] /\ UNCHANGED <<pool, queue, step>>
    BY <1>1, <1>3 DEF StartDetach
  <2>2. QED
    BY <1>1, <1>2, <1>3, <2>1, WaitInv
<1>4. CASE ~(connected[step] /\ ref[step] > 0)
  <2>1. Detach
    BY <1>1, <1>4 DEF StartDetach
  <2>2. ~(ref[step] > 0)
    BY <1>0, <1>1, <1>4 DEF Owing, Waiting
  <2>3. ref[step] = 0
    BY <1>0, <2>2
  <2>4. QED
    BY <1>1, <1>2, <2>1, <2>3, DetachInv
<1>5. QED
  BY <1>3, <1>4

LEMMA DisconnectedInv ==
  ASSUME IInv, Disconnected
  PROVE  IInv'
<1>0. step \in AllStage /\ ref[step] \in Nat /\ Phases /\ connected \in [AllStage -> BOOLEAN]
  BY DEF IInv, TypeOK, AllStage
<1>1. /\ pc[Owner] = "dwoken"
      /\ UNCHANGED <<connected, ref, runQueue, nIdles, nthreads, toKill, at, inside, cur, tgt, left,
                     made, hops, handled>>
  BY DEF Disconnected, workers, counts
<1>2. connected' = [connected EXCEPT ![step] = FALSE]
  <2>1. connected[step] = FALSE
    BY <1>0, <1>1 DEF Phases, Waiting
  <2>2. QED
    BY <1>0, <1>1, <2>1
<1>3. CASE ref[step] > 0
  <2>1. pc' = [pc EXCEPT ![Owner] = "dwait"] /\ UNCHANGED <<pool, queue, step>>
    BY <1>3 DEF Disconnected
  <2>2. QED
    BY <1>1, <1>2, <2>1, WaitInv
<1>4. CASE ~(ref[step] > 0)
  <2>1. Detach /\ ref[step] = 0
    BY <1>0, <1>4 DEF Disconnected
  <2>2. QED
    BY <1>1, <1>2, <2>1, DetachInv
<1>5. QED
  BY <1>3, <1>4

-----------------------------------------------------------------------------
(* The invariant *)

LEMMA InitInv == Init => IInv
<1> SUFFICES ASSUME Init PROVE IInv
  OBVIOUS
<1>0. Cardinality(Worker) \in Nat
  BY ThreadsFinite, FS_CardinalityType
<1>1. /\ pc \in [Thread -> AllPc] /\ pc[Owner] = "connect"
      /\ \A w \in Worker : pc[w] = "loop"
      /\ \A t \in Outside : pc[t] = "idle"
      /\ \A t \in Thread : pc[t] \in {"loop", "connect", "idle"}
  BY ThreadFacts DEF Init, AllPc
<1>2. <<>> \in Seq(Event \cup {KillEvent}) /\ <<>> \in Seq(Event) /\ <<>> \in Seq(AllStage)
  OBVIOUS
<1>3. /\ queue = [s \in AllStage |-> <<>>] /\ ref = [s \in AllStage |-> 0]
      /\ connected = [s \in AllStage |-> FALSE] /\ pool = [s \in AllStage |-> s # Killer]
      /\ runQueue = <<>> /\ nIdles = 0 /\ nthreads = Cardinality(Worker) /\ toKill = 0
      /\ at = [w \in Worker |-> Killer] /\ inside = [w \in Worker |-> Killer]
      /\ cur = [w \in Worker |-> KillEvent] /\ tgt = [t \in Thread |-> Killer]
      /\ step = 1 /\ left = 0 /\ made = 0 /\ hops = 0 /\ handled = {}
  BY DEF Init, AllStage
<1>4. TypeOK
  <2>1. /\ queue \in [AllStage -> Seq(Event \cup {KillEvent})] /\ ref \in [AllStage -> Nat]
        /\ connected \in [AllStage -> BOOLEAN] /\ pool \in [AllStage -> BOOLEAN]
    BY <1>2, <1>3
  <2>2. /\ runQueue \in Seq(AllStage) /\ nIdles \in 0 .. Cardinality(Worker)
        /\ nthreads \in 0 .. Cardinality(Worker) /\ toKill \in 0 .. Cardinality(Worker)
        /\ left \in Nat /\ made \in 0 .. MaxEvent /\ hops \in 0 .. MaxHops /\ handled \subseteq Event
    BY <1>0, <1>2, <1>3, SedaAssumption
  <2>3. /\ at \in [Worker -> AllStage] /\ inside \in [Worker -> AllStage]
        /\ cur \in [Worker -> Event \cup {KillEvent}] /\ tgt \in [Thread -> AllStage]
        /\ step \in AllStage
    BY <1>3, StageFacts
  <2>4. QED
    BY <1>1, <2>1, <2>2, <2>3 DEF TypeOK, AllPc, AllStage
<1>5. Places
  BY <1>1, ThreadFacts DEF Places, Placed, OwnerPc, WorkerPc, OutsidePc
<1>6. Queues
  BY <1>2, <1>3, StageFacts DEF Queues
<1>7. \A s \in AllStage : ~connected[s]
  BY <1>3
<1>8. \A s \in Stage : pool[s]
  BY <1>3, StageFacts, Zenon
<1>9. Phases
  BY <1>1, <1>3, <1>7, <1>8, StageFacts DEF Phases, Waiting
<1>10. Owing
  BY <1>3 DEF Owing
<1>11. Idle = {} /\ Doomed = {} /\ Asleep = {}
  BY <1>1 DEF Idle, Doomed, Asleep
<1>12. Idles /\ WakeUps
  BY <1>3, <1>11, FS_EmptySet DEF Idles, WakeUps
<1>13. \A s \in AllStage : Queued(s) = 0
  BY <1>3 DEF Queued
<1>14. KillCounts
  <2>1. KillsDue = 0
    BY <1>11, <1>13, FS_EmptySet, StageFacts DEF KillsDue
  <2>2. QED
    BY <1>1, <1>3, <2>1, StageFacts DEF KillCounts, AfterKill
<1>15. ASSUME NEW s \in AllStage
       PROVE  Entries(s) = 0 /\ OwnerLeft(s) = 0 /\ InHands(s) = 0 /\ ToTake(s) = 0
  <2>1. {i \in DOMAIN runQueue : runQueue[i] = s} = {}
    BY <1>3
  <2>2. Scheduling(s) = {} /\ Serving(s) = {} /\ Adding(s) = {} /\ Removing(s) = {}
    BY <1>1 DEF Scheduling, Serving, Adding, Removing
  <2>3. OwnerLeft(s) = 0
    BY <1>1 DEF OwnerLeft
  <2>4. QED
    BY <2>1, <2>2, <2>3, FS_EmptySet DEF Entries, InHands, ToTake
<1>16. Counted /\ Supplied
  BY <1>3, <1>13, <1>15 DEF Counted, Supplied
<1>17. QED
  BY <1>4, <1>5, <1>6, <1>9, <1>10, <1>12, <1>14, <1>16 DEF IInv

LEMMA StutterInv ==
  ASSUME IInv, UNCHANGED vars
  PROVE  IInv'
<1>0. UNCHANGED <<queue, connected, ref, pool, runQueue, nIdles, nthreads, toKill,
                  pc, at, inside, cur, tgt, step, left, made, hops, handled>>
  BY DEF vars
<1>1. TypeOK' /\ Places' /\ Queues'
  BY <1>0 DEF IInv, TypeOK, Places, Placed, Queues
<1>2. Phases' /\ Owing' /\ Idles'
  BY <1>0 DEF IInv, Phases, Waiting, Owing, Idles, Idle
<1>3. KillCounts' /\ WakeUps'
  BY <1>0 DEF IInv, KillCounts, AfterKill, KillsDue, Queued, Doomed, WakeUps, Asleep, Coming
<1>4. Counted'
  BY <1>0 DEF IInv, Counted, Entries, OwnerLeft, InHands, Scheduling, Serving, Adding
<1>5. Supplied'
  BY <1>0 DEF IInv, Supplied, Entries, OwnerLeft, ToTake, Scheduling, Removing, Queued
<1>6. QED
  BY <1>1, <1>2, <1>3, <1>4, <1>5 DEF IInv

LEMMA NextInv == IInv /\ [Next]_vars => IInv'
<1> SUFFICES ASSUME IInv, [Next]_vars PROVE IInv'
  OBVIOUS
<1>1. CASE UNCHANGED vars
  BY <1>1, StutterInv
<1>2. ASSUME NEW w \in Worker, WorkerStep(w) PROVE IInv'
  <2>1. CASE Sleep(w)
    BY <2>1, SleepInv
  <2>2. CASE Pop(w)
    BY <2>2, PopInv
  <2>3. CASE Remove(w)
    BY <2>3, RemoveInv
  <2>4. CASE Finish(w)
    BY <2>4, FinishInv
  <2>5. CASE Release(w)
    BY <2>5, ReleaseInv
  <2>6. CASE WorkerSchedule(w)
    BY <2>6, WorkerScheduleInv
  <2>7. CASE ThreadKill(w)
    BY <2>7, ThreadKillInv
  <2>8. ASSUME NEW s \in Stage, CallNext(w, s) PROVE IInv'
    BY <2>8, CallNextInv
  <2>9. ASSUME NEW s \in Stage, PassOn(w, s) PROVE IInv'
    BY <2>9, PassOnInv
  <2>10. QED
    BY <1>2, <2>1, <2>2, <2>3, <2>4, <2>5, <2>6, <2>7, <2>8, <2>9 DEF WorkerStep
<1>3. ASSUME NEW w \in Worker, Spurious(w) PROVE IInv'
  BY <1>3, SpuriousInv
<1>4. ASSUME NEW t \in Outside, OutsideSchedule(t) PROVE IInv'
  BY <1>4, OutsideScheduleInv
<1>5. ASSUME NEW t \in Outside, NEW s \in Stage, AddEvent(t, s) PROVE IInv'
  BY <1>5, AddEventInv
<1>6. CASE OwnerStep
  <2>1. CASE Connect
    BY <2>1, ConnectInv
  <2>2. CASE Backlog
    BY <2>2, BacklogInv
  <2>3. CASE Disconnect
    BY <2>3, DisconnectInv
  <2>4. CASE Disconnected
    BY <2>4, DisconnectedInv
  <2>5. CASE Kill
    BY <2>5, KillInv
  <2>6. CASE AddKill
    BY <2>6, AddKillInv
  <2>7. CASE OwnerSchedule
    BY <2>7, OwnerScheduleInv
  <2>8. CASE KillWait
    BY <2>8, KillWaitInv
  <2>9. CASE Killed
    BY <2>9, KilledInv
  <2>10. QED
    BY <1>6, <2>1, <2>2, <2>3, <2>4, <2>5, <2>6, <2>7, <2>8, <2>9 DEF OwnerStep
<1>7. CASE Cleanup
  BY <1>7, CleanupInv
<1>8. CASE DisconnectWakes
  BY <1>8, DisconnectWakesInv
<1>9. CASE KillWakes
  BY <1>9, KillWakesInv
<1>10. QED
  BY <1>1, <1>2, <1>3, <1>4, <1>5, <1>6, <1>7, <1>8, <1>9 DEF Next

\* The invariant above holds in every state, for any number of threads,
\* stages and events.
THEOREM Inductive == Spec => []IInv
<1>1. QED
  BY InitInv, NextInv, PTL DEF Spec

\* Every variable of the stages, the pool and its threads has its type; in
\* particular no count of what is owed, idle or to be killed passes zero.
THEOREM Typing == Spec => []TypeOK
<1>1. IInv => TypeOK
  BY DEF IInv
<1>2. QED
  BY <1>1, Inductive, PTL

LEMMA RefCountsLemma == IInv => RefCounts
<1> SUFFICES ASSUME IInv, NEW s \in AllStage
             PROVE  ref[s] = Entries(s) + Cardinality(Scheduling(s)) + OwnerLeft(s)
                             + Cardinality(Serving(s)) + Cardinality(Adding(s))
  BY DEF RefCounts, AllStage
<1>1. ref[s] = Entries(s) + OwnerLeft(s) + InHands(s)
  BY DEF IInv, Counted
<1>2. QED
  BY <1>1, DueLemma DEF InHands

\* event_ref_ counts exactly what add_event, connect, the run queue and the
\* workers still have of the stage, whatever they interleave to.
THEOREM Owed == Spec => []RefCounts
<1>1. QED
  BY RefCountsLemma, Inductive, PTL

LEMMA QueueCoveredLemma == IInv => QueueCovered
<1> SUFFICES ASSUME IInv, NEW s \in AllStage
             PROVE  LET due == Entries(s) + Cardinality(Scheduling(s)) + OwnerLeft(s)
                               + Cardinality(Removing(s))
                    IN  Len(queue[s]) >= due /\ (due > 0 => pool[s])
  BY DEF QueueCovered, AllStage
<1> DEFINE due == Entries(s) + Cardinality(Scheduling(s)) + OwnerLeft(s) + Cardinality(Removing(s))
<1>1. due = Entries(s) + OwnerLeft(s) + ToTake(s) /\ due \in Nat
  BY DueLemma DEF ToTake
<1>2. due <= ref[s] /\ ref[s] \in Nat
  BY <1>1, DueLemma
<1>3. due <= Len(queue[s]) /\ Len(queue[s]) \in Nat
  <2>1. due <= Queued(s)
    BY <1>1 DEF IInv, Supplied
  <2>2. Len(queue[s]) \in Nat
    BY DEF IInv, TypeOK, AllStage
  <2>3. QED
    BY <2>1, <2>2 DEF Queued
<1> HIDE DEF due
<1>4. ASSUME due > 0 PROVE pool[s]
  <2>1. ref[s] > 0
    BY <1>1, <1>2, <1>4
  <2>2. QED
    BY <2>1 DEF IInv, Owing, Phases
<1>5. Len(queue[s]) >= due
  BY <1>1, <1>3
<1>6. QED
  BY <1>4, <1>5 DEF due

\* The asserts of schedule, add_event and remove_event hold: whoever takes an
\* event off a queue finds one, and a scheduled stage still has its pool.
THEOREM AssertsHold == Spec => []QueueCovered
<1>1. QED
  BY QueueCoveredLemma, Inductive, PTL

LEMMA QuietLemma ==
  ASSUME IInv, NEW s \in Stage, ~pool[s]
  PROVE  Serving(s) \cup Adding(s) = {} /\ Entries(s) = 0
<1>0. s \in AllStage
  BY StageFacts
<1>1. ~(ref[s] > 0)
  BY <1>0 DEF IInv, Owing, Phases
<1>2. ref[s] = Entries(s) + OwnerLeft(s) + InHands(s)
  BY <1>0 DEF IInv, Counted
<1>3. Entries(s) = 0 /\ Cardinality(Serving(s)) = 0 /\ Cardinality(Adding(s)) = 0
  BY <1>0, <1>1, <1>2, DueLemma DEF InHands
<1>4. IsFiniteSet(Serving(s)) /\ IsFiniteSet(Adding(s))
  BY ThreadsFinite, FS_Subset DEF Serving, Adding
<1>5. Serving(s) = {} /\ Adding(s) = {}
  BY <1>3, <1>4, FS_EmptySet
<1>6. QED
  BY <1>3, <1>5

\* A worker in a handler keeps the stage whose event it has from being
\* disconnected.
LEMMA HandlingLemma ==
  ASSUME IInv, NEW w \in Worker, pc[w] = "handle"
  PROVE  pool[at[w]] /\ ref[at[w]] > 0
<1>1. at[w] \in AllStage /\ w \in Serving(at[w])
  BY DEF IInv, TypeOK, AllStage, Serving
<1>2. ref[at[w]] = Entries(at[w]) + OwnerLeft(at[w]) + InHands(at[w]) /\ ref[at[w]] \in Nat
  BY <1>1 DEF IInv, Counted, TypeOK, AllStage
<1>3. IsFiniteSet(Serving(at[w])) /\ Cardinality(Serving(at[w])) # 0
  BY <1>1, ThreadsFinite, FS_Subset, FS_EmptySet DEF Serving
<1>4. ref[at[w]] > 0
  <2>1. /\ Entries(at[w]) \in Nat /\ OwnerLeft(at[w]) \in Nat
        /\ Cardinality(Scheduling(at[w])) \in Nat /\ Cardinality(Adding(at[w])) \in Nat
        /\ Cardinality(Serving(at[w])) \in Nat
    BY <1>1, DueLemma
  <2>2. QED
    BY <1>2, <1>3, <2>1 DEF InHands
<1>5. QED
  BY <1>1, <1>4 DEF IInv, Owing, Phases

LEMMA OwnEventsLemma == IInv => OwnEventsDone
  BY QuietLemma, HandlingLemma DEF OwnEventsDone

\* Stage::disconnect waits for the events of its own queue: once it has
\* returned, no worker has or will get one of them.  A worker that is in the
\* stage's handler then was sent there by a handler of a stage that still has
\* to be disconnected.  For any number of threads, stages and direct calls.
THEOREM DisconnectIsFinal == Spec => []OwnEventsDone
<1>1. QED
  BY OwnEventsLemma, Inductive, PTL

LEMMA AwakeLemma == IInv => SomebodyAwake
<1> SUFFICES ASSUME IInv, runQueue # <<>>, NEW w \in Worker, pc[w] # "dead"
             PROVE  \E u \in Worker : pc[u] \notin {"dead", "wait"}
  BY DEF SomebodyAwake
<1>1. CASE Asleep = {}
  BY <1>1 DEF Asleep
<1>2. CASE Asleep # {}
  <2>1. Len(runQueue) \in Nat /\ Len(runQueue) # 0
    BY DEF IInv, TypeOK
  <2>2. Len(runQueue) <= Cardinality(Coming)
    BY <1>2 DEF IInv, WakeUps
  <2>3. Coming # {}
    BY <2>1, <2>2, FS_EmptySet
  <2>4. QED
    BY <2>3 DEF Coming
<1>3. QED
  BY <1>1, <1>2

\* Threadpool::schedule loses no wake-up, although it does not signal for the
\* only entry a worker adds: what is on the run queue finds a thread awake.
THEOREM NoLostWakeUp == Spec => []SomebodyAwake
<1>1. QED
  BY AwakeLemma, Inductive, PTL
=============================================================================
