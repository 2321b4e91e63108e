---------------------------- MODULE ServerProofs ----------------------------
(***************************************************************************)
(* Proofs about Server for any number of clients, threads and requests: a  *)
(* client that sends one request at a time gets its answers in turn, and   *)
(* the server goes on unless a client, or the operating system, is unkind. *)
(***************************************************************************)
EXTENDS Server, FiniteSetTheorems, SequenceTheorems, WellFoundedInduction, TLAPS

Chunks == [of : Requests, end : BOOLEAN]
Readers ==
  {Idle} \cup [at : {"lock"}, c : Clients]
         \cup [at : {"read"}, c : Clients, begun : BOOLEAN]
Jobs ==
  {Idle} \cup [at : {"execute", "storage", "send"}, c : Clients, request : Requests]
         \cup [at : {"end"}, c : Clients, request : Requests, whole : BOOLEAN]
Answers == [to : Requests, whole : BOOLEAN]

\* The variables that TypeOK says nothing of, and those it bounds.
Shapes ==
  /\ peer \in [Clients -> {"new", "open", "closed"}]
  /\ context \in [Clients -> {"none", "live", "freed"}]
  /\ mutex \in [Clients -> Workers \cup {NoOne, Net}]
  /\ process \in {"up", "quit", "killed", "undefined"}
  /\ faults \in 0..MaxFaults
  /\ sent \in [Clients -> Seq(Requests)]
  /\ sock \in [Clients -> Seq(Chunks)]
  /\ buf \in [Clients -> Seq(Requests)]
  /\ made \in [Clients -> Nat]
  /\ answers \in [Clients -> Seq(Answers)]
  /\ queue \in Seq(Clients)
  /\ net \in Readers
  /\ worker \in [Workers -> Jobs]
  /\ hasty \in SUBSET Clients /\ rude \in SUBSET Clients

\* A read has begun, an event is queued, a thread is busy with a request of the client.
Begun(c) == net.at = "read" /\ net.c = c /\ net.begun
Queued(c) == \E i \in DOMAIN queue : queue[i] = c
Serves(w, c) == worker[w].at # "idle" /\ worker[w].c = c
Served(c) == \E w \in Workers : Serves(w, c)

\* What has arrived of a request, and how many of them.
Numbered(c) ==
  /\ Len(sent[c]) <= MaxRequests
  /\ \A k \in 1..Len(sent[c]) : sent[c][k].n = k
Arrivals(c) ==
  /\ made[c] <= Len(sent[c]) /\ Len(buf[c]) <= 1
  /\ \A i \in 1..Len(sock[c]) :
       /\ made[c] < sock[c][i].of.n /\ sock[c][i].of.n <= Len(sent[c])
       /\ sock[c][i].of = sent[c][sock[c][i].of.n]
       /\ sock[c][i].end => sock[c][i].of.kind # "huge"
  /\ Begun(c) => made[c] < Len(sent[c])

\* A request of a client that sends one at a time is in one place.
Last(c) == sent[c][Len(sent[c])]
OnePlace(c) ==
  /\ Len(sent[c]) <= made[c] + 1
  /\ Queued(c) \/ Served(c) => Len(sent[c]) # 0
  /\ made[c] < Len(sent[c]) =>
       ~Queued(c) /\ ~Served(c) /\ (sock[c] # <<>> \/ Begun(c) \/ context[c] = "freed")
  /\ Queued(c) => /\ ~Served(c)
                  /\ Len(buf[c]) = 1 => buf[c][1] = Last(c) /\ buf[c][1].kind # "huge"
  /\ \A i, j \in 1..Len(queue) : queue[i] = c /\ queue[j] = c => i = j
  /\ \A w \in Workers : Serves(w, c) =>
       worker[w].request = Last(c) /\ Last(c).kind \notin {"blank", "huge"}
  /\ \A w, u \in Workers : Serves(w, c) /\ Serves(u, c) => w = u

\* Its answers are in turn, all but the last of its requests are answered, and the last
\* one is not while it is on its way.
InTurn(c) ==
  /\ \A i \in 1..Len(answers[c]) :
       /\ answers[c][i].to.n <= Len(sent[c])
       /\ answers[c][i].to = sent[c][answers[c][i].to.n]
       /\ answers[c][i].to.kind \notin {"blank", "huge"}
  /\ \A i, j \in 1..Len(answers[c]) : i < j => answers[c][i].to.n < answers[c][j].to.n
  /\ \A k \in 1..Len(sent[c]) :
       k < Len(sent[c]) /\ sent[c][k].kind \notin {"blank", "huge"} => Replied(c, sent[c][k])
  /\ made[c] < Len(sent[c]) \/ Queued(c) \/ Served(c) =>
       \A i \in 1..Len(answers[c]) : answers[c][i].to.n < Len(sent[c])

Orderly(c) ==
  /\ Numbered(c) /\ Arrivals(c)
  /\ c \notin hasty => OnePlace(c) /\ InTurn(c)

\* As long as nobody is hasty or rude and nothing is refused, a connection in use is not
\* freed, and a client that has left has nothing on its way.
Calm == hasty = {} /\ rude = {} /\ faults = 0
InUse(c) == (net.at # "idle" /\ net.c = c) \/ Queued(c) \/ Served(c)
Quiet(c) ==
  /\ InUse(c) => context[c] # "freed"
  /\ peer[c] = "closed" => ~Queued(c) /\ ~Served(c) /\ ~Begun(c) /\ sock[c] = <<>>
CalmUp == Calm => process \in {"up", "quit"} /\ \A c \in Clients : Quiet(c)

IInv == Shapes /\ (\A c \in Clients : Orderly(c)) /\ CalmUp
-----------------------------------------------------------------------------
(* Sequences, records and counting *)

\* The parts of a thread's job.
LEMMA JobFacts ==
  ASSUME NEW j \in Jobs
  PROVE  /\ j.at # "idle" => j.c \in Clients /\ j.request \in Requests
         /\ j.at = "idle" => j = Idle
         /\ j.at \in {"idle", "execute", "storage", "send", "end"}
         /\ j.at = "end" => j.whole \in BOOLEAN
BY DEF Jobs, Idle

\* A job that goes on to the next stage stays the job of the same request.
LEMMA JobAdvances ==
  ASSUME NEW j \in Jobs, j.at \in {"execute", "storage"}, NEW x \in {"storage", "send"}
  PROVE  LET k == [j EXCEPT !.at = x]
         IN  k \in Jobs /\ k.at = x /\ k.c = j.c /\ k.request = j.request
BY DEF Jobs, Idle

\* The parts of what the event loop is at.
LEMMA ReaderFacts ==
  ASSUME NEW r \in Readers
  PROVE  /\ r.at # "idle" => r.c \in Clients
         /\ r.at = "idle" => r = Idle
         /\ r.at \in {"idle", "lock", "read"}
         /\ r.at = "read" => r.begun \in BOOLEAN
BY DEF Readers, Idle

\* A part of a request has been read.
LEMMA ReaderBegins ==
  ASSUME NEW r \in Readers, r.at = "read"
  PROVE  LET k == [r EXCEPT !.begun = TRUE]
         IN  k \in Readers /\ k.at = "read" /\ k.c = r.c /\ k.begun = TRUE
<1>1. r \in [at : {"read"}, c : Clients, begun : BOOLEAN]
  BY DEF Readers, Idle
<1>2. QED
  BY <1>1 DEF Readers

\* Requests are numbered from 1.
LEMMA RequestFacts ==
  /\ \A x \in Chunks : x.of \in Requests /\ x.of.n \in Nat \ {0}
  /\ \A a \in Answers : a.to \in Requests /\ a.to.n \in Nat \ {0}
BY ServerAssumption DEF Chunks, Answers, Requests

\* What Tail does, and what is in a sequence.
LEMMA TailFacts ==
  ASSUME NEW S, NEW s \in Seq(S), s # <<>>
  PROVE  /\ Tail(s) \in Seq(S) /\ Len(Tail(s)) = Len(s) - 1
         /\ \A i \in 1..Len(Tail(s)) : Tail(s)[i] = s[i + 1]
         /\ Head(s) = s[1] /\ Len(s) \in Nat \ {0} /\ Head(s) \in S
BY HeadTailProperties, LenProperties, EmptySeq

LEMMA SeqFacts ==
  ASSUME NEW S, NEW s \in Seq(S)
  PROVE  /\ DOMAIN s = 1..Len(s) /\ Len(s) \in Nat
         /\ \A i \in 1..Len(s) : s[i] \in S
         /\ s = <<>> <=> Len(s) = 0
BY LenProperties, EmptySeq

\* FirstEnd finds an end when there is one.
LEMMA FirstEndLemma ==
  ASSUME NEW S, NEW s \in Seq(S), \E i \in DOMAIN s : s[i].end
  PROVE  FirstEnd(s) \in DOMAIN s /\ s[FirstEnd(s)].end
<1> DEFINE T == {i \in DOMAIN s : s[i].end}
           R == {ss \in Nat \X Nat : ss[1] < ss[2]}
<1>1. T # {} /\ T \subseteq Nat
  BY SeqFacts
<1>2. IsWellFoundedOn(R, Nat)
  BY NatLessThanWellFounded, Zenon DEF OpToRel
<1>3. PICK i \in T : \A j \in T : ~(j < i)
  <2> HIDE DEF T, R
  <2>1. PICK i \in T : \A j \in T : ~(<<j, i>> \in R)
    BY <1>1, <1>2, WFMin
  <2>2. \A j \in T : ~(j < i)
    BY <1>1, <2>1 DEF R
  <2>3. QED
    BY <2>2
<1>4. \A j \in 1..(i - 1) : ~s[j].end
  BY <1>3, SeqFacts
<1>5. QED
  BY <1>3, <1>4 DEF FirstEnd

\* As long as a request may be sent, no client has sent as many as there may be.
LEMMA Room ==
  ASSUME sent \in [Clients -> Seq(Requests)], Sent < MaxRequests, NEW c \in Clients
  PROVE  Len(sent[c]) < MaxRequests
<1> DEFINE P == {p \in Clients \X (1..MaxRequests) : p[2] <= Len(sent[p[1]])}
           Q == {c} \X (1..MaxRequests)
<1>1. IsFiniteSet(1..MaxRequests) /\ Cardinality(1..MaxRequests) = MaxRequests
  BY FS_Interval, ServerAssumption
<1>2. IsFiniteSet(Clients \X (1..MaxRequests))
  BY <1>1, FS_Product, ServerAssumption
<1>3. IsFiniteSet(P) /\ Cardinality(P) \in Nat
  <2>1. P \subseteq Clients \X (1..MaxRequests)
    OBVIOUS
  <2>2. QED
    BY <2>1, <1>2, FS_Subset, FS_CardinalityType
<1>4. Cardinality(Q) = MaxRequests
  <2>1. IsFiniteSet({c}) /\ Cardinality({c}) = 1
    BY FS_Singleton
  <2>2. Cardinality(Q) = Cardinality({c}) * Cardinality(1..MaxRequests)
    BY <1>1, <2>1, FS_Product, Zenon
  <2>3. QED
    BY <1>1, <2>1, <2>2, ServerAssumption
<1>5. ASSUME MaxRequests <= Len(sent[c])
      PROVE  FALSE
  <2>1. Q \subseteq P
    BY <1>5, SeqFacts, ServerAssumption
  <2>2. Cardinality(Q) <= Cardinality(P)
    BY <2>1, <1>3, FS_Subset
  <2>3. Sent = Cardinality(P)
    BY DEF Sent
  <2>4. QED
    BY <2>2, <2>3, <1>3, <1>4, ServerAssumption
<1>6. QED
  BY <1>5, SeqFacts, ServerAssumption
-----------------------------------------------------------------------------
(* What a step that leaves a client's requests alone keeps *)

Once(c) == \A i, j \in 1..Len(queue) : queue[i] = c /\ queue[j] = c => i = j

\* A step that moves nothing of the client's towards its answer.
Untouched(c) ==
  /\ sent'[c] = sent[c] /\ sock'[c] = sock[c] /\ made'[c] = made[c] /\ answers'[c] = answers[c]
  /\ buf'[c] = buf[c] \/ buf'[c] = <<>>
  /\ Begun(c)' => Begun(c)
  /\ \/ context'[c] = "freed"
     \/ (context[c] # "freed" /\ (Begun(c) => Begun(c)'))
  /\ Queued(c)' => Queued(c)
  /\ Once(c) => Once(c)'
  /\ \A w \in Workers : Serves(w, c)' => Serves(w, c) /\ worker'[w].request = worker[w].request
  /\ hasty \subseteq hasty'

LEMMA UntouchedLemma ==
  ASSUME NEW c \in Clients, Shapes, Untouched(c), Orderly(c)
  PROVE  Orderly(c)'
<1>0. sent[c] \in Seq(Requests) /\ buf[c] \in Seq(Requests) /\ Len(<<>>) = 0 /\ made[c] \in Nat
  BY DEF Shapes
<1>1. Numbered(c)'
  BY DEF Orderly, Numbered, Untouched
<1>2. Arrivals(c)'
  <2>1. Len(buf'[c]) <= 1
    BY <1>0 DEF Orderly, Arrivals, Untouched
  <2>2. QED
    BY <2>1 DEF Orderly, Arrivals, Untouched
<1>3. ASSUME c \notin hasty'
      PROVE  OnePlace(c)' /\ InTurn(c)'
  <2>1. OnePlace(c) /\ InTurn(c)
    BY <1>3 DEF Untouched, Orderly
  <2>2. Served(c)' => Served(c)
    BY DEF Untouched, Served
  <2>3. /\ Len(sent'[c]) <= made'[c] + 1
        /\ Queued(c)' \/ Served(c)' => Len(sent'[c]) # 0
        /\ made'[c] < Len(sent'[c]) =>
             ~Queued(c)' /\ ~Served(c)' /\ (sock'[c] # <<>> \/ Begun(c)' \/ context'[c] = "freed")
    BY <2>1, <2>2 DEF Untouched, OnePlace
  <2>4. Last(c)' = Last(c)
    BY DEF Untouched, Last
  <2>5. Queued(c)' => /\ ~Served(c)'
                      /\ Len(buf'[c]) = 1 => buf'[c][1] = Last(c)' /\ buf'[c][1].kind # "huge"
    BY <1>0, <2>1, <2>2, <2>4 DEF Untouched, OnePlace
  <2>6. \A w \in Workers : Serves(w, c)' =>
          worker'[w].request = Last(c)' /\ Last(c)'.kind \notin {"blank", "huge"}
    BY <2>1, <2>4 DEF Untouched, OnePlace
  <2>7. \A w, u \in Workers : Serves(w, c)' /\ Serves(u, c)' => w = u
    BY <2>1 DEF Untouched, OnePlace
  <2>8. Once(c)'
    BY <2>1 DEF OnePlace, Once, Untouched
  <2>9. OnePlace(c)'
    BY <2>3, <2>5, <2>6, <2>7, <2>8 DEF OnePlace, Once
  <2>10. InTurn(c)'
    BY <2>1, <2>2 DEF InTurn, Untouched, Replied
  <2>11. QED
    BY <2>9, <2>10
<1>4. QED
  BY <1>1, <1>2, <1>3 DEF Orderly

\* A step that brings nothing of the client's into use.
Still(c) ==
  /\ InUse(c)' => InUse(c)
  /\ context'[c] # "freed" \/ context'[c] = context[c]
  /\ peer'[c] = peer[c] \/ peer'[c] = "open"
  /\ Queued(c)' => Queued(c)
  /\ Served(c)' => Served(c)
  /\ Begun(c)' => Begun(c)
  /\ sock'[c] = sock[c] \/ sock'[c] = <<>>

LEMMA StillLemma ==
  ASSUME NEW c \in Clients, Still(c), Quiet(c)
  PROVE  Quiet(c)'
BY DEF Still, Quiet

\* Nobody becomes calm again.
Grows == hasty \subseteq hasty' /\ rude \subseteq rude' /\ faults <= faults'

LEMMA CalmBefore ==
  ASSUME Shapes, Grows, Calm'
  PROVE  Calm
BY ServerAssumption DEF Shapes, Grows, Calm

\* Where the queue and the threads stay, so does what they are at.
LEMMA QueueSame ==
  ASSUME UNCHANGED queue, NEW c \in Clients
  PROVE  (Queued(c)' <=> Queued(c)) /\ (Once(c)' <=> Once(c))
BY DEF Queued, Once

LEMMA WorkerSame ==
  ASSUME UNCHANGED worker, NEW c \in Clients
  PROVE  /\ Served(c)' <=> Served(c)
         /\ \A w \in Workers : Serves(w, c)' => Serves(w, c) /\ worker'[w].request = worker[w].request
BY DEF Served, Serves

LEMMA NetSame ==
  ASSUME UNCHANGED net, NEW c \in Clients
  PROVE  Begun(c)' <=> Begun(c)
BY DEF Begun

\* A step of the clients or of the operating system leaves all three alone.
LEMMA UsesSame ==
  ASSUME UNCHANGED <<queue, worker, net>>, NEW c \in Clients
  PROVE  InUse(c)' <=> InUse(c)
BY QueueSame, WorkerSame DEF InUse

\* The first event of the queue is taken.
LEMMA QueueTail ==
  ASSUME Shapes, queue # <<>>, queue' = Tail(queue), NEW c \in Clients
  PROVE  /\ Queued(c)' => Queued(c)
         /\ Once(c) => Once(c)'
         /\ Once(c) /\ c = Head(queue) => ~Queued(c)'
         /\ Head(queue) \in Clients /\ Queued(Head(queue))
<1>1. queue \in Seq(Clients)
  BY DEF Shapes
<1>2. /\ queue' \in Seq(Clients) /\ Len(queue') = Len(queue) - 1
      /\ \A i \in 1..Len(queue') : queue'[i] = queue[i + 1]
      /\ Head(queue) = queue[1] /\ Len(queue) \in Nat \ {0} /\ Head(queue) \in Clients
  BY <1>1, TailFacts
<1>3. DOMAIN queue = 1..Len(queue) /\ DOMAIN queue' = 1..Len(queue')
  BY <1>1, <1>2, SeqFacts
<1>4. \A i \in 1..Len(queue') : i + 1 \in 1..Len(queue) /\ i + 1 # 1
  BY <1>2
<1>5. Queued(c)' => Queued(c)
  BY <1>2, <1>3, <1>4 DEF Queued
<1>6. Once(c) => Once(c)'
  BY <1>2, <1>4 DEF Once
<1>7. ASSUME Once(c), c = Head(queue), Queued(c)'
      PROVE  FALSE
  <2>1. PICK i \in 1..Len(queue') : queue'[i] = c
    BY <1>3, <1>7 DEF Queued
  <2>2. queue[i + 1] = c /\ queue[1] = c /\ i + 1 \in 1..Len(queue) /\ 1 \in 1..Len(queue) /\ i + 1 # 1
    BY <2>1, <1>2, <1>4, <1>7
  <2>3. QED
    BY <2>2, <1>7 DEF Once
<1>8. Queued(Head(queue))
  BY <1>2, <1>3 DEF Queued
<1>9. QED
  BY <1>2, <1>5, <1>6, <1>7, <1>8
-----------------------------------------------------------------------------
(* The clients and the operating system *)

\* Where the requests, the queue, the threads and the event loop stay as they
\* are, the requests are in the places they were.
LEMMA Elsewhere ==
  ASSUME IInv, UNCHANGED <<sent, sock, buf, net, queue, worker, made, answers>>,
         hasty \subseteq hasty', \A d \in Clients : context'[d] = "freed" \/ context[d] # "freed"
  PROVE  \A c \in Clients : Orderly(c)'
<1> SUFFICES ASSUME NEW c \in Clients
             PROVE  Orderly(c)'
  OBVIOUS
<1>1. Untouched(c)
  BY QueueSame, WorkerSame, NetSame DEF Untouched
<1>2. QED
  BY <1>1, UntouchedLemma DEF IInv

LEMMA ConnectLemma ==
  ASSUME IInv, NEW c \in Clients, Connect(c)
  PROVE  IInv'
<1>1. Shapes'
  BY DEF Connect, conns, history, IInv, Shapes
<1>2. \A d \in Clients : Orderly(d)'
  BY Elsewhere DEF Connect, conns, history, IInv, Shapes
<1>3. CalmUp'
  <2>1. Calm' = Calm
    BY DEF Calm, Connect, history
  <2>2. ASSUME Calm', NEW d \in Clients
        PROVE  Quiet(d)'
    <3>1. Still(d)
      BY QueueSame, WorkerSame, NetSame, UsesSame DEF Still, Connect, conns, IInv, Shapes
    <3>2. QED
      BY <2>1, <2>2, <3>1, StillLemma DEF IInv, CalmUp
  <2>3. QED
    BY <2>1, <2>2 DEF Connect, CalmUp, IInv
<1>4. QED
  BY <1>1, <1>2, <1>3 DEF IInv

LEMMA LeaveLemma ==
  ASSUME IInv, NEW c \in Clients, Leave(c)
  PROVE  IInv'
<1>0. rude \in SUBSET Clients
  BY DEF IInv, Shapes
<1>1. Shapes'
  <2>1. rude' \in SUBSET Clients
    BY <1>0 DEF Leave
  <2>2. QED
    BY <2>1 DEF Leave, conns, history, IInv, Shapes
<1>2. \A d \in Clients : Orderly(d)'
  BY Elsewhere DEF Leave, conns, history, IInv, Shapes
<1>3. CalmUp'
  <2>1. Calm' => Calm /\ ~Busy(c)
    BY DEF Calm, Leave
  <2>2. ASSUME Calm', NEW d \in Clients, d # c
        PROVE  Quiet(d)'
    <3>1. Still(d)
      BY <2>2, QueueSame, WorkerSame, NetSame, UsesSame DEF Still, Leave, conns, IInv, Shapes
    <3>2. QED
      BY <2>1, <2>2, <3>1, StillLemma DEF IInv, CalmUp
  <2>3. ASSUME Calm'
        PROVE  Quiet(c)'
    <3>1. ~Queued(c) /\ ~Served(c) /\ ~Begun(c) /\ sock[c] = <<>>
      BY <2>1, <2>3 DEF Busy, Queued, Served, Serves, Begun
    <3>2. ~Queued(c)' /\ ~Served(c)' /\ ~Begun(c)' /\ sock'[c] = <<>>
      BY <3>1, QueueSame, WorkerSame, NetSame DEF Leave
    <3>3. InUse(c)' => context'[c] # "freed"
      BY DEF Leave, conns
    <3>4. QED
      BY <3>2, <3>3 DEF Quiet
  <2>4. QED
    BY <2>1, <2>2, <2>3 DEF Leave, CalmUp, IInv
<1>4. QED
  BY <1>1, <1>2, <1>3 DEF IInv

\* A connection is made.
LEMMA AcceptLemma ==
  ASSUME IInv, NEW c \in Clients, Accept(c)
  PROVE  IInv'
<1>1. Shapes'
  BY DEF Accept, conns, history, IInv, Shapes
<1>2. \A d \in Clients : Orderly(d)'
  BY Elsewhere DEF Accept, conns, history, IInv, Shapes
<1>3. CalmUp'
  <2>1. Calm' = Calm
    BY DEF Calm, Accept, history
  <2>2. ASSUME Calm', NEW d \in Clients
        PROVE  Quiet(d)'
    <3>1. Still(d)
      BY QueueSame, WorkerSame, NetSame, UsesSame DEF Still, Accept, conns, IInv, Shapes
    <3>2. QED
      BY <2>1, <2>2, <3>1, StillLemma DEF IInv, CalmUp
  <2>3. QED
    BY <2>1, <2>2 DEF Accept, CalmUp, IInv
<1>4. QED
  BY <1>1, <1>2, <1>3 DEF IInv

\* What the operating system refuses ends the calm.
LEMMA NotCalm ==
  ASSUME Shapes, faults' = faults + 1
  PROVE  CalmUp'
<1>1. faults \in Nat
  BY ServerAssumption DEF Shapes
<1>2. faults' # 0
  BY <1>1
<1>3. QED
  BY <1>2 DEF CalmUp, Calm

LEMMA AcceptRefusedLemma ==
  ASSUME IInv, NEW c \in Clients, AcceptRefused(c)
  PROVE  IInv'
<1>1. Shapes'
  BY ServerAssumption DEF AcceptRefused, conns, history, IInv, Shapes
<1>2. \A d \in Clients : Orderly(d)'
  BY Elsewhere DEF AcceptRefused, conns, history, IInv, Shapes
<1>3. CalmUp'
  BY NotCalm DEF AcceptRefused, IInv
<1>4. QED
  BY <1>1, <1>2, <1>3 DEF IInv

\* Where a client has nothing left on its way, all it sent was handed over.
LEMMA AllMade ==
  ASSUME IInv, NEW c \in Clients, c \notin hasty, ~Busy(c), context[c] # "freed"
  PROVE  made[c] = Len(sent[c]) /\ ~Queued(c) /\ ~Served(c) /\ ~Begun(c)
<1>1. ~Queued(c) /\ ~Served(c) /\ ~Begun(c) /\ sock[c] = <<>>
  BY DEF Busy, Queued, Served, Serves, Begun
<1>2. made[c] \in Nat /\ Len(sent[c]) \in Nat /\ made[c] <= Len(sent[c])
  BY SeqFacts DEF IInv, Shapes, Orderly, Arrivals
<1>3. ~(made[c] < Len(sent[c]))
  BY <1>1 DEF IInv, Orderly, OnePlace
<1>4. QED
  BY <1>1, <1>2, <1>3

LEMMA SendLemma ==
  ASSUME IInv, NEW c \in Clients, NEW kind \in Asks[c], Send(c, kind)
  PROVE  IInv'
<1> DEFINE n == Len(sent[c])
           r == [n |-> n + 1, kind |-> kind]
<1>0. /\ sent[c] \in Seq(Requests) /\ sent \in [Clients -> Seq(Requests)]
      /\ sock[c] \in Seq(Chunks) /\ sock \in [Clients -> Seq(Chunks)]
      /\ made[c] \in Nat /\ answers[c] \in Seq(Answers)
      /\ n \in Nat /\ n < MaxRequests
  BY Room, SeqFacts DEF IInv, Shapes, Send
<1>1. r \in Requests
  BY <1>0, ServerAssumption DEF Requests
<1>2. PICK end \in BOOLEAN : /\ sock' = [sock EXCEPT ![c] = Append(@, [of |-> r, end |-> end])]
                             /\ end => kind # "huge"
  BY DEF Send
<1> DEFINE x == [of |-> r, end |-> end]
<1>3. x \in Chunks
  BY <1>1 DEF Chunks
<1> HIDE DEF x
<1>4. sent' = [sent EXCEPT ![c] = Append(sent[c], r)] /\ sock' = [sock EXCEPT ![c] = Append(sock[c], x)]
  BY <1>2 DEF Send, x
<1>5. /\ sent'[c] \in Seq(Requests) /\ Len(sent'[c]) = n + 1
      /\ \A k \in 1..n : sent'[c][k] = sent[c][k]
      /\ sent'[c][n + 1] = r
  <2> HIDE DEF r, n
  <2>1. QED
    BY <1>0, <1>1, <1>4, AppendProperties DEF n
<1>6. /\ sock'[c] \in Seq(Chunks) /\ Len(sock'[c]) = Len(sock[c]) + 1 /\ sock'[c] # <<>>
      /\ \A i \in 1..Len(sock[c]) : sock'[c][i] = sock[c][i]
      /\ sock'[c][Len(sock[c]) + 1] = x /\ Len(sock[c]) \in Nat
  <2>1. sock'[c] = Append(sock[c], x)
    BY <1>0, <1>4
  <2>2. Len(sock[c]) \in Nat
    BY <1>0
  <2>3. QED
    BY <1>0, <1>3, <2>1, <2>2, AppendProperties
<1>7. hasty \subseteq hasty' /\ hasty' \in SUBSET Clients /\ (c \notin hasty' => c \notin hasty /\ ~Busy(c))
  BY DEF Send, IInv, Shapes
<1>8. UNCHANGED <<peer, context, buf, mutex, net, queue, worker, made, answers, process, faults, rude>>
  BY DEF Send, conns
<1>9. Shapes'
  <2>1. sent' \in [Clients -> Seq(Requests)]
    BY <1>0, <1>4, <1>5
  <2>2. sock' \in [Clients -> Seq(Chunks)]
    BY <1>0, <1>4, <1>6
  <2>3. QED
    BY <1>7, <1>8, <2>1, <2>2 DEF IInv, Shapes
<1>10. ASSUME NEW d \in Clients, d # c
       PROVE  Orderly(d)'
  <2>1. Untouched(d)
    BY <1>0, <1>4, <1>7, <1>8, <1>10, QueueSame, WorkerSame, NetSame DEF Untouched
  <2>2. QED
    BY <2>1, UntouchedLemma DEF IInv
<1>11. Numbered(c)'
  <2>1. \A k \in 1..n : sent[c][k].n = k
    BY DEF Numbered, IInv, Orderly
  <2>2. \A k \in 1..(n + 1) : k \in 1..n \/ k = n + 1
    <3>1. \A m \in Nat : \A k \in 1..(m + 1) : k \in 1..m \/ k = m + 1
      OBVIOUS
    <3>2. QED
      BY <1>0, <3>1
  <2>3. \A k \in 1..(n + 1) : sent'[c][k].n = k
    BY <1>5, <2>1, <2>2
  <2>4. QED
    BY <1>0, <1>5, <2>3, ServerAssumption DEF Numbered
<1>12. Arrivals(c)'
  <2>1. Arrivals(c) /\ made[c] <= n /\ Len(buf[c]) <= 1
    BY DEF IInv, Orderly, Arrivals
  <2>2. ASSUME NEW i \in 1..Len(sock'[c])
        PROVE  /\ made[c] < sock'[c][i].of.n /\ sock'[c][i].of.n <= n + 1
               /\ sock'[c][i].of = sent'[c][sock'[c][i].of.n]
               /\ sock'[c][i].end => sock'[c][i].of.kind # "huge"
    <3>1. CASE i \in 1..Len(sock[c])
      <4>1. sock'[c][i] = sock[c][i] /\ sock[c][i] \in Chunks /\ sock[c][i].of.n \in Nat
        BY <1>0, <1>6, <3>1, RequestFacts
      <4>2. /\ made[c] < sock[c][i].of.n /\ sock[c][i].of.n <= n
            /\ sock[c][i].of = sent[c][sock[c][i].of.n]
            /\ sock[c][i].end => sock[c][i].of.kind # "huge"
        BY <2>1, <3>1 DEF Arrivals
      <4>3. sock[c][i].of.n \in 1..n
        BY <1>0, <4>1, <4>2
      <4>4. QED
        BY <1>0, <1>5, <4>1, <4>2, <4>3
    <3>2. CASE i = Len(sock[c]) + 1
      BY <1>0, <1>2, <1>5, <1>6, <2>1, <3>2 DEF x
    <3>3. QED
      BY <1>6, <3>1, <3>2
  <2>3. made'[c] <= Len(sent'[c]) /\ (Begun(c)' => made'[c] < Len(sent'[c]))
    BY <1>0, <1>5, <1>8, <2>1
  <2>4. QED
    BY <1>5, <1>8, <2>1, <2>2, <2>3 DEF Arrivals
<1>13. ASSUME c \notin hasty'
       PROVE  OnePlace(c)' /\ InTurn(c)'
  <2>1. c \notin hasty /\ ~Busy(c) /\ context[c] # "freed" /\ OnePlace(c) /\ InTurn(c)
    BY <1>7, <1>13 DEF Send, IInv, Orderly
  <2>2. made[c] = n /\ ~Queued(c) /\ ~Served(c)
    BY <2>1, AllMade
  <2>3. ~Queued(c)' /\ ~Served(c)' /\ Once(c)'
    BY <1>8, <2>1, <2>2, QueueSame, WorkerSame DEF OnePlace, Once
  <2>4. \A w \in Workers : ~Serves(w, c)'
    BY <2>3 DEF Served
  <2>5. OnePlace(c)'
    BY <1>0, <1>5, <1>6, <1>8, <2>2, <2>3, <2>4 DEF OnePlace, Once
  <2>6. ASSUME NEW i \in 1..Len(answers[c])
        PROVE  /\ answers[c][i].to.n < n + 1 /\ answers[c][i].to = sent'[c][answers[c][i].to.n]
               /\ answers[c][i].to.kind \notin {"blank", "huge"}
    <3>1. answers[c][i].to.n \in Nat \ {0}
      BY <1>0, RequestFacts
    <3>2. answers[c][i].to.n <= n /\ answers[c][i].to = sent[c][answers[c][i].to.n]
          /\ answers[c][i].to.kind \notin {"blank", "huge"}
      BY <2>1 DEF InTurn
    <3>3. \A a, b \in Nat : a <= b => a < b + 1
      OBVIOUS
    <3>4. answers[c][i].to.n < n + 1
      BY <1>0, <3>1, <3>2, <3>3
    <3>5. answers[c][i].to.n \in 1..n
      BY <1>0, <3>1, <3>2
    <3>6. QED
      BY <1>5, <3>2, <3>4, <3>5
  <2>7. ASSUME NEW k \in 1..Len(sent'[c]), k < Len(sent'[c]), sent'[c][k].kind \notin {"blank", "huge"}
        PROVE  \E i \in DOMAIN answers'[c] : answers'[c][i].to = sent'[c][k]
    <3>1. k \in 1..n /\ sent'[c][k] = sent[c][k] /\ k \in DOMAIN sent[c]
      BY <1>0, <1>5, <2>7, SeqFacts
    <3>2. Replied(c, sent[c][k])
      BY <2>1, <2>7, <3>1 DEF Busy, Waiting, Answerable
    <3>3. QED
      BY <1>8, <3>1, <3>2 DEF Replied
  <2>8. \A i, j \in 1..Len(answers[c]) : i < j => answers[c][i].to.n < answers[c][j].to.n
    BY <2>1 DEF InTurn
  <2>9. \A i \in 1..Len(answers[c]) : answers[c][i].to.n <= n + 1
    <3>1. SUFFICES ASSUME NEW i \in 1..Len(answers[c])
                   PROVE  answers[c][i].to.n <= n + 1
      OBVIOUS
    <3>2. answers[c][i].to.n \in Nat
      BY <1>0, RequestFacts
    <3>3. QED
      <4>1. \A a, b \in Nat : a < b + 1 => a <= b + 1
        OBVIOUS
      <4>2. QED
        BY <1>0, <2>6, <3>2, <4>1
  <2>10. InTurn(c)'
    BY <1>5, <1>8, <2>6, <2>7, <2>8, <2>9 DEF InTurn, Replied
  <2>11. QED
    BY <2>5, <2>10
<1>14. Orderly(c)'
  BY <1>11, <1>12, <1>13 DEF Orderly
<1>15. CalmUp'
  <2>1. Calm' => Calm
    BY <1>7, <1>8 DEF Calm
  <2>2. ASSUME Calm', NEW d \in Clients, d # c
        PROVE  Quiet(d)'
    <3>1. Still(d)
      BY <1>0, <1>4, <1>8, <2>2, QueueSame, WorkerSame, NetSame, UsesSame DEF Still
    <3>2. QED
      BY <2>1, <2>2, <3>1, StillLemma DEF IInv, CalmUp
  <2>3. peer'[c] = "open" /\ context'[c] # "freed"
    BY <1>8 DEF Send
  <2>4. QED
    BY <1>8, <2>1, <2>2, <2>3 DEF CalmUp, Quiet, IInv
<1>16. QED
  BY <1>9, <1>10, <1>14, <1>15 DEF IInv

LEMMA SendRestLemma ==
  ASSUME IInv, NEW c \in Clients, SendRest(c)
  PROVE  IInv'
<1> DEFINE x == [of |-> Last(c), end |-> TRUE]
<1>0. /\ sent[c] \in Seq(Requests) /\ sock[c] \in Seq(Chunks) /\ sock \in [Clients -> Seq(Chunks)]
      /\ made[c] \in Nat /\ Len(sent[c]) \in Nat /\ Len(sock[c]) \in Nat
  BY SeqFacts DEF IInv, Shapes
<1>1. Numbered(c) /\ Arrivals(c)
  BY DEF IInv, Orderly
<1>2. made[c] < Len(sent[c])
  <2>1. CASE sock[c] # <<>>
    <3>1. Len(sock[c]) \in 1..Len(sock[c])
      BY <1>0, <2>1, SeqFacts
    <3>2. sock[c][Len(sock[c])].of.n \in Nat
      BY <1>0, <3>1, RequestFacts
    <3>3. /\ made[c] < sock[c][Len(sock[c])].of.n
          /\ sock[c][Len(sock[c])].of.n <= Len(sent[c])
      BY <1>1, <3>1 DEF Arrivals
    <3>4. \A a, b, m \in Nat : a < m /\ m <= b => a < b
      OBVIOUS
    <3>5. QED
      BY <1>0, <3>2, <3>3, <3>4
  <2>2. CASE sock[c] = <<>>
    BY <1>1, <2>2 DEF SendRest, Halfway, Begun, Arrivals
  <2>3. QED
    BY <2>1, <2>2
<1>3. Len(sent[c]) \in 1..Len(sent[c])
  BY <1>0, <1>2
<1>4. Last(c) \in Requests /\ Last(c).n = Len(sent[c]) /\ Last(c).kind # "huge"
  BY <1>0, <1>1, <1>3 DEF Last, Numbered, SendRest
<1>5. x \in Chunks
  BY <1>4 DEF Chunks
<1>6. sock' = [sock EXCEPT ![c] = Append(sock[c], x)]
  BY DEF SendRest, Last
<1> HIDE DEF x
<1>7. /\ sock'[c] \in Seq(Chunks) /\ Len(sock'[c]) = Len(sock[c]) + 1 /\ sock'[c] # <<>>
      /\ \A i \in 1..Len(sock[c]) : sock'[c][i] = sock[c][i]
      /\ sock'[c][Len(sock[c]) + 1] = x
  <2>1. sock'[c] = Append(sock[c], x)
    BY <1>0, <1>6
  <2>2. QED
    BY <1>0, <1>5, <2>1, AppendProperties
<1>8. UNCHANGED <<peer, sent, context, buf, mutex, net, queue, worker, made, answers, process, faults, hasty, rude>>
  BY DEF SendRest, conns, history
<1>9. Shapes'
  <2>1. sock' \in [Clients -> Seq(Chunks)]
    BY <1>0, <1>6, <1>7
  <2>2. QED
    BY <1>8, <2>1 DEF IInv, Shapes
<1>10. ASSUME NEW d \in Clients, d # c
       PROVE  Orderly(d)'
  <2>1. Untouched(d)
    BY <1>0, <1>6, <1>8, <1>10, QueueSame, WorkerSame, NetSame DEF Untouched
  <2>2. QED
    BY <2>1, UntouchedLemma DEF IInv
<1>11. Arrivals(c)'
  <2>1. \A i \in 1..Len(sock'[c]) : i \in 1..Len(sock[c]) \/ i = Len(sock[c]) + 1
    <3>1. \A m \in Nat : \A k \in 1..(m + 1) : k \in 1..m \/ k = m + 1
      OBVIOUS
    <3>2. QED
      BY <1>0, <1>7, <3>1
  <2>2. ASSUME NEW i \in 1..Len(sock'[c])
        PROVE  /\ made[c] < sock'[c][i].of.n /\ sock'[c][i].of.n <= Len(sent[c])
               /\ sock'[c][i].of = sent[c][sock'[c][i].of.n]
               /\ sock'[c][i].end => sock'[c][i].of.kind # "huge"
    <3>1. CASE i \in 1..Len(sock[c])
      BY <1>1, <1>7, <3>1 DEF Arrivals
    <3>2. CASE i = Len(sock[c]) + 1
      <4>1. sock'[c][i].of = Last(c)
        BY <1>7, <3>2 DEF x
      <4>2. Len(sent[c]) <= Len(sent[c])
        BY <1>0
      <4>3. QED
        BY <4>1, <4>2, <1>2, <1>4 DEF Last
    <3>3. QED
      BY <2>1, <3>1, <3>2
  <2>3. QED
    BY <1>1, <1>8, <2>2, NetSame DEF Arrivals
<1>12. ASSUME c \notin hasty'
       PROVE  OnePlace(c)' /\ InTurn(c)'
  <2>1. OnePlace(c) /\ InTurn(c)
    BY <1>8, <1>12 DEF IInv, Orderly
  <2>2. Last(c)' = Last(c)
    BY <1>8 DEF Last
  <2>3. (Queued(c)' <=> Queued(c)) /\ (Served(c)' <=> Served(c))
    BY <1>8, QueueSame, WorkerSame
  <2>4. \A w \in Workers : (Serves(w, c)' <=> Serves(w, c)) /\ worker'[w].request = worker[w].request
    BY <1>8 DEF Serves
  <2>5. OnePlace(c)'
    BY <1>7, <1>8, <2>1, <2>2, <2>3, <2>4 DEF OnePlace
  <2>6. InTurn(c)'
    BY <1>8, <2>1, <2>3 DEF InTurn, Replied
  <2>7. QED
    BY <2>5, <2>6
<1>13. Orderly(c)'
  BY <1>1, <1>8, <1>11, <1>12 DEF Orderly, Numbered
<1>14. CalmUp'
  <2>1. Calm' = Calm
    BY <1>8 DEF Calm
  <2>2. ASSUME Calm', NEW d \in Clients, d # c
        PROVE  Quiet(d)'
    <3>1. Still(d)
      BY <1>0, <1>6, <1>8, <2>2, QueueSame, WorkerSame, NetSame, UsesSame DEF Still
    <3>2. QED
      BY <2>1, <2>2, <3>1, StillLemma DEF IInv, CalmUp
  <2>3. peer'[c] = "open" /\ context'[c] # "freed"
    BY <1>8 DEF SendRest
  <2>4. QED
    BY <1>8, <2>1, <2>2, <2>3 DEF CalmUp, Quiet, IInv
<1>15. QED
  BY <1>9, <1>10, <1>13, <1>14 DEF IInv
-----------------------------------------------------------------------------
(* The event loop *)

LEMMA RecvLemma ==
  ASSUME IInv, NEW c \in Clients, Recv(c)
  PROVE  IInv'
<1>0. net = Idle /\ net' = [at |-> "lock", c |-> c] /\ context[c] = "live"
  BY DEF Recv
<1>1. UNCHANGED <<peer, sent, sock, context, mutex, queue, worker, made, answers, process, faults, hasty, rude>>
  BY DEF Recv, history
<1>2. Shapes'
  <2>1. net' \in Readers
    BY <1>0 DEF Readers
  <2>2. buf' \in [Clients -> Seq(Requests)]
    <3>1. <<>> \in Seq(Requests) /\ buf \in [Clients -> Seq(Requests)] /\ buf' = [buf EXCEPT ![c] = <<>>]
      BY DEF Recv, IInv, Shapes
    <3>2. QED
      BY <3>1
  <2>3. QED
    BY <1>1, <2>1, <2>2 DEF IInv, Shapes
<1>3. ASSUME NEW d \in Clients
      PROVE  ~Begun(d) /\ ~Begun(d)'
  BY <1>0 DEF Begun, Idle
<1>4. ASSUME NEW d \in Clients
      PROVE  Orderly(d)'
  <2>1. buf'[d] = buf[d] \/ buf'[d] = <<>>
    BY DEF Recv, IInv, Shapes
  <2>2. Untouched(d)
    BY <1>1, <1>3, <2>1, QueueSame, WorkerSame DEF Untouched
  <2>3. QED
    BY <2>2, UntouchedLemma DEF IInv
<1>5. CalmUp'
  <2>1. Calm' = Calm
    BY <1>1 DEF Calm
  <2>2. ASSUME Calm', NEW d \in Clients
        PROVE  Quiet(d)'
    <3>1. Quiet(d)
      BY <2>1, <2>2 DEF IInv, CalmUp
    <3>2. (Queued(d)' <=> Queued(d)) /\ (Served(d)' <=> Served(d))
      BY <1>1, QueueSame, WorkerSame
    <3>3. InUse(d)' => InUse(d) \/ d = c
      BY <1>0, <3>2 DEF InUse
    <3>4. QED
      BY <1>0, <1>1, <1>3, <3>1, <3>2, <3>3 DEF Quiet
  <2>3. QED
    BY <1>1, <2>1, <2>2 DEF CalmUp, IInv
<1>6. QED
  BY <1>2, <1>4, <1>5 DEF IInv

LEMMA RecvLockLemma ==
  ASSUME IInv, RecvLock
  PROVE  IInv'
<1>0. /\ net \in Readers /\ net.at = "lock" /\ net.c \in Clients
      /\ mutex \in [Clients -> Workers \cup {NoOne, Net}]
  BY ReaderFacts DEF RecvLock, IInv, Shapes
<1>1. UNCHANGED <<peer, sent, sock, context, buf, queue, worker, made, answers, faults, hasty, rude>>
  BY DEF RecvLock, history
<1>2. \/ context[net.c] = "freed" /\ process' = "undefined" /\ UNCHANGED <<mutex, net>>
      \/ /\ mutex' = [mutex EXCEPT ![net.c] = Net] /\ UNCHANGED process
         /\ net' = [at |-> "read", c |-> net.c, begun |-> FALSE]
  BY DEF RecvLock
<1>3. net' \in Readers /\ net'.at # "idle" /\ net'.c = net.c
  <2>1. [at |-> "read", c |-> net.c, begun |-> FALSE] \in [at : {"read"}, c : Clients, begun : BOOLEAN]
    BY <1>0
  <2>2. QED
    BY <1>0, <1>2, <2>1 DEF Readers
<1>4. Shapes'
  <2>1. mutex' \in [Clients -> Workers \cup {NoOne, Net}]
    BY <1>0, <1>2
  <2>2. process' \in {"up", "quit", "killed", "undefined"}
    BY <1>2 DEF IInv, Shapes
  <2>3. QED
    BY <1>1, <1>3, <2>1, <2>2 DEF IInv, Shapes
<1>5. ASSUME NEW d \in Clients
      PROVE  ~Begun(d) /\ ~Begun(d)'
  <2>1. ~Begun(d)
    BY <1>0 DEF Begun
  <2>2. ~Begun(d)'
    BY <1>0, <1>2 DEF Begun
  <2>3. QED
    BY <2>1, <2>2
<1>6. ASSUME NEW d \in Clients
      PROVE  Orderly(d)'
  <2>1. Untouched(d)
    BY <1>1, <1>5, QueueSame, WorkerSame DEF Untouched
  <2>2. QED
    BY <2>1, UntouchedLemma DEF IInv
<1>7. CalmUp'
  <2>1. Calm' = Calm
    BY <1>1 DEF Calm
  <2>2. ASSUME Calm', NEW d \in Clients
        PROVE  Quiet(d)'
    <3>1. (Queued(d)' <=> Queued(d)) /\ (Served(d)' <=> Served(d))
      BY <1>1, QueueSame, WorkerSame
    <3>2. InUse(d)' => InUse(d)
      BY <1>0, <1>3, <3>1 DEF InUse
    <3>3. Still(d)
      BY <1>1, <1>5, <3>1, <3>2 DEF Still
    <3>4. QED
      BY <2>1, <2>2, <3>3, StillLemma DEF IInv, CalmUp
  <2>3. Calm => InUse(net.c) /\ context[net.c] # "freed"
    BY <1>0 DEF InUse, IInv, CalmUp, Quiet
  <2>4. QED
    BY <1>2, <2>1, <2>2, <2>3 DEF CalmUp, IInv
<1>8. QED
  BY <1>4, <1>6, <1>7 DEF IInv

LEMMA ReadPartLemma ==
  ASSUME IInv, ReadPart
  PROVE  IInv'
<1> DEFINE c == net.c
<1>0. /\ net \in Readers /\ net.at = "read" /\ c \in Clients
      /\ sock[c] \in Seq(Chunks) /\ sock \in [Clients -> Seq(Chunks)] /\ sock[c] # <<>>
      /\ made[c] \in Nat /\ Len(sent[c]) \in Nat
  BY ReaderFacts, SeqFacts DEF ReadPart, IInv, Shapes
<1>1. UNCHANGED <<peer, sent, context, buf, mutex, queue, worker, made, answers, process, faults, hasty, rude>>
  BY DEF ReadPart, conns, history
<1>2. sock' = [sock EXCEPT ![c] = <<>>] /\ net' = [net EXCEPT !.begun = TRUE]
  BY DEF ReadPart
<1>3. net' \in Readers /\ net'.at = "read" /\ net'.c = c /\ net'.begun = TRUE
  BY <1>0, <1>2, ReaderBegins
<1>4. sock' \in [Clients -> Seq(Chunks)] /\ sock'[c] = <<>> /\ \A d \in Clients : d # c => sock'[d] = sock[d]
  <2>1. <<>> \in Seq(Chunks)
    OBVIOUS
  <2>2. QED
    BY <1>0, <1>2, <2>1
<1>5. Shapes'
  BY <1>1, <1>3, <1>4 DEF IInv, Shapes
<1> HIDE DEF c
<1>6. ASSUME NEW d \in Clients, d # c
      PROVE  ~Begun(d) /\ ~Begun(d)'
  <2>1. ~Begun(d)
    BY <1>6 DEF Begun, c
  <2>2. ~Begun(d)'
    BY <1>3, <1>6 DEF Begun
  <2>3. QED
    BY <2>1, <2>2
<1>8. ASSUME NEW d \in Clients, d # c
      PROVE  Orderly(d)'
  <2>1. Untouched(d)
    BY <1>1, <1>4, <1>6, <1>8, QueueSame, WorkerSame DEF Untouched
  <2>2. QED
    BY <2>1, UntouchedLemma DEF IInv
<1>9. made[c] < Len(sent[c])
  <2>1. 1 \in 1..Len(sock[c]) /\ Arrivals(c)
    BY <1>0, SeqFacts DEF IInv, Orderly
  <2>2. made[c] < sock[c][1].of.n /\ sock[c][1].of.n <= Len(sent[c]) /\ sock[c][1].of.n \in Nat
    BY <1>0, <2>1, RequestFacts DEF Arrivals
  <2>3. QED
    BY <1>0, <2>2
<1>10. ASSUME NEW d \in Clients, d = c
       PROVE  Orderly(d)'
  <2>0. Begun(d)' /\ sock'[d] = <<>> /\ made[d] < Len(sent[d])
    BY <1>3, <1>4, <1>9, <1>10 DEF Begun
  <2>1. Numbered(d)'
    BY <1>1 DEF IInv, Orderly, Numbered
  <2>2. Arrivals(d)'
    <3>1. Len(<<>>) = 0 /\ 1..0 = {}
      OBVIOUS
    <3>2. QED
      BY <1>1, <2>0, <3>1 DEF IInv, Orderly, Arrivals
  <2>3. ASSUME d \notin hasty'
        PROVE  OnePlace(d)' /\ InTurn(d)'
    <3>1. OnePlace(d) /\ InTurn(d)
      BY <1>1, <2>3 DEF IInv, Orderly
    <3>2. Last(d)' = Last(d)
      BY <1>1 DEF Last
    <3>3. (Queued(d)' <=> Queued(d)) /\ (Served(d)' <=> Served(d))
      BY <1>1, QueueSame, WorkerSame
    <3>4. \A w \in Workers : (Serves(w, d)' <=> Serves(w, d)) /\ worker'[w].request = worker[w].request
      BY <1>1 DEF Serves
    <3>5. OnePlace(d)'
      BY <1>1, <2>0, <3>1, <3>2, <3>3, <3>4 DEF OnePlace
    <3>6. InTurn(d)'
      BY <1>1, <3>1, <3>3 DEF InTurn, Replied
    <3>7. QED
      BY <3>5, <3>6
  <2>4. QED
    BY <2>1, <2>2, <2>3 DEF Orderly
<1>11. CalmUp'
  <2>1. Calm' = Calm
    BY <1>1 DEF Calm
  <2>2. ASSUME Calm', NEW d \in Clients
        PROVE  Quiet(d)'
    <3>1. Quiet(d)
      BY <2>1, <2>2 DEF IInv, CalmUp
    <3>2. (Queued(d)' <=> Queued(d)) /\ (Served(d)' <=> Served(d))
      BY <1>1, QueueSame, WorkerSame
    <3>3. InUse(d)' => InUse(d)
      BY <1>0, <1>3, <3>2 DEF InUse, c
    <3>4. CASE d = c
      BY <1>0, <1>1, <3>1, <3>3, <3>4 DEF Quiet
    <3>5. CASE d # c
      BY <1>1, <1>4, <1>6, <3>1, <3>2, <3>3, <3>5 DEF Quiet
    <3>6. QED
      BY <3>4, <3>5
  <2>3. QED
    BY <1>1, <2>1, <2>2 DEF CalmUp, IInv
<1>12. QED
  BY <1>5, <1>8, <1>10, <1>11 DEF IInv

LEMMA ReadNothingLemma ==
  ASSUME IInv, ReadNothing
  PROVE  IInv'
<1> DEFINE c == net.c
<1>0. /\ net \in Readers /\ net.at = "read" /\ c \in Clients /\ net' = Idle
      /\ sock[c] \in Seq(Chunks) /\ made[c] \in Nat /\ Len(sent[c]) \in Nat
      /\ context \in [Clients -> {"none", "live", "freed"}]
      /\ mutex \in [Clients -> Workers \cup {NoOne, Net}]
  BY ReaderFacts, SeqFacts DEF ReadNothing, IInv, Shapes
<1>1. UNCHANGED <<peer, sent, sock, buf, queue, worker, made, answers, process, faults, hasty, rude>>
  BY DEF ReadNothing, history
<1>2. mutex' = [mutex EXCEPT ![c] = NoOne] /\ context' = [context EXCEPT ![c] = "freed"]
  BY DEF ReadNothing, CloseConnection
<1>3. context' \in [Clients -> {"none", "live", "freed"}] /\ context'[c] = "freed"
      /\ \A d \in Clients : d # c => context'[d] = context[d]
  BY <1>0, <1>2
<1>4. Shapes'
  <2>1. mutex' \in [Clients -> Workers \cup {NoOne, Net}]
    BY <1>0, <1>2
  <2>2. net' \in Readers
    BY <1>0 DEF Readers
  <2>3. QED
    BY <1>1, <1>3, <2>1, <2>2 DEF IInv, Shapes
<1>5. ASSUME NEW d \in Clients
      PROVE  ~Begun(d)' /\ (d # c => ~Begun(d))
  <2>1. ~Begun(d)'
    BY <1>0 DEF Begun, Idle
  <2>2. d # c => ~Begun(d)
    BY DEF Begun
  <2>3. QED
    BY <2>1, <2>2
<1> HIDE DEF c
<1>6. ASSUME NEW d \in Clients
      PROVE  Orderly(d)'
  <2>1. \/ context'[d] = "freed"
        \/ (context[d] # "freed" /\ (Begun(d) => Begun(d)'))
    BY <1>3, <1>5
  <2>2. Untouched(d)
    BY <1>1, <1>5, <2>1, QueueSame, WorkerSame DEF Untouched
  <2>3. QED
    BY <2>2, UntouchedLemma DEF IInv
<1>7. CalmUp'
  <2>1. Calm' = Calm
    BY <1>1 DEF Calm
  <2>2. ASSUME Calm
        PROVE  ~Queued(c) /\ ~Served(c)
    <3>1. CASE peer[c] = "closed"
      BY <1>0, <2>2, <3>1 DEF IInv, CalmUp, Quiet
    <3>2. CASE peer[c] # "closed"
      <4>1. PICK i \in DOMAIN sock[c] : TRUE
        BY <3>2 DEF ReadNothing, c
      <4>2. i \in 1..Len(sock[c]) /\ sock[c][i].of.n \in Nat
        BY <1>0, <4>1, SeqFacts, RequestFacts
      <4>3. made[c] < sock[c][i].of.n /\ sock[c][i].of.n <= Len(sent[c])
        BY <1>0, <4>2 DEF IInv, Orderly, Arrivals
      <4>4. made[c] < Len(sent[c])
        BY <1>0, <4>2, <4>3
      <4>5. c \notin hasty
        BY <2>2 DEF Calm
      <4>6. QED
        BY <1>0, <4>4, <4>5 DEF IInv, Orderly, OnePlace
    <3>3. QED
      BY <3>1, <3>2
  <2>3. ASSUME Calm', NEW d \in Clients
        PROVE  Quiet(d)'
    <3>1. Quiet(d)
      BY <2>1, <2>3 DEF IInv, CalmUp
    <3>2. (Queued(d)' <=> Queued(d)) /\ (Served(d)' <=> Served(d))
      BY <1>1, QueueSame, WorkerSame
    <3>3. InUse(d)' => Queued(d) \/ Served(d)
      BY <1>0, <3>2 DEF InUse, Idle
    <3>4. InUse(d)' => InUse(d) /\ d # c
      BY <2>1, <2>2, <2>3, <3>3 DEF InUse
    <3>5. QED
      BY <1>1, <1>3, <1>5, <3>1, <3>2, <3>4 DEF Quiet
  <2>4. QED
    BY <1>1, <2>1, <2>3 DEF CalmUp, IInv
<1>8. QED
  BY <1>4, <1>6, <1>7 DEF IInv

LEMMA ReadFailsLemma ==
  ASSUME IInv, ReadFails
  PROVE  IInv'
<1> DEFINE c == net.c
<1>0. /\ net \in Readers /\ net.at = "read" /\ c \in Clients /\ net' = Idle
      /\ sock[c] \in Seq(Chunks) /\ made[c] \in Nat /\ Len(sent[c]) \in Nat
      /\ context \in [Clients -> {"none", "live", "freed"}]
      /\ mutex \in [Clients -> Workers \cup {NoOne, Net}]
  BY ReaderFacts, SeqFacts DEF ReadFails, IInv, Shapes
<1>1. /\ UNCHANGED <<peer, sent, sock, buf, queue, worker, made, answers, process, hasty, rude>>
      /\ faults' \in 0..MaxFaults
  BY ServerAssumption DEF ReadFails, history, IInv, Shapes
<1>2. mutex' = [mutex EXCEPT ![c] = NoOne] /\ context' = [context EXCEPT ![c] = "freed"]
  BY DEF ReadFails, CloseConnection
<1>3. context' \in [Clients -> {"none", "live", "freed"}] /\ context'[c] = "freed"
      /\ \A d \in Clients : d # c => context'[d] = context[d]
  BY <1>0, <1>2
<1>4. Shapes'
  <2>1. mutex' \in [Clients -> Workers \cup {NoOne, Net}]
    BY <1>0, <1>2
  <2>2. net' \in Readers
    BY <1>0 DEF Readers
  <2>3. QED
    BY <1>1, <1>3, <2>1, <2>2 DEF IInv, Shapes
<1>5. ASSUME NEW d \in Clients
      PROVE  ~Begun(d)' /\ (d # c => ~Begun(d))
  <2>1. ~Begun(d)'
    BY <1>0 DEF Begun, Idle
  <2>2. d # c => ~Begun(d)
    BY DEF Begun
  <2>3. QED
    BY <2>1, <2>2
<1> HIDE DEF c
<1>6. ASSUME NEW d \in Clients
      PROVE  Orderly(d)'
  <2>1. \/ context'[d] = "freed"
        \/ (context[d] # "freed" /\ (Begun(d) => Begun(d)'))
    BY <1>3, <1>5
  <2>2. Untouched(d)
    BY <1>1, <1>5, <2>1, QueueSame, WorkerSame DEF Untouched
  <2>3. QED
    BY <2>2, UntouchedLemma DEF IInv
<1>7. CalmUp'
  BY NotCalm DEF ReadFails, IInv
<1>8. QED
  BY <1>4, <1>6, <1>7 DEF IInv

\* An event is added for a client.
LEMMA QueueAppend ==
  ASSUME Shapes, NEW c \in Clients, queue' = Append(queue, c)
  PROVE  /\ queue' \in Seq(Clients)
         /\ \A d \in Clients : d # c => (Queued(d)' => Queued(d)) /\ (Once(d) => Once(d)')
         /\ ~Queued(c) => Once(c)'
<1>0. queue \in Seq(Clients) /\ Len(queue) \in Nat
  BY SeqFacts DEF Shapes
<1>1. /\ queue' \in Seq(Clients) /\ Len(queue') = Len(queue) + 1
      /\ \A i \in 1..Len(queue) : queue'[i] = queue[i]
      /\ queue'[Len(queue) + 1] = c
  BY <1>0, AppendProperties
<1>2. DOMAIN queue = 1..Len(queue) /\ DOMAIN queue' = 1..Len(queue')
  BY <1>0, <1>1, SeqFacts
<1>3. \A i \in 1..Len(queue') : i \in 1..Len(queue) \/ i = Len(queue) + 1
  BY <1>0, <1>1
<1>4. ASSUME NEW d \in Clients, d # c
      PROVE  (Queued(d)' => Queued(d)) /\ (Once(d) => Once(d)')
  <2>1. \A i \in 1..Len(queue') : queue'[i] = d => i \in 1..Len(queue) /\ queue[i] = d
    BY <1>1, <1>3, <1>4
  <2>2. QED
    BY <1>2, <2>1 DEF Queued, Once
<1>5. ASSUME ~Queued(c)
      PROVE  Once(c)'
  <2>1. \A i \in 1..Len(queue') : queue'[i] = c => i = Len(queue) + 1
    BY <1>1, <1>2, <1>3, <1>5 DEF Queued
  <2>2. QED
    BY <2>1 DEF Once
<1>6. QED
  BY <1>1, <1>4, <1>5

LEMMA ReadEndLemma ==
  ASSUME IInv, ReadEnd
  PROVE  IInv'
<1>0. net \in Readers /\ net.at = "read" /\ net.c \in Clients /\ net' = Idle
  BY ReaderFacts DEF ReadEnd, IInv, Shapes
<1>1. PICK c \in Clients : c = net.c
  BY <1>0
<1>2. /\ sock[c] \in Seq(Chunks) /\ made[c] \in Nat /\ sent[c] \in Seq(Requests) /\ Len(sent[c]) \in Nat
      /\ sock \in [Clients -> Seq(Chunks)] /\ made \in [Clients -> Nat]
      /\ buf \in [Clients -> Seq(Requests)]
      /\ mutex \in [Clients -> Workers \cup {NoOne, Net}]
  BY SeqFacts DEF IInv, Shapes
<1>3. UNCHANGED <<peer, sent, context, worker, answers, process, faults, hasty, rude>>
  BY DEF ReadEnd, Received, history
<1>4. PICK e \in DOMAIN sock[c] : sock[c][e].end /\ buf' = [buf EXCEPT ![c] = <<sock[c][e].of>>]
  <2>1. \E i \in DOMAIN sock[c] : sock[c][i].end
    BY <1>1 DEF ReadEnd
  <2>2. FirstEnd(sock[c]) \in DOMAIN sock[c] /\ sock[c][FirstEnd(sock[c])].end
    BY <1>2, <2>1, FirstEndLemma
  <2>3. QED
    BY <1>1, <2>2 DEF ReadEnd
<1> DEFINE r == sock[c][e].of
<1>5. r \in Requests /\ r.n \in Nat /\ e \in 1..Len(sock[c])
  BY <1>2, <1>4, SeqFacts, RequestFacts
<1>6. Numbered(c) /\ Arrivals(c)
  BY DEF IInv, Orderly
<1>7. made[c] < r.n /\ r.n <= Len(sent[c]) /\ r = sent[c][r.n] /\ r.kind # "huge"
  BY <1>4, <1>5, <1>6 DEF Arrivals
<1> HIDE DEF r
<1>8. /\ sock' = [sock EXCEPT ![c] = <<>>] /\ mutex' = [mutex EXCEPT ![c] = NoOne]
      /\ made' = [made EXCEPT ![c] = made[c] + 1] /\ queue' = Append(queue, c)
      /\ buf' = [buf EXCEPT ![c] = <<r>>]
  BY <1>1, <1>4 DEF ReadEnd, Consume, Received, r
<1>9. /\ queue' \in Seq(Clients)
      /\ \A d \in Clients : d # c => (Queued(d)' => Queued(d)) /\ (Once(d) => Once(d)')
      /\ ~Queued(c) => Once(c)'
  BY <1>8, QueueAppend DEF IInv
<1>10. /\ <<>> \in Seq(Chunks) /\ <<r>> \in Seq(Requests) /\ Len(<<r>>) = 1 /\ <<r>>[1] = r
  BY <1>5
<1>11. Shapes'
  <2>1. sock' \in [Clients -> Seq(Chunks)]
    BY <1>2, <1>8, <1>10
  <2>2. buf' \in [Clients -> Seq(Requests)]
    BY <1>2, <1>8, <1>10
  <2>3. made' \in [Clients -> Nat]
    BY <1>2, <1>8
  <2>4. mutex' \in [Clients -> Workers \cup {NoOne, Net}]
    BY <1>2, <1>8
  <2>5. net' \in Readers
    BY <1>0 DEF Readers
  <2>6. QED
    BY <1>3, <1>9, <2>1, <2>2, <2>3, <2>4, <2>5 DEF IInv, Shapes
<1>12. ASSUME NEW d \in Clients
       PROVE  ~Begun(d)' /\ (d # c => ~Begun(d))
  <2>1. ~Begun(d)'
    BY <1>0 DEF Begun, Idle
  <2>2. d # c => ~Begun(d)
    BY <1>1 DEF Begun
  <2>3. QED
    BY <2>1, <2>2
<1>13. ASSUME NEW d \in Clients, d # c
       PROVE  Orderly(d)'
  <2>1. sock'[d] = sock[d] /\ made'[d] = made[d] /\ buf'[d] = buf[d]
    BY <1>2, <1>8, <1>13
  <2>2. Untouched(d)
    BY <1>3, <1>9, <1>12, <1>13, <2>1, WorkerSame DEF Untouched
  <2>3. QED
    BY <2>2, UntouchedLemma DEF IInv
<1>14. sock'[c] = <<>> /\ made'[c] = made[c] + 1 /\ buf'[c] = <<r>>
  BY <1>2, <1>8
<1>15. Arrivals(c)'
  <2>1. Len(<<>>) = 0 /\ 1..0 = {}
    OBVIOUS
  <2>2. made[c] + 1 <= Len(sent[c])
    BY <1>2, <1>5, <1>7
  <2>3. Len(buf'[c]) <= 1
    BY <1>10, <1>14
  <2>4. QED
    BY <1>3, <1>12, <1>14, <2>1, <2>2, <2>3 DEF Arrivals
<1>16. ASSUME c \notin hasty'
       PROVE  OnePlace(c)' /\ InTurn(c)'
  <2>1. OnePlace(c) /\ InTurn(c)
    BY <1>3, <1>16 DEF IInv, Orderly
  <2>2. made[c] < Len(sent[c]) /\ Len(sent[c]) <= made[c] + 1
    BY <1>2, <1>5, <1>7, <2>1 DEF OnePlace
  <2>3. r.n = Len(sent[c]) /\ made[c] + 1 = Len(sent[c])
    BY <1>2, <1>5, <1>7, <2>2
  <2>4. ~Queued(c) /\ ~Served(c)
    BY <2>1, <2>2 DEF OnePlace
  <2>5. ~Served(c)' /\ Once(c)' /\ \A w \in Workers : ~Serves(w, c)'
    BY <1>3, <1>9, <2>4, WorkerSame DEF Served
  <2>6. r = Last(c)' /\ Last(c)' = Last(c)
    BY <1>3, <1>7, <2>3 DEF Last
  <2>7. /\ Len(sent'[c]) <= made'[c] + 1 /\ ~(made'[c] < Len(sent'[c]))
        /\ Len(sent'[c]) # 0
    BY <1>2, <1>3, <1>14, <2>3
  <2>8. OnePlace(c)'
    BY <1>7, <1>10, <1>14, <2>5, <2>6, <2>7 DEF OnePlace, Once
  <2>9. \A i \in 1..Len(answers[c]) : answers[c][i].to.n < Len(sent[c])
    BY <2>1, <2>2 DEF InTurn
  <2>10. InTurn(c)'
    BY <1>3, <2>1, <2>9 DEF InTurn, Replied
  <2>11. QED
    BY <2>8, <2>10
<1>17. Orderly(c)'
  BY <1>3, <1>6, <1>15, <1>16 DEF Orderly, Numbered
<1>18. CalmUp'
  <2>1. Calm' = Calm
    BY <1>3 DEF Calm
  <2>2. ASSUME Calm', NEW d \in Clients
        PROVE  Quiet(d)'
    <3>1. Quiet(d)
      BY <2>1, <2>2 DEF IInv, CalmUp
    <3>2. Served(d)' <=> Served(d)
      BY <1>3, WorkerSame
    <3>3. CASE d = c
      <4>1. InUse(c) /\ context[c] # "freed"
        BY <1>0, <1>1, <3>1, <3>3 DEF InUse, Quiet
      <4>2. sock[c] # <<>>
        BY <1>2, <1>5, SeqFacts
      <4>3. peer[c] # "closed"
        BY <3>1, <3>3, <4>2 DEF Quiet
      <4>4. QED
        BY <1>3, <3>3, <4>1, <4>3 DEF Quiet
    <3>4. CASE d # c
      <4>1. InUse(d)' => InUse(d)
        BY <1>0, <1>9, <3>2, <3>4 DEF InUse, Idle
      <4>2. sock'[d] = sock[d]
        BY <1>2, <1>8, <3>4
      <4>3. QED
        BY <1>3, <1>9, <1>12, <3>1, <3>2, <3>4, <4>1, <4>2 DEF Quiet
    <3>5. QED
      BY <3>3, <3>4
  <2>3. QED
    BY <1>3, <2>1, <2>2 DEF CalmUp, IInv
<1>19. QED
  BY <1>11, <1>13, <1>17, <1>18 DEF IInv
-----------------------------------------------------------------------------
(* The stages *)

\* A thread goes on with its request, or is done with it.
GoesOn(w, j) ==
  /\ worker' = [worker EXCEPT ![w] = j]
  /\ \/ j.at = "idle"
     \/ worker[w].at # "idle" /\ j.c = worker[w].c /\ j.request = worker[w].request

LEMMA WorkerStep ==
  ASSUME Shapes, NEW w \in Workers, NEW j \in Jobs, GoesOn(w, j)
  PROVE  /\ worker' \in [Workers -> Jobs]
         /\ \A d \in Clients : Served(d)' => Served(d)
         /\ \A d \in Clients, u \in Workers :
              Serves(u, d)' => Serves(u, d) /\ worker'[u].request = worker[u].request
<1>1. worker \in [Workers -> Jobs]
  BY DEF Shapes
<1>2. worker' \in [Workers -> Jobs] /\ worker'[w] = j /\ \A u \in Workers : u # w => worker'[u] = worker[u]
  BY <1>1 DEF GoesOn
<1>3. ASSUME NEW d \in Clients, NEW u \in Workers, Serves(u, d)'
      PROVE  Serves(u, d) /\ worker'[u].request = worker[u].request
  <2>1. worker'[u].at # "idle" /\ worker'[u].c = d
    BY <1>3 DEF Serves
  <2>2. CASE u = w
    BY <1>2, <2>1, <2>2 DEF GoesOn, Serves
  <2>3. CASE u # w
    BY <1>2, <2>1, <2>3 DEF Serves
  <2>4. QED
    BY <2>2, <2>3
<1>4. QED
  BY <1>2, <1>3 DEF Served

\* A thread takes a step that concerns its own stack only.
LEMMA OwnStep ==
  ASSUME IInv, NEW w \in Workers, NEW j \in Jobs, GoesOn(w, j),
         UNCHANGED <<peer, sent, sock, conns, net, queue, made, answers, process, history>>,
         faults' = faults \/ (faults < MaxFaults /\ faults' = faults + 1)
  PROVE  IInv'
<1>1. /\ worker' \in [Workers -> Jobs]
      /\ \A d \in Clients : Served(d)' => Served(d)
      /\ \A d \in Clients, u \in Workers :
           Serves(u, d)' => Serves(u, d) /\ worker'[u].request = worker[u].request
  BY WorkerStep DEF IInv
<1>2. UNCHANGED <<context, buf, mutex, hasty, rude>>
  BY DEF conns, history
<1>3. faults' \in 0..MaxFaults
  BY ServerAssumption DEF IInv, Shapes
<1>4. Shapes'
  BY <1>1, <1>2, <1>3 DEF IInv, Shapes
<1>5. ASSUME NEW d \in Clients
      PROVE  Orderly(d)'
  <2>1. Untouched(d)
    BY <1>1, <1>2, QueueSame, NetSame DEF Untouched
  <2>2. QED
    BY <2>1, UntouchedLemma DEF IInv
<1>6. CalmUp'
  <2>1. CASE faults' = faults
    <3>1. Calm' = Calm
      BY <1>2, <2>1 DEF Calm
    <3>2. ASSUME Calm', NEW d \in Clients
          PROVE  Quiet(d)'
      <4>1. InUse(d)' => InUse(d)
        BY <1>1, QueueSame DEF InUse
      <4>2. Still(d)
        BY <1>1, <1>2, <4>1, QueueSame, NetSame DEF Still
      <4>3. QED
        BY <3>1, <3>2, <4>2, StillLemma DEF IInv, CalmUp
    <3>3. QED
      BY <3>1, <3>2 DEF CalmUp, IInv
  <2>2. CASE faults' = faults + 1
    BY <2>2, NotCalm DEF IInv
  <2>3. QED
    BY <2>1, <2>2
<1>7. QED
  BY <1>4, <1>5, <1>6 DEF IInv

\* What a thread may meet only when the server was not calm.
LEMMA StopStep ==
  ASSUME IInv, NEW c \in Clients, Queued(c) \/ Served(c),
         context[c] = "freed" \/ peer[c] = "closed", process' \in {"killed", "undefined"},
         UNCHANGED <<peer, sent, sock, conns, net, queue, worker, made, answers, faults, history>>
  PROVE  IInv'
<1>1. UNCHANGED <<context, buf, mutex, hasty, rude>>
  BY DEF conns, history
<1>2. Shapes'
  BY <1>1 DEF IInv, Shapes
<1>3. \A d \in Clients : Orderly(d)'
  BY <1>1, Elsewhere
<1>4. ~Calm
  BY DEF IInv, CalmUp, Quiet, InUse
<1>5. Calm' = Calm
  BY <1>1 DEF Calm
<1>6. QED
  BY <1>2, <1>3, <1>4, <1>5 DEF IInv, CalmUp

LEMMA BusyWorker ==
  ASSUME IInv, NEW w \in Workers, worker[w].at # "idle"
  PROVE  /\ worker[w] \in Jobs /\ worker[w].c \in Clients /\ worker[w].request \in Requests
         /\ Served(worker[w].c) /\ worker \in [Workers -> Jobs]
<1>1. worker[w] \in Jobs /\ worker \in [Workers -> Jobs]
  BY DEF IInv, Shapes
<1>2. worker[w].c \in Clients /\ worker[w].request \in Requests
  BY <1>1, JobFacts
<1>3. QED
  BY <1>1, <1>2 DEF Served, Serves

LEMMA ExecuteLemma ==
  ASSUME IInv, NEW w \in Workers, Execute(w)
  PROVE  IInv'
<1>1. worker[w].at = "execute"
  BY DEF Execute
<1>2. /\ worker[w] \in Jobs /\ worker[w].c \in Clients /\ Served(worker[w].c)
      /\ worker \in [Workers -> Jobs]
  BY <1>1, BusyWorker
<1>3. CASE ~Unfreed(w)
  <2>1. process' = "undefined" /\ UNCHANGED worker /\ context[worker[w].c] = "freed"
    BY <1>3 DEF Execute, Undefined, Unfreed
  <2>2. QED
    BY <1>2, <2>1, StopStep DEF Execute
<1>4. CASE Unfreed(w)
  <2>1. PICK x \in {"storage", "send"} :
          UNCHANGED process /\ worker' = [worker EXCEPT ![w].at = x]
    BY <1>4 DEF Execute
  <2> DEFINE j == [worker[w] EXCEPT !.at = x]
  <2>2. j \in Jobs /\ j.c = worker[w].c /\ j.request = worker[w].request
    BY <1>1, <1>2, JobAdvances
  <2>3. worker' = [worker EXCEPT ![w] = j]
    BY <1>2, <2>1
  <2> HIDE DEF j
  <2>4. GoesOn(w, j)
    BY <1>1, <2>2, <2>3 DEF GoesOn
  <2>5. QED
    BY <2>1, <2>2, <2>4, OwnStep DEF Execute
<1>5. QED
  BY <1>3, <1>4

LEMMA StoreLemma ==
  ASSUME IInv, NEW w \in Workers, Store(w)
  PROVE  IInv'
<1>1. worker[w].at = "storage"
  BY DEF Store
<1>2. /\ worker[w] \in Jobs /\ worker[w].c \in Clients /\ Served(worker[w].c)
      /\ worker \in [Workers -> Jobs]
  BY <1>1, BusyWorker
<1>3. CASE ~Unfreed(w)
  <2>1. process' = "undefined" /\ UNCHANGED worker /\ context[worker[w].c] = "freed"
    BY <1>3 DEF Store, Undefined, Unfreed
  <2>2. QED
    BY <1>2, <2>1, StopStep DEF Store
<1>4. CASE Unfreed(w)
  <2>1. UNCHANGED process /\ worker' = [worker EXCEPT ![w].at = "send"]
    BY <1>4 DEF Store
  <2> DEFINE j == [worker[w] EXCEPT !.at = "send"]
  <2>2. j \in Jobs /\ j.c = worker[w].c /\ j.request = worker[w].request
    BY <1>1, <1>2, JobAdvances
  <2>3. worker' = [worker EXCEPT ![w] = j]
    BY <1>2, <2>1
  <2> HIDE DEF j
  <2>4. GoesOn(w, j)
    BY <1>1, <2>2, <2>3 DEF GoesOn
  <2>5. QED
    BY <2>1, <2>2, <2>4, OwnStep DEF Store
<1>5. QED
  BY <1>3, <1>4

LEMMA SendKilledLemma ==
  ASSUME IInv, NEW w \in Workers, SendKilled(w)
  PROVE  IInv'
<1>1. worker[w].at # "idle"
  BY DEF SendKilled, Writes, Sends
<1>2. QED
  BY <1>1, BusyWorker, StopStep DEF SendKilled

LEMMA SendFreedLemma ==
  ASSUME IInv, NEW w \in Workers, SendFreed(w)
  PROVE  IInv'
<1>1. worker[w].at # "idle"
  BY DEF SendFreed, Sends
<1>2. QED
  BY <1>1, BusyWorker, StopStep DEF SendFreed, Undefined, Unfreed

\* The response is written, and the end of the message is still to come.
LEMMA AwaitsEndLemma ==
  ASSUME IInv, NEW w \in Workers, worker[w].at # "idle", NEW whole \in BOOLEAN, AwaitsEnd(w, whole)
  PROVE  \E j \in Jobs : GoesOn(w, j)
<1> DEFINE j == [at |-> "end", c |-> worker[w].c, request |-> worker[w].request, whole |-> whole]
<1>1. worker[w].c \in Clients /\ worker[w].request \in Requests /\ worker \in [Workers -> Jobs]
  BY BusyWorker
<1>2. j \in [at : {"end"}, c : Clients, request : Requests, whole : BOOLEAN]
  BY <1>1
<1>3. worker' = [worker EXCEPT ![w] = j]
  BY <1>1 DEF AwaitsEnd
<1>4. j.c = worker[w].c /\ j.request = worker[w].request
  OBVIOUS
<1>5. j \in Jobs
  BY <1>2 DEF Jobs
<1> HIDE DEF j
<1>6. GoesOn(w, j)
  BY <1>3, <1>4 DEF GoesOn
<1>7. QED
  BY <1>5, <1>6

LEMMA BecomesIdle ==
  ASSUME NEW w \in Workers, worker' = [worker EXCEPT ![w] = Idle]
  PROVE  Idle \in Jobs /\ GoesOn(w, Idle)
BY DEF GoesOn, Jobs, Idle

LEMMA SendFailsLemma ==
  ASSUME IInv, NEW w \in Workers, SendFails(w)
  PROVE  IInv'
<1>0. worker[w].at # "idle" /\ worker[w].c \in Clients
  <2>1. worker[w] \in Jobs /\ worker[w] # Idle
    BY DEF SendFails, IInv, Shapes
  <2>2. QED
    BY <2>1, JobFacts
<1>1. PICK j \in Jobs : GoesOn(w, j)
  <2>1. CASE AwaitsEnd(w, FALSE)
    BY <1>0, <2>1, AwaitsEndLemma
  <2>2. CASE worker' = [worker EXCEPT ![w] = Idle]
    BY <2>2, BecomesIdle
  <2>3. QED
    BY <2>1, <2>2 DEF SendFails
<1>2. /\ worker' \in [Workers -> Jobs]
      /\ \A d \in Clients, u \in Workers :
           Serves(u, d)' => Serves(u, d) /\ worker'[u].request = worker[u].request
  BY <1>1, WorkerStep DEF IInv
<1>3. context' = [context EXCEPT ![worker[w].c] = "freed"]
  BY DEF SendFails, CloseConnection
<1>4. /\ context' \in [Clients -> {"none", "live", "freed"}]
      /\ \A d \in Clients : context'[d] = "freed" \/ context'[d] = context[d]
  BY <1>0, <1>3 DEF IInv, Shapes
<1>5. UNCHANGED <<peer, sent, sock, buf, mutex, net, queue, made, answers, process, hasty, rude>>
  BY DEF SendFails, history
<1>6. faults < MaxFaults /\ faults' = faults + 1
  BY DEF SendFails
<1>7. Shapes'
  <2>1. faults' \in 0..MaxFaults
    BY <1>6, ServerAssumption DEF IInv, Shapes
  <2>2. QED
    BY <1>2, <1>4, <1>5, <2>1 DEF IInv, Shapes
<1>8. ASSUME NEW d \in Clients
      PROVE  Orderly(d)'
  <2>1. Untouched(d)
    BY <1>2, <1>4, <1>5, QueueSame, NetSame DEF Untouched
  <2>2. QED
    BY <2>1, UntouchedLemma DEF IInv
<1>9. QED
  BY <1>6, <1>7, <1>8, NotCalm DEF IInv

\* The last part of an answer is written, and the thread is free again.
LEMMA AnswerStep ==
  ASSUME IInv, NEW w \in Workers, worker[w].at # "idle", NEW whole \in BOOLEAN,
         Answered(w, whole), worker' = [worker EXCEPT ![w] = Idle],
         UNCHANGED <<peer, sent, sock, conns, net, queue, made, process, history>>,
         faults' = faults \/ (faults < MaxFaults /\ faults' = faults + 1)
  PROVE  IInv'
<1>0. worker[w].c \in Clients /\ worker[w].request \in Requests
  BY BusyWorker
<1>1. PICK c \in Clients, r \in Requests : c = worker[w].c /\ r = worker[w].request
  BY <1>0
<1> DEFINE a == [to |-> r, whole |-> whole]
<1>2. /\ answers[c] \in Seq(Answers) /\ answers \in [Clients -> Seq(Answers)]
      /\ sent[c] \in Seq(Requests) /\ made[c] \in Nat
      /\ Len(answers[c]) \in Nat /\ Len(sent[c]) \in Nat /\ worker \in [Workers -> Jobs]
  BY SeqFacts DEF IInv, Shapes
<1>3. a \in Answers /\ a.to = r
  BY DEF Answers
<1>4. answers' = [answers EXCEPT ![c] = Append(answers[c], a)]
  BY <1>1 DEF Answered
<1> HIDE DEF a
<1>5. /\ answers'[c] \in Seq(Answers) /\ Len(answers'[c]) = Len(answers[c]) + 1
      /\ \A i \in 1..Len(answers[c]) : answers'[c][i] = answers[c][i]
      /\ answers'[c][Len(answers[c]) + 1] = a
  <2>1. answers'[c] = Append(answers[c], a)
    BY <1>2, <1>4
  <2>2. QED
    BY <1>2, <1>3, <2>1, AppendProperties
<1>6. /\ worker' \in [Workers -> Jobs]
      /\ \A d \in Clients : Served(d)' => Served(d)
      /\ \A d \in Clients, u \in Workers :
           Serves(u, d)' => Serves(u, d) /\ worker'[u].request = worker[u].request
  BY BecomesIdle, WorkerStep DEF IInv
<1>7. UNCHANGED <<context, buf, mutex, hasty, rude>>
  BY DEF conns, history
<1>8. Shapes'
  <2>1. faults' \in 0..MaxFaults
    BY ServerAssumption DEF IInv, Shapes
  <2>2. answers' \in [Clients -> Seq(Answers)]
    BY <1>2, <1>4, <1>5
  <2>3. QED
    BY <1>6, <1>7, <2>1, <2>2 DEF IInv, Shapes
<1>9. ASSUME NEW d \in Clients, d # c
      PROVE  Orderly(d)'
  <2>1. answers'[d] = answers[d]
    BY <1>2, <1>4, <1>9
  <2>2. Untouched(d)
    BY <1>6, <1>7, <2>1, QueueSame, NetSame DEF Untouched
  <2>3. QED
    BY <2>2, UntouchedLemma DEF IInv
<1>10. Numbered(c) /\ Arrivals(c) /\ Numbered(c)' /\ Arrivals(c)'
  <2>1. Numbered(c) /\ Arrivals(c)
    BY DEF IInv, Orderly
  <2>2. Numbered(c)'
    BY <2>1 DEF Numbered
  <2>3. Arrivals(c)'
    BY <1>7, <2>1, NetSame DEF Arrivals
  <2>4. QED
    BY <2>1, <2>2, <2>3
<1>11. ASSUME c \notin hasty'
       PROVE  OnePlace(c)' /\ InTurn(c)'
  <2>1. OnePlace(c) /\ InTurn(c)
    BY <1>7, <1>11 DEF IInv, Orderly
  <2>2. Serves(w, c) /\ Served(c)
    BY <1>1 DEF Serves, Served
  <2>3. r = Last(c) /\ r.kind \notin {"blank", "huge"} /\ ~Queued(c) /\ ~(made[c] < Len(sent[c]))
    BY <1>1, <2>1, <2>2 DEF OnePlace
  <2>4. \A u \in Workers : ~Serves(u, c)'
    <3>1. ~Serves(w, c)'
      BY <1>2 DEF Serves, Idle
    <3>2. \A u \in Workers : Serves(u, c)' => u = w
      BY <1>6, <2>1, <2>2 DEF OnePlace
    <3>3. QED
      BY <3>1, <3>2
  <2>5. ~Served(c)' /\ ~Queued(c)'
    BY <2>3, <2>4, QueueSame DEF Served
  <2>6. OnePlace(c)'
    BY <1>7, <2>1, <2>3, <2>4, <2>5 DEF OnePlace
  <2>7. \A i \in 1..Len(answers[c]) : answers[c][i].to.n < Len(sent[c])
    BY <2>1, <2>2 DEF InTurn
  <2>8. Len(sent[c]) # 0 /\ Len(sent[c]) \in 1..Len(sent[c])
    BY <1>2, <2>1, <2>2 DEF OnePlace
  <2>9. r.n = Len(sent[c]) /\ r = sent[c][r.n]
    BY <1>10, <2>3, <2>8 DEF Numbered, Last
  <2>10. \A i \in 1..Len(answers'[c]) : i \in 1..Len(answers[c]) \/ i = Len(answers[c]) + 1
    <3>1. \A m \in Nat : \A k \in 1..(m + 1) : k \in 1..m \/ k = m + 1
      OBVIOUS
    <3>2. QED
      BY <1>2, <1>5, <3>1
  <2>11. ASSUME NEW i \in 1..Len(answers'[c])
         PROVE  /\ answers'[c][i].to.n <= Len(sent[c])
                /\ answers'[c][i].to = sent[c][answers'[c][i].to.n]
                /\ answers'[c][i].to.kind \notin {"blank", "huge"}
    <3>1. CASE i \in 1..Len(answers[c])
      BY <1>5, <2>1, <3>1 DEF InTurn
    <3>2. CASE i = Len(answers[c]) + 1
      <4>1. answers'[c][i].to = r
        BY <1>3, <1>5, <3>2
      <4>2. Len(sent[c]) <= Len(sent[c])
        BY <1>2
      <4>3. QED
        BY <2>3, <2>9, <4>1, <4>2
    <3>3. QED
      BY <2>10, <3>1, <3>2
  <2>12. ASSUME NEW i \in 1..Len(answers'[c]), NEW j \in 1..Len(answers'[c]), i < j
         PROVE  answers'[c][i].to.n < answers'[c][j].to.n
    <3>1. i \in 1..Len(answers[c])
      BY <1>2, <1>5, <2>12
    <3>2. CASE j \in 1..Len(answers[c])
      BY <1>5, <2>1, <2>12, <3>1, <3>2 DEF InTurn
    <3>3. CASE j = Len(answers[c]) + 1
      BY <1>3, <1>5, <2>7, <2>9, <3>1, <3>3
    <3>4. QED
      BY <2>10, <3>2, <3>3
  <2>13. ASSUME NEW k \in 1..Len(sent[c]), k < Len(sent[c]), sent[c][k].kind \notin {"blank", "huge"}
         PROVE  \E i \in DOMAIN answers'[c] : answers'[c][i].to = sent[c][k]
    <3>1. PICK i \in DOMAIN answers[c] : answers[c][i].to = sent[c][k]
      BY <2>1, <2>13 DEF InTurn, Replied
    <3>2. i \in 1..Len(answers[c]) /\ i \in DOMAIN answers'[c]
      BY <1>2, <1>5, <3>1, SeqFacts
    <3>3. QED
      BY <1>5, <3>1, <3>2
  <2>14. InTurn(c)'
    BY <2>3, <2>5, <2>11, <2>12, <2>13 DEF InTurn, Replied
  <2>15. QED
    BY <2>6, <2>14
<1>12. CalmUp'
  <2>1. CASE faults' = faults
    <3>1. Calm' = Calm
      BY <1>7, <2>1 DEF Calm
    <3>2. ASSUME Calm', NEW d \in Clients
          PROVE  Quiet(d)'
      <4>1. InUse(d)' => InUse(d)
        BY <1>6, QueueSame DEF InUse
      <4>2. Still(d)
        BY <1>6, <1>7, <4>1, QueueSame, NetSame DEF Still
      <4>3. QED
        BY <3>1, <3>2, <4>2, StillLemma DEF IInv, CalmUp
    <3>3. QED
      BY <3>1, <3>2 DEF CalmUp, IInv
  <2>2. CASE faults' = faults + 1
    BY <2>2, NotCalm DEF IInv
  <2>3. QED
    BY <2>1, <2>2
<1>13. Orderly(c)'
  BY <1>10, <1>11 DEF Orderly
<1>14. QED
  BY <1>8, <1>9, <1>12, <1>13 DEF IInv

LEMMA SendResponseLemma ==
  ASSUME IInv, NEW w \in Workers, SendResponse(w)
  PROVE  IInv'
<1>1. worker[w].at # "idle"
  BY DEF SendResponse, Writes, Sends
<1>2. PICK whole \in BOOLEAN :
        /\ whole \/ faults < MaxFaults
        /\ faults' = IF whole THEN faults ELSE faults + 1
        /\ IF Ended(w)
           THEN Answered(w, whole) /\ worker' = [worker EXCEPT ![w] = Idle]
           ELSE AwaitsEnd(w, whole) /\ UNCHANGED answers
  BY DEF SendResponse
<1>3. faults' = faults \/ (faults < MaxFaults /\ faults' = faults + 1)
  BY <1>2
<1>4. CASE Ended(w)
  BY <1>1, <1>2, <1>3, <1>4, AnswerStep DEF SendResponse
<1>5. CASE ~Ended(w)
  <2>1. PICK j \in Jobs : GoesOn(w, j)
    BY <1>1, <1>2, <1>5, AwaitsEndLemma
  <2>2. QED
    BY <1>2, <1>3, <1>5, <2>1, OwnStep DEF SendResponse
<1>6. QED
  BY <1>4, <1>5

LEMMA SendEndLemma ==
  ASSUME IInv, NEW w \in Workers, SendEnd(w)
  PROVE  IInv'
<1>1. worker[w].at = "end" /\ worker[w].at # "idle"
  BY DEF SendEnd, Writes, Sends
<1>2. worker[w].whole \in BOOLEAN
  BY <1>1, JobFacts DEF IInv, Shapes
<1>3. QED
  BY <1>1, <1>2, AnswerStep DEF SendEnd

\* A thread takes the event of a connection that was freed, or of a blank line.
LEMMA TakesNothing ==
  ASSUME IInv, queue # <<>>, queue' = Tail(queue),
         UNCHANGED <<peer, sent, sock, conns, net, worker, made, answers, faults, history>>,
         \/ UNCHANGED process
         \/ process' = "undefined" /\ context[Head(queue)] = "freed"
  PROVE  IInv'
<1>1. UNCHANGED <<context, buf, mutex, hasty, rude>>
  BY DEF conns, history
<1>2. \A c \in Clients : (Queued(c)' => Queued(c)) /\ (Once(c) => Once(c)')
  BY QueueTail DEF IInv
<1>3. queue' \in Seq(Clients)
  BY TailFacts DEF IInv, Shapes
<1>4. Shapes'
  <2>1. process' \in {"up", "quit", "killed", "undefined"}
    BY DEF IInv, Shapes
  <2>2. QED
    BY <1>1, <1>3, <2>1 DEF IInv, Shapes
<1>5. ASSUME NEW d \in Clients
      PROVE  Orderly(d)'
  <2>1. Untouched(d)
    BY <1>1, <1>2, WorkerSame, NetSame DEF Untouched
  <2>2. QED
    BY <2>1, UntouchedLemma DEF IInv
<1>6. CalmUp'
  <2>1. Calm' = Calm
    BY <1>1 DEF Calm
  <2>2. ASSUME Calm', NEW d \in Clients
        PROVE  Quiet(d)'
    <3>1. InUse(d)' => InUse(d)
      BY <1>2, WorkerSame DEF InUse
    <3>2. Still(d)
      BY <1>1, <1>2, <3>1, WorkerSame, NetSame DEF Still
    <3>3. QED
      BY <2>1, <2>2, <3>2, StillLemma DEF IInv, CalmUp
  <2>3. Calm => UNCHANGED process
    <3>1. PICK c \in Clients : c = Head(queue)
      BY TailFacts DEF IInv, Shapes
    <3>2. Queued(c)
      BY <3>1, QueueTail DEF IInv
    <3>3. QED
      BY <3>1, <3>2 DEF IInv, CalmUp, Quiet, InUse
  <2>4. QED
    BY <2>1, <2>2, <2>3 DEF CalmUp, IInv
<1>7. QED
  BY <1>4, <1>5, <1>6 DEF IInv

LEMMA HandleRequestLemma ==
  ASSUME IInv, NEW w \in Workers, HandleRequest(w)
  PROVE  IInv'
<1>0. queue # <<>> /\ queue' = Tail(queue) /\ worker[w] = Idle
  BY DEF HandleRequest
<1>1. PICK c \in Clients : c = Head(queue)
  BY <1>0, TailFacts DEF IInv, Shapes
<1>2. CASE context[c] = "freed"
  BY <1>0, <1>1, <1>2, TakesNothing DEF HandleRequest, Undefined
<1>3. CASE context[c] # "freed" /\ Blank(buf[c])
  BY <1>0, <1>1, <1>3, TakesNothing DEF HandleRequest
<1>4. CASE context[c] # "freed" /\ ~Blank(buf[c])
  <2>1. PICK r : r = buf[c][1]
    OBVIOUS
  <2>2. UNCHANGED process /\ Parsed(w, c, r)
    BY <1>1, <1>4, <2>1 DEF HandleRequest
  <2>3. /\ buf[c] \in Seq(Requests) /\ worker \in [Workers -> Jobs]
        /\ Len(buf[c]) \in Nat /\ Len(buf[c]) <= 1
    BY SeqFacts DEF IInv, Shapes, Orderly, Arrivals
  <2>4. buf[c] # <<>> /\ r.kind # "blank"
    BY <1>4, <2>1 DEF Blank
  <2>5. Len(buf[c]) = 1 /\ r \in Requests
    <3>1. Len(buf[c]) # 0
      BY <2>3, <2>4, SeqFacts
    <3>2. Len(buf[c]) = 1
      <4>1. \A m \in Nat : m <= 1 /\ m # 0 => m = 1
        OBVIOUS
      <4>2. QED
        BY <2>3, <3>1, <4>1
    <3>3. QED
      BY <2>1, <2>3, <3>2, SeqFacts
  <2>6. PICK j \in Jobs : /\ worker' = [worker EXCEPT ![w] = j]
                          /\ j.at # "idle" /\ j.c = c /\ j.request = r
    <3>1. PICK at \in {"execute", "send"} :
            worker' = [worker EXCEPT ![w] = [at |-> at, c |-> c, request |-> r]]
      BY <2>2 DEF Parsed
    <3>2. [at |-> at, c |-> c, request |-> r] \in
            [at : {"execute", "storage", "send"}, c : Clients, request : Requests]
      BY <2>5, <3>1
    <3>3. [at |-> at, c |-> c, request |-> r] \in Jobs
      BY <3>2 DEF Jobs
    <3>4. QED
      BY <3>1, <3>3
  <2>7. worker' \in [Workers -> Jobs] /\ worker'[w] = j /\ \A u \in Workers : u # w => worker'[u] = worker[u]
    BY <2>3, <2>6
  <2>8. UNCHANGED <<peer, sent, sock, context, buf, mutex, net, made, answers, faults, hasty, rude>>
    BY DEF HandleRequest, conns, history
  <2>9. /\ \A d \in Clients : (Queued(d)' => Queued(d)) /\ (Once(d) => Once(d)')
        /\ Once(c) => ~Queued(c)'
        /\ Queued(c)
    BY <1>0, <1>1, QueueTail DEF IInv
  <2>10. Shapes'
    <3>1. queue' \in Seq(Clients)
      BY <1>0, TailFacts DEF IInv, Shapes
    <3>2. QED
      BY <2>2, <2>7, <2>8, <3>1 DEF IInv, Shapes
  <2>11. ASSUME NEW d \in Clients, d # c
         PROVE  /\ \A u \in Workers : Serves(u, d)' => Serves(u, d) /\ worker'[u].request = worker[u].request
                /\ Served(d)' => Served(d)
    <3>1. ASSUME NEW u \in Workers, Serves(u, d)'
          PROVE  Serves(u, d) /\ worker'[u].request = worker[u].request
      <4>1. worker'[u].at # "idle" /\ worker'[u].c = d
        BY <3>1 DEF Serves
      <4>2. u # w
        BY <2>6, <2>7, <2>11, <4>1
      <4>3. QED
        BY <2>7, <4>1, <4>2 DEF Serves
    <3>2. QED
      BY <3>1 DEF Served
  <2>12. ASSUME NEW d \in Clients, d # c
         PROVE  Orderly(d)'
    <3>1. Untouched(d)
      BY <2>8, <2>9, <2>11, <2>12, NetSame DEF Untouched
    <3>2. QED
      BY <3>1, UntouchedLemma DEF IInv
  <2>13. Numbered(c)' /\ Arrivals(c)'
    <3>1. Numbered(c) /\ Arrivals(c)
      BY DEF IInv, Orderly
    <3>2. QED
      BY <2>8, <3>1, NetSame DEF Numbered, Arrivals
  <2>14. ASSUME c \notin hasty'
         PROVE  OnePlace(c)' /\ InTurn(c)'
    <3>1. OnePlace(c) /\ InTurn(c)
      BY <2>8, <2>14 DEF IInv, Orderly
    <3>2. /\ ~Served(c) /\ r = Last(c) /\ r.kind # "huge" /\ Once(c) /\ ~Queued(c)'
          /\ Len(sent[c]) # 0 /\ ~(made[c] < Len(sent[c]))
      <4>1. Once(c)
        BY <3>1 DEF OnePlace, Once
      <4>2. QED
        BY <2>1, <2>5, <2>9, <3>1, <4>1 DEF OnePlace
    <3>3. Last(c)' = Last(c)
      BY <2>8 DEF Last
    <3>4. ASSUME NEW u \in Workers, Serves(u, c)'
          PROVE  u = w
      <4>1. ASSUME u # w
            PROVE  FALSE
        BY <2>7, <3>2, <3>4, <4>1 DEF Serves, Served
      <4>2. QED
        BY <4>1
    <3>5. \A u \in Workers : Serves(u, c)' => worker'[u].request = Last(c)'
      BY <2>6, <2>7, <3>2, <3>3, <3>4
    <3>6. Once(c)'
      BY <2>9, <3>2
    <3>7. Last(c)'.kind \notin {"blank", "huge"}
      BY <2>4, <3>2, <3>3
    <3>8. OnePlace(c)'
      BY <2>8, <3>1, <3>2, <3>4, <3>5, <3>6, <3>7 DEF OnePlace, Once
    <3>9. \A i \in 1..Len(answers[c]) : answers[c][i].to.n < Len(sent[c])
      BY <2>9, <3>1 DEF InTurn
    <3>10. InTurn(c)'
      BY <2>8, <3>1, <3>9 DEF InTurn, Replied
    <3>11. QED
      BY <3>8, <3>10
  <2>15. CalmUp'
    <3>1. Calm' = Calm
      BY <2>8 DEF Calm
    <3>2. ASSUME Calm', NEW d \in Clients
          PROVE  Quiet(d)'
      <4>1. Quiet(d)
        BY <3>1, <3>2 DEF IInv, CalmUp
      <4>2. CASE d # c
        <5>1. InUse(d)' => InUse(d)
          BY <2>8, <2>9, <2>11, <4>2 DEF InUse
        <5>2. Still(d)
          BY <2>8, <2>9, <2>11, <4>2, <5>1, NetSame DEF Still
        <5>3. QED
          BY <4>1, <5>2, StillLemma
      <4>3. CASE d = c
        BY <1>4, <2>8, <2>9, <4>1, <4>3 DEF Quiet
      <4>4. QED
        BY <4>2, <4>3
    <3>3. QED
      BY <2>2, <3>1, <3>2 DEF CalmUp, IInv
  <2>16. QED
    BY <2>10, <2>12, <2>13, <2>14, <2>15 DEF IInv, Orderly
<1>5. QED
  BY <1>2, <1>3, <1>4
-----------------------------------------------------------------------------
(* The theorems *)

LEMMA InitLemma ==
  ASSUME Init
  PROVE  IInv
<1>1. <<>> \in Seq(Requests) /\ <<>> \in Seq(Chunks) /\ <<>> \in Seq(Answers) /\ <<>> \in Seq(Clients)
      /\ Len(<<>>) = 0 /\ 1..0 = {} /\ DOMAIN <<>> = {}
  OBVIOUS
<1>2. Shapes
  <2>1. net \in Readers /\ worker \in [Workers -> Jobs]
    BY DEF Init, Readers, Jobs
  <2>2. QED
    BY <1>1, <2>1, ServerAssumption DEF Init, Shapes
<1>3. ASSUME NEW c \in Clients
      PROVE  ~Begun(c) /\ ~Queued(c) /\ ~Served(c) /\ ~InUse(c)
  BY <1>1 DEF Init, Begun, Queued, Served, Serves, InUse, Idle
<1>4. ASSUME NEW c \in Clients
      PROVE  Orderly(c)
  <2>1. sent[c] = <<>> /\ sock[c] = <<>> /\ made[c] = 0 /\ answers[c] = <<>> /\ buf[c] = <<>> /\ queue = <<>>
    BY DEF Init
  <2>2. \A w \in Workers : ~Serves(w, c)
    BY <1>3 DEF Served
  <2>3. Numbered(c) /\ Arrivals(c)
    BY <1>1, <1>3, <2>1, ServerAssumption DEF Numbered, Arrivals
  <2>4. OnePlace(c) /\ InTurn(c)
    BY <1>1, <1>3, <2>1, <2>2 DEF OnePlace, InTurn
  <2>5. QED
    BY <2>3, <2>4 DEF Orderly
<1>5. CalmUp
  BY <1>3 DEF CalmUp, Quiet, Init
<1>6. QED
  BY <1>2, <1>4, <1>5 DEF IInv

\* The process is told to quit; nothing else that the invariant speaks of changes.
LEMMA ShutdownLemma ==
  ASSUME IInv, Shutdown
  PROVE  IInv'
<1>1. /\ UNCHANGED <<peer, sent, sock, context, buf, mutex, net, queue, worker, made, answers, faults, hasty, rude>>
      /\ process' = "quit"
  BY DEF Shutdown, conns, history
<1>2. Shapes'
  BY <1>1 DEF IInv, Shapes
<1>3. \A d \in Clients : Orderly(d)'
  BY <1>1, Elsewhere
<1>4. CalmUp'
  BY <1>1, QueueSame, WorkerSame, NetSame, UsesSame DEF IInv, CalmUp, Calm, Quiet
<1>5. QED
  BY <1>2, <1>3, <1>4 DEF IInv

LEMMA StutterLemma ==
  ASSUME IInv, UNCHANGED vars
  PROVE  IInv'
<1>1. UNCHANGED <<peer, sent, sock, context, buf, mutex, net, queue, worker, made, answers, process, faults, hasty, rude>>
  BY DEF vars, conns, history
<1>2. Shapes'
  BY <1>1 DEF IInv, Shapes
<1>3. \A d \in Clients : Orderly(d)'
  BY <1>1, Elsewhere
<1>4. CalmUp'
  BY <1>1, QueueSame, WorkerSame, NetSame, UsesSame DEF IInv, CalmUp, Calm, Quiet
<1>5. QED
  BY <1>2, <1>3, <1>4 DEF IInv

LEMMA StepLemma ==
  ASSUME IInv, [Next]_vars
  PROVE  IInv'
<1>1. ASSUME NEW c \in Clients,
             Connect(c) \/ SendRest(c) \/ Leave(c) \/ Accept(c) \/ Recv(c) \/ AcceptRefused(c)
      PROVE  IInv'
  BY <1>1, ConnectLemma, SendRestLemma, LeaveLemma, AcceptLemma, RecvLemma, AcceptRefusedLemma
<1>2. ASSUME NEW c \in Clients, NEW kind \in Asks[c], Send(c, kind)
      PROVE  IInv'
  BY <1>2, SendLemma
<1>3. CASE Reading \/ ReadFails \/ Shutdown
  BY <1>3, RecvLockLemma, ReadPartLemma, ReadEndLemma, ReadNothingLemma, ReadFailsLemma,
     ShutdownLemma DEF Reading
<1>4. ASSUME NEW w \in Workers, Step(w)
      PROVE  IInv'
  BY <1>4, HandleRequestLemma, ExecuteLemma, StoreLemma, SendResponseLemma, SendEndLemma,
     SendFailsLemma, SendKilledLemma, SendFreedLemma DEF Step
<1>5. CASE UNCHANGED vars
  BY <1>5, StutterLemma
<1>6. QED
  BY <1>1, <1>2, <1>3, <1>4, <1>5 DEF Next, NetStep

\* IInv holds in every reachable state.
THEOREM Inductive == Spec => []IInv
BY InitLemma, StepLemma, PTL DEF Spec

\* The types of the variables; no event is made of a request that was not sent
\* (Server::recv).
THEOREM Typing == Spec => []TypeOK
<1>1. IInv => TypeOK
  <2> SUFFICES ASSUME IInv
               PROVE  TypeOK
    OBVIOUS
  <2>1. ASSUME NEW c \in Clients
        PROVE  sent[c] \in Seqs(Requests) /\ buf[c] \in Seqs(Requests)
    <3>1. ASSUME NEW s \in Seq(Requests), Len(s) <= MaxRequests
          PROVE  s \in Seqs(Requests)
      <4>1. Len(s) \in 0..MaxRequests /\ s \in [1..Len(s) -> Requests]
        BY <3>1, LenProperties, ServerAssumption
      <4>2. QED
        BY <4>1 DEF Seqs
    <3>2. sent[c] \in Seq(Requests) /\ buf[c] \in Seq(Requests) /\ Len(sent[c]) <= MaxRequests /\ Len(buf[c]) <= 1
      BY DEF IInv, Shapes, Orderly, Numbered, Arrivals
    <3>3. Len(buf[c]) <= MaxRequests
      <4>1. CASE MaxRequests = 0
        <5>1. Requests = {}
          BY <4>1 DEF Requests
        <5>2. Len(buf[c]) = 0
          BY <3>2, <5>1, SeqFacts
        <5>3. QED
          BY <4>1, <5>2
      <4>2. CASE MaxRequests # 0
        BY <3>2, <4>2, SeqFacts, ServerAssumption
      <4>3. QED
        BY <4>1, <4>2
    <3>4. QED
      BY <3>1, <3>2, <3>3
  <2>2. QED
    BY <2>1 DEF IInv, Shapes, Orderly, Arrivals, TypeOK
<1>2. QED
  BY <1>1, Inductive, PTL

\* A client that sends one request at a time gets its answers in turn and
\* without a gap, whatever other clients do and however the threads interleave.
THEOREM AnswersComeInTurn == Spec => []AnswersInTurn
<1>1. IInv => AnswersInTurn
  <2> SUFFICES ASSUME IInv, NEW c \in Clients, c \notin hasty
               PROVE  /\ \A i \in DOMAIN answers[c] : answers[c][i].to \in Answerable(c)
                      /\ \A i, j \in DOMAIN answers[c] : i < j => answers[c][i].to.n < answers[c][j].to.n
                      /\ \A i \in DOMAIN answers[c], r \in Answerable(c) :
                           r.n < answers[c][i].to.n => Replied(c, r)
    BY DEF AnswersInTurn
  <2>1. InTurn(c) /\ Numbered(c)
    BY DEF IInv, Orderly
  <2>2. /\ answers[c] \in Seq(Answers) /\ sent[c] \in Seq(Requests)
        /\ DOMAIN answers[c] = 1..Len(answers[c]) /\ DOMAIN sent[c] = 1..Len(sent[c])
        /\ Len(sent[c]) \in Nat
    BY SeqFacts DEF IInv, Shapes
  <2>3. ASSUME NEW i \in DOMAIN answers[c]
        PROVE  /\ answers[c][i].to \in Answerable(c)
               /\ answers[c][i].to.n \in Nat /\ answers[c][i].to.n <= Len(sent[c])
    <3>1. answers[c][i].to.n \in Nat \ {0}
      BY <2>2, RequestFacts
    <3>2. /\ answers[c][i].to.n <= Len(sent[c]) /\ answers[c][i].to = sent[c][answers[c][i].to.n]
          /\ answers[c][i].to.kind \notin {"blank", "huge"}
      BY <2>1, <2>2 DEF InTurn
    <3>3. answers[c][i].to.n \in DOMAIN sent[c]
      BY <2>2, <3>1, <3>2
    <3>4. QED
      BY <3>1, <3>2, <3>3 DEF Answerable
  <2>4. ASSUME NEW i \in DOMAIN answers[c], NEW r \in Answerable(c), r.n < answers[c][i].to.n
        PROVE  Replied(c, r)
    <3>1. PICK k \in 1..Len(sent[c]) : r = sent[c][k]
      BY <2>2 DEF Answerable
    <3>2. r.n = k /\ r.kind \notin {"blank", "huge"}
      BY <2>1, <3>1 DEF Numbered, Answerable
    <3>3. k < Len(sent[c])
      BY <2>2, <2>3, <2>4, <3>2
    <3>4. QED
      BY <2>1, <3>1, <3>2, <3>3 DEF InTurn
  <2>5. \A i, j \in DOMAIN answers[c] : i < j => answers[c][i].to.n < answers[c][j].to.n
    BY <2>1, <2>2 DEF InTurn
  <2>6. QED
    BY <2>3, <2>4, <2>5
<1>2. QED
  BY <1>1, Inductive, PTL

\* Only a client that sends on or leaves too early, or a call that the operating
\* system refuses, can bring the server down before it is told to quit.
THEOREM ServerGoesOn == Spec => []GoesOnUnless
<1>1. IInv => GoesOnUnless
  BY ServerAssumption DEF IInv, Shapes, CalmUp, Calm, GoesOnUnless
<1>2. QED
  BY <1>1, Inductive, PTL
=============================================================================
