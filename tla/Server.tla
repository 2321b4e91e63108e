------------------------------- MODULE Server -------------------------------
(***************************************************************************)
(* Connections and the way of a request through the stages: the libevent   *)
(* thread accepts connections and receives requests into the buffer of the *)
(* connection; the threads of SQLThreads take the session event, run every *)
(* stage on their own stack (each calls the next one's handle_event), and  *)
(* write the answer from the chain of callbacks. A connection is freed by  *)
(* whoever closes it, while the others may still hold its pointer.         *)
(*                                                                         *)
(* What a statement does is in Trx, Table, Catalog, Select and Executor;   *)
(* here a request is told by the way it takes:                             *)
(*   blank        handle_request returns at once                           *)
(*   bad          the parser refuses it                                    *)
(*   query        the execute stage answers it: SELECT, BEGIN, COMMIT,     *)
(*                ROLLBACK, SYNC, HELP, EXIT, or pre_check refuses it      *)
(*   storage      it goes on to the storage stage                          *)
(*   unsupported  no stage sets a response                                 *)
(*   huge         it fills the buffer before its end arrives               *)
(***************************************************************************)
EXTENDS Naturals, Sequences, FiniteSets

CONSTANTS Clients, Workers,
          Asks,         \* the kinds of requests each client sends
          MaxRequests,  \* bound on the requests of all clients
          MaxFaults     \* bound on what the operating system refuses

ASSUME ServerAssumption ==
  /\ IsFiniteSet(Clients)
  /\ MaxRequests \in Nat /\ MaxFaults \in Nat

NoOne == "no one"
Net == "net"

VARIABLES
  peer,      \* the client's end of the connection: "new", "open", "closed"
  sent,      \* the requests each client has sent, whole or begun
  sock,      \* what was sent and not yet read by the server
  context,   \* ConnectionContext: "none", "live", "freed"
  buf,       \* its buf: the requests read into it; none after memset
  mutex,     \* its mutex: who holds it
  net,       \* the thread of event_base_dispatch
  queue,     \* the session stage's events
  worker,    \* the threads of SQLThreads
  made,      \* session events made for each connection
  answers,   \* the answers that reached each client
  listening, \* the listening socket is open
  process,   \* "up", "quit" by SIGTERM, "killed" by SIGPIPE, or "undefined" after an
             \* access to a freed connection
  faults,    \* how often the operating system refused something
  hasty, rude  \* history: clients that sent on, that left, before the server had finished

conns == <<context, buf, mutex>>
history == <<hasty, rude>>
vars == <<peer, sent, sock, conns, net, queue, worker, made, answers,
          listening, process, faults, history>>

Idle == [at |-> "idle"]

Init ==
  /\ peer = [c \in Clients |-> "new"]
  /\ sent = [c \in Clients |-> <<>>]
  /\ sock = [c \in Clients |-> <<>>]
  /\ context = [c \in Clients |-> "none"]
  /\ buf = [c \in Clients |-> <<>>]
  /\ mutex = [c \in Clients |-> NoOne]
  /\ net = Idle
  /\ queue = <<>>
  /\ worker = [w \in Workers |-> Idle]
  /\ made = [c \in Clients |-> 0]
  /\ answers = [c \in Clients |-> <<>>]
  /\ listening = TRUE
  /\ process = "up"
  /\ faults = 0
  /\ hasty = {} /\ rude = {}

----------------------------------------------------------------------------
(* Clients *)

\* "No data" is an answer, a blank line has none; a huge request ends the connection.
Answerable(c) == {r \in {sent[c][k] : k \in DOMAIN sent[c]} : r.kind \notin {"blank", "huge"}}
Replied(c, r) == \E i \in DOMAIN answers[c] : answers[c][i].to = r
Waiting(c) == \E r \in Answerable(c) : ~Replied(c, r)

\* The server has not finished with what the client sent.
Busy(c) ==
  \/ Waiting(c) \/ sock[c] # <<>>
  \/ net.at # "idle" /\ net.c = c
  \/ \E i \in DOMAIN queue : queue[i] = c
  \/ \E w \in Workers : worker[w].at # "idle" /\ worker[w].c = c

Sent == Cardinality({p \in Clients \X (1..MaxRequests) : p[2] <= Len(sent[p[1]])})

\* The last thing the client sent waits for its end.
Halfway(c) ==
  /\ context[c] # "freed"
  /\ \/ sock[c] # <<>> /\ ~sock[c][Len(sock[c])].end
     \/ sock[c] = <<>> /\ net.at = "read" /\ net.c = c /\ net.begun

Connect(c) ==
  /\ process = "up" /\ peer[c] = "new" /\ listening
  /\ peer' = [peer EXCEPT ![c] = "open"]
  /\ UNCHANGED <<sent, sock, conns, net, queue, worker, made, answers,
                 listening, process, faults, history>>

\* The client sends a request, or the part of one.
Send(c, kind) ==
  /\ process = "up" /\ peer[c] = "open" /\ context[c] # "freed" /\ ~Halfway(c) /\ Sent < MaxRequests
  /\ LET request == [n |-> Len(sent[c]) + 1, kind |-> kind]
     IN  /\ sent' = [sent EXCEPT ![c] = Append(@, request)]
         /\ \E end \in (IF kind = "huge" THEN {FALSE} ELSE BOOLEAN) :
              sock' = [sock EXCEPT ![c] = Append(@, [of |-> request, end |-> end])]
  /\ hasty' = IF Busy(c) THEN hasty \cup {c} ELSE hasty
  /\ UNCHANGED <<peer, conns, net, queue, worker, made, answers,
                 listening, process, faults, rude>>

\* The rest of a request arrives.
SendRest(c) ==
  /\ process = "up" /\ peer[c] = "open" /\ context[c] # "freed" /\ Halfway(c)
  /\ LET request == sent[c][Len(sent[c])]
     IN  /\ request.kind # "huge"
         /\ sock' = [sock EXCEPT ![c] = Append(@, [of |-> request, end |-> TRUE])]
  /\ UNCHANGED <<peer, sent, conns, net, queue, worker, made, answers,
                 listening, process, faults, history>>

\* The client closes its end, with or without the answers it asked for.
Leave(c) ==
  /\ process = "up" /\ peer[c] = "open" /\ context[c] # "freed"
  /\ peer' = [peer EXCEPT ![c] = "closed"]
  /\ rude' = IF Busy(c) THEN rude \cup {c} ELSE rude
  /\ UNCHANGED <<sent, sock, conns, net, queue, worker, made, answers,
                 listening, process, faults, hasty>>

----------------------------------------------------------------------------
(* The libevent thread *)

\* Server::accept
Accept(c) ==
  /\ process = "up" /\ net = Idle /\ listening
  /\ peer[c] # "new" /\ context[c] = "none"
  /\ context' = [context EXCEPT ![c] = "live"]
  /\ UNCHANGED <<peer, sent, sock, buf, mutex, net, queue, worker, made, answers,
                 listening, process, faults, history>>

\* accept fails: early, it closes the client's socket; when event_base_set or
\* event_add refuses the connection, it frees its context and closes the
\* listening socket instead of the client's.
AcceptRefused(c) ==
  /\ process = "up" /\ net = Idle /\ listening
  /\ peer[c] # "new" /\ context[c] = "none" /\ faults < MaxFaults
  /\ context' = [context EXCEPT ![c] = "freed"]
  /\ \E early \in BOOLEAN : listening' = early
  /\ faults' = faults + 1
  /\ UNCHANGED <<peer, sent, sock, buf, mutex, net, queue, worker, made, answers,
                 process, history>>

\* Server::recv, up to the lock: memset comes before it.
Recv(c) ==
  /\ process = "up" /\ net = Idle
  /\ context[c] = "live" /\ (sock[c] # <<>> \/ peer[c] = "closed")
  /\ buf' = [buf EXCEPT ![c] = <<>>]
  /\ net' = [at |-> "lock", c |-> c]
  /\ UNCHANGED <<peer, sent, sock, context, mutex, queue, worker, made, answers,
                 listening, process, faults, history>>

RecvLock ==
  /\ process = "up" /\ net.at = "lock"
  /\ IF context[net.c] = "freed"
     THEN process' = "undefined" /\ UNCHANGED <<mutex, net>>
     ELSE /\ mutex[net.c] = NoOne
          /\ mutex' = [mutex EXCEPT ![net.c] = Net]
          /\ net' = [at |-> "read", c |-> net.c, begun |-> FALSE]
          /\ UNCHANGED process
  /\ UNCHANGED <<peer, sent, sock, context, buf, queue, worker, made, answers,
                 listening, faults, history>>

\* Server::close_connection: the context and its session are deleted.
CloseConnection(c) == context' = [context EXCEPT ![c] = "freed"]

\* What one read returns is looked through for its first end; the rest of it is dropped.
FirstEnd(chunks) == CHOOSE i \in DOMAIN chunks :
                      chunks[i].end /\ \A j \in 1..(i - 1) : ~chunks[j].end

\* read returns data that ends no request: the loop goes on, the mutex stays locked.
ReadPart ==
  /\ process = "up" /\ net.at = "read"
  /\ LET c == net.c
     IN  /\ sock[c] # <<>> /\ \A i \in DOMAIN sock[c] : ~sock[c][i].end
         /\ \A i \in DOMAIN sock[c] : sock[c][i].of.kind # "huge"
         /\ sock' = [sock EXCEPT ![c] = <<>>]
         /\ net' = [net EXCEPT !.begun = TRUE]
  /\ UNCHANGED <<peer, sent, conns, queue, worker, made, answers,
                 listening, process, faults, history>>

\* Mutant: the mutex stays locked when the request is complete.
KeepsLock(c) == UNCHANGED <<mutex, context>>

\* Mutant: the connection of a complete request is closed as well.
ClosesToo(c) == mutex' = [mutex EXCEPT ![c] = NoOne] /\ CloseConnection(c)

\* After the loop, the mutex is unlocked and the connection stays.
Received(c) == mutex' = [mutex EXCEPT ![c] = NoOne] /\ UNCHANGED context

\* Mutant: what was read is read again.
ReadsAgain(c) == UNCHANGED sock

Consume(c) == sock' = [sock EXCEPT ![c] = <<>>]

\* read returns the end of a request: a session event for the session stage.
ReadEnd ==
  /\ process = "up" /\ net.at = "read"
  /\ LET c == net.c
     IN  /\ \E i \in DOMAIN sock[c] : sock[c][i].end
         /\ buf' = [buf EXCEPT ![c] = <<sock[c][FirstEnd(sock[c])].of>>]
         /\ Consume(c)
         /\ Received(c)
         /\ made' = [made EXCEPT ![c] = @ + 1]
         /\ queue' = Append(queue, c)
  /\ net' = Idle
  /\ UNCHANGED <<peer, sent, worker, answers, listening, process, faults, history>>

\* read returns 0: the client has left, or the buffer has no room.
ReadNothing ==
  /\ process = "up" /\ net.at = "read"
  /\ LET c == net.c
     IN  /\ \/ sock[c] = <<>> /\ peer[c] = "closed"
            \/ /\ \A i \in DOMAIN sock[c] : ~sock[c][i].end
               /\ \E i \in DOMAIN sock[c] : sock[c][i].of.kind = "huge"
         /\ mutex' = [mutex EXCEPT ![c] = NoOne]
         /\ CloseConnection(c)
  /\ net' = Idle
  /\ UNCHANGED <<peer, sent, sock, buf, queue, worker, made, answers,
                 listening, process, faults, history>>

\* read fails: the connection is closed.
ReadFails ==
  /\ process = "up" /\ net.at = "read"
  /\ faults < MaxFaults /\ faults' = faults + 1
  /\ mutex' = [mutex EXCEPT ![net.c] = NoOne]
  /\ CloseConnection(net.c)
  /\ net' = Idle
  /\ UNCHANGED <<peer, sent, sock, buf, queue, worker, made, answers,
                 listening, process, history>>

\* SIGTERM: Server::shutdown, from quit_thread_func, does not wait for the loop
\* (event_base_loopexit takes a duration and is given a point in time) and frees
\* the event base under it. What the loop and the threads do then is not followed.
Shutdown ==
  /\ process = "up"
  /\ process' = "quit"
  /\ listening' = FALSE
  /\ UNCHANGED <<peer, sent, sock, conns, net, queue, worker, made, answers, faults, history>>

----------------------------------------------------------------------------
(* The stages, on a thread of SQLThreads *)

Unfreed(w) == context[worker[w].c] # "freed"
Undefined == process' = "undefined" /\ UNCHANGED worker

\* ResolveStage, QueryCacheStage and PlanCacheStage pass the event on; ParseStage
\* makes the plan of a request, or sets the failure as its response.
Parsed(w, c, request) ==
  worker' = [worker EXCEPT ![w] =
    [at |-> IF request.kind = "bad" THEN "send" ELSE "execute", c |-> c, request |-> request]]

\* Mutant: handle_request goes on with a blank line.
GoesOnBlank(request) == request = <<>>

Blank(request) == request = <<>> \/ request[1].kind = "blank"

\* A thread takes an event; SessionStage::handle_request copies the request out
\* of the connection; a blank one is done at once.
HandleRequest(w) ==
  /\ process = "up" /\ worker[w] = Idle /\ queue # <<>>
  /\ LET c == Head(queue)
     IN  IF context[c] = "freed" THEN Undefined
         ELSE /\ IF Blank(buf[c]) THEN UNCHANGED worker ELSE Parsed(w, c, buf[c][1])
              /\ UNCHANGED process
  /\ queue' = Tail(queue)
  /\ UNCHANGED <<peer, sent, sock, conns, net, made, answers, listening, faults, history>>

\* OptimizeStage and ExecuteStage::handle_request, with the session of the connection
Execute(w) ==
  /\ process = "up" /\ worker[w].at = "execute"
  /\ IF ~Unfreed(w) THEN Undefined
     ELSE /\ worker' = [worker EXCEPT ![w].at = IF worker[w].request.kind = "storage" THEN "storage" ELSE "send"]
          /\ UNCHANGED process
  /\ UNCHANGED <<peer, sent, sock, conns, net, queue, made, answers, listening, faults, history>>

\* DefaultStorageStage::handle_event ends the statement's transaction through the session.
Store(w) ==
  /\ process = "up" /\ worker[w].at = "storage"
  /\ IF ~Unfreed(w) THEN Undefined
     ELSE worker' = [worker EXCEPT ![w].at = "send"] /\ UNCHANGED process
  /\ UNCHANGED <<peer, sent, sock, conns, net, queue, made, answers, listening, faults, history>>

\* "No data" is sent with its end, every other response without it.
Ended(w) == worker[w].request.kind = "unsupported"

Answered(w, whole) ==
  answers' = [answers EXCEPT ![worker[w].c] = Append(@, [to |-> worker[w].request, whole |-> whole])]

AwaitsEnd(w, whole) ==
  worker' = [worker EXCEPT ![w] =
    [at |-> "end", c |-> @.c, request |-> @.request, whole |-> whole]]

\* Server::send waits for the mutex of the connection, if there still is one.
Sends(w, at) == process = "up" /\ worker[w].at = at
Writes(w, at) == Sends(w, at) /\ Unfreed(w) /\ mutex[worker[w].c] = NoOne

\* SessionStage::callback_event: the response is written, or the part of it
\* that three writes take.
SendResponse(w) ==
  /\ Writes(w, "send")
  /\ \E whole \in BOOLEAN :
       /\ whole \/ faults < MaxFaults
       /\ faults' = IF whole THEN faults ELSE faults + 1
       /\ IF Ended(w)
          THEN Answered(w, whole) /\ worker' = [worker EXCEPT ![w] = Idle]
          ELSE AwaitsEnd(w, whole) /\ UNCHANGED answers
  /\ UNCHANGED <<peer, sent, sock, conns, net, queue, made, listening, process, history>>

\* The end of the message is written.
SendEnd(w) ==
  /\ Writes(w, "end")
  /\ Answered(w, worker[w].whole)
  /\ worker' = [worker EXCEPT ![w] = Idle]
  /\ UNCHANGED <<peer, sent, sock, conns, net, queue, made, listening, process, faults, history>>

\* write fails, the socket takes no more: the worker closes the connection, and
\* still has the end of the message to send.
SendFails(w) ==
  /\ worker[w] # Idle
  /\ \/ Writes(w, "send") /\ ~Ended(w) /\ AwaitsEnd(w, FALSE)
     \/ /\ Writes(w, IF Ended(w) THEN "send" ELSE "end")
        /\ worker' = [worker EXCEPT ![w] = Idle]
  /\ faults < MaxFaults /\ faults' = faults + 1
  /\ CloseConnection(worker[w].c)
  /\ UNCHANGED <<peer, sent, sock, buf, mutex, net, queue, made, answers,
                 listening, process, history>>

\* The client has closed its end: SIGPIPE is not handled.
SendKilled(w) ==
  /\ Writes(w, "send") \/ Writes(w, "end")
  /\ peer[worker[w].c] = "closed"
  /\ process' = "killed"
  /\ UNCHANGED <<peer, sent, sock, conns, net, queue, worker, made, answers,
                 listening, faults, history>>

\* The connection was freed meanwhile.
SendFreed(w) ==
  /\ Sends(w, "send") \/ Sends(w, "end")
  /\ ~Unfreed(w)
  /\ Undefined
  /\ UNCHANGED <<peer, sent, sock, conns, net, queue, made, answers, listening, faults, history>>

----------------------------------------------------------------------------

NetStep(c) == Accept(c) \/ Recv(c)
Step(w) ==
  \/ HandleRequest(w) \/ Execute(w) \/ Store(w)
  \/ SendResponse(w) \/ SendEnd(w) \/ SendFails(w) \/ SendKilled(w) \/ SendFreed(w)
Reading == RecvLock \/ ReadPart \/ ReadEnd \/ ReadNothing

Next ==
  \/ \E c \in Clients : \/ Connect(c) \/ SendRest(c) \/ Leave(c)
                        \/ NetStep(c) \/ AcceptRefused(c)
                        \/ \E kind \in Asks[c] : Send(c, kind)
  \/ Reading \/ ReadFails \/ Shutdown
  \/ \E w \in Workers : Step(w)

\* The event loop serves every ready connection in turn, and the threads of
\* the pool run; SF because the loop is busy with one connection at a time.
\* Nothing is asked of a client.
Fairness ==
  /\ WF_vars(Reading)
  /\ \A c \in Clients : SF_vars(NetStep(c))
  /\ \A w \in Workers : WF_vars(Step(w))

Spec == Init /\ [][Next]_vars /\ Fairness

----------------------------------------------------------------------------
(* Properties *)

Requests == [n : 1..MaxRequests, kind : UNION {Asks[c] : c \in Clients}]
Seqs(S) == UNION {[1..k -> S] : k \in 0..MaxRequests}

\* Types of the variables (net/connection_context.h, event/session_event.h).
TypeOK ==
  /\ peer \in [Clients -> {"new", "open", "closed"}]
  /\ context \in [Clients -> {"none", "live", "freed"}]
  /\ mutex \in [Clients -> Workers \cup {NoOne, Net}]
  /\ \A c \in Clients : /\ sent[c] \in Seqs(Requests)
                        /\ buf[c] \in Seqs(Requests) /\ Len(buf[c]) <= 1
                        /\ made[c] <= Len(sent[c])
  /\ process \in {"up", "quit", "killed", "undefined"}
  /\ faults \in 0..MaxFaults

\* A client that sends one request at a time, as the comment in Server::recv
\* expects of it, gets its answers one for each request that has one, in turn
\* and without a gap, whichever threads handled them and however its requests were cut up.
AnswersInTurn ==
  \A c \in Clients \ hasty :
    /\ \A i \in DOMAIN answers[c] : answers[c][i].to \in Answerable(c)
    /\ \A i, j \in DOMAIN answers[c] : i < j => answers[c][i].to.n < answers[c][j].to.n
    /\ \A i \in DOMAIN answers[c], r \in Answerable(c) :
         r.n < answers[c][i].to.n => Replied(c, r)

\* The server goes on until it is told to quit, as long as every client waits
\* until the server has finished with what it sent, and the operating system
\* refuses no call: no thread meets a connection that another one has freed
\* (Server::close_connection), and no write meets a closed socket.
GoesOnUnless == process \in {"up", "quit"} \/ hasty \cup rude # {} \/ faults > 0

\* As long as no client leaves a request half sent for good, which keeps the
\* event loop in Server::recv, every request of a client that stays and sends
\* one at a time is answered, unless the server stops.
EveryRequestAnswered ==
  (\A d \in Clients : []<>~Halfway(d)) =>
    \A c \in Clients :
      Waiting(c) ~> \/ ~Waiting(c) \/ c \in hasty \/ peer[c] = "closed"
                    \/ process # "up" \/ faults > 0
=============================================================================
