------------------------------- MODULE Server -------------------------------
(***************************************************************************)
(* miinfer serve: the main thread accepts connections, answers the control *)
(* plane itself and queues chat requests; one worker thread runs them.     *)
(* They share pending_requests, accepting and queue_cv under queue_mutex.  *)
(* SIGINT or SIGTERM may be delivered at any moment, on either thread.     *)
(*                                                                         *)
(* A section that holds the mutex, and the body of one handler phase, is   *)
(* one step.  What is written to a socket is abstracted to status lines.   *)
(***************************************************************************)
EXTENDS Naturals, Sequences, FiniteSets

CONSTANTS Client,        \* connections, each used once
          QueueCapacity, \* kQueueCapacity (8)
          NoClient       \* no connection in hand

ASSUME ServerAssumption ==
    /\ IsFiniteSet(Client)
    /\ QueueCapacity \in Nat \ {0}
    /\ NoClient \notin Client

VARIABLES conn,      \* where each connection is
          kind,      \* what it asks for
          gone,      \* connections whose peer has disconnected
          replies,   \* status lines written to each
          backlog,   \* the kernel's accept queue
          shutdownRequested, \* g_shutdown_requested
          wakePipe,  \* a byte is in the signal wake pipe
          main,      \* phase of the main thread
          mainFd,    \* its client_fd
          requestSequence, \* number of requests given an id
          requestId, \* the id of each, 0 before it has one
          pending,   \* pending_requests
          accepting, \* accepting
          worker,    \* phase of the worker thread
          workerFd   \* its request.client_fd

peers      == <<kind, gone>>
signals    == <<shutdownRequested, wakePipe>>
mainVars   == <<main, mainFd, backlog, requestSequence, requestId>>
queueVars  == <<pending, accepting>>
workerVars == <<worker, workerFd>>
vars == <<conn, replies, peers, signals, mainVars, queueVars, workerVars>>

Kinds == {"control", "chat", "stream"}
Status == {"200", "4xx", "500", "503"}

Init ==
    /\ conn = [c \in Client |-> "new"]
    /\ kind \in [Client -> Kinds]
    /\ gone = {}
    /\ replies = [c \in Client |-> <<>>]
    /\ backlog = <<>>
    /\ shutdownRequested = FALSE
    /\ wakePipe = FALSE
    /\ main = "loop"
    /\ mainFd = NoClient
    /\ requestSequence = 0
    /\ requestId = [c \in Client |-> 0]
    /\ pending = <<>>
    /\ accepting = TRUE
    /\ worker = "check"
    /\ workerFd = NoClient

Write(c, status) == replies' = [replies EXCEPT ![c] = Append(@, status)]
Close(c) == conn' = [conn EXCEPT ![c] = "closed"]

-----------------------------------------------------------------------------
\* Clients and signals.

Connect(c) ==
    /\ conn[c] = "new"
    /\ main \notin {"join", "exit"}
    /\ conn' = [conn EXCEPT ![c] = "backlog"]
    /\ backlog' = Append(backlog, c)
    /\ UNCHANGED <<replies, peers, signals, main, mainFd, requestSequence,
                   requestId, queueVars, workerVars>>

Disconnect(c) ==
    /\ conn[c] \in {"backlog", "open"}
    /\ gone' = gone \cup {c}
    /\ UNCHANGED <<conn, kind, replies, signals, mainVars, queueVars, workerVars>>

\* signal_handler() sets the flag; on the main thread it interrupts poll().
SignalFlag ==
    /\ ~shutdownRequested
    /\ shutdownRequested' = TRUE
    /\ main' \in {main, IF main = "poll" THEN "loop" ELSE main}
    /\ UNCHANGED <<conn, replies, peers, wakePipe, mainFd, backlog,
                   requestSequence, requestId, queueVars, workerVars>>

\* signal_handler() then writes to the pipe, unless it is closed by now.
SignalWake ==
    /\ shutdownRequested /\ ~wakePipe
    /\ main \notin {"join", "exit"}
    /\ wakePipe' = TRUE
    /\ UNCHANGED <<conn, replies, peers, shutdownRequested, mainVars, queueVars,
                   workerVars>>

-----------------------------------------------------------------------------
\* The main thread.

CheckFlag ==
    /\ main = "loop"
    /\ main' = IF shutdownRequested THEN "drain" ELSE "poll"
    /\ UNCHANGED <<conn, replies, peers, signals, mainFd, backlog,
                   requestSequence, requestId, queueVars, workerVars>>

\* poll() reports the wake pipe, which is looked at first.
PollWoken ==
    /\ main = "poll"
    /\ wakePipe
    /\ main' = "drain"
    /\ UNCHANGED <<conn, replies, peers, signals, mainFd, backlog,
                   requestSequence, requestId, queueVars, workerVars>>

Accept ==
    /\ main = "poll"
    /\ ~wakePipe
    /\ backlog # <<>>
    /\ main' = "read"
    /\ mainFd' = Head(backlog)
    /\ backlog' = Tail(backlog)
    /\ conn' = [conn EXCEPT ![Head(backlog)] = "open"]
    /\ UNCHANGED <<replies, peers, signals, requestSequence, requestId,
                   queueVars, workerVars>>

\* Answer and close the connection in hand, and look for the next one.
AnswerInHand(status) ==
    /\ Write(mainFd, status)
    /\ Close(mainFd)
    /\ mainFd' = NoClient
    /\ main' = "loop"

\* The request is malformed, too large or not complete after ten seconds.
ReadFails ==
    /\ main = "read"
    /\ AnswerInHand("4xx")
    /\ UNCHANGED <<peers, signals, backlog, requestSequence, requestId,
                   queueVars, workerVars>>

NumberRequest ==
    /\ requestSequence' = requestSequence + 1
    /\ requestId' = [requestId EXCEPT ![mainFd] = requestSequence + 1]

\* Anything but an authorised chat request is answered on the spot.
AnswerControl ==
    /\ main = "read"
    /\ NumberRequest
    /\ \E status \in {"200", "4xx"} :
          /\ kind[mainFd] = "control" \/ status = "4xx"
          /\ AnswerInHand(status)
    /\ UNCHANGED <<peers, signals, backlog, queueVars, workerVars>>

ReadChat ==
    /\ main = "read"
    /\ kind[mainFd] # "control"
    /\ NumberRequest
    /\ main' = "enqueue"
    /\ UNCHANGED <<conn, replies, peers, signals, mainFd, backlog, queueVars,
                   workerVars>>

\* Mutant: off by one at the limit.
HasRoomForOneMore == accepting /\ Len(pending) <= QueueCapacity

HasRoom == accepting /\ Len(pending) < QueueCapacity

Enqueue ==
    /\ main = "enqueue"
    /\ HasRoom
    /\ pending' = Append(pending, mainFd)
    /\ mainFd' = NoClient
    /\ main' = "notify"
    /\ UNCHANGED <<conn, replies, peers, signals, backlog, requestSequence,
                   requestId, accepting, workerVars>>

RejectBusy ==
    /\ main = "enqueue"
    /\ ~HasRoom
    /\ AnswerInHand("503")
    /\ UNCHANGED <<peers, signals, backlog, requestSequence, requestId,
                   queueVars, workerVars>>

\* queue_cv.notify_one(): lost unless the worker is asleep.
NotifyOne ==
    /\ worker' = IF worker = "asleep" THEN "check" ELSE worker
    /\ UNCHANGED workerFd

\* Mutant: the request is queued without telling the worker.
NotifySkipped ==
    /\ main = "notify"
    /\ main' = "loop"
    /\ UNCHANGED <<conn, replies, peers, signals, mainFd, backlog,
                   requestSequence, requestId, queueVars, workerVars>>

Notify ==
    /\ main = "notify"
    /\ NotifyOne
    /\ main' = "loop"
    /\ UNCHANGED <<conn, replies, peers, signals, mainFd, backlog,
                   requestSequence, requestId, queueVars>>

Pending == {pending[i] : i \in DOMAIN pending}

\* Mutant: the rejected requests stay in the queue.
DrainKeeping ==
    /\ main = "drain"
    /\ accepting' = FALSE
    /\ conn' = [c \in Client |-> IF c \in Pending THEN "closed" ELSE conn[c]]
    /\ replies' = [c \in Client |-> IF c \in Pending THEN Append(replies[c], "503")
                                                    ELSE replies[c]]
    /\ main' = "notifyStop"
    /\ UNCHANGED <<pending, peers, signals, mainFd, backlog, requestSequence,
                   requestId, workerVars>>

\* The loop is left: reject what is queued, with the mutex held.
Drain ==
    /\ main = "drain"
    /\ accepting' = FALSE
    /\ pending' = <<>>
    /\ conn' = [c \in Client |-> IF c \in Pending THEN "closed" ELSE conn[c]]
    /\ replies' = [c \in Client |-> IF c \in Pending THEN Append(replies[c], "503")
                                                    ELSE replies[c]]
    /\ main' = "notifyStop"
    /\ UNCHANGED <<peers, signals, mainFd, backlog, requestSequence, requestId,
                   workerVars>>

\* Mutant: the worker is not told that no more requests will come.
NotifyStopSkipped ==
    /\ main = "notifyStop"
    /\ main' = "closeListen"
    /\ UNCHANGED <<conn, replies, peers, signals, mainFd, backlog,
                   requestSequence, requestId, queueVars, workerVars>>

NotifyStop ==
    /\ main = "notifyStop"
    /\ NotifyOne
    /\ main' = "closeListen"
    /\ UNCHANGED <<conn, replies, peers, signals, mainFd, backlog,
                   requestSequence, requestId, queueVars>>

\* close(server_fd) resets the connections that were not accepted yet.
CloseListen ==
    /\ main = "closeListen"
    /\ conn' = [c \in Client |-> IF conn[c] = "backlog" THEN "refused" ELSE conn[c]]
    /\ backlog' = <<>>
    /\ main' = "join"
    /\ UNCHANGED <<replies, peers, signals, mainFd, requestSequence, requestId,
                   queueVars, workerVars>>

Join ==
    /\ main = "join"
    /\ worker = "exit"
    /\ main' = "exit"
    /\ UNCHANGED <<conn, replies, peers, signals, mainFd, backlog,
                   requestSequence, requestId, queueVars, workerVars>>

-----------------------------------------------------------------------------
\* The worker thread.

\* Mutant: the newest request is taken first.
DequeueNewest ==
    /\ worker = "check"
    /\ pending # <<>>
    /\ workerFd' = pending[Len(pending)]
    /\ pending' = SubSeq(pending, 1, Len(pending) - 1)
    /\ worker' = "handle"
    /\ UNCHANGED <<conn, replies, peers, signals, mainVars, accepting>>

Dequeue ==
    /\ worker = "check"
    /\ pending # <<>>
    /\ workerFd' = Head(pending)
    /\ pending' = Tail(pending)
    /\ worker' = "handle"
    /\ UNCHANGED <<conn, replies, peers, signals, mainVars, accepting>>

Sleep ==
    /\ worker = "check"
    /\ pending = <<>> /\ accepting
    /\ worker' = "asleep"
    /\ UNCHANGED <<conn, replies, peers, signals, mainVars, queueVars, workerFd>>

WorkerExit ==
    /\ worker = "check"
    /\ pending = <<>> /\ ~accepting
    /\ worker' = "exit"
    /\ UNCHANGED <<conn, replies, peers, signals, mainVars, queueVars, workerFd>>

\* A condition variable may wake for no reason.
SpuriousWake ==
    /\ worker = "asleep"
    /\ worker' = "check"
    /\ UNCHANGED <<conn, replies, peers, signals, mainVars, queueVars, workerFd>>

\* client_cancelled()
Cancelled(c) == shutdownRequested \/ c \in gone

\* From one handler phase to the next; only the socket is touched.
Handler(from, to) ==
    /\ worker = from
    /\ worker' = to
    /\ UNCHANGED <<conn, peers, signals, mainVars, queueVars, workerFd>>

\* Mutant: the handler does not return after rejecting.
RejectAndGoOn ==
    /\ Handler("handle", "generate")
    /\ Write(workerFd, "4xx")

\* The body does not parse, or (not cancelled by then) the context is exceeded.
Reject ==
    /\ Handler("handle", "close")
    /\ Write(workerFd, "4xx")

\* The client is gone or the server stops: nothing is sent.
Cancel ==
    /\ Handler("handle", "close")
    /\ Cancelled(workerFd)
    /\ UNCHANGED replies

\* Tokenizing the prompt throws.
TokenizeThrows ==
    /\ Handler("handle", "close")
    /\ ~Cancelled(workerFd)
    /\ Write(workerFd, "500")

StartChat ==
    /\ Handler("handle", "generate")
    /\ ~Cancelled(workerFd)
    /\ kind[workerFd] = "chat"
    /\ UNCHANGED replies

\* The header of a stream is sent before its options are set up.
StartStream ==
    /\ Handler("handle", "setup")
    /\ ~Cancelled(workerFd)
    /\ kind[workerFd] = "stream"
    /\ Write(workerFd, "200")

SetUp ==
    /\ Handler("setup", "generate")
    /\ UNCHANGED replies

\* Tokenizing a stop string throws past the header.
SetUpThrows ==
    /\ Handler("setup", "close")
    /\ Write(workerFd, "500")

\* generate() returns or throws; a stream catches and reports an event.
ChatCompletes ==
    /\ Handler("generate", "close")
    /\ kind[workerFd] = "chat"
    /\ \E status \in {"200", "500"} : Write(workerFd, status)

StreamCompletes ==
    /\ Handler("generate", "close")
    /\ kind[workerFd] = "stream"
    /\ UNCHANGED replies

CloseHandled ==
    /\ worker = "close"
    /\ Close(workerFd)
    /\ workerFd' = NoClient
    /\ worker' = "check"
    /\ UNCHANGED <<replies, peers, signals, mainVars, queueVars>>

-----------------------------------------------------------------------------
MainStep ==
    \/ CheckFlag \/ PollWoken \/ Accept
    \/ ReadFails \/ AnswerControl \/ ReadChat
    \/ Enqueue \/ RejectBusy \/ Notify
    \/ Drain \/ NotifyStop \/ CloseListen \/ Join

WorkerStep ==
    \/ Dequeue \/ Sleep \/ WorkerExit
    \/ Reject \/ Cancel \/ TokenizeThrows
    \/ StartChat \/ StartStream \/ SetUp \/ SetUpThrows
    \/ ChatCompletes \/ StreamCompletes \/ CloseHandled

Next ==
    \/ \E c \in Client : Connect(c) \/ Disconnect(c)
    \/ SignalFlag \/ SignalWake
    \/ MainStep
    \/ WorkerStep \/ SpuriousWake

\* Both threads are scheduled, every phase of theirs ends (reads and writes by
\* timeout, generate() by its token limit) and a signal handler runs to its end.
Fairness == WF_vars(MainStep) /\ WF_vars(WorkerStep) /\ WF_vars(SignalWake)

Spec == Init /\ [][Next]_vars /\ Fairness

-----------------------------------------------------------------------------
TypeOK ==
    /\ conn \in [Client -> {"new", "backlog", "open", "closed", "refused"}]
    /\ kind \in [Client -> Kinds]
    /\ gone \subseteq Client
    /\ replies \in [Client -> Seq(Status)]
    /\ backlog \in Seq(Client)
    /\ shutdownRequested \in BOOLEAN
    /\ wakePipe \in BOOLEAN
    /\ main \in {"loop", "poll", "read", "enqueue", "notify", "drain",
                 "notifyStop", "closeListen", "join", "exit"}
    /\ mainFd \in Client \cup {NoClient}
    /\ mainFd # NoClient <=> main \in {"read", "enqueue"}
    /\ requestSequence \in Nat
    /\ requestId \in [Client -> 0 .. requestSequence]
    /\ pending \in Seq(Client)
    /\ Len(pending) <= QueueCapacity
    /\ accepting \in BOOLEAN
    /\ worker \in {"check", "asleep", "handle", "setup", "generate", "close", "exit"}
    /\ workerFd \in Client \cup {NoClient}
    /\ workerFd # NoClient <=> worker \in {"handle", "setup", "generate", "close"}

\* How often a connection is referred to by a thread or by the queue.
Owners(c) ==
    Cardinality({i \in DOMAIN pending : pending[i] = c})
        + (IF mainFd = c THEN 1 ELSE 0) + (IF workerFd = c THEN 1 ELSE 0)

\* A descriptor is open while exactly one of the main thread, the queue and
\* the worker has it, and closed for good after: no leak, no double close, no
\* write to a descriptor that may have been given to another client.
OneOwner == \A c \in Client : Owners(c) = IF conn[c] = "open" THEN 1 ELSE 0

\* A closed connection was sent one status line, however requests, overflow,
\* failures and shutdown raced.  The exceptions are those of handle_request():
\* a cancelled request gets none, and a stream whose set-up throws gets a
\* second one after its header.
AnsweredOnce ==
    \A c \in Client : conn[c] = "closed" =>
        \/ Len(replies[c]) = 1
        \/ replies[c] = <<>> /\ Cancelled(c)
        \/ replies[c] = <<"200", "500">> /\ kind[c] = "stream"

\* Requests are run in the order in which they were read.
FirstComeFirstServed ==
    /\ \A i, j \in DOMAIN pending : i < j => requestId[pending[i]] < requestId[pending[j]]
    /\ workerFd # NoClient =>
          \A i \in DOMAIN pending : requestId[workerFd] < requestId[pending[i]]

\* Every accepted or waiting connection is answered, closed or refused, with
\* or without a shutdown: no wake-up of the worker is lost.
EveryConnectionEnds ==
    \A c \in Client :
        (conn[c] \in {"backlog", "open"}) ~> (conn[c] \in {"closed", "refused"})

\* A signal ends the process, at whatever moment and on whichever thread it
\* arrives, and nothing is left open behind.
ShutdownCompletes ==
    shutdownRequested ~> (/\ main = "exit"
                          /\ \A c \in Client : conn[c] \in {"new", "closed", "refused"})

=============================================================================
