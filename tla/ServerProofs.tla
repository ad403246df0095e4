---------------------------- MODULE ServerProofs ----------------------------
(***************************************************************************)
(* The safety of the server for any number of connections and any queue.   *)
(* The invariant is about where a descriptor is (Owned), in which order    *)
(* requests were numbered (Numbered) and what was sent to each (Answers).  *)
(***************************************************************************)
EXTENDS Server, FiniteSetTheorems, TLAPS

Among(s) == {s[i] : i \in DOMAIN s}

OnlyOnce(s) == \A i, j \in DOMAIN s : s[i] = s[j] => i = j

\* Who has a descriptor: the main thread, the queue, the worker, or the kernel.
Owned ==
    /\ \A c \in Client : conn[c] = "open" <=> c \in Pending \/ c = mainFd \/ c = workerFd
    /\ mainFd \notin Pending /\ workerFd \notin Pending
    /\ mainFd = workerFd => mainFd = NoClient
    /\ OnlyOnce(pending)
    /\ \A c \in Among(backlog) : conn[c] = "backlog"
    /\ OnlyOnce(backlog)

-----------------------------------------------------------------------------
\* Sequences as queues.
\* Appending an element, and taking the first one.
LEMMA AppendType ==
    ASSUME NEW S, NEW s \in Seq(S), NEW e \in S
    PROVE  /\ Append(s, e) \in Seq(S)
           /\ Len(Append(s, e)) = Len(s) + 1
           /\ DOMAIN Append(s, e) = 1 .. Len(s) + 1
           /\ \A i \in DOMAIN s : Append(s, e)[i] = s[i]
           /\ Append(s, e)[Len(s) + 1] = e
  OBVIOUS

LEMMA TailType ==
    ASSUME NEW S, NEW s \in Seq(S), s # <<>>
    PROVE  /\ Head(s) \in S /\ Head(s) = s[1]
           /\ 1 \in DOMAIN s
           /\ Tail(s) \in Seq(S)
           /\ Len(Tail(s)) = Len(s) - 1
           /\ \A i \in DOMAIN Tail(s) : Tail(s)[i] = s[i + 1] /\ i + 1 \in DOMAIN s
  OBVIOUS

\* They keep a queue free of repetitions.
LEMMA AppendOnce ==
    ASSUME NEW S, NEW s \in Seq(S), NEW e \in S
    PROVE  /\ Among(Append(s, e)) = Among(s) \cup {e}
           /\ OnlyOnce(s) /\ e \notin Among(s) => OnlyOnce(Append(s, e))
  BY AppendType DEF Among, OnlyOnce

LEMMA TailOnce ==
    ASSUME NEW S, NEW s \in Seq(S), s # <<>>, OnlyOnce(s)
    PROVE  /\ Among(s) = Among(Tail(s)) \cup {Head(s)}
           /\ Head(s) \notin Among(Tail(s))
           /\ OnlyOnce(Tail(s))
<1>1. ASSUME NEW i \in DOMAIN s PROVE s[i] \in Among(Tail(s)) \cup {Head(s)}
  <2>1. CASE i = 1
    BY <2>1, TailType
  <2>2. CASE i # 1
    <3>1. i - 1 \in DOMAIN Tail(s) /\ Tail(s)[i - 1] = s[i]
      BY <2>2, TailType
    <3> QED
      BY <3>1 DEF Among
  <2> QED
    BY <2>1, <2>2
<1>2. Among(Tail(s)) \cup {Head(s)} \subseteq Among(s)
  BY TailType DEF Among
<1>3. \A i \in DOMAIN Tail(s) : i \in Nat /\ i + 1 # 1
  BY TailType
<1>4. Head(s) \notin Among(Tail(s))
  BY <1>3, TailType DEF Among, OnlyOnce
<1>5. OnlyOnce(Tail(s))
  BY <1>3, TailType DEF OnlyOnce
<1> QED
  BY <1>1, <1>2, <1>4, <1>5 DEF Among

-----------------------------------------------------------------------------
\* Types.
LEMMA TypeInit == Init => TypeOK
<1> SUFFICES ASSUME Init PROVE TypeOK
  OBVIOUS
<1>1. replies \in [Client -> Seq(Status)]
  BY DEF Init
<1>2. requestId \in [Client -> 0 .. requestSequence] /\ requestSequence \in Nat
  BY DEF Init
<1>3. Len(pending) <= QueueCapacity /\ pending \in Seq(Client) /\ backlog \in Seq(Client)
  BY ServerAssumption DEF Init
<1> QED
  BY <1>1, <1>2, <1>3, ServerAssumption DEF Init, TypeOK

\* Each action keeps the types.
LEMMA TypeNext == TypeOK /\ [Next]_vars => TypeOK'
<1> SUFFICES ASSUME TypeOK, [Next]_vars PROVE TypeOK'
  OBVIOUS
<1> USE ServerAssumption
<1> USE DEF Status, Kinds, peers, signals, mainVars, queueVars, workerVars,
            Write, Close, NumberRequest, AnswerInHand, NotifyOne, Handler
<1>1. ASSUME NEW c \in Client, Connect(c) PROVE TypeOK'
  BY <1>1 DEF Connect, TypeOK
<1>2. ASSUME NEW c \in Client, Disconnect(c) PROVE TypeOK'
  BY <1>2 DEF Disconnect, TypeOK
<1>3. CASE SignalFlag
  BY <1>3 DEF SignalFlag, TypeOK
<1>4. CASE SignalWake
  BY <1>4 DEF SignalWake, TypeOK
<1>5. CASE CheckFlag
  BY <1>5 DEF CheckFlag, TypeOK
<1>6. CASE PollWoken
  BY <1>6 DEF PollWoken, TypeOK
<1>7. CASE Accept
  BY <1>7 DEF Accept, TypeOK
<1>8. CASE ReadFails
  BY <1>8 DEF ReadFails, TypeOK
<1>9. CASE AnswerControl
  BY <1>9 DEF AnswerControl, TypeOK
<1>10. CASE ReadChat
  BY <1>10 DEF ReadChat, TypeOK
<1>11. CASE Enqueue
  BY <1>11 DEF Enqueue, HasRoom, TypeOK
<1>12. CASE RejectBusy
  BY <1>12 DEF RejectBusy, TypeOK
<1>13. CASE Notify
  BY <1>13 DEF Notify, TypeOK
<1>14. CASE Drain
  <2>1. replies' \in [Client -> Seq(Status)]
    <3>1. ASSUME NEW c \in Client PROVE Append(replies[c], "503") \in Seq(Status)
      BY AppendType DEF TypeOK
    <3> QED
      BY <1>14, <3>1 DEF Drain, TypeOK
  <2>2. conn' \in [Client -> {"new", "backlog", "open", "closed", "refused"}]
    BY <1>14 DEF Drain, TypeOK
  <2>3. pending' \in Seq(Client) /\ Len(pending') <= QueueCapacity
    <3>1. <<>> \in Seq(Client) /\ Len(<<>>) = 0
      OBVIOUS
    <3> QED
      BY <1>14, <3>1 DEF Drain
  <2>4. /\ main' = "notifyStop" /\ main = "drain"
        /\ accepting' = FALSE
        /\ UNCHANGED <<peers, signals, mainFd, backlog, requestSequence, requestId,
                       workerVars>>
    BY <1>14 DEF Drain
  <2> QED
    BY <2>1, <2>2, <2>3, <2>4 DEF TypeOK
<1>15. CASE NotifyStop
  BY <1>15 DEF NotifyStop, TypeOK
<1>16. CASE CloseListen
  BY <1>16 DEF CloseListen, TypeOK
<1>17. CASE Join
  BY <1>17 DEF Join, TypeOK
<1>18. CASE Dequeue
  BY <1>18 DEF Dequeue, TypeOK
<1>19. CASE Sleep \/ WorkerExit \/ SpuriousWake
  BY <1>19 DEF Sleep, WorkerExit, SpuriousWake, TypeOK
<1>20. ASSUME NEW from, NEW to, Handler(from, to), workerFd \in Client,
              to \in {"handle", "setup", "generate", "close"},
              \/ UNCHANGED replies
              \/ \E status \in Status : Write(workerFd, status)
       PROVE  TypeOK'
  <2>1. ASSUME NEW status \in Status PROVE Append(replies[workerFd], status) \in Seq(Status)
    BY <1>20, AppendType DEF TypeOK
  <2>2. replies' \in [Client -> Seq(Status)]
    BY <1>20, <2>1 DEF TypeOK
  <2> QED
    BY <1>20, <2>2 DEF TypeOK
<1>21. ASSUME NEW from, NEW to, Handler(from, to),
              from \in {"handle", "setup", "generate", "close"}
       PROVE  workerFd \in Client
  BY <1>21 DEF TypeOK
<1>22. CASE \/ Reject \/ Cancel \/ TokenizeThrows \/ StartChat \/ StartStream
            \/ SetUp \/ SetUpThrows \/ ChatCompletes \/ StreamCompletes
  <2> HIDE DEF Handler, Write
  <2>1. CASE Reject \/ Cancel \/ TokenizeThrows
    BY <1>20, <1>21, <2>1 DEF Reject, Cancel, TokenizeThrows
  <2>2. CASE StartChat \/ StartStream
    BY <1>20, <1>21, <2>2 DEF StartChat, StartStream
  <2>3. CASE SetUp \/ SetUpThrows
    BY <1>20, <1>21, <2>3 DEF SetUp, SetUpThrows
  <2>4. CASE ChatCompletes \/ StreamCompletes
    BY <1>20, <1>21, <2>4 DEF ChatCompletes, StreamCompletes
  <2> QED
    BY <1>22, <2>1, <2>2, <2>3, <2>4
<1>23. CASE CloseHandled
  BY <1>23 DEF CloseHandled, TypeOK
<1>24. CASE UNCHANGED vars
  BY <1>24 DEF vars, TypeOK
<1> QED
  BY <1>1, <1>2, <1>3, <1>4, <1>5, <1>6, <1>7, <1>8, <1>9, <1>10, <1>11, <1>12,
     <1>13, <1>14, <1>15, <1>16, <1>17, <1>18, <1>19, <1>22, <1>23, <1>24
  DEF Next, MainStep, WorkerStep

-----------------------------------------------------------------------------
\* Descriptors.
LEMMA OwnedInit == Init => Owned
<1>1. Among(<<>>) = {} /\ OnlyOnce(<<>>) /\ Pending = Among(pending)
  BY DEF Among, OnlyOnce, Pending
<1> QED
  BY <1>1, ServerAssumption DEF Init, Owned

\* A descriptor moves from one owner to the next, or is closed by its owner.
LEMMA OwnedNext == TypeOK /\ TypeOK' /\ Owned /\ [Next]_vars => Owned'
<1> SUFFICES ASSUME TypeOK, TypeOK', Owned, [Next]_vars PROVE Owned'
  OBVIOUS
<1> USE ServerAssumption
<1> USE DEF peers, signals, mainVars, queueVars, workerVars, NumberRequest, NotifyOne, Handler
<1>0. Pending = Among(pending) /\ Pending' = Among(pending')
  BY DEF Pending, Among
<1>0a. NoClient \notin Among(pending) /\ NoClient \notin Among(pending')
  <2>1. pending \in Seq(Client) /\ pending' \in Seq(Client)
    BY DEF TypeOK
  <2>2. Among(pending) \subseteq Client /\ Among(pending') \subseteq Client
    BY <2>1 DEF Among
  <2>3. NoClient \notin Client
    BY ServerAssumption DEF ServerAssumption
  <2> QED
    BY <2>2, <2>3
<1>1. CASE UNCHANGED <<conn, pending, mainFd, workerFd, backlog>>
  BY <1>0, <1>1 DEF Owned
<1>2. CASE \/ \E c \in Client : Disconnect(c)
           \/ SignalFlag \/ SignalWake \/ CheckFlag \/ PollWoken \/ ReadChat
           \/ Notify \/ NotifyStop \/ Join \/ Sleep \/ WorkerExit \/ SpuriousWake
  BY <1>1, <1>2 DEF Disconnect, SignalFlag, SignalWake, CheckFlag, PollWoken,
     ReadChat, Notify, NotifyStop, Join, Sleep, WorkerExit, SpuriousWake
<1>3. CASE \/ Reject \/ Cancel \/ TokenizeThrows \/ StartChat \/ StartStream
           \/ SetUp \/ SetUpThrows \/ ChatCompletes \/ StreamCompletes
  BY <1>1, <1>3 DEF Reject, Cancel, TokenizeThrows, StartChat, StartStream,
     SetUp, SetUpThrows, ChatCompletes, StreamCompletes
<1>4. ASSUME NEW c \in Client, Connect(c) PROVE Owned'
  <2>1. c \notin Among(backlog)
    BY <1>4 DEF Connect, Owned
  <2> QED
    BY <1>0, <1>4, <2>1, AppendOnce DEF Connect, Owned, TypeOK
<1>5. CASE Accept
  <2>1. Head(backlog) \in Client /\ conn[Head(backlog)] = "backlog"
    BY <1>5, TailType DEF Accept, Owned, TypeOK, Among
  <2>2. /\ Head(backlog) \notin Among(backlog')
        /\ Among(backlog') \subseteq Among(backlog)
        /\ OnlyOnce(backlog')
    BY <1>5, TailOnce DEF Accept, Owned, TypeOK
  <2> QED
    BY <1>0, <1>5, <2>1, <2>2 DEF Accept, Owned, TypeOK
<1>6. CASE ReadFails \/ AnswerControl \/ RejectBusy
  <2>1. /\ mainFd \in Client /\ mainFd' = NoClient
        /\ conn' = [conn EXCEPT ![mainFd] = "closed"]
        /\ UNCHANGED <<pending, workerFd, backlog>>
    BY <1>6 DEF ReadFails, AnswerControl, RejectBusy, AnswerInHand, Close, TypeOK
  <2> QED
    BY <1>0, <1>0a, <2>1 DEF Owned, TypeOK
<1>7. CASE Enqueue
  <2>1. mainFd \in Client
    BY <1>7 DEF Enqueue, TypeOK
  <2> QED
    BY <1>0, <1>0a, <1>7, <2>1, AppendOnce DEF Enqueue, Owned, TypeOK
<1>8. CASE Drain
  <2>1. mainFd = NoClient /\ Among(pending') = {} /\ OnlyOnce(pending')
    BY <1>8 DEF Drain, TypeOK, Among, OnlyOnce
  <2>2. ASSUME NEW c \in Client
        PROVE  conn'[c] = IF c \in Pending THEN "closed" ELSE conn[c]
    BY <1>8 DEF Drain
  <2>3. UNCHANGED <<mainFd, workerFd, backlog>>
    BY <1>8 DEF Drain
  <2>4. ASSUME NEW c \in Client
        PROVE  conn'[c] = "open" <=> c \in Pending' \/ c = mainFd' \/ c = workerFd'
    BY <1>0, <2>1, <2>2, <2>3, ServerAssumption DEF Owned
  <2>5. ASSUME NEW c \in Among(backlog) PROVE conn'[c] = "backlog" 
    <3>1. c \in Client /\ conn[c] = "backlog"
      BY <2>5 DEF Owned, Among, TypeOK
    <3> QED
      BY <2>2, <3>1 DEF Owned
  <2> QED
    BY <1>0, <2>1, <2>3, <2>4, <2>5 DEF Owned
<1>9. CASE CloseListen
  <2>1. Among(backlog') = {} /\ OnlyOnce(backlog')
    BY <1>9 DEF CloseListen, Among, OnlyOnce
  <2> QED
    BY <1>0, <1>9, <2>1 DEF CloseListen, Owned, TypeOK
<1>10. CASE Dequeue
  <2>1. workerFd = NoClient
    BY <1>10 DEF Dequeue, TypeOK
  <2>2. /\ Among(pending) = Among(pending') \cup {workerFd'}
        /\ workerFd' \notin Among(pending')
        /\ OnlyOnce(pending')
    BY <1>10, TailOnce DEF Dequeue, Owned, TypeOK
  <2> QED
    BY <1>0, <1>10, <2>1, <2>2 DEF Dequeue, Owned, TypeOK
<1>11. CASE CloseHandled
  <2>1. workerFd \in Client
    BY <1>11 DEF CloseHandled, TypeOK
  <2> QED
    BY <1>0, <1>0a, <1>11, <2>1 DEF CloseHandled, Close, Owned, TypeOK
<1> QED
  BY <1>1, <1>2, <1>3, <1>4, <1>5, <1>6, <1>7, <1>8, <1>9, <1>10, <1>11
  DEF vars, Next, MainStep, WorkerStep

-----------------------------------------------------------------------------
\* Requests have numbers in the order in which they were read: the one in the
\* main thread's hand comes after all that are queued or run.
Numbered ==
    /\ FirstComeFirstServed
    /\ main = "enqueue" =>
          /\ \A i \in DOMAIN pending : requestId[pending[i]] < requestId[mainFd]
          /\ workerFd # NoClient => requestId[workerFd] < requestId[mainFd]

\* No request has a number yet.
LEMMA NumberedInit == Init => Numbered
  BY DEF Init, Numbered, FirstComeFirstServed

\* Only the request in hand is given a number, and it is the largest.
LEMMA NumberedNext == TypeOK /\ TypeOK' /\ Owned /\ Numbered /\ [Next]_vars => Numbered'
<1> SUFFICES ASSUME TypeOK, TypeOK', Owned, Numbered, [Next]_vars PROVE Numbered'
  OBVIOUS
<1> USE ServerAssumption
<1> USE DEF peers, signals, mainVars, queueVars, workerVars, NotifyOne, Handler,
            Numbered, FirstComeFirstServed
<1>1. CASE UNCHANGED <<pending, mainFd, workerFd, requestId>>
           /\ (main' = main \/ main' # "enqueue")
  BY <1>1
<1>2. CASE \/ SignalFlag \/ SignalWake \/ CheckFlag \/ PollWoken
           \/ Notify \/ NotifyStop \/ Join \/ Sleep \/ WorkerExit \/ SpuriousWake
           \/ CloseListen \/ UNCHANGED vars
  BY <1>1, <1>2 DEF SignalFlag, SignalWake, CheckFlag, PollWoken, Notify,
     NotifyStop, Join, Sleep, WorkerExit, SpuriousWake, CloseListen, vars
<1>3. CASE \/ Reject \/ Cancel \/ TokenizeThrows \/ StartChat \/ StartStream
           \/ SetUp \/ SetUpThrows \/ ChatCompletes \/ StreamCompletes
  BY <1>1, <1>3 DEF Reject, Cancel, TokenizeThrows, StartChat, StartStream,
     SetUp, SetUpThrows, ChatCompletes, StreamCompletes
<1>4. CASE \E c \in Client : Connect(c) \/ Disconnect(c)
  BY <1>1, <1>4 DEF Connect, Disconnect
<1>5. CASE Accept \/ ReadFails \/ RejectBusy
  BY <1>5 DEF Accept, ReadFails, RejectBusy, AnswerInHand
<1>6. CASE AnswerControl \/ ReadChat
  <2>1. /\ mainFd \in Client
        /\ requestId' = [requestId EXCEPT ![mainFd] = requestSequence + 1]
        /\ UNCHANGED <<pending, workerFd>>
        /\ main' = "enqueue" => mainFd' = mainFd
    BY <1>6 DEF AnswerControl, ReadChat, NumberRequest, AnswerInHand, TypeOK
  <2>2. \A i \in DOMAIN pending : pending[i] \in Client /\ pending[i] # mainFd
    BY DEF Owned, Pending, TypeOK
  <2>3. workerFd # NoClient => workerFd \in Client /\ workerFd # mainFd
    BY <2>1 DEF Owned, TypeOK
  <2>4. \A c \in Client :
           /\ requestId[c] \in Nat
           /\ requestId[c] < requestSequence + 1
           /\ c # mainFd => requestId'[c] = requestId[c]
    BY <2>1 DEF TypeOK
  <2>5. requestId'[mainFd] = requestSequence + 1
    BY <2>1 DEF TypeOK
  <2> QED
    BY <2>1, <2>2, <2>3, <2>4, <2>5
<1>7. CASE Enqueue
  <2>1. mainFd \in Client /\ main = "enqueue" /\ main' = "notify"
    BY <1>7 DEF Enqueue, TypeOK
  <2>2. /\ DOMAIN pending' = 1 .. Len(pending) + 1
        /\ DOMAIN pending = 1 .. Len(pending) /\ Len(pending) \in Nat
        /\ \A i \in DOMAIN pending : pending'[i] = pending[i]
        /\ pending'[Len(pending) + 1] = mainFd
        /\ UNCHANGED <<workerFd, requestId>>
    BY <1>7, <2>1, AppendType DEF Enqueue, TypeOK
  <2> QED
    BY <2>1, <2>2
<1>8. CASE Drain
  BY <1>8 DEF Drain
<1>9. CASE Dequeue
  <2>1. /\ workerFd' = pending[1] /\ 1 \in DOMAIN pending
        /\ DOMAIN pending' \subseteq Nat \ {0}
        /\ \A i \in DOMAIN pending' : pending'[i] = pending[i + 1] /\ i + 1 \in DOMAIN pending
        /\ UNCHANGED <<requestId, mainFd, main>>
    BY <1>9, TailType DEF Dequeue, TypeOK
  <2> QED
    BY <2>1
<1>10. CASE CloseHandled
  BY <1>10 DEF CloseHandled
<1> QED
  BY <1>2, <1>3, <1>4, <1>5, <1>6, <1>7, <1>8, <1>9, <1>10
  DEF Next, MainStep, WorkerStep

-----------------------------------------------------------------------------
\* What AnsweredOnce says of one connection.
Answered(c) ==
    \/ Len(replies[c]) = 1
    \/ replies[c] = <<>> /\ Cancelled(c)
    \/ replies[c] = <<"200", "500">> /\ kind[c] = "stream"

\* What was sent to a connection, by where it is: nothing before a thread
\* answers it, the header of a stream while it runs.
Answers ==
    /\ \A c \in Client : conn[c] = "closed" => Answered(c)
    /\ \A c \in Client :
          conn[c] \in {"new", "backlog"} \/ c \in Pending \/ c = mainFd => replies[c] = <<>>
    /\ \A c \in Pending : kind[c] # "control"
    /\ main = "enqueue" => kind[mainFd] # "control"
    /\ workerFd # NoClient => kind[workerFd] # "control"
    /\ worker = "handle" => replies[workerFd] = <<>>
    /\ worker = "setup" => kind[workerFd] = "stream" /\ replies[workerFd] = <<"200">>
    /\ worker = "generate" =>
          replies[workerFd] = IF kind[workerFd] = "chat" THEN <<>> ELSE <<"200">>
    /\ worker = "close" => Answered(workerFd)

\* Nothing has been sent.
LEMMA AnswersInit == Init => Answers
<1>1. Init => Pending = {}
  BY DEF Init, Pending
<1> QED
  BY <1>1, ServerAssumption DEF Init, Answers

\* Only the owner of a descriptor writes to it, and what it writes completes
\* what was sent before.
LEMMA AnswersNext == TypeOK /\ TypeOK' /\ Owned /\ Answers /\ [Next]_vars => Answers'
<1> SUFFICES ASSUME TypeOK, TypeOK', Owned, Answers, [Next]_vars PROVE Answers'
  OBVIOUS
<1> USE ServerAssumption
<1> USE DEF peers, signals, mainVars, queueVars, workerVars, NotifyOne
<1>0. \A status : Append(<<>>, status) = <<status>> /\ Len(<<status>>) = 1
  OBVIOUS
<1>1. kind' = kind /\ \A c \in Client : Cancelled(c) => Cancelled(c)'
  BY DEF Next, MainStep, WorkerStep, Connect, Disconnect, SignalFlag, SignalWake,
     CheckFlag, PollWoken, Accept, ReadFails, AnswerControl, ReadChat, Enqueue,
     RejectBusy, Notify, Drain, NotifyStop, CloseListen, Join, Dequeue, Sleep,
     WorkerExit, SpuriousWake, Reject, Cancel, TokenizeThrows, StartChat,
     StartStream, SetUp, SetUpThrows, ChatCompletes, StreamCompletes,
     CloseHandled, Handler, vars, Cancelled
<1>2. ASSUME NEW c \in Client, replies'[c] = replies[c], Answered(c) PROVE Answered(c)'
  BY <1>1, <1>2 DEF Answered
<1>3. /\ mainFd # NoClient => mainFd \in Client
      /\ workerFd # NoClient => workerFd \in Client
      /\ Pending \subseteq Client /\ Pending' \subseteq Client
  BY DEF TypeOK, Pending
<1>4. workerFd # NoClient =>
        workerFd # mainFd /\ workerFd \notin Pending /\ conn[workerFd] = "open"
  BY <1>3 DEF Owned
<1>5. ASSUME UNCHANGED <<replies, worker, workerFd>>,
             \A c \in Client : conn'[c] = "closed" => conn[c] = "closed",
             \A c \in Client :
                 conn'[c] \in {"new", "backlog"} \/ c \in Pending' \/ c = mainFd' =>
                     conn[c] \in {"new", "backlog"} \/ c \in Pending \/ c = mainFd,
             Pending' \subseteq Pending \cup (IF main = "enqueue" THEN {mainFd} ELSE {}),
             main' = "enqueue" => main = "enqueue" /\ mainFd' = mainFd
      PROVE  Answers'
  <2>1. \A c \in Client : conn'[c] = "closed" => Answered(c)'
    BY <1>2, <1>5 DEF Answers
  <2>2. \A c \in Client :
           conn'[c] \in {"new", "backlog"} \/ c \in Pending' \/ c = mainFd' => replies'[c] = <<>>
    BY <1>5 DEF Answers
  <2>3. /\ \A c \in Pending' : kind'[c] # "control"
        /\ main' = "enqueue" => kind'[mainFd'] # "control"
    BY <1>1, <1>5 DEF Answers
  <2>4. /\ workerFd' # NoClient => kind'[workerFd'] # "control"
        /\ worker' = "handle" => replies'[workerFd'] = <<>>
        /\ worker' = "setup" => kind'[workerFd'] = "stream" /\ replies'[workerFd'] = <<"200">>
        /\ worker' = "generate" =>
              replies'[workerFd'] = IF kind'[workerFd'] = "chat" THEN <<>> ELSE <<"200">>
    BY <1>1, <1>5 DEF Answers
  <2>5. worker' = "close" => Answered(workerFd)' 
    <3>1. worker = "close" => workerFd \in Client /\ Answered(workerFd)
      BY DEF Answers, TypeOK
    <3>2. workerFd \in Client /\ Answered(workerFd) => Answered(workerFd)'
      BY <1>1, <1>5 DEF Answered
    <3> QED
      BY <1>5, <3>1, <3>2
  <2> QED
    BY <2>1, <2>2, <2>3, <2>4, <2>5 DEF Answers
<1>6. CASE \/ \E c \in Client : Connect(c) \/ Disconnect(c)
           \/ SignalFlag \/ SignalWake \/ CheckFlag \/ PollWoken
           \/ Join \/ UNCHANGED vars
  BY <1>5, <1>6 DEF Connect, Disconnect, SignalFlag, SignalWake, CheckFlag, PollWoken,
     Join, vars, TypeOK, Pending
<1>7. CASE Accept
  <2>1. Head(backlog) \in Client /\ conn[Head(backlog)] = "backlog"
    BY <1>7, TailType DEF Accept, Owned, TypeOK, Among
  <2> QED
    BY <1>5, <1>7, <2>1 DEF Accept, TypeOK, Pending
<1>8. CASE ReadFails \/ AnswerControl \/ RejectBusy
  <2>1. /\ mainFd \in Client /\ mainFd' = NoClient /\ main' = "loop"
        /\ conn' = [conn EXCEPT ![mainFd] = "closed"]
        /\ \E status \in Status : replies' = [replies EXCEPT ![mainFd] = Append(@, status)]
        /\ UNCHANGED <<pending, worker, workerFd>>
    BY <1>8 DEF ReadFails, AnswerControl, RejectBusy, AnswerInHand, Write, Close,
       TypeOK, Status
  <2>2. replies[mainFd] = <<>>
    BY <2>1 DEF Answers
  <2>3. ASSUME NEW c \in Client, c = mainFd PROVE Answered(c)'
    <3>1. Len(replies'[c]) = 1
      BY <1>0, <2>1, <2>2, <2>3 DEF TypeOK
    <3> QED
      BY <3>1 DEF Answered
  <2>4. mainFd \notin Pending /\ mainFd # workerFd /\ conn[mainFd] = "open"
    BY <2>1 DEF Owned
  <2>5. Pending' = Pending
    BY <2>1 DEF Pending
  <2>6. \A c \in Client : c # mainFd => replies'[c] = replies[c] /\ conn'[c] = conn[c]
    BY <2>1 DEF TypeOK
  <2>7. NoClient \notin Client
    BY DEF ServerAssumption
  <2> QED
    BY <1>1, <1>2, <1>3, <2>1, <2>3, <2>4, <2>5, <2>6, <2>7 DEF Answers, TypeOK
<1>9. CASE ReadChat
  <2>1. /\ UNCHANGED <<conn, replies, kind, mainFd, worker, workerFd>> /\ Pending' = Pending
        /\ kind[mainFd] # "control"
    BY <1>9 DEF ReadChat, Pending
  <2>2. \A c \in Client : Answered(c) => Answered(c)'
    BY <1>2, <2>1
  <2> QED
    BY <1>3, <2>1, <2>2 DEF Answers, TypeOK
<1>10. CASE Enqueue
  <2>1. Pending' = Pending \cup {mainFd} /\ mainFd \in Client
    <3>1. mainFd \in Client /\ pending \in Seq(Client) /\ pending' = Append(pending, mainFd)
      BY <1>10 DEF Enqueue, TypeOK
    <3>2. Among(pending') = Among(pending) \cup {mainFd}
      BY <3>1, AppendOnce
    <3> QED
      BY <3>1, <3>2 DEF Pending, Among
  <2> QED
    BY <1>5, <1>10, <2>1 DEF Enqueue, TypeOK
<1>11. CASE Drain
  <2>1. Pending' = {} /\ mainFd = NoClient /\ mainFd' = NoClient /\ main' = "notifyStop"
    BY <1>11 DEF Drain, Pending, TypeOK
  <2>2. ASSUME NEW c \in Client, c \in Pending
        PROVE  Answered(c)'
    <3>1. replies[c] = <<>>
      BY <2>2 DEF Answers
    <3>2. replies'[c] = Append(replies[c], "503")
      BY <1>11, <2>2 DEF Drain
    <3> QED
      BY <3>1, <3>2 DEF Answered
  <2>3. ASSUME NEW c \in Client, c \notin Pending
        PROVE  replies'[c] = replies[c] /\ conn'[c] = conn[c]
    BY <1>11, <2>3 DEF Drain
  <2>4. UNCHANGED <<worker, workerFd>>
    BY <1>11 DEF Drain
  <2>5. \A c \in Pending : conn'[c] = "closed"
    BY <1>3, <1>11 DEF Drain
  <2> QED
    BY <1>1, <1>2, <1>3, <1>4, <2>1, <2>2, <2>3, <2>4, <2>5 DEF Answers, TypeOK
<1>12. CASE CloseListen
  BY <1>5, <1>12 DEF CloseListen, TypeOK, Pending
<1>13. CASE Notify \/ NotifyStop \/ Sleep \/ WorkerExit \/ SpuriousWake
  BY <1>1, <1>2, <1>3, <1>13
  DEF Notify, NotifyStop, Sleep, WorkerExit, SpuriousWake, Answers, Pending, TypeOK
<1>14. CASE Dequeue
  <2>1. workerFd' \in Pending /\ Pending' \subseteq Pending
    BY <1>14, TailType DEF Dequeue, Pending, TypeOK
  <2>2. /\ worker' = "handle"
        /\ UNCHANGED <<conn, replies, main, mainFd>>
    BY <1>14 DEF Dequeue
  <2> QED
    BY <1>1, <1>2, <1>3, <2>1, <2>2 DEF Answers
<1>15. ASSUME NEW from, NEW to, Handler(from, to), workerFd \in Client,
              to \in {"setup", "generate", "close"},
              to = "setup" => kind[workerFd] = "stream" /\ replies'[workerFd] = <<"200">>,
              to = "generate" =>
                  replies'[workerFd] = IF kind[workerFd] = "chat" THEN <<>> ELSE <<"200">>,
              to = "close" => Answered(workerFd)',
              \A c \in Client : c # workerFd => replies'[c] = replies[c]
       PROVE  Answers'
  <2>1. /\ UNCHANGED <<conn, main, mainFd, workerFd>> /\ Pending' = Pending
        /\ worker' = to
    BY <1>15 DEF Handler, Pending
  <2> QED
    BY <1>1, <1>2, <1>3, <1>4, <1>15, <2>1 DEF Answers
<1>16. ASSUME NEW status \in Status, Write(workerFd, status), workerFd \in Client
       PROVE  /\ \A c \in Client : c # workerFd => replies'[c] = replies[c]
              /\ replies'[workerFd] = Append(replies[workerFd], status)
  BY <1>16 DEF Write, TypeOK
<1>17. worker \in {"handle", "setup", "generate", "close"} => workerFd \in Client
  BY DEF TypeOK
<1>18. CASE Reject \/ TokenizeThrows
  <2>1. Handler("handle", "close") /\ workerFd \in Client /\ replies[workerFd] = <<>>
    BY <1>17, <1>18 DEF Reject, TokenizeThrows, Handler, Answers
  <2>2. /\ \A c \in Client : c # workerFd => replies'[c] = replies[c]
        /\ Len(replies'[workerFd]) = 1
    BY <1>0, <1>16, <1>18, <2>1 DEF Reject, TokenizeThrows, Status
  <2>3. Answered(workerFd)'
    BY <2>1, <2>2 DEF Answered, Handler
  <2> QED
    BY <1>15, <2>1, <2>2, <2>3
<1>19. CASE Cancel
  <2>1. /\ Handler("handle", "close") /\ workerFd \in Client
        /\ replies[workerFd] = <<>> /\ replies' = replies
        /\ Cancelled(workerFd)
    BY <1>17, <1>19 DEF Cancel, Handler, Answers
  <2>2. Answered(workerFd)'
    BY <1>2, <2>1 DEF Answered, Handler
  <2> QED
    BY <1>15, <2>1, <2>2
<1>20. CASE StartChat
  <2>1. /\ Handler("handle", "generate") /\ workerFd \in Client
        /\ kind[workerFd] = "chat"
        /\ replies[workerFd] = <<>> /\ replies' = replies
    BY <1>17, <1>20 DEF StartChat, Handler, Answers
  <2> QED
    BY <1>15, <2>1
<1>21. CASE StartStream
  <2>1. /\ Handler("handle", "setup") /\ workerFd \in Client
        /\ kind[workerFd] = "stream" /\ Write(workerFd, "200")
        /\ replies[workerFd] = <<>>
    BY <1>17, <1>21 DEF StartStream, Handler, Answers
  <2>2. /\ \A c \in Client : c # workerFd => replies'[c] = replies[c]
        /\ replies'[workerFd] = <<"200">>
    BY <1>16, <2>1 DEF Status
  <2> QED
    BY <1>15, <2>1, <2>2
<1>22. CASE SetUp
  <2>1. /\ Handler("setup", "generate") /\ workerFd \in Client
        /\ kind[workerFd] = "stream"
        /\ replies[workerFd] = <<"200">> /\ replies' = replies
    BY <1>17, <1>22 DEF SetUp, Handler, Answers
  <2> QED
    BY <1>15, <2>1
<1>23. CASE SetUpThrows
  <2>1. /\ Handler("setup", "close") /\ workerFd \in Client
        /\ kind[workerFd] = "stream" /\ Write(workerFd, "500")
        /\ replies[workerFd] = <<"200">>
    BY <1>17, <1>23 DEF SetUpThrows, Handler, Answers
  <2>2. /\ \A c \in Client : c # workerFd => replies'[c] = replies[c]
        /\ replies'[workerFd] = <<"200", "500">>
    BY <1>16, <2>1 DEF Status
  <2>3. Answered(workerFd)'
    BY <1>1, <2>1, <2>2 DEF Answered, Handler
  <2> QED
    BY <1>15, <2>1, <2>2, <2>3
<1>24. CASE ChatCompletes
  <2>1. /\ Handler("generate", "close") /\ workerFd \in Client
        /\ kind[workerFd] = "chat" /\ replies[workerFd] = <<>>
    BY <1>17, <1>24 DEF ChatCompletes, Handler, Answers
  <2>2. /\ \A c \in Client : c # workerFd => replies'[c] = replies[c]
        /\ Len(replies'[workerFd]) = 1
    BY <1>0, <1>16, <1>24, <2>1 DEF ChatCompletes, Status
  <2>3. Answered(workerFd)'
    BY <2>1, <2>2 DEF Answered, Handler
  <2> QED
    BY <1>15, <2>1, <2>2, <2>3
<1>25. CASE StreamCompletes
  <2>1. /\ Handler("generate", "close") /\ workerFd \in Client
        /\ kind[workerFd] = "stream" /\ replies[workerFd] = <<"200">>
        /\ replies' = replies
    BY <1>17, <1>25 DEF StreamCompletes, Handler, Answers
  <2>2. Answered(workerFd)'
    BY <2>1 DEF Answered, Handler
  <2> QED
    BY <1>15, <2>1, <2>2
<1>26. CASE CloseHandled
  <2>1. /\ workerFd \in Client /\ Answered(workerFd)
        /\ worker' = "check" /\ workerFd' = NoClient
        /\ UNCHANGED <<replies, main, mainFd>> /\ Pending' = Pending
        /\ conn' = [conn EXCEPT ![workerFd] = "closed"]
    BY <1>17, <1>26 DEF CloseHandled, Answers, Close, Pending
  <2> QED
    BY <1>1, <1>2, <1>3, <2>1 DEF Answers, TypeOK
<1> QED
  BY <1>6, <1>7, <1>8, <1>9, <1>10, <1>11, <1>12, <1>13, <1>14, <1>18, <1>19, <1>20,
     <1>21, <1>22, <1>23, <1>24, <1>25, <1>26
  DEF Next, MainStep, WorkerStep

-----------------------------------------------------------------------------
\* The inductive invariant.
ServerInv == TypeOK /\ Owned /\ Numbered /\ Answers

\* Every reachable state satisfies it.
LEMMA ServerInvariant == Spec => []ServerInv
<1>1. Init => ServerInv
  BY TypeInit, OwnedInit, NumberedInit, AnswersInit DEF ServerInv
<1>2. ServerInv /\ [Next]_vars => ServerInv'
  BY TypeNext, OwnedNext, NumberedNext, AnswersNext DEF ServerInv
<1> QED
  BY <1>1, <1>2, PTL DEF Spec

\* Every variable keeps its type, and the queue its capacity.
THEOREM ServerTypeCorrect == Spec => []TypeOK
<1>1. ServerInv => TypeOK
  BY DEF ServerInv
<1> QED
  BY <1>1, ServerInvariant, PTL

\* A descriptor is held by exactly one of the main thread, the queue and the
\* worker while it is open, and by none after.
THEOREM OwnershipCorrect == Spec => []OneOwner
<1>1. ASSUME ServerInv, NEW c \in Client
      PROVE  Owners(c) = IF conn[c] = "open" THEN 1 ELSE 0
  <2> DEFINE Places == {i \in DOMAIN pending : pending[i] = c}
  <2>1. CASE c \in Pending
    <3>1. PICK i \in DOMAIN pending : pending[i] = c
      BY <2>1 DEF Pending
    <3>2. Places = {i}
      BY <1>1, <3>1 DEF ServerInv, Owned, OnlyOnce
    <3>3. Cardinality(Places) = 1
      BY <3>2, FS_Singleton
    <3> QED
      BY <1>1, <2>1, <3>3 DEF Owners, ServerInv, Owned
  <2>2. CASE c \notin Pending
    <3>1. Places = {}
      BY <2>2 DEF Pending
    <3>2. Cardinality(Places) = 0
      BY <3>1, FS_EmptySet
    <3>3. c # NoClient
      BY ServerAssumption DEF ServerAssumption
    <3> QED
      BY <1>1, <2>2, <3>2, <3>3 DEF Owners, ServerInv, Owned
  <2> QED
    BY <2>1, <2>2
<1>2. ServerInv => OneOwner
  BY <1>1 DEF OneOwner
<1> QED
  BY <1>2, ServerInvariant, PTL

\* Every closed connection was answered as handle_request() promises.
THEOREM AnswersCorrect == Spec => []AnsweredOnce
<1>1. ServerInv => AnsweredOnce
  BY DEF ServerInv, Answers, Answered, AnsweredOnce
<1> QED
  BY <1>1, ServerInvariant, PTL

\* Requests are run in the order in which they were read.
THEOREM OrderCorrect == Spec => []FirstComeFirstServed
<1>1. ServerInv => FirstComeFirstServed
  BY DEF ServerInv, Numbered
<1> QED
  BY <1>1, ServerInvariant, PTL

=============================================================================
