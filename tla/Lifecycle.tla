----------------------------- MODULE Lifecycle -----------------------------
(***************************************************************************)
(* How the threads of the exchange and of the client are started and their *)
(* objects destroyed, each with its logger: constructors, start(), stop()  *)
(* and destructors of MatchingEngine, MarketDataPublisher,                 *)
(* SnapshotSynthesizer, OrderServer, OrderGateway and MarketDataConsumer,  *)
(* against the loops of run().                                             *)
(*                                                                         *)
(* A component's thread is never joined: its destructor clears run_,       *)
(* sleeps, and takes the thread to have ended.  A pause is modelled as the *)
(* turns every thread it is for is sure to get meanwhile.                  *)
(*                                                                         *)
(* The files of the two main() functions are empty; a member of Programs   *)
(* stands for the calls one makes.  What a message says is left out, and a *)
(* queue is the number of its messages.                                    *)
(***************************************************************************)
EXTENDS Integers, SequencesExt

CONSTANTS
    Programs,       \* what a main() does: statements from those defined below
    Logged,         \* the components whose loggers are looked at
    PauseTurns,     \* the turns a thread gets while a destructor sleeps
    Line,           \* the line, a format and arguments, that a thread logs
                    \* when it begins and for each message
    BookLines,      \* the lines a book may log when it is destroyed
    MaxRequests,    \* most requests, or datagrams, that come in
    MaxUpdates,     \* most market updates of one request
    Percent, Invalid

Components == {"server", "engine", "publisher", "synthesizer", "gateway", "consumer"}

ASSUME LifecycleAssumption ==
    /\ Logged \subseteq Components
    /\ PauseTurns \in [Components -> Nat]
    /\ MaxRequests \in Nat
    /\ MaxUpdates \in Nat

VARIABLES
    todo,           \* the statements main() has yet to do
    run_, thread, inbox,
    object,         \* "alive", "dying" in a destructor past its pause, "gone"
    turns,          \* taken by each thread since the pause began
    requests,       \* come in so far
    process,        \* "running", or "fatal" after FATAL
    lines,          \* what has been logged
    queue_, file_, running_, writer

L == INSTANCE Logger WITH Loggers <- Logged

owner == <<todo, object>>
loggers == <<lines, queue_, file_, running_, writer>>
vars == <<owner, run_, thread, inbox, turns, requests, process, loggers>>
----------------------------------------------------------------------------
(* The statements of constructors, start() and destructors.                *)

\* createAndStartThread: new std::thread, which refers to the caller's
\* arguments, and a second's sleep.
CreateAndStartThread(c) == << <<"create", c>>, <<"await", c>> >>
NewLogger(c) == IF c \in Logged THEN << <<"open", c>>, <<"awaitWriter", c>> >> ELSE <<>>
\* Defects: a destructor that clears running_ too early, or does not wait.
DeleteLoggerAtOnce(c) ==
    (IF c \in Logged
       THEN << <<"clearRunning", c>>, <<"awaitQueue", c>>, <<"join", c>> >> ELSE <<>>)
    \o << <<"free", c>> >>
DeleteLoggerHastily(c) ==
    (IF c \in Logged THEN << <<"clearRunning", c>>, <<"join", c>> >> ELSE <<>>)
    \o << <<"free", c>> >>

DeleteLogger(c) ==
    (IF c \in Logged
       THEN << <<"awaitQueue", c>>, <<"clearRunning", c>>, <<"join", c>> >> ELSE <<>>)
    \o << <<"free", c>> >>

NewMatchingEngine == NewLogger("engine")
StartMatchingEngine == << <<"run", "engine">> >> \o CreateAndStartThread("engine")
DeleteMatchingEngine ==
    << <<"stop", "engine">>, <<"pause", "engine">>, <<"deleteBooks", "engine">> >>
        \o DeleteLogger("engine")

NewOrderServer == NewLogger("server")
StartOrderServer == << <<"run", "server">> >> \o CreateAndStartThread("server")
DeleteOrderServer ==
    << <<"stop", "server">>, <<"pause", "server">> >> \o DeleteLogger("server")

StartSnapshotSynthesizer ==
    << <<"run", "synthesizer">> >> \o CreateAndStartThread("synthesizer")
DeleteSnapshotSynthesizer == << <<"stop", "synthesizer">> >> \o DeleteLogger("synthesizer")

NewMarketDataPublisher == NewLogger("publisher") \o NewLogger("synthesizer")
StartMarketDataPublisher ==
    << <<"run", "publisher">> >> \o CreateAndStartThread("publisher")
        \o StartSnapshotSynthesizer
\* Defect: a stop() that forgets the synthesizer.
StopPublisherOnly == << <<"stop", "publisher">> >>
StopMarketDataPublisher == << <<"stop", "publisher">>, <<"stop", "synthesizer">> >>
DeleteMarketDataPublisher ==
    StopMarketDataPublisher \o << <<"pause", "publisher">> >>
        \o DeleteSnapshotSynthesizer \o DeleteLogger("publisher")

NewOrderGateway == NewLogger("gateway")
StartOrderGateway == << <<"run", "gateway">> >> \o CreateAndStartThread("gateway")
DeleteOrderGateway ==
    << <<"stop", "gateway">>, <<"pause", "gateway">> >> \o DeleteLogger("gateway")

NewMarketDataConsumer == NewLogger("consumer")
StartMarketDataConsumer == << <<"run", "consumer">> >> \o CreateAndStartThread("consumer")
DeleteMarketDataConsumer ==
    << <<"stop", "consumer">>, <<"pause", "consumer">> >> \o DeleteLogger("consumer")

\* The exchange and a client, whose producers are destroyed before their
\* consumers.
Exchange ==
    NewOrderServer \o NewMatchingEngine \o NewMarketDataPublisher
        \o StartMarketDataPublisher \o StartMatchingEngine \o StartOrderServer
        \o DeleteOrderServer \o DeleteMatchingEngine \o DeleteMarketDataPublisher
Client ==
    NewOrderGateway \o NewMarketDataConsumer
        \o StartMarketDataConsumer \o StartOrderGateway
        \o DeleteOrderGateway \o DeleteMarketDataConsumer
----------------------------------------------------------------------------
Init ==
    /\ todo \in Programs
    /\ run_ = [c \in Components |-> FALSE]
    /\ thread = [c \in Components |-> "none"]
    /\ inbox = [c \in Components |-> 0]
    /\ object = [c \in Components |-> "alive"]
    /\ turns = [c \in Components |-> 0]
    /\ requests = 0
    /\ process = "running"
    /\ lines = [c \in Logged |-> <<>>]
    /\ L!Init

\* main() is at the statement <<call, c>>, and does it.
At(call, c) ==
    /\ process = "running"
    /\ todo # <<>>
    /\ Head(todo) = <<call, c>>
    /\ todo' = Tail(todo)

\* logger_.log(...) with the given line.
LogLine(c, line) ==
    LET elements == L!Log(line.format, line.args) IN
    IF c \notin Logged THEN UNCHANGED <<process, loggers>> ELSE
    /\ lines' = [lines EXCEPT ![c] = Append(@, line)]
    /\ IF L!Fatal(elements)
         THEN process' = "fatal" /\ UNCHANGED queue_
         ELSE L!PushValues(c, elements) /\ UNCHANGED process
    /\ UNCHANGED <<file_, running_, writer>>

Ended(c) == thread[c] \in {"none", "ended"}
----------------------------------------------------------------------------
(* main()'s statements.                                                    *)

Rest == <<run_, thread, inbox, turns, requests, process>>

OpenLogger(c) == At("open", c) /\ L!Open(c) /\ UNCHANGED <<object, lines, Rest>>

SetRun(c) ==
    /\ At("run", c)
    /\ run_' = [run_ EXCEPT ![c] = TRUE]
    /\ UNCHANGED <<object, thread, inbox, turns, requests, process, loggers>>

Create(c) ==
    /\ At("create", c)
    /\ thread' = [thread EXCEPT ![c] = "created"]
    /\ UNCHANGED <<object, run_, inbox, turns, requests, process, loggers>>

\* A statement that only waits, or sleeps for what it takes the time to be
\* enough for: a new thread to begin.
Await(call, c, condition) == At(call, c) /\ condition /\ UNCHANGED <<object, Rest, loggers>>

AwaitWriter(c) == Await("awaitWriter", c, writer[c] # "created")
AwaitThread(c) == Await("await", c, thread[c] # "created")

\* The synthesizer's own destructor has no pause: its members go at once.
Stop(c) ==
    /\ At("stop", c)
    /\ run_' = [run_ EXCEPT ![c] = FALSE]
    /\ object' = IF c = "synthesizer" /\ object["publisher"] = "dying"
                   THEN [object EXCEPT ![c] = "dying"] ELSE object
    /\ UNCHANGED <<thread, inbox, turns, requests, process, loggers>>

\* The threads a destructor's pause is for.
MeantFor(c) == IF c = "publisher" THEN {c, "synthesizer"} ELSE {c}

\* The pause is over when each of them has ended or has had its turns.  The
\* members are destroyed next.
Pause(c) ==
    /\ At("pause", c)
    /\ \A d \in MeantFor(c) : Ended(d) \/ turns[d] >= PauseTurns[c]
    /\ object' = [object EXCEPT ![c] = "dying"]
    /\ turns' = [d \in Components |-> 0]
    /\ UNCHANGED <<run_, thread, inbox, requests, process, loggers>>

\* ~MEOrderBook of every book logs what is left in it.
DeleteBooks ==
    /\ At("deleteBooks", "engine")
    /\ \E line \in BookLines : LogLine("engine", line)
    /\ UNCHANGED <<object, run_, thread, inbox, turns, requests>>

AwaitQueue(c) == Await("awaitQueue", c, L!QueueEmpty(c))
Join(c) == Await("join", c, writer[c] = "ended")

ClearRunning(c) ==
    At("clearRunning", c) /\ L!ClearRunning(c) /\ UNCHANGED <<object, lines, Rest>>

\* The other members.
Free(c) ==
    /\ At("free", c)
    /\ object' = [object EXCEPT ![c] = "gone"]
    /\ UNCHANGED <<Rest, loggers>>

Owner ==
    \/ DeleteBooks
    \/ \E c \in Logged :
        OpenLogger(c) \/ AwaitWriter(c) \/ AwaitQueue(c) \/ ClearRunning(c) \/ Join(c)
    \/ \E c \in Components :
        SetRun(c) \/ Create(c) \/ AwaitThread(c) \/ Stop(c) \/ Pause(c) \/ Free(c)
----------------------------------------------------------------------------
(* The threads.                                                            *)

\* A turn of a thread; it counts when main() sleeps for that thread to end.
Turn(c) ==
    /\ process = "running"
    /\ turns' = IF /\ todo # <<>>
                  /\ Head(todo)[1] = "pause"
                  /\ c \in MeantFor(Head(todo)[2])
                  /\ turns[c] < PauseTurns[Head(todo)[2]]
                 THEN [turns EXCEPT ![c] = @ + 1] ELSE turns
    /\ UNCHANGED owner

Begin(c) ==
    /\ thread[c] = "created"
    /\ Turn(c)
    /\ thread' = [thread EXCEPT ![c] = "looking"]
    /\ LogLine(c, Line)
    /\ UNCHANGED <<run_, inbox, requests>>

\* while (run_).  The server's loop begins with poll(), which may put a client's
\* request in the engine's queue.
LookAtRun(c) ==
    /\ thread[c] = "looking"
    /\ Turn(c)
    /\ thread' = [thread EXCEPT ![c] = IF run_[c] THEN "serving" ELSE "ended"]
    /\ \E new \in (IF c = "server" /\ run_[c] /\ requests < MaxRequests
                     THEN {0, 1} ELSE {0}) :
          /\ requests' = requests + new
          /\ inbox' = [inbox EXCEPT !["engine"] = @ + new]
    /\ UNCHANGED <<run_, process, loggers>>

\* getNextToRead().  Defect: a queue that is read whatever its size.
ReadAnyway(c) == TRUE
Readable(c) == inbox[c] > 0

\* Nothing to read: the rest of the loop's body, and back to while (run_).
Idle(c) ==
    /\ thread[c] = "serving"
    /\ ~Readable(c)
    /\ Turn(c)
    /\ thread' = [thread EXCEPT ![c] = "looking"]
    /\ UNCHANGED <<run_, inbox, requests, process, loggers>>

Nothing == [d \in Components |-> 0]

\* A message is logged and handled; sends[d] is how many of its own go to d.
Serve(c, next, sends) ==
    /\ thread[c] = "serving"
    /\ Readable(c)
    /\ Turn(c)
    /\ thread' = [thread EXCEPT ![c] = next]
    /\ LogLine(c, Line)
    /\ inbox' = [d \in Components |->
                    inbox[d] + sends[d] - (IF d = c THEN 1 ELSE 0)]
    /\ UNCHANGED <<run_, requests>>

\* MatchingEngine::run looks at run_ before every request; a request is
\* answered, and may change the book.
EngineTurn ==
    \/ Idle("engine")
    \/ \E updates \in 0 .. MaxUpdates :
          Serve("engine", "looking",
                [Nothing EXCEPT !["server"] = 1, !["publisher"] = updates])

\* The consumer's reads each of its sockets once.
ConsumerTurn == Idle("consumer") \/ Serve("consumer", "looking", Nothing)

\* The others empty their queue before they look.
PublisherTurn ==
    \/ Idle("publisher")
    \/ Serve("publisher", "serving", [Nothing EXCEPT !["synthesizer"] = 1])
SynthesizerTurn == Idle("synthesizer") \/ Serve("synthesizer", "serving", Nothing)
ServerTurn == Idle("server") \/ Serve("server", "serving", Nothing)
GatewayTurn == Idle("gateway") \/ Serve("gateway", "serving", Nothing)

\* A request of the strategy, or a datagram.
Arrive(c) ==
    /\ process = "running"
    /\ thread[c] # "none"
    /\ requests < MaxRequests
    /\ requests' = requests + 1
    /\ inbox' = [inbox EXCEPT ![c] = @ + 1]
    /\ UNCHANGED <<owner, run_, thread, turns, process, loggers>>

Writer(c) ==
    /\ process = "running"
    /\ L!FlushQueue(c)
    /\ UNCHANGED <<owner, run_, thread, inbox, turns, requests, process, lines>>

Thread(c) ==
    \/ Begin(c) \/ LookAtRun(c)
    \/ c = "engine" /\ EngineTurn
    \/ c = "publisher" /\ PublisherTurn
    \/ c = "synthesizer" /\ SynthesizerTurn
    \/ c = "server" /\ ServerTurn
    \/ c = "gateway" /\ GatewayTurn
    \/ c = "consumer" /\ ConsumerTurn

Next ==
    \/ Owner
    \/ \E c \in Components : Thread(c)
    \/ \E c \in Logged : Writer(c)
    \/ \E c \in {"gateway", "consumer"} : Arrive(c)

\* Every thread of the process is scheduled: the polling loops, the loggers'
\* writers and main().  Nobody has to send a request.
Fairness ==
    /\ WF_vars(Owner)
    /\ \A c \in Components : WF_vars(Thread(c))
    /\ \A c \in Logged : WF_vars(Writer(c))

Spec == Init /\ [][Next]_vars /\ Fairness
----------------------------------------------------------------------------
TypeOK ==
    /\ run_ \in [Components -> BOOLEAN]
    /\ thread \in [Components -> {"none", "created", "looking", "serving", "ended"}]
    /\ inbox \in [Components -> 0 .. MaxRequests * (MaxUpdates + 1)]
    /\ object \in [Components -> {"alive", "dying", "gone"}]
    /\ \A c \in Components :
          turns[c] <= PauseTurns[IF c = "synthesizer" THEN "publisher" ELSE c]
    /\ requests \in 0 .. MaxRequests
    /\ process \in {"running", "fatal"}
    /\ writer \in [Logged -> {"none", "created", "looking", "draining", "ended"}]
    /\ running_ \in [Logged -> BOOLEAN]

\* No thread outlives what it uses: when the members of a component are
\* destroyed its thread has ended, when its logger is gone so has the writer,
\* and createAndStartThread does not return, its arguments with it, before the
\* thread has begun.
NothingDangles ==
    \A c \in Components :
        /\ object[c] \in {"dying", "gone"} => Ended(c)
        /\ thread[c] = "created" => Head(todo) = <<"await", c>>
        /\ c \in Logged =>
              /\ object[c] = "gone" => writer[c] = "ended"
              /\ writer[c] = "created" => Head(todo) = <<"awaitWriter", c>>

\* What is logged is written: a logger that is gone has written every line, in
\* order and as its format and arguments say; and log() ends the process for a
\* line with more or fewer places than arguments, and for no other.
LoggedIsWritten ==
    LET Matches(line) == L!Matches(line.format, line.args)
        Rendering(line) == L!Rendering(line.format, line.args)
    IN  /\ \A c \in Logged : object[c] = "gone" =>
              file_[c] = FlattenSeq([i \in DOMAIN lines[c] |-> Rendering(lines[c][i])])
        /\ process = "fatal" <=>
              \E c \in Logged : \E i \in DOMAIN lines[c] : ~Matches(lines[c][i])

\* main() gets to its end, destructors included, unless log() ends the process.
ShutdownCompletes == <>(todo = <<>> \/ process = "fatal")
=============================================================================
