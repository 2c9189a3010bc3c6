---------------------------- MODULE ThreadServer ----------------------------
(***************************************************************************)
(* One server process: ThreadServer_t (threadserver.cc) as main() drives   *)
(* it, composed with its listeners and its handlers.  The main thread      *)
(* creates the workers, runs the listeners and the io thread, polls the    *)
(* flag the signal handler clears, and takes everything down again in      *)
(* stop().  A listener hands a connection to its handler on the io thread. *)
(***************************************************************************)
EXTENDS Naturals, Sequences, FiniteSets

CONSTANTS
    Handlers, WorkerCount, Conns, NoConn,   \* see Handler
    Listeners, Forbids, Fragile, MaxErrors, \* see Listener
    HandlerOf,      \* HandlerOf[l]: the handler setHandler() gave to l
    HandlerOrder,   \* handlerMap in its iteration order
    ListenerOrder,  \* listenerMap in its iteration order
    RunMayThrow,    \* listeners whose run() may fail: the port is taken
    StartMayThrow   \* handlers whose createWorker() may throw

ASSUME HandlerOfAssumption == HandlerOf \in [Listeners -> Handlers]
ASSUME OrderAssumption ==
    /\ HandlerOrder \in Seq(Handlers) /\ ListenerOrder \in Seq(Listeners)
    /\ {HandlerOrder[i] : i \in DOMAIN HandlerOrder} = Handlers
    /\ Len(HandlerOrder) = Cardinality(Handlers)
    /\ {ListenerOrder[i] : i \in DOMAIN ListenerOrder} = Listeners
    /\ Len(ListenerOrder) = Cardinality(Listeners)
    /\ Handlers # {} /\ Listeners # {}

\* What Handler and Listener assume of the constants they share with it.
ASSUME HandlerAssumption == WorkerCount \in [Handlers -> Nat] /\ NoConn \notin Conns
ASSUME ListenerAssumption ==
    /\ Forbids \in [Listeners -> SUBSET Conns] /\ Fragile \subseteq Conns
    /\ {"canceled", "error", "none"} \cap Conns = {}
    /\ MaxErrors \in Nat

VARIABLES
    life, workQueue, pc, socket, joined, served, dropped,              \* Handler
    acceptor, athread, armed, ready, backlog, io, inHand, forbidden,
    delivered, refused, reported, errors,                              \* Listener
    mpc,        \* where the main thread is
    cur,        \* the position of its loop in HandlerOrder or ListenerOrder
    requested,  \* SIGTERM or SIGINT has arrived: the global run is false
    work,       \* the io_service::work object exists
    ioStopped,  \* io_service::stop() was called
    fault       \* "none", "terminate" or "useAfterFree": how the process was killed

H == INSTANCE Handler
L == INSTANCE Listener

hvars == <<life, workQueue, pc, socket, joined, served, dropped>>
lvars == <<acceptor, athread, armed, ready, backlog, io, inHand, forbidden,
           delivered, refused, reported, errors>>
mvars == <<mpc, cur, requested, work, ioStopped, fault>>
vars == <<hvars, lvars, mvars>>

StopPhases == <<"cancel", "close", "join", "deleteHandlers", "dropWork", "stopIo",
                "joinIo", "destroy", "exited">>
Stopping == {StopPhases[i] : i \in DOMAIN StopPhases}
FailPhases == {"unwind", "unwound", "failed"}
Phases == {"createWorkers", "startRun", "listen", "startIo", "poll"} \cup Stopping \cup FailPhases

TypeOK ==
    /\ H!TypeOK
    /\ L!TypeOK
    /\ mpc \in Phases
    /\ cur \in DOMAIN HandlerOrder \cup DOMAIN ListenerOrder
    /\ requested \in BOOLEAN
    /\ work \in BOOLEAN
    /\ ioStopped \in BOOLEAN
    /\ fault \in {"none", "terminate", "useAfterFree"}

Init == /\ H!Init
        /\ L!Init
        /\ mpc = "createWorkers"
        /\ cur = 1
        /\ requested = FALSE
        /\ work = FALSE
        /\ ioStopped = FALSE
        /\ fault = "none"

Running == fault = "none" /\ mpc \notin {"exited", "failed"}

\* The loop over order goes on to its next member, or to the phase after it.
Advance(order, after) ==
    IF cur < Len(order) THEN cur' = cur + 1 /\ UNCHANGED mpc
                        ELSE cur' = 1 /\ mpc' = after

Goto(here, there) == mpc = here /\ mpc' = there

-----------------------------------------------------------------------------
(* The main thread, up to the poll loop.                                   *)

CreateWorkers ==
    /\ mpc = "createWorkers"
    /\ H!CreateWorkers(HandlerOrder[cur])
    /\ Advance(HandlerOrder, "startRun")
    /\ UNCHANGED <<lvars, requested, work, ioStopped, fault>>

StartRun ==
    /\ Goto("startRun", "listen")
    /\ work' = TRUE
    /\ UNCHANGED <<hvars, lvars, cur, requested, ioStopped, fault>>

RunListener ==
    /\ mpc = "listen"
    /\ L!Run(ListenerOrder[cur])
    /\ Advance(ListenerOrder, "startIo")
    /\ UNCHANGED <<hvars, requested, work, ioStopped, fault>>

\* run() throws; main() unwinds past the server and returns 1.
RunThrows ==
    /\ Goto("listen", "unwind")
    /\ ListenerOrder[cur] \in RunMayThrow
    /\ UNCHANGED <<hvars, lvars, cur, requested, work, ioStopped, fault>>

StartIo ==
    /\ Goto("startIo", "poll")
    /\ L!IoStart
    /\ UNCHANGED <<hvars, cur, requested, work, ioStopped, fault>>

\* signalHandler(): any thread, at any time.
Signal ==
    /\ ~requested
    /\ requested' = TRUE
    /\ UNCHANGED <<hvars, lvars, mpc, cur, work, ioStopped, fault>>

-----------------------------------------------------------------------------
(* The main thread in stop() and after it.                                 *)

LeavePoll ==
    /\ Goto("poll", "cancel")
    /\ requested
    /\ UNCHANGED <<hvars, lvars, cur, requested, work, ioStopped, fault>>

CancelListener ==
    /\ Goto("cancel", "close")
    /\ L!Cancel(ListenerOrder[cur])
    /\ UNCHANGED <<hvars, cur, requested, work, ioStopped, fault>>

CloseListener ==
    /\ Goto("close", "join")
    /\ L!Close(ListenerOrder[cur])
    /\ UNCHANGED <<hvars, cur, requested, work, ioStopped, fault>>

\* Listener_t::stop() returns; the loop takes the next listener.
JoinListener ==
    /\ mpc = "join"
    /\ L!Join(ListenerOrder[cur])
    /\ IF cur < Len(ListenerOrder) THEN cur' = cur + 1 /\ mpc' = "cancel"
                                   ELSE cur' = 1 /\ mpc' = "deleteHandlers"
    /\ UNCHANGED <<hvars, requested, work, ioStopped, fault>>

\* Mutation: the workers are waited for, with timed joins, and never told to
\* finish.
DeleteHandlerUnfinished ==
    /\ mpc = "deleteHandlers"
    /\ LET h == HandlerOrder[cur]
       IN  IF \A w \in H!Pool(h) : pc[w] = "done"
           THEN H!Delete(h) /\ Advance(HandlerOrder, "dropWork")
                /\ UNCHANGED <<lvars, requested, work, ioStopped, fault>>
           ELSE UNCHANGED vars

\* delete handler: its destructor calls destroyWorkers().
DeleteHandler ==
    /\ mpc = "deleteHandlers"
    /\ LET h == HandlerOrder[cur]
       IN  \/ (H!BeginDestroy(h) \/ H!JoinWorker(h)) /\ UNCHANGED <<mpc, cur>>
           \/ H!Delete(h) /\ Advance(HandlerOrder, "dropWork")
    /\ UNCHANGED <<lvars, requested, work, ioStopped, fault>>

DropWork ==
    /\ Goto("dropWork", "stopIo")
    /\ work' = FALSE
    /\ UNCHANGED <<hvars, lvars, cur, requested, ioStopped, fault>>

StopIo ==
    /\ Goto("stopIo", "joinIo")
    /\ ioStopped' = TRUE
    /\ UNCHANGED <<hvars, lvars, cur, requested, work, fault>>

\* Mutation: stop() does not wait for the io thread.
JoinIoNot ==
    /\ Goto("joinIo", "destroy")
    /\ UNCHANGED <<hvars, lvars, cur, requested, work, ioStopped, fault>>

JoinIo ==
    /\ Goto("joinIo", "destroy")
    /\ io = "returned"
    /\ UNCHANGED <<hvars, lvars, cur, requested, work, ioStopped, fault>>

\* ~ThreadServer_t() and the return from main().
Destroy ==
    /\ Goto("destroy", "exited")
    /\ UNCHANGED <<hvars, lvars, cur, requested, work, ioStopped, fault>>

-----------------------------------------------------------------------------
(* The exception path: the listeners are deleted under their acceptor      *)
(* threads and the handler libraries unloaded under the workers; neither   *)
(* is waited for.                                                          *)

Unwind ==
    /\ Goto("unwind", "unwound")
    /\ UNCHANGED <<hvars, lvars, cur, requested, work, ioStopped, fault>>

ReturnOne ==
    /\ Goto("unwound", "failed")
    /\ UNCHANGED <<hvars, lvars, cur, requested, work, ioStopped, fault>>

LateThread ==
    /\ mpc = "unwound"
    /\ \/ \E l \in Listeners : athread[l] = "started"
       \/ \E w \in H!Workers : pc[w] = "starting"
    /\ fault' = "useAfterFree"
    /\ UNCHANGED <<hvars, lvars, mpc, cur, requested, work, ioStopped>>

MainStep ==
    \/ CreateWorkers \/ StartRun \/ RunListener \/ RunThrows \/ StartIo
    \/ LeavePoll \/ CancelListener \/ CloseListener \/ JoinListener
    \/ DeleteHandler \/ DropWork \/ StopIo \/ JoinIo \/ Destroy
    \/ Unwind \/ ReturnOne

-----------------------------------------------------------------------------
(* The acceptor threads, the kernel and the io thread.                     *)

Intact == mpc # "unwound"

Accepting(l) ==
    /\ Intact
    /\ L!Listen(l)
    /\ UNCHANGED <<hvars, mvars>>

Kernel(l, c) ==
    /\ Intact
    /\ L!Connect(l, c) \/ L!AcceptOk(l, c)
    /\ UNCHANGED <<hvars, mvars>>

AcceptFails(l) ==
    /\ Intact
    /\ L!AcceptFails(l)
    /\ UNCHANGED <<hvars, mvars>>

\* A stopped io_service runs no further completion.
IoAccept ==
    /\ \/ L!IoDispatch /\ ~ioStopped
       \/ L!IoRearm
       \/ L!IoCheck
    /\ UNCHANGED <<hvars, mvars>>

IoCheckThrows ==
    /\ L!IoCheckThrows
    /\ fault' = "terminate"
    /\ UNCHANGED <<hvars, mpc, cur, requested, work, ioStopped>>

\* Mutation: a forbidden socket is dropped instead of handed over.
IoEnqueueAllowed ==
    /\ L!IoEnqueue
    /\ IF inHand.result \in forbidden
       THEN UNCHANGED hvars
       ELSE H!Enqueue(HandlerOf[inHand.listener], inHand.result)
    /\ UNCHANGED mvars

\* Mutation: the handoff may be retried although it succeeded.
IoEnqueueAgain ==
    /\ io = "enqueue"
    /\ L!IoEnqueue \/ UNCHANGED lvars
    /\ H!Enqueue(HandlerOf[inHand.listener], inHand.result)
    /\ UNCHANGED mvars

\* Mutation: the handler is the one a listener was given last.
IoEnqueueLast ==
    /\ L!IoEnqueue
    /\ H!Enqueue(HandlerOf[ListenerOrder[Len(ListenerOrder)]], inHand.result)
    /\ UNCHANGED mvars

\* The two enqueues of the handoff are one call.
IoEnqueue ==
    /\ L!IoEnqueue
    /\ H!Enqueue(HandlerOf[inHand.listener], inHand.result)
    /\ UNCHANGED mvars

\* The pointer setHandler() stored outlives the handler.
IoEnqueueDeleted ==
    /\ io = "enqueue"
    /\ life[HandlerOf[inHand.listener]] = "deleted"
    /\ fault' = "useAfterFree"
    /\ UNCHANGED <<hvars, lvars, mpc, cur, requested, work, ioStopped>>

\* io_service::run() returns when stopped or when out of work.
IoReturn ==
    /\ ioStopped \/ (~work /\ ready = <<>> /\ \A l \in Listeners : armed[l] = 0)
    /\ L!IoReturn
    /\ UNCHANGED <<hvars, mvars>>

IoStep == IoAccept \/ IoEnqueue \/ IoEnqueueDeleted \/ IoReturn

-----------------------------------------------------------------------------
(* The workers.                                                            *)

Work(w) ==
    /\ Intact
    /\ H!WorkerStep(w)
    /\ UNCHANGED <<lvars, mvars>>

HandleConn(w) ==
    /\ H!Handle(w)
    /\ UNCHANGED <<lvars, mvars>>

\* createWorker() throws out of the thread's function.
WorkerStartThrows(w) ==
    /\ pc[w] = "starting"
    /\ w[1] \in StartMayThrow
    /\ fault' = "terminate"
    /\ UNCHANGED <<hvars, lvars, mpc, cur, requested, work, ioStopped>>

-----------------------------------------------------------------------------
Step == \/ MainStep \/ Signal \/ LateThread
        \/ \E l \in Listeners : Accepting(l) \/ AcceptFails(l)
        \/ \E l \in Listeners, c \in Conns : Kernel(l, c)
        \/ IoStep \/ IoCheckThrows
        \/ \E w \in H!Workers : Work(w) \/ HandleConn(w) \/ WorkerStartThrows(w)

\* The process is gone.
Ended == ~Running /\ UNCHANGED vars

Next == (Running /\ Step) \/ Ended

Spec == Init /\ [][Next]_vars

\* Every thread is scheduled; a connection that waits on an armed accept is
\* accepted; handle() ends (see Handler).  Signals and failures owe nothing.
Fairness ==
    /\ WF_vars(Running /\ MainStep)
    /\ WF_vars(Running /\ IoStep)
    /\ \A l \in Listeners :
          /\ WF_vars(Running /\ Accepting(l))
          /\ \A c \in Conns : WF_vars(Running /\ Intact /\ L!AcceptOk(l, c) /\ UNCHANGED <<hvars, mvars>>)
    /\ \A w \in H!Workers : WF_vars(Running /\ Work(w)) /\ WF_vars(Running /\ HandleConn(w))

FairSpec == Spec /\ Fairness

-----------------------------------------------------------------------------
(* Properties.                                                             *)

\* A process that exits through stop() leaves nothing running behind and no
\* socket in a queue: every thread was joined before the libraries unload.
ExitIsClean ==
    mpc \in {"destroy", "exited"} =>
        /\ io = "returned"
        /\ \A l \in Listeners : athread[l] = "done"
        /\ \A h \in Handlers : life[h] = "deleted"
        /\ H!NoWorkerOutlivesHandler

\* No handler is told to finish while a listener can still accept for it: all
\* of them are stopped first.
StopOrder ==
    \A h \in Handlers : life[h] \in {"finishing", "deleted"} =>
        \A l \in Listeners : acceptor[l] = "stopped"

\* What a handler has in its queue or under a worker.
Holds(h) == H!Queued(h) \cup ({socket[w] : w \in H!Pool(h)} \ {NoConn})

\* A connection is only ever with the handler that its own listener was given
\* by setHandler(), and under the verdict of that listener, however many
\* listeners share the handler and the io thread (Listener_t::accept).
ClientsReachTheirHandler ==
    \A h \in Handlers : \A c \in Holds(h) : \E l \in Listeners :
        /\ HandlerOf[l] = h /\ c \in delivered[l]
        /\ c \in forbidden <=> c \in Forbids[l]

\* A connecting client is served, unless the server is told to stop, dies,
\* or has logged that the listener cannot accept.
ConnectedIsServed ==
    \A l \in Listeners : \A c \in Conns :
        (c \in backlog[l] /\ WorkerCount[HandlerOf[l]] > 0)
            ~> (c \in served \/ requested \/ ~Running \/ l \in reported)

\* A shutdown request ends the process: no join waits for ever.
ShutdownCompletes == requested ~> ~Running

\* The handlers behave here as their own module says, although here other
\* components drive them.
HandlerContract == H!Spec

\* The listeners do so by the shape of the steps above, each of which is one
\* of Listener or leaves its variables alone; the proofs rest on it.
ListenerContract == L!Spec

\* main.cc logs "Server shutdown complete" after stop(): the shutdown of a
\* healthy server ends there, not in a connection handed to a deleted handler.
ShutdownIsSafe == fault # "useAfterFree"
=============================================================================
