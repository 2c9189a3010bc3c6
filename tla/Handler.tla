------------------------------- MODULE Handler -------------------------------
(***************************************************************************)
(* Handler_t and its worker threads (handler.h, handler.cc): a work queue  *)
(* shared by a fixed pool of threads, created by createWorkers() and taken *)
(* down by destroyWorkers(), which the destructor of every concrete        *)
(* handler calls before the object goes away.  What a worker does with a   *)
(* connection is the virtual handle(); here it ends, by return or by an    *)
(* exception, or it does not.                                              *)
(***************************************************************************)
EXTENDS Naturals, Sequences, FiniteSets

CONSTANTS Handlers,     \* the registered handlers
          WorkerCount,  \* WorkerCount[h]: <handler>.WorkerCount of the configuration
          Conns,        \* the connections that may be enqueued
          NoConn        \* no connection: the empty boost::optional of dequeue()

ASSUME WorkerCountAssumption == WorkerCount \in [Handlers -> Nat]
ASSUME NoConnAssumption == NoConn \notin Conns

\* A worker is named by its handler and its index in the pool.
Workers == UNION {{h} \X (1 .. WorkerCount[h]) : h \in Handlers}
Pool(h) == {w \in Workers : w[1] = h}

VARIABLES
    life,       \* life[h]: "constructed", "running", "finishing" or "deleted"
    workQueue,  \* workQueue[h]: the sockets enqueued and not yet dequeued
    pc,         \* pc[w]: where the thread of worker w is
    socket,     \* socket[w]: the connection worker w handles, or NoConn
    joined,     \* joined[h]: how many threads of the pool destroyWorkers() joined
    served,     \* connections whose handle() has returned or thrown
    dropped     \* connections closed with the queue that held them

hvars == <<life, workQueue, pc, socket, joined, served, dropped>>

PCs == {"absent", "starting", "dequeue", "handling", "leaving", "done"}
Lives == {"constructed", "running", "finishing", "deleted"}

TypeOK ==
    /\ life \in [Handlers -> Lives]
    /\ workQueue \in [Handlers -> Seq(Conns)]
    /\ pc \in [Workers -> PCs]
    /\ socket \in [Workers -> Conns \cup {NoConn}]
    /\ joined \in [Handlers -> Nat]
    /\ served \subseteq Conns
    /\ dropped \subseteq Conns

-----------------------------------------------------------------------------
Queued(h) == {workQueue[h][i] : i \in DOMAIN workQueue[h]}

\* The connection has been given to some handler already.
Submitted(c) == \/ \E h \in Handlers : c \in Queued(h)
                \/ \E w \in Workers : socket[w] = c
                \/ c \in served \cup dropped

Init == /\ life = [h \in Handlers |-> "constructed"]
        /\ workQueue = [h \in Handlers |-> <<>>]
        /\ pc = [w \in Workers |-> "absent"]
        /\ socket = [w \in Workers |-> NoConn]
        /\ joined = [h \in Handlers |-> 0]
        /\ served = {}
        /\ dropped = {}

-----------------------------------------------------------------------------
(* The thread that owns the handlers.                                      *)

\* A thread not yet created and one not yet scheduled cannot be told apart,
\* so the loop that creates the pool is one step.
CreateWorkers(h) ==
    /\ life[h] = "constructed"
    /\ life' = [life EXCEPT ![h] = "running"]
    /\ pc' = [w \in Workers |-> IF w[1] = h THEN "starting" ELSE pc[w]]
    /\ UNCHANGED <<workQueue, socket, joined, served, dropped>>

\* destroyWorkers(): workQueue.finish().
BeginDestroy(h) ==
    /\ life[h] = "running"
    /\ life' = [life EXCEPT ![h] = "finishing"]
    /\ UNCHANGED <<workQueue, pc, socket, joined, served, dropped>>

\* destroyWorkers(): the pool is joined front to back, each join blocking.
JoinWorker(h) ==
    LET w == <<h, joined[h] + 1>>
    IN  /\ life[h] = "finishing"
        /\ joined[h] < WorkerCount[h]
        /\ pc[w] = "done"
        /\ joined' = [joined EXCEPT ![h] = @ + 1]
        /\ UNCHANGED <<life, workQueue, pc, socket, served, dropped>>

\* Mutation: the destructor does not wait for its threads.
DeleteUnjoined(h) ==
    /\ life[h] = "finishing"
    /\ life' = [life EXCEPT ![h] = "deleted"]
    /\ dropped' = dropped \cup Queued(h)
    /\ workQueue' = [workQueue EXCEPT ![h] = <<>>]
    /\ UNCHANGED <<pc, socket, joined, served>>

\* ~Handler_t(): the queue goes with its handler, and with it the last
\* reference to every socket in it.
Delete(h) ==
    /\ life[h] = "finishing"
    /\ joined[h] = WorkerCount[h]
    /\ life' = [life EXCEPT ![h] = "deleted"]
    /\ dropped' = dropped \cup Queued(h)
    /\ workQueue' = [workQueue EXCEPT ![h] = <<>>]
    /\ UNCHANGED <<pc, socket, joined, served>>

-----------------------------------------------------------------------------
(* The thread of a listener.                                               *)

\* Nothing refuses a socket after finish().
Enqueue(h, c) ==
    /\ life[h] \in {"running", "finishing"}
    /\ workQueue' = [workQueue EXCEPT ![h] = Append(@, c)]
    /\ UNCHANGED <<life, pc, socket, joined, served, dropped>>

-----------------------------------------------------------------------------
(* The thread of worker w.                                                 *)

\* run(): createWorker() has returned; enter Worker_t::run().
WorkerStart(w) ==
    /\ pc[w] = "starting"
    /\ pc' = [pc EXCEPT ![w] = "dequeue"]
    /\ UNCHANGED <<life, workQueue, socket, joined, served, dropped>>

\* Mutation: the socket is read and stays in the queue.
DequeuePeeks(w) ==
    /\ pc[w] = "dequeue"
    /\ workQueue[w[1]] # <<>>
    /\ pc' = [pc EXCEPT ![w] = "handling"]
    /\ socket' = [socket EXCEPT ![w] = Head(workQueue[w[1]])]
    /\ UNCHANGED <<life, workQueue, joined, served, dropped>>

\* Mutation: the youngest socket is taken first.
DequeueNewest(w) ==
    LET queue == workQueue[w[1]]
    IN  /\ pc[w] = "dequeue"
        /\ queue # <<>>
        /\ pc' = [pc EXCEPT ![w] = "handling"]
        /\ socket' = [socket EXCEPT ![w] = queue[Len(queue)]]
        /\ workQueue' = [workQueue EXCEPT ![w[1]] = SubSeq(@, 1, Len(@) - 1)]
        /\ UNCHANGED <<life, joined, served, dropped>>

Dequeue(w) ==
    /\ pc[w] = "dequeue"
    /\ workQueue[w[1]] # <<>>
    /\ pc' = [pc EXCEPT ![w] = "handling"]
    /\ socket' = [socket EXCEPT ![w] = Head(workQueue[w[1]])]
    /\ workQueue' = [workQueue EXCEPT ![w[1]] = Tail(@)]
    /\ UNCHANGED <<life, joined, served, dropped>>

\* Mutation: dequeue() may return none at any time, as after a timeout.
DequeueNoneAnyTime(w) ==
    /\ pc[w] = "dequeue"
    /\ pc' = [pc EXCEPT ![w] = "leaving"]
    /\ UNCHANGED <<life, workQueue, socket, joined, served, dropped>>

\* dequeue() returns none only after finish().  The queue is a library's:
\* whether it hands out what it still holds first is left open, so both may
\* happen.
DequeueNone(w) ==
    /\ pc[w] = "dequeue"
    /\ life[w[1]] = "finishing"
    /\ pc' = [pc EXCEPT ![w] = "leaving"]
    /\ UNCHANGED <<life, workQueue, socket, joined, served, dropped>>

\* handle() returns or throws: every exception is caught, the loop goes on
\* and the local reference to the socket is released.
Handle(w) ==
    /\ pc[w] = "handling"
    /\ pc' = [pc EXCEPT ![w] = "dequeue"]
    /\ served' = served \cup {socket[w]}
    /\ socket' = [socket EXCEPT ![w] = NoConn]
    /\ UNCHANGED <<life, workQueue, joined, dropped>>

\* run() deletes the worker object and the thread ends.
WorkerLeave(w) ==
    /\ pc[w] = "leaving"
    /\ pc' = [pc EXCEPT ![w] = "done"]
    /\ UNCHANGED <<life, workQueue, socket, joined, served, dropped>>

-----------------------------------------------------------------------------
WorkerStep(w) == WorkerStart(w) \/ Dequeue(w) \/ DequeueNone(w) \/ WorkerLeave(w)

OwnerStep(h) == CreateWorkers(h) \/ BeginDestroy(h) \/ JoinWorker(h) \/ Delete(h)

\* The environment enqueues a connection at most once.
Next == \/ \E h \in Handlers : OwnerStep(h)
        \/ \E h \in Handlers, c \in Conns : ~Submitted(c) /\ Enqueue(h, c)
        \/ \E w \in Workers : WorkerStep(w) \/ Handle(w)

Spec == Init /\ [][Next]_hvars

\* Threads are scheduled, and the destructor runs to its end once begun.
ThreadFairness ==
    /\ \A w \in Workers : WF_hvars(WorkerStep(w))
    /\ \A h \in Handlers : WF_hvars(CreateWorkers(h)) /\ WF_hvars(JoinWorker(h) \/ Delete(h))

\* handle() ends: cpphttphandler and cppfrpchandler give their I/O a read and
\* a write timeout.
HandleFairness == \A w \in Workers : WF_hvars(Handle(w))

FairSpec == Spec /\ ThreadFairness /\ HandleFairness

-----------------------------------------------------------------------------
(* Properties.                                                             *)

\* A connection is in one place: at one position of one queue, or in the
\* hands of one worker, or served, or dropped (one socket is never handled by
\* two workers, nor handled twice, Handler_t::Worker_t::run).
QueuesDisjoint ==
    \A h, g \in Handlers : \A i \in DOMAIN workQueue[h], j \in DOMAIN workQueue[g] :
        workQueue[h][i] = workQueue[g][j] => h = g /\ i = j

WorkersDisjoint ==
    \A w, v \in Workers : socket[w] = socket[v] /\ socket[w] # NoConn => w = v

PlacesDisjoint ==
    /\ \A h \in Handlers : \A w \in Workers : socket[w] \notin Queued(h)
    /\ \A h \in Handlers : Queued(h) \cap (served \cup dropped) = {}
    /\ \A w \in Workers : socket[w] \notin served \cup dropped
    /\ served \cap dropped = {}

OnePlace == QueuesDisjoint /\ WorkersDisjoint /\ PlacesDisjoint

\* When a handler object is gone no thread of its pool is left to touch it
\* and its queue holds nothing (destroyWorkers() in every destructor).
NoWorkerOutlivesHandler ==
    \A h \in Handlers : life[h] = "deleted" =>
        /\ \A w \in Pool(h) : pc[w] = "done" /\ socket[w] = NoConn
        /\ workQueue[h] = <<>>

\* The pool never shrinks while its handler is in use: whatever handle()
\* throws, a worker leaves its loop only at shutdown (Worker_t::run).
PoolIsWhole ==
    \A h \in Handlers : life[h] = "running" =>
        \A w \in Pool(h) : pc[w] \in {"starting", "dequeue", "handling"}

\* A handler with its thread pool implements the promise of Dispatch.
D == INSTANCE Dispatch WITH
        Limit <- WorkerCount,
        waiting <- workQueue,
        serving <- [h \in Handlers |-> {socket[w] : w \in Pool(h)} \ {NoConn}],
        discarded <- dropped,
        phase <- [h \in Handlers |-> CASE life[h] = "finishing" -> "closed"
                                       [] life[h] = "deleted" -> "gone"
                                       [] OTHER -> "open"]

ImplementsDispatch == D!FairSpec
=============================================================================
