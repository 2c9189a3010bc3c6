------------------------------ MODULE FrpcWorker ------------------------------
(***************************************************************************)
(* The worker threads of one CppFrpcHandler_t (cppfrpchandler.cc): the     *)
(* thread-local FastRPC server each builds and tears down, and the         *)
(* thread-local headers and work that handle() lends to it.                *)
(*                                                                         *)
(* FRPC::Server_t is outside the repository: serve() answers requests of   *)
(* one connection while it is kept alive, calls methods with the headers   *)
(* it was given, and returns or throws.                                    *)
(***************************************************************************)
EXTENDS Naturals, Sequences

CONSTANTS WorkerCount,  \* <handler>.WorkerCount of the configuration
          Conns,        \* the connections the listeners hand over
          Methods,      \* what the module's threadCreate() registers
          KeepAlive, MaxKeepAlive, \* the handler's configuration
          NoConn

Threads == 1 .. WorkerCount

ASSUME CountAssumption == WorkerCount \in Nat
ASSUME ConnsAssumption == NoConn \notin Conns
ASSUME KeepAliveAssumption == KeepAlive \in BOOLEAN /\ MaxKeepAlive \in Nat \ {0}

VARIABLES
    life,       \* "loading", "created", "stopping", "deleted"
    joined,     \* how many threads destroyWorkers() has joined
    fault,      \* "none", or why the process died
    workQueue,  \* the sockets no worker has taken yet
    place,      \* place[c]: "new", "queued", "held", "closed" or "dropped"
    forbidden,  \* connections whose SocketWork_t is marked forbidden
    told,       \* told[c]: whose methods' headers the client of c was sent
    pc, sock,   \* per thread: its place and the connection it holds
    made,       \* made[t]: which of callbacks, frpcConfig, frpc it has
    methods,    \* methods[t]: the registry of its server
    hooked,     \* threads between threadCreate() and threadDestroy()
    work,       \* work[t]: thread-local pointer, or NoConn
    headersIn,  \* headersIn[t]: whose headers it holds, NoHeader for null
    headersOut, \* headersOut[t]: likewise
    served      \* served[t]: requests served on this connection

lent == <<work, headersIn, headersOut>>
own == <<made, methods, hooked>>
owner == <<life, joined>>
client == <<workQueue, place, forbidden, told>>
vars == <<owner, fault, client, pc, sock, own, lent, served>>

NoHeader == {NoConn} \* the null pointer, told from every set of connections

Parts == {"callbacks", "config", "frpc"}
PCs == {"absent", "starting", "registering", "idle", "entered", "serving", "calling",
        "answering", "returning", "forbidding", "refused", "releasing", "tearing", "done"}

TypeOK ==
    /\ life \in {"loading", "created", "stopping", "deleted"}
    /\ joined \in 0 .. WorkerCount
    /\ fault \in {"none", "terminated"}
    /\ workQueue \in Seq(Conns)
    /\ place \in [Conns -> {"new", "queued", "held", "closed", "dropped"}]
    /\ forbidden \subseteq Conns
    /\ told \in [Conns -> SUBSET Conns]
    /\ pc \in [Threads -> PCs]
    /\ sock \in [Threads -> Conns \cup {NoConn}]
    /\ made \in [Threads -> SUBSET Parts]
    /\ methods \in [Threads -> SUBSET Methods]
    /\ hooked \subseteq Threads
    /\ work \in [Threads -> Conns \cup {NoConn}]
    /\ headersIn \in [Threads -> (SUBSET Conns) \cup {NoHeader}]
    /\ headersOut \in [Threads -> (SUBSET Conns) \cup {NoHeader}]
    /\ served \in [Threads -> 0 .. MaxKeepAlive]

Init == /\ life = "loading" /\ fault = "none"
        /\ joined = 0 /\ workQueue = <<>>
        /\ place = [c \in Conns |-> "new"]
        /\ forbidden = {} /\ hooked = {}
        /\ told = [c \in Conns |-> {}]
        /\ pc = [t \in Threads |-> "absent"]
        /\ sock = [t \in Threads |-> NoConn]
        /\ made = [t \in Threads |-> {}]
        /\ methods = [t \in Threads |-> {}]
        /\ work = [t \in Threads |-> NoConn]
        /\ headersIn = [t \in Threads |-> NoHeader]
        /\ headersOut = [t \in Threads |-> NoHeader]
        /\ served = [t \in Threads |-> 0]

Alive == fault = "none"
Goto(t, from, to) == Alive /\ pc[t] = from /\ pc' = [pc EXCEPT ![t] = to]

-----------------------------------------------------------------------------
(* The owner of the handler and the listeners.                             *)

\* CppFrpcHandler_t() with loadModule(), then createWorkers().
Create ==
    /\ Alive /\ life = "loading"
    /\ life' = "created"
    /\ pc' = [t \in Threads |-> "starting"]
    /\ UNCHANGED <<joined, fault, client, sock, own, lent, served>>

Arrive(c) == /\ Alive /\ life \in {"created", "stopping"}
             /\ place[c] = "new"
             /\ place' = [place EXCEPT ![c] = "queued"]
             /\ workQueue' = Append(workQueue, c)
             /\ forbidden' \in {forbidden, forbidden \cup {c}}
             /\ UNCHANGED <<owner, fault, told, pc, sock, own, lent, served>>

\* ~CppFrpcHandler_t(): destroyWorkers() begins with workQueue.finish().
Stop == /\ Alive /\ life = "created"
        /\ life' = "stopping"
        /\ UNCHANGED <<joined, fault, client, pc, sock, own, lent, served>>

\* destroyWorkers() joins the threads front to back.
Join == /\ Alive /\ life = "stopping"
        /\ joined < WorkerCount
        /\ pc[joined + 1] = "done"
        /\ joined' = joined + 1
        /\ UNCHANGED <<life, fault, client, pc, sock, own, lent, served>>

\* All workers are joined; then the slots, the module, its library and, in
\* the base class, the queue go.
Delete ==
    /\ Alive /\ life = "stopping"
    /\ joined = WorkerCount
    /\ life' = "deleted"
    /\ workQueue' = <<>>
    /\ place' = [c \in Conns |-> IF place[c] = "queued" THEN "dropped" ELSE place[c]]
    /\ UNCHANGED <<joined, fault, forbidden, told, pc, sock, own, lent, served>>

-----------------------------------------------------------------------------
(* The life of a worker.                                                   *)

\* Worker_t() up to its call of threadCreate().
BuildServer(t) ==
    /\ Goto(t, "starting", "registering")
    /\ made' = [made EXCEPT ![t] = Parts]
    /\ UNCHANGED <<owner, fault, client, sock, methods, hooked, lent, served>>

\* Mutation: a missing help file costs the method, not the process.
RegisterWithoutHelp(t) ==
    /\ \E m \in Methods \ methods[t] :
        \/ Goto(t, "registering", "registering") /\ methods' = [methods EXCEPT ![t] = @ \cup {m}]
        \/ Goto(t, "registering", "idle") /\ UNCHANGED methods
    /\ UNCHANGED <<owner, fault, client, sock, made, hooked, lent, served>>

\* threadCreate() registers a method; loadHelp() may throw, and nothing
\* catches that in this thread.
Register(t) ==
    /\ \E m \in Methods \ methods[t] :
        /\ Goto(t, "registering", "registering")
        /\ \/ methods' = [methods EXCEPT ![t] = @ \cup {m}] /\ UNCHANGED fault
           \/ fault' = "terminated" /\ UNCHANGED methods
    /\ UNCHANGED <<owner, client, sock, made, hooked, lent, served>>

ThreadCreated(t) ==
    /\ methods[t] = Methods
    /\ Goto(t, "registering", "idle")
    /\ hooked' = hooked \cup {t}
    /\ UNCHANGED <<owner, fault, client, sock, made, methods, lent, served>>

\* Worker_t::run(): dequeue() hands out the next socket.
Take(t) ==
    /\ Goto(t, "idle", "entered")
    /\ workQueue # <<>>
    /\ workQueue' = Tail(workQueue)
    /\ place' = [place EXCEPT ![Head(workQueue)] = "held"]
    /\ sock' = [sock EXCEPT ![t] = Head(workQueue)]
    /\ UNCHANGED <<owner, fault, forbidden, told, own, lent, served>>

\* dequeue() hands out none after finish(), whatever the queue still holds,
\* and ~Worker_t() begins with the module's threadDestroy().
ThreadDestroy(t) ==
    /\ life = "stopping"
    /\ Goto(t, "idle", "tearing")
    /\ hooked' = hooked \ {t}
    /\ UNCHANGED <<owner, fault, client, sock, made, methods, lent, served>>

\* One statement of ~Worker_t() after another: the server and with it its
\* methods, its configuration, the callbacks.
TearDown(t) ==
    /\ \/ /\ "frpc" \in made[t]
          /\ Goto(t, "tearing", "tearing")
          /\ made' = [made EXCEPT ![t] = @ \ {"frpc"}]
          /\ methods' = [methods EXCEPT ![t] = {}]
       \/ /\ made[t] = {"callbacks", "config"}
          /\ Goto(t, "tearing", "tearing")
          /\ made' = [made EXCEPT ![t] = {"callbacks"}] /\ UNCHANGED methods
       \/ /\ made[t] = {"callbacks"}
          /\ Goto(t, "tearing", "done")
          /\ made' = [made EXCEPT ![t] = {}] /\ UNCHANGED methods
    /\ UNCHANGED <<owner, fault, client, sock, hooked, lent, served>>

-----------------------------------------------------------------------------
(* handle().                                                               *)

Lend(t, in, out, w) ==
    /\ headersIn' = [headersIn EXCEPT ![t] = in]
    /\ headersOut' = [headersOut EXCEPT ![t] = out]
    /\ work' = [work EXCEPT ![t] = w]

\* A forbidden connection is refused; the others are lent fresh headers.
Enter(t) ==
    /\ IF sock[t] \in forbidden
       THEN Goto(t, "entered", "forbidding") /\ UNCHANGED lent
       ELSE Goto(t, "entered", "serving") /\ Lend(t, {}, {}, sock[t])
    /\ UNCHANGED <<owner, fault, client, sock, own, served>>

\* serve() reads a request into headersIn and calls a registered method.
ServeRequest(t) ==
    /\ methods[t] # {}
    /\ Goto(t, "serving", "calling")
    /\ headersIn' = [headersIn EXCEPT ![t] = @ \cup {sock[t]}]
    /\ UNCHANGED <<owner, fault, client, sock, own, work, headersOut, served>>

\* BoundMethod_t::call(): the method may set headers for the client of
\* getWork(); whatever std::exception it throws becomes a status.
Call(t) ==
    /\ Goto(t, "calling", "answering")
    /\ headersOut' \in {headersOut, [headersOut EXCEPT ![t] = @ \cup {work[t]}]}
    /\ UNCHANGED <<owner, fault, client, sock, own, work, headersIn, served>>

Answer(t) ==
    /\ Goto(t, "answering", IF KeepAlive /\ served[t] + 1 < MaxKeepAlive THEN "serving" ELSE "returning")
    /\ told' = [told EXCEPT ![sock[t]] = @ \cup headersOut[t]]
    /\ served' = [served EXCEPT ![t] = @ + 1]
    /\ UNCHANGED <<owner, fault, workQueue, place, forbidden, sock, own, lent>>

\* The client has closed, a timeout has passed, the request was malformed, a
\* send failed or a method threw something else: serve() returns or throws.
ServeEnds(t) ==
    /\ \/ Goto(t, "serving", "returning") \/ Goto(t, "calling", "returning")
       \/ Goto(t, "answering", "returning")
    /\ UNCHANGED <<owner, fault, client, sock, own, lent, served>>

\* Mutation: only the path without an exception takes back what was lent.
LeaveOrThrow(t) ==
    /\ Goto(t, "returning", "releasing")
    /\ Lend(t, NoHeader, NoHeader, NoConn) \/ UNCHANGED lent
    /\ UNCHANGED <<owner, fault, client, sock, own, served>>

\* Both ends of handle(), after serve() and in the catch (...).
Leave(t) ==
    /\ Goto(t, "returning", "releasing")
    /\ Lend(t, NoHeader, NoHeader, NoConn)
    /\ UNCHANGED <<owner, fault, client, sock, own, served>>

\* forbidden(): 403 is sent, or reading or sending fails on the way to it.
Refuse(t) ==
    /\ Goto(t, "forbidding", "releasing") \/ Goto(t, "forbidding", "refused")
    /\ UNCHANGED <<owner, fault, client, sock, own, lent, served>>

\* Its catch (...) tries 400, even where 403 failed.
RefuseBadly(t) ==
    /\ Goto(t, "refused", "releasing")
    /\ UNCHANGED <<owner, fault, client, sock, own, lent, served>>

\* Back in Worker_t::run(): the last reference to the socket is dropped.
Release(t) ==
    /\ Goto(t, "releasing", "idle")
    /\ place' = [place EXCEPT ![sock[t]] = "closed"]
    /\ sock' = [sock EXCEPT ![t] = NoConn]
    /\ served' = [served EXCEPT ![t] = 0]
    /\ UNCHANGED <<owner, fault, workQueue, forbidden, told, own, lent>>

-----------------------------------------------------------------------------
Serve(t) == ServeRequest(t) \/ Call(t) \/ Answer(t) \/ ServeEnds(t)

Handle(t) == Enter(t) \/ Serve(t) \/ Leave(t) \/ Refuse(t) \/ RefuseBadly(t) \/ Release(t)

WorkerStep(t) == \/ BuildServer(t) \/ Register(t) \/ ThreadCreated(t)
                 \/ Take(t) \/ Handle(t)
                 \/ ThreadDestroy(t) \/ TearDown(t)

Next == \/ Create \/ Stop \/ Join \/ Delete
        \/ \E c \in Conns : Arrive(c)
        \/ \E t \in Threads : WorkerStep(t)

Spec == Init /\ [][Next]_vars

-----------------------------------------------------------------------------
(* Properties.                                                             *)

\* Headers never cross from one client to another: an answer carries only
\* what methods set for its own client, and a method reads only its own
\* client's request, on two threads as on one after the other; and whichever
\* way handle() is left, nothing it lent stays behind in the thread, no headers
\* of the last client and no pointer to a socket that is going away
\* (Module_t::headersIn, headersOut, getWork).
HeadersStayHome ==
    /\ \A c \in Conns : told[c] \subseteq {c}
    /\ \A t \in Threads : pc[t] = "calling" => headersIn[t] = {sock[t]} /\ work[t] = sock[t]
    /\ \A t \in Threads :
           pc[t] \notin {"serving", "calling", "answering", "returning"}
               => work[t] = NoConn /\ headersIn[t] = NoHeader /\ headersOut[t] = NoHeader

\* No worker serves with part of the module's methods, or outside the time
\* between the module's threadCreate() and threadDestroy(): a help file that
\* cannot be read ends the process before the thread takes a socket (loadHelp).
AllMethodsOrNone ==
    \A t \in Threads : sock[t] # NoConn => methods[t] = Methods /\ t \in hooked

\* This handler is a Handler_t as Handler.tla describes one, too: building and
\* tearing down a server are the ends of a thread's life, and all that happens
\* between taking a connection and dropping it is the one step Handle.  A
\* process that dies of a missing help file takes no further step
\* (Worker_t::run with CppFrpcHandler_t::Worker_t).
H == INSTANCE Handler WITH
        Handlers <- {"frpc"},
        WorkerCount <- [h \in {"frpc"} |-> WorkerCount],
        life <- [h \in {"frpc"} |-> CASE life = "loading" -> "constructed"
                                      [] life = "created" -> "running"
                                      [] life = "stopping" -> "finishing"
                                      [] life = "deleted" -> "deleted"],
        workQueue <- [h \in {"frpc"} |-> workQueue],
        pc <- [w \in {"frpc"} \X Threads |->
                  CASE pc[w[2]] \in {"absent", "done"} -> pc[w[2]]
                    [] pc[w[2]] \in {"starting", "registering"} -> "starting"
                    [] pc[w[2]] = "idle" -> "dequeue"
                    [] pc[w[2]] = "tearing" -> "leaving"
                    [] OTHER -> "handling"],
        socket <- [w \in {"frpc"} \X Threads |-> sock[w[2]]],
        joined <- [h \in {"frpc"} |-> joined],
        served <- {c \in Conns : place[c] = "closed"},
        dropped <- {c \in Conns : place[c] = "dropped"}
=============================================================================
