------------------------------ MODULE HttpWorker ------------------------------
(***************************************************************************)
(* The worker threads of one CppHttpHandler_t (cpphttphandler.cc): what    *)
(* they keep in thread-local slots, what they do with a connection on      *)
(* every path of handle() and forbidden(), and what the client gets.       *)
(*                                                                         *)
(* A socket object owns a descriptor number and closes it when the last    *)
(* reference is dropped; the kernel gives a closed number to the next      *)
(* connection.  HttpIo_t works on the bare number.                         *)
(***************************************************************************)
EXTENDS Naturals, Sequences

CONSTANTS WorkerCount, \* <handler>.WorkerCount of the configuration
          Conns,       \* the connections the listeners hand over
          Fds,         \* descriptor numbers
          Requests,    \* what a client may ask: [uri, post, json]
          Routes,      \* what the module's threadCreate() registers, in order:
                       \* [uris, kind]
          NoConn, NoFd, NoRegistry

Threads == 1 .. WorkerCount

ASSUME CountAssumption == WorkerCount \in Nat
ASSUME ConnsAssumption == NoConn \notin Conns
ASSUME FdsAssumption == NoFd \notin Fds

Kinds == {"bound", "http", "json", "jsonrpc"}
ASSUME RoutesAssumption == \A i \in DOMAIN Routes : Routes[i].kind \in Kinds

Heads == {"200", "302", "400", "403", "404", "405", "500"}
Bodies == {"partial", "method", "message", "notfound", ""}

VARIABLES
    life,      \* the handler object: "loading", "created", "stopping", "deleted"
    joined,    \* how many threads destroyWorkers() has joined
    workQueue, \* the sockets no worker has taken yet
    place,     \* place[c]: "new", "queued", "held", "closed" or "dropped"
    forbidden, \* connections whose SocketWork_t is marked forbidden
    fdOf,      \* fdOf[c]: the number the socket object of c owns, or NoFd
    open,      \* open[f]: the connection the kernel means by f, or NoConn
    wire,      \* wire[c]: what the client of c was sent
    cut,       \* connections on which a send failed or regex_match() gave up
    raised,    \* connections whose method raised an error
    pc, sock,  \* per thread: its place and the connection it holds
    io,        \* io[t]: the number in its HttpIo_t, or NoFd
    work,      \* work[t]: thread-local CppHttpHandler_t::work, or NoConn
    registry,  \* registry[t]: thread-local methodRegistry, NoRegistry for null
    route,     \* route[t]: position of the method found, 0 for none
    request, reply  \* per thread: Request_t and Response_t

owner == <<life, joined>>
sockets == <<workQueue, place, forbidden, fdOf, open>>
local == <<io, work, route, request, reply>>
vars == <<owner, sockets, wire, cut, raised, pc, sock, registry, local>>

PCs == {"absent", "starting", "registering", "idle", "entered", "reading",
        "badrequest", "lookup", "calling", "head", "body", "returning", "thrown",
        "forbidding", "refused", "releasing", "leaving", "done"}

TypeOK ==
    /\ life \in {"loading", "created", "stopping", "deleted"}
    /\ joined \in 0 .. WorkerCount
    /\ workQueue \in Seq(Conns)
    /\ place \in [Conns -> {"new", "queued", "held", "closed", "dropped"}]
    /\ forbidden \subseteq Conns
    /\ cut \subseteq Conns /\ raised \subseteq Conns
    /\ fdOf \in [Conns -> Fds \cup {NoFd}]
    /\ open \in [Fds -> Conns \cup {NoConn}]
    /\ wire \in [Conns -> Seq(Heads \cup Bodies)]
    /\ pc \in [Threads -> PCs]
    /\ sock \in [Threads -> Conns \cup {NoConn}]
    /\ io \in [Threads -> Fds \cup {NoFd}]
    /\ work \in [Threads -> Conns \cup {NoConn}]
    /\ registry \in [Threads -> Seq({Routes[i] : i \in DOMAIN Routes}) \cup {NoRegistry}]
    /\ route \in [Threads -> 0 .. Len(Routes)]
    /\ request \in [Threads -> Requests]
    /\ reply \in [Threads -> [status : Heads, data : Bodies]]

NoRequest == CHOOSE r \in Requests : TRUE

\* Message_t(): status 200, no data.
NewReply == [status |-> "200", data |-> ""]

Init == /\ life = "loading"
        /\ joined = 0
        /\ workQueue = <<>>
        /\ place = [c \in Conns |-> "new"]
        /\ forbidden = {} /\ cut = {} /\ raised = {}
        /\ fdOf = [c \in Conns |-> NoFd]
        /\ open = [f \in Fds |-> NoConn]
        /\ wire = [c \in Conns |-> <<>>]
        /\ pc = [t \in Threads |-> "absent"]
        /\ sock = [t \in Threads |-> NoConn]
        /\ io = [t \in Threads |-> NoFd]
        /\ work = [t \in Threads |-> NoConn]
        /\ registry = [t \in Threads |-> NoRegistry]
        /\ route = [t \in Threads |-> 0]
        /\ request = [t \in Threads |-> NoRequest]
        /\ reply = [t \in Threads |-> NewReply]

Goto(t, from, to) == pc[t] = from /\ pc' = [pc EXCEPT ![t] = to]

-----------------------------------------------------------------------------
(* The owner of the handler, the listeners and the clients.                *)

\* CppHttpHandler_t() with loadModule(), then createWorkers().
Create ==
    /\ life = "loading"
    /\ life' = "created"
    /\ pc' = [t \in Threads |-> "starting"]
    /\ UNCHANGED <<joined, sockets, wire, cut, raised, sock, registry, local>>

\* A listener accepts a connection under a free number, decides whether it
\* is forbidden and enqueues it.
Arrive(c) ==
    /\ life \in {"created", "stopping"}
    /\ place[c] = "new"
    /\ \E f \in Fds : /\ open[f] = NoConn
                      /\ open' = [open EXCEPT ![f] = c]
                      /\ fdOf' = [fdOf EXCEPT ![c] = f]
    /\ place' = [place EXCEPT ![c] = "queued"]
    /\ workQueue' = Append(workQueue, c)
    /\ forbidden' \in {forbidden, forbidden \cup {c}}
    /\ UNCHANGED <<owner, wire, cut, raised, pc, sock, registry, local>>

\* ~CppHttpHandler_t(): destroyWorkers() begins with workQueue.finish().
Stop == /\ life = "created"
        /\ life' = "stopping"
        /\ UNCHANGED <<joined, sockets, wire, cut, raised, pc, sock, registry, local>>

\* destroyWorkers() joins the threads front to back.
Join == /\ life = "stopping"
        /\ joined < WorkerCount
        /\ pc[joined + 1] = "done"
        /\ joined' = joined + 1
        /\ UNCHANGED <<life, sockets, wire, cut, raised, pc, sock, registry, local>>

\* The sockets left in the queue are closed with it.
DropQueue ==
    /\ workQueue' = <<>>
    /\ place' = [c \in Conns |-> IF place[c] = "queued" THEN "dropped" ELSE place[c]]
    /\ open' = [f \in Fds |-> IF open[f] # NoConn /\ place[open[f]] = "queued" THEN NoConn ELSE open[f]]
    /\ fdOf' = [c \in Conns |-> IF place[c] = "queued" THEN NoFd ELSE fdOf[c]]

\* destroyWorkers() has joined every thread; the module and its library go.
Delete ==
    /\ life = "stopping"
    /\ joined = WorkerCount
    /\ life' = "deleted"
    /\ DropQueue
    /\ UNCHANGED <<joined, forbidden, wire, cut, raised, pc, sock, registry, local>>

-----------------------------------------------------------------------------
(* The life of a worker.                                                   *)

\* Worker_t(): a new registry, then the module's threadCreate().
CreateWorker(t) ==
    /\ Goto(t, "starting", "registering")
    /\ registry' = [registry EXCEPT ![t] = <<>>]
    /\ UNCHANGED <<owner, sockets, wire, cut, raised, sock, local>>

\* threadCreate() calls registerMethod() for each route.
RegisterMethod(t) ==
    /\ pc[t] = "registering"
    /\ LET n == Len(registry[t])
       IN  IF n < Len(Routes)
           THEN registry' = [registry EXCEPT ![t] = Append(@, Routes[n + 1])] /\ UNCHANGED pc
           ELSE Goto(t, "registering", "idle") /\ UNCHANGED registry
    /\ UNCHANGED <<owner, sockets, wire, cut, raised, sock, local>>

\* Worker_t::run(): dequeue() hands out the next socket, ...
Take(t) ==
    /\ Goto(t, "idle", "entered")
    /\ workQueue # <<>>
    /\ workQueue' = Tail(workQueue)
    /\ place' = [place EXCEPT ![Head(workQueue)] = "held"]
    /\ sock' = [sock EXCEPT ![t] = Head(workQueue)]
    /\ UNCHANGED <<owner, forbidden, fdOf, open, wire, cut, raised, registry, local>>

\* ... or none, after finish(), whatever the queue still holds.
TakeNone(t) ==
    /\ life = "stopping"
    /\ Goto(t, "idle", "leaving")
    /\ UNCHANGED <<owner, sockets, wire, cut, raised, sock, registry, local>>

\* ~Worker_t(): the module's threadDestroy(), then the registry is freed.
DestroyWorker(t) ==
    /\ Goto(t, "leaving", "done")
    /\ registry' = [registry EXCEPT ![t] = NoRegistry]
    /\ UNCHANGED <<owner, sockets, wire, cut, raised, sock, local>>

-----------------------------------------------------------------------------
(* handle().                                                               *)

\* A forbidden connection is refused; work is set for the others only.
Enter(t) ==
    /\ pc[t] = "entered"
    /\ io' = [io EXCEPT ![t] = fdOf[sock[t]]]
    /\ IF sock[t] \in forbidden
       THEN Goto(t, "entered", "forbidding") /\ UNCHANGED work
       ELSE Goto(t, "entered", "reading") /\ work' = [work EXCEPT ![t] = sock[t]]
    /\ UNCHANGED <<owner, sockets, wire, cut, raised, sock, registry, route, request, reply>>

\* The kernel delivers to whatever connection the number stands for now.
\* A send that fails may have written its part before.
Deliver(t, what) == wire' = [wire EXCEPT ![open[io[t]]] = Append(@, what)]
SendOk(t, what) == open[io[t]] # NoConn /\ Deliver(t, what) /\ UNCHANGED cut
SendFails(t, what) ==
    /\ cut' = cut \cup {sock[t]}
    /\ \/ UNCHANGED wire
       \/ open[io[t]] # NoConn /\ Deliver(t, what)

\* Anything a client may ask.
ReadRequest(t) ==
    /\ Goto(t, "reading", "lookup")
    /\ open[io[t]] # NoConn
    /\ request' \in {[request EXCEPT ![t] = r] : r \in Requests}
    /\ UNCHANGED <<owner, sockets, wire, cut, raised, sock, registry, io, work, route, reply>>

\* A malformed or oversized request, a client that closes, or the read
\* timeout: all are caught by the inner catch (...).
ReadFails(t) ==
    /\ Goto(t, "reading", "badrequest")
    /\ UNCHANGED <<owner, sockets, wire, cut, raised, sock, registry, local>>

\* Mutation: HTTPIO_t's destructor closes the descriptor it was lent.
LeaveClosing(t) == /\ open' = [open EXCEPT ![io[t]] = NoConn]
                   /\ io' = [io EXCEPT ![t] = NoFd]
                   /\ work' = [work EXCEPT ![t] = NoConn]
                   /\ UNCHANGED <<route, request, reply>>

\* What every way out of handle() does: ~HttpIo_t() forgets the descriptor
\* before ~HTTPIO_t() could close it, and work is released.
Leave(t) == /\ io' = [io EXCEPT ![t] = NoFd]
            /\ work' = [work EXCEPT ![t] = NoConn]
            /\ UNCHANGED <<open, route, request, reply>>

\* Mutation: the early return of a bad request forgets work.
AnswerBadRequestKeeps(t) ==
    /\ \/ Goto(t, "badrequest", "releasing") /\ SendOk(t, "400")
          /\ io' = [io EXCEPT ![t] = NoFd] /\ UNCHANGED <<open, work, route, request, reply>>
       \/ Goto(t, "badrequest", "thrown") /\ SendFails(t, "400") /\ UNCHANGED <<open, local>>
    /\ UNCHANGED <<owner, workQueue, place, forbidden, fdOf, raised, sock, registry>>

AnswerBadRequest(t) ==
    /\ \/ Goto(t, "badrequest", "releasing") /\ SendOk(t, "400") /\ Leave(t)
       \/ Goto(t, "badrequest", "thrown") /\ SendFails(t, "400") /\ UNCHANGED <<open, local>>
    /\ UNCHANGED <<owner, workQueue, place, forbidden, fdOf, raised, sock, registry>>

Matching(t) == {i \in DOMAIN registry[t] : request[t].uri \in registry[t][i].uris}

\* The first registered pattern that matches, or 404.
Lookup(t) ==
    /\ pc[t] = "lookup"
    /\ IF Matching(t) = {}
       THEN /\ Goto(t, "lookup", "head")
            /\ reply' = [reply EXCEPT ![t] = [status |-> "404", data |-> "notfound"]]
            /\ UNCHANGED route
       ELSE /\ Goto(t, "lookup", "calling")
            /\ route' = [route EXCEPT ![t] = CHOOSE i \in Matching(t) : \A j \in Matching(t) : i <= j]
            /\ UNCHANGED reply
    /\ UNCHANGED <<owner, sockets, wire, cut, raised, sock, registry, io, work, request>>

\* regex_match() gives up on a pattern that takes too long: it throws, to the
\* outer catch.
LookupThrows(t) ==
    /\ Goto(t, "lookup", "thrown")
    /\ registry[t] # <<>>
    /\ cut' = cut \cup {sock[t]}
    /\ UNCHANGED <<owner, sockets, wire, raised, sock, registry, local>>

\* How the module's method may end: it returns, it throws HttpError_t with a
\* code, or anything else.  JSON-RPC refuses some requests by itself.
Ends(kind, r) == CASE kind = "jsonrpc" /\ ~r.post -> {"405"}
                   [] kind = "jsonrpc" /\ r.post /\ ~r.json -> {"400"}
                   [] OTHER -> {"returns", "302", "404", "exception"}

\* Only these methods write into the response themselves; a JSON method's
\* document is stored when it is complete.
Unfinished(kind) == IF kind \in {"bound", "http"} THEN {"", "partial"} ELSE {""}

\* The wrappers turn an HttpError_t below 400 into a status of their own.
Swallowed(kind, end) == kind # "bound" /\ end = "302"

\* Mutation: the catch (...) leaves the data of the method.
ReplyKeepsData(kind, end, data) ==
    CASE end = "returns" -> [status |-> "200", data |-> "method"]
      [] Swallowed(kind, end) -> [status |-> end, data |-> data]
      [] end = "exception" -> [status |-> "500", data |-> data]
      [] OTHER -> [status |-> end, data |-> "message"]

ReplyOf(kind, end, data) ==
    CASE end = "returns" -> [status |-> "200", data |-> "method"]
      [] Swallowed(kind, end) -> [status |-> end, data |-> data]
      [] end = "exception" -> [status |-> "500", data |-> "message"]
      [] OTHER -> [status |-> end, data |-> "message"]

Call(t) ==
    LET kind == registry[t][route[t]].kind
    IN  /\ Goto(t, "calling", "head")
        /\ \E end \in Ends(kind, request[t]) : \E data \in Unfinished(kind) :
            /\ reply' = [reply EXCEPT ![t] = ReplyOf(kind, end, data)]
            /\ raised' = IF end = "returns" \/ Swallowed(kind, end)
                         THEN raised ELSE raised \cup {sock[t]}
        /\ UNCHANGED <<owner, sockets, wire, cut, sock, registry, io, work, route, request>>

SendHead(t) ==
    LET what == reply[t].status
    IN  /\ \/ Goto(t, "head", "body") /\ SendOk(t, what)
           \/ Goto(t, "head", "thrown") /\ SendFails(t, what)
        /\ UNCHANGED <<owner, sockets, raised, sock, registry, local>>

SendBody(t) ==
    LET what == reply[t].data
    IN  /\ \/ Goto(t, "body", "returning") /\ SendOk(t, what)
           \/ Goto(t, "body", "thrown") /\ SendFails(t, what)
        /\ UNCHANGED <<owner, sockets, raised, sock, registry, local>>

\* The end of handle().
Finish(t) ==
    /\ Goto(t, "returning", "releasing")
    /\ Leave(t)
    /\ UNCHANGED <<owner, workQueue, place, forbidden, fdOf, wire, cut, raised, sock, registry>>

\* The outer catches, which throw on to Worker_t::run().
Unwind(t) ==
    /\ Goto(t, "thrown", "releasing")
    /\ Leave(t)
    /\ UNCHANGED <<owner, workQueue, place, forbidden, fdOf, wire, cut, raised, sock, registry>>

-----------------------------------------------------------------------------
(* forbidden().                                                            *)

\* 403, or the first failure of reading or sending.
Refuse(t) ==
    /\ \/ Goto(t, "forbidding", "releasing") /\ SendOk(t, "403")
          /\ io' = [io EXCEPT ![t] = NoFd]
       \/ Goto(t, "forbidding", "refused") /\ SendFails(t, "403")
          /\ UNCHANGED io
       \/ Goto(t, "forbidding", "refused") /\ UNCHANGED <<io, wire, cut>>
    /\ UNCHANGED <<owner, sockets, raised, sock, registry, work, route, request, reply>>

\* The catch (...): 400, and an exception to Worker_t::run() either way.
RefuseBadly(t) ==
    /\ Goto(t, "refused", "releasing")
    /\ SendOk(t, "400") \/ SendFails(t, "400")
    /\ io' = [io EXCEPT ![t] = NoFd]
    /\ UNCHANGED <<owner, sockets, raised, sock, registry, work, route, request, reply>>

-----------------------------------------------------------------------------
\* Mutation: an exception of handle() ends the loop of run().
ReleaseAndLeave(t) ==
    /\ Goto(t, "releasing", IF sock[t] \in cut THEN "leaving" ELSE "idle")
    /\ open' = [open EXCEPT ![fdOf[sock[t]]] = NoConn]
    /\ fdOf' = [fdOf EXCEPT ![sock[t]] = NoFd]
    /\ place' = [place EXCEPT ![sock[t]] = "closed"]
    /\ sock' = [sock EXCEPT ![t] = NoConn]
    /\ route' = [route EXCEPT ![t] = 0]
    /\ request' = [request EXCEPT ![t] = NoRequest]
    /\ reply' = [reply EXCEPT ![t] = NewReply]
    /\ UNCHANGED <<owner, workQueue, forbidden, wire, cut, raised, registry, io, work>>

\* Back in Worker_t::run(), which catches what handle() throws: the last
\* reference to the socket is dropped, and its destructor closes the number
\* it owns.
Release(t) ==
    /\ Goto(t, "releasing", "idle")
    /\ open' = [open EXCEPT ![fdOf[sock[t]]] = NoConn]
    /\ fdOf' = [fdOf EXCEPT ![sock[t]] = NoFd]
    /\ place' = [place EXCEPT ![sock[t]] = "closed"]
    /\ sock' = [sock EXCEPT ![t] = NoConn]
    /\ route' = [route EXCEPT ![t] = 0]
    /\ request' = [request EXCEPT ![t] = NoRequest]
    /\ reply' = [reply EXCEPT ![t] = NewReply]
    /\ UNCHANGED <<owner, workQueue, forbidden, wire, cut, raised, registry, io, work>>

-----------------------------------------------------------------------------
Handle(t) == \/ Enter(t) \/ ReadRequest(t) \/ ReadFails(t) \/ AnswerBadRequest(t)
             \/ Lookup(t) \/ LookupThrows(t) \/ Call(t) \/ SendHead(t) \/ SendBody(t)
             \/ Finish(t) \/ Unwind(t) \/ Refuse(t) \/ RefuseBadly(t) \/ Release(t)

WorkerStep(t) == \/ CreateWorker(t) \/ RegisterMethod(t) \/ DestroyWorker(t)
                 \/ Take(t) \/ TakeNone(t) \/ Handle(t)

Next == \/ Create \/ Stop \/ Join \/ Delete
        \/ \E c \in Conns : Arrive(c)
        \/ \E t \in Threads : WorkerStep(t)

Spec == Init /\ [][Next]_vars

\* Threads are scheduled; reads and sends end, by their timeouts if need be;
\* createWorkers() and, once begun, the destructor run to their ends.
FairSpec == /\ Spec
            /\ \A t \in Threads : WF_vars(WorkerStep(t))
            /\ WF_vars(Create) /\ WF_vars(Join \/ Delete)

-----------------------------------------------------------------------------
(* Properties.                                                             *)

\* Whatever a worker reads or writes is its own client's: the number in its
\* HttpIo_t always means the connection of its SocketWork_t, although numbers
\* are reused as soon as they are closed (HttpIo_t::~HttpIo_t).
OwnDescriptor == \A t \in Threads : io[t] # NoFd => open[io[t]] = sock[t]

\* getWork() called by a method gives the connection its own thread handles,
\* and no thread keeps a pointer to a SocketWork_t it does not hold, whichever
\* way handle() was left (CppHttpHandler_t::work).
WorkFollowsSocket ==
    \A t \in Threads : /\ pc[t] = "calling" => work[t] = sock[t]
                       /\ work[t] # NoConn => work[t] = sock[t]

\* What a client is sent is whole, whichever of its ways out handle() or
\* forbidden() took: one status line and one body, or a prefix of them if a
\* send failed or the lookup threw; and when the catches of handle() answer for
\* a method, nothing of what it had written but the message of the error (an
\* HttpError_t below 400 does not get there from the wrappers, which keep what
\* was written).  A forbidden client, whom no method serves, is sent the 403
\* once, or the 400 of the failure, or both.
Answered(c) ==
    /\ Len(wire[c]) <= 2
    /\ \A i \in DOMAIN wire[c] : wire[c][i] \in Heads <=> i = 1
    /\ place[c] = "closed" /\ c \notin cut => wire[c] # <<>>
    /\ c \in raised /\ Len(wire[c]) = 2 => wire[c][2] = "message"
Refusals == {<<>>, <<"403">>, <<"400">>, <<"403", "400">>}
Turned(c) == /\ wire[c] \in Refusals
             /\ \A t \in Threads : work[t] # c
AnswersAreWhole == \A c \in Conns : IF c \in forbidden THEN Turned(c) ELSE Answered(c)

\* This handler is a Handler_t as Handler.tla describes one: all the paths of
\* handle() and forbidden() together are its one step Handle, which ends, and
\* no way out of them loses a worker, a connection, or the order of the queue
\* (Worker_t::run with CppHttpHandler_t::Worker_t).
H == INSTANCE Handler WITH
        Handlers <- {"http"},
        WorkerCount <- [h \in {"http"} |-> WorkerCount],
        life <- [h \in {"http"} |-> CASE life = "loading" -> "constructed"
                                      [] life = "created" -> "running"
                                      [] life = "stopping" -> "finishing"
                                      [] life = "deleted" -> "deleted"],
        workQueue <- [h \in {"http"} |-> workQueue],
        pc <- [w \in {"http"} \X Threads |->
                  CASE pc[w[2]] \in {"absent", "leaving", "done"} -> pc[w[2]]
                    [] pc[w[2]] \in {"starting", "registering"} -> "starting"
                    [] pc[w[2]] = "idle" -> "dequeue"
                    [] OTHER -> "handling"],
        socket <- [w \in {"http"} \X Threads |-> sock[w[2]]],
        joined <- [h \in {"http"} |-> joined],
        served <- {c \in Conns : place[c] = "closed"},
        dropped <- {c \in Conns : place[c] = "dropped"}

ImplementsHandler == H!FairSpec
=============================================================================
