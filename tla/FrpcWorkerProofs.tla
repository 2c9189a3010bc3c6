--------------------------- MODULE FrpcWorkerProofs ---------------------------
(***************************************************************************)
(* What a FastRPC worker lends to serve(), for any number of workers,      *)
(* connections and methods and any keep-alive.  Each conjunct of FInv says *)
(* what one thread is like at its place; threads share no slots.           *)
(*                                                                         *)
(* That the handler is a Handler_t rests on QInv besides: the queue holds  *)
(* the queued connections, each once.                                      *)
(***************************************************************************)
EXTENDS FrpcWorker, TLAPS

Lending == {"serving", "calling", "answering", "returning"}
Busy == Lending \cup {"entered", "forbidding", "refused", "releasing"}

\* The part of the type invariant the slots depend on.
Shape ==
    /\ told \in [Conns -> SUBSET Conns]
    /\ pc \in [Threads -> PCs]
    /\ sock \in [Threads -> Conns \cup {NoConn}]
    /\ methods \in [Threads -> SUBSET Methods]
    /\ work \in [Threads -> Conns \cup {NoConn}]
    /\ headersIn \in [Threads -> (SUBSET Conns) \cup {NoHeader}]
    /\ headersOut \in [Threads -> (SUBSET Conns) \cup {NoHeader}]

\* What a thread is like at its place: what is lent, whether it holds a
\* connection, and with which methods it may.
At(t) ==
    /\ pc[t] \in Lending => /\ work[t] = sock[t]
                            /\ headersIn[t] \subseteq {sock[t]} /\ headersOut[t] \subseteq {sock[t]}
    /\ pc[t] = "calling" => headersIn[t] = {sock[t]}
    /\ pc[t] \notin Lending => work[t] = NoConn /\ headersIn[t] = NoHeader /\ headersOut[t] = NoHeader
    /\ sock[t] # NoConn <=> pc[t] \in Busy
    /\ pc[t] \in Busy \cup {"idle"} => methods[t] = Methods /\ t \in hooked

Home == \A c \in Conns : told[c] \subseteq {c}

\* createWorkers() finds no thread.
Loading == life = "loading" => \A t \in Threads : pc[t] = "absent"

FInv == Shape /\ Home /\ Loading /\ \A t \in Threads : At(t)

\* Where a connection is: at one position of the queue, or with one thread.
Whereabouts ==
    /\ \A t \in Threads : sock[t] # NoConn => place[sock[t]] = "held"
    /\ \A t, u \in Threads : sock[t] = sock[u] /\ sock[t] # NoConn => t = u
    /\ \A i \in DOMAIN workQueue : place[workQueue[i]] = "queued"
    /\ \A i, j \in DOMAIN workQueue : workQueue[i] = workQueue[j] => i = j
    /\ \A c \in Conns : place[c] = "queued" => \E i \in DOMAIN workQueue : workQueue[i] = c

QInv == /\ place \in [Conns -> {"new", "queued", "held", "closed", "dropped"}]
        /\ workQueue \in Seq(Conns)
        /\ joined \in Nat
        /\ Whereabouts

-----------------------------------------------------------------------------
(* Facts about queues.                                                     *)

LEMMA TakeHead ==
    ASSUME NEW S, NEW q \in Seq(S), q # <<>>
    PROVE  /\ Head(q) \in S /\ Head(q) = q[1] /\ 1 \in DOMAIN q
           /\ Tail(q) \in Seq(S)
           /\ \A i \in DOMAIN Tail(q) : i \in Nat /\ i + 1 # 1 /\ i + 1 \in DOMAIN q /\ Tail(q)[i] = q[i + 1]
           /\ \A i \in DOMAIN q \ {1} : i - 1 \in DOMAIN Tail(q) /\ Tail(q)[i - 1] = q[i]
OBVIOUS

LEMMA PutLast ==
    ASSUME NEW S, NEW q \in Seq(S), NEW e \in S
    PROVE  /\ Append(q, e) \in Seq(S)
           /\ \A i \in DOMAIN q : i \in DOMAIN Append(q, e) /\ Append(q, e)[i] = q[i]
           /\ \A i \in DOMAIN Append(q, e) : i \notin DOMAIN q => i = Len(q) + 1 /\ Append(q, e)[i] = e
           /\ Len(q) + 1 \in DOMAIN Append(q, e) /\ Append(q, e)[Len(q) + 1] = e
OBVIOUS

-----------------------------------------------------------------------------
LEMMA InitQInv == Init => QInv
BY DEF Init, QInv, Whereabouts

LEMMA InitFInv == Init => FInv
<1> SUFFICES ASSUME Init PROVE FInv
    OBVIOUS
<1>1. Shape /\ Home /\ Loading
  <2>1. told \in [Conns -> SUBSET Conns]
      BY DEF Init
  <2> QED BY <2>1 DEF Init, Shape, PCs, Home, Loading
<1>2. ASSUME NEW t \in Threads PROVE At(t)
    BY DEF Init, At, Busy, Lending
<1> QED BY <1>1, <1>2 DEF FInv

\* Nothing changes for the other threads.
Others(t) ==
    \A u \in Threads \ {t} :
        /\ UNCHANGED <<pc[u], sock[u], methods[u], work[u], headersIn[u], headersOut[u]>>
        /\ u \in hooked' <=> u \in hooked

\* A step of one thread: it suffices to look at that thread.
LEMMA OneThread ==
    ASSUME FInv, NEW t \in Threads, pc[t] # "absent", UNCHANGED life, Others(t), Shape', Home', At(t)'
    PROVE  FInv'
<1>1. ASSUME NEW u \in Threads, u # t PROVE At(u)'
    BY <1>1 DEF FInv, At, Others
<1>2. Loading'
    BY DEF FInv, Loading
<1> QED BY <1>1, <1>2 DEF FInv

\* ... of which this is the case where nothing but the place changes.
LEMMA OnlyMoves ==
    ASSUME FInv, NEW t \in Threads, pc[t] # "absent", UNCHANGED <<life, told, sock, methods, hooked, lent>>,
           NEW p \in PCs \ {"calling"}, pc' = [pc EXCEPT ![t] = p],
           p \in Lending <=> pc[t] \in Lending,
           p \in Busy <=> pc[t] \in Busy,
           p = "idle" => methods[t] = Methods /\ t \in hooked
    PROVE  FInv'
<1>1. Shape' /\ Home' /\ Others(t)
    BY DEF FInv, Shape, Home, Others, lent
<1>2. pc'[t] = p /\ At(t)
    BY DEF FInv, Shape
<1>3. At(t)'
    BY <1>2 DEF At, lent
<1> QED BY <1>1, <1>3, OneThread

LEMMA WorkerFInv == ASSUME FInv, QInv, NEW t \in Threads, WorkerStep(t) PROVE FInv'
<1> USE ConnsAssumption DEF Goto, PCs, Busy, Lending, owner, client, own, lent
<1>0. Shape /\ Home /\ At(t) /\ (UNCHANGED told => Home')
    BY DEF FInv, Home
<1>1. CASE BuildServer(t)
    BY <1>1, OnlyMoves DEF BuildServer
<1>2. CASE Register(t)
  <2>1. PICK m \in SUBSET Methods : methods' = [methods EXCEPT ![t] = m]
      BY <1>0, <1>2 DEF Register, Shape
  <2>2. /\ pc[t] = "registering" /\ pc' = [pc EXCEPT ![t] = "registering"]
        /\ UNCHANGED <<life, told, sock, hooked, work, headersIn, headersOut>>
      BY <1>2 DEF Register
  <2>3. Shape' /\ Others(t)
      BY <1>0, <2>1, <2>2 DEF Shape, Others
  <2>4. At(t)'
      BY <1>0, <2>2 DEF Shape, At
  <2> QED BY <1>0, <2>2, <2>3, <2>4, OneThread
<1>3. CASE ThreadCreated(t)
  <2>1. /\ pc[t] = "registering" /\ pc' = [pc EXCEPT ![t] = "idle"]
        /\ UNCHANGED <<sock, methods, work, headersIn, headersOut, told, life>>
        /\ hooked' = hooked \cup {t} /\ methods[t] = Methods
      BY <1>3 DEF ThreadCreated
  <2>2. Shape' /\ Others(t)
      BY <1>0, <2>1 DEF Shape, Others
  <2>3. At(t)'
      BY <1>0, <2>1 DEF Shape, At
  <2> QED BY <1>0, <2>1, <2>2, <2>3, OneThread
<1>4. CASE Take(t)
  <2>1. PICK c \in Conns : sock' = [sock EXCEPT ![t] = c]
      BY <1>4, TakeHead DEF Take, QInv
  <2>2. /\ pc[t] = "idle" /\ pc' = [pc EXCEPT ![t] = "entered"]
        /\ UNCHANGED <<life, told, methods, hooked, work, headersIn, headersOut>>
      BY <1>4 DEF Take
  <2>3. Shape' /\ Others(t)
      BY <1>0, <2>1, <2>2 DEF Shape, Others
  <2>4. At(t)'
      BY <1>0, <2>1, <2>2 DEF Shape, At
  <2> QED BY <1>0, <2>2, <2>3, <2>4, OneThread
<1>5. CASE Enter(t) /\ sock[t] \in forbidden
    BY <1>5, OnlyMoves DEF Enter
<1>6. CASE Enter(t) /\ sock[t] \notin forbidden
  <2>1. /\ pc[t] = "entered" /\ pc' = [pc EXCEPT ![t] = "serving"]
        /\ UNCHANGED <<sock, methods, told, life>>
        /\ UNCHANGED hooked
        /\ headersIn' = [headersIn EXCEPT ![t] = {}]
        /\ headersOut' = [headersOut EXCEPT ![t] = {}]
        /\ work' = [work EXCEPT ![t] = sock[t]]
      BY <1>6 DEF Enter, Lend
  <2>2. Shape' /\ Others(t)
      BY <1>0, <2>1 DEF Shape, Others
  <2>3. At(t)'
      BY <1>0, <2>1 DEF Shape, At
  <2> QED BY <1>0, <2>1, <2>2, <2>3, OneThread
<1>7. CASE ServeRequest(t)
  <2>1. /\ pc[t] = "serving" /\ pc' = [pc EXCEPT ![t] = "calling"]
        /\ UNCHANGED <<sock, methods, work, headersOut, told, life>>
        /\ UNCHANGED hooked
        /\ headersIn' = [headersIn EXCEPT ![t] = headersIn[t] \cup {sock[t]}]
      BY <1>7 DEF ServeRequest
  <2>2. sock[t] \in Conns /\ headersIn[t] \cup {sock[t]} = {sock[t]}
      BY <1>0, <2>1 DEF Shape, At
  <2>3. Shape' /\ Others(t)
      BY <1>0, <2>1, <2>2 DEF Shape, Others
  <2>4. At(t)'
      BY <1>0, <2>1, <2>2 DEF Shape, At
  <2> QED BY <1>0, <2>1, <2>3, <2>4, OneThread
<1>8. CASE Call(t)
  <2>1. /\ pc[t] = "calling" /\ pc' = [pc EXCEPT ![t] = "answering"]
        /\ UNCHANGED <<life, told, sock, methods, hooked, work, headersIn>>
      BY <1>8 DEF Call
  <2>2. sock[t] \in Conns /\ work[t] = sock[t] /\ headersOut[t] \subseteq {sock[t]}
      BY <1>0, <2>1 DEF Shape, At
  <2>3. \/ headersOut' = [headersOut EXCEPT ![t] = headersOut[t]]
        \/ headersOut' = [headersOut EXCEPT ![t] = headersOut[t] \cup {sock[t]}]
      BY <1>0, <1>8, <2>2 DEF Call, Shape
  <2>4. PICK out \in SUBSET {sock[t]} : headersOut' = [headersOut EXCEPT ![t] = out]
      BY <2>2, <2>3
  <2>5. Shape' /\ Others(t)
      BY <1>0, <2>1, <2>2, <2>4 DEF Shape, Others
  <2>6. At(t)'
      BY <1>0, <2>1, <2>2, <2>4 DEF Shape, At
  <2> QED BY <1>0, <2>1, <2>5, <2>6, OneThread
<1>9. CASE Answer(t)
  <2>1. /\ pc[t] = "answering" /\ UNCHANGED <<life, sock, methods, hooked, work, headersIn, headersOut>>
        /\ told' = [told EXCEPT ![sock[t]] = told[sock[t]] \cup headersOut[t]]
      BY <1>9 DEF Answer
  <2>2. PICK p \in {"serving", "returning"} : pc' = [pc EXCEPT ![t] = p]
      BY <1>9 DEF Answer
  <2>3. sock[t] \in Conns /\ headersOut[t] \subseteq {sock[t]}
      BY <1>0, <2>1 DEF Shape, At
  <2>4. Shape' /\ Others(t)
      BY <1>0, <2>1, <2>2, <2>3 DEF Shape, Others
  <2>5. Home'
      BY <1>0, <2>1, <2>3 DEF Shape, Home
  <2>6. At(t)'
      BY <1>0, <2>1, <2>2 DEF Shape, At
  <2> QED BY <2>1, <2>4, <2>5, <2>6, OneThread
<1>10. CASE ServeEnds(t)
    BY <1>10, OnlyMoves DEF ServeEnds
<1>11. CASE Leave(t)
  <2>1. /\ pc[t] = "returning" /\ pc' = [pc EXCEPT ![t] = "releasing"]
        /\ UNCHANGED <<sock, methods, told, life>>
        /\ UNCHANGED hooked
        /\ headersIn' = [headersIn EXCEPT ![t] = NoHeader]
        /\ headersOut' = [headersOut EXCEPT ![t] = NoHeader]
        /\ work' = [work EXCEPT ![t] = NoConn]
      BY <1>11 DEF Leave, Lend
  <2>2. Shape' /\ Others(t)
      BY <1>0, <2>1 DEF Shape, Others
  <2>3. At(t)'
      BY <1>0, <2>1 DEF Shape, At
  <2> QED BY <1>0, <2>1, <2>2, <2>3, OneThread
<1>12. CASE Refuse(t)
    BY <1>12, OnlyMoves DEF Refuse
<1>13. CASE RefuseBadly(t)
    BY <1>13, OnlyMoves DEF RefuseBadly
<1>14. CASE Release(t)
  <2>1. /\ pc[t] = "releasing" /\ pc' = [pc EXCEPT ![t] = "idle"]
        /\ UNCHANGED <<methods, work, headersIn, headersOut, told, life>>
        /\ UNCHANGED hooked
        /\ sock' = [sock EXCEPT ![t] = NoConn]
      BY <1>14 DEF Release
  <2>2. Shape' /\ Others(t)
      BY <1>0, <2>1 DEF Shape, Others
  <2>3. At(t)'
      BY <1>0, <2>1 DEF Shape, At
  <2> QED BY <1>0, <2>1, <2>2, <2>3, OneThread
<1>15. CASE ThreadDestroy(t)
  <2>1. /\ pc[t] = "idle" /\ pc' = [pc EXCEPT ![t] = "tearing"]
        /\ UNCHANGED <<sock, methods, work, headersIn, headersOut, told, life>>
        /\ hooked' = hooked \ {t}
      BY <1>15 DEF ThreadDestroy
  <2>2. Shape' /\ Others(t)
      BY <1>0, <2>1 DEF Shape, Others
  <2>3. At(t)'
      BY <1>0, <2>1 DEF Shape, At
  <2> QED BY <1>0, <2>1, <2>2, <2>3, OneThread
<1>16. CASE TearDown(t)
  <2>1. pc[t] = "tearing" /\ UNCHANGED <<life, told, sock, hooked, work, headersIn, headersOut>>
      BY <1>16 DEF TearDown
  <2>2. PICK p \in {"tearing", "done"} : pc' = [pc EXCEPT ![t] = p]
      BY <1>16 DEF TearDown
  <2>3. PICK m \in SUBSET Methods : methods' = [methods EXCEPT ![t] = m]
      BY <1>0, <1>16 DEF TearDown, Shape
  <2>4. Shape' /\ Others(t)
      BY <1>0, <2>1, <2>2, <2>3 DEF Shape, Others
  <2>5. At(t)'
      BY <1>0, <2>1, <2>2 DEF Shape, At
  <2> QED BY <1>0, <2>1, <2>4, <2>5, OneThread
<1> QED
    BY <1>1, <1>2, <1>3, <1>4, <1>5, <1>6, <1>7, <1>8, <1>9, <1>10, <1>11, <1>12, <1>13, <1>14,
       <1>15, <1>16
    DEF WorkerStep, Handle, Serve

LEMMA NextFInv == FInv /\ QInv /\ [Next]_vars => FInv'
<1> SUFFICES ASSUME FInv, QInv, [Next]_vars PROVE FInv'
    OBVIOUS
<1> USE DEF owner, client, own, lent
<1>1. CASE Create
  <2>1. pc' = [t \in Threads |-> "starting"] /\ life' = "created"
        /\ UNCHANGED <<told, sock, methods, hooked, work, headersIn, headersOut>>
      BY <1>1 DEF Create
  <2>2. \A t \in Threads : pc[t] = "absent"
      BY <1>1 DEF Create, FInv, Loading
  <2>3. Shape' /\ Home' /\ Loading'
      BY <2>1 DEF FInv, Shape, Home, Loading, PCs
  <2>4. ASSUME NEW t \in Threads PROVE At(t)'
      BY <2>1, <2>2 DEF FInv, At, Busy, Lending
  <2> QED BY <2>3, <2>4 DEF FInv
<1>2. ASSUME UNCHANGED <<told, pc, sock, methods, hooked, work, headersIn, headersOut>>,
             life' = "loading" => life = "loading"
      PROVE  FInv'
    BY <1>2 DEF FInv, Shape, At, Home, Loading
<1>3. CASE Stop \/ Join \/ Delete
    BY <1>2, <1>3 DEF Stop, Join, Delete
<1>4. ASSUME NEW c \in Conns, Arrive(c) PROVE FInv'
    BY <1>2, <1>4 DEF Arrive
<1>5. ASSUME NEW t \in Threads, WorkerStep(t) PROVE FInv'
    BY <1>5, WorkerFInv
<1>6. CASE UNCHANGED vars
    BY <1>2, <1>6 DEF vars
<1> QED BY <1>1, <1>3, <1>4, <1>5, <1>6 DEF Next

-----------------------------------------------------------------------------
(* The queue.                                                              *)

LEMMA TakeQInv == ASSUME FInv, QInv, NEW t \in Threads, Take(t) PROVE QInv'
<1> DEFINE c == Head(workQueue)
<1>1. /\ workQueue # <<>> /\ workQueue' = Tail(workQueue)
      /\ place' = [place EXCEPT ![c] = "held"]
      /\ sock' = [sock EXCEPT ![t] = c]
      /\ UNCHANGED joined
    BY DEF Take, owner
<1>2. c \in Conns /\ place[c] = "queued" /\ c = workQueue[1]
    BY <1>1, TakeHead DEF QInv, Whereabouts
<1> HIDE DEF c
<1>3. /\ \A i \in DOMAIN workQueue' : i \in Nat /\ i + 1 # 1 /\ i + 1 \in DOMAIN workQueue
                                      /\ workQueue'[i] = workQueue[i + 1]
      /\ \A i \in DOMAIN workQueue \ {1} : i - 1 \in DOMAIN workQueue' /\ workQueue'[i - 1] = workQueue[i]
      /\ 1 \in DOMAIN workQueue
    BY <1>1, TakeHead DEF QInv
<1>4. \A u \in Threads : sock[u] # c
    BY <1>2, ConnsAssumption DEF QInv, Whereabouts
<1>5. /\ \A u \in Threads : sock'[u] # NoConn => place'[sock'[u]] = "held"
      /\ \A u, v \in Threads : sock'[u] = sock'[v] /\ sock'[u] # NoConn => u = v
    BY <1>1, <1>2, <1>4 DEF FInv, Shape, QInv, Whereabouts
<1>6. \A i \in DOMAIN workQueue' : place'[workQueue'[i]] = "queued"
  <2> SUFFICES ASSUME NEW i \in DOMAIN workQueue' PROVE place'[workQueue'[i]] = "queued"
      OBVIOUS
  <2>1. workQueue'[i] # c
      BY <1>3, <1>2 DEF QInv, Whereabouts
  <2>2. workQueue'[i] \in Conns /\ place[workQueue'[i]] = "queued"
      BY <1>3 DEF QInv, Whereabouts
  <2> QED BY <2>1, <2>2, <1>1, <1>2 DEF QInv
<1>7. \A i, j \in DOMAIN workQueue' : workQueue'[i] = workQueue'[j] => i = j
  <2> SUFFICES ASSUME NEW i \in DOMAIN workQueue', NEW j \in DOMAIN workQueue',
                      workQueue'[i] = workQueue'[j]
               PROVE  i = j
      OBVIOUS
  <2>1. i + 1 = j + 1
      BY <1>3 DEF QInv, Whereabouts
  <2> QED BY <1>3, <2>1
<1>8. \A d \in Conns : place'[d] = "queued" => \E i \in DOMAIN workQueue' : workQueue'[i] = d
  <2> SUFFICES ASSUME NEW d \in Conns, place'[d] = "queued"
               PROVE  \E i \in DOMAIN workQueue' : workQueue'[i] = d
      OBVIOUS
  <2>1. d # c /\ place[d] = "queued"
      BY <1>1, <1>2 DEF QInv
  <2>2. PICK i \in DOMAIN workQueue : workQueue[i] = d
      BY <2>1 DEF QInv, Whereabouts
  <2>3. i # 1
      BY <2>1, <2>2, <1>2
  <2> QED BY <1>3, <2>2, <2>3
<1>9. workQueue' \in Seq(Conns)
    BY <1>1, TakeHead DEF QInv
<1> QED BY <1>1, <1>2, <1>5, <1>6, <1>7, <1>8, <1>9 DEF QInv, Whereabouts

\* No other step of a thread but its last one with a connection touches the
\* queue or a place.
Idle(t) == \/ BuildServer(t) \/ Register(t) \/ ThreadCreated(t) \/ ThreadDestroy(t) \/ TearDown(t)
           \/ Enter(t) \/ Serve(t) \/ Leave(t) \/ Refuse(t) \/ RefuseBadly(t)

LEMMA NextQInv == FInv /\ QInv /\ [Next]_vars => QInv'
<1> SUFFICES ASSUME FInv, QInv, [Next]_vars PROVE QInv'
    OBVIOUS
<1> USE DEF owner, client, own, lent
<1>1. ASSUME UNCHANGED <<place, workQueue, sock>>, joined' \in Nat PROVE QInv'
    BY <1>1 DEF QInv, Whereabouts
<1>2. CASE Create \/ Stop \/ Join
    BY <1>1, <1>2 DEF Create, Stop, Join, QInv
<1>3. CASE Delete
    BY <1>3 DEF Delete, QInv, Whereabouts, FInv, Shape
<1>4. ASSUME NEW c \in Conns, Arrive(c) PROVE QInv'
  <2>1. /\ place[c] = "new" /\ place' = [place EXCEPT ![c] = "queued"]
        /\ workQueue' = Append(workQueue, c) /\ UNCHANGED <<sock, joined>>
      BY <1>4 DEF Arrive
  <2> QED BY <2>1, PutLast DEF QInv, Whereabouts, FInv, Shape
<1>5. ASSUME NEW t \in Threads, WorkerStep(t) PROVE QInv'
  <2>1. CASE Take(t)
      BY <2>1, TakeQInv
  <2>2. CASE Release(t)
    <3>1. /\ pc[t] = "releasing" /\ place' = [place EXCEPT ![sock[t]] = "closed"]
          /\ sock' = [sock EXCEPT ![t] = NoConn] /\ UNCHANGED <<workQueue, joined>>
        BY <2>2 DEF Release, Goto
    <3>2. sock[t] \in Conns /\ place[sock[t]] = "held"
        BY <3>1 DEF FInv, Shape, At, Busy, QInv, Whereabouts
    <3> QED BY <3>1, <3>2 DEF FInv, Shape, QInv, Whereabouts
  <2>3. CASE Idle(t)
    <3>1. UNCHANGED <<place, workQueue, sock, joined>>
        BY <2>3 DEF Idle, BuildServer, Register, ThreadCreated, ThreadDestroy, TearDown, Enter,
               Serve, ServeRequest, Call, Answer, ServeEnds, Leave, Refuse, RefuseBadly
    <3> QED BY <1>1, <3>1 DEF QInv
  <2> QED BY <1>5, <2>1, <2>2, <2>3 DEF WorkerStep, Handle, Idle
<1>6. CASE UNCHANGED vars
    BY <1>1, <1>6 DEF vars, QInv
<1> QED BY <1>2, <1>3, <1>4, <1>5, <1>6 DEF Next

LEMMA InvAlways == Spec => [](FInv /\ QInv)
BY InitFInv, InitQInv, NextFInv, NextQInv, PTL DEF Spec

LEMMA FInvAlways == Spec => []FInv
BY InvAlways, PTL

-----------------------------------------------------------------------------
\* The headers of one client never reach another, and nothing lent to serve()
\* stays behind in the thread (Module_t::headersIn, headersOut, getWork).
THEOREM HeadersStayHomeAlways == Spec => []HeadersStayHome
<1>1. FInv => HeadersStayHome
    BY DEF FInv, At, Home, HeadersStayHome, Lending
<1> QED BY <1>1, FInvAlways, PTL

\* A worker that holds a connection has all methods of the module, between its
\* threadCreate() and its threadDestroy().
THEOREM AllMethodsOrNoneAlways == Spec => []AllMethodsOrNone
<1>1. FInv => AllMethodsOrNone
    BY DEF FInv, At, AllMethodsOrNone
<1> QED BY <1>1, FInvAlways, PTL

-----------------------------------------------------------------------------
(* The workers implement Handler, step by step.                            *)

\* How Handler sees a place of a thread, ...
Seen(p) == CASE p \in {"absent", "done"} -> p
             [] p \in {"starting", "registering"} -> "starting"
             [] p = "idle" -> "dequeue"
             [] p = "tearing" -> "leaving"
             [] OTHER -> "handling"

\* ... all the threads, and the connections.
SeenPc == [w \in {"frpc"} \X Threads |-> Seen(pc[w[2]])]
SeenSocket == [w \in {"frpc"} \X Threads |-> sock[w[2]]]
Closed == {c \in Conns : place[c] = "closed"}
Dropped == {c \in Conns : place[c] = "dropped"}

LEMMA Places ==
    /\ Seen("absent") = "absent" /\ Seen("done") = "done"
    /\ Seen("starting") = "starting" /\ Seen("registering") = "starting"
    /\ Seen("idle") = "dequeue" /\ Seen("tearing") = "leaving"
    /\ \A p \in Busy : Seen(p) = "handling"
BY DEF Seen, Busy, Lending

LEMMA HandlerWorkers ==
    /\ H!Workers = {"frpc"} \X Threads
    /\ \A t \in Threads : <<"frpc", t>> \in H!Workers /\ <<"frpc", t>>[1] = "frpc" /\ <<"frpc", t>>[2] = t
BY DEF H!Workers, Threads

\* What Handler sees when thread t goes to p, and when it takes or lets go of
\* a connection.
LEMMA SeenStep ==
    ASSUME Shape, NEW t \in Threads, NEW p, pc' = [pc EXCEPT ![t] = p]
    PROVE  /\ SeenPc' = [SeenPc EXCEPT ![<<"frpc", t>>] = Seen(p)]
           /\ SeenPc[<<"frpc", t>>] = Seen(pc[t])
<1> DEFINE W == {"frpc"} \X Threads
           old == SeenPc
           new == SeenPc'
<1>0. /\ old = [w \in W |-> Seen(pc[w[2]])]
      /\ new = [w \in W |-> Seen(pc'[w[2]])]
    BY DEF SeenPc, Seen
<1> HIDE DEF old, new
<1>1. ASSUME NEW w \in W PROVE new[w] = [old EXCEPT ![<<"frpc", t>>] = Seen(p)][w]
  <2>1. w[2] \in Threads /\ w = <<"frpc", w[2]>>
      OBVIOUS
  <2>2. CASE w[2] = t
      BY <1>0, <2>1, <2>2 DEF Shape
  <2>3. CASE w[2] # t
      BY <1>0, <2>1, <2>3 DEF Shape
  <2> QED BY <2>2, <2>3
<1> QED BY <1>0, <1>1 DEF old, new

LEMMA SocketStep ==
    ASSUME Shape, NEW t \in Threads, NEW c, sock' = [sock EXCEPT ![t] = c]
    PROVE  /\ SeenSocket' = [SeenSocket EXCEPT ![<<"frpc", t>>] = c]
           /\ SeenSocket[<<"frpc", t>>] = sock[t]
<1> DEFINE W == {"frpc"} \X Threads
           old == SeenSocket
           new == SeenSocket'
<1>0. /\ old = [w \in W |-> sock[w[2]]]
      /\ new = [w \in W |-> sock'[w[2]]]
    BY DEF SeenSocket
<1> HIDE DEF old, new
<1>1. ASSUME NEW w \in W PROVE new[w] = [old EXCEPT ![<<"frpc", t>>] = c][w]
  <2>1. w[2] \in Threads /\ w = <<"frpc", w[2]>>
      OBVIOUS
  <2>2. CASE w[2] = t
      BY <1>0, <2>1, <2>2 DEF Shape
  <2>3. CASE w[2] # t
      BY <1>0, <2>1, <2>3 DEF Shape
  <2> QED BY <2>2, <2>3
<1> QED BY <1>0, <1>1 DEF old, new

\* A step in which no thread changes what Handler sees of it.
LEMMA HiddenStep ==
    ASSUME UNCHANGED <<life, joined, workQueue, place, sock>>,
           \A t \in Threads : Seen(pc[t])' = Seen(pc[t])
    PROVE  UNCHANGED H!hvars
BY DEF H!hvars, Seen

LEMMA HandlerInit == Init => H!Init
<1> SUFFICES ASSUME Init PROVE H!Init
    OBVIOUS
<1> QED BY HandlerWorkers DEF Init, H!Init

LEMMA HandlerOwner ==
    ASSUME QInv, Create \/ Stop \/ Join \/ Delete
    PROVE  H!OwnerStep("frpc")
<1> USE DEF owner, client
<1>1. CASE Create
  <2> SUFFICES H!CreateWorkers("frpc")
      BY DEF H!OwnerStep
  <2> QED BY <1>1, HandlerWorkers DEF H!CreateWorkers, Create
<1>2. CASE Stop
  <2> SUFFICES H!BeginDestroy("frpc")
      BY DEF H!OwnerStep
  <2> QED BY <1>2 DEF H!BeginDestroy, Stop
<1>3. CASE Join
  <2> SUFFICES H!JoinWorker("frpc")
      BY DEF H!OwnerStep
  <2>1. joined + 1 \in Threads
      BY <1>3, CountAssumption DEF Join, Threads, QInv
  <2>2. <<"frpc", joined + 1>> \in {"frpc"} \X Threads
      BY <2>1
  <2> QED BY <1>3, <2>1, <2>2 DEF H!JoinWorker, Join
<1>4. CASE Delete
  <2> SUFFICES H!Delete("frpc")
      BY DEF H!OwnerStep
  <2>1. /\ life = "stopping" /\ life' = "deleted" /\ joined = WorkerCount /\ workQueue' = <<>>
        /\ place' = [c \in Conns |-> IF place[c] = "queued" THEN "dropped" ELSE place[c]]
        /\ UNCHANGED <<pc, sock, joined>>
      BY <1>4 DEF Delete
  <2>2. Closed' = Closed
      BY <2>1 DEF Closed
  <2>3. {c \in Conns : place[c] = "queued"} = {workQueue[i] : i \in DOMAIN workQueue}
      BY DEF QInv, Whereabouts
  <2>4. Dropped' = Dropped \cup {workQueue[i] : i \in DOMAIN workQueue}
      BY <2>1, <2>3 DEF Dropped
  <2>5. H!Queued("frpc") = {workQueue[i] : i \in DOMAIN workQueue}
      BY DEF H!Queued
  <2> QED BY <2>1, <2>2, <2>4, <2>5 DEF H!Delete, Closed, Dropped
<1> QED BY <1>1, <1>2, <1>3, <1>4

LEMMA HandlerArrive ==
    ASSUME FInv, QInv, NEW c \in Conns, Arrive(c)
    PROVE  ~H!Submitted(c) /\ H!Enqueue("frpc", c)
<1> USE DEF owner, client
<1>1. ~H!Submitted(c)
    BY HandlerWorkers, ConnsAssumption DEF H!Submitted, H!Queued, Arrive, QInv, Whereabouts, Threads
<1>2. H!Enqueue("frpc", c)
    BY DEF H!Enqueue, Arrive, QInv, FInv, Shape
<1> QED BY <1>1, <1>2

LEMMA HandlerWorker ==
    ASSUME FInv, QInv, NEW t \in Threads, WorkerStep(t)
    PROVE  \/ UNCHANGED H!hvars
           \/ H!WorkerStep(<<"frpc", t>>)
           \/ H!Handle(<<"frpc", t>>)
<1> USE DEF Goto, owner, client
<1> DEFINE w0 == <<"frpc", t>>
<1>0. Shape
    BY DEF FInv
<1>1. CASE ThreadCreated(t)
  <2>1. SeenPc[w0] = "starting" /\ SeenPc' = [SeenPc EXCEPT ![w0] = "dequeue"]
    <3>1. pc[t] = "registering" /\ pc' = [pc EXCEPT ![t] = "idle"]
        BY <1>1 DEF ThreadCreated
    <3> QED BY <1>0, <3>1, SeenStep DEF Seen
  <2>2. UNCHANGED <<life, workQueue, sock, joined, place>>
      BY <1>1 DEF ThreadCreated
  <2>3. H!WorkerStart(w0)
      BY <2>1, <2>2 DEF H!WorkerStart, SeenPc, Seen
  <2> QED BY <2>3 DEF H!WorkerStep
<1>2. CASE ThreadDestroy(t)
  <2>1. SeenPc[w0] = "dequeue" /\ SeenPc' = [SeenPc EXCEPT ![w0] = "leaving"]
    <3>1. pc[t] = "idle" /\ pc' = [pc EXCEPT ![t] = "tearing"]
        BY <1>2 DEF ThreadDestroy
    <3> QED BY <1>0, <3>1, SeenStep DEF Seen
  <2>2. life = "stopping" /\ UNCHANGED <<life, workQueue, sock, joined, place>>
      BY <1>2 DEF ThreadDestroy
  <2>3. H!DequeueNone(w0)
      BY <2>1, <2>2 DEF H!DequeueNone, SeenPc, Seen
  <2> QED BY <2>3 DEF H!WorkerStep
<1>3. CASE TearDown(t)
  <2>1. UNCHANGED <<life, workQueue, sock, joined, place>> /\ pc[t] = "tearing"
      BY <1>3 DEF TearDown
  <2>2. CASE pc' = [pc EXCEPT ![t] = "tearing"]
    <3>1. \A u \in Threads : Seen(pc[u])' = Seen(pc[u])
        BY <1>0, <2>1, <2>2 DEF Shape, Seen
    <3> QED BY <2>1, <3>1, HiddenStep
  <2>3. CASE pc' = [pc EXCEPT ![t] = "done"]
    <3>1. SeenPc[w0] = "leaving" /\ SeenPc' = [SeenPc EXCEPT ![w0] = "done"]
        BY <1>0, <2>1, <2>3, SeenStep, Places
    <3>2. H!WorkerLeave(w0)
        BY <2>1, <3>1 DEF H!WorkerLeave, SeenPc, Seen
    <3> QED BY <3>2 DEF H!WorkerStep
  <2> QED BY <1>3, <2>2, <2>3 DEF TearDown
<1>4. CASE Take(t)
  <2>1. Head(workQueue) \in Conns /\ place[Head(workQueue)] = "queued"
      BY <1>4, TakeHead DEF Take, QInv, Whereabouts
  <2>2. Closed' = Closed /\ Dropped' = Dropped
      BY <1>4, <2>1 DEF Take, QInv, Closed, Dropped
  <2>3. SeenPc[w0] = "dequeue" /\ SeenPc' = [SeenPc EXCEPT ![w0] = "handling"]
    <3>1. Seen("entered") = "handling" /\ pc[t] = "idle" /\ pc' = [pc EXCEPT ![t] = "entered"]
        BY <1>4, Places DEF Take, Busy
    <3> QED BY <1>0, <3>1, SeenStep DEF Seen
  <2>4. SeenSocket' = [SeenSocket EXCEPT ![w0] = Head(workQueue)]
      BY <1>0, <1>4, SocketStep DEF Take
  <2>5. UNCHANGED <<life, joined>> /\ workQueue # <<>> /\ workQueue' = Tail(workQueue)
      BY <1>4 DEF Take
  <2>6. /\ w0[1] = "frpc"
        /\ [h \in {"frpc"} |-> workQueue]["frpc"] = workQueue
        /\ [h \in {"frpc"} |-> workQueue'] = [[h \in {"frpc"} |-> workQueue] EXCEPT !["frpc"] = Tail(workQueue)]
      BY <2>5
  <2>7. H!Dequeue(w0)
    <3> HIDE DEF w0
    <3> QED BY <2>2, <2>3, <2>4, <2>5, <2>6 DEF H!Dequeue, SeenPc, Seen, SeenSocket, Closed, Dropped
  <2> QED BY <2>7 DEF H!WorkerStep
<1>5. CASE Release(t)
  <2>1. sock[t] \in Conns /\ place[sock[t]] = "held"
      BY <1>5 DEF Release, FInv, Shape, At, Busy, QInv, Whereabouts
  <2>2. Closed' = Closed \cup {sock[t]} /\ Dropped' = Dropped
      BY <1>5, <2>1 DEF Release, QInv, Closed, Dropped
  <2>3. SeenPc[w0] = "handling" /\ SeenPc' = [SeenPc EXCEPT ![w0] = "dequeue"]
    <3>1. Seen("releasing") = "handling" /\ pc[t] = "releasing" /\ pc' = [pc EXCEPT ![t] = "idle"]
        BY <1>5, Places DEF Release, Busy
    <3> QED BY <1>0, <3>1, SeenStep DEF Seen
  <2>4. SeenSocket[w0] = sock[t] /\ SeenSocket' = [SeenSocket EXCEPT ![w0] = NoConn]
      BY <1>0, <1>5, SocketStep DEF Release
  <2>5. UNCHANGED <<life, workQueue, joined>>
      BY <1>5 DEF Release
  <2>6. H!Handle(w0)
      BY <2>2, <2>3, <2>4, <2>5 DEF H!Handle, SeenPc, Seen, SeenSocket, Closed, Dropped
  <2> QED BY <2>6
<1>6. CASE BuildServer(t) \/ Register(t)
  <2>1. UNCHANGED <<life, workQueue, sock, joined, place>>
      BY <1>6 DEF BuildServer, Register
  <2>2. pc[t] \in {"starting", "registering"} /\ pc' = [pc EXCEPT ![t] = "registering"]
      BY <1>6 DEF BuildServer, Register
  <2>3. \A u \in Threads : Seen(pc[u])' = Seen(pc[u])
      BY <1>0, <2>2, Places DEF Shape
  <2> QED BY <2>1, <2>3, HiddenStep
<1>7. CASE Enter(t) \/ Serve(t) \/ Leave(t) \/ Refuse(t) \/ RefuseBadly(t)
  <2>1. UNCHANGED <<life, workQueue, sock, joined, place>>
      BY <1>7 DEF Enter, Serve, ServeRequest, Call, Answer, ServeEnds, Leave, Refuse, RefuseBadly
  <2>2. pc[t] \in Busy /\ \E p \in Busy : pc' = [pc EXCEPT ![t] = p]
      BY <1>7 DEF Enter, Serve, ServeRequest, Call, Answer, ServeEnds, Leave, Refuse, RefuseBadly,
             Busy, Lending
  <2>3. \A u \in Threads : Seen(pc[u])' = Seen(pc[u])
      BY <1>0, <2>2, Places DEF Shape
  <2> QED BY <2>1, <2>3, HiddenStep
<1> QED BY <1>1, <1>2, <1>3, <1>4, <1>5, <1>6, <1>7 DEF WorkerStep, Handle

LEMMA HandlerNext ==
    ASSUME FInv, QInv, [Next]_vars
    PROVE  [H!Next]_(H!hvars)
<1>1. CASE Create \/ Stop \/ Join \/ Delete
    BY <1>1, HandlerOwner DEF H!Next
<1>2. ASSUME NEW c \in Conns, Arrive(c) PROVE [H!Next]_(H!hvars)
    BY <1>2, HandlerArrive DEF H!Next
<1>3. ASSUME NEW t \in Threads, WorkerStep(t) PROVE [H!Next]_(H!hvars)
    BY <1>3, HandlerWorker, HandlerWorkers DEF H!Next
<1>4. CASE UNCHANGED vars
    BY <1>4, HiddenStep DEF vars, owner, client, Seen
<1> QED BY <1>1, <1>2, <1>3, <1>4 DEF Next

\* Every step of this handler is a step of Handler or one that Handler does not
\* see: no way out of serve() or of forbidden() loses a worker, a connection or
\* the order of the queue (Worker_t::run with CppFrpcHandler_t::Worker_t).
THEOREM FrpcImplementsHandler == Spec => H!Spec
<1>1. FInv /\ QInv /\ [Next]_vars => [H!Next]_(H!hvars)
    BY HandlerNext
<1> QED BY <1>1, HandlerInit, InvAlways, PTL DEF Spec, H!Spec

-----------------------------------------------------------------------------
(* What is proved of every handler holds for this one.                     *)

HP == INSTANCE HandlerProofs WITH
        Handlers <- {"frpc"},
        WorkerCount <- [h \in {"frpc"} |-> WorkerCount],
        life <- [h \in {"frpc"} |-> CASE life = "loading" -> "constructed"
                                      [] life = "created" -> "running"
                                      [] life = "stopping" -> "finishing"
                                      [] life = "deleted" -> "deleted"],
        workQueue <- [h \in {"frpc"} |-> workQueue],
        pc <- SeenPc,
        socket <- SeenSocket,
        joined <- [h \in {"frpc"} |-> joined],
        served <- Closed,
        dropped <- Dropped

LEMMA SameHandler == HP!Init = H!Init /\ HP!Next = H!Next /\ HP!hvars = H!hvars
BY DEF HP!Init, H!Init, HP!Next, H!Next, HP!hvars, H!hvars, HP!Workers, H!Workers,
       HP!OwnerStep, H!OwnerStep, HP!CreateWorkers, H!CreateWorkers, HP!BeginDestroy, H!BeginDestroy,
       HP!JoinWorker, H!JoinWorker, HP!Delete, H!Delete, HP!Queued, H!Queued, HP!Submitted, H!Submitted,
       HP!Enqueue, H!Enqueue, HP!WorkerStep, H!WorkerStep, HP!WorkerStart, H!WorkerStart,
       HP!Dequeue, H!Dequeue, HP!DequeueNone, H!DequeueNone, HP!WorkerLeave, H!WorkerLeave,
       HP!Handle, H!Handle, SeenPc, Seen, SeenSocket, Closed, Dropped

LEMMA IsHandler == Spec => HP!Spec
<1>1. H!Init => HP!Init
    BY SameHandler
<1>2. [H!Next]_(H!hvars) => [HP!Next]_(HP!hvars)
  <2>1. CASE H!Next
      BY <2>1, SameHandler
  <2>2. CASE UNCHANGED H!hvars
      BY <2>2 DEF H!hvars, HP!hvars, SeenPc, Seen, SeenSocket, Closed, Dropped
  <2> QED BY <2>1, <2>2
<1> QED BY <1>1, <1>2, FrpcImplementsHandler, PTL DEF H!Spec, HP!Spec

\* The assumptions of Handler, for this one.
LEMMA HandlerFacts == [h \in {"frpc"} |-> WorkerCount] \in [{"frpc"} -> Nat] /\ NoConn \notin Conns
BY CountAssumption, ConnsAssumption

\* No connection is given to two FastRPC workers or lost between them, no way
\* out of serve() costs the pool a thread, and none survives the handler, with
\* its server and methods, into ~CppFrpcHandler_t() (Handler_t::destroyWorkers).
THEOREM FrpcKeepsPromises == Spec => [](HP!OnePlace /\ HP!PoolIsWhole /\ HP!NoWorkerOutlivesHandler)
BY IsHandler, HandlerFacts, HP!OnePlaceAlways, HP!PoolIsWholeAlways,
   HP!NoWorkerOutlivesHandlerAlways, PTL

\* A connection handed to the FastRPC handler is served in its turn, at most as
\* many at a time as it has workers, or dropped when the handler goes
\* (Handler_t::enqueue, CppFrpcHandler_t::~CppFrpcHandler_t).
THEOREM FrpcDispatches == Spec => HP!D!Spec
BY IsHandler, HandlerFacts, HP!ImplementsDispatchSafely, PTL
=============================================================================
