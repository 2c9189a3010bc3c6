--------------------------- MODULE HttpWorkerProofs ---------------------------
(***************************************************************************)
(* The thread-local slots of the HTTP workers and what they say to their   *)
(* clients, for any number of workers, connections, descriptor numbers and *)
(* routes.                                                                 *)
(*                                                                         *)
(* That a worker's number is its own client's although numbers are reused  *)
(* rests on three facts: a worker holds a connection exactly while it is   *)
(* busy (Slots), no two of them hold the same one (Whereabouts), and a     *)
(* number stays open for the connection of a socket object as long as that *)
(* is queued or held (Descriptors).                                        *)
(*                                                                         *)
(* That answers are whole rests on what a thread has said when it is at a  *)
(* place of handle() or forbidden() (Spoken), on nobody having answered a  *)
(* client before (Unspoken), and on the last word staying (Ended).         *)
(*                                                                         *)
(* At the end, what is proved of every Handler is concluded for this one.  *)
(***************************************************************************)
EXTENDS HttpWorker, TLAPS

\* Inside handle() after work was set; busy with a connection at all.
Inside == {"reading", "badrequest", "lookup", "calling", "head", "body", "returning", "thrown"}
Busy == Inside \cup {"entered", "forbidding", "refused", "releasing"}

\* The part of the type invariant the slots depend on.
Shape ==
    /\ place \in [Conns -> {"new", "queued", "held", "closed", "dropped"}]
    /\ workQueue \in Seq(Conns)
    /\ fdOf \in [Conns -> Fds \cup {NoFd}]
    /\ open \in [Fds -> Conns \cup {NoConn}]
    /\ pc \in [Threads -> PCs]
    /\ sock \in [Threads -> Conns \cup {NoConn}]
    /\ io \in [Threads -> Fds \cup {NoFd}]
    /\ work \in [Threads -> Conns \cup {NoConn}]

\* What a thread at p with connection s, number f and work w is like.
SlotIs(p, s, f, w) ==
    /\ s # NoConn <=> p \in Busy
    /\ f # NoFd => p \in Busy /\ f = fdOf[s]
    /\ p \in Inside => w = s
    /\ p \notin Inside => w = NoConn
    /\ p = "releasing" => f = NoFd

Slots == \A t \in Threads : SlotIs(pc[t], sock[t], io[t], work[t])

Whereabouts ==
    /\ \A t \in Threads : sock[t] # NoConn => place[sock[t]] = "held"
    /\ \A t, u \in Threads : sock[t] = sock[u] /\ sock[t] # NoConn => t = u
    /\ \A i \in DOMAIN workQueue : place[workQueue[i]] = "queued"
    /\ \A i, j \in DOMAIN workQueue : workQueue[i] = workQueue[j] => i = j
    /\ \A c \in Conns : place[c] = "queued" => \E i \in DOMAIN workQueue : workQueue[i] = c

Descriptors ==
    \A c \in Conns : place[c] \in {"queued", "held"} => fdOf[c] \in Fds /\ open[fdOf[c]] = c

\* createWorkers() finds no thread.
Loading == life = "loading" => \A t \in Threads : pc[t] = "absent"

WInv == Shape /\ Slots /\ Whereabouts /\ Descriptors /\ Loading

-----------------------------------------------------------------------------
(* Facts about queues.                                                     *)

LEMMA TakeHead ==
    ASSUME NEW S, NEW q \in Seq(S), q # <<>>
    PROVE  /\ Head(q) \in S /\ Head(q) = q[1] /\ 1 \in DOMAIN q
           /\ Tail(q) \in Seq(S)
           /\ \A i \in DOMAIN Tail(q) : i \in Nat /\ i + 1 # 1 /\ i + 1 \in DOMAIN q /\ Tail(q)[i] = q[i + 1]
           /\ \A i \in DOMAIN q \ {1} : i - 1 \in DOMAIN Tail(q) /\ Tail(q)[i - 1] = q[i]
OBVIOUS

LEMMA PutLast ==
    ASSUME NEW S, NEW q \in Seq(S), NEW e \in S
    PROVE  /\ Append(q, e) \in Seq(S)
           /\ \A i \in DOMAIN q : i \in DOMAIN Append(q, e) /\ Append(q, e)[i] = q[i]
           /\ \A i \in DOMAIN Append(q, e) : i \notin DOMAIN q => i = Len(q) + 1 /\ Append(q, e)[i] = e
           /\ Len(q) + 1 \in DOMAIN Append(q, e) /\ Append(q, e)[Len(q) + 1] = e
OBVIOUS

-----------------------------------------------------------------------------
LEMMA InitWInv == Init => WInv
<1> SUFFICES ASSUME Init PROVE WInv
    OBVIOUS
<1>1. Shape
    BY DEF Init, Shape, PCs
<1>2. Slots
    BY DEF Init, Slots, SlotIs, Busy, Inside
<1>3. Whereabouts
    BY DEF Init, Whereabouts
<1>4. Descriptors
    BY DEF Init, Descriptors
<1>5. Loading
    BY DEF Init, Loading
<1> QED BY <1>1, <1>2, <1>3, <1>4, <1>5 DEF WInv

\* A step in which one thread changes its place and its slots, and no socket
\* is touched.
LEMMA LocalStep ==
    ASSUME WInv, NEW t \in Threads, UNCHANGED <<life, workQueue, place, fdOf, open, sock>>,
           pc[t] # "absent",
           NEW p \in PCs, NEW f \in Fds \cup {NoFd}, NEW w \in Conns \cup {NoConn},
           pc' = [pc EXCEPT ![t] = p],
           io' = [io EXCEPT ![t] = f],
           work' = [work EXCEPT ![t] = w],
           SlotIs(p, sock[t], f, w)
    PROVE  WInv'
<1>1. Shape'
    BY DEF WInv, Shape
<1>2. Slots'
  <2> SUFFICES ASSUME NEW u \in Threads PROVE SlotIs(pc[u], sock[u], io[u], work[u])'
      BY DEF Slots
  <2>1. CASE u = t
      BY <2>1 DEF WInv, Shape, SlotIs
  <2>2. CASE u # t
      BY <2>2 DEF WInv, Shape, Slots, SlotIs
  <2> QED BY <2>1, <2>2
<1>3. Whereabouts' /\ Descriptors'
    BY DEF WInv, Whereabouts, Descriptors
<1>4. Loading'
    BY DEF WInv, Loading
<1> QED BY <1>1, <1>2, <1>3, <1>4 DEF WInv

\* A step that moves neither sockets nor slots.
LEMMA QuietStep ==
    ASSUME WInv, life' = "loading" => life = "loading",
           UNCHANGED <<workQueue, place, fdOf, open, pc, sock, io, work>>
    PROVE  WInv'
BY DEF WInv, Shape, Slots, SlotIs, Whereabouts, Descriptors, Loading

\* A step in which a thread only moves on, to a place of the same kind.
LEMMA MoveStep ==
    ASSUME WInv, NEW t \in Threads,
           UNCHANGED <<life, workQueue, place, fdOf, open, sock, io, work>>,
           pc[t] # "absent",
           NEW p \in PCs, p # "releasing", pc' = [pc EXCEPT ![t] = p],
           pc[t] \in Busy <=> p \in Busy, pc[t] \in Inside <=> p \in Inside
    PROVE  WInv'
<1>1. PICK f \in Fds \cup {NoFd}, w \in Conns \cup {NoConn} : f = io[t] /\ w = work[t]
    BY DEF WInv, Shape
<1>2. io' = [io EXCEPT ![t] = f] /\ work' = [work EXCEPT ![t] = w]
    BY <1>1 DEF WInv, Shape
<1>3. SlotIs(p, sock[t], f, w)
    BY <1>1 DEF WInv, Slots, SlotIs
<1> QED BY <1>1, <1>2, <1>3, LocalStep

\* Leaving handle() or forbidden(): the slots are cleared.
LEMMA LeaveStep ==
    ASSUME WInv, NEW t \in Threads, UNCHANGED <<life, workQueue, place, fdOf, open, sock>>,
           pc[t] \in Busy, pc' = [pc EXCEPT ![t] = "releasing"],
           io' = [io EXCEPT ![t] = NoFd], work' = [work EXCEPT ![t] = NoConn]
    PROVE  WInv'
<1>1. SlotIs("releasing", sock[t], NoFd, NoConn)
    BY DEF WInv, Slots, SlotIs, Busy, Inside
<1> QED BY <1>1, LocalStep DEF PCs, Busy, Inside

-----------------------------------------------------------------------------
(* The steps that move sockets.                                            *)

LEMMA CreateWInv == WInv /\ Create => WInv'
<1> SUFFICES ASSUME WInv, Create PROVE WInv'
    OBVIOUS
<1>1. UNCHANGED <<place, workQueue, fdOf, open, sock, io, work>>
    BY DEF Create, sockets, local
<1>2. Shape'
    BY <1>1 DEF WInv, Shape, Create, PCs
<1>3. Slots'
    BY <1>1 DEF WInv, Shape, Slots, SlotIs, Loading, Create, Busy, Inside
<1>4. Whereabouts' /\ Descriptors'
    BY <1>1 DEF WInv, Whereabouts, Descriptors
<1>5. Loading'
    BY DEF Create, Loading
<1> QED BY <1>2, <1>3, <1>4, <1>5 DEF WInv

LEMMA ArriveWInv == ASSUME WInv, NEW c \in Conns, Arrive(c) PROVE WInv'
<1>1. PICK f \in Fds : /\ open[f] = NoConn
                       /\ open' = [open EXCEPT ![f] = c]
                       /\ fdOf' = [fdOf EXCEPT ![c] = f]
    BY DEF Arrive
<1>2. /\ place[c] = "new" /\ place' = [place EXCEPT ![c] = "queued"]
      /\ workQueue' = Append(workQueue, c)
      /\ UNCHANGED <<life, pc, sock, io, work>>
    BY DEF Arrive, owner, local
<1>3. Shape'
    BY <1>1, <1>2, PutLast DEF WInv, Shape
<1>4. Slots'
    BY <1>1, <1>2 DEF WInv, Shape, Slots, SlotIs, Whereabouts
<1>5. Whereabouts'
    BY <1>2, PutLast DEF WInv, Shape, Whereabouts
<1>6. Descriptors'
    BY <1>1, <1>2, ConnsAssumption DEF WInv, Shape, Descriptors
<1>7. Loading'
    BY <1>2 DEF WInv, Loading
<1> QED BY <1>3, <1>4, <1>5, <1>6, <1>7 DEF WInv

LEMMA TakeWInv == ASSUME WInv, NEW t \in Threads, Take(t) PROVE WInv'
<1> DEFINE c == Head(workQueue)
<1>1. /\ workQueue # <<>> /\ workQueue' = Tail(workQueue)
      /\ pc[t] = "idle" /\ pc' = [pc EXCEPT ![t] = "entered"]
      /\ place' = [place EXCEPT ![c] = "held"]
      /\ sock' = [sock EXCEPT ![t] = c]
      /\ UNCHANGED <<life, fdOf, open, io, work>>
    BY DEF Take, Goto, owner, local
<1>2. c \in Conns /\ place[c] = "queued" /\ c = workQueue[1]
    BY <1>1, TakeHead DEF WInv, Shape, Whereabouts
<1> HIDE DEF c
<1>3. Shape'
    BY <1>1, <1>2, TakeHead DEF WInv, Shape, PCs
<1>4. Slots'
    BY <1>1, <1>2, ConnsAssumption DEF WInv, Shape, Slots, SlotIs, Busy, Inside
<1>5. Whereabouts'
  <2>1. /\ \A i \in DOMAIN workQueue' : i \in Nat /\ i + 1 # 1 /\ i + 1 \in DOMAIN workQueue
                                        /\ workQueue'[i] = workQueue[i + 1]
        /\ \A i \in DOMAIN workQueue \ {1} : i - 1 \in DOMAIN workQueue' /\ workQueue'[i - 1] = workQueue[i]
        /\ 1 \in DOMAIN workQueue
      BY <1>1, TakeHead DEF WInv, Shape
  <2>2. \A u \in Threads : sock[u] # c
      BY <1>2, ConnsAssumption DEF WInv, Whereabouts
  <2>3. /\ \A u \in Threads : sock'[u] # NoConn => place'[sock'[u]] = "held"
        /\ \A u, v \in Threads : sock'[u] = sock'[v] /\ sock'[u] # NoConn => u = v
      BY <1>1, <1>2, <2>2 DEF WInv, Shape, Whereabouts
  <2>4. \A i \in DOMAIN workQueue' : workQueue'[i] # c /\ workQueue'[i] \in Conns /\ place'[workQueue'[i]] = "queued"
    <3> SUFFICES ASSUME NEW i \in DOMAIN workQueue'
                 PROVE  workQueue'[i] # c /\ workQueue'[i] \in Conns /\ place'[workQueue'[i]] = "queued"
        OBVIOUS
    <3>1. workQueue'[i] # c
        BY <2>1, <1>2 DEF WInv, Whereabouts
    <3>2. workQueue'[i] \in Conns /\ place[workQueue'[i]] = "queued"
        BY <2>1 DEF WInv, Shape, Whereabouts
    <3> QED BY <3>1, <3>2, <1>1, <1>2 DEF WInv, Shape
  <2>5. \A i, j \in DOMAIN workQueue' : workQueue'[i] = workQueue'[j] => i = j
    <3> SUFFICES ASSUME NEW i \in DOMAIN workQueue', NEW j \in DOMAIN workQueue',
                        workQueue'[i] = workQueue'[j]
                 PROVE  i = j
        OBVIOUS
    <3>1. i + 1 = j + 1
        BY <2>1 DEF WInv, Whereabouts
    <3> QED BY <2>1, <3>1
  <2>6. \A d \in Conns : place'[d] = "queued" => \E i \in DOMAIN workQueue' : workQueue'[i] = d
    <3> SUFFICES ASSUME NEW d \in Conns, place'[d] = "queued"
                 PROVE  \E i \in DOMAIN workQueue' : workQueue'[i] = d
        OBVIOUS
    <3>1. d # c /\ place[d] = "queued"
        BY <1>1, <1>2 DEF WInv, Shape
    <3>2. PICK i \in DOMAIN workQueue : workQueue[i] = d
        BY <3>1 DEF WInv, Whereabouts
    <3>3. i # 1
        BY <3>1, <3>2, <1>2
    <3> QED BY <2>1, <3>2, <3>3
  <2> QED BY <2>3, <2>4, <2>5, <2>6 DEF Whereabouts
<1>6. Descriptors'
    BY <1>1, <1>2 DEF WInv, Shape, Descriptors
<1>7. Loading'
    BY <1>1 DEF WInv, Shape, Loading
<1> QED BY <1>3, <1>4, <1>5, <1>6, <1>7 DEF WInv

LEMMA ReleaseWInv == ASSUME WInv, NEW t \in Threads, Release(t) PROVE WInv'
<1> DEFINE c == sock[t]
<1>1. /\ pc[t] = "releasing" /\ pc' = [pc EXCEPT ![t] = "idle"]
      /\ open' = [open EXCEPT ![fdOf[c]] = NoConn]
      /\ fdOf' = [fdOf EXCEPT ![c] = NoFd]
      /\ place' = [place EXCEPT ![c] = "closed"]
      /\ sock' = [sock EXCEPT ![t] = NoConn]
      /\ UNCHANGED <<life, workQueue, io, work>>
    BY DEF Release, Goto, owner
<1>2. c \in Conns /\ place[c] = "held" /\ fdOf[c] \in Fds /\ open[fdOf[c]] = c
    BY <1>1 DEF WInv, Shape, Slots, SlotIs, Busy, Whereabouts, Descriptors
<1> HIDE DEF c
<1>3. Shape'
    BY <1>1, <1>2 DEF WInv, Shape, PCs
<1>4. Slots'
    BY <1>1, <1>2 DEF WInv, Shape, Slots, SlotIs, Whereabouts, Busy, Inside, c
<1>5. Whereabouts'
    BY <1>1, <1>2 DEF WInv, Shape, Whereabouts, c
<1>6. Descriptors'
    BY <1>1, <1>2 DEF WInv, Shape, Descriptors
<1>7. Loading'
    BY <1>1 DEF WInv, Shape, Loading
<1> QED BY <1>3, <1>4, <1>5, <1>6, <1>7 DEF WInv

LEMMA DeleteWInv == ASSUME WInv, Delete PROVE WInv'
<1>1. /\ workQueue' = <<>> /\ life' = "deleted"
      /\ place' = [c \in Conns |-> IF place[c] = "queued" THEN "dropped" ELSE place[c]]
      /\ open' = [f \in Fds |-> IF open[f] # NoConn /\ place[open[f]] = "queued" THEN NoConn ELSE open[f]]
      /\ fdOf' = [c \in Conns |-> IF place[c] = "queued" THEN NoFd ELSE fdOf[c]]
      /\ UNCHANGED <<pc, sock, io, work>>
    BY DEF Delete, DropQueue, local
<1>2. Shape'
    BY <1>1 DEF WInv, Shape
<1>3. Slots'
    BY <1>1 DEF WInv, Shape, Slots, SlotIs, Whereabouts
<1>4. Whereabouts'
    BY <1>1 DEF WInv, Shape, Whereabouts
<1>5. Descriptors'
    BY <1>1 DEF WInv, Shape, Descriptors
<1>6. Loading'
    BY <1>1 DEF Loading
<1> QED BY <1>2, <1>3, <1>4, <1>5, <1>6 DEF WInv

-----------------------------------------------------------------------------
(* All steps.                                                              *)

LEMMA HandleWInv == ASSUME WInv, NEW t \in Threads, Handle(t) PROVE WInv'
<1> USE DEF Goto, owner, sockets, local, PCs, Busy, Inside
<1>1. CASE Enter(t)
  <2>1. sock[t] \in Conns /\ fdOf[sock[t]] \in Fds
      BY <1>1 DEF Enter, WInv, Shape, Slots, SlotIs, Whereabouts, Descriptors
  <2>2. work[t] = NoConn
      BY <1>1 DEF Enter, WInv, Slots, SlotIs
  <2>3. CASE sock[t] \in forbidden
    <3>1. work' = [work EXCEPT ![t] = NoConn]
        BY <1>1, <2>2, <2>3 DEF Enter, WInv, Shape
    <3>2. SlotIs("forbidding", sock[t], fdOf[sock[t]], NoConn)
        BY <1>1, <2>1, ConnsAssumption DEF SlotIs
    <3> QED BY <1>1, <2>1, <2>3, <3>1, <3>2, LocalStep DEF Enter
  <2>4. CASE sock[t] \notin forbidden
    <3>1. SlotIs("reading", sock[t], fdOf[sock[t]], sock[t])
        BY <2>1, ConnsAssumption DEF SlotIs
    <3>2. /\ pc' = [pc EXCEPT ![t] = "reading"] /\ work' = [work EXCEPT ![t] = sock[t]]
          /\ io' = [io EXCEPT ![t] = fdOf[sock[t]]]
          /\ UNCHANGED <<life, workQueue, place, fdOf, open, sock>> /\ pc[t] # "absent"
        BY <1>1, <2>4 DEF Enter
    <3> QED BY <2>1, <3>1, <3>2, LocalStep
  <2> QED BY <2>3, <2>4
<1>2. CASE ReadRequest(t)
    BY <1>2, MoveStep DEF ReadRequest
<1>3. CASE ReadFails(t)
    BY <1>3, MoveStep DEF ReadFails
<1>4. CASE AnswerBadRequest(t)
  <2>1. CASE Goto(t, "badrequest", "releasing") /\ SendOk(t, "400") /\ Leave(t)
      BY <1>4, <2>1, LeaveStep DEF AnswerBadRequest, Leave
  <2>2. CASE Goto(t, "badrequest", "thrown") /\ SendFails(t, "400") /\ UNCHANGED <<open, local>>
      BY <1>4, <2>2, MoveStep DEF AnswerBadRequest
  <2> QED BY <1>4, <2>1, <2>2 DEF AnswerBadRequest
<1>14. CASE LookupThrows(t)
    BY <1>14, MoveStep DEF LookupThrows
<1>5. CASE Lookup(t)
  <2>1. \E p \in {"head", "calling"} : pc[t] = "lookup" /\ pc' = [pc EXCEPT ![t] = p]
      BY <1>5 DEF Lookup
  <2>2. UNCHANGED <<life, workQueue, place, fdOf, open, sock, io, work>>
      BY <1>5 DEF Lookup
  <2> QED BY <2>1, <2>2, MoveStep
<1>6. CASE Call(t)
    BY <1>6, MoveStep DEF Call
<1>7. CASE SendHead(t)
  <2>1. \E p \in {"body", "thrown"} : pc[t] = "head" /\ pc' = [pc EXCEPT ![t] = p]
      BY <1>7 DEF SendHead
  <2>2. UNCHANGED <<life, workQueue, place, fdOf, open, sock, io, work>>
      BY <1>7 DEF SendHead
  <2> QED BY <2>1, <2>2, MoveStep
<1>8. CASE SendBody(t)
  <2>1. \E p \in {"returning", "thrown"} : pc[t] = "body" /\ pc' = [pc EXCEPT ![t] = p]
      BY <1>8 DEF SendBody
  <2>2. UNCHANGED <<life, workQueue, place, fdOf, open, sock, io, work>>
      BY <1>8 DEF SendBody
  <2> QED BY <2>1, <2>2, MoveStep
<1>9. CASE Finish(t)
    BY <1>9, LeaveStep DEF Finish, Leave
<1>10. CASE Unwind(t)
    BY <1>10, LeaveStep DEF Unwind, Leave
<1>11. CASE Refuse(t)
  <2>1. pc[t] = "forbidding" /\ UNCHANGED <<life, workQueue, place, fdOf, open, sock, work>>
      BY <1>11 DEF Refuse
  <2>2. work' = [work EXCEPT ![t] = NoConn]
      BY <2>1 DEF WInv, Shape, Slots, SlotIs
  <2>3. \/ pc' = [pc EXCEPT ![t] = "releasing"] /\ io' = [io EXCEPT ![t] = NoFd]
        \/ pc' = [pc EXCEPT ![t] = "refused"] /\ UNCHANGED io
      BY <1>11 DEF Refuse
  <2>4. CASE pc' = [pc EXCEPT ![t] = "releasing"] /\ io' = [io EXCEPT ![t] = NoFd]
      BY <2>1, <2>2, <2>4, LeaveStep
  <2>5. CASE pc' = [pc EXCEPT ![t] = "refused"] /\ UNCHANGED io
      BY <2>1, <2>5, MoveStep
  <2> QED BY <2>3, <2>4, <2>5
<1>12. CASE RefuseBadly(t)
  <2>1. work' = [work EXCEPT ![t] = NoConn]
      BY <1>12 DEF RefuseBadly, WInv, Shape, Slots, SlotIs
  <2> QED BY <1>12, <2>1, LeaveStep DEF RefuseBadly
<1>13. CASE Release(t)
    BY <1>13, ReleaseWInv
<1> QED BY <1>1, <1>2, <1>3, <1>4, <1>5, <1>6, <1>7, <1>8, <1>9, <1>10, <1>11, <1>12, <1>13, <1>14
   DEF Handle

LEMMA WorkerWInv == ASSUME WInv, NEW t \in Threads, WorkerStep(t) PROVE WInv'
<1> USE DEF Goto, owner, sockets, local, PCs, Busy, Inside
<1>1. CASE CreateWorker(t)
    BY <1>1, MoveStep DEF CreateWorker
<1>2. CASE RegisterMethod(t)
  <2>1. UNCHANGED <<life, workQueue, place, fdOf, open, sock, io, work>>
      BY <1>2 DEF RegisterMethod
  <2>2. \/ UNCHANGED pc
        \/ pc[t] = "registering" /\ pc' = [pc EXCEPT ![t] = "idle"]
      BY <1>2 DEF RegisterMethod
  <2>3. CASE UNCHANGED pc
      BY <2>1, <2>3, QuietStep
  <2>4. CASE pc[t] = "registering" /\ pc' = [pc EXCEPT ![t] = "idle"]
      BY <2>1, <2>4, MoveStep
  <2> QED BY <2>2, <2>3, <2>4
<1>3. CASE DestroyWorker(t)
    BY <1>3, MoveStep DEF DestroyWorker
<1>4. CASE Take(t)
    BY <1>4, TakeWInv
<1>5. CASE TakeNone(t)
    BY <1>5, MoveStep DEF TakeNone
<1>6. CASE Handle(t)
    BY <1>6, HandleWInv
<1> QED BY <1>1, <1>2, <1>3, <1>4, <1>5, <1>6 DEF WorkerStep

LEMMA NextWInv == WInv /\ [Next]_vars => WInv'
<1> SUFFICES ASSUME WInv, [Next]_vars PROVE WInv'
    OBVIOUS
<1>1. CASE Create
    BY <1>1, CreateWInv
<1>2. CASE Stop
    BY <1>2, QuietStep DEF Stop, sockets, local
<1>3. CASE Join
    BY <1>3, QuietStep DEF Join, sockets, local
<1>4. CASE Delete
    BY <1>4, DeleteWInv
<1>5. ASSUME NEW c \in Conns, Arrive(c) PROVE WInv'
    BY <1>5, ArriveWInv
<1>6. ASSUME NEW t \in Threads, WorkerStep(t) PROVE WInv'
    BY <1>6, WorkerWInv
<1>7. CASE UNCHANGED vars
    BY <1>7, QuietStep DEF vars, owner, sockets, local
<1> QED BY <1>1, <1>2, <1>3, <1>4, <1>5, <1>6, <1>7 DEF Next

LEMMA WInvAlways == Spec => []WInv
BY InitWInv, NextWInv, PTL DEF Spec

-----------------------------------------------------------------------------
\* Whatever a worker reads or writes is its own client's, although numbers
\* are reused as soon as they are closed (HttpIo_t::~HttpIo_t).
THEOREM OwnDescriptorAlways == Spec => []OwnDescriptor
<1>1. ASSUME WInv, NEW t \in Threads, io[t] # NoFd PROVE open[io[t]] = sock[t]
  <2>1. sock[t] # NoConn /\ io[t] = fdOf[sock[t]]
      BY <1>1 DEF WInv, Slots, SlotIs
  <2>2. sock[t] \in Conns /\ place[sock[t]] = "held"
      BY <1>1, <2>1 DEF WInv, Shape, Whereabouts
  <2> QED BY <1>1, <2>1, <2>2 DEF WInv, Descriptors
<1>2. WInv => OwnDescriptor
    BY <1>1 DEF OwnDescriptor
<1> QED BY <1>2, WInvAlways, PTL

\* The thread-local work is the connection its thread handles, or none
\* (CppHttpHandler_t::work, getWork()).
THEOREM WorkFollowsSocketAlways == Spec => []WorkFollowsSocket
<1>1. WInv => WorkFollowsSocket
    BY DEF WInv, Slots, SlotIs, WorkFollowsSocket, Inside
<1> QED BY <1>1, WInvAlways, PTL

-----------------------------------------------------------------------------
(* What the clients are sent.                                              *)

\* Where a thread works on the bare number; where nothing was sent yet.
Speaking == Busy \ {"entered", "releasing"}
Silent == {"entered", "reading", "badrequest", "lookup", "calling", "forbidding"}

\* A status line and a body, or a prefix of them; an error's body is its
\* message.
Part(c) == /\ Len(wire[c]) <= 2
           /\ \A i \in DOMAIN wire[c] : wire[c][i] \in Heads <=> i = 1
           /\ c \in raised /\ Len(wire[c]) = 2 => wire[c][2] = "message"

\* What the client of c was sent when its thread is at p with reply r.
Says(p, r, c) ==
    /\ p \in Silent => wire[c] = <<>> /\ c \notin raised
    /\ p = "head" => wire[c] = <<>>
    /\ p = "body" => Len(wire[c]) = 1 /\ wire[c][1] \in Heads
    /\ p \in {"head", "body"} /\ c \in raised => r.data = "message"
    /\ p \in Inside => c \notin forbidden
    /\ p \in {"forbidding", "refused"} => c \in forbidden
    /\ p \in {"returning", "thrown", "releasing"} /\ c \notin forbidden =>
          Part(c) /\ (c \in cut \/ wire[c] # <<>>)
    /\ c \in forbidden => wire[c] \in Refusals
    /\ p = "refused" => wire[c] \in {<<>>, <<"403">>}

\* Beside that, a connection nobody took was sent nothing, and a closed one
\* keeps what it had when it was let go.
Typed == /\ wire \in [Conns -> Seq(Heads \cup Bodies)]
         /\ reply \in [Threads -> [status : Heads, data : Bodies]]
Numbered == \A t \in Threads : pc[t] \in Speaking => io[t] # NoFd
Unspoken == \A c \in Conns : place[c] \in {"new", "queued", "dropped"} =>
                wire[c] = <<>> /\ c \notin raised
Spoken == \A t \in Threads : sock[t] # NoConn => Says(pc[t], reply[t], sock[t])
Ended == \A c \in Conns : place[c] = "closed" => Says("releasing", NewReply, c)
Attended == \A c \in Conns : place[c] = "held" => \E t \in Threads : sock[t] = c

SaidInv == Attended /\ Typed /\ Numbered /\ Unspoken /\ Spoken /\ Ended

LEMMA InitSaid == Init => SaidInv
<1> SUFFICES ASSUME Init PROVE SaidInv
    OBVIOUS
<1>1. Typed
  <2>1. <<>> \in Seq(Heads \cup Bodies)
      OBVIOUS
  <2>2. NewReply \in [status : Heads, data : Bodies]
      BY DEF NewReply, Heads, Bodies
  <2> QED BY <2>1, <2>2 DEF Init, Typed
<1>2. Attended /\ Numbered /\ Unspoken /\ Spoken /\ Ended
    BY DEF Init, Attended, Numbered, Unspoken, Spoken, Ended, Speaking, Busy, Inside
<1> QED BY <1>1, <1>2 DEF SaidInv

\* A step that says nothing and moves no thread that has a connection.
LEMMA SilentStep ==
    ASSUME SaidInv, UNCHANGED <<place, sock, io, forbidden, wire, cut, raised, reply>>,
           \A t \in Threads : pc'[t] # pc[t] => sock[t] = NoConn /\ pc'[t] \notin Busy
    PROVE  SaidInv'
<1>1. Attended' /\ Typed' /\ Unspoken' /\ Ended'
    BY DEF SaidInv, Attended, Typed, Unspoken, Ended, Says, Part
<1>2. Numbered'
    BY DEF SaidInv, Numbered, Speaking
<1>3. Spoken'
    BY DEF SaidInv, Spoken, Says, Part
<1> QED BY <1>1, <1>2, <1>3 DEF SaidInv

\* A step of the thread that has a connection: what it says is said to its
\* own client, and the other clients do not notice.
LEMMA SayStep ==
    ASSUME WInv, SaidInv, NEW t \in Threads, pc[t] \in Busy, UNCHANGED <<place, sock, forbidden>>,
           NEW p \in PCs, pc' = [pc EXCEPT ![t] = p],
           NEW r \in [status : Heads, data : Bodies], reply' = [reply EXCEPT ![t] = r],
           NEW f \in Fds \cup {NoFd}, io' = [io EXCEPT ![t] = f], p \in Speaking => f # NoFd,
           NEW w \in Seq(Heads \cup Bodies), wire' = [wire EXCEPT ![sock[t]] = w],
           cut' \in {cut, cut \cup {sock[t]}},
           raised' \in {raised, raised \cup {sock[t]}},
           Says(p, r, sock[t])'
    PROVE  SaidInv'
<1>1. sock[t] \in Conns /\ place[sock[t]] = "held"
    BY DEF WInv, Shape, Slots, SlotIs, Whereabouts
<1>2. Attended' /\ Typed'
    BY <1>1 DEF SaidInv, Attended, Typed
<1>3. Numbered'
    BY DEF WInv, Shape, SaidInv, Numbered
<1>4. \A c \in Conns : c # sock[t] =>
          wire'[c] = wire[c] /\ (c \in cut' <=> c \in cut) /\ (c \in raised' <=> c \in raised)
    BY DEF SaidInv, Typed
<1>5. Unspoken' /\ Ended'
    BY <1>1, <1>4 DEF SaidInv, Unspoken, Ended, Says, Part
<1>6. Spoken'
  <2> SUFFICES ASSUME NEW u \in Threads, sock[u] # NoConn
               PROVE  Says(pc[u], reply[u], sock[u])'
      BY DEF Spoken
  <2>1. CASE u = t
      BY <2>1 DEF WInv, Shape, SaidInv, Typed, Says, Part
  <2>2. CASE u # t
    <3>1. sock[u] # sock[t] /\ sock[u] \in Conns
        BY <2>2 DEF WInv, Shape, Whereabouts
    <3>2. pc'[u] = pc[u] /\ reply'[u] = reply[u]
        BY <2>2 DEF WInv, Shape, SaidInv, Typed
    <3>3. Says(pc[u], reply[u], sock[u])
        BY DEF SaidInv, Spoken
    <3> QED BY <3>1, <3>2, <3>3, <1>4 DEF Says, Part
  <2> QED BY <2>1, <2>2
<1> QED BY <1>2, <1>3, <1>5, <1>6 DEF SaidInv

\* A step of such a thread without a word.
LEMMA WordlessStep ==
    ASSUME WInv, SaidInv, NEW t \in Threads, pc[t] \in Busy,
           UNCHANGED <<place, sock, forbidden, wire>>, cut' \in {cut, cut \cup {sock[t]}},
           NEW p \in PCs, pc' = [pc EXCEPT ![t] = p],
           NEW r \in [status : Heads, data : Bodies], reply' = [reply EXCEPT ![t] = r],
           NEW f \in Fds \cup {NoFd}, io' = [io EXCEPT ![t] = f], p \in Speaking => f # NoFd,
           raised' \in {raised, raised \cup {sock[t]}},
           Says(p, r, sock[t])'
    PROVE  SaidInv'
<1>1. sock[t] \in Conns
    BY DEF WInv, Shape, Slots, SlotIs
<1>2. PICK w \in Seq(Heads \cup Bodies) : w = wire[sock[t]]
    BY <1>1 DEF SaidInv, Typed
<1>3. wire' = [wire EXCEPT ![sock[t]] = w]
    BY <1>1, <1>2 DEF SaidInv, Typed
<1> QED BY <1>2, <1>3, SayStep

\* What a send does: the number is the one of the thread's own client.
LEMMA SendEffect ==
    ASSUME WInv, SaidInv, NEW t \in Threads, pc[t] \in Speaking, NEW x \in Heads \cup Bodies,
           SendOk(t, x) \/ SendFails(t, x)
    PROVE  /\ cut' \in {cut, cut \cup {sock[t]}}
           /\ SendFails(t, x) => sock[t] \in cut'
           /\ wire'[sock[t]] \in Seq(Heads \cup Bodies)
           /\ wire' = [wire EXCEPT ![sock[t]] = wire'[sock[t]]]
           /\ wire'[sock[t]] \in {wire[sock[t]], Append(wire[sock[t]], x)}
           /\ SendOk(t, x) => wire'[sock[t]] = Append(wire[sock[t]], x)
<1>1. sock[t] \in Conns /\ open[io[t]] = sock[t]
  <2>1. io[t] # NoFd /\ io[t] = fdOf[sock[t]] /\ sock[t] # NoConn
      BY DEF SaidInv, Numbered, WInv, Slots, SlotIs, Speaking
  <2> QED BY <2>1 DEF WInv, Shape, Whereabouts, Descriptors
<1>2. wire[sock[t]] \in Seq(Heads \cup Bodies) /\ Append(wire[sock[t]], x) \in Seq(Heads \cup Bodies)
    BY <1>1 DEF SaidInv, Typed
<1>3. cut' \in {cut, cut \cup {sock[t]}} /\ (SendFails(t, x) => sock[t] \in cut')
    BY DEF SendOk, SendFails
<1>4. CASE wire' = [wire EXCEPT ![sock[t]] = Append(wire[sock[t]], x)]
    BY <1>1, <1>2, <1>3, <1>4 DEF SaidInv, Typed
<1>5. CASE ~SendOk(t, x) /\ UNCHANGED wire
    BY <1>1, <1>2, <1>3, <1>5 DEF SaidInv, Typed
<1> QED BY <1>1, <1>4, <1>5 DEF SendOk, SendFails, Deliver

LEMMA SendStep ==
    ASSUME WInv, SaidInv, NEW t \in Threads, pc[t] \in Speaking,
           UNCHANGED <<place, sock, forbidden, raised, reply>>,
           NEW p \in PCs, pc' = [pc EXCEPT ![t] = p],
           NEW f \in Fds \cup {NoFd}, io' = [io EXCEPT ![t] = f], p \in Speaking => f # NoFd,
           NEW x \in Heads \cup Bodies, SendOk(t, x) \/ SendFails(t, x),
           Says(p, reply[t], sock[t])'
    PROVE  SaidInv'
<1>1. PICK w : w = wire'[sock[t]]
    OBVIOUS
<1>2. PICK r : r = reply[t]
    OBVIOUS
<1>3. w \in Seq(Heads \cup Bodies) /\ wire' = [wire EXCEPT ![sock[t]] = w] /\ cut' \in {cut, cut \cup {sock[t]}}
    BY <1>1, SendEffect
<1>4. r \in [status : Heads, data : Bodies] /\ reply' = [reply EXCEPT ![t] = r] /\ r = reply'[t]
    BY <1>2 DEF SaidInv, Typed
<1>5. Says(p, r, sock[t])'
    BY <1>4 DEF Says, Part
<1> QED BY <1>3, <1>4, <1>5, SayStep DEF Speaking

\* The first and the second part of an answer.
LEMMA Parts ==
    ASSUME NEW q \in Seq(Heads \cup Bodies), NEW x \in Heads \cup Bodies
    PROVE  /\ q = <<>> => Append(q, x) = <<x>> /\ Len(q) = 0 /\ DOMAIN q = {}
           /\ Len(<<x>>) = 1 /\ <<x>>[1] = x /\ DOMAIN <<x>> = {1} /\ <<x>> # <<>>
           /\ Len(q) = 1 => /\ Len(Append(q, x)) = 2 /\ DOMAIN Append(q, x) = {1, 2}
                            /\ Append(q, x)[1] = q[1] /\ Append(q, x)[2] = x
                            /\ DOMAIN q = {1} /\ q # <<>> /\ Append(q, x) # <<>>
           /\ \A i \in DOMAIN Append(q, x) : Append(q, x)[i] = x \/ (i \in DOMAIN q /\ Append(q, x)[i] = q[i])
<1>1. q = <<>> => Append(q, x) = <<x>> /\ Len(q) = 0 /\ DOMAIN q = {}
    OBVIOUS
<1>2. Len(<<x>>) = 1 /\ <<x>>[1] = x /\ DOMAIN <<x>> = {1} /\ <<x>> # <<>>
    OBVIOUS
<1>3. ASSUME Len(q) = 1
      PROVE  /\ Len(Append(q, x)) = 2 /\ DOMAIN Append(q, x) = {1, 2}
             /\ Append(q, x)[1] = q[1] /\ Append(q, x)[2] = x
             /\ DOMAIN q = {1} /\ q # <<>> /\ Append(q, x) # <<>>
  <2>1. Append(q, x) \in Seq(Heads \cup Bodies) /\ Len(Append(q, x)) = 2
      BY <1>3
  <2>2. DOMAIN q = {1} /\ DOMAIN Append(q, x) = {1, 2}
    <3>1. DOMAIN q = 1 .. 1 /\ DOMAIN Append(q, x) = 1 .. 2
        BY <1>3, <2>1
    <3>2. 1 .. 1 = {1} /\ 1 .. 2 = {1, 2}
        OBVIOUS
    <3> QED BY <3>1, <3>2
  <2>3. Append(q, x)[1] = q[1] /\ Append(q, x)[2] = x
    <3>1. \A i \in 1 .. Len(q) : Append(q, x)[i] = q[i]
        OBVIOUS
    <3>2. Append(q, x)[Len(q) + 1] = x
        OBVIOUS
    <3>3. 1 \in 1 .. Len(q) /\ Len(q) + 1 = 2
        BY <1>3
    <3> QED BY <3>1, <3>2, <3>3
  <2>4. q # <<>> /\ Append(q, x) # <<>>
      BY <1>3, <2>1
  <2> QED BY <2>1, <2>2, <2>3, <2>4
<1>4. \A i \in DOMAIN Append(q, x) : Append(q, x)[i] = x \/ (i \in DOMAIN q /\ Append(q, x)[i] = q[i])
    OBVIOUS
<1> QED BY <1>1, <1>2, <1>3, <1>4

\* The 400 that follows a 403.
LEMMA Pair ==
    ASSUME NEW x, NEW y
    PROVE  Append(<<>>, y) = <<y>> /\ Append(<<x>>, y) = <<x, y>>
<1>1. <<x>> \in Seq({x, y}) /\ Len(<<x>>) = 1 /\ <<x>>[1] = x /\ y \in {x, y}
    OBVIOUS
<1>2. Append(<<x>>, y) = [i \in 1 .. 2 |-> IF i = 1 THEN x ELSE y]
    BY <1>1
<1>3. <<x, y>> = [i \in 1 .. 2 |-> IF i = 1 THEN x ELSE y]
    OBVIOUS
<1>4. Append(<<>>, y) = <<y>>
  <2>1. <<>> \in Seq({y}) /\ Len(<<>>) = 0
      OBVIOUS
  <2>2. Append(<<>>, y) = [i \in 1 .. 1 |-> y]
      BY <2>1
  <2>3. <<y>> = [i \in 1 .. 1 |-> y]
      OBVIOUS
  <2> QED BY <2>2, <2>3
<1> QED BY <1>2, <1>3, <1>4

-----------------------------------------------------------------------------
LEMMA ArriveSaid == ASSUME WInv, SaidInv, NEW c \in Conns, Arrive(c) PROVE SaidInv'
<1>1. /\ place[c] = "new" /\ place' = [place EXCEPT ![c] = "queued"]
      /\ forbidden' \in {forbidden, forbidden \cup {c}}
      /\ UNCHANGED <<wire, cut, raised, pc, sock, io, reply>>
    BY DEF Arrive, local
<1>2. Attended' /\ Typed' /\ Numbered'
    BY <1>1 DEF WInv, Shape, SaidInv, Attended, Typed, Numbered
<1>3. Unspoken' /\ Ended'
    BY <1>1 DEF WInv, Shape, SaidInv, Unspoken, Ended, Says, Part
<1>4. Spoken'
    BY <1>1 DEF WInv, Shape, Whereabouts, SaidInv, Spoken, Says, Part
<1> QED BY <1>2, <1>3, <1>4 DEF SaidInv

LEMMA TakeSaid == ASSUME WInv, SaidInv, NEW t \in Threads, Take(t) PROVE SaidInv'
<1>1. PICK c : c = Head(workQueue)
    OBVIOUS
<1>2. /\ pc[t] = "idle" /\ pc' = [pc EXCEPT ![t] = "entered"]
      /\ place' = [place EXCEPT ![c] = "held"]
      /\ sock' = [sock EXCEPT ![t] = c]
      /\ UNCHANGED <<forbidden, wire, cut, raised, io, reply>>
    BY <1>1 DEF Take, Goto, local
<1>3. c \in Conns /\ place[c] = "queued"
    BY <1>1, TakeHead DEF Take, WInv, Shape, Whereabouts
<1>4. Typed' /\ Unspoken' /\ Ended'
    BY <1>2, <1>3 DEF WInv, Shape, SaidInv, Typed, Unspoken, Ended, Says, Part
<1>5. Numbered'
    BY <1>2 DEF WInv, Shape, SaidInv, Numbered, Speaking
<1>6. Spoken'
  <2> SUFFICES ASSUME NEW u \in Threads, sock'[u] # NoConn
               PROVE  Says(pc[u], reply[u], sock[u])'
      BY DEF Spoken
  <2>1. CASE u = t
    <3>1. wire[c] = <<>> /\ c \notin raised
        BY <1>3 DEF SaidInv, Unspoken
    <3>2. pc'[u] = "entered" /\ sock'[u] = c
        BY <1>2, <2>1 DEF WInv, Shape
    <3> QED BY <1>2, <3>1, <3>2 DEF Says, Inside, Refusals
  <2>2. CASE u # t
      BY <1>2, <2>2 DEF WInv, Shape, SaidInv, Spoken, Says, Part
  <2> QED BY <2>1, <2>2
<1>7. Attended'
  <2>1. sock[t] = NoConn
      BY <1>2 DEF WInv, Shape, Slots, SlotIs, Busy, Inside
  <2>2. SUFFICES ASSUME NEW d \in Conns, place'[d] = "held" PROVE \E u \in Threads : sock'[u] = d
      BY DEF Attended
  <2>3. CASE d = c
      BY <1>2, <2>3 DEF WInv, Shape
  <2>4. CASE d # c
    <3>1. place[d] = "held" /\ d # NoConn
        BY <1>2, <2>2, <2>4, ConnsAssumption DEF WInv, Shape
    <3>2. PICK u \in Threads : sock[u] = d
        BY <3>1 DEF SaidInv, Attended
    <3> QED BY <1>2, <2>1, <3>1, <3>2 DEF WInv, Shape
  <2> QED BY <2>3, <2>4
<1> QED BY <1>4, <1>5, <1>6, <1>7 DEF SaidInv

LEMMA ReleaseSaid == ASSUME WInv, SaidInv, NEW t \in Threads, Release(t) PROVE SaidInv'
<1>1. PICK c : c = sock[t]
    OBVIOUS
<1>2. /\ pc[t] = "releasing" /\ pc' = [pc EXCEPT ![t] = "idle"]
      /\ place' = [place EXCEPT ![c] = "closed"]
      /\ sock' = [sock EXCEPT ![t] = NoConn]
      /\ reply' = [reply EXCEPT ![t] = NewReply]
      /\ UNCHANGED <<forbidden, wire, cut, raised, io>>
    BY <1>1 DEF Release, Goto
<1>3. c \in Conns /\ c # NoConn /\ place[c] = "held"
    BY <1>1, <1>2 DEF WInv, Shape, Slots, SlotIs, Busy, Whereabouts
<1>4. Typed'
    BY <1>2 DEF SaidInv, Typed, NewReply, Heads, Bodies
<1>5. Numbered'
    BY <1>2 DEF WInv, Shape, SaidInv, Numbered, Speaking, Busy, Inside
<1>6. Unspoken'
    BY <1>2, <1>3 DEF WInv, Shape, SaidInv, Unspoken
<1>7. Ended'
  <2>1. Says("releasing", reply[t], c)
      BY <1>1, <1>2, <1>3 DEF SaidInv, Spoken
  <2>2. Says("releasing", NewReply, c)
      BY <2>1 DEF Says
  <2> QED BY <1>2, <1>3, <2>2 DEF WInv, Shape, SaidInv, Ended, Says, Part
<1>8. Spoken'
    BY <1>1, <1>2, <1>3 DEF WInv, Shape, Whereabouts, SaidInv, Typed, Spoken, Says, Part
<1>9. Attended'
    BY <1>1, <1>2, <1>3 DEF WInv, Shape, SaidInv, Attended
<1> QED BY <1>4, <1>5, <1>6, <1>7, <1>8, <1>9 DEF SaidInv

LEMMA DeleteSaid == ASSUME WInv, SaidInv, Delete PROVE SaidInv'
<1>1. /\ place' = [c \in Conns |-> IF place[c] = "queued" THEN "dropped" ELSE place[c]]
      /\ UNCHANGED <<pc, sock, io, forbidden, wire, cut, raised, reply>>
    BY DEF Delete, DropQueue, local
<1>2. Attended' /\ Typed' /\ Numbered' /\ Spoken'
    BY <1>1 DEF WInv, Shape, SaidInv, Attended, Typed, Numbered, Spoken, Says, Part
<1>3. Unspoken' /\ Ended'
    BY <1>1 DEF WInv, Shape, SaidInv, Unspoken, Ended, Says, Part
<1> QED BY <1>2, <1>3 DEF SaidInv

-----------------------------------------------------------------------------
(* The answers of handle() and forbidden().                                *)

\* The reply of Call, whatever the method does.
LEMMA ReplyOfCall ==
    ASSUME NEW kind, NEW r, NEW end \in Ends(kind, r), NEW data \in Unfinished(kind)
    PROVE  /\ ReplyOf(kind, end, data) \in [status : Heads, data : Bodies]
           /\ ~(end = "returns" \/ Swallowed(kind, end)) => ReplyOf(kind, end, data).data = "message"
<1>1. end \in {"405", "400", "returns", "302", "404", "exception"} /\ data \in {"", "partial"}
    BY DEF Ends, Unfinished
<1>2. CASE end = "returns"
  <2>1. ReplyOf(kind, end, data) = [status |-> "200", data |-> "method"]
      BY <1>2 DEF ReplyOf, Swallowed
  <2>2. "200" \in Heads /\ "method" \in Bodies
      BY DEF Heads, Bodies
  <2> QED BY <1>2, <2>1, <2>2
<1>3. CASE end # "returns" /\ Swallowed(kind, end)
    BY <1>1, <1>3 DEF ReplyOf, Heads, Bodies, Swallowed
<1>4. CASE end = "exception" /\ ~Swallowed(kind, end)
    BY <1>4 DEF ReplyOf, Heads, Bodies
<1>5. CASE end \notin {"returns", "exception"} /\ ~Swallowed(kind, end)
  <2>1. ReplyOf(kind, end, data) = [status |-> end, data |-> "message"]
      BY <1>5 DEF ReplyOf
  <2>2. end \in Heads /\ "message" \in Bodies
      BY <1>1, <1>5 DEF Heads, Bodies
  <2> QED BY <2>1, <2>2
<1> QED BY <1>2, <1>3, <1>4, <1>5

LEMMA HandleSaid == ASSUME WInv, SaidInv, NEW t \in Threads, Handle(t), ~Release(t) PROVE SaidInv'
<1> USE DEF Goto, owner, sockets, local
<1>0. /\ sock[t] \in Conns /\ sock[t] # NoConn /\ place[sock[t]] = "held" /\ pc[t] \in Busy
      /\ Says(pc[t], reply[t], sock[t])
      /\ reply[t] \in [status : Heads, data : Bodies] /\ reply' = [reply EXCEPT ![t] = reply'[t]]
      /\ io[t] \in Fds \cup {NoFd} /\ wire[sock[t]] \in Seq(Heads \cup Bodies)
      /\ pc[t] \in Speaking => io[t] # NoFd
  <2>1. pc[t] \in Busy
      BY DEF Handle, Enter, ReadRequest, ReadFails, AnswerBadRequest, Lookup, LookupThrows, Call,
             SendHead, SendBody, Finish, Unwind, Refuse, RefuseBadly, Busy, Inside
  <2>2. sock[t] \in Conns /\ sock[t] # NoConn /\ place[sock[t]] = "held"
      BY <2>1 DEF WInv, Shape, Slots, SlotIs, Whereabouts
  <2>3. Says(pc[t], reply[t], sock[t])
      BY <2>2 DEF SaidInv, Spoken
  <2>4. reply' = [reply EXCEPT ![t] = reply'[t]]
      BY DEF SaidInv, Typed, Handle, Enter, ReadRequest, ReadFails, AnswerBadRequest, Lookup,
             LookupThrows, Call, SendHead, SendBody, Finish, Unwind, Refuse, RefuseBadly, Leave
  <2> QED BY <2>1, <2>2, <2>3, <2>4 DEF WInv, Shape, SaidInv, Typed, Numbered
<1>r. PICK r \in [status : Heads, data : Bodies] : r = reply[t]
    BY <1>0
<1>i. PICK f \in Fds \cup {NoFd} : f = io[t]
    BY <1>0
<1>s. /\ UNCHANGED reply => reply' = [reply EXCEPT ![t] = r]
      /\ UNCHANGED io => io' = [io EXCEPT ![t] = f]
    BY <1>r, <1>i DEF WInv, Shape, SaidInv, Typed
<1>1. CASE Enter(t)
  <2>1. /\ pc[t] = "entered" /\ UNCHANGED <<place, sock, forbidden, wire, cut, raised, reply>>
        /\ io' = [io EXCEPT ![t] = fdOf[sock[t]]]
      BY <1>1 DEF Enter
  <2>2. fdOf[sock[t]] \in Fds /\ fdOf[sock[t]] # NoFd
      BY <1>0, FdsAssumption DEF WInv, Descriptors
  <2>3. CASE sock[t] \in forbidden
    <3>1. pc' = [pc EXCEPT ![t] = "forbidding"]
        BY <1>1, <2>3 DEF Enter
    <3>2. Says("forbidding", r, sock[t])'
        BY <1>0, <2>1, <2>3 DEF Says, Inside, Silent
    <3> QED BY <1>0, <1>s, <2>1, <2>2, <3>1, <3>2, WordlessStep DEF PCs
  <2>4. CASE sock[t] \notin forbidden
    <3>1. pc' = [pc EXCEPT ![t] = "reading"]
        BY <1>1, <2>4 DEF Enter
    <3>2. Says("reading", r, sock[t])'
        BY <1>0, <2>1, <2>4 DEF Says, Inside, Silent
    <3> QED BY <1>0, <1>s, <2>1, <2>2, <3>1, <3>2, WordlessStep DEF PCs
  <2> QED BY <2>3, <2>4
<1>2. CASE ReadRequest(t) \/ ReadFails(t)
  <2>1. /\ pc[t] = "reading" /\ UNCHANGED <<place, sock, forbidden, wire, cut, raised, io, reply>>
        /\ \E p \in {"lookup", "badrequest"} : pc' = [pc EXCEPT ![t] = p]
      BY <1>2 DEF ReadRequest, ReadFails
  <2>2. PICK p \in {"lookup", "badrequest"} : pc' = [pc EXCEPT ![t] = p]
      BY <2>1
  <2>3. Says(p, r, sock[t])' /\ p \in PCs /\ f # NoFd
      BY <1>0, <1>i, <2>1 DEF Says, Inside, Silent, PCs, Speaking, Busy
  <2> QED BY <1>0, <1>s, <2>1, <2>2, <2>3, WordlessStep
<1>3. CASE AnswerBadRequest(t)
  <2>1. /\ pc[t] = "badrequest" /\ UNCHANGED <<place, sock, forbidden, raised, reply>>
        /\ \/ pc' = [pc EXCEPT ![t] = "releasing"] /\ SendOk(t, "400") /\ io' = [io EXCEPT ![t] = NoFd]
           \/ pc' = [pc EXCEPT ![t] = "thrown"] /\ SendFails(t, "400") /\ UNCHANGED io
      BY <1>3 DEF AnswerBadRequest, Leave
  <2>2. pc[t] \in Speaking /\ "400" \in Heads
      BY <2>1 DEF Speaking, Busy, Inside, Heads
  <2>3. wire[sock[t]] = <<>> /\ sock[t] \notin raised /\ sock[t] \notin forbidden
      BY <1>0, <2>1 DEF Says, Inside, Silent
  <2>4. wire'[sock[t]] \in {<<>>, <<"400">>} /\ (SendOk(t, "400") => wire'[sock[t]] = <<"400">>)
    <3>1. Append(wire[sock[t]], "400") = <<"400">>
        BY <1>0, <2>2, <2>3, Parts
    <3> QED BY <2>1, <2>2, <2>3, <3>1, SendEffect
  <2>5. sock[t] \in cut' \/ wire'[sock[t]] # <<>>
      BY <2>1, <2>2, <2>4, SendEffect, Parts
  <2>6. Part(sock[t])'
    <3>1. Len(<<"400">>) = 1 /\ <<"400">>[1] = "400" /\ DOMAIN <<"400">> = {1}
        BY <1>0, <2>2, Parts
    <3>2. Len(<<>>) = 0 /\ DOMAIN <<>> = {}
        OBVIOUS
    <3>3. CASE wire'[sock[t]] = <<>>
        BY <2>1, <2>3, <3>2, <3>3 DEF Part
    <3>4. CASE wire'[sock[t]] = <<"400">>
        BY <2>1, <2>2, <2>3, <3>1, <3>4 DEF Part
    <3> QED BY <2>4, <3>3, <3>4
  <2>7. Says("releasing", reply[t], sock[t])' /\ Says("thrown", reply[t], sock[t])'
      BY <2>1, <2>3, <2>5, <2>6 DEF Says, Inside, Silent
  <2>8. CASE pc' = [pc EXCEPT ![t] = "releasing"] /\ SendOk(t, "400") /\ io' = [io EXCEPT ![t] = NoFd]
      BY <2>1, <2>2, <2>7, <2>8, SendStep DEF PCs, Speaking
  <2>9. CASE pc' = [pc EXCEPT ![t] = "thrown"] /\ SendFails(t, "400") /\ UNCHANGED io
      BY <1>0, <1>i, <1>s, <2>1, <2>2, <2>7, <2>9, SendStep DEF PCs
  <2> QED BY <2>1, <2>8, <2>9
<1>11. CASE LookupThrows(t)
  <2>1. /\ pc[t] = "lookup" /\ pc' = [pc EXCEPT ![t] = "thrown"]
        /\ UNCHANGED <<place, sock, forbidden, wire, raised, io, reply>>
        /\ cut' = cut \cup {sock[t]}
      BY <1>11 DEF LookupThrows
  <2>2. f # NoFd
      BY <1>0, <1>i, <2>1 DEF Speaking, Busy, Inside
  <2>3. wire[sock[t]] = <<>> /\ sock[t] \notin raised /\ sock[t] \notin forbidden
      BY <1>0, <2>1 DEF Says, Inside, Silent
  <2>4. Len(<<>>) = 0 /\ DOMAIN <<>> = {}
      OBVIOUS
  <2>5. Part(sock[t])'
      BY <2>1, <2>3, <2>4 DEF Part
  <2>6. Says("thrown", r, sock[t])'
      BY <2>1, <2>3, <2>5 DEF Says, Inside, Silent
  <2> QED BY <1>0, <1>s, <2>1, <2>2, <2>6, WordlessStep DEF PCs
<1>4. CASE Lookup(t)
  <2>1. /\ pc[t] = "lookup" /\ UNCHANGED <<place, sock, forbidden, wire, cut, raised, io>>
        /\ \/ /\ pc' = [pc EXCEPT ![t] = "head"]
              /\ reply' = [reply EXCEPT ![t] = [status |-> "404", data |-> "notfound"]]
           \/ pc' = [pc EXCEPT ![t] = "calling"] /\ UNCHANGED reply
      BY <1>4 DEF Lookup
  <2>2. f # NoFd
      BY <1>0, <1>i, <2>1 DEF Speaking, Busy, Inside
  <2>3. CASE pc' = [pc EXCEPT ![t] = "calling"] /\ UNCHANGED reply
    <3>1. Says("calling", r, sock[t])'
        BY <1>0, <2>1 DEF Says, Inside, Silent
    <3> QED BY <1>0, <1>s, <2>1, <2>2, <2>3, <3>1, WordlessStep DEF PCs
  <2>4. CASE /\ pc' = [pc EXCEPT ![t] = "head"]
             /\ reply' = [reply EXCEPT ![t] = [status |-> "404", data |-> "notfound"]]
    <3>1. PICK q \in [status : Heads, data : Bodies] : q = [status |-> "404", data |-> "notfound"]
        BY DEF Heads, Bodies
    <3>2. Says("head", q, sock[t])'
        BY <1>0, <2>1 DEF Says, Inside, Silent
    <3>3. reply' = [reply EXCEPT ![t] = q] /\ raised' = raised
        BY <2>1, <2>4, <3>1
    <3>4. pc' = [pc EXCEPT ![t] = "head"] /\ "head" \in PCs
        BY <2>4 DEF PCs
    <3> QED BY <1>0, <1>s, <2>1, <2>2, <3>2, <3>3, <3>4, WordlessStep
  <2> QED BY <2>1, <2>3, <2>4
<1>5. CASE Call(t)
  <2>1. PICK kind : kind = registry[t][route[t]].kind
      OBVIOUS
  <2>2. PICK q : q = request[t]
      OBVIOUS
  <2>3. /\ pc[t] = "calling" /\ pc' = [pc EXCEPT ![t] = "head"]
        /\ UNCHANGED <<place, sock, forbidden, wire, cut, io>>
        /\ \E end \in Ends(kind, q) : \E data \in Unfinished(kind) :
              /\ reply' = [reply EXCEPT ![t] = ReplyOf(kind, end, data)]
              /\ raised' = IF end = "returns" \/ Swallowed(kind, end)
                           THEN raised ELSE raised \cup {sock[t]}
      BY <1>5, <2>1, <2>2 DEF Call
  <2>4. PICK end \in Ends(kind, q), data \in Unfinished(kind) :
              /\ reply' = [reply EXCEPT ![t] = ReplyOf(kind, end, data)]
              /\ raised' = IF end = "returns" \/ Swallowed(kind, end)
                           THEN raised ELSE raised \cup {sock[t]}
      BY <2>3
  <2>5. PICK b \in [status : Heads, data : Bodies] : b = ReplyOf(kind, end, data)
      BY ReplyOfCall
  <2>6. f # NoFd
      BY <1>0, <1>i, <2>3 DEF Speaking, Busy, Inside
  <2>7. raised' \in {raised, raised \cup {sock[t]}}
      BY <2>4
  <2>8. sock[t] \in raised' => b.data = "message"
      BY <1>0, <2>3, <2>4, <2>5, ReplyOfCall DEF Says, Silent
  <2>9. Says("head", b, sock[t])'
      BY <1>0, <2>3, <2>8 DEF Says, Inside, Silent
  <2>10. reply' = [reply EXCEPT ![t] = b]
      BY <2>4, <2>5
  <2>11. "head" \in PCs
      BY DEF PCs
  <2> QED BY <1>0, <1>s, <2>3, <2>6, <2>7, <2>9, <2>10, <2>11, WordlessStep
<1>6. CASE SendHead(t)
  <2>1. PICK x : x = reply[t].status
      OBVIOUS
  <2>2. /\ pc[t] = "head" /\ UNCHANGED <<place, sock, forbidden, raised, io, reply>>
        /\ \/ pc' = [pc EXCEPT ![t] = "body"] /\ SendOk(t, x)
           \/ pc' = [pc EXCEPT ![t] = "thrown"] /\ SendFails(t, x)
      BY <1>6, <2>1 DEF SendHead
  <2>3. pc[t] \in Speaking /\ x \in Heads /\ f # NoFd
      BY <1>0, <1>i, <2>1, <2>2 DEF Speaking, Busy, Inside
  <2>4. /\ wire[sock[t]] = <<>> /\ sock[t] \notin forbidden
        /\ sock[t] \in raised => reply[t].data = "message"
      BY <1>0, <2>2 DEF Says, Inside
  <2>5. wire'[sock[t]] \in {<<>>, <<x>>} /\ (SendOk(t, x) => wire'[sock[t]] = <<x>>)
    <3>1. Append(wire[sock[t]], x) = <<x>>
        BY <1>0, <2>3, <2>4, Parts
    <3> QED BY <2>2, <2>3, <2>4, <3>1, SendEffect
  <2>6. CASE pc' = [pc EXCEPT ![t] = "body"] /\ SendOk(t, x)
    <3>1. Len(wire'[sock[t]]) = 1 /\ wire'[sock[t]][1] \in Heads
        BY <2>3, <2>5, <2>6, Parts
    <3>2. Says("body", reply[t], sock[t])'
        BY <2>2, <2>4, <3>1 DEF Says, Inside, Silent
    <3> QED BY <1>s, <2>2, <2>3, <2>6, <3>2, SendStep DEF PCs
  <2>7. CASE pc' = [pc EXCEPT ![t] = "thrown"] /\ SendFails(t, x)
    <3>1. sock[t] \in cut'
        BY <2>3, <2>7, SendEffect
    <3>2. Part(sock[t])'
      <4>1. Len(<<x>>) = 1 /\ <<x>>[1] = x /\ DOMAIN <<x>> = {1}
          BY <1>0, <2>3, Parts
      <4>2. Len(<<>>) = 0 /\ DOMAIN <<>> = {}
          OBVIOUS
      <4>3. CASE wire'[sock[t]] = <<>>
          BY <2>2, <2>4, <4>2, <4>3 DEF Part
      <4>4. CASE wire'[sock[t]] = <<x>>
          BY <2>2, <2>3, <2>4, <4>1, <4>4 DEF Part
      <4> QED BY <2>5, <4>3, <4>4
    <3>3. Says("thrown", reply[t], sock[t])'
        BY <2>2, <2>4, <3>1, <3>2 DEF Says, Inside, Silent
    <3> QED BY <1>s, <2>2, <2>3, <2>7, <3>3, SendStep DEF PCs
  <2> QED BY <2>2, <2>6, <2>7
<1>7. CASE SendBody(t)
  <2>1. PICK x : x = reply[t].data
      OBVIOUS
  <2>2. /\ pc[t] = "body" /\ UNCHANGED <<place, sock, forbidden, raised, io, reply>>
        /\ \/ pc' = [pc EXCEPT ![t] = "returning"] /\ SendOk(t, x)
           \/ pc' = [pc EXCEPT ![t] = "thrown"] /\ SendFails(t, x)
      BY <1>7, <2>1 DEF SendBody
  <2>3. pc[t] \in Speaking /\ x \in Bodies /\ x \notin Heads /\ f # NoFd
      BY <1>0, <1>i, <2>1, <2>2 DEF Speaking, Busy, Inside, Heads, Bodies
  <2>4. /\ Len(wire[sock[t]]) = 1 /\ wire[sock[t]][1] \in Heads /\ sock[t] \notin forbidden
        /\ sock[t] \in raised => x = "message"
      BY <1>0, <2>1, <2>2 DEF Says, Inside
  <2>5. wire'[sock[t]] \in {wire[sock[t]], Append(wire[sock[t]], x)}
      BY <2>2, <2>3, SendEffect
  <2>6. Part(sock[t])' /\ wire'[sock[t]] # <<>>
    <3>1. CASE wire'[sock[t]] = wire[sock[t]]
        BY <1>0, <2>2, <2>3, <2>4, <3>1, Parts DEF Part
    <3>2. CASE wire'[sock[t]] = Append(wire[sock[t]], x)
        BY <1>0, <2>2, <2>3, <2>4, <3>2, Parts DEF Part
    <3> QED BY <2>5, <3>1, <3>2
  <2>7. Says("returning", reply[t], sock[t])' /\ Says("thrown", reply[t], sock[t])'
      BY <2>2, <2>4, <2>6 DEF Says, Inside, Silent
  <2>8. CASE pc' = [pc EXCEPT ![t] = "returning"] /\ SendOk(t, x)
      BY <1>s, <2>2, <2>3, <2>7, <2>8, SendStep DEF PCs
  <2>9. CASE pc' = [pc EXCEPT ![t] = "thrown"] /\ SendFails(t, x)
      BY <1>s, <2>2, <2>3, <2>7, <2>9, SendStep DEF PCs
  <2> QED BY <2>2, <2>8, <2>9
<1>8. CASE Finish(t) \/ Unwind(t)
  <2>1. /\ pc[t] \in {"returning", "thrown"} /\ pc' = [pc EXCEPT ![t] = "releasing"]
        /\ UNCHANGED <<place, sock, forbidden, wire, cut, raised, reply>> /\ io' = [io EXCEPT ![t] = NoFd]
      BY <1>8 DEF Finish, Unwind, Leave
  <2>2. Says("releasing", r, sock[t])'
      BY <1>0, <2>1 DEF Says, Part, Inside, Silent
  <2> QED BY <1>0, <1>s, <2>1, <2>2, WordlessStep DEF PCs, Speaking
<1>9. CASE Refuse(t)
  <2>1. /\ pc[t] = "forbidding" /\ UNCHANGED <<place, sock, forbidden, raised, reply>>
        /\ \/ pc' = [pc EXCEPT ![t] = "releasing"] /\ SendOk(t, "403") /\ io' = [io EXCEPT ![t] = NoFd]
           \/ pc' = [pc EXCEPT ![t] = "refused"] /\ SendFails(t, "403") /\ UNCHANGED io
           \/ pc' = [pc EXCEPT ![t] = "refused"] /\ UNCHANGED <<io, wire, cut>>
      BY <1>9 DEF Refuse
  <2>2. pc[t] \in Speaking /\ "403" \in Heads /\ f # NoFd
      BY <1>0, <1>i, <2>1 DEF Speaking, Busy, Inside, Heads
  <2>3. wire[sock[t]] = <<>> /\ sock[t] \in forbidden /\ DOMAIN wire[sock[t]] = {}
      BY <1>0, <2>1, <2>2, Parts DEF Says, Silent
  <2>4. ASSUME SendOk(t, "403") \/ SendFails(t, "403") \/ UNCHANGED <<wire, cut>>
        PROVE  Says("releasing", reply[t], sock[t])' /\ Says("refused", reply[t], sock[t])'
    <3>1. wire'[sock[t]] \in {<<>>, <<"403">>}
      <4>1. Append(wire[sock[t]], "403") = <<"403">>
          BY <1>0, <2>2, <2>3, Parts
      <4> QED BY <2>2, <2>3, <2>4, <4>1, SendEffect
    <3> QED BY <2>1, <2>3, <3>1 DEF Says, Inside, Silent, Refusals
  <2>5. CASE pc' = [pc EXCEPT ![t] = "releasing"] /\ SendOk(t, "403") /\ io' = [io EXCEPT ![t] = NoFd]
      BY <2>1, <2>2, <2>4, <2>5, SendStep DEF PCs, Speaking
  <2>6. CASE pc' = [pc EXCEPT ![t] = "refused"] /\ SendFails(t, "403") /\ UNCHANGED io
      BY <1>s, <2>1, <2>2, <2>4, <2>6, SendStep DEF PCs
  <2>7. CASE pc' = [pc EXCEPT ![t] = "refused"] /\ UNCHANGED <<io, wire, cut>>
    <3>1. Says("refused", r, sock[t])'
        BY <1>r, <2>1, <2>4, <2>7 DEF Says, Part
    <3> QED BY <1>0, <1>s, <2>1, <2>2, <2>7, <3>1, WordlessStep DEF PCs
  <2> QED BY <2>1, <2>5, <2>6, <2>7
<1>10. CASE RefuseBadly(t)
  <2>1. /\ pc[t] = "refused" /\ UNCHANGED <<place, sock, forbidden, raised, reply>>
        /\ pc' = [pc EXCEPT ![t] = "releasing"] /\ io' = [io EXCEPT ![t] = NoFd]
        /\ SendOk(t, "400") \/ SendFails(t, "400")
      BY <1>10 DEF RefuseBadly
  <2>2. pc[t] \in Speaking /\ "400" \in Heads
      BY <2>1 DEF Speaking, Busy, Inside, Heads
  <2>3. sock[t] \in forbidden /\ wire[sock[t]] \in {<<>>, <<"403">>}
      BY <1>0, <2>1 DEF Says
  <2>4. wire'[sock[t]] \in Refusals
    <3>1. wire'[sock[t]] \in {wire[sock[t]], Append(wire[sock[t]], "400")}
        BY <2>1, <2>2, SendEffect
    <3>2. Append(<<>>, "400") = <<"400">> /\ Append(<<"403">>, "400") = <<"403", "400">>
        BY Pair
    <3> QED BY <2>3, <3>1, <3>2 DEF Refusals
  <2>5. Says("releasing", reply[t], sock[t])'
      BY <2>1, <2>3, <2>4 DEF Says, Inside, Silent
  <2> QED BY <2>1, <2>2, <2>5, SendStep DEF PCs, Speaking
<1> QED BY <1>1, <1>2, <1>3, <1>4, <1>5, <1>6, <1>7, <1>8, <1>9, <1>10, <1>11 DEF Handle

LEMMA NextSaid == WInv /\ SaidInv /\ [Next]_vars => SaidInv'
<1> SUFFICES ASSUME WInv, SaidInv, [Next]_vars PROVE SaidInv'
    OBVIOUS
<1>1. CASE Create
  <2>1. \A t \in Threads : pc'[t] # pc[t] => sock[t] = NoConn /\ pc'[t] \notin Busy
      BY <1>1 DEF Create, WInv, Shape, Slots, SlotIs, Loading, Busy, Inside
  <2> QED BY <1>1, <2>1, SilentStep DEF Create, sockets, local
<1>2. CASE Stop \/ Join
    BY <1>2, SilentStep DEF Stop, Join, sockets, local
<1>3. CASE Delete
    BY <1>3, DeleteSaid
<1>4. ASSUME NEW c \in Conns, Arrive(c) PROVE SaidInv'
    BY <1>4, ArriveSaid
<1>5. ASSUME NEW t \in Threads, WorkerStep(t) PROVE SaidInv'
  <2>1. CASE CreateWorker(t) \/ RegisterMethod(t) \/ DestroyWorker(t) \/ TakeNone(t)
    <3>1. UNCHANGED <<place, sock, io, forbidden, wire, cut, raised, reply>>
        BY <2>1 DEF CreateWorker, RegisterMethod, DestroyWorker, TakeNone, sockets, local
    <3>2. \/ UNCHANGED pc
          \/ /\ pc[t] \in {"starting", "registering", "leaving", "idle"}
             /\ \E p \in {"registering", "idle", "done", "leaving"} : pc' = [pc EXCEPT ![t] = p]
        BY <2>1 DEF CreateWorker, RegisterMethod, DestroyWorker, TakeNone, Goto
    <3>3. \A u \in Threads : pc'[u] # pc[u] => sock[u] = NoConn /\ pc'[u] \notin Busy
        BY <3>2 DEF WInv, Shape, Slots, SlotIs, Busy, Inside
    <3> QED BY <3>1, <3>3, SilentStep
  <2>2. CASE Take(t)
      BY <2>2, TakeSaid
  <2>3. CASE Release(t)
      BY <2>3, ReleaseSaid
  <2>4. CASE Handle(t) /\ ~Release(t)
      BY <2>4, HandleSaid
  <2> QED BY <1>5, <2>1, <2>2, <2>3, <2>4 DEF WorkerStep
<1>6. CASE UNCHANGED vars
    BY <1>6, SilentStep DEF vars, sockets, local
<1> QED BY <1>1, <1>2, <1>3, <1>4, <1>5, <1>6 DEF Next

LEMMA SaidInvAlways == Spec => []SaidInv
BY InitSaid, NextSaid, WInvAlways, PTL DEF Spec

\* One status line and one body or a prefix of them for whoever may ask, a 403,
\* a 400 or both for a forbidden client, whichever of its ways out handle() or
\* forbidden() took, and nothing of what a method wrote when a catch of handle()
\* answers for it.
THEOREM AnswersAreWholeAlways == Spec => []AnswersAreWhole
<1>1. ASSUME WInv, SaidInv, NEW c \in Conns
      PROVE  IF c \in forbidden THEN Turned(c) ELSE Answered(c)
  <2>1. wire[c] \in Seq(Heads \cup Bodies)
      BY <1>1 DEF SaidInv, Typed
  <2>2. CASE place[c] \in {"new", "queued", "dropped"}
    <3>1. wire[c] = <<>> /\ Len(wire[c]) = 0 /\ DOMAIN wire[c] = {}
        BY <1>1, <2>1, <2>2 DEF SaidInv, Unspoken
    <3>2. \A t \in Threads : work[t] # c
        BY <1>1, <2>2, ConnsAssumption DEF WInv, Shape, Slots, SlotIs, Whereabouts, Busy
    <3> QED BY <2>2, <3>1, <3>2 DEF Turned, Refusals, Answered
  <2>3. CASE place[c] = "closed"
    <3>1. Says("releasing", NewReply, c)
        BY <1>1, <2>3 DEF SaidInv, Ended
    <3>2. \A t \in Threads : work[t] # c
        BY <1>1, <2>3, ConnsAssumption DEF WInv, Shape, Slots, SlotIs, Whereabouts, Busy
    <3> QED BY <3>1, <3>2 DEF Says, Part, Turned, Answered
  <2>4. CASE place[c] = "held"
    <3>1. PICK t \in Threads : sock[t] = c
        BY <1>1, <2>4 DEF SaidInv, Attended
    <3>2. c # NoConn /\ pc[t] \in Busy
        BY <3>1, ConnsAssumption, <1>1 DEF WInv, Shape, Slots, SlotIs
    <3>3. Says(pc[t], reply[t], c)
        BY <1>1, <3>1, <3>2 DEF SaidInv, Spoken
    <3>4. CASE c \in forbidden
      <4>1. pc[t] \notin Inside
          BY <3>3, <3>4 DEF Says
      <4>2. \A u \in Threads : work[u] # c
          BY <1>1, <3>1, <3>2, <4>1 DEF WInv, Shape, Slots, SlotIs, Whereabouts, Inside, Busy
      <4> QED BY <3>3, <3>4, <4>2 DEF Says, Turned
    <3>5. CASE c \notin forbidden
      <4>1. CASE pc[t] \in Silent \cup {"head"}
        <5>1. wire[c] = <<>> /\ Len(wire[c]) = 0 /\ DOMAIN wire[c] = {}
            BY <3>3, <4>1 DEF Says
        <5> QED BY <2>4, <3>5, <5>1 DEF Answered
      <4>2. CASE pc[t] = "body"
        <5>1. Len(wire[c]) = 1 /\ DOMAIN wire[c] = {1} /\ wire[c][1] \in Heads
            BY <2>1, <3>3, <4>2 DEF Says
        <5> QED BY <2>4, <3>5, <5>1 DEF Answered
      <4>3. CASE pc[t] \in {"returning", "thrown", "releasing"}
          BY <2>4, <3>3, <3>5, <4>3 DEF Says, Part, Answered
      <4>4. pc[t] # "refused"
          BY <3>3, <3>5 DEF Says
      <4> QED BY <3>2, <4>1, <4>2, <4>3, <4>4 DEF Busy, Inside, Silent
    <3> QED BY <3>4, <3>5
  <2> QED BY <1>1, <2>2, <2>3, <2>4 DEF WInv, Shape
<1>2. WInv /\ SaidInv => AnswersAreWhole
    BY <1>1 DEF AnswersAreWhole
<1> QED BY <1>2, WInvAlways, SaidInvAlways, PTL

-----------------------------------------------------------------------------
(* The workers implement Handler, step by step.                            *)

Seen(p) == CASE p \in {"absent", "leaving", "done"} -> p
             [] p \in {"starting", "registering"} -> "starting"
             [] p = "idle" -> "dequeue"
             [] OTHER -> "handling"

LEMMA HandlerWorkers ==
    /\ H!Workers = {"http"} \X Threads
    /\ \A t \in Threads : <<"http", t>> \in H!Workers /\ <<"http", t>>[1] = "http" /\ <<"http", t>>[2] = t
BY DEF H!Workers, Threads

\* A step in which no thread changes what Handler sees of it.
LEMMA HiddenStep ==
    ASSUME UNCHANGED <<life, joined, workQueue, place, sock>>,
           \A t \in Threads : Seen(pc[t])' = Seen(pc[t])
    PROVE  UNCHANGED H!hvars
BY DEF H!hvars, Seen

LEMMA HandlerInit == Init => H!Init
<1> SUFFICES ASSUME Init PROVE H!Init
    OBVIOUS
<1> QED BY HandlerWorkers DEF Init, H!Init

LEMMA HandlerOwner ==
    ASSUME WInv, joined \in Nat, Create \/ Stop \/ Join \/ Delete
    PROVE  H!OwnerStep("http")
<1> USE DEF owner, sockets, local
<1>1. CASE Create
  <2> SUFFICES H!CreateWorkers("http")
      BY DEF H!OwnerStep
  <2> QED BY <1>1, HandlerWorkers DEF H!CreateWorkers, Create
<1>2. CASE Stop
  <2> SUFFICES H!BeginDestroy("http")
      BY DEF H!OwnerStep
  <2> QED BY <1>2 DEF H!BeginDestroy, Stop
<1>3. CASE Join
  <2> SUFFICES H!JoinWorker("http")
      BY DEF H!OwnerStep
  <2>1. joined + 1 \in Threads
      BY <1>3, CountAssumption DEF Join, Threads
  <2>2. <<"http", joined + 1>> \in {"http"} \X Threads
      BY <2>1
  <2> QED BY <1>3, <2>1, <2>2 DEF H!JoinWorker, Join
<1>4. CASE Delete
  <2> SUFFICES H!Delete("http")
      BY DEF H!OwnerStep
  <2>1. /\ life = "stopping" /\ life' = "deleted" /\ joined = WorkerCount /\ workQueue' = <<>>
        /\ place' = [c \in Conns |-> IF place[c] = "queued" THEN "dropped" ELSE place[c]]
        /\ UNCHANGED <<pc, sock, joined>>
      BY <1>4 DEF Delete, DropQueue
  <2>2. {c \in Conns : place'[c] = "closed"} = {c \in Conns : place[c] = "closed"}
      BY <2>1
  <2>3. {c \in Conns : place[c] = "queued"} = {workQueue[i] : i \in DOMAIN workQueue}
      BY DEF WInv, Shape, Whereabouts
  <2>4. {c \in Conns : place'[c] = "dropped"}
           = {c \in Conns : place[c] = "dropped"} \cup {workQueue[i] : i \in DOMAIN workQueue}
      BY <2>1, <2>3
  <2>5. H!Queued("http") = {workQueue[i] : i \in DOMAIN workQueue}
      BY DEF H!Queued
  <2> QED BY <2>1, <2>2, <2>4, <2>5 DEF H!Delete
<1> QED BY <1>1, <1>2, <1>3, <1>4

LEMMA HandlerArrive ==
    ASSUME WInv, NEW c \in Conns, Arrive(c)
    PROVE  ~H!Submitted(c) /\ H!Enqueue("http", c)
<1> USE DEF owner, sockets, local
<1>1. ~H!Submitted(c)
    BY HandlerWorkers, ConnsAssumption DEF H!Submitted, H!Queued, Arrive, WInv, Whereabouts, Threads
<1>2. H!Enqueue("http", c)
    BY DEF H!Enqueue, Arrive, WInv, Shape
<1> QED BY <1>1, <1>2

\* The places and sockets of the threads, and the served and the dropped
\* connections, as Handler sees them.
SeenPc == [w \in {"http"} \X Threads |->
              CASE pc[w[2]] \in {"absent", "leaving", "done"} -> pc[w[2]]
                [] pc[w[2]] \in {"starting", "registering"} -> "starting"
                [] pc[w[2]] = "idle" -> "dequeue"
                [] OTHER -> "handling"]
SeenSocket == [w \in {"http"} \X Threads |-> sock[w[2]]]
Closed == {c \in Conns : place[c] = "closed"}
Dropped == {c \in Conns : place[c] = "dropped"}

\* What Handler sees when thread t goes to p, and when it takes or lets go of
\* a connection.
LEMMA SeenStep ==
    ASSUME pc \in [Threads -> PCs], NEW t \in Threads, NEW p,
           pc' = [pc EXCEPT ![t] = p]
    PROVE  /\ SeenPc' = [SeenPc EXCEPT ![<<"http", t>>] = Seen(p)]
           /\ SeenPc[<<"http", t>>] = Seen(pc[t])
<1> DEFINE W == {"http"} \X Threads
           old == SeenPc
           new == SeenPc'
<1>0. /\ old = [w \in W |-> Seen(pc[w[2]])]
      /\ new = [w \in W |-> Seen(pc'[w[2]])]
    BY DEF SeenPc, Seen
<1> HIDE DEF old, new
<1>1. ASSUME NEW w \in W PROVE new[w] = [old EXCEPT ![<<"http", t>>] = Seen(p)][w]
  <2>1. w[2] \in Threads /\ w = <<"http", w[2]>>
      OBVIOUS
  <2>2. CASE w[2] = t
      BY <1>0, <2>1, <2>2
  <2>3. CASE w[2] # t
      BY <1>0, <2>1, <2>3
  <2> QED BY <2>2, <2>3
<1> QED BY <1>0, <1>1 DEF old, new

LEMMA SocketStep ==
    ASSUME sock \in [Threads -> Conns \cup {NoConn}], NEW t \in Threads, NEW c,
           sock' = [sock EXCEPT ![t] = c]
    PROVE  /\ SeenSocket' = [SeenSocket EXCEPT ![<<"http", t>>] = c]
           /\ SeenSocket[<<"http", t>>] = sock[t]
<1> DEFINE W == {"http"} \X Threads
           old == SeenSocket
           new == SeenSocket'
<1>0. /\ old = [w \in W |-> sock[w[2]]]
      /\ new = [w \in W |-> sock'[w[2]]]
    BY DEF SeenSocket
<1> HIDE DEF old, new
<1>1. ASSUME NEW w \in W PROVE new[w] = [old EXCEPT ![<<"http", t>>] = c][w]
  <2>1. w[2] \in Threads /\ w = <<"http", w[2]>>
      OBVIOUS
  <2>2. CASE w[2] = t
      BY <1>0, <2>1, <2>2
  <2>3. CASE w[2] # t
      BY <1>0, <2>1, <2>3
  <2> QED BY <2>2, <2>3
<1> QED BY <1>0, <1>1 DEF old, new

\* Inside handle(): Handler sees the thread handling all the time.
LEMMA HandleHidden ==
    ASSUME WInv, NEW t \in Threads, Handle(t), ~Release(t)
    PROVE  UNCHANGED H!hvars
<1> USE DEF Goto, owner, sockets, local
<1>1. pc[t] \in Busy /\ \E p \in Busy : pc' = [pc EXCEPT ![t] = p]
    BY DEF Handle, Enter, ReadRequest, ReadFails, AnswerBadRequest, Lookup, LookupThrows, Call,
           SendHead, SendBody, Finish, Unwind, Refuse, RefuseBadly, Busy, Inside
<1>2. UNCHANGED <<life, joined, workQueue, place, sock>>
    BY DEF Handle, Enter, ReadRequest, ReadFails, AnswerBadRequest, Lookup, LookupThrows, Call,
           SendHead, SendBody, Finish, Unwind, Refuse, RefuseBadly
<1>3. \A p \in Busy : Seen(p) = "handling"
    BY DEF Seen, Busy, Inside
<1>4. \A u \in Threads : Seen(pc[u])' = Seen(pc[u])
    BY <1>1, <1>3 DEF WInv, Shape
<1> QED BY <1>2, <1>4, HiddenStep

LEMMA HandlerWorker ==
    ASSUME WInv, NEW t \in Threads, WorkerStep(t)
    PROVE  \/ UNCHANGED H!hvars
           \/ H!WorkerStep(<<"http", t>>)
           \/ H!Handle(<<"http", t>>)
<1> USE DEF Goto, owner, sockets, local
<1> DEFINE w0 == <<"http", t>>
<1>0. Shape
    BY DEF WInv
<1>1. CASE CreateWorker(t)
  <2>1. \A u \in Threads : Seen(pc[u])' = Seen(pc[u])
      BY <1>1 DEF CreateWorker, Seen, WInv, Shape
  <2> QED BY <1>1, <2>1, HiddenStep DEF CreateWorker
<1>2. CASE RegisterMethod(t)
  <2>1. CASE UNCHANGED pc
      BY <1>2, <2>1, HiddenStep DEF RegisterMethod
  <2>2. CASE Goto(t, "registering", "idle")
    <3>1. SeenPc[w0] = "starting" /\ SeenPc' = [SeenPc EXCEPT ![w0] = "dequeue"]
        BY <1>0, <2>2, SeenStep DEF Shape, Seen
    <3>2. UNCHANGED <<life, workQueue, sock, joined, place>>
        BY <1>2 DEF RegisterMethod
    <3>3. H!WorkerStart(w0)
        BY <3>1, <3>2 DEF H!WorkerStart, SeenPc
    <3> QED BY <3>3 DEF H!WorkerStep
  <2> QED BY <1>2, <2>1, <2>2 DEF RegisterMethod
<1>3. CASE DestroyWorker(t)
  <2>1. SeenPc[w0] = "leaving" /\ SeenPc' = [SeenPc EXCEPT ![w0] = "done"]
      BY <1>0, <1>3, SeenStep DEF DestroyWorker, Shape, Seen
  <2>2. UNCHANGED <<life, workQueue, sock, joined, place>>
      BY <1>3 DEF DestroyWorker
  <2>3. H!WorkerLeave(w0)
      BY <2>1, <2>2 DEF H!WorkerLeave, SeenPc
  <2> QED BY <2>3 DEF H!WorkerStep
<1>4. CASE Take(t)
  <2>1. Head(workQueue) \in Conns /\ place[Head(workQueue)] = "queued"
      BY <1>4, TakeHead DEF Take, WInv, Shape, Whereabouts
  <2>2. Closed' = Closed /\ Dropped' = Dropped
      BY <1>0, <1>4, <2>1 DEF Take, Shape, Closed, Dropped
  <2>3. SeenPc[w0] = "dequeue" /\ SeenPc' = [SeenPc EXCEPT ![w0] = "handling"]
    <3>1. Seen("idle") = "dequeue" /\ Seen("entered") = "handling"
        BY DEF Seen
    <3>2. pc[t] = "idle" /\ pc' = [pc EXCEPT ![t] = "entered"]
        BY <1>4 DEF Take
    <3>3. /\ SeenPc' = [SeenPc EXCEPT ![w0] = Seen("entered")]
          /\ SeenPc[w0] = Seen(pc[t])
        BY <1>0, <3>2, SeenStep DEF Shape
    <3> QED BY <3>1, <3>2, <3>3
  <2>4. SeenSocket' = [SeenSocket EXCEPT ![w0] = Head(workQueue)]
      BY <1>0, <1>4, SocketStep DEF Take, Shape
  <2>5. UNCHANGED <<life, joined>> /\ workQueue # <<>> /\ workQueue' = Tail(workQueue)
      BY <1>4 DEF Take
  <2>6. /\ w0[1] = "http"
        /\ [h \in {"http"} |-> workQueue]["http"] = workQueue
        /\ [h \in {"http"} |-> workQueue'] = [[h \in {"http"} |-> workQueue] EXCEPT !["http"] = Tail(workQueue)]
      BY <2>5
  <2>7. H!Dequeue(w0)
    <3> HIDE DEF w0
    <3> QED BY <2>2, <2>3, <2>4, <2>5, <2>6 DEF H!Dequeue, SeenPc, SeenSocket, Closed, Dropped
  <2> QED BY <2>7 DEF H!WorkerStep
<1>5. CASE TakeNone(t)
  <2>1. SeenPc[w0] = "dequeue" /\ SeenPc' = [SeenPc EXCEPT ![w0] = "leaving"]
      BY <1>0, <1>5, SeenStep DEF TakeNone, Shape, Seen
  <2>2. life = "stopping" /\ UNCHANGED <<life, workQueue, sock, joined, place>>
      BY <1>5 DEF TakeNone
  <2>3. H!DequeueNone(w0)
      BY <2>1, <2>2 DEF H!DequeueNone, SeenPc
  <2> QED BY <2>3 DEF H!WorkerStep
<1>6. CASE Handle(t) /\ ~Release(t)
    BY <1>6, HandleHidden
<1>7. CASE Release(t)
  <2>1. sock[t] \in Conns /\ place[sock[t]] = "held"
      BY <1>7 DEF Release, WInv, Shape, Slots, SlotIs, Busy, Whereabouts
  <2>2. Closed' = Closed \cup {sock[t]} /\ Dropped' = Dropped
      BY <1>0, <1>7, <2>1 DEF Release, Shape, Closed, Dropped
  <2>3. SeenPc[w0] = "handling" /\ SeenPc' = [SeenPc EXCEPT ![w0] = "dequeue"]
      BY <1>0, <1>7, SeenStep DEF Release, Shape, Seen
  <2>4. SeenSocket[w0] = sock[t] /\ SeenSocket' = [SeenSocket EXCEPT ![w0] = NoConn]
      BY <1>0, <1>7, SocketStep DEF Release, Shape
  <2>5. UNCHANGED <<life, workQueue, joined>>
      BY <1>7 DEF Release
  <2>6. H!Handle(w0)
      BY <2>2, <2>3, <2>4, <2>5 DEF H!Handle, SeenPc, SeenSocket, Closed, Dropped
  <2> QED BY <2>6
<1> QED BY <1>1, <1>2, <1>3, <1>4, <1>5, <1>6, <1>7 DEF WorkerStep

LEMMA HandlerNext ==
    ASSUME WInv, joined \in Nat, [Next]_vars
    PROVE  [H!Next]_(H!hvars)
<1>1. CASE Create \/ Stop \/ Join \/ Delete
    BY <1>1, HandlerOwner DEF H!Next
<1>2. ASSUME NEW c \in Conns, Arrive(c) PROVE [H!Next]_(H!hvars)
    BY <1>2, HandlerArrive DEF H!Next
<1>3. ASSUME NEW t \in Threads, WorkerStep(t) PROVE [H!Next]_(H!hvars)
    BY <1>3, HandlerWorker, HandlerWorkers DEF H!Next
<1>4. CASE UNCHANGED vars
    BY <1>4, HiddenStep DEF vars, owner, sockets, Seen
<1> QED BY <1>1, <1>2, <1>3, <1>4 DEF Next

LEMMA JoinedAlways == Spec => [](joined \in Nat)
<1>1. Init => joined \in Nat
    BY DEF Init
<1>2. joined \in Nat /\ [Next]_vars => (joined \in Nat)'
    BY DEF Next, vars, owner, Create, Stop, Join, Delete, Arrive, WorkerStep, CreateWorker,
           RegisterMethod, DestroyWorker, Take, TakeNone, Handle, Enter, ReadRequest, ReadFails,
           AnswerBadRequest, Lookup, LookupThrows, Call, SendHead, SendBody, Finish, Unwind, Refuse,
           RefuseBadly, Release
<1> QED BY <1>1, <1>2, PTL DEF Spec

\* Every step of this handler is a step of Handler or one that Handler does not
\* see: no path through handle() and forbidden() loses a worker, a connection
\* or the order of the queue (Worker_t::run with CppHttpHandler_t::Worker_t).
THEOREM ImplementsHandlerSafely == Spec => H!Spec
<1>1. WInv /\ joined \in Nat /\ [Next]_vars => [H!Next]_(H!hvars)
    BY HandlerNext
<1> QED BY <1>1, HandlerInit, WInvAlways, JoinedAlways, PTL DEF Spec, H!Spec

-----------------------------------------------------------------------------
(* What is proved of every handler holds for this one.                     *)

HP == INSTANCE HandlerProofs WITH
        Handlers <- {"http"},
        WorkerCount <- [h \in {"http"} |-> WorkerCount],
        life <- [h \in {"http"} |-> CASE life = "loading" -> "constructed"
                                      [] life = "created" -> "running"
                                      [] life = "stopping" -> "finishing"
                                      [] life = "deleted" -> "deleted"],
        workQueue <- [h \in {"http"} |-> workQueue],
        pc <- SeenPc,
        socket <- SeenSocket,
        joined <- [h \in {"http"} |-> joined],
        served <- Closed,
        dropped <- Dropped

LEMMA SameHandler == HP!Init = H!Init /\ HP!Next = H!Next /\ HP!hvars = H!hvars
BY DEF HP!Init, H!Init, HP!Next, H!Next, HP!hvars, H!hvars, HP!Workers, H!Workers,
       HP!OwnerStep, H!OwnerStep, HP!CreateWorkers, H!CreateWorkers, HP!BeginDestroy, H!BeginDestroy,
       HP!JoinWorker, H!JoinWorker, HP!Delete, H!Delete, HP!Queued, H!Queued, HP!Submitted, H!Submitted,
       HP!Enqueue, H!Enqueue, HP!WorkerStep, H!WorkerStep, HP!WorkerStart, H!WorkerStart,
       HP!Dequeue, H!Dequeue, HP!DequeueNone, H!DequeueNone, HP!WorkerLeave, H!WorkerLeave,
       HP!Handle, H!Handle, SeenPc, Seen, SeenSocket, Closed, Dropped

LEMMA IsHandler == Spec => HP!Spec
<1>1. H!Init => HP!Init
    BY SameHandler
<1>2. [H!Next]_(H!hvars) => [HP!Next]_(HP!hvars)
  <2>1. CASE H!Next
      BY <2>1, SameHandler
  <2>2. CASE UNCHANGED H!hvars
      BY <2>2 DEF H!hvars, HP!hvars, SeenPc, Seen, SeenSocket, Closed, Dropped
  <2> QED BY <2>1, <2>2
<1> QED BY <1>1, <1>2, ImplementsHandlerSafely, PTL DEF H!Spec, HP!Spec

\* The assumptions of Handler, for this one.
LEMMA HandlerFacts == [h \in {"http"} |-> WorkerCount] \in [{"http"} -> Nat] /\ NoConn \notin Conns
BY CountAssumption, ConnsAssumption

\* No connection is given to two HTTP workers or lost between them, no answer
\* that fails and no exception costs the pool a thread, and none survives the
\* handler into ~CppHttpHandler_t() (Handler_t::destroyWorkers).
THEOREM HttpKeepsPromises == Spec => [](HP!OnePlace /\ HP!PoolIsWhole /\ HP!NoWorkerOutlivesHandler)
BY IsHandler, HandlerFacts, HP!OnePlaceAlways, HP!PoolIsWholeAlways,
   HP!NoWorkerOutlivesHandlerAlways, PTL

\* A connection handed to the HTTP handler is served in its turn, at most as
\* many at a time as it has workers, or dropped when the handler goes
\* (Handler_t::enqueue, CppHttpHandler_t::~CppHttpHandler_t).
THEOREM HttpDispatches == Spec => HP!D!Spec
BY IsHandler, HandlerFacts, HP!ImplementsDispatchSafely, PTL
=============================================================================
