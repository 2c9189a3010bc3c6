-------------------------- MODULE ThreadServerProofs --------------------------
(***************************************************************************)
(* The server process, for every number of listeners, handlers and workers *)
(* and in every interleaving of their threads with stop().                 *)
(*                                                                         *)
(* The order of the shutdown rests on what the two loops of stop() have    *)
(* established so far (Loops), and on what the joins have (Joins).  That   *)
(* the components do here what their own modules say is proved one after   *)
(* the other: of the listeners first (ServerListens), because              *)
(* their invariant is why no handler is given a connection twice           *)
(* (HandlerContractAlways).  With both, what is proved of a component      *)
(* alone holds in the process.                                             *)
(***************************************************************************)
EXTENDS ThreadServer, Integers, TLAPS

\* Where the listeners are stopped, and where the handlers are gone.
Ending == {"deleteHandlers", "dropWork", "stopIo", "joinIo", "destroy", "exited"}
Gone == Ending \ {"deleteHandlers"}

\* The pools: the part of the handlers that their destruction depends on.
Joins ==
    /\ life \in [Handlers -> H!Lives]
    /\ pc \in [H!Workers -> H!PCs]
    /\ joined \in [Handlers -> Nat]
    /\ DOMAIN workQueue = Handlers /\ workQueue = [h \in Handlers |-> workQueue[h]]
    /\ DOMAIN socket = H!Workers /\ socket = [w \in H!Workers |-> socket[w]]
    /\ \A h \in Handlers :
          /\ \A i \in 1 .. joined[h] : <<h, i>> \in H!Workers => pc[<<h, i>>] = "done"
          /\ life[h] = "constructed" => joined[h] = 0
          /\ life[h] = "deleted" => joined[h] = WorkerCount[h] /\ workQueue[h] = <<>>
    /\ \A w \in H!Workers : /\ socket[w] # NoConn => pc[w] = "handling"
                            /\ life[w[1]] = "constructed" => pc[w] = "absent"

\* The acceptor threads.
Acceptors ==
    /\ DOMAIN acceptor = Listeners /\ acceptor = [l \in Listeners |-> acceptor[l]]
    /\ DOMAIN athread = Listeners /\ athread = [l \in Listeners |-> athread[l]]
    /\ \A l \in Listeners : acceptor[l] = "stopped" => athread[l] = "done"

\* How far the main thread has come.
Loops ==
    /\ mpc \in {"startRun", "startIo", "poll"} => cur = 1
    /\ mpc \in {"createWorkers", "deleteHandlers"} => cur \in 1 .. Len(HandlerOrder)
    /\ mpc \in {"listen", "cancel", "close", "join"} => cur \in 1 .. Len(ListenerOrder)
    /\ mpc \in {"cancel", "close", "join"} =>
           \A i \in 1 .. Len(ListenerOrder) : i < cur => acceptor[ListenerOrder[i]] = "stopped"
    /\ mpc \in Ending => \A l \in Listeners : acceptor[l] = "stopped"
    /\ mpc \notin Ending => \A h \in Handlers : life[h] \in {"constructed", "running"}
    /\ mpc = "deleteHandlers" =>
           \A i \in 1 .. Len(HandlerOrder) : i < cur => life[HandlerOrder[i]] = "deleted"
    /\ mpc \in Gone => \A h \in Handlers : life[h] = "deleted"
    /\ mpc \in {"destroy", "exited"} => io = "returned"

SInv == Joins /\ Acceptors /\ Loops

-----------------------------------------------------------------------------
LEMMA Orders ==
    /\ \A i \in 1 .. Len(HandlerOrder) : HandlerOrder[i] \in Handlers
    /\ \A h \in Handlers : \E i \in 1 .. Len(HandlerOrder) : HandlerOrder[i] = h
    /\ \A i \in 1 .. Len(ListenerOrder) : ListenerOrder[i] \in Listeners
    /\ \A l \in Listeners : \E i \in 1 .. Len(ListenerOrder) : ListenerOrder[i] = l
    /\ Len(HandlerOrder) \in Nat \ {0} /\ Len(ListenerOrder) \in Nat \ {0}
BY OrderAssumption

LEMMA WorkerShape ==
    /\ \A w \in H!Workers : w[1] \in Handlers /\ w = <<w[1], w[2]>> /\ w[2] \in 1 .. WorkerCount[w[1]]
    /\ \A h \in Handlers : \A w \in H!Pool(h) : w \in H!Workers /\ w[1] = h
BY DEF H!Workers, H!Pool

LEMMA InitSInv == Init => SInv
<1> SUFFICES ASSUME Init PROVE SInv
    OBVIOUS
<1>1. Joins
    BY WorkerShape DEF Init, H!Init, Joins, H!Lives, H!PCs
<1>2. Acceptors
    BY DEF Init, L!Init, Acceptors
<1>3. Loops
    BY Orders DEF Init, H!Init, Loops, Ending, Gone
<1> QED BY <1>1, <1>2, <1>3 DEF SInv

-----------------------------------------------------------------------------
(* What a step of a handler does to its pool, whoever drives it.           *)

LEMMA PoolOwner ==
    ASSUME Joins, NEW h \in Handlers,
           H!CreateWorkers(h) \/ H!BeginDestroy(h) \/ H!JoinWorker(h) \/ H!Delete(h)
    PROVE  Joins'
<1> USE DEF Joins, H!Lives, H!PCs
<1>1. CASE H!CreateWorkers(h)
  <2>1. /\ life' = [life EXCEPT ![h] = "running"]
        /\ pc' = [w \in H!Workers |-> IF w[1] = h THEN "starting" ELSE pc[w]]
        /\ UNCHANGED <<workQueue, socket, joined>>
        /\ life[h] = "constructed"
      BY <1>1 DEF H!CreateWorkers
  <2>2. ASSUME NEW g \in Handlers, NEW i \in 1 .. joined[g], <<g, i>> \in H!Workers
        PROVE  pc'[<<g, i>>] = "done"
    <3>1. g # h
        BY <2>1, <2>2
    <3> QED BY <2>1, <2>2, <3>1
  <2>3. ASSUME NEW w \in H!Workers
        PROVE  /\ socket[w] # NoConn => pc'[w] = "handling"
               /\ life'[w[1]] = "constructed" => pc'[w] = "absent"
    <3>1. CASE w[1] = h
        BY <2>1, <3>1, WorkerShape
    <3>2. CASE w[1] # h
        BY <2>1, <3>2, WorkerShape
    <3> QED BY <3>1, <3>2
  <2>4. pc' \in [H!Workers -> H!PCs] /\ life' \in [Handlers -> H!Lives]
      BY <2>1
  <2>5. \A g \in Handlers :
            /\ life'[g] = "constructed" => joined[g] = 0
            /\ life'[g] = "deleted" => joined[g] = WorkerCount[g] /\ workQueue[g] = <<>>
      BY <2>1
  <2> QED BY <2>1, <2>2, <2>3, <2>4, <2>5
<1>2. CASE H!BeginDestroy(h)
  <2>1. /\ life[h] = "running" /\ life' = [life EXCEPT ![h] = "finishing"]
        /\ UNCHANGED <<workQueue, pc, socket, joined>>
      BY <1>2 DEF H!BeginDestroy
  <2>2. /\ life' \in [Handlers -> H!Lives]
        /\ \A g \in Handlers : life'[g] \in {"constructed", "deleted"} => life'[g] = life[g]
      BY <2>1
  <2>3. \A w \in H!Workers : life'[w[1]] = "constructed" => pc[w] = "absent"
      BY <2>2, WorkerShape
  <2> QED BY <2>1, <2>2, <2>3
<1>3. CASE H!JoinWorker(h)
  <2>1. /\ life[h] = "finishing" /\ joined' = [joined EXCEPT ![h] = joined[h] + 1]
        /\ pc[<<h, joined[h] + 1>>] = "done"
        /\ UNCHANGED <<life, workQueue, pc, socket>>
    <3>1. joined' = [joined EXCEPT ![h] = joined[h] + 1]
        BY <1>3 DEF H!JoinWorker
    <3> QED BY <1>3, <3>1 DEF H!JoinWorker
  <2>2. ASSUME NEW g \in Handlers, NEW i \in 1 .. joined'[g], <<g, i>> \in H!Workers
        PROVE  pc[<<g, i>>] = "done"
    <3>1. CASE g = h
      <4>1. joined'[g] = joined[g] + 1 /\ joined[g] \in Nat
          BY <2>1, <2>2, <3>1
      <4>2. i \in 1 .. joined[g] \/ i = joined[h] + 1
          BY <2>2, <3>1, <4>1
      <4> QED BY <2>1, <2>2, <3>1, <4>2
    <3>2. CASE g # h
        BY <2>1, <2>2, <3>2
    <3> QED BY <3>1, <3>2
  <2>3. joined' \in [Handlers -> Nat]
      BY <2>1
  <2>4. \A g \in Handlers : life[g] # "finishing" => joined'[g] = joined[g]
      BY <2>1
  <2> QED BY <2>1, <2>2, <2>3, <2>4
<1>4. CASE H!Delete(h)
  <2>1. /\ life[h] = "finishing" /\ joined[h] = WorkerCount[h]
        /\ life' = [life EXCEPT ![h] = "deleted"]
        /\ workQueue' = [workQueue EXCEPT ![h] = <<>>]
        /\ UNCHANGED <<pc, socket, joined>>
      BY <1>4 DEF H!Delete
  <2>2. life' \in [Handlers -> H!Lives]
      BY <2>1
  <2>3. DOMAIN workQueue' = Handlers /\ workQueue' = [g \in Handlers |-> workQueue'[g]]
    <3>1. DOMAIN workQueue = Handlers
        OBVIOUS
    <3> HIDE DEF Joins
    <3> QED BY <2>1, <3>1
  <2>4. ASSUME NEW g \in Handlers
        PROVE  /\ life'[g] = "constructed" => joined[g] = 0
               /\ life'[g] = "deleted" => joined[g] = WorkerCount[g] /\ workQueue'[g] = <<>>
    <3>1. CASE g = h
        BY <2>1, <3>1
    <3>2. CASE g # h
        BY <2>1, <3>2
    <3> QED BY <3>1, <3>2
  <2>5. \A w \in H!Workers : life'[w[1]] = "constructed" => pc[w] = "absent"
      BY <2>1, WorkerShape
  <2> QED BY <2>1, <2>2, <2>3, <2>4, <2>5
<1> QED BY <1>1, <1>2, <1>3, <1>4

\* Enqueueing and the steps of a worker leave life and joined alone.
LEMMA PoolWorker ==
    ASSUME Joins, NEW w \in H!Workers, H!WorkerStep(w) \/ H!Handle(w)
    PROVE  Joins' /\ UNCHANGED life
<1> USE DEF Joins, H!PCs
<1>1. UNCHANGED <<life, joined>> /\ pc[w] \notin {"absent", "done"}
    BY DEF H!WorkerStep, H!WorkerStart, H!Dequeue, H!DequeueNone, H!WorkerLeave, H!Handle
<1>2. PICK p \in H!PCs : pc' = [pc EXCEPT ![w] = p]
    BY DEF H!WorkerStep, H!WorkerStart, H!Dequeue, H!DequeueNone, H!WorkerLeave, H!Handle
<1>3. \/ UNCHANGED workQueue
      \/ workQueue[w[1]] # <<>> /\ workQueue' = [workQueue EXCEPT ![w[1]] = Tail(workQueue[w[1]])]
    BY DEF H!WorkerStep, H!WorkerStart, H!Dequeue, H!DequeueNone, H!WorkerLeave, H!Handle
<1>4. \/ UNCHANGED socket /\ pc[w] # "handling"
      \/ p = "handling" /\ socket' = [socket EXCEPT ![w] = Head(workQueue[w[1]])]
      \/ socket' = [socket EXCEPT ![w] = NoConn]
    BY <1>2 DEF H!WorkerStep, H!WorkerStart, H!Dequeue, H!DequeueNone, H!WorkerLeave, H!Handle
<1>5. pc' \in [H!Workers -> H!PCs] /\ \A v \in H!Workers : v # w => pc'[v] = pc[v]
    BY <1>2
<1>6. DOMAIN workQueue' = Handlers /\ workQueue' = [h \in Handlers |-> workQueue'[h]]
    BY <1>3
<1>7. DOMAIN socket' = H!Workers /\ socket' = [v \in H!Workers |-> socket'[v]]
    BY <1>4
<1>8. \A h \in Handlers : life[h] = "deleted" => workQueue'[h] = <<>>
    BY <1>3, WorkerShape
<1>9. ASSUME NEW v \in H!Workers
      PROVE  /\ socket'[v] # NoConn => pc'[v] = "handling"
             /\ life[v[1]] = "constructed" => pc'[v] = "absent"
  <2>1. CASE v = w
      BY <1>1, <1>2, <1>4, <2>1
  <2>2. CASE v # w
      BY <1>4, <1>5, <2>2
  <2> QED BY <2>1, <2>2
<1>10. ASSUME NEW h \in Handlers, NEW i \in 1 .. joined[h], <<h, i>> \in H!Workers
       PROVE  pc'[<<h, i>>] = "done"
    BY <1>1, <1>5, <1>10
<1> QED BY <1>1, <1>5, <1>6, <1>7, <1>8, <1>9, <1>10

LEMMA PoolEnqueue ==
    ASSUME Joins, NEW h, NEW c, H!Enqueue(h, c)
    PROVE  Joins' /\ UNCHANGED life
<1>1. /\ life[h] \in {"running", "finishing"}
      /\ workQueue' = [workQueue EXCEPT ![h] = Append(workQueue[h], c)]
      /\ UNCHANGED <<life, pc, socket, joined>>
    BY DEF H!Enqueue
<1>2. /\ DOMAIN workQueue' = Handlers /\ workQueue' = [g \in Handlers |-> workQueue'[g]]
      /\ \A g \in Handlers : life[g] = "deleted" => workQueue'[g] = workQueue[g]
  <2>1. DOMAIN workQueue = Handlers
      BY DEF Joins
  <2>2. DOMAIN workQueue' = Handlers /\ workQueue' = [g \in Handlers |-> workQueue'[g]]
      BY <1>1, <2>1
  <2>3. ASSUME NEW g \in Handlers, life[g] = "deleted"
        PROVE  workQueue'[g] = workQueue[g]
    <3>1. g # h
        BY <1>1, <2>3
    <3> QED BY <1>1, <2>1, <3>1
  <2> QED BY <2>2, <2>3
<1> QED BY <1>1, <1>2 DEF Joins

-----------------------------------------------------------------------------
(* The threads beside the main one change no phase, no handler's life and  *)
(* no acceptor.                                                            *)

Beside == /\ UNCHANGED <<mpc, cur, life, acceptor>>
          /\ io = "returned" => io' = "returned"

LEMMA BesideLoops == Loops /\ Beside => Loops'
BY DEF Loops, Beside

LEMMA IoSteps == ASSUME SInv, IoStep \/ IoCheckThrows PROVE SInv'
<1> USE DEF SInv
<1>1. CASE IoEnqueue
  <2>1. PICK h : h = HandlerOf[inHand.listener]
      OBVIOUS
  <2>2. PICK c : c = inHand.result
      OBVIOUS
  <2>3. H!Enqueue(h, c)
      BY <1>1, <2>1, <2>2 DEF IoEnqueue, H!Enqueue
  <2>4. Joins' /\ UNCHANGED life
      BY <2>3, PoolEnqueue
  <2>5. UNCHANGED <<acceptor, athread>> /\ Beside
      BY <1>1, <2>4 DEF IoEnqueue, L!IoEnqueue, mvars, Beside
  <2> QED BY <2>4, <2>5, BesideLoops DEF Acceptors
<1>2. CASE IoAccept \/ IoEnqueueDeleted \/ IoReturn \/ IoCheckThrows
  <2>1. UNCHANGED hvars /\ UNCHANGED <<acceptor, athread>> /\ Beside
      BY <1>2 DEF IoAccept, IoEnqueueDeleted, IoReturn, IoCheckThrows, L!IoDispatch, L!IoRearm,
                  L!IoCheck, L!IoReturn, L!IoCheckThrows, lvars, hvars, mvars, Beside
  <2> QED BY <2>1, BesideLoops DEF Acceptors, Joins, hvars
<1> QED BY <1>1, <1>2 DEF IoStep

LEMMA WorkSteps ==
    ASSUME SInv, NEW w \in H!Workers, Work(w) \/ HandleConn(w) \/ WorkerStartThrows(w)
    PROVE  SInv'
<1> USE DEF SInv
<1>1. CASE Work(w) \/ HandleConn(w)
  <2>1. Joins' /\ UNCHANGED life
      BY <1>1, PoolWorker DEF Work, HandleConn
  <2>2. UNCHANGED <<acceptor, athread>> /\ Beside
      BY <1>1, <2>1 DEF Work, HandleConn, lvars, mvars, Beside
  <2> QED BY <2>1, <2>2, BesideLoops DEF Acceptors
<1>2. CASE WorkerStartThrows(w)
  <2>1. UNCHANGED hvars /\ UNCHANGED <<acceptor, athread>> /\ Beside
      BY <1>2 DEF WorkerStartThrows, lvars, hvars, Beside
  <2> QED BY <2>1, BesideLoops DEF Acceptors, Joins, hvars
<1> QED BY <1>1, <1>2

\* The acceptor threads, the kernel and the signal.
LEMMA AcceptSteps ==
    ASSUME SInv,
           \/ \E l \in Listeners : Accepting(l) \/ AcceptFails(l)
           \/ \E l \in Listeners, c \in Conns : Kernel(l, c)
           \/ Signal \/ LateThread \/ UNCHANGED vars
    PROVE  SInv'
<1> USE DEF SInv
<1>1. UNCHANGED hvars /\ Beside
    BY DEF Accepting, AcceptFails, Kernel, Signal, LateThread, vars, hvars, lvars, mvars, Beside,
           L!Listen, L!AcceptFails, L!Connect, L!AcceptOk
<1>2. \/ UNCHANGED athread
      \/ \E l \in Listeners : athread' = [athread EXCEPT ![l] = "done"]
    BY DEF Accepting, AcceptFails, Kernel, Signal, LateThread, vars, lvars,
           L!Listen, L!AcceptFails, L!Connect, L!AcceptOk
<1>3. Acceptors'
    BY <1>1, <1>2 DEF Acceptors, Beside
<1> QED BY <1>1, <1>3, BesideLoops DEF Joins, hvars

-----------------------------------------------------------------------------
(* The main thread.                                                        *)

LEMMA ListenerSteps ==
    ASSUME SInv, RunListener \/ CancelListener \/ CloseListener \/ JoinListener
    PROVE  SInv'
<1> USE DEF SInv
<1>1. PICK l \in Listeners : l = ListenerOrder[cur]
    BY Orders DEF RunListener, CancelListener, CloseListener, JoinListener, Goto, Loops
<1>2. UNCHANGED <<hvars, io>>
    BY DEF RunListener, CancelListener, CloseListener, JoinListener,
           L!Run, L!Cancel, L!Close, L!Join
<1>3. Joins'
    BY <1>2 DEF Joins, hvars
<1>4. Acceptors'
  <2>1. CASE RunListener
    <3>1. /\ acceptor' = [acceptor EXCEPT ![l] = "open"]
          /\ athread' = [athread EXCEPT ![l] = "started"]
        BY <1>1, <2>1 DEF RunListener, L!Run
    <3> QED BY <3>1 DEF Acceptors
  <2>2. CASE CancelListener \/ CloseListener
    <3>1. /\ UNCHANGED athread
          /\ \E s \in {"cancelled", "closed"} : acceptor' = [acceptor EXCEPT ![l] = s]
        BY <1>1, <2>2 DEF CancelListener, CloseListener, L!Cancel, L!Close
    <3> QED BY <3>1 DEF Acceptors
  <2>3. CASE JoinListener
    <3>1. /\ UNCHANGED athread /\ athread[l] = "done"
          /\ acceptor' = [acceptor EXCEPT ![l] = "stopped"]
        BY <1>1, <2>3 DEF JoinListener, L!Join
    <3> QED BY <3>1 DEF Acceptors
  <2> QED BY <2>1, <2>2, <2>3
<1>5. Loops'
  <2>1. CASE RunListener
    <3>1. mpc = "listen" /\ Advance(ListenerOrder, "startIo") /\ UNCHANGED life
        BY <1>2, <2>1 DEF RunListener, hvars
    <3> QED BY <3>1, Orders DEF Loops, Advance, Ending, Gone
  <2>2. CASE CancelListener \/ CloseListener
    <3>1. /\ UNCHANGED <<cur, life>>
          /\ \/ mpc = "cancel" /\ mpc' = "close"
             \/ mpc = "close" /\ mpc' = "join"
          /\ acceptor[l] \in {"open", "cancelled"}
          /\ \E s \in {"cancelled", "closed"} : acceptor' = [acceptor EXCEPT ![l] = s]
        BY <1>1, <1>2, <2>2 DEF CancelListener, CloseListener, L!Cancel, L!Close, Goto, hvars
    <3>2. \A k \in Listeners : acceptor[k] = "stopped" => acceptor'[k] = "stopped"
        BY <3>1 DEF Acceptors
    <3> QED BY <3>1, <3>2, Orders DEF Loops, Ending, Gone
  <2>3. CASE JoinListener
    <3>1. /\ UNCHANGED life /\ mpc = "join"
          /\ acceptor' = [acceptor EXCEPT ![l] = "stopped"]
          /\ IF cur < Len(ListenerOrder) THEN cur' = cur + 1 /\ mpc' = "cancel"
                                         ELSE cur' = 1 /\ mpc' = "deleteHandlers"
        BY <1>1, <1>2, <2>3 DEF JoinListener, L!Join, hvars
    <3>2. \A i \in 1 .. Len(ListenerOrder) :
              i <= cur => acceptor'[ListenerOrder[i]] = "stopped"
      <4>1. ASSUME NEW i \in 1 .. Len(ListenerOrder), i <= cur
            PROVE  acceptor[ListenerOrder[i]] = "stopped" \/ ListenerOrder[i] = l
        <5>1. CASE i = cur
            BY <1>1, <5>1
        <5>2. CASE i < cur
            BY <3>1, <4>1, <5>2 DEF Loops
        <5>3. i \in Nat /\ cur \in Nat
            BY <3>1, <4>1, Orders DEF Loops
        <5> QED BY <4>1, <5>1, <5>2, <5>3
      <4>2. \A k \in Listeners : acceptor[k] = "stopped" \/ k = l => acceptor'[k] = "stopped"
          BY <3>1 DEF Acceptors
      <4> QED BY <4>1, <4>2, Orders
    <3>3. CASE cur < Len(ListenerOrder)
        BY <3>1, <3>2, <3>3, Orders DEF Loops, Ending, Gone
    <3>4. CASE ~(cur < Len(ListenerOrder))
      <4>1. \A k \in Listeners : acceptor'[k] = "stopped"
          BY <3>1, <3>2, <3>4, Orders DEF Loops
      <4> QED BY <3>1, <3>4, <4>1, Orders DEF Loops, Ending, Gone
    <3> QED BY <3>3, <3>4
  <2> QED BY <2>1, <2>2, <2>3
<1> QED BY <1>3, <1>4, <1>5

LEMMA HandlerSteps ==
    ASSUME SInv, CreateWorkers \/ DeleteHandler
    PROVE  SInv'
<1> USE DEF SInv
<1>1. PICK h \in Handlers : h = HandlerOrder[cur]
    BY Orders DEF CreateWorkers, DeleteHandler, Loops
<1>2. Acceptors' /\ UNCHANGED <<acceptor, io>>
    BY DEF CreateWorkers, DeleteHandler, lvars, Acceptors
<1>3. CASE CreateWorkers
  <2>1. H!CreateWorkers(h) /\ mpc = "createWorkers" /\ Advance(HandlerOrder, "startRun")
      BY <1>1, <1>3 DEF CreateWorkers
  <2>2. Joins'
      BY <2>1, PoolOwner
  <2>3. life' = [life EXCEPT ![h] = "running"]
      BY <2>1 DEF H!CreateWorkers
  <2>4. \A g \in Handlers : life'[g] \in {"constructed", "running"}
      BY <2>1, <2>3 DEF Loops, Joins, Ending
  <2>5. Loops'
      BY <1>2, <2>1, <2>4, Orders DEF Loops, Advance, Ending, Gone
  <2> QED BY <1>2, <2>2, <2>5
<1>4. CASE DeleteHandler
  <2>1. /\ mpc = "deleteHandlers"
        /\ \/ (H!BeginDestroy(h) \/ H!JoinWorker(h)) /\ UNCHANGED <<mpc, cur>>
           \/ H!Delete(h) /\ Advance(HandlerOrder, "dropWork")
      BY <1>1, <1>4 DEF DeleteHandler
  <2>2. Joins'
      BY <2>1, PoolOwner
  <2>3. CASE (H!BeginDestroy(h) \/ H!JoinWorker(h)) /\ UNCHANGED <<mpc, cur>>
    <3>1. \/ UNCHANGED life
          \/ life[h] = "running" /\ life' = [life EXCEPT ![h] = "finishing"]
        BY <2>3 DEF H!BeginDestroy, H!JoinWorker
    <3>2. \A g \in Handlers : life[g] = "deleted" => life'[g] = "deleted"
        BY <3>1 DEF Joins
    <3>3. Loops'
        BY <1>2, <2>1, <2>3, <3>2, Orders DEF Loops, Ending, Gone
    <3> QED BY <1>2, <2>2, <3>3
  <2>4. CASE H!Delete(h) /\ Advance(HandlerOrder, "dropWork")
    <3>1. life' = [life EXCEPT ![h] = "deleted"]
        BY <2>4 DEF H!Delete
    <3>2. \A i \in 1 .. Len(HandlerOrder) : i <= cur => life'[HandlerOrder[i]] = "deleted"
        BY <1>1, <2>1, <3>1, Orders DEF Loops, Joins
    <3>3. CASE cur < Len(HandlerOrder)
        BY <1>2, <2>1, <2>2, <2>4, <3>2, <3>3, Orders DEF Loops, Advance, Ending, Gone
    <3>4. CASE ~(cur < Len(HandlerOrder))
      <4>1. \A g \in Handlers : life'[g] = "deleted"
          BY <2>1, <3>2, <3>4, Orders DEF Loops
      <4> QED BY <1>2, <2>1, <2>2, <2>4, <3>4, <4>1, Orders DEF Loops, Advance, Ending, Gone
    <3> QED BY <3>3, <3>4
  <2> QED BY <2>1, <2>3, <2>4
<1> QED BY <1>3, <1>4

LEMMA PhaseSteps ==
    ASSUME SInv,
           \/ StartRun \/ RunThrows \/ StartIo \/ LeavePoll \/ DropWork \/ StopIo
           \/ JoinIo \/ Destroy \/ Unwind \/ ReturnOne
    PROVE  SInv'
<1> USE DEF SInv
<1>1. /\ UNCHANGED <<hvars, acceptor, athread, cur>>
      /\ \/ mpc = "startRun" /\ mpc' = "listen"
         \/ mpc = "listen" /\ mpc' = "unwind"
         \/ mpc = "startIo" /\ mpc' = "poll"
         \/ mpc = "poll" /\ mpc' = "cancel"
         \/ mpc = "dropWork" /\ mpc' = "stopIo"
         \/ mpc = "stopIo" /\ mpc' = "joinIo"
         \/ mpc = "joinIo" /\ mpc' = "destroy" /\ io = "returned" /\ UNCHANGED io
         \/ mpc = "destroy" /\ mpc' = "exited" /\ UNCHANGED io
         \/ mpc = "unwind" /\ mpc' = "unwound"
         \/ mpc = "unwound" /\ mpc' = "failed"
    BY DEF StartRun, RunThrows, StartIo, LeavePoll, DropWork, StopIo, JoinIo, Destroy,
           Unwind, ReturnOne, Goto, L!IoStart, lvars
<1>2. Joins' /\ Acceptors'
    BY <1>1 DEF Joins, Acceptors, hvars
<1>3. Loops'
    BY <1>1, Orders DEF Loops, Ending, Gone, hvars
<1> QED BY <1>2, <1>3

-----------------------------------------------------------------------------
LEMMA NextSInv == SInv /\ [Next]_vars => SInv'
<1> SUFFICES ASSUME SInv, [Next]_vars PROVE SInv'
    OBVIOUS
<1>1. CASE MainStep
    BY <1>1, ListenerSteps, HandlerSteps, PhaseSteps DEF MainStep
<1>2. CASE IoStep \/ IoCheckThrows
    BY <1>2, IoSteps
<1>3. CASE \E w \in H!Workers : Work(w) \/ HandleConn(w) \/ WorkerStartThrows(w)
    BY <1>3, WorkSteps
<1>4. CASE \/ \E l \in Listeners : Accepting(l) \/ AcceptFails(l)
           \/ \E l \in Listeners, c \in Conns : Kernel(l, c)
           \/ Signal \/ LateThread \/ UNCHANGED vars
    BY <1>4, AcceptSteps
<1> QED BY <1>1, <1>2, <1>3, <1>4 DEF Next, Step, Ended

LEMMA SInvAlways == Spec => []SInv
BY InitSInv, NextSInv, PTL DEF Spec

\* No handler is told to finish, and none is deleted, before the acceptor of
\* every listener has been closed and its thread joined: stop() takes the
\* listeners down first (ThreadServer_t::stop).
THEOREM StopOrderAlways == Spec => []StopOrder
<1>1. SInv => StopOrder
    BY DEF SInv, Loops, StopOrder
<1> QED BY <1>1, SInvAlways, PTL

\* A process that leaves main() through stop() has joined every thread it
\* started, and has deleted every handler with its queue empty, before the
\* libraries of the handlers are unloaded (ThreadServer_t::stop and the
\* destructors it runs).
THEOREM ExitIsCleanAlways == Spec => []ExitIsClean
<1>1. ASSUME SInv, mpc \in {"destroy", "exited"} PROVE ExitIsClean
  <2>1. /\ io = "returned"
        /\ \A l \in Listeners : athread[l] = "done"
        /\ \A h \in Handlers : life[h] = "deleted"
      BY <1>1 DEF SInv, Loops, Acceptors, Ending, Gone
  <2>2. ASSUME NEW h \in Handlers, NEW w \in H!Pool(h)
        PROVE  pc[w] = "done" /\ socket[w] = NoConn
    <3>1. joined[h] = WorkerCount[h]
        BY <1>1, <2>1 DEF SInv, Joins
    <3>2. w \in H!Workers /\ w = <<h, w[2]>> /\ w[2] \in 1 .. WorkerCount[h]
        BY WorkerShape
    <3> QED BY <1>1, <3>1, <3>2 DEF SInv, Joins
  <2>3. \A h \in Handlers : workQueue[h] = <<>>
      BY <1>1, <2>1 DEF SInv, Joins
  <2> QED BY <2>1, <2>2, <2>3 DEF ExitIsClean, H!NoWorkerOutlivesHandler
<1>2. SInv => ExitIsClean
    BY <1>1 DEF ExitIsClean
<1> QED BY <1>2, SInvAlways, PTL

-----------------------------------------------------------------------------
(* The listeners in here do what Listener says of them.                    *)

\* The process does not survive an exception of the io thread.
Alive == fault = "none" => L!Alive

LEMMA NextAlive == Alive /\ [Next]_vars => Alive'
<1> SUFFICES ASSUME Alive, [Next]_vars, fault' = "none" PROVE io' # "threw"
    BY DEF Alive, L!Alive
<1>1. CASE MainStep \/ Signal \/ UNCHANGED vars
    BY <1>1 DEF MainStep, CreateWorkers, StartRun, RunListener, RunThrows, StartIo, LeavePoll,
                CancelListener, CloseListener, JoinListener, DeleteHandler, DropWork, StopIo,
                JoinIo, Destroy, Unwind, ReturnOne, Signal, L!Run, L!IoStart, L!Cancel, L!Close,
                L!Join, vars, lvars, mvars, Alive, L!Alive
<1>2. CASE IoStep \/ IoCheckThrows
    BY <1>2 DEF IoStep, IoAccept, IoEnqueue, IoEnqueueDeleted, IoReturn, IoCheckThrows,
                L!IoDispatch, L!IoRearm, L!IoCheck, L!IoEnqueue, L!IoReturn, L!IoCheckThrows,
                lvars, mvars, Alive, L!Alive
<1>3. CASE \/ LateThread
           \/ \E l \in Listeners : Accepting(l) \/ AcceptFails(l)
           \/ \E l \in Listeners, c \in Conns : Kernel(l, c)
           \/ \E w \in H!Workers : Work(w) \/ HandleConn(w) \/ WorkerStartThrows(w)
    BY <1>3 DEF LateThread, Accepting, AcceptFails, Kernel, Work, HandleConn, WorkerStartThrows,
                L!Listen, L!AcceptFails, L!Connect, L!AcceptOk, lvars, mvars, Alive, L!Alive
<1> QED BY <1>1, <1>2, <1>3 DEF Next, Step, Ended

LEMMA AliveAlways == Spec => []Alive
<1>1. Init => Alive
    BY DEF Init, L!Init, Alive, L!Alive
<1> QED BY <1>1, NextAlive, PTL DEF Spec

\* Whatever moves the process, the listeners see a step of theirs or none.
LEMMA ListenerStep == ASSUME SInv, Alive, [Next]_vars PROVE [L!Next]_(L!lvars)
<1> USE DEF L!lvars
<1>1. CASE UNCHANGED vars
    BY <1>1 DEF vars, lvars
<1>2. CASE Running /\ Step
  <2>1. L!Alive
      BY <1>2 DEF Alive, Running
  <2>2. CASE RunListener \/ CancelListener \/ CloseListener \/ JoinListener
    <3>1. PICK l \in Listeners : l = ListenerOrder[cur]
        BY <1>2, <2>2, Orders
           DEF RunListener, CancelListener, CloseListener, JoinListener, Goto, SInv, Loops
    <3>2. L!Run(l) \/ L!Cancel(l) \/ L!Close(l) \/ L!Join(l)
        BY <2>2, <3>1 DEF RunListener, CancelListener, CloseListener, JoinListener
    <3> QED BY <2>1, <3>2 DEF L!Next
  <2>3. CASE StartIo
      BY <2>1, <2>3 DEF StartIo, L!Next, L!IoStep
  <2>4. CASE \/ CreateWorkers \/ StartRun \/ RunThrows \/ LeavePoll \/ DeleteHandler \/ DropWork
             \/ StopIo \/ JoinIo \/ Destroy \/ Unwind \/ ReturnOne \/ Signal \/ LateThread
      BY <2>4 DEF CreateWorkers, StartRun, RunThrows, LeavePoll, DeleteHandler, DropWork, StopIo,
                  JoinIo, Destroy, Unwind, ReturnOne, Signal, LateThread, lvars
  <2>5. CASE \E w \in H!Workers : Work(w) \/ HandleConn(w) \/ WorkerStartThrows(w)
      BY <2>5 DEF Work, HandleConn, WorkerStartThrows, lvars
  <2>6. CASE IoStep \/ IoCheckThrows
      BY <2>1, <2>6 DEF IoStep, IoAccept, IoEnqueue, IoEnqueueDeleted, IoReturn, IoCheckThrows,
                        L!Next, L!IoStep, lvars
  <2>7. CASE \/ \E l \in Listeners : Accepting(l) \/ AcceptFails(l)
             \/ \E l \in Listeners, c \in Conns : Kernel(l, c)
      BY <2>1, <2>7 DEF Accepting, AcceptFails, Kernel, L!Next
  <2> QED BY <1>2, <2>2, <2>3, <2>4, <2>5, <2>6, <2>7 DEF Step, MainStep
<1> QED BY <1>1, <1>2 DEF Next, Ended

\* Every step of the process is a step of Listener or leaves the listeners
\* alone: run() and stop() call a listener in the order, and the io thread runs
\* its completions under the conditions, that Listener states
\* (ThreadServer_t::run, ThreadServer_t::stop).
LEMMA ServerListens == Spec => ListenerContract
<1>1. Init => L!Init
    BY DEF Init
<1>2. SInv /\ Alive /\ [Next]_vars => [L!Next]_(L!lvars)
    BY ListenerStep
<1> QED BY <1>1, <1>2, SInvAlways, AliveAlways, PTL DEF Spec, ListenerContract, L!Spec

-----------------------------------------------------------------------------
(* The handlers in here do what Handler says of them.  Its environment     *)
(* hands every connection over once; here that is for the listeners to     *)
(* keep, and what is proved of Listener and of Handler alone is used.      *)

LP == INSTANCE ListenerProofs
HP == INSTANCE HandlerProofs

LEMMA SameListener == LP!Init = L!Init /\ LP!Next = L!Next /\ LP!lvars = L!lvars
BY DEF LP!Init, L!Init, LP!Next, L!Next, LP!lvars, L!lvars, LP!Alive, L!Alive, LP!Nothing, L!Nothing,
       LP!Run, L!Run, LP!Cancel, L!Cancel, LP!Close, L!Close, LP!Join, L!Join, LP!Listen, L!Listen,
       LP!AcceptFails, L!AcceptFails, LP!Connect, L!Connect, LP!AcceptOk, L!AcceptOk,
       LP!IoStep, L!IoStep, LP!IoStart, L!IoStart, LP!IoDispatch, L!IoDispatch, LP!IoRearm, L!IoRearm,
       LP!IoCheck, L!IoCheck, LP!IoEnqueue, L!IoEnqueue, LP!IoCheckThrows, L!IoCheckThrows,
       LP!IoReturn, L!IoReturn, LP!AsyncAccept, L!AsyncAccept, LP!CancelArmed, L!CancelArmed,
       LP!IsOpen, L!IsOpen, LP!Seen, L!Seen, LP!ReadyConns, L!ReadyConns, LP!Canceled, L!Canceled,
       LP!Error, L!Error, LP!sockets, L!sockets, LP!log, L!log

LEMMA SameHandler == HP!Init = H!Init /\ HP!Next = H!Next /\ HP!hvars = H!hvars
BY DEF HP!Init, H!Init, HP!Next, H!Next, HP!hvars, H!hvars, HP!Workers, H!Workers,
       HP!OwnerStep, H!OwnerStep, HP!CreateWorkers, H!CreateWorkers, HP!BeginDestroy, H!BeginDestroy,
       HP!JoinWorker, H!JoinWorker, HP!Delete, H!Delete, HP!Queued, H!Queued, HP!Submitted, H!Submitted,
       HP!Enqueue, H!Enqueue, HP!WorkerStep, H!WorkerStep, HP!WorkerStart, H!WorkerStart,
       HP!Dequeue, H!Dequeue, HP!DequeueNone, H!DequeueNone, HP!WorkerLeave, H!WorkerLeave,
       HP!Handle, H!Handle

\* What a handler has been given, some listener has delivered.
Handed == \A c \in Conns : HP!Submitted(c) => \E l \in Listeners : c \in delivered[l]

\* What it has, a listener of its own has.
Routed == \A h \in Handlers, c \in Conns :
              HP!Has(h, c) => \E l \in Listeners : HandlerOf[l] = h /\ c \in delivered[l]

CInv == SInv /\ Alive /\ LP!VInv /\ HP!HInv /\ Handed /\ Routed

LEMMA InitCInv == Init => CInv
<1> SUFFICES ASSUME Init PROVE CInv
    OBVIOUS
<1>1. LP!Init /\ HP!Init
    BY SameListener, SameHandler DEF Init
<1>2. LP!VInv
    BY <1>1, ListenerAssumption, LP!InitVInv
<1>3. HP!HInv
    BY <1>1, HandlerAssumption, HP!InitHInv
<1>4. Handed /\ Routed
    BY <1>1, HandlerAssumption DEF HP!Init, Handed, Routed, HP!Submitted, HP!Has, HP!Queued
<1>5. Alive
    BY DEF Init, L!Init, Alive, L!Alive
<1> QED BY <1>2, <1>3, <1>4, <1>5, InitSInv DEF CInv

\* At the handoff the connection is new to every handler.
LEMMA HandoffIsFirst ==
    ASSUME CInv, io = "enqueue"
    PROVE  /\ inHand.listener \in Listeners /\ inHand.result \in Conns
           /\ ~HP!Submitted(inHand.result)
<1>1. inHand.listener \in Listeners /\ inHand.result \in Conns
    BY DEF CInv, LP!VInv, LP!AInv, LP!Hand, LP!Completion
<1>2. \A l \in Listeners : inHand.result \notin delivered[l]
    BY <1>1 DEF CInv, LP!VInv, LP!Place, LP!Held
<1> QED BY <1>1, <1>2 DEF CInv, Handed

\* Who drives the handlers in a step of the process.
LEMMA HandlerMoves ==
    ASSUME SInv, [Next]_vars
    PROVE  \/ IoEnqueue
           \/ /\ UNCHANGED lvars
              /\ \/ \E h \in Handlers : HP!OwnerStep(h)
                 \/ \E w \in HP!Workers : HP!WorkerStep(w) \/ HP!Handle(w)
           \/ UNCHANGED hvars
<1>1. CASE UNCHANGED vars
    BY <1>1 DEF vars
<1>2. CASE Running /\ Step
  <2>1. CASE CreateWorkers \/ DeleteHandler
    <3>1. PICK h \in Handlers : h = HandlerOrder[cur]
        BY <2>1, Orders DEF CreateWorkers, DeleteHandler, SInv, Loops
    <3>2. H!OwnerStep(h) /\ UNCHANGED lvars
        BY <2>1, <3>1 DEF CreateWorkers, DeleteHandler, H!OwnerStep
    <3>3. HP!OwnerStep(h)
        BY <3>2 DEF HP!OwnerStep, H!OwnerStep, HP!CreateWorkers, H!CreateWorkers, HP!BeginDestroy,
                    H!BeginDestroy, HP!JoinWorker, H!JoinWorker, HP!Delete, H!Delete, HP!Queued,
                    H!Queued, HP!Workers, H!Workers
    <3> QED BY <3>2, <3>3
  <2>2. CASE \E w \in H!Workers : Work(w) \/ HandleConn(w)
    <3>1. PICK w \in H!Workers : (H!WorkerStep(w) \/ H!Handle(w)) /\ UNCHANGED lvars
        BY <2>2 DEF Work, HandleConn
    <3>2. w \in HP!Workers /\ (HP!WorkerStep(w) \/ HP!Handle(w))
        BY <3>1 DEF HP!WorkerStep, H!WorkerStep, HP!WorkerStart, H!WorkerStart, HP!Dequeue, H!Dequeue,
                    HP!DequeueNone, H!DequeueNone, HP!WorkerLeave, H!WorkerLeave, HP!Handle, H!Handle,
                    HP!Workers, H!Workers
    <3> QED BY <3>1, <3>2
  <2>3. CASE \/ StartRun \/ RunListener \/ RunThrows \/ StartIo \/ LeavePoll \/ CancelListener
             \/ CloseListener \/ JoinListener \/ DropWork \/ StopIo \/ JoinIo \/ Destroy \/ Unwind
             \/ ReturnOne \/ Signal \/ LateThread
      BY <2>3 DEF StartRun, RunListener, RunThrows, StartIo, LeavePoll, CancelListener, CloseListener,
                  JoinListener, DropWork, StopIo, JoinIo, Destroy, Unwind, ReturnOne, Signal, LateThread
  <2>4. CASE \/ IoAccept \/ IoEnqueueDeleted \/ IoReturn \/ IoCheckThrows
             \/ \E w \in H!Workers : WorkerStartThrows(w)
             \/ \E l \in Listeners : Accepting(l) \/ AcceptFails(l)
             \/ \E l \in Listeners, c \in Conns : Kernel(l, c)
      BY <2>4 DEF IoAccept, IoEnqueueDeleted, IoReturn, IoCheckThrows, WorkerStartThrows, Accepting,
                  AcceptFails, Kernel
  <2> QED BY <1>2, <2>1, <2>2, <2>3, <2>4 DEF Step, MainStep, IoStep
<1> QED BY <1>1, <1>2 DEF Next, Ended

\* The two enqueues of the handoff, as Listener and as Handler have them.
LEMMA Handoff ==
    ASSUME CInv, IoEnqueue
    PROVE  \E l \in Listeners, c \in Conns :
              /\ delivered' = [delivered EXCEPT ![l] = delivered[l] \cup {c}]
              /\ ~HP!Submitted(c) /\ HP!Enqueue(HandlerOf[l], c) /\ HandlerOf[l] \in Handlers
<1>1. PICK l, c : l = inHand.listener /\ c = inHand.result
    OBVIOUS
<1>2. io = "enqueue" /\ delivered' = [delivered EXCEPT ![l] = delivered[l] \cup {c}]
      /\ H!Enqueue(HandlerOf[l], c)
    BY <1>1 DEF IoEnqueue, L!IoEnqueue
<1>3. l \in Listeners /\ c \in Conns /\ ~HP!Submitted(c)
    BY <1>1, <1>2, HandoffIsFirst
<1>4. HP!Enqueue(HandlerOf[l], c) /\ HandlerOf[l] \in Handlers
    BY <1>2, <1>3, HandlerOfAssumption DEF HP!Enqueue, H!Enqueue
<1> QED BY <1>2, <1>3, <1>4

LEMMA HandlerStep == ASSUME CInv, [Next]_vars PROVE [HP!Next]_(HP!hvars)
<1>1. CASE IoEnqueue
    BY <1>1, Handoff DEF HP!Next
<1>2. CASE \/ \E h \in Handlers : HP!OwnerStep(h)
           \/ \E w \in HP!Workers : HP!WorkerStep(w) \/ HP!Handle(w)
    BY <1>2 DEF HP!Next
<1>3. CASE UNCHANGED hvars
    BY <1>3 DEF hvars, HP!hvars
<1> QED BY <1>1, <1>2, <1>3, HandlerMoves DEF CInv

\* Nothing that was delivered is taken back.
LEMMA DeliveredStays ==
    ASSUME LP!VInv, [LP!Next]_(LP!lvars)
    PROVE  \A l \in Listeners : delivered[l] \subseteq delivered'[l]
<1>1. delivered \in [Listeners -> SUBSET Conns]
    BY DEF LP!VInv, LP!AInv, LP!TypeOK
<1> QED
    BY <1>1 DEF LP!Next, LP!lvars, LP!Run, LP!Cancel, LP!Close, LP!Join, LP!Listen, LP!AcceptFails,
                LP!Connect, LP!AcceptOk, LP!IoStep, LP!IoStart, LP!IoDispatch, LP!IoRearm, LP!IoCheck,
                LP!IoEnqueue, LP!IoCheckThrows, LP!IoReturn, LP!sockets

LEMMA NextCInv == CInv /\ [Next]_vars => CInv'
<1> SUFFICES ASSUME CInv, [Next]_vars PROVE CInv'
    OBVIOUS
<1>1. SInv' /\ Alive'
    BY NextSInv, NextAlive DEF CInv
<1>2. [LP!Next]_(LP!lvars)
  <2>1. CASE L!Next
      BY <2>1, SameListener
  <2>2. CASE UNCHANGED L!lvars
      BY <2>2 DEF L!lvars, LP!lvars
  <2> QED BY <2>1, <2>2, ListenerStep DEF CInv
<1>3. LP!VInv'
    BY <1>2, ListenerAssumption, LP!NextVInv DEF CInv
<1>4. HP!HInv'
    BY HandlerStep, HandlerAssumption, HP!NextHInv DEF CInv
<1>5. Handed'
  <2> SUFFICES ASSUME NEW c \in Conns, HP!Submitted(c)'
               PROVE  \E l \in Listeners : c \in delivered'[l]
      BY DEF Handed
  <2>1. \A l \in Listeners : delivered[l] \subseteq delivered'[l]
      BY <1>2, DeliveredStays DEF CInv
  <2>2. HP!Submitted(c) => \E l \in Listeners : c \in delivered'[l]
      BY <2>1 DEF CInv, Handed
  <2>3. CASE IoEnqueue
    <3>1. PICK l \in Listeners, d \in Conns :
              /\ delivered' = [delivered EXCEPT ![l] = delivered[l] \cup {d}]
              /\ HP!Enqueue(HandlerOf[l], d) /\ HandlerOf[l] \in Handlers
        BY <2>3, Handoff
    <3>2. HP!Submitted(c) \/ c = d
        BY <3>1, HandlerAssumption, HP!EnqueueSubmitsOne DEF CInv
    <3>3. d \in delivered'[l]
        BY <3>1 DEF CInv, LP!VInv, LP!AInv, LP!TypeOK
    <3> QED BY <2>2, <3>2, <3>3
  <2>4. CASE \/ \E h \in Handlers : HP!OwnerStep(h)
             \/ \E w \in HP!Workers : HP!WorkerStep(w) \/ HP!Handle(w)
             \/ UNCHANGED hvars
    <3>1. HP!Submitted(c)
        BY <2>4, HandlerAssumption, HP!OthersSubmitNothing DEF CInv, hvars, HP!hvars
    <3> QED BY <2>2, <3>1
  <2> QED BY <2>3, <2>4, HandlerMoves DEF CInv
<1>6. Routed'
  <2> SUFFICES ASSUME NEW h \in Handlers, NEW c \in Conns, HP!Has(h, c)'
               PROVE  \E l \in Listeners : HandlerOf[l] = h /\ c \in delivered'[l]
      BY DEF Routed
  <2>1. \A l \in Listeners : delivered[l] \subseteq delivered'[l]
      BY <1>2, DeliveredStays DEF CInv
  <2>2. HP!Has(h, c) => \E l \in Listeners : HandlerOf[l] = h /\ c \in delivered'[l]
      BY <2>1 DEF CInv, Routed
  <2>3. CASE IoEnqueue
    <3>1. PICK l \in Listeners, d \in Conns :
              /\ delivered' = [delivered EXCEPT ![l] = delivered[l] \cup {d}]
              /\ HP!Enqueue(HandlerOf[l], d) /\ HandlerOf[l] \in Handlers
        BY <2>3, Handoff
    <3>2. HP!Has(h, c) \/ (c = d /\ h = HandlerOf[l])
        BY <3>1, HandlerAssumption, HP!EnqueueGivesOne DEF CInv
    <3>3. d \in delivered'[l]
        BY <3>1 DEF CInv, LP!VInv, LP!AInv, LP!TypeOK
    <3> QED BY <2>2, <3>2, <3>3
  <2>4. CASE \/ \E g \in Handlers : HP!OwnerStep(g)
             \/ \E w \in HP!Workers : HP!WorkerStep(w) \/ HP!Handle(w)
             \/ UNCHANGED hvars
    <3>1. HP!Has(h, c)
        BY <2>4, HandlerAssumption, HP!OthersTakeNothing DEF CInv, hvars, HP!hvars
    <3> QED BY <2>2, <3>1
  <2> QED BY <2>3, <2>4, HandlerMoves DEF CInv
<1> QED BY <1>1, <1>3, <1>4, <1>5, <1>6 DEF CInv

LEMMA CInvAlways == Spec => []CInv
BY InitCInv, NextCInv, PTL DEF Spec

\* Every step of the process is a step of Handler or leaves the handlers
\* alone; a listener never hands a connection over that some handler has had
\* (Listener_t::accept, ThreadServer_t::stop).
THEOREM HandlerContractAlways == Spec => HandlerContract
<1>1. Init => H!Init
    BY DEF Init
<1>2. ASSUME CInv, [Next]_vars PROVE [H!Next]_(H!hvars)
  <2>1. CASE HP!Next
      BY <2>1, SameHandler
  <2>2. CASE UNCHANGED HP!hvars
      BY <2>2 DEF H!hvars, HP!hvars
  <2> QED BY <1>2, <2>1, <2>2, HandlerStep
<1> QED BY <1>1, <1>2, CInvAlways, PTL DEF Spec, HandlerContract, H!Spec

\* Whoever is waiting for a worker or with one came through a listener of
\* that handler, and carries its verdict: the io thread that serves all
\* listeners mixes nothing up (Listener_t::accept, Listener_t::isForbidden,
\* ThreadServer_t::registerListener).
THEOREM ClientsReachTheirHandlerAlways == Spec => []ClientsReachTheirHandler
<1>1. ASSUME CInv PROVE ClientsReachTheirHandler
  <2> SUFFICES ASSUME NEW h \in Handlers, NEW c \in Holds(h)
               PROVE  \E l \in Listeners : /\ HandlerOf[l] = h /\ c \in delivered[l]
                                           /\ c \in forbidden <=> c \in Forbids[l]
      BY DEF ClientsReachTheirHandler
  <2>1. workQueue \in [Handlers -> Seq(Conns)] /\ socket \in [HP!Workers -> Conns \cup {NoConn}]
      BY <1>1 DEF CInv, HP!HInv, HP!TypeOK
  <2>2. c \in Conns /\ HP!Has(h, c)
    <3>1. CASE c \in H!Queued(h)
      <4>1. PICK i \in DOMAIN workQueue[h] : c = workQueue[h][i]
          BY <3>1 DEF H!Queued
      <4>2. c \in Conns
          BY <2>1, <4>1
      <4> QED BY <4>1, <4>2 DEF HP!Has, HP!Queued
    <3>2. CASE \E w \in H!Pool(h) : socket[w] = c /\ c # NoConn
        BY <2>1, <3>2 DEF HP!Has, H!Pool, H!Workers, HP!Workers
    <3> QED BY <3>1, <3>2 DEF Holds
  <2>3. PICK l \in Listeners : HandlerOf[l] = h /\ c \in delivered[l]
      BY <1>1, <2>2 DEF CInv, Routed
  <2>4. c \in forbidden <=> c \in Forbids[l]
      BY <1>1, <2>2, <2>3 DEF CInv, LP!VInv, LP!Verdict
  <2> QED BY <2>3, <2>4
<1> QED BY <1>1, CInvAlways, PTL

-----------------------------------------------------------------------------
(* What is proved of a handler and of a listener alone holds of those of   *)
(* the server.                                                             *)

LEMMA ServerHasHandlers == Spec => HP!Spec
<1>1. Init => HP!Init
    BY SameHandler DEF Init
<1>2. CInv /\ [Next]_vars => [HP!Next]_(HP!hvars)
    BY HandlerStep
<1> QED BY <1>1, <1>2, CInvAlways, PTL DEF Spec, HP!Spec

LEMMA ServerHasListeners == Spec => LP!Spec
<1>1. Init => LP!Init
    BY SameListener DEF Init
<1>2. ASSUME SInv, Alive, [Next]_vars PROVE [LP!Next]_(LP!lvars)
  <2>1. CASE L!Next
      BY <2>1, SameListener
  <2>2. CASE UNCHANGED L!lvars
      BY <2>2 DEF L!lvars, LP!lvars
  <2> QED BY <1>2, <2>1, <2>2, ListenerStep
<1> QED BY <1>1, <1>2, SInvAlways, AliveAlways, PTL DEF Spec, LP!Spec

\* No connection is given to two workers or lost between them, no worker is
\* lost to an exception and none survives its handler, anywhere in the
\* process (Handler_t::Worker_t::run, Handler_t::destroyWorkers).
THEOREM ServerHandlersKeepPromises ==
    Spec => [](H!OnePlace /\ H!PoolIsWhole /\ H!NoWorkerOutlivesHandler)
<1>1. HP!OnePlace => H!OnePlace
    BY DEF H!OnePlace, HP!OnePlace, H!QueuesDisjoint, HP!QueuesDisjoint, H!WorkersDisjoint,
           HP!WorkersDisjoint, H!PlacesDisjoint, HP!PlacesDisjoint, H!Workers, HP!Workers,
           H!Queued, HP!Queued
<1>2. HP!PoolIsWhole => H!PoolIsWhole
    BY DEF H!PoolIsWhole, HP!PoolIsWhole, H!Pool, HP!Pool, H!Workers, HP!Workers
<1>3. HP!NoWorkerOutlivesHandler => H!NoWorkerOutlivesHandler
    BY DEF H!NoWorkerOutlivesHandler, HP!NoWorkerOutlivesHandler, H!Pool, HP!Pool,
           H!Workers, HP!Workers
<1> QED BY <1>1, <1>2, <1>3, ServerHasHandlers, HandlerAssumption, HP!OnePlaceAlways,
           HP!PoolIsWholeAlways, HP!NoWorkerOutlivesHandlerAlways, PTL

\* The server implements Dispatch: a connection that was handed over is
\* served in its turn by a worker of the handler, at most as many at a time
\* as the handler has workers, or is dropped when the handler goes.
THEOREM ServerDispatches == Spec => HP!D!Spec
BY ServerHasHandlers, HandlerAssumption, HP!ImplementsDispatchSafely, PTL

\* Whatever the shutdown, the signals and the workers do meanwhile, each
\* listener keeps its one chain of accepts, sets the verdict first and keeps
\* what it has accepted (Listener_t::asyncAccept, Listener_t::accept).
THEOREM ServerListenersKeepPromises ==
    Spec => [](L!OneAccept /\ L!VerdictBeforeHandoff) /\ L!AcceptedIsKept
<1>1. LP!OneAccept => L!OneAccept
  <2>1. \A X : L!Cardinality(X) = LP!Cardinality(X)
      BY DEF L!Cardinality, LP!Cardinality
  <2>2. \A l \in Listeners : L!Chain(l) = LP!Chain(l)
      BY <2>1 DEF L!Chain, LP!Chain, L!ReadyOf, LP!ReadyOf
  <2> QED BY <2>2 DEF L!OneAccept, LP!OneAccept
<1>2. LP!VerdictBeforeHandoff => L!VerdictBeforeHandoff
    BY DEF L!VerdictBeforeHandoff, LP!VerdictBeforeHandoff
<1>3. LP!AcceptedIsKept => L!AcceptedIsKept
  <2>1. L!lvars = LP!lvars /\ (L!lvars)' = (LP!lvars)'
      BY DEF L!lvars, LP!lvars
  <2>2. \A l \in Listeners, c \in Conns :
            (L!Accepted(l, c) <=> LP!Accepted(l, c)) /\ (L!Accepted(l, c)' <=> LP!Accepted(l, c)')
      BY DEF L!Accepted, LP!Accepted
  <2> DEFINE Keeps == \A l \in Listeners, c \in Conns :
                          L!Accepted(l, c) => \A k \in Listeners : L!Accepted(k, c)' <=> k = l
             LPKeeps == \A l \in Listeners, c \in Conns :
                          LP!Accepted(l, c) => \A k \in Listeners : LP!Accepted(k, c)' <=> k = l
  <2>3. [LPKeeps]_(LP!lvars) => [Keeps]_(L!lvars)
      BY <2>1, <2>2
  <2> QED BY <2>3, PTL DEF L!AcceptedIsKept, LP!AcceptedIsKept
<1> QED BY <1>1, <1>2, <1>3, ServerHasListeners, ListenerAssumption, LP!OneAcceptAlways,
           LP!VerdictBeforeHandoffAlways, LP!AcceptedIsKeptAlways, PTL
=============================================================================
