---------------------------- MODULE HandlerProofs ----------------------------
(***************************************************************************)
(* The safety of a handler for every pool size and every number of         *)
(* connections.  That no worker outlives its handler rests on what the     *)
(* joins have established so far (Pools); that a connection is in one      *)
(* place rests on a worker holding one exactly while it handles it         *)
(* (Hands).                                                                *)
(***************************************************************************)
EXTENDS Handler, FiniteSetTheorems, TLAPS

\* What the life of a handler says of its pool.
Pools ==
    \A h \in Handlers :
        /\ joined[h] \in 0 .. WorkerCount[h]
        /\ \A i \in 1 .. joined[h] : pc[<<h, i>>] = "done"
        /\ life[h] = "deleted" => joined[h] = WorkerCount[h] /\ workQueue[h] = <<>>
        /\ \A w \in Pool(h) :
              /\ life[h] = "constructed" => pc[w] = "absent"
              /\ life[h] = "running" => pc[w] \in {"starting", "dequeue", "handling"}

Hands == \A w \in Workers : socket[w] # NoConn <=> pc[w] = "handling"

HInv == TypeOK /\ Pools /\ Hands

-----------------------------------------------------------------------------
LEMMA WorkerShape ==
    /\ \A w \in Workers : w[1] \in Handlers /\ w[2] \in 1 .. WorkerCount[w[1]] /\ w = <<w[1], w[2]>>
    /\ \A h \in Handlers : \A i \in 1 .. WorkerCount[h] : <<h, i>> \in Pool(h)
    /\ \A h \in Handlers : Pool(h) \subseteq Workers
BY WorkerCountAssumption DEF Workers, Pool

\* What taking the head of a queue leaves in it.
LEMMA TakeHead ==
    ASSUME NEW S, NEW q \in Seq(S), q # <<>>
    PROVE  /\ Head(q) \in S /\ Head(q) = q[1] /\ 1 \in DOMAIN q
           /\ Tail(q) \in Seq(S)
           /\ \A i \in DOMAIN Tail(q) : i + 1 \in DOMAIN q /\ Tail(q)[i] = q[i + 1] /\ i \in Nat
OBVIOUS

LEMMA PutLast ==
    ASSUME NEW S, NEW q \in Seq(S), NEW e \in S
    PROVE  /\ Append(q, e) \in Seq(S)
           /\ \A i \in DOMAIN Append(q, e) :
                 \/ i \in DOMAIN q /\ Append(q, e)[i] = q[i]
                 \/ i = Len(q) + 1 /\ Append(q, e)[i] = e
<1>1. Append(q, e) \in Seq(S)
    OBVIOUS
<1>2. DOMAIN Append(q, e) = 1 .. Len(q) + 1 /\ DOMAIN q = 1 .. Len(q) /\ Len(q) \in Nat
    OBVIOUS
<1>3. \A i \in 1 .. Len(q) : Append(q, e)[i] = q[i]
    OBVIOUS
<1>4. Append(q, e)[Len(q) + 1] = e
    OBVIOUS
<1> QED BY <1>1, <1>2, <1>3, <1>4

-----------------------------------------------------------------------------
LEMMA InitHInv == Init => HInv
<1> SUFFICES ASSUME Init PROVE HInv
    OBVIOUS
<1>1. TypeOK
    BY DEF Init, TypeOK, Lives, PCs
<1>2. Pools
    BY WorkerCountAssumption, WorkerShape DEF Init, Pools
<1>3. Hands
    BY DEF Init, Hands
<1> QED BY <1>1, <1>2, <1>3 DEF HInv

LEMMA NextHInv == HInv /\ [Next]_hvars => HInv'
<1> SUFFICES ASSUME HInv, [Next]_hvars PROVE HInv'
    OBVIOUS
<1> USE WorkerCountAssumption, NoConnAssumption, WorkerShape
<1> USE DEF HInv, TypeOK, Pools, Hands, Lives, PCs
<1>1. ASSUME NEW h \in Handlers, CreateWorkers(h) PROVE HInv'
    BY <1>1 DEF CreateWorkers, Pool
<1>2. ASSUME NEW h \in Handlers, BeginDestroy(h) PROVE HInv'
    BY <1>2 DEF BeginDestroy
<1>3. ASSUME NEW h \in Handlers, JoinWorker(h) PROVE HInv'
  <2>1. /\ joined[h] < WorkerCount[h] /\ pc[<<h, joined[h] + 1>>] = "done" /\ life[h] = "finishing"
        /\ joined' = [joined EXCEPT ![h] = joined[h] + 1]
        /\ UNCHANGED <<life, workQueue, pc, socket, served, dropped>>
    BY <1>3 DEF JoinWorker
  <2>2. joined'[h] \in 0 .. WorkerCount[h] /\ \A g \in Handlers \ {h} : joined'[g] = joined[g]
    BY <2>1
  <2>3. \A i \in 1 .. joined'[h] : i \in 1 .. joined[h] \/ i = joined[h] + 1
    BY <2>1
  <2>4. \A g \in Handlers : \A i \in 1 .. joined'[g] : pc'[<<g, i>>] = "done"
    BY <2>1, <2>2, <2>3
  <2>5. Pools'
    BY <2>1, <2>2, <2>4 DEF Pool
  <2> QED BY <2>1, <2>5
<1>4. ASSUME NEW h \in Handlers, Delete(h) PROVE HInv'
    BY <1>4 DEF Delete, Queued
<1>5. ASSUME NEW h \in Handlers, NEW c \in Conns, Enqueue(h, c) PROVE HInv'
    BY <1>5, PutLast DEF Enqueue
<1>6. ASSUME NEW w \in Workers, WorkerStart(w) PROVE HInv'
    BY <1>6 DEF WorkerStart, Pool
<1>7. ASSUME NEW w \in Workers, Dequeue(w) PROVE HInv'
    BY <1>7, TakeHead DEF Dequeue, Pool
<1>8. ASSUME NEW w \in Workers, DequeueNone(w) PROVE HInv'
    BY <1>8 DEF DequeueNone, Pool
<1>9. ASSUME NEW w \in Workers, WorkerLeave(w) PROVE HInv'
    BY <1>9 DEF WorkerLeave, Pool
<1>10. ASSUME NEW w \in Workers, Handle(w) PROVE HInv'
    BY <1>10 DEF Handle, Pool
<1>11. CASE UNCHANGED hvars
    BY <1>11 DEF hvars
<1> QED
    BY <1>1, <1>2, <1>3, <1>4, <1>5, <1>6, <1>7, <1>8, <1>9, <1>10, <1>11
    DEF Next, OwnerStep, WorkerStep

LEMMA HandlerInvariant == Spec => []HInv
BY InitHInv, NextHInv, PTL DEF Spec

-----------------------------------------------------------------------------
(* Who has been given to a handler: only Enqueue adds a connection.        *)

LEMMA OthersSubmitNothing ==
    ASSUME HInv, NEW c \in Conns, Submitted(c)',
           \/ \E h \in Handlers : OwnerStep(h)
           \/ \E w \in Workers : WorkerStep(w) \/ Handle(w)
           \/ UNCHANGED hvars
    PROVE  Submitted(c)
<1> USE NoConnAssumption, WorkerShape
<1> USE DEF Submitted, Queued, HInv, TypeOK
<1>1. ASSUME NEW h \in Handlers, OwnerStep(h) PROVE Submitted(c)
  <2>1. CASE CreateWorkers(h) \/ BeginDestroy(h) \/ JoinWorker(h)
      BY <2>1 DEF CreateWorkers, BeginDestroy, JoinWorker
  <2>2. CASE Delete(h)
    <3>1. /\ dropped' = dropped \cup Queued(h) /\ UNCHANGED <<socket, served>>
          /\ workQueue' = [workQueue EXCEPT ![h] = <<>>]
        BY <2>2 DEF Delete
    <3>2. \A g \in Handlers : workQueue'[g] = IF g = h THEN <<>> ELSE workQueue[g]
        BY <3>1
    <3>3. ASSUME NEW g \in Handlers PROVE Queued(g)' \subseteq Queued(g)
      <4>1. CASE g = h
        <5>1. workQueue'[g] = <<>> /\ DOMAIN workQueue'[g] = {}
            BY <3>2, <4>1
        <5> QED BY <5>1
      <4>2. CASE g # h
          BY <3>2, <4>2
      <4> QED BY <4>1, <4>2
    <3> QED BY <3>1, <3>3
  <2> QED BY <1>1, <2>1, <2>2 DEF OwnerStep
<1>2. ASSUME NEW w \in Workers, WorkerStart(w) \/ DequeueNone(w) \/ WorkerLeave(w) PROVE Submitted(c)
    BY <1>2 DEF WorkerStart, DequeueNone, WorkerLeave
<1>3. ASSUME NEW w \in Workers, Dequeue(w) PROVE Submitted(c)
  <2>1. PICK h \in Handlers : h = w[1] /\ workQueue[h] \in Seq(Conns) /\ workQueue[h] # <<>>
      BY <1>3 DEF Dequeue
  <2>2. /\ socket' = [socket EXCEPT ![w] = Head(workQueue[h])]
        /\ workQueue' = [workQueue EXCEPT ![h] = Tail(workQueue[h])]
        /\ UNCHANGED <<served, dropped>>
      BY <1>3, <2>1 DEF Dequeue
  <2>3. Head(workQueue[h]) \in Queued(h)
      BY <2>1, TakeHead
  <2>4. \A g \in Handlers : Queued(g)' \subseteq Queued(g)
    <3>1. \A i \in DOMAIN Tail(workQueue[h]) :
              i + 1 \in DOMAIN workQueue[h] /\ Tail(workQueue[h])[i] = workQueue[h][i + 1]
        BY <2>1, TakeHead
    <3> QED BY <2>2, <3>1
  <2> QED BY <2>2, <2>3, <2>4
<1>4. ASSUME NEW w \in Workers, Handle(w) PROVE Submitted(c)
    BY <1>4 DEF Handle
<1>5. CASE UNCHANGED hvars
    BY <1>5 DEF hvars
<1> QED BY <1>1, <1>2, <1>3, <1>4, <1>5 DEF WorkerStep

LEMMA EnqueueSubmitsOne ==
    ASSUME HInv, NEW c \in Conns, Submitted(c)', NEW h \in Handlers, NEW d \in Conns, Enqueue(h, d)
    PROVE  Submitted(c) \/ c = d
<1>1. /\ workQueue' = [workQueue EXCEPT ![h] = Append(workQueue[h], d)]
      /\ UNCHANGED <<socket, served, dropped>>
    BY DEF Enqueue
<1>2. \A g \in Handlers : Queued(g)' \subseteq Queued(g) \cup {d}
  <2>1. workQueue \in [Handlers -> Seq(Conns)]
      BY DEF HInv, TypeOK
  <2>2. \A i \in DOMAIN Append(workQueue[h], d) :
            \/ i \in DOMAIN workQueue[h] /\ Append(workQueue[h], d)[i] = workQueue[h][i]
            \/ Append(workQueue[h], d)[i] = d
      BY <2>1, PutLast
  <2> QED BY <1>1, <2>1, <2>2 DEF Queued
<1> QED BY <1>1, <1>2 DEF Submitted

\* The connection is in the queue of h or under one of its workers.
Has(h, c) == c \in Queued(h) \/ \E w \in Workers : w[1] = h /\ socket[w] = c

\* A worker takes from the queue of its own handler only.
LEMMA OthersTakeNothing ==
    ASSUME HInv, NEW c \in Conns, NEW k \in Handlers, Has(k, c)',
           \/ \E h \in Handlers : OwnerStep(h)
           \/ \E w \in Workers : WorkerStep(w) \/ Handle(w)
           \/ UNCHANGED hvars
    PROVE  Has(k, c)
<1> USE NoConnAssumption, WorkerShape
<1> USE DEF Has, Queued, HInv, TypeOK
<1>1. ASSUME NEW h \in Handlers, OwnerStep(h) PROVE Has(k, c)
  <2>1. CASE CreateWorkers(h) \/ BeginDestroy(h) \/ JoinWorker(h)
      BY <2>1 DEF CreateWorkers, BeginDestroy, JoinWorker
  <2>2. CASE Delete(h)
    <3>1. UNCHANGED socket /\ workQueue' = [workQueue EXCEPT ![h] = <<>>]
        BY <2>2 DEF Delete
    <3>2. workQueue'[k] = IF k = h THEN <<>> ELSE workQueue[k]
        BY <3>1
    <3>3. Queued(k)' \subseteq Queued(k)
      <4>1. CASE k = h
        <5>1. workQueue'[k] = <<>> /\ DOMAIN workQueue'[k] = {}
            BY <3>2, <4>1
        <5> QED BY <5>1
      <4>2. CASE k # h
          BY <3>2, <4>2
      <4> QED BY <4>1, <4>2
    <3> QED BY <3>1, <3>3
  <2> QED BY <1>1, <2>1, <2>2 DEF OwnerStep
<1>2. ASSUME NEW w \in Workers, WorkerStart(w) \/ DequeueNone(w) \/ WorkerLeave(w) PROVE Has(k, c)
    BY <1>2 DEF WorkerStart, DequeueNone, WorkerLeave
<1>3. ASSUME NEW w \in Workers, Dequeue(w) PROVE Has(k, c)
  <2>1. PICK h \in Handlers : h = w[1] /\ workQueue[h] \in Seq(Conns) /\ workQueue[h] # <<>>
      BY <1>3 DEF Dequeue
  <2>2. /\ socket' = [socket EXCEPT ![w] = Head(workQueue[h])]
        /\ workQueue' = [workQueue EXCEPT ![h] = Tail(workQueue[h])]
      BY <1>3, <2>1 DEF Dequeue
  <2>3. Head(workQueue[h]) \in Queued(h)
      BY <2>1, TakeHead
  <2>4. Queued(k)' \subseteq Queued(k)
    <3>1. \A i \in DOMAIN Tail(workQueue[h]) :
              i + 1 \in DOMAIN workQueue[h] /\ Tail(workQueue[h])[i] = workQueue[h][i + 1]
        BY <2>1, TakeHead
    <3> QED BY <2>2, <3>1
  <2> QED BY <2>1, <2>2, <2>3, <2>4
<1>4. ASSUME NEW w \in Workers, Handle(w) PROVE Has(k, c)
    BY <1>4 DEF Handle
<1>5. CASE UNCHANGED hvars
    BY <1>5 DEF hvars
<1> QED BY <1>1, <1>2, <1>3, <1>4, <1>5 DEF WorkerStep

LEMMA EnqueueGivesOne ==
    ASSUME HInv, NEW c \in Conns, NEW k \in Handlers, Has(k, c)',
           NEW h \in Handlers, NEW d \in Conns, Enqueue(h, d)
    PROVE  Has(k, c) \/ (c = d /\ k = h)
<1>1. workQueue' = [workQueue EXCEPT ![h] = Append(workQueue[h], d)] /\ UNCHANGED socket
    BY DEF Enqueue
<1>2. workQueue \in [Handlers -> Seq(Conns)]
    BY DEF HInv, TypeOK
<1>3. CASE k = h
  <2>1. \A i \in DOMAIN Append(workQueue[h], d) :
            \/ i \in DOMAIN workQueue[h] /\ Append(workQueue[h], d)[i] = workQueue[h][i]
            \/ Append(workQueue[h], d)[i] = d
      BY <1>2, PutLast
  <2> QED BY <1>1, <1>2, <1>3, <2>1 DEF Has, Queued
<1>4. CASE k # h
    BY <1>1, <1>2, <1>4 DEF Has, Queued
<1> QED BY <1>3, <1>4

-----------------------------------------------------------------------------
LEMMA InitOnePlace == Init => OnePlace
BY NoConnAssumption
DEF Init, OnePlace, QueuesDisjoint, WorkersDisjoint, PlacesDisjoint, Queued

\* The connection a worker takes leaves every queue.
LEMMA DequeueMoves ==
    ASSUME HInv, QueuesDisjoint, NEW w \in Workers, Dequeue(w)
    PROVE  LET c == Head(workQueue[w[1]])
           IN  /\ c \in Queued(w[1]) /\ c \in Conns
               /\ socket' = [socket EXCEPT ![w] = c]
               /\ \A h \in Handlers : Queued(h)' \subseteq Queued(h) \ {c}
               /\ QueuesDisjoint'
<1> DEFINE h == w[1]
           c == Head(workQueue[h])
<1>1. h \in Handlers
    BY WorkerShape
<1>2. /\ workQueue[h] \in Seq(Conns) /\ workQueue[h] # <<>>
      /\ workQueue' = [workQueue EXCEPT ![h] = Tail(workQueue[h])]
      /\ socket' = [socket EXCEPT ![w] = c]
    BY <1>1 DEF Dequeue, HInv, TypeOK
<1>3. /\ c \in Conns /\ c = workQueue[h][1] /\ 1 \in DOMAIN workQueue[h]
      /\ \A i \in DOMAIN Tail(workQueue[h]) :
            i + 1 \in DOMAIN workQueue[h] /\ Tail(workQueue[h])[i] = workQueue[h][i + 1] /\ i \in Nat
    <2> HIDE DEF h
    <2> QED BY <1>2, TakeHead
<1>4. c \in Queued(h)
    BY <1>3 DEF Queued
<1>5. workQueue'[h] = Tail(workQueue[h]) /\ \A g \in Handlers \ {h} : workQueue'[g] = workQueue[g]
    BY <1>1, <1>2 DEF HInv, TypeOK
<1>6. ASSUME NEW g \in Handlers, NEW i \in DOMAIN workQueue'[g]
      PROVE  \E j \in DOMAIN workQueue[g] :
                /\ workQueue[g][j] = workQueue'[g][i]
                /\ g = h => j = i + 1 /\ i \in Nat
                /\ g # h => j = i
  <2>1. CASE g = h
    <3>1. i \in DOMAIN Tail(workQueue[h]) /\ workQueue'[g][i] = Tail(workQueue[h])[i]
        BY <1>5, <2>1
    <3>2. /\ i + 1 \in DOMAIN workQueue[h] /\ i \in Nat
          /\ Tail(workQueue[h])[i] = workQueue[h][i + 1]
        BY <1>3, <3>1
    <3>3. i + 1 \in DOMAIN workQueue[g] /\ workQueue[g][i + 1] = workQueue'[g][i]
        BY <2>1, <3>1, <3>2
    <3> QED BY <2>1, <3>2, <3>3
  <2>2. CASE g # h
    <3>1. workQueue'[g] = workQueue[g]
        BY <1>5, <2>2
    <3>2. i \in DOMAIN workQueue[g] /\ workQueue[g][i] = workQueue'[g][i]
        BY <3>1
    <3> QED BY <2>2, <3>2
  <2> QED BY <2>1, <2>2
<1>7. ASSUME NEW g \in Handlers PROVE Queued(g)' \subseteq Queued(g) \ {c}
  <2> SUFFICES ASSUME NEW i \in DOMAIN workQueue'[g]
               PROVE  workQueue'[g][i] \in Queued(g) /\ workQueue'[g][i] # c
    BY DEF Queued
  <2>1. PICK j \in DOMAIN workQueue[g] :
            /\ workQueue[g][j] = workQueue'[g][i]
            /\ g = h => j = i + 1 /\ i \in Nat
            /\ g # h => j = i
    BY <1>6
  <2>2. ~(g = h /\ j = 1) 
    BY <1>5, <2>1, <1>2, <1>3
  <2>3. workQueue[g][j] # workQueue[h][1]
    BY <1>1, <1>3, <2>2 DEF QueuesDisjoint
  <2> QED BY <1>3, <2>1, <2>3 DEF Queued
<1>8. QueuesDisjoint'
  <2> SUFFICES ASSUME NEW g \in Handlers, NEW k \in Handlers,
                      NEW i \in DOMAIN workQueue'[g], NEW j \in DOMAIN workQueue'[k],
                      workQueue'[g][i] = workQueue'[k][j]
               PROVE  g = k /\ i = j
    BY DEF QueuesDisjoint
  <2>1. PICK a \in DOMAIN workQueue[g] :
            /\ workQueue[g][a] = workQueue'[g][i]
            /\ g = h => a = i + 1 /\ i \in Nat
            /\ g # h => a = i
    BY <1>6
  <2>2. PICK b \in DOMAIN workQueue[k] :
            /\ workQueue[k][b] = workQueue'[k][j]
            /\ k = h => b = j + 1 /\ j \in Nat
            /\ k # h => b = j
    BY <1>6
  <2>3. g = k /\ a = b
    BY <2>1, <2>2 DEF QueuesDisjoint
  <2> QED BY <2>1, <2>2, <2>3
<1> QED BY <1>2, <1>3, <1>4, <1>7, <1>8

\* A connection that is enqueued is new to every place.
LEMMA EnqueueAdds ==
    ASSUME HInv, QueuesDisjoint, NEW h \in Handlers, NEW c \in Conns, ~Submitted(c), Enqueue(h, c)
    PROVE  /\ \A g \in Handlers : Queued(g)' \subseteq Queued(g) \cup {c}
           /\ QueuesDisjoint'
<1>1. workQueue[h] \in Seq(Conns) /\ workQueue' = [workQueue EXCEPT ![h] = Append(workQueue[h], c)]
    BY DEF Enqueue, HInv, TypeOK
<1>2. /\ workQueue'[h] = Append(workQueue[h], c)
      /\ \A g \in Handlers \ {h} : workQueue'[g] = workQueue[g]
    BY <1>1 DEF HInv, TypeOK
<1>3. ASSUME NEW g \in Handlers, NEW i \in DOMAIN workQueue'[g]
      PROVE  \/ i \in DOMAIN workQueue[g] /\ workQueue'[g][i] = workQueue[g][i]
             \/ g = h /\ i = Len(workQueue[h]) + 1 /\ workQueue'[g][i] = c
    BY <1>1, <1>2, PutLast
<1>4. \A g \in Handlers : \A i \in DOMAIN workQueue[g] : workQueue[g][i] # c
    BY DEF Submitted, Queued
<1>5. \A g \in Handlers : Queued(g)' \subseteq Queued(g) \cup {c}
    BY <1>3 DEF Queued
<1>6. QueuesDisjoint'
    BY <1>3, <1>4 DEF QueuesDisjoint
<1> QED BY <1>5, <1>6

LEMMA NextOnePlace == HInv /\ OnePlace /\ [Next]_hvars => OnePlace'
<1> SUFFICES ASSUME HInv, QueuesDisjoint, WorkersDisjoint, PlacesDisjoint, [Next]_hvars
             PROVE  QueuesDisjoint' /\ WorkersDisjoint' /\ PlacesDisjoint'
    BY DEF OnePlace
<1> DEFINE Goal == QueuesDisjoint' /\ WorkersDisjoint' /\ PlacesDisjoint'
<1>1. ASSUME UNCHANGED <<workQueue, socket, served, dropped>> PROVE Goal
    BY <1>1 DEF QueuesDisjoint, WorkersDisjoint, PlacesDisjoint, Queued
<1>2. ASSUME NEW h \in Handlers, OwnerStep(h) PROVE Goal
  <2>1. CASE CreateWorkers(h) \/ BeginDestroy(h) \/ JoinWorker(h)
    BY <1>1, <2>1 DEF CreateWorkers, BeginDestroy, JoinWorker
  <2>2. CASE Delete(h)
    <3>1. /\ workQueue'[h] = <<>> /\ \A g \in Handlers \ {h} : workQueue'[g] = workQueue[g]
          /\ dropped' = dropped \cup Queued(h) /\ UNCHANGED <<socket, served>>
        BY <2>2 DEF Delete, HInv, TypeOK
    <3>2. Queued(h)' = {} /\ \A g \in Handlers \ {h} : Queued(g)' = Queued(g)
        BY <3>1 DEF Queued
    <3>3. \A g \in Handlers \ {h} : Queued(g) \cap Queued(h) = {}
        BY DEF QueuesDisjoint, Queued
    <3>4. QueuesDisjoint'
        BY <3>1 DEF QueuesDisjoint
    <3>5. PlacesDisjoint'
        BY <3>1, <3>2, <3>3 DEF PlacesDisjoint
    <3> QED BY <3>1, <3>4, <3>5 DEF WorkersDisjoint
  <2> QED BY <1>2, <2>1, <2>2 DEF OwnerStep
<1>3. ASSUME NEW h \in Handlers, NEW c \in Conns, ~Submitted(c), Enqueue(h, c) PROVE Goal
  <2>1. QueuesDisjoint' /\ \A g \in Handlers : Queued(g)' \subseteq Queued(g) \cup {c}
    BY <1>3, EnqueueAdds
  <2>2. UNCHANGED <<socket, served, dropped>>
    BY <1>3 DEF Enqueue
  <2>3. c \notin served \cup dropped /\ \A w \in Workers : socket[w] # c
    BY <1>3 DEF Submitted
  <2>4. PlacesDisjoint'
    BY <2>1, <2>2, <2>3 DEF PlacesDisjoint
  <2> QED BY <2>1, <2>2, <2>4 DEF WorkersDisjoint
<1>4. ASSUME NEW w \in Workers, WorkerStep(w) PROVE Goal
  <2>1. CASE WorkerStart(w) \/ DequeueNone(w) \/ WorkerLeave(w)
    BY <1>1, <2>1 DEF WorkerStart, DequeueNone, WorkerLeave
  <2>2. CASE Dequeue(w)
    <3> DEFINE c == Head(workQueue[w[1]])
    <3>1. /\ c \in Queued(w[1]) /\ c \in Conns /\ w[1] \in Handlers
          /\ socket' = [socket EXCEPT ![w] = c]
          /\ \A h \in Handlers : Queued(h)' \subseteq Queued(h) \ {c}
          /\ QueuesDisjoint'
        BY <2>2, DequeueMoves, WorkerShape
    <3>2. UNCHANGED <<served, dropped>>
        BY <2>2 DEF Dequeue
    <3> HIDE DEF c
    <3>3. socket'[w] = c /\ \A v \in Workers \ {w} : socket'[v] = socket[v] /\ socket[v] # c
        BY <3>1 DEF HInv, TypeOK, PlacesDisjoint
    <3>4. c \notin served \cup dropped
        BY <3>1 DEF PlacesDisjoint
    <3>5. WorkersDisjoint'
        BY <3>3 DEF WorkersDisjoint
    <3>6. PlacesDisjoint'
        BY <3>1, <3>2, <3>3, <3>4 DEF PlacesDisjoint
    <3> QED BY <3>1, <3>5, <3>6
  <2> QED BY <1>4, <2>1, <2>2 DEF WorkerStep
<1>5. ASSUME NEW w \in Workers, Handle(w) PROVE Goal
  <2>1. /\ socket[w] # NoConn /\ served' = served \cup {socket[w]}
        /\ socket'[w] = NoConn /\ \A v \in Workers \ {w} : socket'[v] = socket[v]
        /\ UNCHANGED <<workQueue, dropped>>
    BY <1>5 DEF Handle, HInv, TypeOK, Hands
  <2>2. \A v \in Workers \ {w} : socket[v] # socket[w]
    BY <2>1 DEF WorkersDisjoint
  <2>3. NoConn \notin served \cup dropped /\ \A h \in Handlers : NoConn \notin Queued(h)
    BY NoConnAssumption DEF HInv, TypeOK, Queued
  <2>4. WorkersDisjoint'
    BY <2>1 DEF WorkersDisjoint
  <2>5. \A h \in Handlers : Queued(h)' = Queued(h)
    BY <2>1 DEF Queued
  <2>6. PlacesDisjoint'
    BY <2>1, <2>2, <2>3, <2>5 DEF PlacesDisjoint
  <2>7. QueuesDisjoint'
    BY <2>1 DEF QueuesDisjoint
  <2> QED BY <2>4, <2>6, <2>7
<1> QED BY <1>1, <1>2, <1>3, <1>4, <1>5 DEF Next, hvars

LEMMA OnePlaceInvariant == Spec => []OnePlace
BY HandlerInvariant, InitOnePlace, NextOnePlace, PTL DEF Spec

-----------------------------------------------------------------------------
\* The state of the handlers and their workers keeps its type.
THEOREM HandlerTypeOK == Spec => []TypeOK
<1>1. HInv => TypeOK
    BY DEF HInv
<1> QED BY <1>1, HandlerInvariant, PTL

\* A connection is never at two positions of the queues, in two workers, or
\* handled again once it was served or dropped.
THEOREM OnePlaceAlways == Spec => []OnePlace
BY OnePlaceInvariant

\* No thread of its pool outlives a handler, and no socket its queue.
THEOREM NoWorkerOutlivesHandlerAlways == Spec => []NoWorkerOutlivesHandler
<1>1. HInv => NoWorkerOutlivesHandler
  <2> SUFFICES ASSUME HInv, NEW h \in Handlers, life[h] = "deleted"
               PROVE  /\ \A w \in Pool(h) : pc[w] = "done" /\ socket[w] = NoConn
                      /\ workQueue[h] = <<>>
    BY DEF NoWorkerOutlivesHandler
  <2>1. joined[h] = WorkerCount[h] /\ workQueue[h] = <<>>
    BY DEF HInv, Pools
  <2>2. \A w \in Pool(h) : pc[w] = "done"
    BY <2>1, WorkerShape DEF HInv, Pools, Pool
  <2>3. \A w \in Pool(h) : socket[w] = NoConn
    BY <2>2, WorkerShape DEF HInv, Hands
  <2> QED BY <2>1, <2>2, <2>3
<1> QED BY <1>1, HandlerInvariant, PTL

\* While its handler runs no worker leaves its loop.
THEOREM PoolIsWholeAlways == Spec => []PoolIsWhole
<1>1. HInv => PoolIsWhole
    BY DEF HInv, Pools, PoolIsWhole
<1> QED BY <1>1, HandlerInvariant, PTL

-----------------------------------------------------------------------------
(* A handler with its threads implements Dispatch, step by step.           *)

\* The connections a pool serves and the phases, as Dispatch sees them.
Serving == [h \in Handlers |-> {socket[w] : w \in Pool(h)} \ {NoConn}]
Phase == [h \in Handlers |-> CASE life[h] = "finishing" -> "closed"
                               [] life[h] = "deleted" -> "gone"
                               [] OTHER -> "open"]

\* A function takes fewer than n values apart from that at j.
LEMMA OneLess ==
    ASSUME NEW n \in Nat, NEW j \in 1 .. n, NEW T, NEW f \in [1 .. n -> T]
    PROVE  Cardinality({f[i] : i \in 1 .. n} \ {f[j]}) < n
<1> DEFINE S == {i \in 1 .. n : f[i] # f[j]}
           R == {f[i] : i \in 1 .. n} \ {f[j]}
           g == [i \in S |-> f[i]]
<1>1. g \in Surjection(S, R)
    BY DEF Surjection
<1>2. IsFiniteSet((1 .. n) \ {j}) /\ Cardinality((1 .. n) \ {j}) = n - 1
  <2>1. IsFiniteSet(1 .. n) /\ Cardinality(1 .. n) = n
      BY FS_Interval
  <2> QED BY <2>1, FS_RemoveElement
<1>3. S \in SUBSET ((1 .. n) \ {j})
    OBVIOUS
<1> HIDE DEF S, R, g
<1>4. IsFiniteSet(S) /\ Cardinality(S) <= n - 1
    BY <1>2, <1>3, FS_Subset
<1>5. IsFiniteSet(R) /\ Cardinality(R) <= Cardinality(S)
    BY <1>1, <1>4, FS_Surjection
<1>6. Cardinality(R) \in Nat /\ Cardinality(S) \in Nat
    BY <1>4, <1>5, FS_CardinalityType
<1>7. Cardinality(R) < n
    BY <1>4, <1>5, <1>6
<1> QED BY <1>7 DEF R

\* While one worker of a pool is free, the pool serves less than it may.
LEMMA FreeWorker ==
    ASSUME HInv, NEW w \in Workers, socket[w] = NoConn
    PROVE  Cardinality(Serving[w[1]]) < WorkerCount[w[1]]
<1> DEFINE h == w[1]
           n == WorkerCount[h]
           f == [i \in 1 .. n |-> socket[<<h, i>>]]
<1>1. h \in Handlers /\ n \in Nat /\ w[2] \in 1 .. n /\ w = <<h, w[2]>>
    BY WorkerShape, WorkerCountAssumption
<1>2. Pool(h) = {<<h, i>> : i \in 1 .. n}
    BY <1>1, WorkerShape DEF Pool
<1>3. {socket[v] : v \in Pool(h)} = {f[i] : i \in 1 .. n}
    BY <1>2
<1>4. f[w[2]] = NoConn
    BY <1>1
<1>5. Serving[h] = {f[i] : i \in 1 .. n} \ {f[w[2]]}
    BY <1>1, <1>3, <1>4 DEF Serving
<1>6. f \in [1 .. n -> Conns \cup {NoConn}]
    BY <1>1, <1>2, WorkerShape DEF HInv, TypeOK
<1> HIDE DEF f, n, h
<1>7. Cardinality(Serving[h]) < n
    BY <1>1, <1>5, <1>6, OneLess
<1> QED BY <1>7 DEF n, h

\* A worker that takes or lets go of a connection changes what its pool serves.
LEMMA ServingGrows ==
    ASSUME HInv, NEW w \in Workers, NEW c \in Conns, socket[w] = NoConn,
           socket' = [socket EXCEPT ![w] = c]
    PROVE  Serving' = [Serving EXCEPT ![w[1]] = Serving[w[1]] \cup {c}]
<1>1. w[1] \in Handlers /\ socket \in [Workers -> Conns \cup {NoConn}] /\ c # NoConn
    BY WorkerShape, NoConnAssumption DEF HInv, TypeOK
<1>2. \A h \in Handlers : \A v \in Pool(h) : v \in Workers /\ v[1] = h
    BY DEF Pool
<1>3. w \in Pool(w[1])
    BY DEF Pool
<1>4. ASSUME NEW h \in Handlers, h # w[1] PROVE Serving'[h] = Serving[h]
    BY <1>1, <1>2, <1>4 DEF Serving
<1>5. Serving'[w[1]] = Serving[w[1]] \cup {c}
    BY <1>1, <1>2, <1>3 DEF Serving
<1> QED BY <1>1, <1>4, <1>5 DEF Serving

LEMMA ServingShrinks ==
    ASSUME HInv, WorkersDisjoint, NEW w \in Workers, socket[w] # NoConn,
           socket' = [socket EXCEPT ![w] = NoConn]
    PROVE  /\ socket[w] \in Conns /\ socket[w] \in Serving[w[1]]
           /\ Serving' = [Serving EXCEPT ![w[1]] = Serving[w[1]] \ {socket[w]}]
<1>1. w[1] \in Handlers /\ socket \in [Workers -> Conns \cup {NoConn}]
    BY WorkerShape DEF HInv, TypeOK
<1>2. \A h \in Handlers : \A v \in Pool(h) : v \in Workers /\ v[1] = h
    BY DEF Pool
<1>3. w \in Pool(w[1])
    BY DEF Pool
<1>4. ASSUME NEW h \in Handlers, h # w[1] PROVE Serving'[h] = Serving[h]
    BY <1>1, <1>2, <1>4 DEF Serving
<1>5. Serving'[w[1]] = Serving[w[1]] \ {socket[w]}
    BY <1>1, <1>2, <1>3 DEF Serving, WorkersDisjoint
<1>6. socket[w] \in Serving[w[1]] /\ socket[w] \in Conns
    BY <1>1, <1>3 DEF Serving
<1> QED BY <1>1, <1>4, <1>5, <1>6 DEF Serving

LEMMA DispatchInit == Init => D!Init
<1> SUFFICES ASSUME Init PROVE D!Init
    OBVIOUS
<1>1. Serving = [h \in Handlers |-> {}]
    BY WorkerShape DEF Init, Serving
<1>2. Phase = [h \in Handlers |-> "open"]
    BY DEF Init, Phase
<1> QED BY <1>1, <1>2 DEF Init, D!Init, Serving, Phase

LEMMA DispatchOwner ==
    ASSUME HInv, NEW h \in Handlers, OwnerStep(h)
    PROVE  D!Close(h) \/ D!Vanish(h) \/ UNCHANGED D!vars
<1>1. CASE CreateWorkers(h)
  <2>1. UNCHANGED <<workQueue, socket, served, dropped>>
      BY <1>1 DEF CreateWorkers
  <2>2. Phase' = Phase
      BY <1>1 DEF CreateWorkers, Phase, HInv, TypeOK
  <2> QED BY <2>1, <2>2 DEF D!vars, Phase
<1>2. CASE BeginDestroy(h)
  <2>1. UNCHANGED <<workQueue, socket, served, dropped>>
      BY <1>2 DEF BeginDestroy
  <2>2. Phase[h] = "open" /\ Phase' = [Phase EXCEPT ![h] = "closed"]
      BY <1>2 DEF BeginDestroy, Phase, HInv, TypeOK
  <2> QED BY <2>1, <2>2 DEF D!Close, Phase
<1>3. CASE JoinWorker(h)
    BY <1>3 DEF JoinWorker, D!vars
<1>4. CASE Delete(h)
  <2>1. /\ life[h] = "finishing" /\ joined[h] = WorkerCount[h]
        /\ dropped' = dropped \cup Queued(h) /\ workQueue' = [workQueue EXCEPT ![h] = <<>>]
        /\ UNCHANGED <<socket, served>>
      BY <1>4 DEF Delete
  <2>2. Phase[h] = "closed" /\ Phase' = [Phase EXCEPT ![h] = "gone"]
      BY <1>4 DEF Delete, Phase, HInv, TypeOK
  <2>3. \A w \in Pool(h) : socket[w] = NoConn
      BY <2>1, WorkerShape DEF HInv, Pools, Hands, Pool
  <2>4. Serving[h] = {}
      BY <2>3 DEF Serving
  <2> QED BY <2>1, <2>2, <2>4 DEF D!Vanish, Phase, Serving, Queued
<1> QED BY <1>1, <1>2, <1>3, <1>4 DEF OwnerStep

LEMMA DispatchEnqueue ==
    ASSUME HInv, NEW h \in Handlers, NEW c \in Conns, ~Submitted(c), Enqueue(h, c)
    PROVE  D!Submit(h, c)
<1>1. ~D!Seen(c)
    BY WorkerShape DEF Submitted, Queued, D!Seen
<1>2. Phase[h] # "gone"
    BY DEF Enqueue, Phase
<1> QED BY <1>1, <1>2 DEF Enqueue, D!Submit, Phase

LEMMA DispatchWorker ==
    ASSUME HInv, WorkersDisjoint, NEW w \in Workers, WorkerStep(w) \/ Handle(w)
    PROVE  \/ D!Start(w[1])
           \/ \E c \in Conns : D!Complete(w[1], c)
           \/ UNCHANGED D!vars
<1>1. CASE WorkerStart(w) \/ DequeueNone(w) \/ WorkerLeave(w)
    BY <1>1 DEF WorkerStart, DequeueNone, WorkerLeave, D!vars
<1>2. CASE Dequeue(w)
  <2> DEFINE c == Head(workQueue[w[1]])
  <2>1. w[1] \in Handlers /\ workQueue[w[1]] \in Seq(Conns)
      BY WorkerShape DEF HInv, TypeOK
  <2>2. /\ pc[w] = "dequeue" /\ workQueue[w[1]] # <<>>
        /\ socket' = [socket EXCEPT ![w] = c]
        /\ workQueue' = [workQueue EXCEPT ![w[1]] = Tail(workQueue[w[1]])]
        /\ UNCHANGED <<life, served, dropped>>
      BY <1>2 DEF Dequeue
  <2>3. c \in Conns /\ socket[w] = NoConn
      BY <2>1, <2>2, TakeHead DEF HInv, Hands
  <2>4. Phase[w[1]] # "gone"
      BY <2>1, <2>2 DEF HInv, Pools, Phase
  <2>5. Cardinality(Serving[w[1]]) < WorkerCount[w[1]]
      BY <2>3, FreeWorker
  <2>6. Serving' = [Serving EXCEPT ![w[1]] = Serving[w[1]] \cup {c}]
      BY <2>2, <2>3, ServingGrows
  <2>7. UNCHANGED Phase
      BY <2>2 DEF Phase
  <2>8. D!Cardinality(Serving[w[1]]) = Cardinality(Serving[w[1]])
      BY DEF Cardinality, D!Cardinality
  <2>9. D!Start(w[1])
      BY <2>2, <2>4, <2>5, <2>6, <2>7, <2>8 DEF D!Start, Serving, Phase
  <2> QED BY <2>9
<1>3. CASE Handle(w)
  <2>1. /\ socket[w] # NoConn /\ socket' = [socket EXCEPT ![w] = NoConn]
        /\ served' = served \cup {socket[w]} /\ UNCHANGED <<life, workQueue, dropped>>
      BY <1>3 DEF Handle, HInv, Hands
  <2>2. /\ socket[w] \in Conns /\ socket[w] \in Serving[w[1]]
        /\ Serving' = [Serving EXCEPT ![w[1]] = Serving[w[1]] \ {socket[w]}]
      BY <2>1, ServingShrinks
  <2>3. UNCHANGED Phase
      BY <2>1 DEF Phase
  <2>4. PICK c \in Conns : c = socket[w]
      BY <2>2
  <2>5. D!Complete(w[1], c)
      BY <2>1, <2>2, <2>3, <2>4 DEF D!Complete, Serving, Phase
  <2> QED BY <2>5
<1> QED BY <1>1, <1>2, <1>3 DEF WorkerStep

LEMMA DispatchNext ==
    ASSUME HInv, OnePlace, [Next]_hvars
    PROVE  [D!Next]_(D!vars)
<1>1. ASSUME NEW h \in Handlers, OwnerStep(h) PROVE [D!Next]_(D!vars)
    BY <1>1, DispatchOwner DEF D!Next
<1>2. ASSUME NEW h \in Handlers, NEW c \in Conns, ~Submitted(c), Enqueue(h, c)
      PROVE  [D!Next]_(D!vars)
    BY <1>2, DispatchEnqueue DEF D!Next
<1>3. ASSUME NEW w \in Workers, WorkerStep(w) \/ Handle(w) PROVE [D!Next]_(D!vars)
  <2>1. w[1] \in Handlers /\ WorkersDisjoint
      BY WorkerShape DEF OnePlace
  <2> QED BY <1>3, <2>1, DispatchWorker DEF D!Next
<1>4. CASE UNCHANGED hvars
    BY <1>4 DEF hvars, D!vars
<1> QED BY <1>1, <1>2, <1>3, <1>4 DEF Next

\* A handler keeps the promise of Dispatch in every step: connections are taken
\* in the order they came, no more at a time than there are workers, each once,
\* and none is left when the handler goes (Handler_t).
THEOREM ImplementsDispatchSafely == Spec => D!Spec
<1>1. HInv /\ OnePlace /\ [Next]_hvars => [D!Next]_(D!vars)
    BY DispatchNext
<1> QED BY <1>1, DispatchInit, HandlerInvariant, OnePlaceInvariant, PTL DEF Spec, D!Spec
=============================================================================
