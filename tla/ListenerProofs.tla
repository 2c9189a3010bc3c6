---------------------------- MODULE ListenerProofs ----------------------------
(***************************************************************************)
(* Theorems about Listener: the chain of accepts of every listener, the    *)
(* verdict every connection carries to its handler and the way it takes    *)
(* there, for every number of listeners, connections and failures.         *)
(***************************************************************************)
EXTENDS Listener, FiniteSetTheorems, TLAPS

\* The completion of an accept of l is in the queue of the io_service.
Waits(l) == \E i \in DOMAIN ready : ready[i].listener = l

Unique(l) == \A i, j \in DOMAIN ready : ready[i].listener = l /\ ready[j].listener = l => i = j

\* The io thread is about to re-arm the accept of l.
Rearming(l) == io = "rearm" /\ inHand.listener = l

\* The io thread holds a connection exactly while it runs its completion.
Hand == /\ io \in {"rearm", "check", "enqueue"} => inHand \in Completion /\ inHand.result \in Conns
        /\ io \in {"none", "waiting", "returned"} => inHand = Nothing

\* The four places of an accept exclude each other, and an open listener
\* whose accept is in none of them has been reported.
Flight(l) ==
    /\ armed[l] \in {0, 1}
    /\ Unique(l)
    /\ armed[l] = 1 => athread[l] # "started" /\ ~Rearming(l) /\ ~Waits(l)
    /\ athread[l] = "started" => ~Rearming(l) /\ ~Waits(l)
    /\ Rearming(l) => ~Waits(l)
    /\ acceptor[l] = "none" => /\ armed[l] = 0 /\ athread[l] = "none"
                               /\ ~Rearming(l) /\ ~Waits(l)
    /\ acceptor[l] = "open" => \/ armed[l] = 1 \/ athread[l] = "started"
                               \/ Rearming(l) \/ Waits(l) \/ l \in reported

\* Only cancel() and close() cancel.
Cancels == \A i \in DOMAIN ready :
               ready[i].result = Canceled => acceptor[ready[i].listener] \notin {"none", "open"}

AInv == TypeOK /\ Hand /\ Cancels /\ (\A l \in Listeners : Flight(l))

-----------------------------------------------------------------------------
(* Sequences: a queue loses its head or gains a last element.              *)

LEMMA Queue ==
    ASSUME NEW S, NEW s \in Seq(S)
    PROVE  /\ Len(s) \in Nat /\ DOMAIN s = 1 .. Len(s) /\ \A i \in DOMAIN s : s[i] \in S
           /\ \A e \in S : /\ Append(s, e) \in Seq(S)
                           /\ Len(Append(s, e)) = Len(s) + 1
                           /\ \A i \in DOMAIN s : Append(s, e)[i] = s[i]
                           /\ Append(s, e)[Len(s) + 1] = e
           /\ s # <<>> => /\ Head(s) = s[1] /\ Head(s) \in S /\ Tail(s) \in Seq(S)
                          /\ 1 \in DOMAIN s /\ Len(Tail(s)) = Len(s) - 1
                          /\ \A i \in DOMAIN Tail(s) : i + 1 \in DOMAIN s /\ Tail(s)[i] = s[i + 1]
OBVIOUS

\* What cancel() and close() add to it when at most one accept is armed.
LEMMA Cancelled ==
    ASSUME NEW S, NEW s \in Seq(S), NEW e \in S, NEW n \in {0, 1}
    PROVE  s \o [i \in 1 .. n |-> e] = IF n = 0 THEN s ELSE Append(s, e)
<1>1. CASE n = 0
    BY <1>1
<1>2. CASE n = 1
  <2>1. [i \in 1 .. n |-> e] = <<e>>
      BY <1>2
  <2> QED BY <1>2, <2>1
<1> QED BY <1>1, <1>2

-----------------------------------------------------------------------------
(* The queue of completions, seen from a listener.                         *)

LEMMA Appends ==
    ASSUME TypeOK, NEW e \in Completion, ready' = Append(ready, e)
    PROVE  /\ ready' \in Seq(Completion)
           /\ \A k \in Listeners :
                 k # e.listener => (Waits(k)' <=> Waits(k)) /\ (Unique(k) => Unique(k)')
           /\ ~Waits(e.listener) => Unique(e.listener)'
           /\ Waits(e.listener)'
           /\ Cancels /\ (e.result = Canceled => acceptor[e.listener] \notin {"none", "open"})
              /\ UNCHANGED acceptor => Cancels'
<1>1. /\ ready' \in Seq(Completion) /\ Len(ready) \in Nat
      /\ DOMAIN ready = 1 .. Len(ready) /\ DOMAIN ready' = 1 .. (Len(ready) + 1)
      /\ \A i \in DOMAIN ready : ready'[i] = ready[i]
      /\ ready'[Len(ready) + 1] = e
  <2>1. ready \in Seq(Completion)
      BY DEF TypeOK
  <2> QED BY <2>1, Queue
<1>2. \A i \in DOMAIN ready' : i \in DOMAIN ready \/ i = Len(ready) + 1
    BY <1>1
<1>3. \A i \in DOMAIN ready : i \in DOMAIN ready'
    BY <1>1
<1>4. Len(ready) + 1 \in DOMAIN ready'
    BY <1>1
<1> QED BY <1>1, <1>2, <1>3, <1>4 DEF Waits, Unique, Cancels

LEMMA Takes ==
    ASSUME TypeOK, ready # <<>>, ready' = Tail(ready)
    PROVE  /\ ready' \in Seq(Completion) /\ Head(ready) \in Completion
           /\ \A k \in Listeners : /\ Unique(k) => Unique(k)'
                                   /\ k # Head(ready).listener => (Waits(k)' <=> Waits(k))
           /\ Waits(Head(ready).listener)
           /\ \A k \in Listeners : k = Head(ready).listener /\ Unique(k) => ~Waits(k)'
           /\ Head(ready).result = Canceled /\ Cancels =>
                 acceptor[Head(ready).listener] \notin {"none", "open"}
           /\ Cancels /\ UNCHANGED acceptor => Cancels'
<1>1. /\ ready' \in Seq(Completion) /\ Head(ready) \in Completion /\ Head(ready) = ready[1]
      /\ 1 \in DOMAIN ready /\ Len(ready) \in Nat /\ Len(ready') = Len(ready) - 1
      /\ DOMAIN ready = 1 .. Len(ready) /\ DOMAIN ready' = 1 .. Len(ready')
      /\ \A i \in DOMAIN ready' : i + 1 \in DOMAIN ready /\ ready'[i] = ready[i + 1]
  <2>1. ready \in Seq(Completion)
      BY DEF TypeOK
  <2> QED BY <2>1, Queue
<1>2. ASSUME NEW i \in DOMAIN ready, i # 1
      PROVE  \E j \in DOMAIN ready' : i = j + 1 /\ ready'[j] = ready[i]
  <2>1. i \in 1 .. Len(ready) /\ i - 1 \in 1 .. (Len(ready) - 1) /\ i = (i - 1) + 1
      BY <1>1, <1>2
  <2>2. i - 1 \in DOMAIN ready'
      BY <1>1, <2>1
  <2> QED BY <1>1, <2>1, <2>2
<1>3. \A i, j \in DOMAIN ready' : i + 1 = j + 1 => i = j
    BY <1>1
<1>4. \A i \in DOMAIN ready' : i + 1 # 1
    BY <1>1
<1>5. ASSUME NEW k \in Listeners, Unique(k) PROVE Unique(k)'
    BY <1>1, <1>3, <1>5 DEF Unique
<1>6. ASSUME NEW k \in Listeners PROVE Waits(k)' => Waits(k)
    BY <1>1 DEF Waits
<1>7. ASSUME NEW k \in Listeners, k # Head(ready).listener, Waits(k) PROVE Waits(k)'
    BY <1>1, <1>2, <1>7 DEF Waits
<1>8. Waits(Head(ready).listener)
    BY <1>1 DEF Waits
<1>9. ASSUME NEW k \in Listeners, k = Head(ready).listener, Unique(k) PROVE ~Waits(k)'
  <2> SUFFICES ASSUME NEW i \in DOMAIN ready', ready'[i].listener = k
               PROVE  FALSE
      BY DEF Waits
  <2>1. i + 1 \in DOMAIN ready /\ ready[i + 1].listener = ready[1].listener
      BY <1>1, <1>9
  <2>2. i + 1 = 1
      BY <1>1, <1>9, <2>1 DEF Unique
  <2> QED BY <1>4, <2>2
<1>10. /\ Head(ready).result = Canceled /\ Cancels =>
             acceptor[Head(ready).listener] \notin {"none", "open"}
       /\ Cancels /\ UNCHANGED acceptor => Cancels'
    BY <1>1 DEF Cancels
<1> QED BY <1>1, <1>5, <1>6, <1>7, <1>8, <1>9, <1>10

\* cancel() and close() of l move its armed accept to the queue.
LEMMA Moves ==
    ASSUME TypeOK, NEW l \in Listeners, armed[l] \in {0, 1}, CancelArmed(l)
    PROVE  /\ armed' = [armed EXCEPT ![l] = 0]
           /\ \/ armed[l] = 0 /\ ready' = ready
              \/ armed[l] = 1 /\ ready' = Append(ready, [listener |-> l, result |-> Canceled])
<1> DEFINE e == [listener |-> l, result |-> Canceled]
<1>1. e \in Completion /\ ready \in Seq(Completion)
    BY DEF TypeOK, Completion
<1>2. ready \o [i \in 1 .. armed[l] |-> e] = IF armed[l] = 0 THEN ready ELSE Append(ready, e)
    BY <1>1, Cancelled
<1> QED BY <1>2 DEF CancelArmed

-----------------------------------------------------------------------------
\* What a step leaves to the accept of k.
Kept(k) == /\ armed'[k] = armed[k] /\ athread'[k] = athread[k] /\ acceptor'[k] = acceptor[k]
           /\ Rearming(k)' <=> Rearming(k)
           /\ Waits(k)' <=> Waits(k)
           /\ Unique(k) => Unique(k)'
           /\ k \in reported => k \in reported'

LEMMA KeptFlight == ASSUME NEW k \in Listeners, Flight(k), Kept(k) PROVE Flight(k)'
BY DEF Flight, Kept

LEMMA InitAInv == Init => AInv
<1> SUFFICES ASSUME Init PROVE AInv
    OBVIOUS
<1>1. /\ ready = <<>> /\ DOMAIN ready = {} /\ ready \in Seq(Completion)
      /\ io = "none" /\ inHand = Nothing
    BY DEF Init
<1>2. TypeOK
    BY <1>1, MaxErrorsAssumption DEF Init, TypeOK, IoStates
<1>3. Hand /\ Cancels
    BY <1>1 DEF Hand, Cancels
<1>4. \A l \in Listeners : Flight(l)
    BY <1>1 DEF Init, Flight, Waits, Unique, Rearming
<1> QED BY <1>2, <1>3, <1>4 DEF AInv

\* The main thread: run(), cancel(), close() and join().
LEMMA OwnerA ==
    ASSUME AInv, NEW l \in Listeners, Run(l) \/ Cancel(l) \/ Close(l) \/ Join(l)
    PROVE  AInv'
<1> USE DEF AInv, sockets, log
<1>1. UNCHANGED <<io, inHand, forbidden, delivered, reported, errors>>
    BY DEF Run, Cancel, Close, Join
<1>2. Hand' /\ \A k \in Listeners : Rearming(k)' <=> Rearming(k)
    BY <1>1 DEF Hand, Rearming
<1>3. CASE Run(l) \/ Join(l)
  <2>1. /\ UNCHANGED <<armed, ready, backlog, refused>>
        /\ \/ /\ acceptor[l] = "none" /\ acceptor' = [acceptor EXCEPT ![l] = "open"]
              /\ athread' = [athread EXCEPT ![l] = "started"]
           \/ /\ acceptor[l] = "closed" /\ acceptor' = [acceptor EXCEPT ![l] = "stopped"]
              /\ UNCHANGED athread
      BY <1>3 DEF Run, Join
  <2>2. TypeOK'
      BY <1>1, <2>1 DEF TypeOK
  <2>3. \A k \in Listeners : Waits(k)' <=> Waits(k)
      BY <2>1 DEF Waits
  <2>4. \A k \in Listeners : Unique(k)' <=> Unique(k)
      BY <2>1 DEF Unique
  <2>5. Cancels'
    <3> SUFFICES ASSUME NEW i \in DOMAIN ready, ready[i].result = Canceled
                 PROVE  acceptor'[ready[i].listener] \notin {"none", "open"}
        BY <2>1 DEF Cancels
    <3>1. ready[i].listener \in Listeners
      <4>1. ready \in Seq(Completion)
          BY DEF TypeOK
      <4>2. ready[i] \in Completion
          BY <4>1, Queue
      <4> QED BY <4>2 DEF Completion
    <3>2. acceptor[ready[i].listener] \notin {"none", "open"}
        BY DEF Cancels
    <3>3. acceptor \in [Listeners -> {"none", "open", "cancelled", "closed", "stopped"}]
        BY DEF TypeOK
    <3> QED BY <2>1, <3>1, <3>2, <3>3
  <2>6. Flight(l)'
      BY <1>1, <1>2, <2>1, <2>3, <2>4 DEF Flight, TypeOK
  <2>7. ASSUME NEW k \in Listeners, k # l PROVE Flight(k)'
    <3>1. Kept(k)
        BY <1>1, <1>2, <2>1, <2>3, <2>4, <2>7 DEF Kept, TypeOK
    <3> QED BY <3>1, KeptFlight
  <2> QED BY <1>2, <2>2, <2>5, <2>6, <2>7
<1>4. CASE Cancel(l) \/ Close(l)
  <2> DEFINE e == [listener |-> l, result |-> Canceled]
  <2>1. /\ CancelArmed(l) /\ acceptor[l] \in {"open", "cancelled"}
        /\ \E a \in {"cancelled", "closed"} : acceptor' = [acceptor EXCEPT ![l] = a]
        /\ UNCHANGED athread
        /\ backlog' \in [Listeners -> SUBSET Conns] /\ refused' \subseteq Conns
      BY <1>4 DEF Cancel, Close, TypeOK
  <2>2. armed[l] \in {0, 1} /\ Unique(l)
      BY DEF Flight
  <2>3. /\ armed' = [armed EXCEPT ![l] = 0]
        /\ \/ armed[l] = 0 /\ ready' = ready
           \/ armed[l] = 1 /\ ready' = Append(ready, e)
      BY <2>1, <2>2, Moves
  <2>4. /\ acceptor' \in [Listeners -> {"none", "open", "cancelled", "closed", "stopped"}]
        /\ acceptor'[l] \in {"cancelled", "closed"}
        /\ \A k \in Listeners : k # l => acceptor'[k] = acceptor[k]
      BY <2>1 DEF TypeOK
  <2>5. armed' \in [Listeners -> Nat]
      BY <2>3 DEF TypeOK
  <2>6. e \in Completion /\ e.listener = l
      BY DEF Completion
  <2>7. ready' \in Seq(Completion)
      BY <2>3, <2>6, Appends DEF TypeOK
  <2>8. TypeOK'
      BY <1>1, <2>1, <2>4, <2>5, <2>7 DEF TypeOK
  <2>9. Cancels'
    <3> SUFFICES ASSUME NEW i \in DOMAIN ready', ready'[i].result = Canceled
                 PROVE  acceptor'[ready'[i].listener] \notin {"none", "open"}
        BY DEF Cancels
    <3>1. \/ i \in DOMAIN ready /\ ready'[i] = ready[i]
          \/ ready'[i] = e
      <4>1. ready \in Seq(Completion)
          BY DEF TypeOK
      <4>2. CASE ready' = Append(ready, e)
          BY <2>6, <2>7, <4>1, <4>2, Queue
      <4> QED BY <2>3, <4>2
    <3>2. ready'[i].listener \in Listeners
      <4>1. ready'[i] \in Completion
          BY <2>7, Queue
      <4> QED BY <4>1 DEF Completion
    <3>3. CASE ready'[i].listener = l
        BY <2>4, <3>3
    <3>4. CASE ready'[i].listener # l
      <4>1. i \in DOMAIN ready /\ ready'[i] = ready[i]
          BY <2>6, <3>1, <3>4
      <4>2. acceptor[ready[i].listener] \notin {"none", "open"}
          BY <4>1 DEF Cancels
      <4> QED BY <2>4, <3>2, <3>4, <4>1, <4>2
    <3> QED BY <3>3, <3>4
  <2>10. Flight(l)'
    <3>1. CASE armed[l] = 0 /\ ready' = ready
      <4>1. (Waits(l)' <=> Waits(l)) /\ Unique(l)'
          BY <2>2, <3>1 DEF Waits, Unique
      <4> QED BY <1>1, <1>2, <2>1, <2>3, <2>4, <3>1, <4>1 DEF Flight, TypeOK
    <3>2. CASE armed[l] = 1 /\ ready' = Append(ready, e)
      <4>1. ~Waits(l) /\ athread[l] # "started" /\ ~Rearming(l)
          BY <3>2 DEF Flight
      <4>2. Unique(l)'
          BY <2>6, <3>2, <4>1, Appends
      <4> QED BY <1>1, <1>2, <2>1, <2>3, <2>4, <4>1, <4>2 DEF Flight, TypeOK
    <3> QED BY <2>3, <3>1, <3>2
  <2>11. ASSUME NEW k \in Listeners, k # l PROVE Flight(k)'
    <3>1. (Waits(k)' <=> Waits(k)) /\ (Unique(k) => Unique(k)')
      <4>1. CASE ready' = ready
          BY <4>1 DEF Waits, Unique
      <4>2. CASE ready' = Append(ready, e)
          BY <2>6, <2>11, <4>2, Appends
      <4> QED BY <2>3, <4>1, <4>2
    <3>2. Kept(k)
        BY <1>1, <1>2, <2>1, <2>3, <2>4, <2>11, <3>1 DEF Kept, TypeOK
    <3> QED BY <3>2, KeptFlight
  <2> QED BY <1>2, <2>8, <2>9, <2>10, <2>11
<1> QED BY <1>3, <1>4

\* async_accept on l, from a thread whose accept of l it is: the accept is
\* armed, or its completion is in the queue, and nothing else is.
LEMMA Arms ==
    ASSUME TypeOK, Cancels, Hand, NEW l \in Listeners, AsyncAccept(l), UNCHANGED acceptor,
           armed[l] = 0, ~Waits(l), Unique(l), acceptor[l] # "none"
    PROVE  /\ armed' \in [Listeners -> Nat] /\ ready' \in Seq(Completion) /\ Cancels'
           /\ Unique(l)' /\ armed'[l] \in {0, 1}
           /\ armed'[l] = 1 => ~Waits(l)'
           /\ armed'[l] = 0 => Waits(l)'
           /\ \A k \in Listeners : k # l => /\ armed'[k] = armed[k]
                                            /\ (Waits(k)' <=> Waits(k)) /\ (Unique(k) => Unique(k)')
<1>1. CASE armed' = [armed EXCEPT ![l] = armed[l] + 1] /\ UNCHANGED ready
  <2>1. \A k \in Listeners : (Waits(k)' <=> Waits(k)) /\ (Unique(k)' <=> Unique(k))
      BY <1>1 DEF Waits, Unique
  <2>2. Cancels'
      BY <1>1 DEF Cancels
  <2> QED BY <1>1, <2>1, <2>2 DEF TypeOK
<1>2. ASSUME ~IsOpen(l), UNCHANGED armed,
             NEW r \in {Canceled, Error}, ready' = Append(ready, [listener |-> l, result |-> r])
      PROVE  /\ armed' \in [Listeners -> Nat] /\ ready' \in Seq(Completion) /\ Cancels'
             /\ Unique(l)' /\ armed'[l] = 0 /\ Waits(l)'
             /\ \A k \in Listeners : k # l => (Waits(k)' <=> Waits(k)) /\ (Unique(k) => Unique(k)')
  <2> DEFINE e == [listener |-> l, result |-> r]
  <2>1. e \in Completion /\ e.listener = l
      BY DEF Completion
  <2> HIDE DEF e
  <2>2. ready' = Append(ready, e)
      BY <1>2 DEF e
  <2>3. acceptor[l] \notin {"none", "open"}
      BY <1>2 DEF IsOpen
  <2> QED BY <1>2, <2>1, <2>2, <2>3, Appends DEF TypeOK
<1>3. \/ armed' = [armed EXCEPT ![l] = armed[l] + 1] /\ UNCHANGED ready
      \/ /\ ~IsOpen(l) /\ UNCHANGED armed
         /\ \E r \in {Canceled, Error} : ready' = Append(ready, [listener |-> l, result |-> r])
    BY DEF AsyncAccept, TypeOK
<1> QED BY <1>1, <1>2, <1>3

\* The acceptor thread.
LEMMA ListenA == ASSUME AInv, NEW l \in Listeners, Listen(l) PROVE AInv'
<1> USE DEF AInv
<1>1. /\ athread[l] = "started" /\ athread' = [athread EXCEPT ![l] = "done"] /\ AsyncAccept(l)
      /\ UNCHANGED <<acceptor, backlog, io, inHand, forbidden, delivered, refused, reported, errors>>
    BY DEF Listen, sockets, log
<1>2. Flight(l)
    OBVIOUS
<1>3. armed[l] = 0 /\ ~Waits(l) /\ ~Rearming(l) /\ Unique(l) /\ acceptor[l] # "none"
    BY <1>1, <1>2 DEF Flight
<1>4. /\ armed' \in [Listeners -> Nat] /\ ready' \in Seq(Completion) /\ Cancels'
      /\ Unique(l)' /\ armed'[l] \in {0, 1}
      /\ armed'[l] = 1 => ~Waits(l)'
      /\ armed'[l] = 0 => Waits(l)'
      /\ \A k \in Listeners : k # l => /\ armed'[k] = armed[k]
                                       /\ (Waits(k)' <=> Waits(k)) /\ (Unique(k) => Unique(k)')
    BY <1>1, <1>3, Arms
<1>5. Hand' /\ \A k \in Listeners : Rearming(k)' <=> Rearming(k)
    BY <1>1 DEF Hand, Rearming
<1>6. TypeOK'
    BY <1>1, <1>4 DEF TypeOK
<1>7. Flight(l)'
    BY <1>1, <1>3, <1>4, <1>5 DEF Flight, TypeOK
<1>8. ASSUME NEW k \in Listeners, k # l PROVE Flight(k)'
  <2>1. Kept(k)
      BY <1>1, <1>4, <1>5, <1>8 DEF Kept, TypeOK
  <2> QED BY <2>1, KeptFlight
<1> QED BY <1>4, <1>5, <1>6, <1>7, <1>8

\* The kernel.
LEMMA KernelA ==
    ASSUME AInv, NEW l \in Listeners,
           AcceptFails(l) \/ \E c \in Conns : Connect(l, c) \/ AcceptOk(l, c)
    PROVE  AInv'
<1> USE DEF AInv
<1>1. UNCHANGED <<acceptor, athread, io, inHand, forbidden, delivered, refused, reported>>
    BY DEF AcceptFails, Connect, AcceptOk, sockets, log
<1>2. Hand' /\ \A k \in Listeners : Rearming(k)' <=> Rearming(k)
    BY <1>1 DEF Hand, Rearming
<1>3. backlog' \in [Listeners -> SUBSET Conns] /\ errors' \in 0 .. MaxErrors
  <2>1. \/ UNCHANGED backlog
        \/ \E c \in Conns : backlog' = [backlog EXCEPT ![l] = backlog[l] \cup {c}]
        \/ \E c \in Conns : backlog' = [backlog EXCEPT ![l] = backlog[l] \ {c}]
      BY DEF AcceptFails, Connect, AcceptOk
  <2>2. \/ UNCHANGED errors
        \/ errors < MaxErrors /\ errors' = errors + 1
      BY DEF AcceptFails, Connect, AcceptOk, log
  <2>3. backlog \in [Listeners -> SUBSET Conns] /\ errors \in 0 .. MaxErrors
      BY DEF TypeOK
  <2> QED BY <2>1, <2>2, <2>3, MaxErrorsAssumption
<1>4. CASE UNCHANGED <<armed, ready>>
  <2>1. \A k \in Listeners : (Waits(k)' <=> Waits(k)) /\ (Unique(k)' <=> Unique(k))
      BY <1>4 DEF Waits, Unique
  <2>2. Cancels'
      BY <1>1, <1>4 DEF Cancels
  <2>3. TypeOK'
      BY <1>1, <1>3, <1>4 DEF TypeOK
  <2>4. \A k \in Listeners : Kept(k)
      BY <1>1, <1>2, <1>4, <2>1 DEF Kept
  <2> QED BY <1>2, <2>2, <2>3, <2>4, KeptFlight
<1>5. ASSUME NEW r \in Conns \cup {Error}, armed[l] > 0, armed' = [armed EXCEPT ![l] = armed[l] - 1],
             ready' = Append(ready, [listener |-> l, result |-> r])
      PROVE  AInv'
  <2> DEFINE e == [listener |-> l, result |-> r]
  <2>1. e \in Completion /\ e.listener = l /\ e.result # Canceled
      BY ResultAssumption DEF Completion, Canceled, Error
  <2> HIDE DEF e
  <2>2. ready' = Append(ready, e)
      BY <1>5 DEF e
  <2>3. armed[l] = 1 /\ Flight(l)
      BY <1>5 DEF Flight
  <2>4. ~Waits(l) /\ athread[l] # "started" /\ ~Rearming(l) /\ acceptor[l] # "none"
      BY <2>3 DEF Flight
  <2>5. /\ ready' \in Seq(Completion) /\ Unique(l)' /\ Waits(l)' /\ Cancels'
        /\ \A k \in Listeners : k # l => (Waits(k)' <=> Waits(k)) /\ (Unique(k) => Unique(k)')
      BY <1>1, <2>1, <2>2, <2>4, Appends
  <2>6. armed' \in [Listeners -> Nat] /\ armed'[l] = 0 /\ \A k \in Listeners : k # l => armed'[k] = armed[k]
      BY <1>5, <2>3 DEF TypeOK
  <2>7. TypeOK'
      BY <1>1, <1>3, <2>5, <2>6 DEF TypeOK
  <2>8. Flight(l)'
      BY <1>1, <1>2, <2>4, <2>5, <2>6 DEF Flight
  <2>9. ASSUME NEW k \in Listeners, k # l PROVE Flight(k)'
    <3>1. Kept(k)
        BY <1>1, <1>2, <2>5, <2>6, <2>9 DEF Kept
    <3> QED BY <3>1, KeptFlight
  <2> QED BY <1>2, <2>5, <2>7, <2>8, <2>9
<1> QED
  <2>1. \/ UNCHANGED <<armed, ready>>
        \/ \E r \in Conns \cup {Error} :
              /\ armed[l] > 0 /\ armed' = [armed EXCEPT ![l] = armed[l] - 1]
              /\ ready' = Append(ready, [listener |-> l, result |-> r])
      BY DEF AcceptFails, Connect, AcceptOk
  <2> QED BY <1>4, <1>5, <2>1

\* The io thread.
LEMMA IoA ==
    ASSUME AInv, IoStep \/ IoCheckThrows \/ IoReturn \/ UNCHANGED lvars
    PROVE  AInv'
<1> USE DEF AInv
<1>1. UNCHANGED <<acceptor, athread, backlog, refused, errors>>
    BY DEF IoStep, IoStart, IoDispatch, IoRearm, IoCheck, IoEnqueue, IoCheckThrows, IoReturn,
           sockets, log, lvars
<1>2. CASE \/ IoStart \/ IoCheck \/ IoEnqueue \/ IoCheckThrows \/ IoReturn \/ UNCHANGED lvars
  <2>1. /\ UNCHANGED <<armed, ready, reported>> /\ io' \in IoStates
        /\ inHand' \in Completion \cup {Nothing}
        /\ forbidden' \subseteq Conns /\ delivered' \in [Listeners -> SUBSET Conns]
    <3>1. CASE IoStart \/ IoCheckThrows \/ IoReturn \/ UNCHANGED lvars
        BY <3>1 DEF IoStart, IoCheckThrows, IoReturn, lvars, sockets, log, TypeOK, IoStates
    <3>2. CASE IoCheck
        BY <3>2 DEF IoCheck, log, TypeOK, IoStates, Hand
    <3>3. CASE IoEnqueue
      <4>1. inHand \in Completion /\ inHand.result \in Conns
          BY <3>3 DEF IoEnqueue, Hand
      <4>2. PICK c \in Conns, l \in Listeners : c = inHand.result /\ l = inHand.listener
          BY <4>1 DEF Completion
      <4>3. delivered' = [delivered EXCEPT ![l] = delivered[l] \cup {c}]
          BY <3>3, <4>2 DEF IoEnqueue
      <4>4. delivered' \in [Listeners -> SUBSET Conns]
          BY <4>3 DEF TypeOK
      <4> QED BY <3>3, <4>4 DEF IoEnqueue, log, TypeOK, IoStates
    <3> QED BY <1>2, <3>1, <3>2, <3>3
  <2>2. Hand' /\ \A k \in Listeners : Rearming(k)' <=> Rearming(k)
      BY <1>2 DEF IoStart, IoCheck, IoEnqueue, IoCheckThrows, IoReturn, lvars, Hand, Rearming
  <2>3. \A k \in Listeners : (Waits(k)' <=> Waits(k)) /\ (Unique(k)' <=> Unique(k))
      BY <2>1 DEF Waits, Unique
  <2>4. Cancels'
      BY <1>1, <2>1 DEF Cancels
  <2>5. TypeOK'
      BY <1>1, <2>1 DEF TypeOK
  <2>6. \A k \in Listeners : Kept(k)
      BY <1>1, <2>1, <2>2, <2>3 DEF Kept
  <2> QED BY <2>2, <2>4, <2>5, <2>6, KeptFlight
<1>3. CASE IoDispatch
  <2>1. /\ io = "waiting" /\ inHand = Nothing /\ ready # <<>> /\ ready' = Tail(ready)
        /\ UNCHANGED <<armed, forbidden, delivered>>
        /\ \/ /\ Head(ready).result \in Conns /\ io' = "rearm" /\ inHand' = Head(ready)
              /\ UNCHANGED reported
           \/ /\ Head(ready).result = Error /\ reported' = reported \cup {Head(ready).listener}
              /\ UNCHANGED <<io, inHand>>
           \/ Head(ready).result = Canceled /\ UNCHANGED <<io, inHand, reported>>
      BY <1>3 DEF IoDispatch, Hand, sockets
  <2>2. /\ ready' \in Seq(Completion) /\ Head(ready) \in Completion /\ Cancels'
        /\ \A k \in Listeners : /\ Unique(k) => Unique(k)'
                                /\ k # Head(ready).listener => (Waits(k)' <=> Waits(k))
        /\ Waits(Head(ready).listener)
        /\ \A k \in Listeners : k = Head(ready).listener /\ Unique(k) => ~Waits(k)'
        /\ Head(ready).result = Canceled => acceptor[Head(ready).listener] \notin {"none", "open"}
      BY <1>1, <2>1, Takes
  <2>3. PICK l \in Listeners : l = Head(ready).listener
      BY <2>2 DEF Completion
  <2>4. Waits(l) /\ ~Waits(l)' /\ Unique(l)'
      BY <2>2, <2>3 DEF Flight
  <2>5. armed[l] = 0 /\ athread[l] # "started" /\ acceptor[l] # "none" /\ ~Rearming(l)
      BY <2>4 DEF Flight
  <2>6. Hand'
      BY <2>1, <2>2 DEF Hand
  <2>7. TypeOK'
      BY <1>1, <2>1, <2>2, <2>3 DEF TypeOK, IoStates
  <2>8. acceptor[l] = "open" => Rearming(l)' \/ l \in reported'
      BY <2>1, <2>2, <2>3 DEF Rearming
  <2>9. Flight(l)'
      BY <1>1, <2>1, <2>4, <2>5, <2>8 DEF Flight
  <2>10. ASSUME NEW k \in Listeners, k # l PROVE Flight(k)'
    <3>1. ~Rearming(k) /\ ~Rearming(k)'
        BY <2>1, <2>3, <2>10 DEF Rearming
    <3>2. Kept(k)
        BY <1>1, <2>1, <2>2, <2>3, <2>10, <3>1 DEF Kept
    <3> QED BY <3>2, KeptFlight
  <2> QED BY <2>2, <2>6, <2>7, <2>9, <2>10
<1>4. CASE IoRearm
  <2>1. inHand \in Completion /\ inHand.result \in Conns /\ io = "rearm" /\ io' = "check"
      BY <1>4 DEF IoRearm, Hand
  <2>2. PICK l \in Listeners : l = inHand.listener
      BY <2>1 DEF Completion
  <2>3. /\ AsyncAccept(l) /\ Rearming(l)
        /\ UNCHANGED <<inHand, forbidden, delivered, reported>>
      BY <1>4, <2>1, <2>2 DEF IoRearm, Rearming, AsyncAccept, sockets, log
  <2>4. armed[l] = 0 /\ ~Waits(l) /\ Unique(l) /\ acceptor[l] # "none" /\ athread[l] # "started"
      BY <2>3 DEF Flight
  <2>5. /\ armed' \in [Listeners -> Nat] /\ ready' \in Seq(Completion) /\ Cancels'
        /\ Unique(l)' /\ armed'[l] \in {0, 1}
        /\ armed'[l] = 1 => ~Waits(l)'
        /\ armed'[l] = 0 => Waits(l)'
        /\ \A k \in Listeners : k # l => /\ armed'[k] = armed[k]
                                         /\ (Waits(k)' <=> Waits(k)) /\ (Unique(k) => Unique(k)')
      BY <1>1, <2>3, <2>4, Arms
  <2>6. Hand' /\ TypeOK'
      BY <1>1, <2>1, <2>3, <2>5 DEF Hand, TypeOK, IoStates
  <2>7. \A k \in Listeners : ~Rearming(k)' /\ (k # l => ~Rearming(k))
      BY <2>1, <2>2 DEF Rearming
  <2>8. Flight(l)'
      BY <1>1, <2>4, <2>5, <2>7 DEF Flight
  <2>9. ASSUME NEW k \in Listeners, k # l PROVE Flight(k)'
    <3>1. Kept(k)
        BY <1>1, <2>3, <2>5, <2>7, <2>9 DEF Kept
    <3> QED BY <3>1, KeptFlight
  <2> QED BY <2>5, <2>6, <2>8, <2>9
<1> QED BY <1>2, <1>3, <1>4 DEF IoStep

LEMMA NextAInv == AInv /\ [Next]_lvars => AInv'
BY OwnerA, ListenA, KernelA, IoA DEF Next

LEMMA AInvAlways == Spec => []AInv
BY InitAInv, NextAInv, PTL DEF Spec

\* A listener never has two accepts in flight, and it stops accepting while it
\* is open only after the error that stopped it was logged
\* (Listener_t::listen, Listener_t::accept).
THEOREM OneAcceptAlways == Spec => []OneAccept
<1>1. ASSUME AInv, NEW l \in Listeners
      PROVE  Chain(l) <= 1 /\ (acceptor[l] = "open" /\ Chain(l) = 0 => l \in reported)
  <2>1. Flight(l)
      BY <1>1 DEF AInv
  <2>2. Cardinality(ReadyOf(l)) = IF Waits(l) THEN 1 ELSE 0
    <3>1. CASE Waits(l)
      <4>1. PICK i \in DOMAIN ready : ready[i].listener = l
          BY <3>1 DEF Waits
      <4>2. ReadyOf(l) = {i}
          BY <2>1, <4>1 DEF ReadyOf, Flight, Unique
      <4> QED BY <3>1, <4>2, FS_Singleton
    <3>2. CASE ~Waits(l)
      <4>1. ReadyOf(l) = {}
          BY <3>2 DEF Waits, ReadyOf
      <4> QED BY <3>2, <4>1, FS_EmptySet
    <3> QED BY <3>1, <3>2
  <2> QED BY <2>1, <2>2 DEF Chain, Flight, Rearming
<1>2. AInv => OneAccept
    BY <1>1 DEF OneAccept
<1> QED BY <1>2, AInvAlways, PTL

-----------------------------------------------------------------------------
(* The verdict.  A connection is in one place, so that the verdict of the  *)
(* listener that accepted it is the only one it gets.                      *)

Held(c) == io \in {"rearm", "check", "enqueue"} /\ inHand.result = c
Waiting(c) == \E i \in DOMAIN ready : ready[i].result = c
Once(c) == \A i, j \in DOMAIN ready : ready[i].result = c /\ ready[j].result = c => i = j

Place(c) ==
    /\ \A k, l \in Listeners : c \in backlog[k] /\ c \in backlog[l] => k = l
    /\ \A k, l \in Listeners : c \in delivered[k] /\ c \in delivered[l] => k = l
    /\ Once(c)
    /\ \A k \in Listeners : c \in backlog[k] =>
           ~Waiting(c) /\ ~Held(c) /\ \A l \in Listeners : c \notin delivered[l]
    /\ Waiting(c) => ~Held(c) /\ \A l \in Listeners : c \notin delivered[l]
    /\ Held(c) => \A l \in Listeners : c \notin delivered[l]

Verdict(c) ==
    /\ c \in forbidden => \/ io = "enqueue" /\ inHand.result = c
                          \/ \E l \in Listeners : c \in delivered[l]
    /\ io = "enqueue" /\ inHand.result = c => (c \in forbidden <=> c \in Forbids[inHand.listener])
    /\ \A l \in Listeners : c \in delivered[l] => (c \in forbidden <=> c \in Forbids[l])

VInv == AInv /\ \A c \in Conns : Place(c) /\ Verdict(c)

LEMMA InitVInv == Init => VInv
<1> SUFFICES ASSUME Init PROVE VInv
    OBVIOUS
<1>1. ready = <<>> /\ DOMAIN ready = {}
    BY DEF Init
<1>2. \A c \in Conns : Place(c) /\ Verdict(c)
    BY <1>1 DEF Init, Place, Verdict, Once, Waiting, Held
<1> QED BY <1>2, InitAInv DEF VInv

LEMMA AppendsResult ==
    ASSUME TypeOK, NEW e \in Completion, ready' = Append(ready, e), NEW c \in Conns
    PROVE  /\ Waiting(c)' <=> (Waiting(c) \/ e.result = c)
           /\ Once(c) /\ (e.result = c => ~Waiting(c)) => Once(c)'
<1>1. /\ Len(ready) \in Nat
      /\ DOMAIN ready = 1 .. Len(ready) /\ DOMAIN ready' = 1 .. (Len(ready) + 1)
      /\ \A i \in DOMAIN ready : ready'[i] = ready[i]
      /\ ready'[Len(ready) + 1] = e
  <2>1. ready \in Seq(Completion)
      BY DEF TypeOK
  <2>2. ready' \in Seq(Completion) /\ Len(ready') = Len(ready) + 1
      BY <2>1, Queue
  <2> QED BY <2>1, <2>2, Queue
<1>2. \A i \in DOMAIN ready' : i \in DOMAIN ready \/ i = Len(ready) + 1
    BY <1>1
<1>3. \A i \in DOMAIN ready : i \in DOMAIN ready'
    BY <1>1
<1>4. Len(ready) + 1 \in DOMAIN ready'
    BY <1>1
<1> QED BY <1>1, <1>2, <1>3, <1>4 DEF Waiting, Once

LEMMA TakesResult ==
    ASSUME TypeOK, ready # <<>>, ready' = Tail(ready), NEW c \in Conns, Once(c)
    PROVE  /\ Once(c)'
           /\ Waiting(c)' <=> (Waiting(c) /\ Head(ready).result # c)
           /\ Head(ready).result = c => Waiting(c)
<1>1. /\ Head(ready) = ready[1]
      /\ 1 \in DOMAIN ready /\ Len(ready) \in Nat /\ Len(ready') = Len(ready) - 1
      /\ DOMAIN ready = 1 .. Len(ready) /\ DOMAIN ready' = 1 .. Len(ready')
      /\ \A i \in DOMAIN ready' : i + 1 \in DOMAIN ready /\ ready'[i] = ready[i + 1]
  <2>1. ready \in Seq(Completion)
      BY DEF TypeOK
  <2> QED BY <2>1, Queue
<1>2. ASSUME NEW i \in DOMAIN ready, i # 1
      PROVE  \E j \in DOMAIN ready' : i = j + 1 /\ ready'[j] = ready[i]
  <2>1. i \in 1 .. Len(ready) /\ i - 1 \in 1 .. (Len(ready) - 1) /\ i = (i - 1) + 1
      BY <1>1, <1>2
  <2>2. i - 1 \in DOMAIN ready'
      BY <1>1, <2>1
  <2> QED BY <1>1, <2>1, <2>2
<1>3. \A i, j \in DOMAIN ready' : i + 1 = j + 1 => i = j
    BY <1>1
<1>4. \A i \in DOMAIN ready' : i + 1 # 1
    BY <1>1
<1>5. Once(c)'
    BY <1>1, <1>3 DEF Once
<1>6. Waiting(c)' => Waiting(c) /\ Head(ready).result # c
  <2> SUFFICES ASSUME NEW i \in DOMAIN ready', ready'[i].result = c
               PROVE  Waiting(c) /\ Head(ready).result # c
      BY DEF Waiting
  <2>1. i + 1 \in DOMAIN ready /\ ready[i + 1].result = c /\ i + 1 # 1
      BY <1>1, <1>4
  <2> QED BY <1>1, <2>1 DEF Waiting, Once
<1>7. Waiting(c) /\ Head(ready).result # c => Waiting(c)'
    BY <1>1, <1>2 DEF Waiting
<1>8. Head(ready).result = c => Waiting(c)
    BY <1>1 DEF Waiting
<1> QED BY <1>5, <1>6, <1>7, <1>8

-----------------------------------------------------------------------------
\* A step that moves no connection forward: it may lose one.
Settled == /\ \A l \in Listeners : backlog'[l] \subseteq backlog[l]
           /\ \A c \in Conns : (Waiting(c)' <=> Waiting(c)) /\ (Once(c) => Once(c)')
           /\ \A c \in Conns : Held(c)' => Held(c)
           /\ io' = "enqueue" => io = "enqueue" /\ inHand' = inHand
           /\ io = "enqueue" => io' = "enqueue"
           /\ UNCHANGED <<delivered, forbidden>>

LEMMA SettledPlaces ==
    ASSUME Settled, NEW c \in Conns, Place(c), Verdict(c)
    PROVE  Place(c)' /\ Verdict(c)'
<1>1. Place(c)'
    BY DEF Settled, Place
<1>2. Verdict(c)'
    BY DEF Settled, Verdict
<1> QED BY <1>1, <1>2

\* These steps queue no connection: at most a completion without one.
LEMMA Lengthens ==
    ASSUME AInv,
           \/ \E l \in Listeners :
                 Run(l) \/ Cancel(l) \/ Close(l) \/ Join(l) \/ Listen(l) \/ AcceptFails(l)
           \/ IoStart \/ IoRearm \/ IoCheckThrows \/ IoReturn \/ UNCHANGED lvars
    PROVE  \/ UNCHANGED ready
           \/ \E e \in Completion : e.result \notin Conns /\ ready' = Append(ready, e)
<1>1. TypeOK /\ Hand /\ \A l \in Listeners : armed[l] \in {0, 1}
    BY DEF AInv, Flight
<1>2. CASE \E l \in Listeners : Cancel(l) \/ Close(l)
  <2>1. PICK l \in Listeners : CancelArmed(l)
      BY <1>2 DEF Cancel, Close
  <2>2. \/ ready' = ready
        \/ ready' = Append(ready, [listener |-> l, result |-> Canceled])
      BY <1>1, <2>1, Moves
  <2>3. [listener |-> l, result |-> Canceled] \in Completion /\ Canceled \notin Conns
      BY ResultAssumption DEF Completion, Canceled
  <2> QED BY <2>2, <2>3
<1>3. CASE IoRearm \/ \E l \in Listeners : Listen(l)
  <2>1. PICK l \in Listeners : AsyncAccept(l)
    <3>1. CASE IoRearm
      <4>1. inHand.listener \in Listeners
          BY <1>1, <3>1 DEF IoRearm, Hand, Completion
      <4>2. PICK l \in Listeners : l = inHand.listener
          BY <4>1
      <4> QED BY <3>1, <4>2 DEF IoRearm, AsyncAccept
    <3> QED BY <1>3, <3>1 DEF Listen
  <2>2. \A r \in {Canceled, Error} : /\ [listener |-> l, result |-> r] \in Completion
                                     /\ r \notin Conns
      BY ResultAssumption DEF Completion, Canceled, Error
  <2> QED BY <2>1, <2>2 DEF AsyncAccept
<1>4. CASE \E l \in Listeners : AcceptFails(l)
  <2>1. PICK l \in Listeners : ready' = Append(ready, [listener |-> l, result |-> Error])
      BY <1>4 DEF AcceptFails
  <2>2. [listener |-> l, result |-> Error] \in Completion /\ Error \notin Conns
      BY ResultAssumption DEF Completion, Error
  <2> QED BY <2>1, <2>2
<1>5. CASE \/ \E l \in Listeners : Run(l) \/ Join(l)
           \/ IoStart \/ IoCheckThrows \/ IoReturn \/ UNCHANGED lvars
    BY <1>5 DEF Run, Join, IoStart, IoCheckThrows, IoReturn, lvars
<1> QED BY <1>2, <1>3, <1>4, <1>5

LEMMA SettledSteps ==
    ASSUME AInv,
           \/ \E l \in Listeners :
                 Run(l) \/ Cancel(l) \/ Close(l) \/ Join(l) \/ Listen(l) \/ AcceptFails(l)
           \/ IoStart \/ IoRearm \/ IoCheckThrows \/ IoReturn \/ UNCHANGED lvars
    PROVE  Settled
<1>1. TypeOK /\ Hand /\ \A l \in Listeners : armed[l] \in {0, 1}
    BY DEF AInv, Flight
<1>2. \A l \in Listeners : backlog'[l] \subseteq backlog[l]
    BY <1>1 DEF Run, Cancel, Close, Join, Listen, AcceptFails, IoStart, IoRearm, IoCheckThrows,
                IoReturn, lvars, TypeOK
<1>3. /\ io' = "enqueue" => io = "enqueue" /\ inHand' = inHand
      /\ io = "enqueue" => io' = "enqueue"
      /\ UNCHANGED <<delivered, forbidden>>
      /\ \A c \in Conns : Held(c)' => Held(c)
    BY <1>1 DEF Run, Cancel, Close, Join, Listen, AcceptFails, IoStart, IoRearm, IoCheckThrows,
                IoReturn, lvars, sockets, Hand, Held
<1>4. \/ UNCHANGED ready
      \/ \E e \in Completion : e.result \notin Conns /\ ready' = Append(ready, e)
    BY Lengthens
<1>5. \A c \in Conns : (Waiting(c)' <=> Waiting(c)) /\ (Once(c) => Once(c)')
  <2>1. CASE UNCHANGED ready
      BY <2>1 DEF Waiting, Once
  <2>2. ASSUME NEW e \in Completion, e.result \notin Conns, ready' = Append(ready, e)
        PROVE  \A c \in Conns : (Waiting(c)' <=> Waiting(c)) /\ (Once(c) => Once(c)')
      BY <1>1, <2>2, AppendsResult
  <2> QED BY <1>4, <2>1, <2>2
<1> QED BY <1>2, <1>3, <1>5 DEF Settled

LEMMA ArrivalSteps ==
    ASSUME VInv, NEW l \in Listeners, NEW d \in Conns, Connect(l, d) \/ AcceptOk(l, d),
           NEW c \in Conns
    PROVE  Place(c)' /\ Verdict(c)'
<1>1. TypeOK /\ Hand /\ Place(c) /\ Verdict(c)
    BY DEF VInv, AInv
<1>2. UNCHANGED <<io, inHand, delivered, forbidden>>
    BY DEF Connect, AcceptOk, sockets
<1>3. Held(c)' <=> Held(c)
    BY <1>2 DEF Held
<1>4. Verdict(c)'
    BY <1>1, <1>2 DEF Verdict
<1>5. CASE Connect(l, d)
  <2>1. ~Seen(d) /\ backlog' = [backlog EXCEPT ![l] = backlog[l] \cup {d}] /\ UNCHANGED ready
      BY <1>5 DEF Connect
  <2>2. (Waiting(c)' <=> Waiting(c)) /\ (Once(c)' <=> Once(c))
      BY <2>1 DEF Waiting, Once
  <2>3. CASE c = d
    <3>1. /\ \A k \in Listeners : c \notin backlog[k] /\ c \notin delivered[k]
          /\ ~Held(c) /\ ~Waiting(c)
      <4>1. c \notin {Canceled, Error}
          BY ResultAssumption DEF Canceled, Error
      <4> QED BY <2>1, <2>3, <4>1 DEF Seen, ReadyConns, Held, Waiting
    <3>2. \A k \in Listeners : c \in backlog'[k] => k = l
        BY <1>1, <2>1, <3>1 DEF TypeOK
    <3> QED BY <1>1, <1>2, <1>3, <1>4, <2>2, <3>1, <3>2 DEF Place
  <2>4. CASE c # d
    <3>1. \A k \in Listeners : c \in backlog'[k] <=> c \in backlog[k]
        BY <1>1, <2>1, <2>4 DEF TypeOK
    <3> QED BY <1>1, <1>2, <1>3, <1>4, <2>2, <3>1 DEF Place
  <2> QED BY <2>3, <2>4
<1>6. CASE AcceptOk(l, d)
  <2> DEFINE e == [listener |-> l, result |-> d]
  <2>1. e \in Completion /\ e.result = d
      BY DEF Completion
  <2> HIDE DEF e
  <2>2. /\ d \in backlog[l] /\ backlog' = [backlog EXCEPT ![l] = backlog[l] \ {d}]
        /\ ready' = Append(ready, e)
      BY <1>6 DEF AcceptOk, e
  <2>3. Waiting(c)' <=> (Waiting(c) \/ d = c)
      BY <1>1, <2>1, <2>2, AppendsResult
  <2>4. d = c => ~Waiting(c) /\ ~Held(c) /\ \A k \in Listeners : c \notin delivered[k]
      BY <1>1, <2>2 DEF Place
  <2>5. Once(c)'
    <3>1. Once(c) /\ (e.result = c => ~Waiting(c))
        BY <1>1, <2>1, <2>4 DEF Place
    <3> QED BY <1>1, <2>1, <2>2, <3>1, AppendsResult
  <2>6. \A k \in Listeners : c \in backlog'[k] => c \in backlog[k] /\ d # c
    <3>1. d = c => \A k \in Listeners : c \in backlog[k] => k = l
        BY <1>1, <2>2 DEF Place
    <3> QED BY <1>1, <2>2, <3>1 DEF TypeOK
  <2>7. Waiting(c)' => ~Held(c) /\ \A k \in Listeners : c \notin delivered[k]
      BY <1>1, <2>3, <2>4 DEF Place
  <2>8. \A k \in Listeners : c \in backlog'[k] => ~Waiting(c)'
      BY <1>1, <2>3, <2>6 DEF Place
  <2>9. Place(c)'
    <3>1. \A k, m \in Listeners : c \in backlog'[k] /\ c \in backlog'[m] => k = m
        BY <1>1, <2>6 DEF Place
    <3> QED BY <1>1, <1>2, <1>3, <2>5, <2>6, <2>7, <2>8, <3>1 DEF Place
  <2> QED BY <1>4, <2>9
<1> QED BY <1>5, <1>6

LEMMA CompletionSteps ==
    ASSUME VInv, IoDispatch \/ IoCheck \/ IoEnqueue, NEW c \in Conns
    PROVE  Place(c)' /\ Verdict(c)'
<1>1. TypeOK /\ Hand /\ Place(c) /\ Verdict(c)
    BY DEF VInv, AInv
<1>2. CASE IoDispatch
  <2>1. /\ io = "waiting" /\ ready # <<>> /\ ready' = Tail(ready)
        /\ UNCHANGED <<backlog, forbidden, delivered>>
        /\ \/ Head(ready).result \in Conns /\ io' = "rearm" /\ inHand' = Head(ready)
           \/ Head(ready).result \notin Conns /\ UNCHANGED <<io, inHand>>
      BY <1>2, ResultAssumption DEF IoDispatch, sockets, Canceled, Error
  <2>2. /\ Once(c)'
        /\ Waiting(c)' <=> (Waiting(c) /\ Head(ready).result # c)
        /\ Head(ready).result = c => Waiting(c)
    <3>1. Once(c)
        BY <1>1 DEF Place
    <3> QED BY <1>1, <2>1, <3>1, TakesResult
  <2>3. ~Held(c) /\ (Held(c)' => Head(ready).result = c)
      BY <2>1 DEF Held
  <2>4. Place(c)'
      BY <1>1, <2>1, <2>2, <2>3 DEF Place
  <2>5. Verdict(c)'
      BY <1>1, <2>1 DEF Verdict
  <2> QED BY <2>4, <2>5
<1>3. CASE IoCheck
  <2>1. /\ io = "check" /\ io' = "enqueue"
        /\ UNCHANGED <<backlog, ready, inHand, delivered>>
        /\ forbidden' = IF inHand.result \in Forbids[inHand.listener]
                        THEN forbidden \cup {inHand.result} ELSE forbidden
      BY <1>3 DEF IoCheck
  <2>2. /\ Once(c)' <=> Once(c)
        /\ Waiting(c)' <=> Waiting(c)
        /\ Held(c)' <=> Held(c)
      BY <2>1 DEF Once, Waiting, Held
  <2>3. Place(c)'
      BY <1>1, <2>1, <2>2 DEF Place
  <2>4. CASE inHand.result = c
    <3>1. \A l \in Listeners : c \notin delivered[l]
        BY <1>1, <2>1, <2>4 DEF Place, Held
    <3>2. c \notin forbidden
        BY <1>1, <2>1, <3>1 DEF Verdict
    <3> QED BY <2>1, <2>3, <2>4, <3>1, <3>2 DEF Verdict
  <2>5. CASE inHand.result # c
    <3>1. c \in forbidden' <=> c \in forbidden
        BY <2>1, <2>5
    <3> QED BY <1>1, <2>1, <2>3, <2>5, <3>1 DEF Verdict
  <2> QED BY <2>4, <2>5
<1>4. CASE IoEnqueue
  <2>1. inHand \in Completion /\ inHand.result \in Conns
      BY <1>1, <1>4 DEF IoEnqueue, Hand
  <2>2. PICK d \in Conns, m \in Listeners : d = inHand.result /\ m = inHand.listener
      BY <2>1 DEF Completion
  <2>3. /\ io = "enqueue" /\ io' = "waiting" /\ UNCHANGED <<backlog, ready, forbidden>>
        /\ delivered' = [delivered EXCEPT ![m] = delivered[m] \cup {d}]
      BY <1>4, <2>2 DEF IoEnqueue
  <2>4. /\ Once(c)' <=> Once(c)
        /\ Waiting(c)' <=> Waiting(c)
        /\ ~Held(c)' /\ (Held(c) <=> d = c)
      BY <2>2, <2>3 DEF Once, Waiting, Held
  <2>5. \A l \in Listeners : c \in delivered'[l] <=> (c \in delivered[l] \/ (l = m /\ c = d))
      BY <1>1, <2>3 DEF TypeOK
  <2>6. d = c => /\ ~Waiting(c)
                 /\ \A l \in Listeners : c \notin delivered[l] /\ c \notin backlog[l]
      BY <1>1, <2>4 DEF Place
  <2>7. Place(c)'
      BY <1>1, <2>3, <2>4, <2>5, <2>6 DEF Place
  <2>8. Verdict(c)'
    <3>1. c = d => (c \in forbidden <=> c \in Forbids[m])
        BY <1>1, <2>2, <2>3 DEF Verdict
    <3> QED BY <1>1, <2>2, <2>3, <2>5, <2>6, <3>1 DEF Verdict
  <2> QED BY <2>7, <2>8
<1> QED BY <1>2, <1>3, <1>4

LEMMA NextVInv == VInv /\ [Next]_lvars => VInv'
<1> SUFFICES ASSUME VInv, [Next]_lvars PROVE VInv'
    OBVIOUS
<1>1. AInv /\ AInv'
    BY NextAInv DEF VInv
<1>2. ASSUME NEW c \in Conns PROVE Place(c)' /\ Verdict(c)'
  <2>1. Place(c) /\ Verdict(c)
      BY DEF VInv
  <2>2. CASE \/ \E l \in Listeners :
                  Run(l) \/ Cancel(l) \/ Close(l) \/ Join(l) \/ Listen(l) \/ AcceptFails(l)
             \/ IoStart \/ IoRearm \/ IoCheckThrows \/ IoReturn \/ UNCHANGED lvars
      BY <1>1, <2>1, <2>2, SettledSteps, SettledPlaces
  <2>3. CASE \E l \in Listeners, d \in Conns : Connect(l, d) \/ AcceptOk(l, d)
      BY <2>3, ArrivalSteps
  <2>4. CASE IoDispatch \/ IoCheck \/ IoEnqueue
      BY <2>4, CompletionSteps
  <2> QED BY <2>2, <2>3, <2>4 DEF Next, IoStep
<1> QED BY <1>1, <1>2 DEF VInv

LEMMA VInvAlways == Spec => []VInv
BY InitVInv, NextVInv, PTL DEF Spec

\* Whatever the order in which connections, completions and failures come, a
\* connection reaches its handler with the verdict of the listener that
\* accepted it (Listener_t::accept, Listener_t::isForbidden).
THEOREM VerdictBeforeHandoffAlways == Spec => []VerdictBeforeHandoff
<1>1. VInv => VerdictBeforeHandoff
  <2> SUFFICES ASSUME VInv, NEW l \in Listeners, NEW c \in delivered[l]
               PROVE  c \in forbidden <=> c \in Forbids[l]
      BY DEF VerdictBeforeHandoff
  <2>1. c \in Conns
      BY DEF VInv, AInv, TypeOK
  <2> QED BY <2>1 DEF VInv, Verdict
<1> QED BY <1>1, VInvAlways, PTL
-----------------------------------------------------------------------------
(* The way.  No step drops an accepted connection, and one that is in one  *)
(* place has one listener.                                                 *)

Sole == \A l, k \in Listeners, c \in Conns : Accepted(l, c) /\ Accepted(k, c) => k = l

LEMMA OneWay == VInv /\ Alive => Sole
<1> SUFFICES ASSUME VInv, Alive, NEW l \in Listeners, NEW k \in Listeners, NEW c \in Conns,
                    Accepted(l, c), Accepted(k, c)
             PROVE  k = l
    BY DEF Sole
<1>1. Place(c) /\ Hand /\ inHand \in Completion \cup {Nothing} /\ io \in IoStates
    BY DEF VInv, AInv, TypeOK
<1>2. ASSUME NEW m \in Listeners, inHand = [listener |-> m, result |-> c] PROVE Held(c)
  <2>1. c # "none"
      BY ResultAssumption
  <2>2. inHand # Nothing
      BY <1>2, <2>1 DEF Nothing
  <2> QED BY <1>1, <1>2, <2>2 DEF Hand, Held, Alive, IoStates
<1>3. ASSUME NEW m \in Listeners, NEW i \in DOMAIN ready, ready[i] = [listener |-> m, result |-> c]
      PROVE  Waiting(c) /\ ready[i].result = c /\ ready[i].listener = m
    BY <1>3 DEF Waiting
<1>4. CASE Waiting(c)
  <2>1. ~Held(c) /\ c \notin delivered[l] /\ c \notin delivered[k]
      BY <1>1, <1>4 DEF Place
  <2>2. PICK i \in DOMAIN ready : ready[i] = [listener |-> l, result |-> c]
      BY <1>2, <2>1 DEF Accepted
  <2>3. PICK j \in DOMAIN ready : ready[j] = [listener |-> k, result |-> c]
      BY <1>2, <2>1 DEF Accepted
  <2>4. i = j
      BY <1>1, <1>3, <2>2, <2>3 DEF Place, Once
  <2> QED BY <1>3, <2>2, <2>3, <2>4
<1>5. CASE ~Waiting(c) /\ Held(c)
  <2>1. c \notin delivered[l] /\ c \notin delivered[k]
      BY <1>1, <1>5 DEF Place
  <2>2. inHand = [listener |-> l, result |-> c] /\ inHand = [listener |-> k, result |-> c]
      BY <1>3, <1>5, <2>1 DEF Accepted
  <2>3. inHand.listener = l /\ inHand.listener = k
      BY <2>2
  <2> QED BY <2>3
<1>6. CASE ~Waiting(c) /\ ~Held(c)
  <2>1. c \in delivered[l] /\ c \in delivered[k]
      BY <1>2, <1>3, <1>6 DEF Accepted
  <2> QED BY <1>1, <2>1 DEF Place
<1> QED BY <1>4, <1>5, <1>6

LEMMA Appended ==
    ASSUME TypeOK, NEW e \in Completion, ready' = Append(ready, e),
           NEW i \in DOMAIN ready
    PROVE  i \in DOMAIN ready' /\ ready'[i] = ready[i]
<1>1. ready \in Seq(Completion)
    BY DEF TypeOK
<1> QED BY <1>1, Queue

LEMMA NothingIsDropped ==
    ASSUME VInv, Next, NEW l \in Listeners, NEW c \in Conns, Accepted(l, c)
    PROVE  Accepted(l, c)'
<1> DEFINE e == [listener |-> l, result |-> c]
<1> HIDE DEF e
<1>1. TypeOK /\ Hand /\ AInv
    BY DEF VInv, AInv
<1>2. (\E i \in DOMAIN ready : ready[i] = e) \/ inHand = e \/ c \in delivered[l]
    BY DEF Accepted, e
<1>3. ASSUME UNCHANGED <<inHand, delivered>>,
             UNCHANGED ready \/ \E d \in Completion : ready' = Append(ready, d)
      PROVE  Accepted(l, c)'
    BY <1>1, <1>3, Appended DEF Accepted
<1>4. CASE \/ \E k \in Listeners :
                 Run(k) \/ Cancel(k) \/ Close(k) \/ Join(k) \/ Listen(k) \/ AcceptFails(k)
           \/ IoStart \/ IoRearm \/ IoCheckThrows \/ IoReturn
  <2>1. UNCHANGED <<inHand, delivered>>
      BY <1>4 DEF Run, Cancel, Close, Join, Listen, AcceptFails, IoStart, IoRearm, IoCheckThrows,
                  IoReturn, sockets
  <2> QED BY <1>1, <1>3, <1>4, <2>1, Lengthens
<1>5. CASE \E k \in Listeners, d \in Conns : Connect(k, d) \/ AcceptOk(k, d)
  <2>1. PICK k \in Listeners, d \in Conns : Connect(k, d) \/ AcceptOk(k, d)
      BY <1>5
  <2>2. UNCHANGED <<inHand, delivered>>
      BY <2>1 DEF Connect, AcceptOk, sockets
  <2>3. UNCHANGED ready \/ ready' = Append(ready, [listener |-> k, result |-> d])
      BY <2>1 DEF Connect, AcceptOk
  <2>4. [listener |-> k, result |-> d] \in Completion
      BY DEF Completion
  <2> QED BY <1>3, <2>2, <2>3, <2>4
<1>6. CASE IoDispatch
  <2>1. /\ io = "waiting" /\ ready # <<>> /\ ready' = Tail(ready) /\ UNCHANGED delivered
        /\ Head(ready).result \in Conns => inHand' = Head(ready)
        /\ inHand' = Head(ready) \/ inHand' = inHand
      BY <1>6, ResultAssumption DEF IoDispatch, sockets, Canceled, Error
  <2>2. inHand # e
    <3>1. inHand = Nothing
        BY <1>1, <2>1 DEF Hand
    <3>2. c # "none"
        BY ResultAssumption
    <3> QED BY <3>1, <3>2 DEF Nothing, e
  <2>3. ASSUME NEW i \in DOMAIN ready, ready[i] = e
        PROVE  inHand' = e \/ \E j \in DOMAIN ready' : ready'[j] = e
    <3>1. ready \in Seq(Completion)
        BY <1>1 DEF TypeOK
    <3>2. CASE i = 1
      <4>1. Head(ready) = e
          BY <2>1, <2>3, <3>1, <3>2, Queue
      <4>2. e.result = c
          BY DEF e
      <4> QED BY <2>1, <4>1, <4>2
    <3>3. CASE i # 1
      <4>1. PICK j \in DOMAIN Tail(ready) : i = j + 1
        <5>1. i \in 1 .. Len(ready) /\ i - 1 \in 1 .. Len(ready) - 1
            BY <3>1, <3>3
        <5>2. DOMAIN Tail(ready) = 1 .. Len(ready) - 1
            BY <2>1, <3>1
        <5> QED BY <5>1, <5>2
      <4> QED BY <2>1, <2>3, <3>1, <4>1, Queue
    <3> QED BY <3>2, <3>3
  <2> QED BY <1>2, <2>1, <2>2, <2>3 DEF Accepted, e
<1>7. CASE IoCheck
    BY <1>7 DEF IoCheck, Accepted
<1>8. CASE IoEnqueue
  <2>1. /\ UNCHANGED ready
        /\ delivered' = [delivered EXCEPT ![inHand.listener] =
                             delivered[inHand.listener] \cup {inHand.result}]
      BY <1>8 DEF IoEnqueue
  <2>2. inHand = e => c \in delivered'[l]
      BY <1>1, <2>1 DEF TypeOK, e
  <2>3. c \in delivered[l] => c \in delivered'[l]
      BY <1>1, <2>1 DEF TypeOK
  <2> QED BY <1>2, <2>1, <2>2, <2>3 DEF Accepted, e
<1> QED BY <1>4, <1>5, <1>6, <1>7, <1>8 DEF Next, IoStep

\* Whatever stop() does to its acceptor meanwhile, an accepted connection is
\* passed on, and under one listener, up to the handler
\* (Listener_t::accept, Listener_t::stop).
THEOREM AcceptedIsKeptAlways == Spec => AcceptedIsKept
<1> DEFINE Keeps == \A l \in Listeners, c \in Conns :
                        Accepted(l, c) => \A k \in Listeners : Accepted(k, c)' <=> k = l
<1>1. (VInv /\ Alive)' => Sole'
    BY OneWay, PTL
<1>2. VInv /\ VInv' /\ Next => Keeps
  <2> SUFFICES ASSUME VInv, VInv', Next, NEW l \in Listeners, NEW c \in Conns, Accepted(l, c)
               PROVE  \A k \in Listeners : Accepted(k, c)' <=> k = l
      OBVIOUS
  <2>1. Accepted(l, c)' /\ Alive
      BY NothingIsDropped DEF Next
  <2>2. CASE Alive'
      BY <1>1, <2>1, <2>2 DEF Sole
  <2>3. CASE ~Alive'
    <3>1. UNCHANGED <<ready, inHand, delivered>>
        BY <2>1, <2>3 DEF Next, Alive, IoStep, Run, Cancel, Close, Join, Listen, AcceptFails, Connect,
                          AcceptOk, IoStart, IoDispatch, IoRearm, IoCheck, IoEnqueue, IoCheckThrows,
                          IoReturn, sockets
    <3>2. \A k \in Listeners : Accepted(k, c)' <=> Accepted(k, c)
        BY <3>1 DEF Accepted
    <3> QED BY <2>1, <3>2, OneWay DEF Sole
  <2> QED BY <2>2, <2>3
<1>3. VInv /\ VInv' /\ [Next]_lvars => [Keeps]_lvars
    BY <1>2
<1> QED BY <1>3, VInvAlways, PTL DEF Spec, AcceptedIsKept
================================================================================
