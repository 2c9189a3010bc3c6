------------------------------- MODULE JobProofs -------------------------------
(***************************************************************************)
(* What stopping a job achieves, for every number of workers and restarts. *)
(* The list of threads and the loops over it are the core (List): a thread *)
(* is in the list from its creation to its join, at one position, and only *)
(* a thread the loop of stop() has reached can have been interrupted.      *)
(***************************************************************************)
EXTENDS Job, Integers, TLAPS

Live(t) == pc[t] \in {"creating", "sleeping", "working", "destroying"}

\* The list, and how far the loops of start() and stop() have come in it.
List ==
    /\ \A i, j \in 1 .. Count : slot[i] = slot[j] /\ slot[i] # NoThread => i = j
    /\ \A i \in 1 .. Count : slot[i] # NoThread => pc[slot[i]] # "unborn"
    /\ \A t \in Threads : Live(t) => \E i \in 1 .. Count : slot[i] = t
    /\ opc = "starting" => \A i \in cur .. Count : slot[i] = NoThread
    /\ opc = "joining" => cur \in 1 .. Count /\ slot[cur] # NoThread
    /\ opc \in {"interrupting", "joining"} => \A i \in 1 .. cur - 1 : slot[i] = NoThread

\* An interruption is only sent to a live thread that stop() has reached.
Requests ==
    /\ \A t \in requested : Live(t)
    /\ \A i \in 1 .. Count : slot[i] # NoThread /\ slot[i] \in requested => Reached(i)

\* How far a thread is with its hooks.
Hooked(p, c, d) ==
    /\ p \in {"unborn", "creating"} => ~c
    /\ p \in {"sleeping", "working", "destroying"} => c
    /\ p # "ended" => ~d
    /\ p = "ended" => (c <=> d)

Hooks == \A t \in Threads : Hooked(pc[t], t \in created, t \in destroyed)

JInv == TypeOK /\ List /\ Requests /\ Hooks /\ OnlyStopEndsWorkers

-----------------------------------------------------------------------------
LEMMA InitJInv == Init => JInv
<1> SUFFICES ASSUME Init PROVE JInv
    OBVIOUS
<1>1. TypeOK
  <2>1. cur \in 1 .. Count + 1
      BY CountAssumption DEF Init
  <2> QED BY <2>1 DEF Init, TypeOK, PCs
<1>2. List
    BY DEF Init, List, Live
<1>3. Requests /\ Hooks
    BY DEF Init, Requests, Hooks, Hooked
<1>4. OnlyStopEndsWorkers
    BY DEF Init, OnlyStopEndsWorkers
<1> QED BY <1>1, <1>2, <1>3, <1>4 DEF JInv

\* A step of the owner that only moves it, between places from which stop()
\* has reached the same threads.
LEMMA OwnerMoves ==
    ASSUME JInv, UNCHANGED <<slot, pc, requested, hooks>>, TypeOK',
           opc' = "starting" => \A i \in cur' .. Count : slot[i] = NoThread,
           opc' # "joining",
           opc' = "interrupting" => \A i \in 1 .. cur' - 1 : slot[i] = NoThread,
           \A i \in 1 .. Count : slot[i] # NoThread /\ Reached(i) => Reached(i)'
    PROVE  JInv'
<1>1. List'
    BY DEF JInv, List, Live
<1>2. Requests' /\ Hooks'
    BY DEF JInv, Requests, Hooks, Hooked, Live, hooks
<1>3. OnlyStopEndsWorkers'
    BY DEF JInv, OnlyStopEndsWorkers
<1> QED BY <1>1, <1>2, <1>3 DEF JInv

LEMMA OwnerJInv == JInv /\ OwnerStep => JInv'
<1> SUFFICES ASSUME JInv, OwnerStep PROVE JInv'
    OBVIOUS
<1> USE CountAssumption, ThreadsAssumption DEF OwnerAt
<1>1. CASE Start
  <2>1. TypeOK'
      BY <1>1 DEF Start, JInv, TypeOK, hooks
  <2>2. \A i \in 1 .. Count : slot[i] = NoThread
      BY <1>1 DEF Start, Active
  <2> QED BY <1>1, <2>1, <2>2, OwnerMoves DEF Start
<1>2. CASE StartOne
  <2>1. PICK t \in Unborn : /\ pc' = [pc EXCEPT ![t] = "creating"]
                            /\ slot' = [slot EXCEPT ![cur] = t]
      BY <1>2 DEF StartOne
  <2>2. /\ opc = "starting" /\ opc' = "starting" /\ cur' = cur + 1 /\ cur \in 1 .. Count
        /\ UNCHANGED <<failed, requested, lost, hooks, fault>>
      BY <1>2 DEF StartOne, JInv, TypeOK
  <2>3. t \in Threads /\ pc[t] = "unborn" /\ t # NoThread /\ slot[cur] = NoThread
      BY <2>1, <2>2 DEF Unborn, JInv, List
  <2>4. TypeOK'
      BY <2>1, <2>2, <2>3 DEF JInv, TypeOK, PCs, hooks
  <2>5. /\ slot'[cur] = t /\ \A i \in 1 .. Count : i # cur => slot'[i] = slot[i]
        /\ pc'[t] = "creating" /\ \A u \in Threads : u # t => pc'[u] = pc[u]
        /\ \A i \in 1 .. Count : slot[i] # t
      BY <2>1, <2>2, <2>3 DEF JInv, TypeOK, List
  <2>6. List'
      BY <2>2, <2>3, <2>5 DEF JInv, TypeOK, List, Live
  <2>7. Requests'
      BY <2>2, <2>3, <2>5 DEF JInv, TypeOK, Requests, Live, Reached
  <2>8. Hooks'
      BY <2>2, <2>3, <2>5 DEF JInv, Hooks, Hooked, hooks
  <2>9. OnlyStopEndsWorkers'
      BY <2>2, <2>3, <2>5 DEF JInv, TypeOK, OnlyStopEndsWorkers, Reached
  <2> QED BY <2>4, <2>6, <2>7, <2>8, <2>9 DEF JInv
<1>3. CASE StartFails
  <2>1. TypeOK'
      BY <1>3 DEF StartFails, JInv, TypeOK, hooks
  <2> QED BY <1>3, <2>1, OwnerMoves DEF StartFails, Reached
<1>4. CASE Started
  <2>1. TypeOK'
      BY <1>4 DEF Started, JInv, TypeOK, hooks
  <2> QED BY <1>4, <2>1, OwnerMoves DEF Started, Reached
<1>5. CASE Stop
  <2>1. TypeOK'
      BY <1>5 DEF Stop, JInv, TypeOK, hooks
  <2> QED BY <1>5, <2>1, OwnerMoves DEF Stop, Reached
<1>6. CASE Interrupt /\ slot[cur] = NoThread
  <2>1. UNCHANGED <<opc, cur, slot, failed, pc, requested, lost, hooks>>
      BY <1>6 DEF Interrupt
  <2>2. TypeOK'
      BY <1>6 DEF Interrupt, JInv, TypeOK, hooks
  <2>3. opc = "interrupting"
      BY <1>6 DEF Interrupt
  <2>4. \A i \in 1 .. Count : Reached(i)' = Reached(i)
      BY <2>1 DEF Reached
  <2> QED BY <2>1, <2>2, <2>3, <2>4, OwnerMoves DEF JInv, List
<1>7. CASE Interrupt /\ slot[cur] # NoThread
  <2>1. /\ opc = "interrupting" /\ opc' = "joining" /\ cur \in 1 .. Count
        /\ requested' = requested \cup {t \in {slot[cur]} : pc[t] # "ended"}
        /\ UNCHANGED <<cur, slot, failed, pc, lost, hooks, fault>>
      BY <1>7 DEF Interrupt, JInv, TypeOK
  <2>2. slot[cur] \in Threads
      BY <1>7, <2>1 DEF JInv, TypeOK
  <2>3. TypeOK'
      BY <2>1, <2>2 DEF JInv, TypeOK, hooks
  <2>4. List'
      BY <1>7, <2>1 DEF JInv, List, Live
  <2>5. Requests'
    <3>1. pc[slot[cur]] # "ended" => Live(slot[cur])
        BY <1>7, <2>1, <2>2 DEF JInv, TypeOK, List, Live, PCs
    <3>2. \A i \in 1 .. Count : slot[i] = slot[cur] => i = cur
        BY <1>7, <2>1 DEF JInv, List
    <3>3. \A i \in 1 .. Count : Reached(i) => Reached(i)'
        BY <2>1 DEF Reached, JInv, TypeOK
    <3>4. Reached(cur)'
        BY <2>1 DEF Reached
    <3>5. \A t \in requested' : t \in requested \/ (t = slot[cur] /\ pc[t] # "ended")
        BY <2>1
    <3>6. \A t \in requested' : Live(t)'
        BY <2>1, <3>1, <3>5 DEF JInv, Requests, Live
    <3> QED BY <2>1, <3>2, <3>3, <3>4, <3>5, <3>6 DEF JInv, Requests
  <2>6. Hooks'
      BY <2>1 DEF JInv, Hooks, Hooked, hooks
  <2>7. OnlyStopEndsWorkers'
      BY <2>1 DEF JInv, TypeOK, OnlyStopEndsWorkers, Reached
  <2> QED BY <2>3, <2>4, <2>5, <2>6, <2>7 DEF JInv
<1>8. CASE Join
  <2>1. /\ opc = "joining" /\ opc' = "interrupting" /\ cur' = cur + 1 /\ cur \in 1 .. Count
        /\ pc[slot[cur]] = "ended" /\ slot[cur] \in Threads
        /\ slot' = [slot EXCEPT ![cur] = NoThread]
        /\ UNCHANGED <<failed, pc, requested, lost, hooks, fault>>
      BY <1>8 DEF Join, JInv, TypeOK, List
  <2>2. slot'[cur] = NoThread /\ \A i \in 1 .. Count : i # cur => slot'[i] = slot[i]
      BY <2>1 DEF JInv, TypeOK
  <2>3. TypeOK'
      BY <2>1 DEF JInv, TypeOK, hooks
  <2>4. \A t \in Threads : Live(t) => t # slot[cur]
      BY <2>1 DEF Live
  <2>5. List'
      BY <2>1, <2>2, <2>4 DEF JInv, TypeOK, List, Live
  <2>6. \A i \in 1 .. Count : Reached(i)' <=> Reached(i)
      BY <2>1 DEF Reached, JInv, TypeOK
  <2>7. Requests'
      BY <2>1, <2>2, <2>6 DEF JInv, Requests, Live
  <2>8. Hooks'
      BY <2>1 DEF JInv, Hooks, Hooked, hooks
  <2>9. OnlyStopEndsWorkers'
      BY <2>1, <2>2, <2>6 DEF JInv, OnlyStopEndsWorkers
  <2> QED BY <2>3, <2>5, <2>7, <2>8, <2>9 DEF JInv
<1>9. CASE Stopped
  <2>1. TypeOK'
      BY <1>9 DEF Stopped, JInv, TypeOK, hooks
  <2>2. \A i \in 1 .. Count : slot[i] = NoThread
      BY <1>9 DEF Stopped, JInv, List
  <2> QED BY <1>9, <2>1, <2>2, OwnerMoves DEF Stopped
<1> QED
    BY <1>1, <1>2, <1>3, <1>4, <1>5, <1>6, <1>7, <1>8, <1>9 DEF OwnerStep, StopStep

-----------------------------------------------------------------------------
\* What a step of a thread leaves as it is.
LEMMA ThreadMoves ==
    ASSUME JInv, UNCHANGED owner, NEW t \in Threads, Live(t),
           NEW p \in PCs \ {"unborn"}, pc' = [pc EXCEPT ![t] = p],
           TypeOK',
           requested' \subseteq requested, p = "ended" => t \notin requested',
           \A u \in Threads \ {t} : (u \in created' <=> u \in created)
                                    /\ (u \in destroyed' <=> u \in destroyed),
           Hooked(p, t \in created', t \in destroyed'),
           p \in {"creating", "sleeping", "working"} \/ t \in requested \/ pc[t] = "destroying"
    PROVE  JInv'
<1>1. pc'[t] = p /\ \A u \in Threads : u # t => pc'[u] = pc[u]
    BY DEF JInv, TypeOK
<1>2. UNCHANGED <<opc, cur, slot>>
    BY DEF owner
<1>3. List'
    BY <1>1, <1>2, ThreadsAssumption DEF JInv, TypeOK, List, Live
<1>4. \A i \in 1 .. Count : Reached(i)' <=> Reached(i)
    BY <1>2 DEF Reached
<1>5. Requests'
  <2>1. ASSUME NEW u \in requested' PROVE Live(u)'
    <3>1. u \in Threads /\ Live(u)
        BY <2>1 DEF JInv, TypeOK, Requests
    <3>2. CASE u = t
        BY <1>1, <2>1, <3>2 DEF Live, PCs
    <3>3. CASE u # t
        BY <1>1, <3>1, <3>3 DEF Live
    <3> QED BY <3>2, <3>3
  <2> QED BY <1>2, <1>4, <2>1 DEF JInv, Requests
<1>6. Hooks'
    BY <1>1 DEF JInv, Hooks, Hooked
<1>7. OnlyStopEndsWorkers'
  <2> SUFFICES ASSUME NEW i \in 1 .. Count, slot[i] # NoThread, ~Reached(i)
               PROVE  pc'[slot[i]] \in {"creating", "sleeping", "working"}
      BY <1>2, <1>4 DEF OnlyStopEndsWorkers
  <2>1. slot[i] \in Threads /\ pc[slot[i]] \in {"creating", "sleeping", "working"} /\ slot[i] \notin requested
      BY DEF JInv, TypeOK, OnlyStopEndsWorkers, Requests
  <2> QED BY <1>1, <2>1
<1> QED BY <1>3, <1>5, <1>6, <1>7 DEF JInv

LEMMA WorkerJInv == ASSUME JInv, NEW t \in Threads, Worker(t) PROVE JInv'
<1> USE DEF Goto, hooks, PCs, Live
<1>1. Hooked(pc[t], t \in created, t \in destroyed)
    BY DEF JInv, Hooks
<1>2. CASE ThreadCreate(t)
  <2>1. TypeOK'
      BY <1>2 DEF ThreadCreate, JInv, TypeOK, owner
  <2> QED BY <1>1, <1>2, <2>1, ThreadMoves DEF ThreadCreate, Hooked
<1>3. CASE ThreadCreateInterrupted(t)
  <2>1. TypeOK'
      BY <1>3 DEF ThreadCreateInterrupted, JInv, TypeOK, owner
  <2> QED BY <1>1, <1>3, <2>1, ThreadMoves DEF ThreadCreateInterrupted, Hooked
<1>4. CASE HookThrows(t)
  <2>1. UNCHANGED <<opc, cur, slot, failed, pc, requested, lost, created, destroyed>>
      BY <1>4 DEF HookThrows, owner
  <2>2. TypeOK'
      BY <1>4 DEF HookThrows, JInv, TypeOK, owner
  <2>3. List' /\ Requests' /\ Hooks' /\ OnlyStopEndsWorkers'
      BY <2>1 DEF JInv, List, Requests, Hooks, Hooked, OnlyStopEndsWorkers, Reached
  <2> QED BY <2>2, <2>3 DEF JInv
<1>5. CASE Wake(t)
  <2>1. TypeOK'
      BY <1>5 DEF Wake, JInv, TypeOK, owner
  <2> QED BY <1>1, <1>5, <2>1, ThreadMoves DEF Wake, Hooked
<1>6. CASE Interrupted(t)
  <2>1. TypeOK'
      BY <1>6 DEF Interrupted, JInv, TypeOK, owner
  <2> QED BY <1>1, <1>6, <2>1, ThreadMoves DEF Interrupted, Hooked
<1>7. CASE WorkEnds(t)
  <2>1. TypeOK'
      BY <1>7 DEF WorkEnds, JInv, TypeOK, owner
  <2> QED BY <1>1, <1>7, <2>1, ThreadMoves DEF WorkEnds, Hooked
<1>8. CASE WorkSwallows(t)
  <2>1. TypeOK'
      BY <1>8 DEF WorkSwallows, JInv, TypeOK, owner
  <2> QED BY <1>1, <1>8, <2>1, ThreadMoves DEF WorkSwallows, Hooked
<1>9. CASE ThreadDestroy(t)
  <2>1. TypeOK'
      BY <1>9 DEF ThreadDestroy, JInv, TypeOK, owner
  <2> QED BY <1>1, <1>9, <2>1, ThreadMoves DEF ThreadDestroy, Hooked
<1> QED BY <1>2, <1>3, <1>4, <1>5, <1>6, <1>7, <1>8, <1>9 DEF Worker

LEMMA NextJInv == JInv /\ [Next]_vars => JInv'
<1> SUFFICES ASSUME JInv, [Next]_vars PROVE JInv'
    OBVIOUS
<1>1. CASE OwnerStep
    BY <1>1, OwnerJInv
<1>2. ASSUME NEW t \in Threads, Worker(t) PROVE JInv'
    BY <1>2, WorkerJInv
<1>3. CASE UNCHANGED vars
    BY <1>3 DEF vars, owner, hooks, JInv, TypeOK, List, Requests, Hooks, Hooked,
                OnlyStopEndsWorkers, Reached, Live
<1> QED BY <1>1, <1>2, <1>3 DEF Next

LEMMA JInvAlways == Spec => []JInv
BY InitJInv, NextJInv, PTL DEF Spec

-----------------------------------------------------------------------------
\* The owner, the list and the threads of a job keep their types.
THEOREM JobTypeOK == Spec => []TypeOK
<1>1. JInv => TypeOK
    BY DEF JInv
<1> QED BY <1>1, JInvAlways, PTL

\* A thread that may still call work() is in the list of its job: none is left
\* when stop() has returned, nor forgotten by a start() that threw.
THEOREM StoppedIsQuietAlways == Spec => []StoppedIsQuiet
<1>1. ASSUME JInv, NEW t \in Threads, pc[t] \notin {"unborn", "ended"} PROVE t \in Range(slot)
  <2>1. PICK i \in 1 .. Count : slot[i] = t
      BY <1>1 DEF JInv, TypeOK, List, Live, PCs
  <2> QED BY <1>1, <2>1 DEF Range, JInv, TypeOK
<1>2. JInv => StoppedIsQuiet
    BY <1>1 DEF StoppedIsQuiet
<1> QED BY <1>2, JInvAlways, PTL

\* A thread that ran threadCreate() to its end runs threadDestroy() before it
\* ends, and no other does.
THEOREM HooksArePairedAlways == Spec => []HooksArePaired
<1>1. ASSUME JInv, NEW t \in Threads
      PROVE  /\ t \in destroyed => t \in created
             /\ pc[t] = "ended" => (t \in created => t \in destroyed)
  <2>1. Hooked(pc[t], t \in created, t \in destroyed)
      BY <1>1 DEF JInv, Hooks
  <2> QED BY <2>1 DEF Hooked
<1>2. JInv => HooksArePaired
    BY <1>1 DEF HooksArePaired
<1> QED BY <1>2, JInvAlways, PTL

\* Whatever work() throws, a thread leaves its loop only when stop() has come to
\* its place in the list.
THEOREM OnlyStopEndsWorkersAlways == Spec => []OnlyStopEndsWorkers
<1>1. JInv => OnlyStopEndsWorkers
    BY DEF JInv
<1> QED BY <1>1, JInvAlways, PTL
================================================================================
