---------------------------------- MODULE Job ----------------------------------
(***************************************************************************)
(* Job_t (job.cc): a list of threads that sleep and work in turns, started *)
(* and stopped by one owner, who alternates start() and stop().            *)
(* boost::thread is outside the repository: interrupt() leaves a request   *)
(* that the thread's next interruption point turns into an exception.      *)
(***************************************************************************)
EXTENDS Naturals, FiniteSets, Functions

CONSTANTS Count,    \* number of workers of the job
          Threads,  \* threads the process can still create (bounds restarts)
          NoThread

ASSUME CountAssumption == Count \in Nat \ {0}
ASSUME ThreadsAssumption == NoThread \notin Threads

VARIABLES
    opc,       \* the owner: "idle", "starting", "interrupting", "joining"
    cur,       \* position of its loop over threads
    slot,      \* Job_t::threads: slot[i] is a thread, or NoThread for null
    failed,    \* a start() has thrown
    pc,        \* the place of each thread
    requested, \* threads with a pending interruption request
    lost,      \* threads whose work() swallowed the interruption
    created,   \* threads whose threadCreate() returned
    destroyed, \* threads whose threadDestroy() was called
    fault      \* "none", or why the process died

owner == <<opc, cur, slot, failed>>
hooks == <<created, destroyed>>
vars == <<owner, pc, requested, lost, hooks, fault>>

PCs == {"unborn", "creating", "sleeping", "working", "destroying", "ended"}

TypeOK == /\ opc \in {"idle", "starting", "interrupting", "joining"}
          /\ cur \in 1 .. Count + 1
          /\ slot \in [1 .. Count -> Threads \cup {NoThread}]
          /\ failed \in BOOLEAN
          /\ pc \in [Threads -> PCs]
          /\ requested \subseteq Threads /\ lost \subseteq Threads
          /\ created \subseteq Threads /\ destroyed \subseteq Threads
          /\ fault \in {"none", "nullThread", "terminated"}

Unborn == {t \in Threads : pc[t] = "unborn"}

Init == /\ opc = "idle" /\ cur = 1
        /\ slot = [i \in 1 .. Count |-> NoThread]
        /\ failed = FALSE
        /\ pc = [t \in Threads |-> "unborn"]
        /\ requested = {} /\ lost = {} /\ created = {} /\ destroyed = {}
        /\ fault = "none"

OwnerAt(place) == fault = "none" /\ opc = place
Goto(t, from, to) == fault = "none" /\ pc[t] = from /\ pc' = [pc EXCEPT ![t] = to]

-----------------------------------------------------------------------------
(* The owner, who calls stop() after every start(), even one that threw.   *)

Active == failed \/ slot # [i \in 1 .. Count |-> NoThread]

Start == /\ OwnerAt("idle") /\ ~Active
         /\ Cardinality(Unborn) >= Count
         /\ opc' = "starting" /\ cur' = 1
         /\ UNCHANGED <<slot, failed, pc, requested, lost, hooks, fault>>

\* One turn of the loop of start(); the thread runs at once.
StartOne == /\ OwnerAt("starting") /\ cur <= Count
            /\ \E t \in Unborn : /\ pc' = [pc EXCEPT ![t] = "creating"]
                                 /\ slot' = [slot EXCEPT ![cur] = t]
            /\ cur' = cur + 1
            /\ UNCHANGED <<opc, failed, requested, lost, hooks, fault>>

\* boost::thread finds no resources: start() throws to its caller and leaves
\* the threads it has started running.
StartFails == /\ OwnerAt("starting") /\ cur <= Count
              /\ failed' = TRUE /\ opc' = "idle"
              /\ UNCHANGED <<cur, slot, pc, requested, lost, hooks, fault>>

Started == /\ OwnerAt("starting") /\ cur = Count + 1
           /\ opc' = "idle"
           /\ UNCHANGED <<cur, slot, failed, pc, requested, lost, hooks, fault>>

Stop == /\ OwnerAt("idle")
        /\ Active
        /\ opc' = "interrupting" /\ cur' = 1
        /\ UNCHANGED <<slot, failed, pc, requested, lost, hooks, fault>>

\* Interrupt() dereferences the pointer of the list whatever it is.
Interrupt ==
    /\ OwnerAt("interrupting") /\ cur <= Count
    /\ IF slot[cur] = NoThread
       THEN fault' = "nullThread" /\ UNCHANGED <<opc, requested>>
       ELSE /\ opc' = "joining"
            /\ requested' = requested \cup {t \in {slot[cur]} : pc[t] # "ended"}
            /\ UNCHANGED fault
    /\ UNCHANGED <<cur, slot, failed, pc, lost, hooks>>

\* Mutation: the thread is interrupted and let go, not joined.
JoinNot == /\ OwnerAt("joining")
           /\ slot' = [slot EXCEPT ![cur] = NoThread]
           /\ opc' = "interrupting" /\ cur' = cur + 1
           /\ UNCHANGED <<failed, pc, requested, lost, hooks, fault>>

\* join() returns when the thread has ended; the pointer is reset.
Join == /\ OwnerAt("joining")
        /\ pc[slot[cur]] = "ended"
        /\ slot' = [slot EXCEPT ![cur] = NoThread]
        /\ opc' = "interrupting" /\ cur' = cur + 1
        /\ UNCHANGED <<failed, pc, requested, lost, hooks, fault>>

Stopped == /\ OwnerAt("interrupting") /\ cur = Count + 1
           /\ opc' = "idle"
           /\ UNCHANGED <<cur, slot, failed, pc, requested, lost, hooks, fault>>

-----------------------------------------------------------------------------
(* A thread: worker().                                                     *)

ThreadCreate(t) == /\ Goto(t, "creating", "sleeping")
                   /\ created' = created \cup {t}
                   /\ UNCHANGED <<owner, requested, lost, destroyed, fault>>

\* threadCreate() is outside the loop's try: an interruption point in it ends
\* the thread (boost swallows it there), any other exception the process.
ThreadCreateInterrupted(t) ==
    /\ t \in requested
    /\ Goto(t, "creating", "ended")
    /\ requested' = requested \ {t}
    /\ UNCHANGED <<owner, lost, hooks, fault>>

HookThrows(t) == /\ fault = "none" /\ pc[t] \in {"creating", "destroying"}
                 /\ fault' = "terminated"
                 /\ UNCHANGED <<owner, pc, requested, lost, hooks>>

\* sleep() is an interruption point.
Wake(t) == /\ t \notin requested
           /\ Goto(t, "sleeping", "working")
           /\ UNCHANGED <<owner, requested, lost, hooks, fault>>

\* Mutation: catch (...) takes thread_interrupted too, and the loop goes on.
InterruptedGoesOn(t) ==
    /\ t \in requested
    /\ Goto(t, "sleeping", "sleeping") \/ Goto(t, "working", "sleeping")
    /\ requested' = requested \ {t}
    /\ UNCHANGED <<owner, lost, hooks, fault>>

\* Mutation: thread_interrupted leaves worker() instead of its loop.
InterruptedLeaves(t) ==
    /\ t \in requested
    /\ Goto(t, "sleeping", "ended") \/ Goto(t, "working", "ended")
    /\ requested' = requested \ {t}
    /\ UNCHANGED <<owner, lost, hooks, fault>>

\* sleep(), or an interruption point of work(), finds a request: break.
Interrupted(t) ==
    /\ t \in requested
    /\ Goto(t, "sleeping", "destroying") \/ Goto(t, "working", "destroying")
    /\ requested' = requested \ {t}
    /\ UNCHANGED <<owner, lost, hooks, fault>>

\* Mutation: an exception of work() ends the loop.
WorkEndsAll(t) == /\ Goto(t, "working", "sleeping") \/ Goto(t, "working", "destroying")
                  /\ UNCHANGED <<owner, requested, lost, hooks, fault>>

\* work() returns, or throws what the loop logs.
WorkEnds(t) == /\ Goto(t, "working", "sleeping")
               /\ UNCHANGED <<owner, requested, lost, hooks, fault>>

\* work() meets the interruption at a point of its own and catches it.
WorkSwallows(t) == /\ t \in requested
                   /\ Goto(t, "working", "sleeping")
                   /\ requested' = requested \ {t}
                   /\ lost' = lost \cup {t}
                   /\ UNCHANGED <<owner, hooks, fault>>

ThreadDestroy(t) == /\ Goto(t, "destroying", "ended")
                    /\ destroyed' = destroyed \cup {t}
                    /\ requested' = requested \ {t}
                    /\ UNCHANGED <<owner, lost, created, fault>>

-----------------------------------------------------------------------------
StopStep == Interrupt \/ Join \/ Stopped
OwnerStep == Start \/ StartOne \/ StartFails \/ Started \/ Stop \/ StopStep
Worker(t) == \/ ThreadCreate(t) \/ ThreadCreateInterrupted(t) \/ HookThrows(t)
             \/ Wake(t) \/ Interrupted(t) \/ WorkEnds(t) \/ WorkSwallows(t)
             \/ ThreadDestroy(t)

Next == OwnerStep \/ \E t \in Threads : Worker(t)

Spec == Init /\ [][Next]_vars

\* Threads are scheduled, sleep() and work() end; a call of start() or stop()
\* goes on once made, but nobody has to call.
FairSpec == /\ Spec
            /\ WF_vars(StartOne \/ StartFails \/ Started) /\ WF_vars(StopStep)
            /\ \A t \in Threads : WF_vars(Worker(t))

-----------------------------------------------------------------------------
(* Properties.                                                             *)

\* When stop() has returned, no thread of the job runs or will run: work() is
\* never called on a job its owner has stopped, nor on one whose start() threw
\* after stop (Job_t::stop joins each thread before it drops the pointer).
StoppedIsQuiet ==
    \A t \in Threads : pc[t] \notin {"unborn", "ended"} => t \in Range(slot)

\* Whoever ran threadCreate() to its end runs threadDestroy() before it ends,
\* and nobody else does, however the interruption met it (worker()).
HooksArePaired ==
    \A t \in Threads : /\ t \in destroyed => t \in created
                       /\ pc[t] = "ended" => (t \in created => t \in destroyed)

\* The loop of stop() has interrupted the thread in place i.
Reached(i) == \/ opc = "interrupting" /\ i < cur
              \/ opc = "joining" /\ i <= cur

\* Only stop() ends a worker: until the owner has come to its place in the
\* loop of stop(), a thread stays in its own loop whatever work() throws.
OnlyStopEndsWorkers ==
    \A i \in 1 .. Count :
        slot[i] # NoThread /\ ~Reached(i)
            => pc[slot[i]] \in {"creating", "sleeping", "working"}

\* stop() returns, and meets a null pointer only if start() has thrown half-way;
\* unless work() has swallowed an interruption, which is not sent again, or a
\* hook that throws has ended the process (Job_t::stop).
StopReturns ==
    opc \in {"interrupting", "joining"}
        ~> opc = "idle" \/ failed \/ lost # {} \/ fault = "terminated"
=============================================================================
