---------------------------- MODULE ServiceProofs ----------------------------
(***************************************************************************)
(* The guard alone, and the service it keeps up, for every number of       *)
(* crashes and of signals and for every configuration.                     *)
(*                                                                         *)
(* The properties of Guard are not inductive as they stand: that at most   *)
(* one server lives follows from where the guard is (before a fork nothing *)
(* lives, after it only the last server may), which is Custody below.      *)
(*                                                                         *)
(* Of the service, what a process has built and opened is followed at      *)
(* every place of the constructor and of the destructor.  The libraries    *)
(* are counted: a library is open as often as handlers were read that have *)
(* it and objects exist whose module is in it (Counted).  The rest says    *)
(* how the containers follow the registered names, and what detach()       *)
(* leaves to the guard (Detached).                                         *)
(*                                                                         *)
(* The last section is about the address lists a process reads when it     *)
(* starts, for addresses of any width and lists of any length.             *)
(***************************************************************************)
EXTENDS Service, AccessControl, FiniteSetTheorems, WellFoundedInduction, TLAPS

-----------------------------------------------------------------------------
(* The guard.                                                              *)

Gone(p) == server[p] \in {"none", "reaped"}

\* Where the guard is says which servers there are.
Custody ==
    /\ \A p \in Pids : p > forks => server[p] = "none"
    /\ gpc = "pidfile" => forks = 0
    /\ gpc \in {"pidfile", "fork", "leaving", "exited"} => \A p \in Pids : Gone(p)
    /\ gpc \in {"forked", "wait"} =>
          /\ forks \in Pids
          /\ server[forks] \in Live \cup {"zombie"}
          /\ \A p \in Pids \ {forks} : Gone(p)
    /\ gpc = "wait" => childPid = forks

GInv == TypeOK /\ Custody

\* Without faults and shutdown requests nothing ever tells a server to end,
\* and the only way for one to die is a SIGHUP it could not handle yet.
Quiet ==
    faults = 0 /\ terms = 0 =>
        /\ gpc \notin {"leaving", "exited"}
        /\ ~told
        /\ \A p \in Pids \cup {0} : "TERM" \notin pending[p]
        /\ \A p \in Pids : /\ runFlag[p]
                           /\ server[p] # "stopping"
                           /\ server[p] = "zombie" => status[p] = "HUP"

\* The windows in which childPid may be the number of a server that was reaped:
\* the guard's after wait(), to the next childPid = pid or to its exit, and a
\* child's before childPid = 0.
BetweenServers == \/ gpc \in {"fork", "forked", "leaving"}
                  \/ \E p \in Pids : server[p] = "forked"

-----------------------------------------------------------------------------
LEMMA MaxForksNat == MaxForks \in Nat /\ MaxForks >= 1
BY BoundsAssumption DEF MaxForks

LEMMA InitGInv == Init => GInv
<1> SUFFICES ASSUME Init PROVE GInv
    OBVIOUS
<1> USE MaxForksNat, BoundsAssumption DEF Init
<1>1. forks \in 0 .. MaxForks /\ childPid \in 0 .. MaxForks /\ copy \in [Pids -> 0 .. MaxForks]
    OBVIOUS
<1>2. server \in [Pids -> ServerStates] /\ status \in [Pids -> Statuses]
    BY DEF ServerStates, Live, Statuses
<1>3. runFlag \in [Pids -> BOOLEAN] /\ pending \in [Pids \cup {0} -> SUBSET Signals]
    OBVIOUS
<1>4. faults \in 0 .. MaxFaults /\ hups \in 0 .. MaxHups /\ terms \in 0 .. MaxTerms
    OBVIOUS
<1>5. TypeOK
    BY <1>1, <1>2, <1>3, <1>4 DEF TypeOK
<1>6. Custody
    BY DEF Custody, Gone
<1> QED BY <1>5, <1>6 DEF GInv

\* What a signal handler changes, in the guard or in a server.
LEMMA ForwardTypes ==
    ASSUME TypeOK, NEW me \in Pids \cup {0}, NEW target \in 0 .. MaxForks, NEW sig \in Signals,
           Forward(me, target, sig)
    PROVE  pending' \in [Pids \cup {0} -> SUBSET Signals] /\ strays' \subseteq Pids
<1>1. target # 0 => target \in Pids
    BY MaxForksNat DEF Pids
<1>2. pending' \in [Pids \cup {0} -> SUBSET Signals]
  <2>1. CASE target # 0 /\ IsLive(target)
    <3>1. pending' = [pending EXCEPT ![me] = @ \ {sig}, ![target] = @ \cup {sig}]
        BY <2>1 DEF Forward
    <3> QED BY <1>1, <2>1, <3>1 DEF TypeOK
  <2>2. CASE ~(target # 0 /\ IsLive(target))
    <3>1. pending' = [pending EXCEPT ![me] = @ \ {sig}]
        BY <2>2 DEF Forward
    <3> QED BY <3>1 DEF TypeOK
  <2> QED BY <2>1, <2>2
<1>3. strays' \subseteq Pids
    BY <1>1 DEF Forward, TypeOK
<1> QED BY <1>2, <1>3

\* A step of a server, or of a handler that runs in it, leaves Custody alone.
LEMMA NextGInv == GInv /\ [Next]_vars => GInv'
<1> SUFFICES ASSUME GInv, [Next]_vars PROVE GInv'
    OBVIOUS
<1> USE MaxForksNat, BoundsAssumption
<1> USE DEF GInv, TypeOK, Custody, Gone, Pids, ServerStates, Live, Statuses, used
<1>1. CASE WritePidfile
    BY <1>1 DEF WritePidfile
<1>2. CASE Fork
    BY <1>2 DEF Fork
<1>3. CASE ForkFails
    BY <1>3 DEF ForkFails
<1>4. CASE StoreChildPid
    BY <1>4 DEF StoreChildPid
<1>5. ASSUME NEW p \in Pids, Wait(p) PROVE GInv'
    BY <1>5 DEF Wait
<1>6. ASSUME NEW p \in Pids, ServerStep(p) PROVE GInv'
  <2>1. CASE ClearChildPid(p)
    BY <2>1 DEF ClearChildPid
  <2>2. CASE Exec(p)
    BY <2>2 DEF Exec, Becomes
  <2>3. CASE InstallHandlers(p)
    BY <2>3 DEF InstallHandlers, Becomes
  <2>4. CASE StartServing(p)
    BY <2>4 DEF StartServing, Becomes
  <2>5. CASE LeavePoll(p)
    BY <2>5 DEF LeavePoll, Becomes
  <2>6. CASE Finish(p)
    BY <2>6 DEF Finish, Ends, Becomes
  <2> QED BY <1>6, <2>1, <2>2, <2>3, <2>4, <2>5, <2>6 DEF ServerStep
<1>7. ASSUME NEW p \in Pids, StartFails(p) PROVE GInv'
    BY <1>7 DEF StartFails, Ends, Becomes
<1>8. ASSUME NEW p \in Pids, Dies(p) PROVE GInv'
    BY <1>8 DEF Dies, Ends, Becomes, IsLive
<1>9. ASSUME NEW sig \in Signals, Send(sig) PROVE GInv'
    BY <1>9 DEF Send
<1>10. ASSUME NEW sig \in Signals, GuardTakes(sig) PROVE GInv'
  <2>1. pending' \in [Pids \cup {0} -> SUBSET Signals] /\ strays' \subseteq Pids
    <3>1. Forward(0, childPid, sig) /\ childPid \in 0 .. MaxForks /\ 0 \in Pids \cup {0} /\ TypeOK
        BY <1>10 DEF GuardTakes
    <3> HIDE DEF TypeOK, GInv, Pids
    <3> QED BY <3>1, ForwardTypes
  <2> QED BY <1>10, <2>1 DEF GuardTakes
<1>11. ASSUME NEW sig \in Signals, NEW p \in Pids, ServerTakes(p, sig) PROVE GInv'
  <2> DEFINE target == IF server[p] = "forked" THEN copy[p] ELSE 0
  <2>1. pending' \in [Pids \cup {0} -> SUBSET Signals] /\ strays' \subseteq Pids
    <3>1. Forward(p, target, sig) /\ target \in 0 .. MaxForks /\ p \in Pids \cup {0} /\ TypeOK
        BY <1>11 DEF ServerTakes
    <3> HIDE DEF TypeOK, GInv, Pids, target
    <3> QED BY <3>1, ForwardTypes
  <2> QED BY <1>11, <2>1 DEF ServerTakes
<1>12. ASSUME NEW sig \in Signals, NEW p \in Pids, ImageTakes(p, sig) PROVE GInv'
    BY <1>12 DEF ImageTakes, Ends, Becomes, Signals
<1>13. CASE GuardExits
    BY <1>13 DEF GuardExits
<1>14. CASE UNCHANGED vars
    BY <1>14 DEF vars
<1> QED
    BY <1>1, <1>2, <1>3, <1>4, <1>5, <1>6, <1>7, <1>8, <1>9, <1>10, <1>11, <1>12, <1>13, <1>14
    DEF Next, GuardStep, Taken

LEMMA GuardInvariant == Spec => []GInv
BY InitGInv, NextGInv, PTL DEF Spec

LEMMA InitQuiet == Init => Quiet
BY DEF Init, Quiet

\* A handler passes on the signal it takes and no other.
LEMMA ForwardQuiet ==
    ASSUME TypeOK, NEW me \in Pids \cup {0}, NEW target \in 0 .. MaxForks, NEW sig \in pending[me],
           Forward(me, target, sig),
           \A p \in Pids \cup {0} : "TERM" \notin pending[p]
    PROVE  sig # "TERM" /\ \A p \in Pids \cup {0} : "TERM" \notin pending'[p]
<1>1. sig # "TERM"
    OBVIOUS
<1>2. CASE target # 0 /\ IsLive(target)
  <2>1. pending' = [pending EXCEPT ![me] = @ \ {sig}, ![target] = @ \cup {sig}]
    BY <1>2 DEF Forward
  <2> QED BY <1>1, <2>1 DEF TypeOK
<1>3. CASE ~(target # 0 /\ IsLive(target))
  <2>1. pending' = [pending EXCEPT ![me] = @ \ {sig}]
    BY <1>3 DEF Forward
  <2> QED BY <1>1, <2>1 DEF TypeOK
<1> QED BY <1>1, <1>2, <1>3

LEMMA NextQuiet == GInv /\ Quiet /\ [Next]_vars => Quiet'
<1> SUFFICES ASSUME GInv, Quiet, [Next]_vars, faults' = 0, terms' = 0 PROVE Quiet'
    BY DEF Quiet
<1> USE MaxForksNat, BoundsAssumption
<1>0. TypeOK /\ Custody
    BY DEF GInv
<1> USE DEF Quiet, TypeOK, used
<1>1. CASE WritePidfile
    BY <1>0, <1>1 DEF WritePidfile
<1>2. CASE Fork
    BY <1>0, <1>2 DEF Fork
<1>3. CASE ForkFails
    BY <1>0, <1>3 DEF ForkFails
<1>4. CASE StoreChildPid
    BY <1>0, <1>4 DEF StoreChildPid
<1>5. ASSUME NEW p \in Pids, Wait(p) PROVE Quiet'
  <2>1. faults = 0 /\ terms = 0 /\ server[p] = "zombie"
    BY <1>5 DEF Wait
  <2>2. status[p] = "HUP"
    BY <2>1
  <2>3. /\ gpc' = "fork" /\ server' = [server EXCEPT ![p] = "reaped"]
        /\ UNCHANGED <<status, runFlag, pending, told>>
    BY <1>5, <2>2 DEF Wait, Restarts
  <2> QED BY <1>0, <2>1, <2>3
<1>6. ASSUME NEW p \in Pids, ServerStep(p) PROVE Quiet'
  <2>1. CASE ClearChildPid(p)
    BY <1>0, <2>1 DEF ClearChildPid
  <2>2. CASE Exec(p)
    BY <1>0, <2>2 DEF Exec, Becomes
  <2>3. CASE InstallHandlers(p)
    BY <1>0, <2>3 DEF InstallHandlers, Becomes
  <2>4. CASE StartServing(p)
    BY <1>0, <2>4 DEF StartServing, Becomes
  <2>5. CASE LeavePoll(p)
    BY <1>0, <2>5 DEF LeavePoll, Becomes
  <2>6. CASE Finish(p)
    <3>1. faults = 0 /\ terms = 0 /\ server[p] = "stopping"
        BY <2>6 DEF Finish
    <3> QED BY <3>1
  <2> QED BY <1>6, <2>1, <2>2, <2>3, <2>4, <2>5, <2>6 DEF ServerStep
<1>7. ASSUME NEW p \in Pids, StartFails(p) PROVE Quiet'
    BY <1>0, <1>7 DEF StartFails
<1>8. ASSUME NEW p \in Pids, Dies(p) PROVE Quiet'
    BY <1>0, <1>8 DEF Dies
<1>9. ASSUME NEW sig \in Signals, Send(sig) PROVE Quiet'
    BY <1>0, <1>9 DEF Send
<1>10. ASSUME NEW sig \in Signals, GuardTakes(sig) PROVE Quiet'
  <2>1. faults = 0 /\ terms = 0
    BY <1>10 DEF GuardTakes
  <2>2. sig # "TERM" /\ \A p \in Pids \cup {0} : "TERM" \notin pending'[p]
    <3>1. /\ Forward(0, childPid, sig) /\ childPid \in 0 .. MaxForks /\ sig \in pending[0]
          /\ \A p \in Pids \cup {0} : "TERM" \notin pending[p]
        BY <1>0, <1>10, <2>1 DEF GuardTakes
    <3> HIDE DEF TypeOK, Quiet
    <3> QED BY <1>0, <3>1, ForwardQuiet
  <2> QED BY <1>0, <1>10, <2>1, <2>2 DEF GuardTakes
<1>11. ASSUME NEW sig \in Signals, NEW p \in Pids, ServerTakes(p, sig) PROVE Quiet'
  <2> DEFINE target == IF server[p] = "forked" THEN copy[p] ELSE 0
  <2>1. faults = 0 /\ terms = 0
    BY <1>11 DEF ServerTakes
  <2>2. sig # "TERM" /\ \A q \in Pids \cup {0} : "TERM" \notin pending'[q]
    <3>1. /\ Forward(p, target, sig) /\ target \in 0 .. MaxForks /\ sig \in pending[p]
          /\ \A q \in Pids \cup {0} : "TERM" \notin pending[q]
        BY <1>0, <1>11, <2>1 DEF ServerTakes
    <3> HIDE DEF TypeOK, Quiet, target
    <3> QED BY <1>0, <3>1, ForwardQuiet
  <2> QED BY <1>0, <1>11, <2>1, <2>2 DEF ServerTakes
<1>12. ASSUME NEW sig \in Signals, NEW p \in Pids, ImageTakes(p, sig) PROVE Quiet'
    BY <1>0, <1>12 DEF ImageTakes, Ends, Becomes, Signals
<1>13. CASE GuardExits
    BY <1>0, <1>13 DEF GuardExits
<1>14. CASE UNCHANGED vars
    BY <1>14 DEF vars
<1> QED
    BY <1>1, <1>2, <1>3, <1>4, <1>5, <1>6, <1>7, <1>8, <1>9, <1>10, <1>11, <1>12, <1>13, <1>14
    DEF Next, GuardStep, Taken

LEMMA GInvOneServer == GInv => OneServer
<1> SUFFICES ASSUME GInv, NEW p \in Pids, NEW q \in Pids, IsLive(p), IsLive(q)
             PROVE  p = q
    BY DEF OneServer
<1>1. ~Gone(p) /\ ~Gone(q)
    BY DEF Gone, IsLive, Live
<1>2. gpc \in {"forked", "wait"}
    BY <1>1 DEF GInv, TypeOK, Custody
<1>3. p = forks /\ q = forks
    BY <1>1, <1>2 DEF GInv, Custody
<1> QED BY <1>3

\* A handler signals a reaped pid in those windows only.
LEMMA NextStrays == GInv /\ [Next]_vars => [strays' # strays => BetweenServers]_vars
<1> SUFFICES ASSUME GInv, Next, strays' # strays PROVE BetweenServers
    BY DEF vars
<1> USE MaxForksNat DEF used, BetweenServers
<1>1. ASSUME NEW sig \in Signals, GuardTakes(sig) PROVE BetweenServers
  <2>1. childPid # 0 /\ server[childPid] = "reaped" /\ gpc # "exited"
      BY <1>1 DEF GuardTakes, Forward
  <2>2. childPid \in Pids
      BY <2>1 DEF GInv, TypeOK, Pids
  <2>3. gpc # "wait" /\ gpc # "pidfile"
      BY <2>1, <2>2 DEF GInv, TypeOK, Custody, Pids, Live
  <2> QED BY <2>1, <2>3 DEF GInv, TypeOK
<1>2. ASSUME NEW sig \in Signals, NEW p \in Pids, ServerTakes(p, sig) PROVE BetweenServers
    BY <1>2 DEF ServerTakes, Forward
<1>3. CASE GuardStep
    BY <1>3 DEF GuardStep, WritePidfile, Fork, StoreChildPid, Wait, GuardExits
<1>4. ASSUME NEW p \in Pids, ServerStep(p) PROVE BetweenServers
    BY <1>4 DEF ServerStep, ClearChildPid, Exec, InstallHandlers, StartServing, LeavePoll,
                Finish, Ends, Becomes
<1>5. ASSUME NEW p \in Pids, StartFails(p) \/ Dies(p) PROVE BetweenServers
    BY <1>5 DEF StartFails, Dies, Ends, Becomes
<1>6. ASSUME NEW sig \in Signals, NEW p \in Pids, ImageTakes(p, sig) PROVE BetweenServers
    BY <1>6 DEF ImageTakes, Ends, Becomes
<1>7. ASSUME ForkFails \/ \E sig \in Signals : Send(sig) PROVE BetweenServers
    BY <1>7 DEF ForkFails, Send
<1> QED BY <1>1, <1>2, <1>3, <1>4, <1>5, <1>6, <1>7 DEF Next, Taken

-----------------------------------------------------------------------------
\* The state of the guard and of its servers keeps its type.
THEOREM GuardTypeOK == Spec => []TypeOK
<1>1. GInv => TypeOK
    BY DEF GInv
<1> QED BY <1>1, GuardInvariant, PTL

\* The guard never runs two servers at once.
THEOREM OneServerAlways == Spec => []OneServer
BY GInvOneServer, GuardInvariant, PTL

\* While the guard waits, childPid names the process it waits for.
THEOREM ChildPidFreshAlways == Spec => []ChildPidFresh
<1>1. GInv => ChildPidFresh
    BY DEF GInv, TypeOK, Custody, Gone, ChildPidFresh
<1> QED BY <1>1, GuardInvariant, PTL

\* The guard exits only when every server it forked is gone.
THEOREM GuardOutlivesServerAlways == Spec => []GuardOutlivesServer
<1>1. GInv => GuardOutlivesServer
    BY DEF GInv, Custody, Gone, GuardOutlivesServer
<1> QED BY <1>1, GuardInvariant, PTL

\* Without faults and shutdown requests the guard never exits, whatever the
\* number of log reopen requests.
THEOREM ReopenIsHarmlessAlways == Spec => []ReopenIsHarmless
<1>1. GInv /\ Quiet => ReopenIsHarmless
    BY BoundsAssumption DEF GInv, TypeOK, Quiet, ReopenIsHarmless
<1> QED BY <1>1, GuardInvariant, InitQuiet, NextQuiet, PTL DEF Spec

\* The guard passes a signal on to a pid that wait() has freed only before it
\* stores the pid of the next server or ends, and a child only before it clears
\* its copy: never while the guard waits, whatever crashes and signals come in
\* which order (signalHandler, the fork loop).
THEOREM StraysOnlyBetweenServersAlways == Spec => StraysOnlyBetweenServers
<1>1. Spec => [][strays' # strays => BetweenServers]_vars
    BY NextStrays, GuardInvariant, PTL DEF Spec
<1> QED BY <1>1 DEF StraysOnlyBetweenServers, BetweenServers

-----------------------------------------------------------------------------
(* What a process of the service has built.                                *)

\* The constructor up to the last handler, from there until it serves, and
\* the way back.
Starting == {"configuration", "handlers", "symbol", "creating", "module", "refused", "insert"}
Wired == {"listeners", "pidfile", "detach", "workers", "running", "unwinding"}
Ending == {"stopping", "unloading", "closing"}

Name(i) == config.handlers[i].name
Registered == {handlerMap[n] : n \in DOMAIN handlerMap}

\* How far the loops over handlers and listeners are.
Loops ==
    /\ cur # 0
    /\ step = "configuration" => cur = 1
    /\ step = "handlers" => cur <= Len(config.handlers) + 1
    /\ step \in Starting \ {"configuration", "handlers"} => cur <= Len(config.handlers)
    /\ step = "listeners" => cur <= Len(config.listeners) + 1
    /\ step \in Wired \ {"listeners"} => cur = Len(config.listeners) + 1
    /\ step = "module" => S!HasModule(cur)
    /\ step = "unloading" => handlerMap # S!NoMap /\ cur = handlerMap[S!Least(DOMAIN handlerMap)]

\* A registered name is the one of its handler, and which handlers are.
Names ==
    /\ handlerMap \in [DOMAIN handlerMap -> S!Positions]
    /\ \A n \in DOMAIN handlerMap : Name(handlerMap[n]) = n
    /\ step \in Starting => Registered = 1 .. cur - 1
    /\ step \in Wired => Registered = S!Positions
    /\ step \in {"closing", "exited"} => Registered = {}

\* Objects, modules, workers and the set of handles, by the registered names.
Built ==
    step # "failed" =>
        /\ objects = Registered \cup (IF step = "insert" THEN {cur} ELSE {})
        /\ modules = {i \in objects : S!HasModule(i)} \ (IF step = "unloading" THEN {cur} ELSE {})
        /\ workers = CASE step \in {"running", "stopping", "unwinding"} -> Registered
                       [] step = "unloading" -> Registered \ {cur}
                       [] OTHER -> {}
        /\ step \in Starting => handles = {S!Library(i) : i \in Registered}
        /\ step \in Wired \cup Ending => handles = {S!Library(i) : i \in S!Positions}
        /\ ~lost

\* The listeners read so far, each with an address of its own.
Bound ==
    /\ step \in Starting => DOMAIN listenerMap = {}
    /\ step \in Wired =>
          /\ DOMAIN listenerMap = {config.listeners[k].address : k \in 1 .. cur - 1}
          /\ IsFiniteSet(DOMAIN listenerMap) /\ Cardinality(DOMAIN listenerMap) = cur - 1
          /\ \A k \in 1 .. cur - 1 :
                Name(listenerMap[config.listeners[k].address]) = config.listeners[k].handler

\* Who has opened a library: the handlers read so far, until the handles are
\* closed, and every handler object for its module.
Opened == IF step \in {"configuration", "handlers"} THEN 1 .. cur - 1
          ELSE IF step \in Starting THEN 1 .. cur ELSE S!Positions
Openers(l) == {i \in Opened : S!Library(i) = l}
Moduled == {i \in objects \cup (IF step = "module" THEN {cur} ELSE {}) : S!HasModule(i)}
Users(l) == {i \in Moduled : S!Module(i) = l}
Counted == step \notin {"exited", "failed"} =>
    \A l \in Libraries : refs[l] = Cardinality(Openers(l)) + Cardinality(Users(l))

\* Who failed leaves everything as it was, or leaves its handlers unloaded.
Failing == step = "failed" => S!CodeIsLoaded

\* The handles are closed once for each library, not once for each handler.
Closed == step = "exited" => \A l \in Libraries :
    refs[l] > 0 => Cardinality({i \in S!Positions : S!Library(i) = l}) > refs[l]

BInv == S!TypeOK /\ Loops /\ Names /\ Built /\ Bound /\ Counted /\ Failing /\ Closed

-----------------------------------------------------------------------------
(* Sets, functions and counting.                                           *)

\* A set of numbers that is not empty has a least one: the intervals below
\* its members are finite sets, and those are well-founded under inclusion.
LEMMA LeastIn ==
    ASSUME NEW D, D \subseteq Nat, D # {}
    PROVE  S!Least(D) \in D
<1> DEFINE T == {0 .. n : n \in D}
<1>1. T \subseteq FiniteSubsetsOf(Nat) /\ T # {}
  <2>1. \A n \in D : IsFiniteSet(0 .. n) /\ 0 .. n \subseteq Nat
      BY FS_Interval
  <2> QED BY <2>1 DEF FiniteSubsetsOf
<1>2. PICK s \in T : \A r \in T : ~(<<r, s>> \in StrictSubsetOrdering(Nat))
  <2> HIDE DEF T
  <2> QED BY <1>1, FS_StrictSubsetOrderingWellFounded, WFMin
<1>3. PICK n \in D : s = 0 .. n
    OBVIOUS
<1>4. ASSUME NEW k \in D PROVE n <= k
  <2>1. CASE k < n
    <3>1. 0 .. k \subseteq 0 .. n /\ n \in 0 .. n /\ n \notin 0 .. k
        BY <2>1
    <3>2. <<0 .. k, s>> \in StrictSubsetOrdering(Nat)
        BY <1>3, <3>1 DEF StrictSubsetOrdering
    <3>3. 0 .. k \in T
        OBVIOUS
    <3> QED BY <1>2, <3>2, <3>3
  <2> QED BY <2>1
<1> QED BY <1>4 DEF S!Least

\* What a configuration is like.
LEMMA Configured ==
    ASSUME S!TypeOK
    PROVE  /\ Len(config.handlers) \in Nat /\ S!Positions = 1 .. Len(config.handlers)
           /\ Len(config.listeners) \in Nat /\ DOMAIN config.listeners = 1 .. Len(config.listeners)
           /\ \A i \in S!Positions : /\ Name(i) \in Nat /\ S!Library(i) \in Libraries
                                     /\ S!HasModule(i) => S!Module(i) \in Libraries
           /\ config.detach \in BOOLEAN /\ config.pidFile \in BOOLEAN /\ config.relative \in BOOLEAN
<1>1. config \in Configs
    BY DEF S!TypeOK
<1>2. PICK hs, ls : hs = config.handlers /\ ls = config.listeners
    OBVIOUS
<1>3. /\ hs \in Seq([name : Nat, library : Libraries, module : Libraries \cup {NoLibrary}])
      /\ ls \in Seq([address : Nat, handler : Nat])
      /\ config.detach \in BOOLEAN /\ config.pidFile \in BOOLEAN /\ config.relative \in BOOLEAN
    BY <1>1, <1>2, ConfigsAssumption
<1>4. /\ Len(hs) \in Nat /\ DOMAIN hs = 1 .. Len(hs) /\ Len(ls) \in Nat /\ DOMAIN ls = 1 .. Len(ls)
      /\ \A i \in DOMAIN hs : hs[i] \in [name : Nat, library : Libraries, module : Libraries \cup {NoLibrary}]
  <2>1. PICK H, L : H = [name : Nat, library : Libraries, module : Libraries \cup {NoLibrary}]
                    /\ L = [address : Nat, handler : Nat]
      OBVIOUS
  <2>2. hs \in Seq(H) /\ ls \in Seq(L)
      BY <1>3, <2>1
  <2>3. Len(hs) \in Nat /\ DOMAIN hs = 1 .. Len(hs) /\ \A i \in DOMAIN hs : hs[i] \in H
      BY <2>2
  <2>4. Len(ls) \in Nat /\ DOMAIN ls = 1 .. Len(ls)
      BY <2>2
  <2> QED BY <2>1, <2>3, <2>4
<1>5. \A i \in DOMAIN hs : /\ hs[i].name \in Nat /\ hs[i].library \in Libraries
                           /\ hs[i].module # NoLibrary => hs[i].module \in Libraries
    BY <1>4
<1> QED BY <1>2, <1>3, <1>4, <1>5 DEF S!Positions, Name, S!Library, S!Module, S!HasModule

\* The sets that are counted are finite.
LEMMA Finite ==
    ASSUME S!TypeOK, Loops, step \in S!Steps, NEW l
    PROVE  /\ IsFiniteSet(Openers(l)) /\ IsFiniteSet(Users(l))
           /\ Cardinality(Openers(l)) \in Nat /\ Cardinality(Users(l)) \in Nat
           /\ Openers(l) # {} => Cardinality(Openers(l)) > 0
           /\ Users(l) # {} => Cardinality(Users(l)) > 0
<1>1. cur \in Nat /\ Len(config.handlers) \in Nat /\ S!Positions = 1 .. Len(config.handlers)
      /\ objects \subseteq S!Positions
    BY Configured DEF S!TypeOK
<1>2. PICK n \in Nat : Openers(l) \subseteq 1 .. n /\ Users(l) \subseteq 1 .. n
  <2>1. PICK n \in Nat : n = cur + Len(config.handlers)
      BY <1>1
  <2>2. \A i \in Openers(l) \cup Users(l) : i \in 1 .. n
      BY <1>1, <2>1 DEF Openers, Opened, Users, Moduled, Loops
  <2> QED BY <2>2
<1>3. IsFiniteSet(1 .. n)
    BY FS_Interval
<1>4. IsFiniteSet(Openers(l)) /\ IsFiniteSet(Users(l))
    BY <1>2, <1>3, FS_Subset
<1> QED BY <1>4, FS_CardinalityType, FS_EmptySet

\* As long as a process has not failed, what it has built is loaded.
LEMMA Loaded == BInv => S!CodeIsLoaded
<1> SUFFICES ASSUME BInv, step # "failed" PROVE S!CodeIsLoaded
    BY DEF BInv, Failing
<1> USE DEF BInv
<1>1. CASE step = "exited"
  <2>1. objects = {} /\ modules = {} /\ workers = {} /\ ~lost
      BY <1>1 DEF Names, Built
  <2> QED BY <2>1 DEF S!CodeIsLoaded
<1>2. CASE step # "exited"
  <2>0. /\ \A l \in Libraries : refs[l] = Cardinality(Openers(l)) + Cardinality(Users(l))
        /\ \A i \in S!Positions : S!Library(i) \in Libraries /\ (S!HasModule(i) => S!Module(i) \in Libraries)
        /\ objects \subseteq S!Positions /\ step \in S!Steps /\ cur \in Nat
      BY <1>2, Configured DEF Counted, S!TypeOK
  <2>1. ASSUME NEW i \in objects PROVE refs[S!Library(i)] > 0
    <3>1. i \in Opened
      <4>1. i \in S!Positions /\ i \in Registered \cup (IF step = "insert" THEN {cur} ELSE {})
          BY <2>0, <2>1 DEF Built
      <4>2. CASE step \in {"configuration", "handlers"}
          BY <2>0, <4>1, <4>2 DEF Names, Opened, Starting
      <4>3. CASE step \in Starting \ {"configuration", "handlers"}
        <5>1. Registered = 1 .. cur - 1 /\ Opened = 1 .. cur /\ cur # 0
            BY <4>3 DEF Names, Opened, Loops
        <5> QED BY <2>0, <4>1, <5>1
      <4>4. CASE step \notin Starting
          BY <4>1, <4>4 DEF Opened, Starting
      <4> QED BY <4>2, <4>3, <4>4
    <3>2. i \in Openers(S!Library(i))
        BY <3>1 DEF Openers
    <3> QED BY <2>0, <2>1, <3>2, Finite
  <2>2. ASSUME NEW i \in modules PROVE refs[S!Module(i)] > 0
    <3>1. i \in objects /\ S!HasModule(i)
        BY <1>2, <2>2 DEF Built
    <3>2. i \in Users(S!Module(i))
        BY <3>1 DEF Users, Moduled
    <3> QED BY <2>0, <3>1, <3>2, Finite
  <2>3. ASSUME NEW i \in workers PROVE i \in objects /\ (S!HasModule(i) => i \in modules)
    <3>1. i \in Registered /\ (step = "unloading" => i # cur)
        BY <1>2, <2>3 DEF Built
    <3> QED BY <1>2, <3>1 DEF Built
  <2>4. ~lost
      BY <1>2 DEF Built
  <2> QED BY <2>1, <2>2, <2>3, <2>4 DEF S!CodeIsLoaded
<1> QED BY <1>1, <1>2

-----------------------------------------------------------------------------
(* The count, when something is opened or closed.                          *)

LEMMA CountKept ==
    ASSUME BInv, UNCHANGED <<config, refs>>, step \notin {"exited", "failed"},
           step' \notin {"exited", "failed"} => Opened' = Opened /\ Moduled' = Moduled
    PROVE  Counted'
<1>1. ASSUME step' \notin {"exited", "failed"}, NEW l \in Libraries
      PROVE  refs'[l] = Cardinality(Openers(l))' + Cardinality(Users(l))'
  <2>1. Openers(l)' = Openers(l) /\ Users(l)' = Users(l)
      BY <1>1 DEF Openers, Users, S!Library, S!Module
  <2> QED BY <2>1 DEF BInv, Counted
<1> QED BY <1>1 DEF Counted

LEMMA CountOpened ==
    ASSUME BInv, UNCHANGED config, step \notin {"exited", "failed"},
           NEW i \in S!Positions, i \notin Opened, Opened' = Opened \cup {i}, Moduled' = Moduled,
           refs' = [refs EXCEPT ![S!Library(i)] = refs[S!Library(i)] + 1]
    PROVE  Counted' /\ refs' \in [Libraries -> Nat]
<1>0. refs \in [Libraries -> Nat] /\ S!Library(i) \in Libraries
    BY Configured DEF BInv, S!TypeOK
<1>1. ASSUME NEW l \in Libraries
      PROVE  refs'[l] = Cardinality(Openers(l))' + Cardinality(Users(l))'
  <2>0. /\ refs[l] = Cardinality(Openers(l)) + Cardinality(Users(l)) /\ IsFiniteSet(Openers(l))
        /\ Cardinality(Openers(l)) \in Nat /\ Cardinality(Users(l)) \in Nat
      BY Finite DEF BInv, Counted, S!TypeOK
  <2>1. Users(l)' = Users(l)
      BY DEF Users, S!Module
  <2>2. CASE S!Library(i) = l
    <3>1. Openers(l)' = Openers(l) \cup {i} /\ i \notin Openers(l)
        BY <2>2 DEF Openers, S!Library
    <3>2. Cardinality(Openers(l)') = Cardinality(Openers(l)) + 1
        BY <2>0, <3>1, FS_AddElement
    <3> QED BY <1>0, <2>0, <2>1, <2>2, <3>2
  <2>3. CASE S!Library(i) # l
    <3>1. Openers(l)' = Openers(l)
        BY <2>3 DEF Openers, S!Library
    <3> QED BY <1>0, <2>0, <2>1, <2>3, <3>1
  <2> QED BY <2>2, <2>3
<1> QED BY <1>0, <1>1 DEF Counted

LEMMA CountModule ==
    ASSUME BInv, UNCHANGED config, step \notin {"exited", "failed"},
           NEW i \in S!Positions, S!HasModule(i), Opened' = Opened,
           \/ /\ i \notin Moduled /\ Moduled' = Moduled \cup {i}
              /\ refs' = [refs EXCEPT ![S!Module(i)] = refs[S!Module(i)] + 1]
           \/ /\ i \in Moduled /\ Moduled' = Moduled \ {i}
              /\ refs' = [refs EXCEPT ![S!Module(i)] = refs[S!Module(i)] - 1]
    PROVE  Counted' /\ refs' \in [Libraries -> Nat]
<1>0. refs \in [Libraries -> Nat] /\ S!Module(i) \in Libraries
    BY Configured DEF BInv, S!TypeOK
<1>1. ASSUME NEW l \in Libraries
      PROVE  refs'[l] = Cardinality(Openers(l))' + Cardinality(Users(l))' /\ refs'[l] \in Nat
  <2>0. /\ refs[l] = Cardinality(Openers(l)) + Cardinality(Users(l)) /\ IsFiniteSet(Users(l))
        /\ Cardinality(Openers(l)) \in Nat /\ Cardinality(Users(l)) \in Nat
        /\ Users(l) # {} => Cardinality(Users(l)) > 0
      BY Finite DEF BInv, Counted, S!TypeOK
  <2>1. Openers(l)' = Openers(l)
      BY DEF Openers, S!Library
  <2>2. CASE S!Module(i) = l /\ i \notin Moduled
    <3>1. Users(l)' = Users(l) \cup {i} /\ i \notin Users(l)
        BY <2>2 DEF Users, S!Module
    <3>2. Cardinality(Users(l)') = Cardinality(Users(l)) + 1
        BY <2>0, <3>1, FS_AddElement
    <3> QED BY <1>0, <2>0, <2>1, <2>2, <3>2
  <2>3. CASE S!Module(i) = l /\ i \in Moduled
    <3>1. Users(l)' = Users(l) \ {i} /\ i \in Users(l)
        BY <2>3 DEF Users, S!Module
    <3>2. Cardinality(Users(l)') = Cardinality(Users(l)) - 1 /\ Cardinality(Users(l)) > 0
        BY <2>0, <3>1, FS_RemoveElement
    <3> QED BY <1>0, <2>0, <2>1, <2>3, <3>2
  <2>4. CASE S!Module(i) # l
    <3>1. Users(l)' = Users(l)
        BY <2>4 DEF Users, S!Module
    <3> QED BY <1>0, <2>0, <2>1, <2>4, <3>1
  <2> QED BY <2>2, <2>3, <2>4
<1>2. refs' \in [Libraries -> Nat]
    BY <1>0, <1>1
<1> QED BY <1>1, <1>2 DEF Counted

-----------------------------------------------------------------------------
LEMMA InitBInv == ServiceInit => BInv
<1> SUFFICES ASSUME S!Init PROVE BInv
    BY DEF ServiceInit
<1> USE DEF S!Init
<1>1. DOMAIN handlerMap = {} /\ DOMAIN listenerMap = {} /\ Registered = {}
    BY DEF S!NoMap, Registered
<1>2. S!TypeOK
    BY <1>1 DEF S!TypeOK, S!Steps
<1>3. Loops
    BY DEF Loops, Starting, Wired
<1>4. Names
    BY <1>1 DEF Names, Starting, Wired, S!NoMap
<1>5. Built
    BY <1>1 DEF Built, Starting, Wired, Ending
<1>6. Bound
    BY <1>1 DEF Bound, Starting, Wired
<1>7. Counted
  <2>1. \A l : Openers(l) = {} /\ Users(l) = {}
      BY DEF Openers, Opened, Users, Moduled
  <2> QED BY <2>1, FS_EmptySet DEF Counted
<1> QED BY <1>2, <1>3, <1>4, <1>5, <1>6, <1>7 DEF BInv, Failing, Closed


-----------------------------------------------------------------------------
(* Failing.                                                                *)

LEMMA Failed ==
    ASSUME BInv, step' = "failed",
           UNCHANGED <<config, cur, handlerMap, handles, objects, modules, workers, listenerMap, pidFile>>,
           refs' \in [Libraries -> Nat], thrown' \in {"none", "ours", "theirs"}, lost' \in BOOLEAN,
           S!CodeIsLoaded'
    PROVE  BInv'
<1>1. S!TypeOK'
    BY DEF BInv, S!TypeOK, S!Steps, S!Positions
<1>2. Loops' /\ Built' /\ Bound' /\ Counted' /\ Failing' /\ Closed'
    BY DEF BInv, Loops, Built, Bound, Counted, Failing, Closed, Starting, Wired
<1>3. Names'
    BY DEF BInv, Names, Starting, Wired, Name, S!Positions
<1> QED BY <1>1, <1>2, <1>3 DEF BInv

LEMMA FailedAsIs ==
    ASSUME BInv, step' = "failed",
           UNCHANGED <<config, cur, refs, handlerMap, handles, objects, modules, workers, listenerMap,
                       thrown, lost, pidFile>>
    PROVE  BInv'
<1>1. S!CodeIsLoaded
    BY Loaded
<1>2. S!CodeIsLoaded'
    BY <1>1 DEF S!CodeIsLoaded, S!Unwound, S!Library, S!Module, S!HasModule
<1>3. refs \in [Libraries -> Nat] /\ thrown \in {"none", "ours", "theirs"} /\ lost \in BOOLEAN
    BY DEF BInv, S!TypeOK
<1> QED BY <1>2, <1>3, Failed

\* The library of a handler that came to nothing is closed: it stays open for
\* every other that has it.
LEMMA ClosedAgain ==
    ASSUME BInv, step \in {"symbol", "refused"}, S!Close(S!Library(cur))
    PROVE  /\ refs' \in [Libraries -> Nat]
           /\ \A i \in objects : refs'[S!Library(i)] > 0
           /\ \A i \in modules : refs'[S!Module(i)] > 0
           /\ workers = {} /\ ~lost /\ S!Library(cur) \in Libraries
<1>1. /\ cur \in S!Positions /\ cur \in Nat /\ cur # 0 /\ refs \in [Libraries -> Nat]
      /\ Opened = 1 .. cur /\ objects = 1 .. cur - 1 /\ workers = {} /\ ~lost
      /\ modules = {i \in objects : S!HasModule(i)} /\ objects \subseteq S!Positions
  <2>1. cur \in Nat /\ cur # 0 /\ refs \in [Libraries -> Nat] /\ cur <= Len(config.handlers)
      BY DEF BInv, S!TypeOK, Loops, Starting
  <2>2. cur \in S!Positions
      BY <2>1, Configured DEF BInv
  <2>3. objects = 1 .. cur - 1 /\ workers = {} /\ ~lost /\ modules = {i \in objects : S!HasModule(i)}
      BY DEF BInv, Names, Built, Starting
  <2> QED BY <2>1, <2>2, <2>3 DEF BInv, S!TypeOK, Opened, Starting
<1>2. \A i \in S!Positions : S!Library(i) \in Libraries /\ (S!HasModule(i) => S!Module(i) \in Libraries)
    BY Configured DEF BInv
<1>3. refs' = [refs EXCEPT ![S!Library(cur)] = refs[S!Library(cur)] - 1]
    BY DEF S!Close
<1>4. ASSUME NEW l \in Libraries
      PROVE  /\ refs'[l] \in Nat
             /\ Openers(l) \ {cur} # {} \/ Users(l) # {} => refs'[l] > 0
  <2>1. /\ refs[l] = Cardinality(Openers(l)) + Cardinality(Users(l)) /\ IsFiniteSet(Openers(l))
        /\ Cardinality(Openers(l)) \in Nat /\ Cardinality(Users(l)) \in Nat
        /\ Users(l) # {} => Cardinality(Users(l)) > 0
      BY Finite DEF BInv, Counted, S!TypeOK
  <2>2. IsFiniteSet(Openers(l) \ {cur})
      BY <2>1, FS_Subset
  <2>3. /\ Cardinality(Openers(l) \ {cur}) \in Nat
        /\ Openers(l) \ {cur} # {} => Cardinality(Openers(l) \ {cur}) > 0
    <3> DEFINE O == Openers(l) \ {cur}
    <3> HIDE DEF O
    <3>1. IsFiniteSet(O)
        BY <2>2 DEF O
    <3>2. Cardinality(O) \in Nat /\ (O # {} => Cardinality(O) > 0)
        BY <3>1, FS_CardinalityType, FS_EmptySet
    <3> QED BY <3>2 DEF O
  <2>4. CASE S!Library(cur) = l
    <3>1. cur \in Openers(l)
        BY <1>1, <2>4 DEF Openers
    <3>2. Cardinality(Openers(l) \ {cur}) = Cardinality(Openers(l)) - 1
        BY <2>1, <3>1, FS_RemoveElement
    <3>3. refs'[l] = refs[l] - 1
        BY <1>1, <1>3, <2>4
    <3> QED BY <2>1, <2>3, <3>2, <3>3
  <2>5. CASE S!Library(cur) # l
    <3>1. Openers(l) \ {cur} = Openers(l)
        BY <2>5 DEF Openers
    <3>2. refs'[l] = refs[l]
        BY <1>1, <1>3, <2>5
    <3>3. Cardinality(Openers(l) \ {cur}) = Cardinality(Openers(l))
        BY <3>1
    <3> QED BY <2>1, <2>3, <3>2, <3>3
  <2> QED BY <2>4, <2>5
<1>5. refs' \in [Libraries -> Nat]
  <2>1. \A l \in Libraries : refs'[l] \in Nat
      BY <1>4
  <2> QED BY <1>1, <1>3, <2>1
<1>6. ASSUME NEW i \in objects PROVE refs'[S!Library(i)] > 0
  <2>1. i \in Openers(S!Library(i)) \ {cur} /\ S!Library(i) \in Libraries
      BY <1>1, <1>2, <1>6 DEF Openers
  <2> QED BY <1>4, <2>1
<1>7. ASSUME NEW i \in modules PROVE refs'[S!Module(i)] > 0
  <2>1. i \in Users(S!Module(i)) /\ S!Module(i) \in Libraries
      BY <1>1, <1>2, <1>7 DEF Users, Moduled
  <2> QED BY <1>4, <2>1
<1> QED BY <1>1, <1>2, <1>5, <1>6, <1>7

-----------------------------------------------------------------------------
(* The steps of the constructor and of the destructor.                     *)

LEMMA ReadConfigurationKeeps == BInv /\ S!ReadConfiguration => BInv'
<1> SUFFICES ASSUME BInv, S!ReadConfiguration PROVE BInv'
    OBVIOUS
<1>1. /\ step = "configuration"
      /\ UNCHANGED <<config, cur, refs, handlerMap, handles, objects, modules, workers, listenerMap,
                     thrown, lost, pidFile>>
    BY DEF S!ReadConfiguration, S!Goto, S!held
<1>2. CASE step' = "failed"
    BY <1>1, <1>2, FailedAsIs
<1>3. CASE step' = "handlers"
  <2> USE <1>1, <1>3 DEF Starting, Wired, Ending
  <2>1. S!TypeOK'
      BY DEF BInv, S!TypeOK, S!Steps, S!Positions
  <2>2. Loops'
    <3>1. cur = 1 /\ Len(config.handlers) \in Nat
        BY Configured DEF BInv, Loops
    <3> QED BY <3>1 DEF Loops
  <2>3. Names'
      BY DEF BInv, Names, Registered, Name, S!Positions
  <2>4. Built'
      BY DEF BInv, Built, Registered, S!Library, S!HasModule, S!Module
  <2>5. Bound'
      BY DEF BInv, Bound
  <2>6. Counted'
      BY CountKept DEF Opened, Moduled, S!HasModule, S!Module
  <2> QED BY <2>1, <2>2, <2>3, <2>4, <2>5, <2>6 DEF BInv, Failing, Closed
<1> QED BY <1>2, <1>3 DEF S!ReadConfiguration, S!Goto

LEMMA OpenLibraryKeeps == BInv /\ S!OpenLibrary => BInv'
<1> SUFFICES ASSUME BInv, S!OpenLibrary PROVE BInv'
    OBVIOUS
<1>1. /\ step = "handlers" /\ cur <= Len(config.handlers)
      /\ UNCHANGED <<config, cur, handlerMap, handles, objects, modules, workers, listenerMap,
                     thrown, lost, pidFile>>
      /\ \/ step' = "symbol" /\ refs' = [refs EXCEPT ![S!Library(cur)] = refs[S!Library(cur)] + 1]
         \/ step' = "failed" /\ refs' = refs
    BY DEF S!OpenLibrary, S!Goto, S!Open, S!held
<1>2. CASE step' = "failed"
    BY <1>1, <1>2, FailedAsIs
<1>3. CASE step' = "symbol"
  <2> USE <1>1, <1>3 DEF Starting, Wired, Ending
  <2>1. cur \in Nat /\ cur # 0 /\ cur \in S!Positions
    <3>1. cur \in Nat /\ cur # 0
        BY DEF BInv, S!TypeOK, Loops
    <3> QED BY <3>1, Configured DEF BInv
  <2>2. Counted' /\ refs' \in [Libraries -> Nat]
    <3>1. cur \notin Opened /\ Opened' = Opened \cup {cur}
        BY <2>1 DEF Opened
    <3>2. Moduled' = Moduled
        BY DEF Moduled, S!HasModule, S!Module
    <3> QED BY <2>1, <3>1, <3>2, CountOpened
  <2>3. S!TypeOK'
      BY <2>2 DEF BInv, S!TypeOK, S!Steps, S!Positions
  <2>4. Loops'
      BY <2>1 DEF BInv, Loops
  <2>5. Names'
      BY DEF BInv, Names, Registered, Name, S!Positions
  <2>6. Built'
      BY DEF BInv, Built, Registered, S!Library, S!HasModule, S!Module
  <2>7. Bound'
      BY DEF BInv, Bound
  <2> QED BY <2>2, <2>3, <2>4, <2>5, <2>6, <2>7 DEF BInv, Failing, Closed
<1> QED BY <1>1, <1>2, <1>3

LEMMA HandlersRegisteredKeeps == BInv /\ S!HandlersRegistered => BInv'
<1> SUFFICES ASSUME BInv, S!HandlersRegistered PROVE BInv'
    OBVIOUS
<1>1. /\ step = "handlers" /\ cur > Len(config.handlers) /\ step' = "listeners" /\ cur' = 1
      /\ UNCHANGED <<config, refs, handlerMap, handles, objects, modules, workers, listenerMap,
                     thrown, lost, pidFile>>
    BY DEF S!HandlersRegistered, S!Goto, S!held
<1> USE <1>1 DEF Starting, Wired, Ending
<1>2. 1 .. cur - 1 = S!Positions /\ Len(config.listeners) \in Nat
  <2>1. cur \in Nat /\ cur <= Len(config.handlers) + 1
      BY DEF BInv, S!TypeOK, Loops
  <2>2. Len(config.handlers) \in Nat /\ S!Positions = 1 .. Len(config.handlers)
        /\ Len(config.listeners) \in Nat
      BY Configured DEF BInv
  <2>3. cur - 1 = Len(config.handlers)
      BY <2>1, <2>2
  <2> QED BY <2>2, <2>3
<1>3. S!TypeOK'
    BY DEF BInv, S!TypeOK, S!Steps, S!Positions
<1>4. Loops'
    BY <1>2 DEF Loops
<1>5. Names'
    BY <1>2 DEF BInv, Names, Registered, Name, S!Positions
<1>6. Built'
    BY <1>2 DEF BInv, Names, Built, Registered, S!Library, S!HasModule, S!Module, S!Positions
<1>7. Bound'
  <2>1. DOMAIN listenerMap = {} /\ 1 .. cur' - 1 = {}
      BY DEF BInv, Bound
  <2> QED BY <2>1, FS_EmptySet DEF Bound
<1>8. Counted'
  <2>1. Opened' = Opened
      BY <1>2 DEF Opened, S!Positions
  <2> QED BY <2>1, CountKept DEF Moduled, S!HasModule, S!Module
<1> QED BY <1>3, <1>4, <1>5, <1>6, <1>7, <1>8 DEF BInv, Failing, Closed

LEMMA FindSymbolKeeps == BInv /\ S!FindSymbol => BInv'
<1> SUFFICES ASSUME BInv, S!FindSymbol PROVE BInv'
    OBVIOUS
<1>1. /\ step = "symbol"
      /\ UNCHANGED <<config, cur, handlerMap, handles, objects, modules, workers, listenerMap,
                     thrown, lost, pidFile>>
      /\ \/ step' = "creating" /\ refs' = refs
         \/ step' = "failed" /\ S!Close(S!Library(cur))
    BY DEF S!FindSymbol, S!Goto, S!held
<1>2. CASE step' = "failed"
  <2>1. S!Close(S!Library(cur))
      BY <1>1, <1>2
  <2>2. /\ refs' \in [Libraries -> Nat]
        /\ \A i \in objects : refs'[S!Library(i)] > 0
        /\ \A i \in modules : refs'[S!Module(i)] > 0
        /\ workers = {} /\ ~lost
      BY <1>1, <2>1, ClosedAgain
  <2>3. S!CodeIsLoaded'
      BY <1>1, <2>2 DEF S!CodeIsLoaded, S!Library, S!Module
  <2>4. thrown \in {"none", "ours", "theirs"} /\ lost \in BOOLEAN
      BY DEF BInv, S!TypeOK
  <2> QED BY <1>1, <1>2, <2>2, <2>3, <2>4, Failed
<1>3. CASE step' = "creating"
  <2> USE <1>1, <1>3 DEF Starting, Wired, Ending
  <2>1. S!TypeOK'
      BY DEF BInv, S!TypeOK, S!Steps, S!Positions
  <2>2. Loops'
      BY DEF BInv, Loops
  <2>3. Names'
      BY DEF BInv, Names, Registered, Name, S!Positions
  <2>4. Built'
      BY DEF BInv, Built, Registered, S!Library, S!HasModule, S!Module
  <2>5. Bound'
      BY DEF BInv, Bound
  <2>6. Counted'
      BY CountKept DEF Opened, Moduled, S!HasModule, S!Module
  <2> QED BY <2>1, <2>2, <2>3, <2>4, <2>5, <2>6 DEF BInv, Failing, Closed
<1> QED BY <1>1, <1>2, <1>3

\* In the loop over the handlers, the one that is made has no object yet.
LEMMA InTheLoop ==
    ASSUME BInv, step \in Starting \ {"configuration", "handlers"}
    PROVE  /\ cur \in Nat /\ cur # 0 /\ cur \in S!Positions
           /\ Registered = 1 .. cur - 1 /\ cur \notin Registered /\ Registered \cup {cur} = 1 .. cur
<1>1. cur \in Nat /\ cur # 0 /\ cur <= Len(config.handlers) /\ Registered = 1 .. cur - 1
    BY DEF BInv, S!TypeOK, Loops, Names
<1>2. cur \in S!Positions
    BY <1>1, Configured DEF BInv
<1> QED BY <1>1, <1>2

LEMMA ConstructHandlerKeeps == BInv /\ S!ConstructHandler => BInv'
<1> SUFFICES ASSUME BInv, S!ConstructHandler PROVE BInv'
    OBVIOUS
<1>1. /\ step = "creating"
      /\ UNCHANGED <<config, cur, handlerMap, handles, modules, workers, listenerMap, lost, pidFile>>
    BY DEF S!ConstructHandler, S!Goto
<1>2. \/ /\ step' = "module" /\ S!HasModule(cur) /\ UNCHANGED <<objects, thrown>>
         /\ refs' = [refs EXCEPT ![S!Module(cur)] = refs[S!Module(cur)] + 1]
      \/ /\ step' = "insert" /\ ~S!HasModule(cur) /\ objects' = objects \cup {cur}
         /\ UNCHANGED <<refs, thrown>>
      \/ step' = "refused" /\ thrown' \in {"ours", "theirs"} /\ UNCHANGED <<refs, objects>>
    BY DEF S!ConstructHandler, S!Goto, S!Open
<1>3. /\ cur \in Nat /\ cur # 0 /\ cur \in S!Positions
      /\ Registered = 1 .. cur - 1 /\ cur \notin Registered
    BY <1>1, InTheLoop DEF Starting
<1>4. objects = Registered /\ modules = {i \in objects : S!HasModule(i)} /\ workers = {} /\ ~lost
      /\ handles = {S!Library(i) : i \in Registered}
    BY <1>1 DEF BInv, Built, Starting
<1> USE <1>1 DEF Starting, Wired, Ending
<1>5. Loops'
    BY <1>2 DEF BInv, Loops, S!HasModule, S!Module
<1>6. Names'
    BY <1>2 DEF BInv, Names, Registered, Name, S!Positions
<1>7. Bound'
    BY <1>2 DEF BInv, Bound
<1>8. Built'
  <2>1. /\ Registered' = Registered
        /\ \A i : S!Library(i)' = S!Library(i) /\ (S!HasModule(i)' <=> S!HasModule(i))
      BY DEF Registered, S!Library, S!HasModule, S!Module
  <2>2. CASE step' = "insert"
    <3>1. ~S!HasModule(cur) /\ objects' = objects \cup {cur}
        BY <1>2, <2>2
    <3> QED BY <1>4, <2>1, <2>2, <3>1 DEF Built
  <2>3. CASE step' # "insert"
    <3>1. step' \in {"module", "refused"} /\ objects' = objects
        BY <1>2, <2>3
    <3> QED BY <1>4, <2>1, <2>3, <3>1 DEF Built
  <2> QED BY <2>2, <2>3
<1>9. Counted' /\ refs' \in [Libraries -> Nat]
  <2>1. Opened' = Opened
      BY <1>2 DEF Opened
  <2>2. refs \in [Libraries -> Nat]
      BY DEF BInv, S!TypeOK
  <2>3. CASE step' = "module"
    <3>1. cur \notin Moduled /\ Moduled' = Moduled \cup {cur} /\ S!HasModule(cur)
          /\ refs' = [refs EXCEPT ![S!Module(cur)] = refs[S!Module(cur)] + 1]
        BY <1>2, <1>3, <1>4, <2>3 DEF Moduled, S!HasModule, S!Module
    <3> QED BY <1>3, <2>1, <3>1, CountModule
  <2>4. CASE step' # "module"
    <3>1. Moduled' = Moduled /\ refs' = refs
        BY <1>2, <2>4 DEF Moduled, S!HasModule, S!Module
    <3> QED BY <2>1, <2>2, <3>1, CountKept
  <2> QED BY <2>3, <2>4
<1>10. S!TypeOK'
    BY <1>2, <1>3, <1>9 DEF BInv, S!TypeOK, S!Steps, S!Positions
<1>11. Failing' /\ Closed'
    BY <1>2 DEF Failing, Closed
<1> QED BY <1>5, <1>6, <1>7, <1>8, <1>9, <1>10, <1>11 DEF BInv

LEMMA LoadModuleKeeps == BInv /\ S!LoadModule => BInv'
<1> SUFFICES ASSUME BInv, S!LoadModule PROVE BInv'
    OBVIOUS
<1>1. /\ step = "module"
      /\ UNCHANGED <<config, cur, handlerMap, handles, workers, listenerMap, lost, pidFile>>
    BY DEF S!LoadModule, S!Goto
<1>2. \/ /\ step' = "insert" /\ UNCHANGED <<refs, thrown>>
         /\ modules' = modules \cup {cur} /\ objects' = objects \cup {cur}
      \/ /\ step' = "refused" /\ thrown' = "ours" /\ UNCHANGED <<modules, objects>>
         /\ refs' = [refs EXCEPT ![S!Module(cur)] = refs[S!Module(cur)] - 1]
    BY DEF S!LoadModule, S!Goto, S!Close
<1>3. /\ cur \in Nat /\ cur # 0 /\ cur \in S!Positions
      /\ Registered = 1 .. cur - 1 /\ cur \notin Registered
    BY <1>1, InTheLoop DEF Starting
<1>4. objects = Registered /\ modules = {i \in objects : S!HasModule(i)} /\ workers = {} /\ ~lost
      /\ handles = {S!Library(i) : i \in Registered}
    BY <1>1 DEF BInv, Built, Starting
<1>5. S!HasModule(cur)
    BY <1>1 DEF BInv, Loops
<1> USE <1>1 DEF Starting, Wired, Ending
<1>6. Loops'
    BY <1>2 DEF BInv, Loops
<1>7. Names'
    BY <1>2 DEF BInv, Names, Registered, Name, S!Positions
<1>8. Bound'
    BY <1>2 DEF BInv, Bound
<1>9. Built'
  <2>1. /\ Registered' = Registered
        /\ \A i : S!Library(i)' = S!Library(i) /\ (S!HasModule(i)' <=> S!HasModule(i))
      BY DEF Registered, S!Library, S!HasModule, S!Module
  <2>2. CASE step' = "insert"
    <3>1. objects' = objects \cup {cur} /\ modules' = modules \cup {cur}
        BY <1>2, <2>2
    <3> QED BY <1>4, <1>5, <2>1, <2>2, <3>1 DEF Built
  <2>3. CASE step' = "refused"
    <3>1. objects' = objects /\ modules' = modules
        BY <1>2, <2>3
    <3> QED BY <1>4, <2>1, <2>3, <3>1 DEF Built
  <2> QED BY <1>2, <2>2, <2>3
<1>10. Counted' /\ refs' \in [Libraries -> Nat]
  <2>1. Opened' = Opened
      BY <1>2 DEF Opened
  <2>2. refs \in [Libraries -> Nat]
      BY DEF BInv, S!TypeOK
  <2>3. CASE step' = "refused"
    <3>1. cur \in Moduled /\ Moduled' = Moduled \ {cur}
          /\ refs' = [refs EXCEPT ![S!Module(cur)] = refs[S!Module(cur)] - 1]
        BY <1>2, <1>3, <1>4, <1>5, <2>3 DEF Moduled, S!HasModule, S!Module
    <3> QED BY <1>3, <1>5, <2>1, <3>1, CountModule
  <2>4. CASE step' = "insert"
    <3>1. Moduled' = Moduled /\ refs' = refs
        BY <1>2, <2>4 DEF Moduled, S!HasModule, S!Module
    <3> QED BY <2>1, <2>2, <2>4, <3>1, CountKept
  <2> QED BY <1>2, <2>3, <2>4
<1>11. S!TypeOK'
    BY <1>2, <1>3, <1>4, <1>10 DEF BInv, S!TypeOK, S!Steps, S!Positions
<1>12. Failing' /\ Closed'
    BY <1>2 DEF Failing, Closed
<1> QED BY <1>6, <1>7, <1>8, <1>9, <1>10, <1>11, <1>12 DEF BInv

LEMMA CloseRefusedKeeps == BInv /\ S!CloseRefused => BInv'
<1> SUFFICES ASSUME BInv, S!CloseRefused PROVE BInv'
    OBVIOUS
<1>1. /\ step = "refused" /\ step' = "failed" /\ S!Close(S!Library(cur))
      /\ lost' = (thrown = "theirs" /\ refs'[S!Library(cur)] = 0)
      /\ UNCHANGED <<config, cur, handlerMap, handles, objects, modules, workers, listenerMap,
                     thrown, pidFile>>
    BY DEF S!CloseRefused, S!Goto, S!held
<1>2. /\ refs' \in [Libraries -> Nat]
      /\ \A i \in objects : refs'[S!Library(i)] > 0
      /\ \A i \in modules : refs'[S!Module(i)] > 0
      /\ workers = {}
    BY <1>1, ClosedAgain
<1>3. S!CodeIsLoaded'
  <2>1. ASSUME lost' PROVE thrown = "theirs" /\ \A i \in objects : S!Library(i) # S!Library(cur)
    <3>1. thrown = "theirs" /\ refs'[S!Library(cur)] = 0
        BY <1>1, <2>1
    <3>2. \A i \in objects : refs'[S!Library(i)] # 0
        BY <1>2
    <3> QED BY <3>1, <3>2
  <2> QED BY <1>1, <1>2, <2>1 DEF S!CodeIsLoaded, S!Library, S!Module
<1>4. thrown \in {"none", "ours", "theirs"} /\ lost' \in BOOLEAN
    BY <1>1 DEF BInv, S!TypeOK
<1> QED BY <1>1, <1>2, <1>3, <1>4, Failed

LEMMA InsertHandlerKeeps == BInv /\ S!InsertHandler => BInv'
<1> SUFFICES ASSUME BInv, S!InsertHandler PROVE BInv'
    OBVIOUS
<1>1. /\ step = "insert"
      /\ UNCHANGED <<config, refs, objects, modules, workers, listenerMap, thrown, lost, pidFile>>
      /\ \/ /\ step' = "handlers" /\ Name(cur) \notin DOMAIN handlerMap
            /\ handlerMap' = S!With(handlerMap, Name(cur), cur)
            /\ handles' = handles \cup {S!Library(cur)} /\ cur' = cur + 1
         \/ step' = "failed" /\ UNCHANGED <<handlerMap, handles, cur>>
    BY DEF S!InsertHandler, S!Goto, Name
<1>2. CASE step' = "failed"
    BY <1>1, <1>2, FailedAsIs
<1>3. CASE step' = "handlers"
  <2>1. /\ Name(cur) \notin DOMAIN handlerMap /\ handlerMap' = S!With(handlerMap, Name(cur), cur)
        /\ handles' = handles \cup {S!Library(cur)} /\ cur' = cur + 1
      BY <1>1, <1>3
  <2>2. /\ cur \in Nat /\ cur # 0 /\ cur \in S!Positions
        /\ Registered = 1 .. cur - 1 /\ cur \notin Registered /\ Registered \cup {cur} = 1 .. cur
      BY <1>1, InTheLoop DEF Starting
  <2>3. objects = Registered \cup {cur} /\ modules = {i \in objects : S!HasModule(i)}
        /\ workers = {} /\ ~lost /\ handles = {S!Library(i) : i \in Registered}
      BY <1>1 DEF BInv, Built, Starting
  <2>4. /\ DOMAIN handlerMap' = DOMAIN handlerMap \cup {Name(cur)}
        /\ handlerMap' \in [DOMAIN handlerMap' -> S!Positions] /\ handlerMap'[Name(cur)] = cur
        /\ \A n \in DOMAIN handlerMap : handlerMap'[n] = handlerMap[n]
        /\ Registered' = Registered \cup {cur}
    <3>1. handlerMap \in [DOMAIN handlerMap -> S!Positions]
        BY DEF BInv, Names
    <3>2. PICK name : name = Name(cur)
        OBVIOUS
    <3>3. handlerMap' = [n \in DOMAIN handlerMap \cup {name} |-> IF n = name THEN cur ELSE handlerMap[n]]
          /\ name \notin DOMAIN handlerMap
        BY <2>1, <3>2 DEF S!With
    <3>4. /\ DOMAIN handlerMap' = DOMAIN handlerMap \cup {name} /\ handlerMap'[name] = cur
          /\ \A n \in DOMAIN handlerMap : handlerMap'[n] = handlerMap[n]
        BY <3>3
    <3>5. handlerMap' \in [DOMAIN handlerMap' -> S!Positions]
        BY <2>2, <3>1, <3>3
    <3>6. Registered' = Registered \cup {cur}
        BY <3>3, <3>4 DEF Registered
    <3> QED BY <3>2, <3>4, <3>5, <3>6
  <2> USE <1>1, <1>3 DEF Starting, Wired, Ending
  <2>5. Loops'
    <3>1. cur <= Len(config.handlers) /\ Len(config.handlers) \in Nat
        BY Configured DEF BInv, Loops
    <3> QED BY <2>1, <2>2, <3>1 DEF Loops
  <2>6. Names'
    <3>1. \A n \in DOMAIN handlerMap : Name(handlerMap[n]) = n
        BY DEF BInv, Names
    <3>2. \A n \in DOMAIN handlerMap' : Name(handlerMap'[n]) = n
        BY <2>4, <3>1
    <3>3. Registered' = 1 .. cur' - 1
        BY <2>1, <2>2, <2>4
    <3> QED BY <2>4, <3>2, <3>3 DEF Names, Name, S!Positions
  <2>7. Built'
    <3>1. \A i : S!Library(i)' = S!Library(i) /\ (S!HasModule(i)' <=> S!HasModule(i))
        BY DEF S!Library, S!HasModule, S!Module
    <3> QED BY <2>1, <2>3, <2>4, <3>1 DEF Built
  <2>8. Bound'
      BY DEF BInv, Bound
  <2>9. Counted'
    <3>1. Opened' = Opened
        BY <2>1, <2>2 DEF Opened
    <3> QED BY <3>1, CountKept DEF Moduled, S!HasModule, S!Module
  <2>10. S!TypeOK'
    <3>1. \A n \in DOMAIN handlerMap' : handlerMap'[n] \in S!Positions
        BY <2>4
    <3>2. S!Library(cur) \in Libraries /\ handles \subseteq Libraries /\ cur' \in Nat
        BY <2>1, <2>2, Configured DEF BInv, S!TypeOK
    <3> QED BY <2>1, <3>1, <3>2 DEF BInv, S!TypeOK, S!Steps, S!Positions
  <2> QED BY <2>5, <2>6, <2>7, <2>8, <2>9, <2>10 DEF BInv, Failing, Closed
<1> QED BY <1>1, <1>2, <1>3

LEMMA RegisterListenerKeeps == BInv /\ S!RegisterListener => BInv'
<1> SUFFICES ASSUME BInv, S!RegisterListener PROVE BInv'
    OBVIOUS
<1>1. /\ step = "listeners" /\ cur <= Len(config.listeners)
      /\ UNCHANGED <<config, refs, handles, objects, modules, workers, handlerMap, thrown, lost, pidFile>>
      /\ \/ /\ config.listeners[cur].handler \in DOMAIN handlerMap
            /\ config.listeners[cur].address \notin DOMAIN listenerMap
            /\ listenerMap' = S!With(listenerMap, config.listeners[cur].address,
                                     handlerMap[config.listeners[cur].handler])
            /\ cur' = cur + 1 /\ step' = step
         \/ step' = "failed" /\ UNCHANGED <<cur, listenerMap>>
    BY DEF S!RegisterListener, S!Goto
<1>2. CASE step' = "failed"
    BY <1>1, <1>2, FailedAsIs
<1>3. CASE step' = "listeners"
  <2>1. PICK addr, h : addr = config.listeners[cur].address /\ h = config.listeners[cur].handler
      OBVIOUS
  <2>2. /\ h \in DOMAIN handlerMap /\ addr \notin DOMAIN listenerMap /\ cur' = cur + 1
        /\ listenerMap' = [a \in DOMAIN listenerMap \cup {addr} |->
                              IF a = addr THEN handlerMap[h] ELSE listenerMap[a]]
      BY <1>1, <1>3, <2>1 DEF S!With
  <2>3. cur \in Nat /\ cur # 0 /\ Len(config.listeners) \in Nat
      BY Configured DEF BInv, S!TypeOK, Loops
  <2>4. /\ DOMAIN listenerMap = {config.listeners[k].address : k \in 1 .. cur - 1}
        /\ IsFiniteSet(DOMAIN listenerMap) /\ Cardinality(DOMAIN listenerMap) = cur - 1
        /\ \A k \in 1 .. cur - 1 :
              Name(listenerMap[config.listeners[k].address]) = config.listeners[k].handler
      BY <1>1 DEF BInv, Bound, Wired
  <2>5. handlerMap[h] \in S!Positions /\ Name(handlerMap[h]) = h
      BY <2>2 DEF BInv, Names
  <2> USE <1>1, <1>3 DEF Starting, Wired, Ending
  <2>6. Loops'
      BY <2>2, <2>3 DEF Loops
  <2>7. Names'
      BY DEF BInv, Names, Registered, Name, S!Positions
  <2>8. Built'
      BY DEF BInv, Built, Registered, S!Library, S!HasModule, S!Module, S!Positions
  <2>9. Bound'
    <3>1. DOMAIN listenerMap' = DOMAIN listenerMap \cup {addr}
        BY <2>2
    <3>2. 1 .. cur' - 1 = (1 .. cur - 1) \cup {cur}
        BY <2>2, <2>3
    <3>3. DOMAIN listenerMap' = {config.listeners[k].address : k \in 1 .. cur' - 1}
        BY <2>1, <2>4, <3>1, <3>2
    <3>4. IsFiniteSet(DOMAIN listenerMap') /\ Cardinality(DOMAIN listenerMap') = cur' - 1
      <4>1. Cardinality(DOMAIN listenerMap \cup {addr}) = Cardinality(DOMAIN listenerMap) + 1
            /\ IsFiniteSet(DOMAIN listenerMap \cup {addr})
          BY <2>2, <2>4, FS_AddElement
      <4> QED BY <2>2, <2>3, <2>4, <3>1, <4>1
    <3>5. ASSUME NEW k \in 1 .. cur' - 1
          PROVE  Name(listenerMap'[config.listeners[k].address]) = config.listeners[k].handler
      <4>1. CASE k = cur
        <5>1. listenerMap'[addr] = handlerMap[h]
            BY <2>2
        <5> QED BY <2>1, <2>5, <4>1, <5>1
      <4>2. CASE k # cur
        <5>1. k \in 1 .. cur - 1
            BY <3>2, <4>2
        <5>2. config.listeners[k].address \in DOMAIN listenerMap
            BY <2>4, <5>1
        <5>3. listenerMap'[config.listeners[k].address] = listenerMap[config.listeners[k].address]
            BY <2>2, <5>2
        <5> QED BY <2>4, <5>1, <5>3
      <4> QED BY <4>1, <4>2
    <3>6. \A k \in 1 .. cur' - 1 :
              config'.handlers[listenerMap'[config'.listeners[k].address]].name = config'.listeners[k].handler
        BY <3>5 DEF Name
    <3>7. DOMAIN listenerMap' = {config'.listeners[k].address : k \in 1 .. cur' - 1}
        BY <3>3
    <3> QED BY <3>4, <3>6, <3>7 DEF Bound, Name
  <2>10. Counted'
    <3>1. Opened' = Opened /\ Moduled' = Moduled
        BY DEF Opened, Moduled, S!HasModule, S!Module, S!Positions
    <3> QED BY <3>1, CountKept
  <2>11. S!TypeOK'
    <3>1. \A a \in DOMAIN listenerMap : listenerMap[a] \in S!Positions
        BY DEF BInv, S!TypeOK
    <3>2. \A a \in DOMAIN listenerMap' : listenerMap'[a] \in S!Positions
        BY <2>2, <2>5, <3>1
    <3> QED BY <2>2, <2>3, <3>2 DEF BInv, S!TypeOK, S!Steps, S!Positions
  <2> QED BY <2>6, <2>7, <2>8, <2>9, <2>10, <2>11 DEF BInv, Failing, Closed
<1> QED BY <1>1, <1>2, <1>3

\* Steps from one place to the next that build and open nothing.
LEMMA MovesOn ==
    ASSUME BInv, UNCHANGED <<config, refs, objects, modules, handlerMap, listenerMap, handles,
                             thrown, lost, cur>>,
           \/ step = "listeners" /\ step' = "pidfile" /\ cur > Len(config.listeners)
           \/ step = "pidfile" /\ step' \in {"detach", "workers"}
           \/ step = "workers" /\ step' = "running"
           \/ step = "running" /\ step' \in {"stopping", "unwinding"}
           \/ step = "stopping" /\ step' = "closing" /\ handlerMap = S!NoMap,
           workers' = IF step = "workers" THEN Registered ELSE workers,
           pidFile' \in {"absent", "stale", "empty", "guard"}
    PROVE  BInv'
<1> USE DEF Starting, Wired, Ending
<1>1. step \in {"listeners", "pidfile", "workers", "running", "stopping"}
      /\ step' \in {"pidfile", "detach", "workers", "running", "stopping", "unwinding", "closing"}
    OBVIOUS
<1>2. Loops'
  <2>1. cur \in Nat /\ Len(config.listeners) \in Nat
      BY Configured DEF BInv, S!TypeOK
  <2>2. cur # 0 /\ (step' \in Wired => cur = Len(config.listeners) + 1)
      BY <1>1, <2>1 DEF BInv, Loops
  <2> QED BY <1>1, <2>2 DEF Loops
<1>3. Registered' = Registered /\ S!Positions' = S!Positions
      /\ \A i : Name(i)' = Name(i) /\ S!Library(i)' = S!Library(i)
                /\ (S!HasModule(i)' <=> S!HasModule(i)) /\ S!Module(i)' = S!Module(i)
    BY DEF Registered, S!Positions, Name, S!Library, S!Module, S!HasModule
<1>4. Names'
  <2>1. step' = "closing" => Registered = {}
    <3>1. DOMAIN S!NoMap = {}
        BY DEF S!NoMap
    <3> QED BY <1>1, <3>1 DEF Registered
  <2> QED BY <1>1, <1>3, <2>1 DEF BInv, Names
<1>5. Built'
  <2>1. /\ objects = Registered /\ modules = {i \in objects : S!HasModule(i)} /\ ~lost
        /\ handles = {S!Library(i) : i \in S!Positions}
        /\ workers = IF step \in {"running", "stopping"} THEN Registered ELSE {}
      BY <1>1 DEF BInv, Built
  <2>2. workers' = IF step' \in {"running", "stopping", "unwinding"} THEN Registered ELSE {}
    <3>1. step' = "closing" => Registered = {}
        BY <1>1, <1>3 DEF Names, BInv, S!NoMap, Registered
    <3> QED BY <1>1, <2>1, <3>1
  <2> QED BY <1>1, <1>3, <2>1, <2>2 DEF Built
<1>6. Bound'
    BY <1>1 DEF BInv, Bound, Name
<1>7. Counted'
  <2>1. Opened' = Opened /\ Moduled' = Moduled
      BY <1>1, <1>3 DEF Opened, Moduled
  <2> QED BY <1>1, <2>1, CountKept
<1>8. S!TypeOK'
  <2>1. workers' \subseteq objects
      BY <1>1 DEF BInv, S!TypeOK, Built
  <2> QED BY <1>1, <2>1 DEF BInv, S!TypeOK, S!Steps, S!Positions
<1> QED BY <1>1, <1>2, <1>4, <1>5, <1>6, <1>7, <1>8 DEF BInv, Failing, Closed

LEMMA MovingOnKeeps ==
    ASSUME BInv, \/ S!ListenersRegistered \/ S!CheckPidFile \/ S!CreateWorkers
                 \/ S!StopListeners \/ S!RunThrows \/ S!HandlersDestroyed
    PROVE  BInv'
<1> USE DEF S!Goto, S!held
<1>1. pidFile \in {"absent", "stale", "empty", "guard"}
    BY DEF BInv, S!TypeOK
<1>2. CASE S!ListenersRegistered
    BY <1>1, <1>2, MovesOn DEF S!ListenersRegistered
<1>3. CASE S!CheckPidFile
  <2>1. CASE step' = "failed"
      BY <1>3, <2>1, FailedAsIs DEF S!CheckPidFile
  <2>2. CASE step' # "failed"
      BY <1>1, <1>3, <2>2, MovesOn DEF S!CheckPidFile
  <2> QED BY <2>1, <2>2
<1>4. CASE S!CreateWorkers
    BY <1>1, <1>4, MovesOn DEF S!CreateWorkers, Registered
<1>5. CASE S!StopListeners
    BY <1>1, <1>5, MovesOn DEF S!StopListeners
<1>6. CASE S!HandlersDestroyed
    BY <1>1, <1>6, MovesOn DEF S!HandlersDestroyed
<1>7. CASE S!RunThrows
    BY <1>1, <1>7, MovesOn DEF S!RunThrows
<1> QED BY <1>2, <1>3, <1>4, <1>5, <1>6, <1>7

\* stop() takes the handler whose name is the least.
LEMMA TheLeast ==
    ASSUME BInv, handlerMap # S!NoMap
    PROVE  /\ S!Least(DOMAIN handlerMap) \in DOMAIN handlerMap
           /\ handlerMap[S!Least(DOMAIN handlerMap)] \in Registered
           /\ Registered \subseteq S!Positions
<1>1. /\ handlerMap \in [DOMAIN handlerMap -> S!Positions]
      /\ \A n \in DOMAIN handlerMap : Name(handlerMap[n]) = n
    BY DEF BInv, Names
<1>2. DOMAIN handlerMap # {}
    BY <1>1 DEF S!NoMap
<1>3. DOMAIN handlerMap \subseteq Nat
  <2>1. \A i \in S!Positions : Name(i) \in Nat
      BY Configured DEF BInv
  <2> QED BY <1>1, <2>1
<1>4. S!Least(DOMAIN handlerMap) \in DOMAIN handlerMap
    BY <1>2, <1>3, LeastIn
<1> QED BY <1>1, <1>4 DEF Registered

LEMMA DestroyHandlerKeeps == BInv /\ S!DestroyHandler => BInv'
<1> SUFFICES ASSUME BInv, S!DestroyHandler PROVE BInv'
    OBVIOUS
<1>1. /\ handlerMap # S!NoMap /\ step = "stopping" /\ step' = "unloading"
      /\ cur' = handlerMap[S!Least(DOMAIN handlerMap)]
      /\ workers' = workers \ {cur'} /\ modules' = modules \ {cur'}
      /\ UNCHANGED <<config, refs, handles, objects, handlerMap, listenerMap, thrown, lost, pidFile>>
    BY DEF S!DestroyHandler, S!Goto
<1>2. cur' \in Registered /\ Registered \subseteq S!Positions
    BY <1>1, TheLeast
<1>3. cur' \in Nat /\ cur' # 0
  <2>1. Len(config.handlers) \in Nat /\ S!Positions = 1 .. Len(config.handlers)
      BY Configured DEF BInv
  <2> QED BY <1>2, <2>1
<1> USE <1>1 DEF Starting, Wired, Ending
<1>4. Registered' = Registered /\ S!Positions' = S!Positions
      /\ \A i : Name(i)' = Name(i) /\ S!Library(i)' = S!Library(i)
                /\ (S!HasModule(i)' <=> S!HasModule(i)) /\ S!Module(i)' = S!Module(i)
    BY DEF Registered, S!Positions, Name, S!Library, S!Module, S!HasModule
<1>5. Loops'
    BY <1>3 DEF Loops, S!Least, S!NoMap
<1>6. Names'
    BY <1>4 DEF BInv, Names
<1>7. Built'
  <2>1. /\ objects = Registered /\ modules = {i \in objects : S!HasModule(i)} /\ ~lost
        /\ handles = {S!Library(i) : i \in S!Positions} /\ workers = Registered
      BY DEF BInv, Built
  <2> QED BY <1>4, <2>1 DEF Built
<1>8. Bound'
    BY DEF Bound
<1>9. Counted'
  <2>1. Opened' = Opened /\ Moduled' = Moduled
      BY <1>4 DEF Opened, Moduled
  <2> QED BY <2>1, CountKept
<1>10. S!TypeOK'
    BY <1>3 DEF BInv, S!TypeOK, S!Steps, S!Positions
<1> QED BY <1>5, <1>6, <1>7, <1>8, <1>9, <1>10 DEF BInv, Failing, Closed

LEMMA UnloadModuleKeeps == BInv /\ S!UnloadModule => BInv'
<1> SUFFICES ASSUME BInv, S!UnloadModule PROVE BInv'
    OBVIOUS
<1>1. PICK n : n = S!Least(DOMAIN handlerMap)
    OBVIOUS
<1>2. /\ step = "unloading" /\ step' = "stopping"
      /\ IF S!HasModule(cur) THEN refs' = [refs EXCEPT ![S!Module(cur)] = refs[S!Module(cur)] - 1]
                             ELSE refs' = refs
      /\ objects' = objects \ {cur}
      /\ handlerMap' = [k \in DOMAIN handlerMap \ {n} |-> handlerMap[k]]
      /\ UNCHANGED <<config, cur, handles, modules, workers, listenerMap, thrown, lost, pidFile>>
    BY <1>1 DEF S!UnloadModule, S!Goto, S!Close, S!Without
<1>3. /\ n \in DOMAIN handlerMap /\ cur = handlerMap[n] /\ cur \in Registered
      /\ Registered \subseteq S!Positions
    BY <1>1, <1>2, TheLeast DEF BInv, Loops
<1> USE <1>2 DEF Starting, Wired, Ending
<1>4. /\ handlerMap \in [DOMAIN handlerMap -> S!Positions]
      /\ \A k \in DOMAIN handlerMap : Name(handlerMap[k]) = k
    BY DEF BInv, Names
<1>5. DOMAIN handlerMap' = DOMAIN handlerMap \ {n}
      /\ \A k \in DOMAIN handlerMap' : handlerMap'[k] = handlerMap[k]
    OBVIOUS
<1>6. Registered' = Registered \ {cur}
  <2>1. \A k \in DOMAIN handlerMap : handlerMap[k] = cur => k = n
      BY <1>3, <1>4
  <2> QED BY <1>3, <1>5, <2>1 DEF Registered
<1>7. S!Positions' = S!Positions
      /\ \A i : Name(i)' = Name(i) /\ S!Library(i)' = S!Library(i)
                /\ (S!HasModule(i)' <=> S!HasModule(i)) /\ S!Module(i)' = S!Module(i)
    BY DEF S!Positions, Name, S!Library, S!Module, S!HasModule
<1>8. /\ objects = Registered /\ modules = {i \in objects : S!HasModule(i)} \ {cur} /\ ~lost
      /\ handles = {S!Library(i) : i \in S!Positions} /\ workers = Registered \ {cur}
    BY DEF BInv, Built
<1>9. Loops'
    BY DEF BInv, Loops
<1>10. Names'
  <2>1. handlerMap' \in [DOMAIN handlerMap' -> S!Positions]
      BY <1>4, <1>5
  <2>2. \A k \in DOMAIN handlerMap' : Name(handlerMap'[k]) = k
      BY <1>4, <1>5
  <2>3. \A k \in DOMAIN handlerMap' : config'.handlers[handlerMap'[k]].name = k
      BY <2>2 DEF Name
  <2> QED BY <1>7, <2>1, <2>3 DEF Names, Name
<1>11. Built'
    BY <1>6, <1>7, <1>8 DEF Built
<1>12. Bound'
    BY DEF Bound
<1>13. Counted' /\ refs' \in [Libraries -> Nat]
  <2>1. Opened' = Opened
      BY <1>7 DEF Opened
  <2>2. CASE S!HasModule(cur)
    <3>1. cur \in Moduled /\ Moduled' = Moduled \ {cur}
        BY <1>3, <1>7, <1>8, <2>2 DEF Moduled
    <3> QED BY <1>3, <2>1, <2>2, <3>1, CountModule
  <2>3. CASE ~S!HasModule(cur)
    <3>1. Moduled' = Moduled
        BY <1>7, <2>3 DEF Moduled
    <3>2. refs \in [Libraries -> Nat]
        BY DEF BInv, S!TypeOK
    <3> QED BY <2>1, <2>3, <3>1, <3>2, CountKept
  <2> QED BY <2>2, <2>3
<1>14. S!TypeOK'
  <2>1. \A k \in DOMAIN handlerMap' : handlerMap'[k] \in S!Positions
      BY <1>4, <1>5
  <2> QED BY <1>8, <1>13, <2>1 DEF BInv, S!TypeOK, S!Steps, S!Positions
<1> QED BY <1>9, <1>10, <1>11, <1>12, <1>13, <1>14 DEF BInv, Failing, Closed

\* ~ThreadServer_t() closes what was opened, whether or not stop() has run.
LEMMA ClosedOnce ==
    ASSUME BInv, S!CloseHandles, NEW l \in Libraries
    PROVE  /\ refs'[l] \in Nat
           /\ Users(l) # {} => refs'[l] > 0
           /\ Users(l) = {} => (refs'[l] > 0 =>
                  Cardinality({i \in S!Positions : S!Library(i) = l}) > refs'[l])
<1>1. /\ step \in {"closing", "unwinding"}
      /\ refs' = [k \in Libraries |-> IF k \in handles THEN refs[k] - 1 ELSE refs[k]]
    BY DEF S!CloseHandles, S!Goto
<1>2. handles = {S!Library(i) : i \in S!Positions}
    BY <1>1 DEF BInv, Built, Wired, Ending
<1>3. Openers(l) = {i \in S!Positions : S!Library(i) = l}
    BY <1>1 DEF Openers, Opened, Starting
<1>4. refs[l] = Cardinality(Openers(l)) + Cardinality(Users(l))
    BY <1>1 DEF BInv, Counted
<1>5. /\ Cardinality(Openers(l)) \in Nat /\ (Openers(l) # {} => Cardinality(Openers(l)) > 0)
      /\ Cardinality(Users(l)) \in Nat /\ (Users(l) # {} => Cardinality(Users(l)) > 0)
    BY Finite DEF BInv, S!TypeOK
<1>6. Users(l) = {} => Cardinality(Users(l)) = 0
    BY FS_EmptySet
<1>7. CASE l \in handles
  <2>1. Openers(l) # {} /\ refs'[l] = refs[l] - 1
      BY <1>1, <1>2, <1>3, <1>7
  <2> QED BY <1>3, <1>4, <1>5, <1>6, <2>1
<1>8. CASE l \notin handles
  <2>1. Openers(l) = {} /\ refs'[l] = refs[l]
      BY <1>1, <1>2, <1>3, <1>8
  <2>2. Cardinality(Openers(l)) = 0
      BY <2>1, FS_EmptySet
  <2> QED BY <1>4, <1>5, <1>6, <2>1, <2>2
<1> QED BY <1>7, <1>8

LEMMA CloseHandlesKeeps == BInv /\ S!CloseHandles => BInv'
<1> SUFFICES ASSUME BInv, S!CloseHandles PROVE BInv'
    OBVIOUS
<1>1. /\ \/ step = "closing" /\ step' = "exited"
         \/ step = "unwinding" /\ step' = "failed"
      /\ listenerMap' = S!NoMap /\ handles' = {}
      /\ UNCHANGED <<config, cur, objects, modules, workers, handlerMap, thrown, lost, pidFile>>
    BY DEF S!CloseHandles, S!Goto
<1> USE <1>1 DEF Starting, Wired, Ending
<1>2. S!TypeOK'
  <2>1. refs' \in [Libraries -> Nat]
    <3>1. refs' = [l \in Libraries |-> IF l \in handles THEN refs[l] - 1 ELSE refs[l]]
        BY DEF S!CloseHandles
    <3>2. \A l \in Libraries : refs'[l] \in Nat
        BY ClosedOnce
    <3> QED BY <3>1, <3>2
  <2> QED BY <2>1 DEF BInv, S!TypeOK, S!Steps, S!Positions, S!NoMap
<1>3. Loops' /\ Bound' /\ Counted'
    BY DEF BInv, Loops, Bound, Counted
<1>4. Names'
    BY DEF BInv, Names, Registered, Name, S!Positions
<1>5. Built' /\ Closed' /\ Failing'
  <2>1. CASE step = "closing"
    <3>1. Registered = {} /\ objects = {} /\ modules = {} /\ workers = {} /\ ~lost
        BY <2>1 DEF BInv, Names, Built
    <3>2. Built'
        BY <2>1, <3>1 DEF Built, Registered
    <3>3. \A l \in Libraries : Users(l) = {}
        BY <2>1, <3>1 DEF Users, Moduled
    <3>4. Closed'
        BY <3>3, ClosedOnce DEF Closed, S!Positions, S!Library
    <3> QED BY <2>1, <3>2, <3>4 DEF Failing
  <2>2. CASE step = "unwinding"
    <3>1. objects = Registered /\ workers = Registered /\ modules = {i \in objects : S!HasModule(i)}
          /\ ~lost /\ objects \subseteq S!Positions
        BY <2>2 DEF BInv, Built, S!TypeOK
    <3>2. \A i \in objects : S!Unwound'
        BY <2>2, <3>1 DEF S!Unwound
    <3>3. ASSUME NEW i \in modules PROVE refs'[S!Module(i)] > 0
      <4>1. i \in Users(S!Module(i)) /\ S!Module(i) \in Libraries
          BY <3>1, <3>3, Configured DEF BInv, Users, Moduled
      <4> QED BY <4>1, ClosedOnce
    <3>4. S!CodeIsLoaded'
        BY <3>1, <3>2, <3>3 DEF S!CodeIsLoaded, S!Module, S!HasModule
    <3> QED BY <2>2, <3>4 DEF Built, Closed, Failing
  <2> QED BY <2>1, <2>2
<1> QED BY <1>2, <1>3, <1>4, <1>5 DEF BInv

LEMMA StartupKeeps == BInv /\ S!Next => BInv'
BY ReadConfigurationKeeps, OpenLibraryKeeps, HandlersRegisteredKeeps, FindSymbolKeeps,
   ConstructHandlerKeeps, LoadModuleKeeps, CloseRefusedKeeps, InsertHandlerKeeps,
   RegisterListenerKeeps, MovingOnKeeps, DestroyHandlerKeeps, UnloadModuleKeeps, CloseHandlesKeeps
   DEF S!Next

\* At detach() the constructor has ended: what goes on is the daemon.
LEMMA DetachWaits == S!Next => step # "detach"
BY DEF S!Next, S!Goto, S!ReadConfiguration, S!OpenLibrary, S!HandlersRegistered, S!FindSymbol,
       S!ConstructHandler, S!LoadModule, S!CloseRefused, S!InsertHandler, S!RegisterListener,
       S!ListenersRegistered, S!CheckPidFile, S!CreateWorkers, S!StopListeners, S!DestroyHandler,
       S!UnloadModule, S!HandlersDestroyed, S!RunThrows, S!CloseHandles

\* The invariant does not say what the pid file holds.
LEMMA ElsewhereKeeps ==
    ASSUME BInv, UNCHANGED built, pidFile' \in {"absent", "stale", "empty", "guard"}
    PROVE  BInv'
<1> USE DEF built
<1>1. S!TypeOK'
    BY DEF BInv, S!TypeOK, S!Positions
<1>2. Loops'
    BY DEF BInv, Loops, S!HasModule, S!Module, S!Least, S!NoMap
<1>3. Names'
    BY DEF BInv, Names, Registered, Name, S!Positions
<1>4. Built'
    BY DEF BInv, Built, Registered, S!Library, S!HasModule, S!Module, S!Positions
<1>5. Bound'
    BY DEF BInv, Bound, Name
<1>6. Counted'
    BY DEF BInv, Counted, Openers, Opened, Users, Moduled, S!Library, S!HasModule, S!Module, S!Positions
<1>7. Failing' /\ Closed'
    BY DEF BInv, Failing, Closed, S!CodeIsLoaded, S!Unwound, S!Library, S!HasModule, S!Module, S!Positions
<1> QED BY <1>1, <1>2, <1>3, <1>4, <1>5, <1>6, <1>7 DEF BInv

-----------------------------------------------------------------------------
(* The daemon and the guard.                                               *)

\* The process forks when the constructor stands at detach(), and there is a
\* guard when its number is in the file.
Detached ==
    /\ daemon \in {"foreground", "child", "leader", "orphan", "rooted", "guard", "gone"}
    /\ launcher \in {"running", "exit0", "exit1"}
    /\ daemon # "foreground" => step = "detach"
    /\ gpc # "pidfile" => /\ daemon = "guard"
                          /\ config.pidFile /\ ~config.relative => pidFile = "guard"

SInv == GInv /\ BInv /\ Detached

\* To the guard a step of the service is one of its own, or execv() that does
\* not find the program, which no bound of the guard's is left for.
LEMMA GuardSees == [ServiceNext]_all => [Next]_vars \/ \E p \in Pids : ExecFails(p)
BY DEF ServiceNext, Start, FirstFork, BecomeDaemon, WritePid, PidFileFails, Supervise, Disturb, Serve,
       Take, TakeIn, Next, GuardStep, Taken, all, startup

LEMMA InitSInv == ServiceInit => SInv
<1> SUFFICES ASSUME ServiceInit PROVE SInv
    OBVIOUS
<1>1. GInv /\ BInv
    BY InitGInv, InitBInv DEF ServiceInit
<1>2. Detached
    BY DEF ServiceInit, Init, Detached
<1> QED BY <1>1, <1>2 DEF SInv

LEMMA ExecFailsKeeps ==
    ASSUME GInv, NEW p \in Pids, ExecFails(p)
    PROVE  GInv' /\ strays' = strays /\ gpc' = gpc /\ (MaxFaults > 0 => faults' # 0)
<1> USE MaxForksNat, BoundsAssumption DEF ExecFails, Ends, Becomes
<1>1. TypeOK'
    BY DEF GInv, TypeOK, ServerStates, Live, Statuses
<1>2. Custody'
    BY DEF GInv, TypeOK, Custody, Gone, Live
<1> QED BY <1>1, <1>2 DEF GInv, TypeOK

LEMMA NextSInv == SInv /\ [ServiceNext]_all => SInv'
<1> SUFFICES ASSUME SInv, [ServiceNext]_all PROVE SInv'
    OBVIOUS
<1> USE DEF SInv
<1>1. GInv'
    BY GuardSees, NextGInv, ExecFailsKeeps
<1>2. pidFile \in {"absent", "stale", "empty", "guard"}
    BY DEF BInv, S!TypeOK
<1>3. BInv'
  <2>1. CASE Start
      BY <2>1, StartupKeeps DEF Start
  <2>2. CASE WritePid
      BY <1>2, <2>2, ElsewhereKeeps DEF WritePid
  <2>3. CASE ~Start /\ ~WritePid
    <3>1. UNCHANGED startup
        BY <2>3 DEF ServiceNext, FirstFork, BecomeDaemon, PidFileFails, Supervise, Disturb, Serve,
                    ExecFails, Take, TakeIn, all
    <3> QED BY <1>2, <3>1, ElsewhereKeeps DEF startup
  <2> QED BY <2>1, <2>2, <2>3
<1>4. Detached'
  <2> USE DEF Detached
  <2>1. CASE Start
    <3>1. step # "detach" /\ UNCHANGED <<vars, daemon>>
        BY <2>1, DetachWaits DEF Start
    <3>2. launcher' \in {"running", "exit0", "exit1"}
        BY <2>1 DEF Start
    <3> QED BY <3>1, <3>2 DEF vars
  <2>2. CASE FirstFork
      BY <2>2 DEF FirstFork, startup, built, vars
  <2>3. CASE BecomeDaemon
    <3>1. DOMAIN NextPlace = {"child", "leader", "orphan", "rooted"}
          /\ \A d \in DOMAIN NextPlace : NextPlace[d] \in {"leader", "orphan", "rooted", "guard"}
        BY DEF NextPlace
    <3>2. daemon \in DOMAIN NextPlace /\ daemon' \in {NextPlace[daemon], "gone"}
          /\ UNCHANGED <<vars, startup, launcher>>
        BY <2>3 DEF BecomeDaemon
    <3> QED BY <3>1, <3>2 DEF startup, built, vars
  <2>4. CASE WritePid
      BY <2>4 DEF WritePid, built, detaching
  <2>5. CASE PidFileFails
      BY <2>5 DEF PidFileFails, startup, built, vars
  <2>6. ASSUME gpc = "pidfile" => gpc' = "pidfile", UNCHANGED <<startup, detaching>> PROVE Detached'
      BY <2>6 DEF startup, built, detaching
  <2>7. CASE UNCHANGED all
      BY <2>6, <2>7 DEF all, vars
  <2>8. CASE Supervise
      BY <2>6, <2>8 DEF Supervise
  <2>9. CASE Disturb
    <3>1. gpc = "pidfile" => gpc' = "pidfile"
        BY <2>9 DEF Disturb, ForkFails, StartFails, Dies, Ends, Becomes, Send
    <3> QED BY <2>6, <2>9, <3>1 DEF Disturb
  <2>10. ASSUME NEW p \in Pids, Serve(p) \/ ExecFails(p) PROVE Detached'
    <3>1. gpc' = gpc
        BY <2>10 DEF Serve, ExecFails, ServerStep, ClearChildPid, Exec, InstallHandlers, StartServing,
                     LeavePoll, Finish, Ends, Becomes
    <3>2. UNCHANGED <<startup, detaching>>
        BY <2>10 DEF Serve, ExecFails
    <3> QED BY <2>6, <3>1, <3>2
  <2>11. ASSUME NEW sig \in Signals, Take(sig) \/ \E p \in Pids : TakeIn(p, sig) PROVE Detached'
    <3>1. gpc' = gpc
        BY <2>11 DEF Take, TakeIn, GuardTakes, ServerTakes, ImageTakes, Ends, Becomes
    <3>2. UNCHANGED <<startup, detaching>>
        BY <2>11 DEF Take, TakeIn
    <3> QED BY <2>6, <3>1, <3>2
  <2> QED BY <2>1, <2>2, <2>3, <2>4, <2>5, <2>7, <2>8, <2>9, <2>10, <2>11 DEF ServiceNext
<1> QED BY <1>1, <1>3, <1>4

LEMMA ServiceInvariant == ServiceSpec => []SInv
BY InitSInv, NextSInv, PTL DEF ServiceSpec

\* Startup's instance of the library counts as the library does.
LEMMA SameCount == \A X : S!Cardinality(X) = Cardinality(X)
BY DEF S!Cardinality, Cardinality

-----------------------------------------------------------------------------
\* Every variable of the service keeps its type.
THEOREM ServiceTypeOKAlways == ServiceSpec => []ServiceTypeOK
<1>1. SInv => ServiceTypeOK
    BY DEF SInv, GInv, BInv, Detached, ServiceTypeOK
<1> QED BY <1>1, ServiceInvariant, PTL

\* No object outlives the library its code is in, whichever handlers share a
\* library or a module with it and wherever the constructor fails; after a
\* run() that throws only the libraries of the modules are still open.  The
\* message of an exception is lost only when its class had no other user.
THEOREM CodeIsLoadedAlways == ServiceSpec => []CodeIsLoaded
<1>1. SInv => CodeIsLoaded
    BY Loaded DEF SInv, CodeIsLoaded
<1> QED BY <1>1, ServiceInvariant, PTL

\* A process that detaches or serves has a handler for each entry of its
\* configuration and each listener bound to the handler it names.
THEOREM WiredAsConfiguredAlways == ServiceSpec => []WiredAsConfigured
<1>1. SInv => WiredAsConfigured
  <2> SUFFICES ASSUME BInv, step \in {"detach", "running"} PROVE S!WiredAsConfigured
      BY DEF SInv, WiredAsConfigured, S!WiredAsConfigured
  <2> USE DEF BInv, Wired, Starting
  <2>1. Registered = S!Positions /\ objects = S!Positions
      BY DEF Names, Built
  <2>2. \A i \in S!Positions : handlerMap[config.handlers[i].name] = i
      BY <2>1 DEF Registered, Names, Name
  <2>3. 1 .. cur - 1 = DOMAIN config.listeners /\ cur - 1 = Len(config.listeners)
    <3>1. cur = Len(config.listeners) + 1
        BY DEF Loops
    <3> QED BY <3>1, Configured
  <2>4. Cardinality(DOMAIN listenerMap) = Len(config.listeners)
        /\ \A k \in DOMAIN config.listeners :
              Name(listenerMap[config.listeners[k].address]) = config.listeners[k].handler
      BY <2>3 DEF Bound
  <2> QED BY <2>1, <2>2, <2>4, SameCount DEF S!WiredAsConfigured, Name
<1> QED BY <1>1, ServiceInvariant, PTL

\* A server that has ended has deleted and closed everything, but for a
\* library that several handlers share.
THEOREM ClosedUnlessSharedAlways == ServiceSpec => []ClosedUnlessShared
<1>1. SInv => ClosedUnlessShared
  <2> SUFFICES ASSUME BInv, step = "exited" PROVE S!ClosedUnlessShared
      BY DEF SInv, ClosedUnlessShared, S!ClosedUnlessShared
  <2>1. objects = {} /\ modules = {} /\ workers = {}
      BY DEF BInv, Names, Built
  <2> QED BY <2>1, SameCount DEF BInv, Closed, S!ClosedUnlessShared
<1> QED BY <1>1, ServiceInvariant, PTL

\* While a server of the guard lives, the pid file names the guard.
THEOREM PidFileNamesGuardAlways == ServiceSpec => []PidFileNamesGuard
<1>1. SInv => PidFileNamesGuard
  <2> SUFFICES ASSUME SInv, NEW p \in Pids, IsLive(p), config.pidFile, ~config.relative
               PROVE  pidFile = "guard"
      BY DEF PidFileNamesGuard
  <2>1. gpc # "pidfile"
      BY DEF SInv, GInv, Custody, Gone, IsLive, Live
  <2> QED BY <2>1 DEF SInv, Detached
<1> QED BY <1>1, ServiceInvariant, PTL

\* No process is forked that has worker threads: from the first fork of
\* detach() on there are none.
THEOREM ForksAreSingleThreadedAlways == ServiceSpec => []ForksAreSingleThreaded
<1>1. SInv => ForksAreSingleThreaded
    BY DEF SInv, BInv, Detached, Built, ForksAreSingleThreaded
<1> QED BY <1>1, ServiceInvariant, PTL

\* The guard of a whole service runs one server at a time, too: the command
\* line, detach() and an execv() that fails take nothing from its custody.
THEOREM ServiceOneServer == ServiceSpec => []OneServer
<1>1. SInv => OneServer
    BY GInvOneServer DEF SInv
<1> QED BY <1>1, ServiceInvariant, PTL

\* An execv() that fails is a fault, as long as the bound lets it be seen:
\* but for faults and shutdown requests the service goes on.
THEOREM ServiceReopenIsHarmless == ASSUME MaxFaults > 0 PROVE ServiceSpec => []ReopenIsHarmless
<1>1. SInv /\ Quiet => ReopenIsHarmless
    BY BoundsAssumption DEF SInv, GInv, TypeOK, Quiet, ReopenIsHarmless
<1>2. SInv /\ Quiet /\ [ServiceNext]_all => Quiet'
  <2> SUFFICES ASSUME SInv, Quiet, [ServiceNext]_all PROVE Quiet'
      OBVIOUS
  <2>1. CASE [Next]_vars
      BY <2>1, NextQuiet DEF SInv
  <2>2. ASSUME NEW p \in Pids, ExecFails(p) PROVE Quiet'
    <3>1. faults' # 0
        BY <2>2, ExecFailsKeeps DEF SInv
    <3> QED BY <3>1 DEF Quiet
  <2> QED BY <2>1, <2>2, GuardSees
<1>3. ServiceInit => Quiet
    BY InitQuiet DEF ServiceInit
<1> QED BY <1>1, <1>2, <1>3, ServiceInvariant, PTL DEF ServiceSpec

\* The same of the guard of a whole service, also after an execv() that fails.
THEOREM ServiceStrays == ServiceSpec => StraysOnlyBetweenServers
<1>1. SInv /\ [ServiceNext]_all => [strays' # strays => BetweenServers]_vars
    BY GuardSees, NextStrays, ExecFailsKeeps DEF SInv
<1>2. ServiceSpec => [][strays' # strays => BetweenServers]_vars
    BY <1>1, ServiceInvariant, PTL DEF ServiceSpec
<1> QED BY <1>2 DEF StraysOnlyBetweenServers, BetweenServers

-----------------------------------------------------------------------------
(* The address lists of a listener (ThreadServer_t::registerListeners).    *)

\* The subtraction leaves the first n bits, and the bit above all of them when
\* there is nothing to subtract.
LEMMA SubtractMeaning ==
    ASSUME W \in Nat \ {0}, NEW n \in Nat, NEW low, low = IF n <= W THEN {W - n} ELSE {}
    PROVE  Subtract({W}, low) = IF n <= W THEN {b \in Bits : b >= W - n} ELSE {W}
<1>1. ASSUME n > W PROVE Subtract({W}, low) = {W}
    BY <1>1 DEF Subtract, Lends, Register
<1>2. ASSUME n = 0 PROVE Subtract({W}, low) = {}
    BY <1>2 DEF Subtract, Lends, Register
<1>3. ASSUME n \in 1 .. W PROVE Subtract({W}, low) = {b \in Bits : b >= W - n}
  <2>1. low = {W - n} /\ low \ {W} = {W - n} /\ {W} \ low = {W}
      BY <1>3
  <2>2. ASSUME NEW i \in Register PROVE Lends({W}, low, i) <=> W - n < i /\ i <= W
      BY <2>1, <1>3 DEF Lends, Register
  <2>3. ASSUME NEW i \in Register
        PROVE  (i \in {W} <=> (i \in low <=> Lends({W}, low, i))) <=> i < W /\ i >= W - n
    <3>1. i \in Int /\ W - n \in Int /\ W - n < W
        BY <1>3 DEF Register
    <3>2. i \in low <=> i = W - n
        BY <2>1
    <3>3. Lends({W}, low, i) <=> W - n < i /\ i <= W
        BY <2>2
    <3>4. CASE i < W - n
        BY <3>1, <3>2, <3>3, <3>4
    <3>5. CASE i = W - n
        BY <3>1, <3>2, <3>3, <3>5
    <3>6. CASE W - n < i
        BY <3>1, <3>2, <3>3, <3>6
    <3> QED BY <3>1, <3>4, <3>5, <3>6
  <2>4. Bits \subseteq Register /\ \A i \in Register : i < W /\ i >= W - n => i \in Bits
      BY DEF Register, Bits
  <2>5. \A i \in Bits : i < W
      BY DEF Bits
  <2>6. Subtract({W}, low) = {i \in Register : i < W /\ i >= W - n}
      BY <2>3 DEF Subtract
  <2> QED BY <2>4, <2>5, <2>6
<1>4. {b \in Bits : b >= W - 0} = {}
    BY DEF Bits
<1>5. CASE n = 0
    BY <1>2, <1>4, <1>5
<1>6. CASE n \in 1 .. W
    BY <1>3, <1>6
<1>7. CASE n > W
    BY <1>1, <1>7
<1> QED BY <1>5, <1>6, <1>7

\* The processor shifts by the length modulo the width of its register: a
\* length whose remainder exceeds an address leaves the bit above all of them.
LEMMA NetmaskOfLength ==
    ASSUME W \in Nat \ {0}, NEW length, NEW n \in 0 .. 2 * W - 1, n = length % (2 * W)
    PROVE  NetmaskAsInt(length) = IF n <= W THEN {b \in Bits : b >= W - n} ELSE {W}
<1>1. ShiftRight({W}, length) = IF n <= W THEN {W - n} ELSE {}
    BY DEF ShiftRight, Register
<1>2. n \in Nat
    OBVIOUS
<1>3. Subtract({W}, ShiftRight({W}, length)) = IF n <= W THEN {b \in Bits : b >= W - n} ELSE {W}
    BY <1>1, <1>2, SubtractMeaning
<1> QED BY <1>3 DEF NetmaskAsInt

\* A length that is taken yields the mask of its leading bits, which are no
\* more than an address has.
LEMMA LengthMeaning ==
    ASSUME NEW e \in Entries, e.kind = "length", ValidEntry(e)
    PROVE  /\ LeadingBits(e) <= W
           /\ NetmaskAsInt(e.length) = {b \in Bits : b >= W - LeadingBits(e)}
<1>1. W \in Nat \ {0} /\ e.length \in Int
    BY EntriesAssumption, WidthAssumption
<1>2. PICK n \in 0 .. 2 * W - 1 : n = e.length % (2 * W)
    BY <1>1
<1>3. NetmaskAsInt(e.length) = IF n <= W THEN {b \in Bits : b >= W - n} ELSE {W}
    BY <1>1, <1>2, NetmaskOfLength
<1>4. NetmaskAsInt(e.length) \subseteq 0 .. W - 1
    BY DEF ValidEntry, Bits
<1>5. n <= W
    BY <1>1, <1>3, <1>4
<1> QED BY <1>2, <1>3, <1>5 DEF LeadingBits

\* What an item that is taken contains is what it names.
LEMMA ContainsMeaning ==
    ASSUME NEW e \in Entries, ValidEntry(e), NEW a \in Addresses
    PROVE  Contains(Parse(e), a) <=> NamedBy(e, a)
<1> USE DEF Contains, Parse, NamedBy, Netmask, Addresses
<1>0. e.address \in SUBSET Bits
    BY EntriesAssumption
<1>1. CASE e.kind = "host"
    BY <1>0, <1>1
<1>2. CASE e.kind = "dotted"
    BY <1>0, <1>2, EntriesAssumption
<1>3. CASE e.kind = "length"
  <2>1. NetmaskAsInt(e.length) = {b \in Bits : b >= W - LeadingBits(e)}
      BY <1>3, LengthMeaning
  <2>2. /\ Contains(Parse(e), a) <=> a \cap NetmaskAsInt(e.length) = e.address \cap NetmaskAsInt(e.length)
        /\ NamedBy(e, a) <=> \A b \in Bits : b >= W - LeadingBits(e) => (b \in a <=> b \in e.address)
      BY <1>3
  <2>3. a \subseteq Bits /\ e.address \subseteq Bits
      BY <1>0
  <2> QED BY <2>1, <2>2, <2>3
<1> QED BY <1>1, <1>2, <1>3, EntriesAssumption

\* The list kept is the list written, item by item, and every item was taken.
Kept(written, kept) ==
    /\ written \in Seq(Entries)
    /\ DOMAIN kept = DOMAIN written
    /\ kept \in Seq({Parse(e) : e \in Entries})
    /\ \A i \in DOMAIN written : ValidEntry(written[i]) /\ kept[i] = Parse(written[i])

\* The lists are kept as long as the process starts up; the listener has no
\* client before, and the verdict on the last one after.
AInv ==
    /\ items = [allow |-> items.allow, deny |-> items.deny]
    /\ phase # "refused" => Kept(items.allow, allowed) /\ Kept(items.deny, denied)
    /\ phase = "serving" =>
          /\ first = TRUE
          /\ client \in Addresses \cup {V6}
          /\ verdict = IsForbidden(TRUE, allowed, denied, client)
    /\ phase \notin {"serving", "refused"} => client = V6 /\ verdict = TRUE

LEMMA KeepOne ==
    ASSUME NEW written, NEW kept, Kept(written, kept), NEW e \in Entries, ValidEntry(e)
    PROVE  Kept(Append(written, e), Append(kept, Parse(e)))
<1>1. /\ Append(written, e) \in Seq(Entries) /\ Len(Append(written, e)) = Len(written) + 1
      /\ Append(kept, Parse(e)) \in Seq({Parse(d) : d \in Entries})
      /\ Len(Append(kept, Parse(e))) = Len(kept) + 1 /\ Len(kept) = Len(written)
    BY DEF Kept
<1>2. ASSUME NEW i \in 1 .. Len(written) + 1
      PROVE  /\ ValidEntry(Append(written, e)[i])
             /\ Append(kept, Parse(e))[i] = Parse(Append(written, e)[i])
  <2>1. CASE i = Len(written) + 1
      BY <1>1, <2>1 DEF Kept
  <2>2. CASE i # Len(written) + 1
    <3>1. i \in DOMAIN written /\ Append(written, e)[i] = written[i] /\ Append(kept, Parse(e))[i] = kept[i]
        BY <1>1, <2>2 DEF Kept
    <3> QED BY <3>1 DEF Kept
  <2> QED BY <2>1, <2>2
<1> QED BY <1>1, <1>2 DEF Kept

LEMMA InitAInv == AccessInit => AInv
<1> SUFFICES ASSUME AccessInit PROVE AInv
    OBVIOUS
<1>1. Kept(<<>>, <<>>)
    BY DEF Kept
<1> QED BY <1>1 DEF AccessInit, AInv

LEMMA NextAInv == AInv /\ [AccessNext]_accessvars => AInv'
<1> SUFFICES ASSUME AInv, [AccessNext]_accessvars PROVE AInv'
    OBVIOUS
<1>1. ASSUME NEW o \in Orders \cup {"other"}, ReadOrder(o) PROVE AInv'
    BY <1>1 DEF AInv, ReadOrder
<1>2. ASSUME NEW e \in Entries, ReadAllow(e) PROVE AInv'
    BY <1>2, KeepOne DEF AInv, ReadAllow
<1>3. ASSUME NEW e \in Entries, ReadDeny(e) PROVE AInv'
    BY <1>3, KeepOne DEF AInv, ReadDeny
<1>4. CASE AllowRead \/ ConstructFails
    BY <1>4 DEF AInv, AllowRead, ConstructFails
<1>5. CASE ConstructListener
    BY <1>5 DEF AInv, ConstructListener, IsForbidden
<1>6. ASSUME NEW a \in Addresses \cup {V6}, Accept(a) PROVE AInv'
    BY <1>6 DEF AInv, Accept
<1>7. CASE UNCHANGED accessvars
    BY <1>7 DEF AInv, accessvars
<1> QED BY <1>1, <1>2, <1>3, <1>4, <1>5, <1>6, <1>7 DEF AccessNext

\* Whatever lists of hosts, masks and prefixes of any length a listener has,
\* with Order allow,deny it serves exactly the IPv4 clients that an Allow item
\* names and no Deny item does, a length naming by its value modulo the width
\* of the register, and it does not serve at all with a length that yields no
\* mask (Network_t::parse, Network_t::contains, Listener_t::isForbidden).
THEOREM AllowDenyMeaningAlways == AccessSpec => []AllowDenyMeaning
<1>1. ASSUME AInv, phase = "serving"
      PROVE  \A list \in {items.allow, items.deny} : \A i \in DOMAIN list :
                 list[i].kind = "length" => LeadingBits(list[i]) <= W
  <2> SUFFICES ASSUME NEW list \in {items.allow, items.deny}, NEW i \in DOMAIN list,
                      list[i].kind = "length"
               PROVE  LeadingBits(list[i]) <= W
      OBVIOUS
  <2>1. list[i] \in Entries /\ ValidEntry(list[i])
      BY <1>1 DEF AInv, Kept
  <2> QED BY <2>1, LengthMeaning
<1>2. ASSUME AInv, phase = "serving"
      PROVE  ~verdict <=> Named(items.allow, client) /\ ~Named(items.deny, client)
  <2>1. CASE client = V6
      BY <1>2, <2>1 DEF AInv, IsForbidden, Named
  <2>2. CASE client # V6
    <3>1. client \in Addresses
        BY <1>2, <2>2 DEF AInv
    <3>2. ASSUME NEW written, NEW kept, Kept(written, kept)
          PROVE  Matches(kept, client) <=> Named(written, client)
      <4>1. \A i \in DOMAIN written : Contains(kept[i], client) <=> NamedBy(written[i], client)
          BY <3>1, <3>2, ContainsMeaning DEF Kept
      <4> QED BY <2>2, <3>2, <4>1 DEF Matches, Named, Kept
    <3>3. /\ Matches(allowed, client) <=> Named(items.allow, client)
          /\ Matches(denied, client) <=> Named(items.deny, client)
        BY <1>2, <3>2 DEF AInv
    <3>4. verdict = (IF Matches(denied, client) THEN TRUE ELSE IF Matches(allowed, client) THEN FALSE ELSE TRUE)
        BY <1>2, <2>2 DEF AInv, IsForbidden, Override
    <3> QED BY <3>3, <3>4
  <2> QED BY <2>1, <2>2
<1>3. AInv => AllowDenyMeaning
    BY <1>1, <1>2 DEF AllowDenyMeaning
<1> QED BY <1>3, InitAInv, NextAInv, PTL DEF AccessSpec
=============================================================================
