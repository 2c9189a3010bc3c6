-------------------------------- MODULE Guard --------------------------------
(***************************************************************************)
(* The guard process (the fork loop in the constructor of ThreadServer_t), *)
(* the server processes it forks one after another, and the signal handler *)
(* of main.cc, which runs in all of them.  The pid file names the guard,   *)
(* so signals from outside reach the guard; it passes them on to the       *)
(* process childPid names at that moment.                                  *)
(*                                                                         *)
(* Server processes are numbered in the order of their forks and the       *)
(* number stands for the pid.  What a server does between its start and    *)
(* its exit is the subject of ThreadServer.                                *)
(***************************************************************************)
EXTENDS Naturals, FiniteSets

CONSTANTS MaxFaults,  \* bound on crashes and SIGKILLs of servers, for model checking
          MaxHups,    \* bound on log reopen requests (SIGHUP)
          MaxTerms    \* bound on shutdown requests (SIGTERM)

ASSUME BoundsAssumption == MaxFaults \in Nat /\ MaxHups \in Nat /\ MaxTerms \in Nat

\* Every fork after the first answers a fault or a fatal SIGHUP.
MaxForks == 1 + MaxFaults + MaxHups
Pids == 1 .. MaxForks

VARIABLES
    gpc,       \* the guard: "pidfile", "fork", "forked", "wait", "leaving" (on
               \* its way to exit(), signals still handled), "exited"
    forks,     \* servers forked so far; the last one has this number
    childPid,  \* the guard's childPid; 0 before the first fork
    server,    \* server[p]: where server process p is
    status,    \* status[p]: how it ended: "none", "exit0", "exit1", a signal
    copy,      \* copy[p]: the childPid that p inherited from the guard
    runFlag,   \* runFlag[p]: the global run in p
    pending,   \* pending[p]: signals sent to p and not yet taken; 0 is the guard
    told,      \* the guard has logged "Shutting down" and cleared its run
    strays,    \* pids signalled by a handler although their process was reaped
    faults, hups, terms   \* how much of each bound is used

vars == <<gpc, forks, childPid, server, status, copy, runFlag, pending, told,
          strays, faults, hups, terms>>

used == <<faults, hups, terms>>

Signals == {"TERM", "HUP"}

\* "forked": fork() returned 0, childPid not yet cleared.  "cleared": before
\* execv().  "image": the new program, signal() not yet called.  "boot": the
\* constructor.  "serving": the poll loop.  "stopping": stop() and after.
Live == {"forked", "cleared", "image", "boot", "serving", "stopping"}
ServerStates == Live \cup {"none", "zombie", "reaped"}
Statuses == {"none", "exit0", "exit1", "TERM", "HUP", "KILL", "SEGV"}

TypeOK ==
    /\ gpc \in {"pidfile", "fork", "forked", "wait", "leaving", "exited"}
    /\ forks \in 0 .. MaxForks
    /\ childPid \in 0 .. MaxForks
    /\ server \in [Pids -> ServerStates]
    /\ status \in [Pids -> Statuses]
    /\ copy \in [Pids -> 0 .. MaxForks]
    /\ runFlag \in [Pids -> BOOLEAN]
    /\ pending \in [Pids \cup {0} -> SUBSET Signals]
    /\ told \in BOOLEAN
    /\ strays \subseteq Pids
    /\ faults \in 0 .. MaxFaults
    /\ hups \in 0 .. MaxHups
    /\ terms \in 0 .. MaxTerms

Init == /\ gpc = "pidfile"
        /\ forks = 0
        /\ childPid = 0
        /\ server = [p \in Pids |-> "none"]
        /\ status = [p \in Pids |-> "none"]
        /\ copy = [p \in Pids |-> 0]
        /\ runFlag = [p \in Pids |-> TRUE]
        /\ pending = [p \in Pids \cup {0} |-> {}]
        /\ told = FALSE
        /\ strays = {}
        /\ faults = 0 /\ hups = 0 /\ terms = 0

IsLive(p) == server[p] \in Live

-----------------------------------------------------------------------------
(* The guard.                                                              *)

WritePidfile ==
    /\ gpc = "pidfile"
    /\ gpc' = "fork"
    /\ UNCHANGED <<forks, childPid, server, status, copy, runFlag, pending, told, strays, used>>

\* The child inherits memory, signal handlers included, but no pending signal.
Fork ==
    /\ gpc = "fork"
    /\ forks < MaxForks
    /\ gpc' = "forked"
    /\ forks' = forks + 1
    /\ server' = [server EXCEPT ![forks + 1] = "forked"]
    /\ copy' = [copy EXCEPT ![forks + 1] = childPid]
    /\ runFlag' = [runFlag EXCEPT ![forks + 1] = ~told]
    /\ UNCHANGED <<childPid, status, pending, told, strays, used>>

\* fork() fails: the exception is on its way to the catch of main(), under
\* the signal handler and with the childPid of the server before.
ForkFails ==
    /\ gpc = "fork"
    /\ faults < MaxFaults
    /\ faults' = faults + 1
    /\ gpc' = "leaving"
    /\ UNCHANGED <<forks, childPid, server, status, copy, runFlag, pending, told, strays, hups, terms>>

\* Mutation: the pid is stored for the first server only.
StoreFirstPid ==
    /\ gpc = "forked"
    /\ gpc' = "wait"
    /\ childPid' = IF childPid = 0 THEN forks ELSE childPid
    /\ UNCHANGED <<forks, server, status, copy, runFlag, pending, told, strays, used>>

StoreChildPid ==
    /\ gpc = "forked"
    /\ gpc' = "wait"
    /\ childPid' = forks
    /\ UNCHANGED <<forks, server, status, copy, runFlag, pending, told, strays, used>>

\* Mutations: SIGHUP counts as an end; every end is answered by a restart.
RestartsOnCrash(s) == s = "SEGV"
RestartsAlways(s) == s \in Statuses

\* A server that died of a signal is started again, except after a signal an
\* operator ends it with; any other end is the guard's own.
Restarts(s) == s \in {"SEGV", "HUP"}

\* Mutation: wait() does not block (WNOHANG).
WaitNoHang(p) ==
    /\ gpc = "wait"
    /\ server[p] # "none"
    /\ gpc' = "fork"
    /\ UNCHANGED <<forks, childPid, server, status, copy, runFlag, pending, told, strays, used>>

\* Mutation: after a crash the guard waits again instead of forking.
WaitsAgain(p) ==
    /\ gpc = "wait"
    /\ server[p] = "zombie"
    /\ server' = [server EXCEPT ![p] = "reaped"]
    /\ gpc' = IF Restarts(status[p]) THEN "wait" ELSE "leaving"
    /\ UNCHANGED <<forks, childPid, status, copy, runFlag, pending, told, strays, used>>

\* wait() reaps p; the guard goes on to the next fork() or towards exit().
Wait(p) ==
    /\ gpc = "wait"
    /\ server[p] = "zombie"
    /\ server' = [server EXCEPT ![p] = "reaped"]
    /\ gpc' = IF Restarts(status[p]) THEN "fork" ELSE "leaving"
    /\ UNCHANGED <<forks, childPid, status, copy, runFlag, pending, told, strays, used>>

\* exit(WEXITSTATUS(status)), or the return of main() after its catch.
GuardExits ==
    /\ gpc = "leaving"
    /\ gpc' = "exited"
    /\ UNCHANGED <<forks, childPid, server, status, copy, runFlag, pending, told, strays, used>>

-----------------------------------------------------------------------------
(* The life of server p.                                                   *)

Becomes(p, state) ==
    /\ server' = [server EXCEPT ![p] = state]
    /\ UNCHANGED <<gpc, forks, childPid, copy, pending, told, strays>>

Ends(p, how) ==
    /\ Becomes(p, "zombie")
    /\ status' = [status EXCEPT ![p] = how]
    /\ UNCHANGED runFlag

ClearChildPid(p) ==
    /\ server[p] = "forked"
    /\ server' = [server EXCEPT ![p] = "cleared"]
    /\ copy' = [copy EXCEPT ![p] = 0]
    /\ UNCHANGED <<gpc, forks, childPid, status, runFlag, pending, told, strays, used>>

\* execv(): a new image, with run true and the default action for signals.
Exec(p) ==
    /\ server[p] = "cleared"
    /\ Becomes(p, "image")
    /\ runFlag' = [runFlag EXCEPT ![p] = TRUE]
    /\ UNCHANGED <<status, used>>

InstallHandlers(p) ==
    /\ server[p] = "image"
    /\ Becomes(p, "boot")
    /\ UNCHANGED <<status, runFlag, used>>

StartServing(p) ==
    /\ server[p] = "boot"
    /\ Becomes(p, "serving")
    /\ UNCHANGED <<status, runFlag, used>>

\* execv() fails, or the constructor or run() throws: main() returns 1.
StartFails(p) ==
    /\ server[p] \in {"cleared", "boot"}
    /\ faults < MaxFaults
    /\ faults' = faults + 1
    /\ Ends(p, "exit1")
    /\ UNCHANGED <<hups, terms>>

LeavePoll(p) ==
    /\ server[p] = "serving"
    /\ ~runFlag[p]
    /\ Becomes(p, "stopping")
    /\ UNCHANGED <<status, runFlag, used>>

Finish(p) ==
    /\ server[p] = "stopping"
    /\ Ends(p, "exit0")
    /\ UNCHANGED used

\* A crash of its own, or SIGKILL (an operator, the kernel out of memory).
Dies(p) ==
    /\ IsLive(p)
    /\ faults < MaxFaults
    /\ faults' = faults + 1
    /\ \E how \in {"SEGV", "KILL"} : Ends(p, how)
    /\ UNCHANGED <<hups, terms>>

-----------------------------------------------------------------------------
(* Signals.                                                                *)

\* The operator signals the process the pid file names.
Send(sig) ==
    /\ gpc \notin {"pidfile", "exited"}
    /\ \/ sig = "TERM" /\ terms < MaxTerms /\ terms' = terms + 1 /\ UNCHANGED hups
       \/ sig = "HUP" /\ hups < MaxHups /\ hups' = hups + 1 /\ UNCHANGED terms
    /\ pending' = [pending EXCEPT ![0] = @ \cup {sig}]
    /\ UNCHANGED <<gpc, forks, childPid, server, status, copy, runFlag, told, strays, faults>>

\* signalHandler() in process me, whose childPid is target: pass the signal
\* on.  A zombie takes it without effect; a reaped pid is nobody's, or a
\* stranger's.
Forward(me, target, sig) ==
    /\ pending' = IF target # 0 /\ IsLive(target)
                  THEN [pending EXCEPT ![me] = @ \ {sig}, ![target] = @ \cup {sig}]
                  ELSE [pending EXCEPT ![me] = @ \ {sig}]
    /\ strays' = IF target # 0 /\ server[target] = "reaped"
                 THEN strays \cup {target} ELSE strays

\* In the guard, run becomes false too, and nothing ever reads it there.
GuardTakes(sig) ==
    /\ gpc # "exited"
    /\ sig \in pending[0]
    /\ Forward(0, childPid, sig)
    /\ told' = (told \/ sig = "TERM")
    /\ UNCHANGED <<gpc, forks, childPid, server, status, copy, runFlag, used>>

ServerTakes(p, sig) ==
    /\ server[p] \in Live \ {"image"}
    /\ sig \in pending[p]
    /\ Forward(p, IF server[p] = "forked" THEN copy[p] ELSE 0, sig)
    /\ runFlag' = [runFlag EXCEPT ![p] = @ /\ sig # "TERM"]
    /\ UNCHANGED <<gpc, forks, childPid, server, status, copy, told, used>>

\* Before signal() is called both signals kill.
ImageTakes(p, sig) ==
    /\ server[p] = "image"
    /\ sig \in pending[p]
    /\ Ends(p, sig)
    /\ UNCHANGED used

-----------------------------------------------------------------------------
GuardStep == WritePidfile \/ Fork \/ StoreChildPid \/ (\E p \in Pids : Wait(p)) \/ GuardExits

ServerStep(p) == \/ ClearChildPid(p) \/ Exec(p) \/ InstallHandlers(p)
                 \/ StartServing(p) \/ LeavePoll(p) \/ Finish(p)

Taken == \E sig \in Signals : \/ GuardTakes(sig)
                              \/ \E p \in Pids : ServerTakes(p, sig) \/ ImageTakes(p, sig)

Next == \/ GuardStep \/ ForkFails
        \/ \E p \in Pids : ServerStep(p) \/ StartFails(p) \/ Dies(p)
        \/ \E sig \in Signals : Send(sig)
        \/ Taken

Spec == Init /\ [][Next]_vars

\* Both processes are scheduled, a signal sent is taken, and stop() ends
\* (ThreadServer's ShutdownCompletes).  Faults and operators owe nothing.
Fairness ==
    /\ WF_vars(GuardStep)
    /\ \A p \in Pids : WF_vars(ServerStep(p))
    /\ \A sig \in Signals :
          /\ WF_vars(GuardTakes(sig))
          /\ \A p \in Pids : WF_vars(ServerTakes(p, sig) \/ ImageTakes(p, sig))

FairSpec == Spec /\ Fairness

-----------------------------------------------------------------------------
(* Properties.                                                             *)

\* The guard never runs two servers at once: they would fight for the ports.
OneServer == \A p, q \in Pids : IsLive(p) /\ IsLive(q) => p = q

\* While the guard waits, childPid names the one process it waits for, alive
\* or a zombie: a signal taken then cannot reach a stranger (childPid = pid).
ChildPidFresh ==
    gpc = "wait" =>
        /\ childPid \in Pids
        /\ server[childPid] \in Live \cup {"zombie"}
        /\ \A p \in Pids \ {childPid} : server[p] \in {"none", "reaped"}

\* The guard never exits over a server that still runs or was not reaped.
GuardOutlivesServer == gpc = "exited" => \A p \in Pids : server[p] \in {"none", "reaped"}

\* A log reopen never ends the service: SIGHUP may kill a server that has not
\* installed its handlers yet, and the guard then starts another.
ReopenIsHarmless == gpc = "exited" => faults > 0 \/ terms > 0

\* A server that crashed is replaced by one that comes up, or ends before it
\* does (and then this holds of that one), unless the service ends.
CrashIsRepaired ==
    \A p \in Pids :
        (server[p] = "zombie" /\ status[p] = "SEGV")
            ~> (gpc = "exited" \/ \E q \in Pids : q > p /\ server[q] \in {"serving", "zombie"})

\* Once the shutdown request has reached a server that can act on it, the
\* service ends, unless that server crashes on its way out.
HeardRequestEndsService ==
    \A p \in Pids : (server[p] \in {"boot", "serving"} /\ ~runFlag[p])
                        ~> (gpc = "exited" \/ status[p] = "SEGV")

\* A handler signals a pid that is no longer a server's only after wait() has
\* reaped it, until the next childPid = pid or the end of the guard, or in a
\* child that has not yet cleared the childPid it inherited: never while the
\* guard waits for a server that runs its own program (an action property).
StraysOnlyBetweenServers ==
    [][strays' # strays => \/ gpc \in {"fork", "forked", "leaving"}
                           \/ \E p \in Pids : server[p] = "forked"]_vars

\* "Shutting down" in the log is followed by the end of the service.
AnnouncedShutdownHappens == told ~> gpc = "exited"
=============================================================================
