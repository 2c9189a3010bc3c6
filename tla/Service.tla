------------------------------- MODULE Service -------------------------------
(***************************************************************************)
(* The life of the service from the command line on: the process that was  *)
(* started reads its configuration and builds its handlers (Startup), then *)
(* serves in the foreground, or becomes a daemon in detach(), writes the   *)
(* pid file and goes on as the guard (Guard).  A server the guard forks    *)
(* runs Startup in an image of its own, which Guard has as "boot".         *)
(***************************************************************************)
EXTENDS Guard, Sequences

CONSTANTS Configs, Libraries, NoLibrary   \* see Startup

\* What Configuration_t leaves of the command line and the file.
ASSUME ConfigsAssumption == \A c \in Configs :
    /\ c.handlers \in Seq([name : Nat, library : Libraries, module : Libraries \cup {NoLibrary}])
    /\ c.listeners \in Seq([address : Nat, handler : Nat])
    /\ c.detach \in BOOLEAN /\ c.pidFile \in BOOLEAN /\ c.relative \in BOOLEAN

VARIABLES
    config, step, cur, refs, handles, objects, modules, workers,
    handlerMap, listenerMap, thrown, lost, pidFile,  \* see Startup
    launcher, \* the exit status a shell sees: "running", "exit0", "exit1"
    daemon    \* in detach(): "foreground", "child", "leader", "orphan",
              \* "rooted", "guard", or "gone" if one of its calls failed

S == INSTANCE Startup

built == <<config, step, cur, refs, handles, objects, modules, workers,
           handlerMap, listenerMap, thrown, lost>>
startup == <<built, pidFile>>
detaching == <<launcher, daemon>>
all == <<vars, startup, detaching>>

ServiceTypeOK == /\ TypeOK /\ S!TypeOK
                 /\ launcher \in {"running", "exit0", "exit1"}
                 /\ daemon \in {"foreground", "child", "leader", "orphan", "rooted", "guard", "gone"}

ServiceInit == /\ Init /\ S!Init
               /\ launcher = "running" /\ daemon = "foreground"

-----------------------------------------------------------------------------
\* The process that was started; main() returns 1 when it fails.
Start == /\ S!Next
         /\ launcher' = CASE step' = "failed" -> "exit1"
                          [] step' = "exited" -> "exit0"
                          [] OTHER -> launcher
         /\ UNCHANGED <<vars, daemon>>

\* The first parent exits with 0; whatever fails from here on is not seen.
FirstFork ==
    /\ step = "detach" /\ daemon = "foreground"
    /\ \/ daemon' = "child" /\ launcher' = "exit0"
       \/ daemon' = "gone" /\ launcher' = "exit1"
    /\ UNCHANGED <<vars, startup>>

\* setsid(), the second fork, chdir("/"), and /dev/null for the terminal.
NextPlace == [child |-> "leader", leader |-> "orphan", orphan |-> "rooted", rooted |-> "guard"]
BecomeDaemon ==
    /\ daemon \in DOMAIN NextPlace
    /\ daemon' \in {NextPlace[daemon], "gone"}
    /\ UNCHANGED <<vars, startup, launcher>>

\* Mutation: opened to append again, the file keeps an older number first.
WritePidAppends ==
    /\ daemon = "guard" /\ WritePidfile
    /\ pidFile' = IF config.pidFile /\ ~config.relative /\ pidFile # "stale" THEN "guard" ELSE pidFile
    /\ UNCHANGED <<built, detaching>>

\* The name is looked up again, now in the root directory: a relative name
\* means another file than the one that was tried.
WritePid ==
    /\ daemon = "guard" /\ WritePidfile
    /\ pidFile' = IF config.pidFile /\ ~config.relative THEN "guard" ELSE pidFile
    /\ UNCHANGED <<built, detaching>>

\* The file cannot be opened any more: the exception ends the daemon.
PidFileFails ==
    /\ daemon = "guard" /\ gpc = "pidfile" /\ config.pidFile
    /\ daemon' = "gone"
    /\ UNCHANGED <<vars, startup, launcher>>

-----------------------------------------------------------------------------
(* The guard and its servers.  execv() looks argv[0] up in the root        *)
(* directory, too; the counter of faults has its bound.                    *)

ExecFails(p) ==
    /\ config.relative /\ server[p] = "cleared"
    /\ Ends(p, "exit1")
    /\ faults' = IF faults < MaxFaults THEN faults + 1 ELSE faults
    /\ UNCHANGED <<hups, terms, startup, detaching>>

Supervise == gpc # "pidfile" /\ GuardStep /\ UNCHANGED <<startup, detaching>>
Serve(p) == /\ server[p] = "cleared" => ~config.relative
            /\ ServerStep(p) /\ UNCHANGED <<startup, detaching>>
Take(sig) == GuardTakes(sig) /\ UNCHANGED <<startup, detaching>>
TakeIn(p, sig) == (ServerTakes(p, sig) \/ ImageTakes(p, sig)) /\ UNCHANGED <<startup, detaching>>
Disturb == /\ \/ ForkFails
              \/ \E p \in Pids : StartFails(p) \/ Dies(p)
              \/ \E sig \in Signals : Send(sig)
           /\ UNCHANGED <<startup, detaching>>

ServiceNext ==
    \/ Start \/ FirstFork \/ BecomeDaemon \/ WritePid \/ PidFileFails
    \/ Supervise \/ Disturb
    \/ \E p \in Pids : Serve(p) \/ ExecFails(p)
    \/ \E sig \in Signals : Take(sig) \/ \E p \in Pids : TakeIn(p, sig)

\* Processes are scheduled and signals taken, as in Guard.
ServiceFairness ==
    /\ WF_all(Start \/ FirstFork \/ BecomeDaemon \/ WritePid)
    /\ WF_all(Supervise)
    /\ \A p \in Pids : WF_all(Serve(p) \/ ExecFails(p))
    /\ \A sig \in Signals : WF_all(Take(sig)) /\ \A p \in Pids : WF_all(TakeIn(p, sig))

ServiceSpec == ServiceInit /\ [][ServiceNext]_all /\ ServiceFairness

-----------------------------------------------------------------------------
(* Properties, beside those of Guard and Startup.                          *)

CodeIsLoaded == S!CodeIsLoaded
WiredAsConfigured == S!WiredAsConfigured
ClosedUnlessShared == S!ClosedUnlessShared

\* While a server of the guard lives, the pid file names the guard and
\* nothing else, whatever it held before; a relative name is excepted, which
\* means another file after chdir("/") (the constructor of ThreadServer_t).
PidFileNamesGuard ==
    (\E p \in Pids : IsLive(p)) /\ config.pidFile /\ ~config.relative => pidFile = "guard"

\* detach() forks a process of one thread: no handler has its workers yet,
\* which would be missing in the child (createWorkers() after the guard's
\* loop), and so the guard has none for all its life.
ForksAreSingleThreaded == daemon # "foreground" => workers = {}

\* "Server successfully initialized" and status 0 come true: a server comes
\* up, unless detach() or the pid file failed, a server had a fault, somebody
\* ended it, or the paths were relative.
AnnouncedStartServes ==
    launcher = "exit0" /\ daemon # "foreground" ~>
        \/ \E p \in Pids : server[p] = "serving"
        \/ daemon = "gone" \/ faults > 0 \/ terms > 0 \/ config.relative
=============================================================================
