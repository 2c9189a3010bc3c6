------------------------------- MODULE Startup -------------------------------
(***************************************************************************)
(* The constructor of ThreadServer_t up to detach() or to the running      *)
(* server, and the way back through stop() and ~ThreadServer_t(), or       *)
(* through ~ThreadServer_t() alone when run() throws: which handlers,      *)
(* modules, listeners and shared libraries a process holds.                *)
(* Each handler of the configuration has a position in it, which names the *)
(* object that is made for it.  A listener points to such an object.       *)
(*                                                                         *)
(* When the constructor throws no destructor runs: main() returns 1.       *)
(***************************************************************************)
EXTENDS Naturals, Sequences, FiniteSets

CONSTANTS Configs,   \* what the configuration may say:
                     \* handlers: Seq of [name, library, module],
                     \* listeners: Seq of [address, handler], names being numbers,
                     \* detach, pidFile and relative (paths): BOOLEAN
          Libraries, \* shared library files
          NoLibrary  \* the module of a handler without one

VARIABLES
    config,      \* the configuration of this process
    step,        \* where the main thread is
    cur,         \* position in the loop over handlers or listeners
    refs,        \* refs[l]: how often library l is open
    handles,     \* handlerHandleSet
    objects,     \* positions whose handler object exists
    modules,     \* positions whose Module_t exists
    workers,     \* positions whose worker threads run
    handlerMap,  \* a function from the registered names to positions
    listenerMap, \* a function from addresses to positions: the handler pointers
    thrown,      \* what a create function threw: "none", "ours" (Error_t) or
                 \* "theirs", an exception of a class of the library
    lost,        \* its message was read when the library was gone
    pidFile      \* the named file: "absent", "stale", "empty", "guard"

startup == <<config, step, cur, refs, handles, objects, modules, workers,
             handlerMap, listenerMap, thrown, lost, pidFile>>

held == <<handles, objects, modules, workers, handlerMap, listenerMap>>

Positions == DOMAIN config.handlers
Library(i) == config.handlers[i].library
Module(i) == config.handlers[i].module
HasModule(i) == Module(i) # NoLibrary

Steps == {"configuration", "handlers", "symbol", "creating", "module", "refused", "insert",
          "listeners", "pidfile", "detach", "workers", "running", "stopping",
          "unloading", "closing", "unwinding", "exited", "failed"}

TypeOK == /\ config \in Configs /\ step \in Steps /\ cur \in Nat
          /\ refs \in [Libraries -> Nat] /\ handles \subseteq Libraries
          /\ modules \subseteq objects /\ workers \subseteq objects /\ objects \subseteq Positions
          /\ \A n \in DOMAIN handlerMap : handlerMap[n] \in Positions
          /\ \A a \in DOMAIN listenerMap : listenerMap[a] \in Positions
          /\ thrown \in {"none", "ours", "theirs"} /\ lost \in BOOLEAN
          /\ pidFile \in {"absent", "stale", "empty", "guard"}

NoMap == [n \in {} |-> 0]

Init == /\ config \in Configs
        /\ step = "configuration" /\ cur = 1
        /\ refs = [l \in Libraries |-> 0]
        /\ handles = {} /\ objects = {} /\ modules = {} /\ workers = {}
        /\ handlerMap = NoMap /\ listenerMap = NoMap
        /\ thrown = "none" /\ lost = FALSE
        /\ pidFile \in {"absent", "stale"}

Goto(from, to) == step = from /\ step' = to
Open(l) == refs' = [refs EXCEPT ![l] = @ + 1]
Close(l) == refs' = [refs EXCEPT ![l] = @ - 1]
With(map, key, value) == [k \in DOMAIN map \cup {key} |-> IF k = key THEN value ELSE map[k]]
Without(map, key) == [k \in DOMAIN map \ {key} |-> map[k]]
Least(names) == CHOOSE n \in names : \A k \in names : n <= k

-----------------------------------------------------------------------------
(* Configuration_t() and registerHandlers().                               *)

\* Unreadable, --help, or no handlers or no listeners: exit(1).
ReadConfiguration ==
    /\ \/ Goto("configuration", "handlers") /\ config.handlers # <<>> /\ config.listeners # <<>>
       \/ Goto("configuration", "failed")
    /\ UNCHANGED <<config, cur, refs, held, thrown, lost, pidFile>>

\* A bad Handler or WorkerCount, or dlopen(), fails before anything is held.
OpenLibrary ==
    /\ step = "handlers" /\ cur <= Len(config.handlers)
    /\ \/ Goto("handlers", "symbol") /\ Open(Library(cur))
       \/ Goto("handlers", "failed") /\ UNCHANGED refs
    /\ UNCHANGED <<config, cur, held, thrown, lost, pidFile>>

HandlersRegistered ==
    /\ cur > Len(config.handlers) /\ Goto("handlers", "listeners")
    /\ cur' = 1
    /\ UNCHANGED <<config, refs, held, thrown, lost, pidFile>>

FindSymbol ==
    /\ \/ Goto("symbol", "creating") /\ UNCHANGED refs
       \/ Goto("symbol", "failed") /\ Close(Library(cur))
    /\ UNCHANGED <<config, cur, held, thrown, lost, pidFile>>

\* The constructor of the handler reads its configuration and opens the
\* library of its module, or throws.
ConstructHandler ==
    /\ \/ /\ Goto("creating", "module") /\ HasModule(cur) /\ Open(Module(cur))
          /\ UNCHANGED <<objects, thrown>>
       \/ /\ Goto("creating", "insert") /\ ~HasModule(cur)
          /\ objects' = objects \cup {cur} /\ UNCHANGED <<refs, thrown>>
       \/ /\ Goto("creating", "refused") /\ thrown' \in {"ours", "theirs"}
          /\ UNCHANGED <<refs, objects>>
    /\ UNCHANGED <<config, cur, handles, modules, workers, handlerMap, listenerMap, lost, pidFile>>

\* loadModule(): the message of a module that throws is copied into an
\* Error_t before the unwinding lets DlHandleGuard_t close the library.
LoadModule ==
    /\ \/ /\ Goto("module", "insert") /\ UNCHANGED <<refs, thrown>>
          /\ modules' = modules \cup {cur} /\ objects' = objects \cup {cur}
       \/ /\ Goto("module", "refused") /\ Close(Module(cur)) /\ thrown' = "ours"
          /\ UNCHANGED <<modules, objects>>
    /\ UNCHANGED <<config, cur, handles, workers, handlerMap, listenerMap, lost, pidFile>>

\* registerHandler() closes the library, then reads e.what().
CloseRefused ==
    /\ Goto("refused", "failed")
    /\ Close(Library(cur))
    /\ lost' = (thrown = "theirs" /\ refs'[Library(cur)] = 0)
    /\ UNCHANGED <<config, cur, held, thrown, pidFile>>

\* Mutation: the last of two handlers with one name is kept.
InsertHandlerOver ==
    /\ Goto("insert", "handlers")
    /\ handlerMap' = With(handlerMap, config.handlers[cur].name, cur)
    /\ handles' = handles \cup {Library(cur)} /\ cur' = cur + 1
    /\ UNCHANGED <<config, refs, objects, modules, workers, listenerMap, thrown, lost, pidFile>>

\* Mutation: the workers of a handler start when it is registered.
InsertHandlerAndWorkers ==
    /\ Goto("insert", "handlers") /\ config.handlers[cur].name \notin DOMAIN handlerMap
    /\ handlerMap' = With(handlerMap, config.handlers[cur].name, cur)
    /\ handles' = handles \cup {Library(cur)} /\ cur' = cur + 1 /\ workers' = workers \cup {cur}
    /\ UNCHANGED <<config, refs, objects, modules, listenerMap, thrown, lost, pidFile>>

\* A second handler of a name is refused; its object is nobody's then.
InsertHandler ==
    LET name == config.handlers[cur].name
    IN  /\ \/ /\ Goto("insert", "handlers") /\ name \notin DOMAIN handlerMap
              /\ handlerMap' = With(handlerMap, name, cur)
              /\ handles' = handles \cup {Library(cur)} /\ cur' = cur + 1
           \/ /\ Goto("insert", "failed") /\ name \in DOMAIN handlerMap
              /\ UNCHANGED <<handlerMap, handles, cur>>
        /\ UNCHANGED <<config, refs, objects, modules, workers, listenerMap, thrown, lost, pidFile>>

-----------------------------------------------------------------------------
(* registerListeners(), the pid file, createWorkers().                     *)

\* An unknown handler, a second listener of an address, or a bad Order,
\* Address, Allow or Deny (see AccessControl) is refused.
RegisterListener ==
    /\ step = "listeners" /\ cur <= Len(config.listeners)
    /\ LET l == config.listeners[cur]
       IN  \/ /\ l.handler \in DOMAIN handlerMap /\ l.address \notin DOMAIN listenerMap
              /\ listenerMap' = With(listenerMap, l.address, handlerMap[l.handler])
              /\ cur' = cur + 1 /\ UNCHANGED step
           \/ Goto("listeners", "failed") /\ UNCHANGED <<cur, listenerMap>>
    /\ UNCHANGED <<config, refs, handles, objects, modules, workers, handlerMap, thrown, lost, pidFile>>

ListenersRegistered ==
    /\ cur > Len(config.listeners) /\ Goto("listeners", "pidfile")
    /\ UNCHANGED <<config, cur, refs, held, thrown, lost, pidFile>>

\* The pid file is opened to append, while the user can still be told; then
\* "Server successfully initialized".
CheckPidFile ==
    /\ \/ Goto("pidfile", IF config.detach THEN "detach" ELSE "workers")
          /\ pidFile' = IF config.pidFile /\ config.detach /\ pidFile = "absent"
                        THEN "empty" ELSE pidFile
       \/ config.pidFile /\ config.detach /\ Goto("pidfile", "failed") /\ UNCHANGED pidFile
    /\ UNCHANGED <<config, cur, refs, held, thrown, lost>>

CreateWorkers ==
    /\ Goto("workers", "running")
    /\ workers' = {handlerMap[n] : n \in DOMAIN handlerMap}
    /\ UNCHANGED <<config, cur, refs, handles, objects, modules, handlerMap, listenerMap, thrown, lost, pidFile>>

-----------------------------------------------------------------------------
(* stop() and ~ThreadServer_t().                                           *)

\* The listeners have stopped (ThreadServer); the handlers follow by name.
StopListeners ==
    /\ Goto("running", "stopping")
    /\ UNCHANGED <<config, cur, refs, held, thrown, lost, pidFile>>

\* Mutation: the members are declared the other way round, and the library
\* goes before the module.
DestroyHandlerUnloaded ==
    /\ handlerMap # NoMap /\ Goto("stopping", "unloading")
    /\ cur' = handlerMap[Least(DOMAIN handlerMap)]
    /\ workers' = workers \ {cur'}
    /\ refs' = IF HasModule(cur') THEN [refs EXCEPT ![Module(cur')] = @ - 1] ELSE refs
    /\ UNCHANGED <<config, handles, objects, modules, handlerMap, listenerMap, thrown, lost, pidFile>>

\* The destructor of a handler joins its workers and deletes its module,
DestroyHandler ==
    /\ handlerMap # NoMap /\ Goto("stopping", "unloading")
    /\ cur' = handlerMap[Least(DOMAIN handlerMap)]
    /\ workers' = workers \ {cur'}
    /\ modules' = modules \ {cur'}
    /\ UNCHANGED <<config, refs, handles, objects, handlerMap, listenerMap, thrown, lost, pidFile>>

\* Mutation: nothing closes the library of the module.
UnloadModuleNot ==
    /\ Goto("unloading", "stopping")
    /\ objects' = objects \ {cur}
    /\ handlerMap' = Without(handlerMap, Least(DOMAIN handlerMap))
    /\ UNCHANGED <<config, cur, refs, handles, modules, workers, listenerMap, thrown, lost, pidFile>>

\* then DlHandleGuard_t closes the library of the module.
UnloadModule ==
    /\ Goto("unloading", "stopping")
    /\ IF HasModule(cur) THEN Close(Module(cur)) ELSE UNCHANGED refs
    /\ objects' = objects \ {cur}
    /\ handlerMap' = Without(handlerMap, Least(DOMAIN handlerMap))
    /\ UNCHANGED <<config, cur, handles, modules, workers, listenerMap, thrown, lost, pidFile>>

HandlersDestroyed ==
    /\ handlerMap = NoMap /\ Goto("stopping", "closing")
    /\ UNCHANGED <<config, cur, refs, held, thrown, lost, pidFile>>

\* run() throws, for a listener that cannot listen: main() unwinds past the
\* server, and nothing stops the listeners or deletes the handlers before.
RunThrows ==
    /\ Goto("running", "unwinding")
    /\ UNCHANGED <<config, cur, refs, held, thrown, lost, pidFile>>

\* ~ThreadServer_t(): the listeners, then every library of the set once,
\* whatever has become of the handlers.
CloseHandles ==
    /\ Goto("closing", "exited") \/ Goto("unwinding", "failed")
    /\ listenerMap' = NoMap /\ handles' = {}
    /\ refs' = [l \in Libraries |-> IF l \in handles THEN refs[l] - 1 ELSE refs[l]]
    /\ UNCHANGED <<config, cur, objects, modules, workers, handlerMap, thrown, lost, pidFile>>

-----------------------------------------------------------------------------
Next == \/ ReadConfiguration \/ OpenLibrary \/ HandlersRegistered \/ FindSymbol
        \/ ConstructHandler \/ LoadModule \/ CloseRefused \/ InsertHandler
        \/ RegisterListener \/ ListenersRegistered \/ CheckPidFile \/ CreateWorkers
        \/ StopListeners \/ DestroyHandler \/ UnloadModule \/ HandlersDestroyed
        \/ RunThrows \/ CloseHandles

-----------------------------------------------------------------------------
(* Properties.                                                             *)

\* run() threw, and ~ThreadServer_t() has closed the libraries of handlers
\* that are still there.
Unwound == step = "failed" /\ workers # {}

\* No object outlives the library its code is in, and a module may be called
\* as long as worker threads run.  It takes stop() for that: when run() threw,
\* ~ThreadServer_t() unloads the handlers of a server whose workers have
\* started, and until main() returns only the modules still have their code.
\* The message of an exception is lost with its library only when the class was
\* the library's own and nobody else had it open (registerHandler calls
\* dlclose() before e.what()).
CodeIsLoaded ==
    /\ \A i \in objects : Unwound \/ refs[Library(i)] > 0
    /\ \A i \in modules : refs[Module(i)] > 0
    /\ \A i \in workers : i \in objects /\ (HasModule(i) => i \in modules)
    /\ lost => thrown = "theirs" /\ \A i \in objects : Library(i) # Library(cur)

\* A process that gets as far as detaching or serving is what its
\* configuration says: one handler per entry, and every listener bound to the
\* living object made for the handler it names (registerHandler,
\* registerListener).
WiredAsConfigured ==
    step \in {"detach", "running"} =>
        /\ objects = Positions
        /\ \A i \in Positions : handlerMap[config.handlers[i].name] = i
        /\ \A k \in DOMAIN config.listeners :
              LET l == config.listeners[k]
              IN  config.handlers[listenerMap[l.address]].name = l.handler
        /\ Cardinality(DOMAIN listenerMap) = Len(config.listeners)

\* A server that ended through stop() has deleted what it made and closed what
\* it opened, but for a library that two handlers share: it is opened by each
\* and closed once (handlerHandleSet).
ClosedUnlessShared ==
    step = "exited" =>
        /\ objects = {} /\ modules = {} /\ workers = {}
        /\ \A l \in Libraries :
              refs[l] > 0 => Cardinality({i \in Positions : Library(i) = l}) > refs[l]
=============================================================================
