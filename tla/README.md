# Verification of threadserver

TLA+ models of threadserver (a C++ server that loads handlers from shared
libraries, accepts connections on configured listeners and serves them with
pools of worker threads, under a guard process that restarts it), TLC
configurations that check them on small instances, and TLAPS proofs.

Paths are relative to the repository; `src/threadserver/` is written without the
leading directories where that is unambiguous.

## 1. Inventory

| Component | State it keeps | Operations | Interaction |
|---|---|---|---|
| Handler and worker pool (`handler.cc`, `handler.h`) | `workQueue`, `workerPool` | `createWorkers`, `destroyWorkers`, `enqueue`, `run`, `Worker_t::run` | fed by the io thread, drained by its workers, destroyed by the main thread |
| Listener (`listener.cc`) | `acceptor`, `acceptorThread`, `handler` pointer, address lists | `run`, `stop`, `listen`, `asyncAccept`, `accept`, `isForbidden` | its completions run on the io thread; hands `SocketWork_t` to a handler |
| Server process (`threadserver.cc`, `main.cc`) | `handlerMap`, `listenerMap`, library handles, `ioService`, `work`, `ioServiceThread`, the flag `run` | constructor, `run`, `stop`, destructor, registration | drives all others from the main thread |
| Guard and signals (`threadserver.cc:41-96`, `main.cc:10-24`) | `childPid`, the pid file, `run` in each process | fork, exec, wait, restart, signal handler | signals from the operator, exit statuses from servers |
| Access control (`network.cc`, `threadserver.cc:204-259`, `listener.cc:142-177`) | allowed and denied networks, `allowFirst` | `Network_t::parse`, `contains`, `isForbidden` | configuration in, verdict out |
| Work items (`work.cc`) | socket, `forbidden` | accessors | passed from listener to worker |
| C++ HTTP handler (`cpphttphandler.cc/.h`) | thread-local `work` and `methodRegistry`, module | `handle`, `forbidden`, `registerMethod`, parameters | a concrete handler |
| C++ FastRPC handler (`cppfrpchandler.cc/.h`) | thread-local `work`, `frpc`, `callbacks`, headers | `handle`, `forbidden`, `registerMethod` | a concrete handler |
| Dummy handler (`dummyhandler.cc`) | none | `handle` | a concrete handler |
| JSON values (`json.cc/.h`) | a pool that owns the values of a document | decode, encode, escape | used by HTTP methods |
| Job (`job.cc`) | a list of threads | `start`, `stop`, `worker` | used by modules for periodic work |
| Configuration (`configuration.cc`) | a map of keys to values | reading, `get` | read by the constructors of server, listeners and handlers |
| Errors, test modules, packaging | | | texts, examples, build files |

What makes this code hard is concurrency and life time. Five kinds of threads
(main, io, acceptor, worker, job) and two processes act at once; nothing but the
work queue is locked; objects are deleted by raw pointer on the word of a
`join`; an asynchronous chain of accepts keeps itself alive; signal handlers run
between any two statements; exceptions end threads, and with them the process.
The correctness each component owes:

* Handler: a connection reaches exactly one worker, in order; no thread outlives
  the handler; no exception costs a worker; destruction ends.
* Listener: one accept in flight, never lost in silence; the verdict before the
  handoff; what was accepted stays on its way to the handler; `stop` ends.
* Server: listeners stop before handlers are destroyed, the io thread lives as
  long as it is needed and no longer, clients are served, shutdown ends and
  leaves nothing running.
* Guard: one server at a time, a crash repaired, a signal delivered to the right
  process, no end without a reason.
* Start-up: a process either fails, or has what its configuration names, wired to
  living objects whose code is loaded; what was announced as started serves.
* Access control: the lists mean what they say.
* HTTP and FastRPC workers: a thread touches only its own client, whose answer is
  whole; nothing of one connection survives into the next.
* Parameters and JSON: what was sent arrives, what is returned reads back, and the
  values of a document are freed once.
* Job: a stopped job is quiet, and stopping it ends.

The list of hazards, each at its line, is in `PROJECT.json`.

## 2. Modules

```
Dispatch <- implements - Handler <- implements - HttpWorker, FrpcWorker
                            |
                            +-- composed with -- Listener -- in ThreadServer
Startup + Guard  -- composed in -- Service
AccessControl (what Listener's constant Forbids stands for)
JsonMethod extends Params (what HttpWorker's step Call is)         Job
XProofs extends X, for Handler, Listener, ThreadServer, Service (with the
theorems of Guard and AccessControl), HttpWorker, FrpcWorker, JsonMethod and Job
```

**Dispatch.tla** is the promise of a handler with no threads: connections wait in
order, at most `Limit[h]` are served at once, each is served once, and after
closing nothing is left behind.

**Handler.tla** is `handler.cc`. `life[h]` follows the handler object
(constructed, running after `createWorkers`, finishing after
`workQueue.finish()`, deleted), `workQueue[h]` the queue, `pc[w]` and
`socket[w]` each worker thread, `joined[h]` the position of the join loop.
`threading::queue` is a library outside the repository: after `finish()` a worker
may be given what is still queued or be told to leave, both are explored.
`handle()` ends by return or by exception, which is one action because
`Worker_t::run` catches every exception and goes on. A pool is created in one step: a thread
that does not exist yet and one that has not run yet are indistinguishable.

**Listener.tla** is `listener.cc` with the io thread. `acceptor[l]` follows
`run` and the three calls of `stop` (cancel, close, join); `athread[l]` is the
acceptor thread, whose only work is the first `async_accept`; `armed`, `ready`
and `backlog` are the parts of the kernel and of `boost::asio` the code relies
on; `io` and `inHand` are the io thread inside `Listener_t::accept`, one step per
statement. The lists of a listener are abstracted to the set of connections they
forbid (`Forbids`), computed in AccessControl. The acceptor is used from two
threads without a lock while `stop` closes it; the model takes the outcomes of that
race (`async_accept` seen before, cancelled, or refused), not a corrupted object.

**ThreadServer.tla** instantiates both and adds the main thread: `mpc` is its
place in the constructor, `run()`, main's poll loop, `stop()`, the destructor,
or on the path of an exception out of `run()`; `cur` is the position of its
loops over the two maps. A handoff is `Listener!IoEnqueue` and
`Handler!Enqueue` in one step. `fault` records how the process was killed:
`terminate` for an exception that leaves a thread (a vanished peer in
`remote_endpoint()`, a throwing `createWorker`), `useAfterFree` for a step on a
deleted object.

**Guard.tla** is the fork loop, the life of the servers it forks up to their end,
and `signalHandler` in all of them. A process takes a pending signal between any
two statements; `childPid` is the guard's, `copy[p]` what a child inherited of it
before it cleared it. `image` is the new program before `signal()`, where the
default action applies. From `wait()`'s return to `exit()`, and on the way of an
exception from `fork()` to main's catch, the guard is `leaving`: signals are still
handled, with the `childPid` of a process that is gone.

**Startup.tla** is the constructor of `ThreadServer_t` in one process and the way
back: `refs[l]` is the open count `dlopen` and `dlclose` keep of a library, `handles` the
set the server closes at its end, `objects`, `modules` and `workers` what exists of
each handler of the configuration, `handlerMap` and `listenerMap` the two maps, whose
values are the objects pointed to. Every failure of a constructor, a library, a
symbol or a module is a disjunct of its action; a process that failed returns 1
without destructors of the server. `RunThrows` is a `run()` whose listener cannot listen:
main() unwinds (`unwinding`) straight to the destructor, which closes libraries without
having deleted a handler. `lost` says that the message of an exception was
read when its library was gone. A handler is built after its library was opened
and before its name is compared, which is what makes a second one of the name
nobody's.

**Service.tla** composes Startup with Guard: the process that was started runs
Startup, then `detach()` with its two forks, `setsid()`, `chdir("/")` and `/dev/null`,
and goes on as Guard's guard. `launcher` is what the shell that started it sees.
`config.relative` says that the pid file and `argv[0]` are relative names, which mean
something else after `chdir()`. `WritePid` refines Guard's `WritePidfile` by the
content of the file; `ExecFails` is an `execv()` that finds nothing. The start-up
of a server in its own image is Guard's step from "boot" on.

**AccessControl.tla** is the reading of one listener's `Order`, `Allow` and
`Deny` and the verdict on its clients. An address is a set of bit positions, so
`&` is intersection; the netmask of a prefix length is computed by the code's own
arithmetic, a shift and a subtraction with borrows, on a register of twice the width.
The code checks no length: a shift of the register's width or more is undefined in C++
and modelled as x86 does it, modulo that width.
Two assumptions of MCAccessControl have TLC compare this arithmetic with that of
integers, for every value of its registers.

**HttpWorker.tla** is one `CppHttpHandler_t` with its workers, on every path of
`handle()` and `forbidden()`. `io[t]` is the descriptor number in the worker's
`HttpIo_t`, `fdOf[c]` the one the socket object owns, `open[f]` what the kernel
means by it; a closed number is given to the next connection. `work[t]` and
`registry[t]` are the thread-local slots, the latter filled by the module's
`threadCreate()`. The client's side is `wire[c]`, one element for each status line
and body. A send may fail before or after its data left. A pattern is the set of
URIs it matches, and matching may give up with an exception (`LookupThrows`); the kinds of
methods differ in how they may end. `H` is the refinement mapping to Handler: all places of `handle()` are its "handling", and
`ImplementsHandler` includes Handler's fairness, so that `HandleFairness`, an
assumption there, is a consequence here of single steps that end.

**FrpcWorker.tla** is one `CppFrpcHandler_t`. `made[t]` are the parts of the
thread's server, built by `Worker_t()` and freed one by one by `~Worker_t()`;
`methods[t]` is its registry, `headersIn`, `headersOut` and `work` are what
`handle()` lends to `serve()`, a header object being the set of connections whose
data it holds. `serve()` itself is in a library and modelled by what it may do: answer requests up to
`MaxKeepAlive`, return, or throw. `workQueue` and `joined` are those of the base class;
its `H` is the refinement mapping to Handler, in which building and tearing down a
server are the ends of a thread's life. A help file that is missing ends the process,
and with it every step.

**Params.tla** is the way from a URI and a body to the maps a method sees, with
strings as sequences of character codes, `size_t` as a modulus, and the
terminator of a string the only readable place behind it. One pass through the
wrapper is one action for the path, one for the query, one for the body. `GetIndexed`
is `getIndexed()` and `getIndexedFiles()`, on the maps a method finds; the regular
expression is a match of the name asked for, in which `[]` stands for a number.

**JsonMethod.tla** goes on where the method is called with a value pool. `heap` are
the value objects it has made, linked by their numbers as the code links them by
pointers, `values` the pool's list, `freed[v]` how often `v` was deleted. The method
may make, link and return values in every order the pool allows, or throw;
`Render` writes the value that was returned into the response, `DestroyPool` is the
end of the scope. `Text` is the conversion of each class to a string, `Accessor` the six
functions that take a parsed value apart. The reader of JSON (`Reading`) is not code
of the repository; it follows the grammar of JSON, with one character for each
number and for `null`, `true` and `false`, and refuses a control character that stands
in a string as it is.

**Job.tla** is `job.cc`: the owner inside `start()` and `stop()` (`opc`, `cur`),
`slot[i]` the list of pointers, each thread in its loop, and the interruption
request of boost with the points that notice it.

The eight modules **XProofs.tla** (**HandlerProofs**, **ListenerProofs**,
**ThreadServerProofs**, **ServiceProofs**, **HttpWorkerProofs**, **FrpcWorkerProofs**,
**JsonMethodProofs**, **JobProofs**) hold the theorems about X and their proofs; see
section 5. ServiceProofs also has those of Guard, which Service extends, and that of
AccessControl, which a server reads when it starts. ThreadServerProofs, HttpWorkerProofs and
FrpcWorkerProofs cite those of HandlerProofs, the first also those of ListenerProofs,
through instances. The `MC*` modules
give the constants their values. Operators under a comment that begins with
"Mutation" are deliberately wrong variants of the operator that follows them;
they are used to show that each property depends on the code being as it is.

## 3. Runs

| Run | Instance | Shows |
|---|---|---|
| `MCHandler.cfg` | two handlers (2 workers, 0 workers), 3 connections | a connection is in one place, no thread outlives the handler, the pool stays whole, Handler implements `Dispatch!FairSpec`, its liveness included |
| `MCListener.cfg` | 2 listeners, 2 connections, one forbidden on one listener, one with a peer that may vanish, 1 failing accept | single accept chain, a deaf listener is a logged one, verdict before handoff, an accepted connection stays with its listener until the handler has it |
| `MCThreadServer.cfg` | 2 listeners, 2 handlers of 1 worker, 2 connections, all failures enabled | the process uses its handlers as Handler specifies (`HandlerContract`), a connection goes to the handler of its listener with the verdict of that listener, clean exit, service and shutdown are live; deadlock is checked |
| `MCService.cfg` | foreground: up to 2 handlers with or without a module in 2 libraries, up to 2 listeners, names equal, different or unknown; detached: 1 handler with a module, with and without pid file, absolute and relative paths; 2 faults, 1 SIGHUP, 2 SIGTERM | code stays loaded, wiring, what is closed at the end, the pid file, forks without workers, an announced start serves; one server, a harmless reopen, strays only between servers, crashes repaired, a heard request ends the service |
| `MCAccessControl.cfg` | 3-bit addresses, all hosts, prefix lengths -1 to 9 (the register is 6 wide), dotted masks, 2 list items | lists mean what they say under `allow,deny`, a length counting modulo the register; lengths of 33 to 63 never serve |
| `MCHttpWorker.cfg` | 2 workers, 2 connections, 2 descriptors, 2 routes of which one request fits both and one none | own descriptors and `work`, whole answers, and HttpWorker implements `Handler!FairSpec`, its liveness included |
| `MCFrpcWorker.cfg` | 2 workers, 3 connections, 2 requests per connection, 2 methods whose help may be missing | what was lent stays with its client and is returned, all methods or none |
| `MCJsonMethod.cfg` | queries of up to 4 of 6 characters, forms of 2 pairs of 11 words, URIs of up to 4 of 3 characters, multipart bodies of 2 parts, three pairs named like elements of an array; strings of up to 3 of 11 characters, numbers, and every graph of up to 3 values | forms and parts arrive whole, meaning of `unescape()`, indexes, documents read back or, with a raw control character, are refused whole; values freed once |
| `MCJob.cfg` | 2 workers, started twice | a stopped job is quiet, hooks are paired, only `stop()` ends a worker, `stop()` returns |

Every module states a type invariant, which documents its state; those of Handler,
Guard, Listener, Job and Service (which includes Startup's) are proved.

The bounds. Two listeners and two handlers are the least for which order between
them matters; two connections the least that can meet (one in flight, one
queued), three where a queue must hold one behind two busy workers. One accept
error makes one listener deaf beside a healthy one. Two faults give a crash, a
restart and a crash of the restarted server. Three bits give a proper prefix, a
host part and a non-contiguous mask; lengths up to 9 wrap around the register and
exceed the address behind it once more, as `/64` to `/99` do. Two libraries and two handlers are the least
for sharing one, for a name given twice, and for a listener wired to the wrong one;
the detached service is checked with one handler because forks and signals do not
see them. Two descriptors let the second connection
reuse the number of the first while a worker still leaves `handle()`; the third
connection in FrpcWorker is the second of some thread. Four characters hold a
whole escape and one more before or after it, and the escapes cut off at the end.
Three values are the least for one that is shared, one that is left over, and an
array within an array; `MaxItems` cuts an array off at two values, which shows the
comma. `SizeBits` is 8, so that 300 is a number beyond `size_t` and no text reaches
`npos`; `IntMax` puts the last `int` between two numbers that are used.
Two starts of a job of two workers show a restart on fresh threads. `MaxErrors`, `MaxFaults`, `MaxHups`,
`MaxTerms`, `MaxEntries`, `MaxItems` and `limit` of a request are the only counters cut off; `Threads` in Job bounds
the restarts.

Three runs check what the repository says of itself and find otherwise:

* `MCServerRace.cfg`: `stop()` deletes the handlers (`threadserver.cc:299-307`)
  before it stops the io thread (`311-313`), which may still hold or find a
  completed accept and enqueue it into a deleted handler. The log line of
  `main.cc:55` ("Server shutdown complete") promises otherwise.
* `MCGuardTerm.cfg`: a SIGTERM the guard takes before `childPid = pid`
  (`threadserver.cc:75`), for instance right after it wrote the pid file, is
  logged as "Shutting down" (`main.cc:17`) and lost: the guard never reads `run`.
* `MCAccessOrder.cfg`: `Order deny,allow` is parsed and logged
  (`threadserver.cc:217-227`), but `listener.cc:21` initialises `allowFirst` with
  `true`.

Seen while modelling, without a run of their own:

* dummyhandler reads without a timeout (`dummyhandler.cc:42`), so an idle client
  hangs the shutdown that `debian/changelog:9` calls fixed;
* both test modules register their method in their constructor
  (`testmodule/httpinterface.cc:12`, `testmodule/frpcinterface.cc:12`), which runs
  in the main thread; the registry `registerMethod()` dereferences
  (`cpphttphandler.cc:491`, `cppfrpchandler.cc:304`) is thread-local and exists in
  worker threads only;
* `substr(pos+1, pos2)` (`cpphttphandler.h:325` and three more) passes the position
  of `#` as a length, so the fragment of a URI is parsed as part of the query;
* exit status 0 and "Server successfully initialized" (`threadserver.cc:40`) come
  before `chdir()`, the second opening of the pid file and `execv()`; relative names of
  both are looked up in `/` then, so a server started as `./threadserver` ends in
  silence (`AnnouncedStartServes` and `PidFileNamesGuard` except relative names);
* a `run()` that throws, for a listener that cannot listen (`threadserver.cc:279`), makes
  main() destroy the server under the first listeners' acceptor threads and the workers of
  all handlers, whose libraries are closed (`101-122`). ThreadServer has the thread that gets
  to run before the process is gone (`LateThread`, with `fault` as `useAfterFree`), Startup
  the handlers left without their code (`Unwound`), which `CodeIsLoaded` excepts;
* `registerHandler()` closes the library of a handler whose constructor threw
  (`threadserver.cc:160`) before it reads the message for "Can't create handler %s: %s"
  (`161`); `CodeIsLoaded` says when this is harmful. Beside it, `dlerror()` is called
  twice (`149`, `153`), the second time it is null;
* `/64` is accepted in `Allow` and `Deny` (`network.cc:22-24`) and names every client on
  x86, as `/0` does; `/65` names half of them. `AllowDenyMeaning` states this meaning, it does
  not justify it;
* the write of the pid file is not checked (`threadserver.cc:51-52`);
* a library used by two handlers is closed once (`threadserver.cc:166`);
* in JSON, control characters without a case of their own in `escape()` are written as
  they are (`json.cc:78`), which JSON does not allow: `DocumentReadsBack` says that such a
  response is refused by a reader, and excepts nothing else; and an array that contains itself is
  rendered without end;
* `HttpError_t(405)` (`cpphttphandler.h:584`) names a constructor with one argument
  that the class does not declare; it is modelled as the error it means.

## 4. Fairness

Threads and processes are scheduled (weak fairness of each thread's next step).
A connection in the backlog of an armed acceptor is accepted (the kernel and the
reactor). `handle()` ends: the HTTP and FastRPC handlers give their I/O read and
write timeouts (`cpphttphandler.cc:30-31`); module code is assumed to return.
Dummyhandler does not meet this, see above. In HttpWorker
it is not assumed but shown: each step of a worker is fair, a read or a send
ends because its timeout does, and the owner creates the workers and, once it has
begun, destroys them. In Service the launched process, `detach()`, the guard and the
servers go on, and pending signals are taken; a failure is never owed. Listener
has safety properties only, its liveness is that of the composition. In Job, threads are scheduled and `work()` ends;
nobody has to call `start()` or `stop()`. `stop()` in Guard ends because
ThreadServer's `ShutdownCompletes` says so. Clients, signals, faults and
failures have no fairness. The composition assumes no fairness of its components
beyond that of their threads.

## 5. Proofs

The theorems hold for all handlers, listeners, workers, connections, descriptors,
methods, crashes and signals that the constants may stand for, from the assumptions
stated with the constants and no others but the hypothesis `MaxFaults > 0` of one of
them. Each follows one argument: an inductive
invariant, in named parts, is true at first and kept by every action, and implies
the property.

*Handler.* `HInv` strengthens the type invariant by `Pools` (what the joins have
established: the workers below `joined[h]` are done, a deleted handler was joined
completely, no worker of a running handler has left its loop) and `Hands` (a
worker holds a socket exactly while it handles it). It is inductive and gives
`NoWorkerOutlivesHandler` and `PoolIsWhole`. `OnePlace` is inductive relative to
it; its heart is `DequeueMoves` (taking the head removes a connection from every
queue, because queues hold no duplicates) and `EnqueueAdds`.

*Guard.* `OneServer` is not inductive: `GInv` adds `Custody`, which says for each
place of the guard which servers may exist. `ReopenIsHarmless` needs `Quiet`:
without faults and requests no SIGTERM is under way and a zombie can only have
died of SIGHUP.

*Handler implements Dispatch.* `ImplementsDispatchSafely`: at first and at every step
a pool of threads does what the promise without threads allows. The only guard of
Dispatch that Handler has no counterpart for is that fewer than `Limit[h]` connections
are being served; `FreeWorker` counts them: a worker in its loop without a socket
leaves at most `WorkerCount[h] - 1` others.

*HttpWorker.* That `work` and the descriptor in a worker's streams are those of its own
client, although numbers are reused, needs `WInv`: a worker holds a connection exactly
while it is busy (`Slots`), no two workers hold the same one and none that is also
queued (`Whereabouts`), and the number of a connection stays open for it as long as
the socket object is queued or held (`Descriptors`). It gives `OwnDescriptor` and
`WorkFollowsSocket`. For `AnswersAreWhole`, `SaidInv` says at each place of `handle()`
and `forbidden()` what the client may have got so far (`Spoken`); that nothing precedes
it needs that a connection nobody handled yet was never answered (`Unspoken`), and that
nothing follows it, that the last word stays when the socket is let go (`Ended`). `ImplementsHandlerSafely` hides the steps inside `handle()`: each
is a step of Handler's worker or none. With the previous theorem the promise of
Dispatch, for safety, reaches down to the HTTP worker (`HttpDispatches`), and so do the
theorems about Handler (`HttpKeepsPromises`).

*FrpcWorker.* `FInv` says for each place of a thread what it has lent to the method
objects (`At`), that nothing it lent is with another thread (`Home`), and that no
thread serves before its methods are registered (`Loading`). `QInv` says that the
queue holds just the queued connections, each once, so that taking its head takes that
connection from nobody. With it every step is a step of Handler or hidden
(`FrpcImplementsHandler`), and the theorems about Handler hold of this handler too
(`FrpcKeepsPromises`, `FrpcDispatches`): no way out of `serve()` or `forbidden()` costs the
pool a thread or a connection its turn.

*AccessControl.* `NetmaskOfLength` computes what the shift and the subtraction give for
`/n`: the first `n` bits, or, when `n` exceeds the width, the bit above all of them,
which no entry may have. `ContainsMeaning` and `Kept` say that an address and its mask
name the clients the item names; `AInv` carries that through the two lists, so that
`AllowDenyMeaning` holds for lists of any length over addresses of any width. It has no
hypothesis on a prefix length: `LeadingBits` is the length modulo the width of the
register, on both sides.

*Job.* `JInv` follows the list of threads through both loops (`List`: a live thread is at
one position, what the loop has passed is empty), ties an interruption to the
positions the loop has reached (`Requests`), and the two hooks to the place of the
thread (`Hooks`).

*Listener.* The chain of accepts has four places: armed in the kernel, in the queue of
the io thread, with the acceptor thread, about to be re-armed. `Flight` says that they
exclude each other and that an open listener without any of them was reported;
`Cancels`, that a cancellation can only be found after `cancel()`. It gives `OneAccept`. For the
verdict, `Place` says that a connection is in one backlog, one completion, one hand or
delivered by one listener, so that the one look at the address lists is final
(`Verdict`). `AcceptedIsKept` needs both: a step adds to one end of the queue of
completions or moves its head into the io thread's hand (`NothingIsDropped`), and by
`Place` no other listener has the same connection.

*JsonMethod.* `PoolInv` says who owns each object at each place of a method: the pool,
which lists it once (`Listed`), or nobody, when it was deleted because the list had no
room (`Owned`). It gives `FreedOnce` for every graph of values, which rendering needs
nothing of. Of the texts, `UnescapeStaysInside` shows that `unescape()` never reads behind a
terminator, and why: not by its guard, which wraps for a text of one character, but
because `unhex()` refuses the terminator.

*Service.* `SInv` follows the constructor and the destructor of the server, through
every failure of either, and `detach()`. A library is open as often as handlers have
been read that have it and modules exist that are in it (`Counted`), which is why its
code is there for every object alive (`CodeIsLoaded`, which excepts the handlers left
behind by a `run()` that threw; their modules it does not except), and how often a shared one is
left open (`ClosedUnlessShared`). The maps follow the names read so far (`Names`,
`Built`, `Bound`); with `cur` at the end of the listeners they give `WiredAsConfigured`.
`Detached` ties the place of `detach()` to that of the guard and to the pid file: it
gives `PidFileNamesGuard`, `ForksAreSingleThreaded`, and, since every step of the
composition is one of Guard or leaves the servers as they are, Guard's `OneServer`,
`ReopenIsHarmless` and `StraysOnlyBetweenServers` behind `detach()` too.
`ServiceReopenIsHarmless` is stated for `MaxFaults > 0`: a failed `execv()` is counted
with the faults only up to their bound.

*ThreadServer.* `SInv` has three parts: what joining has established of the pools (`Joins`)
and of the acceptors (`Acceptors`), and how far the loops of `stop()` are (`Loops`). It
gives `StopOrder` and `ExitIsClean` under every interleaving of the threads.

*The composition.* The lemma `ServerListens` and `HandlerContractAlways` show that the
server process is a Listener and a Handler in the sense of their modules. For the
listeners this is so by construction, their variables change by actions of Listener
alone, but for the fact that only what runs is stopped.
For the handlers it is a matter of the listeners: Handler's environment hands each
connection over once, and here that is so because of `Place` of ListenerProofs, which
holds since the listeners are Listeners (a connection in hand was never delivered), and
of `Handed` (what a handler ever had was delivered). `CInv` carries the two component
invariants, `Handed`, and `Routed` (it was delivered by a listener that has this
handler). Two kinds of results follow. What is proved of the components holds in the
process (`ServerHandlersKeepPromises`, `ServerListenersKeepPromises`, and
`ServerDispatches`: the process implements Dispatch). And `ClientsReachTheirHandler`
holds, which neither component can say: a connection is with the handler of its
listener, under the verdict of its listener.

*Assumptions.* They say what kind of thing a constant is: `ConfigsAssumption` (a
configuration has lists of handlers and listeners and three flags) in Service;
`HandlerAssumption` and `ListenerAssumption` in ThreadServer repeat what Handler and
Listener assume of the constants they share with it, because a theorem of theirs is
used through an instance. None restricts the program.

*Only model-checked:*

* all liveness, with the liveness parts of the refinements, and that `stop()` of a job
  returns: the provers used here do not reach liveness under fairness;
* what the conversions compute: `SentArrives`, `UnescapeMeaning` and `IndexedArrives` of
  Params, `DocumentReadsBack` of JsonMethod. They are recursive functions over texts and
  graphs, and a statement for every input takes an induction over data. Of
  `UnescapeMeaning` the part about memory is proved (`UnescapeStaysInside`).

Proved and not part of a run: `ChildPidFresh` and `GuardOutlivesServer` of Guard,
`StopOrder` of ThreadServer, the refinements of Dispatch and Handler by Handler and
HttpWorker, whose runs check them with their fairness, the refinement of Handler by
FrpcWorker, and the components' properties in the process and in the two concrete
handlers, which their contracts imply.

## 6. Not modelled

The syntax of the configuration (boost::program_options; `ReadConfiguration` has its
outcomes), error texts, logging, the texts of pages and headers, the lookups
`getFirst`, `get` and `getBool` of parameters, the test modules (examples) and the build.
The dummy handler is covered by Handler but for its reads without a timeout. SIGKILL
of the guard itself is left out: no code answers it. A write to the pid file that fails is
left out too. The name a method asks `getIndexed()` for is matched literally, where the code
builds a regular expression of it (`cpphttphandler.h:199`); names with other special
characters than `[]` are not asked for. A module's `threadCreate()` is assumed to let the
exceptions of `registerMethod()` pass. An `HttpError_t` below 400 does not get past the method
wrappers, which keep what was written (`Swallowed`). Two real hazards are out of
reach: what the log does when it is called from a signal handler, and a
method registered by a module's constructor, which dereferences null. The libraries (boost,
fastrpc, mimetic, jsoncpp, the queue, the log) are modelled by what the code
expects of them; the logging library called from the signal handler may do worse.

## 7. Plan

What is left, in this order.

1. A composition of Listener with HttpWorker over one table of descriptors: an accept
   that fails for want of them and a worker that closes one are independent now.
2. The reload of a server under its guard with the listening sockets of the old one
   still closing (ports are a failure of `run()` now, without a cause).

