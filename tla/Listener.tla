------------------------------ MODULE Listener ------------------------------
(***************************************************************************)
(* Listener_t (listener.h, listener.cc) and the one io_service thread that *)
(* runs the completion handlers of all listeners.  Each listener keeps one *)
(* asynchronous accept outstanding; its completion re-arms it, decides     *)
(* whether the client is forbidden and hands the socket to the handler.    *)
(*                                                                         *)
(* Three kinds of threads step here: the main thread (run, stop), one      *)
(* acceptor thread per listener, whose only work is the first              *)
(* async_accept, and the io thread.  boost::asio and the kernel are        *)
(* modelled from how this code uses them: an accept on an open acceptor    *)
(* completes with a connection, an error, or operation_canceled after      *)
(* cancel() or close(); on a closed one it completes with an error.        *)
(***************************************************************************)
EXTENDS Integers, Sequences, FiniteSets

CONSTANTS Listeners,   \* the registered listeners
          Conns,       \* client connections
          Forbids,     \* Forbids[l]: the connections l's address lists forbid
          Fragile,     \* connections whose peer may be gone before they are looked at
          MaxErrors    \* bound on failures of accept(2), for model checking

ASSUME ForbidsAssumption == Forbids \in [Listeners -> SUBSET Conns]
ASSUME FragileAssumption == Fragile \subseteq Conns
ASSUME ResultAssumption == {"canceled", "error", "none"} \cap Conns = {}
ASSUME MaxErrorsAssumption == MaxErrors \in Nat

VARIABLES
    acceptor,   \* acceptor[l]: "none", "open", "cancelled" (still open), "closed", "stopped"
    athread,    \* athread[l]: the acceptor thread: "none", "started", "done"
    armed,      \* armed[l]: accepts outstanding in the kernel
    ready,      \* completions the io_service has not run yet, oldest first
    backlog,    \* backlog[l]: connections in the kernel's listen queue
    io,         \* the io thread: "none", "waiting", "rearm", "check", "enqueue",
                \*   "returned" (run() ended), "threw" (an exception left run())
    inHand,     \* the completion the io thread is running
    forbidden,  \* connections whose SocketWork_t has forbidden set
    delivered,  \* delivered[l]: connections l has handed to its handler
    refused,    \* connections reset by the kernel when the acceptor closed
    reported,   \* listeners that logged "can't accept connection"
    errors      \* failures of accept(2) so far

lvars == <<acceptor, athread, armed, ready, backlog, io, inHand, forbidden,
           delivered, refused, reported, errors>>

\* The sides of lvars that the steps below leave alone.
sockets == <<forbidden, delivered, refused>>
log == <<reported, errors>>

Canceled == "canceled"
Error == "error"
Completion == [listener : Listeners, result : Conns \cup {Canceled, Error}]
Nothing == [listener |-> "none", result |-> "none"]
IoStates == {"none", "waiting", "rearm", "check", "enqueue", "returned", "threw"}

TypeOK ==
    /\ acceptor \in [Listeners -> {"none", "open", "cancelled", "closed", "stopped"}]
    /\ athread \in [Listeners -> {"none", "started", "done"}]
    /\ armed \in [Listeners -> Nat]
    /\ ready \in Seq(Completion)
    /\ backlog \in [Listeners -> SUBSET Conns]
    /\ io \in IoStates
    /\ inHand \in Completion \cup {Nothing}
    /\ forbidden \subseteq Conns
    /\ delivered \in [Listeners -> SUBSET Conns]
    /\ refused \subseteq Conns
    /\ reported \subseteq Listeners
    /\ errors \in 0 .. MaxErrors

IsOpen(l) == acceptor[l] \in {"open", "cancelled"}

ReadyOf(l) == {i \in DOMAIN ready : ready[i].listener = l}

ReadyConns == {ready[i].result : i \in DOMAIN ready} \ {Canceled, Error}

Seen(c) == \/ \E l \in Listeners : c \in backlog[l] \cup delivered[l]
           \/ c \in ReadyConns \cup {inHand.result} \cup refused

Init == /\ acceptor = [l \in Listeners |-> "none"]
        /\ athread = [l \in Listeners |-> "none"]
        /\ armed = [l \in Listeners |-> 0]
        /\ ready = <<>>
        /\ backlog = [l \in Listeners |-> {}]
        /\ io = "none"
        /\ inHand = Nothing
        /\ forbidden = {}
        /\ delivered = [l \in Listeners |-> {}]
        /\ refused = {}
        /\ reported = {}
        /\ errors = 0

-----------------------------------------------------------------------------
(* The clients and the kernel.                                             *)

Connect(l, c) ==
    /\ IsOpen(l)
    /\ ~Seen(c)
    /\ backlog' = [backlog EXCEPT ![l] = @ \cup {c}]
    /\ UNCHANGED <<acceptor, athread, armed, ready, io, inHand, sockets, log>>

AcceptOk(l, c) ==
    /\ armed[l] > 0
    /\ c \in backlog[l]
    /\ backlog' = [backlog EXCEPT ![l] = @ \ {c}]
    /\ armed' = [armed EXCEPT ![l] = @ - 1]
    /\ ready' = Append(ready, [listener |-> l, result |-> c])
    /\ UNCHANGED <<acceptor, athread, io, inHand, sockets, log>>

\* accept(2) fails, for want of descriptors for instance.
AcceptFails(l) ==
    /\ armed[l] > 0
    /\ errors < MaxErrors
    /\ errors' = errors + 1
    /\ armed' = [armed EXCEPT ![l] = @ - 1]
    /\ ready' = Append(ready, [listener |-> l, result |-> Error])
    /\ UNCHANGED <<acceptor, athread, backlog, io, inHand, sockets, reported>>

-----------------------------------------------------------------------------
(* async_accept, called by the acceptor thread and by the io thread.  stop()
   may close the acceptor at the same moment, in another thread and without a
   lock: the call is seen before or after that, and after it the completion
   carries an error or the cancellation.                                   *)

AsyncAccept(l) ==
    \/ /\ IsOpen(l)
       /\ armed' = [armed EXCEPT ![l] = @ + 1]
       /\ UNCHANGED ready
    \/ /\ ~IsOpen(l)
       /\ \E e \in {Canceled, Error} : ready' = Append(ready, [listener |-> l, result |-> e])
       /\ UNCHANGED armed

\* What cancel() and close() do to an outstanding accept.
CancelArmed(l) ==
    /\ ready' = ready \o [i \in 1 .. armed[l] |-> [listener |-> l, result |-> Canceled]]
    /\ armed' = [armed EXCEPT ![l] = 0]

-----------------------------------------------------------------------------
(* The main thread: Listener_t::run() and the three calls of stop().       *)

Run(l) ==
    /\ acceptor[l] = "none"
    /\ acceptor' = [acceptor EXCEPT ![l] = "open"]
    /\ athread' = [athread EXCEPT ![l] = "started"]
    /\ UNCHANGED <<armed, ready, backlog, io, inHand, sockets, log>>

Cancel(l) ==
    /\ acceptor[l] = "open"
    /\ acceptor' = [acceptor EXCEPT ![l] = "cancelled"]
    /\ CancelArmed(l)
    /\ UNCHANGED <<athread, backlog, io, inHand, sockets, log>>

\* The kernel resets the connections nobody accepted.
Close(l) ==
    /\ acceptor[l] = "cancelled"
    /\ acceptor' = [acceptor EXCEPT ![l] = "closed"]
    /\ CancelArmed(l)
    /\ refused' = refused \cup backlog[l]
    /\ backlog' = [backlog EXCEPT ![l] = {}]
    /\ UNCHANGED <<athread, io, inHand, forbidden, delivered, log>>

Join(l) ==
    /\ acceptor[l] = "closed"
    /\ athread[l] = "done"
    /\ acceptor' = [acceptor EXCEPT ![l] = "stopped"]
    /\ UNCHANGED <<athread, armed, ready, backlog, io, inHand, sockets, log>>

-----------------------------------------------------------------------------
(* The acceptor thread of l: listen().                                     *)

Listen(l) ==
    /\ athread[l] = "started"
    /\ athread' = [athread EXCEPT ![l] = "done"]
    /\ AsyncAccept(l)
    /\ UNCHANGED <<acceptor, backlog, io, inHand, sockets, log>>

-----------------------------------------------------------------------------
(* The io thread.                                                          *)

IoStart ==
    /\ io = "none"
    /\ io' = "waiting"
    /\ UNCHANGED <<acceptor, athread, armed, ready, backlog, inHand, sockets, log>>

\* Mutation: an error is taken for the cancellation and not logged.
IoDispatchSilent ==
    /\ io = "waiting"
    /\ ready # <<>>
    /\ ready' = Tail(ready)
    /\ IF Head(ready).result \in Conns
       THEN io' = "rearm" /\ inHand' = Head(ready)
       ELSE UNCHANGED <<io, inHand>>
    /\ UNCHANGED <<acceptor, athread, armed, backlog, sockets, reported, errors>>

\* Mutation: accept() drops what completes after stop() closed its acceptor.
IoDispatchOpen ==
    /\ io = "waiting"
    /\ ready # <<>>
    /\ ready' = Tail(ready)
    /\ LET done == Head(ready)
       IN  /\ IF done.result \in Conns /\ IsOpen(done.listener)
              THEN io' = "rearm" /\ inHand' = done
              ELSE UNCHANGED <<io, inHand>>
           /\ reported' = reported \cup (IF done.result = Error THEN {done.listener} ELSE {})
    /\ UNCHANGED <<acceptor, athread, armed, backlog, sockets, errors>>

\* The next completion runs accept(): with a connection it goes on to
\* re-arm, with any error but the cancellation it is logged, and in neither
\* case is the accept issued again.
IoDispatch ==
    /\ io = "waiting"
    /\ ready # <<>>
    /\ ready' = Tail(ready)
    /\ LET done == Head(ready)
       IN  \/ /\ done.result \in Conns
              /\ io' = "rearm"
              /\ inHand' = done
              /\ UNCHANGED reported
           \/ /\ done.result = Error
              /\ reported' = reported \cup {done.listener}
              /\ UNCHANGED <<io, inHand>>
           \/ /\ done.result = Canceled
              /\ UNCHANGED <<io, inHand, reported>>
    /\ UNCHANGED <<acceptor, athread, armed, backlog, sockets, errors>>

\* Mutation: the socket is handed over without isForbidden().
IoRearmSkipsCheck ==
    /\ io = "rearm"
    /\ io' = "enqueue"
    /\ AsyncAccept(inHand.listener)
    /\ UNCHANGED <<acceptor, athread, backlog, inHand, sockets, log>>

IoRearm ==
    /\ io = "rearm"
    /\ io' = "check"
    /\ AsyncAccept(inHand.listener)
    /\ UNCHANGED <<acceptor, athread, backlog, inHand, sockets, log>>

\* socket->forbidden = isForbidden(socket)
IoCheck ==
    /\ io = "check"
    /\ io' = "enqueue"
    /\ forbidden' = IF inHand.result \in Forbids[inHand.listener]
                    THEN forbidden \cup {inHand.result}
                    ELSE forbidden
    /\ UNCHANGED <<acceptor, athread, armed, ready, backlog, inHand, delivered, refused, log>>

\* remote_endpoint() throws when the peer is already gone; nothing between
\* there and the start of the thread catches it.
IoCheckThrows ==
    /\ io = "check"
    /\ inHand.result \in Fragile
    /\ io' = "threw"
    /\ UNCHANGED <<acceptor, athread, armed, ready, backlog, inHand, sockets, log>>

\* handler->enqueue(socket)
IoEnqueue ==
    /\ io = "enqueue"
    /\ io' = "waiting"
    /\ delivered' = [delivered EXCEPT ![inHand.listener] = @ \cup {inHand.result}]
    /\ inHand' = Nothing
    /\ UNCHANGED <<acceptor, athread, armed, ready, backlog, forbidden, refused, log>>

\* io_service::run() returns between two completions: after
\* io_service::stop(), or with no work left (ThreadServer says when).
IoReturn ==
    /\ io = "waiting"
    /\ io' = "returned"
    /\ UNCHANGED <<acceptor, athread, armed, ready, backlog, inHand, sockets, log>>

IoStep == IoStart \/ IoDispatch \/ IoRearm \/ IoCheck \/ IoEnqueue

-----------------------------------------------------------------------------
\* An exception that leaves io_service::run() leaves its thread, and
\* std::terminate() ends the process: no thread steps after it.
Alive == io # "threw"

Next == /\ Alive
        /\ \/ \E l \in Listeners :
                 \/ Run(l) \/ Cancel(l) \/ Close(l) \/ Join(l) \/ Listen(l) \/ AcceptFails(l)
                 \/ \E c \in Conns : Connect(l, c) \/ AcceptOk(l, c)
           \/ IoStep \/ IoCheckThrows \/ IoReturn

Spec == Init /\ [][Next]_lvars

-----------------------------------------------------------------------------
(* Properties.                                                             *)

\* The accepts of l that some thread has still to issue, wait for or run.
Chain(l) == armed[l] + Cardinality(ReadyOf(l))
            + (IF athread[l] = "started" THEN 1 ELSE 0)
            + (IF io = "rearm" /\ inHand.listener = l THEN 1 ELSE 0)

\* The chain of accepts neither doubles nor breaks unseen: a listener never has
\* two in flight, so that two completions of it never race, and it goes deaf
\* (open, and nobody will accept on it again) only with a word in the log
\* (Listener_t::accept issues one for the one that has completed, and drops
\* the chain on an error alone).
OneAccept ==
    \A l \in Listeners :
        /\ Chain(l) <= 1
        /\ acceptor[l] = "open" /\ Chain(l) = 0 => l \in reported

\* What a handler gets carries the verdict of isForbidden(): the flag, false
\* in the constructor of SocketWork_t, is set before the handoff.
VerdictBeforeHandoff ==
    \A l \in Listeners : \A c \in delivered[l] : c \in forbidden <=> c \in Forbids[l]

\* l has accepted c: its completion waits for the io thread or is being run,
\* or the handler has the socket.
Accepted(l, c) ==
    \/ \E i \in DOMAIN ready : ready[i] = [listener |-> l, result |-> c]
    \/ inHand = [listener |-> l, result |-> c]
    \/ c \in delivered[l]

\* A connection that a listener has accepted stays with this listener, and with
\* no other, until its handler has it: stop() may cancel and close the acceptor
\* in another thread at any moment of that way, and completions of the other
\* listeners come in between (Listener_t::accept tests the error alone, not
\* the acceptor).  What io_service::run() leaves behind when it returns stays
\* where it is, and is handed to nobody.
AcceptedIsKept ==
    [][\A l \in Listeners, c \in Conns :
          Accepted(l, c) => \A k \in Listeners : Accepted(k, c)' <=> k = l]_lvars
=============================================================================
