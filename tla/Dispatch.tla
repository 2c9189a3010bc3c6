------------------------------ MODULE Dispatch ------------------------------
(***************************************************************************)
(* What a handler promises to the listeners that feed it, with no threads  *)
(* and no thread pool: connections submitted to a handler wait in order,   *)
(* at most Limit[h] of them are served at a time, every one is served once *)
(* while the handler is open, and after it is closed the ones still        *)
(* waiting may be served or thrown away, but none is left behind.          *)
(* Handler.tla implements this specification.                              *)
(***************************************************************************)
EXTENDS Naturals, Sequences, FiniteSets

CONSTANTS Handlers,   \* the configured handlers
          Conns,      \* the accepted connections
          Limit       \* Limit[h]: how many connections h serves at a time

VARIABLES waiting,    \* waiting[h]: submitted connections, oldest first
          serving,    \* serving[h]: connections being served
          served,     \* connections whose service has ended
          discarded,  \* connections thrown away unserved at shutdown
          phase       \* phase[h]: "open", "closed" or "gone"

vars == <<waiting, serving, served, discarded, phase>>

Seen(c) == \/ \E h \in Handlers : \E i \in DOMAIN waiting[h] : waiting[h][i] = c
           \/ \E h \in Handlers : c \in serving[h]
           \/ c \in served \cup discarded

Init == /\ waiting = [h \in Handlers |-> <<>>]
        /\ serving = [h \in Handlers |-> {}]
        /\ served = {}
        /\ discarded = {}
        /\ phase = [h \in Handlers |-> "open"]

Submit(h, c) ==
    /\ phase[h] # "gone"
    /\ ~Seen(c)
    /\ waiting' = [waiting EXCEPT ![h] = Append(@, c)]
    /\ UNCHANGED <<serving, served, discarded, phase>>

\* Only the oldest waiting connection may be taken.
Start(h) ==
    /\ phase[h] # "gone"
    /\ waiting[h] # <<>>
    /\ Cardinality(serving[h]) < Limit[h]
    /\ waiting' = [waiting EXCEPT ![h] = Tail(@)]
    /\ serving' = [serving EXCEPT ![h] = @ \cup {Head(waiting[h])}]
    /\ UNCHANGED <<served, discarded, phase>>

Complete(h, c) ==
    /\ c \in serving[h]
    /\ serving' = [serving EXCEPT ![h] = @ \ {c}]
    /\ served' = served \cup {c}
    /\ UNCHANGED <<waiting, discarded, phase>>

Close(h) ==
    /\ phase[h] = "open"
    /\ phase' = [phase EXCEPT ![h] = "closed"]
    /\ UNCHANGED <<waiting, serving, served, discarded>>

\* A handler goes away only when it serves nothing.
Vanish(h) ==
    /\ phase[h] = "closed"
    /\ serving[h] = {}
    /\ phase' = [phase EXCEPT ![h] = "gone"]
    /\ discarded' = discarded \cup {waiting[h][i] : i \in DOMAIN waiting[h]}
    /\ waiting' = [waiting EXCEPT ![h] = <<>>]
    /\ UNCHANGED <<serving, served>>

Next == \E h \in Handlers :
            \/ \E c \in Conns : Submit(h, c) \/ Complete(h, c)
            \/ Start(h) \/ Close(h) \/ Vanish(h)

Fairness == \A h \in Handlers :
                /\ WF_vars(phase[h] = "open" /\ Start(h))
                /\ \A c \in Conns : WF_vars(Complete(h, c))
                /\ WF_vars(Vanish(h))

Spec == Init /\ [][Next]_vars
FairSpec == Spec /\ Fairness
=============================================================================
