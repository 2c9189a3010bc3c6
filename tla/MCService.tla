------------------------------ MODULE MCService ------------------------------
(***************************************************************************)
(* A server in the foreground: one or two handlers from two libraries, of  *)
(* which one may also be a module's, with equal or different names, and    *)
(* one or two listeners on two addresses for these handlers or an unknown  *)
(* one.  And a service with its guard: one handler with a module, with and *)
(* without pid file, from absolute and from relative paths.                *)
(***************************************************************************)
EXTENDS Service

CONSTANTS a, b

First == {[name |-> 1, library |-> a, module |-> m] : m \in {NoLibrary, b}}
Second == [name : {1, 2}, library : {a, b}, module : {NoLibrary, b}]
HandlerLists == {<<>>} \cup {<<h>> : h \in First} \cup {<<h, g>> : h \in First, g \in Second}

Listeners == [address : {1, 2}, handler : {1, 2}]
ListenerLists == {<<l>> : l \in Listeners} \cup {<<l, k>> : l \in Listeners, k \in Listeners}

Foreground == [handlers : HandlerLists, listeners : ListenerLists,
               detach : {FALSE}, pidFile : {FALSE}, relative : {FALSE}]

Detached == [handlers : {<<[name |-> 1, library |-> a, module |-> b]>>},
             listeners : {<<[address |-> 1, handler |-> 1]>>},
             detach : {TRUE}, pidFile : BOOLEAN, relative : BOOLEAN]

MCConfigs == Foreground \cup Detached
=============================================================================
