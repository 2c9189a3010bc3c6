--------------------------- MODULE MCThreadServer ---------------------------
(***************************************************************************)
(* Two listeners, each with a handler of one worker, and two connections:  *)
(* a listener is stopped while the other still accepts, and a connection   *)
(* can be in flight at every step of stop().                               *)
(***************************************************************************)
EXTENDS ThreadServer, TLC

CONSTANTS h1, h2, l1, l2, c1, c2

MCWorkerCount == h1 :> 1 @@ h2 :> 1
MCHandlerOf == l1 :> h1 @@ l2 :> h2
MCForbids == l1 :> {c1} @@ l2 :> {}
MCHandlerOrder == <<h1, h2>>
MCListenerOrder == <<l1, l2>>
=============================================================================
