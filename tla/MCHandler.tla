------------------------------ MODULE MCHandler ------------------------------
(***************************************************************************)
(* A handler with two workers and one configured with none, three          *)
(* connections: two workers race for one queue, a third connection is left *)
(* behind when they are told to finish, and an empty pool is created and   *)
(* destroyed.                                                              *)
(***************************************************************************)
EXTENDS Handler, TLC

CONSTANTS pooled, empty, c1, c2, c3

MCWorkerCount == pooled :> 2 @@ empty :> 0
=============================================================================
