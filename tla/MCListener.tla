----------------------------- MODULE MCListener -----------------------------
(***************************************************************************)
(* Two listeners share the io thread; of three connections one is          *)
(* forbidden on the first listener and one has a peer that may vanish.     *)
(***************************************************************************)
EXTENDS Listener, TLC

CONSTANTS l1, l2, c1, c2

MCForbids == l1 :> {c2} @@ l2 :> {}
=============================================================================
