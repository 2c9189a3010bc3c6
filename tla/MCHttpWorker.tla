---------------------------- MODULE MCHttpWorker ----------------------------
(***************************************************************************)
(* Two workers, two connections, either forbidden or not, and two          *)
(* descriptor numbers, so that a number can be reused by the second        *)
(* connection before the first is closed twice; two routes, of which one   *)
(* request fits both and one none.                                         *)
(***************************************************************************)
EXTENDS HttpWorker

CONSTANTS c1, c2

MCRoutes == << [uris |-> {"a"}, kind |-> "http"],
               [uris |-> {"a", "b"}, kind |-> "jsonrpc"] >>

MCRequests == {[uri |-> "a", post |-> FALSE, json |-> FALSE],
               [uri |-> "b", post |-> TRUE, json |-> FALSE],
               [uri |-> "c", post |-> FALSE, json |-> FALSE]}
=============================================================================
