--------------------------- MODULE MCAccessControl ---------------------------
(***************************************************************************)
(* Addresses of three bits; every host, prefix lengths that exceed an      *)
(* address (4, 5), that wrap around the shift register of six bits (from 6 *)
(* on, as /64 to /99 do) or are negative, and every dotted mask,           *)
(* contiguous or not; up to two items in the two lists together.  The      *)
(* arithmetic of registers on sets of positions is that of numbers.        *)
(***************************************************************************)
EXTENDS AccessControl, FiniteSetsExt

Value(x) == MapThenSumSet(LAMBDA i : 2 ^ i, x)

ASSUME ArithmeticIsOfNumbers ==
    \A x, y \in SUBSET Register :
        Value(Subtract(x, y)) = (Value(x) - Value(y)) % 2 ^ (2 * W)

ASSUME ShiftIsOfNumbers ==
    \A x \in SUBSET Register, n \in Register : Value(ShiftRight(x, n)) = Value(x) \div 2 ^ n

MCEntries ==
    [address : SUBSET (0 .. 2), kind : {"host"}]
        \cup [address : SUBSET (0 .. 2), kind : {"length"}, length : -1 .. 9]
        \cup [address : {{}, {0, 2}}, kind : {"dotted"}, netmask : SUBSET (0 .. 2)]
=============================================================================
