---------------------------- MODULE AccessControl ----------------------------
(***************************************************************************)
(* The address lists of a listener, from its configuration (Order, Allow,  *)
(* Deny; ThreadServer_t::registerListeners and Network_t::parse) to the    *)
(* verdict on a client (Listener_t::isForbidden).                          *)
(*                                                                         *)
(* An IPv4 address has W bits here (32 in the code); a number is the set   *)
(* of the positions of its one bits, so that & is \cap.  The register that *)
(* computes a netmask has 2 * W (64) of them.                              *)
(***************************************************************************)
EXTENDS Integers, Sequences

CONSTANTS W,           \* bits of an address
          Entries,     \* what an item of Allow or Deny may say
          MaxEntries   \* bound on the items of both lists, for model checking

ASSUME WidthAssumption == W \in Nat \ {0} /\ MaxEntries \in Nat

Bits == 0 .. W - 1
Addresses == SUBSET Bits
\* Any client address that is not IPv4: a value that is no member of Addresses.
V6 == {W}

ASSUME EntriesAssumption ==
    \A e \in Entries : /\ e.address \in Addresses
                       /\ \/ e.kind = "host"
                          \/ e.kind = "dotted" /\ e.netmask \in Addresses
                          \/ e.kind = "length" /\ e.length \in Int

-----------------------------------------------------------------------------
(* Network_t.                                                              *)

Register == 0 .. 2 * W - 1

\* x >> n of an unsigned register: undefined from the register's width on;
\* the processors this builds for take the count modulo that width.
ShiftRight(x, n) == {i \in Register : i + (n % (2 * W)) \in x}

\* x - y modulo 2 ^ (2 * W), bit by bit: position i lends to a lower one that
\* lacks its bit, unless x has one to lend in between.
Lends(x, y, i) == \E j \in y \ x : j < i /\ \A k \in x \ y : k < j \/ k >= i

Subtract(x, y) == {i \in Register : i \in x <=> (i \in y <=> Lends(x, y, i))}

\* netmaskAsInt of "/n": 0x100000000 has the bit W and no other.
NetmaskAsInt(n) == Subtract({W}, ShiftRight({W}, n))

\* address_v4::from_string() refuses a first number above 255.
ValidEntry(e) == e.kind = "length" => NetmaskAsInt(e.length) \subseteq Bits

Netmask(e) == CASE e.kind = "host" -> Bits
                [] e.kind = "dotted" -> e.netmask
                [] e.kind = "length" -> NetmaskAsInt(e.length)

Parse(e) == [address |-> e.address \cap Netmask(e), netmask |-> Netmask(e)]

Contains(network, a) == a \cap network.netmask = network.address

-----------------------------------------------------------------------------
(* Listener_t.                                                             *)

Matches(networks, a) == \E i \in DOMAIN networks : Contains(networks[i], a)

\* isForbidden(result, value, address, networks)
Override(result, value, a, networks) == IF Matches(networks, a) THEN value ELSE result

\* Mutation: the first list that matches decides.
IsForbiddenFirstMatch(allowFirst, allows, denies, a) ==
    \/ a = V6
    \/ a # V6 /\ ~Matches(IF allowFirst THEN allows ELSE denies, a)

IsForbidden(allowFirst, allows, denies, a) ==
    \/ a = V6
    \/ /\ a # V6
       /\ IF allowFirst
          THEN Override(Override(TRUE, FALSE, a, allows), TRUE, a, denies)
          ELSE Override(Override(TRUE, TRUE, a, denies), FALSE, a, allows)

-----------------------------------------------------------------------------
VARIABLES phase,    \* "order", "allow", "deny", "serving" or "refused" (start-up failed)
          order,    \* the configured Order
          first,    \* allowFirst in the listener object
          items,    \* items.allow, items.deny: the lists as written
          allowed, denied,   \* the parsed lists
          client,   \* the last client looked at
          verdict   \* isForbidden() of it

accessvars == <<phase, order, first, items, allowed, denied, client, verdict>>

Orders == {"allow,deny", "deny,allow"}

AccessTypeOK ==
    /\ phase \in {"order", "allow", "deny", "serving", "refused"}
    /\ order \in Orders \cup {"other"}
    /\ first \in BOOLEAN
    /\ items.allow \in Seq(Entries) /\ items.deny \in Seq(Entries)
    /\ \A n \in {allowed[i] : i \in DOMAIN allowed} \cup {denied[i] : i \in DOMAIN denied} :
          n.address \subseteq n.netmask /\ n.netmask \in Addresses
    /\ verdict \in BOOLEAN

AccessInit == /\ phase = "order"
              /\ order = "other"
              /\ first = TRUE
              /\ items = [allow |-> <<>>, deny |-> <<>>]
              /\ allowed = <<>> /\ denied = <<>>
              /\ client = V6
              /\ verdict = TRUE

ReadOrder(o) ==
    /\ phase = "order"
    /\ order' = o
    /\ phase' = IF o \in Orders THEN "allow" ELSE "refused"
    /\ UNCHANGED <<first, items, allowed, denied, client, verdict>>

Bounded == Len(items.allow) + Len(items.deny) < MaxEntries

ReadAllow(e) ==
    /\ phase = "allow" /\ Bounded
    /\ items' = [items EXCEPT !.allow = Append(@, e)]
    /\ IF ValidEntry(e)
       THEN allowed' = Append(allowed, Parse(e)) /\ UNCHANGED phase
       ELSE phase' = "refused" /\ UNCHANGED allowed
    /\ UNCHANGED <<order, first, denied, client, verdict>>

AllowRead ==
    /\ phase = "allow"
    /\ phase' = "deny"
    /\ UNCHANGED <<order, first, items, allowed, denied, client, verdict>>

ReadDeny(e) ==
    /\ phase = "deny" /\ Bounded
    /\ items' = [items EXCEPT !.deny = Append(@, e)]
    /\ IF ValidEntry(e)
       THEN denied' = Append(denied, Parse(e)) /\ UNCHANGED phase
       ELSE phase' = "refused" /\ UNCHANGED denied
    /\ UNCHANGED <<order, first, allowed, client, verdict>>

\* The constructor's allowFirst is given order's meaning, and the member is
\* initialised with true.
ConstructListener ==
    /\ phase = "deny"
    /\ phase' = "serving"
    /\ LET allowFirst == order # "deny,allow"
       IN  first' = (allowFirst \/ TRUE)
    /\ UNCHANGED <<order, items, allowed, denied, client, verdict>>

\* The constructor refuses the listen address, or its test bind throws.
ConstructFails ==
    /\ phase = "deny"
    /\ phase' = "refused"
    /\ UNCHANGED <<order, first, items, allowed, denied, client, verdict>>

Accept(a) ==
    /\ phase = "serving"
    /\ client' = a
    /\ verdict' = IsForbidden(first, allowed, denied, a)
    /\ UNCHANGED <<phase, order, first, items, allowed, denied>>

AccessNext == \/ \E o \in Orders \cup {"other"} : ReadOrder(o)
              \/ \E e \in Entries : ReadAllow(e) \/ ReadDeny(e)
              \/ AllowRead \/ ConstructListener \/ ConstructFails
              \/ \E a \in Addresses \cup {V6} : Accept(a)

AccessSpec == AccessInit /\ [][AccessNext]_accessvars

-----------------------------------------------------------------------------
(* What the configuration says, with no masks: a client is named by an item
   that agrees with it on its leading bits, or on the bits of its mask.  A
   length is never refused for its size: it counts modulo the width of the
   register, so that /64 names everybody, as /0 does, and /65 half of them. *)

LeadingBits(e) == e.length % (2 * W)

NamedBy(e, a) ==
    CASE e.kind = "host" -> a = e.address
      [] e.kind = "dotted" -> \A b \in e.netmask : b \in a <=> b \in e.address
      [] e.kind = "length" -> \A b \in Bits : b >= W - LeadingBits(e) => (b \in a <=> b \in e.address)

Named(list, a) == a # V6 /\ \E i \in DOMAIN list : NamedBy(list[i], a)

\* With Order allow,deny a client is served exactly when some Allow item names
\* it and no Deny item does: masks, & and the two passes of isForbidden()
\* compute just that, and a server whose lists hold a length of 33 to 63, which
\* would yield no mask, serves nobody, for it does not start.
AllowDenyMeaning ==
    phase = "serving" /\ order = "allow,deny" =>
        /\ ~verdict <=> Named(items.allow, client) /\ ~Named(items.deny, client)
        /\ \A list \in {items.allow, items.deny} : \A i \in DOMAIN list :
              list[i].kind = "length" => LeadingBits(list[i]) <= W

\* registerListeners logs "Order = deny,allow": in that order a client both
\* lists name is served.
DenyAllowMeaning ==
    phase = "serving" /\ order = "deny,allow" => (~verdict <=> Named(items.allow, client))
=============================================================================
