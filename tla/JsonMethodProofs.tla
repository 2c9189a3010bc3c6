--------------------------- MODULE JsonMethodProofs ---------------------------
(***************************************************************************)
(* The value pool of a method, for every request, every program of makes,  *)
(* links and returns, and every way a method is left.  That each object is *)
(* deleted once rests on who owns it: the pool lists what it could take    *)
(* once (Listed), and what it could not take was deleted at once (Owned).  *)
(*                                                                         *)
(* The last theorem is about the texts the parameters are unescaped from.  *)
(***************************************************************************)
EXTENDS JsonMethod, FiniteSetTheorems, TLAPS

Arriving == {"line", "query", "body"}
Using == {"called", "rendering"}
Steps == Arriving \cup Using \cup {"leaving", "left"}

IsPooled(v) == \E i \in DOMAIN values : values[i] = v

\* heap, values and freed name the same objects.
Shapes ==
    /\ step \in Steps
    /\ Len(heap) \in Nat /\ heap = [v \in 1 .. Len(heap) |-> heap[v]]
    /\ values \in Seq(1 .. Len(heap))
    /\ freed \in Seq(Nat) /\ Len(freed) = Len(heap)
    /\ reply = [status |-> reply.status, text |-> reply.text]

\* The pool lists nothing twice.
Listed == \A i, j \in DOMAIN values : values[i] = values[j] => i = j

Owned ==
    /\ step \in Arriving => Len(heap) = 0
    /\ step # "left" => reply.status # Endless
    /\ step \in Using => \A v \in DOMAIN heap : IsPooled(v) /\ freed[v] = 0
    /\ step = "leaving" => \A v \in DOMAIN heap : freed[v] = IF IsPooled(v) THEN 0 ELSE 1
    /\ step = "left" => \A v \in DOMAIN heap : freed[v] = IF reply.status = Endless THEN 0 ELSE 1

PoolInv == Shapes /\ Listed /\ Owned

-----------------------------------------------------------------------------
\* What Append does to a sequence of anything.
LEMMA AppendsAny ==
    ASSUME NEW q, Len(q) \in Nat, q = [i \in 1 .. Len(q) |-> q[i]], NEW e
    PROVE  /\ Len(Append(q, e)) = Len(q) + 1
           /\ Append(q, e) = [i \in 1 .. Len(q) + 1 |-> Append(q, e)[i]]
<1> DEFINE S == {q[i] : i \in 1 .. Len(q)}
<1>1. q \in Seq(S)
    OBVIOUS
<1>2. q \in Seq(S \cup {e})
    BY <1>1
<1>3. Append(q, e) \in Seq(S \cup {e}) /\ Len(Append(q, e)) = Len(q) + 1
    BY <1>2
<1>4. PICK f : f = Append(q, e)
    OBVIOUS
<1>5. f \in Seq(S \cup {e}) /\ Len(f) = Len(q) + 1
    BY <1>3, <1>4
<1>6. f = [i \in 1 .. Len(q) + 1 |-> f[i]]
    BY <1>5
<1> QED BY <1>4, <1>5, <1>6

\* The one occurrence of an object in the pool's list.
LEMMA OneEntry ==
    ASSUME Listed, NEW v
    PROVE  Cardinality({i \in DOMAIN values : values[i] = v}) = IF IsPooled(v) THEN 1 ELSE 0
<1>1. CASE IsPooled(v)
  <2>1. PICK i \in DOMAIN values : values[i] = v
      BY <1>1 DEF IsPooled
  <2>2. {j \in DOMAIN values : values[j] = v} = {i}
      BY <2>1 DEF Listed
  <2> QED BY <1>1, <2>2, FS_Singleton
<1>2. CASE ~IsPooled(v)
  <2>1. {j \in DOMAIN values : values[j] = v} = {}
      BY <1>2 DEF IsPooled
  <2> QED BY <1>2, <2>1, FS_EmptySet
<1> QED BY <1>1, <1>2

LEMMA InitPoolInv == JsonInit => PoolInv
BY DEF JsonInit, Init, PoolInv, Shapes, Listed, Owned, IsPooled, Steps, Arriving, Using, Endless

\* What an object that is made adds, however its making ends.
LEMMA NewObject ==
    ASSUME PoolInv, NEW object, New(object)
    PROVE  /\ step = "called"
           /\ Len(heap') = Len(heap) + 1 /\ heap' = [v \in 1 .. Len(heap') |-> heap'[v]]
           /\ \A n \in Nat : LET f == Append(freed, n)
                             IN  /\ f \in Seq(Nat) /\ Len(f) = Len(heap')
                                 /\ \A v \in 1 .. Len(heap) : f[v] = freed[v]
                                 /\ f[Len(heap')] = n
<1>1. step = "called" /\ heap' = Append(heap, object)
    BY DEF New, Running
<1>2. Len(heap') = Len(heap) + 1 /\ heap' = [v \in 1 .. Len(heap') |-> heap'[v]]
    BY <1>1, AppendsAny DEF PoolInv, Shapes
<1> QED BY <1>1, <1>2 DEF PoolInv, Shapes

LEMMA MakeKeeps == ASSUME PoolInv, NEW object, Make(object) PROVE PoolInv'
<1>1. /\ New(object) /\ freed' = Append(freed, 0) /\ values' = Append(values, Len(heap'))
      /\ UNCHANGED <<step, reply>>
    BY DEF Make, vars
<1>2. /\ step = "called" /\ step' = "called" /\ reply' = reply
      /\ Len(heap) \in Nat /\ Len(heap') = Len(heap) + 1
      /\ heap' = [v \in 1 .. Len(heap') |-> heap'[v]]
      /\ freed' \in Seq(Nat) /\ Len(freed') = Len(heap')
      /\ \A v \in 1 .. Len(heap) : freed'[v] = freed[v]
      /\ freed'[Len(heap')] = 0
    BY <1>1, NewObject DEF PoolInv, Shapes
<1>3. /\ values \in Seq(1 .. Len(heap)) /\ Len(values) \in Nat
      /\ values' \in Seq(1 .. Len(heap')) /\ DOMAIN values' = 1 .. Len(values) + 1
      /\ DOMAIN values = 1 .. Len(values)
      /\ \A i \in DOMAIN values : values'[i] = values[i] /\ values[i] \in 1 .. Len(heap)
      /\ values'[Len(values) + 1] = Len(heap')
  <2>1. values \in Seq(1 .. Len(heap)) /\ values \in Seq(1 .. Len(heap'))
      BY <1>2 DEF PoolInv, Shapes
  <2>2. Len(heap') \in 1 .. Len(heap')
      BY <1>2
  <2> QED BY <1>1, <2>1, <2>2
<1>4. Shapes'
    BY <1>2, <1>3 DEF PoolInv, Shapes
<1>5. Listed'
  <2> SUFFICES ASSUME NEW i \in DOMAIN values', NEW j \in DOMAIN values', values'[i] = values'[j]
               PROVE  i = j
      BY DEF Listed
  <2>1. \A k \in DOMAIN values' : k \in DOMAIN values \/ k = Len(values) + 1
      BY <1>3
  <2>2. \A k \in DOMAIN values : values'[k] # Len(heap')
      BY <1>2, <1>3
  <2> QED BY <1>3, <2>1, <2>2 DEF PoolInv, Listed
<1>6. Owned'
  <2>1. DOMAIN heap = 1 .. Len(heap) /\ DOMAIN heap' = 1 .. Len(heap')
      BY <1>2 DEF PoolInv, Shapes
  <2>2. ASSUME NEW v \in DOMAIN heap' PROVE IsPooled(v)' /\ freed'[v] = 0
    <3>1. CASE v = Len(heap')
      <4>1. Len(values) + 1 \in DOMAIN values'
          BY <1>3
      <4> QED BY <1>2, <1>3, <3>1, <4>1 DEF IsPooled
    <3>2. CASE v \in DOMAIN heap
      <4>1. IsPooled(v) /\ freed[v] = 0
          BY <1>2, <3>2 DEF PoolInv, Owned, Using
      <4>2. PICK i \in DOMAIN values : values[i] = v
          BY <4>1 DEF IsPooled
      <4>3. i \in DOMAIN values' /\ values'[i] = v
          BY <1>3, <4>2
      <4> QED BY <1>2, <2>1, <3>2, <4>1, <4>3 DEF IsPooled
    <3> QED BY <1>2, <2>1, <3>1, <3>2
  <2> QED BY <1>2, <2>2 DEF PoolInv, Owned, Arriving, Using
<1> QED BY <1>4, <1>5, <1>6 DEF PoolInv

LEMMA MakeFailsKeeps == ASSUME PoolInv, NEW object, MakeFails(object) PROVE PoolInv'
<1>1. /\ New(object) /\ freed' = Append(freed, 1) /\ values' = values
      /\ step' = "leaving" /\ reply' = [reply EXCEPT !.status = 500]
    BY DEF MakeFails, GoTo
<1>2. /\ step = "called"
      /\ Len(heap) \in Nat /\ Len(heap') = Len(heap) + 1
      /\ heap' = [v \in 1 .. Len(heap') |-> heap'[v]]
      /\ freed' \in Seq(Nat) /\ Len(freed') = Len(heap')
      /\ \A v \in 1 .. Len(heap) : freed'[v] = freed[v]
      /\ freed'[Len(heap')] = 1
    BY <1>1, NewObject DEF PoolInv, Shapes
<1>3. reply' = [status |-> 500, text |-> reply.text] /\ reply'.status = 500
    BY <1>1 DEF PoolInv, Shapes
<1>4. values \in Seq(1 .. Len(heap)) /\ values' \in Seq(1 .. Len(heap'))
    BY <1>1, <1>2 DEF PoolInv, Shapes
<1>5. Shapes'
  <2>1. step' \in Steps /\ Len(heap') \in Nat
      BY <1>1, <1>2 DEF Steps
  <2>2. reply' = [status |-> reply'.status, text |-> reply'.text]
      BY <1>3
  <2> QED BY <1>2, <1>4, <2>1, <2>2 DEF Shapes
<1>6. Listed'
    BY <1>1 DEF PoolInv, Listed
<1>7. Owned'
  <2>1. DOMAIN heap = 1 .. Len(heap) /\ DOMAIN heap' = 1 .. Len(heap')
      BY <1>2 DEF PoolInv, Shapes
  <2>2. ASSUME NEW v \in DOMAIN heap' PROVE freed'[v] = IF IsPooled(v)' THEN 0 ELSE 1
    <3>1. CASE v = Len(heap')
        BY <1>1, <1>2, <1>4, <3>1 DEF IsPooled
    <3>2. CASE v \in DOMAIN heap
        BY <1>1, <1>2, <2>1, <3>2 DEF IsPooled, PoolInv, Owned, Using
    <3> QED BY <1>2, <2>1, <3>1, <3>2
  <2>3. step' = "leaving" /\ reply'.status # Endless
      BY <1>1, <1>3 DEF Endless
  <2> QED BY <2>2, <2>3 DEF Owned, Arriving, Using
<1> QED BY <1>5, <1>6, <1>7 DEF PoolInv

\* Linking values changes what is in them, not which there are.
LEMMA LinkKeeps ==
    ASSUME PoolInv, NEW a, NEW v, NEW name, PushBack(a, v) \/ AppendTo(a, name, v)
    PROVE  PoolInv'
<1>1. /\ UNCHANGED <<step, values, freed, reply>>
      /\ \E changed : heap' = [heap EXCEPT ![a] = changed]
    BY DEF PushBack, AppendTo, vars
<1>2. DOMAIN heap' = DOMAIN heap /\ Len(heap') = Len(heap) /\ heap' = [u \in 1 .. Len(heap') |-> heap'[u]]
  <2>1. PICK n \in Nat : n = Len(heap) /\ heap = [u \in 1 .. n |-> heap[u]]
      BY DEF PoolInv, Shapes
  <2>2. PICK changed : heap' = [heap EXCEPT ![a] = changed]
      BY <1>1
  <2>3. heap' = [u \in 1 .. n |-> heap'[u]]
      BY <2>1, <2>2
  <2>4. heap' \in Seq({heap'[u] : u \in 1 .. n})
      BY <2>1, <2>3
  <2>5. Len(heap') = n
      BY <2>3, <2>4
  <2> QED BY <2>1, <2>3, <2>5
<1> QED BY <1>1, <1>2 DEF PoolInv, Shapes, Listed, Owned, IsPooled

LEMMA DestroyKeeps == ASSUME PoolInv, DestroyPool PROVE PoolInv'
<1>1. /\ step = "leaving" /\ step' = "left" /\ UNCHANGED <<heap, values, reply>>
      /\ freed' = [v \in DOMAIN freed |->
                      freed[v] + Cardinality({i \in DOMAIN values : values[i] = v})]
    BY DEF DestroyPool, GoTo
<1>2. DOMAIN freed = 1 .. Len(heap) /\ DOMAIN heap = 1 .. Len(heap) /\ Len(heap) \in Nat
    BY DEF PoolInv, Shapes
<1>3. \A v \in DOMAIN freed : freed'[v] = 1
  <2> SUFFICES ASSUME NEW v \in DOMAIN freed PROVE freed'[v] = 1
      OBVIOUS
  <2>1. freed[v] = IF IsPooled(v) THEN 0 ELSE 1
      BY <1>1, <1>2 DEF PoolInv, Owned
  <2> QED BY <1>1, <2>1, OneEntry DEF PoolInv
<1>4. freed' \in Seq(Nat) /\ Len(freed') = Len(heap)
  <2>1. freed' = [v \in 1 .. Len(heap) |-> freed'[v]]
      BY <1>1, <1>2
  <2> QED BY <1>2, <1>3, <2>1
<1>5. Shapes' /\ Listed'
    BY <1>1, <1>4 DEF PoolInv, Shapes, Listed, Steps
<1>6. Owned'
    BY <1>1, <1>2, <1>3 DEF PoolInv, Owned, Arriving, Using
<1> QED BY <1>5, <1>6 DEF PoolInv

LEMMA NextPoolInv == PoolInv /\ [JsonNext]_allvars => PoolInv'
<1> SUFFICES ASSUME PoolInv, [JsonNext]_allvars PROVE PoolInv'
    OBVIOUS
<1> USE DEF Shapes, Listed, Owned, IsPooled, Steps, Arriving, Using
<1>1. CASE (SplitLine \/ ParseQuery \/ ParseBody) /\ UNCHANGED jvars
  <2>1. /\ step \in Arriving /\ step' \in Arriving \cup {"called"}
        /\ UNCHANGED <<heap, values, freed, reply>>
      BY <1>1 DEF SplitLine, ParseQuery, ParseBody, jvars
  <2>2. DOMAIN heap = {}
      BY <2>1 DEF PoolInv
  <2> QED BY <2>1, <2>2 DEF PoolInv
<1>2. CASE CheckRpc
  <2>1. PICK refusal \in {405, 400, 200} :
            /\ step = "query" /\ reply' = [reply EXCEPT !.status = refusal]
            /\ step' = IF refusal = 200 THEN "called" ELSE "left"
            /\ UNCHANGED <<heap, values, freed>>
      BY <1>2 DEF CheckRpc
  <2> QED BY <2>1 DEF PoolInv, Endless
<1>3. ASSUME NEW o, Make(o) \/ MakeFails(o) PROVE PoolInv'
    BY <1>3, MakeKeeps, MakeFailsKeeps
<1>4. ASSUME NEW a, NEW v, NEW name, PushBack(a, v) \/ AppendTo(a, name, v) PROVE PoolInv'
    BY <1>4, LinkKeeps
<1>5. ASSUME NEW v, Return(v) PROVE PoolInv'
    BY <1>5 DEF Return, Running, GoTo, PoolInv
<1>6. CASE Throw
  <2>1. PICK code \in {302, 404, 500} : reply' = [reply EXCEPT !.status = code]
      BY <1>6 DEF Throw
  <2>2. step = "called" /\ step' = "leaving" /\ UNCHANGED <<heap, values, freed>>
      BY <1>6 DEF Throw, Running, GoTo
  <2> QED BY <2>1, <2>2 DEF PoolInv, Endless
<1>7. CASE Render
    BY <1>7 DEF Render, GoTo, PoolInv
<1>8. CASE DestroyPool
    BY <1>8, DestroyKeeps
<1>9. CASE UNCHANGED allvars
    BY <1>9 DEF allvars, vars, jvars, PoolInv
<1> QED
  <2>1. CASE IsJson /\ Method
      BY <1>3, <1>4, <1>5, <1>6, <2>1 DEF Method
  <2> QED BY <1>1, <1>2, <1>7, <1>8, <1>9, <2>1 DEF JsonNext

\* However a method builds, shares and links its values and however it is
\* left, each object is deleted exactly once, and none before the document is
\* rendered (JSON::Pool_t, JsonMethod_t::call, JsonMethod2_t::call).
THEOREM FreedOnceAlways == JsonSpec => []FreedOnce
<1>1. ASSUME PoolInv PROVE FreedOnce
  <2> SUFFICES ASSUME NEW v \in DOMAIN heap
               PROVE  /\ freed[v] <= 1
                      /\ step \in {"called", "rendering"} => freed[v] = 0
                      /\ step = "left" /\ reply.status # Endless => freed[v] = 1
      BY DEF FreedOnce
  <2>1. Len(heap) # 0
      BY <1>1 DEF PoolInv, Shapes
  <2>2. step \in Using \cup {"leaving", "left"}
      BY <1>1, <2>1 DEF PoolInv, Shapes, Owned, Steps
  <2> QED BY <1>1, <2>2 DEF PoolInv, Owned, Using
<1> QED BY <1>1, InitPoolInv, NextPoolInv, PTL DEF JsonSpec

-----------------------------------------------------------------------------
\* No text of any length is read behind its terminator by unescape(): i is a
\* position of the text, so s[i + 2] could only lie behind the terminator when
\* s[i + 1] is the terminator, and unhex() refuses that.  The guard
\* i < s.size() - 2 plays no part in it, whatever size() - 2 wraps to
\* (Parameters_t::unescape).  It is the part of UnescapeMeaning on memory.
THEOREM UnescapeStaysInside ==
    ASSUME NEW S, NEW s \in Seq(S)
    PROVE  ~ReadsPast(s)
<1>1. Len(s) \in Nat
    OBVIOUS
<1>2. At(s, Len(s)) = Terminator
    BY <1>1 DEF At
<1>3. ~IsHex(Terminator)
    BY DEF IsHex, Unhex, Terminator
<1>4. ASSUME NEW i \in 0 .. Len(s) - 1, IsHex(At(s, i + 1)), i + 2 > Len(s)
      PROVE  FALSE
  <2>1. i + 1 = Len(s)
      BY <1>1, <1>4
  <2> QED BY <1>2, <1>3, <1>4, <2>1
<1> QED BY <1>1, <1>4 DEF ReadsPast
===============================================================================
