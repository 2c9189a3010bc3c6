------------------------------ MODULE JsonMethod ------------------------------
(***************************************************************************)
(* JsonMethod_t, JsonMethod2_t and JsonRPCMethod_t (cpphttphandler.h): a   *)
(* method that is given a value pool (json.cc), makes values in it, links  *)
(* them by raw pointers, and returns one, which is rendered into the       *)
(* response before the pool goes; or it throws.                            *)
(*                                                                         *)
(* A value is named by the order of its making; 0 is the pool's own null.  *)
(* A number is counted in halves and its text is one character.            *)
(***************************************************************************)
EXTENDS Params, FiniteSets

CONSTANTS IntMax    \* the largest int of jsoncpp, in halves

\* Requests have a kind, "http", "json" or "rpc".  Those of the last two say
\* what the method makes of them: at most limit values, among them scalars,
\* and the keys of its structs; parses is whether an RPC body is JSON.

VARIABLES
    heap,   \* heap[v]: the value objects made so far
    values, \* Pool_t::values
    freed,  \* freed[v]: how often v was deleted
    result, \* the value the method returned
    reply   \* [status, text]: of Response_t; status is 200, that of an error,
            \* or Endless when the text of a value has no end

jvars == <<heap, values, freed, result, reply>>
allvars == <<vars, jvars>>

JsonTypeOK == /\ step \in {"line", "query", "body", "called", "rendering", "leaving", "left"}
              /\ IsText(uri) /\ IsText(query) /\ IsMap(data) /\ IsMap(fileData)
              /\ values \in Seq(DOMAIN heap) /\ freed \in [DOMAIN heap -> Nat]
              /\ result \in DOMAIN heap \cup {0} /\ IsText(reply.text)

JsonInit == /\ Init
            /\ heap = <<>> /\ values = <<>> /\ freed = <<>> /\ result = 0
            /\ reply = [status |-> 200, text |-> <<>>]

-----------------------------------------------------------------------------
(* Value_t: what a value is written as.                                    *)

Quote == 34
Slash == 47
Backslash == 92
Comma == 44
Colon == 58
Brace == 123
BraceEnd == 125
NullText == 110
BoolText == [yes |-> 116, no |-> 102]

EscapeChar(c) == CASE c = 10 -> <<Backslash, 110>>
                   [] c = 13 -> <<Backslash, 114>>
                   [] c = 8 -> <<Backslash, 98>>
                   [] c = 12 -> <<Backslash, 102>>
                   [] c = 9 -> <<Backslash, 116>>
                   [] c \in {Quote, Backslash, Slash} -> <<Backslash, c>>
                   [] OTHER -> <<c>>

\* Mutation: the backslash itself is not escaped.
EscapeQuoteOnly(s) ==
    <<Quote>> \o FlattenSeq([i \in DOMAIN s |-> IF s[i] = Quote THEN <<Backslash, Quote>> ELSE <<s[i]>>]) \o <<Quote>>

Escape(s) == <<Quote>> \o FlattenSeq([i \in DOMAIN s |-> EscapeChar(s[i])]) \o <<Quote>>

\* lexical_cast writes a whole double as it writes an int.
NumberText(n) == IF n % 2 = 0 THEN <<48 + n \div 2>> ELSE <<128 + n>>

Endless == -1
Commas(texts) ==
    FlattenSeq([i \in DOMAIN texts |-> (IF i = 1 THEN <<>> ELSE <<Comma>>) \o texts[i]])

\* std::map walks the names of a struct in order.
InOrder(names) == SetToSortSeq(names, Before)

\* A text nested deeper than there are values never ends.
Text(of) ==
    LET depth == Len(heap) + 1
        text[n \in 0 .. depth, v \in 0 .. Len(heap)] ==
            IF v = 0 THEN <<NullText>>
            ELSE IF n = 0 THEN <<Endless>>
            ELSE LET o == heap[v]
                 IN  CASE o.kind = "string" -> Escape(o.data)
                       [] o.kind \in {"int", "double"} -> NumberText(o.data)
                       [] o.kind = "bool" -> <<BoolText[o.data]>>
                       [] o.kind = "array" ->
                            <<Opening>> \o Commas([i \in DOMAIN o.data |-> text[n - 1, o.data[i]]]) \o <<Closing>>
                       [] o.kind = "struct" ->
                            LET names == InOrder(DOMAIN o.data)
                            IN  <<Brace>>
                                \o Commas([i \in DOMAIN names |->
                                      Escape(names[i]) \o <<Colon>> \o text[n - 1, o.data[names[i]]]])
                                \o <<BraceEnd>>
    IN  text[depth, of]

-----------------------------------------------------------------------------
(* The wrappers.                                                           *)

IsJson == request.kind \in {"json", "rpc"}

\* JsonRPCMethod_t takes the body as JSON, and no parameters.
CheckRpc ==
    /\ step = "query" /\ request.kind = "rpc"
    /\ LET refusal == CASE ~request.post -> 405
                        [] request.post /\ ~request.parses -> 400
                        [] OTHER -> 200
       IN  /\ reply' = [reply EXCEPT !.status = refusal]
           /\ step' = IF refusal = 200 THEN "called" ELSE "left"
    /\ UNCHANGED <<request, uri, query, data, fileData, heap, values, freed, result>>

\* The method runs, between the parameters and its return.
Running == step = "called" /\ IsJson
GoTo(place) == step' = place /\ UNCHANGED <<request, uri, query, data, fileData>>

\* What a pool makes: new, then push_back() to its list.
Objects == {[kind |-> o[1], data |-> o[2]] : o \in request.scalars}
              \cup {[kind |-> "array", data |-> <<>>], [kind |-> "struct", data |-> Empty]}

New(object) == /\ Running /\ Len(heap) < request.limit
               /\ heap' = Append(heap, object)
               /\ UNCHANGED result

Make(object) == /\ New(object)
                /\ freed' = Append(freed, 0)
                /\ values' = Append(values, Len(heap'))
                /\ UNCHANGED <<vars, reply>>

\* Mutation: auto_ptr lets go of the object before the list has taken it.
MakeFailsLeaks(object) == /\ New(object)
                          /\ freed' = Append(freed, 0)
                          /\ reply' = [reply EXCEPT !.status = 500]
                          /\ GoTo("leaving") /\ UNCHANGED values

\* push_back() throws: auto_ptr deletes the object, and the method is left.
MakeFails(object) == /\ New(object)
                     /\ freed' = Append(freed, 1)
                     /\ reply' = [reply EXCEPT !.status = 500]
                     /\ GoTo("leaving") /\ UNCHANGED values

MaxItems == 2

\* Array_t::push_back(); nothing keeps an array out of itself.
PushBack(a, v) ==
    /\ Running /\ heap[a].kind = "array" /\ Len(heap[a].data) < MaxItems
    /\ heap' = [heap EXCEPT ![a].data = Append(@, v)]
    /\ UNCHANGED <<vars, values, freed, result, reply>>

\* Struct_t::append(); a second value of a name replaces the first.
AppendTo(s, name, v) ==
    /\ Running /\ heap[s].kind = "struct"
    /\ heap' = [heap EXCEPT ![s].data = [n \in DOMAIN @ \cup {name} |-> IF n = name THEN v ELSE @[n]]]
    /\ UNCHANGED <<vars, values, freed, result, reply>>

Return(v) == /\ Running /\ result' = v
             /\ GoTo("rendering") /\ UNCHANGED <<heap, values, freed, reply>>

\* HttpError_t below 400 becomes a status; anything else is thrown on.
Throw == /\ Running
         /\ \E code \in {302, 404, 500} : reply' = [reply EXCEPT !.status = code]
         /\ GoTo("leaving") /\ UNCHANGED <<heap, values, freed, result>>

\* response.data = std::string(result)
Render == /\ step = "rendering"
          /\ IF Contains(Text(result), Endless)
             THEN reply' = [reply EXCEPT !.status = Endless] /\ GoTo("left")
             ELSE reply' = [reply EXCEPT !.text = Text(result)] /\ GoTo("leaving")
          /\ UNCHANGED <<heap, values, freed, result>>

\* The end of the scope, by whatever way: ~Pool_t() deletes its list.
DestroyPool ==
    /\ step = "leaving" /\ GoTo("left")
    /\ freed' = [v \in DOMAIN freed |-> freed[v] + Cardinality({i \in DOMAIN values : values[i] = v})]
    /\ UNCHANGED <<heap, values, result, reply>>

Method == \/ \E o \in Objects : Make(o) \/ MakeFails(o)
          \/ \E a \in DOMAIN heap, v \in 0 .. Len(heap) :
                PushBack(a, v) \/ \E name \in request.keys : AppendTo(a, name, v)
          \/ \E v \in 0 .. Len(heap) : Return(v)
          \/ Throw

JsonNext == \/ SplitLine /\ UNCHANGED jvars
            \/ request.kind # "rpc" /\ (ParseQuery \/ ParseBody) /\ UNCHANGED jvars
            \/ CheckRpc
            \/ IsJson /\ Method
            \/ Render \/ DestroyPool

JsonSpec == JsonInit /\ [][JsonNext]_allvars

-----------------------------------------------------------------------------
(* json.cc, the other way: what a module takes out of a parsed request.    *)

\* Json::Value holds a number with a fraction, or beyond int, as a double.
IsInt(n) == n % 2 = 0 /\ n \div 2 <= IntMax

\* String(), Int(), Double(), Bool(), Struct(), Array(): <<>> for a refusal.
Accessor(kind, value) ==
    LET Is == CASE kind = "int" -> value[1] = "number" /\ IsInt(value[2])
                [] kind = "double" -> value[1] = "number" /\ ~IsInt(value[2])
                [] OTHER -> value[1] = kind
    IN  IF Is THEN <<value[2]>> ELSE <<>>

-----------------------------------------------------------------------------
(* A reader of JSON: value, element, member and character of a text, each  *)
(* from position i, as [tree, next], or Wrong.  Within a string it takes   *)
(* no control character but by an escape.                                  *)

Wrong == [tree |-> <<"wrong">>, next |-> 0]
IsWrong(read) == read.next = 0
Got(tree, next) == [tree |-> tree, next |-> next]

Control == 0 .. 31

Unescaped(c) == CASE c = 110 -> 10 [] c = 114 -> 13 [] c = 98 -> 8 [] c = 102 -> 12
                  [] c = 116 -> 9 [] OTHER -> c

Reading(t) ==
    LET Is(i, c) == i <= Len(t) /\ t[i] = c
        read[rule \in {"value", "elements", "members", "characters"}, i \in 1 .. Len(t) + 2] ==
            LET More(next) ==  \* the rest of a list
                    IF Is(next, Comma) THEN read[rule, next + 1] ELSE Got(<<>>, next)
                Joined(x, rest) == IF IsWrong(rest) THEN Wrong ELSE Got(<<x>> \o rest.tree, rest.next)
                Closed(kind, inner, c) ==
                    IF ~IsWrong(inner) /\ Is(inner.next, c) THEN Got(<<kind, inner.tree>>, inner.next + 1)
                    ELSE Wrong
                Listed(kind, list, c) ==
                    Closed(kind, IF Is(i + 1, c) THEN Got(<<>>, i + 1) ELSE read[list, i + 1], c)
            IN  CASE i > Len(t) -> Wrong
                  [] rule = "characters" ->
                        IF t[i] = Quote THEN Got(<<>>, i)
                        ELSE IF t[i] = Backslash
                        THEN IF i < Len(t) /\ t[i + 1] \in {Quote, Slash, Backslash, 98, 102, 110, 114, 116}
                             THEN Joined(Unescaped(t[i + 1]), read[rule, i + 2])
                             ELSE Wrong
                        ELSE IF t[i] \in Control THEN Wrong
                        ELSE Joined(t[i], read[rule, i + 1])
                  [] rule = "elements" ->
                        LET one == read["value", i]
                        IN  IF IsWrong(one) THEN Wrong ELSE Joined(one.tree, More(one.next))
                  [] rule = "members" ->
                        LET name == read["value", i]
                            one == IF ~IsWrong(name) /\ name.tree[1] = "string" /\ Is(name.next, Colon)
                                   THEN read["value", name.next + 1] ELSE Wrong
                        IN  IF IsWrong(one) THEN Wrong
                            ELSE Joined(<<name.tree[2], one.tree>>, More(one.next))
                  [] OTHER ->
                        CASE t[i] = Quote -> Closed("string", read["characters", i + 1], Quote)
                          [] t[i] = Opening -> Listed("array", "elements", Closing)
                          [] t[i] = Brace -> Listed("struct", "members", BraceEnd)
                          [] t[i] = NullText -> Got(<<"null">>, i + 1)
                          [] t[i] = BoolText.yes -> Got(<<"bool", "yes">>, i + 1)
                          [] t[i] = BoolText.no -> Got(<<"bool", "no">>, i + 1)
                          [] t[i] \in Digits -> Got(<<"number", (t[i] - 48) * 2>>, i + 1)
                          [] t[i] >= 128 -> Got(<<"number", t[i] - 128>>, i + 1)
                          [] OTHER -> Wrong
        whole == read["value", 1]
    IN  IF whole.next = Len(t) + 1 THEN whole.tree ELSE Wrong.tree

\* The document a value stands for, members in the order of their names.
Document(of) ==
    LET document[n \in 0 .. Len(heap) + 1, v \in 0 .. Len(heap)] ==
            IF v = 0 THEN <<"null">>
            ELSE LET o == heap[v]
                 IN  CASE o.kind \in {"int", "double"} -> <<"number", o.data>>
                       [] o.kind \in {"string", "bool"} -> <<o.kind, o.data>>
                       [] o.kind = "array" ->
                            <<"array", [i \in DOMAIN o.data |-> document[n - 1, o.data[i]]]>>
                       [] o.kind = "struct" ->
                            LET names == InOrder(DOMAIN o.data)
                            IN  <<"struct", [i \in DOMAIN names |->
                                                <<names[i], document[n - 1, o.data[names[i]]]>>]>>
    IN  document[Len(heap) + 1, of]

\* The values a document consists of, and the strings and names in one.
PartsOf(v) == IF v = 0 \/ heap[v].kind \notin {"array", "struct"} THEN {} ELSE Range(heap[v].data)
Strings(v) == CASE v # 0 /\ heap[v].kind = "string" -> {heap[v].data}
                [] v # 0 /\ heap[v].kind = "struct" -> DOMAIN heap[v].data
                [] OTHER -> {}
Shown(of) == LET within[n \in 0 .. Len(heap)] ==
                     IF n = 0 THEN {of}
                     ELSE within[n - 1] \cup UNION {PartsOf(v) : v \in within[n - 1]}
             IN  within[Len(heap)]

-----------------------------------------------------------------------------
(* Properties.                                                             *)

\* The control characters escape() has a case for are \b, \t, \n, \f and \r.
Writable(of) == \A v \in Shown(of) : \A s \in Strings(v) : Range(s) \cap Control \subseteq {8, 9, 10, 12, 13}

\* What a reader of JSON finds in the response is the document the method
\* returned, however its values share parts and whatever its strings and names
\* consist of, but for the control characters escape() writes as they are:
\* a response with one of those is refused whole, never read as something else.
\* A single value taken back with the accessor of its kind is the same or
\* refused (String_t::escape, Struct_t::operator std::string, Value_t).
DocumentReadsBack ==
    reply.text # <<>> =>
        IF Writable(result)
        THEN /\ Reading(reply.text) = Document(result)
             /\ result # 0 =>
                    Accessor(heap[result].kind, Reading(reply.text)) \in {<<>>, <<Document(result)[2]>>}
        ELSE Reading(reply.text) = Wrong.tree

\* By whatever way a method is left, every object made for it is deleted once:
\* those of the pool when all is rendered and not before, and one the pool's
\* list had no room for at once (Pool_t, the scope of pool in call()).
FreedOnce ==
    \A v \in DOMAIN heap :
        /\ freed[v] <= 1
        /\ step \in {"called", "rendering"} => freed[v] = 0
        /\ step = "left" /\ reply.status # Endless => freed[v] = 1
=============================================================================
