----------------------------- MODULE MCJsonMethod -----------------------------
(***************************************************************************)
(* Requests to methods that take parameters: any text of up to four of the *)
(* characters % + & = 2 F as query; forms of one pair in the query and one *)
(* in the body, of words with every special character; URIs of up to four  *)
(* of the characters 2 ? #; multipart bodies of two parts behind a query;  *)
(* and forms and parts named like elements of a[], or nearly.              *)
(*                                                                         *)
(* Requests to JSON methods: some make a string of any text of up to three *)
(* special characters, with and without a case in escape(), some one       *)
(* number or bool, some up to three values that they link in every way;    *)
(* and the requests a JSON-RPC call may be.                                *)
(***************************************************************************)
EXTENDS JsonMethod

Texts(chars, n) == UNION {[1 .. k -> chars] : k \in 0 .. n}

Request(theUri, post, theBody, parts, meant) ==
    [uri |-> theUri, post |-> post, body |-> theBody, parts |-> parts, meant |-> meant,
     kind |-> "http"]
Link(form) == <<47, Mark>> \o EncodeForm(form)

WithRawQuery == {Request(<<47, Mark>> \o q, FALSE, q, <<>>, Raw) :
                    q \in Texts({Percent, Plus, Amp, Equal, 50, 70}, 4)}

Words == Texts({Space, Hash, Percent, Amp, Plus, Equal, Mark, 50}, 1)
            \cup {<<Percent, 50>>, <<Percent, 50, 54>>}
Forms == {<<>>} \cup {<< <<n, v>> >> : n \in Words, v \in Words}

WithForms == {Request(Link(f), TRUE, EncodeForm(g), <<>>, f \o g) : f \in Forms, g \in Forms}

WithUri == {Request(u, FALSE, <<>>, <<>>, Raw) : u \in Texts({50, Mark, Hash}, 4)}

Values(parts) == SelectSeq(parts, LAMBDA p : ~p.file)
Multipart(form, post, parts) ==
    Request(Link(form), post, <<>>, parts, form \o (IF post THEN AsPairs(Values(parts)) ELSE <<>>))

Parts == [name : {<<50>>, <<70>>}, file : BOOLEAN, data : {<<>>, <<Percent>>}]
WithParts == {Multipart(f, p, m) : f \in {<<>>, << <<<<50>>, <<Equal>>>> >>},
                                   p \in BOOLEAN, m \in [1 .. 2 -> Parts]}

Element(digits) == <<97, Opening>> \o digits \o <<Closing>>
MCAsked == Element(<<>>)
MCSpelled == Element(<<49>>) :> <<1>> @@ Element(<<48, 49>>) :> <<1>>
             @@ Element(<<49, 50>>) :> <<12>> @@ Element(<<51, 48, 48>>) :> <<300>>
             @@ Append(Element(<<49>>), Terminator) :> <<1>>
Names == DOMAIN MCSpelled
            \cup {Element(<<>>), Element(<<120>>), <<97>>, Append(Element(<<49>>), 98)}

WithIndexes ==
    {Request(Link(<< <<n, <<49>>>> >>), TRUE, EncodeForm(<< <<m, <<50>>>>, <<o, <<51>>>> >>), <<>>,
             << <<n, <<49>>>>, <<m, <<50>>>>, <<o, <<51>>>> >>) : n \in Names, m \in Names, o \in Names}
    \cup
    {Multipart(<<>>, TRUE, <<[name |-> n, file |-> f, data |-> <<49>>],
                             [name |-> m, file |-> g, data |-> <<50>>]>>) :
        n \in Names, m \in Names, f \in BOOLEAN, g \in BOOLEAN}

Making(kind, post, limit, scalars, keys, parses) ==
    [limit |-> limit, scalars |-> scalars, keys |-> keys, parses |-> parses, kind |-> kind]
        @@ Request(<<47>>, post, <<>>, <<>>, Raw)

OneValue ==
    {Making("json", FALSE, 1, {o}, {}, TRUE) :
        o \in ({"string"} \X Texts({Quote, Backslash, Slash, 110, 1, 8, 9, 10, 12, 13, 31}, 3))
                \cup ({"bool"} \X {"yes", "no"}) \cup ({"int"} \X {0, 2, 16})
                \cup ({"double"} \X {0, 3, 16})}

Linked == {Making("json", FALSE, 3, {<<"int", 2>>}, {<<Quote>>, <<50>>}, TRUE),
           Making("json", FALSE, 2, {<<"string", <<1>>>>}, {<<31>>, <<50>>}, TRUE)}

Calls == {Making("rpc", post, 1, {<<"int", 2>>}, {}, parses) : post \in BOOLEAN, parses \in BOOLEAN}

MCRequests == WithRawQuery \cup WithForms \cup WithUri \cup WithParts \cup WithIndexes
                \cup OneValue \cup Linked \cup Calls
=============================================================================
