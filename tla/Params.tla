-------------------------------- MODULE Params --------------------------------
(***************************************************************************)
(* From a request to the parameters its method sees (cpphttphandler.cc and *)
(* .h): handle() cuts the path out of the URI, HttpMethod_t::call and      *)
(* HttpMethod2_t::call cut out the query and parse it, then the body.      *)
(*                                                                         *)
(* A string is a sequence of character codes.  Positions are those of the  *)
(* code, from 0; size_t has SizeBits bits.                                 *)
(***************************************************************************)
EXTENDS Integers, Sequences, SequencesExt

CONSTANTS Requests, \* what clients send: [uri, post, body, parts, meant]
          SizeBits,
          Asked,    \* the name a method gives getIndexed(), such as a[]
          Spelled   \* the names that mean an index of it: a function to the
                    \* lists of numbers, such as a[01] to <<1>>

\* parts are those of a multipart/form-data body, <<>> for any other body;
\* meant is the list of pairs the client wrote into query and body, or Raw.
Raw == << <<"raw">> >>

ASSUME SizeAssumption == SizeBits \in Nat \ {0}
ASSUME RequestsAssumption ==
    \A r \in Requests : Len(r.uri) < 2 ^ SizeBits - 1 /\ Len(r.body) < 2 ^ SizeBits - 1

Chars == 0 .. 255
Terminator == 0
Space == 32
Hash == 35
Percent == 37
Amp == 38
Plus == 43
Equal == 61
Mark == 63
Opening == 91
Closing == 93
Digits == 48 .. 57

VARIABLES
    step,    \* "line", "query", "body", "called"
    request, \* the request that is being handled
    uri,     \* Request_t::uri
    query,   \* what the method wrapper takes for the query
    data,    \* Parameters_t::data: a function from the names it holds
    fileData \* MimeParameters_t::fileData, likewise

vars == <<step, request, uri, query, data, fileData>>

IsText(s) == \A i \in DOMAIN s : s[i] \in Chars
IsMap(f) == \A n \in DOMAIN f :
                IsText(n) /\ f[n] # <<>> /\ \A i \in DOMAIN f[n] : IsText(f[n][i])

\* The lists of the maps are never empty: getFirst() takes their front().
TypeOK == /\ step \in {"line", "query", "body", "called"}
          /\ IsText(uri) /\ IsText(query)
          /\ IsMap(data) /\ IsMap(fileData)

Empty == [n \in {} |-> <<>>]

Init == /\ step = "line"
        /\ request \in Requests
        /\ uri = <<>> /\ query = <<>>
        /\ data = Empty /\ fileData = Empty

-----------------------------------------------------------------------------
(* std::string.                                                            *)

Npos == 2 ^ SizeBits - 1
Find(s, c) == IF Contains(s, c) THEN SelectInSeq(s, LAMBDA x : x = c) - 1 ELSE Npos
Lower(a, b) == IF a < b THEN a ELSE b
Substr(s, pos, n) == SubSeq(s, pos + 1, Lower(pos + n, Len(s)))

\* s[k] of a const string: its terminator is readable, nothing behind it is.
OutOfBounds == 256
At(s, k) == CASE k < Len(s) -> s[k + 1]
              [] k = Len(s) -> Terminator
              [] k > Len(s) -> OutOfBounds

-----------------------------------------------------------------------------
(* Parameters_t.                                                           *)

\* -1 for the exception.
Unhex(c) == CASE c \in 48 .. 57 -> c - 48
              [] c \in 97 .. 102 -> c - 87
              [] c \in 65 .. 70 -> c - 55
              [] OTHER -> -1

IsHex(c) == Unhex(c) >= 0

\* Mutation: the escape at the end of the string is not seen.
MayEscapeShort(s, i) == At(s, i) = Percent /\ i < (Len(s) - 3) % 2 ^ SizeBits

\* s.size() - 2 wraps for a string of one character.
MayEscape(s, i) == At(s, i) = Percent /\ i < (Len(s) - 2) % 2 ^ SizeBits

Unescape(s) ==
    LET from[i \in 0 .. Len(s)] ==
            IF i = Len(s) THEN <<>>
            ELSE IF MayEscape(s, i) /\ IsHex(At(s, i + 1)) /\ IsHex(At(s, i + 2))
                 THEN <<Unhex(At(s, i + 1)) * 16 + Unhex(At(s, i + 2))>> \o from[i + 3]
                 ELSE <<IF At(s, i) = Plus THEN Space ELSE At(s, i)>> \o from[i + 1]
    IN  from[0]

\* The reads of unescape(): s[i + 2] only after s[i + 1] was a digit.
ReadsPast(s) ==
    \E i \in 0 .. Len(s) - 1 :
        /\ MayEscape(s, i)
        /\ \/ i + 1 > Len(s)
           \/ IsHex(At(s, i + 1)) /\ i + 2 > Len(s)

\* boost::tokenizer with the separator & drops empty tokens.
Tokens(s) ==
    LET cut(parts, c) == IF c = Amp THEN Append(parts, <<>>)
                         ELSE [parts EXCEPT ![Len(parts)] = Append(@, c)]
    IN  SelectSeq(FoldLeft(cut, << <<>> >>, s), LAMBDA t : t # <<>>)

\* map[name].push_back(value)
PushTo(map, name, value) ==
    [n \in DOMAIN map \cup {name} |->
        IF n # name THEN map[n]
        ELSE IF name \in DOMAIN map THEN Append(map[name], value) ELSE <<value>>]

\* Mutation: the text is unescaped before it is split.
ParseEarly(map, params) ==
    LET add(m, t) ==
            LET pos == Find(t, Equal)
            IN  IF pos = Npos THEN PushTo(m, t, <<>>)
                ELSE PushTo(m, Substr(t, 0, pos), Substr(t, pos + 1, Npos))
    IN  FoldLeft(add, map, Tokens(Unescape(params)))

Parse(map, params) ==
    LET add(m, t) ==
            LET pos == Find(t, Equal)
            IN  IF pos = Npos THEN PushTo(m, Unescape(t), <<>>)
                ELSE PushTo(m, Unescape(Substr(t, 0, pos)), Unescape(Substr(t, pos + 1, Npos)))
    IN  FoldLeft(add, map, Tokens(params))

\* A part without filename and type is a value, any other a file.
ParseMime(maps, parts) ==
    LET add(m, p) == IF p.file THEN [m EXCEPT !.fileData = PushTo(@, p.name, p.data)]
                     ELSE [m EXCEPT !.data = PushTo(@, p.name, p.data)]
    IN  FoldLeft(add, maps, parts)

-----------------------------------------------------------------------------
(* getIndexed() and getIndexedFiles().                                     *)

\* The name is matched as name.c_str(), which ends at the first terminator.
CString(s) == Substr(s, 0, Find(s, Terminator))

\* "[]" in the name asked for stands for "[" and digits and "]".
IsHole(i) == i < Len(Asked) /\ Asked[i] = Opening /\ Asked[i + 1] = Closing

Number(digits) == FoldLeft(LAMBDA n, d : n * 10 + d - 48, 0, digits)

\* {<<the numbers in s>>} if s matches, {} if it does not.
Indexes(s) ==
    LET match[i \in 1 .. Len(Asked) + 1, j \in 1 .. Len(s) + 1] ==
            IF i > Len(Asked) THEN (IF j > Len(s) THEN {<<>>} ELSE {})
            ELSE IF j > Len(s) \/ s[j] # Asked[i] THEN {}
            ELSE IF ~IsHole(i) THEN match[i + 1, j + 1]
            ELSE UNION {{<<Number(SubSeq(s, j + 1, k - 1))>> \o rest : rest \in match[i + 2, k + 1]} :
                          k \in {k \in j + 2 .. Len(s) : /\ s[k] = Closing
                                                         /\ \A d \in j + 1 .. k - 1 : s[d] \in Digits}}
    IN  match[1, 1]

\* The order of std::string, in which a map is walked.
Before(s, u) == \/ Len(s) < Len(u) /\ s = SubSeq(u, 1, Len(s))
                \/ \E k \in DOMAIN s \cap DOMAIN u :
                      s[k] < u[k] /\ \A h \in 1 .. k - 1 : s[h] = u[h]
Earliest(names) == CHOOSE n \in names : \A u \in names \ {n} : Before(n, u)

\* A number beyond size_t ends the call with bad_lexical_cast.
BadCast == << <<"bad_lexical_cast">> >>

IndexOf(n) == CHOOSE x \in Indexes(CString(n)) : TRUE
Hits(map) == {n \in DOMAIN map : Indexes(CString(n)) # {}}
Overflows(n) == \E k \in DOMAIN IndexOf(n) : IndexOf(n)[k] > Npos

\* Mutation: insert() is an assignment, and of the values the last is kept.
GetIndexedLast(map) ==
    LET Latest(names) == CHOOSE n \in names : \A u \in names \ {n} : Before(u, n)
    IN  IF \E n \in Hits(map) : Overflows(n) THEN BadCast
        ELSE [x \in {IndexOf(n) : n \in Hits(map)} |->
                LET n == Latest({m \in Hits(map) : IndexOf(m) = x})
                IN  map[n][Len(map[n])]]

\* insert() keeps what it has: of several names for one index the first in
\* the map's order counts, and of its values the first.
GetIndexed(map) ==
    IF \E n \in Hits(map) : Overflows(n) THEN BadCast
    ELSE [x \in {IndexOf(n) : n \in Hits(map)} |->
            map[Earliest({m \in Hits(map) : IndexOf(m) = x})][1]]

-----------------------------------------------------------------------------
(* handle() and the method wrappers.                                       *)

Path(text) == Substr(text, 0, Lower(Find(text, Mark), Find(text, Hash)))

Query(text) ==
    LET pos == Find(text, Mark)
        pos2 == Find(text, Hash)
    IN  CASE pos = Npos -> <<>>
          [] pos # Npos /\ pos2 = Npos -> Substr(text, pos + 1, Npos)
          [] pos # Npos /\ pos2 # Npos -> IF pos2 > pos THEN Substr(text, pos + 1, pos2) ELSE <<>>

SplitLine == /\ step = "line" /\ step' = "query"
             /\ uri' = Path(request.uri)
             /\ UNCHANGED <<request, query, data, fileData>>

ParseQuery == /\ step = "query" /\ step' = "body"
              /\ query' = Query(request.uri)
              /\ data' = Parse(data, query')
              /\ UNCHANGED <<request, uri, fileData>>

\* The body of POST and PUT, after the query.
ParseBody ==
    /\ step = "body" /\ step' = "called"
    /\ CASE ~request.post -> UNCHANGED <<data, fileData>>
         [] request.post /\ request.parts # <<>> ->
                LET maps == ParseMime([data |-> data, fileData |-> fileData], request.parts)
                IN  data' = maps.data /\ fileData' = maps.fileData
         [] request.post /\ request.parts = <<>> ->
                data' = Parse(data, request.body) /\ UNCHANGED fileData
    /\ UNCHANGED <<request, uri, query>>

Next == SplitLine \/ ParseQuery \/ ParseBody

Spec == Init /\ [][Next]_vars

-----------------------------------------------------------------------------
(* The client's side of application/x-www-form-urlencoded.                 *)

HexDigit(d) == IF d < 10 THEN d + 48 ELSE d + 55
EncodeChar(c) == CASE c = Space -> <<Plus>>
                   [] c \in 48 .. 57 -> <<c>>
                   [] OTHER -> <<Percent, HexDigit(c \div 16), HexDigit(c % 16)>>
EncodeText(s) == FlattenSeq([i \in DOMAIN s |-> EncodeChar(s[i])])
EncodePair(p) == EncodeText(p[1]) \o <<Equal>> \o EncodeText(p[2])
EncodeForm(form) ==
    FlattenSeq([i \in DOMAIN form |->
        (IF i = 1 THEN <<>> ELSE <<Amp>>) \o EncodePair(form[i])])

\* A list of pairs as a map of lists, in order.
Grouped(pairs) ==
    [n \in {pairs[i][1] : i \in DOMAIN pairs} |->
        LET ofN == SelectSeq(pairs, LAMBDA p : p[1] = n)
        IN  [i \in DOMAIN ofN |-> ofN[i][2]]]

-----------------------------------------------------------------------------
(* Properties.                                                             *)

\* The pairs a request of the client carries beside its files: those of the
\* forms of query and body, or of the parts without filename and type.
Files(r) == IF r.post THEN SelectSeq(r.parts, LAMBDA p : p.file) ELSE <<>>
AsPairs(parts) == [i \in DOMAIN parts |-> <<parts[i].name, parts[i].data>>]

\* What a client writes into the forms of a query and a body, or into the
\* parts of a multipart body, is what the method finds, name by name and in
\* order, whatever characters it consists of: nothing is split, lost, joined,
\* decoded twice, or taken for a file (Parameters_t::parse, parseMime).
SentArrives ==
    step = "called" /\ request.meant # Raw =>
        /\ data = Grouped(request.meant)
        /\ fileData = Grouped(AsPairs(Files(request)))

\* What a method finds under an index is the first value that was sent under
\* one spelling of it, every index that was sent is found and no other name
\* is taken for one; a single number too large for size_t hides all of them
\* (getIndexed, getIndexedFiles).
IndexedArrives ==
    LET Arrives(map, sent) ==
            LET named == {i \in DOMAIN sent : sent[i][1] \in DOMAIN Spelled}
                Means(i) == Spelled[sent[i][1]]
                found == GetIndexed(map)
            IN  IF \E i \in named : \E k \in DOMAIN Means(i) : Means(i)[k] > Npos
                THEN found = BadCast
                ELSE /\ DOMAIN found = {Means(i) : i \in named}
                     /\ \A x \in DOMAIN found : \E i \in named :
                           /\ Means(i) = x /\ found[x] = sent[i][2]
                           /\ \A j \in 1 .. i - 1 : sent[j][1] # sent[i][1]
    IN  step = "called" /\ request.meant # Raw =>
            Arrives(data, request.meant) /\ Arrives(fileData, AsPairs(Files(request)))

\* Unescaping any text decodes exactly the units %hh that come first when it
\* is read from the left, makes + a space and leaves every other character,
\* incomplete escapes included, and never reads behind the terminator, although
\* its guard i < s.size() - 2 is no guard for a text of one character
\* (Parameters_t::unescape).
UnescapeMeaning ==
    LET s == query
        IsUnit(i) == /\ i + 2 <= Len(s) /\ s[i] = Percent
                     /\ IsHex(s[i + 1]) /\ IsHex(s[i + 2])
        \* widths of the units, from left to right
        Cuts == UNION {[1 .. k -> {1, 3}] : k \in 0 .. Len(s)}
        Begin(cut, k) == 1 + FoldLeft(LAMBDA a, b : a + b, 0, SubSeq(cut, 1, k - 1))
        Fits(cut) == /\ Begin(cut, Len(cut) + 1) = Len(s) + 1
                     /\ \A k \in DOMAIN cut : (cut[k] = 3) <=> IsUnit(Begin(cut, k))
        Unit(i, w) == IF w = 3 THEN Unhex(s[i + 1]) * 16 + Unhex(s[i + 2])
                      ELSE IF s[i] = Plus THEN Space ELSE s[i]
    IN  step = "body" =>
          /\ ~ReadsPast(query) /\ ~ReadsPast(request.body)
          /\ \E cut \in Cuts : /\ Fits(cut)
                               /\ Unescape(s) = [k \in DOMAIN cut |-> Unit(Begin(cut, k), cut[k])]
=============================================================================
