------------------------------ MODULE JsonText ------------------------------
(***************************************************************************)
(* The texts of the JSON library (parson.c): what json_parse_string makes  *)
(* of a request's body, and what json_serialize_to_string writes.  A text  *)
(* is a sequence of bytes.  The parser's functions return a set of one     *)
(* result, or none where the code returns NULL; memory is the subject of   *)
(* JsonTree and does not run out here.  Numbers are natural and fit an int:*)
(* strtod and printf of others are the C library's.                        *)
(***************************************************************************)
EXTENDS JsonLimits, Sequences

Seqs == INSTANCE SequencesExt

CONSTANTS
  Chunk,     \* the pieces bodies are made of
  Word,      \* the strings a caller gives to the library
  MaxChunks, \* bound: the number of pieces of a body
  MaxSize,   \* bound: the size of the text of a value that is built on
  MaxDepth   \* bound: how deep a value is nested

Byte == 0 .. 255
Bytes == Seq(Byte)
Index == Nat \ {0}

ASSUME TextAssumption == Chunk \subseteq Bytes /\ Word \subseteq Bytes
ASSUME DepthAssumption == MaxDepth \in Nat \ {0} /\ MAX_NESTING <= MaxDepth

VARIABLES
  body,      \* the pieces received so far
  value      \* the value the caller has got or made, or NoValue

textvars == <<body, value>>

-----------------------------------------------------------------------------
(* Bytes and values. *)

QUOTE == 34
COMMA == 44
COLON == 58
SLASH == 47
BACKSLASH == 92
LETTER_U == 117
Opening == [array |-> 91, object |-> 123]
Closing == [array |-> 93, object |-> 125]

White == 9..13 \cup {32}
Digit == 48..57
Control == 0..31

\* The bytes that have a form of a backslash and a letter.
Letter ==
  [b \in {8, 9, 10, 12, 13, QUOTE, BACKSLASH} |->
     CASE b = 8 -> 98 [] b = 9 -> 116 [] b = 10 -> 110 [] b = 12 -> 102 [] b = 13 -> 114
       [] OTHER -> b]

Literal == [null |-> <<110, 117, 108, 108>>, true |-> <<116, 114, 117, 101>>,
            false |-> <<102, 97, 108, 115, 101>>]

NoValue == [type |-> "error"]
String(s) == [type |-> "string", text |-> s]
Number(n) == [type |-> "number", number |-> n]
Plain(l) == [type |-> "literal", literal |-> l]
Array(items) == [type |-> "array", items |-> items]
Object(members) == [type |-> "object", members |-> members]

Pair(name, v) == [name |-> name, value |-> v]
Names(members) == {members[i].name : i \in DOMAIN members}

\* The values whose parts are in `inner`.
Over(inner) ==
  [type : {"string"}, text : Bytes] \cup [type : {"number"}, number : Nat]
    \cup [type : {"literal"}, literal : DOMAIN Literal]
    \cup [type : {"array"}, items : Seq(inner)]
    \cup [type : {"object"}, members : Seq([name : Bytes, value : inner])]

\* The values that are nested no deeper than `depth`.
Values[depth \in Nat] == Over(IF depth = 0 THEN {} ELSE Values[depth - 1])

Value == Values[MaxDepth]

\* json_object_get_value of a name that is there.
Under(members, name) ==
  members[CHOOSE i \in DOMAIN members : members[i].name = name].value

-----------------------------------------------------------------------------
(* Strings: process_string and parse_utf_16. *)

From(s, i) == SubSeq(s, i, Len(s))

Nibble(b) ==
  CASE b \in Digit -> b - 48
    [] b \in 97..102 -> b - 87
    [] b \in 65..70 -> b - 55
    [] OTHER -> 16

IsHex4(s, i) == i + 3 <= Len(s) /\ \A j \in i .. i + 3 : Nibble(s[j]) < 16
Hex4(s, i) ==
  16 * (16 * (16 * Nibble(s[i]) + Nibble(s[i + 1])) + Nibble(s[i + 2])) + Nibble(s[i + 3])

\* Mutant: the bytes that follow the first are not masked.
Utf8Unmasked(cp) ==
  IF cp < 128 THEN <<cp>> ELSE <<192 + cp \div 64, 128 + cp>>

Utf8(cp) ==
  LET over(n) == n \div 64
      tail(n) == 128 + (n % 64)
  IN  IF cp < 128 THEN <<cp>>
      ELSE IF over(cp) < 32 THEN <<192 + over(cp), tail(cp)>>          \* below 0x800
      ELSE IF over(over(cp)) < 16                                      \* below 0x10000
      THEN <<224 + over(over(cp)), tail(over(cp)), tail(cp)>>
      ELSE <<240 + over(over(over(cp))), tail(over(over(cp))), tail(over(cp)), tail(cp)>>

IsLead(cp) == cp \div 1024 = 54      \* 0xD800 .. 0xDBFF
IsTrail(cp) == cp \div 1024 = 55     \* 0xDC00 .. 0xDFFF

Read(bytes, takes) == [bytes |-> bytes, takes |-> takes]

\* Mutant: a surrogate is a character like any other.
Utf16Alone(s) ==
  IF IsHex4(s, 3) THEN {Read(Utf8(Hex4(s, 3)), 6)} ELSE {}

\* parse_utf_16 of a string that begins with a backslash and a u.
Utf16(s) ==
  LET cp == Hex4(s, 3)
      paired == Len(s) >= 8 /\ s[7] = BACKSLASH /\ s[8] = LETTER_U /\ IsHex4(s, 9)
  IN  CASE ~IsHex4(s, 3) -> {}
        [] IsHex4(s, 3) /\ ~IsLead(cp) /\ ~IsTrail(cp) -> {Read(Utf8(cp), 6)}
        [] IsHex4(s, 3) /\ IsLead(cp) /\ paired /\ IsTrail(Hex4(s, 9)) ->
             {Read(Utf8(1024 * (64 + (cp % 1024)) + (Hex4(s, 9) % 1024)), 12)}
        [] OTHER -> {}

\* A backslash and what follows it.
ReadEscape(s) ==
  IF Len(s) = 1 THEN {}
  ELSE IF s[2] = LETTER_U THEN Utf16(s)
  ELSE {Read(<<b>>, 2) : b \in {b \in DOMAIN Letter : Letter[b] = s[2]}}
         \cup {r \in {Read(<<SLASH>>, 2)} : s[2] = SLASH}

\* Mutant: control characters are let through.
ReadOneAny(s) == IF s[1] = BACKSLASH THEN ReadEscape(s) ELSE {Read(<<s[1]>>, 1)}

\* One turn of process_string's loop: the bytes it writes and those it takes.
ReadOne(s) ==
  IF s[1] = BACKSLASH THEN ReadEscape(s)
  ELSE {r \in {Read(<<s[1]>>, 1)} : s[1] \notin Control}

Processed[s \in Bytes] ==
  IF s = <<>> THEN {<<>>}
  ELSE UNION {{r.bytes \o rest : rest \in Processed[From(s, r.takes + 1)]} :
                r \in ReadOne(s)}

\* What strlen sees of an array of bytes.
CString(s) ==
  LET nuls == {i \in DOMAIN s : s[i] = 0}
  IN  IF nuls = {} THEN s ELSE SubSeq(s, 1, (CHOOSE i \in nuls : \A j \in nuls : i <= j) - 1)

-----------------------------------------------------------------------------
(* The parser.  A result is a value, or a string, and where to go on. *)

At(t, i) == IF i <= Len(t) THEN t[i] ELSE 0

\* The first position from i whose byte is not in `skipped`.
Beyond(t, i, skipped) ==
  CHOOSE j \in i .. i + Len(t) :
    At(t, j) \notin skipped /\ \A k \in i .. j - 1 : At(t, k) \in skipped

\* SKIP_WHITESPACES
Blank(t, i) == Beyond(t, i, White)

\* skip_quotes, after its first step: behind the next quote that no backslash
\* precedes, or at the end of the text.
QuoteEnd(t, i) ==
  LET end[j \in Index] ==
        CASE At(t, j) = 0 -> j
          [] At(t, j) = QUOTE -> j + 1
          [] At(t, j) = BACKSLASH -> IF At(t, j + 1) = 0 THEN j + 1 ELSE end[j + 2]
          [] OTHER -> end[j + 1]
  IN  end[i]

\* get_quoted_string.  What is at i is taken for the opening quote unseen.
Quoted(t, i) ==
  LET end == QuoteEnd(t, i + 1)
  IN  IF At(t, end) = 0 THEN {}
      ELSE {[text |-> CString(s), next |-> end] : s \in Processed[SubSeq(t, i + 1, end - 2)]}

Parsed(v, next) == [value |-> v, next |-> next]

DigitsEnd(t, i) == Beyond(t, i, Digit)

\* is_decimal: no zero before other digits.
IsDecimal(digits) == Len(digits) = 1 \/ digits[1] # 48

Numeral(digits) ==
  LET n[k \in 0 .. Len(digits)] ==
        IF k = 0 THEN 0 ELSE 10 * n[k - 1] + digits[k] - 48
  IN  n[Len(digits)]

\* parse_number_value
NumberAt(t, i) ==
  LET end == DigitsEnd(t, i)
      digits == SubSeq(t, i, end - 1)
  IN  {p \in {Parsed(Number(Numeral(digits)), end)} : IsDecimal(digits)}

LiteralAt(t, i) ==
  {Parsed(Plain(l), i + Len(Literal[l])) :
     l \in {l \in DOMAIN Literal : Seqs!IsPrefix(Literal[l], From(t, i))}}

\* The loops of parse_array_value and parse_object_value, in one: where it is,
\* the parts so far, and whether the closing bracket has been met.
Loop(next, parts, closed) == [next |-> next, parts |-> parts, closed |-> closed]

\* Mutant: the end of the text closes an array.
AfterPartOpen(t, i, parts, kind) ==
  {l \in {Loop(Blank(t, i + 1), parts, FALSE)} : At(t, i) = COMMA}
    \cup {l \in {Loop(i + 1, parts, TRUE)} : At(t, i) \in {Closing[kind], 0}}

AfterPart(t, i, parts, kind) ==
  {l \in {Loop(Blank(t, i + 1), parts, FALSE)} : At(t, i) = COMMA}
    \cup {l \in {Loop(i + 1, parts, TRUE)} : At(t, i) = Closing[kind]}

\* json_object_add refuses a name it has and a member too many.
\* (OBJECT_MAX_CAPACITY is STARTING_CAPACITY doubled.)
Addable(q, members) ==
  q.text \notin Names(members) /\ Len(members) < OBJECT_MAX_CAPACITY

MemberAt(t, i, members, inside) ==
  UNION {{Parsed(Pair(q.text, v.value), v.next) : v \in inside[Blank(t, q.next) + 1]} :
           q \in {q \in Quoted(t, i) :
                    At(t, Blank(t, q.next)) = COLON /\ Addable(q, members)}}

\* The part that is next; `inside` parses the values of a level.
PartAt(t, i, parts, inside, kind) ==
  IF At(t, i) = 0 THEN {}
  ELSE IF kind = "array" THEN inside[i] ELSE MemberAt(t, i, parts, inside)

Turn(t, l, inside, kind) ==
  IF l.closed THEN {l}
  ELSE UNION {AfterPart(t, Blank(t, p.next), Append(l.parts, p.value), kind) :
                p \in PartAt(t, l.next, l.parts, inside, kind)}

\* What the loop is after its k-th turn.
Turns(t, start, inside, kind) ==
  LET turns[k \in Nat] ==
        IF k = 0 THEN {Loop(start, <<>>, FALSE)}
        ELSE UNION {Turn(t, l, inside, kind) : l \in turns[k - 1]}
  IN  turns

Container(kind, parts) == IF kind = "array" THEN Array(parts) ELSE Object(parts)

\* parse_array_value, parse_object_value.  Every turn takes a byte.
ContainerAt(t, i, inside, kind) ==
  LET start == Blank(t, i + 1)
  IN  IF At(t, start) = Closing[kind]
      THEN {Parsed(Container(kind, <<>>), start + 1)}
      ELSE {Parsed(Container(kind, l.parts), l.next) :
              l \in {l \in Turns(t, start, inside, kind)[Len(t)] : l.closed}}

ValueAt(t, i, inside) ==
  CASE At(t, i) = Opening.object -> ContainerAt(t, i, inside, "object")
    [] At(t, i) = Opening.array -> ContainerAt(t, i, inside, "array")
    [] At(t, i) = QUOTE -> {Parsed(String(q.text), q.next) : q \in Quoted(t, i)}
    [] At(t, i) \in Digit -> NumberAt(t, i)
    [] OTHER -> LiteralAt(t, i)

\* parse_value, by the levels of nesting that are left to it.
Parser(t) ==
  LET parse[levels \in Nat] ==
        [i \in Index |->
           IF levels = 0 THEN {} ELSE ValueAt(t, Blank(t, i), parse[levels - 1])]
  IN  parse

\* json_parse_string: an object or an array, whatever follows it.
ParseString(t) ==
  IF At(t, Blank(t, 1)) \in {Opening.array, Opening.object}
  THEN {p.value : p \in Parser(t)[MAX_NESTING + 1][1]}
  ELSE {}

-----------------------------------------------------------------------------
(* The serialiser, and the size it is given. *)

Escaped(b) == IF b \in DOMAIN Letter THEN <<BACKSLASH, Letter[b]>> ELSE <<b>>

\* json_serialize_string
WrittenString(s) ==
  <<QUOTE>> \o Seqs!FlattenSeq([i \in DOMAIN s |-> Escaped(s[i])]) \o <<QUOTE>>

Decimal[n \in Nat] ==
  IF n < 10 THEN <<48 + n>> ELSE Append(Decimal[n \div 10], 48 + (n % 10))

Listed(texts) ==
  Seqs!FlattenSeq([i \in DOMAIN texts |->
                     IF i = 1 THEN texts[i] ELSE <<COMMA>> \o texts[i]])

\* json_serialize_to_buffer_r; the value of a member is looked up by its name.
Written[v \in Value] ==
  CASE v.type = "array" ->
         <<Opening.array>> \o Listed([i \in DOMAIN v.items |-> Written[v.items[i]]])
           \o <<Closing.array>>
    [] v.type = "object" ->
         <<Opening.object>>
           \o Listed([i \in DOMAIN v.members |->
                        WrittenString(v.members[i].name) \o <<COLON>>
                          \o Written[Under(v.members, v.members[i].name)]])
           \o <<Closing.object>>
    [] v.type = "string" -> WrittenString(v.text)
    [] v.type = "number" -> Decimal[v.number]
    [] v.type = "literal" -> Literal[v.literal]

Total(sizes) ==
  LET sum[i \in 0 .. Len(sizes)] == IF i = 0 THEN 0 ELSE sum[i - 1] + sizes[i]
  IN  sum[Len(sizes)]

\* parson_strlen
EscapedLength(s) ==
  Total([i \in DOMAIN s |-> IF s[i] \in {34, 92, 8, 12, 10, 13, 9} THEN 2 ELSE 1])

\* Mutant: the commas are not counted.
SeparatorsFew(count, each) == count * (each - 1)

\* The commas, and the colons of an object.
Separators(count, each) == IF count > 0 THEN count * each - 1 ELSE 0

\* json_serialization_size_r
SizeOf[v \in Value] ==
  CASE v.type = "array" ->
         2 + Separators(Len(v.items), 1)
           + Total([i \in DOMAIN v.items |-> SizeOf[v.items[i]]])
    [] v.type = "object" ->
         2 + Separators(Len(v.members), 2)
           + Total([i \in DOMAIN v.members |->
                      EscapedLength(v.members[i].name) + 2
                        + SizeOf[Under(v.members, v.members[i].name)]])
    [] v.type = "string" -> EscapedLength(v.text) + 2
    [] v.type = "number" -> Len(Decimal[v.number])
    [] v.type = "literal" -> IF v.literal = "false" THEN 5 ELSE 4

\* json_serialization_size
SerializationSize(v) == SizeOf[v] + 1

-----------------------------------------------------------------------------
(* A caller: a handler that gets a body, or one that makes an answer. *)

Text == Seqs!FlattenSeq(body)

TextInit == body = <<>> /\ value = NoValue

\* Bound: after a piece that begins with no bracket none follows, as
\* json_parse_string looks no further.
Opens == At(Text, Blank(Text, 1)) \in {Opening.array, Opening.object, 0}

Receive ==
  /\ value = NoValue /\ Len(body) < MaxChunks /\ Opens
  /\ \E c \in Chunk : body' = Append(body, c)
  /\ UNCHANGED value

ParseBody ==
  /\ value = NoValue /\ ParseString(Text) # {}
  /\ value' \in ParseString(Text)
  /\ body' = <<>>

\* A body that does not parse is refused.
RefuseBody ==
  /\ value = NoValue /\ body # <<>> /\ ParseString(Text) = {}
  /\ body' = <<>>
  /\ UNCHANGED value

\* json_value_init_object, json_value_init_array
NewContainer ==
  /\ value = NoValue /\ body = <<>>
  /\ value' \in {Object(<<>>), Array(<<>>)}
  /\ UNCHANGED body

Builds == value # NoValue /\ SerializationSize(value) <= MaxSize /\ UNCHANGED body

\* json_object_set_string
SetString ==
  /\ Builds /\ value.type = "object"
  /\ \E name, s \in Word :
       IF name \in Names(value.members)
       THEN value' = Object([i \in DOMAIN value.members |->
                               IF value.members[i].name = name THEN Pair(name, String(s))
                               ELSE value.members[i]])
       ELSE /\ Len(value.members) < OBJECT_MAX_CAPACITY
            /\ value' = Object(Append(value.members, Pair(name, String(s))))

\* json_array_append_string
AppendString ==
  /\ Builds /\ value.type = "array"
  /\ \E s \in Word : value' = Array(Append(value.items, String(s)))

\* A new container is given the value: json_object_set_value of the API's
\* answers, json_array_append_value.
Wrap ==
  /\ Builds
  /\ \/ value' = Array(<<value>>)
     \/ \E name \in Word : value' = Object(<<Pair(name, value)>>)
  /\ value' \in Value

\* The answer is written, or the body's value is no longer needed.
Done ==
  /\ value # NoValue
  /\ value' = NoValue
  /\ UNCHANGED body

TextNext ==
  \/ Receive \/ ParseBody \/ RefuseBody
  \/ NewContainer \/ SetString \/ AppendString \/ Wrap \/ Done

TextSpec == TextInit /\ [][TextNext]_textvars

-----------------------------------------------------------------------------
(* Properties. *)

\* The pieces received are pieces; what is parsed or built is a value of the
\* library, its strings and names sequences of bytes.
TextTypeOK == body \in Seq(Chunk) /\ value \in Value \cup {NoValue}

\* The buffer json_serialize_to_string allocates by the first pass over a value
\* is filled by the second to its last byte, and not beyond.
SizeExact ==
  value # NoValue => Len(Written[value]) + 1 = SerializationSize(value)

Strings[v \in Value] ==
  CASE v.type = "array" -> UNION {Strings[v.items[i]] : i \in DOMAIN v.items}
    [] v.type = "object" ->
         Names(v.members) \cup UNION {Strings[v.members[i].value] : i \in DOMAIN v.members}
    [] v.type = "string" -> {v.text}
    [] OTHER -> {}

\* What is written is read back as it was, unless it holds a control character
\* that has no letter, which is written as it is and refused, or is nested
\* deeper than the parser goes; then it is not read at all.
ReadsBack ==
  value # NoValue =>
    ParseString(Written[value]) =
      {v \in {value} :
         /\ \A s \in Strings[value] : \A i \in DOMAIN s :
              s[i] \in Control => s[i] \in {8, 9, 10, 12, 13}
         /\ value \in Values[MAX_NESTING]}

\* A text that breaks off is refused: no value is taken for another because the
\* end of the body is missing.
CutOffIsRefused ==
  value # NoValue =>
    \A n \in 0 .. Len(Written[value]) - 1 :
      ParseString(SubSeq(Written[value], 1, n)) = {}

Trailing == 128..191

\* The length of a character that begins with this byte.
Width(b) ==
  CASE b < 128 -> 1
    [] b \in 194..223 -> 2
    [] b \in 224..239 -> 3
    [] b \in 240..244 -> 4
    [] OTHER -> 0

BeginsAt(s, i) ==
  /\ Width(s[i]) > 0 /\ i + Width(s[i]) - 1 <= Len(s)
  /\ \A k \in 1 .. Width(s[i]) - 1 : s[i + k] \in Trailing
  /\ (s[i] = 224 => s[i + 1] >= 160) /\ (s[i] = 237 => s[i + 1] < 160)
  /\ (s[i] = 240 => s[i + 1] >= 144) /\ (s[i] = 244 => s[i + 1] < 144)

\* The well-formed byte sequences of the Unicode standard: every byte begins a
\* character or is within one.
IsUtf8(s) ==
  \A i \in DOMAIN s :
    IF s[i] \in Trailing THEN \E k \in 1 .. 3 : k < i /\ k < Width(s[i - k])
    ELSE BeginsAt(s, i)

\* In UTF-8, but that the first byte of the first character may be missing.
NearlyUtf8(s) == IsUtf8(s) \/ \E b \in 128..255 : IsUtf8(<<b>> \o s)

\* Bodies and the strings of the callers are in UTF-8.
Utf8Given == (\A c \in Chunk : IsUtf8(c)) /\ (\A w \in Word : IsUtf8(w))

\* Of a body in UTF-8 every string is in UTF-8, whatever escapes it is written
\* with and wherever a NUL among them ends it.  But one may have lost the first
\* byte of its first character.  (Only a name can, whose first byte is taken for
\* the quote: get_quoted_string is called for any other string at a quote.)
StringsAreUtf8 ==
  value # NoValue =>
    \A s \in Strings[value] : NearlyUtf8(s)
=============================================================================
