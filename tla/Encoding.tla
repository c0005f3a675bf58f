------------------------------ MODULE Encoding -----------------------------
(***************************************************************************)
(* The encodings of src/src/util/encoding.cpp with the libraries it calls  *)
(* (src/libs/base64, src/libs/punycode).  Bytes are 0..255, the text that  *)
(* the code converts with wstring_convert is a sequence of code points.    *)
(***************************************************************************)
EXTENDS Utils

CONSTANTS
    htmlEntities,   \* code point |-> its entity, <<>> if one of two code points
    htmlLookaheads, \* first code point |-> <<second, the entity of both>>
    MaxQuotedLine   \* characters in a line of quoted-printable text, 76 in the code

\* A line has room for a code and the '=' of a soft break.
ASSUME QuotedAssumption == MaxQuotedLine \in Nat /\ MaxQuotedLine >= 4

UpperHex == (48..57) \cup (65..70)
Hex == UpperHex \cup (97..102)
Digits == 48..57
Letters == (65..90) \cup (97..122)
Alnum == Digits \cup Letters

HexValue(c) == IF c \in Digits THEN c - 48 ELSE (c % 32) + 9

\* stoul
ReadNumber(s, base) == FoldLeft(LAMBDA n, c : base * n + HexValue(c), 0, s)

\* The length of the longest run of characters of S from i on
Run(s, i, S) ==
    LET stop == SelectInSubSeq(s, i, Len(s), LAMBDA c : c \notin S)
    IN (IF stop = 0 THEN Len(s) + 1 ELSE stop) - i

At(s, i, c) == i <= Len(s) /\ s[i] = c

Code(c) == toUppercase(hexDump(<<c>>))

-----------------------------------------------------------------------------
(* HTML *)

Escape(s, c) == replace_all(s, <<c>>, htmlEntities[c])

\* A character that may be the first of two waits for the next one.
EncodeNext(st, c) ==
    LET both == /\ st.lookahead \in DOMAIN htmlLookaheads
                /\ htmlLookaheads[st.lookahead][1] = c
        flushed == IF st.lookahead = 0 THEN st.out ELSE Append(st.out, st.lookahead)
        entity == IF c \in DOMAIN htmlEntities THEN htmlEntities[c] ELSE <<c>>
    IN IF both THEN [out |-> st.out \o htmlLookaheads[st.lookahead][2], lookahead |-> 0]
       ELSE [out |-> flushed \o entity, lookahead |-> IF entity = <<>> THEN c ELSE 0]

htmlEncode(s, encodeAll) ==
    IF ~encodeAll
    THEN Escape(Escape(Escape(Escape(s, Amp), 34), 60), 62)
    ELSE LET st == FoldLeft(EncodeNext, [out |-> <<>>, lookahead |-> 0], s)
         IN IF st.lookahead = 0 THEN st.out ELSE Append(st.out, st.lookahead)

\* initializeHtmlDecodeTable, without &fjlig;
htmlDecodeTable ==
    LET named == {<<htmlEntities[c], <<c>>>> : c \in {d \in DOMAIN htmlEntities : htmlEntities[d] # <<>>}}
        double == {<<htmlLookaheads[c][2], <<c, htmlLookaheads[c][1]>>>> :
                      c \in {d \in DOMAIN htmlEntities : htmlEntities[d] = <<>> /\ d \in DOMAIN htmlLookaheads}}
    IN [e \in {p[1] : p \in named \cup double} |-> (CHOOSE p \in named \cup double : p[1] = e)[2]]

\* &[A-Za-z0-9]{1,25}?;
matchEntity(s, i) ==
    LET n == Run(s, i + 1, Alnum)
    IN IF At(s, i, Amp) /\ n \in 1..25 /\ At(s, i + n + 1, Semicolon) THEN n + 2 ELSE 0

\* &#(x([A-Fa-f0-9]{1,5})|([0-9]{1,6}));
matchUnicode(s, i) ==
    LET x == At(s, i + 2, 120)
        n == IF x THEN Run(s, i + 3, Hex) ELSE Run(s, i + 2, Digits)
        end == IF x THEN i + n + 3 ELSE i + n + 2
    IN IF At(s, i, Amp) /\ At(s, i + 1, 35) /\ n \in 1..(IF x THEN 5 ELSE 6) /\ At(s, end, Semicolon)
       THEN end - i + 1 ELSE 0

replaceUnicode(match) ==
    IF match[3] = 120
    THEN <<ReadNumber(SubSeq(match, 4, Len(match) - 1), 16)>>
    ELSE <<ReadNumber(SubSeq(match, 3, Len(match) - 1), 10)>>

DecodeUnicode(s) ==
    LET length == [i \in 1..Len(s) |-> matchUnicode(s, i)]
    IN regexReplaceCallback(s, length,
           [i \in 1..Len(s) |-> replaceUnicode(SubSeq(s, i, i + length[i] - 1))])

\* Named entities first, then numbers in what came out.
htmlDecode(s) ==
    LET length == [i \in 1..Len(s) |-> matchEntity(s, i)]
        entity(i) == SubSeq(s, i, i + length[i] - 1)
    IN DecodeUnicode(regexReplaceCallback(s, length,
           [i \in 1..Len(s) |-> IF entity(i) \in DOMAIN htmlDecodeTable
                                THEN htmlDecodeTable[entity(i)] ELSE entity(i)]))

-----------------------------------------------------------------------------
(* URLs *)

urlUnreserved == Alnum \cup {Dash, 95, Dot, 126}

Percent == 37

urlEncode(s) ==
    FlattenSeq([i \in 1..Len(s) |->
        IF s[i] \in urlUnreserved THEN <<s[i]>> ELSE <<Percent>> \o Code(s[i])])

\* Two upper-case digits are a code, lower-case ones are left alone.
TwoHex(s, i) == i + 1 <= Len(s) /\ s[i] \in UpperHex /\ s[i + 1] \in UpperHex

urlDecode(s) ==
    regexReplaceCallback(s,
        [i \in 1..Len(s) |-> IF s[i] = Percent /\ TwoHex(s, i + 1) THEN 3 ELSE 0],
        [i \in 1..Len(s) |-> <<ReadNumber(SubSeq(s, i + 1, i + 2), 16)>>])

\* Without a '=' the position wraps around and the value is empty, as it is
\* when nothing follows the '='.  Names are not decoded.
splitQueryString(s) ==
    LET mark == FindChar(s, Question)
        pairs == splitString(From(s, mark + 1), Amp, TRUE)
        value(p) == LET eq == FindChar(p, Equals)
                    IN IF eq # 0 /\ eq < Len(p) THEN urlDecode(From(p, eq + 1)) ELSE <<>>
    IN [i \in 1..Len(pairs) |->
            <<Before(pairs[i], FindChar(pairs[i], Equals)), value(pairs[i])>>]

-----------------------------------------------------------------------------
(* Base 64 *)

base64_chars(v) ==
    CASE v < 26 -> 65 + v [] v \in 26..51 -> 71 + v [] v \in 52..61 -> v - 4
      [] v = 62 -> 43 [] v = 63 -> Slash

Base64Value(c) == CHOOSE v \in 0..63 : base64_chars(v) = c

is_base64(c) == c \in Alnum \cup {43, Slash}

isBase64(s, allowWhitespaces) ==
    LET allowed == Alnum \cup {43, Slash} \cup IF allowWhitespaces THEN {SP, 9, LF, CR} ELSE {}
        n == Run(s, 1, allowed)
    IN n >= 1 /\ Len(s) - n <= 2 /\ \A i \in (n + 1)..Len(s) : s[i] = Equals

Padded(s, n) == [i \in 1..n |-> IF i <= Len(s) THEN s[i] ELSE 0]

Group(s, k, n) == SubSeq(s, n * (k - 1) + 1, IF n * k < Len(s) THEN n * k ELSE Len(s))

\* Three bytes are four digits; of the last one or two bytes two or three.
Quad(g) ==
    LET b == Padded(g, 3)
        v == <<b[1] \div 4, (b[1] % 4) * 16 + b[2] \div 16, (b[2] % 16) * 4 + b[3] \div 64, b[3] % 64>>
    IN [j \in 1..4 |-> IF j <= Len(g) + 1 THEN base64_chars(v[j]) ELSE Equals]

base64Encode(s, breakAfter, breakSequence) ==
    LET symbols == FlattenSeq([k \in 1..((Len(s) + 2) \div 3) |-> Quad(Group(s, k, 3))])
        breaks(i) == breakAfter > 0 /\ i > 1 /\ (i - 1) % breakAfter = 0
    IN FlattenSeq([i \in 1..Len(symbols) |->
           (IF breaks(i) THEN breakSequence ELSE <<>>) \o <<symbols[i]>>])

Triple(g) ==
    LET v == Padded([j \in 1..Len(g) |-> Base64Value(g[j])], 4)
        b == <<v[1] * 4 + v[2] \div 16, (v[2] % 16) * 16 + v[3] \div 4, (v[3] % 4) * 64 + v[4]>>
    IN SubSeq(b, 1, Len(g) - 1)

\* Up to the first character that is neither a digit nor white space
base64Decode(s) ==
    LET stop == SelectInSeq(s, LAMBDA c : ~is_base64(c) /\ c \notin {CR, LF, 9, SP})
        symbols == SelectSeq(Before(s, stop), is_base64)
    IN FlattenSeq([k \in 1..((Len(symbols) + 3) \div 4) |-> Triple(Group(symbols, k, 4))])

-----------------------------------------------------------------------------
(* Quoted-printable *)

Printable(c, qEncoding) == c \in (32..126) \ ({Equals} \cup IF qEncoding THEN {SP, Question, 95} ELSE {})

\* A line breaks softly before a character that would make it longer than
\* MaxQuotedLine.
SoftBreak(st, limit, lineEnding, qEncoding) ==
    IF ~qEncoding /\ st.lineCount >= limit
    THEN [out |-> st.out \o <<Equals>> \o lineEnding, lineCount |-> 0] ELSE st

QuotedNext_OneLimit(st, c, lineEnding, replaceCrlf, qEncoding) ==
    LET put(s, t) == [out |-> s.out \o t, lineCount |-> s.lineCount + Len(t)]
        broken == SoftBreak(st, MaxQuotedLine - 1, lineEnding, qEncoding)
    IN CASE Printable(c, qEncoding) -> put(broken, <<c>>)
         [] ~replaceCrlf /\ c \in {LF, CR} -> [out |-> Append(st.out, c), lineCount |-> 0]
         [] qEncoding /\ c = SP -> put(st, <<95>>)
         [] OTHER -> put(broken, <<Equals>> \o Code(c))

QuotedNext(st, c, lineEnding, replaceCrlf, qEncoding) ==
    LET put(s, t) == [out |-> s.out \o t, lineCount |-> s.lineCount + Len(t)]
    IN CASE Printable(c, qEncoding) -> put(SoftBreak(st, MaxQuotedLine - 1, lineEnding, qEncoding), <<c>>)
         [] ~replaceCrlf /\ c \in {LF, CR} -> [out |-> Append(st.out, c), lineCount |-> 0]
         [] qEncoding /\ c = SP -> put(st, <<95>>)
         [] OTHER -> put(SoftBreak(st, MaxQuotedLine - 3, lineEnding, qEncoding), <<Equals>> \o Code(c))

quotedPrintableEncode(s, lineEnding, replaceCrlf, qEncoding) ==
    LET after[n \in 0..Len(s)] ==
            IF n = 0 THEN [out |-> <<>>, lineCount |-> 0]
            ELSE QuotedNext(after[n - 1], s[n], lineEnding, replaceCrlf, qEncoding)
    IN after[Len(s)].out

\* =([0-9A-F]{2}|\r?\n)
matchCode(s, i) ==
    CASE s[i] # Equals -> 0
      [] TwoHex(s, i + 1) -> 3
      [] At(s, i + 1, LF) -> 2
      [] At(s, i + 1, CR) /\ At(s, i + 2, LF) -> 3
      [] OTHER -> 0

quotedPrintableDecode(s, qEncoding) ==
    LET t == IF qEncoding THEN stringReplace(s, <<<<<<95>>, <<SP>>>>>>) ELSE s
        length == [i \in 1..Len(t) |-> matchCode(t, i)]
    IN regexReplaceCallback(t, length,
           [i \in 1..Len(t) |-> IF t[i + length[i] - 1] = LF THEN <<>>
                                ELSE <<ReadNumber(SubSeq(t, i + 1, i + 2), 16)>>])

\* The parts of =?utf-8?coding?text?=, or the input itself
makeEncodedWord(s, base64, onlyIfNecessary) ==
    LET q == quotedPrintableEncode(s, <<>>, TRUE, TRUE)
    IN IF base64 THEN [coding |-> "B", text |-> base64Encode(s, 0, <<>>)]
       ELSE IF onlyIfNecessary /\ q = replace_all(s, <<SP>>, <<95>>)
       THEN [coding |-> "none", text |-> s]
       ELSE [coding |-> "Q", text |-> q]

-----------------------------------------------------------------------------
(* Punycode.  The buffers are large enough and the sums far from 2^64. *)

\* while delta > 455: delta /= 35
Scaled[k \in Nat, delta \in Nat] ==
    IF delta > 455 THEN Scaled[k + 36, delta \div 35] ELSE <<k, delta>>

adapt_bias(delta, n_points, is_first) ==
    LET d == delta \div IF is_first THEN 700 ELSE 2
        s == Scaled[0, d + d \div n_points]
    IN s[1] + (36 * s[2]) \div (s[2] + 38)

Threshold(k, bias) == IF k <= bias THEN 1 ELSE IF k >= bias + 26 THEN 26 ELSE k - bias

encode_digit(d) == IF d > 25 THEN d + 22 ELSE d + 97

decode_digit(c) ==
    CASE c \in Digits -> 26 + c - 48 [] c \in 97..122 -> c - 97 [] c \in 65..90 -> c - 65 [] OTHER -> -1

encode_var_int(bias, delta) ==
    LET digits[k \in Nat, q \in Nat] ==
            LET t == Threshold(k, bias)
            IN IF q < t THEN <<encode_digit(q)>>
               ELSE <<encode_digit(t + ((q - t) % (36 - t)))>> \o digits[k + 36, (q - t) \div (36 - t)]
    IN digits[36, delta]

\* One pass over the source for the code point n
EncodePass(src, b, st, n) ==
    LET start == [st EXCEPT !.delta = @ + (n - st.n) * (st.h + 1), !.n = n]
        next(s, c) ==
            CASE c < n -> [s EXCEPT !.delta = @ + 1]
              [] c = n -> [s EXCEPT !.out = @ \o encode_var_int(s.bias, s.delta), !.delta = 0,
                                    !.bias = adapt_bias(s.delta, s.h + 1, s.h = b), !.h = @ + 1]
              [] OTHER -> s
        end == FoldLeft(next, start, src)
    IN [end EXCEPT !.n = @ + 1, !.delta = @ + 1]

punycode_encode(src) ==
    LET basic == SelectSeq(src, LAMBDA c : c < 128)
        others == SetToSortSeq({src[i] : i \in 1..Len(src)} \ (0..127), <)
        start == [n |-> 128, delta |-> 0, bias |-> 72, h |-> Len(basic),
                  out |-> IF basic = <<>> THEN <<>> ELSE Append(basic, Dash)]
    IN IF basic = src THEN src
       ELSE FoldLeft(LAMBDA st, n : EncodePass(src, Len(basic), st, n), start, others).out

\* A number from position from on; si is 0 after a character that is no digit.
decode_var_int(src, from, bias, start) ==
    LET rest[si \in Nat, k \in Nat, w \in Nat, i \in Nat] ==
            LET digit == IF si <= Len(src) THEN decode_digit(src[si]) ELSE -1
                t == Threshold(k, bias)
            IN IF digit = -1 THEN [si |-> 0, i |-> i]
               ELSE IF digit < t THEN [si |-> si + 1, i |-> i + digit * w]
               ELSE rest[si + 1, k + 36, w * (36 - t), i + digit * w]
    IN rest[from, 36, 1, start]

\* The code points from position from on, put into the basic ones
DecodePoints(src, from, basic) ==
    LET points[si \in Nat, i \in Nat, n \in Nat, bias \in Nat, dst \in Seq(Nat)] ==
            LET size == Len(dst) + 1
                put(v, at, point) ==
                    points[v.si, at, point, adapt_bias(v.i - i, size, i = 0), InsertAt(dst, at, point)]
                next(v) == IF v.si = 0 THEN dst ELSE put(v, (v.i % size) + 1, n + v.i \div size)
            IN IF si > Len(src) THEN dst ELSE next(decode_var_int(src, si, bias, i))
    IN points[from, 0, 128, 72, basic]

\* The last '-', unless it comes first, ends the basic code points.
punycode_decode(src) ==
    LET dash == SelectLastInSubSeq(src, 2, Len(src), LAMBDA c : c = Dash)
    IN IF \E i \in 1..Len(src) : src[i] > 127 THEN <<>>
       ELSE DecodePoints(src, dash + 1, SubSeq(src, 1, dash - 1))

xn == <<120, 110, Dash, Dash>>

JoinLabels(labels) ==
    FlattenSeq([k \in 1..Len(labels) |-> (IF k = 1 THEN <<>> ELSE <<Dot>>) \o labels[k]])

punycodeEncode(s) ==
    LET labels == splitString(s, Dot, TRUE)
        encoded(l) == IF punycode_encode(l) = l THEN l ELSE xn \o punycode_encode(l)
    IN JoinLabels([k \in 1..Len(labels) |-> encoded(labels[k])])

punycodeDecode(s) ==
    LET labels == splitString(s, Dot, TRUE)
        decoded(l) == IF IsPrefix(xn, l) THEN punycode_decode(From(l, 5)) ELSE l
    IN JoinLabels([k \in 1..Len(labels) |-> decoded(labels[k])])
=============================================================================
