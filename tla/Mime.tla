-------------------------------- MODULE Mime -------------------------------
(***************************************************************************)
(* Composing mails (src/src/mail/Email/, src/src/mail/EmailAddress.cpp)    *)
(* and taking multipart bodies apart (src/src/util/MimeMultipart.cpp).     *)
(*                                                                         *)
(* The names of headers and attributes are shortened: CT, CD and CE for    *)
(* Content-Type, Content-Disposition and Content-Transfer-Encoding, b=, n= *)
(* and f= for boundary=, name= and filename=.  The MD5 sum in a boundary   *)
(* is one character, drawn when the mail is composed.                      *)
(***************************************************************************)
EXTENDS Encoding

CRLF == <<CR, LF>>
Quote == 34
CT == <<67, 84>>
CD == <<67, 68>>
CE == <<67, 69>>

Header(name, value) == name \o <<Colon, SP>> \o value \o CRLF

-----------------------------------------------------------------------------
(* Composing.  A part has a type, a disposition, headers, a coding and data *)
(* that the rules may change; a list has a type, parts and the random number *)
(* of its boundary.                                                         *)

genBoundary_Plain(random) == <<Dash, Dash, Dash, Dash, random>>

genBoundary(random) == <<Dash, Dash, Dash, Dash, Equals, 95, random>>

\* MimePartOrList: an assignment of an empty one changes nothing.
Assign(self, other) == IF other.kind = "empty" THEN self ELSE other

\* What multipartTypeToString makes of a type, and the attribute after it
MultipartType(list) == list.type \o <<Semicolon, SP, 98, Equals, Quote>> \o genBoundary(list.random) \o <<Quote>>

Applied(data, rules, allowed) == IF allowed THEN stringReplace(data, rules) ELSE data

Codings == [base64 |-> <<66>>, quoted |-> <<81>>]

Encoded(data, coding) ==
    CASE coding = "base64" -> base64Encode(data, 76, CRLF)
      [] coding = "quoted" -> quotedPrintableEncode(data, CRLF, FALSE, FALSE)
      [] coding = "none" -> data

PartText(part, rules) ==
    Header(CT, part.type)
      \o (IF part.disposition = <<>> THEN <<>> ELSE Header(CD, part.disposition))
      \o FlattenSeq([i \in 1..Len(part.headers) |-> Header(part.headers[i][1], part.headers[i][2])])
      \o (IF part.coding = "none" THEN <<>> ELSE Header(CE, Codings[part.coding]))
      \o CRLF \o Encoded(Applied(part.data, rules, part.allowReplacements), part.coding)

\* What a path of positions leads to in nested lists
PartAt(list, path) == FoldLeft(LAMBDA p, i : p.parts[i], list, path)

\* Nothing is written for a part that is empty.
mergeMimePartList(list, rules) ==
    LET merged[path \in Seq(Nat)] ==
            LET this == PartAt(list, path)
                line == <<Dash, Dash>> \o genBoundary(this.random)
                text(i) ==
                    LET p == this.parts[i]
                    IN CASE p.kind = "part" -> PartText(p, rules) \o CRLF \o CRLF
                         [] p.kind = "list" -> Header(CT, MultipartType(p)) \o CRLF
                                                 \o merged[Append(path, i)] \o CRLF \o CRLF
                         [] OTHER -> <<>>
            IN FlattenSeq([i \in 1..Len(this.parts) |-> line \o CRLF \o text(i)]) \o line \o <<Dash, Dash>>
    IN merged[<<>>]

\* The line before the first part, shortened
Preamble == <<84>> \o CRLF \o CRLF

\* MimeEmail::getRaw
MimeRaw(headers, list, rules) ==
    [head |-> {h \in headers : h[1] \notin {"MIME-Version", "Content-Type"}}
                \cup {<<"MIME-Version", "1.0">>, <<"Content-Type", MultipartType(list)>>},
     body |-> Preamble \o mergeMimePartList(list, rules)]

\* SimpleEmail::getRaw
SimpleRaw(headers, text, quoted, rules) ==
    [head |-> {h \in headers : h[1] # "MIME-Version" /\ ~(quoted /\ h[1] = "Content-Transfer-Encoding")}
                \cup {<<"MIME-Version", "1.0">>}
                \cup IF quoted THEN {<<"Content-Transfer-Encoding", "quoted-printable">>} ELSE {},
     body |-> Encoded(stringReplace(text, rules), IF quoted THEN "quoted" ELSE "none")]

-----------------------------------------------------------------------------
(* Addresses *)

AtSign == 64

applyPunycodeToDomain(address) ==
    LET parts == splitString(address, AtSign, FALSE)
    IN IF Len(parts) # 2 THEN address
       ELSE parts[1] \o <<AtSign>> \o punycodeEncode(parts[2])

\* EmailAddress::get
AddressText(name, address, includeName, applyPunycode) ==
    (IF includeName /\ name # <<>> THEN Append(name, SP) ELSE <<>>)
      \o <<60>> \o (IF applyPunycode THEN applyPunycodeToDomain(address) ELSE address) \o <<62>>

LocalChars == Alnum \cup {33, 35, 36, 37, Amp, 39, 42, 43, Dash, Dot, Slash, Equals, Question} \cup (94..96) \cup (123..126)

\* emCheck: local part, @ and domain
MatchesAddress(a) ==
    LET n == Run(a, 1, LocalChars)
    IN n >= 1 /\ At(a, n + 1, AtSign) /\ n + 1 < Len(a)
         /\ Run(a, n + 2, Alnum \cup {Dash, Dot}) = Len(a) - n - 1

isValid(address) == MatchesAddress(applyPunycodeToDomain(address))

-----------------------------------------------------------------------------
(* Parsing *)

BoundaryChars == Alnum \cup (39..41) \cup {43, 95, 44, Dash, Dot, Slash, Colon, Equals, Question, SP}

\* n characters from start on, and the position after a closing quote
ValueFrom(s, start, n) ==
    [value |-> SubSeq(s, start, start + n - 1),
     next |-> start + n + IF At(s, start + n, Quote) THEN 1 ELSE 0]

\* An optional quote, then at least one character of S
ValueAt(s, i, S) ==
    LET start == IF At(s, i, Quote) THEN i + 1 ELSE i
    IN ValueFrom(s, start, Run(s, start, S))

NoValue == [value |-> <<>>, next |-> 0]

\* The first attribute that follows one of the characters of before
Attribute(s, before, name, S) ==
    LET first == Earliest({i \in 1..Len(s) : /\ before = {} \/ (i > 1 /\ s[i - 1] \in before)
                                             /\ IsAt(name, s, i)
                                             /\ ValueAt(s, i + 2, S).value # <<>>})
    IN IF first = 0 THEN NoValue ELSE ValueAt(s, first + 2, S)

findBoundary(contentType) == Attribute(contentType, {}, <<98, Equals>>, BoundaryChars).value

\* filename= counts only right after the name, with at most a blank before it.
FileNameAfter(disposition, next, S) ==
    LET after == IF At(disposition, next + 1, SP) THEN next + 2 ELSE next + 1
    IN IF next > 0 /\ At(disposition, next, Semicolon) /\ IsAt(<<102, Equals>>, disposition, after)
       THEN ValueAt(disposition, after + 2, S).value ELSE <<>>

\* The name of the part and the file, from the attribute name=
NamesFrom(disposition, name, S) == <<name.value, FileNameAfter(disposition, name.next, S)>>

extractPartAndFileName(disposition) ==
    LET S == (0..255) \ {Quote}
    IN NamesFrom(disposition, Attribute(disposition, {Semicolon, SP}, <<110, Equals>>, S), S)

HeaderOf(headers, name) == IF name \in DOMAIN headers THEN headers[name] ELSE <<>>

\* MimeMultipart::Part
PartOf(names, headers, content) ==
    [partName |-> names[1], filename |-> names[2],
     contentType |-> HeaderOf(headers, toLowercase(CT)), headers |-> headers, content |-> content]

ParsedPart(headers, content) ==
    PartOf(extractPartAndFileName(HeaderOf(headers, toLowercase(CD))), headers, content)

Malformed == [ok |-> FALSE, parts |-> <<>>]

\* What is between the end of the headers and the line before the boundary,
\* unless that is a single character.
PartContent(content, headersEnd, nextBoundary) ==
    IF nextBoundary > headersEnd + 7 THEN SubSeq(content, headersEnd + 4, nextBoundary - 3) ELSE <<>>

\* The part that text begins with, up to the boundary at next: <<>> if there
\* is no header before headersEnd.
PartUpTo(text, headersEnd, next) ==
    IF headersEnd < 5 THEN <<>>
    ELSE <<ParsedPart(parseHeaders(SubSeq(text, 1, headersEnd - 1)), PartContent(text, headersEnd, next))>>

\* The headers end at the first empty line, if that is not beyond the boundary.
HeadersEnd(blank, next) == IF blank = 0 \/ blank > next THEN next ELSE blank

NextPart(text, next) == PartUpTo(text, HeadersEnd(Find(text, CRLF \o CRLF, 1), next), next)

\* A part and what follows it
PartAnd(part, later) ==
    IF part = <<>> \/ ~later.ok THEN Malformed ELSE [ok |-> TRUE, parts |-> part \o later.parts]

\* From position i on there is the end, an error, or a part and more.
ParseParts(body, boundary) ==
    LET from[i \in 1..(Len(body) + 1)] ==
            LET content == From(body, i)
                rest == From(content, Len(boundary) + 1)
                upTo(text, next) == PartAnd(NextPart(text, next), from[i + Len(boundary) + 1 + next])
                first(text) == upTo(text, Find(text, boundary, 1))
            IN CASE content = <<>> -> [ok |-> TRUE, parts |-> <<>>]
                 [] content # <<>> /\ (Len(content) < Len(boundary) + 2 \/ ~IsPrefix(boundary, content)) -> Malformed
                 [] IsPrefix(boundary, content) /\ IsPrefix(<<Dash, Dash>>, rest) -> [ok |-> TRUE, parts |-> <<>>]
                 [] OTHER -> IF Len(rest) < Len(boundary) + 6 \/ ~IsPrefix(CRLF, rest) THEN Malformed
                             ELSE first(From(rest, 3))
    IN from[1]

\* MimeMultipart::parse; what it throws is not ok.
ParseBetween(boundary, content) ==
    IF boundary = <<>> THEN Malformed ELSE ParseParts(content, <<Dash, Dash>> \o boundary)

parse(contentType, content) == ParseBetween(findBoundary(contentType), content)
=============================================================================
