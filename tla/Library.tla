------------------------------- MODULE Library -----------------------------
(***************************************************************************)
(* The functions of the library that apps and request handlers call, one   *)
(* call at a time: codecs, times, mails, forms, settings, requests, error  *)
(* pages and password hashes.  A step makes a call and keeps what went in  *)
(* and what came out; the properties compare it with what the call is for. *)
(***************************************************************************)
EXTENDS RequestData, Settings, Hashing, TLC

CONSTANTS
    CodecInputs,            \* codec |-> texts it is given
    Times, Offsets,         \* seconds since 1970, and east of Greenwich
    Mails, Rules,           \* lists of parts, replacement rules
    Forms, Queries,         \* fields of multipart and of urlencoded forms
    IniLines, Arguments,    \* lines of the file, arguments of nawarun
    MaxLines, MaxArguments,
    Requests, BodyTypes,    \* requests, content types of bodies
    FileNames,
    Engines, Passwords

\* The types of what the calls are given.  A zone is whole minutes, less than a
\* day from Greenwich.
ASSUME CallAssumption ==
    /\ "quoted" \in DOMAIN CodecInputs => CodecInputs["quoted"] \subseteq Seq(0..255)
    /\ MaxLines \in Nat /\ MaxArguments \in Nat
    /\ Times \subseteq Int /\ Offsets \subseteq {z \in Int : z % 60 = 0 /\ -Daily < z /\ z < Daily}
    /\ FileNames \subseteq Seq(Nat)
    /\ \A e \in Engines :
          IF e.kind = "bcrypt" THEN e.workFactor \in Int ELSE Len(e.salt) \in Nat /\ e.hashLen \in Nat
    /\ Passwords \subseteq Seq(Nat)

VARIABLE call

Idle == [op |-> "idle"]
Init == call = Idle

\* An address with its domain changed, if the original has one
InDomain(original, address, Op(_)) ==
    LET at == FindChar(address, AtSign)
    IN IF Len(splitString(original, AtSign, FALSE)) # 2 THEN address
       ELSE SubSeq(address, 1, at) \o Op(From(address, at + 1))

WithoutLastAt(address) ==
    IF Len(splitString(address, AtSign, FALSE)) = 2 /\ Last(address) = AtSign THEN Front(address) ELSE address

CodecOut(c, s) ==
    CASE c = "html" -> htmlEncode(s, FALSE)
      [] c = "entities" -> htmlEncode(s, TRUE)
      [] c = "url" -> urlEncode(s)
      [] c = "base64" -> base64Encode(s, 5, CRLF)
      [] c = "bare" -> SelectSeq(base64Encode(s, 0, <<>>), LAMBDA d : d # Equals)
      [] c = "quoted" -> quotedPrintableEncode(s, CRLF, FALSE, FALSE)
      [] c = "word" -> makeEncodedWord(s, FALSE, TRUE)
      [] c = "lines" -> convertLineEndings(s, CRLF)
      [] c = "address" -> AddressText(<<>>, s, FALSE, TRUE)
      [] c = "puny" -> punycodeEncode(s)

\* out is what the codec made of s.
CodecBack(c, s, out) ==
    CASE c \in {"html", "entities"} -> htmlDecode(out)
      [] c = "url" -> urlDecode(out)
      [] c \in {"base64", "bare"} -> base64Decode(out)
      [] c = "quoted" -> quotedPrintableDecode(out, FALSE)
      [] c = "word" -> IF out.coding = "none" THEN out.text ELSE quotedPrintableDecode(out.text, TRUE)
      [] c = "lines" -> convertLineEndings(out, <<LF>>)
      [] c = "address" -> InDomain(s, SubSeq(out, 2, Len(out) - 1), punycodeDecode)
      [] c = "puny" -> punycodeDecode(out)

Coded(c, s, out) == [op |-> "encode", codec |-> c, in |-> s, out |-> out, back |-> CodecBack(c, s, out)]

Encode == \E c \in DOMAIN CodecInputs : \E s \in CodecInputs[c] : call' = Coded(c, s, CodecOut(c, s))

WriteTime ==
    \E t \in Times, z \in Offsets :
        call' = [op |-> "time", in |-> t, zone |-> z, http |-> readHttpTime(makeHttpTime(t)),
                 smtp |-> readSmtpTime(makeSmtpTime(t, z))]

Compose ==
    \E l \in Mails, r \in Rules :
        call' = [op |-> "mail", in |-> l, rules |-> r, out |-> MimeRaw({}, l, r),
                 simple |-> SimpleRaw({}, l.parts[1].data, TRUE, r)]

-----------------------------------------------------------------------------
(* Forms.  What a browser makes of them is external. *)

FormBoundary == <<120, 121>>

Disposition(f) ==
    <<Semicolon, SP, 110, Equals, Quote>> \o f.name \o <<Quote>>
      \o IF f.filename = <<>> THEN <<>> ELSE <<Semicolon, SP, 102, Equals, Quote>> \o f.filename \o <<Quote>>

FormBody(form) ==
    LET line == <<Dash, Dash>> \o FormBoundary
    IN FlattenSeq([i \in 1..Len(form) |->
           line \o CRLF \o Header(CD, Disposition(form[i]))
             \o (IF form[i].type = <<>> THEN <<>> ELSE Header(CT, form[i].type))
             \o CRLF \o form[i].content \o CRLF]) \o line \o <<Dash, Dash>> \o CRLF

Submit ==
    \E form \in Forms :
        call' = [op |-> "form", in |-> form,
                 out |-> PostData(MultipartForm \o <<Semicolon, 98, Equals>> \o FormBoundary, FormBody(form), "always")]

Query(pairs) ==
    FlattenSeq([i \in 1..Len(pairs) |->
        (IF i = 1 THEN <<>> ELSE <<Amp>>) \o pairs[i][1] \o <<Equals>> \o urlEncode(pairs[i][2])])

CookieLine(pairs) ==
    FlattenSeq([i \in 1..Len(pairs) |->
        (IF i = 1 THEN <<>> ELSE <<Semicolon, SP>>) \o pairs[i][1] \o <<Equals>> \o urlEncode(pairs[i][2])])

SubmitQuery ==
    \E pairs \in Queries :
        call' = [op |-> "query", in |-> pairs, out |-> PostData(UrlEncoded, Query(pairs), "nonstandard"),
                 cookies |-> parseCookies(CookieLine(pairs))]

-----------------------------------------------------------------------------
(* Settings, requests, pages, hashes *)

ConfigIni == <<105>>

\* A line of the file and an argument: what it says and the characters that
\* say it
IniText(lines) == FlattenSeq([i \in 1..Len(lines) |-> Append(lines[i].text, LF)])

Configure ==
    \E lines \in BoundedSeq(IniLines, MaxLines), args \in BoundedSeq(Arguments, MaxArguments) :
        LET parameters == parseCommandLine([i \in 1..Len(args) |-> args[i].text], ConfigIni)
        IN call' = [op |-> "settings", in |-> lines, args |-> args, parameters |-> parameters,
                    out |-> StartConfig(IniText(lines), parameters)]

\* The parameters that a web server passes on to FastCGI: type and length of
\* the body are not among the HTTP_ ones.
Gateway(request) ==
    LET name(h) == IF toUppercase(h) \in {CT, CL} THEN toUppercase(h)
                   ELSE HTTP_ \o replace_all(toUppercase(h), <<Dash>>, <<95>>)
        names == {name(request.headers[i][1]) : i \in 1..Len(request.headers)}
    IN [k \in names \cup {RU} |->
           IF k = RU THEN request.destination
           ELSE request.headers[SelectInSeq(request.headers, LAMBDA h : name(h[1]) = k)][2]]

Receive ==
    \E r \in Requests, t \in BodyTypes, a \in {"never", "nonstandard", "always"} :
        call' = [op |-> "request", in |-> r, type |-> t, access |-> a,
                 http |-> HttpEnvironment(r), fastcgi |-> FastcgiEnvironment(Gateway(r)),
                 get |-> HttpGetVars(r), post |-> PostData(t, <<97, 98>>, a),
                 raw |-> RawKept(Before(t, FindChar(t, Semicolon)), a)]

\* The reasons in the status line, of the statuses that have an error page
httpStatusCodes ==
    {<<400, "BadRequest">>, <<401, "Unauthorized">>, <<403, "Forbidden">>, <<404, "NotFound">>,
     <<405, "MethodNotAllowed">>, <<406, "NotAcceptable">>, <<408, "RequestTimeout">>, <<409, "Conflict">>,
     <<410, "Gone">>, <<415, "UnsupportedMediaType">>, <<418, "Teapot">>, <<429, "TooManyRequests">>,
     <<451, "UnavailableForLegalReasons">>, <<500, "InternalServerError">>, <<501, "NotImplemented">>,
     <<503, "ServiceUnavailable">>}

Answer ==
    \E status \in 400..503, f \in FileNames :
        call' = [op |-> "page", status |-> status, out |-> generateErrorPage(status),
                 file |-> f, type |-> contentTypeByExtension(getFileExtension(f))]

Hash ==
    \E e \in Engines, p \in Passwords, supplied, memory \in BOOLEAN :
        \E h \in passwordHash(p, e, supplied) :
            call' = [op |-> "hash", engine |-> e, in |-> p, supplied |-> supplied, out |-> h,
                     memory |-> memory, matches |-> {q \in Passwords : passwordVerify(q, h, memory)}]

Return == call.op # "idle" /\ call' = Idle

Next ==
    \/ call.op = "idle" /\ (Encode \/ WriteTime \/ Compose \/ Submit \/ SubmitQuery \/ Configure
                              \/ Receive \/ Answer \/ Hash)
    \/ Return

Spec == Init /\ [][Next]_call

-----------------------------------------------------------------------------
(* What the calls are for *)

LinesFit(s, n) ==
    \A i, j \in 0..Len(s) :
        i < j /\ (\A k \in (i + 1)..j : s[k] \notin {CR, LF}) => j - i <= n

\* A time in a year that four digits can write
Writable(t) == 1000 <= gmtime_r(t).year /\ gmtime_r(t).year <= 9999

\* A time written for HTTP or, in any zone, for SMTP is read back as the same
\* second, before 1970, around leap days and for one-digit days too; only the
\* second that timegm cannot tell from a failure throws.  The formats are those
\* of years from 1000 to 9999, and nothing is said of others.
TimesReadBack ==
    call.op = "time" =>
        /\ Writable(call.in) => call.http = IF call.in = -1 THEN <<>> ELSE <<call.in>>
        /\ Writable(call.in + call.zone) => call.smtp = IF call.in + call.zone = -1 THEN <<>> ELSE <<call.in>>

\* No line of quoted-printable text is longer than MaxQuotedLine, whether a
\* character, a code or the '=' of a soft line break comes last.
QuotedLinesFit ==
    call.op = "encode" /\ call.codec = "quoted" => LinesFit(call.out, MaxQuotedLine)

\* Decoding what a codec has encoded gives the text back, whatever
\* characters it holds: the order of the HTML replacements, the soft line
\* breaks, the padding of the last group or, in an Argon2 hash, the lack of it
\* (Argon2HashingEngine.cpp:150), and the bias of Punycode are undone,
\* and no encoded line is longer than its limit.  What is sent of an address
\* that isValid accepts has no character beyond ASCII.  Three things do not
\* come back: htmlDecode also decodes numeric references that were in the text,
\* Punycode drops empty labels, and a second @ at the end of an address goes.
\* The same for times.
DecodesBack ==
    /\ call.op = "encode" =>
           /\ call.back = CASE call.codec \in {"html", "entities"} -> DecodeUnicode(call.in)
                            [] call.codec = "puny" -> JoinLabels(splitString(call.in, Dot, TRUE))
                            [] call.codec = "lines" -> SelectSeq(call.in, LAMBDA c : c # CR)
                            [] call.codec = "address" ->
                                  InDomain(call.in, WithoutLastAt(call.in),
                                           LAMBDA d : JoinLabels(splitString(d, Dot, TRUE)))
                            [] OTHER -> call.in
           /\ call.codec = "base64" => LinesFit(call.out, 5) /\ (call.in # <<>> => isBase64(call.out, TRUE))
           /\ call.codec = "address" /\ isValid(call.in) => \A i \in 1..Len(call.out) : call.out[i] \in 33..126
    /\ QuotedLinesFit /\ TimesReadBack

DecodedPart(content, coding) ==
    CASE coding = "base64" -> base64Decode(content) \o CRLF
      [] coding = "quoted" -> quotedPrintableDecode(content, FALSE)
      [] coding = "none" -> content

\* found is what MimeMultipart made of the text of some parts.
SameParts(found, parts, rules) ==
    /\ found.ok /\ Len(found.parts) = Len(parts)
    /\ \A i \in 1..Len(parts) :
          parts[i].kind # "list" =>
             /\ found.parts[i].contentType = parts[i].type
             /\ DecodedPart(found.parts[i].content, parts[i].coding)
                  = Applied(parts[i].data, rules, parts[i].allowReplacements) \o CRLF

\* The parts of the list, and of the lists in it, are in the body.
ReadsBack(list, body, rules) ==
    LET foundAt[path \in Seq(Nat)] ==
            parse(MultipartType(PartAt(list, path)),
                  IF path = <<>> THEN body ELSE foundAt[Front(path)].parts[Last(path)].content)
        readsAt[path \in Seq(Nat)] ==
            LET parts == PartAt(list, path).parts
            IN /\ SameParts(foundAt[path], parts, rules)
               /\ \A i \in 1..Len(parts) : parts[i].kind = "list" => readsAt[Append(path, i)]
    IN readsAt[<<>>]

\* What a reader of mails looks at: the body from the first boundary on
PastPreamble(list, body) ==
    From(body, Find(body, <<Dash, Dash>> \o genBoundary(list.random), 1))

\* The body that MimeEmail composes is, from the first boundary on, taken apart
\* by MimeMultipart into the parts that went in, nested lists included,
\* although parts hold text that looks like a boundary: neither encoding can
\* produce one.  The line before the boundary is for readers of mails to skip;
\* MimeMultipart itself, which reads forms, throws on it
\* (MimeMultipart.cpp:109).
MailReadsBack ==
    call.op = "mail" =>
        /\ ReadsBack(call.in, PastPreamble(call.in, call.out.body), call.rules)
        /\ quotedPrintableDecode(call.simple.body, FALSE) = stringReplace(call.in.parts[1].data, call.rules)

Fields(form, name, files) ==
    LET isFile(f) == f.filename # <<>> \/ f.type \notin {<<>>, TextPlain}
        s == SelectSeq(form, LAMBDA f : f.name = name /\ isFile(f) = files)
    IN ToBag([i \in 1..Len(s) |->
           IF files THEN [filename |-> s[i].filename, contentType |-> s[i].type, data |-> s[i].content]
           ELSE s[i].content])

Pairs(pairs, name) ==
    LET s == SelectSeq(pairs, LAMBDA p : p[1] = name)
    IN [i \in 1..Len(s) |-> s[i][2]]

\* A content that MimeMultipart loses (MimeMultipart.cpp:151)
LosesContent(form, name) == \E i \in 1..Len(form) : form[i].name = name /\ Len(form[i].content) = 1

\* The app finds every field of a form under its name, files with their name
\* and type as files and values as values, each as often as the form has it
\* where names repeat, and nothing else; the same for urlencoded bodies and, if
\* they have a value, for cookies.  Nothing is said of the values under a name
\* with a content of a single character in a multipart form: against the
\* comment in MimeMultipart.cpp:150 the parser loses it.
FormReadsBack ==
    /\ call.op = "form" =>
          LET names == {call.in[i].name : i \in 1..Len(call.in)}
          IN /\ \A n \in names : ~LosesContent(call.in, n) =>
                   /\ getVector(call.out.postVars, n) = Fields(call.in, n, FALSE)
                   /\ getVector(call.out.postFiles, n) = Fields(call.in, n, TRUE)
             /\ {v[1] : v \in ToSet(call.out.postVars)} \cup {f[1] : f \in ToSet(call.out.postFiles)} \subseteq names
             /\ PostGiven(call.out) <=> call.in # <<>>
             /\ hasFiles(call.out) <=> \E n \in names : Fields(call.in, n, TRUE) # EmptyBag
    /\ call.op = "query" =>
          /\ \A n \in {p[1] : p \in ToSet(call.in) \cup ToSet(call.out.postVars)} :
                /\ getVector(call.out.postVars, n) = ToBag(Pairs(call.in, n))
                /\ \A v \in Lookup(call.out.postVars, n) : <<n, v>> \in ToSet(call.in)
                /\ count(call.cookies, n) = Len(SelectSeq(Pairs(call.in, n), LAMBDA v : v # <<>>))
          /\ call.out.rawPost = <<>>

SectionAt(lines, i) ==
    LET j == SelectLastInSubSeq(lines, 1, i, LAMBDA l : l.kind = "section")
    IN IF j = 0 THEN <<>> ELSE strncpy0(lines[j].name, MAX_SECTION)

\* In the configuration out, made from base by the overrides o, a setting has
\* the value of the last override of it, and without one what base gives it.
LastWins(out, base, o) ==
    \A k \in DOMAIN out \cup DOMAIN base \cup {o[i][1] : i \in 1..Len(o)} :
        /\ (\A i \in 1..Len(o) : o[i][1] # k) => Value(out, k) = Value(base, k)
        /\ \A i \in 1..Len(o) :
              o[i][1] = k /\ (\A j \in (i + 1)..Len(o) : o[j][1] # k) => Value(out, k) = o[i][2]

\* The overrides of the command line win over the file: the last one of a
\* setting, and the file where there is none.
OverridesWin ==
    call.op = "settings" =>
        LastWins(call.out,
                 IF call.parameters.file = <<>> THEN NoSettings ELSE read(IniText(call.in)),
                 call.parameters.overrides)

FitsReader(line) ==
    Len(line.text) + 1 < INI_MAX_LINE /\ (line.kind = "pair" => Len(line.name) < MAX_NAME)

\* A setting has the value of the last argument that overrides it, or else of
\* the first line of its section that gives it one, whatever comments, blanks,
\* broken lines and continuation lines there are between them.  Sections count
\* as the same if the part of their names that fits is.  Excepted are files
\* with a line that is too long for the reader, and those with a name that is
\* too long to be continued: a continuation line of it is a setting under the
\* name that is left of it (ini.c:158).
SettingsPrecedence ==
    /\ OverridesWin
    /\ call.op = "settings" /\ (\A i \in 1..Len(call.in) : FitsReader(call.in[i])) =>
        LET given == SelectSeq(call.args, LAMBDA a : a.override # <<>>)
            pairs == [i \in 1..Len(call.in) |->
                        [key |-> <<SectionAt(call.in, i), call.in[i].name>>, line |-> call.in[i]]]
            fromFile(k) == SelectInSeq(pairs, LAMBDA p : p.line.kind = "pair" /\ p.key = k)
            fromArgs(k) == SelectLastInSeq(given, LAMBDA a : a.override[1] = k)
        IN \A k \in DOMAIN call.out \cup {p.key : p \in ToSet(pairs)} \cup {a.override[1] : a \in ToSet(given)} :
              Value(call.out, k) =
                 IF fromArgs(k) # 0 THEN given[fromArgs(k)].override[2]
                 ELSE IF fromFile(k) # 0 /\ call.parameters.file # <<>> THEN pairs[fromFile(k)].line.value
                 ELSE <<>>


\* The heading of an error page is the reason in the status line, but for 406,
\* and a file's type is that of the letters after its last dot in any case.
PagesMatch ==
    call.op = "page" =>
        /\ call.status # 406 /\ call.out.heading # "UnknownError" =>
              call.out.title = <<call.status, Entry(httpStatusCodes, call.status, "")>>
        /\ \A e \in DOMAIN contentTypeMap :
              IsSuffix(<<Dot>> \o e, toLowercase(call.file)) => call.type = contentTypeMap[e]

\* The bytes of a password that count for Blowfish
Cut(s) == SubSeq(c_str(s), 1, IF Len(c_str(s)) < MaxKey THEN Len(c_str(s)) ELSE MaxKey)

\* A hash that an engine returns is accepted for the password it was made of
\* and, for bcrypt, for those that agree with it in the bytes that count, and
\* for no other, whatever the flavour, the costs and the salt; where Argon2 has
\* no memory it accepts none.  There is no hash only without the randomness or
\* the memory it takes, with parameters that Argon2 refuses, with costs of more
\* digits than the estimated length of the hash has room for, or for a salt of
\* the user's that is too short or, although BcryptHashingEngine.h:53 offers
\* one, given to bcrypt, which then takes what is on the stack.
PasswordsVerify ==
    call.op = "hash" =>
        IF call.out = Failed
        THEN \/ ~call.supplied
             \/ call.engine.salt # <<>> /\ (call.engine.kind = "bcrypt" \/ Len(call.engine.salt) < MinSalt)
             \/ call.engine.kind # "bcrypt" /\ (Argon2Refuses(call.engine, MinSalt) \/ CostDigits(call.engine) > 22)
        ELSE call.matches = IF call.engine.kind = "bcrypt" THEN {q \in Passwords : Cut(q) = Cut(call.in)}
                            ELSE IF call.memory THEN {call.in} ELSE {}
=============================================================================
