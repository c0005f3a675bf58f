------------------------------- MODULE Utils -------------------------------
(***************************************************************************)
(* The string and time utilities of src/src/util/utils.cpp on which        *)
(* requests, mails and encodings rest.  A string is a sequence of          *)
(* character codes, a position that std::string::find does not find is 0   *)
(* where the code has npos = 2^64 - 1, and the sums that wrap around it    *)
(* are written out.                                                        *)
(***************************************************************************)
EXTENDS Integers, Sequences, SequencesExt

CONSTANTS
    contentTypeMap,  \* extension |-> content type
    UnknownType      \* "application/octet-stream"

\* No extension in the table has a dot in it.
ASSUME ExtensionAssumption ==
    \A e \in DOMAIN contentTypeMap : e \in Seq(Nat) /\ \A i \in 1..Len(e) : e[i] # 46

LF == 10
CR == 13
SP == 32
Amp == 38
Dash == 45
Dot == 46
Slash == 47
Colon == 58
Semicolon == 59
Equals == 61
Question == 63

Spaces == {SP, 9, LF, 11, 12, CR}

\* The first of some positions, 0 if there is none
Earliest(I) == IF I = {} THEN 0 ELSE CHOOSE i \in I : \A j \in I : i <= j

\* std::string::find: where t first occurs in s at from or later, 0 if nowhere.
Find(s, t, from) ==
    Earliest({i \in from..(Len(s) - Len(t) + 1) : SubSeq(s, i, i + Len(t) - 1) = t})

FindChar(s, c) == SelectInSeq(s, LAMBDA d : d = c)

From(s, i) == SubSeq(s, i, Len(s))

\* s.substr(0, pos), where pos is npos if nothing was found
Before(s, pos) == IF pos = 0 THEN s ELSE SubSeq(s, 1, pos - 1)

\* boost::trim_left and boost::trim
trim_left(s) ==
    LET first == SelectInSeq(s, LAMBDA c : c \notin Spaces)
    IN IF first = 0 THEN <<>> ELSE From(s, first)

trim(s) == Reverse(trim_left(Reverse(trim_left(s))))

-----------------------------------------------------------------------------
(* Replacing *)

\* The matches of a regular expression, leftmost first and not overlapping, are
\* replaced: length[i] is the length of the match that starts at i, 0 if none
\* does, and text[i] what fmt makes of it.
regexReplaceCallback(s, length, text) ==
    LET rest[i \in 1..(Len(s) + 1)] ==
            LET hit == SelectInSubSeq(length, i, Len(s), LAMBDA n : n > 0)
            IN IF hit = 0 THEN From(s, i)
               ELSE SubSeq(s, i, hit - 1) \o text[hit] \o rest[hit + length[hit]]
    IN rest[1]

IsAt(t, s, i) == i + Len(t) - 1 <= Len(s) /\ SubSeq(s, i, i + Len(t) - 1) = t

\* boost::replace_all, and one round of stringReplace; key is not empty.
replace_all(s, key, val) ==
    regexReplaceCallback(s, [i \in 1..Len(s) |-> IF IsAt(key, s, i) THEN Len(key) ELSE 0],
                         [i \in 1..Len(s) |-> val])

\* stringReplace applies its rules one after the other, in the order in which
\* the unordered_map happens to hold them: a later rule sees what an earlier
\* one has put in.
stringReplace(s, rules) == FoldLeft(LAMBDA t, r : replace_all(t, r[1], r[2]), s, rules)

-----------------------------------------------------------------------------
(* Characters *)

HexDigit(n) == IF n < 10 THEN 48 + n ELSE 87 + n

hexDump(s) == FlattenSeq([i \in 1..Len(s) |-> <<HexDigit(s[i] \div 16), HexDigit(s[i] % 16)>>])

toLowercase(s) == [i \in 1..Len(s) |-> IF s[i] \in 65..90 THEN s[i] + 32 ELSE s[i]]

toUppercase(s) == [i \in 1..Len(s) |-> IF s[i] \in 97..122 THEN s[i] - 32 ELSE s[i]]

\* CR is dropped, LF becomes the ending.
convertLineEndings(s, ending) ==
    FlattenSeq([i \in 1..Len(s) |->
        CASE s[i] = LF -> ending [] s[i] = CR -> <<>> [] OTHER -> <<s[i]>>])

-----------------------------------------------------------------------------
(* Splitting *)

Tokens(s, delimiter) ==
    LET cuts == SetToSortSeq({0, Len(s) + 1} \cup {i \in 1..Len(s) : s[i] = delimiter}, <)
    IN [k \in 1..(Len(cuts) - 1) |-> SubSeq(s, cuts[k] + 1, cuts[k + 1] - 1)]

\* The loop ends when nothing is left, so there is no token after a delimiter
\* at the end.
splitString(s, delimiter, ignoreEmpty) ==
    LET tokens == Tokens(s, delimiter)
        all == IF Last(tokens) = <<>> THEN Front(tokens) ELSE tokens
    IN IF ignoreEmpty THEN SelectSeq(all, LAMBDA t : t # <<>>) ELSE all

mergePath(path) ==
    IF path = <<>> THEN <<Slash>>
    ELSE FlattenSeq([i \in 1..Len(path) |-> <<Slash>> \o path[i]])

splitPath(s) == splitString(Before(s, FindChar(s, Question)), Slash, TRUE)

\* Name and value on the two sides of a separator.  line.length() < pos + 2
\* skips a line with nothing after the separator; with no separator pos + 2
\* wraps around to 1 and a line that is not empty is name and value at once.
NamesValue(line, pos) == Len(line) >= IF pos = 0 THEN 1 ELSE pos + 1

parseHeaders(raw) ==
    LET lines == splitString(SelectSeq(raw, LAMBDA c : c # CR), LF, TRUE)
        add(map, line) ==
            LET pos == FindChar(line, Colon)
                key == toLowercase(Before(line, pos))
            IN IF ~NamesValue(line, pos) THEN map
               ELSE [k \in DOMAIN map \cup {key} |->
                        IF k = key THEN trim_left(From(line, pos + 1)) ELSE map[k]]
    IN FoldLeft(add, [k \in {} |-> <<>>], lines)

parseCookies(raw) ==
    LET tokens == splitString(raw, Semicolon, TRUE)
        cookies == SelectSeq([i \in 1..Len(tokens) |-> trim(tokens[i])],
                             LAMBDA c : NamesValue(c, FindChar(c, Equals)))
    IN [i \in 1..Len(cookies) |->
           LET pos == FindChar(cookies[i], Equals)
           IN <<Before(cookies[i], pos), From(cookies[i], pos + 1)>>]

-----------------------------------------------------------------------------
(* Files and error pages *)

\* find_last_of('.') + 1 wraps around to 0 in a name without a dot: the whole
\* name is the extension.
getFileExtension(filename) ==
    From(filename, SelectLastInSeq(filename, LAMBDA c : c = Dot) + 1)

contentTypeByExtension_AsWritten(ext) ==
    IF ext \in DOMAIN contentTypeMap THEN contentTypeMap[ext] ELSE UnknownType

contentTypeByExtension(extension) ==
    LET ext == toLowercase(extension)
    IN IF ext \in DOMAIN contentTypeMap THEN contentTypeMap[ext] ELSE UnknownType

\* What a table of pairs has for a key
Entry(table, key, other) ==
    IF \E p \in table : p[1] = key THEN (CHOOSE p \in table : p[1] = key)[2] ELSE other

\* The headings of the pages, without blanks; 406 differs from the status line.
Headings ==
    {<<400, "BadRequest">>, <<401, "Unauthorized">>, <<403, "Forbidden">>, <<404, "NotFound">>,
     <<405, "MethodNotAllowed">>, <<406, "NotApplicable">>, <<408, "RequestTimeout">>, <<409, "Conflict">>,
     <<410, "Gone">>, <<415, "UnsupportedMediaType">>, <<418, "Teapot">>, <<429, "TooManyRequests">>,
     <<451, "UnavailableForLegalReasons">>, <<500, "InternalServerError">>, <<501, "NotImplemented">>,
     <<503, "ServiceUnavailable">>}

errorStr(status) == Entry(Headings, status, "UnknownError")

generateErrorPage(status) ==
    [title |-> <<status, errorStr(status)>>, heading |-> errorStr(status),
     explanation |-> status \notin {429, 451} /\ errorStr(status) # "UnknownError"]

-----------------------------------------------------------------------------
(* Times, in seconds since 1970, and dates as gmtime_r breaks them down *)

Daily == 86400

\* The proleptic Gregorian calendar, counted from March.
Civil(day) ==
    LET z == day + 719468
        era == z \div 146097
        doe == z % 146097
        yoe == (doe - doe \div 1460 + doe \div 36524 - doe \div 146096) \div 365
        doy == doe - (365 * yoe + yoe \div 4 - yoe \div 100)
        mp == (5 * doy + 2) \div 153
        mon == (mp + 2) % 12
    IN [mday |-> doy - (153 * mp + 2) \div 5 + 1, mon |-> mon,
        year |-> yoe + era * 400 + IF mon < 2 THEN 1 ELSE 0]

gmtime_r(t) ==
    LET c == Civil(t \div Daily)
    IN [mday |-> c.mday, mon |-> c.mon, year |-> c.year,
        wday |-> (t \div Daily + 4) % 7, second |-> t % Daily]

timegm(tm) ==
    LET y == tm.year - 1
        newYear == 365 * (tm.year - 1970) + y \div 4 - y \div 100 + y \div 400 - 477
        day == CHOOSE d \in newYear..(newYear + 365) :
                   Civil(d) = [mday |-> tm.mday, mon |-> tm.mon, year |-> tm.year]
    IN day * Daily + tm.second

getDayOfWeek(wday) == <<"Sun", "Mon", "Tue", "Wed", "Thu", "Fri", "Sat">>[wday + 1]

Months == <<"Jan", "Feb", "Mar", "Apr", "May", "Jun", "Jul", "Aug", "Sep", "Oct", "Nov", "Dec">>

getMonth(mon) == Months[mon + 1]

\* %d, %H, %M and %S, and what stands there as a number
Two(n) == <<n \div 10, n % 10>>
Number(d) == 10 * d[1] + d[2]

\* %Y puts no zeros in front of a year.  Texts of more or fewer than four digits
\* are all <<>>.
YearText(year) ==
    IF 1000 <= year /\ year <= 9999
    THEN Two(year \div 100) \o Two(year % 100) ELSE <<>>

\* "%a, %d %b %Y %H:%M:%S"
Stamp(tm) ==
    [wday |-> getDayOfWeek(tm.wday), mday |-> Two(tm.mday), mon |-> getMonth(tm.mon),
     year |-> YearText(tm.year), hour |-> Two(tm.second \div 3600),
     min |-> Two((tm.second % 3600) \div 60), sec |-> Two(tm.second % 60)]

\* get_time with the same format
ReadStamp(s) ==
    [mday |-> Number(s.mday), mon |-> (CHOOSE i \in 1..12 : Months[i] = s.mon) - 1,
     year |-> 100 * Number(SubSeq(s.year, 1, 2)) + Number(SubSeq(s.year, 3, 4)),
     second |-> 3600 * Number(s.hour) + 60 * Number(s.min) + Number(s.sec)]

makeHttpTime(t) == Stamp(gmtime_r(t))

\* timegm returns -1 on failure, so the last second of 1969 counts as one: no
\* result, an exception in the code.
Checked(t) == IF t = -1 THEN <<>> ELSE <<t>>

\* get_time wants a year of four digits.
ReadTime(s) == IF Len(s.year) # 4 THEN <<>> ELSE Checked(timegm(ReadStamp(s)))

readHttpTime(s) == ReadTime(s)

Blank == -1

\* %e has a space for a leading zero, %z is a sign, hours and minutes.
makeSmtpTime(t, offset) ==
    LET s == Stamp(gmtime_r(t + offset))
        size == IF offset < 0 THEN -offset ELSE offset
    IN [stamp |-> IF s.mday[1] = 0 THEN [s EXCEPT !.mday[1] = Blank] ELSE s,
        minus |-> offset < 0, tzH |-> Two(size \div 3600), tzM |-> Two((size % 3600) \div 60)]

\* The space becomes a zero again; the zone is not part of a tm.
ReadSmtpStamp(s) == ReadTime(IF s.mday[1] = Blank THEN [s EXCEPT !.mday[1] = 0] ELSE s)

\* The zone is looked for at fixed positions, where it is if the year has four
\* digits.
readSmtpTime(s) ==
    LET tzAdjust == IF s.minus THEN 1 ELSE -1
        local == ReadSmtpStamp(s.stamp)
    IN IF local = <<>> THEN <<>> ELSE <<local[1] + tzAdjust * (Number(s.tzH) * 3600 + Number(s.tzM) * 60)>>
=============================================================================
