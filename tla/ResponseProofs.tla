---------------------------- MODULE ResponseProofs -------------------------
(***************************************************************************)
(* Response implements Output: for any bytes, names, bodies, files and     *)
(* number of calls, also when files change while they are read.            *)
(***************************************************************************)
EXTENDS Response, TLAPS

-----------------------------------------------------------------------------
(* The inductive invariant *)

Content == Bytes \cup {NUL}

Items(s) == {s[i] : i \in DOMAIN s}

\* The wire is empty before the first flush and starts with the three items
\* of a head afterwards.
WireInv ==
    /\ wire \in Seq(Items(wire))
    /\ isFlushed => Len(wire) >= 3
    /\ ~isFlushed => wire = <<>>

FileInv == file \in Files

\* While sendFile reads, the last call is still the one it has begun with.
KindInv == reading # None => kind = "prepare"

IInv == TypeOK /\ WireInv /\ FileInv /\ KindInv

-----------------------------------------------------------------------------
(* Lemmas on sequences *)

LEMMA SeqItems ==
    ASSUME NEW S, NEW s \in Seq(S)
    PROVE  s \in Seq(Items(s))
<1>1. Len(s) \in Nat /\ DOMAIN s = 1 .. Len(s) /\ s \in [1 .. Len(s) -> S]
    OBVIOUS
<1>2. \A i \in 1 .. Len(s) : s[i] \in Items(s)
    BY <1>1 DEF Items
<1> HIDE DEF Items
<1>3. s \in [1 .. Len(s) -> Items(s)]
    BY <1>1, <1>2
<1> QED BY <1>1, <1>3

\* A head of three items in front of a body: what comes after it is the body.
LEMMA AfterHead ==
    ASSUME NEW S, NEW b \in Seq(S), NEW x, NEW y, NEW z
    PROVE  LET w == <<x, y, z>> \o b IN
           /\ w \in Seq(Items(w)) /\ Len(w) >= 3
           /\ w[1] = x /\ w[2] = y
           /\ SubSeq(w, 4, Len(w)) = b
<1> DEFINE w == <<x, y, z>> \o b
           T == S \cup {x, y, z}
<1>1. <<x, y, z>> \in Seq(T) /\ b \in Seq(T) /\ Len(b) \in Nat
    OBVIOUS
<1>2. /\ w \in Seq(T) /\ Len(w) = 3 + Len(b)
      /\ w[1] = x /\ w[2] = y
      /\ \A i \in 1 .. Len(b) : w[i + 3] = b[i]
    BY <1>1
<1>3. w \in Seq(Items(w))
    BY <1>2, SeqItems
<1>4. SubSeq(w, 4, Len(w)) = b
  <2>1. SubSeq(w, 4, Len(w)) = [i \in 1 .. Len(b) |-> w[i + 3]]
    BY <1>1, <1>2
  <2>2. b = [i \in 1 .. Len(b) |-> b[i]]
    OBVIOUS
  <2> QED BY <2>1, <2>2, <1>2
<1> QED BY <1>1, <1>2, <1>3, <1>4

\* A further body goes to the end, and the head stays.
LEMMA Continued ==
    ASSUME NEW s, s \in Seq(Items(s)), Len(s) >= 3, NEW S, NEW b \in Seq(S)
    PROVE  LET w == s \o b IN
           /\ w \in Seq(Items(w)) /\ Len(w) >= 3
           /\ w[1] = s[1] /\ w[2] = s[2] /\ w # <<>>
           /\ SubSeq(w, 4, Len(w)) = SubSeq(s, 4, Len(s)) \o b
<1> DEFINE w == s \o b
           T == Items(s) \cup S
           r == SubSeq(s, 4, Len(s))
<1>1. s \in Seq(T) /\ b \in Seq(T) /\ Len(b) \in Nat /\ Len(s) \in Nat
    OBVIOUS
<1>2. /\ w \in Seq(T) /\ Len(w) = Len(s) + Len(b)
      /\ \A i \in 1 .. Len(s) : w[i] = s[i]
      /\ \A i \in 1 .. Len(b) : w[i + Len(s)] = b[i]
    BY <1>1
<1>3. w \in Seq(Items(w))
    BY <1>2, SeqItems
<1>4. /\ r \in Seq(T) /\ Len(r) = Len(s) - 3
      /\ \A i \in 1 .. Len(r) : r[i] = s[i + 3]
  <2>1. r = [i \in 1 .. Len(s) - 3 |-> s[i + 3]] /\ Len(s) - 3 \in Nat
    BY <1>1
  <2>2. \A i \in 1 .. Len(s) - 3 : s[i + 3] \in T
    BY <1>1
  <2> HIDE DEF r
  <2>3. r \in [1 .. Len(s) - 3 -> T]
    BY <2>1, <2>2
  <2> QED BY <2>1, <2>3
<1>5. SubSeq(w, 4, Len(w)) = r \o b
  <2>1. SubSeq(w, 4, Len(w)) = [i \in 1 .. Len(s) - 3 + Len(b) |-> w[i + 3]]
    BY <1>1, <1>2
  <2>2. r \o b = [i \in 1 .. Len(s) - 3 + Len(b) |->
                     IF i <= Len(s) - 3 THEN s[i + 3] ELSE b[i - (Len(s) - 3)]]
    BY <1>1, <1>4
  <2>3. ASSUME NEW i \in 1 .. Len(s) - 3 + Len(b)
        PROVE  w[i + 3] = IF i <= Len(s) - 3 THEN s[i + 3] ELSE b[i - (Len(s) - 3)]
    <3>1. CASE i <= Len(s) - 3
      BY <3>1, <1>1, <1>2
    <3>2. CASE i > Len(s) - 3
      <4> DEFINE k == i - (Len(s) - 3)
      <4>1. k \in 1 .. Len(b) /\ k + Len(s) = i + 3
        BY <3>2, <1>1
      <4>2. w[k + Len(s)] = b[k]
        BY <4>1, <1>2
      <4> QED BY <4>1, <4>2, <3>2, <1>1
    <3> QED BY <3>1, <3>2, <1>1
  <2> QED BY <2>1, <2>2, <2>3
<1>6. w[1] = s[1] /\ w[2] = s[2] /\ Len(w) >= 3 /\ w # <<>>
    BY <1>1, <1>2
<1> QED BY <1>3, <1>5, <1>6

\* The FastCGI handler puts the same on the wire as the HTTP handler.
LEMMA SameWire ==
    ASSUME NEW S, NEW b \in Seq(S), NEW x, NEW y, NEW z
    PROVE  <<x>> \o (<<y, z>> \o b) = <<x, y, z>> \o b
<1> DEFINE T == S \cup {x, y, z}
<1>1. <<x>> \in Seq(T) /\ <<y, z>> \in Seq(T) /\ <<x, y, z>> \in Seq(T) /\ b \in Seq(T)
      /\ Len(b) \in Nat
    OBVIOUS
<1>2. /\ <<y, z>> \o b \in Seq(T) /\ Len(<<y, z>> \o b) = 2 + Len(b)
      /\ (<<y, z>> \o b)[1] = y /\ (<<y, z>> \o b)[2] = z
      /\ \A i \in 1 .. Len(b) : (<<y, z>> \o b)[i + 2] = b[i]
    BY <1>1
<1> DEFINE u == <<x>> \o (<<y, z>> \o b)
           v == <<x, y, z>> \o b
<1>3. /\ u \in Seq(T) /\ Len(u) = 3 + Len(b) /\ u[1] = x /\ u[2] = y /\ u[3] = z
      /\ \A i \in 1 .. Len(b) : u[i + 3] = b[i]
  <2>1. u \in Seq(T) /\ Len(u) = 3 + Len(b) /\ u[1] = x
    BY <1>1, <1>2
  <2>2. \A i \in 1 .. 2 + Len(b) : u[i + 1] = (<<y, z>> \o b)[i]
    BY <1>1, <1>2
  <2>3. u[2] = y /\ u[3] = z
    BY <2>2, <1>1, <1>2
  <2>4. ASSUME NEW i \in 1 .. Len(b) PROVE u[i + 3] = b[i]
    <3>1. i + 2 \in 1 .. 2 + Len(b) /\ (i + 2) + 1 = i + 3
      BY <1>1
    <3> QED BY <3>1, <2>2, <1>2
  <2> QED BY <2>1, <2>3, <2>4
<1>4. /\ v \in Seq(T) /\ Len(v) = 3 + Len(b) /\ v[1] = x /\ v[2] = y /\ v[3] = z
      /\ \A i \in 1 .. Len(b) : v[i + 3] = b[i]
    BY <1>1
<1>5. ASSUME NEW i \in 1 .. 3 + Len(b) PROVE u[i] = v[i]
  <2>1. CASE i \in {1, 2, 3}
    BY <2>1, <1>3, <1>4
  <2>2. CASE i \notin {1, 2, 3}
    <3>1. i - 3 \in 1 .. Len(b) /\ (i - 3) + 3 = i
      BY <2>2, <1>1
    <3> QED BY <3>1, <1>3, <1>4
  <2> QED BY <2>1, <2>2
<1> HIDE DEF u, v
<1>6. u = v
    BY <1>1, <1>3, <1>4, <1>5
<1> QED BY <1>6 DEF u, v

\* Appending to the second of two sequences, and an empty second one.
LEMMA Joined ==
    ASSUME NEW S, NEW s \in Seq(S), NEW t \in Seq(S), NEW x \in S
    PROVE  /\ s \o t \in Seq(S)
           /\ s \o <<>> = s
           /\ s \o Append(t, x) = Append(s \o t, x)
    OBVIOUS

-----------------------------------------------------------------------------
(* Every call keeps the invariant *)

LEMMA InitKeeps == Init => IInv
<1> SUFFICES ASSUME Init PROVE IInv
    OBVIOUS
<1>1. TypeOK
  <2>1. DOMAIN headers \subseteq LowerNames /\ DOMAIN cookies \subseteq CookieNames
    BY DEF Init, LowerNames, NoValues
  <2>2. /\ bodyString \in Seq(Bytes \cup {NUL}) /\ responseStream \in Seq(Bytes)
        /\ isFlushed \in BOOLEAN
    <3>1. \A S : <<>> \in Seq(S)
      OBVIOUS
    <3> QED BY <3>1 DEF Init
  <2>3. /\ calls \in 0 .. MaxCalls /\ (reading = None \/ reading \in Nat)
        /\ kind = "none"
    BY ByteAssumption DEF Init
  <2> QED BY <2>1, <2>2, <2>3 DEF TypeOK
<1>2. WireInv
    BY DEF Init, WireInv
<1>3. FileInv /\ KindInv
    BY DEF Init, FileInv, KindInv
<1> QED BY <1>1, <1>2, <1>3 DEF IInv

\* Calls that leave the wire, the file and the reading of it alone.
LEMMA CallKeeps ==
    ASSUME IInv, UNCHANGED <<output, file, reading>>, reading = None \/ UNCHANGED kind
    PROVE  WireInv' /\ FileInv' /\ KindInv'
<1>1. WireInv'
    BY DEF IInv, WireInv, output
<1>2. FileInv'
    BY DEF IInv, FileInv
<1>3. KindInv'
    BY DEF IInv, KindInv
<1> QED BY <1>1, <1>2, <1>3

LEMMA Counted ==
    ASSUME TypeOK, calls < MaxCalls, calls' = calls + 1
    PROVE  calls' \in 0 .. MaxCalls
    BY ByteAssumption DEF TypeOK

\* The names of headers stay in lower case.
LEMMA HeadersKeep ==
    ASSUME TypeOK, NEW k \in Names, NEW v
    PROVE  /\ DOMAIN WithValue(headers, Lower[k], v) \subseteq LowerNames
           /\ DOMAIN Without(headers, Lower[k]) \subseteq LowerNames
    BY ByteAssumption DEF TypeOK, WithValue, Without, LowerNames

LEMMA BodyTyped ==
    ASSUME TypeOK
    PROVE  getResponseBody \in Seq(Content)
<1>1. bodyString \in Seq(Content) /\ responseStream \in Seq(Content)
    BY DEF TypeOK, Content
<1> QED BY <1>1 DEF getResponseBody

\* What sendFile leaves in the body is a sequence of bytes.
LEMMA FileRead ==
    ASSUME IInv, SendFileBody
    PROVE  bodyString' \in Seq(Content)
<1>1. reading \in Nat /\ file \in Seq(Bytes) /\ bodyString \in Seq(Content) /\ Len(file) \in Nat
    BY ByteAssumption DEF IInv, TypeOK, FileInv, SendFileBody, Content
<1>2. bodyString' = [i \in 1 .. reading + 1 |->
                        IF i = reading + 1 THEN NUL
                        ELSE IF i <= Len(file) THEN file[i]
                        ELSE IF i \in DOMAIN bodyString THEN bodyString[i] ELSE NUL]
    BY DEF SendFileBody
<1>3. ASSUME NEW i \in 1 .. reading + 1
      PROVE  (IF i = reading + 1 THEN NUL
              ELSE IF i <= Len(file) THEN file[i]
              ELSE IF i \in DOMAIN bodyString THEN bodyString[i] ELSE NUL) \in Content
  <2>1. i <= Len(file) => file[i] \in Content
    BY <1>1 DEF Content
  <2>2. i \in DOMAIN bodyString => bodyString[i] \in Content
    BY <1>1
  <2> QED BY <2>1, <2>2 DEF Content
<1>4. bodyString' \in [1 .. reading + 1 -> Content]
    BY <1>2, <1>3
<1> QED BY <1>1, <1>4

\* What a flush puts on the wire, in either state and by either handler.
LEMMA Flushed ==
    ASSUME IInv, flushResponse
    PROVE  /\ isFlushed => wire' = wire \o getResponseBody
           /\ ~isFlushed => wire' = <<getStatusString(responseStatus), getHeaders, "end of head">>
                                        \o getResponseBody
<1> DEFINE c == [status |-> responseStatus, headers |-> getHeaders,
                 body |-> getResponseBody, flushedBefore |-> isFlushed]
           x == getStatusString(responseStatus)
<1>1. getResponseBody \in Seq(Content) /\ isFlushed \in BOOLEAN
    BY BodyTyped DEF IInv, TypeOK
<1>2. /\ wire' = wire \o IF transport = "http" THEN HttpFlush(c) ELSE FastcgiFlush(c)
    BY DEF flushResponse
<1>3. isFlushed => HttpFlush(c) = getResponseBody /\ FastcgiFlush(c) = getResponseBody
    BY <1>1 DEF HttpFlush, FastcgiFlush, getFullHttp
<1>4. ASSUME ~isFlushed
      PROVE  wire' = <<x, getHeaders, "end of head">> \o getResponseBody
  <2>1. HttpFlush(c) = <<x, getHeaders, "end of head">> \o getResponseBody
    BY <1>4 DEF HttpFlush
  <2>2. FastcgiFlush(c) = <<x>> \o (<<getHeaders, "end of head">> \o getResponseBody)
    BY <1>4 DEF FastcgiFlush, getFullHttp
  <2>3. FastcgiFlush(c) = <<x, getHeaders, "end of head">> \o getResponseBody
    <3>1. \A u, y, z : <<u>> \o (<<y, z>> \o getResponseBody)
                         = <<u, y, z>> \o getResponseBody
      BY <1>1, SameWire
    <3> HIDE DEF c, x
    <3> QED BY <2>2, <3>1
  <2>4. wire = <<>>
    BY <1>4 DEF IInv, WireInv
  <2> DEFINE h == <<x, getHeaders, "end of head">> \o getResponseBody
  <2>5. h \in Seq(Items(h))
    BY <1>1, AfterHead
  <2>6. wire' = <<>> \o h
    BY <1>2, <2>1, <2>3, <2>4
  <2> HIDE DEF h
  <2>7. <<>> \o h = h
    BY <2>5
  <2> QED BY <2>6, <2>7 DEF h
<1> QED BY <1>1, <1>2, <1>3, <1>4

LEMMA FlushKeeps ==
    ASSUME IInv, flushResponse
    PROVE  /\ WireInv' /\ wire' # <<>>
           /\ wire'[1] = IF wire = <<>> THEN getStatusString(responseStatus) ELSE wire[1]
           /\ wire'[2] = IF wire = <<>> THEN getHeaders ELSE wire[2]
           /\ wire # <<>> => SubSeq(wire', 4, Len(wire'))
                                = SubSeq(wire, 4, Len(wire)) \o getResponseBody
           /\ wire = <<>> => SubSeq(wire', 4, Len(wire')) = getResponseBody
<1>1. getResponseBody \in Seq(Content) /\ isFlushed \in BOOLEAN /\ isFlushed'
    BY BodyTyped DEF IInv, TypeOK, flushResponse
<1>2. wire \in Seq(Items(wire)) /\ (isFlushed => Len(wire) >= 3) /\ (~isFlushed => wire = <<>>)
    BY DEF IInv, WireInv
<1>3. CASE isFlushed
  <2>1. wire' = wire \o getResponseBody
    BY <1>3, Flushed
  <2>2. wire # <<>>
    BY <1>2, <1>3
  <2>3. /\ wire' \in Seq(Items(wire')) /\ Len(wire') >= 3
        /\ wire'[1] = wire[1] /\ wire'[2] = wire[2] /\ wire' # <<>>
        /\ SubSeq(wire', 4, Len(wire')) = SubSeq(wire, 4, Len(wire)) \o getResponseBody
    BY <2>1, <1>1, <1>2, <1>3, Continued
  <2> QED BY <2>2, <2>3, <1>1 DEF WireInv
<1>4. CASE ~isFlushed
  <2> DEFINE x == getStatusString(responseStatus)
  <2>1. wire' = <<x, getHeaders, "end of head">> \o getResponseBody
    BY <1>4, Flushed
  <2>2. wire = <<>>
    BY <1>2, <1>4
  <2> HIDE DEF x
  <2>3. LET w == <<x, getHeaders, "end of head">> \o getResponseBody IN
           /\ w \in Seq(Items(w)) /\ Len(w) >= 3
           /\ w[1] = x /\ w[2] = getHeaders
           /\ SubSeq(w, 4, Len(w)) = getResponseBody
    BY <1>1, AfterHead
  <2>4. /\ wire' \in Seq(Items(wire')) /\ Len(wire') >= 3
        /\ wire'[1] = x /\ wire'[2] = getHeaders
        /\ SubSeq(wire', 4, Len(wire')) = getResponseBody
    BY <2>1, <2>3
  <2>5. wire' # <<>>
    BY <2>4
  <2> QED BY <2>2, <2>4, <2>5, <1>1 DEF WireInv, x
<1> QED BY <1>1, <1>3, <1>4

\* The calls that change headers, cookies and status.
HeadCall ==
    \/ \E k \in Names : unsetHeader(k) \/ \E v \in Values : setHeader(k, v) \/ addHeader(k, v)
    \/ \E k \in CookieNames : unsetCookie(k) \/ \E c \in Cookies : setCookie(k, c)
    \/ \E c \in Cookies : setCookiePolicy(c)
    \/ \E s \in Statuses : setStatus(s)

LEMMA HeadKeeps ==
    ASSUME IInv, HeadCall
    PROVE  /\ IInv' /\ UNCHANGED <<body, output>>
           /\ calls' = calls + 1 /\ kind' = "prepare"
<1>1. /\ UNCHANGED <<body, output, file, reading>> /\ reading = None
      /\ calls < MaxCalls /\ calls' = calls + 1 /\ kind' = "prepare"
    BY DEF HeadCall, unsetHeader, setHeader, addHeader, unsetCookie, setCookie,
           setCookiePolicy, setStatus, Call, Begin
<1>2. TypeOK
    BY DEF IInv
<1>3. DOMAIN headers' \subseteq LowerNames
  <2>1. CASE \E k \in Names : unsetHeader(k) \/ \E v \in Values : setHeader(k, v) \/ addHeader(k, v)
    BY <2>1, <1>2, HeadersKeep DEF unsetHeader, setHeader, addHeader
  <2>2. CASE headers' = headers
    BY <2>2, <1>2 DEF TypeOK
  <2> QED BY <2>1, <2>2 DEF HeadCall, unsetCookie, setCookie, setCookiePolicy, setStatus
<1>4. DOMAIN cookies' \subseteq CookieNames
  <2>1. ASSUME NEW k \in CookieNames, NEW c \in Cookies, unsetCookie(k) \/ setCookie(k, c)
        PROVE  DOMAIN cookies' \subseteq CookieNames
    BY <2>1, <1>2 DEF unsetCookie, setCookie, WithValue, Without, TypeOK
  <2>2. ASSUME NEW k \in CookieNames, unsetCookie(k)
        PROVE  DOMAIN cookies' \subseteq CookieNames
    BY <2>2, <1>2 DEF unsetCookie, Without, TypeOK
  <2>3. CASE cookies' = cookies
    BY <2>3, <1>2 DEF TypeOK
  <2> QED BY <2>1, <2>2, <2>3 DEF HeadCall, unsetHeader, setHeader, addHeader,
                                  setCookiePolicy, setStatus
<1>5. TypeOK'
    BY <1>1, <1>2, <1>3, <1>4, Counted DEF TypeOK, body, output
<1> QED BY <1>1, <1>5, CallKeeps DEF IInv

LEMMA NextKeeps == IInv /\ [Next]_vars => IInv'
<1> SUFFICES ASSUME IInv, [Next]_vars PROVE IInv'
    OBVIOUS
<1>0. TypeOK /\ WireInv /\ FileInv /\ KindInv /\ \A S : <<>> \in Seq(S)
    BY DEF IInv
<1>1. CASE HeadCall
    BY <1>1, HeadKeeps
<1>2. ASSUME NEW s \in Contents, setResponseBody(s) PROVE IInv'
  <2>1. s \in Seq(Bytes \cup {NUL})
    BY ByteAssumption
  <2>2. TypeOK'
    BY <2>1, <1>0, <1>2, Counted DEF setResponseBody, Call, Begin, TypeOK, head, output
  <2> QED BY <2>2, <1>2, CallKeeps DEF setResponseBody, Call, Begin, IInv
<1>3. ASSUME NEW b \in Bytes, Write(b) PROVE IInv'
  <2>1. responseStream' \in Seq(Bytes)
    BY <1>0, <1>3 DEF Write, TypeOK
  <2>2. TypeOK'
    BY <2>1, <1>0, <1>3, Counted DEF Write, Call, Begin, TypeOK, head, output
  <2> QED BY <2>2, <1>3, CallKeeps DEF Write, Call, Begin, IInv
<1>4. ASSUME ReadBody PROVE IInv'
  <2>1. getResponseBody \in Seq(Bytes \cup {NUL})
    BY <1>0, BodyTyped DEF Content
  <2>2. TypeOK'
    BY <2>1, <1>0, <1>4, Counted DEF ReadBody, Call, Begin, TypeOK, head, output
  <2> QED BY <2>2, <1>4, CallKeeps DEF ReadBody, Call, Begin, IInv
<1>5. ASSUME SendNotModified PROVE IInv'
  <2>1. TypeOK'
    BY <1>0, <1>5, Counted DEF SendNotModified, Call, Begin, TypeOK, output
  <2> QED BY <2>1, <1>5, CallKeeps DEF SendNotModified, Call, Begin, IInv
<1>6. ASSUME NEW d \in BOOLEAN, NEW t \in BOOLEAN, SendFileHead(d, t) PROVE IInv'
  <2>1. DOMAIN headers' \subseteq LowerNames
    <3>1. DOMAIN FileHeaders(Len(file), d, t) \subseteq LowerNames
      BY DEF FileHeaders, LowerNames
    <3>2. DOMAIN headers' = DOMAIN FileHeaders(Len(file), d, t) \cup DOMAIN headers
      BY <1>6 DEF SendFileHead, WithValues
    <3> QED BY <3>1, <3>2, <1>0 DEF TypeOK
  <2>2. reading' \in Nat /\ reading' = Len(file)
    BY <1>0, <1>6, ByteAssumption DEF SendFileHead, FileInv
  <2>3. TypeOK'
    BY <2>1, <2>2, <1>0, <1>6, Counted DEF SendFileHead, Begin, TypeOK, body, output
  <2>4. WireInv' /\ FileInv' /\ KindInv'
    BY <2>2, <1>0, <1>6 DEF SendFileHead, Begin, WireInv, FileInv, KindInv, output
  <2> QED BY <2>3, <2>4 DEF IInv
<1>7. ASSUME SendFileBody PROVE IInv'
  <2>1. bodyString' \in Seq(Bytes \cup {NUL})
    BY <1>7, FileRead DEF Content
  <2>2. TypeOK'
    BY <2>1, <1>0, <1>7 DEF SendFileBody, TypeOK, head, output
  <2>3. WireInv' /\ FileInv' /\ KindInv'
    BY <1>0, <1>7 DEF SendFileBody, WireInv, FileInv, KindInv, output
  <2> QED BY <2>2, <2>3 DEF IInv
<1>8. ASSUME FileChanges PROVE IInv'
  <2>1. TypeOK'
    BY <1>0, <1>8 DEF FileChanges, TypeOK, body, head, output
  <2>2. WireInv' /\ FileInv' /\ KindInv'
    BY <1>0, <1>8 DEF FileChanges, WireInv, FileInv, KindInv, output
  <2> QED BY <2>1, <2>2 DEF IInv
<1>9. ASSUME flushResponse PROVE IInv'
  <2>1. TypeOK'
    BY <1>0, <1>9, Counted DEF flushResponse, Call, Begin, TypeOK, head
  <2>2. FileInv' /\ KindInv'
    BY <1>0, <1>9 DEF flushResponse, Call, Begin, FileInv, KindInv
  <2> QED BY <2>1, <2>2, <1>9, FlushKeeps DEF IInv
<1>10. CASE UNCHANGED vars
  <2>1. TypeOK'
    BY <1>0, <1>10 DEF vars, TypeOK, body, head, output
  <2> QED BY <2>1, <1>10, CallKeeps DEF vars, IInv
<1> QED BY <1>1, <1>2, <1>3, <1>4, <1>5, <1>6, <1>7, <1>8, <1>9, <1>10 DEF Next, HeadCall

-----------------------------------------------------------------------------
(* Theorems *)

LEMMA Inductive == Spec => []IInv
<1> QED BY InitKeeps, NextKeeps, PTL DEF Spec

\* Whatever setHeader, addHeader, unsetHeader and sendFile do, the names of
\* headers are in lower case, and body and stream hold bytes.
THEOREM TypeCorrect == Spec => []TypeOK
<1>1. IInv => TypeOK
    BY DEF IInv
<1> QED BY Inductive, <1>1, PTL

-----------------------------------------------------------------------------
(* Response implements Output *)

LEMMA InitImplements == Init => Out!Init
<1> SUFFICES ASSUME Init PROVE Out!Init
    OBVIOUS
<1>1. bodyString = <<>> /\ responseStream = <<>> /\ wire = <<>>
    BY DEF Init
<1>2. getResponseBody = <<>>
    BY <1>1 DEF getResponseBody
<1>3. SubSeq(wire, 4, Len(wire)) = <<>>
    BY <1>1
<1> QED BY <1>1, <1>2, <1>3 DEF Out!Init

\* A call is one of the kind it is counted as.
LEMMA CallCounts ==
    ASSUME TypeOK, NEW k, calls' = calls + 1, kind' = k
    PROVE  <<calls', kind'>> # <<calls, kind>> /\ <<calls', kind'>>[2] = k
<1>1. calls' # calls
    BY DEF TypeOK
<1> QED BY <1>1

\* A call that leaves body and wire as they are prepares the head.
LEMMA PrepareImplements ==
    ASSUME TypeOK, calls' = calls + 1, kind' = "prepare",
           getResponseBody' = getResponseBody, wire' = wire
    PROVE  Out!Next
<1>1. Out!Called("prepare")
    BY CallCounts DEF Out!Called
<1> QED BY <1>1 DEF Out!Next, Out!Prepare

\* A call that replaces the whole body.
LEMMA ReplaceImplements ==
    ASSUME TypeOK, calls' = calls + 1, kind' = "replace",
           NEW S, NEW s \in Seq(S), wire' = wire,
           bodyString' = s, responseStream' = <<>>,
           s \in Contents \cup {<<>>}
    PROVE  Out!Next
<1>1. getResponseBody' = s
  <2>1. s \o <<>> = s
    OBVIOUS
  <2> QED BY <2>1 DEF getResponseBody
<1>2. Out!Called("replace")
    BY CallCounts DEF Out!Called
<1> QED BY <1>1, <1>2 DEF Out!Next, Out!Replace

\* What stays as it is for the client when the wire and the head do.
LEMMA DraftKept ==
    ASSUME UNCHANGED head
    PROVE  getHeaders' = getHeaders
           /\ getStatusString(responseStatus)' = getStatusString(responseStatus)
    BY DEF head, getHeaders, SetCookie, getStatusString

LEMMA NextImplements ==
    ASSUME IInv, [Next]_vars
    PROVE  [Out!Next]_(Out!vars)
<1>0. TypeOK /\ WireInv /\ FileInv /\ KindInv /\ \A S : <<>> \in Seq(S)
    BY DEF IInv
<1>1. CASE HeadCall
    BY <1>0, <1>1, HeadKeeps, PrepareImplements DEF getResponseBody, body, output
<1>2. ASSUME NEW s \in Contents, setResponseBody(s) PROVE Out!Next
  <2>1. s \in Seq(Bytes)
    BY ByteAssumption
  <2> QED BY <2>1, <1>0, <1>2, ReplaceImplements
          DEF setResponseBody, Call, Begin, output
<1>3. ASSUME NEW b \in Bytes, Write(b) PROVE Out!Next
  <2>1. bodyString \in Seq(Content) /\ responseStream \in Seq(Content) /\ b \in Content
    BY <1>0 DEF TypeOK, Content
  <2>2. bodyString' = bodyString /\ responseStream' = Append(responseStream, b)
    BY <1>3 DEF Write
  <2>3. getResponseBody' = Append(getResponseBody, b)
    BY <2>1, <2>2, Joined DEF getResponseBody
  <2>4. wire' = wire
    BY <1>3 DEF Write, output
  <2>5. Out!Called("write")
    BY <1>0, <1>3, CallCounts DEF Write, Call, Begin, Out!Called
  <2>6. Out!Write(b)
    BY <1>3, <2>3, <2>4, <2>5, DraftKept DEF Write, Out!Write
  <2> QED BY <2>6 DEF Out!Next
<1>4. ASSUME ReadBody PROVE Out!Next
  <2>1. getResponseBody \in Seq(Content)
    BY <1>0, BodyTyped
  <2>2. bodyString' = getResponseBody /\ responseStream' = <<>> /\ wire' = wire
    BY <1>4 DEF ReadBody, output
  <2>3. getResponseBody \o <<>> = getResponseBody
    BY <2>1
  <2>4. getResponseBody' = bodyString' \o responseStream'
    BY DEF getResponseBody
  <2> QED BY <1>0, <1>4, <2>2, <2>3, <2>4, PrepareImplements DEF ReadBody, Call, Begin
<1>5. ASSUME SendNotModified PROVE Out!Next
    BY <1>0, <1>5, ReplaceImplements DEF SendNotModified, Call, Begin, output
<1>6. ASSUME NEW d \in BOOLEAN, NEW t \in BOOLEAN, SendFileHead(d, t) PROVE Out!Next
    BY <1>0, <1>6, PrepareImplements
       DEF SendFileHead, Begin, getResponseBody, body, output
<1>7. ASSUME SendFileBody PROVE [Out!Next]_(Out!vars)
  <2>1. CASE kind = "file"
    BY <1>0, <1>7, <2>1 DEF IInv, SendFileBody, KindInv
  <2>2. CASE kind # "file"
    <3>1. Out!Called("file")
      BY <1>7, <2>2 DEF SendFileBody, Out!Called
    <3>2. wire' = wire
      BY <1>7 DEF SendFileBody, output
    <3>3. Out!File
      BY <1>7, <3>1, <3>2, DraftKept DEF SendFileBody, Out!File
    <3> QED BY <3>3 DEF Out!Next
  <2> QED BY <2>1, <2>2
<1>8. ASSUME FileChanges PROVE UNCHANGED Out!vars
  <2>1. UNCHANGED <<calls, kind, wire>> /\ getResponseBody' = getResponseBody
    BY <1>8 DEF FileChanges, getResponseBody, body, output
  <2> QED BY <1>8, <2>1, DraftKept DEF FileChanges, Out!vars
<1>9. ASSUME flushResponse PROVE Out!Next
  <2> DEFINE x == getStatusString(responseStatus)
             rest == SubSeq(wire, 4, Len(wire))
             received == IF wire = <<>> THEN <<>> ELSE <<wire[1], wire[2]>>
  <2>1. getResponseBody \in Seq(Content)
    BY <1>0, BodyTyped
  <2>2. getResponseBody' = <<>>
    BY <1>9 DEF flushResponse, getResponseBody
  <2>3. getHeaders' = getHeaders /\ x' = x
    BY <1>9, DraftKept DEF flushResponse
  <2>4. received' = IF received = <<>> THEN <<x, getHeaders>> ELSE received
    <3>1. received' = <<wire'[1], wire'[2]>>
      BY <1>9, FlushKeeps
    <3>2. CASE wire = <<>>
      BY <3>1, <3>2, <1>9, FlushKeeps
    <3>3. CASE wire # <<>>
      BY <3>1, <3>3, <1>9, FlushKeeps
    <3> QED BY <3>2, <3>3
  <2>5. rest' = rest \o getResponseBody
    <3>1. CASE wire = <<>>
      <4>1. rest = <<>> /\ rest' = getResponseBody
        BY <3>1, <1>9, FlushKeeps
      <4>2. <<>> \o getResponseBody = getResponseBody
        BY <2>1
      <4> QED BY <4>1, <4>2
    <3>2. CASE wire # <<>>
      BY <3>2, <1>9, FlushKeeps
    <3> QED BY <3>1, <3>2
  <2>6. Out!Called("flush")
    BY <1>0, <1>9, CallCounts DEF flushResponse, Call, Begin, Out!Called
  <2>7. Out!Flush
    BY <2>2, <2>3, <2>4, <2>5, <2>6 DEF Out!Flush
  <2> QED BY <2>7 DEF Out!Next
<1>10. ASSUME UNCHANGED vars PROVE UNCHANGED Out!vars
  <2>1. UNCHANGED <<calls, kind, wire>> /\ getResponseBody' = getResponseBody
    BY <1>10 DEF vars, getResponseBody, body, output
  <2> QED BY <1>10, <2>1, DraftKept DEF vars, Out!vars
<1> QED BY <1>1, <1>2, <1>3, <1>4, <1>5, <1>6, <1>7, <1>8, <1>9, <1>10 DEF Next, HeadCall

\* Every sequence of calls on a Connection, over either handler, is one of
\* Output: the head once, as it was at the first flush, and the body as it was
\* written, each call with its own effect.
THEOREM Implements == Spec => ImplementsOutput
<1>1. IInv /\ [Next]_vars => [Out!Next]_(Out!vars)
    BY NextImplements
<1> QED BY InitImplements, Inductive, <1>1, PTL DEF Spec, ImplementsOutput, Out!Spec
=============================================================================
