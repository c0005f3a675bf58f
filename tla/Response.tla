------------------------------ MODULE Response -----------------------------
(***************************************************************************)
(* The response of a Connection (src/src/connection/Connection.cpp): body, *)
(* stream, status, headers and cookies that the app sets, sendFile, and    *)
(* the flush callbacks with which the HTTP and the FastCGI request handler *)
(* (src/src/RequestHandler/impl/) put them on the wire.                    *)
(*                                                                         *)
(* A body is a sequence of bytes.  A file may be replaced by others while  *)
(* sendFile reads it, so that is two steps: one finds out the length, one  *)
(* reads.                                                                  *)
(***************************************************************************)
EXTENDS Integers, Sequences, FiniteSets

CONSTANTS
    Bytes, NUL,    \* what the app writes; the byte '\0'
    Names,         \* header names as the app may write them
    Lower,         \* their lower-case forms
    Values,        \* header values
    Statuses,
    CookieNames,
    Cookies,       \* cookies an app may set, and cookie policies
    DefaultCookie, \* a Cookie as it is constructed
    Files,         \* contents a file may have
    Contents,      \* bodies an app may set
    MaxCalls,      \* bound on the number of calls
    None           \* an optional without a value, no call in progress

ASSUME ByteAssumption ==
    /\ NUL \notin Bytes /\ Files \subseteq Seq(Bytes) /\ Contents \subseteq Seq(Bytes)
    /\ Lower \in [Names -> Names] /\ MaxCalls \in Nat

VARIABLES
    transport,     \* which request handler serves the connection
    bodyString, responseStream,
    responseStatus, headers, cookies, cookiePolicy,
    isFlushed,
    wire,          \* what has gone to the client: the head, then bytes
    file,          \* the contents of the file
    reading,       \* the length sendFile has seen, while it runs
    calls, kind    \* how many calls there have been, and what the last one was

body == <<bodyString, responseStream>>
head == <<responseStatus, headers, cookies, cookiePolicy>>
output == <<isFlushed, wire>>
vars == <<transport, body, head, output, file, reading, calls, kind>>

-----------------------------------------------------------------------------
(* The head *)

\* getHeaders: an option of the policy counts where the cookie has none.
OrElse(a, b) == IF a # None THEN a ELSE b

SetCookie(c, p) ==
    [content |-> c.content,
     options |-> [o \in DOMAIN c.options |-> OrElse(c.options[o], p.options[o])],
     flags |-> c.flags \cup p.flags,
     sameSite |-> IF c.sameSite # "off" THEN c.sameSite ELSE p.sameSite]

\* An unordered_multimap keeps values with the same key in no certain order.
Unordered(s) == [v \in {s[i] : i \in 1..Len(s)} |-> Cardinality({i \in 1..Len(s) : s[i] = v})]

getHeaders ==
    [plain |-> [k \in DOMAIN headers |-> Unordered(headers[k])],
     setCookie |-> [k \in DOMAIN cookies |-> SetCookie(cookies[k], cookiePolicy)]]

-----------------------------------------------------------------------------
(* Calls of the app *)

NoValues == [k \in {} |-> <<>>]

Init ==
    /\ transport \in {"http", "fastcgi"}
    /\ bodyString = <<>> /\ responseStream = <<>>
    /\ responseStatus = 200
    /\ headers = [k \in {"content-type"} |-> <<"default">>]
    /\ cookies = NoValues /\ cookiePolicy = DefaultCookie
    /\ isFlushed = FALSE /\ wire = <<>>
    /\ file \in Files
    /\ reading = None /\ calls = 0 /\ kind = "none"

\* A call of kind k; none begins while sendFile is reading.
Begin(k) == reading = None /\ calls < MaxCalls /\ calls' = calls + 1 /\ kind' = k
Call(k) == Begin(k) /\ UNCHANGED reading

setResponseBody(content) ==
    /\ Call("replace")
    /\ bodyString' = content /\ responseStream' = <<>>
    /\ UNCHANGED <<transport, head, output, file>>

\* The app writes to responseStream().
Write(b) ==
    /\ Call("write")
    /\ responseStream' = Append(responseStream, b)
    /\ UNCHANGED <<transport, bodyString, head, output, file>>

\* mergeStream, and the body it returns.
getResponseBody == bodyString \o responseStream

ReadBody ==
    /\ Call("prepare")
    /\ bodyString' = getResponseBody /\ responseStream' = <<>>
    /\ UNCHANGED <<transport, head, output, file>>

WithValue(h, k, v) == [x \in DOMAIN h \cup {k} |-> IF x = k THEN v ELSE h[x]]
WithValues(h, f) == [x \in DOMAIN h \cup DOMAIN f |-> IF x \in DOMAIN f THEN f[x] ELSE h[x]]
Without(h, k) == [x \in DOMAIN h \ {k} |-> h[x]]

setHeader(k, v) ==
    /\ Call("prepare")
    /\ headers' = WithValue(headers, Lower[k], <<v>>)
    /\ UNCHANGED <<transport, body, responseStatus, cookies, cookiePolicy, output, file>>

\* Mutant: a header name keeps its case.
addHeader_KeepCase(k, v) ==
    /\ Call("prepare")
    /\ headers' = WithValue(headers, k,
                      Append(IF k \in DOMAIN headers THEN headers[k] ELSE <<>>, v))
    /\ UNCHANGED <<transport, body, responseStatus, cookies, cookiePolicy, output, file>>

addHeader(k, v) ==
    /\ Call("prepare")
    /\ LET l == Lower[k] IN
       headers' = WithValue(headers, l,
                      Append(IF l \in DOMAIN headers THEN headers[l] ELSE <<>>, v))
    /\ UNCHANGED <<transport, body, responseStatus, cookies, cookiePolicy, output, file>>

unsetHeader(k) ==
    /\ Call("prepare")
    /\ headers' = Without(headers, Lower[k])
    /\ UNCHANGED <<transport, body, responseStatus, cookies, cookiePolicy, output, file>>

\* Names and contents the regular expressions do not match make it throw.
setCookie(k, c) ==
    /\ Call("prepare")
    /\ IF c.valid THEN cookies' = WithValue(cookies, k, c) ELSE UNCHANGED cookies
    /\ UNCHANGED <<transport, body, responseStatus, headers, cookiePolicy, output, file>>

unsetCookie(k) ==
    /\ Call("prepare")
    /\ cookies' = Without(cookies, k)
    /\ UNCHANGED <<transport, body, responseStatus, headers, cookiePolicy, output, file>>

setCookiePolicy(p) ==
    /\ Call("prepare")
    /\ cookiePolicy' = p
    /\ UNCHANGED <<transport, body, responseStatus, headers, cookies, output, file>>

setStatus(s) ==
    /\ Call("prepare")
    /\ responseStatus' = s
    /\ UNCHANGED <<transport, body, headers, cookies, cookiePolicy, output, file>>

\* sendFile with checkIfModifiedSince, for a file that is not newer.
SendNotModified ==
    /\ Call("replace")
    /\ responseStatus' = 304
    /\ bodyString' = <<>> /\ responseStream' = <<>>
    /\ UNCHANGED <<transport, headers, cookies, cookiePolicy, output, file>>

\* sendFile up to the headers; the disposition only if the caller asks for
\* one, the date only if the file has one.
FileHeaders(n, disposition, date) ==
    [k \in {"content-type", "content-length"}
            \cup (IF disposition THEN {"content-disposition"} ELSE {})
            \cup (IF date THEN {"last-modified"} ELSE {}) |->
        IF k = "content-length" THEN <<n>> ELSE <<"file">>]

SendFileHead(disposition, date) ==
    /\ Begin("prepare")
    /\ reading' = Len(file)
    /\ headers' = WithValues(headers, FileHeaders(Len(file), disposition, date))
    /\ UNCHANGED <<transport, body, responseStatus, cookies, cookiePolicy, output, file>>

\* The rest of sendFile: bodyString gets one byte more than the length.
\* Where the file is shorter by now, what was in bodyString stays.
SendFileBody ==
    /\ reading # None /\ reading' = None /\ kind' = "file"
    /\ bodyString' = [i \in 1 .. reading + 1 |->
                         IF i = reading + 1 THEN NUL
                         ELSE IF i <= Len(file) THEN file[i]
                         ELSE IF i \in DOMAIN bodyString THEN bodyString[i] ELSE NUL]
    /\ responseStream' = <<>>
    /\ UNCHANGED <<transport, head, output, file, calls>>

\* Somebody replaces the file.
FileChanges ==
    /\ file' \in Files
    /\ UNCHANGED <<transport, body, head, output, reading, calls, kind>>

-----------------------------------------------------------------------------
(* Flushing *)

\* httpStatusCodes: the codes that come with a phrase.
KnownStatuses ==
    200 .. 208 \cup {226} \cup 300 .. 305 \cup {307, 308} \cup 400 .. 418
        \cup 421 .. 424 \cup {426, 428, 429, 431, 451} \cup 500 .. 508 \cup {510, 511}

getStatusString(s) == [code |-> s, phrase |-> s \in KnownStatuses]

getFullHttp(c) ==
    IF c.flushedBefore THEN c.body ELSE <<c.headers, "end of head">> \o c.body

\* The callback of the FastCGI handler dumps text.
FastcgiFlush(c) ==
    (IF c.flushedBefore THEN <<>> ELSE <<getStatusString(c.status)>>) \o getFullHttp(c)

\* The callback of the HTTP handler gives status and headers to the library
\* before the first write, which then sends them.
HttpFlush(c) ==
    (IF c.flushedBefore THEN <<>>
     ELSE <<getStatusString(c.status), c.headers, "end of head">>) \o c.body

\* Mutant: what is still in the stream is not merged, and lost.
flushResponse_NoMerge ==
    /\ Call("flush")
    /\ LET c == [status |-> responseStatus, headers |-> getHeaders,
                 body |-> bodyString, flushedBefore |-> isFlushed]
       IN wire' = wire \o IF transport = "http" THEN HttpFlush(c) ELSE FastcgiFlush(c)
    /\ isFlushed' = TRUE
    /\ bodyString' = <<>> /\ responseStream' = <<>>
    /\ UNCHANGED <<transport, head, file>>

flushResponse ==
    /\ Call("flush")
    /\ LET c == [status |-> responseStatus, headers |-> getHeaders,
                 body |-> getResponseBody, flushedBefore |-> isFlushed]
       IN wire' = wire \o IF transport = "http" THEN HttpFlush(c) ELSE FastcgiFlush(c)
    /\ isFlushed' = TRUE
    /\ bodyString' = <<>> /\ responseStream' = <<>>
    /\ UNCHANGED <<transport, head, file>>

Next ==
    \/ \E s \in Contents : setResponseBody(s)
    \/ \E b \in Bytes : Write(b)
    \/ ReadBody
    \/ \E k \in Names : unsetHeader(k) \/ \E v \in Values : setHeader(k, v) \/ addHeader(k, v)
    \/ \E k \in CookieNames : unsetCookie(k) \/ \E c \in Cookies : setCookie(k, c)
    \/ \E c \in Cookies : setCookiePolicy(c)
    \/ \E s \in Statuses : setStatus(s)
    \/ SendNotModified
    \/ \E d, t \in BOOLEAN : SendFileHead(d, t)
    \/ SendFileBody \/ FileChanges \/ flushResponse

Spec == Init /\ [][Next]_vars

-----------------------------------------------------------------------------
(* Properties *)

LowerNames == {Lower[k] : k \in Names}
    \cup {"content-type", "content-length", "content-disposition", "last-modified"}

\* Header names are kept in lower case, whatever calls set, add and remove
\* them, so that a header is never there twice under two spellings.
TypeOK ==
    /\ bodyString \in Seq(Bytes \cup {NUL}) /\ responseStream \in Seq(Bytes)
    /\ DOMAIN headers \subseteq LowerNames
    /\ DOMAIN cookies \subseteq CookieNames
    /\ isFlushed \in BOOLEAN /\ calls \in 0 .. MaxCalls
    /\ kind \in {"none", "prepare", "write", "replace", "file", "flush"}
    /\ reading = None \/ reading \in Nat

Out == INSTANCE Output WITH
    Parts   <- Bytes,
    Bodies  <- Contents \cup {<<>>},
    NoHead  <- <<>>,
    call    <- <<calls, kind>>,
    draft   <- <<getStatusString(responseStatus), getHeaders>>,
    pending <- getResponseBody,
    head    <- IF wire = <<>> THEN <<>> ELSE <<wire[1], wire[2]>>,
    sent    <- SubSeq(wire, 4, Len(wire))

\* Response implements Output for both transports, call by call: status,
\* headers and cookies reach the client once and as they are at the first
\* flush, and whatever is written to the body or to the stream, or replaces
\* both, is sent by the next flush, once and in order, with nothing else in
\* between.  Which body sendFile leaves is not part of the promise: it should
\* be "the contents of the file" (Connection.h:169), but the code makes it one
\* byte longer, and mixes it with the earlier body if the file has become
\* shorter since its length was read.
ImplementsOutput == Out!Spec
=============================================================================
