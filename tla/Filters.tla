------------------------------- MODULE Filters ------------------------------
(***************************************************************************)
(* Access filters: AccessFilter::matches (src/src/filter/AccessFilter/     *)
(* AccessFilter.cpp) and Connection::applyFilters with the sendFile it     *)
(* calls (src/src/connection/Connection.cpp), for requests that are served *)
(* concurrently and may share a session.                                   *)
(*                                                                         *)
(* The session store appears as what Session promises: a start() takes     *)
(* over the session the request's cookie names if it is live, and makes a  *)
(* new one otherwise; sessions may expire at any time.  The three loops of *)
(* applyFilters advance filter by filter.                                  *)
(***************************************************************************)
EXTENDS Naturals, FiniteSets, Sequences, SequencesExt

CONSTANTS
    Requests,     \* requests being served at the same time
    Clients,      \* browsers, each with a cookie for one session
    Sessions,     \* SessionData objects with their IDs
    Users,        \* user names that may be sent with a password
    Paths,        \* request paths: sequences of names, <<>> for "/"
    Extension,    \* the file extension of each name
    Files,        \* modification time of each file that exists (0: unknown)
    Headers,      \* authorization headers that may be sent
    Since,        \* values of if-modified-since (0: absent or not a number)
    Lists,        \* filter lists that the apps' init functions set up
    MaxAuth,      \* bound on the number of auth filters in a list
    NoSession, NoUser, NoRequest

ASSUME NullAssumption == NoSession \notin Sessions /\ NoUser \notin Users

(***************************************************************************)
(* An authorization header after splitString(..., ' ', true): how many     *)
(* parts it has (0: blanks only), whether the first is "Basic", and the    *)
(* user in the decoded second part if that has the form user:password.     *)
(***************************************************************************)
Header == [sent : BOOLEAN, parts : 0 .. 3, basic : BOOLEAN,
           user : Users \cup {NoUser}]

ASSUME HeaderAssumption == Headers \subseteq Header

ASSUME ListAssumption ==
    /\ MaxAuth \in Nat
    /\ Lists # {}
    /\ \A l \in Lists : Len(l.auth) <= MaxAuth
    /\ \A l \in Lists, k \in {"block", "auth", "forward"} :
          Len(l[k]) \in Nat /\ DOMAIN l[k] = 1 .. Len(l[k])

VARIABLES
    list,         \* the list in force
    req,          \* the request being served, with the list it is checked against
    pc,           \* the loop of applyFilters, or the step, it is in
    idx,          \* the filter that loop is at
    session,      \* the session it has started
    login,        \* the user whose credentials its auth filter accepted
    result,       \* how it is answered
    live,         \* sessions in the store
    authVar,      \* the variables _nawa_authfilter<i> of each session
    jar,          \* the session each client's cookie names
    accepted,     \* filters that accepted somebody's credentials, by session
    crashed       \* the process has read an element that does not exist

progress == <<req, session, login>>
request == <<progress, pc, idx, result>>
store == <<live, authVar, accepted>>
vars == <<list, request, store, jar, crashed>>

-----------------------------------------------------------------------------
(* AccessFilter::matches *)

\* One of the paths is a prefix of the request's.
PathCondition(f, p) ==
    f.pathFilter # {} =>
        (\E q \in f.pathFilter : IsPrefix(q, p)) # f.invertPathFilter

ExtensionCondition(f, p) ==
    f.extensionFilter # {} =>
        (Extension[Last(p)] \in f.extensionFilter) # f.invertExtensionFilter

\* The regular expression is the set of paths it matches.
RegexCondition(f, p) == f.regexFilterEnabled => p \in f.regexFilter

matches(f, p) ==
    PathCondition(f, p) /\ ExtensionCondition(f, p) /\ RegexCondition(f, p)

\* requestPath.back() is evaluated for an empty path.
UndefinedExtension(f, p) ==
    PathCondition(f, p) /\ f.extensionFilter # {} /\ p = <<>>

Applies(f, p) == matches(f, p) # f.invert

\* The file a forward filter maps a path to.
Target(f, p) ==
    IF f.byPath THEN f.basePath \o p ELSE Append(f.basePath, Last(p))

\* Mutant: the exception of sendFile is not caught.
sendFile_Uncaught(path, since) ==
    IF path \notin DOMAIN Files THEN "exception"
    ELSE IF since >= Files[path] THEN "notmodified" ELSE "file"

\* sendFile with checkIfModifiedSince; applyFilters answers 404 if it throws.
sendFile(path, since) ==
    IF path \notin DOMAIN Files THEN "notfound"
    ELSE IF since >= Files[path] THEN "notmodified" ELSE "file"

-----------------------------------------------------------------------------
RequestData == [client : Clients, cookie : Sessions \cup {NoSession},
                path : Paths, header : Headers, since : Since, list : Lists]

TypeOK ==
    /\ list \in Lists
    /\ req \in [Requests -> RequestData \cup {NoRequest}]
    /\ pc \in [Requests -> {"idle", "block", "auth", "check", "login",
                            "remember", "forward", "app", "flush"}]
    /\ idx \in [Requests -> Nat]
    /\ session \in [Requests -> Sessions \cup {NoSession}]
    /\ login \in [Requests -> Users \cup {NoUser}]
    /\ result \in [Requests -> {"none", "blocked", "unauthorized", "forbidden",
                                "file", "notmodified", "notfound", "app", "threw"}]
    /\ live \subseteq Sessions
    /\ authVar \in [Sessions -> [1 .. MaxAuth -> Users \cup {NoUser}]]
    /\ jar \in [Clients -> Sessions \cup {NoSession}]
    /\ crashed \in BOOLEAN

NoVars == [k \in 1 .. MaxAuth |-> NoUser]

Init ==
    /\ list \in Lists
    /\ req = [r \in Requests |-> NoRequest]
    /\ pc = [r \in Requests |-> "idle"]
    /\ idx = [r \in Requests |-> 1]
    /\ session = [r \in Requests |-> NoSession]
    /\ login = [r \in Requests |-> NoUser]
    /\ result = [r \in Requests |-> "none"]
    /\ live = {}
    /\ authVar = [s \in Sessions |-> NoVars]
    /\ jar = [c \in Clients |-> NoSession]
    /\ accepted = [s \in Sessions |-> {}]
    /\ crashed = FALSE

-----------------------------------------------------------------------------
At(r, l) == ~crashed /\ pc[r] = l

Goto(r, l, i) ==
    pc' = [pc EXCEPT ![r] = l] /\ idx' = [idx EXCEPT ![r] = i]

Reply(r, answer) ==
    /\ result' = [result EXCEPT ![r] = answer]
    /\ pc' = [pc EXCEPT ![r] = "flush"]
    /\ UNCHANGED idx

\* Sessions nothing refers to: a generated ID is none that is known.
Fresh ==
    {s \in Sessions : /\ s \notin live
                      /\ \A c \in Clients : jar[c] # s
                      /\ \A r \in Requests : session[r] # s
                      /\ \A r \in Requests : req[r] # NoRequest => req[r].cookie # s}

\* Bound of the model: a request arrives only while sessions are left.
RoomForSession ==
    Cardinality({r \in Requests : pc[r] # "idle" /\ session[r] = NoSession})
        < Cardinality(Fresh)

\* Session::start(Cookie) returns at once when a session is established.
StartSession(r) ==
    \/ session[r] # NoSession /\ UNCHANGED <<session, store>>
    \/ /\ session[r] = NoSession /\ req[r].cookie \in live
       /\ session' = [session EXCEPT ![r] = req[r].cookie]
       /\ UNCHANGED store
    \/ /\ session[r] = NoSession /\ req[r].cookie \notin live
       /\ \E s \in Fresh :
            /\ session' = [session EXCEPT ![r] = s]
            /\ live' = live \cup {s}
            /\ authVar' = [authVar EXCEPT ![s] = NoVars]
            /\ accepted' = [accepted EXCEPT ![s] = {}]

\* A request arrives and handleRequest takes the list in force.
Arrive(r, c, p, h, since) ==
    /\ At(r, "idle")
    /\ RoomForSession
    /\ req' = [req EXCEPT ![r] = [client |-> c, cookie |-> jar[c], path |-> p,
                                  header |-> h, since |-> since,
                                  list |-> list]]
    /\ Goto(r, IF list.filtersEnabled THEN "block" ELSE "app", 1)
    /\ UNCHANGED <<list, session, login, result, store, jar, crashed>>

-----------------------------------------------------------------------------
(* Connection::applyFilters.  The loop at l runs over req[r].list[l]. *)

Loops == {"block", "auth", "forward"}
InLoop(r) == pc[r] \in Loops /\ idx[r] <= Len(req[r].list[pc[r]]) /\ ~crashed
Current(r) == req[r].list[pc[r]][idx[r]]

\* The last element of an empty path is read: by matches, or for the file
\* name of a forward filter.
Undefined(r) ==
    /\ req[r].path = <<>>
    /\ ~UndefinedExtension(Current(r), <<>>) =>
          pc[r] = "forward" /\ Applies(Current(r), <<>>) /\ ~Current(r).byPath

\* A filter is reached that applies to the request.
Hit(r, l) ==
    At(r, l) /\ InLoop(r) /\ ~Undefined(r) /\ Applies(Current(r), req[r].path)

UndefinedRead(r) ==
    /\ InLoop(r) /\ Undefined(r)
    /\ crashed' = TRUE
    /\ UNCHANGED <<list, request, store, jar>>

NextFilter(r) ==
    /\ InLoop(r) /\ ~Undefined(r) /\ ~Applies(Current(r), req[r].path)
    /\ Goto(r, pc[r], idx[r] + 1)
    /\ UNCHANGED <<list, progress, result, store, jar, crashed>>

After(l) == CASE l = "block" -> "auth" [] l = "auth" -> "forward"
              [] l = "forward" -> "app"

EndLoop(r) ==
    /\ ~crashed /\ pc[r] \in Loops /\ idx[r] > Len(req[r].list[pc[r]])
    /\ Goto(r, After(pc[r]), 1)
    /\ UNCHANGED <<list, progress, result, store, jar, crashed>>

\* Mutant: the response is set, but the loop goes on.
Block_NoReturn(r) ==
    /\ Hit(r, "block")
    /\ result' = [result EXCEPT ![r] = "blocked"]
    /\ Goto(r, "block", idx[r] + 1)
    /\ UNCHANGED <<list, progress, store, jar, crashed>>

Block(r) ==
    /\ Hit(r, "block")
    /\ Reply(r, "blocked")
    /\ UNCHANGED <<list, progress, store, jar, crashed>>

AuthStart(r) ==
    /\ Hit(r, "auth")
    /\ \/ /\ Current(r).useSessions
          /\ StartSession(r)
          /\ Goto(r, "check", idx[r])
       \/ /\ ~Current(r).useSessions
          /\ Goto(r, "login", idx[r])
          /\ UNCHANGED <<session, store>>
    /\ UNCHANGED <<list, req, login, result, jar, crashed>>

\* Mutant: any auth variable of the session will do.
Remembered_Any(r) == \E k \in 1 .. MaxAuth : authVar[session[r]][k] # NoUser

\* isSet("_nawa_authfilter<i>")
Remembered(r) == authVar[session[r]][idx[r]] # NoUser

AuthCheck(r) ==
    /\ At(r, "check")
    /\ \/ Remembered(r) /\ Goto(r, "forward", 1)
       \/ ~Remembered(r) /\ Goto(r, "login", idx[r])
    /\ UNCHANGED <<list, progress, result, store, jar, crashed>>

AuthFilter(r) == req[r].list.auth[idx[r]]

\* The test of the split header; its at(0) and at(1) throw out_of_range.
Throws(h) == h.sent /\ (h.parts = 0 \/ (h.parts = 1 /\ h.basic))
Usable(h) == h.sent /\ (h.parts = 2 \/ (h.parts = 3 /\ h.basic))

AuthRequest(r) ==
    /\ At(r, "login")
    /\ ~req[r].header.sent
    /\ Reply(r, "unauthorized")
    /\ UNCHANGED <<list, progress, store, jar, crashed>>

\* The exception leaves applyFilters: nothing is flushed.
AuthThrow(r) ==
    /\ At(r, "login")
    /\ Throws(req[r].header)
    /\ Reply(r, "threw")
    /\ UNCHANGED <<list, progress, store, jar, crashed>>

\* Mutant: the user name is remembered before it is checked.
Accept_Early(r) ==
    Usable(req[r].header) /\ req[r].header.user # NoUser

\* A filter without an auth function accepts nobody.
Accept(r) ==
    Usable(req[r].header) /\ req[r].header.user \in AuthFilter(r).accepts

\* The filter's auth function is called, and accepts.
AuthCall(r) ==
    /\ At(r, "login")
    /\ ~Throws(req[r].header) /\ Accept(r)
    /\ login' = [login EXCEPT ![r] = req[r].header.user]
    /\ Goto(r, "remember", idx[r])
    /\ UNCHANGED <<list, req, session, result, store, jar, crashed>>

\* With useSessions the user's name is then set in the session.
AuthAccept(r) ==
    LET f == AuthFilter(r)
        u == login[r]
        s == session[r]
    IN /\ At(r, "remember")
       /\ IF f.useSessions
          THEN /\ authVar' = [authVar EXCEPT ![s][idx[r]] = u]
               /\ accepted' = [accepted EXCEPT ![s] = @ \cup {<<f, u>>}]
          ELSE UNCHANGED <<authVar, accepted>>
       /\ Goto(r, "forward", 1)
       /\ UNCHANGED <<list, progress, result, live, jar, crashed>>

AuthDeny(r) ==
    /\ At(r, "login")
    /\ req[r].header.sent /\ ~Throws(req[r].header) /\ ~Accept(r)
    /\ Reply(r, "forbidden")
    /\ UNCHANGED <<list, progress, store, jar, crashed>>

Forward(r) ==
    /\ Hit(r, "forward")
    /\ Reply(r, sendFile(Target(Current(r), req[r].path), req[r].since))
    /\ UNCHANGED <<list, progress, store, jar, crashed>>

-----------------------------------------------------------------------------
\* The app's handleRequest; it may start a session, log a user out by
\* removing a filter's variable, or invalidate the session.
RunApp(r) ==
    /\ At(r, "app")
    /\ Reply(r, "app")
    /\ \/ UNCHANGED <<session, store>>
       \/ StartSession(r)
       \/ /\ session[r] # NoSession
          /\ \E k \in 1 .. MaxAuth :
               authVar' = [authVar EXCEPT ![session[r]][k] = NoUser]
          /\ UNCHANGED <<session, live, accepted>>
       \/ /\ session[r] # NoSession
          /\ live' = live \ {session[r]}
          /\ session' = [session EXCEPT ![r] = NoSession]
          /\ UNCHANGED <<authVar, accepted>>
    /\ UNCHANGED <<list, req, login, jar, crashed>>

\* The response, with the cookie of its session, reaches the client.
Finish(r) ==
    /\ At(r, "flush")
    /\ jar' = IF result[r] # "threw" /\ session[r] # NoSession
              THEN [jar EXCEPT ![req[r].client] = session[r]] ELSE jar
    /\ req' = [req EXCEPT ![r] = NoRequest]
    /\ session' = [session EXCEPT ![r] = NoSession]
    /\ login' = [login EXCEPT ![r] = NoUser]
    /\ result' = [result EXCEPT ![r] = "none"]
    /\ Goto(r, "idle", 1)
    /\ UNCHANGED <<list, store, crashed>>

Expire(s) ==
    /\ ~crashed
    /\ s \in live
    /\ live' = live \ {s}
    /\ UNCHANGED <<list, request, authVar, accepted, jar, crashed>>

\* The client drops its cookie.
Forget(c) ==
    /\ ~crashed
    /\ jar[c] # NoSession
    /\ jar' = [jar EXCEPT ![c] = NoSession]
    /\ UNCHANGED <<list, request, store, crashed>>

\* A reload puts the list of another app in force; the sessions stay.
Reload ==
    /\ ~crashed
    /\ list' \in Lists \ {list}
    /\ UNCHANGED <<request, store, jar, crashed>>

FilterStep(r) ==
    \/ UndefinedRead(r) \/ NextFilter(r) \/ EndLoop(r)
    \/ Block(r)
    \/ AuthStart(r) \/ AuthCheck(r) \/ AuthRequest(r) \/ AuthThrow(r)
    \/ AuthCall(r) \/ AuthAccept(r) \/ AuthDeny(r)
    \/ Forward(r)
    \/ RunApp(r)
    \/ Finish(r)

Next ==
    \/ \E r \in Requests :
         \/ \E c \in Clients, p \in Paths, h \in Headers, since \in Since :
              Arrive(r, c, p, h, since)
         \/ FilterStep(r)
    \/ \E s \in Sessions : Expire(s)
    \/ \E c \in Clients : Forget(c)
    \/ Reload
    \/ crashed /\ UNCHANGED vars

Spec == Init /\ [][Next]_vars

-----------------------------------------------------------------------------
(* Properties *)

\* The filters of a loop that apply to a path, and the first of them.
Applicable(fs, p) ==
    {i \in DOMAIN fs : ~UndefinedExtension(fs[i], p) /\ Applies(fs[i], p)}
First(fs, p) ==
    fs[CHOOSE i \in Applicable(fs, p) : \A j \in Applicable(fs, p) : i <= j]

\* A request gets past the auth filters only if the first one that applies
\* to it has accepted credentials: the request's own, or some sent earlier in
\* the same session.  What another filter accepted does not count, nor what
\* was stored in a session that has been replaced.
AuthGuard ==
    \A r \in Requests :
        /\ pc[r] \in {"forward", "app"} /\ req[r].list.filtersEnabled
        /\ Applicable(req[r].list.auth, req[r].path) # {}
        => LET f == First(req[r].list.auth, req[r].path)
           IN \/ login[r] \in f.accepts
              \/ /\ session[r] # NoSession
                 /\ \E u \in f.accepts : <<f, u>> \in accepted[session[r]]

\* The answer is the one that the three lists call for, whatever the loops
\* went through: block filters come before auth filters, these before forward
\* filters, in each list the first that applies decides, and the app sees
\* only what is left.
AnswerAgrees ==
    \A r \in Requests :
        LET p == req[r].path
            l == req[r].list
            Beyond == IF Applicable(l.forward, p) = {} THEN "app"
                      ELSE sendFile(Target(First(l.forward, p), p), req[r].since)
        IN pc[r] = "flush" =>
             result[r] \in
               IF ~l.filtersEnabled THEN {"app"}
               ELSE IF Applicable(l.block, p) # {} THEN {"blocked"}
               ELSE IF Applicable(l.auth, p) = {} THEN {Beyond}
               ELSE {Beyond, "unauthorized", "forbidden", "threw"}

\* What a session remembers for an auth filter is the name of a user whom
\* that filter accepted in this session ("containing the user name",
\* AuthFilter.h:79), also when requests of one session are served at once.
RememberedUser ==
    \A s \in Sessions, k \in 1 .. MaxAuth :
        authVar[s][k] # NoUser =>
            \E f \in {list.auth[i] : i \in DOMAIN list.auth \cap {k}} :
                /\ authVar[s][k] \in f.accepts
                /\ <<f, authVar[s][k]>> \in accepted[s]
=============================================================================
