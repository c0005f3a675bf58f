--------------------------- MODULE FiltersProofs ---------------------------
(***************************************************************************)
(* Proofs about the access filters for any number of requests, clients,    *)
(* sessions and filters.  What is proved of the auth filters needs the     *)
(* condition that all filter lists in use agree on them: the session       *)
(* variables are named after the position of a filter, and a reload that   *)
(* changes what is at a position breaks the guarantee.  That the answer is *)
(* the one the lists call for holds whatever lists are loaded.             *)
(***************************************************************************)
EXTENDS Filters, TLAPS

SameAuthFilters == \A l, m \in Lists : l.auth = m.auth

\* A request in progress is a request; every session has a set of acceptances.
ReqInv ==
    /\ \A r \in Requests : pc[r] # "idle" => req[r] \in RequestData
    /\ accepted = [s \in Sessions |-> accepted[s]]

Guards(r) == Applicable(req[r].list.auth, req[r].path)

\* The loop over the auth filters has passed none that applies, and where it
\* stops is one that does; with useSessions there is a session by then, and
\* what is about to be remembered is the name of a user it has accepted.
LoopInvAt(r) ==
    /\ idx[r] \in Nat \ {0}
    /\ pc[r] \in {"auth", "check", "login", "remember"} =>
         \A j \in Guards(r) : idx[r] <= j
    /\ pc[r] \in {"check", "login", "remember"} => idx[r] \in Guards(r)
    /\ pc[r] = "check" => session[r] # NoSession
    /\ pc[r] \in {"login", "remember"} /\ AuthFilter(r).useSessions =>
         session[r] # NoSession
    /\ pc[r] = "remember" => login[r] \in AuthFilter(r).accepts

LoopInv == \A r \in Requests : LoopInvAt(r)

\* RememberedUser for one variable of one session.
RememberedAt(s, k) ==
    authVar[s][k] # NoUser =>
        /\ k \in DOMAIN list.auth
        /\ authVar[s][k] \in list.auth[k].accepts
        /\ <<list.auth[k], authVar[s][k]>> \in accepted[s]

\* What holds whatever lists are loaded, and what needs SameAuthFilters.
TInv == TypeOK /\ ReqInv /\ LoopInv

IInv == TypeOK /\ ReqInv /\ LoopInv /\ RememberedUser /\ AuthGuard

-----------------------------------------------------------------------------
\* The filters of each list are numbered from 1.
LEMMA NumberedIn ==
    ASSUME NEW l \in Lists, NEW k \in {"block", "auth", "forward"}, NEW p,
           NEW i \in Applicable(l[k], p)
    PROVE  i \in Nat /\ 1 <= i /\ i <= Len(l[k])
<1>1. i \in DOMAIN l[k]
  BY DEF Applicable
<1> QED BY <1>1, ListAssumption

\* In each list the least applicable position is the first filter.
LEMMA FirstInList ==
    ASSUME NEW l \in Lists, NEW k \in {"block", "auth", "forward"}, NEW p,
           NEW i \in Applicable(l[k], p), \A j \in Applicable(l[k], p) : i <= j
    PROVE  First(l[k], p) = l[k][i]
<1> DEFINE A == Applicable(l[k], p)
           c == CHOOSE x \in A : \A j \in A : x <= j
<1>1. c \in A /\ \A j \in A : c <= j
  OBVIOUS
<1>2. c \in Nat /\ i \in Nat
  BY <1>1, NumberedIn
<1>3. c = i
  <2>1. c <= i /\ i <= c
    BY <1>1
  <2> HIDE DEF c
  <2> QED BY <2>1, <1>2
<1> QED BY <1>3 DEF First

\* The position of an auth filter is one of a session variable.
LEMMA Numbered ==
    ASSUME NEW l \in Lists, NEW p, NEW i \in Applicable(l.auth, p)
    PROVE  i \in Nat /\ 1 <= i /\ i <= Len(l.auth) /\ i \in 1 .. MaxAuth
<1>1. i \in Nat /\ 1 <= i /\ i <= Len(l.auth)
  BY NumberedIn
<1>2. Len(l.auth) \in Nat /\ Len(l.auth) <= MaxAuth
  BY ListAssumption
<1> QED BY <1>1, <1>2, ListAssumption

\* RememberedUser, variable by variable.
LEMMA RememberedParts ==
    RememberedUser <=> \A s \in Sessions, k \in 1 .. MaxAuth : RememberedAt(s, k)
  BY DEF RememberedUser, RememberedAt

\* In the initial state no request has been taken.
LEMMA InitInv == Init => IInv
<1> SUFFICES ASSUME Init PROVE IInv
  OBVIOUS
<1>1. TypeOK
  BY ListAssumption DEF Init, TypeOK, NoVars
<1>2. ReqInv /\ LoopInv /\ AuthGuard
  BY DEF Init, ReqInv, LoopInv, LoopInvAt, AuthGuard
<1>3. RememberedUser
  BY DEF Init, RememberedUser, NoVars
<1> QED BY <1>1, <1>2, <1>3 DEF IInv

-----------------------------------------------------------------------------
\* Starting a session keeps the types, and leaves the sessions of other
\* requests and what they remember alone.
LEMMA StartSessionFrame ==
    ASSUME TypeOK, ReqInv, NEW r \in Requests, StartSession(r), pc[r] # "idle"
    PROVE  /\ session' \in [Requests -> Sessions \cup {NoSession}]
           /\ live' \subseteq Sessions
           /\ authVar' \in [Sessions -> [1 .. MaxAuth -> Users \cup {NoUser}]]
           /\ accepted' = [s \in Sessions |-> accepted'[s]]
           /\ session'[r] # NoSession
           /\ \A q \in Requests \ {r} : session'[q] = session[q]
           /\ \A q \in Requests : session[q] # NoSession =>
                 session'[q] = session[q] /\ accepted'[session[q]] = accepted[session[q]]
           /\ \A s \in Sessions :
                 \/ authVar'[s] = authVar[s] /\ accepted'[s] = accepted[s]
                 \/ authVar'[s] = NoVars
<1> USE DEF TypeOK, ReqInv, store
<1>1. CASE session[r] # NoSession /\ UNCHANGED <<session, store>>
  BY <1>1
<1>2. CASE /\ session[r] = NoSession /\ req[r].cookie \in live
           /\ session' = [session EXCEPT ![r] = req[r].cookie]
           /\ UNCHANGED store
  <2>1. req[r].cookie \in Sessions /\ req[r].cookie # NoSession
    BY <1>2, NullAssumption
  <2> QED BY <1>2, <2>1
<1>3. CASE /\ session[r] = NoSession /\ req[r].cookie \notin live
           /\ \E s \in Fresh :
                /\ session' = [session EXCEPT ![r] = s]
                /\ live' = live \cup {s}
                /\ authVar' = [authVar EXCEPT ![s] = NoVars]
                /\ accepted' = [accepted EXCEPT ![s] = {}]
  <2>1. PICK s \in Fresh :
                /\ session' = [session EXCEPT ![r] = s]
                /\ live' = live \cup {s}
                /\ authVar' = [authVar EXCEPT ![s] = NoVars]
                /\ accepted' = [accepted EXCEPT ![s] = {}]
    BY <1>3
  <2>2. s \in Sessions /\ s # NoSession /\ \A q \in Requests : session[q] # s
    BY NullAssumption DEF Fresh
  <2>3. NoVars \in [1 .. MaxAuth -> Users \cup {NoUser}]
    BY DEF NoVars
  <2> HIDE DEF NoVars
  <2> QED BY <1>3, <2>1, <2>2, <2>3
<1> QED BY <1>1, <1>2, <1>3 DEF StartSession

\* Every answer of sendFile is an answer.
LEMMA SendFileType ==
    ASSUME NEW path, NEW since
    PROVE  sendFile(path, since) \in {"file", "notmodified", "notfound"}
  BY DEF sendFile

\* The types are kept by every step.
LEMMA TypeStep ==
    ASSUME TypeOK, ReqInv, LoopInv, [Next]_vars
    PROVE  TypeOK' /\ ReqInv'
<1> USE DEF TypeOK, ReqInv, progress, request, store
<1>1. ASSUME NEW r \in Requests, NEW c \in Clients, NEW p \in Paths,
             NEW h \in Headers, NEW since \in Since, Arrive(r, c, p, h, since)
      PROVE  TypeOK' /\ ReqInv'
  <2>1. [client |-> c, cookie |-> jar[c], path |-> p, header |-> h,
         since |-> since, list |-> list] \in RequestData
    BY DEF RequestData
  <2> QED BY <1>1, <2>1 DEF Arrive, At, Goto
<1>2. ASSUME NEW r \in Requests, UndefinedRead(r)  PROVE TypeOK' /\ ReqInv'
  BY <1>2 DEF UndefinedRead
<1>3. ASSUME NEW r \in Requests, NextFilter(r)  PROVE TypeOK' /\ ReqInv'
  BY <1>3 DEF NextFilter, Goto, InLoop, Loops
<1>4. ASSUME NEW r \in Requests, EndLoop(r)  PROVE TypeOK' /\ ReqInv'
  <2>1. After(pc[r]) \in {"auth", "forward", "app"} /\ pc[r] # "idle"
    BY <1>4 DEF EndLoop, Loops, After
  <2> QED BY <1>4, <2>1 DEF EndLoop, Goto
<1>5. ASSUME NEW r \in Requests, Block(r)  PROVE TypeOK' /\ ReqInv'
  BY <1>5 DEF Block, Reply, Hit, At
<1>6. ASSUME NEW r \in Requests, AuthStart(r)  PROVE TypeOK' /\ ReqInv'
  <2>1. pc[r] = "auth"
    BY <1>6 DEF AuthStart, Hit, At
  <2>2. CASE StartSession(r) /\ Goto(r, "check", idx[r])
    BY <1>6, <2>1, <2>2, StartSessionFrame DEF AuthStart, Goto
  <2>3. CASE Goto(r, "login", idx[r]) /\ UNCHANGED <<session, store>>
    BY <1>6, <2>1, <2>3 DEF AuthStart, Goto
  <2> QED BY <1>6, <2>2, <2>3 DEF AuthStart
<1>7. ASSUME NEW r \in Requests, AuthCheck(r)  PROVE TypeOK' /\ ReqInv'
  <2>1. /\ pc[r] = "check"
        /\ UNCHANGED <<list, req, session, login, result, store, jar, crashed>>
    BY <1>7 DEF AuthCheck, At
  <2>2. CASE Goto(r, "forward", 1)
    BY <2>1, <2>2 DEF Goto
  <2>3. CASE Goto(r, "login", idx[r])
    BY <2>1, <2>3 DEF Goto
  <2> QED BY <1>7, <2>2, <2>3 DEF AuthCheck
<1>8. ASSUME NEW r \in Requests, AuthRequest(r) \/ AuthThrow(r) \/ AuthDeny(r)
      PROVE  TypeOK' /\ ReqInv'
  BY <1>8 DEF AuthRequest, AuthThrow, AuthDeny, Reply, At
<1>9. ASSUME NEW r \in Requests, AuthAccept(r)  PROVE TypeOK' /\ ReqInv'
  <2>1. At(r, "remember") /\ req[r] \in RequestData
    BY <1>9 DEF AuthAccept, At
  <2>2. login[r] \in Users \cup {NoUser}
    OBVIOUS
  <2>3. AuthFilter(r).useSessions => session[r] \in Sessions
    BY <2>1 DEF At, LoopInv, LoopInvAt
  <2>4. idx[r] \in 1 .. MaxAuth
    <3>1. idx[r] \in Guards(r) /\ req[r].list \in Lists
      BY <2>1 DEF At, LoopInv, LoopInvAt, RequestData
    <3> QED BY <3>1, Numbered DEF Guards
  <2>5. /\ authVar' \in [Sessions -> [1 .. MaxAuth -> Users \cup {NoUser}]]
        /\ accepted' = [s \in Sessions |-> accepted'[s]]
    <3>1. CASE AuthFilter(r).useSessions
      <4>1. /\ authVar' = [authVar EXCEPT ![session[r]][idx[r]] = login[r]]
            /\ accepted' = [accepted EXCEPT ![session[r]] =
                              @ \cup {<<AuthFilter(r), login[r]>>}]
        BY <1>9, <3>1 DEF AuthAccept
      <4>2. authVar' \in [Sessions -> [1 .. MaxAuth -> Users \cup {NoUser}]]
        BY <4>1, <2>2, <2>3, <2>4, <3>1
      <4>3. accepted' = [s \in Sessions |-> accepted'[s]]
        BY <4>1, <2>3, <3>1
      <4> QED BY <4>2, <4>3
    <3>2. CASE ~AuthFilter(r).useSessions
      BY <1>9, <3>2 DEF AuthAccept
    <3> QED BY <3>1, <3>2
  <2>6. /\ Goto(r, "forward", 1)
        /\ UNCHANGED <<list, req, session, login, result, live, jar, crashed>>
    BY <1>9 DEF AuthAccept
  <2> QED BY <2>1, <2>2, <2>5, <2>6 DEF Goto, At
<1>17. ASSUME NEW r \in Requests, AuthCall(r)  PROVE TypeOK' /\ ReqInv'
  <2>1. At(r, "login") /\ req[r] \in RequestData
    BY <1>17 DEF AuthCall, At
  <2>2. req[r].header.user \in Users \cup {NoUser}
    BY <2>1, HeaderAssumption DEF RequestData, Header
  <2> QED BY <1>17, <2>1, <2>2 DEF AuthCall, Goto, At
<1>10. ASSUME NEW r \in Requests, Forward(r)  PROVE TypeOK' /\ ReqInv'
  BY <1>10, SendFileType DEF Forward, Reply, Hit, At
<1>11. ASSUME NEW r \in Requests, RunApp(r)  PROVE TypeOK' /\ ReqInv'
  <2>1. At(r, "app") /\ Reply(r, "app") /\ UNCHANGED <<list, req, login, jar, crashed>>
    BY <1>11 DEF RunApp
  <2>2. CASE StartSession(r)
    BY <2>1, <2>2, StartSessionFrame DEF Reply, At
  <2>3. CASE UNCHANGED <<session, store>>
    BY <2>1, <2>3 DEF Reply, At
  <2>4. CASE /\ session[r] # NoSession
             /\ \E k \in 1 .. MaxAuth :
                  authVar' = [authVar EXCEPT ![session[r]][k] = NoUser]
             /\ UNCHANGED <<session, live, accepted>>
    <3>1. authVar' \in [Sessions -> [1 .. MaxAuth -> Users \cup {NoUser}]]
      BY <2>4
    <3> QED BY <2>1, <2>4, <3>1 DEF Reply, At
  <2>5. CASE /\ session[r] # NoSession
             /\ live' = live \ {session[r]}
             /\ session' = [session EXCEPT ![r] = NoSession]
             /\ UNCHANGED <<authVar, accepted>>
    BY <2>1, <2>5 DEF Reply, At
  <2> QED BY <1>11, <2>2, <2>3, <2>4, <2>5 DEF RunApp
<1>12. ASSUME NEW r \in Requests, Finish(r)  PROVE TypeOK' /\ ReqInv'
  BY <1>12 DEF Finish, Goto, At
<1>13. ASSUME NEW s \in Sessions, Expire(s)  PROVE TypeOK' /\ ReqInv'
  BY <1>13 DEF Expire
<1>14. ASSUME NEW c \in Clients, Forget(c)  PROVE TypeOK' /\ ReqInv'
  BY <1>14 DEF Forget
<1>15. CASE Reload
  BY <1>15 DEF Reload
<1>16. CASE UNCHANGED vars
  BY <1>16 DEF vars
<1> QED BY <1>1, <1>2, <1>3, <1>4, <1>5, <1>6, <1>7, <1>8, <1>9, <1>10, <1>11,
           <1>12, <1>13, <1>14, <1>15, <1>16, <1>17 DEF Next, FilterStep

-----------------------------------------------------------------------------
\* Where the loop stands is not disturbed by what leaves the request, its
\* place and its session alone; outside the auth part only the place counts.
LEMMA LoopKept ==
    ASSUME NEW q \in Requests, LoopInvAt(q),
           \/ /\ pc'[q] = pc[q] /\ idx'[q] = idx[q] /\ req'[q] = req[q]
              /\ login'[q] = login[q]
              /\ session[q] # NoSession => session'[q] # NoSession
           \/ /\ pc'[q] \notin {"auth", "check", "login", "remember"}
              /\ idx'[q] \in Nat \ {0}
    PROVE  LoopInvAt(q)'
  BY DEF LoopInvAt, Guards, AuthFilter

\* A filter that the auth loop reaches and that applies is one of the guards,
\* and one that does not apply is none.
LEMMA ReachedFilter ==
    ASSUME TypeOK, ReqInv, NEW r \in Requests, LoopInvAt(r), pc[r] = "auth",
           InLoop(r), ~Undefined(r)
    PROVE  idx[r] \in Guards(r) <=> Applies(Current(r), req[r].path)
<1>1. req[r].list \in Lists
  BY DEF ReqInv, RequestData
<1>2. idx[r] \in DOMAIN req[r].list.auth /\ Current(r) = req[r].list.auth[idx[r]]
  BY <1>1, ListAssumption DEF InLoop, Current, LoopInvAt
<1>3. ~UndefinedExtension(Current(r), req[r].path)
  BY DEF Undefined, UndefinedExtension
<1> QED BY <1>2, <1>3 DEF Guards, Applicable

\* The auth loop passes over no filter that applies.
LEMMA LoopStep ==
    ASSUME TypeOK, ReqInv, LoopInv, [Next]_vars
    PROVE  LoopInv'
<1> SUFFICES ASSUME NEW q \in Requests PROVE LoopInvAt(q)'
  BY DEF LoopInv
<1>0. LoopInvAt(q)
  BY DEF LoopInv
<1> USE DEF progress, request, store
<1>1. ASSUME NEW r \in Requests, NEW c \in Clients, NEW p \in Paths,
             NEW h \in Headers, NEW since \in Since, Arrive(r, c, p, h, since)
      PROVE  LoopInvAt(q)'
  <2>1. CASE q = r
    BY <1>0, <1>1, <2>1, LoopKept DEF Arrive, Goto, TypeOK
  <2>2. CASE q # r
    BY <1>0, <1>1, <2>2, LoopKept DEF Arrive, Goto, TypeOK
  <2> QED BY <2>1, <2>2
<1>2. ASSUME NEW r \in Requests, UndefinedRead(r)  PROVE LoopInvAt(q)'
  BY <1>0, <1>2, LoopKept DEF UndefinedRead
<1>3. ASSUME NEW r \in Requests, NextFilter(r)  PROVE LoopInvAt(q)'
  <2>1. CASE q # r
    BY <1>0, <1>3, <2>1, LoopKept DEF NextFilter, Goto, TypeOK
  <2>2. CASE q = r /\ pc[r] # "auth"
    BY <1>0, <1>3, <2>2, LoopKept DEF NextFilter, Goto, TypeOK, InLoop, Loops, LoopInvAt
  <2>3. CASE q = r /\ pc[r] = "auth"
    <3>1. idx[r] \notin Guards(r)
      BY <1>0, <1>3, <2>3, ReachedFilter DEF NextFilter
    <3>2. \A j \in Guards(r) : j \in Nat /\ idx[r] <= j
      <4>1. req[r].list \in Lists
        BY <2>3 DEF ReqInv, RequestData
      <4> QED BY <1>0, <2>3, <4>1, Numbered DEF LoopInvAt, Guards
    <3>3. \A j \in Guards(r) : idx[r] + 1 <= j
      <4>1. idx[r] \in Nat
        BY DEF TypeOK
      <4> QED BY <3>1, <3>2, <4>1
    <3>4. pc'[r] = "auth" /\ idx'[r] = idx[r] + 1 /\ UNCHANGED req
      BY <1>3, <2>3 DEF NextFilter, Goto, TypeOK
    <3>5. Guards(r)' = Guards(r)
      BY <3>4 DEF Guards
    <3> QED BY <1>0, <2>3, <3>3, <3>4, <3>5 DEF LoopInvAt
  <2> QED BY <2>1, <2>2, <2>3
<1>4. ASSUME NEW r \in Requests, EndLoop(r)  PROVE LoopInvAt(q)'
  <2>1. CASE q # r
    BY <1>0, <1>4, <2>1, LoopKept DEF EndLoop, Goto, TypeOK
  <2>2. CASE q = r /\ pc[r] # "block"
    <3>1. After(pc[r]) \in {"forward", "app"}
      BY <1>4, <2>2 DEF EndLoop, Loops, After
    <3>2. pc'[q] = After(pc[r]) /\ idx'[q] = 1
      BY <1>4, <2>2 DEF EndLoop, Goto, TypeOK
    <3> QED BY <1>0, <3>1, <3>2, LoopKept
  <2>3. CASE q = r /\ pc[r] = "block"
    <3>1. pc'[r] = "auth" /\ idx'[r] = 1 /\ UNCHANGED req
      BY <1>4, <2>3 DEF EndLoop, Goto, TypeOK, After
    <3>2. \A j \in Guards(r) : 1 <= j
      <4>1. req[r].list \in Lists
        BY <2>3 DEF ReqInv, RequestData
      <4> QED BY <4>1, Numbered DEF Guards
    <3>3. Guards(r)' = Guards(r)
      BY <3>1 DEF Guards
    <3> QED BY <2>3, <3>1, <3>2, <3>3 DEF LoopInvAt
  <2> QED BY <2>1, <2>2, <2>3
<1>5. ASSUME NEW r \in Requests, AuthStart(r)  PROVE LoopInvAt(q)'
  <2>1. pc[r] = "auth" /\ Hit(r, "auth") /\ UNCHANGED <<req, login>>
    BY <1>5 DEF AuthStart, Hit, At
  <2>2. \/ StartSession(r) /\ Goto(r, "check", idx[r])
        \/ /\ ~AuthFilter(r).useSessions /\ Goto(r, "login", idx[r])
           /\ UNCHANGED <<session, store>>
    BY <1>5, <2>1 DEF AuthStart, Current, AuthFilter
  <2>3. \A s \in Requests \ {r} : session'[s] = session[s]
    BY <2>1, <2>2, StartSessionFrame
  <2>4. CASE q # r
    BY <1>0, <2>1, <2>2, <2>3, <2>4, LoopKept DEF Goto, TypeOK
  <2>5. CASE q = r
    <3>1. idx[r] \in Guards(r) /\ \A j \in Guards(r) : idx[r] <= j
      BY <1>0, <2>1, <2>5, ReachedFilter DEF Hit, LoopInvAt
    <3>2. idx'[r] = idx[r] /\ Guards(r)' = Guards(r) /\ AuthFilter(r)' = AuthFilter(r)
      BY <2>1, <2>2 DEF Goto, TypeOK, Guards, AuthFilter
    <3>3. \/ pc'[r] = "check" /\ session'[r] # NoSession
          \/ pc'[r] = "login" /\ ~AuthFilter(r).useSessions
      BY <2>1, <2>2, StartSessionFrame DEF Goto, TypeOK
    <3> QED BY <1>0, <2>5, <3>1, <3>2, <3>3 DEF LoopInvAt
  <2> QED BY <2>4, <2>5
<1>6. ASSUME NEW r \in Requests, AuthCheck(r)  PROVE LoopInvAt(q)'
  <2>1. CASE q # r
    BY <1>0, <1>6, <2>1, LoopKept DEF AuthCheck, Goto, TypeOK
  <2>2. CASE q = r
    BY <1>0, <1>6, <2>2 DEF AuthCheck, Goto, TypeOK, At, LoopInvAt, Guards, AuthFilter
  <2> QED BY <2>1, <2>2
<1>7. ASSUME NEW r \in Requests,
             \/ Block(r) \/ AuthRequest(r) \/ AuthThrow(r) \/ AuthDeny(r) \/ Forward(r)
      PROVE  LoopInvAt(q)'
  <2>1. /\ pc' = [pc EXCEPT ![r] = "flush"]
        /\ UNCHANGED <<idx, req, session, login>>
    BY <1>7 DEF Block, AuthRequest, AuthThrow, AuthDeny, Forward, Reply
  <2> QED BY <1>0, <2>1, LoopKept DEF TypeOK, LoopInvAt
<1>8. ASSUME NEW r \in Requests, AuthAccept(r)  PROVE LoopInvAt(q)'
  <2>1. Goto(r, "forward", 1) /\ UNCHANGED <<req, session, login>>
    BY <1>8 DEF AuthAccept
  <2> QED BY <1>0, <2>1, LoopKept DEF Goto, TypeOK
<1>12. ASSUME NEW r \in Requests, AuthCall(r)  PROVE LoopInvAt(q)'
  <2>1. /\ pc[r] = "login" /\ Goto(r, "remember", idx[r])
        /\ login' = [login EXCEPT ![r] = req[r].header.user]
        /\ req[r].header.user \in AuthFilter(r).accepts
        /\ UNCHANGED <<req, session>>
    BY <1>12 DEF AuthCall, At, Accept
  <2>2. CASE q # r
    BY <1>0, <2>1, <2>2, LoopKept DEF Goto, TypeOK
  <2>3. CASE q = r
    <3>1. /\ pc'[q] = "remember" /\ idx'[q] = idx[q]
          /\ login'[q] = req[q].header.user
      BY <1>0, <2>1, <2>3 DEF Goto, TypeOK
    <3>2. AuthFilter(q)' = AuthFilter(q) /\ Guards(q)' = Guards(q)
      BY <2>1, <3>1 DEF AuthFilter, Guards
    <3> QED BY <1>0, <2>1, <2>3, <3>1, <3>2 DEF LoopInvAt
  <2> QED BY <2>2, <2>3
<1>9. ASSUME NEW r \in Requests, RunApp(r)  PROVE LoopInvAt(q)'
  <2>1. /\ pc[r] = "app" /\ pc' = [pc EXCEPT ![r] = "flush"]
        /\ UNCHANGED <<idx, req, login>>
    BY <1>9 DEF RunApp, At, Reply
  <2>2. \A s \in Requests \ {r} : session'[s] = session[s]
    <3>1. CASE StartSession(r)
      BY <2>1, <3>1, StartSessionFrame
    <3>2. CASE ~StartSession(r)
      BY <1>9, <3>2 DEF RunApp, TypeOK
    <3> QED BY <3>1, <3>2
  <2> QED BY <1>0, <2>1, <2>2, LoopKept DEF TypeOK, LoopInvAt
<1>10. ASSUME NEW r \in Requests, Finish(r)  PROVE LoopInvAt(q)'
  BY <1>0, <1>10, LoopKept DEF Finish, Goto, TypeOK
<1>11. CASE (\E s \in Sessions : Expire(s)) \/ (\E c \in Clients : Forget(c)) \/ Reload
            \/ UNCHANGED vars
  BY <1>0, <1>11, LoopKept DEF Expire, Forget, Reload, vars
<1> QED BY <1>1, <1>2, <1>3, <1>4, <1>5, <1>6, <1>7, <1>8, <1>9, <1>10, <1>11,
           <1>12 DEF Next, FilterStep

-----------------------------------------------------------------------------
\* What a session remembers stays right: a new value is that of an accepted
\* login, and what was accepted is forgotten only together with the values.
LEMMA RememberedStep ==
    ASSUME SameAuthFilters, TypeOK, ReqInv, LoopInv, RememberedUser, [Next]_vars
    PROVE  RememberedUser'
<1> SUFFICES ASSUME NEW s \in Sessions, NEW k \in 1 .. MaxAuth
             PROVE  RememberedAt(s, k)'
  BY DEF RememberedUser, RememberedAt
<1>0. RememberedAt(s, k)
  BY RememberedParts
<1>a. list'.auth = list.auth
  BY TypeStep DEF SameAuthFilters, TypeOK
<1> USE DEF progress, request, store
<1>b. ASSUME authVar'[s] = authVar[s] /\ accepted'[s] = accepted[s]
      PROVE  RememberedAt(s, k)'
  BY <1>0, <1>a, <1>b DEF RememberedAt
<1>c. ASSUME authVar'[s][k] = NoUser  PROVE RememberedAt(s, k)'
  BY <1>c DEF RememberedAt
<1>d. ASSUME NEW r \in Requests, StartSession(r), pc[r] # "idle"
      PROVE  RememberedAt(s, k)'
  <2>1. \/ authVar'[s] = authVar[s] /\ accepted'[s] = accepted[s]
        \/ authVar'[s] = NoVars
    BY <1>d, StartSessionFrame
  <2> QED BY <1>b, <1>c, <2>1 DEF NoVars
<1>1. ASSUME NEW r \in Requests, AuthStart(r)  PROVE RememberedAt(s, k)'
  BY <1>1, <1>b, <1>d DEF AuthStart, Hit, At
<1>2. ASSUME NEW r \in Requests, AuthAccept(r)  PROVE RememberedAt(s, k)'
  <2> DEFINE f == AuthFilter(r)
             u == login[r]
  <2>1. At(r, "remember") /\ u \in f.accepts
    BY <1>2 DEF AuthAccept, At, LoopInv, LoopInvAt
  <2>2. idx[r] \in Guards(r) /\ req[r].list \in Lists
    BY <2>1 DEF At, LoopInv, LoopInvAt, ReqInv, RequestData
  <2>3. list.auth = req[r].list.auth
    BY <2>2 DEF SameAuthFilters, TypeOK
  <2>4. idx[r] \in DOMAIN list.auth /\ f = list.auth[idx[r]] /\ idx[r] \in 1 .. MaxAuth
    BY <2>2, <2>3, Numbered DEF Guards, Applicable, AuthFilter
  <2>5. CASE ~f.useSessions
    BY <1>2, <1>b, <2>5 DEF AuthAccept
  <2>6. CASE f.useSessions
    <3>1. /\ authVar' = [authVar EXCEPT ![session[r]][idx[r]] = u]
          /\ accepted' = [accepted EXCEPT ![session[r]] = @ \cup {<<f, u>>}]
      BY <1>2, <2>6 DEF AuthAccept
    <3>2. accepted[s] \subseteq accepted'[s] /\ (s = session[r] => <<f, u>> \in accepted'[s])
      BY <3>1 DEF ReqInv
    <3>3. CASE s = session[r] /\ k = idx[r]
      <4>1. authVar'[s][k] = u
        BY <3>1, <3>3, <2>4 DEF TypeOK
      <4> QED BY <1>a, <2>1, <2>4, <3>2, <3>3, <4>1 DEF RememberedAt
    <3>4. CASE s # session[r] \/ k # idx[r]
      <4>1. authVar'[s][k] = authVar[s][k]
        BY <3>1, <3>4 DEF TypeOK
      <4> QED BY <1>0, <1>a, <3>2, <4>1 DEF RememberedAt
    <3> QED BY <3>3, <3>4
  <2> QED BY <2>5, <2>6
<1>3. ASSUME NEW r \in Requests, RunApp(r)  PROVE RememberedAt(s, k)'
  <2>1. pc[r] = "app"
    BY <1>3 DEF RunApp, At
  <2>2. CASE StartSession(r)
    BY <1>d, <2>1, <2>2
  <2>3. CASE UNCHANGED <<authVar, accepted>>
    BY <1>b, <2>3
  <2>4. CASE \E i \in 1 .. MaxAuth :
               /\ session[r] # NoSession
               /\ authVar' = [authVar EXCEPT ![session[r]][i] = NoUser]
               /\ UNCHANGED accepted
    <3>1. accepted'[s] = accepted[s] /\ authVar'[s][k] \in {authVar[s][k], NoUser}
      BY <2>4 DEF TypeOK
    <3> QED BY <1>0, <1>a, <3>1 DEF RememberedAt
  <2> QED BY <1>3, <2>2, <2>3, <2>4 DEF RunApp
<1>4. ASSUME ~\E r \in Requests : AuthStart(r) \/ AuthAccept(r) \/ RunApp(r)
      PROVE  UNCHANGED <<authVar, accepted>>
  BY <1>4 DEF Next, FilterStep, vars, Arrive, UndefinedRead, NextFilter, EndLoop,
       Block, AuthCheck, AuthRequest, AuthThrow, AuthCall, AuthDeny, Forward, Finish,
       Expire, Forget, Reload
<1> QED BY <1>b, <1>1, <1>2, <1>3, <1>4

-----------------------------------------------------------------------------
\* AuthGuard for one request.
GuardAt(r) ==
    /\ pc[r] \in {"forward", "app"} /\ req[r].list.filtersEnabled
    /\ Guards(r) # {}
    => LET f == First(req[r].list.auth, req[r].path)
       IN \/ login[r] \in f.accepts
          \/ /\ session[r] # NoSession
             /\ \E u \in f.accepts : <<f, u>> \in accepted[session[r]]

\* AuthGuard, request by request.
LEMMA GuardParts == AuthGuard <=> \A r \in Requests : GuardAt(r)
  BY DEF AuthGuard, GuardAt, Guards

\* A request past the auth filters stays entitled while its place, data and
\* session are left alone and the session forgets no acceptance.
LEMMA GuardKept ==
    ASSUME NEW q \in Requests, GuardAt(q),
           \/ pc'[q] \notin {"forward", "app"}
           \/ /\ pc[q] \in {"forward", "app"} /\ req'[q] = req[q] /\ login'[q] = login[q]
              /\ session[q] # NoSession =>
                    /\ session'[q] = session[q]
                    /\ accepted[session[q]] \subseteq accepted'[session[q]]
    PROVE  GuardAt(q)'
<1>1. CASE pc'[q] \notin {"forward", "app"}
  BY <1>1 DEF GuardAt
<1>2. CASE /\ pc[q] \in {"forward", "app"} /\ req'[q] = req[q] /\ login'[q] = login[q]
           /\ session[q] # NoSession =>
                 /\ session'[q] = session[q]
                 /\ accepted[session[q]] \subseteq accepted'[session[q]]
  BY <1>2 DEF GuardAt, Guards
<1> QED BY <1>1, <1>2

\* No step lets a request past the auth filters without the first that
\* applies to it having accepted credentials.
LEMMA GuardStep ==
    ASSUME SameAuthFilters, IInv, [Next]_vars
    PROVE  AuthGuard'
<1> SUFFICES ASSUME NEW q \in Requests PROVE GuardAt(q)'
  BY DEF AuthGuard, GuardAt, Guards
<1> USE DEF progress, request, store
<1>0. TypeOK /\ ReqInv /\ LoopInvAt(q) /\ GuardAt(q)
  BY GuardParts DEF IInv, LoopInv
<1>f. pc[q] \in {"check", "login", "remember"} =>
        /\ req[q] \in RequestData /\ req[q].list \in Lists
        /\ idx[q] \in 1 .. MaxAuth
        /\ AuthFilter(q) = First(req[q].list.auth, req[q].path)
  <2> SUFFICES ASSUME pc[q] \in {"check", "login", "remember"}
               PROVE  /\ req[q] \in RequestData /\ req[q].list \in Lists
                      /\ idx[q] \in 1 .. MaxAuth
                      /\ AuthFilter(q) = First(req[q].list.auth, req[q].path)
    OBVIOUS
  <2>1. req[q] \in RequestData /\ req[q].list \in Lists
    BY <1>0 DEF ReqInv, RequestData
  <2>2. idx[q] \in Guards(q) /\ \A j \in Guards(q) : idx[q] <= j
    BY <1>0 DEF LoopInvAt
  <2>3. idx[q] \in 1 .. MaxAuth
    BY <2>1, <2>2, Numbered DEF Guards
  <2>4. AuthFilter(q) = First(req[q].list.auth, req[q].path)
    BY <2>1, <2>2, FirstInList DEF Guards, AuthFilter
  <2> QED BY <2>1, <2>3, <2>4
<1>1. ASSUME NEW r \in Requests, NEW c \in Clients, NEW p \in Paths,
             NEW h \in Headers, NEW since \in Since, Arrive(r, c, p, h, since)
      PROVE  GuardAt(q)'
  <2>1. CASE q # r
    BY <1>0, <1>1, <2>1, GuardKept DEF Arrive, Goto, TypeOK, GuardAt
  <2>2. CASE q = r
    <3>1. req'[q].list = list /\ (list.filtersEnabled => pc'[q] = "block")
      BY <1>0, <1>1, <2>2 DEF Arrive, Goto, TypeOK
    <3> QED BY <3>1 DEF GuardAt
  <2> QED BY <2>1, <2>2
<1>2. ASSUME NEW r \in Requests, UndefinedRead(r)  PROVE GuardAt(q)'
  BY <1>0, <1>2, GuardKept DEF UndefinedRead
<1>3. ASSUME NEW r \in Requests, NextFilter(r)  PROVE GuardAt(q)'
  <2>1. pc' = pc /\ UNCHANGED <<req, login, session, accepted>>
    BY <1>0, <1>3 DEF NextFilter, Goto, TypeOK
  <2> QED BY <1>0, <2>1, GuardKept
<1>4. ASSUME NEW r \in Requests, EndLoop(r)  PROVE GuardAt(q)'
  <2>0. Goto(r, After(pc[r]), 1) /\ UNCHANGED <<req, login, session, accepted>>
    BY <1>4 DEF EndLoop
  <2>1. CASE q # r
    BY <1>0, <2>0, <2>1, GuardKept DEF Goto, TypeOK
  <2>2. CASE q = r /\ pc[r] = "block"
    BY <1>0, <2>0, <2>2, GuardKept DEF Goto, TypeOK, After
  <2>3. CASE q = r /\ pc[r] = "auth"
    <3>1. req[r].list \in Lists
      BY <1>0, <2>3 DEF ReqInv, RequestData
    <3>2. idx[r] \in Nat /\ idx[r] > Len(req[r].list.auth) /\ Len(req[r].list.auth) \in Nat
      BY <1>0, <1>4, <2>3, <3>1, ListAssumption DEF EndLoop, TypeOK
    <3>3. \A j \in Guards(r) : j \in Nat /\ idx[r] <= j /\ j <= Len(req[r].list.auth)
      BY <1>0, <2>3, <3>1, Numbered DEF LoopInvAt, Guards
    <3>4. Guards(r) = {}
      BY <3>2, <3>3
    <3> QED BY <2>0, <2>3, <3>4 DEF GuardAt, Guards
  <2>4. CASE q = r /\ pc[r] = "forward"
    BY <1>0, <2>0, <2>4, GuardKept
  <2> QED BY <1>4, <2>1, <2>2, <2>3, <2>4 DEF EndLoop, Loops
<1>5. ASSUME NEW r \in Requests, AuthStart(r)  PROVE GuardAt(q)'
  <2>1. pc[r] = "auth" /\ UNCHANGED <<req, login>>
    BY <1>5 DEF AuthStart, Hit, At
  <2>2. \/ StartSession(r) /\ Goto(r, "check", idx[r])
        \/ Goto(r, "login", idx[r]) /\ UNCHANGED <<session, store>>
    BY <1>5 DEF AuthStart
  <2>3. session[q] # NoSession =>
          session'[q] = session[q] /\ accepted'[session[q]] = accepted[session[q]]
    BY <1>0, <2>1, <2>2, StartSessionFrame
  <2>4. IF q = r THEN pc'[q] \in {"check", "login"} ELSE pc'[q] = pc[q]
    BY <1>0, <2>2 DEF Goto, TypeOK
  <2> QED BY <1>0, <2>1, <2>3, <2>4, GuardKept
<1>6. ASSUME NEW r \in Requests, AuthCheck(r)  PROVE GuardAt(q)'
  <2>0. At(r, "check") /\ UNCHANGED <<req, login, session, accepted>>
    BY <1>6 DEF AuthCheck
  <2>1. CASE q # r
    BY <1>0, <1>6, <2>0, <2>1, GuardKept DEF AuthCheck, Goto, TypeOK
  <2>2. CASE q = r /\ ~Remembered(r)
    BY <1>0, <1>6, <2>2, GuardKept DEF AuthCheck, Goto, TypeOK
  <2>3. CASE q = r /\ Remembered(r)
    <3>1. session[q] # NoSession /\ session[q] \in Sessions /\ pc[q] = "check"
      BY <1>0, <2>0, <2>3 DEF At, LoopInvAt, TypeOK
    <3> DEFINE f == First(req[q].list.auth, req[q].path)
               u == authVar[session[q]][idx[q]]
    <3>2. list.auth[idx[q]] = f
      BY <1>0, <1>f, <3>1 DEF AuthFilter, SameAuthFilters, TypeOK
    <3>3. u \in f.accepts /\ <<f, u>> \in accepted[session[q]]
      <4>1. RememberedAt(session[q], idx[q])
        BY <1>f, <3>1, RememberedParts DEF IInv
      <4> QED BY <2>3, <3>2, <4>1 DEF RememberedAt, Remembered
    <3> QED BY <2>0, <3>1, <3>3 DEF GuardAt
  <2> QED BY <2>1, <2>2, <2>3
<1>7. ASSUME NEW r \in Requests,
             \/ Block(r) \/ AuthRequest(r) \/ AuthThrow(r) \/ AuthDeny(r) \/ Forward(r)
      PROVE  GuardAt(q)'
  <2>1. /\ pc' = [pc EXCEPT ![r] = "flush"]
        /\ UNCHANGED <<req, login, session, accepted>>
    BY <1>7 DEF Block, AuthRequest, AuthThrow, AuthDeny, Forward, Reply
  <2> QED BY <1>0, <2>1, GuardKept DEF TypeOK
<1>8. ASSUME NEW r \in Requests, AuthAccept(r)  PROVE GuardAt(q)'
  <2>1. /\ At(r, "remember") /\ Goto(r, "forward", 1)
        /\ UNCHANGED <<req, session, login>>
        /\ login[r] \in AuthFilter(r).accepts
    BY <1>8 DEF AuthAccept, At, IInv, LoopInv, LoopInvAt
  <2>2. CASE q = r
    <3>1. login'[q] \in First(req[q].list.auth, req[q].path).accepts
      BY <1>0, <1>f, <2>1, <2>2 DEF At, TypeOK
    <3> QED BY <2>1, <3>1 DEF GuardAt
  <2>3. CASE q # r
    <3>1. session[q] # NoSession => accepted[session[q]] \subseteq accepted'[session[q]]
      <4>1. CASE AuthFilter(r).useSessions
        <5>1. accepted' = [accepted EXCEPT ![session[r]] =
                             @ \cup {<<AuthFilter(r), login[r]>>}]
          BY <1>8, <4>1 DEF AuthAccept
        <5> QED BY <1>0, <5>1 DEF ReqInv, TypeOK
      <4>2. CASE ~AuthFilter(r).useSessions
        BY <1>8, <4>2 DEF AuthAccept
      <4> QED BY <4>1, <4>2
    <3>2. pc'[q] = pc[q] /\ login'[q] = login[q]
      BY <1>0, <2>1, <2>3 DEF Goto, TypeOK
    <3> QED BY <1>0, <2>1, <3>1, <3>2, GuardKept
  <2> QED BY <2>2, <2>3
<1>9. ASSUME NEW r \in Requests, RunApp(r)  PROVE GuardAt(q)'
  <2>1. /\ pc[r] = "app" /\ pc' = [pc EXCEPT ![r] = "flush"]
        /\ UNCHANGED <<req, login>>
    BY <1>9 DEF RunApp, At, Reply
  <2>2. CASE q = r
    BY <1>0, <2>1, <2>2, GuardKept DEF TypeOK
  <2>3. CASE q # r
    <3>1. session[q] # NoSession =>
            session'[q] = session[q] /\ accepted'[session[q]] = accepted[session[q]]
      <4>1. CASE StartSession(r)
        BY <1>0, <2>1, <4>1, StartSessionFrame
      <4>2. CASE ~StartSession(r)
        BY <1>0, <1>9, <2>3, <4>2 DEF RunApp, TypeOK
      <4> QED BY <4>1, <4>2
    <3> QED BY <1>0, <2>1, <2>3, <3>1, GuardKept DEF TypeOK
  <2> QED BY <2>2, <2>3
<1>10. ASSUME NEW r \in Requests, Finish(r)  PROVE GuardAt(q)'
  BY <1>0, <1>10, GuardKept DEF Finish, Goto, TypeOK
<1>11. CASE (\E s \in Sessions : Expire(s)) \/ (\E c \in Clients : Forget(c)) \/ Reload
            \/ UNCHANGED vars
  BY <1>0, <1>11, GuardKept DEF Expire, Forget, Reload, vars
<1>12. ASSUME NEW r \in Requests, AuthCall(r)  PROVE GuardAt(q)'
  BY <1>0, <1>12, GuardKept DEF AuthCall, Goto, TypeOK
<1> QED BY <1>1, <1>2, <1>3, <1>4, <1>5, <1>6, <1>7, <1>8, <1>9, <1>10, <1>11,
           <1>12 DEF Next, FilterStep

-----------------------------------------------------------------------------
\* Every variable keeps its type, whatever lists are loaded; in particular every
\* answer of applyFilters and sendFile is one that flush can send, and an
\* accepted login writes a variable of a session that exists.
THEOREM TypeCorrect == Spec => []TypeOK
<1>1. Init => TInv
  BY InitInv DEF IInv, TInv
<1>2. TInv /\ [Next]_vars => TInv'
  BY TypeStep, LoopStep DEF TInv
<1>3. TInv => TypeOK
  BY DEF TInv
<1> QED BY <1>1, <1>2, <1>3, PTL DEF Spec

\* The inductive invariant.
LEMMA Invariant == SameAuthFilters => (Spec => []IInv)
<1> SUFFICES ASSUME SameAuthFilters PROVE Spec => []IInv
  OBVIOUS
<1>1. Init => IInv
  BY InitInv
<1>2. IInv /\ [Next]_vars => IInv'
  <2> SUFFICES ASSUME IInv, [Next]_vars PROVE IInv'
    OBVIOUS
  <2>1. TypeOK' /\ ReqInv'
    BY TypeStep DEF IInv
  <2>2. LoopInv'
    BY LoopStep DEF IInv
  <2>3. RememberedUser'
    BY RememberedStep DEF IInv
  <2>4. AuthGuard'
    BY GuardStep
  <2> QED BY <2>1, <2>2, <2>3, <2>4 DEF IInv
<1> QED BY <1>1, <1>2, PTL DEF Spec

\* What a session remembers for an auth filter is the name of a user whom
\* that filter accepted in that session, however many requests share it, as
\* long as reloads do not change the auth filters.
THEOREM RememberedUserHolds == SameAuthFilters => (Spec => []RememberedUser)
<1>1. IInv => RememberedUser
  BY DEF IInv
<1> QED BY <1>1, Invariant, PTL

\* No request gets past the auth filters of applyFilters unless the first one
\* that applies to its path has accepted credentials of this request or of an
\* earlier one in the same session, as long as reloads do not change the auth
\* filters.
THEOREM AuthGuardHolds == SameAuthFilters => (Spec => []AuthGuard)
<1>1. IInv => AuthGuard
  BY DEF IInv
<1> QED BY <1>1, Invariant, PTL

-----------------------------------------------------------------------------
(* The answer and the three lists *)

Of(r, k) == Applicable(req[r].list[k], req[r].path)

Beyond(r) ==
    IF Of(r, "forward") = {} THEN "app"
    ELSE sendFile(Target(First(req[r].list.forward, req[r].path), req[r].path),
                  req[r].since)

\* AnswerAgrees for one request.
AnswerAt(r) ==
    pc[r] = "flush" =>
      result[r] \in
        IF ~req[r].list.filtersEnabled THEN {"app"}
        ELSE IF Of(r, "block") # {} THEN {"blocked"}
        ELSE IF Of(r, "auth") = {} THEN {Beyond(r)}
        ELSE {Beyond(r), "unauthorized", "forbidden", "threw"}

\* The loops run for enabled filters only; the loop a request is in has passed
\* no filter that applies, and it has left the earlier ones because none does.
OrderAt(r) ==
    /\ pc[r] \in {"block", "auth", "check", "login", "remember", "forward"} =>
         req[r].list.filtersEnabled
    /\ pc[r] \in {"block", "forward"} => \A j \in Of(r, pc[r]) : idx[r] <= j
    /\ pc[r] \in {"auth", "check", "login", "remember", "forward"} =>
         Of(r, "block") = {}
    /\ pc[r] = "app" /\ req[r].list.filtersEnabled =>
         Of(r, "block") = {} /\ Of(r, "forward") = {}
    /\ AnswerAt(r)

OrderInv == \A r \in Requests : OrderAt(r)

\* AnswerAgrees, request by request.
LEMMA AnswerParts == AnswerAgrees <=> \A r \in Requests : AnswerAt(r)
  BY DEF AnswerAgrees, AnswerAt, Beyond, Of

\* A filter that a loop reaches is one of the applicable ones or not.
LEMMA ReachedIn ==
    ASSUME TInv, NEW r \in Requests, pc[r] \in Loops, InLoop(r), ~Undefined(r)
    PROVE  idx[r] \in Of(r, pc[r]) <=> Applies(Current(r), req[r].path)
<1>1. req[r].list \in Lists
  BY DEF TInv, ReqInv, RequestData, Loops
<1>2. /\ idx[r] \in DOMAIN req[r].list[pc[r]]
      /\ Current(r) = req[r].list[pc[r]][idx[r]]
  BY <1>1, ListAssumption DEF InLoop, Current, TInv, LoopInv, LoopInvAt, Loops
<1>3. ~UndefinedExtension(Current(r), req[r].path)
  BY DEF Undefined, UndefinedExtension
<1> QED BY <1>2, <1>3 DEF Of, Applicable

\* A loop that has ended has found no filter that applies, if it has passed
\* none.
LEMMA EndedEmpty ==
    ASSUME TInv, NEW r \in Requests, pc[r] \in Loops,
           idx[r] > Len(req[r].list[pc[r]]),
           \A j \in Of(r, pc[r]) : idx[r] <= j
    PROVE  Of(r, pc[r]) = {}
<1>1. req[r].list \in Lists /\ idx[r] \in Nat
  BY DEF TInv, ReqInv, RequestData, Loops, TypeOK
<1>2. Len(req[r].list[pc[r]]) \in Nat
  BY <1>1, ListAssumption DEF Loops
<1>3. \A j \in Of(r, pc[r]) : j \in Nat /\ j <= Len(req[r].list[pc[r]])
  BY <1>1, NumberedIn DEF Of, Loops
<1> QED BY <1>1, <1>2, <1>3

\* A step for one request leaves the others where they are.
LEMMA OthersKept ==
    ASSUME TypeOK, NEW r \in Requests, NEW q \in Requests, q # r,
           \/ \E c \in Clients, p \in Paths, h \in Headers, since \in Since :
                Arrive(r, c, p, h, since)
           \/ FilterStep(r)
    PROVE  /\ pc'[q] = pc[q] /\ idx'[q] = idx[q]
           /\ req'[q] = req[q] /\ result'[q] = result[q]
<1> USE DEF TypeOK, progress, request, Goto, Reply
<1>1. ASSUME NEW c \in Clients, NEW p \in Paths, NEW h \in Headers,
             NEW since \in Since, Arrive(r, c, p, h, since)
      PROVE  /\ pc'[q] = pc[q] /\ idx'[q] = idx[q]
             /\ req'[q] = req[q] /\ result'[q] = result[q]
  BY <1>1 DEF Arrive
<1>2. CASE UndefinedRead(r) \/ NextFilter(r) \/ EndLoop(r)
  BY <1>2 DEF UndefinedRead, NextFilter, EndLoop
<1>3. CASE Block(r) \/ AuthRequest(r) \/ AuthThrow(r) \/ AuthDeny(r) \/ Forward(r)
  BY <1>3 DEF Block, AuthRequest, AuthThrow, AuthDeny, Forward
<1>4. CASE AuthStart(r) \/ AuthCheck(r) \/ AuthCall(r) \/ AuthAccept(r)
  BY <1>4 DEF AuthStart, AuthCheck, AuthCall, AuthAccept
<1>5. CASE RunApp(r) \/ Finish(r)
  BY <1>5 DEF RunApp, Finish
<1> QED BY <1>1, <1>2, <1>3, <1>4, <1>5 DEF FilterStep

\* What is known of a request stays known while its place and data do.
LEMMA OrderKept ==
    ASSUME NEW q \in Requests, OrderAt(q),
           pc'[q] = pc[q], idx'[q] = idx[q], req'[q] = req[q],
           result'[q] = result[q]
    PROVE  OrderAt(q)'
  BY DEF OrderAt, AnswerAt, Beyond, Of

\* Each step keeps the order of the lists for the request it is about.
LEMMA OrderStep == TInv /\ OrderInv /\ [Next]_vars => OrderInv'
<1> SUFFICES ASSUME TInv, OrderInv, [Next]_vars, NEW q \in Requests
             PROVE  OrderAt(q)'
  BY DEF OrderInv
<1>0. TypeOK /\ ReqInv /\ LoopInvAt(q) /\ OrderAt(q)
  BY DEF TInv, LoopInv, OrderInv
<1>a. pc[q] # "idle" => req[q] \in RequestData /\ req[q].list \in Lists
  BY <1>0 DEF ReqInv, RequestData
<1>b. ASSUME UNCHANGED req  PROVE \A k \in Loops : Of(q, k)' = Of(q, k)
  BY <1>b DEF Of
<1> USE DEF progress, request
<1>1. CASE (\E s \in Sessions : Expire(s)) \/ (\E c \in Clients : Forget(c)) \/ Reload
           \/ UNCHANGED vars
  BY <1>0, <1>1, OrderKept DEF Expire, Forget, Reload, vars
<1>2. ASSUME NEW r \in Requests, r # q,
             \/ \E c \in Clients, p \in Paths, h \in Headers, since \in Since :
                  Arrive(r, c, p, h, since)
             \/ FilterStep(r)
      PROVE  OrderAt(q)'
  BY <1>0, <1>2, OthersKept, OrderKept
<1>3. ASSUME NEW c \in Clients, NEW p \in Paths, NEW h \in Headers,
             NEW since \in Since, Arrive(q, c, p, h, since)
      PROVE  OrderAt(q)'
  <2>1. /\ pc'[q] = IF list.filtersEnabled THEN "block" ELSE "app"
        /\ idx'[q] = 1 /\ req'[q].list = list /\ list \in Lists
    BY <1>0, <1>3 DEF Arrive, Goto, TypeOK
  <2>2. \A j \in Of(q, "block")' : 1 <= j
    BY <2>1, NumberedIn DEF Of
  <2> QED BY <2>1, <2>2 DEF OrderAt, AnswerAt
<1>4. CASE UndefinedRead(q)
  BY <1>0, <1>4, OrderKept DEF UndefinedRead
<1>5. CASE NextFilter(q)
  <2>1. /\ pc[q] \in Loops /\ InLoop(q) /\ ~Undefined(q) /\ UNCHANGED req
        /\ pc'[q] = pc[q] /\ idx'[q] = idx[q] + 1
    BY <1>0, <1>5 DEF NextFilter, InLoop, Goto, TypeOK
  <2>2. idx[q] \notin Of(q, pc[q])
    BY <1>5, <2>1, ReachedIn DEF NextFilter
  <2>3. \A j \in Of(q, pc[q]) : j \in Nat
    BY <1>a, <2>1, NumberedIn DEF Of, Loops
  <2>4. idx[q] \in Nat
    BY <1>0 DEF TypeOK
  <2>5. pc[q] \in {"block", "forward"} => \A j \in Of(q, pc[q]) : idx[q] + 1 <= j
    BY <1>0, <2>2, <2>3, <2>4 DEF OrderAt
  <2> QED BY <1>0, <1>b, <2>1, <2>5 DEF OrderAt, AnswerAt, Loops
<1>6. CASE EndLoop(q)
  <2>1. /\ pc[q] \in Loops /\ idx[q] > Len(req[q].list[pc[q]]) /\ UNCHANGED req
        /\ pc'[q] = After(pc[q]) /\ idx'[q] = 1
    BY <1>0, <1>6 DEF EndLoop, Goto, TypeOK
  <2>2. CASE pc[q] = "block"
    <3>1. pc'[q] = "auth" /\ Of(q, "block") = {}
      BY <1>0, <2>1, <2>2, EndedEmpty DEF After, OrderAt
    <3> QED BY <1>0, <1>b, <2>1, <2>2, <3>1 DEF OrderAt, AnswerAt, Loops
  <2>3. CASE pc[q] = "auth"
    <3>1. pc'[q] = "forward"
      BY <2>1, <2>3 DEF After
    <3>2. \A j \in Of(q, "forward") : 1 <= j
      BY <1>a, <2>3, NumberedIn DEF Of
    <3> QED BY <1>0, <1>b, <2>1, <2>3, <3>1, <3>2 DEF OrderAt, AnswerAt, Loops
  <2>4. CASE pc[q] = "forward"
    <3>1. pc'[q] = "app" /\ Of(q, "forward") = {}
      BY <1>0, <2>1, <2>4, EndedEmpty DEF After, OrderAt
    <3> QED BY <1>0, <1>b, <2>1, <2>4, <3>1 DEF OrderAt, AnswerAt, Loops
  <2> QED BY <2>1, <2>2, <2>3, <2>4 DEF Loops
<1>7. CASE AuthStart(q) \/ (AuthCheck(q) /\ ~Remembered(q)) \/ AuthCall(q)
  <2>1. /\ pc[q] \in {"auth", "check", "login"}
        /\ pc'[q] \in {"check", "login", "remember"}
        /\ UNCHANGED req
    BY <1>0, <1>7 DEF AuthStart, AuthCheck, AuthCall, Hit, At, Goto, TypeOK
  <2> QED BY <1>0, <1>b, <2>1 DEF OrderAt, AnswerAt, Loops
<1>8. CASE AuthAccept(q) \/ (AuthCheck(q) /\ Remembered(q))
  <2>1. /\ pc[q] \in {"check", "remember"} /\ pc'[q] = "forward" /\ idx'[q] = 1
        /\ UNCHANGED req
    BY <1>0, <1>8 DEF AuthAccept, AuthCheck, At, Goto, TypeOK
  <2>2. \A j \in Of(q, "forward") : 1 <= j
    BY <1>a, <2>1, NumberedIn DEF Of
  <2> QED BY <1>0, <1>b, <2>1, <2>2 DEF OrderAt, AnswerAt, Loops
<1>9. CASE Block(q)
  <2>1. /\ pc[q] = "block" /\ idx[q] \in Of(q, "block") /\ UNCHANGED req
        /\ pc'[q] = "flush" /\ result'[q] = "blocked"
    <3>1. pc[q] = "block" /\ pc[q] \in Loops
      BY <1>9 DEF Block, Hit, At, Loops
    <3>2. idx[q] \in Of(q, pc[q])
      BY <1>9, <3>1, ReachedIn DEF Block, Hit
    <3> QED BY <1>0, <1>9, <3>1, <3>2 DEF Block, Reply, TypeOK
  <2> QED BY <1>0, <1>b, <2>1 DEF OrderAt, AnswerAt, Loops
<1>10. CASE AuthRequest(q) \/ AuthThrow(q) \/ AuthDeny(q)
  <2>1. /\ pc[q] = "login" /\ pc'[q] = "flush" /\ UNCHANGED req
        /\ result'[q] \in {"unauthorized", "threw", "forbidden"}
    BY <1>0, <1>10 DEF AuthRequest, AuthThrow, AuthDeny, At, Reply, TypeOK
  <2>2. Of(q, "auth") # {}
    BY <1>0, <2>1 DEF LoopInvAt, Guards, Of
  <2> QED BY <1>0, <1>b, <2>1, <2>2 DEF OrderAt, AnswerAt, Loops
<1>11. CASE Forward(q)
  <2>1. pc[q] = "forward" /\ pc[q] \in Loops
    BY <1>11 DEF Forward, Hit, At, Loops
  <2>2. idx[q] \in Of(q, "forward") /\ \A j \in Of(q, "forward") : idx[q] <= j
    <3>1. idx[q] \in Of(q, pc[q])
      BY <1>11, <2>1, ReachedIn DEF Forward, Hit
    <3> QED BY <1>0, <2>1, <3>1 DEF OrderAt
  <2>3. Current(q) = First(req[q].list.forward, req[q].path)
    <3> DEFINE l == req[q].list
               p == req[q].path
               i == idx[q]
    <3>1. l \in Lists /\ i \in Applicable(l["forward"], p)
          /\ \A j \in Applicable(l["forward"], p) : i <= j
      BY <1>a, <2>1, <2>2 DEF Of, Loops
    <3>2. Current(q) = l["forward"][i]
      BY <2>1 DEF Current
    <3> HIDE DEF l, p, i
    <3>3. First(l["forward"], p) = l["forward"][i]
      BY <3>1, FirstInList
    <3> QED BY <3>2, <3>3 DEF l, p
  <2>4. /\ pc'[q] = "flush" /\ UNCHANGED req
        /\ result'[q] = sendFile(Target(Current(q), req[q].path), req[q].since)
    BY <1>0, <1>11 DEF Forward, Reply, TypeOK
  <2>5. Beyond(q)' = result'[q]
    BY <1>b, <2>2, <2>3, <2>4 DEF Beyond, Loops
  <2> QED BY <1>0, <1>b, <2>1, <2>4, <2>5 DEF OrderAt, AnswerAt, Loops
<1>12. CASE RunApp(q)
  <2>1. pc[q] = "app" /\ pc'[q] = "flush" /\ UNCHANGED req /\ result'[q] = "app"
    BY <1>0, <1>12 DEF RunApp, At, Reply, TypeOK
  <2>2. req[q].list.filtersEnabled => Of(q, "block") = {} /\ Beyond(q)' = "app"
    BY <1>0, <1>b, <2>1 DEF OrderAt, Beyond, Loops
  <2> QED BY <1>b, <2>1, <2>2 DEF OrderAt, AnswerAt, Loops
<1>13. CASE Finish(q)
  <2>1. pc'[q] = "idle"
    BY <1>0, <1>13 DEF Finish, Goto, TypeOK
  <2> QED BY <2>1 DEF OrderAt, AnswerAt
<1> QED BY <1>1, <1>2, <1>3, <1>4, <1>5, <1>6, <1>7, <1>8, <1>9, <1>10, <1>11,
           <1>12, <1>13 DEF Next, FilterStep

\* A request is answered as the three lists of the app it was taken for call
\* for: by the first block filter that applies, else by the auth filters or
\* the first forward filter, else by the app; also across reloads.
THEOREM AnswerHolds == Spec => []AnswerAgrees
<1>1. Init => TInv /\ OrderInv
  BY InitInv DEF IInv, TInv, Init, OrderInv, OrderAt, AnswerAt
<1>2. TInv /\ [Next]_vars => TInv'
  BY TypeStep, LoopStep DEF TInv
<1>3. OrderInv => AnswerAgrees
  BY AnswerParts DEF OrderInv, OrderAt
<1> QED BY <1>1, <1>2, <1>3, OrderStep, PTL DEF Spec
=============================================================================
