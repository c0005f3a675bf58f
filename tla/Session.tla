------------------------------ MODULE Session ------------------------------
(***************************************************************************)
(* The session store of NAWA (src/src/session/Session.cpp): one global map *)
(* from session IDs to reference-counted SessionData objects, shared by    *)
(* the worker threads, each of which serves one connection at a time.      *)
(*                                                                         *)
(* Every read and write of the map and of a session's expiry happens under *)
(* the mutex gLock, so each critical section is one action and what a      *)
(* thread does outside of them, on its own connection only, belongs to the *)
(* neighbouring action.  Session::start takes the lock up to three times:  *)
(* Lookup, Create and FinishStart interleave with every other thread.      *)
(***************************************************************************)
EXTENDS Integers, FiniteSets

CONSTANTS
    Conns,        \* connections being served at the same time (one per worker)
    IDs,          \* session IDs, as generated and as sent by clients
    Objs,         \* memory cells for SessionData objects
    Keys,         \* names of session variables
    IPs,          \* client addresses (REMOTE_ADDR)
    NoID,         \* the empty string
    NoObj,        \* the empty shared_ptr
    NoIP,         \* the value of a session variable that is not set
    Configs,      \* configurations a connection may have been given a copy of
    Keepalives,   \* session durations an application may ask for
    MaxTime,      \* bound on the clock
    TimeHalf,     \* time_t ranges over -TimeHalf .. TimeHalf-1
    FreshIDs      \* TRUE: generateID never repeats an ID it returned before

ASSUME NullAssumption ==
    NoID \notin IDs /\ NoObj \notin Objs /\ NoIP \notin IPs

ASSUME TimeAssumption ==
    /\ MaxTime \in Nat
    /\ TimeHalf \in Nat
    /\ MaxTime < TimeHalf
    /\ Keepalives \subseteq 0 .. 2 * TimeHalf - 1

ASSUME FreshAssumption == FreshIDs \in BOOLEAN

(***************************************************************************)
(* What the [session] section of a configuration decides: validate_ip,     *)
(* autostart, the keepalive (after the fallback to 1800 for an absent or   *)
(* non-numeric value) and whether gc_divisor is a number that stoul        *)
(* accepts or one too large for it.                                        *)
(***************************************************************************)
Config == [validate_ip : {"off", "lax", "strict"}, autostart : BOOLEAN,
           keepalive : Keepalives, gc_divisor : {"number", "overflow"}]

ASSUME ConfigAssumption == Configs \subseteq Config /\ Configs # {}

VARIABLES
    now,          \* time(nullptr)
    sessionData,  \* the global map: the object bound to each ID, or NoObj
    heap,         \* the SessionData objects
    issued,       \* IDs generateID has returned so far (history)
    pc,           \* where each connection's thread is
    req,          \* address, request cookie and configuration of a connection
    call,         \* arguments of the Session::start in progress
    currentData,  \* Session::Data::currentData
    currentID,    \* Session::Data::currentID
    cookie        \* the session cookie queued in the response, or NoID

store == <<sessionData, heap, issued>>
thread == <<pc, req, call, currentData, currentID, cookie>>
vars == <<now, store, thread>>

-----------------------------------------------------------------------------
(* Objects and addresses *)

EmptyData == [k \in Keys |-> NoIP]

\* A session variable holds whatever the application stored; the model keeps
\* the address of the client on whose behalf it was stored.
SessionData == [expires : -TimeHalf .. TimeHalf - 1, sourceIP : IPs \cup {NoIP},
                data : [Keys -> IPs \cup {NoIP}]]

Freed == [expires |-> 0, sourceIP |-> NoIP, data |-> EmptyData]

Request == [ip : IPs, cookie : IDs \cup {NoID}, config : Configs]

\* Stands for the request of a connection that is closed.
NoRequest == [ip |-> NoIP, cookie |-> NoID,
              config |-> CHOOSE conf \in Configs : TRUE]

\* "id" is start(string), "cookie" start(Cookie), "auto" the start(Cookie)
\* that the constructor of Connection calls.
Call == [mode : {"id", "cookie", "auto", "none"}, id : IDs \cup {NoID},
         keepalive : Keepalives \cup {0}]

NoCall == [mode |-> "none", id |-> NoID, keepalive |-> 0]

Bound(id) == sessionData[id] # NoObj
Linked(o) == \E id \in IDs : sessionData[id] = o
Held(o) == \E c \in Conns : currentData[c] = o
established(c) == currentData[c] # NoObj

\* The last shared_ptr to an object frees it.
Reclaim(h, sd, cd) ==
    [o \in Objs |-> IF \/ \E id \in IDs : sd[id] = o
                       \/ \E c \in Conns : cd[c] = o
                    THEN h[o] ELSE Freed]

\* Mutant: the sum is kept in a wider type.
Expiry_NoWrap(t, keepalive) == t + keepalive

\* time(nullptr) + keepalive: unsigned long arithmetic stored into a time_t.
Expiry(t, keepalive) ==
    ((t + keepalive + TimeHalf) % (2 * TimeHalf)) - TimeHalf

Validates(conf) == conf.validate_ip \in {"lax", "strict"}

\* Mutant: the comparison is forgotten for "strict".
IPMismatch_LaxOnly(c, o) ==
    req[c].config.validate_ip = "lax" /\ heap[o].sourceIP # req[c].ip

IPMismatch(c, o) == Validates(req[c].config) /\ heap[o].sourceIP # req[c].ip

\* Mutant: no loop, an ID that is in use may be taken again.
generateID_NoLoop == {id \in IDs : FreshIDs => id \notin issued}

\* The IDs generateID can return: the loop in start() rejects the ones in the
\* map; that a hash of 64 random bits does not return an old ID is FreshIDs.
generateID == {id \in IDs : ~Bound(id) /\ (FreshIDs => id \notin issued)}

\* Bound of the model: a start() begins only while IDs are left for all the
\* starts in progress.
RoomForSession ==
    Cardinality({c \in Conns : pc[c] \in {"lookup", "create"}})
        < Cardinality(generateID)

-----------------------------------------------------------------------------
TypeOK ==
    /\ now \in 0 .. MaxTime
    /\ sessionData \in [IDs -> Objs \cup {NoObj}]
    /\ heap \in [Objs -> SessionData]
    /\ issued \subseteq IDs
    /\ pc \in [Conns -> {"closed", "idle", "lookup", "create", "gc"}]
    /\ req \in [Conns -> Request \cup {NoRequest}]
    /\ call \in [Conns -> Call]
    /\ currentData \in [Conns -> Objs \cup {NoObj}]
    /\ currentID \in [Conns -> IDs \cup {NoID}]
    /\ cookie \in [Conns -> IDs \cup {NoID}]

Init ==
    /\ now = 0
    /\ sessionData = [id \in IDs |-> NoObj]
    /\ heap = [o \in Objs |-> Freed]
    /\ issued = {}
    /\ pc = [c \in Conns |-> "closed"]
    /\ req = [c \in Conns |-> NoRequest]
    /\ call = [c \in Conns |-> NoCall]
    /\ currentData = [c \in Conns |-> NoObj]
    /\ currentID = [c \in Conns |-> NoID]
    /\ cookie = [c \in Conns |-> NoID]

Tick ==
    /\ now < MaxTime
    /\ now' = now + 1
    /\ UNCHANGED <<store, thread>>

(***************************************************************************)
(* Session::start up to its first critical section.  Without an ID there   *)
(* is nothing to look up.                                                  *)
(***************************************************************************)
BeginStart(c, mode, id, keepalive) ==
    /\ RoomForSession
    /\ call' = [call EXCEPT ![c] =
                  [mode |-> mode, id |-> id, keepalive |-> keepalive]]
    /\ pc' = [pc EXCEPT ![c] = IF id = NoID THEN "create" ELSE "lookup"]

(***************************************************************************)
(* A request arrives: the Connection is constructed and, with autostart,   *)
(* starts the session named by the request's cookie.                       *)
(***************************************************************************)
Open(c, r) ==
    /\ pc[c] = "closed"
    /\ req' = [req EXCEPT ![c] = r]
    /\ \/ /\ r.config.autostart
          /\ BeginStart(c, "auto", r.cookie, r.config.keepalive)
       \/ /\ ~r.config.autostart
          /\ pc' = [pc EXCEPT ![c] = "idle"]
          /\ UNCHANGED call
    /\ UNCHANGED <<now, store, currentData, currentID, cookie>>

\* start(string): returns at once when a session is established.
StartID(c, id, keepalive) ==
    /\ pc[c] = "idle"
    /\ ~established(c)
    /\ BeginStart(c, "id", id, keepalive)
    /\ UNCHANGED <<now, store, req, currentData, currentID, cookie>>

\* start(Cookie): the ID is the one in the request's session cookie.
StartCookie(c, keepalive) ==
    /\ pc[c] = "idle"
    /\ ~established(c)
    /\ BeginStart(c, "cookie", req[c].cookie, keepalive)
    /\ UNCHANGED <<now, store, req, currentData, currentID, cookie>>

(***************************************************************************)
(* First critical section of start(): take over the session with the given *)
(* ID if there is one, it has not expired and its address is acceptable.   *)
(***************************************************************************)
Expired(o) == heap[o].expires <= now

Erase(id) == [sessionData EXCEPT ![id] = NoObj]

\* Mutant: the ID is remembered for new sessions only.
LookupHit_NoID(c) ==
    LET o == sessionData[call[c].id]
    IN /\ pc[c] = "lookup"
       /\ Bound(call[c].id) /\ ~Expired(o) /\ ~IPMismatch(c, o)
       /\ currentData' = [currentData EXCEPT ![c] = o]
       /\ heap' = [heap EXCEPT ![o].expires = Expiry(now, call[c].keepalive)]
       /\ pc' = [pc EXCEPT ![c] = "gc"]
       /\ UNCHANGED <<now, sessionData, issued, req, call, currentID, cookie>>

LookupHit(c) ==
    LET id == call[c].id
        o == sessionData[id]
    IN /\ pc[c] = "lookup"
       /\ Bound(id) /\ ~Expired(o) /\ ~IPMismatch(c, o)
       /\ currentData' = [currentData EXCEPT ![c] = o]
       /\ currentID' = [currentID EXCEPT ![c] = id]
       /\ heap' = [heap EXCEPT ![o].expires = Expiry(now, call[c].keepalive)]
       /\ pc' = [pc EXCEPT ![c] = "gc"]
       /\ UNCHANGED <<now, sessionData, issued, req, call, cookie>>

LookupErase(c) ==
    LET id == call[c].id
        o == sessionData[id]
    IN /\ pc[c] = "lookup"
       /\ Bound(id)
       /\ \/ Expired(o)
          \/ IPMismatch(c, o) /\ req[c].config.validate_ip = "strict"
       /\ sessionData' = Erase(id)
       /\ heap' = Reclaim(heap, sessionData', currentData)
       /\ pc' = [pc EXCEPT ![c] = "create"]
       /\ UNCHANGED <<now, issued, req, call, currentData, currentID, cookie>>

\* Mutant: an unknown ID is looked up again and again.
LookupIgnore_Retry(c) ==
    /\ pc[c] = "lookup"
    /\ ~Bound(call[c].id)
    /\ UNCHANGED vars

LookupIgnore(c) ==
    LET id == call[c].id
        o == sessionData[id]
    IN /\ pc[c] = "lookup"
       /\ \/ ~Bound(id)
          \/ /\ Bound(id)
             /\ ~Expired(o)
             /\ IPMismatch(c, o)
             /\ req[c].config.validate_ip = "lax"
       /\ pc' = [pc EXCEPT ![c] = "create"]
       /\ UNCHANGED <<now, store, req, call, currentData, currentID, cookie>>

(***************************************************************************)
(* Second critical section: a new object under a generated ID.             *)
(***************************************************************************)
\* Mutant: an ID the client sent is adopted for the new session.
Create_ClientID(c) ==
    /\ pc[c] = "create"
    /\ \E id \in IF call[c].id = NoID \/ Bound(call[c].id)
                 THEN generateID ELSE {call[c].id},
          o \in {x \in Objs : ~Linked(x) /\ ~Held(x)} :
         /\ sessionData' = [sessionData EXCEPT ![id] = o]
         /\ heap' = [heap EXCEPT ![o] =
                       [expires |-> Expiry(now, call[c].keepalive),
                        sourceIP |-> req[c].ip, data |-> EmptyData]]
         /\ currentData' = [currentData EXCEPT ![c] = o]
         /\ currentID' = [currentID EXCEPT ![c] = id]
         /\ issued' = IF id \in generateID /\ id # call[c].id
                      THEN issued \cup {id} ELSE issued
    /\ pc' = [pc EXCEPT ![c] = "gc"]
    /\ UNCHANGED <<now, req, call, cookie>>

Create(c) ==
    /\ pc[c] = "create"
    /\ \E id \in generateID, o \in {x \in Objs : ~Linked(x) /\ ~Held(x)} :
         /\ sessionData' = [sessionData EXCEPT ![id] = o]
         /\ heap' = [heap EXCEPT ![o] =
                       [expires |-> Expiry(now, call[c].keepalive),
                        sourceIP |-> req[c].ip, data |-> EmptyData]]
         /\ issued' = issued \cup {id}
         /\ currentData' = [currentData EXCEPT ![c] = o]
         /\ currentID' = [currentID EXCEPT ![c] = id]
    /\ pc' = [pc EXCEPT ![c] = "gc"]
    /\ UNCHANGED <<now, req, call, cookie>>

(***************************************************************************)
(* The rest of start(): the garbage collection, in its own critical        *)
(* section, happens in one of gc_divisor calls; start(Cookie) then queues  *)
(* the session cookie.                                                     *)
(***************************************************************************)
Garbage(o) == heap[o].expires < now

collectGarbage ==
    [id \in IDs |-> IF Bound(id) /\ Garbage(sessionData[id])
                    THEN NoObj ELSE sessionData[id]]

QueueCookie(c) ==
    IF call[c].mode = "id" THEN cookie
    ELSE [cookie EXCEPT ![c] = currentID[c]]

\* Mutant: start() stores its session back into the map.
AfterCollection_StoreBack(c) ==
    {sessionData, [sessionData EXCEPT ![currentID[c]] = currentData[c]]}

\* The map a start() of c leaves behind: collected or not.
AfterCollection(c) == {sessionData, collectGarbage}

FinishStart(c) ==
    /\ pc[c] = "gc"
    /\ req[c].config.gc_divisor = "number"
    /\ sessionData' \in AfterCollection(c)
    /\ heap' = Reclaim(heap, sessionData', currentData)
    /\ cookie' = QueueCookie(c)
    /\ call' = [call EXCEPT ![c] = NoCall]
    /\ pc' = [pc EXCEPT ![c] = "idle"]
    /\ UNCHANGED <<now, issued, req, currentData, currentID>>

\* What is left of a connection once its object is destroyed.
Release(c) ==
    /\ pc' = [pc EXCEPT ![c] = "closed"]
    /\ req' = [req EXCEPT ![c] = NoRequest]
    /\ currentData' = [currentData EXCEPT ![c] = NoObj]
    /\ currentID' = [currentID EXCEPT ![c] = NoID]
    /\ cookie' = [cookie EXCEPT ![c] = NoID]
    /\ heap' = Reclaim(heap, sessionData, currentData')

(***************************************************************************)
(* stoul throws out_of_range, which start() does not catch: the session    *)
(* exists, no cookie is queued.  Thrown out of the constructor it also     *)
(* ends the connection; an application may catch it and go on.             *)
(***************************************************************************)
StartThrows(c) ==
    /\ pc[c] = "gc"
    /\ req[c].config.gc_divisor = "overflow"
    /\ \/ call[c].mode = "auto" /\ Release(c)
       \/ /\ call[c].mode # "auto"
          /\ pc' = [pc EXCEPT ![c] = "idle"]
          /\ UNCHANGED <<req, heap, currentData, currentID, cookie>>
    /\ call' = [call EXCEPT ![c] = NoCall]
    /\ UNCHANGED <<now, sessionData, issued>>

-----------------------------------------------------------------------------
(* Operations on an established session *)

\* set() and unset() throw, and change nothing, when none is established.
set(c, k) ==
    /\ pc[c] = "idle"
    /\ established(c)
    /\ heap' = [heap EXCEPT ![currentData[c]].data[k] = req[c].ip]
    /\ UNCHANGED <<now, sessionData, issued, thread>>

unset(c, k) ==
    /\ pc[c] = "idle"
    /\ established(c)
    /\ heap' = [heap EXCEPT ![currentData[c]].data[k] = NoIP]
    /\ UNCHANGED <<now, sessionData, issued, thread>>

\* Mutant: the cookie stays queued.
invalidate_KeepCookie(c) ==
    /\ pc[c] = "idle"
    /\ established(c)
    /\ currentData' = [currentData EXCEPT ![c] = NoObj]
    /\ sessionData' = Erase(currentID[c])
    /\ heap' = Reclaim(heap, sessionData', currentData')
    /\ UNCHANGED <<now, issued, pc, req, call, currentID, cookie>>

\* Mutant: the session named by the request's cookie is erased instead.
invalidate_RequestCookie(c) ==
    /\ pc[c] = "idle"
    /\ established(c)
    /\ currentData' = [currentData EXCEPT ![c] = NoObj]
    /\ sessionData' = [id \in IDs |->
                         IF id = req[c].cookie THEN NoObj ELSE sessionData[id]]
    /\ heap' = Reclaim(heap, sessionData', currentData')
    /\ cookie' = [cookie EXCEPT ![c] = NoID]
    /\ UNCHANGED <<now, issued, pc, req, call, currentID>>

invalidate(c) ==
    /\ pc[c] = "idle"
    /\ established(c)
    /\ currentData' = [currentData EXCEPT ![c] = NoObj]
    /\ sessionData' = Erase(currentID[c])
    /\ heap' = Reclaim(heap, sessionData', currentData')
    /\ cookie' = [cookie EXCEPT ![c] = NoID]
    /\ UNCHANGED <<now, issued, pc, req, call, currentID>>

\* The request has been answered and its Connection is destroyed.
Close(c) ==
    /\ pc[c] = "idle"
    /\ Release(c)
    /\ UNCHANGED <<now, sessionData, issued, call>>

\* ~RequestHandler clears the map after the worker threads have been joined.
destroy ==
    /\ \A c \in Conns : pc[c] = "closed"
    /\ sessionData' = [id \in IDs |-> NoObj]
    /\ heap' = Reclaim(heap, sessionData', currentData)
    /\ UNCHANGED <<now, issued, thread>>

-----------------------------------------------------------------------------
\* The application's calls, and the clients' requests.
AppStep(c) ==
    \/ \E r \in Request : Open(c, r)
    \/ \E id \in IDs \cup {NoID}, k \in Keepalives : StartID(c, id, k)
    \/ \E k \in Keepalives : StartCookie(c, k)
    \/ \E k \in Keys : set(c, k) \/ unset(c, k)
    \/ invalidate(c)
    \/ Close(c)

\* The steps of a start() that has begun.
StartStep(c) ==
    \/ LookupHit(c) \/ LookupErase(c) \/ LookupIgnore(c)
    \/ Create(c)
    \/ FinishStart(c) \/ StartThrows(c)

Next ==
    \/ Tick
    \/ destroy
    \/ \E c \in Conns : AppStep(c) \/ StartStep(c)

Spec == Init /\ [][Next]_vars

\* A thread inside start() keeps running; gLock is never held for long.
Fairness == \A c \in Conns : WF_vars(StartStep(c))

FairSpec == Spec /\ Fairness

-----------------------------------------------------------------------------
(* Properties *)

\* An object is bound to one ID at most, and a connection that has a session
\* knows the ID its object is bound to as long as it is bound at all: what
\* invalidate() erases and what the cookie names is the connection's session.
LiveBinding ==
    /\ \A i, j \in IDs : Bound(i) /\ sessionData[i] = sessionData[j] => i = j
    /\ \A c \in Conns, id \in IDs :
         established(c) /\ sessionData[id] = currentData[c] => currentID[c] = id

\* With validate_ip lax or strict a connection never works on a session that
\* was created for another client address.
ValidateIP ==
    \A c \in Conns :
        established(c) /\ Validates(req[c].config)
            => heap[currentData[c]].sourceIP = req[c].ip

\* Where every configuration binds sessions to addresses, what a session's
\* variables hold was stored by the client that owns the session.
PrivateData ==
    (\A conf \in Configs : Validates(conf)) =>
        \A o \in Objs, k \in Keys :
            heap[o].data[k] \in {NoIP, heap[o].sourceIP}

\* The response carries no session ID other than the one of the session in
\* force: not of an invalidated one, not one the client made up.
CookieNamesSession ==
    \A c \in Conns :
        cookie[c] # NoID =>
            established(c) /\ cookie[c] = currentID[c] /\ cookie[c] \in issued

\* Only generated IDs ever name a session, whatever IDs clients send.
OnlyIssuedIDs == \A id \in IDs : Bound(id) => id \in issued

\* A session that has been removed from the map (invalidated, expired, strict
\* mismatch) is never reachable through an ID again, although connections may
\* still be working on its object; and an ID is never bound to another object
\* without having been erased first.
NeverRevived ==
    [][/\ \A o \in Objs : Held(o) /\ ~Linked(o) => ~Linked(o)'
       /\ \A id \in IDs : Bound(id) /\ Bound(id)' => sessionData'[id] = sessionData[id]]_vars

\* What may end the session with this ID: it has expired, one of the
\* connections using this very session invalidates it, a request from a foreign
\* address meets validate_ip = strict, or the server shuts down.
HasReason(id) ==
    \/ Expired(sessionData[id])
    \/ \E c \in Conns : currentData[c] = sessionData[id] /\ ~established(c)'
    \/ \E c \in Conns : /\ pc[c] = "lookup" /\ call[c].id = id
                        /\ req[c].config.validate_ip = "strict"
                        /\ req[c].ip # heap[sessionData[id]].sourceIP
    \/ \A c \in Conns : pc[c] = "closed"

\* A session leaves the map for a reason of its own.
LeavesForAReason ==
    [][\A id \in IDs : Bound(id) /\ ~Bound(id)' => HasReason(id)]_vars

\* Every start() returns (or throws), however the threads interleave.
StartReturns ==
    \A c \in Conns :
        pc[c] \in {"lookup", "create", "gc"} ~> pc[c] \in {"idle", "closed"}

-----------------------------------------------------------------------------
(* Session implements SessionStore *)

\* The object o holds the session that is known by the ID.
Names(id, o) ==
    \/ sessionData[id] = o
    \/ \E c \in Conns : currentData[c] = o /\ currentID[c] = id

Live == {id \in IDs : Bound(id)}
Using == [c \in Conns |-> IF established(c) THEN currentID[c] ELSE NoID]
Sess == [id \in IDs |-> IF \E o \in Objs : Names(id, o)
                        THEN heap[CHOOSE o \in Objs : Names(id, o)] ELSE Freed]

Store == INSTANCE SessionStore WITH
    live <- Live, used <- issued, using <- Using, sess <- Sess

\* As long as no ID is generated twice, the map, the objects and their
\* reference counts behave as if a session were its ID: start() takes effect
\* at one point although it takes the lock three times, connections share
\* variables if and only if they have the same session, also one that was
\* removed meanwhile, and nothing of a session is left in the next one that
\* gets its memory.
ImplementsStore == Store!Spec
=============================================================================
