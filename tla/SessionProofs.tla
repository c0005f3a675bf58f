--------------------------- MODULE SessionProofs ---------------------------
(***************************************************************************)
(* Proofs about the session store for every set of connections, IDs,       *)
(* objects, addresses and configurations, with or without fresh IDs.       *)
(***************************************************************************)
EXTENDS Session, TLAPS

(***************************************************************************)
(* What the control state says about a connection: the part of the         *)
(* inductive invariant that is not a property in its own right.            *)
(***************************************************************************)
PcInv ==
    \A c \in Conns :
        /\ pc[c] = "closed" => currentData[c] = NoObj
        /\ pc[c] # "closed" => req[c] \in Request
        /\ pc[c] \in {"lookup", "create"} =>
             currentData[c] = NoObj /\ call[c].keepalive \in Keepalives
        /\ pc[c] = "lookup" => call[c].id \in IDs
        /\ pc[c] = "gc" => currentData[c] # NoObj
        /\ currentData[c] # NoObj => currentID[c] \in IDs

IInv == TypeOK /\ PcInv

-----------------------------------------------------------------------------
(* Lemmas about the operators *)

\* time_t arithmetic stays within time_t.
LEMMA ExpiryType ==
    ASSUME NEW t \in 0 .. MaxTime, NEW k \in Keepalives
    PROVE  Expiry(t, k) \in -TimeHalf .. TimeHalf - 1
<1> DEFINE x == t + k + TimeHalf
           m == 2 * TimeHalf
<1>1. x \in Int /\ m \in Nat \ {0}
  BY TimeAssumption
<1>2. x % m \in 0 .. m - 1
  <2> HIDE DEF x, m
  <2> QED BY <1>1
<1> QED BY <1>2, TimeAssumption DEF Expiry

\* Releasing objects yields objects, and leaves the reachable ones alone.
LEMMA ReclaimType ==
    ASSUME NEW h \in [Objs -> SessionData], NEW sd, NEW cd
    PROVE  /\ Reclaim(h, sd, cd) \in [Objs -> SessionData]
           /\ \A o \in Objs : (\E id \in IDs : sd[id] = o) => Reclaim(h, sd, cd)[o] = h[o]
           /\ \A o \in Objs : (\E c \in Conns : cd[c] = o) => Reclaim(h, sd, cd)[o] = h[o]
           /\ \A o \in Objs : Reclaim(h, sd, cd)[o] \in {h[o], Freed}
<1>1. Freed \in SessionData
  BY TimeAssumption DEF Freed, SessionData, EmptyData
<1> QED BY <1>1 DEF Reclaim

\* Resetting an expiry changes nothing else of the store.
LEMMA TouchType ==
    ASSUME NEW h \in [Objs -> SessionData], NEW o \in Objs,
           NEW e \in -TimeHalf .. TimeHalf - 1, NEW g,
           g = [h EXCEPT ![o].expires = e]
    PROVE  /\ g \in [Objs -> SessionData]
           /\ \A x \in Objs : /\ g[x].sourceIP = h[x].sourceIP
                              /\ g[x].data = h[x].data
<1>1. h[o] \in SessionData
  OBVIOUS
<1>2. [h[o] EXCEPT !.expires = e] \in SessionData
  BY <1>1 DEF SessionData
<1>3. g = [h EXCEPT ![o] = [h[o] EXCEPT !.expires = e]]
  OBVIOUS
<1>4. [h[o] EXCEPT !.expires = e].sourceIP = h[o].sourceIP
  BY <1>1 DEF SessionData
<1>5. [h[o] EXCEPT !.expires = e].data = h[o].data
  BY <1>1 DEF SessionData
<1>6. /\ g[o] = [h[o] EXCEPT !.expires = e]
      /\ \A x \in Objs \ {o} : g[x] = h[x]
  BY <1>3
<1>7. g \in [Objs -> SessionData]
  BY <1>2, <1>3
<1> QED BY <1>4, <1>5, <1>6, <1>7

\* Writing a session variable changes nothing else of the store.
LEMMA WriteType ==
    ASSUME NEW h \in [Objs -> SessionData], NEW o \in Objs, NEW k \in Keys,
           NEW v \in IPs \cup {NoIP}, NEW g,
           g = [h EXCEPT ![o].data[k] = v]
    PROVE  /\ g \in [Objs -> SessionData]
           /\ \A x \in Objs : g[x].sourceIP = h[x].sourceIP
           /\ g[o].data = [h[o].data EXCEPT ![k] = v]
           /\ \A x \in Objs \ {o} : g[x] = h[x]
<1>1. h[o] \in SessionData
  OBVIOUS
<1> DEFINE d == [h[o].data EXCEPT ![k] = v]
           s == [h[o] EXCEPT !.data = d]
<1>2. d \in [Keys -> IPs \cup {NoIP}]
  BY <1>1 DEF SessionData
<1>3. s \in SessionData /\ s.data = d /\ s.sourceIP = h[o].sourceIP
  BY <1>1, <1>2 DEF SessionData
<1>4. g = [h EXCEPT ![o] = s]
  OBVIOUS
<1>5. g[o] = s /\ \A x \in Objs \ {o} : g[x] = h[x]
  BY <1>4
<1>6. g \in [Objs -> SessionData]
  BY <1>3, <1>4
<1> HIDE DEF s
<1> QED BY <1>3, <1>5, <1>6

\* Erasing and collecting keep the map a map.
LEMMA MapType ==
    ASSUME TypeOK
    PROVE  /\ collectGarbage \in [IDs -> Objs \cup {NoObj}]
           /\ \A id \in IDs : Erase(id) \in [IDs -> Objs \cup {NoObj}]
BY DEF TypeOK, collectGarbage, Erase

\* The object a lookup finds is an object.
LEMMA FoundObject ==
    ASSUME TypeOK, NEW id \in IDs, Bound(id)
    PROVE  sessionData[id] \in Objs
BY DEF TypeOK, Bound

\* A request that has been opened is a request.
LEMMA RequestType ==
    ASSUME TypeOK, PcInv, NEW c \in Conns, pc[c] # "closed"
    PROVE  req[c] \in Request /\ req[c].ip \in IPs
BY DEF PcInv, Request

-----------------------------------------------------------------------------
(* Type correctness *)

\* The initial state has the right types.
LEMMA TypeInit == Init => IInv
<1> SUFFICES ASSUME Init PROVE IInv
  OBVIOUS
<1>1. Freed \in SessionData /\ NoCall \in Call
  BY TimeAssumption DEF Freed, SessionData, EmptyData, NoCall, Call
<1>2. TypeOK
  BY <1>1, TimeAssumption DEF Init, TypeOK
<1>3. PcInv
  BY DEF Init, PcInv
<1> QED BY <1>2, <1>3 DEF IInv

\* Beginning a start() records well-formed arguments.
LEMMA BeginType ==
    ASSUME TypeOK, NEW c \in Conns, NEW m \in {"id", "cookie", "auto"},
           NEW id \in IDs \cup {NoID}, NEW k \in Keepalives,
           BeginStart(c, m, id, k)
    PROVE  /\ call' \in [Conns -> Call]
           /\ pc' \in [Conns -> {"closed", "idle", "lookup", "create", "gc"}]
BY DEF BeginStart, TypeOK, Call

\* Destroying a connection keeps the types.
LEMMA ReleaseType ==
    ASSUME TypeOK, NEW c \in Conns, Release(c)
    PROVE  /\ pc' \in [Conns -> {"closed", "idle", "lookup", "create", "gc"}]
           /\ req' \in [Conns -> Request \cup {NoRequest}]
           /\ currentData' \in [Conns -> Objs \cup {NoObj}]
           /\ currentID' \in [Conns -> IDs \cup {NoID}]
           /\ cookie' \in [Conns -> IDs \cup {NoID}]
           /\ heap' \in [Objs -> SessionData]
<1>1. heap' \in [Objs -> SessionData]
  BY ReclaimType DEF Release, TypeOK
<1> QED BY <1>1 DEF Release, TypeOK

\* Every step keeps the types.
LEMMA TypeStep == IInv /\ [Next]_vars => TypeOK'
<1> SUFFICES ASSUME TypeOK, PcInv, [Next]_vars PROVE TypeOK'
  BY DEF IInv
<1> USE DEF store, thread
<1>1. CASE Tick
  BY <1>1, TimeAssumption DEF TypeOK, Tick
<1>2. CASE destroy
  <2>1. heap' \in [Objs -> SessionData]
    BY <1>2, ReclaimType DEF destroy, TypeOK
  <2> QED BY <1>2, <2>1 DEF TypeOK, destroy
<1>3. ASSUME NEW c \in Conns, NEW r \in Request, Open(c, r)
      PROVE  TypeOK'
  <2>1. r.cookie \in IDs \cup {NoID} /\ r.config.keepalive \in Keepalives
    BY ConfigAssumption DEF Request, Config
  <2>2. CASE r.config.autostart
    <3>1. BeginStart(c, "auto", r.cookie, r.config.keepalive)
      BY <1>3, <2>2 DEF Open
    <3> QED BY <1>3, <2>1, <3>1, BeginType DEF Open, TypeOK
  <2>3. CASE ~r.config.autostart
    BY <1>3, <2>3 DEF Open, TypeOK
  <2> QED BY <2>2, <2>3
<1>4. ASSUME NEW c \in Conns, NEW id \in IDs \cup {NoID},
             NEW k \in Keepalives, StartID(c, id, k)
      PROVE  TypeOK'
  BY <1>4, BeginType DEF StartID, TypeOK
<1>5. ASSUME NEW c \in Conns, NEW k \in Keepalives, StartCookie(c, k)
      PROVE  TypeOK'
  <2>1. req[c].cookie \in IDs \cup {NoID}
    BY <1>5, RequestType DEF StartCookie, Request
  <2> QED BY <1>5, <2>1, BeginType DEF StartCookie, TypeOK
<1>6. ASSUME NEW c \in Conns, NEW k \in Keys, set(c, k) \/ unset(c, k)
      PROVE  TypeOK'
  <2>1. req[c].ip \in IPs
    BY <1>6, RequestType DEF set, unset
  <2>2. currentData[c] \in Objs
    BY <1>6 DEF set, unset, established, TypeOK
  <2>3. heap' \in [Objs -> SessionData]
    <3>1. heap \in [Objs -> SessionData]
      BY DEF TypeOK
    <3>2. PICK v \in IPs \cup {NoIP} :
            heap' = [heap EXCEPT ![currentData[c]].data[k] = v]
      BY <1>6, <2>1 DEF set, unset
    <3> QED BY <2>2, <3>1, <3>2, WriteType
  <2> QED BY <1>6, <2>3 DEF set, unset, TypeOK
<1>7. ASSUME NEW c \in Conns, invalidate(c)
      PROVE  TypeOK'
  <2>1. heap' \in [Objs -> SessionData]
    BY <1>7, ReclaimType DEF invalidate, TypeOK
  <2>2. currentID[c] \in IDs
    BY <1>7 DEF invalidate, established, PcInv
  <2> QED BY <1>7, <2>1, <2>2, MapType DEF invalidate, TypeOK
<1>8. ASSUME NEW c \in Conns, Close(c)
      PROVE  TypeOK'
  BY <1>8, ReleaseType DEF Close, TypeOK
<1>9. ASSUME NEW c \in Conns, LookupHit(c)
      PROVE  TypeOK'
  <2>1. call[c].id \in IDs /\ call[c].keepalive \in Keepalives
    BY <1>9 DEF LookupHit, PcInv
  <2>2. sessionData[call[c].id] \in Objs
    BY <1>9, <2>1, FoundObject DEF LookupHit
  <2>3. Expiry(now, call[c].keepalive) \in -TimeHalf .. TimeHalf - 1
    BY <2>1, ExpiryType DEF TypeOK
  <2>4. heap' \in [Objs -> SessionData]
    BY <1>9, <2>2, <2>3, TouchType DEF LookupHit, TypeOK
  <2> QED BY <1>9, <2>1, <2>2, <2>4 DEF LookupHit, TypeOK
<1>10. ASSUME NEW c \in Conns, LookupErase(c)
       PROVE  TypeOK'
  <2>1. heap' \in [Objs -> SessionData]
    BY <1>10, ReclaimType DEF LookupErase, TypeOK
  <2>2. call[c].id \in IDs
    BY <1>10 DEF LookupErase, PcInv
  <2> QED BY <1>10, <2>1, <2>2, MapType DEF LookupErase, TypeOK
<1>11. ASSUME NEW c \in Conns, LookupIgnore(c)
       PROVE  TypeOK'
  BY <1>11 DEF LookupIgnore, TypeOK
<1>12. ASSUME NEW c \in Conns, Create(c)
       PROVE  TypeOK'
  <2>1. req[c].ip \in IPs
    BY <1>12, RequestType DEF Create
  <2>2. Expiry(now, call[c].keepalive) \in -TimeHalf .. TimeHalf - 1
    BY <1>12, ExpiryType DEF Create, TypeOK, PcInv
  <2>3. [expires |-> Expiry(now, call[c].keepalive),
         sourceIP |-> req[c].ip, data |-> EmptyData] \in SessionData
    BY <2>1, <2>2 DEF SessionData, EmptyData
  <2> QED BY <1>12, <2>3 DEF Create, TypeOK, generateID
<1>13. ASSUME NEW c \in Conns, FinishStart(c)
       PROVE  TypeOK'
  <2>1. heap' \in [Objs -> SessionData]
    BY <1>13, ReclaimType DEF FinishStart, TypeOK
  <2>2. NoCall \in Call
    BY DEF NoCall, Call
  <2>3. cookie' \in [Conns -> IDs \cup {NoID}]
    BY <1>13 DEF FinishStart, QueueCookie, TypeOK
  <2> QED BY <1>13, <2>1, <2>2, <2>3, MapType
          DEF FinishStart, AfterCollection, TypeOK
<1>14. ASSUME NEW c \in Conns, StartThrows(c)
       PROVE  TypeOK'
  <2>1. NoCall \in Call
    BY DEF NoCall, Call
  <2>2. CASE Release(c)
    BY <1>14, <2>1, <2>2, ReleaseType DEF StartThrows, TypeOK
  <2>3. CASE ~Release(c)
    BY <1>14, <2>1, <2>3 DEF StartThrows, TypeOK
  <2> QED BY <2>2, <2>3
<1>15. CASE UNCHANGED vars
  BY <1>15 DEF TypeOK, vars
<1> QED
  BY <1>1, <1>2, <1>3, <1>4, <1>5, <1>6, <1>7, <1>8, <1>9, <1>10, <1>11,
     <1>12, <1>13, <1>14, <1>15 DEF Next, AppStep, StartStep

\* Every step keeps the control state consistent.
LEMMA PcStep == IInv /\ [Next]_vars => PcInv'
<1> SUFFICES ASSUME TypeOK, PcInv, [Next]_vars PROVE PcInv'
  BY DEF IInv
<1> USE DEF store, thread, TypeOK, PcInv
<1>1. CASE Tick
  BY <1>1 DEF Tick
<1>2. CASE destroy
  BY <1>2 DEF destroy
<1>3. ASSUME NEW c \in Conns, NEW r \in Request, Open(c, r)
      PROVE  PcInv'
  <2>1. r.cookie \in IDs \cup {NoID} /\ r.config.keepalive \in Keepalives
    BY ConfigAssumption DEF Request, Config
  <2> QED BY <1>3, <2>1 DEF Open, BeginStart
<1>4. ASSUME NEW c \in Conns, NEW id \in IDs \cup {NoID},
             NEW k \in Keepalives, StartID(c, id, k)
      PROVE  PcInv'
  BY <1>4 DEF StartID, BeginStart, established
<1>5. ASSUME NEW c \in Conns, NEW k \in Keepalives, StartCookie(c, k)
      PROVE  PcInv'
  <2>1. req[c].cookie \in IDs \cup {NoID}
    BY <1>5, RequestType DEF StartCookie, Request
  <2> QED BY <1>5, <2>1 DEF StartCookie, BeginStart, established
<1>6. ASSUME NEW c \in Conns, NEW k \in Keys, set(c, k) \/ unset(c, k)
      PROVE  PcInv'
  BY <1>6 DEF set, unset
<1>7. ASSUME NEW c \in Conns, invalidate(c)
      PROVE  PcInv'
  BY <1>7 DEF invalidate
<1>8. ASSUME NEW c \in Conns, Close(c)
      PROVE  PcInv'
  BY <1>8 DEF Close, Release
<1>9. ASSUME NEW c \in Conns, LookupHit(c)
      PROVE  PcInv'
  BY <1>9 DEF LookupHit, Bound
<1>10. ASSUME NEW c \in Conns, LookupErase(c)
       PROVE  PcInv'
  BY <1>10 DEF LookupErase
<1>11. ASSUME NEW c \in Conns, LookupIgnore(c)
       PROVE  PcInv'
  BY <1>11 DEF LookupIgnore
<1>12. ASSUME NEW c \in Conns, Create(c)
       PROVE  PcInv'
  BY <1>12, NullAssumption DEF Create, generateID
<1>13. ASSUME NEW c \in Conns, FinishStart(c)
       PROVE  PcInv'
  BY <1>13 DEF FinishStart
<1>14. ASSUME NEW c \in Conns, StartThrows(c)
       PROVE  PcInv'
  BY <1>14 DEF StartThrows, Release
<1>15. CASE UNCHANGED vars
  BY <1>15 DEF vars
<1> QED
  BY <1>1, <1>2, <1>3, <1>4, <1>5, <1>6, <1>7, <1>8, <1>9, <1>10, <1>11,
     <1>12, <1>13, <1>14, <1>15 DEF Next, AppStep, StartStep

\* IInv is inductive, so that every reachable state has the right types.
THEOREM Inductive == Spec => []IInv
<1>1. IInv /\ [Next]_vars => IInv'
  BY TypeStep, PcStep DEF IInv
<1> QED BY TypeInit, <1>1, PTL DEF Spec

\* Type correctness of the session store: no handler of Session.cpp leaves the
\* map, an object or a connection with a value outside its type.
THEOREM TypeCorrect == Spec => []TypeOK
<1>1. IInv => TypeOK
  BY DEF IInv
<1> QED BY Inductive, <1>1, PTL

-----------------------------------------------------------------------------
(* An ID and its object *)

\* Every step keeps the binding between IDs, objects and connections.
LEMMA BindingStep == IInv /\ LiveBinding /\ [Next]_vars => LiveBinding'
<1> SUFFICES ASSUME TypeOK, PcInv, LiveBinding, [Next]_vars PROVE LiveBinding'
  BY DEF IInv
<1> USE DEF store, thread, TypeOK, PcInv, LiveBinding, Bound, established
<1>1. CASE Tick \/ UNCHANGED vars
  BY <1>1 DEF Tick, vars
<1>2. CASE destroy
  BY <1>2 DEF destroy
<1>3. ASSUME NEW c \in Conns,
             \/ \E r \in Request : Open(c, r)
             \/ \E id \in IDs \cup {NoID}, k \in Keepalives : StartID(c, id, k)
             \/ \E k \in Keepalives : StartCookie(c, k)
             \/ \E k \in Keys : set(c, k) \/ unset(c, k)
             \/ LookupIgnore(c)
      PROVE  LiveBinding'
  BY <1>3 DEF Open, StartID, StartCookie, set, unset, LookupIgnore
<1>4. ASSUME NEW c \in Conns, invalidate(c)
      PROVE  LiveBinding'
  BY <1>4, NullAssumption DEF invalidate, Erase
<1>5. ASSUME NEW c \in Conns, Close(c) \/ StartThrows(c)
      PROVE  LiveBinding'
  BY <1>5 DEF Close, StartThrows, Release
<1>6. ASSUME NEW c \in Conns, LookupHit(c)
      PROVE  LiveBinding'
  BY <1>6 DEF LookupHit
<1>7. ASSUME NEW c \in Conns, LookupErase(c)
      PROVE  LiveBinding'
  BY <1>7 DEF LookupErase, Erase
<1>8. ASSUME NEW c \in Conns, Create(c)
      PROVE  LiveBinding'
  BY <1>8, NullAssumption DEF Create, generateID, Linked, Held
<1>9. ASSUME NEW c \in Conns, FinishStart(c)
      PROVE  LiveBinding'
  BY <1>9 DEF FinishStart, AfterCollection, collectGarbage
<1> QED
  BY <1>1, <1>2, <1>3, <1>4, <1>5, <1>6, <1>7, <1>8, <1>9
     DEF Next, AppStep, StartStep

\* What a connection invalidates, and what its cookie names, is its own
\* session: the map never holds an object under an ID that a connection using
\* the object does not know it by.
THEOREM BindingHolds == Spec => []LiveBinding
<1>1. Init => LiveBinding
  BY DEF Init, LiveBinding, Bound, established
<1> QED BY Inductive, <1>1, BindingStep, PTL DEF Spec

\* An object is held by no connection and bound to no ID when a new session is
\* put into it.
LEMMA ReviveStep ==
    ASSUME IInv, [Next]_vars, NEW o \in Objs, Held(o), ~Linked(o)
    PROVE  ~Linked(o)'
<1> USE DEF IInv, store, thread, TypeOK, PcInv, Linked, Held
<1>1. CASE sessionData' = sessionData
  BY <1>1
<1>2. CASE destroy
  BY <1>2, NullAssumption DEF destroy
<1>3. ASSUME NEW c \in Conns, invalidate(c) \/ LookupErase(c)
      PROVE  ~Linked(o)'
  BY <1>3, NullAssumption DEF invalidate, LookupErase, Erase
<1>4. ASSUME NEW c \in Conns, Create(c)
      PROVE  ~Linked(o)'
  BY <1>4 DEF Create, generateID
<1>5. ASSUME NEW c \in Conns, FinishStart(c)
      PROVE  ~Linked(o)'
  BY <1>5, NullAssumption DEF FinishStart, AfterCollection, collectGarbage
<1> QED
  BY <1>1, <1>2, <1>3, <1>4, <1>5
     DEF Next, AppStep, StartStep, vars, Tick, Open, StartID, StartCookie,
         set, unset, Close, LookupHit, LookupIgnore, StartThrows

\* An ID is bound to an object only while it is bound to none, so that no
\* start() takes over the ID of a session another connection just created.
LEMMA RebindStep ==
    ASSUME IInv, [Next]_vars, NEW id \in IDs, Bound(id), Bound(id)'
    PROVE  sessionData'[id] = sessionData[id]
<1> USE DEF IInv, store, thread, TypeOK, PcInv, Bound
<1>1. CASE sessionData' = sessionData
  BY <1>1
<1>2. CASE destroy
  BY <1>2 DEF destroy
<1>3. ASSUME NEW c \in Conns, invalidate(c) \/ LookupErase(c)
      PROVE  sessionData'[id] = sessionData[id]
  BY <1>3 DEF invalidate, LookupErase, Erase, established
<1>4. ASSUME NEW c \in Conns, Create(c)
      PROVE  sessionData'[id] = sessionData[id]
  BY <1>4 DEF Create, generateID
<1>5. ASSUME NEW c \in Conns, FinishStart(c)
      PROVE  sessionData'[id] = sessionData[id]
  BY <1>5 DEF FinishStart, AfterCollection, collectGarbage
<1> QED
  BY <1>1, <1>2, <1>3, <1>4, <1>5
     DEF Next, AppStep, StartStep, vars, Tick, Open, StartID, StartCookie,
         set, unset, Close, LookupHit, LookupIgnore, StartThrows

\* A removed session does not come back, and an ID keeps its session.
THEOREM Removed == Spec => NeverRevived
<1>1. IInv /\ [Next]_vars =>
        [/\ \A o \in Objs : Held(o) /\ ~Linked(o) => ~Linked(o)'
         /\ \A id \in IDs : Bound(id) /\ Bound(id)' => sessionData'[id] = sessionData[id]]_vars
  BY ReviveStep, RebindStep
<1> QED BY Inductive, <1>1, PTL DEF Spec, NeverRevived

-----------------------------------------------------------------------------
(* Sessions and client addresses *)

\* Freeing what nobody refers to does not touch a session somebody holds.
LEMMA FreeingKeeps ==
    ASSUME TypeOK, ValidateIP, NEW c \in Conns,
           heap' = Reclaim(heap, sessionData', currentData'),
           \/ currentData' = currentData /\ req' = req
           \/ /\ currentData' = [currentData EXCEPT ![c] = NoObj]
              /\ req' \in {req, [req EXCEPT ![c] = NoRequest]}
    PROVE  ValidateIP'
<1>1. \A d \in Conns : currentData'[d] # NoObj =>
        /\ currentData'[d] = currentData[d] /\ req'[d] = req[d]
        /\ currentData[d] \in Objs
  BY DEF TypeOK
<1>2. \A o \in Objs : (\E d \in Conns : currentData'[d] = o) => heap'[o] = heap[o]
  BY ReclaimType DEF TypeOK
<1>3. \A d \in Conns : currentData'[d] # NoObj =>
        heap'[currentData'[d]] = heap[currentData[d]]
  BY <1>1, <1>2
<1> QED BY <1>1, <1>3 DEF ValidateIP, established

\* Every step keeps the addresses: a session is created for the address of its
\* connection, taken over after the comparison, and never changes its address
\* while a connection holds it.
LEMMA ValidateStep == IInv /\ ValidateIP /\ [Next]_vars => ValidateIP'
<1> SUFFICES ASSUME TypeOK, PcInv, ValidateIP, [Next]_vars PROVE ValidateIP'
  BY DEF IInv
<1> USE DEF store, thread, ValidateIP, established
<1>1. CASE Tick \/ UNCHANGED vars
  BY <1>1 DEF Tick, vars
<1>2. CASE destroy
  BY <1>2 DEF destroy, PcInv
<1>3. ASSUME NEW c \in Conns,
             \/ \E id \in IDs \cup {NoID}, k \in Keepalives : StartID(c, id, k)
             \/ \E k \in Keepalives : StartCookie(c, k)
             \/ LookupIgnore(c)
      PROVE  ValidateIP'
  BY <1>3 DEF StartID, StartCookie, LookupIgnore
<1>4. ASSUME NEW c \in Conns, NEW r \in Request, Open(c, r)
      PROVE  ValidateIP'
  BY <1>4 DEF Open, PcInv, TypeOK
<1>5. ASSUME NEW c \in Conns, NEW k \in Keys, set(c, k) \/ unset(c, k)
      PROVE  ValidateIP'
  <2>1. req[c].ip \in IPs /\ currentData[c] \in Objs
    BY <1>5, RequestType DEF set, unset, TypeOK
  <2>2. \A o \in Objs : heap'[o].sourceIP = heap[o].sourceIP
    <3>1. heap \in [Objs -> SessionData]
      BY DEF TypeOK
    <3>2. PICK v \in IPs \cup {NoIP} :
            heap' = [heap EXCEPT ![currentData[c]].data[k] = v]
      BY <1>5, <2>1 DEF set, unset
    <3> QED BY <2>1, <3>1, <3>2, WriteType
  <2> QED BY <1>5, <2>2 DEF set, unset, TypeOK
<1>6. ASSUME NEW c \in Conns,
             \/ invalidate(c) \/ Close(c) \/ LookupErase(c)
             \/ FinishStart(c) \/ StartThrows(c)
      PROVE  ValidateIP'
  <2>1. CASE UNCHANGED <<heap, currentData, req>>
    BY <2>1
  <2>2. CASE Release(c) /\ sessionData' = sessionData
    BY <2>2, FreeingKeeps DEF Release, TypeOK
  <2>3. CASE invalidate(c) \/ LookupErase(c) \/ FinishStart(c)
    BY <2>3, FreeingKeeps DEF invalidate, LookupErase, FinishStart
  <2> QED BY <1>6, <2>1, <2>2, <2>3 DEF Close, StartThrows
<1>7. ASSUME NEW c \in Conns, LookupHit(c)
      PROVE  ValidateIP'
  <2> DEFINE o == sessionData[call[c].id]
  <2>1. o \in Objs /\ call[c].keepalive \in Keepalives
    BY <1>7, FoundObject DEF LookupHit, PcInv
  <2>2. \A x \in Objs : heap'[x].sourceIP = heap[x].sourceIP
    BY <1>7, <2>1, TouchType, ExpiryType DEF LookupHit, TypeOK
  <2>3. Validates(req[c].config) => heap[o].sourceIP = req[c].ip
    BY <1>7 DEF LookupHit, IPMismatch
  <2> QED BY <1>7, <2>1, <2>2, <2>3 DEF LookupHit, TypeOK
<1>8. ASSUME NEW c \in Conns, Create(c)
      PROVE  ValidateIP'
  BY <1>8 DEF Create, Held, TypeOK
<1> QED
  BY <1>1, <1>2, <1>3, <1>4, <1>5, <1>6, <1>7, <1>8
     DEF Next, AppStep, StartStep

\* With validate_ip lax or strict, a connection works on sessions created for
\* its own client's address only.
THEOREM AddressHolds == Spec => []ValidateIP
<1>1. Init => ValidateIP
  BY DEF Init, ValidateIP, established
<1> QED BY Inductive, <1>1, ValidateStep, PTL DEF Spec

-----------------------------------------------------------------------------
(* IDs and cookies *)

\* A connection that has a session knows it by an ID that generateID returned.
KnownID == \A c \in Conns : established(c) => currentID[c] \in issued

\* Every step keeps both: an ID enters the map when it is issued, and a
\* connection takes an ID from the map.
LEMMA IssuedStep ==
    IInv /\ OnlyIssuedIDs /\ KnownID /\ [Next]_vars => OnlyIssuedIDs' /\ KnownID'
<1> SUFFICES ASSUME TypeOK, PcInv, OnlyIssuedIDs, KnownID, [Next]_vars
             PROVE  OnlyIssuedIDs' /\ KnownID'
  BY DEF IInv
<1> USE DEF store, thread, TypeOK, PcInv, OnlyIssuedIDs, KnownID, Bound,
            established
<1>1. CASE Tick \/ UNCHANGED vars
  BY <1>1 DEF Tick, vars
<1>2. CASE destroy
  BY <1>2 DEF destroy
<1>3. ASSUME NEW c \in Conns,
             \/ \E r \in Request : Open(c, r)
             \/ \E id \in IDs \cup {NoID}, k \in Keepalives : StartID(c, id, k)
             \/ \E k \in Keepalives : StartCookie(c, k)
             \/ \E k \in Keys : set(c, k) \/ unset(c, k)
             \/ LookupIgnore(c)
      PROVE  OnlyIssuedIDs' /\ KnownID'
  BY <1>3 DEF Open, StartID, StartCookie, set, unset, LookupIgnore
<1>4. ASSUME NEW c \in Conns, invalidate(c)
      PROVE  OnlyIssuedIDs' /\ KnownID'
  BY <1>4 DEF invalidate, Erase
<1>5. ASSUME NEW c \in Conns, Close(c) \/ StartThrows(c)
      PROVE  OnlyIssuedIDs' /\ KnownID'
  BY <1>5 DEF Close, StartThrows, Release
<1>6. ASSUME NEW c \in Conns, LookupHit(c)
      PROVE  OnlyIssuedIDs' /\ KnownID'
  BY <1>6 DEF LookupHit
<1>7. ASSUME NEW c \in Conns, LookupErase(c)
      PROVE  OnlyIssuedIDs' /\ KnownID'
  BY <1>7 DEF LookupErase, Erase
<1>8. ASSUME NEW c \in Conns, Create(c)
      PROVE  OnlyIssuedIDs' /\ KnownID'
  BY <1>8 DEF Create, generateID
<1>9. ASSUME NEW c \in Conns, FinishStart(c)
      PROVE  OnlyIssuedIDs' /\ KnownID'
  BY <1>9 DEF FinishStart, AfterCollection, collectGarbage
<1> QED
  BY <1>1, <1>2, <1>3, <1>4, <1>5, <1>6, <1>7, <1>8, <1>9
     DEF Next, AppStep, StartStep

\* No session exists under an ID that a client made up: whatever IDs requests
\* carry, start() only ever binds IDs of generateID.
THEOREM IssuedHolds == Spec => []OnlyIssuedIDs
<1>1. Init => OnlyIssuedIDs /\ KnownID
  BY DEF Init, OnlyIssuedIDs, KnownID, Bound, established
<1> QED BY Inductive, <1>1, IssuedStep, PTL DEF Spec

\* A connection never knows its session by an ID of the client's.
LEMMA KnownHolds == Spec => []KnownID
<1>1. Init => OnlyIssuedIDs /\ KnownID
  BY DEF Init, OnlyIssuedIDs, KnownID, Bound, established
<1> QED BY Inductive, <1>1, IssuedStep, PTL DEF Spec

\* Every step keeps what the queued cookies name.  A cookie is queued by a
\* start() only, which begins where no session is in force and hence without
\* one, and whoever gives up the session drops the cookie with it.
LEMMA CookieStep ==
    IInv /\ KnownID /\ CookieNamesSession /\ [Next]_vars => CookieNamesSession'
<1> SUFFICES ASSUME TypeOK, PcInv, KnownID, CookieNamesSession, [Next]_vars
             PROVE  CookieNamesSession'
  BY DEF IInv
<1> USE DEF store, thread, TypeOK, PcInv, KnownID, CookieNamesSession,
            established
<1>1. CASE Tick \/ destroy \/ UNCHANGED vars
  BY <1>1 DEF Tick, destroy, vars
<1>2. ASSUME NEW c \in Conns,
             \/ \E r \in Request : Open(c, r)
             \/ \E id \in IDs \cup {NoID}, k \in Keepalives : StartID(c, id, k)
             \/ \E k \in Keepalives : StartCookie(c, k)
             \/ \E k \in Keys : set(c, k) \/ unset(c, k)
             \/ LookupErase(c) \/ LookupIgnore(c)
      PROVE  CookieNamesSession'
  BY <1>2 DEF Open, StartID, StartCookie, set, unset, LookupErase, LookupIgnore
<1>3. ASSUME NEW c \in Conns, invalidate(c)
      PROVE  CookieNamesSession'
  BY <1>3 DEF invalidate
<1>4. ASSUME NEW c \in Conns, Close(c) \/ StartThrows(c)
      PROVE  CookieNamesSession'
  BY <1>4 DEF Close, StartThrows, Release
<1>5. ASSUME NEW c \in Conns, LookupHit(c)
      PROVE  CookieNamesSession'
  BY <1>5 DEF LookupHit
<1>6. ASSUME NEW c \in Conns, Create(c)
      PROVE  CookieNamesSession'
  BY <1>6 DEF Create
<1>7. ASSUME NEW c \in Conns, FinishStart(c)
      PROVE  CookieNamesSession'
  BY <1>7 DEF FinishStart, QueueCookie
<1> QED
  BY <1>1, <1>2, <1>3, <1>4, <1>5, <1>6, <1>7 DEF Next, AppStep, StartStep

\* The session cookie of a response names the session in force, by a generated
\* ID; after invalidate() and where start() threw there is none.
THEOREM CookieHolds == Spec => []CookieNamesSession
<1>1. Init => CookieNamesSession
  BY DEF Init, CookieNamesSession
<1> QED BY Inductive, KnownHolds, <1>1, CookieStep, PTL DEF Spec

-----------------------------------------------------------------------------
(* Whose data a session holds *)

\* The object was not written to: it keeps variables and address, or is freed.
LEMMA UnwrittenKeeps ==
    ASSUME TypeOK, PrivateData,
           \A o \in Objs : \/ heap'[o] = Freed
                           \/ /\ heap'[o].data = heap[o].data
                              /\ heap'[o].sourceIP = heap[o].sourceIP
    PROVE  PrivateData'
<1>1. \A k \in Keys : Freed.data[k] = NoIP
  BY DEF Freed, EmptyData
<1> SUFFICES ASSUME \A conf \in Configs : Validates(conf),
                    NEW o \in Objs, NEW k \in Keys
             PROVE  heap'[o].data[k] \in {NoIP, heap'[o].sourceIP}
  BY DEF PrivateData
<1> QED BY <1>1 DEF PrivateData

\* Every step keeps the variables private: they are written on behalf of the
\* client that ValidateIP has the session belong to.
LEMMA PrivateStep ==
    IInv /\ ValidateIP /\ PrivateData /\ [Next]_vars => PrivateData'
<1> SUFFICES ASSUME TypeOK, PcInv, ValidateIP, PrivateData, [Next]_vars
             PROVE  PrivateData'
  BY DEF IInv
<1>h. heap \in [Objs -> SessionData]
  BY DEF TypeOK
<1>1. CASE UNCHANGED heap
  BY <1>1 DEF PrivateData
<1>2. CASE destroy
  BY <1>2, <1>h, ReclaimType, UnwrittenKeeps DEF destroy
<1>3. ASSUME NEW c \in Conns, NEW k \in Keys, set(c, k) \/ unset(c, k)
      PROVE  PrivateData'
  <2>1. req[c] \in Request /\ req[c].ip \in IPs /\ currentData[c] \in Objs
    BY <1>3, RequestType DEF set, unset, TypeOK, established
  <2>2. PICK v \in {NoIP, req[c].ip} :
          heap' = [heap EXCEPT ![currentData[c]].data[k] = v]
    BY <1>3 DEF set, unset
  <2>3. v \in IPs \cup {NoIP}
    BY <2>1, <2>2
  <2>4. /\ \A x \in Objs : heap'[x].sourceIP = heap[x].sourceIP
        /\ \A x \in Objs \ {currentData[c]} : heap'[x] = heap[x]
    BY <1>h, <2>1, <2>2, <2>3, WriteType
  <2>5. heap'[currentData[c]].data = [heap[currentData[c]].data EXCEPT ![k] = v]
    BY <1>h, <2>1, <2>2, <2>3, WriteType
  <2>6. \A l \in Keys : heap'[currentData[c]].data[l] =
                          IF l = k THEN v ELSE heap[currentData[c]].data[l]
    <3>1. heap[currentData[c]].data \in [Keys -> IPs \cup {NoIP}]
      BY <1>h, <2>1 DEF SessionData
    <3> QED BY <2>5, <3>1
  <2> SUFFICES ASSUME \A conf \in Configs : Validates(conf),
                      NEW o \in Objs, NEW l \in Keys
               PROVE  heap'[o].data[l] \in {NoIP, heap'[o].sourceIP}
    BY DEF PrivateData
  <2>7. heap[currentData[c]].sourceIP = req[c].ip
    <3>1. Validates(req[c].config)
      BY <2>1 DEF Request
    <3> QED BY <1>3, <3>1 DEF set, unset, ValidateIP
  <2>8. heap[o].data[l] \in {NoIP, heap[o].sourceIP}
    BY DEF PrivateData
  <2> QED BY <2>2, <2>4, <2>6, <2>7, <2>8
<1>4. ASSUME NEW c \in Conns,
             \/ Release(c) \/ invalidate(c) \/ LookupErase(c) \/ FinishStart(c)
      PROVE  PrivateData'
  BY <1>4, <1>h, ReclaimType, UnwrittenKeeps
     DEF Release, invalidate, LookupErase, FinishStart
<1>5. ASSUME NEW c \in Conns, LookupHit(c)
      PROVE  PrivateData'
  <2> DEFINE o == sessionData[call[c].id]
             e == Expiry(now, call[c].keepalive)
  <2>1. o \in Objs /\ e \in -TimeHalf .. TimeHalf - 1
    BY <1>5, FoundObject, ExpiryType DEF LookupHit, PcInv, TypeOK
  <2>2. heap' = [heap EXCEPT ![o].expires = e]
    BY <1>5 DEF LookupHit
  <2> HIDE DEF o, e
  <2> QED BY <1>h, <2>1, <2>2, TouchType, UnwrittenKeeps
<1>6. ASSUME NEW c \in Conns, Create(c)
      PROVE  PrivateData'
  <2>1. PICK o \in Objs :
          heap' = [heap EXCEPT ![o] =
                     [expires |-> Expiry(now, call[c].keepalive),
                      sourceIP |-> req[c].ip, data |-> EmptyData]]
    BY <1>6 DEF Create
  <2>2. \A l \in Keys : heap'[o].data[l] = NoIP
    BY <1>h, <2>1 DEF EmptyData
  <2>3. \A x \in Objs \ {o} : heap'[x] = heap[x]
    BY <1>h, <2>1
  <2> QED BY <2>2, <2>3 DEF PrivateData
<1> QED
  BY <1>1, <1>2, <1>3, <1>4, <1>5, <1>6
     DEF Next, AppStep, StartStep, vars, store, thread, Tick, Open, StartID,
         StartCookie, Close, LookupIgnore, StartThrows

\* Where every configuration binds sessions to client addresses, a session
\* holds data of the client it was created for and of no other one.
THEOREM PrivateHolds == Spec => []PrivateData
<1>1. Init => PrivateData
  BY DEF Init, PrivateData, Freed, EmptyData
<1> QED BY Inductive, AddressHolds, <1>1, PrivateStep, PTL DEF Spec

-----------------------------------------------------------------------------
(* Why a session ends *)

\* The ID a connection remembers, if it is bound at all, is bound to the
\* connection's session.  An erased ID that is generated again, which nothing
\* but chance excludes, would break this.
OwnID ==
    \A c \in Conns :
        established(c) /\ Bound(currentID[c])
            => sessionData[currentID[c]] = currentData[c]

\* Every step keeps it, as long as generateID does not repeat an ID.
LEMMA OwnStep ==
    FreshIDs /\ IInv /\ KnownID /\ OwnID /\ [Next]_vars => OwnID'
<1> SUFFICES ASSUME FreshIDs, TypeOK, PcInv, KnownID, OwnID, [Next]_vars
             PROVE  OwnID'
  BY DEF IInv
<1> USE DEF store, thread, TypeOK, PcInv, KnownID, OwnID, Bound, established
<1>1. CASE Tick \/ UNCHANGED vars
  BY <1>1 DEF Tick, vars
<1>2. CASE destroy
  BY <1>2 DEF destroy
<1>3. ASSUME NEW c \in Conns,
             \/ \E r \in Request : Open(c, r)
             \/ \E id \in IDs \cup {NoID}, k \in Keepalives : StartID(c, id, k)
             \/ \E k \in Keepalives : StartCookie(c, k)
             \/ \E k \in Keys : set(c, k) \/ unset(c, k)
             \/ LookupIgnore(c)
      PROVE  OwnID'
  BY <1>3 DEF Open, StartID, StartCookie, set, unset, LookupIgnore
<1>4. ASSUME NEW c \in Conns, invalidate(c)
      PROVE  OwnID'
  BY <1>4 DEF invalidate, Erase
<1>5. ASSUME NEW c \in Conns, Close(c) \/ StartThrows(c)
      PROVE  OwnID'
  BY <1>5 DEF Close, StartThrows, Release
<1>6. ASSUME NEW c \in Conns, LookupHit(c)
      PROVE  OwnID'
  BY <1>6 DEF LookupHit
<1>7. ASSUME NEW c \in Conns, LookupErase(c)
      PROVE  OwnID'
  BY <1>7 DEF LookupErase, Erase
<1>8. ASSUME NEW c \in Conns, Create(c)
      PROVE  OwnID'
  BY <1>8 DEF Create, generateID
<1>9. ASSUME NEW c \in Conns, FinishStart(c)
      PROVE  OwnID'
  BY <1>9 DEF FinishStart, AfterCollection, collectGarbage
<1> QED
  BY <1>1, <1>2, <1>3, <1>4, <1>5, <1>6, <1>7, <1>8, <1>9
     DEF Next, AppStep, StartStep

\* No step unbinds an ID for another reason.
LEMMA ReasonStep ==
    ASSUME IInv, OwnID, [Next]_vars, NEW id \in IDs, Bound(id), ~Bound(id)'
    PROVE  HasReason(id)
<1> USE DEF IInv, store, thread, TypeOK, PcInv, Bound, HasReason
<1>1. CASE sessionData' = sessionData
  BY <1>1
<1>2. CASE destroy
  BY <1>2 DEF destroy
<1>3. ASSUME NEW c \in Conns, invalidate(c)
      PROVE  HasReason(id)
  <2>1. id = currentID[c] /\ currentData'[c] = NoObj
    BY <1>3 DEF invalidate, Erase, established
  <2> QED BY <1>3, <2>1 DEF invalidate, OwnID, established
<1>4. ASSUME NEW c \in Conns, LookupErase(c)
      PROVE  HasReason(id)
  <2>1. id = call[c].id /\ pc[c] = "lookup"
    BY <1>4 DEF LookupErase, Erase
  <2> QED BY <1>4, <2>1 DEF LookupErase, IPMismatch
<1>5. ASSUME NEW c \in Conns, Create(c)
      PROVE  HasReason(id)
  BY <1>5, NullAssumption DEF Create, generateID
<1>6. ASSUME NEW c \in Conns, FinishStart(c)
      PROVE  HasReason(id)
  <2>1. Garbage(sessionData[id]) /\ sessionData[id] \in Objs
    BY <1>6 DEF FinishStart, AfterCollection, collectGarbage
  <2>2. heap[sessionData[id]].expires \in Int
    BY <2>1, TimeAssumption DEF SessionData
  <2>3. Expired(sessionData[id])
    BY <2>1, <2>2, TimeAssumption DEF Garbage, Expired
  <2> QED BY <2>3
<1> QED
  BY <1>1, <1>2, <1>3, <1>4, <1>5, <1>6
     DEF Next, AppStep, StartStep, vars, Tick, Open, StartID, StartCookie,
         set, unset, Close, LookupHit, LookupIgnore, StartThrows

\* As long as no ID is generated twice, nobody can end another client's
\* session: not with a foreign or stale ID, not through a late invalidate().
THEOREM ReasonHolds == ASSUME FreshIDs PROVE Spec => LeavesForAReason
<1>1. Init => OwnID
  BY DEF Init, OwnID, established
<1>2. IInv /\ KnownID /\ OwnID /\ [Next]_vars => OwnID'
  BY OwnStep
<1>3. IInv /\ OwnID /\ [Next]_vars =>
        [\A id \in IDs : Bound(id) /\ ~Bound(id)' => HasReason(id)]_vars
  BY ReasonStep
<1> QED
  BY Inductive, KnownHolds, <1>1, <1>2, <1>3, PTL DEF Spec, LeavesForAReason
=============================================================================
