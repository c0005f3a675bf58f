------------------------- MODULE SessionStoreProofs ------------------------
(***************************************************************************)
(* The session store implements SessionStore, for every set of             *)
(* connections, IDs, objects, addresses and configurations, as long as no  *)
(* ID is generated twice.                                                  *)
(***************************************************************************)
EXTENDS SessionProofs

\* Connections have the same session if and only if they know it by the same ID.
SharedID ==
    \A c, d \in Conns : established(c) /\ established(d) =>
        (currentID[c] = currentID[d] <=> currentData[c] = currentData[d])

\* What the mapping needs: IDs and objects belong together one to one.
SInv == IInv /\ LiveBinding /\ OnlyIssuedIDs /\ KnownID /\ OwnID /\ SharedID

\* Every step keeps the IDs of shared sessions apart.
LEMMA SharedStep ==
    ASSUME FreshIDs, SInv, [Next]_vars
    PROVE  SharedID'
<1> USE DEF SInv, IInv, store, thread, TypeOK, PcInv, LiveBinding, KnownID, OwnID,
            SharedID, Bound, established
<1>1. CASE UNCHANGED <<currentData, currentID>>
  BY <1>1
<1>2. ASSUME NEW c \in Conns, Release(c)
      PROVE  SharedID'
  BY <1>2 DEF Release
<1>3. ASSUME NEW c \in Conns, invalidate(c)
      PROVE  SharedID'
  BY <1>3 DEF invalidate
<1>4. ASSUME NEW c \in Conns, LookupHit(c)
      PROVE  SharedID'
  BY <1>4 DEF LookupHit
<1>5. ASSUME NEW c \in Conns, Create(c)
      PROVE  SharedID'
  <2>1. PICK id \in generateID, o \in {x \in Objs : ~Linked(x) /\ ~Held(x)} :
          /\ currentData' = [currentData EXCEPT ![c] = o]
          /\ currentID' = [currentID EXCEPT ![c] = id]
    BY <1>5 DEF Create
  <2>2. \A d \in Conns : currentData[d] # o
    BY <2>1 DEF Held
  <2>3. \A d \in Conns : established(d) => currentID[d] # id
    BY <2>1 DEF generateID
  <2> QED BY <2>1, <2>2, <2>3
<1> QED
  BY <1>1, <1>2, <1>3, <1>4, <1>5
     DEF Next, AppStep, StartStep, vars, Tick, destroy, Open, StartID, StartCookie,
         set, unset, Close, LookupErase, LookupIgnore, FinishStart, StartThrows

\* The invariant of the mapping
LEMMA SInvHolds == ASSUME FreshIDs PROVE Spec => []SInv
<1>1. Init => SInv
  BY TypeInit DEF SInv, Init, LiveBinding, OnlyIssuedIDs, KnownID, OwnID, SharedID,
                  Bound, established
<1>2. SInv /\ [Next]_vars => SInv'
  <2> SUFFICES ASSUME SInv, [Next]_vars PROVE SInv'
    OBVIOUS
  <2>1. IInv'
    BY TypeStep, PcStep DEF SInv, IInv
  <2>2. LiveBinding'
    BY BindingStep DEF SInv
  <2>3. OnlyIssuedIDs' /\ KnownID'
    BY IssuedStep DEF SInv
  <2>4. OwnID'
    BY OwnStep DEF SInv
  <2>5. SharedID'
    BY SharedStep
  <2> QED BY <2>1, <2>2, <2>3, <2>4, <2>5 DEF SInv
<1> QED BY <1>1, <1>2, PTL DEF Spec

-----------------------------------------------------------------------------
(* What the mapping says of a session *)

\* An ID has one object and an object one ID.
LEMMA OneToOne ==
    ASSUME SInv, NEW i \in IDs, NEW j \in IDs, NEW o \in Objs, NEW p \in Objs,
           Names(i, o), Names(j, p)
    PROVE  i = j <=> o = p
<1> USE NullAssumption DEF SInv, LiveBinding, OwnID, SharedID, Bound, established
<1>1. CASE sessionData[i] = o /\ sessionData[j] = p
  BY <1>1
<1>2. ASSUME NEW d \in Conns, sessionData[i] = o, currentData[d] = p, currentID[d] = j
      PROVE  i = j <=> o = p
  BY <1>2
<1>3. ASSUME NEW c \in Conns, sessionData[j] = p, currentData[c] = o, currentID[c] = i
      PROVE  i = j <=> o = p
  BY <1>3
<1>4. ASSUME NEW c \in Conns, currentData[c] = o, currentID[c] = i,
             NEW d \in Conns, currentData[d] = p, currentID[d] = j
      PROVE  i = j <=> o = p
  BY <1>4
<1> QED BY <1>1, <1>2, <1>3, <1>4 DEF Names

\* A session can be found or is used by a connection, or it is nothing.
Mapped ==
    /\ \A id \in IDs, o \in Objs : Names(id, o) => Sess[id] = heap[o]
    /\ \A id \in IDs : (\A o \in Objs : ~Names(id, o)) => Sess[id] = Freed
    /\ \A id \in IDs :
         (\E o \in Objs : Names(id, o)) <=> (id \in Live \/ \E c \in Conns : Using[c] = id)

\* The mapping takes every ID to the object that it names.
LEMMA MappedRight == SInv => Mapped
<1> SUFFICES ASSUME SInv PROVE Mapped
  OBVIOUS
<1>1. ASSUME NEW id \in IDs, NEW o \in Objs, Names(id, o)
      PROVE  Sess[id] = heap[o]
  <2> DEFINE x == CHOOSE y \in Objs : Names(id, y)
  <2>1. x \in Objs /\ Names(id, x)
    BY <1>1
  <2>2. Sess[id] = heap[x]
    BY <1>1 DEF Sess
  <2> HIDE DEF x
  <2>3. x = o
    BY <1>1, <2>1, OneToOne
  <2> QED BY <2>2, <2>3
<1>2. ASSUME NEW id \in IDs, \A o \in Objs : ~Names(id, o)
      PROVE  Sess[id] = Freed
  BY <1>2 DEF Sess
<1>3. ASSUME NEW id \in IDs
      PROVE  (\E o \in Objs : Names(id, o)) <=> (id \in Live \/ \E c \in Conns : Using[c] = id)
  <2> USE NullAssumption DEF SInv, IInv, TypeOK, Live, Using, Bound, established, Names
  <2>1. ASSUME NEW o \in Objs, Names(id, o)
        PROVE  id \in Live \/ \E c \in Conns : Using[c] = id
    <3>1. CASE sessionData[id] = o
      BY <3>1
    <3>2. ASSUME NEW c \in Conns, currentData[c] = o, currentID[c] = id
          PROVE  Using[c] = id
      BY <3>2
    <3> QED BY <2>1, <3>1, <3>2
  <2>2. ASSUME id \in Live
        PROVE  \E o \in Objs : Names(id, o)
    BY <2>2
  <2>3. ASSUME NEW c \in Conns, Using[c] = id
        PROVE  \E o \in Objs : Names(id, o)
    <3>1. currentData[c] \in Objs /\ currentID[c] = id
      BY <2>3
    <3> QED BY <3>1
  <2> QED BY <2>1, <2>2, <2>3
<1> QED BY <1>1, <1>2, <1>3 DEF Mapped

\* A step that takes names away, and leaves the objects alone that keep one,
\* leaves what remains of the sessions.
LEMMA Kept ==
    ASSUME Mapped, Mapped',
           \A id \in IDs, o \in Objs : Names(id, o)' => Names(id, o) /\ heap'[o] = heap[o]
    PROVE  Sess' = Store!Remaining(Live', Using')
<1>1. Store!Nothing = Freed
  BY DEF Store!Nothing, Store!Empty, Freed, EmptyData
<1>2. Sess' = [id \in IDs |-> Sess'[id]]
  BY DEF Sess
<1>3. ASSUME NEW id \in IDs
      PROVE  Sess'[id] = IF id \in Live' \/ \E c \in Conns : Using'[c] = id
                         THEN Sess[id] ELSE Store!Nothing
  <2>1. CASE \E o \in Objs : Names(id, o)'
    <3>1. PICK o \in Objs : Names(id, o)'
      BY <2>1
    <3>2. Sess'[id] = heap'[o] /\ Sess[id] = heap[o] /\ heap'[o] = heap[o]
      BY <3>1 DEF Mapped
    <3> QED BY <2>1, <3>2 DEF Mapped
  <2>2. CASE \A o \in Objs : ~Names(id, o)'
    <3>1. Sess'[id] = Freed
      BY <2>2 DEF Mapped
    <3> QED BY <1>1, <2>2, <3>1 DEF Mapped
  <2> QED BY <2>1, <2>2
<1> QED BY <1>2, <1>3 DEF Store!Remaining

\* A step that changes neither names nor the objects that have one changes no session.
LEMMA Same ==
    ASSUME Mapped, Mapped',
           \A id \in IDs, o \in Objs : Names(id, o)' <=> Names(id, o),
           \A id \in IDs, o \in Objs : Names(id, o) => heap'[o] = heap[o]
    PROVE  Sess' = Sess
<1>1. Sess' = [id \in IDs |-> Sess'[id]] /\ Sess = [id \in IDs |-> Sess[id]]
  BY DEF Sess
<1>2. ASSUME NEW id \in IDs
      PROVE  Sess'[id] = Sess[id]
  <2>1. CASE \E o \in Objs : Names(id, o)
    BY <2>1 DEF Mapped
  <2>2. CASE \A o \in Objs : ~Names(id, o)
    BY <2>2 DEF Mapped
  <2> QED BY <2>1, <2>2
<1> QED BY <1>1, <1>2

\* A session ends when it is to end, if time_t can hold that time.
LEMMA ExpiryEnds ==
    ASSUME NEW k \in Keepalives, now \in 0 .. MaxTime
    PROVE  Expiry(now, k) \in Store!Ends(k)
<1>1. Expiry(now, k) \in -TimeHalf .. TimeHalf - 1
  BY ExpiryType
<1>2. ASSUME now + k < TimeHalf
      PROVE  Expiry(now, k) = now + k
  <2> DEFINE x == now + k + TimeHalf
             m == 2 * TimeHalf
  <2>1. k \in Nat /\ x \in 0 .. m - 1 /\ m \in Nat \ {0}
    BY <1>2, TimeAssumption
  <2>2. x % m = x
    <3> HIDE DEF x, m
    <3> QED BY <2>1
  <2> QED BY <2>1, <2>2, TimeAssumption DEF Expiry
<1> QED BY <1>1, <1>2 DEF Store!Ends

-----------------------------------------------------------------------------
(* Every step is one of the abstract store, or none *)

\* What the initial state is mapped to
LEMMA InitImplements == Init => Store!Init
<1> SUFFICES ASSUME Init PROVE Store!Init
  OBVIOUS
<1>1. \A id \in IDs, o \in Objs : ~Names(id, o)
  BY NullAssumption DEF Init, Names
<1>2. Sess = [id \in IDs |-> Freed]
  BY <1>1 DEF Sess
<1>3. Live = {} /\ Using = [c \in Conns |-> NoID]
  BY DEF Init, Live, Using, Bound, established
<1>4. Store!Nothing = Freed
  BY DEF Store!Nothing, Store!Empty, Freed, EmptyData
<1> QED BY <1>2, <1>3, <1>4 DEF Init, Store!Init

\* Steps on the connection only, and the clock, do not show.
LEMMA QuietStep ==
    ASSUME Mapped, Mapped', UNCHANGED <<sessionData, heap, issued, currentData, currentID>>
    PROVE  UNCHANGED <<Live, issued, Using, Sess>>
<1>1. \A id \in IDs, o \in Objs : Names(id, o)' <=> Names(id, o)
  BY DEF Names
<1>2. Sess' = Sess
  BY <1>1, Same
<1> QED BY <1>2 DEF Live, Using, Bound, established

\* A start() that finds its session resumes it.
LEMMA HitImplements ==
    ASSUME SInv, Mapped, Mapped', NEW c \in Conns, LookupHit(c)
    PROVE  Store!Next
<1> DEFINE id == call[c].id
           o == sessionData[id]
           k == call[c].keepalive
           t == Expiry(now, k)
<1> USE DEF SInv, IInv
<1>1. id \in IDs /\ o \in Objs /\ k \in Keepalives /\ currentData[c] = NoObj
  BY FoundObject DEF LookupHit, PcInv
<1>2. /\ sessionData' = sessionData /\ issued' = issued /\ now' = now
      /\ currentData' = [currentData EXCEPT ![c] = o]
      /\ currentID' = [currentID EXCEPT ![c] = id]
      /\ heap' = [heap EXCEPT ![o].expires = t]
      /\ sessionData[id] # NoObj /\ ~(heap[o].expires <= now)
  BY DEF LookupHit, Bound, Expired
<1>3. Names(id, o)
  BY DEF Names
<1>4. t \in Store!Ends(k)
  BY <1>1, ExpiryEnds DEF TypeOK
<1> HIDE DEF id, o, k, t
<1>5. \A i \in IDs, p \in Objs : Names(i, p)' <=> Names(i, p)
  BY <1>1, <1>2, <1>3, NullAssumption DEF Names, TypeOK
<1>6. Live' = Live /\ id \in Live
  BY <1>1, <1>2, <1>3 DEF Live, Bound
<1>7. Using[c] = NoID /\ Using' = [Using EXCEPT ![c] = id]
  BY <1>1, <1>2, NullAssumption DEF Using, established, TypeOK
<1>8. Sess[id] = heap[o] /\ Sess[id].expires > now
  <2>1. Sess[id] = heap[o]
    BY <1>1, <1>3 DEF Mapped
  <2>2. heap[o].expires \in Int /\ now \in Int
    BY <1>1, TimeAssumption DEF TypeOK, SessionData
  <2> QED BY <1>2, <2>1, <2>2
<1>9. Sess' = [Sess EXCEPT ![id].expires = t]
  <2>1. ASSUME NEW i \in IDs
        PROVE  Sess'[i] = IF i = id THEN [Sess[id] EXCEPT !.expires = t] ELSE Sess[i]
    <3>1. CASE i = id
      <4>1. Sess'[id] = heap'[o]
        BY <1>1, <1>3, <1>5 DEF Mapped
      <4>2. heap'[o] = [heap[o] EXCEPT !.expires = t]
        BY <1>1, <1>2 DEF TypeOK
      <4> QED BY <1>8, <3>1, <4>1, <4>2
    <3>2. CASE i # id /\ \E p \in Objs : Names(i, p)
      <4>1. PICK p \in Objs : Names(i, p)
        BY <3>2
      <4>2. p # o
        BY <1>1, <1>3, <3>2, <4>1, OneToOne
      <4>3. heap'[p] = heap[p]
        BY <1>1, <1>2, <4>2 DEF TypeOK
      <4>4. Names(i, p)'
        BY <1>5, <4>1
      <4> QED BY <3>2, <4>1, <4>3, <4>4 DEF Mapped
    <3>3. CASE i # id /\ \A p \in Objs : ~Names(i, p)
      BY <1>5, <3>3 DEF Mapped
    <3> QED BY <3>1, <3>2, <3>3
  <2>2. Sess' = [i \in IDs |-> Sess'[i]] /\ Sess = [i \in IDs |-> Sess[i]]
    BY DEF Sess
  <2> HIDE DEF Sess
  <2> QED BY <1>1, <2>1, <2>2
<1>10. Store!Resume(c, id, k)
  BY <1>2, <1>4, <1>6, <1>7, <1>8, <1>9 DEF Store!Resume
<1> QED BY <1>1, <1>10 DEF Store!Next

\* A start() that creates its session gets a new one.
LEMMA CreateImplements ==
    ASSUME FreshIDs, SInv, Mapped, Mapped', NEW c \in Conns, Create(c)
    PROVE  Store!Next
<1> DEFINE k == call[c].keepalive
           t == Expiry(now, k)
           ip == req[c].ip
<1> USE DEF SInv, IInv
<1>1. PICK id \in generateID, o \in {x \in Objs : ~Linked(x) /\ ~Held(x)} :
        /\ sessionData' = [sessionData EXCEPT ![id] = o]
        /\ heap' = [heap EXCEPT ![o] = [expires |-> t, sourceIP |-> ip, data |-> EmptyData]]
        /\ issued' = issued \cup {id}
        /\ currentData' = [currentData EXCEPT ![c] = o]
        /\ currentID' = [currentID EXCEPT ![c] = id]
  BY DEF Create
<1>2. k \in Keepalives /\ ip \in IPs /\ currentData[c] = NoObj /\ now' = now
  BY RequestType DEF Create, PcInv
<1>3. t \in Store!Ends(k)
  BY <1>2, ExpiryEnds DEF TypeOK
<1> HIDE DEF k, t, ip
<1>4. id \in IDs /\ id \notin issued /\ o \in Objs
  BY <1>1 DEF generateID
<1>5. /\ \A i \in IDs : ~Names(i, o)
      /\ \A p \in Objs : ~Names(id, p)
  <2>1. \A i \in IDs : ~Names(i, o)
    BY <1>1 DEF Names, Linked, Held
  <2>2. ASSUME NEW p \in Objs, sessionData[id] = p PROVE FALSE
    BY <1>4, <2>2, NullAssumption DEF OnlyIssuedIDs, Bound
  <2>3. ASSUME NEW p \in Objs, NEW d \in Conns, currentData[d] = p, currentID[d] = id PROVE FALSE
    BY <1>4, <2>3, NullAssumption DEF KnownID, established
  <2> QED BY <2>1, <2>2, <2>3 DEF Names
<1>6. \A i \in IDs, p \in Objs : Names(i, p)' <=> Names(i, p) \/ (i = id /\ p = o)
  <2>1. ASSUME NEW i \in IDs
        PROVE  sessionData'[i] = IF i = id THEN o ELSE sessionData[i]
    BY <1>1, <1>4 DEF TypeOK
  <2>2. ASSUME NEW d \in Conns
        PROVE  /\ currentData'[d] = IF d = c THEN o ELSE currentData[d]
               /\ currentID'[d] = IF d = c THEN id ELSE currentID[d]
    BY <1>1 DEF TypeOK
  <2>3. sessionData[id] = NoObj
    BY <1>1 DEF generateID, Bound
  <2> QED BY <1>2, <2>1, <2>2, <2>3, NullAssumption DEF Names
<1>7. Live' = Live \cup {id}
  BY <1>1, <1>4, NullAssumption DEF Live, Bound, TypeOK
<1>8. Using[c] = NoID /\ Using' = [Using EXCEPT ![c] = id]
  BY <1>1, <1>2, <1>4, NullAssumption DEF Using, established, TypeOK
<1>9. EmptyData = Store!Empty
  BY DEF EmptyData, Store!Empty
<1>10. Sess' = [Sess EXCEPT ![id] = [expires |-> t, sourceIP |-> ip, data |-> EmptyData]]
  <2> DEFINE r == [expires |-> t, sourceIP |-> ip, data |-> EmptyData]
  <2>0. heap' = [heap EXCEPT ![o] = r]
    BY <1>1
  <2> HIDE DEF r
  <2>1. ASSUME NEW i \in IDs
        PROVE  Sess'[i] = IF i = id THEN r ELSE Sess[i]
    <3>1. CASE i = id
      <4>1. Names(id, o)'
        BY <1>4, <1>6
      <4>2. heap'[o] = r
        BY <1>4, <2>0 DEF TypeOK
      <4> QED BY <1>4, <3>1, <4>1, <4>2 DEF Mapped
    <3>2. CASE i # id /\ \E p \in Objs : Names(i, p)
      <4>1. PICK p \in Objs : Names(i, p)
        BY <3>2
      <4>2. p # o
        BY <1>5, <4>1
      <4>3. heap'[p] = heap[p]
        BY <1>4, <2>0, <4>2 DEF TypeOK
      <4>4. Names(i, p)'
        BY <1>6, <4>1
      <4> QED BY <3>2, <4>1, <4>3, <4>4 DEF Mapped
    <3>3. CASE i # id /\ \A p \in Objs : ~Names(i, p)
      <4>1. \A p \in Objs : ~Names(i, p)'
        BY <1>6, <3>3
      <4> QED BY <3>3, <4>1 DEF Mapped
    <3> QED BY <3>1, <3>2, <3>3
  <2>2. Sess' = [i \in IDs |-> Sess'[i]] /\ Sess = [i \in IDs |-> Sess[i]]
    BY DEF Sess
  <2>3. Sess' = [Sess EXCEPT ![id] = r]
    BY <1>4, <2>1, <2>2
  <2> QED BY <2>3 DEF r
<1>11. Store!New(c, id, ip, k)
  BY <1>1, <1>2, <1>3, <1>4, <1>7, <1>8, <1>9, <1>10 DEF Store!New
<1> QED BY <1>2, <1>4, <1>11 DEF Store!Next

\* Writing a variable writes it for all who use the session.
LEMMA WriteImplements ==
    ASSUME SInv, Mapped, Mapped', NEW c \in Conns, NEW k \in Keys, set(c, k) \/ unset(c, k)
    PROVE  Store!Next
<1> DEFINE id == currentID[c]
           o == currentData[c]
<1> USE DEF SInv, IInv
<1>1. id \in IDs /\ o \in Objs /\ req[c].ip \in IPs
  BY RequestType DEF set, unset, established, PcInv, TypeOK
<1>2. PICK v \in IPs \cup {NoIP} : heap' = [heap EXCEPT ![o].data[k] = v]
  BY <1>1 DEF set, unset
<1>3. UNCHANGED <<now, sessionData, issued, currentData, currentID>>
  BY DEF set, unset, thread
<1>4. Names(id, o) /\ Using[c] = id
  BY <1>1, NullAssumption DEF Names, Using, established
<1> HIDE DEF id, o
<1>5. \A i \in IDs, p \in Objs : Names(i, p)' <=> Names(i, p)
  BY <1>3 DEF Names
<1>6. Live' = Live /\ Using' = Using
  BY <1>3 DEF Live, Using, Bound, established
<1>7. Sess[id] = heap[o]
  BY <1>1, <1>4 DEF Mapped
<1>8. Sess' = [Sess EXCEPT ![id].data[k] = v]
  <2> DEFINE r == [heap[o] EXCEPT !.data[k] = v]
  <2>0. heap'[o] = r /\ \A p \in Objs : p # o => heap'[p] = heap[p]
    BY <1>1, <1>2 DEF TypeOK
  <2>1. r = [Sess[id] EXCEPT !.data[k] = v]
    BY <1>7
  <2> HIDE DEF r
  <2>2. ASSUME NEW i \in IDs
        PROVE  Sess'[i] = IF i = id THEN r ELSE Sess[i]
    <3>1. CASE i = id
      BY <1>1, <1>4, <1>5, <2>0, <3>1 DEF Mapped
    <3>2. CASE i # id /\ \E p \in Objs : Names(i, p)
      <4>1. PICK p \in Objs : Names(i, p)
        BY <3>2
      <4>2. p # o
        BY <1>1, <1>4, <3>2, <4>1, OneToOne
      <4>3. Names(i, p)' /\ heap'[p] = heap[p]
        BY <1>5, <2>0, <4>1, <4>2
      <4> QED BY <3>2, <4>1, <4>3 DEF Mapped
    <3>3. CASE i # id /\ \A p \in Objs : ~Names(i, p)
      BY <1>5, <3>3 DEF Mapped
    <3> QED BY <3>1, <3>2, <3>3
  <2>3. Sess' = [i \in IDs |-> Sess'[i]] /\ Sess = [i \in IDs |-> Sess[i]]
    BY DEF Sess
  <2>4. Sess' = [Sess EXCEPT ![id] = r]
    BY <1>1, <2>2, <2>3
  <2> QED BY <2>1, <2>4
<1>9. Store!Write(c, k, v)
  BY <1>1, <1>3, <1>4, <1>6, <1>8, NullAssumption DEF Store!Write
<1> QED BY <1>9 DEF Store!Next

\* Giving up sessions, in the map or on a connection, and freeing the objects
\* that nobody refers to any more, forgets these sessions and no other.
LEMMA Forgets ==
    ASSUME TypeOK, Mapped, Mapped', heap' = Reclaim(heap, sessionData', currentData'),
           \A id \in IDs : sessionData'[id] \in {sessionData[id], NoObj},
           \A d \in Conns : \/ currentData'[d] = NoObj
                            \/ currentData'[d] = currentData[d] /\ currentID'[d] = currentID[d]
    PROVE  Sess' = Store!Remaining(Live', Using')
<1>1. ASSUME NEW id \in IDs, NEW o \in Objs, Names(id, o)'
      PROVE  Names(id, o) /\ heap'[o] = heap[o]
  <2>1. Names(id, o)
    BY <1>1, NullAssumption DEF Names
  <2>2. (\E i \in IDs : sessionData'[i] = o) \/ (\E d \in Conns : currentData'[d] = o)
    BY <1>1 DEF Names
  <2>3. heap'[o] = heap[o]
    BY <2>2, ReclaimType DEF TypeOK
  <2> QED BY <2>1, <2>3
<1> QED BY <1>1, Kept

\* What is in the map at the time is what is left of it.
LEMMA LeavesMap ==
    ASSUME TypeOK, \A id \in IDs : sessionData'[id] \in {sessionData[id], NoObj}
    PROVE  Live' = Live \ {id \in Live : sessionData'[id] = NoObj}
BY DEF Live, Bound

\* A connection that ends leaves its session.
LEMMA ReleaseImplements ==
    ASSUME SInv, Mapped, Mapped', NEW c \in Conns, Release(c), UNCHANGED <<now, sessionData, issued>>
    PROVE  Store!Next
<1> USE DEF SInv, IInv, Release
<1>1. Sess' = Store!Remaining(Live', Using')
  <2>1. \A d \in Conns : \/ currentData'[d] = NoObj
                         \/ currentData'[d] = currentData[d] /\ currentID'[d] = currentID[d]
    BY DEF TypeOK
  <2>2. heap' = Reclaim(heap, sessionData', currentData')
    OBVIOUS
  <2>3. \A id \in IDs : sessionData'[id] \in {sessionData[id], NoObj}
    OBVIOUS
  <2> QED BY <2>1, <2>2, <2>3, Forgets
<1>2. Live' = Live
  BY DEF Live, Bound
<1>3. Using' = [Using EXCEPT ![c] = NoID]
  BY DEF Using, established, TypeOK
<1>4. Store!Leave(c)
  BY <1>1, <1>2, <1>3 DEF Store!Leave
<1> QED BY <1>4 DEF Store!Next

\* A connection that invalidates ends the session that it has, and no other.
LEMMA InvalidateImplements ==
    ASSUME SInv, Mapped, Mapped', NEW c \in Conns, invalidate(c)
    PROVE  Store!Next
<1> DEFINE id == currentID[c]
<1> USE DEF SInv, IInv
<1>1. id \in IDs /\ Using[c] = id
  BY DEF invalidate, established, PcInv, Using
<1>2. /\ sessionData' = [sessionData EXCEPT ![id] = NoObj]
      /\ currentData' = [currentData EXCEPT ![c] = NoObj]
      /\ heap' = Reclaim(heap, sessionData', currentData')
      /\ UNCHANGED <<now, issued, currentID>>
  BY DEF invalidate, Erase
<1> HIDE DEF id
<1>3. Sess' = Store!Remaining(Live', Using')
  <2>1. \A d \in Conns : \/ currentData'[d] = NoObj
                         \/ currentData'[d] = currentData[d] /\ currentID'[d] = currentID[d]
    BY <1>2 DEF TypeOK
  <2>2. \A i \in IDs : sessionData'[i] \in {sessionData[i], NoObj}
    BY <1>2 DEF TypeOK
  <2> QED BY <1>2, <2>1, <2>2, Forgets
<1>4. Live' = Live \ {id}
  BY <1>1, <1>2 DEF Live, Bound, TypeOK
<1>5. Using' = [Using EXCEPT ![c] = NoID]
  BY <1>2 DEF Using, established, TypeOK
<1>6. Store!Invalidate(c)
  BY <1>1, <1>2, <1>3, <1>4, <1>5 DEF Store!Invalidate
<1> QED BY <1>6 DEF Store!Next

\* A step that only takes IDs out of the map removes their sessions.
LEMMA RemoveImplements ==
    ASSUME SInv, Mapped, Mapped', UNCHANGED <<now, issued, currentData, currentID>>,
           heap' = Reclaim(heap, sessionData', currentData),
           \A id \in IDs : sessionData'[id] \in {sessionData[id], NoObj},
           NEW S, S = {id \in Live : sessionData'[id] = NoObj},
           \/ \A id \in S : Sess[id].expires <= now
           \/ \E id \in Live, ip \in IPs : S = {id} /\ Sess[id].sourceIP # ip
           \/ S = Live /\ \A c \in Conns : Using[c] = NoID
    PROVE  Store!Next
<1> USE DEF SInv, IInv
<1>1. Using' = Using
  BY DEF Using, established
<1>2. Live' = Live \ S
  BY LeavesMap
<1>3. Sess' = Store!Remaining(Live', Using')
  BY Forgets
<1>4. S \in SUBSET IDs /\ S \subseteq Live
  BY DEF Live
<1>5. Store!Remove(S)
  BY <1>1, <1>2, <1>3, <1>4 DEF Store!Remove
<1> QED BY <1>4, <1>5 DEF Store!Next

\* A lookup removes a session that has expired or that belongs to another address.
LEMMA EraseImplements ==
    ASSUME SInv, Mapped, Mapped', NEW c \in Conns, LookupErase(c)
    PROVE  Store!Next
<1> DEFINE id == call[c].id
           o == sessionData[id]
           S == {i \in Live : sessionData'[i] = NoObj}
<1> USE DEF SInv, IInv
<1>1. id \in IDs /\ o \in Objs /\ req[c].ip \in IPs
  BY FoundObject, RequestType DEF LookupErase, PcInv
<1>2. /\ sessionData' = [sessionData EXCEPT ![id] = NoObj]
      /\ heap' = Reclaim(heap, sessionData', currentData)
      /\ UNCHANGED <<now, issued, currentData, currentID>>
      /\ heap[o].expires <= now \/ heap[o].sourceIP # req[c].ip
  BY DEF LookupErase, Erase, Expired, IPMismatch
<1>3. Sess[id] = heap[o]
  BY <1>1 DEF Names, Mapped
<1>4. id \in Live
  BY <1>1, NullAssumption DEF Live, Bound
<1> HIDE DEF id, o
<1>5. \A i \in IDs : sessionData'[i] \in {sessionData[i], NoObj}
  BY <1>2 DEF TypeOK
<1>6. S = {id}
  BY <1>1, <1>2, <1>4 DEF Live, Bound, TypeOK
<1> HIDE DEF S
<1>7. \/ \A i \in S : Sess[i].expires <= now
      \/ \E i \in Live, ip \in IPs : S = {i} /\ Sess[i].sourceIP # ip
  BY <1>1, <1>2, <1>3, <1>4, <1>6
<1> QED BY <1>2, <1>5, <1>7, RemoveImplements DEF S

\* The garbage collection removes sessions that have expired, or nothing.
LEMMA FinishImplements ==
    ASSUME SInv, Mapped, Mapped', NEW c \in Conns, FinishStart(c)
    PROVE  Store!Next
<1> DEFINE S == {i \in Live : sessionData'[i] = NoObj}
<1> USE DEF SInv, IInv
<1>1. /\ sessionData' \in {sessionData, collectGarbage}
      /\ heap' = Reclaim(heap, sessionData', currentData)
      /\ UNCHANGED <<now, issued, currentData, currentID>>
  BY DEF FinishStart, AfterCollection
<1>2. \A i \in IDs : sessionData'[i] \in {sessionData[i], NoObj}
  BY <1>1 DEF TypeOK, collectGarbage
<1>3. ASSUME NEW i \in S
      PROVE  Sess[i].expires <= now
  <2>1. i \in IDs /\ sessionData[i] \in Objs /\ Garbage(sessionData[i])
    BY <1>1, <1>3 DEF Live, Bound, TypeOK, collectGarbage
  <2>2. Sess[i] = heap[sessionData[i]]
    BY <2>1 DEF Mapped, Names
  <2>3. heap[sessionData[i]].expires \in Int /\ now \in Int
    BY <2>1, TimeAssumption DEF TypeOK, SessionData
  <2> QED BY <2>1, <2>2, <2>3 DEF Garbage
<1> HIDE DEF S
<1> QED BY <1>1, <1>2, <1>3, RemoveImplements DEF S

\* At the end all sessions go.
LEMMA DestroyImplements ==
    ASSUME SInv, Mapped, Mapped', destroy
    PROVE  Store!Next
<1> DEFINE S == {i \in Live : sessionData'[i] = NoObj}
<1> USE DEF SInv, IInv
<1>1. /\ sessionData' = [id \in IDs |-> NoObj]
      /\ heap' = Reclaim(heap, sessionData', currentData)
      /\ UNCHANGED <<now, issued, currentData, currentID>>
  BY DEF destroy, thread
<1>2. \A i \in IDs : sessionData'[i] \in {sessionData[i], NoObj}
  BY <1>1
<1>3. S = Live /\ \A c \in Conns : Using[c] = NoID
  BY <1>1 DEF Live, Using, established, destroy, PcInv
<1> HIDE DEF S
<1> QED BY <1>1, <1>2, <1>3, RemoveImplements DEF S

\* Every step of the store is one of the abstract store or changes nothing of it.
LEMMA StepImplements ==
    FreshIDs /\ SInv /\ SInv' /\ [Next]_vars => [Store!Next]_(Store!vars)
<1> SUFFICES ASSUME FreshIDs, SInv, SInv', [Next]_vars PROVE [Store!Next]_(Store!vars)
  OBVIOUS
<1>m. Mapped
  BY MappedRight
<1>n. Mapped'
  <2>1. SInv' => Mapped'
    BY MappedRight, PTL
  <2> QED BY <2>1
<1>1. CASE UNCHANGED <<now, sessionData, heap, issued, currentData, currentID>>
  BY <1>1, <1>m, <1>n, QuietStep DEF Store!vars
<1>2. CASE Tick
  <2>1. UNCHANGED <<Live, issued, Using, Sess>>
    BY <1>2, <1>m, <1>n, QuietStep DEF Tick, store, thread
  <2>2. Store!Tick
    BY <1>2, <2>1 DEF Tick, Store!Tick
  <2> QED BY <2>2 DEF Store!Next
<1>3. CASE destroy
  BY <1>3, <1>m, <1>n, DestroyImplements
<1>4. ASSUME NEW c \in Conns, NEW k \in Keys, set(c, k) \/ unset(c, k)
      PROVE  Store!Next
  BY <1>4, <1>m, <1>n, WriteImplements
<1>5. ASSUME NEW c \in Conns, LookupHit(c)
      PROVE  Store!Next
  BY <1>5, <1>m, <1>n, HitImplements
<1>6. ASSUME NEW c \in Conns, Create(c)
      PROVE  Store!Next
  BY <1>6, <1>m, <1>n, CreateImplements
<1>7. ASSUME NEW c \in Conns, LookupErase(c)
      PROVE  Store!Next
  BY <1>7, <1>m, <1>n, EraseImplements
<1>8. ASSUME NEW c \in Conns, FinishStart(c)
      PROVE  Store!Next
  BY <1>8, <1>m, <1>n, FinishImplements
<1>9. ASSUME NEW c \in Conns, invalidate(c)
      PROVE  Store!Next
  BY <1>9, <1>m, <1>n, InvalidateImplements
<1>10. ASSUME NEW c \in Conns, Release(c), UNCHANGED <<now, sessionData, issued>>
       PROVE  Store!Next
  BY <1>10, <1>m, <1>n, ReleaseImplements
<1>11. ASSUME NEW c \in Conns, Close(c) \/ StartThrows(c)
       PROVE  [Store!Next]_(Store!vars)
  BY <1>1, <1>10, <1>11 DEF Close, StartThrows
<1>12. ASSUME NEW c \in Conns,
              \/ \E r \in Request : Open(c, r)
              \/ \E id \in IDs \cup {NoID}, k \in Keepalives : StartID(c, id, k)
              \/ \E k \in Keepalives : StartCookie(c, k)
              \/ LookupIgnore(c)
       PROVE  [Store!Next]_(Store!vars)
  BY <1>1, <1>12 DEF Open, StartID, StartCookie, LookupIgnore, store
<1>13. CASE UNCHANGED vars
  BY <1>1, <1>13 DEF vars, store, thread
<1> QED
  BY <1>2, <1>3, <1>4, <1>5, <1>6, <1>7, <1>8, <1>9, <1>11, <1>12, <1>13
     DEF Next, AppStep, StartStep

\* The map of reference-counted objects behaves like a store in which a
\* session is its ID and start() is one step: connections see the variables
\* of one session if and only if they have its ID, nothing is left in memory
\* that is used again, and a session ends only for itself.  It is the chance
\* that generateID repeats an ID that separates the two.
THEOREM Implements == ASSUME FreshIDs PROVE Spec => ImplementsStore
<1>1. SInv /\ SInv' /\ [Next]_vars => [Store!Next]_(Store!vars)
  BY StepImplements
<1> QED BY InitImplements, SInvHolds, <1>1, PTL DEF Spec, ImplementsStore, Store!Spec
=============================================================================
