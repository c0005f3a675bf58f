---------------------------- MODULE SessionStore ---------------------------
(***************************************************************************)
(* What the session store promises to its connections: a session is its    *)
(* ID.  There are no objects, locks or reference counts here, and a        *)
(* connection gets its session in one step.  An ID stands for one session  *)
(* for ever; whoever uses it sees the same variables, also when it can no  *)
(* longer be found, and once it is neither live nor used it is forgotten.  *)
(* Session implements this as long as no ID is generated twice.            *)
(***************************************************************************)
EXTENDS Integers

CONSTANTS
    Conns, IDs, Keys, IPs, NoID, NoIP,
    Keepalives,  \* for how long a session may be asked to last
    TimeHalf     \* times are -TimeHalf .. TimeHalf-1

VARIABLES
    now,       \* the time
    live,      \* IDs under which a session can be found
    used,      \* IDs that have been given to sessions so far
    using,     \* the session of each connection, or NoID
    sess       \* what there is of each session, Nothing if there is none

vars == <<now, live, used, using, sess>>

Empty == [k \in Keys |-> NoIP]

Nothing == [expires |-> 0, sourceIP |-> NoIP, data |-> Empty]

\* When a session ends that is to last for k seconds: at a time that is not
\* promised if that is beyond the last one.
Ends(k) == IF now + k < TimeHalf THEN {now + k} ELSE -TimeHalf .. TimeHalf - 1

\* What remains of the sessions when l are live and u is who uses which.
Remaining(l, u) ==
    [id \in IDs |-> IF id \in l \/ \E c \in Conns : u[c] = id THEN sess[id] ELSE Nothing]

-----------------------------------------------------------------------------
Init ==
    /\ now = 0
    /\ live = {} /\ used = {}
    /\ using = [c \in Conns |-> NoID]
    /\ sess = [id \in IDs |-> Nothing]

Tick ==
    /\ now' = now + 1
    /\ UNCHANGED <<live, used, using, sess>>

\* A connection takes up a session that is live and has not expired.
Resume(c, id, k) ==
    /\ using[c] = NoID
    /\ id \in live /\ sess[id].expires > now
    /\ using' = [using EXCEPT ![c] = id]
    /\ \E t \in Ends(k) : sess' = [sess EXCEPT ![id].expires = t]
    /\ UNCHANGED <<now, live, used>>

\* A connection gets a new session, which is empty and has an ID of its own.
New(c, id, ip, k) ==
    /\ using[c] = NoID
    /\ id \notin used
    /\ live' = live \cup {id} /\ used' = used \cup {id}
    /\ using' = [using EXCEPT ![c] = id]
    /\ \E t \in Ends(k) :
         sess' = [sess EXCEPT ![id] = [expires |-> t, sourceIP |-> ip, data |-> Empty]]
    /\ UNCHANGED now

\* A variable is set or, with v = NoIP, removed, for all who use the session.
Write(c, k, v) ==
    /\ using[c] # NoID
    /\ sess' = [sess EXCEPT ![using[c]].data[k] = v]
    /\ UNCHANGED <<now, live, used, using>>

\* A connection is done with its session; Invalidate also ends the session.
Leave(c) ==
    /\ using' = [using EXCEPT ![c] = NoID]
    /\ sess' = Remaining(live, using')
    /\ UNCHANGED <<now, live, used>>

Invalidate(c) ==
    /\ live' = live \ {using[c]}
    /\ using' = [using EXCEPT ![c] = NoID]
    /\ sess' = Remaining(live', using')
    /\ UNCHANGED <<now, used>>

\* Sessions that have expired may be removed at any time, a session that a
\* client from another address asks for likewise; all of them at the end.
Remove(S) ==
    /\ S \subseteq live
    /\ \/ \A id \in S : sess[id].expires <= now
       \/ \E id \in live, ip \in IPs : S = {id} /\ sess[id].sourceIP # ip
       \/ S = live /\ \A c \in Conns : using[c] = NoID
    /\ live' = live \ S
    /\ sess' = Remaining(live', using)
    /\ UNCHANGED <<now, used, using>>

Next ==
    \/ Tick
    \/ \E c \in Conns, id \in IDs, k \in Keepalives :
         Resume(c, id, k) \/ \E ip \in IPs : New(c, id, ip, k)
    \/ \E c \in Conns, k \in Keys, v \in IPs \cup {NoIP} : Write(c, k, v)
    \/ \E c \in Conns : Leave(c) \/ Invalidate(c)
    \/ \E S \in SUBSET IDs : Remove(S)

Spec == Init /\ [][Next]_vars
=============================================================================
