------------------------------- MODULE Output ------------------------------
(***************************************************************************)
(* What a Connection promises about its response: the head goes out once,  *)
(* as it is at the first flush, and the body goes out as it was written,   *)
(* every part of it once and in order.  Each call has an effect of its own *)
(* and no other: a flush that loses the body is no replacement of the body *)
(* by an empty one.  Response implements this.                             *)
(***************************************************************************)
EXTENDS Sequences

CONSTANTS
    Parts,     \* what may be written to a body
    Bodies,    \* what a body may be replaced by as a whole
    NoHead     \* no head has been sent

VARIABLES
    call,      \* the last call: its number and its kind
    draft,     \* the head a flush would send
    pending,   \* parts written and not yet sent
    head,      \* the head the client has received
    sent       \* the parts the client has received

vars == <<call, draft, pending, head, sent>>

Init == pending = <<>> /\ head = NoHead /\ sent = <<>>

Called(kind) == call' # call /\ call'[2] = kind

\* The head may be prepared in any way until it is sent, and to no effect
\* afterwards.
Prepare == Called("prepare") /\ UNCHANGED <<pending, head, sent>>

Write(p) ==
    /\ Called("write")
    /\ pending' = Append(pending, p)
    /\ UNCHANGED <<draft, head, sent>>

Replace(s) ==
    /\ Called("replace")
    /\ pending' = s
    /\ UNCHANGED <<head, sent>>

\* A file becomes the body; which bytes that makes it is left open.
File == Called("file") /\ UNCHANGED <<draft, head, sent>>

Flush ==
    /\ Called("flush")
    /\ head' = IF head = NoHead THEN draft ELSE head
    /\ sent' = sent \o pending
    /\ pending' = <<>>
    /\ UNCHANGED draft

Next ==
    \/ Prepare
    \/ \E p \in Parts : Write(p)
    \/ \E s \in Bodies : Replace(s)
    \/ File
    \/ Flush

Spec == Init /\ [][Next]_vars
=============================================================================
