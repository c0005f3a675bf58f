------------------------------- MODULE Mailer ------------------------------
(***************************************************************************)
(* SmtpMailer (src/src/mail/SmtpMailer.cpp): a queue of mails that is sent *)
(* over one SMTP connection, as often as the app calls processQueue, with  *)
(* failures in the middle.  libcurl and the SMTP server are external: a    *)
(* transmission needs what the options that NAWA sets ask for, and may     *)
(* fail anyway.                                                            *)
(*                                                                         *)
(* An Email is an object the queue shares with the app; of its headers the *)
(* model keeps the ones that addMissingHeaders may add.                    *)
(***************************************************************************)
EXTENDS Naturals, Sequences, FiniteSets

CONSTANTS
    Emails,       \* Email objects of the app
    Senders,      \* addresses that mails may be sent from
    WithDomain,   \* those of them that hold an at sign
    NoAddress,    \* an empty sender address
    Settings,     \* servers, with what TLS they offer, and how to use them
    MaxQueue,     \* bound on the length of the queue
    MaxPasses,    \* bound on the number of calls of processQueue
    None          \* a header that is not there, no mailer settings yet

TlsModes == {"NONE", "TRY_STARTTLS", "REQUIRE_STARTTLS", "SMTPS"}

ASSUME MailAssumption ==
    /\ NoAddress \notin Senders /\ None \notin Senders /\ WithDomain \subseteq Senders
    /\ Settings \subseteq
          [server : [smtps : BOOLEAN, starttls : BOOLEAN, goodCertificate : BOOLEAN],
           tls : TlsModes, verify : BOOLEAN]
    /\ MaxQueue \in Nat /\ MaxPasses \in Nat

VARIABLES
    settings,     \* server, TLS mode, whether certificates are verified
    from,         \* the From header of each email
    messageID,    \* its Message-ID header
    ids,          \* Message-IDs generated so far
    queue,        \* Data::queue
    at,           \* position of processQueue, 0 outside of it
    passes,       \* calls of processQueue so far
    log,          \* transmissions: which pass, which element, what was sent, how
    outcome       \* how processQueue has ended for the queue as it is

headers == <<from, messageID, ids>>
vars == <<settings, headers, queue, at, passes, log, outcome>>

TypeOK ==
    /\ settings \in Settings
    /\ from \in [Emails -> Senders \cup {None}]
    /\ ids \in Nat /\ messageID \in [Emails -> 0 .. ids]
    /\ queue \in Seq([email : Emails, from : Senders \cup {NoAddress}])
    /\ Len(queue) <= MaxQueue /\ at \in 0 .. Len(queue)
    /\ log \in Seq([pass : 1 .. MaxPasses, element : 1 .. MaxQueue, email : Emails,
                    from : Senders \cup {None}, id : 0 .. ids, plain : BOOLEAN,
                    asked : TlsModes \X BOOLEAN \X BOOLEAN])
    /\ passes \in 0 .. MaxPasses
    /\ outcome \in {"none", "sent", "error", "nothing"}

Init ==
    /\ settings \in Settings
    /\ from \in [Emails -> Senders \cup {None}]
    /\ messageID = [e \in Emails |-> 0] /\ ids = 0
    /\ queue = <<>> /\ at = 0 /\ passes = 0 /\ log = <<>> /\ outcome = "none"

-----------------------------------------------------------------------------
Idle == at = 0

\* setServer, setAuth and setConnectionTimeout
setServer(s) ==
    /\ Idle /\ settings' = s
    /\ UNCHANGED <<headers, queue, at, passes, log, outcome>>

\* Mutant: every email that is queued gets a Message-ID of its own.
addMissingHeaders_AlwaysNew(e, f) ==
    /\ from' = [from EXCEPT ![e] = IF @ = None /\ f # NoAddress THEN f ELSE @]
    /\ messageID' = [messageID EXCEPT ![e] = ids + 1] /\ ids' = ids + 1

\* From is added unless it is there or the sender has no address, Message-ID
\* unless it is there or the address has no domain to put into it; the email
\* is changed for all mails that share it.
addMissingHeaders(e, f) ==
    /\ from' = [from EXCEPT ![e] = IF @ = None /\ f # NoAddress THEN f ELSE @]
    /\ IF messageID[e] = 0 /\ f \in WithDomain
       THEN messageID' = [messageID EXCEPT ![e] = ids + 1] /\ ids' = ids + 1
       ELSE UNCHANGED <<messageID, ids>>

bulkEnqueue(e, f) ==
    /\ Idle /\ Len(queue) < MaxQueue
    /\ addMissingHeaders(e, f)
    /\ queue' = Append(queue, [email |-> e, from |-> f]) /\ outcome' = "none"
    /\ UNCHANGED <<settings, at, passes, log>>

clearQueue ==
    /\ Idle /\ queue' = <<>> /\ outcome' = "none"
    /\ UNCHANGED <<settings, headers, at, passes, log>>

\* Mutant: STARTTLS is tried where it is required.
Options_Try(s) ==
    [implicit |-> s.tls = "SMTPS",
     ssl      |-> IF s.tls \in {"REQUIRE_STARTTLS", "TRY_STARTTLS"} THEN "try" ELSE "none",
     verify   |-> s.tls = "NONE" \/ s.verify]

\* What curl is told: the scheme of the URL, USE_SSL and the verification.
\* Verification stays on, the default, unless TLS is used without it.
Options(s) ==
    [implicit |-> s.tls = "SMTPS",
     ssl      |-> IF s.tls = "REQUIRE_STARTTLS" THEN "all"
                  ELSE IF s.tls = "TRY_STARTTLS" THEN "try" ELSE "none",
     verify   |-> s.tls = "NONE" \/ s.verify]

\* Whether a connection is encrypted under these options, if it comes about.
Encrypted(o, server) == o.implicit \/ (o.ssl # "none" /\ server.starttls)
Possible(o, server) ==
    /\ o.implicit => server.smtps
    /\ o.ssl = "all" => server.starttls
    /\ Encrypted(o, server) /\ o.verify => server.goodCertificate

-----------------------------------------------------------------------------
(* processQueue *)

\* Without a curl handle it returns and nothing is sent, which looks like
\* success; an empty queue is done at once.
BeginPass ==
    /\ Idle /\ passes < MaxPasses /\ passes' = passes + 1
    /\ \/ queue # <<>> /\ at' = 1 /\ outcome' = "none"
       \/ queue = <<>> /\ at' = 0 /\ outcome' = "sent"
       \/ at' = 0 /\ outcome' = "nothing"
    /\ UNCHANGED <<settings, headers, queue, log>>

Transmission(k) ==
    LET m == queue[k] IN
    [pass |-> passes, element |-> k, email |-> m.email,
     from |-> from[m.email], id |-> messageID[m.email],
     plain |-> ~Encrypted(Options(settings), settings.server),
     asked |-> <<settings.tls, settings.verify, settings.server.goodCertificate>>]

\* Mutant: an error skips one mail instead of ending the pass.
SendFails_Skip ==
    /\ ~Idle
    /\ at' = IF at = Len(queue) THEN 0 ELSE at + 1
    /\ outcome' = IF at = Len(queue) THEN "sent" ELSE outcome
    /\ UNCHANGED <<settings, headers, queue, passes, log>>

\* Mutant: the loop runs past the end of the queue.
Send_PastEnd ==
    /\ ~Idle /\ Possible(Options(settings), settings.server)
    /\ log' = Append(log, Transmission(at)) /\ at' = at + 1
    /\ UNCHANGED <<settings, headers, queue, passes, outcome>>

\* curl reports success for the mail at this position.
Send ==
    /\ ~Idle /\ Possible(Options(settings), settings.server)
    /\ log' = Append(log, Transmission(at))
    /\ at' = IF at = Len(queue) THEN 0 ELSE at + 1
    /\ outcome' = IF at = Len(queue) THEN "sent" ELSE outcome
    /\ UNCHANGED <<settings, headers, queue, passes>>

\* curl reports an error: the exception ends the pass, the queue stays as it
\* is.  The server may have received the mail nevertheless.
SendFails ==
    /\ ~Idle
    /\ \/ log' = log
       \/ Possible(Options(settings), settings.server) /\ log' = Append(log, Transmission(at))
    /\ at' = 0 /\ outcome' = "error"
    /\ UNCHANGED <<settings, headers, queue, passes>>

Next ==
    \/ \E s \in Settings : setServer(s)
    \/ \E e \in Emails, f \in Senders \cup {NoAddress} : bulkEnqueue(e, f)
    \/ clearQueue \/ BeginPass \/ Send \/ SendFails

Spec == Init /\ [][Next]_vars

-----------------------------------------------------------------------------
(* Properties *)

OfPass(p) == {i \in 1 .. Len(log) : log[i].pass = p}

\* A processQueue that returns after it had a connection has sent every mail
\* of the queue, in the order of the queue and each of them once; one that
\* throws has sent a part of it from the beginning.
PassComplete ==
    /\ \A p \in 1 .. passes : \A i, j \in OfPass(p) :
          log[j].element - log[i].element = j - i
    /\ \A p \in 1 .. passes : OfPass(p) # {} =>
          \E i \in OfPass(p) : log[i].element = 1
    /\ outcome = "sent" => Cardinality(OfPass(passes)) = Len(queue)

\* However often a mail is sent again after an error, and however often its
\* Email object is queued, all transmissions of it carry the same Message-ID
\* and From header, so that the receiver can recognise the repetition.
SameMailAgain ==
    \A i, j \in 1 .. Len(log) :
        log[i].email = log[j].email /\ log[i].id # 0 /\ log[j].id # 0 =>
            log[i].id = log[j].id /\ log[i].from = log[j].from

\* No mail has left in plain text where the app requires TLS, nor over a
\* connection whose certificate had to be verified and is bad, whatever the
\* app changes between the passes.
TlsHonoured ==
    \A i \in 1 .. Len(log) :
        LET asked == log[i].asked IN
        /\ log[i].plain => asked[1] \in {"NONE", "TRY_STARTTLS"}
        /\ ~log[i].plain /\ asked[2] => asked[3]
=============================================================================
