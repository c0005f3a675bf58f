---------------------------- MODULE MailerProofs ---------------------------
(***************************************************************************)
(* Proofs for Mailer: for any number of emails, senders, settings, mails   *)
(* in the queue and calls of processQueue.                                 *)
(***************************************************************************)
EXTENDS Mailer, FiniteSetTheorems, TLAPS

-----------------------------------------------------------------------------
(* The inductive invariant *)

\* An email with a Message-ID has a From header, which is what makes both of
\* them final, and every transmission that had a Message-ID had both.
HeaderInv ==
    /\ \A e \in Emails : messageID[e] # 0 => from[e] # None
    /\ \A i \in 1 .. Len(log) : log[i].id # 0 =>
          log[i].id = messageID[log[i].email] /\ log[i].from = from[log[i].email]

\* The transmissions of a pass follow each other in the log, the first mail
\* of the queue first.
LogOrder ==
    /\ \A i \in 1 .. Len(log) : log[i].pass <= passes
    /\ \A i \in 1 .. Len(log) :
          /\ log[i].element <= i
          /\ \A j \in 1 .. Len(log) : log[i].pass = log[j].pass =>
                log[j].element - log[i].element = j - i
          /\ log[i - log[i].element + 1].pass = log[i].pass

\* The last k entries of the log are those of this pass.
PassAtEnd(k) ==
    /\ k <= Len(log)
    /\ \A i \in 1 .. Len(log) :
          /\ log[i].pass = passes <=> i > Len(log) - k
          /\ log[i].pass = passes => log[i].element = i - (Len(log) - k)

PassInv ==
    /\ at > 0 => passes > 0 /\ outcome = "none" /\ PassAtEnd(at - 1)
    /\ outcome = "sent" => PassAtEnd(Len(queue))

IInv == TypeOK /\ HeaderInv /\ LogOrder /\ PassInv /\ TlsHonoured

-----------------------------------------------------------------------------
(* Lemmas *)

Mail == [email : Emails, from : Senders \cup {NoAddress}]

Entry == [pass : 1 .. MaxPasses, element : 1 .. MaxQueue, email : Emails,
          from : Senders \cup {None}, id : 0 .. ids, plain : BOOLEAN,
          asked : TlsModes \X BOOLEAN \X BOOLEAN]

\* What Append does to the positions of a sequence.
LEMMA Appended ==
    ASSUME NEW S, NEW s \in Seq(S), NEW x \in S
    PROVE  /\ Append(s, x) \in Seq(S)
           /\ Len(Append(s, x)) = Len(s) + 1 /\ Len(s) \in Nat
           /\ Append(s, x)[Len(s) + 1] = x
           /\ \A i \in 1 .. Len(s) : Append(s, x)[i] = s[i]
    OBVIOUS

\* What the TLS options promise of a connection that comes about under them.
LEMMA OptionsHonoured ==
    ASSUME NEW s \in Settings, Possible(Options(s), s.server)
    PROVE  /\ ~Encrypted(Options(s), s.server) => s.tls \in {"NONE", "TRY_STARTTLS"}
           /\ Encrypted(Options(s), s.server) /\ s.verify => s.server.goodCertificate
<1>1. /\ s.tls \in TlsModes /\ s.verify \in BOOLEAN
      /\ s.server.starttls \in BOOLEAN /\ s.server.smtps \in BOOLEAN
      /\ s.server.goodCertificate \in BOOLEAN
    BY MailAssumption
<1>2. CASE s.tls = "REQUIRE_STARTTLS"
    BY <1>1, <1>2 DEF Possible, Options, Encrypted
<1>3. CASE s.tls = "SMTPS"
    BY <1>1, <1>3 DEF Possible, Options, Encrypted
<1>4. CASE s.tls \in {"NONE", "TRY_STARTTLS"}
    BY <1>1, <1>4 DEF Possible, Options, Encrypted
<1> QED BY <1>1, <1>2, <1>3, <1>4 DEF TlsModes

\* A transmission of the mail at hand is an entry of the log.
LEMMA TransmissionType ==
    ASSUME TypeOK, ~Idle, 1 <= passes
    PROVE  Transmission(at) \in Entry
<1>1. at \in 1 .. Len(queue) /\ at \in 1 .. MaxQueue /\ passes \in 1 .. MaxPasses
    BY MailAssumption DEF TypeOK, Idle
<1>2. queue[at] \in Mail
  <2>1. queue \in Seq(Mail)
    BY DEF TypeOK, Mail
  <2> QED BY <1>1, <2>1
<1>3. /\ settings.tls \in TlsModes /\ settings.verify \in BOOLEAN
      /\ settings.server.goodCertificate \in BOOLEAN
    BY MailAssumption DEF TypeOK
<1>4. (~Encrypted(Options(settings), settings.server)) \in BOOLEAN
    BY DEF Encrypted
<1> QED BY <1>1, <1>2, <1>3, <1>4 DEF TypeOK, Transmission, Mail, Entry

-----------------------------------------------------------------------------
(* Every action keeps the invariant *)

\* A transmission is logged: what holds of the log holds of the longer one.
\* The mail at hand is the one after those the pass has logged.
LEMMA LoggedKeeps ==
    ASSUME IInv, ~Idle, 1 <= passes, Possible(Options(settings), settings.server),
           log' = Append(log, Transmission(at)),
           UNCHANGED <<settings, headers, queue, passes>>
    PROVE  /\ log' \in Seq(Entry)
           /\ HeaderInv' /\ TlsHonoured' /\ LogOrder'
           /\ at <= Len(log')
           /\ \A i \in 1 .. Len(log') :
                 /\ log'[i].pass = passes <=> i > Len(log') - at
                 /\ log'[i].pass = passes => log'[i].element = i - (Len(log') - at)
<1> DEFINE t == Transmission(at)
           n == Len(log)
<1>1. t \in Entry
    BY TransmissionType DEF IInv
<1>2. log \in Seq(Entry)
    BY DEF IInv, TypeOK, Entry
<1>3. /\ log' \in Seq(Entry) /\ n \in Nat /\ Len(log') = n + 1
      /\ log'[n + 1] = t /\ \A i \in 1 .. n : log'[i] = log[i]
    BY <1>1, <1>2, Appended
<1>4. /\ t.pass = passes /\ t.element = at /\ t.email = queue[at].email
      /\ t.id = messageID[t.email] /\ t.from = from[t.email]
      /\ t.plain = ~Encrypted(Options(settings), settings.server)
      /\ t.asked = <<settings.tls, settings.verify, settings.server.goodCertificate>>
    BY DEF Transmission
<1> HIDE DEF t
<1>5. HeaderInv'
    BY <1>3, <1>4 DEF IInv, HeaderInv, headers
<1>6. TlsHonoured'
  <2>1. settings \in Settings
    BY DEF IInv, TypeOK
  <2>2. /\ t.asked[1] = settings.tls /\ t.asked[2] = settings.verify
        /\ t.asked[3] = settings.server.goodCertificate
    BY <1>4
  <2>3. /\ t.plain => t.asked[1] \in {"NONE", "TRY_STARTTLS"}
        /\ ~t.plain /\ t.asked[2] => t.asked[3]
    BY <2>1, <2>2, <1>4, OptionsHonoured
  <2> QED BY <2>3, <1>3 DEF IInv, TlsHonoured
<1>7. /\ at \in Nat /\ at >= 1 /\ at - 1 <= n /\ passes \in Nat
      /\ \A i \in 1 .. n : log[i].pass \in Nat /\ log[i].element \in Nat /\ log[i].element >= 1
  <2>1. at \in Nat /\ at >= 1 /\ passes \in Nat
    BY MailAssumption DEF IInv, TypeOK, Idle
  <2>2. at - 1 <= n
    BY <2>1 DEF IInv, PassInv, PassAtEnd
  <2>3. \A i \in 1 .. n : log[i] \in Entry
    BY <1>2
  <2>4. \A e \in Entry : e.pass \in Nat /\ e.element \in Nat /\ e.element >= 1
    BY DEF Entry
  <2> QED BY <2>1, <2>2, <2>3, <2>4
<1>8. \A i \in 1 .. n :
         /\ log[i].pass = passes <=> i > n - (at - 1)
         /\ log[i].pass = passes => log[i].element = i - (n - (at - 1))
  <2>1. PassAtEnd(at - 1)
    BY <1>7 DEF IInv, PassInv
  <2> QED BY <2>1 DEF PassAtEnd
<1>9. /\ \A i \in 1 .. n : log[i].pass <= passes
      /\ \A i \in 1 .. n :
         /\ log[i].element <= i
         /\ \A j \in 1 .. n : log[i].pass = log[j].pass =>
               log[j].element - log[i].element = j - i
         /\ log[i - log[i].element + 1].pass = log[i].pass
    BY DEF IInv, LogOrder
<1> HIDE DEF n
<1>10. \A i \in 1 .. n + 1 :
         /\ log'[i].pass = passes <=> i > n + 1 - at
         /\ log'[i].pass = passes => log'[i].element = i - (n + 1 - at)
  <2> TAKE i \in 1 .. n + 1
  <2>1. CASE i \in 1 .. n
    BY <2>1, <1>3, <1>7, <1>8
  <2>2. CASE i = n + 1
    BY <2>2, <1>3, <1>4, <1>7
  <2> QED BY <2>1, <2>2, <1>3
<1>11. \A i \in 1 .. n + 1 : log'[i].pass <= passes
    BY <1>3, <1>4, <1>7, <1>9
<1>12. ASSUME NEW i \in 1 .. n + 1
       PROVE  /\ log'[i].element <= i
              /\ \A j \in 1 .. n + 1 : log'[i].pass = log'[j].pass =>
                    log'[j].element - log'[i].element = j - i
              /\ log'[i - log'[i].element + 1].pass = log'[i].pass
  <2>1. CASE log'[i].pass = passes
    <3>1. log'[i].element = i - (n + 1 - at) /\ i > n + 1 - at
      BY <2>1, <1>10
    <3>2. i - log'[i].element + 1 = n + 2 - at /\ n + 2 - at \in 1 .. n + 1
      BY <3>1, <1>3, <1>7
    <3>3. log'[n + 2 - at].pass = passes
      <4> DEFINE k == n + 2 - at
      <4>1. k \in 1 .. n + 1 /\ k > n + 1 - at
        BY <3>2, <1>3, <1>7
      <4>2. log'[k].pass = passes
        BY <4>1, <1>10
      <4> QED BY <4>2
    <3>4. \A j \in 1 .. n + 1 : log'[i].pass = log'[j].pass =>
             log'[j].element - log'[i].element = j - i
      <4> SUFFICES ASSUME NEW j \in 1 .. n + 1, log'[i].pass = log'[j].pass
                   PROVE  log'[j].element - log'[i].element = j - i
        OBVIOUS
      <4>1. log'[j].element = j - (n + 1 - at)
        BY <2>1, <1>10
      <4> QED BY <4>1, <3>1, <1>3, <1>7
    <3>5. log'[i].element <= i
      BY <3>1, <1>3, <1>7
    <3> QED BY <3>2, <3>3, <3>4, <3>5, <2>1
  <2>2. CASE log'[i].pass # passes
    <3>1. i \in 1 .. n /\ log'[i] = log[i]
      BY <2>2, <1>3, <1>4
    <3>2. /\ log[i].element <= i
          /\ \A j \in 1 .. n : log[i].pass = log[j].pass =>
                log[j].element - log[i].element = j - i
          /\ log[i - log[i].element + 1].pass = log[i].pass
      BY <3>1, <1>9
    <3>3. i - log[i].element + 1 \in 1 .. n
      BY <3>1, <3>2, <1>3, <1>7
    <3> QED BY <3>1, <3>2, <3>3, <2>2, <1>3, <1>4
  <2> QED BY <2>1, <2>2
<1>13. LogOrder'
    BY <1>3, <1>11, <1>12 DEF LogOrder
<1>14. at <= Len(log')
    BY <1>3, <1>7
<1>15. \A i \in 1 .. Len(log') :
         /\ log'[i].pass = passes <=> i > Len(log') - at
         /\ log'[i].pass = passes => log'[i].element = i - (Len(log') - at)
  <2> DEFINE lg == log'
             k == Len(log')
  <2>1. k = n + 1 /\ n \in Nat /\ at \in Nat
    BY <1>3, <1>7
  <2>2. \A i \in 1 .. n + 1 :
          /\ lg[i].pass = passes <=> i > n + 1 - at
          /\ lg[i].pass = passes => lg[i].element = i - (n + 1 - at)
    BY <1>10
  <2> HIDE DEF lg, k
  <2>3. \A i \in 1 .. k :
          /\ lg[i].pass = passes <=> i > k - at
          /\ lg[i].pass = passes => lg[i].element = i - (k - at)
    BY <2>1, <2>2
  <2> QED BY <2>3, Zenon DEF lg, k
<1> QED BY <1>3, <1>5, <1>6, <1>13, <1>14, <1>15

\* A call of the app: log, passes and the position stay as they are.
LEMMA CallKeeps ==
    ASSUME IInv, UNCHANGED <<log, passes, at>>,
           \/ UNCHANGED <<queue, outcome>>
           \/ outcome' = "none"
    PROVE  LogOrder' /\ PassInv'
<1>1. LogOrder'
    BY DEF IInv, LogOrder
<1>2. PassInv'
    BY DEF IInv, PassInv, PassAtEnd
<1> QED BY <1>1, <1>2

\* addMissingHeaders adds what is missing and changes nothing that is there.
LEMMA AddKeeps ==
    ASSUME IInv, NEW e \in Emails, NEW f \in Senders \cup {NoAddress},
           addMissingHeaders(e, f), UNCHANGED log
    PROVE  /\ from' \in [Emails -> Senders \cup {None}]
           /\ ids' \in Nat /\ ids <= ids' /\ messageID' \in [Emails -> 0 .. ids']
           /\ HeaderInv'
<1>1. /\ from \in [Emails -> Senders \cup {None}] /\ ids \in Nat
      /\ messageID \in [Emails -> 0 .. ids]
    BY DEF IInv, TypeOK
<1>2. /\ from' \in [Emails -> Senders \cup {None}]
      /\ \A x \in Emails : from[x] # None => from'[x] = from[x]
    BY <1>1 DEF addMissingHeaders
<1>3. /\ ids' \in Nat /\ ids <= ids' /\ messageID' \in [Emails -> 0 .. ids']
      /\ \A x \in Emails : messageID[x] # 0 => messageID'[x] = messageID[x]
    BY <1>1 DEF addMissingHeaders
<1>4. \A x \in Emails : messageID'[x] # 0 => from'[x] # None
  <2> TAKE x \in Emails
  <2>1. CASE x = e /\ f \in WithDomain
    BY <2>1, <1>1, MailAssumption DEF addMissingHeaders, IInv, HeaderInv
  <2>2. CASE x # e \/ f \notin WithDomain
    BY <2>2, <1>1, <1>2 DEF addMissingHeaders, IInv, HeaderInv
  <2> QED BY <2>1, <2>2
<1>5. \A i \in 1 .. Len(log) : log[i].id # 0 =>
          log[i].id = messageID'[log[i].email] /\ log[i].from = from'[log[i].email]
  <2> SUFFICES ASSUME NEW i \in 1 .. Len(log), log[i].id # 0
               PROVE  /\ log[i].id = messageID'[log[i].email]
                      /\ log[i].from = from'[log[i].email]
    OBVIOUS
  <2>1. log[i].email \in Emails
    <3>1. log \in Seq(Entry)
      BY DEF IInv, TypeOK, Entry
    <3>2. log[i] \in Entry
      BY <3>1
    <3> QED BY <3>2 DEF Entry
  <2>2. log[i].id = messageID[log[i].email] /\ log[i].from = from[log[i].email]
    BY DEF IInv, HeaderInv
  <2> QED BY <2>1, <2>2, <1>2, <1>3 DEF IInv, HeaderInv
<1> QED BY <1>2, <1>3, <1>4, <1>5 DEF HeaderInv

\* The typed log stays typed when more IDs have been generated.
LEMMA LogTyped ==
    ASSUME IInv, ids' \in Nat, ids <= ids', UNCHANGED log
    PROVE  log' \in Seq(Entry')
<1>1. log \in Seq(Entry) /\ ids \in Nat
    BY DEF IInv, TypeOK, Entry
<1>2. Entry \subseteq Entry'
  <2>1. 0 .. ids \subseteq 0 .. ids'
    BY <1>1
  <2> QED BY <2>1 DEF Entry
<1>3. \A i \in 1 .. Len(log) : log[i] \in Entry'
    BY <1>1, <1>2
<1> QED BY <1>1, <1>3

LEMMA InitKeeps == Init => IInv
<1> SUFFICES ASSUME Init PROVE IInv
    OBVIOUS
<1>1. TypeOK
    BY MailAssumption DEF Init, TypeOK
<1>2. HeaderInv /\ LogOrder /\ PassInv /\ TlsHonoured
    BY DEF Init, HeaderInv, LogOrder, PassInv, PassAtEnd, TlsHonoured
<1> QED BY <1>1, <1>2 DEF IInv

LEMMA NextKeeps == IInv /\ [Next]_vars => IInv'
<1> SUFFICES ASSUME IInv, [Next]_vars PROVE IInv'
    OBVIOUS
<1>0. TypeOK /\ HeaderInv /\ LogOrder /\ PassInv /\ TlsHonoured /\ passes \in Nat
    BY MailAssumption DEF IInv, TypeOK
<1>1. ASSUME NEW s \in Settings, setServer(s) PROVE IInv'
  <2>1. TypeOK'
    BY <1>0, <1>1 DEF setServer, TypeOK, headers
  <2>2. HeaderInv' /\ TlsHonoured'
    BY <1>0, <1>1 DEF setServer, HeaderInv, TlsHonoured, headers
  <2> QED BY <2>1, <2>2, <1>1, CallKeeps DEF setServer, IInv
<1>2. ASSUME NEW e \in Emails, NEW f \in Senders \cup {NoAddress}, bulkEnqueue(e, f)
      PROVE  IInv'
  <2>1. /\ from' \in [Emails -> Senders \cup {None}]
        /\ ids' \in Nat /\ ids <= ids' /\ messageID' \in [Emails -> 0 .. ids']
        /\ HeaderInv'
    BY <1>2, AddKeeps DEF bulkEnqueue
  <2>2. queue' \in Seq(Mail) /\ Len(queue') <= MaxQueue /\ at' \in 0 .. Len(queue')
    <3>1. queue \in Seq(Mail) /\ [email |-> e, from |-> f] \in Mail
      BY <1>0 DEF TypeOK, Mail
    <3>2. /\ queue' \in Seq(Mail) /\ Len(queue') = Len(queue) + 1
          /\ Len(queue) \in Nat
      BY <3>1, <1>2, Appended DEF bulkEnqueue
    <3> QED BY <3>2, <1>2, MailAssumption DEF bulkEnqueue, Idle
  <2>3. log' \in Seq(Entry')
    BY <2>1, <1>2, LogTyped DEF bulkEnqueue
  <2>4. TypeOK'
    BY <2>1, <2>2, <2>3, <1>0, <1>2 DEF bulkEnqueue, TypeOK, Mail, Entry
  <2>5. TlsHonoured'
    BY <1>0, <1>2 DEF bulkEnqueue, TlsHonoured
  <2> QED BY <2>1, <2>4, <2>5, <1>2, CallKeeps DEF bulkEnqueue, IInv
<1>3. ASSUME clearQueue PROVE IInv'
  <2>1. TypeOK'
    BY <1>0, <1>3, MailAssumption DEF clearQueue, TypeOK, headers, Idle
  <2>2. HeaderInv' /\ TlsHonoured'
    BY <1>0, <1>3 DEF clearQueue, HeaderInv, TlsHonoured, headers
  <2> QED BY <2>1, <2>2, <1>3, CallKeeps DEF clearQueue, IInv
<1>4. ASSUME BeginPass PROVE IInv'
  <2>1. TypeOK'
    BY <1>0, <1>4, MailAssumption DEF BeginPass, TypeOK, headers
  <2>2. HeaderInv' /\ TlsHonoured'
    BY <1>0, <1>4 DEF BeginPass, HeaderInv, TlsHonoured, headers
  <2>3. \A i \in 1 .. Len(log) : log[i].pass \in Nat /\ log[i].pass <= passes
    <3>1. log \in Seq(Entry)
      BY <1>0 DEF TypeOK, Entry
    <3>2. \A i \in 1 .. Len(log) : log[i].pass \in Nat
      <4>1. \A i \in 1 .. Len(log) : log[i] \in Entry
        BY <3>1
      <4>2. \A x \in Entry : x.pass \in Nat
        BY DEF Entry
      <4> QED BY <4>1, <4>2
    <3> QED BY <3>2, <1>0 DEF LogOrder
  <2>4. LogOrder'
    BY <2>3, <1>0, <1>4 DEF BeginPass, LogOrder
  <2>5. \A i \in 1 .. Len(log) : log[i].pass # passes'
    BY <2>3, <1>0, <1>4 DEF BeginPass
  <2>6. Len(log) \in Nat /\ Len(queue) \in Nat
    BY <1>0 DEF TypeOK
  <2>7. PassAtEnd(0)'
    BY <2>5, <2>6, <1>4 DEF BeginPass, PassAtEnd
  <2>8. at' > 0 => at' = 1
    BY <1>4 DEF BeginPass
  <2>9. outcome' = "sent" => Len(queue') = 0
    BY <1>4 DEF BeginPass
  <2>10. PassInv'
    <3>1. at' > 0 => passes' > 0 /\ outcome' = "none" /\ PassAtEnd(at - 1)'
      BY <2>7, <2>8, <1>0, <1>4 DEF BeginPass
    <3>2. outcome' = "sent" => PassAtEnd(Len(queue))'
      BY <2>7, <2>9
    <3> QED BY <3>1, <3>2 DEF PassInv
  <2> QED BY <2>1, <2>2, <2>4, <2>10 DEF IInv
<1>5. ASSUME Send PROVE IInv'
  <2>1. 1 <= passes /\ at \in 1 .. Len(queue) /\ Len(queue) \in Nat
    BY <1>0, <1>5 DEF Send, Idle, TypeOK, PassInv
  <2>2. /\ log' \in Seq(Entry)
        /\ HeaderInv' /\ TlsHonoured' /\ LogOrder'
        /\ at <= Len(log')
        /\ \A i \in 1 .. Len(log') :
              /\ log'[i].pass = passes <=> i > Len(log') - at
              /\ log'[i].pass = passes => log'[i].element = i - (Len(log') - at)
    BY <2>1, <1>5, LoggedKeeps DEF Send
  <2>3. TypeOK'
    BY <2>1, <2>2, <1>0, <1>5 DEF Send, TypeOK, Entry, headers
  <2>4. PassInv'
    <3>1. CASE at = Len(queue)
      <4>1. at' = 0 /\ Len(queue') = at
        BY <3>1, <1>5 DEF Send
      <4>2. PassAtEnd(Len(queue))'
        BY <4>1, <2>2, <1>5 DEF Send, PassAtEnd
      <4> QED BY <4>1, <4>2 DEF PassInv
    <3>2. CASE at # Len(queue)
      <4>1. at' = at + 1 /\ outcome' = outcome /\ at' - 1 = at
        BY <3>2, <2>1, <1>5 DEF Send
      <4>2. PassAtEnd(at - 1)'
        BY <4>1, <2>2, <1>5 DEF Send, PassAtEnd
      <4>3. passes' = passes /\ passes > 0 /\ outcome' = "none"
        BY <4>1, <1>0, <2>1, <1>5 DEF PassInv, Send
      <4> QED BY <4>2, <4>3 DEF PassInv
    <3> QED BY <3>1, <3>2
  <2> QED BY <2>2, <2>3, <2>4 DEF IInv
<1>6. ASSUME SendFails PROVE IInv'
  <2>1. 1 <= passes /\ at \in 1 .. Len(queue) /\ Len(queue) \in Nat
    BY <1>0, <1>6 DEF SendFails, Idle, TypeOK, PassInv
  <2>2. PassInv'
    BY <1>6 DEF SendFails, PassInv
  <2>3. log' \in Seq(Entry) /\ HeaderInv' /\ TlsHonoured' /\ LogOrder'
    <3>1. CASE log' = log
      <4>1. log' \in Seq(Entry)
        BY <3>1, <1>0 DEF TypeOK, Entry
      <4>2. HeaderInv' /\ TlsHonoured' /\ LogOrder'
        BY <3>1, <1>0, <1>6 DEF SendFails, HeaderInv, TlsHonoured, LogOrder, headers
      <4> QED BY <4>1, <4>2
    <3>2. CASE log' = Append(log, Transmission(at)) /\ Possible(Options(settings), settings.server)
      BY <3>2, <2>1, <1>6, LoggedKeeps DEF SendFails
    <3> QED BY <3>1, <3>2, <1>6 DEF SendFails
  <2>4. TypeOK'
    BY <2>1, <2>3, <1>0, <1>6 DEF SendFails, TypeOK, Entry, headers
  <2> QED BY <2>2, <2>3, <2>4 DEF IInv
<1>7. CASE UNCHANGED vars
    BY <1>7, <1>0 DEF vars, headers, IInv, TypeOK, HeaderInv, LogOrder, PassInv,
                      PassAtEnd, TlsHonoured
<1> QED BY <1>1, <1>2, <1>3, <1>4, <1>5, <1>6, <1>7 DEF Next

-----------------------------------------------------------------------------
(* Theorems *)

LEMMA Inductive == Spec => []IInv
<1> QED BY InitKeeps, NextKeeps, PTL DEF Spec

\* Queue, position and log of the mailer stay within their types and bounds:
\* processQueue never runs past the end of the queue.
THEOREM TypeCorrect == Spec => []TypeOK
<1>1. IInv => TypeOK
    BY DEF IInv
<1> QED BY Inductive, <1>1, PTL

\* Whatever fails, and however often processQueue is called, a pass sends the
\* queue from its beginning, in order and without gaps, and all of it when it
\* returns.
THEOREM PassesComplete == Spec => []PassComplete
<1>1. IInv => PassComplete
  <2> SUFFICES ASSUME IInv PROVE PassComplete
    OBVIOUS
  <2>0. /\ TypeOK /\ LogOrder /\ PassInv /\ Len(log) \in Nat /\ Len(queue) \in Nat
        /\ log \in Seq(Entry)
    BY DEF IInv, TypeOK, Entry
  <2>1. ASSUME NEW p \in 1 .. passes, NEW i \in OfPass(p), NEW j \in OfPass(p)
        PROVE  log[j].element - log[i].element = j - i
    BY <2>0 DEF OfPass, LogOrder
  <2>2. ASSUME NEW p \in 1 .. passes, OfPass(p) # {}
        PROVE  \E i \in OfPass(p) : log[i].element = 1
    <3>1. PICK i \in 1 .. Len(log) : log[i].pass = p
      BY <2>2 DEF OfPass
    <3>2. log[i].element \in Nat /\ log[i].element >= 1
      <4>1. log[i] \in Entry
        BY <2>0
      <4> QED BY <4>1 DEF Entry
    <3> DEFINE k == i - log[i].element + 1
    <3>3. log[i].element <= i /\ log[k].pass = p
      BY <2>0, <3>1 DEF LogOrder
    <3>4. k \in 1 .. Len(log)
      BY <3>2, <3>3, <2>0
    <3>5. log[k].element - log[i].element = k - i
      BY <3>1, <3>3, <3>4, <2>0 DEF LogOrder
    <3>6. log[k].element \in Nat
      <4>1. log[k] \in Entry
        BY <2>0, <3>4
      <4> QED BY <4>1 DEF Entry
    <3>7. log[k].element = 1
      BY <3>2, <3>5, <3>6, <2>0
    <3> QED BY <3>3, <3>4, <3>7 DEF OfPass
  <2>3. ASSUME outcome = "sent" PROVE Cardinality(OfPass(passes)) = Len(queue)
    <3> DEFINE lo == Len(log) - Len(queue) + 1
    <3>1. Len(queue) <= Len(log) /\ \A i \in 1 .. Len(log) :
             log[i].pass = passes <=> i > Len(log) - Len(queue)
      BY <2>0, <2>3 DEF PassInv, PassAtEnd
    <3>2. OfPass(passes) = lo .. Len(log)
      BY <3>1, <2>0 DEF OfPass
    <3>3. lo \in Int /\ Len(log) \in Int
      BY <2>0
    <3>4. Cardinality(lo .. Len(log)) = IF lo > Len(log) THEN 0 ELSE Len(log) - lo + 1
      BY <3>3, FS_Interval
    <3> QED BY <3>1, <3>2, <3>4, <2>0
  <2> QED BY <2>1, <2>2, <2>3 DEF PassComplete
<1> QED BY Inductive, <1>1, PTL

\* A mail that is sent again, after an error or because its Email object was
\* queued again, can be recognised by its Message-ID.
THEOREM SameAgain == Spec => []SameMailAgain
<1>1. IInv => SameMailAgain
    BY DEF IInv, HeaderInv, SameMailAgain
<1> QED BY Inductive, <1>1, PTL

\* No mail leaves in plain text where TLS is required, nor over a connection
\* with a bad certificate that had to be verified.
THEOREM TlsHolds == Spec => []TlsHonoured
<1>1. IInv => TlsHonoured
    BY DEF IInv
<1> QED BY Inductive, <1>1, PTL
=============================================================================
