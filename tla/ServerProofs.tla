---------------------------- MODULE ServerProofs ---------------------------
(***************************************************************************)
(* Proofs about the process for every set of workers, requests,            *)
(* configurations and content lengths, with signals that may interrupt a   *)
(* thread anywhere.                                                        *)
(***************************************************************************)
EXTENDS Server, TLAPS

(***************************************************************************)
(* The inductive invariant, in parts.                                      *)
(***************************************************************************)

\* The code counts every Log object there is; nothing is locked before
\* nawarun sets up the logging.
LogInv ==
    /\ instanceCount >= logs /\ logs >= StaticLogs
    /\ mpc \in {"config", "setup"} => ~locked

\* What run has done about the privileges by the time it is where it is.
GroupsAsked == groups = "root" => "root" \in {conf.user, conf.group}
GroupAsked == gid = "root" => conf.group = "root"
UserAsked == uid = "root" => conf.user = "root"

PrivInv ==
    /\ mpc \in {"config", "setup", "privileges", "load", "create", "downgrade"}
         => uid = conf.uid /\ gid = conf.uid /\ groups = conf.uid
    /\ mpc \in {"load", "create", "downgrade", "setgid", "setuid"}
         /\ conf.uid = "root" => {conf.user, conf.group} \subseteq {"root", "user"}
    /\ mpc \in {"setgid", "setuid"} => conf.uid = "root" /\ GroupsAsked
    /\ mpc = "setuid" => GroupAsked
    /\ mpc \in {"init", "start", "join", "reset", "return"} =>
         GroupsAsked /\ GroupAsked /\ UserAsked

\* Threads of the pool run while run joins them, and only they and the main
\* thread can be in a shutdown handler.  A handler past its test of
\* requestHandlerPtr finds the pointer set.
ThreadInv ==
    /\ pool # {} => mpc = "join"
    /\ \A t \in Threads : hpc[t] # "none" => t \in pool \cup {Main}
    /\ \A t \in Threads :
         ended = "no" /\ hpc[t] \in {"stop", "log2", "enforce"} => handler

\* What is known of a body that has not been handed over, or has been.
BodyInv ==
    \A r \in Requests :
        /\ st[r] = "new" => length[r] = 0 /\ got[r] = 0
        /\ st[r] = "reading" => /\ conf.maxPost \notin {NaN, Huge}
                                /\ length[r] \in Nat
                                /\ got[r] <= Unsigned(conf.maxPost)

IInv == TypeOK /\ LogInv /\ PrivInv /\ ThreadInv /\ BodyInv

-----------------------------------------------------------------------------
(* Lemmas about the operators *)

\* What the assumption says of the configuration in use.
LEMMA ConfType ==
    ASSUME TypeOK
    PROVE  /\ conf.uid \in {"root", "user"}
           /\ conf.user \in {"root", "user", "unset", "unknown"}
           /\ conf.group \in {"root", "user", "unset", "unknown"}
           /\ conf.maxPost \notin {NaN, Huge} =>
                conf.maxPost \in -Modulus .. Modulus - 1
           /\ conf.level \in OFF .. DEBUG /\ conf.extended \in BOOLEAN
<1>1. conf \in Config
  BY ServerAssumption DEF TypeOK
<1> QED BY <1>1 DEF Config

\* The conversion to size_t yields a size_t, and keeps what is not negative.
LEMMA UnsignedType ==
    ASSUME NEW n \in -Modulus .. Modulus - 1
    PROVE  Unsigned(n) \in 0 .. Modulus - 1 /\ (n >= 0 => Unsigned(n) = n)
BY ServerAssumption DEF Unsigned

\* An operation on Log objects or settings keeps the logger's types, as long
\* as every object is counted.
LEMMA LogUseType ==
    ASSUME LogType, instanceCount >= logs,
           \/ Construct \/ Copy \/ Assign \/ Destroy
           \/ (setStream \/ setOutfile(TRUE) \/ setOutfile(FALSE)
                 \/ setOutputLevel(OFF) \/ setExtendedFormat(TRUE))
                 /\ UNCHANGED <<instanceCount, logs, outLock>>
    PROVE  LogType' /\ outLock' = outLock
<1> USE DEF LogType, settings
<1>1. CASE Construct
  BY <1>1 DEF Construct
<1>2. CASE Copy
  BY <1>2 DEF Copy
<1>3. CASE Assign
  BY <1>3 DEF Assign
<1>4. CASE Destroy
  <2>1. logs - 1 \in Nat /\ instanceCount - 1 \in Nat
    BY <1>4, LogAssumption DEF Destroy
  <2> QED BY <1>4, <2>1 DEF Destroy
<1>5. CASE /\ setStream \/ setOutfile(TRUE) \/ setOutfile(FALSE)
           /\ UNCHANGED <<instanceCount, logs, outLock>>
  BY <1>5 DEF setStream, setOutfile
<1>6. CASE setOutputLevel(OFF) /\ UNCHANGED <<instanceCount, logs, outLock>>
  BY <1>6 DEF setOutputLevel, OFF, DEBUG
<1>7. CASE /\ setExtendedFormat(TRUE)
           /\ UNCHANGED <<instanceCount, logs, outLock>>
  <2>1. extendedFormat' \in BOOLEAN
    BY <1>7, Zenon DEF setExtendedFormat
  <2> QED BY <1>7, <2>1 DEF setExtendedFormat
<1> QED BY <1>1, <1>2, <1>3, <1>4, <1>5, <1>6, <1>7

-----------------------------------------------------------------------------
(* Types *)

LEMMA InitInv == Init => IInv
<1> SUFFICES ASSUME Init PROVE IInv
  OBVIOUS
<1>1. conf.uid \in {"root", "user"}
  BY ServerAssumption DEF Init, Config
<1>2. LogType /\ outLock = NoThread
  <2>1. outputLevel \in OFF .. DEBUG
    BY DEF Init, LogInit, OFF, INFORMATIONAL, DEBUG
  <2>2. instanceCount \in Nat /\ logs \in Nat
    BY LogAssumption DEF Init, LogInit
  <2> QED BY <2>1, <2>2, Zenon DEF Init, LogInit, LogType
<1>3. TypeOK
  <2>1. handler \in BOOLEAN /\ joined \in BOOLEAN
    BY Zenon DEF Init
  <2>2. ready \in BOOLEAN /\ stopping \in BOOLEAN
    BY Zenon DEF Init
  <2> QED BY <1>1, <1>2, <2>1, <2>2, ServerAssumption DEF Init, TypeOK
<1>4. LogInv
  BY LogAssumption DEF Init, LogInit, LogInv
<1>5. PrivInv /\ ThreadInv /\ BodyInv
  BY DEF Init, PrivInv, ThreadInv, BodyInv
<1> QED BY <1>3, <1>4, <1>5 DEF IInv

\* A step of run keeps the types; it changes nothing of the requests and of the
\* shutdown handlers.
LEMMA RunType == IInv /\ RunStep => TypeOK'
<1> SUFFICES ASSUME TypeOK, PrivInv, RunStep PROVE TypeOK'
  BY DEF IInv
<1> USE DEF TypeOK, LogType, server, request, handlers, logVars, settings,
            ids, At, Fatal, GoTo, Exit
<1>1. CASE loadConfig
  BY <1>1 DEF loadConfig
<1>2. CASE SetUp
  <2>1. /\ outputLevel' \in OFF .. DEBUG
        /\ extendedFormat' \in BOOLEAN /\ locked' \in BOOLEAN
    BY <1>2, ConfType, Zenon DEF SetUp, setUpLogging
  <2> QED BY <1>2, <2>1 DEF SetUp, setUpLogging
<1>3. CASE preparePrivilegeDowngrade
  BY <1>3 DEF preparePrivilegeDowngrade
<1>4. CASE LoadApp
  BY <1>4 DEF LoadApp
<1>5. CASE newRequestHandler
  <2>1. handler' \in BOOLEAN
    BY <1>5, Zenon DEF newRequestHandler, newHttpHandler, newFastcgiHandler
  <2> QED
    BY <1>5, <2>1 DEF newRequestHandler, newHttpHandler, newFastcgiHandler
<1>6. CASE doPrivilegeDowngrade
  BY <1>6 DEF doPrivilegeDowngrade, setgroups, setgid, setuid, Downgraded,
              PrivInv
<1>7. CASE AppInit
  BY <1>7 DEF AppInit
<1>8. CASE Start
  <2>1. ready' \in BOOLEAN
    BY <1>8, Zenon DEF Start
  <2>2. stopping' \in BOOLEAN
    BY <1>8, Zenon DEF Start
  <2> QED BY <1>8, <2>1, <2>2 DEF Start
<1>9. CASE Join \/ Reset \/ Return
  <2>1. handler' \in BOOLEAN /\ joined' \in BOOLEAN
    BY <1>9, Zenon DEF Join, Reset, Return
  <2> QED BY <1>9, <2>1 DEF Join, Reset, Return
<1> QED
  BY <1>1, <1>2, <1>3, <1>4, <1>5, <1>6, <1>7, <1>8, <1>9 DEF RunStep

\* A step of a shutdown handler, or a signal, keeps the types.
LEMMA ShutdownType ==
    ASSUME TypeOK, NEW t \in Threads,
           Shutdown(t) \/ \E s \in {"TERM", "USR1"} : Signal(t, s)
    PROVE  TypeOK'
<1> USE DEF TypeOK, LogType, process, ids, server, request, handlers, logVars,
            settings, Move
<1>1. CASE ShutdownLog(t)
  BY <1>1 DEF ShutdownLog
<1>2. CASE ShutdownCheck(t)
  BY <1>2 DEF ShutdownCheck
<1>3. CASE stop(t)
  BY <1>3 DEF stop
<1>4. CASE ShutdownSleep(t)
  BY <1>4 DEF ShutdownSleep
<1>5. CASE ShutdownLog2(t)
  BY <1>5 DEF ShutdownLog2
<1>6. CASE terminate(t)
  BY <1>6 DEF terminate
<1>7. ASSUME NEW s \in {"TERM", "USR1"}, Signal(t, s)
      PROVE  TypeOK'
  BY <1>7, ServerAssumption DEF Signal
<1> QED BY <1>1, <1>2, <1>3, <1>4, <1>5, <1>6, <1>7 DEF Shutdown

\* A step of a worker keeps the types.  Only ReadPiece adds up numbers, and
\* the limit keeps the sum below the width of size_t.
LEMMA WorkerType ==
    ASSUME IInv, NEW w \in Workers,
           \/ AppLogged(w) \/ AppUsesLog(w) \/ Respond(w) \/ Leave(w)
           \/ AppLog(w, INFORMATIONAL)
           \/ \E r \in Requests :
                \/ Accept(w, r) \/ response(w, r) \/ ReadEof(w, r)
                \/ \E n \in Lengths : AcceptPost(w, r, n)
                \/ \E n \in 0 .. MaxPiece : ReadPiece(w, r, n)
    PROVE  TypeOK'
<1> USE DEF TypeOK, LogType, process, ids, server, request, handlers, logVars,
            settings, Answer, Handle
<1>0. TypeOK /\ LogInv /\ BodyInv
  BY DEF IInv
<1>1. CASE AppLogged(w) \/ AppLog(w, INFORMATIONAL)
  BY <1>0, <1>1
     DEF AppLogged, AppLog, InRequest, BeginWrite, EndWrite, Threads
<1>2. CASE AppUsesLog(w)
  <2>1. LogType' /\ outLock' = outLock
    BY <1>0, <1>2, LogUseType DEF AppUsesLog, LogInv
  <2> QED BY <1>0, <1>2, <2>1 DEF AppUsesLog
<1>3. CASE Respond(w)
  BY <1>0, <1>3 DEF Respond, InRequest
<1>4. CASE Leave(w)
  BY <1>0, <1>4 DEF Leave
<1>5. ASSUME NEW r \in Requests, Accept(w, r) \/ response(w, r) \/ ReadEof(w, r)
      PROVE  TypeOK'
  BY <1>0, <1>5 DEF Accept, response, ReadEof
<1>6. ASSUME NEW r \in Requests, NEW n \in Lengths, AcceptPost(w, r, n)
      PROVE  TypeOK'
  BY <1>0, <1>6 DEF AcceptPost
<1>7. ASSUME NEW r \in Requests, NEW n \in 0 .. MaxPiece, ReadPiece(w, r, n)
      PROVE  TypeOK'
  <2>1. CASE TooLarge(got[r] + n)
    BY <1>0, <1>7, <2>1 DEF ReadPiece
  <2>2. CASE ~TooLarge(got[r] + n)
    <3>1. conf.maxPost \in -Modulus .. Modulus - 1
      BY <1>0, <1>7, ConfType DEF ReadPiece, BodyInv
    <3>2. got[r] \in 0 .. Modulus - 1 /\ n \in Nat
      BY <1>0, ServerAssumption
    <3>3. got[r] + n \in 0 .. Modulus - 1
      BY <2>2, <3>1, <3>2, UnsignedType, ServerAssumption DEF TooLarge
    <3>4. got' \in [Requests -> 0 .. Modulus - 1]
      BY <1>0, <1>7, <2>2, <3>3 DEF ReadPiece
    <3> QED BY <1>0, <1>7, <2>2, <3>4 DEF ReadPiece
  <2> QED BY <2>1, <2>2
<1> QED BY <1>1, <1>2, <1>3, <1>4, <1>5, <1>6, <1>7

LEMMA TypeStep == IInv /\ [Next]_vars => TypeOK'
<1> SUFFICES ASSUME IInv, [Next]_vars PROVE TypeOK'
  OBVIOUS
<1>1. ASSUME NEW r \in Requests, Reconnect(r)
      PROVE  TypeOK'
  BY <1>1, ServerAssumption
     DEF IInv, TypeOK, LogType, Reconnect, process, ids, server, handlers, logVars,
         settings
<1>2. CASE UNCHANGED vars
  BY <1>2 DEF IInv, TypeOK, LogType, vars, process, ids, server, request, handlers,
              logVars, settings
<1> QED
  BY <1>1, <1>2, RunType, ShutdownType, WorkerType DEF Next, IInv, Ended

-----------------------------------------------------------------------------
(* The other parts of the invariant *)

\* Every step keeps the count at the number of objects or above: assignment
\* adds to it, and only objects that were counted are destroyed.
LEMMA LogStep == IInv /\ [Next]_vars => LogInv'
<1> SUFFICES ASSUME TypeOK, LogInv, ThreadInv, [Next]_vars PROVE LogInv'
  BY DEF IInv
<1> USE DEF TypeOK, LogType, LogInv, logVars, settings
<1>1. CASE UNCHANGED <<logVars, mpc>>
  BY <1>1
<1>2. CASE RunStep
  <2>1. CASE UNCHANGED logVars
    BY <1>2, <2>1
       DEF RunStep, loadConfig, SetUp, preparePrivilegeDowngrade, LoadApp,
           newRequestHandler, newHttpHandler, newFastcgiHandler,
           doPrivilegeDowngrade, setgroups, setgid, setuid,
         AppInit, Start, Join, Reset, Return, At, GoTo,
           Exit, Fatal, setUpLogging
  <2>2. CASE setUpLogging /\ GoTo("privileges")
    BY <2>2 DEF setUpLogging, GoTo
  <2> QED
    BY <1>2, <2>1, <2>2
       DEF RunStep, loadConfig, SetUp, preparePrivilegeDowngrade, LoadApp,
           newRequestHandler, newHttpHandler, newFastcgiHandler,
           doPrivilegeDowngrade, setgroups, setgid, setuid,
         AppInit, Start, Join, Reset, Return
<1>3. ASSUME NEW w \in Workers,
             AppUsesLog(w) \/ AppLogged(w) \/ AppLog(w, INFORMATIONAL)
      PROVE  LogInv'
  <2>1. mpc' = mpc /\ mpc = "join"
    BY <1>3 DEF AppUsesLog, AppLogged, AppLog, InRequest, ThreadInv
  <2>2. instanceCount' >= logs' /\ logs' >= StaticLogs
    <3>1. CASE UNCHANGED <<instanceCount, logs>>
      BY <3>1
    <3>2. CASE Construct \/ Copy
      BY <3>2, LogAssumption DEF Construct, Copy
    <3>3. CASE Assign
      BY <3>3, LogAssumption DEF Assign
    <3>4. CASE Destroy
      BY <3>4, LogAssumption DEF Destroy
    <3> QED
      BY <1>3, <3>1, <3>2, <3>3, <3>4
         DEF AppUsesLog, AppLogged, AppLog, BeginWrite, EndWrite
  <2> QED BY <2>1, <2>2
<1> QED
  BY <1>1, <1>2, <1>3
     DEF Next, vars, Shutdown, ShutdownLog, ShutdownCheck, stop, ShutdownSleep,
         ShutdownLog2, terminate, Signal, Respond, Leave, Accept, response,
         ReadEof, AcceptPost, ReadPiece, Reconnect, Ended

\* Every step of run keeps what the privileges are at that point; the other
\* steps change neither.
LEMMA PrivStep == IInv /\ [Next]_vars => PrivInv'
<1> SUFFICES ASSUME TypeOK, PrivInv, [Next]_vars PROVE PrivInv'
  BY DEF IInv
<1>0. /\ conf.uid \in {"root", "user"}
      /\ conf.user \in {"root", "user", "unset", "unknown"}
      /\ conf.group \in {"root", "user", "unset", "unknown"}
  BY ConfType
<1> USE DEF PrivInv, GroupsAsked, GroupAsked, UserAsked, process, ids, At, GoTo,
            Exit, Fatal
<1>1. CASE UNCHANGED <<conf, mpc, ids>>
  BY <1>1
<1>2. CASE loadConfig \/ SetUp \/ LoadApp \/ newRequestHandler
  BY <1>2 DEF loadConfig, SetUp, LoadApp, newRequestHandler, newHttpHandler,
              newFastcgiHandler
<1>3. CASE preparePrivilegeDowngrade
  BY <1>0, <1>3 DEF preparePrivilegeDowngrade
<1>4. CASE doPrivilegeDowngrade
  BY <1>0, <1>4 DEF doPrivilegeDowngrade, setgroups, setgid, setuid, Downgraded
<1>5. CASE AppInit \/ Start \/ Join \/ Reset \/ Return
  BY <1>5 DEF AppInit, Start, Join, Reset, Return
<1> QED
  BY <1>1, <1>2, <1>3, <1>4, <1>5
     DEF Next, RunStep, vars, Shutdown, ShutdownLog, ShutdownCheck, stop,
         ShutdownSleep, ShutdownLog2, terminate, Signal, AppLogged, AppLog,
         AppUsesLog, Respond, Leave, Accept, response, ReadEof, AcceptPost,
         ReadPiece, Reconnect, Ended

\* Every step keeps the threads where they may be.  The pointer is reset by
\* the main thread, outside of a handler, when no thread of the pool is left.
LEMMA ThreadStep == IInv /\ [Next]_vars => ThreadInv'
<1> SUFFICES ASSUME TypeOK, ThreadInv, [Next]_vars PROVE ThreadInv'
  BY DEF IInv
<1> USE DEF TypeOK, ThreadInv, process, server, handlers
<1>1. CASE UNCHANGED <<ended, mpc, server, handlers>>
  BY <1>1
<1>2. CASE \/ loadConfig \/ SetUp \/ preparePrivilegeDowngrade \/ LoadApp
           \/ doPrivilegeDowngrade \/ AppInit \/ Return
  BY <1>2 DEF loadConfig, SetUp, preparePrivilegeDowngrade, LoadApp,
              doPrivilegeDowngrade, setgroups, setgid, setuid,
              AppInit, Return, At, GoTo, Exit, Fatal
<1>3. CASE newRequestHandler
  BY <1>3 DEF newRequestHandler, newHttpHandler, newFastcgiHandler, At, GoTo,
              Exit, Fatal
<1>4. CASE Start
  BY <1>4 DEF Start, At, GoTo
<1>5. CASE Join
  BY <1>5 DEF Join, At, GoTo
<1>6. CASE Reset
  <2>1. pool = {} /\ hpc[Main] = "none"
    BY <1>6 DEF Reset, At, Runs
  <2>2. \A t \in Threads : hpc'[t] = "none"
    BY <1>6, <2>1 DEF Reset
  <2> QED BY <1>6, <2>1, <2>2 DEF Reset, GoTo
<1>7. ASSUME NEW t \in Threads, Shutdown(t)
      PROVE  ThreadInv'
  BY <1>7 DEF Shutdown, ShutdownLog, ShutdownCheck, stop, ShutdownSleep,
              ShutdownLog2, terminate, Handling, Move
<1>8. ASSUME NEW t \in Threads, NEW s \in {"TERM", "USR1"}, Signal(t, s)
      PROVE  ThreadInv'
  BY <1>8 DEF Signal
<1>9. ASSUME NEW w \in Workers, Leave(w)
      PROVE  ThreadInv'
  BY <1>9 DEF Leave, Free, Runs
<1> QED
  BY <1>1, <1>2, <1>3, <1>4, <1>5, <1>6, <1>7, <1>8, <1>9
     DEF Next, RunStep, vars, AppLogged, AppLog, AppUsesLog, Respond, Accept,
         response, ReadEof, AcceptPost, ReadPiece, Reconnect, Ended

\* Every step keeps what is known of the bodies.
LEMMA BodyStep == IInv /\ [Next]_vars => BodyInv'
<1> SUFFICES ASSUME TypeOK, BodyInv, [Next]_vars PROVE BodyInv'
  BY DEF IInv
<1> USE DEF TypeOK, BodyInv, process, request
<1>1. CASE UNCHANGED <<conf, st, length, got>>
  BY <1>1
<1>2. ASSUME NEW w \in Workers,
             AppLogged(w) \/ AppLog(w, INFORMATIONAL) \/ Respond(w)
      PROVE  BodyInv'
  BY <1>2 DEF AppLogged, AppLog, Respond, Answer, InRequest
<1>3. ASSUME NEW w \in Workers, NEW r \in Requests,
             Accept(w, r) \/ response(w, r) \/ ReadEof(w, r)
      PROVE  BodyInv'
  BY <1>3 DEF Accept, response, ReadEof, Answer, Handle
<1>4. ASSUME NEW w \in Workers, NEW r \in Requests, NEW n \in Lengths,
             AcceptPost(w, r, n)
      PROVE  BodyInv'
  <2>1. got[r] = 0 /\ got' = got /\ conf' = conf
    BY <1>4 DEF AcceptPost
  <2>2. \A q \in Requests \ {r} : st'[q] = st[q] /\ length'[q] = length[q]
    BY <1>4 DEF AcceptPost, Answer
  <2>3. CASE st'[r] \in {"silent", "done"}
    BY <2>1, <2>2, <2>3
  <2>4. CASE st'[r] = "reading"
    <3>1. /\ conf.maxPost \notin {NaN, Huge} /\ n \notin {NaN, Huge}
          /\ length'[r] = n
      BY <1>4, <2>4 DEF AcceptPost, Answer
    <3>2. 0 <= Unsigned(conf.maxPost)
      BY <3>1, ConfType, UnsignedType, ServerAssumption
    <3> QED BY <2>1, <2>2, <2>4, <3>1, <3>2, ServerAssumption
  <2> QED BY <1>4, <2>3, <2>4 DEF AcceptPost, Answer
<1>5. ASSUME NEW w \in Workers, NEW r \in Requests, NEW n \in 0 .. MaxPiece,
             ReadPiece(w, r, n)
      PROVE  BodyInv'
  <2>1. CASE TooLarge(got[r] + n)
    BY <1>5, <2>1 DEF ReadPiece, Answer
  <2>2. CASE ~TooLarge(got[r] + n)
    <3>1. conf.maxPost \in -Modulus .. Modulus - 1
      BY <1>5, ConfType DEF ReadPiece
    <3>2. got[r] + n <= Unsigned(conf.maxPost)
      BY <2>2, <3>1, UnsignedType, ServerAssumption DEF TooLarge
    <3> QED BY <1>5, <2>2, <3>2 DEF ReadPiece, Handle
  <2> QED BY <2>1, <2>2
<1>6. ASSUME NEW r \in Requests, Reconnect(r)
      PROVE  BodyInv'
  BY <1>6 DEF Reconnect
<1> QED
  BY <1>1, <1>2, <1>3, <1>4, <1>5, <1>6
     DEF Next, RunStep, vars, loadConfig, SetUp, preparePrivilegeDowngrade,
         LoadApp, newRequestHandler, newHttpHandler, newFastcgiHandler,
         doPrivilegeDowngrade, setgroups, setgid, setuid,
         AppInit, Start, Join, Reset, Return, Shutdown,
         ShutdownLog, ShutdownCheck, stop, ShutdownSleep, ShutdownLog2,
         terminate, Signal, AppUsesLog, Leave, Ended

\* IInv is inductive.
THEOREM Inductive == Spec => []IInv
<1>1. IInv /\ [Next]_vars => IInv'
  BY TypeStep, LogStep, PrivStep, ThreadStep, BodyStep DEF IInv
<1> QED BY InitInv, <1>1, PTL DEF Spec

-----------------------------------------------------------------------------
(* Theorems *)

\* Type correctness of the process: in particular the bytes of a POST body add
\* up within size_t and the process only ever runs as a user it was given.
THEOREM TypeCorrect == Spec => []TypeOK
<1>1. IInv => TypeOK
  BY DEF IInv
<1> QED BY Inductive, <1>1, PTL

\* No shutdown handler calls stop() or terminate() through a null pointer,
\* wherever the signals arrive and however often.
THEOREM HandlerLives == Spec => []LiveHandlerStopped
<1>1. IInv => LiveHandlerStopped
  BY DEF IInv, ThreadInv, LiveHandlerStopped
<1> QED BY Inductive, <1>1, PTL

\* Requests are served without root's user ID, group ID and supplementary
\* groups, unless the configuration names root for them, whichever of the
\* three system calls of the downgrade fails.
THEOREM PrivilegesHold == Spec => []PrivilegesDropped
<1>1. IInv => PrivilegesDropped
  BY DEF IInv, ThreadInv, PrivInv, GroupsAsked, GroupAsked, UserAsked,
         PrivilegesDropped
<1> QED BY Inductive, <1>1, PTL

\* What nawarun has set and locked stays, whatever the app does with Log
\* objects of its own: the count does not reach zero while the program runs.
THEOREM SettingsHold == Spec => LogSettled
<1>1. IInv /\ [Next]_vars => [locked => UNCHANGED settings]_vars
  <2> SUFFICES ASSUME IInv, [Next]_vars, locked PROVE UNCHANGED settings
    OBVIOUS
  <2>1. CASE UNCHANGED logVars
    BY <2>1 DEF logVars
  <2>2. CASE SetUp
    BY <2>2, <2>1 DEF SetUp, At, IInv, LogInv
  <2>3. ASSUME NEW w \in Workers, AppLogged(w) \/ AppLog(w, INFORMATIONAL)
        PROVE  UNCHANGED settings
    BY <2>3 DEF AppLogged, AppLog, BeginWrite, EndWrite
  <2>4. ASSUME NEW w \in Workers, AppUsesLog(w)
        PROVE  UNCHANGED settings
    <3>1. instanceCount \in Nat /\ logs \in Nat /\ instanceCount >= logs
          /\ logs >= StaticLogs /\ StaticLogs \in Nat \ {0}
      BY LogAssumption DEF IInv, TypeOK, LogType, LogInv
    <3>2. instanceCount # 0
      BY <3>1
    <3>3. CASE Construct
      BY <3>2, <3>3, Zenon DEF Construct, settings
    <3>4. CASE Copy \/ Assign
      BY <3>4 DEF Copy, Assign
    <3>5. CASE Destroy
      <4>1. instanceCount' # 0
        BY <3>1, <3>5 DEF Destroy
      <4>2. locked' = locked /\ logFile' = logFile
        BY <3>5, <4>1, Zenon DEF Destroy, IInv, TypeOK, LogType
      <4> QED BY <3>5, <4>2 DEF Destroy, settings
    <3>6. CASE setStream \/ setOutfile(TRUE) \/ setOutfile(FALSE)
               \/ setOutputLevel(OFF) \/ setExtendedFormat(TRUE)
      BY <3>6, Zenon
         DEF setStream, setOutfile, setOutputLevel, setExtendedFormat, settings
    <3> QED BY <2>4, <3>3, <3>4, <3>5, <3>6 DEF AppUsesLog
  <2> QED
    BY <2>1, <2>2, <2>3, <2>4
       DEF Next, RunStep, vars, loadConfig, preparePrivilegeDowngrade, LoadApp,
           newRequestHandler, newHttpHandler, newFastcgiHandler,
           doPrivilegeDowngrade, setgroups, setgid, setuid,
         AppInit, Start, Join, Reset, Return, Shutdown,
           ShutdownLog, ShutdownCheck, stop, ShutdownSleep, ShutdownLog2,
           terminate, Signal, Respond, Leave, Accept, response, ReadEof,
           AcceptPost, ReadPiece, Reconnect, Ended
<1> QED BY Inductive, <1>1, PTL DEF Spec, LogSettled

\* Every step keeps the count of the responses: what is answered was being
\* handled or read, and only a new connection starts again.
LEMMA AnswerStep == IInv /\ AnsweredOnce /\ [Next]_vars => AnsweredOnce'
<1> SUFFICES ASSUME TypeOK, AnsweredOnce, [Next]_vars PROVE AnsweredOnce'
  BY DEF IInv
<1> USE DEF TypeOK, AnsweredOnce, process, request
<1>1. CASE UNCHANGED <<conf, st, length, answers>>
  BY <1>1
<1>2. ASSUME NEW w \in Workers,
             AppLogged(w) \/ AppLog(w, INFORMATIONAL) \/ Respond(w)
      PROVE  AnsweredOnce'
  BY <1>2 DEF AppLogged, AppLog, Respond, Answer, InRequest
<1>3. ASSUME NEW w \in Workers, NEW r \in Requests,
             Accept(w, r) \/ response(w, r) \/ ReadEof(w, r)
      PROVE  AnsweredOnce'
  BY <1>3 DEF Accept, response, ReadEof, Answer, Handle
<1>4. ASSUME NEW w \in Workers, NEW r \in Requests, NEW n \in Lengths,
             AcceptPost(w, r, n)
      PROVE  AnsweredOnce'
  <2>1. st[r] = "new" /\ answers[r] = 0 /\ conf' = conf /\ length'[r] = n
    BY <1>4 DEF AcceptPost
  <2>2. \A q \in Requests \ {r} : /\ st'[q] = st[q] /\ length'[q] = length[q]
                                 /\ answers'[q] = answers[q]
    BY <1>4 DEF AcceptPost, Answer
  <2>3. answers'[r] = IF st'[r] = "done" THEN 1 ELSE 0
    BY <1>4, <2>1 DEF AcceptPost, Answer
  <2>4. st'[r] = "silent" => {n, conf.maxPost} \cap {NaN, Huge} # {}
    BY <1>4, <2>1 DEF AcceptPost, Answer
  <2> QED BY <2>1, <2>2, <2>3, <2>4
<1>5. ASSUME NEW w \in Workers, NEW r \in Requests, NEW n \in 0 .. MaxPiece,
             ReadPiece(w, r, n)
      PROVE  AnsweredOnce'
  BY <1>5 DEF ReadPiece, Answer, Handle
<1>6. ASSUME NEW r \in Requests, Reconnect(r)
      PROVE  AnsweredOnce'
  BY <1>6 DEF Reconnect
<1> QED
  BY <1>1, <1>2, <1>3, <1>4, <1>5, <1>6
     DEF Next, RunStep, vars, loadConfig, SetUp, preparePrivilegeDowngrade,
         LoadApp, newRequestHandler, newHttpHandler, newFastcgiHandler,
         doPrivilegeDowngrade, setgroups, setgid, setuid,
         AppInit, Start, Join, Reset, Return, Shutdown,
         ShutdownLog, ShutdownCheck, stop, ShutdownSleep, ShutdownLog2,
         terminate, Signal, AppUsesLog, Leave, Ended

\* A client gets one response, whatever way its body arrived, and none only
\* where a length could not be read as a number.
THEOREM AnsweredHolds == Spec => []AnsweredOnce
<1>1. Init => AnsweredOnce
  BY DEF Init, AnsweredOnce
<1> QED BY Inductive, <1>1, AnswerStep, PTL DEF Spec

\* Every step keeps the bodies that have been handed over complete.
LEMMA CompleteStep == IInv /\ BodyComplete /\ [Next]_vars => BodyComplete'
<1> SUFFICES ASSUME TypeOK, BodyInv, BodyComplete, [Next]_vars
             PROVE  BodyComplete'
  BY DEF IInv
<1> USE DEF TypeOK, BodyComplete, process, request
<1>1. CASE UNCHANGED <<conf, st, length, got>>
  BY <1>1
<1>2. ASSUME NEW w \in Workers,
             AppLogged(w) \/ AppLog(w, INFORMATIONAL) \/ Respond(w)
      PROVE  BodyComplete'
  BY <1>2 DEF AppLogged, AppLog, Respond, Answer, InRequest
<1>3. ASSUME NEW w \in Workers, NEW r \in Requests,
             Accept(w, r) \/ response(w, r) \/ ReadEof(w, r)
      PROVE  BodyComplete'
  BY <1>3 DEF Accept, response, ReadEof, Answer, Handle, BodyInv
<1>4. ASSUME NEW w \in Workers, NEW r \in Requests, NEW n \in Lengths,
             AcceptPost(w, r, n)
      PROVE  BodyComplete'
  <2>1. st'[r] \in {"silent", "done", "reading"} /\ got' = got /\ conf' = conf
    BY <1>4 DEF AcceptPost, Answer
  <2>2. \A q \in Requests \ {r} : st'[q] = st[q] /\ length'[q] = length[q]
    BY <1>4 DEF AcceptPost, Answer
  <2> QED BY <2>1, <2>2
<1>5. ASSUME NEW w \in Workers, NEW r \in Requests, NEW n \in 0 .. MaxPiece,
             ReadPiece(w, r, n)
      PROVE  BodyComplete'
  <2>1. CASE TooLarge(got[r] + n)
    BY <1>5, <2>1 DEF ReadPiece, Answer
  <2>2. CASE ~TooLarge(got[r] + n)
    <3>1. conf.maxPost \in -Modulus .. Modulus - 1 /\ length[r] \in Nat
      BY <1>5, ConfType DEF ReadPiece, BodyInv
    <3>2. got[r] + n \in Nat /\ got'[r] = got[r] + n
      BY <1>5, <2>2, ServerAssumption DEF ReadPiece
    <3>3. conf.maxPost >= 0 => got'[r] <= conf.maxPost
      BY <2>2, <3>1, <3>2, UnsignedType, ServerAssumption DEF TooLarge
    <3>4. CASE got'[r] < length[r]
      BY <1>5, <2>2, <3>4 DEF ReadPiece
    <3>5. CASE ~(got'[r] < length[r])
      <4>1. got'[r] >= length[r]
        BY <3>1, <3>2, <3>5
      <4>2. /\ conf' = conf /\ length' = length
            /\ \A q \in Requests \ {r} : st'[q] = st[q] /\ got'[q] = got[q]
        BY <1>5, <2>2, <3>5 DEF ReadPiece, Handle
      <4> QED BY <3>3, <4>1, <4>2
    <3> QED BY <3>4, <3>5
  <2> QED BY <2>1, <2>2
<1>6. ASSUME NEW r \in Requests, Reconnect(r)
      PROVE  BodyComplete'
  BY <1>6 DEF Reconnect
<1> QED
  BY <1>1, <1>2, <1>3, <1>4, <1>5, <1>6
     DEF Next, RunStep, vars, loadConfig, SetUp, preparePrivilegeDowngrade,
         LoadApp, newRequestHandler, newHttpHandler, newFastcgiHandler,
         doPrivilegeDowngrade, setgroups, setgid, setuid,
         AppInit, Start, Join, Reset, Return, Shutdown,
         ShutdownLog, ShutdownCheck, stop, ShutdownSleep, ShutdownLog2,
         terminate, Signal, AppUsesLog, Leave, Ended

\* A POST body reaches the app whole and within the limit, in pieces of any
\* length and for limits of either sign.
THEOREM BodyHolds == Spec => []BodyComplete
<1>1. Init => BodyComplete
  BY DEF Init, BodyComplete
<1> QED BY Inductive, <1>1, CompleteStep, PTL DEF Spec
=============================================================================
