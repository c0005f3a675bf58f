------------------------------- MODULE Server ------------------------------
(***************************************************************************)
(* The process: nawarun's start, privilege downgrade and shutdown on       *)
(* SIGTERM, SIGINT and SIGUSR1 (src/src/nawarun/nawarun.cpp), the life     *)
(* cycle of the HTTP and FastCGI request handlers and the asynchronous     *)
(* reading of POST bodies (src/src/RequestHandler/impl/), with the logger  *)
(* that all of them write to.                                              *)
(*                                                                         *)
(* The web server libraries are external.  Of their stop() the model uses  *)
(* what NAWA relies on: no request is accepted afterwards and a thread     *)
(* returns when it runs no handler.                                        *)
(***************************************************************************)
EXTENDS Log, Integers, FiniteSets

CONSTANTS
    Workers,       \* threads of the request handler's pool
    Main,          \* the main thread
    Requests,      \* connections to clients
    Configs,       \* configurations nawarun may be started with
    Lengths,       \* values of content-length, in units of the limit
    MaxPiece,      \* bound on the length of a piece of a POST body
    Modulus,       \* the width of size_t
    MaxSignals,    \* bound on the number of signals to shut down
    NaN, Huge,     \* values stoul and stol throw on: no number, out of range
    NoRequest, NoSignal

Threads == Workers \cup {Main}

(***************************************************************************)
(* What a configuration decides: the request handler and its threads, the  *)
(* user nawarun is started by and the user and group it is to run as (not  *)
(* given or not known to the system included), post/max_size as a long (or *)
(* not one), the log level, and the termination timeout.                   *)
(***************************************************************************)
Config ==
    [handler : {"http", "fastcgi"}, threads : Nat, uid : {"root", "user"},
     user : {"root", "user", "unset", "unknown"},
     group : {"root", "user", "unset", "unknown"},
     maxPost : (-Modulus .. Modulus - 1) \cup {NaN, Huge},
     level : OFF .. DEBUG, extended : BOOLEAN,
     timeout : {"number", "invalid", "overflow"}]

ASSUME ServerAssumption ==
    /\ Main \notin Workers /\ NoThread \notin Threads
    /\ NoRequest \notin Requests
    /\ Configs \subseteq Config
    /\ \A c \in Configs : c.threads <= Cardinality(Workers)
    /\ Modulus \in Nat \ {0} /\ MaxSignals \in Nat /\ MaxPiece \in Nat
    /\ Lengths \subseteq Nat \cup {NaN, Huge}

VARIABLES
    conf,          \* the configuration nawarun was started with
    mpc,           \* where nawarun::run is
    ended,         \* how the process has ended
    uid, gid,      \* whose privileges the process has
    groups,        \* and whose supplementary groups
    handler,       \* requestHandlerPtr is set
    pool,          \* threads that are running
    joined,        \* Data::joined
    ready,         \* readyToReconfigure
    stopping,      \* the library has been told to stop
    job,           \* the request each worker runs a handler for
    st,            \* where each request is
    length,        \* its content-length
    got,           \* bytes of its body so far
    answers,       \* responses written to its client
    hpc,           \* where the shutdown handler running on a thread is
    signal,        \* the signal it handles
    signals        \* signals so far

ids == <<uid, gid, groups>>
process == <<conf, ended, ids>>
server == <<handler, pool, joined, ready, stopping>>
request == <<job, st, length, got, answers>>
handlers == <<hpc, signal, signals>>
vars == <<process, mpc, server, request, handlers, logVars>>

TypeOK ==
    /\ LogType
    /\ conf \in Configs
    /\ mpc \in {"config", "setup", "privileges", "load", "create", "downgrade",
                "setgid", "setuid", "init", "start", "join", "reset", "return"}
    /\ ended \in {"no", "success", "failure", "abort"}
    /\ {uid, gid, groups} \subseteq {"root", "user"}
    /\ handler \in BOOLEAN /\ joined \in BOOLEAN
    /\ ready \in BOOLEAN /\ stopping \in BOOLEAN
    /\ pool \subseteq Workers
    /\ job \in [Workers -> Requests \cup {NoRequest}]
    /\ st \in [Requests -> {"new", "reading", "handling", "writing", "handled",
                            "done", "silent"}]
    /\ length \in [Requests -> Lengths \cup {0}]
    /\ got \in [Requests -> 0 .. Modulus - 1]
    /\ answers \in [Requests -> Nat]
    /\ hpc \in [Threads -> {"none", "log", "check", "stop", "sleep", "log2",
                            "enforce"}]
    /\ signal \in [Threads -> {"TERM", "USR1", NoSignal}]
    /\ signals \in 0 .. MaxSignals
    /\ outLock \in Threads \cup {NoThread}

Init ==
    /\ conf \in Configs
    /\ mpc = "config" /\ ended = "no"
    /\ uid = conf.uid /\ gid = conf.uid /\ groups = conf.uid
    /\ handler = FALSE /\ pool = {} /\ joined = FALSE
    /\ ready = FALSE /\ stopping = FALSE
    /\ job = [w \in Workers |-> NoRequest]
    /\ st = [r \in Requests |-> "new"]
    /\ length = [r \in Requests |-> 0]
    /\ got = [r \in Requests |-> 0]
    /\ answers = [r \in Requests |-> 0]
    /\ hpc = [t \in Threads |-> "none"]
    /\ signal = [t \in Threads |-> NoSignal]
    /\ signals = 0
    /\ LogInit

-----------------------------------------------------------------------------
(* nawarun::run *)

Runs(t) == ended = "no" /\ hpc[t] = "none"
At(l) == mpc = l /\ Runs(Main)
GoTo(l) == mpc' = l /\ UNCHANGED ended
Exit(how) == ended' = how /\ UNCHANGED mpc

\* The log entry of a fatal error, and the return from run.
Fatal == CanWrite(ERROR) /\ Exit("failure")

loadConfig ==
    /\ At("config")
    /\ GoTo("setup") \/ Fatal
    /\ UNCHANGED <<conf, ids, server, request, handlers, logVars>>

\* stoul throws for a timeout that is too large, and nobody catches that; one
\* that is no number is warned of.
setTerminationTimeout ==
    /\ conf.timeout # "overflow"
    /\ conf.timeout = "invalid" => CanWrite(WARNING)

\* Mutant: the configured level is one too high.
setUpLogging_NextLevel ==
    /\ outputLevel' = conf.level + 1 /\ locked' = TRUE
    /\ extendedFormat' = conf.extended
    /\ UNCHANGED <<out, logFile, instanceCount, logs, outLock>>

setUpLogging ==
    /\ outputLevel' = conf.level /\ locked' = TRUE
    /\ extendedFormat' = conf.extended
    /\ UNCHANGED <<out, logFile, instanceCount, logs, outLock>>

SetUp ==
    /\ At("setup")
    /\ \/ setTerminationTimeout /\ setUpLogging /\ GoTo("privileges")
       \/ conf.timeout = "overflow" /\ Exit("abort") /\ UNCHANGED logVars
    /\ UNCHANGED <<conf, ids, server, request, handlers>>

preparePrivilegeDowngrade ==
    /\ At("privileges")
    /\ \/ /\ uid = "root" /\ {conf.user, conf.group} \cap {"unset", "unknown"} # {}
          /\ Fatal
       \/ /\ uid # "root" \/ {conf.user, conf.group} \subseteq {"root", "user"}
          /\ CanWrite(WARNING) /\ GoTo("load")
    /\ UNCHANGED <<conf, ids, server, request, handlers, logVars>>

\* loadAppFunctions, the first time: any of its checks may fail.
LoadApp ==
    /\ At("load")
    /\ GoTo("create") \/ Fatal
    /\ UNCHANGED <<conf, ids, server, request, handlers, logVars>>

\* The constructor of the HTTP handler throws if it cannot listen.
newHttpHandler ==
    /\ At("create") /\ conf.handler = "http"
    /\ \/ handler' = TRUE /\ GoTo("downgrade")
       \/ handler' = FALSE /\ Fatal
    /\ UNCHANGED <<conf, ids, pool, joined, ready, stopping, request,
                   handlers, logVars>>

\* The FastCGI one also throws if the mode is none.  It warns of a limit that
\* is no number, but out_of_range escapes.
newFastcgiHandler ==
    /\ At("create") /\ conf.handler = "fastcgi"
    /\ conf.maxPost = NaN => CanWrite(WARNING)
    /\ \/ conf.maxPost # Huge /\ handler' = TRUE /\ GoTo("downgrade")
       \/ conf.maxPost # Huge /\ handler' = FALSE /\ Fatal
       \/ conf.maxPost = Huge /\ handler' = FALSE /\ Exit("abort")
    /\ UNCHANGED <<conf, ids, pool, joined, ready, stopping, request,
                   handlers, logVars>>

newRequestHandler == newHttpHandler \/ newFastcgiHandler

Downgraded == conf.uid = "root"

\* doPrivilegeDowngrade, if the process was started by root: three system
\* calls, each of which may fail and leave what the earlier ones have done.
\* setgroups is called unless the user or the group is root.
setgroups ==
    /\ At("downgrade")
    /\ \/ ~Downgraded /\ GoTo("init") /\ UNCHANGED groups
       \/ /\ Downgraded /\ GoTo("setgid")
          /\ groups' = IF "root" \in {conf.user, conf.group} THEN groups ELSE "user"
       \/ /\ Downgraded /\ "root" \notin {conf.user, conf.group}
          /\ Fatal /\ UNCHANGED groups
    /\ UNCHANGED <<conf, uid, gid, server, request, handlers, logVars>>

\* Mutant: the result of setgid is not tested.
setgid_Unchecked ==
    /\ At("setgid")
    /\ GoTo("setuid") /\ gid' \in {gid, conf.group}
    /\ UNCHANGED <<conf, uid, groups, server, request, handlers, logVars>>

setgid ==
    /\ At("setgid")
    /\ (GoTo("setuid") /\ gid' = conf.group) \/ (Fatal /\ UNCHANGED gid)
    /\ UNCHANGED <<conf, uid, groups, server, request, handlers, logVars>>

setuid ==
    /\ At("setuid")
    /\ (GoTo("init") /\ uid' = conf.user) \/ (Fatal /\ UNCHANGED uid)
    /\ UNCHANGED <<conf, gid, groups, server, request, handlers, logVars>>

doPrivilegeDowngrade == setgroups \/ setgid \/ setuid

\* The app's init function, and reconfigure with what it has set up.
AppInit ==
    /\ At("init")
    /\ GoTo("start") \/ Fatal
    /\ UNCHANGED <<conf, ids, server, request, handlers, logVars>>

\* The HTTP handler takes at least one thread.
Concurrency == IF conf.threads = 0 /\ conf.handler = "http" THEN 1 ELSE conf.threads

\* start(): if a thread cannot be created, the ones there are keep running;
\* run logs the error and joins them.  A stop() before start() may be
\* forgotten by the library.
Start ==
    /\ At("start")
    /\ \E T \in SUBSET Workers :
          /\ pool' = T
          /\ ready' = (Cardinality(T) = Concurrency)
          /\ Cardinality(T) <= Concurrency
          /\ Cardinality(T) < Concurrency => CanWrite(ERROR)
    /\ stopping' \in {FALSE, stopping}
    /\ GoTo("join")
    /\ UNCHANGED <<conf, ids, handler, joined, request, handlers, logVars>>

\* Mutant: join does not wait for a thread that is still in a request.
Join_Early ==
    /\ At("join") /\ \A w \in pool : job[w] = NoRequest
    /\ joined' = TRUE /\ GoTo("reset")
    /\ UNCHANGED <<conf, ids, handler, pool, ready, stopping, request,
                   handlers, logVars>>

Join ==
    /\ At("join") /\ pool = {}
    /\ joined' = TRUE /\ GoTo("reset")
    /\ UNCHANGED <<conf, ids, handler, pool, ready, stopping, request,
                   handlers, logVars>>

\* requestHandlerPtr.reset(nullptr); the destructors find it joined.
Reset ==
    /\ At("reset")
    /\ handler' = FALSE /\ GoTo("return")
    /\ UNCHANGED <<conf, ids, pool, joined, ready, stopping, request,
                   handlers, logVars>>

Return ==
    /\ At("return") /\ Exit("success")
    /\ UNCHANGED <<conf, ids, server, request, handlers, logVars>>

RunStep ==
    \/ loadConfig \/ SetUp \/ preparePrivilegeDowngrade \/ LoadApp
    \/ newRequestHandler \/ doPrivilegeDowngrade \/ AppInit
    \/ Start \/ Join \/ Reset \/ Return

-----------------------------------------------------------------------------
(* shutdown, the handler of SIGINT, SIGTERM and SIGUSR1, on any thread *)

Move(t, l) == hpc' = [hpc EXCEPT ![t] = l] /\ UNCHANGED <<signal, signals>>

Signal(t, s) ==
    /\ Runs(t) /\ t \in pool \cup {Main} /\ signals < MaxSignals
    /\ hpc' = [hpc EXCEPT ![t] = "log"]
    /\ signal' = [signal EXCEPT ![t] = s]
    /\ signals' = signals + 1
    /\ UNCHANGED <<process, mpc, server, request, logVars>>

Handling(t, l) == ended = "no" /\ hpc[t] = l

ShutdownLog(t) ==
    /\ Handling(t, "log") /\ CanWrite(INFORMATIONAL)
    /\ Move(t, "check")
    /\ UNCHANGED <<process, mpc, server, request, logVars>>

ShutdownCheck(t) ==
    /\ Handling(t, "check")
    /\ IF handler THEN Move(t, "stop") /\ UNCHANGED ended
                  ELSE ended' = "success" /\ UNCHANGED handlers
    /\ UNCHANGED <<conf, ids, mpc, server, request, logVars>>

\* Mutant: a handler whose start() failed is not stopped.
stop_OnlyActive(t) ==
    /\ Handling(t, "stop")
    /\ stopping' = (stopping \/ (~joined /\ ready))
    /\ Move(t, "sleep")
    /\ UNCHANGED <<process, mpc, handler, pool, joined, ready, request, logVars>>

stop(t) ==
    /\ Handling(t, "stop")
    /\ stopping' = (stopping \/ ~joined)
    /\ Move(t, "sleep")
    /\ UNCHANGED <<process, mpc, handler, pool, joined, ready, request, logVars>>

\* sleep(terminationTimeout), which may end early, and the second test.
ShutdownSleep(t) ==
    /\ Handling(t, "sleep")
    /\ Move(t, IF handler /\ signal[t] # "USR1" THEN "log2" ELSE "none")
    /\ UNCHANGED <<process, mpc, server, request, logVars>>

ShutdownLog2(t) ==
    /\ Handling(t, "log2") /\ CanWrite(INFORMATIONAL)
    /\ Move(t, "enforce")
    /\ UNCHANGED <<process, mpc, server, request, logVars>>

\* terminate(): for both handlers a call that lets running requests finish.
terminate(t) ==
    /\ Handling(t, "enforce")
    /\ stopping' = (stopping \/ ~joined)
    /\ Move(t, "none")
    /\ UNCHANGED <<process, mpc, handler, pool, joined, ready, request, logVars>>

Shutdown(t) ==
    \/ ShutdownLog(t) \/ ShutdownCheck(t) \/ stop(t)
    \/ ShutdownSleep(t) \/ ShutdownLog2(t) \/ terminate(t)

-----------------------------------------------------------------------------
(* Requests on the workers *)

\* Conversion to size_t, which makes a negative limit a huge one.
Unsigned(n) == IF n < 0 THEN n + Modulus ELSE n

TooLarge(n) == n > Unsigned(conf.maxPost)

Free(w) == w \in pool /\ Runs(w) /\ job[w] = NoRequest

\* The response, or the error page, is written; the worker is free again.
Answer(w, r) ==
    /\ st' = [st EXCEPT ![r] = "done"]
    /\ answers' = [answers EXCEPT ![r] = @ + 1]
    /\ job' = [job EXCEPT ![w] = NoRequest]

Handle(w, r) ==
    /\ st' = [st EXCEPT ![r] = "handling"]
    /\ job' = [job EXCEPT ![w] = r]
    /\ UNCHANGED answers

\* HttpHandler::operator() for a request without a body
Accept(w, r) ==
    /\ Free(w) /\ ~stopping /\ st[r] = "new" /\ conf.handler = "http"
    /\ Handle(w, r)
    /\ UNCHANGED <<process, mpc, server, length, got, handlers, logVars>>

\* FastcgippRequestAdapter::response: the library delivers requests complete.
response(w, r) ==
    /\ Free(w) /\ ~stopping /\ st[r] = "new" /\ conf.handler = "fastcgi"
    /\ Handle(w, r)
    /\ UNCHANGED <<process, mpc, server, length, got, handlers, logVars>>

\* HttpHandler::operator() for a POST request.
AcceptPost(w, r, n) ==
    /\ Free(w) /\ ~stopping /\ st[r] = "new" /\ conf.handler = "http"
    /\ length' = [length EXCEPT ![r] = n]
    /\ \/ /\ n \in {NaN, Huge} \/ conf.maxPost \in {NaN, Huge}
          /\ st' = [st EXCEPT ![r] = "silent"] /\ UNCHANGED <<answers, job>>
       \/ /\ n \notin {NaN, Huge} /\ conf.maxPost \notin {NaN, Huge}
          /\ TooLarge(n) /\ Answer(w, r)
       \/ /\ n \notin {NaN, Huge} /\ conf.maxPost \notin {NaN, Huge}
          /\ ~TooLarge(n)
          /\ st' = [st EXCEPT ![r] = "reading"] /\ UNCHANGED <<answers, job>>
    /\ UNCHANGED <<process, mpc, server, got, handlers, logVars>>

\* Mutant: the body is handled with the first piece.
ReadPiece_Once(w, r, n) ==
    /\ Free(w) /\ st[r] = "reading"
    /\ got' = [got EXCEPT ![r] = @ + n]
    /\ IF TooLarge(got'[r]) THEN Answer(w, r) ELSE Handle(w, r)
    /\ UNCHANGED <<process, mpc, server, length, handlers, logVars>>

\* InputConsumingHttpHandler::operator() for the next n bytes; an error other
\* than eof is a piece without bytes.
ReadPiece(w, r, n) ==
    /\ Free(w) /\ st[r] = "reading"
    /\ IF TooLarge(got[r] + n)
       THEN Answer(w, r) /\ UNCHANGED got
       ELSE /\ got' = [got EXCEPT ![r] = @ + n]
            /\ IF got'[r] < length[r] THEN UNCHANGED <<st, job, answers>>
                                      ELSE Handle(w, r)
    /\ UNCHANGED <<process, mpc, server, length, handlers, logVars>>

\* Mutant: reading goes on after the error page.
ReadEof_Continue(w, r) ==
    /\ Free(w) /\ st[r] = "reading" /\ CanWrite(ERROR) /\ answers[r] < 2
    /\ answers' = [answers EXCEPT ![r] = @ + 1]
    /\ UNCHANGED <<process, mpc, server, job, st, length, got, handlers, logVars>>

\* The client has closed the connection: an error page, and no more reading.
ReadEof(w, r) ==
    /\ Free(w) /\ st[r] = "reading" /\ CanWrite(ERROR)
    /\ Answer(w, r)
    /\ UNCHANGED <<process, mpc, server, length, got, handlers, logVars>>

InRequest(w, s) == w \in pool /\ Runs(w) /\ job[w] # NoRequest /\ st[job[w]] = s

\* The app logs something while it handles the request.
AppLog(w, level) ==
    /\ InRequest(w, "handling") /\ BeginWrite(w, level)
    /\ st' = [st EXCEPT ![job[w]] = "writing"]
    /\ UNCHANGED <<process, mpc, server, job, length, got, answers, handlers>>

AppLogged(w) ==
    /\ InRequest(w, "writing") /\ EndWrite(w)
    /\ st' = [st EXCEPT ![job[w]] = "handled"]
    /\ UNCHANGED <<process, mpc, server, job, length, got, answers, handlers>>

\* The app makes, copies, assigns or destroys a Log object or tries to
\* change the settings.
AppUsesLog(w) ==
    /\ InRequest(w, "handling")
    /\ \/ Construct \/ Copy \/ Assign \/ Destroy
       \/ (setStream \/ setOutfile(TRUE) \/ setOutfile(FALSE)
             \/ setOutputLevel(OFF) \/ setExtendedFormat(TRUE))
             /\ UNCHANGED <<instanceCount, logs, outLock>>
    /\ UNCHANGED <<process, mpc, server, request, handlers>>

\* The app returns, and the response is flushed.
Respond(w) ==
    /\ InRequest(w, "handling") \/ InRequest(w, "handled")
    /\ Answer(w, job[w])
    /\ UNCHANGED <<process, mpc, server, length, got, handlers, logVars>>

\* A thread of the pool returns after stop().
Leave(w) ==
    /\ Free(w) /\ stopping
    /\ pool' = pool \ {w}
    /\ UNCHANGED <<process, mpc, handler, joined, ready, stopping, request,
                   handlers, logVars>>

\* The client closes the connection and opens a new one.
Reconnect(r) ==
    /\ ended = "no" /\ st[r] \in {"done", "silent"}
    /\ st' = [st EXCEPT ![r] = "new"]
    /\ length' = [length EXCEPT ![r] = 0]
    /\ got' = [got EXCEPT ![r] = 0]
    /\ answers' = [answers EXCEPT ![r] = 0]
    /\ UNCHANGED <<process, mpc, server, job, handlers, logVars>>

Ended == ended # "no" /\ UNCHANGED vars

Next ==
    \/ RunStep
    \/ \E t \in Threads : Shutdown(t) \/ \E s \in {"TERM", "USR1"} : Signal(t, s)
    \/ \E w \in Workers :
          \/ AppLogged(w) \/ AppUsesLog(w) \/ Respond(w) \/ Leave(w)
          \/ AppLog(w, INFORMATIONAL)
          \/ \E r \in Requests :
                \/ Accept(w, r) \/ response(w, r) \/ ReadEof(w, r)
                \/ \E n \in Lengths : AcceptPost(w, r, n)
                \/ \E n \in 0 .. MaxPiece : ReadPiece(w, r, n)
    \/ \E r \in Requests : Reconnect(r)
    \/ Ended

Spec == Init /\ [][Next]_vars

FairSpec ==
    /\ Spec /\ WF_vars(RunStep)
    /\ \A t \in Threads : WF_vars(Shutdown(t))
    /\ \A w \in Workers : WF_vars(AppLogged(w)) /\ WF_vars(Respond(w))
                              /\ WF_vars(Leave(w))

-----------------------------------------------------------------------------
(* Properties *)

\* A shutdown handler calls stop() or terminate() only on a request handler
\* that exists: its test of requestHandlerPtr cannot be overtaken by the
\* reset at the end of run, which waits for the threads of the pool.
LiveHandlerStopped ==
    \A t \in Threads :
        ended = "no" /\ hpc[t] \in {"stop", "enforce"} => handler

\* A client gets one response at most, and a request whose handling is over
\* has had one, however its body arrived.  The exception is a POST request
\* for which a length is no number: the exception of stoul or stol is
\* swallowed, and nothing is ever written.
AnsweredOnce ==
    \A r \in Requests :
        /\ answers[r] = IF st[r] = "done" THEN 1 ELSE 0
        /\ st[r] = "silent" => {length[r], conf.maxPost} \cap {NaN, Huge} # {}

\* The app sees a POST body only when it is complete, and never one beyond
\* the configured limit, whatever pieces it came in.
BodyComplete ==
    \A r \in Requests :
        st[r] \in {"handling", "writing", "handled"} /\ got[r] + length[r] > 0 =>
            got[r] >= length[r] /\ (conf.maxPost >= 0 => got[r] <= conf.maxPost)

\* Whatever steps of the start fail, no thread serves requests as the user
\* root, in the group root or with root's supplementary groups, unless the
\* configuration asks for it: it names that user, that group, or for the
\* supplementary groups one of them.
PrivilegesDropped ==
    pool # {} => /\ uid = "root" => conf.user = "root"
                 /\ gid = "root" => conf.group = "root"
                 /\ groups = "root" => "root" \in {conf.user, conf.group}

\* While a Log object exists the settings that nawarun has locked stay as
\* they are, whatever the app does with its own Log objects.
LogSettled == [][locked => UNCHANGED settings]_vars

\* A signal handler waits in Log::write for the lock that the thread it has
\* interrupted holds.
SelfLocked == \E t \in Threads : outLock = t /\ hpc[t] = "log"

\* A signal to shut down that reaches the running server ends the process,
\* also when start() has failed for some threads and when POST bodies are
\* being read.  The exception is a process in which some signal has interrupted
\* its thread inside Log::write: the handler, which logs as well, then waits
\* for its own thread, and join() for both.
ShutdownEnds ==
    (mpc = "join" /\ \E t \in Threads : hpc[t] = "stop")
        ~> (ended # "no" \/ SelfLocked)
=============================================================================
