------------------------------- MODULE HotSwap ------------------------------
(***************************************************************************)
(* Hot-swapping of the application: RequestHandler, whose app function,    *)
(* access filters and configuration worker threads use while a reload on   *)
(* SIGHUP replaces them (src/src/RequestHandler/RequestHandler.cpp), the   *)
(* wrapper that unloads an app with its last reference                     *)
(* (HandleRequestFunction.cpp), and the reload and the run of nawarun      *)
(* (src/src/nawarun/nawarun.cpp).                                          *)
(*                                                                         *)
(* Generation 1 is what run() loads, generation g > 1 what the (g-1)-th    *)
(* reload brings: its configuration, and the app function and the filters  *)
(* if the app could be loaded.                                             *)
(***************************************************************************)
EXTENDS Naturals, FiniteSets

CONSTANTS
    Workers,        \* threads that serve requests
    Main,           \* the main thread, waiting in RequestHandler::join
    SignalThreads,  \* threads the system may run the SIGHUP handler on
    Apps,           \* shared objects an application path may name
    NoThread,       \* nobody holds the lock
    MaxGen          \* bound on the number of generations (reloads + 1)

ASSUME ThreadAssumption ==
    /\ Main \notin Workers
    /\ NoThread \notin Workers \cup {Main}
    /\ SignalThreads \subseteq Workers \cup {Main}

ASSUME BoundAssumption == MaxGen \in Nat /\ MaxGen >= 1

Gens == 1 .. MaxGen
Threads == Workers \cup {Main}

VARIABLES
    phase,          \* progress of nawarun::run
    ready,          \* readyToReconfigure
    gens,           \* generations so far
    appOf,          \* the shared object each generation's app is in
    leaked,         \* shared objects opened by a load that failed afterwards
    inited,         \* generations whose init function returned 0
    fn,             \* Data::handleRequestFunction, 0 for none
    filters,        \* Data::accessFilters, 0 for none
    config,         \* Data::config, 0 for none
    writer,         \* owner of configurationMutex
    readers,        \* threads holding configurationMutex shared
    wpc,            \* where each worker is
    wconfig,        \* configuration it copies
    wfn,            \* its own reference to the app function
    wfilters,       \* its own reference to the filters
    rpc,            \* where the SIGHUP handler running on a thread is
    rgen,           \* the generation it loads
    rapp            \* TRUE while it holds a reference to the new app

run == <<phase, appOf, leaked, inited>>
handler == <<fn, filters, config>>
mutex == <<writer, readers>>
worker == <<wpc, wconfig, wfn, wfilters>>
reload == <<rpc, rgen, rapp>>
vars == <<run, ready, gens, handler, mutex, worker, reload>>

-----------------------------------------------------------------------------
(* Lifetimes.  A wrapper lives while something refers to it; its destructor *)
(* is the dlclose that matches the dlopen of its generation, and an object  *)
(* stays mapped until each dlopen has been matched.                         *)

\* Mutant: workers use the handler's reference and take none of their own.
Alive_NoWorker(g) ==
    \/ g = fn
    \/ \E t \in Threads : rapp[t] /\ rgen[t] = g
    \/ g = 1 /\ phase # "exited"

Alive(g) ==
    \/ g = fn
    \/ \E w \in Workers : wfn[w] = g
    \/ \E t \in Threads : rapp[t] /\ rgen[t] = g
    \/ g = 1 /\ phase # "exited"          \* the local of run()

Mapped(a) == a \in leaked \/ \E g \in Gens : Alive(g) /\ appOf[g] = a

-----------------------------------------------------------------------------
TypeOK ==
    /\ phase \in {"constructed", "inited", "configured", "started", "serving",
                  "stopping", "exited"}
    /\ ready \in BOOLEAN
    /\ gens \in Gens
    /\ appOf \in [Gens -> Apps]
    /\ leaked \subseteq Apps
    /\ inited \subseteq Gens
    /\ fn \in 0 .. MaxGen /\ filters \in 0 .. MaxGen /\ config \in 0 .. MaxGen
    /\ writer \in Threads \cup {NoThread}
    /\ readers \subseteq Workers
    /\ wpc \in [Workers -> {"idle", "getConfig", "acquire", "lock", "locked",
                            "filters", "app", "flush"}]
    /\ wconfig \in [Workers -> 0 .. MaxGen]
    /\ wfn \in [Workers -> 0 .. MaxGen]
    /\ wfilters \in [Workers -> 0 .. MaxGen]
    /\ rpc \in [Threads -> {"none", "checked", "config", "load", "init",
                            "lock", "lockConfig", "fn", "filters", "assign",
                            "done"}]
    /\ rgen \in [Threads -> 0 .. MaxGen]
    /\ rapp \in [Threads -> BOOLEAN]

\* run() has loaded the app and constructed the request handler with it.
Init ==
    /\ phase = "constructed"
    /\ ready = FALSE
    /\ gens = 1
    /\ \E a \in Apps : appOf = [g \in Gens |-> a]
    /\ leaked = {}
    /\ inited = {}
    /\ fn = 1 /\ filters = 0 /\ config = 1
    /\ writer = NoThread /\ readers = {}
    /\ wpc = [w \in Workers |-> "idle"]
    /\ wconfig = [w \in Workers |-> 0]
    /\ wfn = [w \in Workers |-> 0]
    /\ wfilters = [w \in Workers |-> 0]
    /\ rpc = [t \in Threads |-> "none"]
    /\ rgen = [t \in Threads |-> 0]
    /\ rapp = [t \in Threads |-> FALSE]

-----------------------------------------------------------------------------
(* nawarun::run, in the main thread *)

RunInit ==
    /\ phase = "constructed"
    /\ \/ phase' = "inited" /\ inited' = inited \cup {1}
       \/ phase' = "exited" /\ UNCHANGED inited    \* init returned an error
    /\ UNCHANGED <<appOf, leaked, ready, gens, handler, mutex, worker, reload>>

\* reconfigure(nullopt, filters, config): no other thread runs yet.
RunReconfigure ==
    /\ phase = "inited"
    /\ filters' = 1
    /\ config' = 1
    /\ phase' = "configured"
    /\ UNCHANGED <<appOf, leaked, inited, ready, gens, fn, mutex, worker,
                   reload>>

RunStart ==
    /\ phase = "configured"
    /\ phase' = "started"
    /\ UNCHANGED <<appOf, leaked, inited, ready, gens, handler, mutex, worker,
                   reload>>

RunReady ==
    /\ phase = "started"
    /\ phase' = "serving"
    /\ ready' = TRUE
    /\ UNCHANGED <<appOf, leaked, inited, gens, handler, mutex, worker, reload>>

\* SIGTERM: RequestHandler::stop; requests in progress are served.
Stop ==
    /\ phase = "serving"
    /\ phase' = "stopping"
    /\ UNCHANGED <<appOf, leaked, inited, ready, gens, handler, mutex, worker,
                   reload>>

\* join() returns, and with the handler its references go.
RunExit ==
    /\ phase = "stopping"
    /\ \A w \in Workers : wpc[w] = "idle"
    /\ \A t \in Threads : rpc[t] = "none"
    /\ phase' = "exited"
    /\ fn' = 0 /\ filters' = 0 /\ config' = 0
    /\ UNCHANGED <<appOf, leaked, inited, ready, gens, mutex, worker, reload>>

-----------------------------------------------------------------------------
(* A worker serving a request.  A signal handler running on the worker's   *)
(* thread suspends it.                                                     *)

At(w, l) == wpc[w] = l /\ rpc[w] = "none"
Goto(w, l) == wpc' = [wpc EXCEPT ![w] = l]

Request(w) ==
    /\ phase \in {"started", "serving"}
    /\ At(w, "idle")
    /\ Goto(w, "getConfig")
    /\ UNCHANGED <<run, ready, gens, handler, mutex, wconfig, wfn, wfilters,
                   reload>>

\* getConfig takes no lock: it copies a shared_ptr that reconfigure may be
\* replacing.  The copy reads the pointer, then counts the reference.
ReadConfig(w) ==
    /\ At(w, "getConfig")
    /\ wconfig' = [wconfig EXCEPT ![w] = config]
    /\ Goto(w, "acquire")
    /\ UNCHANGED <<run, ready, gens, handler, mutex, wfn, wfilters, reload>>

AcquireConfig(w) ==
    /\ At(w, "acquire")
    /\ Goto(w, "lock")
    /\ UNCHANGED <<run, ready, gens, handler, mutex, wconfig, wfn, wfilters,
                   reload>>

\* handleRequest: shared_lock.
LockShared(w) ==
    /\ At(w, "lock")
    /\ writer = NoThread
    /\ readers' = readers \cup {w}
    /\ Goto(w, "locked")
    /\ UNCHANGED <<run, ready, gens, handler, writer, wconfig, wfn, wfilters,
                   reload>>

Snapshot(w) ==
    /\ At(w, "locked")
    /\ wfn' = [wfn EXCEPT ![w] = fn]
    /\ wfilters' = [wfilters EXCEPT ![w] = filters]
    /\ readers' = readers \ {w}
    /\ Goto(w, "filters")
    /\ UNCHANGED <<run, ready, gens, handler, writer, wconfig, reload>>

\* The references handleRequest holds go when it returns.
Return(w) ==
    /\ wfn' = [wfn EXCEPT ![w] = 0]
    /\ wfilters' = [wfilters EXCEPT ![w] = 0]
    /\ Goto(w, "flush")

\* applyFilters answers the request or leaves it to the app.
ApplyFilters(w) ==
    /\ At(w, "filters")
    /\ \/ Goto(w, "app") /\ UNCHANGED <<wfn, wfilters>>
       \/ wfilters[w] # 0 /\ Return(w)
    /\ UNCHANGED <<run, ready, gens, handler, mutex, wconfig, reload>>

\* The app's handleRequest.
RunApp(w) ==
    /\ At(w, "app")
    /\ Return(w)
    /\ UNCHANGED <<run, ready, gens, handler, mutex, wconfig, reload>>

\* The response is flushed, and the Connection goes with its configuration.
Finish(w) ==
    /\ At(w, "flush")
    /\ Goto(w, "idle")
    /\ wconfig' = [wconfig EXCEPT ![w] = 0]
    /\ UNCHANGED <<run, ready, gens, handler, mutex, wfn, wfilters, reload>>

WorkerStep(w) ==
    \/ ReadConfig(w) \/ AcquireConfig(w) \/ LockShared(w) \/ Snapshot(w)
    \/ ApplyFilters(w) \/ RunApp(w) \/ Finish(w)

-----------------------------------------------------------------------------
(* nawarun::reload, the SIGHUP handler, on any thread the system chooses.   *)
(* The test of readyToReconfigure and its reset are two steps.              *)

RGoto(t, l) == rpc' = [rpc EXCEPT ![t] = l]

ReloadCheck(t) ==
    /\ rpc[t] = "none"
    /\ phase \in {"serving", "stopping"}
    /\ t \in Workers /\ phase = "stopping" => wpc[t] # "idle"
    /\ ready
    /\ gens < MaxGen
    /\ gens' = gens + 1
    /\ rgen' = [rgen EXCEPT ![t] = gens + 1]
    /\ RGoto(t, "checked")
    /\ UNCHANGED <<run, ready, handler, mutex, worker, rapp>>

ReloadBegin(t) ==
    /\ rpc[t] = "checked"
    /\ ready' = FALSE
    /\ RGoto(t, "config")
    /\ UNCHANGED <<run, gens, handler, mutex, worker, rgen, rapp>>

\* loadConfig: on an error nothing is reloaded.
ReloadConfig(t) ==
    /\ rpc[t] = "config"
    /\ \/ /\ RGoto(t, "none")
          /\ ready' = TRUE
          /\ rgen' = [rgen EXCEPT ![t] = 0]
       \/ RGoto(t, "load") /\ UNCHANGED <<ready, rgen>>
    /\ UNCHANGED <<run, gens, handler, mutex, worker, rapp>>

\* Mutant: the result of dlopen is not tested.
ReloadApp_NullHandle(t) ==
    /\ rpc[t] = "load"
    /\ \E a \in Apps \cup {NoThread} : appOf' = [appOf EXCEPT ![rgen[t]] = a]
    /\ rapp' = [rapp EXCEPT ![t] = TRUE]
    /\ RGoto(t, "init")
    /\ UNCHANGED <<phase, leaked, inited, ready, gens, handler, mutex, worker,
                   rgen>>

\* loadAppFunctions: dlopen fails; a symbol or the version is wrong, which
\* leaves the object open; or the app is there.
ReloadApp(t) ==
    /\ rpc[t] = "load"
    /\ \/ RGoto(t, "lockConfig") /\ UNCHANGED <<appOf, leaked, rapp>>
       \/ /\ \E a \in Apps : leaked' = leaked \cup {a}
          /\ RGoto(t, "lockConfig")
          /\ UNCHANGED <<appOf, rapp>>
       \/ /\ \E a \in Apps : appOf' = [appOf EXCEPT ![rgen[t]] = a]
          /\ rapp' = [rapp EXCEPT ![t] = TRUE]
          /\ RGoto(t, "init")
          /\ UNCHANGED leaked
    /\ UNCHANGED <<phase, inited, ready, gens, handler, mutex, worker, rgen>>

\* Mutant: the return value of init is not tested.
ReloadInit_Unchecked(t) ==
    /\ rpc[t] = "init"
    /\ inited' \in {inited, inited \cup {rgen[t]}}
    /\ RGoto(t, "lock")
    /\ UNCHANGED <<phase, appOf, leaked, ready, gens, handler, mutex, worker,
                   rgen, rapp>>

\* The new app's init: on an error only the configuration is replaced.
ReloadInit(t) ==
    /\ rpc[t] = "init"
    /\ \/ RGoto(t, "lock") /\ inited' = inited \cup {rgen[t]}
       \/ RGoto(t, "lockConfig") /\ UNCHANGED inited
    /\ UNCHANGED <<phase, appOf, leaked, ready, gens, handler, mutex, worker,
                   rgen, rapp>>

\* Mutant: reconfigure does not wait for the readers.
LockUnique_Shared(t) ==
    /\ rpc[t] \in {"lock", "lockConfig"}
    /\ RGoto(t, IF rpc[t] = "lock" THEN "fn" ELSE "assign")
    /\ UNCHANGED <<run, ready, gens, handler, mutex, worker, rgen, rapp>>

\* reconfigure: unique_lock, then the given members one after the other.
LockUnique(t) ==
    /\ rpc[t] \in {"lock", "lockConfig"}
    /\ writer = NoThread /\ readers = {}
    /\ writer' = t
    /\ RGoto(t, IF rpc[t] = "lock" THEN "fn" ELSE "assign")
    /\ UNCHANGED <<run, ready, gens, handler, readers, worker, rgen, rapp>>

AssignFn(t) ==
    /\ rpc[t] = "fn"
    /\ fn' = rgen[t]
    /\ RGoto(t, "filters")
    /\ UNCHANGED <<run, ready, gens, filters, config, mutex, worker, rgen, rapp>>

AssignFilters(t) ==
    /\ rpc[t] = "filters"
    /\ filters' = rgen[t]
    /\ RGoto(t, "assign")
    /\ UNCHANGED <<run, ready, gens, fn, config, mutex, worker, rgen, rapp>>

\* Mutant: reconfigure starts over without giving up the lock.
AssignConfig_KeepLock(t) ==
    /\ rpc[t] = "assign"
    /\ config' = rgen[t]
    /\ RGoto(t, "filters")
    /\ UNCHANGED <<run, ready, gens, fn, filters, mutex, worker, rgen, rapp>>

AssignConfig(t) ==
    /\ rpc[t] = "assign"
    /\ config' = rgen[t]
    /\ writer' = NoThread
    /\ RGoto(t, "done")
    /\ UNCHANGED <<run, ready, gens, fn, filters, readers, worker, rgen, rapp>>

ReloadEnd(t) ==
    /\ rpc[t] = "done"
    /\ ready' = TRUE
    /\ RGoto(t, "none")
    /\ rgen' = [rgen EXCEPT ![t] = 0]
    /\ rapp' = [rapp EXCEPT ![t] = FALSE]
    /\ UNCHANGED <<run, gens, handler, mutex, worker>>

ReloadStep(t) ==
    \/ ReloadBegin(t) \/ ReloadConfig(t) \/ ReloadApp(t) \/ ReloadInit(t)
    \/ LockUnique(t) \/ AssignFn(t) \/ AssignFilters(t) \/ AssignConfig(t)
    \/ ReloadEnd(t)

-----------------------------------------------------------------------------
Terminated == phase = "exited" /\ UNCHANGED vars

Next ==
    \/ RunInit \/ RunReconfigure \/ RunStart \/ RunReady \/ Stop \/ RunExit
    \/ \E w \in Workers : Request(w) \/ WorkerStep(w)
    \/ \E t \in SignalThreads : ReloadCheck(t)
    \/ \E t \in Threads : ReloadStep(t)
    \/ Terminated

Spec == Init /\ [][Next]_vars

\* Threads that can run do.
Fairness ==
    /\ \A w \in Workers : WF_vars(WorkerStep(w))
    /\ \A t \in Threads : WF_vars(ReloadStep(t))

FairSpec == Spec /\ Fairness

-----------------------------------------------------------------------------
(* Properties *)

\* A worker holds the app function and the filters of one generation: a
\* reload is never half visible to handleRequest.
SnapshotConsistent ==
    \A w \in Workers : wfn[w] # 0 => wfilters[w] = wfn[w]

\* The shared object whose code a worker runs, in an auth function of the
\* filters or in handleRequest, is mapped, however many reloads happen
\* meanwhile.
CodeMapped ==
    \A w \in Workers :
        /\ wpc[w] = "filters" /\ wfilters[w] # 0 => Mapped(appOf[wfilters[w]])
        /\ wpc[w] = "app" => Mapped(appOf[wfn[w]])

\* "The new app's init function will run before request handling switches to
\* the new app" (docs/gettingstarted.md:212), and returns 0.
InitBeforeServing ==
    \A w \in Workers : wpc[w] = "app" => wfn[w] \in inited

\* Every request is answered: reloads never block a worker for good.
RequestAnswered ==
    \A w \in Workers : wpc[w] = "getConfig" ~> wpc[w] = "idle"
=============================================================================
