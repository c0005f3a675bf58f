--------------------------- MODULE HotSwapProofs ---------------------------
(***************************************************************************)
(* Proofs about hot-swapping, for any number of workers, reloads and apps, *)
(* and for every choice of the threads that run the SIGHUP handler.        *)
(***************************************************************************)
EXTENDS HotSwap, TLAPS

Critical == {"fn", "filters", "assign"}

\* Who holds configurationMutex, and that readers exclude a writer.
LockInv ==
    /\ \A w \in Workers : wpc[w] = "locked" => w \in readers
    /\ writer # NoThread => readers = {}
    /\ \A t \in Threads : rpc[t] \in Critical => writer = t

\* What a reload in progress has already done.
ReloadInv ==
    \A t \in Threads :
        /\ rpc[t] # "none" => rgen[t] \in Gens
        /\ rpc[t] \in {"lock", "fn", "filters"} => rgen[t] \in inited
        /\ rpc[t] = "filters" => fn = rgen[t]

\* Before request handling starts, and after it has ended, nobody else runs.
PhaseInv ==
    /\ phase \in {"constructed", "inited", "configured", "exited"} =>
         /\ \A w \in Workers : wpc[w] = "idle"
         /\ \A t \in Threads : rpc[t] = "none"
    /\ phase \in {"constructed", "inited"} => fn = 1
    /\ phase \in {"constructed", "inited", "exited"} => filters = 0
    /\ phase = "inited" => 1 \in inited

\* Outside of a critical section the handler's members belong together.
HandlerInv ==
    phase \in {"configured", "started", "serving", "stopping"} =>
        /\ fn \in Gens /\ fn \in inited
        /\ (\A t \in Threads : rpc[t] # "filters") => filters = fn

\* What a worker holds between its snapshot and the return of handleRequest.
WorkerInv ==
    \A w \in Workers :
        IF wpc[w] \in {"filters", "app"}
        THEN wfn[w] \in Gens /\ wfn[w] \in inited /\ wfilters[w] = wfn[w]
        ELSE wfn[w] = 0 /\ wfilters[w] = 0

IInv == TypeOK /\ LockInv /\ ReloadInv /\ PhaseInv /\ HandlerInv /\ WorkerInv

-----------------------------------------------------------------------------
\* The state in which run() constructs the request handler satisfies IInv.
LEMMA InitInv == Init => IInv
<1> SUFFICES ASSUME Init PROVE IInv
  OBVIOUS
<1>1. 1 \in Gens /\ 1 \in 0 .. MaxGen /\ 0 \in 0 .. MaxGen
  BY BoundAssumption DEF Gens
<1>2. TypeOK
  BY <1>1 DEF Init, TypeOK
<1>3. LockInv /\ ReloadInv
  BY DEF Init, LockInv, ReloadInv, Critical
<1>4. PhaseInv /\ HandlerInv /\ WorkerInv
  BY DEF Init, PhaseInv, HandlerInv, WorkerInv
<1> QED BY <1>2, <1>3, <1>4 DEF IInv

\* The steps of run() preserve IInv: no other thread is active.
LEMMA RunSteps ==
    ASSUME IInv,
           RunInit \/ RunReconfigure \/ RunStart \/ RunReady \/ Stop \/ RunExit
    PROVE  IInv'
<1> USE DEF IInv, TypeOK, LockInv, ReloadInv, PhaseInv, HandlerInv, WorkerInv,
            run, handler, mutex, worker, reload
<1>0. 1 \in Gens /\ 1 \in 0 .. MaxGen /\ 0 \in 0 .. MaxGen
  BY BoundAssumption DEF Gens
<1>1. CASE RunInit
  BY <1>0, <1>1 DEF RunInit
<1>2. CASE RunReconfigure
  BY <1>0, <1>2 DEF RunReconfigure
<1>3. CASE RunStart
  BY <1>3 DEF RunStart
<1>4. CASE RunReady
  BY <1>4 DEF RunReady
<1>5. CASE Stop
  BY <1>5 DEF Stop
<1>6. CASE RunExit
  BY <1>0, <1>6 DEF RunExit
<1> QED BY <1>1, <1>2, <1>3, <1>4, <1>5, <1>6

\* The steps of a worker preserve IInv: its snapshot is taken while no reload
\* is in its critical section.
LEMMA WorkerSteps ==
    ASSUME IInv, NEW w \in Workers, Request(w) \/ WorkerStep(w)
    PROVE  IInv'
<1> USE DEF IInv, TypeOK, LockInv, ReloadInv, PhaseInv, HandlerInv, WorkerInv,
            run, handler, mutex, worker, reload, At, Goto
<1>0. 0 \in 0 .. MaxGen /\ Gens \subseteq 0 .. MaxGen /\ 0 \notin Gens
  BY BoundAssumption DEF Gens
<1>1. CASE Request(w)
  BY <1>1 DEF Request
<1>2. CASE ReadConfig(w)
  BY <1>2 DEF ReadConfig
<1>3. CASE AcquireConfig(w)
  BY <1>3 DEF AcquireConfig
<1>4. CASE LockShared(w)
  BY <1>4 DEF LockShared
<1>5. CASE Snapshot(w)
  <2>1. writer = NoThread
    BY <1>5 DEF Snapshot
  <2>2. \A t \in Threads : rpc[t] \notin Critical
    BY <2>1, ThreadAssumption DEF Threads
  <2>3. phase \in {"started", "serving", "stopping"}
    BY <1>5 DEF Snapshot
  <2>4. filters = fn /\ fn \in Gens /\ fn \in inited
    BY <2>2, <2>3 DEF Critical
  <2> QED BY <1>0, <1>5, <2>1, <2>4 DEF Snapshot
<1>6. CASE ApplyFilters(w)
  BY <1>0, <1>6 DEF ApplyFilters, Return
<1>7. CASE RunApp(w)
  BY <1>0, <1>7 DEF RunApp, Return
<1>8. CASE Finish(w)
  BY <1>0, <1>8 DEF Finish
<1> QED BY <1>1, <1>2, <1>3, <1>4, <1>5, <1>6, <1>7, <1>8 DEF WorkerStep

\* The steps of a reload preserve IInv: it replaces the members one by one, in
\* its critical section, by those of a generation that has been initialised.
LEMMA ReloadSteps ==
    ASSUME IInv,
           NEW t \in Threads, (t \in SignalThreads /\ ReloadCheck(t)) \/ ReloadStep(t)
    PROVE  IInv'
<1> USE DEF IInv, TypeOK, LockInv, ReloadInv, PhaseInv, HandlerInv, WorkerInv,
            run, handler, mutex, worker, reload, RGoto
<1>0. 0 \in 0 .. MaxGen /\ Gens \subseteq 0 .. MaxGen
  BY BoundAssumption DEF Gens
<1>1. CASE ReloadCheck(t)
  <2>1. gens + 1 \in Gens
    BY <1>1, BoundAssumption DEF ReloadCheck, Gens
  <2> QED BY <1>0, <1>1, <2>1 DEF ReloadCheck, Critical
<1>2. CASE ReloadBegin(t)
  BY <1>2 DEF ReloadBegin, Critical
<1>3. CASE ReloadConfig(t)
  <2>1. phase \notin {"constructed", "inited", "configured", "exited"}
    BY <1>3 DEF ReloadConfig
  <2>2. TypeOK'
    <3>1. CASE ready' = TRUE /\ RGoto(t, "none") /\ rgen' = [rgen EXCEPT ![t] = 0]
      BY <1>0, <1>3, <3>1 DEF ReloadConfig
    <3>2. CASE RGoto(t, "load") /\ UNCHANGED <<ready, rgen>>
      BY <1>3, <3>2 DEF ReloadConfig
    <3> QED BY <1>3, <3>1, <3>2 DEF ReloadConfig
  <2>3. LockInv' /\ ReloadInv'
    BY <1>3 DEF ReloadConfig, Critical
  <2>4. PhaseInv' /\ WorkerInv'
    BY <1>3, <2>1 DEF ReloadConfig
  <2>5. HandlerInv'
    BY <1>3 DEF ReloadConfig
  <2> QED BY <2>2, <2>3, <2>4, <2>5
<1>4. CASE ReloadApp(t)
  <2>1. phase \notin {"constructed", "inited", "configured", "exited"}
    BY <1>4 DEF ReloadApp
  <2>2. TypeOK'
    <3>1. CASE RGoto(t, "lockConfig") /\ UNCHANGED <<appOf, rapp>>
      BY <1>4, <3>1 DEF ReloadApp
    <3>2. CASE /\ \E a \in Apps : appOf' = [appOf EXCEPT ![rgen[t]] = a]
               /\ rapp' = [rapp EXCEPT ![t] = TRUE]
               /\ RGoto(t, "init")
               /\ UNCHANGED leaked
      <4>1. UNCHANGED <<phase, inited, ready, gens, handler, mutex, worker,
                        rgen>>
        BY <1>4 DEF ReloadApp
      <4>2. appOf' \in [Gens -> Apps]
        <5>1. PICK a \in Apps : appOf' = [appOf EXCEPT ![rgen[t]] = a]
          BY <3>2
        <5>2. appOf \in [Gens -> Apps]
          OBVIOUS
        <5> QED BY ONLY <5>1, <5>2
      <4>3. rapp' \in [Threads -> BOOLEAN]
        BY <3>2, Zenon
      <4> QED BY <3>2, <4>1, <4>2, <4>3
    <3> QED BY <1>4, <3>1, <3>2 DEF ReloadApp
  <2>3. LockInv' /\ ReloadInv'
    BY <1>4 DEF ReloadApp, Critical
  <2>4. PhaseInv' /\ WorkerInv'
    BY <1>4, <2>1 DEF ReloadApp
  <2>5. HandlerInv'
    BY <1>4 DEF ReloadApp
  <2> QED BY <2>2, <2>3, <2>4, <2>5
<1>5. CASE ReloadInit(t)
  BY <1>5 DEF ReloadInit, Critical
<1>6. CASE LockUnique(t)
  <2>1. \A u \in Threads : rpc[u] \notin Critical
    BY <1>6, ThreadAssumption DEF LockUnique, Threads
  <2>2. phase \notin {"constructed", "inited", "configured", "exited"}
    BY <1>6 DEF LockUnique
  <2>3. TypeOK' /\ LockInv' /\ WorkerInv' /\ PhaseInv'
    BY <1>6, <2>1, <2>2 DEF LockUnique
  <2>4. ReloadInv'
    BY <1>6 DEF LockUnique
  <2>5. HandlerInv'
    BY <1>6, <2>1 DEF LockUnique, Critical
  <2> QED BY <2>3, <2>4, <2>5
<1>7. CASE AssignFn(t)
  <2>1. \A u \in Threads : rpc[u] \in Critical => u = t
    BY <1>7 DEF AssignFn, Critical
  <2>2. phase \notin {"constructed", "inited", "configured", "exited"}
    BY <1>7 DEF AssignFn
  <2>3. rgen[t] \in Gens /\ rgen[t] \in inited /\ rgen[t] \in 0 .. MaxGen
    BY <1>0, <1>7 DEF AssignFn
  <2>4. TypeOK' /\ LockInv' /\ WorkerInv' /\ PhaseInv'
    BY <1>7, <2>2, <2>3 DEF AssignFn, Critical
  <2>5. ReloadInv'
    BY <1>7, <2>1, <2>3 DEF AssignFn, Critical
  <2>6. HandlerInv'
    BY <1>7, <2>3 DEF AssignFn
  <2> QED BY <2>4, <2>5, <2>6
<1>8. CASE AssignFilters(t)
  BY <1>0, <1>8 DEF AssignFilters, Critical
<1>9. CASE AssignConfig(t)
  BY <1>0, <1>9, ThreadAssumption DEF AssignConfig, Critical, Threads
<1>10. CASE ReloadEnd(t)
  BY <1>0, <1>10 DEF ReloadEnd, Critical
<1> QED BY <1>1, <1>2, <1>3, <1>4, <1>5, <1>6, <1>7, <1>8, <1>9, <1>10
        DEF ReloadStep

\* IInv is an invariant of the specification.
THEOREM Inductive == Spec => []IInv
<1>1. IInv /\ [Next]_vars => IInv'
  <2> SUFFICES ASSUME IInv, [Next]_vars PROVE IInv'
    OBVIOUS
  <2>1. CASE UNCHANGED vars
    BY <2>1 DEF vars, run, handler, mutex, worker, reload, IInv, TypeOK,
                LockInv, ReloadInv, PhaseInv, HandlerInv, WorkerInv
  <2>2. CASE Next
    BY <2>1, <2>2, RunSteps, WorkerSteps, ReloadSteps, ThreadAssumption
       DEF Next, Terminated, Threads
  <2> QED BY <2>1, <2>2
<1> QED BY InitInv, <1>1, PTL DEF Spec

\* Every variable of the request handler, the workers and the reloads keeps
\* its type.
THEOREM TypeCorrect == Spec => []TypeOK
<1>1. IInv => TypeOK
  BY DEF IInv
<1> QED BY Inductive, <1>1, PTL

\* handleRequest never combines the app function of one reload with the
\* filters of another.
THEOREM Consistent == Spec => []SnapshotConsistent
<1>1. IInv => SnapshotConsistent
  BY DEF IInv, WorkerInv, SnapshotConsistent
<1> QED BY Inductive, <1>1, PTL

\* No worker executes code of an app that has been unloaded: the reference in
\* its snapshot keeps the shared object of the function and, because both are
\* of one generation, of the filters mapped.
THEOREM NoUnmappedCode == Spec => []CodeMapped
<1>1. IInv => CodeMapped
  <2> SUFFICES ASSUME IInv, NEW w \in Workers, wpc[w] \in {"filters", "app"}
               PROVE  /\ Mapped(appOf[wfn[w]])
                      /\ wfilters[w] = wfn[w]
    BY DEF CodeMapped
  <2>1. wfn[w] \in Gens /\ wfilters[w] = wfn[w]
    BY DEF IInv, WorkerInv
  <2>2. Alive(wfn[w])
    BY DEF Alive
  <2> QED BY <2>1, <2>2 DEF Mapped
<1> QED BY Inductive, <1>1, PTL

\* Requests reach an app only after its init function has returned 0.
THEOREM InitFirst == Spec => []InitBeforeServing
<1>1. IInv => InitBeforeServing
  BY DEF IInv, WorkerInv, InitBeforeServing
<1> QED BY Inductive, <1>1, PTL
=============================================================================
