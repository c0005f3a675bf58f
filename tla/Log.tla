-------------------------------- MODULE Log --------------------------------
(***************************************************************************)
(* nawa::Log (src/src/logging/Log.cpp): one stream, one level and one lock *)
(* shared by all Log objects of the process.  The objects themselves only  *)
(* count: the last one to go closes the file and unlocks the settings.     *)
(*                                                                         *)
(* A module that composes Log with the threads of a process takes its      *)
(* operations as parts of its own actions.                                 *)
(***************************************************************************)
EXTENDS Naturals

CONSTANTS
    NoThread,     \* nobody holds outLock
    StaticLogs,   \* Log objects with static storage, alive until exit
    MaxCount      \* bound on the count of Log objects

ASSUME LogAssumption == StaticLogs \in Nat \ {0} /\ MaxCount \in Nat

VARIABLES
    out,             \* the stream in use
    logFile,         \* TRUE while the log file is open
    locked,          \* the settings can no longer be changed
    outputLevel,
    extendedFormat,
    instanceCount,   \* what the code counts
    logs,            \* the Log objects there are
    outLock          \* the thread inside write()

settings == <<out, logFile, locked, outputLevel, extendedFormat>>
logVars == <<settings, instanceCount, logs, outLock>>

OFF == 0
ERROR == 1
WARNING == 2
INFORMATIONAL == 3
DEBUG == 4

LogType ==
    /\ out \in {"cerr", "logFile", "stream"}
    /\ logFile \in BOOLEAN /\ locked \in BOOLEAN /\ extendedFormat \in BOOLEAN
    /\ outputLevel \in OFF .. DEBUG
    /\ instanceCount \in Nat /\ logs \in Nat

\* The static objects exist; nothing has been set.
LogInit ==
    /\ out = "cerr" /\ logFile = FALSE /\ locked = FALSE
    /\ outputLevel = INFORMATIONAL /\ extendedFormat = FALSE
    /\ instanceCount = StaticLogs /\ logs = StaticLogs
    /\ outLock = NoThread

-----------------------------------------------------------------------------
(* Objects *)

Construct ==
    /\ instanceCount < MaxCount
    /\ out' = IF instanceCount = 0 THEN "cerr" ELSE out
    /\ instanceCount' = instanceCount + 1 /\ logs' = logs + 1
    /\ UNCHANGED <<logFile, locked, outputLevel, extendedFormat, outLock>>

Copy ==
    /\ instanceCount < MaxCount
    /\ instanceCount' = instanceCount + 1 /\ logs' = logs + 1
    /\ UNCHANGED <<settings, outLock>>

\* Mutant: assignment drops the count of the object that is overwritten.
Assign_Uncounted ==
    /\ logs > StaticLogs
    /\ instanceCount' = instanceCount - 1
    /\ UNCHANGED <<settings, logs, outLock>>

\* Assignment counts an object although none is made.
Assign ==
    /\ instanceCount < MaxCount
    /\ instanceCount' = instanceCount + 1
    /\ UNCHANGED <<settings, logs, outLock>>

\* Objects of the app are destroyed; the static ones only when it ends.
Destroy ==
    /\ logs > StaticLogs
    /\ logs' = logs - 1 /\ instanceCount' = instanceCount - 1
    /\ locked' = (locked /\ instanceCount' # 0)
    /\ logFile' = (logFile /\ instanceCount' # 0)
    /\ UNCHANGED <<out, outputLevel, extendedFormat, outLock>>

-----------------------------------------------------------------------------
(* Settings, which all do nothing once the stream is locked *)

setStream ==
    /\ out' = IF locked THEN out ELSE "stream"
    /\ UNCHANGED <<logFile, locked, outputLevel, extendedFormat>>

\* A file that cannot be opened leaves out as it was, and throws.
setOutfile(opens) ==
    /\ logFile' = IF locked THEN logFile ELSE opens
    /\ out' = IF locked \/ ~opens THEN out ELSE "logFile"
    /\ UNCHANGED <<locked, outputLevel, extendedFormat>>

setOutputLevel(level) ==
    /\ outputLevel' = IF locked THEN outputLevel ELSE level
    /\ UNCHANGED <<out, logFile, locked, extendedFormat>>

setExtendedFormat(on) ==
    /\ extendedFormat' = IF locked THEN extendedFormat ELSE on
    /\ UNCHANGED <<out, logFile, locked, outputLevel>>

-----------------------------------------------------------------------------
(* Writing: the header goes to *out, the message to cerr, under outLock *)

Passes(level) == level <= outputLevel /\ outputLevel # OFF /\ level # OFF

\* A write in one piece, by code no other step can interrupt.
CanWrite(level) == Passes(level) => outLock = NoThread

BeginWrite(t, level) ==
    /\ Passes(level) /\ outLock = NoThread
    /\ outLock' = t
    /\ UNCHANGED <<settings, instanceCount, logs>>

EndWrite(t) ==
    /\ outLock = t
    /\ outLock' = NoThread
    /\ UNCHANGED <<settings, instanceCount, logs>>
=============================================================================
