------------------------------- MODULE FileLock -------------------------------
(***************************************************************************)
(* SwapLock on a native node: the file <uuid>.lock holding a timestamp.    *)
(* The file system orders single calls, so creating, reading, truncating,  *)
(* writing and removing the file are steps of their own.                   *)
(***************************************************************************)
EXTENDS SwapTasks

VARIABLES
    file,             \* "none", "empty" (no parsable timestamp) or "stamped"
    age,              \* the time since the timestamp of a stamped file
    attached          \* the file a task has open is the one at the path

fileVars == <<file, age, attached>>
vars == <<pc, wait, attempts, done, crashes, errors, late, file, age, attached>>

TypeOK ==
    /\ TaskTypeOK
    /\ file \in {"none", "empty", "stamped"}
    /\ age \in 0..Cap
    /\ attached \in [Tasks -> BOOLEAN]

Init ==
    /\ TaskInit
    /\ file = "none"
    /\ age = 0
    /\ attached = [t \in Tasks |-> FALSE]

\* Drop for FileLock: remove_file, whoever wrote the file; its error is ignored.
RemoveFile ==
    /\ file' = "none"
    /\ attached' = [t \in Tasks |-> FALSE]
    /\ UNCHANGED age

\* The first half of touch: now_sec(), then fs::write opens the file, creating or
\* truncating it.
OpenTruncated(t) ==
    /\ ReadClock(t)
    /\ file' = "empty"
    /\ attached' = [attached EXCEPT ![t] = TRUE]
    /\ UNCHANGED age

\* The second half: the write reaches the path unless the file was removed since.
WriteStamp(t) ==
    /\ IF attached[t]
       THEN file' = "stamped" /\ age' = wait[t]
       ELSE UNCHANGED <<file, age>>
    /\ attached' = [attached EXCEPT ![t] = FALSE]

\* FileLock::lock opens with create_new; any other error than AlreadyExists ends the task.
Create(t) ==
    /\ pc[t] = "Lock"
    /\ \/ file = "none" /\ file' = "empty" /\ Goto(t, "Stamp") /\ UNCHANGED errors
       \/ file # "none" /\ Goto(t, "Read") /\ UNCHANGED <<file, errors>>
       \/ Fault /\ Goto(t, "Ended") /\ UNCHANGED file
    /\ UNCHANGED <<wait, attempts, done, crashes, late, age, attached>>

\* Mutant: the time to live is not looked at.
MayTakeOverEmpty == file = "empty"

\* now_float() - lm > ttl_sec, or no timestamp
MayTakeOver ==
    \/ file = "empty"
    \/ file = "stamped" /\ age > Ttl

\* read_timestamp; an error, such as a file removed since, ends the task.
Read(t) ==
    /\ pc[t] = "Read"
    /\ \/ /\ MayTakeOver
          /\ Goto(t, "Stamp")
          /\ UNCHANGED <<wait, attempts, done, crashes, late, errors>>
       \/ /\ file # "none" /\ ~MayTakeOver
          /\ LockBusy(t)
       \/ /\ \/ file = "none" /\ UNCHANGED errors
             \/ Fault
          /\ Goto(t, "Ended")
          /\ UNCHANGED <<wait, attempts, done, crashes, late>>
    /\ UNCHANGED fileVars

\* The touch inside lock; when it fails, the FileLock just made is dropped.
Stamp(t) ==
    /\ pc[t] = "Stamp"
    /\ \/ OpenTruncated(t) /\ Goto(t, "Write") /\ UNCHANGED errors
       \/ Fault /\ RemoveFile /\ Goto(t, "Ended") /\ UNCHANGED wait
    /\ UNCHANGED <<attempts, done, crashes, late>>

Write(t) ==
    /\ pc[t] = "Write"
    /\ \/ WriteStamp(t) /\ Goto(t, "Load") /\ UNCHANGED errors
       \/ Fault /\ RemoveFile /\ Goto(t, "Ended")
    /\ UNCHANGED <<wait, attempts, done, crashes, late>>

\* A touch of the touch loop, which only logs an error.
Touch(t) ==
    /\ TouchDue(t)
    /\ \/ OpenTruncated(t) /\ Goto(t, "Touch") /\ UNCHANGED <<errors, late>>
       \/ Fault /\ late' = TRUE /\ ReadClock(t) /\ Goto(t, "Run") /\ UNCHANGED fileVars
    /\ UNCHANGED <<attempts, done, crashes>>

TouchWrite(t) ==
    /\ pc[t] = "Touch"
    /\ Goto(t, "Run")
    /\ \/ WriteStamp(t) /\ UNCHANGED <<errors, late>>
       \/ /\ Fault
          /\ late' = TRUE
          /\ attached' = [attached EXCEPT ![t] = FALSE]
          /\ UNCHANGED <<file, age>>
    /\ UNCHANGED <<wait, attempts, done, crashes>>

Release(t) ==
    /\ pc[t] = "Release"
    /\ RemoveFile
    /\ Goto(t, "Ended")
    /\ UNCHANGED <<wait, attempts, done, crashes, late, errors>>

Tick ==
    /\ TaskTick
    /\ age' = Older(age)
    /\ UNCHANGED <<file, attached>>

Step(t) ==
    \/ Create(t) \/ Read(t) \/ Stamp(t) \/ Write(t) \/ Touch(t) \/ TouchWrite(t) \/ Release(t)
    \/ TaskStep(t) /\ UNCHANGED fileVars

Next == Tick \/ \E t \in Tasks : Step(t)

Spec == Init /\ [][Next]_vars

Fairness ==
    /\ WF_vars(Tick)
    /\ \A t \in Tasks :
         /\ WF_vars(Create(t)) /\ WF_vars(Read(t)) /\ WF_vars(Stamp(t)) /\ WF_vars(Write(t))
         /\ WF_vars(Touch(t)) /\ WF_vars(TouchWrite(t)) /\ WF_vars(Release(t))
         /\ WF_vars(Wake(t) /\ UNCHANGED fileVars)
         /\ WF_vars(Load(t) /\ UNCHANGED fileVars)
         /\ WF_vars(KickStart(t) /\ UNCHANGED fileVars)
         /\ SF_vars(SwapEnds(t) /\ UNCHANGED fileVars)

FairSpec == Spec /\ Fairness

-----------------------------------------------------------------------------
\* While a task holds the lock and touches it in time, lock returns None to every
\* other task, as the tests of file_lock.rs and swap_lock.rs say.  The code does
\* not have this property: fs::write truncates the file before it writes.
LockedReturnsNone ==
    [][\A t, u \in Tasks : ~late /\ t # u /\ Holding(u) /\ pc[t] = "Read" => pc'[t] # "Stamp"]_vars
=============================================================================
