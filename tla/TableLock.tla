------------------------------ MODULE TableLock ------------------------------
(***************************************************************************)
(* SwapLock in the browser: a record of SwapLockTable in IndexedDB, with   *)
(* the swap's uuid as a unique index.  Each operation is one transaction.  *)
(***************************************************************************)
EXTENDS SwapTasks

CONSTANT NoTask       \* the owner of an absent record

ASSUME NoTaskAssumption == NoTask \notin Tasks

VARIABLES
    owner,            \* the task whose record_id the record has, or NoTask
    age               \* the time since the record's timestamp

vars == <<pc, wait, attempts, done, crashes, errors, late, owner, age>>

TypeOK ==
    /\ TaskTypeOK
    /\ owner \in Tasks \cup {NoTask}
    /\ age \in 0..Cap

Init ==
    /\ TaskInit
    /\ owner = NoTask
    /\ age = 0

\* Mutant: a time to live no longer than the sleep of the touch loop.
LockFreshTooShort == owner # NoTask /\ age < TouchEvery

\* time_passed <= ttl_sec
LockFresh == owner # NoTask /\ age <= Ttl

\* SwapLock::lock: one transaction looks up the record, deletes an old one and
\* adds the task's own.
Lock(t) ==
    /\ pc[t] = "Lock"
    /\ \/ /\ LockFresh
          /\ LockBusy(t)
          /\ UNCHANGED <<owner, age>>
       \/ /\ ~LockFresh
          /\ owner' = t
          /\ age' = 0
          /\ ReadClock(t)
          /\ Goto(t, "Load")
          /\ UNCHANGED <<attempts, done, crashes, late, errors>>
       \/ /\ Fault
          /\ Goto(t, "Ended")
          /\ UNCHANGED <<wait, attempts, done, crashes, late, owner, age>>

\* touch computes the timestamp before it waits for its transaction.
Touch(t) ==
    /\ TouchDue(t)
    /\ ReadClock(t)
    /\ Goto(t, "Touch")
    /\ UNCHANGED <<attempts, done, crashes, late, errors, owner, age>>

\* replace_item puts the record under the task's record_id: it adds the record
\* again if it is gone, and fails on the unique index if it is another's.  The
\* touch loop only logs an error.
TouchWrite(t) ==
    /\ pc[t] = "Touch"
    /\ Goto(t, "Run")
    /\ \/ /\ owner \in {t, NoTask}
          /\ owner' = t
          /\ age' = wait[t]
          /\ UNCHANGED <<errors, late>>
       \/ /\ owner \notin {t, NoTask}
          /\ UNCHANGED <<owner, age, errors, late>>
       \/ Fault /\ late' = TRUE /\ UNCHANGED <<owner, age>>
    /\ UNCHANGED <<wait, attempts, done, crashes>>

\* The future that Drop spawns deletes the record with the task's record_id.
Release(t) ==
    /\ pc[t] = "Release"
    /\ Goto(t, "Ended")
    /\ \/ owner' = (IF owner = t THEN NoTask ELSE owner) /\ UNCHANGED errors
       \/ Fault /\ UNCHANGED owner
    /\ UNCHANGED <<wait, attempts, done, crashes, late, age>>

Tick ==
    /\ TaskTick
    /\ age' = Older(age)
    /\ UNCHANGED owner

Step(t) ==
    \/ Lock(t) \/ Touch(t) \/ TouchWrite(t) \/ Release(t)
    \/ TaskStep(t) /\ UNCHANGED <<owner, age>>

Next == Tick \/ \E t \in Tasks : Step(t)

Spec == Init /\ [][Next]_vars

Fairness ==
    /\ WF_vars(Tick)
    /\ \A t \in Tasks :
         /\ WF_vars(Lock(t)) /\ WF_vars(Touch(t)) /\ WF_vars(TouchWrite(t)) /\ WF_vars(Release(t))
         /\ WF_vars(Wake(t) /\ UNCHANGED <<owner, age>>)
         /\ WF_vars(Load(t) /\ UNCHANGED <<owner, age>>)
         /\ WF_vars(KickStart(t) /\ UNCHANGED <<owner, age>>)
         /\ SF_vars(SwapEnds(t) /\ UNCHANGED <<owner, age>>)

FairSpec == Spec /\ Fairness
=============================================================================
