------------------------------ MODULE SwapTasks ------------------------------
(***************************************************************************)
(* The tasks that may run one swap: run_maker_swap and run_taker_swap up   *)
(* to, and around, their command loop.  A task takes the lock of the swap, *)
(* loads the swap, touches the lock every 30 s while the swap runs, and    *)
(* drops the lock when it returns.  Several tasks meet when the node is    *)
(* started twice, or again after a crash.  FileLock and TableLock add the  *)
(* two implementations of the lock.                                        *)
(*                                                                         *)
(* Time is relative: wait[t] is the time since task t last read the clock, *)
(* Tick adds one to every such time, and Cap stands for any later time.    *)
(***************************************************************************)
EXTENDS Naturals

CONSTANTS
    Tasks,        \* the tasks, one per process
    Ttl,          \* the ttl_sec a lock is taken with: 40 s
    RetryAfter,   \* the sleep before the second attempt: 40 s
    TouchEvery,   \* the sleep of the touch loop: 30 s
    MaxDelay,     \* how late a punctual holder is at most
    Cap,          \* where relative times stop
    MaxCrashes,   \* bound on crashes
    MaxErrors     \* bound on errors of storage and on panics

ASSUME TimesAssumption ==
    /\ {Ttl, RetryAfter, TouchEvery, MaxDelay, Cap} \subseteq Nat
    /\ Cap > Ttl /\ Cap > RetryAfter /\ Cap > TouchEvery + MaxDelay

ASSUME BoundsAssumption ==
    /\ Tasks # {}
    /\ {MaxCrashes, MaxErrors} \subseteq Nat

VARIABLES
    pc,           \* where each task is
    wait,         \* time since the task computed a stamp or began to sleep
    attempts,     \* the local variable of that name
    done,         \* the database holds the swap as finished
    crashes,      \* crashes so far
    errors,       \* errors so far
    late          \* history: a holder's touch was late, or failed

\* "Begin" is the first turn of the touch loop; in "Touch" a stamp is computed
\* and not yet written; "Read", "Stamp" and "Write" are inside FileLock::lock.
Labels == {"Lock", "Read", "Stamp", "Write", "Sleep", "Load", "Begin", "Run",
           "Touch", "Release", "Ended", "Crashed"}

TaskTypeOK ==
    /\ pc \in [Tasks -> Labels]
    /\ wait \in [Tasks -> 0..Cap]
    /\ attempts \in [Tasks -> 0..1]
    /\ done \in BOOLEAN
    /\ crashes \in 0..MaxCrashes
    /\ errors \in 0..MaxErrors
    /\ late \in BOOLEAN

TaskInit ==
    /\ pc = [t \in Tasks |-> "Lock"]
    /\ wait = [t \in Tasks |-> 0]
    /\ attempts = [t \in Tasks |-> 0]
    /\ done = FALSE
    /\ crashes = 0
    /\ errors = 0
    /\ late = FALSE

\* The task believes that the swap is its own.
Holding(t) == pc[t] \in {"Load", "Begin", "Run", "Touch"}

Goto(t, label) == pc' = [pc EXCEPT ![t] = label]
ReadClock(t) == wait' = [wait EXCEPT ![t] = 0]
Older(age) == IF age < Cap THEN age + 1 ELSE Cap

Fault ==
    /\ errors < MaxErrors
    /\ errors' = errors + 1

\* Mutants: no second attempt, or a third.
MayRetryNever(t) == FALSE
MayRetryTwice(t) == attempts[t] < 2

\* A first Ok(None) is followed by a sleep and one more attempt.
MayRetry(t) == attempts[t] < 1

\* SwapLock::lock returned Ok(None).
LockBusy(t) ==
    /\ \/ /\ MayRetry(t)
          /\ attempts' = [attempts EXCEPT ![t] = @ + 1]
          /\ ReadClock(t)
          /\ Goto(t, "Sleep")
       \/ /\ ~MayRetry(t)
          /\ Goto(t, "Ended")
          /\ UNCHANGED <<attempts, wait>>
    /\ UNCHANGED <<done, crashes, late, errors>>

\* Timer::sleep(40.) returned.  The clock has moved on since the attempt that
\* found the lock busy, so more than RetryAfter has passed.
Wake(t) ==
    /\ pc[t] = "Sleep"
    /\ wait[t] > RetryAfter
    /\ Goto(t, "Lock")
    /\ UNCHANGED <<wait, attempts, done, crashes, late, errors>>

\* load_from_db_by_uuid: a finished swap is not run again, an error ends the task.
\* Both returns drop the lock.  (StartNew has nothing to load: its uuid is new, no other
\* task knows it before its first event is saved, and until then a crash leaves no swap.)
Load(t) ==
    /\ pc[t] = "Load"
    /\ \/ ~done /\ Goto(t, "Begin") /\ UNCHANGED errors
       \/ done /\ Goto(t, "Release") /\ UNCHANGED errors
       \/ Fault /\ Goto(t, "Release")
    /\ UNCHANGED <<wait, attempts, done, crashes, late>>

\* The touch loop computes a stamp at once, and again after each sleep.
TouchDue(t) ==
    \/ pc[t] = "Begin"
    \/ pc[t] = "Run" /\ wait[t] >= TouchEvery

\* The command loop ends; the swap is saved as finished.
SwapEnds(t) ==
    /\ pc[t] = "Run"
    /\ done' = TRUE
    /\ Goto(t, "Release")
    /\ UNCHANGED <<wait, attempts, crashes, late, errors>>

\* One of the expect() calls of the command loop panics; unwinding drops the lock.
SwapPanics(t) ==
    /\ pc[t] = "Run"
    /\ Fault
    /\ Goto(t, "Release")
    /\ UNCHANGED <<wait, attempts, done, crashes, late>>

\* The process dies anywhere; no destructor runs.
Crash(t) ==
    /\ pc[t] \notin {"Ended", "Crashed"}
    /\ crashes < MaxCrashes
    /\ crashes' = crashes + 1
    /\ Goto(t, "Crashed")
    /\ UNCHANGED <<wait, attempts, done, errors, late>>

\* The node starts again: swap_kick_starts starts an unfinished swap once its coins
\* are activated, and gives up on an error of lp_coinfind.
KickStart(t) ==
    /\ pc[t] = "Crashed"
    /\ attempts' = [attempts EXCEPT ![t] = 0]
    /\ \/ ~done /\ Goto(t, "Lock") /\ UNCHANGED errors
       \/ done /\ Goto(t, "Ended") /\ UNCHANGED errors
       \/ Fault /\ Goto(t, "Ended")
    /\ UNCHANGED <<wait, done, crashes, late>>

\* A punctual holder writes each stamp at most MaxDelay after computing it, and
\* computes the next one at most MaxDelay after its sleep.
InTime(t) ==
    /\ pc[t] = "Touch" => wait[t] < MaxDelay
    /\ Holding(t) => wait[t] < TouchEvery + MaxDelay

TaskTick ==
    /\ late' = (late \/ \E t \in Tasks : ~InTime(t))
    /\ wait' = [t \in Tasks |-> Older(wait[t])]
    /\ UNCHANGED <<pc, attempts, done, crashes, errors>>

TaskStep(t) == Wake(t) \/ Load(t) \/ SwapEnds(t) \/ SwapPanics(t) \/ Crash(t) \/ KickStart(t)

-----------------------------------------------------------------------------
\* No two tasks run the swap at the same time, as long as every holder so far has
\* touched its lock in time.
Exclusive == ~late => \A t, u \in Tasks : Holding(t) /\ Holding(u) => t = u

\* A task gives up only because another one is going to run the swap: when all
\* tasks have returned and none met an error, the swap is finished.
NotForgotten ==
    (\A t \in Tasks : pc[t] = "Ended") /\ errors = 0 => done

\* The swap of a node that crashed and was started again is finished in the end,
\* unless a task meets an error, whatever lock the crashed process left behind.
Finishes == <>(done \/ errors > 0)
=============================================================================
