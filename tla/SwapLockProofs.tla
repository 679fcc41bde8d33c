--------------------------- MODULE SwapLockProofs ----------------------------
(***************************************************************************)
(* The lock in IndexedDB is exclusive while its holders touch it in time,  *)
(* and over neither lock, record or file, a swap is forgotten: for any     *)
(* number of tasks, any times, and any number of crashes and errors.       *)
(***************************************************************************)
EXTENDS TableLock, TLAPS

\* A punctual holder, which computes each stamp at most MaxDelay late, and writes it at most
\* MaxDelay after that, stays ahead of the time to live: 30 + 2 * 5 <= 40 in the code.
TouchesOutrunTtl == TouchEvery + 2 * MaxDelay <= Ttl

\* The second attempt comes after the time to live of a lock seen at the first.
RetryOutlastsTtl == Ttl <= RetryAfter

\* A holder owns the record, and the record is as old as the holder's last stamp.
HeldBy(t) ==
    /\ Holding(t) => owner = t
    /\ pc[t] \in {"Load", "Begin", "Run"} => age = wait[t] /\ wait[t] <= TouchEvery + MaxDelay
    /\ pc[t] = "Touch" => wait[t] <= MaxDelay /\ age <= TouchEvery + MaxDelay + wait[t]

HeldInv == TypeOK /\ (~late => \A t \in Tasks : HeldBy(t))

\* While the swap is unfinished and nothing failed, the record's owner has not
\* returned, and a task that meets its own record again finds it expired.
PendingAt(t) ==
    /\ pc[t] # "Release"
    /\ owner = t => pc[t] # "Ended"
    /\ owner = t /\ pc[t] = "Sleep" => wait[t] <= age
    /\ owner = t /\ pc[t] = "Lock" /\ attempts[t] = 1 => age > Ttl

PendingInv ==
    /\ TypeOK
    /\ errors = 0 /\ ~done => /\ \A t \in Tasks : PendingAt(t)
                              /\ \E t \in Tasks : pc[t] # "Ended"

-----------------------------------------------------------------------------
\* The times and bounds, as the provers use them.
LEMMA Times ==
    /\ Ttl \in Nat /\ RetryAfter \in Nat /\ TouchEvery \in Nat /\ MaxDelay \in Nat /\ Cap \in Nat
    /\ Cap > Ttl /\ Cap > RetryAfter /\ Cap > TouchEvery + MaxDelay
    /\ MaxCrashes \in Nat /\ MaxErrors \in Nat
  BY TimesAssumption, BoundsAssumption

\* A time that passes stays within the cap, grows by at most one, and never shrinks.
LEMMA OlderFacts ==
  ASSUME NEW a \in 0..Cap
  PROVE  Older(a) \in 0..Cap /\ Older(a) <= a + 1 /\ a <= Older(a) /\ (a < Cap => Older(a) = a + 1)
  BY Times DEF Older

\* Every step of a task, and the clock, keep the types of the tasks' state.
LEMMA TypeStep == TypeOK /\ [Next]_vars => TypeOK'
  <1> SUFFICES ASSUME TypeOK, [Next]_vars PROVE TypeOK'
    OBVIOUS
  <1> USE Times
  <1>1. CASE UNCHANGED vars
    BY <1>1 DEF vars, TypeOK, TaskTypeOK
  <1>2. CASE Tick
    <2>1. wait' \in [Tasks -> 0..Cap] /\ age' \in 0..Cap
      BY <1>2, OlderFacts DEF Tick, TaskTick, TypeOK, TaskTypeOK
    <2>2. late' \in BOOLEAN
      BY <1>2, Zenon DEF Tick, TaskTick
    <2>3. UNCHANGED <<pc, attempts, done, crashes, errors, owner>>
      BY <1>2 DEF Tick, TaskTick
    <2> QED
      BY <2>1, <2>2, <2>3 DEF TypeOK, TaskTypeOK
  <1>3. ASSUME NEW t \in Tasks, Step(t) PROVE TypeOK'
    <2>1. CASE Lock(t)
      BY <2>1 DEF Lock, LockBusy, MayRetry, ReadClock, Goto, Fault, TypeOK, TaskTypeOK, Labels
    <2>2. CASE Touch(t)
      BY <2>2 DEF Touch, ReadClock, Goto, TypeOK, TaskTypeOK, Labels
    <2>3. CASE TouchWrite(t)
      <3>1. late' \in BOOLEAN
        BY <2>3, Zenon DEF TouchWrite, TypeOK, TaskTypeOK
      <3>2. errors' \in 0..MaxErrors
        BY <2>3 DEF TouchWrite, Fault, TypeOK, TaskTypeOK
      <3>3. owner' \in Tasks \cup {NoTask} /\ age' \in 0..Cap
        BY <2>3 DEF TouchWrite, TypeOK, TaskTypeOK
      <3>4. pc' \in [Tasks -> Labels] /\ UNCHANGED <<wait, attempts, done, crashes>>
        BY <2>3 DEF TouchWrite, Goto, TypeOK, TaskTypeOK, Labels
      <3> QED
        BY <3>1, <3>2, <3>3, <3>4 DEF TypeOK, TaskTypeOK
    <2>4. CASE Release(t)
      BY <2>4 DEF Release, Goto, Fault, TypeOK, TaskTypeOK, Labels
    <2>5. CASE Wake(t) /\ UNCHANGED <<owner, age>>
      BY <2>5 DEF Wake, Goto, TypeOK, TaskTypeOK, Labels
    <2>6. CASE Load(t) /\ UNCHANGED <<owner, age>>
      BY <2>6 DEF Load, Goto, Fault, TypeOK, TaskTypeOK, Labels
    <2>7. CASE SwapEnds(t) /\ UNCHANGED <<owner, age>>
      BY <2>7 DEF SwapEnds, Goto, TypeOK, TaskTypeOK, Labels
    <2>8. CASE SwapPanics(t) /\ UNCHANGED <<owner, age>>
      BY <2>8 DEF SwapPanics, Goto, Fault, TypeOK, TaskTypeOK, Labels
    <2>9. CASE Crash(t) /\ UNCHANGED <<owner, age>>
      BY <2>9 DEF Crash, Goto, TypeOK, TaskTypeOK, Labels
    <2>10. CASE KickStart(t) /\ UNCHANGED <<owner, age>>
      BY <2>10 DEF KickStart, Goto, Fault, TypeOK, TaskTypeOK, Labels
    <2> QED
      BY <1>3, <2>1, <2>2, <2>3, <2>4, <2>5, <2>6, <2>7, <2>8, <2>9, <2>10 DEF Step, TaskStep
  <1> QED
    BY <1>1, <1>2, <1>3 DEF Next

\* The initial state has the types.
LEMMA TypeInit == Init => TypeOK
  <1> SUFFICES ASSUME Init PROVE TypeOK
    OBVIOUS
  <1>1. 0 \in 0..Cap /\ 0 \in 0..1 /\ 0 \in 0..MaxCrashes /\ 0 \in 0..MaxErrors
    BY Times
  <1>2. pc \in [Tasks -> Labels]
    BY DEF Init, TaskInit, Labels
  <1>3. done \in BOOLEAN
    BY DEF Init, TaskInit
  <1> QED
    BY <1>1, <1>2, <1>3 DEF Init, TaskInit, TypeOK, TaskTypeOK

-----------------------------------------------------------------------------
\* A holder's record is fresh, so no other task can take the lock.
LEMMA HeldIsFresh ==
  ASSUME TouchesOutrunTtl, HeldInv, ~late, NEW t \in Tasks, Holding(t)
  PROVE  owner = t /\ LockFresh
  <1>1. HeldBy(t) /\ age \in 0..Cap /\ wait[t] \in 0..Cap
    BY DEF HeldInv, TypeOK, TaskTypeOK
  <1>2. owner = t
    BY <1>1 DEF HeldBy
  <1>3. age <= Ttl
    BY <1>1, Times DEF HeldBy, Holding, TouchesOutrunTtl
  <1> QED
    BY <1>2, <1>3, NoTaskAssumption DEF LockFresh

\* The inductive step of Exclusive, one case per action.
LEMMA HeldStep ==
  ASSUME TouchesOutrunTtl
  PROVE  HeldInv /\ [Next]_vars => HeldInv'
  <1> SUFFICES ASSUME HeldInv, [Next]_vars, ~late' PROVE \A u \in Tasks : HeldBy(u)'
    BY TypeStep DEF HeldInv
  <1> USE Times
  <1>l. ~late
    BY DEF Next, vars, Tick, TaskTick, Step, TaskStep, Lock, LockBusy, Touch, TouchWrite, Release,
           Wake, Load, SwapEnds, SwapPanics, Crash, KickStart
  <1>t. TypeOK /\ \A u \in Tasks : HeldBy(u)
    BY <1>l DEF HeldInv
  <1>1. CASE UNCHANGED vars
    BY <1>1, <1>t DEF vars, HeldBy, Holding
  <1>2. CASE Tick
    <2> SUFFICES ASSUME NEW u \in Tasks PROVE HeldBy(u)'
      OBVIOUS
    <2>1. InTime(u) /\ wait'[u] = Older(wait[u]) /\ age' = Older(age) /\ pc' = pc /\ owner' = owner
      BY <1>2 DEF Tick, TaskTick
    <2>2. wait[u] \in 0..Cap /\ age \in 0..Cap /\ HeldBy(u)
      BY <1>t DEF TypeOK, TaskTypeOK
    <2>3. /\ Older(wait[u]) <= wait[u] + 1 /\ Older(age) <= age + 1
          /\ Older(wait[u]) \in Nat /\ Older(age) \in Nat
          /\ wait[u] < Cap => Older(wait[u]) = wait[u] + 1
      BY <2>2, OlderFacts
    <2>4. (Holding(u) => owner = u)'
      BY <2>1, <2>2 DEF HeldBy, Holding
    <2>5. ASSUME pc[u] \in {"Load", "Begin", "Run"}
          PROVE  age' = wait'[u] /\ wait'[u] <= TouchEvery + MaxDelay
      BY <2>1, <2>2, <2>3, <2>5 DEF HeldBy, InTime, Holding
    <2>6. ASSUME pc[u] = "Touch"
          PROVE  wait'[u] <= MaxDelay /\ age' <= TouchEvery + MaxDelay + wait'[u]
      BY <2>1, <2>2, <2>3, <2>6 DEF HeldBy, InTime, Holding
    <2> QED
      BY <2>1, <2>4, <2>5, <2>6 DEF HeldBy
  <1>3. ASSUME NEW t \in Tasks, Step(t) PROVE \A u \in Tasks : HeldBy(u)'
    <2> SUFFICES ASSUME NEW u \in Tasks PROVE HeldBy(u)'
      OBVIOUS
    <2>t. /\ wait \in [Tasks -> 0..Cap] /\ pc \in [Tasks -> Labels] /\ age \in 0..Cap
          /\ HeldBy(u) /\ HeldBy(t)
      BY <1>t DEF TypeOK, TaskTypeOK
    <2>h. u # t /\ Holding(u) => owner = u /\ LockFresh
      BY HeldIsFresh, <1>l
    <2>1. CASE Lock(t)
      BY <2>1, <2>t, <2>h DEF Lock, LockBusy, ReadClock, Goto, HeldBy, Holding
    <2>2. CASE Touch(t)
      BY <2>2, <2>t DEF Touch, TouchDue, ReadClock, Goto, HeldBy, Holding
    <2>3. CASE TouchWrite(t)
      BY <2>3, <2>t DEF TouchWrite, Goto, HeldBy, Holding, TouchesOutrunTtl
    <2>4. CASE Release(t)
      BY <2>4, <2>t DEF Release, Goto, HeldBy, Holding
    <2>5. CASE TaskStep(t) /\ UNCHANGED <<owner, age>>
      BY <2>5, <2>t DEF TaskStep, Wake, Load, SwapEnds, SwapPanics, Crash, KickStart, Goto, HeldBy, Holding
    <2> QED
      BY <1>3, <2>1, <2>2, <2>3, <2>4, <2>5 DEF Step
  <1> QED
    BY <1>1, <1>2, <1>3 DEF Next

\* Two tasks never run the same swap in the browser, as long as the touch loop keeps
\* ahead of the time to live (swap_lock.rs, and the touch loops of the swaps).
THEOREM TableLockExclusive == TouchesOutrunTtl => (Spec => []Exclusive)
  <1> SUFFICES ASSUME TouchesOutrunTtl PROVE Spec => []Exclusive
    OBVIOUS
  <1>1. Init => HeldInv
    BY TypeInit DEF Init, TaskInit, HeldInv, HeldBy, Holding
  <1>2. HeldInv /\ [Next]_vars => HeldInv'
    BY HeldStep
  <1>3. HeldInv => Exclusive
    BY DEF HeldInv, HeldBy, Exclusive
  <1> QED
    BY <1>1, <1>2, <1>3, PTL DEF Spec

-----------------------------------------------------------------------------
\* A step never resets an error or takes back that the swap is finished.
LEMMA PendingBackwards ==
  ASSUME TypeOK, [Next]_vars, errors' = 0, ~done'
  PROVE  errors = 0 /\ ~done /\ errors' = errors /\ done' = done
  <1>1. errors \in Nat
    BY Times DEF TypeOK, TaskTypeOK
  <1>2. errors' = errors \/ errors' = errors + 1
    BY DEF Next, vars, Tick, TaskTick, Step, TaskStep, Lock, LockBusy, Touch, TouchWrite, Release,
           Wake, Load, SwapEnds, SwapPanics, Crash, KickStart, Fault
  <1>3. done' = done \/ done' = TRUE
    BY DEF Next, vars, Tick, TaskTick, Step, TaskStep, Lock, LockBusy, Touch, TouchWrite, Release,
           Wake, Load, SwapEnds, SwapPanics, Crash, KickStart
  <1>4. errors = 0 /\ errors' = errors
    BY <1>1, <1>2
  <1> QED
    BY <1>3, <1>4

\* The inductive step of NotForgotten, one case per action.
LEMMA PendingStep ==
  ASSUME RetryOutlastsTtl
  PROVE  PendingInv /\ [Next]_vars => PendingInv'
  <1> SUFFICES ASSUME PendingInv, [Next]_vars, errors' = 0, ~done'
               PROVE  (\A u \in Tasks : PendingAt(u)') /\ \E u \in Tasks : pc'[u] # "Ended"
    BY TypeStep DEF PendingInv
  <1> USE Times
  <1>t. TypeOK /\ errors = 0 /\ ~done /\ errors' = errors
    BY PendingBackwards DEF PendingInv
  <1>p. (\A u \in Tasks : PendingAt(u)) /\ \E u \in Tasks : pc[u] # "Ended"
    BY <1>t DEF PendingInv
  <1>n. ~Fault
    BY <1>t DEF Fault
  <1>1. CASE UNCHANGED vars
    BY <1>1, <1>p DEF vars, PendingAt
  <1>2. CASE Tick
    <2>1. ASSUME NEW u \in Tasks PROVE PendingAt(u)'
      <3>1. wait'[u] = Older(wait[u]) /\ age' = Older(age) /\ pc' = pc /\ owner' = owner /\ attempts' = attempts
        BY <1>2 DEF Tick, TaskTick
      <3>2. wait[u] \in 0..Cap /\ age \in 0..Cap
        BY <1>t DEF TypeOK, TaskTypeOK
      <3>3. wait[u] <= age => Older(wait[u]) <= Older(age)
        BY <3>2 DEF Older
      <3>4. age > Ttl => Older(age) > Ttl
        BY <3>2 DEF Older
      <3> QED
        BY <1>p, <3>1, <3>3, <3>4 DEF PendingAt
    <2>2. pc' = pc
      BY <1>2 DEF Tick, TaskTick
    <2> QED
      BY <1>p, <2>1, <2>2
  <1>3. ASSUME NEW t \in Tasks, Step(t)
        PROVE  (\A u \in Tasks : PendingAt(u)') /\ \E u \in Tasks : pc'[u] # "Ended"
    <2>t. /\ wait \in [Tasks -> 0..Cap] /\ pc \in [Tasks -> Labels] /\ age \in 0..Cap
          /\ attempts \in [Tasks -> 0..1] /\ owner \in Tasks \cup {NoTask}
      BY <1>t DEF TypeOK, TaskTypeOK
    <2>1. CASE Lock(t)
      <3>1. CASE LockFresh /\ LockBusy(t) /\ UNCHANGED <<owner, age>> /\ MayRetry(t)
        <4>1. /\ attempts' = [attempts EXCEPT ![t] = @ + 1]
              /\ wait' = [wait EXCEPT ![t] = 0] /\ pc' = [pc EXCEPT ![t] = "Sleep"]
          BY <3>1 DEF LockBusy, ReadClock, Goto
        <4> QED
          BY <3>1, <4>1, <2>t, <1>p DEF PendingAt
      <3>2. CASE LockFresh /\ LockBusy(t) /\ UNCHANGED <<owner, age>> /\ ~MayRetry(t)
        <4>1. attempts[t] = 1 /\ pc[t] = "Lock" /\ owner \in Tasks /\ age <= Ttl
          BY <3>2, <2>1, <2>t DEF MayRetry, LockFresh, Lock
        <4>2. owner # t
          BY <4>1, <2>t, <1>p DEF PendingAt
        <4>3. pc[owner] # "Ended"
          BY <4>1, <1>p DEF PendingAt
        <4>4. pc' = [pc EXCEPT ![t] = "Ended"] /\ wait' = wait /\ attempts' = attempts
          BY <3>2 DEF LockBusy, Goto
        <4>5. pc'[owner] # "Ended"
          BY <4>2, <4>3, <4>4, <2>t
        <4> QED
          BY <3>2, <4>1, <4>2, <4>4, <4>5, <2>t, <1>p DEF PendingAt
      <3>3. CASE ~LockFresh /\ owner' = t /\ Goto(t, "Load")
        BY <3>3, <2>1, <2>t, <1>p, NoTaskAssumption DEF Goto, PendingAt
      <3> QED
        BY <2>1, <1>n, <3>1, <3>2, <3>3 DEF Lock
    <2>2. CASE Touch(t)
      BY <2>2, <2>t, <1>p DEF Touch, ReadClock, Goto, PendingAt
    <2>3. CASE TouchWrite(t)
      BY <2>3, <2>t, <1>p, <1>n DEF TouchWrite, Goto, PendingAt
    <2>4. CASE Release(t)
      BY <2>4, <1>p DEF Release, PendingAt
    <2>5. CASE Wake(t) /\ UNCHANGED <<owner, age>>
      BY <2>5, <2>t, <1>p DEF Wake, Goto, PendingAt, RetryOutlastsTtl
    <2>6. CASE Load(t) /\ UNCHANGED <<owner, age>>
      BY <2>6, <2>t, <1>p, <1>t, <1>n DEF Load, Goto, PendingAt
    <2>7. CASE SwapEnds(t)
      BY <2>7 DEF SwapEnds
    <2>8. CASE SwapPanics(t)
      BY <2>8, <1>n DEF SwapPanics
    <2>9. CASE Crash(t) /\ UNCHANGED <<owner, age>>
      BY <2>9, <2>t, <1>p DEF Crash, Goto, PendingAt
    <2>10. CASE KickStart(t) /\ UNCHANGED <<owner, age>>
      BY <2>10, <2>t, <1>p, <1>t, <1>n DEF KickStart, Goto, PendingAt
    <2> QED
      BY <1>3, <2>1, <2>2, <2>3, <2>4, <2>5, <2>6, <2>7, <2>8, <2>9, <2>10 DEF Step, TaskStep
  <1> QED
    BY <1>1, <1>2, <1>3 DEF Next

\* A task aborts only when another one is still to run the swap, because the sleep
\* before the second attempt is as long as the time to live (the lock loops of
\* run_maker_swap and run_taker_swap), even when touches are late.
THEOREM TableLockNotForgotten == RetryOutlastsTtl => (Spec => []NotForgotten)
  <1> SUFFICES ASSUME RetryOutlastsTtl PROVE Spec => []NotForgotten
    OBVIOUS
  <1>1. Init => PendingInv
    <2> SUFFICES ASSUME Init PROVE PendingInv
      OBVIOUS
    <2>1. \A t \in Tasks : PendingAt(t)
      BY NoTaskAssumption DEF Init, TaskInit, PendingAt
    <2>2. \E t \in Tasks : pc[t] # "Ended"
      BY BoundsAssumption DEF Init, TaskInit
    <2> QED
      BY <2>1, <2>2, TypeInit DEF PendingInv
  <1>2. PendingInv /\ [Next]_vars => PendingInv'
    BY PendingStep
  <1>3. PendingInv => NotForgotten
    BY DEF PendingInv, NotForgotten
  <1> QED
    BY <1>1, <1>2, <1>3, PTL DEF Spec

-----------------------------------------------------------------------------
(* The lock file of a native node: the same tasks over FileLock, whose     *)
(* variables are those of SwapTasks, age and two more.                     *)

VARIABLES file, attached

File == INSTANCE FileLock

\* The task will still run the swap: it has not returned, and finds the stamp
\* in the file expired at its second attempt.
KeepsFile(t) ==
    /\ pc[t] # "Ended"
    /\ file = "stamped" /\ pc[t] = "Sleep" => wait[t] <= age
    /\ file = "stamped" /\ pc[t] \in {"Lock", "Read"} /\ attempts[t] = 1 => age > Ttl

\* While the swap is unfinished and nothing failed, nobody removes the file, and
\* some task will still run the swap: whoever wrote the last stamp, or opened the file.
FilePendingInv ==
    /\ File!TypeOK
    /\ errors = 0 /\ ~done => /\ \A t \in Tasks : pc[t] # "Release" /\ (pc[t] = "Read" => file # "none")
                              /\ \E t \in Tasks : KeepsFile(t)

\* Every step over the lock file keeps the types.
LEMMA FileTypeStep == File!TypeOK /\ [File!Next]_(File!vars) => File!TypeOK'
  <1> SUFFICES ASSUME File!TypeOK, [File!Next]_(File!vars) PROVE File!TypeOK'
    OBVIOUS
  <1> USE Times
  <1>1. CASE UNCHANGED File!vars
    BY <1>1 DEF File!vars, File!TypeOK, File!TaskTypeOK
  <1>2. CASE File!Tick
    <2>1. wait' \in [Tasks -> 0..Cap] /\ age' \in 0..Cap
      BY <1>2 DEF File!Tick, File!TaskTick, File!TypeOK, File!TaskTypeOK, File!Older
    <2>2. late' \in BOOLEAN
      BY Zenon, <1>2 DEF File!Tick, File!TaskTick
    <2> QED
      BY <1>2, <2>1, <2>2 DEF File!Tick, File!TaskTick, File!TypeOK, File!TaskTypeOK
  <1>3. ASSUME NEW t \in Tasks, File!Step(t) PROVE File!TypeOK'
    <2>t. /\ pc \in [Tasks -> File!Labels] /\ wait \in [Tasks -> 0..Cap] /\ attempts \in [Tasks -> 0..1]
          /\ done \in BOOLEAN /\ crashes \in 0..MaxCrashes /\ errors \in 0..MaxErrors /\ late \in BOOLEAN
          /\ file \in {"none", "empty", "stamped"} /\ age \in 0..Cap /\ attached \in [Tasks -> BOOLEAN]
      BY DEF File!TypeOK, File!TaskTypeOK
    <2>1. CASE File!Create(t)
      BY <2>1, <2>t DEF File!Create, File!Goto, File!Fault, File!Labels, File!TypeOK, File!TaskTypeOK
    <2>2. CASE File!Read(t)
      BY <2>2, <2>t DEF File!Read, File!LockBusy, File!MayRetry, File!ReadClock, File!Goto, File!Fault,
                        File!fileVars, File!Labels, File!TypeOK, File!TaskTypeOK
    <2>3. CASE File!Stamp(t)
      <3>1. attached' \in [Tasks -> BOOLEAN]
        BY Zenon, <2>3, <2>t DEF File!Stamp, File!OpenTruncated, File!RemoveFile
      <3>2. late' \in BOOLEAN /\ done' \in BOOLEAN
        BY Zenon, <2>3, <2>t DEF File!Stamp
      <3>3. /\ pc' \in [Tasks -> File!Labels] /\ wait' \in [Tasks -> 0..Cap] /\ attempts' \in [Tasks -> 0..1]
           /\ crashes' \in 0..MaxCrashes /\ errors' \in 0..MaxErrors
           /\ file' \in {"none", "empty", "stamped"} /\ age' \in 0..Cap
        BY <2>3, <2>t DEF File!Stamp, File!OpenTruncated, File!RemoveFile, File!ReadClock, File!Goto, File!Fault, File!Labels
      <3> QED
        BY <3>1, <3>2, <3>3 DEF File!TypeOK, File!TaskTypeOK
    <2>4. CASE File!Write(t)
      <3>1. attached' \in [Tasks -> BOOLEAN]
        BY Zenon, <2>4, <2>t DEF File!Write, File!WriteStamp, File!RemoveFile
      <3>2. late' \in BOOLEAN /\ done' \in BOOLEAN
        BY Zenon, <2>4, <2>t DEF File!Write
      <3>3. /\ pc' \in [Tasks -> File!Labels] /\ wait' \in [Tasks -> 0..Cap] /\ attempts' \in [Tasks -> 0..1]
           /\ crashes' \in 0..MaxCrashes /\ errors' \in 0..MaxErrors
           /\ file' \in {"none", "empty", "stamped"} /\ age' \in 0..Cap
        BY <2>4, <2>t DEF File!Write, File!WriteStamp, File!RemoveFile, File!Goto, File!Fault, File!Labels
      <3> QED
        BY <3>1, <3>2, <3>3 DEF File!TypeOK, File!TaskTypeOK
    <2>5. CASE File!Touch(t)
      <3>1. attached' \in [Tasks -> BOOLEAN]
        BY Zenon, <2>5, <2>t DEF File!Touch, File!OpenTruncated, File!fileVars
      <3>2. late' \in BOOLEAN /\ done' \in BOOLEAN
        BY Zenon, <2>5, <2>t DEF File!Touch
      <3>3. /\ pc' \in [Tasks -> File!Labels] /\ wait' \in [Tasks -> 0..Cap] /\ attempts' \in [Tasks -> 0..1]
           /\ crashes' \in 0..MaxCrashes /\ errors' \in 0..MaxErrors
           /\ file' \in {"none", "empty", "stamped"} /\ age' \in 0..Cap
        BY <2>5, <2>t DEF File!Touch, File!OpenTruncated, File!ReadClock, File!Goto, File!Fault, File!fileVars, File!Labels
      <3> QED
        BY <3>1, <3>2, <3>3 DEF File!TypeOK, File!TaskTypeOK
    <2>6. CASE File!TouchWrite(t)
      <3>1. attached' \in [Tasks -> BOOLEAN]
        BY Zenon, <2>6, <2>t DEF File!TouchWrite, File!WriteStamp
      <3>2. late' \in BOOLEAN /\ done' \in BOOLEAN
        BY Zenon, <2>6, <2>t DEF File!TouchWrite
      <3>3. /\ pc' \in [Tasks -> File!Labels] /\ wait' \in [Tasks -> 0..Cap] /\ attempts' \in [Tasks -> 0..1]
           /\ crashes' \in 0..MaxCrashes /\ errors' \in 0..MaxErrors
           /\ file' \in {"none", "empty", "stamped"} /\ age' \in 0..Cap
        BY <2>6, <2>t DEF File!TouchWrite, File!WriteStamp, File!Goto, File!Fault, File!Labels
      <3> QED
        BY <3>1, <3>2, <3>3 DEF File!TypeOK, File!TaskTypeOK
    <2>7. CASE File!Release(t)
      BY <2>7, <2>t DEF File!Release, File!RemoveFile, File!Goto, File!Labels, File!TypeOK, File!TaskTypeOK
    <2>8. CASE File!TaskStep(t) /\ UNCHANGED File!fileVars
      <3>1. attached' \in [Tasks -> BOOLEAN] /\ late' \in BOOLEAN
        BY Zenon, <2>8, <2>t DEF File!TaskStep, File!Wake, File!Load, File!SwapEnds, File!SwapPanics, File!Crash, File!KickStart, File!fileVars
      <3>2. done' \in BOOLEAN
        BY Zenon, <2>8, <2>t DEF File!TaskStep, File!Wake, File!Load, File!SwapEnds, File!SwapPanics, File!Crash, File!KickStart
      <3>3. /\ pc' \in [Tasks -> File!Labels] /\ wait' \in [Tasks -> 0..Cap] /\ attempts' \in [Tasks -> 0..1]
           /\ crashes' \in 0..MaxCrashes /\ errors' \in 0..MaxErrors
           /\ file' \in {"none", "empty", "stamped"} /\ age' \in 0..Cap
        BY <2>8, <2>t DEF File!TaskStep, File!Wake, File!Load, File!SwapEnds, File!SwapPanics, File!Crash, File!KickStart, File!Goto, File!Fault, File!fileVars, File!Labels
      <3> QED
        BY <3>1, <3>2, <3>3 DEF File!TypeOK, File!TaskTypeOK
    <2> QED
      BY <1>3, <2>1, <2>2, <2>3, <2>4, <2>5, <2>6, <2>7, <2>8 DEF File!Step
  <1> QED
    BY <1>1, <1>2, <1>3 DEF File!Next

\* A step over the lock file never resets an error or takes back that the swap is finished.
LEMMA FilePendingBackwards ==
  ASSUME File!TypeOK, [File!Next]_(File!vars), errors' = 0, ~done'
  PROVE  errors = 0 /\ ~done /\ ~File!Fault
  <1>1. errors \in Nat
    BY Times DEF File!TypeOK, File!TaskTypeOK
  <1>2. errors' = errors \/ errors' = errors + 1
    BY DEF File!Next, File!vars, File!Tick, File!TaskTick, File!Step, File!TaskStep, File!Create, File!Read,
           File!Stamp, File!Write, File!Touch, File!TouchWrite, File!Release, File!LockBusy, File!Wake,
           File!Load, File!SwapEnds, File!SwapPanics, File!Crash, File!KickStart, File!Fault
  <1>3. done' = done \/ done' = TRUE
    BY DEF File!Next, File!vars, File!Tick, File!TaskTick, File!Step, File!TaskStep, File!Create, File!Read,
           File!Stamp, File!Write, File!Touch, File!TouchWrite, File!Release, File!LockBusy, File!Wake,
           File!Load, File!SwapEnds, File!SwapPanics, File!Crash, File!KickStart
  <1>4. errors = 0 /\ errors' = errors
    BY <1>1, <1>2
  <1>5. ~File!Fault
    BY <1>4 DEF File!Fault
  <1> QED
    BY <1>3, <1>4, <1>5

\* The inductive step, one case per action.
LEMMA FilePendingStep ==
  ASSUME RetryOutlastsTtl
  PROVE  FilePendingInv /\ [File!Next]_(File!vars) => FilePendingInv'
  <1> SUFFICES ASSUME FilePendingInv, [File!Next]_(File!vars), errors' = 0, ~done'
               PROVE  /\ \A u \in Tasks : pc'[u] # "Release" /\ (pc'[u] = "Read" => file' # "none")
                      /\ \E u \in Tasks : KeepsFile(u)'
    BY FileTypeStep DEF FilePendingInv
  <1> USE Times
  <1>t. File!TypeOK /\ errors = 0 /\ ~done /\ ~File!Fault
    BY FilePendingBackwards DEF FilePendingInv
  <1>p. \A u \in Tasks : pc[u] # "Release" /\ (pc[u] = "Read" => file # "none")
    BY <1>t DEF FilePendingInv
  <1>k. PICK k \in Tasks : KeepsFile(k)
    BY <1>t DEF FilePendingInv
  <1>y. /\ wait \in [Tasks -> 0..Cap] /\ pc \in [Tasks -> File!Labels] /\ age \in 0..Cap
        /\ attempts \in [Tasks -> 0..1] /\ file \in {"none", "empty", "stamped"}
    BY <1>t DEF File!TypeOK, File!TaskTypeOK
  <1>1. CASE UNCHANGED File!vars
    BY <1>1, <1>p, <1>k DEF File!vars, KeepsFile
  <1>2. CASE File!Tick
    <2>1. /\ wait'[k] = File!Older(wait[k]) /\ age' = File!Older(age)
          /\ pc' = pc /\ attempts' = attempts /\ file' = file
      BY <1>2 DEF File!Tick, File!TaskTick
    <2>2. wait[k] <= age => File!Older(wait[k]) <= File!Older(age)
      BY <1>y DEF File!Older
    <2>3. age > Ttl => File!Older(age) > Ttl
      BY <1>y DEF File!Older
    <2>4. KeepsFile(k)'
      BY <1>k, <2>1, <2>2, <2>3 DEF KeepsFile
    <2> QED
      BY <1>p, <2>1, <2>4
  <1>3. ASSUME NEW t \in Tasks, File!Step(t)
        PROVE  /\ \A u \in Tasks : pc'[u] # "Release" /\ (pc'[u] = "Read" => file' # "none")
               /\ \E u \in Tasks : KeepsFile(u)'
    <2>1. CASE File!Create(t)
      <3>1. /\ UNCHANGED <<wait, attempts, age>> /\ (file' = file \/ file' = "empty")
            /\ \/ pc' = [pc EXCEPT ![t] = "Stamp"] /\ file' = "empty"
               \/ pc' = [pc EXCEPT ![t] = "Read"] /\ file' = file /\ file # "none"
            /\ pc[t] = "Lock"
        BY <2>1, <1>t DEF File!Create, File!Goto
      <3>2. KeepsFile(k)'
        BY <3>1, <1>k, <1>y DEF KeepsFile
      <3> QED
        BY <3>1, <3>2, <1>p, <1>y
    <2>2. CASE File!Read(t)
      <3>1. file' = file /\ age' = age /\ pc[t] = "Read" /\ file # "none"
        BY <2>2, <1>p DEF File!Read, File!fileVars
      <3>2. CASE File!MayTakeOver /\ File!Goto(t, "Stamp") /\ UNCHANGED <<wait, attempts>>
        BY <3>1, <3>2, <1>p, <1>k, <1>y DEF File!Goto, KeepsFile
      <3>3. CASE ~File!MayTakeOver /\ File!LockBusy(t)
        <4>1. file = "stamped" /\ age <= Ttl
          BY <3>1, <3>3, <1>y DEF File!MayTakeOver
        <4>2. CASE File!MayRetry(t)
          <5>1. wait' = [wait EXCEPT ![t] = 0] /\ pc' = [pc EXCEPT ![t] = "Sleep"]
            BY <3>3, <4>2 DEF File!LockBusy, File!ReadClock, File!Goto
          <5>2. \A u \in Tasks : u # t => attempts'[u] = attempts[u]
            BY <3>3, <4>2, <1>y DEF File!LockBusy
          <5>3. KeepsFile(k)'
            BY <3>1, <5>1, <5>2, <1>k, <1>y DEF KeepsFile
          <5> QED
            BY <3>1, <5>1, <5>3, <1>p, <1>y
        <4>3. CASE ~File!MayRetry(t)
          <5>1. pc' = [pc EXCEPT ![t] = "Ended"] /\ UNCHANGED <<attempts, wait>> /\ attempts[t] = 1
            BY <3>3, <4>3, <1>y DEF File!LockBusy, File!Goto, File!MayRetry
          <5>2. k # t
            BY <3>1, <4>1, <5>1, <1>k, <1>y DEF KeepsFile
          <5> QED
            BY <3>1, <5>1, <5>2, <1>p, <1>k, <1>y DEF KeepsFile
        <4> QED
          BY <4>2, <4>3
      <3> QED
        BY <2>2, <3>1, <3>2, <3>3, <1>t DEF File!Read
    <2>3. CASE File!Stamp(t)
      <3>1. file' = "empty" /\ pc' = [pc EXCEPT ![t] = "Write"]
        BY <2>3, <1>t DEF File!Stamp, File!OpenTruncated, File!Goto
      <3> QED
        BY <3>1, <1>p, <1>y DEF KeepsFile
    <2>4. CASE File!Write(t)
      <3>1. pc' = [pc EXCEPT ![t] = "Load"] /\ (file' = file \/ file' = "stamped")
        BY <2>4, <1>t DEF File!Write, File!WriteStamp, File!Goto
      <3> QED
        BY <3>1, <1>p, <1>y DEF KeepsFile
    <2>5. CASE File!Touch(t)
      <3>1. file' = "empty" /\ pc' = [pc EXCEPT ![t] = "Touch"]
        BY <2>5, <1>t DEF File!Touch, File!OpenTruncated, File!Goto
      <3> QED
        BY <3>1, <1>p, <1>y DEF KeepsFile
    <2>6. CASE File!TouchWrite(t)
      <3>1. pc' = [pc EXCEPT ![t] = "Run"] /\ (file' = file \/ file' = "stamped")
        BY <2>6, <1>t DEF File!TouchWrite, File!WriteStamp, File!Goto
      <3> QED
        BY <3>1, <1>p, <1>y DEF KeepsFile
    <2>7. CASE File!Release(t)
      BY <2>7, <1>p DEF File!Release
    <2>8. CASE File!Wake(t) /\ UNCHANGED File!fileVars
      <3>1. /\ pc' = [pc EXCEPT ![t] = "Lock"] /\ UNCHANGED <<wait, attempts, file, age>>
            /\ pc[t] = "Sleep" /\ wait[t] > RetryAfter
        BY <2>8 DEF File!Wake, File!Goto, File!fileVars
      <3> QED
        BY <3>1, <1>p, <1>k, <1>y DEF KeepsFile, RetryOutlastsTtl
    <2>9. CASE File!Load(t) /\ UNCHANGED File!fileVars
      <3>1. pc' = [pc EXCEPT ![t] = "Begin"] /\ UNCHANGED <<wait, attempts, file, age>>
        BY <2>9, <1>t DEF File!Load, File!Goto, File!fileVars
      <3> QED
        BY <3>1, <1>p, <1>y DEF KeepsFile
    <2>10. CASE File!SwapEnds(t) \/ File!SwapPanics(t)
      BY <2>10, <1>t DEF File!SwapEnds, File!SwapPanics
    <2>11. CASE File!Crash(t) /\ UNCHANGED File!fileVars
      <3>1. pc' = [pc EXCEPT ![t] = "Crashed"] /\ UNCHANGED <<wait, attempts, file, age>>
        BY <2>11 DEF File!Crash, File!Goto, File!fileVars
      <3> QED
        BY <3>1, <1>p, <1>y DEF KeepsFile
    <2>12. CASE File!KickStart(t) /\ UNCHANGED File!fileVars
      <3>1. /\ pc' = [pc EXCEPT ![t] = "Lock"] /\ attempts' = [attempts EXCEPT ![t] = 0]
            /\ UNCHANGED <<wait, file, age>>
        BY <2>12, <1>t DEF File!KickStart, File!Goto, File!fileVars
      <3> QED
        BY <3>1, <1>p, <1>y DEF KeepsFile
    <2> QED
      BY <1>3, <2>1, <2>2, <2>3, <2>4, <2>5, <2>6, <2>7, <2>8, <2>9, <2>10, <2>11, <2>12
      DEF File!Step, File!TaskStep
  <1> QED
    BY <1>1, <1>2, <1>3 DEF File!Next

\* Over the lock file too a task aborts only when another one is still to run the swap, however
\* the system calls of any number of tasks interleave: nobody removes the file of an unfinished
\* swap without an error, and whoever wrote the last stamp runs the swap or finds it expired.
\* NotForgotten is the same formula over both locks: it speaks of SwapTasks only.
THEOREM FileLockNotForgotten == RetryOutlastsTtl => (File!Spec => []NotForgotten)
  <1> SUFFICES ASSUME RetryOutlastsTtl PROVE File!Spec => []NotForgotten
    OBVIOUS
  <1>1. File!Init => FilePendingInv
    <2> SUFFICES ASSUME File!Init PROVE FilePendingInv
      OBVIOUS
    <2>1. /\ pc = [t \in Tasks |-> "Lock"] /\ wait = [t \in Tasks |-> 0] /\ attempts = [t \in Tasks |-> 0]
          /\ done = FALSE /\ crashes = 0 /\ errors = 0 /\ late = FALSE /\ file = "none" /\ age = 0
          /\ attached = [t \in Tasks |-> FALSE]
      BY DEF File!Init, File!TaskInit
    <2>2. late \in BOOLEAN /\ done \in BOOLEAN /\ attached \in [Tasks -> BOOLEAN]
      BY Zenon, <2>1
    <2>3. File!TypeOK
      BY <2>1, <2>2, Times DEF File!TypeOK, File!TaskTypeOK, File!Labels
    <2>4. \A t \in Tasks : pc[t] = "Lock" /\ KeepsFile(t)
      BY <2>1 DEF KeepsFile
    <2> QED
      BY <2>3, <2>4, BoundsAssumption DEF FilePendingInv
  <1>2. FilePendingInv /\ [File!Next]_(File!vars) => FilePendingInv'
    BY FilePendingStep
  <1>3. FilePendingInv => NotForgotten
    BY DEF FilePendingInv, NotForgotten, KeepsFile
  <1> QED
    BY <1>1, <1>2, <1>3, PTL DEF File!Spec
=============================================================================
