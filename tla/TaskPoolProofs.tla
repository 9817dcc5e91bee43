---------------------------- MODULE TaskPoolProofs ----------------------------
(***************************************************************************)
(* Proofs about TaskPool for any number of task threads and any MAX_TASKS, *)
(* beside either kind of backend.                                          *)
(*                                                                         *)
(* The pool has two regimes.  While a round is open, task_count is the     *)
(* number of tasks and tasks_taken lags behind it.  From the join to the   *)
(* end of the next ResetTasks (Quiet), nothing can be taken although the   *)
(* counters are set back one after the other: tasks_taken is never below   *)
(* task_count then (Counts), and a thread that holds the spin lock with an *)
(* old value of tasks_taken has one that is too large (HoldersTest).       *)
(***************************************************************************)
EXTENDS TaskPool, FiniteSetTheorems, TLAPS

Places == {"look", "looked", "tryLock", "locked", "check", "take", "taken", "giveUp",
           "run", "ran", "sleepy", "asleep", "awake", "gone"}
QuietPlaces == {"joined", "gather", "outside", "exit", "destroyed",
                "resetCount", "resetTaken", "resetCompleted"}
OpenPlaces == {"wake", "pick", "post", "wait", "compare"}
Quiet == mpc \in QuietPlaces
AtWork == {t \in Threads : Working(t)}

TypeOK ==
  /\ task_count \in Int /\ tasks_taken \in Nat /\ completed_tasks \in Nat
  /\ task_taking_started \in {0, 1}
  /\ picking_tasks \in Seq(Nat)
  /\ mpc \in QuietPlaces \cup OpenPlaces
  /\ phase \in {"gathering", "processing"}
  /\ to_post \in Nat /\ seen \in Nat
  /\ tpc \in [Threads -> Places]
  /\ nta \in [Threads -> Nat] /\ id \in [Threads -> Nat]

OneHolder ==
  /\ \A t \in Threads : Holding(t) => task_taking_started = 1
  /\ \A t, u \in Threads : Holding(t) /\ Holding(u) => t = u

HoldersTest ==
  \A t \in Threads :
    /\ tpc[t] = "check" => nta[t] >= tasks_taken
    /\ tpc[t] = "take" => tasks_taken < task_count

Counts ==
  /\ ~Quiet => task_count = Len(picking_tasks) /\ tasks_taken <= task_count
  /\ Quiet => task_count <= tasks_taken /\ AtWork = {}
  /\ mpc \in {"resetTaken", "resetCompleted"} => task_count = 0
  /\ mpc = "resetCompleted" => tasks_taken = 0

\* Every task taken is completed or at work; WaitForTasks' copy is not ahead.
Completions ==
  /\ mpc # "resetCompleted" => completed_tasks + Cardinality(AtWork) = tasks_taken
  /\ mpc = "compare" => seen <= completed_tasks

OwnTask ==
  \A t \in Threads : Working(t) =>
    /\ id[t] \in 1 .. tasks_taken
    /\ \A u \in Threads : Working(u) /\ id[u] = id[t] => u = t

\* Somebody has the task and has not worked it yet.
Pending(i) == \E t \in Threads : tpc[t] \in {"taken", "run"} /\ id[t] = i
WorkedOnce ==
  \A i \in 1 .. Len(picking_tasks) :
    /\ Quiet => picking_tasks[i] = 1
    /\ ~Quiet => picking_tasks[i] = IF i > tasks_taken \/ Pending(i) THEN 0 ELSE 1

Room ==
  /\ Len(picking_tasks) <= MAX_TASKS
  /\ to_post <= Cardinality(Threads)
  /\ mpc = "post" =>
       phase = "processing" /\ Len(picking_tasks) + to_post <= Cardinality(Threads)

IInv ==
  /\ TypeOK
  /\ OneHolder
  /\ HoldersTest
  /\ Counts
  /\ Completions
  /\ OwnTask
  /\ WorkedOnce
  /\ Room
-----------------------------------------------------------------------------
LEMMA AtWorkFinite == IsFiniteSet(AtWork) /\ Cardinality(AtWork) \in Nat
BY PoolAssumption, FS_Subset, FS_CardinalityType DEF AtWork

LEMMA ThreadsCount == Cardinality(Threads) \in Nat
BY PoolAssumption, FS_CardinalityType

\* In an open round, somebody at work or a task not taken.
LEMMA WorkIsOpen ==
  ASSUME IInv, NEW t \in Threads, Working(t) \/ tpc[t] = "take"
  PROVE  ~Quiet
BY DEF IInv, Counts, HoldersTest, TypeOK, AtWork

LEMMA InitInv == Init => IInv
<1> SUFFICES ASSUME Init PROVE IInv
  OBVIOUS
<1>1. AtWork = {}
  BY DEF Init, AtWork, Working
<1>2. TypeOK
  BY DEF Init, TypeOK, Places, QuietPlaces
<1>3. OneHolder /\ HoldersTest /\ OwnTask
  BY DEF Init, OneHolder, Holding, HoldersTest, OwnTask, Working
<1>4. Counts /\ WorkedOnce
  BY <1>1 DEF Init, Counts, Quiet, QuietPlaces, WorkedOnce
<1>5. Completions
  BY <1>1, FS_EmptySet DEF Init, Completions
<1>6. Room
  BY PoolAssumption, ThreadsCount DEF Init, Room
<1>. QED BY <1>2, <1>3, <1>4, <1>5, <1>6 DEF IInv

-----------------------------------------------------------------------------
(* The search worker moves on: the counters, the tasks and the threads stay *)
(* as they are, and so does the regime.                                     *)

LEMMA SameThreads ==
  ASSUME UNCHANGED <<tpc, id>>
  PROVE  /\ AtWork' = AtWork
         /\ \A t \in Threads : (Working(t)' <=> Working(t)) /\ (Holding(t)' <=> Holding(t))
         /\ \A i : Pending(i)' <=> Pending(i)
<1>1. \A t \in Threads : (Working(t)' <=> Working(t)) /\ (Holding(t)' <=> Holding(t))
  BY DEF Working, Holding
<1>2. AtWork' = AtWork
  BY <1>1 DEF AtWork
<1>3. \A i : Pending(i)' <=> Pending(i)
  BY DEF Pending
<1>. QED BY <1>1, <1>2, <1>3

LEMMA MoveOn ==
  ASSUME IInv,
         mpc' \in QuietPlaces \cup OpenPlaces, phase' \in {"gathering", "processing"},
         to_post' \in 0 .. Cardinality(Threads), seen' \in Nat,
         Quiet' = Quiet, {mpc, mpc'} \cap {"resetTaken", "resetCompleted"} = {},
         mpc' = "compare" => seen' <= completed_tasks, mpc' # "post",
         UNCHANGED <<counters, task_taking_started, picking_tasks, threadVars>>
  PROVE  IInv'
<1> USE SameThreads DEF counters, threadVars
<1>1. TypeOK'
  BY ThreadsCount DEF IInv, TypeOK
<1>2. OneHolder' /\ HoldersTest' /\ OwnTask'
  BY DEF IInv, OneHolder, HoldersTest, OwnTask
<1>3. Counts' /\ WorkedOnce'
  BY DEF IInv, Counts, WorkedOnce
<1>4. Completions'
  BY DEF IInv, Completions
<1>5. Room'
  BY ThreadsCount DEF IInv, Room
<1>. QED BY <1>1, <1>2, <1>3, <1>4, <1>5 DEF IInv

LEMMA MoveOnInv ==
  ASSUME IInv,
         BeginRound \/ PickDone \/ WaitCompleted \/ BeginProcessing \/ ProcessRest
           \/ RoundOver \/ JoinThreads
  PROVE  IInv'
<1> USE ThreadsCount DEF IInv, TypeOK, Room, Quiet, QuietPlaces, OpenPlaces
<1>1. CASE BeginRound
  BY <1>1, MoveOn DEF BeginRound
<1>2. CASE PickDone
  BY <1>2, MoveOn DEF PickDone
<1>3. CASE WaitCompleted
  BY <1>3, MoveOn DEF WaitCompleted, counters
<1>4. CASE BeginProcessing
  BY <1>4, MoveOn DEF BeginProcessing
<1>5. CASE ProcessRest
  BY <1>5, MoveOn DEF ProcessRest
<1>6. CASE RoundOver
  BY <1>6, MoveOn DEF RoundOver
<1>7. CASE JoinThreads
  BY <1>7, MoveOn DEF JoinThreads
<1>. QED BY <1>1, <1>2, <1>3, <1>4, <1>5, <1>6, <1>7

\* The join: as many tasks as were posted are completed, so each of them is
\* taken and nobody is at work.
LEMMA JoinIs ==
  ASSUME IInv, mpc = "compare", task_count = seen
  PROVE  tasks_taken = task_count /\ AtWork = {}
<1>1. task_count <= completed_tasks /\ tasks_taken <= task_count
  BY DEF IInv, Completions, Counts, Quiet, QuietPlaces
<1>2. completed_tasks + Cardinality(AtWork) = tasks_taken
  BY DEF IInv, Completions
<1>3. Cardinality(AtWork) = 0 /\ tasks_taken = task_count
  BY <1>1, <1>2, AtWorkFinite DEF IInv, TypeOK
<1>. QED BY <1>3, AtWorkFinite, FS_EmptySet

LEMMA WaitCompareInv ==
  ASSUME IInv, WaitCompare
  PROVE  IInv'
<1>1. CASE task_count # seen
  BY <1>1, MoveOn
  DEF WaitCompare, IInv, TypeOK, Room, Quiet, QuietPlaces, OpenPlaces
<1>2. CASE task_count = seen
  <2>1. /\ mpc = "compare" /\ mpc' = "joined" /\ ~Quiet /\ Quiet'
        /\ UNCHANGED <<counters, task_taking_started, exiting, picking_tasks,
                       phase, to_post, seen, threadVars>>
    BY <1>2 DEF WaitCompare, Quiet, QuietPlaces
  <2>2. tasks_taken = task_count /\ AtWork = {}
    BY <1>2, <2>1, JoinIs
  <2> USE <2>1, SameThreads DEF counters, threadVars
  <2>3. TypeOK'
    BY DEF IInv, TypeOK, QuietPlaces
  <2>4. OneHolder' /\ HoldersTest' /\ OwnTask'
    BY DEF IInv, OneHolder, HoldersTest, OwnTask
  <2>5. Counts'
    BY <2>2 DEF IInv, TypeOK, Counts
  <2>6. Completions' /\ Room'
    BY DEF IInv, Completions, Room
  <2>7. WorkedOnce'
    <3>1. \A i : ~Pending(i)
      BY <2>2 DEF AtWork, Pending, Working
    <3>2. tasks_taken = Len(picking_tasks)
      BY <2>2 DEF IInv, Counts
    <3>. QED BY <3>1, <3>2 DEF IInv, TypeOK, WorkedOnce
  <2>. QED BY <2>3, <2>4, <2>5, <2>6, <2>7 DEF IInv
<1>. QED BY <1>1, <1>2

-----------------------------------------------------------------------------
(* ResetTasks, and the end of gathering.                                    *)

LEMMA ResetInv ==
  ASSUME IInv, ResetCount \/ ResetTaken \/ ResetCompleted \/ GatherOver
  PROVE  IInv'
<1>1. /\ Quiet /\ UNCHANGED <<tpc, nta, id, task_taking_started, to_post, seen, phase>>
      /\ \A t \in Threads : ~Working(t) /\ tpc[t] # "take"
      /\ AtWork = {}
  <2>1. Quiet
    BY DEF ResetCount, ResetTaken, ResetCompleted, GatherOver, Quiet, QuietPlaces
  <2>2. UNCHANGED <<tpc, nta, id, task_taking_started, to_post, seen, phase>>
    BY DEF ResetCount, ResetTaken, ResetCompleted, GatherOver, threadVars
  <2>. QED BY <2>1, <2>2, WorkIsOpen DEF IInv, Counts
<1> USE <1>1, SameThreads
<1>2. TypeOK'
  <2>1. picking_tasks' \in Seq(Nat)
    <3>1. picking_tasks' = picking_tasks \/ picking_tasks' = <<>>
      BY DEF ResetCount, ResetTaken, ResetCompleted, GatherOver
    <3>2. <<>> \in Seq(Nat)
      OBVIOUS
    <3>. QED BY <3>1, <3>2 DEF IInv, TypeOK
  <2>2. mpc' \in QuietPlaces \cup OpenPlaces
    BY DEF ResetCount, ResetTaken, ResetCompleted, GatherOver, QuietPlaces, OpenPlaces
  <2>3. task_count' \in Int /\ tasks_taken' \in Nat /\ completed_tasks' \in Nat
    BY DEF IInv, TypeOK, ResetCount, ResetTaken, ResetCompleted, GatherOver
  <2>. QED BY <2>1, <2>2, <2>3 DEF IInv, TypeOK
<1>3. OneHolder' /\ OwnTask'
  BY DEF IInv, OneHolder, OwnTask
<1>4. HoldersTest'
  BY DEF IInv, TypeOK, HoldersTest, ResetCount, ResetTaken, ResetCompleted, GatherOver
<1>5. Counts'
  BY DEF IInv, TypeOK, Counts, Quiet, QuietPlaces,
         ResetCount, ResetTaken, ResetCompleted, GatherOver
<1>6. Completions'
  <2>1. Cardinality(AtWork) = 0
    BY FS_EmptySet
  <2>2. mpc # "resetCompleted" => completed_tasks = tasks_taken
    BY <2>1 DEF IInv, TypeOK, Completions
  <2>3. mpc' # "resetCompleted" => completed_tasks' = tasks_taken'
    BY <2>2 DEF IInv, Counts, ResetCount, ResetTaken, ResetCompleted, GatherOver
  <2>4. mpc' # "compare"
    BY DEF ResetCount, ResetTaken, ResetCompleted, GatherOver
  <2>5. completed_tasks' \in Nat /\ Cardinality(AtWork)' = 0
    BY <1>2, <2>1 DEF TypeOK
  <2>6. mpc' # "resetCompleted" =>
          completed_tasks' + Cardinality(AtWork)' = tasks_taken'
    BY <2>3, <2>5
  <2>. QED BY <2>4, <2>6 DEF Completions
<1>7. WorkedOnce'
  BY DEF IInv, WorkedOnce, Quiet, QuietPlaces,
         ResetCount, ResetTaken, ResetCompleted, GatherOver
<1>8. Room'
  BY PoolAssumption, ThreadsCount
  DEF IInv, TypeOK, Room, ResetCount, ResetTaken, ResetCompleted, GatherOver
<1>. QED BY <1>2, <1>3, <1>4, <1>5, <1>6, <1>7, <1>8 DEF IInv

-----------------------------------------------------------------------------
(* Threads that neither hold the spin lock nor are at work move among       *)
(* themselves.                                                              *)

Idle == {"look", "looked", "tryLock", "sleepy", "asleep", "awake", "gone"}
IdleMoves ==
  /\ tpc' \in [Threads -> Places] /\ id' = id
  /\ \A t \in Threads : tpc'[t] = tpc[t] \/ (tpc[t] \in Idle /\ tpc'[t] \in Idle)

LEMMA IdleMovesSame ==
  ASSUME IdleMoves
  PROVE  /\ AtWork' = AtWork
         /\ \A t \in Threads :
              /\ (Working(t)' <=> Working(t)) /\ (Holding(t)' <=> Holding(t))
              /\ (tpc[t] = "check" <=> tpc'[t] = "check")
              /\ (tpc[t] = "take" <=> tpc'[t] = "take")
         /\ \A i : Pending(i)' <=> Pending(i)
<1>1. \A t \in Threads : (Working(t)' <=> Working(t)) /\ (Holding(t)' <=> Holding(t))
  BY DEF IdleMoves, Idle, Working, Holding
<1>2. \A t \in Threads : /\ (tpc[t] = "check" <=> tpc'[t] = "check")
                         /\ (tpc[t] = "take" <=> tpc'[t] = "take")
  BY DEF IdleMoves, Idle
<1>3. AtWork' = AtWork
  BY <1>1 DEF AtWork
<1>4. \A i : Pending(i)' <=> Pending(i)
  <2>1. \A t \in Threads : tpc'[t] \in {"taken", "run"} <=> tpc[t] \in {"taken", "run"}
    BY DEF IdleMoves, Idle
  <2>. QED BY <2>1 DEF Pending, IdleMoves
<1>. QED BY <1>1, <1>2, <1>3, <1>4

LEMMA NotifiedMoves ==
  ASSUME TypeOK, tpc' = Notified, id' = id
  PROVE  IdleMoves
BY DEF TypeOK, Notified, IdleMoves, Idle, Places

LEMMA ThreadMoves ==
  ASSUME TypeOK, NEW t \in Threads, NEW pc \in Idle, Goto(t, pc), tpc[t] \in Idle, id' = id
  PROVE  IdleMoves
BY DEF TypeOK, Goto, IdleMoves, Idle, Places

\* Nothing but that, and the worker may go on in the same regime.
LEMMA IdleStep ==
  ASSUME IInv, IdleMoves, nta' \in [Threads -> Nat],
         \A t \in Threads : tpc[t] = "check" => nta'[t] = nta[t],
         mpc' = mpc \/ (Quiet' = Quiet /\ mpc \in {"wake", "outside"} /\ mpc' \in {"pick", "exit"}),
         UNCHANGED <<counters, task_taking_started, picking_tasks, phase, to_post, seen>>
  PROVE  IInv'
<1> USE IdleMovesSame DEF counters
<1>0. Quiet' = Quiet
  BY DEF Quiet
<1>1. TypeOK'
  BY DEF IInv, TypeOK, IdleMoves, QuietPlaces, OpenPlaces
<1>2. OneHolder' /\ HoldersTest'
  BY DEF IInv, OneHolder, HoldersTest
<1>3. OwnTask'
  BY DEF IInv, OwnTask, IdleMoves
<1>4. Counts'
  BY <1>0 DEF IInv, Counts
<1>5. WorkedOnce'
  BY <1>0 DEF IInv, WorkedOnce
<1>6. Completions'
  BY DEF IInv, Completions
<1>7. Room'
  BY DEF IInv, Room
<1>. QED BY <1>1, <1>2, <1>3, <1>4, <1>5, <1>6, <1>7 DEF IInv

LEMMA IdleThreadInv ==
  ASSUME IInv, NEW t \in Threads,
         \/ ReadCount(t) \/ Sleep(t) \/ WakeUp(t)
         \/ ReadTaken(t) /\ tpc[t] = "look"
         \/ TryLock(t) /\ task_taking_started = 1
  PROVE  IInv'
<1>1. PICK pc \in Idle : Goto(t, pc)
  BY DEF ReadCount, Sleep, WakeUp, ReadTaken, TryLock, Idle
<1>2. tpc[t] \in Idle /\ id' = id
  BY DEF ReadCount, Sleep, WakeUp, ReadTaken, TryLock, Idle
<1>3. IdleMoves
  BY <1>1, <1>2, ThreadMoves DEF IInv
<1>4. /\ nta' \in [Threads -> Nat]
      /\ \A u \in Threads : tpc[u] = "check" => nta'[u] = nta[u]
  BY <1>2 DEF IInv, TypeOK, Idle, ReadCount, Sleep, WakeUp, ReadTaken, TryLock
<1>5. UNCHANGED <<counters, task_taking_started, picking_tasks, mpc, phase, to_post, seen>>
  BY DEF ReadCount, Sleep, WakeUp, ReadTaken, TryLock, mainVars
<1>. QED BY <1>3, <1>4, <1>5, IdleStep

LEMMA NotifyInv ==
  ASSUME IInv, WakeRunners \/ Destroy
  PROVE  IInv'
<1>1. CASE WakeRunners
  <2>1. IdleMoves
    BY <1>1, NotifiedMoves DEF WakeRunners, IInv, TypeOK, IdleMoves
  <2>2. Quiet' = Quiet
    BY <1>1 DEF WakeRunners, Quiet, QuietPlaces
  <2>. QED BY <1>1, <2>1, <2>2, IdleStep DEF WakeRunners, IInv, TypeOK
<1>2. CASE Destroy
  <2>1. IdleMoves
    BY <1>2, NotifiedMoves DEF Destroy, IInv
  <2>2. Quiet' = Quiet
    BY <1>2 DEF Destroy, Quiet, QuietPlaces
  <2>. QED BY <1>2, <2>1, <2>2, IdleStep DEF Destroy, IInv, TypeOK
<1>. QED BY <1>1, <1>2

-----------------------------------------------------------------------------
(* A task is posted, by the worker or by a thread that splits its own.      *)

LEMMA PostInv ==
  ASSUME IInv, ~Quiet, IdleMoves,
         picking_tasks' = Append(picking_tasks, 0), task_count' = task_count + 1,
         to_post' \in Nat, to_post' <= to_post, Len(picking_tasks) < MAX_TASKS,
         mpc = "post" => to_post' < to_post,
         UNCHANGED <<tasks_taken, completed_tasks, task_taking_started, mpc, phase, seen, nta>>
  PROVE  IInv'
<1> USE IdleMovesSame
<1>0. Quiet' = Quiet
  BY DEF Quiet
<1>1. /\ Len(picking_tasks') = Len(picking_tasks) + 1
      /\ picking_tasks' \in Seq(Nat)
      /\ \A i \in 1 .. Len(picking_tasks) : picking_tasks'[i] = picking_tasks[i]
      /\ picking_tasks'[Len(picking_tasks) + 1] = 0
      /\ Len(picking_tasks) \in Nat
  BY DEF IInv, TypeOK
<1>2. TypeOK'
  BY <1>1 DEF IInv, TypeOK, IdleMoves
<1>3. OneHolder' /\ HoldersTest'
  BY DEF IInv, TypeOK, OneHolder, HoldersTest
<1>4. OwnTask'
  BY DEF IInv, OwnTask, IdleMoves
<1>5. Counts'
  BY <1>0, <1>1 DEF IInv, TypeOK, Counts, Quiet, QuietPlaces
<1>6. WorkedOnce'
  <2>1. \A i \in 1 .. Len(picking_tasks) :
          picking_tasks[i] = IF i > tasks_taken \/ Pending(i) THEN 0 ELSE 1
    BY DEF IInv, WorkedOnce
  <2>2. tasks_taken <= Len(picking_tasks)
    BY DEF IInv, Counts
  <2>3. \A i \in 1 .. Len(picking_tasks) :
          picking_tasks'[i] = IF i > tasks_taken' \/ Pending(i)' THEN 0 ELSE 1
    BY <1>1, <2>1
  <2>4. Len(picking_tasks) + 1 > tasks_taken'
    BY <1>1, <2>2 DEF IInv, TypeOK
  <2>. QED BY <1>0, <1>1, <2>3, <2>4, SMTT(30) DEF WorkedOnce
<1>7. Completions'
  BY DEF IInv, Completions
<1>8. Room'
  BY <1>1, PoolAssumption, ThreadsCount DEF IInv, TypeOK, Room
<1>. QED BY <1>2, <1>3, <1>4, <1>5, <1>6, <1>7, <1>8 DEF IInv

LEMMA SplitInv ==
  ASSUME IInv, SplitMain \/ PostTask \/ \E t \in Threads : SplitTask(t)
  PROVE  IInv'
<1>1. CASE PostTask
  <2>1. ~Quiet /\ mpc = "post"
    BY <1>1 DEF PostTask, Quiet, QuietPlaces
  <2>2. Len(picking_tasks) < MAX_TASKS /\ to_post' \in Nat /\ to_post' < to_post
    BY <1>1, <2>1, PoolAssumption, ThreadsCount DEF PostTask, IInv, TypeOK, Room
  <2>3. IdleMoves
    BY <1>1 DEF PostTask, threadVars, IdleMoves, IInv, TypeOK
  <2>. QED BY <1>1, <2>1, <2>2, <2>3, PostInv DEF PostTask, threadVars, IInv, TypeOK
<1>2. CASE SplitMain \/ \E t \in Threads : SplitTask(t)
  <2>1. PassOff
    BY <1>2 DEF SplitMain, SplitTask
  <2>2. ~Quiet /\ mpc # "post"
    <3>1. CASE SplitMain
      BY <3>1 DEF SplitMain, Quiet, QuietPlaces
    <3>2. ASSUME NEW t \in Threads, SplitTask(t) PROVE ~Quiet /\ mpc # "post"
      <4>1. tpc[t] = "run" /\ phase = "gathering"
        BY <3>2 DEF SplitTask
      <4>2. ~Quiet
        BY <4>1, WorkIsOpen DEF Working
      <4>3. mpc # "post"
        BY <4>1 DEF IInv, Room
      <4>. QED BY <4>2, <4>3
    <3>. QED BY <1>2, <3>1, <3>2
  <2>3. IdleMoves
    BY <2>1, NotifiedMoves DEF PassOff, IInv
  <2>. QED BY <2>1, <2>2, <2>3, PostInv DEF PassOff, mainVars, IInv, TypeOK
<1>. QED BY <1>1, <1>2

-----------------------------------------------------------------------------
(* A thread with the spin lock.                                             *)

LEMMA Moves ==
  ASSUME TypeOK, NEW t \in Threads, NEW pc \in Places, Goto(t, pc)
  PROVE  /\ tpc' \in [Threads -> Places] /\ tpc'[t] = pc
         /\ \A u \in Threads : u # t => tpc'[u] = tpc[u]
BY DEF TypeOK, Goto

\* It goes to a place where it is not at work and was not at work.
LEMMA LockStep ==
  ASSUME IInv, NEW t \in Threads, NEW pc \in Places, Goto(t, pc),
         ~Working(t), pc \notin {"taken", "run", "ran"},
         task_taking_started' \in {0, 1}, nta' \in [Threads -> Nat],
         OneHolder', HoldersTest',
         UNCHANGED <<counters, picking_tasks, mainVars, id>>
  PROVE  IInv'
<1>1. /\ tpc' \in [Threads -> Places] /\ tpc'[t] = pc
      /\ \A u \in Threads : u # t => tpc'[u] = tpc[u]
  BY Moves DEF IInv
<1>2. /\ UNCHANGED <<task_count, tasks_taken, completed_tasks, mpc, phase, to_post, seen>>
      /\ Quiet' = Quiet
  BY DEF counters, mainVars, Quiet
<1>3. \A u \in Threads : Working(u)' <=> Working(u)
  BY <1>1 DEF Working
<1>4. AtWork' = AtWork
  BY <1>3 DEF AtWork
<1>5. \A i : Pending(i)' <=> Pending(i)
  <2>1. \A u \in Threads : tpc'[u] \in {"taken", "run"} <=> tpc[u] \in {"taken", "run"}
    BY <1>1 DEF Working
  <2>. QED BY <2>1 DEF Pending
<1>6. TypeOK'
  BY <1>1, <1>2 DEF IInv, TypeOK
<1>7. Counts' /\ Completions' /\ WorkedOnce' /\ Room'
  BY <1>2, <1>4, <1>5 DEF IInv, Counts, Completions, WorkedOnce, Room
<1>8. OwnTask'
  BY <1>2, <1>3 DEF IInv, OwnTask
<1>. QED BY <1>6, <1>7, <1>8 DEF IInv

LEMMA LockInv ==
  ASSUME IInv, NEW t \in Threads,
         \/ ReadTaken(t) /\ tpc[t] = "locked"
         \/ TryLock(t) /\ task_taking_started = 0
         \/ CheckCount(t)
         \/ Unlock(t) /\ tpc[t] = "giveUp"
  PROVE  IInv'
<1>1. CASE ReadTaken(t) /\ tpc[t] = "locked"
  <2>1. "check" \in Places /\ Goto(t, "check")
    BY <1>1 DEF ReadTaken, Places
  <2>2. /\ tpc'[t] = "check" /\ \A u \in Threads : u # t => tpc'[u] = tpc[u]
    BY <2>1, Moves DEF IInv
  <2>3. /\ UNCHANGED <<counters, task_taking_started, picking_tasks, mainVars, id>>
        /\ nta' \in [Threads -> Nat] /\ nta'[t] = tasks_taken
        /\ \A u \in Threads : u # t => nta'[u] = nta[u]
    BY <1>1 DEF ReadTaken, IInv, TypeOK
  <2>4. OneHolder'
    BY <1>1, <2>2, <2>3 DEF IInv, OneHolder, Holding
  <2>5. HoldersTest'
    BY <2>2, <2>3 DEF IInv, TypeOK, HoldersTest, counters
  <2>. QED BY <1>1, <2>1, <2>3, <2>4, <2>5, LockStep DEF Working, IInv, TypeOK
<1>2. CASE TryLock(t) /\ task_taking_started = 0
  <2>1. "locked" \in Places /\ Goto(t, "locked") /\ tpc[t] = "tryLock"
    BY <1>2 DEF TryLock, Places
  <2>2. /\ tpc'[t] = "locked" /\ \A u \in Threads : u # t => tpc'[u] = tpc[u]
    BY <2>1, Moves DEF IInv
  <2>3. /\ UNCHANGED <<counters, picking_tasks, mainVars, id, nta>>
        /\ task_taking_started' = 1
    BY <1>2 DEF TryLock
  <2>4. OneHolder'
    BY <1>2, <2>2, <2>3 DEF IInv, OneHolder, Holding
  <2>5. HoldersTest'
    BY <2>2, <2>3 DEF IInv, HoldersTest, counters
  <2>. QED BY <2>1, <2>3, <2>4, <2>5, LockStep DEF Working, IInv, TypeOK
<1>3. CASE CheckCount(t)
  <2>. DEFINE pc == IF nta[t] < task_count THEN "take" ELSE "giveUp"
  <2>1. pc \in Places /\ pc \in {"take", "giveUp"} /\ Goto(t, pc) /\ tpc[t] = "check"
    BY <1>3 DEF CheckCount, Places
  <2>2. /\ tpc'[t] = pc /\ \A u \in Threads : u # t => tpc'[u] = tpc[u]
    BY <2>1, Moves DEF IInv
  <2>3. UNCHANGED <<counters, task_taking_started, picking_tasks, mainVars, id, nta>>
    BY <1>3 DEF CheckCount
  <2>4. OneHolder'
    BY <2>1, <2>2, <2>3 DEF IInv, OneHolder, Holding
  <2>5. pc = "take" => tasks_taken < task_count
    BY <2>1 DEF IInv, TypeOK, HoldersTest
  <2>6. HoldersTest'
    BY <2>1, <2>2, <2>3, <2>5 DEF IInv, HoldersTest, counters
  <2>. QED BY <2>1, <2>3, <2>4, <2>6, LockStep DEF Working, IInv, TypeOK
<1>4. CASE Unlock(t) /\ tpc[t] = "giveUp"
  <2>1. "look" \in Places /\ Goto(t, "look")
    BY <1>4 DEF Unlock, Places
  <2>2. /\ tpc'[t] = "look" /\ \A u \in Threads : u # t => tpc'[u] = tpc[u]
    BY <2>1, Moves DEF IInv
  <2>3. /\ UNCHANGED <<counters, picking_tasks, mainVars, id, nta>>
        /\ task_taking_started' = 0
    BY <1>4 DEF Unlock
  <2>4. OneHolder'
    BY <1>4, <2>2, <2>3 DEF IInv, OneHolder, Holding
  <2>5. HoldersTest'
    BY <2>2, <2>3 DEF IInv, HoldersTest, counters
  <2>. QED BY <1>4, <2>1, <2>3, <2>4, <2>5, LockStep DEF Working, IInv, TypeOK
<1>. QED BY <1>1, <1>2, <1>3, <1>4

\* The task taken is the first that nobody has taken: nobody has it.
LEMMA TakeTaskInv ==
  ASSUME IInv, NEW t \in Threads, TakeTask(t)
  PROVE  IInv'
<1>1. "taken" \in Places /\ Goto(t, "taken") /\ tpc[t] = "take"
  BY DEF TakeTask, Places
<1>2. /\ tpc' \in [Threads -> Places] /\ tpc'[t] = "taken"
      /\ \A u \in Threads : u # t => tpc'[u] = tpc[u]
  BY <1>1, Moves DEF IInv
<1>3. /\ UNCHANGED <<task_count, completed_tasks, task_taking_started, picking_tasks,
                     mpc, phase, to_post, seen, nta>>
      /\ Quiet' = Quiet
      /\ tasks_taken' = tasks_taken + 1
  BY DEF TakeTask, mainVars, Quiet
<1>4. /\ id' \in [Threads -> Nat] /\ id'[t] = tasks_taken + 1
      /\ \A u \in Threads : u # t => id'[u] = id[u]
  BY DEF TakeTask, IInv, TypeOK
<1>5. ~Quiet /\ tasks_taken < task_count /\ task_count = Len(picking_tasks)
  BY <1>1, WorkIsOpen DEF IInv, HoldersTest, Counts
<1>6. AtWork' = AtWork \cup {t} /\ t \notin AtWork
  BY <1>1, <1>2 DEF AtWork, Working
<1>7. TypeOK'
  BY <1>2, <1>3, <1>4 DEF IInv, TypeOK
<1>8. OneHolder'
  BY <1>1, <1>2, <1>3 DEF IInv, OneHolder, Holding
<1>9. HoldersTest'
  BY <1>1, <1>2, <1>3 DEF IInv, OneHolder, Holding, HoldersTest
<1>10. Counts'
  BY <1>3, <1>5 DEF IInv, TypeOK, Counts, Quiet, QuietPlaces
<1>11. Completions'
  <2>1. Cardinality(AtWork)' = Cardinality(AtWork) + 1
    BY <1>6, AtWorkFinite, FS_AddElement
  <2>2. mpc # "resetCompleted"
    BY <1>5 DEF Quiet, QuietPlaces
  <2>3. completed_tasks + Cardinality(AtWork) = tasks_taken
    BY <2>2 DEF IInv, Completions
  <2>4. completed_tasks' + Cardinality(AtWork)' = tasks_taken'
    BY <1>3, <2>1, <2>3, AtWorkFinite DEF IInv, TypeOK
  <2>. QED BY <1>3, <2>4 DEF IInv, Completions
<1>12. OwnTask'
  <2>1. \A u \in Threads : u # t => (Working(u)' <=> Working(u))
    BY <1>2 DEF Working
  <2>2. \A u \in Threads : u # t /\ Working(u)' => id'[u] \in 1 .. tasks_taken
    BY <1>4, <2>1 DEF IInv, OwnTask
  <2>. QED BY <1>3, <1>4, <2>1, <2>2 DEF IInv, TypeOK, OwnTask
<1>13. WorkedOnce'
  <2>1. ASSUME NEW i, i = tasks_taken + 1 PROVE Pending(i)'
    BY <1>2, <1>4, <2>1 DEF Pending
  <2>2. ASSUME NEW i \in 1 .. Len(picking_tasks), i # tasks_taken + 1
        PROVE  Pending(i)' <=> Pending(i)
    BY <1>1, <1>2, <1>4, <2>2 DEF Pending
  <2>3. \A i \in 1 .. Len(picking_tasks) :
          picking_tasks[i] = IF i > tasks_taken \/ Pending(i) THEN 0 ELSE 1
    BY <1>5 DEF IInv, WorkedOnce
  <2>4. ASSUME NEW i \in 1 .. Len(picking_tasks)
        PROVE  picking_tasks[i] = IF i > tasks_taken + 1 \/ Pending(i)' THEN 0 ELSE 1
    <3>1. CASE i = tasks_taken + 1
      <4>1. i > tasks_taken /\ Pending(i)'
        BY <2>1, <3>1 DEF IInv, TypeOK
      <4>. QED BY <2>3, <4>1
    <3>2. CASE i # tasks_taken + 1
      <4>1. i > tasks_taken <=> i > tasks_taken + 1
        BY <3>2 DEF IInv, TypeOK
      <4>. QED BY <2>2, <2>3, <3>2, <4>1
    <3>. QED BY <3>1, <3>2
  <2>. QED BY <1>3, <1>5, <2>4 DEF WorkedOnce
<1>14. Room'
  BY <1>3 DEF IInv, Room
<1>. QED BY <1>7, <1>8, <1>9, <1>10, <1>11, <1>12, <1>13, <1>14 DEF IInv

-----------------------------------------------------------------------------
(* A thread with a task.                                                    *)

\* It lets go of the lock, its task in hand.
LEMMA UnlockTakenInv ==
  ASSUME IInv, NEW t \in Threads, Unlock(t), tpc[t] = "taken"
  PROVE  IInv'
<1>1. "run" \in Places /\ Goto(t, "run")
  BY DEF Unlock, Places
<1>2. /\ tpc' \in [Threads -> Places] /\ tpc'[t] = "run"
      /\ \A u \in Threads : u # t => tpc'[u] = tpc[u]
  BY <1>1, Moves DEF IInv
<1>3. /\ UNCHANGED <<task_count, tasks_taken, completed_tasks, picking_tasks,
                     mpc, phase, to_post, seen, nta, id>>
      /\ Quiet' = Quiet
      /\ task_taking_started' = 0
  BY DEF Unlock, counters, mainVars, Quiet
<1>4. \A u \in Threads : Working(u)' <=> Working(u)
  BY <1>2 DEF Working
<1>5. AtWork' = AtWork
  BY <1>4 DEF AtWork
<1>6. \A i : Pending(i)' <=> Pending(i)
  <2>1. \A u \in Threads : tpc'[u] \in {"taken", "run"} <=> tpc[u] \in {"taken", "run"}
    BY <1>2
  <2>. QED BY <1>3, <2>1 DEF Pending
<1>7. TypeOK'
  BY <1>2, <1>3 DEF IInv, TypeOK
<1>8. OneHolder'
  BY <1>2, <1>3 DEF IInv, OneHolder, Holding
<1>9. HoldersTest'
  BY <1>2, <1>3 DEF IInv, HoldersTest
<1>10. Counts' /\ Completions' /\ WorkedOnce' /\ Room'
  BY <1>3, <1>5, <1>6 DEF IInv, Counts, Completions, WorkedOnce, Room
<1>11. OwnTask'
  BY <1>3, <1>4 DEF IInv, OwnTask
<1>. QED BY <1>7, <1>8, <1>9, <1>10, <1>11 DEF IInv

\* The task it works is one nobody has worked yet.
LEMMA OwnTaskIs ==
  ASSUME IInv, NEW t \in Threads, Working(t)
  PROVE  /\ id[t] \in 1 .. Len(picking_tasks)
         /\ tpc[t] # "ran" => picking_tasks[id[t]] = 0
<1>1. ~Quiet
  BY WorkIsOpen
<1>2. id[t] \in 1 .. Len(picking_tasks)
  BY <1>1 DEF IInv, TypeOK, OwnTask, Counts
<1>3. tpc[t] # "ran" => Pending(id[t])
  BY DEF Working, Pending
<1>. QED BY <1>1, <1>2, <1>3 DEF IInv, WorkedOnce

LEMMA RunTaskInv ==
  ASSUME IInv, NEW t \in Threads, RunTask(t)
  PROVE  IInv'
<1>1. "ran" \in Places /\ Goto(t, "ran") /\ tpc[t] = "run" /\ Working(t)
  BY DEF RunTask, Places, Working
<1>2. /\ tpc' \in [Threads -> Places] /\ tpc'[t] = "ran"
      /\ \A u \in Threads : u # t => tpc'[u] = tpc[u]
  BY <1>1, Moves DEF IInv
<1>3. /\ UNCHANGED <<task_count, tasks_taken, completed_tasks, task_taking_started,
                     mpc, phase, to_post, seen, nta, id>>
      /\ Quiet' = Quiet /\ ~Quiet
  BY <1>1, WorkIsOpen DEF RunTask, counters, mainVars, Quiet
<1>4. id[t] \in 1 .. Len(picking_tasks) /\ picking_tasks[id[t]] = 0
  BY <1>1, OwnTaskIs
<1>5. /\ picking_tasks' \in Seq(Nat) /\ Len(picking_tasks') = Len(picking_tasks)
      /\ picking_tasks'[id[t]] = 1
      /\ \A i \in 1 .. Len(picking_tasks) : i # id[t] => picking_tasks'[i] = picking_tasks[i]
  BY <1>4 DEF RunTask, IInv, TypeOK
<1>6. \A u \in Threads : Working(u)' <=> Working(u)
  BY <1>1, <1>2 DEF Working
<1>7. AtWork' = AtWork
  BY <1>6 DEF AtWork
<1>8. TypeOK'
  BY <1>2, <1>3, <1>5 DEF IInv, TypeOK
<1>9. OneHolder' /\ HoldersTest'
  BY <1>1, <1>2, <1>3 DEF IInv, OneHolder, Holding, HoldersTest
<1>10. Counts' /\ Completions' /\ Room'
  BY <1>3, <1>5, <1>7 DEF IInv, Counts, Completions, Room
<1>11. OwnTask'
  BY <1>3, <1>6 DEF IInv, OwnTask
<1>12. WorkedOnce'
  <2>1. ASSUME NEW i, i = id[t] PROVE ~Pending(i)'
    <3>1. ASSUME NEW u \in Threads, tpc'[u] \in {"taken", "run"}, id'[u] = i PROVE FALSE
      <4>1. u # t /\ Working(u)
        BY <1>2, <3>1 DEF Working
      <4>. QED BY <1>1, <1>3, <2>1, <3>1, <4>1 DEF IInv, OwnTask
    <3>. QED BY <3>1 DEF Pending
  <2>2. ASSUME NEW i \in 1 .. Len(picking_tasks), i # id[t]
        PROVE  Pending(i)' <=> Pending(i)
    BY <1>2, <1>3, <2>2 DEF Pending
  <2>3. id[t] <= tasks_taken
    BY <1>1 DEF IInv, OwnTask, TypeOK
  <2>4. \A i \in 1 .. Len(picking_tasks) :
          picking_tasks[i] = IF i > tasks_taken \/ Pending(i) THEN 0 ELSE 1
    BY <1>3 DEF IInv, WorkedOnce
  <2>5. ASSUME NEW i \in 1 .. Len(picking_tasks)
        PROVE  picking_tasks'[i] = IF i > tasks_taken \/ Pending(i)' THEN 0 ELSE 1
    <3>1. CASE i = id[t]
      <4>1. ~(i > tasks_taken)
        BY <2>3, <3>1 DEF IInv, TypeOK
      <4>. QED BY <1>5, <2>1, <3>1, <4>1
    <3>2. CASE i # id[t]
      BY <1>5, <2>2, <2>4, <3>2
    <3>. QED BY <3>1, <3>2
  <2>. QED BY <1>3, <1>5, <2>5 DEF WorkedOnce
<1>. QED BY <1>8, <1>9, <1>10, <1>11, <1>12 DEF IInv

LEMMA CompleteTaskInv ==
  ASSUME IInv, NEW t \in Threads, CompleteTask(t)
  PROVE  IInv'
<1>1. "look" \in Places /\ Goto(t, "look") /\ tpc[t] = "ran" /\ Working(t)
  BY DEF CompleteTask, Places, Working
<1>2. /\ tpc' \in [Threads -> Places] /\ tpc'[t] = "look"
      /\ \A u \in Threads : u # t => tpc'[u] = tpc[u]
  BY <1>1, Moves DEF IInv
<1>3. /\ UNCHANGED <<task_count, tasks_taken, task_taking_started, picking_tasks,
                     mpc, phase, to_post, seen, nta, id>>
      /\ Quiet' = Quiet /\ ~Quiet
      /\ completed_tasks' = completed_tasks + 1
  BY <1>1, WorkIsOpen DEF CompleteTask, mainVars, Quiet
<1>4. \A u \in Threads : u # t => (Working(u)' <=> Working(u))
  BY <1>2 DEF Working
<1>5. AtWork' = AtWork \ {t} /\ t \in AtWork
  BY <1>1, <1>2, <1>4 DEF AtWork, Working
<1>6. TypeOK'
  BY <1>2, <1>3 DEF IInv, TypeOK
<1>7. OneHolder' /\ HoldersTest'
  BY <1>1, <1>2, <1>3 DEF IInv, OneHolder, Holding, HoldersTest
<1>8. Counts' /\ Room'
  BY <1>3 DEF IInv, Counts, Room
<1>9. Completions'
  <2>1. Cardinality(AtWork)' = Cardinality(AtWork) - 1
    BY <1>5, AtWorkFinite, FS_RemoveElement
  <2>2. mpc # "resetCompleted"
    BY <1>3 DEF Quiet, QuietPlaces
  <2>3. completed_tasks + Cardinality(AtWork) = tasks_taken
    BY <2>2 DEF IInv, Completions
  <2>4. completed_tasks' + Cardinality(AtWork)' = tasks_taken'
    BY <1>3, <2>1, <2>3, AtWorkFinite DEF IInv, TypeOK
  <2>. QED BY <1>3, <2>4 DEF IInv, TypeOK, Completions
<1>10. OwnTask'
  <2>1. \A u \in Threads : Working(u)' => Working(u)
    BY <1>1, <1>4
  <2>. QED BY <1>3, <2>1 DEF IInv, OwnTask
<1>11. WorkedOnce'
  <2>1. \A u \in Threads : tpc'[u] \in {"taken", "run"} <=> tpc[u] \in {"taken", "run"}
    BY <1>1, <1>2
  <2>2. \A i : Pending(i)' <=> Pending(i)
    BY <1>3, <2>1 DEF Pending
  <2>. QED BY <1>3, <2>2 DEF IInv, WorkedOnce
<1>. QED BY <1>6, <1>7, <1>8, <1>9, <1>10, <1>11 DEF IInv

-----------------------------------------------------------------------------
(* Every step preserves the invariant.                                      *)

LEMMA NextInv == IInv /\ [Next]_vars => IInv'
<1> SUFFICES ASSUME IInv, [Next]_vars PROVE IInv'
  OBVIOUS
<1>1. CASE MainStep
  BY <1>1, MoveOnInv, WaitCompareInv, ResetInv, NotifyInv, SplitInv DEF MainStep
<1>2. ASSUME NEW t \in Threads, ThreadStep(t) PROVE IInv'
  <2>1. CASE ReadTaken(t)
    BY <2>1, IdleThreadInv, LockInv DEF ReadTaken
  <2>2. CASE TryLock(t)
    BY <2>2, IdleThreadInv, LockInv DEF IInv, TypeOK
  <2>3. CASE Unlock(t)
    BY <2>3, UnlockTakenInv, LockInv DEF Unlock
  <2>. QED BY <1>2, <2>1, <2>2, <2>3, IdleThreadInv, LockInv, TakeTaskInv, RunTaskInv,
           CompleteTaskInv DEF ThreadStep
<1>3. CASE \E t \in Threads : SplitTask(t)
  BY <1>3, SplitInv
<1>4. CASE Terminated \/ UNCHANGED vars
  <2>1. IdleMoves /\ nta' = nta /\ mpc' = mpc
    BY <1>4 DEF Terminated, vars, threadVars, mainVars, IdleMoves, IInv, TypeOK
  <2>. QED BY <1>4, <2>1, IdleStep DEF Terminated, vars, mainVars, IInv, TypeOK
<1>. QED BY <1>1, <1>2, <1>3, <1>4 DEF Next

\* The strengthened invariant: the spin lock, the counters in both regimes, and
\* what has become of each task.
THEOREM Invariance == Spec => []IInv
<1>1. Init => IInv
  BY InitInv
<1>2. IInv /\ [Next]_vars => IInv'
  BY NextInv
<1>. QED BY <1>1, <1>2, PTL DEF Spec

\* No two threads of RunTasks work on the same task, a thread works on a task of
\* this round that nobody has worked, and ResetTasks reserved enough.
THEOREM TaskOwnedHolds == Spec => []TaskOwned
<1>1. IInv => TaskOwned
  <2> SUFFICES ASSUME IInv PROVE TaskOwned
    OBVIOUS
  <2>1. DOMAIN picking_tasks = 1 .. Len(picking_tasks)
    BY DEF IInv, TypeOK
  <2>2. \A t \in Threads : Working(t) =>
          /\ id[t] \in DOMAIN picking_tasks
          /\ tpc[t] # "ran" => picking_tasks[id[t]] = 0
    BY <2>1, OwnTaskIs
  <2>3. \A t \in Threads : Working(t) =>
          \A u \in Threads \ {t} : Working(u) => id[u] # id[t]
    BY DEF IInv, OwnTask
  <2>. QED BY <2>2, <2>3 DEF TaskOwned, IInv, Room
<1>. QED BY <1>1, Invariance, PTL

\* When WaitForTasks has returned, and until the next round is open, no task
\* thread is at work and there is nothing left to take.
THEOREM JoinedMeansDoneHolds == Spec => []JoinedMeansDone
<1>1. IInv => JoinedMeansDone
  BY WorkIsOpen DEF JoinedMeansDone, Quiet, QuietPlaces
<1>. QED BY <1>1, Invariance, PTL

\* A step of the pool forks, works or joins, or leaves the tasks alone.
LEMMA StepRefines ==
  ASSUME IInv, [Next]_vars
  PROVE  [ForkJoin!JNext]_picking_tasks
<1>1. CASE SplitMain \/ PostTask \/ \E t \in Threads : SplitTask(t)
  <2>1. ForkJoin!Fork
    BY <1>1 DEF SplitMain, PostTask, SplitTask, PassOff, ForkJoin!Fork
  <2>. QED BY <2>1 DEF ForkJoin!JNext
<1>2. ASSUME NEW t \in Threads, RunTask(t) PROVE ForkJoin!JNext
  <2>1. Working(t) /\ tpc[t] = "run"
    BY <1>2 DEF RunTask, Working
  <2>2. id[t] \in DOMAIN picking_tasks /\ picking_tasks[id[t]] = 0
    BY <2>1, OwnTaskIs DEF IInv, TypeOK
  <2>3. picking_tasks' = [picking_tasks EXCEPT ![id[t]] = 1]
    BY <1>2, <2>2 DEF RunTask
  <2>. QED BY <2>2, <2>3 DEF ForkJoin!JNext, ForkJoin!Work
<1>3. CASE ResetCompleted
  <2>1. Quiet
    BY <1>3 DEF ResetCompleted, Quiet, QuietPlaces
  <2>2. \A i \in DOMAIN picking_tasks : picking_tasks[i] = 1
    BY <2>1 DEF IInv, TypeOK, WorkedOnce
  <2>3. picking_tasks' = <<>>
    BY <1>3 DEF ResetCompleted
  <2>. QED BY <2>2, <2>3 DEF ForkJoin!JNext, ForkJoin!Join
<1>4. CASE \/ BeginRound \/ ResetCount \/ ResetTaken \/ WakeRunners \/ PickDone
           \/ WaitCompleted \/ WaitCompare \/ BeginProcessing \/ ProcessRest
           \/ RoundOver \/ GatherOver \/ Destroy \/ JoinThreads
  BY <1>4 DEF BeginRound, ResetCount, ResetTaken, WakeRunners, PickDone,
              WaitCompleted, WaitCompare, BeginProcessing, ProcessRest,
              RoundOver, GatherOver, Destroy, JoinThreads
<1>5. ASSUME NEW t \in Threads,
             \/ ReadTaken(t) \/ ReadCount(t) \/ TryLock(t) \/ CheckCount(t)
             \/ TakeTask(t) \/ Unlock(t) \/ CompleteTask(t) \/ Sleep(t) \/ WakeUp(t)
      PROVE  UNCHANGED picking_tasks
  BY <1>5 DEF ReadTaken, ReadCount, TryLock, CheckCount, TakeTask, Unlock,
              CompleteTask, Sleep, WakeUp
<1>6. CASE Terminated \/ UNCHANGED vars
  BY <1>6 DEF Terminated, vars
<1>. QED BY <1>1, <1>2, <1>3, <1>4, <1>5, <1>6 DEF Next, MainStep, ThreadStep

\* The pool implements the fork-join round GatherMinibatch relies on: every task
\* is worked exactly once, and forgotten only when all of them have been.
THEOREM Refinement == Spec => ForkJoinSpec
<1>1. Init => ForkJoin!JInit
  BY DEF Init, ForkJoin!JInit
<1>2. IInv /\ [Next]_vars => [ForkJoin!JNext]_picking_tasks
  BY StepRefines
<1>. QED BY <1>1, <1>2, Invariance, PTL DEF Spec, ForkJoinSpec, ForkJoin!JSpec
=============================================================================
