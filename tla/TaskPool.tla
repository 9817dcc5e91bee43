------------------------------ MODULE TaskPool ------------------------------
(***************************************************************************)
(* The task threads of one search worker (search/classic/search.{h,cc}).   *)
(* GatherMinibatch works in rounds: PickNodesToExtend splits the descent   *)
(* of the tree among the task threads, then the picked nodes may be        *)
(* processed in parallel as well.  A round starts with ResetTasks and ends *)
(* when WaitForTasks has counted every task as completed.                  *)
(*                                                                         *)
(* The counters are atomics: each of their loads and stores is a step of   *)
(* its own, in the order of the code.  What a thread does under            *)
(* picking_tasks_mutex_ is one step.  A task is reduced to how many times  *)
(* it was worked; its kind is the phase of its round.  The scheduler of    *)
(* the tree walk (which subtrees are worth a task) is a free choice.       *)
(***************************************************************************)
EXTENDS Integers, Sequences, FiniteSets

CONSTANTS
  Threads,     \* task_threads_, task_workers_ of them
  MAX_TASKS,   \* what ResetTasks reserves
  runs_on_cpu  \* backend_attributes_.runs_on_cpu

\* A processing round posts at most one task per thread and, with
\* at most 64 inputs in a computation, fewer than MAX_TASKS.
ASSUME PoolAssumption ==
  /\ IsFiniteSet(Threads) /\ Threads # {}
  /\ MAX_TASKS \in Nat
  /\ Cardinality(Threads) <= MAX_TASKS
  /\ runs_on_cpu \in BOOLEAN

VARIABLES
  task_count, tasks_taken, completed_tasks, \* the atomics of the pool
  task_taking_started,                      \* the spin lock
  exiting,                                  \* exiting_
  picking_tasks,  \* picking_tasks_: how many times each task was worked
  mpc,            \* where the search worker is
  phase,          \* the kind of this round's tasks
  to_post,        \* tasks the processing round has yet to post
  seen,           \* WaitForTasks' local: completed
  tpc,            \* where each task thread is in RunTasks
  nta,            \* RunTasks' local: tasks taken, as last read
  id              \* RunTasks' local: the task taken (from 1)

mainVars == <<mpc, phase, to_post, seen>>
threadVars == <<tpc, nta, id>>
counters == <<task_count, tasks_taken, completed_tasks>>
vars == <<counters, task_taking_started, exiting, picking_tasks, mainVars,
          threadVars>>

Init ==
  /\ task_count = -1
  /\ tasks_taken = 0
  /\ completed_tasks = 0
  /\ task_taking_started = 0
  /\ exiting = FALSE
  /\ picking_tasks = <<>>
  /\ mpc = "outside"
  /\ phase = "gathering"
  /\ to_post = 0
  /\ seen = 0
  /\ tpc = [t \in Threads |-> "look"]
  /\ nta = [t \in Threads |-> 0]
  /\ id = [t \in Threads |-> 0]

\* task_added_.notify_all()
Notified == [t \in Threads |-> IF tpc[t] = "asleep" THEN "awake" ELSE tpc[t]]

-----------------------------------------------------------------------------
(* The search worker.                                                      *)

\* GatherMinibatch calls PickNodesToExtend.
BeginRound ==
  /\ mpc \in {"outside", "gather"}
  /\ mpc' = "resetCount"
  /\ phase' = "gathering"
  /\ UNCHANGED <<counters, task_taking_started, exiting, picking_tasks,
                 to_post, seen, threadVars>>

ResetCount ==
  /\ mpc = "resetCount"
  /\ task_count' = 0
  /\ mpc' = "resetTaken"
  /\ UNCHANGED <<tasks_taken, completed_tasks, task_taking_started, exiting,
                 picking_tasks, phase, to_post, seen, threadVars>>

ResetTaken ==
  /\ mpc = "resetTaken"
  /\ tasks_taken' = 0
  /\ mpc' = "resetCompleted"
  /\ UNCHANGED <<task_count, completed_tasks, task_taking_started, exiting,
                 picking_tasks, phase, to_post, seen, threadVars>>

\* Mutant: the previous round's completions are kept.
ResetCompleted_Kept ==
  /\ mpc = "resetCompleted"
  /\ picking_tasks' = <<>>
  /\ mpc' = IF phase = "gathering" THEN "wake" ELSE "post"
  /\ UNCHANGED <<counters, task_taking_started, exiting, phase, to_post,
                 seen, threadVars>>

ResetCompleted ==
  /\ mpc = "resetCompleted"
  /\ completed_tasks' = 0
  /\ picking_tasks' = <<>>
  /\ mpc' = IF phase = "gathering" THEN "wake" ELSE "post"
  /\ UNCHANGED <<task_count, tasks_taken, task_taking_started, exiting,
                 phase, to_post, seen, threadVars>>

\* PickNodesToExtend wakes the task threads so that they are ready.
WakeRunners ==
  /\ mpc = "wake"
  /\ mpc' = "pick"
  /\ tpc' = IF runs_on_cpu THEN tpc ELSE Notified
  /\ UNCHANGED <<counters, task_taking_started, exiting, picking_tasks,
                 phase, to_post, seen, nta, id>>

\* PickNodesToExtendTask, in the worker or in a task, passes off a subtree.
PassOff ==
  /\ Len(picking_tasks) < MAX_TASKS
  /\ picking_tasks' = Append(picking_tasks, 0)
  /\ task_count' = task_count + 1
  /\ tpc' = Notified
  /\ UNCHANGED <<tasks_taken, completed_tasks, task_taking_started, exiting,
                 mainVars, nta, id>>

SplitMain == mpc = "pick" /\ PassOff

PickDone ==
  /\ mpc = "pick"
  /\ mpc' = "wait"
  /\ UNCHANGED <<counters, task_taking_started, exiting, picking_tasks,
                 phase, to_post, seen, threadVars>>

WaitCompleted ==
  /\ mpc = "wait"
  /\ seen' = completed_tasks
  /\ mpc' = "compare"
  /\ UNCHANGED <<counters, task_taking_started, exiting, picking_tasks,
                 phase, to_post, threadVars>>

\* Mutant: waits for the tasks taken instead of the tasks posted.
WaitCompare_Taken ==
  /\ mpc = "compare"
  /\ mpc' = IF tasks_taken = seen THEN "joined" ELSE "wait"
  /\ UNCHANGED <<counters, task_taking_started, exiting, picking_tasks,
                 phase, to_post, seen, threadVars>>

WaitCompare ==
  /\ mpc = "compare"
  /\ mpc' = IF task_count = seen THEN "joined" ELSE "wait"
  /\ UNCHANGED <<counters, task_taking_started, exiting, picking_tasks,
                 phase, to_post, seen, threadVars>>

\* The results of a gathering round are in minibatch_; its nodes are enough
\* for a processing round, of up to one task per thread.
BeginProcessing ==
  /\ mpc = "joined" /\ phase = "gathering"
  /\ \E k \in 1 .. Cardinality(Threads) : to_post' = k
  /\ phase' = "processing"
  /\ mpc' = "resetCount"
  /\ UNCHANGED <<counters, task_taking_started, exiting, picking_tasks,
                 seen, threadVars>>

\* No notification here: the threads are expected to be spinning.
PostTask ==
  /\ mpc = "post" /\ to_post > 0
  /\ picking_tasks' = Append(picking_tasks, 0)
  /\ task_count' = task_count + 1
  /\ to_post' = to_post - 1
  /\ UNCHANGED <<tasks_taken, completed_tasks, task_taking_started, exiting,
                 mpc, phase, seen, threadVars>>

\* The worker processes the rest of the nodes itself.
ProcessRest ==
  /\ mpc = "post" /\ to_post = 0
  /\ mpc' = "wait"
  /\ UNCHANGED <<counters, task_taking_started, exiting, picking_tasks,
                 phase, to_post, seen, threadVars>>

\* The loop of GatherMinibatch goes on ...
RoundOver ==
  /\ mpc = "joined"
  /\ mpc' = "gather"
  /\ UNCHANGED <<counters, task_taking_started, exiting, picking_tasks,
                 phase, to_post, seen, threadVars>>

\* ... or ends, and ExecuteOneIteration puts the task threads to sleep.
GatherOver ==
  /\ mpc = "gather"
  /\ task_count' = -1
  /\ mpc' = "outside"
  /\ UNCHANGED <<tasks_taken, completed_tasks, task_taking_started, exiting,
                 picking_tasks, phase, to_post, seen, threadVars>>

\* ~SearchWorker; task_count_ is -1 already.
Destroy ==
  /\ mpc = "outside"
  /\ exiting' = TRUE
  /\ tpc' = Notified
  /\ mpc' = "exit"
  /\ UNCHANGED <<counters, task_taking_started, picking_tasks, phase,
                 to_post, seen, nta, id>>

JoinThreads ==
  /\ mpc = "exit" /\ \A t \in Threads : tpc[t] = "gone"
  /\ mpc' = "destroyed"
  /\ UNCHANGED <<counters, task_taking_started, exiting, picking_tasks,
                 phase, to_post, seen, threadVars>>

-----------------------------------------------------------------------------
(* The task threads.                                                       *)

Goto(t, pc) == tpc' = [tpc EXCEPT ![t] = pc]

\* RunTasks reads tasks_taken_ first, without and then with the spin lock.
ReadTaken(t) ==
  /\ tpc[t] \in {"look", "locked"}
  /\ nta' = [nta EXCEPT ![t] = tasks_taken]
  /\ Goto(t, IF tpc[t] = "look" THEN "looked" ELSE "check")
  /\ UNCHANGED <<counters, task_taking_started, exiting, picking_tasks,
                 mainVars, id>>

\* Is there a task to try for, is there none yet (spin), or is it time to sleep?
ReadCount(t) ==
  /\ tpc[t] = "looked"
  /\ Goto(t, CASE nta[t] < task_count -> "tryLock"
               [] nta[t] >= task_count /\ task_count # -1 -> "look"
               [] OTHER -> "sleepy")
  /\ UNCHANGED <<counters, task_taking_started, exiting, picking_tasks,
                 mainVars, nta, id>>

TryLock(t) ==
  /\ tpc[t] = "tryLock"
  /\ task_taking_started' = 1
  /\ Goto(t, IF task_taking_started = 0 THEN "locked" ELSE "look")
  /\ UNCHANGED <<counters, exiting, picking_tasks, mainVars, nta, id>>

\* Mutant: does not test again once it has the spin lock.
CheckCount_Trusting(t) ==
  /\ tpc[t] = "check"
  /\ Goto(t, "take")
  /\ UNCHANGED <<counters, task_taking_started, exiting, picking_tasks,
                 mainVars, nta, id>>

\* With the spin lock held, is there still a task?
CheckCount(t) ==
  /\ tpc[t] = "check"
  /\ Goto(t, IF nta[t] < task_count THEN "take" ELSE "giveUp")
  /\ UNCHANGED <<counters, task_taking_started, exiting, picking_tasks,
                 mainVars, nta, id>>

TakeTask(t) ==
  /\ tpc[t] = "take"
  /\ id' = [id EXCEPT ![t] = tasks_taken + 1]
  /\ tasks_taken' = tasks_taken + 1
  /\ Goto(t, "taken")
  /\ UNCHANGED <<task_count, completed_tasks, task_taking_started, exiting,
                 picking_tasks, mainVars, nta>>

\* Mutant: keeps the spin lock when there was no task left.
Unlock_TakenOnly(t) ==
  /\ tpc[t] \in {"taken", "giveUp"}
  /\ task_taking_started' = IF tpc[t] = "taken" THEN 0 ELSE 1
  /\ Goto(t, IF tpc[t] = "taken" THEN "run" ELSE "look")
  /\ UNCHANGED <<counters, exiting, picking_tasks, mainVars, nta, id>>

Unlock(t) ==
  /\ tpc[t] \in {"taken", "giveUp"}
  /\ task_taking_started' = 0
  /\ Goto(t, IF tpc[t] = "taken" THEN "run" ELSE "look")
  /\ UNCHANGED <<counters, exiting, picking_tasks, mainVars, nta, id>>

SplitTask(t) == tpc[t] = "run" /\ phase = "gathering" /\ PassOff

\* PickNodesToExtendTask or ProcessPickedTask has returned.
RunTask(t) ==
  /\ tpc[t] = "run"
  /\ picking_tasks' = [picking_tasks EXCEPT ![id[t]] = @ + 1]
  /\ Goto(t, "ran")
  /\ UNCHANGED <<counters, task_taking_started, exiting, mainVars, nta, id>>

CompleteTask(t) ==
  /\ tpc[t] = "ran"
  /\ completed_tasks' = completed_tasks + 1
  /\ Goto(t, "look")
  /\ UNCHANGED <<task_count, tasks_taken, task_taking_started, exiting,
                 picking_tasks, mainVars, nta, id>>

\* Mutant: goes to sleep without a look at exiting_.
Sleep_NoExit(t) ==
  /\ tpc[t] = "sleepy"
  /\ Goto(t, IF task_count # -1 THEN "look" ELSE "asleep")
  /\ UNCHANGED <<counters, task_taking_started, exiting, picking_tasks,
                 mainVars, nta, id>>

\* With picking_tasks_mutex_: still nothing to do?
Sleep(t) ==
  /\ tpc[t] = "sleepy"
  /\ Goto(t, CASE task_count # -1 -> "look"
               [] task_count = -1 /\ exiting -> "gone"
               [] OTHER -> "asleep")
  /\ UNCHANGED <<counters, task_taking_started, exiting, picking_tasks,
                 mainVars, nta, id>>

WakeUp(t) ==
  /\ tpc[t] = "awake"
  /\ Goto(t, IF tasks_taken >= task_count /\ exiting THEN "gone" ELSE "look")
  /\ UNCHANGED <<counters, task_taking_started, exiting, picking_tasks,
                 mainVars, nta, id>>

-----------------------------------------------------------------------------
MainStep ==
  \/ BeginRound \/ ResetCount \/ ResetTaken \/ ResetCompleted
  \/ WakeRunners \/ SplitMain \/ PickDone
  \/ WaitCompleted \/ WaitCompare
  \/ BeginProcessing \/ PostTask \/ ProcessRest
  \/ RoundOver \/ GatherOver \/ Destroy \/ JoinThreads

\* What a task thread does of its own accord: it splits its task as it likes,
\* but its steps besides that must happen.
ThreadStep(t) ==
  \/ ReadTaken(t) \/ ReadCount(t) \/ TryLock(t) \/ CheckCount(t)
  \/ TakeTask(t) \/ Unlock(t) \/ RunTask(t) \/ CompleteTask(t)
  \/ Sleep(t) \/ WakeUp(t)

\* The worker is gone, and its threads with it.
Terminated == mpc = "destroyed" /\ UNCHANGED vars

Next ==
  \/ MainStep
  \/ \E t \in Threads : ThreadStep(t) \/ SplitTask(t)
  \/ Terminated

Spec == Init /\ [][Next]_vars

\* Every thread is scheduled; the walk of a subtree ends.
Fairness ==
  /\ WF_vars(MainStep)
  /\ \A t \in Threads : WF_vars(ThreadStep(t))
FairSpec == Spec /\ Fairness

-----------------------------------------------------------------------------
(* Properties.                                                             *)

Holding(t) == tpc[t] \in {"locked", "check", "take", "taken", "giveUp"}
Working(t) == tpc[t] \in {"taken", "run", "ran"}

\* A task belongs to one thread: no two threads work on the same task, and a
\* thread works on a task of this round that no one has worked before.  This
\* is what the spin lock of RunTasks and its second test are for; the vector
\* of tasks is read by the threads while the worker adds to it, so it must
\* stay within the size ResetTasks reserved.
TaskOwned ==
  /\ \A t \in Threads : Working(t) =>
       /\ id[t] \in DOMAIN picking_tasks
       /\ tpc[t] # "ran" => picking_tasks[id[t]] = 0
       /\ \A u \in Threads \ {t} : Working(u) => id[u] # id[t]
  /\ Len(picking_tasks) <= MAX_TASKS

\* The task threads use the tree under the nodes_mutex_ of the search worker,
\* and minibatch_ and picking_tasks_ without any lock: when WaitForTasks has
\* returned, and until the next round is open, no task thread is at work and
\* nothing is left to take.
JoinedMeansDone ==
  mpc \in {"joined", "gather", "outside", "exit"} =>
    \A t \in Threads : ~Working(t) /\ tpc[t] # "take"

\* Every task of a round is worked exactly once, and the tasks are cleared
\* only when all of them have been: the pool implements a fork-join round.
ForkJoin == INSTANCE ForkJoin WITH parts <- picking_tasks
ForkJoinSpec == ForkJoin!JSpec

\* WaitForTasks "spin lock, other tasks should be done soon" (search.cc:1540):
\* the worker that waits for its tasks gets past them.
TasksDoneSoon == mpc = "wait" ~> mpc = "joined"

\* ~SearchWorker, which joins the task threads, returns: none of them misses
\* the notification and sleeps on.
DestructorReturns == mpc = "exit" ~> mpc = "destroyed"
=============================================================================
