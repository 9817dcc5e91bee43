--------------------------- MODULE BatchingBackend ---------------------------
(***************************************************************************)
(* The aggregation layer lczero_chess/neural/batching_backend.{h,cc}:      *)
(* every search worker (a producer) puts the leaves of its minibatch into  *)
(* one of two shared buffers, and one server thread runs the network on a  *)
(* whole buffer while the producers fill the other one.                    *)
(*                                                                         *)
(* A producer owns one BatchingComputation at a time, so producer and      *)
(* Group are the same model value.  Several task threads of one producer   *)
(* may add inputs to its computation at once.                              *)
(*                                                                         *)
(* Each action is what one thread does while it holds mu_ without waiting, *)
(* or one step it takes without mu_.  A thread that waits on a condition   *)
(* variable is "asleep" until a notification makes it test its predicate   *)
(* again.  Spurious wakeups are not modelled: every wait here re-tests its *)
(* predicate, and they would only hide a lost notification.                *)
(*                                                                         *)
(* A buffer is the sequence of the groups whose leaves it holds: entry s   *)
(* is the EvalResultPtr the s-th AddInput left in the wrapped computation. *)
(* Slots count from 1.  Time is abstracted to "the aggregation window may  *)
(* elapse whenever the server waits with a deadline".                      *)
(***************************************************************************)
EXTENDS Integers, Sequences, FiniteSets

CONSTANTS
  Groups,             \* search workers, each with the computation it owns
  Threads,            \* threads that call AddInput
  GroupOf,            \* the worker a thread gathers for
  NoGroup,            \* nullptr in slot_owner_
  MaxBatchSize,       \* slots of one buffer
  MinibatchSize,      \* bound: inputs one computation receives
  expected_producers, \* constructor arguments
  timeout_us

ASSUME BackendAssumption ==
  /\ IsFiniteSet(Groups)
  /\ NoGroup \notin Groups
  /\ GroupOf \in [Threads -> Groups]
  /\ MaxBatchSize \in Nat \ {0}
  /\ MinibatchSize \in Nat \ {0}
  /\ expected_producers \in Int
  /\ timeout_us \in Int

VARIABLES
  bufs,             \* bufs_: the inputs each shared computation holds
  fill,             \* fill_
  slot_owner,       \* slot_owner_
  waiting,          \* waiting_
  active_producers, \* active_producers_
  have_pending,     \* have_pending_
  stop,             \* stop_
  remaining,        \* Group::remaining
  in_flush,         \* Group::in_flush
  used,             \* BatchingComputation::used_
  tpc,              \* where each thread is in AddInput
  gpc,              \* where each producer is
  spc,              \* where the server is in ServerLoop
  run, n            \* ServerLoop's locals

serverVars == <<spc, run, n>>
groupVars == <<remaining, in_flush>>
vars == <<bufs, fill, slot_owner, waiting, active_producers, have_pending,
          stop, remaining, in_flush, used, tpc, gpc, spc, run, n>>

Buffers == {0, 1}
Slots == 1 .. MaxBatchSize

\* The constructor's clamps of its two arguments.
ExpectedProducers == IF expected_producers < 0 THEN 1 ELSE expected_producers
TimeoutUs == IF timeout_us < 0 THEN 0 ELSE timeout_us
Dynamic == ExpectedProducers = 0

\* The blocked producers it takes to launch a buffer that is not full.
Quota == IF Dynamic THEN active_producers ELSE ExpectedProducers

ThreadsOf(g) == {t \in Threads : GroupOf[t] = g}

\* Mutant: a server that waits for a first leaf is not told of a blocked producer.
NotifyServer_InnerOnly == spc' = IF spc = "innerWait" THEN "inner" ELSE spc

\* Notifications of cv_server_ and cv_space_.
NotifyServer ==
  spc' = CASE spc = "outerWait" -> "outer"
           [] spc = "innerWait" -> "inner"
           [] OTHER -> spc
NotifySpace ==
  tpc' = [t \in Threads |-> IF tpc[t] = "asleep" THEN "trying" ELSE tpc[t]]

Init ==
  /\ bufs = [b \in Buffers |-> <<>>]
  /\ fill = 0
  /\ slot_owner = [b \in Buffers |-> [s \in Slots |-> NoGroup]]
  /\ waiting = 0
  /\ active_producers = 0
  /\ have_pending = FALSE
  /\ stop = FALSE
  /\ remaining = [g \in Groups |-> 0]
  /\ in_flush = [g \in Groups |-> FALSE]
  /\ used = [g \in Groups |-> 0]
  /\ tpc = [t \in Threads |-> "idle"]
  /\ gpc = [g \in Groups |-> "out"]
  /\ spc = "outer"
  /\ run = 0
  /\ n = 0

-----------------------------------------------------------------------------
(* Producers.                                                              *)

\* A search that uses this backend begins.  Counted in dynamic mode only.
ProducerEnter(g) ==
  /\ gpc[g] = "out" /\ ~stop
  /\ gpc' = [gpc EXCEPT ![g] = "searching"]
  /\ active_producers' = IF Dynamic THEN active_producers + 1 ELSE active_producers
  /\ UNCHANGED <<bufs, fill, slot_owner, waiting, have_pending, stop,
                 groupVars, used, tpc, serverVars>>

\* The search ends, between two minibatches.
ProducerLeave(g) ==
  /\ gpc[g] = "searching"
  /\ gpc' = [gpc EXCEPT ![g] = "out"]
  /\ IF Dynamic
     THEN /\ active_producers' = active_producers - 1
          /\ NotifyServer
     ELSE UNCHANGED <<active_producers, spc>>
  /\ UNCHANGED <<bufs, fill, slot_owner, waiting, have_pending, stop,
                 groupVars, used, tpc, run, n>>

\* A new minibatch: the old computation, and its Group, are destroyed.
CreateComputation(g) ==
  /\ gpc[g] = "searching"
  /\ gpc' = [gpc EXCEPT ![g] = "gathering"]
  /\ remaining' = [remaining EXCEPT ![g] = 0]
  /\ in_flush' = [in_flush EXCEPT ![g] = FALSE]
  /\ used' = [used EXCEPT ![g] = 0]
  /\ UNCHANGED <<bufs, fill, slot_owner, waiting, active_producers,
                 have_pending, stop, tpc, serverVars>>

\* A thread calls AddInput and asks for mu_ in AddSlot.
AddInput(t) ==
  LET g == GroupOf[t]
  IN  /\ gpc[g] = "gathering" /\ tpc[t] = "idle"
      /\ used[g] + Cardinality({u \in ThreadsOf(g) : tpc[u] # "idle"}) < MinibatchSize
      /\ tpc' = [tpc EXCEPT ![t] = "trying"]
      /\ UNCHANGED <<bufs, fill, slot_owner, waiting, active_producers,
                     have_pending, stop, groupVars, used, gpc, serverVars>>

\* AddSlot finds the filling buffer full and waits on cv_space_.  Its exit on
\* stop_ is left out: the destructor runs when no producer is left (Destroy).
AddSlotWait(t) ==
  /\ tpc[t] = "trying"
  /\ Len(bufs[fill]) >= MaxBatchSize
  /\ tpc' = [tpc EXCEPT ![t] = "asleep"]
  /\ UNCHANGED <<bufs, fill, slot_owner, waiting, active_producers,
                 have_pending, stop, groupVars, used, gpc, serverVars>>

\* Mutant: one slot too late.
TellIfFull_OffByOne(size) ==
  IF size > MaxBatchSize THEN NotifyServer ELSE UNCHANGED spc

\* The server is told only of a buffer that is full now.
TellIfFull(size) ==
  IF size >= MaxBatchSize THEN NotifyServer ELSE UNCHANGED spc

\* AddSlot takes the next slot of the filling buffer for the thread's group.
AddSlot(t) ==
  LET g == GroupOf[t]
      slot == Len(bufs[fill]) + 1
  IN  /\ tpc[t] = "trying"
      /\ Len(bufs[fill]) < MaxBatchSize
      /\ bufs' = [bufs EXCEPT ![fill] = Append(@, g)]
      /\ slot_owner' = [slot_owner EXCEPT ![fill][slot] = g]
      /\ remaining' = [remaining EXCEPT ![g] = @ + 1]
      /\ have_pending' = TRUE
      /\ tpc' = [tpc EXCEPT ![t] = "added"]
      /\ TellIfFull(slot)
      /\ UNCHANGED <<fill, waiting, active_producers, stop, in_flush, used,
                     gpc, run, n>>

\* used_ is incremented after AddSlot has released mu_.
CountInput(t) ==
  /\ tpc[t] = "added"
  /\ tpc' = [tpc EXCEPT ![t] = "idle"]
  /\ used' = [used EXCEPT ![GroupOf[t]] = @ + 1]
  /\ UNCHANGED <<bufs, fill, slot_owner, waiting, active_producers,
                 have_pending, stop, groupVars, gpc, serverVars>>

\* Mutant: ComputeBlocking does not wait for the task threads.
Gathered_NoJoin(g) == gpc[g] = "gathering"

\* The search joins its task threads before it calls ComputeBlocking.
Gathered(g) ==
  gpc[g] = "gathering" /\ \A t \in ThreadsOf(g) : tpc[t] = "idle"

\* ComputeBlocking of an empty computation, or Flush of a group whose slots
\* were all evaluated before it asked.
ComputeNothing(g) ==
  /\ Gathered(g)
  /\ used[g] = 0 \/ remaining[g] = 0
  /\ gpc' = [gpc EXCEPT ![g] = "searching"]
  /\ used' = [used EXCEPT ![g] = 0]
  /\ UNCHANGED <<bufs, fill, slot_owner, waiting, active_producers,
                 have_pending, stop, groupVars, tpc, serverVars>>

\* Flush counts the producer as blocked, tells the server and waits.
FlushWait(g) ==
  /\ Gathered(g)
  /\ used[g] # 0 /\ remaining[g] # 0
  /\ in_flush' = [in_flush EXCEPT ![g] = TRUE]
  /\ waiting' = waiting + 1
  /\ gpc' = [gpc EXCEPT ![g] = "asleep"]
  /\ NotifyServer
  /\ UNCHANGED <<bufs, fill, slot_owner, active_producers, have_pending,
                 stop, remaining, used, tpc, run, n>>

\* cv_done_ was notified for another group.
FlushWaitAgain(g) ==
  /\ gpc[g] = "woken"
  /\ remaining[g] # 0
  /\ gpc' = [gpc EXCEPT ![g] = "asleep"]
  /\ UNCHANGED <<bufs, fill, slot_owner, waiting, active_producers,
                 have_pending, stop, groupVars, used, tpc, serverVars>>

\* Flush and ComputeBlocking return: the search reads its results next.
FlushReturn(g) ==
  /\ gpc[g] = "woken"
  /\ remaining[g] = 0
  /\ in_flush' = [in_flush EXCEPT ![g] = FALSE]
  /\ used' = [used EXCEPT ![g] = 0]
  /\ gpc' = [gpc EXCEPT ![g] = "searching"]
  /\ UNCHANGED <<bufs, fill, slot_owner, waiting, active_producers,
                 have_pending, stop, remaining, tpc, serverVars>>

\* The destructor, once every search that used the backend has ended.
Destroy ==
  /\ ~stop
  /\ \A g \in Groups : gpc[g] = "out"
  /\ stop' = TRUE
  /\ NotifyServer
  /\ UNCHANGED <<bufs, fill, slot_owner, waiting, active_producers,
                 have_pending, groupVars, used, tpc, gpc, run, n>>

-----------------------------------------------------------------------------
(* The server.                                                             *)

Awake == spc \in {"outer", "inner"}

\* Nothing more can arrive in time, or the caller asked for no window.
LaunchDue ==
  \/ Len(bufs[fill]) >= MaxBatchSize
  \/ waiting >= Quota
  \/ TimeoutUs <= 0

\* Mutant: the window of the batch that is launched stays open.
Launch_WindowLeftOpen ==
  /\ run' = fill
  /\ n' = Len(bufs[fill])
  /\ fill' = 1 - fill
  /\ NotifySpace
  /\ spc' = "running"
  /\ UNCHANGED <<bufs, slot_owner, waiting, active_producers, have_pending,
                 stop, groupVars, used, gpc>>

\* Swap the buffers, wake the threads that wait for room, release mu_.
Launch ==
  /\ run' = fill
  /\ n' = Len(bufs[fill])
  /\ have_pending' = FALSE
  /\ fill' = 1 - fill
  /\ NotifySpace
  /\ spc' = "running"
  /\ UNCHANGED <<bufs, slot_owner, waiting, active_producers, stop,
                 groupVars, used, gpc>>

ServerExit ==
  /\ Awake /\ stop
  /\ spc' = "exited"
  /\ UNCHANGED <<bufs, fill, slot_owner, waiting, active_producers,
                 have_pending, stop, groupVars, used, tpc, gpc, run, n>>

ServerSleep ==
  /\ Awake /\ ~stop
  /\ bufs[fill] = <<>>
  /\ spc' = "outerWait"
  /\ UNCHANGED <<bufs, fill, slot_owner, waiting, active_producers,
                 have_pending, stop, groupVars, used, tpc, gpc, run, n>>

ServerWaitForMore ==
  /\ Awake /\ ~stop
  /\ bufs[fill] # <<>> /\ ~LaunchDue
  /\ spc' = "innerWait"
  /\ UNCHANGED <<bufs, fill, slot_owner, waiting, active_producers,
                 have_pending, stop, groupVars, used, tpc, gpc, run, n>>

ServerLaunch ==
  /\ Awake /\ ~stop
  /\ bufs[fill] # <<>> /\ LaunchDue
  /\ Launch

\* wait_until reaches the deadline.
ServerTimeout ==
  /\ spc = "innerWait" /\ ~stop
  /\ Launch

\* The wrapped ComputeBlocking writes every result and empties the buffer.
\* mu_ is not held.
ServerCompute ==
  /\ spc = "running"
  /\ bufs' = [bufs EXCEPT ![run] = <<>>]
  /\ spc' = "ran"
  /\ UNCHANGED <<fill, slot_owner, waiting, active_producers, have_pending,
                 stop, groupVars, used, tpc, gpc, run, n>>

\* The slots, as <<buffer, index>>, that carry group g.
Owned(g) == {p \in Buffers \X Slots : slot_owner[p[1]][p[2]] = g}

\* Mutants: the last slot is skipped; fill_ is read again instead of run.
RanFor_SkipLast(g) == {p \in Owned(g) : p[1] = run /\ p[2] < n}
RanFor_OtherBuffer(g) == {p \in Owned(g) : p[1] = fill /\ p[2] <= n}

\* Those of the buffer that ran.
RanFor(g) == {p \in Owned(g) : p[1] = run /\ p[2] <= n}

\* Mutants: a group that still gathers is uncounted; a group is uncounted at
\* its first evaluated slot.
Released_NotInFlush ==
  {g \in Groups : RanFor(g) # {} /\ remaining[g] = Cardinality(RanFor(g))}
Released_FirstSlot == {g \in Groups : RanFor(g) # {} /\ in_flush[g]}

\* Groups in Flush whose last slot was in the buffer that ran.
Released ==
  {g \in Groups : /\ RanFor(g) # {}
                  /\ remaining[g] = Cardinality(RanFor(g))
                  /\ in_flush[g]}

\* With mu_ again: uncount every slot, release the groups that are done.
ServerDeliver ==
  /\ spc = "ran"
  /\ slot_owner' = [slot_owner EXCEPT ![run] =
                      [s \in Slots |-> IF s <= n THEN NoGroup ELSE @[s]]]
  /\ remaining' = [g \in Groups |-> remaining[g] - Cardinality(RanFor(g))]
  /\ waiting' = waiting - Cardinality(Released)
  /\ gpc' = [g \in Groups |->
               IF Released # {} /\ gpc[g] = "asleep" THEN "woken" ELSE gpc[g]]
  /\ NotifySpace
  /\ spc' = "outer"
  /\ UNCHANGED <<bufs, fill, active_producers, have_pending, stop, in_flush,
                 used, run, n>>

-----------------------------------------------------------------------------
Producer(g) ==
  \/ ProducerEnter(g) \/ ProducerLeave(g) \/ CreateComputation(g)
  \/ ComputeNothing(g) \/ FlushWait(g) \/ FlushWaitAgain(g) \/ FlushReturn(g)

Thread(t) == AddInput(t) \/ AddSlotWait(t) \/ AddSlot(t) \/ CountInput(t)

Server ==
  \/ ServerExit \/ ServerSleep \/ ServerWaitForMore \/ ServerLaunch
  \/ ServerTimeout \/ ServerCompute \/ ServerDeliver

\* The server thread has been joined.
Terminated == spc = "exited" /\ UNCHANGED vars

Next ==
  \/ \E g \in Groups : Producer(g)
  \/ \E t \in Threads : Thread(t)
  \/ Destroy
  \/ Server
  \/ Terminated

Spec == Init /\ [][Next]_vars

-----------------------------------------------------------------------------
(* Fairness.  The server and the producers are threads of the process, so  *)
(* a step one of them can take inside AddInput, ComputeBlocking or         *)
(* ServerLoop is taken in the end.  The deadline is a fixed point in time  *)
(* (first_pending_ + timeout_us_), so a server that comes back to wait     *)
(* again and again finds it passed: strong fairness.  Nothing makes a      *)
(* search begin, go on gathering or end.                                   *)

Fairness ==
  /\ WF_vars(Server)
  /\ SF_vars(ServerTimeout)
  /\ \A t \in Threads : WF_vars(AddSlotWait(t) \/ AddSlot(t) \/ CountInput(t))
  /\ \A g \in Groups : WF_vars(ComputeNothing(g) \/ FlushWait(g)
                               \/ FlushWaitAgain(g) \/ FlushReturn(g))

FairSpec == Spec /\ Fairness

-----------------------------------------------------------------------------
(* Correctness.                                                            *)

TypeOK ==
  /\ bufs \in [Buffers -> Seq(Groups)]
  /\ \A b \in Buffers : Len(bufs[b]) <= MaxBatchSize
  /\ fill \in Buffers
  /\ slot_owner \in [Buffers -> [Slots -> Groups \cup {NoGroup}]]
  /\ waiting \in Nat
  /\ active_producers \in Nat
  /\ have_pending \in BOOLEAN
  /\ stop \in BOOLEAN
  /\ remaining \in [Groups -> Nat]
  /\ in_flush \in [Groups -> BOOLEAN]
  /\ used \in [Groups -> Nat]
  /\ tpc \in [Threads -> {"idle", "trying", "asleep", "added"}]
  /\ gpc \in [Groups -> {"out", "searching", "gathering", "asleep", "woken"}]
  /\ spc \in {"outer", "inner", "outerWait", "innerWait", "running", "ran", "exited"}
  /\ run \in Buffers
  /\ n \in 0 .. MaxBatchSize

\* The inputs of g that no Run has evaluated: their EvalResultPtr will still
\* be written through.
Outstanding(g) ==
  {p \in Buffers \X Slots : p[2] <= Len(bufs[p[1]]) /\ bufs[p[1]][p[2]] = g}

\* A search that is not inside AddInput or ComputeBlocking has no input under
\* evaluation and is no slot's owner: its minibatch, its nodes and its Group
\* may be freed (the server writes through both).
NoDangling ==
  \A g \in Groups : gpc[g] \in {"out", "searching"} =>
    Outstanding(g) = {} /\ Owned(g) = {}

\* remaining counts exactly the slots that carry the group, in both buffers,
\* so a group whose slots span two server rounds is released by the second.
SlotLedger == \A g \in Groups : remaining[g] = Cardinality(Owned(g))

\* waiting_ is the number of producers in Flush with slots still pending,
\* never one that was just released and will submit again soon.
WaitingCount ==
  waiting = Cardinality({g \in Groups : in_flush[g] /\ remaining[g] > 0})

\* The aggregation window is open exactly while the filling buffer holds
\* leaves, so a deadline is never one of an earlier batch.
WindowOpen == have_pending = (bufs[fill] # <<>>)

\* Every group in Flush is released.
FlushReturns == \A g \in Groups : gpc[g] = "asleep" ~> gpc[g] = "searching"

\* A full buffer is taken off the producers' hands, although AddSlot told the
\* server nothing of the leaves that filled it before the last one and no
\* producer may reach Flush before there is room.  (Which of the threads that
\* wait gets the room is up to the mutex.)
RoomComes == Len(bufs[fill]) >= MaxBatchSize ~> Len(bufs[fill]) < MaxBatchSize

\* The service this layer implements: a request is outstanding until the Run
\* of its slot; a producer in Flush waits.
Service ==
  INSTANCE EvalService WITH
    Tickets <- Buffers \X Slots,
    pending <- [g \in Groups |-> Outstanding(g)],
    phase <- [g \in Groups |->
                IF gpc[g] \in {"asleep", "woken"} THEN "waiting" ELSE gpc[g]]

ServiceSpec == Service!SSpec
=============================================================================
