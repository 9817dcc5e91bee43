--------------------------- MODULE SearchLifecycle ---------------------------
(***************************************************************************)
(* The threads of one search (search/classic/search.{h,cc}): the workers,  *)
(* which iterate until stop_ is set, and the watchdog, which stays until   *)
(* the bestmove has been sent, while another thread may call Stop or Abort *)
(* at any time.                                                            *)
(*                                                                         *)
(* The tree is reduced to the playouts done and to whether its root has    *)
(* been visited.  What a thread does under nodes_mutex_ or counters_mutex_ *)
(* is one step.  At most max_concurrent_searchers workers gather at a time *)
(* (pending_searchers_).  The stopper is a playout limit.                  *)
(***************************************************************************)
EXTENDS Naturals, FiniteSets

CONSTANTS
  Workers,
  MaxConcurrentSearchers, \* 0: no limit
  PlayoutLimit            \* the stopper fires at so many; playouts count to it

Watchdog == "watchdog"

ASSUME LifecycleAssumption ==
  /\ IsFiniteSet(Workers) /\ Workers # {} /\ Watchdog \notin Workers
  /\ MaxConcurrentSearchers \in Nat
  /\ PlayoutLimit \in Nat \ {0}

Observers == Workers \cup {Watchdog}  \* threads that call MaybeTriggerStop

VARIABLES
  stop,              \* stop_
  bestmove_is_sent, ok_to_respond_bestmove,
  sent,              \* bestmove lines given to the responder
  aborted,           \* Abort() has silenced the search
  playouts,          \* total_playouts_
  initial_visits,    \* initial_visits_, 0 or 1
  pending_searchers,
  pc,                \* where each thread is
  batch,             \* whether a worker's minibatch holds anything to back up
  stats              \* IterationStats of each thread: playouts when taken

searchVars == <<stop, bestmove_is_sent, ok_to_respond_bestmove, sent, aborted>>
vars == <<searchVars, playouts, initial_visits, pending_searchers, pc, batch,
          stats>>

RootVisits == playouts + initial_visits

Init ==
  /\ stop = FALSE /\ bestmove_is_sent = FALSE
  /\ ok_to_respond_bestmove \in BOOLEAN  \* neither infinite nor ponder
  /\ sent = 0 /\ aborted = FALSE
  /\ playouts = 0 /\ initial_visits \in {0, 1}
  /\ pending_searchers = MaxConcurrentSearchers
  /\ pc = [x \in Observers |-> IF x = Watchdog THEN "stats" ELSE "iterate"]
  /\ batch = [w \in Workers |-> FALSE]
  /\ stats = [x \in Observers |-> 0]

Goto(x, to) == pc' = [pc EXCEPT ![x] = to]

-----------------------------------------------------------------------------
(* A worker: ExecuteOneIteration.                                          *)

\* Mutant: a stopped search needs no further iteration, not even its first.
SkipOrGo_Early(w) ==
  /\ pc[w] = "iterate"
  /\ Goto(w, IF MaxConcurrentSearchers # 0 /\ stop THEN "loop" ELSE "acquire")
  /\ UNCHANGED <<searchVars, playouts, initial_visits, pending_searchers,
                 batch, stats>>

\* A search that was stopped and has a playout needs no further iteration.
SkipOrGo(w) ==
  /\ pc[w] = "iterate"
  /\ Goto(w, IF MaxConcurrentSearchers # 0 /\ stop /\ RootVisits > 0
             THEN "loop" ELSE "acquire")
  /\ UNCHANGED <<searchVars, playouts, initial_visits, pending_searchers,
                 batch, stats>>

\* Spins, back to the test of stop_, while there is no slot to take.
AcquireSearcher(w) ==
  /\ pc[w] = "acquire"
  /\ IF MaxConcurrentSearchers # 0 /\ pending_searchers = 0
     THEN Goto(w, "iterate") /\ UNCHANGED pending_searchers
     ELSE /\ Goto(w, "gather")
          /\ pending_searchers' = IF MaxConcurrentSearchers # 0
                                  THEN pending_searchers - 1
                                  ELSE pending_searchers
  /\ UNCHANGED <<searchVars, playouts, initial_visits, batch, stats>>

\* A worker comes back with nothing but collisions only if other workers have
\* visits in flight.
GatherMinibatch(w) ==
  /\ pc[w] = "gather"
  /\ \E found \in BOOLEAN :
       /\ found \/ \E v \in Workers \ {w} : batch[v]
       /\ ~(found /\ RootVisits = 0 /\ \E v \in Workers \ {w} : batch[v])
       /\ batch' = [batch EXCEPT ![w] = found]
  /\ Goto(w, "gathered")
  /\ UNCHANGED <<searchVars, playouts, initial_visits, pending_searchers,
                 stats>>

\* Mutant: a stopped search no longer gives its slot back.
ReleaseSearcher_Active(w) ==
  /\ pc[w] = "gathered"
  /\ pending_searchers' = IF MaxConcurrentSearchers # 0 /\ ~stop
                          THEN pending_searchers + 1 ELSE pending_searchers
  /\ Goto(w, "evaluate")
  /\ UNCHANGED <<searchVars, playouts, initial_visits, batch, stats>>

\* Before RunNNComputation, which may block in a shared backend.
ReleaseSearcher(w) ==
  /\ pc[w] = "gathered"
  /\ pending_searchers' = IF MaxConcurrentSearchers # 0
                          THEN pending_searchers + 1 ELSE pending_searchers
  /\ Goto(w, "evaluate")
  /\ UNCHANGED <<searchVars, playouts, initial_visits, batch, stats>>

\* RunNNComputation, FetchMinibatchResults and DoBackupUpdate.
BackupUpdate(w) ==
  /\ pc[w] = "evaluate"
  /\ playouts' = IF batch[w] /\ playouts < PlayoutLimit
                 THEN playouts + 1 ELSE playouts
  /\ batch' = [batch EXCEPT ![w] = FALSE]
  /\ Goto(w, "stats")
  /\ UNCHANGED <<searchVars, initial_visits, pending_searchers, stats>>

\* RunBlocking tests IsSearchActive after the iteration.
EndIteration(w) ==
  /\ pc[w] = "loop"
  /\ Goto(w, IF stop THEN "done" ELSE "iterate")
  /\ UNCHANGED <<searchVars, playouts, initial_visits, pending_searchers,
                 batch, stats>>

-----------------------------------------------------------------------------
(* Both kinds of thread: UpdateCounters and the watchdog's loop.           *)

PopulateCommonIterationStats(x) ==
  /\ pc[x] = "stats"
  /\ stats' = [stats EXCEPT ![x] = playouts]
  /\ Goto(x, "trigger")
  /\ UNCHANGED <<searchVars, playouts, initial_visits, pending_searchers,
                 batch>>

ShouldStop(x) == stats[x] >= PlayoutLimit

\* Mutant: only the thread that stops the search answers.
MaybeTriggerStop_Own(x) ==
  /\ pc[x] = "trigger"
  /\ IF bestmove_is_sent \/ stats[x] + initial_visits = 0 \/ stop \/ ~ShouldStop(x)
     THEN UNCHANGED searchVars
     ELSE /\ stop' = TRUE
          /\ IF ok_to_respond_bestmove
             THEN sent' = sent + 1 /\ bestmove_is_sent' = TRUE
             ELSE UNCHANGED <<sent, bestmove_is_sent>>
          /\ UNCHANGED <<ok_to_respond_bestmove, aborted>>
  /\ Goto(x, IF x = Watchdog THEN "watch" ELSE "loop")
  /\ UNCHANGED <<playouts, initial_visits, pending_searchers, batch, stats>>

\* Not before the root is expanded; the first to see the stop answers.
MaybeTriggerStop(x) ==
  /\ pc[x] = "trigger"
  /\ IF bestmove_is_sent \/ stats[x] + initial_visits = 0
     THEN UNCHANGED searchVars
     ELSE /\ stop' = (stop \/ ShouldStop(x))
          /\ IF stop' /\ ok_to_respond_bestmove
             THEN /\ sent' = sent + 1
                  /\ bestmove_is_sent' = TRUE
             ELSE UNCHANGED <<sent, bestmove_is_sent>>
          /\ UNCHANGED <<ok_to_respond_bestmove, aborted>>
  /\ Goto(x, IF x = Watchdog THEN "watch" ELSE "loop")
  /\ UNCHANGED <<playouts, initial_visits, pending_searchers, batch, stats>>

\* Mutant: the watchdog leaves with the workers.
Watch_Stopped ==
  /\ pc[Watchdog] = "watch"
  /\ Goto(Watchdog, IF stop THEN "done" ELSE "stats")
  /\ UNCHANGED <<searchVars, playouts, initial_visits, pending_searchers,
                 batch, stats>>

\* The watchdog waits for stop_, 100 ms at most, unless the bestmove is sent.
Watch ==
  /\ pc[Watchdog] = "watch"
  /\ Goto(Watchdog, IF bestmove_is_sent THEN "done" ELSE "stats")
  /\ UNCHANGED <<searchVars, playouts, initial_visits, pending_searchers,
                 batch, stats>>

-----------------------------------------------------------------------------
(* Another thread.  Once every thread of the search is done these calls    *)
(* change nothing its users see, and are left out.                         *)

Returned == \A x \in Observers : pc[x] = "done"

Stop ==
  /\ ~Returned
  /\ ok_to_respond_bestmove' = TRUE
  /\ stop' = TRUE
  /\ UNCHANGED <<bestmove_is_sent, sent, aborted, playouts, initial_visits,
                 pending_searchers, pc, batch, stats>>

\* Mutant: silences a search that has answered already.
Abort_Always ==
  /\ ~Returned
  /\ bestmove_is_sent' = TRUE
  /\ stop' = TRUE
  /\ aborted' = TRUE
  /\ UNCHANGED <<ok_to_respond_bestmove, sent, playouts, initial_visits,
                 pending_searchers, pc, batch, stats>>

Abort ==
  /\ ~Returned
  /\ ~stop \/ (~bestmove_is_sent /\ ~ok_to_respond_bestmove)
  /\ bestmove_is_sent' = TRUE
  /\ stop' = TRUE
  /\ aborted' = TRUE
  /\ UNCHANGED <<ok_to_respond_bestmove, sent, playouts, initial_visits,
                 pending_searchers, pc, batch, stats>>

-----------------------------------------------------------------------------
WorkerStep(w) ==
  \/ SkipOrGo(w) \/ AcquireSearcher(w) \/ GatherMinibatch(w)
  \/ ReleaseSearcher(w) \/ BackupUpdate(w)
  \/ PopulateCommonIterationStats(w) \/ MaybeTriggerStop(w)
  \/ EndIteration(w)

WatchdogStep ==
  \/ PopulateCommonIterationStats(Watchdog) \/ MaybeTriggerStop(Watchdog)
  \/ Watch

\* Wait() has joined every thread.
Terminated == Returned /\ UNCHANGED vars

Next ==
  \/ \E w \in Workers : WorkerStep(w)
  \/ WatchdogStep \/ Stop \/ Abort \/ Terminated

Spec == Init /\ [][Next]_vars

\* Every thread of the search is scheduled; no one has to call Stop or Abort.
Fairness == WF_vars(WatchdogStep) /\ \A w \in Workers : WF_vars(WorkerStep(w))
FairSpec == Spec /\ Fairness

-----------------------------------------------------------------------------
(* Properties.                                                             *)

\* pending_searchers_ never lets more than MaxConcurrentSearchers workers
\* gather, and gives every slot back, also when iterations are skipped.
SearcherLedger ==
  MaxConcurrentSearchers # 0 =>
    pending_searchers +
      Cardinality({w \in Workers : pc[w] \in {"gather", "gathered"}})
        = MaxConcurrentSearchers

\* "at least one iteration" (search.cc:1192-1193): however early Stop or Abort comes,
\* when every worker is done the root has been visited, so that its best move
\* can be asked for.
RootIsVisited ==
  (\A w \in Workers : pc[w] = "done") => RootVisits > 0

\* A bestmove is a move of a visited root, it is not sent by an infinite or
\* ponder search before Stop, and bestmove_is_sent_ tells who silenced it.
AnswerIsDue ==
  /\ sent = 1 => stop /\ ok_to_respond_bestmove /\ RootVisits > 0 /\ ~aborted
  /\ bestmove_is_sent <=> (sent = 1 \/ aborted)

\* One bestmove or silence, then RunBlocking returns.
Contract == INSTANCE SearchContract WITH
  outcome <- IF sent > 0 THEN "answered"
             ELSE IF aborted THEN "silenced"
             ELSE IF stop THEN "halted" ELSE "searching",
  returned <- Returned
ContractSpec == Contract!CSpec

\* A search that may answer, or was aborted, ends: its threads all exit.
SearchEnds == (ok_to_respond_bestmove \/ aborted) ~> Returned
=============================================================================
