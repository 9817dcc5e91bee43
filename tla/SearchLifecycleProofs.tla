------------------------ MODULE SearchLifecycleProofs ------------------------
(***************************************************************************)
(* Proofs about SearchLifecycle for any number of workers, any limit of    *)
(* concurrent searchers and any playout limit.                             *)
(*                                                                         *)
(* RootIsVisited needs to know who will visit the root while nobody has:   *)
(* a worker comes back from gathering with nothing only if another holds   *)
(* something to back up, and that one cannot leave before it did           *)
(* (SomebodyWill).  AnswerIsDue needs that the counts a thread decides on  *)
(* were true once (StatsLag).                                              *)
(***************************************************************************)
EXTENDS SearchLifecycle, FiniteSetTheorems, TLAPS

WorkerPlaces == {"iterate", "acquire", "gather", "gathered", "evaluate", "stats",
                 "trigger", "loop", "done"}
WatchdogPlaces == {"stats", "trigger", "watch", "done"}
Searching == {w \in Workers : pc[w] \in {"gather", "gathered"}}

TypeOK ==
  /\ stop \in BOOLEAN /\ bestmove_is_sent \in BOOLEAN
  /\ ok_to_respond_bestmove \in BOOLEAN /\ aborted \in BOOLEAN
  /\ sent \in {0, 1}
  /\ playouts \in Nat /\ initial_visits \in {0, 1} /\ pending_searchers \in Nat
  /\ pc \in [Observers -> WorkerPlaces \cup WatchdogPlaces]
  /\ pc[Watchdog] \in WatchdogPlaces /\ \A w \in Workers : pc[w] \in WorkerPlaces
  /\ batch \in [Workers -> BOOLEAN]
  /\ stats \in [Observers -> Nat]

\* What is gathered is held until it is backed up.
Held == \A w \in Workers : batch[w] => pc[w] \in {"gathered", "evaluate"}

\* As long as the root is not visited, everybody is still to gather, or somebody
\* holds the visit.
SomebodyWill ==
  RootVisits = 0 =>
    \/ \A w \in Workers : pc[w] \in {"iterate", "acquire", "gather"}
    \/ \E w \in Workers : batch[w]

StatsLag == \A x \in Observers : stats[x] <= playouts
WatchdogLeaves == pc[Watchdog] = "done" => bestmove_is_sent
AbortStops == aborted => stop

IInv ==
  /\ TypeOK
  /\ SearcherLedger
  /\ Held
  /\ SomebodyWill
  /\ StatsLag
  /\ AnswerIsDue
  /\ WatchdogLeaves
  /\ AbortStops
-----------------------------------------------------------------------------
LEMMA SearchingFinite == IsFiniteSet(Searching) /\ Cardinality(Searching) \in Nat
BY LifecycleAssumption, FS_Subset, FS_CardinalityType DEF Searching

LEMMA Ledger ==
  SearcherLedger <=>
    (MaxConcurrentSearchers # 0 =>
       pending_searchers + Cardinality(Searching) = MaxConcurrentSearchers)
BY DEF SearcherLedger, Searching

LEMMA InitInv == Init => IInv
<1> SUFFICES ASSUME Init PROVE IInv
  OBVIOUS
<1>1. pc[Watchdog] = "stats" /\ \A w \in Workers : pc[w] = "iterate"
  BY LifecycleAssumption DEF Init, Observers
<1>2. TypeOK
  BY <1>1, LifecycleAssumption DEF Init, TypeOK, Observers, WorkerPlaces, WatchdogPlaces
<1>3. SearcherLedger
  <2>1. Searching = {}
    BY <1>1 DEF Searching
  <2>. QED BY <2>1, FS_EmptySet, Ledger, LifecycleAssumption DEF Init
<1>4. Held /\ SomebodyWill /\ StatsLag /\ AnswerIsDue /\ WatchdogLeaves /\ AbortStops
  BY <1>1
  DEF Init, Held, SomebodyWill, StatsLag, AnswerIsDue, WatchdogLeaves, AbortStops
<1>. QED BY <1>2, <1>3, <1>4 DEF IInv

LEMMA Moves ==
  ASSUME TypeOK, NEW x \in Observers, NEW to \in WorkerPlaces \cup WatchdogPlaces, Goto(x, to)
  PROVE  /\ pc' \in [Observers -> WorkerPlaces \cup WatchdogPlaces] /\ pc'[x] = to
         /\ \A y \in Observers : y # x => pc'[y] = pc[y]
BY DEF TypeOK, Goto

\* A thread moves on, and does not enter or leave gathering.
LEMMA SameSearching ==
  ASSUME TypeOK, NEW x \in Observers, NEW to \in WorkerPlaces \cup WatchdogPlaces, Goto(x, to),
         \/ pc[x] \notin {"gather", "gathered"} /\ to \notin {"gather", "gathered"}
         \/ pc[x] \in {"gather", "gathered"} /\ to \in {"gather", "gathered"},
         SearcherLedger, UNCHANGED pending_searchers
  PROVE  SearcherLedger'
<1>1. Searching' = Searching
  BY Moves DEF Searching, Observers
<1>. QED BY <1>1 DEF SearcherLedger, Searching

-----------------------------------------------------------------------------
(* The steps of a worker's iteration.                                      *)

\* Nothing but the worker's place, and perhaps the slots, changes.
LEMMA WalkStep ==
  ASSUME IInv, NEW w \in Workers, NEW to \in WorkerPlaces, Goto(w, to),
         ~batch[w] \/ to \in {"gathered", "evaluate"},
         RootVisits = 0 =>
           \/ to \in {"iterate", "acquire", "gather"}
           \/ pc[w] \notin {"iterate", "acquire", "gather"},
         UNCHANGED <<searchVars, playouts, initial_visits, batch, stats>>,
         pending_searchers' \in Nat, SearcherLedger'
  PROVE  IInv'
<1>1. w \in Observers /\ w # Watchdog /\ to \in WorkerPlaces \cup WatchdogPlaces
  BY LifecycleAssumption DEF Observers
<1>2. /\ pc' \in [Observers -> WorkerPlaces \cup WatchdogPlaces] /\ pc'[w] = to
      /\ \A y \in Observers : y # w => pc'[y] = pc[y]
  BY <1>1, Moves DEF IInv
<1>3. pc'[Watchdog] = pc[Watchdog] /\ \A v \in Workers : v # w => pc'[v] = pc[v]
  BY <1>1, <1>2 DEF Observers
<1>4. TypeOK'
  BY <1>2, <1>3 DEF IInv, TypeOK, searchVars
<1>5. Held'
  BY <1>2, <1>3 DEF IInv, Held
<1>6. SomebodyWill'
  BY <1>2, <1>3 DEF IInv, SomebodyWill, RootVisits
<1>7. StatsLag' /\ AnswerIsDue' /\ WatchdogLeaves' /\ AbortStops'
  BY <1>3 DEF IInv, StatsLag, AnswerIsDue, RootVisits, WatchdogLeaves, AbortStops, searchVars
<1>. QED BY <1>4, <1>5, <1>6, <1>7 DEF IInv

LEMMA WalkInv ==
  ASSUME IInv, NEW w \in Workers, SkipOrGo(w) \/ EndIteration(w)
  PROVE  IInv'
<1>1. w \in Observers
  BY DEF Observers
<1>2. pc[w] \in {"iterate", "loop"} /\ ~batch[w]
  BY DEF SkipOrGo, EndIteration, IInv, Held, TypeOK
<1>3. PICK to \in {"loop", "acquire", "done", "iterate"} :
        /\ Goto(w, to)
        /\ pc[w] = "iterate" => to = "acquire" \/ RootVisits > 0
  BY DEF SkipOrGo, EndIteration
<1>4. UNCHANGED <<searchVars, playouts, initial_visits, batch, stats, pending_searchers>>
  BY DEF SkipOrGo, EndIteration
<1>5. SearcherLedger'
  BY <1>1, <1>2, <1>3, <1>4, SameSearching DEF IInv, WorkerPlaces
<1>6. RootVisits = 0 => to \in {"iterate", "acquire", "gather"}
                        \/ pc[w] \notin {"iterate", "acquire", "gather"}
  BY <1>2, <1>3 DEF IInv, TypeOK, RootVisits
<1>. QED BY <1>2, <1>3, <1>4, <1>5, <1>6, WalkStep DEF IInv, TypeOK, WorkerPlaces

LEMMA AcquireInv ==
  ASSUME IInv, NEW w \in Workers, AcquireSearcher(w)
  PROVE  IInv'
<1>1. w \in Observers /\ pc[w] = "acquire" /\ ~batch[w]
      /\ UNCHANGED <<searchVars, playouts, initial_visits, batch, stats>>
  BY DEF AcquireSearcher, Observers, IInv, Held, TypeOK
<1>2. CASE MaxConcurrentSearchers # 0 /\ pending_searchers = 0
  <2>1. Goto(w, "iterate") /\ UNCHANGED pending_searchers
    BY <1>2 DEF AcquireSearcher
  <2>2. SearcherLedger'
    BY <1>1, <2>1, SameSearching DEF IInv, WorkerPlaces
  <2>. QED BY <1>1, <2>1, <2>2, WalkStep DEF IInv, TypeOK, WorkerPlaces
<1>3. CASE ~(MaxConcurrentSearchers # 0 /\ pending_searchers = 0)
  <2>1. /\ Goto(w, "gather")
        /\ pending_searchers' = IF MaxConcurrentSearchers # 0
                                THEN pending_searchers - 1 ELSE pending_searchers
    BY <1>3 DEF AcquireSearcher
  <2>2. pending_searchers' \in Nat
    BY <1>3, <2>1 DEF IInv, TypeOK
  <2>3. Searching' = Searching \cup {w} /\ w \notin Searching
    BY <1>1, <2>1, Moves DEF Searching, Observers, IInv, WorkerPlaces
  <2>4. Cardinality(Searching)' = Cardinality(Searching) + 1
    BY <2>3, SearchingFinite, FS_AddElement
  <2>5. MaxConcurrentSearchers # 0 =>
          pending_searchers' + Cardinality(Searching)' = MaxConcurrentSearchers
    BY <2>1, <2>4, SearchingFinite, Ledger, LifecycleAssumption DEF IInv, TypeOK
  <2>6. SearcherLedger'
    BY <2>5 DEF SearcherLedger, Searching
  <2>. QED BY <1>1, <2>1, <2>2, <2>6, WalkStep DEF WorkerPlaces
<1>. QED BY <1>2, <1>3

LEMMA ReleaseInv ==
  ASSUME IInv, NEW w \in Workers, ReleaseSearcher(w)
  PROVE  IInv'
<1>1. /\ w \in Observers /\ pc[w] = "gathered" /\ Goto(w, "evaluate")
      /\ UNCHANGED <<searchVars, playouts, initial_visits, batch, stats>>
      /\ pending_searchers' = IF MaxConcurrentSearchers # 0
                              THEN pending_searchers + 1 ELSE pending_searchers
  BY DEF ReleaseSearcher, Observers
<1>2. pending_searchers' \in Nat
  BY <1>1 DEF IInv, TypeOK
<1>3. Searching' = Searching \ {w} /\ w \in Searching
  BY <1>1, Moves DEF Searching, Observers, IInv, WorkerPlaces
<1>4. Cardinality(Searching)' = Cardinality(Searching) - 1
  BY <1>3, SearchingFinite, FS_RemoveElement
<1>5. MaxConcurrentSearchers # 0 =>
        pending_searchers' + Cardinality(Searching)' = MaxConcurrentSearchers
  BY <1>1, <1>4, SearchingFinite, Ledger, LifecycleAssumption DEF IInv, TypeOK
<1>6. SearcherLedger'
  BY <1>5 DEF SearcherLedger, Searching
<1>. QED BY <1>1, <1>2, <1>6, WalkStep DEF WorkerPlaces

LEMMA GatherInv ==
  ASSUME IInv, NEW w \in Workers, GatherMinibatch(w)
  PROVE  IInv'
<1>1. PICK found \in BOOLEAN :
        /\ found \/ \E v \in Workers \ {w} : batch[v]
        /\ batch' = [batch EXCEPT ![w] = found]
  BY DEF GatherMinibatch
<1>2. /\ w \in Observers /\ w # Watchdog /\ pc[w] = "gather" /\ Goto(w, "gathered")
      /\ "gathered" \in WorkerPlaces \cup WatchdogPlaces
      /\ UNCHANGED <<searchVars, playouts, initial_visits, pending_searchers, stats>>
  BY LifecycleAssumption DEF GatherMinibatch, Observers, WorkerPlaces
<1>3. /\ pc' \in [Observers -> WorkerPlaces \cup WatchdogPlaces] /\ pc'[w] = "gathered"
      /\ \A y \in Observers : y # w => pc'[y] = pc[y]
  BY <1>2, Moves DEF IInv
<1>4. pc'[Watchdog] = pc[Watchdog] /\ \A v \in Workers : v # w => pc'[v] = pc[v]
  BY <1>2, <1>3 DEF Observers
<1>5. /\ batch' \in [Workers -> BOOLEAN] /\ batch'[w] = found
      /\ \A v \in Workers : v # w => batch'[v] = batch[v]
  BY <1>1 DEF IInv, TypeOK
<1>6. SearcherLedger'
  BY <1>2, SameSearching DEF IInv
<1>7. TypeOK'
  BY <1>2, <1>3, <1>4, <1>5 DEF IInv, TypeOK, searchVars, WorkerPlaces
<1>8. Held'
  BY <1>3, <1>4, <1>5 DEF IInv, Held
<1>9. SomebodyWill'
  BY <1>1, <1>5 DEF SomebodyWill
<1>10. StatsLag' /\ AnswerIsDue' /\ WatchdogLeaves' /\ AbortStops'
  BY <1>2, <1>4
  DEF IInv, StatsLag, AnswerIsDue, RootVisits, WatchdogLeaves, AbortStops, searchVars
<1>. QED BY <1>6, <1>7, <1>8, <1>9, <1>10 DEF IInv

\* A held visit is a visit of the root.
LEMMA BackupInv ==
  ASSUME IInv, NEW w \in Workers, BackupUpdate(w)
  PROVE  IInv'
<1>1. /\ w \in Observers /\ w # Watchdog /\ pc[w] = "evaluate" /\ Goto(w, "stats")
      /\ "stats" \in WorkerPlaces \cup WatchdogPlaces
      /\ playouts' = IF batch[w] /\ playouts < PlayoutLimit THEN playouts + 1 ELSE playouts
      /\ batch' = [batch EXCEPT ![w] = FALSE]
      /\ UNCHANGED <<searchVars, initial_visits, pending_searchers, stats>>
  BY LifecycleAssumption DEF BackupUpdate, Observers, WorkerPlaces
<1>2. /\ pc' \in [Observers -> WorkerPlaces \cup WatchdogPlaces] /\ pc'[w] = "stats"
      /\ \A y \in Observers : y # w => pc'[y] = pc[y]
  BY <1>1, Moves DEF IInv
<1>3. pc'[Watchdog] = pc[Watchdog] /\ \A v \in Workers : v # w => pc'[v] = pc[v]
  BY <1>1, <1>2 DEF Observers
<1>4. /\ batch' \in [Workers -> BOOLEAN] /\ ~batch'[w]
      /\ \A v \in Workers : v # w => batch'[v] = batch[v]
  BY <1>1 DEF IInv, TypeOK
<1>5. playouts' \in Nat /\ playouts' >= playouts /\ (batch[w] => playouts' > 0)
  BY <1>1, LifecycleAssumption DEF IInv, TypeOK
<1>6. SearcherLedger'
  BY <1>1, SameSearching DEF IInv
<1>7. TypeOK'
  BY <1>1, <1>2, <1>3, <1>4, <1>5 DEF IInv, TypeOK, searchVars, WorkerPlaces
<1>8. Held'
  BY <1>2, <1>3, <1>4 DEF IInv, Held
<1>9. SomebodyWill'
  <2>1. CASE batch[w]
    BY <1>1, <1>5, <2>1 DEF SomebodyWill, RootVisits, IInv, TypeOK
  <2>2. CASE ~batch[w]
    <3>1. RootVisits' = RootVisits
      BY <1>1, <2>2 DEF RootVisits
    <3>2. ~(\A v \in Workers : pc[v] \in {"iterate", "acquire", "gather"})
      BY <1>1
    <3>3. RootVisits = 0 => \E v \in Workers : batch[v] /\ v # w
      BY <2>2, <3>2 DEF IInv, SomebodyWill
    <3>. QED BY <1>4, <3>1, <3>3 DEF SomebodyWill
  <2>. QED BY <2>1, <2>2
<1>10. StatsLag'
  BY <1>1, <1>5 DEF IInv, TypeOK, StatsLag
<1>11. AnswerIsDue' /\ WatchdogLeaves' /\ AbortStops'
  BY <1>1, <1>3, <1>5
  DEF IInv, TypeOK, AnswerIsDue, RootVisits, WatchdogLeaves, AbortStops, searchVars
<1>. QED BY <1>6, <1>7, <1>8, <1>9, <1>10, <1>11 DEF IInv

-----------------------------------------------------------------------------
(* Both kinds of thread.                                                   *)

\* A step outside gathering, with what it may do to the answer.
LEMMA ObserverStep ==
  ASSUME IInv, NEW x \in Observers, NEW to \in WorkerPlaces \cup WatchdogPlaces, Goto(x, to),
         pc[x] \notin {"iterate", "acquire", "gather", "gathered", "evaluate"},
         to \notin {"iterate", "acquire", "gather", "gathered", "evaluate"},
         x = Watchdog => to \in WatchdogPlaces /\ (to = "done" => bestmove_is_sent'),
         x # Watchdog => to \in WorkerPlaces,
         stats' \in [Observers -> Nat], StatsLag',
         stop' \in BOOLEAN, bestmove_is_sent' \in BOOLEAN, sent' \in {0, 1},
         bestmove_is_sent => bestmove_is_sent', stop => stop', AnswerIsDue',
         UNCHANGED <<ok_to_respond_bestmove, aborted, playouts, initial_visits,
                     pending_searchers, batch>>
  PROVE  IInv'
<1>1. /\ pc' \in [Observers -> WorkerPlaces \cup WatchdogPlaces] /\ pc'[x] = to
      /\ \A y \in Observers : y # x => pc'[y] = pc[y]
  BY Moves DEF IInv
<1>2. Watchdog \in Observers /\ \A w \in Workers : w \in Observers /\ w # Watchdog
  BY LifecycleAssumption DEF Observers
<1>3. SearcherLedger'
  BY SameSearching DEF IInv
<1>4. TypeOK'
  BY <1>1, <1>2 DEF IInv, TypeOK
<1>5. Held'
  BY <1>1, <1>2 DEF IInv, Held
<1>6. SomebodyWill'
  <2>1. CASE x = Watchdog
    BY <1>1, <1>2, <2>1 DEF IInv, SomebodyWill, RootVisits
  <2>2. CASE x # Watchdog
    <3>1. x \in Workers
      BY <2>2 DEF Observers
    <3>2. ~(\A v \in Workers : pc[v] \in {"iterate", "acquire", "gather"})
      BY <3>1
    <3>. QED BY <3>2 DEF IInv, SomebodyWill, RootVisits
  <2>. QED BY <2>1, <2>2
<1>7. WatchdogLeaves'
  BY <1>1, <1>2 DEF IInv, WatchdogLeaves
<1>8. AbortStops'
  BY DEF IInv, AbortStops
<1>. QED BY <1>3, <1>4, <1>5, <1>6, <1>7, <1>8 DEF IInv

LEMMA StatsInv ==
  ASSUME IInv, NEW x \in Observers, PopulateCommonIterationStats(x)
  PROVE  IInv'
<1>1. /\ pc[x] = "stats" /\ Goto(x, "trigger") /\ stats' = [stats EXCEPT ![x] = playouts]
      /\ UNCHANGED <<searchVars, playouts, initial_visits, pending_searchers, batch>>
  BY DEF PopulateCommonIterationStats
<1>2. stats' \in [Observers -> Nat] /\ StatsLag'
  BY <1>1 DEF IInv, TypeOK, StatsLag
<1>3. AnswerIsDue'
  BY <1>1 DEF IInv, AnswerIsDue, RootVisits, searchVars
<1>. QED BY <1>1, <1>2, <1>3, ObserverStep
         DEF searchVars, IInv, TypeOK, WorkerPlaces, WatchdogPlaces

\* The first to see that the search is to stop answers, of a visited root; from
\* then on bestmove_is_sent_ keeps everybody from it.
LEMMA TriggerInv ==
  ASSUME IInv, NEW x \in Observers, MaybeTriggerStop(x)
  PROVE  IInv'
<1>. DEFINE to == IF x = Watchdog THEN "watch" ELSE "loop"
<1>1. /\ pc[x] = "trigger" /\ Goto(x, to)
      /\ to \in WorkerPlaces \cup WatchdogPlaces
      /\ (x = Watchdog => to \in WatchdogPlaces /\ to # "done")
      /\ (x # Watchdog => to \in WorkerPlaces)
      /\ to \in {"watch", "loop"}
      /\ UNCHANGED <<playouts, initial_visits, pending_searchers, batch, stats,
                     ok_to_respond_bestmove, aborted>>
  BY DEF MaybeTriggerStop, WorkerPlaces, WatchdogPlaces, searchVars
<1>2. stats' \in [Observers -> Nat] /\ StatsLag'
  BY <1>1 DEF IInv, TypeOK, StatsLag
<1>3. CASE UNCHANGED searchVars
  <2>1. AnswerIsDue'
    BY <1>1, <1>3 DEF IInv, AnswerIsDue, RootVisits, searchVars
  <2>. HIDE DEF to
  <2>. QED BY <1>1, <1>2, <1>3, <2>1, ObserverStep DEF searchVars, IInv, TypeOK
<1>4. CASE ~(UNCHANGED searchVars)
  <2>1. /\ ~bestmove_is_sent /\ stats[x] + initial_visits # 0
        /\ stop' = (stop \/ ShouldStop(x))
        /\ IF stop' /\ ok_to_respond_bestmove
           THEN sent' = sent + 1 /\ bestmove_is_sent' = TRUE
           ELSE UNCHANGED <<sent, bestmove_is_sent>>
    BY <1>4 DEF MaybeTriggerStop
  <2>2. RootVisits > 0 /\ RootVisits' = RootVisits
    BY <1>1, <2>1 DEF IInv, TypeOK, StatsLag, RootVisits
  <2>3. sent = 0 /\ ~aborted
    BY <2>1 DEF IInv, TypeOK, AnswerIsDue
  <2>4. stop' \in BOOLEAN /\ bestmove_is_sent' \in BOOLEAN /\ sent' \in {0, 1}
        /\ (stop => stop')
    <3>1. stop' \in BOOLEAN /\ (stop => stop')
      BY <2>1, Zenon DEF ShouldStop
    <3>2. \/ sent' = sent + 1 /\ bestmove_is_sent' = TRUE
          \/ UNCHANGED <<sent, bestmove_is_sent>>
      BY <2>1, Zenon
    <3>3. sent' \in {0, 1}
      BY <2>3, <3>2
    <3>4. bestmove_is_sent' \in BOOLEAN
      BY <3>2 DEF IInv, TypeOK
    <3>. QED BY <3>1, <3>3, <3>4, Zenon
  <2>5. AnswerIsDue'
    BY <1>1, <2>1, <2>2, <2>3 DEF IInv, TypeOK, AnswerIsDue
  <2>. HIDE DEF to
  <2>. QED BY <1>1, <1>2, <2>1, <2>4, <2>5, ObserverStep
<1>. QED BY <1>3, <1>4

LEMMA WatchInv ==
  ASSUME IInv, Watch
  PROVE  IInv'
<1>. DEFINE to == IF bestmove_is_sent THEN "done" ELSE "stats"
<1>1. /\ pc[Watchdog] = "watch" /\ Goto(Watchdog, to) /\ Watchdog \in Observers
      /\ to \in WatchdogPlaces /\ (to = "done" => bestmove_is_sent) /\ to \in {"done", "stats"}
      /\ UNCHANGED <<searchVars, playouts, initial_visits, pending_searchers, batch, stats>>
  BY DEF Watch, WatchdogPlaces, Observers
<1>2. StatsLag' /\ AnswerIsDue'
  BY <1>1 DEF IInv, StatsLag, AnswerIsDue, RootVisits, searchVars
<1>. HIDE DEF to
<1>. QED BY <1>1, <1>2, ObserverStep DEF searchVars, IInv, TypeOK

\* Another thread stops or silences the search.
LEMMA OtherInv ==
  ASSUME IInv, Stop \/ Abort
  PROVE  IInv'
<1>1. UNCHANGED <<sent, playouts, initial_visits, pending_searchers, pc, batch, stats>>
  BY DEF Stop, Abort
<1>2. TypeOK'
  BY <1>1 DEF Stop, Abort, IInv, TypeOK
<1>3. SearcherLedger' /\ Held' /\ SomebodyWill' /\ StatsLag'
  BY <1>1 DEF IInv, SearcherLedger, Held, SomebodyWill, RootVisits, StatsLag
<1>4. AnswerIsDue' /\ WatchdogLeaves' /\ AbortStops'
  BY <1>1
  DEF Stop, Abort, IInv, TypeOK, AnswerIsDue, RootVisits, WatchdogLeaves, AbortStops
<1>. QED BY <1>2, <1>3, <1>4 DEF IInv

LEMMA NextInv == IInv /\ [Next]_vars => IInv'
<1> SUFFICES ASSUME IInv, [Next]_vars PROVE IInv'
  OBVIOUS
<1>1. ASSUME NEW w \in Workers, WorkerStep(w) PROVE IInv'
  <2>1. w \in Observers
    BY DEF Observers
  <2>. QED BY <1>1, <2>1, WalkInv, AcquireInv, GatherInv, ReleaseInv, BackupInv, StatsInv,
           TriggerInv DEF WorkerStep
<1>2. CASE WatchdogStep
  <2>1. Watchdog \in Observers
    BY DEF Observers
  <2>. QED BY <1>2, <2>1, StatsInv, TriggerInv, WatchInv DEF WatchdogStep
<1>3. CASE Stop \/ Abort
  BY <1>3, OtherInv
<1>4. CASE Terminated \/ UNCHANGED vars
  <2>1. UNCHANGED vars
    BY <1>4 DEF Terminated
  <2>2. TypeOK' /\ SearcherLedger' /\ Held'
    BY <2>1 DEF vars, searchVars, IInv, TypeOK, SearcherLedger, Held
  <2>3. SomebodyWill' /\ StatsLag' /\ AnswerIsDue' /\ WatchdogLeaves' /\ AbortStops'
    BY <2>1 DEF vars, searchVars, IInv, SomebodyWill, RootVisits, StatsLag, AnswerIsDue,
                WatchdogLeaves, AbortStops
  <2>. QED BY <2>2, <2>3 DEF IInv
<1>. QED BY <1>1, <1>2, <1>3, <1>4 DEF Next

\* The strengthened invariant: who holds visits, what the threads' counts say,
\* and what each flag of the answer stands for.
THEOREM Invariance == Spec => []IInv
<1>1. Init => IInv
  BY InitInv
<1>2. IInv /\ [Next]_vars => IInv'
  BY NextInv
<1>. QED BY <1>1, <1>2, PTL DEF Spec

\* Never more than max_concurrent_searchers workers gather, and every slot is
\* given back, also when iterations are skipped (pending_searchers_).
THEOREM SearcherLedgerHolds == Spec => []SearcherLedger
<1>1. IInv => SearcherLedger
  BY DEF IInv
<1>. QED BY <1>1, Invariance, PTL

\* "at least one iteration": however early Stop or Abort comes, once the workers
\* are done the root has been visited.
THEOREM RootIsVisitedHolds == Spec => []RootIsVisited
<1>1. IInv => RootIsVisited
  <2> SUFFICES ASSUME IInv, \A w \in Workers : pc[w] = "done", RootVisits = 0
               PROVE  FALSE
    BY DEF RootIsVisited, RootVisits, IInv, TypeOK
  <2>1. \A w \in Workers : ~batch[w]
    BY DEF IInv, Held
  <2>2. PICK w \in Workers : TRUE
    BY LifecycleAssumption
  <2>. QED BY <2>1, <2>2 DEF IInv, SomebodyWill
<1>. QED BY <1>1, Invariance, PTL

\* A bestmove is one of a visited root and never of an aborted search, or of an
\* infinite one before Stop; bestmove_is_sent_ is set exactly when it was sent or
\* the search was silenced.
THEOREM AnswerIsDueHolds == Spec => []AnswerIsDue
<1>1. IInv => AnswerIsDue
  BY DEF IInv
<1>. QED BY <1>1, Invariance, PTL

-----------------------------------------------------------------------------
(* The search keeps its contract.                                          *)

Outcome == IF sent > 0 THEN "answered"
           ELSE IF aborted THEN "silenced"
           ELSE IF stop THEN "halted" ELSE "searching"

\* The contract's actions, of that outcome.
LEMMA ContractSteps ==
  /\ Contract!Halt <=>
       Outcome = "searching" /\ Outcome' = "halted" /\ UNCHANGED Returned
  /\ Contract!Answer <=>
       Outcome \in {"searching", "halted"} /\ Outcome' = "answered" /\ UNCHANGED Returned
  /\ Contract!Silence <=>
       Outcome \in {"searching", "halted"} /\ Outcome' = "silenced" /\ UNCHANGED Returned
  /\ Contract!Return <=>
       /\ Outcome \in {"answered", "silenced"}
       /\ ~Returned /\ Returned' = TRUE /\ UNCHANGED Outcome
BY DEF Contract!Halt, Contract!Answer, Contract!Silence, Contract!Return, Outcome

\* What a step of a thread may do to it: halt, answer, or nothing.
LEMMA TriggerRefines ==
  ASSUME IInv, NEW x \in Observers, MaybeTriggerStop(x)
  PROVE  [Contract!CNext]_<<Outcome, Returned>>
<1>1. Returned = FALSE /\ UNCHANGED Returned
  <2>1. /\ pc[x] = "trigger"
        /\ pc'[x] \in {"watch", "loop"}
    BY DEF MaybeTriggerStop, Goto, IInv, TypeOK
  <2>. QED BY <2>1 DEF Returned
<1>2. CASE UNCHANGED searchVars
  BY <1>1, <1>2 DEF searchVars, Outcome
<1>3. CASE ~(UNCHANGED searchVars)
  <2>1. /\ ~bestmove_is_sent /\ UNCHANGED aborted
        /\ IF stop' /\ ok_to_respond_bestmove
           THEN sent' = sent + 1
           ELSE UNCHANGED sent
        /\ stop => stop'
    BY <1>3 DEF MaybeTriggerStop
  <2>2. sent = 0 /\ ~aborted
    BY <2>1 DEF IInv, TypeOK, AnswerIsDue
  <2>3. Outcome \in {"searching", "halted"} /\ (Outcome = "halted" <=> stop)
    BY <2>2 DEF Outcome
  <2>4. CASE stop' /\ ok_to_respond_bestmove
    <3>1. Outcome' = "answered"
      BY <2>1, <2>2, <2>4 DEF Outcome
    <3>. QED BY <1>1, <2>3, <3>1, ContractSteps DEF Contract!CNext
  <2>5. CASE ~(stop' /\ ok_to_respond_bestmove)
    <3>1. Outcome' = IF stop' THEN "halted" ELSE "searching"
      BY <2>1, <2>2, <2>5 DEF Outcome
    <3>. QED BY <1>1, <2>1, <2>3, <3>1, ContractSteps DEF Contract!CNext
  <2>. QED BY <2>4, <2>5
<1>. QED BY <1>2, <1>3

LEMMA OtherRefines ==
  ASSUME IInv, Stop \/ Abort
  PROVE  [Contract!CNext]_<<Outcome, Returned>>
<1>1. Returned = FALSE /\ UNCHANGED Returned /\ UNCHANGED sent
  BY DEF Stop, Abort, Returned
<1>2. CASE Stop
  <2>1. stop' /\ UNCHANGED aborted
    BY <1>2 DEF Stop
  <2>2. Outcome' = Outcome \/ (Outcome = "searching" /\ Outcome' = "halted")
    BY <1>1, <2>1 DEF Outcome
  <2>. QED BY <1>1, <2>2, ContractSteps DEF Contract!CNext
<1>3. CASE Abort
  <2>1. stop' /\ aborted' /\ (~stop \/ ~bestmove_is_sent)
    BY <1>3 DEF Abort
  <2>2. sent = 0
    BY <2>1 DEF IInv, TypeOK, AnswerIsDue
  <2>3. Outcome' = "silenced" /\ Outcome \in {"searching", "halted", "silenced"}
    BY <1>1, <2>1, <2>2 DEF Outcome
  <2>. QED BY <1>1, <2>3, ContractSteps DEF Contract!CNext
<1>. QED BY <1>2, <1>3

\* RunBlocking returns only after an answer or silence: the watchdog stays.
LEMMA ReturnRefines ==
  ASSUME IInv, IInv', UNCHANGED <<stop, sent, aborted>>,
         ~Returned \/ UNCHANGED pc
  PROVE  [Contract!CNext]_<<Outcome, Returned>>
<1>1. Outcome' = Outcome
  BY DEF Outcome
<1>2. Returned' => Outcome' \in {"answered", "silenced"}
  BY DEF Returned, Observers, IInv, WatchdogLeaves, AnswerIsDue, TypeOK, Outcome
<1>3. CASE UNCHANGED pc
  BY <1>1, <1>3 DEF Returned
<1>4. CASE ~Returned
  <2>1. Returned \in BOOLEAN /\ Returned' \in BOOLEAN
    BY DEF Returned
  <2>2. CASE Returned'
    <3>1. Returned' = TRUE /\ UNCHANGED Outcome /\ Outcome \in {"answered", "silenced"}
      BY <1>1, <1>2, <2>1, <2>2
    <3>2. Contract!Return
      BY <1>4, <3>1, ContractSteps
    <3>. QED BY <3>2 DEF Contract!CNext
  <2>3. CASE ~Returned'
    BY <1>1, <1>4, <2>1, <2>3
  <2>. QED BY <2>2, <2>3
<1>. QED BY <1>3, <1>4

LEMMA StepRefines ==
  ASSUME IInv, IInv', [Next]_vars
  PROVE  [Contract!CNext]_<<Outcome, Returned>>
<1>1. CASE \E x \in Observers : MaybeTriggerStop(x)
  BY <1>1, TriggerRefines
<1>2. CASE Stop \/ Abort
  BY <1>2, OtherRefines
<1>3. CASE Terminated \/ UNCHANGED vars
  <2>1. UNCHANGED <<stop, sent, aborted, pc>>
    BY <1>3 DEF Terminated, vars, searchVars
  <2>. QED BY <2>1, ReturnRefines
<1>4. ASSUME NEW w \in Workers,
             \/ SkipOrGo(w) \/ AcquireSearcher(w) \/ GatherMinibatch(w)
             \/ ReleaseSearcher(w) \/ BackupUpdate(w) \/ EndIteration(w)
      PROVE  [Contract!CNext]_<<Outcome, Returned>>
  <2>1. pc[w] # "done" /\ w \in Observers
    BY <1>4 DEF SkipOrGo, AcquireSearcher, GatherMinibatch, ReleaseSearcher, BackupUpdate,
                EndIteration, Observers
  <2>2. UNCHANGED <<stop, sent, aborted>>
    BY <1>4 DEF SkipOrGo, AcquireSearcher, GatherMinibatch, ReleaseSearcher, BackupUpdate,
                EndIteration, searchVars
  <2>. QED BY <2>1, <2>2, ReturnRefines DEF Returned
<1>5. ASSUME NEW x \in Observers, PopulateCommonIterationStats(x)
      PROVE  [Contract!CNext]_<<Outcome, Returned>>
  <2>1. pc[x] # "done" /\ UNCHANGED <<stop, sent, aborted>>
    BY <1>5 DEF PopulateCommonIterationStats, searchVars
  <2>. QED BY <2>1, ReturnRefines DEF Returned
<1>6. CASE Watch
  <2>1. /\ pc[Watchdog] # "done" /\ UNCHANGED <<stop, sent, aborted>>
        /\ Watchdog \in Observers
    BY <1>6 DEF Watch, searchVars, Observers
  <2>. QED BY <2>1, ReturnRefines DEF Returned
<1>. QED BY <1>1, <1>2, <1>3, <1>4, <1>5, <1>6
         DEF Next, WorkerStep, WatchdogStep, Observers

\* A search ends with one bestmove, or with none if it was aborted first, and
\* RunBlocking returns only after that: what UCI, self-play and the arena count on.
THEOREM Refinement == Spec => ContractSpec
<1>1. Init => Contract!CInit
  <2> SUFFICES ASSUME Init PROVE Contract!CInit
    OBVIOUS
  <2>1. pc[Watchdog] = "stats" /\ Watchdog \in Observers
    BY DEF Init, Observers
  <2>. QED BY <2>1 DEF Init, Contract!CInit, Returned
<1>2. IInv /\ IInv' /\ [Next]_vars => [Contract!CNext]_<<Outcome, Returned>>
  BY StepRefines
<1>. QED BY <1>1, <1>2, Invariance, PTL DEF Spec, ContractSpec, Contract!CSpec, Outcome
=============================================================================
