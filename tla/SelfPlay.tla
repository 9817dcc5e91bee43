------------------------------ MODULE SelfPlay ------------------------------
(***************************************************************************)
(* Generating training games: RunSelfPlay (lczero_chess/selfplay/          *)
(* selfplay_driver.cc), the game each worker plays (selfplay_game.cc) and  *)
(* the writer of its file (lczero_chess/trainingdata/writer.cc).           *)
(*                                                                         *)
(* Workers take game numbers from a shared counter until there are none    *)
(* left or a soft stop is seen, play each game to its end, and write it:   *)
(* under a temporary name first, renamed once it is whole.  An operation   *)
(* on a file may fail, and the process may be killed at any point and be   *)
(* started again over the same directory.  A loss of power, after which    *)
(* the system may have forgotten what it was handed, is not modelled.      *)
(*                                                                         *)
(* A search is one step: it records its position, and whether the side to  *)
(* move judged itself lost.  The other contents of a record are left out.  *)
(***************************************************************************)
EXTENDS Integers, Sequences, FiniteSets

CONSTANTS
  Workers,            \* cfg.parallel of them
  NumGames,           \* cfg.num_games
  ThreadsPerGame,     \* cfg.threads_per_game
  MaxMoves,           \* cfg.max_moves
  ResignConsecutive,  \* cfg.resign_consecutive
  ResignEarliest,     \* cfg.resign_earliest_move
  BlackStarts,        \* the games whose opening has Black to move
  MayResign,          \* the games for which the draw against no_resign_frac allows it
  ShowNps,            \* cfg.show_nps: there is a ticker
  MaxKills,           \* bound: kills of the process
  MaxFaults           \* bound: file operations that fail

Games == 0 .. NumGames - 1

ASSUME SelfPlayAssumption ==
  /\ IsFiniteSet(Workers) /\ Workers # {}
  /\ NumGames \in Nat /\ ThreadsPerGame \in Nat \ {0} /\ MaxMoves \in Nat
  /\ ResignConsecutive \in Nat \ {0} /\ ResignEarliest \in Nat
  /\ BlackStarts \subseteq Games /\ MayResign \subseteq Games /\ ShowNps \in BOOLEAN
  /\ MaxKills \in Nat /\ MaxFaults \in Nat

VARIABLES
  files, tmp,      \* the output directory: game_<g> and game_<g>.tmp
  xz,              \* the build writes .xz, and not record by record
  main,            \* where RunSelfPlay is
  next_game, done, active_workers,
  producers,       \* what producer_enter and producer_leave count to
  soft_stop,       \* --max-seconds are over, or --stop-file exists
  work,            \* what each worker has on its stack:
  \* pc        where it is
  \* g         the game it plays
  \* records   one [black, lost] for each position searched
  \* streak    resign_streak, of White and of Black
  \* allow_resign, result; resigned (history): by what the result came
  \* failed    failed_ of the writer; left: records it has not written
  \* to_leave  calls of producer_leave it has still to make
  ticker, all_joined,
  runs, faults,    \* how often the process was started; operations failed
  dropped          \* history: the games of this run reported as not written

disk == <<files, tmp>>
counters == <<next_game, done, active_workers, producers>>
driver == <<main, soft_stop, ticker, all_joined>>
world == <<xz, runs, faults>>
vars == <<disk, counters, driver, world, work, dropped>>

None == [run |-> 0, g |-> 0, missing |-> 0]
Idle == [pc |-> "unborn", g |-> 0, records |-> <<>>, streak |-> <<0, 0>>,
         allow_resign |-> FALSE, result |-> "undecided", resigned |-> FALSE,
         failed |-> FALSE, left |-> 0, to_leave |-> 0]
At(w) == work[w].pc
Become(w, r) == work' = [work EXCEPT ![w] = r]
Goto(w, pc) == Become(w, [work[w] EXCEPT !.pc = pc])

Init ==
  /\ files = [g \in Games |-> None] /\ tmp = [g \in Games |-> None]
  /\ xz \in BOOLEAN
  /\ soft_stop = FALSE
  /\ runs = 1 /\ faults = 0
  /\ main = "enter"
  /\ next_game = 0 /\ done = 0
  /\ active_workers = Cardinality(Workers)
  /\ producers = 0
  /\ work = [w \in Workers |-> Idle]
  /\ ticker = "unborn" /\ all_joined = FALSE
  /\ dropped = {}

-----------------------------------------------------------------------------
(* A worker takes a game.                                                  *)

\* Both tests of a soft stop.
CheckStop(w) ==
  /\ At(w) = "loop"
  /\ Goto(w, IF soft_stop THEN "leave" ELSE "take")
  /\ UNCHANGED <<disk, counters, driver, world, dropped>>

NewGame(w, g) ==
  Become(w, [Idle EXCEPT !.pc = "play", !.g = g, !.allow_resign = g \in MayResign])

\* Mutant: a load and a store in place of fetch_add.
TakeGame_LoadStore(w) ==
  /\ \/ /\ At(w) = "take"
        /\ Become(w, [work[w] EXCEPT !.pc = "store", !.g = next_game])
        /\ UNCHANGED next_game
     \/ /\ At(w) = "store"
        /\ next_game' = work[w].g + 1
        /\ IF work[w].g \in Games THEN NewGame(w, work[w].g) ELSE Goto(w, "leave")
  /\ UNCHANGED <<disk, done, active_workers, producers, driver, world, dropped>>

TakeGame(w) ==
  /\ At(w) = "take"
  /\ next_game' = next_game + 1
  /\ IF next_game \in Games THEN NewGame(w, next_game) ELSE Goto(w, "leave")
  /\ UNCHANGED <<disk, done, active_workers, producers, driver, world, dropped>>

-----------------------------------------------------------------------------
(* PlayOneGame.                                                            *)

Ply(w) == Len(work[w].records)
BlackToMove(w) == (work[w].g \in BlackStarts) # (Ply(w) % 2 = 1)
Side(black) == IF black THEN 2 ELSE 1
Winner(black) == IF black THEN "white_won" ELSE "black_won"

\* Mutant: one streak for both sides.
Streak_Shared(s, black, lost) ==
  IF lost THEN [i \in 1 .. 2 |-> s[i] + 1] ELSE [s EXCEPT ![Side(black)] = 0]
Streak(s, black, lost) ==
  [s EXCEPT ![Side(black)] = IF lost THEN @ + 1 ELSE 0]

\* One turn of the loop.  What a game over by the rules ended in ("over") only
\* matters to the records' labels.  The search finds no move in a position that is over,
\* which only the first one of a game may be; the move played may end the game.
PlayPly(w) ==
  /\ At(w) = "play" /\ Ply(w) < MaxMoves
  /\ \/ /\ Ply(w) = 0
        /\ Become(w, [work[w] EXCEPT !.pc = "open", !.result = "draw"])
     \/ LET r == work[w]
            black == BlackToMove(w)
            judged == r.allow_resign /\ Ply(w) >= ResignEarliest
        IN  \E lost \in IF judged THEN BOOLEAN ELSE {FALSE} :
          LET streak == IF judged THEN Streak(r.streak, black, lost) ELSE r.streak
              recorded == [r EXCEPT
                !.records = Append(@, [black |-> black, lost |-> lost]),
                !.streak = streak]
          IN  IF judged /\ lost /\ streak[Side(black)] >= ResignConsecutive
              THEN Become(w, [recorded EXCEPT !.pc = "open",
                                              !.result = Winner(black),
                                              !.resigned = TRUE])
              ELSE \/ Become(w, recorded)
                   \/ Become(w, [recorded EXCEPT !.pc = "open", !.result = "over"])
  /\ UNCHANGED <<disk, counters, driver, world, dropped>>

\* The loop ends without a result.
CutOff(w) ==
  /\ At(w) = "play" /\ Ply(w) = MaxMoves
  /\ Become(w, [work[w] EXCEPT !.pc = "open", !.result = "draw"])
  /\ UNCHANGED <<disk, counters, driver, world, dropped>>

-----------------------------------------------------------------------------
(* TrainingDataWriter: constructor, WriteChunk and Finalize.               *)

\* A file of w's game, without the last k records.
FileWithout(w, k) == [run |-> runs, g |-> work[w].g, missing |-> k]
CreateTmp(w, k) == tmp' = [tmp EXCEPT ![work[w].g] = FileWithout(w, k)]

\* A step on a file, and where it leads when it works and when it does not.
Works(w, pc) == Goto(w, pc) /\ UNCHANGED faults
Fails(w, pc) ==
  /\ faults < MaxFaults /\ faults' = faults + 1
  /\ Become(w, [work[w] EXCEPT !.pc = pc, !.failed = TRUE])

\* The records go to the writer; a game for an .xz file is only collected until
\* Finalize.
Open(w) ==
  /\ At(w) = "open"
  /\ \E ok \in BOOLEAN :
       /\ xz => ok
       /\ ok \/ faults < MaxFaults
       /\ faults' = IF ok THEN faults ELSE faults + 1
       /\ Become(w, [Idle EXCEPT !.pc = IF xz THEN "compress" ELSE "write",
                                 !.g = work[w].g, !.left = Ply(w), !.failed = ~ok])
       /\ IF ok /\ ~xz THEN CreateTmp(w, Ply(w)) ELSE UNCHANGED tmp
  /\ UNCHANGED <<files, counters, driver, xz, runs, dropped>>

\* "if (failed_) return": the rest is not written.
WriteChunk(w) ==
  LET left == work[w].left
  IN  /\ At(w) = "write" /\ ~work[w].failed /\ left > 0
      /\ \/ /\ Become(w, [work[w] EXCEPT !.left = left - 1])
            /\ CreateTmp(w, left - 1)
            /\ UNCHANGED faults
         \/ Fails(w, "write") /\ UNCHANGED tmp
      /\ UNCHANGED <<files, counters, driver, xz, runs, dropped>>

\* Mutant: what a write or a close reported is not looked at again.
Verdict_Ignored(w) == "remove"
Verdict(w) == IF work[w].failed THEN "clean" ELSE "remove"

Close(w) ==
  /\ At(w) = "write"
  /\ work[w].failed \/ work[w].left = 0
  /\ Works(w, Verdict(w)) \/ Fails(w, "clean")
  /\ UNCHANGED <<disk, counters, driver, xz, runs, dropped>>

\* The whole file at once.  A write that fails may have written some of it.
Compress(w) ==
  /\ At(w) = "compress"
  /\ \/ Works(w, "remove") /\ CreateTmp(w, 0)
     \/ /\ Fails(w, "clean")
        /\ UNCHANGED tmp \/ \E k \in 0 .. work[w].left : CreateTmp(w, k)
  /\ UNCHANGED <<files, counters, driver, xz, runs, dropped>>

\* "std::rename does not replace an existing file on Windows": std::remove.
\* When it fails, which nobody looks at, what was there stays.
RemoveOld(w) ==
  /\ At(w) = "remove"
  /\ Goto(w, "rename")
  /\ \/ files' = [files EXCEPT ![work[w].g] = None] /\ UNCHANGED faults
     \/ faults < MaxFaults /\ faults' = faults + 1 /\ UNCHANGED files
  /\ UNCHANGED <<tmp, counters, driver, xz, runs, dropped>>

Rename(w) ==
  /\ At(w) = "rename"
  /\ \/ /\ Works(w, "tally")
        /\ files' = [files EXCEPT ![work[w].g] = tmp[work[w].g]]
        /\ tmp' = [tmp EXCEPT ![work[w].g] = None]
     \/ Fails(w, "clean") /\ UNCHANGED disk
  /\ UNCHANGED <<counters, driver, xz, runs, dropped>>

\* "-- the game's records were dropped."
RemoveTmp(w) ==
  /\ At(w) = "clean"
  /\ Goto(w, "tally")
  /\ tmp' = [tmp EXCEPT ![work[w].g] = None]
  /\ dropped' = dropped \cup {work[w].g}
  /\ UNCHANGED <<files, counters, driver, world>>

-----------------------------------------------------------------------------
(* The worker counts its game, and leaves when it takes no more.           *)

Tally(w) ==
  /\ At(w) = "tally"
  /\ done' = done + 1
  /\ Become(w, [Idle EXCEPT !.pc = "loop"])
  /\ UNCHANGED <<disk, next_game, active_workers, producers, driver, world, dropped>>

\* Mutant: a worker leaves once, for all its threads.
ToLeave_Once == 1
ToLeave == ThreadsPerGame

WorkerEnds(w) ==
  /\ At(w) = "leave"
  /\ active_workers' = active_workers - 1
  /\ Become(w, [Idle EXCEPT !.pc = "leaving", !.to_leave = ToLeave])
  /\ UNCHANGED <<disk, next_game, done, producers, driver, world, dropped>>

ProducerLeaves(w) ==
  /\ At(w) = "leaving"
  /\ producers' = producers - 1
  /\ LET left == work[w].to_leave - 1
     IN  Become(w, [work[w] EXCEPT !.to_leave = left,
                                   !.pc = IF left = 0 THEN "gone" ELSE "leaving"])
  /\ UNCHANGED <<disk, next_game, done, active_workers, driver, world, dropped>>

Work(w) ==
  \/ CheckStop(w) \/ TakeGame(w) \/ PlayPly(w) \/ CutOff(w)
  \/ Open(w) \/ WriteChunk(w) \/ Close(w) \/ Compress(w)
  \/ RemoveOld(w) \/ Rename(w) \/ RemoveTmp(w)
  \/ Tally(w) \/ WorkerEnds(w) \/ ProducerLeaves(w)

-----------------------------------------------------------------------------
(* RunSelfPlay's own thread, and the ticker of --show-nps.                 *)

\* "Producers are registered BEFORE any worker starts".
EnterProducer ==
  /\ main = "enter"
  /\ producers' = producers + 1
  /\ main' = IF producers' = Cardinality(Workers) * ThreadsPerGame
             THEN "start" ELSE "enter"
  /\ UNCHANGED <<disk, next_game, done, active_workers, soft_stop, ticker,
                 all_joined, world, work, dropped>>

StartWorker(w) ==
  /\ main = "start" /\ At(w) = "unborn"
  /\ Goto(w, "loop")
  /\ UNCHANGED <<disk, counters, driver, world, dropped>>

StartTicker ==
  /\ main = "start" /\ \A w \in Workers : At(w) # "unborn"
  /\ main' = "join"
  /\ ticker' = IF ShowNps THEN "waits" ELSE "unborn"
  /\ UNCHANGED <<disk, counters, soft_stop, all_joined, world, work, dropped>>

JoinWorkers ==
  /\ main = "join" /\ \A w \in Workers : At(w) = "gone"
  /\ IF ShowNps
     THEN main' = "join_ticker" /\ all_joined' = TRUE
     ELSE main' = "returned" /\ UNCHANGED all_joined
  /\ UNCHANGED <<disk, counters, soft_stop, ticker, world, work, dropped>>

JoinTicker ==
  /\ main = "join_ticker" /\ ticker = "gone"
  /\ main' = "returned"
  /\ UNCHANGED <<disk, counters, soft_stop, ticker, all_joined, world, work, dropped>>

\* wait_for ends, by notify_all or after its minute, and its predicate decides;
\* what the ticker then reports, holding tick_mu, changes nothing.
\* Mutant: it is over once all games are.
TickerEnds_AllDone ==
  /\ ticker = "waits" /\ done = NumGames
  /\ ticker' = "gone"
  /\ UNCHANGED <<disk, counters, main, soft_stop, all_joined, world, work, dropped>>
TickerEnds ==
  /\ ticker = "waits" /\ all_joined
  /\ ticker' = "gone"
  /\ UNCHANGED <<disk, counters, main, soft_stop, all_joined, world, work, dropped>>

-----------------------------------------------------------------------------
(* The world.                                                              *)

SoftStop ==
  /\ main # "returned" /\ ~soft_stop
  /\ soft_stop' = TRUE
  /\ UNCHANGED <<disk, counters, main, ticker, all_joined, world, work, dropped>>

\* The process is killed and started again: a stop file may still be there,
\* the budget of seconds starts anew.
Killed ==
  /\ main # "returned" /\ runs <= MaxKills
  /\ runs' = runs + 1
  /\ soft_stop' \in {FALSE, soft_stop}
  /\ main' = "enter"
  /\ next_game' = 0 /\ done' = 0
  /\ active_workers' = Cardinality(Workers)
  /\ producers' = 0
  /\ work' = [w \in Workers |-> Idle]
  /\ ticker' = "unborn" /\ all_joined' = FALSE
  /\ dropped' = {}
  /\ UNCHANGED <<disk, xz, faults>>

\* RunSelfPlay is over.
Returned ==
  /\ main = "returned"
  /\ UNCHANGED vars

Main == EnterProducer \/ StartTicker \/ JoinWorkers \/ JoinTicker
        \/ \E w \in Workers : StartWorker(w)

Next == Main \/ TickerEnds \/ (\E w \in Workers : Work(w)) \/ SoftStop \/ Killed
        \/ Returned

Spec == Init /\ [][Next]_vars

\* Threads run, and wait_for returns at the latest after its minute.  Nothing
\* makes a soft stop or a kill happen.
FairSpec ==
  /\ Spec
  /\ WF_vars(Main) /\ WF_vars(TickerEnds)
  /\ \A w \in Workers : WF_vars(Work(w))

-----------------------------------------------------------------------------
(* Properties.                                                             *)

Playing == {w \in Workers : At(w) \in
              {"play", "open", "write", "compress", "remove", "rename", "clean", "tally"}}

\* "A full disk or a killed process therefore never leaves a truncated file
\* under the game's name" (writer.cc): whatever failed and whenever the process
\* was killed, in this run or an earlier one, a file under a game's name is of
\* that game and has each of its records.
FilesAreWhole ==
  \A g \in Games : files[g] # None =>
    files[g].g = g /\ files[g].missing = 0

\* Every number taken from the counter is one game: nobody else plays it, and
\* once it is counted in `done`, this run has left its file, whole, or said
\* that it dropped it.  A soft stop cuts no game short.
GamesAccounted ==
  LET taken == {g \in Games : g < next_game}
      open == {work[w].g : w \in Playing}
  IN  /\ Cardinality(open) = Cardinality(Playing)
      /\ open \subseteq taken
      /\ done = Cardinality(taken \ open)
      /\ \A g \in taken \ open : g \in dropped \/ files[g].run = runs

\* What the batching backend takes for the number of threads that may still
\* submit (ProducerEnter and ProducerLeave of BatchingBackend) is that number,
\* but for workers about to leave; a worker that may search is in it with all
\* its threads, one that leaves with the calls it has still to make.
ProducersCounted ==
  main # "enter" =>
    LET searching == {w \in Workers : At(w) \notin {"leaving", "gone"}}
        counted == {call \in Workers \X (1 .. ThreadsPerGame) :
                      call[1] \in searching \/ call[2] <= work[call[1]].to_leave}
    IN  /\ producers = Cardinality(counted)
        /\ active_workers = Cardinality(searching)

\* The late positions that a side has judged lost since the last it did not.
LateOf(records, black) ==
  {i \in DOMAIN records : i > ResignEarliest /\ records[i].black = black}
LostSince(records, black) ==
  {i \in LateOf(records, black) :
     \A j \in LateOf(records, black) : j >= i => records[j].lost}

\* A side gives up exactly when it judged itself lost in each of its last
\* ResignConsecutive positions, all of them late enough, whatever the other
\* side thought in between; and it is then that side which has lost.
ResignationEarned ==
  \A w \in Workers : At(w) \in {"play", "open"} =>
    LET r == work[w]
        lost == {black \in BOOLEAN : r.allow_resign
                   /\ Cardinality(LostSince(r.records, black)) >= ResignConsecutive}
    IN  /\ r.resigned <=> lost # {}
        /\ \A black \in lost : At(w) = "open" /\ r.result = Winner(black)

\* RunSelfPlay returns: there are finitely many games, and the ticker is told.
RunReturns == <>(main = "returned")
=============================================================================
