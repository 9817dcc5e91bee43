# A TLA+ model of FairyZero

FairyZero is a neural-network engine for a 10x10 chess variant: the MCTS search
of lc0, cut down and re-plumbed (`custom_engine/src/search/classic`), over the
Fairy-Stockfish move generator, with its own batching, caching, self-play,
training data and UCI front end (`custom_engine/src/lczero_chess`,
`custom_engine/src/app`), a Flutter client (`gui`) and scripts that train
networks on rented machines. This directory models the parts of it where
threads, processes and files meet, and the game rules the search leans on; it
checks them with TLC on small instances, and proves with TLAPS, for every size,
that the batching layer, the task pool, the threads of a search, the cache, the
games and files of self-play, the UCI engine with its client and the histories
of positions are safe.

Paths below are relative to `custom_engine/src/`; `lc/` stands for
`lczero_chess/`, `search.cc` and `node.cc` for the files of `search/classic/`,
and `gui/lib` is relative to the repository.

## 1. Inventory

| component | state | operations | talks to |
|---|---|---|---|
| Batch aggregation `lc/neural/batching_backend` | two buffers, owner of each slot, `waiting_`, `active_producers_`, window, a server thread | ProducerEnter/Leave, CreateComputation, AddInput, ComputeBlocking, ServerLoop, destructor | search workers and their task threads above, the ONNX backend below |
| Task pool `search.cc` 1102-1173, 1530-1572 | `task_count_`, `tasks_taken_`, `completed_tasks_`, `picking_tasks_`, spin lock, sleep | ResetTasks, PickNodesToExtend, RunTasks, WaitForTasks, destructor | one search worker with its own task threads |
| Search lifecycle `search.cc` 628-657, 907-1096, 1175-1262 | `stop_`, `bestmove_is_sent_`, `ok_to_respond_bestmove_`, `pending_searchers_`, counters | StartThreads, ExecuteOneIteration, MaybeTriggerStop, WatchdogThread, Stop, Abort, Wait | workers, watchdog, the caller's thread, the stopper, the responder |
| Search tree `search.cc` 1303-2534, `node.cc` | `n_`, `n_in_flight_`, `wl_`, bounds, terminal kind, solid children, shared collisions, minibatch of each worker | pick, extend, out-of-order backup, collide, back up, cancel, make solid, advance to the next search | all workers of a search, under `nodes_mutex_` or by ownership of a node |
| Evaluation cache `lc/neural/zero_heap_cache` | buckets under seqlocks, arena ring and its head | TryRead, CompactRead, GetCachedEvaluation, Insert, Clear/SetCacheSize | every search thread, without locks |
| UCI engine `app/uci_nn_engine.cc` | `tree_`, remembered game, backend and dirty flag, `search_`, `search_thread_` | one handler per command, the search thread | client (pipe or C bridge), search, backend |
| Stoppers `app/search_support.h` | start time, limits | ShouldStop | search lifecycle |
| NodeTree and garbage collector `node.cc` | head, game begin, history, collector queue | MakeMove, TrimTreeAtHead, ResetToPosition | UCI engine, self-play, arena |
| Position history `lc/chess/position.cc` | start, entries with hash, rule-50 count and repetitions, last position | Append, Pop, Trim, TrimHistory, Reset, copies, Compute*Result | tree, search, self-play |
| Board, variant rules, encoder `lc/chess` | a position | move generation, planes | vendored move generator |
| ONNX backend `lc/neural/onnx_backend.cc` | sessions, pinned buffers | AddInput, ComputeBlocking | onnxruntime |
| Self-play `lc/selfplay`, `app/selfplay_mode.cc` | next game, `done`, active workers, soft stop; a game's records and resign streaks | worker loop, PlayOneGame, producers, ticker | search, batching, writer |
| Training data writer `lc/trainingdata` | temporary file, failure flag | Open, WriteChunk, Finalize | file system, Python reader |
| Arena `app/arena_mode.cc` | next game, tallies, a tree per worker, two backends | worker loop, games over a reused tree | search, two batching layers |
| C bridge `app/fairyzero_ffi.h` | output queue | create, send, poll, destroy | UCI engine, Android client |
| Client `gui/lib` | process handle, pending requests; moves, positions, board, legal moves, result, thinking, paused | start, newGame, applyMove, bestMove, queries, taps, pause, dispose | UCI engine over two pipes |
| Training and machine scripts | files, leases | train, archive, hand over machines | external services |
| Vendored code | | | `chess/`, `co_vua/engine` |

What makes the modelled ones hard, and what makes them correct:

* **Batching.** One minibatch may be split over two device runs; the server
  works without the lock while buffers fill; a launch depends on who has
  registered, who waits and whether a buffer is full. Correct if every request
  is answered once and by a run that held it, if the server never writes
  through a worker's memory after the worker left, and if no one waits for ever.
* **Task pool.** Three atomics are reset one after the other under the eyes of
  threads that poll them without a lock, then sleep on a condition variable.
  Correct if each task runs once, a join means all are done, and it ends.
* **Lifecycle.** Any of the workers, the watchdog and the caller may stop the
  search at the same time. Correct if one bestmove is sent, or none after an
  abort, for a root that has been visited, and all threads exit.
* **Tree.** Workers release the lock between picking and backing up, and reserve
  visits meanwhile. Values are rewritten on the way: a proved terminal changes
  all its ancestors, a repetition may stop being one when the tree is kept.
  Correct if the books balance: in-flight counts, visits, sums, bounds.
* **Cache.** Words are copied while others write them. Correct if a hit is whole.
* **UCI.** A search ends by itself, by `stop`, or under another command. Correct if
  the tree stands for the client's game, a search never loses its tree or
  backend, and each `go` has one answer.
* **Client.** Its functions stop at every `await` while taps and other functions
  go on; answers carry no name, only a kind; one may come after it was given
  up. Correct if client and engine stay at the same place of the same game, a
  move found is played in the position it was found for, and nobody waits for a
  line that someone else took.
* **Self-play.** Workers share counters, write files that a later run finds, and
  end at different times; a process may be killed anywhere. Correct if a file
  under a game's name is a whole game, every number taken is one game that was
  written or reported, the batching layer is told the right number of threads,
  a side resigns only by its own judgement, and the run ends.
* **Position history.** It forgets what is old, takes moves back, and finds
  repetitions by a walk that stops early; the result of the game and the verdict
  of the search are computed apart. Correct if it answers as the whole game would.

Each component has an entry in `PROJECT.json` with its status; `hazards` there
lists, line by line, what could go wrong and the properties aimed at it.

## 2. Modules

| module | models | lines of code behind it |
|---|---|---|
| `EvalService` | what an evaluation service promises (abstract) | `lc/neural/backend.h` 106-118 |
| `BatchingBackend` | the aggregation layer; implements `EvalService` | `lc/neural/batching_backend.{h,cc}`, all of it |
| `ForkJoin` | a fork-join round (abstract) | what `GatherMinibatch` relies on |
| `TaskPool` | a worker and its task threads; implements `ForkJoin` | `search.cc` 1102-1173, 1303-1469, 1528-1572; `search.h` 228-268 |
| `SearchContract` | one answer or silence, then return (abstract) | what callers of `Search` rely on |
| `SearchLifecycle` | the threads of one search; implements `SearchContract` | `search.cc` 154-201, 628-657, 907-1096, 1175-1262, 2310-2326, 2512-2534 |
| `SearchTree` | the shared tree over several searches | `search.cc` 1303-2534, `node.cc` 196-527 |
| `HeapCache` | the lock-free cache, plain and compact | `lc/neural/zero_heap_cache.{h,cc}` |
| `UciEngine` | the engine's command handling | `app/uci_nn_engine.cc` 132-475, 503-695 |
| `GuiSession` | the graphical client, composed with `UciEngine` | `gui/lib/engine/uci_process_engine.dart` 48-293, `gui/lib/domain/game_controller.dart` 127-462 |
| `SelfPlay` | generating games: driver, game loop, writer | `lc/selfplay/selfplay_driver.cc` 20-302, `selfplay_game.cc` 91-258, `lc/trainingdata/writer.cc` 33-150 |
| `PositionHistory` | histories, repetitions and results | `lc/chess/position.cc` 16-290, `node.cc` 479-518, `search.cc` 1984-2038, 2219-2222 |
| `BatchingBackendProofs`, `TaskPoolProofs`, `SearchLifecycleProofs`, `SearchTreeProofs`, `HeapCacheProofs`, `UciEngineProofs` (also of `GuiSession`), `SelfPlayProofs`, `PositionHistoryProofs` | theorems about the module of that name | |
| `MC*` | instances for TLC | |

Conventions. A variable keeps the name of the field without its trailing
underscore; `pc`, `mpc`, `tpc`, `gpc`, `spc` say where a thread is. An action is
what a thread does in one lock region up to the next wait, or one atomic access
outside of one. A condition variable's waiter is "asleep" until a notification
makes it test its predicate; spurious wakeups, which would only hide a lost
notification, are left out. Definitions named `X_Y` under a comment
"Mutant:" are wrong variants of `X`. Nothing uses them; with `X` defined as
`X_Y`, TLC refutes the property that `PROJECT.json` names, which shows that the
property depends on that code.

**BatchingBackend.** A producer is a search worker and, since it has one
computation at a time, also its `Group`. `bufs[b]` is the sequence of the groups whose
inputs the wrapped computation holds; `slot_owner` is kept apart, as in the code,
because the device run empties the former before the server walks the latter.
Evaluation values do not appear: an input is answered when the run that held
it empties the buffer. The wrapped backend is external. `timeout_us` and
`expected_producers` go through the constructor's clamps.

**TaskPool.** `picking_tasks` holds, per task, how often it was worked. Every
load and store of the counters is a step, and `RunTasks` keeps its own
copies. `PassOff` may be taken by the worker and by a task that splits.

**SearchLifecycle.** The tree is the number of playouts and whether the root was
visited before; a worker's iteration is skip-or-acquire, gather, release,
back up, statistics, trigger. Statistics are taken under their own locks and
are stale when `MaybeTriggerStop` uses them, as in the code.

**SearchTree.** The game tree, game ends, repetitions and network values are
constants; positions are finitely many and a node's parents end in a root
(`TreeAssumption`), as the nodes of a tree in memory are and do. Which leaf is picked and how many visits go there is free, which
over-approximates PUCT. `wl_` is kept as the sum `wl_ * n_` in whole numbers.
What the code does in a loop over the way to the root or over a minibatch is a
recursive function (`PathFrom`, the `way` of `BackedUp`, `WithoutCollisions`), and what
it adds up over edges or entries is a sum over a set.
The lock is held from one step to the next (`Locked`, `Enters`), so entries of
one batch are separate steps that no other worker's tree access comes
between, while extending, which needs no lock, interleaves. `NextSearch` is
`~Search` with its pending shared collisions, `NodeTree::MakeMove` of one ply
(or the same position again), and the `Search` constructor. Self-play and the
arena start each search on a fresh tree (`TrimTreeAtHead`), and the arena's next
game begins on the tree of the last one (`ResetToPosition`).

**HeapCache.** Each atomic, each copied word and each arena cell is a step;
accesses are sequentially consistent, and the checksum tells different priors
apart. Both assumptions are stated in the module and not verified here.

**UciEngine.** The search is reduced to `SearchContract`'s promise. A game is a start
position and a line of moves; "legal" means "not yet made", enough to have lines
with an illegal move in the middle.

**GuiSession.** Two processes and two pipes. `UciEngine` is extended, its
commands arrive at the head of `stdin`, and what it writes goes to `stdout`. On
the client's side a task stands for one call of `init`, `_playHuman` or
`togglePause`, with the `_refresh` and `_maybeEngineMove` it awaits; `at` is the
await it has reached. `_expect` appends to `pending`, and `_onLine` gives a line
to the first request of its kind. A line carries the engine's tree (what the
client would parse out of it), so that the client's copy of the game can be
compared with the engine's. A continuation runs before the next tap or timer, as
Dart's microtasks do, but lines of one chunk may come before it. A timeout
(`TimesOut`) withdraws the request; its line may still come. `PatientUser` is an
assumption about the user, not about the code: no tap or resume while a move is
being sent or shown. Without it the lists of moves and positions part (section 4,
finding 3 and below it). The start board that `init` puts back when it fails is left out: after a
late answer the model allows more taps than the code.

**SelfPlay.** One module for the driver, the game and the writer, since a worker
is one thread that goes through all three; `work` is its stack. A search is one
step that yields whether the side to move judges itself lost. A file is the game
it belongs to and how many records it lacks. Each operation on a file may fail
(`MaxFaults`), the process may be killed at any step and started again over the
same directory (`MaxKills`), with its counters at zero and its temporary files
still there. `files` and `tmp` are the names `game_<g>` and `game_<g>.tmp`. That
the last is written record by record (`.gz`, `.bin`) or at once (`.xz`) is
chosen at the start.

**PositionHistory.** The rules are a constant graph of positions. `played` is the
history of the `NodeTree`, `line` the copy a `SearchWorker` extends (`Descend`),
trims (`ToRoot`) and pops (`Return`). The whole game is kept beside them in
history variables, and reference definitions (`TrueRule50`, `Earlier`,
`TrueResult`) are evaluated on it. `Capacity` is there with the branch that the
code takes when it is full. `RulesAssumption` says what the walk back takes for
granted of the rules of the variant (`LUAT_BIEN_THE.md`): the turn alternates, a
move cannot be taken back by the reply to it, and no sequence of moves undoes a
capture or the move of a pawn or sergeant. The last is said with `Stage`, a
number that never falls along a move and grows with one that resets rule 50; it
is there for the assumption only and no action uses it.

## 3. Runs

| run | distinct states | question | outcome |
|---|---:|---|---|
| `batching` | 55 358 | safety, refinement and progress with registering producers | holds |
| `taskpool_gpu` | 151 749 | safety, refinement and progress of the pool | holds |
| `taskpool_cpu` | | does the join end without wake-ups? | violated: finding 1 |
| `uci_client` | 33 153 | a well-behaved client | holds |
| `uci_illegal` | | a game with an illegal move | violated: finding 2 |
| `search_lifecycle` | 42 253 | one answer, clean end | holds |
| `heap_cache` | 1 583 606 | whole hits, whole buckets | holds |
| `search_tree` | 484 129 | ledgers of visits, bounds, kept and fresh trees, moved children | holds |
| `gui_patient` | 88 666 | client and engine in step, an answer too late, an end to every call | holds |
| `gui_hasty` | | a user who moves before the first move is shown | violated: finding 3 |
| `self_play` | 1 070 653 | files, games, producers and resignations through a kill and a failure; the end of the run | holds |
| `position_history` | 54 643 | trimmed histories against the whole game | holds |

### Properties

* `NoDangling`: a worker outside AddInput and ComputeBlocking has no input
  under evaluation and owns no slot, so nobody writes through its memory.
  `SlotLedger`: `remaining` counts its slots in both buffers. `WaitingCount`:
  `waiting_` counts exactly who is in Flush and not released. `ServiceSpec`: the
  layer implements `EvalService`. `FlushReturns`, `RoomComes`: no one waits for
  ever. `WindowOpen`: the aggregation window is open exactly while the filling
  buffer holds leaves, so a deadline is never that of a batch already launched.
  The model has no clock: how long a window lasts does not appear.
* `TaskOwned`, `JoinedMeansDone`, `ForkJoinSpec`, `TasksDoneSoon`,
  `DestructorReturns` for the task pool.
* `SearcherLedger`, `RootIsVisited`, `AnswerIsDue`, `ContractSpec`,
  `SearchEnds` for the lifecycle.
* `InFlightLedger`: a node is in flight exactly as often as minibatches and
  shared collisions hold it. `VisitLedger`: visits and sums of a node are its own
  first visit and its children's, through terminals, proofs and reverts, and
  the root's are `initial_visits_ + total_playouts_`. `BoundsSound`: bounds never
  exclude a result a full search would allow. `SafeSolid`: children are moved
  only while no minibatch refers to them.
* `HitIsWhole`, `BucketIsWhole` for the cache.
* `PositionHonoured`, `OneAnswerPerGo`, `SearchUndisturbed`, `CommandReturns` for
  the engine.
* `InStep`: when no call is under way, what the client drew, offers, recorded
  and sent is what the engine has. `FensAligned`, a part of it, is the claim of
  a comment. `MoveForThisPosition`: a late answer does not play a move in a
  position it was not found for (one late answer; a second would defeat it). `ComesToRest`: no task waits
  for a line that another took.
* `FilesAreWhole`, `GamesAccounted` (a number taken is one game, and a counted
  game is on disk or was reported dropped), `ProducersCounted`,
  `ResignationEarned`, `RunReturns` for self-play.
* `HistoryIsSuffix`, `RepetitionsCounted`, `VerdictsAgree` for histories.
* `BatchingBackend` and `SearchTree` have a `TypeOK` (that of `HeapCache` is proved
  and has no run); in the last it
  also says that unsigned counters never pass zero.

### Bounds, and why they are enough

* Batching: two workers, three threads, two slots a buffer. A minibatch of 3
  does not fit a buffer, so groups span two runs and share them; two threads of
  one worker add at once; both buffers are full while threads wait. The other
  producer mode (a fixed number announced) is covered by the proofs.
* Task pool: two threads, `MAX_TASKS = 2`: tasks left over for the worker,
  both threads at the last task, rounds that follow one another without limit.
* Lifecycle: two workers, one searcher slot, two playouts, with and without an
  initial visit, answering or not.
* Cache: two threads, four evaluations, two buckets, an arena of two words: positions
  that share a hash, a bucket written over, a ring that wraps twice.
* Tree: `MaxVisits` 5, minibatches of 3 entries, collisions of 2 visits. The
  thresholds of the code are scaled: children become solid from 3 visits (100 by
  default) and a repetition counts from 2 plies below the root (4), so that
  both happen and are then undone within the bound.
* UCI: two start positions, an unreadable FEN, two moves, lines of up to 2
  (3 where an illegal move must have a legal-looking tail).
* Client: games of three plies, so that each side has a move after an answer to
  its own, lines of up to four, two calls at once, one answer too late. The
  hasty user needs no timeout.
* Self-play: two games and two workers, so that a worker may play none, one or
  both; three plies, enough for a side to judge itself lost twice in a row with
  the other side's turn between (`ResignConsecutive` 2), one game beginning
  with Black and one that may not be resigned; one kill and one failure. Every
  turn is late enough to resign in (`ResignEarliest` 0), as an earliest ply above
  zero needs games of four plies; the proof of `ResignationEarned` is for any.
* Position history: the constants of the code are scaled together, keeping their
  order: rule 50 at 9 plies (100), 9 kept (100) of 12 (200), room for 17 (512).
  A game of 18 moves is trimmed up to four times, and a line of 5 goes back
  beyond the root for its repetitions. The graph has a capture, squares to
  return to, a mate, a stalemate and a win by checks, and games begin with White
  or with Black to move and a rule-50 count above zero.

### Fairness

Threads of the process are scheduled (`WF` of each thread's steps); a mutex
is not assumed to be fair among waiters, which is why `RoomComes` speaks of
the buffer and not of a thread. `ServerTimeout` has strong fairness: the deadline is
a fixed time, so a server that returns to its wait again and again finds it
passed. The client of the engine, and callers of `Stop` and `Abort`, need never
do anything: only `Engine` and `SearchThread` are fair. A worker of the task
pool finishes its walk, because the subtree is finite; nothing forces another
round. In `SearchLifecycle`, `SearchEnds` is about searches that may answer or
were aborted: an infinite search has no reason to end.
In `GuiSession` the engine's threads and the client's event loop are fair, a
search with a limit ends, and neither taps nor timeouts need happen. In
`SelfPlay` the driver, its ticker (`wait_for` returns at the latest after its
minute) and each worker are fair; a soft stop, a kill or a failure need never
come, and kills are finitely many by their bound.
Deadlock is checked in every run; states where the system has ended are
explicit steps (`Terminated`, `Returned`, or a disposed client).

## 4. Findings

1. **Task threads beside a CPU backend** (`search.cc:1551`). They are not woken
   when gathering starts, and processing tasks (1376-1388) notify nobody.
   With `task-workers` set on a CPU backend and all threads asleep,
   `WaitForTasks` ("other tasks should be done soon", 1540) spins for ever.
   The default gives a CPU backend no task threads, so it takes that option.
2. **A move list with an illegal move** (`app/uci_nn_engine.cc:401`). Its tail is
   not applied ("illegal/unknown move: stop applying", 396) but is remembered;
   a longer list then continues from the wrong place.
3. **Moving before the board shows the last move** (`gui/lib/domain/
   game_controller.dart:156`). A move is let through unless the engine is
   thinking; `_playHuman` (314-319) awaits `applyMove` before it records the
   move, with the old board still up. A second tap in that time leaves two moves
   and one position recorded, and `if (fens.length == moves.length)` (440) then
   adds none for the rest of the game, although "fens[k] = the position after
   move k (length = moves.length + 1)" (36-37). A review of such a
   ply (62) shows the board as it is now.

Met on the way, without a run of their own:

* Resuming before the paused loop has ended (`game_controller.dart:435`).
  `togglePause` starts the loop of engine moves unless the engine is thinking,
  but `_maybeEngineMove` says so no more (355) while it awaits `_refresh` (358),
  and finds the pause withdrawn when it looks. A user pauses while the engine
  thinks; the window then says "tạm dừng (Space để tiếp)", press Space to go on
  (`main.dart:138`), in that very time. Two loops ask for a move of one position, and
  each applies its own. `gui_hasty` allows it, and TLC, with that module narrowed
  down to self-play, a backend that loads and pauses during a search only, ends
  with moves recorded in another order than they were sent and `fens[2]` the
  position after three of them (36-37 say two).
* `quit` while a search runs: "quit: no bestmove" (`app/uci_nn_engine.cc:659`), yet
  the search thread writes one after `RunBlocking` returns (470-474).
* `PlayOneGame` ignores what `Finalize` returns (`selfplay_game.cc:246`), so the
  driver's `done`, "Games ACTUALLY finished (== game files written)"
  (`selfplay_driver.cc:226`), counts a game whose records were dropped.
  `GamesAccounted` states what holds: written, or reported.
* A kill between `std::remove` and `std::rename` (`writer.cc:140-141`) leaves
  nothing under the game's name, and the whole game under the temporary one.
* `ResetToPosition` compares with the start of the *kept* history
  (`node.cc:501`), not with that of the game. The arena, which alone resets a used
  tree, always resets to the same position, and all others use a new `NodeTree`.
* `UndoMove` does not give back `plies_since_prev_repetition_`; it is not read
  between a `Pop` and the next `Append`.

## 5. Proofs

Each proof module states a strengthened invariant and proves that it always
holds, with one lemma per action and frame lemmas for what an action cannot
disturb; TLC has checked it on the instance of the run. The properties follow
from it.

| module | `Spec => []P` for | other | from |
|---|---|---|---|
| `BatchingBackendProofs` | `TypeOK`, `SlotLedger`, `WaitingCount`, `WindowOpen`, `NoDangling` | `ServiceSpec` | `BackendAssumption` |
| `TaskPoolProofs` | `TaskOwned`, `JoinedMeansDone` | `ForkJoinSpec` | `PoolAssumption` |
| `SearchLifecycleProofs` | `SearcherLedger`, `RootIsVisited`, `AnswerIsDue` | `ContractSpec` | `LifecycleAssumption` |
| `SearchTreeProofs` | `TypeOK`, `InFlightLedger`, `VisitLedger`, `BoundsSound` | `SafeSolid` | `TreeAssumption` |
| `HeapCacheProofs` | `TypeOK`, `HitIsWhole`, `BucketIsWhole` | | `CacheAssumption` |
| `SelfPlayProofs` | `FilesAreWhole`, `GamesAccounted`, `ProducersCounted`, `ResignationEarned` | | `SelfPlayAssumption` |
| `UciEngineProofs` | `OneAnswerPerGo`; `PositionHonoured`; `InStep` | `SearchUndisturbed`; `MoveForThisPosition`; `SessionSpec => Spec` | `EngineAssumption`; see below |
| `PositionHistoryProofs` | `HistoryIsSuffix`, `RepetitionsCounted`, `VerdictsAgree` | | `HistoryAssumption`, `RulesAssumption` |

**Batching**, for all finite sets of workers, any threads, any buffer and minibatch
size and both producer modes.
From `BackendAssumption` only: finitely many workers, `NoGroup` not one of
them, each thread gathers for a worker, sizes positive, constructor arguments
any integers.

None of the ledgers is inductive alone. That `remaining` equals the number of
owned slots is kept by delivery only if every slot of the run carries an
owner, which the device run hides by emptying the buffer first. So `IInv` adds

* `Rotation`: which buffer fills and which runs, and what `n` and `run` are in each
  place of the server;
* `OwnersMatch`: the owners of a buffer are the groups of its inputs, or, between run
  and delivery, the first `n` of the buffer that just ran; all other slots are
  free;
* `Phases`: `in_flush`, `remaining` and the threads' places agree with the worker's;
* `UsedCovers`: a worker with slots outstanding has counted an input or is about to, so that
  ComputeBlocking cannot return at once;
* `ActiveCount`: `active_producers_` is the number of registered workers.

One lemma per action shows that it preserves `IInv`; frame lemmas cover what an
action cannot disturb; delivery, the hardest, counts the slots removed from each
group with cardinalities. `NoDangling` follows from `OwnersMatch`, `Phases` and
`SlotLedger`. The refinement maps a slot to a ticket: adding is `Request`,
the device run is `Evaluate`, Flush is `Await` and `Return`, every other step
stutters.

**Task pool**, for any finite set of task threads beside either kind of backend.
Inside a round `task_count` is the number of tasks and `tasks_taken` lags behind
it; from the join to the end of `ResetTasks` the three counters are set back one by
one, and what keeps polling threads away is that `tasks_taken` is never below
`task_count` (`Counts`), and that a thread which read `tasks_taken` earlier read
one that is too large (`HoldersTest`). `Completions` counts the threads at work,
so that the join's comparison means that there are none.

**Search**, for any number of workers, any limit of searchers and of playouts.
`RootIsVisited` asks who will visit the root while nobody has: a worker comes back
with nothing only if another holds something to back up, and that one does not
leave before it did (`SomebodyWill`, `Held`). That the watchdog is none of the
workers is part of the assumption.

**Search tree**, for any finite sets of workers and positions, any game tree
without circles, any game ends, draws, repetitions and network values, any
thresholds and any bounds. The bounds of the run (`MaxVisits`, `MaxPicks`,
`MaxMultivisit`) guard actions; the theorems assume nothing of them.
None of the three ledgers is inductive. `IInv` is

* `LedgerIn`, `CountsHold`, `TreeHolds`: the ledger of flights, the root's visits, and
  for each node its visits, its values and its bounds;
* `NodeHolds`, in `TreeHolds`: what nodes keep that the ledger of visits does not speak of.
  A node proved terminal is not in it, but may be the root of the next search,
  where `MakeNotTerminal` counts again: so it has no fewer visits than its
  children and itself, and only expanded nodes have visited children;
* `EntriesHold`: the way to a node in a minibatch leads over expanded nodes, and unless
  the entry is a collision, the node is new or terminal, and no stale repetition.
  Without the last, a two-fold draw that is counted could be taken back while a
  visit to it is under way;
* `OneVisitorIn`: a node without visits is in one minibatch, once, as the second visitor
  could find it terminal or extended. It rests on the ledger of flights: a pick looks at
  `n_in_flight_` to see whether somebody is on the way;
* `ProgressIn`: what a minibatch may hold in each place of its worker; `ReleasedIn`: nodes
  outside the tree of this search are as allocated.

That `initial_visits_`, which the two-fold correction lowers, does not pass zero is
not clear from the code. The invariant has it that the visits of the stale
repetitions still in the tree (`Found`) are among those found, and a repetition of
this search is never stale in it.

A back-up is one step that goes up to the root. It is proved node by node: `Visited`
says what the node itself gets, `Learns` what its parent learns from its bounds, and
along the way (`Arrives`, `Terms`) each node has got exactly one visit, one flight less,
and the value of the leaf with the sign of its ply and the adjustment of those below
it that became terminal. A two-fold correction takes the same visits back from all
nodes above (`IsCorrected`). The flights change by the same number on one way
(`FlightsHold`, `LedgerMove`), whether that is a pick, a collision given back, or a
back-up. `SafeSolid` follows from the ledger: `MakeSolid` looks for flights in the
children, and nobody has a child that is not in flight (`SafeIn`, `Settled`).

First, however, the operators. `Subtree`, `PathFrom`, `Known`, `way` and the sums are
recursive: a proof first has to show that there is a function as the definition says,
and that there is one only. Both go by induction: over the numbers (`Counting`) for
sums and sequences, and over the game tree for the others (`FromLeaves`: a set
that holds a node whenever it holds its children holds all of them, because of
positions outside of it one would come last). From there on the lemmas are about
sums: what happens when one term changes (`SumChange`), over two sets (`SumUnion`).

**Cache**, for any threads, positions, hashes, table and arena sizes. The seqlock:
who finds a bucket's sequence odd keeps out, so it has one writer (`OneWriter`),
of which `WriterOK` says how far it got; `BucketOK` says that an even bucket is
whole; `ReaderOK`, that what a reader copied is what the bucket still holds
if the sequence is the one it began with. The arena is outside the seqlock: there
only the checksum, itself read under the seqlock, makes a hit whole (`HitOK`),
and `arena_head` is not needed. That sequence numbers do not wrap and that the
checksum tells lists of priors apart are assumptions of the module.

**Self-play**, for any number of workers, games, plies, kills and failures.
A file is whole under its final name because it is under the temporary one when it
is renamed (`TmpIsWhole`), which needs that nobody else writes there, hence that
nobody else plays that game (`OneEach`), hence that a number is never handed out
twice (`GamesAreTaken`). `Settled` and `DoneCounts` do the same for the counts.
`ProducersCounted` is stated with the cardinality of the set of threads that have
entered and not left, so that a worker that leaves takes out its own and no more
(`Producing`). For `ResignationEarned` the invariant says of each side's streak
that so many of its latest late turns were judged lost, whatever the other side
judged between them (`StreakCounts`), and the winner of a resigned game is read
off it at the step that ends it (`Earned`).

**UCI engine**, for any sets of games and moves and any order of commands.
`OneAnswerPerGo` and `SearchUndisturbed` rest on what each place of a handler
implies for the search thread: after the join there is none (`Joined`), and
`searching_` is set exactly while one is there (`SearchingIs`); `Owed` relates
what the client waits for to the thread and to a `go` that is still in its
handler. `SearchUndisturbed` is proved for clients that send `setoption` only
between searches (`ClientSetsWhenIdle`), as the manual has it
(`custom_engine/HUONG_DAN.md:205`), and is false of others (see the hazards);
`PositionHonoured` for clients that send legal moves (`ClientPlaysLegal`), and
finding 2 is what happens with others. For the latter the invariant relates the
remembered position and move list to the tree (`Remembered`) and to the position
under way in the handler (`Pending`).

**Client and engine**, for any game, any number of tasks and a user who waits for
the board (`PatientUser`; finding 3 shows what happens with others). A session is
first shown to use the engine only as a client may (`EngineInSession`), so that
the engine's own invariants hold in it; that every game the client sends is legal
is not assumed but proved (`OneMoreMove`). While no answer is late, one call is
under way at most, with one request, and the invariant follows that request: in the
pipe, in the handler, with the search, on the way back, or with the task
(`OnItsWay`, `Awaiting`, `Served`). `Books` says for each await what the client has
recorded by then, and `InStep` is what is left of it when the call has ended.

`MoveForThisPosition` goes on from there, past the first answer that came too late.
When it is given up for, either its request was none of a search, and then from that
moment on a search is the one asked for by the task that awaits it, whose `go` comes
last in the pipe (`SearchesMatch`); or it was one of a search, and then what the
forgotten search still says is about the tree that stands, or arrives before the
`readyok` of the move that changes the tree (`MovesMatch`). The timeout decides which
(`FirstLate`), each is kept by every later step, and `MovesFit` follows from both.
After a second late answer neither need hold, and the property claims nothing. TLC
checked the invariant on the instance of `gui_patient` before it was proved.

**Histories**, for any graph of positions, any order of `0 <= Rule50 <= KeepCount <
TrimAt` and any lengths of games and lines within `Capacity`. `Trim` and
`TrimHistory` loop: each is first shown to equal what it comes to (`TrimIs`,
`ReplayIs`). The invariant behind `HistoryIsSuffix` (`Holds`) says of all that a
history keeps which place of the whole game it is, and what the clock of rule 50
was there; `HInv` adds that a line has as many positions beyond those of the game
as moves were made on it, so that what is taken back is never the game's.
`RepetitionsCounted` then rests on the rules. Between two occurrences of a position
the clock never stops (`NoZeroingBetween`), hence all of them lie within it, hence,
as `Rule50 <= KeepCount`, within what is kept; they are an even number of plies and
at least four apart (`ComesBack`); and where the walk stops early because the
clock of the position it stands on is below two, no occurrence lies before
(`WalkBack`). That every kept position has the count of the whole game while rule
50 has not ended it is the invariant `CInv`. Without the condition it is false:
beyond rule 50 occurrences may be forgotten, and the game is over anyhow.

Every invariant and every action property of the passing runs is a theorem here.
Only model-checked is progress (liveness and fairness are beyond the prover). The prover cannot instantiate the library's
induction theorems, whose parameters are operators. What replaces them here: a set
of natural numbers that is not empty has a least element (`Least`), or one that holds
zero and successors is all of them (`Counting`), which gives induction along
sequences, games and finite sets; and a recursive function is what a formula without
recursion says, once that formula is shown to satisfy its equation (`Alike`).
What such functions compute on every input, beyond what the theorems use, is not
proved.

## 6. Not modelled, and why

Of the repository's implementation lines the map names a few in a hundred. Nearly
all of the others are two vendored programs, Fairy-Stockfish's move generator
(`custom_engine/src/chess`) and a copy of lc0 (`co_vua/engine`), which this
project does not own and whose interface the models take as given. Of the
project's own C++ with state or threads, what is left out is:

* Move generation, rules, encoder: vendored or pure data of a size that TLC cannot
  enumerate. Legal moves and results are inputs of the models.
* The network run, tablebases, logging, number parsing, time formatting.
* The PUCT formula, noise, smart pruning: they choose among what the models allow.
* A game end in which the side that just moved has lost (`TreeAssumption` has
  none): only a root that was won before the search began could be one.
* A compact cache whose ring is shorter than one list of priors, which takes a
  capacity of about five entries (`CacheAssumption` excludes it).
* Weak memory: the fences of the cache and the acquire/release pairs of the pool are
  taken as sequentially consistent.
* `setoption` of a backend option followed by `isready` while a search runs:
  assumed away by `ClientSetsWhenIdle` (see the hazards).
* Data races on plain integers that only choose between two legal settings.
* The arena's loop: it is the self-play worker loop over two batching layers;
  its demands on tree, history and producers are in the models of those.
* The collector thread of `node.cc`: it only frees what was handed to it.
* The C bridge: the same engine and the same lines as in `GuiSession`, polled
  from a queue. `fz_send` ignores that `quit` asks to leave.
* Loss of power, after which a file system may have forgotten what it was
  handed: `FilesAreWhole` is about kills of the process and failing operations.
* The text of training records, `game_v6` encoding, statistics, opening book.
* Widgets, review and replay in the client; Python training; machine scripts (for
  the coordinator among them see the plan).

## 7. Plan

Done, in this order: batching (with proofs), task pool, UCI engine, search
lifecycle, cache, search tree; then the client composed with the engine,
self-play with its writer and its faults, position histories, and trees that are
trimmed or begun again.

Left to model: the coordinator of several training windows
(`co_vua/scripts/dieu_phoi/truyen_thong.py`), whose directory locks go by a
heartbeat. Its `lay_khoa` (101-124) removes an old lock and makes it anew in two
steps, a window that finds its own lock from before a restart does not renew the
heartbeat (108-110), and none is sent while games are uploaded or a machine is
awaited (186-203, 335-344). So what has to be stated first is under which
assumptions on time one window alone trains, as line 9 of the script says; no
property here covers it. Then, all of them sequential: the arena's tallies, the
milliseconds of `HandleGo`, and the index arithmetic of the encoder.

Proved, in this order: batching, the task pool, the search's threads, the cache,
self-play, the engine, the client composed with it, histories, the search tree, and
the client's session past a late answer. The liveness properties stay with TLC.
