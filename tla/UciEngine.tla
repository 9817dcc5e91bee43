------------------------------ MODULE UciEngine ------------------------------
(***************************************************************************)
(* The UCI engine app/uci_nn_engine.cc (class UciNnEngine): one thread     *)
(* handles the client's lines one at a time (HandleLine), a search runs on *)
(* search_thread_ so that `stop` and `quit` are heard while it runs.       *)
(*                                                                         *)
(* The search itself is what search/classic promises (SearchLifecycle):    *)
(* RunBlocking returns when the search was told to stop, or its stopper    *)
(* fired, and not before.  A game is a start position and the moves made   *)
(* from it; a move is legal unless it was made before.                     *)
(*                                                                         *)
(* Commands that answer with a constant or nothing (uci, d, debug) are     *)
(* left out, and so is what `go` computes its limits from.                 *)
(***************************************************************************)
EXTENDS Naturals, Sequences, SequencesExt

CONSTANTS
  StartPos,          \* kUciStartFen
  Fens,              \* start positions the client asks for
  BadFen,            \* one of them: ResetToPosition throws
  Moves,
  MaxPly,            \* bound: moves of a position command
  ClientPlaysLegal,  \* the client sends legal games only
  ClientSetsWhenIdle \* the client sends setoption while no search runs

ASSUME EngineAssumption ==
  /\ StartPos \in Fens /\ BadFen # StartPos
  /\ MaxPly \in Nat
  /\ ClientPlaysLegal \in BOOLEAN /\ ClientSetsWhenIdle \in BOOLEAN

None == [fen |-> "none", moves |-> <<>>]
Lines == UNION {[1 .. k -> Moves] : k \in 0 .. MaxPly}
Games == [fen : Fens, moves : Lines]

VARIABLES
  mpc,       \* where the engine's thread is in HandleLine
  cmd,       \* the command it handles
  tree,      \* tree_: the game its head stands for
  current,   \* current_startfen_ and current_moves_
  reuse_tree,
  backend_dirty,
  backend,        \* backend_: "none" or "built"
  thread,         \* search_thread_, and where it is
  search,         \* search_ is not null
  searching,
  stopped,        \* Search::stop_
  no_stop,        \* infinite or ponder: the stopper never fires
  search_backend, \* the backend search_ was given: "none", "live" or "freed"
  game,           \* the client: the game of its last position command
  owed            \* the client: bestmove lines it still expects

searchVars == <<thread, search, searching, stopped, no_stop>>
backendVars == <<backend_dirty, backend, search_backend>>
treeVars == <<tree, current>>
vars == <<mpc, cmd, treeVars, reuse_tree, backendVars, searchVars, game, owed>>

\* A move is made at most once in a game.
Legal(line, m) == m \notin Range(line)
Playable(line, more) ==
  \A i \in DOMAIN more : Legal(line \o SubSeq(more, 1, i - 1), more[i])
LegalPrefix(line) ==
  LET n == CHOOSE n \in 0 .. Len(line) :
             /\ Playable(<<>>, SubSeq(line, 1, n))
             /\ n < Len(line) => ~Legal(SubSeq(line, 1, n), line[n + 1])
  IN  SubSeq(line, 1, n)

StartGame == [fen |-> StartPos, moves |-> <<>>]

Init ==
  /\ mpc = "idle" /\ cmd = "none"
  /\ tree = StartGame /\ current = None
  /\ reuse_tree = TRUE
  /\ backend_dirty = TRUE /\ backend = "none" /\ search_backend = "none"
  /\ thread = "none" /\ search = FALSE /\ searching = FALSE
  /\ stopped = FALSE /\ no_stop = FALSE
  /\ game = StartGame /\ owed = 0

-----------------------------------------------------------------------------
(* The engine's thread.                                                    *)

\* ReapIfDone, with which every command begins.
ReapIfDone ==
  IF thread # "none" /\ ~searching
  THEN /\ thread = "finished"  \* join
       /\ thread' = "none"
       /\ search' = FALSE
       /\ search_backend' = "none"
  ELSE UNCHANGED <<thread, search, search_backend>>

Receive(c, pc) ==
  /\ mpc = "idle"
  /\ ReapIfDone
  /\ cmd' = c
  /\ mpc' = pc

\* setoption, for an option that is read when the backend is built ...
SetBackendOption ==
  /\ ClientSetsWhenIdle => owed = 0
  /\ Receive("setoption", "idle")
  /\ backend_dirty' = TRUE
  /\ UNCHANGED <<treeVars, reuse_tree, backend, searching, stopped, no_stop,
                 game, owed>>

\* ... and for ReuseTree.
SetReuseTree ==
  /\ Receive("setoption", "idle")
  /\ reuse_tree' = ~reuse_tree
  /\ UNCHANGED <<treeVars, backend_dirty, backend, searching, stopped,
                 no_stop, game, owed>>

IsReady ==
  /\ Receive("isready", "ensureBackend")
  /\ UNCHANGED <<treeVars, reuse_tree, backend_dirty, backend, searching,
                 stopped, no_stop, game, owed>>

\* fen, legalmoves and result read the head of the tree and answer at once.
Queries == {"fen", "legalmoves", "result"}
Query(c) ==
  /\ Receive(c, "idle")
  /\ UNCHANGED <<treeVars, reuse_tree, backend_dirty, backend, searching,
                 stopped, no_stop, game, owed>>

\* nneval evaluates on the engine's own thread, unless a search is running.
NnEval ==
  /\ Receive("nneval", IF searching THEN "idle" ELSE "ensureBackend")
  /\ UNCHANGED <<treeVars, reuse_tree, backend_dirty, backend, searching,
                 stopped, no_stop, game, owed>>

\* stop and ponderhit; ~UciNnEngine does the same.
Stop(c) ==
  /\ c \in {"stop", "destroy"}
  /\ Receive(c, "stop")
  /\ UNCHANGED <<treeVars, reuse_tree, backend_dirty, backend, searching,
                 stopped, no_stop, game, owed>>

Quit ==
  /\ Receive("quit", "abort")
  /\ UNCHANGED <<treeVars, reuse_tree, backend_dirty, backend, searching,
                 stopped, no_stop, game, owed>>

UciNewGame ==
  /\ Receive("ucinewgame", "stop")
  /\ game' = StartGame
  /\ UNCHANGED <<treeVars, reuse_tree, backend_dirty, backend, searching,
                 stopped, no_stop, owed>>

\* Mutant: sets the position without stopping the search.
Position_NoStop ==
  /\ Receive("position", "position")
  /\ game' \in Games
  /\ ClientPlaysLegal => Playable(<<>>, game'.moves)
  /\ UNCHANGED <<treeVars, reuse_tree, backend_dirty, backend, searching,
                 stopped, no_stop, owed>>

Position ==
  /\ Receive("position", "stop")
  /\ game' \in Games
  /\ ClientPlaysLegal => Playable(<<>>, game'.moves)
  /\ UNCHANGED <<treeVars, reuse_tree, backend_dirty, backend, searching,
                 stopped, no_stop, owed>>

\* Mutant: a search that runs already is left to answer this `go` as well.
Go_Ignored ==
  /\ Receive("go", IF searching THEN "idle" ELSE "stop")
  /\ owed' = owed + 1
  /\ UNCHANGED <<treeVars, reuse_tree, backend_dirty, backend, searching,
                 stopped, no_stop, game>>

Go ==
  /\ Receive("go", "stop")
  /\ owed' = owed + 1
  /\ UNCHANGED <<treeVars, reuse_tree, backend_dirty, backend, searching,
                 stopped, no_stop, game>>

\* Mutant: leaves it to the stopper to end the search.
TellSearch_NoStop ==
  /\ mpc \in {"stop", "abort"}
  /\ mpc' = "join"
  /\ UNCHANGED <<cmd, treeVars, reuse_tree, backendVars, searchVars, game, owed>>

\* StopSearch and AbortSearch up to the join.
TellSearch ==
  /\ mpc \in {"stop", "abort"}
  /\ stopped' = IF search /\ searching THEN TRUE ELSE stopped
  /\ mpc' = "join"
  /\ UNCHANGED <<cmd, treeVars, reuse_tree, backendVars, thread, search,
                 searching, no_stop, game, owed>>

JoinSearch ==
  /\ mpc = "join" /\ thread \in {"none", "finished"}
  /\ thread' = "none"
  /\ search' = FALSE /\ search_backend' = "none"
  /\ searching' = FALSE
  /\ mpc' = CASE cmd = "stop" -> "idle"
              [] cmd \in {"quit", "destroy"} -> "ended"
              [] cmd = "go" -> "ensureBackend"
              [] OTHER -> cmd
  /\ UNCHANGED <<cmd, treeVars, reuse_tree, backend_dirty, backend, stopped,
                 no_stop, game, owed>>

HandleNewGame ==
  /\ mpc = "ucinewgame"
  /\ tree' = StartGame
  /\ current' = None
  /\ mpc' = "idle"
  /\ UNCHANGED <<cmd, reuse_tree, backendVars, searchVars, game, owed>>

\* The moves of the command that are not in the tree yet.
NewMoves == SubSeq(game.moves, Len(current.moves) + 1, Len(game.moves))

\* Mutant: compares the number of moves, not the moves.
CanReuse_Longer ==
  /\ reuse_tree /\ current # None
  /\ game.fen = current.fen
  /\ Len(current.moves) <= Len(game.moves)
  /\ Playable(tree.moves, NewMoves)

\* The same start and an extension of the moves already applied: the tree is
\* advanced, unless one of the new moves is illegal.
CanReuse ==
  /\ reuse_tree /\ current # None
  /\ game.fen = current.fen
  /\ IsPrefix(current.moves, game.moves)
  /\ Playable(tree.moves, NewMoves)

HandlePosition ==
  /\ mpc = "position"
  /\ \/ /\ CanReuse
        /\ tree' = [tree EXCEPT !.moves = @ \o NewMoves]
        /\ current' = game
     \/ /\ ~CanReuse /\ game.fen # BadFen
        /\ tree' = [fen |-> game.fen, moves |-> LegalPrefix(game.moves)]
        /\ current' = game
     \/ /\ ~CanReuse /\ game.fen = BadFen
        /\ tree' = StartGame
        /\ current' = None
  /\ mpc' = "idle"
  /\ UNCHANGED <<cmd, reuse_tree, backendVars, searchVars, game, owed>>

\* A replaced or dropped backend is freed under the search that uses it.
FreeBackend == search_backend' = IF search_backend = "live" THEN "freed" ELSE search_backend

\* EnsureBackend, for isready, nneval and go.
EnsureBackend ==
  /\ mpc = "ensureBackend"
  /\ \/ /\ ~backend_dirty /\ backend = "built"
        /\ UNCHANGED <<backendVars, owed>>
        /\ mpc' = IF cmd = "go" THEN "launch" ELSE "idle"
     \/ /\ backend_dirty \/ backend = "none"
        /\ backend' = "built" /\ backend_dirty' = FALSE
        /\ FreeBackend
        /\ UNCHANGED owed
        /\ mpc' = IF cmd = "go" THEN "launch" ELSE "idle"
     \/ /\ backend_dirty \/ backend = "none"
        /\ backend' = "none"
        /\ FreeBackend
        /\ owed' = IF cmd = "go" THEN owed - 1 ELSE owed  \* bestmove 0000
        /\ mpc' = "idle"
        /\ UNCHANGED backend_dirty
  /\ UNCHANGED <<cmd, treeVars, reuse_tree, searchVars, game>>

\* The rest of HandleGo.
LaunchSearch ==
  /\ mpc = "launch"
  /\ search' = TRUE /\ search_backend' = "live"
  /\ stopped' = FALSE /\ no_stop' \in BOOLEAN
  /\ searching' = TRUE
  /\ thread' = "running"
  /\ mpc' = "idle"
  /\ UNCHANGED <<cmd, treeVars, reuse_tree, backend_dirty, backend, game, owed>>

-----------------------------------------------------------------------------
(* The search and its thread.                                              *)

StopperFires ==
  /\ thread = "running" /\ ~no_stop /\ ~stopped
  /\ stopped' = TRUE
  /\ UNCHANGED <<mpc, cmd, treeVars, reuse_tree, backendVars, thread, search,
                 searching, no_stop, game, owed>>

RunBlockingReturns ==
  /\ thread = "running" /\ stopped
  /\ thread' = "emitting"
  /\ UNCHANGED <<mpc, cmd, treeVars, reuse_tree, backendVars, search,
                 searching, stopped, no_stop, game, owed>>

\* Reads the tree, and with RootStats the backend, then sends the bestmove.
EmitBestMove ==
  /\ thread = "emitting"
  /\ thread' = "emitted"
  /\ owed' = owed - 1
  /\ UNCHANGED <<mpc, cmd, treeVars, reuse_tree, backendVars, search,
                 searching, stopped, no_stop, game>>

ThreadEnds ==
  /\ thread = "emitted"
  /\ thread' = "finished"
  /\ searching' = FALSE
  /\ UNCHANGED <<mpc, cmd, treeVars, reuse_tree, backendVars, search,
                 stopped, no_stop, game, owed>>

-----------------------------------------------------------------------------
Client ==
  \/ SetBackendOption \/ SetReuseTree \/ IsReady \/ NnEval
  \/ \E c \in Queries : Query(c)
  \/ Stop("stop") \/ Stop("destroy") \/ Quit
  \/ UciNewGame \/ Position \/ Go

Engine ==
  \/ TellSearch \/ JoinSearch \/ HandleNewGame \/ HandlePosition
  \/ EnsureBackend \/ LaunchSearch

SearchThread ==
  \/ StopperFires \/ RunBlockingReturns \/ EmitBestMove \/ ThreadEnds

Terminated == mpc = "ended" /\ UNCHANGED vars

Next == Client \/ Engine \/ SearchThread \/ Terminated
Spec == Init /\ [][Next]_vars

\* Both threads are scheduled; a client may send nothing.
Fairness == WF_vars(Engine) /\ WF_vars(SearchThread)
FairSpec == Spec /\ Fairness

-----------------------------------------------------------------------------
(* Properties.                                                             *)

Busy == thread \in {"running", "emitting"}

\* "illegal/unknown move: stop applying" (uci_nn_engine.cc:396): between two
\* commands the tree stands for the game the client sent, up to its first
\* illegal move, whether the tree was rebuilt or advanced.
PositionHonoured ==
  mpc = "idle" =>
    tree = IF game.fen = BadFen THEN StartGame
           ELSE [fen |-> game.fen, moves |-> LegalPrefix(game.moves)]

\* A `go` is answered by one bestmove: between two commands the client expects
\* one exactly while a search runs or writes its answer.
OneAnswerPerGo ==
  mpc \in {"idle", "ended"} => owed = IF Busy THEN 1 ELSE 0

\* The tree and the backend that a search works on stay as they are until it
\* has written its answer.
SearchUndisturbed ==
  [][Busy => tree' = tree /\ search_backend' # "freed"]_vars

\* A command comes back: the join of StopSearch never waits for a search that
\* was not told to stop.
CommandReturns == mpc = "join" ~> mpc \in {"idle", "ended"}
=============================================================================
