------------------------------ MODULE GuiSession ------------------------------
(***************************************************************************)
(* The graphical client (gui/lib) playing a game through the UCI engine:   *)
(* GameController and UciProcessEngine, composed with UciEngine over the   *)
(* two pipes between the processes.                                        *)
(*                                                                         *)
(* Dart runs one event at a time.  An async function is a task that stops  *)
(* at each await; a task here stands for one call of init, _playHuman or   *)
(* togglePause together with the _refresh and _maybeEngineMove that it     *)
(* awaits, and `at` is the await it has reached.  Answers reach the tasks  *)
(* through _pending, by kind and in order.  A continuation runs before the *)
(* next tap or timer, but one chunk of output may bring several lines      *)
(* before it.                                                              *)
(*                                                                         *)
(* Left out: review of earlier plies, selection of squares and promotions  *)
(* (a tap here is the one that completes a move), replay of logs, search   *)
(* records.  The handshake of start() has been done.                       *)
(***************************************************************************)
EXTENDS UciEngine, Integers, FiniteSetsExt

CONSTANTS
  Tasks,       \* bound: calls that may be under way at once
  GameLength,  \* bound: plies after which a game is over
  MaxTimeouts, \* bound: answers that come too late
  PatientUser  \* no tap or resume while a move is being sent or shown

ASSUME SessionAssumption ==
  /\ GameLength \in Nat /\ MaxTimeouts \in Nat
  /\ GameLength + MaxTimeouts <= MaxPly
  /\ PatientUser \in BOOLEAN

VARIABLES
  stdin, stdout,  \* lines on the way to the engine and back
  pending,        \* _pending: kind of line and the task that waits for it
  sent,           \* _moves of the engine service
  at, mv,         \* of each task: its await, and the move it is playing
  in_loop,        \* is it in _maybeEngineMove
  answer,         \* the line that completed its future
  self_play, human_is_white,
  moves, fens, board, legal, result,  \* GameController
  engine_thinking, paused, disposed,
  late            \* number of timeouts so far

pipes == <<stdin, stdout>>
tasks == <<at, mv, in_loop, answer>>
shown == <<moves, fens, board, legal, result>>
setup == <<self_play, human_is_white>>
controller == <<shown, engine_thinking, paused, disposed>>
sessionVars == <<pipes, pending, sent, tasks, setup, controller, late>>

NoMove == "0000"
NoLine == [kind |-> "none", tree |-> StartGame, mv |-> NoMove]
Line(kind, m) == [kind |-> kind, tree |-> tree, mv |-> m]
Command(c, g) == [cmd |-> c, game |-> g]

LegalIn(g) == IF Len(g.moves) >= GameLength THEN {} ELSE {m \in Moves : Legal(g.moves, m)}
IsOver(g) == LegalIn(g) = {}
WhiteToMove(g) == Len(g.moves) % 2 = 0

HumansTurn(g) == ~self_play /\ (WhiteToMove(g) = human_is_white)
Free(t) == at[t] = "free"
Resumable == \E t \in Tasks : answer[t] # NoLine
AtRest == \A t \in Tasks : Free(t)

\* start() has returned: the engine is ready, with a backend or without one.
\* init() goes on with newGame().
SessionInit ==
  /\ Init
  /\ \E first \in Tasks :
       /\ at = [t \in Tasks |-> IF t = first THEN "newGame" ELSE "free"]
       /\ pending = <<[kind |-> "readyok", task |-> first]>>
  /\ stdin = <<Command("ucinewgame", StartGame), Command("position", StartGame),
               Command("isready", StartGame)>>
  /\ stdout = <<>> /\ sent = <<>>
  /\ mv = [t \in Tasks |-> NoMove] /\ in_loop = [t \in Tasks |-> FALSE]
  /\ answer = [t \in Tasks |-> NoLine]
  /\ self_play \in BOOLEAN /\ human_is_white \in BOOLEAN
  /\ moves = <<>> /\ fens = <<>> /\ board = StartGame
  /\ legal = {} /\ result = FALSE
  /\ engine_thinking = FALSE /\ paused = FALSE /\ disposed = FALSE
  /\ late = 0

-----------------------------------------------------------------------------
(* The engine's process.                                                   *)

Takes(c) ==
  /\ stdin # <<>> /\ Head(stdin).cmd = c
  /\ stdin' = Tail(stdin)
Says(kind, m) == stdout' = Append(stdout, Line(kind, m))

EngineReads ==
  /\ ~disposed
  /\ \/ /\ Takes("ucinewgame") /\ UciNewGame
        /\ UNCHANGED stdout
     \/ /\ Takes("position") /\ game' = Head(stdin).game /\ Position
        /\ UNCHANGED stdout
     \/ /\ Takes("isready") /\ IsReady
        /\ UNCHANGED stdout
     \/ /\ Takes("go") /\ Go
        /\ UNCHANGED stdout
     \/ \E c \in Queries : Takes(c) /\ Query(c) /\ Says(c, NoMove)
  /\ UNCHANGED <<pending, sent, tasks, setup, controller, late>>

\* "sync: only ready AFTER (re)build", and a `go` without a backend is
\* answered at once.
EngineWorks ==
  /\ ~disposed
  /\ \/ /\ TellSearch \/ JoinSearch \/ HandleNewGame \/ HandlePosition
        /\ UNCHANGED stdout
     \/ /\ EnsureBackend
        /\ CASE cmd = "isready" -> Says("readyok", NoMove)
             [] owed' < owed -> Says("bestmove", NoMove)
             [] OTHER -> UNCHANGED stdout
     \/ /\ LaunchSearch /\ no_stop' = FALSE
        /\ UNCHANGED stdout
  /\ UNCHANGED <<stdin, pending, sent, tasks, setup, controller, late>>

Searches ==
  /\ ~disposed
  /\ \/ /\ StopperFires \/ RunBlockingReturns \/ ThreadEnds
        /\ UNCHANGED stdout
     \/ /\ EmitBestMove
        /\ \E m \in IF LegalIn(tree) = {} THEN {NoMove} ELSE LegalIn(tree) :
             Says("bestmove", m)
  /\ UNCHANGED <<stdin, pending, sent, tasks, setup, controller, late>>

-----------------------------------------------------------------------------
(* The event loop of the client.                                           *)

\* Mutant: a line without a taker at the head of the queue is kept for it.
OnLine_HeadOnly ==
  /\ stdout # <<>> /\ ~disposed
  /\ LET line == Head(stdout)
     IN  IF pending # <<>> /\ Head(pending).kind = line.kind
         THEN /\ answer' = [answer EXCEPT ![Head(pending).task] = line]
              /\ pending' = Tail(pending)
              /\ stdout' = Tail(stdout)
         ELSE UNCHANGED <<answer, pending, stdout>>
  /\ UNCHANGED <<vars, stdin, sent, at, mv, in_loop, setup, controller, late>>

\* _onLine: the first request that waits for such a line takes it.
OnLine ==
  /\ stdout # <<>> /\ ~disposed
  /\ stdout' = Tail(stdout)
  /\ LET line == Head(stdout)
         takers == {i \in DOMAIN pending : pending[i].kind = line.kind}
     IN  IF takers = {} THEN UNCHANGED <<answer, pending>>
         ELSE /\ answer' = [answer EXCEPT ![pending[Min(takers)].task] = line]
              /\ pending' = RemoveAt(pending, Min(takers))
  /\ UNCHANGED <<vars, stdin, sent, at, mv, in_loop, setup, controller, late>>

\* A task sends its lines and awaits the answer of a kind.
Awaits(t, place, kind, lines) ==
  /\ stdin' = stdin \o lines
  /\ pending' = Append(pending, [kind |-> kind, task |-> t])
  /\ at' = [at EXCEPT ![t] = place]

\* applyMove.
SendsMove(t, place, m) ==
  /\ sent' = Append(sent, m)
  /\ mv' = [mv EXCEPT ![t] = m]
  /\ Awaits(t, place, "readyok",
       <<Command("position", [fen |-> StartPos, moves |-> sent']),
         Command("isready", StartGame)>>)

\* currentFen, with which _refresh begins.
AsksFen(t) == Awaits(t, "fen", "fen", <<Command("fen", StartGame)>>)

\* The loop of _maybeEngineMove: another search, or the end of the call.
ThinksOrEnds(t, over) ==
  IF \/ over \/ HumansTurn(board) \/ (self_play /\ paused)
  THEN /\ at' = [at EXCEPT ![t] = "free"]
       /\ in_loop' = [in_loop EXCEPT ![t] = FALSE]
       /\ mv' = [mv EXCEPT ![t] = NoMove]
       /\ UNCHANGED <<stdin, pending, engine_thinking>>
  ELSE /\ engine_thinking' = TRUE
       /\ in_loop' = [in_loop EXCEPT ![t] = TRUE]
       /\ Awaits(t, "bestMove", "bestmove", <<Command("go", StartGame)>>)
       /\ UNCHANGED mv

Answered(t, place) ==
  /\ at[t] = place /\ answer[t] # NoLine
  /\ answer' = [answer EXCEPT ![t] = NoLine]
  /\ UNCHANGED <<vars, stdout, setup, paused, disposed, late>>

NewGameReady(t) ==
  /\ Answered(t, "newGame")
  /\ AsksFen(t)
  /\ UNCHANGED <<sent, mv, in_loop, shown, engine_thinking>>

\* _playHuman, after applyMove: _recordMove and _refresh.
HumanMoveApplied(t) ==
  /\ Answered(t, "applyHuman")
  /\ moves' = Append(moves, mv[t])
  /\ AsksFen(t)
  /\ UNCHANGED <<sent, mv, in_loop, fens, board, legal, result, engine_thinking>>

\* _refresh, await by await.  Mutant: the position is recorded unasked.
FenKnown_Always(t) ==
  /\ Answered(t, "fen")
  /\ fens' = Append(fens, answer[t].tree)
  /\ board' = answer[t].tree
  /\ Awaits(t, "legal", "legalmoves", <<Command("legalmoves", StartGame)>>)
  /\ UNCHANGED <<sent, mv, in_loop, moves, legal, result, engine_thinking>>

FenKnown(t) ==
  /\ Answered(t, "fen")
  /\ fens' = IF Len(fens) = Len(moves) THEN Append(fens, answer[t].tree) ELSE fens
  /\ board' = answer[t].tree
  /\ Awaits(t, "legal", "legalmoves", <<Command("legalmoves", StartGame)>>)
  /\ UNCHANGED <<sent, mv, in_loop, moves, legal, result, engine_thinking>>

LegalKnown(t) ==
  /\ Answered(t, "legal")
  /\ legal' = LegalIn(answer[t].tree)
  /\ Awaits(t, "result", "result", <<Command("result", StartGame)>>)
  /\ UNCHANGED <<sent, mv, in_loop, moves, fens, board, result, engine_thinking>>

\* The end of _refresh.  A game against a human stops after one move of the
\* engine, and any game after the answer 0000.
ResultKnown(t) ==
  /\ Answered(t, "result")
  /\ result' = IsOver(answer[t].tree)
  /\ ThinksOrEnds(t, result' \/ (in_loop[t] /\ (mv[t] = NoMove \/ ~self_play)))
  /\ UNCHANGED <<sent, moves, fens, board, legal>>

\* bestMove returned: the move is applied, or there is none.
BestMoveKnown(t) ==
  /\ Answered(t, "bestMove")
  /\ \/ /\ answer[t].mv # NoMove
        /\ SendsMove(t, "applyEngine", answer[t].mv)
        /\ UNCHANGED engine_thinking
     \/ /\ answer[t].mv = NoMove
        /\ engine_thinking' = FALSE
        /\ mv' = [mv EXCEPT ![t] = NoMove]
        /\ AsksFen(t)
        /\ UNCHANGED sent
  /\ UNCHANGED <<in_loop, shown>>

EngineMoveApplied(t) ==
  /\ Answered(t, "applyEngine")
  /\ moves' = Append(moves, mv[t])
  /\ engine_thinking' = FALSE
  /\ AsksFen(t)
  /\ UNCHANGED <<sent, mv, in_loop, fens, board, legal, result>>

\* The timer of _expect: the request is withdrawn and its task fails.  What
\* it awaited may still come.  (When it is init that fails, its catch also draws
\* the start board again, on which there may be less to tap; that is left out.)
TimesOut(t) ==
  /\ ~Resumable /\ late < MaxTimeouts
  /\ \E i \in DOMAIN pending : pending[i].task = t /\ pending' = RemoveAt(pending, i)
  /\ at' = [at EXCEPT ![t] = "free"]
  /\ mv' = [mv EXCEPT ![t] = NoMove]
  /\ in_loop' = [in_loop EXCEPT ![t] = FALSE]
  /\ engine_thinking' =
       IF at[t] \in {"bestMove", "applyEngine"} THEN FALSE ELSE engine_thinking
  /\ late' = late + 1
  /\ UNCHANGED <<vars, pipes, sent, answer, setup, shown, paused, disposed>>

\* The user acts between two events; a patient one waits for the board.
UserActs ==
  /\ ~Resumable /\ ~disposed
  /\ PatientUser => AtRest \/ engine_thinking

\* onTapSquare or endDrag completes a move: _playHuman.
Tap(t, m) ==
  /\ UserActs /\ Free(t)
  /\ ~engine_thinking /\ ~result /\ HumansTurn(board)
  /\ m \in legal /\ Len(sent) < MaxPly
  /\ SendsMove(t, "applyHuman", m)
  /\ UNCHANGED <<vars, stdout, in_loop, answer, setup, controller, late>>

\* Mutant: resumes whether or not the engine is thinking.
TogglePause_Unasked(t) ==
  /\ UserActs /\ self_play /\ ~result /\ Free(t)
  /\ paused' = ~paused
  /\ IF ~paused'
     THEN /\ engine_thinking' = TRUE
          /\ in_loop' = [in_loop EXCEPT ![t] = TRUE]
          /\ Awaits(t, "bestMove", "bestmove", <<Command("go", StartGame)>>)
     ELSE UNCHANGED <<at, in_loop, stdin, pending, engine_thinking>>
  /\ UNCHANGED <<vars, stdout, sent, mv, answer, setup, shown, disposed, late>>

\* togglePause: resuming starts the loop again unless the engine is thinking.
TogglePause(t) ==
  /\ UserActs /\ self_play /\ ~result /\ Free(t)
  /\ paused' = ~paused
  /\ IF ~paused' /\ ~engine_thinking
     THEN /\ engine_thinking' = TRUE
          /\ in_loop' = [in_loop EXCEPT ![t] = TRUE]
          /\ Awaits(t, "bestMove", "bestmove", <<Command("go", StartGame)>>)
     ELSE UNCHANGED <<at, in_loop, stdin, pending, engine_thinking>>
  /\ UNCHANGED <<vars, stdout, sent, mv, answer, setup, shown, disposed, late>>

\* dispose(): the process is killed, every request fails.
Dispose ==
  /\ ~Resumable /\ ~disposed
  /\ disposed' = TRUE
  /\ stdin' = <<>> /\ stdout' = <<>> /\ pending' = <<>>
  /\ at' = [t \in Tasks |-> "free"] /\ mv' = [t \in Tasks |-> NoMove]
  /\ in_loop' = [t \in Tasks |-> FALSE]
  /\ engine_thinking' = FALSE
  /\ UNCHANGED <<vars, sent, answer, setup, shown, paused, late>>

-----------------------------------------------------------------------------
Continues(t) ==
  \/ NewGameReady(t) \/ HumanMoveApplied(t) \/ FenKnown(t) \/ LegalKnown(t)
  \/ ResultKnown(t) \/ BestMoveKnown(t) \/ EngineMoveApplied(t)

SessionNext ==
  \/ EngineReads \/ EngineWorks \/ Searches
  \/ OnLine \/ \E t \in Tasks : Continues(t) \/ TimesOut(t) \/ TogglePause(t)
  \/ \E t \in Tasks, m \in Moves : Tap(t, m)
  \/ Dispose
  \/ disposed /\ UNCHANGED <<vars, sessionVars>>

SessionSpec == SessionInit /\ [][SessionNext]_<<vars, sessionVars>>

\* The engine's threads and the client's event loop are scheduled; a search with
\* a limit ends.  The user need not do anything, and answers need not be late.
SessionFairness ==
  /\ WF_<<vars, sessionVars>>(EngineReads) /\ WF_<<vars, sessionVars>>(EngineWorks)
  /\ WF_<<vars, sessionVars>>(Searches) /\ WF_<<vars, sessionVars>>(OnLine)
  /\ \A t \in Tasks : WF_<<vars, sessionVars>>(Continues(t))
FairSessionSpec == SessionSpec /\ SessionFairness

-----------------------------------------------------------------------------
(* Properties.                                                             *)

AfterPlies(k) == [fen |-> StartPos, moves |-> SubSeq(moves, 1, k)]

\* "fens[0] is the start position, fens[k] the position after move k (length
\* moves.length + 1)" (game_controller.dart:36-37), whenever no call is under
\* way and no answer has been late.
FensAligned ==
  AtRest /\ ~disposed /\ late = 0 =>
    /\ Len(fens) = Len(moves) + 1
    /\ \A k \in DOMAIN fens : fens[k] = AfterPlies(k - 1)

\* The client and the engine are at the same place of the same game: what is
\* drawn, what may be tapped, what was recorded and what the engine would think
\* about agree when no call is under way, though each reached its side through
\* its own pipe and its own bookkeeping.
InStep ==
  AtRest /\ ~disposed /\ late = 0 =>
    /\ FensAligned
    /\ sent = moves /\ tree = AfterPlies(Len(moves))
    /\ board = tree /\ legal = LegalIn(tree) /\ result = IsOver(tree)
    /\ ~engine_thinking /\ stdin = <<>>

\* A move the engine found is played in the position it was found for, also
\* when one answer was given up for late and comes after all, such as that of
\* an earlier search.  (A second one would defeat it.)
MoveForThisPosition ==
  [][\A t \in Tasks : late <= 1 /\ at[t] = "bestMove" /\ at'[t] = "applyEngine" =>
       /\ answer[t].tree = tree
       /\ \A i \in DOMAIN stdin : stdin[i].cmd # "position"]_<<vars, sessionVars>>

\* Every call comes to its end, unless the answers do not: no task waits for a
\* line that another one took.
ComesToRest == ~AtRest ~> AtRest
=============================================================================
