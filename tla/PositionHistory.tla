-------------------------- MODULE PositionHistory --------------------------
(***************************************************************************)
(* The positions of a game and of a line searched from it:                 *)
(* PositionHistory (lczero_chess/chess/position.cc), the game NodeTree     *)
(* plays (MakeMove, search/classic/node.cc) and the copy of it on which a  *)
(* SearchWorker walks lines of its tree (ExtendNode, PrefetchIntoCache).   *)
(*                                                                         *)
(* A history forgets: of a long game only the last KeepCount positions are *)
(* kept, a move taken back restores what was noted of the position before, *)
(* and repetitions are found by a walk back that stops early.  The whole   *)
(* game is kept beside it (game, path), to say what it should know.        *)
(*                                                                         *)
(* The rules of the variant are a constant graph of positions; a move is   *)
(* the position it leads to.  A position is what the hash tells apart.     *)
(***************************************************************************)
EXTENDS Integers, Sequences, FiniteSets, FiniteSetsExt, SequencesExt

CONSTANTS
  Positions,
  MovesOf,      \* GenerateLegalMoves of a position
  Stage,        \* how far captures and pawns have brought a position
  Zeroing,      \* the moves, as pairs, that are captures or moves of a pawn
  BlackToMove, UnderCheck,  \* sets of positions
  WonBy,        \* who has given all checks: "white", "black" or "nobody"
  Starts,       \* where games begin: [pos, rule50], as a FEN gives them
  Rule50,       \* 100 in the code
  KeepCount,    \* 100: what TrimHistory keeps
  TrimAt,       \* 200: the length at which it is called
  Capacity,     \* 512: the size of history_
  MaxPlies,     \* bound: moves of a game
  MaxDepth      \* bound: moves of a line

\* The assertion of TrimHistory, and what the array of 512 is sized for.
ASSUME HistoryAssumption ==
  /\ MovesOf \in [Positions -> SUBSET Positions]
  /\ Zeroing \subseteq Positions \X Positions
  /\ BlackToMove \subseteq Positions /\ UnderCheck \subseteq Positions
  /\ WonBy \in [Positions -> {"white", "black", "nobody"}]
  /\ Starts \subseteq [pos : Positions, rule50 : Nat]
  /\ Rule50 \in Nat /\ KeepCount \in Nat /\ TrimAt \in Nat /\ Capacity \in Nat
  /\ MaxPlies \in Nat /\ MaxDepth \in Nat
  /\ Rule50 <= KeepCount /\ KeepCount < TrimAt
  /\ TrimAt + MaxDepth <= Capacity

\* What the walk back takes for granted of the rules (LUAT_BIEN_THE.md): a move
\* gives the turn to the other side, no move is taken back by the reply to it,
\* and none takes back a capture or a move of a pawn.
ASSUME RulesAssumption ==
  /\ Stage \in [Positions -> Nat]
  /\ \A p \in Positions : \A m \in MovesOf[p] :
       /\ m \in BlackToMove <=> p \notin BlackToMove
       /\ p \notin MovesOf[m]
       /\ Stage[m] >= Stage[p] /\ (<<p, m>> \in Zeroing => Stage[m] > Stage[p])

VARIABLES
  played,  \* history_ of the NodeTree
  searching,
  line,    \* history_ of a SearchWorker, while there is one
  fresh,   \* the line's last position was appended, not gone back to
  start, game, path  \* history: where the game began, all its positions, and
                     \* those of the line beyond them

vars == <<played, searching, line, fresh, start, game, path>>

-----------------------------------------------------------------------------
(* PositionHistory: a record of starting_position_, the entries history_   *)
(* (a position before its move, and the move) and last_position_.          *)

Never == 10000
Reset(at) ==
  [starting |-> at, entries |-> <<>>,
   last |-> [pos |-> at.pos, rule50 |-> at.rule50, repetitions |-> 0, since |-> Never]]

GetLength(h) == Len(h.entries) + 1
Rule50After(at, m) == IF <<at.pos, m>> \in Zeroing THEN 0 ELSE at.rule50 + 1

\* Where the walk back stops: at the same position, or where the positions of
\* the other parity before it cannot repeat.
\* Mutant: it stops one irreversible move too early.
Stops_Early(entries, pos) ==
  {i \in 1 .. Len(entries) - 3 :
     /\ (Len(entries) - i) % 2 = 1
     /\ entries[i].pos = pos \/ entries[i].rule50 <= 2}
Stops(entries, pos) ==
  {i \in 1 .. Len(entries) - 3 :
     /\ (Len(entries) - i) % 2 = 1
     /\ entries[i].pos = pos \/ entries[i].rule50 < 2}

\* ComputeLastMoveRepetitions: how often, and how many plies ago.
Repetitions(entries, pos, rule50) ==
  LET stops == Stops(entries, pos)
      i == Max(stops)
  IN  IF rule50 < 4 \/ stops = {} \/ entries[i].pos # pos
      THEN [count |-> 0, plies |-> Never]
      ELSE [count |-> 1 + entries[i].repetitions, plies |-> Len(entries) + 1 - i]

\* A history that is full only moves its last position.
AppendMove(h, m) ==
  LET rule50 == Rule50After(h.last, m)
      entry == [pos |-> h.last.pos, rule50 |-> h.last.rule50,
                repetitions |-> h.last.repetitions, move |-> m]
      entries == IF Len(h.entries) < Capacity THEN Append(h.entries, entry)
                 ELSE h.entries
      found == Repetitions(entries, m, rule50)
  IN  [h EXCEPT !.entries = entries,
                !.last = [pos |-> m, rule50 |-> rule50,
                          repetitions |-> found.count, since |-> found.plies]]

\* UndoMove does not give back plies_since_prev_repetition_.
\* Mutant: what was noted of the position before is not given back either.
Pop_Bare(h) ==
  IF h.entries = <<>> THEN h
  ELSE [h EXCEPT !.entries = Front(h.entries), !.last.pos = Last(h.entries).pos]
Pop(h) ==
  IF h.entries = <<>> THEN h
  ELSE LET before == Last(h.entries)
       IN  [h EXCEPT !.entries = Front(h.entries),
                     !.last = [@ EXCEPT !.pos = before.pos, !.rule50 = before.rule50,
                                        !.repetitions = before.repetitions]]

\* Trim, as repeated Pop.
Trim(h, length) ==
  IF GetLength(h) <= length THEN h
  ELSE LET pops == GetLength(h) - length
           popped[k \in 0 .. pops] == IF k = 0 THEN h ELSE Pop(popped[k - 1])
       IN  popped[pops]

\* Mutant: the start of what is kept is the start of the game.
TrimHistory_Start(h, keep) ==
  IF Len(h.entries) <= keep THEN h
  ELSE [h EXCEPT !.entries = SubSeq(h.entries, Len(h.entries) - keep + 1, Len(h.entries))]
TrimHistory(h, keep) ==
  IF Len(h.entries) <= keep THEN h
  ELSE LET discard == Len(h.entries) - keep
           DoMove(at, m) == [pos |-> m, rule50 |-> Rule50After(at, m)]
           replayed[i \in 0 .. discard] ==
             IF i = 0 THEN h.starting ELSE DoMove(replayed[i - 1], h.entries[i].move)
       IN  [h EXCEPT !.starting = replayed[discard],
                     !.entries = SubSeq(h.entries, discard + 1, Len(h.entries))]

-----------------------------------------------------------------------------
(* Results.  An absolute one names the winner.  In a relative one, for the *)
(* tree, "white_won" means that the side to move has lost.                 *)

NoMoves(h) == MovesOf[h.last.pos] = {}
BlackMoves(h) == h.last.pos \in BlackToMove
MoverLost(h) == IF BlackMoves(h) THEN "white_won" ELSE "black_won"

ComputeGameResult(h) ==
  CASE WonBy[h.last.pos] = "white" -> "white_won"
    [] WonBy[h.last.pos] = "black" -> "black_won"
    [] OTHER ->
       IF h.last.rule50 >= Rule50
       THEN IF h.last.pos \in UnderCheck /\ NoMoves(h) THEN MoverLost(h) ELSE "draw"
       ELSE IF h.last.repetitions >= 2 THEN "draw"
       ELSE IF NoMoves(h) THEN MoverLost(h) ELSE "undecided"

\* Mutant: without the exception for a stalemate on the last ply of rule 50.
ComputeMctsResult_NoException(h) ==
  CASE WonBy[h.last.pos] = "white" -> IF BlackMoves(h) THEN "white_won" ELSE "black_won"
    [] WonBy[h.last.pos] = "black" -> IF BlackMoves(h) THEN "black_won" ELSE "white_won"
    [] OTHER -> IF NoMoves(h) THEN "white_won" ELSE "undecided"
ComputeMctsResult(h) ==
  CASE WonBy[h.last.pos] = "white" -> IF BlackMoves(h) THEN "white_won" ELSE "black_won"
    [] WonBy[h.last.pos] = "black" -> IF BlackMoves(h) THEN "black_won" ELSE "white_won"
    [] OTHER ->
       IF ~NoMoves(h) THEN "undecided"
       ELSE IF h.last.rule50 >= Rule50 /\ h.last.pos \notin UnderCheck THEN "draw"
       ELSE "white_won"

\* What ExtendNode makes of a node below the root, if it becomes terminal and
\* not for a repetition that a later search takes back.
TerminalVerdict(h) ==
  LET mcts == ComputeMctsResult(h)
  IN  IF mcts # "undecided" THEN mcts
      ELSE IF h.last.rule50 >= Rule50 \/ h.last.repetitions >= 2 THEN "draw"
      ELSE "undecided"

-----------------------------------------------------------------------------
Init ==
  /\ start \in Starts
  /\ played = Reset(start)
  /\ searching = FALSE /\ line = Reset(start) /\ fresh = FALSE
  /\ game = <<start.pos>> /\ path = <<>>

\* NodeTree::MakeMove, between two searches.  A client may play on after a draw.
MakeMove(m) ==
  /\ ~searching
  /\ Len(game) <= MaxPlies
  /\ m \in MovesOf[played.last.pos]
  /\ LET h == AppendMove(played, m)
     IN  played' = IF GetLength(h) >= TrimAt THEN TrimHistory(h, KeepCount) ELSE h
  /\ game' = Append(game, m)
  /\ UNCHANGED <<searching, line, fresh, start, path>>

\* NodeTree::ResetToPosition: the next game, also on a history that was used.
ResetToPosition(at) ==
  /\ ~searching
  /\ played' = Reset(at)
  /\ start' = at /\ game' = <<at.pos>>
  /\ UNCHANGED <<searching, line, fresh, path>>

\* A search begins: its workers copy played_history_.
StartSearch ==
  /\ ~searching /\ searching' = TRUE
  /\ line' = played /\ fresh' = FALSE
  /\ UNCHANGED <<played, start, game, path>>

EndSearch ==
  /\ searching /\ searching' = FALSE
  /\ line' = Reset(start) /\ fresh' = FALSE
  /\ path' = <<>>
  /\ UNCHANGED <<played, start, game>>

\* Another node: back to the root first.
ToRoot ==
  /\ path # <<>>
  /\ line' = Trim(line, GetLength(played)) /\ fresh' = FALSE
  /\ path' = <<>>
  /\ UNCHANGED <<played, searching, start, game>>

\* A line goes on below a node that is not terminal; the root never is.
Descend(m) ==
  /\ searching /\ Len(path) < MaxDepth
  /\ path = <<>> \/ TerminalVerdict(line) = "undecided"
  /\ m \in MovesOf[line.last.pos]
  /\ line' = AppendMove(line, m) /\ fresh' = TRUE
  /\ path' = Append(path, m)
  /\ UNCHANGED <<played, searching, start, game>>

\* PrefetchIntoCache returns from a child.
Return ==
  /\ path # <<>>
  /\ line' = Pop(line) /\ fresh' = FALSE
  /\ path' = Front(path)
  /\ UNCHANGED <<played, searching, start, game>>

Next ==
  \/ \E m \in Positions : MakeMove(m) \/ Descend(m)
  \/ \E at \in Starts : ResetToPosition(at)
  \/ StartSearch \/ EndSearch \/ ToRoot \/ Return

Spec == Init /\ [][Next]_vars

-----------------------------------------------------------------------------
(* What is true of a whole game g, and the properties.                     *)

TrueRule50(g) ==
  LET zeroing == {i \in 2 .. Len(g) : <<g[i - 1], g[i]>> \in Zeroing}
  IN  IF zeroing = {} THEN start.rule50 + Len(g) - 1 ELSE Len(g) - Max(zeroing)
Earlier(g) == {i \in 1 .. Len(g) - 1 : g[i] = g[Len(g)]}
TrueResult(g) ==
  LET pos == g[Len(g)]
      mover_lost == IF pos \in BlackToMove THEN "white_won" ELSE "black_won"
      mated == MovesOf[pos] = {} /\ pos \in UnderCheck
  IN  CASE WonBy[pos] # "nobody" -> IF WonBy[pos] = "white" THEN "white_won" ELSE "black_won"
        [] WonBy[pos] = "nobody" /\ mated -> mover_lost
        [] OTHER -> IF TrueRule50(g) >= Rule50 \/ Cardinality(Earlier(g)) >= 2
                    THEN "draw"
                    ELSE IF MovesOf[pos] = {} THEN mover_lost ELSE "undecided"

Histories ==
  {<<played, game>>} \cup IF searching THEN {<<line, game \o path>>} ELSE {}

\* However a game was trimmed and a line gone down and taken back, a history is
\* the end of the game: "the trimmed history must stay indistinguishable from an
\* untrimmed one" (test_history.cc), for as much as it keeps.
HistoryIsSuffix ==
  \A hg \in Histories :
    LET h == hg[1]
        g == hg[2]
        gone == Len(g) - GetLength(h)
        Known(at, i) == at.pos = g[i] /\ at.rule50 = TrueRule50(SubSeq(g, 1, i))
    IN  /\ gone >= 0
        /\ Known(h.last, Len(g)) /\ Known(h.starting, gone + 1)
        /\ \A i \in 1 .. Len(h.entries) :
             Known(h.entries[i], gone + i) /\ h.entries[i].move = g[gone + i + 1]
        /\ gone > 0 => GetLength(h) > KeepCount

\* While rule 50 does not end the game, the last position's count of repetitions
\* is that of the whole game, and so is the distance to the one before, which
\* decides whether a two-fold repetition lies inside the line.
RepetitionsCounted ==
  \A hg \in Histories :
    LET last == hg[1].last
        g == hg[2]
        earlier == Earlier(g)
    IN  last.rule50 < Rule50 =>
          /\ last.repetitions = Cardinality(earlier)
          /\ (hg[1] = line => fresh) =>
               last.since = IF earlier = {} THEN Never ELSE Len(g) - Max(earlier)

\* The result of the game, and the result the search gives a node, are that of
\* the rules applied to the whole game: what the search takes for the end of a
\* line would be the end of the game, with the same winner.
VerdictsAgree ==
  /\ ComputeGameResult(played) = TrueResult(game)
  /\ path # <<>> =>
       LET verdict == TerminalVerdict(line)
           absolute == CASE verdict = "white_won" -> MoverLost(line)
                         [] verdict = "black_won" ->
                              IF BlackMoves(line) THEN "black_won" ELSE "white_won"
                         [] OTHER -> verdict
       IN  absolute = TrueResult(game \o path)
=============================================================================
