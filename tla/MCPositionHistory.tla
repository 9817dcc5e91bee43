------------------------- MODULE MCPositionHistory -------------------------
(* PositionHistory for a piece of White's with three squares to go round, *)
(* one of Black's with two, a capture after which White has two, and three  *)
(* ways to end the game.                                                    *)
EXTENDS PositionHistory

Quiet(e, a, b, side) == [e |-> e, a |-> a, b |-> b, side |-> side]
Board == [e : 1 .. 2, a : 0 .. 2, b : 0 .. 1, side : {"w", "b"}]
Mate == Quiet(3, 0, 0, "w")
Stalemate == Quiet(3, 0, 0, "b")
Checked == Quiet(3, 1, 0, "b")

MCPositions == Board \cup {Mate, Stalemate, Checked}

WhiteMoves(p) ==
  {Quiet(p.e, a, p.b, "b") : a \in (0 .. 3 - p.e) \ {p.a}}
  \cup (IF p.a = 1 /\ p.e = 1 THEN {Quiet(2, 1, p.b, "b")} ELSE {})
  \cup (IF p.a = 1 THEN {Checked} ELSE IF p.b = 1 THEN {Stalemate} ELSE {})
BlackMovesOf(p) ==
  {Quiet(p.e, p.a, 1 - p.b, "w")} \cup (IF p.a = 1 THEN {Mate} ELSE {})

MCMovesOf ==
  [p \in MCPositions |-> CASE p \notin Board -> {}
                           [] p \in Board /\ p.side = "w" -> WhiteMoves(p)
                           [] p \in Board /\ p.side = "b" -> BlackMovesOf(p)]
MCStage == [p \in MCPositions |-> p.e]
MCZeroing == {m \in Board \X Board : m[1].e # m[2].e}
MCBlackToMove == {p \in MCPositions : p.side = "b"}
MCUnderCheck == {Mate}
MCWonBy == [p \in MCPositions |-> IF p = Checked THEN "white" ELSE "nobody"]
MCStarts == {[pos |-> Quiet(1, 0, 0, "w"), rule50 |-> 0],
             [pos |-> Quiet(1, 2, 1, "b"), rule50 |-> 3]}
=============================================================================
