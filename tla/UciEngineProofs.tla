--------------------------- MODULE UciEngineProofs ---------------------------
(***************************************************************************)
(* Proofs about UciEngine for any start positions, moves and lengths of    *)
(* games, and any sequence of commands, and about GuiSession, its client.  *)
(*                                                                         *)
(* OneAnswerPerGo looks at the engine between two commands; within one, a  *)
(* `go` is owed from its arrival to its launch (Owed), and a search that   *)
(* was reaped or joined is gone (Joined).  SearchUndisturbed rests on a    *)
(* search having the one backend there is, with nothing set since          *)
(* (Equipped), and PositionHonoured on what current_moves_ remembers being *)
(* exactly what the tree stands for (Remembered).                          *)
(*                                                                         *)
(* InStep looks at the session between two calls of the client.  Within    *)
(* one, a single request is open or answered, and OnItsWay says where the  *)
(* lines of it are: in the pipe, in the handler that the engine is in, or  *)
(* with the search; Books says how far the client has written it down.     *)
(*                                                                         *)
(* MoveForThisPosition looks further, past one late answer.  There the     *)
(* engine may be behind by one answer, and what is on its way need not     *)
(* belong to the call that waits.  One of two things still holds: each     *)
(* search is the one that was asked for (SearchesMatch), or the tree is    *)
(* the one that every search has been about (MovesMatch).                  *)
(***************************************************************************)
EXTENDS GuiSession, SequenceTheorems, WellFoundedInduction, TLAPS

PlainCommands == {"isready", "nneval"}
StopCommands == {"stop", "destroy", "quit"}
Commands == PlainCommands \cup StopCommands \cup Queries
            \cup {"none", "setoption", "ucinewgame", "position", "go"}

Lined == [fen : Fens, moves : Seq(Moves)]

TypeOK ==
  /\ mpc \in {"idle", "stop", "abort", "join", "ensureBackend", "launch",
              "ucinewgame", "position", "ended"}
  /\ cmd \in Commands
  /\ thread \in {"none", "running", "emitting", "emitted", "finished"}
  /\ search \in BOOLEAN /\ searching \in BOOLEAN
  /\ stopped \in BOOLEAN /\ no_stop \in BOOLEAN
  /\ backend_dirty \in BOOLEAN /\ backend \in {"none", "built"}
  /\ search_backend \in {"none", "live", "freed"}
  /\ reuse_tree \in BOOLEAN
  /\ owed \in Int
  /\ game \in Lined /\ tree \in Lined
  /\ current # None => current \in Lined

\* Where each command's handler can be.
InHandler ==
  /\ mpc \in {"stop", "join"} => cmd \in {"stop", "destroy", "quit", "ucinewgame", "position", "go"}
  /\ mpc = "abort" => cmd = "quit"
  /\ mpc = "ensureBackend" => cmd \in PlainCommands \cup {"go"}
  /\ mpc = "launch" => cmd = "go"
  /\ mpc \in {"ucinewgame", "position"} => cmd = mpc

Alive == thread \in {"running", "emitting", "emitted"}
SearchingIs == searching <=> Alive

\* Past the join, and in an evaluation of its own, the engine has no search.
Joined ==
  \/ mpc \in {"ucinewgame", "position", "launch", "ended"}
  \/ mpc = "ensureBackend" /\ cmd \in {"go", "nneval"}
  => thread = "none"

GoPending == cmd = "go" /\ mpc \in {"stop", "join", "ensureBackend", "launch"}
Owed == owed = (IF Busy THEN 1 ELSE 0) + (IF GoPending THEN 1 ELSE 0)

CInv ==
  /\ TypeOK
  /\ InHandler
  /\ SearchingIs
  /\ Joined
  /\ Owed

-----------------------------------------------------------------------------
(* Lines of moves.                                                         *)

LEMMA Least ==
  ASSUME NEW S \in SUBSET Nat, S # {}
  PROVE  \E n \in S : \A m \in S : n <= m
<1>. DEFINE R == {ss \in Nat \X Nat : ss[1] < ss[2]}
<1>1. IsWellFoundedOn(R, Nat)
  BY NatLessThanWellFounded DEF OpToRel
<1>2. \A m \in Nat, k \in Nat : m < k => <<m, k>> \in R
  OBVIOUS
<1>. HIDE DEF R
<1>3. PICK n \in S : \A m \in S : ~ (<<m, n>> \in R)
  BY <1>1, WFMin
<1>4. ASSUME NEW m \in S PROVE n <= m
  <2>1. m \in Nat /\ n \in Nat
    OBVIOUS
  <2>2. <<m, n>> \notin R
    BY <1>3
  <2>3. ~ (m < n)
    BY <1>2, <2>1, <2>2
  <2>. QED BY <2>1, <2>3
<1>. QED BY <1>4

LEMMA Prefix ==
  ASSUME NEW s \in Seq(Moves), NEW n \in 0 .. Len(s)
  PROVE  /\ SubSeq(s, 1, n) \in Seq(Moves)
         /\ Len(SubSeq(s, 1, n)) = n
         /\ \A i \in 1 .. n : SubSeq(s, 1, n)[i] = s[i]
         /\ \A i \in 1 .. n : SubSeq(SubSeq(s, 1, n), 1, i - 1) = SubSeq(s, 1, i - 1)
         /\ <<>> \o SubSeq(s, 1, n) = SubSeq(s, 1, n)
<1>1. /\ SubSeq(s, 1, n) \in Seq(Moves)
      /\ Len(SubSeq(s, 1, n)) = n
      /\ \A i \in 1 .. n : SubSeq(s, 1, n)[i] = s[i]
  <2>1. \A i \in 1 .. n : s[i] \in Moves
    OBVIOUS
  <2>. QED BY <2>1, SubSeqProperties
<1>2. ASSUME NEW i \in 1 .. n
      PROVE  SubSeq(SubSeq(s, 1, n), 1, i - 1) = SubSeq(s, 1, i - 1)
  <2>. DEFINE a == SubSeq(SubSeq(s, 1, n), 1, i - 1)
              b == SubSeq(s, 1, i - 1)
  <2>1. /\ a \in Seq(Moves) /\ Len(a) = i - 1
        /\ \A j \in 1 .. i - 1 : a[j] = SubSeq(s, 1, n)[j]
    <3>1. \A j \in 1 .. i - 1 : SubSeq(s, 1, n)[j] \in Moves
      BY <1>1
    <3>. QED BY <3>1, SubSeqProperties
  <2>2. /\ b \in Seq(Moves) /\ Len(b) = i - 1
        /\ \A j \in 1 .. i - 1 : b[j] = s[j]
    <3>1. \A j \in 1 .. i - 1 : s[j] \in Moves
      OBVIOUS
    <3>. QED BY <3>1, SubSeqProperties
  <2>3. \A j \in 1 .. i - 1 : a[j] = b[j]
    BY <1>1, <2>1, <2>2
  <2>. HIDE DEF a, b
  <2>. QED BY <2>1, <2>2, <2>3, SeqEqual
<1>3. <<>> \o SubSeq(s, 1, n) = SubSeq(s, 1, n)
  BY <1>1, ConcatEmptySeq
<1>. QED BY <1>1, <1>2, <1>3

\* What Playable says of a line from the start.
LEMMA PlayableIs ==
  ASSUME NEW s \in Seq(Moves), NEW n \in 0 .. Len(s)
  PROVE  Playable(<<>>, SubSeq(s, 1, n))
         <=> \A i \in 1 .. n : Legal(SubSeq(s, 1, i - 1), s[i])
<1>. DEFINE p == SubSeq(s, 1, n)
<1>1. /\ p \in Seq(Moves) /\ Len(p) = n /\ DOMAIN p = 1 .. n
      /\ \A i \in 1 .. n : p[i] = s[i]
      /\ \A i \in 1 .. n : SubSeq(p, 1, i - 1) = SubSeq(s, 1, i - 1)
  BY Prefix
<1>2. \A i \in 1 .. n : <<>> \o SubSeq(p, 1, i - 1) = SubSeq(s, 1, i - 1)
  BY <1>1, Prefix
<1>. HIDE DEF p
<1>3. Playable(<<>>, p) <=> \A i \in 1 .. n : Legal(SubSeq(s, 1, i - 1), s[i])
  BY <1>1, <1>2 DEF Playable
<1>. QED BY <1>3 DEF p

\* LegalPrefix is a prefix, and of a legal line the whole of it.
LEMMA LegalPrefixIs ==
  ASSUME NEW s \in Seq(Moves)
  PROVE  /\ LegalPrefix(s) \in Seq(Moves)
         /\ Playable(<<>>, s) => LegalPrefix(s) = s
<1>. DEFINE Stops(n) == /\ Playable(<<>>, SubSeq(s, 1, n))
                        /\ n < Len(s) => ~Legal(SubSeq(s, 1, n), s[n + 1])
            end == CHOOSE n \in 0 .. Len(s) : Stops(n)
            Wrong == {n \in 0 .. Len(s) : n < Len(s) => ~Legal(SubSeq(s, 1, n), s[n + 1])}
<1>1. Len(s) \in Nat /\ Len(s) \in Wrong
  OBVIOUS
<1>2. PICK n \in Wrong : \A m \in Wrong : n <= m
  <2>1. Wrong \in SUBSET Nat /\ Wrong # {}
    BY <1>1
  <2>. HIDE DEF Wrong
  <2>. QED BY <2>1, Least
<1>3. \A i \in 1 .. n : Legal(SubSeq(s, 1, i - 1), s[i])
  <2>. SUFFICES ASSUME NEW i \in 1 .. n, ~Legal(SubSeq(s, 1, i - 1), s[i]) PROVE FALSE
    OBVIOUS
  <2>1. i - 1 \in 0 .. Len(s) /\ (i - 1) + 1 = i
    BY <1>1
  <2>2. i - 1 \in Wrong
    BY <2>1
  <2>. QED BY <1>1, <1>2, <2>1, <2>2
<1>4. n \in 0 .. Len(s) /\ Stops(n)
  BY <1>3, PlayableIs
<1>5. end \in 0 .. Len(s) /\ Stops(end)
  <2>. HIDE DEF Stops
  <2>. QED BY <1>4
<1>6. LegalPrefix(s) = SubSeq(s, 1, end)
  BY DEF LegalPrefix
<1>7. LegalPrefix(s) \in Seq(Moves)
  BY <1>5, <1>6, Prefix
<1>8. ASSUME Playable(<<>>, s) PROVE LegalPrefix(s) = s
  <2>1. SubSeq(s, 1, Len(s)) = s
    BY SubSeqFull
  <2>2. \A i \in 1 .. Len(s) : Legal(SubSeq(s, 1, i - 1), s[i])
    BY <1>1, <1>8, <2>1, PlayableIs
  <2>3. end = Len(s)
    <3>. SUFFICES ASSUME end < Len(s) PROVE FALSE
      BY <1>1, <1>5
    <3>1. end + 1 \in 1 .. Len(s) /\ (end + 1) - 1 = end
      BY <1>1, <1>5
    <3>2. Legal(SubSeq(s, 1, end), s[end + 1])
      BY <2>2, <3>1
    <3>. QED BY <1>5, <3>2
  <2>. QED BY <1>6, <2>1, <2>3
<1>. QED BY <1>7, <1>8

-----------------------------------------------------------------------------
(* The control: one bestmove for each go.                                  *)

LEMMA LinesAreSeqs == Lines \subseteq Seq(Moves)
BY SeqDef DEF Lines

LEMMA GamesAreLined == Games \subseteq Lined /\ StartGame \in Lined
<1>1. <<>> \in Seq(Moves)
  OBVIOUS
<1>. QED BY <1>1, LinesAreSeqs, EngineAssumption DEF Games, Lined, StartGame

LEMMA InitCInv == Init => CInv
<1>. SUFFICES ASSUME Init PROVE CInv
  OBVIOUS
<1>1. /\ search \in BOOLEAN /\ searching \in BOOLEAN
      /\ stopped \in BOOLEAN /\ no_stop \in BOOLEAN
      /\ backend_dirty \in BOOLEAN /\ reuse_tree \in BOOLEAN
  BY Zenon DEF Init
<1>2. TypeOK
  BY <1>1, GamesAreLined DEF Init, TypeOK, Commands
<1>. QED BY <1>2 DEF Init, CInv, InHandler, SearchingIs, Alive, Joined, Owed,
              Busy, GoPending

\* ReapIfDone takes away a search that is over and no other.
LEMMA Reaped ==
  ASSUME CInv, NEW c, NEW pc, Receive(c, pc), UNCHANGED searching
  PROVE  /\ thread' = IF Alive THEN thread ELSE "none"
         /\ search' \in BOOLEAN
         /\ search_backend' \in {search_backend, "none"}
         /\ Busy => UNCHANGED search_backend
<1>1. CASE searching
  <2>1. Alive
    BY <1>1, Zenon DEF CInv, SearchingIs
  <2>2. UNCHANGED <<thread, search, search_backend>>
    BY <1>1, Zenon DEF Receive, ReapIfDone
  <2>3. search' \in BOOLEAN
    BY <2>2, Zenon DEF CInv, TypeOK
  <2>. QED BY <2>1, <2>2, <2>3
<1>2. CASE ~searching
  <2>1. ~Alive
    BY <1>2, Zenon DEF CInv, SearchingIs
  <2>2. CASE thread = "none"
    <3>1. UNCHANGED <<thread, search, search_backend>>
      BY <2>2, Zenon DEF Receive, ReapIfDone
    <3>2. search' \in BOOLEAN
      BY <3>1, Zenon DEF CInv, TypeOK
    <3>. QED BY <2>1, <2>2, <3>1, <3>2
  <2>3. CASE thread # "none"
    <3>1. thread' = "none" /\ search' = FALSE /\ search_backend' = "none"
      BY <1>2, <2>3, Zenon DEF Receive, ReapIfDone
    <3>2. search' \in BOOLEAN
      BY <3>1, Zenon
    <3>. QED BY <2>1, <3>1, <3>2 DEF Busy, Alive
  <2>. QED BY <2>2, <2>3
<1>. QED BY <1>1, <1>2

LEMMA ClientStep ==
  ASSUME CInv, NEW c \in Commands,
         NEW pc \in {"idle", "stop", "abort", "ensureBackend"}, Receive(c, pc),
         pc = "stop" => c \in {"stop", "destroy", "ucinewgame", "position", "go"},
         pc = "abort" => c = "quit",
         pc = "ensureBackend" => c \in PlainCommands,
         pc = "ensureBackend" /\ c = "nneval" => ~searching,
         c = "go" => pc = "stop",
         owed' = IF c = "go" THEN owed + 1 ELSE owed,
         game' \in Lined, backend_dirty' \in BOOLEAN, reuse_tree' \in BOOLEAN,
         UNCHANGED <<treeVars, backend, searching, stopped, no_stop>>
  PROVE  CInv'
<1>1. /\ thread' = IF Alive THEN thread ELSE "none"
      /\ search' \in BOOLEAN
      /\ search_backend' \in {search_backend, "none"}
  BY Reaped
<1>2. mpc = "idle" /\ mpc' = pc /\ cmd' = c
  BY DEF Receive
<1>3. searching' \in BOOLEAN /\ stopped' \in BOOLEAN /\ no_stop' \in BOOLEAN
  BY Zenon DEF CInv, TypeOK
<1>4. TypeOK'
  BY <1>1, <1>2, <1>3 DEF CInv, TypeOK, treeVars
<1>5. InHandler'
  BY <1>2 DEF InHandler
<1>6. Alive' <=> Alive
  BY <1>1 DEF Alive
<1>7. SearchingIs'
  BY <1>6, Zenon DEF CInv, SearchingIs
<1>8. pc = "ensureBackend" /\ c = "nneval" => ~Alive
  BY Zenon DEF CInv, SearchingIs
<1>9. Joined'
  BY <1>1, <1>2, <1>8 DEF Joined
<1>10. Busy' <=> Busy
  BY <1>1 DEF Busy, Alive
<1>11. Owed'
  BY <1>2, <1>10 DEF CInv, TypeOK, Owed, GoPending
<1>. QED BY <1>4, <1>5, <1>7, <1>9, <1>11 DEF CInv

LEMMA ClientKeeps == ASSUME CInv, Client PROVE CInv'
<1>. USE DEF Commands, PlainCommands, StopCommands
<1>1. /\ backend_dirty \in BOOLEAN /\ reuse_tree \in BOOLEAN /\ (~reuse_tree) \in BOOLEAN
      /\ game \in Lined /\ StartGame \in Lined /\ Games \subseteq Lined
  <2>1. reuse_tree \in BOOLEAN /\ backend_dirty \in BOOLEAN
    BY Zenon DEF CInv, TypeOK
  <2>2. (~reuse_tree) \in BOOLEAN
    BY <2>1, Zenon
  <2>3. game \in Lined
    BY DEF CInv, TypeOK
  <2>. QED BY <2>1, <2>2, <2>3, GamesAreLined, Zenon
<1>2. CASE SetBackendOption
  <2>1. backend_dirty' \in BOOLEAN /\ reuse_tree' \in BOOLEAN
    BY <1>1, <1>2, Zenon DEF SetBackendOption
  <2>. QED BY <1>1, <1>2, <2>1, ClientStep DEF SetBackendOption
<1>3. CASE SetReuseTree
  <2>1. backend_dirty' \in BOOLEAN /\ reuse_tree' \in BOOLEAN
    BY <1>1, <1>3, Zenon DEF SetReuseTree
  <2>. QED BY <1>1, <1>3, <2>1, ClientStep DEF SetReuseTree
<1>4. ASSUME UNCHANGED <<treeVars, reuse_tree, backend_dirty, backend, searching, stopped,
                         no_stop>>
      PROVE  /\ backend_dirty' \in BOOLEAN /\ reuse_tree' \in BOOLEAN
             /\ UNCHANGED <<treeVars, backend, searching, stopped, no_stop>>
  BY <1>1, <1>4, Zenon
<1>5. CASE IsReady
  BY <1>1, <1>4, <1>5, ClientStep DEF IsReady
<1>6. ASSUME NEW c \in Queries, Query(c) PROVE CInv'
  BY <1>1, <1>4, <1>6, ClientStep DEF Query, Queries
<1>7. CASE NnEval
  <2>. DEFINE pc == IF searching THEN "idle" ELSE "ensureBackend"
  <2>1. pc \in {"idle", "ensureBackend"} /\ (pc = "ensureBackend" => ~searching)
    BY Zenon
  <2>2. Receive("nneval", pc) /\ UNCHANGED <<game, owed>>
    BY <1>7 DEF NnEval
  <2>3. UNCHANGED <<treeVars, reuse_tree, backend_dirty, backend, searching, stopped, no_stop>>
    BY <1>7 DEF NnEval
  <2>. HIDE DEF pc
  <2>. QED BY <1>1, <1>4, <2>1, <2>2, <2>3, ClientStep
<1>8. CASE Stop("stop") \/ Stop("destroy")
  BY <1>1, <1>4, <1>8, ClientStep DEF Stop
<1>9. CASE Quit
  BY <1>1, <1>4, <1>9, ClientStep DEF Quit
<1>10. CASE UciNewGame
  BY <1>1, <1>4, <1>10, ClientStep DEF UciNewGame
<1>11. CASE Position
  BY <1>1, <1>4, <1>11, ClientStep DEF Position
<1>12. CASE Go
  BY <1>1, <1>4, <1>12, ClientStep DEF Go
<1>. QED BY <1>2, <1>3, <1>5, <1>6, <1>7, <1>8, <1>9, <1>10, <1>11, <1>12 DEF Client

\* The steps of a handler and of the search's thread leave the flags Booleans.
Flags ==
  /\ search \in BOOLEAN /\ searching \in BOOLEAN
  /\ stopped \in BOOLEAN /\ no_stop \in BOOLEAN
  /\ backend_dirty \in BOOLEAN /\ reuse_tree \in BOOLEAN

LEMMA FlagsKept ==
  ASSUME CInv, Engine \/ SearchThread
  PROVE  Flags'
<1>1. Flags
  BY Zenon DEF CInv, TypeOK, Flags
<1>2. CASE TellSearch
  <2>1. stopped' \in BOOLEAN
    BY <1>1, <1>2, Zenon DEF TellSearch, Flags
  <2>. QED BY <1>1, <1>2, <2>1, Zenon DEF TellSearch, Flags, backendVars
<1>3. CASE JoinSearch
  BY <1>1, <1>3, Zenon DEF JoinSearch, Flags
<1>4. CASE HandleNewGame
  BY <1>1, <1>4, Zenon DEF HandleNewGame, Flags, backendVars, searchVars
<1>5. CASE HandlePosition
  BY <1>1, <1>5, Zenon DEF HandlePosition, Flags, backendVars, searchVars
<1>6. CASE EnsureBackend
  BY <1>1, <1>6, Zenon DEF EnsureBackend, Flags, backendVars, searchVars
<1>7. CASE LaunchSearch
  BY <1>1, <1>7, Zenon DEF LaunchSearch, Flags
<1>8. CASE StopperFires
  BY <1>1, <1>8, Zenon DEF StopperFires, Flags, backendVars
<1>9. CASE RunBlockingReturns
  BY <1>1, <1>9, Zenon DEF RunBlockingReturns, Flags, backendVars
<1>10. CASE EmitBestMove
  BY <1>1, <1>10, Zenon DEF EmitBestMove, Flags, backendVars
<1>11. CASE ThreadEnds
  BY <1>1, <1>11, Zenon DEF ThreadEnds, Flags, backendVars
<1>. QED BY <1>2, <1>3, <1>4, <1>5, <1>6, <1>7, <1>8, <1>9, <1>10, <1>11
         DEF Engine, SearchThread

\* The moves of a longer list, put after those of a prefix of it.
LEMMA NewMovesAre ==
  ASSUME NEW s \in Seq(Moves), NEW t \in Seq(Moves)
  PROVE  LET more == SubSeq(t, Len(s) + 1, Len(t))
         IN  more \in Seq(Moves) /\ (IsPrefix(s, t) => s \o more = t)
<1>. DEFINE more == SubSeq(t, Len(s) + 1, Len(t))
<1>1. Len(s) \in Nat /\ Len(t) \in Nat
  OBVIOUS
<1>2. more \in Seq(Moves)
  <2>1. \A i \in Len(s) + 1 .. Len(t) : t[i] \in Moves
    BY <1>1
  <2>. QED BY <1>1, <2>1, SubSeqProperties
<1>3. ASSUME IsPrefix(s, t) PROVE s \o more = t
  <2>1. Len(s) <= Len(t) /\ SubSeq(s, 1, Len(s)) = SubSeq(t, 1, Len(s))
    BY <1>3 DEF IsPrefix
  <2>2. SubSeq(t, 1, Len(s)) = s
    BY <2>1, SubSeqFull
  <2>3. SubSeq(t, 1, Len(s)) \o more = SubSeq(t, 1, Len(t))
    <3>1. /\ 1 \in 1 .. Len(t) + 1 /\ Len(s) \in 1 - 1 .. Len(t)
          /\ Len(t) \in Len(s) .. Len(t)
      BY <1>1, <2>1
    <3>. QED BY <3>1, ConcatAdjacentSubSeq
  <2>. QED BY <2>2, <2>3, SubSeqFull
<1>. QED BY <1>2, <1>3

LEMMA TreeLined == ASSUME CInv, HandlePosition PROVE tree' \in Lined /\ (current' # None => current' \in Lined)
<1>1. game \in Lined /\ tree \in Lined /\ StartGame \in Lined
  BY GamesAreLined DEF CInv, TypeOK
<1>2. CASE CanReuse /\ tree' = [tree EXCEPT !.moves = @ \o NewMoves] /\ current' = game
  <2>1. current \in Lined
    BY <1>2 DEF CanReuse, CInv, TypeOK
  <2>2. NewMoves \in Seq(Moves)
    BY <1>1, <2>1, NewMovesAre DEF NewMoves, Lined
  <2>3. tree.moves \o NewMoves \in Seq(Moves)
    BY <1>1, <2>2, ConcatProperties DEF Lined
  <2>. QED BY <1>1, <1>2, <2>3 DEF Lined
<1>3. CASE /\ tree' = [fen |-> game.fen, moves |-> LegalPrefix(game.moves)]
           /\ current' = game
  BY <1>1, <1>3, LegalPrefixIs DEF Lined
<1>4. CASE tree' = StartGame /\ current' = None
  BY <1>1, <1>4
<1>. QED BY <1>2, <1>3, <1>4 DEF HandlePosition

LEMMA EngineKeeps == ASSUME CInv, Engine \/ SearchThread PROVE CInv'
<1>1. Flags'
  BY FlagsKept
<1>2. StartGame \in Lined /\ owed \in Int
  BY GamesAreLined DEF CInv, TypeOK
<1>. USE DEF CInv, InHandler, Joined, Owed, Busy, GoPending, Alive, PlainCommands
<1>3. CASE TellSearch
  <2>1. TypeOK'
    BY <1>1, <1>3 DEF TypeOK, Flags, TellSearch, treeVars, backendVars
  <2>2. SearchingIs'
    BY <1>3, Zenon DEF SearchingIs, TellSearch
  <2>. QED BY <1>3, <2>1, <2>2 DEF TellSearch
<1>4. CASE JoinSearch
  <2>1. TypeOK'
    BY <1>1, <1>4 DEF TypeOK, Flags, JoinSearch, treeVars
  <2>2. ~searching' /\ ~Alive'
    BY <1>4 DEF JoinSearch
  <2>3. SearchingIs'
    BY <2>2, Zenon DEF SearchingIs
  <2>. QED BY <1>4, <2>1, <2>3 DEF JoinSearch
<1>5. CASE HandleNewGame
  <2>1. TypeOK'
    BY <1>1, <1>2, <1>5 DEF TypeOK, Flags, HandleNewGame, backendVars, searchVars
  <2>2. SearchingIs'
    BY <1>5, Zenon DEF SearchingIs, HandleNewGame, searchVars
  <2>. QED BY <1>5, <2>1, <2>2 DEF HandleNewGame, searchVars
<1>6. CASE HandlePosition
  <2>1. TypeOK'
    BY <1>1, <1>6, TreeLined DEF TypeOK, Flags, HandlePosition, backendVars, searchVars
  <2>2. SearchingIs'
    BY <1>6, Zenon DEF SearchingIs, HandlePosition, searchVars
  <2>. QED BY <1>6, <2>1, <2>2 DEF HandlePosition, searchVars
<1>7. CASE EnsureBackend
  <2>1. TypeOK'
    BY <1>1, <1>2, <1>7 DEF TypeOK, Flags, EnsureBackend, FreeBackend, backendVars, searchVars, treeVars
  <2>2. SearchingIs'
    BY <1>7, Zenon DEF SearchingIs, EnsureBackend, searchVars
  <2>. QED BY <1>2, <1>7, <2>1, <2>2 DEF EnsureBackend, searchVars, backendVars
<1>8. CASE LaunchSearch
  <2>1. TypeOK'
    BY <1>1, <1>8 DEF TypeOK, Flags, LaunchSearch, treeVars
  <2>2. searching' /\ Alive'
    BY <1>8 DEF LaunchSearch
  <2>3. SearchingIs'
    BY <2>2, Zenon DEF SearchingIs
  <2>. QED BY <1>2, <1>8, <2>1, <2>3 DEF LaunchSearch
<1>9. CASE StopperFires
  <2>1. TypeOK'
    BY <1>1, <1>9 DEF TypeOK, Flags, StopperFires, treeVars, backendVars
  <2>2. SearchingIs'
    BY <1>9, Zenon DEF SearchingIs, StopperFires
  <2>. QED BY <1>9, <2>1, <2>2 DEF StopperFires
<1>10. CASE RunBlockingReturns
  <2>1. TypeOK'
    BY <1>1, <1>10 DEF TypeOK, Flags, RunBlockingReturns, treeVars, backendVars
  <2>2. Alive /\ Alive' /\ UNCHANGED searching
    BY <1>10 DEF RunBlockingReturns
  <2>3. SearchingIs'
    BY <2>2, Zenon DEF SearchingIs
  <2>. QED BY <1>10, <2>1, <2>3 DEF RunBlockingReturns
<1>11. CASE EmitBestMove
  <2>1. TypeOK'
    BY <1>1, <1>2, <1>11 DEF TypeOK, Flags, EmitBestMove, treeVars, backendVars
  <2>2. Alive /\ Alive' /\ UNCHANGED searching
    BY <1>11 DEF EmitBestMove
  <2>3. SearchingIs'
    BY <2>2, Zenon DEF SearchingIs
  <2>. QED BY <1>2, <1>11, <2>1, <2>3 DEF EmitBestMove
<1>12. CASE ThreadEnds
  <2>1. TypeOK'
    BY <1>1, <1>12 DEF TypeOK, Flags, ThreadEnds, treeVars, backendVars
  <2>2. ~Alive' /\ ~searching'
    BY <1>12 DEF ThreadEnds
  <2>3. SearchingIs'
    BY <2>2, Zenon DEF SearchingIs
  <2>. QED BY <1>12, <2>1, <2>3 DEF ThreadEnds
<1>. QED BY <1>3, <1>4, <1>5, <1>6, <1>7, <1>8, <1>9, <1>10, <1>11, <1>12
         DEF Engine, SearchThread

-----------------------------------------------------------------------------
(* Theorems.                                                               *)

LEMMA CInvKept == CInv /\ [Next]_vars => CInv'
<1>. SUFFICES ASSUME CInv, [Next]_vars PROVE CInv'
  OBVIOUS
<1>1. CASE UNCHANGED vars
  <2>1. Flags'
    BY <1>1, Zenon DEF CInv, TypeOK, Flags, vars, backendVars, searchVars
  <2>2. TypeOK'
    BY <1>1, <2>1 DEF CInv, TypeOK, Flags, vars, backendVars, searchVars, treeVars
  <2>3. SearchingIs'
    BY <1>1, Zenon DEF CInv, SearchingIs, Alive, vars, searchVars
  <2>4. InHandler' /\ Joined' /\ Owed'
    BY <1>1 DEF CInv, InHandler, Joined, Owed, Busy, GoPending, vars, searchVars
  <2>. QED BY <2>2, <2>3, <2>4 DEF CInv
<1>2. CASE Client
  BY <1>2, ClientKeeps
<1>3. CASE Engine \/ SearchThread
  BY <1>3, EngineKeeps
<1>. QED BY <1>1, <1>2, <1>3 DEF Next, Terminated

LEMMA CInvAlways == Spec => []CInv
BY InitCInv, CInvKept, PTL DEF Spec

\* A `go` is answered by one bestmove, whatever commands come in between: a
\* client that counts never waits for an answer that was sent, and never takes
\* one for another's.
THEOREM OneAnswer == Spec => []OneAnswerPerGo
<1>1. CInv => OneAnswerPerGo
  BY DEF CInv, Owed, GoPending, OneAnswerPerGo, Joined, Busy
<1>. QED BY <1>1, CInvAlways, PTL

\* A search has the backend that there is, and nothing was set since.
Equipped ==
  /\ Busy => search_backend = "live"
  /\ Busy \/ mpc = "launch" => backend = "built" /\ ~backend_dirty

LEMMA ClientEquipped ==
  ASSUME ClientSetsWhenIdle, CInv, Equipped, Client
  PROVE  Equipped' /\ (Busy => tree' = tree /\ search_backend' # "freed")
<1>1. PICK c, pc : Receive(c, pc) /\ pc # "launch"
  <2>1. "idle" # "launch" /\ "stop" # "launch" /\ "abort" # "launch" /\ "ensureBackend" # "launch"
    OBVIOUS
  <2>. QED BY <2>1, Zenon DEF Client, SetBackendOption, SetReuseTree, IsReady, Query,
              NnEval, Stop, Quit, UciNewGame, Position, Go
<1>2. mpc' # "launch"
  BY <1>1 DEF Receive
<1>3. UNCHANGED <<treeVars, searching, backend>>
  BY DEF Client, SetBackendOption, SetReuseTree, IsReady, Query, NnEval, Stop, Quit,
         UciNewGame, Position, Go
<1>4. Busy' => Busy
  BY <1>1, <1>3, Reaped DEF Busy, Alive
<1>5. Busy => UNCHANGED search_backend
  BY <1>1, <1>3, Reaped
<1>6. ASSUME Busy PROVE UNCHANGED backend_dirty
  <2>1. CASE SetBackendOption
    <3>1. mpc = "idle" /\ owed = 0
      BY <2>1 DEF SetBackendOption, Receive
    <3>. QED BY <1>6, <3>1 DEF CInv, Owed, GoPending
  <2>2. CASE ~SetBackendOption
    BY <2>2 DEF Client, SetReuseTree, IsReady, Query, NnEval, Stop, Quit, UciNewGame,
                Position, Go
  <2>. QED BY <2>1, <2>2
<1>7. Busy' => backend' = "built" /\ ~backend_dirty'
  BY <1>3, <1>4, <1>6, Zenon DEF Equipped
<1>8. Busy' => search_backend' = "live"
  BY <1>4, <1>5, Zenon DEF Equipped
<1>9. Busy => tree' = tree /\ search_backend' # "freed"
  BY <1>3, <1>5 DEF Equipped, treeVars
<1>. QED BY <1>2, <1>7, <1>8, <1>9, Zenon DEF Equipped

LEMMA EngineEquipped ==
  ASSUME CInv, Equipped, Engine \/ SearchThread \/ UNCHANGED vars
  PROVE  Equipped' /\ (Busy => tree' = tree /\ search_backend' # "freed")
<1>1. ASSUME Busy' => Busy, mpc' # "launch" \/ mpc = "launch",
             UNCHANGED <<backendVars, tree>>
      PROVE  Equipped' /\ (Busy => tree' = tree /\ search_backend' # "freed")
  <2>1. Busy => tree' = tree /\ search_backend' # "freed"
    BY <1>1 DEF Equipped, backendVars
  <2>2. Equipped'
    BY <1>1, Zenon DEF Equipped, backendVars
  <2>. QED BY <2>1, <2>2
<1>2. CASE UNCHANGED vars
  BY <1>1, <1>2 DEF vars, treeVars, searchVars, backendVars, Busy
<1>3. CASE TellSearch
  BY <1>1, <1>3 DEF TellSearch, Busy, treeVars
<1>4. CASE JoinSearch
  <2>1. ~Busy /\ ~Busy' /\ mpc' # "launch"
    BY <1>4 DEF JoinSearch, Busy, CInv, InHandler
  <2>. QED BY <2>1, Zenon DEF Equipped
<1>5. CASE HandleNewGame
  <2>1. ~Busy /\ ~Busy' /\ mpc' # "launch"
    BY <1>5 DEF HandleNewGame, searchVars, Busy, CInv, Joined
  <2>. QED BY <2>1, Zenon DEF Equipped
<1>6. CASE HandlePosition
  <2>1. ~Busy /\ ~Busy' /\ mpc' # "launch"
    BY <1>6 DEF HandlePosition, searchVars, Busy, CInv, Joined
  <2>. QED BY <2>1, Zenon DEF Equipped
<1>7. CASE EnsureBackend
  <2>1. CASE ~backend_dirty /\ backend = "built"
    <3>1. UNCHANGED <<backendVars, tree>> /\ (Busy' <=> Busy)
      <4>1. ~(backend_dirty \/ backend = "none")
        BY <2>1
      <4>. QED BY <1>7, <4>1, Zenon DEF EnsureBackend, treeVars, searchVars, Busy
    <3>2. Busy => search_backend' = "live" /\ tree' = tree
      BY <3>1, Zenon DEF Equipped, backendVars
    <3>3. backend' = "built" /\ ~backend_dirty'
      BY <2>1, <3>1, Zenon DEF backendVars
    <3>. QED BY <3>1, <3>2, <3>3, Zenon DEF Equipped
  <2>2. CASE ~(~backend_dirty /\ backend = "built")
    <3>1. ~Busy /\ ~Busy'
      BY <1>7, <2>2, Zenon DEF Equipped, EnsureBackend, Busy, searchVars
    <3>2. mpc' = "launch" => backend' = "built" /\ ~backend_dirty'
      <4>1. "idle" # "launch"
        OBVIOUS
      <4>. QED BY <1>7, <2>2, <4>1, Zenon DEF EnsureBackend
    <3>. QED BY <3>1, <3>2, Zenon DEF Equipped
  <2>. QED BY <2>1, <2>2
<1>8. CASE LaunchSearch
  <2>1. mpc = "launch" /\ ~Busy /\ mpc' # "launch" /\ search_backend' = "live"
    BY <1>8 DEF LaunchSearch, CInv, Joined, Busy
  <2>2. backend' = "built" /\ ~backend_dirty'
    BY <1>8, <2>1, Zenon DEF LaunchSearch, Equipped
  <2>. QED BY <2>1, <2>2, Zenon DEF Equipped
<1>9. CASE SearchThread
  BY <1>1, <1>9 DEF SearchThread, StopperFires, RunBlockingReturns, EmitBestMove,
                    ThreadEnds, Busy, treeVars
<1>. QED BY <1>2, <1>3, <1>4, <1>5, <1>6, <1>7, <1>8, <1>9 DEF Engine

\* Under a client that sets options between searches, the tree and the backend
\* a search works on are not changed under it, by no command at all.
THEOREM Undisturbed == ASSUME ClientSetsWhenIdle PROVE Spec => SearchUndisturbed
<1>1. Init => Equipped
  BY DEF Init, Equipped, Busy
<1>2. CInv /\ Equipped /\ [Next]_vars => Equipped'
  BY ClientEquipped, EngineEquipped DEF Next, Terminated
<1>3. CInv /\ Equipped /\ [Next]_vars
      => [Busy => tree' = tree /\ search_backend' # "freed"]_vars
  BY ClientEquipped, EngineEquipped DEF Next, Terminated
<1>. QED BY <1>1, <1>2, <1>3, CInvAlways, PTL DEF Spec, SearchUndisturbed

-----------------------------------------------------------------------------
(* The game on the board.                                                  *)

\* The engine has been told of a game that it has not set up yet.
Pending == cmd \in {"position", "ucinewgame"} /\ mpc \in {"stop", "join", "position", "ucinewgame"}

\* What current_startfen_ and current_moves_ remember is what tree_ holds, and
\* unless a command is pending that is the client's game.
Remembered ==
  /\ Playable(<<>>, game.moves)
  /\ Pending /\ cmd = "ucinewgame" => game = StartGame
  /\ current # None => current = tree /\ current.fen # BadFen
  /\ ~Pending => tree = IF game.fen = BadFen THEN StartGame ELSE game

LEMMA StartPlayable == Playable(<<>>, StartGame.moves)
BY DEF Playable, StartGame

LEMMA InitRemembered == Init => Remembered
BY StartPlayable, EngineAssumption DEF Init, Remembered, Pending, StartGame

\* A command of the client leaves tree_ and what is remembered of it alone.
LEMMA ClientRemembers ==
  ASSUME Remembered, Client, Position => Playable(<<>>, game'.moves)
  PROVE  Remembered'
<1>1. UNCHANGED <<tree, current>> /\ ~Pending
  BY DEF Client, SetBackendOption, SetReuseTree, IsReady, Query, NnEval, Stop, Quit,
         UciNewGame, Position, Go, treeVars, Receive, Pending
<1>2. CASE UciNewGame
  BY <1>1, <1>2, StartPlayable DEF UciNewGame, Receive, Remembered, Pending
<1>3. CASE Position
  BY <1>1, <1>3 DEF Position, Receive, Remembered, Pending
<1>4. CASE ~UciNewGame /\ ~Position
  <2>1. UNCHANGED game
    BY <1>4 DEF Client, SetBackendOption, SetReuseTree, IsReady, Query, NnEval, Stop, Quit, Go
  <2>2. PICK c, pc : Receive(c, pc) /\ c \notin {"position", "ucinewgame"}
    <3>. DEFINE Old == {"position", "ucinewgame"}
    <3>1. /\ "setoption" \notin Old /\ "isready" \notin Old /\ "nneval" \notin Old
          /\ "stop" \notin Old /\ "destroy" \notin Old /\ "quit" \notin Old /\ "go" \notin Old
          /\ \A q \in Queries : q \notin Old
      BY DEF Queries
    <3>. HIDE DEF Old
    <3>2. \E c, pc : Receive(c, pc) /\ c \notin Old
      BY <1>4, <3>1, Zenon DEF Client, SetBackendOption, SetReuseTree, IsReady, Query,
         NnEval, Stop, Quit, Go
    <3>. QED BY <3>2 DEF Old
  <2>3. ~Pending'
    BY <2>2 DEF Receive, Pending
  <2>. QED BY <1>1, <2>1, <2>3, Zenon DEF Remembered
<1>. QED BY <1>2, <1>3, <1>4

\* Reuse ends with the game that a rebuild would have set up.
LEMMA PositionRemembers ==
  ASSUME CInv, Remembered, HandlePosition
  PROVE  Remembered'
<1>1. game \in Lined /\ tree \in Lined /\ UNCHANGED game
  BY DEF CInv, TypeOK, HandlePosition
<1>2. ~Pending'
  BY DEF HandlePosition, Pending
<1>3. LegalPrefix(game.moves) = game.moves
  BY <1>1, LegalPrefixIs DEF Remembered, Lined
<1>4. ASSUME game.fen # BadFen, tree' = game, current' = game PROVE Remembered'
  BY <1>1, <1>2, <1>4 DEF Remembered
<1>5. CASE CanReuse /\ tree' = [tree EXCEPT !.moves = @ \o NewMoves] /\ current' = game
  <2>1. /\ current = tree /\ game.fen = tree.fen /\ game.fen # BadFen
        /\ IsPrefix(tree.moves, game.moves)
    BY <1>5 DEF CanReuse, Remembered
  <2>2. tree.moves \o NewMoves = game.moves
    BY <1>1, <2>1, NewMovesAre DEF NewMoves, Lined
  <2>3. tree' = game
    BY <1>1, <1>5, <2>1, <2>2 DEF Lined
  <2>. QED BY <1>4, <1>5, <2>1, <2>3
<1>6. CASE /\ game.fen # BadFen /\ current' = game
           /\ tree' = [fen |-> game.fen, moves |-> LegalPrefix(game.moves)]
  <2>1. tree' = game
    BY <1>1, <1>3, <1>6 DEF Lined
  <2>. QED BY <1>4, <1>6, <2>1
<1>7. CASE game.fen = BadFen /\ tree' = StartGame /\ current' = None
  BY <1>1, <1>2, <1>7 DEF Remembered
<1>. QED BY <1>5, <1>6, <1>7 DEF HandlePosition

LEMMA EngineRemembers ==
  ASSUME CInv, Remembered, Engine \/ SearchThread \/ UNCHANGED vars
  PROVE  Remembered'
<1>1. ASSUME UNCHANGED <<tree, current, game>>, Pending' <=> Pending, UNCHANGED cmd
      PROVE  Remembered'
  BY <1>1, Zenon DEF Remembered
<1>2. CASE HandlePosition
  BY <1>2, PositionRemembers
<1>3. CASE HandleNewGame
  <2>1. Pending /\ cmd = "ucinewgame" /\ ~Pending' /\ UNCHANGED game
    BY <1>3 DEF HandleNewGame, Pending, CInv, InHandler
  <2>. QED BY <1>3, <2>1, EngineAssumption DEF HandleNewGame, Remembered, StartGame
<1>4. CASE TellSearch
  BY <1>1, <1>4 DEF TellSearch, CInv, InHandler, Pending, treeVars
<1>5. CASE JoinSearch
  BY <1>1, <1>5 DEF JoinSearch, CInv, InHandler, Pending, treeVars
<1>6. CASE EnsureBackend \/ LaunchSearch
  BY <1>1, <1>6 DEF EnsureBackend, LaunchSearch, CInv, InHandler, PlainCommands,
                    Pending, treeVars
<1>7. CASE SearchThread \/ UNCHANGED vars
  BY <1>1, <1>7 DEF SearchThread, StopperFires, RunBlockingReturns, EmitBestMove,
                    ThreadEnds, Pending, treeVars, vars
<1>. QED BY <1>2, <1>3, <1>4, <1>5, <1>6, <1>7 DEF Engine

\* For a client that plays legal games, the board a command leaves behind is the
\* one the client's last `position` described: extending the tree by the new
\* moves comes to the same as setting the game up anew.
THEOREM TreeIsTheGame == ASSUME ClientPlaysLegal PROVE Spec => []PositionHonoured
<1>1. CInv /\ Remembered => PositionHonoured
  <2>. SUFFICES ASSUME CInv, Remembered, mpc = "idle"
                PROVE  tree = IF game.fen = BadFen THEN StartGame
                              ELSE [fen |-> game.fen, moves |-> LegalPrefix(game.moves)]
    BY DEF PositionHonoured
  <2>1. game \in Lined /\ ~Pending
    BY DEF CInv, TypeOK, Pending
  <2>2. LegalPrefix(game.moves) = game.moves
    BY <2>1, LegalPrefixIs DEF Remembered, Lined
  <2>. QED BY <2>1, <2>2 DEF Remembered, Lined
<1>2. CInv /\ Remembered /\ [Next]_vars => Remembered'
  <2>1. Position => Playable(<<>>, game'.moves)
    BY DEF Position
  <2>. QED BY <2>1, ClientRemembers, EngineRemembers DEF Next, Terminated
<1>. QED BY InitRemembered, <1>1, <1>2, CInvAlways, PTL DEF Spec

-----------------------------------------------------------------------------
(* The client beside the engine: GuiSession.                               *)

\* The game the client has sent the moves of.
SentGame == [fen |-> StartPos, moves |-> sent]

Idle == mpc = "idle" /\ ~Busy
Settled == stdin = <<>> /\ Idle /\ game = SentGame

\* The line that a call awaits at each of its places.
Applying == {"applyHuman", "applyEngine"}
Thinking == {"bestMove", "applyEngine"}
Places == {"newGame", "fen", "legal", "result", "bestMove"} \cup Applying
KindAt(place) ==
  IF place = "fen" THEN "fen"
  ELSE IF place = "legal" THEN "legalmoves"
  ELSE IF place = "result" THEN "result"
  ELSE IF place = "bestMove" THEN "bestmove"
  ELSE "readyok"

\* A position is on its way into the engine, with isready behind it.
PositionOnItsWay ==
  \/ /\ Idle /\ stdin = <<Command("position", SentGame), Command("isready", StartGame)>>
  \/ /\ mpc \in {"stop", "join", "position"} /\ cmd = "position" /\ game = SentGame /\ ~Busy
     /\ stdin = <<Command("isready", StartGame)>>
  \/ /\ Idle /\ game = SentGame /\ stdin = <<Command("isready", StartGame)>>
  \/ /\ mpc = "ensureBackend" /\ cmd = "isready" /\ game = SentGame /\ ~Busy
     /\ stdin = <<>>

NewGameOnItsWay ==
  \/ /\ Idle
     /\ stdin = <<Command("ucinewgame", StartGame), Command("position", SentGame),
                  Command("isready", StartGame)>>
  \/ /\ mpc \in {"stop", "join", "ucinewgame"} /\ cmd = "ucinewgame" /\ ~Busy
     /\ stdin = <<Command("position", SentGame), Command("isready", StartGame)>>

SearchOnItsWay ==
  \/ Idle /\ game = SentGame /\ stdin = <<Command("go", StartGame)>>
  \/ /\ mpc \in {"stop", "join", "ensureBackend", "launch"} /\ cmd = "go" /\ ~Busy
     /\ game = SentGame /\ stdin = <<>>
  \/ mpc = "idle" /\ Busy /\ game = SentGame /\ stdin = <<>>

\* The engine has yet to say what a call at this place awaits.
OnItsWay(place) ==
  \/ place \in Applying /\ PositionOnItsWay
  \/ place = "newGame" /\ (NewGameOnItsWay \/ PositionOnItsWay)
  \/ place = "bestMove" /\ SearchOnItsWay
  \/ /\ place \in {"fen", "legal", "result"}
     /\ Idle /\ game = SentGame /\ stdin = <<Command(KindAt(place), StartGame)>>

\* The answer that belongs there.
Fits(line, place) ==
  /\ line.kind = KindAt(place) /\ line.tree = SentGame
  /\ place = "bestMove" => line.mv = NoMove \/ line.mv \in LegalIn(SentGame)

Alone(t) == \A u \in Tasks \ {t} : at[u] = "free" /\ answer[u] = NoLine

\* A call has one request open, or has been answered.
Awaiting(t) ==
  /\ pending = <<[kind |-> KindAt(at[t]), task |-> t]>> /\ answer[t] = NoLine
  /\ \/ stdout = <<>> /\ OnItsWay(at[t])
     \/ Settled /\ \E line : stdout = <<line>> /\ Fits(line, at[t])
Served(t) ==
  pending = <<>> /\ stdout = <<>> /\ Settled /\ Fits(answer[t], at[t])

Calling(t) == at[t] \in Places /\ Alone(t) /\ (Awaiting(t) \/ Served(t))
Resting ==
  /\ AtRest /\ \A u \in Tasks : answer[u] = NoLine
  /\ pending = <<>> /\ stdout = <<>> /\ Settled

\* The client's books, where a call stands in between.
FensSoFar ==
  /\ fens \in Seq(Lined) /\ Len(fens) <= Len(moves) + 1
  /\ \A k \in 1 .. Len(fens) : fens[k] = AfterPlies(k - 1)
Recorded == [fen |-> StartPos, moves |-> moves]

Books(t) ==
  /\ at[t] \in Thinking => engine_thinking = TRUE
  /\ at[t] \notin Thinking => engine_thinking = FALSE
  /\ IF at[t] \in Applying THEN mv[t] \in Moves /\ sent = Append(moves, mv[t])
     ELSE sent = moves
  /\ at[t] = "newGame" => fens = <<>> /\ moves = <<>>
  /\ at[t] = "fen" => Len(fens) \in {Len(moves), Len(moves) + 1}
  /\ at[t] \notin {"newGame", "fen"} => Len(fens) = Len(moves) + 1 /\ board = Recorded
  /\ at[t] = "result" => legal = LegalIn(board)

BooksClosed ==
  /\ engine_thinking = FALSE /\ sent = moves /\ Len(fens) = Len(moves) + 1
  /\ board = Recorded /\ legal = LegalIn(board) /\ result = IsOver(board)

InTime == late = 0 /\ ~disposed

Linked ==
  /\ sent \in Seq(Moves) /\ moves \in Seq(Moves) /\ Playable(<<>>, sent)
  /\ Remembered /\ FensSoFar
  /\ \/ Resting /\ BooksClosed
     \/ \E t \in Tasks : Calling(t) /\ Books(t)

SType ==
  /\ DOMAIN at = Tasks /\ DOMAIN answer = Tasks /\ DOMAIN mv = Tasks
  /\ late \in Nat

SInv == SType /\ (InTime => Linked)

-----------------------------------------------------------------------------
(* Lemmas about the session.                                               *)

LEMMA Tuples ==
  ASSUME NEW a, NEW b, NEW c
  PROVE  /\ Head(<<a>>) = a /\ Tail(<<a>>) = <<>>
         /\ Head(<<a, b>>) = a /\ Tail(<<a, b>>) = <<b>>
         /\ Head(<<a, b, c>>) = a /\ Tail(<<a, b, c>>) = <<b, c>>
         /\ Append(<<>>, a) = <<a>>
         /\ <<>> \o <<a>> = <<a>> /\ <<>> \o <<a, b>> = <<a, b>>
         /\ <<a>> # <<>> /\ <<a, b>> # <<>> /\ <<a, b, c>> # <<>>
         /\ RemoveAt(<<a>>, 1) = <<>>
<1>1. /\ Head(<<a>>) = a /\ Tail(<<a>>) = <<>>
      /\ Head(<<a, b>>) = a /\ Tail(<<a, b>>) = <<b>>
      /\ Head(<<a, b, c>>) = a
      /\ Append(<<>>, a) = <<a>>
      /\ <<a>> # <<>> /\ <<a, b>> # <<>> /\ <<a, b, c>> # <<>>
  OBVIOUS
<1>2. Tail(<<a, b, c>>) = <<b, c>>
  OBVIOUS
<1>3. <<>> \o <<a>> = <<a>> /\ <<>> \o <<a, b>> = <<a, b>>
  OBVIOUS
<1>4. RemoveAt(<<a>>, 1) = <<>>
  <2>1. SubSeq(<<a>>, 1, 0) = <<>> /\ SubSeq(<<a>>, 2, 1) = <<>> /\ Len(<<a>>) = 1
    OBVIOUS
  <2>2. <<>> \o <<>> = <<>>
    OBVIOUS
  <2>. QED BY <2>1, <2>2 DEF RemoveAt
<1>. QED BY <1>1, <1>2, <1>3, <1>4

\* The client uses the engine as the engine's clients may.
LEMMA SessionIsClient == SessionNext => [Next]_vars
<1>. SUFFICES ASSUME SessionNext PROVE Next \/ UNCHANGED vars
  OBVIOUS
<1>1. CASE EngineReads
  <2>1. Client
    BY <1>1, Zenon DEF EngineReads, Client
  <2>. QED BY <2>1 DEF Next
<1>2. CASE EngineWorks
  BY <1>2 DEF EngineWorks, Next, Engine
<1>3. CASE Searches
  BY <1>3 DEF Searches, Next, SearchThread
<1>4. CASE OnLine
  BY <1>4 DEF OnLine
<1>5. ASSUME NEW t \in Tasks, Continues(t) PROVE UNCHANGED vars
  BY <1>5 DEF Continues, NewGameReady, HumanMoveApplied, FenKnown, LegalKnown, ResultKnown,
              BestMoveKnown, EngineMoveApplied, Answered
<1>6. ASSUME NEW t \in Tasks, TimesOut(t) \/ TogglePause(t) PROVE UNCHANGED vars
  BY <1>6 DEF TimesOut, TogglePause
<1>7. ASSUME NEW t \in Tasks, NEW m \in Moves, Tap(t, m) PROVE UNCHANGED vars
  BY <1>7 DEF Tap
<1>8. CASE Dispose
  BY <1>8 DEF Dispose
<1>. QED BY <1>1, <1>2, <1>3, <1>4, <1>5, <1>6, <1>7, <1>8 DEF SessionNext

\* So whatever is proved of the engine alone holds of it in a session: above all
\* that each `go` the client sends is answered by one bestmove.
THEOREM EngineInSession == SessionSpec => Spec
<1>1. SessionInit => Init
  BY DEF SessionInit
<1>2. [SessionNext]_<<vars, sessionVars>> => [Next]_vars
  BY SessionIsClient
<1>. QED BY <1>1, <1>2, PTL DEF SessionSpec, Spec

LEMMA SessionCInv == SessionSpec => []CInv
BY EngineInSession, CInvAlways

\* Once an answer was late or the game was left, that is so for good.
LEMMA InTimeBefore == ASSUME SType, SessionNext, InTime' PROVE InTime /\ UNCHANGED <<late, disposed>>
<1>1. ASSUME NEW t, TimesOut(t) PROVE late' # 0
  BY <1>1 DEF TimesOut, SType
<1>2. ~Dispose /\ \A t : ~TimesOut(t)
  BY <1>1 DEF Dispose, InTime
<1>3. UNCHANGED late
  <2>1. CASE EngineReads \/ EngineWorks \/ Searches \/ OnLine
    BY <2>1 DEF EngineReads, EngineWorks, Searches, OnLine
  <2>2. ASSUME NEW t \in Tasks, Continues(t) PROVE UNCHANGED late
    BY <2>2 DEF Continues, NewGameReady, HumanMoveApplied, FenKnown, LegalKnown, ResultKnown,
                BestMoveKnown, EngineMoveApplied, Answered
  <2>3. ASSUME NEW t \in Tasks, TogglePause(t) PROVE UNCHANGED late
    BY <2>3 DEF TogglePause
  <2>4. ASSUME NEW t \in Tasks, NEW m \in Moves, Tap(t, m) PROVE UNCHANGED late
    BY <2>4 DEF Tap
  <2>. QED BY <1>2, <2>1, <2>2, <2>3, <2>4 DEF SessionNext, sessionVars
<1>4. UNCHANGED disposed
  <2>1. CASE EngineReads \/ EngineWorks \/ Searches \/ OnLine
    BY <2>1 DEF EngineReads, EngineWorks, Searches, OnLine, controller
  <2>2. ASSUME NEW t \in Tasks, Continues(t) PROVE UNCHANGED disposed
    BY <2>2 DEF Continues, NewGameReady, HumanMoveApplied, FenKnown, LegalKnown, ResultKnown,
                BestMoveKnown, EngineMoveApplied, Answered
  <2>3. ASSUME NEW t \in Tasks, TogglePause(t) PROVE UNCHANGED disposed
    BY <2>3 DEF TogglePause
  <2>4. ASSUME NEW t \in Tasks, NEW m \in Moves, Tap(t, m) PROVE UNCHANGED disposed
    BY <2>4 DEF Tap, controller
  <2>. QED BY <1>2, <2>1, <2>2, <2>3, <2>4 DEF SessionNext, sessionVars, controller
<1>. QED BY <1>3, <1>4, Zenon DEF InTime

\* What the engine's board is, and what it says of it.
LEMMA BoardIs ==
  ASSUME Remembered, ~Pending, game = SentGame
  PROVE  tree = SentGame
BY EngineAssumption DEF Remembered, SentGame

\* The client's side, which the engine's steps leave alone.
ClientSide == <<pending, sent, tasks, setup, controller, late>>

LEMMA ReadStep ==
  ASSUME CInv, EngineReads, ~Busy, NEW c, NEW g, Head(stdin) = Command(c, g)
  PROVE  /\ mpc = "idle" /\ cmd' = c /\ stdin' = Tail(stdin) /\ stdin # <<>> /\ ~Busy'
         /\ c \in {"position", "ucinewgame", "go"} => mpc' = "stop"
         /\ c \in {"isready"} => mpc' = "ensureBackend"
         /\ c \in Queries => mpc' = "idle" /\ stdout' = Append(stdout, Line(c, NoMove))
         /\ c \notin Queries => UNCHANGED stdout
         /\ c = "position" => game' = g
         /\ c \notin {"position", "ucinewgame"} => UNCHANGED game
         /\ UNCHANGED tree /\ UNCHANGED ClientSide
<1>1. Head(stdin).cmd = c /\ Head(stdin).game = g
  BY DEF Command
<1>2. UNCHANGED ClientSide
  BY DEF EngineReads, ClientSide
<1>3. ASSUME NEW pc, Receive(c, pc), UNCHANGED searching
      PROVE  mpc = "idle" /\ mpc' = pc /\ cmd' = c /\ ~Busy'
  BY <1>3, Reaped DEF Receive, Busy, Alive
<1>4. CASE Takes("ucinewgame") /\ UciNewGame /\ UNCHANGED stdout
  <2>1. c = "ucinewgame"
    BY <1>1, <1>4 DEF Takes
  <2>. QED BY <1>2, <1>3, <1>4, <2>1 DEF Takes, UciNewGame, treeVars, Queries
<1>5. CASE Takes("position") /\ game' = Head(stdin).game /\ Position /\ UNCHANGED stdout
  <2>1. c = "position"
    BY <1>1, <1>5 DEF Takes
  <2>. QED BY <1>1, <1>2, <1>3, <1>5, <2>1 DEF Takes, Position, treeVars, Queries
<1>6. CASE Takes("isready") /\ IsReady /\ UNCHANGED stdout
  <2>1. c = "isready"
    BY <1>1, <1>6 DEF Takes
  <2>. QED BY <1>2, <1>3, <1>6, <2>1 DEF Takes, IsReady, treeVars, Queries
<1>7. CASE Takes("go") /\ Go /\ UNCHANGED stdout
  <2>1. c = "go"
    BY <1>1, <1>7 DEF Takes
  <2>. QED BY <1>2, <1>3, <1>7, <2>1 DEF Takes, Go, treeVars, Queries
<1>8. ASSUME NEW q \in Queries, Takes(q), Query(q), Says(q, NoMove)
      PROVE  /\ c = q /\ mpc = "idle" /\ cmd' = c /\ stdin' = Tail(stdin) /\ stdin # <<>> /\ ~Busy'
             /\ mpc' = "idle" /\ stdout' = Append(stdout, Line(c, NoMove))
             /\ UNCHANGED game /\ UNCHANGED tree
  <2>1. c = q
    BY <1>1, <1>8 DEF Takes
  <2>. QED BY <1>3, <1>8, <2>1 DEF Takes, Query, treeVars, Says
<1>9. CASE \E q \in Queries : Takes(q) /\ Query(q) /\ Says(q, NoMove)
  <2>1. c \in Queries /\ c \notin {"position", "ucinewgame", "go", "isready"}
    BY <1>8, <1>9 DEF Queries
  <2>. QED BY <1>2, <1>8, <1>9, <2>1
<1>. QED BY <1>4, <1>5, <1>6, <1>7, <1>9 DEF EngineReads

\* A call whose line is on the way in: what it is about to read.
LEMMA NextLine ==
  ASSUME NEW place \in Places, OnItsWay(place), stdin # <<>>, mpc = "idle"
  PROVE  /\ ~Busy
         /\ \/ /\ place \in Applying \cup {"newGame"}
               /\ stdin = <<Command("position", SentGame), Command("isready", StartGame)>>
            \/ /\ place \in Applying \cup {"newGame"}
               /\ stdin = <<Command("isready", StartGame)>> /\ game = SentGame
            \/ /\ place = "newGame"
               /\ stdin = <<Command("ucinewgame", StartGame), Command("position", SentGame),
                            Command("isready", StartGame)>>
            \/ place = "bestMove" /\ stdin = <<Command("go", StartGame)>> /\ game = SentGame
            \/ /\ place \in {"fen", "legal", "result"} /\ game = SentGame
               /\ stdin = <<Command(KindAt(place), StartGame)>>
BY Zenon DEF OnItsWay, PositionOnItsWay, NewGameOnItsWay, SearchOnItsWay, Idle

\* Steps of the engine's process and the lines they leave on the way.
LEMMA CallAfterRead ==
  ASSUME CInv, Remembered, NEW t \in Tasks, Calling(t), EngineReads
  PROVE  Calling(t)'
<1>. DEFINE place == at[t]
<1>1. stdin # <<>> /\ mpc = "idle"
  <2>1. mpc = "idle"
    BY Zenon DEF EngineReads, UciNewGame, Position, IsReady, Go, Query, Receive
  <2>. QED BY <2>1 DEF EngineReads, Takes
<1>2. Awaiting(t) /\ stdout = <<>> /\ OnItsWay(place) /\ place \in Places
  BY <1>1 DEF Calling, Awaiting, Served, Settled
<1>3. UNCHANGED <<pending, sent, at, answer>>
  BY DEF EngineReads, tasks
<1>4. ASSUME \/ stdout' = <<>> /\ OnItsWay(place)'
             \/ Settled' /\ \E line : stdout' = <<line>> /\ Fits(line, place)'
      PROVE  Calling(t)'
  BY <1>2, <1>3, <1>4 DEF Calling, Awaiting, Alone
<1>5. UNCHANGED SentGame /\ UNCHANGED place /\ place' \in Places
  BY <1>2, <1>3 DEF SentGame
<1>6. ~Busy
  BY <1>1, <1>2, NextLine
<1>7. CASE /\ place \in Applying \cup {"newGame"}
           /\ stdin = <<Command("position", SentGame), Command("isready", StartGame)>>
  <2>1. Head(stdin) = Command("position", SentGame) /\ Tail(stdin) = <<Command("isready", StartGame)>>
    BY <1>7, Tuples
  <2>2. /\ mpc' = "stop" /\ cmd' = "position" /\ game' = SentGame /\ ~Busy' /\ UNCHANGED stdout
        /\ stdin' = <<Command("isready", StartGame)>>
    BY <1>6, <2>1, ReadStep DEF Queries
  <2>3. PositionOnItsWay'
    BY <1>5, <2>2 DEF PositionOnItsWay, Command, StartGame
  <2>. QED BY <1>2, <1>4, <1>5, <1>7, <2>2, <2>3 DEF OnItsWay
<1>8. CASE /\ place \in Applying \cup {"newGame"}
           /\ stdin = <<Command("isready", StartGame)>> /\ game = SentGame
  <2>1. Head(stdin) = Command("isready", StartGame) /\ Tail(stdin) = <<>>
    BY <1>8, Tuples
  <2>2. /\ mpc' = "ensureBackend" /\ cmd' = "isready" /\ UNCHANGED game /\ ~Busy' /\ UNCHANGED stdout
        /\ stdin' = <<>>
    BY <1>6, <2>1, ReadStep DEF Queries
  <2>3. PositionOnItsWay'
    BY <1>5, <1>8, <2>2 DEF PositionOnItsWay
  <2>. QED BY <1>2, <1>4, <1>5, <1>8, <2>2, <2>3 DEF OnItsWay
<1>9. CASE /\ place = "newGame"
           /\ stdin = <<Command("ucinewgame", StartGame), Command("position", SentGame),
                        Command("isready", StartGame)>>
  <2>1. /\ Head(stdin) = Command("ucinewgame", StartGame)
        /\ Tail(stdin) = <<Command("position", SentGame), Command("isready", StartGame)>>
    BY <1>9, Tuples
  <2>2. /\ mpc' = "stop" /\ cmd' = "ucinewgame" /\ ~Busy' /\ UNCHANGED stdout
        /\ stdin' = <<Command("position", SentGame), Command("isready", StartGame)>>
    BY <1>6, <2>1, ReadStep DEF Queries
  <2>3. NewGameOnItsWay'
    BY <1>5, <2>2 DEF NewGameOnItsWay, Command, StartGame
  <2>. QED BY <1>2, <1>4, <1>5, <1>9, <2>2, <2>3 DEF OnItsWay
<1>10. CASE place = "bestMove" /\ stdin = <<Command("go", StartGame)>> /\ game = SentGame
  <2>1. Head(stdin) = Command("go", StartGame) /\ Tail(stdin) = <<>>
    BY <1>10, Tuples
  <2>2. /\ mpc' = "stop" /\ cmd' = "go" /\ UNCHANGED game /\ ~Busy' /\ UNCHANGED stdout
        /\ stdin' = <<>>
    BY <1>6, <2>1, ReadStep, SMTT(30) DEF Queries
  <2>3. SearchOnItsWay'
    BY <1>5, <1>10, <2>2 DEF SearchOnItsWay
  <2>. QED BY <1>2, <1>4, <1>5, <1>10, <2>2, <2>3 DEF OnItsWay
<1>11. CASE /\ place \in {"fen", "legal", "result"} /\ game = SentGame
            /\ stdin = <<Command(KindAt(place), StartGame)>>
  <2>. DEFINE kind == KindAt(place)
  <2>1. Head(stdin) = Command(kind, StartGame) /\ Tail(stdin) = <<>>
    BY <1>11, Tuples
  <2>2. kind \in Queries
    BY <1>11 DEF KindAt, Queries
  <2>3. /\ mpc' = "idle" /\ UNCHANGED game /\ ~Busy' /\ stdin' = <<>>
        /\ stdout' = Append(stdout, Line(kind, NoMove))
    <3>1. kind \notin {"position", "ucinewgame"}
      BY <2>2 DEF Queries
    <3>. HIDE DEF kind
    <3>. QED BY <1>6, <2>1, <2>2, <3>1, ReadStep
  <2>4. tree = SentGame
    BY <1>1, <1>11, BoardIs DEF Pending
  <2>5. stdout' = <<Line(kind, NoMove)>>
    BY <1>2, <2>3, Tuples
  <2>6. ASSUME NEW line, line = Line(kind, NoMove) PROVE Fits(line, place)'
    <3>1. line.kind = kind /\ line.tree = SentGame /\ place # "bestMove"
      BY <1>11, <2>4, <2>6 DEF Line
    <3>2. line.kind = KindAt(place') /\ line.tree = SentGame' /\ place' # "bestMove"
      BY <1>5, <3>1
    <3>. HIDE DEF place
    <3>. QED BY <3>2 DEF Fits
  <2>7. Settled'
    BY <1>5, <1>11, <2>3 DEF Settled, Idle
  <2>8. PICK line : line = Line(kind, NoMove)
    OBVIOUS
  <2>9. stdout' = <<line>> /\ Fits(line, place)'
    BY <2>5, <2>6, <2>8
  <2>. QED BY <1>4, <2>7, <2>9
<1>. QED BY <1>1, <1>2, <1>7, <1>8, <1>9, <1>10, <1>11, NextLine

LEMMA CallAfterWork ==
  ASSUME CInv, Remembered, NEW t \in Tasks, Calling(t), EngineWorks
  PROVE  Calling(t)'
<1>. DEFINE place == at[t]
<1>1. mpc # "idle"
  BY Zenon DEF EngineWorks, TellSearch, JoinSearch, HandleNewGame, HandlePosition,
               EnsureBackend, LaunchSearch
<1>2. Awaiting(t) /\ stdout = <<>> /\ OnItsWay(place) /\ place \in Places
  BY <1>1 DEF Calling, Awaiting, Served, Settled, Idle
<1>3. UNCHANGED <<stdin, pending, sent, at, answer>>
  BY DEF EngineWorks, tasks
<1>4. UNCHANGED SentGame /\ UNCHANGED place /\ place' \in Places
  BY <1>2, <1>3 DEF SentGame
<1>5. ASSUME \/ stdout' = <<>> /\ OnItsWay(place)'
             \/ Settled' /\ \E line : stdout' = <<line>> /\ Fits(line, place)'
      PROVE  Calling(t)'
  BY <1>2, <1>3, <1>5 DEF Calling, Awaiting, Alone
<1>6. \/ /\ place \in Applying \cup {"newGame"} /\ cmd = "position" /\ ~Busy /\ game = SentGame
         /\ mpc \in {"stop", "join", "position"} /\ stdin = <<Command("isready", StartGame)>>
      \/ /\ place \in Applying \cup {"newGame"} /\ cmd = "isready" /\ ~Busy /\ game = SentGame
         /\ mpc = "ensureBackend" /\ stdin = <<>>
      \/ /\ place = "newGame" /\ cmd = "ucinewgame" /\ ~Busy
         /\ mpc \in {"stop", "join", "ucinewgame"}
         /\ stdin = <<Command("position", SentGame), Command("isready", StartGame)>>
      \/ /\ place = "bestMove" /\ cmd = "go" /\ ~Busy /\ game = SentGame
         /\ mpc \in {"stop", "join", "ensureBackend", "launch"} /\ stdin = <<>>
  BY <1>1, <1>2, Zenon DEF OnItsWay, PositionOnItsWay, NewGameOnItsWay, SearchOnItsWay, Idle
<1>7. ASSUME NEW c, NEW g PROVE Command(c, g)' = Command(c, g) /\ StartGame' = StartGame
  BY DEF Command, StartGame
<1>8. stdin' = stdin /\ SentGame' = SentGame /\ place' = place
  BY <1>3, <1>4
<1>. HIDE DEF place
<1>. USE <1>6, <1>8
<1>9. CASE TellSearch /\ UNCHANGED stdout
  <2>1. mpc' = "join" /\ mpc = "stop" /\ UNCHANGED <<cmd, game>> /\ ~Busy'
    BY <1>9 DEF TellSearch, Busy
  <2>2. OnItsWay(place)'
    BY <2>1 DEF OnItsWay, PositionOnItsWay, NewGameOnItsWay, SearchOnItsWay, Command, StartGame
  <2>. QED BY <1>2, <1>5, <1>9, <2>2
<1>10. CASE JoinSearch /\ UNCHANGED stdout
  <2>1. /\ mpc = "join" /\ ~Busy' /\ UNCHANGED <<cmd, game>>
        /\ cmd = "position" => mpc' = "position"
        /\ cmd = "ucinewgame" => mpc' = "ucinewgame"
        /\ cmd = "go" => mpc' = "ensureBackend"
    BY <1>10 DEF JoinSearch, Busy
  <2>2. OnItsWay(place)'
    BY <2>1 DEF OnItsWay, PositionOnItsWay, NewGameOnItsWay, SearchOnItsWay, Command, StartGame
  <2>. QED BY <1>2, <1>5, <1>10, <2>2
<1>11. CASE HandleNewGame /\ UNCHANGED stdout
  <2>1. mpc = "ucinewgame" /\ mpc' = "idle" /\ UNCHANGED <<cmd, game>> /\ ~Busy'
    BY <1>11 DEF HandleNewGame, Busy, searchVars
  <2>2. OnItsWay(place)'
    BY <2>1 DEF OnItsWay, PositionOnItsWay, Idle, Command, StartGame
  <2>. QED BY <1>2, <1>5, <1>11, <2>2
<1>12. CASE HandlePosition /\ UNCHANGED stdout
  <2>1. mpc = "position" /\ mpc' = "idle" /\ UNCHANGED <<cmd, game>> /\ ~Busy'
    BY <1>12 DEF HandlePosition, Busy, searchVars
  <2>2. OnItsWay(place)'
    BY <2>1 DEF OnItsWay, PositionOnItsWay, Idle, Command, StartGame
  <2>. QED BY <1>2, <1>5, <1>12, <2>2
<1>13. CASE LaunchSearch /\ UNCHANGED stdout
  <2>1. mpc = "launch" /\ mpc' = "idle" /\ UNCHANGED <<cmd, game>> /\ Busy'
    BY <1>13 DEF LaunchSearch, Busy
  <2>2. OnItsWay(place)'
    BY <2>1 DEF OnItsWay, SearchOnItsWay
  <2>. QED BY <1>2, <1>5, <1>13, <2>2
<1>14. CASE /\ EnsureBackend
            /\ CASE cmd = "isready" -> Says("readyok", NoMove)
                 [] owed' < owed -> Says("bestmove", NoMove)
                 [] OTHER -> UNCHANGED stdout
  <2>1. mpc = "ensureBackend" /\ UNCHANGED <<cmd, game, tree>> /\ ~Busy'
    BY <1>14 DEF EnsureBackend, Busy, searchVars, treeVars
  <2>2. tree = SentGame
    BY <2>1, BoardIs DEF Pending
  <2>3. ASSUME NEW kind, Says(kind, NoMove), kind = KindAt(place), stdin = <<>>, mpc' = "idle"
        PROVE  Calling(t)'
    <3>1. PICK line : line = Line(kind, NoMove)
      OBVIOUS
    <3>2. stdout' = <<line>>
      BY <1>2, <2>3, <3>1, Tuples DEF Says
    <3>3. line.kind = kind /\ line.tree = SentGame /\ line.mv = NoMove
      BY <2>2, <3>1 DEF Line
    <3>4. Fits(line, place)'
      BY <2>3, <3>3 DEF Fits
    <3>5. Settled'
      BY <2>1, <2>3 DEF Settled, Idle
    <3>. QED BY <1>5, <3>2, <3>4, <3>5
  <2>4. CASE cmd = "isready"
    <3>1. Says("readyok", NoMove) /\ mpc' = "idle" /\ stdin = <<>>
      <4>1. cmd # "go" /\ stdin = <<>>
        BY <2>1, <2>4
      <4>2. mpc' = "idle"
        BY <1>14, <4>1, Zenon DEF EnsureBackend
      <4>3. owed' = owed /\ owed \in Int
        <5>1. owed' = owed
          BY <1>14, <4>1, Zenon DEF EnsureBackend
        <5>. QED BY <5>1 DEF CInv, TypeOK
      <4>4. ~(owed' < owed)
        BY <4>3
      <4>5. Says("readyok", NoMove)
        BY <1>14, <2>4, <4>4
      <4>. QED BY <4>1, <4>2, <4>5
    <3>2. "readyok" = KindAt(place)
      BY <2>4 DEF KindAt, Applying
    <3>. QED BY <2>3, <3>1, <3>2
  <2>5. CASE cmd = "go"
    <3>1. place = "bestMove" /\ stdin = <<>> /\ owed \in Int
      BY <2>5 DEF CInv, TypeOK
    <3>2. CASE mpc' = "launch" /\ owed' = owed
      <4>1. ~(owed' < owed)
        BY <3>1, <3>2
      <4>2. UNCHANGED stdout
        BY <1>14, <2>5, <4>1
      <4>3. OnItsWay(place)'
        BY <2>1, <2>5, <3>1, <3>2 DEF OnItsWay, SearchOnItsWay
      <4>. QED BY <1>2, <1>5, <4>2, <4>3
    <3>3. CASE mpc' = "idle" /\ owed' = owed - 1
      <4>1. owed' < owed
        BY <3>1, <3>3
      <4>2. Says("bestmove", NoMove)
        BY <1>14, <2>5, <4>1
      <4>3. "bestmove" = KindAt(place)
        BY <3>1 DEF KindAt
      <4>. QED BY <2>3, <3>1, <3>3, <4>2, <4>3
    <3>. QED BY <1>14, <2>5, <3>2, <3>3, Zenon DEF EnsureBackend
  <2>. QED BY <2>1, <2>4, <2>5
<1>. QED BY <1>9, <1>10, <1>11, <1>12, <1>13, <1>14 DEF EngineWorks

LEMMA CallAfterSearch ==
  ASSUME CInv, Remembered, NEW t \in Tasks, Calling(t), Searches
  PROVE  Calling(t)'
<1>. DEFINE place == at[t]
<1>1. UNCHANGED <<stdin, pending, sent, at, answer>> /\ UNCHANGED <<mpc, cmd, game, tree>>
  BY DEF Searches, tasks, StopperFires, RunBlockingReturns, ThreadEnds, EmitBestMove, treeVars
<1>2. UNCHANGED SentGame /\ UNCHANGED place
  BY <1>1 DEF SentGame
<1>3. CASE (Busy <=> Busy') /\ UNCHANGED stdout
  <2>1. UNCHANGED <<Settled, OnItsWay(place)>>
    BY <1>1, <1>2, <1>3 DEF Settled, Idle, OnItsWay, PositionOnItsWay, NewGameOnItsWay,
                            SearchOnItsWay, Command, StartGame
  <2>2. \A line : Fits(line, place)' <=> Fits(line, place)
    BY <1>2 DEF Fits
  <2>3. UNCHANGED Fits(answer[t], place)
    BY <1>1, <1>2 DEF Fits
  <2>4. Awaiting(t) => Awaiting(t)'
    BY <1>1, <1>3, <2>1, <2>2 DEF Awaiting
  <2>5. Served(t) => Served(t)'
    BY <1>1, <1>3, <2>1, <2>3 DEF Served
  <2>. QED BY <1>1, <2>4, <2>5 DEF Calling, Alone
<1>4. CASE EmitBestMove /\ ~UNCHANGED stdout
  <2>1. Busy /\ ~Busy'
    BY <1>4 DEF EmitBestMove, Busy
  <2>2. Awaiting(t) /\ stdout = <<>> /\ place = "bestMove" /\ mpc = "idle" /\ game = SentGame /\ stdin = <<>>
    BY <2>1 DEF Calling, Awaiting, Served, Settled, Idle, OnItsWay, PositionOnItsWay,
                NewGameOnItsWay, SearchOnItsWay
  <2>3. tree = SentGame
    BY <2>2, BoardIs DEF Pending
  <2>4. PICK m \in (IF LegalIn(tree) = {} THEN {NoMove} ELSE LegalIn(tree)) : Says("bestmove", m)
    BY <1>4 DEF Searches, StopperFires, RunBlockingReturns, ThreadEnds
  <2>5. m = NoMove \/ m \in LegalIn(SentGame)
    BY <2>3, <2>4
  <2>6. PICK line : line = Line("bestmove", m)
    OBVIOUS
  <2>7. stdout' = <<line>>
    BY <2>2, <2>4, <2>6, Tuples DEF Says
  <2>8. line.kind = "bestmove" /\ line.tree = SentGame /\ line.mv = m
    BY <2>3, <2>6 DEF Line
  <2>9. LegalIn(SentGame)' = LegalIn(SentGame)
    BY <1>2 DEF LegalIn
  <2>10. Fits(line, place)'
    BY <1>2, <2>2, <2>5, <2>8, <2>9 DEF Fits, KindAt
  <2>11. Settled'
    BY <1>1, <1>2, <2>1, <2>2 DEF Settled, Idle
  <2>. QED BY <1>1, <2>2, <2>7, <2>10, <2>11 DEF Calling, Awaiting, Alone
<1>. QED BY <1>3, <1>4 DEF Searches, StopperFires, RunBlockingReturns, ThreadEnds, EmitBestMove, Busy, Says

\* When no call is under way, the engine's process has nothing to do but to end
\* the thread of a search that has answered.
LEMMA RestAfterEngine ==
  ASSUME CInv, Resting, EngineReads \/ EngineWorks \/ Searches
  PROVE  Resting'
<1>1. stdin = <<>> /\ mpc = "idle" /\ ~Busy /\ game = SentGame
  BY DEF Resting, Settled, Idle
<1>2. ~EngineReads
  BY <1>1 DEF EngineReads, Takes
<1>3. ~EngineWorks
  BY <1>1 DEF EngineWorks, TellSearch, JoinSearch, HandleNewGame, HandlePosition,
              EnsureBackend, LaunchSearch
<1>4. /\ UNCHANGED <<stdin, pending, sent, at, answer, mpc, game, stdout>> /\ ~Busy'
  BY <1>1, <1>2, <1>3 DEF Searches, tasks, StopperFires, RunBlockingReturns, ThreadEnds,
                          EmitBestMove, Busy
<1>. QED BY <1>4 DEF Resting, AtRest, Free, Settled, Idle, SentGame

\* The line that was awaited arrives.
LEMMA CallAfterLine ==
  ASSUME SType, NEW t \in Tasks, Calling(t), OnLine
  PROVE  Calling(t)'
<1>1. stdout # <<>>
  BY DEF OnLine
<1>2. Awaiting(t) /\ Settled
  BY <1>1 DEF Calling, Awaiting, Served
<1>3. PICK line : stdout = <<line>> /\ Fits(line, at[t])
  BY <1>1, <1>2 DEF Awaiting
<1>4. /\ UNCHANGED <<stdin, sent, at, game, mpc, thread>>
      /\ UNCHANGED <<SentGame, Busy>>
  BY DEF OnLine, vars, searchVars, SentGame, Busy
<1>5. Head(stdout) = line /\ stdout' = <<>>
  BY <1>3, Tuples DEF OnLine
<1>. DEFINE request == [kind |-> KindAt(at[t]), task |-> t]
            takers == {i \in DOMAIN pending : pending[i].kind = line.kind}
<1>6. pending = <<request>> /\ request.kind = line.kind /\ request.task = t
  BY <1>2, <1>3 DEF Awaiting, Fits
<1>7. takers = {1}
  <2>1. DOMAIN pending = {1} /\ pending[1] = request
    BY <1>6
  <2>. HIDE DEF request
  <2>. QED BY <1>6, <2>1
<1>8. Min({1}) = 1
  BY DEF Min
<1>9. answer' = [answer EXCEPT ![t] = line] /\ pending' = <<>>
  <2>1. takers # {} /\ Min(takers) = 1 /\ pending[1].task = t
    BY <1>6, <1>7, <1>8
  <2>2. IF takers = {} THEN UNCHANGED <<answer, pending>>
        ELSE /\ answer' = [answer EXCEPT ![pending[Min(takers)].task] = line]
             /\ pending' = RemoveAt(pending, Min(takers))
    BY <1>5 DEF OnLine
  <2>. HIDE DEF takers
  <2>3. answer' = [answer EXCEPT ![t] = line] /\ pending' = RemoveAt(pending, 1)
    BY <2>1, <2>2
  <2>. QED BY <1>6, <2>3, Tuples
<1>10. answer'[t] = line /\ \A u \in Tasks \ {t} : answer'[u] = answer[u]
  BY <1>9 DEF SType
<1>11. Settled'
  BY <1>2, <1>4 DEF Settled, Idle
<1>12. Fits(answer[t], at[t])'
  BY <1>3, <1>4, <1>10 DEF Fits, LegalIn
<1>13. Served(t)'
  BY <1>5, <1>9, <1>11, <1>12 DEF Served
<1>. QED BY <1>4, <1>10, <1>13 DEF Calling, Alone

\* A task sends its lines, with nothing else on the way.
LEMMA Sent ==
  ASSUME SType, NEW t \in Tasks, Alone(t),
         pending = <<>>, stdin = <<>>, stdout = <<>>,
         answer' = answer \/ answer' = [answer EXCEPT ![t] = NoLine],
         answer[t] = NoLine \/ answer' = [answer EXCEPT ![t] = NoLine],
         NEW place \in Places, NEW lines, <<>> \o lines = lines,
         Awaits(t, place, KindAt(place), lines), UNCHANGED stdout,
         stdin' = lines => OnItsWay(place)'
  PROVE  Calling(t)' /\ at' = [at EXCEPT ![t] = place] /\ at'[t] = place
<1>1. at' = [at EXCEPT ![t] = place] /\ at'[t] = place /\ \A u \in Tasks \ {t} : at'[u] = at[u]
  BY DEF Awaits, SType
<1>2. answer'[t] = NoLine /\ \A u \in Tasks \ {t} : answer'[u] = answer[u]
  BY DEF SType
<1>3. stdin' = lines
  BY DEF Awaits
<1>4. pending' = <<[kind |-> KindAt(at'[t]), task |-> t]>>
  <2>1. pending' = Append(<<>>, [kind |-> KindAt(place), task |-> t])
    BY DEF Awaits
  <2>. QED BY <1>1, <2>1, Tuples
<1>5. Awaiting(t)'
  BY <1>1, <1>2, <1>3, <1>4 DEF Awaiting, KindAt
<1>6. Alone(t)'
  BY <1>1, <1>2 DEF Alone
<1>. QED BY <1>1, <1>5, <1>6 DEF Calling

\* What a task sends when it has been answered, or when it begins.
LEMMA Asks ==
  ASSUME SType, NEW t \in Tasks, Alone(t), Served(t), NEW place \in {"fen", "legal", "result"},
         answer' = [answer EXCEPT ![t] = NoLine],
         Awaits(t, place, KindAt(place), <<Command(KindAt(place), StartGame)>>),
         UNCHANGED <<vars, stdout, sent>>
  PROVE  Calling(t)' /\ at' = [at EXCEPT ![t] = place] /\ at'[t] = place
<1>. DEFINE lines == <<Command(KindAt(place), StartGame)>>
<1>1. /\ pending = <<>> /\ stdin = <<>> /\ stdout = <<>>
      /\ Idle /\ game = SentGame /\ place \in Places
  BY DEF Served, Settled, Places
<1>2. UNCHANGED <<Idle, game, SentGame>>
  BY DEF vars, searchVars, Idle, Busy, SentGame
<1>3. <<>> \o lines = lines
  BY Tuples
<1>4. lines' = lines /\ KindAt(place)' = KindAt(place)
  BY DEF Command, KindAt, StartGame
<1>5. stdin' = lines => OnItsWay(place)'
  BY <1>1, <1>2, <1>4 DEF OnItsWay
<1>6. Awaits(t, place, KindAt(place), lines) /\ UNCHANGED stdout
  OBVIOUS
<1>. HIDE DEF lines
<1>. QED BY <1>1, <1>3, <1>5, <1>6, Sent

LEMMA SendsGo ==
  ASSUME SType, NEW t \in Tasks, Alone(t),
         pending = <<>>, stdout = <<>>, Settled,
         answer' = answer \/ answer' = [answer EXCEPT ![t] = NoLine],
         answer[t] = NoLine \/ answer' = [answer EXCEPT ![t] = NoLine],
         Awaits(t, "bestMove", "bestmove", <<Command("go", StartGame)>>),
         UNCHANGED <<vars, stdout, sent>>
  PROVE  Calling(t)' /\ at' = [at EXCEPT ![t] = "bestMove"] /\ at'[t] = "bestMove"
<1>. DEFINE lines == <<Command("go", StartGame)>>
<1>1. /\ stdin = <<>> /\ Idle /\ game = SentGame /\ "bestMove" \in Places
      /\ KindAt("bestMove") = "bestmove"
  BY DEF Settled, Places, KindAt
<1>2. UNCHANGED <<Idle, game, SentGame>>
  BY DEF vars, searchVars, Idle, Busy, SentGame
<1>3. <<>> \o lines = lines
  BY Tuples
<1>4. lines' = lines
  BY DEF Command, StartGame
<1>5. stdin' = lines => OnItsWay("bestMove")'
  BY <1>1, <1>2, <1>4 DEF OnItsWay, SearchOnItsWay
<1>6. Awaits(t, "bestMove", KindAt("bestMove"), lines) /\ UNCHANGED stdout
  BY <1>1
<1>. HIDE DEF lines
<1>. QED BY <1>1, <1>3, <1>5, <1>6, Sent

LEMMA MoveSent ==
  ASSUME SType, NEW t \in Tasks, Alone(t),
         pending = <<>>, stdout = <<>>, Settled,
         answer' = answer \/ answer' = [answer EXCEPT ![t] = NoLine],
         answer[t] = NoLine \/ answer' = [answer EXCEPT ![t] = NoLine],
         NEW place \in Applying, NEW m, SendsMove(t, place, m),
         UNCHANGED <<vars, stdout>>
  PROVE  /\ Calling(t)' /\ at' = [at EXCEPT ![t] = place] /\ at'[t] = place
         /\ sent' = Append(sent, m) /\ mv'[t] = m
<1>. DEFINE told == [fen |-> StartPos, moves |-> sent']
            lines == <<Command("position", told), Command("isready", StartGame)>>
<1>1. /\ stdin = <<>> /\ Idle /\ place \in Places /\ KindAt(place) = "readyok"
  BY DEF Settled, Places, KindAt, Applying
<1>2. UNCHANGED Idle /\ told = SentGame'
  BY DEF vars, searchVars, Idle, Busy, SentGame
<1>3. <<>> \o lines = lines
  BY Tuples
<1>4. stdin' = lines => OnItsWay(place)'
  <2>. SUFFICES ASSUME stdin' = lines PROVE OnItsWay(place)'
    OBVIOUS
  <2>1. stdin' = <<Command("position", SentGame)', Command("isready", StartGame)'>>
    BY <1>2 DEF Command, StartGame
  <2>2. PositionOnItsWay'
    BY <1>1, <1>2, <2>1 DEF PositionOnItsWay
  <2>. QED BY <2>2 DEF OnItsWay
<1>5. Awaits(t, place, KindAt(place), lines) /\ UNCHANGED stdout /\ sent' = Append(sent, m)
      /\ mv'[t] = m
  BY <1>1 DEF SendsMove, SType
<1>. HIDE DEF lines
<1>. QED BY <1>1, <1>3, <1>4, <1>5, Sent

LEMMA OneMoreMove ==
  ASSUME NEW s \in Seq(Moves), NEW m \in Moves
  PROVE  /\ Append(s, m) \in Seq(Moves) /\ Len(Append(s, m)) = Len(s) + 1
         /\ \A k \in 0 .. Len(s) : SubSeq(Append(s, m), 1, k) = SubSeq(s, 1, k)
         /\ Playable(<<>>, s) /\ Legal(s, m) => Playable(<<>>, Append(s, m))
<1>. DEFINE long == Append(s, m)
<1>1. /\ long \in Seq(Moves) /\ Len(long) = Len(s) + 1 /\ Len(s) \in Nat
      /\ long[Len(s) + 1] = m /\ \A i \in 1 .. Len(s) : long[i] = s[i]
  OBVIOUS
<1>. HIDE DEF long
<1>2. ASSUME NEW k \in 0 .. Len(s) PROVE SubSeq(long, 1, k) = SubSeq(s, 1, k)
  <2>1. k \in 0 .. Len(long)
    BY <1>1
  <2>2. /\ SubSeq(s, 1, k) \in Seq(Moves) /\ Len(SubSeq(s, 1, k)) = k
        /\ \A i \in 1 .. k : SubSeq(s, 1, k)[i] = s[i]
    BY Prefix
  <2>3. /\ SubSeq(long, 1, k) \in Seq(Moves) /\ Len(SubSeq(long, 1, k)) = k
        /\ \A i \in 1 .. k : SubSeq(long, 1, k)[i] = long[i]
    BY <1>1, <2>1, Prefix
  <2>4. \A i \in 1 .. k : SubSeq(long, 1, k)[i] = SubSeq(s, 1, k)[i]
    BY <1>1, <2>2, <2>3
  <2>. QED BY <2>2, <2>3, <2>4, SeqEqual
<1>3. ASSUME Playable(<<>>, s), Legal(s, m) PROVE Playable(<<>>, long)
  <2>1. SubSeq(s, 1, Len(s)) = s /\ SubSeq(long, 1, Len(long)) = long
    BY <1>1, SubSeqFull
  <2>2. \A i \in 1 .. Len(s) : Legal(SubSeq(s, 1, i - 1), s[i])
    <3>1. Len(s) \in 0 .. Len(s)
      BY <1>1
    <3>2. Playable(<<>>, SubSeq(s, 1, Len(s)))
      BY <1>3, <2>1, Zenon
    <3>. QED BY <3>1, <3>2, PlayableIs
  <2>3. ASSUME NEW i \in 1 .. Len(long) PROVE Legal(SubSeq(long, 1, i - 1), long[i])
    <3>1. CASE i = Len(s) + 1
      <4>1. i - 1 = Len(s) /\ SubSeq(long, 1, Len(s)) = s /\ long[i] = m
        BY <1>1, <1>2, <2>1, <3>1
      <4>. QED BY <1>3, <4>1
    <3>2. CASE i \in 1 .. Len(s)
      <4>1. i - 1 \in 0 .. Len(s)
        BY <1>1, <3>2
      <4>2. SubSeq(long, 1, i - 1) = SubSeq(s, 1, i - 1) /\ long[i] = s[i]
        BY <1>1, <1>2, <3>2, <4>1
      <4>. QED BY <2>2, <3>2, <4>2
    <3>. QED BY <1>1, <3>1, <3>2
  <2>4. Len(long) \in 0 .. Len(long)
    BY <1>1
  <2>5. Playable(<<>>, SubSeq(long, 1, Len(long)))
    BY <1>1, <2>3, <2>4, PlayableIs
  <2>. QED BY <2>1, <2>5
<1>. QED BY <1>1, <1>2, <1>3 DEF long

\* A continuation is that of the one call there is, with its own answer.
LEMMA OneServed ==
  ASSUME Linked, NEW t \in Tasks, answer[t] # NoLine
  PROVE  Calling(t) /\ Alone(t) /\ Served(t) /\ Books(t)
<1>1. ~Resting
  BY DEF Resting
<1>2. PICK u \in Tasks : Calling(u) /\ Books(u)
  BY <1>1 DEF Linked
<1>3. u = t
  BY <1>2 DEF Calling, Alone
<1>. QED BY <1>2, <1>3 DEF Calling, Awaiting

\* One position more in the client's list.
LEMMA FensUnder ==
  ASSUME moves \in Seq(Moves), FensSoFar, NEW m \in Moves, moves' = Append(moves, m),
         UNCHANGED fens
  PROVE  FensSoFar' /\ moves' \in Seq(Moves) /\ Len(moves') = Len(moves) + 1
<1>1. Len(moves) \in Nat /\ Len(fens) \in Nat
  BY DEF FensSoFar
<1>2. moves' \in Seq(Moves) /\ Len(moves') = Len(moves) + 1
  BY OneMoreMove
<1>3. ASSUME NEW k \in 1 .. Len(fens) PROVE fens'[k] = AfterPlies(k - 1)'
  <2>1. k - 1 \in 0 .. Len(moves) /\ fens[k] = AfterPlies(k - 1)
    BY <1>1 DEF FensSoFar
  <2>2. SubSeq(moves', 1, k - 1) = SubSeq(moves, 1, k - 1)
    BY <2>1, OneMoreMove
  <2>. QED BY <2>1, <2>2 DEF AfterPlies
<1>. QED BY <1>1, <1>2, <1>3 DEF FensSoFar

LEMMA FensLonger ==
  ASSUME moves \in Seq(Moves), FensSoFar, Len(fens) = Len(moves),
         fens' = Append(fens, Recorded), UNCHANGED moves
  PROVE  FensSoFar' /\ Len(fens') = Len(moves) + 1
<1>1. Len(moves) \in Nat /\ fens \in Seq(Lined)
  BY DEF FensSoFar
<1>2. Recorded \in Lined
  BY EngineAssumption DEF Recorded, Lined
<1>. DEFINE new == Recorded
<1>3. fens' = Append(fens, new) /\ new \in Lined
  BY <1>2
<1>4. new = AfterPlies(Len(moves))
  BY SubSeqFull DEF Recorded, AfterPlies
<1>. HIDE DEF new
<1>5. /\ fens' \in Seq(Lined) /\ Len(fens') = Len(fens) + 1
      /\ fens'[Len(fens) + 1] = new /\ \A k \in 1 .. Len(fens) : fens'[k] = fens[k]
  BY <1>1, <1>3
<1>6. ASSUME NEW k \in 1 .. Len(fens') PROVE fens'[k] = AfterPlies(k - 1)'
  <2>1. AfterPlies(k - 1)' = AfterPlies(k - 1)
    BY DEF AfterPlies
  <2>2. CASE k = Len(fens) + 1
    <3>1. k - 1 = Len(moves)
      BY <1>1, <2>2
    <3>. QED BY <1>4, <1>5, <2>1, <2>2, <3>1
  <2>3. CASE k \in 1 .. Len(fens)
    BY <1>5, <2>1, <2>3 DEF FensSoFar
  <2>. QED BY <1>1, <1>5, <2>2, <2>3
<1>. QED BY <1>1, <1>5, <1>6 DEF FensSoFar

LEMMA EngineIdle ==
  ASSUME CInv, Remembered, UNCHANGED vars
  PROVE  Remembered'
BY EngineRemembers

LEMMA NewGameReadyLinked ==
  ASSUME CInv, SType, Linked, NEW t \in Tasks, NewGameReady(t)
  PROVE  Linked'
<1>1. /\ at[t] = "newGame" /\ answer[t] # NoLine /\ answer' = [answer EXCEPT ![t] = NoLine]
      /\ UNCHANGED <<vars, stdout, sent>>
      /\ Awaits(t, "fen", "fen", <<Command("fen", StartGame)>>)
      /\ UNCHANGED <<moves, fens, engine_thinking>>
  BY DEF NewGameReady, Answered, AsksFen, shown
<1>2. Alone(t) /\ Served(t) /\ Books(t)
  BY <1>1, OneServed
<1>3. KindAt("fen") = "fen"
  BY DEF KindAt
<1>4. Calling(t)' /\ at'[t] = "fen"
  BY <1>1, <1>2, <1>3, Asks
<1>5. Books(t)'
  <2>1. sent = moves /\ fens = <<>> /\ moves = <<>> /\ engine_thinking = FALSE
    BY <1>1, <1>2 DEF Books, Applying, Thinking
  <2>. QED BY <1>1, <1>4, <2>1 DEF Books, Applying, Thinking
<1>6. FensSoFar' /\ Remembered'
  BY <1>1, EngineIdle DEF FensSoFar, Linked, AfterPlies
<1>. QED BY <1>1, <1>4, <1>5, <1>6 DEF Linked

LEMMA MoveAppliedLinked ==
  ASSUME CInv, SType, Linked, NEW t \in Tasks, HumanMoveApplied(t) \/ EngineMoveApplied(t)
  PROVE  Linked'
<1>1. /\ at[t] \in Applying /\ answer[t] # NoLine /\ answer' = [answer EXCEPT ![t] = NoLine]
      /\ UNCHANGED <<vars, stdout, sent>>
      /\ Awaits(t, "fen", "fen", <<Command("fen", StartGame)>>)
      /\ moves' = Append(moves, mv[t]) /\ UNCHANGED fens
      /\ \/ at[t] = "applyHuman" /\ UNCHANGED engine_thinking
         \/ engine_thinking' = FALSE
  BY DEF HumanMoveApplied, EngineMoveApplied, Answered, AsksFen, Applying
<1>2. Alone(t) /\ Served(t) /\ Books(t)
  BY <1>1, OneServed
<1>3. KindAt("fen") = "fen"
  BY DEF KindAt
<1>4. Calling(t)' /\ at'[t] = "fen"
  BY <1>1, <1>2, <1>3, Asks
<1>5. mv[t] \in Moves /\ sent = Append(moves, mv[t]) /\ Len(fens) = Len(moves) + 1
  BY <1>1, <1>2 DEF Books, Applying
<1>6. FensSoFar' /\ moves' \in Seq(Moves) /\ Len(moves') = Len(moves) + 1
  BY <1>1, <1>5, FensUnder DEF Linked
<1>7. engine_thinking' = FALSE
  BY <1>1, <1>2 DEF Books, Thinking
<1>8. Books(t)'
  BY <1>1, <1>4, <1>5, <1>6, <1>7 DEF Books, Applying, Thinking
<1>9. Remembered' /\ sent' \in Seq(Moves) /\ Playable(<<>>, sent')
  BY <1>1, EngineIdle DEF Linked
<1>. QED BY <1>4, <1>6, <1>8, <1>9 DEF Linked

LEMMA FenKnownLinked ==
  ASSUME CInv, SType, Linked, NEW t \in Tasks, FenKnown(t)
  PROVE  Linked'
<1>1. /\ at[t] = "fen" /\ answer[t] # NoLine /\ answer' = [answer EXCEPT ![t] = NoLine]
      /\ UNCHANGED <<vars, stdout, sent>>
      /\ Awaits(t, "legal", "legalmoves", <<Command("legalmoves", StartGame)>>)
      /\ fens' = IF Len(fens) = Len(moves) THEN Append(fens, answer[t].tree) ELSE fens
      /\ board' = answer[t].tree
      /\ UNCHANGED <<moves, engine_thinking>>
  BY DEF FenKnown, Answered
<1>2. Alone(t) /\ Served(t) /\ Books(t)
  BY <1>1, OneServed
<1>3. KindAt("legal") = "legalmoves"
  BY DEF KindAt
<1>4. Calling(t)' /\ at'[t] = "legal"
  BY <1>1, <1>2, <1>3, Asks
<1>5. /\ sent = moves /\ engine_thinking = FALSE
      /\ Len(fens) \in {Len(moves), Len(moves) + 1}
  BY <1>1, <1>2 DEF Books, Applying, Thinking
<1>6. answer[t].tree = Recorded
  BY <1>2, <1>5 DEF Served, Fits, SentGame, Recorded
<1>7. FensSoFar' /\ Len(fens') = Len(moves) + 1
  <2>1. CASE Len(fens) = Len(moves)
    BY <1>1, <1>6, <2>1, FensLonger DEF Linked
  <2>2. CASE Len(fens) # Len(moves)
    BY <1>1, <1>5, <2>2 DEF Linked, FensSoFar, AfterPlies
  <2>. QED BY <2>1, <2>2
<1>8. board' = Recorded'
  BY <1>1, <1>6 DEF Recorded
<1>9. Books(t)'
  BY <1>1, <1>4, <1>5, <1>7, <1>8 DEF Books, Applying, Thinking
<1>10. Remembered' /\ sent' \in Seq(Moves) /\ moves' \in Seq(Moves) /\ Playable(<<>>, sent')
  BY <1>1, EngineIdle DEF Linked
<1>. QED BY <1>4, <1>7, <1>9, <1>10 DEF Linked

LEMMA LegalKnownLinked ==
  ASSUME CInv, SType, Linked, NEW t \in Tasks, LegalKnown(t)
  PROVE  Linked'
<1>1. /\ at[t] = "legal" /\ answer[t] # NoLine /\ answer' = [answer EXCEPT ![t] = NoLine]
      /\ UNCHANGED <<vars, stdout, sent>>
      /\ Awaits(t, "result", "result", <<Command("result", StartGame)>>)
      /\ legal' = LegalIn(answer[t].tree)
      /\ UNCHANGED <<moves, fens, board, engine_thinking>>
  BY DEF LegalKnown, Answered
<1>2. Alone(t) /\ Served(t) /\ Books(t)
  BY <1>1, OneServed
<1>3. KindAt("result") = "result"
  BY DEF KindAt
<1>4. Calling(t)' /\ at'[t] = "result"
  BY <1>1, <1>2, <1>3, Asks
<1>5. /\ sent = moves /\ engine_thinking = FALSE
      /\ Len(fens) = Len(moves) + 1 /\ board = Recorded
  BY <1>1, <1>2 DEF Books, Applying, Thinking
<1>6. answer[t].tree = board
  BY <1>2, <1>5 DEF Served, Fits, SentGame, Recorded
<1>7. legal' = LegalIn(board)'
  BY <1>1, <1>6 DEF LegalIn
<1>8. Books(t)'
  BY <1>1, <1>4, <1>5, <1>7 DEF Books, Applying, Thinking, Recorded
<1>9. /\ Remembered' /\ sent' \in Seq(Moves) /\ moves' \in Seq(Moves) /\ Playable(<<>>, sent')
      /\ FensSoFar'
  BY <1>1, EngineIdle DEF Linked, FensSoFar, AfterPlies
<1>. QED BY <1>4, <1>8, <1>9 DEF Linked

\* The end of a call.
LEMMA RestsAfter ==
  ASSUME CInv, SType, Linked, NEW t \in Tasks, Served(t), Alone(t),
         answer' = [answer EXCEPT ![t] = NoLine], at' = [at EXCEPT ![t] = "free"],
         UNCHANGED <<vars, stdout, stdin, pending, sent>>
  PROVE  Resting'
<1>1. \A u \in Tasks : at'[u] = "free" /\ answer'[u] = NoLine
  BY DEF SType, Alone
<1>2. pending' = <<>> /\ stdout' = <<>>
  BY DEF Served
<1>3. Settled'
  BY DEF Served, Settled, Idle, Busy, vars, searchVars, SentGame
<1>. QED BY <1>1, <1>2, <1>3 DEF Resting, AtRest, Free

LEMMA ResultKnownLinked ==
  ASSUME CInv, SType, Linked, NEW t \in Tasks, ResultKnown(t)
  PROVE  Linked'
<1>. DEFINE over == result' \/ (in_loop[t] /\ (mv[t] = NoMove \/ ~self_play))
<1>1. /\ at[t] = "result" /\ answer[t] # NoLine /\ answer' = [answer EXCEPT ![t] = NoLine]
      /\ UNCHANGED <<vars, stdout, sent>>
      /\ result' = IsOver(answer[t].tree) /\ ThinksOrEnds(t, over)
      /\ UNCHANGED <<moves, fens, board, legal>>
  BY DEF ResultKnown, Answered
<1>. HIDE DEF over
<1>2. Alone(t) /\ Served(t) /\ Books(t)
  BY <1>1, OneServed
<1>3. /\ sent = moves /\ engine_thinking = FALSE
      /\ Len(fens) = Len(moves) + 1 /\ board = Recorded /\ legal = LegalIn(board)
  BY <1>1, <1>2 DEF Books, Applying, Thinking
<1>4. /\ Remembered' /\ sent' \in Seq(Moves) /\ moves' \in Seq(Moves) /\ Playable(<<>>, sent')
      /\ FensSoFar'
  BY <1>1, EngineIdle DEF Linked, FensSoFar, AfterPlies
<1>5. result' = IsOver(board)'
  <2>1. answer[t].tree = board
    BY <1>2, <1>3 DEF Served, Fits, SentGame, Recorded
  <2>. QED BY <1>1, <2>1 DEF IsOver, LegalIn
<1>6. CASE /\ at' = [at EXCEPT ![t] = "free"] /\ UNCHANGED <<stdin, pending, engine_thinking>>
  <2>1. Resting'
    BY <1>1, <1>2, <1>6, RestsAfter
  <2>2. BooksClosed'
    BY <1>1, <1>3, <1>5, <1>6 DEF BooksClosed, Recorded, LegalIn
  <2>. QED BY <1>4, <2>1, <2>2 DEF Linked
<1>7. CASE /\ engine_thinking' = TRUE
           /\ Awaits(t, "bestMove", "bestmove", <<Command("go", StartGame)>>)
  <2>1. pending = <<>> /\ stdout = <<>> /\ Settled
    BY <1>2 DEF Served
  <2>2. Calling(t)' /\ at'[t] = "bestMove"
    BY <1>1, <1>2, <1>7, <2>1, SendsGo
  <2>3. Books(t)'
    BY <1>1, <1>3, <1>7, <2>2 DEF Books, Applying, Thinking, Recorded
  <2>. QED BY <1>4, <2>2, <2>3 DEF Linked
<1>. QED BY <1>1, <1>6, <1>7, Zenon DEF ThinksOrEnds

LEMMA BestMoveKnownLinked ==
  ASSUME CInv, SType, Linked, NEW t \in Tasks, BestMoveKnown(t)
  PROVE  Linked'
<1>1. /\ at[t] = "bestMove" /\ answer[t] # NoLine /\ answer' = [answer EXCEPT ![t] = NoLine]
      /\ UNCHANGED <<vars, stdout>>
      /\ UNCHANGED <<moves, fens, board, legal>>
  BY DEF BestMoveKnown, Answered, shown
<1>2. Alone(t) /\ Served(t) /\ Books(t)
  BY <1>1, OneServed
<1>3. /\ sent = moves /\ engine_thinking = TRUE
      /\ Len(fens) = Len(moves) + 1 /\ board = Recorded
  BY <1>1, <1>2 DEF Books, Applying, Thinking
<1>4. Remembered' /\ moves' \in Seq(Moves) /\ FensSoFar'
  BY <1>1, EngineIdle DEF Linked, FensSoFar, AfterPlies
<1>5. pending = <<>> /\ stdout = <<>> /\ Settled
  BY <1>2 DEF Served
<1>6. CASE /\ answer[t].mv # NoMove
           /\ SendsMove(t, "applyEngine", answer[t].mv)
           /\ UNCHANGED engine_thinking
  <2>. DEFINE m == answer[t].mv
  <2>1. m \in LegalIn(SentGame)
    BY <1>1, <1>2, <1>6 DEF Served, Fits
  <2>2. m \in Moves /\ Legal(sent, m)
    BY <2>1 DEF LegalIn, SentGame
  <2>. HIDE DEF m
  <2>3. SendsMove(t, "applyEngine", m) /\ "applyEngine" \in Applying
    BY <1>6 DEF m, Applying
  <2>4. Calling(t)' /\ at'[t] = "applyEngine" /\ sent' = Append(sent, m) /\ mv'[t] = m
    BY <1>1, <1>2, <1>5, <2>3, MoveSent
  <2>5. sent' \in Seq(Moves) /\ Playable(<<>>, sent')
    BY <2>2, <2>4, OneMoreMove DEF Linked
  <2>6. Books(t)'
    BY <1>1, <1>3, <1>6, <2>2, <2>4 DEF Books, Applying, Thinking, Recorded
  <2>. QED BY <1>4, <2>4, <2>5, <2>6 DEF Linked
<1>7. CASE engine_thinking' = FALSE /\ AsksFen(t) /\ UNCHANGED sent
  <2>1. KindAt("fen") = "fen"
    BY DEF KindAt
  <2>2. Calling(t)' /\ at'[t] = "fen"
    BY <1>1, <1>2, <1>7, <2>1, Asks DEF AsksFen
  <2>3. Books(t)'
    BY <1>1, <1>3, <1>7, <2>2 DEF Books, Applying, Thinking
  <2>4. sent' \in Seq(Moves) /\ Playable(<<>>, sent')
    BY <1>7 DEF Linked
  <2>. QED BY <1>4, <2>2, <2>3, <2>4 DEF Linked
<1>. QED BY <1>6, <1>7 DEF BestMoveKnown

\* A patient user acts when no call is under way, or to pause the engine.
LEMMA TapLinked ==
  ASSUME CInv, SType, Linked, NEW t \in Tasks, NEW m \in Moves, Tap(t, m), PatientUser
  PROVE  Linked'
<1>1. /\ Free(t) /\ engine_thinking # TRUE /\ m \in legal
      /\ SendsMove(t, "applyHuman", m)
      /\ UNCHANGED <<vars, stdout, answer>>
      /\ UNCHANGED <<moves, fens, board, legal, engine_thinking>>
  BY DEF Tap, controller, shown
<1>2. AtRest
  BY <1>1, Zenon DEF Tap, UserActs
<1>3. Resting /\ BooksClosed
  <2>1. ASSUME NEW u \in Tasks, Calling(u) PROVE FALSE
    BY <1>2, <2>1 DEF AtRest, Free, Calling, Places, Applying
  <2>. QED BY <2>1 DEF Linked
<1>4. Alone(t) /\ answer[t] = NoLine /\ pending = <<>> /\ stdout = <<>> /\ Settled
  BY <1>3 DEF Resting, AtRest, Free, Alone
<1>5. /\ engine_thinking = FALSE /\ sent = moves /\ Len(fens) = Len(moves) + 1
      /\ board = Recorded /\ legal = LegalIn(board)
  BY <1>3 DEF BooksClosed
<1>6. Legal(sent, m)
  BY <1>1, <1>5 DEF LegalIn, Recorded
<1>7. "applyHuman" \in Applying
  BY DEF Applying
<1>8. Calling(t)' /\ at'[t] = "applyHuman" /\ sent' = Append(sent, m) /\ mv'[t] = m
  BY <1>1, <1>4, <1>7, MoveSent
<1>9. sent' \in Seq(Moves) /\ Playable(<<>>, sent')
  BY <1>6, <1>8, OneMoreMove DEF Linked
<1>10. Books(t)'
  BY <1>1, <1>5, <1>8 DEF Books, Applying, Thinking, Recorded
<1>11. Remembered' /\ moves' \in Seq(Moves) /\ FensSoFar'
  BY <1>1, EngineIdle DEF Linked, FensSoFar, AfterPlies
<1>. QED BY <1>8, <1>9, <1>10, <1>11 DEF Linked

LEMMA PauseLinked ==
  ASSUME CInv, SType, Linked, NEW t \in Tasks, TogglePause(t), PatientUser
  PROVE  Linked'
<1>1. /\ Free(t)
      /\ UNCHANGED <<vars, stdout, sent, mv, answer, moves, fens, board, legal, result>>
  BY DEF TogglePause, shown
<1>2. /\ Remembered' /\ sent' \in Seq(Moves) /\ moves' \in Seq(Moves) /\ Playable(<<>>, sent')
      /\ FensSoFar'
  BY <1>1, EngineIdle DEF Linked, FensSoFar, AfterPlies
<1>3. CASE /\ engine_thinking # TRUE /\ engine_thinking' = TRUE
           /\ Awaits(t, "bestMove", "bestmove", <<Command("go", StartGame)>>)
  <2>1. AtRest
    BY <1>3, Zenon DEF TogglePause, UserActs
  <2>2. Resting /\ BooksClosed
    <3>1. ASSUME NEW u \in Tasks, Calling(u) PROVE FALSE
      BY <2>1, <3>1 DEF AtRest, Free, Calling, Places, Applying
    <3>. QED BY <3>1 DEF Linked
  <2>3. Alone(t) /\ answer[t] = NoLine /\ pending = <<>> /\ stdout = <<>> /\ Settled
    BY <2>2 DEF Resting, AtRest, Free, Alone
  <2>4. Calling(t)' /\ at'[t] = "bestMove"
    BY <1>1, <1>3, <2>3, SendsGo
  <2>5. sent = moves /\ Len(fens) = Len(moves) + 1 /\ board = Recorded
    BY <2>2 DEF BooksClosed
  <2>6. Books(t)'
    BY <1>1, <1>3, <2>4, <2>5 DEF Books, Applying, Thinking, Recorded
  <2>. QED BY <1>2, <2>4, <2>6 DEF Linked
<1>4. CASE UNCHANGED <<at, in_loop, stdin, pending, engine_thinking>>
  <2>1. UNCHANGED <<Settled, SentGame>>
    BY <1>1, <1>4 DEF Settled, Idle, Busy, vars, searchVars, SentGame
  <2>2. CASE Resting /\ BooksClosed
    <3>1. Resting'
      BY <1>1, <1>4, <2>1, <2>2 DEF Resting, AtRest, Free
    <3>2. BooksClosed'
      BY <1>1, <1>4, <2>2 DEF BooksClosed, Recorded, LegalIn, IsOver
    <3>. QED BY <1>2, <3>1, <3>2 DEF Linked
  <2>3. ASSUME NEW u \in Tasks, Calling(u), Books(u) PROVE Linked'
    <3>1. UNCHANGED OnItsWay(at[u])
      BY <1>1, <1>4 DEF OnItsWay, PositionOnItsWay, NewGameOnItsWay, SearchOnItsWay, Idle,
                        Busy, vars, searchVars, SentGame, Command, StartGame
    <3>2. \A line : Fits(line, at[u])' <=> Fits(line, at[u])
      BY <1>4, <2>1 DEF Fits, LegalIn
    <3>3. UNCHANGED Fits(answer[u], at[u])
      BY <1>1, <1>4, <2>1 DEF Fits, LegalIn
    <3>4. Awaiting(u) => Awaiting(u)'
      BY <1>1, <1>4, <2>1, <3>1, <3>2 DEF Awaiting
    <3>5. Served(u) => Served(u)'
      BY <1>1, <1>4, <2>1, <3>3 DEF Served
    <3>6. Calling(u)'
      BY <1>1, <1>4, <2>3, <3>4, <3>5 DEF Calling, Alone
    <3>7. Books(u)'
      BY <1>1, <1>4, <2>3 DEF Books, Recorded, LegalIn
    <3>. QED BY <1>2, <3>6, <3>7 DEF Linked
  <2>. QED BY <2>2, <2>3 DEF Linked
<1>. QED BY <1>3, <1>4, Zenon DEF TogglePause

\* The engine's steps, and the arrival of a line, leave the client's books alone.
LEMMA EngineLinked ==
  ASSUME CInv, SType, Linked, EngineReads \/ EngineWorks \/ Searches \/ OnLine
  PROVE  Linked'
<1>1. UNCHANGED <<sent, at, mv, moves, fens, board, legal, result, engine_thinking>>
  BY DEF EngineReads, EngineWorks, Searches, OnLine, tasks, controller, shown
<1>2. /\ sent' \in Seq(Moves) /\ moves' \in Seq(Moves) /\ Playable(<<>>, sent')
      /\ FensSoFar'
  BY <1>1 DEF Linked, FensSoFar, AfterPlies
<1>3. Remembered'
  <2>1. CASE EngineReads
    <3>1. Client
      BY <2>1, Zenon DEF EngineReads, Client
    <3>2. ASSUME Position PROVE Playable(<<>>, game'.moves)
      <4>1. mpc = "idle" /\ mpc' = "stop" /\ cmd' = "position" /\ stdin # <<>>
        BY <2>1, <3>2 DEF Position, Receive, EngineReads, Takes
      <4>2. PICK t \in Tasks : Calling(t)
        BY <4>1 DEF Linked, Resting, Settled
      <4>3. OnItsWay(at[t]) /\ at[t] \in Places
        BY <4>1, <4>2 DEF Calling, Awaiting, Served, Settled
      <4>4. ~Busy
        BY <4>1, <4>3, NextLine
      <4>5. PICK c, g : Head(stdin) = Command(c, g) /\ (c = "position" => g = SentGame)
        <5>. DEFINE kind == KindAt(at[t])
        <5>1. kind # "position"
          BY DEF KindAt
        <5>2. \/ Head(stdin) = Command("position", SentGame)
              \/ Head(stdin) = Command("isready", StartGame)
              \/ Head(stdin) = Command("ucinewgame", StartGame)
              \/ Head(stdin) = Command("go", StartGame)
              \/ Head(stdin) = Command(kind, StartGame)
          BY <4>1, <4>3, NextLine, Tuples
        <5>3. /\ "isready" # "position" /\ "ucinewgame" # "position" /\ "go" # "position"
          OBVIOUS
        <5>. HIDE DEF kind
        <5>. QED BY <5>1, <5>2, <5>3, Zenon
      <4>6. cmd' = c /\ (c = "position" => game' = g)
        BY <2>1, <4>4, <4>5, ReadStep
      <4>7. game' = SentGame
        BY <4>1, <4>5, <4>6
      <4>. QED BY <4>7 DEF SentGame, Linked
    <3>. QED BY <3>1, <3>2, ClientRemembers DEF Linked
  <2>2. CASE EngineWorks
    <3>1. Engine
      BY <2>2, Zenon DEF EngineWorks, Engine
    <3>. QED BY <3>1, EngineRemembers DEF Linked
  <2>3. CASE Searches
    <3>1. SearchThread
      BY <2>3, Zenon DEF Searches, SearchThread
    <3>. QED BY <3>1, EngineRemembers DEF Linked
  <2>4. CASE OnLine
    BY <2>4, EngineRemembers DEF OnLine, Linked
  <2>. QED BY <2>1, <2>2, <2>3, <2>4
<1>4. CASE Resting /\ BooksClosed
  <2>1. ~OnLine
    BY <1>4 DEF OnLine, Resting
  <2>2. Resting'
    BY <1>4, <2>1, RestAfterEngine
  <2>3. BooksClosed'
    BY <1>1, <1>4 DEF BooksClosed, Recorded, LegalIn, IsOver
  <2>. QED BY <1>2, <1>3, <2>2, <2>3 DEF Linked
<1>5. ASSUME NEW t \in Tasks, Calling(t), Books(t) PROVE Linked'
  <2>1. Remembered
    BY DEF Linked
  <2>2. Calling(t)'
    BY <1>5, <2>1, CallAfterRead, CallAfterWork, CallAfterSearch, CallAfterLine
  <2>3. Books(t)'
    BY <1>1, <1>5 DEF Books, Recorded, LegalIn
  <2>. QED BY <1>2, <1>3, <2>2, <2>3 DEF Linked
<1>. QED BY <1>4, <1>5 DEF Linked

\* The tasks stay the same, and the number of late answers only grows.
LEMMA STypeKept == ASSUME SType, SessionNext PROVE SType'
<1>1. ASSUME UNCHANGED <<at, answer, mv, late>> PROVE SType'
  BY <1>1 DEF SType
<1>2. ASSUME NEW t, NEW place, NEW kind, NEW lines, Awaits(t, place, kind, lines)
      PROVE  DOMAIN at' = Tasks
  BY <1>2 DEF Awaits, SType
<1>3. CASE EngineReads \/ EngineWorks \/ Searches
  BY <1>1, <1>3 DEF EngineReads, EngineWorks, Searches, tasks
<1>4. CASE OnLine
  <2>1. DOMAIN answer' = Tasks
    BY <1>4 DEF OnLine, SType
  <2>. QED BY <1>4, <2>1 DEF OnLine, SType
<1>5. ASSUME NEW t \in Tasks, Continues(t) PROVE SType'
  <2>1. answer' = [answer EXCEPT ![t] = NoLine] /\ UNCHANGED late
    BY <1>5 DEF Continues, NewGameReady, HumanMoveApplied, FenKnown, LegalKnown, ResultKnown,
                BestMoveKnown, EngineMoveApplied, Answered
  <2>2. DOMAIN at' = Tasks
    BY <1>2, <1>5 DEF Continues, NewGameReady, HumanMoveApplied, FenKnown, LegalKnown,
                      ResultKnown, BestMoveKnown, EngineMoveApplied, AsksFen, SendsMove,
                      ThinksOrEnds, SType
  <2>3. DOMAIN mv' = Tasks
    BY <1>5 DEF Continues, NewGameReady, HumanMoveApplied, FenKnown, LegalKnown,
                ResultKnown, BestMoveKnown, EngineMoveApplied, SendsMove, ThinksOrEnds, SType
  <2>. QED BY <2>1, <2>2, <2>3 DEF SType
<1>6. ASSUME NEW t \in Tasks, TimesOut(t) PROVE SType'
  BY <1>6 DEF TimesOut, SType
<1>7. ASSUME NEW t \in Tasks, TogglePause(t) PROVE SType'
  <2>1. DOMAIN at' = Tasks
    <3>1. Awaits(t, "bestMove", "bestmove", <<Command("go", StartGame)>>) \/ UNCHANGED at
      BY <1>7, Zenon DEF TogglePause
    <3>. QED BY <1>2, <3>1 DEF SType
  <2>. QED BY <1>7, <2>1 DEF TogglePause, SType
<1>8. ASSUME NEW t \in Tasks, NEW m \in Moves, Tap(t, m) PROVE SType'
  <2>1. DOMAIN at' = Tasks /\ DOMAIN mv' = Tasks
    BY <1>2, <1>8 DEF Tap, SendsMove, SType
  <2>. QED BY <1>8, <2>1 DEF Tap, SType
<1>9. CASE Dispose
  BY <1>9 DEF Dispose, SType
<1>10. CASE UNCHANGED sessionVars
  BY <1>1, <1>10 DEF sessionVars, tasks
<1>. QED BY <1>3, <1>4, <1>5, <1>6, <1>7, <1>8, <1>9, <1>10 DEF SessionNext

LEMMA LinkedKept ==
  ASSUME PatientUser, CInv, SInv, SessionNext, InTime'
  PROVE  Linked'
<1>1. SType /\ Linked /\ ~disposed
  BY InTimeBefore DEF SInv, InTime
<1>2. CASE EngineReads \/ EngineWorks \/ Searches \/ OnLine
  BY <1>1, <1>2, EngineLinked
<1>3. ASSUME NEW t \in Tasks, Continues(t) PROVE Linked'
  BY <1>1, <1>3, NewGameReadyLinked, MoveAppliedLinked, FenKnownLinked, LegalKnownLinked,
     ResultKnownLinked, BestMoveKnownLinked DEF Continues
<1>4. ASSUME NEW t \in Tasks, TogglePause(t) PROVE Linked'
  BY <1>1, <1>4, PauseLinked
<1>5. ASSUME NEW t \in Tasks, NEW m \in Moves, Tap(t, m) PROVE Linked'
  BY <1>1, <1>5, TapLinked
<1>6. ASSUME NEW t \in Tasks, TimesOut(t) PROVE FALSE
  BY <1>1, <1>6 DEF TimesOut, SType, InTime
<1>7. ~Dispose
  BY DEF Dispose, InTime
<1>. QED BY <1>1, <1>2, <1>3, <1>4, <1>5, <1>6, <1>7 DEF SessionNext

LEMMA StutterLinked ==
  ASSUME CInv, Linked, UNCHANGED <<vars, sessionVars>>
  PROVE  Linked'
<1>1. UNCHANGED <<stdin, stdout, pending, sent, at, mv, answer, moves, fens, board, legal, result,
                  engine_thinking, mpc, cmd, game, thread>>
  BY DEF vars, searchVars, sessionVars, pipes, tasks, controller, shown
<1>2. UNCHANGED <<Settled, SentGame, BooksClosed, FensSoFar>>
  BY <1>1 DEF Settled, Idle, Busy, SentGame, BooksClosed, Recorded, LegalIn, IsOver,
              FensSoFar, AfterPlies
<1>3. UNCHANGED Resting
  BY <1>1, <1>2 DEF Resting, AtRest, Free
<1>4. ASSUME NEW u \in Tasks PROVE UNCHANGED <<Calling(u), Books(u)>>
  <2>1. UNCHANGED OnItsWay(at[u])
    BY <1>1, <1>2 DEF OnItsWay, PositionOnItsWay, NewGameOnItsWay, SearchOnItsWay, Idle,
                      Busy, Command, StartGame
  <2>2. \A line : Fits(line, at[u])' <=> Fits(line, at[u])
    BY <1>1, <1>2 DEF Fits, LegalIn
  <2>3. UNCHANGED Fits(answer[u], at[u])
    BY <1>1, <1>2 DEF Fits, LegalIn
  <2>4. UNCHANGED <<Awaiting(u), Served(u)>>
    BY <1>1, <1>2, <2>1, <2>2, <2>3 DEF Awaiting, Served
  <2>5. UNCHANGED Books(u)
    BY <1>1 DEF Books, Recorded, LegalIn
  <2>. QED BY <1>1, <2>4, <2>5 DEF Calling, Alone
<1>5. Remembered'
  BY EngineIdle DEF Linked
<1>. QED BY <1>1, <1>2, <1>3, <1>4, <1>5 DEF Linked

LEMMA InitSInv == SessionInit => SInv
<1>. SUFFICES ASSUME SessionInit PROVE SType /\ Linked
  BY DEF SInv
<1>1. SType
  BY DEF SessionInit, SType
<1>2. PICK first \in Tasks :
        /\ at = [t \in Tasks |-> IF t = first THEN "newGame" ELSE "free"]
        /\ pending = <<[kind |-> "readyok", task |-> first]>>
  BY DEF SessionInit
<1>3. /\ at[first] = "newGame" /\ \A u \in Tasks : answer[u] = NoLine
      /\ \A u \in Tasks \ {first} : at[u] = "free"
  BY <1>2 DEF SessionInit
<1>4. sent = <<>> /\ moves = <<>> /\ fens = <<>> /\ SentGame = StartGame /\ engine_thinking = FALSE
  BY DEF SessionInit, SentGame, StartGame
<1>5. NewGameOnItsWay
  BY <1>4 DEF SessionInit, Init, NewGameOnItsWay, Idle, Busy
<1>6. Calling(first)
  <2>1. OnItsWay(at[first]) /\ at[first] \in Places
    BY <1>3, <1>5 DEF OnItsWay, Places
  <2>2. KindAt(at[first]) = "readyok"
    BY <1>3 DEF KindAt
  <2>3. stdout = <<>>
    BY DEF SessionInit
  <2>. QED BY <1>2, <1>3, <2>1, <2>2, <2>3 DEF Calling, Awaiting, Alone
<1>7. Books(first)
  BY <1>3, <1>4 DEF Books, Applying, Thinking
<1>8. FensSoFar /\ sent \in Seq(Moves) /\ moves \in Seq(Moves)
  BY <1>4 DEF FensSoFar
<1>9. Remembered /\ Playable(<<>>, sent)
  BY <1>4, InitRemembered, StartPlayable DEF SessionInit, StartGame
<1>. QED BY <1>1, <1>6, <1>7, <1>8, <1>9 DEF Linked

\* With a user who waits for the board, client and engine agree whenever no call
\* is under way: though the client learns of a position by three questions after
\* each move, and the engine of a move by a list, each through its own pipe, the
\* board shown, the moves that may be made, the list of positions and the game
\* the engine would think about are those of one game.
THEOREM ClientInStep == ASSUME PatientUser PROVE SessionSpec => []InStep
<1>1. CInv /\ SInv /\ [SessionNext]_<<vars, sessionVars>> => SInv'
  <2>. SUFFICES ASSUME CInv, SInv, [SessionNext]_<<vars, sessionVars>> PROVE SInv'
    OBVIOUS
  <2>1. CASE SessionNext
    <3>1. SType'
      BY <2>1, STypeKept DEF SInv
    <3>. QED BY <2>1, <3>1, LinkedKept DEF SInv
  <2>2. CASE UNCHANGED <<vars, sessionVars>>
    <3>1. SType'
      BY <2>2 DEF SInv, SType, sessionVars, tasks
    <3>2. ASSUME InTime' PROVE Linked'
      <4>1. Linked
        BY <2>2, <3>2, Zenon DEF SInv, InTime, sessionVars, controller
      <4>. QED BY <2>2, <4>1, StutterLinked
    <3>. QED BY <3>1, <3>2 DEF SInv
  <2>. QED BY <2>1, <2>2
<1>2. SInv => InStep
  <2>. SUFFICES ASSUME SInv, AtRest, ~disposed, late = 0
                PROVE  /\ FensAligned
                       /\ sent = moves /\ tree = AfterPlies(Len(moves))
                       /\ board = tree /\ legal = LegalIn(board) /\ result = IsOver(board)
                       /\ ~engine_thinking /\ stdin = <<>>
    BY DEF InStep
  <2>1. Linked
    BY DEF SInv, InTime
  <2>2. Resting /\ BooksClosed
    <3>1. ASSUME NEW u \in Tasks, Calling(u) PROVE FALSE
      BY <3>1 DEF AtRest, Free, Calling, Places, Applying
    <3>. QED BY <2>1, <3>1 DEF Linked
  <2>3. tree = SentGame /\ stdin = <<>>
    BY <2>1, <2>2, BoardIs DEF Linked, Resting, Settled, Idle, Pending
  <2>4. AfterPlies(Len(moves)) = Recorded
    BY <2>1, SubSeqFull DEF Linked, AfterPlies, Recorded
  <2>5. sent = moves /\ board = Recorded /\ SentGame = Recorded /\ Len(fens) = Len(moves) + 1
        /\ legal = LegalIn(board) /\ result = IsOver(board)
    BY <2>2 DEF BooksClosed, SentGame, Recorded
  <2>6. FensAligned
    BY <2>1, <2>5 DEF Linked, FensSoFar, FensAligned
  <2>7. ~engine_thinking
    BY <2>2, Zenon DEF BooksClosed
  <2>. QED BY <2>3, <2>4, <2>5, <2>6, <2>7
<1>. QED BY InitSInv, <1>1, <1>2, SessionCInv, PTL DEF SessionSpec

-----------------------------------------------------------------------------
(* One late answer.                                                        *)

IsSeq(s) == \E S : s \in Seq(S)

\* Commands after which the tree may be another, and the one that asks for it.
Changing == {"ucinewgame", "position", "isready"}
NoCommand(C) ==
  (\A i \in DOMAIN stdin : stdin[i].cmd \notin C) /\ (mpc # "idle" => cmd \notin C)
NoLineOf(kind) == \A i \in DOMAIN stdout : stdout[i].kind # kind

\* At most one call is under way, whatever the engine is at.
Waits(t) ==
  pending = <<[kind |-> KindAt(at[t]), task |-> t]>> /\ answer[t] = NoLine
Has(t) == pending = <<>> /\ answer[t].kind = KindAt(at[t])
Engaged(t) == at[t] \in Places /\ Alone(t) /\ (Waits(t) \/ Has(t))
Unengaged == pending = <<>> /\ \A u \in Tasks : at[u] = "free" /\ answer[u] = NoLine
OneCall == Unengaged \/ \E t \in Tasks : Engaged(t)

\* The late answer was none of a search: a search that is under way is the one
\* that the call asked for, and its `go` comes after all positions.
NoSearch == NoCommand({"go"}) /\ ~Busy /\ NoLineOf("bestmove")
GoIsLast ==
  /\ stdin # <<>> /\ \A i \in DOMAIN stdin : stdin[i].cmd = "go" <=> i = Len(stdin)
  /\ mpc # "idle" => cmd # "go"
OneBestMove ==
  \E j \in DOMAIN stdout :
    /\ stdout[j].tree = tree
    /\ \A i \in DOMAIN stdout : stdout[i].kind = "bestmove" <=> i = j
OneSearch ==
  \/ GoIsLast /\ ~Busy /\ NoLineOf("bestmove")
  \/ stdin = <<>> /\ mpc # "idle" /\ cmd = "go" /\ ~Busy /\ NoLineOf("bestmove")
  \/ stdin = <<>> /\ mpc = "idle" /\ Busy /\ NoLineOf("bestmove")
  \/ stdin = <<>> /\ Idle /\ OneBestMove
Found(t) == NoSearch /\ answer[t].tree = tree /\ stdin = <<>> /\ mpc = "idle"
SearchesMatch ==
  /\ \A t \in Tasks : at[t] = "bestMove" =>
       IF answer[t] = NoLine THEN OneSearch ELSE Found(t)
  /\ (\A t \in Tasks : at[t] # "bestMove") => NoSearch

\* The late answer was one of a search: searches may be under way for which no
\* call waits.  They think about the tree as it is, unless a position is on its
\* way; then what they say comes before the engine is ready.
BestMovesFit == \A i \in DOMAIN stdout : stdout[i].kind = "bestmove" => stdout[i].tree = tree
Steady == NoCommand(Changing) /\ NoLineOf("readyok") /\ BestMovesFit
PositionIsLast ==
  /\ mpc # "idle" => cmd \notin Changing
  /\ Len(stdin) >= 2
  /\ \A i \in DOMAIN stdin : /\ stdin[i].cmd = "position" <=> i = Len(stdin) - 1
                             /\ stdin[i].cmd = "isready" <=> i = Len(stdin)
                             /\ stdin[i].cmd # "ucinewgame"
ReadyIsLast ==
  /\ stdout # <<>>
  /\ \A i \in DOMAIN stdout : stdout[i].kind = "readyok" <=> i = Len(stdout)
Moving ==
  \/ NoLineOf("readyok") /\ PositionIsLast
  \/ /\ NoLineOf("readyok") /\ Len(stdin) = 1 /\ stdin[1].cmd = "isready"
     /\ \/ mpc \in {"stop", "join", "position"} /\ cmd = "position"
        \/ Idle
  \/ NoLineOf("readyok") /\ stdin = <<>> /\ mpc # "idle" /\ cmd = "isready" /\ ~Busy
  \/ stdin = <<>> /\ Idle /\ ReadyIsLast
Moved(t) == at[t] \in Applying /\ answer[t] = NoLine
MovesMatch ==
  /\ \A t \in Tasks : /\ at[t] # "newGame"
                      /\ at[t] = "bestMove" /\ answer[t] # NoLine => answer[t].tree = tree
                      /\ Moved(t) => Moving
  /\ (\A t \in Tasks : ~Moved(t)) => Steady

AfterLate == OneCall /\ IsSeq(stdin) /\ IsSeq(stdout) /\ (SearchesMatch \/ MovesMatch)
OneLate == late = 1 /\ ~disposed => AfterLate
Gone == disposed => \A u \in Tasks : at[u] = "free" /\ answer[u] = NoLine

-----------------------------------------------------------------------------
(* Sequences of lines, whatever the lines are.                             *)

OneMore(s, r, x) ==
  /\ IsSeq(r) /\ Len(s) \in Nat /\ DOMAIN s = 1 .. Len(s)
  /\ Len(r) = Len(s) + 1 /\ DOMAIN r = 1 .. Len(s) + 1
  /\ \A i \in 1 .. Len(s) : r[i] = s[i]
  /\ r[Len(s) + 1] = x
OneLess(s, r) ==
  /\ IsSeq(r) /\ Len(s) \in Nat \ {0} /\ DOMAIN s = 1 .. Len(s)
  /\ Len(r) = Len(s) - 1 /\ DOMAIN r = 1 .. Len(s) - 1
  /\ \A i \in 1 .. Len(s) - 1 : r[i] = s[i + 1]
  /\ Head(s) = s[1] /\ (Len(s) = 1 => r = <<>>)

TwoMore(s, r, x, y) ==
  /\ IsSeq(r) /\ Len(s) \in Nat /\ DOMAIN s = 1 .. Len(s)
  /\ Len(r) = Len(s) + 2 /\ DOMAIN r = 1 .. Len(s) + 2
  /\ \A i \in 1 .. Len(s) : r[i] = s[i]
  /\ r[Len(s) + 1] = x /\ r[Len(s) + 2] = y

LEMMA SeqGrows ==
  ASSUME NEW s, IsSeq(s), NEW x, NEW r, r = Append(s, x) \/ r = s \o <<x>>
  PROVE  OneMore(s, r, x)
<1>1. PICK S : s \in Seq(S)
  BY DEF IsSeq
<1>. DEFINE T == S \cup {x}
<1>2. s \in Seq(T) /\ x \in T
  BY <1>1
<1>. HIDE DEF T
<1>3. Append(s, x) \in Seq(T)
  BY <1>2
<1>4. s \o <<x>> = Append(s, x)
  <2>1. s \o <<x>> \in Seq(T) /\ Append(s, x) \in Seq(T)
    BY <1>2
  <2>2. Len(s \o <<x>>) = Len(Append(s, x)) /\ \A i \in 1 .. Len(Append(s, x)) : (s \o <<x>>)[i] = Append(s, x)[i]
    BY <1>2
  <2>. QED BY <2>1, <2>2, SeqEqual
<1>5. r = Append(s, x)
  BY <1>4
<1>6. IsSeq(r)
  BY <1>3, <1>5 DEF IsSeq
<1>. QED BY <1>2, <1>5, <1>6 DEF OneMore

LEMMA SeqShrinks ==
  ASSUME NEW s, IsSeq(s), s # <<>>, NEW r, r = Tail(s)
  PROVE  OneLess(s, r)
<1>1. PICK S : s \in Seq(S)
  BY DEF IsSeq
<1>2. Tail(s) \in Seq(S)
  BY <1>1
<1>3. IsSeq(r)
  BY <1>2 DEF IsSeq
<1>. QED BY <1>1, <1>2, <1>3 DEF OneLess

LEMMA SeqGrowsTwo ==
  ASSUME NEW s, IsSeq(s), NEW x, NEW y, NEW r, r = s \o <<x, y>>
  PROVE  TwoMore(s, r, x, y)
<1>1. PICK S : s \in Seq(S)
  BY DEF IsSeq
<1>. DEFINE T == S \cup {x, y}
<1>2. s \in Seq(T) /\ x \in T /\ y \in T
  BY <1>1
<1>3. s \o <<x, y>> \in Seq(T)
  BY <1>2
<1>. HIDE DEF T
<1>4. IsSeq(r)
  BY <1>3 DEF IsSeq
<1>. QED BY <1>2, <1>4 DEF TwoMore

-----------------------------------------------------------------------------
(* What a step of the engine's process can do to the pipes.                *)

Reads(c) ==
  /\ mpc = "idle" /\ stdin # <<>> /\ Head(stdin).cmd = c /\ stdin' = Tail(stdin)
  /\ (Busy' <=> Busy) /\ UNCHANGED tree
ReadsQuery ==
  \E c \in Queries : Reads(c) /\ mpc' = "idle" /\ stdout' = Append(stdout, Line(c, NoMove))
ReadsCommand ==
  \E c \in {"ucinewgame", "position", "isready", "go"} :
    /\ Reads(c) /\ cmd' = c /\ UNCHANGED stdout
    /\ mpc' = IF c = "isready" THEN "ensureBackend" ELSE "stop"
Advances ==
  /\ mpc # "idle" /\ cmd # "isready" /\ (Busy' => Busy)
  /\ cmd \in {"go", "position", "ucinewgame"} => mpc' # "idle"
  /\ cmd = "position" => mpc' \in {"join", "position"}
  /\ UNCHANGED <<stdin, stdout, cmd, tree>>
ChangesTree ==
  /\ mpc \in {"ucinewgame", "position"} /\ cmd = mpc /\ mpc' = "idle" /\ ~Busy /\ ~Busy'
  /\ UNCHANGED <<stdin, stdout, cmd>>
SaysReady ==
  /\ mpc # "idle" /\ cmd = "isready" /\ mpc' = "idle" /\ (Busy' <=> Busy)
  /\ stdout' = Append(stdout, Line("readyok", NoMove)) /\ UNCHANGED <<stdin, tree>>
Launches ==
  /\ mpc # "idle" /\ cmd = "go" /\ mpc' = "idle" /\ Busy' /\ UNCHANGED <<stdin, stdout, tree>>
SaysNone ==
  /\ mpc # "idle" /\ cmd = "go" /\ mpc' = "idle" /\ (Busy' <=> Busy)
  /\ stdout' = Append(stdout, Line("bestmove", NoMove)) /\ UNCHANGED <<stdin, tree>>
Quiet == (Busy' <=> Busy) /\ UNCHANGED <<mpc, cmd, stdin, stdout, tree>>
Emits ==
  /\ Busy /\ ~Busy' /\ UNCHANGED <<mpc, cmd, stdin, tree>>
  /\ \E m : stdout' = Append(stdout, Line("bestmove", m))

EngineDoes ==
  \/ ReadsQuery \/ ReadsCommand \/ Advances \/ ChangesTree \/ SaysReady \/ Launches
  \/ SaysNone \/ Quiet \/ Emits

LEMMA ReadsAre == ASSUME CInv, EngineReads PROVE ReadsQuery \/ ReadsCommand
<1>1. ASSUME NEW c, NEW pc, Takes(c), Receive(c, pc), UNCHANGED <<tree, searching>>
      PROVE  Reads(c) /\ mpc' = pc /\ cmd' = c
  <2>1. Busy' <=> Busy
    BY <1>1, Reaped DEF Busy, Alive
  <2>. QED BY <1>1, <2>1 DEF Reads, Takes, Receive
<1>2. CASE Takes("ucinewgame") /\ UciNewGame /\ UNCHANGED stdout
  <2>1. Receive("ucinewgame", "stop") /\ UNCHANGED <<tree, searching>>
    BY <1>2 DEF UciNewGame, treeVars
  <2>. QED BY <1>1, <1>2, <2>1 DEF ReadsCommand
<1>3. CASE Takes("position") /\ Position /\ UNCHANGED stdout
  <2>1. Receive("position", "stop") /\ UNCHANGED <<tree, searching>>
    BY <1>3 DEF Position, treeVars
  <2>. QED BY <1>1, <1>3, <2>1 DEF ReadsCommand
<1>4. CASE Takes("isready") /\ IsReady /\ UNCHANGED stdout
  <2>1. Receive("isready", "ensureBackend") /\ UNCHANGED <<tree, searching>>
    BY <1>4 DEF IsReady, treeVars
  <2>. QED BY <1>1, <1>4, <2>1 DEF ReadsCommand
<1>5. CASE Takes("go") /\ Go /\ UNCHANGED stdout
  <2>1. Receive("go", "stop") /\ UNCHANGED <<tree, searching>>
    BY <1>5 DEF Go, treeVars
  <2>. QED BY <1>1, <1>5, <2>1 DEF ReadsCommand
<1>6. ASSUME NEW c \in Queries, Takes(c), Query(c), Says(c, NoMove) PROVE ReadsQuery
  <2>1. Receive(c, "idle") /\ UNCHANGED <<tree, searching>>
    BY <1>6 DEF Query, treeVars
  <2>2. Reads(c) /\ mpc' = "idle"
    BY <1>1, <1>6, <2>1
  <2>. QED BY <1>6, <2>2 DEF ReadsQuery, Says
<1>. QED BY <1>2, <1>3, <1>4, <1>5, <1>6 DEF EngineReads

LEMMA WorksAre ==
  ASSUME CInv, EngineWorks
  PROVE  Advances \/ ChangesTree \/ SaysReady \/ Launches \/ SaysNone
<1>0. InHandler /\ Joined /\ owed \in Int
  BY DEF CInv, TypeOK
<1>1. UNCHANGED stdin
  BY DEF EngineWorks
<1>2. CASE TellSearch /\ UNCHANGED stdout
  <2>1. mpc \in {"stop", "abort"} /\ mpc' = "join" /\ UNCHANGED <<cmd, tree, thread>>
    BY <1>2 DEF TellSearch, treeVars
  <2>2. cmd # "isready"
    BY <1>0, <2>1 DEF InHandler
  <2>3. Busy' <=> Busy
    BY <2>1 DEF Busy
  <2>. QED BY <1>1, <1>2, <2>1, <2>2, <2>3 DEF Advances
<1>3. CASE JoinSearch /\ UNCHANGED stdout
  <2>1. /\ mpc = "join" /\ ~Busy' /\ UNCHANGED <<cmd, tree>>
        /\ cmd = "position" => mpc' = "position"
        /\ cmd = "ucinewgame" => mpc' = "ucinewgame"
        /\ cmd = "go" => mpc' = "ensureBackend"
    BY <1>3 DEF JoinSearch, Busy, treeVars
  <2>2. cmd # "isready"
    BY <1>0, <2>1 DEF InHandler
  <2>. QED BY <1>1, <1>3, <2>1, <2>2 DEF Advances
<1>4. CASE (HandleNewGame \/ HandlePosition) /\ UNCHANGED stdout
  <2>1. mpc \in {"ucinewgame", "position"} /\ mpc' = "idle" /\ UNCHANGED <<cmd, thread>>
    BY <1>4 DEF HandleNewGame, HandlePosition, searchVars
  <2>2. cmd = mpc /\ thread = "none"
    BY <1>0, <2>1 DEF InHandler, Joined
  <2>. QED BY <1>1, <1>4, <2>1, <2>2 DEF ChangesTree, Busy
<1>5. CASE LaunchSearch /\ UNCHANGED stdout
  <2>1. mpc = "launch" /\ mpc' = "idle" /\ Busy' /\ UNCHANGED tree
    BY <1>5 DEF LaunchSearch, Busy, treeVars
  <2>2. cmd = "go"
    BY <1>0, <2>1 DEF InHandler
  <2>. QED BY <1>1, <1>5, <2>1, <2>2 DEF Launches
<1>6. CASE /\ EnsureBackend
           /\ CASE cmd = "isready" -> Says("readyok", NoMove)
                [] owed' < owed -> Says("bestmove", NoMove)
                [] OTHER -> UNCHANGED stdout
  <2>1. mpc = "ensureBackend" /\ UNCHANGED <<cmd, tree>> /\ (Busy' <=> Busy)
    BY <1>6 DEF EnsureBackend, Busy, searchVars, treeVars
  <2>2. \/ mpc' = (IF cmd = "go" THEN "launch" ELSE "idle") /\ owed' = owed
        \/ mpc' = "idle" /\ owed' = IF cmd = "go" THEN owed - 1 ELSE owed
    BY <1>6, Zenon DEF EnsureBackend
  <2>3. CASE cmd = "isready"
    <3>1. mpc' = "idle" /\ owed' = owed
      BY <2>2, <2>3
    <3>2. Says("readyok", NoMove)
      BY <1>0, <1>6, <2>3, <3>1
    <3>. QED BY <1>1, <2>1, <2>3, <3>1, <3>2 DEF SaysReady, Says
  <2>4. CASE cmd = "go"
    <3>1. CASE mpc' = "launch" /\ owed' = owed
      <4>1. ~(owed' < owed)
        BY <1>0, <3>1
      <4>2. UNCHANGED stdout
        BY <1>6, <2>4, <4>1
      <4>. QED BY <1>1, <2>1, <2>4, <3>1, <4>2 DEF Advances
    <3>2. CASE mpc' = "idle" /\ owed' = owed - 1
      <4>1. owed' < owed
        BY <1>0, <3>2
      <4>2. Says("bestmove", NoMove)
        BY <1>6, <2>4, <4>1
      <4>. QED BY <1>1, <2>1, <2>4, <3>2, <4>2 DEF SaysNone, Says
    <3>. QED BY <2>2, <2>4, <3>1, <3>2
  <2>5. CASE cmd \notin {"isready", "go"}
    <3>1. owed' = owed
      BY <2>2, <2>5
    <3>2. ~(owed' < owed)
      BY <1>0, <3>1
    <3>3. UNCHANGED stdout
      BY <1>6, <2>5, <3>2
    <3>4. cmd \notin {"position", "ucinewgame"}
      BY <1>0, <2>1 DEF InHandler, PlainCommands
    <3>. QED BY <1>1, <2>1, <2>5, <3>3, <3>4 DEF Advances
  <2>. QED BY <2>3, <2>4, <2>5
<1>. QED BY <1>2, <1>3, <1>4, <1>5, <1>6 DEF EngineWorks

LEMMA EngineDoesAre ==
  ASSUME CInv, EngineReads \/ EngineWorks \/ Searches
  PROVE  EngineDoes /\ UNCHANGED ClientSide
<1>1. UNCHANGED ClientSide
  BY DEF EngineReads, EngineWorks, Searches, ClientSide
<1>2. CASE Searches
  <2>1. UNCHANGED <<mpc, cmd, stdin, tree>>
    BY <1>2 DEF Searches, StopperFires, RunBlockingReturns, ThreadEnds, EmitBestMove, treeVars
  <2>2. CASE (StopperFires \/ RunBlockingReturns \/ ThreadEnds) /\ UNCHANGED stdout
    <3>1. Busy' <=> Busy
      BY <2>2 DEF StopperFires, RunBlockingReturns, ThreadEnds, Busy
    <3>. QED BY <1>1, <2>1, <2>2, <3>1 DEF Quiet, EngineDoes
  <2>3. CASE EmitBestMove /\ \E m : Says("bestmove", m)
    <3>1. Busy /\ ~Busy'
      BY <2>3 DEF EmitBestMove, Busy
    <3>. QED BY <1>1, <2>1, <2>3, <3>1 DEF Emits, EngineDoes, Says
  <2>. QED BY <1>2, <2>2, <2>3, Zenon DEF Searches
<1>. QED BY <1>1, <1>2, ReadsAre, WorksAre DEF EngineDoes

-----------------------------------------------------------------------------
(* The engine's process keeps what is on its way in step.                  *)

\* A line more, or a line less, of some kind.
LEMMA LineOfKind == ASSUME NEW kind, NEW m PROVE Line(kind, m).kind = kind /\ Line(kind, m).tree = tree
BY DEF Line

LEMMA NoLineKept ==
  ASSUME IsSeq(stdout), NEW kind, NoLineOf(kind),
         \/ UNCHANGED stdout
         \/ \E other, m : other # kind /\ stdout' = Append(stdout, Line(other, m))
         \/ stdout # <<>> /\ stdout' = Tail(stdout)
  PROVE  NoLineOf(kind)'
<1>1. CASE UNCHANGED stdout
  BY <1>1 DEF NoLineOf
<1>2. ASSUME NEW other, NEW m, other # kind, stdout' = Append(stdout, Line(other, m))
      PROVE  NoLineOf(kind)'
  <2>. DEFINE line == Line(other, m)
  <2>1. line.kind # kind
    BY <1>2, LineOfKind
  <2>. HIDE DEF line
  <2>2. OneMore(stdout, stdout', line)
    BY <1>2, SeqGrows DEF line
  <2>3. ASSUME NEW i \in DOMAIN stdout' PROVE stdout'[i].kind # kind
    <3>1. i = Len(stdout) + 1 \/ i \in DOMAIN stdout
      BY ONLY <2>2, i \in DOMAIN stdout' DEF OneMore
    <3>2. i \in DOMAIN stdout => stdout'[i] = stdout[i] /\ stdout[i].kind # kind
      BY ONLY <2>2, NoLineOf(kind) DEF OneMore, NoLineOf
    <3>. QED BY ONLY <2>1, <2>2, <3>1, <3>2 DEF OneMore
  <2>. QED BY <2>3 DEF NoLineOf
<1>3. CASE stdout # <<>> /\ stdout' = Tail(stdout)
  <2>1. OneLess(stdout, stdout')
    BY <1>3, SeqShrinks
  <2>2. ASSUME NEW i \in DOMAIN stdout' PROVE stdout'[i].kind # kind
    <3>1. i + 1 \in DOMAIN stdout /\ stdout'[i] = stdout[i + 1]
      BY ONLY <2>1, i \in DOMAIN stdout' DEF OneLess
    <3>. QED BY <3>1 DEF NoLineOf
  <2>. QED BY <2>2 DEF NoLineOf
<1>. QED BY <1>1, <1>2, <1>3

\* A command of none of these kinds that is read, or not read yet.
LEMMA NoCommandKept ==
  ASSUME IsSeq(stdin), NEW C, NoCommand(C), EngineDoes
  PROVE  NoCommand(C)'
<1>1. ASSUME NEW c, Reads(c) PROVE (\A i \in DOMAIN stdin' : stdin'[i].cmd \notin C) /\ c \notin C
  <2>1. OneLess(stdin, stdin')
    BY <1>1, SeqShrinks DEF Reads
  <2>. QED BY <1>1, <2>1 DEF Reads, NoCommand, OneLess
<1>2. CASE ReadsQuery
  BY <1>1, <1>2 DEF ReadsQuery, NoCommand
<1>3. CASE ReadsCommand
  BY <1>1, <1>3 DEF ReadsCommand, NoCommand
<1>4. CASE Advances
  BY <1>4 DEF Advances, NoCommand
<1>5. CASE ChangesTree \/ SaysReady \/ Launches \/ SaysNone
  BY <1>5 DEF ChangesTree, SaysReady, Launches, SaysNone, NoCommand
<1>6. CASE Quiet \/ Emits
  BY <1>6 DEF Quiet, Emits, NoCommand
<1>. QED BY <1>2, <1>3, <1>4, <1>5, <1>6 DEF EngineDoes

LEMMA PipesKept ==
  ASSUME IsSeq(stdin), IsSeq(stdout), EngineDoes
  PROVE  IsSeq(stdin)' /\ IsSeq(stdout)'
<1>1. stdin' = stdin \/ (stdin # <<>> /\ stdin' = Tail(stdin))
  BY DEF EngineDoes, ReadsQuery, ReadsCommand, Reads, Advances, ChangesTree, SaysReady, Launches,
         SaysNone, Quiet, Emits
<1>2. IsSeq(stdin)'
  <2>1. CASE stdin # <<>> /\ stdin' = Tail(stdin)
    BY <2>1, SeqShrinks DEF OneLess, IsSeq
  <2>. QED BY <1>1, <2>1 DEF IsSeq
<1>3. UNCHANGED stdout \/ \E kind, m : stdout' = Append(stdout, Line(kind, m))
  BY Zenon DEF EngineDoes, ReadsQuery, ReadsCommand, Advances, ChangesTree, SaysReady, Launches,
         SaysNone, Quiet, Emits
<1>4. ASSUME NEW line, stdout' = Append(stdout, line) PROVE IsSeq(stdout)'
  <2>1. OneMore(stdout, stdout', line)
    BY <1>4, SeqGrows
  <2>. QED BY <2>1 DEF OneMore, IsSeq
<1>5. IsSeq(stdout)'
  BY <1>3, <1>4 DEF IsSeq
<1>. QED BY <1>2, <1>5

LEMMA NoSearchKept ==
  ASSUME IsSeq(stdin), IsSeq(stdout), NoSearch, EngineDoes
  PROVE  NoSearch'
<1>1. NoCommand({"go"})'
  BY NoCommandKept DEF NoSearch
<1>2. mpc # "idle" => cmd # "go"
  BY DEF NoSearch, NoCommand
<1>3. ~Busy'
  BY <1>2 DEF NoSearch, EngineDoes, ReadsQuery, ReadsCommand, Reads, Advances, ChangesTree,
              SaysReady, Launches, SaysNone, Quiet, Emits
<1>4. \/ UNCHANGED stdout
      \/ \E other, m : other # "bestmove" /\ stdout' = Append(stdout, Line(other, m))
  <2>1. ~Launches /\ ~SaysNone /\ ~Emits
    BY <1>2 DEF Launches, SaysNone, Emits, NoSearch
  <2>2. "readyok" # "bestmove" /\ \A c \in Queries : c # "bestmove"
    BY DEF Queries
  <2>. QED BY <2>1, <2>2, Zenon DEF EngineDoes, ReadsQuery, ReadsCommand, Advances, ChangesTree,
                                  SaysReady, Quiet
<1>5. NoLineOf("bestmove")'
  BY <1>4, NoLineKept DEF NoSearch
<1>. QED BY <1>1, <1>3, <1>5 DEF NoSearch

\* A bestmove that is said is the only one.
LEMMA BestMoveSaid ==
  ASSUME IsSeq(stdout), NoLineOf("bestmove"), NEW m,
         stdout' = Append(stdout, Line("bestmove", m)), UNCHANGED tree
  PROVE  OneBestMove'
<1>. DEFINE line == Line("bestmove", m)
<1>1. line.kind = "bestmove" /\ line.tree = tree
  BY LineOfKind
<1>2. OneMore(stdout, stdout', line)
  BY SeqGrows
<1>. HIDE DEF line
<1>3. Len(stdout) + 1 \in DOMAIN stdout' /\ stdout'[Len(stdout) + 1] = line
  BY ONLY <1>2 DEF OneMore
<1>4. ASSUME NEW i \in DOMAIN stdout' PROVE stdout'[i].kind = "bestmove" <=> i = Len(stdout) + 1
  <2>1. i = Len(stdout) + 1 \/ (i \in DOMAIN stdout /\ i # Len(stdout) + 1)
    BY ONLY <1>2, i \in DOMAIN stdout' DEF OneMore
  <2>2. i \in DOMAIN stdout => stdout'[i] = stdout[i] /\ stdout[i].kind # "bestmove"
    BY ONLY <1>2, NoLineOf("bestmove") DEF OneMore, NoLineOf
  <2>. QED BY ONLY <1>1, <1>3, <2>1, <2>2
<1>. QED BY <1>1, <1>3, <1>4 DEF OneBestMove

LEMMA OneSearchKept ==
  ASSUME IsSeq(stdin), IsSeq(stdout), OneSearch, EngineDoes
  PROVE  OneSearch'
<1>1. ASSUME NEW c, Reads(c), GoIsLast
      PROVE  /\ c = "go" => stdin' = <<>>
             /\ c # "go" => stdin' # <<>> /\ \A i \in DOMAIN stdin' : stdin'[i].cmd = "go" <=> i = Len(stdin')
  <2>1. OneLess(stdin, stdin')
    BY <1>1, SeqShrinks DEF Reads
  <2>2. stdin[1].cmd = c
    BY <1>1, <2>1 DEF Reads, OneLess
  <2>3. stdin[1].cmd = "go" <=> 1 = Len(stdin)
    BY <1>1, <2>1 DEF GoIsLast, OneLess
  <2>4. CASE c = "go"
    BY ONLY <2>1, <2>2, <2>3, <2>4 DEF OneLess
  <2>5. CASE c # "go"
    <3>1. Len(stdin') = Len(stdin) - 1 /\ Len(stdin') \in Nat \ {0} /\ DOMAIN stdin' = 1 .. Len(stdin')
      BY ONLY <2>1, <2>2, <2>3, <2>5 DEF OneLess
    <3>2. stdin' # <<>>
      BY ONLY <3>1
    <3>3. ASSUME NEW i \in DOMAIN stdin' PROVE stdin'[i].cmd = "go" <=> i = Len(stdin')
      <4>1. i + 1 \in DOMAIN stdin /\ stdin'[i] = stdin[i + 1] /\ (i + 1 = Len(stdin) <=> i = Len(stdin'))
        BY ONLY <2>1, <3>1, i \in DOMAIN stdin' DEF OneLess
      <4>. QED BY <1>1, <4>1 DEF GoIsLast
    <3>. QED BY <2>5, <3>2, <3>3
  <2>. QED BY <2>4, <2>5
<1>2. CASE GoIsLast /\ ~Busy /\ NoLineOf("bestmove")
  <2>1. CASE ReadsQuery
    <3>1. PICK c \in Queries : Reads(c) /\ mpc' = "idle" /\ stdout' = Append(stdout, Line(c, NoMove))
      BY <2>1 DEF ReadsQuery
    <3>2. c # "go" /\ c # "bestmove"
      BY DEF Queries
    <3>3. GoIsLast'
      BY <1>1, <1>2, <3>1, <3>2 DEF GoIsLast
    <3>4. NoLineOf("bestmove")'
      BY <1>2, <3>1, <3>2, NoLineKept
    <3>. QED BY <1>2, <3>1, <3>3, <3>4 DEF Reads, OneSearch
  <2>2. CASE ReadsCommand
    <3>1. PICK c : /\ Reads(c) /\ cmd' = c /\ UNCHANGED stdout
                   /\ mpc' = IF c = "isready" THEN "ensureBackend" ELSE "stop"
      BY <2>2 DEF ReadsCommand
    <3>2. NoLineOf("bestmove")' /\ ~Busy' /\ mpc' # "idle"
      BY <1>2, <3>1, NoLineKept DEF Reads
    <3>3. CASE c = "go"
      BY <1>1, <1>2, <3>1, <3>2, <3>3 DEF OneSearch
    <3>4. CASE c # "go"
      <4>1. GoIsLast'
        BY <1>1, <1>2, <3>1, <3>4 DEF GoIsLast
      <4>. QED BY <3>2, <4>1 DEF OneSearch
    <3>. QED BY <3>3, <3>4
  <2>3. CASE Advances \/ ChangesTree \/ Quiet
    <3>1. GoIsLast' /\ ~Busy' /\ UNCHANGED stdout
      BY <1>2, <2>3 DEF GoIsLast, Advances, ChangesTree, Quiet
    <3>. QED BY <1>2, <3>1, NoLineKept DEF OneSearch
  <2>4. CASE SaysReady
    <3>1. GoIsLast' /\ ~Busy'
      BY <1>2, <2>4 DEF GoIsLast, SaysReady
    <3>2. NoLineOf("bestmove")'
      BY <1>2, <2>4, NoLineKept DEF SaysReady
    <3>. QED BY <3>1, <3>2 DEF OneSearch
  <2>5. ~Launches /\ ~SaysNone /\ ~Emits
    BY <1>2 DEF GoIsLast, Launches, SaysNone, Emits
  <2>. QED BY <2>1, <2>2, <2>3, <2>4, <2>5 DEF EngineDoes
<1>3. CASE stdin = <<>> /\ mpc # "idle" /\ cmd = "go" /\ ~Busy /\ NoLineOf("bestmove")
  <2>1. ~ReadsQuery /\ ~ReadsCommand /\ ~ChangesTree /\ ~SaysReady /\ ~Emits
    BY <1>3 DEF ReadsQuery, ReadsCommand, Reads, ChangesTree, SaysReady, Emits
  <2>2. CASE Advances \/ Quiet
    <3>1. /\ stdin' = <<>> /\ mpc' # "idle" /\ cmd' = "go" /\ ~Busy' /\ UNCHANGED stdout
      BY <1>3, <2>2 DEF Advances, Quiet
    <3>. QED BY <1>3, <3>1, NoLineKept DEF OneSearch
  <2>3. CASE Launches
    <3>1. /\ stdin' = <<>> /\ mpc' = "idle" /\ Busy' /\ UNCHANGED stdout
      BY <1>3, <2>3 DEF Launches
    <3>. QED BY <1>3, <3>1, NoLineKept DEF OneSearch
  <2>4. CASE SaysNone
    <3>1. stdin' = <<>> /\ Idle'
      BY <1>3, <2>4 DEF SaysNone, Idle
    <3>2. OneBestMove'
      BY <1>3, <2>4, BestMoveSaid DEF SaysNone
    <3>. QED BY <3>1, <3>2 DEF OneSearch
  <2>. QED BY <2>1, <2>2, <2>3, <2>4 DEF EngineDoes
<1>4. CASE stdin = <<>> /\ mpc = "idle" /\ Busy /\ NoLineOf("bestmove")
  <2>1. Quiet \/ Emits
    BY <1>4 DEF EngineDoes, ReadsQuery, ReadsCommand, Reads, Advances, ChangesTree, SaysReady,
                Launches, SaysNone
  <2>2. CASE Quiet
    <3>1. /\ stdin' = <<>> /\ mpc' = "idle" /\ Busy' /\ UNCHANGED stdout
      BY <1>4, <2>2 DEF Quiet
    <3>. QED BY <1>4, <3>1, NoLineKept DEF OneSearch
  <2>3. CASE Emits
    <3>1. stdin' = <<>> /\ Idle'
      BY <1>4, <2>3 DEF Emits, Idle
    <3>2. OneBestMove'
      BY <1>4, <2>3, BestMoveSaid DEF Emits
    <3>. QED BY <3>1, <3>2 DEF OneSearch
  <2>. QED BY <2>1, <2>2, <2>3
<1>5. CASE stdin = <<>> /\ Idle /\ OneBestMove
  <2>1. Quiet
    BY <1>5 DEF Idle, EngineDoes, ReadsQuery, ReadsCommand, Reads, Advances, ChangesTree, SaysReady,
                Launches, SaysNone, Emits
  <2>. QED BY <1>5, <2>1 DEF Quiet, OneSearch, OneBestMove, Idle
<1>. QED BY <1>2, <1>3, <1>4, <1>5 DEF OneSearch

LEMMA SteadyKept ==
  ASSUME IsSeq(stdin), IsSeq(stdout), Steady, EngineDoes
  PROVE  Steady' /\ UNCHANGED tree
<1>1. NoCommand(Changing)'
  BY NoCommandKept DEF Steady
<1>2. ~ChangesTree /\ ~SaysReady
  BY DEF Steady, NoCommand, Changing, ChangesTree, SaysReady
<1>3. UNCHANGED tree
  BY <1>2 DEF EngineDoes, ReadsQuery, ReadsCommand, Reads, Advances, Launches, SaysNone, Quiet, Emits
<1>4. UNCHANGED stdout \/ \E kind, m : kind # "readyok" /\ stdout' = Append(stdout, Line(kind, m))
  <2>1. "bestmove" # "readyok" /\ \A c \in Queries : c # "readyok"
    BY DEF Queries
  <2>. QED BY <1>2, <2>1, Zenon DEF EngineDoes, ReadsQuery, ReadsCommand, Advances, Launches,
                                  SaysNone, Quiet, Emits
<1>5. NoLineOf("readyok")'
  BY <1>4, NoLineKept DEF Steady
<1>6. CASE UNCHANGED stdout
  BY <1>1, <1>3, <1>5, <1>6 DEF Steady, BestMovesFit
<1>7. ASSUME NEW kind, NEW m, stdout' = Append(stdout, Line(kind, m)) PROVE BestMovesFit'
  <2>. DEFINE line == Line(kind, m)
  <2>1. line.tree = tree
    BY LineOfKind
  <2>2. OneMore(stdout, stdout', line)
    BY <1>7, SeqGrows
  <2>. HIDE DEF line
  <2>3. ASSUME NEW i \in DOMAIN stdout', stdout'[i].kind = "bestmove" PROVE stdout'[i].tree = tree
    <3>1. stdout'[i] = line \/ (i \in DOMAIN stdout /\ stdout'[i] = stdout[i])
      BY ONLY <2>2, i \in DOMAIN stdout' DEF OneMore
    <3>2. BestMovesFit
      BY DEF Steady
    <3>. QED BY ONLY <2>1, <2>3, <3>1, <3>2 DEF BestMovesFit
  <2>. QED BY <1>3, <2>3 DEF BestMovesFit
<1>. QED BY <1>1, <1>3, <1>4, <1>5, <1>6, <1>7 DEF Steady

\* What the engine says is no readyok, unless that is what it was asked.
LEMMA NotReadySaid ==
  ASSUME IsSeq(stdout), NoLineOf("readyok"), EngineDoes, ~SaysReady
  PROVE  NoLineOf("readyok")'
<1>1. UNCHANGED stdout \/ \E kind, m : kind # "readyok" /\ stdout' = Append(stdout, Line(kind, m))
  <2>1. "bestmove" # "readyok" /\ \A c \in Queries : c # "readyok"
    BY DEF Queries
  <2>. QED BY <2>1, Zenon DEF EngineDoes, ReadsQuery, ReadsCommand, Advances, ChangesTree, Launches,
                              SaysNone, Quiet, Emits
<1>. QED BY <1>1, NoLineKept

LEMMA ReadySaid ==
  ASSUME IsSeq(stdout), NoLineOf("readyok"), SaysReady
  PROVE  ReadyIsLast'
<1>. DEFINE line == Line("readyok", NoMove)
<1>1. line.kind = "readyok"
  BY LineOfKind
<1>2. OneMore(stdout, stdout', line)
  BY SeqGrows DEF SaysReady
<1>. HIDE DEF line
<1>3. Len(stdout') = Len(stdout) + 1 /\ stdout' # <<>>
  BY ONLY <1>2 DEF OneMore
<1>4. ASSUME NEW i \in DOMAIN stdout' PROVE stdout'[i].kind = "readyok" <=> i = Len(stdout')
  <2>1. i = Len(stdout) + 1 \/ (i \in DOMAIN stdout /\ i # Len(stdout) + 1)
    BY ONLY <1>2, i \in DOMAIN stdout' DEF OneMore
  <2>2. i \in DOMAIN stdout => stdout'[i] = stdout[i] /\ stdout[i].kind # "readyok"
    BY ONLY <1>2, NoLineOf("readyok") DEF OneMore, NoLineOf
  <2>3. stdout'[Len(stdout) + 1] = line
    BY ONLY <1>2 DEF OneMore
  <2>. QED BY ONLY <1>1, <1>3, <2>1, <2>2, <2>3
<1>. QED BY <1>3, <1>4 DEF ReadyIsLast

LEMMA PositionRead ==
  ASSUME IsSeq(stdin), PositionIsLast, NEW c, Reads(c)
  PROVE  IF c \in Changing
         THEN c = "position" /\ Len(stdin') = 1 /\ stdin'[1].cmd = "isready"
         ELSE /\ Len(stdin') >= 2
              /\ \A i \in DOMAIN stdin' : /\ stdin'[i].cmd = "position" <=> i = Len(stdin') - 1
                                          /\ stdin'[i].cmd = "isready" <=> i = Len(stdin')
                                          /\ stdin'[i].cmd # "ucinewgame"
<1>1. OneLess(stdin, stdin')
  BY SeqShrinks DEF Reads
<1>2. stdin[1].cmd = c /\ Len(stdin) >= 2
  BY <1>1 DEF Reads, OneLess, PositionIsLast
<1>3. ASSUME NEW i \in DOMAIN stdin
      PROVE  /\ stdin[i].cmd = "position" <=> i = Len(stdin) - 1
             /\ stdin[i].cmd = "isready" <=> i = Len(stdin)
             /\ stdin[i].cmd # "ucinewgame"
  BY DEF PositionIsLast
<1>4. Len(stdin) \in Nat /\ 1 \in DOMAIN stdin /\ Len(stdin') = Len(stdin) - 1
  BY ONLY <1>1 DEF OneLess
<1>5. /\ c = "position" <=> 1 = Len(stdin) - 1
      /\ c # "isready" /\ c # "ucinewgame"
  BY ONLY <1>2, <1>3, <1>4
<1>6. CASE Len(stdin) = 2
  <2>1. stdin'[1] = stdin[2] /\ 2 \in DOMAIN stdin
    BY ONLY <1>1, <1>6 DEF OneLess
  <2>2. stdin[2].cmd = "isready"
    BY ONLY <1>3, <1>6, <2>1
  <2>. QED BY ONLY <1>4, <1>5, <1>6, <2>1, <2>2 DEF Changing
<1>7. CASE Len(stdin) # 2
  <2>1. c \notin Changing
    BY ONLY <1>4, <1>5, <1>7 DEF Changing
  <2>2. ASSUME NEW i \in DOMAIN stdin'
        PROVE  /\ stdin'[i].cmd = "position" <=> i = Len(stdin') - 1
               /\ stdin'[i].cmd = "isready" <=> i = Len(stdin')
               /\ stdin'[i].cmd # "ucinewgame"
    <3>1. i + 1 \in DOMAIN stdin /\ stdin'[i] = stdin[i + 1] /\ i \in Nat
      BY ONLY <1>1, i \in DOMAIN stdin' DEF OneLess
    <3>2. (i + 1 = Len(stdin) <=> i = Len(stdin')) /\ (i + 1 = Len(stdin) - 1 <=> i = Len(stdin') - 1)
      BY ONLY <1>4, <3>1
    <3>3. /\ stdin[i + 1].cmd = "position" <=> i + 1 = Len(stdin) - 1
          /\ stdin[i + 1].cmd = "isready" <=> i + 1 = Len(stdin)
          /\ stdin[i + 1].cmd # "ucinewgame"
      BY ONLY <1>3, <3>1
    <3>. QED BY ONLY <3>1, <3>2, <3>3
  <2>3. Len(stdin') >= 2
    BY ONLY <1>2, <1>4, <1>7
  <2>. QED BY <2>1, <2>2, <2>3
<1>. QED BY <1>6, <1>7

LEMMA MovingKept ==
  ASSUME IsSeq(stdin), IsSeq(stdout), Moving, EngineDoes
  PROVE  Moving'
<1>1. CASE NoLineOf("readyok") /\ PositionIsLast
  <2>1. ~ChangesTree /\ ~SaysReady
    BY <1>1 DEF PositionIsLast, Changing, ChangesTree, SaysReady
  <2>2. NoLineOf("readyok")'
    BY <1>1, <2>1, NotReadySaid
  <2>3. CASE ReadsQuery
    <3>1. PICK c \in Queries : Reads(c) /\ mpc' = "idle"
      BY <2>3 DEF ReadsQuery
    <3>2. c \notin Changing
      BY DEF Queries, Changing
    <3>3. PositionIsLast'
      BY <1>1, <3>1, <3>2, PositionRead DEF PositionIsLast
    <3>. QED BY <2>2, <3>3 DEF Moving
  <2>4. CASE ReadsCommand
    <3>1. PICK c : /\ Reads(c) /\ cmd' = c
                   /\ mpc' = IF c = "isready" THEN "ensureBackend" ELSE "stop"
      BY <2>4 DEF ReadsCommand
    <3>2. CASE c \in Changing
      <4>1. c = "position" /\ Len(stdin') = 1 /\ stdin'[1].cmd = "isready"
        BY <1>1, <3>1, <3>2, PositionRead
      <4>. QED BY <2>2, <3>1, <4>1 DEF Moving
    <3>3. CASE c \notin Changing
      <4>1. PositionIsLast'
        BY <1>1, <3>1, <3>3, PositionRead DEF PositionIsLast
      <4>. QED BY <2>2, <4>1 DEF Moving
    <3>. QED BY <3>2, <3>3
  <2>5. CASE Advances \/ Launches \/ SaysNone \/ Quiet \/ Emits
    <3>1. PositionIsLast'
      BY <1>1, <2>5 DEF PositionIsLast, Advances, Launches, SaysNone, Quiet, Emits
    <3>. QED BY <2>2, <3>1 DEF Moving
  <2>. QED BY <2>1, <2>3, <2>4, <2>5 DEF EngineDoes
<1>2. CASE /\ NoLineOf("readyok") /\ Len(stdin) = 1 /\ stdin[1].cmd = "isready"
           /\ mpc \in {"stop", "join", "position"} /\ cmd = "position"
  <2>1. ~ReadsQuery /\ ~ReadsCommand /\ ~SaysReady /\ ~Launches /\ ~SaysNone
    BY <1>2 DEF ReadsQuery, ReadsCommand, Reads, SaysReady, Launches, SaysNone
  <2>2. NoLineOf("readyok")' /\ UNCHANGED stdin
    BY <1>2, <2>1, NotReadySaid DEF EngineDoes, Advances, ChangesTree, Quiet, Emits
  <2>3. CASE Advances \/ Quiet \/ Emits
    BY <1>2, <2>2, <2>3 DEF Advances, Quiet, Emits, Moving
  <2>4. CASE ChangesTree
    BY <1>2, <2>2, <2>4 DEF ChangesTree, Moving, Idle
  <2>. QED BY <2>1, <2>3, <2>4 DEF EngineDoes
<1>3. CASE /\ NoLineOf("readyok") /\ Len(stdin) = 1 /\ stdin[1].cmd = "isready"
           /\ Idle
  <2>1. ReadsQuery \/ ReadsCommand \/ Quiet
    BY <1>3 DEF EngineDoes, Idle, Advances, ChangesTree, SaysReady, Launches, SaysNone, Emits
  <2>2. NoLineOf("readyok")'
    BY <1>3, NotReadySaid DEF SaysReady, Idle
  <2>3. ASSUME NEW c, Reads(c) PROVE c = "isready" /\ stdin' = <<>> /\ ~Busy'
    <3>1. OneLess(stdin, stdin')
      BY <2>3, SeqShrinks DEF Reads
    <3>. QED BY <1>3, <2>3, <3>1 DEF Reads, OneLess, Idle
  <2>4. CASE ReadsQuery
    BY <2>3, <2>4 DEF ReadsQuery, Queries
  <2>5. CASE ReadsCommand
    BY <2>2, <2>3, <2>5 DEF ReadsCommand, Moving
  <2>6. CASE Quiet
    BY <1>3, <2>2, <2>6 DEF Quiet, Moving, Idle
  <2>. QED BY <2>1, <2>4, <2>5, <2>6
<1>4. CASE NoLineOf("readyok") /\ stdin = <<>> /\ mpc # "idle" /\ cmd = "isready" /\ ~Busy
  <2>1. SaysReady \/ Quiet
    BY <1>4 DEF EngineDoes, ReadsQuery, ReadsCommand, Reads, Advances, ChangesTree, Launches,
                SaysNone, Emits
  <2>2. CASE SaysReady
    <3>1. stdin' = <<>> /\ Idle'
      BY <1>4, <2>2 DEF SaysReady, Idle
    <3>. QED BY <1>4, <2>2, <3>1, ReadySaid DEF Moving
  <2>3. CASE Quiet
    <3>1. NoLineOf("readyok")'
      BY <1>4, <2>3 DEF Quiet, NoLineOf
    <3>. QED BY <1>4, <2>3, <3>1 DEF Quiet, Moving
  <2>. QED BY <2>1, <2>2, <2>3
<1>5. CASE stdin = <<>> /\ Idle /\ ReadyIsLast
  <2>1. Quiet
    BY <1>5 DEF Idle, EngineDoes, ReadsQuery, ReadsCommand, Reads, Advances, ChangesTree, SaysReady,
                Launches, SaysNone, Emits
  <2>. QED BY <1>5, <2>1 DEF Quiet, Moving, ReadyIsLast, Idle
<1>. QED BY <1>1, <1>2, <1>3, <1>4, <1>5 DEF Moving

-----------------------------------------------------------------------------
(* The client's steps after one late answer.                               *)

LEMMA EngineAfterLate ==
  ASSUME CInv, AfterLate, EngineReads \/ EngineWorks \/ Searches
  PROVE  AfterLate'
<1>1. EngineDoes /\ UNCHANGED <<pending, at, answer>>
  <2>1. EngineDoes /\ UNCHANGED ClientSide
    BY EngineDoesAre
  <2>. QED BY <2>1 DEF ClientSide, tasks
<1>2. OneCall'
  BY <1>1 DEF AfterLate, OneCall, Unengaged, Engaged, Alone, Waits, Has
<1>3. IsSeq(stdin) /\ IsSeq(stdout) /\ IsSeq(stdin)' /\ IsSeq(stdout)'
  BY <1>1, PipesKept DEF AfterLate
<1>4. CASE SearchesMatch
  <2>1. NoSearch => NoSearch'
    BY <1>1, <1>3, NoSearchKept
  <2>2. OneSearch => OneSearch'
    BY <1>1, <1>3, OneSearchKept
  <2>3. ASSUME NEW t, Found(t) PROVE Found(t)'
    <3>1. Quiet
      BY <1>1, <2>3 DEF Found, NoSearch, EngineDoes, ReadsQuery, ReadsCommand, Reads, Advances,
                        ChangesTree, SaysReady, Launches, SaysNone, Emits
    <3>. QED BY <1>1, <2>1, <2>3, <3>1 DEF Found, Quiet
  <2>4. SearchesMatch'
    BY <1>1, <1>4, <2>1, <2>2, <2>3 DEF SearchesMatch
  <2>. QED BY <1>2, <1>3, <2>4 DEF AfterLate
<1>5. CASE MovesMatch
  <2>1. Steady => Steady' /\ UNCHANGED tree
    BY <1>1, <1>3, SteadyKept
  <2>2. Moving => Moving'
    BY <1>1, <1>3, MovingKept
  <2>3. ASSUME NEW t \in Tasks PROVE Moved(t)' <=> Moved(t)
    BY <1>1 DEF Moved
  <2>4. ASSUME NEW t \in Tasks, at[t] = "bestMove", answer[t] # NoLine PROVE answer'[t].tree = tree'
    <3>1. Engaged(t)
      BY <2>4 DEF AfterLate, OneCall, Unengaged, Engaged, Alone
    <3>2. \A u \in Tasks : ~Moved(u)
      BY <2>4, <3>1 DEF Engaged, Alone, Moved, Applying
    <3>. QED BY <1>1, <1>5, <2>1, <2>4, <3>2 DEF MovesMatch
  <2>5. MovesMatch'
    <3>1. NoLine' = NoLine
      BY DEF NoLine, StartGame
    <3>2. (\A t \in Tasks : ~Moved(t)') => Steady'
      BY <1>5, <2>1, <2>3 DEF MovesMatch
    <3>3. ASSUME NEW t \in Tasks
          PROVE  /\ at'[t] # "newGame"
                 /\ at'[t] = "bestMove" /\ answer'[t] # NoLine => answer'[t].tree = tree'
                 /\ Moved(t)' => Moving'
      BY <1>1, <1>5, <2>2, <2>3, <2>4 DEF MovesMatch
    <3>. QED BY <3>1, <3>2, <3>3 DEF MovesMatch
  <2>. QED BY <1>2, <1>3, <2>5 DEF AfterLate
<1>. QED BY <1>4, <1>5 DEF AfterLate

\* A line is dropped, or it is the answer that the one call waits for.
Dropped ==
  UNCHANGED <<answer, pending>> /\ \A t \in Tasks : Waits(t) => Head(stdout).kind # KindAt(at[t])
Taken(t) ==
  /\ Engaged(t) /\ Waits(t) /\ Head(stdout).kind = KindAt(at[t])
  /\ answer' = [answer EXCEPT ![t] = Head(stdout)] /\ pending' = <<>>

LEMMA LineGoes ==
  ASSUME OnLine, OneCall
  PROVE  /\ stdout # <<>> /\ stdout' = Tail(stdout) /\ UNCHANGED <<vars, stdin, at>>
         /\ Dropped \/ \E t \in Tasks : Taken(t)
<1>. DEFINE line == Head(stdout)
            takers == {i \in DOMAIN pending : pending[i].kind = line.kind}
<1>1. /\ stdout # <<>> /\ stdout' = Tail(stdout) /\ UNCHANGED <<vars, stdin, at>>
      /\ IF takers = {} THEN UNCHANGED <<answer, pending>>
         ELSE /\ answer' = [answer EXCEPT ![pending[Min(takers)].task] = line]
              /\ pending' = RemoveAt(pending, Min(takers))
  BY DEF OnLine
<1>2. CASE pending = <<>>
  <2>1. DOMAIN pending = {}
    BY <1>2
  <2>2. takers = {}
    BY <2>1
  <2>3. ASSUME NEW t, Waits(t) PROVE FALSE
    BY <1>2, <2>3, Tuples DEF Waits
  <2>. QED BY <1>1, <2>2, <2>3 DEF Dropped
<1>3. ASSUME NEW t \in Tasks, Engaged(t), Waits(t)
      PROVE  Dropped \/ Taken(t)
  <2>. DEFINE request == [kind |-> KindAt(at[t]), task |-> t]
  <2>1. pending = <<request>> /\ request.kind = KindAt(at[t]) /\ request.task = t
    BY <1>3 DEF Waits
  <2>2. DOMAIN pending = {1} /\ pending[1] = request
    BY <2>1
  <2>3. CASE line.kind = KindAt(at[t])
    <3>1. takers = {1}
      <4>. HIDE DEF request
      <4>. QED BY <2>1, <2>2, <2>3
    <3>2. Min({1}) = 1
      BY DEF Min
    <3>3. takers # {} /\ Min(takers) = 1 /\ pending[1].task = t
      BY <2>1, <2>2, <3>1, <3>2
    <3>. HIDE DEF takers, request
    <3>4. answer' = [answer EXCEPT ![t] = line] /\ pending' = RemoveAt(pending, 1)
      BY <1>1, <3>3
    <3>5. pending' = <<>>
      BY <2>1, <3>4, Tuples
    <3>. QED BY <1>3, <2>3, <3>4, <3>5 DEF Taken
  <2>4. CASE line.kind # KindAt(at[t])
    <3>1. takers = {}
      <4>. HIDE DEF request
      <4>. QED BY <2>1, <2>2, <2>4
    <3>2. UNCHANGED <<answer, pending>>
      BY <1>1, <3>1
    <3>3. ASSUME NEW u, Waits(u) PROVE KindAt(at[u]) = KindAt(at[t])
      <4>1. pending[1] = [kind |-> KindAt(at[u]), task |-> u]
        BY <3>3 DEF Waits
      <4>. QED BY <2>2, <4>1
    <3>. QED BY <2>4, <3>2, <3>3 DEF Dropped
  <2>. QED BY <2>3, <2>4
<1>. QED BY <1>1, <1>2, <1>3 DEF OneCall, Unengaged, Engaged, Has

LEMMA OneCallAfterLine ==
  ASSUME SType, OneCall, OnLine
  PROVE  OneCall'
<1>1. UNCHANGED at /\ (Dropped \/ \E t \in Tasks : Taken(t))
  BY LineGoes
<1>2. CASE Dropped
  BY <1>1, <1>2 DEF Dropped, OneCall, Unengaged, Engaged, Alone, Waits, Has
<1>3. ASSUME NEW t \in Tasks, Taken(t) PROVE Engaged(t)'
  <2>1. /\ answer'[t] = Head(stdout) /\ \A u \in Tasks \ {t} : answer'[u] = answer[u]
        /\ Head(stdout).kind = KindAt(at[t]) /\ pending' = <<>> /\ Engaged(t)
    BY <1>3 DEF Taken, SType
  <2>2. Has(t)'
    BY <1>1, <2>1 DEF Has
  <2>. QED BY <1>1, <2>1, <2>2 DEF Engaged, Alone
<1>. QED BY <1>1, <1>2, <1>3 DEF OneCall

LEMMA LineAfterLate ==
  ASSUME SType, AfterLate, OnLine
  PROVE  AfterLate'
<1>1. /\ stdout # <<>> /\ stdout' = Tail(stdout) /\ UNCHANGED <<vars, stdin, at>>
      /\ Dropped \/ \E t \in Tasks : Taken(t)
  BY LineGoes DEF AfterLate
<1>. DEFINE line == Head(stdout)
<1>2. OneLess(stdout, stdout') /\ IsSeq(stdin)' /\ IsSeq(stdout)'
  <2>1. OneLess(stdout, stdout')
    BY <1>1, SeqShrinks DEF AfterLate
  <2>. QED BY <1>1, <2>1 DEF OneLess, IsSeq, AfterLate
<1>3. UNCHANGED <<mpc, cmd, tree>> /\ UNCHANGED <<Busy, Idle>>
  BY <1>1 DEF vars, treeVars, searchVars, Busy, Idle
<1>4. OneCall'
  BY OneCallAfterLine DEF AfterLate
<1>5. ASSUME NEW kind, NoLineOf(kind) PROVE NoLineOf(kind)'
  BY <1>1, <1>5, NoLineKept DEF AfterLate
<1>6. line = stdout[1] /\ 1 \in DOMAIN stdout
  BY <1>2 DEF OneLess
<1>7. ASSUME NEW i \in DOMAIN stdout' PROVE i + 1 \in DOMAIN stdout /\ stdout'[i] = stdout[i + 1]
  BY ONLY <1>2, <1>7 DEF OneLess
<1>8. ASSUME NEW t \in Tasks, Taken(t)
      PROVE  /\ answer'[t] = line /\ line.kind = KindAt(at[t]) /\ answer[t] = NoLine /\ line # NoLine
             /\ at[t] \in Places /\ \A u \in Tasks \ {t} : at[u] = "free" /\ answer'[u] = NoLine
  <2>1. /\ answer'[t] = line /\ line.kind = KindAt(at[t]) /\ answer[t] = NoLine
        /\ at[t] \in Places /\ \A u \in Tasks \ {t} : at[u] = "free" /\ answer'[u] = NoLine
    BY <1>8 DEF Taken, Waits, Engaged, Alone, SType
  <2>2. KindAt(at[t]) # NoLine.kind
    BY DEF KindAt, NoLine
  <2>. QED BY <2>1, <2>2
<1>9. NoLine' = NoLine
  BY DEF NoLine, StartGame
<1>10. ASSUME NEW t \in Tasks, at[t] # "free", answer[t] = NoLine PROVE Waits(t)
  <2>1. Engaged(t)
    BY <1>10 DEF AfterLate, OneCall, Unengaged, Engaged, Alone
  <2>2. ~Has(t)
    <3>1. KindAt(at[t]) # NoLine.kind
      BY DEF KindAt, NoLine
    <3>. QED BY <1>10, <3>1 DEF Has
  <2>. QED BY <2>1, <2>2 DEF Engaged
<1>11. CASE SearchesMatch
  <2>1. NoSearch => NoSearch'
    BY <1>1, <1>3, <1>5 DEF NoSearch, NoCommand
  <2>2. CASE Dropped
    <3>1. UNCHANGED answer
      BY <2>2 DEF Dropped
    <3>2. ASSUME NEW t \in Tasks, at[t] = "bestMove", answer[t] = NoLine PROVE OneSearch'
      <4>1. line.kind # "bestmove"
        BY <1>10, <2>2, <3>2 DEF Dropped, KindAt
      <4>2. OneSearch
        BY <1>11, <3>2 DEF SearchesMatch
      <4>3. ASSUME OneBestMove PROVE OneBestMove'
        <5>1. PICK j \in DOMAIN stdout :
                /\ stdout[j].tree = tree
                /\ \A i \in DOMAIN stdout : stdout[i].kind = "bestmove" <=> i = j
          BY <4>3 DEF OneBestMove
        <5>2. j # 1
          BY <1>6, <4>1, <5>1
        <5>3. j - 1 \in DOMAIN stdout' /\ stdout'[j - 1] = stdout[j] /\ j \in Nat
          BY ONLY <1>2, <5>1, <5>2 DEF OneLess
        <5>4. ASSUME NEW i \in DOMAIN stdout' PROVE stdout'[i].kind = "bestmove" <=> i = j - 1
          <6>1. i \in Nat
            BY ONLY <1>2, <5>4 DEF OneLess
          <6>. QED BY <1>7, <5>1, <5>3, <5>4, <6>1
        <5>. QED BY <1>3, <5>1, <5>3, <5>4 DEF OneBestMove
      <4>4. GoIsLast => GoIsLast'
        BY <1>1, <1>3 DEF GoIsLast
      <4>. QED BY <1>1, <1>3, <1>5, <4>2, <4>3, <4>4 DEF OneSearch
    <3>3. ASSUME NEW t \in Tasks, Found(t) PROVE Found(t)'
      BY <1>1, <1>3, <2>1, <3>1, <3>3 DEF Found
    <3>4. SearchesMatch'
      BY <1>1, <1>9, <1>11, <2>1, <3>1, <3>2, <3>3 DEF SearchesMatch
    <3>. QED BY <1>2, <1>4, <3>4 DEF AfterLate
  <2>3. ASSUME NEW t \in Tasks, Taken(t) PROVE SearchesMatch'
    <3>1. CASE at[t] = "bestMove"
      <4>1. OneSearch /\ line.kind = "bestmove"
        BY <1>8, <1>11, <2>3, <3>1 DEF SearchesMatch, KindAt
      <4>2. stdin = <<>> /\ Idle /\ OneBestMove
        BY <1>6, <4>1 DEF OneSearch, NoLineOf
      <4>3. PICK j \in DOMAIN stdout :
              /\ stdout[j].tree = tree
              /\ \A i \in DOMAIN stdout : stdout[i].kind = "bestmove" <=> i = j
        BY <4>2 DEF OneBestMove
      <4>4. j = 1
        BY <1>6, <4>1, <4>3
      <4>5. ASSUME NEW i \in DOMAIN stdout' PROVE stdout'[i].kind # "bestmove"
        <5>1. i + 1 # 1
          BY ONLY <1>2, <4>5 DEF OneLess
        <5>. QED BY <1>7, <4>3, <4>4, <5>1
      <4>6. NoSearch'
        BY <1>1, <1>3, <4>2, <4>5 DEF NoSearch, NoCommand, NoLineOf, Idle
      <4>7. Found(t)'
        BY <1>1, <1>3, <1>6, <1>8, <2>3, <4>2, <4>3, <4>4, <4>6 DEF Found, Idle
      <4>. QED BY <1>1, <1>8, <1>9, <2>3, <3>1, <4>7 DEF SearchesMatch
    <3>2. CASE at[t] # "bestMove"
      <4>1. \A u \in Tasks : at[u] # "bestMove"
        BY <1>8, <2>3, <3>2
      <4>. QED BY <1>1, <1>11, <2>1, <4>1 DEF SearchesMatch
    <3>. QED BY <3>1, <3>2
  <2>. QED BY <1>1, <1>2, <1>4, <2>2, <2>3 DEF AfterLate
<1>12. CASE MovesMatch
  <2>1. ASSUME NoCommand(Changing), NoLineOf("readyok")', BestMovesFit' PROVE Steady'
    BY <1>1, <1>3, <2>1 DEF Steady, NoCommand
  <2>2. Steady => Steady'
    <3>1. BestMovesFit => BestMovesFit'
      BY <1>3, <1>7 DEF BestMovesFit
    <3>. QED BY <1>5, <2>1, <3>1 DEF Steady
  <2>3. CASE Dropped
    <3>1. UNCHANGED answer
      BY <2>3 DEF Dropped
    <3>2. ASSUME NEW t \in Tasks, Moved(t) PROVE Moving'
      <4>1. line.kind # "readyok"
        <5>1. KindAt(at[t]) = "readyok" /\ at[t] # "free"
          BY <3>2 DEF Moved, Applying, KindAt
        <5>. QED BY <1>10, <2>3, <3>2, <5>1 DEF Dropped, Moved
      <4>2. Moving
        BY <1>12, <3>2 DEF MovesMatch
      <4>3. ASSUME ReadyIsLast PROVE ReadyIsLast'
        <5>1. Len(stdout) # 1
          BY <1>6, <4>1, <4>3 DEF ReadyIsLast
        <5>2. Len(stdout') = Len(stdout) - 1 /\ Len(stdout') \in Nat \ {0} /\ stdout' # <<>>
          BY ONLY <1>2, <5>1 DEF OneLess
        <5>3. ASSUME NEW i \in DOMAIN stdout' PROVE stdout'[i].kind = "readyok" <=> i = Len(stdout')
          <6>1. i \in Nat
            BY ONLY <1>2, <5>3 DEF OneLess
          <6>2. stdout[i + 1].kind = "readyok" <=> i + 1 = Len(stdout)
            BY <1>7, <4>3, <5>3 DEF ReadyIsLast
          <6>. QED BY <1>7, <5>2, <5>3, <6>1, <6>2
        <5>. QED BY <5>2, <5>3 DEF ReadyIsLast
      <4>4. PositionIsLast => PositionIsLast'
        BY <1>1, <1>3 DEF PositionIsLast
      <4>. QED BY <1>1, <1>3, <1>5, <4>2, <4>3, <4>4, Zenon DEF Moving
    <3>3. MovesMatch'
      <4>1. \A t \in Tasks : Moved(t)' <=> Moved(t)
        BY <1>1, <1>9, <3>1 DEF Moved
      <4>. QED BY <1>1, <1>3, <1>9, <1>12, <2>2, <3>1, <3>2, <4>1 DEF MovesMatch
    <3>. QED BY <1>2, <1>4, <3>3 DEF AfterLate
  <2>4. ASSUME NEW t \in Tasks, Taken(t) PROVE MovesMatch'
    <3>1. \A u \in Tasks : ~Moved(u)'
      BY <1>1, <1>8, <1>9, <2>4 DEF Moved, Applying
    <3>2. CASE Moved(t)
      <4>1. line.kind = "readyok" /\ Moving
        BY <1>8, <1>12, <2>4, <3>2 DEF MovesMatch, Moved, Applying, KindAt
      <4>2. stdin = <<>> /\ Idle /\ ReadyIsLast
        BY <1>6, <4>1 DEF Moving, NoLineOf
      <4>3. Len(stdout) = 1
        BY <1>6, <4>1, <4>2 DEF ReadyIsLast
      <4>4. DOMAIN stdout' = {}
        BY ONLY <1>2, <4>3 DEF OneLess
      <4>5. Steady'
        <5>1. NoCommand(Changing)
          BY <4>2 DEF NoCommand, Idle
        <5>. QED BY <2>1, <4>4, <5>1 DEF NoLineOf, BestMovesFit
      <4>6. \A u \in Tasks : at'[u] # "bestMove" /\ at'[u] # "newGame"
        BY <1>1, <1>8, <2>4, <3>2 DEF Moved, Applying
      <4>. QED BY <3>1, <4>5, <4>6 DEF MovesMatch
    <3>3. CASE ~Moved(t)
      <4>1. \A u \in Tasks : ~Moved(u)
        BY <1>8, <2>4, <3>3 DEF Moved, Applying
      <4>2. Steady
        BY <1>12, <4>1 DEF MovesMatch
      <4>3. at[t] = "bestMove" => line.tree = tree
        <5>1. KindAt("bestMove") = "bestmove"
          BY DEF KindAt
        <5>. QED BY <1>6, <1>8, <2>4, <4>2, <5>1 DEF Steady, BestMovesFit
      <4>4. \A u \in Tasks : /\ at'[u] # "newGame"
                             /\ at'[u] = "bestMove" /\ answer'[u] # NoLine => answer'[u].tree = tree'
        BY <1>1, <1>3, <1>8, <1>12, <2>4, <4>3 DEF MovesMatch
      <4>. QED BY <1>9, <2>2, <3>1, <4>2, <4>4 DEF MovesMatch
    <3>. QED BY <3>2, <3>3
  <2>. QED BY <1>1, <1>2, <1>4, <2>3, <2>4 DEF AfterLate
<1>. QED BY <1>11, <1>12 DEF AfterLate

\* A task that may send: none is under way, or it has its answer.
Ready(t) == Alone(t) /\ pending = <<>> /\ (Unengaged \/ (at[t] \in Places /\ Has(t)))

OnlyOf(t, place) ==
  /\ at'[t] = place /\ answer'[t] = NoLine
  /\ \A u \in Tasks \ {t} : at'[u] = at[u] /\ answer'[u] = answer[u]
  /\ UNCHANGED <<vars, stdout>>
Asked(t, place) ==
  /\ OnlyOf(t, place)
  /\ pending' = <<[kind |-> KindAt(place), task |-> t]>>
  /\ \/ place = "bestMove" /\ stdin' = stdin \o <<Command("go", StartGame)>>
     \/ /\ place \in {"fen", "legal", "result"}
        /\ stdin' = stdin \o <<Command(KindAt(place), StartGame)>>
     \/ /\ place \in Applying
        /\ \E g : stdin' = stdin \o <<Command("position", g), Command("isready", StartGame)>>
Ended(t) == OnlyOf(t, "free") /\ UNCHANGED <<stdin, pending>>

LEMMA AsksOnce ==
  ASSUME SType, NEW t \in Tasks, Ready(t), NEW place, NEW kind, kind = KindAt(place), NEW lines,
         Awaits(t, place, kind, lines), UNCHANGED <<vars, stdout>>,
         \/ answer' = [answer EXCEPT ![t] = NoLine]
         \/ Unengaged /\ UNCHANGED answer
  PROVE  /\ OnlyOf(t, place) /\ stdin' = stdin \o lines
         /\ pending' = <<[kind |-> KindAt(place), task |-> t]>>
<1>1. at'[t] = place /\ \A u \in Tasks \ {t} : at'[u] = at[u]
  BY DEF Awaits, SType
<1>2. answer'[t] = NoLine /\ \A u \in Tasks \ {t} : answer'[u] = answer[u]
  BY DEF SType, Unengaged
<1>3. pending' = <<[kind |-> KindAt(place), task |-> t]>>
  <2>1. pending' = Append(<<>>, [kind |-> KindAt(place), task |-> t])
    BY DEF Awaits, Ready
  <2>. QED BY <2>1, Tuples
<1>. QED BY <1>1, <1>2, <1>3 DEF OnlyOf, Awaits

LEMMA SendsOnce ==
  ASSUME SType, NEW t \in Tasks, Ready(t), NEW place \in Applying, NEW m, SendsMove(t, place, m),
         UNCHANGED <<vars, stdout>>,
         \/ answer' = [answer EXCEPT ![t] = NoLine]
         \/ Unengaged /\ UNCHANGED answer
  PROVE  Asked(t, place)
<1>. DEFINE g == [fen |-> StartPos, moves |-> sent']
            lines == <<Command("position", g), Command("isready", StartGame)>>
<1>1. Awaits(t, place, "readyok", lines) /\ "readyok" = KindAt(place)
  BY DEF SendsMove, KindAt, Applying
<1>2. /\ OnlyOf(t, place) /\ stdin' = stdin \o lines
      /\ pending' = <<[kind |-> KindAt(place), task |-> t]>>
  <2>. HIDE DEF lines
  <2>. QED BY <1>1, AsksOnce
<1>. HIDE DEF g
<1>. QED BY <1>2 DEF Asked

LEMMA TaskMoves ==
  ASSUME SType, OneCall, NEW t \in Tasks, Continues(t)
  PROVE  Ready(t) /\ (Ended(t) \/ \E place : Asked(t, place))
<1>1. /\ answer[t] # NoLine /\ answer' = [answer EXCEPT ![t] = NoLine] /\ UNCHANGED <<vars, stdout>>
  BY DEF Continues, NewGameReady, HumanMoveApplied, FenKnown, LegalKnown, ResultKnown,
         BestMoveKnown, EngineMoveApplied, Answered
<1>2. Ready(t)
  <2>1. Engaged(t)
    BY <1>1 DEF OneCall, Unengaged, Engaged, Alone
  <2>. QED BY <1>1, <2>1 DEF Engaged, Waits, Has, Ready
<1>3. ASSUME NEW place \in {"fen", "legal", "result"}, NEW kind, kind = KindAt(place),
             Awaits(t, place, kind, <<Command(kind, StartGame)>>)
      PROVE  Asked(t, place)
  <2>. DEFINE lines == <<Command(kind, StartGame)>>
  <2>1. /\ OnlyOf(t, place) /\ stdin' = stdin \o lines
        /\ pending' = <<[kind |-> KindAt(place), task |-> t]>>
    <3>1. Awaits(t, place, kind, lines)
      BY <1>3
    <3>. HIDE DEF lines
    <3>. QED BY <1>1, <1>2, <1>3, <3>1, AsksOnce
  <2>. QED BY <1>3, <2>1 DEF Asked
<1>4. CASE NewGameReady(t) \/ HumanMoveApplied(t) \/ EngineMoveApplied(t)
  <2>1. Awaits(t, "fen", "fen", <<Command("fen", StartGame)>>) /\ "fen" = KindAt("fen")
    BY <1>4 DEF NewGameReady, HumanMoveApplied, EngineMoveApplied, AsksFen, KindAt
  <2>2. Asked(t, "fen")
    BY <1>3, <2>1
  <2>. QED BY <1>2, <2>2
<1>5. CASE FenKnown(t)
  <2>1. Awaits(t, "legal", "legalmoves", <<Command("legalmoves", StartGame)>>) /\ "legalmoves" = KindAt("legal")
    BY <1>5 DEF FenKnown, KindAt
  <2>2. Asked(t, "legal")
    BY <1>3, <2>1
  <2>. QED BY <1>2, <2>2
<1>6. CASE LegalKnown(t)
  <2>1. Awaits(t, "result", "result", <<Command("result", StartGame)>>) /\ "result" = KindAt("result")
    BY <1>6 DEF LegalKnown, KindAt
  <2>2. Asked(t, "result")
    BY <1>3, <2>1
  <2>. QED BY <1>2, <2>2
<1>7. CASE ResultKnown(t)
  <2>1. \/ at' = [at EXCEPT ![t] = "free"] /\ UNCHANGED <<stdin, pending>>
        \/ Awaits(t, "bestMove", "bestmove", <<Command("go", StartGame)>>)
    BY <1>7, Zenon DEF ResultKnown, ThinksOrEnds
  <2>2. CASE at' = [at EXCEPT ![t] = "free"] /\ UNCHANGED <<stdin, pending>>
    <3>1. Ended(t)
      BY <1>1, <2>2 DEF Ended, OnlyOf, SType
    <3>. QED BY <1>2, <3>1
  <2>3. CASE Awaits(t, "bestMove", "bestmove", <<Command("go", StartGame)>>)
    <3>. DEFINE lines == <<Command("go", StartGame)>>
    <3>1. Awaits(t, "bestMove", "bestmove", lines) /\ "bestmove" = KindAt("bestMove")
      BY <2>3 DEF KindAt
    <3>. HIDE DEF lines
    <3>2. /\ OnlyOf(t, "bestMove") /\ stdin' = stdin \o lines
          /\ pending' = <<[kind |-> KindAt("bestMove"), task |-> t]>>
      BY <1>1, <1>2, <3>1, AsksOnce
    <3>3. Asked(t, "bestMove")
      BY <3>2 DEF Asked, lines
    <3>. QED BY <1>2, <3>3
  <2>. QED BY <2>1, <2>2, <2>3
<1>8. CASE BestMoveKnown(t)
  <2>1. CASE SendsMove(t, "applyEngine", answer[t].mv)
    <3>. DEFINE m == answer[t].mv
    <3>1. SendsMove(t, "applyEngine", m) /\ "applyEngine" \in Applying
      BY <2>1 DEF Applying
    <3>. HIDE DEF m
    <3>2. Asked(t, "applyEngine")
      BY <1>1, <1>2, <3>1, SendsOnce
    <3>. QED BY <1>2, <3>2
  <2>2. CASE AsksFen(t)
    <3>1. Awaits(t, "fen", "fen", <<Command("fen", StartGame)>>) /\ "fen" = KindAt("fen")
      BY <2>2 DEF AsksFen, KindAt
    <3>2. Asked(t, "fen")
      BY <1>3, <3>1
    <3>. QED BY <1>2, <3>2
  <2>. QED BY <1>8, <2>1, <2>2, Zenon DEF BestMoveKnown
<1>. QED BY <1>4, <1>5, <1>6, <1>7, <1>8 DEF Continues

LEMMA UserMoves ==
  ASSUME SType, OneCall, PatientUser, NEW t \in Tasks, NEW m,
         TogglePause(t) \/ Tap(t, m)
  PROVE  \/ UNCHANGED <<vars, stdin, stdout, pending, at, answer>>
         \/ Ready(t) /\ \E place : Asked(t, place)
<1>1. ASSUME UserActs, ~engine_thinking PROVE Unengaged /\ Ready(t)
  <2>1. AtRest
    BY <1>1, Zenon DEF UserActs
  <2>2. ASSUME NEW u \in Tasks PROVE ~Engaged(u)
    BY <2>1 DEF AtRest, Free, Engaged, Places, Applying
  <2>3. Unengaged
    BY <2>2 DEF OneCall
  <2>. QED BY <2>3 DEF Unengaged, Ready, Alone
<1>2. CASE Tap(t, m)
  <2>1. UserActs /\ ~engine_thinking /\ SendsMove(t, "applyHuman", m) /\ UNCHANGED <<vars, stdout, answer>>
    BY <1>2 DEF Tap
  <2>2. "applyHuman" \in Applying
    BY DEF Applying
  <2>3. Asked(t, "applyHuman")
    BY <1>1, <2>1, <2>2, SendsOnce
  <2>. QED BY <1>1, <2>1, <2>3
<1>3. CASE TogglePause(t)
  <2>1. UserActs /\ UNCHANGED <<vars, stdout, answer>>
    BY <1>3 DEF TogglePause
  <2>2. \/ ~engine_thinking /\ Awaits(t, "bestMove", "bestmove", <<Command("go", StartGame)>>)
        \/ UNCHANGED <<at, stdin, pending>>
    BY <1>3, Zenon DEF TogglePause
  <2>3. CASE ~engine_thinking /\ Awaits(t, "bestMove", "bestmove", <<Command("go", StartGame)>>)
    <3>. DEFINE lines == <<Command("go", StartGame)>>
    <3>1. Awaits(t, "bestMove", "bestmove", lines) /\ "bestmove" = KindAt("bestMove")
      BY <2>3 DEF KindAt
    <3>. HIDE DEF lines
    <3>2. /\ OnlyOf(t, "bestMove") /\ stdin' = stdin \o lines
          /\ pending' = <<[kind |-> KindAt("bestMove"), task |-> t]>>
      BY <1>1, <2>1, <2>3, <3>1, AsksOnce
    <3>3. Asked(t, "bestMove")
      BY <3>2 DEF Asked, lines
    <3>. QED BY <1>1, <2>1, <2>3, <3>3
  <2>. QED BY <2>1, <2>2, <2>3
<1>. QED BY <1>2, <1>3

\* While no call is under way, no search is, or the tree stays what it is.
LEMMA ReadyThen ==
  ASSUME AfterLate, NEW t \in Tasks, Ready(t)
  PROVE  NoSearch \/ (Steady /\ \A u \in Tasks : at[u] # "newGame")
<1>1. ASSUME NEW u \in Tasks, answer[u] = NoLine PROVE at[u] = "free"
  <2>1. KindAt(at[u]) # NoLine.kind
    BY DEF KindAt, NoLine
  <2>. QED BY <1>1, <2>1 DEF Ready, Unengaged, Alone, Has
<1>2. CASE SearchesMatch
  <2>1. CASE \A u \in Tasks : at[u] # "bestMove"
    BY <1>2, <2>1 DEF SearchesMatch
  <2>2. ASSUME NEW u \in Tasks, at[u] = "bestMove" PROVE NoSearch
    BY <1>1, <1>2, <2>2 DEF SearchesMatch, Found
  <2>. QED BY <2>1, <2>2
<1>3. CASE MovesMatch
  <2>1. \A u \in Tasks : ~Moved(u)
    BY <1>1 DEF Moved, Applying
  <2>. QED BY <1>3, <2>1 DEF MovesMatch
<1>. QED BY <1>2, <1>3 DEF AfterLate

\* What the client sends next.
LEMMA AskedLine ==
  ASSUME IsSeq(stdin), NEW c, NEW g, stdin' = stdin \o <<Command(c, g)>>, UNCHANGED <<mpc, cmd>>
  PROVE  /\ IsSeq(stdin)'
         /\ \A C : NoCommand(C) /\ c \notin C => NoCommand(C)'
         /\ c = "go" /\ NoCommand({"go"}) => GoIsLast'
<1>. DEFINE line == Command(c, g)
<1>1. line.cmd = c
  BY DEF Command
<1>2. OneMore(stdin, stdin', line)
  BY SeqGrows
<1>. HIDE DEF line
<1>3. ASSUME NEW i \in DOMAIN stdin'
      PROVE  \/ i = Len(stdin') /\ stdin'[i] = line
             \/ i # Len(stdin') /\ i \in DOMAIN stdin /\ stdin'[i] = stdin[i]
  BY ONLY <1>2, <1>3 DEF OneMore
<1>4. IsSeq(stdin)' /\ stdin' # <<>>
  BY ONLY <1>2 DEF OneMore, IsSeq
<1>5. ASSUME NEW C, NoCommand(C), c \notin C PROVE NoCommand(C)'
  BY <1>1, <1>3, <1>5 DEF NoCommand
<1>6. ASSUME c = "go", NoCommand({"go"}) PROVE GoIsLast'
  BY <1>1, <1>3, <1>4, <1>6 DEF NoCommand, GoIsLast
<1>. QED BY <1>4, <1>5, <1>6

LEMMA SentLines ==
  ASSUME IsSeq(stdin), NEW g, UNCHANGED <<mpc, cmd>>,
         stdin' = stdin \o <<Command("position", g), Command("isready", StartGame)>>
  PROVE  /\ IsSeq(stdin)'
         /\ NoCommand({"go"}) => NoCommand({"go"})'
         /\ NoCommand(Changing) => PositionIsLast'
<1>. DEFINE one == Command("position", g)
            two == Command("isready", StartGame)
<1>1. one.cmd = "position" /\ two.cmd = "isready"
  BY DEF Command
<1>2. stdin' = stdin \o <<one, two>>
  OBVIOUS
<1>. HIDE DEF one, two
<1>3. TwoMore(stdin, stdin', one, two)
  BY <1>2, SeqGrowsTwo
<1>4. ASSUME NEW i \in DOMAIN stdin'
      PROVE  \/ i = Len(stdin') /\ i # Len(stdin') - 1 /\ stdin'[i] = two
             \/ i = Len(stdin') - 1 /\ i # Len(stdin') /\ stdin'[i] = one
             \/ i # Len(stdin') /\ i # Len(stdin') - 1 /\ i \in DOMAIN stdin /\ stdin'[i] = stdin[i]
  BY ONLY <1>3, <1>4 DEF TwoMore
<1>5. Len(stdin') >= 2 /\ IsSeq(stdin)'
  BY ONLY <1>3 DEF TwoMore, IsSeq
<1>6. ASSUME NoCommand({"go"}) PROVE NoCommand({"go"})'
  BY <1>1, <1>4, <1>6 DEF NoCommand
<1>7. ASSUME NoCommand(Changing) PROVE PositionIsLast'
  <2>1. \A i \in DOMAIN stdin : stdin[i].cmd \notin Changing
    BY <1>7 DEF NoCommand
  <2>2. mpc' # "idle" => cmd' \notin Changing
    BY <1>7 DEF NoCommand
  <2>3. ASSUME NEW i \in DOMAIN stdin'
        PROVE  /\ stdin'[i].cmd = "position" <=> i = Len(stdin') - 1
               /\ stdin'[i].cmd = "isready" <=> i = Len(stdin')
               /\ stdin'[i].cmd # "ucinewgame"
    BY ONLY <1>1, <1>4, <2>1, <2>3 DEF Changing
  <2>. QED BY <1>5, <2>2, <2>3 DEF PositionIsLast
<1>. QED BY <1>5, <1>6, <1>7

LEMMA MovesAfterLate ==
  ASSUME SType, AfterLate, NEW t \in Tasks, Ready(t), NEW place, Asked(t, place) \/ Ended(t)
  PROVE  AfterLate'
<1>1. /\ Alone(t) /\ UNCHANGED <<stdout, mpc, cmd, tree>> /\ UNCHANGED <<Busy, Idle>>
      /\ answer'[t] = NoLine /\ \A u \in Tasks \ {t} : at'[u] = "free" /\ answer'[u] = NoLine
  BY DEF Ready, Asked, Ended, OnlyOf, Alone, vars, treeVars, searchVars, Busy, Idle
<1>2. NoLine' = NoLine
  BY DEF NoLine, StartGame
<1>3. /\ OneCall /\ IsSeq(stdin) /\ IsSeq(stdout)
      /\ NoSearch \/ (Steady /\ \A u \in Tasks : at[u] # "newGame")
  BY ReadyThen DEF AfterLate
<1>4. IsSeq(stdout)'
  BY <1>1, <1>3 DEF IsSeq
<1>5. \A kind : NoLineOf(kind) => NoLineOf(kind)'
  BY <1>1 DEF NoLineOf
<1>6. CASE Ended(t)
  <2>1. at'[t] = "free" /\ UNCHANGED <<stdin, pending>>
    BY <1>6 DEF Ended, OnlyOf
  <2>2. OneCall'
    BY <1>1, <1>2, <2>1 DEF Ready, OneCall, Unengaged
  <2>3. IsSeq(stdin)'
    BY <1>3, <2>1 DEF IsSeq
  <2>4. \A u \in Tasks : at'[u] = "free"
    BY <1>1, <2>1
  <2>5. NoSearch => SearchesMatch'
    BY <1>1, <1>5, <2>1, <2>4 DEF NoSearch, NoCommand, SearchesMatch
  <2>6. Steady => MovesMatch'
    BY <1>1, <1>5, <2>1, <2>4 DEF Steady, NoCommand, BestMovesFit, MovesMatch, Moved, Applying
  <2>. QED BY <1>3, <1>4, <2>2, <2>3, <2>5, <2>6 DEF AfterLate
<1>7. CASE Asked(t, place)
  <2>1. /\ at'[t] = place /\ place \in Places
        /\ pending' = <<[kind |-> KindAt(place), task |-> t]>>
    BY <1>7 DEF Asked, OnlyOf, Places
  <2>2. OneCall'
    <3>1. Engaged(t)'
      BY <1>1, <1>2, <2>1 DEF Engaged, Alone, Waits, KindAt
    <3>. QED BY <3>1 DEF OneCall
  <2>3. place # "newGame" /\ \A u \in Tasks : answer'[u] = NoLine
    BY <1>1, <1>7 DEF Asked, Applying
  <2>4. CASE place \in Applying
    <3>1. PICK g : stdin' = stdin \o <<Command("position", g), Command("isready", StartGame)>>
      BY <1>7, <2>4 DEF Asked, Applying
    <3>2. /\ IsSeq(stdin)'
          /\ NoCommand({"go"}) => NoCommand({"go"})'
          /\ NoCommand(Changing) => PositionIsLast'
      BY <1>1, <1>3, <3>1, SentLines
    <3>3. ASSUME NoSearch PROVE SearchesMatch'
      <4>1. NoSearch'
        BY <1>1, <1>5, <3>2, <3>3 DEF NoSearch
      <4>2. \A u \in Tasks : at'[u] # "bestMove"
        BY <1>1, <2>1, <2>4 DEF Applying
      <4>. QED BY <4>1, <4>2 DEF SearchesMatch
    <3>4. ASSUME Steady PROVE MovesMatch'
      <4>1. Moving'
        BY <1>5, <3>2, <3>4 DEF Steady, Moving
      <4>2. Moved(t)'
        BY <1>1, <1>2, <2>1, <2>4 DEF Moved
      <4>3. \A u \in Tasks : at'[u] # "newGame" /\ at'[u] # "bestMove"
        BY <1>1, <2>1, <2>4 DEF Applying
      <4>. QED BY <4>1, <4>2, <4>3 DEF MovesMatch
    <3>. QED BY <1>3, <1>4, <2>2, <3>2, <3>3, <3>4 DEF AfterLate
  <2>5. CASE place \notin Applying
    <3>1. PICK c : /\ stdin' = stdin \o <<Command(c, StartGame)>>
                   /\ c = "go" <=> place = "bestMove"
                   /\ c \notin Changing
      BY <1>7, <2>5 DEF Asked, KindAt, Changing
    <3>2. /\ IsSeq(stdin)'
          /\ \A C : NoCommand(C) /\ c \notin C => NoCommand(C)'
          /\ c = "go" /\ NoCommand({"go"}) => GoIsLast'
      BY <1>1, <1>3, <3>1, AskedLine
    <3>3. ASSUME NoSearch PROVE SearchesMatch'
      <4>1. CASE place = "bestMove"
        <5>1. OneSearch'
          BY <1>1, <1>5, <3>1, <3>2, <3>3, <4>1 DEF NoSearch, OneSearch
        <5>. QED BY <1>1, <1>2, <2>1, <4>1, <5>1 DEF SearchesMatch
      <4>2. CASE place # "bestMove"
        <5>1. NoSearch'
          BY <1>1, <1>5, <3>1, <3>2, <3>3, <4>2 DEF NoSearch
        <5>2. \A u \in Tasks : at'[u] # "bestMove"
          BY <1>1, <2>1, <4>2
        <5>. QED BY <5>1, <5>2 DEF SearchesMatch
      <4>. QED BY <4>1, <4>2
    <3>4. ASSUME Steady PROVE MovesMatch'
      <4>1. Steady'
        BY <1>1, <1>5, <3>1, <3>2, <3>4 DEF Steady, BestMovesFit
      <4>2. \A u \in Tasks : at'[u] # "newGame" /\ answer'[u] = NoLine' /\ ~Moved(u)'
        BY <1>1, <1>2, <2>1, <2>3, <2>5 DEF Moved, Applying
      <4>. QED BY <4>1, <4>2 DEF MovesMatch
    <3>. QED BY <1>3, <1>4, <2>2, <3>2, <3>3, <3>4 DEF AfterLate
  <2>. QED BY <2>4, <2>5
<1>. QED BY <1>6, <1>7

LEMMA FewLines ==
  ASSUME NEW s, NEW a, NEW b, NEW c, s = <<>> \/ s = <<a>> \/ s = <<a, b>> \/ s = <<a, b, c>>
  PROVE  IsSeq(s) /\ \A i \in DOMAIN s : s[i] \in {a, b, c}
<1>1. s \in Seq({a, b, c}) /\ \A i \in DOMAIN s : s[i] \in {a, b, c}
  <2>1. s = <<>> => s \in Seq({a, b, c}) /\ \A i \in DOMAIN s : s[i] \in {a, b, c}
    OBVIOUS
  <2>2. s = <<a>> => s \in Seq({a, b, c}) /\ \A i \in DOMAIN s : s[i] \in {a, b, c}
    OBVIOUS
  <2>3. s = <<a, b>> => s \in Seq({a, b, c}) /\ \A i \in DOMAIN s : s[i] \in {a, b, c}
    OBVIOUS
  <2>4. s = <<a, b, c>> => s \in Seq({a, b, c}) /\ \A i \in DOMAIN s : s[i] \in {a, b, c}
    OBVIOUS
  <2>. QED BY <2>1, <2>2, <2>3, <2>4
<1>. QED BY <1>1 DEF IsSeq

\* What a call has sent, where the answer is not there yet.
LEMMA LinesOnTheWay ==
  ASSUME NEW place \in Places, OnItsWay(place)
  PROVE  /\ IsSeq(stdin)
         /\ IF place = "bestMove" THEN NoCommand(Changing) ELSE NoCommand({"go"}) /\ ~Busy
<1>. DEFINE p == Command("position", SentGame)
            r == Command("isready", StartGame)
            n == Command("ucinewgame", StartGame)
            g == Command("go", StartGame)
            q == Command(KindAt(place), StartGame)
<1>1. /\ p.cmd = "position" /\ r.cmd = "isready" /\ n.cmd = "ucinewgame" /\ g.cmd = "go"
      /\ q.cmd = KindAt(place)
  BY DEF Command
<1>2. CASE place = "bestMove"
  <2>1. /\ stdin = <<>> \/ stdin = <<g>>
        /\ mpc # "idle" => cmd = "go"
    BY <1>2 DEF OnItsWay, SearchOnItsWay, Applying, Idle
  <2>. HIDE DEF g
  <2>2. IsSeq(stdin) /\ \A i \in DOMAIN stdin : stdin[i] \in {g, g, g}
    BY <2>1, FewLines
  <2>. QED BY <1>1, <1>2, <2>1, <2>2 DEF NoCommand, Changing
<1>3. CASE place \in {"fen", "legal", "result"}
  <2>1. stdin = <<q>> /\ Idle
    BY <1>3 DEF OnItsWay, Applying
  <2>2. KindAt(place) # "go"
    BY <1>3 DEF KindAt
  <2>. HIDE DEF q
  <2>3. IsSeq(stdin) /\ \A i \in DOMAIN stdin : stdin[i] \in {q, q, q}
    BY <2>1, FewLines
  <2>. QED BY <1>1, <1>3, <2>1, <2>2, <2>3 DEF NoCommand, Idle
<1>4. CASE place \in Applying \cup {"newGame"}
  <2>1. /\ stdin = <<>> \/ stdin = <<r>> \/ stdin = <<p, r>> \/ stdin = <<n, p, r>>
        /\ mpc # "idle" => cmd # "go"
        /\ ~Busy
    BY <1>4 DEF OnItsWay, PositionOnItsWay, NewGameOnItsWay, Applying, Idle
  <2>. HIDE DEF p, r, n
  <2>2. IsSeq(stdin) /\ \A i \in DOMAIN stdin : stdin[i] \in {n, p, r}
    <3>1. CASE stdin = <<r>>
      <4>1. IsSeq(stdin) /\ \A i \in DOMAIN stdin : stdin[i] \in {r, r, r}
        BY <3>1, FewLines
      <4>. QED BY <4>1
    <3>2. CASE stdin = <<p, r>>
      <4>1. IsSeq(stdin) /\ \A i \in DOMAIN stdin : stdin[i] \in {p, r, r}
        BY <3>2, FewLines
      <4>. QED BY <4>1
    <3>3. CASE stdin = <<>> \/ stdin = <<n, p, r>>
      BY <3>3, FewLines
    <3>. QED BY <2>1, <3>1, <3>2, <3>3
  <2>3. place # "bestMove"
    BY <1>4 DEF Applying
  <2>. QED BY <1>1, <2>1, <2>2, <2>3 DEF NoCommand
<1>. QED BY <1>2, <1>3, <1>4 DEF Places

\* The first answer that does not come in time: which of the two it leaves.
LEMMA FirstLate ==
  ASSUME SType, Linked, NEW t \in Tasks, TimesOut(t)
  PROVE  AfterLate'
<1>1. PICK i \in DOMAIN pending : pending[i].task = t /\ pending' = RemoveAt(pending, i)
  BY DEF TimesOut
<1>2. /\ UNCHANGED <<stdin, stdout, answer, mpc, cmd, tree>> /\ UNCHANGED <<Busy, Idle>>
      /\ at' = [at EXCEPT ![t] = "free"]
  BY DEF TimesOut, pipes, vars, treeVars, searchVars, Busy, Idle
<1>3. pending # <<>>
  <2>1. DOMAIN <<>> = {}
    OBVIOUS
  <2>. QED BY <1>1, <2>1
<1>4. Calling(t) /\ Awaiting(t) /\ pending' = <<>>
  <2>1. PICK u \in Tasks : Calling(u)
    BY <1>3 DEF Linked, Resting
  <2>2. Awaiting(u)
    BY <1>3, <2>1 DEF Calling, Served
  <2>. DEFINE request == [kind |-> KindAt(at[u]), task |-> u]
  <2>3. pending = <<request>> /\ request.task = u
    BY <2>2 DEF Awaiting
  <2>. HIDE DEF request
  <2>4. i = 1 /\ pending[1] = request
    BY <1>1, <2>3
  <2>5. pending' = <<>>
    BY <1>1, <2>3, <2>4, Tuples
  <2>. QED BY <1>1, <2>1, <2>2, <2>3, <2>4, <2>5
<1>5. Unengaged' /\ \A u \in Tasks : at'[u] = "free"
  <2>1. \A u \in Tasks : at'[u] = "free" /\ answer'[u] = NoLine
    BY <1>2, <1>4 DEF Calling, Alone, Awaiting, SType
  <2>2. NoLine' = NoLine
    BY DEF NoLine, StartGame
  <2>. QED BY <1>4, <2>1, <2>2 DEF Unengaged
<1>6. \A u \in Tasks : at'[u] # "bestMove" /\ at'[u] # "newGame" /\ ~Moved(u)'
  BY <1>5 DEF Moved, Applying
<1>7. /\ IsSeq(stdin)
      /\ IF at[t] = "bestMove" THEN NoCommand(Changing) ELSE NoCommand({"go"}) /\ ~Busy
  <2>1. CASE OnItsWay(at[t])
    BY <1>4, <2>1, LinesOnTheWay DEF Calling
  <2>2. CASE Settled
    BY <2>2, FewLines DEF Settled, Idle, NoCommand
  <2>. QED BY <1>4, <2>1, <2>2 DEF Awaiting
<1>8. /\ IsSeq(stdout)
      /\ \A j \in DOMAIN stdout : stdout[j].kind = KindAt(at[t]) /\ stdout[j].tree = tree
  <2>1. CASE stdout = <<>>
    BY <2>1, FewLines
  <2>2. ASSUME NEW line, Settled, stdout = <<line>>, Fits(line, at[t])
        PROVE  /\ IsSeq(stdout)
               /\ \A j \in DOMAIN stdout : stdout[j].kind = KindAt(at[t]) /\ stdout[j].tree = tree
    <3>1. tree = SentGame
      BY <2>2, BoardIs DEF Linked, Settled, Idle, Pending
    <3>2. IsSeq(stdout) /\ \A j \in DOMAIN stdout : stdout[j] \in {line, line, line}
      BY <2>2, FewLines
    <3>. QED BY <2>2, <3>1, <3>2 DEF Fits
  <2>. QED BY <1>4, <2>1, <2>2 DEF Awaiting
<1>9. OneCall' /\ IsSeq(stdin)' /\ IsSeq(stdout)'
  BY <1>2, <1>5, <1>7, <1>8 DEF OneCall, IsSeq
<1>10. CASE at[t] = "bestMove"
  <2>1. Steady'
    <3>1. KindAt(at[t]) # "readyok"
      BY <1>10 DEF KindAt
    <3>. QED BY <1>2, <1>7, <1>8, <1>10, <3>1 DEF Steady, NoCommand, NoLineOf, BestMovesFit
  <2>2. MovesMatch'
    BY <1>6, <2>1 DEF MovesMatch
  <2>. QED BY <1>9, <2>2 DEF AfterLate
<1>11. CASE at[t] # "bestMove"
  <2>1. NoSearch'
    <3>1. KindAt(at[t]) # "bestmove"
      BY <1>11 DEF KindAt
    <3>. QED BY <1>2, <1>7, <1>8, <1>11, <3>1 DEF NoSearch, NoCommand, NoLineOf
  <2>2. SearchesMatch'
    BY <1>6, <2>1 DEF SearchesMatch
  <2>. QED BY <1>9, <2>2 DEF AfterLate
<1>. QED BY <1>10, <1>11

LInv == SInv /\ OneLate /\ Gone

LEMMA StutterLate ==
  ASSUME AfterLate, UNCHANGED <<vars, stdin, stdout, pending, at, answer>>
  PROVE  AfterLate'
<1>1. UNCHANGED <<mpc, cmd, tree, stdin, stdout, pending, at, answer>> /\ UNCHANGED <<Busy, Idle>>
  BY DEF vars, treeVars, searchVars, Busy, Idle
<1>2. NoLine' = NoLine
  BY DEF NoLine, StartGame
<1>3. OneCall' /\ IsSeq(stdin)' /\ IsSeq(stdout)'
  BY <1>1, <1>2 DEF AfterLate, IsSeq, OneCall, Unengaged, Engaged, Alone, Waits, Has
<1>4. UNCHANGED <<NoSearch, GoIsLast, OneBestMove, Steady, PositionIsLast, ReadyIsLast>>
      /\ \A kind : NoLineOf(kind)' <=> NoLineOf(kind)
  BY <1>1 DEF NoSearch, GoIsLast, OneBestMove, Steady, PositionIsLast, ReadyIsLast, NoCommand,
              NoLineOf, BestMovesFit
<1>5. OneSearch' <=> OneSearch
  BY <1>1, <1>4, Zenon DEF OneSearch
<1>6. Moving' <=> Moving
  BY <1>1, <1>4, Zenon DEF Moving
<1>7. SearchesMatch' <=> SearchesMatch
  BY <1>1, <1>2, <1>4, <1>5 DEF SearchesMatch, Found
<1>8. MovesMatch' <=> MovesMatch
  BY <1>1, <1>2, <1>4, <1>6 DEF MovesMatch, Moved
<1>. QED BY <1>3, <1>7, <1>8 DEF AfterLate

LEMMA OneLateKept ==
  ASSUME PatientUser, CInv, LInv, SessionNext
  PROVE  OneLate'
<1>. SUFFICES ASSUME late' = 1, ~disposed' PROVE AfterLate'
  BY DEF OneLate
<1>1. SType /\ late \in Nat
  BY DEF LInv, SInv, SType
<1>2. ASSUME UNCHANGED <<late, disposed>> PROVE AfterLate
  BY <1>2 DEF LInv, OneLate
<1>3. CASE EngineReads \/ EngineWorks \/ Searches
  <2>1. UNCHANGED <<late, disposed>>
    BY <1>3 DEF EngineReads, EngineWorks, Searches, controller
  <2>. QED BY <1>2, <1>3, <2>1, EngineAfterLate DEF LInv
<1>4. CASE OnLine
  <2>1. UNCHANGED <<late, disposed>>
    BY <1>4 DEF OnLine, controller
  <2>. QED BY <1>1, <1>2, <1>4, <2>1, LineAfterLate
<1>5. ASSUME NEW t \in Tasks, Continues(t) PROVE AfterLate'
  <2>1. UNCHANGED <<late, disposed>>
    BY <1>5 DEF Continues, NewGameReady, HumanMoveApplied, FenKnown, LegalKnown, ResultKnown,
                BestMoveKnown, EngineMoveApplied, Answered
  <2>2. AfterLate
    BY <1>2, <2>1
  <2>3. Ready(t) /\ (Ended(t) \/ \E place : Asked(t, place))
    BY <1>1, <1>5, <2>2, TaskMoves DEF AfterLate
  <2>. QED BY <1>1, <2>2, <2>3, MovesAfterLate
<1>6. ASSUME NEW t \in Tasks, NEW m, TogglePause(t) \/ Tap(t, m) PROVE AfterLate'
  <2>1. UNCHANGED <<late, disposed>>
    BY <1>6 DEF TogglePause, Tap, controller
  <2>2. AfterLate
    BY <1>2, <2>1
  <2>3. \/ UNCHANGED <<vars, stdin, stdout, pending, at, answer>>
        \/ Ready(t) /\ \E place : Asked(t, place)
    BY <1>1, <1>6, <2>2, UserMoves DEF AfterLate
  <2>. QED BY <1>1, <2>2, <2>3, MovesAfterLate, StutterLate
<1>7. ASSUME NEW t \in Tasks, TimesOut(t) PROVE AfterLate'
  <2>1. late = 0 /\ ~disposed
    BY <1>1, <1>7 DEF TimesOut
  <2>2. Linked
    BY <2>1 DEF LInv, SInv, InTime
  <2>. QED BY <1>1, <1>7, <2>2, FirstLate
<1>8. ~Dispose
  BY DEF Dispose
<1>9. CASE disposed /\ UNCHANGED <<vars, sessionVars>>
  BY <1>9 DEF sessionVars, controller
<1>. QED BY <1>3, <1>4, <1>5, <1>6, <1>7, <1>8, <1>9 DEF SessionNext

LEMMA GoneKept == ASSUME SType, Gone, SessionNext PROVE Gone'
<1>. SUFFICES ASSUME disposed' PROVE \A u \in Tasks : at'[u] = "free" /\ answer'[u] = NoLine'
  BY DEF Gone
<1>1. NoLine' = NoLine
  BY DEF NoLine, StartGame
<1>2. CASE Dispose
  BY <1>1, <1>2 DEF Dispose, Resumable
<1>3. CASE ~Dispose
  <2>1. ASSUME NEW t \in Tasks, Continues(t) PROVE answer[t] # NoLine /\ UNCHANGED disposed
    BY <2>1 DEF Continues, NewGameReady, HumanMoveApplied, FenKnown, LegalKnown, ResultKnown,
                BestMoveKnown, EngineMoveApplied, Answered
  <2>2. ASSUME NEW t \in Tasks, NEW m, TogglePause(t) \/ Tap(t, m) PROVE ~disposed'
    BY <2>2 DEF TogglePause, Tap, UserActs, controller
  <2>3. ~EngineReads /\ ~EngineWorks /\ ~Searches /\ ~OnLine
    BY DEF EngineReads, EngineWorks, Searches, OnLine, controller
  <2>4. ASSUME NEW t \in Tasks, TimesOut(t)
        PROVE  UNCHANGED <<answer, disposed>> /\ \A u \in Tasks : at'[u] \in {at[u], "free"}
    BY <2>4 DEF TimesOut, SType
  <2>5. CASE disposed /\ UNCHANGED <<vars, sessionVars>>
    BY <1>1, <2>5 DEF sessionVars, tasks, Gone
  <2>. QED BY <1>1, <1>3, <2>1, <2>2, <2>3, <2>4, <2>5 DEF SessionNext, Gone
<1>. QED BY <1>2, <1>3

\* The step in which the move of a search is sent: the search has answered.
LEMMA MoveIsKnown ==
  ASSUME SType, SessionNext, NEW t \in Tasks, at[t] = "bestMove", at'[t] = "applyEngine"
  PROVE  answer[t] # NoLine
<1>1. ASSUME NEW u, NEW place, at' = [at EXCEPT ![u] = place], place # "applyEngine" PROVE FALSE
  BY <1>1 DEF SType
<1>2. ASSUME UNCHANGED at PROVE FALSE
  BY <1>2
<1>3. ~EngineReads /\ ~EngineWorks /\ ~Searches /\ ~OnLine
  BY <1>2 DEF EngineReads, EngineWorks, Searches, OnLine, tasks
<1>4. ASSUME NEW u \in Tasks, Continues(u) PROVE answer[u] # NoLine /\ u = t
  <2>1. answer[u] # NoLine
    BY <1>4 DEF Continues, NewGameReady, HumanMoveApplied, FenKnown, LegalKnown, ResultKnown,
                BestMoveKnown, EngineMoveApplied, Answered
  <2>2. \E place : at' = [at EXCEPT ![u] = place]
    BY <1>4, Zenon DEF Continues, NewGameReady, HumanMoveApplied, FenKnown, LegalKnown, ResultKnown,
                BestMoveKnown, EngineMoveApplied, AsksFen, Awaits, SendsMove, ThinksOrEnds
  <2>3. u = t
    BY <2>2 DEF SType
  <2>. QED BY <2>1, <2>3
<1>5. ASSUME NEW u \in Tasks, NEW m, TogglePause(u) \/ Tap(u, m) PROVE FALSE
  <2>1. \/ UNCHANGED at
        \/ at' = [at EXCEPT ![u] = "bestMove"]
        \/ at' = [at EXCEPT ![u] = "applyHuman"]
    BY <1>5, Zenon DEF TogglePause, Tap, SendsMove, Awaits
  <2>. QED BY <1>1, <1>2, <2>1
<1>6. ASSUME NEW u \in Tasks, TimesOut(u) PROVE FALSE
  BY <1>1, <1>6 DEF TimesOut
<1>7. ~Dispose
  BY DEF Dispose
<1>8. ~(disposed /\ UNCHANGED <<vars, sessionVars>>)
  BY <1>2 DEF sessionVars, tasks
<1>. QED BY <1>3, <1>4, <1>5, <1>6, <1>7, <1>8 DEF SessionNext

LEMMA MoveFits ==
  ASSUME LInv, late <= 1, NEW t \in Tasks, at[t] = "bestMove", answer[t] # NoLine
  PROVE  answer[t].tree = tree /\ \A i \in DOMAIN stdin : stdin[i].cmd # "position"
<1>1. late \in Nat
  BY DEF LInv, SInv, SType
<1>2. ~disposed
  BY DEF LInv, Gone
<1>3. CASE late = 0
  <2>1. Linked
    BY <1>2, <1>3 DEF LInv, SInv, InTime
  <2>2. Served(t)
    BY <2>1, OneServed
  <2>3. tree = SentGame
    BY <2>1, <2>2, BoardIs DEF Linked, Served, Settled, Idle, Pending
  <2>. QED BY <2>2, <2>3 DEF Served, Fits, Settled
<1>4. CASE late = 1
  <2>1. AfterLate
    BY <1>2, <1>4 DEF LInv, OneLate
  <2>2. CASE SearchesMatch
    BY <2>2 DEF SearchesMatch, Found
  <2>3. CASE MovesMatch
    <3>1. Alone(t)
      BY <2>1 DEF AfterLate, OneCall, Unengaged, Engaged, Alone
    <3>2. \A u \in Tasks : ~Moved(u)
      BY <3>1 DEF Alone, Moved, Applying
    <3>3. Steady /\ answer[t].tree = tree
      BY <2>3, <3>2 DEF MovesMatch
    <3>. QED BY <3>3 DEF Steady, NoCommand, Changing
  <2>. QED BY <2>1, <2>2, <2>3 DEF AfterLate
<1>. QED BY <1>1, <1>3, <1>4

LEMMA LInvKept ==
  ASSUME PatientUser, CInv, LInv, [SessionNext]_<<vars, sessionVars>>
  PROVE  LInv'
<1>1. CASE SessionNext
  <2>1. SInv'
    BY <1>1, STypeKept, LinkedKept DEF LInv, SInv
  <2>. QED BY <1>1, <2>1, OneLateKept, GoneKept DEF LInv, SInv
<1>2. CASE UNCHANGED <<vars, sessionVars>>
  <2>1. UNCHANGED <<vars, stdin, stdout, pending, at, answer, mv, late, disposed>>
    BY <1>2 DEF sessionVars, pipes, tasks, controller
  <2>2. SType'
    BY <2>1 DEF LInv, SInv, SType
  <2>3. InTime' => Linked'
    BY <1>2, <2>1, StutterLinked DEF LInv, SInv, InTime
  <2>4. OneLate'
    BY <2>1, StutterLate DEF LInv, OneLate
  <2>5. Gone'
    BY <2>1 DEF LInv, Gone, NoLine, StartGame
  <2>. QED BY <2>2, <2>3, <2>4, <2>5 DEF LInv, SInv
<1>. QED BY <1>1, <1>2

\* With a user who waits for the board, a move that a search found is sent while
\* the engine's tree is the position it was found in and no other position is on
\* its way, though one answer may have been given up for and come after all: if
\* it was none of a search, each search is the one that was asked for; if it was,
\* what a forgotten search says is about the same tree, or arrives before the
\* readyok of the move that changes it.
THEOREM MovesFit == ASSUME PatientUser PROVE SessionSpec => MoveForThisPosition
<1>1. SessionInit => LInv
  <2>. SUFFICES ASSUME SessionInit PROVE LInv
    OBVIOUS
  <2>1. late = 0 /\ disposed = FALSE
    BY DEF SessionInit
  <2>. QED BY <2>1, InitSInv DEF LInv, OneLate, Gone
<1>2. CInv /\ LInv /\ [SessionNext]_<<vars, sessionVars>> => LInv'
  BY LInvKept
<1>3. LInv /\ [SessionNext]_<<vars, sessionVars>>
      => [\A t \in Tasks : late <= 1 /\ at[t] = "bestMove" /\ at'[t] = "applyEngine" =>
            /\ answer[t].tree = tree
            /\ \A i \in DOMAIN stdin : stdin[i].cmd # "position"]_<<vars, sessionVars>>
  <2>. SUFFICES ASSUME LInv, SessionNext, NEW t \in Tasks, late <= 1, at[t] = "bestMove",
                       at'[t] = "applyEngine"
                PROVE  answer[t].tree = tree /\ \A i \in DOMAIN stdin : stdin[i].cmd # "position"
    OBVIOUS
  <2>1. answer[t] # NoLine
    BY MoveIsKnown DEF LInv, SInv
  <2>. QED BY <2>1, MoveFits
<1>. QED BY <1>1, <1>2, <1>3, SessionCInv, PTL DEF SessionSpec, MoveForThisPosition
=============================================================================
