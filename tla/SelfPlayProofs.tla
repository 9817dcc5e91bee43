---------------------------- MODULE SelfPlayProofs ----------------------------
(***************************************************************************)
(* Proofs about SelfPlay for any number of workers, games and plies, and   *)
(* any number of kills and failing operations.                             *)
(*                                                                         *)
(* FilesAreWhole is not inductive: that the file under a temporary name is *)
(* whole when it is renamed (TmpIsWhole) rests on nobody else writing to   *)
(* that name, that is on nobody else playing that game (OneEach), which    *)
(* rests on the numbers handed out so far being below the counter          *)
(* (GamesAreTaken).  GamesAccounted rests on the same two, and on a worker *)
(* counting a game only once it left its file or dropped it (Settled).     *)
(*                                                                         *)
(* ProducersCounted needs what a worker that leaves has left of its calls  *)
(* (Producing), ResignationEarned that resign_streak is, for each side,    *)
(* the number of late positions it has called lost since the last that it  *)
(* did not (StreakCounts).                                                 *)
(***************************************************************************)
EXTENDS SelfPlay, FiniteSetTheorems, TLAPS

AtWork == {"play", "open", "write", "compress", "remove", "rename", "clean", "tally"}
Places == AtWork \cup {"unborn", "loop", "take", "leave", "leaving", "gone"}
Results == {"undecided", "draw", "over", "white_won", "black_won"}
Stack == [pc : Places, g : Nat,
          records : Seq([black : BOOLEAN, lost : BOOLEAN]),
          streak : [1 .. 2 -> Nat], allow_resign : BOOLEAN,
          result : Results,
          resigned : BOOLEAN, failed : BOOLEAN, left : Nat, to_leave : Int]
File == [run : Nat, g : Nat, missing : Nat]

InPlay == {work[w].g : w \in Playing}
Taken == {g \in Games : g < next_game}
Over == Taken \ InPlay

TypeOK ==
  /\ files \in [Games -> File] /\ tmp \in [Games -> File]
  /\ next_game \in Nat /\ done \in Nat /\ runs \in Nat
  /\ work \in [Workers -> Stack]
  /\ dropped \subseteq Games

GamesAreTaken == \A w \in Playing : work[w].g \in Taken
OneEach == \A v, w \in Playing : work[v].g = work[w].g => v = w

\* What a worker has written so far is under the temporary name of its game.
TmpIsWhole ==
  \A w \in Workers :
    /\ At(w) = "write" /\ ~work[w].failed => tmp[work[w].g] = FileWithout(w, work[w].left)
    /\ At(w) \in {"remove", "rename"} => tmp[work[w].g] = FileWithout(w, 0)

\* This run left the game's file, or dropped it.
IsSettled(g) == g \in dropped \/ files[g].run = runs
Settled ==
  /\ \A g \in Over : IsSettled(g)
  /\ \A w \in Workers : At(w) = "tally" => IsSettled(work[w].g)
DoneCounts == done = Cardinality(Over)

IInv ==
  /\ TypeOK
  /\ GamesAreTaken
  /\ OneEach
  /\ TmpIsWhole
  /\ FilesAreWhole
  /\ Settled
  /\ DoneCounts
-----------------------------------------------------------------------------
(* Games are finitely many, and so is what is over of them.                *)

LEMMA OverFinite == IsFiniteSet(Over) /\ Cardinality(Over) \in Nat
<1>1. IsFiniteSet(Games)
  BY FS_Interval, SelfPlayAssumption DEF Games
<1>. QED BY <1>1, FS_Subset, FS_CardinalityType DEF Over, Taken

\* Playing is stated with the places a worker has a game in.
LEMMA PlayingIs == Playing = {w \in Workers : work[w].pc \in AtWork}
BY DEF Playing, At, AtWork

LEMMA IdleType == Idle \in Stack
<1>1. <<0, 0>> \in [1 .. 2 -> Nat]
  OBVIOUS
<1>2. <<>> \in Seq([black : BOOLEAN, lost : BOOLEAN])
  OBVIOUS
<1>. QED BY <1>1, <1>2 DEF Idle, Stack, Places, Results

\* What EXCEPT makes of a stack, in the shapes the actions use.
LEMMA Moved ==
  ASSUME NEW s \in Stack, NEW p \in Places
  PROVE  /\ [s EXCEPT !.pc = p] \in Stack
         /\ [s EXCEPT !.pc = p].pc = p /\ [s EXCEPT !.pc = p].g = s.g
BY DEF Stack

LEMMA Failed ==
  ASSUME NEW s \in Stack, NEW p \in Places
  PROVE  LET r == [s EXCEPT !.pc = p, !.failed = TRUE]
         IN  r \in Stack /\ r.pc = p /\ r.g = s.g /\ r.failed
BY DEF Stack

LEMMA Decided ==
  ASSUME NEW s \in Stack, NEW a \in Results
  PROVE  LET r == [s EXCEPT !.pc = "open", !.result = a]
         IN  r \in Stack /\ r.pc = "open" /\ r.g = s.g
<1>1. "open" \in Places
  BY DEF Places, AtWork
<1>. QED BY <1>1 DEF Stack

LEMMA Resigned ==
  ASSUME NEW s \in Stack, NEW a \in Results
  PROVE  LET r == [s EXCEPT !.pc = "open", !.result = a, !.resigned = TRUE]
         IN  r \in Stack /\ r.pc = "open" /\ r.g = s.g
<1>1. "open" \in Places
  BY DEF Places, AtWork
<1>. QED BY <1>1 DEF Stack

LEMMA Handed ==
  ASSUME NEW p \in Places, NEW k \in Nat, NEW may \in BOOLEAN
  PROVE  LET r == [Idle EXCEPT !.pc = p, !.g = k, !.allow_resign = may]
         IN  r \in Stack /\ r.pc = p /\ r.g = k
BY IdleType DEF Stack

-----------------------------------------------------------------------------
(* A step of one worker, from its stack before and after.                  *)

LEMMA OneStack ==
  ASSUME TypeOK, NEW w \in Workers, NEW r \in Stack, Become(w, r)
  PROVE  /\ work' \in [Workers -> Stack]
         /\ work'[w] = r
         /\ \A v \in Workers : v # w => work'[v] = work[v]
BY DEF TypeOK, Become

\* It keeps its game, or has none before and after: so does everybody.
LEMMA SameGames ==
  ASSUME TypeOK, GamesAreTaken, OneEach, NEW w \in Workers, NEW r \in Stack, Become(w, r),
         \/ work[w].pc \in AtWork /\ r.pc \in AtWork /\ r.g = work[w].g
         \/ work[w].pc \notin AtWork /\ r.pc \notin AtWork,
         UNCHANGED next_game
  PROVE  /\ Playing' = Playing /\ InPlay' = InPlay /\ Taken' = Taken /\ Over' = Over
         /\ GamesAreTaken' /\ OneEach'
<1>1. /\ work'[w] = r
      /\ \A v \in Workers : v # w => work'[v] = work[v]
  BY OneStack
<1>2. Playing' = Playing
  BY <1>1, PlayingIs DEF Playing, At, AtWork
<1>3. \A v \in Playing : work'[v].g = work[v].g
  BY <1>1, PlayingIs
<1>4. InPlay' = InPlay
  BY <1>2, <1>3 DEF InPlay
<1>5. Taken' = Taken
  BY DEF Taken
<1>6. GamesAreTaken' /\ OneEach'
  BY <1>2, <1>3, <1>5 DEF GamesAreTaken, OneEach
<1>. QED BY <1>2, <1>4, <1>5, <1>6 DEF Over

\* A worker without a game leaves the files alone.
LEMMA IdleStep ==
  ASSUME IInv, NEW w \in Workers, NEW r \in Stack, Become(w, r),
         work[w].pc \notin AtWork, r.pc \notin AtWork,
         UNCHANGED <<disk, next_game, done, runs, dropped>>
  PROVE  IInv'
<1>1. /\ work' \in [Workers -> Stack]
      /\ work'[w] = r
      /\ \A v \in Workers : v # w => work'[v] = work[v]
  BY OneStack DEF IInv
<1>2. Over' = Over /\ GamesAreTaken' /\ OneEach'
  BY SameGames DEF IInv
<1>3. TypeOK'
  BY <1>1 DEF IInv, TypeOK, disk
<1>4. TmpIsWhole'
  BY <1>1 DEF IInv, TmpIsWhole, FileWithout, At, AtWork, disk
<1>5. FilesAreWhole'
  BY DEF IInv, FilesAreWhole, disk
<1>6. Settled'
  BY <1>1, <1>2 DEF IInv, Settled, IsSettled, At, AtWork, disk
<1>7. DoneCounts'
  BY <1>2 DEF IInv, DoneCounts
<1>. QED BY <1>2, <1>3, <1>4, <1>5, <1>6, <1>7 DEF IInv

\* A worker with a game touches the files of that game only, and leaves what
\* the place it goes to needs.
LEMMA GameStep ==
  ASSUME IInv, NEW w \in Workers, NEW r \in Stack, Become(w, r),
         work[w].pc \in AtWork, r.pc \in AtWork, r.g = work[w].g,
         UNCHANGED <<next_game, done, runs>>,
         files' \in [Games -> File], tmp' \in [Games -> File], dropped' \subseteq Games,
         \A g \in Games : g # r.g => files'[g] = files[g] /\ tmp'[g] = tmp[g],
         dropped \subseteq dropped',
         files'[r.g] # None => files'[r.g].g = r.g /\ files'[r.g].missing = 0,
         r.pc = "write" /\ ~r.failed =>
           tmp'[r.g] = [run |-> runs, g |-> r.g, missing |-> r.left],
         r.pc \in {"remove", "rename"} =>
           tmp'[r.g] = [run |-> runs, g |-> r.g, missing |-> 0],
         r.pc = "tally" => r.g \in dropped' \/ files'[r.g].run = runs
  PROVE  IInv'
<1>1. /\ work' \in [Workers -> Stack]
      /\ work'[w] = r
      /\ \A v \in Workers : v # w => work'[v] = work[v]
  BY OneStack DEF IInv
<1>2. Over' = Over /\ GamesAreTaken' /\ OneEach'
  BY SameGames DEF IInv
<1>3. w \in Playing /\ r.g \in Games /\ r.g \notin Over
  BY PlayingIs DEF IInv, GamesAreTaken, Over, InPlay, Taken
<1>4. \A v \in Playing : v # w => work[v].g \in Games /\ work[v].g # r.g
  BY <1>3 DEF IInv, GamesAreTaken, OneEach, Taken
<1>5. \A v \in Workers : v # w /\ work[v].pc \in AtWork =>
        /\ files'[work[v].g] = files[work[v].g]
        /\ tmp'[work[v].g] = tmp[work[v].g]
  BY <1>4, PlayingIs
<1>6. TypeOK'
  BY <1>1 DEF IInv, TypeOK
<1>7. TmpIsWhole'
  BY <1>1, <1>5, SMTT(30) DEF IInv, TmpIsWhole, FileWithout, At, AtWork
<1>8. FilesAreWhole'
  BY DEF IInv, FilesAreWhole
<1>9. Settled'
  <2>1. \A g \in Over : IsSettled(g)'
    BY <1>3 DEF IInv, Settled, IsSettled, Over, Taken
  <2>2. \A v \in Workers : At(v)' = "tally" => IsSettled(work[v].g)'
    BY <1>1, <1>5 DEF IInv, Settled, IsSettled, At, AtWork
  <2>. QED BY <1>2, <2>1, <2>2 DEF Settled
<1>10. DoneCounts'
  BY <1>2 DEF IInv, DoneCounts
<1>. QED BY <1>2, <1>6, <1>7, <1>8, <1>9, <1>10 DEF IInv
-----------------------------------------------------------------------------
(* The initial state, and a new start.                                     *)

LEMMA InitInv == Init => IInv
<1> SUFFICES ASSUME Init PROVE IInv
  OBVIOUS
<1>1. None \in File
  BY DEF None, File
<1>2. work \in [Workers -> Stack] /\ \A w \in Workers : work[w].pc = "unborn"
  BY IdleType DEF Init, Idle
<1>3. Playing = {} /\ Over = {}
  BY <1>2, PlayingIs DEF Init, AtWork, Over, Taken, Games
<1>4. TypeOK
  BY <1>1, <1>2 DEF Init, TypeOK
<1>5. GamesAreTaken /\ OneEach
  BY <1>3 DEF GamesAreTaken, OneEach
<1>6. TmpIsWhole
  BY <1>2 DEF TmpIsWhole, At
<1>7. FilesAreWhole
  BY DEF Init, FilesAreWhole
<1>8. Settled
  BY <1>2, <1>3 DEF Settled, At
<1>9. DoneCounts
  BY <1>3, FS_EmptySet DEF Init, DoneCounts
<1>. QED BY <1>4, <1>5, <1>6, <1>7, <1>8, <1>9 DEF IInv

LEMMA KilledInv == IInv /\ Killed => IInv'
<1> SUFFICES ASSUME IInv, Killed PROVE IInv'
  OBVIOUS
<1>1. work' \in [Workers -> Stack] /\ \A w \in Workers : work'[w].pc = "unborn"
  BY IdleType DEF Killed, Idle
<1>2. Playing' = {} /\ Over' = {}
  BY <1>1 DEF Playing, At, Killed, Over, Taken, Games
<1>3. TypeOK'
  BY <1>1 DEF IInv, TypeOK, Killed, disk
<1>4. GamesAreTaken' /\ OneEach'
  BY <1>2 DEF GamesAreTaken, OneEach
<1>5. TmpIsWhole'
  BY <1>1 DEF TmpIsWhole, At
<1>6. FilesAreWhole'
  BY DEF IInv, FilesAreWhole, Killed, disk
<1>7. Settled'
  BY <1>1, <1>2 DEF Settled, At
<1>8. DoneCounts'
  BY <1>2, FS_EmptySet DEF Killed, DoneCounts
<1>. QED BY <1>3, <1>4, <1>5, <1>6, <1>7, <1>8 DEF IInv

-----------------------------------------------------------------------------
(* The steps of a worker that plays no game.                               *)

LEMMA OutsideInv ==
  ASSUME IInv, NEW w \in Workers,
         CheckStop(w) \/ WorkerEnds(w) \/ ProducerLeaves(w) \/ StartWorker(w)
  PROVE  IInv'
<1>0. work[w] \in Stack
  BY DEF IInv, TypeOK
<1>1. CASE CheckStop(w)
  <2>. DEFINE r == [work[w] EXCEPT !.pc = IF soft_stop THEN "leave" ELSE "take"]
  <2>1. r \in Stack /\ r.pc \in {"leave", "take"}
    BY <1>0 DEF Stack, Places
  <2>2. work[w].pc \notin AtWork /\ r.pc \notin AtWork
    BY <1>1, <2>1 DEF CheckStop, At, AtWork
  <2>. QED BY <1>1, <2>1, <2>2, IdleStep DEF CheckStop, Goto, counters, world
<1>2. CASE WorkerEnds(w)
  <2>. DEFINE r == [Idle EXCEPT !.pc = "leaving", !.to_leave = ToLeave]
  <2>1. ToLeave \in Int
    BY SelfPlayAssumption DEF ToLeave
  <2>2. r \in Stack /\ r.pc = "leaving"
    BY <2>1, IdleType DEF Stack, Places
  <2>3. work[w].pc \notin AtWork /\ r.pc \notin AtWork
    BY <1>2, <2>2 DEF WorkerEnds, At, AtWork
  <2>. QED BY <1>2, <2>2, <2>3, IdleStep DEF WorkerEnds, world
<1>3. CASE ProducerLeaves(w)
  <2>. DEFINE k == work[w].to_leave - 1
              r == [work[w] EXCEPT !.to_leave = k,
                                   !.pc = IF k = 0 THEN "gone" ELSE "leaving"]
  <2>1. k \in Int
    BY <1>0 DEF Stack
  <2>2. r \in Stack /\ r.pc \in {"gone", "leaving"}
    <3>. HIDE DEF k
    <3>. QED BY <1>0, <2>1 DEF Stack, Places
  <2>3. work[w].pc \notin AtWork /\ r.pc \notin AtWork
    BY <1>3, <2>2 DEF ProducerLeaves, At, AtWork
  <2>. QED BY <1>3, <2>2, <2>3, IdleStep DEF ProducerLeaves, world
<1>4. CASE StartWorker(w)
  <2>. DEFINE r == [work[w] EXCEPT !.pc = "loop"]
  <2>1. r \in Stack /\ r.pc = "loop"
    BY <1>0 DEF Stack, Places
  <2>2. work[w].pc \notin AtWork /\ r.pc \notin AtWork
    BY <1>4, <2>1 DEF StartWorker, At, AtWork
  <2>. QED BY <1>4, <2>1, <2>2, IdleStep DEF StartWorker, Goto, counters, world
<1>. QED BY <1>1, <1>2, <1>3, <1>4

\* The number handed out is below the counter from now on, and was not before:
\* nobody else has it.
LEMMA TakeGameInv ==
  ASSUME IInv, NEW w \in Workers, TakeGame(w)
  PROVE  IInv'
<1>1. CASE next_game \in Games
  <2>. DEFINE may == next_game \in MayResign
              r == [Idle EXCEPT !.pc = "play", !.g = next_game, !.allow_resign = may]
  <2>1. r \in Stack /\ Become(w, r) /\ r.pc = "play" /\ r.g = next_game
    <3>1. next_game \in Nat
      BY DEF IInv, TypeOK
    <3>2. r \in Stack /\ r.pc = "play" /\ r.g = next_game
      <4>1. may \in BOOLEAN
        OBVIOUS
      <4>2. "play" \in Places
        BY DEF Places, AtWork
      <4>. HIDE DEF may
      <4>. QED BY <3>1, <4>1, <4>2, Handed, ZenonT(30)
    <3>. QED BY <1>1, <3>2 DEF TakeGame, NewGame
  <2>2. /\ work' \in [Workers -> Stack] /\ work'[w] = r
        /\ \A v \in Workers : v # w => work'[v] = work[v]
    BY <2>1, OneStack DEF IInv
  <2>3. /\ next_game' = next_game + 1
        /\ UNCHANGED <<files, tmp, done, runs, dropped>>
    BY DEF TakeGame, disk, world
  <2>4. Playing' = Playing \cup {w} /\ w \notin Playing
    BY <2>1, <2>2, PlayingIs DEF Playing, At, AtWork, TakeGame
  <2>5. /\ Taken' = Taken \cup {next_game}
        /\ next_game \notin Taken
    BY <1>1, <2>3 DEF Taken, Games, IInv, TypeOK
  <2>6. \A v \in Playing : work'[v] = work[v] /\ work[v].g \in Taken
    BY <2>2, <2>4, PlayingIs DEF IInv, GamesAreTaken
  <2>7. InPlay' = InPlay \cup {next_game}
    <3>1. InPlay' = {work'[v].g : v \in Playing \cup {w}}
      BY <2>4 DEF InPlay
    <3>2. work'[w].g = next_game /\ \A v \in Playing : work'[v].g = work[v].g
      BY <2>1, <2>2, <2>6
    <3>. QED BY <3>1, <3>2 DEF InPlay
  <2>8. Over' = Over
    BY <2>5, <2>7 DEF Over
  <2>9. GamesAreTaken' /\ OneEach'
    <3>1. work'[w].g = next_game
      BY <2>1, <2>2
    <3>2. GamesAreTaken'
      BY <2>4, <2>5, <2>6, <3>1 DEF GamesAreTaken
    <3>3. \A v \in Playing : work'[v].g # work'[w].g
      BY <2>5, <2>6, <3>1
    <3>4. OneEach'
      BY <2>4, <2>6, <3>3 DEF OneEach, IInv
    <3>. QED BY <3>2, <3>4
  <2>10. TypeOK'
    BY <2>2, <2>3 DEF IInv, TypeOK
  <2>11. TmpIsWhole'
    BY <2>1, <2>2, <2>3, ZenonT(30) DEF IInv, TmpIsWhole, FileWithout, At
  <2>12. FilesAreWhole' /\ DoneCounts'
    BY <2>3, <2>8 DEF IInv, FilesAreWhole, DoneCounts
  <2>13. Settled'
    BY <2>1, <2>2, <2>3, <2>8 DEF IInv, Settled, IsSettled, At
  <2>. QED BY <2>9, <2>10, <2>11, <2>12, <2>13 DEF IInv
<1>2. CASE next_game \notin Games
  <2>. DEFINE r == [work[w] EXCEPT !.pc = "leave"]
  <2>1. r \in Stack /\ Become(w, r) /\ r.pc = "leave" /\ work[w].pc = "take"
    BY <1>2, ZenonT(30) DEF TakeGame, Goto, At, Stack, Places, IInv, TypeOK
  <2>2. /\ work' \in [Workers -> Stack] /\ work'[w] = r
        /\ \A v \in Workers : v # w => work'[v] = work[v]
    BY <2>1, OneStack DEF IInv
  <2>3. /\ next_game' = next_game + 1
        /\ UNCHANGED <<files, tmp, done, runs, dropped>>
    BY DEF TakeGame, disk, world
  <2>4. Playing' = Playing
    BY <2>1, <2>2 DEF Playing, At
  <2>5. Taken' = Taken
    BY <1>2, <2>3, SelfPlayAssumption DEF Taken, Games, IInv, TypeOK
  <2>6. \A v \in Playing : work'[v] = work[v]
    BY <2>1, <2>2, PlayingIs DEF AtWork
  <2>7. InPlay' = InPlay /\ Over' = Over
    BY <2>4, <2>5, <2>6 DEF InPlay, Over
  <2>8. GamesAreTaken' /\ OneEach'
    BY <2>4, <2>5, <2>6 DEF GamesAreTaken, OneEach, IInv
  <2>9. TypeOK'
    BY <2>2, <2>3 DEF IInv, TypeOK
  <2>10. TmpIsWhole'
    BY <2>1, <2>2, <2>3 DEF IInv, TmpIsWhole, FileWithout, At
  <2>11. FilesAreWhole' /\ DoneCounts'
    BY <2>3, <2>7 DEF IInv, FilesAreWhole, DoneCounts
  <2>12. Settled'
    BY <2>1, <2>2, <2>3, <2>7 DEF IInv, Settled, IsSettled, At
  <2>. QED BY <2>8, <2>9, <2>10, <2>11, <2>12 DEF IInv
<1>. QED BY <1>1, <1>2

-----------------------------------------------------------------------------
(* The steps of a worker in its game.                                      *)

\* One that leaves the disk alone, and does not yet count the game.
LEMMA NoFileStep ==
  ASSUME IInv, NEW w \in Workers, NEW r \in Stack, Become(w, r),
         work[w].pc \in AtWork, r.pc \in AtWork \ {"tally"}, r.g = work[w].g,
         UNCHANGED <<disk, next_game, done, runs, dropped>>,
         r.pc = "write" => r.failed,
         r.pc \in {"remove", "rename"} =>
           tmp[r.g] = [run |-> runs, g |-> r.g, missing |-> 0]
  PROVE  IInv'
<1>1. r.g \in Games
  BY PlayingIs DEF IInv, GamesAreTaken, Taken
<1>2. files' \in [Games -> File] /\ tmp' \in [Games -> File] /\ dropped' \subseteq Games
  BY DEF IInv, TypeOK, disk
<1>3. files' = files /\ tmp' = tmp /\ dropped' = dropped
  BY DEF disk
<1>4. files'[r.g] # None => files'[r.g].g = r.g /\ files'[r.g].missing = 0
  BY <1>1, <1>3 DEF IInv, FilesAreWhole
<1>. QED BY <1>2, <1>3, <1>4, GameStep

\* One that writes the temporary file, but for its last k records.
LEMMA TmpStep ==
  ASSUME IInv, NEW w \in Workers, NEW r \in Stack, NEW k \in Nat,
         Become(w, r), CreateTmp(w, k),
         work[w].pc \in AtWork, r.pc \in AtWork \ {"tally"}, r.g = work[w].g,
         UNCHANGED <<files, next_game, done, runs, dropped>>,
         r.pc = "write" => r.failed \/ k = r.left,
         r.pc \in {"remove", "rename"} => k = 0
  PROVE  IInv'
<1>1. r.g \in Games
  BY PlayingIs DEF IInv, GamesAreTaken, Taken
<1>2. [run |-> runs, g |-> r.g, missing |-> k] \in File
  BY <1>1 DEF IInv, TypeOK, File, Games
<1>3. tmp' = [tmp EXCEPT ![r.g] = [run |-> runs, g |-> r.g, missing |-> k]]
  BY DEF CreateTmp, FileWithout
<1>4. /\ tmp' \in [Games -> File]
      /\ tmp'[r.g] = [run |-> runs, g |-> r.g, missing |-> k]
      /\ \A g \in Games : g # r.g => tmp'[g] = tmp[g]
  BY <1>1, <1>2, <1>3 DEF IInv, TypeOK
<1>5. files' \in [Games -> File] /\ dropped' \subseteq Games
  BY DEF IInv, TypeOK
<1>6. files'[r.g] # None => files'[r.g].g = r.g /\ files'[r.g].missing = 0
  BY <1>1 DEF IInv, FilesAreWhole
<1>. QED BY <1>4, <1>5, <1>6, GameStep

\* A turn that searched its position, with what the search said of it.
Judged(w) == work[w].allow_resign /\ Ply(w) >= ResignEarliest
Turn(w, x, lost) ==
  LET r == work[w]
      black == BlackToMove(w)
  IN  /\ x \in Stack /\ x.g = r.g /\ x.allow_resign = r.allow_resign
      /\ x.records = Append(r.records, [black |-> black, lost |-> lost])
      /\ x.streak = IF Judged(w) THEN Streak(r.streak, black, lost) ELSE r.streak
      /\ IF Judged(w) /\ lost /\ x.streak[Side(black)] >= ResignConsecutive
         THEN x.pc = "open" /\ x.result = Winner(black) /\ x.resigned = TRUE
         ELSE x.pc \in {"play", "open"} /\ x.resigned = r.resigned

LEMMA TurnIs ==
  ASSUME TypeOK, NEW w \in Workers, PlayPly(w),
         ~Become(w, [work[w] EXCEPT !.pc = "open", !.result = "draw"])
  PROVE  \E lost \in BOOLEAN, x \in Stack : Become(w, x) /\ Turn(w, x, lost)
<1>. DEFINE black == BlackToMove(w)
            streak(lost) == IF Judged(w) THEN Streak(work[w].streak, black, lost)
                            ELSE work[w].streak
            recorded(lost) == [work[w] EXCEPT
              !.records = Append(@, [black |-> black, lost |-> lost]),
              !.streak = streak(lost)]
            resigns(lost) == Judged(w) /\ lost /\ streak(lost)[Side(black)] >= ResignConsecutive
            r1(lost) == [recorded(lost) EXCEPT !.pc = "open", !.result = Winner(black),
                                               !.resigned = TRUE]
            r2(lost) == [recorded(lost) EXCEPT !.pc = "open", !.result = "over"]
<1>1. PICK lost \in BOOLEAN :
        IF resigns(lost) THEN Become(w, r1(lost))
        ELSE Become(w, recorded(lost)) \/ Become(w, r2(lost))
  BY DEF PlayPly, Judged
<1>2. work[w] \in Stack /\ work[w].pc = "play"
  BY DEF TypeOK, PlayPly, At
<1>3. black \in BOOLEAN
  BY DEF BlackToMove
<1>4. streak(lost) \in [1 .. 2 -> Nat]
  BY <1>2, <1>3, SMTT(30) DEF Stack, Streak, Side
<1>5. Append(work[w].records, [black |-> black, lost |-> lost])
        \in Seq([black : BOOLEAN, lost : BOOLEAN])
  BY <1>2, <1>3 DEF Stack
<1>6. /\ recorded(lost) \in Stack /\ recorded(lost).g = work[w].g
      /\ recorded(lost).pc = "play"
      /\ recorded(lost).allow_resign = work[w].allow_resign
      /\ recorded(lost).resigned = work[w].resigned
      /\ recorded(lost).records = Append(work[w].records, [black |-> black, lost |-> lost])
      /\ recorded(lost).streak = streak(lost)
  <2>. HIDE DEF streak, black
  <2>. QED BY <1>2, <1>4, <1>5 DEF Stack
<1>7. Winner(black) \in Results /\ "over" \in Results /\ "open" \in Places
  BY DEF Winner, Results, Places, AtWork
<1>8. CASE resigns(lost)
  <2>1. /\ r1(lost) \in Stack /\ r1(lost).g = work[w].g /\ r1(lost).pc = "open"
        /\ r1(lost).result = Winner(black) /\ r1(lost).resigned = TRUE
        /\ r1(lost).allow_resign = work[w].allow_resign
        /\ r1(lost).records = recorded(lost).records
        /\ r1(lost).streak = streak(lost)
    <3>. HIDE DEF recorded, black, streak
    <3>. QED BY <1>6, <1>7 DEF Stack
  <2>2. Become(w, r1(lost)) /\ Judged(w) /\ lost /\ streak(lost)[Side(black)] >= ResignConsecutive
    BY <1>1, <1>8
  <2>3. Turn(w, r1(lost), lost)
    <3>. HIDE DEF r1, recorded
    <3>. QED BY <1>6, <2>1, <2>2 DEF Turn
  <2>. QED BY <2>1, <2>2, <2>3
<1>9. CASE ~resigns(lost) /\ Become(w, recorded(lost))
  <2>1. Turn(w, recorded(lost), lost)
    <3>. HIDE DEF recorded
    <3>. QED BY <1>6, <1>9 DEF Turn
  <2>. QED BY <1>6, <1>9, <2>1
<1>10. CASE ~resigns(lost) /\ Become(w, r2(lost))
  <2>1. /\ r2(lost) \in Stack /\ r2(lost).g = work[w].g /\ r2(lost).pc = "open"
        /\ r2(lost).resigned = work[w].resigned
        /\ r2(lost).allow_resign = work[w].allow_resign
        /\ r2(lost).records = recorded(lost).records
        /\ r2(lost).streak = streak(lost)
    <3>. HIDE DEF recorded, black, streak
    <3>. QED BY <1>6, <1>7 DEF Stack
  <2>2. Turn(w, r2(lost), lost)
    <3>. HIDE DEF r2, recorded
    <3>. QED BY <1>6, <1>10, <2>1 DEF Turn
  <2>. QED BY <1>10, <2>1, <2>2
<1>. QED BY <1>1, <1>8, <1>9, <1>10

LEMMA PlyIs ==
  ASSUME TypeOK, NEW w \in Workers, PlayPly(w) \/ CutOff(w)
  PROVE  \E r \in Stack : Become(w, r) /\ r.pc \in {"play", "open"} /\ r.g = work[w].g
<1>1. CASE Become(w, [work[w] EXCEPT !.pc = "open", !.result = "draw"])
  <2>. DEFINE r == [work[w] EXCEPT !.pc = "open", !.result = "draw"]
  <2>1. r \in Stack /\ r.pc = "open" /\ r.g = work[w].g
    BY Decided DEF TypeOK, Results
  <2>. QED BY <1>1, <2>1
<1>2. CASE ~Become(w, [work[w] EXCEPT !.pc = "open", !.result = "draw"])
  BY <1>2, TurnIs DEF CutOff, Turn
<1>. QED BY <1>1, <1>2

LEMMA PlayInv ==
  ASSUME IInv, NEW w \in Workers, PlayPly(w) \/ CutOff(w)
  PROVE  IInv'
<1>1. /\ work[w].pc \in AtWork
      /\ UNCHANGED <<disk, next_game, done, runs, dropped>>
  BY DEF PlayPly, CutOff, At, AtWork, counters, world
<1>2. PICK r \in Stack : Become(w, r) /\ r.pc \in {"play", "open"} /\ r.g = work[w].g
  BY PlyIs DEF IInv
<1>. QED BY <1>1, <1>2, NoFileStep DEF AtWork

\* What Works and Fails make of the stack of a worker in its game.
LEMMA WorksIs ==
  ASSUME IInv, NEW w \in Workers, NEW p \in Places, Goto(w, p)
  PROVE  \E r \in Stack : Become(w, r) /\ r.pc = p /\ r.g = work[w].g
<1>. DEFINE r == [work[w] EXCEPT !.pc = p]
<1>1. work[w] \in Stack
  BY DEF IInv, TypeOK
<1>2. r \in Stack /\ r.pc = p /\ r.g = work[w].g
  BY <1>1, Moved
<1>. QED BY <1>2 DEF Goto

LEMMA FailsIs ==
  ASSUME IInv, NEW w \in Workers, NEW p \in Places, Fails(w, p)
  PROVE  \E r \in Stack : Become(w, r) /\ r.pc = p /\ r.g = work[w].g /\ r.failed
<1>. DEFINE r == [work[w] EXCEPT !.pc = p, !.failed = TRUE]
<1>1. work[w] \in Stack
  BY DEF IInv, TypeOK
<1>2. r \in Stack /\ r.pc = p /\ r.g = work[w].g /\ r.failed
  BY <1>1 DEF Stack
<1>. QED BY <1>2 DEF Fails

LEMMA OpenInv ==
  ASSUME IInv, NEW w \in Workers, Open(w)
  PROVE  IInv'
<1>1. PICK ok \in BOOLEAN :
        /\ Become(w, [Idle EXCEPT !.pc = IF xz THEN "compress" ELSE "write",
                                  !.g = work[w].g, !.left = Ply(w), !.failed = ~ok])
        /\ IF ok /\ ~xz THEN CreateTmp(w, Ply(w)) ELSE UNCHANGED tmp
        /\ xz => ok
  BY DEF Open
<1>2. /\ work[w].pc \in AtWork
      /\ UNCHANGED <<files, next_game, done, runs, dropped>>
  BY DEF Open, At, AtWork, counters
<1>3. work[w].g \in Nat /\ Ply(w) \in Nat
  BY DEF IInv, TypeOK, Stack, Ply
<1>. DEFINE k == Ply(w)
            p == IF xz THEN "compress" ELSE "write"
            g == work[w].g
            bad == ~ok
            r == [Idle EXCEPT !.pc = p, !.g = g, !.left = k, !.failed = bad]
<1>4. p \in AtWork /\ p \in Places /\ p \in {"compress", "write"} /\ (p = "compress" <=> xz)
  BY DEF AtWork, Places
<1>5. bad \in BOOLEAN
  OBVIOUS
<1>6. r \in Stack /\ r.pc = p /\ r.g = work[w].g /\ r.left = k /\ r.failed = bad
  <2>1. g \in Nat /\ k \in Nat
    BY <1>3
  <2>2. r \in Stack /\ r.pc = p /\ r.g = g /\ r.left = k /\ r.failed = bad
    <3>. HIDE DEF p, k, bad, g
    <3>. QED BY <2>1, <1>4, <1>5, IdleType DEF Stack
  <2>. QED BY <2>2
<1>7. Become(w, r)
  BY <1>1
<1>8. CASE ok /\ ~xz
  <2>1. CreateTmp(w, k)
    BY <1>1, <1>8
  <2>. HIDE DEF k, p, r
  <2>. QED BY <1>2, <1>3, <1>4, <1>6, <1>7, <2>1, TmpStep DEF k
<1>9. CASE ~(ok /\ ~xz)
  <2>1. UNCHANGED disk
    BY <1>1, <1>2, <1>9 DEF disk
  <2>2. p = "write" => bad
    BY <1>1, <1>4, <1>9
  <2>. HIDE DEF k, p, r, bad
  <2>. QED BY <1>2, <1>4, <1>6, <1>7, <2>1, <2>2, NoFileStep
<1>. QED BY <1>8, <1>9

LEMMA WriteChunkInv ==
  ASSUME IInv, NEW w \in Workers, WriteChunk(w)
  PROVE  IInv'
<1>1. /\ work[w].pc = "write" /\ work[w].pc \in AtWork /\ "write" \in Places
      /\ UNCHANGED <<files, next_game, done, runs, dropped>>
  BY DEF WriteChunk, At, AtWork, Places, counters
<1>2. CASE Fails(w, "write") /\ UNCHANGED tmp
  BY <1>1, <1>2, FailsIs, NoFileStep DEF AtWork, disk
<1>3. ASSUME Become(w, [work[w] EXCEPT !.left = work[w].left - 1]),
             CreateTmp(w, work[w].left - 1)
      PROVE  IInv'
  <2>. DEFINE k == work[w].left - 1
              r == [work[w] EXCEPT !.left = k]
  <2>1. k \in Nat /\ work[w] \in Stack
    BY DEF IInv, TypeOK, Stack, WriteChunk
  <2>2. r \in Stack /\ r.pc = "write" /\ r.g = work[w].g /\ r.left = k
    <3>. HIDE DEF k
    <3>. QED BY <1>1, <2>1 DEF Stack
  <2>3. Become(w, r) /\ CreateTmp(w, k)
    BY <1>3
  <2>. HIDE DEF k, r
  <2>. QED BY <1>1, <2>1, <2>2, <2>3, TmpStep DEF AtWork
<1>. QED BY <1>2, <1>3 DEF WriteChunk

\* It goes on to replace the old file only if all of the new one is written.
LEMMA CloseInv ==
  ASSUME IInv, NEW w \in Workers, Close(w)
  PROVE  IInv'
<1>1. /\ work[w].pc = "write" /\ work[w].pc \in AtWork
      /\ {"clean", "remove"} \subseteq Places \cap AtWork
      /\ UNCHANGED <<disk, next_game, done, runs, dropped>>
  BY DEF Close, At, AtWork, Places, counters
<1>2. CASE Goto(w, "clean") \/ Fails(w, "clean")
  <2>1. PICK r \in Stack : Become(w, r) /\ r.pc = "clean" /\ r.g = work[w].g
    BY <1>1, <1>2, WorksIs, FailsIs
  <2>. QED BY <1>1, <2>1, NoFileStep
<1>3. CASE Goto(w, "remove") /\ ~work[w].failed
  <2>1. tmp[work[w].g] = [run |-> runs, g |-> work[w].g, missing |-> 0]
    BY <1>1, <1>3 DEF IInv, TmpIsWhole, FileWithout, At, Close
  <2>. QED BY <1>1, <1>3, <2>1, WorksIs, NoFileStep DEF AtWork
<1>4. Works(w, Verdict(w)) \/ Fails(w, "clean")
  BY DEF Close
<1>5. CASE work[w].failed
  <2>1. Verdict(w) = "clean"
    BY <1>5 DEF Verdict
  <2>. QED BY <1>2, <1>4, <2>1 DEF Works
<1>6. CASE ~work[w].failed
  <2>1. Verdict(w) = "remove"
    BY <1>6 DEF Verdict
  <2>. QED BY <1>2, <1>3, <1>4, <1>6, <2>1 DEF Works
<1>. QED BY <1>5, <1>6

LEMMA CompressInv ==
  ASSUME IInv, NEW w \in Workers, Compress(w)
  PROVE  IInv'
<1>1. /\ work[w].pc = "compress" /\ work[w].pc \in AtWork
      /\ {"clean", "remove"} \subseteq Places \cap AtWork
      /\ UNCHANGED <<files, next_game, done, runs, dropped>>
  BY DEF Compress, At, AtWork, Places, counters
<1>2. CASE Goto(w, "remove") /\ CreateTmp(w, 0)
  BY <1>1, <1>2, WorksIs, TmpStep DEF AtWork
<1>3. CASE Fails(w, "clean") /\ UNCHANGED tmp
  BY <1>1, <1>3, FailsIs, NoFileStep DEF AtWork, disk
<1>4. ASSUME Fails(w, "clean"), NEW k \in 0 .. work[w].left, CreateTmp(w, k)
      PROVE  IInv'
  <2>1. k \in Nat
    BY DEF IInv, TypeOK, Stack
  <2>. QED BY <1>1, <1>4, <2>1, FailsIs, TmpStep DEF AtWork
<1>. QED BY <1>2, <1>3, <1>4 DEF Compress, Works

LEMMA RemoveOldInv ==
  ASSUME IInv, NEW w \in Workers, RemoveOld(w)
  PROVE  IInv'
<1>1. /\ work[w].pc = "remove" /\ work[w].pc \in AtWork /\ "rename" \in Places \cap AtWork
      /\ files' = [files EXCEPT ![work[w].g] = None] \/ files' = files
      /\ UNCHANGED <<tmp, next_game, done, runs, dropped>>
  BY DEF RemoveOld, At, AtWork, Places, counters
<1>2. PICK r \in Stack : Become(w, r) /\ r.pc = "rename" /\ r.g = work[w].g
  BY <1>1, WorksIs DEF RemoveOld
<1>3. r.g \in Games
  BY <1>1, <1>2, PlayingIs DEF IInv, GamesAreTaken, Taken
<1>4. None \in File
  BY DEF None, File
<1>5. /\ files' \in [Games -> File] /\ tmp' \in [Games -> File] /\ dropped' \subseteq Games
      /\ files'[r.g] = None \/ files'[r.g] = files[r.g]
      /\ \A g \in Games : g # r.g => files'[g] = files[g]
  BY <1>1, <1>2, <1>3, <1>4 DEF IInv, TypeOK
<1>6. files'[r.g] # None => files'[r.g].g = r.g /\ files'[r.g].missing = 0
  BY <1>3, <1>5 DEF IInv, FilesAreWhole
<1>7. tmp'[r.g] = [run |-> runs, g |-> r.g, missing |-> 0]
  BY <1>1, <1>2 DEF IInv, TmpIsWhole, FileWithout, At
<1>. QED BY <1>1, <1>2, <1>5, <1>6, <1>7, GameStep

LEMMA RenameInv ==
  ASSUME IInv, NEW w \in Workers, Rename(w)
  PROVE  IInv'
<1>1. /\ work[w].pc = "rename" /\ work[w].pc \in AtWork
      /\ {"clean", "tally"} \subseteq Places \cap AtWork
      /\ UNCHANGED <<next_game, done, runs, dropped>>
  BY DEF Rename, At, AtWork, Places, counters
<1>2. CASE Fails(w, "clean") /\ UNCHANGED disk
  BY <1>1, <1>2, FailsIs, NoFileStep DEF AtWork
<1>3. ASSUME Goto(w, "tally"),
             files' = [files EXCEPT ![work[w].g] = tmp[work[w].g]],
             tmp' = [tmp EXCEPT ![work[w].g] = None]
      PROVE  IInv'
  <2>1. PICK r \in Stack : Become(w, r) /\ r.pc = "tally" /\ r.g = work[w].g
    BY <1>1, <1>3, WorksIs
  <2>2. r.g \in Games
    BY <1>1, <2>1, PlayingIs DEF IInv, GamesAreTaken, Taken
  <2>3. None \in File
    BY DEF None, File
  <2>4. /\ files' \in [Games -> File] /\ tmp' \in [Games -> File]
        /\ files'[r.g] = tmp[r.g]
        /\ \A g \in Games : g # r.g => files'[g] = files[g] /\ tmp'[g] = tmp[g]
    BY <1>3, <2>1, <2>2, <2>3 DEF IInv, TypeOK
  <2>5. tmp[r.g] = [run |-> runs, g |-> r.g, missing |-> 0]
    BY <1>1, <2>1 DEF IInv, TmpIsWhole, FileWithout, At
  <2>6. dropped' \subseteq Games
    BY <1>1 DEF IInv, TypeOK
  <2>7. files'[r.g].g = r.g /\ files'[r.g].missing = 0 /\ files'[r.g].run = runs
    BY <2>4, <2>5
  <2>. QED BY <1>1, <2>1, <2>4, <2>6, <2>7, GameStep
<1>. QED BY <1>2, <1>3 DEF Rename, Works

LEMMA RemoveTmpInv ==
  ASSUME IInv, NEW w \in Workers, RemoveTmp(w)
  PROVE  IInv'
<1>1. /\ work[w].pc = "clean" /\ work[w].pc \in AtWork /\ "tally" \in Places \cap AtWork
      /\ tmp' = [tmp EXCEPT ![work[w].g] = None]
      /\ dropped' = dropped \cup {work[w].g}
      /\ UNCHANGED <<files, next_game, done, runs>>
  BY DEF RemoveTmp, At, AtWork, Places, counters, world
<1>2. PICK r \in Stack : Become(w, r) /\ r.pc = "tally" /\ r.g = work[w].g
  BY <1>1, WorksIs DEF RemoveTmp
<1>3. r.g \in Games
  BY <1>1, <1>2, PlayingIs DEF IInv, GamesAreTaken, Taken
<1>4. None \in File
  BY DEF None, File
<1>5. /\ files' \in [Games -> File] /\ tmp' \in [Games -> File] /\ dropped' \subseteq Games
      /\ \A g \in Games : g # r.g => tmp'[g] = tmp[g]
  BY <1>1, <1>2, <1>3, <1>4 DEF IInv, TypeOK
<1>6. files'[r.g] # None => files'[r.g].g = r.g /\ files'[r.g].missing = 0
  BY <1>1, <1>3 DEF IInv, FilesAreWhole
<1>. QED BY <1>1, <1>2, <1>5, <1>6, GameStep, ZenonT(30)

\* The game counted is settled, and nobody else plays it.
LEMMA TallyInv ==
  ASSUME IInv, NEW w \in Workers, Tally(w)
  PROVE  IInv'
<1>. DEFINE r == [Idle EXCEPT !.pc = "loop"]
            g == work[w].g
<1>1. r \in Stack /\ r.pc = "loop" /\ Become(w, r)
  <2>1. "loop" \in Places
    BY DEF Places
  <2>. QED BY <2>1, IdleType, Moved DEF Tally
<1>2. /\ work' \in [Workers -> Stack] /\ work'[w] = r
      /\ \A v \in Workers : v # w => work'[v] = work[v]
  BY <1>1, OneStack DEF IInv
<1>3. /\ work[w].pc = "tally" /\ w \in Playing
      /\ done' = done + 1
      /\ UNCHANGED <<files, tmp, next_game, runs, dropped>>
  BY PlayingIs DEF Tally, At, AtWork, disk, world
<1>4. Playing' = Playing \ {w}
  BY <1>1, <1>2, PlayingIs DEF Playing, At, AtWork
<1>5. Taken' = Taken /\ g \in Taken
  BY <1>3 DEF Taken, IInv, GamesAreTaken
<1>6. \A v \in Playing : v # w => work'[v] = work[v] /\ work[v].g # g
  BY <1>2, <1>3, PlayingIs DEF IInv, OneEach
<1>7. InPlay' = InPlay \ {g}
  <2>1. InPlay' = {work'[v].g : v \in Playing \ {w}}
    BY <1>4 DEF InPlay
  <2>2. \A v \in Playing \ {w} : work'[v].g = work[v].g /\ work[v].g # g
    BY <1>6
  <2>. QED BY <2>1, <2>2 DEF InPlay
<1>8. Over' = Over \cup {g} /\ g \notin Over
  <2>1. g \in InPlay
    BY <1>3 DEF InPlay
  <2>. QED BY <1>5, <1>7, <2>1 DEF Over
<1>9. DoneCounts'
  BY <1>3, <1>8, OverFinite, FS_AddElement DEF IInv, DoneCounts
<1>10. GamesAreTaken' /\ OneEach'
  BY <1>4, <1>5, <1>6 DEF GamesAreTaken, OneEach, IInv
<1>11. TypeOK'
  BY <1>2, <1>3 DEF IInv, TypeOK
<1>12. TmpIsWhole'
  BY <1>1, <1>2, <1>3 DEF IInv, TmpIsWhole, FileWithout, At
<1>13. FilesAreWhole'
  BY <1>3 DEF IInv, FilesAreWhole
<1>14. Settled'
  BY <1>1, <1>2, <1>3, <1>8 DEF IInv, Settled, IsSettled, At
<1>. QED BY <1>9, <1>10, <1>11, <1>12, <1>13, <1>14 DEF IInv

-----------------------------------------------------------------------------
(* Every step preserves the invariant.                                     *)

\* RunSelfPlay's own thread, the ticker and a soft stop touch none of this.
LEMMA ElsewhereInv ==
  ASSUME IInv, UNCHANGED <<disk, next_game, done, runs, work, dropped>>
  PROVE  IInv'
<1>1. Playing' = Playing /\ InPlay' = InPlay /\ Taken' = Taken
  BY DEF Playing, At, InPlay, Taken
<1>2. Over' = Over
  BY <1>1 DEF Over
<1>3. TypeOK' /\ FilesAreWhole' /\ DoneCounts'
  BY <1>2 DEF IInv, TypeOK, FilesAreWhole, DoneCounts, disk
<1>4. GamesAreTaken' /\ OneEach'
  BY <1>1 DEF IInv, GamesAreTaken, OneEach
<1>5. TmpIsWhole' /\ Settled'
  BY <1>2 DEF IInv, TmpIsWhole, FileWithout, Settled, IsSettled, At, disk
<1>. QED BY <1>3, <1>4, <1>5 DEF IInv

LEMMA NextInv == IInv /\ [Next]_vars => IInv'
<1> SUFFICES ASSUME IInv, [Next]_vars PROVE IInv'
  OBVIOUS
<1>1. CASE Killed
  BY <1>1, KilledInv
<1>2. ASSUME NEW w \in Workers, Work(w) PROVE IInv'
  BY <1>2, OutsideInv, TakeGameInv, PlayInv, OpenInv, WriteChunkInv, CloseInv,
     CompressInv, RemoveOldInv, RenameInv, RemoveTmpInv, TallyInv DEF Work
<1>3. CASE \E w \in Workers : StartWorker(w)
  BY <1>3, OutsideInv
<1>4. CASE EnterProducer \/ StartTicker \/ JoinWorkers \/ JoinTicker
  BY <1>4, ElsewhereInv
  DEF EnterProducer, StartTicker, JoinWorkers, JoinTicker, world, counters
<1>5. CASE TickerEnds \/ SoftStop
  BY <1>5, ElsewhereInv DEF TickerEnds, SoftStop, world, counters
<1>6. CASE Returned \/ UNCHANGED vars
  BY <1>6, ElsewhereInv DEF Returned, vars, world, counters
<1>. QED BY <1>1, <1>2, <1>3, <1>4, <1>5, <1>6 DEF Next, Main

\* The strengthened invariant: who plays which game, what is on the disk of it,
\* and what has become of the games that are over.
THEOREM Invariance == Spec => []IInv
<1>1. Init => IInv
  BY InitInv
<1>2. IInv /\ [Next]_vars => IInv'
  BY NextInv
<1>. QED BY <1>1, <1>2, PTL DEF Spec

\* Whatever fails and whenever the process is killed, a file under a game's
\* name is of that game and has each of its records (writer.cc, Finalize).
THEOREM FilesAreWholeHolds == Spec => []FilesAreWhole
<1>1. IInv => FilesAreWhole
  BY DEF IInv
<1>. QED BY <1>1, Invariance, PTL

\* Two workers never play the same game: as many games are open as workers play.
LEMMA AsManyAsPlay == IInv => Cardinality(InPlay) = Cardinality(Playing)
<1> SUFFICES ASSUME IInv PROVE Cardinality(InPlay) = Cardinality(Playing)
  OBVIOUS
<1>. DEFINE f == [w \in Playing |-> work[w].g]
<1>1. IsFiniteSet(Playing)
  BY FS_Subset, SelfPlayAssumption DEF Playing
<1>2. f \in Bijection(Playing, InPlay)
  BY DEF Bijection, Injection, IsInjective, Surjection, IInv, OneEach, InPlay
<1>. QED BY <1>1, <1>2, FS_Bijection DEF ExistsBijection

\* Every number taken from next_game is one game, played by one worker; what is
\* counted in done was left, whole, or reported as dropped (selfplay_driver.cc).
THEOREM GamesAccountedHolds == Spec => []GamesAccounted
<1>1. IInv => GamesAccounted
  <2> SUFFICES ASSUME IInv PROVE GamesAccounted
    OBVIOUS
  <2>1. InPlay \subseteq Taken
    BY DEF IInv, GamesAreTaken, InPlay
  <2>2. done = Cardinality(Over) /\ \A g \in Over : g \in dropped \/ files[g].run = runs
    BY DEF IInv, DoneCounts, Settled, IsSettled
  <2>. QED BY <2>1, <2>2, AsManyAsPlay DEF GamesAccounted, Over, Taken, InPlay
<1>. QED BY <1>1, Invariance, PTL

-----------------------------------------------------------------------------
(* The producers that the batching backend counts.                         *)

Leaving == {"leaving", "gone"}
Searching == {w \in Workers : work[w].pc \notin Leaving}
Calls == Workers \X (1 .. ThreadsPerGame)
Counted == {wk \in Calls : wk[1] \in Searching \/ wk[2] <= work[wk[1]].to_leave}

\* Nobody is born before all producers entered; a worker that leaves has between
\* one and all of its calls to make, one that is gone has none.
Producing ==
  /\ main = "enter" => \A w \in Workers : work[w].pc = "unborn"
  /\ main # "enter" => producers = Cardinality(Counted)
  /\ active_workers = Cardinality(Searching)
  /\ \A w \in Workers :
       /\ work[w].pc = "leaving" => work[w].to_leave \in 1 .. ThreadsPerGame
       /\ work[w].pc = "gone" => work[w].to_leave = 0

LEMMA ProducersCountedIs == Producing => ProducersCounted
<1>. DEFINE searching == {w \in Workers : At(w) \notin {"leaving", "gone"}}
            counted == {call \in Workers \X (1 .. ThreadsPerGame) :
                          call[1] \in searching \/ call[2] <= work[call[1]].to_leave}
<1>1. searching = Searching
  BY DEF Searching, Leaving, At
<1>2. counted = Counted
  BY <1>1 DEF Counted, Calls
<1>. QED BY <1>1, <1>2 DEF Producing, ProducersCounted

LEMMA CountedFinite ==
  /\ IsFiniteSet(Searching) /\ IsFiniteSet(Calls) /\ IsFiniteSet(Counted)
  /\ Cardinality(Searching) \in Nat /\ Cardinality(Counted) \in Nat
  /\ Cardinality(Calls) = Cardinality(Workers) * ThreadsPerGame
<1>1. IsFiniteSet(1 .. ThreadsPerGame) /\ Cardinality(1 .. ThreadsPerGame) = ThreadsPerGame
  BY FS_Interval, SelfPlayAssumption
<1>2. IsFiniteSet(Calls) /\ Cardinality(Calls) = Cardinality(Workers) * ThreadsPerGame
  BY <1>1, FS_Product, SelfPlayAssumption DEF Calls
<1>3. IsFiniteSet(Searching) /\ IsFiniteSet(Counted)
  BY <1>2, FS_Subset, SelfPlayAssumption DEF Searching, Counted
<1>. QED BY <1>2, <1>3, FS_CardinalityType

\* A new run, with everybody unborn.
LEMMA NewRunProducing ==
  ASSUME \A w \in Workers : work'[w].pc = "unborn", main' = "enter",
         active_workers' = Cardinality(Workers)
  PROVE  Producing'
<1>1. Searching' = Workers
  BY DEF Searching, Leaving
<1>. QED BY <1>1 DEF Producing

\* A step of a worker that has not begun to leave counts for nothing.
LEMMA SearchingStep ==
  ASSUME TypeOK, Producing, NEW w \in Workers, NEW r, Become(w, r),
         work[w].pc \notin Leaving, r.pc \notin Leaving,
         work[w].pc # "unborn" \/ main # "enter",
         UNCHANGED <<main, producers, active_workers>>
  PROVE  Producing'
<1>1. work'[w] = r /\ \A v \in Workers : v # w => work'[v] = work[v]
  BY DEF TypeOK, Become
<1>2. Searching' = Searching
  BY <1>1 DEF Searching
<1>3. \A v \in Workers : v \notin Searching => work'[v] = work[v]
  BY <1>1 DEF Searching
<1>4. Counted' = Counted
  BY <1>2, <1>3 DEF Counted, Calls
<1>5. main # "enter"
  BY DEF Producing
<1>6. \A v \in Workers : v # w \/ r.pc \notin {"leaving", "gone"}
  BY DEF Leaving
<1>. QED BY <1>1, <1>2, <1>4, <1>5, <1>6 DEF Producing, Leaving

\* Where a step of a worker leads it.
Leaves(w) == WorkerEnds(w) \/ ProducerLeaves(w)
Plays(w) == TakeGame(w) \/ PlayPly(w) \/ CutOff(w)
LeadsTo(w, r) ==
  /\ Become(w, r)
  /\ r.pc \in Leaving => Leaves(w)
  /\ r.pc \in {"play", "open"} => Plays(w)

LEMMA WorkIs ==
  ASSUME TypeOK, NEW w \in Workers, Work(w)
  PROVE  /\ \E r : LeadsTo(w, r)
         /\ work[w].pc # "unborn" /\ UNCHANGED main
         /\ ~Leaves(w) => work[w].pc \notin Leaving /\ UNCHANGED <<producers, active_workers>>
<1>. USE DEF Leaving, Leaves, Plays, LeadsTo
<1>1. \E r : LeadsTo(w, r)
  <2>0. work[w] \in Stack
    BY DEF TypeOK
  <2>1. ASSUME NEW p, p \notin Leaving \cup {"play", "open"}, Goto(w, p) \/ Fails(w, p)
        PROVE  \E r : LeadsTo(w, r)
    <3>. DEFINE r1 == [work[w] EXCEPT !.pc = p]
                r2 == [work[w] EXCEPT !.pc = p, !.failed = TRUE]
    <3>1. r1.pc = p /\ r2.pc = p
      BY <2>0 DEF Stack
    <3>2. Become(w, r1) \/ Become(w, r2)
      BY <2>1 DEF Goto, Fails
    <3>. HIDE DEF r1, r2
    <3>. QED BY <2>1, <3>1, <3>2
  <2>2. CASE CheckStop(w) \/ Close(w) \/ Compress(w) \/ RemoveOld(w) \/ Rename(w) \/ RemoveTmp(w)
    BY <2>1, <2>2 DEF CheckStop, Close, Compress, RemoveOld, Rename, RemoveTmp, Works, Verdict
  <2>3. CASE TakeGame(w)
    <3>. DEFINE r1 == [Idle EXCEPT !.pc = "play", !.g = next_game,
                                   !.allow_resign = next_game \in MayResign]
    <3>1. r1.pc = "play"
      BY DEF Idle
    <3>2. CASE Become(w, r1)
      <4>. HIDE DEF r1
      <4>. QED BY <2>3, <3>1, <3>2
    <3>. QED BY <2>1, <2>3, <3>2 DEF TakeGame, NewGame
  <2>4. CASE PlayPly(w) \/ CutOff(w)
    BY <2>4, PlyIs
  <2>5. CASE Open(w)
    <3>1. PICK ok \in BOOLEAN :
            Become(w, [Idle EXCEPT !.pc = IF xz THEN "compress" ELSE "write",
                                   !.g = work[w].g, !.left = Ply(w), !.failed = ~ok])
      BY <2>5 DEF Open
    <3>. DEFINE r == [Idle EXCEPT !.pc = IF xz THEN "compress" ELSE "write",
                                  !.g = work[w].g, !.left = Ply(w), !.failed = ~ok]
    <3>2. r.pc = IF xz THEN "compress" ELSE "write"
      BY DEF Idle
    <3>3. Become(w, r)
      BY <3>1
    <3>. HIDE DEF r
    <3>. QED BY <3>2, <3>3
  <2>6. CASE WriteChunk(w)
    <3>1. CASE Become(w, [work[w] EXCEPT !.left = work[w].left - 1])
      <4>1. PICK r : Become(w, r) /\ r.pc = "write"
        BY <2>0, <2>6, <3>1 DEF WriteChunk, At, Stack
      <4>. QED BY <4>1
    <3>. QED BY <2>1, <2>6, <3>1 DEF WriteChunk
  <2>7. CASE Tally(w)
    <3>1. PICK r : Become(w, r) /\ r.pc = "loop"
      BY <2>7 DEF Tally, Idle
    <3>. QED BY <3>1
  <2>8. CASE WorkerEnds(w) \/ ProducerLeaves(w)
    <3>. DEFINE k == work[w].to_leave - 1
                r1 == [Idle EXCEPT !.pc = "leaving", !.to_leave = ToLeave]
                r2 == [work[w] EXCEPT !.to_leave = k,
                                      !.pc = IF k = 0 THEN "gone" ELSE "leaving"]
    <3>1. r1.pc = "leaving" /\ r2.pc \in {"gone", "leaving"}
      BY <2>0 DEF Idle, Stack
    <3>2. Become(w, r1) \/ Become(w, r2)
      BY <2>8 DEF WorkerEnds, ProducerLeaves
    <3>. HIDE DEF r1, r2
    <3>. QED BY <2>8, <3>1, <3>2
  <2>. QED BY <2>2, <2>3, <2>4, <2>5, <2>6, <2>7, <2>8 DEF Work
<1>2. work[w].pc # "unborn" /\ UNCHANGED main
  BY DEF Work, CheckStop, TakeGame, PlayPly, CutOff, Open, WriteChunk, Close, Compress,
         RemoveOld, Rename, RemoveTmp, Tally, WorkerEnds, ProducerLeaves, At, driver
<1>3. ~Leaves(w) => work[w].pc \notin Leaving /\ UNCHANGED <<producers, active_workers>>
  BY DEF Work, CheckStop, TakeGame, PlayPly, CutOff, Open, WriteChunk, Close, Compress,
         RemoveOld, Rename, RemoveTmp, Tally, At, counters
<1>. QED BY <1>1, <1>2, <1>3

LEMMA WorkProducing ==
  ASSUME TypeOK, Producing, NEW w \in Workers,
         Work(w) /\ ~WorkerEnds(w) /\ ~ProducerLeaves(w)
  PROVE  Producing'
BY WorkIs, SearchingStep DEF LeadsTo, Leaves

\* A worker that ends is one fewer, with all its threads still counted ...
LEMMA WorkerEndsProducing ==
  ASSUME TypeOK, Producing, NEW w \in Workers, WorkerEnds(w)
  PROVE  Producing'
<1>. DEFINE r == [Idle EXCEPT !.pc = "leaving", !.to_leave = ThreadsPerGame]
<1>1. r.pc = "leaving" /\ r.to_leave = ThreadsPerGame /\ Become(w, r)
  BY DEF WorkerEnds, ToLeave, Idle
<1>2. work'[w] = r /\ \A v \in Workers : v # w => work'[v] = work[v]
  BY <1>1 DEF TypeOK, Become
<1>. HIDE DEF r
<1>3. /\ work[w].pc = "leave" /\ w \in Searching
      /\ active_workers' = active_workers - 1 /\ UNCHANGED <<main, producers>>
  BY DEF WorkerEnds, At, Searching, Leaving, driver
<1>4. Searching' = Searching \ {w}
  BY <1>1, <1>2 DEF Searching, Leaving
<1>5. Counted' = Counted
  <2>1. \A wk \in Calls : wk[1] \in Workers /\ wk[2] \in 1 .. ThreadsPerGame
    BY DEF Calls
  <2>2. ASSUME NEW wk \in Calls
        PROVE  (wk[1] \in Searching' \/ wk[2] <= work'[wk[1]].to_leave)
               <=> (wk[1] \in Searching \/ wk[2] <= work[wk[1]].to_leave)
    <3>1. CASE wk[1] = w
      BY <1>1, <1>2, <1>3, <2>1, <3>1, SelfPlayAssumption
    <3>2. CASE wk[1] # w
      BY <1>2, <1>4, <2>1, <3>2
    <3>. QED BY <3>1, <3>2
  <2>. QED BY <2>2 DEF Counted, Calls
<1>6. Cardinality(Searching') = Cardinality(Searching) - 1
  BY <1>3, <1>4, CountedFinite, FS_RemoveElement
<1>7. main # "enter"
  BY <1>3 DEF Producing
<1>. QED BY <1>1, <1>2, <1>3, <1>5, <1>6, <1>7, SelfPlayAssumption DEF Producing

\* ... of which each leaves by one call.
LEMMA ProducerLeavesProducing ==
  ASSUME TypeOK, Producing, NEW w \in Workers, ProducerLeaves(w)
  PROVE  Producing'
<1>. DEFINE k == work[w].to_leave
            r == [work[w] EXCEPT !.to_leave = k - 1, !.pc = IF k - 1 = 0 THEN "gone" ELSE "leaving"]
<1>1. /\ work[w].pc = "leaving" /\ k \in 1 .. ThreadsPerGame /\ w \notin Searching
      /\ main # "enter" /\ producers' = producers - 1 /\ UNCHANGED <<main, active_workers>>
  BY DEF ProducerLeaves, At, Searching, Leaving, Producing, driver
<1>2. /\ r.to_leave = k - 1
      /\ r.pc = IF k - 1 = 0 THEN "gone" ELSE "leaving"
      /\ Become(w, r)
  BY DEF TypeOK, Stack, ProducerLeaves
<1>3. work'[w] = r /\ \A v \in Workers : v # w => work'[v] = work[v]
  BY <1>2 DEF TypeOK, Become
<1>. HIDE DEF r
<1>4. Searching' = Searching
  BY <1>1, <1>2, <1>3 DEF Searching, Leaving
<1>5. Counted' = Counted \ {<<w, k>>} /\ <<w, k>> \in Counted
  <2>1. \A wk \in Calls : wk[1] \in Workers /\ wk[2] \in 1 .. ThreadsPerGame /\ wk = <<wk[1], wk[2]>>
    BY DEF Calls
  <2>2. ASSUME NEW wk \in Calls
        PROVE  wk \in Counted' <=> wk \in Counted /\ wk # <<w, k>>
    <3>1. CASE wk[1] = w
      <4>1. wk \in Counted' <=> wk[2] <= k - 1
        BY <1>1, <1>2, <1>3, <1>4, <3>1 DEF Counted, Calls
      <4>2. wk \in Counted <=> wk[2] <= k
        BY <1>1, <3>1 DEF Counted, Calls
      <4>3. wk # <<w, k>> <=> wk[2] # k
        BY <2>1, <3>1
      <4>4. wk[2] \in Int /\ k \in Int
        BY <1>1, <2>1
      <4>. QED BY <4>1, <4>2, <4>3, <4>4
    <3>2. CASE wk[1] # w
      BY <1>3, <1>4, <2>1, <3>2 DEF Counted, Calls
    <3>. QED BY <3>1, <3>2
  <2>3. <<w, k>> \in Calls /\ <<w, k>> \in Counted
    BY <1>1 DEF Counted, Calls
  <2>4. Counted \subseteq Calls /\ Counted' \subseteq Calls
    BY DEF Counted, Calls
  <2>. QED BY <2>2, <2>3, <2>4
<1>6. Cardinality(Counted') = Cardinality(Counted) - 1
  BY <1>5, CountedFinite, FS_RemoveElement
<1>7. \A v \in Workers :
        /\ work'[v].pc = "leaving" => work'[v].to_leave \in 1 .. ThreadsPerGame
        /\ work'[v].pc = "gone" => work'[v].to_leave = 0
  <2>1. CASE k = 1
    BY <1>2, <1>3, <2>1 DEF Producing
  <2>2. CASE k # 1
    <3>1. k - 1 \in 1 .. ThreadsPerGame /\ k - 1 # 0
      BY <1>1, <2>2, SelfPlayAssumption
    <3>. HIDE DEF k
    <3>. QED BY <1>2, <1>3, <3>1 DEF Producing
  <2>. QED BY <2>1, <2>2
<1>. QED BY <1>1, <1>4, <1>6, <1>7 DEF Producing

LEMMA MainProducing ==
  ASSUME TypeOK, Producing, Main \/ TickerEnds \/ SoftStop
  PROVE  Producing'
<1>1. ASSUME UNCHANGED work PROVE Searching' = Searching /\ Counted' = Counted
  BY <1>1 DEF Searching, Counted, Calls
<1>2. CASE EnterProducer
  <2>1. main' = "start" => producers' = Cardinality(Calls)
    BY <1>2, CountedFinite DEF EnterProducer
  <2>2. main' \in {"enter", "start"} /\ main = "enter" /\ UNCHANGED <<work, active_workers>>
    BY <1>2 DEF EnterProducer
  <2>3. Counted = Calls
    BY <2>2 DEF Counted, Calls, Searching, Leaving, Producing
  <2>. QED BY <1>1, <2>1, <2>2, <2>3 DEF Producing
<1>3. ASSUME NEW w \in Workers, StartWorker(w) PROVE Producing'
  <2>1. PICK r : Become(w, r) /\ r.pc = "loop"
    BY <1>3 DEF StartWorker, Goto, TypeOK, Stack
  <2>. QED BY <1>3, <2>1, SearchingStep DEF StartWorker, At, Leaving, driver, counters
<1>4. CASE StartTicker \/ JoinWorkers \/ JoinTicker \/ TickerEnds \/ SoftStop
  <2>1. UNCHANGED <<work, producers, active_workers>> /\ (main' = "enter" <=> main = "enter")
    BY <1>4 DEF StartTicker, JoinWorkers, JoinTicker, TickerEnds, SoftStop, counters
  <2>. QED BY <1>1, <2>1 DEF Producing
<1>. QED BY <1>2, <1>3, <1>4 DEF Main

\* What the batching backend takes for its producers is every thread that may
\* still submit, and those whose worker is about to leave (selfplay_driver.cc).
THEOREM ProducersCountedHolds == Spec => []ProducersCounted
<1>1. Init => Producing
  <2>. SUFFICES ASSUME Init PROVE Producing
    OBVIOUS
  <2>1. \A w \in Workers : work[w].pc = "unborn"
    BY DEF Init, Idle
  <2>2. Searching = Workers
    BY <2>1 DEF Searching, Leaving
  <2>. QED BY <2>1, <2>2 DEF Init, Producing
<1>2. IInv /\ Producing /\ [Next]_vars => Producing'
  <2>. SUFFICES ASSUME TypeOK, Producing, [Next]_vars PROVE Producing'
    BY DEF IInv
  <2>1. CASE Killed
    <3>1. \A w \in Workers : work'[w].pc = "unborn"
      BY <2>1 DEF Killed, Idle
    <3>. QED BY <2>1, <3>1, NewRunProducing DEF Killed
  <2>2. ASSUME NEW w \in Workers, Work(w) PROVE Producing'
    BY <2>2, WorkProducing, WorkerEndsProducing, ProducerLeavesProducing
  <2>3. CASE Main \/ TickerEnds \/ SoftStop
    BY <2>3, MainProducing
  <2>4. CASE Returned \/ UNCHANGED vars
    BY <2>4 DEF Returned, vars, driver, counters, Producing, Searching, Counted, Calls
  <2>. QED BY <2>1, <2>2, <2>3, <2>4 DEF Next
<1>. QED BY <1>1, <1>2, ProducersCountedIs, Invariance, PTL DEF Spec
-----------------------------------------------------------------------------
(* The side that gives up.                                                 *)

\* What resign_streak counts, of a game in which a side may resign; and who has
\* earned it.
SoFar(r, black) == Cardinality(LostSince(r.records, black))
Losing(r) == {black \in BOOLEAN : r.allow_resign /\ SoFar(r, black) >= ResignConsecutive}
StreakCounts(r) ==
  r.allow_resign => \A black \in BOOLEAN : r.streak[Side(black)] = SoFar(r, black)
Earned(r) ==
  /\ r.resigned <=> Losing(r) # {}
  /\ \A black \in Losing(r) : r.pc = "open" /\ r.result = Winner(black)
Resigning ==
  \A w \in Workers : work[w].pc \in {"play", "open"} =>
    StreakCounts(work[w]) /\ Earned(work[w])

LEMMA ResignationEarnedIs == Resigning => ResignationEarned
BY DEF Resigning, Earned, Losing, SoFar, ResignationEarned, At

\* The positions counted are numbers of plies, and finitely many.
Record == [black : BOOLEAN, lost : BOOLEAN]
LEMMA LostSinceFinite ==
  ASSUME NEW s \in Seq(Record), NEW black \in BOOLEAN
  PROVE  /\ LostSince(s, black) \subseteq 1 .. Len(s)
         /\ IsFiniteSet(LostSince(s, black))
         /\ Cardinality(LostSince(s, black)) \in Nat
<1>1. LostSince(s, black) \subseteq 1 .. Len(s)
  BY DEF LostSince, LateOf
<1>2. IsFiniteSet(1 .. Len(s))
  BY FS_Interval
<1>. QED BY <1>1, <1>2, FS_Subset, FS_CardinalityType

\* What one more position does to the count of a side.
LEMMA OneMore ==
  ASSUME NEW s \in Seq(Record), NEW black \in BOOLEAN, NEW lost \in BOOLEAN, NEW side \in BOOLEAN
  PROVE  LET t == Append(s, [black |-> black, lost |-> lost])
         IN  LostSince(t, side) =
               IF side # black \/ Len(s) < ResignEarliest THEN LostSince(s, side)
               ELSE IF lost THEN LostSince(s, side) \cup {Len(s) + 1} ELSE {}
<1>. DEFINE n == Len(s)
            t == Append(s, [black |-> black, lost |-> lost])
            counts == ~(side # black \/ n < ResignEarliest)
<1>1. /\ n \in Nat /\ ResignEarliest \in Nat
      /\ DOMAIN s = 1 .. n /\ DOMAIN t = 1 .. n + 1
      /\ t[n + 1] = [black |-> black, lost |-> lost]
      /\ \A i \in 1 .. n : t[i] = s[i]
  <2>1. [black |-> black, lost |-> lost] \in Record
    BY DEF Record
  <2>. QED BY <2>1, SelfPlayAssumption
<1>. HIDE DEF t, n
<1>2. LateOf(t, side) = IF counts THEN LateOf(s, side) \cup {n + 1} ELSE LateOf(s, side)
  <2>1. \A i \in 1 .. n : t[i] = s[i]
    BY <1>1
  <2>2. n + 1 > ResignEarliest /\ t[n + 1].black = side <=> counts
    BY <1>1 DEF n
  <2>. HIDE DEF counts
  <2>3. 1 .. n + 1 = (1 .. n) \cup {n + 1}
    BY <1>1
  <2>4. LateOf(t, side) = {i \in 1 .. n + 1 : i > ResignEarliest /\ t[i].black = side}
    BY <1>1 DEF LateOf
  <2>5. LateOf(s, side) = {i \in 1 .. n : i > ResignEarliest /\ t[i].black = side}
    BY <1>1 DEF LateOf
  <2>. QED BY <2>2, <2>3, <2>4, <2>5
<1>3. \A i \in LateOf(s, side) : i \in 1 .. n /\ i < n + 1 /\ t[i] = s[i]
  BY <1>1 DEF LateOf
<1>4. CASE ~counts
  BY <1>2, <1>3, <1>4 DEF LostSince, t, n
<1>5. CASE counts
  <2>1. LateOf(t, side) = LateOf(s, side) \cup {n + 1}
    BY <1>2, <1>5
  <2>2. t[n + 1].lost = lost
    BY <1>1
  <2>3. CASE lost
    <3>1. ASSUME NEW i \in LateOf(s, side)
          PROVE  i \in LostSince(t, side) <=> i \in LostSince(s, side)
      BY <1>3, <2>1, <2>2, <2>3 DEF LostSince
    <3>2. n + 1 \in LostSince(t, side)
      <4>1. \A j \in LateOf(t, side) : j >= n + 1 => j = n + 1
        BY <1>1, <1>3, <2>1
      <4>. QED BY <2>1, <2>2, <2>3, <4>1 DEF LostSince
    <3>3. /\ LostSince(t, side) \subseteq LateOf(s, side) \cup {n + 1}
          /\ LostSince(s, side) \subseteq LateOf(s, side)
      BY <2>1 DEF LostSince
    <3>4. LostSince(t, side) = LostSince(s, side) \cup {n + 1}
      BY <3>1, <3>2, <3>3
    <3>. QED BY <1>5, <2>3, <3>4 DEF t, n
  <2>4. CASE ~lost
    <3>1. \A i \in LateOf(t, side) : n + 1 >= i
      BY <1>1, <1>3, <2>1
    <3>2. LostSince(t, side) = {}
      BY <2>1, <2>2, <2>4, <3>1 DEF LostSince
    <3>. QED BY <1>5, <2>4, <3>2 DEF t, n
  <2>. QED BY <2>3, <2>4
<1>. QED BY <1>4, <1>5
\* A turn counts for the side to move, and ends the game once it counts enough.
LEMMA TurnEarned ==
  ASSUME TypeOK, NEW w \in Workers, work[w].pc = "play",
         StreakCounts(work[w]), Earned(work[w]),
         NEW lost \in BOOLEAN, NEW x, Turn(w, x, lost)
  PROVE  x.pc \in {"play", "open"} => StreakCounts(x) /\ Earned(x)
<1>. DEFINE r == work[w]
            mover == BlackToMove(w)
            n == Len(r.records)
<1>1. /\ r \in Stack /\ x \in Stack /\ mover \in BOOLEAN /\ n \in Nat
      /\ r.records \in Seq(Record) /\ x.records \in Seq(Record)
      /\ ResignConsecutive \in Nat \ {0} /\ ResignEarliest \in Nat
  BY SelfPlayAssumption, SMTT(30) DEF TypeOK, Turn, Stack, Record, BlackToMove
<1>2. /\ x.records = Append(r.records, [black |-> mover, lost |-> lost])
      /\ x.allow_resign = r.allow_resign
      /\ x.streak = IF Judged(w) THEN Streak(r.streak, mover, lost) ELSE r.streak
      /\ IF Judged(w) /\ lost /\ x.streak[Side(mover)] >= ResignConsecutive
         THEN x.pc = "open" /\ x.result = Winner(mover) /\ x.resigned = TRUE
         ELSE x.pc \in {"play", "open"} /\ x.resigned = r.resigned
  BY DEF Turn
<1>3. Losing(r) = {} /\ ~r.resigned
  BY DEF Earned
<1>. HIDE DEF mover
<1>4. CASE ~r.allow_resign
  <2>1. ~Judged(w) /\ Losing(x) = {} /\ StreakCounts(x) /\ ~x.resigned
    BY <1>2, <1>3, <1>4 DEF Judged, Losing, StreakCounts
  <2>. QED BY <2>1 DEF Earned
<1>5. CASE r.allow_resign
  <2>1. Judged(w) <=> ~(n < ResignEarliest)
    BY <1>1, <1>5 DEF Judged, Ply
  <2>2. \A side \in BOOLEAN :
          LostSince(x.records, side) =
            IF side # mover \/ ~Judged(w) THEN LostSince(r.records, side)
            ELSE IF lost THEN LostSince(r.records, side) \cup {n + 1} ELSE {}
    <3>. SUFFICES ASSUME NEW side \in BOOLEAN
                  PROVE  LostSince(x.records, side) =
                           IF side # mover \/ ~Judged(w) THEN LostSince(r.records, side)
                           ELSE IF lost THEN LostSince(r.records, side) \cup {n + 1} ELSE {}
      OBVIOUS
    <3>1. LostSince(Append(r.records, [black |-> mover, lost |-> lost]), side) =
            IF side # mover \/ n < ResignEarliest THEN LostSince(r.records, side)
            ELSE IF lost THEN LostSince(r.records, side) \cup {n + 1} ELSE {}
      BY <1>1, OneMore, ZenonT(30)
    <3>. QED BY <1>2, <2>1, <3>1
  <2>3. \A side \in BOOLEAN :
          /\ n + 1 \notin LostSince(r.records, side)
          /\ IsFiniteSet(LostSince(r.records, side))
          /\ SoFar(r, side) \in Nat
    BY <1>1, LostSinceFinite DEF SoFar
  <2>. HIDE DEF n
  <2>4. \A side \in BOOLEAN :
          SoFar(x, side) = IF side # mover \/ ~Judged(w) THEN SoFar(r, side)
                           ELSE IF lost THEN SoFar(r, side) + 1 ELSE 0
    <3>. SUFFICES ASSUME NEW side \in BOOLEAN
                  PROVE  SoFar(x, side) = IF side # mover \/ ~Judged(w) THEN SoFar(r, side)
                                          ELSE IF lost THEN SoFar(r, side) + 1 ELSE 0
      OBVIOUS
    <3>1. CASE side # mover \/ ~Judged(w)
      BY <2>2, <3>1 DEF SoFar
    <3>2. CASE ~(side # mover \/ ~Judged(w)) /\ lost
      <4>1. LostSince(x.records, side) = LostSince(r.records, side) \cup {n + 1}
        BY <2>2, <3>2
      <4>2. SoFar(x, side) = SoFar(r, side) + 1
        <5>. DEFINE S == LostSince(r.records, side)
        <5>1. IsFiniteSet(S) /\ n + 1 \notin S
          BY <2>3
        <5>2. Cardinality(S \cup {n + 1}) = Cardinality(S) + 1
          <6>. HIDE DEF S
          <6>. QED BY <5>1, FS_AddElement
        <5>. QED BY <4>1, <5>2 DEF SoFar
      <4>. QED BY <3>2, <4>2
    <3>3. CASE ~(side # mover \/ ~Judged(w)) /\ ~lost
      <4>1. LostSince(x.records, side) = {}
        BY <2>2, <3>3
      <4>. QED BY <3>3, <4>1, FS_EmptySet DEF SoFar
    <3>. QED BY <3>1, <3>2, <3>3
  <2>5. \A side \in BOOLEAN : r.streak[Side(side)] = SoFar(r, side)
    BY <1>5 DEF StreakCounts
  <2>6. \A side \in BOOLEAN : Side(side) \in 1 .. 2 /\ (Side(side) = Side(mover) <=> side = mover)
    BY <1>1 DEF Side
  <2>7. \A side \in BOOLEAN :
          x.streak[Side(side)] = IF side # mover \/ ~Judged(w) THEN r.streak[Side(side)]
                                 ELSE IF lost THEN r.streak[Side(side)] + 1 ELSE 0
    <3>1. r.streak \in [1 .. 2 -> Nat]
      BY <1>1 DEF Stack
    <3>. QED BY <1>2, <2>6, <3>1 DEF Streak
  <2>8. StreakCounts(x)
    BY <2>4, <2>5, <2>7 DEF StreakCounts
  <2>9. \A side \in BOOLEAN : SoFar(r, side) < ResignConsecutive
    BY <1>1, <1>3, <1>5, <2>3 DEF Losing
  <2>10. \A side \in BOOLEAN : SoFar(x, side) = x.streak[Side(side)]
    BY <2>4, <2>5, <2>7
  <2>11. CASE Judged(w) /\ lost /\ x.streak[Side(mover)] >= ResignConsecutive
    <3>1. Losing(x) = {mover}
      <4>1. SoFar(x, mover) >= ResignConsecutive
        BY <1>1, <2>10, <2>11
      <4>2. \A side \in BOOLEAN : side # mover => ~(SoFar(x, side) >= ResignConsecutive)
        BY <1>1, <2>3, <2>4, <2>9
      <4>. QED BY <1>1, <1>2, <1>5, <4>1, <4>2 DEF Losing
    <3>. QED BY <1>2, <2>8, <2>11, <3>1 DEF Earned
  <2>12. CASE ~(Judged(w) /\ lost /\ x.streak[Side(mover)] >= ResignConsecutive)
    <3>1. \A side \in BOOLEAN : SoFar(x, side) < ResignConsecutive
      BY <1>1, <2>3, <2>4, <2>9, <2>10, <2>12
    <3>2. \A side \in BOOLEAN : SoFar(x, side) \in Nat
      BY <2>3, <2>4
    <3>3. Losing(x) = {}
      BY <1>1, <3>1, <3>2 DEF Losing
    <3>. QED BY <1>2, <1>3, <2>8, <2>12, <3>3 DEF Earned
  <2>. QED BY <2>11, <2>12
<1>. QED BY <1>4, <1>5

\* A new game has no record, and a game cut off or over at once gains none.
LEMMA NewGameEarned ==
  ASSUME TypeOK, NEW g, NEW w \in Workers, NewGame(w, g)
  PROVE  /\ work'[w].pc = "play"
         /\ StreakCounts(work'[w]) /\ Earned(work'[w])
<1>. DEFINE r == [Idle EXCEPT !.pc = "play", !.g = g, !.allow_resign = g \in MayResign]
<1>1. /\ r.pc = "play" /\ r.records = <<>> /\ r.streak = <<0, 0>> /\ r.resigned = FALSE
  BY DEF Idle
<1>2. work'[w] = r
  BY DEF TypeOK, NewGame, Become
<1>. HIDE DEF r
<1>3. \A black \in BOOLEAN : SoFar(r, black) = 0 /\ r.streak[Side(black)] = 0
  <2>1. \A black \in BOOLEAN : LostSince(<<>>, black) = {}
    BY DEF LostSince, LateOf
  <2>2. \A black \in BOOLEAN : SoFar(r, black) = 0
    BY <1>1, <2>1, FS_EmptySet DEF SoFar
  <2>3. \A black \in BOOLEAN : r.streak[Side(black)] = 0
    BY <1>1 DEF Side
  <2>. QED BY <2>2, <2>3
<1>4. Losing(r) = {}
  BY <1>3, SelfPlayAssumption DEF Losing
<1>. QED BY <1>1, <1>2, <1>3, <1>4 DEF StreakCounts, Earned

LEMMA DrawEarned ==
  ASSUME NEW r \in Stack, r.pc = "play", StreakCounts(r), Earned(r), NEW x,
         x = [r EXCEPT !.pc = "open", !.result = "draw"]
  PROVE  StreakCounts(x) /\ Earned(x)
<1>1. /\ x.records = r.records /\ x.streak = r.streak
      /\ x.allow_resign = r.allow_resign /\ x.resigned = r.resigned
  BY DEF Stack
<1>2. Losing(x) = Losing(r) /\ Losing(r) = {}
  BY <1>1 DEF Losing, SoFar, Earned
<1>3. StreakCounts(x)
  BY <1>1 DEF StreakCounts, SoFar
<1>. QED BY <1>1, <1>2, <1>3 DEF Earned

LEMMA PlaysResigning ==
  ASSUME TypeOK, Resigning, NEW w \in Workers, Plays(w)
  PROVE  Resigning'
<1>1. \A v \in Workers : v # w => work'[v] = work[v]
  BY DEF Plays, TakeGame, NewGame, Goto, PlayPly, CutOff, Become, TypeOK
<1>. SUFFICES work'[w].pc \in {"play", "open"} => StreakCounts(work'[w]) /\ Earned(work'[w])
  BY <1>1 DEF Resigning
<1>2. \A x : Become(w, x) => work'[w] = x
  BY DEF Become, TypeOK
<1>3. CASE TakeGame(w)
  <2>1. CASE NewGame(w, next_game)
    BY <2>1, NewGameEarned
  <2>2. CASE Goto(w, "leave")
    <3>1. work'[w].pc = "leave"
      BY <2>2, <1>2 DEF Goto, TypeOK, Stack
    <3>. QED BY <3>1
  <2>. QED BY <1>3, <2>1, <2>2 DEF TakeGame
<1>4. CASE PlayPly(w) \/ CutOff(w)
  <2>1. work[w] \in Stack /\ work[w].pc = "play" /\ StreakCounts(work[w]) /\ Earned(work[w])
    BY <1>4 DEF TypeOK, PlayPly, CutOff, At, Resigning
  <2>2. CASE Become(w, [work[w] EXCEPT !.pc = "open", !.result = "draw"])
    BY <1>2, <2>1, <2>2, DrawEarned
  <2>3. CASE ~Become(w, [work[w] EXCEPT !.pc = "open", !.result = "draw"])
    <3>1. PICK lost \in BOOLEAN, x \in Stack : Become(w, x) /\ Turn(w, x, lost)
      BY <1>4, <2>3, TurnIs DEF CutOff
    <3>. QED BY <1>2, <2>1, <3>1, TurnEarned
  <2>. QED BY <2>2, <2>3
<1>. QED BY <1>3, <1>4 DEF Plays

\* A side resigns when it judged itself lost in the last ResignConsecutive of its
\* own late positions, and in no other game (selfplay_game.cc).
THEOREM ResignationEarnedHolds == Spec => []ResignationEarned
<1>1. Init => Resigning
  BY DEF Init, Idle, Resigning
<1>2. IInv /\ Resigning /\ [Next]_vars => Resigning'
  <2>. SUFFICES ASSUME TypeOK, Resigning, [Next]_vars PROVE Resigning'
    BY DEF IInv
  <2>1. CASE Killed
    BY <2>1 DEF Killed, Idle, Resigning
  <2>2. ASSUME NEW w \in Workers, Work(w) PROVE Resigning'
    <3>1. CASE Plays(w)
      BY <3>1, PlaysResigning
    <3>2. CASE ~Plays(w)
      <4>1. PICK r : LeadsTo(w, r)
        BY <2>2, WorkIs
      <4>2. /\ work'[w] = r /\ r.pc \notin {"play", "open"}
            /\ \A v \in Workers : v # w => work'[v] = work[v]
        BY <3>2, <4>1 DEF LeadsTo, Become, TypeOK
      <4>. QED BY <4>2 DEF Resigning
    <3>. QED BY <3>1, <3>2
  <2>3. ASSUME NEW w \in Workers, StartWorker(w) PROVE Resigning'
    <3>1. work'[w].pc = "loop" /\ \A v \in Workers : v # w => work'[v] = work[v]
      BY <2>3 DEF StartWorker, Goto, Become, TypeOK, Stack
    <3>. QED BY <3>1 DEF Resigning
  <2>4. CASE EnterProducer \/ StartTicker \/ JoinWorkers \/ JoinTicker \/ TickerEnds \/ SoftStop
    BY <2>4 DEF EnterProducer, StartTicker, JoinWorkers, JoinTicker, TickerEnds, SoftStop,
                Resigning
  <2>5. CASE Returned \/ UNCHANGED vars
    BY <2>5 DEF Returned, vars, Resigning
  <2>. QED BY <2>1, <2>2, <2>3, <2>4, <2>5 DEF Next, Main
<1>. QED BY <1>1, <1>2, ResignationEarnedIs, Invariance, PTL DEF Spec
=============================================================================
