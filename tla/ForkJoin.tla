------------------------------ MODULE ForkJoin ------------------------------
(***************************************************************************)
(* What SearchWorker::GatherMinibatch relies on when it hands parts of its *)
(* work to task threads (search/classic/search.{h,cc}): parts may be added *)
(* while a round is open, each is worked exactly once, and the round is    *)
(* joined, its parts then forgotten, only when every part has been worked. *)
(***************************************************************************)
EXTENDS Naturals, Sequences

VARIABLE parts  \* how many times each part of the current round was worked

JInit == parts = <<>>

Fork == parts' = Append(parts, 0)

Work(i) ==
  /\ parts[i] = 0
  /\ parts' = [parts EXCEPT ![i] = 1]

Join ==
  /\ \A i \in DOMAIN parts : parts[i] = 1
  /\ parts' = <<>>

JNext == Fork \/ (\E i \in DOMAIN parts : Work(i)) \/ Join

JSpec == JInit /\ [][JNext]_parts
=============================================================================
