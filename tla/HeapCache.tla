------------------------------ MODULE HeapCache ------------------------------
(***************************************************************************)
(* The evaluation cache lczero_chess/neural/zero_heap_cache.{h,cc}: a      *)
(* table of buckets read and written without locks, each under a seqlock.  *)
(* In compact mode the priors of all buckets live in one ring (the arena), *)
(* where a reader must also notice that they were overwritten since.       *)
(*                                                                         *)
(* Every atomic access is a step, and so is the copy of each word: a       *)
(* bucket's own fields (q, d, m and num_moves, as the evaluation they are  *)
(* of) and each prior.  Steps are sequentially consistent: that the fences *)
(* of the code make them so is not modelled.  PriorsCheck is taken to tell *)
(* any two lists of priors apart; sequence numbers do not wrap.            *)
(*                                                                         *)
(* A thread is a search worker with a minibatch of one position: it asks   *)
(* the cache (TryRead, or the probe of GetCachedEvaluation), and inserts   *)
(* what the network computes when the cache has nothing.                   *)
(***************************************************************************)
EXTENDS Naturals, Sequences, FiniteSets

CONSTANTS
  Threads,
  Positions,
  HashOf,     \* ComputeEvalPositionHash; two positions may share a hash
  MovesOf,    \* legal moves of a position
  CacheSize,  \* cache_size_
  ArenaSize,  \* arena_size_
  MaxEvals    \* bound: evaluations the network computes

ASSUME CacheAssumption ==
  /\ IsFiniteSet(Threads) /\ Positions # {}
  /\ CacheSize \in Nat \ {0} /\ ArenaSize \in Nat \ {0} /\ MaxEvals \in Nat
  /\ HashOf \in [Positions -> Nat \ {0}]
  /\ MovesOf \in [Positions -> 1 .. ArenaSize]

VARIABLES
  compact,                \* compact_
  hash, sequence, value,  \* the atomics of a bucket, and its evaluation
  priors,                 \* CachedValue::p of a bucket
  pos, check,             \* CompactBucket::pos and ::check
  arena, arena_head,
  evals,                  \* the positions of the evaluations inserted so far
  local                   \* what each thread has on its stack:
  \* pc     where it is in TryRead, CompactRead or Insert
  \* asked  the position it looks up, probe: for its existence only
  \* seq    its copy of the sequence number
  \* eval   the evaluation it inserts, or the one it read
  \* pos    the arena position it reserved, or read; check: the checksum read
  \* words  the priors it has copied so far

bucketVars == <<hash, sequence, value, priors, pos, check>>
arenaVars == <<arena, arena_head>>
sharedVars == <<compact, bucketVars, arenaVars, evals>>
vars == <<sharedVars, local>>

Buckets == 0 .. CacheSize - 1
BucketOf(p) == HashOf[p] % CacheSize
Cell(k) == k % ArenaSize
NoEval == 0
Evals == 0 .. MaxEvals
PriorsOf(e) == [i \in 1 .. MovesOf[evals[e]] |-> e]
StoredMoves(e) == IF e = NoEval THEN 0 ELSE MovesOf[evals[e]]

\* The thread's place, its bucket, and how many priors it is to copy.
At(t) == local[t].pc
B(t) == BucketOf(local[t].asked)
Wanted(t) == IF local[t].probe THEN 0 ELSE MovesOf[local[t].asked]
Goto(t, to) == local' = [local EXCEPT ![t].pc = to]

\* A stack that asks for p, and nothing more.
Asking(at, p, existence) ==
  [pc |-> at, asked |-> p, probe |-> existence, seq |-> 0, eval |-> NoEval,
   pos |-> 0, check |-> <<>>, words |-> <<>>]
Idle == Asking("idle", CHOOSE p \in Positions : TRUE, FALSE)
Miss(t) == local' = [local EXCEPT ![t] = Asking("lock", @.asked, FALSE)]
Return(t) == local' = [local EXCEPT ![t] = Idle]

\* The constructor, with SetCacheSize and ClearCache.
Init ==
  /\ compact \in BOOLEAN
  /\ hash = [b \in Buckets |-> 0] /\ sequence = [b \in Buckets |-> 0]
  /\ value = [b \in Buckets |-> NoEval]
  /\ priors = [b \in Buckets |-> [i \in 1 .. ArenaSize |-> NoEval]]
  /\ pos = [b \in Buckets |-> 0] /\ check = [b \in Buckets |-> <<>>]
  /\ arena = [k \in 0 .. ArenaSize - 1 |-> NoEval] /\ arena_head = 0
  /\ evals = <<>>
  /\ local = [t \in Threads |-> Idle]

-----------------------------------------------------------------------------
(* Reading: TryRead, GetCachedEvaluation and CompactRead.                  *)

Ask(t) ==
  /\ At(t) = "idle"
  /\ \E p \in Positions, existence \in BOOLEAN :
       local' = [local EXCEPT ![t] =
         [Asking(IF sequence[BucketOf(p)] % 2 = 0 THEN "readHash" ELSE "lock",
                 p, existence) EXCEPT !.seq = sequence[BucketOf(p)]]]
  /\ UNCHANGED sharedVars

ReadHash(t) ==
  /\ At(t) = "readHash"
  /\ IF hash[B(t)] = HashOf[local[t].asked] THEN Goto(t, "readValue") ELSE Miss(t)
  /\ UNCHANGED sharedVars

ReadValue(t) ==
  /\ At(t) = "readValue"
  /\ local' = [local EXCEPT ![t].eval = value[B(t)],
                            ![t].pc = IF compact THEN "readPos" ELSE "readPriors"]
  /\ UNCHANGED sharedVars

\* The numbers of moves agree; a probe does not compare them.
SameMoves(t) ==
  \/ local[t].probe
  \/ StoredMoves(local[t].eval) = MovesOf[local[t].asked]

\* Compact mode compares the number of moves before it copies priors ...
ReadPos(t) ==
  /\ At(t) = "readPos"
  /\ IF SameMoves(t)
     THEN local' = [local EXCEPT ![t].pos = pos[B(t)], ![t].check = check[B(t)],
                                 ![t].pc = "readPriors"]
     ELSE Miss(t)
  /\ UNCHANGED sharedVars

ReadPrior(t) ==
  /\ At(t) = "readPriors" /\ Len(local[t].words) < Wanted(t)
  /\ LET i == Len(local[t].words) + 1
     IN  local' = [local EXCEPT ![t].words = Append(@,
           IF compact THEN arena[Cell(local[t].pos + i - 1)] ELSE priors[B(t)][i])]
  /\ UNCHANGED sharedVars

\* Nothing was written to the bucket while the thread read it.
Undisturbed(t) == sequence[B(t)] = local[t].seq

\* ... and the plain mode once the copy is known to be whole.
ReadAgain(t) ==
  /\ At(t) = "readPriors" /\ Len(local[t].words) = Wanted(t)
  /\ IF Undisturbed(t) /\ (compact \/ SameMoves(t))
     THEN Goto(t, IF compact THEN "readHead" ELSE "hit")
     ELSE Miss(t)
  /\ UNCHANGED sharedVars

\* Mutant: without the checksum.
Overwritten_HeadOnly(t) == arena_head - local[t].pos > ArenaSize

\* The priors were overwritten: by newer entries, which the head of the arena
\* tells, or by a slow older writer, which only the checksum does.  A probe has
\* copied no priors, and compares none.
Overwritten(t) ==
  \/ arena_head - local[t].pos > ArenaSize
  \/ /\ Len(local[t].words) = StoredMoves(local[t].eval)
     /\ local[t].words # local[t].check

ReadHead(t) ==
  /\ At(t) = "readHead"
  /\ IF Overwritten(t) THEN Miss(t) ELSE Goto(t, "hit")
  /\ UNCHANGED sharedVars

UseHit(t) ==
  /\ At(t) = "hit"
  /\ Return(t)
  /\ UNCHANGED sharedVars

-----------------------------------------------------------------------------
(* Writing: ComputeBlocking of the cache's computation, and Insert.        *)

\* Mutant: the writer takes the bucket whatever its sequence number.
SequenceIsOdd_Unread(t) == FALSE

\* A miss (a probe that misses is followed by a prefetch): the network has
\* evaluated the position.  Insert skips it while the sequence is odd, another
\* thread being at work on the bucket.
SequenceIsOdd(t) == sequence[B(t)] % 2 = 1

Lock(t) ==
  /\ At(t) = "lock"
  /\ ~SequenceIsOdd(t) /\ Len(evals) < MaxEvals
  /\ evals' = Append(evals, local[t].asked)
  /\ sequence' = [sequence EXCEPT ![B(t)] = @ + 1]
  /\ local' = [local EXCEPT ![t].eval = Len(evals) + 1,
                            ![t].seq = sequence[B(t)],
                            ![t].pc = IF compact THEN "reserve" ELSE "writeHash"]
  /\ UNCHANGED <<compact, hash, value, priors, pos, check, arenaVars>>

Skip(t) ==
  /\ At(t) = "lock"
  /\ SequenceIsOdd(t) \/ Len(evals) = MaxEvals
  /\ Return(t)
  /\ UNCHANGED sharedVars

\* Reserve the arena range first, then write it.
Reserve(t) ==
  /\ At(t) = "reserve"
  /\ arena_head' = arena_head + MovesOf[local[t].asked]
  /\ local' = [local EXCEPT ![t].pos = arena_head, ![t].pc = "writeArena"]
  /\ UNCHANGED <<compact, bucketVars, arena, evals>>

WritePrior(t) ==
  /\ At(t) \in {"writeArena", "writePriors"}
  /\ Len(local[t].words) < MovesOf[local[t].asked]
  /\ LET i == Len(local[t].words) + 1
         e == local[t].eval
     IN  /\ local' = [local EXCEPT ![t].words = Append(@, e)]
         /\ IF compact
            THEN /\ arena' = [arena EXCEPT ![Cell(local[t].pos + i - 1)] = e]
                 /\ UNCHANGED priors
            ELSE /\ priors' = [priors EXCEPT ![B(t)][i] = e]
                 /\ UNCHANGED arena
  /\ UNCHANGED <<compact, hash, sequence, value, pos, check, arena_head, evals>>

WriteHash(t) ==
  /\ \/ At(t) = "writeHash"
     \/ At(t) = "writeArena" /\ Len(local[t].words) = MovesOf[local[t].asked]
  /\ hash' = [hash EXCEPT ![B(t)] = HashOf[local[t].asked]]
  /\ Goto(t, "writeValue")
  /\ UNCHANGED <<compact, sequence, value, priors, pos, check, arenaVars, evals>>

WriteValue(t) ==
  /\ At(t) = "writeValue"
  /\ value' = [value EXCEPT ![B(t)] = local[t].eval]
  /\ Goto(t, IF compact THEN "writePos" ELSE "writePriors")
  /\ UNCHANGED <<compact, hash, sequence, priors, pos, check, arenaVars, evals>>

WritePos(t) ==
  /\ At(t) = "writePos"
  /\ pos' = [pos EXCEPT ![B(t)] = local[t].pos]
  /\ check' = [check EXCEPT ![B(t)] = PriorsOf(local[t].eval)]
  /\ Goto(t, "publish")
  /\ UNCHANGED <<compact, hash, sequence, value, priors, arenaVars, evals>>

Publish(t) ==
  /\ \/ At(t) = "publish"
     \/ At(t) = "writePriors" /\ Len(local[t].words) = MovesOf[local[t].asked]
  /\ sequence' = [sequence EXCEPT ![B(t)] = local[t].seq + 2]
  /\ Return(t)
  /\ UNCHANGED <<compact, hash, value, priors, pos, check, arenaVars, evals>>

-----------------------------------------------------------------------------
Read(t) ==
  \/ Ask(t) \/ ReadHash(t) \/ ReadValue(t) \/ ReadPos(t) \/ ReadPrior(t)
  \/ ReadAgain(t) \/ ReadHead(t) \/ UseHit(t)

Insert(t) ==
  \/ Lock(t) \/ Skip(t) \/ Reserve(t) \/ WritePrior(t) \/ WriteHash(t)
  \/ WriteValue(t) \/ WritePos(t) \/ Publish(t)

Next == \E t \in Threads : Read(t) \/ Insert(t)
Spec == Init /\ [][Next]_vars

-----------------------------------------------------------------------------
(* Properties.                                                             *)

\* Every variable has its type, and the priors of a bucket lie in a range of the
\* arena that was reserved.
TypeOK ==
  /\ compact \in BOOLEAN
  /\ hash \in [Buckets -> Nat] /\ sequence \in [Buckets -> Nat]
  /\ value \in [Buckets -> Evals]
  /\ priors \in [Buckets -> [1 .. ArenaSize -> Evals]]
  /\ pos \in [Buckets -> Nat] /\ check \in [Buckets -> Seq(Evals)]
  /\ arena \in [0 .. ArenaSize - 1 -> Evals] /\ arena_head \in Nat
  /\ evals \in Seq(Positions) /\ Len(evals) <= MaxEvals
  /\ local \in [Threads ->
       [pc : {"idle", "readHash", "readValue", "readPos", "readPriors",
              "readHead", "hit", "lock", "reserve", "writeArena", "writeHash",
              "writeValue", "writePos", "writePriors", "publish"},
        asked : Positions, probe : BOOLEAN, seq : Nat, eval : Evals,
        pos : Nat, check : Seq(Evals), words : Seq(Evals)]]
  /\ \A b \in Buckets : pos[b] + Len(check[b]) <= arena_head

\* No torn reads (test_neural.cc:405-446 tries for them): a hit is one whole
\* evaluation of a position with the hash asked for; its priors, one for every
\* legal move of the position asked for, are those computed with its value,
\* whatever wrote to the bucket or the arena in the meantime.
HitIsWhole ==
  \A t \in Threads : At(t) = "hit" =>
    LET asked == local[t].asked
        eval  == local[t].eval
    IN  /\ eval # NoEval
        /\ HashOf[evals[eval]] = HashOf[asked]
        /\ ~local[t].probe => local[t].words = [i \in 1 .. MovesOf[asked] |-> eval]

Writing(t) ==
  At(t) \in {"reserve", "writeArena", "writeHash", "writeValue", "writePos",
             "writePriors", "publish"}

\* A bucket has one writer while its sequence is odd and none while it is even,
\* and an even bucket that was written holds one evaluation: its hash, value,
\* own priors and checksum belong together.
BucketIsWhole ==
  \A b \in Buckets :
    /\ Cardinality({t \in Threads : Writing(t) /\ B(t) = b}) = sequence[b] % 2
    /\ sequence[b] % 2 = 0 /\ sequence[b] # 0 =>
         /\ value[b] # NoEval
         /\ hash[b] = HashOf[evals[value[b]]]
         /\ IF compact
            THEN check[b] = PriorsOf(value[b])
            ELSE \A i \in 1 .. MovesOf[evals[value[b]]] : priors[b][i] = value[b]
=============================================================================
