--------------------------- MODULE HeapCacheProofs ---------------------------
(***************************************************************************)
(* Proofs about HeapCache for any threads, positions, hashes, sizes of the *)
(* table and of the arena, and any number of evaluations.                  *)
(*                                                                         *)
(* The argument is that of a seqlock.  A bucket is written only while its  *)
(* sequence is odd, by the one thread that made it so (WriterOK, OneWriter)*)
(* and is whole when it is even (BucketOK).  A reader starts at an even    *)
(* sequence; if it finds the same number again, what it has copied so far  *)
(* is what the bucket still holds (ReaderOK).  In compact mode the priors  *)
(* are not under the seqlock, and what is known of a reader's words is     *)
(* only what the checksum it copied says (HitOK).                          *)
(***************************************************************************)
EXTENDS HeapCache, FiniteSetTheorems, TLAPS

WritePlaces == {"reserve", "writeArena", "writeHash", "writeValue", "writePos",
                "writePriors", "publish"}
ReadPlaces == {"readHash", "readValue", "readPos", "readPriors"}
Places == WritePlaces \cup ReadPlaces \cup {"idle", "readHead", "hit", "lock"}
Stacks == [pc : Places, asked : Positions, probe : BOOLEAN, seq : Nat, eval : Evals,
           pos : Nat, check : Seq(Evals), words : Seq(Evals)]

Known == 1 .. Len(evals)

\* A writer's bucket is odd because of it, and holds what it wrote so far.
WriterOK(r) ==
  LET b == BucketOf(r.asked)
  IN  r.pc \in WritePlaces =>
        /\ r.seq % 2 = 0 /\ sequence[b] = r.seq + 1
        /\ r.eval \in Known /\ evals[r.eval] = r.asked
        /\ r.pc \in {"reserve", "writeArena", "writePos", "publish"} => compact
        /\ r.pc \in {"writeHash", "writePriors"} => ~compact
        /\ r.pc # "reserve" /\ compact => r.pos + MovesOf[r.asked] <= arena_head
        /\ r.pc \in {"writeValue", "writePos", "writePriors", "publish"} =>
             hash[b] = HashOf[r.asked]
        /\ r.pc \in {"writePos", "writePriors", "publish"} => value[b] = r.eval
        /\ r.pc = "publish" => check[b] = PriorsOf(r.eval)
        /\ r.pc = "writePriors" => \A i \in 1 .. Len(r.words) : priors[b][i] = r.eval
        /\ r.pc = "reserve" \/ (~compact /\ r.pc # "writePriors") => r.words = <<>>
        /\ Len(r.words) <= MovesOf[r.asked]

OneWriter ==
  /\ \A t, u \in Threads : Writing(t) /\ Writing(u) /\ B(t) = B(u) => t = u
  /\ \A b \in Buckets : sequence[b] % 2 = 1 => \E t \in Threads : Writing(t) /\ B(t) = b

BucketOK(b) ==
  /\ value[b] = NoEval \/ value[b] \in Known
  /\ sequence[b] = 0 => hash[b] = 0
  /\ sequence[b] % 2 = 0 /\ sequence[b] # 0 =>
       /\ value[b] \in Known
       /\ hash[b] = HashOf[evals[value[b]]]
       /\ compact => check[b] = PriorsOf(value[b])
       /\ ~compact => \A i \in 1 .. MovesOf[evals[value[b]]] : priors[b][i] = value[b]

\* What a reader has copied is what the bucket holds, if nothing was written since.
ReaderOK(r) ==
  LET b == BucketOf(r.asked)
      wanted == IF r.probe THEN 0 ELSE MovesOf[r.asked]
  IN  r.pc \in ReadPlaces =>
        /\ r.seq % 2 = 0 /\ r.seq <= sequence[b]
        /\ r.eval = NoEval \/ r.eval \in Known
        /\ r.pc # "readPriors" => r.words = <<>>
        /\ Len(r.words) <= wanted
        /\ r.pc = "readPriors" /\ compact => r.probe \/ StoredMoves(r.eval) = MovesOf[r.asked]
        /\ sequence[b] = r.seq =>
             /\ r.pc # "readHash" => hash[b] = HashOf[r.asked]
             /\ r.pc \in {"readPos", "readPriors"} => r.eval = value[b]
             /\ r.pc = "readPriors" /\ compact => r.check = check[b]
             /\ r.pc = "readPriors" /\ ~compact =>
                  \A i \in 1 .. Len(r.words) : r.words[i] = priors[b][i]

\* The bucket's fields that were read belong together.
HitOK(r) ==
  r.pc \in {"readHead", "hit"} =>
    /\ r.eval \in Known /\ HashOf[evals[r.eval]] = HashOf[r.asked]
    /\ ~r.probe => MovesOf[evals[r.eval]] = MovesOf[r.asked]
    /\ r.pc = "readHead" =>
         /\ r.check = PriorsOf(r.eval)
         /\ ~r.probe => Len(r.words) = MovesOf[r.asked]
    /\ r.pc = "hit" /\ ~r.probe => r.words = [i \in 1 .. MovesOf[r.asked] |-> r.eval]

Fresh(r) == r.pc = "lock" => r.words = <<>>

StackOK(r) == WriterOK(r) /\ ReaderOK(r) /\ HitOK(r) /\ Fresh(r)
IInv ==
  /\ TypeOK
  /\ OneWriter
  /\ \A b \in Buckets : BucketOK(b)
  /\ \A t \in Threads : StackOK(local[t])
-----------------------------------------------------------------------------
LEMMA Parity ==
  \A s \in Nat : /\ s % 2 \in {0, 1}
                 /\ s % 2 = 0 <=> (s + 1) % 2 = 1
                 /\ s % 2 = 0 => (s + 2) % 2 = 0
OBVIOUS

LEMMA ModIn == ASSUME NEW k \in Nat, NEW m \in Nat \ {0} PROVE k % m \in 0 .. m - 1
OBVIOUS

LEMMA BucketIn == \A p \in Positions : BucketOf(p) \in Buckets
BY ModIn, CacheAssumption DEF BucketOf, Buckets

LEMMA CellIn == \A k \in Nat : Cell(k) \in 0 .. ArenaSize - 1
BY ModIn, CacheAssumption DEF Cell

\* Where a thread is, and in which bucket.
LEMMA WritingIs ==
  \A t \in Threads : /\ Writing(t) <=> local[t].pc \in WritePlaces
                     /\ B(t) = BucketOf(local[t].asked)
BY DEF Writing, At, WritePlaces, B

LEMMA StackIn == TypeOK => local \in [Threads -> Stacks]
BY DEF TypeOK, Stacks, Places, WritePlaces, ReadPlaces

\* A stack that asks for a position.
LEMMA AskingIs ==
  ASSUME NEW at \in Places, NEW p \in Positions, NEW e \in BOOLEAN
  PROVE  LET r == Asking(at, p, e)
         IN  /\ r \in Stacks /\ r.pc = at /\ r.asked = p /\ r.probe = e
             /\ r.seq = 0 /\ r.eval = NoEval /\ r.words = <<>>
BY CacheAssumption DEF Asking, Stacks, Evals, NoEval

-----------------------------------------------------------------------------
(* A thread reads, or leaves: only its own stack changes.                   *)

Others(t) ==
  /\ local' \in [Threads -> Stacks]
  /\ \A u \in Threads : u # t => local'[u] = local[u]

LEMMA SharedSame ==
  ASSUME UNCHANGED sharedVars
  PROVE  /\ UNCHANGED <<compact, hash, sequence, value, priors, pos, check, arena,
                        arena_head, evals>>
         /\ Known' = Known /\ \A e : PriorsOf(e)' = PriorsOf(e)
         /\ \A e : StoredMoves(e)' = StoredMoves(e)
<1>1. UNCHANGED <<compact, hash, sequence, value, priors, pos, check, arena,
                  arena_head, evals>>
  BY DEF sharedVars, bucketVars, arenaVars
<1>. QED BY <1>1 DEF Known, PriorsOf, StoredMoves

LEMMA LocalStep ==
  ASSUME IInv, NEW t \in Threads, UNCHANGED sharedVars, Others(t),
         ~Writing(t), local'[t].pc \notin WritePlaces,
         ReaderOK(local[t])', HitOK(local[t])', Fresh(local[t])'
  PROVE  IInv'
<1> USE SharedSame
<1>1. TypeOK'
  BY SMTT(30) DEF IInv, TypeOK, Others, Stacks, Places, WritePlaces, ReadPlaces
<1>2. OneWriter'
  <2>1. \A u \in Threads : (Writing(u)' <=> Writing(u)) /\ (Writing(u) => B(u)' = B(u))
    BY WritingIs DEF Others, Writing, At, B, WritePlaces
  <2>. QED BY <2>1 DEF IInv, OneWriter
<1>3. \A b \in Buckets : BucketOK(b)'
  BY DEF IInv, BucketOK
<1>4. ASSUME NEW u \in Threads, u # t PROVE StackOK(local[u])'
  <2>1. local'[u] = local[u] /\ StackOK(local[u])
    BY <1>4 DEF Others, IInv
  <2>. QED BY <2>1 DEF StackOK, WriterOK, ReaderOK, HitOK, Fresh
<1>5. StackOK(local[t])'
  BY DEF StackOK, WriterOK
<1>. QED BY <1>1, <1>2, <1>3, <1>4, <1>5 DEF IInv

\* To a miss, or back to the beginning.
LEMMA MissInv ==
  ASSUME IInv, NEW t \in Threads, UNCHANGED sharedVars, ~Writing(t), Miss(t) \/ Return(t)
  PROVE  IInv'
<1>1. local[t].asked \in Positions /\ local \in [Threads -> Stacks]
  BY StackIn DEF IInv, Stacks
<1>2. PICK r \in Stacks : /\ local' = [local EXCEPT ![t] = r]
                          /\ r.pc \in {"lock", "idle"} /\ r.words = <<>>
  <2>1. CASE Miss(t)
    <3>. DEFINE r == Asking("lock", local[t].asked, FALSE)
    <3>1. r \in Stacks /\ r.pc = "lock" /\ r.words = <<>>
      BY <1>1, AskingIs DEF Places
    <3>. QED BY <2>1, <3>1 DEF Miss
  <2>2. CASE Return(t)
    <3>1. (CHOOSE p \in Positions : TRUE) \in Positions
      BY <1>1
    <3>2. Idle \in Stacks /\ Idle.pc = "idle" /\ Idle.words = <<>>
      BY <3>1, AskingIs DEF Idle, Places
    <3>. QED BY <2>2, <3>2 DEF Return
  <2>. QED BY <2>1, <2>2
<1>3. Others(t) /\ local'[t] = r
  BY <1>1, <1>2 DEF Others
<1>4. /\ local'[t].pc \notin WritePlaces
      /\ ReaderOK(local[t])' /\ HitOK(local[t])' /\ Fresh(local[t])'
  BY <1>2, <1>3 DEF WritePlaces, ReaderOK, ReadPlaces, HitOK, Fresh
<1>. QED BY <1>3, <1>4, LocalStep

LEMMA AskInv ==
  ASSUME IInv, NEW t \in Threads, Ask(t)
  PROVE  IInv'
<1>1. PICK p \in Positions, existence \in BOOLEAN :
        local' = [local EXCEPT ![t] =
          [Asking(IF sequence[BucketOf(p)] % 2 = 0 THEN "readHash" ELSE "lock",
                  p, existence) EXCEPT !.seq = sequence[BucketOf(p)]]]
  BY DEF Ask
<1>. DEFINE s == sequence[BucketOf(p)]
            at == IF s % 2 = 0 THEN "readHash" ELSE "lock"
            r == [Asking(at, p, existence) EXCEPT !.seq = s]
<1>2. s \in Nat /\ at \in Places /\ at \in {"readHash", "lock"} /\ (at = "readHash" => s % 2 = 0)
  BY BucketIn DEF IInv, TypeOK, Places, ReadPlaces
<1>3. /\ r \in Stacks /\ r.pc = at /\ r.asked = p /\ r.probe = existence
      /\ r.seq = s /\ r.eval = NoEval /\ r.words = <<>>
  <2>. HIDE DEF s, at
  <2>. QED BY <1>2, AskingIs DEF Stacks
<1>4. local' = [local EXCEPT ![t] = r] /\ UNCHANGED sharedVars /\ ~Writing(t)
  BY <1>1 DEF Ask, Writing, At
<1>5. Others(t) /\ local'[t] = r
  BY <1>3, <1>4, StackIn DEF Others, IInv
<1>6. local'[t].pc \notin WritePlaces /\ HitOK(local[t])' /\ Fresh(local[t])'
  BY <1>2, <1>3, <1>5 DEF WritePlaces, HitOK, Fresh
<1>7. ReaderOK(local[t])'
  <2>1. sequence' = sequence /\ local'[t] = r
    BY <1>4, <1>5, SharedSame
  <2>2. (IF existence THEN 0 ELSE MovesOf[p]) \in Nat /\ Len(<<>>) = 0
    BY CacheAssumption
  <2>3. sequence'[BucketOf(r.asked)] = s /\ s <= s
    BY <1>2, <1>3, <2>1
  <2>4. r.pc \in ReadPlaces => r.pc = "readHash" /\ r.seq % 2 = 0
    BY <1>2, <1>3 DEF ReadPlaces
  <2>. HIDE DEF r, at, s
  <2>. QED BY <1>2, <1>3, <2>1, <2>2, <2>3, <2>4 DEF ReaderOK
<1>. QED BY <1>4, <1>5, <1>6, <1>7, LocalStep

\* A read that succeeds: the thread's stack becomes r.
LEMMA ReadStep ==
  ASSUME IInv, NEW t \in Threads, UNCHANGED sharedVars, NEW r \in Stacks,
         local[t].pc \notin WritePlaces, local' = [local EXCEPT ![t] = r],
         r.pc \notin WritePlaces, r.pc # "lock", ReaderOK(r), HitOK(r)
  PROVE  IInv'
<1>1. Others(t) /\ local'[t] = r
  BY StackIn DEF Others, IInv
<1>2. ReaderOK(local[t])'
  BY <1>1, SharedSame DEF ReaderOK
<1>3. HitOK(local[t])' /\ Fresh(local[t])'
  BY <1>1, SharedSame DEF HitOK, Fresh
<1>4. ~Writing(t)
  BY WritingIs
<1>. QED BY <1>1, <1>2, <1>3, <1>4, LocalStep

\* What is known of a thread's stack, and of its bucket.
LEMMA StackIs ==
  ASSUME IInv, NEW t \in Threads
  PROVE  /\ local[t] \in Stacks /\ local \in [Threads -> Stacks]
         /\ B(t) = BucketOf(local[t].asked) /\ B(t) \in Buckets
         /\ WriterOK(local[t]) /\ ReaderOK(local[t]) /\ HitOK(local[t]) /\ Fresh(local[t])
         /\ BucketOK(B(t))
         /\ value[B(t)] \in Evals /\ pos[B(t)] \in Nat /\ check[B(t)] \in Seq(Evals)
         /\ sequence[B(t)] \in Nat
         /\ MovesOf[local[t].asked] \in 1 .. ArenaSize
<1>1. local[t] \in Stacks /\ local \in [Threads -> Stacks]
  BY StackIn DEF IInv
<1>2. B(t) = BucketOf(local[t].asked) /\ B(t) \in Buckets
  BY <1>1, BucketIn DEF B, Stacks
<1>3. MovesOf[local[t].asked] \in 1 .. ArenaSize
  BY <1>1, CacheAssumption DEF Stacks
<1>. QED BY <1>1, <1>2, <1>3 DEF IInv, StackOK, TypeOK

LEMMA ReadHashInv ==
  ASSUME IInv, NEW t \in Threads, ReadHash(t)
  PROVE  IInv'
<1>. DEFINE s == local[t]
            r == [s EXCEPT !.pc = "readValue"]
<1>1. s.pc = "readHash" /\ UNCHANGED sharedVars
  BY DEF ReadHash, At
<1>2. CASE Miss(t)
  BY <1>1, <1>2, MissInv, WritingIs DEF WritePlaces
<1>3. CASE hash[B(t)] = HashOf[s.asked] /\ Goto(t, "readValue")
  <2>1. /\ r \in Stacks /\ r.pc = "readValue" /\ r.asked = s.asked /\ r.probe = s.probe
        /\ r.seq = s.seq /\ r.eval = s.eval /\ r.words = s.words
    BY StackIs DEF Stacks, Places, ReadPlaces
  <2>2. local' = [local EXCEPT ![t] = r]
    BY <1>3, StackIs DEF Goto
  <2>3. ReaderOK(s)
    BY StackIs
  <2>4. ReaderOK(r) /\ HitOK(r)
    <3>. HIDE DEF r
    <3>. QED BY <1>1, <1>3, <2>1, <2>3, StackIs DEF ReaderOK, HitOK, ReadPlaces
  <2>. HIDE DEF r
  <2>. QED BY <1>1, <2>1, <2>2, <2>4, ReadStep DEF WritePlaces
<1>. QED BY <1>2, <1>3 DEF ReadHash

LEMMA ReadValueInv ==
  ASSUME IInv, NEW t \in Threads, ReadValue(t)
  PROVE  IInv'
<1>. DEFINE s == local[t]
            to == IF compact THEN "readPos" ELSE "readPriors"
            v == value[B(t)]
            r == [s EXCEPT !.eval = v, !.pc = to]
<1>1. s.pc = "readValue" /\ UNCHANGED sharedVars
  BY DEF ReadValue, At
<1>2. local' = [local EXCEPT ![t] = r]
  BY StackIs DEF ReadValue
<1>3. /\ to \in Places /\ to \in {"readPos", "readPriors"} /\ (to = "readPriors" => ~compact)
      /\ v \in Evals /\ (v = NoEval \/ v \in Known)
  BY StackIs DEF Places, ReadPlaces, BucketOK
<1>4. /\ r \in Stacks /\ r.pc = to /\ r.asked = s.asked /\ r.probe = s.probe
      /\ r.seq = s.seq /\ r.eval = v /\ r.words = s.words
  <2>. HIDE DEF to, v
  <2>. QED BY <1>3, StackIs DEF Stacks
<1>5. ReaderOK(r) /\ HitOK(r)
  <2>1. ReaderOK(s) /\ Len(<<>>) = 0
    BY StackIs
  <2>2. BucketOf(s.asked) = B(t)
    BY StackIs
  <2>3. \A i \in 1 .. 0 : FALSE
    OBVIOUS
  <2>4. s.words = <<>> /\ s.seq % 2 = 0 /\ s.seq <= sequence[B(t)]
        /\ Len(s.words) <= (IF s.probe THEN 0 ELSE MovesOf[s.asked])
        /\ (sequence[B(t)] = s.seq => hash[B(t)] = HashOf[s.asked])
    BY <1>1, <2>1, <2>2 DEF ReaderOK, ReadPlaces
  <2>5. v = value[B(t)]
    OBVIOUS
  <2>. HIDE DEF r, to, v
  <2>. QED BY <1>3, <1>4, <2>1, <2>2, <2>3, <2>4, <2>5 DEF ReaderOK, HitOK
<1>. HIDE DEF r, to
<1>. QED BY <1>1, <1>2, <1>3, <1>4, <1>5, ReadStep DEF WritePlaces

LEMMA ReadPosInv ==
  ASSUME IInv, NEW t \in Threads, ReadPos(t)
  PROVE  IInv'
<1>. DEFINE s == local[t]
            po == pos[B(t)]
            ch == check[B(t)]
            r == [s EXCEPT !.pos = po, !.check = ch, !.pc = "readPriors"]
<1>1. s.pc = "readPos" /\ UNCHANGED sharedVars
  BY DEF ReadPos, At
<1>2. CASE Miss(t)
  BY <1>1, <1>2, MissInv, WritingIs DEF WritePlaces
<1>3. CASE SameMoves(t) /\ local' = [local EXCEPT ![t] = r]
  <2>1. /\ r \in Stacks /\ r.pc = "readPriors" /\ r.asked = s.asked /\ r.probe = s.probe
        /\ r.seq = s.seq /\ r.eval = s.eval /\ r.words = s.words /\ r.check = ch
    <3>1. po \in Nat /\ ch \in Seq(Evals)
      BY StackIs
    <3>. HIDE DEF po, ch
    <3>. QED BY <3>1, StackIs DEF Stacks, Places, ReadPlaces
  <2>2. ReaderOK(s) /\ BucketOf(s.asked) = B(t) /\ ch = check[B(t)] /\ Len(<<>>) = 0
    BY StackIs
  <2>3. s.probe \/ StoredMoves(s.eval) = MovesOf[s.asked]
    BY <1>3 DEF SameMoves
  <2>4. ReaderOK(r) /\ HitOK(r)
    <3>. HIDE DEF r, ch
    <3>. QED BY <1>1, <2>1, <2>2, <2>3 DEF ReaderOK, HitOK, ReadPlaces
  <2>. HIDE DEF r
  <2>. QED BY <1>1, <1>3, <2>1, <2>4, ReadStep DEF WritePlaces
<1>4. SameMoves(t) => local' = [local EXCEPT ![t] = r]
  BY StackIs DEF ReadPos
<1>. QED BY <1>2, <1>3, <1>4 DEF ReadPos

LEMMA ReadPriorInv ==
  ASSUME IInv, NEW t \in Threads, ReadPrior(t)
  PROVE  IInv'
<1>. DEFINE s == local[t]
            i == Len(s.words) + 1
            w == IF compact THEN arena[Cell(s.pos + i - 1)] ELSE priors[B(t)][i]
            ws == Append(s.words, w)
            wanted == IF s.probe THEN 0 ELSE MovesOf[s.asked]
            r == [s EXCEPT !.words = ws]
<1>1. s.pc = "readPriors" /\ Len(s.words) < wanted /\ UNCHANGED sharedVars
  BY DEF ReadPrior, At, Wanted
<1>2. local' = [local EXCEPT ![t] = r]
  BY StackIs DEF ReadPrior
<1>3. s.words \in Seq(Evals) /\ s.pos \in Nat /\ s.probe \in BOOLEAN /\ s \in Stacks
  BY StackIs DEF Stacks
<1>4. i \in 1 .. ArenaSize /\ i <= wanted /\ wanted \in Nat
  <2>1. MovesOf[s.asked] \in 1 .. ArenaSize /\ ArenaSize \in Nat /\ Len(s.words) \in Nat
    BY <1>3, StackIs, CacheAssumption
  <2>2. wanted \in Nat /\ wanted <= ArenaSize
    BY <2>1
  <2>. HIDE DEF wanted
  <2>. QED BY <1>1, <2>1, <2>2
<1>5. w \in Evals
  <2>1. arena \in [0 .. ArenaSize - 1 -> Evals] /\ priors \in [Buckets -> [1 .. ArenaSize -> Evals]]
    BY DEF IInv, TypeOK
  <2>2. Cell(s.pos + i - 1) \in 0 .. ArenaSize - 1
    <3>1. s.pos + i - 1 \in Nat
      BY <1>3
    <3>. QED BY <3>1, CellIn
  <2>. HIDE DEF i
  <2>. QED BY <1>4, <2>1, <2>2, StackIs
<1>6. /\ ws \in Seq(Evals) /\ Len(ws) = i
      /\ \A k \in 1 .. Len(s.words) : ws[k] = s.words[k]
      /\ ws[i] = w
  <2>. HIDE DEF w
  <2>. QED BY <1>3, <1>5
<1>7. /\ r \in Stacks /\ r.pc = s.pc /\ r.asked = s.asked /\ r.probe = s.probe
      /\ r.seq = s.seq /\ r.eval = s.eval /\ r.words = ws /\ r.check = s.check
  <2>. HIDE DEF ws
  <2>. QED BY <1>3, <1>6 DEF Stacks
<1>8. ReaderOK(r) /\ HitOK(r)
  <2>1. ReaderOK(s) /\ BucketOf(s.asked) = B(t)
    BY StackIs
  <2>2. ASSUME ~compact, sequence[B(t)] = s.seq, NEW k \in 1 .. Len(ws)
        PROVE  ws[k] = priors[B(t)][k]
    <3>1. CASE k = i
      BY <1>6, <2>2, <3>1
    <3>2. CASE k # i
      <4>1. k \in 1 .. Len(s.words)
        BY <1>3, <1>6, <3>2
      <4>2. s.words[k] = priors[B(t)][k]
        BY <1>1, <2>1, <2>2, <4>1 DEF ReaderOK, ReadPlaces
      <4>. QED BY <1>6, <4>1, <4>2
    <3>. QED BY <3>1, <3>2
  <2>3. Len(ws) <= wanted
    BY <1>4, <1>6
  <2>. HIDE DEF r, ws, w, i
  <2>. QED BY <1>1, <1>7, <2>1, <2>2, <2>3 DEF ReaderOK, HitOK, ReadPlaces
<1>. HIDE DEF r
<1>. QED BY <1>1, <1>2, <1>7, <1>8, ReadStep DEF WritePlaces

\* A reader that finds the sequence as it was has read one whole bucket.
LEMMA UndisturbedIsWhole ==
  ASSUME IInv, NEW t \in Threads, At(t) = "readPriors", Undisturbed(t)
  PROVE  LET s == local[t]
         IN  /\ s.eval \in Known /\ s.eval = value[B(t)]
             /\ HashOf[evals[s.eval]] = HashOf[s.asked]
             /\ StoredMoves(s.eval) = MovesOf[evals[s.eval]]
             /\ compact => s.check = PriorsOf(s.eval)
             /\ ~compact => \A i \in 1 .. MovesOf[evals[s.eval]] : priors[B(t)][i] = s.eval
             /\ ~compact => \A i \in 1 .. Len(s.words) : s.words[i] = priors[B(t)][i]
<1>. DEFINE s == local[t]
            b == B(t)
<1>1. /\ s.pc = "readPriors" /\ sequence[b] = s.seq /\ b = BucketOf(s.asked)
      /\ ReaderOK(s) /\ BucketOK(b) /\ s \in Stacks
  BY StackIs DEF At, Undisturbed
<1>2. /\ s.seq % 2 = 0 /\ hash[b] = HashOf[s.asked] /\ s.eval = value[b]
      /\ compact => s.check = check[b]
      /\ ~compact => \A i \in 1 .. Len(s.words) : s.words[i] = priors[b][i]
  <2>. HIDE DEF b, s
  <2>. QED BY <1>1 DEF ReaderOK, ReadPlaces
<1>3. HashOf[s.asked] # 0
  BY <1>1, CacheAssumption DEF Stacks
<1>4. /\ value[b] \in Known /\ hash[b] = HashOf[evals[value[b]]]
      /\ compact => check[b] = PriorsOf(value[b])
      /\ ~compact => \A i \in 1 .. MovesOf[evals[value[b]]] : priors[b][i] = value[b]
  <2>. HIDE DEF b, s
  <2>. QED BY <1>1, <1>2, <1>3 DEF BucketOK
<1>5. s.eval # NoEval
  BY <1>2, <1>4 DEF Known, NoEval
<1>. QED BY <1>2, <1>4, <1>5 DEF StoredMoves

LEMMA ReadAgainInv ==
  ASSUME IInv, NEW t \in Threads, ReadAgain(t)
  PROVE  IInv'
<1>. DEFINE s == local[t]
            to == IF compact THEN "readHead" ELSE "hit"
            r == [s EXCEPT !.pc = to]
<1>1. /\ s.pc = "readPriors" /\ At(t) = "readPriors" /\ UNCHANGED sharedVars
      /\ Len(s.words) = IF s.probe THEN 0 ELSE MovesOf[s.asked]
  BY DEF ReadAgain, At, Wanted
<1>2. CASE Miss(t)
  BY <1>1, <1>2, MissInv, WritingIs DEF WritePlaces
<1>3. CASE Undisturbed(t) /\ (compact \/ SameMoves(t)) /\ Goto(t, to)
  <2>1. to \in Places /\ to \in {"readHead", "hit"} /\ (to = "readHead" <=> compact)
    BY DEF Places
  <2>2. /\ r \in Stacks /\ r.pc = to /\ r.asked = s.asked /\ r.probe = s.probe
        /\ r.eval = s.eval /\ r.words = s.words /\ r.check = s.check
    <3>. HIDE DEF to
    <3>. QED BY <2>1, StackIs DEF Stacks
  <2>3. local' = [local EXCEPT ![t] = r]
    <3>. HIDE DEF to
    <3>. QED BY <1>3, StackIs DEF Goto
  <2>4. ~s.probe => MovesOf[evals[s.eval]] = MovesOf[s.asked]
    <3>1. s.probe \/ StoredMoves(s.eval) = MovesOf[s.asked]
      BY <1>1, <1>3, StackIs DEF ReaderOK, ReadPlaces, SameMoves
    <3>. QED BY <1>1, <1>3, <3>1, UndisturbedIsWhole
  <2>5. ~compact /\ ~s.probe => s.words = [i \in 1 .. MovesOf[s.asked] |-> s.eval]
    <3>1. s.words \in Seq(Evals) /\ MovesOf[s.asked] \in Nat
      BY StackIs DEF Stacks
    <3>2. ASSUME ~compact, ~s.probe, NEW i \in 1 .. MovesOf[s.asked]
          PROVE  s.words[i] = s.eval
      BY <1>1, <1>3, <2>4, <3>2, UndisturbedIsWhole
    <3>. HIDE DEF s
    <3>. QED BY <1>1, <3>1, <3>2
  <2>6. ReaderOK(r) /\ HitOK(r)
    <3>1. ReaderOK(r)
      BY <2>1, <2>2 DEF ReaderOK, ReadPlaces
    <3>2. /\ s.eval \in Known /\ HashOf[evals[s.eval]] = HashOf[s.asked]
          /\ compact => s.check = PriorsOf(s.eval)
      BY <1>1, <1>3, UndisturbedIsWhole
    <3>. HIDE DEF r, s, to
    <3>. QED BY <1>1, <2>1, <2>2, <2>4, <2>5, <3>1, <3>2 DEF HitOK
  <2>. HIDE DEF r, to
  <2>. QED BY <1>1, <2>1, <2>2, <2>3, <2>6, ReadStep DEF WritePlaces
<1>. QED BY <1>2, <1>3 DEF ReadAgain

LEMMA ReadHeadInv ==
  ASSUME IInv, NEW t \in Threads, ReadHead(t)
  PROVE  IInv'
<1>. DEFINE s == local[t]
            r == [s EXCEPT !.pc = "hit"]
<1>1. s.pc = "readHead" /\ UNCHANGED sharedVars
  BY DEF ReadHead, At
<1>2. CASE Miss(t)
  BY <1>1, <1>2, MissInv, WritingIs DEF WritePlaces
<1>3. CASE ~Overwritten(t) /\ Goto(t, "hit")
  <2>1. /\ r \in Stacks /\ r.pc = "hit" /\ r.asked = s.asked /\ r.probe = s.probe
        /\ r.eval = s.eval /\ r.words = s.words
    BY StackIs DEF Stacks, Places
  <2>2. local' = [local EXCEPT ![t] = r]
    BY <1>3, StackIs DEF Goto
  <2>3. HitOK(s)
    BY StackIs
  <2>4. ~s.probe => s.words = [i \in 1 .. MovesOf[s.asked] |-> s.eval]
    <3>1. ASSUME ~s.probe PROVE s.words = s.check
      <4>1. s.eval # NoEval
        BY <1>1, <2>3 DEF HitOK, Known, NoEval
      <4>2. Len(s.words) = StoredMoves(s.eval)
        BY <1>1, <2>3, <3>1, <4>1 DEF HitOK, StoredMoves
      <4>. QED BY <1>3, <4>2 DEF Overwritten
    <3>. QED BY <1>1, <2>3, <3>1 DEF HitOK, PriorsOf
  <2>5. ReaderOK(r) /\ HitOK(r)
    <3>. HIDE DEF r, s
    <3>. QED BY <1>1, <2>1, <2>3, <2>4 DEF ReaderOK, HitOK, ReadPlaces
  <2>. HIDE DEF r
  <2>. QED BY <1>1, <2>1, <2>2, <2>5, ReadStep DEF WritePlaces
<1>. QED BY <1>2, <1>3 DEF ReadHead

\* A hit is used; an insertion into a bucket that another thread fills is skipped.
LEMMA LeaveInv ==
  ASSUME IInv, NEW t \in Threads, UseHit(t) \/ Skip(t)
  PROVE  IInv'
<1>1. local[t].pc \in {"hit", "lock"} /\ Return(t) /\ UNCHANGED sharedVars
  BY DEF UseHit, Skip, At
<1>. QED BY <1>1, MissInv, WritingIs DEF WritePlaces

-----------------------------------------------------------------------------
(* A thread writes: its bucket is disturbed, the others are not.            *)

\* The tables have their types, and every range of the arena was reserved.
TablesOK ==
  /\ hash \in [Buckets -> Nat] /\ sequence \in [Buckets -> Nat]
  /\ value \in [Buckets -> Evals]
  /\ priors \in [Buckets -> [1 .. ArenaSize -> Evals]]
  /\ pos \in [Buckets -> Nat] /\ check \in [Buckets -> Seq(Evals)]
  /\ arena \in [0 .. ArenaSize - 1 -> Evals] /\ arena_head \in Nat
  /\ \A b \in Buckets : pos[b] + Len(check[b]) <= arena_head

\* What a step of a writer leaves alone, and how it tells the readers.
Frame(t) ==
  /\ compact' = compact
  /\ \A c \in Buckets \ {B(t)} :
       /\ hash'[c] = hash[c] /\ value'[c] = value[c] /\ priors'[c] = priors[c]
       /\ check'[c] = check[c] /\ sequence'[c] = sequence[c]
  /\ \A e \in Known : e \in Known' /\ evals'[e] = evals[e]
  /\ sequence'[B(t)] \in Nat /\ sequence[B(t)] <= sequence'[B(t)]
  /\ sequence'[B(t)] % 2 = 1 \/ sequence[B(t)] < sequence'[B(t)]
  /\ arena_head' \in Nat /\ arena_head <= arena_head'
  /\ \A u \in Threads \ {t} : local'[u] = local[u] /\ ~(Writing(u) /\ B(u) = B(t))

LEMMA FrameReader ==
  ASSUME IInv, NEW t \in Threads, Frame(t), NEW r \in Stacks, ReaderOK(r)
  PROVE  ReaderOK(r)'
<1>. DEFINE c == BucketOf(r.asked)
<1>. SUFFICES ASSUME r.pc \in ReadPlaces PROVE ReaderOK(r)'
  BY DEF ReaderOK
<1>1. c \in Buckets /\ r.seq \in Nat /\ sequence[c] \in Nat /\ sequence'[c] \in Nat
  BY BucketIn, StackIs DEF Stacks, Frame, IInv, TypeOK
<1>2. r.seq % 2 = 0 /\ r.seq <= sequence[c] /\ sequence[c] <= sequence'[c]
  BY <1>1 DEF ReaderOK, Frame
<1>3. (r.eval = NoEval \/ r.eval \in Known) /\ (r.eval = NoEval \/ r.eval \in Known')
  BY DEF ReaderOK, Frame
<1>4. r.pc = "readPriors" /\ compact' => r.probe \/ StoredMoves(r.eval)' = MovesOf[r.asked]
  <2>1. StoredMoves(r.eval)' = StoredMoves(r.eval)
    BY <1>3 DEF StoredMoves, Frame
  <2>. QED BY <2>1 DEF ReaderOK, Frame
<1>5. ASSUME sequence'[c] = r.seq
      PROVE  /\ c # B(t) /\ sequence[c] = r.seq
  <2>1. CASE c = B(t)
    <3>1. sequence'[c] % 2 = 1 \/ sequence[c] < sequence'[c]
      BY <2>1 DEF Frame
    <3>. QED BY <1>1, <1>2, <1>5, <3>1
  <2>2. CASE c # B(t)
    BY <1>1, <1>5, <2>2 DEF Frame
  <2>. QED BY <2>1, <2>2
<1>6. sequence'[c] = r.seq =>
        /\ r.pc # "readHash" => hash'[c] = HashOf[r.asked]
        /\ r.pc \in {"readPos", "readPriors"} => r.eval = value'[c]
        /\ r.pc = "readPriors" /\ compact' => r.check = check'[c]
        /\ r.pc = "readPriors" /\ ~compact' =>
             \A i \in 1 .. Len(r.words) : r.words[i] = priors'[c][i]
  BY <1>1, <1>5 DEF ReaderOK, Frame
<1>7. /\ r.pc # "readPriors" => r.words = <<>>
      /\ Len(r.words) <= IF r.probe THEN 0 ELSE MovesOf[r.asked]
  BY DEF ReaderOK
<1>8. r.seq <= sequence'[c]
  BY <1>1, <1>2
<1>. QED BY <1>2, <1>3, <1>4, <1>6, <1>7, <1>8 DEF ReaderOK

LEMMA FrameWriter ==
  ASSUME IInv, NEW t \in Threads, Frame(t), NEW r \in Stacks, WriterOK(r),
         r.pc \in WritePlaces => BucketOf(r.asked) # B(t)
  PROVE  WriterOK(r)'
<1>. DEFINE c == BucketOf(r.asked)
<1>. SUFFICES ASSUME r.pc \in WritePlaces PROVE WriterOK(r)'
  BY DEF WriterOK
<1>1. /\ hash'[c] = hash[c] /\ value'[c] = value[c] /\ priors'[c] = priors[c]
      /\ check'[c] = check[c] /\ sequence'[c] = sequence[c]
  BY BucketIn DEF Stacks, Frame
<1>2. /\ r.eval \in Known /\ r.eval \in Known' /\ evals'[r.eval] = evals[r.eval]
      /\ PriorsOf(r.eval)' = PriorsOf(r.eval) /\ compact' = compact
  BY DEF WriterOK, Frame, PriorsOf
<1>3. r.pos + MovesOf[r.asked] <= arena_head => r.pos + MovesOf[r.asked] <= arena_head'
  <2>1. r.pos \in Nat /\ MovesOf[r.asked] \in Nat
    BY CacheAssumption DEF Stacks
  <2>2. arena_head \in Nat /\ arena_head' \in Nat /\ arena_head <= arena_head'
    BY DEF Frame, IInv, TypeOK
  <2>. QED BY <2>1, <2>2
<1>. QED BY <1>1, <1>2, <1>3 DEF WriterOK

LEMMA FrameHit ==
  ASSUME IInv, NEW t \in Threads, Frame(t), NEW r \in Stacks, HitOK(r)
  PROVE  HitOK(r)'
<1>1. ASSUME r.pc \in {"readHead", "hit"}
      PROVE  /\ r.eval \in Known' /\ evals'[r.eval] = evals[r.eval]
             /\ PriorsOf(r.eval)' = PriorsOf(r.eval)
  BY <1>1 DEF HitOK, Frame, PriorsOf
<1>. QED BY <1>1 DEF HitOK

LEMMA FrameBucket ==
  ASSUME IInv, NEW t \in Threads, Frame(t), NEW c \in Buckets \ {B(t)}
  PROVE  BucketOK(c)'
<1>1. /\ hash'[c] = hash[c] /\ value'[c] = value[c] /\ priors'[c] = priors[c]
      /\ check'[c] = check[c] /\ sequence'[c] = sequence[c] /\ compact' = compact
  BY DEF Frame
<1>2. BucketOK(c)
  BY DEF IInv
<1>3. ASSUME value[c] \in Known
      PROVE  /\ value[c] \in Known' /\ evals'[value[c]] = evals[value[c]]
             /\ PriorsOf(value[c])' = PriorsOf(value[c])
  BY <1>1, <1>3 DEF Frame, PriorsOf
<1>. QED BY <1>1, <1>2, <1>3 DEF BucketOK

\* A step of a thread that writes, or begins to, or ends.
LEMMA FrameKeeps ==
  ASSUME IInv, NEW t \in Threads, Frame(t), TablesOK',
         evals' \in Seq(Positions), Len(evals') <= MaxEvals,
         NEW r \in Stacks, local' = [local EXCEPT ![t] = r],
         WriterOK(r)', ReaderOK(r)', HitOK(r)', Fresh(r),
         NEW b \in Buckets, b = B(t), BucketOK(b)',
         r.pc \in WritePlaces => r.asked = local[t].asked,
         r.pc \notin WritePlaces => sequence'[b] % 2 = 0
  PROVE  IInv'
<1>1. local'[t] = r /\ local' \in [Threads -> Stacks]
  BY StackIs
<1>2. TypeOK'
  BY <1>1 DEF IInv, TypeOK, TablesOK, Frame, Stacks, Places, WritePlaces, ReadPlaces
<1>3. \A u \in Threads : /\ Writing(u)' <=> local'[u].pc \in WritePlaces
                         /\ B(u)' = BucketOf(local'[u].asked)
  BY DEF Writing, At, WritePlaces, B, BucketOf
<1>4. \A u \in Threads \ {t} : (Writing(u)' <=> Writing(u)) /\ B(u)' = B(u)
  BY <1>3, WritingIs DEF Frame
<1>5. r.pc \in WritePlaces => Writing(t)' /\ B(t)' = b
  BY <1>1, <1>3, WritingIs
<1>6. r.pc \notin WritePlaces => ~Writing(t)'
  BY <1>1, <1>3
<1>7. OneWriter'
  <2>1. ASSUME NEW u \in Threads, NEW v \in Threads, Writing(u)', Writing(v)', B(u)' = B(v)'
        PROVE  u = v
    <3>1. CASE u # t /\ v # t
      BY <1>4, <2>1, <3>1 DEF IInv, OneWriter
    <3>2. CASE u = t /\ v # t
      BY <1>4, <1>5, <1>6, <2>1, <3>2 DEF Frame
    <3>3. CASE u # t /\ v = t
      BY <1>4, <1>5, <1>6, <2>1, <3>3 DEF Frame
    <3>. QED BY <3>1, <3>2, <3>3
  <2>2. ASSUME NEW c \in Buckets, sequence'[c] % 2 = 1
        PROVE  \E u \in Threads : Writing(u)' /\ B(u)' = c
    <3>1. CASE c = b
      <4>1. sequence'[b] % 2 # 0
        BY <2>2, <3>1
      <4>. QED BY <1>5, <3>1, <4>1
    <3>2. CASE c # b
      <4>1. sequence[c] % 2 = 1
        BY <2>2, <3>2 DEF Frame
      <4>2. PICK u \in Threads : Writing(u) /\ B(u) = c
        BY <4>1 DEF IInv, OneWriter
      <4>. QED BY <1>4, <3>2, <4>2
    <3>. QED BY <3>1, <3>2
  <2>. QED BY <2>1, <2>2 DEF OneWriter
<1>8. ASSUME NEW c \in Buckets PROVE BucketOK(c)'
  <2>1. CASE c # b
    BY <2>1, FrameBucket
  <2>2. CASE c = b
    BY <2>2
  <2>. QED BY <2>1, <2>2
<1>9. ASSUME NEW u \in Threads, u # t PROVE StackOK(local[u])'
  <2>1. local[u] \in Stacks /\ local'[u] = local[u] /\ StackOK(local[u])
    BY <1>9, StackIs DEF Frame, IInv
  <2>2. PICK x \in Stacks : x = local[u]
    BY <2>1
  <2>3. x.pc \in WritePlaces => BucketOf(x.asked) # B(t)
    BY <1>9, <2>2, WritingIs DEF Frame
  <2>4. WriterOK(x)' /\ ReaderOK(x)' /\ HitOK(x)' /\ Fresh(x)
    BY <2>1, <2>2, <2>3, FrameReader, FrameWriter, FrameHit DEF StackOK
  <2>5. local'[u] = x
    BY <2>1, <2>2
  <2>6. WriterOK(local[u])' /\ Fresh(local[u])'
    BY <2>4, <2>5 DEF WriterOK, Fresh
  <2>7. ReaderOK(local[u])'
    BY <2>4, <2>5 DEF ReaderOK
  <2>8. HitOK(local[u])'
    <3>. DEFINE y == local'[u]
    <3>0. y = x
      BY <2>5
    <3>. HIDE DEF y
    <3>1. y.pc = "hit" /\ ~y.probe => y.words = [i \in 1 .. MovesOf[y.asked] |-> y.eval]
      <4>1. x.pc = "hit" /\ ~x.probe => x.words = [i \in 1 .. MovesOf[x.asked] |-> x.eval]
        BY <2>4 DEF HitOK
      <4>. QED BY <3>0, <4>1, Zenon
    <3>2. y.pc = "readHead" => y.check = [i \in 1 .. MovesOf[evals'[y.eval]] |-> y.eval]
      <4>1. x.pc = "readHead" => x.check = [i \in 1 .. MovesOf[evals'[x.eval]] |-> x.eval]
        BY <2>4 DEF HitOK, PriorsOf
      <4>. QED BY <3>0, <4>1, Zenon
    <3>3. y.pc \in {"readHead", "hit"} =>
            /\ y.eval \in Known' /\ HashOf[evals'[y.eval]] = HashOf[y.asked]
            /\ ~y.probe => MovesOf[evals'[y.eval]] = MovesOf[y.asked]
            /\ y.pc = "readHead" /\ ~y.probe => Len(y.words) = MovesOf[y.asked]
      BY <2>4, <3>0 DEF HitOK
    <3>. QED BY <3>1, <3>2, <3>3 DEF HitOK, PriorsOf, y
  <2>. QED BY <2>6, <2>7, <2>8 DEF StackOK
<1>10. StackOK(local[t])'
  BY <1>1 DEF StackOK, WriterOK, ReaderOK, HitOK, Fresh
<1>. QED BY <1>2, <1>7, <1>8, <1>9, <1>10 DEF IInv

\* A writer's bucket is odd, and the others do not write to it.
LEMMA WriterAlone ==
  ASSUME IInv, NEW t \in Threads, local[t].pc \in WritePlaces
  PROVE  /\ sequence[B(t)] % 2 = 1 /\ sequence[B(t)] = local[t].seq + 1
         /\ local[t].seq % 2 = 0 /\ local[t].seq \in Nat
         /\ local[t].eval \in Known
         /\ \A u \in Threads \ {t} : ~(Writing(u) /\ B(u) = B(t))
<1>1. /\ sequence[B(t)] = local[t].seq + 1 /\ local[t].seq % 2 = 0 /\ local[t].seq \in Nat
      /\ local[t].eval \in Known
  BY StackIs DEF WriterOK, Stacks
<1>2. sequence[B(t)] % 2 = 1
  BY <1>1, Parity
<1>3. \A u \in Threads \ {t} : ~(Writing(u) /\ B(u) = B(t))
  BY WritingIs DEF IInv, OneWriter
<1>. QED BY <1>1, <1>2, <1>3

LEMMA TablesIs == IInv => TablesOK
BY DEF IInv, TypeOK, TablesOK

\* A step between the two writes of the sequence.
LEMMA WriteStep ==
  ASSUME IInv, NEW t \in Threads, local[t].pc \in WritePlaces,
         UNCHANGED <<compact, sequence, evals>>, TablesOK',
         \A c \in Buckets \ {B(t)} : /\ hash'[c] = hash[c] /\ value'[c] = value[c]
                                     /\ priors'[c] = priors[c] /\ check'[c] = check[c],
         value'[B(t)] \in {value[B(t)], local[t].eval}, arena_head <= arena_head',
         NEW r \in Stacks, local' = [local EXCEPT ![t] = r],
         r.asked = local[t].asked, r.pc \in WritePlaces, WriterOK(r)'
  PROVE  IInv'
<1>1. PICK b \in Buckets : b = B(t)
  BY StackIs
<1>2. Known' = Known
  BY DEF Known
<1>3. Frame(t)
  <2>1. \A u \in Threads \ {t} : local'[u] = local[u] /\ ~(Writing(u) /\ B(u) = B(t))
    BY WriterAlone, StackIs
  <2>2. sequence'[B(t)] \in Nat /\ sequence[B(t)] <= sequence'[B(t)]
    BY StackIs
  <2>. QED BY <1>2, <2>1, <2>2, WriterAlone DEF Frame, TablesOK
<1>4. BucketOK(b)'
  <2>1. sequence'[b] % 2 = 1 /\ sequence'[b] # 0
    BY <1>1, WriterAlone, StackIs
  <2>2. value'[b] = NoEval \/ value'[b] \in Known'
    BY <1>1, <1>2, WriterAlone, StackIs DEF BucketOK
  <2>. QED BY <2>1, <2>2 DEF BucketOK
<1>5. ReaderOK(r)' /\ HitOK(r)' /\ Fresh(r)
  BY DEF ReaderOK, HitOK, Fresh, WritePlaces, ReadPlaces
<1>6. evals' \in Seq(Positions) /\ Len(evals') <= MaxEvals
  BY DEF IInv, TypeOK
<1>. QED BY <1>1, <1>3, <1>4, <1>5, <1>6, FrameKeeps

LEMMA ReserveInv ==
  ASSUME IInv, NEW t \in Threads, Reserve(t)
  PROVE  IInv'
<1>. PICK s \in Stacks : s = local[t]
  BY StackIs
<1>. PICK h \in Nat : h = arena_head
  BY DEF IInv, TypeOK
<1>. DEFINE n == MovesOf[s.asked]
<1>1. /\ s.pc = "reserve" /\ arena_head' = h + n
      /\ UNCHANGED <<compact, hash, sequence, value, priors, pos, check, arena, evals>>
  BY DEF Reserve, At, bucketVars
<1>2. PICK r \in Stacks :
        /\ local' = [local EXCEPT ![t] = r]
        /\ r.pc = "writeArena" /\ r.asked = s.asked /\ r.eval = s.eval
        /\ r.seq = s.seq /\ r.words = s.words /\ r.pos = h
  <2>. DEFINE q == [s EXCEPT !.pos = h, !.pc = "writeArena"]
  <2>1. local' = [local EXCEPT ![t] = q]
    BY StackIs DEF Reserve
  <2>2. q \in Stacks
    BY DEF Stacks, Places, WritePlaces
  <2>. QED BY <2>1, <2>2 DEF Stacks
<1>3. n \in Nat /\ h + n \in Nat /\ h <= h + n
  <2>1. n \in Nat
    BY CacheAssumption, SMTT(30) DEF Stacks
  <2>. HIDE DEF n
  <2>. QED BY <2>1
<1>4. TablesOK'
  <2>. HIDE DEF n
  <2>1. \A b \in Buckets : pos[b] \in Nat /\ Len(check[b]) \in Nat /\ pos[b] + Len(check[b]) <= h
    BY TablesIs DEF TablesOK
  <2>. QED BY <1>1, <1>3, <2>1, TablesIs DEF TablesOK
<1>6. WriterOK(r)'
  <2>1. WriterOK(s)
    BY StackIs
  <2>2. PriorsOf(r.eval)' = PriorsOf(s.eval) /\ Known' = Known
    BY <1>1, <1>2 DEF PriorsOf, Known
  <2>3. s.words = <<>> /\ Len(<<>>) = 0 /\ compact
    BY <1>1, <2>1 DEF WriterOK, WritePlaces
  <2>. QED BY <1>1, <1>2, <1>3, <2>1, <2>2, <2>3 DEF WriterOK, WritePlaces
<1>. QED BY <1>1, <1>2, <1>3, <1>4, <1>6, WriteStep DEF WritePlaces

LEMMA WriteHashInv ==
  ASSUME IInv, NEW t \in Threads, WriteHash(t)
  PROVE  IInv'
<1>. PICK s \in Stacks : s = local[t]
  BY StackIs
<1>1. /\ s.pc \in {"writeHash", "writeArena"} /\ hash' = [hash EXCEPT ![B(t)] = HashOf[s.asked]]
      /\ UNCHANGED <<compact, sequence, value, priors, pos, check, arena, arena_head, evals>>
  BY DEF WriteHash, At, arenaVars
<1>2. PICK r \in Stacks :
        /\ local' = [local EXCEPT ![t] = r]
        /\ r.pc = "writeValue" /\ r.asked = s.asked /\ r.eval = s.eval
        /\ r.seq = s.seq /\ r.words = s.words /\ r.pos = s.pos
  <2>. DEFINE q == [s EXCEPT !.pc = "writeValue"]
  <2>1. local' = [local EXCEPT ![t] = q]
    BY StackIs DEF WriteHash, Goto
  <2>2. q \in Stacks
    BY DEF Stacks, Places, WritePlaces
  <2>. QED BY <2>1, <2>2 DEF Stacks
<1>3. HashOf[s.asked] \in Nat /\ B(t) \in Buckets
  BY StackIs, CacheAssumption DEF Stacks
<1>4. TablesOK'
  BY <1>1, <1>3, TablesIs DEF TablesOK
<1>5. /\ hash'[B(t)] = HashOf[s.asked] /\ arena_head <= arena_head'
      /\ \A c \in Buckets \ {B(t)} : hash'[c] = hash[c]
  BY <1>1, <1>3, TablesIs DEF TablesOK
<1>6. WriterOK(r)'
  <2>1. WriterOK(s) /\ BucketOf(s.asked) = B(t)
    BY StackIs
  <2>2. PriorsOf(r.eval)' = PriorsOf(s.eval) /\ Known' = Known
    BY <1>1, <1>2 DEF PriorsOf, Known
  <2>. QED BY <1>1, <1>2, <1>5, <2>1, <2>2 DEF WriterOK, WritePlaces
<1>. QED BY <1>1, <1>2, <1>4, <1>5, <1>6, WriteStep DEF WritePlaces

LEMMA WriteValueInv ==
  ASSUME IInv, NEW t \in Threads, WriteValue(t)
  PROVE  IInv'
<1>. PICK s \in Stacks : s = local[t]
  BY StackIs
<1>. PICK to \in WritePlaces : to = IF compact THEN "writePos" ELSE "writePriors"
  BY DEF WritePlaces
<1>1. /\ s.pc = "writeValue" /\ value' = [value EXCEPT ![B(t)] = s.eval]
      /\ UNCHANGED <<compact, hash, sequence, priors, pos, check, arena, arena_head, evals>>
  BY DEF WriteValue, At, arenaVars
<1>2. PICK r \in Stacks :
        /\ local' = [local EXCEPT ![t] = r]
        /\ r.pc = to /\ r.asked = s.asked /\ r.eval = s.eval
        /\ r.seq = s.seq /\ r.words = s.words /\ r.pos = s.pos
  <2>. DEFINE q == [s EXCEPT !.pc = to]
  <2>1. local' = [local EXCEPT ![t] = q]
    BY StackIs DEF WriteValue, Goto
  <2>2. q \in Stacks
    BY DEF Stacks, Places
  <2>. QED BY <2>1, <2>2 DEF Stacks
<1>3. to \in {"writePos", "writePriors"} /\ (to = "writePos" <=> compact)
  OBVIOUS
<1>4. TablesOK' /\ value'[B(t)] = s.eval /\ \A c \in Buckets \ {B(t)} : value'[c] = value[c]
  BY <1>1, TablesIs, StackIs DEF TablesOK, Stacks
<1>6. WriterOK(r)'
  <2>1. WriterOK(s) /\ BucketOf(s.asked) = B(t)
    BY StackIs
  <2>2. PriorsOf(r.eval)' = PriorsOf(s.eval) /\ Known' = Known
    BY <1>1, <1>2 DEF PriorsOf, Known
  <2>3. (~compact => s.words = <<>>) /\ Len(<<>>) = 0
    BY <1>1, <2>1 DEF WriterOK, WritePlaces
  <2>. QED BY <1>1, <1>2, <1>3, <1>4, <2>1, <2>2, <2>3 DEF WriterOK, WritePlaces
<1>7. arena_head <= arena_head'
  BY <1>1, TablesIs DEF TablesOK
<1>. QED BY <1>1, <1>2, <1>4, <1>6, <1>7, WriteStep DEF WritePlaces

\* The priors that go with an evaluation, as a list.
LEMMA PriorsAre ==
  ASSUME IInv, NEW e \in Known
  PROVE  PriorsOf(e) \in Seq(Evals) /\ Len(PriorsOf(e)) = MovesOf[evals[e]]
<1>1. e \in Evals /\ evals[e] \in Positions
  BY CacheAssumption DEF Known, Evals, IInv, TypeOK
<1>2. MovesOf[evals[e]] \in Nat
  BY <1>1, CacheAssumption
<1>. QED BY <1>1, <1>2 DEF PriorsOf

LEMMA WritePosInv ==
  ASSUME IInv, NEW t \in Threads, WritePos(t)
  PROVE  IInv'
<1>. PICK s \in Stacks : s = local[t]
  BY StackIs
<1>1. /\ s.pc = "writePos"
      /\ pos' = [pos EXCEPT ![B(t)] = s.pos]
      /\ check' = [check EXCEPT ![B(t)] = PriorsOf(s.eval)]
      /\ UNCHANGED <<compact, hash, sequence, value, priors, arena, arena_head, evals>>
  BY DEF WritePos, At, arenaVars
<1>2. PICK r \in Stacks :
        /\ local' = [local EXCEPT ![t] = r]
        /\ r.pc = "publish" /\ r.asked = s.asked /\ r.eval = s.eval
        /\ r.seq = s.seq /\ r.words = s.words /\ r.pos = s.pos
  <2>. DEFINE q == [s EXCEPT !.pc = "publish"]
  <2>1. local' = [local EXCEPT ![t] = q]
    BY StackIs DEF WritePos, Goto
  <2>2. q \in Stacks
    BY DEF Stacks, Places, WritePlaces
  <2>. QED BY <2>1, <2>2 DEF Stacks
<1>3. WriterOK(s) /\ BucketOf(s.asked) = B(t) /\ B(t) \in Buckets
  BY StackIs
<1>4. /\ compact /\ s.eval \in Known /\ evals[s.eval] = s.asked
      /\ s.pos + MovesOf[s.asked] <= arena_head
  BY <1>1, <1>3 DEF WriterOK, WritePlaces
<1>5. /\ check'[B(t)] = PriorsOf(s.eval) /\ pos'[B(t)] = s.pos
      /\ \A c \in Buckets \ {B(t)} : check'[c] = check[c] /\ pos'[c] = pos[c]
  BY <1>1, <1>3, TablesIs DEF TablesOK
<1>6. TablesOK'
  <2>1. PriorsOf(s.eval) \in Seq(Evals) /\ Len(PriorsOf(s.eval)) = MovesOf[s.asked] /\ s.pos \in Nat
    BY <1>4, PriorsAre DEF Stacks
  <2>2. check' \in [Buckets -> Seq(Evals)] /\ pos' \in [Buckets -> Nat]
    BY <1>1, <2>1, TablesIs DEF TablesOK
  <2>3. ASSUME NEW b \in Buckets PROVE pos'[b] + Len(check'[b]) <= arena_head'
    <3>1. CASE b = B(t)
      BY <1>1, <1>4, <1>5, <2>1, <3>1
    <3>2. CASE b # B(t)
      BY <1>1, <1>5, <3>2, TablesIs DEF TablesOK
    <3>. QED BY <3>1, <3>2
  <2>. QED BY <1>1, <2>2, <2>3, TablesIs DEF TablesOK
<1>7. WriterOK(r)'
  <2>1. PriorsOf(r.eval)' = PriorsOf(s.eval) /\ Known' = Known
    BY <1>1, <1>2 DEF PriorsOf, Known
  <2>. QED BY <1>1, <1>2, <1>3, <1>5, <2>1 DEF WriterOK, WritePlaces
<1>8. arena_head <= arena_head'
  BY <1>1, TablesIs DEF TablesOK
<1>. QED BY <1>1, <1>2, <1>5, <1>6, <1>7, <1>8, WriteStep DEF WritePlaces

LEMMA WritePriorInv ==
  ASSUME IInv, NEW t \in Threads, WritePrior(t)
  PROVE  IInv'
<1>. PICK s \in Stacks : s = local[t]
  BY StackIs
<1>. DEFINE i == Len(s.words) + 1
            ws == Append(s.words, s.eval)
<1>1. /\ s.pc \in {"writeArena", "writePriors"} /\ Len(s.words) < MovesOf[s.asked]
      /\ UNCHANGED <<compact, hash, sequence, value, pos, check, arena_head, evals>>
  BY DEF WritePrior, At
<1>2. PICK r \in Stacks :
        /\ local' = [local EXCEPT ![t] = r]
        /\ r.pc = s.pc /\ r.asked = s.asked /\ r.eval = s.eval
        /\ r.seq = s.seq /\ r.words = ws /\ r.pos = s.pos
  <2>. DEFINE q == [s EXCEPT !.words = ws]
  <2>1. local' = [local EXCEPT ![t] = q]
    BY StackIs DEF WritePrior
  <2>2. q \in Stacks
    <3>1. ws \in Seq(Evals)
      BY DEF Stacks
    <3>. HIDE DEF ws
    <3>. QED BY <3>1 DEF Stacks
  <2>. HIDE DEF ws
  <2>. QED BY <2>1, <2>2 DEF Stacks
<1>3. WriterOK(s) /\ BucketOf(s.asked) = B(t) /\ B(t) \in Buckets /\ TablesOK
  BY StackIs, TablesIs
<1>4. /\ s.words \in Seq(Evals) /\ s.eval \in Evals /\ s.pos \in Nat /\ i \in Nat /\ i >= 1
      /\ MovesOf[s.asked] \in 1 .. ArenaSize /\ ArenaSize \in Nat
      /\ Len(ws) = i
  BY CacheAssumption, SMTT(30) DEF Stacks
<1>5. i \in 1 .. ArenaSize /\ i <= MovesOf[s.asked]
  <2>. HIDE DEF ws
  <2>. QED BY <1>1, <1>4
<1>6. /\ compact => /\ arena' = [arena EXCEPT ![Cell(s.pos + i - 1)] = s.eval]
                    /\ priors' = priors
      /\ ~compact => priors' = [priors EXCEPT ![B(t)][i] = s.eval] /\ arena' = arena
  BY DEF WritePrior
<1>7. /\ TablesOK'
      /\ \A c \in Buckets \ {B(t)} : priors'[c] = priors[c]
      /\ ~compact => \A k \in 1 .. ArenaSize :
           priors'[B(t)][k] = IF k = i THEN s.eval ELSE priors[B(t)][k]
  <2>. HIDE DEF i
  <2>1. CASE compact
    BY <1>1, <1>3, <1>4, <1>6, <2>1 DEF TablesOK
  <2>2. CASE ~compact
    <3>1. priors' = [priors EXCEPT ![B(t)] = [priors[B(t)] EXCEPT ![i] = s.eval]]
      BY <1>6, <2>2
    <3>2. priors \in [Buckets -> [1 .. ArenaSize -> Evals]]
      BY <1>3 DEF TablesOK
    <3>3. [priors[B(t)] EXCEPT ![i] = s.eval] \in [1 .. ArenaSize -> Evals]
      BY <1>3, <1>4, <3>2
    <3>4. priors' \in [Buckets -> [1 .. ArenaSize -> Evals]]
      BY <3>1, <3>2, <3>3
    <3>5. \A c \in Buckets \ {B(t)} : priors'[c] = priors[c]
      BY <3>1, <3>2
    <3>6. \A k \in 1 .. ArenaSize :
            priors'[B(t)][k] = IF k = i THEN s.eval ELSE priors[B(t)][k]
      BY <1>3, <3>1, <3>2
    <3>7. TablesOK'
      BY <1>1, <1>3, <1>6, <2>2, <3>4 DEF TablesOK
    <3>. QED BY <2>2, <3>5, <3>6, <3>7
  <2>. QED BY <2>1, <2>2
<1>8. WriterOK(r)'
  <2>1. PriorsOf(r.eval)' = PriorsOf(s.eval) /\ Known' = Known
    BY <1>1, <1>2 DEF PriorsOf, Known
  <2>2. ASSUME s.pc = "writePriors", NEW k \in 1 .. Len(ws)
        PROVE  priors'[B(t)][k] = s.eval
    <3>1. ~compact /\ k \in 1 .. ArenaSize
      BY <1>3, <1>4, <1>5, <2>2 DEF WriterOK, WritePlaces
    <3>2. CASE k = i
      BY <1>7, <3>1, <3>2
    <3>3. CASE k # i
      <4>1. k \in 1 .. Len(s.words)
        BY <1>4, <3>3
      <4>2. priors[B(t)][k] = s.eval
        BY <1>3, <2>2, <4>1 DEF WriterOK, WritePlaces
      <4>. QED BY <1>7, <3>1, <3>3, <4>2
    <3>. QED BY <3>2, <3>3
  <2>. HIDE DEF ws, i
  <2>. QED BY <1>1, <1>2, <1>3, <1>4, <1>5, <2>1, <2>2 DEF WriterOK, WritePlaces
<1>9. arena_head <= arena_head'
  BY <1>1, <1>3 DEF TablesOK
<1>. HIDE DEF ws, i
<1>. QED BY <1>1, <1>2, <1>7, <1>8, <1>9, WriteStep DEF WritePlaces

LEMMA LockInv ==
  ASSUME IInv, NEW t \in Threads, Lock(t)
  PROVE  IInv'
<1>. PICK s \in Stacks : s = local[t]
  BY StackIs
<1>. PICK b \in Buckets : b = B(t)
  BY StackIs
<1>. PICK n \in Nat : n = sequence[b]
  BY StackIs
<1>. PICK e \in Nat : e = Len(evals) + 1
  BY DEF IInv, TypeOK
<1>. PICK to \in WritePlaces : to = IF compact THEN "reserve" ELSE "writeHash"
  BY DEF WritePlaces
<1>1. /\ s.pc = "lock" /\ n % 2 # 1 /\ Len(evals) < MaxEvals
      /\ evals' = Append(evals, s.asked) /\ sequence' = [sequence EXCEPT ![b] = n + 1]
      /\ UNCHANGED <<compact, hash, value, priors, pos, check, arena, arena_head>>
  BY DEF Lock, At, SequenceIsOdd, arenaVars
<1>2. /\ evals \in Seq(Positions) /\ s.asked \in Positions
      /\ Len(evals) \in Nat /\ MaxEvals \in Nat
  BY CacheAssumption DEF IInv, TypeOK, Stacks
<1>3. /\ evals' \in Seq(Positions) /\ Len(evals') = e /\ e <= MaxEvals /\ evals'[e] = s.asked
      /\ \A k \in 1 .. Len(evals) : evals'[k] = evals[k]
  BY <1>1, <1>2
<1>4. e \in Known' /\ e \in Evals /\ \A k \in Known : k \in Known' /\ evals'[k] = evals[k]
  BY <1>2, <1>3 DEF Known, Evals
<1>5. PICK r \in Stacks :
        /\ local' = [local EXCEPT ![t] = r]
        /\ r.pc = to /\ r.asked = s.asked /\ r.eval = e
        /\ r.seq = n /\ r.words = s.words
  <2>. DEFINE q == [s EXCEPT !.eval = e, !.seq = n, !.pc = to]
  <2>1. local' = [local EXCEPT ![t] = q]
    BY StackIs DEF Lock
  <2>2. q \in Stacks
    BY <1>4 DEF Stacks, Places
  <2>. QED BY <2>1, <2>2 DEF Stacks
<1>6. n % 2 = 0 /\ (n + 1) % 2 = 1 /\ n + 1 # 0
  <2>1. n % 2 \in {0, 1} /\ (n % 2 = 0 => (n + 1) % 2 = 1)
    BY Parity
  <2>. QED BY <1>1, <2>1
<1>7. /\ TablesOK' /\ sequence'[b] = n + 1
      /\ \A c \in Buckets \ {b} : sequence'[c] = sequence[c]
  BY <1>1, TablesIs, SMTT(30) DEF TablesOK
<1>8. Frame(t)
  <2>1. ASSUME NEW u \in Threads, u # t, Writing(u), B(u) = B(t) PROVE FALSE
    <3>1. sequence[b] % 2 = 1
      BY <2>1, WriterAlone, WritingIs
    <3>. QED BY <1>6, <3>1
  <2>2. \A u \in Threads \ {t} : local'[u] = local[u]
    BY <1>5, StackIs
  <2>3. arena_head' \in Nat /\ arena_head <= arena_head'
    BY <1>1, TablesIs DEF TablesOK
  <2>4. sequence'[b] \in Nat /\ sequence[b] <= sequence'[b] /\ sequence[b] < sequence'[b]
    BY <1>7
  <2>. QED BY <1>1, <1>4, <1>7, <2>1, <2>2, <2>3, <2>4 DEF Frame
<1>9. BucketOK(b)'
  <2>1. value'[b] = NoEval \/ value'[b] \in Known'
    BY <1>1, <1>4, StackIs DEF BucketOK
  <2>2. sequence'[b] % 2 # 0 /\ sequence'[b] # 0
    BY <1>6, <1>7
  <2>. QED BY <2>1, <2>2 DEF BucketOK
<1>10. WriterOK(r)'
  <2>1. r.words = <<>> /\ Len(<<>>) = 0 /\ BucketOf(r.asked) = b /\ MovesOf[r.asked] \in Nat
    BY <1>1, <1>5, StackIs, CacheAssumption, SMTT(30) DEF Fresh, Stacks
  <2>2. to \in {"reserve", "writeHash"} /\ (to = "reserve" <=> compact) /\ compact' = compact
    BY <1>1
  <2>. QED BY <1>3, <1>4, <1>5, <1>6, <1>7, <2>1, <2>2 DEF WriterOK
<1>11. ReaderOK(r)' /\ HitOK(r)' /\ Fresh(r)
  BY <1>5 DEF ReaderOK, HitOK, Fresh, WritePlaces, ReadPlaces
<1>. QED BY <1>3, <1>5, <1>7, <1>8, <1>9, <1>10, <1>11, FrameKeeps

LEMMA PublishInv ==
  ASSUME IInv, NEW t \in Threads, Publish(t)
  PROVE  IInv'
<1>. PICK s \in Stacks : s = local[t]
  BY StackIs
<1>. PICK b \in Buckets : b = B(t)
  BY StackIs
<1>1. /\ \/ s.pc = "publish"
         \/ s.pc = "writePriors" /\ Len(s.words) = MovesOf[s.asked]
      /\ sequence' = [sequence EXCEPT ![b] = s.seq + 2]
      /\ UNCHANGED <<compact, hash, value, priors, pos, check, arena, arena_head, evals>>
  BY DEF Publish, At, arenaVars
<1>2. /\ s.seq % 2 = 0 /\ s.seq \in Nat /\ sequence[b] = s.seq + 1
      /\ \A u \in Threads \ {t} : ~(Writing(u) /\ B(u) = B(t))
  BY <1>1, WriterAlone DEF WritePlaces
<1>3. (s.seq + 2) % 2 = 0 /\ s.seq + 2 \in Nat /\ s.seq + 1 < s.seq + 2
  BY <1>2, Parity
<1>4. /\ TablesOK' /\ sequence'[b] = s.seq + 2
      /\ \A c \in Buckets \ {b} : sequence'[c] = sequence[c]
  BY <1>1, <1>3, TablesIs DEF TablesOK
<1>5. PICK r \in Stacks : local' = [local EXCEPT ![t] = r] /\ r.pc = "idle"
  <2>1. (CHOOSE p \in Positions : TRUE) \in Positions
    BY DEF Stacks
  <2>2. Idle \in Stacks /\ Idle.pc = "idle"
    BY <2>1, AskingIs DEF Idle, Places
  <2>. QED BY <2>2 DEF Publish, Return
<1>6. Frame(t)
  <2>1. \A u \in Threads \ {t} : local'[u] = local[u]
    BY <1>5, StackIs
  <2>2. arena_head' \in Nat /\ arena_head <= arena_head'
    BY <1>1, TablesIs DEF TablesOK
  <2>3. sequence'[b] \in Nat /\ sequence[b] < sequence'[b] /\ sequence[b] <= sequence'[b]
    BY <1>2, <1>3, <1>4
  <2>4. \A k \in Known : k \in Known' /\ evals'[k] = evals[k]
    BY <1>1 DEF Known
  <2>. QED BY <1>1, <1>2, <1>4, <2>1, <2>2, <2>3, <2>4 DEF Frame
<1>7. BucketOK(b)'
  <2>1. WriterOK(s) /\ BucketOf(s.asked) = b
    BY StackIs
  <2>2. /\ s.eval \in Known /\ evals[s.eval] = s.asked /\ hash[b] = HashOf[s.asked]
        /\ value[b] = s.eval
        /\ compact => check[b] = PriorsOf(s.eval)
        /\ ~compact => \A i \in 1 .. MovesOf[s.asked] : priors[b][i] = s.eval
    BY <1>1, <2>1 DEF WriterOK, WritePlaces
  <2>3. Known' = Known /\ PriorsOf(s.eval)' = PriorsOf(s.eval)
    BY <1>1 DEF Known, PriorsOf
  <2>4. sequence'[b] # 0
    BY <1>2, <1>4
  <2>5. compact' => check'[b] = PriorsOf(value[b])'
    BY <1>1, <2>2, <2>3 DEF PriorsOf
  <2>. QED BY <1>1, <2>2, <2>3, <2>4, <2>5 DEF BucketOK, PriorsOf
<1>8. WriterOK(r)' /\ ReaderOK(r)' /\ HitOK(r)' /\ Fresh(r)
  BY <1>5 DEF WriterOK, ReaderOK, HitOK, Fresh, WritePlaces, ReadPlaces
<1>9. evals' \in Seq(Positions) /\ Len(evals') <= MaxEvals
  BY <1>1 DEF IInv, TypeOK
<1>10. r.pc \notin WritePlaces /\ sequence'[b] % 2 = 0
  BY <1>3, <1>4, <1>5 DEF WritePlaces
<1>. QED BY <1>4, <1>5, <1>6, <1>7, <1>8, <1>9, <1>10, FrameKeeps
-----------------------------------------------------------------------------
(* The invariant, and what it says.                                         *)

LEMMA InitInv == Init => IInv
<1>. SUFFICES ASSUME Init PROVE IInv
  OBVIOUS
<1>1. (CHOOSE p \in Positions : TRUE) \in Positions
  BY CacheAssumption
<1>2. Idle \in Stacks /\ Idle.pc = "idle" /\ Idle.words = <<>>
  BY <1>1, AskingIs DEF Idle, Places
<1>3. TypeOK
  <2>1. local \in [Threads -> Stacks]
    BY <1>2 DEF Init
  <2>2. /\ evals \in Seq(Positions) /\ Len(evals) <= MaxEvals
        /\ \A b \in Buckets : pos[b] + Len(check[b]) <= arena_head
    BY CacheAssumption DEF Init
  <2>3. NoEval \in Evals /\ <<>> \in Seq(Evals)
    BY CacheAssumption DEF NoEval, Evals
  <2>. QED BY <2>1, <2>2, <2>3 DEF Init, TypeOK, Stacks, Places, WritePlaces, ReadPlaces
<1>4. \A t \in Threads : local[t] = Idle
  BY DEF Init
<1>5. OneWriter
  <2>1. \A t \in Threads : ~Writing(t)
    BY <1>2, <1>4, WritingIs DEF WritePlaces
  <2>2. \A b \in Buckets : sequence[b] % 2 # 1
    BY DEF Init
  <2>. QED BY <2>1, <2>2 DEF OneWriter
<1>6. \A b \in Buckets : BucketOK(b)
  BY DEF Init, BucketOK
<1>7. ASSUME NEW t \in Threads PROVE StackOK(local[t])
  <2>1. local[t].pc = "idle"
    BY <1>2, <1>4
  <2>. QED BY <2>1 DEF StackOK, WriterOK, ReaderOK, HitOK, Fresh, WritePlaces, ReadPlaces
<1>. QED BY <1>3, <1>5, <1>6, <1>7 DEF IInv

LEMMA NextInv == IInv /\ [Next]_vars => IInv'
<1>. SUFFICES ASSUME IInv, [Next]_vars PROVE IInv'
  OBVIOUS
<1>1. CASE UNCHANGED vars
  <2>1. UNCHANGED <<compact, hash, sequence, value, priors, pos, check, arena,
                    arena_head, evals, local>>
    BY <1>1 DEF vars, sharedVars, bucketVars, arenaVars
  <2>2. TypeOK' /\ OneWriter'
    BY <2>1, WritingIs DEF IInv, TypeOK, OneWriter, Writing, At, B, BucketOf
  <2>3. \A b \in Buckets : BucketOK(b)'
    BY <2>1 DEF IInv, BucketOK, Known, PriorsOf
  <2>4. \A t \in Threads : StackOK(local[t])'
    BY <2>1, SMTT(30) DEF IInv, StackOK, WriterOK, ReaderOK, HitOK, Fresh, Known, PriorsOf, StoredMoves
  <2>. QED BY <2>2, <2>3, <2>4 DEF IInv
<1>2. ASSUME NEW t \in Threads, Read(t) PROVE IInv'
  BY <1>2, AskInv, ReadHashInv, ReadValueInv, ReadPosInv, ReadPriorInv, ReadAgainInv,
     ReadHeadInv, LeaveInv DEF Read
<1>3. ASSUME NEW t \in Threads, Insert(t) PROVE IInv'
  BY <1>3, LockInv, LeaveInv, ReserveInv, WritePriorInv, WriteHashInv, WriteValueInv,
     WritePosInv, PublishInv DEF Insert
<1>. QED BY <1>1, <1>2, <1>3 DEF Next

\* In every reachable state the seqlock's invariant holds: writers, readers, hits
\* and buckets are as the strengthened invariant says.
THEOREM Invariance == Spec => []IInv
BY InitInv, NextInv, PTL DEF Spec

\* The tables and the threads' stacks keep their types, and the priors a bucket
\* points to lie in a range that was reserved.
THEOREM TypeCorrect == Spec => []TypeOK
<1>1. IInv => TypeOK
  BY DEF IInv
<1>. QED BY <1>1, Invariance, PTL

\* TryRead never returns a torn evaluation, in either mode, whatever is inserted
\* meanwhile.
THEOREM HitIsWholeHolds == Spec => []HitIsWhole
<1>1. ASSUME IInv PROVE HitIsWhole
  <2>1. ASSUME NEW t \in Threads, At(t) = "hit"
        PROVE  /\ local[t].eval # NoEval
               /\ HashOf[evals[local[t].eval]] = HashOf[local[t].asked]
               /\ ~local[t].probe =>
                    local[t].words = [i \in 1 .. MovesOf[local[t].asked] |-> local[t].eval]
    <3>1. HitOK(local[t]) /\ local[t].pc = "hit"
      BY <1>1, <2>1, StackIs DEF At
    <3>. QED BY <3>1 DEF HitOK, Known, NoEval
  <2>. QED BY <2>1 DEF HitIsWhole
<1>. QED BY <1>1, Invariance, PTL

\* A bucket has its one writer exactly while its sequence is odd, and is whole
\* while it is even.
THEOREM BucketIsWholeHolds == Spec => []BucketIsWhole
<1>1. ASSUME IInv PROVE BucketIsWhole
  <2>. SUFFICES ASSUME NEW b \in Buckets
                PROVE  /\ Cardinality({t \in Threads : Writing(t) /\ B(t) = b}) = sequence[b] % 2
                       /\ sequence[b] % 2 = 0 /\ sequence[b] # 0 =>
                            /\ value[b] # NoEval
                            /\ hash[b] = HashOf[evals[value[b]]]
                            /\ IF compact
                               THEN check[b] = PriorsOf(value[b])
                               ELSE \A i \in 1 .. MovesOf[evals[value[b]]] :
                                      priors[b][i] = value[b]
    BY DEF BucketIsWhole
  <2>. DEFINE W == {t \in Threads : Writing(t) /\ B(t) = b}
  <2>1. sequence[b] % 2 \in {0, 1} /\ BucketOK(b) /\ OneWriter
    BY <1>1, Parity DEF IInv, TypeOK
  <2>2. Cardinality(W) = sequence[b] % 2
    <3>1. CASE sequence[b] % 2 = 1
      <4>1. PICK t \in Threads : Writing(t) /\ B(t) = b
        BY <2>1, <3>1 DEF OneWriter
      <4>2. W = {t}
        BY <2>1, <4>1 DEF OneWriter
      <4>. QED BY <3>1, <4>2, FS_Singleton
    <3>2. CASE sequence[b] % 2 = 0
      <4>1. \A t \in Threads : ~(Writing(t) /\ B(t) = b)
        <5>1. ASSUME NEW t \in Threads, Writing(t), B(t) = b PROVE FALSE
          <6>1. sequence[b] % 2 = 1
            BY <1>1, <5>1, WriterAlone, WritingIs
          <6>. QED BY <3>2, <6>1
        <5>. QED BY <5>1
      <4>2. W = {}
        BY <4>1
      <4>. QED BY <3>2, <4>2, FS_EmptySet
    <3>. QED BY <2>1, <3>1, <3>2
  <2>3. sequence[b] % 2 = 0 /\ sequence[b] # 0 =>
          /\ value[b] # NoEval
          /\ hash[b] = HashOf[evals[value[b]]]
          /\ IF compact
             THEN check[b] = PriorsOf(value[b])
             ELSE \A i \in 1 .. MovesOf[evals[value[b]]] : priors[b][i] = value[b]
    <3>1. compact \in BOOLEAN
      BY <1>1 DEF IInv, TypeOK
    <3>. QED BY <2>1, <3>1 DEF BucketOK, Known, NoEval
  <2>. QED BY <2>2, <2>3
<1>. QED BY <1>1, Invariance, PTL
=============================================================================
