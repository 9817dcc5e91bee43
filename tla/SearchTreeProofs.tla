--------------------------- MODULE SearchTreeProofs ---------------------------
(***************************************************************************)
(* Proofs about SearchTree for any number of workers, any finite game tree *)
(* and any bounds.                                                         *)
(*                                                                         *)
(* None of the ledgers is inductive.  That a node in a minibatch is where  *)
(* the ledger of visits wants it (EntriesHold: it is reached through nodes *)
(* that were expanded, it ends there, it is no stale repetition) rests on  *)
(* there being one visitor of a node without visits (OneVisitorIn), since  *)
(* the second could find it terminal; that in turn rests on the ledger of  *)
(* visits in flight, for a pick looks at n_in_flight_ to see whether there *)
(* is one.  The ledger of visits as it is stated is of nodes that are not  *)
(* terminal; those that are may become the root and have to have no fewer  *)
(* visits than their children (NodeHolds).  The counter of initial visits  *)
(* stays a natural number because the visits of the repetitions that may   *)
(* still be taken back (Found) are among them (CountsHold).                *)
(*                                                                         *)
(* The operators of the model are recursive functions and sums.  That      *)
(* these are what their definitions say is proved first (SumExists,        *)
(* SubtreeExists, PathToExists, KnownIs, KeptExists, WayIs), by induction  *)
(* over natural numbers or over the game tree, as a set that holds zero    *)
(* and successors (Counting) or nodes whose children it holds (FromLeaves).*)
(*                                                                         *)
(* Lemmas are about a tree t, a root h, minibatches B and so on, and are   *)
(* used of the state before a step and of the one after it.                *)
(***************************************************************************)
EXTENDS SearchTree, FiniteSetTheorems, SequenceTheorems, TLAPS

-----------------------------------------------------------------------------
(* Sums over finite sets.                                                  *)

\* One step of a sum.
SumStep(f, g, s) ==
  g[s] = IF s = {} THEN 0
         ELSE f[CHOOSE x \in s : TRUE] + g[s \ {CHOOSE x \in s : TRUE}]

IsSum(f, S, g) ==
  g = [s \in SUBSET S |-> IF s = {} THEN 0
         ELSE f[CHOOSE x \in s : TRUE] + g[s \ {CHOOSE x \in s : TRUE}]]

\* The function by which SumFunctionOnSet is defined, if there is one.
LEMMA SumUnfold ==
  ASSUME NEW f, NEW S, NEW g, IsSum(f, S, g)
  PROVE  \E h : /\ \A s \in SUBSET S : SumStep(f, h, s)
                /\ SumFunctionOnSet(f, S) = h[S]
<1>. DEFINE it == CHOOSE h : h = [s \in SUBSET S |-> IF s = {} THEN 0
         ELSE f[CHOOSE x \in s : TRUE] + h[s \ {CHOOSE x \in s : TRUE}]]
<1>1. it = [s \in SUBSET S |-> IF s = {} THEN 0
         ELSE f[CHOOSE x \in s : TRUE] + it[s \ {CHOOSE x \in s : TRUE}]]
  BY Zenon DEF IsSum
<1>2. SumFunctionOnSet(f, S) = it[S]
  BY DEF SumFunctionOnSet, FoldFunctionOnSet, MapThenFoldSet
<1>. HIDE DEF it
<1>3. \A s \in SUBSET S : SumStep(f, it, s)
  BY <1>1, Zenon DEF SumStep
<1>. QED BY <1>2, <1>3

\* Induction: from zero, and over the subsets of a finite set.
LEMMA Counting ==
  ASSUME NEW Q, 0 \in Q, \A n \in Nat : n \in Q => n + 1 \in Q
  PROVE  Nat \subseteq Q
<1>. DEFINE R == {ss \in Nat \X Nat : ss[1] < ss[2]}
            bad == Nat \ Q
<1>. SUFFICES ASSUME bad # {} PROVE FALSE
  OBVIOUS
<1>1. IsWellFoundedOn(R, Nat)
  BY NatLessThanWellFounded DEF OpToRel
<1>2. \A m \in Nat, k \in Nat : m < k => <<m, k>> \in R
  OBVIOUS
<1>3. PICK n \in bad : \A m \in bad : ~ (<<m, n>> \in R)
  <2>. HIDE DEF R, bad
  <2>1. bad \in SUBSET Nat
    BY DEF bad
  <2>. QED BY <1>1, <2>1, WFMin
<1>4. n # 0 /\ n \in Nat
  OBVIOUS
<1>5. n - 1 \in Nat /\ n - 1 < n
  BY <1>4
<1>6. n - 1 \notin bad
  BY <1>2, <1>3, <1>4, <1>5
<1>7. (n - 1) + 1 \in Q
  BY <1>5, <1>6
<1>. QED BY <1>4, <1>7

\* Taking an element out of a finite set.
LEMMA OneLess ==
  ASSUME NEW S, IsFiniteSet(S)
  PROVE  \A T \in SUBSET S :
           /\ IsFiniteSet(T) /\ Cardinality(T) \in Nat
           /\ Cardinality(T) = 0 <=> T = {}
           /\ \A x \in T : T \ {x} \in SUBSET S /\ Cardinality(T \ {x}) = Cardinality(T) - 1
<1>. SUFFICES ASSUME NEW T \in SUBSET S
              PROVE  /\ IsFiniteSet(T) /\ Cardinality(T) \in Nat
                     /\ Cardinality(T) = 0 <=> T = {}
                     /\ \A x \in T : /\ T \ {x} \in SUBSET S
                                     /\ Cardinality(T \ {x}) = Cardinality(T) - 1
  OBVIOUS
<1>1. IsFiniteSet(T)
  BY FS_Subset
<1>2. Cardinality(T) \in Nat
  BY <1>1, FS_CardinalityType
<1>3. Cardinality(T) = 0 <=> T = {}
  BY <1>1, FS_EmptySet
<1>4. ASSUME NEW x \in T PROVE Cardinality(T \ {x}) = Cardinality(T) - 1
  BY <1>1, FS_RemoveElement
<1>. QED BY <1>1, <1>2, <1>3, <1>4

\* What holds of the empty set and of one element more holds of a finite set.
LEMMA Growing ==
  ASSUME NEW S, IsFiniteSet(S), NEW Q, {} \in Q,
         \A T \in SUBSET S : T \in Q => \A x \in S \ T : T \cup {x} \in Q
  PROVE  S \in Q
<1>. DEFINE N == {n \in Nat : \A T \in SUBSET S : Cardinality(T) = n => T \in Q}
<1>0. \A T \in SUBSET S : /\ IsFiniteSet(T) /\ Cardinality(T) \in Nat
                          /\ Cardinality(T) = 0 <=> T = {}
                          /\ \A x \in T : T \ {x} \in SUBSET S /\ Cardinality(T \ {x}) = Cardinality(T) - 1
  BY OneLess
<1>1. 0 \in N
  BY <1>0
<1>2. ASSUME NEW n \in Nat, n \in N PROVE n + 1 \in N
  <2>. SUFFICES ASSUME NEW T \in SUBSET S, Cardinality(T) = n + 1 PROVE T \in Q
    OBVIOUS
  <2>2. T # {}
    BY <1>0
  <2>3. PICK x \in T : TRUE
    BY <2>2
  <2>4. Cardinality(T \ {x}) = n
    BY <1>0, <2>3
  <2>5. T \ {x} \in Q
    BY <1>2, <2>4
  <2>6. T = (T \ {x}) \cup {x} /\ x \in S \ (T \ {x}) /\ T \ {x} \in SUBSET S
    BY <2>3
  <2>. HIDE DEF N
  <2>. QED BY <2>5, <2>6
<1>3. Nat \subseteq N
  <2>. HIDE DEF N
  <2>. QED BY <1>1, <1>2, Counting
<1>4. Cardinality(S) \in N
  BY <1>3, FS_CardinalityType
<1>. QED BY <1>4

\* The sum's recursive function exists: it does for subsets of any size.
LEMMA SumExists ==
  ASSUME NEW f, NEW S, IsFiniteSet(S)
  PROVE  \E g : IsSum(f, S, g)
<1>. DEFINE Rest(s) == s \ {CHOOSE x \in s : TRUE}
            N == {n \in Nat : \E g : \A s \in SUBSET S : Cardinality(s) <= n => SumStep(f, g, s)}
<1>0. \A s \in SUBSET S : /\ IsFiniteSet(s) /\ Cardinality(s) \in Nat
                          /\ Cardinality(s) = 0 <=> s = {}
                          /\ \A x \in s : s \ {x} \in SUBSET S /\ Cardinality(s \ {x}) = Cardinality(s) - 1
  BY OneLess
<1>1. 0 \in N
  <2>1. \A s \in SUBSET S : Cardinality(s) <= 0 => s = {}
    BY <1>0
  <2>2. \A s \in SUBSET S : Cardinality(s) <= 0 => SumStep(f, [s_1 \in SUBSET S |-> 0], s)
    BY <2>1 DEF SumStep
  <2>. QED BY <2>2
<1>2. ASSUME NEW n \in Nat, n \in N PROVE n + 1 \in N
  <2>1. PICK g : \A s \in SUBSET S : Cardinality(s) <= n => SumStep(f, g, s)
    BY <1>2
  <2>. DEFINE h == [s \in SUBSET S |-> IF Cardinality(s) <= n THEN g[s]
                    ELSE IF s = {} THEN 0 ELSE f[CHOOSE x \in s : TRUE] + g[Rest(s)]]
  <2>. SUFFICES ASSUME NEW s \in SUBSET S, Cardinality(s) <= n + 1 PROVE SumStep(f, h, s)
    <3>. HIDE DEF h
    <3>1. n + 1 \in Nat
      OBVIOUS
    <3>. QED BY <3>1, Zenon
  <2>2. s # {} => /\ Rest(s) \in SUBSET S /\ Cardinality(Rest(s)) = Cardinality(s) - 1
    <3>. SUFFICES ASSUME s # {} PROVE Rest(s) \in SUBSET S /\ Cardinality(Rest(s)) = Cardinality(s) - 1
      OBVIOUS
    <3>1. PICK x \in s : x = CHOOSE y \in s : TRUE
      OBVIOUS
    <3>. QED BY <1>0, <3>1
  <2>3. s # {} => h[Rest(s)] = g[Rest(s)]
    <3>. HIDE DEF Rest
    <3>. QED BY <1>0, <2>2
  <2>4. CASE Cardinality(s) <= n
    <3>1. SumStep(f, g, s) /\ h[s] = g[s]
      BY <2>1, <2>4
    <3>. QED BY <2>3, <3>1 DEF SumStep
  <2>5. CASE ~(Cardinality(s) <= n)
    BY <2>3, <2>5 DEF SumStep
  <2>. QED BY <2>4, <2>5
<1>3. Nat \subseteq N
  <2>. HIDE DEF N
  <2>. QED BY <1>1, <1>2, Counting
<1>4. Cardinality(S) \in N
  BY <1>0, <1>3
<1>5. PICK g : \A s \in SUBSET S : Cardinality(s) <= Cardinality(S) => SumStep(f, g, s)
  BY <1>4
<1>6. \A s \in SUBSET S : SumStep(f, g, s)
  BY <1>5, FS_Subset
<1>. DEFINE h == [s \in SUBSET S |-> g[s]]
<1>7. h = [s \in SUBSET S |-> IF s = {} THEN 0
             ELSE f[CHOOSE x \in s : TRUE] + h[s \ {CHOOSE x \in s : TRUE}]]
  <2>1. \A s \in SUBSET S : s \ {CHOOSE x \in s : TRUE} \in SUBSET S
    OBVIOUS
  <2>2. \A s \in SUBSET S : h[s] = IF s = {} THEN 0
             ELSE f[CHOOSE x \in s : TRUE] + h[s \ {CHOOSE x \in s : TRUE}]
    BY <1>6, <2>1 DEF SumStep
  <2>. HIDE DEF h
  <2>3. h = [s \in SUBSET S |-> h[s]]
    BY DEF h
  <2>. QED BY <2>2, <2>3
<1>8. IsSum(f, S, h)
  BY <1>7, Zenon DEF IsSum
<1>. QED BY <1>8

\* The sum is the value of a function that takes an element away at a time.
LEMMA SumIter ==
  ASSUME NEW f, NEW S, IsFiniteSet(S)
  PROVE  \E h : /\ \A s \in SUBSET S : SumStep(f, h, s)
                /\ SumFunctionOnSet(f, S) = h[S]
<1>1. PICK g : IsSum(f, S, g)
  BY SumExists
<1>. QED BY <1>1, SumUnfold

\* Two functions that both are such sums agree.
LEMMA SumAgree ==
  ASSUME NEW e, NEW f, NEW S, IsFiniteSet(S), \A x \in S : e[x] = f[x],
         NEW g, \A s \in SUBSET S : SumStep(e, g, s),
         NEW h, \A s \in SUBSET S : SumStep(f, h, s)
  PROVE  \A s \in SUBSET S : g[s] = h[s]
<1>. DEFINE N == {n \in Nat : \A s \in SUBSET S : Cardinality(s) = n => g[s] = h[s]}
<1>0. \A s \in SUBSET S : /\ IsFiniteSet(s) /\ Cardinality(s) \in Nat
                          /\ Cardinality(s) = 0 <=> s = {}
                          /\ \A x \in s : s \ {x} \in SUBSET S /\ Cardinality(s \ {x}) = Cardinality(s) - 1
  BY OneLess
<1>1. 0 \in N
  BY <1>0 DEF SumStep
<1>2. ASSUME NEW n \in Nat, n \in N PROVE n + 1 \in N
  <2>. SUFFICES ASSUME NEW s \in SUBSET S, Cardinality(s) = n + 1 PROVE g[s] = h[s]
    OBVIOUS
  <2>1. s # {}
    BY <1>0
  <2>2. PICK x \in s : x = CHOOSE y \in s : TRUE
    BY <2>1
  <2>3. Cardinality(s \ {x}) = n /\ s \ {x} \in SUBSET S
    <3>1. Cardinality(s \ {x}) = Cardinality(s) - 1 /\ s \ {x} \in SUBSET S
      BY <1>0, <2>1
    <3>. QED BY <3>1
  <2>4. g[s \ {x}] = h[s \ {x}]
    BY <1>2, <2>3
  <2>5. SumStep(e, g, s) /\ SumStep(f, h, s)
    OBVIOUS
  <2>6. g[s] = e[x] + g[s \ {x}] /\ h[s] = f[x] + h[s \ {x}]
    BY <2>1, <2>2, <2>5 DEF SumStep
  <2>. QED BY <2>2, <2>4, <2>6
<1>3. Nat \subseteq N
  <2>. HIDE DEF N
  <2>. QED BY <1>1, <1>2, Counting
<1>. QED BY <1>0, <1>3

\* Equal terms have equal sums.
LEMMA SumEqual ==
  ASSUME NEW e, NEW f, NEW S, IsFiniteSet(S), \A x \in S : e[x] = f[x]
  PROVE  SumFunctionOnSet(e, S) = SumFunctionOnSet(f, S)
<1>1. PICK g : (\A s \in SUBSET S : SumStep(e, g, s)) /\ SumFunctionOnSet(e, S) = g[S]
  BY SumIter
<1>2. PICK h : (\A s \in SUBSET S : SumStep(f, h, s)) /\ SumFunctionOnSet(f, S) = h[S]
  BY SumIter
<1>3. \A s \in SUBSET S : g[s] = h[s]
  BY <1>1, <1>2, SumAgree
<1>. QED BY <1>1, <1>2, <1>3

\* The sum of nothing.
LEMMA SumEmpty ==
  ASSUME NEW f
  PROVE  SumFunctionOnSet(f, {}) = 0
<1>1. PICK h : SumStep(f, h, {}) /\ SumFunctionOnSet(f, {}) = h[{}]
  BY SumIter, FS_EmptySet
<1>. QED BY <1>1 DEF SumStep

\* The element that the sum's definition takes first.
LEMMA SumChosen ==
  ASSUME NEW f, NEW S, IsFiniteSet(S), S # {}
  PROVE  \E x \in S : /\ x = CHOOSE y \in S : TRUE
                      /\ SumFunctionOnSet(f, S) = f[x] + SumFunctionOnSet(f, S \ {x})
<1>1. PICK x \in S : x = CHOOSE y \in S : TRUE
  OBVIOUS
<1>2. IsFiniteSet(S \ {x}) /\ SUBSET (S \ {x}) \subseteq SUBSET S
  BY FS_RemoveElement
<1>3. PICK h : (\A s \in SUBSET S : SumStep(f, h, s)) /\ SumFunctionOnSet(f, S) = h[S]
  BY SumIter
<1>4. PICK g : (\A s \in SUBSET (S \ {x}) : SumStep(f, g, s))
               /\ SumFunctionOnSet(f, S \ {x}) = g[S \ {x}]
  BY <1>2, SumIter
<1>5. \A s \in SUBSET (S \ {x}) : SumStep(f, h, s)
  BY <1>2, <1>3
<1>6. g[S \ {x}] = h[S \ {x}]
  <2>. DEFINE R == S \ {x}
  <2>1. PICK e : e = f
    OBVIOUS
  <2>2. /\ IsFiniteSet(R) /\ \A y \in R : e[y] = f[y]
        /\ \A s \in SUBSET R : SumStep(e, g, s)
        /\ \A s \in SUBSET R : SumStep(f, h, s)
    BY <1>2, <1>4, <1>5, <2>1
  <2>. HIDE DEF R
  <2>3. \A s \in SUBSET R : g[s] = h[s]
    BY <2>2, SumAgree
  <2>4. g[R] = h[R]
    BY <2>3
  <2>. QED BY <2>4 DEF R
<1>7. SumStep(f, h, S)
  BY <1>3
<1>8. h[S] = f[x] + h[S \ {x}]
  BY <1>1, <1>7 DEF SumStep
<1>. QED BY <1>1, <1>3, <1>4, <1>6, <1>8

\* A sum of integers is one.
LEMMA SumTypeInt ==
  ASSUME NEW S, IsFiniteSet(S), NEW f, \A x \in S : f[x] \in Int
  PROVE  SumFunctionOnSet(f, S) \in Int
<1>. DEFINE N == {n \in Nat : \A T \in SUBSET S : Cardinality(T) = n => SumFunctionOnSet(f, T) \in Int}
<1>0. \A T \in SUBSET S : /\ IsFiniteSet(T) /\ Cardinality(T) \in Nat
                          /\ Cardinality(T) = 0 <=> T = {}
                          /\ \A x \in T : T \ {x} \in SUBSET S /\ Cardinality(T \ {x}) = Cardinality(T) - 1
  BY OneLess
<1>1. 0 \in N
  <2>1. \A T \in SUBSET S : Cardinality(T) = 0 => T = {}
    BY <1>0
  <2>. QED BY <2>1, SumEmpty
<1>2. ASSUME NEW n \in Nat, n \in N PROVE n + 1 \in N
  <2>. SUFFICES ASSUME NEW T \in SUBSET S, Cardinality(T) = n + 1
                PROVE  SumFunctionOnSet(f, T) \in Int
    OBVIOUS
  <2>1. T # {}
    BY <1>0
  <2>2. PICK c \in T : SumFunctionOnSet(f, T) = f[c] + SumFunctionOnSet(f, T \ {c})
    BY <1>0, <2>1, SumChosen
  <2>3. T \ {c} \in SUBSET S /\ Cardinality(T \ {c}) = n
    BY <1>0
  <2>. QED BY <1>2, <2>2, <2>3
<1>3. Nat \subseteq N
  <2>. HIDE DEF N
  <2>. QED BY <1>1, <1>2, Counting
<1>. QED BY <1>0, <1>3

\* The sum of integers is one, and any element may be taken out first.
LEMMA SumRemoveInt ==
  ASSUME NEW S, IsFiniteSet(S), NEW f, \A x \in S : f[x] \in Int
  PROVE  /\ SumFunctionOnSet(f, S) \in Int
         /\ \A x \in S : SumFunctionOnSet(f, S) = f[x] + SumFunctionOnSet(f, S \ {x})
<1>. DEFINE Good(T) == /\ SumFunctionOnSet(f, T) \in Int
                       /\ \A x \in T : SumFunctionOnSet(f, T) = f[x] + SumFunctionOnSet(f, T \ {x})
            N == {n \in Nat : \A T \in SUBSET S : Cardinality(T) = n => Good(T)}
<1>0. \A T \in SUBSET S : /\ IsFiniteSet(T) /\ Cardinality(T) \in Nat
                          /\ Cardinality(T) = 0 <=> T = {}
                          /\ \A x \in T : T \ {x} \in SUBSET S /\ Cardinality(T \ {x}) = Cardinality(T) - 1
  BY OneLess
<1>1. 0 \in N
  <2>1. \A T \in SUBSET S : Cardinality(T) = 0 => T = {}
    BY <1>0
  <2>2. Good({})
    BY SumEmpty
  <2>. HIDE DEF Good
  <2>. QED BY <2>1, <2>2
<1>2. ASSUME NEW n \in Nat, n \in N PROVE n + 1 \in N
  <2>. SUFFICES ASSUME NEW T \in SUBSET S, Cardinality(T) = n + 1 PROVE Good(T)
    OBVIOUS
  <2>1. T # {}
    BY <1>0
  <2>2. PICK c \in T : SumFunctionOnSet(f, T) = f[c] + SumFunctionOnSet(f, T \ {c})
    BY <1>0, <2>1, SumChosen
  <2>3. \A x \in T : T \ {x} \in SUBSET S /\ Cardinality(T \ {x}) = n
    BY <1>0
  <2>4. \A x \in T : Good(T \ {x})
    BY <1>2, <2>3
  <2>5. f[c] \in Int
    OBVIOUS
  <2>6. SumFunctionOnSet(f, T) \in Int
    BY <2>2, <2>4, <2>5
  <2>7. ASSUME NEW x \in T, x # c
        PROVE  SumFunctionOnSet(f, T) = f[x] + SumFunctionOnSet(f, T \ {x})
    <3>. DEFINE U == (T \ {c}) \ {x}
    <3>1. x \in T \ {c} /\ c \in T \ {x} /\ U = (T \ {x}) \ {c}
      BY <2>7
    <3>2. SumFunctionOnSet(f, T \ {c}) = f[x] + SumFunctionOnSet(f, U)
      BY <2>4, <3>1
    <3>3. SumFunctionOnSet(f, T \ {x}) = f[c] + SumFunctionOnSet(f, U)
      BY <2>4, <3>1
    <3>4. SumFunctionOnSet(f, U) \in Int
      <4>1. U \in SUBSET S /\ Cardinality(T \ {c}) = n
        BY <2>3
      <4>2. SumFunctionOnSet(f, T \ {x}) \in Int /\ SumFunctionOnSet(f, T \ {c}) \in Int
        BY <2>4
      <4>3. PICK d \in T \ {c} : SumFunctionOnSet(f, T \ {c}) = f[d] + SumFunctionOnSet(f, (T \ {c}) \ {d})
        BY <2>4, <3>1
      <4>4. IsFiniteSet(T \ {c}) /\ x \in T \ {c}
        BY <1>0, <2>3, <3>1
      <4>5. Cardinality(U) = n - 1
        BY <1>0, <2>3, <3>1
      <4>. QED BY <1>0, <1>2, <4>1, <4>5, SumTypeInt
    <3>5. f[x] \in Int
      OBVIOUS
    <3>. HIDE DEF U
    <3>. QED BY <2>2, <2>5, <3>2, <3>3, <3>4, <3>5
  <2>. QED BY <2>2, <2>6, <2>7
<1>3. Nat \subseteq N
  <2>. HIDE DEF N
  <2>. QED BY <1>1, <1>2, Counting
<1>. QED BY <1>0, <1>3

\* Sums of functions that differ in one place only.
DifferAt(f, g, S, a) ==
  IsFiniteSet(S) /\ \A x \in S : f[x] \in Int /\ g[x] \in Int /\ (x # a => g[x] = f[x])

\* The sum changes by what the term in that place does.
LEMMA SumChangeAt ==
  ASSUME NEW S, NEW f, NEW g, NEW a \in S, DifferAt(f, g, S, a)
  PROVE  SumFunctionOnSet(g, S) = SumFunctionOnSet(f, S) + (g[a] - f[a])
<1>. DEFINE R == S \ {a}
<1>0. IsFiniteSet(S) /\ \A x \in S : f[x] \in Int /\ g[x] \in Int /\ (x # a => g[x] = f[x])
  BY DEF DifferAt
<1>1. IsFiniteSet(R)
  BY <1>0, FS_RemoveElement
<1>2. SumFunctionOnSet(f, S) = f[a] + SumFunctionOnSet(f, R)
  BY <1>0, SumRemoveInt
<1>3. SumFunctionOnSet(g, S) = g[a] + SumFunctionOnSet(g, R)
  BY <1>0, SumRemoveInt
<1>4. SumFunctionOnSet(f, R) \in Int
  BY <1>0, <1>1, SumTypeInt
<1>5. SumFunctionOnSet(g, R) = SumFunctionOnSet(f, R)
  <2>1. \A x \in R : g[x] = f[x]
    BY <1>0
  <2>. HIDE DEF R
  <2>. QED BY <1>1, <2>1, SumEqual
<1>6. f[a] \in Int /\ g[a] \in Int
  BY <1>0
<1>. HIDE DEF R
<1>. QED BY <1>2, <1>3, <1>4, <1>5, <1>6

\* The same, whether the place is in the set or not.
LEMMA SumChange ==
  ASSUME NEW S, IsFiniteSet(S), NEW f, NEW g, NEW a,
         \A x \in S : f[x] \in Int /\ g[x] \in Int,
         \A x \in S \ {a} : g[x] = f[x]
  PROVE  /\ a \in S => SumFunctionOnSet(g, S) = SumFunctionOnSet(f, S) + (g[a] - f[a])
         /\ a \notin S => SumFunctionOnSet(g, S) = SumFunctionOnSet(f, S)
<1>1. a \notin S => SumFunctionOnSet(g, S) = SumFunctionOnSet(f, S)
  BY SumEqual
<1>2. DifferAt(f, g, S, a)
  BY DEF DifferAt
<1>. QED BY <1>1, <1>2, SumChangeAt

\* One more element.
LEMMA SumGrow ==
  ASSUME NEW S, IsFiniteSet(S), NEW f, \A x \in S : f[x] \in Int,
         NEW T \in SUBSET S, NEW x \in S \ T
  PROVE  /\ SumFunctionOnSet(f, T \cup {x}) = f[x] + SumFunctionOnSet(f, T)
         /\ SumFunctionOnSet(f, T) \in Int /\ f[x] \in Int
<1>1. IsFiniteSet(T \cup {x}) /\ IsFiniteSet(T)
  BY FS_Subset
<1>2. (T \cup {x}) \ {x} = T /\ x \in T \cup {x} /\ \A y \in T \cup {x} : f[y] \in Int
  OBVIOUS
<1>3. SumFunctionOnSet(f, T \cup {x}) = f[x] + SumFunctionOnSet(f, (T \cup {x}) \ {x})
  BY <1>1, <1>2, SumRemoveInt
<1>4. SumFunctionOnSet(f, T) \in Int
  BY <1>1, SumTypeInt
<1>. QED BY <1>2, <1>3, <1>4

\* A sum of natural numbers is one.
LEMMA SumNat ==
  ASSUME NEW S, IsFiniteSet(S), NEW f, \A x \in S : f[x] \in Nat
  PROVE  SumFunctionOnSet(f, S) \in Nat
<1>. DEFINE Q == {T \in SUBSET S : SumFunctionOnSet(f, T) \in Nat}
<1>1. {} \in Q
  BY SumEmpty
<1>2. ASSUME NEW T \in SUBSET S, T \in Q, NEW x \in S \ T PROVE T \cup {x} \in Q
  BY <1>2, SumGrow
<1>. HIDE DEF Q
<1>3. S \in Q
  BY <1>1, <1>2, Growing
<1>. QED BY <1>3 DEF Q

\* A sum of zeros.
LEMMA SumZero ==
  ASSUME NEW S, IsFiniteSet(S), NEW f, \A x \in S : f[x] = 0
  PROVE  SumFunctionOnSet(f, S) = 0
<1>. DEFINE Q == {T \in SUBSET S : SumFunctionOnSet(f, T) = 0}
<1>1. {} \in Q
  BY SumEmpty
<1>2. ASSUME NEW T \in SUBSET S, T \in Q, NEW x \in S \ T PROVE T \cup {x} \in Q
  BY <1>2, SumGrow
<1>. HIDE DEF Q
<1>3. S \in Q
  BY <1>1, <1>2, Growing
<1>. QED BY <1>3 DEF Q

\* A sum of smaller terms is smaller.
LEMMA SumAtMost ==
  ASSUME NEW S, IsFiniteSet(S), NEW f, NEW g,
         \A x \in S : f[x] \in Int /\ g[x] \in Int /\ f[x] <= g[x]
  PROVE  SumFunctionOnSet(f, S) <= SumFunctionOnSet(g, S)
<1>. DEFINE Q == {T \in SUBSET S : SumFunctionOnSet(f, T) <= SumFunctionOnSet(g, T)}
<1>1. {} \in Q
  BY SumEmpty
<1>2. ASSUME NEW T \in SUBSET S, T \in Q, NEW x \in S \ T PROVE T \cup {x} \in Q
  <2>1. /\ SumFunctionOnSet(f, T \cup {x}) = f[x] + SumFunctionOnSet(f, T)
        /\ SumFunctionOnSet(f, T) \in Int /\ f[x] \in Int
    BY SumGrow
  <2>2. /\ SumFunctionOnSet(g, T \cup {x}) = g[x] + SumFunctionOnSet(g, T)
        /\ SumFunctionOnSet(g, T) \in Int /\ g[x] \in Int
    BY SumGrow
  <2>3. SumFunctionOnSet(f, T) <= SumFunctionOnSet(g, T) /\ f[x] <= g[x]
    BY <1>2
  <2>4. SumFunctionOnSet(f, T \cup {x}) <= SumFunctionOnSet(g, T \cup {x})
    BY <2>1, <2>2, <2>3
  <2>. QED BY <2>4
<1>. HIDE DEF Q
<1>3. S \in Q
  BY <1>1, <1>2, Growing
<1>. QED BY <1>3 DEF Q

\* The sum of two functions.
LEMMA SumPlus ==
  ASSUME NEW S, IsFiniteSet(S), NEW f, NEW g, NEW h,
         \A x \in S : f[x] \in Int /\ g[x] \in Int /\ h[x] = f[x] + g[x]
  PROVE  SumFunctionOnSet(h, S) = SumFunctionOnSet(f, S) + SumFunctionOnSet(g, S)
<1>. DEFINE Q == {T \in SUBSET S :
                   SumFunctionOnSet(h, T) = SumFunctionOnSet(f, T) + SumFunctionOnSet(g, T)}
<1>1. {} \in Q
  BY SumEmpty
<1>2. ASSUME NEW T \in SUBSET S, T \in Q, NEW x \in S \ T PROVE T \cup {x} \in Q
  <2>1. /\ SumFunctionOnSet(f, T \cup {x}) = f[x] + SumFunctionOnSet(f, T)
        /\ SumFunctionOnSet(f, T) \in Int /\ f[x] \in Int
    BY SumGrow
  <2>2. /\ SumFunctionOnSet(g, T \cup {x}) = g[x] + SumFunctionOnSet(g, T)
        /\ SumFunctionOnSet(g, T) \in Int /\ g[x] \in Int
    BY SumGrow
  <2>3. \A y \in S : h[y] \in Int
    OBVIOUS
  <2>4. SumFunctionOnSet(h, T \cup {x}) = h[x] + SumFunctionOnSet(h, T)
    BY <2>3, SumGrow
  <2>5. /\ SumFunctionOnSet(h, T) = SumFunctionOnSet(f, T) + SumFunctionOnSet(g, T)
        /\ h[x] = f[x] + g[x]
    BY <1>2
  <2>6. SumFunctionOnSet(h, T \cup {x}) = SumFunctionOnSet(f, T \cup {x}) + SumFunctionOnSet(g, T \cup {x})
    BY <2>1, <2>2, <2>4, <2>5
  <2>. QED BY <2>6
<1>. HIDE DEF Q
<1>3. S \in Q
  BY <1>1, <1>2, Growing
<1>. QED BY <1>3 DEF Q

\* The sum over two disjoint sets.
LEMMA SumUnion ==
  ASSUME NEW U, IsFiniteSet(U), NEW f, \A x \in U : f[x] \in Int,
         NEW S \in SUBSET U, NEW T \in SUBSET U, S \cap T = {}
  PROVE  SumFunctionOnSet(f, S \cup T) = SumFunctionOnSet(f, S) + SumFunctionOnSet(f, T)
<1>. DEFINE Q == {R \in SUBSET S :
                   SumFunctionOnSet(f, R \cup T) = SumFunctionOnSet(f, R) + SumFunctionOnSet(f, T)}
<1>0. IsFiniteSet(S) /\ IsFiniteSet(T) /\ SumFunctionOnSet(f, T) \in Int
  BY FS_Subset, SumTypeInt
<1>1. {} \in Q
  <2>1. {} \cup T = T
    OBVIOUS
  <2>. QED BY <1>0, <2>1, SumEmpty
<1>2. ASSUME NEW R \in SUBSET S, R \in Q, NEW x \in S \ R PROVE R \cup {x} \in Q
  <2>1. /\ SumFunctionOnSet(f, R \cup {x}) = f[x] + SumFunctionOnSet(f, R)
        /\ SumFunctionOnSet(f, R) \in Int /\ f[x] \in Int
    BY SumGrow
  <2>. DEFINE V == R \cup T
              W == (R \cup {x}) \cup T
  <2>2. V \in SUBSET U /\ x \in U \ V /\ V \cup {x} = W
    OBVIOUS
  <2>3. SumFunctionOnSet(f, V) = SumFunctionOnSet(f, R) + SumFunctionOnSet(f, T)
    BY <1>2
  <2>. HIDE DEF V, W
  <2>4. SumFunctionOnSet(f, V \cup {x}) = f[x] + SumFunctionOnSet(f, V)
    BY <2>2, SumGrow
  <2>5. SumFunctionOnSet(f, W) = SumFunctionOnSet(f, R \cup {x}) + SumFunctionOnSet(f, T)
    <3>1. SumFunctionOnSet(f, W) = f[x] + (SumFunctionOnSet(f, R) + SumFunctionOnSet(f, T))
      BY <2>2, <2>3, <2>4
    <3>. QED BY ONLY <1>0, <2>1, <3>1
  <2>. QED BY <2>5 DEF W
<1>. HIDE DEF Q
<1>3. S \in Q
  BY <1>0, <1>1, <1>2, Growing
<1>. QED BY <1>3 DEF Q

\* A sum of natural numbers is no less than one of them.
LEMMA SumTerm ==
  ASSUME NEW S, IsFiniteSet(S), NEW f, \A x \in S : f[x] \in Nat, NEW a \in S
  PROVE  f[a] \in Nat /\ f[a] <= SumFunctionOnSet(f, S)
<1>1. SumFunctionOnSet(f, S) = f[a] + SumFunctionOnSet(f, S \ {a})
  BY SumRemoveInt
<1>2. SumFunctionOnSet(f, S \ {a}) \in Nat
  BY FS_RemoveElement, SumNat
<1>. QED BY <1>1, <1>2

\* Renaming: f on S is g on T.
LEMMA SumRename ==
  ASSUME NEW S, IsFiniteSet(S), NEW T, NEW f, NEW g, NEW h \in [S -> T],
         \A x \in S : f[x] \in Int /\ g[h[x]] = f[x],
         \A x, y \in S : h[x] = h[y] => x = y,
         \A y \in T : \E x \in S : h[x] = y
  PROVE  SumFunctionOnSet(g, T) = SumFunctionOnSet(f, S)
<1>. DEFINE Im(R) == {h[x] : x \in R}
            Q == {R \in SUBSET S :
                    IsFiniteSet(Im(R)) /\ SumFunctionOnSet(g, Im(R)) = SumFunctionOnSet(f, R)}
<1>1. {} \in Q
  <2>1. Im({}) = {}
    OBVIOUS
  <2>. HIDE DEF Im
  <2>. QED BY <2>1, SumEmpty, FS_EmptySet
<1>2. ASSUME NEW R \in SUBSET S, R \in Q, NEW x \in S \ R PROVE R \cup {x} \in Q
  <2>1. /\ SumFunctionOnSet(f, R \cup {x}) = f[x] + SumFunctionOnSet(f, R)
        /\ SumFunctionOnSet(f, R) \in Int /\ f[x] \in Int
    BY SumGrow
  <2>2. Im(R \cup {x}) = Im(R) \cup {h[x]} /\ h[x] \notin Im(R)
    OBVIOUS
  <2>3. \A y \in Im(R) \cup {h[x]} : g[y] \in Int
    OBVIOUS
  <2>4. IsFiniteSet(Im(R)) /\ SumFunctionOnSet(g, Im(R)) = SumFunctionOnSet(f, R) /\ g[h[x]] = f[x]
    BY <1>2
  <2>. HIDE DEF Im
  <2>5. IsFiniteSet(Im(R) \cup {h[x]})
    BY <2>4, FS_AddElement
  <2>6. SumFunctionOnSet(g, Im(R) \cup {h[x]}) = g[h[x]] + SumFunctionOnSet(g, Im(R))
    <3>. DEFINE U == Im(R) \cup {h[x]}
                V == Im(R)
    <3>1. V \in SUBSET U /\ h[x] \in U \ V /\ U = V \cup {h[x]}
      BY <2>2
    <3>2. IsFiniteSet(U) /\ \A y \in U : g[y] \in Int
      BY <2>3, <2>5
    <3>. HIDE DEF U, V
    <3>3. SumFunctionOnSet(g, V \cup {h[x]}) = g[h[x]] + SumFunctionOnSet(g, V)
      BY <3>1, <3>2, SumGrow
    <3>. QED BY <3>3 DEF V
  <2>. QED BY <2>1, <2>2, <2>4, <2>5, <2>6
<1>3. S \in Q
  <2>. HIDE DEF Q
  <2>. QED BY <1>1, <1>2, Growing
<1>4. Im(S) = T
  OBVIOUS
<1>. HIDE DEF Im
<1>. QED BY <1>3, <1>4

Below(x) == Subtree[x] \ {x}

\* Induction from the roots on, and from the leaves on.
LEMMA FromRoots ==
  ASSUME NEW S, Roots \subseteq S, \A x \in Nodes \ Roots : Parent[x] \in S => x \in S
  PROVE  Nodes \subseteq S
<1>. SUFFICES ASSUME Nodes \ S # {} PROVE FALSE
  OBVIOUS
<1>1. Nodes \ S \in (SUBSET (Nodes \ Roots)) \ {{}}
  OBVIOUS
<1>2. PICK x \in Nodes \ S : Parent[x] \notin Nodes \ S
  BY <1>1, TreeAssumption
<1>. QED BY <1>2, TreeAssumption

\* A set of nodes that holds a node if it holds what follows it holds them all.
LEMMA FromLeaves ==
  ASSUME NEW S, \A x \in Nodes : Children(x) \subseteq S => x \in S
  PROVE  Nodes \subseteq S
<1>. DEFINE B == Nodes \ S
            next == [x \in B |-> CHOOSE y \in B : y \in Children(x)]
<1>. SUFFICES ASSUME B # {} PROVE FALSE
  OBVIOUS
<1>1. \A x \in B : next[x] \in B /\ next[x] \in Children(x)
  <2>. SUFFICES ASSUME NEW x \in B PROVE \E y \in B : y \in Children(x)
    OBVIOUS
  <2>. QED BY DEF Children
<1>2. \A x \in B : next[x] \notin Roots /\ Parent[next[x]] = x
  BY <1>1 DEF Children
<1>. HIDE DEF next
<1>3. IsFiniteSet(B)
  BY FS_Subset, TreeAssumption
<1>4. next \in [B -> B]
  BY <1>1 DEF next
<1>5. next \in Injection(B, B)
  BY <1>2, <1>4 DEF Injection, IsInjective
<1>6. next \in Surjection(B, B)
  BY <1>3, <1>5, FS_Injection
<1>7. \A y \in B : y \notin Roots /\ Parent[y] \in B
  BY <1>2, <1>6 DEF Surjection
<1>8. B \in (SUBSET (Nodes \ Roots)) \ {{}}
  BY <1>7
<1>. QED BY <1>7, <1>8, TreeAssumption
-----------------------------------------------------------------------------
(* Subtrees.                                                               *)

\* Everything that a set of nodes holds if it holds x and what follows.
Following(x) ==
  {y \in Nodes : \A T \in SUBSET Nodes :
     x \in T /\ (\A z \in Nodes \ Roots : Parent[z] \in T => z \in T) => y \in T}
IsSubtree(f) == f = [x \in Nodes |-> {x} \cup UNION {f[y] : y \in Children(x)}]

\* A node is followed by itself and by the children of what follows it.
LEMMA FollowingClosed ==
  ASSUME NEW x \in Nodes
  PROVE  /\ x \in Following(x)
         /\ \A z \in Nodes \ Roots : Parent[z] \in Following(x) => z \in Following(x)
         /\ \A y \in Following(x) : y # x => y \notin Roots /\ Parent[y] \in Following(x)
<1>1. x \in Following(x)
  BY DEF Following
<1>2. \A z \in Nodes \ Roots : Parent[z] \in Following(x) => z \in Following(x)
  BY DEF Following
<1>3. ASSUME NEW y \in Following(x), y # x, y \in Roots \/ Parent[y] \notin Following(x)
      PROVE  FALSE
  <2>. DEFINE T == Following(x) \ {y}
  <2>1. T \in SUBSET Nodes /\ x \in T
    BY <1>1, <1>3 DEF Following
  <2>2. \A z \in Nodes \ Roots : Parent[z] \in T => z \in T
    BY <1>2, <1>3
  <2>. HIDE DEF T
  <2>3. y \in T
    BY <2>1, <2>2 DEF Following
  <2>. QED BY <2>3 DEF T
<1>. QED BY <1>1, <1>2, <1>3

\* What follows a node is the node and what follows its children.
LEMMA FollowingIs ==
  ASSUME NEW x \in Nodes
  PROVE  Following(x) = {x} \cup UNION {Following(y) : y \in Children(x)}
<1>. DEFINE T == {x} \cup UNION {Following(y) : y \in Children(x)}
<1>0. \A y \in Children(x) : y \in Nodes /\ y \notin Roots /\ Parent[y] = x
  BY DEF Children
<1>1. ASSUME NEW y \in Children(x), NEW u \in Following(y) PROVE u \in Following(x)
  <2>1. y \in Following(x)
    BY <1>0, FollowingClosed
  <2>2. Following(x) \in SUBSET Nodes
    BY DEF Following
  <2>3. \A z \in Nodes \ Roots : Parent[z] \in Following(x) => z \in Following(x)
    BY FollowingClosed
  <2>. QED BY <2>1, <2>2, <2>3 DEF Following
<1>2. T \in SUBSET Nodes /\ x \in T
  BY <1>0 DEF Following
<1>3. ASSUME NEW z \in Nodes \ Roots, Parent[z] \in T PROVE z \in T
  <2>1. CASE Parent[z] = x
    <3>1. z \in Children(x)
      BY <2>1 DEF Children
    <3>2. z \in Following(z)
      BY FollowingClosed
    <3>. QED BY <3>1, <3>2
  <2>2. ASSUME NEW y \in Children(x), Parent[z] \in Following(y) PROVE z \in T
    <3>1. z \in Following(y)
      BY <1>0, <2>2, FollowingClosed
    <3>. QED BY <3>1
  <2>. QED BY <1>3, <2>1, <2>2
<1>4. Following(x) \subseteq T
  <2>. HIDE DEF T
  <2>. QED BY <1>2, <1>3 DEF Following
<1>5. x \in Following(x)
  BY FollowingClosed
<1>. QED BY <1>1, <1>4, <1>5

\* There is a function as Subtree is defined.
LEMMA SubtreeExists == IsSubtree(Subtree)
<1>1. IsSubtree([x \in Nodes |-> Following(x)])
  <2>1. \A x \in Nodes : \A y \in Children(x) : y \in Nodes
    BY DEF Children
  <2>. DEFINE f == [z \in Nodes |-> Following(z)]
  <2>2. ASSUME NEW x \in Nodes PROVE f[x] = {x} \cup UNION {f[y] : y \in Children(x)}
    <3>1. {f[y] : y \in Children(x)} = {Following(y) : y \in Children(x)}
      BY <2>1
    <3>2. f[x] = Following(x)
      OBVIOUS
    <3>. HIDE DEF f
    <3>. QED BY <3>1, <3>2, FollowingIs
  <2>3. f = [z \in Nodes |-> f[z]]
    OBVIOUS
  <2>. HIDE DEF f
  <2>4. IsSubtree(f)
    BY <2>2, <2>3 DEF IsSubtree
  <2>. QED BY <2>4 DEF f
<1>2. Subtree = CHOOSE f : IsSubtree(f)
  BY DEF Subtree, IsSubtree
<1>. QED BY <1>1, <1>2

\* Its definition, unfolded once.
LEMMA SubtreeDef ==
  ASSUME NEW x \in Nodes
  PROVE  Subtree[x] = {x} \cup UNION {Subtree[y] : y \in Children(x)}
BY SubtreeExists DEF IsSubtree

\* There is but one such function.
LEMMA SubtreeIsFollowing == \A x \in Nodes : Subtree[x] = Following(x)
<1>. DEFINE S == {x \in Nodes : Subtree[x] = Following(x)}
<1>1. ASSUME NEW x \in Nodes, Children(x) \subseteq S PROVE x \in S
  <2>1. \A y \in Children(x) : Subtree[y] = Following(y)
    BY <1>1
  <2>2. {Subtree[y] : y \in Children(x)} = {Following(y) : y \in Children(x)}
    BY <2>1
  <2>3. Subtree[x] = Following(x)
    BY <2>2, SubtreeDef, FollowingIs
  <2>. QED BY <2>3
<1>. HIDE DEF S
<1>2. Nodes \subseteq S
  BY <1>1, FromLeaves
<1>. QED BY <1>2 DEF S

\* A node is in a subtree if it is its root or its parent is in it.
LEMMA InSubtree ==
  ASSUME NEW x \in Nodes
  PROVE  /\ Subtree[x] \subseteq Nodes /\ x \in Subtree[x] /\ IsFiniteSet(Subtree[x])
         /\ \A y \in Nodes \ Roots : Parent[y] \in Subtree[x] => y \in Subtree[x]
         /\ \A y \in Subtree[x] : y # x => y \notin Roots /\ Parent[y] \in Subtree[x]
<1>1. Subtree[x] = Following(x)
  BY SubtreeIsFollowing
<1>2. Following(x) \in SUBSET Nodes
  BY DEF Following
<1>3. IsFiniteSet(Following(x))
  BY <1>2, FS_Subset, TreeAssumption
<1>. QED BY <1>1, <1>2, <1>3, FollowingClosed

\* Subtrees of a subtree are in it.
LEMMA SubtreeTransitive ==
  ASSUME NEW x \in Nodes, NEW y \in Subtree[x]
  PROVE  Subtree[y] \subseteq Subtree[x]
<1>. DEFINE S == {z \in Nodes : z \in Subtree[y] => z \in Subtree[x]}
<1>0. y \in Nodes
  BY InSubtree
<1>1. \A z \in Nodes : z \in Roots => z \in S
  BY <1>0, InSubtree
<1>2. ASSUME NEW z \in Nodes \ Roots, Parent[z] \in S PROVE z \in S
  BY <1>0, <1>2, InSubtree
<1>3. Roots \subseteq Nodes
  BY TreeAssumption
<1>. HIDE DEF S
<1>4. Nodes \subseteq S
  BY <1>1, <1>2, <1>3, FromRoots
<1>. QED BY <1>0, <1>4, InSubtree DEF S

\* No node is above its parent.
LEMMA NotBack ==
  ASSUME NEW x \in Nodes \ Roots
  PROVE  Parent[x] \in Nodes /\ Parent[x] \notin Subtree[x]
<1>0. Parent[x] \in Nodes
  BY TreeAssumption
<1>. SUFFICES ASSUME Parent[x] \in Subtree[x] PROVE FALSE
  BY <1>0
<1>. DEFINE C == {y \in Subtree[x] : x \in Subtree[y]}
<1>1. ASSUME NEW y \in C PROVE y \in Nodes \ Roots /\ Parent[y] \in C
  <2>1. y \in Nodes \ Roots
    BY InSubtree
  <2>2. Parent[y] \in Nodes /\ y \in Subtree[Parent[y]]
    BY <2>1, InSubtree, TreeAssumption
  <2>3. Parent[y] \in Subtree[x]
    BY InSubtree
  <2>4. Subtree[y] \subseteq Subtree[Parent[y]]
    BY <2>2, SubtreeTransitive
  <2>. QED BY <2>1, <2>3, <2>4
<1>2. x \in C
  BY InSubtree
<1>3. C \in (SUBSET (Nodes \ Roots)) \ {{}}
  BY <1>1, <1>2
<1>. HIDE DEF C
<1>. QED BY <1>1, <1>3, TreeAssumption

\* Of two nodes, only one is above the other.
LEMMA Antisymmetric ==
  ASSUME NEW x \in Nodes, NEW y \in Subtree[x], x \in Subtree[y]
  PROVE  x = y
<1>. SUFFICES ASSUME x # y PROVE FALSE
  OBVIOUS
<1>1. y \in Nodes \ Roots /\ Parent[y] \in Subtree[x]
  BY InSubtree
<1>2. Subtree[x] \subseteq Subtree[y]
  BY <1>1, SubtreeTransitive
<1>. QED BY <1>1, <1>2, NotBack

\* Of two nodes above the same, one is above the other.
LEMMA OneAbove ==
  ASSUME NEW x \in Nodes, NEW y \in Nodes, NEW z \in Subtree[x], z \in Subtree[y]
  PROVE  x \in Subtree[y] \/ y \in Subtree[x]
<1>. DEFINE S == {u \in Nodes : u \in Subtree[x] /\ u \in Subtree[y]
                               => x \in Subtree[y] \/ y \in Subtree[x]}
<1>1. \A u \in Nodes : u \in Roots => u \in S
  BY InSubtree
<1>2. ASSUME NEW u \in Nodes \ Roots, Parent[u] \in S PROVE u \in S
  BY <1>2, InSubtree
<1>3. Roots \subseteq Nodes
  BY TreeAssumption
<1>. HIDE DEF S
<1>4. Nodes \subseteq S
  BY <1>1, <1>2, <1>3, FromRoots
<1>. QED BY <1>4, InSubtree DEF S

\* The subtrees of the children of a node are parts of its own, and disjoint.
LEMMA ChildrenIn ==
  ASSUME NEW x \in Nodes
  PROVE  /\ IsFiniteSet(Children(x)) /\ Children(x) \subseteq Subtree[x] /\ x \notin Children(x)
         /\ \A c \in Children(x) : /\ c \in Nodes \ Roots /\ Parent[c] = x
                                   /\ x \notin Subtree[c] /\ Subtree[c] \subseteq Subtree[x]
         /\ \A c, d \in Children(x) : c # d => Subtree[c] \cap Subtree[d] = {}
<1>1. \A c \in Children(x) : c \in Nodes \ Roots /\ Parent[c] = x
  BY DEF Children
<1>2. Children(x) \in SUBSET Nodes
  BY <1>1
<1>3. IsFiniteSet(Children(x))
  BY <1>2, FS_Subset, TreeAssumption
<1>4. Children(x) \subseteq Subtree[x]
  BY <1>1, InSubtree
<1>5. \A c \in Children(x) : x \notin Subtree[c]
  BY <1>1, NotBack
<1>6. \A c \in Children(x) : Subtree[c] \subseteq Subtree[x]
  BY <1>4, SubtreeTransitive
<1>7. x \notin Children(x)
  BY <1>5, InSubtree
<1>8. ASSUME NEW c \in Children(x), NEW d \in Children(x), c # d PROVE c \notin Subtree[d]
  BY <1>1, <1>5, <1>8, InSubtree
<1>9. ASSUME NEW c \in Children(x), NEW d \in Children(x), c # d
      PROVE  Subtree[c] \cap Subtree[d] = {}
  <2>1. c \in Nodes /\ d \in Nodes /\ c \notin Subtree[d] /\ d \notin Subtree[c]
    BY <1>1, <1>8, <1>9
  <2>. QED BY <2>1, OneAbove
<1>. QED BY <1>1, <1>3, <1>4, <1>5, <1>6, <1>7, <1>9

\* What is below a node is in the subtree of a child.
LEMMA BelowIs ==
  ASSUME NEW x \in Nodes
  PROVE  /\ Below(x) = UNION {Subtree[c] : c \in Children(x)}
         /\ \A y \in Subtree[x] : y \in Below(x) <=> y # x
         /\ \A y \in Nodes \ Roots : y \in Below(x) <=> Parent[y] \in Subtree[x]
<1>1. Below(x) = UNION {Subtree[c] : c \in Children(x)}
  BY SubtreeDef, ChildrenIn DEF Below
<1>2. \A y \in Nodes \ Roots : y \in Below(x) <=> Parent[y] \in Subtree[x]
  BY InSubtree, NotBack DEF Below
<1>. QED BY <1>1, <1>2 DEF Below

\* What is summed below a node is summed child by child.
LEMMA SumBelow ==
  ASSUME NEW x \in Nodes, NEW f, \A y \in Subtree[x] : f[y] \in Int
  PROVE  SumFunctionOnSet(f, Below(x))
           = SumFunctionOnSet([c \in Children(x) |-> SumFunctionOnSet(f, Subtree[c])], Children(x))
<1>. DEFINE C == Children(x)
            Under(D) == UNION {Subtree[c] : c \in D}
            g == [c \in C |-> SumFunctionOnSet(f, Subtree[c])]
            Q == {D \in SUBSET C : SumFunctionOnSet(f, Under(D)) = SumFunctionOnSet(g, D)}
<1>0. /\ IsFiniteSet(C)
      /\ \A c \in C : c \in Nodes /\ Subtree[c] \subseteq Subtree[x]
      /\ \A c, d \in C : c # d => Subtree[c] \cap Subtree[d] = {}
  BY ChildrenIn
<1>1. \A c \in C : g[c] \in Int
  BY <1>0, InSubtree, SumTypeInt
<1>2. {} \in Q
  <2>1. Under({}) = {}
    OBVIOUS
  <2>. HIDE DEF Under
  <2>. QED BY <2>1, SumEmpty
<1>3. ASSUME NEW D \in SUBSET C, D \in Q, NEW c \in C \ D PROVE D \cup {c} \in Q
  <2>1. Under(D) \in SUBSET Subtree[x] /\ Subtree[c] \in SUBSET Subtree[x]
    BY <1>0
  <2>2. Under(D) \cap Subtree[c] = {}
    BY <1>0
  <2>3. Under(D \cup {c}) = Under(D) \cup Subtree[c]
    OBVIOUS
  <2>4. SumFunctionOnSet(g, D \cup {c}) = g[c] + SumFunctionOnSet(g, D)
        /\ SumFunctionOnSet(g, D) \in Int /\ g[c] \in Int
    <3>. HIDE DEF g, C
    <3>. QED BY <1>0, <1>1, SumGrow
  <2>5. g[c] = SumFunctionOnSet(f, Subtree[c])
    OBVIOUS
  <2>6. SumFunctionOnSet(f, Under(D)) = SumFunctionOnSet(g, D)
    BY <1>3
  <2>. HIDE DEF Under, g, C
  <2>7. SumFunctionOnSet(f, Under(D) \cup Subtree[c])
          = SumFunctionOnSet(f, Under(D)) + SumFunctionOnSet(f, Subtree[c])
    BY <2>1, <2>2, InSubtree, SumUnion
  <2>8. SumFunctionOnSet(f, Under(D \cup {c})) = SumFunctionOnSet(g, D \cup {c})
    <3>1. SumFunctionOnSet(f, Under(D \cup {c}))
            = SumFunctionOnSet(f, Under(D)) + SumFunctionOnSet(f, Subtree[c])
      BY ONLY <2>3, <2>7
    <3>. QED BY ONLY <2>4, <2>5, <2>6, <3>1
  <2>. QED BY <2>8
<1>. HIDE DEF Q
<1>4. C \in Q
  BY <1>0, <1>2, <1>3, Growing
<1>5. SumFunctionOnSet(f, Under(C)) = SumFunctionOnSet(g, C)
  BY <1>4 DEF Q
<1>6. Below(x) = Under(C)
  BY BelowIs
<1>. QED BY <1>5, <1>6

-----------------------------------------------------------------------------
(* The way up from a node to the root h of a search.                       *)

IsPathTo(h, f) ==
  f = [x \in Nodes |-> IF x \in Roots \cup {h} THEN <<x>> ELSE <<x>> \o f[Parent[x]]]
PathTo(h) == CHOOSE f : IsPathTo(h, f)
AboveTo(h, x) == ToSet(Tail(PathTo(h)[x]))

\* PathFrom is the path to the root of this search.
LEMMA PathFromIs == PathFrom = PathTo(head)
BY DEF PathFrom, PathTo, IsPathTo

\* Above is what is above in this search.
LEMMA AboveIs == \A x : Above(x) = AboveTo(head, x)
BY PathFromIs DEF Above, AboveTo

\* A sequence of nodes that goes up from x to where a path ends.
Climbs(h, x, s) ==
  /\ s \in Seq(Nodes) /\ Len(s) \in Nat \ {0} /\ s[1] = x
  /\ s[Len(s)] \in Roots \cup {h}
  /\ \A i \in 1 .. Len(s) - 1 : s[i] \notin Roots \cup {h} /\ s[i + 1] = Parent[s[i]]

\* A path one node longer.
LEMMA ClimbStep ==
  ASSUME NEW h, NEW x \in Nodes, x \notin Roots \cup {h}, NEW s, Climbs(h, Parent[x], s)
  PROVE  Climbs(h, x, <<x>> \o s)
<1>. DEFINE t == <<x>> \o s
<1>1. s \in Seq(Nodes) /\ <<x>> \in Seq(Nodes) /\ Len(<<x>>) = 1 /\ <<x>>[1] = x
  BY DEF Climbs
<1>2. /\ t \in Seq(Nodes) /\ Len(t) = Len(s) + 1 /\ t[1] = x
      /\ \A i \in 1 .. Len(s) : t[i + 1] = s[i]
  <2>1. t \in Seq(Nodes) /\ Len(t) = Len(s) + 1
    BY <1>1
  <2>2. Len(s) \in Nat
    BY <1>1
  <2>3. \A i \in 1 .. Len(s) + 1 : t[i] = IF i <= 1 THEN x ELSE s[i - 1]
    BY <1>1, <2>2
  <2>. QED BY <2>1, <2>2, <2>3
<1>. HIDE DEF t
<1>3. ASSUME NEW i \in 1 .. Len(t) - 1 PROVE t[i] \notin Roots \cup {h} /\ t[i + 1] = Parent[t[i]]
  <2>1. Len(s) \in Nat \ {0} /\ i \in 1 .. Len(s)
    BY <1>2 DEF Climbs
  <2>2. CASE i = 1
    <3>1. t[1 + 1] = s[1]
      BY <1>2, <2>1
    <3>. QED BY <1>2, <2>2, <3>1 DEF Climbs
  <2>3. CASE i # 1
    <3>1. i - 1 \in 1 .. Len(s) - 1 /\ i - 1 \in 1 .. Len(s) /\ (i - 1) + 1 = i
      BY <2>1, <2>3
    <3>2. t[i] = s[i - 1] /\ t[i + 1] = s[i]
      BY <1>2, <2>1, <3>1
    <3>3. s[i - 1] \notin Roots \cup {h} /\ s[i] = Parent[s[i - 1]]
      BY <3>1 DEF Climbs
    <3>. QED BY <3>2, <3>3
  <2>. QED BY <2>2, <2>3
<1>4. t[Len(t)] = s[Len(s)] /\ Len(t) \in Nat \ {0}
  BY <1>2 DEF Climbs
<1>. QED BY <1>2, <1>3, <1>4 DEF Climbs, t

\* Every node has a path.
LEMMA ClimbExists ==
  ASSUME NEW h
  PROVE  \A x \in Nodes : \E s : Climbs(h, x, s)
<1>. DEFINE S == {x \in Nodes : \E s : Climbs(h, x, s)}
<1>1. ASSUME NEW x \in Nodes, x \in Roots \cup {h} PROVE Climbs(h, x, <<x>>)
  BY <1>1 DEF Climbs
<1>2. ASSUME NEW x \in Nodes \ Roots, Parent[x] \in S PROVE x \in S
  <2>1. CASE x = h
    BY <1>1, <2>1
  <2>2. CASE x # h
    <3>1. PICK s : Climbs(h, Parent[x], s)
      BY <1>2
    <3>2. Climbs(h, x, <<x>> \o s)
      BY <2>2, <3>1, ClimbStep
    <3>. QED BY <3>2
  <2>. QED BY <2>1, <2>2
<1>3. Roots \subseteq S
  BY <1>1, TreeAssumption
<1>. HIDE DEF S
<1>4. Nodes \subseteq S
  BY <1>2, <1>3, FromRoots
<1>. QED BY <1>4 DEF S

\* Every node has but one path.
LEMMA ClimbUnique ==
  ASSUME NEW h
  PROVE  \A x \in Nodes : \A s, t : Climbs(h, x, s) /\ Climbs(h, x, t) => s = t
<1>. SUFFICES ASSUME NEW x \in Nodes, NEW s, NEW t, Climbs(h, x, s), Climbs(h, x, t) PROVE s = t
  OBVIOUS
<1>. DEFINE N == {n \in Nat : n + 1 <= Len(s) => n + 1 <= Len(t) /\ s[n + 1] = t[n + 1]}
<1>0. /\ s \in Seq(Nodes) /\ t \in Seq(Nodes)
      /\ Len(s) \in Nat \ {0} /\ Len(t) \in Nat \ {0} /\ s[1] = t[1]
  BY DEF Climbs
<1>1. 0 \in N
  BY <1>0
<1>2. ASSUME NEW n \in Nat, n \in N PROVE n + 1 \in N
  <2>. SUFFICES ASSUME n + 2 <= Len(s) PROVE n + 2 <= Len(t) /\ s[n + 2] = t[n + 2]
    OBVIOUS
  <2>1. n + 1 <= Len(t) /\ s[n + 1] = t[n + 1]
    BY <1>0, <1>2
  <2>2. n + 1 \in 1 .. Len(s) - 1 /\ (n + 1) + 1 = n + 2
    BY <1>0
  <2>3. s[n + 1] \notin Roots \cup {h} /\ s[n + 2] = Parent[s[n + 1]]
    BY <2>2 DEF Climbs
  <2>4. n + 1 # Len(t)
    BY <2>1, <2>3 DEF Climbs
  <2>5. n + 1 \in 1 .. Len(t) - 1
    BY <1>0, <2>1, <2>4
  <2>6. t[n + 2] = Parent[t[n + 1]]
    BY <2>2, <2>5 DEF Climbs
  <2>. QED BY <1>0, <2>1, <2>3, <2>5, <2>6
<1>3. Nat \subseteq N
  <2>. HIDE DEF N
  <2>. QED BY <1>1, <1>2, Counting
<1>4. \A i \in 1 .. Len(s) : i <= Len(t) /\ s[i] = t[i]
  <2>. SUFFICES ASSUME NEW i \in 1 .. Len(s) PROVE i <= Len(t) /\ s[i] = t[i]
    OBVIOUS
  <2>1. i - 1 \in Nat /\ (i - 1) + 1 = i
    BY <1>0
  <2>2. i - 1 \in N
    BY <1>3, <2>1
  <2>. QED BY <1>0, <2>1, <2>2
<1>5. Len(s) <= Len(t)
  BY <1>0, <1>4
<1>6. Len(s) = Len(t)
  <2>. SUFFICES ASSUME Len(s) < Len(t) PROVE FALSE
    BY <1>0, <1>5
  <2>1. Len(s) \in 1 .. Len(t) - 1 /\ Len(s) \in 1 .. Len(s)
    BY <1>0
  <2>. QED BY <1>4, <2>1 DEF Climbs
<1>. QED BY <1>0, <1>4, <1>6

\* There is a function as PathTo is defined, and it gives the paths.
LEMMA PathToExists ==
  ASSUME NEW h
  PROVE  IsPathTo(h, PathTo(h)) /\ \A x \in Nodes : Climbs(h, x, PathTo(h)[x])
<1>. DEFINE p == [x \in Nodes |-> CHOOSE s : Climbs(h, x, s)]
<1>1. \A x \in Nodes : Climbs(h, x, p[x])
  BY ClimbExists
<1>. HIDE DEF p
<1>2. ASSUME NEW f, \A x \in Nodes : f[x] = IF x \in Roots \cup {h} THEN <<x>> ELSE <<x>> \o f[Parent[x]]
      PROVE  \A x \in Nodes : f[x] = p[x]
  <2>. DEFINE S == {x \in Nodes : f[x] = p[x]}
  <2>1. ASSUME NEW x \in Nodes, x \in Roots \cup {h} PROVE x \in S
    <3>1. Climbs(h, x, <<x>>)
      BY <2>1 DEF Climbs
    <3>2. p[x] = <<x>>
      BY <1>1, <3>1, ClimbUnique
    <3>. QED BY <1>2, <2>1, <3>2
  <2>2. ASSUME NEW x \in Nodes \ Roots, Parent[x] \in S PROVE x \in S
    <3>1. CASE x = h
      BY <2>1, <3>1
    <3>2. CASE x # h
      <4>1. Parent[x] \in Nodes
        BY TreeAssumption
      <4>2. Climbs(h, x, <<x>> \o p[Parent[x]])
        BY <1>1, <3>2, <4>1, ClimbStep
      <4>3. p[x] = <<x>> \o p[Parent[x]]
        BY <1>1, <4>2, ClimbUnique
      <4>. QED BY <1>2, <2>2, <3>2, <4>3
    <3>. QED BY <3>1, <3>2
  <2>3. Roots \subseteq S
    BY <2>1, TreeAssumption
  <2>. HIDE DEF S
  <2>4. Nodes \subseteq S
    BY <2>2, <2>3, FromRoots
  <2>. QED BY <2>4 DEF S
<1>3. \A x \in Nodes : p[x] = IF x \in Roots \cup {h} THEN <<x>> ELSE <<x>> \o p[Parent[x]]
  <2>1. ASSUME NEW x \in Nodes, x \in Roots \cup {h} PROVE p[x] = <<x>>
    <3>1. Climbs(h, x, <<x>>)
      BY <2>1 DEF Climbs
    <3>. QED BY <1>1, <3>1, ClimbUnique
  <2>2. ASSUME NEW x \in Nodes, x \notin Roots \cup {h} PROVE p[x] = <<x>> \o p[Parent[x]]
    <3>1. Parent[x] \in Nodes
      BY <2>2, TreeAssumption
    <3>2. Climbs(h, x, <<x>> \o p[Parent[x]])
      BY <1>1, <2>2, <3>1, ClimbStep
    <3>. QED BY <1>1, <3>2, ClimbUnique
  <2>. QED BY <2>1, <2>2
<1>4. p = [x \in Nodes |-> p[x]]
  BY DEF p
<1>5. IsPathTo(h, p)
  BY <1>3, <1>4 DEF IsPathTo
<1>6. IsPathTo(h, PathTo(h))
  BY <1>5 DEF PathTo
<1>7. \A x \in Nodes : PathTo(h)[x] = IF x \in Roots \cup {h} THEN <<x>> ELSE <<x>> \o PathTo(h)[Parent[x]]
  BY <1>6, Zenon DEF IsPathTo
<1>8. \A x \in Nodes : PathTo(h)[x] = p[x]
  BY <1>2, <1>7
<1>. QED BY <1>1, <1>6, <1>8

\* The path of a node of the search: it ends at the root and meets what is above.
LEMMA PathIs ==
  ASSUME NEW h \in Nodes, NEW x \in Subtree[h], NEW p, p = PathTo(h)[x]
  PROVE  /\ p \in Seq(Nodes) /\ Len(p) \in Nat \ {0} /\ p[1] = x /\ p[Len(p)] = h
         /\ \A i \in 1 .. Len(p) : p[i] \in Subtree[h] /\ x \in Subtree[p[i]]
         /\ \A i \in 1 .. Len(p) - 1 :
              /\ p[i] # h /\ p[i] \in Nodes \ Roots
              /\ p[i + 1] = Parent[p[i]] /\ p[i] \in Children(p[i + 1])
         /\ AboveTo(h, x) = {y \in Subtree[h] : x \in Below(y)}
         /\ AboveTo(h, x) = {p[i] : i \in 2 .. Len(p)}
         /\ AboveTo(h, x) \cup {x} = {p[i] : i \in 1 .. Len(p)}
<1>0. x \in Nodes /\ Subtree[h] \subseteq Nodes
  BY InSubtree
<1>1. Climbs(h, x, p)
  BY <1>0, PathToExists
<1>2. p \in Seq(Nodes) /\ Len(p) \in Nat \ {0} /\ p[1] = x /\ p[Len(p)] \in Roots \cup {h}
  BY <1>1 DEF Climbs
<1>3. \A i \in 1 .. Len(p) - 1 : p[i] \in Nodes /\ p[i] \notin Roots \cup {h} /\ p[i + 1] = Parent[p[i]]
  BY <1>1, <1>2 DEF Climbs
<1>4. \A i \in 1 .. Len(p) : p[i] \in Subtree[h] /\ x \in Subtree[p[i]]
  <2>. DEFINE N == {n \in Nat : n + 1 <= Len(p) => p[n + 1] \in Subtree[h] /\ x \in Subtree[p[n + 1]]}
  <2>1. 0 \in N
    BY <1>0, <1>2, InSubtree
  <2>2. ASSUME NEW n \in Nat, n \in N PROVE n + 1 \in N
    <3>. SUFFICES ASSUME n + 2 <= Len(p) PROVE p[n + 2] \in Subtree[h] /\ x \in Subtree[p[n + 2]]
      OBVIOUS
    <3>1. p[n + 1] \in Subtree[h] /\ x \in Subtree[p[n + 1]]
      BY <1>2, <2>2
    <3>2. n + 1 \in 1 .. Len(p) - 1 /\ (n + 1) + 1 = n + 2
      BY <1>2
    <3>3. p[n + 1] \in Nodes \ Roots /\ p[n + 1] # h /\ p[n + 2] = Parent[p[n + 1]]
      BY <1>3, <3>2
    <3>4. p[n + 2] \in Subtree[h]
      BY <3>1, <3>3, InSubtree
    <3>5. p[n + 2] \in Nodes /\ p[n + 1] \in Subtree[p[n + 2]]
      BY <3>3, InSubtree, TreeAssumption
    <3>6. Subtree[p[n + 1]] \subseteq Subtree[p[n + 2]]
      BY <3>5, SubtreeTransitive
    <3>. QED BY <3>1, <3>4, <3>6
  <2>3. Nat \subseteq N
    <3>. HIDE DEF N
    <3>. QED BY <2>1, <2>2, Counting
  <2>. SUFFICES ASSUME NEW i \in 1 .. Len(p) PROVE p[i] \in Subtree[h] /\ x \in Subtree[p[i]]
    OBVIOUS
  <2>4. i - 1 \in Nat /\ (i - 1) + 1 = i
    BY <1>2
  <2>5. i - 1 \in N
    BY <2>3, <2>4
  <2>. QED BY <1>2, <2>4, <2>5
<1>5. p[Len(p)] = h
  <2>1. p[Len(p)] \in Subtree[h]
    BY <1>2, <1>4
  <2>. QED BY <1>2, <2>1, InSubtree
<1>6. \A i \in 1 .. Len(p) - 1 : p[i] \in Children(p[i + 1])
  BY <1>3 DEF Children
<1>7. \A i \in 2 .. Len(p) : x \in Below(p[i])
  <2>. SUFFICES ASSUME NEW i \in 2 .. Len(p) PROVE x \in Below(p[i])
    OBVIOUS
  <2>1. i - 1 \in 1 .. Len(p) - 1 /\ i - 1 \in 1 .. Len(p) /\ (i - 1) + 1 = i /\ i \in 1 .. Len(p)
    BY <1>2
  <2>2. p[i - 1] \in Children(p[i]) /\ x \in Subtree[p[i - 1]] /\ p[i] \in Nodes
    <3>1. p[i - 1] \in Children(p[(i - 1) + 1])
      BY <1>6, <2>1
    <3>. QED BY <1>0, <1>4, <2>1, <3>1
  <2>. QED BY <2>2, BelowIs
<1>8. AboveTo(h, x) = {p[i] : i \in 2 .. Len(p)}
  <2>1. p # <<>>
    BY <1>2
  <2>2. /\ Tail(p) \in Seq(Nodes) /\ Len(Tail(p)) = Len(p) - 1
        /\ \A i \in 1 .. Len(Tail(p)) : Tail(p)[i] = p[i + 1]
    BY <1>2, <2>1, HeadTailProperties
  <2>3. DOMAIN Tail(p) = 1 .. Len(p) - 1
    BY <2>2
  <2>4. ToSet(Tail(p)) = {p[i + 1] : i \in 1 .. Len(p) - 1}
    BY <2>2, <2>3, ZenonT(30) DEF ToSet
  <2>5. {p[i + 1] : i \in 1 .. Len(p) - 1} = {p[i] : i \in 2 .. Len(p)}
    <3>1. \A i \in 1 .. Len(p) - 1 : i + 1 \in 2 .. Len(p)
      BY <1>2
    <3>2. \A i \in 2 .. Len(p) : i - 1 \in 1 .. Len(p) - 1 /\ i = (i - 1) + 1
      BY <1>2
    <3>. QED BY <3>1, <3>2
  <2>. QED BY <2>4, <2>5 DEF AboveTo
<1>9. ASSUME NEW y \in Subtree[h], x \in Below(y) PROVE y \in {p[i] : i \in 2 .. Len(p)}
  <2>. SUFFICES ASSUME \A i \in 2 .. Len(p) : p[i] # y PROVE FALSE
    OBVIOUS
  <2>0. y \in Nodes
    BY <1>0
  <2>. DEFINE N == {n \in Nat : n + 1 <= Len(p) => p[n + 1] \in Below(y)}
  <2>1. 0 \in N
    BY <1>2, <1>9
  <2>2. ASSUME NEW n \in Nat, n \in N PROVE n + 1 \in N
    <3>. SUFFICES ASSUME n + 2 <= Len(p) PROVE p[n + 2] \in Below(y)
      OBVIOUS
    <3>1. p[n + 1] \in Below(y)
      BY <1>2, <2>2
    <3>2. n + 1 \in 1 .. Len(p) - 1 /\ (n + 1) + 1 = n + 2 /\ n + 2 \in 2 .. Len(p)
      BY <1>2
    <3>3. p[n + 1] \in Nodes \ Roots /\ p[n + 2] = Parent[p[n + 1]]
      BY <1>3, <3>2
    <3>4. p[n + 2] \in Subtree[y]
      BY <2>0, <3>1, <3>3, BelowIs
    <3>. QED BY <3>2, <3>4 DEF Below
  <2>3. Nat \subseteq N
    <3>. HIDE DEF N
    <3>. QED BY <2>1, <2>2, Counting
  <2>4. Len(p) - 1 \in Nat /\ (Len(p) - 1) + 1 = Len(p)
    BY <1>2
  <2>5. Len(p) - 1 \in N
    BY <2>3, <2>4
  <2>6. h \in Below(y)
    BY <1>2, <1>5, <2>4, <2>5
  <2>. QED BY <2>6, Antisymmetric DEF Below
<1>10. AboveTo(h, x) = {y \in Subtree[h] : x \in Below(y)}
  <2>1. \A i \in 2 .. Len(p) : i \in 1 .. Len(p)
    BY <1>2
  <2>2. \A i \in 2 .. Len(p) : p[i] \in Subtree[h] /\ x \in Below(p[i])
    BY <1>4, <1>7, <2>1
  <2>. QED BY <1>8, <1>9, <2>2
<1>11. {p[i] : i \in 2 .. Len(p)} \cup {x} = {p[i] : i \in 1 .. Len(p)}
  <2>1. 1 .. Len(p) = {1} \cup 2 .. Len(p)
    BY <1>2
  <2>. QED BY <1>2, <2>1
<1>. QED BY <1>2, <1>3, <1>4, <1>5, <1>6, <1>8, <1>10, <1>11

\* The nodes of a path are different ones.
LEMMA PathDiffers ==
  ASSUME NEW h \in Nodes, NEW x \in Subtree[h], NEW p, p = PathTo(h)[x],
         NEW i \in 1 .. Len(p), NEW j \in 1 .. Len(p), i < j
  PROVE  p[i] \in Below(p[j]) /\ p[i] # p[j]
<1>0. /\ Len(p) \in Nat \ {0} /\ \A k \in 1 .. Len(p) : p[k] \in Subtree[h] /\ p[k] \in Nodes
      /\ \A k \in 1 .. Len(p) - 1 : p[k] \in Children(p[k + 1])
  BY PathIs, InSubtree
<1>. DEFINE N == {n \in Nat : i + n + 1 <= Len(p) => p[i] \in Below(p[i + n + 1])}
<1>1. \A k \in 1 .. Len(p) - 1 : p[k] \in Below(p[k + 1])
  <2>. SUFFICES ASSUME NEW k \in 1 .. Len(p) - 1 PROVE p[k] \in Below(p[k + 1])
    OBVIOUS
  <2>1. k \in 1 .. Len(p) /\ k + 1 \in 1 .. Len(p)
    BY <1>0
  <2>2. p[k] \in Children(p[k + 1]) /\ p[k + 1] \in Nodes /\ p[k] \in Nodes
    BY <1>0, <2>1
  <2>. QED BY <2>2, ChildrenIn DEF Below
<1>2. 0 \in N
  <2>1. i + 0 + 1 <= Len(p) => i \in 1 .. Len(p) - 1 /\ i + 0 + 1 = i + 1
    BY <1>0
  <2>. QED BY <1>1, <2>1
<1>3. ASSUME NEW n \in Nat, n \in N PROVE n + 1 \in N
  <2>. SUFFICES ASSUME i + (n + 1) + 1 <= Len(p) PROVE p[i] \in Below(p[i + (n + 1) + 1])
    OBVIOUS
  <2>. DEFINE k == i + n + 1
  <2>1. k \in 1 .. Len(p) - 1 /\ k \in 1 .. Len(p) /\ k + 1 \in 1 .. Len(p)
        /\ k + 1 = i + (n + 1) + 1 /\ k <= Len(p)
    BY <1>0
  <2>2. p[i] \in Below(p[k])
    BY <1>3, <2>1
  <2>. HIDE DEF k
  <2>3. p[k] \in Below(p[k + 1])
    BY <1>1, <2>1
  <2>4. p[k] \in Nodes /\ p[k + 1] \in Nodes
    BY <1>0, <2>1
  <2>5. p[i] \in Subtree[p[k + 1]] /\ p[i] # p[k + 1]
    <3>1. Subtree[p[k]] \subseteq Subtree[p[k + 1]]
      BY <2>3, <2>4, SubtreeTransitive DEF Below
    <3>2. p[i] # p[k + 1]
      BY <2>2, <2>3, <2>4, Antisymmetric DEF Below
    <3>. QED BY <2>2, <3>1, <3>2 DEF Below
  <2>6. p[i] \in Below(p[k + 1])
    BY <2>5 DEF Below
  <2>. QED BY <2>1, <2>6
<1>4. Nat \subseteq N
  <2>. HIDE DEF N
  <2>. QED BY <1>2, <1>3, Counting
<1>5. j - i - 1 \in Nat /\ i + (j - i - 1) + 1 = j /\ j <= Len(p)
  BY <1>0
<1>6. j - i - 1 \in N
  BY <1>4, <1>5
<1>7. p[i] \in Below(p[j])
  BY <1>5, <1>6
<1>. QED BY <1>7 DEF Below

-----------------------------------------------------------------------------
(* What a full search would know.                                          *)

KnownFrom(f, x) ==
  IF x \in DOMAIN GameEnd THEN [lo |-> GameEnd[x], up |-> GameEnd[x]]
  ELSE IF x \in RuleDraws THEN [lo |-> 0, up |-> 0]
  ELSE IF Children(x) = {} THEN [lo |-> -1, up |-> 1]
  ELSE [lo |-> -Max({f[y].up : y \in Children(x)}),
        up |-> -Max({f[y].lo : y \in Children(x)})]
Knows(f, x) == \A y \in Subtree[x] : f[y] = KnownFrom(f, y)
IsKnown(f) == f = [x \in Nodes |-> KnownFrom(f, x)]

\* Only the children of a node matter to what is known of it.
LEMMA KnownFromChildren ==
  ASSUME NEW x, NEW f, NEW g, \A y \in Children(x) : f[y] = g[y]
  PROVE  KnownFrom(f, x) = KnownFrom(g, x)
<1>1. {f[y].up : y \in Children(x)} = {g[y].up : y \in Children(x)}
  OBVIOUS
<1>2. {f[y].lo : y \in Children(x)} = {g[y].lo : y \in Children(x)}
  OBVIOUS
<1>. QED BY <1>1, <1>2, Zenon DEF KnownFrom

\* What is known of a node is determined.
LEMMA KnowsOnce ==
  \A x \in Nodes : \A f, g : Knows(f, x) /\ Knows(g, x) => f[x] = g[x]
<1>. DEFINE S == {x \in Nodes : \A f, g : Knows(f, x) /\ Knows(g, x) => f[x] = g[x]}
<1>1. ASSUME NEW x \in Nodes, Children(x) \subseteq S PROVE x \in S
  <2>. SUFFICES ASSUME NEW f, NEW g, Knows(f, x), Knows(g, x) PROVE f[x] = g[x]
    OBVIOUS
  <2>1. ASSUME NEW y \in Children(x) PROVE f[y] = g[y]
    <3>1. Subtree[y] \subseteq Subtree[x]
      BY ChildrenIn
    <3>2. Knows(f, y) /\ Knows(g, y)
      BY <3>1 DEF Knows
    <3>. QED BY <1>1, <3>2
  <2>2. f[x] = KnownFrom(f, x) /\ g[x] = KnownFrom(g, x)
    BY InSubtree DEF Knows
  <2>3. KnownFrom(f, x) = KnownFrom(g, x)
    BY <2>1, KnownFromChildren
  <2>. QED BY <2>2, <2>3
<1>. HIDE DEF S
<1>2. Nodes \subseteq S
  BY <1>1, FromLeaves
<1>. QED BY <1>2 DEF S

\* Known is what its definition says.
LEMMA KnownIs == \A x \in Nodes : Known[x] = KnownFrom(Known, x)
<1>. DEFINE S == {x \in Nodes : \E f : Knows(f, x)}
            F(x) == CHOOSE f : Knows(f, x)
            G == [x \in Nodes |-> F(x)[x]]
<1>1. ASSUME NEW x \in S PROVE Knows(F(x), x)
  OBVIOUS
<1>. HIDE DEF F
<1>2. ASSUME NEW x \in S PROVE G[x] = KnownFrom(G, x) /\ Children(x) \subseteq S
  <2>1. ASSUME NEW y \in Children(x) PROVE y \in S /\ G[y] = F(x)[y]
    <3>1. y \in Nodes /\ Subtree[y] \subseteq Subtree[x]
      BY ChildrenIn
    <3>2. Knows(F(x), y)
      BY <1>1, <3>1 DEF Knows
    <3>3. y \in S
      BY <3>1, <3>2
    <3>4. Knows(F(y), y)
      BY <1>1, <3>3
    <3>5. F(y)[y] = F(x)[y]
      BY <3>1, <3>2, <3>4, KnowsOnce
    <3>. QED BY <3>1, <3>3, <3>5
  <2>2. G[x] = F(x)[x]
    OBVIOUS
  <2>3. F(x)[x] = KnownFrom(F(x), x)
    BY <1>1, InSubtree DEF Knows
  <2>. HIDE DEF G, S
  <2>4. KnownFrom(F(x), x) = KnownFrom(G, x)
    BY <2>1, KnownFromChildren
  <2>. QED BY <2>1, <2>2, <2>3, <2>4
<1>3. ASSUME NEW x \in S PROVE \A y \in Subtree[x] : y \in S
  BY <1>1, InSubtree, SubtreeTransitive DEF Knows
<1>4. ASSUME NEW x \in Nodes, Children(x) \subseteq S PROVE x \in S
  <2>. DEFINE H == [y \in Nodes |-> IF y = x THEN KnownFrom(G, x) ELSE G[y]]
  <2>1. \A y \in Below(x) : y \in S /\ y # x /\ Children(y) \subseteq Below(x)
    <3>. SUFFICES ASSUME NEW y \in Below(x) PROVE y \in S /\ y # x /\ Children(y) \subseteq Below(x)
      OBVIOUS
    <3>1. PICK c \in Children(x) : y \in Subtree[c]
      BY BelowIs
    <3>2. c \in S /\ c \in Nodes
      BY <1>4
    <3>3. y \in S
      BY <1>3, <3>1, <3>2
    <3>4. y \in Nodes /\ y \in Subtree[x] /\ y # x
      BY InSubtree DEF Below
    <3>5. \A z \in Children(y) : z \in Nodes \ Roots /\ Parent[z] = y
      BY DEF Children
    <3>. QED BY <3>3, <3>4, <3>5, BelowIs
  <2>2. x \notin Children(x) /\ Children(x) \subseteq Below(x) /\ Children(x) \subseteq Nodes
    BY ChildrenIn DEF Below, Children
  <2>3. H[x] = KnownFrom(G, x) /\ \A y \in Below(x) : H[y] = G[y]
    BY <2>1
  <2>. HIDE DEF H
  <2>4. KnownFrom(H, x) = KnownFrom(G, x)
    BY <2>2, <2>3, KnownFromChildren
  <2>5. ASSUME NEW y \in Below(x) PROVE H[y] = KnownFrom(H, y)
    <3>1. G[y] = KnownFrom(G, y)
      BY <1>2, <2>1
    <3>2. \A z \in Children(y) : H[z] = G[z]
      BY <2>1, <2>3
    <3>3. KnownFrom(H, y) = KnownFrom(G, y)
      BY <3>2, KnownFromChildren
    <3>. QED BY <2>3, <3>1, <3>3
  <2>6. Knows(H, x)
    BY <2>3, <2>4, <2>5 DEF Knows, Below
  <2>. QED BY <2>6
<1>5. Nodes \subseteq S
  <2>. HIDE DEF S
  <2>. QED BY <1>4, FromLeaves
<1>6. \A x \in Nodes : G[x] = KnownFrom(G, x)
  <2>. HIDE DEF S, G
  <2>. QED BY <1>2, <1>5
<1>7. G = [x \in Nodes |-> G[x]]
  OBVIOUS
<1>8. IsKnown(G)
  <2>. HIDE DEF G
  <2>. QED BY <1>6, <1>7 DEF IsKnown
<1>9. Known = CHOOSE f : IsKnown(f)
  BY DEF Known, IsKnown, KnownFrom
<1>10. IsKnown(Known)
  BY <1>8, <1>9
<1>. QED BY <1>10, Zenon DEF IsKnown

\* The greatest of some results is one of them.
LEMMA MaxOfThree ==
  ASSUME NEW S \in SUBSET (-1 .. 1), S # {}
  PROVE  Max(S) \in S /\ \A y \in S : Max(S) >= y
<1>1. \E x \in S : \A y \in S : x >= y
  <2>1. CASE 1 \in S
    BY <2>1
  <2>2. CASE 1 \notin S /\ 0 \in S
    BY <2>2
  <2>3. CASE 1 \notin S /\ 0 \notin S
    <3>1. \A y \in S : y = -1
      BY <2>3
    <3>2. PICK y \in S : TRUE
      OBVIOUS
    <3>3. y = -1
      BY <3>1
    <3>4. \A z \in S : -1 >= z
      BY <3>1
    <3>. QED BY <3>2, <3>3, <3>4
  <2>. QED BY <2>1, <2>2, <2>3
<1>. QED BY <1>1 DEF Max

\* What is known are results.
LEMMA KnownType ==
  \A x \in Nodes : Known[x].lo \in -1 .. 1 /\ Known[x].up \in -1 .. 1
<1>. DEFINE S == {x \in Nodes : Known[x].lo \in -1 .. 1 /\ Known[x].up \in -1 .. 1}
<1>1. ASSUME NEW x \in Nodes, Children(x) \subseteq S PROVE x \in S
  <2>1. Known[x] = KnownFrom(Known, x)
    BY KnownIs
  <2>2. CASE x \in DOMAIN GameEnd
    <3>1. GameEnd[x] \in {0, 1}
      BY <2>2, TreeAssumption
    <3>. QED BY <2>1, <2>2, <3>1 DEF KnownFrom
  <2>3. CASE x \notin DOMAIN GameEnd /\ (x \in RuleDraws \/ Children(x) = {})
    BY <2>1, <2>3 DEF KnownFrom
  <2>4. CASE x \notin DOMAIN GameEnd /\ x \notin RuleDraws /\ Children(x) # {}
    <3>. DEFINE U == {Known[y].up : y \in Children(x)}
                L == {Known[y].lo : y \in Children(x)}
    <3>1. U \in SUBSET (-1 .. 1) /\ U # {} /\ L \in SUBSET (-1 .. 1) /\ L # {}
      BY <1>1, <2>4
    <3>2. Known[x].lo = -Max(U) /\ Known[x].up = -Max(L)
      BY <2>1, <2>4 DEF KnownFrom
    <3>. HIDE DEF U, L
    <3>3. Max(U) \in -1 .. 1 /\ Max(L) \in -1 .. 1
      BY <3>1, MaxOfThree
    <3>4. -Max(U) \in -1 .. 1 /\ -Max(L) \in -1 .. 1
      BY <3>3
    <3>. QED BY <3>2, <3>4
  <2>. QED BY <2>2, <2>3, <2>4
<1>. HIDE DEF S
<1>2. Nodes \subseteq S
  BY <1>1, FromLeaves
<1>. QED BY <1>2 DEF S

-----------------------------------------------------------------------------
(* What a minibatch holds of a node.                                       *)

Mult(e, y, K) == IF e.node = y /\ e.kind \in K THEN e.multivisit ELSE 0
Mults(b, y, K) == [i \in DOMAIN b |-> Mult(b[i], y, K)]

\* What a minibatch holds of a node is a sum over its entries.
LEMMA HeldIs ==
  ASSUME NEW E, \A e \in E : e.multivisit \in Nat, NEW b \in Seq(E), NEW y, NEW K
  PROVE  /\ IsFiniteSet(DOMAIN b) /\ \A i \in DOMAIN b : Mults(b, y, K)[i] \in Nat
         /\ HeldAt(b, y, K) = SumFunctionOnSet(Mults(b, y, K), DOMAIN b)
         /\ HeldAt(b, y, K) \in Nat
<1>1. IsFiniteSet(DOMAIN b)
  <2>1. DOMAIN b = 1 .. Len(b) /\ Len(b) \in Nat
    OBVIOUS
  <2>2. IsFiniteSet(1 .. Len(b))
    BY <2>1, FS_Interval
  <2>. QED BY <2>1, <2>2
<1>2. \A i \in DOMAIN b : Mults(b, y, K)[i] \in Nat
  BY DEF Mults, Mult
<1>3. HeldAt(b, y, K) = SumFunction(Mults(b, y, K))
  BY DEF HeldAt, Mults, Mult
<1>4. DOMAIN Mults(b, y, K) = DOMAIN b
  BY DEF Mults
<1>5. HeldAt(b, y, K) = SumFunctionOnSet(Mults(b, y, K), DOMAIN b)
  BY <1>3, <1>4 DEF SumFunction
<1>. QED BY <1>1, <1>2, <1>5, SumNat

\* An empty minibatch holds nothing.
LEMMA HeldNone ==
  ASSUME NEW y, NEW K
  PROVE  HeldAt(<<>>, y, K) = 0
<1>1. \A e \in {} : e.multivisit \in Nat
  OBVIOUS
<1>2. <<>> \in Seq({}) /\ DOMAIN <<>> = {}
  OBVIOUS
<1>3. HeldAt(<<>>, y, K) = SumFunctionOnSet(Mults(<<>>, y, K), {})
  BY <1>1, <1>2, HeldIs
<1>. QED BY <1>3, SumEmpty

\* One entry more.
LEMMA HeldAppend ==
  ASSUME NEW E, \A e \in E : e.multivisit \in Nat, NEW b \in Seq(E), NEW a \in E, NEW y, NEW K
  PROVE  HeldAt(b \o <<a>>, y, K) = HeldAt(b, y, K) + Mult(a, y, K)
<1>. DEFINE c == b \o <<a>>
            N == Len(b)
            f == Mults(c, y, K)
<1>1. c \in Seq(E) /\ DOMAIN c = (1 .. N) \cup {N + 1} /\ DOMAIN b = 1 .. N /\ N \in Nat
  OBVIOUS
<1>2. (\A i \in 1 .. N : c[i] = b[i]) /\ c[N + 1] = a
  OBVIOUS
<1>. HIDE DEF c, N
<1>3. /\ HeldAt(c, y, K) = SumFunctionOnSet(f, DOMAIN c) /\ IsFiniteSet(DOMAIN c)
      /\ \A i \in DOMAIN c : f[i] \in Nat
  BY <1>1, HeldIs
<1>4. HeldAt(b, y, K) = SumFunctionOnSet(Mults(b, y, K), 1 .. N) /\ IsFiniteSet(1 .. N)
  BY <1>1, HeldIs
<1>5. f[N + 1] = Mult(a, y, K) /\ \A i \in 1 .. N : f[i] = Mults(b, y, K)[i]
  BY <1>1, <1>2 DEF Mults
<1>6. SumFunctionOnSet(f, 1 .. N) = SumFunctionOnSet(Mults(b, y, K), 1 .. N)
  BY <1>4, <1>5, SumEqual, ZenonT(30)
<1>. DEFINE U == DOMAIN c
            T == 1 .. N
            m == N + 1
<1>7. T \in SUBSET U /\ m \in U \ T /\ IsFiniteSet(U) /\ \A i \in U : f[i] \in Int
  BY <1>1, <1>3
<1>7a. U = T \cup {m}
  BY <1>1
<1>8. /\ SumFunctionOnSet(f, U) = f[m] + SumFunctionOnSet(f, T) /\ SumFunctionOnSet(f, T) \in Int
      /\ f[m] \in Int
  <2>. HIDE DEF U, T, m, f
  <2>1. /\ m \in U /\ IsFiniteSet(U) /\ (\A z \in U : f[z] \in Int) /\ IsFiniteSet(T)
        /\ \A z \in T : f[z] \in Int
    BY <1>4, <1>7 DEF T
  <2>2. SumFunctionOnSet(f, U) = f[m] + SumFunctionOnSet(f, U \ {m})
    BY <2>1, SumRemoveInt
  <2>3. U \ {m} = T
    BY <1>7, <1>7a
  <2>4. SumFunctionOnSet(f, T) \in Int
    BY <2>1, SumTypeInt
  <2>. QED BY <2>1, <2>2, <2>3, <2>4
<1>9. HeldAt(c, y, K) = HeldAt(b, y, K) + Mult(a, y, K)
  <2>. HIDE DEF f
  <2>1. SumFunctionOnSet(f, T) + f[m] = f[m] + SumFunctionOnSet(f, T)
    BY ONLY <1>8
  <2>. QED BY <1>3, <1>4, <1>5, <1>6, <1>8, <2>1
<1>. QED BY <1>9 DEF c

\* An entry that is taken out; the others move up.
LEMMA RemoveIs ==
  ASSUME NEW E, NEW b \in Seq(E), NEW i \in DOMAIN b
  PROVE  /\ RemoveAt(b, i) \in Seq(E)
         /\ DOMAIN RemoveAt(b, i) = 1 .. Len(b) - 1 /\ DOMAIN b = 1 .. Len(b) /\ Len(b) \in Nat
         /\ Len(RemoveAt(b, i)) = Len(b) - 1
         /\ \A j \in 1 .. Len(b) - 1 : RemoveAt(b, i)[j] = IF j < i THEN b[j] ELSE b[j + 1]
<1>1. i \in 1 .. Len(b) /\ Len(b) \in Nat
  OBVIOUS
<1>. DEFINE p == SubSeq(b, 1, i - 1)
            q == SubSeq(b, i + 1, Len(b))
<1>2. p \in Seq(E) /\ Len(p) = i - 1 /\ \A j \in 1 .. i - 1 : p[j] = b[j]
  BY <1>1
<1>3. q \in Seq(E) /\ Len(q) = Len(b) - i /\ \A j \in 1 .. Len(b) - i : q[j] = b[i + j]
  BY <1>1
<1>. HIDE DEF p, q
<1>4. p \o q \in Seq(E) /\ Len(p \o q) = Len(b) - 1
  BY <1>1, <1>2, <1>3
<1>5. \A j \in 1 .. Len(b) - 1 : (p \o q)[j] = IF j < i THEN b[j] ELSE b[j + 1]
  <2>. SUFFICES ASSUME NEW j \in 1 .. Len(b) - 1 PROVE (p \o q)[j] = IF j < i THEN b[j] ELSE b[j + 1]
    OBVIOUS
  <2>1. CASE j < i
    BY <1>1, <1>2, <1>3, <2>1
  <2>2. CASE j >= i
    <3>0. ~(j <= Len(p)) /\ j \in 1 .. Len(p) + Len(q)
      BY <1>1, <1>2, <1>3, <2>2
    <3>1. (p \o q)[j] = q[j - (i - 1)]
      BY <1>2, <1>3, <3>0, ConcatProperties, SMTT(30)
    <3>2. j - (i - 1) \in 1 .. Len(b) - i /\ i + (j - (i - 1)) = j + 1
      BY <1>1, <2>2
    <3>3. q[j - (i - 1)] = b[i + (j - (i - 1))]
      BY <1>3, <3>2
    <3>. QED BY <1>1, <2>2, <3>1, <3>2, <3>3
  <2>3. j < i \/ j >= i
    BY <1>1
  <2>. QED BY <2>1, <2>2, <2>3
<1>6. RemoveAt(b, i) = p \o q
  BY DEF RemoveAt, p, q
<1>7. DOMAIN (p \o q) = 1 .. Len(p \o q)
  BY <1>4
<1>. QED BY <1>1, <1>4, <1>5, <1>6, <1>7

\* The sequence b but for its i-th.
IsWithout(c, b, i) ==
  /\ i \in DOMAIN b /\ Len(c) = Len(b) - 1
  /\ \A j \in 1 .. Len(b) - 1 : c[j] = IF j < i THEN b[j] ELSE b[j + 1]

\* What is held apart from one entry, in whatever order the others are.
LEMMA HeldWithout ==
  ASSUME NEW E, \A e \in E : e.multivisit \in Nat, NEW b \in Seq(E), NEW c \in Seq(E), NEW i, IsWithout(c, b, i),
         NEW y, NEW K
  PROVE  HeldAt(b, y, K) = Mult(b[i], y, K) + HeldAt(c, y, K)
<1>1. /\ i \in 1 .. Len(b) /\ Len(b) \in Nat /\ DOMAIN c = 1 .. Len(b) - 1 /\ DOMAIN b = 1 .. Len(b)
      /\ \A j \in 1 .. Len(b) - 1 : c[j] = IF j < i THEN b[j] ELSE b[j + 1]
  BY DEF IsWithout
<1>. DEFINE f == Mults(b, y, K)
            g == Mults(c, y, K)
            S == DOMAIN b \ {i}
            T == DOMAIN c
            h == [j \in T |-> IF j < i THEN j ELSE j + 1]
<1>2. /\ IsFiniteSet(DOMAIN b) /\ \A j \in DOMAIN b : f[j] \in Nat
      /\ HeldAt(b, y, K) = SumFunctionOnSet(f, DOMAIN b)
  BY HeldIs
<1>3. /\ IsFiniteSet(T) /\ \A j \in T : g[j] \in Nat
      /\ HeldAt(c, y, K) = SumFunctionOnSet(g, T) /\ HeldAt(c, y, K) \in Nat
  BY HeldIs
<1>4. h \in [T -> S]
  BY <1>1
<1>5. \A j \in T : g[j] \in Int /\ f[h[j]] = g[j]
  <2>. SUFFICES ASSUME NEW j \in T PROVE f[h[j]] = g[j]
    BY <1>3
  <2>1. h[j] \in DOMAIN b /\ b[h[j]] = c[j]
    BY <1>1
  <2>. HIDE DEF h
  <2>. QED BY <2>1 DEF Mults
<1>6. \A j, k \in T : h[j] = h[k] => j = k
  BY <1>1
<1>7. \A k \in S : \E j \in T : h[j] = k
  <2>. SUFFICES ASSUME NEW k \in S PROVE \E j \in T : h[j] = k
    OBVIOUS
  <2>1. CASE k < i
    BY <1>1, <2>1
  <2>2. CASE k > i
    <3>1. k - 1 \in T /\ h[k - 1] = k
      BY <1>1, <2>2
    <3>. QED BY <3>1
  <2>. QED BY <1>1, <2>1, <2>2
<1>8. SumFunctionOnSet(f, S) = SumFunctionOnSet(g, T)
  <2>. HIDE DEF f, g, S, T, h
  <2>. QED BY <1>3, <1>4, <1>5, <1>6, <1>7, SumRename
<1>9. SumFunctionOnSet(f, DOMAIN b) = f[i] + SumFunctionOnSet(f, S)
  <2>. DEFINE D == DOMAIN b
  <2>. HIDE DEF f
  <2>1. IsFiniteSet(D) /\ i \in D /\ \A j \in D : f[j] \in Int
    BY <1>1, <1>2
  <2>. HIDE DEF D
  <2>2. SumFunctionOnSet(f, D) = f[i] + SumFunctionOnSet(f, D \ {i})
    BY <2>1, SumRemoveInt
  <2>. QED BY <2>2 DEF D
<1>10. f[i] = Mult(b[i], y, K)
  BY <1>1 DEF Mults
<1>. HIDE DEF f, g, S, T
<1>. QED BY <1>2, <1>3, <1>8, <1>9, <1>10

\* One entry replaced.
LEMMA HeldExcept ==
  ASSUME NEW E, \A e \in E : e.multivisit \in Nat, NEW b \in Seq(E), NEW i \in DOMAIN b, NEW a \in E, NEW y, NEW K
  PROVE  /\ HeldAt([b EXCEPT ![i] = a], y, K) = HeldAt(b, y, K) + (Mult(a, y, K) - Mult(b[i], y, K))
         /\ Mult(a, y, K) \in Nat /\ Mult(b[i], y, K) \in Nat /\ HeldAt(b, y, K) \in Nat
<1>. DEFINE c == [b EXCEPT ![i] = a]
            f == Mults(b, y, K)
            g == Mults(c, y, K)
            S == DOMAIN b
<1>1. /\ c \in Seq(E) /\ DOMAIN c = DOMAIN b /\ c[i] = a /\ b[i] \in E
      /\ \A j \in DOMAIN b : j # i => c[j] = b[j]
  OBVIOUS
<1>2. /\ IsFiniteSet(S) /\ \A j \in S : f[j] \in Nat
      /\ HeldAt(b, y, K) = SumFunctionOnSet(f, S) /\ HeldAt(b, y, K) \in Nat
  BY HeldIs
<1>. HIDE DEF c
<1>3. (\A j \in S : g[j] \in Nat) /\ HeldAt(c, y, K) = SumFunctionOnSet(g, S)
  BY <1>1, HeldIs
<1>4. \A j \in S \ {i} : g[j] = f[j]
  BY <1>1 DEF Mults
<1>5. g[i] = Mult(a, y, K) /\ f[i] = Mult(b[i], y, K) /\ i \in S
  BY <1>1 DEF Mults
<1>6. SumFunctionOnSet(g, S) = SumFunctionOnSet(f, S) + (g[i] - f[i])
  <2>. HIDE DEF f, g, S
  <2>1. \A j \in S : f[j] \in Int /\ g[j] \in Int
    BY <1>2, <1>3
  <2>. QED BY <1>2, <1>4, <1>5, <2>1, SumChange
<1>7. Mult(a, y, K) \in Nat /\ Mult(b[i], y, K) \in Nat
  BY <1>1 DEF Mult
<1>. HIDE DEF f, g, S
<1>. QED BY <1>2, <1>3, <1>5, <1>6, <1>7 DEF c

\* Some entry holds the node.
LEMMA HeldSome ==
  ASSUME NEW E, \A e \in E : e.multivisit \in Nat, NEW b \in Seq(E), NEW i \in DOMAIN b, NEW y, NEW K
  PROVE  Mult(b[i], y, K) \in Nat /\ Mult(b[i], y, K) <= HeldAt(b, y, K)
<1>. DEFINE f == Mults(b, y, K)
<1>1. /\ IsFiniteSet(DOMAIN b) /\ \A j \in DOMAIN b : f[j] \in Nat
      /\ HeldAt(b, y, K) = SumFunctionOnSet(f, DOMAIN b)
  BY HeldIs
<1>2. f[i] = Mult(b[i], y, K)
  BY DEF Mults
<1>3. f[i] \in Nat /\ f[i] <= SumFunctionOnSet(f, DOMAIN b)
  <2>. HIDE DEF f
  <2>. QED BY <1>1, SumTerm
<1>. HIDE DEF f
<1>. QED BY <1>1, <1>2, <1>3

\* The steps f, one for each i up to N, stay in A.
Closed(f, N, A) == \A i \in 1 .. N : \A s \in A : f[i][s] \in A

\* What is defined step by step exists.
LEMMA StepByStep ==
  ASSUME NEW A, NEW a \in A, NEW N \in Nat, NEW f, Closed(f, N, A)
  PROVE  \E g \in [0 .. N -> A] : g[0] = a /\ \A i \in 1 .. N : g[i] = f[i][g[i - 1]]
<1>. DEFINE Goes(n, g) == g[0] = a /\ \A i \in 1 .. n : g[i] = f[i][g[i - 1]]
            Q == {n \in Nat : n <= N => \E g \in [0 .. n -> A] : Goes(n, g)}
<1>1. 0 \in Q
  <2>1. [i \in 0 .. 0 |-> a] \in [0 .. 0 -> A] /\ Goes(0, [i \in 0 .. 0 |-> a])
    OBVIOUS
  <2>. HIDE DEF Goes
  <2>. QED BY <2>1
<1>2. ASSUME NEW n \in Nat, n \in Q PROVE n + 1 \in Q
  <2>. HIDE DEF Goes
  <2>. SUFFICES ASSUME n + 1 <= N PROVE \E g \in [0 .. n + 1 -> A] : Goes(n + 1, g)
    OBVIOUS
  <2>1. PICK g \in [0 .. n -> A] : Goes(n, g)
    BY <1>2
  <2>. USE DEF Goes
  <2>. DEFINE h == [i \in 0 .. n + 1 |-> IF i <= n THEN g[i] ELSE f[n + 1][g[n]]]
  <2>2. n + 1 \in 1 .. N /\ g[n] \in A
    OBVIOUS
  <2>3. f[n + 1][g[n]] \in A
    BY <2>2 DEF Closed
  <2>4. h \in [0 .. n + 1 -> A]
    BY <2>3
  <2>5. h[0] = a
    BY <2>1
  <2>6. ASSUME NEW i \in 1 .. n + 1 PROVE h[i] = f[i][h[i - 1]]
    <3>1. CASE i <= n
      <4>1. i \in 1 .. n /\ i \in 0 .. n + 1 /\ i - 1 \in 0 .. n + 1 /\ i - 1 <= n
        BY <3>1
      <4>2. g[i] = f[i][g[i - 1]]
        BY <2>1, <4>1
      <4>. QED BY <3>1, <4>1, <4>2
    <3>2. CASE i = n + 1
      <4>1. i \in 0 .. n + 1 /\ ~(i <= n) /\ i - 1 = n /\ n \in 0 .. n + 1 /\ n <= n
        BY <3>2
      <4>2. h[i] = f[n + 1][g[n]] /\ h[n] = g[n]
        BY <4>1
      <4>. QED BY <3>2, <4>1, <4>2
    <3>. QED BY <3>1, <3>2
  <2>. QED BY <2>4, <2>5, <2>6
<1>. HIDE DEF Q
<1>3. Nat \subseteq Q
  BY <1>1, <1>2, Counting
<1>. QED BY <1>3 DEF Q

Keeps(b, k) ==
  k = [i \in 0 .. Len(b) |->
         IF i = 0 THEN <<>>
         ELSE IF IsCollision(b[i]) THEN k[i - 1] ELSE Append(k[i - 1], b[i])]

\* WithoutCollisions is computed entry by entry.
LEMMA KeptExists ==
  ASSUME NEW E, NEW b \in Seq(E)
  PROVE  \E k \in [0 .. Len(b) -> Seq(E)] :
           /\ k[0] = <<>>
           /\ \A i \in 1 .. Len(b) :
                k[i] = IF IsCollision(b[i]) THEN k[i - 1] ELSE Append(k[i - 1], b[i])
           /\ WithoutCollisions(b) = k[Len(b)]
<1>. DEFINE N == Len(b)
            f == [i \in 1 .. N |-> [s \in Seq(E) |-> IF IsCollision(b[i]) THEN s ELSE Append(s, b[i])]]
<1>0. N \in Nat /\ <<>> \in Seq(E)
  OBVIOUS
<1>1. \A i \in 1 .. N : \A s \in Seq(E) : f[i][s] \in Seq(E)
  OBVIOUS
<1>2. PICK g \in [0 .. N -> Seq(E)] : g[0] = <<>> /\ \A i \in 1 .. N : g[i] = f[i][g[i - 1]]
  <2>. DEFINE A == Seq(E)
              a == <<>>
  <2>1. N \in Nat /\ a \in A /\ Closed(f, N, A)
    BY <1>0, <1>1 DEF Closed
  <2>. HIDE DEF f, N, A, a
  <2>2. \E g \in [0 .. N -> A] : g[0] = a /\ \A i \in 1 .. N : g[i] = f[i][g[i - 1]]
    BY <2>1, StepByStep
  <2>. QED BY <2>2 DEF A, a
<1>3. \A i \in 1 .. N : g[i] = IF IsCollision(b[i]) THEN g[i - 1] ELSE Append(g[i - 1], b[i])
  <2>. SUFFICES ASSUME NEW i \in 1 .. N PROVE g[i] = IF IsCollision(b[i]) THEN g[i - 1] ELSE Append(g[i - 1], b[i])
    OBVIOUS
  <2>1. g[i] = f[i][g[i - 1]] /\ g[i - 1] \in Seq(E)
    <3>1. i - 1 \in 0 .. N
      BY <1>0
    <3>. HIDE DEF f, N
    <3>. QED BY <1>2, <3>1
  <2>. QED BY <2>1
<1>4. g = [i \in 0 .. N |-> IF i = 0 THEN <<>>
             ELSE IF IsCollision(b[i]) THEN g[i - 1] ELSE Append(g[i - 1], b[i])]
  <2>1. \A i \in 0 .. N : g[i] = IF i = 0 THEN <<>>
             ELSE IF IsCollision(b[i]) THEN g[i - 1] ELSE Append(g[i - 1], b[i])
    <3>1. g[0] = <<>> /\ \A i \in 0 .. N : i = 0 \/ i \in 1 .. N
      BY <1>0, <1>2
    <3>. HIDE DEF N
    <3>. QED BY <1>3, <3>1
  <2>2. g = [i \in 0 .. N |-> g[i]]
    OBVIOUS
  <2>3. [i \in 0 .. N |-> g[i]] = [i \in 0 .. N |-> IF i = 0 THEN <<>>
             ELSE IF IsCollision(b[i]) THEN g[i - 1] ELSE Append(g[i - 1], b[i])]
    BY <2>1
  <2>. QED BY <2>2, <2>3
<1>5. Keeps(b, g)
  BY <1>4 DEF Keeps
<1>6. WithoutCollisions(b) = (CHOOSE k : Keeps(b, k))[Len(b)]
  BY DEF WithoutCollisions, Keeps
<1>. DEFINE k == CHOOSE kk : Keeps(b, kk)
<1>7. Keeps(b, k)
  BY <1>5
<1>. HIDE DEF k
<1>8. k = [i \in 0 .. Len(b) |->
         IF i = 0 THEN <<>>
         ELSE IF IsCollision(b[i]) THEN k[i - 1] ELSE Append(k[i - 1], b[i])]
  BY <1>7, Zenon DEF Keeps
<1>9. \A i \in 0 .. N : k[i] = IF i = 0 THEN <<>>
         ELSE IF IsCollision(b[i]) THEN k[i - 1] ELSE Append(k[i - 1], b[i])
  BY <1>8, Zenon
<1>10. k[0] = <<>>
  BY <1>0, <1>9
<1>11. \A i \in 1 .. N : k[i] = IF IsCollision(b[i]) THEN k[i - 1] ELSE Append(k[i - 1], b[i])
  BY <1>0, <1>9
<1>12. \A i \in 0 .. N : k[i] \in Seq(E)
  <2>. DEFINE Q == {i \in Nat : i <= N => k[i] \in Seq(E)}
  <2>1. 0 \in Q
    BY <1>0, <1>10
  <2>2. ASSUME NEW n \in Nat, n \in Q PROVE n + 1 \in Q
    <3>. SUFFICES ASSUME n + 1 <= N PROVE k[n + 1] \in Seq(E)
      OBVIOUS
    <3>1. n + 1 \in 1 .. N /\ (n + 1) - 1 = n /\ n <= N
      BY <1>0
    <3>2. k[n] \in Seq(E) /\ b[n + 1] \in E
      BY <2>2, <3>1
    <3>3. k[n + 1] = IF IsCollision(b[n + 1]) THEN k[n] ELSE Append(k[n], b[n + 1])
      BY <1>11, <3>1
    <3>. QED BY <3>2, <3>3
  <2>. HIDE DEF Q
  <2>3. Nat \subseteq Q
    BY <2>1, <2>2, Counting
  <2>. QED BY <1>0, <2>3 DEF Q
<1>13. k \in [0 .. N -> Seq(E)]
  <2>1. k = [i \in 0 .. N |-> k[i]]
    BY <1>8, Zenon
  <2>. QED BY <1>12, <2>1
<1>14. WithoutCollisions(b) = k[Len(b)]
  BY <1>6 DEF k
<1>. QED BY <1>10, <1>11, <1>13, <1>14

\* An entry is a visit or a collision.
LEMMA MultKinds ==
  ASSUME NEW e, e.kind \in Kinds, e.multivisit \in Nat, NEW y
  PROVE  /\ IsCollision(e) => /\ Mult(e, y, Kinds \ {"collision"}) = 0
                              /\ Mult(e, y, Kinds) = Mult(e, y, {"collision"})
         /\ ~IsCollision(e) => /\ Mult(e, y, {"collision"}) = 0
                               /\ Mult(e, y, Kinds) = Mult(e, y, Kinds \ {"collision"})
         /\ Mult(e, y, Kinds) \in Nat /\ Mult(e, y, Kinds \ {"collision"}) \in Nat
         /\ Mult(e, y, {"collision"}) \in Nat
BY DEF Mult, IsCollision

\* c is a part of b, in some order; what it leaves out are collisions.
Selects(h, c, b) ==
  /\ h \in [DOMAIN c -> DOMAIN b]
  /\ \A i \in DOMAIN c : c[i] = b[h[i]] /\ ~IsCollision(c[i])
  /\ \A i, j \in DOMAIN c : h[i] = h[j] => i = j
HoldsOn(c, b) ==
  \A y : /\ HeldAt(c, y, Kinds \ {"collision"}) = HeldAt(b, y, Kinds \ {"collision"})
         /\ HeldAt(c, y, Kinds) = HeldAt(b, y, Kinds) - HeldAt(b, y, {"collision"})

\* One entry more: it is kept or it is a collision.
LEMMA KeptStep ==
  ASSUME NEW E, \A e \in E : e.multivisit \in Nat /\ e.kind \in Kinds,
         NEW b \in Seq(E), NEW c \in Seq(E), NEW h, Selects(h, c, b), HoldsOn(c, b), NEW a \in E,
         NEW d, d = IF IsCollision(a) THEN c ELSE Append(c, a)
  PROVE  (\E g : Selects(g, d, b \o <<a>>)) /\ HoldsOn(d, b \o <<a>>)
<1>. DEFINE bb == b \o <<a>>
            V == Kinds \ {"collision"}
            C == {"collision"}
<1>1. bb \in Seq(E) /\ DOMAIN bb = (DOMAIN b) \cup {Len(b) + 1} /\ bb[Len(b) + 1] = a
      /\ Len(b) + 1 \notin DOMAIN b /\ \A i \in DOMAIN b : bb[i] = b[i]
  OBVIOUS
<1>2. \A e \in E : e.multivisit \in Nat
  OBVIOUS
<1>3. \A y : /\ HeldAt(bb, y, V) = HeldAt(b, y, V) + Mult(a, y, V)
             /\ HeldAt(bb, y, C) = HeldAt(b, y, C) + Mult(a, y, C)
             /\ HeldAt(bb, y, Kinds) = HeldAt(b, y, Kinds) + Mult(a, y, Kinds)
  <2>. HIDE DEF V, C, Kinds
  <2>. QED BY <1>2, HeldAppend
<1>4. \A y : /\ HeldAt(b, y, V) \in Nat /\ HeldAt(b, y, C) \in Nat /\ HeldAt(b, y, Kinds) \in Nat
             /\ HeldAt(c, y, V) \in Nat /\ HeldAt(c, y, Kinds) \in Nat
  <2>. HIDE DEF V, C, Kinds
  <2>. QED BY <1>2, HeldIs
<1>5. \A y : /\ HeldAt(c, y, V) = HeldAt(b, y, V)
             /\ HeldAt(c, y, Kinds) = HeldAt(b, y, Kinds) - HeldAt(b, y, C)
  BY DEF HoldsOn
<1>6. CASE IsCollision(a)
  <2>1. \A y : Mult(a, y, V) = 0 /\ Mult(a, y, Kinds) = Mult(a, y, C) /\ Mult(a, y, C) \in Nat
    BY <1>6, MultKinds
  <2>2. \E g : Selects(g, d, bb)
    <3>1. d = c
      BY <1>6
    <3>2. Selects(h, c, bb)
      BY <1>1 DEF Selects
    <3>. QED BY <3>1, <3>2
  <2>3. HoldsOn(d, bb)
    <3>1. d = c
      BY <1>6
    <3>2. ASSUME NEW y PROVE /\ HeldAt(c, y, V) = HeldAt(bb, y, V)
                             /\ HeldAt(c, y, Kinds) = HeldAt(bb, y, Kinds) - HeldAt(bb, y, C)
      <4>. DEFINE m == Mult(a, y, C)
      <4>. HIDE DEF m
      <4>1. m \in Nat /\ Mult(a, y, V) = 0 /\ Mult(a, y, Kinds) = m /\ Mult(a, y, C) = m
        BY <2>1 DEF m
      <4>. HIDE DEF bb, V, C
      <4>. QED BY <1>3, <1>4, <1>5, <4>1
    <3>. QED BY <3>1, <3>2 DEF HoldsOn
  <2>. QED BY <2>2, <2>3
<1>7. CASE ~IsCollision(a)
  <2>0. d = c \o <<a>>
    BY <1>7
  <2>1. \A y : Mult(a, y, C) = 0 /\ Mult(a, y, Kinds) = Mult(a, y, V) /\ Mult(a, y, V) \in Nat
    BY <1>7, MultKinds
  <2>2. \A y : /\ HeldAt(d, y, V) = HeldAt(c, y, V) + Mult(a, y, V)
               /\ HeldAt(d, y, Kinds) = HeldAt(c, y, Kinds) + Mult(a, y, Kinds)
    <3>. DEFINE dd == c \o <<a>>
    <3>1. \A y : /\ HeldAt(dd, y, V) = HeldAt(c, y, V) + Mult(a, y, V)
                 /\ HeldAt(dd, y, Kinds) = HeldAt(c, y, Kinds) + Mult(a, y, Kinds)
      <4>. HIDE DEF V, C, Kinds
      <4>. QED BY <1>2, HeldAppend
    <3>2. dd = d
      BY <2>0
    <3>. HIDE DEF V, C, Kinds, dd
    <3>. QED BY <3>1, <3>2
  <2>3. \E g : Selects(g, d, bb)
    <3>1. DOMAIN d = (DOMAIN c) \cup {Len(c) + 1} /\ d[Len(c) + 1] = a
          /\ Len(c) + 1 \notin DOMAIN c /\ \A i \in DOMAIN c : d[i] = c[i]
      BY <2>0
    <3>. DEFINE g == [i \in DOMAIN d |-> IF i = Len(c) + 1 THEN Len(b) + 1 ELSE h[i]]
    <3>2. /\ h \in [DOMAIN c -> DOMAIN b]
          /\ \A i \in DOMAIN c : c[i] = b[h[i]] /\ ~IsCollision(c[i])
          /\ \A i, j \in DOMAIN c : h[i] = h[j] => i = j
      BY DEF Selects
    <3>3. g[Len(c) + 1] = Len(b) + 1 /\ \A i \in DOMAIN c : g[i] = h[i] /\ h[i] \in DOMAIN b
      BY <3>1, <3>2
    <3>4. g \in [DOMAIN d -> DOMAIN bb]
      BY <1>1, <3>1, <3>2
    <3>. HIDE DEF g, bb
    <3>5. \A i \in DOMAIN d : d[i] = bb[g[i]] /\ ~IsCollision(d[i])
      BY <1>1, <1>7, <3>1, <3>2, <3>3
    <3>6. \A i, j \in DOMAIN d : g[i] = g[j] => i = j
      BY <1>1, <3>1, <3>2, <3>3
    <3>. QED BY <3>4, <3>5, <3>6 DEF Selects
  <2>4. HoldsOn(d, bb)
    <3>1. ASSUME NEW y PROVE /\ HeldAt(d, y, V) = HeldAt(bb, y, V)
                             /\ HeldAt(d, y, Kinds) = HeldAt(bb, y, Kinds) - HeldAt(bb, y, C)
      <4>. DEFINE m == Mult(a, y, V)
      <4>. HIDE DEF m
      <4>1. m \in Nat /\ Mult(a, y, C) = 0 /\ Mult(a, y, Kinds) = m /\ Mult(a, y, V) = m
        BY <2>1 DEF m
      <4>. HIDE DEF bb, V, C
      <4>. QED BY <1>3, <1>4, <1>5, <2>2, <4>1
    <3>. QED BY <3>1 DEF HoldsOn
  <2>. QED BY <2>3, <2>4
<1>. QED BY <1>6, <1>7

\* What is appended is last.
LEMMA AtTheEnd ==
  ASSUME NEW E, NEW p \in Seq(E), NEW a \in E
  PROVE  (p \o <<a>>)[Len(p) + 1] = a
OBVIOUS

\* WithoutCollisions keeps the visits, in their order, and what they hold.
LEMMA Kept ==
  ASSUME NEW E, \A e \in E : e.multivisit \in Nat /\ e.kind \in Kinds, NEW b \in Seq(E)
  PROVE  /\ WithoutCollisions(b) \in Seq(E)
         /\ \E h : Selects(h, WithoutCollisions(b), b)
         /\ HoldsOn(WithoutCollisions(b), b)
<1>1. PICK k \in [0 .. Len(b) -> Seq(E)] :
           /\ k[0] = <<>>
           /\ \A i \in 1 .. Len(b) :
                k[i] = IF IsCollision(b[i]) THEN k[i - 1] ELSE Append(k[i - 1], b[i])
           /\ WithoutCollisions(b) = k[Len(b)]
  BY KeptExists
<1>. DEFINE N == Len(b)
            P(n) == SubSeq(b, 1, n)
            Q == {n \in Nat : n <= N => (\E h : Selects(h, k[n], P(n))) /\ HoldsOn(k[n], P(n))}
<1>2. N \in Nat
  OBVIOUS
<1>3. 0 \in Q
  <2>1. P(0) = <<>> /\ k[0] = <<>> /\ DOMAIN <<>> = {}
    BY <1>1
  <2>2. <<>> \in [DOMAIN <<>> -> DOMAIN <<>>]
    OBVIOUS
  <2>3. Selects(<<>>, <<>>, <<>>)
    BY <2>1, <2>2 DEF Selects
  <2>4. HoldsOn(<<>>, <<>>)
    BY HeldNone DEF HoldsOn
  <2>. HIDE DEF P
  <2>. QED BY <2>1, <2>3, <2>4
<1>4. ASSUME NEW n \in Nat, n \in Q PROVE n + 1 \in Q
  <2>1. ASSUME n + 1 <= N
        PROVE  (\E h : Selects(h, k[n + 1], P(n + 1))) /\ HoldsOn(k[n + 1], P(n + 1))
    <3>1. n \in 0 .. N /\ n + 1 \in 1 .. N /\ (n + 1) - 1 = n /\ n <= N
      BY <1>2, <2>1
    <3>2. P(n) \in Seq(E) /\ b[n + 1] \in E
      BY <3>1
    <3>3. P(n + 1) = P(n) \o <<b[n + 1]>>
      <4>1. Len(P(n + 1)) = n + 1 /\ Len(P(n)) = n /\ P(n + 1) \in Seq(E)
        BY <3>1
      <4>2. P(n) \o <<b[n + 1]>> \in Seq(E) /\ Len(P(n) \o <<b[n + 1]>>) = n + 1
        BY <3>2, <4>1
      <4>3. ASSUME NEW i \in 1 .. n + 1 PROVE P(n + 1)[i] = (P(n) \o <<b[n + 1]>>)[i]
        <5>1. P(n + 1)[i] = b[i]
          BY <3>1
        <5>2. CASE i <= n
          <6>1. P(n)[i] = b[i] /\ i \in 1 .. Len(P(n))
            BY <3>1, <4>1, <5>2
          <6>. HIDE DEF P
          <6>. QED BY <3>2, <5>1, <6>1
        <5>3. CASE i = n + 1
          <6>. DEFINE p == P(n)
                      a == b[n + 1]
          <6>1. p \in Seq(E) /\ Len(p) = n /\ a \in E
            BY <3>2, <4>1
          <6>. HIDE DEF p, a
          <6>2. (p \o <<a>>)[n + 1] = a
            BY <6>1, AtTheEnd
          <6>. HIDE DEF P
          <6>. QED BY <5>1, <5>3, <6>2 DEF p, a
        <5>. QED BY <5>2, <5>3
      <4>. HIDE DEF P
      <4>. QED BY <4>1, <4>2, <4>3, SeqEqual
    <3>4. k[n] \in Seq(E) /\ k[n + 1] = IF IsCollision(b[n + 1]) THEN k[n] ELSE Append(k[n], b[n + 1])
      BY <1>1, <3>1
    <3>5. PICK h : Selects(h, k[n], P(n))
      BY <1>4, <3>1
    <3>6. HoldsOn(k[n], P(n))
      BY <1>4, <3>1
    <3>. HIDE DEF P, N
    <3>7. /\ (\E g : Selects(g, k[n + 1], P(n) \o <<b[n + 1]>>))
          /\ HoldsOn(k[n + 1], P(n) \o <<b[n + 1]>>)
      BY <3>2, <3>4, <3>5, <3>6, KeptStep
    <3>. QED BY <3>3, <3>7
  <2>. HIDE DEF P, N
  <2>. QED BY <2>1
<1>5. Nat \subseteq Q
  <2>. HIDE DEF Q
  <2>. QED BY <1>3, <1>4, Counting
<1>6. (\E h : Selects(h, k[N], P(N))) /\ HoldsOn(k[N], P(N))
  <2>. HIDE DEF P
  <2>. QED BY <1>2, <1>5
<1>7. P(N) = b
  OBVIOUS
<1>8. k[N] \in Seq(E)
  BY <1>1, <1>2
<1>. QED BY <1>1, <1>6, <1>7, <1>8

-----------------------------------------------------------------------------
(* What all minibatches hold of a node, and the ledger of visits in flight.*)

Visiting == Kinds \ {"collision"}
HeldBy(B, y, K) == SumFunction([v \in Workers |-> HeldAt(B[v], y, K)])
HeldOf(B, S, G) == [y \in G |-> HeldBy(B, y, Kinds) + S[y]]
LedgerIn(t, h, B, S) ==
  \A x \in Subtree[h] :
    t[x].flight = HeldBy(B, x, Visiting) + SumFunctionOnSet(HeldOf(B, S, DOMAIN t), Below(x))

\* InFlightLedger, of the state's tree, root, minibatches and shared collisions.
LEMMA LedgerIs == InFlightLedger <=> LedgerIn(tree, head, batch, shared_collisions)
BY Zenon DEF InFlightLedger, LedgerIn, InBatches, Held, HeldBy, HeldOf, Below, Game, Visiting

\* What all minibatches hold of a node is a sum over the workers.
LEMMA HeldByIs ==
  ASSUME NEW E, \A e \in E : e.multivisit \in Nat, NEW B \in [Workers -> Seq(E)], NEW y, NEW K
  PROVE  /\ IsFiniteSet(Workers)
         /\ \A v \in Workers : [w \in Workers |-> HeldAt(B[w], y, K)][v] \in Nat
         /\ HeldBy(B, y, K) = SumFunctionOnSet([v \in Workers |-> HeldAt(B[v], y, K)], Workers)
         /\ HeldBy(B, y, K) \in Nat
<1>. DEFINE f == [v \in Workers |-> HeldAt(B[v], y, K)]
<1>1. IsFiniteSet(Workers)
  BY TreeAssumption
<1>2. \A v \in Workers : f[v] \in Nat
  BY HeldIs
<1>3. HeldBy(B, y, K) = SumFunctionOnSet(f, Workers)
  BY DEF HeldBy, SumFunction
<1>4. SumFunctionOnSet(f, Workers) \in Nat
  <2>. HIDE DEF f
  <2>. QED BY <1>1, <1>2, SumNat
<1>. QED BY <1>1, <1>2, <1>3, <1>4

\* One worker's minibatch replaced.
LEMMA HeldByChange ==
  ASSUME NEW E, \A e \in E : e.multivisit \in Nat, NEW B \in [Workers -> Seq(E)], NEW y, NEW K,
         NEW v \in Workers, NEW c \in Seq(E)
  PROVE  /\ HeldBy([B EXCEPT ![v] = c], y, K) = HeldBy(B, y, K) + (HeldAt(c, y, K) - HeldAt(B[v], y, K))
         /\ HeldAt(c, y, K) \in Nat /\ HeldAt(B[v], y, K) \in Nat /\ HeldBy(B, y, K) \in Nat
<1>. DEFINE D == [B EXCEPT ![v] = c]
            f == [w \in Workers |-> HeldAt(B[w], y, K)]
            g == [w \in Workers |-> HeldAt(D[w], y, K)]
<1>1. D \in [Workers -> Seq(E)] /\ D[v] = c /\ \A w \in Workers \ {v} : D[w] = B[w]
  OBVIOUS
<1>. HIDE DEF D
<1>2. /\ IsFiniteSet(Workers) /\ \A w \in Workers : f[w] \in Nat /\ g[w] \in Nat
      /\ HeldBy(B, y, K) = SumFunctionOnSet(f, Workers)
      /\ HeldBy(D, y, K) = SumFunctionOnSet(g, Workers)
      /\ HeldBy(B, y, K) \in Nat
  <2>1. /\ IsFiniteSet(Workers) /\ \A w \in Workers : f[w] \in Nat
        /\ HeldBy(B, y, K) = SumFunctionOnSet(f, Workers)
        /\ HeldBy(B, y, K) \in Nat
    BY HeldByIs
  <2>2. /\ \A w \in Workers : g[w] \in Nat
        /\ HeldBy(D, y, K) = SumFunctionOnSet(g, Workers)
    <3>1. ASSUME NEW X \in [Workers -> Seq(E)]
          PROVE  /\ \A w \in Workers : [u \in Workers |-> HeldAt(X[u], y, K)][w] \in Nat
                 /\ HeldBy(X, y, K) = SumFunctionOnSet([u \in Workers |-> HeldAt(X[u], y, K)], Workers)
      BY HeldByIs
    <3>. QED BY <1>1, <3>1
  <2>. QED BY <2>1, <2>2
<1>3. /\ \A w \in Workers \ {v} : g[w] = f[w]
      /\ g[v] = HeldAt(c, y, K) /\ f[v] = HeldAt(B[v], y, K)
  BY <1>1
<1>4. SumFunctionOnSet(g, Workers) = SumFunctionOnSet(f, Workers) + (g[v] - f[v])
  <2>. HIDE DEF f, g
  <2>1. \A w \in Workers : f[w] \in Int /\ g[w] \in Int
    BY <1>2
  <2>. QED BY <1>2, <1>3, <2>1, SumChange, ZenonT(30)
<1>5. HeldAt(c, y, K) \in Nat /\ HeldAt(B[v], y, K) \in Nat
  BY HeldIs
<1>. HIDE DEF f, g
<1>. QED BY <1>2, <1>3, <1>4, <1>5 DEF D

\* Empty minibatches hold nothing.
LEMMA HeldByNone ==
  ASSUME NEW B, \A v \in Workers : B[v] = <<>>, NEW y, NEW K
  PROVE  HeldBy(B, y, K) = 0
<1>. DEFINE f == [v \in Workers |-> HeldAt(B[v], y, K)]
<1>1. \A v \in Workers : f[v] = 0
  BY HeldNone
<1>2. HeldBy(B, y, K) = SumFunctionOnSet(f, Workers)
  BY DEF HeldBy, SumFunction
<1>. HIDE DEF f
<1>. QED BY <1>1, <1>2, TreeAssumption, SumZero

\* An entry of some worker's holds the node.
LEMMA HeldBySome ==
  ASSUME NEW E, \A e \in E : e.multivisit \in Nat, NEW B \in [Workers -> Seq(E)], NEW K,
         NEW v \in Workers, NEW i \in DOMAIN B[v], B[v][i].kind \in K, NEW y, y = B[v][i].node
  PROVE  B[v][i].multivisit <= HeldBy(B, y, K)
<1>. DEFINE f == [w \in Workers |-> HeldAt(B[w], y, K)]
<1>1. /\ IsFiniteSet(Workers) /\ \A w \in Workers : f[w] \in Nat
      /\ HeldBy(B, y, K) = SumFunctionOnSet(f, Workers) /\ HeldBy(B, y, K) \in Nat
  BY HeldByIs
<1>2. f[v] = HeldAt(B[v], y, K)
  OBVIOUS
<1>3. f[v] \in Nat /\ f[v] <= SumFunctionOnSet(f, Workers)
  <2>. HIDE DEF f
  <2>. QED BY <1>1, SumTerm
<1>4. Mult(B[v][i], y, K) = B[v][i].multivisit
  BY DEF Mult
<1>5. Mult(B[v][i], y, K) \in Nat /\ Mult(B[v][i], y, K) <= HeldAt(B[v], y, K)
  <2>. DEFINE b == B[v]
  <2>1. b \in Seq(E) /\ i \in DOMAIN b
    OBVIOUS
  <2>. HIDE DEF b
  <2>2. Mult(b[i], y, K) \in Nat /\ Mult(b[i], y, K) <= HeldAt(b, y, K)
    BY <2>1, HeldSome
  <2>. QED BY <2>2 DEF b
<1>6. HeldAt(B[v], y, K) \in Nat
  BY <1>2, <1>3
<1>. HIDE DEF f
<1>. QED BY <1>1, <1>2, <1>3, <1>4, <1>5, <1>6

\* What is held of a node is a natural number.
LEMMA HeldOfType ==
  ASSUME NEW E, \A e \in E : e.multivisit \in Nat, NEW B \in [Workers -> Seq(E)],
         NEW G, NEW S \in [G -> Nat]
  PROVE  \A y \in G : HeldOf(B, S, G)[y] \in Nat
<1>1. \A y \in G : HeldBy(B, y, Kinds) \in Nat
  BY HeldByIs
<1>. QED BY <1>1 DEF HeldOf

\* What minibatches hold of one node changes, of visits by a and in all by k.
\* What the minibatches hold of x changes by a and k, and the flights with it.
Accounts(t, u, h, B, D, S, R, x, a, k) ==
  \A y \in Subtree[h] :
    /\ HeldBy(D, y, Visiting) = HeldBy(B, y, Visiting) + IF y = x THEN a ELSE 0
    /\ HeldBy(D, y, Kinds) + R[y] = HeldBy(B, y, Kinds) + S[y] + IF y = x THEN k ELSE 0
    /\ u[y].flight = t[y].flight + (IF y = x THEN a ELSE 0)
                       + (IF y \in AboveTo(h, x) THEN k ELSE 0)

\* The ledger stays balanced when flights change by what is held.
LEMMA LedgerMove ==
  ASSUME NEW E, \A e \in E : e.multivisit \in Nat, NEW G, NEW h \in Nodes, Subtree[h] \subseteq G,
         NEW B \in [Workers -> Seq(E)], NEW D \in [Workers -> Seq(E)],
         NEW S \in [G -> Nat], NEW R \in [G -> Nat],
         NEW t, NEW u, DOMAIN t = G, DOMAIN u = G,
         NEW x \in Subtree[h], NEW a \in Int, NEW k \in Int, LedgerIn(t, h, B, S),
         Accounts(t, u, h, B, D, S, R, x, a, k)
  PROVE  LedgerIn(u, h, D, R)
<1>. DEFINE f == HeldOf(B, S, G)
            g == HeldOf(D, R, G)
<1>0. \A y \in Subtree[h] :
        /\ HeldBy(D, y, Visiting) = HeldBy(B, y, Visiting) + IF y = x THEN a ELSE 0
        /\ HeldBy(D, y, Kinds) + R[y] = HeldBy(B, y, Kinds) + S[y] + IF y = x THEN k ELSE 0
        /\ u[y].flight = t[y].flight + (IF y = x THEN a ELSE 0)
                           + (IF y \in AboveTo(h, x) THEN k ELSE 0)
  BY DEF Accounts
<1>1. \A y \in G : f[y] \in Int /\ g[y] \in Int
  <2>1. \A y \in G : f[y] \in Nat /\ g[y] \in Nat
    BY HeldOfType
  <2>. HIDE DEF f, g
  <2>. QED BY <2>1
<1>2. \A y \in Subtree[h] : g[y] = f[y] + IF y = x THEN k ELSE 0
  BY <1>0 DEF HeldOf
<1>3. ASSUME NEW z \in Subtree[h]
      PROVE  u[z].flight = HeldBy(D, z, Visiting) + SumFunctionOnSet(g, Below(z))
  <2>. DEFINE Z == Below(z)
  <2>0. z \in Nodes /\ Subtree[z] \subseteq Subtree[h] /\ IsFiniteSet(Subtree[z])
    BY InSubtree, SubtreeTransitive
  <2>1. Z \subseteq Subtree[h] /\ IsFiniteSet(Z) /\ Z \subseteq G
    BY <2>0, FS_Subset DEF Below
  <2>2. z \in AboveTo(h, x) <=> x \in Z
    BY PathIs
  <2>3. t[z].flight = HeldBy(B, z, Visiting) + SumFunctionOnSet(f, Z)
    BY DEF LedgerIn
  <2>. HIDE DEF f, g, Z
  <2>4. \A y \in Z : f[y] \in Int /\ g[y] \in Int
    BY <1>1, <2>1
  <2>5. SumFunctionOnSet(f, Z) \in Int /\ SumFunctionOnSet(g, Z) \in Int
    BY <2>1, <2>4, SumTypeInt
  <2>6. SumFunctionOnSet(g, Z) = SumFunctionOnSet(f, Z) + IF x \in Z THEN k ELSE 0
    <3>1. \A y \in Z \ {x} : g[y] = f[y]
      BY <1>1, <1>2, <2>1
    <3>2. x \in Z => g[x] - f[x] = k
      BY <1>1, <1>2, <2>1
    <3>3. /\ x \in Z => SumFunctionOnSet(g, Z) = SumFunctionOnSet(f, Z) + (g[x] - f[x])
          /\ x \notin Z => SumFunctionOnSet(g, Z) = SumFunctionOnSet(f, Z)
      BY <2>1, <2>4, <3>1, SumChange
    <3>. QED BY <2>5, <3>2, <3>3
  <2>7. HeldBy(B, z, Visiting) \in Int
    <3>1. HeldBy(B, z, Visiting) \in Nat
      BY HeldByIs
    <3>. QED BY <3>1
  <2>8. /\ HeldBy(D, z, Visiting) = HeldBy(B, z, Visiting) + IF z = x THEN a ELSE 0
        /\ u[z].flight = t[z].flight + (IF z = x THEN a ELSE 0) + (IF x \in Z THEN k ELSE 0)
    BY <1>0, <2>2
  <2>9. u[z].flight = HeldBy(D, z, Visiting) + SumFunctionOnSet(g, Z)
    <3>. DEFINE aa == IF z = x THEN a ELSE 0
                kk == IF x \in Z THEN k ELSE 0
    <3>1. aa \in Int /\ kk \in Int
      OBVIOUS
    <3>2. /\ HeldBy(D, z, Visiting) = HeldBy(B, z, Visiting) + aa
          /\ u[z].flight = t[z].flight + aa + kk
          /\ SumFunctionOnSet(g, Z) = SumFunctionOnSet(f, Z) + kk
      BY <2>6, <2>8
    <3>. HIDE DEF aa, kk
    <3>. QED BY ONLY <2>3, <2>5, <2>7, <3>1, <3>2
  <2>. QED BY <2>9 DEF Z
<1>. QED BY <1>3 DEF LedgerIn

-----------------------------------------------------------------------------
(* What holds of a tree t that is searched from h.                         *)

Node == [n : Nat, flight : Int, w : Int, term : {"no", "end", "twofold"},
         lo : -1 .. 1, up : -1 .. 1, solid : BOOLEAN, own : -1 .. 1]
IsTree(t, h) == t \in [DOMAIN t -> Node] /\ Subtree[h] \subseteq DOMAIN t

Expanded(t, h, x) ==
  /\ t[x].n > 0 /\ t[x].term # "twofold" /\ x \notin DOMAIN GameEnd
  /\ x \in RuleDraws => x = h
Reached(t, h, x) == x \in Subtree[h] /\ \A y \in AboveTo(h, x) : Expanded(t, h, y)
PliesTo(h, x) == Len(PathTo(h)[x]) - 1
StaleAt(t, h, x) == t[x].term = "twofold" /\ PliesTo(h, x) < Cycle[x]
VisitsIn(t) == [y \in DOMAIN t |-> t[y].n]
ValuesIn(t) == [y \in DOMAIN t |-> t[y].w]

NodeHolds(t, h, x) ==
  /\ t[x].n = 0 => t[x].w = 0
  /\ t[x].term = "twofold" => t[x].w = 0
  /\ \A y \in Children(x) : t[y].n > 0 => Expanded(t, h, x)
  /\ CanDescend(t[x]) => Expanded(t, h, x)
  /\ Expanded(t, h, x) => t[x].n >= 1 + SumFunctionOnSet(VisitsIn(t), Children(x))
Counts(t, x) ==
  CanDescend(t[x]) =>
    /\ t[x].n = 1 + SumFunctionOnSet(VisitsIn(t), Children(x))
    /\ t[x].w = t[x].own - SumFunctionOnSet(ValuesIn(t), Children(x))
Sound(t, x) == t[x].lo <= Known[x].lo /\ Known[x].up <= t[x].up
TreeHolds(t, h) ==
  /\ \A x \in Subtree[h] : NodeHolds(t, h, x) /\ Counts(t, x)
  /\ \A x \in Subtree[h] \ {h} : Sound(t, x)

Ends(t, x) == t[x].n = 0 \/ IsTerminal(t[x])
Extended(t, h, x) == IsTerminal(t[x]) \/ (x \notin DOMAIN GameEnd /\ x \notin RuleDraws \ {h})
EntryHolds(t, h, e) ==
  /\ Reached(t, h, e.node)
  /\ ~IsCollision(e) =>
       /\ e.multivisit = 1 /\ Ends(t, e.node) /\ ~StaleAt(t, h, e.node)
       /\ e.kind # "picked" => Extended(t, h, e.node)

Stale(t, h) == {x \in Subtree[h] : StaleAt(t, h, x)}
Found(t, h) == SumFunctionOnSet(VisitsIn(t), Stale(t, h))

\* The fields of a node.
LEMMA NodeType ==
  ASSUME NEW nd \in Node
  PROVE  /\ nd.n \in Nat /\ nd.flight \in Int /\ nd.w \in Int
         /\ nd.term \in {"no", "end", "twofold"}
         /\ nd.lo \in -1 .. 1 /\ nd.up \in -1 .. 1 /\ nd.solid \in BOOLEAN /\ nd.own \in -1 .. 1
BY DEF Node

\* The sums over the nodes that follow one.
LEMMA SumsType ==
  ASSUME NEW h \in Nodes, NEW t, IsTree(t, h), NEW x \in Subtree[h]
  PROVE  /\ x \in Nodes /\ x \in DOMAIN t /\ t[x] \in Node /\ Children(x) \subseteq Subtree[h]
         /\ IsFiniteSet(Children(x))
         /\ \A y \in Subtree[h] : /\ VisitsIn(t)[y] = t[y].n /\ ValuesIn(t)[y] = t[y].w
                                  /\ VisitsIn(t)[y] \in Nat /\ ValuesIn(t)[y] \in Int
         /\ SumFunctionOnSet(VisitsIn(t), Children(x)) \in Nat
         /\ SumFunctionOnSet(ValuesIn(t), Children(x)) \in Int
<1>1. /\ x \in Nodes /\ x \in DOMAIN t /\ t[x] \in Node /\ Children(x) \subseteq Subtree[h]
      /\ IsFiniteSet(Children(x))
  <2>1. x \in Nodes
    BY InSubtree
  <2>2. Children(x) \subseteq Subtree[x] /\ IsFiniteSet(Children(x))
    BY <2>1, ChildrenIn
  <2>. QED BY <2>1, <2>2, SubtreeTransitive DEF IsTree
<1>2. \A y \in Subtree[h] : /\ VisitsIn(t)[y] = t[y].n /\ ValuesIn(t)[y] = t[y].w
                            /\ VisitsIn(t)[y] \in Nat /\ ValuesIn(t)[y] \in Int
  BY NodeType DEF VisitsIn, ValuesIn, IsTree
<1>3. \A y \in Children(x) : VisitsIn(t)[y] \in Nat /\ ValuesIn(t)[y] \in Int
  BY <1>1, <1>2
<1>4. /\ SumFunctionOnSet(VisitsIn(t), Children(x)) \in Nat
      /\ SumFunctionOnSet(ValuesIn(t), Children(x)) \in Int
  BY <1>1, <1>3, SumNat, SumTypeInt
<1>. QED BY <1>1, <1>2, <1>4

\* A node above another of the same search has more visits.
LEMMA MoreAbove ==
  ASSUME NEW h \in Nodes, NEW t, IsTree(t, h),
         \A y \in Subtree[h] : NodeHolds(t, h, y), NEW x \in Subtree[h],
         \A z \in Subtree[h] : x \in Below(z) => Expanded(t, h, z)
  PROVE  \A z \in Subtree[h] : x \in Below(z) => t[z].n >= t[x].n + 1
<1>. DEFINE S == {z \in Nodes : z \in Subtree[h] /\ x \in Below(z) => t[z].n >= t[x].n + 1}
<1>0. /\ Subtree[h] \subseteq Nodes
      /\ \A y \in Subtree[h] : t[y].n \in Nat
  BY InSubtree, NodeType DEF IsTree
<1>1. ASSUME NEW z \in Nodes, Children(z) \subseteq S, z \in Subtree[h], x \in Below(z)
      PROVE  t[z].n >= t[x].n + 1
  <2>1. Below(z) = UNION {Subtree[c] : c \in Children(z)}
    BY BelowIs
  <2>2. PICK c \in Children(z) : x \in Subtree[c]
    BY <1>1, <2>1
  <2>3. c \in Subtree[h] /\ c \in Nodes /\ t[c].n \in Nat /\ t[x].n \in Nat /\ t[z].n \in Nat
    BY <1>0, <1>1, <2>2, SumsType
  <2>4. t[c].n >= t[x].n
    <3>1. CASE c = x
      BY <2>3, <3>1
    <3>2. CASE c # x
      <4>1. x \in Below(c)
        BY <2>2, <3>2 DEF Below
      <4>2. t[c].n >= t[x].n + 1
        BY <1>1, <2>2, <2>3, <4>1
      <4>. QED BY <2>3, <4>2
    <3>. QED BY <3>1, <3>2
  <2>5. t[z].n >= 1 + SumFunctionOnSet(VisitsIn(t), Children(z))
    BY <1>1 DEF NodeHolds
  <2>6. /\ t[c].n <= SumFunctionOnSet(VisitsIn(t), Children(z))
        /\ SumFunctionOnSet(VisitsIn(t), Children(z)) \in Nat
    <3>1. /\ IsFiniteSet(Children(z)) /\ SumFunctionOnSet(VisitsIn(t), Children(z)) \in Nat
          /\ VisitsIn(t)[c] = t[c].n /\ \A y \in Children(z) : VisitsIn(t)[y] \in Nat
      BY <1>1, <2>3, SumsType
    <3>2. VisitsIn(t)[c] <= SumFunctionOnSet(VisitsIn(t), Children(z))
      BY <2>2, <3>1, SumTerm
    <3>. QED BY <3>1, <3>2
  <2>. HIDE DEF S
  <2>. QED BY <2>3, <2>4, <2>5, <2>6
<1>2. ASSUME NEW z \in Nodes, Children(z) \subseteq S PROVE z \in S
  BY <1>1, <1>2
<1>. HIDE DEF S
<1>3. Nodes \subseteq S
  BY <1>2, FromLeaves
<1>. QED BY <1>0, <1>3 DEF S

\* No repetition is above another: what they have of visits, a node has.
LEMMA TwoFoldsFound ==
  ASSUME NEW h \in Nodes, NEW t, IsTree(t, h),
         \A y \in Subtree[h] : NodeHolds(t, h, y)
  PROVE  Found(t, h) <= t[h].n
<1>. DEFINE f == [y \in Nodes |-> IF y \in Subtree[h] /\ t[y].term = "twofold" THEN t[y].n ELSE 0]
            S == {z \in Nodes : z \in Subtree[h] => SumFunctionOnSet(f, Subtree[z]) <= t[z].n}
<1>0. /\ Subtree[h] \subseteq Nodes /\ h \in Subtree[h] /\ IsFiniteSet(Subtree[h])
      /\ \A y \in Subtree[h] : t[y].n \in Nat
  BY InSubtree, NodeType DEF IsTree
<1>1. \A y \in Nodes : f[y] \in Nat
  BY <1>0
<1>2. ASSUME NEW z \in Nodes, Children(z) \subseteq S, z \in Subtree[h]
      PROVE  SumFunctionOnSet(f, Subtree[z]) <= t[z].n
  <2>. DEFINE C == Children(z)
              g == [c \in C |-> SumFunctionOnSet(f, Subtree[c])]
  <2>1. /\ IsFiniteSet(C) /\ C \subseteq Subtree[h] /\ t[z].n \in Nat
        /\ SumFunctionOnSet(VisitsIn(t), C) \in Nat
        /\ \A c \in C : VisitsIn(t)[c] = t[c].n /\ VisitsIn(t)[c] \in Nat
    BY <1>0, <1>2, SumsType
  <2>2. z \in Subtree[z] /\ IsFiniteSet(Subtree[z]) /\ Subtree[z] \subseteq Nodes
    BY InSubtree
  <2>3. SumFunctionOnSet(f, Subtree[z]) = f[z] + SumFunctionOnSet(f, Below(z))
    <3>1. \A y \in Subtree[z] : f[y] \in Int
      BY <1>1, <2>2
    <3>. HIDE DEF f
    <3>. QED BY <2>2, <3>1, SumRemoveInt DEF Below
  <2>4. SumFunctionOnSet(f, Below(z)) = SumFunctionOnSet(g, C)
    <3>1. \A y \in Subtree[z] : f[y] \in Int
      BY <1>1, <2>2
    <3>. HIDE DEF f
    <3>. QED BY <3>1, SumBelow
  <2>5. \A c \in C : g[c] \in Nat
    <3>. SUFFICES ASSUME NEW c \in C PROVE SumFunctionOnSet(f, Subtree[c]) \in Nat
      OBVIOUS
    <3>1. Subtree[c] \subseteq Nodes /\ IsFiniteSet(Subtree[c])
      BY <1>0, <2>1, InSubtree
    <3>2. \A y \in Subtree[c] : f[y] \in Nat
      BY <1>1, <3>1
    <3>. HIDE DEF f
    <3>. QED BY <3>1, <3>2, SumNat
  <2>6. \A c \in C : g[c] <= VisitsIn(t)[c]
    BY <1>0, <1>2, <2>1
  <2>7. SumFunctionOnSet(g, C) <= SumFunctionOnSet(VisitsIn(t), C) /\ SumFunctionOnSet(g, C) \in Int
    <3>. HIDE DEF g, C
    <3>1. \A c \in C : g[c] \in Int /\ VisitsIn(t)[c] \in Int /\ g[c] <= VisitsIn(t)[c]
      BY <2>1, <2>5, <2>6
    <3>. QED BY <2>1, <3>1, SumAtMost, SumTypeInt
  <2>8. f[z] \in Nat /\ f[z] <= t[z].n /\ (t[z].term # "twofold" => f[z] = 0)
    BY <1>0, <1>2
  <2>9. CASE Expanded(t, h, z)
    <3>1. t[z].n >= 1 + SumFunctionOnSet(VisitsIn(t), C)
      BY <1>2, <2>9 DEF NodeHolds
    <3>2. f[z] = 0
      BY <2>8, <2>9 DEF Expanded
    <3>. HIDE DEF f, g, C
    <3>. QED BY <2>1, <2>3, <2>4, <2>7, <3>1, <3>2
  <2>10. CASE ~Expanded(t, h, z)
    <3>1. \A c \in C : VisitsIn(t)[c] = 0
      BY <1>2, <2>1, <2>10 DEF NodeHolds
    <3>2. SumFunctionOnSet(VisitsIn(t), C) = 0
      <4>. HIDE DEF C
      <4>. QED BY <2>1, <3>1, SumZero
    <3>. HIDE DEF f, g, C
    <3>. QED BY <2>1, <2>3, <2>4, <2>7, <2>8, <3>2
  <2>. QED BY <2>9, <2>10
<1>3. ASSUME NEW z \in Nodes, Children(z) \subseteq S PROVE z \in S
  BY <1>2, <1>3
<1>4. SumFunctionOnSet(f, Subtree[h]) <= t[h].n
  <2>. HIDE DEF S
  <2>1. Nodes \subseteq S
    BY <1>3, FromLeaves
  <2>. QED BY <1>0, <2>1 DEF S
<1>5. Found(t, h) <= SumFunctionOnSet(f, Subtree[h])
  <2>. DEFINE A == Stale(t, h)
              R == Subtree[h] \ A
  <2>1. A \subseteq Subtree[h] /\ IsFiniteSet(A) /\ R \subseteq Subtree[h] /\ IsFiniteSet(R)
        /\ A \cap R = {} /\ A \cup R = Subtree[h]
    BY <1>0, FS_Subset DEF Stale
  <2>2. \A y \in A : VisitsIn(t)[y] = f[y]
    <3>1. \A y \in A : y \in Subtree[h] /\ t[y].term = "twofold" /\ y \in Nodes /\ y \in DOMAIN t
      BY <1>0 DEF Stale, StaleAt, IsTree
    <3>. QED BY <3>1 DEF VisitsIn
  <2>. HIDE DEF f, A, R
  <2>3. Found(t, h) = SumFunctionOnSet(f, A)
    BY <2>1, <2>2, SumEqual DEF Found, A
  <2>4. SumFunctionOnSet(f, A \cup R) = SumFunctionOnSet(f, A) + SumFunctionOnSet(f, R)
    <3>. DEFINE U == Subtree[h]
    <3>1. A \in SUBSET U /\ R \in SUBSET U /\ IsFiniteSet(U) /\ \A y \in U : f[y] \in Int
      BY <1>0, <1>1, <2>1
    <3>. HIDE DEF U
    <3>. QED BY <2>1, <3>1, SumUnion
  <2>5. SumFunctionOnSet(f, A) \in Nat /\ SumFunctionOnSet(f, R) \in Nat
    <3>1. (\A y \in A : f[y] \in Nat) /\ \A y \in R : f[y] \in Nat
      BY <1>0, <1>1, <2>1
    <3>. QED BY <2>1, <3>1, SumNat
  <2>6. SumFunctionOnSet(f, Subtree[h]) = SumFunctionOnSet(f, A) + SumFunctionOnSet(f, R)
    BY <2>1, <2>4
  <2>. QED BY <2>3, <2>5, <2>6
<1>6. SumFunctionOnSet(f, Subtree[h]) \in Int /\ Found(t, h) \in Int /\ t[h].n \in Int
  <2>1. IsFiniteSet(Stale(t, h)) /\ \A y \in Stale(t, h) : VisitsIn(t)[y] \in Int
    <3>1. Stale(t, h) \subseteq Subtree[h]
      BY DEF Stale
    <3>2. \A y \in Subtree[h] : VisitsIn(t)[y] \in Nat
      BY <1>0, SumsType
    <3>. QED BY <1>0, <3>1, <3>2, FS_Subset
  <2>2. Found(t, h) \in Int
    BY <2>1, SumTypeInt DEF Found
  <2>3. \A y \in Subtree[h] : f[y] \in Int
    BY <1>0, <1>1
  <2>4. SumFunctionOnSet(f, Subtree[h]) \in Int
    <3>. HIDE DEF f
    <3>. QED BY <1>0, <2>3, SumTypeInt
  <2>. QED BY <1>0, <2>2, <2>4
<1>. HIDE DEF f
<1>. QED BY <1>4, <1>5, <1>6

\* But for visits in flight and its children's place, the node is the same.
Alike(t, u, y) ==
  /\ u[y].n = t[y].n /\ u[y].w = t[y].w /\ u[y].term = t[y].term
  /\ u[y].lo = t[y].lo /\ u[y].up = t[y].up /\ u[y].own = t[y].own

\* What holds of a node is a matter of the node and those that follow it.
LEMMA SameSums ==
  ASSUME NEW h \in Nodes, NEW t, IsTree(t, h), NEW u, IsTree(u, h),
         NEW x \in Subtree[h], \A y \in Children(x) : u[y].n = t[y].n /\ u[y].w = t[y].w
  PROVE  /\ SumFunctionOnSet(VisitsIn(u), Children(x)) = SumFunctionOnSet(VisitsIn(t), Children(x))
         /\ SumFunctionOnSet(ValuesIn(u), Children(x)) = SumFunctionOnSet(ValuesIn(t), Children(x))
<1>1. /\ IsFiniteSet(Children(x)) /\ Children(x) \subseteq Subtree[h]
      /\ \A y \in Subtree[h] : VisitsIn(t)[y] = t[y].n /\ ValuesIn(t)[y] = t[y].w
  BY SumsType
<1>2. \A y \in Subtree[h] : VisitsIn(u)[y] = u[y].n /\ ValuesIn(u)[y] = u[y].w
  BY SumsType
<1>3. \A y \in Children(x) : VisitsIn(u)[y] = VisitsIn(t)[y] /\ ValuesIn(u)[y] = ValuesIn(t)[y]
  BY <1>1, <1>2
<1>. QED BY <1>1, <1>3, SumEqual

\* What is above a node is in the search, and is not the node.
LEMMA AboveIn ==
  ASSUME NEW h \in Nodes, NEW x \in Subtree[h]
  PROVE  AboveTo(h, x) \subseteq Subtree[h] /\ x \notin AboveTo(h, x)
BY PathIs DEF Below

\* What holds of a node holds of one that is alike.
LEMMA AlikeNode ==
  ASSUME NEW t, NEW u, NEW y, Alike(t, u, y), NEW h
  PROVE  /\ Expanded(u, h, y) <=> Expanded(t, h, y)
         /\ StaleAt(u, h, y) <=> StaleAt(t, h, y)
         /\ Ends(u, y) <=> Ends(t, y)
         /\ Extended(u, h, y) <=> Extended(t, h, y)
         /\ CanDescend(u[y]) <=> CanDescend(t[y])
         /\ Sound(u, y) <=> Sound(t, y)
         /\ IsTerminal(u[y]) <=> IsTerminal(t[y])
BY DEF Alike, Expanded, StaleAt, Ends, Extended, CanDescend, Sound, IsTerminal

\* What holds of a tree holds of one whose nodes are alike.
LEMMA AlikeTree ==
  ASSUME NEW h \in Nodes, NEW t, IsTree(t, h), NEW u, IsTree(u, h),
         \A y \in Subtree[h] : Alike(t, u, y)
  PROVE  /\ TreeHolds(t, h) => TreeHolds(u, h)
         /\ Found(u, h) = Found(t, h)
         /\ \A x \in Subtree[h] : Reached(t, h, x) => Reached(u, h, x)
         /\ \A e : EntryHolds(t, h, e) => EntryHolds(u, h, e)
<1>1. \A y \in Subtree[h] : /\ Expanded(u, h, y) <=> Expanded(t, h, y)
                            /\ StaleAt(u, h, y) <=> StaleAt(t, h, y)
                            /\ Ends(u, y) <=> Ends(t, y)
                            /\ Extended(u, h, y) <=> Extended(t, h, y)
                            /\ CanDescend(u[y]) <=> CanDescend(t[y])
                            /\ Sound(u, y) <=> Sound(t, y)
  BY AlikeNode
<1>2. ASSUME NEW x \in Subtree[h], NodeHolds(t, h, x), Counts(t, x)
      PROVE  NodeHolds(u, h, x) /\ Counts(u, x)
  <2>1. Children(x) \subseteq Subtree[h]
    BY SumsType
  <2>2. Alike(t, u, x) /\ \A y \in Children(x) : Alike(t, u, y)
    BY <2>1
  <2>3. \A y \in Children(x) : u[y].n = t[y].n /\ u[y].w = t[y].w
    BY <2>2 DEF Alike
  <2>4. /\ SumFunctionOnSet(VisitsIn(u), Children(x)) = SumFunctionOnSet(VisitsIn(t), Children(x))
        /\ SumFunctionOnSet(ValuesIn(u), Children(x)) = SumFunctionOnSet(ValuesIn(t), Children(x))
    BY <2>3, SameSums
  <2>5. NodeHolds(u, h, x)
    BY <1>1, <1>2, <2>2, <2>3, <2>4 DEF NodeHolds, Alike
  <2>6. Counts(u, x)
    BY <1>1, <1>2, <2>2, <2>4 DEF Counts, Alike
  <2>. QED BY <2>5, <2>6
<1>3. TreeHolds(t, h) => TreeHolds(u, h)
  BY <1>1, <1>2 DEF TreeHolds
<1>4. Found(u, h) = Found(t, h)
  <2>1. Stale(u, h) = Stale(t, h)
    BY <1>1 DEF Stale
  <2>2. IsFiniteSet(Stale(t, h)) /\ Stale(t, h) \subseteq Subtree[h]
    BY InSubtree, FS_Subset DEF Stale
  <2>3. \A y \in Stale(t, h) : VisitsIn(u)[y] = VisitsIn(t)[y]
    BY <2>2 DEF VisitsIn, Alike, IsTree
  <2>. QED BY <2>1, <2>2, <2>3, SumEqual DEF Found
<1>5. \A x \in Subtree[h] : Reached(t, h, x) => Reached(u, h, x)
  BY <1>1, AboveIn DEF Reached
<1>6. \A e : EntryHolds(t, h, e) => EntryHolds(u, h, e)
  <2>. SUFFICES ASSUME NEW e, EntryHolds(t, h, e) PROVE EntryHolds(u, h, e)
    OBVIOUS
  <2>1. e.node \in Subtree[h]
    BY DEF EntryHolds, Reached
  <2>. QED BY <1>1, <1>5, <2>1 DEF EntryHolds
<1>. QED BY <1>3, <1>4, <1>5, <1>6

\* A tree of new nodes.
LEMMA NewTree ==
  ASSUME NEW h \in Nodes, NEW G, Subtree[h] \subseteq G, NEW u, u = [y \in G |-> NewNode]
  PROVE  u \in [G -> Node] /\ IsTree(u, h) /\ TreeHolds(u, h) /\ Found(u, h) = 0
<1>0. NewNode \in Node
  BY DEF Node, NewNode
<1>1. u \in [G -> Node] /\ \A y \in Subtree[h] : u[y] = NewNode
  BY <1>0
<1>1a. IsTree(u, h)
  BY <1>1 DEF IsTree
<1>2. \A y \in Subtree[h] : u[y].n = 0 /\ u[y].w = 0 /\ u[y].term = "no" /\ u[y].lo = -1 /\ u[y].up = 1
  BY <1>1 DEF NewNode
<1>3. ASSUME NEW x \in Subtree[h] PROVE NodeHolds(u, h, x) /\ Counts(u, x) /\ Sound(u, x)
  <2>1. x \in Nodes /\ Children(x) \subseteq Subtree[h]
    BY <1>1a, SumsType
  <2>2. Known[x].lo \in -1 .. 1 /\ Known[x].up \in -1 .. 1
    BY <2>1, KnownType
  <2>. QED BY <1>2, <2>1, <2>2 DEF NodeHolds, Counts, Sound, Expanded, CanDescend
<1>4. Found(u, h) = 0
  <2>1. Stale(u, h) = {}
    BY <1>2 DEF Stale, StaleAt
  <2>. QED BY <2>1, SumEmpty DEF Found
<1>. QED BY <1>1, <1>1a, <1>3, <1>4 DEF TreeHolds

\* A node without visits becomes terminal.
LEMMA ExtendedTree ==
  ASSUME NEW h \in Nodes, NEW t, IsTree(t, h), NEW x \in Subtree[h],
         NEW nd \in Node, nd.n = 0, nd.w = 0, nd.term # "no",
         nd.term = "twofold" => ~(PliesTo(h, x) < Cycle[x]),
         x # h => nd.lo <= Known[x].lo /\ Known[x].up <= nd.up,
         t[x].n = 0, t[x].w = 0, ~IsTerminal(t[x]), TreeHolds(t, h),
         NEW u, IsTree(u, h), u[x] = nd, \A y \in Subtree[h] \ {x} : u[y] = t[y]
  PROVE  /\ TreeHolds(u, h) /\ Found(u, h) = Found(t, h)
         /\ \A e : EntryHolds(t, h, e) => EntryHolds(u, h, e)
         /\ IsTerminal(u[x]) /\ ~StaleAt(u, h, x)
<1>1. u[x] = nd /\ \A y \in Subtree[h] \ {x} : u[y] = t[y]
  OBVIOUS
<1>2. \A y \in Subtree[h] : /\ u[y].n = t[y].n /\ u[y].w = t[y].w
                            /\ Expanded(u, h, y) <=> Expanded(t, h, y)
                            /\ StaleAt(u, h, y) <=> StaleAt(t, h, y)
                            /\ CanDescend(u[y]) <=> CanDescend(t[y])
                            /\ Ends(t, y) => Ends(u, y)
                            /\ Extended(t, h, y) => Extended(u, h, y)
                            /\ y # h /\ Sound(t, y) => Sound(u, y)
  <2>1. ASSUME NEW y \in Subtree[h] \ {x}
        PROVE  Alike(t, u, y)
    BY <1>1 DEF Alike
  <2>2. ASSUME NEW y \in Subtree[h], y = x
        PROVE  /\ u[y].n = t[y].n /\ u[y].w = t[y].w
               /\ Expanded(u, h, y) <=> Expanded(t, h, y)
               /\ StaleAt(u, h, y) <=> StaleAt(t, h, y)
               /\ CanDescend(u[y]) <=> CanDescend(t[y])
               /\ Ends(t, y) => Ends(u, y)
               /\ Extended(t, h, y) => Extended(u, h, y)
               /\ y # h /\ Sound(t, y) => Sound(u, y)
    BY <1>1, <2>2 DEF Expanded, StaleAt, CanDescend, Ends, Extended, Sound, IsTerminal
  <2>3. ASSUME NEW y \in Subtree[h], y # x
        PROVE  /\ u[y].n = t[y].n /\ u[y].w = t[y].w
               /\ Expanded(u, h, y) <=> Expanded(t, h, y)
               /\ StaleAt(u, h, y) <=> StaleAt(t, h, y)
               /\ CanDescend(u[y]) <=> CanDescend(t[y])
               /\ Ends(t, y) => Ends(u, y)
               /\ Extended(t, h, y) => Extended(u, h, y)
               /\ y # h /\ Sound(t, y) => Sound(u, y)
    <3>1. Alike(t, u, y)
      BY <2>1, <2>3
    <3>. QED BY <3>1, AlikeNode DEF Alike
  <2>. QED BY <2>2, <2>3
<1>3. ASSUME NEW y \in Subtree[h] PROVE NodeHolds(u, h, y) /\ Counts(u, y)
  <2>1. Children(y) \subseteq Subtree[h]
    BY SumsType
  <2>3. \A z \in Children(y) : u[z].n = t[z].n /\ u[z].w = t[z].w
    BY <1>2, <2>1
  <2>4. /\ SumFunctionOnSet(VisitsIn(u), Children(y)) = SumFunctionOnSet(VisitsIn(t), Children(y))
        /\ SumFunctionOnSet(ValuesIn(u), Children(y)) = SumFunctionOnSet(ValuesIn(t), Children(y))
    BY <2>3, SameSums
  <2>5. NodeHolds(t, h, y) /\ Counts(t, y)
    BY DEF TreeHolds
  <2>6. CASE y = x
    BY <1>1, <1>2, <2>3, <2>5, <2>6 DEF NodeHolds, Counts, Expanded, CanDescend
  <2>7. CASE y # x
    <3>1. u[y] = t[y]
      BY <1>1, <2>7
    <3>2. NodeHolds(u, h, y)
      BY <1>2, <2>3, <2>4, <2>5, <3>1 DEF NodeHolds
    <3>3. Counts(u, y)
      BY <1>2, <2>4, <2>5, <3>1 DEF Counts
    <3>. QED BY <3>2, <3>3
  <2>. QED BY <2>6, <2>7
<1>4. TreeHolds(u, h)
  BY <1>2, <1>3 DEF TreeHolds
<1>5. Found(u, h) = Found(t, h)
  <2>1. Stale(u, h) = Stale(t, h)
    BY <1>2 DEF Stale
  <2>2. IsFiniteSet(Stale(t, h)) /\ Stale(t, h) \subseteq Subtree[h]
    BY InSubtree, FS_Subset DEF Stale
  <2>3. \A y \in Stale(t, h) : VisitsIn(u)[y] = VisitsIn(t)[y]
    BY <1>2, <2>2 DEF VisitsIn, IsTree
  <2>. QED BY <2>1, <2>2, <2>3, SumEqual DEF Found
<1>6. \A e : EntryHolds(t, h, e) => EntryHolds(u, h, e)
  <2>. SUFFICES ASSUME NEW e, EntryHolds(t, h, e) PROVE EntryHolds(u, h, e)
    OBVIOUS
  <2>1. e.node \in Subtree[h]
    BY DEF EntryHolds, Reached
  <2>2. Reached(u, h, e.node)
    BY <1>2, AboveIn DEF EntryHolds, Reached
  <2>. QED BY <1>2, <2>1, <2>2 DEF EntryHolds
<1>7. IsTerminal(u[x]) /\ ~StaleAt(u, h, x)
  BY <1>1 DEF IsTerminal, StaleAt
<1>. QED BY <1>1, <1>4, <1>5, <1>6, <1>7

\* A repetition that is none any more.
LEMMA NodeReset ==
  ASSUME NEW nd \in Node, NEW md, md = [nd EXCEPT !.n = 0, !.w = 0, !.term = "no"]
  PROVE  /\ md \in Node /\ md.n = 0 /\ md.w = 0 /\ md.term = "no" /\ md.lo = nd.lo /\ md.up = nd.up
         /\ md.own = nd.own /\ md.flight = nd.flight
<1>1. /\ nd = [n |-> nd.n, flight |-> nd.flight, w |-> nd.w, term |-> nd.term, lo |-> nd.lo,
               up |-> nd.up, solid |-> nd.solid, own |-> nd.own]
      /\ 0 \in Nat /\ 0 \in Int /\ "no" \in {"no", "end", "twofold"}
  BY DEF Node
<1>2. md = [n |-> 0, flight |-> nd.flight, w |-> 0, term |-> "no", lo |-> nd.lo,
            up |-> nd.up, solid |-> nd.solid, own |-> nd.own]
  BY <1>1
<1>3. /\ md.n = 0 /\ md.w = 0 /\ md.term = "no" /\ md.lo = nd.lo /\ md.up = nd.up
      /\ md.own = nd.own /\ md.flight = nd.flight /\ md.solid = nd.solid
  BY <1>2
<1>4. md \in Node
  BY <1>1, <1>2, NodeType DEF Node
<1>. QED BY <1>3, <1>4

\* Visits to a node that the sum of another's children has or has not.
LEMMA OneParent ==
  ASSUME NEW h \in Nodes, NEW x \in Subtree[h], NEW y \in Subtree[h]
  PROVE  /\ x \in Children(y) => y \in AboveTo(h, x)
         /\ \A c \in Children(y) : c \in AboveTo(h, x) => y \in AboveTo(h, x)
         /\ y \in AboveTo(h, x) => \E c \in Children(y) :
              /\ c = x \/ c \in AboveTo(h, x)
              /\ \A d \in Children(y) \ {c} : d # x /\ d \notin AboveTo(h, x)
<1>0. /\ AboveTo(h, x) = {z \in Subtree[h] : x \in Below(z)}
      /\ x \in Nodes /\ y \in Nodes /\ Children(y) \subseteq Subtree[h]
  <2>1. x \in Nodes /\ y \in Nodes
    BY InSubtree
  <2>2. Children(y) \subseteq Subtree[y] /\ Subtree[y] \subseteq Subtree[h]
    BY <2>1, ChildrenIn, SubtreeTransitive
  <2>3. AboveTo(h, x) = {z \in Subtree[h] : x \in Below(z)}
    BY PathIs
  <2>. QED BY <2>1, <2>2, <2>3
<1>1. /\ \A c \in Children(y) : /\ Subtree[c] \subseteq Subtree[y] /\ y \notin Subtree[c] /\ c \in Nodes
                                /\ c \in Subtree[c]
      /\ \A c, d \in Children(y) : c # d => Subtree[c] \cap Subtree[d] = {}
      /\ Below(y) = UNION {Subtree[c] : c \in Children(y)}
  <2>1. /\ \A c \in Children(y) : Subtree[c] \subseteq Subtree[y] /\ y \notin Subtree[c] /\ c \in Nodes
        /\ \A c, d \in Children(y) : c # d => Subtree[c] \cap Subtree[d] = {}
    BY <1>0, ChildrenIn
  <2>2. Below(y) = UNION {Subtree[c] : c \in Children(y)}
    BY <1>0, BelowIs
  <2>3. \A c \in Children(y) : c \in Subtree[c]
    BY <2>1, InSubtree
  <2>. QED BY <2>1, <2>2, <2>3
<1>2. x \in Children(y) => y \in AboveTo(h, x)
  BY <1>0, <1>1
<1>3. ASSUME NEW c \in Children(y), c \in AboveTo(h, x) PROVE y \in AboveTo(h, x)
  <2>1. x \in Subtree[c]
    BY <1>0, <1>3 DEF Below
  <2>2. x \in Below(y)
    BY <1>1, <2>1
  <2>. QED BY <1>0, <2>2
<1>4. ASSUME y \in AboveTo(h, x)
      PROVE  \E c \in Children(y) :
              /\ c = x \/ c \in AboveTo(h, x)
              /\ \A d \in Children(y) \ {c} : d # x /\ d \notin AboveTo(h, x)
  <2>1. x \in Below(y)
    BY <1>0, <1>4
  <2>2. PICK c \in Children(y) : x \in Subtree[c]
    BY <1>1, <2>1
  <2>3. c = x \/ c \in AboveTo(h, x)
    BY <1>0, <2>2 DEF Below
  <2>4. ASSUME NEW d \in Children(y) \ {c} PROVE d # x /\ d \notin AboveTo(h, x)
    <3>1. x \notin Subtree[d]
      BY <1>1, <2>2
    <3>. QED BY <1>0, <1>1, <3>1 DEF Below
  <2>. QED BY <2>3, <2>4
<1>. QED BY <1>2, <1>3, <1>4

\* What only changes on the way to x, everywhere by m, changes a sum by m.
OnTheWay(t, u, h, x, m) ==
  \A y \in Subtree[h] : u[y].n = IF y = x \/ y \in AboveTo(h, x) THEN t[y].n + m ELSE t[y].n

\* The sums over children change by what the child on the way does.
LEMMA SumOnTheWay ==
  ASSUME NEW h \in Nodes, NEW t, IsTree(t, h), NEW u, IsTree(u, h), NEW x \in Subtree[h], NEW m \in Int,
         OnTheWay(t, u, h, x, m), NEW y \in Subtree[h]
  PROVE  SumFunctionOnSet(VisitsIn(u), Children(y))
           = SumFunctionOnSet(VisitsIn(t), Children(y)) + IF y \in AboveTo(h, x) THEN m ELSE 0
<1>. DEFINE C == Children(y)
            f == VisitsIn(t)
            g == VisitsIn(u)
<1>1. /\ IsFiniteSet(C) /\ C \subseteq Subtree[h]
      /\ \A z \in Subtree[h] : f[z] = t[z].n /\ f[z] \in Nat
      /\ SumFunctionOnSet(f, C) \in Nat
  BY SumsType
<1>2. \A z \in Subtree[h] : g[z] = u[z].n /\ g[z] \in Nat
  BY SumsType
<1>3. CASE y \notin AboveTo(h, x)
  <2>1. \A z \in C : z # x /\ z \notin AboveTo(h, x)
    BY <1>1, <1>3, OneParent
  <2>2. \A z \in C : g[z] = f[z]
    BY <1>1, <1>2, <2>1 DEF OnTheWay
  <2>3. SumFunctionOnSet(g, C) = SumFunctionOnSet(f, C)
    <3>. HIDE DEF f, g, C
    <3>. QED BY <1>1, <2>2, SumEqual
  <2>. HIDE DEF f, g, C
  <2>. QED BY <1>1, <1>3, <2>3 DEF f, g, C
<1>4. CASE y \in AboveTo(h, x)
  <2>1. PICK c \in C : /\ c = x \/ c \in AboveTo(h, x)
                       /\ \A d \in C \ {c} : d # x /\ d \notin AboveTo(h, x)
    BY <1>4, OneParent
  <2>2. (\A z \in C \ {c} : g[z] = f[z]) /\ g[c] = f[c] + m
    BY <1>1, <1>2, <2>1 DEF OnTheWay
  <2>3. \A z \in C : f[z] \in Int /\ g[z] \in Int
    BY <1>1, <1>2
  <2>. HIDE DEF f, g, C
  <2>4. SumFunctionOnSet(g, C) = SumFunctionOnSet(f, C) + (g[c] - f[c])
    <3>1. IsFiniteSet(C) /\ c \in C /\ \A z \in C \ {c} : g[z] = f[z]
      BY <1>1, <2>2
    <3>2. DifferAt(f, g, C, c)
      BY <2>3, <3>1 DEF DifferAt
    <3>. QED BY <3>2, SumChangeAt
  <2>5. f[c] \in Int
    BY <2>3
  <2>6. SumFunctionOnSet(g, C) = SumFunctionOnSet(f, C) + m
    BY <1>1, <2>2, <2>4, <2>5
  <2>. QED BY <1>4, <2>6 DEF f, g, C
<1>. QED BY <1>3, <1>4

\* The visits of a stale repetition are taken back from it and from those above.
IsCorrected(t, u, h, x) ==
  /\ u = [y \in DOMAIN t |-> u[y]]
  /\ u[x] = [t[x] EXCEPT !.n = 0, !.w = 0, !.term = "no"]
  /\ \A y \in AboveTo(h, x) : u[y] = [t[y] EXCEPT !.n = @ - t[x].n]
  /\ \A y \in DOMAIN t : y # x /\ y \notin AboveTo(h, x) => u[y] = t[y]

\* A tree holds after the visits of a stale repetition are taken back.
LEMMA CorrectedTree ==
  ASSUME NEW h \in Nodes, NEW t, IsTree(t, h), NEW x \in Subtree[h], TreeHolds(t, h), StaleAt(t, h, x),
         \A y \in AboveTo(h, x) : CanDescend(t[y]), NEW u, IsCorrected(t, u, h, x)
  PROVE  /\ IsTree(u, h) /\ TreeHolds(u, h) /\ Found(u, h) = Found(t, h) - t[x].n
         /\ u[h].n = t[h].n - t[x].n /\ u[x].n = 0 /\ ~IsTerminal(u[x])
         /\ \A y \in AboveTo(h, x) : Expanded(u, h, y)
         /\ \A e : EntryHolds(t, h, e) => EntryHolds(u, h, e)
         /\ \A e : EntryHolds(t, h, e) /\ ~IsCollision(e) /\ u[e.node].n = 0 => t[e.node].n = 0
<1>0. /\ Subtree[h] \subseteq DOMAIN t /\ AboveTo(h, x) \subseteq Subtree[h]
      /\ x \notin AboveTo(h, x)
      /\ \A y \in DOMAIN t : t[y] \in Node
      /\ \A y \in Subtree[h] : y = h \/ y \in AboveTo(h, x) \/ y \notin AboveTo(h, x)
  BY AboveIn DEF IsTree
<1>1. \A y \in Subtree[h] : t[y].n \in Nat /\ t[y].w \in Int /\ NodeHolds(t, h, y) /\ Counts(t, y)
  BY <1>0, NodeType DEF TreeHolds
<1>2. t[x].term = "twofold" /\ t[x].w = 0 /\ ~Expanded(t, h, x)
  BY <1>1 DEF StaleAt, NodeHolds, Expanded
<1>3. \A y \in AboveTo(h, x) : Expanded(t, h, y) /\ t[y].term = "no"
  BY <1>0, <1>1 DEF NodeHolds, CanDescend, IsTerminal
<1>4. \A y \in AboveTo(h, x) : t[y].n >= t[x].n + 1
  <2>1. AboveTo(h, x) = {z \in Subtree[h] : x \in Below(z)}
    BY PathIs
  <2>2. \A z \in Subtree[h] : x \in Below(z) => Expanded(t, h, z)
    BY <1>3, <2>1
  <2>. QED BY <1>1, <2>1, <2>2, MoreAbove
<1>5. /\ u[x].n = 0 /\ u[x].w = 0 /\ u[x].term = "no" /\ u[x].lo = t[x].lo /\ u[x].up = t[x].up
      /\ u[x] \in Node
  <2>1. t[x] \in Node
    BY <1>0
  <2>2. u[x] = [t[x] EXCEPT !.n = 0, !.w = 0, !.term = "no"]
    BY DEF IsCorrected
  <2>. QED BY <2>1, <2>2, NodeReset, ZenonT(30)
<1>6. ASSUME NEW y \in AboveTo(h, x)
      PROVE  /\ u[y].n = t[y].n - t[x].n /\ u[y].w = t[y].w /\ u[y].term = "no" /\ u[y].own = t[y].own
             /\ u[y].lo = t[y].lo /\ u[y].up = t[y].up /\ u[y].n > 0
             /\ u[y] \in Node
  <2>0. y \in Subtree[h] /\ y # x /\ t[y] \in Node
    BY <1>0
  <2>1. t[y].n - t[x].n \in Nat /\ t[y].n - t[x].n > 0
    BY <1>1, <1>4, <2>0
  <2>2. u[y] = [t[y] EXCEPT !.n = t[y].n - t[x].n]
    BY <1>6 DEF IsCorrected
  <2>. QED BY <1>3, <2>0, <2>1, <2>2 DEF Node
<1>7. \A y \in DOMAIN t : y # x /\ y \notin AboveTo(h, x) => u[y] = t[y]
  BY DEF IsCorrected
<1>8. IsTree(u, h)
  <2>1. \A y \in DOMAIN t : u[y] \in Node
    BY <1>0, <1>5, <1>6, <1>7
  <2>2. u = [y \in DOMAIN t |-> u[y]]
    BY DEF IsCorrected
  <2>3. DOMAIN u = DOMAIN t /\ u \in [DOMAIN t -> Node]
    BY <2>1, <2>2
  <2>. QED BY <1>0, <2>3 DEF IsTree
<1>9. \A y \in Subtree[h] : y \in DOMAIN t
  BY <1>0
<1>10. \A y \in Subtree[h] :
         /\ u[y].w = t[y].w /\ u[y].own = t[y].own
         /\ Expanded(u, h, y) => Expanded(t, h, y) \/ y = x
         /\ Expanded(t, h, y) => Expanded(u, h, y) /\ y # x
         /\ Sound(t, y) => Sound(u, y)
         /\ StaleAt(u, h, y) <=> StaleAt(t, h, y) /\ y # x
  <2>1. ASSUME NEW y \in AboveTo(h, x)
        PROVE  /\ u[y].w = t[y].w /\ u[y].own = t[y].own
               /\ Expanded(t, h, y) /\ Expanded(u, h, y) /\ y # x
               /\ Sound(t, y) => Sound(u, y)
               /\ StaleAt(u, h, y) <=> StaleAt(t, h, y)
    BY <1>0, <1>3, <1>6 DEF Expanded, Sound, StaleAt
  <2>2. /\ u[x].w = t[x].w /\ u[x].own = t[x].own /\ ~Expanded(t, h, x)
        /\ Sound(t, x) => Sound(u, x)
        /\ ~StaleAt(u, h, x)
    BY <1>0, <1>2, <1>5 DEF Sound, StaleAt, IsCorrected, Node
  <2>3. ASSUME NEW y \in Subtree[h], y # x, y \notin AboveTo(h, x)
        PROVE  u[y] = t[y]
    BY <1>7, <1>9, <2>3
  <2>4. ASSUME NEW y \in Subtree[h], y # x, y \notin AboveTo(h, x)
        PROVE  /\ u[y].w = t[y].w /\ u[y].own = t[y].own
               /\ Expanded(t, h, y) <=> Expanded(u, h, y)
               /\ Sound(t, y) => Sound(u, y)
               /\ StaleAt(u, h, y) <=> StaleAt(t, h, y)
    BY <2>3, <2>4 DEF Expanded, Sound, StaleAt
  <2>. QED BY <2>1, <2>2, <2>4
<1>. DEFINE m == -t[x].n
<1>11. m \in Int /\ OnTheWay(t, u, h, x, m)
  <2>1. m \in Int
    BY <1>1
  <2>2. ASSUME NEW y \in Subtree[h]
        PROVE  u[y].n = IF y = x \/ y \in AboveTo(h, x) THEN t[y].n + m ELSE t[y].n
    <3>1. CASE y \in AboveTo(h, x)
      BY <1>1, <1>6, <3>1
    <3>2. CASE y = x
      BY <1>1, <1>5, <3>2
    <3>3. CASE y # x /\ y \notin AboveTo(h, x)
      BY <1>7, <1>9, <3>3
    <3>. QED BY <3>1, <3>2, <3>3
  <2>. QED BY <2>1, <2>2 DEF OnTheWay
<1>12. \A y \in Subtree[h] :
         /\ SumFunctionOnSet(VisitsIn(u), Children(y))
              = SumFunctionOnSet(VisitsIn(t), Children(y)) + IF y \in AboveTo(h, x) THEN m ELSE 0
         /\ SumFunctionOnSet(ValuesIn(u), Children(y)) = SumFunctionOnSet(ValuesIn(t), Children(y))
         /\ SumFunctionOnSet(VisitsIn(t), Children(y)) \in Nat
         /\ Children(y) \subseteq Subtree[h]
  <2>. SUFFICES ASSUME NEW y \in Subtree[h]
                PROVE  /\ SumFunctionOnSet(VisitsIn(u), Children(y))
                            = SumFunctionOnSet(VisitsIn(t), Children(y)) + IF y \in AboveTo(h, x) THEN m ELSE 0
                       /\ SumFunctionOnSet(ValuesIn(u), Children(y)) = SumFunctionOnSet(ValuesIn(t), Children(y))
                       /\ SumFunctionOnSet(VisitsIn(t), Children(y)) \in Nat
                       /\ Children(y) \subseteq Subtree[h]
    OBVIOUS
  <2>1. /\ IsFiniteSet(Children(y)) /\ Children(y) \subseteq Subtree[h]
        /\ SumFunctionOnSet(VisitsIn(t), Children(y)) \in Nat
        /\ \A z \in Subtree[h] : ValuesIn(t)[z] = t[z].w
    BY SumsType
  <2>2. \A z \in Subtree[h] : ValuesIn(u)[z] = u[z].w
    BY <1>8, SumsType
  <2>3. \A z \in Children(y) : ValuesIn(u)[z] = ValuesIn(t)[z]
    BY <1>10, <2>1, <2>2
  <2>4. SumFunctionOnSet(ValuesIn(u), Children(y)) = SumFunctionOnSet(ValuesIn(t), Children(y))
    BY <2>1, <2>3, SumEqual
  <2>. HIDE DEF m
  <2>5. SumFunctionOnSet(VisitsIn(u), Children(y))
          = SumFunctionOnSet(VisitsIn(t), Children(y)) + IF y \in AboveTo(h, x) THEN m ELSE 0
    BY <1>8, <1>11, SumOnTheWay
  <2>. QED BY <2>1, <2>4, <2>5
<1>13. ASSUME NEW y \in Subtree[h] PROVE NodeHolds(u, h, y) /\ Counts(u, y)
  <2>0. NodeHolds(t, h, y) /\ Counts(t, y) /\ t[y].n \in Nat /\ t[x].n \in Nat
    BY <1>1
  <2>1. CASE y = x
    <3>1. \A z \in Children(y) : t[z].n = 0
      <4>1. \A z \in Children(y) : t[z].n \in Nat /\ ~(t[z].n > 0)
        BY <1>1, <1>2, <1>12, <2>0, <2>1 DEF NodeHolds
      <4>. QED BY <4>1
    <3>2. \A z \in Children(y) : u[z].n = 0
      <4>1. \A z \in Children(y) : z # x /\ z \notin AboveTo(h, x)
        <5>1. x \notin Children(x) /\ x \in Nodes
          BY InSubtree, ChildrenIn
        <5>2. \A z \in Children(y) : z \notin AboveTo(h, x)
          BY <1>0, <2>1, OneParent
        <5>. QED BY <2>1, <5>1, <5>2
      <4>2. \A z \in Children(y) : u[z] = t[z]
        BY <1>7, <1>9, <1>12, <4>1
      <4>. QED BY <3>1, <4>2
    <3>. QED BY <1>5, <2>1, <3>2 DEF NodeHolds, Counts, Expanded, CanDescend
  <2>2. CASE y \in AboveTo(h, x)
    <3>1. Expanded(u, h, y) /\ Expanded(t, h, y) /\ CanDescend(t[y])
      BY <1>3, <1>10, <2>2
    <3>2. t[y].n = 1 + SumFunctionOnSet(VisitsIn(t), Children(y))
          /\ t[y].w = t[y].own - SumFunctionOnSet(ValuesIn(t), Children(y))
      BY <2>0, <3>1 DEF Counts
    <3>3. u[y].n = 1 + SumFunctionOnSet(VisitsIn(u), Children(y))
      <4>. DEFINE s == SumFunctionOnSet(VisitsIn(t), Children(y))
                  r == SumFunctionOnSet(VisitsIn(u), Children(y))
      <4>1. s \in Nat /\ r = s + m /\ t[y].n = 1 + s /\ u[y].n = t[y].n - t[x].n
        BY <1>6, <1>12, <2>2, <3>2
      <4>. HIDE DEF s, r
      <4>2. u[y].n = 1 + r
        BY <2>0, <4>1
      <4>. QED BY <4>2 DEF r
    <3>4. u[y].w = u[y].own - SumFunctionOnSet(ValuesIn(u), Children(y))
      BY <1>10, <1>12, <3>2
    <3>5. u[y].n > 0 /\ u[y].term = "no"
      BY <1>6, <2>2
    <3>6. NodeHolds(u, h, y)
      <4>1. u[y].n \in Nat /\ u[y].n >= 1 + SumFunctionOnSet(VisitsIn(u), Children(y))
        <5>1. u[y] \in Node
          BY <1>6, <2>2
        <5>. QED BY <3>3, <5>1, NodeType
      <4>. QED BY <3>1, <3>5, <4>1 DEF NodeHolds
    <3>7. Counts(u, y)
      BY <3>3, <3>4 DEF Counts
    <3>. QED BY <3>6, <3>7
  <2>3. CASE y # x /\ y \notin AboveTo(h, x)
    <3>1. u[y] = t[y]
      BY <1>7, <1>9, <2>3
    <3>2. SumFunctionOnSet(VisitsIn(u), Children(y)) = SumFunctionOnSet(VisitsIn(t), Children(y))
      BY <1>12, <2>3
    <3>3. Expanded(u, h, y) <=> Expanded(t, h, y)
      BY <1>10, <2>3
    <3>4. \A z \in Children(y) : u[z].n = t[z].n
      <4>1. \A z \in Children(y) : z # x /\ z \notin AboveTo(h, x)
        BY <2>3, OneParent
      <4>. QED BY <1>7, <1>9, <1>12, <4>1
    <3>5. NodeHolds(u, h, y)
      BY <2>0, <3>1, <3>2, <3>3, <3>4 DEF NodeHolds
    <3>6. Counts(u, y)
      BY <1>12, <2>0, <3>1, <3>2 DEF Counts
    <3>. QED BY <3>5, <3>6
  <2>. QED BY <2>1, <2>2, <2>3
<1>14. TreeHolds(u, h)
  BY <1>10, <1>13 DEF TreeHolds
<1>15. Found(u, h) = Found(t, h) - t[x].n
  <2>. DEFINE A == Stale(t, h)
  <2>1. Stale(u, h) = A \ {x} /\ x \in A
    BY <1>10 DEF Stale
  <2>2. IsFiniteSet(A) /\ A \subseteq Subtree[h]
    BY InSubtree, FS_Subset DEF Stale
  <2>3. \A y \in A : VisitsIn(t)[y] \in Int /\ VisitsIn(t)[y] = t[y].n
    BY <2>2, SumsType
  <2>4. \A y \in A \ {x} : VisitsIn(u)[y] = VisitsIn(t)[y]
    <3>1. \A y \in A : y \notin AboveTo(h, x)
      BY <1>3 DEF Stale, StaleAt
    <3>2. \A y \in A \ {x} : u[y] = t[y]
      BY <1>7, <1>9, <2>2, <3>1
    <3>3. \A y \in Subtree[h] : VisitsIn(u)[y] = u[y].n
      BY <1>8, SumsType
    <3>. QED BY <2>2, <2>3, <3>2, <3>3
  <2>. HIDE DEF A
  <2>5. SumFunctionOnSet(VisitsIn(t), A) = VisitsIn(t)[x] + SumFunctionOnSet(VisitsIn(t), A \ {x})
    BY <2>1, <2>2, <2>3, SumRemoveInt
  <2>6. IsFiniteSet(A \ {x})
    BY <2>2, FS_Subset
  <2>7. SumFunctionOnSet(VisitsIn(u), A \ {x}) = SumFunctionOnSet(VisitsIn(t), A \ {x})
        /\ SumFunctionOnSet(VisitsIn(t), A \ {x}) \in Int
    BY <2>3, <2>4, <2>6, SumEqual, SumTypeInt
  <2>8. VisitsIn(t)[x] = t[x].n /\ t[x].n \in Int
    BY <2>1, <2>3
  <2>. QED BY <2>1, <2>5, <2>7, <2>8 DEF Found, A
<1>16. u[h].n = t[h].n - t[x].n
  <2>1. h = x \/ h \in AboveTo(h, x)
    <3>1. AboveTo(h, x) = {z \in Subtree[h] : x \in Below(z)} /\ h \in Subtree[h]
      BY PathIs, InSubtree
    <3>. QED BY <3>1 DEF Below
  <2>. QED BY <1>1, <1>5, <1>6, <2>1
<1>17. \A e : EntryHolds(t, h, e) => EntryHolds(u, h, e)
  <2>. SUFFICES ASSUME NEW e, EntryHolds(t, h, e) PROVE EntryHolds(u, h, e)
    OBVIOUS
  <2>1. e.node \in Subtree[h]
    BY DEF EntryHolds, Reached
  <2>2. Reached(u, h, e.node)
    BY <1>10, AboveIn DEF EntryHolds, Reached
  <2>3. ASSUME ~IsCollision(e) PROVE u[e.node] = t[e.node]
    <3>1. ~StaleAt(t, h, e.node) /\ Ends(t, e.node)
      BY <2>3 DEF EntryHolds
    <3>2. e.node # x
      BY <3>1
    <3>3. e.node \notin AboveTo(h, x)
      BY <1>1, <2>1, <3>1 DEF CanDescend, Ends
    <3>. QED BY <1>7, <1>9, <2>1, <3>2, <3>3
  <2>. QED BY <2>2, <2>3 DEF EntryHolds, Ends, StaleAt, Extended
<1>18. \A e : EntryHolds(t, h, e) /\ ~IsCollision(e) /\ u[e.node].n = 0 => t[e.node].n = 0
  <2>. SUFFICES ASSUME NEW e, EntryHolds(t, h, e), ~IsCollision(e), u[e.node].n = 0 PROVE t[e.node].n = 0
    OBVIOUS
  <2>1. e.node \in Subtree[h] /\ ~StaleAt(t, h, e.node) /\ Ends(t, e.node)
    BY DEF EntryHolds, Reached
  <2>2. e.node # x /\ e.node \notin AboveTo(h, x)
    BY <1>1, <2>1 DEF CanDescend, Ends
  <2>. QED BY <1>7, <1>9, <2>1, <2>2
<1>19. ~IsTerminal(u[x]) /\ u[x].n = 0
  BY <1>5 DEF IsTerminal
<1>20. \A y \in AboveTo(h, x) : Expanded(u, h, y)
  BY <1>0, <1>3, <1>10
<1>. QED BY <1>8, <1>14, <1>15, <1>16, <1>17, <1>18, <1>19, <1>20

\* A child of the head becomes the head of the next search.
BecomesHead(t, u, x) ==
  \/ /\ t[x].term = "no" /\ u[x] = t[x]
  \/ /\ t[x].term # "no" /\ (t[x].term # "end" \/ x \in DOMAIN GameEnd \cup RuleDraws)
     /\ u[x].n = 0 /\ u[x].w = 0 /\ u[x].term = "no"
  \/ /\ t[x].term = "end" /\ x \notin DOMAIN GameEnd \cup RuleDraws
     /\ u[x].n = 1 + SumFunctionOnSet(VisitsIn(t), Children(x))
     /\ u[x].w = u[x].own - SumFunctionOnSet(ValuesIn(t), Children(x))
     /\ u[x].term = "no"

\* A tree holds when searched from a child of the old root.
LEMMA NewHeadTree ==
  ASSUME NEW h \in Nodes, NEW t, IsTree(t, h), TreeHolds(t, h), NEW x \in Children(h),
         NEW u, IsTree(u, x), BecomesHead(t, u, x), \A y \in Subtree[x] \ {x} : u[y] = t[y]
  PROVE  TreeHolds(u, x)
<1>0. /\ x \in Nodes /\ x \in Subtree[h] /\ x # h /\ Subtree[x] \subseteq Subtree[h]
      /\ h \notin Subtree[x]
      /\ h \in Subtree[h]
  <2>1. x \in Subtree[h] /\ h \in Subtree[h]
    BY ChildrenIn, InSubtree
  <2>2. x \in Nodes /\ x # h /\ Subtree[x] \subseteq Subtree[h] /\ h \notin Subtree[x]
    BY <2>1, ChildrenIn
  <2>. QED BY <2>1, <2>2
<1>1. \A y \in Subtree[h] : NodeHolds(t, h, y) /\ Counts(t, y) /\ t[y].n \in Nat
  BY NodeType DEF TreeHolds, IsTree
<1>2. ASSUME NEW y \in Subtree[x]
      PROVE  /\ Children(y) \subseteq Subtree[x] \ {x}
             /\ SumFunctionOnSet(VisitsIn(u), Children(y)) = SumFunctionOnSet(VisitsIn(t), Children(y))
             /\ SumFunctionOnSet(ValuesIn(u), Children(y)) = SumFunctionOnSet(ValuesIn(t), Children(y))
             /\ \A z \in Children(y) : u[z] = t[z]
             /\ SumFunctionOnSet(VisitsIn(t), Children(y)) \in Nat
  <2>1. y \in Nodes /\ Children(y) \subseteq Subtree[x] /\ IsFiniteSet(Children(y))
        /\ \A z \in Subtree[x] : VisitsIn(u)[z] = u[z].n /\ ValuesIn(u)[z] = u[z].w
    BY <1>0, SumsType
  <2>2. x \notin Children(y)
    <3>1. \A c \in Children(y) : y \notin Subtree[c]
      BY <2>1, ChildrenIn
    <3>. QED BY <3>1
  <2>3. /\ \A z \in Subtree[h] : VisitsIn(t)[z] = t[z].n /\ ValuesIn(t)[z] = t[z].w
        /\ SumFunctionOnSet(VisitsIn(t), Children(y)) \in Nat
    BY <1>0, SumsType
  <2>4. \A z \in Children(y) : u[z] = t[z] /\ z \in Subtree[h] /\ z \in Subtree[x]
    BY <1>0, <2>1, <2>2
  <2>5. \A z \in Children(y) : VisitsIn(u)[z] = VisitsIn(t)[z] /\ ValuesIn(u)[z] = ValuesIn(t)[z]
    BY <2>1, <2>3, <2>4
  <2>. QED BY <2>1, <2>2, <2>3, <2>4, <2>5, SumEqual
<1>3. ASSUME NEW y \in Subtree[x], y # x
      PROVE  NodeHolds(u, x, y) /\ Counts(u, y)
  <2>1. u[y] = t[y] /\ y \in Subtree[h] /\ y # h
    BY <1>0, <1>3
  <2>2. Expanded(u, x, y) <=> Expanded(t, h, y)
    BY <1>3, <2>1 DEF Expanded
  <2>3. NodeHolds(t, h, y) /\ Counts(t, y)
    BY <1>1, <2>1
  <2>4. NodeHolds(u, x, y)
    BY <1>2, <2>1, <2>2, <2>3 DEF NodeHolds
  <2>5. Counts(u, y)
    BY <1>2, <2>1, <2>3 DEF Counts
  <2>. QED BY <2>4, <2>5
<1>4. NodeHolds(u, x, x) /\ Counts(u, x)
  <2>1. /\ SumFunctionOnSet(VisitsIn(u), Children(x)) = SumFunctionOnSet(VisitsIn(t), Children(x))
        /\ SumFunctionOnSet(ValuesIn(u), Children(x)) = SumFunctionOnSet(ValuesIn(t), Children(x))
        /\ \A z \in Children(x) : u[z] = t[z] /\ t[z].n \in Nat
        /\ SumFunctionOnSet(VisitsIn(t), Children(x)) \in Nat
    BY <1>0, <1>1, <1>2, InSubtree
  <2>2. NodeHolds(t, h, x) /\ Counts(t, x) /\ t[x].n \in Nat
    BY <1>0, <1>1
  <2>3. CASE t[x].term = "no" /\ u[x] = t[x]
    <3>1. Expanded(u, x, x) => CanDescend(t[x]) /\ Expanded(t, h, x)
      BY <2>2, <2>3 DEF Expanded, CanDescend, IsTerminal, NodeHolds
    <3>2. Expanded(t, h, x) => Expanded(u, x, x)
      BY <2>3 DEF Expanded
    <3>3. NodeHolds(u, x, x)
      BY <2>1, <2>2, <2>3, <3>1, <3>2 DEF NodeHolds
    <3>4. Counts(u, x)
      BY <2>1, <2>2, <2>3 DEF Counts
    <3>. QED BY <3>3, <3>4
  <2>4. CASE /\ t[x].term # "no" /\ (t[x].term # "end" \/ x \in DOMAIN GameEnd \cup RuleDraws)
             /\ u[x].n = 0 /\ u[x].w = 0 /\ u[x].term = "no"
    <3>1. ~Expanded(t, h, x)
      <4>1. t[x].term \in {"no", "end", "twofold"}
        BY <1>0, NodeType DEF IsTree
      <4>. QED BY <1>0, <2>4, <4>1 DEF Expanded
    <3>2. \A z \in Children(x) : u[z].n = 0
      <4>1. \A z \in Children(x) : ~(t[z].n > 0)
        BY <2>2, <3>1 DEF NodeHolds
      <4>. QED BY <2>1, <4>1
    <3>. QED BY <2>4, <3>2 DEF NodeHolds, Counts, Expanded, CanDescend
  <2>5. CASE /\ t[x].term = "end" /\ x \notin DOMAIN GameEnd \cup RuleDraws
             /\ u[x].n = 1 + SumFunctionOnSet(VisitsIn(t), Children(x))
             /\ u[x].w = u[x].own - SumFunctionOnSet(ValuesIn(t), Children(x))
             /\ u[x].term = "no"
    <3>1. u[x].n \in Nat /\ u[x].n > 0
      BY <2>1, <2>5
    <3>2. Expanded(u, x, x)
      BY <2>5, <3>1 DEF Expanded
    <3>3. NodeHolds(u, x, x)
      BY <2>1, <2>5, <3>1, <3>2 DEF NodeHolds
    <3>4. Counts(u, x)
      BY <2>1, <2>5 DEF Counts
    <3>. QED BY <3>3, <3>4
  <2>. QED BY <2>3, <2>4, <2>5 DEF BecomesHead
<1>5. \A y \in Subtree[x] \ {x} : Sound(u, y)
  <2>1. \A y \in Subtree[x] \ {x} : y \in Subtree[h] \ {h} /\ u[y] = t[y]
    BY <1>0
  <2>. QED BY <2>1 DEF TreeHolds, Sound
<1>. QED BY <1>3, <1>4, <1>5 DEF TreeHolds

-----------------------------------------------------------------------------
(* One node of the way up: what BackupNode does.                           *)

\* A node that a value was backed up to.
IsFinalized(nd, v, fix, md) ==
  /\ md \in Node /\ md.n = nd.n + 1 /\ md.flight = nd.flight - 1
  /\ md.w = nd.w + v + (IF nd.term # "no" THEN 0 ELSE fix)
  /\ md.term = nd.term /\ md.lo = nd.lo /\ md.up = nd.up /\ md.solid = nd.solid
  /\ md.own = IF nd.n = 0 THEN v ELSE nd.own

\* Finalized, field by field.
LEMMA FinalizedIs ==
  ASSUME NEW nd \in Node, NEW v \in -1 .. 1, NEW fix \in Int
  PROVE  IsFinalized(nd, v, fix, Finalized(nd, v, fix))
<1>. DEFINE md == Finalized(nd, v, fix)
<1>0. /\ nd.n \in Nat /\ nd.flight \in Int /\ nd.w \in Int /\ nd.term \in {"no", "end", "twofold"}
      /\ nd.lo \in -1 .. 1 /\ nd.up \in -1 .. 1 /\ nd.solid \in BOOLEAN /\ nd.own \in -1 .. 1
  BY NodeType
<1>. DEFINE ww == nd.w + v + (IF nd.term # "no" THEN 0 ELSE fix)
            oo == IF nd.n = 0 THEN v ELSE nd.own
            nn == nd.n + 1
            ff == nd.flight - 1
<1>1. nd = [n |-> nd.n, flight |-> nd.flight, w |-> nd.w, term |-> nd.term, lo |-> nd.lo,
            up |-> nd.up, solid |-> nd.solid, own |-> nd.own]
  BY DEF Node
<1>2. md = [nd EXCEPT !.n = nn, !.flight = ff, !.own = oo, !.w = ww]
  BY DEF Finalized, IsTerminal
<1>3. nn \in Nat /\ ff \in Int /\ ww \in Int /\ oo \in -1 .. 1
  BY <1>0
<1>. HIDE DEF ww, oo, nn, ff
<1>4. md = [n |-> nn, flight |-> ff, w |-> ww, term |-> nd.term, lo |-> nd.lo,
            up |-> nd.up, solid |-> nd.solid, own |-> oo]
  BY <1>1, <1>2
<1>5. md \in Node
  BY <1>0, <1>3, <1>4 DEF Node
<1>6. /\ md.n = nn /\ md.flight = ff /\ md.w = ww /\ md.own = oo
      /\ md.term = nd.term /\ md.lo = nd.lo /\ md.up = nd.up /\ md.solid = nd.solid
  BY <1>4
<1>. HIDE DEF md
<1>7. IsFinalized(nd, v, fix, md)
  BY <1>5, <1>6 DEF ww, oo, nn, ff, IsFinalized
<1>. QED BY <1>7 DEF md

\* Nobody refers to a child of the node.
SafeIn(t, x) ==
  /\ \A y \in Children(x) : t[y].flight > 0 => t[y].n > 1 /\ ~IsTerminal(t[y])
  /\ SumFunctionOnSet(FlightsOf(t), Children(x)) = t[x].flight

\* MakeSolid changes where children are stored, and only if that is safe.
LEMMA MakeSolidIs ==
  ASSUME NEW t \in [Game -> Node], NEW x \in Game, NEW u, u = MakeSolid(t, x)
  PROVE  /\ u \in [Game -> Node] /\ \A y \in Game : y # x => u[y] = t[y]
         /\ u[x].n = t[x].n /\ u[x].flight = t[x].flight /\ u[x].w = t[x].w /\ u[x].term = t[x].term
         /\ u[x].lo = t[x].lo /\ u[x].up = t[x].up /\ u[x].own = t[x].own
         /\ u[x].solid = t[x].solid \/ SafeIn(t, x)
<1>1. CASE u = t
  BY <1>1
<1>2. CASE u = [t EXCEPT ![x].solid = TRUE] /\ SafeIn(t, x)
  <2>. DEFINE nd == t[x]
              md == [nd EXCEPT !.solid = TRUE]
  <2>0. /\ nd.n \in Nat /\ nd.flight \in Int /\ nd.w \in Int /\ nd.term \in {"no", "end", "twofold"}
        /\ nd.lo \in -1 .. 1 /\ nd.up \in -1 .. 1 /\ nd.own \in -1 .. 1 /\ nd \in Node
    BY NodeType
  <2>1. nd = [n |-> nd.n, flight |-> nd.flight, w |-> nd.w, term |-> nd.term, lo |-> nd.lo,
              up |-> nd.up, solid |-> nd.solid, own |-> nd.own]
    BY DEF Node
  <2>3. u = [t EXCEPT ![x] = md]
    BY <1>2
  <2>1a. md = [nd EXCEPT !.solid = TRUE]
    OBVIOUS
  <2>. HIDE DEF nd, md
  <2>2. md = [n |-> nd.n, flight |-> nd.flight, w |-> nd.w, term |-> nd.term, lo |-> nd.lo,
              up |-> nd.up, solid |-> TRUE, own |-> nd.own]
    BY <2>1, <2>1a
  <2>4. md \in Node
    BY <2>0, <2>2 DEF Node
  <2>5. /\ md.n = nd.n /\ md.flight = nd.flight /\ md.w = nd.w /\ md.term = nd.term
        /\ md.lo = nd.lo /\ md.up = nd.up /\ md.own = nd.own
    BY <2>2
  <2>6. u \in [Game -> Node] /\ u[x] = md /\ \A y \in Game : y # x => u[y] = t[y]
    BY <2>3, <2>4
  <2>. QED BY <1>2, <2>5, <2>6 DEF nd
<1>3. u = t \/ (u = [t EXCEPT ![x].solid = TRUE] /\ SafeIn(t, x))
  BY DEF MakeSolid, SafeIn, SolidIsSafe
<1>. QED BY <1>1, <1>2, <1>3

\* The best bound of the children.
LEMMA BestIs ==
  ASSUME NEW t \in [Game -> Node], NEW p, Children(p) \subseteq Game, Children(p) # {}
  PROVE  /\ BestLower(t, p) \in -1 .. 1 /\ BestUpper(t, p) \in -1 .. 1
         /\ \A y \in Children(p) : t[y].lo <= BestLower(t, p) /\ t[y].up <= BestUpper(t, p)
         /\ \E y \in Children(p) : t[y].lo = BestLower(t, p)
         /\ \E y \in Children(p) : t[y].up = BestUpper(t, p)
<1>. DEFINE L == {t[y].lo : y \in Children(p)}
            U == {t[y].up : y \in Children(p)}
<1>1. L \in SUBSET (-1 .. 1) /\ L # {} /\ U \in SUBSET (-1 .. 1) /\ U # {}
  BY NodeType
<1>2. /\ \A y \in Children(p) : t[y].lo \in L /\ t[y].up \in U
      /\ \A z \in L : \E y \in Children(p) : t[y].lo = z
      /\ \A z \in U : \E y \in Children(p) : t[y].up = z
  OBVIOUS
<1>3. BestLower(t, p) = Max(L) /\ BestUpper(t, p) = Max(U)
  BY DEF BestLower, BestUpper
<1>. HIDE DEF L, U
<1>4. Max(L) \in L /\ (\A z \in L : Max(L) >= z) /\ Max(U) \in U /\ \A z \in U : Max(U) >= z
  BY <1>1, MaxOfThree
<1>5. Max(L) \in -1 .. 1 /\ Max(U) \in -1 .. 1
  BY <1>1, <1>4
<1>6. \A y \in Children(p) : t[y].lo \in Int /\ t[y].up \in Int /\ t[y].lo <= Max(L) /\ t[y].up <= Max(U)
  <2>1. \A y \in Children(p) : t[y].lo \in -1 .. 1 /\ t[y].up \in -1 .. 1
    BY NodeType
  <2>2. \A y \in Children(p) : Max(L) >= t[y].lo /\ Max(U) >= t[y].up
    BY <1>2, <1>4
  <2>. QED BY <1>5, <2>1, <2>2
<1>. QED BY <1>2, <1>3, <1>4, <1>5, <1>6

\* What the children prove of their parent is true.
LEMMA BestSound ==
  ASSUME NEW t \in [Game -> Node], NEW p \in Nodes, Children(p) \subseteq Game, Children(p) # {},
         p \notin DOMAIN GameEnd, p \notin RuleDraws, \A y \in Children(p) : Sound(t, y)
  PROVE  /\ -BestUpper(t, p) <= Known[p].lo /\ Known[p].up <= -BestLower(t, p)
         /\ -BestUpper(t, p) \in -1 .. 1 /\ -BestLower(t, p) \in -1 .. 1
<1>. DEFINE U == {Known[y].up : y \in Children(p)}
            L == {Known[y].lo : y \in Children(p)}
            bl == BestLower(t, p)
            bu == BestUpper(t, p)
<1>0. Children(p) \subseteq Nodes
  BY DEF Children
<1>1. U \in SUBSET (-1 .. 1) /\ U # {} /\ L \in SUBSET (-1 .. 1) /\ L # {}
  BY <1>0, KnownType
<1>2. Known[p].lo = -Max(U) /\ Known[p].up = -Max(L)
  <2>1. Known[p] = KnownFrom(Known, p)
    BY KnownIs
  <2>2. Known[p] = [lo |-> -Max(U), up |-> -Max(L)]
    BY <2>1 DEF KnownFrom
  <2>. HIDE DEF U, L
  <2>. QED BY <2>2
<1>3. PICK y \in Children(p) : Known[y].up = Max(U)
  <2>1. Max(U) \in U
    <3>. HIDE DEF U
    <3>. QED BY <1>1, MaxOfThree
  <2>. QED BY <2>1
<1>4. \A z \in Children(p) : Max(L) >= Known[z].lo
  <2>1. \A k \in L : Max(L) >= k
    <3>. HIDE DEF L
    <3>. QED BY <1>1, MaxOfThree
  <2>. QED BY <2>1
<1>5. /\ bl \in -1 .. 1 /\ bu \in -1 .. 1
      /\ \A z \in Children(p) : t[z].lo <= bl /\ t[z].up <= bu
      /\ \E z \in Children(p) : t[z].lo = bl
  BY BestIs
<1>6. PICK z \in Children(p) : t[z].lo = bl
  BY <1>5
<1>7. Max(U) \in -1 .. 1 /\ Max(L) \in -1 .. 1
  <2>1. Max(U) \in U /\ Max(L) \in L
    <3>. HIDE DEF U, L
    <3>. QED BY <1>1, MaxOfThree
  <2>. HIDE DEF U, L
  <2>. QED BY <1>1, <2>1
<1>8. Max(U) <= bu
  <2>1. Known[y].up <= t[y].up /\ t[y].up <= bu /\ t[y].up \in -1 .. 1 /\ Known[y].up \in -1 .. 1
    BY <1>0, <1>5, KnownType, NodeType DEF Sound
  <2>. HIDE DEF U, bu
  <2>. QED BY <1>3, <1>5, <2>1
<1>9. bl <= Max(L)
  <2>1. t[z].lo <= Known[z].lo /\ Max(L) >= Known[z].lo /\ Known[z].lo \in -1 .. 1
    BY <1>0, <1>4, KnownType DEF Sound
  <2>. HIDE DEF L, bl
  <2>. QED BY <1>5, <1>6, <1>7, <2>1
<1>. HIDE DEF U, L, bl, bu
<1>10. -bu <= -Max(U) /\ -Max(L) <= -bl /\ -bu \in -1 .. 1 /\ -bl \in -1 .. 1
  BY <1>5, <1>7, <1>8, <1>9
<1>. QED BY <1>2, <1>10 DEF bl, bu

\* BoundsSet changes the bounds of the parent, and makes it terminal if they meet.
LEMMA BoundsSetIs ==
  ASSUME NEW t \in [Game -> Node], NEW p \in Game, Children(p) \subseteq Game, Children(p) # {},
         t[p].term = "no", NEW u, u = BoundsSet(t, p)
  PROVE  /\ u \in [Game -> Node] /\ \A y \in Game : y # p => u[y] = t[y]
         /\ u[p].n = t[p].n /\ u[p].flight = t[p].flight /\ u[p].own = t[p].own
         /\ u[p].solid = t[p].solid
         /\ u[p].term \in {"no", "end"} /\ (u[p].term = "no" => u[p].w = t[p].w)
         /\ u[p].lo = -BestUpper(t, p) /\ u[p].up = -BestLower(t, p)
<1>. DEFINE bl == BestLower(t, p)
            bu == BestUpper(t, p)
            nd == t[p]
<1>0. bl \in -1 .. 1 /\ bu \in -1 .. 1
  BY BestIs
<1>1. /\ nd.n \in Nat /\ nd.flight \in Int /\ nd.w \in Int /\ nd.term = "no"
      /\ nd.lo \in -1 .. 1 /\ nd.up \in -1 .. 1 /\ nd.solid \in BOOLEAN /\ nd.own \in -1 .. 1
      /\ nd \in Node
  BY NodeType
<1>2. nd = [n |-> nd.n, flight |-> nd.flight, w |-> nd.w, term |-> nd.term, lo |-> nd.lo,
            up |-> nd.up, solid |-> nd.solid, own |-> nd.own]
  BY DEF Node
<1>3. CASE bl = bu
  <2>. DEFINE md == MakeTerminal(nd, -bu)
              m == -bu
              k == nd.n * m
  <2>1. u = [t EXCEPT ![p] = md]
    BY <1>3 DEF BoundsSet
  <2>2. m \in -1 .. 1 /\ k \in Int
    <3>1. m \in -1 .. 1
      BY <1>0
    <3>. HIDE DEF m, nd
    <3>. QED BY <1>1, <3>1
  <2>3. md = [nd EXCEPT !.term = "end", !.lo = m, !.up = m, !.w = k]
    BY DEF MakeTerminal
  <2>. HIDE DEF nd, m, k, md, bl, bu
  <2>4. md = [n |-> nd.n, flight |-> nd.flight, w |-> k, term |-> "end", lo |-> m,
              up |-> m, solid |-> nd.solid, own |-> nd.own]
    BY <1>2, <2>3
  <2>5. md \in Node
    BY <1>1, <2>2, <2>4 DEF Node
  <2>6. /\ md.n = nd.n /\ md.flight = nd.flight /\ md.own = nd.own /\ md.solid = nd.solid
        /\ md.term = "end" /\ md.lo = m /\ md.up = m
    BY <2>4
  <2>7. u \in [Game -> Node] /\ u[p] = md /\ \A y \in Game : y # p => u[y] = t[y]
    BY <2>1, <2>5
  <2>8. m = -bu /\ m = -bl
    BY <1>3 DEF m
  <2>. QED BY <2>6, <2>7, <2>8 DEF nd, bl, bu
<1>4. CASE bl # bu
  <2>. DEFINE l == -bu
              h == -bl
              md == [nd EXCEPT !.lo = l, !.up = h]
  <2>1. u = [t EXCEPT ![p] = md]
    <3>1. u = [t EXCEPT ![p].lo = l, ![p].up = h]
      BY <1>4 DEF BoundsSet
    <3>. HIDE DEF l, h
    <3>. QED BY <3>1
  <2>2. l \in -1 .. 1 /\ h \in -1 .. 1
    <3>. HIDE DEF bl, bu
    <3>. QED BY <1>0
  <2>3. md = [nd EXCEPT !.lo = l, !.up = h]
    OBVIOUS
  <2>. HIDE DEF nd, l, h, md, bl, bu
  <2>4. md = [n |-> nd.n, flight |-> nd.flight, w |-> nd.w, term |-> nd.term, lo |-> l,
              up |-> h, solid |-> nd.solid, own |-> nd.own]
    BY <1>2, <2>3
  <2>5. md \in Node
    BY <1>1, <2>2, <2>4 DEF Node
  <2>6. /\ md.n = nd.n /\ md.flight = nd.flight /\ md.own = nd.own /\ md.solid = nd.solid
        /\ md.term = nd.term /\ md.w = nd.w /\ md.lo = l /\ md.up = h
    BY <2>4
  <2>7. u \in [Game -> Node] /\ u[p] = md /\ \A y \in Game : y # p => u[y] = t[y]
    BY <2>1, <2>5
  <2>. QED BY <1>1, <2>6, <2>7 DEF nd, bl, bu, l, h
<1>. QED BY <1>3, <1>4

Backups == [tree : [Game -> Node], v : -1 .. 1, fix : Int, bounds : BOOLEAN]
Val(nd, v) == IF IsTerminal(nd) THEN TerminalValue(nd) ELSE v

\* The node that is backed up, and its parent, after a step of the way up.
Visited(s, r, q) ==
  /\ r.tree[q].n = s.tree[q].n + 1 /\ r.tree[q].flight = s.tree[q].flight - 1
  /\ r.tree[q].w = s.tree[q].w + Val(s.tree[q], s.v) + (IF IsTerminal(s.tree[q]) THEN 0 ELSE s.fix)
  /\ r.tree[q].term = s.tree[q].term /\ r.tree[q].lo = s.tree[q].lo /\ r.tree[q].up = s.tree[q].up
  /\ r.tree[q].own = IF s.tree[q].n = 0 THEN Val(s.tree[q], s.v) ELSE s.tree[q].own
  /\ r.tree[q].solid = s.tree[q].solid \/ SafeIn(r.tree, q)
Learns(s, r, p) ==
  /\ r.tree[p].n = s.tree[p].n /\ r.tree[p].flight = s.tree[p].flight
  /\ r.tree[p].own = s.tree[p].own /\ r.tree[p].solid = s.tree[p].solid
  /\ \/ /\ r.tree[p] = s.tree[p]
        /\ r.fix = IF IsTerminal(s.tree[p]) THEN 0 ELSE -s.fix
     \/ /\ p # head /\ s.tree[p].term = "no"
        /\ \/ r.tree[p].term = "no" /\ r.tree[p].w = s.tree[p].w /\ r.fix = -s.fix
           \/ r.tree[p].term = "end" /\ r.fix = r.tree[p].w - s.tree[p].w
        /\ p \notin DOMAIN GameEnd /\ p \notin RuleDraws /\ (\A y \in Children(p) : Sound(s.tree, y))
             => Sound(r.tree, p)

\* What a node is worth to its own sum is a result.
LEMMA ValType ==
  ASSUME NEW nd \in Node, NEW v \in -1 .. 1
  PROVE  Val(nd, v) \in -1 .. 1
BY NodeType DEF Val, TerminalValue

\* What a node on the way has once it is finalized.
LEMMA FinalStep ==
  ASSUME NEW s \in Backups, NEW q \in Game, NEW t,
         t = MakeSolid([s.tree EXCEPT ![q] = Finalized(@, Val(s.tree[q], s.v), s.fix)], q)
  PROVE  /\ t \in [Game -> Node] /\ \A y \in Game : y # q => t[y] = s.tree[y]
         /\ t[q].n = s.tree[q].n + 1 /\ t[q].flight = s.tree[q].flight - 1
         /\ t[q].w = s.tree[q].w + Val(s.tree[q], s.v) + (IF IsTerminal(s.tree[q]) THEN 0 ELSE s.fix)
         /\ t[q].term = s.tree[q].term /\ t[q].lo = s.tree[q].lo /\ t[q].up = s.tree[q].up
         /\ t[q].own = IF s.tree[q].n = 0 THEN Val(s.tree[q], s.v) ELSE s.tree[q].own
         /\ \/ t[q].solid = s.tree[q].solid
            \/ SafeIn([s.tree EXCEPT ![q] = Finalized(@, Val(s.tree[q], s.v), s.fix)], q)
<1>. DEFINE nd == s.tree[q]
            v == Val(nd, s.v)
            md == Finalized(nd, v, s.fix)
            t1 == [s.tree EXCEPT ![q] = md]
<1>1. s.tree \in [Game -> Node] /\ s.v \in -1 .. 1 /\ s.fix \in Int /\ nd \in Node
  BY DEF Backups
<1>2. v \in -1 .. 1
  BY <1>1, ValType
<1>3. /\ md \in Node /\ md.n = nd.n + 1 /\ md.flight = nd.flight - 1
      /\ md.w = nd.w + v + (IF nd.term # "no" THEN 0 ELSE s.fix)
      /\ md.term = nd.term /\ md.lo = nd.lo /\ md.up = nd.up /\ md.solid = nd.solid
      /\ md.own = IF nd.n = 0 THEN v ELSE nd.own
  <2>1. IsFinalized(nd, v, s.fix, md)
    <3>1. \A a \in Node : \A b \in -1 .. 1 : \A c \in Int : IsFinalized(a, b, c, Finalized(a, b, c))
      BY FinalizedIs
    <3>. HIDE DEF nd, v
    <3>. QED BY <1>1, <1>2, <3>1
  <2>. HIDE DEF nd, v, md
  <2>. QED BY <2>1 DEF IsFinalized
<1>. HIDE DEF md
<1>4. t1 \in [Game -> Node] /\ t1[q] = md /\ \A y \in Game : y # q => t1[y] = s.tree[y]
  BY <1>1, <1>3
<1>5. t = MakeSolid(t1, q)
  BY DEF md
<1>. HIDE DEF t1
<1>6. /\ t \in [Game -> Node] /\ \A y \in Game : y # q => t[y] = t1[y]
      /\ t[q].n = t1[q].n /\ t[q].flight = t1[q].flight /\ t[q].w = t1[q].w
      /\ t[q].term = t1[q].term
      /\ t[q].lo = t1[q].lo /\ t[q].up = t1[q].up /\ t[q].own = t1[q].own
      /\ t[q].solid = t1[q].solid \/ SafeIn(t1, q)
  BY ONLY <1>1, <1>4, <1>5, MakeSolidIs, SMTT(30)
<1>7. IsTerminal(nd) <=> nd.term # "no"
  BY DEF IsTerminal
<1>8. t1 = [s.tree EXCEPT ![q] = Finalized(@, Val(s.tree[q], s.v), s.fix)]
  BY DEF t1, md
<1>9. /\ t[q].solid = nd.solid \/ SafeIn(t1, q)
  BY <1>3, <1>4, <1>6
<1>10. /\ t[q].n = nd.n + 1 /\ t[q].flight = nd.flight - 1
       /\ t[q].w = nd.w + v + (IF IsTerminal(nd) THEN 0 ELSE s.fix)
       /\ t[q].term = nd.term /\ t[q].lo = nd.lo /\ t[q].up = nd.up
       /\ t[q].own = IF nd.n = 0 THEN v ELSE nd.own
  BY <1>3, <1>4, <1>6, <1>7
<1>11. t \in [Game -> Node] /\ \A y \in Game : y # q => t[y] = s.tree[y]
  BY <1>4, <1>6
<1>. QED BY <1>8, <1>9, <1>10, <1>11

\* What is safe depends on visits, flights and ends of the node and its children.
LEMMA SafeSame ==
  ASSUME NEW t, NEW u, NEW x, x \in Game, Children(x) \subseteq Game, x \in Nodes,
         u[x].flight = t[x].flight,
         \A y \in Children(x) : u[y].n = t[y].n /\ u[y].flight = t[y].flight /\ u[y].term = t[y].term,
         SafeIn(t, x)
  PROVE  SafeIn(u, x)
<1>1. \A y \in Children(x) : FlightsOf(u)[y] = FlightsOf(t)[y]
  BY DEF FlightsOf
<1>2. IsFiniteSet(Children(x))
  BY ChildrenIn
<1>3. SumFunctionOnSet(FlightsOf(u), Children(x)) = SumFunctionOnSet(FlightsOf(t), Children(x))
  BY <1>1, <1>2, SumEqual
<1>. QED BY <1>3 DEF SafeIn, IsTerminal

\* The last node of the way up.
LEMMA AtHead ==
  ASSUME NEW s \in Backups, head \in Game, head \in Nodes, Children(head) \subseteq Game,
         NEW r, r = BackupNode(s, head)
  PROVE  /\ r \in Backups /\ \A y \in Game : y # head => r.tree[y] = s.tree[y]
         /\ Visited(s, r, head)
<1>. DEFINE t1 == [s.tree EXCEPT ![head] = Finalized(@, Val(s.tree[head], s.v), s.fix)]
            t == MakeSolid(t1, head)
<1>1. r = [s EXCEPT !.tree = t]
  BY DEF BackupNode, Val
<1>2. /\ t \in [Game -> Node] /\ \A y \in Game : y # head => t[y] = s.tree[y]
      /\ t[head].n = s.tree[head].n + 1 /\ t[head].flight = s.tree[head].flight - 1
      /\ t[head].w = s.tree[head].w + Val(s.tree[head], s.v) + (IF IsTerminal(s.tree[head]) THEN 0 ELSE s.fix)
      /\ t[head].term = s.tree[head].term /\ t[head].lo = s.tree[head].lo
      /\ t[head].up = s.tree[head].up
      /\ t[head].own = IF s.tree[head].n = 0 THEN Val(s.tree[head], s.v) ELSE s.tree[head].own
      /\ t[head].solid = s.tree[head].solid \/ SafeIn(t1, head)
  BY FinalStep
<1>3. SafeIn(t1, head) => SafeIn(t, head)
  <2>1. s.tree \in [Game -> Node]
    BY DEF Backups
  <2>2. \A y \in Game : y # head => t1[y] = s.tree[y]
    BY <2>1
  <2>3. t1[head].flight = t[head].flight
    <3>1. t1 \in [Game -> Node]
      <4>1. Finalized(s.tree[head], Val(s.tree[head], s.v), s.fix) \in Node
        <5>1. s.tree[head] \in Node /\ s.v \in -1 .. 1 /\ s.fix \in Int
          BY DEF Backups
        <5>. QED BY <5>1, ValType, FinalizedIs DEF IsFinalized
      <4>. QED BY <2>1, <4>1
    <3>. HIDE DEF t1
    <3>. QED BY <3>1, MakeSolidIs
  <2>4. head \notin Children(head)
    BY ChildrenIn
  <2>5. \A y \in Children(head) : t[y] = t1[y]
    BY <1>2, <2>2, <2>4
  <2>. HIDE DEF t1, t
  <2>. QED BY <2>3, <2>5, SafeSame
<1>. HIDE DEF t1, t
<1>4. r.tree = t
  BY <1>1 DEF Backups
<1>5. r \in Backups
  BY <1>1, <1>2 DEF Backups
<1>. QED BY <1>2, <1>3, <1>4, <1>5 DEF Visited

\* Any other node of the way up.
LEMMA BelowHead ==
  ASSUME NEW s \in Backups, NEW q \in Game, q \in Nodes, q # head, Children(q) \subseteq Game,
         NEW p \in Game, p \in Nodes, p = Parent[q], Children(p) \subseteq Game, q \in Children(p),
         q # p, p \notin Children(q), NEW r, r = BackupNode(s, q)
  PROVE  /\ r \in Backups /\ \A y \in Game : y # q /\ y # p => r.tree[y] = s.tree[y]
         /\ Visited(s, r, q) /\ Learns(s, r, p) /\ r.v = -Val(s.tree[q], s.v)
<1>. DEFINE t1 == [s.tree EXCEPT ![q] = Finalized(@, Val(s.tree[q], s.v), s.fix)]
            t == MakeSolid(t1, q)
            sets == /\ s.bounds /\ p # head /\ ~IsTerminal(t[p])
                    /\ ~ProvesNothing(t, p)
            t2 == BoundsSet(t, p)
            v == Val(s.tree[q], s.v)
<1>1. r = [tree   |-> IF sets THEN t2 ELSE t,
           v      |-> -v,
           fix    |-> CASE IsTerminal(t[p]) -> 0
                        [] sets /\ IsTerminal(t2[p]) -> t2[p].w - t[p].w
                        [] OTHER -> -s.fix,
           bounds |-> sets]
  BY DEF BackupNode, Val
<1>2. /\ t \in [Game -> Node] /\ \A y \in Game : y # q => t[y] = s.tree[y]
      /\ t[q].n = s.tree[q].n + 1 /\ t[q].flight = s.tree[q].flight - 1
      /\ t[q].w = s.tree[q].w + v + (IF IsTerminal(s.tree[q]) THEN 0 ELSE s.fix)
      /\ t[q].term = s.tree[q].term /\ t[q].lo = s.tree[q].lo /\ t[q].up = s.tree[q].up
      /\ t[q].own = IF s.tree[q].n = 0 THEN v ELSE s.tree[q].own
      /\ t[q].solid = s.tree[q].solid \/ SafeIn(t1, q)
  BY FinalStep
<1>3. /\ s.tree \in [Game -> Node] /\ s.v \in -1 .. 1 /\ s.fix \in Int /\ s.bounds \in BOOLEAN
      /\ s.tree[q] \in Node
  BY DEF Backups
<1>4. v \in -1 .. 1 /\ -v \in -1 .. 1
  <2>1. v \in -1 .. 1
    BY <1>3, ValType
  <2>. HIDE DEF v
  <2>. QED BY <2>1
<1>5. SafeIn(t1, q) => SafeIn(t, q)
  <2>2. \A y \in Game : y # q => t1[y] = s.tree[y]
    BY <1>3
  <2>3. t1[q].flight = t[q].flight
    <3>1. t1 \in [Game -> Node]
      <4>1. Finalized(s.tree[q], v, s.fix) \in Node
        BY <1>3, <1>4, FinalizedIs DEF IsFinalized
      <4>. QED BY <1>3, <4>1
    <3>. HIDE DEF t1
    <3>. QED BY <3>1, MakeSolidIs
  <2>4. q \notin Children(q)
    BY ChildrenIn
  <2>5. \A y \in Children(q) : t[y] = t1[y]
    BY <1>2, <2>2, <2>4
  <2>. HIDE DEF t1, t
  <2>. QED BY <2>3, <2>5, SafeSame
<1>6. t[p] = s.tree[p] /\ (IsTerminal(t[p]) <=> t[p].term # "no")
  BY <1>2 DEF IsTerminal
<1>7. CASE ~sets
  <2>1. r = [tree |-> t, v |-> -v, fix |-> IF IsTerminal(t[p]) THEN 0 ELSE -s.fix, bounds |-> FALSE]
    BY <1>1, <1>7
  <2>. HIDE DEF sets, t2, t, v, t1
  <2>2. r.tree = t /\ r.v = -v /\ r.fix = IF IsTerminal(s.tree[p]) THEN 0 ELSE -s.fix
    BY <1>6, <2>1
  <2>3. r \in Backups
    BY <1>2, <1>3, <1>4, <2>1 DEF Backups
  <2>4. Visited(s, r, q)
    BY <1>2, <1>5, <2>2 DEF Visited, v
  <2>5. Learns(s, r, p)
    BY <1>6, <2>2 DEF Learns
  <2>6. \A y \in Game : y # q /\ y # p => r.tree[y] = s.tree[y]
    BY <1>2, <2>2
  <2>. QED BY <2>2, <2>3, <2>4, <2>5, <2>6 DEF v
<1>8. CASE sets
  <2>0. p # head /\ t[p].term = "no"
    BY <1>6, <1>8
  <2>1. r = [tree |-> t2, v |-> -v,
             fix |-> IF IsTerminal(t2[p]) THEN t2[p].w - t[p].w ELSE -s.fix, bounds |-> TRUE]
    <3>1. sets = TRUE /\ ~IsTerminal(t[p])
      BY <1>6, <1>8, <2>0
    <3>. HIDE DEF sets, t2, t, v, t1
    <3>. QED BY <1>1, <3>1
  <2>. HIDE DEF sets, t, v, t1
  <2>2. /\ t2 \in [Game -> Node] /\ \A y \in Game : y # p => t2[y] = t[y]
        /\ t2[p].n = t[p].n /\ t2[p].flight = t[p].flight /\ t2[p].own = t[p].own
        /\ t2[p].solid = t[p].solid
        /\ t2[p].term \in {"no", "end"} /\ (t2[p].term = "no" => t2[p].w = t[p].w)
        /\ t2[p].lo = -BestUpper(t, p) /\ t2[p].up = -BestLower(t, p)
    <3>1. Children(p) # {}
      OBVIOUS
    <3>. HIDE DEF t
    <3>. QED BY <1>2, <2>0, <3>1, BoundsSetIs
  <2>. HIDE DEF t2
  <2>3. r.tree = t2 /\ r.v = -v /\ r.fix = IF IsTerminal(t2[p]) THEN t2[p].w - s.tree[p].w ELSE -s.fix
    BY <1>6, <2>1
  <2>4. r \in Backups
    <3>1. t2[p].w - t[p].w \in Int /\ -s.fix \in Int
      <4>1. t2[p] \in Node /\ t[p] \in Node
        BY <1>2, <2>2
      <4>2. t2[p].w \in Int /\ t[p].w \in Int
        BY <4>1, NodeType
      <4>. QED BY <1>3, <4>2
    <3>. QED BY <1>4, <2>1, <2>2, <3>1 DEF Backups
  <2>5. Visited(s, r, q)
    <3>1. r.tree[q] = t[q]
      BY <2>2, <2>3
    <3>2. SafeIn(t, q) => SafeIn(r.tree, q)
      <4>1. \A y \in Children(q) : r.tree[y] = t[y]
        BY <2>2, <2>3
      <4>. QED BY <3>1, <4>1, SafeSame
    <3>. QED BY <1>2, <1>5, <3>1, <3>2 DEF Visited, v
  <2>6. Learns(s, r, p)
    <3>1. /\ r.tree[p].n = s.tree[p].n /\ r.tree[p].flight = s.tree[p].flight
          /\ r.tree[p].own = s.tree[p].own /\ r.tree[p].solid = s.tree[p].solid
          /\ s.tree[p].term = "no"
      BY <1>6, <2>0, <2>2, <2>3
    <3>2. \/ r.tree[p].term = "no" /\ r.tree[p].w = s.tree[p].w /\ r.fix = -s.fix
          \/ r.tree[p].term = "end" /\ r.fix = r.tree[p].w - s.tree[p].w
      BY <1>6, <2>2, <2>3 DEF IsTerminal
    <3>3. ASSUME p \notin DOMAIN GameEnd, p \notin RuleDraws, \A y \in Children(p) : Sound(s.tree, y)
          PROVE  Sound(r.tree, p)
      <4>1. \A y \in Children(p) : Sound(t, y)
        <5>1. \A y \in Children(p) : t[y].lo = s.tree[y].lo /\ t[y].up = s.tree[y].up
          BY <1>2
        <5>. QED BY <3>3, <5>1 DEF Sound
      <4>2. Children(p) # {}
        OBVIOUS
      <4>3. -BestUpper(t, p) <= Known[p].lo /\ Known[p].up <= -BestLower(t, p)
        BY <1>2, <3>3, <4>1, <4>2, BestSound
      <4>. QED BY <2>2, <2>3, <4>3 DEF Sound
    <3>. QED BY <2>0, <3>1, <3>2, <3>3 DEF Learns
  <2>7. \A y \in Game : y # q /\ y # p => r.tree[y] = s.tree[y]
    BY <1>2, <2>2, <2>3
  <2>. QED BY <2>3, <2>4, <2>5, <2>6, <2>7 DEF v
<1>. QED BY <1>7, <1>8

\* The way up from a node to the root of the search.
Way(p) ==
  /\ Len(p) \in Nat \ {0} /\ p[Len(p)] = head
  /\ \A i \in 1 .. Len(p) :
       /\ p[i] \in Game /\ p[i] \in Nodes /\ p[i] \in Subtree[head]
       /\ Children(p[i]) \subseteq Game /\ Children(p[i]) \subseteq Subtree[head] \ {head}
  /\ \A i \in 1 .. Len(p) - 1 : p[i] # head /\ p[i + 1] = Parent[p[i]] /\ p[i] \in Children(p[i + 1])
  /\ \A i, j \in 1 .. Len(p) : i < j => p[i] # p[j] /\ p[j] \notin Children(p[i])

\* The path of a node is a way.
LEMMA WayIs ==
  ASSUME IsTree(tree, head), head \in Nodes, NEW x \in Subtree[head], NEW p, p = PathTo(head)[x]
  PROVE  Way(p) /\ p[1] = x
<1>1. /\ p \in Seq(Nodes) /\ Len(p) \in Nat \ {0} /\ p[1] = x /\ p[Len(p)] = head
      /\ \A i \in 1 .. Len(p) : p[i] \in Subtree[head]
      /\ \A i \in 1 .. Len(p) - 1 : p[i] # head /\ p[i + 1] = Parent[p[i]] /\ p[i] \in Children(p[i + 1])
  <2>1. /\ p \in Seq(Nodes) /\ Len(p) \in Nat \ {0} /\ p[1] = x /\ p[Len(p)] = head
    BY PathIs
  <2>2. \A i \in 1 .. Len(p) : p[i] \in Subtree[head]
    BY PathIs
  <2>3. \A i \in 1 .. Len(p) - 1 : p[i] # head /\ p[i + 1] = Parent[p[i]] /\ p[i] \in Children(p[i + 1])
    BY PathIs
  <2>. QED BY <2>1, <2>2, <2>3
<1>2. Subtree[head] \subseteq Nodes /\ Subtree[head] \subseteq Game
  BY InSubtree DEF IsTree, Game
<1>3. ASSUME NEW z \in Subtree[head]
      PROVE  Children(z) \subseteq Subtree[head] \ {head}
  <2>1. z \in Nodes
    BY <1>2
  <2>2. Children(z) \subseteq Subtree[z] /\ Subtree[z] \subseteq Subtree[head]
    BY <2>1, ChildrenIn, SubtreeTransitive
  <2>3. head \notin Children(z)
    <3>1. SUFFICES ASSUME head \in Children(z) PROVE FALSE
      OBVIOUS
    <3>2. head \in Subtree[z] /\ z # head
      BY <2>1, <2>2, <3>1, ChildrenIn
    <3>. QED BY <2>1, <3>2, Antisymmetric
  <2>. QED BY <2>2, <2>3
<1>4. ASSUME NEW i \in 1 .. Len(p), NEW j \in 1 .. Len(p), i < j
      PROVE  p[i] # p[j] /\ p[j] \notin Children(p[i])
  <2>1. p[i] \in Below(p[j]) /\ p[i] # p[j]
    BY <1>4, PathDiffers
  <2>2. p[i] \in Nodes /\ p[j] \in Nodes
    BY <1>1, <1>2
  <2>3. p[j] \notin Children(p[i])
    <3>1. SUFFICES ASSUME p[j] \in Children(p[i]) PROVE FALSE
      OBVIOUS
    <3>2. p[j] \in Subtree[p[i]] /\ p[i] \in Subtree[p[j]]
      BY <2>1, <2>2, <3>1, ChildrenIn DEF Below
    <3>. QED BY <2>1, <2>2, <3>2, Antisymmetric
  <2>. QED BY <2>1, <2>3
<1>. QED BY <1>1, <1>2, <1>3, <1>4 DEF Way

\* The step at one node of the way: the node is visited, and its parent learns.
Stepped(p, k, s, r) ==
  /\ r \in Backups /\ Visited(s, r, p[k])
  /\ \A y \in Game : y # p[k] /\ (k < Len(p) => y # p[k + 1]) => r.tree[y] = s.tree[y]
  /\ k < Len(p) => Learns(s, r, p[k + 1]) /\ r.v = -Val(s.tree[p[k]], s.v)

\* One step of the way up.
LEMMA StepIs ==
  ASSUME NEW p, Way(p), NEW k \in 1 .. Len(p), NEW s \in Backups, NEW r, r = BackupNode(s, p[k])
  PROVE  Stepped(p, k, s, r)
<1>1. /\ Len(p) \in Nat \ {0} /\ p[Len(p)] = head
      /\ p[k] \in Game /\ p[k] \in Nodes /\ Children(p[k]) \subseteq Game
  BY DEF Way
<1>2. CASE k = Len(p)
  <2>1. p[k] = head
    BY <1>1, <1>2
  <2>2. /\ r \in Backups /\ \A y \in Game : y # p[k] => r.tree[y] = s.tree[y]
        /\ Visited(s, r, p[k])
    BY <1>1, <2>1, AtHead
  <2>. QED BY <1>1, <1>2, <2>2 DEF Stepped
<1>3. CASE k # Len(p)
  <2>1. k \in 1 .. Len(p) - 1 /\ k + 1 \in 1 .. Len(p) /\ k < k + 1
    BY <1>1, <1>3
  <2>2. /\ p[k] # head /\ p[k + 1] = Parent[p[k]] /\ p[k] \in Children(p[k + 1])
        /\ p[k + 1] \in Game /\ p[k + 1] \in Nodes /\ Children(p[k + 1]) \subseteq Game
        /\ p[k] # p[k + 1] /\ p[k + 1] \notin Children(p[k])
    BY <2>1 DEF Way
  <2>3. /\ r \in Backups /\ \A y \in Game : y # p[k] /\ y # p[k + 1] => r.tree[y] = s.tree[y]
        /\ Visited(s, r, p[k]) /\ Learns(s, r, p[k + 1]) /\ r.v = -Val(s.tree[p[k]], s.v)
    <3>. DEFINE q == p[k]
                a == p[k + 1]
    <3>1. /\ q \in Game /\ q \in Nodes /\ q # head /\ Children(q) \subseteq Game
          /\ a \in Game /\ a \in Nodes /\ a = Parent[q] /\ Children(a) \subseteq Game
          /\ q \in Children(a)
          /\ q # a /\ a \notin Children(q) /\ r = BackupNode(s, q)
      BY <1>1, <2>2
    <3>. HIDE DEF q, a
    <3>2. /\ r \in Backups /\ \A y \in Game : y # q /\ y # a => r.tree[y] = s.tree[y]
          /\ Visited(s, r, q) /\ Learns(s, r, a) /\ r.v = -Val(s.tree[q], s.v)
      BY <3>1, BelowHead
    <3>. QED BY <3>2 DEF q, a
  <2>. QED BY <2>1, <2>3 DEF Stepped
<1>. QED BY <1>2, <1>3

\* What the steps below the k-th node of the way have made of the tree t.
Off(t, p, k, s) ==
  \A y \in Game : (\A j \in 1 .. Len(p) : j <= k => y # p[j]) => s.tree[y] = t[y]
\* The node has one visit more and is in flight once less.
VisitedOnce(t, u, y) ==
  /\ u[y].n = t[y].n + 1 /\ u[y].flight = t[y].flight - 1
  /\ t[y].n # 0 => u[y].own = t[y].own
\* So it is with those that are done.
Done(t, p, k, s) == \A j \in 1 .. Len(p) : j < k => VisitedOnce(t, s.tree, p[j])
\* The next one is as it was, but for what its child proved of it.
Due(t, p, k, s) ==
  k <= Len(p) =>
    /\ s.tree[p[k]].n = t[p[k]].n /\ s.tree[p[k]].flight = t[p[k]].flight
    /\ s.tree[p[k]].own = t[p[k]].own /\ s.tree[p[k]].solid = t[p[k]].solid
\* Only a node between the leaf and the root becomes terminal on the way.
TermKept(t, u, p, j) ==
  \/ u[p[j]].term = t[p[j]].term
  \/ j # 1 /\ p[j] # head /\ t[p[j]].term = "no" /\ u[p[j]].term = "end"
Terms(t, p, k, s) == \A j \in 1 .. Len(p) : j <= k => TermKept(t, s.tree, p, j)
\* What is proved is so.
Proved(p, k, s) == \A j \in 1 .. Len(p) : j <= k /\ p[j] # head => Sound(s.tree, p[j])
\* By how much a node's sum of values has changed, ...
Change(t, u, y) == u[y].w - t[y].w
\* ... which is the opposite of what its child's has, as long as it is not
\* terminal, ...
Turns(t, p, k, s) ==
  \A j \in 2 .. Len(p) : j < k /\ s.tree[p[j]].term = "no" =>
    Change(t, s.tree, p[j]) = -Change(t, s.tree, p[j - 1])
\* ... and what the next node's will be, ...
Arrives(t, p, k, s) ==
  k <= Len(p) =>
    /\ Change(t, s.tree, p[k]) = IF IsTerminal(s.tree[p[k]]) THEN s.fix ELSE 0
    /\ k > 1 /\ ~IsTerminal(s.tree[p[k]]) => Change(t, s.tree, p[k - 1]) = -(s.v + s.fix)
    /\ k = 1 => s.fix = 0
\* ... and at the leaf the value of a first visit; a repetition's is zero.
Firsts(t, p, k, s) ==
  k > 1 =>
    /\ t[p[1]].n = 0 /\ s.tree[p[1]].term = "no" => Change(t, s.tree, p[1]) = s.tree[p[1]].own
    /\ s.tree[p[1]].term = "twofold" => Change(t, s.tree, p[1]) = 0
\* Only the children of nodes that are done were moved.
Solids(t, p, k, s) ==
  \A y \in Game : s.tree[y].solid /\ ~t[y].solid =>
    SafeIn(s.tree, y) /\ \E j \in 1 .. Len(p) : j < k /\ y = p[j]

\* The next node of the way.
LEMMA NextIndex ==
  ASSUME NEW p, Way(p), NEW k \in 1 .. Len(p)
  PROVE  /\ k \in Nat /\ Len(p) \in Nat /\ p[k] \in Game
         /\ k < Len(p) => k + 1 \in 1 .. Len(p) /\ p[k] # p[k + 1] /\ p[k + 1] \in Game
         /\ \A j \in 1 .. Len(p) : j # k => p[j] # p[k]
         /\ k < Len(p) => \A j \in 1 .. Len(p) : j # k + 1 => p[j] # p[k + 1]
<1>1. Len(p) \in Nat /\ k \in Nat /\ \A i \in 1 .. Len(p) : p[i] \in Game
  BY DEF Way
<1>2. \A i, j \in 1 .. Len(p) : i # j => p[i] # p[j]
  <2>1. \A i, j \in 1 .. Len(p) : i < j => p[i] # p[j]
    BY DEF Way
  <2>2. SUFFICES ASSUME NEW i \in 1 .. Len(p), NEW j \in 1 .. Len(p), i # j PROVE p[i] # p[j]
    OBVIOUS
  <2>3. i < j \/ j < i
    BY <1>1, <2>2
  <2>. QED BY <2>1, <2>3
<1>3. k < Len(p) => k + 1 \in 1 .. Len(p) /\ k + 1 # k
  BY <1>1
<1>. QED BY <1>1, <1>2, <1>3

\* The nodes that a step leaves alone.
LEMMA StepOff ==
  ASSUME NEW p, Way(p), NEW k \in 1 .. Len(p), NEW s, NEW r, Stepped(p, k, s, r)
  PROVE  \A j \in 1 .. Len(p) : j # k /\ j # k + 1 => r.tree[p[j]] = s.tree[p[j]]
<1>1. SUFFICES ASSUME NEW j \in 1 .. Len(p), j # k, j # k + 1 PROVE r.tree[p[j]] = s.tree[p[j]]
  OBVIOUS
<1>2. p[j] # p[k] /\ (k < Len(p) => p[j] # p[k + 1])
  BY <1>1, NextIndex
<1>3. p[j] \in Game
  BY DEF Way
<1>. QED BY <1>2, <1>3 DEF Stepped

\* What is further up or off the way is as it was.
LEMMA OffStep ==
  ASSUME NEW t, NEW p, Way(p), NEW k \in 1 .. Len(p), NEW s, NEW r, Stepped(p, k, s, r), Off(t, p, k, s)
  PROVE  Off(t, p, k + 1, r)
<1>1. SUFFICES ASSUME NEW y \in Game, \A j \in 1 .. Len(p) : j <= k + 1 => y # p[j]
      PROVE  r.tree[y] = t[y]
  BY DEF Off
<1>2. /\ k \in Nat /\ k <= k + 1 /\ (k < Len(p) => k + 1 \in 1 .. Len(p))
      /\ \A j \in 1 .. Len(p) : j <= k => j <= k + 1
  BY NextIndex
<1>3. y # p[k] /\ (k < Len(p) => y # p[k + 1])
  BY <1>1, <1>2
<1>4. r.tree[y] = s.tree[y]
  BY <1>3 DEF Stepped
<1>5. s.tree[y] = t[y]
  BY <1>1, <1>2 DEF Off
<1>. QED BY <1>4, <1>5

\* The next node is as it was.
LEMMA NextIsOff ==
  ASSUME NEW t, NEW p, Way(p), NEW k \in 1 .. Len(p), k < Len(p), NEW s, Off(t, p, k, s)
  PROVE  s.tree[p[k + 1]] = t[p[k + 1]]
<1>1. /\ k + 1 \in 1 .. Len(p) /\ p[k + 1] \in Game
      /\ \A j \in 1 .. Len(p) : j # k + 1 => p[j] # p[k + 1]
  BY NextIndex
<1>2. \A j \in 1 .. Len(p) : j <= k => j # k + 1
  BY NextIndex
<1>. QED BY <1>1, <1>2 DEF Off

\* One more node is done.
LEMMA DoneStep ==
  ASSUME NEW t, NEW p, Way(p), NEW k \in 1 .. Len(p), NEW s, NEW r, Stepped(p, k, s, r),
         Done(t, p, k, s), Due(t, p, k, s)
  PROVE  Done(t, p, k + 1, r)
<1>1. SUFFICES ASSUME NEW j \in 1 .. Len(p), j < k + 1 PROVE VisitedOnce(t, r.tree, p[j])
  BY DEF Done
<1>2. k \in Nat /\ Len(p) \in Nat /\ k <= Len(p)
  BY NextIndex
<1>3. CASE j = k
  <2>1. Visited(s, r, p[k])
    BY DEF Stepped
  <2>2. VisitedOnce(t, r.tree, p[k])
    BY <1>2, <2>1 DEF Visited, Due, VisitedOnce
  <2>. QED BY <1>3, <2>2
<1>4. CASE j # k
  <2>1. j < k /\ j # k + 1
    BY <1>1, <1>2, <1>4
  <2>2. VisitedOnce(t, s.tree, p[j])
    BY <2>1 DEF Done
  <2>3. r.tree[p[j]] = s.tree[p[j]]
    BY <1>4, <2>1, StepOff
  <2>. QED BY <2>2, <2>3 DEF VisitedOnce
<1>. QED BY <1>3, <1>4

\* The next node is as it was, but for what was proved of it.
LEMMA DueStep ==
  ASSUME NEW t, NEW p, Way(p), NEW k \in 1 .. Len(p), NEW s, NEW r, Stepped(p, k, s, r), Off(t, p, k, s)
  PROVE  Due(t, p, k + 1, r)
<1>1. SUFFICES ASSUME k + 1 <= Len(p) PROVE Due(t, p, k + 1, r)
  BY DEF Due
<1>2. k < Len(p)
  BY <1>1, NextIndex
<1>3. Learns(s, r, p[k + 1])
  BY <1>2 DEF Stepped
<1>4. s.tree[p[k + 1]] = t[p[k + 1]]
  BY <1>2, NextIsOff
<1>. QED BY <1>3, <1>4 DEF Learns, Due

\* A step makes nothing terminal but a parent.
LEMMA TermsStep ==
  ASSUME NEW t, NEW p, Way(p), NEW k \in 1 .. Len(p), NEW s, NEW r, Stepped(p, k, s, r),
         Off(t, p, k, s), Terms(t, p, k, s)
  PROVE  Terms(t, p, k + 1, r)
<1>1. SUFFICES ASSUME NEW j \in 1 .. Len(p), j <= k + 1 PROVE TermKept(t, r.tree, p, j)
  BY DEF Terms
<1>2. k \in Nat /\ Len(p) \in Nat /\ k <= Len(p) /\ k >= 1 /\ j \in Nat
  BY NextIndex
<1>3. CASE j = k + 1
  <2>1. k < Len(p) /\ k + 1 # 1
    BY <1>1, <1>2, <1>3
  <2>2. Learns(s, r, p[k + 1])
    BY <2>1 DEF Stepped
  <2>3. s.tree[p[k + 1]] = t[p[k + 1]]
    BY <2>1, NextIsOff
  <2>4. TermKept(t, r.tree, p, k + 1)
    BY <2>1, <2>2, <2>3 DEF Learns, TermKept
  <2>. QED BY <1>3, <2>4
<1>4. CASE j # k + 1
  <2>1. j <= k
    BY <1>1, <1>2, <1>4
  <2>2. TermKept(t, s.tree, p, j)
    BY <2>1 DEF Terms
  <2>3. r.tree[p[j]].term = s.tree[p[j]].term
    <3>1. CASE j = k
      BY <3>1 DEF Stepped, Visited
    <3>2. CASE j # k
      BY <1>4, <3>2, StepOff
    <3>. QED BY <3>1, <3>2
  <2>. QED BY <2>2, <2>3 DEF TermKept
<1>. QED BY <1>3, <1>4

\* A step proves nothing that a full search would not find.
LEMMA ProvedStep ==
  ASSUME NEW t, NEW p, Way(p), NEW k \in 1 .. Len(p), NEW s, NEW r, Stepped(p, k, s, r),
         Off(t, p, k, s), Proved(p, k, s),
         \A y \in Subtree[head] \ {head} : Sound(t, y),
         \A j \in 2 .. Len(p) : p[j] \notin DOMAIN GameEnd /\ (p[j] # head => p[j] \notin RuleDraws)
  PROVE  Proved(p, k + 1, r)
<1>1. SUFFICES ASSUME NEW j \in 1 .. Len(p), j <= k + 1, p[j] # head PROVE Sound(r.tree, p[j])
  BY DEF Proved
<1>2. k \in Nat /\ Len(p) \in Nat /\ k <= Len(p) /\ k >= 1 /\ j \in Nat
  BY NextIndex
<1>3. CASE j = k + 1
  <2>1. k < Len(p) /\ k + 1 \in 2 .. Len(p) /\ k + 1 \in 1 .. Len(p)
    BY <1>1, <1>2, <1>3
  <2>2. Learns(s, r, p[k + 1])
    BY <2>1 DEF Stepped
  <2>3. s.tree[p[k + 1]] = t[p[k + 1]]
    BY <2>1, NextIsOff
  <2>4. p[k + 1] \notin DOMAIN GameEnd /\ p[k + 1] \notin RuleDraws /\ p[k + 1] # head
    BY <1>1, <1>3, <2>1
  <2>5. ASSUME NEW y \in Children(p[k + 1]) PROVE Sound(s.tree, y)
    <3>1. y \in Subtree[head] \ {head} /\ y \in Game
      BY <2>1 DEF Way
    <3>2. CASE \E i \in 1 .. Len(p) : i <= k /\ y = p[i]
      BY <3>1, <3>2 DEF Proved
    <3>3. CASE ~\E i \in 1 .. Len(p) : i <= k /\ y = p[i]
      <4>1. s.tree[y] = t[y]
        BY <3>1, <3>3 DEF Off
      <4>2. Sound(t, y)
        BY <3>1
      <4>. QED BY <4>1, <4>2 DEF Sound
    <3>. QED BY <3>2, <3>3
  <2>6. Sound(s.tree, p[k + 1])
    <3>1. p[k + 1] \in Subtree[head] \ {head}
      BY <2>1, <2>4 DEF Way
    <3>. QED BY <2>3, <3>1 DEF Sound
  <2>7. Sound(r.tree, p[k + 1])
    <3>1. CASE r.tree[p[k + 1]] = s.tree[p[k + 1]]
      BY <2>6, <3>1 DEF Sound
    <3>2. CASE r.tree[p[k + 1]] # s.tree[p[k + 1]]
      BY <2>2, <2>4, <2>5, <3>2 DEF Learns
    <3>. QED BY <3>1, <3>2
  <2>. QED BY <1>3, <2>7
<1>4. CASE j # k + 1
  <2>1. j <= k
    BY <1>1, <1>2, <1>4
  <2>2. Sound(s.tree, p[j])
    BY <1>1, <2>1 DEF Proved
  <2>3. r.tree[p[j]].lo = s.tree[p[j]].lo /\ r.tree[p[j]].up = s.tree[p[j]].up
    <3>1. CASE j = k
      BY <3>1 DEF Stepped, Visited
    <3>2. CASE j # k
      BY <1>4, <3>2, StepOff
    <3>. QED BY <3>1, <3>2
  <2>. QED BY <2>2, <2>3 DEF Sound
<1>. QED BY <1>3, <1>4

\* The types of what is added up.
LEMMA WorthType ==
  ASSUME NEW t \in [Game -> Node], NEW s \in Backups, NEW y \in Game
  PROVE  /\ s.tree[y].w \in Int /\ t[y].w \in Int /\ s.v \in Int /\ s.fix \in Int
         /\ Val(s.tree[y], s.v) \in Int /\ Change(t, s.tree, y) \in Int
         /\ s.tree[y] \in Node /\ t[y] \in Node
<1>1. s.tree[y] \in Node /\ t[y] \in Node /\ s.v \in -1 .. 1 /\ s.fix \in Int
  BY DEF Backups
<1>2. Val(s.tree[y], s.v) \in -1 .. 1
  BY <1>1, ValType
<1>3. s.tree[y].w \in Int /\ t[y].w \in Int
  BY <1>1, NodeType
<1>. QED BY <1>1, <1>2, <1>3 DEF Change

\* What a step adds to the sum of the node it visits.
LEMMA StepAdds ==
  ASSUME NEW t \in [Game -> Node], NEW p, Way(p), NEW k \in 1 .. Len(p), NEW s \in Backups, NEW r,
         Stepped(p, k, s, r), Arrives(t, p, k, s)
  PROVE  /\ Change(t, r.tree, p[k]) = Val(s.tree[p[k]], s.v) + s.fix
         /\ r.tree[p[k]].term = s.tree[p[k]].term
<1>. DEFINE q == p[k]
            a == Val(s.tree[q], s.v)
<1>1. q \in Game /\ k <= Len(p) /\ r \in Backups
  BY NextIndex DEF Stepped
<1>2. /\ r.tree[q].w = s.tree[q].w + a + (IF IsTerminal(s.tree[q]) THEN 0 ELSE s.fix)
      /\ r.tree[q].term = s.tree[q].term
  BY DEF Stepped, Visited
<1>3. s.tree[q].w - t[q].w = IF IsTerminal(s.tree[q]) THEN s.fix ELSE 0
  BY <1>1 DEF Arrives, Change
<1>4. s.tree[q].w \in Int /\ t[q].w \in Int /\ s.fix \in Int /\ a \in Int
  BY <1>1, WorthType
<1>. DEFINE after == r.tree[q].w
            before == s.tree[q].w
            first == t[q].w
            fix == s.fix
<1>. HIDE DEF q, a
<1>5. after - first = a + fix
  <2>1. CASE IsTerminal(s.tree[q])
    <3>1. after = before + a + 0 /\ before - first = fix
      BY <1>2, <1>3, <2>1
    <3>2. before \in Int /\ first \in Int /\ fix \in Int /\ a \in Int
      BY <1>4
    <3>. HIDE DEF after, before, first, fix
    <3>. QED BY ONLY <3>1, <3>2
  <2>2. CASE ~IsTerminal(s.tree[q])
    <3>1. after = before + a + fix /\ before - first = 0
      BY <1>2, <1>3, <2>2
    <3>2. before \in Int /\ first \in Int /\ fix \in Int /\ a \in Int
      BY <1>4
    <3>. HIDE DEF after, before, first, fix
    <3>. QED BY ONLY <3>1, <3>2
  <2>. QED BY <2>1, <2>2
<1>. QED BY <1>2, <1>5 DEF Change, q, a

\* A node's sum has changed by the opposite of what its child's has.
LEMMA TurnsStep ==
  ASSUME NEW t \in [Game -> Node], NEW p, Way(p), NEW k \in 1 .. Len(p), NEW s \in Backups, NEW r,
         Stepped(p, k, s, r), Arrives(t, p, k, s), Turns(t, p, k, s)
  PROVE  Turns(t, p, k + 1, r)
<1>1. SUFFICES ASSUME NEW j \in 2 .. Len(p), j < k + 1, r.tree[p[j]].term = "no"
      PROVE  Change(t, r.tree, p[j]) = -Change(t, r.tree, p[j - 1])
  BY DEF Turns
<1>2. /\ k \in Nat /\ Len(p) \in Nat /\ k <= Len(p) /\ j \in Nat /\ j \in 1 .. Len(p)
      /\ j - 1 \in 1 .. Len(p) /\ j - 1 # k /\ j - 1 # k + 1 /\ j # k + 1
  BY <1>1, NextIndex
<1>3. r.tree[p[j - 1]] = s.tree[p[j - 1]]
  BY <1>2, StepOff
<1>4. CASE j = k
  <2>1. k > 1 /\ k <= Len(p)
    BY <1>2, <1>4
  <2>2. Change(t, r.tree, p[k]) = Val(s.tree[p[k]], s.v) + s.fix /\ s.tree[p[k]].term = "no"
    BY <1>1, <1>4, StepAdds
  <2>3. Val(s.tree[p[k]], s.v) = s.v /\ ~IsTerminal(s.tree[p[k]])
    BY <2>2 DEF Val, IsTerminal
  <2>4. Change(t, s.tree, p[k - 1]) = -(s.v + s.fix)
    BY <2>1, <2>3 DEF Arrives
  <2>5. s.v \in Int /\ s.fix \in Int
    BY DEF Backups
  <2>6. Change(t, r.tree, p[k - 1]) = Change(t, s.tree, p[k - 1])
    BY <1>3, <1>4 DEF Change
  <2>7. Change(t, r.tree, p[k]) = s.v + s.fix
    BY <2>2, <2>3
  <2>8. Change(t, r.tree, p[k]) = -Change(t, r.tree, p[k - 1])
    BY <2>4, <2>5, <2>6, <2>7
  <2>. QED BY <1>4, <2>8
<1>5. CASE j # k
  <2>1. j < k
    BY <1>1, <1>2, <1>5
  <2>2. r.tree[p[j]] = s.tree[p[j]]
    BY <1>2, <1>5, StepOff
  <2>3. Change(t, s.tree, p[j]) = -Change(t, s.tree, p[j - 1])
    BY <1>1, <2>1, <2>2 DEF Turns
  <2>. QED BY <1>3, <2>2, <2>3 DEF Change
<1>. QED BY <1>4, <1>5

\* What arrives at a node is the opposite of the change at its child.
LEMMA ArrivesStep ==
  ASSUME NEW t \in [Game -> Node], NEW p, Way(p), NEW k \in 1 .. Len(p), NEW s \in Backups, NEW r,
         Stepped(p, k, s, r), Arrives(t, p, k, s), Off(t, p, k, s)
  PROVE  Arrives(t, p, k + 1, r)
<1>. DEFINE a == p[k + 1]
            d == Val(s.tree[p[k]], s.v)
<1>1. SUFFICES ASSUME k + 1 <= Len(p) PROVE Arrives(t, p, k + 1, r)
  BY DEF Arrives
<1>2. k < Len(p) /\ k \in Nat /\ k >= 1 /\ k + 1 # 1 /\ k + 1 - 1 = k /\ a \in Game /\ p[k] \in Game
  BY <1>1, NextIndex
<1>3. Learns(s, r, a) /\ r.v = -d /\ r \in Backups
  BY <1>2 DEF Stepped
<1>4. s.tree[a] = t[a]
  BY <1>2, NextIsOff
<1>5. Change(t, r.tree, p[k]) = d + s.fix
  BY StepAdds
<1>6. d \in Int /\ s.fix \in Int /\ t[a].w \in Int /\ r.tree[a].w \in Int
  BY <1>2, <1>3, WorthType
<1>. HIDE DEF a, d
<1>7. /\ r.tree[a].w - t[a].w = IF IsTerminal(r.tree[a]) THEN r.fix ELSE 0
      /\ ~IsTerminal(r.tree[a]) => r.fix = -s.fix
  <2>1. CASE r.tree[a] = s.tree[a] /\ r.fix = IF IsTerminal(s.tree[a]) THEN 0 ELSE -s.fix
    BY <1>4, <1>6, <2>1
  <2>2. CASE ~(r.tree[a] = s.tree[a] /\ r.fix = IF IsTerminal(s.tree[a]) THEN 0 ELSE -s.fix)
    <3>1. \/ r.tree[a].term = "no" /\ r.tree[a].w = s.tree[a].w /\ r.fix = -s.fix
          \/ r.tree[a].term = "end" /\ r.fix = r.tree[a].w - s.tree[a].w
      BY <1>3, <2>2 DEF Learns
    <3>2. CASE r.tree[a].term = "no" /\ r.tree[a].w = s.tree[a].w /\ r.fix = -s.fix
      BY <1>4, <1>6, <3>2 DEF IsTerminal
    <3>3. CASE r.tree[a].term = "end" /\ r.fix = r.tree[a].w - s.tree[a].w
      BY <1>4, <1>6, <3>3 DEF IsTerminal
    <3>. QED BY <3>1, <3>2, <3>3
  <2>. QED BY <2>1, <2>2
<1>8. ~IsTerminal(r.tree[a]) => Change(t, r.tree, p[k]) = -(r.v + r.fix)
  BY <1>3, <1>5, <1>6, <1>7
<1>9. ~IsTerminal(r.tree[a]) => Change(t, r.tree, p[k + 1 - 1]) = -(r.v + r.fix)
  BY <1>2, <1>8
<1>10. Change(t, r.tree, a) = IF IsTerminal(r.tree[a]) THEN r.fix ELSE 0
  BY <1>7 DEF Change
<1>. QED BY <1>2, <1>9, <1>10 DEF Arrives, a

\* The leaf's sum has changed by its value, if that was its first visit.
LEMMA FirstsStep ==
  ASSUME NEW t \in [Game -> Node], NEW p, Way(p), NEW k \in 1 .. Len(p), NEW s \in Backups, NEW r,
         Stepped(p, k, s, r), Arrives(t, p, k, s), Due(t, p, k, s), Firsts(t, p, k, s)
  PROVE  Firsts(t, p, k + 1, r)
<1>1. k \in Nat /\ Len(p) \in Nat /\ 1 <= Len(p) /\ 1 \in 1 .. Len(p) /\ p[1] \in Game
  BY NextIndex DEF Way
<1>2. CASE k = 1
  <2>1. /\ Change(t, r.tree, p[1]) = Val(s.tree[p[1]], s.v) + s.fix
        /\ r.tree[p[1]].term = s.tree[p[1]].term
    BY <1>2, StepAdds
  <2>2. s.fix = 0 /\ s.tree[p[1]].n = t[p[1]].n
    BY <1>1, <1>2 DEF Arrives, Due
  <2>3. r.tree[p[1]].own = IF s.tree[p[1]].n = 0 THEN Val(s.tree[p[1]], s.v) ELSE s.tree[p[1]].own
    BY <1>2 DEF Stepped, Visited
  <2>4. Val(s.tree[p[1]], s.v) \in Int
    BY <1>1, WorthType
  <2>5. s.tree[p[1]].term = "twofold" => Val(s.tree[p[1]], s.v) = 0
    BY DEF Val, IsTerminal, TerminalValue
  <2>6. Change(t, r.tree, p[1]) = Val(s.tree[p[1]], s.v)
    BY <2>1, <2>2, <2>4
  <2>. QED BY <2>1, <2>2, <2>3, <2>5, <2>6 DEF Firsts
<1>3. CASE k # 1
  <2>1. k > 1 /\ 1 # k /\ 1 # k + 1
    BY <1>1, <1>3
  <2>2. r.tree[p[1]] = s.tree[p[1]]
    BY <1>1, <2>1, StepOff
  <2>. QED BY <2>1, <2>2 DEF Firsts, Change
<1>. QED BY <1>2, <1>3

\* A step moves the children of its node only, and only if that is safe.
LEMMA SolidsStep ==
  ASSUME NEW t \in [Game -> Node], NEW p, Way(p), NEW k \in 1 .. Len(p), NEW s \in Backups, NEW r,
         Stepped(p, k, s, r), Due(t, p, k, s), Off(t, p, k, s), Solids(t, p, k, s)
  PROVE  Solids(t, p, k + 1, r)
<1>1. SUFFICES ASSUME NEW y \in Game, r.tree[y].solid, ~t[y].solid
      PROVE  SafeIn(r.tree, y) /\ \E j \in 1 .. Len(p) : j < k + 1 /\ y = p[j]
  BY DEF Solids
<1>2. k \in Nat /\ Len(p) \in Nat /\ k <= Len(p) /\ k < k + 1
  BY NextIndex
<1>3. CASE y = p[k]
  <2>1. ~s.tree[p[k]].solid
    BY <1>1, <1>2, <1>3 DEF Due
  <2>2. SafeIn(r.tree, p[k])
    BY <1>1, <1>3, <2>1 DEF Stepped, Visited
  <2>. QED BY <1>2, <1>3, <2>2
<1>4. CASE y # p[k] /\ k < Len(p) /\ y = p[k + 1]
  <2>1. r.tree[p[k + 1]].solid = s.tree[p[k + 1]].solid
    BY <1>4 DEF Stepped, Learns
  <2>2. s.tree[p[k + 1]] = t[p[k + 1]]
    BY <1>4, NextIsOff
  <2>. QED BY <1>1, <1>4, <2>1, <2>2
<1>5. CASE y # p[k] /\ (k < Len(p) => y # p[k + 1])
  <2>1. r.tree[y] = s.tree[y]
    BY <1>5 DEF Stepped
  <2>2. SafeIn(s.tree, y) /\ \E j \in 1 .. Len(p) : j < k /\ y = p[j]
    BY <1>1, <2>1 DEF Solids
  <2>3. PICK j \in 1 .. Len(p) : j < k /\ y = p[j]
    BY <2>2
  <2>4. p[j] \in Game /\ p[j] \in Nodes /\ Children(p[j]) \subseteq Game
    BY DEF Way
  <2>5. \A c \in Children(y) : r.tree[c] = s.tree[c]
    <3>1. p[k] \notin Children(p[j])
      BY <2>3 DEF Way
    <3>2. k < Len(p) => k + 1 \in 1 .. Len(p) /\ j < k + 1
      BY <1>2, <2>3
    <3>3. k < Len(p) => p[k + 1] \notin Children(p[j])
      BY <2>3, <3>2 DEF Way
    <3>. QED BY <2>3, <2>4, <3>1, <3>3 DEF Stepped
  <2>6. SafeIn(r.tree, y)
    BY <2>1, <2>2, <2>3, <2>4, <2>5, SafeSame
  <2>7. j < k + 1
    BY <1>2, <2>3
  <2>. QED BY <2>3, <2>6, <2>7
<1>. QED BY <1>3, <1>4, <1>5

-----------------------------------------------------------------------------
(* All of the way up: what BackedUp does.                                  *)

Start(t, x) == [tree |-> t, v |-> EvalOf[x], fix |-> 0, bounds |-> IsTerminal(t[x]) /\ t[x].n = 0]
IsWayUp(t, x, p, g) ==
  g = [i \in 0 .. Len(p) |-> IF i = 0 THEN Start(t, x) ELSE BackupNode(g[i - 1], p[i])]

\* BackedUp takes the steps of the way up, one after the other.
LEMMA WayUpExists ==
  ASSUME IsTree(tree, head), head \in Nodes, NEW x \in Subtree[head], NEW p, p = PathTo(head)[x]
  PROVE  \E g : /\ g[0] = Start(tree, x) /\ \A i \in 1 .. Len(p) : g[i] = BackupNode(g[i - 1], p[i])
                /\ BackedUp(tree, x) = g[Len(p)].tree
<1>. DEFINE N == Len(p)
            A == Backups
            f == [i \in 1 .. N |-> [s \in A |-> BackupNode(s, p[i])]]
            a == Start(tree, x)
<1>1. Way(p) /\ N \in Nat
  BY WayIs DEF Way
<1>2. a \in A
  <2>1. EvalOf[x] \in -1 .. 1 /\ x \in Game
    BY TreeAssumption, InSubtree DEF IsTree, Game
  <2>2. (IsTerminal(tree[x]) /\ tree[x].n = 0) \in BOOLEAN
    OBVIOUS
  <2>3. tree \in [Game -> Node]
    BY DEF IsTree, Game
  <2>. QED BY <2>1, <2>2, <2>3 DEF Start, Backups
<1>3. \A i \in 1 .. N : \A s \in A : BackupNode(s, p[i]) \in A
  BY <1>1, StepIs DEF Stepped
<1>4. PICK g \in [0 .. N -> A] : g[0] = a /\ \A i \in 1 .. N : g[i] = f[i][g[i - 1]]
  <2>1. Closed(f, N, A)
    BY <1>3 DEF Closed
  <2>. HIDE DEF f, N, A, a
  <2>2. \E g \in [0 .. N -> A] : g[0] = a /\ \A i \in 1 .. N : g[i] = f[i][g[i - 1]]
    BY <1>1, <1>2, <2>1, StepByStep
  <2>. QED BY <2>2
<1>5. \A i \in 1 .. N : g[i] = BackupNode(g[i - 1], p[i])
  <2>. SUFFICES ASSUME NEW i \in 1 .. N PROVE g[i] = BackupNode(g[i - 1], p[i])
    OBVIOUS
  <2>1. g[i] = f[i][g[i - 1]] /\ g[i - 1] \in A
    <3>1. i - 1 \in 0 .. N
      BY <1>1
    <3>. HIDE DEF f, N, A
    <3>. QED BY <1>4, <3>1
  <2>. HIDE DEF A
  <2>. QED BY <2>1
<1>6. g = [i \in 0 .. N |-> IF i = 0 THEN a ELSE BackupNode(g[i - 1], p[i])]
  <2>1. \A i \in 0 .. N : g[i] = IF i = 0 THEN a ELSE BackupNode(g[i - 1], p[i])
    <3>1. g[0] = a /\ \A i \in 0 .. N : i = 0 \/ i \in 1 .. N
      BY <1>1, <1>4
    <3>. HIDE DEF N, a
    <3>. QED BY <1>5, <3>1
  <2>2. g = [i \in 0 .. N |-> g[i]]
    OBVIOUS
  <2>3. [i \in 0 .. N |-> g[i]] = [i \in 0 .. N |-> IF i = 0 THEN a ELSE BackupNode(g[i - 1], p[i])]
    BY <2>1
  <2>. QED BY <2>2, <2>3
<1>7. IsWayUp(tree, x, p, g)
  BY <1>6 DEF IsWayUp
<1>8. BackedUp(tree, x) = (CHOOSE k : IsWayUp(tree, x, p, k))[Len(p)].tree
  <2>1. PathFrom[x] = p
    BY PathFromIs
  <2>. QED BY <2>1 DEF BackedUp, IsWayUp, Start
<1>. DEFINE k == CHOOSE kk : IsWayUp(tree, x, p, kk)
<1>9. IsWayUp(tree, x, p, k)
  BY <1>7
<1>. HIDE DEF k
<1>10. k = [i \in 0 .. Len(p) |-> IF i = 0 THEN Start(tree, x) ELSE BackupNode(k[i - 1], p[i])]
  BY <1>9, Zenon DEF IsWayUp
<1>11. \A i \in 0 .. N : k[i] = IF i = 0 THEN Start(tree, x) ELSE BackupNode(k[i - 1], p[i])
  BY <1>10, Zenon
<1>12. k[0] = Start(tree, x) /\ \A i \in 1 .. N : k[i] = BackupNode(k[i - 1], p[i])
  BY <1>1, <1>11
<1>13. BackedUp(tree, x) = k[Len(p)].tree
  BY <1>8 DEF k
<1>. QED BY <1>12, <1>13

\* What the steps have done so far.
WayAt(t, p, k, s) ==
  /\ s \in Backups /\ Off(t, p, k, s) /\ Done(t, p, k, s) /\ Due(t, p, k, s) /\ Terms(t, p, k, s)
  /\ Proved(p, k, s) /\ Turns(t, p, k, s) /\ Arrives(t, p, k, s) /\ Firsts(t, p, k, s)
  /\ Solids(t, p, k, s)

\* What is so before the first step.
LEMMA WayBegins ==
  ASSUME IsTree(tree, head), head \in Nodes, NEW x \in Subtree[head], NEW p, Way(p), p[1] = x,
         \A y \in Subtree[head] \ {head} : Sound(tree, y),
         NEW s, s = Start(tree, x)
  PROVE  WayAt(tree, p, 1, s)
<1>1. s.tree = tree /\ s.fix = 0 /\ Len(p) \in Nat \ {0} /\ 1 \in 1 .. Len(p) /\ p[1] \in Game
      /\ \A j \in 1 .. Len(p) : (j <= 1 => j = 1) /\ ~(j < 1)
  BY DEF Way, Start
<1>2. s \in Backups
  <2>1. EvalOf[x] \in -1 .. 1
    BY TreeAssumption, InSubtree
  <2>2. (IsTerminal(tree[x]) /\ tree[x].n = 0) \in BOOLEAN
    OBVIOUS
  <2>3. tree \in [Game -> Node]
    BY DEF IsTree, Game
  <2>. QED BY <2>1, <2>2, <2>3 DEF Start, Backups
<1>3. tree[p[1]].w \in Int
  BY <1>1, NodeType DEF IsTree, Game
<1>4. Off(tree, p, 1, s) /\ Done(tree, p, 1, s) /\ Due(tree, p, 1, s) /\ Terms(tree, p, 1, s)
  BY <1>1 DEF Off, Done, Due, Terms, TermKept
<1>5. Proved(p, 1, s)
  BY <1>1 DEF Proved
<1>6. Turns(tree, p, 1, s) /\ Firsts(tree, p, 1, s) /\ Solids(tree, p, 1, s)
  <2>1. \A j \in 2 .. Len(p) : ~(j < 1)
    OBVIOUS
  <2>. QED BY <1>1, <2>1 DEF Turns, Firsts, Solids
<1>7. Arrives(tree, p, 1, s)
  <2>1. Change(tree, s.tree, p[1]) = 0
    BY <1>1, <1>3 DEF Change
  <2>. QED BY <1>1, <2>1 DEF Arrives
<1>. QED BY <1>2, <1>4, <1>5, <1>6, <1>7 DEF WayAt

\* What is so after each step.
LEMMA WayGoes ==
  ASSUME NEW t \in [Game -> Node], NEW p, Way(p), NEW k \in 1 .. Len(p), NEW s, NEW r,
         WayAt(t, p, k, s), r = BackupNode(s, p[k]),
         \A y \in Subtree[head] \ {head} : Sound(t, y),
         \A j \in 2 .. Len(p) : p[j] \notin DOMAIN GameEnd /\ (p[j] # head => p[j] \notin RuleDraws)
  PROVE  WayAt(t, p, k + 1, r)
<1>1. /\ s \in Backups /\ Off(t, p, k, s) /\ Done(t, p, k, s) /\ Due(t, p, k, s)
      /\ Terms(t, p, k, s)
      /\ Proved(p, k, s) /\ Turns(t, p, k, s) /\ Arrives(t, p, k, s) /\ Firsts(t, p, k, s)
      /\ Solids(t, p, k, s)
  BY DEF WayAt
<1>2. Stepped(p, k, s, r)
  BY <1>1, StepIs
<1>3. r \in Backups
  BY <1>2 DEF Stepped
<1>4. Off(t, p, k + 1, r) /\ Done(t, p, k + 1, r) /\ Due(t, p, k + 1, r) /\ Terms(t, p, k + 1, r)
  BY <1>1, <1>2, OffStep, DoneStep, DueStep, TermsStep
<1>5. Proved(p, k + 1, r)
  BY <1>1, <1>2, ProvedStep
<1>6. Turns(t, p, k + 1, r) /\ Arrives(t, p, k + 1, r)
  BY <1>1, <1>2, TurnsStep, ArrivesStep
<1>7. Firsts(t, p, k + 1, r) /\ Solids(t, p, k + 1, r)
  BY <1>1, <1>2, FirstsStep, SolidsStep
<1>. QED BY <1>3, <1>4, <1>5, <1>6, <1>7 DEF WayAt

\* What is so after the last step.
LEMMA WayEnds ==
  ASSUME IsTree(tree, head), head \in Nodes, NEW x \in Subtree[head], NEW p, p = PathTo(head)[x],
         \A y \in Subtree[head] \ {head} : Sound(tree, y),
         \A j \in 2 .. Len(p) : p[j] \notin DOMAIN GameEnd /\ (p[j] # head => p[j] \notin RuleDraws)
  PROVE  \E s : WayAt(tree, p, Len(p) + 1, s) /\ BackedUp(tree, x) = s.tree
<1>1. Way(p) /\ p[1] = x /\ Len(p) \in Nat \ {0}
  BY WayIs DEF Way
<1>2. PICK g : /\ g[0] = Start(tree, x) /\ \A i \in 1 .. Len(p) : g[i] = BackupNode(g[i - 1], p[i])
               /\ BackedUp(tree, x) = g[Len(p)].tree
  BY WayUpExists
<1>3. tree \in [Game -> Node]
  BY DEF IsTree, Game
<1>. DEFINE Q == {n \in Nat : n <= Len(p) => WayAt(tree, p, n + 1, g[n])}
<1>4. 0 \in Q
  <2>1. WayAt(tree, p, 1, g[0])
    BY <1>1, <1>2, WayBegins
  <2>. QED BY <2>1
<1>5. ASSUME NEW n \in Nat, n \in Q PROVE n + 1 \in Q
  <2>. SUFFICES ASSUME n + 1 <= Len(p) PROVE WayAt(tree, p, n + 1 + 1, g[n + 1])
    OBVIOUS
  <2>. DEFINE k == n + 1
  <2>1. k \in 1 .. Len(p) /\ k - 1 = n /\ n <= Len(p)
    BY <1>1
  <2>2. WayAt(tree, p, k, g[n])
    BY <1>5, <2>1
  <2>3. g[k] = BackupNode(g[n], p[k])
    BY <1>2, <2>1
  <2>. HIDE DEF k
  <2>4. WayAt(tree, p, k + 1, g[k])
    BY <1>1, <1>3, <2>1, <2>2, <2>3, WayGoes
  <2>. QED BY <2>4 DEF k
<1>. HIDE DEF Q
<1>6. Nat \subseteq Q
  BY <1>4, <1>5, Counting
<1>7. WayAt(tree, p, Len(p) + 1, g[Len(p)])
  BY <1>1, <1>6 DEF Q
<1>. QED BY <1>2, <1>7

OnWay(h, x, y) == y = x \/ y \in AboveTo(h, x)

\* What backing up the node x makes of the tree t.
Turned(t, u, h, x) ==
  \A y \in AboveTo(h, x) : u[y].term = "no" =>
    \E c \in Children(y) : OnWay(h, x, c) /\ Change(t, u, y) = -Change(t, u, c)
IsBackedUp(t, u, h, x) ==
  /\ u \in [DOMAIN t -> Node]
  /\ \A y \in DOMAIN t : ~OnWay(h, x, y) => u[y] = t[y]
  /\ \A y : OnWay(h, x, y) => VisitedOnce(t, u, y)
  /\ u[x].term = t[x].term
  /\ \A y \in AboveTo(h, x) :
       u[y].term = t[y].term \/ (y # h /\ t[y].term = "no" /\ u[y].term = "end")
  /\ \A y \in Subtree[h] \ {h} : Sound(u, y)
  /\ Turned(t, u, h, x)
  /\ t[x].n = 0 /\ u[x].term = "no" => Change(t, u, x) = u[x].own
  /\ u[x].term = "twofold" => Change(t, u, x) = 0

\* BackedUp gives each node on the way one visit and takes one flight.
LEMMA BackedUpIs ==
  ASSUME IsTree(tree, head), head \in Nodes, NEW x \in Subtree[head], TreeHolds(tree, head),
         Reached(tree, head, x), NEW u, u = BackedUp(tree, x)
  PROVE  /\ IsBackedUp(tree, u, head, x)
         /\ \A y \in Game : u[y].solid /\ ~tree[y].solid => SafeIn(u, y)
<1>. DEFINE p == PathTo(head)[x]
            L == Len(p)
<1>1. Way(p) /\ p[1] = x /\ L \in Nat \ {0}
  BY WayIs DEF Way
<1>2. AboveTo(head, x) = {p[i] : i \in 2 .. L} /\ AboveTo(head, x) \cup {x} = {p[i] : i \in 1 .. L}
  <2>1. p = PathTo(head)[x]
    OBVIOUS
  <2>. HIDE DEF p
  <2>. QED BY ONLY head \in Nodes, x \in Subtree[head], <2>1, PathIs
<1>3. \A y \in Subtree[head] \ {head} : Sound(tree, y)
  BY DEF TreeHolds
<1>4. \A j \in 2 .. L : p[j] \notin DOMAIN GameEnd /\ (p[j] # head => p[j] \notin RuleDraws)
  BY <1>2 DEF Reached, Expanded
<1>5. PICK s : WayAt(tree, p, L + 1, s) /\ BackedUp(tree, x) = s.tree
  BY <1>3, <1>4, WayEnds
<1>6. /\ s \in Backups /\ Off(tree, p, L + 1, s) /\ Done(tree, p, L + 1, s)
      /\ Terms(tree, p, L + 1, s)
      /\ Proved(p, L + 1, s) /\ Turns(tree, p, L + 1, s) /\ Firsts(tree, p, L + 1, s)
      /\ Solids(tree, p, L + 1, s) /\ u = s.tree
  BY <1>5 DEF WayAt
<1>7. \A y : OnWay(head, x, y) <=> \E i \in 1 .. L : y = p[i]
  BY <1>2 DEF OnWay
<1>. HIDE DEF p
<1>8. L + 1 > 1 /\ \A j \in 1 .. L : j < L + 1 /\ j <= L + 1
  BY <1>1
<1>9. u \in [DOMAIN tree -> Node]
  BY <1>6 DEF Backups, Game
<1>10. \A y \in DOMAIN tree : ~OnWay(head, x, y) => u[y] = tree[y]
  BY <1>6, <1>7 DEF Off, Game
<1>11. \A y : OnWay(head, x, y) => VisitedOnce(tree, u, y)
  BY <1>6, <1>7, <1>8 DEF Done
<1>12. u[x].term = tree[x].term
  <2>1. TermKept(tree, u, p, 1)
    BY <1>1, <1>6, <1>8 DEF Terms
  <2>. QED BY <1>1, <2>1 DEF TermKept
<1>13. \A y \in AboveTo(head, x) :
         u[y].term = tree[y].term \/ (y # head /\ tree[y].term = "no" /\ u[y].term = "end")
  <2>1. SUFFICES ASSUME NEW y \in AboveTo(head, x)
        PROVE  u[y].term = tree[y].term \/ (y # head /\ tree[y].term = "no" /\ u[y].term = "end")
    OBVIOUS
  <2>2. PICK j \in 1 .. L : y = p[j]
    BY <1>7 DEF OnWay
  <2>3. TermKept(tree, u, p, j)
    BY <1>6, <1>8 DEF Terms
  <2>. QED BY <2>2, <2>3 DEF TermKept
<1>14. \A y \in Subtree[head] \ {head} : Sound(u, y)
  <2>1. SUFFICES ASSUME NEW y \in Subtree[head] \ {head} PROVE Sound(u, y)
    OBVIOUS
  <2>2. CASE OnWay(head, x, y)
    BY <1>6, <1>7, <1>8, <2>2 DEF Proved
  <2>3. CASE ~OnWay(head, x, y)
    <3>1. u[y] = tree[y]
      BY <1>10, <2>3 DEF IsTree
    <3>. QED BY <1>3, <3>1 DEF Sound
  <2>. QED BY <2>2, <2>3
<1>15. Turned(tree, u, head, x)
  <2>1. SUFFICES ASSUME NEW y \in AboveTo(head, x), u[y].term = "no"
        PROVE  \E c \in Children(y) : OnWay(head, x, c) /\ Change(tree, u, y) = -Change(tree, u, c)
    BY DEF Turned
  <2>2. PICK j \in 2 .. L : y = p[j]
    BY <1>2
  <2>3. j - 1 \in 1 .. L - 1 /\ j - 1 \in 1 .. L /\ j - 1 + 1 = j /\ j < L + 1
    BY <1>1
  <2>4. p[j - 1] \in Children(p[j - 1 + 1])
    BY <1>1, <2>3 DEF Way
  <2>5. OnWay(head, x, p[j - 1])
    BY <1>7, <2>3
  <2>6. Change(tree, u, p[j]) = -Change(tree, u, p[j - 1])
    BY <1>6, <2>1, <2>2, <2>3 DEF Turns
  <2>. QED BY <2>2, <2>3, <2>4, <2>5, <2>6
<1>16. /\ tree[x].n = 0 /\ u[x].term = "no" => Change(tree, u, x) = u[x].own
       /\ u[x].term = "twofold" => Change(tree, u, x) = 0
  BY <1>1, <1>6, <1>8 DEF Firsts
<1>17. \A y \in Game : u[y].solid /\ ~tree[y].solid => SafeIn(u, y)
  BY <1>6 DEF Solids
<1>. QED BY <1>9, <1>10, <1>11, <1>12, <1>13, <1>14, <1>15, <1>16, <1>17 DEF IsBackedUp

\* A node by node account of what backing up x changes.
LEMMA BackedNodes ==
  ASSUME NEW h \in Nodes, NEW t, IsTree(t, h), NEW x \in Subtree[h], TreeHolds(t, h),
         Reached(t, h, x), Ends(t, x), NEW u, IsBackedUp(t, u, h, x)
  PROVE  /\ IsTree(u, h) /\ OnTheWay(t, u, h, x, 1)
         /\ \A y \in Subtree[h] : /\ Expanded(t, h, y) => Expanded(u, h, y)
                                  /\ IsTerminal(t[y]) => IsTerminal(u[y])
                                  /\ u[y].term = "no" => t[y].term = "no"
                                  /\ u[y].term = "twofold" <=> t[y].term = "twofold"
                                  /\ u[y].n = 0 => t[y].n = 0
<1>1. /\ \A y \in Subtree[h] : y \in DOMAIN t /\ t[y].n \in Nat
      /\ AboveTo(h, x) \subseteq Subtree[h] /\ x \notin AboveTo(h, x)
  BY AboveIn, NodeType DEF IsTree
<1>2. IsTree(u, h)
  BY DEF IsTree, IsBackedUp
<1>3. ASSUME NEW y \in Subtree[h]
      PROVE  u[y].n = IF y = x \/ y \in AboveTo(h, x) THEN t[y].n + 1 ELSE t[y].n
  <2>1. CASE OnWay(h, x, y)
    BY <2>1 DEF OnWay, IsBackedUp, VisitedOnce
  <2>2. CASE ~OnWay(h, x, y)
    <3>1. u[y] = t[y]
      BY <1>1, <2>2 DEF IsBackedUp
    <3>. QED BY <2>2, <3>1 DEF OnWay
  <2>. QED BY <2>1, <2>2
<1>4. ASSUME NEW y \in Subtree[h]
      PROVE  u[y].term = t[y].term \/ (t[y].term = "no" /\ u[y].term = "end")
  <2>1. CASE y = x
    BY <2>1 DEF IsBackedUp
  <2>2. CASE y \in AboveTo(h, x)
    BY <2>2 DEF IsBackedUp
  <2>3. CASE y # x /\ y \notin AboveTo(h, x)
    BY <1>1, <2>3 DEF IsBackedUp, OnWay
  <2>. QED BY <2>1, <2>2, <2>3
<1>5. ASSUME NEW y \in Subtree[h]
      PROVE  /\ Expanded(t, h, y) => Expanded(u, h, y)
             /\ IsTerminal(t[y]) => IsTerminal(u[y])
             /\ u[y].term = "no" => t[y].term = "no"
             /\ u[y].term = "twofold" <=> t[y].term = "twofold"
             /\ u[y].n = 0 => t[y].n = 0
  <2>1. (t[y].n > 0 => u[y].n > 0) /\ (u[y].n = 0 => t[y].n = 0)
    <3>1. t[y].n \in Nat /\ (u[y].n = t[y].n \/ u[y].n = t[y].n + 1)
      BY <1>1, <1>3
    <3>. QED BY <3>1
  <2>. QED BY <1>4, <2>1 DEF Expanded, IsTerminal
<1>6. OnTheWay(t, u, h, x, 1)
  BY <1>3 DEF OnTheWay
<1>. QED BY <1>2, <1>5, <1>6

\* A tree holds after a visit is backed up.
LEMMA BackedTree ==
  ASSUME NEW h \in Nodes, NEW t, IsTree(t, h), NEW x \in Subtree[h], TreeHolds(t, h),
         Reached(t, h, x), Ends(t, x), ~StaleAt(t, h, x), Extended(t, h, x),
         NEW u, IsBackedUp(t, u, h, x)
  PROVE  /\ IsTree(u, h) /\ TreeHolds(u, h) /\ Found(u, h) = Found(t, h) /\ u[h].n = t[h].n + 1
         /\ \A y \in Subtree[h] : u[y].n = 0 => t[y].n = 0
         /\ \A e : EntryHolds(t, h, e) /\ (e.node = x /\ ~IsCollision(e) => t[x].n # 0) => EntryHolds(u, h, e)
         /\ \A y \in Subtree[h] : u[y].flight = t[y].flight - IF y = x \/ y \in AboveTo(h, x) THEN 1 ELSE 0
<1>1. /\ \A y \in Subtree[h] : /\ y \in DOMAIN t /\ t[y] \in Node /\ t[y].n \in Nat /\ t[y].w \in Int
                               /\ t[y].own \in Int /\ t[y].flight \in Int
                               /\ NodeHolds(t, h, y) /\ Counts(t, y)
      /\ AboveTo(h, x) \subseteq Subtree[h] /\ x \notin AboveTo(h, x)
  BY AboveIn, NodeType DEF IsTree, TreeHolds
<1>2. IsTree(u, h) /\ OnTheWay(t, u, h, x, 1)
  BY BackedNodes
<1>3. \A y \in Subtree[h] : /\ Expanded(t, h, y) => Expanded(u, h, y)
                            /\ IsTerminal(t[y]) => IsTerminal(u[y])
                            /\ u[y].term = "no" => t[y].term = "no"
                            /\ u[y].term = "twofold" <=> t[y].term = "twofold"
                            /\ u[y].n = 0 => t[y].n = 0
  BY BackedNodes
<1>4. \A y \in Subtree[h] : ~OnWay(h, x, y) => u[y] = t[y]
  BY <1>1 DEF IsBackedUp
<1>5. \A y \in AboveTo(h, x) : /\ Expanded(t, h, y) /\ t[y].n > 0 /\ t[y].term # "twofold"
  BY DEF Reached, Expanded
<1>6. \A y \in Subtree[h] : u[y].w \in Int /\ u[y].own \in Int /\ u[y].n \in Nat
  BY <1>2, NodeType DEF IsTree
<1>7. ASSUME NEW y \in Subtree[h], \A c \in Children(y) : ~OnWay(h, x, c)
      PROVE  /\ \A c \in Children(y) : u[c] = t[c]
             /\ SumFunctionOnSet(ValuesIn(u), Children(y)) = SumFunctionOnSet(ValuesIn(t), Children(y))
  <2>1. \A c \in Children(y) : u[c] = t[c]
    BY <1>4, <1>7, SumsType
  <2>. QED BY <1>2, <2>1, SameSums
<1>8. \A y \in Subtree[h] : y \notin AboveTo(h, x) => \A c \in Children(y) : ~OnWay(h, x, c)
  BY OneParent DEF OnWay
<1>9. \A y \in Subtree[h] :
        /\ SumFunctionOnSet(VisitsIn(u), Children(y))
             = SumFunctionOnSet(VisitsIn(t), Children(y)) + IF y \in AboveTo(h, x) THEN 1 ELSE 0
        /\ SumFunctionOnSet(VisitsIn(t), Children(y)) \in Nat
        /\ SumFunctionOnSet(ValuesIn(t), Children(y)) \in Int
        /\ Children(y) \subseteq Subtree[h] /\ IsFiniteSet(Children(y))
  <2>1. SUFFICES ASSUME NEW y \in Subtree[h]
        PROVE /\ SumFunctionOnSet(VisitsIn(u), Children(y))
                   = SumFunctionOnSet(VisitsIn(t), Children(y)) + IF y \in AboveTo(h, x) THEN 1 ELSE 0
              /\ SumFunctionOnSet(VisitsIn(t), Children(y)) \in Nat
              /\ SumFunctionOnSet(ValuesIn(t), Children(y)) \in Int
              /\ Children(y) \subseteq Subtree[h] /\ IsFiniteSet(Children(y))
    OBVIOUS
  <2>2. SumFunctionOnSet(VisitsIn(u), Children(y))
          = SumFunctionOnSet(VisitsIn(t), Children(y)) + IF y \in AboveTo(h, x) THEN 1 ELSE 0
    BY <1>2, SumOnTheWay
  <2>. QED BY <2>2, SumsType
<1>10. ASSUME NEW y \in AboveTo(h, x), u[y].term = "no"
       PROVE  SumFunctionOnSet(ValuesIn(u), Children(y))
                = SumFunctionOnSet(ValuesIn(t), Children(y)) - Change(t, u, y)
  <2>1. y \in Subtree[h]
    BY <1>1
  <2>2. PICK c \in Children(y) : OnWay(h, x, c) /\ Change(t, u, y) = -Change(t, u, c)
    BY <1>10 DEF IsBackedUp, Turned
  <2>3. \A d \in Children(y) \ {c} : ~OnWay(h, x, d)
    BY <2>1, <2>2, OneParent DEF OnWay
  <2>4. c \in Subtree[h] /\ IsFiniteSet(Children(y)) /\ Children(y) \subseteq Subtree[h]
    BY <1>9, <2>1
  <2>5. /\ \A d \in Children(y) : ValuesIn(t)[d] = t[d].w /\ ValuesIn(u)[d] = u[d].w
        /\ \A d \in Children(y) : ValuesIn(t)[d] \in Int /\ ValuesIn(u)[d] \in Int
    BY <1>2, <2>4, SumsType
  <2>6. \A d \in Children(y) : d # c => ValuesIn(u)[d] = ValuesIn(t)[d]
    BY <1>4, <2>3, <2>4, <2>5
  <2>7. DifferAt(ValuesIn(t), ValuesIn(u), Children(y), c)
    BY <2>4, <2>5, <2>6 DEF DifferAt
  <2>8. SumFunctionOnSet(ValuesIn(u), Children(y))
          = SumFunctionOnSet(ValuesIn(t), Children(y)) + (u[c].w - t[c].w)
    BY <2>5, <2>7, SumChangeAt
  <2>9. SumFunctionOnSet(ValuesIn(t), Children(y)) \in Int /\ Change(t, u, c) \in Int
    BY <1>1, <1>6, <1>9, <2>1, <2>4 DEF Change
  <2>10. SumFunctionOnSet(ValuesIn(u), Children(y))
          = SumFunctionOnSet(ValuesIn(t), Children(y)) + Change(t, u, c)
    BY <2>8 DEF Change
  <2>. QED BY <2>2, <2>9, <2>10
<1>11. ASSUME NEW y \in Subtree[h] PROVE NodeHolds(u, h, y)
  <2>1. u[y].n = 0 => u[y].w = 0
    <3>1. CASE OnWay(h, x, y)
      <4>1. u[y].n = t[y].n + 1
        BY <3>1 DEF IsBackedUp, VisitedOnce
      <4>. QED BY <1>1, <4>1
    <3>2. CASE ~OnWay(h, x, y)
      BY <1>1, <1>4, <3>2 DEF NodeHolds
    <3>. QED BY <3>1, <3>2
  <2>2. u[y].term = "twofold" => u[y].w = 0
    <3>1. CASE y = x
      <4>1. u[x].term = "twofold" => Change(t, u, x) = 0 /\ t[x].w = 0
        BY <1>1, <1>3 DEF IsBackedUp, NodeHolds
      <4>. QED BY <1>1, <1>6, <3>1, <4>1 DEF Change
    <3>2. CASE y \in AboveTo(h, x)
      BY <1>3, <1>5, <3>2
    <3>3. CASE ~OnWay(h, x, y)
      BY <1>1, <1>4, <3>3 DEF NodeHolds
    <3>. QED BY <3>1, <3>2, <3>3 DEF OnWay
  <2>3. \A c \in Children(y) : u[c].n > 0 => Expanded(u, h, y)
    <3>1. CASE y \in AboveTo(h, x)
      BY <1>3, <1>5, <3>1
    <3>2. CASE y \notin AboveTo(h, x)
      <4>1. \A c \in Children(y) : u[c] = t[c]
        BY <1>7, <1>8, <3>2
      <4>. QED BY <1>1, <1>3, <4>1 DEF NodeHolds
    <3>. QED BY <3>1, <3>2
  <2>4. CanDescend(u[y]) => Expanded(u, h, y)
    <3>1. CASE y = x
      <4>1. CanDescend(u[x]) => ~IsTerminal(t[x]) /\ u[x].n > 0 /\ u[x].term = "no"
        BY <1>3, <3>1 DEF CanDescend, IsTerminal
      <4>2. ~IsTerminal(t[x]) => x \notin DOMAIN GameEnd /\ x \notin RuleDraws \ {h}
        BY DEF Extended
      <4>. QED BY <3>1, <4>1, <4>2 DEF Expanded
    <3>2. CASE y \in AboveTo(h, x)
      BY <1>3, <1>5, <3>2
    <3>3. CASE ~OnWay(h, x, y)
      BY <1>1, <1>3, <1>4, <3>3 DEF NodeHolds
    <3>. QED BY <3>1, <3>2, <3>3 DEF OnWay
  <2>5. Expanded(u, h, y) => u[y].n >= 1 + SumFunctionOnSet(VisitsIn(u), Children(y))
    <3>. DEFINE a == SumFunctionOnSet(VisitsIn(t), Children(y))
                b == SumFunctionOnSet(VisitsIn(u), Children(y))
    <3>1. b = a + (IF y \in AboveTo(h, x) THEN 1 ELSE 0) /\ a \in Nat /\ t[y].n \in Nat
      BY <1>1, <1>9
    <3>2. CASE Expanded(t, h, y)
      <4>1. t[y].n >= 1 + a
        BY <1>1, <3>2 DEF NodeHolds
      <4>2. u[y].n = IF y = x \/ y \in AboveTo(h, x) THEN t[y].n + 1 ELSE t[y].n
        BY <1>2 DEF OnTheWay
      <4>. HIDE DEF a, b
      <4>3. u[y].n >= 1 + b
        BY <3>1, <4>1, <4>2
      <4>. QED BY <4>3 DEF b
    <3>3. CASE ~Expanded(t, h, y)
      <4>1. y \notin AboveTo(h, x)
        BY <1>5, <3>3
      <4>2. \A c \in Children(y) : VisitsIn(t)[c] = 0
        <5>1. \A c \in Children(y) : c \in Subtree[h] /\ t[c].n \in Nat /\ ~(t[c].n > 0) /\ VisitsIn(t)[c] = t[c].n
          BY <1>1, <1>9, <3>3, SumsType DEF NodeHolds
        <5>. QED BY <5>1
      <4>3. a = 0
        BY <1>9, <4>2, SumZero
      <4>. HIDE DEF a, b
      <4>4. b = 0
        BY <3>1, <4>1, <4>3
      <4>5. Expanded(u, h, y) => u[y].n > 0
        BY DEF Expanded
      <4>6. Expanded(u, h, y) => u[y].n >= 1 + b
        BY <1>6, <4>4, <4>5
      <4>. QED BY <4>6 DEF b
    <3>. QED BY <3>2, <3>3
  <2>. QED BY <2>1, <2>2, <2>3, <2>4, <2>5 DEF NodeHolds
<1>12. ASSUME NEW y \in Subtree[h] PROVE Counts(u, y)
  <2>. DEFINE a == SumFunctionOnSet(VisitsIn(t), Children(y))
              b == SumFunctionOnSet(VisitsIn(u), Children(y))
              c == SumFunctionOnSet(ValuesIn(t), Children(y))
              d == SumFunctionOnSet(ValuesIn(u), Children(y))
  <2>. SUFFICES ASSUME CanDescend(u[y]) PROVE u[y].n = 1 + b /\ u[y].w = u[y].own - d
    BY DEF Counts
  <2>1. /\ b = a + (IF y \in AboveTo(h, x) THEN 1 ELSE 0) /\ a \in Nat /\ c \in Int
        /\ t[y].n \in Nat /\ t[y].w \in Int /\ t[y].own \in Int /\ u[y].w \in Int
        /\ u[y].term = "no" /\ t[y].term = "no"
    BY <1>1, <1>3, <1>6, <1>9 DEF CanDescend, IsTerminal
  <2>2. CASE y \in AboveTo(h, x)
    <3>1. CanDescend(t[y])
      BY <1>5, <2>1, <2>2 DEF CanDescend, IsTerminal
    <3>2. t[y].n = 1 + a /\ t[y].w = t[y].own - c
      BY <1>1, <3>1 DEF Counts
    <3>3. VisitedOnce(t, u, y)
      BY <2>2 DEF IsBackedUp, OnWay
    <3>4. u[y].n = t[y].n + 1 /\ u[y].own = t[y].own
      BY <1>5, <2>2, <3>3 DEF VisitedOnce
    <3>5. d = c - Change(t, u, y)
      BY <1>10, <2>1, <2>2
    <3>. HIDE DEF a, b, c, d
    <3>6. u[y].n = 1 + b
      BY <2>1, <2>2, <3>2, <3>4
    <3>7. u[y].w = u[y].own - d
      BY <2>1, <3>2, <3>4, <3>5 DEF Change
    <3>. QED BY <3>6, <3>7
  <2>3. CASE y = x
    <3>1. t[x].n = 0 /\ x \notin AboveTo(h, x) /\ u[x].n = 1
      <4>1. t[x].n = 0
        BY <2>1, <2>3 DEF Ends, IsTerminal
      <4>2. u[x].n = t[x].n + 1
        BY DEF IsBackedUp, OnWay, VisitedOnce
      <4>. QED BY <1>1, <4>1, <4>2
    <3>2. Change(t, u, x) = u[x].own /\ t[x].w = 0
      BY <1>1, <2>1, <2>3, <3>1 DEF IsBackedUp, NodeHolds
    <3>3. \A z \in Children(x) : VisitsIn(t)[z] = 0 /\ ValuesIn(t)[z] = 0
      <4>1. ~Expanded(t, h, x)
        BY <3>1 DEF Expanded
      <4>2. \A z \in Children(x) : z \in Subtree[h] /\ t[z].n \in Nat /\ ~(t[z].n > 0)
        BY <1>1, <1>9, <2>3, <4>1 DEF NodeHolds
      <4>3. \A z \in Children(x) : t[z].n = 0 /\ t[z].w = 0
        BY <1>1, <4>2 DEF NodeHolds
      <4>. QED BY <4>2, <4>3, SumsType
    <3>4. a = 0 /\ c = 0
      BY <1>9, <2>3, <3>3, SumZero
    <3>5. d = c
      BY <1>7, <1>8, <2>3, <3>1
    <3>6. u[x].own \in Int /\ u[x].w = u[x].own
      BY <1>6, <2>3, <3>2 DEF Change
    <3>. HIDE DEF a, b, c, d
    <3>7. b = 0
      BY <2>1, <2>3, <3>1, <3>4
    <3>. QED BY <2>3, <3>1, <3>4, <3>5, <3>6, <3>7
  <2>4. CASE ~OnWay(h, x, y)
    <3>1. u[y] = t[y] /\ y \notin AboveTo(h, x)
      BY <1>4, <2>4 DEF OnWay
    <3>2. t[y].n = 1 + a /\ t[y].w = t[y].own - c
      BY <1>1, <3>1 DEF Counts
    <3>3. d = c
      BY <1>7, <1>8, <3>1
    <3>. HIDE DEF a, b, c, d
    <3>. QED BY <2>1, <3>1, <3>2, <3>3
  <2>. QED BY <2>2, <2>3, <2>4 DEF OnWay
<1>13. TreeHolds(u, h)
  BY <1>11, <1>12 DEF TreeHolds, IsBackedUp
<1>14. Found(u, h) = Found(t, h)
  <2>1. Stale(u, h) = Stale(t, h)
    BY <1>3 DEF Stale, StaleAt
  <2>2. IsFiniteSet(Stale(t, h)) /\ Stale(t, h) \subseteq Subtree[h]
    BY InSubtree, FS_Subset DEF Stale
  <2>3. ASSUME NEW y \in Stale(t, h) PROVE VisitsIn(u)[y] = VisitsIn(t)[y]
    <3>1. y \in Subtree[h] /\ y # x /\ y \notin AboveTo(h, x)
      BY <1>5, <2>2 DEF Stale, StaleAt
    <3>2. u[y] = t[y]
      BY <1>4, <3>1 DEF OnWay
    <3>. QED BY <1>2, <3>1, <3>2, SumsType
  <2>. QED BY <2>1, <2>2, <2>3, SumEqual DEF Found
<1>15. u[h].n = t[h].n + 1
  <2>1. h \in Subtree[h] /\ (h = x \/ h \in AboveTo(h, x))
    <3>1. h \in Subtree[h] /\ AboveTo(h, x) = {y \in Subtree[h] : x \in Below(y)}
      BY InSubtree, PathIs
    <3>. QED BY <3>1 DEF Below
  <2>. QED BY <1>2, <2>1 DEF OnTheWay
<1>16. ASSUME NEW e, EntryHolds(t, h, e), e.node = x /\ ~IsCollision(e) => t[x].n # 0
       PROVE  EntryHolds(u, h, e)
  <2>1. e.node \in Subtree[h] /\ Reached(t, h, e.node)
    BY <1>16 DEF EntryHolds, Reached
  <2>2. Reached(u, h, e.node)
    <3>1. AboveTo(h, e.node) \subseteq Subtree[h]
      BY <2>1, AboveIn
    <3>. QED BY <1>3, <2>1, <3>1 DEF Reached
  <2>3. SUFFICES ASSUME ~IsCollision(e) PROVE Ends(u, e.node) /\ ~StaleAt(u, h, e.node) /\ (e.kind # "picked" => Extended(u, h, e.node))
    BY <1>16, <2>2 DEF EntryHolds
  <2>4. Ends(t, e.node) /\ ~StaleAt(t, h, e.node) /\ (e.kind # "picked" => Extended(t, h, e.node))
    BY <1>16, <2>3 DEF EntryHolds
  <2>5. ~StaleAt(u, h, e.node)
    BY <1>3, <2>1, <2>4 DEF StaleAt
  <2>6. e.kind # "picked" => Extended(u, h, e.node)
    BY <1>3, <2>1, <2>4 DEF Extended
  <2>7. Ends(u, e.node)
    <3>1. CASE OnWay(h, x, e.node)
      <4>1. t[e.node].n # 0
        BY <1>5, <1>16, <2>3, <3>1 DEF OnWay
      <4>. QED BY <1>3, <2>1, <2>4, <4>1 DEF Ends
    <3>2. CASE ~OnWay(h, x, e.node)
      BY <1>4, <2>1, <2>4, <3>2 DEF Ends
    <3>. QED BY <3>1, <3>2
  <2>. QED BY <2>5, <2>6, <2>7
<1>17. ASSUME NEW y \in Subtree[h]
       PROVE  u[y].flight = t[y].flight - IF y = x \/ y \in AboveTo(h, x) THEN 1 ELSE 0
  <2>1. CASE OnWay(h, x, y)
    BY <2>1 DEF IsBackedUp, VisitedOnce, OnWay
  <2>2. CASE ~OnWay(h, x, y)
    BY <1>1, <1>4, <2>2 DEF OnWay
  <2>. QED BY <2>1, <2>2
<1>. QED BY <1>2, <1>3, <1>13, <1>14, <1>15, <1>16, <1>17

-----------------------------------------------------------------------------
(* The inductive invariant.                                                *)

EntryIn(G) == [node : G, kind : Kinds, multivisit : Nat \ {0}]
TypesHold(t, h, B, S) ==
  /\ \E r \in Roots : DOMAIN t = Subtree[r]
  /\ t \in [DOMAIN t -> Node] /\ h \in DOMAIN t
  /\ B \in [Workers -> Seq(EntryIn(DOMAIN t))] /\ S \in [DOMAIN t -> Nat]
Typed ==
  /\ TypesHold(tree, head, batch, shared_collisions)
  /\ new_start \in [Workers -> Nat \ {0}] /\ worked \in [Workers -> BOOLEAN]
  /\ pc \in [Workers -> Places]
  /\ total_playouts \in Nat /\ initial_visits \in Int

\* What the last search left outside the tree of this one.
ReleasedIn(t, h) == \A y \in DOMAIN t \ Subtree[h] : t[y] = NewNode

EntriesHold(t, h, B) == \A v \in Workers : \A i \in DOMAIN B[v] : EntryHolds(t, h, B[v][i])

\* Only one worker is at work on a node without visits.
OneVisitorIn(t, B) ==
  \A v, w \in Workers : \A i \in DOMAIN B[v], j \in DOMAIN B[w] :
    /\ ~IsCollision(B[v][i]) /\ ~IsCollision(B[w][j])
    /\ B[v][i].node = B[w][j].node /\ t[B[v][i].node].n = 0
    => v = w /\ i = j

\* Where a worker is says what its minibatch holds.
DueIn(b, start) == {i \in start .. Len(b) : b[i].kind \in {"ooo", "collision"}}
ProgressOf(at, b, start) ==
  /\ at = "idle" => b = <<>>
  /\ at \in {"outOfOrder", "gathered", "evaluate", "backup"} => \A i \in DOMAIN b : b[i].kind # "picked"
  /\ at \in {"evaluate", "backup"} => \A i \in DOMAIN b : ~IsCollision(b[i])
  /\ at = "outOfOrder" => DueIn(b, start) # {}
ProgressIn(P, B, A) == \A v \in Workers : ProgressOf(P[v], B[v], A[v])

\* The root's visits, and those of them that may still be taken back.
CountsHold(t, h, found, made) == t[h].n = found + made /\ Found(t, h) <= found

IInv ==
  /\ Typed
  /\ ReleasedIn(tree, head)
  /\ EntriesHold(tree, head, batch)
  /\ OneVisitorIn(tree, batch)
  /\ ProgressIn(pc, batch, new_start)
  /\ TreeHolds(tree, head)
  /\ CountsHold(tree, head, initial_visits, total_playouts)
  /\ LedgerIn(tree, head, batch, shared_collisions)

\* What the types say of the constants of a lemma.
LEMMA TypesGive ==
  ASSUME NEW t, NEW h, NEW B, NEW S, TypesHold(t, h, B, S)
  PROVE  /\ h \in Nodes /\ h \in Subtree[h] /\ IsTree(t, h) /\ DOMAIN t \subseteq Nodes
         /\ Subtree[h] \subseteq DOMAIN t
         /\ \A e \in EntryIn(DOMAIN t) : e.multivisit \in Nat /\ e.kind \in Kinds /\ e.node \in DOMAIN t
         /\ B \in [Workers -> Seq(EntryIn(DOMAIN t))] /\ S \in [DOMAIN t -> Nat]
<1>1. PICK r \in Roots : DOMAIN t = Subtree[r]
  BY DEF TypesHold
<1>2. r \in Nodes /\ h \in Subtree[r]
  BY <1>1, TreeAssumption DEF TypesHold
<1>3. h \in Nodes /\ DOMAIN t \subseteq Nodes /\ Subtree[h] \subseteq DOMAIN t
  BY <1>1, <1>2, InSubtree, SubtreeTransitive
<1>4. h \in Subtree[h]
  BY <1>3, InSubtree
<1>5. \A e \in EntryIn(DOMAIN t) : e.multivisit \in Nat /\ e.kind \in Kinds /\ e.node \in DOMAIN t
  BY DEF EntryIn
<1>. QED BY <1>3, <1>4, <1>5 DEF TypesHold, IsTree

\* The visits that may still be taken back are a natural number.
LEMMA FoundType ==
  ASSUME NEW h \in Nodes, NEW t, IsTree(t, h)
  PROVE  Found(t, h) \in Nat
<1>1. IsFiniteSet(Stale(t, h)) /\ Stale(t, h) \subseteq Subtree[h]
  BY InSubtree, FS_Subset DEF Stale
<1>2. \A y \in Stale(t, h) : VisitsIn(t)[y] \in Nat
  BY <1>1, InSubtree, SumsType
<1>. QED BY <1>1, <1>2, SumNat DEF Found

\* No node is in flight less than no time.
LEMMA FlightsType ==
  ASSUME NEW t, NEW h, NEW B, NEW S, TypesHold(t, h, B, S), ReleasedIn(t, h), LedgerIn(t, h, B, S)
  PROVE  \A y \in DOMAIN t : t[y].flight \in Nat
<1>1. /\ h \in Nodes /\ IsTree(t, h)
      /\ \A e \in EntryIn(DOMAIN t) : e.multivisit \in Nat
      /\ B \in [Workers -> Seq(EntryIn(DOMAIN t))] /\ S \in [DOMAIN t -> Nat]
      /\ Subtree[h] \subseteq DOMAIN t
  BY TypesGive
<1>2. ASSUME NEW y \in Subtree[h] PROVE t[y].flight \in Nat
  <2>1. HeldBy(B, y, Visiting) \in Nat
    BY <1>1, HeldByIs
  <2>2. /\ y \in Nodes /\ Below(y) \subseteq Subtree[y] /\ IsFiniteSet(Below(y))
        /\ Subtree[y] \subseteq Subtree[h]
    BY <1>1, InSubtree, SubtreeTransitive, FS_Subset DEF Below
  <2>3. \A z \in DOMAIN t : HeldOf(B, S, DOMAIN t)[z] \in Nat
    BY <1>1, HeldOfType
  <2>4. SumFunctionOnSet(HeldOf(B, S, DOMAIN t), Below(y)) \in Nat
    BY <1>1, <2>2, <2>3, SumNat
  <2>. QED BY <2>1, <2>4 DEF LedgerIn
<1>3. ASSUME NEW y \in DOMAIN t \ Subtree[h] PROVE t[y].flight \in Nat
  BY <1>3 DEF ReleasedIn, NewNode
<1>. QED BY <1>2, <1>3

\* The invariant gives the types.
LEMMA IInvTypes == IInv => TypeOK
<1>. SUFFICES ASSUME IInv PROVE TypeOK
  OBVIOUS
<1>0. TypesHold(tree, head, batch, shared_collisions)
  BY DEF IInv, Typed
<1>1. tree \in [Game -> Node] /\ head \in Game /\ shared_collisions \in [Game -> Nat]
  BY <1>0 DEF TypesHold, Game
<1>2. \A y \in Game : tree[y].flight \in Nat
  BY <1>0, FlightsType DEF IInv, Game
<1>. DEFINE T == [n : Nat, flight : Nat, w : Int, term : {"no", "end", "twofold"}, lo : -1 .. 1,
                  up : -1 .. 1, solid : BOOLEAN, own : -1 .. 1]
<1>3. \A y \in Game : tree[y] \in T
  <2>1. SUFFICES ASSUME NEW nd \in Node, nd.flight \in Nat PROVE nd \in T
    BY <1>1, <1>2
  <2>. QED BY <2>1 DEF Node
<1>4. tree \in [Game -> T]
  <2>. HIDE DEF T
  <2>. QED BY <1>1, <1>3
<1>5. Game \subseteq Nodes
  BY <1>0, TypesGive DEF Game
<1>6. initial_visits \in Nat
  <2>1. Found(tree, head) \in Nat
    BY <1>0, TypesGive, FoundType
  <2>2. Found(tree, head) <= initial_visits /\ initial_visits \in Int
    BY DEF IInv, CountsHold, Typed
  <2>. QED BY <2>1, <2>2
<1>7. batch \in [Workers -> Seq([node : Game, kind : Kinds, multivisit : Nat \ {0}])]
  BY <1>0 DEF TypesHold, EntryIn, Game
<1>. QED BY <1>1, <1>4, <1>5, <1>6, <1>7 DEF IInv, Typed, TypeOK

\* The invariant gives the ledger of visits.
LEMMA IInvVisits == IInv => VisitLedger
<1>. SUFFICES ASSUME IInv PROVE VisitLedger
  OBVIOUS
<1>1. tree[head].n = initial_visits + total_playouts
  BY DEF IInv, CountsHold
<1>2. VisitsOf(tree) = VisitsIn(tree) /\ ValuesOf(tree) = ValuesIn(tree)
  BY DEF VisitsOf, ValuesOf, VisitsIn, ValuesIn, Game
<1>. QED BY <1>1, <1>2 DEF VisitLedger, IInv, TreeHolds, Counts

\* The invariant gives the soundness of bounds.
LEMMA IInvBounds == IInv => BoundsSound
BY DEF IInv, TreeHolds, Sound, BoundsSound

\* The invariant gives the ledger of visits in flight.
LEMMA IInvFlights == IInv => InFlightLedger
BY LedgerIs DEF IInv

\* The invariant holds when the first search begins.
THEOREM IInvInit == Init => IInv
<1>. SUFFICES ASSUME Init PROVE IInv
  OBVIOUS
<1>1. /\ head \in Roots /\ head \in Nodes /\ tree = [x \in Subtree[head] |-> NewNode]
      /\ batch = [v \in Workers |-> <<>>] /\ shared_collisions = [x \in Subtree[head] |-> 0]
  BY TreeAssumption DEF Init
<1>2. head \in Subtree[head] /\ DOMAIN tree = Subtree[head]
  BY <1>1, InSubtree
<1>3. /\ tree \in [Subtree[head] -> Node] /\ IsTree(tree, head) /\ TreeHolds(tree, head)
      /\ Found(tree, head) = 0
  BY <1>1, NewTree
<1>4. TypesHold(tree, head, batch, shared_collisions)
  BY <1>1, <1>2, <1>3 DEF TypesHold
<1>5. Typed
  BY <1>4 DEF Typed, Init, Places
<1>6. ReleasedIn(tree, head) /\ EntriesHold(tree, head, batch) /\ OneVisitorIn(tree, batch)
  BY <1>1, <1>2 DEF ReleasedIn, EntriesHold, OneVisitorIn
<1>7. ProgressIn(pc, batch, new_start)
  BY DEF ProgressIn, ProgressOf, Init
<1>8. CountsHold(tree, head, initial_visits, total_playouts)
  BY <1>1, <1>2, <1>3 DEF CountsHold, Init, NewNode
<1>9. LedgerIn(tree, head, batch, shared_collisions)
  <2>1. SUFFICES ASSUME NEW x \in Subtree[head]
        PROVE  tree[x].flight = HeldBy(batch, x, Visiting)
                 + SumFunctionOnSet(HeldOf(batch, shared_collisions, DOMAIN tree), Below(x))
    BY DEF LedgerIn
  <2>2. \A y, K : HeldBy(batch, y, K) = 0
    BY <1>1, HeldByNone
  <2>3. x \in Nodes /\ Below(x) \subseteq Subtree[head] /\ IsFiniteSet(Below(x))
    BY <1>1, InSubtree, SubtreeTransitive, FS_Subset DEF Below
  <2>4. \A y \in Below(x) : HeldOf(batch, shared_collisions, DOMAIN tree)[y] = 0
    BY <1>1, <1>2, <2>2, <2>3 DEF HeldOf
  <2>5. SumFunctionOnSet(HeldOf(batch, shared_collisions, DOMAIN tree), Below(x)) = 0
    BY <2>3, <2>4, SumZero
  <2>. QED BY <1>1, <2>2, <2>5 DEF NewNode
<1>. QED BY <1>3, <1>5, <1>6, <1>7, <1>8, <1>9 DEF IInv

\* The invariant holds when nothing happens.
LEMMA Stays ==
  ASSUME IInv, UNCHANGED vars
  PROVE  IInv'
BY DEF IInv, Typed, vars, workerVars

\* The greatest of finitely many numbers is one of them.
LEMMA MaxIsIn ==
  ASSUME NEW n \in Nat, NEW S \in SUBSET (1 .. n), S # {}
  PROVE  Max(S) \in S
<1>. DEFINE Q == {m \in Nat : \A T \in SUBSET (1 .. m) : T # {} => \E x \in T : \A y \in T : x >= y}
<1>1. 0 \in Q
  <2>1. \A T \in SUBSET (1 .. 0) : T = {}
    <3>1. 1 .. 0 = {}
      OBVIOUS
    <3>. QED BY <3>1
  <2>. QED BY <2>1
<1>2. ASSUME NEW m \in Nat, m \in Q PROVE m + 1 \in Q
  <2>. SUFFICES ASSUME NEW T \in SUBSET (1 .. m + 1), T # {} PROVE \E x \in T : \A y \in T : x >= y
    OBVIOUS
  <2>1. CASE m + 1 \in T
    <3>1. \A y \in T : m + 1 >= y
      OBVIOUS
    <3>. QED BY <2>1, <3>1
  <2>2. CASE m + 1 \notin T
    <3>1. T \in SUBSET (1 .. m)
      <4>1. \A y \in T : y \in 1 .. m + 1 /\ y # m + 1
        BY <2>2
      <4>2. \A y \in 1 .. m + 1 : y # m + 1 => y \in 1 .. m
        OBVIOUS
      <4>. QED BY <4>1, <4>2
    <3>. QED BY <1>2, <3>1
  <2>. QED BY <2>1, <2>2
<1>. HIDE DEF Q
<1>3. Nat \subseteq Q
  BY <1>1, <1>2, Counting
<1>4. \E x \in S : \A y \in S : x >= y
  BY <1>3 DEF Q
<1>. QED BY <1>4 DEF Max

\* A minibatch that has nothing but entries of another, each once.
Thins(f, c, b) ==
  /\ f \in [DOMAIN c -> DOMAIN b]
  /\ \A i, j \in DOMAIN c : f[i] = f[j] => i = j
  /\ \A i \in DOMAIN c : /\ c[i].node = b[f[i]].node
                         /\ ~IsCollision(c[i]) => ~IsCollision(b[f[i]])

\* What was visited stays visited.
StaysVisited(t, u, B) ==
  \A w \in Workers : \A i \in DOMAIN B[w] :
    ~IsCollision(B[w][i]) /\ u[B[w][i].node].n = 0 => t[B[w][i].node].n = 0

\* There is still one visitor when a minibatch loses entries.
LEMMA ThinnedVisitors ==
  ASSUME NEW t, NEW u, NEW B, DOMAIN B = Workers, OneVisitorIn(t, B), NEW v \in Workers, NEW c, NEW f,
         Thins(f, c, B[v]), StaysVisited(t, u, B)
  PROVE  OneVisitorIn(u, [B EXCEPT ![v] = c])
<1>. DEFINE D == [B EXCEPT ![v] = c]
<1>1. D[v] = c /\ \A w \in Workers : w # v => D[w] = B[w]
  OBVIOUS
<1>. HIDE DEF D
<1>. DEFINE P(w, i) == IF w = v THEN f[i] ELSE i
<1>2. \A w \in Workers : \A i \in DOMAIN D[w] :
        /\ P(w, i) \in DOMAIN B[w] /\ D[w][i].node = B[w][P(w, i)].node
        /\ ~IsCollision(D[w][i]) => ~IsCollision(B[w][P(w, i)])
  BY <1>1 DEF Thins
<1>3. SUFFICES ASSUME NEW w \in Workers, NEW z \in Workers, NEW i \in DOMAIN D[w], NEW j \in DOMAIN D[z],
                      ~IsCollision(D[w][i]), ~IsCollision(D[z][j]), D[w][i].node = D[z][j].node,
                      u[D[w][i].node].n = 0
               PROVE  w = z /\ i = j
  BY DEF OneVisitorIn, D
<1>4. /\ P(w, i) \in DOMAIN B[w] /\ D[w][i].node = B[w][P(w, i)].node /\ ~IsCollision(B[w][P(w, i)])
      /\ P(z, j) \in DOMAIN B[z] /\ D[z][j].node = B[z][P(z, j)].node /\ ~IsCollision(B[z][P(z, j)])
  BY <1>2, <1>3
<1>. HIDE DEF P
<1>5. t[B[w][P(w, i)].node].n = 0
  BY <1>3, <1>4 DEF StaysVisited
<1>6. w = z /\ P(w, i) = P(z, j)
  <2>1. \A a \in DOMAIN B[w], b \in DOMAIN B[z] :
          /\ ~IsCollision(B[w][a]) /\ ~IsCollision(B[z][b])
          /\ B[w][a].node = B[z][b].node /\ t[B[w][a].node].n = 0
          => w = z /\ a = b
    BY DEF OneVisitorIn
  <2>2. /\ P(w, i) \in DOMAIN B[w] /\ P(z, j) \in DOMAIN B[z]
        /\ ~IsCollision(B[w][P(w, i)]) /\ ~IsCollision(B[z][P(z, j)])
        /\ B[w][P(w, i)].node = B[z][P(z, j)].node /\ t[B[w][P(w, i)].node].n = 0
    BY <1>3, <1>4, <1>5
  <2>. QED BY ONLY <2>1, <2>2
<1>7. CASE w = v
  <2>1. f[i] = f[j] /\ i \in DOMAIN c /\ j \in DOMAIN c
    BY <1>1, <1>6, <1>7 DEF P
  <2>. QED BY <1>6, <2>1 DEF Thins
<1>8. CASE w # v
  BY <1>6, <1>8 DEF P
<1>. QED BY <1>7, <1>8

\* One worker moves on.
LEMMA ChangedProgress ==
  ASSUME NEW P, NEW B, NEW A, DOMAIN P = Workers, DOMAIN B = Workers, DOMAIN A = Workers,
         ProgressIn(P, B, A), NEW v \in Workers, NEW p, NEW c, NEW a, ProgressOf(p, c, a)
  PROVE  ProgressIn([P EXCEPT ![v] = p], [B EXCEPT ![v] = c], [A EXCEPT ![v] = a])
BY DEF ProgressIn

\* One worker's minibatch changes.
LEMMA ChangedEntries ==
  ASSUME NEW t, NEW u, NEW h, NEW B, DOMAIN B = Workers, NEW v \in Workers, NEW c,
         \A w \in Workers : w # v => \A i \in DOMAIN B[w] : EntryHolds(u, h, B[w][i]),
         \A i \in DOMAIN c : EntryHolds(u, h, c[i])
  PROVE  EntriesHold(u, h, [B EXCEPT ![v] = c])
BY DEF EntriesHold

\* One worker's minibatch, the nodes and the shared collisions change.
LEMMA ChangedTypes ==
  ASSUME NEW t, NEW u, NEW h, NEW B, NEW S, TypesHold(t, h, B, S), DOMAIN u = DOMAIN t, IsTree(u, h),
         NEW v \in Workers, NEW c \in Seq(EntryIn(DOMAIN t)), NEW R \in [DOMAIN t -> Nat]
  PROVE  TypesHold(u, h, [B EXCEPT ![v] = c], R)
BY DEF TypesHold, IsTree

\* f says where in b the entries of c come from.
Drops(f, c, b, i) == Thins(f, c, b) /\ \A j \in DOMAIN c : f[j] # i /\ c[j] = b[f[j]]

\* One entry removed.
LEMMA WithoutDrops ==
  ASSUME NEW E, NEW b \in Seq(E), NEW c \in Seq(E), NEW i, IsWithout(c, b, i)
  PROVE  \E f : Drops(f, c, b, i)
<1>. DEFINE f == [j \in DOMAIN c |-> IF j < i THEN j ELSE j + 1]
<1>1. /\ DOMAIN c = 1 .. Len(b) - 1 /\ DOMAIN b = 1 .. Len(b) /\ Len(b) \in Nat /\ i \in 1 .. Len(b)
      /\ \A j \in 1 .. Len(b) - 1 : c[j] = IF j < i THEN b[j] ELSE b[j + 1]
  BY DEF IsWithout
<1>2. f \in [DOMAIN c -> DOMAIN b]
  BY <1>1
<1>3. \A j \in DOMAIN c : c[j] = b[f[j]] /\ f[j] # i
  BY <1>1
<1>4. \A j, k \in DOMAIN c : f[j] = f[k] => j = k
  BY <1>1
<1>. HIDE DEF f
<1>5. Thins(f, c, b)
  BY <1>2, <1>3, <1>4 DEF Thins
<1>. QED BY <1>3, <1>5 DEF Drops

-----------------------------------------------------------------------------
(* The steps.                                                              *)

\* The nodes whose children a step moves are safe to move.
Settled(t, u) ==
  DOMAIN u = DOMAIN t /\ \A y \in DOMAIN t : u[y].solid /\ ~t[y].solid => SafeIn(u, y)

\* All that the invariant says, at a glance.
LEMMA Here ==
  ASSUME IInv
  PROVE  /\ head \in Nodes /\ head \in Subtree[head] /\ IsTree(tree, head) /\ Game \subseteq Nodes
         /\ Subtree[head] \subseteq Game /\ Game = DOMAIN tree
         /\ \A e \in EntryIn(Game) : e.multivisit \in Nat /\ e.kind \in Kinds /\ e.node \in Game
         /\ batch \in [Workers -> Seq(EntryIn(Game))] /\ shared_collisions \in [Game -> Nat]
         /\ new_start \in [Workers -> Nat \ {0}] /\ worked \in [Workers -> BOOLEAN]
         /\ pc \in [Workers -> Places] /\ total_playouts \in Nat /\ initial_visits \in Int
         /\ TreeHolds(tree, head) /\ EntriesHold(tree, head, batch) /\ OneVisitorIn(tree, batch)
         /\ ProgressIn(pc, batch, new_start) /\ LedgerIn(tree, head, batch, shared_collisions)
         /\ CountsHold(tree, head, initial_visits, total_playouts) /\ ReleasedIn(tree, head)
<1>1. TypesHold(tree, head, batch, shared_collisions)
  BY DEF IInv, Typed
<1>2. /\ head \in Nodes /\ head \in Subtree[head] /\ IsTree(tree, head) /\ Game \subseteq Nodes
      /\ Subtree[head] \subseteq Game /\ Game = DOMAIN tree
      /\ \A e \in EntryIn(Game) : e.multivisit \in Nat /\ e.kind \in Kinds /\ e.node \in Game
      /\ batch \in [Workers -> Seq(EntryIn(Game))] /\ shared_collisions \in [Game -> Nat]
  BY <1>1, TypesGive DEF Game
<1>. QED BY <1>2 DEF IInv, Typed

\* What a step of a worker has to leave in place.
LEMMA Together ==
  ASSUME IInv, NEW v \in Workers, NEW to \in Places, NEW n \in Nat \ {0}, NEW c \in Seq(EntryIn(Game)),
         pc' = [pc EXCEPT ![v] = to], batch' = [batch EXCEPT ![v] = c],
         new_start' = [new_start EXCEPT ![v] = n], worked' \in [Workers -> BOOLEAN],
         head' = head, DOMAIN tree' = Game, IsTree(tree', head),
         shared_collisions' \in [Game -> Nat], total_playouts' \in Nat, initial_visits' \in Int,
         ProgressOf(to, c, n), \A y \in Game \ Subtree[head] : tree'[y] = tree[y],
         EntriesHold(tree', head, batch'), OneVisitorIn(tree', batch'), TreeHolds(tree', head),
         CountsHold(tree', head, initial_visits', total_playouts'),
         LedgerIn(tree', head, batch', shared_collisions')
  PROVE  IInv'
<1>1. TypesHold(tree', head', batch', shared_collisions')
  <2>1. TypesHold(tree, head, batch, shared_collisions)
    BY DEF IInv, Typed
  <2>2. TypesHold(tree', head, batch', shared_collisions')
    BY <2>1, ChangedTypes DEF Game
  <2>. QED BY <2>2
<1>2. Typed'
  <2>1. pc' \in [Workers -> Places] /\ new_start' \in [Workers -> Nat \ {0}]
    BY Here
  <2>. QED BY <1>1, <2>1 DEF Typed
<1>3. ReleasedIn(tree', head')
  BY Here DEF ReleasedIn
<1>4. ProgressIn(pc', batch', new_start')
  <2>1. DOMAIN pc = Workers /\ DOMAIN batch = Workers /\ DOMAIN new_start = Workers
        /\ ProgressIn(pc, batch, new_start)
    BY Here
  <2>. QED BY <2>1, ChangedProgress
<1>. QED BY <1>2, <1>3, <1>4 DEF IInv

\* The same tree, and nothing taken from or given to a minibatch.
LEMMA SamePlaces ==
  ASSUME IInv, NEW v \in Workers, NEW to \in Places, pc' = [pc EXCEPT ![v] = to],
         UNCHANGED <<tree, head, batch, new_start, worked, shared_collisions, total_playouts, initial_visits>>,
         ProgressOf(to, batch[v], new_start[v])
  PROVE  IInv' /\ Settled(tree, tree')
<1>1. /\ batch' = [batch EXCEPT ![v] = batch[v]]
      /\ new_start' = [new_start EXCEPT ![v] = new_start[v]]
      /\ batch[v] \in Seq(EntryIn(Game)) /\ new_start[v] \in Nat \ {0}
  BY Here
<1>2. /\ worked' \in [Workers -> BOOLEAN] /\ head' = head /\ DOMAIN tree' = Game
      /\ IsTree(tree', head)
      /\ shared_collisions' \in [Game -> Nat] /\ total_playouts' \in Nat /\ initial_visits' \in Int
      /\ \A y \in Game \ Subtree[head] : tree'[y] = tree[y]
      /\ EntriesHold(tree', head, batch') /\ OneVisitorIn(tree', batch') /\ TreeHolds(tree', head)
      /\ CountsHold(tree', head, initial_visits', total_playouts')
      /\ LedgerIn(tree', head, batch', shared_collisions')
  BY Here
<1>3. IInv'
  BY <1>1, <1>2, Together
<1>. QED BY <1>3 DEF Settled

\* PickDone keeps the invariant.
LEMMA PickDoneHolds ==
  ASSUME IInv, NEW v \in Workers, PickDone(v)
  PROVE  IInv' /\ Settled(tree, tree')
<1>1. "process" \in Places /\ ProgressOf("process", batch[v], new_start[v])
  BY DEF Places, ProgressOf
<1>. QED BY <1>1, SamePlaces DEF PickDone, Goto

\* RoundDone keeps the invariant.
LEMMA RoundDoneHolds ==
  ASSUME IInv, NEW v \in Workers, RoundDone(v)
  PROVE  IInv' /\ Settled(tree, tree')
<1>1. "gathered" \in Places /\ ProgressOf("gathered", batch[v], new_start[v])
  BY DEF Places, ProgressOf, RoundDone, Processed
<1>. QED BY <1>1, SamePlaces DEF RoundDone, Goto

\* Flights alone change, of a node and those above it.
IsReserved(t, u, h, x, a, k) ==
  /\ DOMAIN u = DOMAIN t
  /\ \A y \in DOMAIN t :
       u[y] = [t[y] EXCEPT !.flight = @ + (IF y = x THEN a ELSE 0)
                                        + (IF y \in AboveTo(h, x) THEN k ELSE 0)]

FlightsMove(t, u, h, x, a, k) ==
  \A y \in Subtree[h] : u[y].flight = t[y].flight + (IF y = x THEN a ELSE 0)
                                        + (IF y \in AboveTo(h, x) THEN k ELSE 0)

\* A tree holds when only flights change.
LEMMA ReservedTree ==
  ASSUME NEW t, NEW h \in Nodes, IsTree(t, h), NEW x \in Subtree[h], NEW a \in Int, NEW k \in Int,
         NEW u \in [DOMAIN t -> Node], IsReserved(t, u, h, x, a, k)
  PROVE  /\ IsTree(u, h) /\ \A y \in DOMAIN t : Alike(t, u, y) /\ u[y].solid = t[y].solid
         /\ \A y \in DOMAIN t \ Subtree[h] : u[y] = t[y]
         /\ FlightsMove(t, u, h, x, a, k)
<1>1. IsTree(u, h)
  BY DEF IsTree
<1>2. \A y \in DOMAIN t : t[y] \in Node
  BY DEF IsTree
<1>3. ASSUME NEW nd \in Node, NEW md, NEW f, md = [nd EXCEPT !.flight = f]
      PROVE  /\ md.flight = f /\ md.n = nd.n /\ md.w = nd.w /\ md.term = nd.term /\ md.lo = nd.lo
             /\ md.up = nd.up /\ md.own = nd.own /\ md.solid = nd.solid
  BY <1>3 DEF Node
<1>4. ASSUME NEW y \in DOMAIN t
      PROVE  /\ Alike(t, u, y) /\ u[y].solid = t[y].solid
             /\ u[y].flight = t[y].flight + (IF y = x THEN a ELSE 0)
                                + (IF y \in AboveTo(h, x) THEN k ELSE 0)
  <2>. DEFINE f == t[y].flight + (IF y = x THEN a ELSE 0) + (IF y \in AboveTo(h, x) THEN k ELSE 0)
  <2>1. u[y] = [t[y] EXCEPT !.flight = f] /\ t[y] \in Node
    BY <1>2 DEF IsReserved
  <2>. HIDE DEF f
  <2>2. /\ u[y].flight = f /\ u[y].n = t[y].n /\ u[y].w = t[y].w /\ u[y].term = t[y].term
        /\ u[y].lo = t[y].lo /\ u[y].up = t[y].up /\ u[y].own = t[y].own /\ u[y].solid = t[y].solid
    BY <1>3, <2>1
  <2>. QED BY <2>2 DEF Alike, f
<1>5. ASSUME NEW y \in DOMAIN t \ Subtree[h] PROVE u[y] = t[y]
  <2>1. y # x /\ y \notin AboveTo(h, x)
    BY AboveIn
  <2>2. t[y] \in Node /\ t[y].flight \in Int
    BY <1>2, NodeType
  <2>3. u[y] = [t[y] EXCEPT !.flight = t[y].flight]
    <3>1. t[y].flight + 0 + 0 = t[y].flight
      BY <2>2
    <3>. QED BY <2>1, <3>1 DEF IsReserved
  <2>. QED BY <2>2, <2>3 DEF Node
<1>6. Subtree[h] \subseteq DOMAIN t
  BY DEF IsTree
<1>. QED BY <1>1, <1>4, <1>5, <1>6 DEF FlightsMove

\* A node is one with any flight.
LEMMA FlightSet ==
  ASSUME NEW nd \in Node, NEW f \in Int
  PROVE  /\ [nd EXCEPT !.flight = f] \in Node
         /\ f = nd.flight => [nd EXCEPT !.flight = f] = nd
<1>1. nd = [n |-> nd.n, flight |-> nd.flight, w |-> nd.w, term |-> nd.term, lo |-> nd.lo,
            up |-> nd.up, solid |-> nd.solid, own |-> nd.own]
  BY DEF Node
<1>2. [nd EXCEPT !.flight = f]
        = [n |-> nd.n, flight |-> f, w |-> nd.w, term |-> nd.term, lo |-> nd.lo,
           up |-> nd.up, solid |-> nd.solid, own |-> nd.own]
  BY <1>1
<1>3. /\ nd.n \in Nat /\ nd.w \in Int /\ nd.term \in {"no", "end", "twofold"}
      /\ nd.lo \in -1 .. 1 /\ nd.up \in -1 .. 1 /\ nd.solid \in BOOLEAN /\ nd.own \in -1 .. 1
  BY NodeType
<1>4. [nd EXCEPT !.flight = f] \in Node
  BY <1>2, <1>3 DEF Node
<1>5. f = nd.flight => [nd EXCEPT !.flight = f] = nd
  BY <1>1, <1>2
<1>. QED BY <1>4, <1>5

\* A leaf's own flight, and those above it.
IsMarked(t, u, x, a, k) == u = [Reserved(t, x, k) EXCEPT ![x].flight = IF a = 1 THEN @ + 1 ELSE @]

\* Reserved and Cancelled are what their comment says.
LEMMA ReservedIs ==
  ASSUME head \in Nodes, NEW t, DOMAIN t = Game, IsTree(t, head), NEW x \in Subtree[head],
         NEW a \in {0, 1}, NEW k \in Int, NEW u,
         IsMarked(t, u, x, a, k)
  PROVE  u \in [Game -> Node] /\ IsReserved(t, u, head, x, a, k)
<1>. DEFINE F(y) == t[y].flight + (IF y = x THEN a ELSE 0) + (IF y \in AboveTo(head, x) THEN k ELSE 0)
            r == Reserved(t, x, k)
<1>1. /\ x \in Game /\ x \notin AboveTo(head, x) /\ Above(x) = AboveTo(head, x)
      /\ \A y \in Game : t[y] \in Node /\ t[y].flight \in Int
  BY AboveIn, AboveIs, NodeType DEF IsTree
<1>2. \A y \in Game : F(y) \in Int
  BY <1>1
<1>3. /\ DOMAIN r = Game
      /\ \A y \in Above(x) : y \in Game => r[y] = [t[y] EXCEPT !.flight = t[y].flight + k]
      /\ \A y \in Game : y \notin Above(x) => r[y] = t[y]
  BY DEF Reserved
<1>4. u = [y \in Game |-> u[y]] /\ DOMAIN u = Game /\ \A y \in Game : y # x => u[y] = r[y]
  <2>1. u = [r EXCEPT ![x] = [r[x] EXCEPT !.flight = IF a = 1 THEN r[x].flight + 1 ELSE r[x].flight]]
    BY DEF IsMarked
  <2>2. r = [y \in Game |-> r[y]]
    BY DEF Reserved
  <2>. HIDE DEF r
  <2>. DEFINE m == [r[x] EXCEPT !.flight = IF a = 1 THEN r[x].flight + 1 ELSE r[x].flight]
  <2>3. u = [r EXCEPT ![x] = m]
    BY ONLY <2>1
  <2>. HIDE DEF m
  <2>. QED BY ONLY <2>2, <2>3
<1>5. u[x] = [t[x] EXCEPT !.flight = IF a = 1 THEN t[x].flight + 1 ELSE t[x].flight]
  <2>1. r[x] = t[x]
    BY <1>1, <1>3
  <2>2. u = [r EXCEPT ![x] = [r[x] EXCEPT !.flight = IF a = 1 THEN r[x].flight + 1 ELSE r[x].flight]]
    BY DEF IsMarked
  <2>. HIDE DEF r
  <2>3. u[x] = [r[x] EXCEPT !.flight = IF a = 1 THEN r[x].flight + 1 ELSE r[x].flight]
    <3>. DEFINE m == [r[x] EXCEPT !.flight = IF a = 1 THEN r[x].flight + 1 ELSE r[x].flight]
    <3>1. u = [r EXCEPT ![x] = m]
      BY ONLY <2>2
    <3>. HIDE DEF m
    <3>2. u[x] = m
      BY ONLY <1>1, <1>3, <3>1
    <3>. QED BY ONLY <3>2 DEF m
  <2>. QED BY ONLY <2>1, <2>3
<1>. HIDE DEF r
<1>6. ASSUME NEW y \in Game PROVE u[y] = [t[y] EXCEPT !.flight = F(y)]
  <2>1. CASE y = x
    <3>1. F(x) = IF a = 1 THEN t[x].flight + 1 ELSE t[x].flight
      BY <1>1
    <3>. HIDE DEF F
    <3>. QED BY <1>5, <2>1, <3>1
  <2>2. CASE y \in AboveTo(head, x)
    <3>1. F(y) = t[y].flight + k /\ y # x
      BY <1>1, <2>2
    <3>. HIDE DEF F
    <3>. QED BY <1>1, <1>3, <1>4, <2>2, <3>1
  <2>3. CASE y # x /\ y \notin AboveTo(head, x)
    <3>1. F(y) = t[y].flight
      BY <1>1, <2>3
    <3>2. u[y] = t[y]
      BY <1>1, <1>3, <1>4, <2>3
    <3>. HIDE DEF F
    <3>. QED BY <1>1, <3>1, <3>2, FlightSet
  <2>. QED BY <2>1, <2>2, <2>3
<1>7. \A y \in Game : u[y] \in Node
  <2>. HIDE DEF F
  <2>1. SUFFICES ASSUME NEW y \in Game PROVE u[y] \in Node
    OBVIOUS
  <2>. DEFINE nd == t[y]
              f == F(y)
  <2>2. nd \in Node /\ f \in Int /\ u[y] = [nd EXCEPT !.flight = f]
    BY <1>1, <1>2, <1>6
  <2>. HIDE DEF nd, f
  <2>. QED BY <2>2, FlightSet
<1>8. u \in [Game -> Node]
  <2>. QED BY ONLY <1>4, <1>7
<1>. QED BY <1>4, <1>6, <1>8 DEF IsReserved

\* The same with no flight of the leaf's own.
LEMMA OnlyReservedIs ==
  ASSUME head \in Nodes, NEW t, DOMAIN t = Game, IsTree(t, head), NEW x \in Subtree[head],
         NEW k \in Int, NEW u, u = Reserved(t, x, k)
  PROVE  u \in [Game -> Node] /\ IsReserved(t, u, head, x, 0, k)
<1>. DEFINE r == Reserved(t, x, k)
<1>1. r = [y \in Game |-> r[y]] /\ r[x] = t[x] /\ x \in Game /\ t[x] \in Node /\ t[x].flight \in Int
  BY AboveIn, AboveIs, NodeType DEF IsTree, Reserved
<1>2. IsMarked(t, u, x, 0, k)
  <2>. HIDE DEF r
  <2>1. [r EXCEPT ![x].flight = IF 0 = 1 THEN @ + 1 ELSE @] = [r EXCEPT ![x] = [t[x] EXCEPT !.flight = t[x].flight]]
    BY <1>1
  <2>2. [t[x] EXCEPT !.flight = t[x].flight] = t[x]
    BY <1>1, FlightSet
  <2>3. [r EXCEPT ![x] = t[x]] = r
    BY <1>1
  <2>4. u = r
    BY DEF r
  <2>. QED BY <2>1, <2>2, <2>3, <2>4 DEF IsMarked, r
<1>3. 0 \in {0, 1}
  OBVIOUS
<1>. HIDE DEF r
<1>4. u \in [Game -> Node] /\ IsReserved(t, u, head, x, 0, k)
  BY <1>2, <1>3, ReservedIs
<1>. QED BY <1>4

HeldMoves(c, b, x, a, k) ==
  \A y : /\ HeldAt(c, y, Visiting) = HeldAt(b, y, Visiting) + IF y = x THEN a ELSE 0
         /\ HeldAt(c, y, Kinds) = HeldAt(b, y, Kinds) + IF y = x THEN k ELSE 0

\* The ledger after a change of one minibatch and the flights it accounts for.
LEMMA LedgerStep ==
  ASSUME NEW E, \A e \in E : e.multivisit \in Nat, NEW G, NEW h \in Nodes, Subtree[h] \subseteq G,
         NEW B \in [Workers -> Seq(E)], NEW v \in Workers, NEW c \in Seq(E), NEW S \in [G -> Nat],
         NEW t, NEW u, DOMAIN t = G, DOMAIN u = G,
         NEW x \in Subtree[h], NEW a \in Int, NEW k \in Int, LedgerIn(t, h, B, S),
         HeldMoves(c, B[v], x, a, k), FlightsMove(t, u, h, x, a, k)
  PROVE  LedgerIn(u, h, [B EXCEPT ![v] = c], S)
<1>. DEFINE D == [B EXCEPT ![v] = c]
<1>1. D \in [Workers -> Seq(E)]
  OBVIOUS
<1>2. ASSUME NEW y
      PROVE  /\ HeldBy(D, y, Visiting) = HeldBy(B, y, Visiting) + IF y = x THEN a ELSE 0
             /\ HeldBy(D, y, Kinds) = HeldBy(B, y, Kinds) + IF y = x THEN k ELSE 0
             /\ HeldBy(B, y, Kinds) \in Nat /\ HeldBy(D, y, Kinds) \in Nat
  <2>1. ASSUME NEW K
        PROVE  /\ HeldBy(D, y, K) = HeldBy(B, y, K) + (HeldAt(c, y, K) - HeldAt(B[v], y, K))
               /\ HeldAt(c, y, K) \in Nat /\ HeldAt(B[v], y, K) \in Nat /\ HeldBy(B, y, K) \in Nat
    BY HeldByChange
  <2>. HIDE DEF D
  <2>. DEFINE p == IF y = x THEN a ELSE 0
              q == IF y = x THEN k ELSE 0
  <2>2. p \in Int /\ q \in Int
    OBVIOUS
  <2>3. /\ HeldAt(c, y, Visiting) = HeldAt(B[v], y, Visiting) + p
        /\ HeldAt(c, y, Kinds) = HeldAt(B[v], y, Kinds) + q
    BY DEF HeldMoves
  <2>. HIDE DEF p, q
  <2>4. HeldBy(D, y, Visiting) = HeldBy(B, y, Visiting) + p
    BY <2>1, <2>2, <2>3
  <2>5. HeldBy(D, y, Kinds) = HeldBy(B, y, Kinds) + q
    BY <2>1, <2>2, <2>3
  <2>6. HeldBy(D, y, Kinds) \in Nat
    BY <1>1, HeldByIs
  <2>. QED BY <2>1, <2>4, <2>5, <2>6 DEF p, q
<1>. HIDE DEF D
<1>3. ASSUME NEW y \in Subtree[h]
      PROVE  HeldBy(D, y, Kinds) + S[y] = HeldBy(B, y, Kinds) + S[y] + IF y = x THEN k ELSE 0
  <2>. DEFINE q == IF y = x THEN k ELSE 0
  <2>1. q \in Int /\ S[y] \in Nat
    OBVIOUS
  <2>2. HeldBy(D, y, Kinds) = HeldBy(B, y, Kinds) + q /\ HeldBy(B, y, Kinds) \in Nat
    BY <1>2
  <2>. HIDE DEF q
  <2>3. HeldBy(D, y, Kinds) + S[y] = HeldBy(B, y, Kinds) + S[y] + q
    BY <2>1, <2>2
  <2>. QED BY <2>3 DEF q
<1>4. Accounts(t, u, h, B, D, S, S, x, a, k)
  BY <1>2, <1>3 DEF Accounts, FlightsMove
<1>5. LedgerIn(u, h, D, S)
  BY <1>1, <1>4, LedgerMove
<1>. QED BY <1>5 DEF D

\* An entry of more visits.
LEMMA EntryGrown ==
  ASSUME NEW G, NEW e \in EntryIn(G), NEW m \in Nat \ {0}, NEW a, a = [e EXCEPT !.multivisit = m]
  PROVE  a \in EntryIn(G) /\ a.node = e.node /\ a.kind = e.kind /\ a.multivisit = m
BY DEF EntryIn

\* An entry of another kind.
LEMMA EntryTurned ==
  ASSUME NEW G, NEW e \in EntryIn(G), NEW what \in Kinds, NEW a, a = [e EXCEPT !.kind = what]
  PROVE  a \in EntryIn(G) /\ a.node = e.node /\ a.kind = what /\ a.multivisit = e.multivisit
BY DEF EntryIn

\* One entry exchanged for another of the same node.
LEMMA ExchangedThins ==
  ASSUME NEW E, NEW b \in Seq(E), NEW i \in DOMAIN b, NEW a \in E,
         a.node = b[i].node, IsCollision(a) <=> IsCollision(b[i]),
         NEW c, c = [b EXCEPT ![i] = a]
  PROVE  /\ c \in Seq(E) /\ DOMAIN c = DOMAIN b /\ Len(c) = Len(b) /\ c[i] = a
         /\ \A j \in DOMAIN b : j # i => c[j] = b[j]
         /\ Thins([j \in DOMAIN b |-> j], c, b)
<1>1. /\ c \in Seq(E) /\ DOMAIN c = DOMAIN b /\ Len(c) = Len(b) /\ c[i] = a
      /\ \A j \in DOMAIN b : j # i => c[j] = b[j]
  OBVIOUS
<1>2. \A j \in DOMAIN b : c[j].node = b[j].node /\ (~IsCollision(c[j]) => ~IsCollision(b[j]))
  BY <1>1
<1>. QED BY <1>1, <1>2 DEF Thins

\* There is still one visitor when what was visited stays visited.
LEMMA SameVisitors ==
  ASSUME NEW t, NEW u, NEW B, OneVisitorIn(t, B), StaysVisited(t, u, B)
  PROVE  OneVisitorIn(u, B)
BY DEF OneVisitorIn, StaysVisited

\* The same flights, and nothing else outside the search.
SameFlights(t, u, h) ==
  /\ \A y \in DOMAIN t \ Subtree[h] : u[y] = t[y]
  /\ \A y \in DOMAIN t : u[y].flight = t[y].flight /\ u[y].solid = t[y].solid

\* A step that changes the flights of a tree t, and a minibatch with them.
LEMMA FlightsHold ==
  ASSUME IInv, NEW v \in Workers, NEW to \in Places, NEW n \in Nat \ {0}, NEW c \in Seq(EntryIn(Game)),
         NEW x \in Subtree[head], NEW a \in Int, NEW k \in Int, NEW t, DOMAIN t = Game,
         IsTree(t, head), TreeHolds(t, head), EntriesHold(t, head, batch), OneVisitorIn(t, batch'),
         SameFlights(tree, t, head),
         CountsHold(t, head, initial_visits', total_playouts), initial_visits' \in Int,
         tree' \in [Game -> Node], IsReserved(t, tree', head, x, a, k), HeldMoves(c, batch[v], x, a, k),
         \A j \in DOMAIN c : EntryHolds(t, head, c[j]), ProgressOf(to, c, n),
         pc' = [pc EXCEPT ![v] = to], batch' = [batch EXCEPT ![v] = c],
         new_start' = [new_start EXCEPT ![v] = n], UNCHANGED <<head, worked, shared_collisions, total_playouts>>
  PROVE  IInv' /\ Settled(tree, tree')
<1>. DEFINE u == tree'
<1>1. /\ head \in Nodes /\ Subtree[head] \subseteq Game /\ DOMAIN tree = Game
      /\ head \in Subtree[head]
      /\ batch \in [Workers -> Seq(EntryIn(Game))] /\ shared_collisions \in [Game -> Nat]
      /\ LedgerIn(tree, head, batch, shared_collisions) /\ DOMAIN batch = Workers
      /\ \A e \in EntryIn(Game) : e.multivisit \in Nat /\ e.node \in Game
  BY Here
<1>2. u \in [DOMAIN t -> Node] /\ DOMAIN u = Game
  OBVIOUS
<1>3. /\ IsTree(u, head) /\ \A y \in DOMAIN t : Alike(t, u, y) /\ u[y].solid = t[y].solid
      /\ \A y \in DOMAIN t \ Subtree[head] : u[y] = t[y]
      /\ FlightsMove(t, u, head, x, a, k)
  <2>1. IsReserved(t, u, head, x, a, k)
    OBVIOUS
  <2>. HIDE DEF u
  <2>. QED BY <1>1, <1>2, <2>1, ReservedTree
<1>4. /\ TreeHolds(u, head) /\ Found(u, head) = Found(t, head)
      /\ \A z : EntryHolds(t, head, z) => EntryHolds(u, head, z)
  <2>1. \A y \in Subtree[head] : Alike(t, u, y)
    BY <1>1, <1>3
  <2>. HIDE DEF u
  <2>. QED BY <1>1, <1>3, <2>1, AlikeTree
<1>5. CountsHold(u, head, initial_visits', total_playouts')
  <2>1. u[head].n = t[head].n
    BY <1>1, <1>3 DEF Alike
  <2>. QED BY <1>4, <2>1 DEF CountsHold
<1>6. EntriesHold(u, head, [batch EXCEPT ![v] = c])
  <2>1. \A w \in Workers : \A i \in DOMAIN batch[w] : EntryHolds(u, head, batch[w][i])
    BY <1>4 DEF EntriesHold
  <2>2. \A i \in DOMAIN c : EntryHolds(u, head, c[i])
    BY <1>4
  <2>. HIDE DEF u
  <2>. QED BY <1>1, <2>1, <2>2, ChangedEntries
<1>7. OneVisitorIn(u, batch')
  <2>1. \A w \in Workers : batch'[w] \in Seq(EntryIn(Game))
    BY <1>1
  <2>2. \A w \in Workers : \A i \in DOMAIN batch'[w] : batch'[w][i] \in EntryIn(Game)
    BY <2>1
  <2>3. \A w \in Workers : \A i \in DOMAIN batch'[w] : u[batch'[w][i].node].n = t[batch'[w][i].node].n
    BY <1>1, <1>3, <2>2 DEF Alike
  <2>4. StaysVisited(t, u, batch')
    BY <2>3 DEF StaysVisited
  <2>. HIDE DEF u
  <2>. QED BY <2>4, SameVisitors
<1>8. LedgerIn(u, head, [batch EXCEPT ![v] = c], shared_collisions)
  <2>1. FlightsMove(tree, u, head, x, a, k)
    BY <1>1, <1>3 DEF FlightsMove, SameFlights
  <2>2. \A e \in EntryIn(Game) : e.multivisit \in Nat
    BY <1>1
  <2>. HIDE DEF u
  <2>. QED BY <1>1, <1>2, <2>1, <2>2, LedgerStep
<1>9. \A y \in Game \ Subtree[head] : u[y] = tree[y]
  BY <1>1, <1>3 DEF SameFlights
<1>10. /\ worked' \in [Workers -> BOOLEAN] /\ shared_collisions' \in [Game -> Nat]
       /\ total_playouts' \in Nat
       /\ head' = head
  BY Here
<1>11. IInv'
  BY <1>2, <1>3, <1>4, <1>5, <1>6, <1>7, <1>8, <1>9, <1>10, Together
<1>12. Settled(tree, tree')
  BY <1>1, <1>3 DEF Settled, SameFlights
<1>. QED BY <1>11, <1>12

\* The same where only the flights change.
LEMMA OnlyFlightsHold ==
  ASSUME IInv, NEW v \in Workers, NEW to \in Places, NEW c \in Seq(EntryIn(Game)),
         NEW x \in Subtree[head], NEW k \in Int, tree' = Reserved(tree, x, k),
         HeldMoves(c, batch[v], x, 0, k), NEW f, Thins(f, c, batch[v]),
         \A j \in DOMAIN c : EntryHolds(tree, head, c[j]), ProgressOf(to, c, new_start[v]),
         pc' = [pc EXCEPT ![v] = to], batch' = [batch EXCEPT ![v] = c],
         UNCHANGED <<head, new_start, worked, shared_collisions, total_playouts, initial_visits>>
  PROVE  IInv' /\ Settled(tree, tree')
<1>1. /\ head \in Nodes /\ DOMAIN tree = Game /\ IsTree(tree, head) /\ TreeHolds(tree, head)
      /\ EntriesHold(tree, head, batch) /\ OneVisitorIn(tree, batch) /\ DOMAIN batch = Workers
      /\ CountsHold(tree, head, initial_visits', total_playouts) /\ initial_visits' \in Int
      /\ new_start[v] \in Nat \ {0} /\ new_start' = [new_start EXCEPT ![v] = new_start[v]]
  BY Here
<1>2. tree' \in [Game -> Node] /\ IsReserved(tree, tree', head, x, 0, k)
  BY <1>1, OnlyReservedIs
<1>3. OneVisitorIn(tree, batch')
  <2>1. StaysVisited(tree, tree, batch)
    BY DEF StaysVisited
  <2>. QED BY <1>1, <2>1, ThinnedVisitors
<1>4. 0 \in Int /\ SameFlights(tree, tree, head)
  BY DEF SameFlights
<1>. QED BY <1>1, <1>2, <1>3, <1>4, FlightsHold

\* Upsize keeps the invariant.
LEMMA UpsizeHolds ==
  ASSUME IInv, NEW v \in Workers, Upsize(v)
  PROVE  IInv' /\ Settled(tree, tree')
<1>. DEFINE b == batch[v]
            m == Len(b)
            e == b[m]
            x == e.node
<1>1. /\ b \in Seq(EntryIn(Game)) /\ m \in DOMAIN b /\ e \in EntryIn(Game) /\ IsCollision(e)
      /\ m \in Nat /\ EntryHolds(tree, head, e) /\ Last(b) = e
  <2>1. b \in Seq(EntryIn(Game)) /\ new_start[v] \in Nat \ {0} /\ EntriesHold(tree, head, batch)
    BY Here
  <2>2. m \in Nat /\ m \in new_start[v] .. m
    BY <2>1 DEF Upsize, Fresh
  <2>3. m \in DOMAIN b
    BY <2>1, <2>2
  <2>4. IsCollision(e) /\ Last(b) = e
    BY DEF Upsize, Last
  <2>. QED BY <2>1, <2>2, <2>3, <2>4 DEF EntriesHold
<1>2. PICK extra \in 1 .. MaxMultivisit - Last(batch[v]).multivisit :
        /\ tree' = Reserved(tree, Last(batch[v]).node, extra)
        /\ batch' = [batch EXCEPT ![v][Len(batch[v])].multivisit = @ + extra]
  BY DEF Upsize
<1>3. extra \in Nat /\ extra \in Int /\ extra >= 1
  OBVIOUS
<1>. DEFINE k == e.multivisit + extra
            a == [e EXCEPT !.multivisit = k]
            c == [b EXCEPT ![m] = a]
<1>4. batch' = [batch EXCEPT ![v] = c] /\ tree' = Reserved(tree, x, extra)
  BY <1>1, <1>2
<1>5. /\ x \in Subtree[head] /\ e.multivisit \in Nat \ {0} /\ k \in Nat \ {0}
      /\ e.kind = "collision"
      /\ x \in Game
  <2>1. e.multivisit \in Nat \ {0} /\ x \in Game
    BY <1>1 DEF EntryIn
  <2>2. k \in Nat \ {0}
    BY <1>3, <2>1
  <2>. QED BY <1>1, <2>1, <2>2 DEF EntryHolds, Reached, IsCollision
<1>6. /\ a \in EntryIn(Game) /\ a.node = x /\ a.kind = "collision" /\ a.multivisit = k
      /\ IsCollision(a)
  <2>. HIDE DEF k, e
  <2>1. a = [e EXCEPT !.multivisit = k]
    OBVIOUS
  <2>. HIDE DEF a
  <2>2. a \in EntryIn(Game) /\ a.node = e.node /\ a.kind = e.kind /\ a.multivisit = k
    BY <1>1, <1>5, <2>1, EntryGrown
  <2>. QED BY <1>5, <2>2 DEF IsCollision
<1>. HIDE DEF a, k
<1>7. /\ c \in Seq(EntryIn(Game)) /\ DOMAIN c = DOMAIN b /\ Len(c) = m /\ c[m] = a
      /\ \A j \in DOMAIN b : j # m => c[j] = b[j]
      /\ Thins([j \in DOMAIN b |-> j], c, b)
  <2>. HIDE DEF b, e
  <2>. QED BY <1>1, <1>6, ExchangedThins DEF e
<1>8. HeldMoves(c, b, x, 0, extra)
  <2>1. ASSUME NEW y, NEW K
        PROVE  HeldAt(c, y, K) = HeldAt(b, y, K) + (Mult(a, y, K) - Mult(e, y, K)) /\ HeldAt(b, y, K) \in Nat
    <3>1. \A z \in EntryIn(Game) : z.multivisit \in Nat
      BY Here
    <3>. HIDE DEF b
    <3>. QED BY <1>1, <1>6, <3>1, HeldExcept
  <2>2. ASSUME NEW y
        PROVE  /\ HeldAt(c, y, Visiting) = HeldAt(batch[v], y, Visiting) + IF y = x THEN 0 ELSE 0
               /\ HeldAt(c, y, Kinds) = HeldAt(batch[v], y, Kinds) + IF y = x THEN extra ELSE 0
    <3>1. Mult(a, y, Visiting) = 0 /\ Mult(e, y, Visiting) = 0
      BY <1>5, <1>6 DEF Mult, Visiting
    <3>2. /\ Mult(a, y, Kinds) = IF y = x THEN k ELSE 0
          /\ Mult(e, y, Kinds) = IF y = x THEN e.multivisit ELSE 0
      BY <1>5, <1>6 DEF Mult, Kinds
    <3>3. Mult(a, y, Kinds) - Mult(e, y, Kinds) = IF y = x THEN extra ELSE 0
      BY <1>3, <1>5, <3>2 DEF k
    <3>4. /\ HeldAt(c, y, Visiting) = HeldAt(b, y, Visiting) + (Mult(a, y, Visiting) - Mult(e, y, Visiting))
          /\ HeldAt(b, y, Visiting) \in Nat
      BY <2>1
    <3>5. HeldAt(c, y, Kinds) = HeldAt(b, y, Kinds) + (Mult(a, y, Kinds) - Mult(e, y, Kinds))
      BY <2>1
    <3>6. HeldAt(c, y, Visiting) = HeldAt(b, y, Visiting)
      BY <3>1, <3>4
    <3>7. HeldAt(c, y, Kinds) = HeldAt(b, y, Kinds) + IF y = x THEN extra ELSE 0
      BY <3>3, <3>5
    <3>. QED BY <3>4, <3>6, <3>7
  <2>. HIDE DEF c, x
  <2>. QED BY <2>2 DEF HeldMoves
<1>9. \A i \in DOMAIN c : EntryHolds(tree, head, c[i])
  <2>1. EntryHolds(tree, head, a)
    BY <1>1, <1>6 DEF EntryHolds
  <2>2. \A i \in DOMAIN b : EntryHolds(tree, head, b[i])
    BY Here DEF EntriesHold
  <2>. HIDE DEF c, b
  <2>. QED BY <1>7, <2>1, <2>2
<1>10. ProgressOf("gathered", c, new_start[v]) /\ "gathered" \in Places
  <2>1. \A i \in DOMAIN b : b[i].kind # "picked"
    BY DEF Upsize, Processed
  <2>2. \A i \in DOMAIN c : c[i].kind # "picked"
    <3>. HIDE DEF c, b
    <3>. QED BY <1>6, <1>7, <2>1
  <2>. QED BY <2>2 DEF ProgressOf, Places
<1>11. /\ pc' = [pc EXCEPT ![v] = "gathered"]
       /\ UNCHANGED <<head, new_start, worked, shared_collisions, total_playouts, initial_visits>>
  BY DEF Upsize, Goto
<1>. DEFINE f == [j \in DOMAIN b |-> j]
<1>12. Thins(f, c, batch[v]) /\ HeldMoves(c, batch[v], x, 0, extra)
  BY <1>7, <1>8
<1>. HIDE DEF c, x, f
<1>. QED BY <1>3, <1>4, <1>5, <1>7, <1>9, <1>10, <1>11, <1>12, OnlyFlightsHold

Collected(S, R, G, b) == R = [x \in G |-> S[x] + HeldAt(b, x, {"collision"})]

\* Collisions go from a minibatch to the shared ones.
LEMMA CollectLedger ==
  ASSUME NEW E, \A e \in E : e.multivisit \in Nat, NEW G, NEW h \in Nodes, Subtree[h] \subseteq G,
         NEW B \in [Workers -> Seq(E)], NEW v \in Workers, NEW c \in Seq(E), HoldsOn(c, B[v]),
         NEW S \in [G -> Nat], NEW t, DOMAIN t = G, IsTree(t, h),
         LedgerIn(t, h, B, S), NEW R, Collected(S, R, G, B[v])
  PROVE  R \in [G -> Nat] /\ LedgerIn(t, h, [B EXCEPT ![v] = c], R)
<1>. DEFINE D == [B EXCEPT ![v] = c]
<1>1. D \in [Workers -> Seq(E)]
  OBVIOUS
<1>2. \A y : HeldAt(B[v], y, {"collision"}) \in Nat
  BY HeldIs
<1>3. R \in [G -> Nat] /\ \A y \in G : R[y] = S[y] + HeldAt(B[v], y, {"collision"})
  BY <1>2 DEF Collected
<1>4. ASSUME NEW y \in G
      PROVE  /\ HeldBy(D, y, Visiting) = HeldBy(B, y, Visiting) + 0
             /\ HeldBy(D, y, Kinds) + R[y] = HeldBy(B, y, Kinds) + S[y] + 0
  <2>1. ASSUME NEW K
        PROVE  /\ HeldBy(D, y, K) = HeldBy(B, y, K) + (HeldAt(c, y, K) - HeldAt(B[v], y, K))
               /\ HeldAt(c, y, K) \in Nat /\ HeldAt(B[v], y, K) \in Nat /\ HeldBy(B, y, K) \in Nat
    BY HeldByChange
  <2>2. /\ HeldAt(c, y, Visiting) = HeldAt(B[v], y, Visiting)
        /\ HeldAt(c, y, Kinds) = HeldAt(B[v], y, Kinds) - HeldAt(B[v], y, {"collision"})
    BY DEF HoldsOn, Visiting
  <2>3. S[y] \in Nat
    OBVIOUS
  <2>. HIDE DEF D
  <2>4. HeldBy(D, y, Visiting) = HeldBy(B, y, Visiting) + 0
    BY <2>1, <2>2
  <2>5. HeldBy(D, y, Kinds) + R[y] = HeldBy(B, y, Kinds) + S[y] + 0
    <3>1. /\ HeldBy(D, y, Kinds) = HeldBy(B, y, Kinds) + (HeldAt(c, y, Kinds) - HeldAt(B[v], y, Kinds))
          /\ HeldAt(B[v], y, Kinds) \in Nat /\ HeldBy(B, y, Kinds) \in Nat
      BY <2>1
    <3>2. R[y] = S[y] + HeldAt(B[v], y, {"collision"}) /\ HeldAt(B[v], y, {"collision"}) \in Nat
      BY <1>2, <1>3
    <3>. QED BY ONLY <2>2, <2>3, <3>1, <3>2
  <2>. QED BY <2>4, <2>5
<1>. HIDE DEF D
<1>5. Accounts(t, t, h, B, D, S, R, h, 0, 0)
  <2>1. \A y \in Subtree[h] : t[y].flight = t[y].flight + 0 + 0
    BY NodeType DEF IsTree
  <2>. QED BY <1>4, <2>1 DEF Accounts
<1>6. h \in Subtree[h] /\ 0 \in Int
  BY InSubtree
<1>7. LedgerIn(t, h, D, R)
  BY <1>1, <1>3, <1>5, <1>6, LedgerMove
<1>. QED BY <1>3, <1>7 DEF D

\* CollectCollisions keeps the invariant: what it takes from the minibatch it shares.
LEMMA CollectCollisionsHolds ==
  ASSUME IInv, NEW v \in Workers, CollectCollisions(v)
  PROVE  IInv' /\ Settled(tree, tree')
<1>. DEFINE b == batch[v]
            c == WithoutCollisions(b)
<1>1. /\ batch' = [batch EXCEPT ![v] = c] /\ b \in Seq(EntryIn(Game)) /\ tree' = tree
      /\ head' = head
      /\ shared_collisions' = [x \in Game |-> shared_collisions[x] + HeldAt(b, x, {"collision"})]
      /\ pc' = [pc EXCEPT ![v] = "evaluate"] /\ new_start' = [new_start EXCEPT ![v] = 1]
      /\ worked' = worked /\ total_playouts' = total_playouts /\ initial_visits' = initial_visits
  BY Here DEF CollectCollisions, Goto
<1>2. \A e \in EntryIn(Game) : e.multivisit \in Nat /\ e.kind \in Kinds
  BY Here
<1>3. c \in Seq(EntryIn(Game)) /\ HoldsOn(c, b) /\ \E f : Selects(f, c, b)
  <2>. HIDE DEF b
  <2>. QED BY <1>1, <1>2, Kept
<1>. HIDE DEF c
<1>4. PICK f : Selects(f, c, b)
  BY <1>3
<1>5. shared_collisions' \in [Game -> Nat] /\ LedgerIn(tree', head, batch', shared_collisions')
  <2>1. /\ \A e \in EntryIn(Game) : e.multivisit \in Nat
        /\ head \in Nodes /\ Subtree[head] \subseteq Game /\ DOMAIN tree = Game
        /\ batch \in [Workers -> Seq(EntryIn(Game))] /\ shared_collisions \in [Game -> Nat]
        /\ LedgerIn(tree, head, batch, shared_collisions) /\ IsTree(tree, head)
    BY Here
  <2>2. HoldsOn(c, batch[v])
    BY <1>3
  <2>3. shared_collisions' = [x \in Game |-> shared_collisions[x] + HeldAt(batch[v], x, {"collision"})]
    BY <1>1
  <2>. DEFINE R == shared_collisions'
  <2>5. Collected(shared_collisions, R, Game, batch[v]) /\ c \in Seq(EntryIn(Game))
    BY <1>3, <2>3 DEF Collected
  <2>. HIDE DEF R, b
  <2>4. R \in [Game -> Nat] /\ LedgerIn(tree, head, [batch EXCEPT ![v] = c], R)
    BY <2>1, <2>2, <2>5, CollectLedger
  <2>. QED BY <1>1, <2>4 DEF R, b
<1>6. \A j \in DOMAIN c : f[j] \in DOMAIN b /\ c[j] = b[f[j]] /\ ~IsCollision(c[j])
  BY <1>4 DEF Selects
<1>7. EntriesHold(tree', head, batch')
  <2>1. \A w \in Workers : \A i \in DOMAIN batch[w] : EntryHolds(tree', head, batch[w][i])
    BY <1>1, Here DEF EntriesHold
  <2>2. DOMAIN batch = Workers
    BY Here
  <2>. QED BY <1>1, <1>6, <2>1, <2>2, ChangedEntries
<1>8. OneVisitorIn(tree', batch')
  <2>1. Thins(f, c, b)
    BY <1>4, <1>6 DEF Thins, Selects
  <2>2. StaysVisited(tree, tree, batch) /\ DOMAIN batch = Workers /\ OneVisitorIn(tree, batch)
    BY Here DEF StaysVisited
  <2>. QED BY <1>1, <2>1, <2>2, ThinnedVisitors
<1>9. ProgressOf("evaluate", c, 1) /\ "evaluate" \in Places
  <2>1. \A i \in DOMAIN b : b[i].kind # "picked"
    <3>1. ProgressOf("gathered", b, new_start[v])
      BY Here DEF CollectCollisions, ProgressIn
    <3>. QED BY <3>1 DEF ProgressOf
  <2>. QED BY <1>6, <2>1 DEF ProgressOf, Places
<1>10. /\ worked' \in [Workers -> BOOLEAN] /\ DOMAIN tree' = Game /\ IsTree(tree', head)
       /\ total_playouts' \in Nat /\ initial_visits' \in Int /\ 1 \in Nat \ {0}
       /\ \A y \in Game \ Subtree[head] : tree'[y] = tree[y]
       /\ TreeHolds(tree', head) /\ CountsHold(tree', head, initial_visits', total_playouts')
  BY <1>1, Here
<1>11. IInv'
  BY <1>1, <1>3, <1>5, <1>7, <1>8, <1>9, <1>10, Together
<1>. QED BY <1>1, <1>11 DEF Settled

\* A visit that is backed up is one of one visit.
LEMMA VisitLeaves ==
  ASSUME NEW E, \A e \in E : e.multivisit \in Nat /\ e.kind \in Kinds, NEW b \in Seq(E), NEW c \in Seq(E), NEW i,
         IsWithout(c, b, i), b[i].multivisit = 1, ~IsCollision(b[i]), NEW x, x = b[i].node
  PROVE  HeldMoves(c, b, x, -1, -1)
<1>. SUFFICES ASSUME NEW y
              PROVE  /\ HeldAt(c, y, Visiting) = HeldAt(b, y, Visiting) + IF y = x THEN -1 ELSE 0
                     /\ HeldAt(c, y, Kinds) = HeldAt(b, y, Kinds) + IF y = x THEN -1 ELSE 0
  BY DEF HeldMoves
<1>1. ASSUME NEW K PROVE HeldAt(b, y, K) = Mult(b[i], y, K) + HeldAt(c, y, K) /\ HeldAt(c, y, K) \in Nat
  <2>1. \A e \in E : e.multivisit \in Nat
    OBVIOUS
  <2>2. HeldAt(c, y, K) \in Nat
    BY <2>1, HeldIs
  <2>3. HeldAt(b, y, K) = Mult(b[i], y, K) + HeldAt(c, y, K)
    BY <2>1, HeldWithout
  <2>. QED BY <2>2, <2>3
<1>2. b[i].kind \in Visiting /\ b[i].kind \in Kinds
  BY DEF IsWithout, IsCollision, Visiting
<1>3. Mult(b[i], y, Visiting) = (IF y = x THEN 1 ELSE 0) /\ Mult(b[i], y, Kinds) = IF y = x THEN 1 ELSE 0
  BY <1>2 DEF Mult
<1>4. HeldAt(c, y, Visiting) = HeldAt(b, y, Visiting) + IF y = x THEN -1 ELSE 0
  BY <1>1, <1>3
<1>5. HeldAt(c, y, Kinds) = HeldAt(b, y, Kinds) + IF y = x THEN -1 ELSE 0
  BY <1>1, <1>3
<1>. QED BY <1>4, <1>5

KeepsEntries(t, u, h, x) ==
  \A e : EntryHolds(t, h, e) /\ (e.node = x /\ ~IsCollision(e) => t[x].n # 0) => EntryHolds(u, h, e)

\* What is left of the entries after one is backed up.
LEMMA EntriesAfter ==
  ASSUME NEW t, NEW u, NEW h, NEW B, DOMAIN B = Workers, EntriesHold(t, h, B), OneVisitorIn(t, B),
         NEW v \in Workers, NEW i \in DOMAIN B[v], NEW c, NEW f, Drops(f, c, B[v], i),
         NEW x, x = B[v][i].node, ~IsCollision(B[v][i]), KeepsEntries(t, u, h, x)
  PROVE  EntriesHold(u, h, [B EXCEPT ![v] = c])
<1>1. ASSUME NEW w \in Workers, NEW j \in DOMAIN B[w], w # v \/ j # i
      PROVE  EntryHolds(u, h, B[w][j])
  <2>1. EntryHolds(t, h, B[w][j])
    BY DEF EntriesHold
  <2>2. B[w][j].node = x /\ ~IsCollision(B[w][j]) => t[x].n # 0
    BY <1>1 DEF OneVisitorIn
  <2>. QED BY <2>1, <2>2 DEF KeepsEntries
<1>2. \A j \in DOMAIN c : EntryHolds(u, h, c[j])
  BY <1>1 DEF Drops, Thins
<1>. QED BY <1>1, <1>2, ChangedEntries

\* Backing up one entry of a minibatch keeps the invariant.
LEMMA BackedHolds ==
  ASSUME IInv, NEW v \in Workers, NEW i \in DOMAIN batch[v], NEW c \in Seq(EntryIn(Game)),
         IsWithout(c, batch[v], i), ~IsCollision(batch[v][i]), batch[v][i].kind # "picked",
         NEW to \in Places, ProgressOf(to, c, new_start[v]),
         pc' = [pc EXCEPT ![v] = to], batch' = [batch EXCEPT ![v] = c],
         tree' = BackedUp(tree, batch[v][i].node), worked' = [worked EXCEPT ![v] = TRUE],
         total_playouts' = total_playouts + 1, UNCHANGED <<head, new_start, shared_collisions, initial_visits>>
  PROVE  IInv' /\ Settled(tree, tree')
<1>. DEFINE b == batch[v]
            x == b[i].node
<1>1. /\ head \in Nodes /\ IsTree(tree, head) /\ TreeHolds(tree, head) /\ Game = DOMAIN tree
      /\ \A e \in EntryIn(Game) : e.multivisit \in Nat /\ e.kind \in Kinds
      /\ b \in Seq(EntryIn(Game)) /\ Subtree[head] \subseteq Game
      /\ batch \in [Workers -> Seq(EntryIn(Game))] /\ shared_collisions \in [Game -> Nat]
      /\ EntriesHold(tree, head, batch) /\ OneVisitorIn(tree, batch)
      /\ LedgerIn(tree, head, batch, shared_collisions) /\ DOMAIN batch = Workers
  BY Here
<1>2. /\ x \in Subtree[head] /\ Reached(tree, head, x) /\ b[i].multivisit = 1 /\ Ends(tree, x)
      /\ ~StaleAt(tree, head, x) /\ Extended(tree, head, x)
  BY <1>1 DEF EntriesHold, EntryHolds, Reached
<1>. DEFINE u == tree'
<1>3. IsBackedUp(tree, u, head, x) /\ \A y \in Game : u[y].solid /\ ~tree[y].solid => SafeIn(u, y)
  <2>1. u = BackedUp(tree, x)
    OBVIOUS
  <2>. HIDE DEF u, x
  <2>. QED BY <1>1, <1>2, <2>1, BackedUpIs
<1>4. Settled(tree, tree')
  <2>1. DOMAIN u = DOMAIN tree
    BY <1>3 DEF IsBackedUp
  <2>. HIDE DEF u
  <2>2. Settled(tree, u)
    BY <1>1, <1>3, <2>1 DEF Settled
  <2>. QED BY <2>2 DEF u
<1>5. /\ IsTree(u, head) /\ TreeHolds(u, head) /\ Found(u, head) = Found(tree, head)
      /\ u[head].n = tree[head].n + 1
      /\ \A y \in Subtree[head] : u[y].n = 0 => tree[y].n = 0
      /\ \A e : EntryHolds(tree, head, e) /\ (e.node = x /\ ~IsCollision(e) => tree[x].n # 0) => EntryHolds(u, head, e)
      /\ \A y \in Subtree[head] : u[y].flight = tree[y].flight - IF y = x \/ y \in AboveTo(head, x) THEN 1 ELSE 0
  <2>. HIDE DEF u, x
  <2>. QED BY <1>1, <1>2, <1>3, BackedTree
<1>6. DOMAIN u = Game /\ \A y \in Game \ Subtree[head] : u[y] = tree[y]
  <2>. HIDE DEF u, x
  <2>. QED BY <1>1, <1>2, <1>3, AboveIn DEF IsBackedUp, OnWay
<1>7. PICK f : Drops(f, c, b, i)
  BY <1>1, WithoutDrops
<1>8. EntriesHold(u, head, [batch EXCEPT ![v] = c])
  <2>1. Drops(f, c, batch[v], i) /\ x = batch[v][i].node /\ KeepsEntries(tree, u, head, x)
    BY <1>5, <1>7 DEF KeepsEntries
  <2>. HIDE DEF u, x
  <2>. QED BY <1>1, <2>1, EntriesAfter
<1>9. OneVisitorIn(u, [batch EXCEPT ![v] = c])
  <2>1. \A w \in Workers : \A j \in DOMAIN batch[w] : batch[w][j].node \in Subtree[head]
    BY <1>1 DEF EntriesHold, EntryHolds, Reached
  <2>2. StaysVisited(tree, u, batch)
    BY <1>5, <2>1 DEF StaysVisited
  <2>3. Thins(f, c, batch[v])
    BY <1>7 DEF Drops
  <2>. HIDE DEF u
  <2>. QED BY <1>1, <2>2, <2>3, ThinnedVisitors
<1>10. LedgerIn(u, head, [batch EXCEPT ![v] = c], shared_collisions)
  <2>1. HeldMoves(c, b, x, -1, -1)
    <3>1. IsWithout(c, b, i) /\ ~IsCollision(b[i]) /\ x = b[i].node
      OBVIOUS
    <3>. HIDE DEF b, x
    <3>. QED BY <1>1, <1>2, <3>1, VisitLeaves
  <2>2. FlightsMove(tree, u, head, x, -1, -1)
    <3>1. x \notin AboveTo(head, x) /\ \A y \in Subtree[head] : tree[y].flight \in Int
      BY <1>1, <1>2, AboveIn, NodeType DEF IsTree
    <3>2. SUFFICES ASSUME NEW y \in Subtree[head]
                   PROVE  u[y].flight = tree[y].flight + (IF y = x THEN -1 ELSE 0)
                                          + (IF y \in AboveTo(head, x) THEN -1 ELSE 0)
      BY DEF FlightsMove
    <3>. HIDE DEF u, x
    <3>. QED BY <1>5, <3>1
  <2>3. -1 \in Int
    OBVIOUS
  <2>4. HeldMoves(c, batch[v], x, -1, -1)
    BY <2>1
  <2>5. \A e \in EntryIn(Game) : e.multivisit \in Nat
    BY <1>1
  <2>. HIDE DEF u, x
  <2>. QED BY <1>1, <1>2, <1>6, <2>2, <2>3, <2>4, <2>5, LedgerStep
<1>11. CountsHold(tree', head, initial_visits', total_playouts')
  <2>1. /\ CountsHold(tree, head, initial_visits, total_playouts) /\ total_playouts \in Nat
        /\ initial_visits \in Int
    BY Here
  <2>2. initial_visits + (total_playouts + 1) = initial_visits + total_playouts + 1
    BY <2>1
  <2>. QED BY <1>5, <2>1, <2>2 DEF CountsHold
<1>12. /\ worked' \in [Workers -> BOOLEAN] /\ shared_collisions' \in [Game -> Nat]
       /\ total_playouts' \in Nat
       /\ initial_visits' \in Int /\ head' = head /\ new_start[v] \in Nat \ {0}
       /\ new_start' = [new_start EXCEPT ![v] = new_start[v]]
  BY Here
<1>13. IInv'
  BY <1>5, <1>6, <1>8, <1>9, <1>10, <1>11, <1>12, Together
<1>. QED BY <1>4, <1>13

\* BackupUpdate keeps the invariant.
LEMMA BackupUpdateHolds ==
  ASSUME IInv, NEW v \in Workers, BackupUpdate(v)
  PROVE  IInv' /\ Settled(tree, tree')
<1>. DEFINE b == batch[v]
            c == Tail(b)
<1>1. b \in Seq(EntryIn(Game)) /\ b # <<>>
  BY Here DEF BackupUpdate
<1>2. /\ c \in Seq(EntryIn(Game)) /\ 1 \in DOMAIN b /\ Head(b) = b[1] /\ IsWithout(c, b, 1)
      /\ \A j \in DOMAIN c : j + 1 \in DOMAIN b /\ c[j] = b[j + 1]
  <2>. HIDE DEF b
  <2>1. /\ c \in Seq(EntryIn(Game)) /\ 1 \in DOMAIN b /\ Head(b) = b[1] /\ Len(c) = Len(b) - 1
        /\ DOMAIN c = 1 .. Len(b) - 1
        /\ \A j \in DOMAIN c : j + 1 \in DOMAIN b /\ c[j] = b[j + 1]
    BY <1>1
  <2>2. \A j \in 1 .. Len(b) - 1 : ~(j < 1)
    OBVIOUS
  <2>. HIDE DEF c
  <2>. QED BY <2>1, <2>2 DEF IsWithout
<1>3. \A j \in DOMAIN b : b[j].kind # "picked" /\ ~IsCollision(b[j])
  <2>1. pc[v] \in {"evaluate", "backup"} /\ ProgressOf(pc[v], b, new_start[v])
    BY Here DEF BackupUpdate, Enters, ProgressIn
  <2>. QED BY <2>1 DEF ProgressOf
<1>. DEFINE i == 1
<1>4. /\ i \in DOMAIN batch[v] /\ IsWithout(c, batch[v], i) /\ ~IsCollision(batch[v][i])
      /\ batch[v][i].kind # "picked"
      /\ c \in Seq(EntryIn(Game))
  BY <1>2, <1>3
<1>5. "backup" \in Places /\ ProgressOf("backup", c, new_start[v])
  <2>1. \A j \in DOMAIN c : c[j].kind # "picked" /\ ~IsCollision(c[j])
    BY <1>2, <1>3
  <2>. QED BY <2>1 DEF ProgressOf, Places
<1>6. /\ pc' = [pc EXCEPT ![v] = "backup"] /\ batch' = [batch EXCEPT ![v] = c]
      /\ tree' = BackedUp(tree, batch[v][i].node) /\ worked' = [worked EXCEPT ![v] = TRUE]
      /\ total_playouts' = total_playouts + 1
      /\ UNCHANGED <<head, new_start, shared_collisions, initial_visits>>
  BY <1>2 DEF BackupUpdate, Goto
<1>. HIDE DEF c, i
<1>. QED BY <1>4, <1>5, <1>6, BackedHolds

\* OutOfOrder keeps the invariant, for a visit and for a collision.
LEMMA OutOfOrderHolds ==
  ASSUME IInv, NEW v \in Workers, OutOfOrder(v)
  PROVE  IInv' /\ Settled(tree, tree')
<1>. DEFINE b == batch[v]
            start == new_start[v]
            i == Max(DueIn(b, start))
            e == b[i]
            c == RemoveAt(b, i)
            to == IF DueIn(c, start) = {} THEN "gathered" ELSE "outOfOrder"
<1>1. b \in Seq(EntryIn(Game)) /\ start \in Nat \ {0} /\ Len(b) \in Nat /\ DOMAIN b = 1 .. Len(b)
  BY Here
<1>2. \A j \in DOMAIN b : b[j].kind # "picked"
  BY DEF OutOfOrder, Processed
<1>3. i \in DueIn(b, start)
  <2>1. DueIn(b, start) # {}
    <3>1. CASE pc[v] = "process"
      BY <3>1 DEF OutOfOrder, SomeOoo, Fresh, DueIn
    <3>2. CASE pc[v] = "outOfOrder"
      BY <3>2, Here DEF ProgressIn, ProgressOf
    <3>. QED BY <3>1, <3>2 DEF OutOfOrder, Enters
  <2>2. DueIn(b, start) \in SUBSET (1 .. Len(b))
    BY <1>1 DEF DueIn
  <2>. DEFINE S == DueIn(b, start)
              N == Len(b)
  <2>3. S \in SUBSET (1 .. N) /\ S # {} /\ N \in Nat
    BY <1>1, <2>1, <2>2
  <2>. HIDE DEF S, N
  <2>4. Max(S) \in S
    BY <2>3, MaxIsIn
  <2>. QED BY <2>4 DEF S
<1>4. i \in DOMAIN b /\ e.kind \in {"ooo", "collision"}
  BY <1>1, <1>3 DEF DueIn
<1>5. /\ batch' = [batch EXCEPT ![v] = c]
      /\ UNCHANGED <<head, new_start, shared_collisions, initial_visits>>
      /\ \/ /\ IsCollision(e) /\ tree' = Cancelled(tree, e.node, e.multivisit)
            /\ UNCHANGED <<worked, total_playouts>>
         \/ /\ ~IsCollision(e) /\ tree' = BackedUp(tree, e.node)
            /\ worked' = [worked EXCEPT ![v] = TRUE]
            /\ total_playouts' = total_playouts + 1
  BY DEF OutOfOrder, DueIn
<1>6. pc' = [pc EXCEPT ![v] = to]
  <2>1. batch'[v] = c
    BY <1>5, Here
  <2>. QED BY <2>1 DEF OutOfOrder, DueIn, Goto
<1>. HIDE DEF i
<1>7. c \in Seq(EntryIn(Game)) /\ IsWithout(c, b, i)
  <2>. HIDE DEF b
  <2>. QED BY <1>1, <1>4, RemoveIs DEF IsWithout
<1>. HIDE DEF c
<1>8. PICK f : Drops(f, c, b, i)
  BY <1>1, <1>7, WithoutDrops
<1>9. to \in Places /\ ProgressOf(to, c, start)
  <2>1. \A j \in DOMAIN c : c[j].kind # "picked"
    BY <1>2, <1>8 DEF Drops, Thins
  <2>. QED BY <2>1 DEF Places, ProgressOf
<1>. HIDE DEF to
<1>10. CASE ~IsCollision(e)
  BY <1>2, <1>4, <1>5, <1>6, <1>7, <1>9, <1>10, BackedHolds
<1>11. CASE IsCollision(e)
  <2>. DEFINE x == e.node
              k == -e.multivisit
  <2>1. \A z \in EntryIn(Game) : z.multivisit \in Nat
    BY Here
  <2>2. e \in EntryIn(Game) /\ e.multivisit \in Nat /\ k \in Int /\ e.kind = "collision"
    BY <1>1, <1>4, <1>11, <2>1 DEF IsCollision
  <2>3. EntryHolds(tree, head, e) /\ x \in Subtree[head]
    BY <1>4, Here DEF EntriesHold, EntryHolds, Reached
  <2>4. tree' = Reserved(tree, x, k)
    BY <1>5, <1>11 DEF Cancelled
  <2>5. HeldMoves(c, b, x, 0, k)
    <3>. SUFFICES ASSUME NEW y
                  PROVE  /\ HeldAt(c, y, Visiting) = HeldAt(b, y, Visiting) + IF y = x THEN 0 ELSE 0
                         /\ HeldAt(c, y, Kinds) = HeldAt(b, y, Kinds) + IF y = x THEN k ELSE 0
      BY DEF HeldMoves
    <3>1. ASSUME NEW K PROVE HeldAt(b, y, K) = Mult(e, y, K) + HeldAt(c, y, K) /\ HeldAt(c, y, K) \in Nat
      <4>. HIDE DEF b, e
      <4>. QED BY <1>1, <1>7, <2>1, HeldWithout, HeldIs DEF e
    <3>2. Mult(e, y, Visiting) = 0 /\ Mult(e, y, Kinds) = IF y = x THEN e.multivisit ELSE 0
      BY <2>2 DEF Mult, Visiting, Kinds
    <3>. HIDE DEF b, e, x
    <3>3. HeldAt(c, y, Visiting) = HeldAt(b, y, Visiting) + 0
      BY <3>1, <3>2
    <3>4. HeldAt(c, y, Kinds) = HeldAt(b, y, Kinds) + IF y = x THEN k ELSE 0
      BY <2>2, <3>1, <3>2
    <3>. QED BY <3>3, <3>4
  <2>6. \A j \in DOMAIN c : EntryHolds(tree, head, c[j])
    <3>1. \A j \in DOMAIN b : EntryHolds(tree, head, b[j])
      BY Here DEF EntriesHold
    <3>. QED BY <1>8, <3>1 DEF Drops, Thins
  <2>7. Thins(f, c, batch[v]) /\ HeldMoves(c, batch[v], x, 0, k) /\ ProgressOf(to, c, new_start[v])
    BY <1>8, <1>9, <2>5 DEF Drops
  <2>8. UNCHANGED <<head, new_start, worked, shared_collisions, total_playouts, initial_visits>>
    BY <1>5, <1>11
  <2>. HIDE DEF x, k
  <2>. QED BY <1>5, <1>6, <1>7, <1>9, <2>2, <2>3, <2>4, <2>6, <2>7, <2>8, OnlyFlightsHold
<1>. QED BY <1>10, <1>11

\* A node of which the visits, flights and children's place stay.
TurnsInto(nd, md) ==
  /\ md \in Node /\ md.n = nd.n /\ md.flight = nd.flight /\ md.solid = nd.solid

\* Extending the node of an entry keeps the invariant.
LEMMA TurnedHolds ==
  ASSUME IInv, NEW v \in Workers, NEW i \in DOMAIN batch[v], NEW what \in {"queried", "ooo"},
         pc[v] = "process", batch[v][i].kind = "picked", NEW x, x = batch[v][i].node,
         NEW nd, TurnsInto(tree[x], nd), tree' = [tree EXCEPT ![x] = nd],
         batch' = [batch EXCEPT ![v][i].kind = what],
         UNCHANGED <<head, new_start, worked, pc, shared_collisions, total_playouts, initial_visits>>,
         TreeHolds(tree', head), Found(tree', head) = Found(tree, head),
         \A e : EntryHolds(tree, head, e) => EntryHolds(tree', head, e), Extended(tree', head, x)
  PROVE  IInv' /\ Settled(tree, tree')
<1>. DEFINE b == batch[v]
            e == b[i]
            a == [e EXCEPT !.kind = what]
            c == [b EXCEPT ![i] = a]
            u == tree'
<1>1. /\ head \in Nodes /\ Subtree[head] \subseteq Game /\ DOMAIN tree = Game
      /\ head \in Subtree[head]
      /\ IsTree(tree, head)
      /\ batch \in [Workers -> Seq(EntryIn(Game))] /\ shared_collisions \in [Game -> Nat]
      /\ LedgerIn(tree, head, batch, shared_collisions) /\ DOMAIN batch = Workers
      /\ EntriesHold(tree, head, batch) /\ OneVisitorIn(tree, batch)
      /\ \A z \in EntryIn(Game) : z.multivisit \in Nat /\ z.node \in Game
  BY Here
<1>2. /\ b \in Seq(EntryIn(Game)) /\ e \in EntryIn(Game) /\ ~IsCollision(e)
      /\ EntryHolds(tree, head, e)
      /\ x = e.node /\ x \in Subtree[head] /\ x \in Game /\ what \in Kinds /\ i \in DOMAIN b
  BY <1>1 DEF IsCollision, EntriesHold, EntryHolds, Reached, Kinds
<1>3. /\ a \in EntryIn(Game) /\ a.node = x /\ a.kind = what /\ a.multivisit = e.multivisit
      /\ ~IsCollision(a)
  <2>1. a = [e EXCEPT !.kind = what]
    OBVIOUS
  <2>. HIDE DEF a, e
  <2>2. a \in EntryIn(Game) /\ a.node = e.node /\ a.kind = what /\ a.multivisit = e.multivisit
    BY <1>2, <2>1, EntryTurned
  <2>. QED BY <1>2, <2>2 DEF IsCollision
<1>4. batch' = [batch EXCEPT ![v] = c]
  OBVIOUS
<1>. HIDE DEF a
<1>5. /\ c \in Seq(EntryIn(Game)) /\ DOMAIN c = DOMAIN b /\ c[i] = a
      /\ \A j \in DOMAIN b : j # i => c[j] = b[j]
      /\ Thins([j \in DOMAIN b |-> j], c, b)
  <2>. HIDE DEF b, e
  <2>. QED BY <1>2, <1>3, ExchangedThins DEF e
<1>6. /\ DOMAIN u = Game /\ u[x] = nd /\ \A y \in Game : y # x => u[y] = tree[y]
  BY <1>1, <1>2
<1>7. /\ IsTree(u, head) /\ nd.n = tree[x].n /\ nd.flight = tree[x].flight
      /\ nd.solid = tree[x].solid
  <2>. HIDE DEF u
  <2>1. \A y \in Game : u[y] \in Node
    BY <1>1, <1>6 DEF IsTree, TurnsInto
  <2>2. u \in [Game -> Node]
    <3>1. u = [y \in Game |-> u[y]]
      BY <1>1, <1>6 DEF u
    <3>. QED BY <2>1, <3>1
  <2>. QED BY <1>1, <1>6, <2>2 DEF IsTree, TurnsInto
<1>8. \A y \in Game : u[y].n = tree[y].n /\ u[y].flight = tree[y].flight /\ u[y].solid = tree[y].solid
  <2>. HIDE DEF u
  <2>. QED BY <1>6, <1>7
<1>9. EntriesHold(u, head, [batch EXCEPT ![v] = c])
  <2>1. \A w \in Workers : \A j \in DOMAIN batch[w] : EntryHolds(u, head, batch[w][j])
    BY <1>1 DEF EntriesHold
  <2>2. EntryHolds(u, head, a)
    <3>1. EntryHolds(u, head, e)
      BY <1>2
    <3>. QED BY <1>2, <1>3, <3>1 DEF EntryHolds
  <2>3. \A j \in DOMAIN c : EntryHolds(u, head, c[j])
    <3>1. \A j \in DOMAIN b : EntryHolds(u, head, b[j])
      BY <2>1
    <3>. HIDE DEF c, b, u
    <3>. QED BY <1>5, <2>2, <3>1
  <2>. HIDE DEF c, u
  <2>. QED BY <1>1, <2>1, <2>3, ChangedEntries
<1>10. OneVisitorIn(u, [batch EXCEPT ![v] = c])
  <2>1. \A w \in Workers : \A j \in DOMAIN batch[w] : batch[w][j] \in EntryIn(Game)
    BY <1>1
  <2>2. StaysVisited(tree, u, batch)
    BY <1>1, <1>8, <2>1 DEF StaysVisited
  <2>. HIDE DEF c, u
  <2>. QED BY <1>1, <1>5, <2>2, ThinnedVisitors
<1>11. LedgerIn(u, head, [batch EXCEPT ![v] = c], shared_collisions)
  <2>1. ASSUME NEW y, NEW K
        PROVE  /\ HeldAt(c, y, K) = HeldAt(b, y, K) + (Mult(a, y, K) - Mult(e, y, K))
               /\ HeldAt(b, y, K) \in Nat /\ Mult(e, y, K) \in Nat
    <3>1. \A z \in EntryIn(Game) : z.multivisit \in Nat
      BY <1>1
    <3>2. b \in Seq(EntryIn(Game)) /\ i \in DOMAIN b /\ a \in EntryIn(Game)
      BY <1>2, <1>3
    <3>. HIDE DEF b, u
    <3>3. /\ HeldAt([b EXCEPT ![i] = a], y, K) = HeldAt(b, y, K) + (Mult(a, y, K) - Mult(b[i], y, K))
          /\ HeldAt(b, y, K) \in Nat /\ Mult(b[i], y, K) \in Nat
      BY ONLY <3>1, <3>2, HeldExcept, SMTT(30)
    <3>. QED BY <3>3
  <2>2. HeldMoves(c, b, x, 0, 0)
    <3>. SUFFICES ASSUME NEW y
                  PROVE  /\ HeldAt(c, y, Visiting) = HeldAt(b, y, Visiting) + IF y = x THEN 0 ELSE 0
                         /\ HeldAt(c, y, Kinds) = HeldAt(b, y, Kinds) + IF y = x THEN 0 ELSE 0
      BY DEF HeldMoves
    <3>1. Mult(a, y, Visiting) = Mult(e, y, Visiting) /\ Mult(a, y, Kinds) = Mult(e, y, Kinds)
      BY <1>2, <1>3 DEF Mult, Visiting, Kinds
    <3>. HIDE DEF b, c, e
    <3>2. HeldAt(c, y, Visiting) = HeldAt(b, y, Visiting) + 0
      BY <2>1, <3>1
    <3>3. HeldAt(c, y, Kinds) = HeldAt(b, y, Kinds) + 0
      BY <2>1, <3>1
    <3>. QED BY <3>2, <3>3
  <2>3. FlightsMove(tree, u, head, x, 0, 0)
    <3>1. \A y \in Subtree[head] : tree[y].flight \in Int /\ u[y].flight = tree[y].flight
      BY <1>1, <1>8, NodeType DEF IsTree
    <3>2. \A y \in Subtree[head] : tree[y].flight = tree[y].flight + 0 + 0
      BY <3>1
    <3>. HIDE DEF u
    <3>. QED BY <3>1, <3>2 DEF FlightsMove
  <2>4. /\ HeldMoves(c, batch[v], x, 0, 0) /\ 0 \in Int
        /\ \A z \in EntryIn(Game) : z.multivisit \in Nat
    BY <1>1, <2>2
  <2>. HIDE DEF c, u, b
  <2>. QED BY <1>1, <1>2, <1>5, <1>6, <2>3, <2>4, LedgerStep
<1>12. ProgressOf("process", c, new_start[v]) /\ "process" \in Places
  BY DEF ProgressOf, Places
<1>13. /\ pc' = [pc EXCEPT ![v] = "process"] /\ new_start' = [new_start EXCEPT ![v] = new_start[v]]
       /\ new_start[v] \in Nat \ {0} /\ worked' \in [Workers -> BOOLEAN] /\ head' = head
       /\ shared_collisions' \in [Game -> Nat] /\ total_playouts' \in Nat /\ initial_visits' \in Int
       /\ \A y \in Game \ Subtree[head] : u[y] = tree[y]
  BY <1>2, <1>6, Here
<1>14. CountsHold(u, head, initial_visits', total_playouts')
  <2>1. CountsHold(tree, head, initial_visits, total_playouts) /\ u[head].n = tree[head].n
    BY <1>1, <1>8, Here
  <2>. QED BY <2>1 DEF CountsHold
<1>. HIDE DEF c
<1>15. IInv'
  <2>1. /\ EntriesHold(tree', head, batch') /\ OneVisitorIn(tree', batch')
        /\ LedgerIn(tree', head, batch', shared_collisions') /\ DOMAIN tree' = Game
        /\ IsTree(tree', head)
        /\ CountsHold(tree', head, initial_visits', total_playouts')
        /\ \A y \in Game \ Subtree[head] : tree'[y] = tree[y]
    BY <1>4, <1>6, <1>7, <1>9, <1>10, <1>11, <1>13, <1>14
  <2>. QED BY <1>4, <1>5, <1>12, <1>13, <2>1, Together
<1>. QED BY <1>1, <1>8, <1>15 DEF Settled

\* What a node without visits can be made of.
LEMMA MadeTerminal ==
  ASSUME NEW nd \in Node, nd.n = 0, nd.w = 0, NEW r \in {0, 1}, NEW md, md = MakeTerminal(nd, r)
  PROVE  /\ md \in Node /\ md.n = 0 /\ md.w = 0 /\ md.term = "end" /\ md.lo = r /\ md.up = r
         /\ md.flight = nd.flight /\ md.solid = nd.solid
<1>1. md = [nd EXCEPT !.term = "end", !.lo = r, !.up = r, !.w = nd.n * r]
  BY DEF MakeTerminal
<1>2. nd.n * r = 0
  OBVIOUS
<1>3. md = [nd EXCEPT !.term = "end", !.lo = r, !.up = r, !.w = 0]
  BY <1>1, <1>2
<1>4. r \in -1 .. 1 /\ 0 \in Int
  OBVIOUS
<1>. QED BY <1>3, <1>4 DEF Node

\* A node becomes a draw by repetition.
LEMMA MadeTwoFold ==
  ASSUME NEW nd \in Node, NEW md, md = [nd EXCEPT !.term = "twofold"]
  PROVE  /\ md \in Node /\ md.n = nd.n /\ md.w = nd.w /\ md.term = "twofold" /\ md.lo = nd.lo
         /\ md.up = nd.up
         /\ md.flight = nd.flight /\ md.solid = nd.solid
BY DEF Node

\* ExtendNode keeps the invariant.
LEMMA ExtendNodeHolds ==
  ASSUME IInv, NEW v \in Workers, NEW i \in DOMAIN batch[v], ExtendNode(v, i)
  PROVE  IInv' /\ Settled(tree, tree')
<1>. DEFINE x == batch[v][i].node
            Becomes(nd, what) ==
              /\ tree' = [tree EXCEPT ![x] = nd]
              /\ batch' = [batch EXCEPT ![v][i].kind = what]
<1>1. /\ pc[v] = "process" /\ batch[v][i].kind = "picked"
      /\ UNCHANGED <<head, new_start, worked, pc, shared_collisions, total_playouts, initial_visits>>
  BY DEF ExtendNode
<1>2. \/ /\ IsTerminal(tree[x])
         /\ Becomes(tree[x], "ooo")
      \/ /\ ~IsTerminal(tree[x]) /\ x \in DOMAIN GameEnd
         /\ Becomes(MakeTerminal(tree[x], GameEnd[x]), "ooo")
      \/ /\ ~IsTerminal(tree[x]) /\ x \in RuleDraws \ {head}
         /\ Becomes(MakeTerminal(tree[x], 0), "ooo")
      \/ /\ ~IsTerminal(tree[x]) /\ IsTwoFoldDraw(x)
         /\ Becomes([tree[x] EXCEPT !.term = "twofold"], "ooo")
      \/ /\ ~IsTerminal(tree[x]) /\ x \notin DOMAIN GameEnd
         /\ x \notin RuleDraws \ {head} /\ ~IsTwoFoldDraw(x)
         /\ \/ Becomes(tree[x], "queried")
            \/ Becomes(tree[x], "ooo")
  BY DEF ExtendNode
<1>3. /\ head \in Nodes /\ Subtree[head] \subseteq Game /\ DOMAIN tree = Game /\ IsTree(tree, head)
      /\ TreeHolds(tree, head) /\ EntriesHold(tree, head, batch)
  BY Here
<1>4. EntryHolds(tree, head, batch[v][i]) /\ ~IsCollision(batch[v][i])
  BY <1>1, <1>3 DEF EntriesHold, IsCollision
<1>5. /\ x \in Subtree[head] /\ x \in Game /\ x \in Nodes /\ tree[x] \in Node
      /\ Ends(tree, x) /\ ~StaleAt(tree, head, x) /\ (tree[x].n = 0 => tree[x].w = 0)
  <2>1. x \in Subtree[head] /\ Ends(tree, x) /\ ~StaleAt(tree, head, x)
    BY <1>4 DEF EntryHolds, Reached
  <2>2. x \in Game /\ x \in Nodes
    BY <1>3, <2>1, InSubtree
  <2>3. tree[x] \in Node
    BY <1>3, <2>2 DEF IsTree
  <2>4. tree[x].n = 0 => tree[x].w = 0
    BY <1>3, <2>1 DEF TreeHolds, NodeHolds
  <2>. QED BY <2>1, <2>2, <2>3, <2>4
<1>6. ASSUME NEW nd, TurnsInto(tree[x], nd), NEW what \in {"queried", "ooo"}, Becomes(nd, what),
             TreeHolds(tree', head), Found(tree', head) = Found(tree, head),
             \A e : EntryHolds(tree, head, e) => EntryHolds(tree', head, e), Extended(tree', head, x)
      PROVE  IInv' /\ Settled(tree, tree')
  BY <1>1, <1>6, TurnedHolds
<1>. HIDE DEF x
\* The node stays as it is.
<1>7. ASSUME NEW what \in {"queried", "ooo"}, tree' = [tree EXCEPT ![x] = tree[x]],
             batch' = [batch EXCEPT ![v][i].kind = what], Extended(tree, head, x)
      PROVE  IInv' /\ Settled(tree, tree')
  <2>1. tree' = tree
    BY <1>3, <1>5, <1>7 DEF IsTree
  <2>2. TurnsInto(tree[x], tree[x])
    BY <1>5 DEF TurnsInto
  <2>3. /\ Becomes(tree[x], what) /\ TreeHolds(tree', head)
        /\ Found(tree', head) = Found(tree, head)
        /\ (\A e : EntryHolds(tree, head, e) => EntryHolds(tree', head, e))
        /\ Extended(tree', head, x)
    BY <1>3, <1>7, <2>1
  <2>. QED BY <1>6, <2>2, <2>3
\* It becomes terminal.
<1>8. ASSUME NEW nd \in Node, nd.n = 0, nd.w = 0, nd.term # "no",
             nd.term = "twofold" => ~(PliesTo(head, x) < Cycle[x]),
             x # head => nd.lo <= Known[x].lo /\ Known[x].up <= nd.up,
             nd.flight = tree[x].flight, nd.solid = tree[x].solid, ~IsTerminal(tree[x]),
             Becomes(nd, "ooo")
      PROVE  IInv' /\ Settled(tree, tree')
  <2>1. tree[x].n = 0 /\ tree[x].w = 0
    BY <1>5, <1>8 DEF Ends
  <2>. DEFINE u == tree'
  <2>2. /\ DOMAIN u = Game /\ u[x] = nd /\ (\A y \in Subtree[head] \ {x} : u[y] = tree[y])
        /\ IsTree(u, head)
    <3>1. u = [tree EXCEPT ![x] = nd]
      BY <1>8
    <3>. HIDE DEF u
    <3>2. u \in [Game -> Node]
      BY <1>3, <1>5, <3>1 DEF IsTree
    <3>. QED BY <1>3, <1>5, <3>1, <3>2 DEF IsTree
  <2>3. /\ TreeHolds(u, head) /\ Found(u, head) = Found(tree, head)
        /\ \A e : EntryHolds(tree, head, e) => EntryHolds(u, head, e)
        /\ IsTerminal(u[x])
    <3>1. /\ nd.term = "twofold" => ~(PliesTo(head, x) < Cycle[x])
          /\ x # head => nd.lo <= Known[x].lo /\ Known[x].up <= nd.up
          /\ nd.n = 0 /\ nd.w = 0 /\ nd.term # "no" /\ ~IsTerminal(tree[x])
      BY <1>8
    <3>. HIDE DEF u, Becomes
    <3>. QED BY <1>3, <1>5, <2>1, <2>2, <3>1, ExtendedTree
  <2>4. TurnsInto(tree[x], nd)
    BY <1>8, <2>1 DEF TurnsInto
  <2>5. Extended(u, head, x)
    BY <2>3 DEF Extended
  <2>. QED BY <1>6, <1>8, <2>3, <2>4, <2>5
<1>9. Known[x] = KnownFrom(Known, x)
  BY <1>5, KnownIs
<1>10. CASE IsTerminal(tree[x]) /\ Becomes(tree[x], "ooo")
  BY <1>7, <1>10 DEF Extended
<1>11. CASE ~IsTerminal(tree[x]) /\ x \in DOMAIN GameEnd /\ Becomes(MakeTerminal(tree[x], GameEnd[x]), "ooo")
  <2>. DEFINE nd == MakeTerminal(tree[x], GameEnd[x])
  <2>1. tree[x].n = 0 /\ tree[x].w = 0
    BY <1>5, <1>11 DEF Ends
  <2>2. GameEnd[x] \in {0, 1}
    BY <1>11, TreeAssumption
  <2>3. /\ nd \in Node /\ nd.n = 0 /\ nd.w = 0 /\ nd.term = "end" /\ nd.lo = GameEnd[x]
        /\ nd.up = GameEnd[x]
        /\ nd.flight = tree[x].flight /\ nd.solid = tree[x].solid
    BY <1>5, <2>1, <2>2, MadeTerminal
  <2>4. Becomes(nd, "ooo")
    BY <1>11
  <2>. HIDE DEF nd
  <2>5. Known[x].lo = GameEnd[x] /\ Known[x].up = GameEnd[x]
    BY <1>9, <1>11 DEF KnownFrom
  <2>6. nd.lo <= Known[x].lo /\ Known[x].up <= nd.up
    BY <2>2, <2>3, <2>5
  <2>. QED BY <1>8, <1>11, <2>3, <2>4, <2>6
<1>12. CASE ~IsTerminal(tree[x]) /\ x \in RuleDraws \ {head} /\ Becomes(MakeTerminal(tree[x], 0), "ooo")
  <2>. DEFINE nd == MakeTerminal(tree[x], 0)
  <2>1. tree[x].n = 0 /\ tree[x].w = 0
    BY <1>5, <1>12 DEF Ends
  <2>2. 0 \in {0, 1}
    OBVIOUS
  <2>3. /\ nd \in Node /\ nd.n = 0 /\ nd.w = 0 /\ nd.term = "end" /\ nd.lo = 0 /\ nd.up = 0
        /\ nd.flight = tree[x].flight /\ nd.solid = tree[x].solid
    BY <1>5, <2>1, <2>2, MadeTerminal
  <2>4. Becomes(nd, "ooo")
    BY <1>12
  <2>. HIDE DEF nd
  <2>5. Known[x].lo = 0 /\ Known[x].up = 0
    BY <1>9, <1>12, TreeAssumption DEF KnownFrom
  <2>6. nd.lo <= Known[x].lo /\ Known[x].up <= nd.up
    BY <2>3, <2>5
  <2>. QED BY <1>8, <1>12, <2>3, <2>4, <2>6
<1>13. CASE ~IsTerminal(tree[x]) /\ IsTwoFoldDraw(x) /\ Becomes([tree[x] EXCEPT !.term = "twofold"], "ooo")
  <2>. DEFINE nd == [tree[x] EXCEPT !.term = "twofold"]
  <2>1. tree[x].n = 0 /\ tree[x].w = 0
    BY <1>5, <1>13 DEF Ends
  <2>2. /\ nd \in Node /\ nd.n = tree[x].n /\ nd.w = tree[x].w /\ nd.term = "twofold"
        /\ nd.lo = tree[x].lo
        /\ nd.up = tree[x].up /\ nd.flight = tree[x].flight /\ nd.solid = tree[x].solid
    BY <1>5, MadeTwoFold
  <2>3. Becomes(nd, "ooo")
    BY <1>13
  <2>. HIDE DEF nd
  <2>4. ~(PliesTo(head, x) < Cycle[x])
    <3>1. PliesTo(head, x) = Plies(x)
      BY PathFromIs DEF PliesTo, Plies
    <3>2. Plies(x) >= Cycle[x] /\ x \in DOMAIN Cycle
      BY <1>13 DEF IsTwoFoldDraw
    <3>3. Cycle[x] \in Nat
      BY <3>2, TreeAssumption
    <3>4. PliesTo(head, x) \in Int
      BY <1>3, <1>5, PathIs DEF PliesTo
    <3>. QED BY <3>1, <3>2, <3>3, <3>4
  <2>5. x # head => nd.lo <= Known[x].lo /\ Known[x].up <= nd.up
    <3>1. x # head => Sound(tree, x)
      BY <1>3, <1>5 DEF TreeHolds
    <3>. QED BY <2>2, <3>1 DEF Sound
  <2>. QED BY <1>8, <1>13, <2>1, <2>2, <2>3, <2>4, <2>5
<1>14. CASE /\ x \notin DOMAIN GameEnd /\ x \notin RuleDraws \ {head}
            /\ Becomes(tree[x], "queried") \/ Becomes(tree[x], "ooo")
  <2>1. Extended(tree, head, x)
    BY <1>14 DEF Extended
  <2>. QED BY <1>7, <1>14, <2>1
<1>. QED BY <1>2, <1>10, <1>11, <1>12, <1>13, <1>14

\* A minibatch that grows by entries of x, of which one is a visit at most.
GrowsBy(c, b, x, starts) ==
  /\ DOMAIN b \subseteq DOMAIN c /\ \A j \in DOMAIN b : c[j] = b[j]
  /\ \A j \in DOMAIN c \ DOMAIN b :
       /\ c[j].node = x
       /\ ~IsCollision(c[j]) => /\ starts /\ j = Len(b) + 1
                                /\ c[j].kind = "picked" /\ c[j].multivisit = 1

\* An entry added at the end.
LEMMA AddedIs ==
  ASSUME NEW E, \A e \in E : e.multivisit \in Nat, NEW b \in Seq(E), NEW a \in E
  PROVE  /\ b \o <<a>> \in Seq(E) /\ DOMAIN b = 1 .. Len(b) /\ Len(b) \in Nat
         /\ DOMAIN (b \o <<a>>) = 1 .. Len(b) + 1 /\ Len(b \o <<a>>) = Len(b) + 1
         /\ (b \o <<a>>)[Len(b) + 1] = a /\ \A j \in DOMAIN b : (b \o <<a>>)[j] = b[j]
         /\ \A y, K : HeldAt(b \o <<a>>, y, K) = HeldAt(b, y, K) + Mult(a, y, K)
<1>1. \A y, K : HeldAt(b \o <<a>>, y, K) = HeldAt(b, y, K) + Mult(a, y, K)
  BY HeldAppend
<1>. QED BY <1>1

WithVisit(b, x, starts) == b \o (IF starts THEN <<Visit(x)>> ELSE <<>>)

\* A visit added to a minibatch.
LEMMA VisitAdded ==
  ASSUME NEW G, \A e \in EntryIn(G) : e.multivisit \in Nat, NEW b \in Seq(EntryIn(G)), NEW x \in G,
         NEW starts \in BOOLEAN, NEW c, c = WithVisit(b, x, starts), NEW m, m = IF starts THEN 1 ELSE 0
  PROVE  /\ c \in Seq(EntryIn(G)) /\ GrowsBy(c, b, x, starts)
         /\ HeldMoves(c, b, x, m, m)
<1>1. CASE starts
  <2>. DEFINE a == Visit(x)
  <2>1. a \in EntryIn(G) /\ a.node = x /\ a.kind = "picked" /\ a.multivisit = 1
    BY DEF Visit, Entry, EntryIn, Kinds
  <2>2. c = b \o <<a>>
    BY <1>1 DEF WithVisit
  <2>. HIDE DEF a
  <2>3. /\ c \in Seq(EntryIn(G)) /\ DOMAIN b = 1 .. Len(b) /\ Len(b) \in Nat
        /\ DOMAIN c = 1 .. Len(b) + 1 /\ Len(c) = Len(b) + 1
        /\ c[Len(b) + 1] = a /\ \A j \in DOMAIN b : c[j] = b[j]
        /\ \A y, K : HeldAt(c, y, K) = HeldAt(b, y, K) + Mult(a, y, K)
    BY <2>1, <2>2, AddedIs
  <2>4. GrowsBy(c, b, x, starts)
    <3>1. \A j \in DOMAIN c \ DOMAIN b : j = Len(b) + 1
      BY <2>3
    <3>2. \A j \in DOMAIN c \ DOMAIN b : c[j] = a /\ j = Len(b) + 1
      BY <2>3, <3>1
    <3>3. DOMAIN b \subseteq DOMAIN c
      BY <2>3
    <3>. QED BY <1>1, <2>1, <2>3, <3>2, <3>3 DEF GrowsBy
  <2>5. \A y : /\ Mult(a, y, Visiting) = (IF y = x THEN m ELSE 0)
               /\ Mult(a, y, Kinds) = IF y = x THEN m ELSE 0
    BY <1>1, <2>1 DEF Mult, Visiting, Kinds
  <2>. QED BY <2>3, <2>4, <2>5 DEF HeldMoves
<1>2. CASE ~starts
  <2>1. c = b
    BY <1>2 DEF WithVisit
  <2>2. GrowsBy(c, b, x, starts)
    BY <2>1 DEF GrowsBy
  <2>3. \A y, K : HeldAt(b, y, K) \in Nat
    BY HeldIs
  <2>4. \A y, K : HeldAt(b, y, K) = HeldAt(b, y, K) + 0
    BY <2>3
  <2>. QED BY <1>2, <2>1, <2>2, <2>4 DEF HeldMoves
<1>. QED BY <1>1, <1>2

\* A collision added to a minibatch.
LEMMA CollisionAdded ==
  ASSUME NEW G, \A e \in EntryIn(G) : e.multivisit \in Nat, NEW b \in Seq(EntryIn(G)), NEW x \in G,
         NEW k \in Nat, NEW c, c = b \o Collision(x, k)
  PROVE  c \in Seq(EntryIn(G)) /\ GrowsBy(c, b, x, FALSE) /\ HeldMoves(c, b, x, 0, k)
<1>0. \A y, K : HeldAt(b, y, K) \in Nat
  BY HeldIs
<1>1. CASE k > 0
  <2>. DEFINE a == Entry(x, "collision", k)
  <2>1. a \in EntryIn(G) /\ a.node = x /\ a.kind = "collision" /\ a.multivisit = k
    BY <1>1 DEF Entry, EntryIn, Kinds
  <2>2. c = b \o <<a>>
    BY <1>1 DEF Collision
  <2>. HIDE DEF a
  <2>3. /\ c \in Seq(EntryIn(G)) /\ DOMAIN b = 1 .. Len(b) /\ Len(b) \in Nat
        /\ DOMAIN c = 1 .. Len(b) + 1 /\ Len(c) = Len(b) + 1
        /\ c[Len(b) + 1] = a /\ \A j \in DOMAIN b : c[j] = b[j]
        /\ \A y, K : HeldAt(c, y, K) = HeldAt(b, y, K) + Mult(a, y, K)
    BY <2>1, <2>2, AddedIs
  <2>4. GrowsBy(c, b, x, FALSE)
    <3>1. \A j \in DOMAIN c \ DOMAIN b : j = Len(b) + 1
      BY <2>3
    <3>2. \A j \in DOMAIN c \ DOMAIN b : c[j] = a
      BY <2>3, <3>1
    <3>3. DOMAIN b \subseteq DOMAIN c
      BY <2>3
    <3>. QED BY <2>1, <2>3, <3>2, <3>3 DEF GrowsBy, IsCollision
  <2>5. \A y : /\ Mult(a, y, Visiting) = 0
               /\ Mult(a, y, Kinds) = IF y = x THEN k ELSE 0
    BY <2>1 DEF Mult, Visiting, Kinds
  <2>6. HeldMoves(c, b, x, 0, k)
    <3>1. \A y : HeldAt(c, y, Visiting) = HeldAt(b, y, Visiting) + 0
      BY <2>3, <2>5
    <3>2. \A y : HeldAt(c, y, Kinds) = HeldAt(b, y, Kinds) + IF y = x THEN k ELSE 0
      BY <2>3, <2>5
    <3>. QED BY <3>1, <3>2 DEF HeldMoves
  <2>. QED BY <2>3, <2>4, <2>6
<1>2. CASE k = 0
  <2>1. c = b
    BY <1>2 DEF Collision
  <2>2. GrowsBy(c, b, x, FALSE)
    BY <2>1 DEF GrowsBy
  <2>3. \A y, K : HeldAt(b, y, K) = HeldAt(b, y, K) + 0
    BY <1>0
  <2>. QED BY <1>2, <2>1, <2>2, <2>3 DEF HeldMoves
<1>3. k > 0 \/ k = 0
  OBVIOUS
<1>. QED BY ONLY <1>1, <1>2, <1>3

IsPicked(c, b, x, starts, left, m) ==
  c = WithVisit(b, x, starts) \o Collision(x, left) /\ m = IF starts THEN 1 ELSE 0

\* The minibatch after a pick.
LEMMA PickedBatch ==
  ASSUME NEW G, \A e \in EntryIn(G) : e.multivisit \in Nat, NEW b \in Seq(EntryIn(G)), NEW x \in G,
         NEW starts \in BOOLEAN, NEW left \in Nat, NEW c, NEW m, IsPicked(c, b, x, starts, left, m)
  PROVE  c \in Seq(EntryIn(G)) /\ GrowsBy(c, b, x, starts) /\ HeldMoves(c, b, x, m, m + left)
<1>. DEFINE d == WithVisit(b, x, starts)
<1>1. /\ c = d \o Collision(x, left) /\ d = WithVisit(b, x, starts)
      /\ m = IF starts THEN 1 ELSE 0
  BY DEF IsPicked
<1>. HIDE DEF d
<1>2. d \in Seq(EntryIn(G)) /\ GrowsBy(d, b, x, starts) /\ HeldMoves(d, b, x, m, m)
  BY <1>1, VisitAdded
<1>3. c \in Seq(EntryIn(G)) /\ GrowsBy(c, d, x, FALSE) /\ HeldMoves(c, d, x, 0, left)
  BY <1>1, <1>2, CollisionAdded
<1>4. GrowsBy(c, b, x, starts)
  <2>1. DOMAIN b \subseteq DOMAIN c /\ \A j \in DOMAIN b : c[j] = b[j]
    BY <1>2, <1>3 DEF GrowsBy
  <2>2. ASSUME NEW j \in DOMAIN c \ DOMAIN b
        PROVE  /\ c[j].node = x
               /\ ~IsCollision(c[j]) => /\ starts /\ j = Len(b) + 1
                                        /\ c[j].kind = "picked" /\ c[j].multivisit = 1
    <3>1. CASE j \in DOMAIN d
      BY <1>2, <1>3, <3>1 DEF GrowsBy
    <3>2. CASE j \notin DOMAIN d
      <4>1. j \in DOMAIN c \ DOMAIN d
        BY <3>2
      <4>. QED BY <1>3, <4>1 DEF GrowsBy
    <3>. QED BY <3>1, <3>2
  <2>. QED BY <2>1, <2>2 DEF GrowsBy
<1>5. HeldMoves(c, b, x, m, m + left)
  <2>1. SUFFICES ASSUME NEW y
                 PROVE  /\ HeldAt(c, y, Visiting) = HeldAt(b, y, Visiting) + IF y = x THEN m ELSE 0
                        /\ HeldAt(c, y, Kinds) = HeldAt(b, y, Kinds) + IF y = x THEN m + left ELSE 0
    BY DEF HeldMoves
  <2>2. HeldAt(b, y, Visiting) \in Nat /\ HeldAt(b, y, Kinds) \in Nat /\ m \in Nat
    BY <1>1, HeldIs
  <2>3. /\ HeldAt(d, y, Visiting) = HeldAt(b, y, Visiting) + IF y = x THEN m ELSE 0
        /\ HeldAt(d, y, Kinds) = HeldAt(b, y, Kinds) + IF y = x THEN m ELSE 0
    BY <1>2 DEF HeldMoves
  <2>4. /\ HeldAt(c, y, Visiting) = HeldAt(d, y, Visiting) + IF y = x THEN 0 ELSE 0
        /\ HeldAt(c, y, Kinds) = HeldAt(d, y, Kinds) + IF y = x THEN left ELSE 0
    BY <1>3 DEF HeldMoves
  <2>5. CASE y = x
    BY <2>2, <2>3, <2>4, <2>5
  <2>6. CASE y # x
    BY <2>2, <2>3, <2>4, <2>6
  <2>. QED BY <2>5, <2>6
<1>. QED BY <1>3, <1>4, <1>5

\* A node without visits gets a visitor if it has none.
LEMMA GrownVisitors ==
  ASSUME NEW t, NEW B, DOMAIN B = Workers, OneVisitorIn(t, B), NEW v \in Workers, NEW c, NEW x, NEW starts,
         GrowsBy(c, B[v], x, starts),
         starts /\ t[x].n = 0 => \A w \in Workers : \A j \in DOMAIN B[w] : B[w][j].node = x => IsCollision(B[w][j])
  PROVE  OneVisitorIn(t, [B EXCEPT ![v] = c])
<1>. DEFINE D == [B EXCEPT ![v] = c]
<1>1. D[v] = c /\ \A w \in Workers : w # v => D[w] = B[w]
  OBVIOUS
<1>. HIDE DEF D
<1>2. SUFFICES ASSUME NEW w \in Workers, NEW z \in Workers, NEW i \in DOMAIN D[w], NEW j \in DOMAIN D[z],
                      ~IsCollision(D[w][i]), ~IsCollision(D[z][j]), D[w][i].node = D[z][j].node,
                      t[D[w][i].node].n = 0
               PROVE  w = z /\ i = j
  BY DEF OneVisitorIn, D
<1>. DEFINE New(y, m) == y = v /\ m \notin DOMAIN B[v]
<1>3. ASSUME NEW y \in Workers, NEW m \in DOMAIN D[y], New(y, m), ~IsCollision(D[y][m]), t[D[y][m].node].n = 0
      PROVE  /\ D[y][m].node = x /\ m = Len(B[v]) + 1
             /\ \A u \in Workers : \A l \in DOMAIN B[u] : B[u][l].node = x => IsCollision(B[u][l])
  BY <1>1, <1>3 DEF GrowsBy
<1>4. ASSUME NEW y \in Workers, NEW m \in DOMAIN D[y], ~New(y, m)
      PROVE  m \in DOMAIN B[y] /\ D[y][m] = B[y][m]
  BY <1>1, <1>4 DEF GrowsBy
<1>5. CASE New(w, i) /\ New(z, j)
  BY <1>2, <1>3, <1>5
<1>6. CASE New(w, i) /\ ~New(z, j)
  BY <1>2, <1>3, <1>4, <1>6
<1>7. CASE ~New(w, i) /\ New(z, j)
  BY <1>2, <1>3, <1>4, <1>7
<1>8. CASE ~New(w, i) /\ ~New(z, j)
  <2>1. i \in DOMAIN B[w] /\ D[w][i] = B[w][i] /\ j \in DOMAIN B[z] /\ D[z][j] = B[z][j]
    BY <1>4, <1>8
  <2>. QED BY <1>2, <2>1 DEF OneVisitorIn
<1>. QED BY <1>5, <1>6, <1>7, <1>8

\* What visits descend from.
IsPickable(t, h, x) ==
  /\ DOMAIN t = DOMAIN tree /\ IsTree(t, h) /\ TreeHolds(t, h)
  /\ SameFlights(tree, t, h)
  /\ \A e : EntryHolds(tree, h, e) => EntryHolds(t, h, e)
  /\ \A e : EntryHolds(tree, h, e) /\ ~IsCollision(e) /\ t[e.node].n = 0 => tree[e.node].n = 0
  /\ Reached(t, h, x) /\ ~StaleAt(t, h, x)

\* Taking visits back changes neither flight nor where children are stored.
LEMMA ResetKeeps ==
  ASSUME NEW nd \in Node, NEW md, md = [nd EXCEPT !.n = 0, !.w = 0, !.term = "no"]
  PROVE  md.solid = nd.solid /\ md.flight = nd.flight
BY DEF Node

\* Nor does it above.
LEMMA VisitsKeep ==
  ASSUME NEW nd \in Node, NEW n, NEW md, md = [nd EXCEPT !.n = n]
  PROVE  md.solid = nd.solid /\ md.flight = nd.flight
BY DEF Node

\* The tree that visits descend, after stale repetitions are corrected.
LEMMA CorrectedIs ==
  ASSUME head \in Nodes, IsTree(tree, head), TreeHolds(tree, head), CountsHold(tree, head, initial_visits, total_playouts),
         initial_visits \in Int, total_playouts \in Nat,
         NEW x \in Subtree[head], \A y \in Above(x) : CanDescend(tree[y]), NEW t, t = TwoFoldCorrected(x),
         NEW found, found = initial_visits - IF IsStaleTwoFold(x) THEN tree[x].n ELSE 0
  PROVE  IsPickable(t, head, x) /\ CountsHold(t, head, found, total_playouts) /\ found \in Int
<1>1. /\ Above(x) = AboveTo(head, x) /\ AboveTo(head, x) \subseteq Subtree[head]
      /\ x \notin AboveTo(head, x)
      /\ IsStaleTwoFold(x) <=> StaleAt(tree, head, x)
  BY AboveIs, AboveIn, PathFromIs DEF IsStaleTwoFold, StaleAt, Plies, PliesTo
<1>2. \A y \in AboveTo(head, x) : CanDescend(tree[y]) /\ Expanded(tree, head, y)
  BY <1>1 DEF TreeHolds, NodeHolds
<1>3. CASE ~StaleAt(tree, head, x)
  <2>1. t = tree /\ found = initial_visits - 0
    BY <1>1, <1>3 DEF TwoFoldCorrected
  <2>2. Reached(t, head, x)
    BY <1>2, <2>1 DEF Reached
  <2>3. found = initial_visits
    BY <2>1
  <2>. QED BY <1>3, <2>1, <2>2, <2>3 DEF IsPickable, SameFlights
<1>4. CASE StaleAt(tree, head, x)
  <2>1. /\ t = [y \in Game |->
                 CASE y = x -> [tree[y] EXCEPT !.n = 0, !.w = 0, !.term = "no"]
                   [] y \in AboveTo(head, x) -> [tree[y] EXCEPT !.n = @ - tree[x].n]
                   [] OTHER -> tree[y]]
        /\ found = initial_visits - tree[x].n
    BY <1>1, <1>4 DEF TwoFoldCorrected
  <2>2. Subtree[head] \subseteq Game /\ Game = DOMAIN tree
    BY DEF IsTree, Game
  <2>3. /\ DOMAIN t = DOMAIN tree /\ t = [y \in DOMAIN tree |-> t[y]]
        /\ t[x] = [tree[x] EXCEPT !.n = 0, !.w = 0, !.term = "no"]
        /\ \A y \in AboveTo(head, x) : t[y] = [tree[y] EXCEPT !.n = @ - tree[x].n]
        /\ \A y \in DOMAIN tree : y # x /\ y \notin AboveTo(head, x) => t[y] = tree[y]
    BY <1>1, <2>1, <2>2
  <2>4. IsCorrected(tree, t, head, x)
    BY <2>3 DEF IsCorrected
  <2>5. /\ IsTree(t, head) /\ TreeHolds(t, head) /\ Found(t, head) = Found(tree, head) - tree[x].n
        /\ t[head].n = tree[head].n - tree[x].n /\ t[x].n = 0 /\ ~IsTerminal(t[x])
        /\ \A y \in AboveTo(head, x) : Expanded(t, head, y)
        /\ \A e : EntryHolds(tree, head, e) => EntryHolds(t, head, e)
        /\ \A e : EntryHolds(tree, head, e) /\ ~IsCollision(e) /\ t[e.node].n = 0 => tree[e.node].n = 0
    BY <1>2, <1>4, <2>4, CorrectedTree
  <2>6. /\ Reached(t, head, x) /\ ~StaleAt(t, head, x)
    BY <2>5 DEF Reached, StaleAt, IsTerminal
  <2>7. \A y \in DOMAIN t : t[y].flight = tree[y].flight /\ t[y].solid = tree[y].solid
    <3>1. \A y \in DOMAIN tree : tree[y] \in Node /\ tree[y].n \in Nat
      BY NodeType DEF IsTree
    <3>2. x \in DOMAIN tree
      BY <2>2
    <3>. SUFFICES ASSUME NEW y \in DOMAIN tree PROVE t[y].flight = tree[y].flight /\ t[y].solid = tree[y].solid
      BY <2>3
    <3>3. CASE y = x
      BY <2>3, <3>1, <3>2, <3>3, ResetKeeps
    <3>4. CASE y \in AboveTo(head, x)
      <4>. DEFINE nd == tree[y]
                  md == t[y]
                  n == tree[y].n - tree[x].n
      <4>1. nd \in Node /\ md = [nd EXCEPT !.n = n]
        BY <2>3, <3>1, <3>4
      <4>2. md.solid = nd.solid /\ md.flight = nd.flight
        <5>. HIDE DEF nd, md, n
        <5>. QED BY ONLY <4>1, VisitsKeep
      <4>. QED BY <4>2
    <3>5. CASE y # x /\ y \notin AboveTo(head, x)
      BY <2>3, <3>5
    <3>. QED BY <3>3, <3>4, <3>5
  <2>8. \A y \in DOMAIN t \ Subtree[head] : t[y] = tree[y]
    BY <1>1, <2>3
  <2>9. CountsHold(t, head, found, total_playouts) /\ found \in Int
    <3>1. tree[x].n \in Nat /\ Found(tree, head) \in Nat
      BY <2>2, NodeType, FoundType DEF IsTree
    <3>2. tree[head].n = initial_visits + total_playouts /\ Found(tree, head) <= initial_visits
      BY DEF CountsHold
    <3>3. t[head].n = found + total_playouts /\ Found(t, head) <= found /\ found \in Int
      <4>1. /\ found = initial_visits - tree[x].n /\ t[head].n = tree[head].n - tree[x].n
            /\ Found(t, head) = Found(tree, head) - tree[x].n
            /\ initial_visits \in Int /\ total_playouts \in Nat
        BY <2>1, <2>5
      <4>. QED BY ONLY <3>1, <3>2, <4>1
    <3>. QED BY <3>3 DEF CountsHold
  <2>. QED BY <2>3, <2>5, <2>6, <2>7, <2>8, <2>9 DEF IsPickable, SameFlights
<1>. QED BY <1>3, <1>4

\* A node that is not in flight is in no minibatch.
LEMMA NoVisitor ==
  ASSUME IInv, NEW x \in Subtree[head], tree[x].flight = 0
  PROVE  \A w \in Workers : \A j \in DOMAIN batch[w] : batch[w][j].node = x => IsCollision(batch[w][j])
<1>1. /\ head \in Nodes /\ Subtree[head] \subseteq Game /\ DOMAIN tree = Game
      /\ batch \in [Workers -> Seq(EntryIn(Game))] /\ shared_collisions \in [Game -> Nat]
      /\ LedgerIn(tree, head, batch, shared_collisions) /\ EntriesHold(tree, head, batch)
      /\ \A z \in EntryIn(Game) : z.multivisit \in Nat /\ z.kind \in Kinds
  BY Here
<1>2. HeldBy(batch, x, Visiting) = 0
  <2>1. HeldBy(batch, x, Visiting) \in Nat
    BY <1>1, HeldByIs
  <2>2. SumFunctionOnSet(HeldOf(batch, shared_collisions, Game), Below(x)) \in Nat
    <3>1. /\ x \in Nodes /\ Below(x) \subseteq Subtree[x] /\ IsFiniteSet(Below(x))
          /\ Subtree[x] \subseteq Subtree[head]
      BY <1>1, InSubtree, SubtreeTransitive, FS_Subset DEF Below
    <3>2. \A z \in Game : HeldOf(batch, shared_collisions, Game)[z] \in Nat
      BY <1>1, HeldOfType
    <3>. QED BY <1>1, <3>1, <3>2, SumNat
  <2>3. tree[x].flight = HeldBy(batch, x, Visiting) + SumFunctionOnSet(HeldOf(batch, shared_collisions, Game), Below(x))
    BY <1>1 DEF LedgerIn
  <2>. QED BY <2>1, <2>2, <2>3
<1>3. SUFFICES ASSUME NEW w \in Workers, NEW j \in DOMAIN batch[w], batch[w][j].node = x, ~IsCollision(batch[w][j])
               PROVE  FALSE
  OBVIOUS
<1>4. batch[w][j] \in EntryIn(Game)
  BY <1>1
<1>5. batch[w][j].multivisit = 1 /\ batch[w][j].kind \in Visiting
  BY <1>1, <1>3, <1>4 DEF EntriesHold, EntryHolds, Visiting, IsCollision
<1>6. batch[w][j].multivisit <= HeldBy(batch, x, Visiting)
  <2>1. \A z \in EntryIn(Game) : z.multivisit \in Nat
    BY <1>1
  <2>2. x = batch[w][j].node
    BY <1>3
  <2>. QED BY <1>1, <1>5, <2>1, <2>2, HeldBySome
<1>. QED BY <1>2, <1>5, <1>6

\* Pick keeps the invariant.
LEMMA PickHolds ==
  ASSUME IInv, NEW v \in Workers, NEW x \in Game, NEW k \in 1 .. MaxMultivisit, Pick(v, x, k)
  PROVE  IInv' /\ Settled(tree, tree')
<1>. DEFINE first == pc[v] # "pick"
            t == TwoFoldCorrected(x)
            starts == t[x].n > 0 \/ t[x].flight = 0
            left == IF starts THEN k - 1 ELSE k
            m == IF starts THEN 1 ELSE 0
            b == batch[v]
            c == WithVisit(b, x, starts) \o Collision(x, left)
            start == IF first THEN Len(b) + 1 ELSE new_start[v]
            found == initial_visits - IF IsStaleTwoFold(x) THEN tree[x].n ELSE 0
            u == tree'
<1>1. /\ x \in Subtree[head] /\ \A y \in Above(x) : CanDescend(tree[y])
      /\ ~CanDescend(t[x])
  BY DEF Pick
<1>2. u = [Reserved(t, x, k) EXCEPT ![x].flight = IF starts THEN @ + 1 ELSE @]
  BY DEF Pick
<1>3. batch' = [batch EXCEPT ![v] = c]
  <2>1. batch' = [batch EXCEPT ![v] =
                    @ \o (IF starts THEN <<Visit(x)>> ELSE <<>>) \o Collision(x, left)]
    BY DEF Pick
  <2>. HIDE DEF starts, left
  <2>. QED BY <2>1 DEF WithVisit
<1>4. /\ pc' = [pc EXCEPT ![v] = "pick"] /\ initial_visits' = found
      /\ UNCHANGED <<head, worked, shared_collisions, total_playouts>>
  BY DEF Pick, Goto
<1>5. new_start' = [new_start EXCEPT ![v] = start]
  BY DEF Pick
<1>. HIDE DEF t, starts, left, start, found
<1>6. /\ head \in Nodes /\ Subtree[head] \subseteq Game /\ DOMAIN tree = Game /\ IsTree(tree, head)
      /\ TreeHolds(tree, head) /\ EntriesHold(tree, head, batch) /\ OneVisitorIn(tree, batch)
      /\ batch \in [Workers -> Seq(EntryIn(Game))] /\ DOMAIN batch = Workers
      /\ CountsHold(tree, head, initial_visits, total_playouts) /\ initial_visits \in Int
      /\ total_playouts \in Nat
      /\ (\A z \in EntryIn(Game) : z.multivisit \in Nat) /\ b \in Seq(EntryIn(Game))
      /\ new_start[v] \in Nat \ {0}
  BY Here
<1>7. IsPickable(t, head, x) /\ CountsHold(t, head, found, total_playouts) /\ found \in Int
  <2>1. t = TwoFoldCorrected(x) /\ found = initial_visits - IF IsStaleTwoFold(x) THEN tree[x].n ELSE 0
    BY DEF t, found
  <2>. QED BY <1>1, <1>6, <2>1, CorrectedIs
<1>8. /\ DOMAIN t = Game /\ IsTree(t, head) /\ TreeHolds(t, head)
      /\ SameFlights(tree, t, head)
      /\ Reached(t, head, x) /\ ~StaleAt(t, head, x)
  BY <1>6, <1>7 DEF IsPickable
<1>9. t[x].n \in Nat /\ Ends(t, x)
  <2>1. t[x].n \in Nat
    BY <1>8, NodeType DEF IsTree
  <2>. QED BY <1>1, <2>1 DEF CanDescend, Ends, t
<1>10. starts \in BOOLEAN /\ left \in Nat /\ k \in Int /\ m \in {0, 1} /\ m \in Int /\ m + left = k
  <2>1. starts \in BOOLEAN
    BY DEF starts
  <2>. QED BY <2>1 DEF left
<1>11. tree' \in [Game -> Node] /\ IsReserved(t, tree', head, x, m, k)
  <2>. HIDE DEF u, c
  <2>0. m = 1 <=> starts
    BY <1>10
  <2>. HIDE DEF m
  <2>1. IsMarked(t, u, x, m, k)
    BY ONLY <1>2, <2>0 DEF IsMarked
  <2>3. /\ head \in Nodes /\ DOMAIN t = Game /\ IsTree(t, head) /\ x \in Subtree[head]
        /\ m \in {0, 1} /\ k \in Int
    BY <1>1, <1>6, <1>8, <1>10
  <2>2. u \in [Game -> Node] /\ IsReserved(t, u, head, x, m, k)
    BY ONLY <2>1, <2>3, ReservedIs
  <2>. QED BY <2>2 DEF u
<1>12. c \in Seq(EntryIn(Game)) /\ GrowsBy(c, b, x, starts) /\ HeldMoves(c, b, x, m, k)
  <2>1. IsPicked(c, b, x, starts, left, m)
    BY DEF IsPicked
  <2>. HIDE DEF c, m, b
  <2>3. (\A z \in EntryIn(Game) : z.multivisit \in Nat) /\ b \in Seq(EntryIn(Game)) /\ x \in Game
    BY <1>6
  <2>2. c \in Seq(EntryIn(Game)) /\ GrowsBy(c, b, x, starts) /\ HeldMoves(c, b, x, m, m + left)
    BY ONLY <1>10, <2>1, <2>3, PickedBatch
  <2>. QED BY <1>10, <2>2
<1>. HIDE DEF c, m
<1>13. EntriesHold(t, head, batch) /\ OneVisitorIn(t, batch)
  <2>1. EntriesHold(t, head, batch)
    BY <1>6, <1>7 DEF IsPickable, EntriesHold
  <2>2. StaysVisited(tree, t, batch)
    BY <1>6, <1>7 DEF IsPickable, EntriesHold, StaysVisited
  <2>. QED BY <1>6, <2>1, <2>2, SameVisitors
<1>14. \A j \in DOMAIN c : EntryHolds(t, head, c[j])
  <2>1. \A j \in DOMAIN b : EntryHolds(t, head, c[j])
    BY <1>12, <1>13 DEF EntriesHold, GrowsBy
  <2>2. ASSUME NEW j \in DOMAIN c \ DOMAIN b PROVE EntryHolds(t, head, c[j])
    BY <1>8, <1>9, <1>12 DEF GrowsBy, EntryHolds
  <2>. QED BY <2>1, <2>2
<1>15. OneVisitorIn(t, batch')
  <2>1. starts /\ t[x].n = 0 =>
          \A w \in Workers : \A j \in DOMAIN batch[w] : batch[w][j].node = x => IsCollision(batch[w][j])
    <3>1. SUFFICES ASSUME starts, t[x].n = 0
                   PROVE  \A w \in Workers : \A j \in DOMAIN batch[w] : batch[w][j].node = x => IsCollision(batch[w][j])
      OBVIOUS
    <3>2. tree[x].flight = 0
      BY <1>6, <1>8, <3>1 DEF starts, SameFlights
    <3>. QED BY <1>1, <3>2, NoVisitor
  <2>2. GrowsBy(c, batch[v], x, starts)
    BY <1>12
  <2>3. OneVisitorIn(t, [batch EXCEPT ![v] = c])
    BY <1>6, <1>13, <2>1, <2>2, GrownVisitors
  <2>. QED BY <1>3, <2>3
<1>16. "pick" \in Places /\ ProgressOf("pick", c, start) /\ start \in Nat \ {0}
  BY <1>6 DEF Places, ProgressOf, start
<1>17. /\ HeldMoves(c, batch[v], x, m, k) /\ CountsHold(t, head, initial_visits', total_playouts)
       /\ initial_visits' \in Int
  BY <1>4, <1>7, <1>12
<1>. HIDE DEF u, b
<1>. QED BY <1>1, <1>3, <1>4, <1>5, <1>8, <1>10, <1>11, <1>12, <1>13, <1>14, <1>15, <1>16, <1>17, FlightsHold

-----------------------------------------------------------------------------
(* Shared collisions, and the next search.                                 *)

\* The collisions of a tree given back.
IsReturned(t, u, h, S) ==
  /\ u = [y \in DOMAIN t |-> u[y]]
  /\ \A y \in DOMAIN t :
       u[y] = [t[y] EXCEPT !.flight = t[y].flight - SumFunctionOnSet(S, {x \in Subtree[h] : y \in AboveTo(h, x)})]

\* A node with another flight, field by field.
LEMMA FlightIs ==
  ASSUME NEW nd \in Node, NEW f \in Int, NEW md, md = [nd EXCEPT !.flight = f]
  PROVE  /\ md \in Node /\ md.flight = f /\ md.n = nd.n /\ md.w = nd.w /\ md.term = nd.term
         /\ md.lo = nd.lo /\ md.up = nd.up /\ md.own = nd.own /\ md.solid = nd.solid
         /\ f = nd.flight => md = nd
<1>1. md \in Node /\ (f = nd.flight => md = nd)
  BY FlightSet
<1>2. /\ md.flight = f /\ md.n = nd.n /\ md.w = nd.w /\ md.term = nd.term
      /\ md.lo = nd.lo /\ md.up = nd.up /\ md.own = nd.own /\ md.solid = nd.solid
  BY DEF Node
<1>. QED BY <1>1, <1>2

\* A tree holds after collisions are given back; flights lose what was shared below.
LEMMA ReturnedTree ==
  ASSUME NEW h \in Nodes, NEW t, IsTree(t, h), NEW S \in [DOMAIN t -> Nat], NEW u, IsReturned(t, u, h, S)
  PROVE  /\ DOMAIN u = DOMAIN t /\ u \in [DOMAIN t -> Node] /\ IsTree(u, h)
         /\ \A y \in DOMAIN t : Alike(t, u, y) /\ u[y].solid = t[y].solid
         /\ \A y \in Subtree[h] : u[y].flight = t[y].flight - SumFunctionOnSet(S, Below(y))
         /\ \A y \in DOMAIN t \ Subtree[h] : u[y] = t[y]
<1>. DEFINE From(y) == {x \in Subtree[h] : y \in AboveTo(h, x)}
            back(y) == SumFunctionOnSet(S, From(y))
<1>1. /\ Subtree[h] \subseteq DOMAIN t /\ IsFiniteSet(Subtree[h])
      /\ \A y \in DOMAIN t : t[y] \in Node /\ t[y].flight \in Int
  BY InSubtree, NodeType DEF IsTree
<1>2. \A y \in DOMAIN t : back(y) \in Int
  <2>. SUFFICES ASSUME NEW y \in DOMAIN t PROVE back(y) \in Int
    OBVIOUS
  <2>1. From(y) \subseteq Subtree[h] /\ IsFiniteSet(From(y))
    BY <1>1, FS_Subset
  <2>2. \A z \in From(y) : S[z] \in Int
    BY <1>1
  <2>. HIDE DEF From
  <2>. QED BY <2>1, <2>2, SumTypeInt
<1>3. ASSUME NEW y \in Subtree[h] PROVE From(y) = Below(y)
  <2>1. Below(y) \subseteq Subtree[h]
    BY SubtreeTransitive DEF Below
  <2>2. \A x \in Subtree[h] : y \in AboveTo(h, x) <=> x \in Below(y)
    <3>1. \A x \in Subtree[h] : AboveTo(h, x) = {z \in Subtree[h] : x \in Below(z)}
      BY PathIs
    <3>. QED BY <3>1
  <2>. QED BY <2>1, <2>2
<1>4. ASSUME NEW y \in DOMAIN t \ Subtree[h] PROVE back(y) = 0
  <2>1. From(y) = {}
    BY AboveIn
  <2>. QED BY <2>1, SumEmpty
<1>5. \A y \in DOMAIN t : u[y] = [t[y] EXCEPT !.flight = t[y].flight - back(y)]
  BY DEF IsReturned
<1>. HIDE DEF back
<1>6. ASSUME NEW y \in DOMAIN t
      PROVE  /\ u[y] \in Node /\ Alike(t, u, y) /\ u[y].solid = t[y].solid /\ u[y].flight = t[y].flight - back(y)
             /\ back(y) = 0 => u[y] = t[y]
  <2>. DEFINE nd == t[y]
              md == u[y]
              f == t[y].flight - back(y)
  <2>1. nd \in Node /\ f \in Int /\ md = [nd EXCEPT !.flight = f] /\ (back(y) = 0 => f = nd.flight)
    BY <1>1, <1>2, <1>5
  <2>2. /\ md \in Node /\ md.flight = f /\ md.n = nd.n /\ md.w = nd.w /\ md.term = nd.term
        /\ md.lo = nd.lo /\ md.up = nd.up /\ md.own = nd.own /\ md.solid = nd.solid
        /\ f = nd.flight => md = nd
    <3>. HIDE DEF nd, md, f
    <3>. QED BY ONLY <2>1, FlightIs
  <2>. QED BY <2>1, <2>2 DEF Alike
<1>7. u \in [DOMAIN t -> Node]
  BY <1>6 DEF IsReturned
<1>8. \A y \in Subtree[h] : u[y].flight = t[y].flight - SumFunctionOnSet(S, Below(y))
  <2>1. \A y \in Subtree[h] : y \in DOMAIN t /\ back(y) = SumFunctionOnSet(S, Below(y))
    BY <1>1, <1>3 DEF back
  <2>. QED BY <1>6, <2>1
<1>. QED BY <1>1, <1>4, <1>6, <1>7, <1>8 DEF IsTree

\* The ledger is balanced after collisions are given back.
LEMMA ReturnedLedger ==
  ASSUME NEW h \in Nodes, NEW t, IsTree(t, h), NEW S \in [DOMAIN t -> Nat], NEW u, IsReturned(t, u, h, S),
         NEW E, \A e \in E : e.multivisit \in Nat, NEW B \in [Workers -> Seq(E)], LedgerIn(t, h, B, S),
         NEW Z, Z = [y \in DOMAIN t |-> 0]
  PROVE  LedgerIn(u, h, B, Z)
<1>1. /\ DOMAIN u = DOMAIN t /\ Subtree[h] \subseteq DOMAIN t
      /\ \A y \in Subtree[h] : u[y].flight = t[y].flight - SumFunctionOnSet(S, Below(y))
  <2>1. /\ DOMAIN u = DOMAIN t
        /\ \A y \in Subtree[h] : u[y].flight = t[y].flight - SumFunctionOnSet(S, Below(y))
    BY ReturnedTree
  <2>2. Subtree[h] \subseteq DOMAIN t
    BY DEF IsTree
  <2>. QED BY <2>1, <2>2
<1>. DEFINE f == HeldOf(B, Z, DOMAIN t)
            g == HeldOf(B, S, DOMAIN t)
<1>2. \A y \in DOMAIN t : f[y] \in Int /\ g[y] \in Int /\ S[y] \in Int /\ g[y] = f[y] + S[y]
  <2>1. \A y \in DOMAIN t : HeldBy(B, y, Kinds) \in Nat
    BY HeldByIs
  <2>. QED BY <2>1 DEF HeldOf
<1>3. SUFFICES ASSUME NEW x \in Subtree[h]
      PROVE  u[x].flight = HeldBy(B, x, Visiting) + SumFunctionOnSet(f, Below(x))
  BY <1>1 DEF LedgerIn
<1>4. t[x].flight = HeldBy(B, x, Visiting) + SumFunctionOnSet(g, Below(x))
  BY DEF LedgerIn
<1>5. x \in Nodes /\ Below(x) \subseteq DOMAIN t /\ IsFiniteSet(Below(x))
  <2>1. x \in Nodes /\ Subtree[x] \subseteq Subtree[h]
    BY InSubtree, SubtreeTransitive
  <2>. QED BY <1>1, <2>1, InSubtree, FS_Subset DEF Below
<1>. HIDE DEF f, g
<1>6. /\ SumFunctionOnSet(g, Below(x)) = SumFunctionOnSet(f, Below(x)) + SumFunctionOnSet(S, Below(x))
      /\ SumFunctionOnSet(f, Below(x)) \in Int /\ SumFunctionOnSet(S, Below(x)) \in Int
  <2>1. \A y \in Below(x) : f[y] \in Int /\ S[y] \in Int /\ g[y] = f[y] + S[y]
    BY <1>2, <1>5
  <2>2. SumFunctionOnSet(f, Below(x)) \in Int /\ SumFunctionOnSet(S, Below(x)) \in Int
    BY <1>5, <2>1, SumTypeInt
  <2>. QED BY <1>5, <2>1, <2>2, SumPlus
<1>7. HeldBy(B, x, Visiting) \in Int
  <2>1. HeldBy(B, x, Visiting) \in Nat
    BY HeldByIs
  <2>. QED BY <2>1
<1>8. u[x].flight = t[x].flight - SumFunctionOnSet(S, Below(x))
  BY <1>1
<1>. QED BY ONLY <1>4, <1>6, <1>7, <1>8

\* WithoutSharedCollisions gives the shared collisions back.
LEMMA SharedReturned ==
  ASSUME IInv
  PROVE  IsReturned(tree, WithoutSharedCollisions, head, shared_collisions)
<1>1. \A x : Above(x) = AboveTo(head, x)
  BY AboveIs
<1>2. \A y \in Game : {x \in Subtree[head] : y \in Above(x)} = {x \in Subtree[head] : y \in AboveTo(head, x)}
  BY <1>1
<1>. QED BY <1>2 DEF IsReturned, WithoutSharedCollisions, Game

\* BackupDone keeps the invariant.
LEMMA BackupDoneHolds ==
  ASSUME IInv, NEW v \in Workers, BackupDone(v)
  PROVE  IInv' /\ Settled(tree, tree')
<1>1. /\ pc' = [pc EXCEPT ![v] = "idle"] /\ worked' = [worked EXCEPT ![v] = FALSE]
      /\ batch[v] = <<>>
      /\ UNCHANGED <<head, batch, new_start, total_playouts, initial_visits>>
  BY DEF BackupDone, Goto
<1>2. /\ head \in Nodes /\ Subtree[head] \subseteq Game /\ DOMAIN tree = Game
      /\ IsTree(tree, head) /\ head \in Subtree[head]
      /\ TreeHolds(tree, head) /\ EntriesHold(tree, head, batch) /\ OneVisitorIn(tree, batch)
      /\ batch \in [Workers -> Seq(EntryIn(Game))] /\ shared_collisions \in [Game -> Nat]
      /\ LedgerIn(tree, head, batch, shared_collisions)
      /\ CountsHold(tree, head, initial_visits, total_playouts) /\ initial_visits \in Int
      /\ total_playouts \in Nat
      /\ (\A z \in EntryIn(Game) : z.multivisit \in Nat) /\ new_start \in [Workers -> Nat \ {0}]
      /\ worked \in [Workers -> BOOLEAN]
  BY Here
<1>3. /\ DOMAIN tree' = Game /\ IsTree(tree', head) /\ shared_collisions' \in [Game -> Nat]
      /\ \A y \in Game : Alike(tree, tree', y) /\ tree'[y].solid = tree[y].solid
      /\ \A y \in Game \ Subtree[head] : tree'[y] = tree[y]
      /\ LedgerIn(tree', head, batch, shared_collisions')
  <2>1. CASE worked[v]
    <3>. DEFINE u == WithoutSharedCollisions
                Z == [y \in Game |-> 0]
    <3>1. tree' = u /\ shared_collisions' = Z /\ Z \in [Game -> Nat]
      BY <2>1 DEF BackupDone, CancelSharedCollisions
    <3>2. IsReturned(tree, u, head, shared_collisions) /\ Z = [y \in DOMAIN tree |-> 0]
      BY SharedReturned DEF Game
    <3>. HIDE DEF u, Z
    <3>3. shared_collisions \in [DOMAIN tree -> Nat] /\ head \in Nodes /\ IsTree(tree, head)
      BY <1>2
    <3>4. /\ DOMAIN u = DOMAIN tree /\ IsTree(u, head)
          /\ \A y \in DOMAIN tree : Alike(tree, u, y) /\ u[y].solid = tree[y].solid
          /\ \A y \in DOMAIN tree \ Subtree[head] : u[y] = tree[y]
      BY ONLY <3>2, <3>3, ReturnedTree
    <3>5. LedgerIn(u, head, batch, Z)
      BY <1>2, <3>2, <3>3, ReturnedLedger
    <3>. QED BY <1>2, <3>1, <3>4, <3>5
  <2>2. CASE ~worked[v]
    <3>1. tree' = tree /\ shared_collisions' = shared_collisions
      BY <2>2 DEF BackupDone
    <3>. QED BY <1>2, <3>1 DEF Alike
  <2>. QED BY <2>1, <2>2
<1>. DEFINE u == tree'
<1>4. TreeHolds(u, head) /\ Found(u, head) = Found(tree, head) /\ EntriesHold(u, head, batch)
  <2>1. IsTree(u, head) /\ \A y \in Subtree[head] : Alike(tree, u, y)
    BY <1>2, <1>3
  <2>. HIDE DEF u
  <2>2. /\ TreeHolds(tree, head) => TreeHolds(u, head)
        /\ Found(u, head) = Found(tree, head)
        /\ \A e : EntryHolds(tree, head, e) => EntryHolds(u, head, e)
    BY <1>2, <2>1, AlikeTree
  <2>. QED BY <1>2, <2>2 DEF EntriesHold
<1>5. OneVisitorIn(u, batch)
  <2>1. StaysVisited(tree, u, batch)
    <3>1. \A w \in Workers : \A i \in DOMAIN batch[w] : batch[w][i].node \in Game
      BY <1>2, Here
    <3>2. \A y \in Game : u[y].n = tree[y].n
      BY <1>3 DEF Alike
    <3>. HIDE DEF u
    <3>. QED BY <3>1, <3>2 DEF StaysVisited
  <2>. HIDE DEF u
  <2>. QED BY <1>2, <2>1, SameVisitors
<1>6. CountsHold(u, head, initial_visits, total_playouts)
  BY <1>2, <1>3, <1>4 DEF CountsHold, Alike
<1>7. /\ batch' = [batch EXCEPT ![v] = <<>>] /\ new_start' = [new_start EXCEPT ![v] = new_start[v]]
      /\ new_start[v] \in Nat \ {0} /\ "idle" \in Places /\ ProgressOf("idle", <<>>, new_start[v])
      /\ <<>> \in Seq(EntryIn(Game))
  BY <1>1, <1>2 DEF Places, ProgressOf
<1>8. /\ worked' \in [Workers -> BOOLEAN] /\ total_playouts' \in Nat /\ initial_visits' \in Int
      /\ head' = head
      /\ EntriesHold(tree', head, batch') /\ OneVisitorIn(tree', batch') /\ TreeHolds(tree', head)
      /\ CountsHold(tree', head, initial_visits', total_playouts')
      /\ LedgerIn(tree', head, batch', shared_collisions')
  BY <1>1, <1>2, <1>3, <1>4, <1>5, <1>6
<1>9. IInv'
  BY <1>1, <1>3, <1>7, <1>8, Together
<1>10. Settled(tree, tree')
  BY <1>2, <1>3 DEF Settled
<1>. QED BY <1>9, <1>10

\* Between two searches nothing is in flight.
LEMMA AtRest ==
  ASSUME IInv, \A v \in Workers : pc[v] = "idle"
  PROVE  /\ \A v \in Workers : batch[v] = <<>>
         /\ \A y, K : HeldBy(batch, y, K) = 0
         /\ \A y \in Game : WithoutSharedCollisions[y].flight = 0
<1>1. /\ head \in Nodes /\ Subtree[head] \subseteq Game /\ DOMAIN tree = Game /\ IsTree(tree, head)
      /\ batch \in [Workers -> Seq(EntryIn(Game))] /\ shared_collisions \in [Game -> Nat]
      /\ LedgerIn(tree, head, batch, shared_collisions) /\ ReleasedIn(tree, head)
      /\ (\A z \in EntryIn(Game) : z.multivisit \in Nat) /\ ProgressIn(pc, batch, new_start)
  BY Here
<1>2. \A v \in Workers : batch[v] = <<>>
  BY <1>1 DEF ProgressIn, ProgressOf
<1>3. \A y, K : HeldBy(batch, y, K) = 0
  BY <1>2, HeldByNone
<1>. DEFINE u == WithoutSharedCollisions
            Z == [y \in DOMAIN tree |-> 0]
<1>4. IsReturned(tree, u, head, shared_collisions) /\ shared_collisions \in [DOMAIN tree -> Nat]
  BY <1>1, SharedReturned
<1>5. DOMAIN u = DOMAIN tree /\ \A y \in DOMAIN tree \ Subtree[head] : u[y] = tree[y]
  <2>. HIDE DEF u
  <2>. QED BY ONLY <1>1, <1>4, ReturnedTree
<1>6. LedgerIn(u, head, batch, Z)
  <2>1. Z = [y \in DOMAIN tree |-> 0]
    OBVIOUS
  <2>. HIDE DEF u, Z
  <2>. QED BY ONLY <1>1, <1>4, <2>1, ReturnedLedger
<1>7. ASSUME NEW y \in Subtree[head] PROVE u[y].flight = 0
  <2>1. u[y].flight = HeldBy(batch, y, Visiting) + SumFunctionOnSet(HeldOf(batch, Z, DOMAIN u), Below(y))
    <3>. HIDE DEF u, Z
    <3>. QED BY <1>6 DEF LedgerIn
  <2>2. y \in Nodes /\ Below(y) \subseteq Game /\ IsFiniteSet(Below(y))
    <3>1. y \in Nodes /\ Subtree[y] \subseteq Subtree[head]
      BY <1>1, InSubtree, SubtreeTransitive
    <3>. QED BY <1>1, <3>1, InSubtree, FS_Subset DEF Below
  <2>3. \A z \in Below(y) : HeldOf(batch, Z, DOMAIN u)[z] = 0
    <3>1. \A z \in Below(y) : z \in DOMAIN u /\ Z[z] = 0
      BY <1>1, <1>5, <2>2
    <3>. HIDE DEF u, Z
    <3>. QED BY <1>3, <3>1 DEF HeldOf
  <2>. HIDE DEF u, Z
  <2>4. SumFunctionOnSet(HeldOf(batch, Z, DOMAIN u), Below(y)) = 0
    BY <2>2, <2>3, SumZero
  <2>. QED BY <1>3, <2>1, <2>4
<1>8. ASSUME NEW y \in Game \ Subtree[head] PROVE u[y].flight = 0
  <2>1. u[y] = tree[y] /\ tree[y] = NewNode
    BY <1>1, <1>5 DEF ReleasedIn
  <2>. HIDE DEF u
  <2>. QED BY <2>1 DEF NewNode
<1>. QED BY <1>2, <1>3, <1>7, <1>8

\* What the beginning of a search has to leave in place.
LEMMA SearchBegins ==
  ASSUME IInv, \A v \in Workers : pc[v] = "idle", UNCHANGED workerVars,
         head' \in Game, tree' \in [Game -> Node], TreeHolds(tree', head'), ReleasedIn(tree', head'),
         \A y \in Game : tree'[y].flight = 0, shared_collisions' = [y \in Game |-> 0],
         total_playouts' = 0, initial_visits' = tree'[head'].n
  PROVE  IInv'
<1>1. /\ batch \in [Workers -> Seq(EntryIn(Game))] /\ new_start \in [Workers -> Nat \ {0}]
      /\ worked \in [Workers -> BOOLEAN] /\ pc \in [Workers -> Places]
      /\ ProgressIn(pc, batch, new_start)
      /\ \E r \in Roots : Game = Subtree[r]
  BY Here DEF IInv, Typed, TypesHold, Game
<1>2. batch' = batch /\ new_start' = new_start /\ worked' = worked /\ pc' = pc
  BY DEF workerVars
<1>3. \A v \in Workers : batch[v] = <<>>
  BY AtRest
<1>. DEFINE u == tree'
            h == head'
            S == shared_collisions'
<1>4. /\ u \in [Game -> Node] /\ DOMAIN u = Game /\ h \in Game /\ S \in [Game -> Nat]
      /\ \A y \in Game : S[y] = 0
  OBVIOUS
<1>5. /\ TreeHolds(u, h) /\ ReleasedIn(u, h) /\ \A y \in Game : u[y].flight = 0
  OBVIOUS
<1>6. TypesHold(u, h, batch, S)
  <2>. HIDE DEF u, h, S
  <2>. QED BY <1>1, <1>4 DEF TypesHold
<1>7. h \in Nodes /\ h \in Subtree[h] /\ IsTree(u, h) /\ Subtree[h] \subseteq Game
  <2>. HIDE DEF u, h, S
  <2>. QED BY <1>4, <1>6, TypesGive
<1>8. LedgerIn(u, h, batch, S)
  <2>. HIDE DEF u, h, S
  <2>1. SUFFICES ASSUME NEW x \in Subtree[h]
        PROVE  u[x].flight = HeldBy(batch, x, Visiting) + SumFunctionOnSet(HeldOf(batch, S, DOMAIN u), Below(x))
    BY DEF LedgerIn
  <2>2. \A y, K : HeldBy(batch, y, K) = 0
    BY <1>3, HeldByNone
  <2>3. x \in Nodes /\ Below(x) \subseteq Game /\ IsFiniteSet(Below(x))
    <3>1. x \in Nodes /\ Subtree[x] \subseteq Subtree[h]
      BY <1>7, InSubtree, SubtreeTransitive
    <3>. QED BY <1>7, <3>1, InSubtree, FS_Subset DEF Below
  <2>4. \A y \in Below(x) : HeldOf(batch, S, DOMAIN u)[y] = 0
    BY <1>4, <2>2, <2>3 DEF HeldOf
  <2>5. SumFunctionOnSet(HeldOf(batch, S, DOMAIN u), Below(x)) = 0
    BY <2>3, <2>4, SumZero
  <2>. QED BY <1>5, <1>7, <2>2, <2>5
<1>9. CountsHold(u, h, u[h].n, 0) /\ u[h].n \in Int
  <2>. HIDE DEF u, h, S
  <2>1. u[h].n \in Nat
    BY <1>4, NodeType
  <2>2. Found(u, h) <= u[h].n
    BY <1>5, <1>7, TwoFoldsFound DEF TreeHolds
  <2>. QED BY <2>1, <2>2 DEF CountsHold
<1>10. EntriesHold(u, h, batch) /\ OneVisitorIn(u, batch)
  BY <1>3 DEF EntriesHold, OneVisitorIn
<1>11. Typed'
  BY <1>1, <1>2, <1>6, <1>9 DEF Typed
<1>. QED BY <1>1, <1>2, <1>5, <1>8, <1>9, <1>10, <1>11 DEF IInv

\* TrimTreeAtHead keeps the invariant.
LEMMA TrimTreeAtHeadHolds ==
  ASSUME IInv, TrimTreeAtHead
  PROVE  IInv' /\ Settled(tree, tree')
<1>1. /\ \A v \in Workers : pc[v] = "idle"
      /\ UNCHANGED workerVars /\ head' = head /\ tree' = [y \in Game |-> NewNode]
      /\ shared_collisions' = [y \in Game |-> 0] /\ total_playouts' = 0 /\ initial_visits' = 0
  BY DEF TrimTreeAtHead
<1>2. head \in Nodes /\ Subtree[head] \subseteq Game /\ head \in Subtree[head] /\ Game = DOMAIN tree
  BY Here
<1>3. tree' \in [Game -> Node] /\ TreeHolds(tree', head)
  BY <1>1, <1>2, NewTree
<1>4. /\ ReleasedIn(tree', head)
      /\ \A y \in Game : tree'[y].flight = 0 /\ tree'[y].n = 0 /\ tree'[y].solid = FALSE
  BY <1>1 DEF ReleasedIn, NewNode
<1>5. IInv'
  BY <1>1, <1>2, <1>3, <1>4, SearchBegins
<1>6. DOMAIN tree' = DOMAIN tree
  BY <1>1, <1>2
<1>. QED BY <1>2, <1>4, <1>5, <1>6 DEF Settled

\* ResetToPosition keeps the invariant.
LEMMA ResetToPositionHolds ==
  ASSUME IInv, ResetToPosition
  PROVE  IInv' /\ Settled(tree, tree')
<1>1. /\ \A v \in Workers : pc[v] = "idle"
      /\ UNCHANGED workerVars /\ head' \in Game /\ tree' = [y \in Game |-> NewNode]
      /\ shared_collisions' = [y \in Game |-> 0] /\ total_playouts' = 0 /\ initial_visits' = 0
  BY DEF ResetToPosition
<1>. DEFINE h == head'
<1>2. h \in Nodes /\ Subtree[h] \subseteq Game /\ Game = DOMAIN tree /\ h \in Game
  <2>1. PICK r \in Roots : Game = Subtree[r]
    BY DEF IInv, Typed, TypesHold, Game
  <2>2. r \in Nodes /\ h \in Subtree[r]
    BY <1>1, <2>1, TreeAssumption
  <2>. HIDE DEF h
  <2>3. h \in Nodes /\ Subtree[h] \subseteq Subtree[r]
    BY <2>2, InSubtree, SubtreeTransitive
  <2>. QED BY <2>1, <2>2, <2>3 DEF Game
<1>3. tree' \in [Game -> Node] /\ TreeHolds(tree', h)
  <2>. HIDE DEF h
  <2>. QED BY <1>1, <1>2, NewTree
<1>4. /\ ReleasedIn(tree', h)
      /\ \A y \in Game : tree'[y].flight = 0 /\ tree'[y].n = 0 /\ tree'[y].solid = FALSE
  BY <1>1 DEF ReleasedIn, NewNode
<1>5. IInv'
  BY <1>1, <1>2, <1>3, <1>4, SearchBegins
<1>6. DOMAIN tree' = DOMAIN tree
  BY <1>1, <1>2
<1>. QED BY <1>2, <1>4, <1>5, <1>6 DEF Settled

\* The new root is what its comment says: its visits are counted anew.
IsRecounted(nd, md, n, w, own) == md = [nd EXCEPT !.term = "no", !.n = n, !.w = w, !.own = own]

\* Its fields.
LEMMA NotTerminalIs ==
  ASSUME NEW nd \in Node, NEW md, NEW n \in Nat, NEW w \in Int,
         NEW own \in -1 .. 1, IsRecounted(nd, md, n, w, own)
  PROVE  /\ md \in Node /\ md.term = "no" /\ md.n = n /\ md.w = w /\ md.own = own
         /\ md.flight = nd.flight /\ md.solid = nd.solid
BY DEF Node, IsRecounted

\* MakeNotTerminal makes of a child of the root what the next search may begin at.
LEMMA NewHeadIs ==
  ASSUME NEW h \in Nodes, NEW t, IsTree(t, h), DOMAIN t = Game, NEW x \in Children(h), t[x].term = tree[x].term,
         NEW md, md = MakeNotTerminal(t, x), NEW u, u[x] = md
  PROVE  /\ md \in Node /\ md.flight = t[x].flight /\ md.solid = t[x].solid
         /\ BecomesHead(t, u, x)
<1>1. x \in Subtree[h]
  BY ChildrenIn
<1>2. /\ x \in Game /\ t[x] \in Node
      /\ SumFunctionOnSet(VisitsIn(t), Children(x)) \in Nat
      /\ SumFunctionOnSet(ValuesIn(t), Children(x)) \in Int
  BY <1>1, SumsType
<1>3. VisitsOf(t) = VisitsIn(t) /\ ValuesOf(t) = ValuesIn(t)
  BY DEF VisitsOf, ValuesOf, VisitsIn, ValuesIn
<1>. DEFINE nd == t[x]
            W == SumFunctionOnSet(ValuesIn(t), Children(x))
            N == SumFunctionOnSet(VisitsIn(t), Children(x))
            own == TerminalValue(nd)
<1>4. CASE ~IsTerminal(t[x])
  BY <1>2, <1>4 DEF MakeNotTerminal, BecomesHead, IsTerminal
<1>5. CASE IsTerminal(t[x]) /\ ~HasEdges(x)
  <2>1. md = [nd EXCEPT !.term = "no", !.n = 0, !.w = 0]
    BY <1>5 DEF MakeNotTerminal
  <2>2. nd \in Node /\ nd.term # "no" /\ (nd.term # "end" \/ x \in DOMAIN GameEnd \cup RuleDraws)
    BY <1>2, <1>5 DEF IsTerminal, HasEdges
  <2>. HIDE DEF nd
  <2>3. /\ md \in Node /\ md.n = 0 /\ md.w = 0 /\ md.term = "no" /\ md.flight = nd.flight
        /\ md.solid = nd.solid
    BY ONLY <2>1, <2>2, NodeReset, ResetKeeps
  <2>. QED BY <2>2, <2>3 DEF nd, BecomesHead
<1>6. CASE IsTerminal(t[x]) /\ HasEdges(x)
  <2>1. nd.term = "end" /\ x \notin DOMAIN GameEnd \cup RuleDraws
    BY <1>6 DEF HasEdges
  <2>2. md = [nd EXCEPT !.term = "no", !.n = 1 + N, !.w = own - W, !.own = own]
    BY <1>3, <1>6 DEF MakeNotTerminal
  <2>3. nd \in Node /\ 1 + N \in Nat /\ own \in -1 .. 1
    <3>1. nd.lo \in -1 .. 1
      BY <1>2, NodeType
    <3>. QED BY <1>2, <3>1 DEF TerminalValue
  <2>4. own - W \in Int
    <3>. HIDE DEF own, W
    <3>. QED BY <1>2, <2>3 DEF W
  <2>5. /\ md \in Node /\ md.term = "no" /\ md.n = 1 + N /\ md.w = own - W /\ md.own = own
        /\ md.flight = nd.flight /\ md.solid = nd.solid
    <3>. DEFINE n == 1 + N
                w == own - W
    <3>. HIDE DEF nd, N, W, own
    <3>1. /\ nd \in Node /\ n \in Nat /\ w \in Int /\ own \in -1 .. 1
          /\ IsRecounted(nd, md, n, w, own)
      BY <2>2, <2>3, <2>4 DEF IsRecounted
    <3>. HIDE DEF n, w
    <3>2. /\ md \in Node /\ md.term = "no" /\ md.n = n /\ md.w = w /\ md.own = own
          /\ md.flight = nd.flight /\ md.solid = nd.solid
      BY ONLY <3>1, NotTerminalIs
    <3>. QED BY <3>2 DEF n, w
  <2>6. BecomesHead(t, u, x)
    BY <2>1, <2>5 DEF BecomesHead
  <2>. QED BY <2>5, <2>6
<1>. QED BY <1>4, <1>5, <1>6

\* The tree that the next search begins with.
NextTree(t, u, h, x) ==
  /\ u = [y \in DOMAIN t |-> u[y]]
  /\ x = h \/ (x \in Children(h) /\ BecomesHead(t, u, x))
  /\ u[x] \in Node /\ u[x].flight = t[x].flight /\ u[x].solid = t[x].solid /\ (x = h => u[x] = t[x])
  /\ \A y \in DOMAIN t : y # x => u[y] = IF y \in Subtree[x] THEN t[y] ELSE NewNode

\* A tree holds when the next search begins, at the same node or at a child.
LEMMA NextTreeHolds ==
  ASSUME NEW h \in Nodes, NEW t, IsTree(t, h), TreeHolds(t, h), \A y \in DOMAIN t : t[y].flight = 0,
         NEW x, NEW u, NextTree(t, u, h, x)
  PROVE  /\ x \in DOMAIN t /\ u \in [DOMAIN t -> Node] /\ TreeHolds(u, x) /\ ReleasedIn(u, x)
         /\ \A y \in DOMAIN t : u[y].flight = 0 /\ (u[y].solid => t[y].solid)
<1>1. /\ x \in Subtree[h] /\ x \in Nodes /\ Subtree[x] \subseteq Subtree[h] /\ x \in Subtree[x]
      /\ Subtree[h] \subseteq DOMAIN t
  <2>1. x \in Subtree[h]
    BY InSubtree, ChildrenIn DEF NextTree
  <2>. QED BY <2>1, InSubtree, SubtreeTransitive DEF IsTree
<1>2. NewNode \in Node /\ NewNode.flight = 0 /\ NewNode.solid = FALSE
  BY DEF NewNode, Node
<1>3. \A y \in DOMAIN t : t[y] \in Node
  BY DEF IsTree
<1>4. \A y \in DOMAIN t : u[y] \in Node /\ u[y].flight = 0 /\ (u[y].solid => t[y].solid)
  BY <1>1, <1>2, <1>3 DEF NextTree
<1>5. u \in [DOMAIN t -> Node] /\ DOMAIN u = DOMAIN t
  BY <1>4 DEF NextTree
<1>6. IsTree(u, x)
  BY <1>1, <1>5 DEF IsTree
<1>7. ReleasedIn(u, x)
  BY <1>1, <1>5 DEF ReleasedIn, NextTree
<1>8. TreeHolds(u, x)
  <2>1. CASE x = h
    <3>1. IsTree(u, h) /\ \A y \in Subtree[h] : u[y] = t[y]
      BY <1>1, <1>6, <2>1 DEF NextTree
    <3>2. \A y \in Subtree[h] : Alike(t, u, y)
      BY <3>1 DEF Alike
    <3>. QED BY <2>1, <3>1, <3>2, AlikeTree
  <2>2. CASE x \in Children(h) /\ BecomesHead(t, u, x)
    <3>1. \A y \in Subtree[x] \ {x} : u[y] = t[y]
      BY <1>1 DEF NextTree
    <3>. QED BY <1>6, <2>2, <3>1, NewHeadTree
  <2>. QED BY <2>1, <2>2 DEF NextTree
<1>. QED BY <1>1, <1>4, <1>5, <1>7, <1>8

\* NextSearch keeps the invariant.
LEMMA NextSearchHolds ==
  ASSUME IInv, NEW x \in Game, NextSearch(x)
  PROVE  IInv' /\ Settled(tree, tree')
<1>. DEFINE t == WithoutSharedCollisions
            md == MakeNotTerminal(t, x)
            u == tree'
<1>1. /\ \A v \in Workers : pc[v] = "idle"
      /\ x \in {head} \cup Children(head) /\ head' = x
      /\ u = [y \in Game |-> CASE y = x /\ x # head -> md [] y \notin Subtree[x] -> NewNode [] OTHER -> t[y]]
      /\ shared_collisions' = [y \in Game |-> 0] /\ total_playouts' = 0 /\ initial_visits' = u[x].n
      /\ UNCHANGED workerVars
  BY DEF NextSearch
<1>2. /\ head \in Nodes /\ Subtree[head] \subseteq Game /\ Game = DOMAIN tree
      /\ IsTree(tree, head) /\ TreeHolds(tree, head)
      /\ shared_collisions \in [DOMAIN tree -> Nat]
  BY Here
<1>3. IsReturned(tree, t, head, shared_collisions)
  BY SharedReturned
<1>4. \A y \in Game : t[y].flight = 0
  BY <1>1, AtRest
<1>5. /\ DOMAIN t = Game /\ IsTree(t, head) /\ TreeHolds(t, head)
      /\ \A y \in Game : t[y].term = tree[y].term /\ t[y].solid = tree[y].solid
  <2>. HIDE DEF t
  <2>1. /\ DOMAIN t = DOMAIN tree /\ IsTree(t, head)
        /\ \A y \in DOMAIN tree : Alike(tree, t, y) /\ t[y].solid = tree[y].solid
    BY ONLY <1>2, <1>3, ReturnedTree
  <2>2. TreeHolds(t, head)
    BY <1>2, <2>1, AlikeTree
  <2>. QED BY <1>2, <2>1, <2>2 DEF Alike
<1>6. x \in Game /\ x \in Nodes /\ x \in Subtree[x] /\ (x \in Children(head) => x # head)
  <2>1. x \in Subtree[head]
    BY <1>1, <1>2, InSubtree, ChildrenIn
  <2>. QED BY <1>2, <2>1, InSubtree, ChildrenIn
<1>7. /\ DOMAIN u = Game /\ u = [y \in Game |-> u[y]]
      /\ x = head => u[x] = t[x]
      /\ x # head => u[x] = md
      /\ \A y \in Game : y # x => u[y] = IF y \in Subtree[x] THEN t[y] ELSE NewNode
  <2>. HIDE DEF t, md
  <2>. DEFINE r == [y \in Game |-> CASE y = x /\ x # head -> md [] y \notin Subtree[x] -> NewNode [] OTHER -> t[y]]
  <2>1. /\ DOMAIN r = Game /\ r = [y \in Game |-> r[y]]
        /\ x = head => r[x] = t[x]
        /\ x # head => r[x] = md
        /\ \A y \in Game : y # x => r[y] = IF y \in Subtree[x] THEN t[y] ELSE NewNode
    BY <1>6
  <2>2. u = r
    BY <1>1
  <2>. HIDE DEF r, u
  <2>. QED BY ONLY <2>1, <2>2
<1>8. NextTree(t, u, head, x)
  <2>1. CASE x = head
    <3>. HIDE DEF t, md, u
    <3>1. t[x] \in Node
      BY <1>5, <1>6 DEF IsTree
    <3>. QED BY <1>5, <1>7, <2>1, <3>1 DEF NextTree
  <2>2. CASE x # head
    <3>1. md = MakeNotTerminal(t, x) /\ x \in Children(head) /\ t[x].term = tree[x].term
      BY <1>1, <1>5, <1>6, <2>2
    <3>. HIDE DEF t, md, u
    <3>2. md \in Node /\ md.flight = t[x].flight /\ md.solid = t[x].solid /\ BecomesHead(t, u, x)
      BY <1>2, <1>5, <1>7, <2>2, <3>1, NewHeadIs
    <3>. QED BY <1>5, <1>7, <2>2, <3>1, <3>2 DEF NextTree
  <2>. QED BY <2>1, <2>2
<1>9. /\ u \in [Game -> Node] /\ TreeHolds(u, x) /\ ReleasedIn(u, x)
      /\ \A y \in Game : u[y].flight = 0 /\ (u[y].solid => t[y].solid)
  <2>. HIDE DEF t, md, u
  <2>. QED BY <1>2, <1>4, <1>5, <1>8, NextTreeHolds
<1>10. IInv'
  BY <1>1, <1>9, SearchBegins
<1>11. Settled(tree, tree')
  BY <1>2, <1>5, <1>9 DEF Settled
<1>. QED BY <1>10, <1>11

-----------------------------------------------------------------------------
(* Moving the children of a node.                                          *)

\* What a minibatch holds is visits and collisions.
LEMMA HeldAtSplit ==
  ASSUME NEW E, \A e \in E : e.multivisit \in Nat /\ e.kind \in Kinds, NEW b \in Seq(E), NEW y
  PROVE  HeldAt(b, y, Kinds) = HeldAt(b, y, Visiting) + HeldAt(b, y, {"collision"})
<1>. DEFINE f == Mults(b, y, Visiting)
            g == Mults(b, y, {"collision"})
            m == Mults(b, y, Kinds)
            D == DOMAIN b
<1>1. /\ IsFiniteSet(D) /\ \A i \in D : f[i] \in Nat /\ g[i] \in Nat
      /\ HeldAt(b, y, Kinds) = SumFunctionOnSet(m, D)
      /\ HeldAt(b, y, Visiting) = SumFunctionOnSet(f, D)
      /\ HeldAt(b, y, {"collision"}) = SumFunctionOnSet(g, D)
  BY HeldIs
<1>2. \A i \in D : m[i] = f[i] + g[i]
  <2>. SUFFICES ASSUME NEW i \in D PROVE m[i] = f[i] + g[i]
    OBVIOUS
  <2>. DEFINE e == b[i]
  <2>1. e.multivisit \in Nat /\ e.kind \in Kinds
    OBVIOUS
  <2>2. m[i] = Mult(e, y, Kinds) /\ f[i] = Mult(e, y, Visiting) /\ g[i] = Mult(e, y, {"collision"})
    BY DEF Mults
  <2>. HIDE DEF e, m, f, g
  <2>3. Mult(e, y, Kinds) = Mult(e, y, Visiting) + Mult(e, y, {"collision"})
    BY <2>1 DEF Mult, Visiting, Kinds
  <2>. QED BY <2>2, <2>3
<1>. HIDE DEF f, g, m, D
<1>3. \A i \in D : f[i] \in Int /\ g[i] \in Int /\ m[i] = f[i] + g[i]
  BY <1>1, <1>2
<1>4. SumFunctionOnSet(m, D) = SumFunctionOnSet(f, D) + SumFunctionOnSet(g, D)
  BY <1>1, <1>3, SumPlus
<1>. QED BY <1>1, <1>4

\* What minibatches hold is visits and collisions.
LEMMA HeldBySplit ==
  ASSUME NEW E, \A e \in E : e.multivisit \in Nat /\ e.kind \in Kinds, NEW B \in [Workers -> Seq(E)], NEW y
  PROVE  /\ HeldBy(B, y, Kinds) = HeldBy(B, y, Visiting) + HeldBy(B, y, {"collision"})
         /\ HeldBy(B, y, Visiting) \in Nat /\ HeldBy(B, y, {"collision"}) \in Nat
<1>. DEFINE f == [v \in Workers |-> HeldAt(B[v], y, Visiting)]
            g == [v \in Workers |-> HeldAt(B[v], y, {"collision"})]
            m == [v \in Workers |-> HeldAt(B[v], y, Kinds)]
<1>1. /\ IsFiniteSet(Workers) /\ \A v \in Workers : f[v] \in Nat /\ g[v] \in Nat
      /\ HeldBy(B, y, Kinds) = SumFunctionOnSet(m, Workers)
      /\ HeldBy(B, y, Visiting) = SumFunctionOnSet(f, Workers)
      /\ HeldBy(B, y, {"collision"}) = SumFunctionOnSet(g, Workers)
      /\ HeldBy(B, y, Visiting) \in Nat /\ HeldBy(B, y, {"collision"}) \in Nat
  BY HeldByIs
<1>2. \A v \in Workers : m[v] = f[v] + g[v]
  BY HeldAtSplit
<1>. HIDE DEF f, g, m
<1>3. \A v \in Workers : f[v] \in Int /\ g[v] \in Int /\ m[v] = f[v] + g[v]
  BY <1>1, <1>2
<1>4. SumFunctionOnSet(m, Workers) = SumFunctionOnSet(f, Workers) + SumFunctionOnSet(g, Workers)
  BY <1>1, <1>3, SumPlus
<1>. QED BY <1>1, <1>4

\* When as much is in flight at the children of a node as at the node, nothing
\* is held at them but visits.
LEMMA ChildrenHold ==
  ASSUME NEW h \in Nodes, NEW t, DOMAIN t = Game, IsTree(t, h), NEW x \in Subtree[h], SafeIn(t, x),
         NEW E, \A e \in E : e.multivisit \in Nat /\ e.kind \in Kinds, NEW B \in [Workers -> Seq(E)],
         NEW S \in [Game -> Nat], LedgerIn(t, h, B, S), NEW c \in Children(x)
  PROVE  S[c] = 0 /\ HeldBy(B, c, {"collision"}) = 0
<1>. DEFINE C == Children(x)
            g == HeldOf(B, S, Game)
            a == [y \in C |-> HeldBy(B, y, Visiting)]
            d == [y \in C |-> HeldBy(B, y, {"collision"}) + S[y]]
            l == [y \in C |-> SumFunctionOnSet(g, Below(y))]
            s == [y \in C |-> SumFunctionOnSet(g, Subtree[y])]
            al == [y \in C |-> a[y] + l[y]]
            f == FlightsOf(t)
<1>1. /\ Subtree[h] \subseteq Game /\ x \in Nodes /\ Subtree[x] \subseteq Subtree[h]
      /\ IsFiniteSet(C) /\ C \subseteq Subtree[x]
      /\ \A y \in C : y \in Nodes /\ Subtree[y] \subseteq Subtree[x]
  BY InSubtree, SubtreeTransitive, ChildrenIn DEF IsTree
<1>2. \A y \in Game : g[y] \in Nat /\ g[y] = HeldBy(B, y, Kinds) + S[y]
  <2>1. \A y \in Game : g[y] \in Nat
    BY HeldOfType
  <2>. QED BY <2>1 DEF HeldOf
<1>3. \A y \in C : a[y] \in Nat /\ d[y] \in Nat /\ g[y] = a[y] + d[y]
  <2>. SUFFICES ASSUME NEW y \in C PROVE a[y] \in Nat /\ d[y] \in Nat /\ g[y] = a[y] + d[y]
    OBVIOUS
  <2>1. /\ HeldBy(B, y, Kinds) = HeldBy(B, y, Visiting) + HeldBy(B, y, {"collision"})
        /\ HeldBy(B, y, Visiting) \in Nat /\ HeldBy(B, y, {"collision"}) \in Nat
    BY HeldBySplit
  <2>2. y \in Game /\ S[y] \in Nat
    BY <1>1
  <2>3. g[y] = HeldBy(B, y, Kinds) + S[y]
    BY <1>2, <2>2
  <2>4. a[y] = HeldBy(B, y, Visiting) /\ d[y] = HeldBy(B, y, {"collision"}) + S[y]
    OBVIOUS
  <2>. QED BY ONLY <2>1, <2>2, <2>3, <2>4
<1>4. \A y \in Subtree[x] : t[y].flight = HeldBy(B, y, Visiting) + SumFunctionOnSet(g, Below(y))
  BY <1>1 DEF LedgerIn
<1>5. \A y \in C : l[y] \in Nat /\ s[y] = g[y] + l[y] /\ f[y] = al[y] /\ al[y] = a[y] + l[y]
  <2>. SUFFICES ASSUME NEW y \in C PROVE l[y] \in Nat /\ s[y] = g[y] + l[y] /\ f[y] = al[y] /\ al[y] = a[y] + l[y]
    OBVIOUS
  <2>1. /\ y \in Subtree[y] /\ IsFiniteSet(Subtree[y]) /\ Subtree[y] \subseteq Game
        /\ Below(y) = Subtree[y] \ {y}
        /\ Below(y) \subseteq Game /\ IsFiniteSet(Below(y)) /\ y \in Game /\ y \in Subtree[x]
    BY <1>1, InSubtree, FS_Subset DEF Below
  <2>2. l[y] = SumFunctionOnSet(g, Below(y)) /\ s[y] = SumFunctionOnSet(g, Subtree[y]) /\ al[y] = a[y] + l[y]
        /\ a[y] = HeldBy(B, y, Visiting)
    OBVIOUS
  <2>. HIDE DEF g, l, s, al, a
  <2>3. l[y] \in Nat
    BY <1>2, <2>1, <2>2, SumNat
  <2>4. \A z \in Subtree[y] : g[z] \in Int
    BY <1>2, <2>1
  <2>5. SumFunctionOnSet(g, Subtree[y]) = g[y] + SumFunctionOnSet(g, Subtree[y] \ {y})
    BY ONLY <2>1, <2>4, SumRemoveInt
  <2>6. f[y] = t[y].flight
    BY <2>1 DEF FlightsOf
  <2>7. t[y].flight = HeldBy(B, y, Visiting) + SumFunctionOnSet(g, Below(y))
    BY <1>4, <2>1
  <2>. QED BY <2>1, <2>2, <2>3, <2>5, <2>6, <2>7
<1>6. SumFunctionOnSet(g, Below(x)) = SumFunctionOnSet(s, C)
  <2>1. \A y \in Subtree[x] : g[y] \in Int
    BY <1>1, <1>2
  <2>. HIDE DEF g
  <2>. QED BY <1>1, <2>1, SumBelow
<1>7. x \in Subtree[x] /\ HeldBy(B, x, Visiting) \in Nat
  BY <1>1, InSubtree, HeldByIs
<1>8. t[x].flight = HeldBy(B, x, Visiting) + SumFunctionOnSet(s, C)
  BY <1>4, <1>6, <1>7
<1>9. SumFunctionOnSet(f, C) = t[x].flight
  BY DEF SafeIn
<1>. HIDE DEF g, a, d, l, s, al, f, C
<1>10. SumFunctionOnSet(f, C) = SumFunctionOnSet(al, C)
  BY <1>1, <1>5, SumEqual
<1>11. /\ SumFunctionOnSet(s, C) = SumFunctionOnSet(al, C) + SumFunctionOnSet(d, C)
       /\ SumFunctionOnSet(al, C) \in Int
  <2>1. \A y \in C : al[y] \in Int /\ d[y] \in Int /\ s[y] = al[y] + d[y]
    BY <1>3, <1>5
  <2>. QED BY <1>1, <2>1, SumPlus, SumTypeInt
<1>12. c \in C /\ d[c] \in Nat /\ d[c] <= SumFunctionOnSet(d, C) /\ SumFunctionOnSet(d, C) \in Nat
  BY <1>1, <1>3, SumTerm, SumNat DEF C
<1>13. d[c] = 0
  BY ONLY <1>7, <1>8, <1>9, <1>10, <1>11, <1>12
<1>14. d[c] = HeldBy(B, c, {"collision"}) + S[c]
  BY <1>12 DEF d
<1>15. HeldBy(B, c, {"collision"}) \in Nat /\ S[c] \in Nat
  BY <1>1, <1>12, HeldByIs
<1>. QED BY ONLY <1>13, <1>14, <1>15

AreEntries(E) == \A e \in E : e.multivisit \in Nat \ {0} /\ e.kind \in Kinds

\* Who moves the children of a node to one array moves none that anyone has.
LEMMA Unheld ==
  ASSUME NEW h \in Nodes, NEW t, DOMAIN t = Game, IsTree(t, h), NEW x \in Subtree[h], SafeIn(t, x),
         NEW E, AreEntries(E), NEW B \in [Workers -> Seq(E)],
         NEW S \in [Game -> Nat], LedgerIn(t, h, B, S), EntriesHold(t, h, B), NEW c \in Children(x)
  PROVE  S[c] = 0 /\ \A v \in Workers : \A i \in DOMAIN B[v] : B[v][i].node # c
<1>0. \A e \in E : e.multivisit \in Nat /\ e.multivisit # 0 /\ e.kind \in Kinds
  BY DEF AreEntries
<1>1. S[c] = 0 /\ HeldBy(B, c, {"collision"}) = 0
  <2>1. /\ h \in Nodes /\ DOMAIN t = Game /\ IsTree(t, h) /\ x \in Subtree[h] /\ SafeIn(t, x)
        /\ B \in [Workers -> Seq(E)] /\ S \in [Game -> Nat] /\ LedgerIn(t, h, B, S)
        /\ c \in Children(x)
    OBVIOUS
  <2>2. \A e \in E : e.multivisit \in Nat /\ e.kind \in Kinds
    BY <1>0
  <2>. QED BY ONLY <2>1, <2>2, ChildrenHold
<1>2. SUFFICES ASSUME NEW v \in Workers, NEW i \in DOMAIN B[v], B[v][i].node = c PROVE FALSE
  BY <1>1
<1>. DEFINE e == B[v][i]
<1>3. e \in E /\ c = e.node
  BY <1>2
<1>4. CASE IsCollision(e)
  <2>1. e.kind \in {"collision"}
    BY <1>4 DEF IsCollision
  <2>2. e.multivisit <= HeldBy(B, c, {"collision"})
    BY <1>0, <1>3, <2>1, HeldBySome
  <2>3. e.multivisit \in Nat /\ e.multivisit # 0
    BY <1>0, <1>3
  <2>. HIDE DEF e
  <2>. QED BY <1>1, <2>2, <2>3
<1>5. CASE ~IsCollision(e)
  <2>1. e.kind \in Visiting /\ e.multivisit \in Nat /\ e.multivisit # 0
    BY <1>0, <1>3, <1>5 DEF IsCollision, Visiting
  <2>2. e.multivisit <= HeldBy(B, c, Visiting)
    BY <1>0, <1>3, <2>1, HeldBySome
  <2>3. Ends(t, c)
    BY <1>3, <1>5 DEF EntriesHold, EntryHolds
  <2>4. /\ c \in Subtree[h] /\ c \in Nodes /\ Below(c) \subseteq Game /\ IsFiniteSet(Below(c))
    <3>1. c \in Subtree[x] /\ c \in Nodes /\ Subtree[x] \subseteq Subtree[h] /\ x \in Nodes
      BY InSubtree, ChildrenIn, SubtreeTransitive
    <3>2. /\ c \in Subtree[h] /\ Subtree[c] \subseteq Subtree[h] /\ Subtree[h] \subseteq Game
          /\ IsFiniteSet(Subtree[c])
      BY <3>1, InSubtree, SubtreeTransitive DEF IsTree
    <3>. QED BY <3>1, <3>2, FS_Subset DEF Below
  <2>. DEFINE below == SumFunctionOnSet(HeldOf(B, S, Game), Below(c))
  <2>5. below \in Nat
    <3>1. \A z \in Game : HeldOf(B, S, Game)[z] \in Nat
      BY <1>0, HeldOfType
    <3>. QED BY <2>4, <3>1, SumNat
  <2>6. t[c].flight = HeldBy(B, c, Visiting) + below /\ HeldBy(B, c, Visiting) \in Nat
    BY <1>0, <2>4, HeldByIs DEF LedgerIn
  <2>7. t[c].flight > 0
    <3>. HIDE DEF e, below
    <3>. QED BY <2>1, <2>2, <2>5, <2>6
  <2>8. t[c].n > 1 /\ ~IsTerminal(t[c])
    BY <2>7 DEF SafeIn
  <2>. QED BY <2>3, <2>8 DEF Ends
<1>. QED BY <1>4, <1>5

-----------------------------------------------------------------------------
(* The theorems.                                                           *)

\* Every step keeps the invariant, and moves the children of safe nodes only.
LEMMA IInvNext ==
  ASSUME IInv, [Next]_vars
  PROVE  IInv' /\ Settled(tree, tree')
<1>1. ASSUME NEW v \in Workers, Worker(v) PROVE IInv' /\ Settled(tree, tree')
  <2>1. ASSUME NEW x \in Game, NEW k \in 1 .. MaxMultivisit, Pick(v, x, k) PROVE IInv' /\ Settled(tree, tree')
    BY <2>1, PickHolds
  <2>2. CASE PickDone(v)
    BY <2>2, PickDoneHolds
  <2>3. ASSUME NEW i \in DOMAIN batch[v], ExtendNode(v, i) PROVE IInv' /\ Settled(tree, tree')
    BY <2>3, ExtendNodeHolds
  <2>4. CASE OutOfOrder(v)
    BY <2>4, OutOfOrderHolds
  <2>5. CASE Upsize(v)
    BY <2>5, UpsizeHolds
  <2>6. CASE RoundDone(v)
    BY <2>6, RoundDoneHolds
  <2>7. CASE CollectCollisions(v)
    BY <2>7, CollectCollisionsHolds
  <2>8. CASE BackupUpdate(v)
    BY <2>8, BackupUpdateHolds
  <2>9. CASE BackupDone(v)
    BY <2>9, BackupDoneHolds
  <2>. QED BY <1>1, <2>1, <2>2, <2>3, <2>4, <2>5, <2>6, <2>7, <2>8, <2>9 DEF Worker
<1>2. ASSUME NEW x \in Game, NextSearch(x) PROVE IInv' /\ Settled(tree, tree')
  BY <1>2, NextSearchHolds
<1>3. CASE TrimTreeAtHead
  BY <1>3, TrimTreeAtHeadHolds
<1>4. CASE ResetToPosition
  BY <1>4, ResetToPositionHolds
<1>5. CASE UNCHANGED vars
  <2>1. tree' = tree
    BY <1>5 DEF vars
  <2>. QED BY <1>5, <2>1, Stays DEF Settled
<1>. QED BY <1>1, <1>2, <1>3, <1>4, <1>5 DEF Next

\* The inductive invariant holds of every behaviour.
THEOREM Invariance == Spec => []IInv
<1>1. IInv /\ [Next]_vars => IInv'
  BY IInvNext
<1>. QED BY <1>1, IInvInit, PTL DEF Spec

\* Every variable has its type: n_, n_in_flight_, total_playouts_ and
\* initial_visits_, all unsigned, never pass zero.
THEOREM TypeCorrect == Spec => []TypeOK
BY Invariance, IInvTypes, PTL

\* A node's visits and values are its own first ones and its children's
\* (FinalizeScoreUpdate, AdjustForTerminal, MakeNotTerminal, the two-fold
\* correction), and the root's are those found and those made.
THEOREM VisitLedgerHolds == Spec => []VisitLedger
BY Invariance, IInvVisits, PTL

\* The bounds that MaybeSetBounds proves never exclude a result that a full
\* search of the game tree leaves possible.
THEOREM BoundsSoundHolds == Spec => []BoundsSound
BY Invariance, IInvBounds, PTL

\* A node's n_in_flight_ is what minibatches and shared collisions hold of it
\* and of the nodes below it: nothing is cancelled twice or never.
THEOREM InFlightLedgerHolds == Spec => []InFlightLedger
BY Invariance, IInvFlights, PTL

\* A step that moves the children of a node moves none that anyone has.
LEMMA SolidStep ==
  ASSUME IInv, [Next]_vars, NEW x \in Game, ~tree[x].solid, tree'[x].solid
  PROVE  /\ \A v \in Workers : \A i \in DOMAIN batch'[v] : batch'[v][i].node \notin Children(x)
         /\ \A y \in Children(x) : shared_collisions'[y] = 0
<1>1. IInv' /\ Settled(tree, tree')
  BY IInvNext
<1>. DEFINE u == tree'
            h == head'
            B == batch'
            S == shared_collisions'
            E == EntryIn(Game)
<1>2. /\ TypesHold(u, h, B, S) /\ ReleasedIn(u, h) /\ EntriesHold(u, h, B) /\ LedgerIn(u, h, B, S)
      /\ TypesHold(tree, head, batch, shared_collisions)
  BY <1>1 DEF IInv, Typed
<1>3. SafeIn(u, x)
  BY <1>1 DEF Settled, Game
<1>4. DOMAIN u = Game
  BY <1>1 DEF Settled, Game
<1>. HIDE DEF u, h, B, S
<1>5. /\ h \in Nodes /\ IsTree(u, h) /\ B \in [Workers -> Seq(E)] /\ S \in [Game -> Nat]
  BY <1>2, <1>4, TypesGive
<1>6. x \in Subtree[h]
  <2>1. SUFFICES ASSUME x \notin Subtree[h] PROVE FALSE
    OBVIOUS
  <2>2. u[x] = NewNode
    BY <1>2, <1>4, <2>1 DEF ReleasedIn
  <2>. QED BY <2>2 DEF u, NewNode
<1>7. AreEntries(E)
  BY DEF EntryIn, AreEntries
<1>. HIDE DEF E
<1>8. ASSUME NEW c \in Children(x) PROVE S[c] = 0 /\ \A v \in Workers : \A i \in DOMAIN B[v] : B[v][i].node # c
  <2>1. LedgerIn(u, h, B, S) /\ EntriesHold(u, h, B)
    BY <1>2
  <2>2. c \in Children(x) /\ DOMAIN u = Game
    BY <1>4
  <2>3. /\ h \in Nodes /\ DOMAIN u = Game /\ IsTree(u, h) /\ x \in Subtree[h] /\ SafeIn(u, x)
        /\ AreEntries(E) /\ B \in [Workers -> Seq(E)]
        /\ S \in [Game -> Nat] /\ LedgerIn(u, h, B, S) /\ EntriesHold(u, h, B) /\ c \in Children(x)
    BY <1>3, <1>4, <1>5, <1>6, <1>7, <2>1, <2>2
  <2>. QED BY ONLY <2>3, Unheld
<1>. QED BY <1>8 DEF B, S

\* MakeSolid never moves a node that a minibatch or a shared collision refers to.
THEOREM SafeSolidHolds == Spec => SafeSolid
<1>1. IInv /\ [Next]_vars =>
        [\A x \in Game : ~tree[x].solid /\ tree'[x].solid =>
           /\ \A v \in Workers : \A i \in DOMAIN batch'[v] : batch'[v][i].node \notin Children(x)
           /\ \A y \in Children(x) : shared_collisions'[y] = 0]_vars
  BY SolidStep
<1>. QED BY <1>1, Invariance, PTL DEF Spec, SafeSolid
=============================================================================
