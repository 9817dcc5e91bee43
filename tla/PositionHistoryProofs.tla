------------------------ MODULE PositionHistoryProofs ------------------------
(***************************************************************************)
(* Proofs about PositionHistory for any rules that RulesAssumption allows  *)
(* and any lengths of games and lines.                                     *)
(*                                                                         *)
(* A history knows a game (Holds) if it is the end of it, with the clock   *)
(* of rule 50 that the whole game has at each of its positions.  Append,   *)
(* Pop, Trim and TrimHistory keep that; the two that loop, Trim and        *)
(* TrimHistory, are first shown equal to what they come to (PopTo,         *)
(* TrimmedBy).  That is HInv and gives HistoryIsSuffix.                    *)
(*                                                                         *)
(* Repetitions rest on the rules: between two occurrences of a position    *)
(* nothing zeroes the clock (Stage), the turn has come back and four moves *)
(* at least are made (ComesBack).  So all of them lie within the clock,    *)
(* that is within what is kept, and the walk back does not stop before the *)
(* latest (WalkBack).  That each kept position has the count of the whole  *)
(* game, while rule 50 has not ended it, is CInv, and gives                *)
(* RepetitionsCounted and, case by case, VerdictsAgree.                    *)
(***************************************************************************)
EXTENDS PositionHistory, FiniteSetTheorems, SequenceTheorems,
        WellFoundedInduction, TLAPS

Line == Seq(Positions)
AnAt == [pos : Positions, rule50 : Nat]
AnEntry == [pos : Positions, rule50 : Nat, repetitions : Nat, move : Positions]
ALast == [pos : Positions, rule50 : Nat, repetitions : Nat, since : Nat]
AHistory == [starting : AnAt, entries : Seq(AnEntry), last : ALast]

-----------------------------------------------------------------------------
(* Least and greatest numbers.                                             *)

LEMMA Least ==
  ASSUME NEW S \in SUBSET Nat, S # {}
  PROVE  \E n \in S : \A m \in S : n <= m
<1>. DEFINE R == {ss \in Nat \X Nat : ss[1] < ss[2]}
<1>1. IsWellFoundedOn(R, Nat)
  BY NatLessThanWellFounded DEF OpToRel
<1>2. \A m \in Nat, k \in Nat : m < k => <<m, k>> \in R
  OBVIOUS
<1>. HIDE DEF R
<1>3. PICK n \in S : \A m \in S : ~ (<<m, n>> \in R)
  BY <1>1, WFMin
<1>4. ASSUME NEW m \in S PROVE n <= m
  <2>1. m \in Nat /\ n \in Nat
    OBVIOUS
  <2>2. <<m, n>> \notin R
    BY <1>3
  <2>3. ~ (m < n)
    BY <1>2, <2>1, <2>2
  <2>. QED BY <2>1, <2>3
<1>. QED BY <1>4

LEMMA MaxIs ==
  ASSUME NEW n \in Nat, NEW S \in SUBSET (1 .. n), S # {}
  PROVE  Max(S) \in S /\ \A y \in S : Max(S) >= y
<1>. DEFINE T == {n - x : x \in S}
<1>1. T \in SUBSET Nat /\ T # {}
  <2>1. \A x \in S : n - x \in Nat
    OBVIOUS
  <2>. QED BY <2>1
<1>2. PICK t \in T : \A u \in T : t <= u
  <2>. HIDE DEF T
  <2>. QED BY <1>1, Least
<1>3. PICK x \in S : t = n - x
  OBVIOUS
<1>4. \A y \in S : x >= y
  <2>. SUFFICES ASSUME NEW y \in S PROVE x >= y
    OBVIOUS
  <2>1. n - y \in T
    OBVIOUS
  <2>2. n - x <= n - y
    BY <1>2, <1>3, <2>1
  <2>3. x \in 1 .. n /\ y \in 1 .. n
    OBVIOUS
  <2>. QED BY <2>2, <2>3
<1>. QED BY <1>4 DEF Max

\* The greatest of a set is the one that it holds and none of it exceeds.
LEMMA MaxIsThe ==
  ASSUME NEW n \in Nat, NEW S \in SUBSET (1 .. n), NEW x \in S, \A y \in S : x >= y
  PROVE  Max(S) = x
<1>1. Max(S) \in S /\ \A y \in S : Max(S) >= y
  BY MaxIs
<1>2. Max(S) \in 1 .. n /\ x \in 1 .. n
  BY <1>1
<1>3. Max(S) >= x /\ x >= Max(S)
  BY <1>1
<1>. QED BY <1>2, <1>3

-----------------------------------------------------------------------------
(* The clock of rule 50 along a game.                                      *)

ZeroedBy(g, i) == {j \in 2 .. i : <<g[j - 1], g[j]>> \in Zeroing}
Clock(r, g, i) ==
  IF ZeroedBy(g, i) = {} THEN r + i - 1 ELSE i - Max(ZeroedBy(g, i))

LEMMA UpTo ==
  ASSUME NEW g \in Line, NEW i \in 0 .. Len(g)
  PROVE  /\ SubSeq(g, 1, i) \in Line
         /\ Len(SubSeq(g, 1, i)) = i
         /\ \A j \in 1 .. i : SubSeq(g, 1, i)[j] = g[j]
<1>1. \A j \in 1 .. i : g[j] \in Positions
  BY DEF Line
<1>2. i \in Int /\ i - 1 + 1 = i
  OBVIOUS
<1>. QED BY <1>1, <1>2, SubSeqProperties DEF Line

\* Two games with the same beginning have the same clock there.
LEMMA SameClock ==
  ASSUME NEW r, NEW g, NEW f, NEW i \in Nat, \A j \in 1 .. i : g[j] = f[j]
  PROVE  Clock(r, g, i) = Clock(r, f, i) /\ ZeroedBy(g, i) = ZeroedBy(f, i)
<1>1. \A j \in 2 .. i : j \in 1 .. i /\ j - 1 \in 1 .. i
  OBVIOUS
<1>2. ZeroedBy(g, i) = ZeroedBy(f, i)
  BY <1>1 DEF ZeroedBy
<1>. QED BY <1>2 DEF Clock

LEMMA TrueIsClock ==
  ASSUME NEW g \in Line, NEW i \in 1 .. Len(g)
  PROVE  TrueRule50(SubSeq(g, 1, i)) = Clock(start.rule50, g, i)
<1>. DEFINE f == SubSeq(g, 1, i)
<1>1. Len(f) = i /\ \A j \in 1 .. i : f[j] = g[j]
  BY UpTo
<1>. HIDE DEF f
<1>2. TrueRule50(f) = Clock(start.rule50, f, i)
  BY <1>1 DEF TrueRule50, Clock, ZeroedBy
<1>3. Clock(start.rule50, f, i) = Clock(start.rule50, g, i)
  <2>1. i \in Nat
    OBVIOUS
  <2>. QED BY <1>1, <2>1, SameClock
<1>. QED BY <1>2, <1>3 DEF f

LEMMA ClockStep ==
  ASSUME NEW g \in Line, NEW i \in 1 .. Len(g), NEW r \in Nat
  PROVE  /\ Clock(r, g, i) \in Nat
         /\ i = 1 => Clock(r, g, i) = r
         /\ i > 1 => Clock(r, g, i) = IF <<g[i - 1], g[i]>> \in Zeroing THEN 0
                                   ELSE Clock(r, g, i - 1) + 1
<1>0. \A k \in 1 .. Len(g) : k \in Nat /\ ZeroedBy(g, k) \in SUBSET (1 .. k)
  BY DEF ZeroedBy
<1>1. \A k \in 1 .. Len(g) : ZeroedBy(g, k) # {} =>
        Max(ZeroedBy(g, k)) \in 1 .. k
  BY <1>0, MaxIs
<1>2. Clock(r, g, i) \in Nat
  BY <1>1 DEF Clock
<1>3. i = 1 => Clock(r, g, i) = r
  BY DEF Clock, ZeroedBy
<1>4. ASSUME i > 1
      PROVE  Clock(r, g, i) = IF <<g[i - 1], g[i]>> \in Zeroing THEN 0 ELSE Clock(r, g, i - 1) + 1
  <2>0. i - 1 \in 1 .. Len(g) /\ i \in 2 .. i /\ i \in Nat
    BY <1>4
  <2>1. CASE <<g[i - 1], g[i]>> \in Zeroing
    <3>1. i \in ZeroedBy(g, i)
      BY <2>0, <2>1 DEF ZeroedBy
    <3>2. \A y \in ZeroedBy(g, i) : i >= y
      BY DEF ZeroedBy
    <3>3. Max(ZeroedBy(g, i)) = i
      BY <1>0, <2>0, <3>1, <3>2, MaxIsThe
    <3>. QED BY <2>0, <2>1, <3>1, <3>3 DEF Clock
  <2>2. CASE <<g[i - 1], g[i]>> \notin Zeroing
    <3>1. ZeroedBy(g, i) = ZeroedBy(g, i - 1)
      BY <2>0, <2>2 DEF ZeroedBy
    <3>2. CASE ZeroedBy(g, i) = {}
      <4>1. Clock(r, g, i) = r + i - 1 /\ Clock(r, g, i - 1) = r + (i - 1) - 1
        BY <3>1, <3>2 DEF Clock
      <4>. QED BY <2>0, <2>2, <4>1
    <3>3. CASE ZeroedBy(g, i) # {}
      <4>. DEFINE k == Max(ZeroedBy(g, i))
      <4>1. k \in 1 .. i
        BY <1>1, <3>3
      <4>2. Clock(r, g, i) = i - k /\ Clock(r, g, i - 1) = (i - 1) - k
        BY <3>1, <3>3 DEF Clock
      <4>. HIDE DEF k
      <4>. QED BY <2>0, <2>2, <4>1, <4>2
    <3>. QED BY <3>2, <3>3
  <2>. QED BY <2>1, <2>2
<1>. QED BY <1>2, <1>3, <1>4
-----------------------------------------------------------------------------
(* A history that is the end of a game, and the operations on it.          *)

KnownAt(at, g, i, r) == at.pos = g[i] /\ at.rule50 = Clock(r, g, i)
Gone(h, g) == Len(g) - GetLength(h)
Entered(h, g, r) ==
  \A i \in 1 .. Len(h.entries) :
    KnownAt(h.entries[i], g, Gone(h, g) + i, r) /\ h.entries[i].move = g[Gone(h, g) + i + 1]

Holds(h, g, r) ==
  /\ h \in AHistory /\ g \in Line /\ Gone(h, g) \in Nat
  /\ KnownAt(h.last, g, Len(g), r) /\ KnownAt(h.starting, g, Gone(h, g) + 1, r)
  /\ Entered(h, g, r)
  /\ Gone(h, g) > 0 => GetLength(h) > KeepCount

LEMMA StopsAre ==
  ASSUME NEW entries, Len(entries) \in Nat, NEW pos
  PROVE  /\ Stops(entries, pos) \in SUBSET (1 .. Len(entries))
         /\ Stops(entries, pos) # {} => Max(Stops(entries, pos)) \in Stops(entries, pos)
<1>1. Stops(entries, pos) \in SUBSET (1 .. Len(entries))
  BY DEF Stops
<1>. QED BY <1>1, MaxIs

LEMMA RepetitionsAre ==
  ASSUME NEW entries \in Seq(AnEntry), NEW pos, NEW rule50 \in Nat
  PROVE  /\ Repetitions(entries, pos, rule50).count \in Nat
         /\ Repetitions(entries, pos, rule50).plies \in Nat
<1>. DEFINE stops == Stops(entries, pos)
            i == Max(stops)
<1>1. stops # {} => i \in 1 .. Len(entries)
  BY StopsAre
<1>2. Never \in Nat
  BY DEF Never
<1>3. Repetitions(entries, pos, rule50) =
        IF rule50 < 4 \/ stops = {} \/ entries[i].pos # pos
        THEN [count |-> 0, plies |-> Never]
        ELSE [count |-> 1 + entries[i].repetitions, plies |-> Len(entries) + 1 - i]
  BY DEF Repetitions
<1>. HIDE DEF stops, i
<1>4. stops # {} => entries[i].repetitions \in Nat
  <2>1. stops # {} => entries[i] \in AnEntry
    BY <1>1
  <2>. QED BY <2>1 DEF AnEntry
<1>. QED BY <1>1, <1>2, <1>3, <1>4

LEMMA ResetHolds ==
  ASSUME NEW at \in AnAt
  PROVE  Holds(Reset(at), <<at.pos>>, at.rule50)
<1>. DEFINE g == <<at.pos>>
            h == Reset(at)
<1>1. h \in AHistory /\ h.entries = <<>> /\ h.starting = at
      /\ h.last.pos = at.pos /\ h.last.rule50 = at.rule50
  <2>1. Never \in Nat
    BY DEF Never
  <2>. QED BY <2>1 DEF Reset, AHistory, AnAt, ALast
<1>2. g \in Line /\ Len(g) = 1 /\ g[1] = at.pos
  BY DEF Line, AnAt
<1>3. Clock(at.rule50, g, 1) = at.rule50
  <2>1. at.rule50 \in Nat /\ 1 \in 1 .. Len(g)
    BY <1>2 DEF AnAt
  <2>. HIDE DEF g
  <2>. QED BY <1>2, <2>1, ClockStep
<1>4. Gone(h, g) = 0
  BY <1>1, <1>2 DEF Gone, GetLength
<1>. HIDE DEF g, h
<1>. QED BY <1>1, <1>2, <1>3, <1>4 DEF Holds, KnownAt, Entered, g, h

LEMMA Longer ==
  ASSUME NEW g \in Line, NEW m \in Positions
  PROVE  /\ Append(g, m) \in Line /\ Len(Append(g, m)) = Len(g) + 1
         /\ Append(g, m)[Len(g) + 1] = m
         /\ \A i \in 1 .. Len(g) : Append(g, m)[i] = g[i]
  BY AppendProperties DEF Line

LEMMA AppendHolds ==
  ASSUME NEW h, NEW g, NEW r \in Nat, NEW m \in Positions, Holds(h, g, r),
         Len(h.entries) < Capacity
  PROVE  /\ Holds(AppendMove(h, m), Append(g, m), r)
         /\ Len(AppendMove(h, m).entries) = Len(h.entries) + 1
         /\ Gone(AppendMove(h, m), Append(g, m)) = Gone(h, g)
<1>. DEFINE a == AppendMove(h, m)
            f == Append(g, m)
            gone == Gone(h, g)
            rule50 == Rule50After(h.last, m)
            entry == [pos |-> h.last.pos, rule50 |-> h.last.rule50,
                      repetitions |-> h.last.repetitions, move |-> m]
            entries == Append(h.entries, entry)
            found == Repetitions(entries, m, rule50)
<1>1. h \in AHistory /\ g \in Line /\ gone \in Nat /\ Len(g) = gone + Len(h.entries) + 1
  BY DEF Holds, Gone, GetLength, AHistory, Line
<1>2. h.last \in ALast /\ h.entries \in Seq(AnEntry) /\ h.starting \in AnAt
  BY <1>1 DEF AHistory
<1>3. entry \in AnEntry /\ rule50 \in Nat
  BY <1>2 DEF ALast, AnEntry, Rule50After
<1>4. entries \in Seq(AnEntry) /\ Len(entries) = Len(h.entries) + 1
      /\ \A i \in 1 .. Len(entries) :
           entries[i] = IF i = Len(entries) THEN entry ELSE h.entries[i]
  <2>. HIDE DEF entry
  <2>. QED BY <1>2, <1>3
<1>5. found.count \in Nat /\ found.plies \in Nat
  <2>. HIDE DEF entries, rule50
  <2>. QED BY <1>3, <1>4, RepetitionsAre
<1>6. a = [h EXCEPT !.entries = entries,
                    !.last = [pos |-> m, rule50 |-> rule50,
                              repetitions |-> found.count, since |-> found.plies]]
  BY DEF AppendMove
<1>7. a \in AHistory /\ a.entries = entries /\ a.starting = h.starting
      /\ a.last.pos = m /\ a.last.rule50 = rule50
  <2>. DEFINE last == [pos |-> m, rule50 |-> rule50,
                       repetitions |-> found.count, since |-> found.plies]
  <2>. HIDE DEF a, entries, rule50, found
  <2>1. last \in ALast /\ last.pos = m /\ last.rule50 = rule50
    BY <1>3, <1>5 DEF ALast
  <2>2. a = [h EXCEPT !.entries = entries, !.last = last]
    BY <1>6
  <2>. HIDE DEF last
  <2>. QED BY <1>1, <1>4, <2>1, <2>2 DEF AHistory
<1>8. f \in Line /\ Len(f) = Len(g) + 1 /\ f[Len(g) + 1] = m
      /\ \A i \in 1 .. Len(g) : f[i] = g[i]
  BY <1>1, Longer
<1>. HIDE DEF a, f
<1>9. Len(g) \in 1 .. Len(g) /\ Len(g) + 1 \in 1 .. Len(f)
  BY <1>1, <1>2, <1>8, SMTT(30)
<1>10. \A i \in 1 .. Len(g) : Clock(r, f, i) = Clock(r, g, i)
  <2>. SUFFICES ASSUME NEW i \in 1 .. Len(g) PROVE Clock(r, f, i) = Clock(r, g, i)
    OBVIOUS
  <2>1. i \in Nat /\ \A j \in 1 .. i : f[j] = g[j]
    BY <1>8, <1>9
  <2>. QED BY <2>1, SameClock
<1>11. Clock(r, f, Len(f)) = rule50
  <2>1. h.last.pos = g[Len(g)] /\ h.last.rule50 = Clock(r, g, Len(g))
    BY DEF Holds, KnownAt
  <2>2. Clock(r, f, Len(g) + 1) = IF <<f[Len(g)], f[Len(g) + 1]>> \in Zeroing THEN 0
                                  ELSE Clock(r, f, Len(g)) + 1
    <3>. DEFINE k == Len(g) + 1
    <3>1. k > 1 /\ k - 1 = Len(g) /\ k \in 1 .. Len(f)
      BY <1>9
    <3>. HIDE DEF k
    <3>2. Clock(r, f, k) = IF <<f[k - 1], f[k]>> \in Zeroing THEN 0 ELSE Clock(r, f, k - 1) + 1
      BY <1>8, <3>1, ClockStep
    <3>. QED BY <3>1, <3>2 DEF k
  <2>. QED BY <1>8, <1>9, <1>10, <2>1, <2>2 DEF Rule50After
<1>12. Gone(a, f) = gone
  <2>1. Len(f) = Len(g) + 1 /\ Len(a.entries) = Len(h.entries) + 1
    BY <1>4, <1>7, <1>8
  <2>2. Len(h.entries) \in Nat /\ Len(g) \in Nat
    BY <1>1, <1>2
  <2>. QED BY <2>1, <2>2 DEF Gone, GetLength
<1>13. KnownAt(a.last, f, Len(f), r)
  BY <1>7, <1>8, <1>11 DEF KnownAt
<1>. HIDE DEF rule50, found, entries, gone
<1>14. KnownAt(a.starting, f, gone + 1, r)
  <2>1. KnownAt(h.starting, g, gone + 1, r)
    BY DEF Holds, gone
  <2>2. gone + 1 \in 1 .. Len(g)
    BY <1>1, <1>2
  <2>. QED BY <1>7, <1>8, <1>10, <2>1, <2>2 DEF KnownAt
<1>15. \A i \in 1 .. Len(entries) :
         KnownAt(entries[i], f, gone + i, r) /\ entries[i].move = f[gone + i + 1]
  <2>. SUFFICES ASSUME NEW i \in 1 .. Len(entries)
                PROVE  KnownAt(entries[i], f, gone + i, r) /\ entries[i].move = f[gone + i + 1]
    OBVIOUS
  <2>1. gone + i \in 1 .. Len(g)
    BY <1>1, <1>2, <1>4
  <2>2. CASE i = Len(entries)
    <3>1. gone + i = Len(g) /\ entries[i] = entry
      BY <1>1, <1>2, <1>4, <2>2
    <3>2. KnownAt(h.last, g, Len(g), r)
      BY DEF Holds
    <3>. QED BY <1>8, <1>10, <2>1, <3>1, <3>2 DEF KnownAt
  <2>3. CASE i # Len(entries)
    <3>1. i \in 1 .. Len(h.entries) /\ entries[i] = h.entries[i] /\ gone + i + 1 \in 1 .. Len(g)
      BY <1>1, <1>2, <1>4, <2>3
    <3>2. KnownAt(h.entries[i], g, gone + i, r) /\ h.entries[i].move = g[gone + i + 1]
      BY <3>1 DEF Holds, Entered, gone
    <3>. QED BY <1>8, <1>10, <2>1, <3>1, <3>2 DEF KnownAt
  <2>. QED BY <2>2, <2>3
<1>16. Gone(a, f) > 0 => GetLength(a) > KeepCount
  <2>1. Gone(h, g) > 0 => GetLength(h) > KeepCount
    BY DEF Holds
  <2>2. GetLength(a) = GetLength(h) + 1 /\ GetLength(h) \in Nat /\ KeepCount \in Nat
    BY <1>2, <1>4, <1>7, HistoryAssumption DEF GetLength
  <2>. QED BY <1>12, <2>1, <2>2 DEF gone
<1>17. Entered(a, f, r)
  BY <1>7, <1>12, <1>15 DEF Entered
<1>18. Holds(a, f, r)
  BY <1>1, <1>7, <1>8, <1>12, <1>13, <1>14, <1>16, <1>17 DEF Holds
<1>. QED BY <1>4, <1>7, <1>12, <1>18 DEF a, f, gone

\* Two functions that start alike and go on alike are the same.
LEMMA Alike ==
  ASSUME NEW n \in Nat, NEW F, NEW G, F[0] = G[0],
         \A k \in 1 .. n : F[k - 1] = G[k - 1] => F[k] = G[k]
  PROVE  \A k \in 0 .. n : F[k] = G[k]
<1>. DEFINE bad == {k \in 0 .. n : F[k] # G[k]}
<1>. SUFFICES ASSUME bad # {} PROVE FALSE
  OBVIOUS
<1>1. bad \in SUBSET Nat
  OBVIOUS
<1>2. PICK k \in bad : \A m \in bad : k <= m
  <2>. HIDE DEF bad
  <2>. QED BY <1>1, Least
<1>3. k \in 1 .. n /\ k - 1 \in 0 .. n
  OBVIOUS
<1>4. k - 1 \notin bad
  BY <1>2, <1>3
<1>. QED BY <1>3, <1>4

\* h with only the first n of its entries.
PopTo(h, n) ==
  IF n = Len(h.entries) THEN h
  ELSE [h EXCEPT !.entries = SubSeq(h.entries, 1, n),
                 !.last = [@ EXCEPT !.pos = h.entries[n + 1].pos,
                                    !.rule50 = h.entries[n + 1].rule50,
                                    !.repetitions = h.entries[n + 1].repetitions]]

LEMMA PopToIs ==
  ASSUME NEW h \in AHistory, NEW n \in 0 .. Len(h.entries)
  PROVE  /\ PopTo(h, n) \in AHistory
         /\ PopTo(h, n).starting = h.starting
         /\ PopTo(h, n).entries \in Seq(AnEntry) /\ Len(PopTo(h, n).entries) = n
         /\ \A i \in 1 .. n : PopTo(h, n).entries[i] = h.entries[i]
         /\ PopTo(h, n).last.since = h.last.since
         /\ n < Len(h.entries) =>
              /\ PopTo(h, n).last.pos = h.entries[n + 1].pos
              /\ PopTo(h, n).last.rule50 = h.entries[n + 1].rule50
              /\ PopTo(h, n).last.repetitions = h.entries[n + 1].repetitions
<1>1. h.entries \in Seq(AnEntry) /\ h.last \in ALast /\ h.starting \in AnAt /\ Len(h.entries) \in Nat
  BY DEF AHistory
<1>2. CASE n = Len(h.entries)
  BY <1>1, <1>2 DEF PopTo
<1>3. CASE n < Len(h.entries)
  <2>. DEFINE e == SubSeq(h.entries, 1, n)
              last == [h.last EXCEPT !.pos = h.entries[n + 1].pos,
                                     !.rule50 = h.entries[n + 1].rule50,
                                     !.repetitions = h.entries[n + 1].repetitions]
  <2>1. n + 1 \in 1 .. Len(h.entries) /\ n # Len(h.entries) /\ n \in Nat
    BY <1>1, <1>3
  <2>2. e \in Seq(AnEntry) /\ Len(e) = n /\ \A i \in 1 .. n : e[i] = h.entries[i]
    <3>1. \A i \in 1 .. n : h.entries[i] \in AnEntry
      BY <1>1
    <3>2. n \in Int /\ n - 1 + 1 = n
      OBVIOUS
    <3>. QED BY <1>1, <3>1, <3>2, SubSeqProperties
  <2>3. h.entries[n + 1] \in AnEntry
    BY <1>1, <2>1
  <2>4. /\ last \in ALast /\ last.since = h.last.since /\ last.pos = h.entries[n + 1].pos
        /\ last.rule50 = h.entries[n + 1].rule50
        /\ last.repetitions = h.entries[n + 1].repetitions
    BY <1>1, <2>3 DEF ALast, AnEntry
  <2>5. PopTo(h, n) = [h EXCEPT !.entries = e, !.last = last]
    BY <2>1 DEF PopTo
  <2>. HIDE DEF e, last
  <2>6. /\ PopTo(h, n) \in AHistory /\ PopTo(h, n).starting = h.starting
        /\ PopTo(h, n).entries = e /\ PopTo(h, n).last = last
    BY <2>2, <2>4, <2>5 DEF AHistory
  <2>. QED BY <2>2, <2>4, <2>6
<1>. QED BY <1>1, <1>2, <1>3

\* Pop takes the last entry.
LEMMA PopIs ==
  ASSUME NEW h \in AHistory, NEW n \in 1 .. Len(h.entries)
  PROVE  Pop(PopTo(h, n)) = PopTo(h, n - 1)
<1>. DEFINE p == PopTo(h, n)
            q == PopTo(h, n - 1)
            last(b) == [h.last EXCEPT !.pos = b.pos, !.rule50 = b.rule50,
                                      !.repetitions = b.repetitions]
<1>1. h.entries \in Seq(AnEntry) /\ h.last \in ALast /\ Len(h.entries) \in Nat
  BY DEF AHistory
<1>2. n \in 0 .. Len(h.entries) /\ n - 1 \in 0 .. Len(h.entries) /\ n - 1 + 1 = n
      /\ n - 1 # Len(h.entries) /\ n \in Nat /\ n - 1 < Len(h.entries)
  BY <1>1
<1>3. p.entries \in Seq(AnEntry) /\ Len(p.entries) = n /\ p.entries # <<>>
      /\ p.entries[n] = h.entries[n]
  BY <1>1, <1>2, PopToIs
<1>4. Last(p.entries) = h.entries[n]
  BY <1>3 DEF Last
<1>5. Front(p.entries) = SubSeq(h.entries, 1, n - 1)
  <2>1. Front(p.entries) = SubSeq(p.entries, 1, n - 1)
    BY <1>3 DEF Front
  <2>2. \A i \in 1 .. n - 1 : p.entries[i] = h.entries[i]
    BY <1>1, <1>2, PopToIs
  <2>3. SubSeq(p.entries, 1, n - 1) = SubSeq(h.entries, 1, n - 1)
    <3>. HIDE DEF p
    <3>. QED BY <1>1, <1>2, <1>3, <2>2
  <2>. QED BY <2>1, <2>3
<1>6. Pop(p) = [p EXCEPT !.entries = SubSeq(h.entries, 1, n - 1),
                         !.last = [p.last EXCEPT !.pos = h.entries[n].pos,
                                            !.rule50 = h.entries[n].rule50,
                                            !.repetitions = h.entries[n].repetitions]]
  <2>. HIDE DEF p
  <2>. QED BY <1>3, <1>4, <1>5 DEF Pop
<1>7. q = [h EXCEPT !.entries = SubSeq(h.entries, 1, n - 1), !.last = last(h.entries[n])]
  BY <1>2 DEF PopTo
<1>8. [p.last EXCEPT !.pos = h.entries[n].pos, !.rule50 = h.entries[n].rule50,
                     !.repetitions = h.entries[n].repetitions] = last(h.entries[n])
  <2>1. p.last \in ALast /\ p.last.since = h.last.since
    BY <1>2, PopToIs DEF AHistory
  <2>. HIDE DEF p
  <2>. QED BY <1>1, <2>1 DEF ALast
<1>9. p \in AHistory /\ p.starting = h.starting
  BY <1>2, PopToIs
<1>. HIDE DEF p, q, last
<1>10. Pop(p) = [p EXCEPT !.entries = SubSeq(h.entries, 1, n - 1), !.last = last(h.entries[n])]
  BY <1>6, <1>8
<1>11. Pop(p) = q
  BY <1>7, <1>9, <1>10 DEF AHistory
<1>. QED BY <1>11 DEF p, q

LEMMA TrimIs ==
  ASSUME NEW h \in AHistory, NEW length \in 1 .. GetLength(h)
  PROVE  Trim(h, length) = PopTo(h, length - 1)
<1>1. Len(h.entries) \in Nat
  BY DEF AHistory
<1>2. CASE length = GetLength(h)
  BY <1>1, <1>2 DEF GetLength, Trim, PopTo
<1>3. CASE length < GetLength(h)
  <2>. DEFINE len == Len(h.entries)
              pops == GetLength(h) - length
              F == [k \in 0 .. pops |-> PopTo(h, len - k)]
              P == CHOOSE G : G = [k \in 0 .. pops |-> IF k = 0 THEN h ELSE Pop(G[k - 1])]
  <2>1. pops \in Nat /\ pops <= len /\ len - pops = length - 1 /\ len \in Nat
    BY <1>1, <1>3 DEF GetLength
  <2>2. Trim(h, length) = P[pops]
    <3>1. ~ (GetLength(h) <= length)
      BY <1>1, <1>3 DEF GetLength
    <3>. QED BY <3>1 DEF Trim
  <2>3. F[0] = h
    BY <2>1 DEF PopTo
  <2>4. ASSUME NEW k \in 1 .. pops
        PROVE  F[k] = Pop(F[k - 1])
    <3>1. len - k + 1 \in 1 .. Len(h.entries) /\ k - 1 \in 0 .. pops /\ k \in 0 .. pops
          /\ len - (k - 1) = len - k + 1 /\ len - k + 1 - 1 = len - k
      BY <2>1
    <3>2. F[k - 1] = PopTo(h, len - k + 1) /\ F[k] = PopTo(h, len - k)
      BY <3>1
    <3>3. Pop(PopTo(h, len - k + 1)) = PopTo(h, len - k + 1 - 1)
      <4>. DEFINE j == len - k + 1
      <4>1. j \in 1 .. Len(h.entries)
        BY <3>1
      <4>. HIDE DEF j
      <4>2. Pop(PopTo(h, j)) = PopTo(h, j - 1)
        BY <4>1, PopIs
      <4>. QED BY <4>2 DEF j
    <3>. QED BY <3>1, <3>2, <3>3
  <2>5. F = [k \in 0 .. pops |-> IF k = 0 THEN h ELSE Pop(F[k - 1])]
    <3>1. \A k \in 0 .. pops : k = 0 \/ k \in 1 .. pops
      BY <2>1
    <3>2. \A k \in 0 .. pops : F[k] = IF k = 0 THEN h ELSE Pop(F[k - 1])
      <4>. HIDE DEF F, pops
      <4>. QED BY <2>3, <2>4, <3>1
    <3>. QED BY <3>2
  <2>6. P = [k \in 0 .. pops |-> IF k = 0 THEN h ELSE Pop(P[k - 1])]
    <3>. HIDE DEF F, pops
    <3>. QED BY <2>5
  <2>. HIDE DEF F, P, pops
  <2>7. \A k \in 0 .. pops : P[k] = F[k]
    <3>1. P[0] = F[0]
      BY <2>1, <2>3, <2>6
    <3>2. \A k \in 1 .. pops : P[k] = Pop(P[k - 1])
      <4>1. \A k \in 1 .. pops : k \in 0 .. pops /\ k # 0
        BY <2>1
      <4>. QED BY <2>6, <4>1
    <3>3. \A k \in 1 .. pops : P[k - 1] = F[k - 1] => P[k] = F[k]
      BY <2>4, <3>2
    <3>4. pops \in Nat
      BY <2>1
    <3>. QED BY ONLY <3>1, <3>3, <3>4, Alike
  <2>8. pops \in 0 .. pops
    BY <2>1
  <2>9. F[pops] = PopTo(h, length - 1)
    BY <2>1, <2>8 DEF F
  <2>. QED BY <2>2, <2>7, <2>8, <2>9
<1>. QED BY <1>1, <1>2, <1>3 DEF GetLength

\* A history of g cut to what it knows of a beginning f of g.
LEMMA PopToHolds ==
  ASSUME NEW h, NEW g, NEW r \in Nat, NEW n \in 0 .. Len(h.entries), NEW f \in Line,
         Holds(h, g, r), Len(f) = Gone(h, g) + n + 1,
         \A i \in 1 .. Len(f) : f[i] = g[i],
         Gone(h, g) > 0 => n + 1 > KeepCount
  PROVE  Holds(PopTo(h, n), f, r) /\ Gone(PopTo(h, n), f) = Gone(h, g)
<1>. DEFINE p == PopTo(h, n)
            gone == Gone(h, g)
<1>1. h \in AHistory /\ g \in Line /\ gone \in Nat /\ Len(g) = gone + Len(h.entries) + 1
  BY DEF Holds, Gone, GetLength, AHistory, Line
<1>2. h.entries \in Seq(AnEntry) /\ Len(h.entries) \in Nat
  BY <1>1 DEF AHistory
<1>3. n \in Nat /\ n <= Len(h.entries) /\ Len(f) \in Nat /\ Len(f) <= Len(g)
  BY <1>1, <1>2
<1>4. /\ p \in AHistory /\ p.starting = h.starting /\ Len(p.entries) = n
      /\ \A i \in 1 .. n : p.entries[i] = h.entries[i]
  BY <1>1, PopToIs
<1>5. Gone(p, f) = gone
  BY <1>1, <1>3, <1>4 DEF Gone, GetLength
<1>6. \A i \in 1 .. Len(f) : Clock(r, f, i) = Clock(r, g, i)
  <2>. SUFFICES ASSUME NEW i \in 1 .. Len(f) PROVE Clock(r, f, i) = Clock(r, g, i)
    OBVIOUS
  <2>1. i \in Nat /\ \A j \in 1 .. i : f[j] = g[j]
    BY <1>3
  <2>. QED BY <2>1, SameClock
<1>7. \A i \in 1 .. Len(h.entries) :
        KnownAt(h.entries[i], g, gone + i, r) /\ h.entries[i].move = g[gone + i + 1]
  BY DEF Holds, Entered
<1>8. \A i \in 1 .. n : gone + i \in 1 .. Len(f) /\ gone + i + 1 \in 1 .. Len(f)
                        /\ i \in 1 .. Len(h.entries)
  BY <1>1, <1>3, SMTT(30)
<1>9. KnownAt(p.last, f, Len(f), r)
  <2>0. Len(f) \in 1 .. Len(f)
    BY <1>1, <1>3
  <2>1. CASE n = Len(h.entries)
    <3>1. p = h /\ Len(f) = Len(g)
      BY <1>1, <2>1 DEF PopTo
    <3>2. KnownAt(h.last, g, Len(g), r)
      BY DEF Holds
    <3>. HIDE DEF p
    <3>. QED BY <1>6, <2>0, <3>1, <3>2 DEF KnownAt
  <2>2. CASE n # Len(h.entries)
    <3>1. n + 1 \in 1 .. Len(h.entries) /\ gone + (n + 1) = Len(f) /\ n < Len(h.entries)
      BY <1>1, <1>3, <2>2
    <3>2. p.last.pos = h.entries[n + 1].pos /\ p.last.rule50 = h.entries[n + 1].rule50
      BY <1>1, <3>1, PopToIs
    <3>3. KnownAt(h.entries[n + 1], g, Len(f), r)
      BY <1>7, <3>1
    <3>. HIDE DEF p
    <3>. QED BY <1>6, <2>0, <3>2, <3>3 DEF KnownAt
  <2>. QED BY <2>1, <2>2
<1>. HIDE DEF p, gone
<1>10. KnownAt(p.starting, f, gone + 1, r)
  <2>1. KnownAt(h.starting, g, gone + 1, r)
    BY DEF Holds, gone
  <2>2. gone + 1 \in 1 .. Len(f)
    BY <1>1, <1>3 DEF gone
  <2>. QED BY <1>4, <1>6, <2>1, <2>2 DEF KnownAt
<1>11. Entered(p, f, r)
  BY <1>4, <1>5, <1>6, <1>7, <1>8 DEF Entered, KnownAt
<1>12. Gone(p, f) > 0 => GetLength(p) > KeepCount
  BY <1>4, <1>5 DEF GetLength, gone
<1>13. Holds(p, f, r)
  BY <1>1, <1>4, <1>5, <1>9, <1>10, <1>11, <1>12 DEF Holds
<1>. QED BY <1>5, <1>13 DEF p, gone

LEMMA Sizes == /\ KeepCount \in Nat /\ TrimAt \in Nat /\ Capacity \in Nat /\ MaxDepth \in Nat
               /\ KeepCount < TrimAt /\ TrimAt + MaxDepth <= Capacity
               /\ Rule50 \in Nat /\ Rule50 <= KeepCount
  BY HistoryAssumption

\* What is left of a history from its entry number discard on, if its start is
\* replayed up to there.
TrimmedBy(h, discard, at) ==
  [h EXCEPT !.starting = at, !.entries = SubSeq(h.entries, discard + 1, Len(h.entries))]

LEMMA ReplayIs ==
  ASSUME NEW h, NEW g, NEW r \in Nat, Holds(h, g, r), KeepCount < Len(h.entries)
  PROVE  TrimHistory(h, KeepCount) =
           TrimmedBy(h, Len(h.entries) - KeepCount,
                     [pos |-> g[Gone(h, g) + (Len(h.entries) - KeepCount) + 1],
                      rule50 |-> Clock(r, g, Gone(h, g) + (Len(h.entries) - KeepCount) + 1)])
<1>. DEFINE discard == Len(h.entries) - KeepCount
            at(j) == [pos |-> g[j], rule50 |-> Clock(r, g, j)]
            first == Gone(h, g) + 1
            Step(a, m) == [pos |-> m, rule50 |-> Rule50After(a, m)]
            F == [i \in 0 .. discard |-> at(first + i)]
            P == CHOOSE G : G = [i \in 0 .. discard |->
                   IF i = 0 THEN h.starting ELSE Step(G[i - 1], h.entries[i].move)]
<1>1. h \in AHistory /\ g \in Line /\ Gone(h, g) \in Nat /\ Len(g) = Gone(h, g) + Len(h.entries) + 1
  BY DEF Holds, Gone, GetLength, AHistory, Line
<1>2. h.entries \in Seq(AnEntry) /\ Len(h.entries) \in Nat /\ h.starting \in AnAt
  BY <1>1 DEF AHistory
<1>3. discard \in Nat /\ discard <= Len(h.entries) /\ first \in 1 .. Len(g)
  BY <1>1, <1>2, Sizes
<1>4. TrimHistory(h, KeepCount) = TrimmedBy(h, discard, P[discard])
  <2>1. ~ (Len(h.entries) <= KeepCount)
    BY <1>2, Sizes
  <2>. QED BY <2>1 DEF TrimHistory, TrimmedBy
<1>5. F[0] = h.starting
  <2>1. KnownAt(h.starting, g, first, r) /\ first + 0 = first
    BY <1>1 DEF Holds
  <2>2. F[0] = at(first)
    BY <1>3, <2>1
  <2>. QED BY <1>2, <2>1, <2>2 DEF KnownAt, AnAt
<1>6. ASSUME NEW i \in 1 .. discard
      PROVE  F[i] = Step(F[i - 1], h.entries[i].move)
  <2>. DEFINE j == first + i
  <2>1. i \in 1 .. Len(h.entries) /\ i - 1 \in 0 .. discard /\ i \in 0 .. discard
        /\ j \in 1 .. Len(g) /\ j > 1 /\ first + (i - 1) = j - 1 /\ Gone(h, g) + i + 1 = j
    <3>1. Len(h.entries) \in Nat /\ discard <= Len(h.entries) /\ discard \in Nat
          /\ Gone(h, g) \in Nat /\ Len(g) = first + Len(h.entries) /\ first = Gone(h, g) + 1
      BY <1>1, <1>2, <1>3
    <3>. DEFINE entries == Len(h.entries)
                gone == Gone(h, g)
                points == Len(g)
    <3>2. entries \in Nat /\ discard <= entries /\ discard \in Nat
          /\ gone \in Nat /\ points = first + entries /\ first = gone + 1
      BY <3>1
    <3>. HIDE DEF discard, first, entries, gone, points
    <3>3. i \in 1 .. entries /\ i - 1 \in 0 .. discard /\ i \in 0 .. discard
      BY ONLY <3>2, i \in 1 .. discard
    <3>4. first + i \in 1 .. points /\ first + i > 1 /\ first + (i - 1) = (first + i) - 1
          /\ gone + i + 1 = first + i
      BY ONLY <3>2, i \in 1 .. discard
    <3>. QED BY <3>3, <3>4 DEF entries, gone, points
  <2>2. F[i] = at(j) /\ F[i - 1] = at(j - 1)
    BY <2>1
  <2>3. h.entries[i].move = g[j]
    BY <2>1 DEF Holds, Entered
  <2>. HIDE DEF j
  <2>4. Clock(r, g, j) = IF <<g[j - 1], g[j]>> \in Zeroing THEN 0 ELSE Clock(r, g, j - 1) + 1
    BY <1>1, <2>1, ClockStep
  <2>5. Step(at(j - 1), g[j]) = at(j)
    BY <2>4 DEF Rule50After
  <2>. QED BY <2>2, <2>3, <2>5
<1>. HIDE DEF at, Step, first
<1>7. F = [i \in 0 .. discard |->
             IF i = 0 THEN h.starting ELSE Step(F[i - 1], h.entries[i].move)]
  <2>1. \A i \in 0 .. discard : i = 0 \/ i \in 1 .. discard
    BY <1>3
  <2>2. \A i \in 0 .. discard :
          F[i] = IF i = 0 THEN h.starting ELSE Step(F[i - 1], h.entries[i].move)
    <3>. HIDE DEF F, discard
    <3>. QED BY <1>5, <1>6, <2>1
  <2>. QED BY <2>2
<1>8. P = [i \in 0 .. discard |->
             IF i = 0 THEN h.starting ELSE Step(P[i - 1], h.entries[i].move)]
  <2>. HIDE DEF F, discard
  <2>. QED BY <1>7
<1>. HIDE DEF F, P, discard
<1>9. \A i \in 0 .. discard : P[i] = F[i]
  <2>1. P[0] = F[0]
    BY <1>3, <1>5, <1>8
  <2>2. \A i \in 1 .. discard : P[i] = Step(P[i - 1], h.entries[i].move)
    <3>1. \A i \in 1 .. discard : i \in 0 .. discard /\ i # 0
      BY <1>3
    <3>. QED BY <1>8, <3>1
  <2>3. \A i \in 1 .. discard : P[i - 1] = F[i - 1] => P[i] = F[i]
    BY <1>6, <2>2
  <2>4. discard \in Nat
    BY <1>3
  <2>. HIDE DEF Step
  <2>. QED BY ONLY <2>1, <2>3, <2>4, Alike
<1>10. P[discard] = at(first + discard)
  <2>1. discard \in 0 .. discard
    BY <1>3
  <2>. QED BY <1>9, <2>1 DEF F
<1>11. first + discard = Gone(h, g) + (Len(h.entries) - KeepCount) + 1
  BY <1>1, <1>2, Sizes, SMTT(30) DEF first, discard
<1>. QED BY <1>4, <1>10, <1>11 DEF at, discard

LEMMA TrimHistoryHolds ==
  ASSUME NEW h, NEW g, NEW r \in Nat, Holds(h, g, r), KeepCount < Len(h.entries)
  PROVE  /\ Holds(TrimHistory(h, KeepCount), g, r)
         /\ Len(TrimHistory(h, KeepCount).entries) = KeepCount
         /\ TrimHistory(h, KeepCount).last = h.last
         /\ \A i \in 1 .. KeepCount :
              /\ i + (Len(h.entries) - KeepCount) \in 1 .. Len(h.entries)
              /\ TrimHistory(h, KeepCount).entries[i] = h.entries[i + (Len(h.entries) - KeepCount)]
<1>. DEFINE t == TrimHistory(h, KeepCount)
            gone == Gone(h, g)
            discard == Len(h.entries) - KeepCount
            k == gone + discard + 1
            at == [pos |-> g[k], rule50 |-> Clock(r, g, k)]
            e == SubSeq(h.entries, discard + 1, Len(h.entries))
<1>1. h \in AHistory /\ g \in Line /\ gone \in Nat /\ Len(g) = gone + Len(h.entries) + 1
  BY DEF Holds, Gone, GetLength, AHistory, Line
<1>2. h.entries \in Seq(AnEntry) /\ Len(h.entries) \in Nat /\ h.last \in ALast
  BY <1>1 DEF AHistory
<1>3. discard \in Nat /\ k \in 1 .. Len(g) /\ k = gone + discard + 1
      /\ KeepCount \in Nat /\ Len(h.entries) = discard + KeepCount
  <2>1. discard \in Nat /\ KeepCount \in Nat /\ Len(h.entries) = discard + KeepCount
    BY <1>2, Sizes
  <2>2. k = gone + discard + 1
    OBVIOUS
  <2>4. k \in 1 .. Len(g)
    <3>. HIDE DEF k, discard, gone
    <3>. QED BY <1>1, <1>2, <2>1, <2>2
  <2>. QED BY <2>1, <2>2, <2>4
<1>4. e \in Seq(AnEntry) /\ Len(e) = KeepCount /\ \A i \in 1 .. KeepCount : e[i] = h.entries[i + discard]
  <2>. DEFINE m == discard + 1
              n == Len(h.entries)
  <2>1. m \in 1 .. n + 1 /\ n \in (m - 1) .. n /\ n - m + 1 = KeepCount
    BY <1>2, <1>3
  <2>2. \A i \in 1 .. KeepCount : i + discard \in 1 .. n /\ i + m - 1 = i + discard
    BY <1>3
  <2>3. \A i \in m .. n : i \in 1 .. n
    BY <2>1
  <2>4. \A i \in m .. n : h.entries[i] \in AnEntry
    BY <1>2, <2>3
  <2>. HIDE DEF m
  <2>5. SubSeq(h.entries, m, n) \in Seq(AnEntry)
        /\ Len(SubSeq(h.entries, m, n)) = n - m + 1
        /\ \A i \in 1 .. n - m + 1 : SubSeq(h.entries, m, n)[i] = h.entries[m + i - 1]
    BY <1>2, <2>1, <2>4, SubSeqProperties
  <2>. QED BY <1>3, <2>1, <2>2, <2>5 DEF m
<1>5. t = [h EXCEPT !.starting = at, !.entries = e]
  BY ReplayIs DEF TrimmedBy
<1>6. at \in AnAt
  <2>1. g[k] \in Positions
    <3>. HIDE DEF k
    <3>. QED BY <1>1, <1>3, SMTT(30) DEF Line
  <2>2. Clock(r, g, k) \in Nat
    <3>. HIDE DEF k, gone
    <3>. QED BY <1>1, <1>3, ClockStep
  <2>. QED BY <2>1, <2>2 DEF AnAt
<1>. HIDE DEF at, e, t, k
<1>7. t \in AHistory /\ t.entries = e /\ t.starting = at /\ t.last = h.last
  BY <1>1, <1>4, <1>5, <1>6 DEF AHistory
<1>8. Gone(t, g) = gone + discard
  BY <1>1, <1>3, <1>4, <1>7 DEF Gone, GetLength
<1>. HIDE DEF gone, discard
<1>9. \A i \in 1 .. KeepCount :
        /\ i + discard \in 1 .. Len(h.entries)
        /\ gone + (i + discard) = gone + discard + i
        /\ gone + (i + discard) + 1 = gone + discard + i + 1
  BY <1>1, <1>3
<1>10. Entered(t, g, r)
  <2>1. \A i \in 1 .. Len(h.entries) :
          KnownAt(h.entries[i], g, gone + i, r) /\ h.entries[i].move = g[gone + i + 1]
    BY DEF Holds, Entered, gone
  <2>2. \A i \in 1 .. KeepCount :
          KnownAt(e[i], g, gone + discard + i, r) /\ e[i].move = g[gone + discard + i + 1]
    BY <1>4, <1>9, <2>1
  <2>. QED BY <1>4, <1>7, <1>8, <2>2 DEF Entered
<1>11. KnownAt(t.starting, g, Gone(t, g) + 1, r)
  BY <1>3, <1>7, <1>8 DEF KnownAt, at
<1>12. GetLength(t) > KeepCount
  BY <1>3, <1>4, <1>7 DEF GetLength
<1>13. Holds(t, g, r)
  <2>1. KnownAt(h.last, g, Len(g), r)
    BY DEF Holds
  <2>2. Gone(t, g) \in Nat
    BY <1>1, <1>3, <1>8
  <2>. QED BY <1>1, <1>7, <1>10, <1>11, <1>12, <2>1, <2>2 DEF Holds
<1>. QED BY <1>4, <1>7, <1>9, <1>13 DEF t, discard

-----------------------------------------------------------------------------
(* However long the game and whatever was trimmed and taken back, a        *)
(* history is the end of the game.                                         *)

LEMMA Joined ==
  ASSUME NEW g \in Line, NEW p \in Line
  PROVE  /\ g \o p \in Line /\ Len(g \o p) = Len(g) + Len(p)
         /\ Len(g) \in Nat /\ Len(p) \in Nat
         /\ \A i \in 1 .. Len(g) : (g \o p)[i] = g[i]
         /\ \A i \in 1 .. Len(g) + Len(p) : i > Len(g) => (g \o p)[i] = p[i - Len(g)]
  BY ConcatProperties DEF Line

LEMMA JoinedOneMore ==
  ASSUME NEW g \in Line, NEW p \in Line, NEW m \in Positions
  PROVE  g \o Append(p, m) = Append(g \o p, m)
  BY DEF Line

LEMMA JoinedOneLess ==
  ASSUME NEW g \in Line, NEW p \in Line, p # <<>>
  PROVE  /\ Front(p) \in Line /\ Len(Front(p)) = Len(p) - 1 /\ Len(p) > 0
         /\ \A i \in 1 .. Len(g) + Len(p) - 1 : (g \o Front(p))[i] = (g \o p)[i]
<1>1. Len(p) \in Nat /\ Len(p) > 0 /\ Len(g) \in Nat
  BY DEF Line
<1>2. \A i \in 1 .. Len(p) - 1 : p[i] \in Positions
  BY <1>1 DEF Line
<1>3. Front(p) \in Seq(Positions) /\ Len(Front(p)) = Len(p) - 1
      /\ \A i \in 1 .. Len(p) - 1 : Front(p)[i] = p[i]
  <2>. DEFINE n == Len(p) - 1
  <2>1. n \in Nat /\ n - 1 + 1 = n
    BY <1>1
  <2>. HIDE DEF n
  <2>2. SubSeq(p, 1, n) \in Seq(Positions) /\ Len(SubSeq(p, 1, n)) = n
        /\ \A i \in 1 .. n : SubSeq(p, 1, n)[i] = p[i]
    <3>1. \A i \in 1 .. n : p[i] \in Positions
      BY <1>2 DEF n
    <3>. QED BY <2>1, <3>1, SubSeqProperties
  <2>. QED BY <2>2 DEF Front, n
<1>4. Front(p) \in Line
  BY <1>3 DEF Line
<1>5. \A i \in 1 .. Len(g) + Len(p) - 1 : (g \o Front(p))[i] = (g \o p)[i]
  <2>. SUFFICES ASSUME NEW i \in 1 .. Len(g) + Len(p) - 1 PROVE (g \o Front(p))[i] = (g \o p)[i]
    OBVIOUS
  <2>. DEFINE f == Front(p)
  <2>1. f \in Line /\ Len(f) = Len(p) - 1 /\ \A j \in 1 .. Len(p) - 1 : f[j] = p[j]
    BY <1>3, <1>4
  <2>. HIDE DEF f
  <2>2. CASE i <= Len(g)
    <3>1. i \in 1 .. Len(g)
      BY <1>1, <2>2
    <3>2. (g \o f)[i] = g[i] /\ (g \o p)[i] = g[i]
      BY <2>1, <3>1, Joined
    <3>. QED BY <3>2 DEF f
  <2>3. CASE i > Len(g)
    <3>1. i - Len(g) \in 1 .. Len(p) - 1 /\ i \in 1 .. Len(g) + Len(p)
          /\ i \in 1 .. Len(g) + Len(f)
      BY <1>1, <2>1, <2>3
    <3>2. (g \o f)[i] = f[i - Len(g)] /\ (g \o p)[i] = p[i - Len(g)]
      BY <2>1, <2>3, <3>1, Joined
    <3>3. f[i - Len(g)] = p[i - Len(g)]
      BY <2>1, <3>1
    <3>4. (g \o f)[i] = (g \o p)[i]
      BY <3>2, <3>3
    <3>. QED BY <3>4 DEF f
  <2>4. i <= Len(g) \/ i > Len(g)
    BY <1>1
  <2>. QED BY <2>2, <2>3, <2>4
<1>. QED BY <1>1, <1>3, <1>4, <1>5

\* The strengthening: the end of the game, with all the code forgets in it, and
\* room for a line.
Played ==
  /\ start \in AnAt
  /\ Holds(played, game, start.rule50)
  /\ Len(played.entries) < TrimAt
Searched ==
  /\ path \in Line /\ Len(path) <= MaxDepth
  /\ ~ searching => path = <<>>
  /\ searching => /\ Holds(line, game \o path, start.rule50)
                  /\ Len(line.entries) = Len(played.entries) + Len(path)
HInv == Played /\ Searched

LEMMA PlayedIs ==
  ASSUME Played
  PROVE  /\ played \in AHistory /\ played.entries \in Seq(AnEntry) /\ Len(played.entries) \in Nat
         /\ played.last \in ALast /\ start.rule50 \in Nat /\ game \in Line /\ Len(game) \in Nat
         /\ Gone(played, game) \in Nat /\ Len(game) = Gone(played, game) + Len(played.entries) + 1
<1>1. played \in AHistory /\ game \in Line /\ Gone(played, game) \in Nat
  BY DEF Played, Holds
<1>2. played.entries \in Seq(AnEntry) /\ played.last \in ALast
  BY <1>1 DEF AHistory
<1>3. start.rule50 \in Nat
  BY DEF Played, AnAt
<1>. QED BY <1>1, <1>2, <1>3 DEF Gone, GetLength, Line

\* What a line adds to what was played.
LEMMA SearchedIs ==
  ASSUME Played, Searched, searching
  PROVE  /\ line \in AHistory /\ line.entries \in Seq(AnEntry) /\ Len(line.entries) \in Nat
         /\ line.last \in ALast
         /\ path \in Line /\ Len(path) \in Nat /\ game \o path \in Line
         /\ Len(game \o path) = Len(game) + Len(path)
         /\ Gone(line, game \o path) = Gone(played, game)
         /\ Len(line.entries) < TrimAt + Len(path)
<1>1. line \in AHistory /\ path \in Line /\ Len(line.entries) = Len(played.entries) + Len(path)
  BY DEF Searched, Holds
<1>2. line.entries \in Seq(AnEntry) /\ line.last \in ALast
  BY <1>1 DEF AHistory
<1>3. game \o path \in Line /\ Len(game \o path) = Len(game) + Len(path) /\ Len(path) \in Nat
  BY <1>1, PlayedIs, Joined
<1>4. Len(played.entries) < TrimAt
  BY DEF Played
<1>. QED BY <1>1, <1>2, <1>3, <1>4, PlayedIs, Sizes DEF Gone, GetLength

LEMMA InitHolds == ASSUME Init PROVE HInv
<1>1. start \in AnAt
  BY HistoryAssumption DEF Init, AnAt
<1>2. Holds(played, game, start.rule50)
  BY <1>1, ResetHolds DEF Init
<1>3. Len(played.entries) = 0 /\ path = <<>> /\ searching = FALSE
  BY DEF Init, Reset
<1>4. path \in Line /\ Len(path) = 0
  BY <1>3 DEF Line
<1>. QED BY <1>1, <1>2, <1>3, <1>4, Sizes DEF HInv, Played, Searched

LEMMA MakeMoveHolds ==
  ASSUME HInv, NEW m \in Positions, MakeMove(m)
  PROVE  HInv'
<1>. DEFINE h == AppendMove(played, m)
            t == TrimHistory(h, KeepCount)
<1>1. Played /\ Searched
  BY DEF HInv
<1>2. Len(played.entries) < TrimAt /\ Holds(played, game, start.rule50)
  BY <1>1 DEF Played
<1>3. Len(played.entries) < Capacity
  BY <1>1, <1>2, PlayedIs, Sizes
<1>4. Holds(h, game', start.rule50) /\ Len(h.entries) = Len(played.entries) + 1
  <2>1. game' = Append(game, m)
    BY DEF MakeMove
  <2>. QED BY <1>1, <1>2, <1>3, <2>1, PlayedIs, AppendHolds
<1>5. played' = IF GetLength(h) >= TrimAt THEN t ELSE h
  BY DEF MakeMove
<1>6. start' = start
  BY DEF MakeMove
<1>. HIDE DEF h
<1>7. Len(h.entries) \in Nat
  BY <1>1, <1>4, PlayedIs
<1>8. Played'
  <2>1. CASE GetLength(h) < TrimAt
    <3>1. played' = h
      BY <1>5, <1>7, <2>1, Sizes DEF GetLength
    <3>2. Len(played'.entries) < TrimAt
      BY <1>7, <2>1, <3>1, Sizes DEF GetLength
    <3>. QED BY <1>1, <1>4, <1>6, <3>1, <3>2 DEF Played
  <2>2. CASE GetLength(h) >= TrimAt
    <3>1. played' = t
      BY <1>5, <2>2
    <3>2. CASE Len(h.entries) <= KeepCount
      <4>1. t = h
        BY <3>2 DEF TrimHistory
      <4>2. Len(h.entries) < TrimAt
        BY <1>7, <3>2, Sizes
      <4>. QED BY <1>1, <1>4, <1>6, <3>1, <4>1, <4>2 DEF Played
    <3>3. CASE KeepCount < Len(h.entries)
      <4>1. Holds(t, game', start.rule50) /\ Len(t.entries) = KeepCount
        BY <1>1, <1>4, <3>3, PlayedIs, TrimHistoryHolds
      <4>. QED BY <1>1, <1>6, <3>1, <4>1, Sizes DEF Played
    <3>. QED BY <1>7, <3>2, <3>3, Sizes
  <2>. QED BY <1>7, <2>1, <2>2, Sizes DEF GetLength
<1>9. Searched'
  BY <1>1 DEF MakeMove, Searched
<1>. QED BY <1>8, <1>9 DEF HInv

LEMMA DescendHolds ==
  ASSUME HInv, NEW m \in Positions, Descend(m)
  PROVE  HInv'
<1>1. Played /\ Searched /\ searching
  BY DEF HInv, Descend
<1>2. Played'
  BY <1>1 DEF Played, Descend
<1>3. Len(line.entries) < Capacity
  <2>1. Len(path) < MaxDepth
    BY DEF Descend
  <2>. QED BY <1>1, <2>1, SearchedIs, Sizes
<1>4. Holds(line, game \o path, start.rule50)
  BY <1>1 DEF Searched
<1>5. line' = AppendMove(line, m) /\ path' = Append(path, m) /\ game' = game /\ start' = start
      /\ played' = played /\ searching'
  BY <1>1 DEF Descend
<1>6. Append(game \o path, m) = game' \o path'
  BY <1>1, <1>5, PlayedIs, SearchedIs, JoinedOneMore
<1>. DEFINE g == game \o path
<1>7. /\ Holds(line', game' \o path', start'.rule50)
      /\ Len(line'.entries) = Len(line.entries) + 1
  <2>1. start.rule50 \in Nat /\ Holds(line, g, start.rule50)
    BY <1>1, <1>4, PlayedIs
  <2>. HIDE DEF g
  <2>2. /\ Holds(AppendMove(line, m), Append(g, m), start.rule50)
        /\ Len(AppendMove(line, m).entries) = Len(line.entries) + 1
    BY <1>3, <2>1, AppendHolds
  <2>. QED BY <1>5, <1>6, <2>2 DEF g
<1>8. path' \in Line /\ Len(path') = Len(path) + 1
  BY <1>1, <1>5, SearchedIs, Longer
<1>9. Len(path') <= MaxDepth
  <2>1. Len(path) < MaxDepth
    BY DEF Descend
  <2>. QED BY <1>1, <1>8, <2>1, SearchedIs, Sizes
<1>10. Len(line'.entries) = Len(played'.entries) + Len(path')
  <2>1. Len(line.entries) = Len(played.entries) + Len(path)
    BY <1>1 DEF Searched
  <2>2. played' = played /\ Len(played.entries) \in Nat /\ Len(path) \in Nat
    BY <1>1, <1>5, PlayedIs, SearchedIs
  <2>3. Len(line'.entries) = Len(line.entries) + 1 /\ Len(path') = Len(path) + 1
    BY <1>7, <1>8
  <2>4. Len(played'.entries) = Len(played.entries)
    BY <2>2
  <2>5. Len(line.entries) + 1 = Len(played.entries) + (Len(path) + 1)
    <3>1. Len(played.entries) \in Nat /\ Len(path) \in Nat
      BY <2>2
    <3>. DEFINE searched == Len(line.entries)
                ofGame == Len(played.entries)
                ofPath == Len(path)
    <3>2. searched = ofGame + ofPath /\ ofGame \in Nat /\ ofPath \in Nat
      BY <2>1, <3>1
    <3>. HIDE DEF searched, ofGame, ofPath
    <3>3. searched + 1 = ofGame + (ofPath + 1)
      BY ONLY <3>2
    <3>. QED BY <3>3 DEF searched, ofGame, ofPath
  <2>. QED BY ONLY <2>3, <2>4, <2>5
<1>11. Searched'
  BY <1>5, <1>7, <1>8, <1>9, <1>10 DEF Searched
<1>. QED BY <1>2, <1>11 DEF HInv

\* Whatever is taken back is of the line, never of the game.
LEMMA LineCut ==
  ASSUME HInv, searching, NEW f \in Line, NEW k \in Nat, k <= Len(path), Len(f) = Len(game) + k,
         \A i \in 1 .. Len(game) + k : f[i] = (game \o path)[i]
  PROVE  /\ Len(played.entries) + k \in 0 .. Len(line.entries)
         /\ Holds(PopTo(line, Len(played.entries) + k), f, start.rule50)
         /\ Gone(PopTo(line, Len(played.entries) + k), f) = Gone(played, game)
         /\ Len(PopTo(line, Len(played.entries) + k).entries) = Len(played.entries) + k
<1>. DEFINE n == Len(played.entries) + k
<1>1. Played /\ Searched
  BY DEF HInv
<1>2. Holds(line, game \o path, start.rule50) /\ Len(line.entries) = Len(played.entries) + Len(path)
  BY <1>1 DEF Searched
<1>. DEFINE g == game \o path
<1>3. n \in 0 .. Len(line.entries) /\ Gone(line, g) = Gone(played, game)
      /\ Len(f) = Gone(line, g) + n + 1
  <2>1. Len(played.entries) \in Nat /\ Gone(played, game) \in Nat
        /\ Len(game) = Gone(played, game) + Len(played.entries) + 1
    BY <1>1, PlayedIs
  <2>2. Gone(line, g) = Gone(played, game) /\ Len(path) \in Nat
    BY <1>1, SearchedIs
  <2>3. Len(line.entries) = Len(played.entries) + Len(path)
    BY <1>2
  <2>. HIDE DEF g
  <2>4. n \in 0 .. Len(line.entries)
    BY <2>1, <2>2, <2>3
  <2>5. Len(f) = Gone(line, g) + n + 1
    BY <2>1, <2>2, SMTT(30)
  <2>. QED BY <2>2, <2>4, <2>5
<1>4. Gone(line, g) > 0 => n + 1 > KeepCount
  <2>1. Gone(played, game) > 0 => Len(played.entries) + 1 > KeepCount
    BY <1>1 DEF Played, Holds, GetLength
  <2>. QED BY <1>1, <1>3, <2>1, PlayedIs, Sizes
<1>5. \A i \in 1 .. Len(f) : f[i] = g[i]
  OBVIOUS
<1>6. line \in AHistory /\ start.rule50 \in Nat /\ Holds(line, g, start.rule50)
  BY <1>1, <1>2, PlayedIs, SearchedIs
<1>. HIDE DEF n, g
<1>7. Holds(PopTo(line, n), f, start.rule50)
      /\ Gone(PopTo(line, n), f) = Gone(line, g)
  BY <1>3, <1>4, <1>5, <1>6, PopToHolds
<1>8. Len(PopTo(line, n).entries) = n
  BY <1>3, <1>6, PopToIs
<1>. QED BY <1>3, <1>7, <1>8 DEF n

\* The line that a step back leaves, and that a return to the root leaves.
LEMMA ReturnIs ==
  ASSUME HInv, Return
  PROVE  /\ searching /\ Len(path) - 1 \in Nat /\ Len(path) > 0
         /\ path' \in Line /\ Len(path') = Len(path) - 1
         /\ line' = PopTo(line, Len(played.entries) + (Len(path) - 1))
         /\ \A i \in 1 .. Len(game) + (Len(path) - 1) : (game \o path')[i] = (game \o path)[i]
<1>1. Played /\ Searched /\ searching /\ path # <<>>
  BY DEF HInv, Return, Searched
<1>2. path' = Front(path) /\ line' = Pop(line)
  BY DEF Return
<1>3. path' \in Line /\ Len(path') = Len(path) - 1 /\ Len(path) > 0
      /\ \A i \in 1 .. Len(game) + Len(path) - 1 : (game \o path')[i] = (game \o path)[i]
  BY <1>1, <1>2, PlayedIs, SearchedIs, JoinedOneLess
<1>4. Len(line.entries) = Len(played.entries) + Len(path)
  BY <1>1 DEF Searched
<1>. DEFINE n == Len(line.entries)
<1>5. n \in 1 .. Len(line.entries) /\ n - 1 = Len(played.entries) + (Len(path) - 1)
      /\ Len(path) - 1 \in Nat /\ Len(game) + (Len(path) - 1) = Len(game) + Len(path) - 1
  BY <1>1, <1>3, <1>4, PlayedIs, SearchedIs
<1>6. PopTo(line, n) = line
  BY DEF PopTo
<1>. HIDE DEF n
<1>7. Pop(PopTo(line, n)) = PopTo(line, n - 1)
  BY <1>1, <1>5, SearchedIs, PopIs
<1>. QED BY <1>1, <1>2, <1>3, <1>5, <1>6, <1>7

LEMMA ReturnHolds ==
  ASSUME HInv, Return
  PROVE  HInv'
<1>1. Played /\ Searched /\ searching
  BY ReturnIs DEF HInv
<1>2. Played'
  BY <1>1 DEF Played, Return
<1>3. game' = game /\ start' = start /\ played' = played /\ searching'
  BY <1>1 DEF Return
<1>. DEFINE k == Len(path) - 1
            f == game \o path'
<1>4. f \in Line /\ Len(f) = Len(game) + k /\ k \in Nat /\ k <= Len(path)
      /\ \A i \in 1 .. Len(game) + k : f[i] = (game \o path)[i]
  <2>1. game \in Line /\ path' \in Line /\ Len(path') = k /\ k \in Nat /\ Len(path) \in Nat
    BY <1>1, ReturnIs, PlayedIs, SearchedIs
  <2>2. f \in Line /\ Len(f) = Len(game) + k
    BY <2>1, Joined
  <2>3. k <= Len(path)
    BY <2>1
  <2>4. \A i \in 1 .. Len(game) + k : f[i] = (game \o path)[i]
    BY ReturnIs
  <2>. QED BY <2>1, <2>2, <2>3, <2>4
<1>5. line' = PopTo(line, Len(played.entries) + k) /\ path' \in Line /\ Len(path') = k
  BY ReturnIs
<1>. HIDE DEF k, f
<1>6. Holds(line', f, start.rule50) /\ Len(line'.entries) = Len(played.entries) + k
  BY <1>1, <1>4, <1>5, LineCut
<1>7. Len(path') <= MaxDepth
  <2>1. Len(path) <= MaxDepth /\ Len(path) \in Nat
    BY <1>1, SearchedIs DEF Searched
  <2>. QED BY <1>4, <1>5, <2>1, Sizes
<1>8. Searched'
  BY <1>3, <1>5, <1>6, <1>7 DEF Searched, f
<1>. QED BY <1>2, <1>8 DEF HInv

LEMMA ToRootIs ==
  ASSUME HInv, ToRoot
  PROVE  searching /\ line' = PopTo(line, Len(played.entries) + 0)
<1>1. Played /\ Searched /\ searching
  BY DEF HInv, ToRoot, Searched
<1>2. Len(line.entries) = Len(played.entries) + Len(path)
  BY <1>1 DEF Searched
<1>. DEFINE l == GetLength(played)
<1>3. l \in 1 .. GetLength(line) /\ l - 1 = Len(played.entries) + 0
  BY <1>1, <1>2, PlayedIs, SearchedIs DEF GetLength
<1>4. line' = Trim(line, l)
  BY DEF ToRoot
<1>. HIDE DEF l
<1>. QED BY <1>1, <1>3, <1>4, SearchedIs, TrimIs

LEMMA ToRootHolds ==
  ASSUME HInv, ToRoot
  PROVE  HInv'
<1>1. Played /\ Searched /\ searching
  BY ToRootIs DEF HInv
<1>2. Played'
  BY <1>1 DEF Played, ToRoot
<1>3. game' = game /\ start' = start /\ played' = played /\ searching' /\ path' = <<>>
  BY <1>1 DEF ToRoot
<1>4. path' \in Line /\ Len(path') = 0 /\ game \o path' = game
  BY <1>1, <1>3, PlayedIs DEF Line
<1>5. Len(game) = Len(game) + 0 /\ 0 <= Len(path)
      /\ \A i \in 1 .. Len(game) + 0 : game[i] = (game \o path)[i]
  BY <1>1, PlayedIs, SearchedIs, Joined
<1>6. Holds(line', game, start.rule50) /\ Len(line'.entries) = Len(played.entries) + 0
  BY <1>1, <1>5, PlayedIs, ToRootIs, LineCut
<1>7. Searched'
  BY <1>3, <1>4, <1>6, Sizes DEF Searched
<1>. QED BY <1>2, <1>7 DEF HInv

LEMMA StepHolds ==
  ASSUME HInv, [Next]_vars
  PROVE  HInv'
<1>1. Played /\ Searched
  BY DEF HInv
<1>2. ASSUME NEW m \in Positions, MakeMove(m) \/ Descend(m) PROVE HInv'
  BY <1>2, MakeMoveHolds, DescendHolds
<1>3. ASSUME NEW at \in Starts, ResetToPosition(at) PROVE HInv'
  <2>1. at \in AnAt
    BY HistoryAssumption DEF AnAt
  <2>2. start' = at /\ played' = Reset(at) /\ game' = <<at.pos>>
    BY <1>3 DEF ResetToPosition
  <2>3. Holds(played', game', start'.rule50)
    BY <2>1, <2>2, ResetHolds
  <2>4. Len(played'.entries) = 0
    BY <2>2 DEF Reset
  <2>5. Played'
    BY <2>1, <2>2, <2>3, <2>4, Sizes DEF Played
  <2>6. Searched'
    BY <1>1, <1>3 DEF Searched, ResetToPosition
  <2>. QED BY <2>5, <2>6 DEF HInv
<1>4. CASE StartSearch
  <2>1. Played'
    BY <1>1, <1>4 DEF Played, StartSearch
  <2>2. path' = <<>> /\ line' = played /\ game' = game /\ start' = start /\ played' = played
    BY <1>1, <1>4 DEF StartSearch, Searched
  <2>3. path' \in Line /\ Len(path') = 0 /\ game' \o path' = game
    BY <1>1, <2>2, PlayedIs DEF Line
  <2>4. Len(line'.entries) = Len(played'.entries) + Len(path')
    BY <1>1, <2>2, <2>3, PlayedIs
  <2>5. Holds(line', game' \o path', start'.rule50)
    BY <1>1, <2>2, <2>3 DEF Played
  <2>6. Searched'
    BY <2>2, <2>3, <2>4, <2>5, Sizes DEF Searched
  <2>. QED BY <2>1, <2>6 DEF HInv
<1>5. CASE EndSearch
  <2>1. Played'
    BY <1>1, <1>5 DEF Played, EndSearch
  <2>2. path' = <<>> /\ searching' = FALSE
    BY <1>5 DEF EndSearch
  <2>3. path' \in Line /\ Len(path') = 0
    BY <2>2 DEF Line
  <2>4. Searched'
    BY <2>2, <2>3, Sizes DEF Searched
  <2>. QED BY <2>1, <2>4 DEF HInv
<1>6. CASE UNCHANGED vars
  BY <1>1, <1>6 DEF Played, Searched, HInv, vars
<1>. QED BY <1>2, <1>3, <1>4, <1>5, <1>6, ToRootHolds, ReturnHolds DEF Next

LEMMA HoldsIsKnown ==
  ASSUME NEW h, NEW g, Holds(h, g, start.rule50)
  PROVE  LET gone == Len(g) - GetLength(h)
             Known(at, i) == at.pos = g[i] /\ at.rule50 = TrueRule50(SubSeq(g, 1, i))
         IN  /\ gone >= 0
             /\ Known(h.last, Len(g)) /\ Known(h.starting, gone + 1)
             /\ \A i \in 1 .. Len(h.entries) :
                  Known(h.entries[i], gone + i) /\ h.entries[i].move = g[gone + i + 1]
             /\ gone > 0 => GetLength(h) > KeepCount
<1>. DEFINE gone == Gone(h, g)
<1>1. h \in AHistory /\ g \in Line /\ gone \in Nat /\ Len(g) = gone + Len(h.entries) + 1
  BY DEF Holds, Gone, GetLength, AHistory, Line
<1>2. Len(h.entries) \in Nat
  BY <1>1 DEF AHistory
<1>. HIDE DEF gone
<1>3. /\ Len(g) \in 1 .. Len(g) /\ gone + 1 \in 1 .. Len(g)
      /\ \A i \in 1 .. Len(h.entries) : gone + i \in 1 .. Len(g)
  BY <1>1, <1>2
<1>4. \A i \in 1 .. Len(g) : TrueRule50(SubSeq(g, 1, i)) = Clock(start.rule50, g, i)
  BY <1>1, TrueIsClock
<1>. QED BY <1>1, <1>3, <1>4 DEF Holds, KnownAt, Entered, Gone, gone

\* For all rules, lengths of games and lines and trims: a history is the end of
\* the game it is the history of, with the clock of rule 50 of the whole game at
\* each of its positions (AppendMove, Pop, Trim, TrimHistory).
THEOREM EndOfTheGame == Spec => []HistoryIsSuffix
<1>1. HInv => HistoryIsSuffix
  <2>. SUFFICES ASSUME HInv PROVE HistoryIsSuffix
    OBVIOUS
  <2>1. Holds(played, game, start.rule50)
        /\ (searching => Holds(line, game \o path, start.rule50))
    BY DEF HInv, Played, Searched
  <2>2. \A hg \in Histories : Holds(hg[1], hg[2], start.rule50)
    <3>. SUFFICES ASSUME NEW hg \in Histories PROVE Holds(hg[1], hg[2], start.rule50)
      OBVIOUS
    <3>1. hg = <<played, game>> \/ (searching /\ hg = <<line, game \o path>>)
      BY DEF Histories
    <3>2. CASE hg = <<played, game>>
      BY <2>1, <3>2
    <3>3. CASE searching /\ hg = <<line, game \o path>>
      <4>. DEFINE g == game \o path
      <4>1. Holds(line, g, start.rule50) /\ hg = <<line, g>>
        BY <2>1, <3>3
      <4>. HIDE DEF g
      <4>. QED BY <4>1
    <3>. QED BY <3>1, <3>2, <3>3
  <2>. QED BY <2>2, HoldsIsKnown DEF HistoryIsSuffix
<1>. QED BY <1>1, InitHolds, StepHolds, PTL DEF Spec

-----------------------------------------------------------------------------
(* What the rules say of a position that comes back.                       *)

Legal(g) == \A i \in 2 .. Len(g) : g[i] \in MovesOf[g[i - 1]]
EarlierAt(g, n) == {i \in 1 .. n - 1 : g[i] = g[n]}

LEMMA LegalStep ==
  ASSUME NEW g \in Line, Legal(g), NEW i \in 2 .. Len(g)
  PROVE  /\ i - 1 \in 1 .. Len(g) /\ i \in 1 .. Len(g)
         /\ g[i] \in Positions /\ g[i - 1] \in Positions /\ g[i] \in MovesOf[g[i - 1]]
         /\ g[i] \in BlackToMove <=> g[i - 1] \notin BlackToMove
         /\ g[i - 1] \notin MovesOf[g[i]]
         /\ Stage[g[i]] \in Nat /\ Stage[g[i - 1]] \in Nat
         /\ Stage[g[i]] >= Stage[g[i - 1]]
         /\ <<g[i - 1], g[i]>> \in Zeroing => Stage[g[i]] > Stage[g[i - 1]]
<1>1. Len(g) \in Nat
  BY DEF Line
<1>2. i - 1 \in 1 .. Len(g) /\ i \in 1 .. Len(g)
  BY <1>1
<1>3. g[i] \in Positions /\ g[i - 1] \in Positions
  BY <1>2 DEF Line
<1>4. g[i] \in MovesOf[g[i - 1]]
  BY DEF Legal
<1>5. Stage[g[i]] \in Nat /\ Stage[g[i - 1]] \in Nat
  BY <1>3, RulesAssumption
<1>. QED BY <1>2, <1>3, <1>4, <1>5, RulesAssumption

LEMMA StageNeverFalls ==
  ASSUME NEW g \in Line, Legal(g), NEW i \in 1 .. Len(g), NEW j \in i .. Len(g)
  PROVE  Stage[g[j]] \in Nat /\ Stage[g[i]] \in Nat /\ Stage[g[j]] >= Stage[g[i]]
<1>0. Len(g) \in Nat /\ i \in Nat
  BY DEF Line
<1>1. \A k \in 1 .. Len(g) : Stage[g[k]] \in Nat
  <2>1. \A k \in 1 .. Len(g) : g[k] \in Positions
    BY DEF Line
  <2>. QED BY <2>1, RulesAssumption
<1>. DEFINE bad == {k \in i .. Len(g) : ~ (Stage[g[k]] >= Stage[g[i]])}
<1>2. bad = {}
  <2>. SUFFICES ASSUME bad # {} PROVE FALSE
    OBVIOUS
  <2>1. bad \in SUBSET Nat
    BY <1>0
  <2>2. PICK k \in bad : \A m \in bad : k <= m
    <3>. HIDE DEF bad
    <3>. QED BY <2>1, Least
  <2>3. k \in i .. Len(g) /\ k # i
    BY <1>0, <1>1
  <2>4. k \in 2 .. Len(g) /\ k - 1 \in i .. Len(g) /\ k - 1 < k
    BY <1>0, <2>3
  <2>5. k - 1 \notin bad
    BY <2>2, <2>4
  <2>6. Stage[g[k - 1]] >= Stage[g[i]]
    BY <2>4, <2>5
  <2>7. Stage[g[k]] >= Stage[g[k - 1]] /\ Stage[g[k]] \in Nat /\ Stage[g[k - 1]] \in Nat
    BY <2>4, LegalStep
  <2>8. Stage[g[k]] >= Stage[g[i]]
    BY <1>1, <2>6, <2>7
  <2>. QED BY <2>8
<1>3. i \in 1 .. Len(g) /\ j \in 1 .. Len(g)
  BY <1>0
<1>. QED BY <1>1, <1>2, <1>3

LEMMA NoZeroingBetween ==
  ASSUME NEW g \in Line, Legal(g), NEW i \in 1 .. Len(g), NEW j \in i .. Len(g), g[i] = g[j]
  PROVE  \A z \in ZeroedBy(g, j) : z <= i
<1>0. Len(g) \in Nat /\ i \in Nat /\ j \in Nat
  BY DEF Line
<1>. SUFFICES ASSUME NEW z \in ZeroedBy(g, j), ~ (z <= i) PROVE FALSE
  OBVIOUS
<1>1. z \in 2 .. j /\ <<g[z - 1], g[z]>> \in Zeroing
  BY DEF ZeroedBy
<1>2. z \in 2 .. Len(g) /\ z - 1 \in i .. Len(g) /\ j \in z .. Len(g) /\ z \in 1 .. Len(g)
  BY <1>0, <1>1
<1>3. Stage[g[z]] > Stage[g[z - 1]] /\ Stage[g[z]] \in Nat /\ Stage[g[z - 1]] \in Nat
  BY <1>1, <1>2, LegalStep
<1>4. Stage[g[z - 1]] >= Stage[g[i]] /\ Stage[g[i]] \in Nat
  BY <1>2, StageNeverFalls
<1>5. Stage[g[j]] >= Stage[g[z]] /\ Stage[g[j]] \in Nat
  BY <1>2, StageNeverFalls
<1>6. Stage[g[j]] = Stage[g[i]]
  OBVIOUS
<1>. QED BY <1>3, <1>4, <1>5, <1>6

\* Since a position that has come back the clock has run.
LEMMA ClockRan ==
  ASSUME NEW g \in Line, NEW r \in Nat, NEW i \in 1 .. Len(g), NEW j \in i .. Len(g),
         \A z \in ZeroedBy(g, j) : z <= i
  PROVE  Clock(r, g, j) = Clock(r, g, i) + (j - i) /\ Clock(r, g, i) \in Nat
<1>0. Len(g) \in Nat /\ i \in Nat /\ j \in Nat /\ j \in 1 .. Len(g) /\ i <= j
  BY DEF Line
<1>1. ZeroedBy(g, j) = ZeroedBy(g, i)
  BY <1>0 DEF ZeroedBy
<1>2. Clock(r, g, i) \in Nat
  BY ClockStep
<1>3. CASE ZeroedBy(g, i) = {}
  <2>1. Clock(r, g, i) = r + i - 1 /\ Clock(r, g, j) = r + j - 1
    BY <1>1, <1>3 DEF Clock
  <2>. QED BY <1>0, <1>2, <2>1
<1>4. CASE ZeroedBy(g, i) # {}
  <2>. DEFINE k == Max(ZeroedBy(g, i))
  <2>1. Clock(r, g, i) = i - k /\ Clock(r, g, j) = j - k
    BY <1>1, <1>4 DEF Clock
  <2>2. k \in Int
    <3>1. ZeroedBy(g, i) \in SUBSET (1 .. i)
      BY <1>0 DEF ZeroedBy
    <3>2. k \in 1 .. i
      BY <1>0, <1>4, <3>1, MaxIs
    <3>. QED BY <3>2
  <2>. HIDE DEF k
  <2>. QED BY <1>0, <1>2, <2>1, <2>2
<1>. QED BY <1>3, <1>4

Even(k) == k % 2 = 0

LEMMA TurnsAlternate ==
  ASSUME NEW g \in Line, Legal(g), NEW i \in 1 .. Len(g), NEW j \in i .. Len(g)
  PROVE  (g[j] \in BlackToMove) <=> (g[i] \in BlackToMove <=> Even(j - i))
<1>0. Len(g) \in Nat /\ i \in Nat
  BY DEF Line
<1>. DEFINE Fits(k) == (g[k] \in BlackToMove) <=> (g[i] \in BlackToMove <=> Even(k - i))
            bad == {k \in i .. Len(g) : ~ Fits(k)}
<1>2. bad = {}
  <2>. SUFFICES ASSUME bad # {} PROVE FALSE
    OBVIOUS
  <2>1. bad \in SUBSET Nat
    BY <1>0
  <2>2. PICK k \in bad : \A m \in bad : k <= m
    <3>. HIDE DEF bad
    <3>. QED BY <2>1, Least
  <2>3. k \in i .. Len(g) /\ k # i
    <3>1. Even(i - i)
      BY <1>0 DEF Even
    <3>2. Fits(i)
      BY <3>1
    <3>. QED BY <3>2
  <2>4. k \in 2 .. Len(g) /\ k - 1 \in i .. Len(g) /\ k - 1 < k /\ k - i \in Nat
    BY <1>0, <2>3
  <2>5. Fits(k - 1)
    BY <2>2, <2>4
  <2>6. g[k] \in BlackToMove <=> g[k - 1] \notin BlackToMove
    BY <2>4, LegalStep
  <2>7. Even(k - i) <=> ~ Even((k - 1) - i)
    BY <1>0, <2>4, SMTT(30) DEF Even
  <2>8. Fits(k)
    BY <2>5, <2>6, <2>7
  <2>. QED BY <2>8
<1>. QED BY <1>2

\* A position comes back after an even number of moves, and of four at least.
LEMMA ComesBack ==
  ASSUME NEW g \in Line, Legal(g), NEW r \in Nat, NEW j \in 1 .. Len(g),
         NEW i \in EarlierAt(g, j)
  PROVE  /\ i \in 1 .. Len(g) /\ j \in i .. Len(g) /\ i < j
         /\ Even(j - i) /\ j - i >= 4
         /\ \A z \in ZeroedBy(g, j) : z <= i
         /\ Clock(r, g, j) = Clock(r, g, i) + (j - i)
         /\ Clock(r, g, i) \in Nat
<1>1. Len(g) \in Nat /\ i \in 1 .. Len(g) /\ j \in i .. Len(g) /\ i < j /\ g[i] = g[j]
  BY DEF Line, EarlierAt
<1>2. \A z \in ZeroedBy(g, j) : z <= i
  BY <1>1, NoZeroingBetween
<1>3. Clock(r, g, j) = Clock(r, g, i) + (j - i) /\ Clock(r, g, i) \in Nat
  BY <1>1, <1>2, ClockRan
<1>4. Even(j - i)
  BY <1>1, TurnsAlternate
<1>5. j - i # 2
  <2>. SUFFICES ASSUME j - i = 2 PROVE FALSE
    OBVIOUS
  <2>1. i + 1 \in 2 .. Len(g) /\ i + 2 \in 2 .. Len(g) /\ j = i + 2
        /\ (i + 1) - 1 = i /\ (i + 2) - 1 = i + 1
    BY <1>1
  <2>2. g[i] \notin MovesOf[g[i + 1]]
    <3>. DEFINE k == i + 1
    <3>1. k \in 2 .. Len(g) /\ k - 1 = i
      BY <2>1
    <3>. HIDE DEF k
    <3>2. g[k - 1] \notin MovesOf[g[k]]
      BY <3>1, LegalStep
    <3>. QED BY <3>1, <3>2 DEF k
  <2>3. g[i + 2] \in MovesOf[g[i + 1]]
    BY <2>1 DEF Legal
  <2>. QED BY <1>1, <2>1, <2>2, <2>3
<1>6. j - i >= 4
  BY <1>1, <1>4, <1>5 DEF Even
<1>. QED BY <1>1, <1>2, <1>3, <1>4, <1>6

-----------------------------------------------------------------------------
(* Repetitions: the walk back over what is kept counts those of the whole  *)
(* game.                                                                   *)

CountedAt(x, g, n) == x.rule50 < Rule50 => x.repetitions = Cardinality(EarlierAt(g, n))
Counts(h, g) ==
  /\ CountedAt(h.last, g, Len(g))
  /\ \A i \in 1 .. Len(h.entries) : CountedAt(h.entries[i], g, Gone(h, g) + i)
Noted(h, g) ==
  h.last.rule50 < Rule50 =>
    h.last.since = IF EarlierAt(g, Len(g)) = {} THEN Never
                   ELSE Len(g) - Max(EarlierAt(g, Len(g)))

LEMMA EarlierIs ==
  ASSUME NEW g, NEW n \in Nat
  PROVE  /\ EarlierAt(g, n) \in SUBSET (1 .. n) /\ IsFiniteSet(EarlierAt(g, n))
         /\ Cardinality(EarlierAt(g, n)) \in Nat
         /\ Cardinality({}) = 0
         /\ EarlierAt(g, n) # {} => Cardinality(EarlierAt(g, n)) >= 1
<1>. DEFINE E == EarlierAt(g, n)
<1>1. E \in SUBSET (1 .. n)
  BY DEF EarlierAt
<1>2. IsFiniteSet(1 .. n)
  BY FS_Interval
<1>. HIDE DEF E
<1>3. IsFiniteSet(E)
  BY <1>1, <1>2, FS_Subset
<1>4. Cardinality(E) \in Nat /\ (Cardinality(E) = 0 <=> E = {})
  BY <1>3, FS_CardinalityType, FS_EmptySet
<1>5. Cardinality({}) = 0
  BY FS_EmptySet
<1>. QED BY <1>1, <1>3, <1>4, <1>5 DEF E

\* Two games with the same beginning have the same repetitions there.
LEMMA SameEarlier ==
  ASSUME NEW g, NEW f, NEW n \in Nat, \A i \in 1 .. n : g[i] = f[i]
  PROVE  EarlierAt(g, n) = EarlierAt(f, n)
<1>1. \A i \in 1 .. n - 1 : i \in 1 .. n /\ n \in 1 .. n
  OBVIOUS
<1>. QED BY <1>1 DEF EarlierAt

\* One more than the last time.
LEMMA OneMoreRepetition ==
  ASSUME NEW g, NEW n \in Nat, NEW j \in EarlierAt(g, n), \A i \in EarlierAt(g, n) : j >= i
  PROVE  Cardinality(EarlierAt(g, n)) = 1 + Cardinality(EarlierAt(g, j))
<1>1. j \in 1 .. n - 1 /\ g[j] = g[n] /\ j \in Nat
  BY DEF EarlierAt
<1>2. EarlierAt(g, n) = EarlierAt(g, j) \cup {j}
  <2>1. \A i \in EarlierAt(g, n) : i = j \/ i \in EarlierAt(g, j)
    <3>. SUFFICES ASSUME NEW i \in EarlierAt(g, n), i # j PROVE i \in EarlierAt(g, j)
      OBVIOUS
    <3>1. i \in 1 .. n - 1 /\ g[i] = g[n] /\ j >= i
      BY DEF EarlierAt
    <3>. QED BY <1>1, <3>1 DEF EarlierAt
  <2>2. \A i \in EarlierAt(g, j) : i \in EarlierAt(g, n)
    BY <1>1 DEF EarlierAt
  <2>. QED BY <2>1, <2>2
<1>3. j \notin EarlierAt(g, j)
  BY <1>1 DEF EarlierAt
<1>4. IsFiniteSet(EarlierAt(g, j)) /\ Cardinality(EarlierAt(g, j)) \in Nat
  BY <1>1, EarlierIs
<1>. DEFINE E == EarlierAt(g, j)
<1>. HIDE DEF E
<1>5. IsFiniteSet(E) /\ j \notin E /\ Cardinality(E) \in Nat
  BY <1>3, <1>4 DEF E
<1>6. Cardinality(E \cup {j}) = Cardinality(E) + 1
  BY <1>5, FS_AddElement
<1>. QED BY <1>2, <1>5, <1>6 DEF E

LEMMA ResetCounts ==
  ASSUME NEW at \in AnAt
  PROVE  Legal(<<at.pos>>) /\ Counts(Reset(at), <<at.pos>>) /\ Noted(Reset(at), <<at.pos>>)
<1>. DEFINE g == <<at.pos>>
            h == Reset(at)
<1>1. h.entries = <<>> /\ h.last.repetitions = 0 /\ h.last.since = Never
  BY DEF Reset
<1>2. Len(g) = 1
  OBVIOUS
<1>. HIDE DEF g, h
<1>3. EarlierAt(g, 1) = {}
  BY DEF EarlierAt
<1>4. Cardinality({}) = 0
  BY FS_EmptySet
<1>5. Legal(g)
  BY <1>2 DEF Legal
<1>6. Counts(h, g)
  <2>1. CountedAt(h.last, g, Len(g))
    BY <1>1, <1>2, <1>3, <1>4 DEF CountedAt
  <2>. QED BY <1>1, <2>1 DEF Counts
<1>7. Noted(h, g)
  BY <1>1, <1>2, <1>3 DEF Noted
<1>. QED BY <1>5, <1>6, <1>7 DEF g, h

LEMMA OddBefore == ASSUME NEW k \in Nat, Even(k + 1) PROVE k % 2 = 1
BY DEF Even

LEMMA OddsApart == ASSUME NEW x \in Nat, NEW y \in Nat, x % 2 = 1, y % 2 = 1, y < x
                   PROVE  x - y >= 2
OBVIOUS

\* The walk back of ComputeLastMoveRepetitions over n entries that are the last n
\* positions of f before its last one finds the latest earlier occurrence.
LEMMA WalkBack ==
  ASSUME NEW f \in Line, Legal(f), NEW r \in Nat, NEW entries \in Seq(AnEntry), NEW gone \in Nat,
         Len(f) = gone + Len(entries) + 1,
         gone > 0 => Len(entries) + 1 > KeepCount,
         \A i \in 1 .. Len(entries) : KnownAt(entries[i], f, gone + i, r),
         \A i \in 1 .. Len(entries) : CountedAt(entries[i], f, gone + i),
         Clock(r, f, Len(f)) < Rule50
  PROVE  LET E == EarlierAt(f, Len(f))
             found == Repetitions(entries, f[Len(f)], Clock(r, f, Len(f)))
         IN  /\ found.count = Cardinality(E)
             /\ found.plies = IF E = {} THEN Never ELSE Len(f) - Max(E)
<1>. DEFINE L == Len(f)
            n == Len(entries)
            m == f[L]
            E == EarlierAt(f, L)
            stops == Stops(entries, m)
            clock == Clock(r, f, L)
            found == Repetitions(entries, m, clock)
<1>1. n \in Nat /\ L \in Nat /\ L = gone + n + 1 /\ L \in 1 .. L /\ L \in 1 .. Len(f)
  BY DEF Line
<1>2. clock \in Nat
  BY <1>1, ClockStep
<1>3. found = IF clock < 4 \/ stops = {} \/ entries[Max(stops)].pos # m
              THEN [count |-> 0, plies |-> Never]
              ELSE [count |-> 1 + entries[Max(stops)].repetitions, plies |-> n + 1 - Max(stops)]
  BY DEF Repetitions
<1>4. stops \in SUBSET (1 .. n) /\ (stops # {} => Max(stops) \in stops)
  BY <1>1, StopsAre
<1>5. \A k \in stops : /\ k \in 1 .. n - 3 /\ k \in 1 .. n
                       /\ (n - k) % 2 = 1 /\ (entries[k].pos = m \/ entries[k].rule50 < 2)
  BY <1>1 DEF Stops
<1>6. \A k \in 1 .. n - 3 :
        (n - k) % 2 = 1 /\ (entries[k].pos = m \/ entries[k].rule50 < 2) => k \in stops
  BY DEF Stops
<1>7. \A k \in 1 .. n : entries[k].pos = f[gone + k] /\ entries[k].rule50 = Clock(r, f, gone + k)
  BY DEF KnownAt
<1>8. E \in SUBSET (1 .. L) /\ \A i : i \in E <=> i \in 1 .. L - 1 /\ f[i] = m
  BY <1>1, EarlierIs DEF EarlierAt
<1>9. \A i \in E : /\ i \in 1 .. Len(f) /\ i < L /\ Even(L - i) /\ L - i >= 4
                   /\ clock = Clock(r, f, i) + (L - i) /\ Clock(r, f, i) \in Nat
                   /\ \A z \in ZeroedBy(f, L) : z <= i
  BY <1>1, ComesBack
<1>. HIDE DEF L, n, m, E, stops, clock, found
<1>10. ASSUME E = {}
       PROVE  found.count = Cardinality(E) /\ found.plies = Never
  <2>1. \A k \in 1 .. n : entries[k].pos # m
    <3>. SUFFICES ASSUME NEW k \in 1 .. n, entries[k].pos = m PROVE FALSE
      OBVIOUS
    <3>1. gone + k \in 1 .. L - 1
      BY <1>1
    <3>2. gone + k \in E
      BY <1>7, <1>8, <3>1
    <3>. QED BY <1>10, <3>2
  <2>2. found = [count |-> 0, plies |-> Never]
    BY <1>3, <1>4, <2>1
  <2>3. Cardinality({}) = 0
    BY FS_EmptySet
  <2>. QED BY <1>10, <2>2, <2>3
<1>11. ASSUME E # {}
       PROVE  found.count = Cardinality(E) /\ found.plies = L - Max(E)
  <2>. DEFINE j == Max(E)
              i == j - gone
  <2>1. j \in E /\ \A k \in E : j >= k
    BY <1>1, <1>8, <1>11, MaxIs
  <2>. HIDE DEF j
  <2>2. j \in 1 .. Len(f) /\ j < L /\ Even(L - j) /\ L - j >= 4
        /\ clock = Clock(r, f, j) + (L - j) /\ Clock(r, f, j) \in Nat /\ f[j] = m
    BY <1>8, <1>9, <2>1
  <2>3. clock < Rule50
    BY DEF clock, L
  <2>4. j > gone
    <3>1. L - j <= clock /\ j \in Nat
      BY <1>1, <1>2, <2>2
    <3>2. CASE gone = 0
      BY <2>2, <3>2
    <3>3. CASE gone > 0
      <4>1. n + 1 > KeepCount
        BY <3>3 DEF n
      <4>. QED BY <1>1, <1>2, <2>3, <3>1, <4>1, Sizes
    <3>. QED BY <3>2, <3>3
  <2>5. i \in 1 .. n - 3 /\ i \in 1 .. n /\ gone + i = j /\ L - j = n + 1 - i /\ n - i \in Nat
    BY <1>1, <2>2, <2>4
  <2>. HIDE DEF i
  <2>6. (n - i) % 2 = 1
    <3>1. Even((n - i) + 1)
      <4>1. L - j = (n - i) + 1
        BY <1>1, <2>5
      <4>. QED BY <2>2, <4>1
    <3>. QED BY <2>5, <3>1, OddBefore
  <2>7. entries[i].pos = m
    BY <1>7, <2>2, <2>5
  <2>8. i \in stops
    BY <1>6, <2>5, <2>6, <2>7
  <2>9. \A k \in stops : i >= k
    <3>. SUFFICES ASSUME NEW k \in stops, ~ (i >= k) PROVE FALSE
      OBVIOUS
    <3>1. k \in 1 .. n - 3 /\ k \in 1 .. n /\ (n - k) % 2 = 1
          /\ (entries[k].pos = m \/ entries[k].rule50 < 2)
      BY <1>5
    <3>2. k > i /\ gone + k \in 1 .. L - 1 /\ gone + k > j
      BY <1>1, <2>5, <3>1
    <3>3. CASE entries[k].pos = m
      <4>1. gone + k \in E
        BY <1>7, <1>8, <3>1, <3>2, <3>3
      <4>2. j >= gone + k
        BY <2>1, <4>1
      <4>. QED BY <1>1, <2>2, <3>1, <3>2, <4>2
    <3>4. CASE entries[k].rule50 < 2
      <4>. DEFINE a == gone + k
      <4>1. a \in j .. Len(f) /\ a \in Nat /\ a > j /\ a < L
        BY <1>1, <2>2, <3>1, <3>2 DEF L
      <4>2. Clock(r, f, a) < 2
        BY <1>7, <3>1, <3>4
      <4>3. a - j >= 2
        <5>1. n - k \in Nat /\ n - i \in Nat /\ n - k < n - i
          BY <1>1, <2>5, <3>1, <3>2
        <5>2. (n - i) - (n - k) >= 2
          BY <2>6, <3>1, <5>1, OddsApart
        <5>. QED BY <1>1, <2>5, <3>1, <5>2
      <4>. HIDE DEF a
      <4>4. \A z \in ZeroedBy(f, a) : z <= j
        <5>1. \A z \in ZeroedBy(f, a) : z \in ZeroedBy(f, L)
          BY <1>1, <4>1 DEF ZeroedBy
        <5>. QED BY <1>9, <2>1, <5>1
      <4>5. Clock(r, f, a) = Clock(r, f, j) + (a - j)
        BY <2>2, <4>1, <4>4, ClockRan
      <4>. QED BY <2>2, <4>1, <4>2, <4>3, <4>5
    <3>. QED BY <3>1, <3>3, <3>4
  <2>10. Max(stops) = i
    BY <1>1, <1>4, <2>8, <2>9, MaxIsThe
  <2>11. clock >= 4 /\ ~ (clock < 4)
    BY <1>1, <1>2, <2>2
  <2>12. found = [count |-> 1 + entries[i].repetitions, plies |-> n + 1 - i]
    BY <1>3, <2>7, <2>8, <2>10, <2>11
  <2>13. entries[i].repetitions = Cardinality(EarlierAt(f, j))
    <3>1. CountedAt(entries[i], f, j)
      BY <2>5 DEF n
    <3>2. entries[i].rule50 = Clock(r, f, j)
      BY <1>7, <2>5
    <3>3. Clock(r, f, j) < Rule50
      BY <1>1, <1>2, <2>2, <2>3, Sizes
    <3>. QED BY <3>1, <3>2, <3>3 DEF CountedAt
  <2>14. Cardinality(E) = 1 + Cardinality(EarlierAt(f, j))
    <3>1. j \in EarlierAt(f, L) /\ \A k \in EarlierAt(f, L) : j >= k
      BY <2>1 DEF E
    <3>. QED BY <1>1, <3>1, OneMoreRepetition DEF E
  <2>15. found.plies = L - Max(E)
    BY <2>5, <2>12 DEF j
  <2>. QED BY <2>12, <2>13, <2>14, <2>15
<1>12. found.count = Cardinality(E) /\ found.plies = IF E = {} THEN Never ELSE L - Max(E)
  BY <1>10, <1>11
<1>. QED BY <1>12 DEF E, L, found, m, clock

LEMMA AppendIs ==
  ASSUME NEW h \in AHistory, NEW m, Len(h.entries) < Capacity
  PROVE  LET a == AppendMove(h, m)
             found == Repetitions(a.entries, a.last.pos, a.last.rule50)
             n == Len(h.entries) + 1
         IN  /\ a.last.pos = m
             /\ a.last.repetitions = found.count /\ a.last.since = found.plies
             /\ \A i \in 1 .. Len(h.entries) : a.entries[i] = h.entries[i]
             /\ a.entries[n].rule50 = h.last.rule50
             /\ a.entries[n].repetitions = h.last.repetitions
<1>. DEFINE a == AppendMove(h, m)
            rule50 == Rule50After(h.last, m)
            entry == [pos |-> h.last.pos, rule50 |-> h.last.rule50,
                      repetitions |-> h.last.repetitions, move |-> m]
            entries == Append(h.entries, entry)
            found == Repetitions(entries, m, rule50)
<1>1. h.entries \in Seq(AnEntry) /\ h = [starting |-> h.starting, entries |-> h.entries, last |-> h.last]
  BY DEF AHistory
<1>2. a = [h EXCEPT !.entries = entries,
                    !.last = [pos |-> m, rule50 |-> rule50,
                              repetitions |-> found.count, since |-> found.plies]]
  BY DEF AppendMove
<1>3. \A i \in 1 .. Len(h.entries) : entries[i] = h.entries[i]
  <2>. HIDE DEF entry
  <2>. QED BY <1>1
<1>4. entries[Len(h.entries) + 1] = entry
  <2>. HIDE DEF entry
  <2>. QED BY <1>1
<1>5. entry.rule50 = h.last.rule50 /\ entry.repetitions = h.last.repetitions
  OBVIOUS
<1>. HIDE DEF a, rule50, entry, entries, found
<1>6. a.entries = entries /\ a.last.pos = m /\ a.last.rule50 = rule50
      /\ a.last.repetitions = found.count /\ a.last.since = found.plies
  BY <1>1, <1>2
<1>7. found = Repetitions(a.entries, a.last.pos, a.last.rule50)
  BY <1>6 DEF found
<1>. QED BY <1>3, <1>4, <1>5, <1>6, <1>7 DEF a

LEMMA AppendCounts ==
  ASSUME NEW h, NEW g, NEW r \in Nat, NEW m \in MovesOf[h.last.pos], Holds(h, g, r),
         Legal(g), Counts(h, g), Len(h.entries) < Capacity
  PROVE  /\ m \in Positions
         /\ Legal(Append(g, m)) /\ Counts(AppendMove(h, m), Append(g, m))
         /\ Noted(AppendMove(h, m), Append(g, m))
<1>. DEFINE a == AppendMove(h, m)
            f == Append(g, m)
            gone == Gone(h, g)
<1>1. h \in AHistory /\ g \in Line /\ gone \in Nat /\ Len(g) = gone + Len(h.entries) + 1
      /\ h.last.pos = g[Len(g)]
  BY DEF Holds, Gone, GetLength, AHistory, Line, KnownAt
<1>2. h.entries \in Seq(AnEntry) /\ Len(h.entries) \in Nat /\ h.last \in ALast
  BY <1>1 DEF AHistory
<1>3. m \in Positions
  <2>1. h.last.pos \in Positions
    BY <1>2 DEF ALast
  <2>. QED BY <2>1, HistoryAssumption
<1>4. f \in Line /\ Len(f) = Len(g) + 1 /\ f[Len(g) + 1] = m /\ \A i \in 1 .. Len(g) : f[i] = g[i]
  BY <1>1, <1>3, Longer
<1>5. Holds(a, f, r) /\ Len(a.entries) = Len(h.entries) + 1 /\ Gone(a, f) = gone
  BY <1>3, AppendHolds
<1>6. a.last.pos = m
      /\ a.last.repetitions = Repetitions(a.entries, a.last.pos, a.last.rule50).count
      /\ a.last.since = Repetitions(a.entries, a.last.pos, a.last.rule50).plies
      /\ (\A i \in 1 .. Len(h.entries) : a.entries[i] = h.entries[i])
      /\ a.entries[Len(h.entries) + 1].rule50 = h.last.rule50
      /\ a.entries[Len(h.entries) + 1].repetitions = h.last.repetitions
  BY <1>1, AppendIs
<1>. HIDE DEF a, f, gone
<1>7. Legal(f)
  <2>. SUFFICES ASSUME NEW i \in 2 .. Len(f) PROVE f[i] \in MovesOf[f[i - 1]]
    BY DEF Legal
  <2>1. CASE i = Len(f)
    <3>1. i - 1 = Len(g) /\ i = Len(g) + 1 /\ Len(g) \in 1 .. Len(g)
      BY <1>1, <1>2, <1>4, <2>1
    <3>2. f[i] = m /\ f[i - 1] = h.last.pos
      BY <1>1, <1>4, <3>1
    <3>. QED BY <3>2
  <2>2. CASE i # Len(f)
    <3>1. i \in 2 .. Len(g) /\ i \in 1 .. Len(g) /\ i - 1 \in 1 .. Len(g)
      BY <1>1, <1>2, <1>4, <2>2
    <3>. QED BY <1>4, <3>1 DEF Legal
  <2>. QED BY <2>1, <2>2
<1>8. \A i \in 1 .. Len(g) : EarlierAt(f, i) = EarlierAt(g, i)
  <2>. SUFFICES ASSUME NEW i \in 1 .. Len(g) PROVE EarlierAt(f, i) = EarlierAt(g, i)
    OBVIOUS
  <2>1. i \in Nat /\ \A j \in 1 .. i : f[j] = g[j]
    BY <1>1, <1>2, <1>4
  <2>. QED BY <2>1, SameEarlier
<1>9. \A i \in 1 .. Len(a.entries) : CountedAt(a.entries[i], f, gone + i)
  <2>. SUFFICES ASSUME NEW i \in 1 .. Len(a.entries) PROVE CountedAt(a.entries[i], f, gone + i)
    OBVIOUS
  <2>1. gone + i \in 1 .. Len(g)
    BY <1>1, <1>2, <1>5
  <2>2. CASE i = Len(h.entries) + 1
    <3>1. gone + i = Len(g)
      BY <1>1, <1>2, <2>2
    <3>2. CountedAt(h.last, g, Len(g))
      BY DEF Counts
    <3>. QED BY <1>6, <1>8, <2>1, <2>2, <3>1, <3>2 DEF CountedAt
  <2>3. CASE i # Len(h.entries) + 1
    <3>1. i \in 1 .. Len(h.entries)
      BY <1>1, <1>2, <1>5, <2>3
    <3>2. CountedAt(h.entries[i], g, gone + i)
      BY <3>1 DEF Counts, gone
    <3>. QED BY <1>6, <1>8, <2>1, <3>1, <3>2 DEF CountedAt
  <2>. QED BY <2>2, <2>3
<1>10. a.entries \in Seq(AnEntry) /\ a.last.pos = f[Len(f)] /\ a.last.rule50 = Clock(r, f, Len(f))
       /\ (gone > 0 => Len(a.entries) + 1 > KeepCount)
       /\ \A i \in 1 .. Len(a.entries) : KnownAt(a.entries[i], f, gone + i, r)
  <2>1. a \in AHistory
    BY <1>5 DEF Holds
  <2>2. a.entries \in Seq(AnEntry)
    BY <2>1 DEF AHistory
  <2>. QED BY <1>5, <2>2 DEF Holds, KnownAt, Entered, GetLength
<1>11. ASSUME a.last.rule50 < Rule50
       PROVE  /\ a.last.repetitions = Cardinality(EarlierAt(f, Len(f)))
              /\ a.last.since = IF EarlierAt(f, Len(f)) = {} THEN Never
                                ELSE Len(f) - Max(EarlierAt(f, Len(f)))
  <2>. DEFINE found == Repetitions(a.entries, f[Len(f)], Clock(r, f, Len(f)))
  <2>1. gone \in Nat /\ Len(f) = gone + Len(a.entries) + 1
    BY <1>1, <1>2, <1>4, <1>5
  <2>2. Clock(r, f, Len(f)) < Rule50
    BY <1>10, <1>11
  <2>3. /\ found.count = Cardinality(EarlierAt(f, Len(f)))
        /\ found.plies = IF EarlierAt(f, Len(f)) = {} THEN Never
                         ELSE Len(f) - Max(EarlierAt(f, Len(f)))
    BY <1>4, <1>7, <1>9, <1>10, <2>1, <2>2, WalkBack
  <2>4. a.last.repetitions = found.count /\ a.last.since = found.plies
    BY <1>6, <1>10
  <2>. HIDE DEF found
  <2>. QED BY <2>3, <2>4
<1>12. Counts(a, f) /\ Noted(a, f)
  BY <1>5, <1>9, <1>11 DEF Counts, CountedAt, Noted
<1>. QED BY <1>3, <1>7, <1>12 DEF a, f

LEMMA PopToCounts ==
  ASSUME NEW h, NEW g, NEW r \in Nat, NEW n \in 0 .. Len(h.entries), NEW f \in Line,
         Holds(h, g, r), Counts(h, g), Len(f) = Gone(h, g) + n + 1,
         \A i \in 1 .. Len(f) : f[i] = g[i],
         Gone(PopTo(h, n), f) = Gone(h, g)
  PROVE  Counts(PopTo(h, n), f)
<1>. DEFINE p == PopTo(h, n)
            gone == Gone(h, g)
<1>1. h \in AHistory /\ g \in Line /\ gone \in Nat /\ Len(g) = gone + Len(h.entries) + 1
  BY DEF Holds, Gone, GetLength, AHistory, Line
<1>2. Len(h.entries) \in Nat /\ n \in Nat /\ n <= Len(h.entries)
  BY <1>1 DEF AHistory
<1>3. Len(p.entries) = n /\ \A i \in 1 .. n : p.entries[i] = h.entries[i]
  BY <1>1, PopToIs
<1>4. \A i \in 1 .. Len(f) : EarlierAt(f, i) = EarlierAt(g, i)
  <2>. SUFFICES ASSUME NEW i \in 1 .. Len(f) PROVE EarlierAt(f, i) = EarlierAt(g, i)
    OBVIOUS
  <2>1. i \in Nat /\ \A j \in 1 .. i : f[j] = g[j]
    BY <1>1, <1>2
  <2>. QED BY <2>1, SameEarlier
<1>5. \A i \in 1 .. Len(h.entries) : CountedAt(h.entries[i], g, gone + i)
  BY DEF Counts
<1>6. \A i \in 1 .. n : gone + i \in 1 .. Len(f) /\ i \in 1 .. Len(h.entries)
  BY <1>1, <1>2, SMTT(30)
<1>7. CountedAt(p.last, f, Len(f))
  <2>0. Len(f) \in 1 .. Len(f)
    BY <1>1, <1>2
  <2>1. CASE n = Len(h.entries)
    <3>1. p = h /\ Len(f) = Len(g)
      BY <1>1, <2>1 DEF PopTo
    <3>2. CountedAt(h.last, g, Len(g))
      BY DEF Counts
    <3>. HIDE DEF p
    <3>. QED BY <1>4, <2>0, <3>1, <3>2 DEF CountedAt
  <2>2. CASE n # Len(h.entries)
    <3>1. n + 1 \in 1 .. Len(h.entries) /\ gone + (n + 1) = Len(f) /\ n < Len(h.entries)
      BY <1>1, <1>2, <2>2
    <3>2. p.last.rule50 = h.entries[n + 1].rule50
          /\ p.last.repetitions = h.entries[n + 1].repetitions
      BY <1>1, <3>1, PopToIs
    <3>3. CountedAt(h.entries[n + 1], g, Len(f))
      BY <1>5, <3>1
    <3>. HIDE DEF p
    <3>. QED BY <1>4, <2>0, <3>2, <3>3 DEF CountedAt
  <2>. QED BY <2>1, <2>2
<1>. HIDE DEF p, gone
<1>8. \A i \in 1 .. n : CountedAt(p.entries[i], f, gone + i)
  BY <1>3, <1>4, <1>5, <1>6 DEF CountedAt
<1>9. Gone(p, f) = gone
  BY DEF p, gone
<1>10. Counts(p, f)
  BY <1>3, <1>7, <1>8, <1>9 DEF Counts
<1>. QED BY <1>10 DEF p

LEMMA TrimHistoryCounts ==
  ASSUME NEW h, NEW g, NEW r \in Nat, Holds(h, g, r), KeepCount < Len(h.entries),
         Counts(h, g), Noted(h, g)
  PROVE  Counts(TrimHistory(h, KeepCount), g) /\ Noted(TrimHistory(h, KeepCount), g)
<1>. DEFINE t == TrimHistory(h, KeepCount)
            gone == Gone(h, g)
            discard == Len(h.entries) - KeepCount
<1>1. gone \in Nat /\ Len(g) = gone + Len(h.entries) + 1 /\ h \in AHistory
  BY DEF Holds, Gone, GetLength, AHistory, Line
<1>2. Len(h.entries) \in Nat /\ KeepCount \in Nat /\ discard \in Nat
  BY <1>1, Sizes DEF AHistory
<1>3. Len(t.entries) = KeepCount /\ t.last = h.last
      /\ \A i \in 1 .. KeepCount : /\ i + discard \in 1 .. Len(h.entries)
                                   /\ t.entries[i] = h.entries[i + discard]
  BY TrimHistoryHolds
<1>4. Gone(t, g) = gone + discard
  BY <1>1, <1>2, <1>3 DEF Gone, GetLength
<1>. HIDE DEF t, gone, discard
<1>5. \A i \in 1 .. Len(h.entries) : CountedAt(h.entries[i], g, gone + i)
  BY DEF Counts, gone
<1>6. \A i \in 1 .. KeepCount : gone + (i + discard) = gone + discard + i
  BY <1>1, <1>2
<1>7. \A i \in 1 .. KeepCount : CountedAt(t.entries[i], g, gone + discard + i)
  BY <1>3, <1>5, <1>6
<1>8. Counts(t, g) /\ Noted(t, g)
  BY <1>3, <1>4, <1>7 DEF Counts, Noted
<1>. QED BY <1>8 DEF t

-----------------------------------------------------------------------------
CountedPlayed == Legal(game) /\ Counts(played, game) /\ Noted(played, game)
CountedLine ==
  searching =>
    /\ Legal(game \o path) /\ Counts(line, game \o path)
    /\ fresh => Noted(line, game \o path)
CInv == HInv /\ CountedPlayed /\ CountedLine

LEMMA LegalPart ==
  ASSUME NEW g \in Line, NEW f \in Line, Legal(g), Len(f) <= Len(g),
         \A i \in 1 .. Len(f) : f[i] = g[i]
  PROVE  Legal(f)
<1>. SUFFICES ASSUME NEW i \in 2 .. Len(f) PROVE f[i] \in MovesOf[f[i - 1]]
  BY DEF Legal
<1>1. Len(f) \in Nat /\ Len(g) \in Nat
  BY DEF Line
<1>2. i \in 2 .. Len(g) /\ i \in 1 .. Len(f) /\ i - 1 \in 1 .. Len(f)
  BY <1>1
<1>. QED BY <1>2 DEF Legal

LEMMA InitCounts == ASSUME Init PROVE CInv
<1>1. start \in AnAt
  BY HistoryAssumption DEF Init, AnAt
<1>2. CountedPlayed
  BY <1>1, ResetCounts DEF Init, CountedPlayed
<1>3. CountedLine
  BY DEF Init, CountedLine
<1>. QED BY <1>2, <1>3, InitHolds DEF CInv

LEMMA MakeMoveCounts ==
  ASSUME CInv, NEW m \in Positions, MakeMove(m)
  PROVE  CountedPlayed' /\ CountedLine'
<1>. DEFINE h == AppendMove(played, m)
            t == TrimHistory(h, KeepCount)
<1>1. HInv /\ Played /\ CountedPlayed
  BY DEF CInv, HInv
<1>2. Len(played.entries) < Capacity /\ Holds(played, game, start.rule50)
      /\ start.rule50 \in Nat
  <2>1. Len(played.entries) < TrimAt /\ Holds(played, game, start.rule50)
    BY <1>1 DEF Played
  <2>. QED BY <1>1, <2>1, PlayedIs, Sizes
<1>3. m \in MovesOf[played.last.pos] /\ game' = Append(game, m)
  BY DEF MakeMove
<1>4. Holds(h, game', start.rule50)
  BY <1>2, <1>3, AppendHolds
<1>5. Legal(game') /\ Counts(h, game') /\ Noted(h, game')
  BY <1>1, <1>2, <1>3, AppendCounts DEF CountedPlayed
<1>6. played' = h \/ played' = t
  BY DEF MakeMove
<1>. HIDE DEF h
<1>7. Len(h.entries) \in Nat
  BY <1>4 DEF Holds, AHistory
<1>8. CountedPlayed'
  <2>1. CASE played' = h
    BY <1>5, <2>1 DEF CountedPlayed
  <2>2. CASE played' = t
    <3>1. CASE Len(h.entries) <= KeepCount
      <4>1. t = h
        BY <3>1 DEF TrimHistory
      <4>. QED BY <1>5, <2>2, <4>1 DEF CountedPlayed
    <3>2. CASE KeepCount < Len(h.entries)
      <4>1. Counts(t, game') /\ Noted(t, game')
        BY <1>2, <1>4, <1>5, <3>2, TrimHistoryCounts
      <4>. QED BY <1>5, <2>2, <4>1 DEF CountedPlayed
    <3>. QED BY <1>7, <3>1, <3>2, Sizes
  <2>. QED BY <1>6, <2>1, <2>2
<1>9. CountedLine'
  BY DEF MakeMove, CountedLine
<1>. QED BY <1>8, <1>9

LEMMA DescendCounts ==
  ASSUME CInv, NEW m \in Positions, Descend(m)
  PROVE  CountedPlayed' /\ CountedLine'
<1>1. HInv /\ Played /\ Searched /\ searching /\ CountedPlayed /\ CountedLine
  BY DEF CInv, HInv, Descend
<1>2. CountedPlayed'
  BY <1>1 DEF CountedPlayed, Descend
<1>. DEFINE g == game \o path
<1>3. Len(line.entries) < Capacity
  <2>1. Len(path) < MaxDepth
    BY DEF Descend
  <2>. QED BY <1>1, <2>1, SearchedIs, Sizes
<1>4. Holds(line, g, start.rule50) /\ Legal(g) /\ Counts(line, g) /\ start.rule50 \in Nat
  BY <1>1, PlayedIs DEF Searched, CountedLine
<1>5. line' = AppendMove(line, m) /\ path' = Append(path, m) /\ game' = game
      /\ m \in MovesOf[line.last.pos]
  BY DEF Descend
<1>6. Append(g, m) = game' \o path'
  BY <1>1, <1>5, PlayedIs, SearchedIs, JoinedOneMore
<1>. HIDE DEF g
<1>7. Legal(Append(g, m)) /\ Counts(AppendMove(line, m), Append(g, m))
      /\ Noted(AppendMove(line, m), Append(g, m))
  BY <1>3, <1>4, <1>5, AppendCounts
<1>8. CountedLine'
  BY <1>5, <1>6, <1>7 DEF CountedLine
<1>. QED BY <1>2, <1>8

LEMMA CutCounts ==
  ASSUME CInv, searching, NEW f \in Line, NEW k \in Nat, k <= Len(path), Len(f) = Len(game) + k,
         \A i \in 1 .. Len(game) + k : f[i] = (game \o path)[i]
  PROVE  Legal(f) /\ Counts(PopTo(line, Len(played.entries) + k), f)
<1>. DEFINE n == Len(played.entries) + k
            g == game \o path
<1>1. HInv /\ Played /\ Searched /\ CountedLine
  BY DEF CInv, HInv
<1>2. /\ n \in 0 .. Len(line.entries)
      /\ Gone(PopTo(line, n), f) = Gone(played, game)
  BY <1>1, LineCut
<1>3. Gone(line, g) = Gone(played, game) /\ g \in Line /\ Len(g) = Len(game) + Len(path)
      /\ Len(path) \in Nat
  BY <1>1, SearchedIs
<1>4. Len(f) = Gone(line, g) + n + 1
  <2>1. Len(played.entries) \in Nat /\ Gone(played, game) \in Nat
        /\ Len(game) = Gone(played, game) + Len(played.entries) + 1
    BY <1>1, PlayedIs
  <2>. HIDE DEF g
  <2>. QED BY <1>3, <2>1, SMTT(30)
<1>5. Holds(line, g, start.rule50) /\ Counts(line, g) /\ Legal(g) /\ start.rule50 \in Nat
  BY <1>1, PlayedIs DEF Searched, CountedLine
<1>6. \A i \in 1 .. Len(f) : f[i] = g[i]
  OBVIOUS
<1>7. Len(f) <= Len(g)
  <2>1. Len(game) \in Nat
    BY <1>1, PlayedIs
  <2>. HIDE DEF g
  <2>. QED BY <1>3, <2>1
<1>. HIDE DEF n, g
<1>8. Counts(PopTo(line, n), f)
  BY <1>2, <1>3, <1>4, <1>5, <1>6, PopToCounts
<1>9. Legal(f)
  BY <1>3, <1>5, <1>6, <1>7, LegalPart
<1>. QED BY <1>8, <1>9 DEF n

LEMMA ReturnCounts ==
  ASSUME CInv, Return
  PROVE  CountedPlayed' /\ CountedLine'
<1>1. HInv /\ Played /\ Searched /\ searching /\ CountedPlayed
  BY ReturnIs DEF CInv, HInv
<1>2. CountedPlayed'
  BY <1>1 DEF CountedPlayed, Return
<1>. DEFINE k == Len(path) - 1
            f == game \o path'
<1>3. f \in Line /\ Len(f) = Len(game) + k /\ k \in Nat /\ k <= Len(path)
      /\ \A i \in 1 .. Len(game) + k : f[i] = (game \o path)[i]
  <2>1. game \in Line /\ path' \in Line /\ Len(path') = k /\ k \in Nat /\ Len(path) \in Nat
    BY <1>1, ReturnIs, PlayedIs, SearchedIs
  <2>2. f \in Line /\ Len(f) = Len(game) + k
    BY <2>1, Joined
  <2>3. k <= Len(path)
    BY <2>1
  <2>4. \A i \in 1 .. Len(game) + k : f[i] = (game \o path)[i]
    BY <1>1, ReturnIs
  <2>. QED BY <2>1, <2>2, <2>3, <2>4
<1>4. line' = PopTo(line, Len(played.entries) + k) /\ game' = game /\ fresh' = FALSE
  BY <1>1, ReturnIs DEF Return
<1>. HIDE DEF k, f
<1>5. Legal(f) /\ Counts(line', f)
  BY <1>1, <1>3, <1>4, CutCounts
<1>6. CountedLine'
  BY <1>4, <1>5 DEF CountedLine, f
<1>. QED BY <1>2, <1>6

LEMMA ToRootCounts ==
  ASSUME CInv, ToRoot
  PROVE  CountedPlayed' /\ CountedLine'
<1>1. HInv /\ Played /\ Searched /\ searching /\ CountedPlayed
  BY ToRootIs DEF CInv, HInv
<1>2. CountedPlayed'
  BY <1>1 DEF CountedPlayed, ToRoot
<1>3. game' \o path' = game /\ fresh' = FALSE
  <2>1. game' = game /\ path' = <<>> /\ game \in Seq(Positions)
    BY <1>1, PlayedIs DEF ToRoot, Line
  <2>. QED BY <2>1 DEF ToRoot
<1>4. Len(game) = Len(game) + 0 /\ 0 <= Len(path)
      /\ \A i \in 1 .. Len(game) + 0 : game[i] = (game \o path)[i]
  BY <1>1, PlayedIs, SearchedIs, Joined
<1>5. Legal(game) /\ Counts(line', game)
  BY <1>1, <1>4, PlayedIs, ToRootIs, CutCounts
<1>6. CountedLine'
  BY <1>3, <1>5 DEF CountedLine
<1>. QED BY <1>2, <1>6

LEMMA StepCounts ==
  ASSUME CInv, [Next]_vars
  PROVE  CInv'
<1>1. HInv /\ Played /\ Searched /\ CountedPlayed /\ CountedLine
  BY DEF CInv, HInv
<1>2. HInv'
  BY <1>1, StepHolds
<1>3. ASSUME NEW m \in Positions, MakeMove(m) \/ Descend(m) PROVE CountedPlayed' /\ CountedLine'
  BY <1>3, MakeMoveCounts, DescendCounts
<1>4. ASSUME NEW at \in Starts, ResetToPosition(at) PROVE CountedPlayed' /\ CountedLine'
  <2>1. at \in AnAt
    BY HistoryAssumption DEF AnAt
  <2>2. played' = Reset(at) /\ game' = <<at.pos>>
    BY <1>4 DEF ResetToPosition
  <2>3. CountedPlayed'
    BY <2>1, <2>2, ResetCounts DEF CountedPlayed
  <2>4. CountedLine'
    BY <1>4 DEF CountedLine, ResetToPosition
  <2>. QED BY <2>3, <2>4
<1>5. ASSUME StartSearch PROVE CountedPlayed' /\ CountedLine'
  <2>1. CountedPlayed'
    BY <1>1, <1>5 DEF CountedPlayed, StartSearch
  <2>2. path = <<>> /\ path' = path /\ line' = played /\ game' = game /\ fresh' = FALSE
    BY <1>1, <1>5 DEF StartSearch, Searched
  <2>3. game' \o path' = game
    BY <1>1, <2>2, PlayedIs DEF Line
  <2>4. CountedLine'
    BY <1>1, <2>2, <2>3 DEF CountedLine, CountedPlayed
  <2>. QED BY <2>1, <2>4
<1>6. ASSUME EndSearch PROVE CountedPlayed' /\ CountedLine'
  <2>1. CountedPlayed'
    BY <1>1, <1>6 DEF CountedPlayed, EndSearch
  <2>2. CountedLine'
    BY <1>6 DEF CountedLine, EndSearch
  <2>. QED BY <2>1, <2>2
<1>7. ASSUME UNCHANGED vars PROVE CountedPlayed' /\ CountedLine'
  BY <1>1, <1>7 DEF CountedPlayed, CountedLine, vars
<1>8. CountedPlayed' /\ CountedLine'
  BY <1>3, <1>4, <1>5, <1>6, <1>7, ToRootCounts, ReturnCounts DEF Next
<1>. QED BY <1>2, <1>8 DEF CInv

\* For all rules that a position comes back under as RulesAssumption has it, and
\* for all games and lines, trimmed or not: the repetitions that a history of at
\* most KeepCount positions, or a line taken back, can count are those of the whole
\* game (ComputeLastMoveRepetitions, UndoMove, TrimHistory).
THEOREM CountsOfTheGame == Spec => []RepetitionsCounted
<1>1. CInv => RepetitionsCounted
  <2>. SUFFICES ASSUME CInv, NEW hg \in Histories,
                       hg[1].last.rule50 < Rule50
                PROVE  /\ hg[1].last.repetitions = Cardinality(Earlier(hg[2]))
                       /\ (hg[1] = line => fresh) =>
                            hg[1].last.since = IF Earlier(hg[2]) = {} THEN Never
                                               ELSE Len(hg[2]) - Max(Earlier(hg[2]))
    BY DEF RepetitionsCounted
  <2>. DEFINE h == hg[1]
              g == hg[2]
  <2>1. Earlier(g) = EarlierAt(g, Len(g))
    BY DEF Earlier, EarlierAt
  <2>2. Counts(h, g) /\ ((h = line => fresh) => Noted(h, g))
    <3>1. CountedPlayed /\ CountedLine
      BY DEF CInv
    <3>2. hg = <<played, game>> \/ (searching /\ hg = <<line, game \o path>>)
      BY DEF Histories
    <3>3. CASE hg = <<played, game>>
      BY <3>1, <3>3 DEF CountedPlayed
    <3>4. CASE searching /\ hg = <<line, game \o path>>
      <4>. DEFINE f == game \o path
      <4>1. Counts(line, f) /\ (fresh => Noted(line, f)) /\ hg = <<line, f>>
        BY <3>1, <3>4 DEF CountedLine
      <4>. HIDE DEF f
      <4>. QED BY <4>1
    <3>. QED BY <3>2, <3>3, <3>4
  <2>. QED BY <2>1, <2>2 DEF Counts, CountedAt, Noted
<1>. QED BY <1>1, InitCounts, StepCounts, PTL DEF Spec

-----------------------------------------------------------------------------
(* Results.                                                                *)

\* What is known of the last position of a game.
Verdict(h, g) ==
  /\ g[Len(g)] \in Positions /\ h.last.pos = g[Len(g)]
  /\ h.last.rule50 = TrueRule50(g) /\ h.last.rule50 \in Nat /\ h.last.repetitions \in Nat
  /\ h.last.rule50 < Rule50 => h.last.repetitions = Cardinality(Earlier(g))
  /\ Cardinality(Earlier(g)) >= 2 => MovesOf[g[Len(g)]] # {}

LEMMA VerdictIs ==
  ASSUME NEW h, NEW g, Holds(h, g, start.rule50), start.rule50 \in Nat, Counts(h, g), Legal(g)
  PROVE  Verdict(h, g)
<1>1. h \in AHistory /\ g \in Line /\ Gone(h, g) \in Nat /\ Len(g) = Gone(h, g) + Len(h.entries) + 1
      /\ KnownAt(h.last, g, Len(g), start.rule50)
  BY DEF Holds, Gone, GetLength, AHistory, Line
<1>2. h.last \in ALast /\ Len(h.entries) \in Nat
  BY <1>1 DEF AHistory
<1>3. Len(g) \in 1 .. Len(g) /\ Len(g) \in Nat
  BY <1>1, <1>2
<1>4. TrueRule50(g) = Clock(start.rule50, g, Len(g))
  <2>1. TrueRule50(SubSeq(g, 1, Len(g))) = Clock(start.rule50, g, Len(g))
    BY <1>1, <1>3, TrueIsClock
  <2>2. SubSeq(g, 1, Len(g)) = g
    BY <1>1 DEF Line
  <2>. QED BY <2>1, <2>2
<1>5. Earlier(g) = EarlierAt(g, Len(g))
  BY DEF Earlier, EarlierAt
<1>6. ASSUME Cardinality(Earlier(g)) >= 2
      PROVE  MovesOf[g[Len(g)]] # {}
  <2>1. EarlierAt(g, Len(g)) # {}
    <3>1. Cardinality({}) = 0
      BY FS_EmptySet
    <3>. QED BY <1>5, <1>6, <3>1, SMTT(30)
  <2>2. PICK i \in EarlierAt(g, Len(g)) : TRUE
    BY <2>1
  <2>3. i \in 1 .. Len(g) - 1 /\ g[i] = g[Len(g)]
    BY <2>2 DEF EarlierAt
  <2>. DEFINE j == i + 1
  <2>4. j \in 2 .. Len(g) /\ j - 1 = i
    BY <1>3, <2>3
  <2>. HIDE DEF j
  <2>5. g[j] \in MovesOf[g[j - 1]]
    BY <2>4 DEF Legal
  <2>. QED BY <2>3, <2>4, <2>5
<1>7. g[Len(g)] \in Positions
  BY <1>1, <1>3 DEF Line
<1>8. CountedAt(h.last, g, Len(g))
  BY DEF Counts
<1>. QED BY <1>1, <1>2, <1>4, <1>5, <1>6, <1>7, <1>8 DEF Verdict, KnownAt, CountedAt, ALast

Winner(pos) == IF WonBy[pos] = "white" THEN "white_won" ELSE "black_won"
Loser(pos) == IF pos \in BlackToMove THEN "white_won" ELSE "black_won"

\* The rules applied to a whole game, as it is played out.
LEMMA TrueResultIs ==
  ASSUME NEW g, NEW pos, pos = g[Len(g)], NEW clock \in Nat, clock = TrueRule50(g),
         Cardinality(Earlier(g)) \in Nat
  PROVE  /\ WonBy[pos] # "nobody" => TrueResult(g) = Winner(pos)
         /\ WonBy[pos] = "nobody" /\ MovesOf[pos] = {} /\ pos \in UnderCheck =>
              TrueResult(g) = Loser(pos)
         /\ WonBy[pos] = "nobody" /\ ~ (MovesOf[pos] = {} /\ pos \in UnderCheck)
            /\ (clock >= Rule50 \/ Cardinality(Earlier(g)) >= 2) =>
              TrueResult(g) = "draw"
         /\ WonBy[pos] = "nobody" /\ ~ (MovesOf[pos] = {} /\ pos \in UnderCheck)
            /\ ~ (clock >= Rule50 \/ Cardinality(Earlier(g)) >= 2) =>
              TrueResult(g) = IF MovesOf[pos] = {} THEN Loser(pos) ELSE "undecided"
  BY DEF TrueResult, Winner, Loser

LEMMA SameGameResult ==
  ASSUME NEW h, NEW g, Verdict(h, g), Cardinality(Earlier(g)) \in Nat
  PROVE  ComputeGameResult(h) = TrueResult(g)
<1>. DEFINE pos == h.last.pos
            clock == h.last.rule50
<1>1. pos = g[Len(g)] /\ clock = TrueRule50(g) /\ clock \in Nat /\ pos \in Positions
      /\ (clock < Rule50 => h.last.repetitions = Cardinality(Earlier(g)))
      /\ (Cardinality(Earlier(g)) >= 2 => MovesOf[pos] # {})
  BY DEF Verdict
<1>2. WonBy[pos] \in {"white", "black", "nobody"}
  BY <1>1, HistoryAssumption
<1>3. clock < Rule50 <=> ~ (clock >= Rule50)
  BY <1>1, Sizes
<1>. HIDE DEF pos, clock
<1>4. CASE WonBy[pos] # "nobody"
  <2>1. ComputeGameResult(h) = Winner(pos)
    BY <1>2, <1>4 DEF ComputeGameResult, Winner, pos
  <2>. QED BY <1>1, <1>4, <2>1, TrueResultIs
<1>5. CASE WonBy[pos] = "nobody"
  <2>1. ComputeGameResult(h) =
          IF clock >= Rule50
          THEN IF pos \in UnderCheck /\ MovesOf[pos] = {} THEN Loser(pos) ELSE "draw"
          ELSE IF h.last.repetitions >= 2 THEN "draw"
          ELSE IF MovesOf[pos] = {} THEN Loser(pos) ELSE "undecided"
    BY <1>5 DEF ComputeGameResult, NoMoves, MoverLost, BlackMoves, Loser, pos, clock
  <2>2. CASE MovesOf[pos] = {} /\ pos \in UnderCheck
    <3>1. TrueResult(g) = Loser(pos)
      BY <1>1, <1>5, <2>2, TrueResultIs
    <3>2. clock >= Rule50 \/ ~ (h.last.repetitions >= 2)
      BY <1>1, <1>3, <2>2
    <3>. QED BY <2>1, <2>2, <3>1, <3>2
  <2>3. CASE ~ (MovesOf[pos] = {} /\ pos \in UnderCheck)
    <3>1. CASE clock >= Rule50 \/ Cardinality(Earlier(g)) >= 2
      <4>1. TrueResult(g) = "draw"
        BY <1>1, <1>5, <2>3, <3>1, TrueResultIs
      <4>2. clock >= Rule50 \/ h.last.repetitions >= 2
        BY <1>1, <1>3, <3>1
      <4>. QED BY <2>1, <2>3, <4>1, <4>2
    <3>2. CASE ~ (clock >= Rule50 \/ Cardinality(Earlier(g)) >= 2)
      <4>1. TrueResult(g) = IF MovesOf[pos] = {} THEN Loser(pos) ELSE "undecided"
        BY <1>1, <1>5, <2>3, <3>2, TrueResultIs
      <4>2. ~ (clock >= Rule50) /\ ~ (h.last.repetitions >= 2)
        BY <1>1, <1>3, <3>2
      <4>. QED BY <2>1, <4>1, <4>2
    <3>. QED BY <3>1, <3>2
  <2>. QED BY <2>2, <2>3
<1>. QED BY <1>4, <1>5

Absolute(h, verdict) ==
  CASE verdict = "white_won" -> MoverLost(h)
    [] verdict = "black_won" -> IF BlackMoves(h) THEN "black_won" ELSE "white_won"
    [] OTHER -> verdict

LEMMA SameVerdict ==
  ASSUME NEW h, NEW g, Verdict(h, g), Cardinality(Earlier(g)) \in Nat
  PROVE  Absolute(h, TerminalVerdict(h)) = TrueResult(g)
<1>. DEFINE pos == h.last.pos
            clock == h.last.rule50
            tv == TerminalVerdict(h)
<1>1. pos = g[Len(g)] /\ clock = TrueRule50(g) /\ clock \in Nat /\ pos \in Positions
      /\ (clock < Rule50 => h.last.repetitions = Cardinality(Earlier(g)))
      /\ (Cardinality(Earlier(g)) >= 2 => MovesOf[pos] # {})
  BY DEF Verdict
<1>2. WonBy[pos] \in {"white", "black", "nobody"}
  BY <1>1, HistoryAssumption
<1>3. clock < Rule50 <=> ~ (clock >= Rule50)
  BY <1>1, Sizes
<1>. HIDE DEF pos, clock, tv
<1>a. /\ tv = "white_won" => Absolute(h, tv) = Loser(pos)
      /\ tv = "black_won" =>
           Absolute(h, tv) = IF pos \in BlackToMove THEN "black_won" ELSE "white_won"
      /\ tv \in {"draw", "undecided"} => Absolute(h, tv) = tv
  BY DEF Absolute, MoverLost, BlackMoves, Loser, pos
<1>4. CASE WonBy[pos] # "nobody"
  <2>1. tv = IF (WonBy[pos] = "white") = (pos \in BlackToMove) THEN "white_won" ELSE "black_won"
    BY <1>2, <1>4 DEF TerminalVerdict, ComputeMctsResult, BlackMoves, pos, tv
  <2>2. Absolute(h, tv) = Winner(pos)
    BY <1>2, <1>4, <1>a, <2>1 DEF Winner, Loser
  <2>. QED BY <1>1, <1>4, <2>2, TrueResultIs DEF tv
<1>5. CASE WonBy[pos] = "nobody"
  <2>1. tv = IF MovesOf[pos] = {}
             THEN IF clock >= Rule50 /\ pos \notin UnderCheck THEN "draw" ELSE "white_won"
             ELSE IF clock >= Rule50 \/ h.last.repetitions >= 2 THEN "draw" ELSE "undecided"
    BY <1>5 DEF TerminalVerdict, ComputeMctsResult, NoMoves, pos, clock, tv
  <2>2. CASE MovesOf[pos] = {} /\ pos \in UnderCheck
    <3>1. TrueResult(g) = Loser(pos)
      BY <1>1, <1>5, <2>2, TrueResultIs
    <3>. QED BY <1>a, <2>1, <2>2, <3>1 DEF tv
  <2>3. CASE ~ (MovesOf[pos] = {} /\ pos \in UnderCheck)
    <3>1. CASE clock >= Rule50 \/ Cardinality(Earlier(g)) >= 2
      <4>1. TrueResult(g) = "draw"
        BY <1>1, <1>5, <2>3, <3>1, TrueResultIs
      <4>2. clock >= Rule50 \/ (h.last.repetitions >= 2 /\ MovesOf[pos] # {})
        BY <1>1, <1>3, <3>1
      <4>. QED BY <1>a, <2>1, <2>3, <4>1, <4>2 DEF tv
    <3>2. CASE ~ (clock >= Rule50 \/ Cardinality(Earlier(g)) >= 2)
      <4>1. TrueResult(g) = IF MovesOf[pos] = {} THEN Loser(pos) ELSE "undecided"
        BY <1>1, <1>5, <2>3, <3>2, TrueResultIs
      <4>2. ~ (clock >= Rule50) /\ ~ (h.last.repetitions >= 2)
        BY <1>1, <1>3, <3>2
      <4>. QED BY <1>a, <2>1, <4>1, <4>2 DEF tv
    <3>. QED BY <3>1, <3>2
  <2>. QED BY <2>2, <2>3
<1>. QED BY <1>4, <1>5

\* For the same rules: the result of a game on the history that is kept of it, and
\* the end that a search gives a line, are what the rules say of the whole game
\* (ComputeGameResult, ComputeMctsResult, ExtendNode).
THEOREM VerdictsOfTheGame == Spec => []VerdictsAgree
<1>1. CInv => VerdictsAgree
  <2>. SUFFICES ASSUME CInv PROVE VerdictsAgree
    OBVIOUS
  <2>1. Played /\ Searched /\ CountedPlayed /\ CountedLine
    BY DEF CInv, HInv
  <2>2. ComputeGameResult(played) = TrueResult(game)
    <3>1. Verdict(played, game)
      BY <2>1, PlayedIs, VerdictIs DEF Played, CountedPlayed
    <3>2. Cardinality(Earlier(game)) \in Nat
      <4>1. Earlier(game) = EarlierAt(game, Len(game))
        BY DEF Earlier, EarlierAt
      <4>. QED BY <2>1, <4>1, PlayedIs, EarlierIs
    <3>. QED BY <3>1, <3>2, SameGameResult
  <2>3. ASSUME path # <<>>
        PROVE  Absolute(line, TerminalVerdict(line)) = TrueResult(game \o path)
    <3>. DEFINE g == game \o path
    <3>1. searching
      BY <2>1, <2>3 DEF Searched
    <3>2. Holds(line, g, start.rule50) /\ Counts(line, g) /\ Legal(g) /\ start.rule50 \in Nat
          /\ Len(g) \in Nat
      BY <2>1, <3>1, PlayedIs, SearchedIs DEF Searched, CountedLine
    <3>. HIDE DEF g
    <3>3. Verdict(line, g)
      BY <3>2, VerdictIs
    <3>4. Cardinality(Earlier(g)) \in Nat
      <4>1. Earlier(g) = EarlierAt(g, Len(g))
        BY DEF Earlier, EarlierAt
      <4>. QED BY <3>2, <4>1, EarlierIs
    <3>. QED BY <3>3, <3>4, SameVerdict DEF g
  <2>. QED BY <2>2, <2>3 DEF VerdictsAgree, Absolute
<1>. QED BY <1>1, InitCounts, StepCounts, PTL DEF Spec
=============================================================================
