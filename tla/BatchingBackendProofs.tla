------------------------ MODULE BatchingBackendProofs ------------------------
(***************************************************************************)
(* Proofs about BatchingBackend for any number of workers and threads, any *)
(* batch size, any producer count and timeout.                             *)
(*                                                                         *)
(* The inductive invariant IInv adds to the checked invariants what makes  *)
(* them inductive: where the leaves are while the server runs a buffer     *)
(* (Rotation, OwnersMatch), what a producer may still own at each place    *)
(* (Phases), that used_ lags remaining only while an AddInput is under way *)
(* (UsedCovers), and what active_producers_ counts (ActiveCount).          *)
(***************************************************************************)
EXTENDS BatchingBackend, FiniteSetTheorems, TLAPS

\* How many slots of buffer b carry an owner: the server clears them only when
\* it has mu_ again after the Run.
OwnedLen(b) == IF spc = "ran" /\ b = run THEN n ELSE Len(bufs[b])

Rotation ==
  /\ spc \in {"running", "ran"} => run # fill
  /\ spc = "running" => n = Len(bufs[run])
  /\ spc = "ran" => bufs[run] = <<>>
  /\ spc \notin {"running", "ran"} => bufs[1 - fill] = <<>>

OwnersMatch ==
  \A b \in Buffers : \A s \in Slots :
    /\ s <= Len(bufs[b]) => slot_owner[b][s] = bufs[b][s]
    /\ s > OwnedLen(b) => slot_owner[b][s] = NoGroup

Phases ==
  \A g \in Groups :
    /\ in_flush[g] <=> gpc[g] \in {"asleep", "woken"}
    /\ gpc[g] \in {"out", "searching"} => remaining[g] = 0
    /\ gpc[g] # "gathering" => \A t \in ThreadsOf(g) : tpc[t] = "idle"

UsedCovers ==
  \A g \in Groups :
    remaining[g] > 0 => used[g] > 0 \/ \E t \in ThreadsOf(g) : tpc[t] = "added"

ActiveCount ==
  Dynamic => active_producers = Cardinality({g \in Groups : gpc[g] # "out"})

IInv ==
  /\ TypeOK
  /\ Rotation
  /\ OwnersMatch
  /\ Phases
  /\ UsedCovers
  /\ ActiveCount
  /\ SlotLedger
  /\ WaitingCount
  /\ WindowOpen
-----------------------------------------------------------------------------
(* Sets of slots and of groups are finite.                                 *)

LEMMA OwnedFinite == \A g : IsFiniteSet(Owned(g))
<1>1. IsFiniteSet(Buffers)
  <2>1. IsFiniteSet({0})
    BY FS_Singleton
  <2>2. Buffers = {0} \cup {1}
    BY DEF Buffers
  <2>. QED BY <2>1, <2>2, FS_AddElement
<1>2. IsFiniteSet(Slots)
  BY FS_Interval, BackendAssumption DEF Slots
<1>3. IsFiniteSet(Buffers \X Slots)
  BY <1>1, <1>2, FS_Product
<1>. QED BY <1>3, FS_Subset DEF Owned

LEMMA GroupsFinite == \A S \in SUBSET Groups : IsFiniteSet(S) /\ Cardinality(S) \in Nat
BY BackendAssumption, FS_Subset, FS_CardinalityType

LEMMA OwnedCard == \A g : Cardinality(Owned(g)) \in Nat
BY OwnedFinite, FS_CardinalityType

-----------------------------------------------------------------------------
(* The initial state.                                                      *)

LEMMA InitInv == Init => IInv
<1> SUFFICES ASSUME Init PROVE IInv
  OBVIOUS
<1> USE BackendAssumption DEF Init, Buffers, Slots
<1>1. TypeOK
  <2>1. <<>> \in Seq(Groups) /\ Len(<<>>) = 0
    OBVIOUS
  <2>2. bufs \in [Buffers -> Seq(Groups)] /\ \A b \in Buffers : Len(bufs[b]) <= MaxBatchSize
    BY <2>1
  <2>3. slot_owner \in [Buffers -> [Slots -> Groups \cup {NoGroup}]]
    OBVIOUS
  <2>4. /\ tpc \in [Threads -> {"idle", "trying", "asleep", "added"}]
        /\ gpc \in [Groups -> {"out", "searching", "gathering", "asleep", "woken"}]
    OBVIOUS
  <2>5. /\ remaining \in [Groups -> Nat]
        /\ in_flush \in [Groups -> BOOLEAN]
        /\ used \in [Groups -> Nat]
    OBVIOUS
  <2>6. /\ fill \in Buffers /\ run \in Buffers /\ n \in 0 .. MaxBatchSize
        /\ waiting \in Nat /\ active_producers \in Nat
    OBVIOUS
  <2>7. /\ have_pending \in BOOLEAN /\ stop \in BOOLEAN
        /\ spc \in {"outer", "inner", "outerWait", "innerWait", "running", "ran", "exited"}
    OBVIOUS
  <2>. QED BY <2>2, <2>3, <2>4, <2>5, <2>6, <2>7, Zenon DEF TypeOK
<1>2. Rotation
  BY DEF Rotation
<1>3. OwnersMatch
  BY DEF OwnersMatch, OwnedLen
<1>4. Phases /\ UsedCovers
  BY DEF Phases, UsedCovers, ThreadsOf
<1>5. ActiveCount
  <2>1. {g \in Groups : gpc[g] # "out"} = {}
    OBVIOUS
  <2>. QED BY <2>1, FS_EmptySet DEF ActiveCount
<1>6. SlotLedger
  <2>1. \A g \in Groups : Owned(g) = {}
    BY DEF Owned
  <2>. QED BY <2>1, FS_EmptySet DEF SlotLedger
<1>7. WaitingCount
  <2>1. {g \in Groups : in_flush[g] /\ remaining[g] > 0} = {}
    OBVIOUS
  <2>. QED BY <2>1, FS_EmptySet DEF WaitingCount
<1>8. WindowOpen
  BY DEF WindowOpen
<1>. QED BY <1>1, <1>2, <1>3, <1>4, <1>5, <1>6, <1>7, <1>8 DEF IInv

-----------------------------------------------------------------------------
(* What a step that leaves some variables alone cannot disturb.            *)

DeviceBusy == spc \in {"running", "ran"}

LEMMA NotifyServerFrame ==
  ASSUME TypeOK, NotifyServer
  PROVE  /\ spc' \in {"outer", "inner", "outerWait", "innerWait", "running", "ran", "exited"}
         /\ spc' = spc \/ (~DeviceBusy /\ ~DeviceBusy')
BY DEF TypeOK, NotifyServer, DeviceBusy

LEMMA BufferFrame ==
  ASSUME Rotation, OwnersMatch, WindowOpen,
         UNCHANGED <<bufs, fill, slot_owner, have_pending, run, n>>,
         spc' = spc \/ (~DeviceBusy /\ ~DeviceBusy')
  PROVE  Rotation' /\ OwnersMatch' /\ WindowOpen'
<1>1. Rotation' /\ WindowOpen'
  BY DEF Rotation, WindowOpen, DeviceBusy
<1>2. OwnersMatch'
  BY DEF OwnersMatch, OwnedLen, DeviceBusy
<1>. QED BY <1>1, <1>2

LEMMA LedgerFrame ==
  ASSUME SlotLedger, UNCHANGED <<slot_owner, remaining>>
  PROVE  SlotLedger'
BY DEF SlotLedger, Owned

LEMMA WaitingFrame ==
  ASSUME WaitingCount, UNCHANGED <<waiting, in_flush, remaining>>
  PROVE  WaitingCount'
BY DEF WaitingCount

\* Nobody enters or leaves.
LEMMA ActiveFrame ==
  ASSUME ActiveCount, active_producers' = active_producers,
         \A g \in Groups : gpc'[g] = "out" <=> gpc[g] = "out"
  PROVE  ActiveCount'
<1>1. {g \in Groups : gpc[g] # "out"}' = {g \in Groups : gpc[g] # "out"}
  OBVIOUS
<1>. QED BY <1>1 DEF ActiveCount, Dynamic, ExpectedProducers

-----------------------------------------------------------------------------
(* Producers.                                                              *)

LEMMA EnterInv == \A g \in Groups : IInv /\ ProducerEnter(g) => IInv'
<1> SUFFICES ASSUME NEW g \in Groups, IInv, ProducerEnter(g) PROVE IInv'
  OBVIOUS
<1> USE DEF IInv, ProducerEnter, serverVars, groupVars
<1>1. TypeOK'
  BY DEF TypeOK
<1>2. Rotation' /\ OwnersMatch' /\ WindowOpen'
  BY BufferFrame
<1>3. Phases' /\ UsedCovers'
  BY DEF Phases, UsedCovers, TypeOK, ThreadsOf
<1>4. ActiveCount'
  <2> SUFFICES ASSUME Dynamic
               PROVE  active_producers' = Cardinality({h \in Groups : gpc'[h] # "out"})
    BY DEF ActiveCount, Dynamic, ExpectedProducers
  <2> DEFINE A == {h \in Groups : gpc[h] # "out"}
  <2>1. {h \in Groups : gpc'[h] # "out"} = A \cup {g}
    BY DEF TypeOK
  <2>2. g \notin A /\ IsFiniteSet(A)
    BY GroupsFinite
  <2>3. Cardinality(A \cup {g}) = Cardinality(A) + 1
    BY <2>2, FS_AddElement
  <2>. QED BY <2>1, <2>3 DEF ActiveCount
<1>5. SlotLedger' /\ WaitingCount'
  BY LedgerFrame, WaitingFrame
<1>. QED BY <1>1, <1>2, <1>3, <1>4, <1>5

LEMMA LeaveInv == \A g \in Groups : IInv /\ ProducerLeave(g) => IInv'
<1> SUFFICES ASSUME NEW g \in Groups, IInv, ProducerLeave(g) PROVE IInv'
  OBVIOUS
<1> USE DEF IInv, ProducerLeave, groupVars
<1>a. /\ spc' \in {"outer", "inner", "outerWait", "innerWait", "running", "ran", "exited"}
      /\ spc' = spc \/ (~DeviceBusy /\ ~DeviceBusy')
  BY NotifyServerFrame DEF TypeOK
<1>4. ActiveCount' /\ active_producers' \in Nat
  <2>1. CASE ~Dynamic
    BY <2>1 DEF ActiveCount, Dynamic, ExpectedProducers, TypeOK
  <2>2. CASE Dynamic
    <3> DEFINE A == {h \in Groups : gpc[h] # "out"}
    <3>1. {h \in Groups : gpc'[h] # "out"} = A \ {g}
      BY DEF TypeOK
    <3>2. g \in A /\ IsFiniteSet(A) /\ Cardinality(A \ {g}) \in Nat
      BY GroupsFinite
    <3>3. Cardinality(A \ {g}) = Cardinality(A) - 1
      BY <3>2, FS_RemoveElement
    <3>4. active_producers' = Cardinality(A \ {g})
      BY <2>2, <3>3 DEF ActiveCount
    <3>. QED BY <2>2, <3>1, <3>2, <3>4 DEF ActiveCount, Dynamic, ExpectedProducers
  <2>. QED BY <2>1, <2>2
<1>1. TypeOK'
  BY <1>a, <1>4 DEF TypeOK
<1>2. Rotation' /\ OwnersMatch' /\ WindowOpen'
  BY <1>a, BufferFrame
<1>3. Phases' /\ UsedCovers'
  BY DEF Phases, UsedCovers, TypeOK, ThreadsOf
<1>5. SlotLedger' /\ WaitingCount'
  BY LedgerFrame, WaitingFrame
<1>. QED BY <1>1, <1>2, <1>3, <1>4, <1>5

LEMMA CreateInv == \A g \in Groups : IInv /\ CreateComputation(g) => IInv'
<1> SUFFICES ASSUME NEW g \in Groups, IInv, CreateComputation(g) PROVE IInv'
  OBVIOUS
<1> USE DEF IInv, CreateComputation, serverVars
<1>a. UNCHANGED <<remaining, in_flush>>
  <2>1. /\ gpc[g] = "searching"
        /\ remaining \in [Groups -> Nat] /\ in_flush \in [Groups -> BOOLEAN]
    BY DEF TypeOK
  <2>2. remaining[g] = 0
    BY <2>1 DEF Phases
  <2>3. in_flush[g] = FALSE
    BY <2>1 DEF Phases
  <2>. QED BY <2>1, <2>2, <2>3
<1>1. TypeOK'
  BY DEF TypeOK
<1>2. Rotation' /\ OwnersMatch' /\ WindowOpen'
  BY BufferFrame
<1>3. Phases' /\ UsedCovers'
  BY <1>a DEF Phases, UsedCovers, TypeOK, ThreadsOf
<1>4. ActiveCount'
  BY ActiveFrame DEF TypeOK
<1>5. SlotLedger' /\ WaitingCount'
  BY <1>a, LedgerFrame, WaitingFrame
<1>. QED BY <1>1, <1>2, <1>3, <1>4, <1>5

LEMMA ComputeNothingInv == \A g \in Groups : IInv /\ ComputeNothing(g) => IInv'
<1> SUFFICES ASSUME NEW g \in Groups, IInv, ComputeNothing(g) PROVE IInv'
  OBVIOUS
<1> USE DEF IInv, ComputeNothing, Gathered, serverVars, groupVars
<1>1. TypeOK'
  BY DEF TypeOK
<1>2. Rotation' /\ OwnersMatch' /\ WindowOpen'
  BY BufferFrame
<1>a. remaining[g] = 0
  <2>1. remaining[g] \in Nat
    BY DEF TypeOK
  <2>2. ~ \E t \in ThreadsOf(g) : tpc[t] = "added"
    OBVIOUS
  <2>3. CASE used[g] = 0
    BY <2>1, <2>2, <2>3 DEF UsedCovers
  <2>. QED BY <2>3
<1>3. Phases' /\ UsedCovers'
  BY <1>a DEF Phases, UsedCovers, TypeOK, ThreadsOf
<1>4. ActiveCount'
  BY ActiveFrame DEF TypeOK
<1>5. SlotLedger' /\ WaitingCount'
  BY LedgerFrame, WaitingFrame
<1>. QED BY <1>1, <1>2, <1>3, <1>4, <1>5

LEMMA FlushWaitInv == \A g \in Groups : IInv /\ FlushWait(g) => IInv'
<1> SUFFICES ASSUME NEW g \in Groups, IInv, FlushWait(g) PROVE IInv'
  OBVIOUS
<1> USE DEF IInv, FlushWait, Gathered
<1>a. /\ spc' \in {"outer", "inner", "outerWait", "innerWait", "running", "ran", "exited"}
      /\ spc' = spc \/ (~DeviceBusy /\ ~DeviceBusy')
  BY NotifyServerFrame DEF TypeOK
<1>1. TypeOK'
  BY <1>a DEF TypeOK
<1>2. Rotation' /\ OwnersMatch' /\ WindowOpen'
  BY <1>a, BufferFrame
<1>3. Phases' /\ UsedCovers'
  BY DEF Phases, UsedCovers, TypeOK, ThreadsOf
<1>4. ActiveCount'
  BY ActiveFrame DEF TypeOK
<1>5. SlotLedger'
  BY LedgerFrame
<1>6. WaitingCount'
  <2> DEFINE W == {h \in Groups : in_flush[h] /\ remaining[h] > 0}
  <2>a. ~in_flush[g]
    BY DEF Phases
  <2>b. remaining[g] > 0
    BY DEF TypeOK
  <2>1. ~in_flush[g] /\ remaining[g] > 0
    BY <2>a, <2>b
  <2>2. in_flush'[g] /\ \A h \in Groups : h # g => in_flush'[h] = in_flush[h]
    BY DEF TypeOK
  <2>3. {h \in Groups : in_flush'[h] /\ remaining'[h] > 0} = W \cup {g}
    BY <2>1, <2>2
  <2>4. g \notin W /\ IsFiniteSet(W)
    BY <2>1, GroupsFinite
  <2>5. Cardinality(W \cup {g}) = Cardinality(W) + 1
    BY <2>4, FS_AddElement
  <2>. QED BY <2>3, <2>5 DEF WaitingCount
<1>. QED BY <1>1, <1>2, <1>3, <1>4, <1>5, <1>6

LEMMA FlushWaitAgainInv == \A g \in Groups : IInv /\ FlushWaitAgain(g) => IInv'
<1> SUFFICES ASSUME NEW g \in Groups, IInv, FlushWaitAgain(g) PROVE IInv'
  OBVIOUS
<1> USE DEF IInv, FlushWaitAgain, serverVars, groupVars
<1>1. TypeOK'
  BY DEF TypeOK
<1>2. Rotation' /\ OwnersMatch' /\ WindowOpen'
  BY BufferFrame
<1>3. Phases' /\ UsedCovers'
  BY DEF Phases, UsedCovers, TypeOK, ThreadsOf
<1>4. ActiveCount'
  BY ActiveFrame DEF TypeOK
<1>5. SlotLedger' /\ WaitingCount'
  BY LedgerFrame, WaitingFrame
<1>. QED BY <1>1, <1>2, <1>3, <1>4, <1>5

LEMMA FlushReturnInv == \A g \in Groups : IInv /\ FlushReturn(g) => IInv'
<1> SUFFICES ASSUME NEW g \in Groups, IInv, FlushReturn(g) PROVE IInv'
  OBVIOUS
<1> USE DEF IInv, FlushReturn, serverVars
<1>1. TypeOK'
  BY DEF TypeOK
<1>2. Rotation' /\ OwnersMatch' /\ WindowOpen'
  BY BufferFrame
<1>3. Phases' /\ UsedCovers'
  BY DEF Phases, UsedCovers, TypeOK, ThreadsOf
<1>4. ActiveCount'
  BY ActiveFrame DEF TypeOK
<1>5. SlotLedger'
  BY LedgerFrame
<1>6. WaitingCount'
  <2>1. {h \in Groups : in_flush'[h] /\ remaining'[h] > 0}
          = {h \in Groups : in_flush[h] /\ remaining[h] > 0}
    BY DEF TypeOK
  <2>. QED BY <2>1 DEF WaitingCount
<1>. QED BY <1>1, <1>2, <1>3, <1>4, <1>5, <1>6

LEMMA DestroyInv == IInv /\ Destroy => IInv'
<1> SUFFICES ASSUME IInv, Destroy PROVE IInv'
  OBVIOUS
<1> USE DEF IInv, Destroy, groupVars
<1>a. /\ spc' \in {"outer", "inner", "outerWait", "innerWait", "running", "ran", "exited"}
      /\ spc' = spc \/ (~DeviceBusy /\ ~DeviceBusy')
  BY NotifyServerFrame DEF TypeOK
<1>1. TypeOK'
  BY <1>a DEF TypeOK
<1>2. Rotation' /\ OwnersMatch' /\ WindowOpen'
  BY <1>a, BufferFrame
<1>3. Phases' /\ UsedCovers'
  BY DEF Phases, UsedCovers, TypeOK, ThreadsOf
<1>4. ActiveCount'
  BY ActiveFrame DEF TypeOK
<1>5. SlotLedger' /\ WaitingCount'
  BY LedgerFrame, WaitingFrame
<1>. QED BY <1>1, <1>2, <1>3, <1>4, <1>5

-----------------------------------------------------------------------------
(* Threads.                                                                *)

LEMMA AddInputInv == \A t \in Threads : IInv /\ AddInput(t) => IInv'
<1> SUFFICES ASSUME NEW t \in Threads, IInv, AddInput(t) PROVE IInv'
  OBVIOUS
<1> USE DEF IInv, AddInput, serverVars, groupVars
<1>1. TypeOK'
  BY DEF TypeOK
<1>2. Rotation' /\ OwnersMatch' /\ WindowOpen'
  BY BufferFrame
<1>3. Phases' /\ UsedCovers'
  BY DEF Phases, UsedCovers, TypeOK, ThreadsOf
<1>4. ActiveCount'
  BY ActiveFrame DEF TypeOK
<1>5. SlotLedger' /\ WaitingCount'
  BY LedgerFrame, WaitingFrame
<1>. QED BY <1>1, <1>2, <1>3, <1>4, <1>5

LEMMA AddSlotWaitInv == \A t \in Threads : IInv /\ AddSlotWait(t) => IInv'
<1> SUFFICES ASSUME NEW t \in Threads, IInv, AddSlotWait(t) PROVE IInv'
  OBVIOUS
<1> USE DEF IInv, AddSlotWait, serverVars, groupVars
<1>1. TypeOK'
  BY DEF TypeOK
<1>2. Rotation' /\ OwnersMatch' /\ WindowOpen'
  BY BufferFrame
<1>3. Phases' /\ UsedCovers'
  BY DEF Phases, UsedCovers, TypeOK, ThreadsOf
<1>4. ActiveCount'
  BY ActiveFrame DEF TypeOK
<1>5. SlotLedger' /\ WaitingCount'
  BY LedgerFrame, WaitingFrame
<1>. QED BY <1>1, <1>2, <1>3, <1>4, <1>5

LEMMA CountInputInv == \A t \in Threads : IInv /\ CountInput(t) => IInv'
<1> SUFFICES ASSUME NEW t \in Threads, IInv, CountInput(t) PROVE IInv'
  OBVIOUS
<1> USE DEF IInv, CountInput, serverVars, groupVars
<1>a. GroupOf[t] \in Groups
  BY BackendAssumption
<1>1. TypeOK'
  BY <1>a DEF TypeOK
<1>2. Rotation' /\ OwnersMatch' /\ WindowOpen'
  BY BufferFrame
<1>3. Phases'
  BY DEF Phases, TypeOK, ThreadsOf
<1>6. UsedCovers'
  BY <1>a DEF UsedCovers, TypeOK, ThreadsOf
<1>4. ActiveCount'
  BY ActiveFrame DEF TypeOK
<1>5. SlotLedger' /\ WaitingCount'
  BY LedgerFrame, WaitingFrame
<1>. QED BY <1>1, <1>2, <1>3, <1>4, <1>5, <1>6

LEMMA AddSlotInv == \A t \in Threads : IInv /\ AddSlot(t) => IInv'
<1> SUFFICES ASSUME NEW t \in Threads, IInv, AddSlot(t) PROVE IInv'
  OBVIOUS
<1> DEFINE g == GroupOf[t]
           slot == Len(bufs[fill]) + 1
<1> USE DEF IInv, AddSlot
<1>a. /\ spc' \in {"outer", "inner", "outerWait", "innerWait", "running", "ran", "exited"}
      /\ spc' = spc \/ (~DeviceBusy /\ ~DeviceBusy')
  BY NotifyServerFrame DEF TypeOK, TellIfFull
<1>b. g \in Groups /\ gpc[g] = "gathering"
  <2>1. g \in Groups
    BY BackendAssumption
  <2>2. tpc[t] # "idle" /\ t \in ThreadsOf(g)
    BY DEF ThreadsOf
  <2>. QED BY <2>1, <2>2 DEF Phases
<1>c. /\ bufs[fill] \in Seq(Groups) /\ fill \in Buffers /\ Len(bufs[fill]) \in Nat
      /\ slot \in Slots /\ slot <= MaxBatchSize
  BY BackendAssumption DEF TypeOK, Slots
<1>d. /\ bufs'[fill] = Append(bufs[fill], g)
      /\ \A b \in Buffers : b # fill => bufs'[b] = bufs[b]
  BY <1>c DEF TypeOK
<1>e. /\ Len(bufs'[fill]) = slot
      /\ bufs'[fill] \in Seq(Groups)
      /\ bufs'[fill][slot] = g
      /\ \A s \in Slots : s < slot => bufs'[fill][s] = bufs[fill][s]
  BY <1>b, <1>c, <1>d DEF Slots
<1>f. \A b \in Buffers : \A s \in Slots :
        slot_owner'[b][s] = IF b = fill /\ s = slot THEN g ELSE slot_owner[b][s]
  BY <1>c DEF TypeOK
<1>1. TypeOK'
  <2>1. bufs' \in [Buffers -> Seq(Groups)] /\ \A b \in Buffers : Len(bufs'[b]) <= MaxBatchSize
    BY <1>c, <1>d, <1>e DEF TypeOK
  <2>2. slot_owner' \in [Buffers -> [Slots -> Groups \cup {NoGroup}]]
    BY <1>b, <1>c DEF TypeOK
  <2>3. remaining' \in [Groups -> Nat]
    BY <1>b DEF TypeOK
  <2>4. tpc' \in [Threads -> {"idle", "trying", "asleep", "added"}]
    BY DEF TypeOK
  <2>. QED BY <1>a, <2>1, <2>2, <2>3, <2>4 DEF TypeOK
<1>2. Rotation' /\ WindowOpen'
  <2>1. fill \in Buffers /\ 1 - fill \in Buffers /\ 1 - fill # fill /\ run \in Buffers
    BY DEF TypeOK, Buffers
  <2>a. Len(<<>>) = 0
    OBVIOUS
  <2>b. slot # 0
    BY <1>c DEF Slots
  <2>2. bufs'[fill] # <<>>
    BY <1>e, <2>a, <2>b
  <2>3. WindowOpen'
    BY <2>2 DEF WindowOpen
  <2>4. Rotation'
    BY <1>a, <1>d, <2>1 DEF Rotation, DeviceBusy
  <2>. QED BY <2>3, <2>4
<1>3. OwnersMatch'
  <2>1. \A b \in Buffers : b # fill => OwnedLen(b)' = OwnedLen(b)
    BY <1>a, <1>d DEF OwnedLen, DeviceBusy
  <2>2. OwnedLen(fill) = Len(bufs[fill]) /\ OwnedLen(fill)' = slot
    BY <1>a, <1>c, <1>e DEF OwnedLen, DeviceBusy, Rotation
  <2>. QED BY <1>c, <1>d, <1>e, <1>f, <2>1, <2>2 DEF OwnersMatch, Slots
<1>4. Phases'
  BY <1>b DEF Phases, TypeOK, ThreadsOf
<1>5. UsedCovers'
  <2> SUFFICES ASSUME NEW h \in Groups, remaining'[h] > 0
               PROVE  used'[h] > 0 \/ \E u \in ThreadsOf(h) : tpc'[u] = "added"
    BY DEF UsedCovers, ThreadsOf
  <2>1. CASE h = g
    <3>1. t \in ThreadsOf(h) /\ tpc'[t] = "added"
      BY <2>1 DEF ThreadsOf, TypeOK
    <3>. QED BY <3>1
  <2>2. CASE h # g
    <3>1. remaining'[h] = remaining[h]
      BY <2>2, <1>b DEF TypeOK
    <3>2. \A u \in ThreadsOf(h) : tpc'[u] = tpc[u]
      BY <2>2 DEF ThreadsOf, TypeOK
    <3>. QED BY <3>1, <3>2 DEF UsedCovers
  <2>. QED BY <2>1, <2>2
<1>6. ActiveCount'
  BY ActiveFrame
<1>7. SlotLedger'
  <2> SUFFICES ASSUME NEW h \in Groups
               PROVE  remaining'[h] = Cardinality(Owned(h)')
    BY DEF SlotLedger
  <2>1. slot_owner[fill][slot] = NoGroup
    <3>1. OwnedLen(fill) = Len(bufs[fill])
      BY DEF OwnedLen, Rotation
    <3>. QED BY <1>c, <3>1 DEF OwnersMatch
  <2>2. CASE h = g
    <3>1. Owned(h)' = Owned(h) \cup {<<fill, slot>>}
      BY <2>2, <1>b, <1>c, <1>f, BackendAssumption DEF Owned
    <3>2. <<fill, slot>> \notin Owned(h)
      BY <2>1, <2>2, <1>b, BackendAssumption DEF Owned
    <3>3. Cardinality(Owned(h)') = Cardinality(Owned(h)) + 1
      BY <3>1, <3>2, OwnedFinite, FS_AddElement
    <3>4. remaining'[h] = remaining[h] + 1
      BY <2>2, <1>b DEF TypeOK
    <3>. QED BY <3>3, <3>4 DEF SlotLedger
  <2>3. CASE h # g
    <3>1. Owned(h)' = Owned(h)
      BY <2>1, <2>3, <1>b, <1>c, <1>f, BackendAssumption DEF Owned
    <3>2. remaining'[h] = remaining[h]
      BY <2>3, <1>b DEF TypeOK
    <3>. QED BY <3>1, <3>2 DEF SlotLedger
  <2>. QED BY <2>2, <2>3
<1>8. WaitingCount'
  <2>1. ~in_flush[g]
    BY <1>b DEF Phases
  <2>2. \A h \in Groups : h # g => remaining'[h] = remaining[h]
    BY <1>b DEF TypeOK
  <2>3. {h \in Groups : in_flush'[h] /\ remaining'[h] > 0}
          = {h \in Groups : in_flush[h] /\ remaining[h] > 0}
    BY <2>1, <2>2
  <2>. QED BY <2>3 DEF WaitingCount
<1>. QED BY <1>1, <1>2, <1>3, <1>4, <1>5, <1>6, <1>7, <1>8

-----------------------------------------------------------------------------
(* The server.                                                             *)

\* A step that only moves the server between its two waits and its exit.
IdleMove ==
  /\ ~DeviceBusy /\ ~DeviceBusy'
  /\ spc' \in {"outer", "inner", "outerWait", "innerWait", "exited"}
  /\ UNCHANGED <<bufs, fill, slot_owner, waiting, active_producers,
                 have_pending, stop, groupVars, used, tpc, gpc, run, n>>

LEMMA IdleMoveInv == IInv /\ IdleMove => IInv'
<1> SUFFICES ASSUME IInv, IdleMove PROVE IInv'
  OBVIOUS
<1> USE DEF IInv, IdleMove, groupVars
<1>1. TypeOK'
  BY DEF TypeOK
<1>2. Rotation' /\ OwnersMatch' /\ WindowOpen'
  BY BufferFrame
<1>3. Phases' /\ UsedCovers'
  BY DEF Phases, UsedCovers, ThreadsOf
<1>4. ActiveCount'
  BY ActiveFrame
<1>5. SlotLedger' /\ WaitingCount'
  BY LedgerFrame, WaitingFrame
<1>. QED BY <1>1, <1>2, <1>3, <1>4, <1>5

LEMMA IdleMoves == ServerExit \/ ServerSleep \/ ServerWaitForMore => IdleMove
BY DEF ServerExit, ServerSleep, ServerWaitForMore, IdleMove, Awake, DeviceBusy

LEMMA LaunchInv == IInv /\ ~DeviceBusy /\ Launch => IInv'
<1> SUFFICES ASSUME IInv, ~DeviceBusy, Launch PROVE IInv'
  OBVIOUS
<1> USE DEF IInv, Launch, groupVars
<1>a. /\ fill \in Buffers /\ fill' \in Buffers /\ fill' = 1 - fill /\ fill' # fill
      /\ Len(bufs[fill]) \in 0 .. MaxBatchSize
      /\ bufs[1 - fill] = <<>>
  BY BackendAssumption DEF TypeOK, Buffers, Rotation, DeviceBusy
<1>1. TypeOK'
  BY <1>a DEF TypeOK, NotifySpace
<1>2. Rotation' /\ WindowOpen'
  BY <1>a DEF Rotation, WindowOpen
<1>3. OwnersMatch'
  <2>1. \A b \in Buffers : OwnedLen(b)' = OwnedLen(b)
    BY DEF OwnedLen, DeviceBusy
  <2>. QED BY <2>1 DEF OwnersMatch
<1>4. Phases' /\ UsedCovers'
  BY BackendAssumption DEF Phases, UsedCovers, TypeOK, ThreadsOf, NotifySpace
<1>5. ActiveCount'
  BY ActiveFrame
<1>6. SlotLedger' /\ WaitingCount'
  BY LedgerFrame, WaitingFrame
<1>. QED BY <1>1, <1>2, <1>3, <1>4, <1>5, <1>6

LEMMA ComputeInv == IInv /\ ServerCompute => IInv'
<1> SUFFICES ASSUME IInv, ServerCompute PROVE IInv'
  OBVIOUS
<1> USE DEF IInv, ServerCompute, groupVars
<1>a. /\ run \in Buffers /\ run # fill /\ n = Len(bufs[run])
      /\ bufs'[run] = <<>> /\ <<>> \in Seq(Groups) /\ Len(<<>>) = 0
      /\ \A b \in Buffers : b # run => bufs'[b] = bufs[b]
      /\ fill \in Buffers
  BY DEF TypeOK, Rotation
<1>1. TypeOK'
  BY <1>a, BackendAssumption DEF TypeOK
<1>2. Rotation' /\ WindowOpen'
  BY <1>a DEF Rotation, WindowOpen
<1>3. OwnersMatch'
  <2>1. \A b \in Buffers : OwnedLen(b)' = OwnedLen(b)
    BY <1>a DEF OwnedLen
  <2>2. \A b \in Buffers : \A s \in Slots : s <= Len(bufs'[b]) => b # run
    BY <1>a DEF Slots
  <2>. QED BY <1>a, <2>1, <2>2 DEF OwnersMatch
<1>4. Phases' /\ UsedCovers'
  BY DEF Phases, UsedCovers, ThreadsOf
<1>5. ActiveCount'
  BY ActiveFrame
<1>6. SlotLedger' /\ WaitingCount'
  BY LedgerFrame, WaitingFrame
<1>. QED BY <1>1, <1>2, <1>3, <1>4, <1>5, <1>6

LEMMA DeliverInv == IInv /\ ServerDeliver => IInv'
<1> SUFFICES ASSUME IInv, ServerDeliver PROVE IInv'
  OBVIOUS
<1> USE DEF IInv, ServerDeliver
<1>a. run \in Buffers /\ run # fill /\ bufs[run] = <<>> /\ n \in Nat
  BY DEF TypeOK, Rotation
<1>b. \A b \in Buffers : \A s \in Slots :
        slot_owner'[b][s] = IF b = run /\ s <= n THEN NoGroup ELSE slot_owner[b][s]
  BY <1>a DEF TypeOK
<1>c. \A g \in Groups : /\ RanFor(g) \subseteq Owned(g)
                        /\ Owned(g)' = Owned(g) \ RanFor(g)
  BY <1>b, BackendAssumption DEF Owned, RanFor
<1>d. \A g \in Groups :
        /\ IsFiniteSet(RanFor(g))
        /\ Cardinality(RanFor(g)) \in Nat
        /\ Cardinality(RanFor(g)) <= remaining[g]
        /\ Cardinality(Owned(g)') = remaining[g] - Cardinality(RanFor(g))
        /\ RanFor(g) # {} => Cardinality(RanFor(g)) > 0
  <2> SUFFICES ASSUME NEW g \in Groups
               PROVE  /\ IsFiniteSet(RanFor(g))
                      /\ Cardinality(RanFor(g)) \in Nat
                      /\ Cardinality(RanFor(g)) <= remaining[g]
                      /\ Cardinality(Owned(g)') = remaining[g] - Cardinality(RanFor(g))
                      /\ RanFor(g) # {} => Cardinality(RanFor(g)) > 0
    OBVIOUS
  <2>1. IsFiniteSet(Owned(g)) /\ Cardinality(Owned(g)) = remaining[g]
    BY OwnedFinite DEF SlotLedger
  <2>2. IsFiniteSet(RanFor(g)) /\ Cardinality(RanFor(g)) <= Cardinality(Owned(g))
    BY <2>1, <1>c, FS_Subset
  <2>3. Cardinality(RanFor(g)) \in Nat
    BY <2>2, FS_CardinalityType
  <2>4. Owned(g) \cap RanFor(g) = RanFor(g)
    BY <1>c
  <2>5. Cardinality(Owned(g) \ RanFor(g)) = Cardinality(Owned(g)) - Cardinality(RanFor(g))
    BY <2>1, <2>4, FS_Difference, ZenonT(30)
  <2>6. Cardinality(RanFor(g)) = 0 <=> RanFor(g) = {}
    BY <2>2, FS_EmptySet
  <2>7. RanFor(g) # {} => Cardinality(RanFor(g)) > 0
    BY <2>3, <2>6
  <2>8. Cardinality(Owned(g)') = remaining[g] - Cardinality(RanFor(g))
    BY <1>c, <2>1, <2>5
  <2>. QED BY <2>1, <2>2, <2>3, <2>7, <2>8
<1>e. \A g \in Groups : /\ remaining'[g] = remaining[g] - Cardinality(RanFor(g))
                        /\ remaining[g] \in Nat /\ remaining'[g] \in Nat
  BY <1>d DEF TypeOK
<1>f. waiting' = Cardinality({g \in Groups : in_flush'[g] /\ remaining'[g] > 0})
  <2> DEFINE W == {g \in Groups : in_flush[g] /\ remaining[g] > 0}
  <2>1. Released \subseteq W
    <3> SUFFICES ASSUME NEW g \in Released PROVE g \in W
      OBVIOUS
    <3>1. g \in Groups /\ in_flush[g] /\ Cardinality(RanFor(g)) > 0
          /\ remaining[g] = Cardinality(RanFor(g))
      BY <1>d DEF Released
    <3>. QED BY <3>1
  <2>2. {g \in Groups : in_flush'[g] /\ remaining'[g] > 0} = W \ Released
    <3> SUFFICES ASSUME NEW g \in Groups
                 PROVE  (in_flush[g] /\ remaining'[g] > 0)
                          <=> (in_flush[g] /\ remaining[g] > 0 /\ g \notin Released)
      OBVIOUS
    <3>1. RanFor(g) = {} => Cardinality(RanFor(g)) = 0
      BY FS_EmptySet
    <3>2. remaining'[g] > 0 <=> remaining[g] > 0 /\ remaining[g] # Cardinality(RanFor(g))
      BY <1>d, <1>e
    <3>3. CASE RanFor(g) = {}
      <4>1. remaining[g] > 0 => remaining[g] # Cardinality(RanFor(g))
        BY <3>1, <3>3
      <4>2. g \notin Released
        BY <3>3 DEF Released
      <4>. QED BY <3>2, <4>1, <4>2
    <3>4. CASE RanFor(g) # {}
      <4>1. in_flush[g] => (g \in Released <=> remaining[g] = Cardinality(RanFor(g)))
        BY <3>4 DEF Released
      <4>. QED BY <3>2, <4>1
    <3>. QED BY <3>3, <3>4
  <2>3. IsFiniteSet(W) /\ W \cap Released = Released
    BY <2>1, GroupsFinite
  <2>4. Cardinality(W \ Released) = Cardinality(W) - Cardinality(Released)
    BY <2>3, FS_Difference, ZenonT(30)
  <2>. QED BY <2>2, <2>4 DEF WaitingCount
<1>1. TypeOK'
  <2>1. slot_owner' \in [Buffers -> [Slots -> Groups \cup {NoGroup}]]
    BY <1>a DEF TypeOK
  <2>2. remaining' \in [Groups -> Nat]
    BY <1>e
  <2>3. waiting' \in Nat
    BY <1>f, GroupsFinite
  <2>4. gpc' \in [Groups -> {"out", "searching", "gathering", "asleep", "woken"}]
    BY DEF TypeOK
  <2>5. tpc' \in [Threads -> {"idle", "trying", "asleep", "added"}]
    BY DEF TypeOK, NotifySpace
  <2>. QED BY <2>1, <2>2, <2>3, <2>4, <2>5 DEF TypeOK
<1>2. Rotation' /\ WindowOpen'
  <2>1. 1 - fill = run
    BY <1>a DEF TypeOK, Buffers
  <2>. QED BY <1>a, <2>1 DEF Rotation, WindowOpen
<1>3. OwnersMatch'
  <2>1. \A b \in Buffers : OwnedLen(b)' = Len(bufs[b])
    BY DEF OwnedLen
  <2>2. \A b \in Buffers : b # run => OwnedLen(b) = Len(bufs[b])
    BY DEF OwnedLen
  <2>3. OwnedLen(run) = n /\ Len(bufs[run]) = 0
    BY <1>a DEF OwnedLen
  <2>4. \A b \in Buffers : \A s \in Slots : s <= Len(bufs[b]) => b # run
    BY <2>3 DEF Slots
  <2>. QED BY <1>a, <1>b, <2>1, <2>2, <2>3, <2>4 DEF OwnersMatch, Slots
<1>4. Phases'
  <2> SUFFICES ASSUME NEW g \in Groups
               PROVE  /\ in_flush'[g] <=> gpc'[g] \in {"asleep", "woken"}
                      /\ gpc'[g] \in {"out", "searching"} => remaining'[g] = 0
                      /\ gpc'[g] # "gathering" => \A t \in ThreadsOf(g) : tpc'[t] = "idle"
    BY DEF Phases, ThreadsOf
  <2>1. /\ gpc'[g] \in {"asleep", "woken"} <=> gpc[g] \in {"asleep", "woken"}
        /\ gpc'[g] \in {"out", "searching"} => gpc[g] \in {"out", "searching"}
        /\ gpc'[g] # "gathering" => gpc[g] # "gathering"
    OBVIOUS
  <2>2. remaining[g] = 0 => remaining'[g] = 0
    BY <1>d, <1>e
  <2>3. \A t \in ThreadsOf(g) : tpc[t] = "idle" => tpc'[t] = "idle"
    BY DEF NotifySpace, ThreadsOf
  <2>. QED BY <2>1, <2>2, <2>3 DEF Phases
<1>5. UsedCovers'
  <2>1. \A g \in Groups : remaining'[g] > 0 => remaining[g] > 0
    BY <1>d, <1>e
  <2>2. \A t \in Threads : tpc[t] = "added" => tpc'[t] = "added"
    BY DEF NotifySpace
  <2>. QED BY <2>1, <2>2 DEF UsedCovers, ThreadsOf
<1>6. ActiveCount'
  BY ActiveFrame
<1>7. SlotLedger' /\ WaitingCount'
  BY <1>d, <1>e, <1>f DEF SlotLedger, WaitingCount
<1>. QED BY <1>1, <1>2, <1>3, <1>4, <1>5, <1>6, <1>7

-----------------------------------------------------------------------------
(* The invariant holds.                                                    *)

LEMMA NextInv == IInv /\ [Next]_vars => IInv'
<1> SUFFICES ASSUME IInv, [Next]_vars PROVE IInv'
  OBVIOUS
<1>1. CASE \E g \in Groups : Producer(g)
  BY <1>1, EnterInv, LeaveInv, CreateInv, ComputeNothingInv, FlushWaitInv,
     FlushWaitAgainInv, FlushReturnInv DEF Producer
<1>2. CASE \E t \in Threads : Thread(t)
  BY <1>2, AddInputInv, AddSlotWaitInv, AddSlotInv, CountInputInv DEF Thread
<1>3. CASE Destroy
  BY <1>3, DestroyInv
<1>4. CASE Server
  <2>1. CASE ServerExit \/ ServerSleep \/ ServerWaitForMore
    BY <2>1, IdleMoves, IdleMoveInv
  <2>2. CASE ServerLaunch \/ ServerTimeout
    BY <2>2, LaunchInv DEF ServerLaunch, ServerTimeout, Awake, DeviceBusy
  <2>3. CASE ServerCompute
    BY <2>3, ComputeInv
  <2>4. CASE ServerDeliver
    BY <2>4, DeliverInv
  <2>. QED BY <1>4, <2>1, <2>2, <2>3, <2>4 DEF Server
<1>5. CASE UNCHANGED vars
  <2>1. UNCHANGED <<bufs, fill, slot_owner, waiting, active_producers, have_pending,
                    stop, remaining, in_flush, used, tpc, gpc, spc, run, n>>
    BY <1>5 DEF vars
  <2>2. TypeOK' /\ Phases' /\ UsedCovers'
    BY <2>1 DEF IInv, TypeOK, Phases, UsedCovers, ThreadsOf
  <2>3. Rotation' /\ OwnersMatch' /\ WindowOpen'
    BY <2>1, BufferFrame DEF IInv
  <2>4. ActiveCount' /\ SlotLedger' /\ WaitingCount'
    BY <2>1, ActiveFrame, LedgerFrame, WaitingFrame DEF IInv
  <2>. QED BY <2>2, <2>3, <2>4 DEF IInv
<1>. QED BY <1>1, <1>2, <1>3, <1>4, <1>5 DEF Next, Terminated

\* IInv is an invariant of the aggregation layer.
THEOREM Invariance == Spec => []IInv
BY InitInv, NextInv, PTL DEF Spec

\* Every variable has its type; in particular no buffer holds more than
\* MaxBatchSize leaves and waiting_ never goes below zero.
THEOREM TypeCorrect == Spec => []TypeOK
<1>1. IInv => TypeOK
  BY DEF IInv
<1>. QED BY <1>1, Invariance, PTL

\* remaining of each group counts exactly the slots it owns.
THEOREM SlotLedgerHolds == Spec => []SlotLedger
<1>1. IInv => SlotLedger
  BY DEF IInv
<1>. QED BY <1>1, Invariance, PTL

\* waiting_ counts exactly the producers in Flush with slots still pending.
THEOREM WaitingCountHolds == Spec => []WaitingCount
<1>1. IInv => WaitingCount
  BY DEF IInv
<1>. QED BY <1>1, Invariance, PTL

\* have_pending_ is set exactly while the filling buffer holds leaves.
THEOREM WindowOpenHolds == Spec => []WindowOpen
<1>1. IInv => WindowOpen
  BY DEF IInv
<1>. QED BY <1>1, Invariance, PTL

\* Inputs not yet evaluated are among the slots their group owns.
LEMMA OutstandingOwned ==
  ASSUME IInv, NEW g \in Groups PROVE Outstanding(g) \subseteq Owned(g)
BY DEF IInv, OwnersMatch, Outstanding, Owned

LEMMA NothingOwned ==
  ASSUME IInv, NEW g \in Groups, remaining[g] = 0
  PROVE  Owned(g) = {} /\ Outstanding(g) = {}
<1>1. Cardinality(Owned(g)) = 0
  BY DEF IInv, SlotLedger
<1>2. Owned(g) = {}
  BY <1>1, OwnedFinite, FS_EmptySet
<1>. QED BY <1>2, OutstandingOwned

\* A search outside AddInput and ComputeBlocking has nothing the server still
\* writes to: no EvalResultPtr, no Group pointer.
THEOREM NoDanglingHolds == Spec => []NoDangling
<1>1. IInv => NoDangling
  BY NothingOwned DEF IInv, Phases, NoDangling
<1>. QED BY <1>1, Invariance, PTL

-----------------------------------------------------------------------------
(* The layer implements EvalService.                                       *)

Pending == [g \in Groups |-> Outstanding(g)]
Phase == [g \in Groups |->
            IF gpc[g] \in {"asleep", "woken"} THEN "waiting" ELSE gpc[g]]

LEMMA PendingFrame == UNCHANGED bufs => UNCHANGED Pending
BY DEF Pending, Outstanding

LEMMA ServiceInit == Init => Service!SInit
<1> SUFFICES ASSUME Init PROVE Service!SInit
  OBVIOUS
<1>1. \A g \in Groups : Outstanding(g) = {}
  BY DEF Init, Outstanding, Slots, Buffers
<1>. QED BY <1>1 DEF Init, Service!SInit

LEMMA ProducerRefines ==
  ASSUME IInv, NEW g \in Groups, Producer(g)
  PROVE  Service!SNext \/ UNCHANGED <<Pending, Phase>>
<1>a. UNCHANGED Pending
  BY PendingFrame DEF Producer, ProducerEnter, ProducerLeave, CreateComputation,
     ComputeNothing, FlushWait, FlushWaitAgain, FlushReturn
<1>b. gpc \in [Groups -> {"out", "searching", "gathering", "asleep", "woken"}]
  BY DEF IInv, TypeOK
<1>c. gpc[g] \in {"out", "searching"} => Outstanding(g) = {}
  BY NothingOwned DEF IInv, Phases
<1>1. CASE ProducerEnter(g)
  <2>1. Service!Enter(g)
    BY <1>1, <1>a, <1>b, <1>c DEF ProducerEnter, Service!Enter, Service!Move, Pending
  <2>. QED BY <2>1 DEF Service!SNext
<1>2. CASE ProducerLeave(g)
  <2>1. Service!Leave(g)
    BY <1>2, <1>a, <1>b, <1>c DEF ProducerLeave, Service!Leave, Service!Move, Pending
  <2>. QED BY <2>1 DEF Service!SNext
<1>3. CASE CreateComputation(g)
  <2>1. Service!Open(g)
    BY <1>3, <1>a, <1>b, <1>c DEF CreateComputation, Service!Open, Service!Move, Pending
  <2>. QED BY <2>1 DEF Service!SNext
<1>4. CASE ComputeNothing(g)
  <2>1. remaining[g] = 0
    <3>1. ~ \E t \in ThreadsOf(g) : tpc[t] = "added"
      BY <1>4 DEF ComputeNothing, Gathered
    <3>2. used[g] = 0 => ~(remaining[g] > 0)
      BY <3>1 DEF IInv, UsedCovers
    <3>3. remaining[g] \in Nat
      BY DEF IInv, TypeOK
    <3>. QED BY <1>4, <3>2, <3>3 DEF ComputeNothing
  <2>2. Outstanding(g) = {}
    BY <2>1, NothingOwned
  <2>3. Service!Return(g)
    BY <1>4, <1>a, <1>b, <2>2 DEF ComputeNothing, Gathered, Service!Return, Service!Move, Pending
  <2>. QED BY <2>3 DEF Service!SNext
<1>5. CASE FlushWait(g)
  <2>1. Service!Await(g)
    BY <1>5, <1>a, <1>b DEF FlushWait, Gathered, Service!Await, Service!Move, Pending
  <2>. QED BY <2>1 DEF Service!SNext
<1>6. CASE FlushWaitAgain(g)
  BY <1>6, <1>a, <1>b DEF FlushWaitAgain, Phase
<1>7. CASE FlushReturn(g)
  <2>1. Outstanding(g) = {}
    BY <1>7, NothingOwned DEF FlushReturn
  <2>2. Service!Return(g)
    BY <1>7, <1>a, <1>b, <2>1 DEF FlushReturn, Service!Return, Service!Move, Pending
  <2>. QED BY <2>2 DEF Service!SNext
<1>. QED BY <1>1, <1>2, <1>3, <1>4, <1>5, <1>6, <1>7 DEF Producer

\* The slot AddSlot takes is the ticket of the new request.
LEMMA AddSlotRefines ==
  ASSUME IInv, NEW t \in Threads, AddSlot(t)
  PROVE  Service!SNext
<1> DEFINE g == GroupOf[t]
           slot == Len(bufs[fill]) + 1
<1>1. /\ g \in Groups /\ gpc[g] = "gathering"
  <2>1. g \in Groups
    BY BackendAssumption
  <2>2. tpc[t] # "idle" /\ t \in ThreadsOf(g)
    BY DEF ThreadsOf, AddSlot
  <2>. QED BY <2>1, <2>2 DEF IInv, Phases
<1>2. /\ bufs[fill] \in Seq(Groups) /\ fill \in Buffers /\ Len(bufs[fill]) \in Nat
      /\ slot \in Slots /\ <<fill, slot>> \in Buffers \X Slots
  BY BackendAssumption DEF IInv, TypeOK, Slots, AddSlot
<1>3. /\ bufs'[fill] = Append(bufs[fill], g)
      /\ \A b \in Buffers : b # fill => bufs'[b] = bufs[b]
  BY <1>2 DEF IInv, TypeOK, AddSlot
<1>4. /\ Len(bufs'[fill]) = slot /\ bufs'[fill][slot] = g
      /\ \A s \in Slots : s < slot => bufs'[fill][s] = bufs[fill][s]
  BY <1>1, <1>2, <1>3 DEF Slots
<1>5. \A h \in Groups : <<fill, slot>> \notin Outstanding(h)
  BY <1>2 DEF Outstanding
<1>6. \A h \in Groups :
        Outstanding(h)' = IF h = g THEN Outstanding(h) \cup {<<fill, slot>>}
                          ELSE Outstanding(h)
  <2> SUFFICES ASSUME NEW h \in Groups, NEW p \in Buffers \X Slots
               PROVE  p \in Outstanding(h)'
                        <=> p \in Outstanding(h) \/ (h = g /\ p = <<fill, slot>>)
    BY <1>2 DEF Outstanding
  <2>1. CASE p[1] # fill
    BY <1>3, <2>1 DEF Outstanding
  <2>2. CASE p[1] = fill
    <3>1. CASE p[2] = slot
      <4>1. p = <<fill, slot>>
        BY <2>2, <3>1
      <4>. QED BY <1>2, <1>4, <2>2, <3>1, <4>1 DEF Outstanding, Slots
    <3>2. CASE p[2] # slot
      BY <1>2, <1>4, <2>2, <3>2 DEF Outstanding, Slots
    <3>. QED BY <3>1, <3>2
  <2>. QED BY <2>1, <2>2
<1>7. Pending' = [Pending EXCEPT ![g] = @ \cup {<<fill, slot>>}]
  BY <1>1, <1>6 DEF Pending
<1>8. UNCHANGED Phase
  BY DEF AddSlot, Phase
<1>9. Service!Request(g, <<fill, slot>>)
  BY <1>1, <1>5, <1>7, <1>8 DEF Service!Request, Pending, Phase
<1>. QED BY <1>1, <1>2, <1>9 DEF Service!SNext

\* The Run of a buffer is the evaluation of what it holds.
LEMMA ComputeRefines ==
  ASSUME IInv, ServerCompute
  PROVE  Service!SNext
<1>1. /\ run \in Buffers /\ bufs'[run] = <<>> /\ Len(<<>>) = 0
      /\ \A b \in Buffers : b # run => bufs'[b] = bufs[b]
  BY DEF IInv, TypeOK, ServerCompute
<1>2. \A g \in Groups : Outstanding(g)' \subseteq Outstanding(g)
  BY <1>1 DEF Outstanding, Slots
<1>3. Service!Evaluate
  BY <1>2 DEF Service!Evaluate, ServerCompute
<1>. QED BY <1>3 DEF Service!SNext

LEMMA StepRefines ==
  ASSUME IInv, [Next]_vars
  PROVE  [Service!SNext]_(Service!svars)
<1> SUFFICES Service!SNext \/ UNCHANGED <<Pending, Phase>>
  BY DEF Service!svars, Pending, Phase
<1>1. CASE \E g \in Groups : Producer(g)
  BY <1>1, ProducerRefines
<1>2. CASE \E t \in Threads : Thread(t)
  <2>1. CASE \E t \in Threads : AddSlot(t)
    BY <2>1, AddSlotRefines
  <2>2. CASE \E t \in Threads : AddInput(t) \/ AddSlotWait(t) \/ CountInput(t)
    BY <2>2, PendingFrame DEF AddInput, AddSlotWait, CountInput, Phase
  <2>. QED BY <1>2, <2>1, <2>2 DEF Thread
<1>3. CASE Destroy
  BY <1>3, PendingFrame DEF Destroy, Phase
<1>4. CASE Server
  <2>1. CASE ServerCompute
    BY <2>1, ComputeRefines
  <2>2. CASE ServerDeliver
    <3>1. UNCHANGED Phase
      BY <2>2 DEF ServerDeliver, Phase
    <3>. QED BY <2>2, <3>1, PendingFrame DEF ServerDeliver
  <2>3. CASE ServerExit \/ ServerSleep \/ ServerWaitForMore
    BY <2>3, IdleMoves, PendingFrame DEF IdleMove, Phase
  <2>4. CASE ServerLaunch \/ ServerTimeout
    BY <2>4, PendingFrame DEF ServerLaunch, ServerTimeout, Launch, Phase
  <2>. QED BY <1>4, <2>1, <2>2, <2>3, <2>4 DEF Server
<1>5. CASE UNCHANGED vars
  BY <1>5, PendingFrame DEF vars, Phase
<1>. QED BY <1>1, <1>2, <1>3, <1>4, <1>5 DEF Next, Terminated

\* The aggregation layer implements the evaluation service: ComputeBlocking
\* returns only when every request has its result.
THEOREM Refinement == Spec => ServiceSpec
<1>1. Init => Service!SInit
  BY ServiceInit
<1>2. IInv /\ [Next]_vars => [Service!SNext]_(Service!svars)
  BY StepRefines
<1>. QED BY <1>1, <1>2, Invariance, PTL DEF Spec, ServiceSpec, Service!SSpec
=============================================================================
