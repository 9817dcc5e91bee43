------------------------------ MODULE SearchTree ------------------------------
(***************************************************************************)
(* The search tree that the workers of a search share                      *)
(* (search/classic/{search,node}.{h,cc}), from one search of a game to the *)
(* next.  A worker picks leaves under nodes_mutex_, extends them without   *)
(* it, and backs their values up under it again; what it could not visit   *)
(* becomes a collision, which only holds the way to the leaf as "in        *)
(* flight".  What one thread does while it holds nodes_mutex_ is divided   *)
(* into steps, between which no other takes it (Locked).                   *)
(*                                                                         *)
(* The game tree is given: who follows whom, where a game ends, what the   *)
(* network says.  Which leaf is picked, and for how many visits, is a free *)
(* choice (the PUCT formula), and so is whether an evaluation is cached.   *)
(* wl_ is kept as the sum w = wl_ * n_ and its values are -1, 0 or 1; d_   *)
(* and m_ are left out.  Results are those of the player who moved to the  *)
(* node: WHITE_WON is 1, DRAW 0, BLACK_WON -1.  How many workers gather at *)
(* once is the subject of SearchLifecycle; here it may be all of them.     *)
(***************************************************************************)
EXTENDS Integers, FiniteSets, SequencesExt, FiniteSetsExt

CONSTANTS
  Workers,
  Nodes, Roots,       \* positions; those the first search may start from
  Parent,             \* the position before each of the others
  GameEnd,            \* mates and the like: ComputeMctsResult of a position
  RuleDraws,          \* draws by rule, unless the search starts there
  Cycle,              \* plies since a position occurred once before
  EvalOf,             \* the network's value of a position
  MinTwoFold,         \* plies from the root where a repetition may be a draw
  SolidTreeThreshold, \* visits from which children are stored in one array
  MaxVisits,          \* bound: visits of the root, and collisions of a leaf
  MaxPicks,           \* bound: entries of a minibatch
  MaxMultivisit       \* bound: visits of a collision

\* Positions are finitely many and do not go round in circles: of any that are
\* no roots, one comes first.
ASSUME TreeAssumption ==
  /\ IsFiniteSet(Workers) /\ IsFiniteSet(Nodes)
  /\ Roots \subseteq Nodes /\ Parent \in [Nodes \ Roots -> Nodes]
  /\ \A S \in (SUBSET (Nodes \ Roots)) \ {{}} : \E x \in S : Parent[x] \notin S
  /\ DOMAIN GameEnd \subseteq Nodes /\ GameEnd \in [DOMAIN GameEnd -> {0, 1}]
  /\ RuleDraws \subseteq Nodes \ DOMAIN GameEnd
  /\ DOMAIN Cycle \subseteq Nodes /\ Cycle \in [DOMAIN Cycle -> Nat]
  /\ EvalOf \in [Nodes -> -1 .. 1]

VARIABLES
  tree,             \* the nodes
  head,             \* root_node_
  batch,            \* minibatch_ of each worker, without its erased entries
  new_start,        \* where the entries of a worker's current round begin
  worked,           \* has its iteration backed anything up (work_done)
  pc,               \* where each worker is
  shared_collisions, \* visits to give back, by leaf
  total_playouts, initial_visits

workerVars == <<batch, new_start, worked, pc>>
vars == <<tree, head, workerVars, shared_collisions, total_playouts,
          initial_visits>>

\* The positions that may follow the first root.
Game == DOMAIN tree
Children(x) == {y \in Nodes \ Roots : Parent[y] = x}

\* A node and its ancestors, up to the root of the search.
PathFrom[x \in Nodes] ==
  IF x \in Roots \cup {head} THEN <<x>> ELSE <<x>> \o PathFrom[Parent[x]]
Above(x) == ToSet(Tail(PathFrom[x]))
Plies(x) == Len(PathFrom[x]) - 1
Subtree[x \in Nodes] == {x} \cup UNION {Subtree[y] : y \in Children(x)}

\* A node as it is allocated.  own is the value of its own first visit.
NewNode == [n |-> 0, flight |-> 0, w |-> 0, term |-> "no", lo |-> -1, up |-> 1,
            solid |-> FALSE, own |-> 0]
\* What is summed over nodes.
VisitsOf(t) == [y \in Game |-> t[y].n]
ValuesOf(t) == [y \in Game |-> t[y].w]
FlightsOf(t) == [y \in Game |-> t[y].flight]

IsTerminal(nd) == nd.term # "no"
TerminalValue(nd) == IF nd.term = "end" THEN nd.lo ELSE 0
MakeTerminal(nd, result) ==
  [nd EXCEPT !.term = "end", !.lo = result, !.up = result, !.w = nd.n * result]

\* NodeToProcess: a visit is picked, then queried or completed out of order.
Kinds == {"picked", "queried", "ooo", "collision"}
Entry(x, what, k) == [node |-> x, kind |-> what, multivisit |-> k]
Visit(x) == Entry(x, "picked", 1)
Collision(x, k) == IF k > 0 THEN <<Entry(x, "collision", k)>> ELSE <<>>
IsCollision(e) == e.kind = "collision"

\* What is left of a minibatch without its collisions.
WithoutCollisions(b) ==
  LET kept[i \in 0 .. Len(b)] ==
        IF i = 0 THEN <<>>
        ELSE IF IsCollision(b[i]) THEN kept[i - 1] ELSE Append(kept[i - 1], b[i])
  IN  kept[Len(b)]

\* The visits that a minibatch holds of a node in entries of some kinds.
HeldAt(b, x, kinds) ==
  SumFunction([i \in DOMAIN b |-> IF b[i].node = x /\ b[i].kind \in kinds
                                  THEN b[i].multivisit ELSE 0])

Init ==
  /\ head \in Roots
  /\ tree = [x \in Subtree[head] |-> NewNode]
  /\ batch = [v \in Workers |-> <<>>] /\ new_start = [v \in Workers |-> 1]
  /\ worked = [v \in Workers |-> FALSE] /\ pc = [v \in Workers |-> "idle"]
  /\ shared_collisions = [x \in Subtree[head] |-> 0]
  /\ total_playouts = 0 /\ initial_visits = 0

\* A worker holds nodes_mutex_ from one of its steps to the next.
Locked == \E v \in Workers : pc[v] \in {"pick", "outOfOrder", "backup"}

\* The worker takes nodes_mutex_, or goes on with what it took it for.
Enters(v, before, inside) ==
  \/ pc[v] \in before /\ ~Locked
  \/ pc[v] = inside
Goto(v, to) == pc' = [pc EXCEPT ![v] = to]

\* n_in_flight_ of all nodes above a leaf.
Reserved(t, x, k) ==
  LET above == Above(x) IN
    [y \in Game |-> IF y \in above THEN [t[y] EXCEPT !.flight = @ + k] ELSE t[y]]

\* Mutant: gives the visits back at the leaf as well.
Cancelled_Leaf(t, x, k) == [Reserved(t, x, -k) EXCEPT ![x].flight = @ - k]

Cancelled(t, x, k) == Reserved(t, x, -k)

-----------------------------------------------------------------------------
(* Picking: PickNodesToExtend.                                             *)

\* A repetition whose first occurrence is not in the search any more: its
\* visits are taken back, from it and from the nodes above it.
IsStaleTwoFold(x) == tree[x].term = "twofold" /\ Plies(x) < Cycle[x]

\* Mutant: the nodes above keep the visits.
TwoFoldCorrected_LeafOnly(x) ==
  IF ~IsStaleTwoFold(x) THEN tree
  ELSE [tree EXCEPT ![x].n = 0, ![x].w = 0, ![x].term = "no"]

TwoFoldCorrected(x) ==
  IF ~IsStaleTwoFold(x) THEN tree
  ELSE [y \in Game |->
          CASE y = x -> [tree[y] EXCEPT !.n = 0, !.w = 0, !.term = "no"]
            [] y \in Above(x) -> [tree[y] EXCEPT !.n = @ - tree[x].n]
            [] OTHER -> tree[y]]

CanDescend(nd) == nd.n > 0 /\ ~IsTerminal(nd)

\* k visits descend to the leaf x.  One of them is made, unless another worker
\* is at work on x; the rest collide.
Pick(v, x, k) ==
  LET first  == pc[v] # "pick"
      t      == TwoFoldCorrected(x)
      starts == t[x].n > 0 \/ t[x].flight = 0
      left   == IF starts THEN k - 1 ELSE k
  IN  /\ Enters(v, {"idle", "gathered"}, "pick")
      /\ x \in Subtree[head] /\ \A y \in Above(x) : CanDescend(tree[y])
      /\ ~CanDescend(t[x])
      /\ x = head => first
      /\ tree[head].n + tree[head].flight + k <= MaxVisits
      /\ shared_collisions[x] + k <= MaxVisits
      /\ Len(batch[v]) + 2 <= MaxPicks
      /\ tree' = [Reserved(t, x, k) EXCEPT ![x].flight = IF starts THEN @ + 1 ELSE @]
      /\ batch' = [batch EXCEPT ![v] =
                     @ \o (IF starts THEN <<Visit(x)>> ELSE <<>>) \o Collision(x, left)]
      /\ new_start' = [new_start EXCEPT ![v] = IF first THEN Len(batch[v]) + 1 ELSE @]
      /\ initial_visits' = initial_visits - IF IsStaleTwoFold(x) THEN tree[x].n ELSE 0
      /\ Goto(v, "pick")
      /\ UNCHANGED <<head, worked, shared_collisions, total_playouts>>

PickDone(v) ==
  /\ pc[v] = "pick"
  /\ Goto(v, "process")
  /\ UNCHANGED <<tree, head, batch, new_start, worked, shared_collisions,
                 total_playouts, initial_visits>>

-----------------------------------------------------------------------------
(* Extending: ProcessPickedTask, in any order and without a lock, because  *)
(* others leave a node alone while it has no visit but one in flight.      *)

IsTwoFoldDraw(x) ==
  x \in DOMAIN Cycle /\ Plies(x) >= MinTwoFold /\ Plies(x) >= Cycle[x]

\* Several tasks or workers may extend at once: an entry is a step.
ExtendNode(v, i) ==
  LET x == batch[v][i].node
      Becomes(nd, what) ==
        /\ tree' = [tree EXCEPT ![x] = nd]
        /\ batch' = [batch EXCEPT ![v][i].kind = what]
  IN  /\ pc[v] = "process" /\ batch[v][i].kind = "picked"
      /\ \/ /\ IsTerminal(tree[x])
            /\ Becomes(tree[x], "ooo")
         \/ /\ ~IsTerminal(tree[x]) /\ x \in DOMAIN GameEnd
            /\ Becomes(MakeTerminal(tree[x], GameEnd[x]), "ooo")
         \/ /\ ~IsTerminal(tree[x]) /\ x \in RuleDraws \ {head}
            /\ Becomes(MakeTerminal(tree[x], 0), "ooo")
         \/ /\ ~IsTerminal(tree[x]) /\ IsTwoFoldDraw(x)
            /\ Becomes([tree[x] EXCEPT !.term = "twofold"], "ooo")
         \/ /\ ~IsTerminal(tree[x]) /\ x \notin DOMAIN GameEnd
            /\ x \notin RuleDraws \ {head} /\ ~IsTwoFoldDraw(x)
            /\ \/ Becomes(tree[x], "queried")
               \/ Becomes(tree[x], "ooo")  \* found in the cache
      /\ UNCHANGED <<head, new_start, worked, pc, shared_collisions,
                     total_playouts, initial_visits>>

-----------------------------------------------------------------------------
(* Backing up: DoBackupUpdateSingleNode.                                   *)

\* Mutant: looks for leaves in flight, not for collisions.
SolidIsSafe_LeavesOnly(t, x) ==
  \A y \in Children(x) : t[y].flight > 0 => t[y].n > 1 /\ ~IsTerminal(t[y])

\* MakeSolid moves the children of a node, so nobody may have a reference to
\* one: a leaf in flight, or a collision, which is in flight above it only.
SolidIsSafe(t, x) ==
  /\ \A y \in Children(x) : t[y].flight > 0 => t[y].n > 1 /\ ~IsTerminal(t[y])
  /\ SumFunctionOnSet(FlightsOf(t), Children(x)) = t[x].flight

MakeSolid(t, x) ==
  IF /\ t[x].n >= SolidTreeThreshold /\ Children(x) # {} /\ ~IsTerminal(t[x])
     /\ SolidIsSafe(t, x)
  THEN [t EXCEPT ![x].solid = TRUE]
  ELSE t

\* Mutant: what a child's change adds is forgotten.
Finalized_NoAdjust(nd, v, fix) ==
  [nd EXCEPT !.n = @ + 1, !.flight = @ - 1,
             !.own = IF nd.n = 0 THEN v ELSE @, !.w = @ + v]

\* FinalizeScoreUpdate, and AdjustForTerminal by what a child's change of
\* value adds to the sum.  A terminal node has its value.
Finalized(nd, v, fix) ==
  [nd EXCEPT !.n = @ + 1, !.flight = @ - 1,
             !.own = IF nd.n = 0 THEN v ELSE @,
             !.w = @ + v + IF IsTerminal(nd) THEN 0 ELSE fix]

\* MaybeSetBounds: what the children prove of p, seen by the other player.
BestLower(t, p) == Max({t[y].lo : y \in Children(p)})
BestUpper(t, p) == Max({t[y].up : y \in Children(p)})

\* Mutant: a proved parent gets its children's result, not the opposite one.
BoundsSet_SameSide(t, p) ==
  IF BestLower(t, p) = BestUpper(t, p)
  THEN [t EXCEPT ![p] = MakeTerminal(@, BestUpper(t, p))]
  ELSE [t EXCEPT ![p].lo = -BestUpper(t, p), ![p].up = -BestLower(t, p)]

BoundsSet(t, p) ==
  LET lower == BestLower(t, p)
      upper == BestUpper(t, p)
  IN  IF lower = upper THEN [t EXCEPT ![p] = MakeTerminal(@, -upper)]
      ELSE [t EXCEPT ![p].lo = -upper, ![p].up = -lower]
ProvesNothing(t, p) == BestLower(t, p) = -1 /\ BestUpper(t, p) = 1

\* One node of the way up.  s: the tree, the value that arrives, the change of
\* the sum that arrives, and whether the node's parent may learn new bounds.
BackupNode(s, x) ==
  LET v  == IF IsTerminal(s.tree[x]) THEN TerminalValue(s.tree[x]) ELSE s.v
      t  == MakeSolid([s.tree EXCEPT ![x] = Finalized(@, v, s.fix)], x)
      p  == Parent[x]
      sets == /\ s.bounds /\ p # head /\ ~IsTerminal(t[p])
              /\ ~ProvesNothing(t, p)
      t2 == BoundsSet(t, p)
  IN  IF x = head THEN [s EXCEPT !.tree = t]
      ELSE [tree   |-> IF sets THEN t2 ELSE t,
            v      |-> -v,
            fix    |-> CASE IsTerminal(t[p]) -> 0
                         [] sets /\ IsTerminal(t2[p]) -> t2[p].w - t[p].w
                         [] OTHER -> -s.fix,
            bounds |-> sets]

\* A first visit to a terminal may prove something of its parent.
BackedUp(t, x) ==
  LET way[i \in 0 .. Len(PathFrom[x])] ==
        IF i = 0 THEN [tree |-> t, v |-> EvalOf[x], fix |-> 0,
                       bounds |-> IsTerminal(t[x]) /\ t[x].n = 0]
        ELSE BackupNode(way[i - 1], PathFrom[x][i])
  IN  way[Len(PathFrom[x])].tree

-----------------------------------------------------------------------------
(* The rest of a gathering round.                                          *)

Fresh(v) == new_start[v] .. Len(batch[v])
Processed(v) == \A i \in DOMAIN batch[v] : batch[v][i].kind # "picked"
SomeOoo(v) == \E i \in Fresh(v) : batch[v][i].kind = "ooo"

\* With something completed out of order in this round, from its last entry to
\* its first: collisions are given back, what is completed is backed up.
OutOfOrder(v) ==
  LET Due(b) == {i \in new_start[v] .. Len(b) : b[i].kind \in {"ooo", "collision"}}
      i == Max(Due(batch[v]))
      e == batch[v][i]
  IN  /\ Enters(v, {"process"}, "outOfOrder") /\ Processed(v)
      /\ pc[v] = "process" => SomeOoo(v)
      /\ batch' = [batch EXCEPT ![v] = RemoveAt(@, i)]
      /\ IF IsCollision(e)
         THEN /\ tree' = Cancelled(tree, e.node, e.multivisit)
              /\ UNCHANGED <<worked, total_playouts>>
         ELSE /\ tree' = BackedUp(tree, e.node)
              /\ worked' = [worked EXCEPT ![v] = TRUE]
              /\ total_playouts' = total_playouts + 1
      /\ Goto(v, IF Due(batch'[v]) = {} THEN "gathered" ELSE "outOfOrder")
      /\ UNCHANGED <<head, new_start, shared_collisions, initial_visits>>

\* A round that was but one collision: the visits that would follow it there
\* are reserved as well.  (A round with anything in it to upsize has one entry.)
Upsize(v) ==
  /\ pc[v] = "process" /\ Processed(v) /\ ~SomeOoo(v)
  /\ Fresh(v) = {Len(batch[v])} /\ IsCollision(Last(batch[v]))
  /\ ~Locked
  /\ \E extra \in 1 .. MaxMultivisit - Last(batch[v]).multivisit :
       /\ tree' = Reserved(tree, Last(batch[v]).node, extra)
       /\ batch' = [batch EXCEPT ![v][Len(batch[v])].multivisit = @ + extra]
  /\ Goto(v, "gathered")
  /\ UNCHANGED <<head, new_start, worked, shared_collisions, total_playouts,
                 initial_visits>>

\* Nothing to give back and nothing to upsize.
RoundDone(v) ==
  /\ pc[v] = "process" /\ Processed(v) /\ ~SomeOoo(v)
  /\ Goto(v, "gathered")
  /\ UNCHANGED <<tree, head, batch, new_start, worked, shared_collisions,
                 total_playouts, initial_visits>>

-----------------------------------------------------------------------------
(* After gathering.                                                        *)

\* From here on a worker's own collisions are no more than its shared ones.
CollectCollisions(v) ==
  /\ pc[v] = "gathered" /\ ~Locked
  /\ shared_collisions' = [x \in Game |->
       shared_collisions[x] + HeldAt(batch[v], x, {"collision"})]
  /\ batch' = [batch EXCEPT ![v] = WithoutCollisions(@)]
  /\ new_start' = [new_start EXCEPT ![v] = 1]
  /\ Goto(v, "evaluate")
  /\ UNCHANGED <<tree, head, worked, total_playouts, initial_visits>>

\* DoBackupUpdate, once the network has answered: entry by entry ...
BackupUpdate(v) ==
  /\ Enters(v, {"evaluate"}, "backup") /\ batch[v] # <<>>
  /\ tree' = BackedUp(tree, Head(batch[v]).node)
  /\ batch' = [batch EXCEPT ![v] = Tail(@)]
  /\ worked' = [worked EXCEPT ![v] = TRUE]
  /\ total_playouts' = total_playouts + 1
  /\ Goto(v, "backup")
  /\ UNCHANGED <<head, new_start, shared_collisions, initial_visits>>

\* The shared collisions given back, whichever worker's they are.
WithoutSharedCollisions ==
  [y \in Game |-> [tree[y] EXCEPT !.flight = @ -
     SumFunctionOnSet(shared_collisions, {x \in Subtree[head] : y \in Above(x)})]]

\* Mutant: leaves them for the next worker.
CancelSharedCollisions_Kept ==
  /\ tree' = WithoutSharedCollisions
  /\ UNCHANGED shared_collisions

CancelSharedCollisions ==
  /\ tree' = WithoutSharedCollisions
  /\ shared_collisions' = [x \in Game |-> 0]

\* ... and then the shared collisions, if there was anything to back up.
BackupDone(v) ==
  /\ Enters(v, {"evaluate"}, "backup") /\ batch[v] = <<>>
  /\ IF worked[v] THEN CancelSharedCollisions
     ELSE UNCHANGED <<tree, shared_collisions>>
  /\ worked' = [worked EXCEPT ![v] = FALSE]
  /\ Goto(v, "idle")
  /\ UNCHANGED <<head, batch, new_start, total_playouts, initial_visits>>

-----------------------------------------------------------------------------
(* From one search to the next: ~Search, NodeTree::MakeMove and Search.    *)

\* A game end or a draw by rule or repetition was never given edges.
HasEdges(x) == tree[x].term = "end" /\ x \notin DOMAIN GameEnd \cup RuleDraws

\* The root of a search is not terminal: its visits are counted anew, from its
\* value and from its children.
MakeNotTerminal(t, x) ==
  IF ~IsTerminal(t[x]) THEN t[x]
  ELSE IF ~HasEdges(x) THEN [t[x] EXCEPT !.term = "no", !.n = 0, !.w = 0]
  ELSE [t[x] EXCEPT !.term = "no",
          !.n = 1 + SumFunctionOnSet(VisitsOf(t), Children(x)),
          !.w = TerminalValue(t[x]) - SumFunctionOnSet(ValuesOf(t), Children(x)),
          !.own = TerminalValue(t[x])]

\* The same position again, or the one after a move: the rest of the tree is
\* released.
NextSearch(x) ==
  LET t == WithoutSharedCollisions
  IN  /\ \A v \in Workers : pc[v] = "idle"
      /\ x \in {head} \cup Children(head)
      /\ head' = x
      /\ tree' = [y \in Game |->
                    CASE y = x /\ x # head -> MakeNotTerminal(t, x)
                      [] y \notin Subtree[x] -> NewNode
                      [] OTHER -> t[y]]
      /\ shared_collisions' = [y \in Game |-> 0]
      /\ total_playouts' = 0
      /\ initial_visits' = tree'[x].n
      /\ UNCHANGED workerVars

\* Self-play searches each position with a fresh tree.
TrimTreeAtHead ==
  /\ \A v \in Workers : pc[v] = "idle"
  /\ tree' = [y \in Game |-> NewNode]
  /\ shared_collisions' = [y \in Game |-> 0]
  /\ total_playouts' = 0
  /\ initial_visits' = 0
  /\ UNCHANGED <<workerVars, head>>

\* The arena plays its next game on the tree of the last one: back at the first
\* position, which is not the old head, what is left of the tree is stale.
ResetToPosition ==
  /\ \A v \in Workers : pc[v] = "idle"
  /\ head' \in (Game \cap Roots) \ {head}
  /\ tree' = [y \in Game |-> NewNode]
  /\ shared_collisions' = [y \in Game |-> 0]
  /\ total_playouts' = 0
  /\ initial_visits' = 0
  /\ UNCHANGED workerVars

-----------------------------------------------------------------------------
Worker(v) ==
  \/ \E x \in Game, k \in 1 .. MaxMultivisit : Pick(v, x, k)
  \/ PickDone(v)
  \/ \E i \in DOMAIN batch[v] : ExtendNode(v, i)
  \/ OutOfOrder(v) \/ Upsize(v) \/ RoundDone(v)
  \/ CollectCollisions(v) \/ BackupUpdate(v) \/ BackupDone(v)

Next == (\E v \in Workers : Worker(v)) \/ (\E x \in Game : NextSearch(x))
        \/ TrimTreeAtHead \/ ResetToPosition

Spec == Init /\ [][Next]_vars

-----------------------------------------------------------------------------
(* Properties.                                                             *)

Places == {"idle", "pick", "process", "outOfOrder", "gathered", "evaluate", "backup"}

\* Every variable has its type; the counters, which are unsigned, never pass zero.
TypeOK ==
  /\ tree \in [Game -> [n : Nat, flight : Nat, w : Int,
                         term : {"no", "end", "twofold"}, lo : -1 .. 1,
                         up : -1 .. 1, solid : BOOLEAN, own : -1 .. 1]]
  /\ Game \subseteq Nodes /\ head \in Game
  /\ batch \in [Workers -> Seq([node : Game, kind : Kinds, multivisit : Nat \ {0}])]
  /\ new_start \in [Workers -> Nat \ {0}] /\ worked \in [Workers -> BOOLEAN]
  /\ pc \in [Workers -> Places]
  /\ shared_collisions \in [Game -> Nat]
  /\ total_playouts \in Nat /\ initial_visits \in Nat

\* What minibatches hold of a node, and with the shared collisions.
InBatches(y, kinds) == SumFunction([v \in Workers |-> HeldAt(batch[v], y, kinds)])
Held == [y \in Game |-> InBatches(y, Kinds) + shared_collisions[y]]

\* A node is in flight exactly as often as the minibatches and the collisions
\* that were shared hold it or a node below it, however workers gather, give
\* back and back up in between: nothing is given back twice or never.
InFlightLedger ==
  \A x \in Subtree[head] :
    tree[x].flight = InBatches(x, Kinds \ {"collision"})
                       + SumFunctionOnSet(Held, Subtree[x] \ {x})

\* The visits of a node are its own first one and those of its children, its
\* sum of values likewise, also after children became terminal, proved their
\* parents or were taken back; the root's are those found and those made.
VisitLedger ==
  /\ tree[head].n = initial_visits + total_playouts
  /\ \A x \in Subtree[head] : CanDescend(tree[x]) =>
       /\ tree[x].n = 1 + SumFunctionOnSet(VisitsOf(tree), Children(x))
       /\ tree[x].w = tree[x].own - SumFunctionOnSet(ValuesOf(tree), Children(x))

\* What a full search of the game tree would know of a position.
Known[x \in Nodes] ==
  IF x \in DOMAIN GameEnd THEN [lo |-> GameEnd[x], up |-> GameEnd[x]]
  ELSE IF x \in RuleDraws THEN [lo |-> 0, up |-> 0]
  ELSE IF Children(x) = {} THEN [lo |-> -1, up |-> 1]
  ELSE [lo |-> -Max({Known[y].up : y \in Children(x)}),
        up |-> -Max({Known[y].lo : y \in Children(x)})]

\* The bounds of a node below the root never exclude a result that a full search
\* of the game tree leaves possible, whichever visits proved them.
BoundsSound ==
  \A x \in Subtree[head] \ {head} :
    tree[x].lo <= Known[x].lo /\ Known[x].up <= tree[x].up

\* The children of a node are not moved while a minibatch has a reference to
\* one of them.
SafeSolid ==
  [][\A x \in Game : ~tree[x].solid /\ tree'[x].solid =>
       /\ \A v \in Workers : \A i \in DOMAIN batch'[v] :
            batch'[v][i].node \notin Children(x)
       /\ \A y \in Children(x) : shared_collisions'[y] = 0]_vars
=============================================================================
