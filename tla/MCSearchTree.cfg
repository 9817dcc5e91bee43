\* A forced mate, where bounds are proved on the way up, and a repetition in a
\* tree that is kept from one search to the next.
SPECIFICATION Spec
CONSTANTS
  v1 = v1
  v2 = v2
  nr = nr
  nx = nx
  ny = ny
  nm = nm
  nq = nq
  na = na
  nt = nt
  nz = nz
  Workers <- MCWorkers
  Nodes <- MCNodes
  Roots <- MCRoots
  Parent <- MCParent
  GameEnd <- MCEnd
  RuleDraws = {nz}
  Cycle <- MCCycle
  EvalOf <- MCEval
  MinTwoFold = 2
  SolidTreeThreshold = 3
  MaxVisits = 5
  MaxPicks = 3
  MaxMultivisit = 2
SYMMETRY WorkerSymmetry
INVARIANTS TypeOK VisitLedger BoundsSound InFlightLedger
PROPERTIES SafeSolid
