--------------------------- MODULE StrategyProofs ---------------------------
(***************************************************************************)
(* Proofs about the strategies of all problem types, for every problem of  *)
(* the type: what they answer is sound, so that the verdict on it is       *)
(* right.                                                                  *)
(***************************************************************************)
EXTENDS VerificationProofs

-----------------------------------------------------------------------------
(* Routes.                                                                 *)

(* A route is answered with its own weight, or else that there is none.    *)
LEMMA RoutesAreSound ==
    ASSUME NEW p, p.type = "route_planning", NEW routes
    PROVE  /\ AreSound(p, {RouteAnswer(r) : r \in routes}) \/ routes = {}
           /\ \A kinds : AreSound(p, {Infeasible(kinds)})
PROOF
  <1>1. \A kinds : Infeasible(kinds).status = "infeasible"
    BY DEF Infeasible
  <1>2. \A s : ~Unverifiable(p, s)
    BY DEF Unverifiable
  <1>3. ASSUME NEW r PROVE IsSound(p, RouteAnswer(r))
    <2>1. /\ DOMAIN RouteAnswer(r) = Fields /\ RouteAnswer(r).status = "valid"
          /\ RouteAnswer(r).assignments = r /\ RouteAnswer(r).metrics = [total_weight |-> r.weight]
      BY DEF RouteAnswer, Answer, Fields
    <2>2. Truth(p, r) = [total_weight |-> r.weight]
      BY DEF Truth
    <2>3. CheckedMetrics(p, RouteAnswer(r)) = [total_weight |-> r.weight]
      BY <2>1 DEF CheckedMetrics
    <2>4. Truthful(p, RouteAnswer(r))
      BY <2>1, <2>2, <2>3 DEF Truthful
    <2> QED
      BY <2>1, <2>4 DEF IsSound
  <1>4. \A r : IsSound(p, RouteAnswer(r))
    BY <1>3
  <1>5. \A kinds : IsSound(p, Infeasible(kinds))
    BY <1>1 DEF IsSound
  <1> QED
    BY <1>2, <1>4, <1>5 DEF AreSound

(* The strategies for routes are sound.                                    *)
LEMMA RouteStrategiesAreSound ==
    ASSUME NEW p, p.type = "route_planning", NEW st, Chosen(p, st)
    PROVE  AreSound(p, Answers(p, st))
PROOF
  <1>1. st \in {"dijkstra", "bellman_ford", "a_star", "dijkstra_nx", "brute_force"}
    BY DEF Chosen, Registered, Preferred, Range
  <1>2. AreSound(p, Dijkstra(p))
    BY RoutesAreSound DEF Dijkstra, PlanRoute
  <1>3. AreSound(p, AStar(p))
    BY RoutesAreSound DEF AStar, PlanRoute
  <1>4. AreSound(p, BellmanFord(p))
    BY RoutesAreSound DEF BellmanFord, PlanRoute
  <1>5. AreSound(p, DijkstraNx(p))
    BY RoutesAreSound DEF DijkstraNx, PlanRoute
  <1>6. AreSound(p, BruteForceRoute(p))
    BY RoutesAreSound DEF BruteForceRoute
  <1>7. Answers(p, st) \in {Dijkstra(p), BellmanFord(p), AStar(p), DijkstraNx(p), BruteForceRoute(p)}
    BY <1>1 DEF Answers
  <1> QED
    BY <1>2, <1>3, <1>4, <1>5, <1>6, <1>7

-----------------------------------------------------------------------------
(* Shifts.                                                                 *)

(* Whatever roster is answered, its figures are computed.                  *)
LEMMA RostersAreSound ==
    ASSUME NEW p, p.type = "shift_scheduling", IsShiftData(p), NEW s,
           s.status = "infeasible" \/ (s.status = "valid" /\ DOMAIN s = Fields)
    PROVE  IsSound(p, s)
BY ShiftsAreTruthful DEF IsSound

(* What the solver minimizes is a number, ...                              *)
LEMMA SolverScores ==
    ASSUME NEW p, IsShiftData(p), NEW r
    PROVE  CpSatScore(p, r) \in Int
PROOF
  <1> DEFINE terms == [sense : {"minimize", "maximize"}, target : STRING, weight : Int]
             weekly == {WeeklyHours(p, r, s) : s \in Staff(p)}
             worked == {q \in Requests(p) : q[2] \in WorkingDays(p, r, q[1])}
             due(o) ==
                 CASE o.target = "labor_cost" /\ o.sense = "minimize" -> 1000 * o.weight * LaborCost(p, r)
                   [] o.target = "day_off_satisfaction" /\ o.sense = "maximize" /\ Requests(p) # {} ->
                          ((1000 * o.weight) \div Cardinality(Requests(p))) * Cardinality(worked)
                   [] o.target = "hour_variance" /\ o.sense = "minimize" /\ weekly # {} ->
                          1000 * o.weight * (Max(weekly) - Min(weekly))
                   [] OTHER -> 0
             S == DOMAIN p.objectives
             dues == [i \in S |-> due(p.objectives[i])]
  <1>1. p.objectives \in Seq(terms)
    BY DEF IsShiftData
  <1>2. IsFiniteSet(S) /\ \A i \in S : p.objectives[i] \in terms
    <2> HIDE DEF terms
    <2> QED
      BY <1>1, RangeOfSequence, ElementOf
  <1>3. LaborCost(p, r) \in Int
    <2> DEFINE wages == [s \in Staff(p) |-> p.staff[s].wage * HoursWorked(p, r, s)]
    <2>1. IsFiniteSet(Staff(p)) /\ \A s \in Staff(p) : p.staff[s].wage \in Int /\ HoursWorked(p, r, s) \in Int
      BY SlotsOfAre, HoursAreWorked
    <2>2. PaidWages(p, r) = SumFunctionOnSet(wages, Staff(p))
      BY DEF PaidWages, SumFunction
    <2>3. \A s \in Staff(p) : wages[s] \in Int
      BY <2>1
    <2> HIDE DEF wages
    <2> QED
      BY <2>1, <2>2, <2>3, SumTakes, LaborIsPaid
  <1>4. weekly # {} => Max(weekly) \in Int /\ Min(weekly) \in Int
    <2> DEFINE f == [s \in Staff(p) |-> WeeklyHours(p, r, s)]
    <2>1. \A y \in weekly : \E s \in Staff(p) : y = f[s]
      OBVIOUS
    <2>2. weekly \subseteq Int
      BY HoursAreWorked
    <2>3. IsFiniteSet(Staff(p))
      BY SlotsOfAre
    <2> HIDE DEF weekly, f
    <2>4. IsFiniteSet(weekly)
      BY <2>1, <2>3, FiniteImage
    <2> QED
      BY <2>2, <2>4, MaxOfFinite, MinOfFinite
  <1>5. IsFiniteSet(Requests(p))
    BY RequestsAreFinite
  <1>6. Cardinality(Requests(p)) \in Nat /\ Cardinality(worked) \in Nat
        /\ (Requests(p) # {} => Cardinality(Requests(p)) # 0)
    <2>1. worked \subseteq Requests(p)
      OBVIOUS
    <2> HIDE DEF worked
    <2> QED
      BY <1>5, <2>1, FS_Subset, FS_CardinalityType, FS_EmptySet
  <1>7. ASSUME NEW o \in terms PROVE due(o) \in Int
    <2>1. o.weight \in Int
      OBVIOUS
    <2> HIDE DEF weekly, worked, terms
    <2> DEFINE w == o.weight
               share == (1000 * w) \div Cardinality(Requests(p))
    <2>2. Requests(p) # {} => share \in Int
      BY <2>1, <1>6
    <2>3. Requests(p) # {} => share * Cardinality(worked) \in Int
      <3> HIDE DEF share
      <3> QED
        BY <2>2, <1>6
    <2>4. 1000 * w * LaborCost(p, r) \in Int
      BY <2>1, <1>3
    <2>5. weekly # {} => 1000 * w * (Max(weekly) - Min(weekly)) \in Int
      BY <2>1, <1>4
    <2> QED
      BY <2>3, <2>4, <2>5
  <1>8. CpSatScore(p, r) = SumFunctionOnSet(dues, S)
    BY DEF CpSatScore, SumFunction
  <1>9. \A i \in S : dues[i] \in Int
    <2> HIDE DEF due, terms
    <2> QED
      BY <1>2, <1>7
  <1> HIDE DEF dues, S
  <1> QED
    BY <1>2, <1>8, <1>9, SumTakes

(* ... so that one of the rosters is best.                                 *)
LEMMA SolverAnswers ==
    ASSUME NEW p, IsShiftData(p)
    PROVE  CpSatShift(p) # {}
PROOF
  <1> DEFINE inOrder(l, staff) == SelectSeq(Eligible(p, l), LAMBDA s : s \in staff)
             picks(l) == kSubset(p.slots[l].headcount, Range(Eligible(p, l)))
             choices(l) == {inOrder(l, c) : c \in picks(l)}
             days == {p.slots[l].day : l \in Slots(p)}
             keepsLimits(r) ==
                 \A s \in Staff(p) :
                     /\ WeeklyHours(p, r, s) <= p.maxHours
                     /\ \A d \in days : LET window == d..(d + p.maxRun)
                                        IN  window \subseteq days => ~(window \subseteq WorkingDays(p, r, s))
             U == UNION {choices(l) : l \in Slots(p)}
             rosters == {r \in [Slots(p) -> U] : (\A l \in Slots(p) : r[l] \in choices(l)) /\ keepsLimits(r)}
             scores == {CpSatScore(p, r) : r \in rosters}
  <1>1. CpSatShift(p) = IF rosters = {} THEN {Infeasible({})}
                        ELSE {Answer(r, ShiftMetrics(p, r)) : r \in {r \in rosters : CpSatScore(p, r) = Min(scores)}}
    BY DEF CpSatShift
  <1>2. IsFiniteSet(Slots(p)) /\ IsFiniteSet(Staff(p))
    BY SlotsOfAre
  <1>3. ASSUME NEW l \in Slots(p) PROVE IsFiniteSet(choices(l))
    <2> DEFINE E == {s \in Staff(p) : IsEligible(p, l, s)}
    <2> DEFINE pick(i) == CHOOSE x \in E : Cardinality({y \in E : \/ p.staff[y].wage < p.staff[x].wage
                                                                  \/ p.staff[y].wage = p.staff[x].wage /\ y < x}) = i - 1
    <2>6. Eligible(p, l) = [i \in 1..Cardinality(E) |-> pick(i)]
      BY DEF Eligible, Arranged
    <2>1. Eligible(p, l) = [i \in 1..Cardinality(E) |-> Eligible(p, l)[i]]
      <3> HIDE DEF pick, E
      <3> QED
        BY <2>6
    <2>2. Cardinality(E) \in Nat
      <3>1. E \subseteq Staff(p)
        OBVIOUS
      <3> HIDE DEF E
      <3> QED
        BY <1>2, <3>1, FS_Subset, FS_CardinalityType
    <2>3. IsFiniteSet(Range(Eligible(p, l)))
      <3>1. IsFiniteSet(1..Cardinality(E))
        BY <2>2, FS_Interval
      <3> HIDE DEF E
      <3>2. \A y \in Range(Eligible(p, l)) : \E i \in 1..Cardinality(E) : y = Eligible(p, l)[i]
        BY <2>1 DEF Range
      <3> QED
        BY <3>1, <3>2, FiniteImage
    <2>4. IsFiniteSet(picks(l))
      <3>1. picks(l) \subseteq SUBSET Range(Eligible(p, l))
        BY DEF kSubset
      <3>2. IsFiniteSet(SUBSET Range(Eligible(p, l)))
        BY <2>3, FS_SUBSET
      <3> HIDE DEF picks
      <3> QED
        BY <3>1, <3>2, FS_Subset
    <2> DEFINE f == [c \in picks(l) |-> inOrder(l, c)]
    <2> HIDE DEF picks, inOrder
    <2>5. \A y \in choices(l) : \E c \in picks(l) : y = f[c]
      OBVIOUS
    <2> HIDE DEF choices, f
    <2> QED
      BY <2>4, <2>5, FiniteImage
  <1>4. IsFiniteSet(U)
    <2> DEFINE all == [l \in Slots(p) |-> choices(l)]
    <2> HIDE DEF choices
    <2>1. \A y \in {choices(l) : l \in Slots(p)} : \E l \in Slots(p) : y = all[l]
      OBVIOUS
    <2> HIDE DEF all
    <2>2. IsFiniteSet({choices(l) : l \in Slots(p)})
      BY <1>2, <2>1, FiniteImage
    <2>3. \A T \in {choices(l) : l \in Slots(p)} : IsFiniteSet(T)
      BY <1>3
    <2> QED
      BY <2>2, <2>3, FS_UNION
  <1> HIDE DEF U, choices, keepsLimits
  <1>5. IsFiniteSet(rosters)
    <2>1. rosters \subseteq [Slots(p) -> U]
      OBVIOUS
    <2>2. IsFiniteSet([Slots(p) -> U])
      BY <1>2, <1>4, FiniteFunctions
    <2> HIDE DEF rosters
    <2> QED
      BY <2>1, <2>2, FS_Subset
  <1> HIDE DEF rosters
  <1>6. IsFiniteSet(scores)
    <2> DEFINE f == [r \in rosters |-> CpSatScore(p, r)]
    <2>1. \A y \in scores : \E r \in rosters : y = f[r]
      OBVIOUS
    <2> HIDE DEF f, scores
    <2> QED
      BY <1>5, <2>1, FiniteImage
  <1>7. scores \subseteq Int
    BY SolverScores
  <1>8. CASE rosters = {}
    BY <1>1, <1>8
  <1>9. CASE rosters # {}
    <2>1. scores # {}
      BY <1>9
    <2>2. Min(scores) \in scores
      <3> HIDE DEF scores
      <3> QED
        BY <1>6, <1>7, <2>1, MinOfFinite
    <2>3. PICK r \in rosters : CpSatScore(p, r) = Min(scores)
      BY <2>2
    <2> HIDE DEF scores
    <2>4. Answer(r, ShiftMetrics(p, r)) \in CpSatShift(p)
      BY <1>1, <1>9, <2>3
    <2> QED
      BY <2>4
  <1> QED
    BY <1>8, <1>9

(* The strategies for shifts are sound.                                    *)
LEMMA ShiftStrategiesAreSound ==
    ASSUME NEW p, p.type = "shift_scheduling", IsShiftData(p), NEW st, Chosen(p, st)
    PROVE  AreSound(p, Answers(p, st))
PROOF
  <1>1. st \in {"greedy", "backtracking", "branch_and_bound", "cp_sat"}
    BY DEF Chosen, Registered, Preferred, Range
  <1>2. \A a, m : Answer(a, m).status = "valid" /\ DOMAIN Answer(a, m) = Fields
    BY DEF Answer, Fields
  <1>3. \A kinds : Infeasible(kinds).status = "infeasible"
    BY DEF Infeasible
  <1>4. \A kinds, m : Updated(Infeasible(kinds), [metrics |-> m]).status = "infeasible"
    BY DEF Infeasible, Updated
  <1>5. \A s : ~Unverifiable(p, s)
    BY DEF Unverifiable
  <1>6. \A s : s.status = "infeasible" \/ (s.status = "valid" /\ DOMAIN s = Fields) => IsSound(p, s)
    BY RostersAreSound
  <1>7. AreSound(p, GreedyShift(p))
    BY <1>2, <1>5, <1>6 DEF GreedyShift, AreSound
  <1>12. ASSUME NEW s, s.status = "infeasible" \/ (s.status = "valid" /\ DOMAIN s = Fields)
         PROVE  AreSound(p, {s})
    BY <1>5, <1>6, <1>12 DEF AreSound
  <1>8. AreSound(p, BacktrackingShift(p))
    <2> DEFINE best == Found(p, FALSE).best
               s == IF best = None THEN Infeasible({}) ELSE Answer(best, ShiftMetrics(p, best))
    <2>1. BacktrackingShift(p) = {s}
      BY DEF BacktrackingShift
    <2>2. s = Infeasible({}) \/ s = Answer(best, ShiftMetrics(p, best))
      OBVIOUS
    <2> HIDE DEF s, best
    <2>3. s.status = "infeasible" \/ (s.status = "valid" /\ DOMAIN s = Fields)
      BY <1>2, <1>3, <2>2
    <2> QED
      BY <1>12, <2>1, <2>3
  <1>9. AreSound(p, BranchAndBoundShift(p))
    <2> DEFINE found == Found(p, TRUE)
               truncated == IF found.truncated THEN [f \in {"_truncated"} |-> 1] ELSE <<>>
               s == IF found.best = None THEN Updated(Infeasible({}), [metrics |-> truncated])
                    ELSE Answer(found.best, Updated(truncated, ShiftMetrics(p, found.best)))
    <2>1. BranchAndBoundShift(p) = {s}
      BY DEF BranchAndBoundShift
    <2> HIDE DEF truncated, found
    <2>2. \/ s = Updated(Infeasible({}), [metrics |-> truncated])
          \/ s = Answer(found.best, Updated(truncated, ShiftMetrics(p, found.best)))
      OBVIOUS
    <2> HIDE DEF s
    <2>3. s.status = "infeasible" \/ (s.status = "valid" /\ DOMAIN s = Fields)
      BY <1>2, <1>4, <2>2
    <2> QED
      BY <1>12, <2>1, <2>3
  <1>10. AreSound(p, CpSatShift(p))
    <2>1. \A s \in CpSatShift(p) : s.status = "infeasible" \/ (s.status = "valid" /\ DOMAIN s = Fields)
      BY <1>2, <1>3 DEF CpSatShift
    <2> QED
      BY <1>5, <1>6, <2>1, SolverAnswers DEF AreSound
  <1>11. Answers(p, st) \in {GreedyShift(p), BacktrackingShift(p), BranchAndBoundShift(p), CpSatShift(p)}
    BY <1>1 DEF Answers
  <1> QED
    BY <1>7, <1>8, <1>9, <1>10, <1>11

-----------------------------------------------------------------------------
(* The union-find of Kruskal's algorithm.                                  *)

(* A forest: an element has a lower rank than its parent.                  *)
IsForest(uf, S) ==
    /\ uf = [parent |-> uf.parent, rank |-> uf.rank]
    /\ uf.parent \in [S -> S] /\ uf.rank \in [S -> Nat]
    /\ \A x \in S : uf.parent[x] # x => uf.rank[x] < uf.rank[uf.parent[x]]

(* The way up ends in a root, ...                                          *)
LEMMA UpwardIs ==
    ASSUME NEW S, IsFiniteSet(S), NEW uf, IsForest(uf, S)
    PROVE  \A x \in S : /\ Upward(uf.parent, x) \in Seq(S)
                        /\ Upward(uf.parent, x) = IF uf.parent[x] = x THEN <<x>>
                                                  ELSE <<x>> \o Upward(uf.parent, uf.parent[x])
PROOF
  <1> DEFINE parent == uf.parent
             rank == uf.rank
             Unfold(f) == [y \in DOMAIN parent |-> IF parent[y] = y THEN <<y>> ELSE <<y>> \o f[parent[y]]]
             up == CHOOSE f : f = Unfold(f)
  <1>1. /\ parent \in [S -> S] /\ rank \in [S -> Nat]
        /\ \A x \in S : parent[x] # x => rank[x] < rank[parent[x]]
    BY DEF IsForest
  <1>2. \A x : Upward(parent, x) = up[x]
    BY DEF Upward
  <1> HIDE DEF parent, rank
  <1>3. PICK n \in Nat : \A x \in S : rank[x] <= n
    <2> DEFINE values == {rank[x] : x \in S} \cup {0}
    <2>1. IsFiniteSet({rank[x] : x \in S})
      <3> DEFINE T == {rank[x] : x \in S}
      <3>1. \A y \in T : \E x \in S : y = rank[x]
        OBVIOUS
      <3> HIDE DEF T
      <3> QED
        BY <3>1, FiniteImage
    <2>2. IsFiniteSet(values) /\ values \subseteq Int /\ values # {}
      BY <1>1, <2>1, FS_AddElement
    <2>3. \A x \in S : rank[x] \in values
      OBVIOUS
    <2>4. values \subseteq Nat
      BY <1>1
    <2> HIDE DEF values
    <2>5. Max(values) \in values /\ \A v \in values : v <= Max(values)
      BY <2>2, MaxOfFinite
    <2> QED
      BY <2>3, <2>4, <2>5
  <1> DEFINE measure == [x \in S |-> n - rank[x]]
             Halts == {x \in S : parent[x] = x}
             base == [x \in S |-> <<x>>]
             after == [x \in S |-> [s \in Seq(S) |-> <<x>> \o s]]
  <1>4. \A x \in S : measure[x] \in 0..n
    BY <1>1, <1>3
  <1>5. base \in [S -> Seq(S)] /\ after \in [S -> [Seq(S) -> Seq(S)]]
    <2>1. \A x \in S : <<x>> \in Seq(S)
      OBVIOUS
    <2>2. \A x \in S : \A s \in Seq(S) : <<x>> \o s \in Seq(S)
      BY <2>1
    <2> QED
      BY <2>1, <2>2
  <1>6. \A x \in S \ Halts : measure[parent[x]] < measure[x]
    BY <1>1
  <1>7. \E f \in [S -> Seq(S)] : Descends(f, S, Halts, base, parent, after)
    <2> HIDE DEF measure, Halts, base, after
    <2> QED
      BY <1>1, <1>4, <1>5, <1>6, DescentExists
  <1>8. PICK f \in [S -> Seq(S)] : Descends(f, S, Halts, base, parent, after)
    BY <1>7
  <1>9. f = Unfold(f)
    <2>1. \A x \in S : f[x] = IF parent[x] = x THEN <<x>> ELSE <<x>> \o f[parent[x]]
      <3>1. \A x \in S : f[parent[x]] \in Seq(S)
        BY <1>1
      <3> QED
        BY <1>1, <1>8, <3>1 DEF Descends
    <2>2. f = [y \in S |-> f[y]] /\ DOMAIN parent = S
      BY <1>1
    <2> QED
      BY <2>1, <2>2
  <1>10. up = Unfold(up)
    <2> HIDE DEF Unfold
    <2> QED
      BY <1>9
  <1>11. \A x \in S : up[x] = IF parent[x] = x THEN <<x>> ELSE <<x>> \o up[parent[x]]
    <2>1. DOMAIN parent = S
      BY <1>1
    <2> HIDE DEF up
    <2> QED
      BY <1>10, <2>1
  <1> DEFINE Good == {x \in S : up[x] \in Seq(S)}
  <1>12. S \subseteq Good
    <2>1. \A x \in S : measure[x] \in Nat
      BY <1>4
    <2>2. \A x \in S : \A s \in Seq(S) : <<x>> \o s \in Seq(S) /\ <<x>> \in Seq(S)
      OBVIOUS
    <2>3. ASSUME NEW x \in S
          PROVE  x \in Good \/ (parent[x] \in S /\ measure[parent[x]] < measure[x] /\ (parent[x] \in Good => x \in Good))
      <3> HIDE DEF up, measure
      <3> QED
        BY <1>1, <1>6, <1>11, <2>2
    <2> HIDE DEF Good, measure, up
    <2> QED
      BY <2>1, <2>3, DescentKeeps
  <1> HIDE DEF up
  <1> QED
    BY <1>2, <1>11, <1>12 DEF parent

(* ... the same one from everywhere on it.                                 *)
LEMMA RootIs ==
    ASSUME NEW S, IsFiniteSet(S), NEW uf, IsForest(uf, S)
    PROVE  \A x \in S : LET root == Root(uf.parent, x)
                        IN  /\ root \in S /\ uf.parent[root] = root
                            /\ x = root \/ uf.rank[x] < uf.rank[root]
                            /\ root = Root(uf.parent, uf.parent[x])
                            /\ uf.parent[x] = x => root = x
                            /\ x \in Range(Upward(uf.parent, x)) /\ root \in Range(Upward(uf.parent, x))
                            /\ \A y \in Range(Upward(uf.parent, x)) : y \in S /\ Root(uf.parent, y) = root
PROOF
  <1> DEFINE parent == uf.parent
             rank == uf.rank
             up(x) == Upward(parent, x)
             root(x) == Root(parent, x)
  <1>1. /\ parent \in [S -> S] /\ rank \in [S -> Nat]
        /\ \A x \in S : parent[x] # x => rank[x] < rank[parent[x]]
    BY DEF IsForest
  <1>2. \A x \in S : up(x) \in Seq(S) /\ up(x) = IF parent[x] = x THEN <<x>> ELSE <<x>> \o up(parent[x])
    BY UpwardIs
  <1>3. \A x : root(x) = Last(up(x))
    BY DEF Root
  <1> HIDE DEF parent, rank, up, root
  <1>4. ASSUME NEW x \in S, parent[x] = x
        PROVE  root(x) = x /\ Range(up(x)) = {x}
    <2>1. up(x) = <<x>>
      BY <1>2, <1>4
    <2> QED
      BY <1>3, <2>1 DEF Last, Range
  <1>5. ASSUME NEW x \in S, parent[x] # x, up(parent[x]) # <<>>
        PROVE  up(x) # <<>> /\ root(x) = root(parent[x]) /\ Range(up(x)) = {x} \cup Range(up(parent[x]))
    <2>1. parent[x] \in S
      BY <1>1
    <2> DEFINE s == up(parent[x])
               t == up(x)
    <2>2. s \in Seq(S) /\ t = <<x>> \o s /\ s # <<>>
      BY <1>2, <1>5, <2>1
    <2>4. root(parent[x]) = s[Len(s)] /\ root(x) = t[Len(t)]
      BY <1>3 DEF Last
    <2>5. s \in Seq(S) /\ Len(s) \in Nat /\ Len(s) > 0 /\ DOMAIN s = 1..Len(s)
      <3> HIDE DEF s, t
      <3> QED
        BY <2>2, EmptySeq
    <2>6. /\ Len(t) = Len(s) + 1 /\ DOMAIN t = 1..Len(t) /\ t[1] = x
          /\ \A i \in 1..Len(s) : t[i + 1] = s[i]
      <3> HIDE DEF s, t
      <3>1. \A r \in Seq(S) : LET u == <<x>> \o r IN
               Len(u) = Len(r) + 1 /\ DOMAIN u = 1..Len(u) /\ u[1] = x /\ \A i \in 1..Len(r) : u[i + 1] = r[i]
        OBVIOUS
      <3> QED
        BY <2>2, <3>1
    <2> HIDE DEF s, t
    <2>7. t[Len(t)] = s[Len(s)] /\ t # <<>>
      BY <2>5, <2>6
    <2>8. Range(t) = {x} \cup Range(s)
      <3>1. \A i \in 1..Len(t) : i = 1 \/ (i - 1 \in 1..Len(s) /\ t[i] = s[i - 1])
        BY <2>5, <2>6
      <3>2. \A i \in 1..Len(s) : i + 1 \in 1..Len(t)
        BY <2>5, <2>6
      <3>3. \A y \in Range(t) : y = x \/ y \in Range(s)
        <4>1. SUFFICES ASSUME NEW i \in 1..Len(t) PROVE t[i] = x \/ t[i] \in Range(s)
          BY <2>6 DEF Range
        <4>2. CASE i = 1
          BY <2>6, <4>2
        <4>3. CASE i - 1 \in 1..Len(s) /\ t[i] = s[i - 1]
          <5> DEFINE k == i - 1
          <5>1. k \in DOMAIN s /\ t[i] = s[k]
            BY <2>5, <4>3
          <5> HIDE DEF k
          <5> QED
            BY <5>1 DEF Range
        <4> QED
          BY <3>1, <4>2, <4>3
      <3>4. 1 \in DOMAIN t /\ x \in Range(t)
        BY <2>5, <2>6 DEF Range
      <3>5. ASSUME NEW y \in Range(s) PROVE y \in Range(t)
        <4>1. PICK i \in 1..Len(s) : y = s[i]
          BY <2>5 DEF Range
        <4>2. i + 1 \in DOMAIN t /\ t[i + 1] = y
          BY <2>6, <3>2, <4>1
        <4> QED
          BY <4>2 DEF Range
      <3> QED
        BY <3>3, <3>4, <3>5
    <2> QED
      BY <2>4, <2>7, <2>8 DEF s, t
  <1> DEFINE Right(x) == /\ up(x) # <<>> /\ root(x) \in S /\ parent[root(x)] = root(x)
                         /\ x = root(x) \/ rank[x] < rank[root(x)]
                         /\ x \in Range(up(x)) /\ root(x) \in Range(up(x))
                         /\ \A y \in Range(up(x)) : y \in S /\ root(y) = root(x)
             Good == {x \in S : Right(x)}
  <1>6. \A x \in S : parent[x] = x => Right(x)
    <2> SUFFICES ASSUME NEW x \in S, parent[x] = x PROVE Right(x)
      OBVIOUS
    <2>2. <<x>> # <<>>
      OBVIOUS
    <2>1. up(x) # <<>>
      BY <1>2, <2>2
    <2> QED
      BY <1>4, <2>1
  <1>7. \A x \in S : parent[x] # x /\ Right(parent[x]) => Right(x)
    <2> SUFFICES ASSUME NEW x \in S, parent[x] # x, Right(parent[x]) PROVE Right(x)
      OBVIOUS
    <2>1. up(x) # <<>> /\ root(x) = root(parent[x]) /\ Range(up(x)) = {x} \cup Range(up(parent[x]))
      BY <1>5
    <2>2. rank[x] \in Nat /\ rank[parent[x]] \in Nat /\ rank[root(x)] \in Nat /\ rank[x] < rank[parent[x]]
      BY <1>1, <2>1
    <2>3. rank[x] < rank[root(x)]
      BY <2>1, <2>2
    <2> QED
      BY <2>1, <2>3
  <1>8. S \subseteq Good
    <2> DEFINE values == {rank[x] : x \in S}
    <2>1. ASSUME S \ Good # {} PROVE FALSE
      <3> DEFINE bad == {rank[x] : x \in S \ Good}
      <3>1. IsFiniteSet(bad)
        <4>1. \A y \in bad : \E x \in S : y = rank[x]
          OBVIOUS
        <4> HIDE DEF bad
        <4> QED
          BY <4>1, FiniteImage
      <3>2. bad \subseteq Int /\ bad # {}
        BY <1>1, <2>1
      <3>3. Max(bad) \in bad /\ \A v \in bad : v <= Max(bad)
        <4> HIDE DEF bad
        <4> QED
          BY <3>1, <3>2, MaxOfFinite
      <3>4. PICK x \in S \ Good : rank[x] = Max(bad)
        BY <3>3
      <3>5. parent[x] # x /\ parent[x] \in S /\ parent[x] \notin Good
        BY <1>1, <1>6, <1>7
      <3>6. rank[parent[x]] \in bad
        BY <3>5
      <3>7. rank[parent[x]] <= rank[x] /\ rank[x] < rank[parent[x]]
        BY <1>1, <3>3, <3>4, <3>5, <3>6
      <3> HIDE DEF bad
      <3> QED
        BY <1>1, <3>5, <3>7
    <2> QED
      BY <2>1
  <1>9. ASSUME NEW x \in S PROVE root(x) = root(parent[x])
    BY <1>1, <1>5, <1>8
  <1> QED
    BY <1>4, <1>8, <1>9 DEF parent, rank, up, root

(* The roots are told by what parents have in common.                      *)
LEMMA RootUnique ==
    ASSUME NEW S, IsFiniteSet(S), NEW uf, IsForest(uf, S), NEW g,
           \A x \in S : g[x] = g[uf.parent[x]] /\ (uf.parent[x] = x => g[x] = x)
    PROVE  \A x \in S : Root(uf.parent, x) = g[x]
PROOF
  <1>1. /\ uf.parent \in [S -> S] /\ uf.rank \in [S -> Nat]
        /\ \A x \in S : uf.parent[x] # x => uf.rank[x] < uf.rank[uf.parent[x]]
    BY DEF IsForest
  <1>2. SUFFICES ASSUME NEW x \in S PROVE Root(uf.parent, x) = g[x]
    OBVIOUS
  <1> DEFINE root == Root(uf.parent, x)
             up == Upward(uf.parent, x)
             Right(y) == g[y] = g[root]
  <1>3. \A y \in S : g[y] = g[Root(uf.parent, y)]
    <2> DEFINE bad == {y \in S : g[y] # g[Root(uf.parent, y)]}
               ranks == {uf.rank[y] : y \in bad}
    <2>1. SUFFICES ASSUME bad # {} PROVE FALSE
      OBVIOUS
    <2>2. IsFiniteSet(ranks)
      <3> DEFINE rank == uf.rank
      <3>1. \A r \in ranks : \E y \in S : r = rank[y]
        OBVIOUS
      <3> HIDE DEF ranks
      <3> QED
        BY <3>1, FiniteImage
    <2>3. ranks \subseteq Int /\ ranks # {}
      BY <1>1, <2>1
    <2>4. Max(ranks) \in ranks /\ \A r \in ranks : r <= Max(ranks)
      <3> HIDE DEF ranks
      <3> QED
        BY <2>2, <2>3, MaxOfFinite
    <2>5. PICK y \in bad : uf.rank[y] = Max(ranks)
      BY <2>4
    <2>6. Root(uf.parent, y) = Root(uf.parent, uf.parent[y]) /\ (uf.parent[y] = y => Root(uf.parent, y) = y)
      BY RootIs
    <2>7. uf.parent[y] # y /\ uf.parent[y] \in bad
      BY <1>1, <2>6
    <2>8. uf.rank[uf.parent[y]] <= uf.rank[y] /\ uf.rank[y] < uf.rank[uf.parent[y]]
      BY <1>1, <2>4, <2>5, <2>7
    <2>9. uf.rank[y] \in Nat /\ uf.rank[uf.parent[y]] \in Nat
      BY <1>1
    <2> HIDE DEF bad, ranks
    <2> QED
      BY <2>8, <2>9
  <1>4. root \in S /\ uf.parent[root] = root
    BY RootIs
  <1> QED
    BY <1>3, <1>4

(* find: the elements are hung below their root, and the roots stay.       *)
LEMMA CompressedIs ==
    ASSUME NEW S, IsFiniteSet(S), NEW uf, IsForest(uf, S), NEW x \in S, NEW new,
           new = [parent |-> Compressed(uf.parent, x), rank |-> uf.rank]
    PROVE  IsForest(new, S) /\ \A y \in S : Root(new.parent, y) = Root(uf.parent, y)
PROOF
  <1> DEFINE root == Root(uf.parent, x)
             path == Range(Upward(uf.parent, x))
             g == [y \in S |-> Root(uf.parent, y)]
  <1>1. /\ uf.parent \in [S -> S] /\ uf.rank \in [S -> Nat]
        /\ \A y \in S : uf.parent[y] # y => uf.rank[y] < uf.rank[uf.parent[y]]
    BY DEF IsForest
  <1>2. /\ root \in S /\ uf.parent[root] = root /\ root \in path
        /\ \A y \in path : y \in S /\ Root(uf.parent, y) = root
    BY RootIs
  <1>3. \A y \in S : new.parent[y] = IF y \in path THEN root ELSE uf.parent[y]
    BY <1>1 DEF Compressed
  <1>4. new.parent \in [S -> S] /\ new.rank = uf.rank /\ new = [parent |-> new.parent, rank |-> new.rank]
    BY <1>1, <1>2 DEF Compressed
  <1>5. ASSUME NEW y \in S
        PROVE  /\ g[y] \in S /\ (y = g[y] \/ uf.rank[y] < uf.rank[g[y]])
               /\ g[y] = g[uf.parent[y]] /\ (uf.parent[y] = y => g[y] = y) /\ g[g[y]] = g[y]
    <2>1. /\ g[y] \in S /\ uf.parent[g[y]] = g[y]
          /\ y = g[y] \/ uf.rank[y] < uf.rank[g[y]]
          /\ g[y] = Root(uf.parent, uf.parent[y])
          /\ uf.parent[y] = y => g[y] = y
      BY RootIs
    <2>2. Root(uf.parent, g[y]) = g[y]
      BY <2>1, RootIs
    <2> QED
      BY <1>1, <2>1, <2>2
  <1>6. \A y \in path : y \in S /\ g[y] = root
    BY <1>2
  <1>7. g[root] = root
    BY <1>2, <1>6
  <1> HIDE DEF g, root, path
  <1>8. IsForest(new, S)
    <2>1. ASSUME NEW y \in S, new.parent[y] # y PROVE new.rank[y] < new.rank[new.parent[y]]
      BY <1>1, <1>2, <1>3, <1>4, <1>5, <1>6, <2>1, SMTT(30)
    <2> QED
      BY <1>1, <1>4, <2>1 DEF IsForest
  <1>9. \A y \in S : g[y] = g[new.parent[y]] /\ (new.parent[y] = y => g[y] = y)
    BY <1>3, <1>5, <1>6, <1>7
  <1>10. \A y \in S : Root(new.parent, y) = g[y]
    BY <1>8, <1>9, RootUnique
  <1> QED
    BY <1>8, <1>10 DEF g

(* union: two elements are in one tree if they were, or if their trees are *)
(* those of the two ends.                                                  *)
THEOREM UnionIs ==
    ASSUME NEW S, IsFiniteSet(S), NEW uf, IsForest(uf, S), NEW link, link.a \in S, link.b \in S
    PROVE  LET new == Union(uf, link)
               ends == {Root(uf.parent, link.a), Root(uf.parent, link.b)}
           IN  /\ IsForest(new, S)
               /\ \A y, z \in S : Root(new.parent, y) = Root(new.parent, z) <=>
                      \/ Root(uf.parent, y) = Root(uf.parent, z)
                      \/ Root(uf.parent, y) \in ends /\ Root(uf.parent, z) \in ends
PROOF
  <1> DEFINE one == [parent |-> Compressed(uf.parent, link.a), rank |-> uf.rank]
             two == [parent |-> Compressed(one.parent, link.b), rank |-> one.rank]
             hung(top, low) ==
                 [parent |-> [two.parent EXCEPT ![low] = top],
                  rank |-> IF uf.rank[top] = uf.rank[low] THEN [uf.rank EXCEPT ![top] = @ + 1] ELSE uf.rank]
             ra == Root(two.parent, link.a)
             rb == Root(two.parent, link.b)
             new == Union(uf, link)
  <1>1. IsForest(one, S) /\ \A y \in S : Root(one.parent, y) = Root(uf.parent, y)
    <2> HIDE DEF one
    <2>1. one = [parent |-> Compressed(uf.parent, link.a), rank |-> uf.rank]
      BY DEF one
    <2> QED
      BY <2>1, CompressedIs
  <1>2. IsForest(two, S) /\ \A y \in S : Root(two.parent, y) = Root(uf.parent, y)
    <2> HIDE DEF one, two
    <2>1. two = [parent |-> Compressed(one.parent, link.b), rank |-> one.rank]
      BY DEF two
    <2>2. IsForest(two, S) /\ \A y \in S : Root(two.parent, y) = Root(one.parent, y)
      BY <1>1, <2>1, CompressedIs
    <2> QED
      BY <1>1, <2>2
  <1>3. new = IF ra = rb THEN [uf EXCEPT !.parent = two.parent]
              ELSE IF uf.rank[ra] < uf.rank[rb] THEN hung(rb, ra) ELSE hung(ra, rb)
    BY DEF Union
  <1>4. two.rank = uf.rank /\ uf = [parent |-> uf.parent, rank |-> uf.rank] /\ two = [parent |-> two.parent, rank |-> two.rank]
    BY DEF IsForest
  <1> HIDE DEF one, two, ra, rb
  <1>5. ra = Root(uf.parent, link.a) /\ rb = Root(uf.parent, link.b)
    BY <1>2 DEF ra, rb
  <1>6. /\ ra \in S /\ rb \in S /\ two.parent[ra] = ra /\ two.parent[rb] = rb
    BY <1>2, RootIs DEF ra, rb
  <1>7. CASE ra = rb
    <2>1. new = two
      BY <1>3, <1>4, <1>7
    <2> QED
      BY <1>2, <1>5, <1>7, <2>1
  <1>8. ASSUME NEW top \in S, NEW low \in S, {top, low} = {ra, rb}, top # low, new = hung(top, low),
               uf.rank[low] <= uf.rank[top]
        PROVE  /\ IsForest(new, S)
               /\ \A y, z \in S : Root(new.parent, y) = Root(new.parent, z) <=>
                      \/ Root(uf.parent, y) = Root(uf.parent, z)
                      \/ Root(uf.parent, y) \in {ra, rb} /\ Root(uf.parent, z) \in {ra, rb}
    <2> DEFINE g == [y \in S |-> IF Root(two.parent, y) = low THEN top ELSE Root(two.parent, y)]
    <2>1. /\ two.parent \in [S -> S] /\ uf.rank \in [S -> Nat]
          /\ \A y \in S : two.parent[y] # y => uf.rank[y] < uf.rank[two.parent[y]]
      BY <1>2, <1>4 DEF IsForest
    <2>2. two.parent[top] = top /\ two.parent[low] = low
      BY <1>6, <1>8
    <2>3. /\ \A y \in S : new.parent[y] = IF y = low THEN top ELSE two.parent[y]
          /\ new.parent \in [S -> S] /\ new = [parent |-> new.parent, rank |-> new.rank]
      BY <1>8, <2>1
    <2>4. /\ new.rank \in [S -> Nat] /\ new.rank[low] < new.rank[top]
          /\ \A y \in S : y # top => new.rank[y] = uf.rank[y]
          /\ uf.rank[top] <= new.rank[top]
      <3>1. CASE uf.rank[top] = uf.rank[low]
        <4>1. new.rank = [uf.rank EXCEPT ![top] = @ + 1]
          BY <1>8, <3>1
        <4> QED
          BY <1>8, <2>1, <3>1, <4>1
      <3>2. CASE uf.rank[top] # uf.rank[low]
        <4>1. new.rank = uf.rank
          BY <1>8, <3>2
        <4> QED
          BY <1>8, <2>1, <3>2, <4>1
      <3> QED
        BY <3>1, <3>2
    <2>5. IsForest(new, S)
      <3>1. ASSUME NEW y \in S, new.parent[y] # y PROVE new.rank[y] < new.rank[new.parent[y]]
        <4>1. CASE y = low
          BY <2>3, <2>4, <4>1
        <4>2. CASE y # low
          <5>1. new.parent[y] = two.parent[y] /\ y # top
            BY <2>2, <2>3, <3>1, <4>2
          <5>2. new.rank[y] = uf.rank[y] /\ uf.rank[y] < uf.rank[two.parent[y]]
            BY <2>1, <2>4, <3>1, <5>1
          <5>3. uf.rank[two.parent[y]] <= new.rank[two.parent[y]]
            BY <2>1, <2>4
          <5>4. /\ new.rank[y] \in Nat /\ uf.rank[two.parent[y]] \in Nat /\ new.rank[two.parent[y]] \in Nat
            BY <2>1, <2>4
          <5> QED
            BY <5>1, <5>2, <5>3, <5>4
        <4> QED
          BY <4>1, <4>2
      <3> QED
        BY <2>3, <2>4, <3>1 DEF IsForest
    <2>6. \A y \in S : Root(two.parent, y) = Root(two.parent, two.parent[y])
                       /\ (two.parent[y] = y => Root(two.parent, y) = y)
      BY <1>2, RootIs
    <2>7. \A y \in S : g[y] = g[new.parent[y]] /\ (new.parent[y] = y => g[y] = y)
      BY <1>8, <2>1, <2>2, <2>3, <2>6
    <2> DEFINE h == g
    <2>8. \A y \in S : Root(new.parent, y) = g[y]
      <3> HIDE DEF g
      <3> QED
        BY <2>5, <2>7, RootUnique
    <2>9. \A y \in S : Root(new.parent, y) = IF Root(uf.parent, y) = low THEN top ELSE Root(uf.parent, y)
      BY <1>2, <2>8
    <2> HIDE DEF g
    <2>10. \A r : r \in {ra, rb} <=> r = top \/ r = low
      BY <1>8
    <2> QED
      BY <2>5, <2>9, <2>10
  <1>9. CASE ra # rb
    <2>1. uf.rank[ra] \in Nat /\ uf.rank[rb] \in Nat
      BY <1>6 DEF IsForest
    <2>2. CASE uf.rank[ra] < uf.rank[rb]
      <3>1. new = hung(rb, ra) /\ {rb, ra} = {ra, rb} /\ uf.rank[ra] <= uf.rank[rb]
        BY <1>3, <1>9, <2>1, <2>2
      <3> HIDE DEF hung
      <3> QED
        BY <1>5, <1>6, <1>8, <1>9, <3>1
    <2>3. CASE ~(uf.rank[ra] < uf.rank[rb])
      <3>1. new = hung(ra, rb) /\ uf.rank[rb] <= uf.rank[ra]
        BY <1>3, <1>9, <2>1, <2>3
      <3> HIDE DEF hung
      <3> QED
        BY <1>5, <1>6, <1>8, <1>9, <3>1
    <2> QED
      BY <2>2, <2>3
  <1> QED
    BY <1>7, <1>9, <1>5

-----------------------------------------------------------------------------
(* What the schema of networks lets through.                               *)
LEMMA LinkTypes ==
    ASSUME NEW p, IsNetworkData(p), NetworkIntegrity(p)
    PROVE  /\ IsFiniteSet(Sites(p)) /\ IsFiniteSet(Links(p)) /\ Links(p) \subseteq Nat
           /\ \A l \in Links(p) : p.links[l].a \in Sites(p) /\ p.links[l].b \in Sites(p) /\ p.links[l].weight \in Int
PROOF
  <1> DEFINE R == [a : Nat, b : Nat, weight : Int]
  <1>1. p.nodes \in Nat /\ p.links \in Seq(R)
    BY DEF IsNetworkData
  <1>2. \A l \in Links(p) : {p.links[l].a, p.links[l].b} \subseteq Sites(p)
    BY DEF NetworkIntegrity
  <1>3. \A l \in DOMAIN p.links : p.links[l] \in R
    <2> HIDE DEF R
    <2> QED
      BY <1>1, ElementOf
  <1>4. \A l \in Links(p) : p.links[l].weight \in Int
    BY <1>3 DEF Links
  <1> HIDE DEF R
  <1>5. IsFiniteSet(Links(p)) /\ Links(p) \subseteq Nat
    <2>1. Links(p) = 1..Len(p.links) /\ Len(p.links) \in Nat
      BY <1>1 DEF Links
    <2> QED
      BY <2>1, FS_Interval
  <1> QED
    BY <1>1, <1>2, <1>4, <1>5, SitesAreFinite

(* An answer is sound if it is made of links.                              *)
LEMMA TreeAnswerIsSound ==
    ASSUME NEW p, p.type = "network_design", IsNetworkData(p), NetworkIntegrity(p), NEW selected \in Seq(Links(p))
    PROVE  IsSound(p, TreeAnswer(p, selected))
PROOF
  <1> DEFINE weights == [i \in DOMAIN selected |-> p.links[selected[i]].weight]
             sum == SumFunction(weights)
             a == [links |-> selected, weight |-> sum]
             s == TreeAnswer(p, selected)
  <1>1. DOMAIN selected = 1..Len(selected) /\ Len(selected) \in Nat /\ \A i \in DOMAIN selected : selected[i] \in Links(p)
    BY ElementOf
  <1>2. \A i \in DOMAIN selected : weights[i] \in Int
    BY <1>1, LinkTypes
  <1>3. SumFunction(weights) = SumFunctionOnSet(weights, DOMAIN selected)
    BY DEF SumFunction
  <1>4. IsFiniteSet(DOMAIN selected)
    BY <1>1, FS_Interval
  <1>5. sum \in Int
    <2> HIDE DEF weights
    <2> QED
      BY <1>2, <1>3, <1>4, SumTakes
  <1>6. s = Answer(a, [total_weight |-> sum])
    BY DEF TreeAnswer
  <1> HIDE DEF sum, s
  <1>7. DOMAIN s = Fields /\ s.status = "valid" /\ s.assignments = a /\ s.metrics = [total_weight |-> sum]
    BY <1>6 DEF Answer, Fields
  <1>8. IsSolutionFor(p.type, a)
    <2>1. selected \in Seq(Nat)
      <3>1. Links(p) \subseteq Nat
        BY LinkTypes
      <3> QED
        BY <3>1
    <2>2. IsNetworkSolution(a)
      BY <1>5, <2>1 DEF IsNetworkSolution
    <2> QED
      BY <2>2 DEF IsSolutionFor
  <1>9. Truthful(p, s)
    <2>1. Truth(p, a) = [total_weight |-> sum]
      BY DEF Truth
    <2>2. CheckedMetrics(p, s) = [total_weight |-> sum]
      BY <1>7 DEF CheckedMetrics
    <2> QED
      BY <1>7, <2>1, <2>2 DEF Truthful
  <1>10. IsSolutionFor(p.type, s.assignments)
    BY <1>7, <1>8
  <1> QED
    BY <1>7, <1>9, <1>10 DEF IsSound, s

(* The state of a search for links that close no cycle.                    *)
Forests(S) == {uf \in [parent : [S -> S], rank : [S -> Nat]] : IsForest(uf, S)}
(* The state of a search for links that close no cycle.                    *)
Picks(p) == [uf : Forests(Sites(p)), selected : Seq(Links(p)), refused : BOOLEAN]

(* Picking a link leaves a forest.                                         *)
LEMMA PickIs ==
    ASSUME NEW p, IsNetworkData(p), NetworkIntegrity(p), NEW s \in Picks(p), NEW l \in Links(p)
    PROVE  Pick(p, s, l) \in Picks(p)
PROOF
  <1>1. p.links[l].a \in Sites(p) /\ p.links[l].b \in Sites(p) /\ IsFiniteSet(Sites(p))
    BY LinkTypes
  <1>2. s.uf \in Forests(Sites(p)) /\ s.selected \in Seq(Links(p)) /\ s.refused \in BOOLEAN
    BY DEF Picks
  <1>3. IsForest(s.uf, Sites(p))
    BY <1>2 DEF Forests
  <1>4. IsForest(Union(s.uf, p.links[l]), Sites(p))
    BY <1>1, <1>3, UnionIs
  <1>5. Union(s.uf, p.links[l]) \in Forests(Sites(p))
    BY <1>4 DEF Forests, IsForest
  <1>6. Append(s.selected, l) \in Seq(Links(p))
    BY <1>2
  <1> QED
    BY <1>2, <1>5, <1>6 DEF Pick, Picks

(* At first every site is on its own.                                      *)
LEMMA SingletonsAre ==
    ASSUME NEW p
    PROVE  [uf |-> Singletons(Sites(p)), selected |-> <<>>, refused |-> FALSE] \in Picks(p)
PROOF
  <1>1. Singletons(Sites(p)) \in Forests(Sites(p))
    BY DEF Singletons, Forests, IsForest
  <1> QED
    BY <1>1 DEF Picks

(* The required links, and then the others: every state of the two loops.  *)
Required(p) == Arranged(RequiredItems(p), <)
(* The state before the first link is picked.                              *)
Begun(p) == [uf |-> Singletons(Sites(p)), selected |-> <<>>, refused |-> FALSE]
(* A required link that cannot be used is refused.                         *)
TakeRequired(p, s, l) == IF l \in Usable(p) THEN Pick(p, s, l) ELSE [s EXCEPT !.refused = TRUE]

(* So does picking a link that is required.                                *)
LEMMA RequireIs ==
    ASSUME NEW p, IsNetworkData(p), NetworkIntegrity(p), NEW s \in Picks(p), NEW l
    PROVE  TakeRequired(p, s, l) \in Picks(p)
PROOF
  <1>1. CASE l \in Usable(p)
    BY <1>1, PickIs DEF TakeRequired, Usable
  <1>2. CASE l \notin Usable(p)
    BY <1>2 DEF TakeRequired, Picks
  <1> QED
    BY <1>1, <1>2

(* The required links are picked one after the other.                      *)
LEMMA ResolvedIs ==
    ASSUME NEW p, IsNetworkData(p), NetworkIntegrity(p),
           NEW n \in Nat, DOMAIN Required(p) = 1..n
    PROVE  \E it : /\ Resolved(p) = it[1..n] /\ it[1..0] = Begun(p)
                   /\ \A k \in 1..n : it[1..k] = TakeRequired(p, it[1..(k - 1)], Required(p)[k])
                   /\ \A k \in 0..n : it[1..k] \in Picks(p)
PROOF
  <1> DEFINE seq == Required(p)
             X == Picks(p)
             Unfold(it) == [T \in SUBSET DOMAIN seq |-> IF T = {} THEN Begun(p)
                                                      ELSE TakeRequired(p, it[T \ {Max(T)}], seq[Max(T)])]
             it == CHOOSE f : f = Unfold(f)
             next == [k \in 1..n |-> [x \in X |-> TakeRequired(p, x, seq[k])]]
  <1>1. Resolved(p) = it[DOMAIN seq]
    BY DEF Resolved, FoldLeft, MapThenFoldSet, Required, Begun, TakeRequired
  <1>2. next \in [1..n -> [X -> X]] /\ Begun(p) \in X
    BY RequireIs, SingletonsAre DEF Begun
  <1>3. PICK fold \in [SUBSET (1..n) -> X] : IsFold(fold, n, Begun(p), next)
    <2> HIDE DEF next, X
    <2> QED
      BY <1>2, FoldExists
  <1>4. fold = Unfold(fold)
    <2>1. ASSUME NEW T \in SUBSET (1..n), T # {}
          PROVE  next[Max(T)][fold[T \ {Max(T)}]] = TakeRequired(p, fold[T \ {Max(T)}], seq[Max(T)])
      <3>1. Max(T) \in 1..n
        BY <2>1, MaxIsIn
      <3>2. fold[T \ {Max(T)}] \in X
        BY <1>3
      <3> QED
        BY <3>1, <3>2
    <2> HIDE DEF next, seq
    <2>2. DOMAIN seq = 1..n
      BY DEF seq
    <2> QED
      BY <1>3, <2>1, <2>2 DEF IsFold
  <1>5. it = Unfold(it)
    <2> HIDE DEF Unfold
    <2> QED
      BY <1>4
  <1> HIDE DEF it
  <1>6. it[1..0] = Begun(p)
    <2>1. 1..0 = {}
      OBVIOUS
    <2> QED
      BY <1>5, <2>1
  <1>7. ASSUME NEW k \in 1..n PROVE it[1..k] = TakeRequired(p, it[1..(k - 1)], seq[k])
    <2> DEFINE T == 1..k
    <2>1. Max(T) = k /\ T \ {k} = 1..(k - 1) /\ T \in SUBSET (1..n) /\ T # {}
      BY MaxOfInterval
    <2> HIDE DEF T
    <2>2. it[T] = TakeRequired(p, it[T \ {Max(T)}], seq[Max(T)])
      BY <1>5, <2>1
    <2> QED
      BY <2>1, <2>2 DEF T
  <1>8. \A k \in 0..n : it[1..k] \in X
    <2> DEFINE G == [k \in 0..n |-> X]
    <2>1. it[1..0] \in G[0]
      BY <1>2, <1>6
    <2>2. \A k \in 1..n : it[1..(k - 1)] \in G[k - 1] => it[1..k] \in G[k]
      <3>1. \A k \in 1..n : k - 1 \in 0..n /\ k \in 0..n
        OBVIOUS
      <3> QED
        BY <1>7, <3>1, RequireIs
    <2>3. \A k \in 0..n : it[1..k] \in G[k]
      <3> HIDE DEF G
      <3> QED
        BY <2>1, <2>2, FoldKeeps
    <2> QED
      BY <2>3
  <1> QED
    BY <1>1, <1>6, <1>7, <1>8

(* The required items are finitely many, and listed in order.              *)
LEMMA RequiredIs ==
    ASSUME NEW p, \A c \in Range(p.constraints) : IsConstraint(c), p.constraints \in Seq(Range(p.constraints))
    PROVE  /\ IsFiniteSet(RequiredItems(p)) /\ RequiredItems(p) \subseteq Nat
           /\ Lists(Required(p), RequiredItems(p)) /\ Cardinality(RequiredItems(p)) \in Nat
           /\ \A i, j \in 1..Cardinality(RequiredItems(p)) : i < j => Required(p)[i] < Required(p)[j]
PROOF
  <1> DEFINE C == OfKind(p, "required_inclusion")
             named == {c.items : c \in C}
             f == [c \in C |-> c.items]
  <1>1. RequiredItems(p) = UNION named
    BY DEF RequiredItems, ItemsOf
  <1>2. C \subseteq Range(p.constraints) /\ \A c \in C : c.kind = "required_inclusion"
    BY DEF OfKind
  <1>3. IsFiniteSet(C)
    BY <1>2, RangeOfSequence, FS_Subset
  <1>4. \A c \in C : IsFiniteSet(c.items) /\ c.items \subseteq Nat
    BY <1>2 DEF IsConstraint
  <1> HIDE DEF C
  <1>5. \A y \in named : \E c \in C : y = f[c]
    OBVIOUS
  <1>6. IsFiniteSet(named)
    <2> HIDE DEF f, named
    <2> QED
      BY <1>3, <1>5, FiniteImage
  <1>7. \A y \in named : IsFiniteSet(y) /\ y \subseteq Nat
    BY <1>4
  <1> HIDE DEF named
  <1>8. IsFiniteSet(UNION named) /\ UNION named \subseteq Nat
    BY <1>6, <1>7, FS_UNION
  <1>9. RequiredItems(p) \subseteq Int
    BY <1>1, <1>8
  <1> QED
    BY <1>1, <1>8, <1>9, NumbersRanked, FS_CardinalityType DEF Required

(* The other links by weight.                                              *)
Rest(p) == Arranged(Usable(p) \ RequiredItems(p), LAMBDA l, m : Lighter(p, l, m))

(* The other links are all listed, the lighter ones first.                 *)
LEMMA RestIs ==
    ASSUME NEW p, IsNetworkData(p), NetworkIntegrity(p)
    PROVE  LET others == Usable(p) \ RequiredItems(p)
           IN  /\ Cardinality(others) \in Nat /\ Lists(Rest(p), others)
               /\ \A i, j \in 1..Cardinality(others) : i < j => Lighter(p, Rest(p)[i], Rest(p)[j])
PROOF
  <1> DEFINE S == Usable(p) \ RequiredItems(p)
             R == {xy \in S \X S : Lighter(p, xy[1], xy[2])}
             t == Rest(p)
             under(x) == {y \in S : Lighter(p, y, x)}
             below(x) == {y \in S : <<y, x>> \in R}
  <1>1. S \subseteq Links(p)
    BY DEF Usable
  <1>2. IsFiniteSet(S) /\ S \subseteq Nat /\ \A l \in S : p.links[l].weight \in Int
    BY <1>1, LinkTypes, FS_Subset
  <1>3. \A x, y \in S : <<x, y>> \in R <=> Lighter(p, x, y)
    OBVIOUS
  <1>4. t = [i \in 1..Cardinality(S) |-> CHOOSE x \in S : Cardinality(under(x)) = i - 1]
    BY DEF Rest, Arranged
  <1>5. \A x \in S : under(x) = below(x)
    BY <1>3
  <1> HIDE DEF S, R, t
  <1>6. IsOrder(R, S)
    BY <1>2, <1>3 DEF IsOrder, Lighter
  <1>7. IsRanked(t, S, R)
    <2> HIDE DEF under, below
    <2>1. \A i : (CHOOSE x \in S : Cardinality(under(x)) = i - 1) = CHOOSE x \in S : Cardinality(below(x)) = i - 1
      BY <1>5
    <2>2. t = [i \in 1..Cardinality(S) |-> CHOOSE x \in S : Cardinality(below(x)) = i - 1]
      BY <1>4, <2>1
    <2> QED
      BY <2>2 DEF IsRanked, below
  <1>8. Lists(t, S) /\ Sorted(t, S, R)
    BY <1>2, <1>6, <1>7, ArrangedList
  <1>9. \A i, j \in 1..Cardinality(S) : i < j => Lighter(p, t[i], t[j])
    BY <1>3, <1>8 DEF Lists, Sorted
  <1> QED
    BY <1>2, <1>8, <1>9, FS_CardinalityType DEF S, t

(* Kruskal's algorithm picks a link unless it has as many as it needs.     *)
PickMore(p, s, l) == IF Len(s.selected) = Needed(p) THEN s ELSE Pick(p, s, l)

(* Kruskal's algorithm picks them one after the other.                     *)
LEMMA KruskalIs ==
    ASSUME NEW p, IsNetworkData(p), NetworkIntegrity(p), Resolved(p) \in Picks(p),
           NEW n \in Nat, n = Cardinality(Usable(p) \ RequiredItems(p))
    PROVE  \E it : /\ Kruskal(p) = IF Resolved(p).refused \/ Len(it[1..n].selected) # Needed(p)
                                    THEN {Infeasible({})} ELSE {TreeAnswer(p, it[1..n].selected)}
                   /\ it[1..0] = Resolved(p)
                   /\ \A k \in 1..n : it[1..k] = PickMore(p, it[1..(k - 1)], Rest(p)[k])
                   /\ \A k \in 0..n : it[1..k] \in Picks(p)
PROOF
  <1> DEFINE seq == Rest(p)
             X == Picks(p)
             base == Resolved(p)
             Unfold(it) == [T \in SUBSET DOMAIN seq |-> IF T = {} THEN base
                                                      ELSE PickMore(p, it[T \ {Max(T)}], seq[Max(T)])]
             it == CHOOSE f : f = Unfold(f)
             next == [k \in 1..n |-> [x \in X |-> PickMore(p, x, seq[k])]]
             final == FoldLeft(LAMBDA s, l : PickMore(p, s, l), Resolved(p), Rest(p))
  <1>1. final = it[DOMAIN seq]
    BY DEF FoldLeft, MapThenFoldSet
  <1>2. Kruskal(p) = IF Resolved(p).refused \/ Len(final.selected) # Needed(p)
                     THEN {Infeasible({})} ELSE {TreeAnswer(p, final.selected)}
    BY DEF Kruskal, PickMore, Rest
  <1>3. DOMAIN seq = 1..n /\ \A k \in 1..n : seq[k] \in Links(p)
    BY RestIs DEF Lists, Usable
  <1> HIDE DEF final, seq
  <1>4. \A k \in 1..n : \A x \in X : PickMore(p, x, seq[k]) \in X
    BY <1>3, PickIs DEF PickMore
  <1>5. next \in [1..n -> [X -> X]]
    BY <1>4
  <1>6. PICK fold \in [SUBSET (1..n) -> X] : IsFold(fold, n, base, next)
    <2> HIDE DEF next, X, base
    <2> QED
      BY <1>5, FoldExists DEF X, base
  <1>7. fold = Unfold(fold)
    <2>1. ASSUME NEW T \in SUBSET (1..n), T # {}
          PROVE  next[Max(T)][fold[T \ {Max(T)}]] = PickMore(p, fold[T \ {Max(T)}], seq[Max(T)])
      <3>1. Max(T) \in 1..n
        BY <2>1, MaxIsIn
      <3>2. fold[T \ {Max(T)}] \in X
        BY <1>6
      <3> QED
        BY <3>1, <3>2
    <2> HIDE DEF next, base
    <2> QED
      BY <1>3, <1>6, <2>1 DEF IsFold
  <1>8. it = Unfold(it)
    <2> HIDE DEF Unfold
    <2> QED
      BY <1>7
  <1> HIDE DEF it, base
  <1>9. it[1..0] = base
    <2>1. 1..0 = {}
      OBVIOUS
    <2> QED
      BY <1>8, <2>1
  <1>10. ASSUME NEW k \in 1..n PROVE it[1..k] = PickMore(p, it[1..(k - 1)], seq[k])
    <2> DEFINE T == 1..k
    <2>1. Max(T) = k /\ T \ {k} = 1..(k - 1) /\ T \in SUBSET (1..n) /\ T # {}
      BY MaxOfInterval
    <2> HIDE DEF T
    <2>2. it[T] = PickMore(p, it[T \ {Max(T)}], seq[Max(T)])
      BY <1>3, <1>8, <2>1
    <2> QED
      BY <2>1, <2>2 DEF T
  <1>11. \A k \in 0..n : it[1..k] \in X
    <2> DEFINE G == [k \in 0..n |-> X]
    <2>1. it[1..0] \in G[0]
      BY <1>9 DEF base
    <2>2. \A k \in 1..n : it[1..(k - 1)] \in G[k - 1] => it[1..k] \in G[k]
      <3>1. \A k \in 1..n : k - 1 \in 0..n /\ k \in 0..n
        OBVIOUS
      <3>2. \A k \in 1..n : G[k - 1] = X /\ G[k] = X
        BY <3>1
      <3> HIDE DEF X, G
      <3>3. ASSUME NEW k \in 1..n, it[1..(k - 1)] \in X PROVE it[1..k] \in X
        <4> DEFINE x == it[1..(k - 1)]
        <4>1. it[1..k] = PickMore(p, x, seq[k]) /\ x \in X
          BY <1>10, <3>3
        <4> HIDE DEF x
        <4> QED
          BY <1>4, <4>1
      <3> QED
        BY <3>2, <3>3
    <2>3. \A k \in 0..n : it[1..k] \in G[k]
      <3> HIDE DEF G
      <3> QED
        BY <2>1, <2>2, FoldKeeps
    <2> QED
      BY <2>3
  <1>12. final = it[1..n]
    BY <1>1, <1>3
  <1> QED
    BY <1>2, <1>9, <1>10, <1>11, <1>12 DEF base, seq

(* What it answers is sound.                                               *)
LEMMA KruskalIsSound ==
    ASSUME NEW p, p.type = "network_design", IsProblem(p), Integrity(p)
    PROVE  \E s : Kruskal(p) = {s} /\ IsSound(p, s)
PROOF
  <1>1. IsNetworkData(p) /\ NetworkIntegrity(p)
    BY DEF IsProblem, Integrity
  <1>2. Resolved(p) \in Picks(p)
    <2> DEFINE n == Cardinality(RequiredItems(p))
    <2>1. n \in Nat /\ DOMAIN Required(p) = 1..n
      BY RequiredIs DEF IsProblem, Lists
    <2> HIDE DEF n
    <2>2. PICK it : Resolved(p) = it[1..n] /\ \A k \in 0..n : it[1..k] \in Picks(p)
      BY <1>1, <2>1, ResolvedIs
    <2> QED
      BY <2>1, <2>2
  <1> DEFINE n == Cardinality(Usable(p) \ RequiredItems(p))
  <1>3. n \in Nat
    BY <1>1, RestIs
  <1>4. \E final \in Picks(p) : Kruskal(p) = IF Resolved(p).refused \/ Len(final.selected) # Needed(p)
                                              THEN {Infeasible({})} ELSE {TreeAnswer(p, final.selected)}
    <2> HIDE DEF n
    <2>1. n = Cardinality(Usable(p) \ RequiredItems(p))
      BY DEF n
    <2>2. PICK it : /\ Kruskal(p) = IF Resolved(p).refused \/ Len(it[1..n].selected) # Needed(p)
                                    THEN {Infeasible({})} ELSE {TreeAnswer(p, it[1..n].selected)}
                    /\ \A k \in 0..n : it[1..k] \in Picks(p)
      BY <1>1, <1>2, <1>3, <2>1, KruskalIs
    <2>3. n \in 0..n
      BY <1>3
    <2> QED
      BY <2>2, <2>3
  <1>5. PICK final \in Picks(p) : Kruskal(p) = {Infeasible({})} \/ Kruskal(p) = {TreeAnswer(p, final.selected)}
    BY <1>4
  <1>6. IsSound(p, TreeAnswer(p, final.selected))
    <2>1. final.selected \in Seq(Links(p))
      BY DEF Picks
    <2> QED
      BY <1>1, <2>1, TreeAnswerIsSound
  <1>7. IsSound(p, Infeasible({}))
    BY DEF IsSound, Infeasible
  <1> QED
    BY <1>5, <1>6, <1>7

(* Prim's tree, as it grows.                                               *)
Out(p, tree) ==
    {l \in Usable(p) : Cardinality({p.links[l].a, p.links[l].b} \cap tree) = 1 /\ p.links[l].a # p.links[l].b}
(* The lightest link that leaves the tree.                                 *)
LightestOut(p, links) == CHOOSE l \in links : \A m \in links \ {l} : Lighter(p, l, m)
(* A tree that grows, and the links picked for it.                         *)
Grown(p) == [tree : SUBSET Sites(p), selected : Seq(Links(p))]
(* It grows by a link and its ends.                                        *)
GrownBy(p, f, next) ==
    [tree |-> f.tree \cup {p.links[next].a, p.links[next].b}, selected |-> Append(f.selected, next)]
(* It stops when no link leaves it, or it has as many links as it needs.   *)
IsGrown(p, f) == Out(p, f.tree) = {} \/ Len(f.selected) >= Needed(p)

(* A tree has one link less than there are sites.                          *)
LEMMA NeededIs ==
    ASSUME NEW p, IsNetworkData(p)
    PROVE  Needed(p) = (IF p.nodes > 0 THEN p.nodes - 1 ELSE 0) /\ Needed(p) \in Nat
PROOF
  <1>1. p.nodes \in Nat
    BY DEF IsNetworkData
  <1>2. Max({p.nodes - 1, 0}) = IF p.nodes - 1 >= 0 THEN p.nodes - 1 ELSE 0
    BY <1>1, MaxOfTwo
  <1> QED
    BY <1>1, <1>2 DEF Needed

(* The lightest link that leaves a set of sites is one that leaves it.     *)
LEMMA LightestIsIn ==
    ASSUME NEW p, IsNetworkData(p), NetworkIntegrity(p), NEW links \in SUBSET Links(p), links # {}
    PROVE  LightestOut(p, links) \in links /\ \A m \in links \ {LightestOut(p, links)} : Lighter(p, LightestOut(p, links), m)
PROOF
  <1> DEFINE R == {xy \in links \X links : Lighter(p, xy[1], xy[2])}
  <1>1. IsFiniteSet(links) /\ links \subseteq Nat /\ \A l \in links : p.links[l].weight \in Int
    BY LinkTypes, FS_Subset
  <1>2. \A x, y \in links : <<x, y>> \in R <=> Lighter(p, x, y)
    OBVIOUS
  <1> HIDE DEF R
  <1>3. IsOrder(R, links)
    BY <1>1, <1>2 DEF IsOrder, Lighter
  <1>4. PICK l \in links : \A m \in links \ {l} : <<l, m>> \in R
    BY <1>1, <1>3, LeastOfOrder
  <1>5. \A m \in links \ {l} : Lighter(p, l, m)
    BY <1>2, <1>4
  <1> QED
    BY <1>5 DEF LightestOut

(* Prim's algorithm grows the tree until it is whole.                      *)
LEMMA GrowIs ==
    ASSUME NEW p, IsNetworkData(p), NetworkIntegrity(p), NEW start \in SUBSET Sites(p), NEW required \in Seq(Links(p))
    PROVE  \E grow \in [Grown(p) -> Grown(p)] :
               /\ Grow(p, start, required) = grow[[tree |-> start, selected |-> required]]
               /\ \A f \in Grown(p) : grow[f] = IF IsGrown(p, f) THEN f ELSE grow[GrownBy(p, f, LightestOut(p, Out(p, f.tree)))]
PROOF
  <1> DEFINE S == Grown(p)
             n == Needed(p)
             more(f) == GrownBy(p, f, LightestOut(p, Out(p, f.tree)))
             Unfold(grow) == [f \in S |-> IF IsGrown(p, f) THEN f ELSE grow[more(f)]]
             grow == CHOOSE g : g = Unfold(g)
             measure == [f \in S |-> IF Len(f.selected) >= n THEN 0 ELSE n - Len(f.selected)]
             Halts == {f \in S : IsGrown(p, f)}
             base == [f \in S |-> f]
             succ == [f \in S |-> IF f \in Halts THEN f ELSE more(f)]
             after == [f \in S |-> [g \in S |-> g]]
  <1>1. Grow(p, start, required) = grow[[tree |-> start, selected |-> required]]
    BY DEF Grow, Grown, GrownBy, IsGrown, Out, LightestOut
  <1>2. n \in Nat
    BY NeededIs
  <1>3. ASSUME NEW f \in S
        PROVE  f.tree \in SUBSET Sites(p) /\ f.selected \in Seq(Links(p)) /\ Len(f.selected) \in Nat
    BY DEF Grown
  <1>4. ASSUME NEW f \in S, f \notin Halts
        PROVE  more(f) \in S /\ Len(f.selected) < n /\ Len(more(f).selected) = Len(f.selected) + 1
    <2>1. Out(p, f.tree) \in SUBSET Links(p) /\ Out(p, f.tree) # {} /\ ~(Len(f.selected) >= n)
      BY <1>4 DEF IsGrown, Out, Usable
    <2> DEFINE l == LightestOut(p, Out(p, f.tree))
    <2>2. l \in Links(p)
      BY <2>1, LightestIsIn
    <2>3. p.links[l].a \in Sites(p) /\ p.links[l].b \in Sites(p)
      BY <2>2, LinkTypes
    <2> HIDE DEF l
    <2>4. GrownBy(p, f, l) \in S /\ Len(GrownBy(p, f, l).selected) = Len(f.selected) + 1
      BY <1>3, <2>2, <2>3 DEF Grown, GrownBy
    <2> QED
      BY <1>2, <1>3, <2>1, <2>4 DEF l
  <1> HIDE DEF more, S, n
  <1>5. succ \in [S -> S] /\ base \in [S -> S] /\ after \in [S -> [S -> S]]
    BY <1>4
  <1>6. \A f \in S : measure[f] \in 0..n
    BY <1>2, <1>3
  <1>7. \A f \in S \ Halts : measure[succ[f]] < measure[f]
    <2> SUFFICES ASSUME NEW f \in S \ Halts PROVE measure[succ[f]] < measure[f]
      OBVIOUS
    <2>1. succ[f] = more(f) /\ more(f) \in S /\ Len(f.selected) < n /\ Len(more(f).selected) = Len(f.selected) + 1
      BY <1>4
    <2>2. Len(f.selected) \in Nat
      BY <1>3
    <2> QED
      BY <1>2, <2>1, <2>2
  <1>8. \E g \in [S -> S] : Descends(g, S, Halts, base, succ, after)
    <2> HIDE DEF measure, Halts, base, succ, after
    <2> QED
      BY <1>2, <1>5, <1>6, <1>7, DescentExists
  <1>9. PICK g \in [S -> S] : Descends(g, S, Halts, base, succ, after)
    BY <1>8
  <1>10. \A f \in S : g[f] = IF IsGrown(p, f) THEN f ELSE g[more(f)]
    BY <1>4, <1>9 DEF Descends
  <1>11. g = Unfold(g)
    <2>1. g = [f \in S |-> g[f]]
      OBVIOUS
    <2> QED
      BY <1>10, <2>1
  <1>12. grow = Unfold(grow)
    <2> HIDE DEF Unfold
    <2> QED
      BY <1>11
  <1> HIDE DEF grow
  <1>13. \A f \in S : grow[f] = IF IsGrown(p, f) THEN f ELSE grow[more(f)]
    BY <1>12
  <1>14. DOMAIN grow = S /\ grow = [f \in S |-> grow[f]]
    BY <1>12
  <1>15. \A f \in S : grow[f] \in S
    <2> DEFINE Good == {f \in S : grow[f] \in S}
    <2>1. \A f \in S : f \in Good \/ (succ[f] \in S /\ measure[succ[f]] < measure[f] /\ (succ[f] \in Good => f \in Good))
      <3> HIDE DEF measure
      <3> QED
        BY <1>4, <1>5, <1>7, <1>13
    <2>2. \A f \in S : measure[f] \in Nat
      BY <1>6
    <2> HIDE DEF Good, measure, succ
    <2>3. S \subseteq Good
      BY <2>1, <2>2, DescentKeeps
    <2> QED
      BY <2>3 DEF Good
  <1>16. grow \in [S -> S]
    BY <1>14, <1>15
  <1> QED
    BY <1>1, <1>13, <1>16 DEF S, more

(* What picking the required links leads to is a state of the search.      *)
LEMMA ResolvedIsIn ==
    ASSUME NEW p, IsProblem(p), IsNetworkData(p), NetworkIntegrity(p)
    PROVE  Resolved(p) \in Picks(p)
PROOF
  <1> DEFINE n == Cardinality(RequiredItems(p))
  <1>1. n \in Nat /\ DOMAIN Required(p) = 1..n
    BY RequiredIs DEF IsProblem, Lists
  <1> HIDE DEF n
  <1>2. PICK it : Resolved(p) = it[1..n] /\ \A k \in 0..n : it[1..k] \in Picks(p)
    BY <1>1, ResolvedIs
  <1> QED
    BY <1>1, <1>2

(* What it answers is sound.                                               *)
LEMMA PrimIsSound ==
    ASSUME NEW p, p.type = "network_design", IsProblem(p), Integrity(p)
    PROVE  \E s : Prim(p) = {s} /\ IsSound(p, s)
PROOF
  <1>1. IsNetworkData(p) /\ NetworkIntegrity(p)
    BY DEF IsProblem, Integrity
  <1>2. IsSound(p, Infeasible({}))
    BY DEF IsSound, Infeasible
  <1>3. CASE p.nodes = 0
    <2>1. <<>> \in Seq(Links(p))
      OBVIOUS
    <2>2. Prim(p) = {TreeAnswer(p, <<>>)}
      BY <1>3 DEF Prim
    <2> QED
      BY <1>1, <2>1, <2>2, TreeAnswerIsSound
  <1>4. CASE p.nodes # 0
    <2> DEFINE r == Resolved(p)
               start == (UNION {{p.links[l].a, p.links[l].b} : l \in Range(r.selected)}) \cup {1}
               grown == Grow(p, start, r.selected)
    <2>1. r \in Picks(p)
      BY <1>1, ResolvedIsIn
    <2>2. r.selected \in Seq(Links(p))
      BY <2>1 DEF Picks
    <2>3. Prim(p) = IF r.refused \/ Len(grown.selected) # Needed(p) \/ grown.tree # Sites(p)
                    THEN {Infeasible({})} ELSE {TreeAnswer(p, grown.selected)}
      BY <1>4 DEF Prim
    <2>4. start \in SUBSET Sites(p)
      <3>1. 1 \in Sites(p)
        BY <1>1, <1>4 DEF Sites, IsNetworkData
      <3>2. \A l \in Range(r.selected) : l \in Links(p)
        BY <2>2, ElementOf DEF Range
      <3>3. \A l \in Range(r.selected) : p.links[l].a \in Sites(p) /\ p.links[l].b \in Sites(p)
        BY <1>1, <3>2, LinkTypes
      <3>4. ASSUME NEW x \in start PROVE x \in Sites(p)
        <4>1. CASE x = 1
          BY <3>1, <4>1
        <4>2. CASE \E l \in Range(r.selected) : x \in {p.links[l].a, p.links[l].b}
          BY <3>3, <4>2
        <4> QED
          BY <4>1, <4>2
      <3> HIDE DEF start
      <3> QED
        BY <3>4
    <2> HIDE DEF r, start, grown
    <2>5. grown \in Grown(p)
      <3>1. PICK grow \in [Grown(p) -> Grown(p)] : grown = grow[[tree |-> start, selected |-> r.selected]]
        BY <1>1, <2>2, <2>4, GrowIs DEF grown
      <3>2. [tree |-> start, selected |-> r.selected] \in Grown(p)
        BY <2>2, <2>4 DEF Grown
      <3> QED
        BY <3>1, <3>2
    <2>6. grown.selected \in Seq(Links(p))
      BY <2>5 DEF Grown
    <2>7. IsSound(p, TreeAnswer(p, grown.selected))
      BY <1>1, <2>6, TreeAnswerIsSound
    <2> QED
      BY <1>2, <2>3, <2>7
  <1> QED
    BY <1>3, <1>4

(* So is what networkx answers.                                            *)
LEMMA NetworkxIsSound ==
    ASSUME NEW p, p.type = "network_design", IsProblem(p), Integrity(p)
    PROVE  NetworkxMST(p) # {} /\ \A s \in NetworkxMST(p) : IsSound(p, s)
PROOF
  <1>1. IsNetworkData(p) /\ NetworkIntegrity(p)
    BY DEF IsProblem, Integrity
  <1>2. IsSound(p, Infeasible({}))
    BY DEF IsSound, Infeasible
  <1>3. \E right \in SUBSET SUBSET Links(p), least \in SUBSET SUBSET Links(p) :
            NetworkxMST(p) = {TreeAnswer(p, SetToSeq(t)) : t \in right}
                             \cup (IF right # least \/ least = {} THEN {Infeasible({})} ELSE {})
    <2> DEFINE base == IF Links(p) = {} THEN 0 ELSE Min({p.links[l].weight : l \in Links(p)})
               bias == base - 1 - Len(p.links)
               weight(l) == IF l \in RequiredItems(p) THEN bias ELSE p.links[l].weight
               parallel(l, m) == {p.links[l].a, p.links[l].b} = {p.links[m].a, p.links[m].b}
               kept == {l \in Usable(p) : \A m \in Usable(p) \ {l} :
                            parallel(l, m) => weight(l) < weight(m) \/ (weight(l) = weight(m) /\ l < m)}
               trees == {t \in kSubset(Needed(p), kept) : AllConnected(p, t)}
               least == {t \in trees : \A u \in trees : MapThenSumSet(weight, t) <= MapThenSumSet(weight, u)}
               right == {t \in least : RequiredItems(p) \subseteq t}
    <2>1. NetworkxMST(p) = {TreeAnswer(p, SetToSeq(t)) : t \in right}
                           \cup (IF right # least \/ least = {} THEN {Infeasible({})} ELSE {})
      BY DEF NetworkxMST
    <2>2. kept \subseteq Links(p)
      BY DEF Usable
    <2>3. trees \subseteq SUBSET Links(p)
      <3> HIDE DEF kept
      <3> QED
        BY <2>2 DEF kSubset
    <2> HIDE DEF trees
    <2>4. least \in SUBSET SUBSET Links(p)
      BY <2>3
    <2> HIDE DEF least
    <2>5. right \in SUBSET SUBSET Links(p)
      BY <2>4
    <2> HIDE DEF right
    <2> QED
      BY <2>1, <2>4, <2>5
  <1>4. PICK right \in SUBSET SUBSET Links(p), least \in SUBSET SUBSET Links(p) :
            NetworkxMST(p) = {TreeAnswer(p, SetToSeq(t)) : t \in right}
                             \cup (IF right # least \/ least = {} THEN {Infeasible({})} ELSE {})
    BY <1>3
  <1>5. ASSUME NEW t \in right PROVE IsSound(p, TreeAnswer(p, SetToSeq(t)))
    <2>1. t \subseteq Links(p) /\ IsFiniteSet(t)
      BY <1>1, LinkTypes, FS_Subset
    <2>2. SetToSeq(t) \in Seq(Links(p))
      BY <2>1, SetToSeqLists, ListIsSequence
    <2> QED
      BY <1>1, <2>2, TreeAnswerIsSound
  <1>6. NetworkxMST(p) # {}
    <2>1. CASE right # least \/ least = {}
      BY <1>4, <2>1
    <2>2. CASE right = least /\ least # {}
      <3>1. PICK t \in right : TRUE
        BY <2>2
      <3>2. TreeAnswer(p, SetToSeq(t)) \in NetworkxMST(p)
        BY <1>4
      <3> QED
        BY <3>2
    <2> QED
      BY <2>1, <2>2
  <1> QED
    BY <1>2, <1>4, <1>5, <1>6

(* The strategies for networks are sound.                                  *)
LEMMA NetworkStrategiesAreSound ==
    ASSUME NEW p, p.type = "network_design", IsProblem(p), NEW st, Chosen(p, st)
    PROVE  AreSound(p, Answers(p, st))
PROOF
  <1>1. st \in {"kruskal", "prim", "kruskal_nx"}
    BY DEF Chosen, Registered, Preferred, Range
  <1>2. Answers(p, st) \in {Kruskal(p), Prim(p), NetworkxMST(p)}
    BY <1>1 DEF Answers
  <1>3. \A s : ~Unverifiable(p, s)
    BY DEF Unverifiable
  <1>4. Integrity(p)
    BY DEF Chosen
  <1>5. PICK s, t : Kruskal(p) = {s} /\ IsSound(p, s) /\ Prim(p) = {t} /\ IsSound(p, t)
    BY <1>4, KruskalIsSound, PrimIsSound
  <1>6. AreSound(p, Kruskal(p)) /\ AreSound(p, Prim(p))
    BY <1>3, <1>5 DEF AreSound
  <1>7. AreSound(p, NetworkxMST(p))
    BY <1>3, <1>4, NetworkxIsSound DEF AreSound
  <1> QED
    BY <1>2, <1>6, <1>7

-----------------------------------------------------------------------------
(* Projects.                                                               *)

(* A project's tasks and what comes before and after one.                  *)
LEMMA TaskTypes ==
    ASSUME NEW p, IsProjectData(p)
    PROVE  /\ Tasks(p) = 1..Len(p.tasks) /\ Len(p.tasks) \in Nat /\ IsFiniteSet(Tasks(p))
           /\ Cardinality(Tasks(p)) = Len(p.tasks) /\ Tasks(p) \subseteq Nat
           /\ \A t \in Tasks(p) : Duration(p, t) \in Nat \ {0} /\ p.tasks[t].resource \in Nat
           /\ \A t \in Tasks(p) : /\ Predecessors(p, t) \subseteq Tasks(p) /\ Successors(p, t) \subseteq Tasks(p)
                                  /\ IsFiniteSet(Predecessors(p, t)) /\ IsFiniteSet(Successors(p, t))
           /\ \A t, u \in Tasks(p) : t \in Predecessors(p, u) <=> u \in Successors(p, t)
PROOF
  <1> DEFINE tasks == [duration : Nat \ {0}, resource : Nat]
             pairs == (DOMAIN p.tasks) \X (DOMAIN p.tasks)
  <1>1. p.tasks \in Seq(tasks) /\ p.dependencies \in Seq(pairs)
    BY DEF IsProjectData
  <1>2. Tasks(p) = 1..Len(p.tasks) /\ Len(p.tasks) \in Nat
    BY <1>1 DEF Tasks
  <1>3. IsFiniteSet(Tasks(p)) /\ Cardinality(Tasks(p)) = Len(p.tasks)
    BY <1>2, FS_Interval
  <1>4. ASSUME NEW t \in Tasks(p) PROVE Duration(p, t) \in Nat \ {0} /\ p.tasks[t].resource \in Nat
    <2>1. p.tasks[t] \in tasks
      BY <1>1, ElementOf DEF Tasks
    <2> QED
      BY <2>1 DEF Duration
  <1>5. \A d \in Range(p.dependencies) : d[1] \in Tasks(p) /\ d[2] \in Tasks(p)
    <2>1. \A i \in DOMAIN p.dependencies : p.dependencies[i] \in pairs
      <3> HIDE DEF pairs
      <3> QED
        BY <1>1, ElementOf
    <2>2. \A i \in DOMAIN p.dependencies : p.dependencies[i][1] \in Tasks(p) /\ p.dependencies[i][2] \in Tasks(p)
      BY <2>1 DEF Tasks
    <2> QED
      BY <2>2 DEF Range
  <1>6. \A t : Predecessors(p, t) \subseteq Tasks(p) /\ Successors(p, t) \subseteq Tasks(p)
    BY <1>5 DEF Predecessors, Successors
  <1>7. \A t, u : t \in Predecessors(p, u) <=> u \in Successors(p, t)
    <2>1. ASSUME NEW t, NEW u, t \in Predecessors(p, u) PROVE u \in Successors(p, t)
      <3>1. PICK d \in Range(p.dependencies) : d[2] = u /\ d[1] = t
        BY <2>1 DEF Predecessors
      <3> QED
        BY <3>1 DEF Successors
    <2>2. ASSUME NEW t, NEW u, u \in Successors(p, t) PROVE t \in Predecessors(p, u)
      <3>1. PICK d \in Range(p.dependencies) : d[2] = u /\ d[1] = t
        BY <2>2 DEF Successors
      <3> QED
        BY <3>1 DEF Predecessors
    <2> QED
      BY <2>1, <2>2
  <1>8. \A t : IsFiniteSet(Predecessors(p, t)) /\ IsFiniteSet(Successors(p, t))
    BY <1>3, <1>6, FS_Subset
  <1>9. Tasks(p) \subseteq Nat
    BY <1>2
  <1> QED
    BY <1>2, <1>3, <1>4, <1>6, <1>7, <1>8, <1>9

(* The highest of finitely many numbers, and of a default.                 *)
LEMMA HighestIs ==
    ASSUME NEW default \in Int, NEW S, IsFiniteSet(S), S \subseteq Int
    PROVE  /\ Highest(default, S) \in {default} \cup S /\ Highest(default, S) \in Int
           /\ Highest(default, S) >= default /\ \A x \in S : x <= Highest(default, S)
PROOF
  <1> DEFINE T == {default} \cup S
  <1>1. IsFiniteSet(T) /\ T \subseteq Int /\ T # {} /\ default \in T /\ \A x \in S : x \in T
    <2>1. T = S \cup {default}
      OBVIOUS
    <2>2. IsFiniteSet(T)
      BY <2>1, FS_AddElement
    <2> QED
      BY <2>2
  <1>2. Highest(default, S) = Max(T)
    BY DEF Highest
  <1> HIDE DEF T
  <1>3. Max(T) \in T /\ \A x \in T : x <= Max(T)
    BY <1>1, MaxOfFinite
  <1>4. Max(T) \in Int
    BY <1>1, <1>3
  <1> QED
    BY <1>1, <1>2, <1>3, <1>4 DEF T

-----------------------------------------------------------------------------
(* The topological order.                                                  *)

(* An order that lists no task twice and every one after its predecessors. *)
IsBegun(p, order) ==
    /\ order \in Seq(Tasks(p))
    /\ \A i, j \in DOMAIN order : order[i] = order[j] => i = j
    /\ \A i \in DOMAIN order : \A q \in Predecessors(p, order[i]) : \E j \in DOMAIN order : j < i /\ order[j] = q

(* The tasks that can come next.                                           *)
Ready(p, order) == {t \in Tasks(p) \ Range(order) : Predecessors(p, t) \subseteq Range(order)}

(* A task all of whose predecessors have come can come next.               *)
LEMMA BegunGrows ==
    ASSUME NEW p, IsProjectData(p), NEW order, IsBegun(p, order), NEW t \in Ready(p, order)
    PROVE  IsBegun(p, Append(order, t)) /\ Range(Append(order, t)) = Range(order) \cup {t}
PROOF
  <1> DEFINE n == Len(order)
             new == Append(order, t)
  <1>1. /\ order \in Seq(Tasks(p)) /\ t \in Tasks(p) /\ n \in Nat /\ DOMAIN order = 1..n
    BY DEF IsBegun, Ready
  <1>2. /\ new \in Seq(Tasks(p)) /\ Len(new) = n + 1 /\ DOMAIN new = 1..(n + 1) /\ new[n + 1] = t
        /\ \A i \in 1..n : new[i] = order[i]
    BY <1>1
  <1>3. \A i \in 1..(n + 1) : i = n + 1 \/ i \in 1..n
    BY <1>1
  <1>4. \A i \in 1..n : order[i] # t
    BY <1>1 DEF Ready, Range
  <1>5. \A q \in Predecessors(p, t) : \E j \in 1..n : order[j] = q
    BY <1>1 DEF Ready, Range
  <1>6. \A j \in 1..n : j \in 1..(n + 1) /\ j < n + 1
    BY <1>1
  <1>9. n + 1 \in 1..(n + 1)
    BY <1>1
  <1> HIDE DEF n, new
  <1>7. IsBegun(p, new)
    <2>1. \A i, j \in DOMAIN new : new[i] = new[j] => i = j
      BY <1>1, <1>2, <1>3, <1>4 DEF IsBegun
    <2>2. ASSUME NEW i \in DOMAIN new, NEW q \in Predecessors(p, new[i])
          PROVE  \E j \in DOMAIN new : j < i /\ new[j] = q
      <3>1. CASE i = n + 1
        <4>1. PICK j \in 1..n : order[j] = q
          BY <1>2, <1>5, <2>2, <3>1
        <4> QED
          BY <1>2, <1>6, <3>1, <4>1
      <3>2. CASE i \in 1..n
        <4>1. PICK j \in DOMAIN order : j < i /\ order[j] = q
          BY <1>1, <1>2, <2>2, <3>2 DEF IsBegun
        <4> QED
          BY <1>1, <1>2, <1>6, <4>1
      <3> QED
        BY <1>2, <1>3, <3>1, <3>2
    <2> QED
      BY <1>2, <2>1, <2>2 DEF IsBegun
  <1>8. Range(new) = Range(order) \cup {t}
    <2>1. ASSUME NEW x \in Range(new) PROVE x \in Range(order) \cup {t}
      <3>1. PICK i \in 1..(n + 1) : x = new[i]
        BY <1>2 DEF Range
      <3> QED
        BY <1>1, <1>2, <1>3, <3>1 DEF Range
    <2>2. ASSUME NEW i \in 1..n PROVE order[i] \in Range(new)
      BY <1>2, <1>6 DEF Range
    <2>3. t \in Range(new)
      BY <1>2, <1>9 DEF Range
    <2> QED
      BY <1>1, <2>1, <2>2, <2>3 DEF Range
  <1> QED
    BY <1>7, <1>8 DEF new

(* What comes out is such an order, and without a cycle it is all tasks.   *)
LEMMA TopologicalOrderIs ==
    ASSUME NEW p, IsProjectData(p)
    PROVE  IsBegun(p, TopologicalOrder(p))
PROOF
  <1> DEFINE S == Seq(Tasks(p))
             n == Len(p.tasks)
             Unfold(from) == [order \in S |-> IF Ready(p, order) = {} THEN order ELSE from[Append(order, Min(Ready(p, order)))]]
             from == CHOOSE f : f = Unfold(f)
             measure == [order \in S |-> Cardinality(Tasks(p) \ Range(order))]
             Halts == {order \in S : Ready(p, order) = {}}
             base == [order \in S |-> order]
             succ == [order \in S |-> IF order \in Halts THEN order ELSE Append(order, Min(Ready(p, order)))]
             after == [order \in S |-> [x \in S |-> x]]
  <1>1. TopologicalOrder(p) = from[<<>>]
    BY DEF TopologicalOrder, Ready
  <1>2. IsFiniteSet(Tasks(p)) /\ Cardinality(Tasks(p)) = n /\ n \in Nat /\ Tasks(p) \subseteq Nat
    BY TaskTypes
  <1>3. ASSUME NEW order \in S, order \notin Halts
        PROVE  /\ Min(Ready(p, order)) \in Ready(p, order) /\ Append(order, Min(Ready(p, order))) \in S
               /\ Range(Append(order, Min(Ready(p, order)))) = Range(order) \cup {Min(Ready(p, order))}
    <2>1. Ready(p, order) \subseteq Tasks(p) /\ Ready(p, order) # {}
      BY <1>3 DEF Ready
    <2>2. IsFiniteSet(Ready(p, order)) /\ Ready(p, order) \subseteq Int
      BY <1>2, <2>1, FS_Subset
    <2> DEFINE t == Min(Ready(p, order))
    <2>3. t \in Ready(p, order)
      BY <2>1, <2>2, MinOfFinite
    <2> HIDE DEF t
    <2>4. t \in Tasks(p)
      BY <2>1, <2>3
    <2>5. Append(order, t) \in S
      BY <2>4
    <2>6. Range(Append(order, t)) = Range(order) \cup {t}
      <3> DEFINE m == Len(order)
                 new == Append(order, t)
      <3>1. /\ m \in Nat /\ DOMAIN order = 1..m /\ DOMAIN new = 1..(m + 1) /\ new[m + 1] = t
            /\ \A i \in 1..m : new[i] = order[i]
        BY <2>4
      <3>2. (\A i \in 1..(m + 1) : i = m + 1 \/ i \in 1..m) /\ (\A i \in 1..m : i \in 1..(m + 1)) /\ m + 1 \in 1..(m + 1)
        BY <3>1
      <3> HIDE DEF m, new
      <3>3. \A x \in Range(new) : x = t \/ x \in Range(order)
        BY <3>1, <3>2 DEF Range
      <3>4. \A x \in Range(order) : x \in Range(new)
        BY <3>1, <3>2 DEF Range
      <3>5. t \in Range(new)
        BY <3>1, <3>2 DEF Range
      <3> QED
        BY <3>3, <3>4, <3>5 DEF new
    <2> QED
      BY <2>3, <2>5, <2>6 DEF t
  <1> HIDE DEF S, n
  <1>4. succ \in [S -> S] /\ base \in [S -> S] /\ after \in [S -> [S -> S]]
    BY <1>3
  <1>5. ASSUME NEW order \in S PROVE measure[order] \in 0..n
    <2>1. Tasks(p) \ Range(order) \subseteq Tasks(p)
      OBVIOUS
    <2>2. Cardinality(Tasks(p) \ Range(order)) <= n /\ Cardinality(Tasks(p) \ Range(order)) \in Nat
      BY <1>2, <2>1, FS_Subset, FS_CardinalityType
    <2> QED
      BY <1>2, <2>2
  <1>6. ASSUME NEW order \in S \ Halts PROVE measure[succ[order]] < measure[order]
    <2> DEFINE t == Min(Ready(p, order))
               left == Tasks(p) \ Range(order)
    <2>1. succ[order] = Append(order, t) /\ succ[order] \in S /\ Range(succ[order]) = Range(order) \cup {t} /\ t \in left
      <3>1. order \in S /\ order \notin Halts
        OBVIOUS
      <3>2. succ[order] = Append(order, t)
        BY <3>1
      <3> HIDE DEF succ, Halts
      <3> QED
        BY <1>3, <3>1, <3>2 DEF Ready
    <2>2. Tasks(p) \ Range(succ[order]) = left \ {t}
      BY <2>1
    <2>3. IsFiniteSet(left)
      BY <1>2, FS_Subset
    <2> HIDE DEF left, t, succ
    <2>4. Cardinality(left \ {t}) = Cardinality(left) - 1 /\ Cardinality(left) \in Nat
      BY <2>1, <2>3, FS_RemoveElement, FS_CardinalityType
    <2>5. measure[succ[order]] = Cardinality(left) - 1 /\ measure[order] = Cardinality(left)
      BY <2>1, <2>2, <2>4 DEF left
    <2> QED
      BY <2>4, <2>5
  <1>7. \E g \in [S -> S] : Descends(g, S, Halts, base, succ, after)
    <2> HIDE DEF measure, Halts, base, succ, after
    <2> QED
      BY <1>2, <1>4, <1>5, <1>6, DescentExists
  <1>8. PICK g \in [S -> S] : Descends(g, S, Halts, base, succ, after)
    BY <1>7
  <1>9. g = Unfold(g)
    <2>1. g = [order \in S |-> g[order]]
      OBVIOUS
    <2>2. \A order \in S : g[order] = IF Ready(p, order) = {} THEN order ELSE g[Append(order, Min(Ready(p, order)))]
      BY <1>3, <1>8 DEF Descends
    <2> QED
      BY <2>1, <2>2
  <1>10. from = Unfold(from)
    <2> HIDE DEF Unfold
    <2> QED
      BY <1>9
  <1> HIDE DEF from
  <1>11. \A order \in S : from[order] = IF Ready(p, order) = {} THEN order ELSE from[Append(order, Min(Ready(p, order)))]
    BY <1>10
  <1> DEFINE B == {order \in S : IsBegun(p, order)}
             Good == {order \in S : IsBegun(p, from[order]) /\ Ready(p, from[order]) = {}}
  <1>12. B \subseteq Good
    <2>1. \A order \in B : measure[order] \in Nat
      BY <1>5
    <2>2. ASSUME NEW order \in B
          PROVE  order \in Good \/ (succ[order] \in B /\ measure[succ[order]] < measure[order] /\ (succ[order] \in Good => order \in Good))
      <3>1. CASE order \in Halts
        BY <1>11, <3>1
      <3>2. CASE order \notin Halts
        <4> DEFINE t == Min(Ready(p, order))
        <4>1. order \in S /\ IsBegun(p, order) /\ t \in Ready(p, order) /\ Append(order, t) \in S
          BY <1>3, <3>2
        <4>2. IsBegun(p, Append(order, t))
          BY <4>1, BegunGrows
        <4>3. succ[order] = Append(order, t)
          BY <3>2, <4>1
        <4>4. measure[succ[order]] < measure[order]
          BY <1>6, <3>2, <4>1
        <4>5. from[order] = from[succ[order]]
          BY <1>11, <3>2, <4>1, <4>3
        <4> HIDE DEF t, succ, measure
        <4> QED
          BY <4>1, <4>2, <4>3, <4>4, <4>5
      <3> QED
        BY <3>1, <3>2
    <2> HIDE DEF B, Good, measure, succ
    <2> QED
      BY <2>1, <2>2, DescentKeeps
  <1>13. <<>> \in B
    <2>1. <<>> \in S /\ DOMAIN <<>> = {}
      BY DEF S
    <2> QED
      BY <2>1 DEF IsBegun, S
  <1> QED
    BY <1>1, <1>12, <1>13

(* An order of as many tasks as there are has all of them.                 *)
LEMMA OrderCovers ==
    ASSUME NEW p, IsProjectData(p), NEW order, IsBegun(p, order), Len(order) = Len(p.tasks)
    PROVE  Range(order) = Tasks(p) /\ order \in [1..Len(p.tasks) -> Tasks(p)]
PROOF
  <1>1. order \in Seq(Tasks(p)) /\ \A i, j \in DOMAIN order : order[i] = order[j] => i = j
    BY DEF IsBegun
  <1>2. Range(order) \subseteq Tasks(p) /\ IsFiniteSet(Range(order)) /\ Cardinality(Range(order)) = Len(order)
    BY <1>1, RangeOfSequence
  <1>3. Cardinality(Range(order)) = Cardinality(Tasks(p)) /\ IsFiniteSet(Tasks(p))
    BY <1>2, TaskTypes
  <1>4. Range(order) = Tasks(p)
    BY <1>2, <1>3, FS_Subset
  <1> QED
    BY <1>1, <1>4

-----------------------------------------------------------------------------
(* The two passes of the critical path method.                             *)

(* What is assigned along a list without repetition stays.                 *)
Assigns(n, S, seq, at, v) ==
    /\ seq \in [1..n -> S] /\ \A i, j \in 1..n : seq[i] = seq[j] => i = j
    /\ \A k \in 1..n : at[k][seq[k]] = v[k]
    /\ \A k \in 1..n : \A s \in S : s # seq[k] => at[k][s] = at[k - 1][s]

(* What was assigned along such a list is the same to its end.             *)
LEMMA AssignedInOrder ==
    ASSUME NEW n \in Nat, NEW S, NEW seq, NEW at, NEW v, Assigns(n, S, seq, at, v)
    PROVE  \A k \in 1..n : \A m \in k..n : at[m][seq[k]] = v[k]
PROOF
  <1> USE DEF Assigns
  <1> SUFFICES ASSUME NEW k \in 1..n PROVE \A m \in k..n : at[m][seq[k]] = v[k]
    OBVIOUS
  <1> DEFINE Good == {d \in Nat : k + d <= n => at[k + d][seq[k]] = v[k]}
  <1>1. 0 \in Good
    <2>1. k + 0 = k
      OBVIOUS
    <2> QED
      BY <2>1
  <1>2. ASSUME NEW d \in Nat, d \in Good PROVE d + 1 \in Good
    <2>1. SUFFICES ASSUME k + (d + 1) <= n PROVE at[k + (d + 1)][seq[k]] = v[k]
      OBVIOUS
    <2> DEFINE m == k + (d + 1)
    <2>2. m \in 1..n /\ m - 1 = k + d /\ m # k /\ k + d <= n
      BY <2>1
    <2>3. at[m - 1][seq[k]] = v[k]
      BY <1>2, <2>2
    <2> HIDE DEF m
    <2>5. seq[m] # seq[k] /\ seq[k] \in S
      BY <2>2
    <2>6. at[m][seq[k]] = v[k]
      BY <2>2, <2>3, <2>5
    <2> QED
      BY <2>6 DEF m
  <1>3. Nat \subseteq Good
    <2> HIDE DEF Good
    <2> QED
      BY <1>1, <1>2, AllNaturals
  <1>4. ASSUME NEW m \in k..n PROVE at[m][seq[k]] = v[k]
    <2>1. m - k \in Good /\ k + (m - k) = m
      <3>1. m - k \in Nat
        OBVIOUS
      <3> HIDE DEF Good
      <3> QED
        BY <1>3, <3>1
    <2> QED
      BY <2>1
  <1> QED
    BY <1>4

(* The earliest start that what comes before a task leaves it.             *)
EarliestOf(p, es, t) == Highest(0, {es[q] + Duration(p, q) : q \in Predecessors(p, t)})
(* The latest finish of a task that its successors leave it.               *)
LatestOf(p, ls, makespan, t) == Min({makespan} \cup {ls[s] : s \in Successors(p, t)}) - Duration(p, t)

(* The earliest start of a task is a number.                               *)
LEMMA EarliestOfIs ==
    ASSUME NEW p, IsProjectData(p), NEW es \in [Tasks(p) -> Nat], NEW t \in Tasks(p)
    PROVE  /\ EarliestOf(p, es, t) \in Nat
           /\ \A q \in Predecessors(p, t) : es[q] + Duration(p, q) <= EarliestOf(p, es, t)
           /\ EarliestOf(p, es, t) = 0 \/ \E q \in Predecessors(p, t) : es[q] + Duration(p, q) = EarliestOf(p, es, t)
PROOF
  <1> DEFINE P == Predecessors(p, t)
             f == [q \in P |-> es[q] + Duration(p, q)]
             V == {es[q] + Duration(p, q) : q \in P}
             W == {f[q] : q \in P}
  <1>1. IsFiniteSet(P) /\ \A q \in P : f[q] \in Int /\ f[q] = es[q] + Duration(p, q)
    BY TaskTypes
  <1>2. V = W
    OBVIOUS
  <1>3. IsFiniteSet(W) /\ W \subseteq Int
    <2> HIDE DEF f, P
    <2> QED
      BY <1>1, FiniteNumbers
  <1>6. IsFiniteSet(V) /\ V \subseteq Int /\ 0 \in Int
    <2> HIDE DEF V, W
    <2> QED
      BY <1>2, <1>3
  <1>5. EarliestOf(p, es, t) = Highest(0, V)
    BY DEF EarliestOf
  <1> DEFINE h == Highest(0, V)
  <1>4. h \in {0} \cup V /\ h \in Int /\ h >= 0 /\ \A x \in V : x <= h
    <2> HIDE DEF V, W
    <2> QED
      BY <1>6, HighestIs
  <1>7. \A q \in P : es[q] + Duration(p, q) \in V
    OBVIOUS
  <1>8. \A x \in V : \E q \in P : es[q] + Duration(p, q) = x
    OBVIOUS
  <1> HIDE DEF V, W, P, f, h
  <1>9. h \in Nat /\ (\A q \in P : es[q] + Duration(p, q) <= h) /\ (h = 0 \/ \E q \in P : es[q] + Duration(p, q) = h)
    BY <1>4, <1>7, <1>8
  <1> QED
    BY <1>5, <1>9 DEF h, P

(* So is the latest finish.                                                *)
LEMMA LatestOfIs ==
    ASSUME NEW p, IsProjectData(p), NEW ls \in [Tasks(p) -> Int], NEW makespan \in Int, NEW t \in Tasks(p)
    PROVE  /\ LatestOf(p, ls, makespan, t) \in Int
           /\ \A s \in Successors(p, t) : LatestOf(p, ls, makespan, t) + Duration(p, t) <= ls[s]
           /\ LatestOf(p, ls, makespan, t) + Duration(p, t) <= makespan
           /\ \/ LatestOf(p, ls, makespan, t) + Duration(p, t) = makespan
              \/ \E s \in Successors(p, t) : LatestOf(p, ls, makespan, t) + Duration(p, t) = ls[s]
PROOF
  <1> DEFINE P == Successors(p, t)
             W == {ls[s] : s \in P}
             T == {makespan} \cup W
             d == Duration(p, t)
  <1>1. IsFiniteSet(P) /\ (\A s \in P : ls[s] \in Int) /\ d \in Int
    BY TaskTypes
  <1>3. IsFiniteSet(W) /\ W \subseteq Int
    <2> HIDE DEF P
    <2> QED
      BY <1>1, FiniteNumbers
  <1>2. IsFiniteSet(T) /\ T \subseteq Int /\ T # {}
    <2> HIDE DEF W
    <2>1. T = W \cup {makespan}
      OBVIOUS
    <2>2. IsFiniteSet(T)
      BY <1>3, <2>1, FS_AddElement
    <2> QED
      BY <1>3, <2>2
  <1>4. LatestOf(p, ls, makespan, t) = Min(T) - d
    BY DEF LatestOf
  <1> HIDE DEF T
  <1>5. Min(T) \in T /\ \A x \in T : Min(T) <= x
    BY <1>2, MinOfFinite
  <1>6. Min(T) \in Int
    BY <1>2, <1>5
  <1>7. Min(T) - d + d = Min(T) /\ Min(T) - d \in Int
    BY <1>1, <1>6
  <1>8. Min(T) <= makespan /\ \A s \in P : Min(T) <= ls[s]
    BY <1>5 DEF T
  <1>9. Min(T) = makespan \/ \E s \in P : Min(T) = ls[s]
    BY <1>5 DEF T
  <1> QED
    BY <1>4, <1>7, <1>8, <1>9

(* The forward pass, along an order that respects the dependencies, gives  *)
(* every task the earliest start that its predecessors leave it.           *)
THEOREM EarliestIs ==
    ASSUME NEW p, IsProjectData(p), NEW order \in Seq(Tasks(p))
    PROVE  LET es == Earliest(p, order)
           IN  /\ es \in [Tasks(p) -> Nat]
               /\ IsBegun(p, order) => \A t \in Range(order) : es[t] = EarliestOf(p, es, t)
PROOF
  <1> DEFINE n == Len(order)
             X == [Tasks(p) -> Nat]
             base == [t \in Tasks(p) |-> 0]
             Dated(x, t) == [x EXCEPT ![t] = EarliestOf(p, x, t)]
             Unfold(it) == [T \in SUBSET DOMAIN order |-> IF T = {} THEN base
                                                        ELSE Dated(it[T \ {Max(T)}], order[Max(T)])]
             it == CHOOSE f : f = Unfold(f)
             next == [k \in 1..n |-> [x \in X |-> Dated(x, order[k])]]
             es == Earliest(p, order)
  <1>1. es = it[DOMAIN order]
    BY DEF Earliest, FoldLeft, MapThenFoldSet, EarliestOf
  <1>2. DOMAIN order = 1..n /\ n \in Nat /\ \A k \in 1..n : order[k] \in Tasks(p)
    OBVIOUS
  <1>3. base \in X /\ \A x \in X : \A t \in Tasks(p) : Dated(x, t) \in X
    BY EarliestOfIs
  <1> HIDE DEF n, Dated, X, base
  <1>4. next \in [1..n -> [X -> X]]
    BY <1>2, <1>3
  <1>5. PICK fold \in [SUBSET (1..n) -> X] : IsFold(fold, n, base, next)
    <2> HIDE DEF next
    <2> QED
      BY <1>2, <1>3, <1>4, FoldExists
  <1>6. fold = Unfold(fold)
    <2>1. ASSUME NEW T \in SUBSET (1..n), T # {}
          PROVE  next[Max(T)][fold[T \ {Max(T)}]] = Dated(fold[T \ {Max(T)}], order[Max(T)])
      <3>1. Max(T) \in 1..n
        BY <1>2, <2>1, MaxIsIn
      <3>2. fold[T \ {Max(T)}] \in X
        BY <1>5
      <3> QED
        BY <3>1, <3>2
    <2> HIDE DEF next
    <2> QED
      BY <1>2, <1>5, <2>1 DEF IsFold
  <1>7. it = Unfold(it)
    <2> HIDE DEF Unfold
    <2> QED
      BY <1>6
  <1> HIDE DEF it
  <1>8. it[1..0] = base
    <2>1. 1..0 = {}
      OBVIOUS
    <2> QED
      BY <1>7, <2>1
  <1>9. ASSUME NEW k \in 1..n PROVE it[1..k] = Dated(it[1..(k - 1)], order[k])
    <2> DEFINE T == 1..k
    <2>1. Max(T) = k /\ T \ {k} = 1..(k - 1) /\ T \in SUBSET (1..n) /\ T # {}
      BY <1>2, MaxOfInterval
    <2> HIDE DEF T
    <2>2. it[T] = Dated(it[T \ {Max(T)}], order[Max(T)])
      BY <1>2, <1>7, <2>1
    <2> QED
      BY <2>1, <2>2 DEF T
  <1>10. \A k \in 0..n : it[1..k] \in X
    <2> DEFINE G == [k \in 0..n |-> X]
    <2>1. it[1..0] \in G[0]
      BY <1>2, <1>3, <1>8
    <2>2. \A k \in 1..n : it[1..(k - 1)] \in G[k - 1] => it[1..k] \in G[k]
      <3>1. \A k \in 1..n : k - 1 \in 0..n /\ k \in 0..n
        BY <1>2
      <3>2. \A k \in 1..n : G[k - 1] = X /\ G[k] = X
        BY <3>1
      <3> HIDE DEF G
      <3>3. ASSUME NEW k \in 1..n, it[1..(k - 1)] \in X PROVE it[1..k] \in X
        BY <1>2, <1>3, <1>9, <3>3
      <3> QED
        BY <3>2, <3>3
    <2>3. \A k \in 0..n : it[1..k] \in G[k]
      <3> HIDE DEF G
      <3> QED
        BY <1>2, <2>1, <2>2, FoldKeeps
    <2> QED
      BY <2>3
  <1>11. es = it[1..n]
    BY <1>1, <1>2
  <1>12. es \in X
    <2>1. n \in 0..n
      BY <1>2
    <2> QED
      BY <1>10, <1>11, <2>1
  <1>13. ASSUME IsBegun(p, order), NEW t \in Range(order) PROVE es[t] = EarliestOf(p, es, t)
    <2> DEFINE v == [k \in 1..n |-> EarliestOf(p, it[1..(k - 1)], order[k])]
    <2>1. \A i, j \in 1..n : order[i] = order[j] => i = j
      BY <1>2, <1>13 DEF IsBegun
    <2>2. \A k \in 1..n : it[1..k] = [it[1..(k - 1)] EXCEPT ![order[k]] = v[k]]
      BY <1>9 DEF Dated
    <2>3. order \in [1..n -> Tasks(p)] /\ \A k \in 0..n : it[1..k] \in [Tasks(p) -> Nat]
      BY <1>2, <1>10 DEF X
    <2>4. \A k \in 1..n : \A m \in k..n : it[1..m][order[k]] = v[k]
      <3> DEFINE S == Tasks(p)
                 at == [m \in 0..n |-> it[1..m]]
      <3>1. n \in Nat /\ order \in [1..n -> S]
        BY <1>2, <2>3
      <3>2. ASSUME NEW k \in 1..n PROVE /\ at[k] = [at[k - 1] EXCEPT ![order[k]] = v[k]]
                                        /\ at[k - 1] \in [S -> Nat] /\ order[k] \in S
        <4>1. k \in 0..n /\ k - 1 \in 0..n
          BY <3>1
        <4>2. at[k] = it[1..k] /\ at[k - 1] = it[1..(k - 1)]
          BY <4>1
        <4> HIDE DEF at, v
        <4> QED
          BY <2>2, <2>3, <3>1, <4>1, <4>2
      <3> HIDE DEF v, S, es, at
      <3>3. ASSUME NEW k \in 1..n PROVE /\ at[k][order[k]] = v[k]
                                        /\ \A s \in S : s # order[k] => at[k][s] = at[k - 1][s]
        <4> DEFINE x == at[k - 1]
                   y == at[k]
                   o == order[k]
                   w == v[k]
        <4>1. y = [x EXCEPT ![o] = w] /\ x \in [S -> Nat] /\ o \in S
          BY <3>2
        <4> HIDE DEF x, y, o, w
        <4>2. y[o] = w /\ \A s \in S : s # o => y[s] = x[s]
          BY <4>1
        <4> QED
          BY <4>2 DEF x, y, o, w
      <3>4. Assigns(n, S, order, at, v)
        BY <2>1, <3>1, <3>3 DEF Assigns
      <3>5. \A k \in 1..n : \A m \in k..n : at[m][order[k]] = v[k]
        BY <3>1, <3>4, AssignedInOrder
      <3>6. \A k \in 1..n : \A m \in k..n : m \in 0..n
        BY <3>1
      <3> QED
        BY <3>5, <3>6 DEF at
    <2>5. PICK k \in 1..n : t = order[k]
      BY <1>2 DEF Range
    <2>6. es[t] = v[k] /\ v[k] = EarliestOf(p, it[1..(k - 1)], t)
      <3>1. n \in k..n
        BY <1>2
      <3> QED
        BY <1>11, <2>4, <2>5, <3>1
    <2>7. ASSUME NEW q \in Predecessors(p, t) PROVE it[1..(k - 1)][q] = es[q]
      <3>1. PICK j \in 1..n : j < k /\ order[j] = q
        BY <1>2, <1>13, <2>5 DEF IsBegun
      <3>2. k - 1 \in j..n /\ n \in j..n
        BY <1>2, <3>1
      <3> QED
        BY <1>11, <2>4, <3>1, <3>2
    <2>8. EarliestOf(p, it[1..(k - 1)], t) = EarliestOf(p, es, t)
      <3>1. {it[1..(k - 1)][q] + Duration(p, q) : q \in Predecessors(p, t)}
            = {es[q] + Duration(p, q) : q \in Predecessors(p, t)}
        BY <2>7
      <3> QED
        BY <3>1 DEF EarliestOf
    <2> QED
      BY <2>6, <2>8
  <1> QED
    BY <1>12, <1>13 DEF X

(* Backwards: every task comes after what depends on it.                   *)
LEMMA LatestIs ==
    ASSUME NEW p, IsProjectData(p), NEW order \in Seq(Tasks(p)), NEW makespan \in Int
    PROVE  LET ls == Latest(p, order, makespan)
           IN  /\ ls \in [Tasks(p) -> Int]
               /\ IsBegun(p, order) /\ Len(order) = Len(p.tasks) => \A t \in Tasks(p) : ls[t] = LatestOf(p, ls, makespan, t)
PROOF
  <1> DEFINE rev == Reverse(order)
             n == Len(order)
             X == [Tasks(p) -> Int]
             base == [t \in Tasks(p) |-> 0]
             Dated(x, t) == [x EXCEPT ![t] = LatestOf(p, x, makespan, t)]
             Unfold(it) == [T \in SUBSET DOMAIN rev |-> IF T = {} THEN base
                                                        ELSE Dated(it[T \ {Max(T)}], rev[Max(T)])]
             it == CHOOSE f : f = Unfold(f)
             next == [k \in 1..n |-> [x \in X |-> Dated(x, rev[k])]]
             ls == Latest(p, order, makespan)
  <1>1. ls = it[DOMAIN rev]
    BY DEF Latest, FoldLeft, MapThenFoldSet, LatestOf
  <1>2. DOMAIN order = 1..n /\ n \in Nat /\ (\A k \in 1..n : order[k] \in Tasks(p))
    OBVIOUS
  <1>3. DOMAIN rev = 1..n /\ (\A k \in 1..n : rev[k] = order[(n - k) + 1] /\ (n - k) + 1 \in 1..n)
    <2>1. rev = [i \in 1..n |-> order[(n - i) + 1]]
      BY DEF Reverse
    <2>2. \A k \in 1..n : (n - k) + 1 \in 1..n
      BY <1>2
    <2> HIDE DEF rev, n
    <2> QED
      BY <2>1, <2>2
  <1>4. base \in X /\ (\A x \in X : \A t \in Tasks(p) : Dated(x, t) \in X)
    BY LatestOfIs
  <1> HIDE DEF n, Dated, X, base, rev
  <1>14. \A k \in 1..n : rev[k] \in Tasks(p)
    BY <1>2, <1>3
  <1>5. next \in [1..n -> [X -> X]]
    BY <1>4, <1>14
  <1>6. PICK fold \in [SUBSET (1..n) -> X] : IsFold(fold, n, base, next)
    <2> HIDE DEF next
    <2> QED
      BY <1>2, <1>4, <1>5, FoldExists
  <1>7. fold = Unfold(fold)
    <2>1. ASSUME NEW T \in SUBSET (1..n), T # {}
          PROVE  next[Max(T)][fold[T \ {Max(T)}]] = Dated(fold[T \ {Max(T)}], rev[Max(T)])
      <3>1. Max(T) \in 1..n
        BY <1>2, <2>1, MaxIsIn
      <3>2. fold[T \ {Max(T)}] \in X
        BY <1>6
      <3> QED
        BY <3>1, <3>2
    <2> HIDE DEF next
    <2> QED
      BY <1>3, <1>6, <2>1 DEF IsFold
  <1>8. it = Unfold(it)
    <2> HIDE DEF Unfold
    <2> QED
      BY <1>7
  <1> HIDE DEF it
  <1>9. FoldsOver(it, n, X, base, next)
    <2>1. it[{}] = base
      BY <1>8
    <2>2. ASSUME NEW T \in SUBSET (1..n), T # {}, it[T \ {Max(T)}] \in X
          PROVE  it[T] = next[Max(T)][it[T \ {Max(T)}]]
      <3>1. it[T] = Dated(it[T \ {Max(T)}], rev[Max(T)])
        BY <1>3, <1>8, <2>2
      <3>2. Max(T) \in 1..n
        BY <1>2, <2>2, MaxIsIn
      <3> QED
        BY <2>2, <3>1, <3>2
    <2> QED
      BY <2>1, <2>2 DEF FoldsOver
  <1>10. /\ it[1..0] = base /\ (\A k \in 0..n : it[1..k] \in X)
         /\ \A k \in 1..n : it[1..k] = next[k][it[1..(k - 1)]]
    <2> HIDE DEF next, Unfold
    <2>1. n \in Nat /\ base \in X
      BY <1>2, <1>4
    <2> QED
      BY <2>1, <1>5, <1>9, FoldAlong
  <1>11. ls = it[1..n] /\ ls \in X
    <2>1. n \in 0..n
      BY <1>2
    <2> QED
      BY <1>1, <1>3, <1>10, <2>1
  <1>12. \A k \in 1..n : it[1..k] = Dated(it[1..(k - 1)], rev[k]) /\ it[1..(k - 1)] \in X
    <2>1. \A k \in 1..n : k - 1 \in 0..n
      BY <1>2
    <2> QED
      BY <1>10, <2>1
  <1> HIDE DEF next, ls
  <1>13. ASSUME IsBegun(p, order), Len(order) = Len(p.tasks), NEW t \in Tasks(p) PROVE ls[t] = LatestOf(p, ls, makespan, t)
    <2> DEFINE S == Tasks(p)
               at == [m \in 0..n |-> it[1..m]]
               v == [k \in 1..n |-> LatestOf(p, at[k - 1], makespan, rev[k])]
    <2>1. \A i, j \in 1..n : rev[i] = rev[j] => i = j
      <3>1. \A i, j \in 1..n : order[i] = order[j] => i = j
        BY <1>2, <1>13 DEF IsBegun
      <3> SUFFICES ASSUME NEW i \in 1..n, NEW j \in 1..n, rev[i] = rev[j] PROVE i = j
        OBVIOUS
      <3>2. (n - i) + 1 = (n - j) + 1
        BY <1>3, <3>1
      <3> QED
        BY <1>2, <3>2
    <2>2. rev \in [1..n -> S]
      <3>1. rev = [k \in 1..n |-> rev[k]]
        BY <1>3 DEF rev, Reverse
      <3> QED
        BY <1>14, <3>1
    <2>3. ASSUME NEW k \in 1..n PROVE /\ at[k] = [at[k - 1] EXCEPT ![rev[k]] = v[k]]
                                      /\ at[k - 1] \in [S -> Int] /\ rev[k] \in S
                                      /\ v[k] = LatestOf(p, at[k - 1], makespan, rev[k])
      <3>1. k \in 0..n /\ k - 1 \in 0..n
        BY <1>2
      <3>2. at[k] = it[1..k] /\ at[k - 1] = it[1..(k - 1)]
        BY <3>1
      <3>3. v[k] = LatestOf(p, at[k - 1], makespan, rev[k])
        OBVIOUS
      <3> HIDE DEF at, v
      <3> QED
        BY <1>12, <1>14, <3>1, <3>2, <3>3 DEF Dated, X
    <2> HIDE DEF at, v, S
    <2>4. ASSUME NEW k \in 1..n PROVE /\ at[k][rev[k]] = v[k]
                                      /\ \A s \in S : s # rev[k] => at[k][s] = at[k - 1][s]
      <3> DEFINE x == at[k - 1]
                 y == at[k]
                 o == rev[k]
                 w == v[k]
      <3>1. y = [x EXCEPT ![o] = w] /\ x \in [S -> Int] /\ o \in S
        BY <2>3
      <3> HIDE DEF x, y, o, w
      <3>2. y[o] = w /\ \A s \in S : s # o => y[s] = x[s]
        BY <3>1
      <3> QED
        BY <3>2 DEF x, y, o, w
    <2>5. \A k \in 1..n : \A m \in k..n : at[m][rev[k]] = v[k]
      <3>1. Assigns(n, S, rev, at, v)
        BY <2>1, <2>2, <2>4 DEF Assigns
      <3> QED
        BY <1>2, <3>1, AssignedInOrder
    <2>6. \A k \in 1..n : n \in k..n /\ ls[rev[k]] = v[k]
      <3>1. at[n] = ls
        <4>1. n \in 0..n
          BY <1>2
        <4> QED
          BY <1>11, <4>1 DEF at
      <3>2. \A k \in 1..n : n \in k..n
        BY <1>2
      <3> QED
        BY <2>5, <3>1, <3>2
    <2>7. PICK h \in 1..n : order[h] = t
      <3>1. Range(order) = Tasks(p)
        BY <1>13, OrderCovers
      <3> QED
        BY <1>2, <3>1 DEF Range
    <2> DEFINE k == (n - h) + 1
    <2>8. k \in 1..n /\ rev[k] = t
      <3>1. k \in 1..n /\ (n - k) + 1 = h
        BY <1>2
      <3> HIDE DEF k
      <3> QED
        BY <1>3, <2>7, <3>1
    <2>9. ASSUME NEW s \in Successors(p, t) PROVE at[k - 1][s] = ls[s]
      <3>1. s \in Tasks(p) /\ t \in Predecessors(p, s)
        BY TaskTypes
      <3>2. PICK m \in 1..n : order[m] = s
        <4>1. Range(order) = Tasks(p)
          BY <1>13, OrderCovers
        <4> QED
          BY <1>2, <3>1, <4>1 DEF Range
      <3>3. PICK i \in 1..n : i < m /\ order[i] = t
        BY <1>2, <1>13, <3>1, <3>2 DEF IsBegun
      <3>4. i = h
        BY <1>2, <1>13, <2>7, <3>3 DEF IsBegun
      <3> DEFINE j == (n - m) + 1
      <3>5. j \in 1..n /\ (n - j) + 1 = m /\ k - 1 \in j..n
        BY <1>2, <2>7, <3>2, <3>3, <3>4
      <3> HIDE DEF j, k
      <3>6. rev[j] = s
        BY <1>3, <3>2, <3>5
      <3> QED
        BY <2>5, <2>6, <3>5, <3>6
    <2> HIDE DEF k
    <2>10. LatestOf(p, at[k - 1], makespan, t) = LatestOf(p, ls, makespan, t)
      <3>1. {at[k - 1][s] : s \in Successors(p, t)} = {ls[s] : s \in Successors(p, t)}
        BY <2>9
      <3> QED
        BY <3>1 DEF LatestOf
    <2> QED
      BY <2>3, <2>6, <2>8, <2>10
  <1> QED
    BY <1>11, <1>13 DEF X, ls

-----------------------------------------------------------------------------
(* The values of a function on a finite set of tasks have a highest.       *)
LEMMA HighestOf ==
    ASSUME NEW S, IsFiniteSet(S), NEW f, \A t \in S : f[t] \in Int
    PROVE  LET h == Highest(0, {f[t] : t \in S})
           IN  /\ h \in Nat /\ \A t \in S : f[t] <= h
               /\ h = 0 \/ \E t \in S : h = f[t]
PROOF
  <1> DEFINE V == {f[t] : t \in S}
             h == Highest(0, V)
  <1>1. IsFiniteSet(V) /\ V \subseteq Int
    BY FiniteNumbers
  <1>2. 0 \in Int /\ (\A t \in S : f[t] \in V) /\ (\A x \in V : \E t \in S : x = f[t])
    OBVIOUS
  <1> HIDE DEF V
  <1>3. h \in {0} \cup V /\ h \in Int /\ h >= 0 /\ \A x \in V : x <= h
    BY <1>1, <1>2, HighestIs
  <1> HIDE DEF h
  <1>4. h \in Nat /\ (\A t \in S : f[t] <= h) /\ (h = 0 \/ \E t \in S : h = f[t])
    BY <1>2, <1>3
  <1> QED
    BY <1>4 DEF h, V

(* A chain of tasks each of which starts when the one before it ends.      *)
LEMMA ChainIs ==
    ASSUME NEW p, IsProjectData(p), NEW critical \in SUBSET Tasks(p), NEW start \in [Tasks(p) -> Nat],
           NEW head \in Tasks(p)
    PROVE  ChainFrom(p, critical, start, head) \in Seq(Tasks(p))
PROOF
  <1> DEFINE S == Tasks(p)
             X == Seq(Tasks(p))
             next(t) == {s \in Successors(p, t) \cap critical : start[t] + Duration(p, t) = start[s]}
             Unfold(from) == [t \in S |-> <<t>> \o (IF next(t) = {} THEN <<>> ELSE from[Min(next(t))])]
             from == CHOOSE f : f = Unfold(f)
             B == Highest(0, {start[t] : t \in S})
             measure == [t \in S |-> B - start[t]]
             Halts == {t \in S : next(t) = {}}
             base == [t \in S |-> <<t>>]
             succ == [t \in S |-> IF t \in Halts THEN t ELSE Min(next(t))]
             after == [t \in S |-> [x \in X |-> <<t>> \o x]]
  <1>1. ChainFrom(p, critical, start, head) = from[head]
    BY DEF ChainFrom
  <1>2. IsFiniteSet(S) /\ S \subseteq Nat /\ \A t \in S : start[t] \in Nat
    BY TaskTypes
  <1>3. B \in Nat /\ \A t \in S : start[t] <= B
    <2> HIDE DEF S
    <2>1. \A t \in S : start[t] \in Int
      BY <1>2
    <2> QED
      BY <1>2, <2>1, HighestOf
  <1> HIDE DEF B
  <1>4. \A t \in S : measure[t] \in 0..B
    BY <1>2, <1>3
  <1>5. ASSUME NEW t \in S, t \notin Halts
        PROVE  succ[t] = Min(next(t)) /\ succ[t] \in S /\ measure[succ[t]] < measure[t]
    <2> DEFINE N == next(t)
               s == Min(N)
    <2>1. N # {} /\ N \subseteq S /\ \A u \in N : start[u] > start[t]
      <3>1. Duration(p, t) \in Nat \ {0} /\ Successors(p, t) \subseteq S
        BY TaskTypes
      <3>2. N # {}
        BY <1>5
      <3>3. \A u \in N : u \in S /\ start[u] = start[t] + Duration(p, t)
        BY <3>1
      <3> QED
        BY <1>2, <3>1, <3>2, <3>3
    <2>2. IsFiniteSet(N) /\ N \subseteq Int
      BY <1>2, <2>1, FS_Subset
    <2>3. succ[t] = s
      BY <1>5
    <2> HIDE DEF N, succ
    <2>4. s \in N
      BY <2>1, <2>2, MinOfFinite
    <2>5. s \in S /\ start[s] > start[t]
      BY <2>1, <2>4
    <2> HIDE DEF s
    <2>6. measure[s] < measure[t]
      BY <1>2, <1>3, <2>5
    <2> HIDE DEF measure
    <2> QED
      BY <2>3, <2>5, <2>6 DEF s, N
  <1> HIDE DEF next
  <1>6. base \in [S -> X] /\ after \in [S -> [X -> X]]
    OBVIOUS
  <1>7. succ \in [S -> S]
    <2>1. \A t \in S : succ[t] \in S
      <3>1. \A t \in S : t \in Halts => succ[t] \in S
        OBVIOUS
      <3> HIDE DEF succ, Halts
      <3> QED
        BY <1>5, <3>1
    <2> QED
      BY <2>1
  <1>8. \A t \in S \ Halts : measure[succ[t]] < measure[t]
    <2> HIDE DEF Halts, succ, measure
    <2> QED
      BY <1>5
  <1>9. PICK g : g \in [S -> X] /\ Descends(g, S, Halts, base, succ, after)
    <2>1. \E g \in [S -> X] : Descends(g, S, Halts, base, succ, after)
      <3> HIDE DEF Halts, succ, measure, base, after, S, X
      <3> QED
        BY <1>3, <1>4, <1>6, <1>7, <1>8, DescentExists
    <2> QED
      BY <2>1
  <1>10. ASSUME NEW t \in S, NEW f
         PROVE  Unfold(f)[t] = IF t \in Halts THEN <<t>> ELSE <<t>> \o f[Min(next(t))]
    <2>1. <<t>> \o <<>> = <<t>>
      OBVIOUS
    <2> QED
      BY <2>1
  <1>11. g = Unfold(g)
    <2>1. g = [t \in S |-> g[t]]
      BY <1>9
    <2>2. ASSUME NEW t \in S PROVE g[t] = Unfold(g)[t]
      <3>1. CASE t \in Halts
        <4>1. g[t] = <<t>>
          BY <1>9, <3>1 DEF Descends
        <4> HIDE DEF Unfold
        <4> QED
          BY <1>10, <3>1, <4>1
      <3>2. CASE t \notin Halts
        <4>1. g[t] = <<t>> \o g[Min(next(t))]
          <5>1. g[t] = after[t][g[succ[t]]] /\ succ[t] \in S /\ succ[t] = Min(next(t))
            BY <1>5, <1>9, <3>2 DEF Descends
          <5>2. g[succ[t]] \in X
            BY <1>9, <5>1
          <5> HIDE DEF succ
          <5> QED
            BY <5>1, <5>2
        <4> HIDE DEF Unfold
        <4> QED
          BY <1>10, <3>2, <4>1
      <3> QED
        BY <3>1, <3>2
    <2>3. Unfold(g) = [t \in S |-> Unfold(g)[t]]
      OBVIOUS
    <2> HIDE DEF Unfold
    <2> QED
      BY <2>1, <2>2, <2>3
  <1>12. from = Unfold(from)
    <2> HIDE DEF Unfold
    <2> QED
      BY <1>11
  <1> HIDE DEF from
  <1> DEFINE Good == {t \in S : from[t] \in X}
  <1>13. S \subseteq Good
    <2>1. \A t \in S : measure[t] \in Nat
      BY <1>3, <1>4
    <2>2. ASSUME NEW t \in S
          PROVE  t \in Good \/ (succ[t] \in S /\ measure[succ[t]] < measure[t] /\ (succ[t] \in Good => t \in Good))
      <3>1. from[t] = IF t \in Halts THEN <<t>> ELSE <<t>> \o from[Min(next(t))]
        <4>1. from[t] = Unfold(from)[t]
          BY <1>12
        <4> HIDE DEF Unfold
        <4> QED
          BY <1>10, <4>1
      <3>4. <<t>> \in X /\ \A x \in X : <<t>> \o x \in X
        OBVIOUS
      <3> HIDE DEF X
      <3>2. CASE t \in Halts
        <4> HIDE DEF Halts
        <4> QED
          BY <3>1, <3>2, <3>4
      <3>3. CASE t \notin Halts
        <4>1. succ[t] \in S /\ measure[succ[t]] < measure[t] /\ from[t] = <<t>> \o from[succ[t]]
          BY <1>5, <3>1, <3>3
        <4>2. succ[t] \in Good => t \in Good
          <5> HIDE DEF succ
          <5> QED
            BY <3>4, <4>1
        <4> HIDE DEF succ, measure, Good
        <4> QED
          BY <4>1, <4>2
      <3> QED
        BY <3>2, <3>3
    <2> HIDE DEF Good, measure, succ
    <2> QED
      BY <2>1, <2>2, DescentKeeps
  <1> QED
    BY <1>1, <1>13

(* The makespan is no less than any finish.                                *)
LEMMA MakespanIs ==
    ASSUME NEW p, IsProjectData(p), NEW starts \in [Tasks(p) -> Nat]
    PROVE  Makespan(p, starts) \in Int /\ \A t \in Tasks(p) : starts[t] + Duration(p, t) <= Makespan(p, starts)
PROOF
  <1> DEFINE S == Tasks(p)
             f == [t \in S |-> starts[t] + Duration(p, t)]
             V == {f[t] : t \in S}
  <1>1. IsFiniteSet(S) /\ \A t \in S : f[t] \in Int /\ f[t] = starts[t] + Duration(p, t)
    BY TaskTypes
  <1>2. V = {starts[t] + Duration(p, t) : t \in Tasks(p)}
    BY <1>1
  <1>3. Makespan(p, starts) = Highest(0, V)
    BY <1>2 DEF Makespan
  <1> HIDE DEF S, f
  <1> DEFINE h == Highest(0, {f[t] : t \in S})
  <1>4. h \in Nat /\ \A t \in S : f[t] <= h
    BY <1>1, HighestOf
  <1> HIDE DEF h
  <1> QED
    BY <1>1, <1>3, <1>4 DEF h, S

(* The schedule of any starts, with the figures it has.                    *)
LEMMA ProjectAnswerIsSound ==
    ASSUME NEW p, p.type = "project_scheduling", IsProjectData(p), NEW starts \in [Tasks(p) -> Nat],
           NEW cpm, cpm.order \in Seq(Tasks(p)), cpm.critical \in Seq(Tasks(p)), cpm.slack \in [Tasks(p) -> Int]
    PROVE  IsSound(p, ProjectAnswer(p, starts, cpm))
PROOF
  <1> DEFINE entry(t) == [task |-> t, start |-> Whole * starts[t],
                          finish |-> Whole * (starts[t] + Duration(p, t)), slack |-> Whole * cpm.slack[t]]
             schedule == [t \in Tasks(p) |-> entry(t)]
             entries == [task : Nat, start : Int, finish : Int, slack : Int]
             makespan == Whole * Makespan(p, starts)
             a == [order |-> cpm.order, schedule |-> schedule, critical |-> cpm.critical, makespan |-> makespan]
             m == [makespan |-> makespan, peak_resource |-> PeakResource(p, schedule)]
             s == ProjectAnswer(p, starts, cpm)
  <1>1. s = Answer(a, m)
    BY DEF ProjectAnswer, ScheduleAnswer
  <1>2. /\ Tasks(p) = 1..Len(p.tasks) /\ Len(p.tasks) \in Nat /\ IsFiniteSet(Tasks(p)) /\ Tasks(p) \subseteq Nat
        /\ \A t \in Tasks(p) : Duration(p, t) \in Nat
    BY TaskTypes
  <1>3. makespan \in Int
    <2>1. Makespan(p, starts) \in Int
      BY MakespanIs
    <2> QED
      BY <2>1, WholeAssumption
  <1>4. schedule \in Seq(entries)
    <2>1. \A t \in Tasks(p) : entry(t) \in entries
      BY <1>2, WholeAssumption
    <2> HIDE DEF entry, entries
    <2>2. schedule \in [1..Len(p.tasks) -> entries]
      BY <1>2, <2>1
    <2> DEFINE n == Len(p.tasks)
    <2> HIDE DEF schedule, n
    <2>3. n \in Nat /\ schedule \in [1..n -> entries]
      BY <1>2, <2>2 DEF n
    <2> QED
      BY <2>3
  <1>5. cpm.order \in Seq(Nat) /\ cpm.critical \in Seq(Nat)
    <2> DEFINE o == cpm.order
               c == cpm.critical
    <2>1. o \in Seq(Tasks(p)) /\ c \in Seq(Tasks(p))
      OBVIOUS
    <2> HIDE DEF o, c
    <2>2. o \in Seq(Nat) /\ c \in Seq(Nat)
      BY <1>2, <2>1
    <2> QED
      BY <2>2 DEF o, c
  <1>6. IsProjectSolution(a)
    <2> HIDE DEF schedule, makespan
    <2> QED
      BY <1>3, <1>4, <1>5 DEF IsProjectSolution
  <1> HIDE DEF schedule, makespan
  <1>7. DOMAIN s = Fields /\ s.status = "valid" /\ s.assignments = a /\ s.metrics = m
    BY <1>1 DEF Answer, Fields
  <1>8. IsSolutionFor(p.type, a)
    BY <1>6 DEF IsSolutionFor
  <1>9. Truthful(p, s)
    <2>1. Truth(p, s.assignments) = [makespan |-> makespan]
      BY <1>7 DEF Truth
    <2>2. CheckedMetrics(p, s) = m
      BY <1>7 DEF CheckedMetrics
    <2> QED
      BY <2>1, <2>2 DEF Truthful
  <1> QED
    BY <1>7, <1>8, <1>9 DEF IsSound

(* What the critical path method along an order finds has its types.       *)
LEMMA CpmTypes ==
    ASSUME NEW p, IsProjectData(p), NEW order \in Seq(Tasks(p))
    PROVE  LET cpm == CpmAlong(p, order)
           IN  /\ cpm.order = order /\ cpm.critical \in Seq(Tasks(p)) /\ cpm.slack \in [Tasks(p) -> Int]
               /\ cpm.earliest = Earliest(p, order) /\ cpm.earliest \in [Tasks(p) -> Nat]
               /\ cpm.latest = Latest(p, order, Makespan(p, Earliest(p, order)))
               /\ Makespan(p, Earliest(p, order)) \in Int /\ cpm.latest \in [Tasks(p) -> Int]
PROOF
  <1> DEFINE es == Earliest(p, order)
             makespan == Makespan(p, es)
             ls == Latest(p, order, makespan)
             critical == {t \in Tasks(p) : ls[t] = es[t]}
  <1>1. es \in [Tasks(p) -> Nat]
    BY EarliestIs
  <1>2. makespan \in Int
    <2> HIDE DEF es
    <2> QED
      BY <1>1, MakespanIs
  <1>3. ls \in [Tasks(p) -> Int]
    <2> HIDE DEF makespan
    <2> QED
      BY <1>2, LatestIs
  <1> HIDE DEF es, makespan, ls
  <1>4. CriticalChain(p, es, critical) \in Seq(Tasks(p))
    <2> DEFINE heads == {t \in critical : es[t] = 0}
    <2>1. CASE heads = {}
      BY <2>1 DEF CriticalChain
    <2>2. CASE heads # {}
      <3>1. heads \subseteq Tasks(p) /\ critical \in SUBSET Tasks(p)
        OBVIOUS
      <3>2. IsFiniteSet(heads) /\ heads \subseteq Int
        BY <3>1, TaskTypes, FS_Subset
      <3>3. CriticalChain(p, es, critical) = ChainFrom(p, critical, es, Min(heads))
        BY <2>2 DEF CriticalChain
      <3> HIDE DEF heads, critical
      <3>4. Min(heads) \in Tasks(p)
        BY <2>2, <3>1, <3>2, MinOfFinite
      <3> QED
        BY <1>1, <3>1, <3>3, <3>4, ChainIs
    <2> QED
      BY <2>1, <2>2
  <1>5. CpmAlong(p, order) = [order |-> order, earliest |-> es, latest |-> ls,
                              slack |-> [t \in Tasks(p) |-> ls[t] - es[t]],
                              critical |-> CriticalChain(p, es, critical)]
    BY DEF CpmAlong, CpmFrom, es, makespan, ls
  <1>6. [t \in Tasks(p) |-> ls[t] - es[t]] \in [Tasks(p) -> Int]
    BY <1>1, <1>3
  <1> HIDE DEF critical
  <1> QED
    BY <1>1, <1>2, <1>3, <1>4, <1>5, <1>6 DEF es, makespan, ls

(* What the critical path method answers is sound.                         *)
LEMMA CpmAnswerIsSound ==
    ASSUME NEW p, p.type = "project_scheduling", IsProjectData(p), NEW order \in Seq(Tasks(p))
    PROVE  IsSound(p, CpmAnswer(p, CpmAlong(p, order)))
PROOF
  <1> DEFINE cpm == CpmAlong(p, order)
  <1>1. /\ cpm.order \in Seq(Tasks(p)) /\ cpm.critical \in Seq(Tasks(p)) /\ cpm.slack \in [Tasks(p) -> Int]
        /\ cpm.earliest \in [Tasks(p) -> Nat]
    BY CpmTypes
  <1> HIDE DEF cpm
  <1>2. IsSound(p, ProjectAnswer(p, cpm.earliest, cpm))
    BY <1>1, ProjectAnswerIsSound
  <1> QED
    BY <1>2 DEF CpmAnswer, cpm

-----------------------------------------------------------------------------
(* The order of priority.                                                  *)
Comes(p, ls) == {tu \in Tasks(p) \X Tasks(p) : ls[tu[1]] < ls[tu[2]] \/ (ls[tu[1]] = ls[tu[2]] /\ tu[1] < tu[2])}

(* Tasks by priority: every task once, those of an earlier start first.    *)
ByPriority(p, ls) ==
    LET before(t, u) == ls[t] < ls[u] \/ (ls[t] = ls[u] /\ t < u)
    IN  Arranged(Tasks(p), before)

(* It ranks every task once, and one that has to finish earlier comes      *)
(* first.                                                                  *)
LEMMA ByPriorityIs ==
    ASSUME NEW p, IsProjectData(p), NEW ls \in [Tasks(p) -> Int]
    PROVE  /\ ByPriority(p, ls) \in [1..Len(p.tasks) -> Tasks(p)]
           /\ \A t \in Tasks(p) : \E i \in 1..Len(p.tasks) : ByPriority(p, ls)[i] = t
           /\ \A i, j \in 1..Len(p.tasks) : ls[ByPriority(p, ls)[i]] < ls[ByPriority(p, ls)[j]] => i < j
PROOF
  <1> DEFINE S == Tasks(p)
             n == Cardinality(S)
             R == Comes(p, ls)
             s == ByPriority(p, ls)
             before(t, u) == ls[t] < ls[u] \/ (ls[t] = ls[u] /\ t < u)
             low(x) == {y \in S : before(y, x)}
             below(x) == {y \in S : <<y, x>> \in R}
  <1>1. IsFiniteSet(S) /\ n = Len(p.tasks) /\ n \in Nat /\ S \subseteq Nat
    BY TaskTypes
  <1>2. \A x, y \in S : <<x, y>> \in R <=> before(x, y)
    BY DEF Comes
  <1>3. IsOrder(R, S)
    <2>1. \A x, y \in S : ls[x] \in Int /\ x \in Int
      BY <1>1
    <2> HIDE DEF R, S
    <2> QED
      BY <1>2, <2>1 DEF IsOrder
  <1>4. \A x \in S : low(x) = below(x)
    <2> HIDE DEF R, S, before
    <2> QED
      BY <1>2
  <1>5. s = [i \in 1..n |-> CHOOSE x \in S : Cardinality(low(x)) = i - 1]
    BY DEF ByPriority, Arranged
  <1>6. s = [i \in 1..n |-> CHOOSE x \in S : Cardinality(below(x)) = i - 1]
    <2> HIDE DEF low, below, n, S, s
    <2>1. \A i : (CHOOSE x \in S : Cardinality(low(x)) = i - 1) = CHOOSE x \in S : Cardinality(below(x)) = i - 1
      BY <1>4
    <2> QED
      BY <1>5, <2>1
  <1> HIDE DEF R, s
  <1>7. Lists(s, S) /\ Sorted(s, S, R)
    <2>1. IsRanked(s, S, R)
      BY <1>6 DEF IsRanked
    <2> HIDE DEF S
    <2> QED
      BY <1>1, <1>3, <2>1, ArrangedList
  <1>8. s \in [1..n -> S] /\ (\A x \in S : \E i \in 1..n : s[i] = x) /\ \A i, j \in 1..n : i < j => <<s[i], s[j]>> \in R
    BY <1>7 DEF Lists, Sorted
  <1>9. ASSUME NEW i \in 1..n, NEW j \in 1..n, ls[s[i]] < ls[s[j]] PROVE i < j
    <2>1. s[i] \in S /\ s[j] \in S /\ ls[s[i]] \in Int /\ ls[s[j]] \in Int
      BY <1>8
    <2>2. ~(j < i) /\ j # i
      <3>1. j # i
        BY <1>9, <2>1
      <3>2. ASSUME j < i PROVE FALSE
        <4>1. <<s[j], s[i]>> \in R
          BY <1>8, <3>2
        <4> QED
          BY <1>2, <1>9, <2>1, <4>1
      <3> QED
        BY <3>1, <3>2
    <2> QED
      BY <1>1, <2>2
  <1> QED
    BY <1>1, <1>8, <1>9 DEF s

(* The next task's start, put to those there are.                          *)
Placed(p, order, starts, k) == Updated(starts, [u \in {order[k]} |-> Place(p, starts, order[k])])

(* A fold that places one task after the other.                            *)
IsPlacing(p, order, fold, n) ==
    fold = [T \in SUBSET (1..n) |-> IF T = {} THEN <<>> ELSE Placed(p, order, fold[T \ {Max(T)}], Max(T))]

(* There is a fold that places one task after the other.                   *)
LEMMA PlacingExists ==
    ASSUME NEW p, NEW order, NEW n \in Nat
    PROVE  \E fold : IsPlacing(p, order, fold, n)
PROOF
  <1> DEFINE Some(m) == \E fold : IsPlacing(p, order, fold, m)
             Good == {m \in Nat : Some(m)}
  <1>1. 0 \in Good
    <2> DEFINE f == [T \in SUBSET (1..0) |-> <<>>]
    <2>1. \A T \in SUBSET (1..0) : T = {}
      OBVIOUS
    <2>2. f = [T \in SUBSET (1..0) |-> IF T = {} THEN <<>> ELSE Placed(p, order, f[T \ {Max(T)}], Max(T))]
      BY <2>1
    <2>3. IsPlacing(p, order, f, 0)
      BY <2>2 DEF IsPlacing
    <2> QED
      BY <2>3
  <1>2. ASSUME NEW m \in Nat, m \in Good PROVE m + 1 \in Good
    <2>1. PICK f : IsPlacing(p, order, f, m)
      BY <1>2
    <2> DEFINE low(T) == T \ {m + 1}
               g == [T \in SUBSET (1..(m + 1)) |-> IF m + 1 \in T THEN Placed(p, order, f[low(T)], m + 1) ELSE f[T]]
    <2>3. \A T \in SUBSET (1..(m + 1)) : low(T) \in SUBSET (1..m) /\ (m + 1 \notin T => T \in SUBSET (1..m))
      <3>1. \A i \in 1..(m + 1) : i = m + 1 \/ i \in 1..m
        OBVIOUS
      <3> QED
        BY <3>1
    <2>4. \A T \in SUBSET (1..m) : T \in SUBSET (1..(m + 1)) /\ m + 1 \notin T
      <3>1. \A i \in 1..m : i \in 1..(m + 1) /\ i # m + 1
        OBVIOUS
      <3> QED
        BY <3>1
    <2>6. ASSUME NEW T \in SUBSET (1..(m + 1)), m + 1 \in T
          PROVE  Max(T) = m + 1 /\ g[T] = Placed(p, order, g[low(T)], m + 1)
      <3>1. \A i \in T : m + 1 >= i /\ i \in Int
        OBVIOUS
      <3>2. \A x \in T : (\A y \in T : x >= y) => x = m + 1
        BY <2>6, <3>1
      <3>3. Max(T) = m + 1
        BY <2>6, <3>1, <3>2 DEF Max
      <3>4. low(T) \in SUBSET (1..m)
        BY <2>3
      <3>5. g[low(T)] = f[low(T)]
        <4> HIDE DEF low
        <4> QED
          BY <2>4, <3>4
      <3>6. g[T] = Placed(p, order, f[low(T)], m + 1)
        BY <2>6
      <3> HIDE DEF g, low
      <3> QED
        BY <3>3, <3>5, <3>6
    <2>7. ASSUME NEW T \in SUBSET (1..(m + 1)), m + 1 \notin T, T # {}
          PROVE  g[T] = Placed(p, order, g[T \ {Max(T)}], Max(T))
      <3>1. T \in SUBSET (1..m) /\ T \ {Max(T)} \in SUBSET (1..m)
        BY <2>3, <2>7
      <3>2. f[T] = Placed(p, order, f[T \ {Max(T)}], Max(T))
        BY <2>1, <2>7, <3>1 DEF IsPlacing
      <3>3. g[T] = f[T] /\ g[T \ {Max(T)}] = f[T \ {Max(T)}]
        BY <2>4, <3>1
      <3> QED
        BY <3>2, <3>3
    <2>8. g[{}] = <<>>
      <3>1. {} \in SUBSET (1..m) /\ f[{}] = <<>>
        BY <2>1 DEF IsPlacing
      <3> QED
        BY <2>4, <3>1
    <2>9. g = [T \in SUBSET (1..(m + 1)) |-> g[T]]
      OBVIOUS
    <2> HIDE DEF g
    <2>10. \A T \in SUBSET (1..(m + 1)) :
               g[T] = IF T = {} THEN <<>> ELSE Placed(p, order, g[T \ {Max(T)}], Max(T))
      BY <2>6, <2>7, <2>8
    <2>12. IsPlacing(p, order, g, m + 1)
      BY <2>9, <2>10 DEF IsPlacing
    <2> QED
      BY <2>12
  <1>3. Nat \subseteq Good
    <2> HIDE DEF Good
    <2> QED
      BY <1>1, <1>2, AllNaturals
  <1>4. Some(n)
    <2> HIDE DEF Some
    <2> QED
      BY <1>3
  <1> QED
    BY <1>4

(* What some tasks use of the resource.                                    *)
TakenBy(p, tasks) == MapThenSumSet(LAMBDA u : p.tasks[u].resource, tasks)

(* No tasks use nothing.                                                   *)
LEMMA NothingUsesNothing ==
    ASSUME NEW p
    PROVE  TakenBy(p, {}) = 0
PROOF
  <1> DEFINE Unfold(f) == [s \in SUBSET {} |-> IF s = {} THEN 0
                                             ELSE p.tasks[CHOOSE x \in s : TRUE].resource + f[s \ {CHOOSE x \in s : TRUE}]]
             f == CHOOSE g : g = Unfold(g)
             zero == [s \in SUBSET {} |-> 0]
  <1>1. zero = Unfold(zero)
    BY \A s \in SUBSET {} : s = {}
  <1>2. f = Unfold(f)
    <2> HIDE DEF Unfold, zero
    <2> QED
      BY <1>1
  <1>3. f[{}] = 0
    <2> HIDE DEF f
    <2> QED
      BY <1>2
  <1> QED
    BY <1>3 DEF TakenBy, MapThenSumSet, MapThenFoldSet

(* A task finds a place, at the latest when everything else has ended.     *)
LEMMA PlaceIs ==
    ASSUME NEW p, IsProjectData(p), NEW t \in Tasks(p),
           p.capacity # None => p.tasks[t].resource <= p.capacity,
           NEW placed \in SUBSET Tasks(p), NEW starts \in [placed -> Nat], Predecessors(p, t) \subseteq placed
    PROVE  Place(p, starts, t) \in Nat
PROOF
  <1> DEFINE ends(u) == starts[u] + Duration(p, u)
             f == [u \in placed |-> ends(u)]
             P == Predecessors(p, t)
             ready == Highest(0, {ends(u) : u \in P})
             busy(x) == {u \in DOMAIN starts : starts[u] <= x /\ x < ends(u)}
             usage(x) == MapThenSumSet(LAMBDA u : p.tasks[u].resource, busy(x))
             fits(s) == \A x \in s..(s + Duration(p, t) - 1) : usage(x) + p.tasks[t].resource <= p.capacity
             last == Highest(ready, {ends(u) : u \in DOMAIN starts})
             fit == {s \in ready..last : fits(s)}
  <1>1. Place(p, starts, t) = IF p.capacity = None \/ p.tasks[t].resource = 0 THEN ready ELSE Min(fit)
    BY DEF Place
  <1>2. /\ IsFiniteSet(placed) /\ IsFiniteSet(P) /\ p.tasks[t].resource \in Nat
        /\ \A u \in placed : f[u] \in Int /\ f[u] = ends(u) /\ ends(u) \in Int
    BY TaskTypes, FS_Subset
  <1>3. ready \in Nat
    <2>1. {ends(u) : u \in P} = {f[u] : u \in P} /\ \A u \in P : f[u] \in Int
      BY <1>2
    <2> HIDE DEF f, ends, P
    <2>2. Highest(0, {f[u] : u \in P}) \in Nat
      BY <1>2, <2>1, HighestOf
    <2> QED
      BY <2>1, <2>2
  <1> HIDE DEF ready
  <1>4. last \in Int /\ last >= ready /\ \A u \in placed : ends(u) <= last
    <2> DEFINE V == {f[u] : u \in placed}
    <2>1. {ends(u) : u \in DOMAIN starts} = V
      BY <1>2
    <2>3. \A u \in placed : ends(u) \in V
      BY <1>2
    <2>4. IsFiniteSet(V) /\ V \subseteq Int
      <3> HIDE DEF f
      <3> QED
        BY <1>2, FiniteNumbers
    <2> HIDE DEF V
    <2> DEFINE h == Highest(ready, V)
    <2>5. ready \in Int
      BY <1>3
    <2>6. h \in Int /\ h >= ready /\ \A x \in V : x <= h
      BY <2>4, <2>5, HighestIs
    <2>7. last = h
      BY <2>1
    <2> HIDE DEF h, last
    <2> QED
      BY <2>3, <2>6, <2>7
  <1> HIDE DEF last
  <1>5. ASSUME p.capacity # None PROVE last \in fit
    <2>1. p.capacity \in Int /\ p.tasks[t].resource <= p.capacity
      BY <1>5 DEF IsProjectData
    <2>2. ASSUME NEW x \in last..(last + Duration(p, t) - 1) PROVE usage(x) = 0
      <3>1. x \in Int /\ x >= last
        BY <1>4
      <3>2. busy(x) = {}
        <4>1. \A u \in placed : ~(x < ends(u))
          BY <1>2, <1>4, <3>1
        <4> QED
          BY <4>1
      <3>3. usage(x) = TakenBy(p, busy(x))
        BY DEF TakenBy
      <3> HIDE DEF busy, usage
      <3> QED
        BY <3>2, <3>3, NothingUsesNothing
    <2> HIDE DEF usage
    <2>3. fits(last)
      BY <1>2, <2>1, <2>2
    <2> HIDE DEF fits
    <2>4. last \in ready..last
      BY <1>3, <1>4
    <2> QED
      BY <2>3, <2>4
  <1>6. fit \subseteq Nat /\ IsFiniteSet(fit)
    <2> HIDE DEF fits
    <2>1. fit \subseteq ready..last /\ fit \subseteq Nat
      BY <1>3, <1>4
    <2>2. IsFiniteSet(ready..last)
      BY <1>3, <1>4, FS_Interval
    <2> QED
      BY <2>1, <2>2, FS_Subset
  <1> HIDE DEF fit
  <1>7. p.capacity # None => Min(fit) \in Nat
    <2> SUFFICES ASSUME p.capacity # None PROVE Min(fit) \in Nat
      OBVIOUS
    <2>1. fit # {} /\ fit \subseteq Int
      BY <1>5, <1>6
    <2>2. Min(fit) \in fit
      BY <1>6, <2>1, MinOfFinite
    <2> QED
      BY <1>6, <2>2
  <1> QED
    BY <1>1, <1>3, <1>7

(* Whatever the capacity, every task is placed after what it depends on.   *)
LEMMA PriorityStartsAre ==
    ASSUME NEW p, IsProjectData(p), NEW ls \in [Tasks(p) -> Int],
           p.capacity # None => \A t \in Tasks(p) : p.tasks[t].resource <= p.capacity,
           \A t \in Tasks(p) : \A q \in Predecessors(p, t) : ls[q] < ls[t]
    PROVE  PriorityStarts(p, ls) \in [Tasks(p) -> Nat]
PROOF
  <1> DEFINE order == ByPriority(p, ls)
             n == Len(p.tasks)
             Unfold(it) == [T \in SUBSET DOMAIN order |-> IF T = {} THEN <<>>
                              ELSE Updated(it[T \ {Max(T)}], [u \in {order[Max(T)]} |-> Place(p, it[T \ {Max(T)}], order[Max(T)])])]
             it == CHOOSE f : f = Unfold(f)
  <1>1. PriorityStarts(p, ls) = it[DOMAIN order]
    BY DEF PriorityStarts, ByPriority, FoldLeft, MapThenFoldSet
  <1> HIDE DEF order
  <1>2. n \in Nat /\ order \in [1..n -> Tasks(p)] /\ DOMAIN order = 1..n
    BY TaskTypes, ByPriorityIs DEF order
  <1>3. /\ \A t \in Tasks(p) : \E i \in 1..n : order[i] = t
        /\ \A i, j \in 1..n : ls[order[i]] < ls[order[j]] => i < j
    BY ByPriorityIs DEF order
  <1> HIDE DEF n
  <1>4. PICK fold : IsPlacing(p, order, fold, n)
    BY <1>2, PlacingExists
  <1>5. fold = Unfold(fold)
    BY <1>2, <1>4 DEF IsPlacing, Placed
  <1>6. it = Unfold(it)
    <2> HIDE DEF Unfold
    <2> QED
      BY <1>5
  <1> HIDE DEF it
  <1>7. it[1..0] = <<>>
    <2>1. 1..0 = {}
      OBVIOUS
    <2> QED
      BY <1>6, <2>1
  <1>8. ASSUME NEW k \in 1..n PROVE it[1..k] = Placed(p, order, it[1..(k - 1)], k)
    <2> DEFINE T == 1..k
    <2>1. Max(T) = k /\ T \ {k} = 1..(k - 1) /\ T \in SUBSET (1..n) /\ T # {}
      BY <1>2, MaxOfInterval
    <2> HIDE DEF T
    <2>2. it[T] = Placed(p, order, it[T \ {Max(T)}], Max(T))
      BY <1>2, <1>6, <2>1 DEF Placed
    <2> QED
      BY <2>1, <2>2 DEF T
  <1> DEFINE before(k) == {order[j] : j \in 1..k}
             G == [k \in 0..n |-> [before(k) -> Nat]]
  <1>9. it[1..0] \in G[0]
    <2>1. before(0) = {}
      OBVIOUS
    <2>2. G[0] = [before(0) -> Nat]
      BY <1>2
    <2>3. <<>> \in [{} -> Nat]
      OBVIOUS
    <2> HIDE DEF before, G
    <2> QED
      BY <1>7, <2>1, <2>2, <2>3
  <1>10. \A k \in 1..n : it[1..(k - 1)] \in G[k - 1] => it[1..k] \in G[k]
    <2> SUFFICES ASSUME NEW k \in 1..n, it[1..(k - 1)] \in G[k - 1] PROVE it[1..k] \in G[k]
      OBVIOUS
    <2> DEFINE x == it[1..(k - 1)]
               t == order[k]
               done == before(k - 1)
               place == Place(p, x, t)
    <2>1. k - 1 \in 0..n /\ k \in 0..n /\ t \in Tasks(p)
      BY <1>2
    <2>2. G[k - 1] = [done -> Nat] /\ G[k] = [before(k) -> Nat]
      BY <2>1
    <2>3. before(k) = done \cup {t}
      <3>1. \A j \in 1..k : j = k \/ j \in 1..(k - 1)
        BY <1>2
      <3>2. (\A j \in 1..(k - 1) : j \in 1..k) /\ k \in 1..k
        BY <1>2
      <3> QED
        BY <3>1, <3>2
    <2>4. done \in SUBSET Tasks(p)
      <3>1. \A j \in 1..(k - 1) : j \in 1..n
        BY <1>2
      <3> QED
        BY <1>2, <3>1
    <2>5. Predecessors(p, t) \subseteq done
      <3> SUFFICES ASSUME NEW q \in Predecessors(p, t) PROVE q \in done
        OBVIOUS
      <3>1. q \in Tasks(p) /\ ls[q] < ls[t]
        BY <2>1, TaskTypes
      <3>2. PICK j \in 1..n : order[j] = q
        BY <1>3, <3>1
      <3>3. j < k
        BY <1>3, <3>1, <3>2
      <3>4. j \in 1..(k - 1)
        BY <1>2, <3>3
      <3> QED
        BY <3>2, <3>4
    <2>6. x \in [done -> Nat]
      BY <2>2
    <2>7. it[1..k] = Updated(x, [u \in {t} |-> place])
      BY <1>8 DEF Placed
    <2> HIDE DEF G, before, done, x, t
    <2>8. place \in Nat
      BY <2>1, <2>4, <2>5, <2>6, PlaceIs
    <2> HIDE DEF place
    <2>9. Updated(x, [u \in {t} |-> place]) \in [done \cup {t} -> Nat]
      <3>1. Updated(x, [u \in {t} |-> place]) = [f \in {t} \cup done |-> IF f \in {t} THEN place ELSE x[f]]
        BY <2>6 DEF Updated
      <3>2. {t} \cup done = done \cup {t}
        OBVIOUS
      <3> QED
        BY <2>6, <2>8, <3>1, <3>2
    <2> QED
      BY <2>2, <2>3, <2>7, <2>9
  <1>11. it[1..n] \in G[n]
    <2> HIDE DEF G
    <2>1. \A k \in 0..n : it[1..k] \in G[k]
      BY <1>2, <1>9, <1>10, FoldKeeps
    <2> QED
      BY <1>2, <2>1
  <1>12. G[n] = [before(n) -> Nat]
    BY <1>2
  <1>13. before(n) = Tasks(p)
    BY <1>2, <1>3
  <1> HIDE DEF G, before
  <1> QED
    BY <1>1, <1>2, <1>11, <1>12, <1>13

-----------------------------------------------------------------------------
(* The strategies.                                                         *)

(* A project whose tasks all come out has no cycle, and the latest starts  *)
(* of what comes before a task are before its own.                         *)
LEMMA LatestIsOrdered ==
    ASSUME NEW p, IsProjectData(p), ~HasCycle(p)
    PROVE  LET cpm == Cpm(p)
           IN  /\ cpm.latest \in [Tasks(p) -> Int]
               /\ \A t \in Tasks(p) : \A q \in Predecessors(p, t) : cpm.latest[q] < cpm.latest[t]
PROOF
  <1> DEFINE order == TopologicalOrder(p)
             makespan == Makespan(p, Earliest(p, order))
             ls == Latest(p, order, makespan)
  <1>1. IsBegun(p, order) /\ order \in Seq(Tasks(p)) /\ Len(order) = Len(p.tasks)
    BY TopologicalOrderIs DEF IsBegun, HasCycle
  <1> HIDE DEF order
  <1>2. Cpm(p).latest = ls /\ makespan \in Int /\ ls \in [Tasks(p) -> Int]
    BY <1>1, CpmTypes DEF Cpm, order
  <1> HIDE DEF makespan
  <1>3. \A t \in Tasks(p) : ls[t] = LatestOf(p, ls, makespan, t)
    BY <1>1, <1>2, LatestIs
  <1> HIDE DEF ls
  <1>4. ASSUME NEW t \in Tasks(p), NEW q \in Predecessors(p, t) PROVE ls[q] < ls[t]
    <2>1. q \in Tasks(p) /\ t \in Successors(p, q) /\ Duration(p, q) \in Nat \ {0}
      BY TaskTypes
    <2>2. LatestOf(p, ls, makespan, q) + Duration(p, q) <= ls[t]
      BY <1>2, <2>1, LatestOfIs
    <2>3. ls[q] + Duration(p, q) <= ls[t] /\ ls[q] \in Int /\ ls[t] \in Int
      BY <1>2, <1>3, <2>1, <2>2
    <2> QED
      BY <2>1, <2>3
  <1> QED
    BY <1>2, <1>4

(* The critical path method orders tasks, and gives every task a slack.    *)
LEMMA CpmIs ==
    ASSUME NEW p, IsProjectData(p)
    PROVE  LET cpm == Cpm(p)
           IN  cpm.order \in Seq(Tasks(p)) /\ cpm.critical \in Seq(Tasks(p)) /\ cpm.slack \in [Tasks(p) -> Int]
PROOF
  <1>1. TopologicalOrder(p) \in Seq(Tasks(p))
    BY TopologicalOrderIs DEF IsBegun
  <1> QED
    BY <1>1, CpmTypes DEF Cpm

(* Every schedule of least makespan that the solver may find.              *)
LEMMA CpSatScheduleIsSound ==
    ASSUME NEW p, p.type = "project_scheduling", IsProjectData(p), ProjectIntegrity(p)
    PROVE  CpSatSchedule(p) # {} /\ \A s \in CpSatSchedule(p) : IsSound(p, s)
PROOF
  <1> DEFINE horizon == SumFunction([t \in Tasks(p) |-> Duration(p, t)])
             usage(s, x) == MapThenSumSet(LAMBDA t : p.tasks[t].resource,
                                          {t \in Tasks(p) : s[t] <= x /\ x < s[t] + Duration(p, t)})
             ordered == {s \in [Tasks(p) -> 0..horizon] :
                            \A d \in Range(p.dependencies) : s[d[2]] >= s[d[1]] + Duration(p, d[1])}
             feasible == {s \in ordered :
                             p.capacity = None \/ \A x \in 0..horizon : usage(s, x) <= p.capacity}
             makespan(s) == Max({s[t] + Duration(p, t) : t \in Tasks(p)})
             makespans == {makespan(s) : s \in feasible}
             least == Min(makespans)
             answers == {ProjectAnswer(p, s, Cpm(p)) : s \in {s \in feasible : makespan(s) = least}}
  <1>1. CpSatSchedule(p) = IF HasCycle(p) \/ feasible = {} THEN {Infeasible({})} ELSE answers
    BY DEF CpSatSchedule
  <1>2. horizon \in Int
    <2> DEFINE f == [t \in Tasks(p) |-> Duration(p, t)]
    <2>1. IsFiniteSet(Tasks(p)) /\ \A t \in Tasks(p) : f[t] \in Int
      BY TaskTypes
    <2>2. horizon = SumFunctionOnSet(f, Tasks(p))
      BY DEF SumFunction, SumFunctionOnSet, FoldFunction
    <2> HIDE DEF f
    <2> QED
      BY <2>1, <2>2, SumTakes
  <1> HIDE DEF horizon, usage
  <1>3. \A s \in feasible : s \in [Tasks(p) -> Nat]
    BY <1>2
  <1> HIDE DEF feasible
  <1>4. IsSound(p, Infeasible({}))
    BY DEF IsSound, Infeasible
  <1>5. \A s \in feasible : IsSound(p, ProjectAnswer(p, s, Cpm(p)))
    <2> DEFINE cpm == Cpm(p)
    <2>1. cpm.order \in Seq(Tasks(p)) /\ cpm.critical \in Seq(Tasks(p)) /\ cpm.slack \in [Tasks(p) -> Int]
      BY CpmIs
    <2> HIDE DEF cpm
    <2>2. \A s \in feasible : IsSound(p, ProjectAnswer(p, s, cpm))
      BY <1>3, <2>1, ProjectAnswerIsSound
    <2> QED
      BY <2>2 DEF cpm
  <1>6. ASSUME NEW s \in feasible PROVE makespan(s) \in Nat
    <2> DEFINE S == Tasks(p)
               f == [t \in S |-> s[t] + Duration(p, t)]
               V == {f[t] : t \in S}
    <2>1. IsFiniteSet(S) /\ \A t \in S : f[t] \in Int /\ f[t] \in Nat
      BY <1>3, TaskTypes
    <2>2. S # {}
      <3>1. p.tasks \in Seq([duration : Nat \ {0}, resource : Nat]) /\ p.tasks # <<>>
        BY DEF IsProjectData, ProjectIntegrity
      <3>2. 1 \in DOMAIN p.tasks
        <4> DEFINE x == p.tasks
                   D == [duration : Nat \ {0}, resource : Nat]
        <4> HIDE DEF D
        <4>1. x \in Seq(D) /\ x # <<>>
          BY <3>1 DEF D
        <4> HIDE DEF x
        <4>2. 1 \in DOMAIN x
          BY <4>1
        <4> QED
          BY <4>2 DEF x
      <3> QED
        BY <3>2 DEF Tasks
    <2>3. makespan(s) = Max(V)
      OBVIOUS
    <2>4. V \subseteq Nat /\ V # {}
      BY <2>1, <2>2
    <2> HIDE DEF f, S, makespan
    <2>5. IsFiniteSet(V) /\ V \subseteq Int
      BY <2>1, FiniteNumbers
    <2> HIDE DEF V
    <2>6. Max(V) \in V
      BY <2>4, <2>5, MaxOfFinite
    <2> QED
      BY <2>3, <2>4, <2>6
  <1>7. feasible # {} => answers # {}
    <2> HIDE DEF makespan
    <2> SUFFICES ASSUME feasible # {} PROVE answers # {}
      OBVIOUS
    <2>1. makespans \subseteq Nat /\ makespans # {}
      BY <1>6
    <2>2. least \in makespans
      <3> HIDE DEF makespans
      <3>1. PICK m \in makespans : \A y \in makespans : m <= y
        BY <2>1, LeastNatural
      <3> QED
        BY <3>1 DEF Min
    <2> HIDE DEF least
    <2>3. PICK s \in feasible : makespan(s) = least
      BY <2>2
    <2> QED
      BY <2>3
  <1> HIDE DEF makespan, least
  <1> QED
    BY <1>1, <1>4, <1>5, <1>7

(* The strategies for projects are sound.                                  *)
LEMMA ProjectStrategiesAreSound ==
    ASSUME NEW p, p.type = "project_scheduling", IsProblem(p), NEW st, Chosen(p, st)
    PROVE  AreSound(p, Answers(p, st))
PROOF
  <1>1. st \in {"cpm", "priority_list", "cp_sat", "cpm_nx"}
    BY DEF Chosen, Registered, Preferred, Range
  <1>2. Answers(p, st) \in {CpmSchedule(p), PriorityList(p), CpSatSchedule(p), NetworkxCpm(p)}
    BY <1>1 DEF Answers
  <1>3. \A s : ~Unverifiable(p, s)
    BY DEF Unverifiable
  <1>4. IsProjectData(p) /\ ProjectIntegrity(p) /\ ProjectFeasible(p)
    BY DEF Chosen, IsProblem, Integrity, Feasible
  <1>5. IsSound(p, Infeasible({}))
    BY DEF IsSound, Infeasible
  <1>6. AreSound(p, CpmSchedule(p))
    <2>1. TopologicalOrder(p) \in Seq(Tasks(p))
      BY <1>4, TopologicalOrderIs DEF IsBegun
    <2>2. IsSound(p, CpmAnswer(p, Cpm(p)))
      BY <1>4, <2>1, CpmAnswerIsSound DEF Cpm
    <2>3. CpmSchedule(p) # {} /\ \A s \in CpmSchedule(p) : IsSound(p, s)
      BY <1>5, <2>2 DEF CpmSchedule
    <2> QED
      BY <1>3, <2>3 DEF AreSound
  <1>7. AreSound(p, PriorityList(p))
    <2> DEFINE cpm == Cpm(p)
               starts == PriorityStarts(p, cpm.latest)
    <2>1. cpm.order \in Seq(Tasks(p)) /\ cpm.critical \in Seq(Tasks(p)) /\ cpm.slack \in [Tasks(p) -> Int]
      BY <1>4, CpmIs
    <2>2. starts \in [Tasks(p) -> Nat]
      <3> DEFINE ls == cpm.latest
      <3>1. ls \in [Tasks(p) -> Int] /\ \A t \in Tasks(p) : \A q \in Predecessors(p, t) : ls[q] < ls[t]
        BY <1>4, LatestIsOrdered DEF ProjectFeasible
      <3> HIDE DEF ls
      <3>2. PriorityStarts(p, ls) \in [Tasks(p) -> Nat]
        BY <1>4, <3>1, PriorityStartsAre DEF ProjectFeasible
      <3> QED
        BY <3>2 DEF ls
    <2>3. PriorityList(p) = {ProjectAnswer(p, starts, cpm)}
      BY <1>4 DEF PriorityList, PriorityAnswer, ProjectFeasible
    <2> HIDE DEF starts, cpm
    <2>4. IsSound(p, ProjectAnswer(p, starts, cpm))
      BY <1>4, <2>1, <2>2, ProjectAnswerIsSound
    <2> QED
      BY <1>3, <2>3, <2>4 DEF AreSound
  <1>8. AreSound(p, CpSatSchedule(p))
    BY <1>3, <1>4, CpSatScheduleIsSound DEF AreSound
  <1>9. AreSound(p, NetworkxCpm(p))
    <2> DEFINE orders == {o \in SetToSeqs(Tasks(p)) :
                             \A i, j \in DOMAIN o : o[i] \in Predecessors(p, o[j]) => i < j}
               answers == {CpmAnswer(p, CpmAlong(p, o)) : o \in orders}
    <2>1. NetworkxCpm(p) = IF orders = {} THEN {Infeasible({})} ELSE answers
      BY DEF NetworkxCpm
    <2>2. \A o \in orders : o \in Seq(Tasks(p))
      <3> SUFFICES ASSUME NEW o \in orders PROVE o \in Seq(Tasks(p))
        OBVIOUS
      <3>1. o \in [1..Cardinality(Tasks(p)) -> Tasks(p)]
        BY DEF SetToSeqs
      <3>2. Cardinality(Tasks(p)) \in Nat
        BY <1>4, TaskTypes
      <3> HIDE DEF orders
      <3> QED
        BY <3>1, <3>2
    <2> HIDE DEF orders
    <2>3. \A o \in orders : IsSound(p, CpmAnswer(p, CpmAlong(p, o)))
      BY <1>4, <2>2, CpmAnswerIsSound
    <2>4. NetworkxCpm(p) # {} /\ \A s \in NetworkxCpm(p) : IsSound(p, s)
      BY <1>5, <2>1, <2>3
    <2> QED
      BY <1>3, <2>4 DEF AreSound
  <1> QED
    BY <1>2, <1>6, <1>7, <1>8, <1>9

-----------------------------------------------------------------------------
(* Tours of travel plans and deliveries.                                   *)

(* Whole amounts are natural numbers.                                      *)
LEMMA WholeAmounts ==
    ASSUME NEW amount \in Nat
    PROVE  Floor(amount) \in Nat /\ Ceil(amount) \in Nat
PROOF
  <1>1. Whole \in Nat /\ Whole > 0
    BY WholeAssumption
  <1>2. ASSUME NEW x \in Nat PROVE x \div Whole \in Nat
    BY <1>1
  <1>3. amount + Whole - 1 \in Nat
    BY <1>1
  <1> QED
    BY <1>2, <1>3 DEF Floor, Ceil

(* What the knapsack takes is some of the items.                           *)
LEMMA KnapsackTakesItems ==
    ASSUME NEW items, NEW n \in Nat, DOMAIN items = 1..n,
           \A i \in 1..n : items[i].a \in Nat /\ items[i].b \in Nat /\ items[i].value \in Int,
           NEW capA \in Nat, NEW capB \in Nat
    PROVE  Knapsack(items, capA, capB) \subseteq 1..n
PROOF
  <1> DEFINE cells == (0..capA) \X (0..capB)
             entries == [value : Int, items : SUBSET (1..n)]
             X == [cells -> entries]
             left(table, i, ab) == table[<<ab[1] - items[i].a, ab[2] - items[i].b>>]
             more(table, i, ab) == left(table, i, ab).value + items[i].value
             gains(table, i, ab) == ab[1] >= items[i].a /\ ab[2] >= items[i].b /\ more(table, i, ab) > table[ab].value
             With(table, i) ==
                 [ab \in cells |-> IF gains(table, i, ab)
                                   THEN [value |-> more(table, i, ab), items |-> left(table, i, ab).items \cup {i}]
                                   ELSE table[ab]]
             base == [ab \in cells |-> [value |-> 0, items |-> {}]]
             seq == [i \in DOMAIN items |-> i]
             Unfold(it) == [T \in SUBSET DOMAIN seq |-> IF T = {} THEN base ELSE With(it[T \ {Max(T)}], seq[Max(T)])]
             it == CHOOSE f : f = Unfold(f)
             next == [k \in 1..n |-> [x \in X |-> With(x, k)]]
  <1>1. Knapsack(items, capA, capB) = it[DOMAIN seq][<<capA, capB>>].items
    BY DEF Knapsack, FoldLeft, MapThenFoldSet
  <1>2. DOMAIN seq = 1..n /\ \A k \in 1..n : seq[k] = k
    OBVIOUS
  <1>3. base \in X
    OBVIOUS
  <1>4. ASSUME NEW x \in X, NEW i \in 1..n PROVE With(x, i) \in X
    <2> SUFFICES ASSUME NEW ab \in cells
                 PROVE  (IF gains(x, i, ab) THEN [value |-> more(x, i, ab), items |-> left(x, i, ab).items \cup {i}]
                         ELSE x[ab]) \in entries
      OBVIOUS
    <2>1. CASE gains(x, i, ab)
      <3> DEFINE c == <<ab[1] - items[i].a, ab[2] - items[i].b>>
      <3>1. c \in cells
        BY <2>1, SMTT(30)
      <3>2. x[c] \in entries
        BY <3>1
      <3>3. left(x, i, ab) = x[c] /\ more(x, i, ab) = x[c].value + items[i].value
        OBVIOUS
      <3> HIDE DEF left, more, c
      <3>4. x[c].value \in Int /\ x[c].items \in SUBSET (1..n) /\ items[i].value \in Int
        BY <3>2
      <3>5. [value |-> more(x, i, ab), items |-> left(x, i, ab).items \cup {i}] \in entries
        BY <3>3, <3>4, SMTT(30)
      <3> HIDE DEF gains
      <3> QED
        BY <2>1, <3>5
    <2>2. CASE ~gains(x, i, ab)
      <3> HIDE DEF gains
      <3> QED
        BY <2>2
    <2> QED
      BY <2>1, <2>2
  <1> HIDE DEF With, base, X, seq
  <1>5. next \in [1..n -> [X -> X]]
    BY <1>4
  <1>6. PICK fold \in [SUBSET (1..n) -> X] : IsFold(fold, n, base, next)
    <2> HIDE DEF next
    <2> QED
      BY <1>3, <1>5, FoldExists
  <1>7. fold = Unfold(fold)
    <2>1. ASSUME NEW T \in SUBSET (1..n), T # {}
          PROVE  next[Max(T)][fold[T \ {Max(T)}]] = With(fold[T \ {Max(T)}], seq[Max(T)])
      <3>1. Max(T) \in 1..n
        BY <2>1, MaxIsIn
      <3>2. fold[T \ {Max(T)}] \in X
        BY <1>6
      <3> QED
        BY <1>2, <3>1, <3>2
    <2> HIDE DEF next
    <2> QED
      BY <1>2, <1>6, <2>1 DEF IsFold
  <1>8. it = Unfold(it)
    <2> HIDE DEF Unfold
    <2> QED
      BY <1>7
  <1> HIDE DEF it
  <1>9. FoldsOver(it, n, X, base, next)
    <2>1. it[{}] = base
      BY <1>8
    <2>2. ASSUME NEW T \in SUBSET (1..n), T # {}, it[T \ {Max(T)}] \in X
          PROVE  it[T] = next[Max(T)][it[T \ {Max(T)}]]
      <3>1. it[T] = With(it[T \ {Max(T)}], seq[Max(T)])
        BY <1>2, <1>8, <2>2
      <3>2. Max(T) \in 1..n
        BY <2>2, MaxIsIn
      <3> QED
        BY <1>2, <2>2, <3>1, <3>2
    <2> QED
      BY <2>1, <2>2 DEF FoldsOver
  <1>10. \A k \in 0..n : it[1..k] \in X
    <2> HIDE DEF next, Unfold
    <2> QED
      BY <1>3, <1>5, <1>9, FoldAlong
  <1>11. it[1..n] \in X
    BY <1>10
  <1>12. <<capA, capB>> \in cells
    OBVIOUS
  <1>13. it[1..n][<<capA, capB>>] \in entries
    <2> HIDE DEF cells, entries
    <2> QED
      BY <1>11, <1>12 DEF X
  <1> QED
    BY <1>1, <1>2, <1>13

-----------------------------------------------------------------------------
(* Selections of places.                                                   *)

(* Two sequences differ at i, and nowhere before.                          *)
DifferFirst(c, d, i) == c[i] # d[i] /\ \A j \in 1..(i - 1) : c[j] = d[j]

(* Two sequences of one length that differ differ somewhere first.         *)
LEMMA FirstDifference ==
    ASSUME NEW n \in Nat, NEW c, NEW d, NEW k \in 1..n, c[k] # d[k]
    PROVE  \E i \in 1..n : DifferFirst(c, d, i)
PROOF
  <1> DEFINE D == {i \in 1..n : c[i] # d[i]}
  <1>1. D \subseteq Nat /\ D # {}
    OBVIOUS
  <1>2. PICK i \in D : \A j \in D : i <= j
    <2> HIDE DEF D
    <2> QED
      BY <1>1, LeastNatural
  <1>3. \A j \in 1..(i - 1) : j \notin D /\ j \in 1..n
    BY <1>2
  <1> QED
    BY <1>2, <1>3 DEF DifferFirst

(* By less of a number first, and then as permutations come.               *)
Sooner(number, S) ==
    {cd \in S \X S : number[cd[1]] < number[cd[2]] \/ (number[cd[1]] = number[cd[2]] /\ Before(cd[1], cd[2]))}

(* Sequences of integers come one before the other, in order.              *)
LEMMA BeforeIs ==
    ASSUME NEW S, \A c \in S : c \in Seq(Int)
    PROVE  /\ \A c \in S : ~Before(c, c)
           /\ \A c, d \in S : c # d => Before(c, d) \/ Before(d, c)
           /\ \A c, d, e \in S : Before(c, d) /\ Before(d, e) => Before(c, e)
PROOF
  <1>1. \A c \in S : /\ Len(c) \in Nat /\ DOMAIN c = 1..Len(c) /\ (\A i \in 1..Len(c) : c[i] \in Int)
                     /\ c = [i \in 1..Len(c) |-> c[i]]
    OBVIOUS
  <1>2. \A c \in S : ~Before(c, c)
    BY <1>1 DEF Before
  <1>3. ASSUME NEW c \in S, NEW d \in S, c # d PROVE Before(c, d) \/ Before(d, c)
    <2>1. CASE Len(c) # Len(d)
      BY <1>1, <2>1 DEF Before
    <2>2. CASE Len(c) = Len(d)
      <3>1. \E i \in 1..Len(c) : c[i] # d[i]
        <4> SUFFICES ASSUME \A i \in 1..Len(c) : c[i] = d[i] PROVE FALSE
          OBVIOUS
        <4>1. [i \in 1..Len(c) |-> c[i]] = [i \in 1..Len(d) |-> d[i]]
          BY <2>2
        <4> QED
          BY <1>1, <1>3, <4>1
      <3>2. PICK i \in 1..Len(c) : c[i] # d[i] /\ \A j \in 1..(i - 1) : c[j] = d[j]
        <4>1. Len(c) \in Nat
          BY <1>1
        <4>2. PICK k \in 1..Len(c) : c[k] # d[k]
          BY <3>1
        <4> DEFINE n == Len(c)
        <4>3. n \in Nat /\ k \in 1..n
          BY <4>1
        <4> HIDE DEF n
        <4>4. \E i \in 1..n : DifferFirst(c, d, i)
          BY <4>2, <4>3, FirstDifference
        <4> QED
          BY <4>4 DEF n, DifferFirst
      <3>3. c[i] < d[i] \/ d[i] < c[i]
        BY <1>1, <2>2, <3>2
      <3> QED
        BY <1>1, <2>2, <3>2, <3>3 DEF Before
    <2> QED
      BY <2>1, <2>2
  <1>4. ASSUME NEW c \in S, NEW d \in S, NEW e \in S, Before(c, d), Before(d, e) PROVE Before(c, e)
    <2>1. Len(c) <= Len(d) /\ Len(d) <= Len(e)
      BY <1>1, <1>4 DEF Before
    <2>2. CASE Len(c) < Len(e)
      BY <2>2 DEF Before
    <2>3. CASE ~(Len(c) < Len(e))
      <3>1. Len(c) = Len(d) /\ Len(d) = Len(e)
        BY <1>1, <2>1, <2>3
      <3> DEFINE differ(x, y) == \E i \in 1..Len(c) : x[i] < y[i] /\ \A j \in 1..(i - 1) : x[j] = y[j]
      <3>7. DOMAIN c = 1..Len(c) /\ DOMAIN d = 1..Len(c) /\ Len(c) \in Int /\ ~(Len(c) < Len(d)) /\ ~(Len(d) < Len(e))
        BY <1>1, <3>1
      <3>8. differ(c, d) /\ differ(d, e)
        BY <1>4, <3>7 DEF Before
      <3>2. PICK i \in 1..Len(c) : c[i] < d[i] /\ \A j \in 1..(i - 1) : c[j] = d[j]
        BY <3>8
      <3>3. PICK k \in 1..Len(c) : d[k] < e[k] /\ \A j \in 1..(k - 1) : d[j] = e[j]
        BY <3>8
      <3>4. c[i] \in Int /\ d[i] \in Int /\ e[i] \in Int /\ c[k] \in Int /\ d[k] \in Int /\ e[k] \in Int
        BY <1>1, <3>1
      <3>5. CASE i <= k
        <4>1. c[i] < e[i]
          <5>1. i = k \/ i \in 1..(k - 1)
            BY <3>5
          <5>2. CASE i = k
            BY <3>2, <3>3, <3>4, <5>2
          <5>3. CASE i \in 1..(k - 1)
            <6>1. d[i] = e[i]
              BY <3>3, <5>3
            <6> QED
              BY <3>2, <6>1
          <5> QED
            BY <5>1, <5>2, <5>3
        <4>2. \A j \in 1..(i - 1) : c[j] = e[j]
          BY <3>2, <3>3, <3>5
        <4> QED
          BY <1>1, <3>1, <4>1, <4>2 DEF Before
      <3>6. CASE k < i
        <4>1. c[k] < e[k]
          <5>1. k \in 1..(i - 1)
            BY <3>6
          <5>2. c[k] = d[k]
            BY <3>2, <5>1
          <5> QED
            BY <3>3, <5>2
        <4>2. \A j \in 1..(k - 1) : c[j] = e[j]
          BY <3>2, <3>3, <3>6
        <4> QED
          BY <1>1, <3>1, <4>1, <4>2 DEF Before
      <3> QED
        BY <3>5, <3>6
    <2> QED
      BY <2>2, <2>3
  <1> QED
    BY <1>2, <1>3, <1>4

(* That is an order of them.                                               *)
LEMMA SoonerIsOrder ==
    ASSUME NEW S, \A c \in S : c \in Seq(Int), NEW number, \A c \in S : number[c] \in Int
    PROVE  IsOrder(Sooner(number, S), S)
PROOF
  <1> DEFINE R == Sooner(number, S)
  <1>1. /\ \A c \in S : ~Before(c, c)
        /\ \A c, d \in S : c # d => Before(c, d) \/ Before(d, c)
        /\ \A c, d, e \in S : Before(c, d) /\ Before(d, e) => Before(c, e)
    BY BeforeIs
  <1>2. \A c, d \in S : <<c, d>> \in R <=> number[c] < number[d] \/ (number[c] = number[d] /\ Before(c, d))
    BY DEF Sooner
  <1> HIDE DEF R
  <1>3. \A x \in S : <<x, x>> \notin R
    BY <1>1, <1>2
  <1>6. \A a, b \in Int : a < b \/ b < a \/ a = b
    OBVIOUS
  <1>4. ASSUME NEW x \in S, NEW y \in S, x # y PROVE <<x, y>> \in R \/ <<y, x>> \in R
    <2>1. number[x] \in Int /\ number[y] \in Int
      OBVIOUS
    <2>2. Before(x, y) \/ Before(y, x)
      BY <1>1, <1>4
    <2>3. number[x] < number[y] \/ number[y] < number[x] \/ number[x] = number[y]
      BY <1>6, <2>1
    <2> QED
      BY <1>2, <2>2, <2>3
  <1>5. ASSUME NEW x \in S, NEW y \in S, NEW z \in S, <<x, y>> \in R, <<y, z>> \in R PROVE <<x, z>> \in R
    <2>1. number[x] \in Int /\ number[y] \in Int /\ number[z] \in Int
      OBVIOUS
    <2>2. /\ number[x] < number[y] \/ (number[x] = number[y] /\ Before(x, y))
          /\ number[y] < number[z] \/ (number[y] = number[z] /\ Before(y, z))
      BY <1>2, <1>5
    <2>3. Before(x, y) /\ Before(y, z) => Before(x, z)
      BY <1>1
    <2>4. number[x] < number[z] \/ (number[x] = number[z] /\ Before(x, z))
      BY <2>1, <2>2, <2>3
    <2> QED
      BY <1>2, <2>4
  <1> QED
    BY <1>3, <1>4, <1>5 DEF IsOrder, R

(* The way along a sequence takes a natural number, or there is none.      *)
LEMMA WayAlong ==
    ASSUME NEW S, NEW w \in Seq(S), w # <<>>,
           NEW dist, \A a, b \in S : dist[<<a, b>>] \in Nat \cup {None}
    PROVE  PathTotal(w, dist) \in Nat \cup {None}
PROOF
  <1>1. /\ \A u : Taken(u, w, dist) => PathTotal(w, dist) = u[Len(w)]
        /\ PathTotal(w, dist) # None => \E u : Taken(u, w, dist)
    BY TotalOfWalk
  <1>2. Len(w) \in 1..Len(w)
    OBVIOUS
  <1>3. \A u : Taken(u, w, dist) => u[Len(w)] \in Nat
    BY <1>2 DEF Taken
  <1> QED
    BY <1>1, <1>3

(* What optimize_waypoint_order finds is a way around: it begins at the    *)
(* anchor, passes through places of the others, and leads back.            *)
IsTour(t, S, anchor, rest, dist) ==
    /\ t \in Seq(S) /\ Len(t) = Len(rest) + 1 /\ t[1] = anchor
    /\ PathTotal(Append(t, anchor), dist) # None

(* What TourFrom finds is a tour, or None.                                 *)
LEMMA TourIs ==
    ASSUME NEW S, NEW anchor \in S, NEW rest \in Seq(S),
           NEW dist, \A a, b \in S : dist[<<a, b>>] \in Nat \cup {None}
    PROVE  TourFrom(anchor, rest, dist) = None \/ IsTour(TourFrom(anchor, rest, dist), S, anchor, rest, dist)
PROOF
  <1> DEFINE m == Len(rest)
             O == SetToSeqs(DOMAIN rest)
             visit(o) == <<anchor>> \o [i \in DOMAIN o |-> rest[o[i]]]
             total == [o \in O |-> PathTotal(Append(visit(o), anchor), dist)]
             known == {o \in O : total[o] # None}
             IsFirst(o) == total[o] # None /\ \A q \in DOMAIN total \ {o} :
                               Cheaper(total[o], total[q]) \/ (total[o] = total[q] /\ Before(o, q))
             first == CHOOSE o \in DOMAIN total : IsFirst(o)
  <1>1. TourFrom(anchor, rest, dist) = IF Range(total) = {None} THEN None ELSE visit(first)
    BY DEF TourFrom
  <1>2. m \in Nat /\ DOMAIN rest = 1..m /\ \A i \in 1..m : rest[i] \in S
    OBVIOUS
  <1>3. O = {f \in [1..m -> 1..m] : \A i, j \in 1..m : i # j => f[i] # f[j]}
    <2>1. Cardinality(1..m) = m
      <3>1. 1 \in Int /\ m \in Int /\ m - 1 + 1 = m /\ (1 > m => m = 0)
        BY <1>2
      <3> HIDE DEF m
      <3> QED
        BY <3>1, FS_Interval
    <2> HIDE DEF m
    <2> QED
      BY <1>2, <2>1 DEF SetToSeqs
  <1>4. IsFiniteSet(O) /\ O # {}
    <2>1. IsFiniteSet(1..m)
      BY <1>2, FS_Interval
    <2> DEFINE F == [1..m -> 1..m]
    <2>2. IsFiniteSet(F)
      <3> HIDE DEF m
      <3> QED
        BY <2>1, FiniteFunctions
    <2>3. O \subseteq F
      BY <1>3
    <2>4. [i \in 1..m |-> i] \in O
      BY <1>3
    <2> HIDE DEF F, O
    <2> QED
      BY <2>2, <2>3, <2>4, FS_Subset
  <1>5. ASSUME NEW o \in O
        PROVE  /\ visit(o) \in Seq(S) /\ Len(visit(o)) = m + 1 /\ visit(o)[1] = anchor
               /\ total[o] \in Nat \cup {None} /\ o \in Seq(Int)
               /\ total[o] = PathTotal(Append(visit(o), anchor), dist)
    <2> DEFINE stops == [i \in DOMAIN o |-> rest[o[i]]]
    <2>1. o \in [1..m -> 1..m]
      BY <1>3
    <2>2. o \in Seq(Int)
      <3> HIDE DEF m
      <3> QED
        BY <1>2, <2>1
    <2>3. stops \in [1..m -> S]
      BY <1>2, <2>1
    <2> HIDE DEF stops, m, O
    <2>4. stops \in Seq(S) /\ Len(stops) = m
      BY <1>2, <2>3
    <2>5. visit(o) = <<anchor>> \o stops
      BY DEF stops
    <2>6. \A s \in Seq(S) : /\ <<anchor>> \o s \in Seq(S) /\ Len(<<anchor>> \o s) = Len(s) + 1
                            /\ (<<anchor>> \o s)[1] = anchor
      OBVIOUS
    <2>7. visit(o) \in Seq(S) /\ Len(visit(o)) = m + 1 /\ visit(o)[1] = anchor
      BY <2>4, <2>5, <2>6
    <2> DEFINE t == visit(o)
    <2> HIDE DEF t
    <2>8. Append(t, anchor) \in Seq(S) /\ Append(t, anchor) # <<>>
      <3>1. t \in Seq(S)
        BY <2>7 DEF t
      <3> QED
        BY <3>1
    <2>9. PathTotal(Append(t, anchor), dist) \in Nat \cup {None}
      BY <2>8, WayAlong
    <2>10. total[o] = PathTotal(Append(t, anchor), dist)
      BY DEF t
    <2> QED
      BY <2>2, <2>7, <2>9, <2>10 DEF t
  <1>6. CASE known = {}
    <2>1. \A o \in O : total[o] = None
      BY <1>6
    <2>2. Range(total) = {None}
      <3> HIDE DEF O
      <3>1. DOMAIN total = O
        OBVIOUS
      <3> HIDE DEF total
      <3> QED
        BY <1>4, <2>1, <3>1 DEF Range
    <2> QED
      BY <1>1, <2>2
  <1>7. CASE known # {}
    <2>1. known \subseteq O /\ DOMAIN total = O
      OBVIOUS
    <2>2. \A o \in known : o \in Seq(Int) /\ total[o] \in Int
      BY <1>5
    <2> HIDE DEF O, total, visit
    <2>3. IsFiniteSet(known)
      BY <1>4, <2>1, FS_Subset
    <2>4. PICK o \in known : \A q \in known \ {o} : <<o, q>> \in Sooner(total, known)
      <3>1. IsOrder(Sooner(total, known), known)
        <4> HIDE DEF known
        <4> QED
          BY <2>2, SoonerIsOrder
      <3> HIDE DEF known
      <3> QED
        BY <1>7, <2>3, <3>1, LeastOfOrder
    <2>5. IsFirst(o)
      <3> SUFFICES ASSUME NEW q \in O, q # o
                   PROVE  Cheaper(total[o], total[q]) \/ (total[o] = total[q] /\ Before(o, q))
        BY <2>1
      <3>1. total[o] # None
        OBVIOUS
      <3>2. CASE total[q] = None
        BY <3>1, <3>2 DEF Cheaper
      <3>3. CASE total[q] # None
        <4>1. <<o, q>> \in Sooner(total, known)
          BY <2>4, <3>3
        <4> QED
          BY <3>1, <4>1 DEF Sooner, Cheaper
      <3> QED
        BY <3>2, <3>3
    <2>6. first \in O /\ total[first] # None
      <3> HIDE DEF IsFirst
      <3>1. first \in O /\ IsFirst(first)
        BY <2>1, <2>5
      <3> QED
        BY <3>1 DEF IsFirst
    <2>7. Range(total) # {None}
      BY <2>1, <2>6 DEF Range
    <2> HIDE DEF first
    <2> QED
      BY <1>1, <1>5, <2>6, <2>7 DEF IsTour
  <1> QED
    BY <1>6, <1>7

(* There is a way along a sequence if and only if there is one for each of *)
(* its steps.                                                              *)
LEMMA StepsIfWay ==
    ASSUME NEW w, NEW dist, PathTotal(w, dist) # None
    PROVE  \A i \in 1..(Len(w) - 1) : dist[<<w[i], w[i + 1]>>] # None
PROOF
  <1> DEFINE legs == [i \in 1..(Len(w) - 1) |-> dist[<<w[i], w[i + 1]>>]]
  <1>1. None \notin Range(legs)
    BY DEF PathTotal
  <1>2. \A i \in 1..(Len(w) - 1) : legs[i] = dist[<<w[i], w[i + 1]>>] /\ legs[i] \in Range(legs)
    BY DEF Range
  <1> HIDE DEF legs
  <1> QED
    BY <1>1, <1>2

(* If a table has a way for every step of a walk, the other one has it     *)
(* too.                                                                    *)
LEMMA SameWay ==
    ASSUME NEW S, NEW w \in Seq(S), w # <<>>, NEW from, NEW dist,
           \A a, b \in S : dist[<<a, b>>] \in Nat \cup {None},
           \A a, b \in S : from[<<a, b>>] # None => dist[<<a, b>>] # None,
           PathTotal(w, from) # None
    PROVE  PathTotal(w, dist) \in Nat
PROOF
  <1> DEFINE legs == [i \in 1..(Len(w) - 1) |-> dist[<<w[i], w[i + 1]>>]]
  <1>1. \A i \in 1..(Len(w) - 1) : w[i] \in S /\ w[i + 1] \in S
    OBVIOUS
  <1>2. \A i \in 1..(Len(w) - 1) : dist[<<w[i], w[i + 1]>>] \in Nat
    BY <1>1, StepsIfWay
  <1>3. None \notin Nat
    BY NoneAssumption
  <1>4. DOMAIN legs = 1..(Len(w) - 1) /\ (\A i \in 1..(Len(w) - 1) : legs[i] \in Nat) /\ Len(w) - 1 \in Nat
    BY <1>2
  <1>5. PathTotal(w, dist) = IF None \in Range(legs) THEN None ELSE SumFunctionOnSet(legs, DOMAIN legs)
    BY DEF PathTotal, SumFunction
  <1> HIDE DEF legs
  <1>6. None \notin Range(legs)
    BY <1>3, <1>4 DEF Range
  <1>7. PathTotal(w, dist) \in Nat \cup {None}
    BY WayAlong
  <1>8. SumFunctionOnSet(legs, DOMAIN legs) \in Int
    <2>1. IsFiniteSet(DOMAIN legs) /\ \A i \in DOMAIN legs : legs[i] \in Int
      BY <1>4, FS_Interval
    <2> QED
      BY <2>1, SumTakes
  <1>9. None \notin Int
    BY NoneAssumption
  <1> QED
    BY <1>5, <1>6, <1>7, <1>8, <1>9

(* What can be reached along some arcs can be reached along others if there*)
(* is one of them wherever there is one of the first.                      *)
LEMMA ReachedAlike ==
    ASSUME NEW n \in Nat, NEW arcs, \A arc \in arcs : arc.weight \in Nat,
           NEW others, \A arc \in others : arc.weight \in Nat,
           \A a, b \in 1..n : Arcs(n, arcs)[<<a, b>>] # None => Arcs(n, others)[<<a, b>>] # None
    PROVE  \A a, b \in 1..n : FloydWarshall(n, arcs)[<<a, b>>] # None => FloydWarshall(n, others)[<<a, b>>] # None
PROOF
  <1> DEFINE t == FloydWarshall(n, arcs)
             o == FloydWarshall(n, others)
             cost == Arcs(n, arcs)
             other == Arcs(n, others)
  <1>1. IsWalked(t, n, cost)
    BY ResultUnderbids
  <1>2. o \in Tables(n) /\ Underbids(o, n, n, other)
    BY ResultUnderbids DEF Tables
  <1>3. \A a, b \in 1..n : other[<<a, b>>] \in Nat \cup {None} /\ cost[<<a, b>>] \in Nat \cup {None}
    BY ArcsAreWeights DEF Tables
  <1>4. \A a, b \in 1..n : cost[<<a, b>>] # None => other[<<a, b>>] # None
    OBVIOUS
  <1>5. None \notin Nat
    BY NoneAssumption
  <1> SUFFICES ASSUME NEW a \in 1..n, NEW b \in 1..n, t[<<a, b>>] # None PROVE o[<<a, b>>] # None
    OBVIOUS
  <1> HIDE DEF t, o, cost, other
  <1>6. PICK w, u : IsWay(cost, n, w, u, a, b, t[<<a, b>>])
    BY <1>1 DEF IsWalked
  <1>7. w \in Seq(1..n) /\ w # <<>> /\ Taken(u, w, cost) /\ w[1] = a /\ w[Len(w)] = b
    BY <1>6 DEF IsWay
  <1>8. PathTotal(w, cost) # None
    <2>1. Len(w) \in 1..Len(w)
      BY <1>7
    <2>2. PathTotal(w, cost) = u[Len(w)]
      <3> DEFINE nodes == 1..n
      <3>1. w \in Seq(nodes) /\ \A x, y \in nodes : cost[<<x, y>>] \in Nat \cup {None}
        BY <1>3, <1>7
      <3> HIDE DEF nodes
      <3> QED
        BY <1>7, <3>1, TotalOfWalk
    <2> QED
      BY <1>5, <1>7, <2>1, <2>2 DEF Taken
  <1>9. PathTotal(w, other) # None
    <2> DEFINE nodes == 1..n
    <2>1. /\ w \in Seq(nodes) /\ \A x, y \in nodes : other[<<x, y>>] \in Nat \cup {None}
          /\ \A x, y \in nodes : cost[<<x, y>>] # None => other[<<x, y>>] # None
      BY <1>3, <1>4, <1>7
    <2> HIDE DEF nodes
    <2>2. PathTotal(w, other) \in Nat
      BY <1>7, <1>8, <2>1, SameWay
    <2> QED
      BY <1>5, <2>2
  <1>10. PICK v : Taken(v, w, other)
    <2> DEFINE nodes == 1..n
    <2>1. w \in Seq(nodes) /\ \A x, y \in nodes : other[<<x, y>>] \in Nat \cup {None}
      BY <1>3, <1>7
    <2> HIDE DEF nodes
    <2> QED
      BY <1>7, <1>9, <2>1, TotalOfWalk
  <1>11. AtMostAs(o[<<w[1], w[Len(w)]>>], v[Len(w)])
    BY <1>2, <1>7, <1>10, NoWalkTakesLess
  <1>12. v[Len(w)] \in Nat
    <2>1. Len(w) \in 1..Len(w)
      BY <1>7
    <2> QED
      BY <1>10, <2>1 DEF Taken
  <1> QED
    BY <1>5, <1>7, <1>11, <1>12 DEF AtMostAs

(* The legs lead to the same places in time as for money.                  *)
LEMMA SameWays ==
    ASSUME NEW p, IsTravelData(p), NEW field \in {"cost", "time"}, NEW other \in {"cost", "time"}
    PROVE  \A a, b \in Places(p) : Ways(p)[field][<<a, b>>] # None => Ways(p)[other][<<a, b>>] # None
PROOF
  <1> DEFINE n == Len(p.places)
  <1>1. Places(p) = 1..n /\ n \in Nat
    BY TravelTypes
  <1>2. \A f \in {"cost", "time"} : \A leg \in Range(p.legs) : leg[f] \in Nat
    BY TravelTypes
  <1>3. \A f \in {"cost", "time"} : \A arc \in LegArcs(p, f) : arc.weight \in Nat
    BY <1>2 DEF LegArcs
  <1>4. \A f \in {"cost", "time"} : Ways(p)[f] = FloydWarshall(n, LegArcs(p, f))
    BY DEF Ways
  <1>5. ASSUME NEW a \in 1..n, NEW b \in 1..n, Arcs(n, LegArcs(p, field))[<<a, b>>] # None
        PROVE  Arcs(n, LegArcs(p, other))[<<a, b>>] # None
    <2> DEFINE S(f) == {arc.weight : arc \in {x \in LegArcs(p, f) : x.from = a /\ x.to = b}}
    <2>1. \A f : Arcs(n, LegArcs(p, f))[<<a, b>>] = IF a = b THEN 0 ELSE IF S(f) = {} THEN None ELSE Min(S(f))
      BY DEF Arcs
    <2>2. a = b \/ S(field) # {}
      <3> HIDE DEF S
      <3> QED
        BY <1>5, <2>1
    <2>3. S(field) # {} => S(other) # {}
      <3> SUFFICES ASSUME NEW x \in LegArcs(p, field), x.from = a, x.to = b PROVE S(other) # {}
        OBVIOUS
      <3>1. PICK leg \in Range(p.legs) : \/ x = [from |-> leg.a, to |-> leg.b, weight |-> leg[field]]
                                         \/ x = [from |-> leg.b, to |-> leg.a, weight |-> leg[field]]
        BY DEF LegArcs
      <3> DEFINE there == [from |-> leg.a, to |-> leg.b, weight |-> leg[other]]
                 back == [from |-> leg.b, to |-> leg.a, weight |-> leg[other]]
      <3>2. there \in LegArcs(p, other) /\ back \in LegArcs(p, other)
        BY DEF LegArcs
      <3>3. (there.from = a /\ there.to = b) \/ (back.from = a /\ back.to = b)
        BY <3>1
      <3> HIDE DEF there, back
      <3>4. there.weight \in S(other) \/ back.weight \in S(other)
        BY <3>2, <3>3
      <3> QED
        BY <3>4
    <2>4. S(other) # {} => Min(S(other)) # None
      <3>1. S(other) \subseteq Nat
        BY <1>3
      <3> HIDE DEF S
      <3>2. S(other) # {} => \E x \in S(other) : \A y \in S(other) : x <= y
        BY <3>1, LeastNatural
      <3>3. S(other) # {} => Min(S(other)) \in Nat
        BY <3>1, <3>2 DEF Min
      <3>4. None \notin Nat
        BY NoneAssumption
      <3> QED
        BY <3>3, <3>4
    <2>5. 0 # None
      BY NoneAssumption
    <2> HIDE DEF S
    <2> QED
      BY <2>1, <2>2, <2>3, <2>4, <2>5
  <1> DEFINE A == LegArcs(p, field)
             B == LegArcs(p, other)
  <1>6. /\ \A arc \in A : arc.weight \in Nat
        /\ \A arc \in B : arc.weight \in Nat
        /\ \A a, b \in 1..n : Arcs(n, A)[<<a, b>>] # None => Arcs(n, B)[<<a, b>>] # None
    BY <1>3, <1>5
  <1>7. Ways(p)[field] = FloydWarshall(n, A) /\ Ways(p)[other] = FloydWarshall(n, B)
    BY <1>4
  <1> HIDE DEF A, B, n
  <1>8. \A a, b \in 1..n : FloydWarshall(n, A)[<<a, b>>] # None => FloydWarshall(n, B)[<<a, b>>] # None
    BY <1>1, <1>6, ReachedAlike
  <1> QED
    BY <1>1, <1>7, <1>8

(* What a tour of places takes is a whole number.                          *)
LEMMA TourHasPrice ==
    ASSUME NEW p, IsTravelData(p), NEW field \in {"cost", "time"},
           NEW order \in Seq(Places(p)), order # <<>>,
           PathTotal(Append(order, order[1]), Ways(p)["cost"]) # None
    PROVE  TourCost(p, order, field, Ways(p)) \in Int
PROOF
  <1> DEFINE known == {i \in DOMAIN order : order[i] \in Places(p)}
             f == [i \in known |-> p.places[order[i]][field]]
             w == Append(order, order[1])
             from == Ways(p)["cost"]
             dist == Ways(p)[field]
             S == Places(p)
             way == IF Len(order) <= 1 THEN 0 ELSE PathTotal(w, dist)
  <1>1. IsFiniteSet(known) /\ \A i \in known : f[i] \in Int
    <2>1. IsFiniteSet(DOMAIN order) /\ known \subseteq DOMAIN order
      BY RangeOfSequence
    <2>2. \A x \in Places(p) : p.places[x][field] \in Int
      BY TravelTypes
    <2> QED
      BY <2>1, <2>2, FS_Subset
  <1>2. SumFunction(f) \in Int
    <2>1. DOMAIN f = known
      OBVIOUS
    <2> HIDE DEF f, known
    <2>2. SumFunctionOnSet(f, known) \in Int
      BY <1>1, SumTakes
    <2> QED
      BY <2>1, <2>2 DEF SumFunction
  <1>3. PathTotal(w, dist) \in Nat
    <2>1. w \in Seq(S) /\ w # <<>>
      <3>1. order[1] \in S /\ order \in Seq(S)
        OBVIOUS
      <3> HIDE DEF S
      <3> QED
        BY <3>1
    <2>2. \A a, b \in S : dist[<<a, b>>] \in Nat \cup {None}
      BY WaysAreWeights
    <2>3. \A a, b \in S : from[<<a, b>>] # None => dist[<<a, b>>] # None
      BY SameWays
    <2> HIDE DEF S, w, dist, from
    <2>4. PathTotal(w, from) # None
      BY DEF w, from
    <2> QED
      BY <2>1, <2>2, <2>3, <2>4, SameWay
  <1>4. way \in Int /\ way # None
    <2>1. None \notin Int
      BY NoneAssumption
    <2> HIDE DEF w, dist
    <2> QED
      BY <1>3, <2>1
  <1>5. TourCost(p, order, field, Ways(p)) = IF way = None THEN None ELSE SumFunction(f) + way
    BY DEF TourCost
  <1> HIDE DEF way, f
  <1> QED
    BY <1>2, <1>4, <1>5

(* What is picked from a sequence is some of it.                           *)
LEMMA PickedIs ==
    ASSUME NEW S, NEW s \in Seq(S), NEW K \in SUBSET DOMAIN s
    PROVE  Picked(s, K) \in Seq(S)
PROOF
  <1> DEFINE at == Arranged(K, <)
  <1>1. IsFiniteSet(K) /\ K \subseteq Int /\ \A i \in K : s[i] \in S
    <2>1. IsFiniteSet(DOMAIN s) /\ DOMAIN s \subseteq Int /\ \A i \in DOMAIN s : s[i] \in S
      BY RangeOfSequence, ElementOf
    <2> QED
      BY <2>1, FS_Subset
  <1>2. Lists(at, K)
    BY <1>1, NumbersRanked
  <1>3. at \in Seq(K) /\ DOMAIN at = 1..Cardinality(K) /\ Cardinality(K) \in Nat
    <2>1. Cardinality(K) \in Nat
      BY <1>1, FS_CardinalityType
    <2> HIDE DEF at
    <2> QED
      BY <1>1, <1>2, <2>1, ListIsSequence
  <1>4. Picked(s, K) = [i \in DOMAIN at |-> s[at[i]]]
    BY DEF Picked
  <1> HIDE DEF at
  <1>5. \A i \in 1..Cardinality(K) : at[i] \in K
    BY <1>2 DEF Lists
  <1>6. Picked(s, K) \in [1..Cardinality(K) -> S]
    BY <1>1, <1>3, <1>4, <1>5
  <1> DEFINE g == Picked(s, K)
             c == Cardinality(K)
  <1>7. c \in Nat /\ g \in [1..c -> S]
    BY <1>3, <1>6
  <1> HIDE DEF g, c
  <1>8. g \in Seq(S)
    BY <1>7
  <1> QED
    BY <1>8 DEF g

(* What order_and_cost finds for some places is none, or a tour of places  *)
(* with what it takes.                                                     *)
IsPlanned(p, plan) ==
    /\ plan = [visit |-> plan.visit, cost |-> plan.cost, time |-> plan.time]
    /\ plan.visit \in Seq(Places(p)) /\ plan.cost \in Int /\ plan.time \in Int

(* What OrderAndCost finds is a plan, or None.                             *)
LEMMA PlanIs ==
    ASSUME NEW p, IsTravelData(p), NEW selected \in Seq(Places(p))
    PROVE  OrderAndCost(p, selected, Ways(p)) = None \/ IsPlanned(p, OrderAndCost(p, selected, Ways(p)))
PROOF
  <1> DEFINE S == Places(p)
             sel == IF p.start \in Range(selected) \cup {None} THEN selected ELSE <<p.start>> \o selected
             anchor == IF p.start # None THEN p.start ELSE sel[1]
             rest == Picked(sel, {i \in DOMAIN sel : sel[i] # anchor})
             dist == Ways(p)["cost"]
             tour == TourFrom(anchor, rest, dist)
  <1>1. OrderAndCost(p, selected, Ways(p))
        = IF sel = <<>> THEN [visit |-> <<>>, cost |-> 0, time |-> 0] ELSE Planned(p, tour, Ways(p))
    BY DEF OrderAndCost
  <1>2. p.start \in S \cup {None}
    BY DEF IsTravelData, Places
  <1>3. sel \in Seq(S)
    <2>1. \A x \in S : <<x>> \o selected \in Seq(S)
      OBVIOUS
    <2> HIDE DEF S
    <2>2. selected \in Seq(S)
      BY DEF S
    <2> QED
      BY <1>2, <2>1, <2>2
  <1>4. CASE sel = <<>>
    <2> DEFINE none == [visit |-> <<>>, cost |-> 0, time |-> 0]
    <2>1. OrderAndCost(p, selected, Ways(p)) = none
      BY <1>1, <1>4
    <2>2. none = [visit |-> none.visit, cost |-> none.cost, time |-> none.time] /\ none.visit \in Seq(S) /\ none.cost \in Int /\ none.time \in Int
      OBVIOUS
    <2> HIDE DEF none
    <2> QED
      BY <2>1, <2>2 DEF IsPlanned
  <1>5. CASE sel # <<>>
    <2> HIDE DEF sel
    <2>1. anchor \in S
      BY <1>2, <1>3, <1>5
    <2>2. rest \in Seq(S)
      <3> HIDE DEF S, anchor
      <3> QED
        BY <1>3, PickedIs
    <2>3. \A a, b \in S : dist[<<a, b>>] \in Nat \cup {None}
      BY WaysAreWeights
    <2>4. tour = None \/ IsTour(tour, S, anchor, rest, dist)
      <3> HIDE DEF S, anchor, rest, dist
      <3> QED
        BY <2>1, <2>2, <2>3, TourIs
    <2> HIDE DEF anchor, rest, dist
    <2>5. CASE tour = None
      BY <1>1, <1>5, <2>5 DEF Planned
    <2>6. CASE tour # None
      <3> HIDE DEF tour
      <3>1. tour \in Seq(S) /\ Len(tour) = Len(rest) + 1 /\ tour[1] = anchor /\ PathTotal(Append(tour, anchor), dist) # None
        BY <2>4, <2>6 DEF IsTour
      <3>2. tour # <<>>
        BY <2>2, <3>1
      <3>3. ASSUME NEW field \in {"cost", "time"} PROVE TourCost(p, tour, field, Ways(p)) \in Int
        BY <3>1, <3>2, TourHasPrice DEF dist
      <3> DEFINE plan == [visit |-> tour, cost |-> TourCost(p, tour, "cost", Ways(p)), time |-> TourCost(p, tour, "time", Ways(p))]
      <3>4. OrderAndCost(p, selected, Ways(p)) = plan
        BY <1>1, <1>5, <2>6 DEF Planned
      <3>5. plan = [visit |-> plan.visit, cost |-> plan.cost, time |-> plan.time]
            /\ plan.visit = tour /\ plan.cost \in Int /\ plan.time \in Int
        BY <3>3
      <3> HIDE DEF plan
      <3> QED
        BY <3>1, <3>4, <3>5 DEF IsPlanned
    <2> QED
      BY <2>5, <2>6
  <1> QED
    BY <1>4, <1>5

(* What a selection is worth is a whole number.                            *)
LEMMA UtilityIsNumber ==
    ASSUME NEW p, IsTravelData(p), NEW order \in Seq(Places(p))
    PROVE  TotalUtility(p, order) \in Int
PROOF
  <1> DEFINE h == [i \in DOMAIN order |-> Utility(p, order[i])]
  <1>1. IsFiniteSet(DOMAIN order) /\ \A i \in DOMAIN order : order[i] \in Places(p)
    BY RangeOfSequence, ElementOf
  <1>2. DOMAIN h = DOMAIN order /\ \A i \in DOMAIN order : h[i] \in Int
    BY <1>1, TravelTypes
  <1>3. TotalUtility(p, order) = SumFunctionOnSet(h, DOMAIN h)
    BY DEF TotalUtility, SumFunction
  <1> HIDE DEF h
  <1> QED
    BY <1>1, <1>2, <1>3, SumTakes

(* What is answered for a selection of places that there are is a plan     *)
(* with the figures it has, or that there is none, and can be verified.    *)
LEMMA TravelAnswerIsSound ==
    ASSUME NEW p, p.type = "travel_planning", IsTravelData(p), NEW selected \in Seq(Places(p))
    PROVE  LET s == TravelAnswer(p, selected, Ways(p))
           IN  IsSound(p, s) /\ ~Unverifiable(p, s)
PROOF
  <1> DEFINE plan == OrderAndCost(p, selected, Ways(p))
             value == TotalUtility(p, plan.visit)
             s == TravelAnswer(p, selected, Ways(p))
             a == [selected |-> plan.visit, visit |-> plan.visit, value |-> value, cost |-> plan.cost, time |-> plan.time]
             figures == [total_value |-> value, total_cost |-> plan.cost, total_time |-> plan.time]
  <1>1. s = IF plan = None THEN Infeasible({}) ELSE Answer(a, figures)
    BY DEF TravelAnswer, PlanAnswer
  <1>2. plan = None \/ IsPlanned(p, plan)
    BY PlanIs
  <1>3. Places(p) = 1..Len(p.places) /\ Len(p.places) \in Nat
    BY TravelTypes
  <1> HIDE DEF plan, s
  <1>4. CASE plan = None
    <2>1. s.status = "infeasible"
      BY <1>1, <1>4 DEF Infeasible
    <2> QED
      BY <2>1 DEF IsSound, Unverifiable, s
  <1>5. CASE plan # None
    <2>1. plan.visit \in Seq(Places(p)) /\ plan.cost \in Int /\ plan.time \in Int
      BY <1>2, <1>5 DEF IsPlanned
    <2>2. value \in Int
      BY <2>1, UtilityIsNumber
    <2>3. plan.visit \in Seq(Nat) /\ Range(plan.visit) \subseteq Places(p)
      <3>1. Places(p) \subseteq Nat
        BY <1>3
      <3>2. Range(plan.visit) \subseteq Places(p)
        BY <2>1, RangeOfSequence
      <3> QED
        BY <2>1, <3>1, <3>2
    <2> HIDE DEF value
    <2>4. IsTravelSolution(a) /\ a.visit = plan.visit /\ a.value = value /\ a.cost = plan.cost /\ a.time = plan.time
      BY <2>1, <2>2, <2>3 DEF IsTravelSolution
    <2> HIDE DEF a
    <2>5. /\ DOMAIN s = Fields /\ s.status = "valid" /\ s.assignments = a /\ s.metrics = figures
      BY <1>1, <1>5 DEF Answer, Fields
    <2>6. Truth(p, a) = figures
      BY <2>4 DEF Truth
    <2>7. CheckedMetrics(p, s) = figures
      BY <2>5 DEF CheckedMetrics
    <2> HIDE DEF figures
    <2>8. Truthful(p, s)
      BY <2>5, <2>6, <2>7 DEF Truthful
    <2>9. IsSolutionFor(p.type, s.assignments)
      BY <2>4, <2>5 DEF IsSolutionFor
    <2>10. ~Unverifiable(p, s)
      BY <2>3, <2>4, <2>5 DEF Unverifiable, TravelUnverifiable
    <2> QED
      BY <2>5, <2>8, <2>9, <2>10 DEF IsSound, s
  <1> QED
    BY <1>4, <1>5

-----------------------------------------------------------------------------
(* Trips.                                                                  *)

(* The place that gains most is one of those that are tried.               *)
LEMMA BestIsTried ==
    ASSUME NEW p, NEW trial, NEW spent
    PROVE  BestGain(p, trial, spent) \subseteq DOMAIN trial
PROOF
  BY DEF BestGain

(* A ranked set of places is a sequence of places.                         *)
LEMMA RankedPlaces ==
    ASSUME NEW p, IsTravelData(p), NEW S \in SUBSET Places(p)
    PROVE  Arranged(S, <) \in Seq(Places(p)) /\ DOMAIN Arranged(S, <) = 1..Cardinality(S) /\ Cardinality(S) \in Nat
PROOF
  <1> DEFINE s == Arranged(S, <)
  <1>1. IsFiniteSet(S) /\ S \subseteq Int
    BY TravelTypes, FS_Subset
  <1>2. Lists(s, S)
    BY <1>1, NumbersRanked
  <1>3. Cardinality(S) \in Nat
    BY <1>1, FS_CardinalityType
  <1> HIDE DEF s
  <1>4. s \in Seq(Places(p)) /\ DOMAIN s = 1..Cardinality(S)
    BY <1>1, <1>2, ListIsSequence
  <1> QED
    BY <1>3, <1>4 DEF s

(* The greedy strategy extends a selection by places that there are.       *)
LEMMA ExtendedIs ==
    ASSUME NEW p, IsTravelData(p), NEW ways, NEW first \in Seq(Places(p))
    PROVE  ExtendGreedily(p, first, ways) \in Seq(Places(p))
PROOF
  <1> DEFINE P == Places(p)
             X == Seq(Places(p))
             spent(plan) == IF plan = None THEN 0 ELSE plan.cost + plan.time
             best(s) == BestGain(p, [x \in Allowed(p) \ Range(s) |-> OrderAndCost(p, Append(s, x), ways)],
                                 spent(OrderAndCost(p, s, ways)))
             Unfold(f) == [s \in X |-> IF best(s) = {} THEN s ELSE f[s \o SetToSeq(best(s))]]
             extend == CHOOSE f : f = Unfold(f)
             Halts == {s \in X : best(s) = {}}
             n == Cardinality(P)
             measure == [s \in X |-> Cardinality(P \ Range(s))]
             base == [s \in X |-> s]
             succ == [s \in X |-> IF s \in Halts THEN s ELSE s \o SetToSeq(best(s))]
             after == [s \in X |-> [x \in X |-> x]]
  <1>1. ExtendGreedily(p, first, ways) = extend[first]
    BY DEF ExtendGreedily
  <1>2. IsFiniteSet(P) /\ n \in Nat
    BY TravelTypes, FS_CardinalityType
  <1>3. ASSUME NEW s \in X PROVE measure[s] \in 0..n
    <2>1. IsFiniteSet(P \ Range(s)) /\ Cardinality(P \ Range(s)) <= Cardinality(P)
      <3>1. (P \ Range(s)) \subseteq P
        OBVIOUS
      <3> HIDE DEF P
      <3> QED
        BY <1>2, <3>1, FS_Subset
    <2> QED
      BY <1>2, <2>1, FS_CardinalityType
  <1>4. ASSUME NEW s \in X, s \notin Halts
        PROVE  /\ succ[s] = s \o SetToSeq(best(s)) /\ succ[s] \in X /\ measure[succ[s]] < measure[s]
    <2> DEFINE B == best(s)
               more == SetToSeq(B)
    <2>1. B # {} /\ B \subseteq P \ Range(s)
      <3>1. best(s) \subseteq Allowed(p) \ Range(s)
        BY BestIsTried
      <3>2. Allowed(p) \subseteq P
        BY DEF Allowed
      <3> QED
        BY <1>4, <3>1, <3>2
    <2>2. succ[s] = s \o more
      BY <1>4
    <2> HIDE DEF B, succ, P
    <2>3. IsFiniteSet(B)
      BY <1>2, <2>1, FS_Subset
    <2>4. Lists(more, B)
      BY <2>3, SetToSeqLists
    <2>5. B \subseteq P
      BY <2>1
    <2> HIDE DEF more
    <2>6. more \in Seq(P) /\ Range(more) = B
      BY <2>3, <2>4, <2>5, ListIsSequence
    <2> DEFINE t == s \o more
    <2>7. t \in Seq(P) /\ Range(t) = Range(s) \cup B
      <3>1. s \in Seq(P)
        BY DEF P
      <3> QED
        BY <2>6, <3>1, RangeOfBoth
    <2> HIDE DEF t
    <2>8. Cardinality(P \ Range(t)) < Cardinality(P \ Range(s))
      <3>1. IsFiniteSet(P \ Range(s))
        BY <1>2, FS_Subset
      <3>2. PICK x \in B : TRUE
        BY <2>1
      <3>3. (P \ Range(t)) \subseteq P \ Range(s) /\ x \in P \ Range(s) /\ x \notin P \ Range(t)
        BY <2>1, <2>7
      <3>4. /\ Cardinality(P \ Range(t)) <= Cardinality(P \ Range(s))
            /\ Cardinality(P \ Range(t)) = Cardinality(P \ Range(s)) => (P \ Range(t)) = P \ Range(s)
            /\ IsFiniteSet(P \ Range(t))
        BY <3>1, <3>3, FS_Subset
      <3>5. Cardinality(P \ Range(t)) \in Nat /\ Cardinality(P \ Range(s)) \in Nat
        BY <3>1, <3>4, FS_CardinalityType
      <3> QED
        BY <3>3, <3>4, <3>5
    <2>9. t \in X
      BY <2>7 DEF P
    <2>10. measure[t] = Cardinality(P \ Range(t)) /\ measure[s] = Cardinality(P \ Range(s))
      BY <2>9
    <2> HIDE DEF measure
    <2> QED
      BY <2>2, <2>8, <2>9, <2>10 DEF t, more, B
  <1> HIDE DEF best
  <1>5. base \in [X -> X] /\ after \in [X -> [X -> X]]
    OBVIOUS
  <1>6. succ \in [X -> X]
    <2>1. \A s \in X : succ[s] \in X
      <3>1. \A s \in X : s \in Halts => succ[s] \in X
        OBVIOUS
      <3> HIDE DEF succ, Halts
      <3> QED
        BY <1>4, <3>1
    <2> QED
      BY <2>1
  <1>7. \A s \in X \ Halts : measure[succ[s]] < measure[s]
    <2> HIDE DEF Halts, succ, measure
    <2> QED
      BY <1>4
  <1>8. PICK g \in [X -> X] : Descends(g, X, Halts, base, succ, after)
    <2> HIDE DEF Halts, succ, measure, base, after, X, n
    <2> QED
      BY <1>2, <1>3, <1>5, <1>6, <1>7, DescentExists
  <1>9. g = Unfold(g)
    <2>1. g = [s \in X |-> g[s]]
      BY <1>8
    <2>2. ASSUME NEW s \in X PROVE g[s] = Unfold(g)[s]
      <3>1. Unfold(g)[s] = IF s \in Halts THEN s ELSE g[s \o SetToSeq(best(s))]
        OBVIOUS
      <3> HIDE DEF Unfold
      <3>2. CASE s \in Halts
        <4>1. g[s] = s
          BY <1>8, <3>2 DEF Descends
        <4> QED
          BY <3>1, <3>2, <4>1
      <3>3. CASE s \notin Halts
        <4>1. g[s] = after[s][g[succ[s]]] /\ succ[s] \in X /\ succ[s] = s \o SetToSeq(best(s))
          BY <1>4, <1>8, <3>3 DEF Descends
        <4>2. g[succ[s]] \in X
          BY <1>8, <4>1
        <4> HIDE DEF succ
        <4> QED
          BY <3>1, <3>3, <4>1, <4>2
      <3> QED
        BY <3>2, <3>3
    <2>3. Unfold(g) = [s \in X |-> Unfold(g)[s]]
      OBVIOUS
    <2> HIDE DEF Unfold
    <2> QED
      BY <2>1, <2>2, <2>3
  <1>10. extend = Unfold(extend)
    <2> HIDE DEF Unfold
    <2> QED
      BY <1>9
  <1> HIDE DEF extend
  <1> DEFINE Good == {s \in X : extend[s] \in X}
  <1>11. X \subseteq Good
    <2>1. \A s \in X : measure[s] \in Nat
      <3> HIDE DEF measure, n
      <3> QED
        BY <1>2, <1>3
    <2>2. ASSUME NEW s \in X
          PROVE  s \in Good \/ (succ[s] \in X /\ measure[succ[s]] < measure[s] /\ (succ[s] \in Good => s \in Good))
      <3>1. extend[s] = IF s \in Halts THEN s ELSE extend[s \o SetToSeq(best(s))]
        <4>1. extend[s] = Unfold(extend)[s]
          BY <1>10
        <4> QED
          BY <4>1
      <3>2. CASE s \in Halts
        <4> HIDE DEF Halts
        <4> QED
          BY <3>1, <3>2
      <3>3. CASE s \notin Halts
        <4>1. succ[s] \in X /\ measure[succ[s]] < measure[s] /\ extend[s] = extend[succ[s]]
          BY <1>4, <3>1, <3>3
        <4> HIDE DEF succ, measure
        <4> QED
          BY <4>1
      <3> QED
        BY <3>2, <3>3
    <2>3. \A s \in X : s \in Good \/ (succ[s] \in X /\ measure[succ[s]] < measure[s] /\ (succ[s] \in Good => s \in Good))
      BY <2>2
    <2> HIDE DEF Good, measure, succ, X
    <2> QED
      BY <2>1, <2>3, DescentKeeps
  <1> QED
    BY <1>1, <1>11

(* What a strategy answers is sound if it answers for selections of places *)
(* that there are.                                                         *)
LEMMA TripsAreSound ==
    ASSUME NEW p, p.type = "travel_planning", IsTravelData(p),
           NEW selections \in SUBSET Seq(Places(p)),
           selections = {} => ~(RequiredItems(p) \subseteq Places(p))
    PROVE  AreSound(p, {TravelAnswer(p, s, Ways(p)) : s \in selections})
PROOF
  <1>1. \A s \in selections : IsSound(p, TravelAnswer(p, s, Ways(p))) /\ ~Unverifiable(p, TravelAnswer(p, s, Ways(p)))
    BY TravelAnswerIsSound
  <1> QED
    BY <1>1 DEF AreSound

(* The knapsack strategy plans soundly.                                    *)
LEMMA KnapsackTravelIsSound ==
    ASSUME NEW p, p.type = "travel_planning", IsTravelData(p)
    PROVE  AreSound(p, KnapsackTravel(p))
PROOF
  <1> DEFINE fits(x) == Ceil(p.places[x].cost) <= Floor(p.budget) /\ Ceil(p.places[x].time) <= Floor(p.time)
             S == {x \in Allowed(p) : fits(x)}
             ids == Arranged(S, <)
             items == [i \in DOMAIN ids |-> [a |-> Ceil(p.places[ids[i]].cost),
                                             b |-> Ceil(p.places[ids[i]].time),
                                             value |-> Utility(p, ids[i])]]
             packed == Knapsack(items, Floor(p.budget), Floor(p.time))
             picked == {ids[i] : i \in packed}
             late == RequiredItems(p) \ picked
             selections == IF RequiredItems(p) \subseteq Places(p) THEN {Arranged(picked, <) \o Arranged(late, <)} ELSE {}
  <1>1. KnapsackTravel(p) = {TravelAnswer(p, s, Ways(p)) : s \in selections}
    <2> HIDE DEF picked, late
    <2>1. KnapsackTravel(p) = IF ~(RequiredItems(p) \subseteq Places(p)) THEN {}
                              ELSE {TravelAnswer(p, Arranged(picked, <) \o Arranged(late, <), Ways(p))}
      BY DEF KnapsackTravel, picked, late
    <2> QED
      BY <2>1
  <1>2. S \in SUBSET Places(p)
    BY DEF Allowed
  <1>3. ids \in Seq(Places(p)) /\ DOMAIN ids = 1..Cardinality(S) /\ Cardinality(S) \in Nat
    <2> HIDE DEF S
    <2> QED
      BY <1>2, RankedPlaces
  <1> HIDE DEF S, ids
  <1> DEFINE n == Cardinality(S)
  <1>4. \A i \in 1..n : ids[i] \in Places(p)
    BY <1>3
  <1>5. \A x \in Places(p) : Ceil(p.places[x].cost) \in Nat /\ Ceil(p.places[x].time) \in Nat /\ Utility(p, x) \in Int
    BY TravelTypes, WholeAmounts
  <1>6. Floor(p.budget) \in Nat /\ Floor(p.time) \in Nat
    BY WholeAmounts DEF IsTravelData
  <1>7. packed \subseteq 1..n
    <2>1. DOMAIN items = 1..n /\ n \in Nat
      BY <1>3
    <2>2. \A i \in 1..n : items[i].a \in Nat /\ items[i].b \in Nat /\ items[i].value \in Int
      BY <1>3, <1>4, <1>5
    <2> HIDE DEF items, n
    <2> QED
      BY <1>6, <2>1, <2>2, KnapsackTakesItems
  <1> HIDE DEF packed
  <1>8. picked \in SUBSET Places(p)
    BY <1>4, <1>7
  <1> HIDE DEF picked
  <1>9. selections \in SUBSET Seq(Places(p))
    <2> SUFFICES ASSUME RequiredItems(p) \subseteq Places(p)
                 PROVE  Arranged(picked, <) \o Arranged(late, <) \in Seq(Places(p))
      OBVIOUS
    <2>1. late \in SUBSET Places(p)
      OBVIOUS
    <2> HIDE DEF late
    <2>2. Arranged(picked, <) \in Seq(Places(p)) /\ Arranged(late, <) \in Seq(Places(p))
      BY <1>8, <2>1, RankedPlaces
    <2> DEFINE s == Arranged(picked, <)
               t == Arranged(late, <)
               P == Places(p)
    <2>3. s \in Seq(P) /\ t \in Seq(P)
      BY <2>2
    <2> HIDE DEF s, t, P
    <2>4. s \o t \in Seq(P)
      BY <2>3
    <2> QED
      BY <2>4 DEF s, t, P
  <1>10. selections = {} => ~(RequiredItems(p) \subseteq Places(p))
    OBVIOUS
  <1> HIDE DEF selections
  <1> QED
    BY <1>1, <1>9, <1>10, TripsAreSound

(* So does the greedy strategy.                                            *)
LEMMA GreedyTravelIsSound ==
    ASSUME NEW p, p.type = "travel_planning", IsTravelData(p)
    PROVE  AreSound(p, GreedyTravel(p))
PROOF
  <1> DEFINE first == RequiredItems(p) \ ForbiddenItems(p)
             extended == ExtendGreedily(p, Arranged(first, <), Ways(p))
             selections == IF first \subseteq Places(p) THEN {extended} ELSE {}
  <1>1. GreedyTravel(p) = {TravelAnswer(p, s, Ways(p)) : s \in selections}
    <2> HIDE DEF extended
    <2>1. GreedyTravel(p) = IF first \subseteq Places(p) THEN {TravelAnswer(p, extended, Ways(p))} ELSE {}
      BY DEF GreedyTravel, GreedyPlan, extended
    <2> QED
      BY <2>1
  <1>2. selections \in SUBSET Seq(Places(p))
    <2> SUFFICES ASSUME first \subseteq Places(p) PROVE extended \in Seq(Places(p))
      OBVIOUS
    <2> HIDE DEF first
    <2>1. Arranged(first, <) \in Seq(Places(p))
      BY RankedPlaces
    <2> QED
      BY <2>1, ExtendedIs
  <1>3. selections = {} => ~(RequiredItems(p) \subseteq Places(p))
    OBVIOUS
  <1> HIDE DEF selections
  <1> QED
    BY <1>1, <1>2, <1>3, TripsAreSound

(* The enumeration's choice is one of its combinations.                    *)
BestCombo(p, possible, plan) ==
    CHOOSE c \in possible : \A d \in possible \ {c} :
        \/ TotalUtility(p, plan[c].visit) > TotalUtility(p, plan[d].visit)
        \/ TotalUtility(p, plan[c].visit) = TotalUtility(p, plan[d].visit) /\ Before(c, d)

(* It is one of them.                                                      *)
LEMMA BestComboIs ==
    ASSUME NEW p, IsTravelData(p), NEW possible, IsFiniteSet(possible), possible # {},
           possible \subseteq Seq(Places(p)), NEW plan, \A c \in possible : IsPlanned(p, plan[c])
    PROVE  BestCombo(p, possible, plan) \in possible
PROOF
  <1> DEFINE value(c) == TotalUtility(p, plan[c].visit)
             less == [c \in possible |-> 0 - value(c)]
  <1>2. \A c \in possible : value(c) \in Int /\ c \in Seq(Int)
    <2> SUFFICES ASSUME NEW c \in possible PROVE value(c) \in Int /\ c \in Seq(Int)
      OBVIOUS
    <2>2. value(c) \in Int
      BY UtilityIsNumber DEF IsPlanned
    <2>3. Places(p) \subseteq Int
      BY TravelTypes
    <2> QED
      BY <2>2, <2>3
  <1> HIDE DEF value
  <1>3. \A c \in possible : less[c] = 0 - value(c) /\ less[c] \in Int
    BY <1>2
  <1> HIDE DEF less
  <1>4. PICK c \in possible : \A d \in possible \ {c} : <<c, d>> \in Sooner(less, possible)
    <2> DEFINE R == Sooner(less, possible)
    <2>1. IsOrder(R, possible)
      BY <1>2, <1>3, SoonerIsOrder
    <2> HIDE DEF R
    <2>2. \E c \in possible : \A d \in possible \ {c} : <<c, d>> \in R
      BY <2>1, LeastOfOrder
    <2> QED
      BY <2>2 DEF R
  <1>5. \A d \in possible \ {c} : value(c) > value(d) \/ (value(c) = value(d) /\ Before(c, d))
    <2> SUFFICES ASSUME NEW d \in possible \ {c} PROVE value(c) > value(d) \/ (value(c) = value(d) /\ Before(c, d))
      OBVIOUS
    <2>1. less[c] < less[d] \/ (less[c] = less[d] /\ Before(c, d))
      BY <1>4 DEF Sooner
    <2>2. less[c] = 0 - value(c) /\ less[d] = 0 - value(d) /\ value(c) \in Int /\ value(d) \in Int
      BY <1>2, <1>3
    <2> QED
      BY <2>1, <2>2
  <1>6. (CHOOSE x \in possible : \A d \in possible \ {x} :
             value(x) > value(d) \/ (value(x) = value(d) /\ Before(x, d))) \in possible
    BY <1>5
  <1> QED
    BY <1>6 DEF value, BestCombo

(* The enumeration plans soundly.                                          *)
LEMMA BruteForceTravelIsSound ==
    ASSUME NEW p, p.type = "travel_planning", IsTravelData(p)
    PROVE  AreSound(p, BruteForceTravel(p))
PROOF
  <1> DEFINE P == Places(p)
             required == RequiredItems(p) \cap Allowed(p)
             combos == {Arranged(c, <) : c \in SUBSET (Allowed(p) \ required)}
             plan(req) == [c \in combos |-> OrderAndCost(p, req \o c, Ways(p))]
             possible(req) == {c \in combos : Affordable(p, plan(req)[c])}
             value(req, c) == TotalUtility(p, plan(req)[c].visit)
             combo(req) == CHOOSE c \in possible(req) : \A d \in possible(req) \ {c} :
                               value(req, c) > value(req, d) \/ (value(req, c) = value(req, d) /\ Before(c, d))
             from(req) == IF possible(req) = {} THEN req ELSE req \o combo(req)
             selections == {from(req) : req \in SetToSeqs(required)}
  <1>1. BruteForceTravel(p) = {TravelAnswer(p, s, Ways(p)) : s \in selections}
    <2>1. BruteForceTravel(p) = {TravelAnswer(p, from(req), Ways(p)) : req \in SetToSeqs(required)}
      BY DEF BruteForceTravel
    <2> HIDE DEF from, required
    <2> QED
      BY <2>1
  <1>2. IsFiniteSet(P) /\ Allowed(p) \subseteq P /\ required \subseteq P
    BY TravelTypes DEF Allowed
  <1>3. combos \subseteq Seq(P) /\ IsFiniteSet(combos)
    <2>1. \A c \in SUBSET (Allowed(p) \ required) : Arranged(c, <) \in Seq(P)
      BY <1>2, RankedPlaces
    <2>2. IsFiniteSet(SUBSET (Allowed(p) \ required))
      BY <1>2, FS_Subset, FS_SUBSET
    <2> DEFINE D == SUBSET (Allowed(p) \ required)
               f == [c \in D |-> Arranged(c, <)]
    <2>3. \A x \in combos : \E c \in D : x = f[c]
      OBVIOUS
    <2>4. IsFiniteSet(D)
      BY <2>2
    <2>5. combos \subseteq Seq(P)
      BY <2>1
    <2> HIDE DEF D, f, combos
    <2>6. IsFiniteSet(combos)
      BY <2>3, <2>4, FiniteImage
    <2> QED
      BY <2>5, <2>6
  <1>4. IsFiniteSet(required) /\ Cardinality(required) \in Nat
    BY <1>2, FS_Subset, FS_CardinalityType
  <1>5. \A req \in SetToSeqs(required) : req \in Seq(P)
    <2> DEFINE n == Cardinality(required)
    <2>1. \A req \in SetToSeqs(required) : req \in [1..n -> P]
      BY <1>2 DEF SetToSeqs
    <2>2. n \in Nat
      BY <1>4
    <2> HIDE DEF n, P
    <2> QED
      BY <2>1, <2>2
  <1>6. SetToSeqs(required) # {}
    <2>1. Lists(SetToSeq(required), required)
      BY <1>4, SetToSeqLists
    <2>2. SetToSeq(required) \in SetToSeqs(required)
      BY <2>1 DEF Lists, SetToSeqs
    <2> QED
      BY <2>2
  <1> HIDE DEF combos, P, required
  <1>7. ASSUME NEW req \in SetToSeqs(required) PROVE from(req) \in Seq(P)
    <2>1. req \in Seq(P)
      BY <1>5
    <2>2. ASSUME NEW c \in combos PROVE req \o c \in Seq(P)
      BY <1>3, <2>1
    <2>3. \A c \in combos : plan(req)[c] = None \/ IsPlanned(p, plan(req)[c])
      BY <2>2, PlanIs DEF P
    <2>4. combos \subseteq Seq(Places(p))
      BY <1>3 DEF P
    <2> DEFINE q == plan(req)
               best == possible(req)
    <2>5. (\A c \in combos : q[c] = None \/ IsPlanned(p, q[c])) /\ best = {c \in combos : Affordable(p, q[c])}
      BY <2>3
    <2>6. combo(req) = BestCombo(p, best, q)
      BY DEF BestCombo
    <2>7. from(req) = IF best = {} THEN req ELSE req \o combo(req)
      OBVIOUS
    <2> HIDE DEF q, best, from, combo, possible, plan
    <2>8. best \subseteq combos /\ \A c \in best : IsPlanned(p, q[c])
      BY <2>5 DEF Affordable
    <2>9. IsFiniteSet(best) /\ best \subseteq Seq(Places(p))
      BY <1>3, <2>4, <2>8, FS_Subset
    <2>10. best # {} => BestCombo(p, best, q) \in best
      BY <2>8, <2>9, BestComboIs
    <2> QED
      BY <2>1, <2>2, <2>6, <2>7, <2>8, <2>10
  <1>8. selections \subseteq Seq(Places(p)) /\ selections # {}
    <2> HIDE DEF from
    <2> QED
      BY <1>6, <1>7 DEF P
  <1> HIDE DEF selections
  <1> QED
    BY <1>1, <1>8, TripsAreSound

(* The strategies for travel plans are sound.                              *)
LEMMA TravelStrategiesAreSound ==
    ASSUME NEW p, p.type = "travel_planning", IsTravelData(p), NEW st, Chosen(p, st)
    PROVE  AreSound(p, Answers(p, st))
PROOF
  <1>1. st \in {"knapsack_dp", "greedy", "brute_force"}
    BY DEF Chosen, Registered, Preferred, Range
  <1>2. Answers(p, st) \in {KnapsackTravel(p), GreedyTravel(p), BruteForceTravel(p)}
    BY <1>1 DEF Answers
  <1> QED
    BY <1>2, KnapsackTravelIsSound, GreedyTravelIsSound, BruteForceTravelIsSound

-----------------------------------------------------------------------------
(* Deliveries.                                                             *)

(* The tables of the roads have weights, or None.                          *)
LEMMA RoadsAreWeights ==
    ASSUME NEW p, IsLogisticsData(p)
    PROVE  \A a, b \in Nodes(p) : RoadDistances(p)[<<a, b>>] \in Nat \cup {None}
PROOF
  <1> DEFINE n == p.nodes
             arcs == Roads(p)
             dist == RoadDistances(p)
  <1>1. n \in Nat /\ Nodes(p) = 1..n
    BY LogisticsTypes
  <1>2. \A arc \in arcs : arc.weight \in Nat
    BY LogisticsTypes, AllArcsAre DEF Roads, IsArc, ArcOf
  <1>3. dist = FloydWarshall(n, arcs)
    BY DEF RoadDistances
  <1> HIDE DEF n, arcs, dist
  <1>4. dist \in Tables(n)
    BY <1>1, <1>2, <1>3, ResultUnderbids DEF Tables
  <1> QED
    BY <1>1, <1>4 DEF Tables, dist

(* The nodes that a vehicle's tour passes through.                         *)
StopNodes(p, stops) ==
    LET add(nodes, d) == LET n == p.deliveries[d].node
                         IN  IF n \in Range(nodes) \cup {p.depot} THEN nodes ELSE Append(nodes, n)
    IN  FoldLeft(add, <<>>, stops)

(* They are nodes.                                                         *)
LEMMA StopNodesAre ==
    ASSUME NEW p, IsLogisticsData(p), NEW stops \in Seq(Deliveries(p))
    PROVE  StopNodes(p, stops) \in Seq(Nodes(p))
PROOF
  <1> DEFINE n == Len(stops)
             N == Nodes(p)
             X == Seq(N)
             base == <<>>
             With(nodes, d) == IF p.deliveries[d].node \in Range(nodes) \cup {p.depot} THEN nodes
                               ELSE Append(nodes, p.deliveries[d].node)
             Unfold(it) == [T \in SUBSET DOMAIN stops |-> IF T = {} THEN base ELSE With(it[T \ {Max(T)}], stops[Max(T)])]
             it == CHOOSE f : f = Unfold(f)
             next == [k \in 1..n |-> [x \in X |-> With(x, stops[k])]]
  <1>1. StopNodes(p, stops) = it[DOMAIN stops]
    BY DEF StopNodes, FoldLeft, MapThenFoldSet
  <1>2. DOMAIN stops = 1..n /\ n \in Nat /\ \A k \in 1..n : stops[k] \in Deliveries(p)
    OBVIOUS
  <1>3. base \in X
    OBVIOUS
  <1>4. ASSUME NEW x \in X, NEW k \in 1..n PROVE With(x, stops[k]) \in X
    <2>1. p.deliveries[stops[k]].node \in N
      BY <1>2, LogisticsTypes
    <2>2. \A y \in N : Append(x, y) \in X
      OBVIOUS
    <2> QED
      BY <2>1, <2>2
  <1> HIDE DEF With, X, base, n
  <1>5. next \in [1..n -> [X -> X]]
    BY <1>4
  <1>6. PICK fold \in [SUBSET (1..n) -> X] : IsFold(fold, n, base, next)
    <2> HIDE DEF next
    <2> QED
      BY <1>2, <1>3, <1>5, FoldExists
  <1>7. fold = Unfold(fold)
    <2>1. ASSUME NEW T \in SUBSET (1..n), T # {}
          PROVE  next[Max(T)][fold[T \ {Max(T)}]] = With(fold[T \ {Max(T)}], stops[Max(T)])
      <3>1. Max(T) \in 1..n
        BY <1>2, <2>1, MaxIsIn
      <3>2. fold[T \ {Max(T)}] \in X
        BY <1>6
      <3> QED
        BY <3>1, <3>2
    <2> HIDE DEF next
    <2> QED
      BY <1>2, <1>6, <2>1 DEF IsFold
  <1>8. it = Unfold(it)
    <2> HIDE DEF Unfold
    <2> QED
      BY <1>7
  <1> HIDE DEF it
  <1>9. FoldsOver(it, n, X, base, next)
    <2>1. it[{}] = base
      BY <1>8
    <2>2. ASSUME NEW T \in SUBSET (1..n), T # {}, it[T \ {Max(T)}] \in X
          PROVE  it[T] = next[Max(T)][it[T \ {Max(T)}]]
      <3>1. it[T] = With(it[T \ {Max(T)}], stops[Max(T)])
        BY <1>2, <1>8, <2>2
      <3>2. Max(T) \in 1..n
        BY <1>2, <2>2, MaxIsIn
      <3> QED
        BY <2>2, <3>1, <3>2
    <2> QED
      BY <2>1, <2>2 DEF FoldsOver
  <1>10. \A k \in 0..n : it[1..k] \in X
    <2> HIDE DEF next, Unfold
    <2> QED
      BY <1>2, <1>3, <1>5, <1>9, FoldAlong
  <1>11. n \in 0..n
    BY <1>2
  <1> QED
    BY <1>1, <1>2, <1>10, <1>11 DEF X

(* What a vehicle drives for some deliveries: none if it cannot, and       *)
(* otherwise some of them in an order.                                     *)
IsDriven(p, route) ==
    /\ route = [stops |-> route.stops, distance |-> route.distance]
    /\ route.stops \in Seq(Deliveries(p)) /\ route.distance \in Nat

(* That is what route_for_vehicle finds, or None.                          *)
LEMMA RouteForVehicleIs ==
    ASSUME NEW p, IsLogisticsData(p), NEW stops \in Seq(Deliveries(p))
    PROVE  \/ RouteForVehicle(p, stops, RoadDistances(p)) = None
           \/ IsDriven(p, RouteForVehicle(p, stops, RoadDistances(p)))
PROOF
  <1> DEFINE N == Nodes(p)
             D == Deliveries(p)
             dist == RoadDistances(p)
             nodes == StopNodes(p, stops)
             at(n) == Picked(stops, {i \in DOMAIN stops : p.deliveries[stops[i]].node = n})
             tour == TourFrom(p.depot, nodes, dist)
             flat == [i \in 1..(Len(tour) - 1) |-> at(tour[i + 1])]
             found == [stops |-> FlattenSeq(flat), distance |-> RouteDistance(p, Tail(tour), dist)]
             here == [stops |-> <<>>, distance |-> 0]
             route == RouteForVehicle(p, stops, dist)
  <1>1. route = IF stops = <<>> THEN here ELSE IF tour = None THEN None ELSE found
    BY DEF RouteForVehicle, StopNodes
  <1>2. nodes \in Seq(N) /\ p.depot \in N /\ \A a, b \in N : dist[<<a, b>>] \in Nat \cup {None}
    BY StopNodesAre, RoadsAreWeights, LogisticsTypes
  <1>3. tour = None \/ IsTour(tour, N, p.depot, nodes, dist)
    <2> HIDE DEF N, nodes, dist
    <2> QED
      BY <1>2, TourIs
  <1>4. \A n : at(n) \in Seq(D)
    <2> SUFFICES ASSUME NEW n PROVE at(n) \in Seq(D)
      OBVIOUS
    <2> DEFINE K == {i \in DOMAIN stops : p.deliveries[stops[i]].node = n}
    <2>1. K \in SUBSET DOMAIN stops
      OBVIOUS
    <2> HIDE DEF K, D
    <2>2. Picked(stops, K) \in Seq(D)
      BY <2>1, PickedIs DEF D
    <2> QED
      BY <2>2 DEF K
  <1> HIDE DEF at, nodes, dist
  <1>5. CASE stops = <<>>
    <2>1. here = [stops |-> here.stops, distance |-> here.distance] /\ here.stops \in Seq(D) /\ here.distance \in Nat
      OBVIOUS
    <2> HIDE DEF here, route
    <2>2. IsDriven(p, here)
      BY <2>1 DEF IsDriven
    <2>3. route = here
      BY <1>1, <1>5
    <2> QED
      BY <2>2, <2>3 DEF route, dist
  <1>6. CASE stops # <<>> /\ tour = None
    BY <1>1, <1>6 DEF dist
  <1>7. CASE stops # <<>> /\ tour # None
    <2> HIDE DEF tour
    <2>1. tour \in Seq(N) /\ Len(tour) = Len(nodes) + 1 /\ tour[1] = p.depot /\ PathTotal(Append(tour, p.depot), dist) # None
      BY <1>3, <1>7 DEF IsTour
    <2> HIDE DEF N
    <2>2. flat \in Seq(Seq(D))
      <3> DEFINE Y == Seq(D)
                 c == Len(tour) - 1
      <3>1. c \in Nat
        BY <1>2, <2>1
      <3>2. flat \in [1..c -> Y]
        BY <1>4
      <3> HIDE DEF Y, c, flat
      <3>3. flat \in Seq(Y)
        BY <3>1, <3>2
      <3> QED
        BY <3>3 DEF Y
    <2>3. FlattenSeq(flat) \in Seq(D)
      <3> HIDE DEF flat, D
      <3> QED
        BY <2>2, Flattened
    <2>4. RouteDistance(p, Tail(tour), dist) \in Nat
      <3> DEFINE rest == Tail(tour)
      <3>1. tour # <<>> /\ rest \in Seq(N) /\ tour = <<p.depot>> \o rest
        <4>1. \A t \in Seq(N) : t # <<>> => Tail(t) \in Seq(N) /\ t = <<t[1]>> \o Tail(t)
          OBVIOUS
        <4>2. tour # <<>>
          BY <1>2, <2>1
        <4> QED
          BY <2>1, <4>1, <4>2
      <3>2. RouteDistance(p, rest, dist) = IF rest = <<>> THEN 0 ELSE PathTotal(<<p.depot>> \o rest \o <<p.depot>>, dist)
        BY DEF RouteDistance
      <3> HIDE DEF rest
      <3>3. Append(tour, p.depot) = tour \o <<p.depot>>
        BY <1>2, <2>1
      <3>4. PathTotal(Append(tour, p.depot), dist) \in Nat
        <4> DEFINE w == Append(tour, p.depot)
        <4>1. w \in Seq(N) /\ w # <<>>
          BY <1>2, <2>1
        <4>2. PathTotal(w, dist) # None
          BY <2>1
        <4> HIDE DEF w
        <4>3. PathTotal(w, dist) \in Nat \cup {None}
          BY <1>2, <4>1, WayAlong
        <4> QED
          BY <4>2, <4>3 DEF w
      <3> DEFINE w == Append(tour, p.depot)
                 there == <<p.depot>> \o rest \o <<p.depot>>
                 d == RouteDistance(p, rest, dist)
      <3>5. there = w
        BY <3>1, <3>3
      <3>6. PathTotal(w, dist) \in Nat /\ d = IF rest = <<>> THEN 0 ELSE PathTotal(there, dist)
        BY <3>2, <3>4
      <3> HIDE DEF w, there, d
      <3>7. d \in Nat
        <4> DEFINE t == PathTotal(w, dist)
        <4>1. t \in Nat /\ d = IF rest = <<>> THEN 0 ELSE t
          BY <3>5, <3>6
        <4> HIDE DEF t
        <4> QED
          BY <4>1
      <3> QED
        BY <3>7 DEF d, rest
    <2> DEFINE a == FlattenSeq(flat)
               b == RouteDistance(p, Tail(tour), dist)
    <2>5. route = [stops |-> a, distance |-> b]
      BY <1>1, <1>7
    <2>6. a \in Seq(D) /\ b \in Nat
      BY <2>3, <2>4
    <2> HIDE DEF a, b, route
    <2>7. route = [stops |-> route.stops, distance |-> route.distance] /\ route.stops = a /\ route.distance = b
      BY <2>5
    <2>8. IsDriven(p, route)
      BY <2>6, <2>7 DEF IsDriven
    <2> QED
      BY <2>8 DEF route, dist
  <1> QED
    BY <1>5, <1>6, <1>7

(* What is answered for a load is the routes of the vehicles it uses, with *)
(* the figures they have, or that there are none.                          *)
LEMMA LogisticsAnswerIsSound ==
    ASSUME NEW p, p.type = "logistics_planning", IsLogisticsData(p), NEW load \in Loads(p)
    PROVE  IsSound(p, LogisticsAnswer(p, load, RoadDistances(p)))
PROOF
  <1> DEFINE dist == RoadDistances(p)
             V == Vehicles(p)
             D == Deliveries(p)
             U == {v \in V : load[v] # <<>>}
             used == Arranged(U, <)
             n == Cardinality(U)
             found(i) == RouteForVehicle(p, load[used[i]], dist)
             routes == [i \in DOMAIN used |-> IF found(i) = None THEN None
                                              ELSE [vehicle |-> used[i], stops |-> found(i).stops,
                                                    distance |-> found(i).distance]]
             driven == [i \in DOMAIN routes |-> routes[i].distance]
             total == SumFunction(driven)
             a == [routes |-> routes, total |-> total]
             figures == [total_distance |-> total, vehicles_used |-> Len(routes)]
             s == LogisticsAnswer(p, load, dist)
             R == [vehicle : Nat, stops : Seq(Nat), distance : Int]
  <1>1. s = IF None \in Range(routes) THEN Infeasible({}) ELSE Answer(a, figures)
    BY DEF LogisticsAnswer
  <1>2. V = 1..Len(p.vehicles) /\ Len(p.vehicles) \in Nat /\ D \subseteq Nat
    BY LogisticsTypes
  <1>3. used \in Seq(V) /\ DOMAIN used = 1..n /\ n \in Nat
    <2>1. IsFiniteSet(V)
      BY <1>2, FS_Interval
    <2>2. U \subseteq V /\ U \subseteq Int
      BY <1>2
    <2> HIDE DEF U, V
    <2>3. IsFiniteSet(U) /\ n \in Nat
      BY <2>1, <2>2, FS_Subset, FS_CardinalityType
    <2>4. Lists(used, U)
      BY <2>2, <2>3, NumbersRanked
    <2> QED
      BY <2>2, <2>3, <2>4, ListIsSequence
  <1> HIDE DEF used, n, s
  <1>4. \A i \in 1..n : used[i] \in V /\ load[used[i]] \in Seq(D)
    BY <1>3 DEF Loads
  <1>5. \A i \in 1..n : found(i) = None \/ IsDriven(p, found(i))
    BY <1>4, RouteForVehicleIs
  <1> HIDE DEF found, dist
  <1>6. CASE None \in Range(routes)
    <2>1. s.status = "infeasible"
      BY <1>1, <1>6 DEF Infeasible
    <2> QED
      BY <2>1 DEF IsSound, s, dist
  <1>7. CASE None \notin Range(routes)
    <2>1. \A i \in 1..n : found(i) # None
      <3> SUFFICES ASSUME NEW i \in 1..n, found(i) = None PROVE FALSE
        OBVIOUS
      <3>1. routes[i] = None /\ i \in DOMAIN routes
        BY <1>3
      <3> QED
        BY <1>7, <3>1 DEF Range
    <2>2. \A i \in 1..n : /\ routes[i] = [vehicle |-> used[i], stops |-> found(i).stops, distance |-> found(i).distance]
                          /\ used[i] \in Nat /\ found(i).stops \in Seq(Nat) /\ found(i).distance \in Int
      <3> SUFFICES ASSUME NEW i \in 1..n
                   PROVE  /\ routes[i] = [vehicle |-> used[i], stops |-> found(i).stops, distance |-> found(i).distance]
                          /\ used[i] \in Nat /\ found(i).stops \in Seq(Nat) /\ found(i).distance \in Int
        OBVIOUS
      <3>1. IsDriven(p, found(i)) /\ found(i) # None /\ used[i] \in V
        BY <1>4, <1>5, <2>1
      <3>2. found(i).stops \in Seq(D) /\ found(i).distance \in Nat
        BY <3>1 DEF IsDriven
      <3>3. \A t \in Seq(D) : t \in Seq(Nat)
        BY <1>2
      <3>4. routes[i] = [vehicle |-> used[i], stops |-> found(i).stops, distance |-> found(i).distance]
        BY <1>3, <3>1
      <3> QED
        BY <1>2, <3>1, <3>2, <3>3, <3>4
    <2>3. \A i \in 1..n : routes[i] \in R /\ routes[i].distance \in Int
      <3> SUFFICES ASSUME NEW i \in 1..n PROVE routes[i] \in R /\ routes[i].distance \in Int
        OBVIOUS
      <3> DEFINE r == routes[i]
                 x == used[i]
                 y == found(i).stops
                 z == found(i).distance
      <3>1. r = [vehicle |-> x, stops |-> y, distance |-> z] /\ x \in Nat /\ y \in Seq(Nat) /\ z \in Int
        BY <2>2
      <3> HIDE DEF r, x, y, z
      <3>2. r \in R /\ r.distance \in Int
        BY <3>1
      <3> QED
        BY <3>2 DEF r
    <2>4. DOMAIN routes = 1..n /\ routes = [i \in 1..n |-> routes[i]]
      BY <1>3
    <2> HIDE DEF routes
    <2>5. routes \in Seq(R)
      <3>1. routes \in [1..n -> R]
        BY <2>3, <2>4
      <3> HIDE DEF R
      <3> QED
        BY <1>3, <3>1
    <2>6. total \in Int
      <3>1. total = SumFunctionOnSet(driven, DOMAIN driven)
        BY DEF SumFunction
      <3>2. DOMAIN driven = 1..n /\ \A i \in 1..n : driven[i] \in Int
        BY <2>3, <2>4
      <3>3. IsFiniteSet(1..n)
        BY <1>3, FS_Interval
      <3> HIDE DEF driven, total
      <3> QED
        BY <3>1, <3>2, <3>3, SumTakes
    <2> HIDE DEF total
    <2>7. IsLogisticsSolution(a) /\ a.total = total /\ a.routes = routes
      BY <2>5, <2>6 DEF IsLogisticsSolution
    <2> HIDE DEF a
    <2>8. DOMAIN s = Fields /\ s.status = "valid" /\ s.assignments = a /\ s.metrics = figures
      BY <1>1, <1>7 DEF Answer, Fields
    <2>9. Truth(p, a) = figures
      BY <2>7 DEF Truth
    <2>10. CheckedMetrics(p, s) = figures
      BY <2>8 DEF CheckedMetrics
    <2> HIDE DEF figures
    <2>11. Truthful(p, s)
      BY <2>8, <2>9, <2>10 DEF Truthful
    <2>12. IsSolutionFor(p.type, s.assignments)
      BY <2>7, <2>8 DEF IsSolutionFor
    <2> QED
      BY <2>8, <2>11, <2>12 DEF IsSound, s, dist
  <1> QED
    BY <1>6, <1>7

(* Every answer of some can be verified if all of them are sound.          *)
LEMMA DeliveriesAreSound ==
    ASSUME NEW p, p.type = "logistics_planning", NEW answers, answers # {}, \A s \in answers : IsSound(p, s)
    PROVE  AreSound(p, answers)
PROOF
  <1>1. \A s \in answers : ~Unverifiable(p, s)
    BY DEF Unverifiable
  <1> QED
    BY <1>1 DEF AreSound

(* No load, no answer.                                                     *)
LEMMA LoadAnswerIsSound ==
    ASSUME NEW p, p.type = "logistics_planning", IsLogisticsData(p), NEW load \in {None} \cup Loads(p)
    PROVE  IsSound(p, LoadAnswer(p, load, RoadDistances(p)))
PROOF
  <1>1. CASE load = None
    <2>1. LoadAnswer(p, load, RoadDistances(p)).status = "infeasible"
      BY <1>1 DEF LoadAnswer, Infeasible
    <2> QED
      BY <2>1 DEF IsSound
  <1>2. CASE load # None
    BY <1>2, LogisticsAnswerIsSound DEF LoadAnswer
  <1> QED
    BY <1>1, <1>2

(* A load stays one when something is put on it.                           *)
LEMMA PutIs ==
    ASSUME NEW p, NEW load \in Loads(p), NEW v \in Vehicles(p), NEW d \in Deliveries(p)
    PROVE  Put(load, v, d) \in Loads(p) /\ Append(load[v], d) \in Seq(Deliveries(p))
PROOF
  <1> DEFINE V == Vehicles(p)
             X == Seq(Deliveries(p))
             s == Append(load[v], d)
  <1>1. load \in [V -> X] /\ load[v] \in X
    BY DEF Loads
  <1>2. s \in X
    BY <1>1
  <1>3. Put(load, v, d) = [load EXCEPT ![v] = s]
    BY DEF Put
  <1> HIDE DEF s, X, V
  <1>4. Put(load, v, d) \in [V -> X]
    BY <1>1, <1>2, <1>3
  <1> QED
    BY <1>2, <1>4 DEF s, X, V, Loads

(* At first no vehicle has anything to deliver.                            *)
LEMMA UnloadedIs == ASSUME NEW p PROVE Unloaded(p) \in Loads(p)
PROOF
  BY DEF Unloaded, Loads

(* The greedy strategy puts a delivery on a vehicle that there is.         *)
LEMMA LeastIncreaseIs ==
    ASSUME NEW p, IsLogisticsData(p), NEW load \in Loads(p), NEW d \in Deliveries(p),
           NEW increase, DOMAIN increase \subseteq Vehicles(p)
    PROVE  LeastIncrease(load, d, increase) \in {None} \cup Loads(p)
PROOF
  <1> DEFINE least == {v \in DOMAIN increase : \A u \in DOMAIN increase : increase[v] <= increase[u]}
  <1>1. LeastIncrease(load, d, increase) = IF least = {} THEN None ELSE Put(load, Min(least), d)
    BY DEF LeastIncrease
  <1>2. least \subseteq Vehicles(p)
    OBVIOUS
  <1>3. IsFiniteSet(Vehicles(p)) /\ Vehicles(p) \subseteq Int
    BY LogisticsTypes, FS_Interval
  <1> HIDE DEF least
  <1>4. least # {} => Min(least) \in least
    BY <1>2, <1>3, FS_Subset, MinOfFinite
  <1> QED
    BY <1>1, <1>2, <1>4, PutIs

(* The greedy strategy delivers soundly.                                   *)
LEMMA GreedyLogisticsIsSound ==
    ASSUME NEW p, p.type = "logistics_planning", IsLogisticsData(p)
    PROVE  AreSound(p, GreedyLogistics(p))
PROOF
  <1> DEFINE dist == RoadDistances(p)
             n == Len(p.deliveries)
             D == Deliveries(p)
             X == {None} \cup Loads(p)
             base == Unloaded(p)
             seq == [d \in D |-> d]
             final == FoldLeft(LAMBDA load, d : PutGreedily(p, dist, load, d), Unloaded(p), seq)
             Unfold(it) == [T \in SUBSET DOMAIN seq |-> IF T = {} THEN base
                                                      ELSE PutGreedily(p, dist, it[T \ {Max(T)}], seq[Max(T)])]
             it == CHOOSE f : f = Unfold(f)
             next == [k \in 1..n |-> [x \in X |-> PutGreedily(p, dist, x, seq[k])]]
  <1>1. final = it[DOMAIN seq]
    BY DEF FoldLeft, MapThenFoldSet
  <1>2. D = 1..n /\ n \in Nat /\ DOMAIN seq = 1..n /\ \A k \in 1..n : seq[k] = k
    BY LogisticsTypes
  <1>3. base \in X
    BY UnloadedIs
  <1>4. ASSUME NEW x \in X, NEW k \in 1..n PROVE PutGreedily(p, dist, x, seq[k]) \in X
    <2>1. seq[k] \in D
      BY <1>2
    <2>2. CASE x = None
      BY <2>2 DEF PutGreedily
    <2>3. CASE x # None
      <3> DEFINE increase == [v \in {v \in Vehicles(p) : Possible(p, v, Append(x[v], seq[k]), dist)} |->
                                 RouteForVehicle(p, Append(x[v], seq[k]), dist).distance
                                 - RouteForVehicle(p, x[v], dist).distance]
      <3>1. PutGreedily(p, dist, x, seq[k]) = LeastIncrease(x, seq[k], increase)
        BY <2>3 DEF PutGreedily
      <3>2. DOMAIN increase \subseteq Vehicles(p) /\ x \in Loads(p)
        BY <2>3
      <3> HIDE DEF increase, seq
      <3> QED
        BY <2>1, <3>1, <3>2, LeastIncreaseIs
    <2> QED
      BY <2>2, <2>3
  <1> HIDE DEF X, base, n, seq, D, dist
  <1>5. next \in [1..n -> [X -> X]]
    BY <1>4
  <1>6. PICK fold \in [SUBSET (1..n) -> X] : IsFold(fold, n, base, next)
    <2> HIDE DEF next
    <2> QED
      BY <1>2, <1>3, <1>5, FoldExists
  <1>7. fold = Unfold(fold)
    <2>1. ASSUME NEW T \in SUBSET (1..n), T # {}
          PROVE  next[Max(T)][fold[T \ {Max(T)}]] = PutGreedily(p, dist, fold[T \ {Max(T)}], seq[Max(T)])
      <3>1. Max(T) \in 1..n
        BY <1>2, <2>1, MaxIsIn
      <3>2. fold[T \ {Max(T)}] \in X
        BY <1>6
      <3> QED
        BY <3>1, <3>2
    <2> HIDE DEF next
    <2> QED
      BY <1>2, <1>6, <2>1 DEF IsFold
  <1>8. it = Unfold(it)
    <2> HIDE DEF Unfold
    <2> QED
      BY <1>7
  <1> HIDE DEF it
  <1>9. FoldsOver(it, n, X, base, next)
    <2>1. it[{}] = base
      BY <1>8
    <2>2. ASSUME NEW T \in SUBSET (1..n), T # {}, it[T \ {Max(T)}] \in X
          PROVE  it[T] = next[Max(T)][it[T \ {Max(T)}]]
      <3>1. it[T] = PutGreedily(p, dist, it[T \ {Max(T)}], seq[Max(T)])
        BY <1>2, <1>8, <2>2
      <3>2. Max(T) \in 1..n
        BY <1>2, <2>2, MaxIsIn
      <3> QED
        BY <2>2, <3>1, <3>2
    <2> QED
      BY <2>1, <2>2 DEF FoldsOver
  <1>10. \A k \in 0..n : it[1..k] \in X
    <2> HIDE DEF next, Unfold
    <2> QED
      BY <1>2, <1>3, <1>5, <1>9, FoldAlong
  <1>11. final \in {None} \cup Loads(p)
    <2>1. n \in 0..n
      BY <1>2
    <2> HIDE DEF final
    <2> QED
      BY <1>1, <1>2, <1>10, <2>1 DEF X
  <1>12. GreedyLogistics(p) = {LoadAnswer(p, final, RoadDistances(p))}
    BY DEF GreedyLogistics, GreedyOver, dist, seq, D
  <1> HIDE DEF final
  <1> QED
    BY <1>11, <1>12, LoadAnswerIsSound, DeliveriesAreSound

(* The knapsack strategy loads every vehicle with deliveries that there    *)
(* are.                                                                    *)
Filled(p, load, v) ==
    LET vehicle == p.vehicles[v]
        light(d) == /\ Ceil(p.deliveries[d].weight) <= Floor(vehicle.weight)
                    /\ Ceil(p.deliveries[d].volume) <= Floor(vehicle.volume)
        item(d) == [a |-> Ceil(p.deliveries[d].weight), b |-> Ceil(p.deliveries[d].volume), value |-> 1]
        ids == Arranged({d \in Deliveries(p) \ UNION {Range(load[u]) : u \in Vehicles(p)} : light(d)}, <)
        most == {ids[i] : i \in Knapsack([i \in DOMAIN ids |-> item(ids[i])],
                                         Floor(vehicle.weight), Floor(vehicle.volume))}
    IN  [load EXCEPT ![v] = Arranged(most, <)]

(* A ranked set of deliveries is a sequence of deliveries.                 *)
LEMMA RankedDeliveries ==
    ASSUME NEW p, IsLogisticsData(p), NEW S \in SUBSET Deliveries(p)
    PROVE  Arranged(S, <) \in Seq(Deliveries(p)) /\ DOMAIN Arranged(S, <) = 1..Cardinality(S) /\ Cardinality(S) \in Nat
PROOF
  <1> DEFINE s == Arranged(S, <)
  <1>1. IsFiniteSet(S) /\ S \subseteq Int
    BY LogisticsTypes, FS_Subset
  <1>2. Lists(s, S)
    BY <1>1, NumbersRanked
  <1>3. Cardinality(S) \in Nat
    BY <1>1, FS_CardinalityType
  <1> HIDE DEF s
  <1>4. s \in Seq(Deliveries(p)) /\ DOMAIN s = 1..Cardinality(S)
    BY <1>1, <1>2, ListIsSequence
  <1> QED
    BY <1>3, <1>4 DEF s

(* What is filled is a load.                                               *)
LEMMA FilledIs ==
    ASSUME NEW p, IsLogisticsData(p), NEW load \in Loads(p), NEW v \in Vehicles(p)
    PROVE  Filled(p, load, v) \in Loads(p)
PROOF
  <1> DEFINE vehicle == p.vehicles[v]
             D == Deliveries(p)
             light(d) == /\ Ceil(p.deliveries[d].weight) <= Floor(vehicle.weight)
                         /\ Ceil(p.deliveries[d].volume) <= Floor(vehicle.volume)
             item(d) == [a |-> Ceil(p.deliveries[d].weight), b |-> Ceil(p.deliveries[d].volume), value |-> 1]
             S == {d \in D \ UNION {Range(load[u]) : u \in Vehicles(p)} : light(d)}
             ids == Arranged(S, <)
             items == [i \in DOMAIN ids |-> item(ids[i])]
             packed == Knapsack(items, Floor(vehicle.weight), Floor(vehicle.volume))
             most == {ids[i] : i \in packed}
             n == Cardinality(S)
             w == Arranged(most, <)
  <1>1. Filled(p, load, v) = [load EXCEPT ![v] = w]
    BY DEF Filled
  <1>2. S \in SUBSET D
    OBVIOUS
  <1>3. ids \in Seq(D) /\ DOMAIN ids = 1..n /\ n \in Nat
    <2> HIDE DEF S
    <2> QED
      BY <1>2, RankedDeliveries
  <1>4. Floor(vehicle.weight) \in Nat /\ Floor(vehicle.volume) \in Nat
    BY LogisticsTypes, WholeAmounts
  <1> HIDE DEF S, ids, n, vehicle
  <1>5. \A i \in 1..n : ids[i] \in D
    BY <1>3
  <1>6. packed \subseteq 1..n
    <2>1. DOMAIN items = 1..n
      BY <1>3
    <2>2. \A d \in D : Ceil(p.deliveries[d].weight) \in Nat /\ Ceil(p.deliveries[d].volume) \in Nat
      BY LogisticsTypes, WholeAmounts
    <2>3. \A i \in 1..n : items[i].a \in Nat /\ items[i].b \in Nat /\ items[i].value \in Int
      BY <1>3, <1>5, <2>2
    <2> HIDE DEF items
    <2> QED
      BY <1>3, <1>4, <2>1, <2>3, KnapsackTakesItems
  <1> HIDE DEF packed
  <1>7. most \in SUBSET D
    BY <1>5, <1>6
  <1> HIDE DEF most
  <1>8. w \in Seq(D)
    BY <1>7, RankedDeliveries
  <1> HIDE DEF w
  <1> DEFINE X == Seq(D)
             V == Vehicles(p)
  <1>9. load \in [V -> X] /\ w \in X /\ v \in V
    BY <1>8 DEF Loads
  <1> HIDE DEF X, V
  <1>10. Filled(p, load, v) \in [V -> X]
    BY <1>1, <1>9
  <1> QED
    BY <1>10 DEF X, V, Loads

(* The knapsack strategy delivers soundly.                                 *)
LEMMA KnapsackLogisticsIsSound ==
    ASSUME NEW p, p.type = "logistics_planning", IsLogisticsData(p)
    PROVE  AreSound(p, KnapsackLogistics(p))
PROOF
  <1> DEFINE n == Len(p.vehicles)
             V == Vehicles(p)
             X == Loads(p)
             base == Unloaded(p)
             seq == [v \in V |-> v]
             fill(load, v) == Filled(p, load, v)
             loaded(load) == UNION {Range(load[v]) : v \in Vehicles(p)}
             answer(load) == IF Deliveries(p) # loaded(load) THEN Infeasible({})
                             ELSE LogisticsAnswer(p, load, RoadDistances(p))
             final == FoldLeft(fill, Unloaded(p), seq)
             Unfold(it) == [T \in SUBSET DOMAIN seq |-> IF T = {} THEN base
                                                      ELSE Filled(p, it[T \ {Max(T)}], seq[Max(T)])]
             it == CHOOSE f : f = Unfold(f)
             next == [k \in 1..n |-> [x \in X |-> Filled(p, x, seq[k])]]
  <1>1. final = it[DOMAIN seq]
    BY DEF FoldLeft, MapThenFoldSet
  <1>2. V = 1..n /\ n \in Nat /\ DOMAIN seq = 1..n /\ \A k \in 1..n : seq[k] = k
    BY LogisticsTypes
  <1>3. base \in X
    BY UnloadedIs
  <1>4. ASSUME NEW x \in X, NEW k \in 1..n PROVE Filled(p, x, seq[k]) \in X
    <2>1. seq[k] \in V
      BY <1>2
    <2> HIDE DEF seq
    <2> QED
      BY <2>1, FilledIs
  <1> HIDE DEF X, base, n, seq, V
  <1>5. next \in [1..n -> [X -> X]]
    BY <1>4
  <1>6. PICK fold \in [SUBSET (1..n) -> X] : IsFold(fold, n, base, next)
    <2> HIDE DEF next
    <2> QED
      BY <1>2, <1>3, <1>5, FoldExists
  <1>7. fold = Unfold(fold)
    <2>1. ASSUME NEW T \in SUBSET (1..n), T # {}
          PROVE  next[Max(T)][fold[T \ {Max(T)}]] = Filled(p, fold[T \ {Max(T)}], seq[Max(T)])
      <3>1. Max(T) \in 1..n
        BY <1>2, <2>1, MaxIsIn
      <3>2. fold[T \ {Max(T)}] \in X
        BY <1>6
      <3> QED
        BY <3>1, <3>2
    <2> HIDE DEF next
    <2> QED
      BY <1>2, <1>6, <2>1 DEF IsFold
  <1>8. it = Unfold(it)
    <2> HIDE DEF Unfold
    <2> QED
      BY <1>7
  <1> HIDE DEF it
  <1>9. FoldsOver(it, n, X, base, next)
    <2>1. it[{}] = base
      BY <1>8
    <2>2. ASSUME NEW T \in SUBSET (1..n), T # {}, it[T \ {Max(T)}] \in X
          PROVE  it[T] = next[Max(T)][it[T \ {Max(T)}]]
      <3>1. it[T] = Filled(p, it[T \ {Max(T)}], seq[Max(T)])
        BY <1>2, <1>8, <2>2
      <3>2. Max(T) \in 1..n
        BY <1>2, <2>2, MaxIsIn
      <3> QED
        BY <2>2, <3>1, <3>2
    <2> QED
      BY <2>1, <2>2 DEF FoldsOver
  <1>10. \A k \in 0..n : it[1..k] \in X
    <2> HIDE DEF next, Unfold
    <2> QED
      BY <1>2, <1>3, <1>5, <1>9, FoldAlong
  <1>11. final \in Loads(p)
    <2>1. n \in 0..n
      BY <1>2
    <2> HIDE DEF final
    <2> QED
      BY <1>1, <1>2, <1>10, <2>1 DEF X
  <1>12. KnapsackLogistics(p) = {answer(final)}
    BY DEF KnapsackLogistics, Filled, seq, V
  <1>13. IsSound(p, answer(final))
    <2> HIDE DEF final, loaded
    <2>1. Infeasible({}).status = "infeasible"
      BY DEF Infeasible
    <2>2. IsSound(p, Infeasible({}))
      BY <2>1 DEF IsSound
    <2> QED
      BY <1>11, <2>2, LogisticsAnswerIsSound
  <1> HIDE DEF answer, final
  <1> QED
    BY <1>12, <1>13, DeliveriesAreSound

(* A vehicle that the search tries for a delivery, going on as `visit`     *)
(* does.                                                                   *)
Visits(p) == [here : PartialLoads(p), found : LoadsSearched(p)]

(* A vehicle that the search tries for a delivery, going on as `visit`     *)
(* does.                                                                   *)
Trial(p, dist, visit, here, d, found, v) ==
    LET trial == RouteForVehicle(p, Append(here.load[v], d), dist)
    IN  IF found.ops >= MaxSearch THEN [found EXCEPT !.truncated = TRUE]
        ELSE IF CapacityOk(p, v, Append(here.load[v], d)) /\ trial # None
        THEN visit[[here |-> PutOn(here, v, d, trial.distance), found |-> found]]
        ELSE found

(* What has been found stays so when the search is cut off.                *)
LEMMA TruncatedIs ==
    ASSUME NEW p, NEW found \in LoadsSearched(p)
    PROVE  [found EXCEPT !.truncated = TRUE] \in LoadsSearched(p)
PROOF
  <1> DEFINE A == {None} \cup Loads(p)
             B == {None} \cup Int
  <1>1. LoadsSearched(p) = [best : A, total : B, ops : Nat, truncated : BOOLEAN]
    BY DEF LoadsSearched
  <1> DEFINE t == TRUE
  <1>2. t \in BOOLEAN
    OBVIOUS
  <1> HIDE DEF A, B, t
  <1>3. [found EXCEPT !.truncated = t] \in LoadsSearched(p)
    BY <1>1, <1>2
  <1> QED
    BY <1>3 DEF t

(* Putting something on a vehicle leaves a load.                           *)
LEMMA PutOnIs ==
    ASSUME NEW p, NEW here \in PartialLoads(p), NEW v \in Vehicles(p), NEW d \in Deliveries(p),
           NEW distance \in Int
    PROVE  PutOn(here, v, d, distance) \in PartialLoads(p)
PROOF
  <1> DEFINE V == Vehicles(p)
             L == Loads(p)
             w == Put(here.load, v, d)
             ways == [here.distances EXCEPT ![v] = distance]
             sum == here.confirmed - here.distances[v] + distance
  <1>1. here.load \in L /\ here.distances \in [V -> Int] /\ here.confirmed \in Int
    BY DEF PartialLoads
  <1>2. w \in L
    BY <1>1, PutIs
  <1>3. ways \in [V -> Int] /\ sum \in Int
    BY <1>1
  <1>4. PutOn(here, v, d, distance) = [load |-> w, distances |-> ways, confirmed |-> sum]
    BY DEF PutOn
  <1>5. PartialLoads(p) = [load : L, distances : [V -> Int], confirmed : Int]
    BY DEF PartialLoads
  <1> HIDE DEF w, ways, sum, L, V
  <1> QED
    BY <1>2, <1>3, <1>4, <1>5

(* A trial finds a load, or none.                                          *)
LEMMA TrialIs ==
    ASSUME NEW p, IsLogisticsData(p), NEW visit \in [Visits(p) -> LoadsSearched(p)],
           NEW here \in PartialLoads(p), NEW d \in Deliveries(p), NEW found \in LoadsSearched(p),
           NEW v \in Vehicles(p)
    PROVE  Trial(p, RoadDistances(p), visit, here, d, found, v) \in LoadsSearched(p)
PROOF
  <1> DEFINE stops == Append(here.load[v], d)
             trial == RouteForVehicle(p, stops, RoadDistances(p))
             F == LoadsSearched(p)
             next == PutOn(here, v, d, trial.distance)
             at == [here |-> next, found |-> found]
  <1>1. here.load \in Loads(p)
    BY DEF PartialLoads
  <1>2. stops \in Seq(Deliveries(p))
    BY <1>1, PutIs
  <1>3. trial = None \/ IsDriven(p, trial)
    BY <1>2, RouteForVehicleIs
  <1>4. Trial(p, RoadDistances(p), visit, here, d, found, v) =
            IF found.ops >= MaxSearch THEN [found EXCEPT !.truncated = TRUE]
            ELSE IF CapacityOk(p, v, stops) /\ trial # None THEN visit[at] ELSE found
    BY DEF Trial
  <1> HIDE DEF trial, stops
  <1>5. ASSUME trial # None PROVE visit[at] \in F
    <2>1. trial.distance \in Int
      BY <1>3, <1>5 DEF IsDriven
    <2>2. next \in PartialLoads(p)
      BY <2>1, PutOnIs
    <2> HIDE DEF next
    <2>3. at \in Visits(p)
      BY <2>2 DEF Visits
    <2> HIDE DEF at
    <2> QED
      BY <2>3
  <1>6. [found EXCEPT !.truncated = TRUE] \in F
    BY TruncatedIs
  <1> HIDE DEF F, at
  <1>7. found \in F
    BY DEF F
  <1> QED
    BY <1>4, <1>5, <1>6, <1>7 DEF F

(* All of the vehicles, one after the other.                               *)
AllTried(p, dist, visit, here, d, found) ==
    FoldLeft(LAMBDA so, v : Trial(p, dist, visit, here, d, so, v), found, [v \in Vehicles(p) |-> v])

(* So do all of them.                                                      *)
LEMMA AllTriedIs ==
    ASSUME NEW p, IsLogisticsData(p), NEW visit \in [Visits(p) -> LoadsSearched(p)],
           NEW here \in PartialLoads(p), NEW d \in Deliveries(p), NEW found \in LoadsSearched(p)
    PROVE  AllTried(p, RoadDistances(p), visit, here, d, found) \in LoadsSearched(p)
PROOF
  <1> DEFINE dist == RoadDistances(p)
             n == Len(p.vehicles)
             V == Vehicles(p)
             X == LoadsSearched(p)
             base == found
             seq == [v \in V |-> v]
             final == AllTried(p, dist, visit, here, d, found)
             Unfold(it) == [T \in SUBSET DOMAIN seq |->
                             IF T = {} THEN base
                             ELSE Trial(p, dist, visit, here, d, it[T \ {Max(T)}], seq[Max(T)])]
             it == CHOOSE f : f = Unfold(f)
             next == [k \in 1..n |-> [x \in X |-> Trial(p, dist, visit, here, d, x, seq[k])]]
  <1>1. final = it[DOMAIN seq]
    BY DEF AllTried, FoldLeft, MapThenFoldSet
  <1>2. V = 1..n /\ n \in Nat /\ DOMAIN seq = 1..n /\ \A k \in 1..n : seq[k] = k
    BY LogisticsTypes
  <1>3. base \in X
    OBVIOUS
  <1>4. ASSUME NEW x \in X, NEW k \in 1..n PROVE Trial(p, dist, visit, here, d, x, seq[k]) \in X
    <2>1. seq[k] \in V
      BY <1>2
    <2> HIDE DEF seq
    <2> QED
      BY <2>1, TrialIs
  <1> HIDE DEF X, base, n, seq, V, dist
  <1>5. next \in [1..n -> [X -> X]]
    BY <1>4
  <1>6. PICK fold \in [SUBSET (1..n) -> X] : IsFold(fold, n, base, next)
    <2> HIDE DEF next
    <2> QED
      BY <1>2, <1>3, <1>5, FoldExists
  <1>7. fold = Unfold(fold)
    <2>1. ASSUME NEW T \in SUBSET (1..n), T # {}
          PROVE  next[Max(T)][fold[T \ {Max(T)}]] = Trial(p, dist, visit, here, d, fold[T \ {Max(T)}], seq[Max(T)])
      <3>1. Max(T) \in 1..n
        BY <1>2, <2>1, MaxIsIn
      <3>2. fold[T \ {Max(T)}] \in X
        BY <1>6
      <3> QED
        BY <3>1, <3>2
    <2> HIDE DEF next
    <2> QED
      BY <1>2, <1>6, <2>1 DEF IsFold
  <1>8. it = Unfold(it)
    <2> HIDE DEF Unfold
    <2> QED
      BY <1>7
  <1> HIDE DEF it
  <1>9. FoldsOver(it, n, X, base, next)
    <2>1. it[{}] = base
      BY <1>8
    <2>2. ASSUME NEW T \in SUBSET (1..n), T # {}, it[T \ {Max(T)}] \in X
          PROVE  it[T] = next[Max(T)][it[T \ {Max(T)}]]
      <3>1. it[T] = Trial(p, dist, visit, here, d, it[T \ {Max(T)}], seq[Max(T)])
        BY <1>2, <1>8, <2>2
      <3>2. Max(T) \in 1..n
        BY <1>2, <2>2, MaxIsIn
      <3> QED
        BY <2>2, <3>1, <3>2
    <2> QED
      BY <2>1, <2>2 DEF FoldsOver
  <1>10. \A k \in 0..n : it[1..k] \in X
    <2> HIDE DEF next, Unfold
    <2> QED
      BY <1>2, <1>3, <1>5, <1>9, FoldAlong
  <1>11. n \in 0..n
    BY <1>2
  <1> HIDE DEF final
  <1> QED
    BY <1>1, <1>2, <1>10, <1>11 DEF X, final, dist

(* A visit of the search, whose visits with less left are these.           *)
SearchVisit(p, dist, visit, left, at) ==
    LET more == [at.found EXCEPT !.ops = @ + 1]
    IN  IF at.found.ops >= MaxSearch THEN [at.found EXCEPT !.truncated = TRUE]
        ELSE IF at.found.best # None /\ at.here.confirmed >= at.found.total THEN more
        ELSE IF left = 0 THEN [more EXCEPT !.best = at.here.load, !.total = at.here.confirmed]
        ELSE AllTried(p, dist, visit, at.here, Len(p.deliveries) - left + 1, more)

(* So does a visit.                                                        *)
LEMMA SearchVisitIs ==
    ASSUME NEW p, IsLogisticsData(p), NEW left \in 0..Len(p.deliveries), NEW at \in Visits(p),
           NEW visit, left # 0 => visit \in [Visits(p) -> LoadsSearched(p)]
    PROVE  SearchVisit(p, RoadDistances(p), visit, left, at) \in LoadsSearched(p)
PROOF
  <1> DEFINE F == LoadsSearched(p)
             dist == RoadDistances(p)
             found == at.found
             here == at.here
             more == [found EXCEPT !.ops = @ + 1]
             full == [more EXCEPT !.best = here.load, !.total = here.confirmed]
             d == Len(p.deliveries) - left + 1
  <1>1. found \in F /\ here \in PartialLoads(p)
    BY DEF Visits
  <1>2. SearchVisit(p, dist, visit, left, at) =
            IF found.ops >= MaxSearch THEN [found EXCEPT !.truncated = TRUE]
            ELSE IF found.best # None /\ here.confirmed >= found.total THEN more
            ELSE IF left = 0 THEN full
            ELSE AllTried(p, dist, visit, here, d, more)
    BY DEF SearchVisit
  <1>3. here.load \in Loads(p) /\ here.confirmed \in Int
    BY <1>1 DEF PartialLoads
  <1> HIDE DEF found, here
  <1>4. more \in F /\ full \in F
    <2> DEFINE A == {None} \cup Loads(p)
               B == {None} \cup Int
               x == here.load
               y == here.confirmed
    <2>1. F = [best : A, total : B, ops : Nat, truncated : BOOLEAN]
      BY DEF LoadsSearched
    <2>2. x \in A /\ y \in B
      BY <1>3
    <2> HIDE DEF A, B, x, y, F
    <2>3. more \in F
      BY <1>1, <2>1
    <2>4. full = [more EXCEPT !.best = x, !.total = y]
      BY DEF x, y
    <2> HIDE DEF more, full
    <2> QED
      BY <2>1, <2>2, <2>3, <2>4
  <1>5. [found EXCEPT !.truncated = TRUE] \in F
    BY <1>1, TruncatedIs
  <1>6. ASSUME left # 0 PROVE AllTried(p, dist, visit, here, d, more) \in F
    <2>1. d \in Deliveries(p)
      <3>1. Deliveries(p) = 1..Len(p.deliveries) /\ Len(p.deliveries) \in Nat
        BY LogisticsTypes
      <3> QED
        BY <1>6, <3>1
    <2> HIDE DEF more, d
    <2> QED
      BY <1>1, <1>4, <1>6, <2>1, AllTriedIs
  <1> HIDE DEF F, dist, more, full, d
  <1>7. SearchVisit(p, dist, visit, left, at) \in F
    BY <1>2, <1>4, <1>5, <1>6
  <1> QED
    BY <1>7 DEF F, dist

(* What the search finds is a load, or none.                               *)
LEMMA LoadSearchIs ==
    ASSUME NEW p, IsLogisticsData(p)
    PROVE  LoadSearch(p, RoadDistances(p)) \in LoadsSearched(p)
PROOF
  <1> DEFINE n == Len(p.deliveries)
             dist == RoadDistances(p)
             Y == Visits(p)
             F == LoadsSearched(p)
             X == [Y -> F]
             Unfold(f) == [left \in 0..n |-> [at \in Y |-> SearchVisit(p, dist, f[left - 1], left, at)]]
             explore == CHOOSE f : f = Unfold(f)
             here == [load |-> Unloaded(p), distances |-> [v \in Vehicles(p) |-> 0], confirmed |-> 0]
             start == [here |-> here, found |-> [best |-> None, total |-> None, ops |-> 0, truncated |-> FALSE]]
             first == [at \in Y |-> SearchVisit(p, dist, None, 0, at)]
             after == [k \in 1..n |-> [x \in X |-> [at \in Y |-> SearchVisit(p, dist, x, k, at)]]]
  <1>1. LoadSearch(p, dist) = explore[n][start]
    BY DEF LoadSearch, SearchVisit, AllTried, Trial, Visits
  <1>2. n \in Nat
    BY LogisticsTypes
  <1>3. start \in Y
    <2> DEFINE L == Loads(p)
               A == {None} \cup L
               B == {None} \cup Int
               V == Vehicles(p)
               u == Unloaded(p)
               zero == [v \in V |-> 0]
               no == FALSE
               nothing == [best |-> None, total |-> None, ops |-> 0, truncated |-> no]
    <2>1. u \in L /\ zero \in [V -> Int] /\ no \in BOOLEAN /\ None \in A /\ None \in B
      BY UnloadedIs
    <2>2. PartialLoads(p) = [load : L, distances : [V -> Int], confirmed : Int]
      BY DEF PartialLoads
    <2>3. F = [best : A, total : B, ops : Nat, truncated : BOOLEAN]
      BY DEF LoadsSearched
    <2>4. here = [load |-> u, distances |-> zero, confirmed |-> 0]
      OBVIOUS
    <2> HIDE DEF L, A, B, V, u, zero, no
    <2>5. here \in PartialLoads(p)
      BY <2>1, <2>2, <2>4
    <2>6. nothing \in F
      BY <2>1, <2>3
    <2>7. start = [here |-> here, found |-> nothing]
      BY DEF no
    <2> HIDE DEF nothing, here, start
    <2> QED
      BY <2>5, <2>6, <2>7 DEF Visits
  <1> HIDE DEF start
  <1>4. \A visit : first = [at \in Y |-> SearchVisit(p, dist, visit, 0, at)]
    BY DEF SearchVisit
  <1>5. first \in X
    <2>1. 0 \in 0..n
      BY <1>2
    <2>2. \A at \in Y : SearchVisit(p, dist, None, 0, at) \in F
      BY <2>1, SearchVisitIs
    <2> QED
      BY <2>2
  <1>6. ASSUME NEW k \in 1..n, NEW x \in X PROVE [at \in Y |-> SearchVisit(p, dist, x, k, at)] \in X
    <2>1. k \in 0..n
      BY <1>2
    <2>2. \A at \in Y : SearchVisit(p, dist, x, k, at) \in F
      BY <2>1, SearchVisitIs
    <2> QED
      BY <2>2
  <1> HIDE DEF n, dist, first, X, Y
  <1>7. after \in [1..n -> [X -> X]]
    BY <1>6
  <1>8. PICK g \in [0..n -> X] : Follows(g, n, first, after)
    <2> HIDE DEF after
    <2> QED
      BY <1>2, <1>5, <1>7, RecursionExists
  <1>9. ASSUME NEW k \in 1..n, NEW x \in X PROVE after[k][x] = [at \in Y |-> SearchVisit(p, dist, x, k, at)]
    OBVIOUS
  <1> HIDE DEF after
  <1>10. g = Unfold(g)
    <2>1. g = [left \in 0..n |-> g[left]]
      BY <1>8
    <2>2. ASSUME NEW left \in 0..n PROVE g[left] = [at \in Y |-> SearchVisit(p, dist, g[left - 1], left, at)]
      <3>1. CASE left = 0
        <4> DEFINE v == g[left - 1]
        <4>1. g[left] = first
          BY <1>8, <3>1 DEF Follows
        <4> HIDE DEF v
        <4>2. first = [at \in Y |-> SearchVisit(p, dist, v, 0, at)]
          BY <1>4
        <4> QED
          BY <3>1, <4>1, <4>2 DEF v
      <3>2. CASE left # 0
        <4>1. left \in 1..n /\ left - 1 \in 0..n
          BY <1>2, <3>2
        <4>2. g[left] = after[left][g[left - 1]] /\ g[left - 1] \in X
          BY <1>8, <4>1 DEF Follows
        <4> QED
          BY <1>9, <4>1, <4>2
      <3> QED
        BY <3>1, <3>2
    <2> DEFINE h == Unfold(g)
    <2>3. h = [left \in 0..n |-> h[left]] /\ \A left \in 0..n : h[left] = g[left]
      BY <2>2
    <2> HIDE DEF h
    <2> QED
      BY <2>1, <2>3 DEF h
  <1>11. explore = Unfold(explore)
    <2> HIDE DEF Unfold
    <2> QED
      BY <1>10
  <1> HIDE DEF explore
  <1>12. \A left \in 0..n : explore[left] = [at \in Y |-> SearchVisit(p, dist, explore[left - 1], left, at)]
    BY <1>11
  <1> HIDE DEF Unfold
  <1> DEFINE Good == {k \in Nat : k <= n => explore[k] \in X}
  <1>13. 0 \in Good
    <2>1. 0 \in 0..n
      BY <1>2
    <2> DEFINE v == explore[0 - 1]
    <2>2. explore[0] = [at \in Y |-> SearchVisit(p, dist, v, 0, at)]
      BY <1>12, <2>1
    <2> HIDE DEF v
    <2>3. explore[0] = first
      BY <1>4, <2>2
    <2> QED
      BY <1>5, <2>3
  <1>14. ASSUME NEW k \in Nat, k \in Good PROVE k + 1 \in Good
    <2> SUFFICES ASSUME k + 1 <= n PROVE explore[k + 1] \in X
      OBVIOUS
    <2>1. explore[k] \in X /\ k + 1 \in 1..n /\ k + 1 \in 0..n /\ (k + 1) - 1 = k
      BY <1>2, <1>14
    <2>2. explore[k + 1] = [at \in Y |-> SearchVisit(p, dist, explore[k], k + 1, at)]
      BY <1>12, <2>1
    <2> QED
      BY <1>6, <2>1, <2>2
  <1>15. explore[n] \in X
    <2> HIDE DEF Good
    <2>1. Nat \subseteq Good
      BY <1>13, <1>14, AllNaturals
    <2> QED
      BY <1>2, <2>1 DEF Good
  <1> QED
    BY <1>1, <1>3, <1>15 DEF X, F, dist

(* That the search was cut off changes no other figure.                    *)
LEMMA MarkedIsSound ==
    ASSUME NEW p, p.type = "logistics_planning", NEW s, IsSound(p, s), NEW more, DOMAIN more = {"_truncated"}
    PROVE  IsSound(p, [s EXCEPT !.metrics = Updated(@, more)])
PROOF
  <1> DEFINE m == Updated(s.metrics, more)
             t == [s EXCEPT !.metrics = m]
  <1>1. DOMAIN t = DOMAIN s /\ t.status = s.status
    OBVIOUS
  <1>2. CASE s.status = "infeasible"
    <2>1. t.status = "infeasible"
      BY <1>1, <1>2
    <2> HIDE DEF t, m
    <2>2. IsSound(p, t)
      BY <2>1 DEF IsSound
    <2> QED
      BY <2>2 DEF t, m
  <1>3. CASE s.status # "infeasible"
    <2>1. DOMAIN s = Fields /\ s.status = "valid" /\ IsSolutionFor(p.type, s.assignments) /\ Truthful(p, s)
      BY <1>3 DEF IsSound
    <2>2. t.metrics = m /\ t.assignments = s.assignments
      BY <2>1 DEF Fields
    <2>3. CheckedMetrics(p, s) = s.metrics /\ CheckedMetrics(p, t) = t.metrics
      BY DEF CheckedMetrics
    <2> DEFINE truth == Truth(p, s.assignments)
    <2>4. DOMAIN truth = {"total_distance", "vehicles_used"}
      BY DEF Truth
    <2>5. \A f \in DOMAIN truth : f \in DOMAIN s.metrics /\ s.metrics[f] = truth[f]
      BY <2>1, <2>3 DEF Truthful
    <2> HIDE DEF truth
    <2>6. \A f \in DOMAIN truth : f \in DOMAIN m /\ m[f] = truth[f]
      BY <2>4, <2>5 DEF Updated
    <2> HIDE DEF t, m
    <2>7. Truthful(p, t)
      BY <2>2, <2>3, <2>6 DEF Truthful, truth
    <2>8. IsSound(p, t)
      BY <1>1, <2>1, <2>2, <2>7 DEF IsSound
    <2> QED
      BY <2>8 DEF t, m
  <1> QED
    BY <1>2, <1>3

(* The branch and bound strategy delivers soundly.                         *)
LEMMA BranchAndBoundLogisticsIsSound ==
    ASSUME NEW p, p.type = "logistics_planning", IsLogisticsData(p)
    PROVE  AreSound(p, BranchAndBoundLogistics(p))
PROOF
  <1> DEFINE dist == RoadDistances(p)
             search == LoadSearch(p, dist)
             s == LoadAnswer(p, search.best, dist)
             more == [f \in {"_truncated"} |-> 1]
             marked == [s EXCEPT !.metrics = Updated(@, more)]
             best == BestLoadAnswer(p, search, dist)
  <1>1. search.best \in {None} \cup Loads(p)
    <2>1. search \in LoadsSearched(p)
      BY LoadSearchIs
    <2> HIDE DEF search
    <2> QED
      BY <2>1 DEF LoadsSearched
  <1>2. best = IF search.truncated /\ search.best # None THEN marked ELSE s
    BY DEF BestLoadAnswer
  <1>3. BranchAndBoundLogistics(p) = {best}
    BY DEF BranchAndBoundLogistics, BranchAndBoundOver
  <1>4. IsSound(p, s)
    <2> HIDE DEF search
    <2> QED
      BY <1>1, LoadAnswerIsSound
  <1>5. IsSound(p, marked)
    <2> HIDE DEF s
    <2>1. DOMAIN more = {"_truncated"}
      OBVIOUS
    <2> HIDE DEF more
    <2> QED
      BY <1>4, <2>1, MarkedIsSound
  <1> HIDE DEF s, marked, best
  <1>6. IsSound(p, best)
    BY <1>2, <1>4, <1>5
  <1> QED
    BY <1>3, <1>6, DeliveriesAreSound

(* A choice of a vehicle for every delivery is a load.                     *)
LEMMA LoadOfIs ==
    ASSUME NEW p, IsLogisticsData(p), NEW c
    PROVE  /\ LoadOf(p, c) \in Loads(p)
           /\ \A v \in Vehicles(p) : LoadOf(p, c)[v] # <<>> => \E d \in Deliveries(p) : c[d] = v
PROOF
  <1> DEFINE taken(v) == {d \in Deliveries(p) : c[d] = v}
  <1>1. \A v \in Vehicles(p) : LoadOf(p, c)[v] = Arranged(taken(v), <)
    BY DEF LoadOf
  <1>2. LoadOf(p, c) = [v \in Vehicles(p) |-> Arranged(taken(v), <)]
    BY DEF LoadOf
  <1>3. ASSUME NEW v
        PROVE  /\ Arranged(taken(v), <) \in Seq(Deliveries(p))
               /\ Arranged(taken(v), <) # <<>> => taken(v) # {}
    <2> DEFINE S == taken(v)
    <2>1. S \in SUBSET Deliveries(p)
      OBVIOUS
    <2> HIDE DEF S
    <2>2. Arranged(S, <) \in Seq(Deliveries(p)) /\ DOMAIN Arranged(S, <) = 1..Cardinality(S) /\ Cardinality(S) \in Nat
      BY <2>1, RankedDeliveries
    <2>3. ASSUME S = {} PROVE Arranged(S, <) = <<>>
      <3> DEFINE w == Arranged(S, <)
      <3>1. Cardinality(S) = 0
        BY <2>3, FS_EmptySet
      <3>2. w \in Seq(Deliveries(p)) /\ DOMAIN w = 1..0
        BY <2>2, <3>1
      <3> HIDE DEF w
      <3>3. w = <<>>
        BY <3>2
      <3> QED
        BY <3>3 DEF w
    <2> QED
      BY <2>2, <2>3 DEF S
  <1>4. ASSUME NEW v \in Vehicles(p), LoadOf(p, c)[v] # <<>> PROVE \E d \in Deliveries(p) : c[d] = v
    <2>1. taken(v) # {}
      BY <1>1, <1>3, <1>4
    <2> QED
      BY <2>1
  <1> DEFINE X == Seq(Deliveries(p))
             r(v) == Arranged(taken(v), <)
  <1>5. \A v : r(v) \in X
    BY <1>3
  <1> HIDE DEF r, X, taken
  <1>6. LoadOf(p, c) \in [Vehicles(p) -> X]
    BY <1>2, <1>5 DEF r
  <1> QED
    BY <1>4, <1>6 DEF Loads, X

(* What a choice drives that all of its vehicles can take is a number.     *)
LEMMA DrivenIsNumber ==
    ASSUME NEW p, IsLogisticsData(p), NEW c \in PossibleChoices(p, RoadDistances(p))
    PROVE  Driven(p, LoadOf(p, c), RoadDistances(p)) \in Int
PROOF
  <1> DEFINE dist == RoadDistances(p)
             load == LoadOf(p, c)
             U == {v \in Vehicles(p) : load[v] # <<>>}
             f == [v \in U |-> RouteForVehicle(p, load[v], dist).distance]
  <1>1. Driven(p, load, dist) = SumFunctionOnSet(f, DOMAIN f) /\ DOMAIN f = U
    BY DEF Driven, SumFunction
  <1>2. IsFiniteSet(U)
    <2>1. IsFiniteSet(Vehicles(p))
      BY LogisticsTypes, FS_Interval
    <2> QED
      BY <2>1, FS_Subset
  <1>3. ASSUME NEW v \in U PROVE f[v] \in Int
    <2>1. load \in Loads(p) /\ \E d \in Deliveries(p) : c[d] = v
      BY LoadOfIs
    <2>2. load[v] \in Seq(Deliveries(p))
      BY <2>1 DEF Loads
    <2>3. c \in [Deliveries(p) -> Vehicles(p)] /\ \A u \in Range(c) : Possible(p, u, load[u], dist)
      BY DEF PossibleChoices
    <2>4. v \in Range(c)
      BY <2>1, <2>3 DEF Range
    <2> HIDE DEF load
    <2>5. RouteForVehicle(p, load[v], dist) # None
      BY <2>3, <2>4 DEF Possible
    <2>6. IsDriven(p, RouteForVehicle(p, load[v], dist))
      BY <2>2, <2>5, RouteForVehicleIs
    <2> QED
      BY <2>6 DEF IsDriven
  <1> HIDE DEF f, U, load, dist
  <1> QED
    BY <1>1, <1>2, <1>3, SumTakes DEF load, dist

(* The first of the least choices is one of them.                          *)
LEMMA FirstOfLeastIs ==
    ASSUME NEW driven, IsFiniteSet(DOMAIN driven), DOMAIN driven # {}, DOMAIN driven \subseteq Seq(Int),
           \A c \in DOMAIN driven : driven[c] \in Int
    PROVE  FirstOfLeast(driven) \in DOMAIN driven
PROOF
  <1> DEFINE S == DOMAIN driven
             R == Sooner(driven, S)
  <1>1. IsOrder(R, S)
    BY SoonerIsOrder
  <1>2. IsFiniteSet(S) /\ S # {}
    OBVIOUS
  <1> HIDE DEF R, S
  <1>5. \E c \in S : \A d \in S \ {c} : <<c, d>> \in R
    BY <1>1, <1>2, LeastOfOrder
  <1>3. PICK c \in S : \A d \in S \ {c} : <<c, d>> \in R
    BY <1>5
  <1>4. \A d \in S \ {c} : driven[c] < driven[d] \/ (driven[c] = driven[d] /\ Before(c, d))
    BY <1>3 DEF R, Sooner
  <1> QED
    BY <1>4 DEF FirstOfLeast, S

(* The enumeration delivers soundly.                                       *)
LEMMA BruteForceLogisticsIsSound ==
    ASSUME NEW p, p.type = "logistics_planning", IsLogisticsData(p)
    PROVE  AreSound(p, BruteForceLogistics(p))
PROOF
  <1> DEFINE dist == RoadDistances(p)
             D == Deliveries(p)
             V == Vehicles(p)
             S == PossibleChoices(p, dist)
             driven == [c \in S |-> Driven(p, LoadOf(p, c), dist)]
             s == BestChoiceAnswer(p, driven, dist)
  <1>1. IsFiniteSet(S) /\ S \subseteq Seq(Int)
    <2>1. D = 1..Len(p.deliveries) /\ Len(p.deliveries) \in Nat /\ IsFiniteSet(D) /\ V = 1..Len(p.vehicles) /\ Len(p.vehicles) \in Nat
      BY LogisticsTypes
    <2>2. IsFiniteSet(V) /\ V \subseteq Int
      BY <2>1, FS_Interval
    <2>3. IsFiniteSet([D -> V])
      <3> HIDE DEF D, V
      <3> QED
        BY <2>1, <2>2, FiniteFunctions
    <2>4. S \subseteq [D -> V]
      BY DEF PossibleChoices
    <2>5. \A c \in [D -> V] : c \in Seq(Int)
      <3> SUFFICES ASSUME NEW c \in [D -> V] PROVE c \in Seq(Int)
        OBVIOUS
      <3> DEFINE n == Len(p.deliveries)
      <3>1. n \in Nat /\ c \in [1..n -> Int]
        BY <2>1, <2>2
      <3> HIDE DEF n
      <3> QED
        BY <3>1
    <2> QED
      BY <2>3, <2>4, <2>5, FS_Subset
  <1>2. \A c \in S : driven[c] \in Int
    BY DrivenIsNumber
  <1>3. DOMAIN driven = S
    OBVIOUS
  <1>4. BruteForceLogistics(p) = {s}
    BY DEF BruteForceLogistics, BruteForceOver
  <1> HIDE DEF driven
  <1>5. s = IF DOMAIN driven = {} THEN Infeasible({}) ELSE LogisticsAnswer(p, LoadOf(p, FirstOfLeast(driven)), dist)
    BY DEF BestChoiceAnswer
  <1>6. IsSound(p, Infeasible({}))
    BY DEF IsSound, Infeasible
  <1>7. IsSound(p, LogisticsAnswer(p, LoadOf(p, FirstOfLeast(driven)), dist))
    BY LoadOfIs, LogisticsAnswerIsSound
  <1> HIDE DEF s
  <1>8. IsSound(p, s)
    BY <1>5, <1>6, <1>7
  <1> QED
    BY <1>4, <1>8, DeliveriesAreSound

(* The solver's choice of the fewest vehicles is answered soundly.         *)
LEMMA PulpLogisticsIsSound ==
    ASSUME NEW p, p.type = "logistics_planning", IsLogisticsData(p)
    PROVE  AreSound(p, PulpLogistics(p))
PROOF
  <1> DEFINE dist == RoadDistances(p)
             D == Deliveries(p)
             V == Vehicles(p)
             choices == {c \in [D -> V] : \A v \in Range(c) : CapacityOk(p, v, LoadOf(p, c)[v])}
             size == [c \in choices |-> Cardinality(Range(c))]
             used == {Cardinality(Range(c)) : c \in choices}
             fewest == {c \in choices : Cardinality(Range(c)) = Min(used)}
             answers == {LogisticsAnswer(p, LoadOf(p, c), dist) : c \in fewest}
  <1>1. PulpLogistics(p) = IF choices = {} THEN {Infeasible({})} ELSE answers
    BY DEF PulpLogistics
  <1>2. IsFiniteSet(D) /\ IsFiniteSet(V)
    BY LogisticsTypes, FS_Interval
  <1>3. IsFiniteSet(choices)
    <2>1. IsFiniteSet([D -> V])
      <3> HIDE DEF D, V
      <3> QED
        BY <1>2, FiniteFunctions
    <2> QED
      BY <2>1, FS_Subset
  <1>4. \A c \in choices : Cardinality(Range(c)) \in Nat
    <2> SUFFICES ASSUME NEW c \in choices PROVE Cardinality(Range(c)) \in Nat
      OBVIOUS
    <2>1. Range(c) \subseteq V
      BY DEF Range
    <2> HIDE DEF V
    <2>2. IsFiniteSet(Range(c))
      BY <1>2, <2>1, FS_Subset
    <2> QED
      BY <2>2, FS_CardinalityType
  <1>5. choices # {} => fewest # {}
    <2> SUFFICES ASSUME choices # {} PROVE \E c \in choices : Cardinality(Range(c)) = Min(used)
      OBVIOUS
    <2>0. \A c \in choices : size[c] = Cardinality(Range(c))
      OBVIOUS
    <2> HIDE DEF size, choices
    <2>1. (\A c \in choices : size[c] \in Int) /\ used = {size[c] : c \in choices}
      BY <1>4, <2>0
    <2> HIDE DEF size, choices
    <2>2. IsFiniteSet({size[c] : c \in choices}) /\ {size[c] : c \in choices} \subseteq Int
      BY <1>3, <2>1, FiniteNumbers
    <2>3. used # {}
      OBVIOUS
    <2>4. IsFiniteSet(used) /\ used \subseteq Int
      BY <2>1, <2>2
    <2> DEFINE U == used
    <2>5. \A x \in U : \E c \in choices : Cardinality(Range(c)) = x
      OBVIOUS
    <2>6. IsFiniteSet(U) /\ U \subseteq Int /\ U # {}
      BY <2>3, <2>4
    <2> HIDE DEF U
    <2>7. Min(U) \in U
      BY <2>6, MinOfFinite
    <2>8. \E c \in choices : Cardinality(Range(c)) = Min(U)
      BY <2>5, <2>7
    <2> QED
      BY <2>8 DEF U
  <1>6. \A s \in answers : IsSound(p, s)
    BY LoadOfIs, LogisticsAnswerIsSound
  <1>7. IsSound(p, Infeasible({}))
    BY DEF IsSound, Infeasible
  <1>8. choices # {} => answers # {}
    <2> HIDE DEF fewest, choices
    <2> QED
      BY <1>5
  <1> HIDE DEF answers, choices
  <1>9. PulpLogistics(p) # {} /\ \A s \in PulpLogistics(p) : IsSound(p, s)
    BY <1>1, <1>6, <1>7, <1>8
  <1> QED
    BY <1>9, DeliveriesAreSound

(* The strategies for deliveries are sound.                                *)
LEMMA LogisticsStrategiesAreSound ==
    ASSUME NEW p, p.type = "logistics_planning", IsLogisticsData(p), NEW st, Chosen(p, st)
    PROVE  AreSound(p, Answers(p, st))
PROOF
  <1>1. st \in {"branch_and_bound", "greedy", "knapsack_dp", "brute_force", "pulp_milp"}
    BY DEF Chosen, Registered, Preferred, Range
  <1>2. Answers(p, st) \in {BranchAndBoundLogistics(p), GreedyLogistics(p), KnapsackLogistics(p),
                            BruteForceLogistics(p), PulpLogistics(p)}
    BY <1>1 DEF Answers
  <1> QED
    BY <1>2, BranchAndBoundLogisticsIsSound, GreedyLogisticsIsSound, KnapsackLogisticsIsSound,
       BruteForceLogisticsIsSound, PulpLogisticsIsSound

-----------------------------------------------------------------------------
(* The verdict on a request.                                               *)

(* Every strategy answers soundly, whatever the problem.                   *)
THEOREM StrategiesAreSound ==
    ASSUME NEW p, IsProblem(p), NEW st, Chosen(p, st)
    PROVE  AreSound(p, Answers(p, st))
PROOF
  <1>1. CASE p.type = "route_planning"
    BY <1>1, RouteStrategiesAreSound
  <1>2. CASE p.type = "network_design"
    BY <1>2, NetworkStrategiesAreSound
  <1>3. CASE p.type = "project_scheduling"
    BY <1>3, ProjectStrategiesAreSound
  <1>4. CASE p.type = "shift_scheduling" /\ IsShiftData(p)
    BY <1>4, ShiftStrategiesAreSound
  <1>5. CASE p.type = "travel_planning" /\ IsTravelData(p)
    BY <1>5, TravelStrategiesAreSound
  <1>6. CASE p.type = "logistics_planning" /\ IsLogisticsData(p)
    BY <1>6, LogisticsStrategiesAreSound
  <1> QED
    BY <1>1, <1>2, <1>3, <1>4, <1>5, <1>6 DEF IsProblem

(* The verdict on every request is right: what a strategy answers, and what*)
(* a client has verified, is refused, infeasible or feasible as it solves  *)
(* the problem, or does not; the three kinds of answers apart which the    *)
(* verification takes for what they are not, and bounds on the penalty.    *)
THEOREM VerdictsAreRight == Spec => []VerdictIsRight
PROOF
  <1>1. RequestIsKept => VerdictIsRight
    <2> SUFFICES ASSUME RequestIsKept PROVE VerdictIsRight
      OBVIOUS
    <2>1. strategy # "client" /\ Chosen(problem, strategy) => AreSound(problem, Answers(problem, strategy))
      BY StrategiesAreSound DEF RequestIsKept
    <2> QED
      BY <2>1, VerdictFromSoundness
  <1> QED
    BY <1>1, RequestsAreKept, PTL
=============================================================================
