------------------------------ MODULE Packing ------------------------------
(***************************************************************************)
(* What travel plans and deliveries share (app/algorithms/optimization):   *)
(* the distances between all places, the order of a tour that comes back   *)
(* to where it began, and the knapsack with two capacities.                *)
(***************************************************************************)
EXTENDS Routes

(* Whole numbers of an amount that is given in parts.                      *)
Floor(amount) == amount \div Whole
Ceil(amount) == (amount + Whole - 1) \div Whole

-----------------------------------------------------------------------------
(* floyd_warshall over nodes 1..n: the lightest arc first, and then the    *)
(* ways through each node in turn.  None is the source's infinity.  (TLC   *)
(* computes a whole table when it compares it with another one.)           *)
FloydWarshall(n, arcs) ==
    LET direct(a, b) == {arc.weight : arc \in {x \in arcs : x.from = a /\ x.to = b}}
        arc(a, b) == IF a = b THEN 0 ELSE IF direct(a, b) = {} THEN None ELSE Min(direct(a, b))
        through(dist, k) ==
            LET by(ab) == PathTotal(<<ab[1], k, ab[2]>>, dist)
                next == [ab \in DOMAIN dist |-> IF Cheaper(by(ab), dist[ab]) THEN by(ab) ELSE dist[ab]]
            IN  IF next = dist THEN dist ELSE next
        ways[k \in 0..n] == IF k = 0 THEN [ab \in (1..n) \X (1..n) |-> arc(ab[1], ab[2])]
                            ELSE through(ways[k - 1], k)
    IN  ways[n]

(* The order in which permutations and combinations yield theirs: shorter  *)
(* ones first, then by the first position in which they differ.            *)
Before(c, d) ==
    \/ Len(c) < Len(d)
    \/ /\ Len(c) = Len(d)
       /\ \E i \in DOMAIN c : c[i] < d[i] /\ \A j \in 1..(i - 1) : c[j] = d[j]

(* optimize_waypoint_order from anchor back to anchor: the first of the    *)
(* shortest tours, without the return, None if there is no tour.  For no   *)
(* more than MaxExact places; Routes has the approximation for others.     *)
TourFrom(anchor, rest, dist) ==
    LET visit(o) == <<anchor>> \o [i \in DOMAIN o |-> rest[o[i]]]
        first(total) ==
            CHOOSE o \in DOMAIN total : total[o] # None /\ \A q \in DOMAIN total \ {o} :
                Cheaper(total[o], total[q]) \/ (total[o] = total[q] /\ Before(o, q))
        tour(total) == IF Range(total) = {None} THEN None ELSE visit(first(total))
    IN  tour([o \in SetToSeqs(DOMAIN rest) |-> PathTotal(Append(visit(o), anchor), dist)])

-----------------------------------------------------------------------------
(* Mutant of the knapsack: its table is run through upwards, so that an    *)
(* item is added to what already has it.                                   *)
KnapsackUpwards(items, capA, capB) ==
    LET with(table, i) ==
            LET item == items[i]
                new[ab \in (0..capA) \X (0..capB)] ==
                    LET left == <<ab[1] - item.a, ab[2] - item.b>>
                    IN  IF item.a + item.b > 0 /\ left[1] >= 0 /\ left[2] >= 0
                           /\ new[left].value + item.value > table[ab].value
                        THEN [value |-> new[left].value + item.value, items |-> new[left].items \cup {i}]
                        ELSE table[ab]
            IN  new
    IN  FoldLeft(with, [ab \in (0..capA) \X (0..capB) |-> [value |-> 0, items |-> {}]],
                 [i \in DOMAIN items |-> i])[<<capA, capB>>].items

(* knapsack_2d: for every capacity up to <<capA, capB>> the most value and *)
(* the items that have it.  The table is run through downwards, so that an *)
(* item is added to what was best without it.                              *)
Knapsack(items, capA, capB) ==
    LET cells == (0..capA) \X (0..capB)
        with(table, i) ==
            LET left(ab) == table[<<ab[1] - items[i].a, ab[2] - items[i].b>>]
                more(ab) == left(ab).value + items[i].value
                gains(ab) == ab[1] >= items[i].a /\ ab[2] >= items[i].b /\ more(ab) > table[ab].value
            IN  [ab \in cells |-> IF gains(ab)
                                 THEN [value |-> more(ab), items |-> left(ab).items \cup {i}] ELSE table[ab]]
    IN  FoldLeft(with, [ab \in cells |-> [value |-> 0, items |-> {}]],
                 [i \in DOMAIN items |-> i])[<<capA, capB>>].items
=============================================================================
