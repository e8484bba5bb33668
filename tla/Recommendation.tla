--------------------------- MODULE Recommendation ---------------------------
(***************************************************************************)
(* AlgorithmRecommendationService.recommend                                *)
(* (app/services/algorithm_recommendation.py): the strategies of a type    *)
(* in the order in which a language model ranks them.                      *)
(*                                                                         *)
(* What the model may say is given with the request: sequences of names,   *)
(* which may repeat one, leave one out or name what does not exist.        *)
(***************************************************************************)
EXTENDS Handlers

Names(p) == Registered(p.type)

(* Mutant: the strategies that the model mentions, as it mentions them.    *)
RankedOnly(names, ranking) ==
    LET known == SelectSeq(ranking, LAMBDA n : n \in Range(names))
    IN  [i \in DOMAIN known |-> [name |-> known[i], rank |-> i]]

(* The rank of a name is the place where it is mentioned last, and names   *)
(* that do not exist keep their places.                                    *)
LastPlace(ranking, n) == Max({i \in DOMAIN ranking : ranking[i] = n})

(* The sort key: the names without a rank come last, and the sort, which   *)
(* is stable, leaves them in the order of the registry.                    *)
SortsBefore(names, ranking, i, j) ==
    LET ranked(k) == names[k] \in Range(ranking)
    IN  \/ ranked(i) /\ ranked(j) /\ LastPlace(ranking, names[i]) < LastPlace(ranking, names[j])
        \/ ranked(i) /\ ~ranked(j)
        \/ ~ranked(i) /\ ~ranked(j) /\ i < j

Earlier(names, ranking, i) == {j \in DOMAIN names : SortsBefore(names, ranking, j, i)}

(* What is sorted: the entry at k has k - 1 entries before it.             *)
Ranked(names, ranking) ==
    LET entry(n) ==
            [name |-> n, rank |-> IF n \in Range(ranking) THEN LastPlace(ranking, n) ELSE None]
        nth(k) == CHOOSE i \in DOMAIN names : Cardinality(Earlier(names, ranking, i)) = k - 1
    IN  [k \in DOMAIN names |-> entry(names[nth(k)])]

Recommendations(p, ranking) ==
    Answered([preferred |-> Preferred(p), items |-> Ranked(Names(p), ranking)])

InvokeLlm ==
    /\ at = "recommend"
    /\ \E ranking \in request.rankings : Proceed("ranked", ranking)

(* A failure of the model leaves the strategies in their own order.        *)
RecommendByRule ==
    /\ at = "recommend"
    /\ Reply(Recommendations(Problem, <<>>))

RecommendRanked ==
    /\ at = "ranked"
    /\ Reply(Recommendations(Problem, log))

-----------------------------------------------------------------------------
(* Whatever the model says, every strategy of the type is recommended      *)
(* exactly once, the preferred one among them; those that the model names  *)
(* come first and have a rank, and two that it names once are in the order *)
(* in which it names them; the others follow in the order of the registry. *)
RankingIsWhole ==
    request.kind = "recommend" /\ at = "done" =>
        LET items == reply.body.items
            all == Registered(TypeOf(request.problem))
            said(i) == {k \in DOMAIN log : log[k] = items[i].name}
        IN  /\ DOMAIN items = DOMAIN all
            /\ {items[i].name : i \in DOMAIN items} = Range(all)
            /\ reply.body.preferred \in Range(all)
            /\ \A i \in DOMAIN items : items[i].rank = None <=> said(i) = {}
            /\ \A i, j \in DOMAIN items : i < j =>
                   /\ items[i].name # items[j].name
                   /\ said(j) # {} => said(i) # {}
                   /\ \A k, l \in DOMAIN log : said(i) = {k} /\ said(j) = {l} => k < l
                   /\ said(i) = {} /\ said(j) = {} =>
                          \E k, l \in DOMAIN all :
                              k < l /\ all[k] = items[i].name /\ all[l] = items[j].name
=============================================================================
