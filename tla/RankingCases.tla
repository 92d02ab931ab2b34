----------------------------- MODULE RankingCases -----------------------------
(***************************************************************************)
(* The operators of Ranking over all small inputs: each input is an initial *)
(* state.  Memories are numbered in the order of the prior, which is the    *)
(* order of their names too.                                                *)
(***************************************************************************)
EXTENDS Ranking

CONSTANTS
    ItemCount,      \* memories that are ranked
    Words,          \* tokens
    Reinforcements, \* of observations
    Ages            \* of observations, in half-lives

ASSUME CasesAssumption ==
    /\ ItemCount \in Nat /\ IsFiniteSet(Words)
    /\ Reinforcements \subseteq Int /\ Ages \subseteq Nat

VARIABLE input

Items == 1..ItemCount

Prior1 == [i \in Items |-> i]
Lists == SetToAllKPermutations(Items)
Few == 1..3

\* Fusion and the shortlist of one bucket.
Fusions == [of : {"fusion"}, relevance : Lists, tested : SUBSET Items, cap : 1..3]

\* The ranks of two namespaces; a lookup can fail.
Merges == [of : {"merge"},
           lists : [1..2 -> {l \in Lists : Len(l) <= 3} \cup {Failed}]]

\* Contextual injection: the texts of the pool and the words of the moment.
Gates == [of : {"gate"}, words : [Items -> SUBSET Words],
          query : (SUBSET Words) \ {{}}, minHits : {1, 2}, bm25 : {<<>>, <<2, 1>>}]

\* Hybrid search for observations.
Searches ==
    [of : {"search"}, word : {<<>>, <<1>>, <<1, 2>>, <<1, 2, 3>>},
     trigram : {l \in Lists : ToSet(l) \subseteq Few},
     row : [Few -> [reinforcement : Reinforcements, age : Ages]]]

CasesInit == input \in Fusions \cup Merges \cup Gates \cup Searches

-----------------------------------------------------------------------------
(* Properties.                                                              *)

\* What is ahead in both lists stays ahead; the relevance leg can miss both.
KeepsAgreement(items, relevance) ==
    LET fused == Fused(items, relevance)
        Ahead(m, n) == Before(relevance, m, n)
                         \/ n \notin ToSet(relevance)
    IN  /\ ToSet(fused) = ToSet(items) /\ Len(fused) = Len(items)
        /\ \A m, n \in ToSet(items) :
              Before(items, m, n) /\ Ahead(m, n) => Before(fused, m, n)

\* Nothing is lost or repeated, and the best of each list come first.
MergesFairly(lists) ==
    LET live == {i \in DOMAIN lists : lists[i] # Failed}
        all == MergedRanks(lists)
    IN  IF live = {} THEN all = Failed
        ELSE /\ ToSet(all) = UNION {ToSet(lists[i]) : i \in live}
             /\ Len(all) = Cardinality(ToSet(all))
             /\ \A i \in live : \A k \in DOMAIN lists[i] :
                   Place(all, lists[i][k]) <= k * Cardinality(live)

\* Words of the query that are not in most of a pool that is large enough.
Rare(words, query) ==
    {t \in query : \/ Cardinality(Items) < 4
                   \/ Cardinality({m \in Items : t \in words[m]})
                        <= Cardinality(Items) \div 2}

\* Only enough rare words get a memory in, and one that is ahead in the prior
\* with more of them stays ahead.
EvidenceDecides(words, query, minHits, bm25) ==
    LET served == Fused(Sorted(Qualified(words, query, minHits), LAMBDA m, n : m < n),
                        Relevance(words, query, minHits, bm25, Prior1))
        evidence == [m \in Items |-> Cardinality(words[m] \cap Rare(words, query))]
    IN  /\ ToSet(served) = {m \in Items : evidence[m] >= minHits}
        /\ \A m, n \in ToSet(served) :
              m < n /\ evidence[m] > evidence[n] => Before(served, m, n)

\* Of two observations the one that matches better, was reinforced at least as
\* much and is not older is not found below the other, as long as it has not
\* failed ten times on balance (from there on the score is not positive).
BestMatchFirst(word, trigram, row) ==
    LET found == HybridSearch(word, trigram, row, [m \in Few |-> m])
    IN  \A m, n \in ToSet(found) :
          /\ Above(FusedScore(word, trigram, m), FusedScore(word, trigram, n))
          /\ row[m].reinforcement >= row[n].reinforcement
          /\ row[m].reinforcement > -10
          /\ row[m].age <= row[n].age
          => Before(found, m, n)

\* Invariant: ranking is fair to what it is given: fusion never reverses two
\* lists that agree, the merge of two namespaces favours neither, injection lets
\* nothing in for words that are everywhere, and a search has the better match
\* first (_fuse_by_relevance, _merge_relevance_rank_maps, retrieve_relevant,
\* hybrid_search).
RankingFair ==
    /\ input.of = "fusion" => KeepsAgreement(Prior1, input.relevance)
    /\ input.of = "merge" => MergesFairly(input.lists)
    /\ input.of = "gate" =>
          EvidenceDecides(input.words, input.query, input.minHits, input.bm25)
    /\ input.of = "search" => BestMatchFirst(input.word, input.trigram, input.row)

\* Invariant: the shortlist keeps the order, passes nobody over within the tested
\* and within the untested, and has exactly one place for the untested as long as
\* the tested ones fill the others (the reserved slot of retrieve_reflections).
OneSlotEach ==
    input.of = "fusion" =>
        LET items == Fused(Prior1, input.relevance)
            short == Shortlist(items, input.tested, input.cap).list
            fresh == Items \ input.tested
            PrefixOf(S) == \A m, n \in S :
                Before(items, m, n) /\ n \in ToSet(short) => m \in ToSet(short)
            tried == Cardinality(fresh \cap ToSet(short))
        IN  /\ \A m, n \in ToSet(short) :
                  Before(short, m, n) <=> Before(items, m, n)
            /\ Len(short) = (IF input.cap < Len(items) THEN input.cap ELSE Len(items))
            /\ IF input.cap = 1 THEN short = SubSeq(items, 1, Len(short))
               ELSE /\ PrefixOf(input.tested) /\ PrefixOf(fresh)
                    /\ fresh # {} => tried >= 1
                    /\ tried > 1 => Cardinality(input.tested) < input.cap - 1

=============================================================================
