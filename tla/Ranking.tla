------------------------------- MODULE Ranking -------------------------------
(***************************************************************************)
(* How memories are ranked and picked: the Wilson prior of scoring.py, the  *)
(* fusion with relevance and the shortlist with its reserved slot (the same *)
(* in services/reflection.py and storage/agentcore.py), the merge of the    *)
(* ranks of two namespaces, the gate of services/relevant.py, and the       *)
(* hybrid search of search/hybrid.py.  Lists are sequences without          *)
(* repetition, best first.                                                  *)
(***************************************************************************)
EXTENDS Integers, Sequences, FiniteSets, SequencesExt

\* EXPLORATION_RATED_FLOOR, and the largest count that is told apart (a bound).
CONSTANTS Floor, MaxCount

ASSUME RankingAssumption == Floor \in Nat \ {0} /\ MaxCount \in Nat

Place(list, m) == CHOOSE i \in DOMAIN list : list[i] = m
Before(list, m, n) == /\ {m, n} \subseteq ToSet(list)
                      /\ Place(list, m) < Place(list, n)
Sorted(S, Better(_, _)) ==
    LET above == [m \in S |-> Cardinality({n \in S \ {m} : Better(n, m)})]
    IN  [k \in 1..Cardinality(S) |-> CHOOSE m \in S : above[m] = k - 1]
FirstOf(S, k) == {i \in S : Cardinality({j \in S : j < i}) < k}

-----------------------------------------------------------------------------
(* The prior.                                                               *)

\* wilson_lower_bound, in thousandths, with z^2 = 3.842: (positive + z^2 / 2 -
\* sqrt(z^2 * (positive (n - positive) / n + z^2 / 4))) / (n + z^2).
WilsonOf(positive, n) ==
    LET square == ((3842000 * positive * (n - positive)) \div n) + 3690241
        root == CHOOSE r \in 0..5000 : r * r <= square /\ (r + 1) * (r + 1) > square
        bound == ((1000 * positive + 1921 - root) * 1000) \div (1000 * n + 3842)
    IN  IF n = 0 \/ bound < 0 THEN 0 ELSE bound

\* Tabulated, for TLC.
Priors == {<<p, i, WilsonOf(p, p + i)>> : p \in 0..MaxCount, i \in 0..MaxCount}

\* The ratings of a memory: useful or overlooked, ignored, misled.
NoRatings == [positive |-> 0, ignored |-> 0, misled |-> 0]
Rated(c) == c.positive + c.ignored
Prior(c) == (CHOOSE t \in Priors : t[1] = c.positive /\ t[2] = c.ignored)[3]

\* By the prior, then by what stands: confidence and recency.
Ranked(group, counts, standing) ==
    Sorted(group, LAMBDA m, n :
        \/ Prior(counts[m]) > Prior(counts[n])
        \/ Prior(counts[m]) = Prior(counts[n]) /\ standing[m] > standing[n])

-----------------------------------------------------------------------------
(* Reciprocal rank fusion: 1 / (60 + rank) for each list, from rank 0.      *)

RRF_K == 60

\* A score is a fraction.
Term(i) == [num |-> 1, den |-> RRF_K + i]
Plus(a, b) == [num |-> a.num * b.den + b.num * a.den, den |-> a.den * b.den]
Above(a, b) == a.num * b.den > b.num * a.den

\* Mutant of Score: a memory that the relevance leg misses gets its best rank.
ScoreMissing(items, relevance, m) ==
    Plus(Term(Place(items, m) - 1),
         Term(IF m \in ToSet(relevance) THEN Place(relevance, m) - 1 ELSE 0))

Score(items, relevance, m) ==
    IF m \in ToSet(relevance)
    THEN Plus(Term(Place(items, m) - 1), Term(Place(relevance, m) - 1))
    ELSE Term(Place(items, m) - 1)

\* A stable sort of the list by its scores.
Fused(items, relevance) ==
    LET score == [i \in DOMAIN items |-> Score(items, relevance, items[i])]
        order == Sorted(DOMAIN items, LAMBDA i, j :
                    \/ Above(score[i], score[j])
                    \/ ~Above(score[j], score[i]) /\ i < j)
    IN  [k \in DOMAIN order |-> items[order[k]]]

\* Mutant of Reserved: the slot goes to what is ranked best anyway.
ReservedNone(untested, cap) == {}

\* The reserved slot: the best of the untested, when there is room for others.
Reserved(untested, cap) == IF cap < 2 THEN {} ELSE FirstOf(untested, 1)

\* The two passes: cap - 1 tested ones and the reserved slot, then a top-up from
\* the remainder; in ranked order again.
Shortlist(items, tested, cap) ==
    LET T == {i \in DOMAIN items : items[i] \in tested}
        slot == Reserved(DOMAIN items \ T, cap)
        proven == IF cap < 2 THEN {} ELSE FirstOf(T, cap - 1)
        chosen == proven \cup slot
        filled == chosen \cup FirstOf(DOMAIN items \ chosen, cap - Cardinality(chosen))
        order == Sorted(filled, LAMBDA i, j : i < j)
    IN  [list |-> [k \in DOMAIN order |-> items[order[k]]],
         explored |-> {items[i] : i \in slot}]

-----------------------------------------------------------------------------
(* The ranks of several namespaces.                                         *)

\* Instead of a list; -1 is no memory.
Failed == <<-1>>

\* Mutant of MergedRanks: the first list, then the second.
MergedEndToEnd(lists) ==
    LET legs == SelectSeq(lists, LAMBDA l : l # Failed)
        all == FlattenSeq(legs)
        firsts == {i \in DOMAIN all : ~\E j \in 1..(i - 1) : all[j] = all[i]}
    IN  IF legs = <<>> THEN Failed
        ELSE LET s == Sorted(firsts, LAMBDA i, j : i < j)
             IN  [k \in DOMAIN s |-> all[s[k]]]

\* Round robin over the lookups that did not fail; a repeated memory keeps its
\* first place.  It fails only if all of them did.
MergedRanks(lists) ==
    LET live == {i \in DOMAIN lists : lists[i] # Failed}
        turns == UNION {{<<p, i>> : p \in DOMAIN lists[i]} : i \in live}
        at(t) == lists[t[2]][t[1]]
        Sooner(t, u) == t[1] < u[1] \/ (t[1] = u[1] /\ t[2] < u[2])
        firsts == {t \in turns : ~\E u \in turns : at(u) = at(t) /\ Sooner(u, t)}
        order == Sorted(firsts, Sooner)
    IN  IF live = {} THEN Failed ELSE [k \in DOMAIN order |-> at(order[k])]

-----------------------------------------------------------------------------
(* The gate: words are sets of tokens.                                      *)

DF_MIN_POOL == 4

\* Tokens in more than half of the pool, when it is large enough.
Ubiquitous(words) ==
    IF Cardinality(DOMAIN words) < DF_MIN_POOL THEN {}
    ELSE {t \in UNION {words[m] : m \in DOMAIN words} :
            2 * Cardinality({m \in DOMAIN words : t \in words[m]})
              > Cardinality(DOMAIN words)}

\* Mutant of Keywords: the whole query counts as evidence.
KeywordsAll(words, query) == query

Keywords(words, query) == query \ Ubiquitous(words)

Hits(words, m, keywords) == Cardinality(words[m] \cap keywords)

\* Who passes on the sqlite backend.
Qualified(words, query, minHits) ==
    {m \in DOMAIN words : Hits(words, m, Keywords(words, query)) >= minHits}

\* The relevance order of those who pass: hits, then BM25, then the name.
Relevance(words, query, minHits, bm25, name) ==
    LET hits(m) == Hits(words, m, Keywords(words, query))
        place(m) == IF m \in ToSet(bm25) THEN Place(bm25, m) ELSE Len(bm25) + 1
    IN  Sorted(Qualified(words, query, minHits), LAMBDA m, n :
          \/ hits(m) > hits(n)
          \/ hits(m) = hits(n) /\ place(m) < place(n)
          \/ hits(m) = hits(n) /\ place(m) = place(n) /\ name[m] < name[n])

-----------------------------------------------------------------------------
(* Hybrid search: two lists, ranks from 1, times (1 + 0.1 * reinforcement)  *)
(* and 0.5 for each half-life of age.                                       *)

HalfLives[age \in Nat] == IF age = 0 THEN 1 ELSE 2 * HalfLives[age - 1]
Half(age) == [num |-> 1, den |-> HalfLives[age]]
Times(a, b) == [num |-> a.num * b.num, den |-> a.den * b.den]

FusedScore(word, trigram, m) ==
    IF m \notin ToSet(word) THEN Term(Place(trigram, m))
    ELSE IF m \notin ToSet(trigram) THEN Term(Place(word, m))
    ELSE Plus(Term(Place(word, m)), Term(Place(trigram, m)))

\* Mutant of Boost: a reinforcement below zero divides, which puts it above.
BoostInverse(reinforcement) ==
    IF reinforcement < 0 THEN [num |-> 10 - reinforcement, den |-> 10]
    ELSE [num |-> 10 + reinforcement, den |-> 10]

Boost(reinforcement) == [num |-> 10 + reinforcement, den |-> 10]

FinalScore(word, trigram, row, m) ==
    Times(Times(FusedScore(word, trigram, m), Boost(row[m].reinforcement)),
          Half(row[m].age))

HybridSearch(word, trigram, row, name) ==
    Sorted(ToSet(word) \cup ToSet(trigram), LAMBDA m, n :
        LET a == FinalScore(word, trigram, row, m)
            b == FinalScore(word, trigram, row, n)
        IN  Above(a, b) \/ (~Above(b, a) /\ name[m] < name[n]))

=============================================================================
