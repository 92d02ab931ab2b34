------------------------------- MODULE Serving -------------------------------
(***************************************************************************)
(* The loop that ranking closes: a session is served memories, which are    *)
(* recorded as exposed to it; when it ends it rates them, and the ratings   *)
(* decide what the next sessions are served (retrieve_reflections of        *)
(* services/reflection.py, retrieve of storage/agentcore.py,                *)
(* services/session_bootstrap.py).                                          *)
(***************************************************************************)
EXTENDS Ranking

CONSTANTS
    Readers,    \* sessions that are going on at the same time
    Dos, Donts, \* reflections by polarity
    Standings,  \* their orders by confidence and recency that are looked at
    Classes,    \* positive, ignored or misled: how sessions rate
    Cap,        \* limit_per_bucket
    TopN,       \* bootstrap_top_n
    MaxFound    \* memories that the search for a query finds (a bound)

Pool == Dos \cup Donts

ASSUME ServingAssumption ==
    /\ IsFiniteSet(Readers) /\ IsFiniteSet(Pool) /\ Dos \cap Donts = {}
    /\ Standings \subseteq [Pool -> Nat]
    /\ Classes \subseteq {"positive", "ignored", "misled"}
    /\ Cap \in Nat \ {0, 1} /\ {TopN, MaxFound} \subseteq Nat

\* What the search for a query can find: any memories, in any order.
Findings == {list \in SetToAllKPermutations(Pool) : Len(list) <= MaxFound}

VARIABLES
    counts,   \* the rating counters of each memory
    rows,     \* session_memory_exposure of the sessions that are going on
    asked,    \* the sessions that have retrieved so far (history)
    standing  \* confidence and recency, which ratings do not touch

servingVars == <<counts, rows, asked, standing>>

-----------------------------------------------------------------------------

ServingInit ==
    /\ counts = [m \in Pool |-> NoRatings]
    /\ rows = [s \in Readers |-> [m \in Pool |-> "none"]]
    /\ asked = {}
    /\ standing \in Standings

Tested == {m \in Pool : Rated(counts[m]) >= Floor}
In(group, items) == SelectSeq(items, LAMBDA m : m \in group)

\* One row per session and memory: what is served again adds none.
Exposed(s, S) ==
    rows' = [rows EXCEPT ![s] = [m \in Pool |->
               IF m \in S /\ @[m] = "none" THEN "unrated" ELSE @[m]]]

\* retrieve_reflections: all rows are fused, then put into buckets; no query, or
\* one that finds nothing, leaves the prior.
RetrieveLocal(s) ==
    /\ \E relevance \in Findings, prior \in {Ranked(Pool, counts, standing)} :
       \E items \in {Fused(prior, relevance)} :
          Exposed(s, UNION {ToSet(Shortlist(In(group, items), Tested, Cap).list) :
                            group \in {Dos, Donts}})
    /\ asked' = asked \cup {s}
    /\ UNCHANGED <<counts, standing>>

\* retrieve on AgentCore fuses within a bucket; the ranks are those of its two
\* namespaces, merged.
RetrieveRemote(s) ==
    /\ \E relevance \in Findings, prior \in {Ranked(Pool, counts, standing)} :
          Exposed(s, UNION {ToSet(Shortlist(Fused(In(group, prior), relevance),
                                            Tested, Cap).list) :
                            group \in {Dos, Donts}})
    /\ asked' = asked \cup {s}
    /\ UNCHANGED <<counts, standing>>

Retrieve(s) == RetrieveLocal(s) \/ RetrieveRemote(s)

\* Session start in legacy mode: all of the buckets fit, the dos come first, and
\* what is shown in full is cut off, wherever the reserved slot went.
Bootstrap(s) ==
    LET all == Ranked(Dos, counts, standing) \o Ranked(Donts, counts, standing)
    IN  /\ \A m \in Pool : rows[s][m] = "none"
        /\ Exposed(s, ToSet(SubSeq(all, 1, IF TopN < Len(all) THEN TopN ELSE Len(all))))
        /\ UNCHANGED <<counts, asked, standing>>

Unrated(s) == {m \in Pool : rows[s][m] = "unrated"}

\* A counter, as far as it is told apart.
Bumped(c, class) == [c EXCEPT ![class] = IF @ < MaxCount THEN @ + 1 ELSE @]

\* At the end of a turn all exposures are rated, each of them once.
Rate(s) ==
    /\ Unrated(s) # {}
    /\ \E class \in [Unrated(s) -> Classes] :
          counts' = [m \in Pool |-> IF m \in Unrated(s) THEN Bumped(counts[m], class[m])
                                    ELSE counts[m]]
    /\ rows' = [rows EXCEPT ![s] = [m \in Pool |->
                   IF m \in Unrated(s) THEN "rated" ELSE @[m]]]
    /\ UNCHANGED <<asked, standing>>

\* The session ends and another one begins.
EndSession(s) ==
    /\ Unrated(s) = {} /\ \E m \in Pool : rows[s][m] = "rated"
    /\ rows' = [rows EXCEPT ![s] = [m \in Pool |-> "none"]]
    /\ asked' = asked \ {s}
    /\ UNCHANGED <<counts, standing>>

ServingNext ==
    \E s \in Readers : Retrieve(s) \/ Bootstrap(s) \/ Rate(s) \/ EndSession(s)

\* Sessions go on, are rated and end; again and again one of them retrieves.
ServingFairness ==
    \A s \in Readers :
        /\ []<>(s \in asked)
        /\ WF_servingVars(Rate(s)) /\ WF_servingVars(EndSession(s))

ServingSpec == ServingInit /\ [][ServingNext]_servingVars /\ ServingFairness

-----------------------------------------------------------------------------
(* Properties.                                                              *)

\* Liveness: every memory is tried: whatever the queries were and whichever
\* memories stand above it, it is served and rated until it counts as tested.
\* (With misled among the classes this does not hold.)
AllTried == \A m \in Pool : Rated(counts[m]) >= Floor
EveryoneTried == <>AllTried

\* Does not hold with misled among the classes: the reserved slot is for
\* memories with fewer than Floor rated exposures.
SlotForUntested ==
    \A group \in {Dos, Donts} : \A m \in Shortlist(Ranked(group, counts, standing), Tested, Cap).explored :
        counts[m].positive + counts[m].ignored + counts[m].misled < Floor

=============================================================================
