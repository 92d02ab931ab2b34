----------------------------- MODULE RatingProofs -----------------------------
(***************************************************************************)
(* Theorems about Rating, for any sessions, memories and turns, and about  *)
(* the ranking of memories (RankingCases), for lists of any length.        *)
(***************************************************************************)
EXTENDS Rating, RankingCases, FiniteSetTheorems, TLAPS

\* Every classification has its counter.
LEMMA CounterOfType == CounterOf \in [AllClasses -> Counters]
BY DEF CounterOf, AllClasses, Counters

-----------------------------------------------------------------------------
(* A batch of ratings, which is a credit or a sweep.                        *)

\* Whatever rates does so for a session of the directory and with known
\* classes.
LEMMA RatingIsBatch ==
    ASSUME TypeOK, NEW s \in Sessions, Credit(s) \/ Rate(s)
    PROVE  \E t \in Sessions, S \in SUBSET Memories :
              \E ratings \in [S -> AllClasses] : ApplyRatings(t, ratings)
<1>1. Resolved(s) # None => Resolved(s) \in Sessions
  BY DEF Resolved, TypeOK
<1>2. Classes \subseteq AllClasses
  BY ClassesAssumption
<1>3. CASE Credit(s)
  <2>1. PICK m \in Memories, c \in Classes :
           Resolved(s) # None /\ ApplyRatings(Resolved(s), [x \in {m} |-> c])
    BY <1>3 DEF Credit
  <2>2. [x \in {m} |-> c] \in [{m} -> AllClasses]
    BY <1>2, <2>1
  <2>. QED BY <1>1, <2>1, <2>2
<1>4. CASE Rate(s)
  <2>1. PICK t \in {s, Resolved(s)} \ {None}, S \in SUBSET Memories :
           \E ratings \in [S -> Classes] : ApplyRatings(t, ratings)
    BY <1>4 DEF Rate
  <2>2. PICK ratings \in [S -> Classes] : ApplyRatings(t, ratings)
    BY <2>1
  <2>3. ratings \in [S -> AllClasses]
    BY <1>2, <2>2
  <2>4. t \in Sessions
    BY <1>1, <2>1
  <2>. QED BY <2>2, <2>3, <2>4
<1>. QED BY <1>3, <1>4

LEMMA BatchType ==
    ASSUME TypeOK, NEW t \in Sessions, NEW S \in SUBSET Memories,
           NEW ratings \in [S -> AllClasses], ApplyRatings(t, ratings)
    PROVE  TypeOK'
<1>1. counters' \in [Memories -> [Counters -> Nat]]
  BY DEF TypeOK, ApplyRatings
<1>2. ledger' \in [Sessions -> [Memories -> Rows]]
  <2>1. Applied(t, ratings) \subseteq S
    BY DEF Applied
  <2>. DEFINE row == [m \in Memories |->
                         IF m \in Applied(t, ratings) THEN ratings[m]
                                                      ELSE ledger[t][m]]
  <2>2. row \in [Memories -> Rows]
    BY <2>1 DEF TypeOK, Rows
  <2>3. ledger' = [ledger EXCEPT ![t] = row]
    BY DEF ApplyRatings, TypeOK
  <2>. QED BY <2>2, <2>3 DEF TypeOK
<1>. QED BY <1>1, <1>2 DEF TypeOK, ApplyRatings

\* A batch moves each counter by the one session it adds to its raters.
LEMMA BatchCounts ==
    ASSUME TypeOK, CountersMatchLedger, NEW t \in Sessions,
           NEW S \in SUBSET Memories, NEW ratings \in [S -> AllClasses],
           ApplyRatings(t, ratings)
    PROVE  CountersMatchLedger'
<1>. SUFFICES ASSUME NEW m \in Memories, NEW k \in Counters
              PROVE  counters'[m][k] = Cardinality(RatedAs(m, k)')
  BY DEF CountersMatchLedger
<1>. DEFINE done == Applied(t, ratings)
<1>1. IsFiniteSet(RatedAs(m, k))
  BY SessionsAssumption, FS_Subset DEF RatedAs
<1>2. counters[m][k] = Cardinality(RatedAs(m, k))
  BY DEF CountersMatchLedger
<1>3. \A s \in Sessions :
         ledger'[s][m] = IF s = t /\ m \in done THEN ratings[m] ELSE ledger[s][m]
  BY DEF ApplyRatings, TypeOK
<1>4. counters'[m][k] = IF m \in done /\ CounterOf[ratings[m]] = k
                        THEN counters[m][k] + 1 ELSE counters[m][k]
  BY DEF ApplyRatings
<1>5. m \in done => ratings[m] \in AllClasses /\ ledger[t][m] = "unrated"
  BY DEF Applied
<1>6. "unrated" \notin AllClasses
  BY DEF AllClasses
<1>7. CASE m \in done /\ CounterOf[ratings[m]] = k
  <2>1. RatedAs(m, k)' = RatedAs(m, k) \cup {t}
    BY <1>3, <1>5, <1>6, <1>7 DEF RatedAs
  <2>2. t \notin RatedAs(m, k)
    BY <1>5, <1>6, <1>7 DEF RatedAs
  <2>3. Cardinality(RatedAs(m, k) \cup {t}) = Cardinality(RatedAs(m, k)) + 1
    BY <1>1, <2>2, FS_AddElement
  <2>. QED BY <1>2, <1>4, <1>7, <2>1, <2>3
<1>8. CASE ~(m \in done /\ CounterOf[ratings[m]] = k)
  <2>1. RatedAs(m, k)' = RatedAs(m, k)
    BY <1>3, <1>5, <1>6, <1>8 DEF RatedAs
  <2>. QED BY <1>2, <1>4, <1>8, <2>1
<1>. QED BY <1>7, <1>8

-----------------------------------------------------------------------------
(* Type correctness.                                                        *)

\* Moving a turn on keeps its shape.
LEMMA TurnMoves ==
    ASSUME TypeOK, NEW s \in Sessions
    PROVE  /\ \A x \in {"off", "idle", "work", "end", "failed"} :
                  [turn EXCEPT ![s].step = x] \in [Sessions -> Turns]
           /\ [turn EXCEPT ![s].again = TRUE] \in [Sessions -> Turns]
<1>1. turn[s] \in Turns
  BY DEF TypeOK
<1>2. \A x \in {"off", "idle", "work", "end", "failed"} :
         [turn[s] EXCEPT !.step = x] \in Turns
  BY <1>1 DEF Turns
<1>3. [turn[s] EXCEPT !.again = TRUE] \in Turns
  BY <1>1 DEF Turns
<1>4. \A x : [turn EXCEPT ![s].step = x] =
                [turn EXCEPT ![s] = [turn[s] EXCEPT !.step = x]]
  OBVIOUS
<1>5. [turn EXCEPT ![s].again = TRUE] =
         [turn EXCEPT ![s] = [turn[s] EXCEPT !.again = TRUE]]
  OBVIOUS
<1>6. \A y \in Turns : [turn EXCEPT ![s] = y] \in [Sessions -> Turns]
  BY DEF TypeOK
<1>. QED BY <1>2, <1>3, <1>4, <1>5, <1>6

LEMMA TypeStep == TypeOK /\ [Next]_vars => TypeOK'
<1>. SUFFICES ASSUME TypeOK, [Next]_vars PROVE TypeOK'
  OBVIOUS
<1>. USE BoundsAssumption
<1>1. ASSUME NEW s \in Sessions, StartSession(s) PROVE TypeOK'
  <2>1. turn' \in [Sessions -> Turns]
    BY <1>1, TurnMoves DEF StartSession
  <2>2. showing' \in [Sessions -> SUBSET Memories]
    BY <1>1 DEF TypeOK, StartSession
  <2>3. marker' \in Sessions \cup {None}
    BY <1>1 DEF TypeOK, StartSession
  <2>. QED BY <1>1, <2>1, <2>2, <2>3 DEF TypeOK, StartSession
<1>2. ASSUME NEW s \in Sessions, Prompt(s) PROVE TypeOK'
  BY <1>2 DEF TypeOK, Prompt, Turns
<1>3. ASSUME NEW s \in Sessions, Serve(s) \/ RecordFails(s) PROVE TypeOK'
  BY <1>3 DEF TypeOK, Serve, RecordFails
<1>4. ASSUME NEW s \in Sessions, Record(s) PROVE TypeOK'
  <2>. DEFINE row == [m \in Memories |->
          IF m \in showing[s] /\ ledger[s][m] = None THEN "unrated"
                                                     ELSE ledger[s][m]]
  <2>1. row \in [Memories -> Rows]
    BY DEF TypeOK, Rows
  <2>2. ledger' = [ledger EXCEPT ![s] = row]
    BY <1>4 DEF Record, TypeOK
  <2>. QED BY <1>4, <2>1, <2>2 DEF TypeOK, Record
<1>5. ASSUME NEW s \in Sessions, Credit(s) \/ Rate(s) PROVE TypeOK'
  BY <1>5, RatingIsBatch, BatchType
<1>6. ASSUME NEW s \in Sessions, Stop(s) \/ StopFails(s) PROVE TypeOK'
  <2>1. turn' \in [Sessions -> Turns]
    BY <1>6, TurnMoves DEF Stop, StopBlocks, StopPasses, StopFails
  <2>. QED
    BY <1>6, <2>1 DEF TypeOK, Stop, StopBlocks, StopPasses, StopFails
<1>7. ASSUME NEW s \in Sessions, Publish(s) PROVE TypeOK'
  <2>1. turn' \in [Sessions -> Turns]
    BY <1>7, TurnMoves DEF Publish
  <2>2. ends' \in [Sessions -> Nat]
    BY <1>7 DEF TypeOK, Publish
  <2>. QED BY <1>7, <2>1, <2>2 DEF TypeOK, Publish
<1>8. ASSUME NEW m \in Memories, Die(m) PROVE TypeOK'
  BY <1>8 DEF TypeOK, Die
<1>9. CASE UNCHANGED vars
  BY <1>9 DEF TypeOK, vars
<1>. QED BY <1>1, <1>2, <1>3, <1>4, <1>5, <1>6, <1>7, <1>8, <1>9 DEF Next

\* The variables keep their shapes, for every instance.
THEOREM TypeCorrect == Spec => []TypeOK
<1>1. Init => TypeOK
  BY BoundsAssumption DEF Init, TypeOK, Turns, Rows
<1>. QED BY <1>1, TypeStep, PTL DEF Spec

-----------------------------------------------------------------------------
(* Counters and ledger.                                                     *)

LEMMA CountsInit == Init => CountersMatchLedger
<1>. SUFFICES ASSUME Init, NEW m \in Memories, NEW k \in Counters
              PROVE  counters[m][k] = Cardinality(RatedAs(m, k))
  BY DEF CountersMatchLedger
<1>1. None \notin AllClasses
  BY DEF None, AllClasses
<1>2. RatedAs(m, k) = {}
  BY <1>1 DEF Init, RatedAs
<1>. QED BY <1>2, FS_EmptySet DEF Init

LEMMA CountsStep == TypeOK /\ CountersMatchLedger /\ [Next]_vars => CountersMatchLedger'
<1>. SUFFICES ASSUME TypeOK, CountersMatchLedger, [Next]_vars
              PROVE  CountersMatchLedger'
  OBVIOUS
<1>1. ASSUME NEW s \in Sessions, Credit(s) \/ Rate(s)
      PROVE  CountersMatchLedger'
  BY <1>1, RatingIsBatch, BatchCounts
<1>2. ASSUME NEW s \in Sessions, Record(s) PROVE CountersMatchLedger'
  <2>. SUFFICES ASSUME NEW m \in Memories, NEW k \in Counters
                PROVE  counters'[m][k] = Cardinality(RatedAs(m, k)')
    BY DEF CountersMatchLedger
  <2>1. {None, "unrated"} \cap AllClasses = {}
    BY DEF None, AllClasses
  <2>2. \A r \in Sessions :
           \/ ledger'[r][m] = ledger[r][m]
           \/ ledger[r][m] = None /\ ledger'[r][m] = "unrated"
    BY <1>2 DEF Record, TypeOK
  <2>3. RatedAs(m, k)' = RatedAs(m, k)
    BY <2>1, <2>2 DEF RatedAs
  <2>. QED BY <1>2, <2>3 DEF Record, CountersMatchLedger
<1>3. ASSUME UNCHANGED <<counters, ledger>> PROVE CountersMatchLedger'
  BY <1>3 DEF CountersMatchLedger, RatedAs
<1>4. \/ \E s \in Sessions : Credit(s) \/ Rate(s) \/ Record(s)
      \/ UNCHANGED <<counters, ledger>>
  BY DEF Next, vars, StartSession, Prompt, Serve, RecordFails, Stop,
         StopBlocks, StopPasses, StopFails, Publish, Die
<1>. QED BY <1>1, <1>2, <1>3, <1>4

\* Counters are the ratings in the ledger, whatever the sessions do.
THEOREM CountersAreRatings == Spec => []CountersMatchLedger
<1>1. Init => CountersMatchLedger
  BY CountsInit
<1>. QED BY <1>1, CountsStep, TypeCorrect, PTL DEF Spec

-----------------------------------------------------------------------------
(* The end of a turn.                                                       *)

\* What the hook has found out stays so until it publishes: nothing is being
\* shown to a session whose turn is over.
EndInv == \A s \in Sessions :
    /\ turn[s].step \in {"end", "failed"} => showing[s] = {}
    /\ turn[s].step = "end" => turn[s].again \/ Unrated(s) = {}

\* Ratings leave no row unrated that was not.
LEMMA BatchRates ==
    ASSUME TypeOK, NEW t \in Sessions, NEW S \in SUBSET Memories,
           NEW ratings \in [S -> AllClasses], ApplyRatings(t, ratings),
           NEW s \in Sessions
    PROVE  Unrated(s)' \subseteq Unrated(s)
<1>1. \A m \in Memories : \/ ledger'[s][m] = ledger[s][m]
                          \/ ledger'[s][m] \in AllClasses
  BY DEF ApplyRatings, Applied, TypeOK
<1>2. "unrated" \notin AllClasses
  BY DEF AllClasses
<1>. QED BY <1>1, <1>2 DEF Unrated

LEMMA EndStep == TypeOK /\ EndInv /\ [Next]_vars => EndInv'
<1>. SUFFICES ASSUME TypeOK, EndInv, [Next]_vars, NEW s \in Sessions
              PROVE  /\ turn'[s].step \in {"end", "failed"} => showing'[s] = {}
                     /\ turn'[s].step = "end" => turn'[s].again \/ Unrated(s)' = {}
  BY DEF EndInv
<1>0. /\ turn[s].step \in {"end", "failed"} => showing[s] = {}
      /\ turn[s].step = "end" => turn[s].again \/ Unrated(s) = {}
  BY DEF EndInv
<1>1. ASSUME NEW p \in Sessions, StartSession(p) \/ Prompt(p) \/ Serve(p)
      PROVE  /\ turn'[s].step \in {"end", "failed"} => showing'[s] = {}
             /\ turn'[s].step = "end" => turn'[s].again \/ Unrated(s)' = {}
  <2>1. ledger' = ledger
    BY <1>1 DEF StartSession, Prompt, Serve
  <2>2. CASE s = p
    <3>1. turn[p].step \notin {"end", "failed"} /\ turn'[p].step \in {"idle", "work"}
      BY <1>1 DEF StartSession, Prompt, Serve, TypeOK, Turns
    <3>. QED BY <2>2, <3>1
  <2>3. CASE s # p
    <3>1. turn'[s] = turn[s] /\ showing'[s] = showing[s]
      BY <1>1, <2>3 DEF StartSession, Prompt, Serve, TypeOK
    <3>. QED BY <1>0, <2>1, <3>1 DEF Unrated
  <2>. QED BY <2>2, <2>3
<1>2. ASSUME NEW p \in Sessions, Record(p) \/ RecordFails(p)
      PROVE  /\ turn'[s].step \in {"end", "failed"} => showing'[s] = {}
             /\ turn'[s].step = "end" => turn'[s].again \/ Unrated(s)' = {}
  <2>1. turn' = turn /\ showing' = [showing EXCEPT ![p] = {}]
    BY <1>2 DEF Record, RecordFails
  <2>2. showing[s] = {} => ledger'[s] = ledger[s]
    BY <1>2 DEF Record, RecordFails, TypeOK
  <2>. QED BY <1>0, <2>1, <2>2 DEF Unrated, TypeOK
<1>3. ASSUME NEW p \in Sessions, Credit(p) \/ Rate(p)
      PROVE  /\ turn'[s].step \in {"end", "failed"} => showing'[s] = {}
             /\ turn'[s].step = "end" => turn'[s].again \/ Unrated(s)' = {}
  <2>1. PICK t \in Sessions, S \in SUBSET Memories :
           \E ratings \in [S -> AllClasses] : ApplyRatings(t, ratings)
    BY <1>3, RatingIsBatch
  <2>2. Unrated(s)' \subseteq Unrated(s)
    BY <2>1, BatchRates
  <2>3. UNCHANGED <<turn, showing>>
    BY <2>1 DEF ApplyRatings
  <2>. QED BY <1>0, <2>2, <2>3
<1>4. ASSUME NEW p \in Sessions, Stop(p) \/ StopFails(p)
      PROVE  /\ turn'[s].step \in {"end", "failed"} => showing'[s] = {}
             /\ turn'[s].step = "end" => turn'[s].again \/ Unrated(s)' = {}
  <2>1. UNCHANGED <<showing, ledger>> /\ Unrated(s)' = Unrated(s)
    BY <1>4 DEF Stop, StopBlocks, StopPasses, StopFails, Unrated
  <2>2. CASE p # s
    <3>1. turn'[s] = turn[s]
      BY <1>4, <2>2 DEF Stop, StopBlocks, StopPasses, StopFails, TypeOK
    <3>. QED BY <1>0, <2>1, <3>1
  <2>3. CASE p = s /\ StopBlocks(s)
    <3>1. turn'[s].step = "work"
      BY <2>3 DEF StopBlocks, Stopping, TypeOK, Turns
    <3>. QED BY <3>1
  <2>4. CASE p = s /\ StopPasses(s)
    <3>1. showing[s] = {} /\ (turn[s].again \/ Unrated(s) = {})
      BY <2>4 DEF StopPasses, Stopping, Blocks
    <3>2. turn'[s].again = turn[s].again
      BY <2>4 DEF StopPasses, TypeOK, Turns
    <3>. QED BY <2>1, <3>1, <3>2
  <2>5. CASE p = s /\ StopFails(s)
    <3>1. showing[s] = {} /\ turn'[s].step = "failed"
      BY <2>5 DEF StopFails, Stopping, TypeOK, Turns
    <3>. QED BY <2>1, <3>1
  <2>. QED BY <1>4, <2>2, <2>3, <2>4, <2>5 DEF Stop
<1>5. ASSUME NEW p \in Sessions, Publish(p)
      PROVE  /\ turn'[s].step \in {"end", "failed"} => showing'[s] = {}
             /\ turn'[s].step = "end" => turn'[s].again \/ Unrated(s)' = {}
  BY <1>0, <1>5 DEF Publish, Unrated, TypeOK, Turns
<1>6. ASSUME UNCHANGED <<turn, showing, ledger>>
      PROVE  /\ turn'[s].step \in {"end", "failed"} => showing'[s] = {}
             /\ turn'[s].step = "end" => turn'[s].again \/ Unrated(s)' = {}
  BY <1>0, <1>6 DEF Unrated
<1>. QED BY <1>1, <1>2, <1>3, <1>4, <1>5, <1>6 DEF Next, Die, vars

\* The marker waits for the ratings or for one request of them.
THEOREM EndsWait == Spec => EndsAfterRatings
<1>1. Init => EndInv
  BY DEF Init, EndInv
<1>2. TypeOK /\ EndInv /\ [Next]_vars =>
        [\A s \in Sessions : ends'[s] # ends[s] =>
            turn[s].again \/ turn[s].step = "failed" \/ Unrated(s) = {}]_vars
  BY DEF Next, vars, EndInv, TypeOK, StartSession, Prompt, Serve, Record,
         RecordFails, Credit, Rate, ApplyRatings, Stop, StopBlocks, StopPasses,
         StopFails, Publish, Die
<1>. QED BY <1>1, <1>2, EndStep, TypeCorrect, PTL DEF Spec, EndsAfterRatings

-----------------------------------------------------------------------------
(* Lists by an order.                                                       *)

\* R is a strict order of S that leaves nobody out.
Strict(S, R) ==
    /\ \A m \in S : <<m, m>> \notin R
    /\ \A m, n \in S : m # n => <<m, n>> \in R \/ <<n, m>> \in R
    /\ \A l, m, n \in S : <<l, m>> \in R /\ <<m, n>> \in R => <<l, n>> \in R

Ahead(S, R) == [m \in S |-> Cardinality({n \in S \ {m} : <<n, m>> \in R})]
Placed(S, ahead) == [k \in 1..Cardinality(S) |-> CHOOSE m \in S : ahead[m] = k - 1]

\* s has all of S, each once, in the order R.
InOrder(s, S, R) ==
    /\ Cardinality(S) \in Nat
    /\ s \in [1..Cardinality(S) -> S]
    /\ \A m \in S : \E k \in 1..Cardinality(S) : s[k] = m
    /\ \A i, j \in 1..Cardinality(S) : <<s[i], s[j]>> \in R <=> i < j

\* What comes later has more ahead of it.
LEMMA AheadGrows ==
    ASSUME NEW S, IsFiniteSet(S), NEW R, Strict(S, R),
           NEW m \in S, NEW n \in S, <<m, n>> \in R
    PROVE  Ahead(S, R)[m] < Ahead(S, R)[n]
<1>. DEFINE A == {x \in S \ {m} : <<x, m>> \in R}
            B == {x \in S \ {n} : <<x, n>> \in R}
<1>1. IsFiniteSet(B) /\ Cardinality(B) \in Nat
  BY FS_Subset, FS_CardinalityType
<1>2. m \in B /\ m \notin A /\ A \subseteq B
  BY DEF Strict
<1>3. IsFiniteSet(A) /\ Cardinality(A) \in Nat /\ Cardinality(A) <= Cardinality(B)
  BY <1>1, <1>2, FS_Subset, FS_CardinalityType
<1>4. Cardinality(A) # Cardinality(B)
  BY <1>1, <1>2, FS_Subset
<1>5. Ahead(S, R)[m] = Cardinality(A) /\ Ahead(S, R)[n] = Cardinality(B)
  BY DEF Ahead
<1>. HIDE DEF A, B
<1>. QED BY <1>1, <1>3, <1>4, <1>5

\* Each of S has another number of others ahead, and so there is one for each
\* number below the cardinality.
LEMMA PlacedInOrder ==
    ASSUME NEW S, IsFiniteSet(S), NEW R, Strict(S, R)
    PROVE  /\ InOrder(Placed(S, Ahead(S, R)), S, R)
           /\ \A k \in 1..Cardinality(S) : Ahead(S, R)[Placed(S, Ahead(S, R))[k]] = k - 1
<1>1. PICK size : size = Cardinality(S)
  OBVIOUS
<1>2. PICK ahead : ahead = Ahead(S, R)
  OBVIOUS
<1>. DEFINE D == 0..(size - 1)
            s == Placed(S, ahead)
<1>3. size \in Nat
  BY <1>1, FS_CardinalityType
<1>4. ASSUME NEW m \in S PROVE ahead[m] \in D
  <2>1. PICK A : A = {n \in S \ {m} : <<n, m>> \in R}
    OBVIOUS
  <2>2. ahead[m] = Cardinality(A)
    BY <1>2, <2>1 DEF Ahead
  <2>3. IsFiniteSet(S \ {m}) /\ Cardinality(S \ {m}) = size - 1
    BY <1>1, FS_RemoveElement
  <2>4. A \subseteq S \ {m}
    BY <2>1
  <2>5. Cardinality(A) \in Nat /\ Cardinality(A) <= size - 1
    BY <2>3, <2>4, FS_Subset, FS_CardinalityType
  <2>. QED BY <1>3, <2>2, <2>5
<1>5. ASSUME NEW m \in S, NEW n \in S
      PROVE  /\ ahead[m] = ahead[n] => m = n
             /\ ahead[m] < ahead[n] <=> <<m, n>> \in R
  <2>1. /\ <<m, n>> \in R => ahead[m] < ahead[n]
        /\ <<n, m>> \in R => ahead[n] < ahead[m]
    BY <1>2, AheadGrows
  <2>2. m # n => <<m, n>> \in R \/ <<n, m>> \in R
    BY DEF Strict
  <2>3. ahead[m] \in Nat /\ ahead[n] \in Nat
    BY <1>3, <1>4
  <2>. QED BY <2>1, <2>2, <2>3
<1>6. ahead \in Injection(S, D)
  <2>1. ahead \in [S -> D]
    <3>1. ahead = [m \in S |-> ahead[m]]
      BY <1>2 DEF Ahead
    <3>. QED BY <1>4, <3>1
  <2>. HIDE DEF D
  <2>2. IsInjective(ahead)
    BY <1>5, <2>1 DEF IsInjective
  <2>. QED BY <2>1, <2>2 DEF Injection
<1>7. ahead \in Surjection(S, D)
  <2>1. IsFiniteSet(D) /\ Cardinality(D) = size
    BY <1>3, FS_Interval
  <2>. HIDE DEF D
  <2>. QED BY <1>1, <1>6, <2>1, FS_Injection
<1>8. ASSUME NEW k \in 1..size PROVE s[k] \in S /\ ahead[s[k]] = k - 1
  <2>1. k - 1 \in D
    BY <1>3
  <2>2. \E m \in S : ahead[m] = k - 1
    BY <1>7, <2>1 DEF Surjection
  <2>3. s[k] = CHOOSE m \in S : ahead[m] = k - 1
    BY <1>1 DEF Placed
  <2>. QED BY <2>2, <2>3
<1>9. s \in [1..size -> S]
  <2>1. s = [k \in 1..size |-> s[k]]
    BY <1>1 DEF Placed
  <2>. HIDE DEF s
  <2>. QED BY <1>8, <2>1
<1>. HIDE DEF s
<1>10. ASSUME NEW m \in S PROVE \E k \in 1..size : s[k] = m
  <2>1. ahead[m] + 1 \in 1..size
    BY <1>3, <1>4
  <2>2. s[ahead[m] + 1] \in S /\ ahead[s[ahead[m] + 1]] = ahead[m]
    BY <1>3, <1>4, <1>8, <2>1
  <2>. QED BY <1>5, <2>1, <2>2
<1>11. ASSUME NEW i \in 1..size, NEW j \in 1..size
       PROVE  <<s[i], s[j]>> \in R <=> i < j
  <2>1. ahead[s[i]] = i - 1 /\ ahead[s[j]] = j - 1 /\ s[i] \in S /\ s[j] \in S
    BY <1>8
  <2>2. ahead[s[i]] < ahead[s[j]] <=> i < j
    BY <1>3, <2>1
  <2>. QED BY <1>5, <2>1, <2>2
<1>12. InOrder(s, S, R)
  BY <1>1, <1>3, <1>9, <1>10, <1>11 DEF InOrder
<1>. QED BY <1>1, <1>2, <1>8, <1>12 DEF s

-----------------------------------------------------------------------------
(* Fractions.                                                               *)

Fractions == [num : Int, den : Nat \ {0}]

\* A positive factor changes no order.
LEMMA Scale ==
    ASSUME NEW x \in Int, NEW y \in Int, NEW k \in Nat \ {0}
    PROVE  x < y <=> x * k < y * k
<1>1. x < y => x * k < y * k
  OBVIOUS
<1>2. x >= y => x * k >= y * k
  OBVIOUS
<1>3. x * k \in Int /\ y * k \in Int
  OBVIOUS
<1>. QED BY <1>1, <1>2, <1>3

\* a/p >= b/q >= c/r, multiplied out.
LEMMA CrossMultiplied ==
    ASSUME NEW a \in Int, NEW b \in Int, NEW c \in Int,
           NEW p \in Nat \ {0}, NEW q \in Nat \ {0}, NEW r \in Nat \ {0},
           a * q >= b * p, b * r >= c * q
    PROVE  /\ a * r >= c * p
           /\ a * q > b * p \/ b * r > c * q => a * r > c * p
<1>1. PICK aq \in Int, bp \in Int, br \in Int, cq \in Int, ar \in Int, cp \in Int :
         /\ aq = a * q /\ bp = b * p /\ br = b * r
         /\ cq = c * q /\ ar = a * r /\ cp = c * p
  <2>1. \A x, y \in Int : x * y \in Int
    OBVIOUS
  <2>. QED BY <2>1
<1>2. aq * r = ar * q /\ bp * r = br * p /\ cq * p = cp * q
  BY <1>1
<1>3. /\ aq * r \in Int /\ bp * r \in Int /\ br * p \in Int
      /\ cq * p \in Int /\ ar * q \in Int /\ cp * q \in Int
  BY <1>1
<1>4. aq >= bp /\ br >= cq
  BY <1>1
<1>5. ~(aq < bp) /\ ~(br < cq)
  BY <1>1, <1>4
<1>6. ~(aq * r < bp * r) /\ ~(br * p < cq * p)
  BY <1>1, <1>5, Scale
<1>7. aq > bp => bp * r < aq * r
  BY <1>1, Scale
<1>8. br > cq => cq * p < br * p
  BY <1>1, Scale
<1>9. ~(ar * q < cp * q)
  BY <1>2, <1>3, <1>6
<1>10. aq > bp \/ br > cq => cp * q < ar * q
  BY <1>2, <1>3, <1>6, <1>7, <1>8
<1>11. ~(ar < cp)
  BY <1>1, <1>9, Scale
<1>12. aq > bp \/ br > cq => cp < ar
  BY <1>1, <1>10, Scale
<1>. QED BY <1>1, <1>11, <1>12

\* Above is a strict order up to equal fractions.
LEMMA FractionsOrdered ==
    ASSUME NEW a \in Fractions, NEW b \in Fractions, NEW c \in Fractions
    PROVE  /\ ~Above(a, a)
           /\ Above(a, b) => ~Above(b, a)
           /\ ~Above(b, a) /\ ~Above(c, b) => ~Above(c, a)
           /\ Above(a, b) /\ ~Above(c, b) => Above(a, c)
           /\ ~Above(b, a) /\ Above(b, c) => Above(a, c)
<1>1. /\ a.num \in Int /\ b.num \in Int /\ c.num \in Int
      /\ a.den \in Nat \ {0} /\ b.den \in Nat \ {0} /\ c.den \in Nat \ {0}
  BY DEF Fractions
<1>2. \A x, y \in Int : x * y \in Int
  OBVIOUS
<1>3. /\ a.num * a.den \in Int /\ a.num * b.den \in Int /\ b.num * a.den \in Int
      /\ b.num * c.den \in Int /\ c.num * b.den \in Int
      /\ a.num * c.den \in Int /\ c.num * a.den \in Int
  BY <1>1, <1>2
<1>4. a.num * b.den >= b.num * a.den /\ b.num * c.den >= c.num * b.den =>
         /\ a.num * c.den >= c.num * a.den
         /\ a.num * b.den > b.num * a.den \/ b.num * c.den > c.num * b.den
              => a.num * c.den > c.num * a.den
  BY <1>1, CrossMultiplied
<1>. QED BY <1>3, <1>4 DEF Above

\* What has the higher score comes first, then what has the lower rank.
ByScore(S, score, rank) ==
    {p \in S \X S : \/ Above(score[p[1]], score[p[2]])
                    \/ ~Above(score[p[2]], score[p[1]]) /\ rank[p[1]] < rank[p[2]]}

\* The tie-break makes it an order that leaves nobody out.
LEMMA ByScoreStrict ==
    ASSUME NEW S, NEW score \in [S -> Fractions], NEW rank \in [S -> Int],
           \A m, n \in S : rank[m] = rank[n] => m = n
    PROVE  Strict(S, ByScore(S, score, rank))
<1>. DEFINE R(m, n) == \/ Above(score[m], score[n])
                       \/ ~Above(score[n], score[m]) /\ rank[m] < rank[n]
<1>1. \A m, n \in S : <<m, n>> \in ByScore(S, score, rank) <=> R(m, n)
  BY DEF ByScore
<1>2. \A m \in S : score[m] \in Fractions /\ rank[m] \in Int
  OBVIOUS
<1>3. ASSUME NEW m \in S PROVE ~R(m, m)
  BY <1>2, FractionsOrdered
<1>4. ASSUME NEW m \in S, NEW n \in S, m # n PROVE R(m, n) \/ R(n, m)
  <2>1. rank[m] < rank[n] \/ rank[n] < rank[m]
    BY <1>2, <1>4
  <2>2. ~(Above(score[m], score[n]) /\ Above(score[n], score[m]))
    BY <1>2, FractionsOrdered
  <2>. QED BY <2>1, <2>2
<1>5. ASSUME NEW l \in S, NEW m \in S, NEW n \in S, R(l, m), R(m, n)
      PROVE  R(l, n)
  <2>1. PICK a \in Fractions, b \in Fractions, c \in Fractions :
           a = score[l] /\ b = score[m] /\ c = score[n]
    BY <1>2
  <2>2. /\ Above(a, b) => ~Above(b, a)
        /\ Above(b, c) => ~Above(c, b)
        /\ Above(a, b) /\ ~Above(c, b) => Above(a, c)
        /\ ~Above(b, a) /\ Above(b, c) => Above(a, c)
        /\ ~Above(b, a) /\ ~Above(c, b) => ~Above(c, a)
    BY FractionsOrdered
  <2>3. rank[l] < rank[m] /\ rank[m] < rank[n] => rank[l] < rank[n]
    BY <1>2
  <2>. QED BY <1>5, <2>1, <2>2, <2>3
<1>. HIDE DEF R
<1>. QED BY <1>1, <1>3, <1>4, <1>5 DEF Strict

\* A sum of higher terms is higher, and so is one with a term more.
LEMMA SumsOrdered ==
    ASSUME NEW a \in Fractions, NEW b \in Fractions, NEW c \in Fractions,
           NEW d \in Fractions
    PROVE  /\ Plus(a, b) \in Fractions
           /\ Above(a, c) /\ Above(b, d) => Above(Plus(a, b), Plus(c, d))
           /\ Above(a, c) /\ b.num > 0 => Above(Plus(a, b), c)
<1>1. PICK an \in Int, bn \in Int, cn \in Int, dn \in Int :
         an = a.num /\ bn = b.num /\ cn = c.num /\ dn = d.num
  BY DEF Fractions
<1>2. PICK ad \in Nat \ {0}, bd \in Nat \ {0}, cd \in Nat \ {0}, dd \in Nat \ {0} :
         ad = a.den /\ bd = b.den /\ cd = c.den /\ dd = d.den
  BY DEF Fractions
<1>3. \A x, y \in Int : x * y \in Int
  OBVIOUS
<1>4. \A x, y \in Nat \ {0} : x * y \in Nat \ {0}
  OBVIOUS
<1>5. /\ Plus(a, b).num = an * bd + bn * ad /\ Plus(a, b).den = ad * bd
      /\ Plus(c, d).num = cn * dd + dn * cd /\ Plus(c, d).den = cd * dd
  BY <1>1, <1>2 DEF Plus
<1>6. Plus(a, b) \in Fractions
  <2>1. an * bd \in Int /\ bn * ad \in Int /\ ad * bd \in Nat \ {0}
    BY <1>3, <1>4
  <2>2. an * bd + bn * ad \in Int
    BY <2>1
  <2>3. Plus(a, b) = [num |-> an * bd + bn * ad, den |-> ad * bd]
    BY <1>1, <1>2 DEF Plus
  <2>. QED BY <2>1, <2>2, <2>3 DEF Fractions
<1>7. ASSUME Above(a, c), Above(b, d) PROVE Above(Plus(a, b), Plus(c, d))
  <2>1. PICK x \in Int, y \in Int, u \in Int, v \in Int :
           x = an * cd /\ y = cn * ad /\ u = bn * dd /\ v = dn * bd
    BY <1>3
  <2>2. PICK s \in Nat \ {0}, t \in Nat \ {0} : s = bd * dd /\ t = ad * cd
    BY <1>4
  <2>3. y < x /\ v < u
    BY <1>1, <1>2, <1>7, <2>1 DEF Above
  <2>4. y * s < x * s /\ v * t < u * t
    BY <2>3, Scale
  <2>5. x * s \in Int /\ y * s \in Int /\ u * t \in Int /\ v * t \in Int
    BY <1>3
  <2>6. x * s + u * t > y * s + v * t
    BY <2>4, <2>5
  <2>7. (an * bd + bn * ad) * (cd * dd) = x * s + u * t
    BY <2>1, <2>2
  <2>8. (cn * dd + dn * cd) * (ad * bd) = y * s + v * t
    BY <2>1, <2>2
  <2>. QED BY <1>5, <2>6, <2>7, <2>8 DEF Above
<1>8. ASSUME Above(a, c), bn > 0 PROVE Above(Plus(a, b), c)
  <2>1. PICK x \in Int, y \in Int : x = an * cd /\ y = cn * ad
    BY <1>3
  <2>2. PICK w \in Nat \ {0} : w = bn * (ad * cd)
    <3>1. bn \in Nat \ {0} /\ ad * cd \in Nat \ {0}
      BY <1>4, <1>8
    <3>. QED BY <1>4, <3>1
  <2>3. y < x
    BY <1>1, <1>2, <1>8, <2>1 DEF Above
  <2>4. y * bd < x * bd
    BY <2>3, Scale
  <2>5. x * bd \in Int /\ y * bd \in Int
    BY <1>3
  <2>6. x * bd + w > y * bd
    BY <2>4, <2>5
  <2>7. (an * bd + bn * ad) * cd = x * bd + w
    BY <2>1, <2>2
  <2>8. cn * (ad * bd) = y * bd
    BY <2>1
  <2>. QED BY <1>1, <1>2, <1>5, <2>6, <2>7, <2>8 DEF Above
<1>. QED BY <1>1, <1>6, <1>7, <1>8

-----------------------------------------------------------------------------
(* Lists without repetition.                                                *)

Listing(l, n) ==
    /\ n \in Nat
    /\ l = [i \in 1..n |-> l[i]]
    /\ \A i, j \in 1..n : l[i] = l[j] => i = j

\* Every element has one place.
LEMMA ListingFacts ==
    ASSUME NEW l, NEW n, Listing(l, n)
    PROVE  /\ DOMAIN l = 1..n /\ n \in Nat
           /\ l \in Seq(ToSet(l)) /\ Len(l) = n
           /\ \A i \in 1..n : l[i] \in ToSet(l) /\ Place(l, l[i]) = i
           /\ \A m \in ToSet(l) : Place(l, m) \in 1..n /\ l[Place(l, m)] = m
           /\ IsFiniteSet(ToSet(l)) /\ Cardinality(ToSet(l)) = n
<1>1. DOMAIN l = 1..n /\ n \in Nat
  BY DEF Listing
<1>2. \A i \in 1..n : l[i] \in ToSet(l)
  BY <1>1 DEF ToSet
<1>3. l \in [1..n -> ToSet(l)]
  BY <1>2 DEF Listing
<1>4. l \in Seq(ToSet(l)) /\ Len(l) = n
  BY <1>1, <1>3
<1>5. ASSUME NEW i \in 1..n PROVE Place(l, l[i]) = i
  <2>1. \A j \in DOMAIN l : l[j] = l[i] <=> j = i
    BY <1>1 DEF Listing
  <2>. QED BY <1>1, <2>1 DEF Place
<1>6. ASSUME NEW m \in ToSet(l) PROVE Place(l, m) \in 1..n /\ l[Place(l, m)] = m
  <2>1. PICK i \in 1..n : m = l[i]
    BY <1>1 DEF ToSet
  <2>. QED BY <1>5, <2>1
<1>7. IsFiniteSet(ToSet(l)) /\ Cardinality(ToSet(l)) = n
  <2>1. l \in Injection(1..n, ToSet(l))
    BY <1>3 DEF Listing, Injection, IsInjective
  <2>2. l \in Surjection(1..n, ToSet(l))
    BY <1>3, <1>6 DEF Surjection
  <2>3. IsFiniteSet(1..n) /\ Cardinality(1..n) = n
    BY <1>1, FS_Interval
  <2>. QED BY <2>1, <2>2, <2>3, FS_Surjection
<1>. QED BY <1>1, <1>2, <1>4, <1>5, <1>6, <1>7

\* What was put in order is a list of all, by that order.
LEMMA OrderedListing ==
    ASSUME NEW S, NEW R, NEW s, InOrder(s, S, R)
    PROVE  /\ Listing(s, Cardinality(S)) /\ ToSet(s) = S
           /\ \A m, n \in S : <<m, n>> \in R <=> Place(s, m) < Place(s, n)
<1>1. PICK n : n = Cardinality(S)
  OBVIOUS
<1>2. /\ n \in Nat /\ s \in [1..n -> S]
      /\ \A m \in S : \E k \in 1..n : s[k] = m
      /\ \A i, j \in 1..n : <<s[i], s[j]>> \in R <=> i < j
  BY <1>1 DEF InOrder
<1>3. ASSUME NEW i \in 1..n, NEW j \in 1..n, s[i] = s[j] PROVE i = j
  <2>1. ~(i < i) /\ (i < j \/ j < i \/ i = j)
    OBVIOUS
  <2>. QED BY <1>2, <1>3, <2>1
<1>4. Listing(s, n)
  BY <1>2, <1>3 DEF Listing
<1>5. ToSet(s) = S
  BY <1>2 DEF ToSet
<1>6. ASSUME NEW x \in S, NEW y \in S
      PROVE  <<x, y>> \in R <=> Place(s, x) < Place(s, y)
  <2>1. Place(s, x) \in 1..n /\ s[Place(s, x)] = x
    BY <1>4, <1>5, ListingFacts
  <2>2. Place(s, y) \in 1..n /\ s[Place(s, y)] = y
    BY <1>4, <1>5, ListingFacts
  <2>3. <<s[Place(s, x)], s[Place(s, y)]>> \in R <=> Place(s, x) < Place(s, y)
    BY <1>2, <2>1, <2>2
  <2>. QED BY <2>1, <2>2, <2>3
<1>. QED BY <1>1, <1>4, <1>5, <1>6

\* The values of a one-to-one function along a list make a list.
LEMMA Composed ==
    ASSUME NEW f, NEW s, NEW k, Listing(s, k),
           \A x, y \in ToSet(s) : f[x] = f[y] => x = y,
           NEW c, c = [i \in DOMAIN s |-> f[s[i]]]
    PROVE  /\ Listing(c, k)
           /\ ToSet(c) = {f[x] : x \in ToSet(s)}
           /\ \A x \in ToSet(s) : Place(c, f[x]) = Place(s, x)
<1>1. /\ DOMAIN s = 1..k /\ k \in Nat
      /\ \A i \in 1..k : s[i] \in ToSet(s)
      /\ \A x \in ToSet(s) : Place(s, x) \in 1..k /\ s[Place(s, x)] = x
  BY ListingFacts
<1>2. \A i \in 1..k : c[i] = f[s[i]]
  BY <1>1
<1>3. c = [i \in 1..k |-> c[i]]
  BY <1>1
<1>4. ASSUME NEW i \in 1..k, NEW j \in 1..k, c[i] = c[j] PROVE i = j
  <2>1. f[s[i]] = f[s[j]] /\ s[i] \in ToSet(s) /\ s[j] \in ToSet(s)
    BY <1>1, <1>2, <1>4
  <2>2. s[i] = s[j]
    BY <2>1
  <2>. QED BY <2>2 DEF Listing
<1>5. Listing(c, k)
  BY <1>1, <1>3, <1>4 DEF Listing
<1>6. ToSet(c) = {f[x] : x \in ToSet(s)}
  <2>1. DOMAIN c = 1..k
    BY <1>5, ListingFacts
  <2>2. ToSet(c) = {c[i] : i \in 1..k}
    BY <2>1 DEF ToSet
  <2>3. ToSet(s) = {s[i] : i \in 1..k}
    BY <1>1 DEF ToSet
  <2>. QED BY <1>2, <2>2, <2>3
<1>7. ASSUME NEW x \in ToSet(s) PROVE Place(c, f[x]) = Place(s, x)
  <2>1. Place(s, x) \in 1..k /\ c[Place(s, x)] = f[x]
    BY <1>1, <1>2
  <2>2. Place(c, c[Place(s, x)]) = Place(s, x)
    BY <1>5, <2>1, ListingFacts
  <2>. QED BY <2>1, <2>2
<1>. QED BY <1>5, <1>6, <1>7

\* The lists of the cases are such lists.
LEMMA ListsAreListings ==
    ASSUME NEW S, IsFiniteSet(S), NEW l \in SetToAllKPermutations(S)
    PROVE  /\ \E n \in Nat : Listing(l, n)
           /\ ToSet(l) \subseteq S
<1>1. PICK T \in SUBSET S : l \in SetToSeqs(T)
  BY DEF SetToAllKPermutations
<1>2. PICK n : n = Cardinality(T)
  OBVIOUS
<1>3. n \in Nat
  BY <1>2, FS_Subset, FS_CardinalityType
<1>4. l \in [1..n -> T] /\ \A i, j \in 1..n : i # j => l[i] # l[j]
  BY <1>1, <1>2 DEF SetToSeqs
<1>5. Listing(l, n)
  BY <1>3, <1>4 DEF Listing
<1>6. ToSet(l) \subseteq S
  BY <1>4 DEF ToSet
<1>. QED BY <1>3, <1>5, <1>6

\* Those in a list that are ahead in it.
LEMMA BeforeIs ==
    ASSUME NEW l, NEW m, NEW n
    PROVE  Before(l, m, n) <=>
              m \in ToSet(l) /\ n \in ToSet(l) /\ Place(l, m) < Place(l, n)
BY DEF Before

-----------------------------------------------------------------------------
(* Fusion.                                                                  *)

\* An earlier rank gives a higher term.
LEMMA Terms ==
    ASSUME NEW i \in Nat, NEW j \in Nat
    PROVE  /\ Term(i) \in Fractions /\ Term(i).num > 0
           /\ i < j => Above(Term(i), Term(j))
BY DEF Term, RRF_K, Fractions, Above

\* The score of the i-th of the items.
LEMMA Scores ==
    ASSUME NEW items, NEW n, Listing(items, n), NEW relevance, NEW k,
           Listing(relevance, k), NEW i \in 1..n
    PROVE  /\ Score(items, relevance, items[i]) \in Fractions
           /\ \A j \in 1..n :
                 /\ i < j
                 /\ \/ Before(relevance, items[i], items[j])
                    \/ items[j] \notin ToSet(relevance)
                 => Above(Score(items, relevance, items[i]),
                          Score(items, relevance, items[j]))
<1>. DEFINE sc(x) == Score(items, relevance, items[x])
            rel(x) == Term(Place(relevance, items[x]) - 1)
<1>1. ASSUME NEW x \in 1..n
      PROVE  /\ Term(x - 1) \in Fractions /\ x - 1 \in Nat
             /\ items[x] \in ToSet(relevance) =>
                   /\ rel(x) \in Fractions /\ rel(x).num > 0
                   /\ Place(relevance, items[x]) - 1 \in Nat
                   /\ sc(x) = Plus(Term(x - 1), rel(x))
             /\ items[x] \notin ToSet(relevance) => sc(x) = Term(x - 1)
  <2>1. Place(items, items[x]) = x /\ x - 1 \in Nat
    BY ListingFacts
  <2>2. Term(x - 1) \in Fractions
    BY <2>1, Terms
  <2>3. ASSUME items[x] \in ToSet(relevance)
        PROVE  Place(relevance, items[x]) - 1 \in Nat
    BY <2>3, ListingFacts
  <2>4. ASSUME items[x] \in ToSet(relevance)
        PROVE  rel(x) \in Fractions /\ rel(x).num > 0
    BY <2>3, <2>4, Terms
  <2>. QED BY <2>1, <2>2, <2>3, <2>4 DEF Score
<1>2. sc(i) \in Fractions
  BY <1>1, SumsOrdered
<1>3. ASSUME NEW j \in 1..n, i < j,
             \/ Before(relevance, items[i], items[j])
             \/ items[j] \notin ToSet(relevance)
      PROVE  Above(sc(i), sc(j))
  <2>1. Above(Term(i - 1), Term(j - 1))
    BY <1>1, <1>3, Terms
  <2>2. CASE items[j] \in ToSet(relevance)
    <3>1. /\ items[i] \in ToSet(relevance)
          /\ Place(relevance, items[i]) - 1 < Place(relevance, items[j]) - 1
      <4>1. items[i] \in ToSet(relevance)
              /\ Place(relevance, items[i]) < Place(relevance, items[j])
        BY <1>3, <2>2 DEF Before
      <4>2. Place(relevance, items[i]) \in Int /\ Place(relevance, items[j]) \in Int
        BY <2>2, <4>1, ListingFacts
      <4>. QED BY <4>1, <4>2
    <3>2. Above(rel(i), rel(j))
      BY <1>1, <2>2, <3>1, Terms
    <3>3. Above(Plus(Term(i - 1), rel(i)), Plus(Term(j - 1), rel(j)))
      <4>. HIDE DEF rel
      <4>. QED BY <1>1, <2>1, <2>2, <3>1, <3>2, SumsOrdered
    <3>. QED BY <1>1, <2>2, <3>1, <3>3
  <2>3. CASE items[j] \notin ToSet(relevance)
    <3>1. CASE items[i] \in ToSet(relevance)
      <4>1. Above(Plus(Term(i - 1), rel(i)), Term(j - 1))
        <5>. HIDE DEF rel
        <5>. QED BY <1>1, <2>1, <3>1, SumsOrdered
      <4>. QED BY <1>1, <2>3, <3>1, <4>1
    <3>2. CASE items[i] \notin ToSet(relevance)
      BY <1>1, <2>1, <2>3, <3>2
    <3>. QED BY <3>1, <3>2
  <2>. QED BY <2>2, <2>3
<1>. HIDE DEF sc
<1>4. QED BY <1>2, <1>3 DEF sc

\* Fusion is a permutation of the items that never reverses two lists that agree.
LEMMA FusionKeeps ==
    ASSUME NEW items, NEW n, Listing(items, n), NEW relevance, NEW k,
           Listing(relevance, k)
    PROVE  /\ Listing(Fused(items, relevance), n)
           /\ ToSet(Fused(items, relevance)) = ToSet(items)
           /\ \A x, y \in ToSet(items) :
                 /\ Before(items, x, y)
                 /\ Before(relevance, x, y) \/ y \notin ToSet(relevance)
                 => Before(Fused(items, relevance), x, y)
<1>1. PICK score : score = [i \in 1..n |-> Score(items, relevance, items[i])]
  OBVIOUS
<1>2. PICK rank : rank = [i \in 1..n |-> i]
  OBVIOUS
<1>3. PICK R : R = ByScore(1..n, score, rank)
  OBVIOUS
<1>4. DOMAIN items = 1..n /\ n \in Nat
  BY ListingFacts
<1>5. score \in [1..n -> Fractions] /\ rank \in [1..n -> Int]
  BY <1>1, <1>2, <1>4, Scores
<1>6. Strict(1..n, R)
  BY <1>2, <1>3, <1>5, ByScoreStrict
<1>7. PICK order : order = Placed(1..n, Ahead(1..n, R))
  OBVIOUS
<1>8. IsFiniteSet(1..n) /\ Cardinality(1..n) = n
  BY <1>4, FS_Interval
<1>9. InOrder(order, 1..n, R)
  BY <1>6, <1>7, <1>8, PlacedInOrder
<1>10. \A i, j \in 1..n : <<i, j>> \in R <=>
          \/ Above(score[i], score[j])
          \/ ~Above(score[j], score[i]) /\ i < j
  BY <1>2, <1>3 DEF ByScore
<1>11. PICK above : above =
          [j \in 1..n |-> Cardinality({i \in (1..n) \ {j} :
             \/ Above(score[i], score[j])
             \/ ~Above(score[j], score[i]) /\ i < j})]
  OBVIOUS
<1>12. above = Ahead(1..n, R)
  <2>1. ASSUME NEW j \in 1..n
        PROVE  {i \in (1..n) \ {j} :
                   \/ Above(score[i], score[j])
                   \/ ~Above(score[j], score[i]) /\ i < j}
                 = {i \in (1..n) \ {j} : <<i, j>> \in R}
    BY <1>10
  <2>. QED BY <1>11, <2>1 DEF Ahead
<1>13. Fused(items, relevance) = [x \in DOMAIN order |-> items[order[x]]]
  <2>. DEFINE ahead == [j \in 1..n |-> Cardinality({i \in (1..n) \ {j} :
                          \/ Above(score[i], score[j])
                          \/ ~Above(score[j], score[i]) /\ i < j})]
              sorted == [x \in 1..Cardinality(1..n) |->
                           CHOOSE i \in 1..n : ahead[i] = x - 1]
  <2>1. Fused(items, relevance) = [x \in DOMAIN sorted |-> items[sorted[x]]]
    BY <1>1, <1>4 DEF Fused, Sorted
  <2>2. ahead = Ahead(1..n, R)
    BY <1>11, <1>12
  <2>3. sorted = order
    <3>. HIDE DEF ahead
    <3>. QED BY <1>7, <2>2 DEF Placed
  <2>. HIDE DEF sorted
  <2>. QED BY <2>1, <2>3
<1>14. /\ Listing(order, n) /\ ToSet(order) = 1..n
       /\ \A i, j \in 1..n : <<i, j>> \in R <=> Place(order, i) < Place(order, j)
  BY <1>8, <1>9, OrderedListing
<1>15. PICK fused : fused = Fused(items, relevance)
  OBVIOUS
<1>16. /\ Listing(fused, n)
       /\ ToSet(fused) = {items[i] : i \in 1..n}
       /\ \A i \in 1..n : Place(fused, items[i]) = Place(order, i)
  <2>1. fused = [x \in DOMAIN order |-> items[order[x]]]
    BY <1>13, <1>15
  <2>2. /\ Listing(fused, n)
        /\ ToSet(fused) = {items[i] : i \in ToSet(order)}
        /\ \A i \in ToSet(order) : Place(fused, items[i]) = Place(order, i)
    <3>1. Listing(order, n) /\ \A i, j \in ToSet(order) : items[i] = items[j] => i = j
      BY <1>14 DEF Listing
    <3>. QED BY ONLY <2>1, <3>1, Composed
  <2>. QED BY <1>14, <2>2
<1>17. ToSet(fused) = ToSet(items)
  BY <1>4, <1>16 DEF ToSet
<1>18. ASSUME NEW x \in ToSet(items), NEW y \in ToSet(items), Before(items, x, y),
              Before(relevance, x, y) \/ y \notin ToSet(relevance)
       PROVE  Before(fused, x, y)
  <2>1. PICK i \in 1..n, j \in 1..n : x = items[i] /\ y = items[j] /\ i < j
    BY <1>18, ListingFacts DEF Before
  <2>2. Above(score[i], score[j])
    BY <1>1, <1>18, <2>1, Scores
  <2>3. Place(order, i) < Place(order, j)
    BY <1>10, <1>14, <2>2
  <2>. QED BY <1>16, <1>17, <2>1, <2>3 DEF Before
<1>. QED BY <1>15, <1>16, <1>17, <1>18

-----------------------------------------------------------------------------
(* The shortlist.                                                           *)

Least(k, n) == IF k < n THEN k ELSE n
Smaller(S) == {p \in S \X S : p[1] < p[2]}

\* Numbers are ordered by their size.
LEMMA SmallerStrict ==
    ASSUME NEW S \in SUBSET Int
    PROVE  /\ Strict(S, Smaller(S))
           /\ \A i, j \in S : <<i, j>> \in Smaller(S) <=> i < j
<1>1. \A i, j \in S : <<i, j>> \in Smaller(S) <=> i < j
  BY DEF Smaller
<1>. QED BY <1>1 DEF Strict

\* Numbers sorted by their size.
BySize(S) == Placed(S, [j \in S |-> Cardinality({i \in S \ {j} : i < j})])

LEMMA SortedNumbers ==
    ASSUME NEW S \in SUBSET Int, IsFiniteSet(S), NEW s, s = BySize(S)
    PROVE  /\ Listing(s, Cardinality(S)) /\ ToSet(s) = S
           /\ \A i, j \in S : i < j <=> Place(s, i) < Place(s, j)
           /\ \A k \in 1..Cardinality(S) : Cardinality({j \in S : j < s[k]}) = k - 1
<1>1. PICK R : R = Smaller(S)
  OBVIOUS
<1>2. Strict(S, R) /\ \A i, j \in S : <<i, j>> \in R <=> i < j
  BY <1>1, SmallerStrict
<1>3. PICK ahead : ahead = [j \in S |-> Cardinality({i \in S \ {j} : i < j})]
  OBVIOUS
<1>4. ahead = Ahead(S, R)
  <2>1. \A j \in S : {i \in S \ {j} : i < j} = {i \in S \ {j} : <<i, j>> \in R}
    BY <1>2
  <2>. QED BY <1>3, <2>1 DEF Ahead
<1>5. s = Placed(S, ahead)
  BY <1>3 DEF BySize
<1>6. /\ InOrder(s, S, R)
      /\ \A k \in 1..Cardinality(S) : ahead[s[k]] = k - 1
  BY <1>2, <1>4, <1>5, PlacedInOrder
<1>7. /\ Listing(s, Cardinality(S)) /\ ToSet(s) = S
      /\ \A i, j \in S : i < j <=> Place(s, i) < Place(s, j)
  BY <1>2, <1>6, OrderedListing
<1>8. ASSUME NEW k \in 1..Cardinality(S)
      PROVE  Cardinality({j \in S : j < s[k]}) = k - 1
  <2>1. s[k] \in S
    BY <1>7, ListingFacts
  <2>2. {j \in S \ {s[k]} : j < s[k]} = {j \in S : j < s[k]}
    <3>1. \A j \in S : ~(j < j)
      OBVIOUS
    <3>. QED BY <2>1, <3>1
  <2>. QED BY <1>3, <1>6, <2>1, <2>2
<1>. QED BY <1>7, <1>8

\* FirstOf takes k, or all there are, and leaves out no earlier one.
LEMMA FirstOfFacts ==
    ASSUME NEW S \in SUBSET Int, IsFiniteSet(S), NEW k \in Nat
    PROVE  /\ FirstOf(S, k) \subseteq S
           /\ \A i \in FirstOf(S, k), j \in S : j < i => j \in FirstOf(S, k)
           /\ IsFiniteSet(FirstOf(S, k))
           /\ Cardinality(FirstOf(S, k)) = Least(k, Cardinality(S))
<1>1. PICK size \in Nat : size = Cardinality(S)
  BY FS_CardinalityType
<1>2. PICK least \in Nat : least = Least(k, size)
  BY DEF Least
<1>3. PICK F : F = FirstOf(S, k)
  OBVIOUS
<1>4. F \subseteq S /\ IsFiniteSet(F)
  BY <1>3, FS_Subset DEF FirstOf
<1>5. ASSUME NEW i \in F, NEW j \in S, j < i PROVE j \in F
  <2>1. PICK A, B : A = {x \in S : x < j} /\ B = {x \in S : x < i}
    OBVIOUS
  <2>2. A \subseteq B /\ B \subseteq S
    <3>1. i \in Int /\ j \in Int /\ \A x \in S : x \in Int
      BY <1>4, <1>5
    <3>2. \A x \in S : x < j => x < i
      BY <1>5, <3>1
    <3>. QED BY <2>1, <3>2
  <2>3. IsFiniteSet(B) /\ Cardinality(B) \in Nat /\ Cardinality(A) <= Cardinality(B)
        /\ Cardinality(A) \in Nat
    BY <2>2, FS_Subset, FS_CardinalityType
  <2>4. Cardinality(B) < k
    BY <1>3, <2>1 DEF FirstOf
  <2>. QED BY <1>3, <2>1, <2>3, <2>4 DEF FirstOf
<1>6. Cardinality(F) = least
  <2>1. PICK s : s = BySize(S)
    OBVIOUS
  <2>2. /\ Listing(s, size) /\ ToSet(s) = S
        /\ \A x \in 1..size : Cardinality({j \in S : j < s[x]}) = x - 1
    BY <1>1, <2>1, SortedNumbers
  <2>3. \A x \in 1..size : s[x] \in F <=> x <= k
    <3>1. \A x \in 1..size : s[x] \in S /\ (x - 1 < k <=> x <= k)
      BY <2>2, ListingFacts
    <3>. QED BY <1>3, <2>2, <3>1 DEF FirstOf
  <2>4. \A x \in 1..least : x \in 1..size /\ x <= k
    BY <1>1, <1>2 DEF Least
  <2>5. \A x \in 1..size : x <= k => x \in 1..least
    BY <1>1, <1>2 DEF Least
  <2>6. PICK f : f = [x \in 1..least |-> s[x]]
    OBVIOUS
  <2>7. f \in [1..least -> F] /\ \A x, y \in 1..least : f[x] = f[y] => x = y
    <3>1. \A x \in 1..least : f[x] \in F
      BY <2>3, <2>4, <2>6
    <3>2. \A x, y \in 1..size : s[x] = s[y] => x = y
      BY <2>2 DEF Listing
    <3>. QED BY <2>4, <2>6, <3>1, <3>2
  <2>8. \A i \in F : \E x \in 1..least : f[x] = i
    <3>1. \A i \in F : Place(s, i) \in 1..size /\ s[Place(s, i)] = i
      BY <1>4, <2>2, ListingFacts
    <3>. QED BY <2>3, <2>5, <2>6, <3>1
  <2>9. f \in Surjection(1..least, F) /\ f \in Injection(1..least, F)
    BY <2>7, <2>8 DEF Surjection, Injection, IsInjective
  <2>10. IsFiniteSet(1..least) /\ Cardinality(1..least) = least
    BY FS_Interval
  <2>. QED BY <2>9, <2>10, FS_Surjection
<1>. QED BY <1>1, <1>2, <1>3, <1>4, <1>5, <1>6

\* The positions that the shortlist takes of n, those in T being tested.
Proven(T, cap) == IF cap < 2 THEN {} ELSE FirstOf(T, cap - 1)
Chosen(n, T, cap) == Proven(T, cap) \cup Reserved((1..n) \ T, cap)
Filled(n, T, cap) ==
    Chosen(n, T, cap) \cup
    FirstOf((1..n) \ Chosen(n, T, cap), cap - Cardinality(Chosen(n, T, cap)))

\* As many as there is room for; the first of the tested and the first of the
\* others; and one of the others as long as the tested fill the rest.
WellFilled(filled, n, T, cap) ==
    /\ filled \subseteq 1..n /\ IsFiniteSet(filled)
    /\ Cardinality(filled) = Least(cap, n)
    /\ cap = 1 => \A i \in filled, j \in 1..n : j < i => j \in filled
    /\ \A i \in filled \cap T, j \in T : j < i => j \in filled
    /\ \A i \in filled \ T, j \in (1..n) \ T : j < i => j \in filled
    /\ cap >= 2 /\ T # 1..n =>
          /\ filled \ T # {}
          /\ Cardinality(filled \ T) > 1 => Cardinality(T) < cap - 1

LEMMA Positions ==
    ASSUME NEW n \in Nat, NEW T \in SUBSET (1..n), NEW cap \in Nat \ {0}
    PROVE  WellFilled(Filled(n, T, cap), n, T, cap)
<1>0. PICK filled : filled = Filled(n, T, cap)
  OBVIOUS
<1>a. PICK slot : slot = Reserved((1..n) \ T, cap)
  OBVIOUS
<1>b. PICK proven : proven = Proven(T, cap)
  OBVIOUS
<1>c. PICK chosen : chosen = Chosen(n, T, cap)
  OBVIOUS
<1>d. chosen = proven \cup slot
  BY <1>a, <1>b, <1>c DEF Chosen
<1>1. IsFiniteSet(1..n) /\ Cardinality(1..n) = n
  BY FS_Interval
<1>2. /\ IsFiniteSet(T) /\ Cardinality(T) \in Nat
      /\ IsFiniteSet((1..n) \ T) /\ Cardinality((1..n) \ T) \in Nat
  BY <1>1, FS_Subset, FS_CardinalityType
<1>3. PICK rest : rest = (1..n) \ chosen
  OBVIOUS
<1>4. /\ proven \subseteq T /\ IsFiniteSet(proven)
      /\ \A i \in proven, j \in T : j < i => j \in proven
      /\ Cardinality(proven) = IF cap < 2 THEN 0 ELSE Least(cap - 1, Cardinality(T))
  <2>1. CASE cap < 2
    BY <1>b, <2>1, FS_EmptySet DEF Proven
  <2>2. CASE ~(cap < 2)
    <3>1. cap - 1 \in Nat /\ T \in SUBSET Int
      OBVIOUS
    <3>. QED BY <1>2, <1>b, <2>2, <3>1, FirstOfFacts DEF Proven
  <2>. QED BY <2>1, <2>2
<1>5. /\ slot \subseteq (1..n) \ T /\ IsFiniteSet(slot)
      /\ \A i \in slot, j \in (1..n) \ T : j < i => j \in slot
      /\ Cardinality(slot) =
            IF cap < 2 THEN 0 ELSE Least(1, Cardinality((1..n) \ T))
  <2>1. CASE cap < 2
    BY <1>a, <2>1, FS_EmptySet DEF Reserved
  <2>2. CASE ~(cap < 2)
    <3>1. 1 \in Nat /\ (1..n) \ T \in SUBSET Int
      OBVIOUS
    <3>. QED BY <1>2, <1>a, <2>2, <3>1, FirstOfFacts DEF Reserved
  <2>. QED BY <2>1, <2>2
<1>6. /\ IsFiniteSet(chosen) /\ chosen \subseteq 1..n
      /\ Cardinality(chosen) = Cardinality(proven) + Cardinality(slot)
      /\ Cardinality(proven) \in Nat /\ Cardinality(slot) \in Nat
  <2>1. proven \cap slot = {}
    BY <1>4, <1>5
  <2>2. Cardinality({}) = 0
    BY FS_EmptySet
  <2>3. Cardinality(proven) \in Nat /\ Cardinality(slot) \in Nat
    BY <1>4, <1>5, FS_CardinalityType
  <2>4. /\ IsFiniteSet(proven \cup slot)
        /\ Cardinality(proven \cup slot) =
              Cardinality(proven) + Cardinality(slot) - Cardinality(proven \cap slot)
    BY <1>4, <1>5, FS_Union
  <2>5. chosen \subseteq 1..n
    BY <1>4, <1>5, <1>d
  <2>6. Cardinality(proven) + Cardinality(slot) - 0
          = Cardinality(proven) + Cardinality(slot)
    BY <2>3
  <2>. QED BY <1>d, <2>1, <2>2, <2>3, <2>4, <2>5, <2>6
<1>7. Cardinality(chosen) \in Nat /\ Cardinality(chosen) <= cap
      /\ Cardinality(chosen) <= n
  <2>1. Cardinality(chosen) <= n
    BY <1>1, <1>6, FS_Subset
  <2>. QED BY <1>2, <1>4, <1>5, <1>6, <2>1 DEF Least
<1>8. IsFiniteSet(rest) /\ Cardinality(rest) = n - Cardinality(chosen)
  <2>1. (1..n) \cap chosen = chosen
    BY <1>6
  <2>2. /\ IsFiniteSet((1..n) \ chosen)
        /\ Cardinality((1..n) \ chosen)
              = Cardinality(1..n) - Cardinality((1..n) \cap chosen)
    BY <1>1, FS_Difference
  <2>. QED BY <1>1, <1>3, <2>1, <2>2
<1>9. PICK topup : topup = FirstOf(rest, cap - Cardinality(chosen))
  OBVIOUS
<1>10. /\ topup \subseteq rest /\ IsFiniteSet(topup)
       /\ \A i \in topup, j \in rest : j < i => j \in topup
       /\ Cardinality(topup) =
             Least(cap - Cardinality(chosen), n - Cardinality(chosen))
  <2>1. cap - Cardinality(chosen) \in Nat /\ rest \in SUBSET Int
    BY <1>3, <1>7
  <2>. QED BY <1>8, <1>9, <2>1, FirstOfFacts
<1>11. filled = chosen \cup topup
  BY <1>0, <1>c, <1>3, <1>9 DEF Filled
<1>12. filled \subseteq 1..n /\ IsFiniteSet(filled)
  BY <1>1, <1>3, <1>6, <1>10, <1>11, FS_Subset
<1>13. Cardinality(filled) = Least(cap, n)
  <2>1. chosen \cap topup = {}
    BY <1>3, <1>10
  <2>2. Cardinality({}) = 0
    BY FS_EmptySet
  <2>3. Cardinality(filled) =
          Cardinality(chosen) + Cardinality(topup) - Cardinality(chosen \cap topup)
    BY <1>6, <1>10, <1>11, FS_Union
  <2>4. Cardinality(filled) = Cardinality(chosen) + Cardinality(topup)
    <3>1. Cardinality(chosen) \in Nat /\ Cardinality(topup) \in Nat
      BY <1>7, <1>10, FS_CardinalityType
    <3>2. Cardinality(chosen) + Cardinality(topup) - 0
            = Cardinality(chosen) + Cardinality(topup)
      BY <3>1
    <3>. QED BY <2>1, <2>2, <2>3, <3>2
  <2>. QED BY <1>7, <1>10, <2>4 DEF Least
<1>14. ASSUME cap = 1, NEW i \in filled, NEW j \in 1..n, j < i PROVE j \in filled
  <2>1. chosen = {}
    BY <1>14, <1>a, <1>b, <1>d DEF Reserved, Proven
  <2>. QED BY <1>3, <1>10, <1>11, <1>14, <2>1
<1>15. ASSUME NEW i \in filled \cap T, NEW j \in T, j < i PROVE j \in filled
  <2>1. i \in proven \/ i \in topup
    BY <1>d, <1>5, <1>11, <1>15
  <2>2. j \in chosen \/ j \in rest
    BY <1>3
  <2>. QED BY <1>d, <1>4, <1>10, <1>11, <1>15, <2>1, <2>2
<1>16. ASSUME NEW i \in filled \ T, NEW j \in (1..n) \ T, j < i PROVE j \in filled
  <2>1. i \in slot \/ i \in topup
    BY <1>d, <1>4, <1>11, <1>16
  <2>2. j \in chosen \/ j \in rest
    BY <1>3
  <2>. QED BY <1>d, <1>5, <1>10, <1>11, <1>16, <2>1, <2>2
<1>17. ASSUME cap >= 2, T # 1..n
       PROVE  /\ filled \ T # {}
              /\ Cardinality(filled \ T) > 1 => Cardinality(T) < cap - 1
  <2>1. Cardinality((1..n) \ T) # 0
    <3>1. (1..n) \ T # {}
      BY <1>17
    <3>. QED BY <1>2, <3>1, FS_EmptySet
  <2>2. Cardinality(slot) = 1
    BY <1>2, <1>5, <1>17, <2>1 DEF Least
  <2>3. slot # {}
    BY <2>2, FS_EmptySet
  <2>4. slot \subseteq filled \ T
    BY <1>d, <1>5, <1>11
  <2>5. ASSUME Cardinality(filled \ T) > 1 PROVE Cardinality(T) < cap - 1
    <3>1. filled \ T # slot
      BY <2>2, <2>5
    <3>2. PICK i \in filled \ T : i \notin slot
      BY <2>4, <3>1
    <3>3. i \in topup
      BY <1>d, <1>4, <1>11, <3>2
    <3>4. Cardinality(topup) # 0
      BY <1>10, <3>3, FS_EmptySet
    <3>5. Cardinality(chosen) < cap
      BY <1>7, <1>10, <3>4 DEF Least
    <3>6. Cardinality(proven) < cap - 1
      BY <1>6, <2>2, <3>5
    <3>. QED BY <1>2, <1>4, <1>17, <3>6 DEF Least
  <2>. QED BY <2>3, <2>4, <2>5
<1>. QED BY <1>0, <1>12, <1>13, <1>14, <1>15, <1>16, <1>17 DEF WellFilled

\* The shortlist is the list at the positions that were filled, by size.
LEMMA ShortlistIs ==
    ASSUME NEW items, NEW n, Listing(items, n), NEW tested, NEW cap \in Nat \ {0},
           NEW T, T = {i \in 1..n : items[i] \in tested},
           NEW order, order = BySize(Filled(n, T, cap))
    PROVE  Shortlist(items, tested, cap).list = [k \in DOMAIN order |-> items[order[k]]]
<1>1. DOMAIN items = 1..n
  BY ListingFacts
<1>. DEFINE S == Filled(n, T, cap)
            above == [j \in S |-> Cardinality({i \in S \ {j} : i < j})]
            sorted == [k \in 1..Cardinality(S) |-> CHOOSE j \in S : above[j] = k - 1]
<1>2. Shortlist(items, tested, cap).list = [k \in DOMAIN sorted |-> items[sorted[k]]]
  BY <1>1 DEF Shortlist, Filled, Chosen, Proven, Sorted
<1>3. sorted = order
  BY DEF BySize, Placed
<1>. HIDE DEF sorted
<1>. QED BY <1>2, <1>3

\* The shortlist has the positions that were filled, in the order of the list.
TestedAt(items, n, tested) == {i \in 1..n : items[i] \in tested}
WellCut(short, items, n, filled, cap) ==
    /\ Listing(short, Least(cap, n))
    /\ ToSet(short) = {items[i] : i \in filled}
    /\ \A i, j \in filled :
          Before(short, items[i], items[j]) <=> Before(items, items[i], items[j])
    /\ cap = 1 => short = SubSeq(items, 1, Len(short))

LEMMA ShortlistFacts ==
    ASSUME NEW items, NEW n, Listing(items, n), NEW tested, NEW cap \in Nat \ {0}
    PROVE  WellCut(Shortlist(items, tested, cap).list, items, n,
                   Filled(n, TestedAt(items, n, tested), cap), cap)
<1>a. PICK T : T = TestedAt(items, n, tested)
  OBVIOUS
<1>b. PICK filled : filled = Filled(n, T, cap)
  OBVIOUS
<1>c. PICK short : short = Shortlist(items, tested, cap).list
  OBVIOUS
<1>1. PICK order : order = BySize(filled)
  OBVIOUS
<1>2. DOMAIN items = 1..n /\ n \in Nat /\ T \in SUBSET (1..n)
  BY <1>a, ListingFacts DEF TestedAt
<1>3. /\ filled \subseteq 1..n /\ IsFiniteSet(filled)
      /\ Cardinality(filled) = Least(cap, n)
      /\ cap = 1 => \A i \in filled, j \in 1..n : j < i => j \in filled
  <2>1. WellFilled(Filled(n, T, cap), n, T, cap)
    BY <1>2, Positions
  <2>. QED BY <1>b, <2>1 DEF WellFilled
<1>4. /\ Listing(order, Least(cap, n)) /\ ToSet(order) = filled
      /\ \A i, j \in filled : i < j <=> Place(order, i) < Place(order, j)
  <2>1. filled \in SUBSET Int
    BY <1>3
  <2>. QED BY <1>1, <1>3, <2>1, SortedNumbers
<1>5. short = [k \in DOMAIN order |-> items[order[k]]]
  BY <1>1, <1>a, <1>b, <1>c, ShortlistIs DEF TestedAt
<1>6. /\ Listing(short, Least(cap, n))
      /\ ToSet(short) = {items[i] : i \in filled}
      /\ \A i \in filled : Place(short, items[i]) = Place(order, i)
  <2>1. \A i, j \in ToSet(order) : items[i] = items[j] => i = j
    BY <1>3, <1>4 DEF Listing
  <2>2. /\ Listing(short, Least(cap, n))
        /\ ToSet(short) = {items[i] : i \in ToSet(order)}
        /\ \A i \in ToSet(order) : Place(short, items[i]) = Place(order, i)
    BY ONLY <1>4, <1>5, <2>1, Composed
  <2>. QED BY <1>4, <2>2
<1>7. ASSUME NEW i \in filled, NEW j \in filled
      PROVE  Before(short, items[i], items[j]) <=> Before(items, items[i], items[j])
  <2>1. items[i] \in ToSet(short) /\ items[j] \in ToSet(short)
    BY <1>6
  <2>2. i \in 1..n /\ j \in 1..n
    BY <1>3
  <2>3. /\ items[i] \in ToSet(items) /\ items[j] \in ToSet(items)
        /\ Place(items, items[i]) = i /\ Place(items, items[j]) = j
    BY <2>2, ListingFacts
  <2>. QED BY <1>4, <1>6, <2>1, <2>3, BeforeIs
<1>8. ASSUME cap = 1 PROVE short = SubSeq(items, 1, Len(short))
  <2>1. Len(short) = Least(1, n) /\ DOMAIN short = 1..Least(1, n)
        /\ DOMAIN order = 1..Least(1, n)
    BY <1>4, <1>6, <1>8, ListingFacts
  <2>2. items \in Seq(ToSet(items)) /\ Len(items) = n
    BY ListingFacts
  <2>3. CASE n = 0
    <3>1. Least(1, n) = 0
      BY <2>3 DEF Least
    <3>2. short = <<>>
      BY <1>5, <2>1, <3>1
    <3>3. SubSeq(items, 1, 0) = <<>>
      BY <2>2
    <3>. QED BY <2>1, <3>1, <3>2, <3>3
  <2>4. CASE n # 0
    <3>1. Least(1, n) = 1
      BY <1>2, <2>4 DEF Least
    <3>a. Listing(order, 1) /\ ToSet(order) = filled
      BY <1>4, <1>8, <3>1
    <3>2. order[1] \in filled /\ 1 \in 1..1
      BY ONLY <3>a, ListingFacts
    <3>3. 1 \in filled
      <4>1. 1 \in 1..n
        BY <1>2, <2>4
      <4>2. PICK i \in filled : i = order[1]
        BY <3>2
      <4>3. i \in 1..n /\ (1 < i \/ i = 1)
        BY <1>2, <1>3
      <4>. QED BY <1>3, <1>8, <4>1, <4>3
    <3>4. order[1] = 1
      <4>1. PICK k \in 1..1 : order[k] = 1
        BY ONLY <3>a, <3>3, ListingFacts
      <4>. QED BY <4>1
    <3>5. short = [k \in 1..1 |-> items[k]]
      <4>1. short[1] = items[1]
        BY <1>5, <2>1, <3>1, <3>2, <3>4
      <4>2. short = [k \in 1..1 |-> short[k]]
        BY <1>6, <3>1, <1>8 DEF Listing
      <4>. QED BY <4>1, <4>2
    <3>6. SubSeq(items, 1, 1) = [k \in 1..1 |-> items[k]]
      <4>1. 1 \in 1..n
        BY <1>2, <2>4
      <4>2. /\ SubSeq(items, 1, 1) \in Seq(ToSet(items))
            /\ Len(SubSeq(items, 1, 1)) = 1
            /\ SubSeq(items, 1, 1)[1] = items[1]
        BY <2>2, <4>1
      <4>. QED BY <4>2
    <3>. QED BY <2>1, <3>1, <3>5, <3>6
  <2>. QED BY <2>3, <2>4
<1>. QED BY <1>a, <1>b, <1>c, <1>6, <1>7, <1>8 DEF WellCut

\* The prior lists everybody, and so does what is fused with it.
LEMMA PriorLists ==
    ASSUME ItemCount \in Nat
    PROVE  /\ Listing(Prior1, ItemCount) /\ ToSet(Prior1) = Items
           /\ IsFiniteSet(Items)
           /\ \A m, n \in Items : Before(Prior1, m, n) <=> m < n
<1>1. Listing(Prior1, ItemCount)
  BY DEF Listing, Prior1, Items
<1>2. ToSet(Prior1) = Items
  BY DEF Prior1, Items, ToSet
<1>3. \A m \in Items : Prior1[m] = m /\ Place(Prior1, Prior1[m]) = m
  BY <1>1, ListingFacts DEF Prior1, Items
<1>4. ASSUME NEW m \in Items, NEW n \in Items
      PROVE  Before(Prior1, m, n) <=> m < n
  BY <1>2, <1>3, BeforeIs
<1>5. IsFiniteSet(Items)
  BY FS_Interval DEF Items
<1>. QED BY <1>1, <1>2, <1>4, <1>5

\* OneSlotEach, for any number of memories: a shortlist of what was fused keeps
\* the order, passes nobody over within the tested and within the untested, and
\* has one place for the untested as long as the tested fill the others.
THEOREM SlotIsReserved == CasesInit => OneSlotEach
<1>. SUFFICES ASSUME CasesInit, input.of = "fusion" PROVE OneSlotEach
  BY DEF OneSlotEach
<1>1. /\ input.relevance \in Lists /\ input.tested \in SUBSET Items
      /\ input.cap \in 1..3
  <2>1. input \in Fusions
    BY DEF CasesInit, Merges, Gates, Searches
  <2>. QED BY <2>1 DEF Fusions
<1>2. PICK cap \in Nat \ {0} : cap = input.cap
  BY <1>1
<1>3. PICK tested \in SUBSET Items : tested = input.tested
  BY <1>1
<1>4. ItemCount \in Nat
  BY CasesAssumption
<1>5. PICK items : items = Fused(Prior1, input.relevance)
  OBVIOUS
<1>. DEFINE n == ItemCount
<1>6. Listing(items, n) /\ ToSet(items) = Items /\ IsFiniteSet(Items)
  <2>1. \E k \in Nat : Listing(input.relevance, k)
    BY <1>1, <1>4, PriorLists, ListsAreListings DEF Lists
  <2>. QED BY <1>4, <1>5, <2>1, PriorLists, FusionKeeps
<1>7. PICK T : T = {i \in 1..n : items[i] \in tested}
  OBVIOUS
<1>8. PICK filled : filled = Filled(n, T, cap)
  OBVIOUS
<1>9. PICK short : short = Shortlist(items, tested, cap).list
  OBVIOUS
<1>10. PICK fresh : fresh = Items \ tested
  OBVIOUS
<1>11. /\ filled \subseteq 1..n /\ IsFiniteSet(filled)
       /\ \A i \in filled \cap T, j \in T : j < i => j \in filled
       /\ \A i \in filled \ T, j \in (1..n) \ T : j < i => j \in filled
       /\ cap >= 2 /\ T # 1..n =>
             /\ filled \ T # {}
             /\ Cardinality(filled \ T) > 1 => Cardinality(T) < cap - 1
  <2>1. n \in Nat /\ T \in SUBSET (1..n)
    BY <1>4, <1>7
  <2>2. WellFilled(Filled(n, T, cap), n, T, cap)
    BY <2>1, Positions
  <2>. QED BY <1>8, <2>2 DEF WellFilled
<1>12. /\ Listing(short, Least(cap, n))
       /\ ToSet(short) = {items[i] : i \in filled}
       /\ \A i, j \in filled :
             Before(short, items[i], items[j]) <=> Before(items, items[i], items[j])
       /\ cap = 1 => short = SubSeq(items, 1, Len(short))
  <2>1. T = TestedAt(items, n, tested)
    BY <1>7 DEF TestedAt
  <2>2. WellCut(Shortlist(items, tested, cap).list, items, n,
                Filled(n, TestedAt(items, n, tested), cap), cap)
    BY <1>6, ShortlistFacts
  <2>. QED BY <1>8, <1>9, <2>1, <2>2 DEF WellCut
<1>13. /\ \A i \in 1..n : items[i] \in Items /\ Place(items, items[i]) = i
       /\ \A m \in Items : Place(items, m) \in 1..n /\ items[Place(items, m)] = m
       /\ \A i, j \in 1..n : items[i] = items[j] => i = j
       /\ Len(items) = n
  BY <1>6, ListingFacts DEF Listing
<1>14. \A m \in Items : m \in ToSet(short) <=> Place(items, m) \in filled
  BY <1>11, <1>12, <1>13
<1>15. ASSUME NEW x \in ToSet(short), NEW y \in ToSet(short)
       PROVE  Before(short, x, y) <=> Before(items, x, y)
  <2>1. PICK i \in filled, j \in filled : x = items[i] /\ y = items[j]
    BY <1>12
  <2>. QED BY <1>12, <2>1
<1>16. Len(short) = IF cap < Len(items) THEN cap ELSE Len(items)
  BY <1>12, <1>13, ListingFacts DEF Least
<1>17. ASSUME NEW x \in tested, NEW y \in tested, Before(items, x, y),
              y \in ToSet(short)
       PROVE  x \in ToSet(short)
  <2>1. x \in Items /\ y \in Items /\ Place(items, x) < Place(items, y)
    BY <1>17 DEF Before
  <2>2. Place(items, x) \in T /\ Place(items, y) \in filled \cap T
    BY <1>7, <1>13, <1>14, <1>17, <2>1
  <2>. QED BY <1>11, <1>14, <2>1, <2>2
<1>18. ASSUME NEW x \in fresh, NEW y \in fresh, Before(items, x, y),
              y \in ToSet(short)
       PROVE  x \in ToSet(short)
  <2>1. x \in Items /\ y \in Items /\ Place(items, x) < Place(items, y)
    BY <1>10, <1>18 DEF Before
  <2>2. Place(items, x) \in (1..n) \ T /\ Place(items, y) \in filled \ T
    BY <1>7, <1>10, <1>13, <1>14, <1>18, <2>1
  <2>. QED BY <1>11, <1>14, <2>1, <2>2
<1>19. PICK tried : tried = Cardinality(fresh \cap ToSet(short))
  OBVIOUS
<1>20. /\ IsFiniteSet(filled \ T) /\ tried = Cardinality(filled \ T)
       /\ Cardinality(T) = Cardinality(tested)
  <2>1. PICK at : at = [m \in Items |-> Place(items, m)]
    OBVIOUS
  <2>2. IsFiniteSet(fresh \cap ToSet(short)) /\ IsFiniteSet(tested)
    BY <1>6, <1>10, FS_Subset
  <2>3. ASSUME NEW S \in SUBSET Items, NEW P \in SUBSET (1..n), IsFiniteSet(S),
               \A m \in Items : m \in S <=> Place(items, m) \in P
        PROVE  IsFiniteSet(P) /\ Cardinality(P) = Cardinality(S)
    <3>1. PICK f : f = [m \in S |-> Place(items, m)]
      OBVIOUS
    <3>2. \A m \in S : f[m] \in P /\ items[f[m]] = m
      BY <1>13, <2>3, <3>1
    <3>3. f \in [S -> P] /\ \A x, y \in S : f[x] = f[y] => x = y
      BY <3>1, <3>2
    <3>4. \A i \in P : items[i] \in S /\ f[items[i]] = i
      BY <1>13, <2>3, <3>1
    <3>5. f \in Injection(S, P) /\ f \in Surjection(S, P)
      BY <3>3, <3>4 DEF Injection, IsInjective, Surjection
    <3>. QED BY <2>3, <3>5, FS_Surjection
  <2>4. \A m \in Items : m \in tested <=> Place(items, m) \in T
    BY <1>7, <1>13
  <2>5. \A m \in Items :
           m \in fresh \cap ToSet(short) <=> Place(items, m) \in filled \ T
    BY <1>10, <1>14, <2>4
  <2>6. T \in SUBSET (1..n) /\ filled \ T \in SUBSET (1..n)
        /\ fresh \cap ToSet(short) \in SUBSET Items
    BY <1>7, <1>10, <1>11
  <2>. QED BY <1>19, <2>2, <2>3, <2>4, <2>5, <2>6
<1>21. ASSUME cap >= 2
       PROVE  /\ fresh # {} => tried >= 1
              /\ tried > 1 => Cardinality(tested) < cap - 1
  <2>1. fresh # {} => T # 1..n
    BY <1>7, <1>10, <1>13
  <2>2. Cardinality(filled \ T) \in Nat
    BY <1>20, FS_CardinalityType
  <2>3. filled \ T # {} => tried >= 1
    BY <1>20, <2>2, FS_EmptySet
  <2>4. tried > 1 => fresh # {}
    <3>1. ASSUME fresh = {} PROVE tried = 0
      BY <1>19, <3>1, FS_EmptySet
    <3>. QED BY <3>1
  <2>. QED BY <1>11, <1>20, <1>21, <2>1, <2>3, <2>4
<1>22. cap # 1 => cap >= 2
  OBVIOUS
<1>23. \A x, y \in ToSet(short) : Before(short, x, y) <=> Before(items, x, y)
  BY <1>15
<1>24. \A x, y \in tested :
          Before(items, x, y) /\ y \in ToSet(short) => x \in ToSet(short)
  BY <1>17
<1>25. \A x, y \in fresh :
          Before(items, x, y) /\ y \in ToSet(short) => x \in ToSet(short)
  BY <1>18
<1>. HIDE DEF n
<1>. QED
  BY <1>2, <1>3, <1>5, <1>9, <1>10, <1>12, <1>16, <1>19, <1>21, <1>22, <1>23,
     <1>24, <1>25 DEF OneSlotEach

-----------------------------------------------------------------------------
(* The merge of the ranks of several namespaces.                            *)

\* A finite set that is not empty has a first element.
LEMMA LeastOf ==
    ASSUME NEW S, IsFiniteSet(S), S # {}, NEW R, Strict(S, R)
    PROVE  \E m \in S : \A n \in S : n = m \/ <<m, n>> \in R
<1>1. PICK s : s = Placed(S, Ahead(S, R))
  OBVIOUS
<1>2. InOrder(s, S, R)
  BY <1>1, PlacedInOrder
<1>3. PICK k \in Nat : k = Cardinality(S) /\ k # 0
  BY FS_CardinalityType, FS_EmptySet
<1>4. 1 \in 1..k /\ s[1] \in S
  BY <1>2, <1>3 DEF InOrder
<1>5. ASSUME NEW n \in S PROVE n = s[1] \/ <<s[1], n>> \in R
  <2>1. PICK j \in 1..k : s[j] = n
    BY <1>2, <1>3 DEF InOrder
  <2>2. j = 1 \/ 1 < j
    OBVIOUS
  <2>3. 1 < j => <<s[1], s[j]>> \in R
    BY <1>2, <1>3, <1>4 DEF InOrder
  <2>. QED BY <2>1, <2>2, <2>3
<1>. QED BY <1>4, <1>5

\* By the rank, then by the list.
Rounds(S) == {p \in S \X S : \/ p[1][1] < p[2][1]
                             \/ p[1][1] = p[2][1] /\ p[1][2] < p[2][2]}

\* Turns are ordered.
LEMMA RoundsStrict ==
    ASSUME NEW S \in SUBSET (Int \X Int)
    PROVE  /\ Strict(S, Rounds(S))
           /\ \A t, u \in S : <<t, u>> \in Rounds(S) <=>
                 t[1] < u[1] \/ (t[1] = u[1] /\ t[2] < u[2])
<1>1. \A t, u \in S : <<t, u>> \in Rounds(S) <=>
         t[1] < u[1] \/ (t[1] = u[1] /\ t[2] < u[2])
  BY DEF Rounds
<1>2. \A t \in S : t[1] \in Int /\ t[2] \in Int /\ t = <<t[1], t[2]>>
  OBVIOUS
<1>3. ASSUME NEW t \in S, NEW u \in S, t # u
      PROVE  <<t, u>> \in Rounds(S) \/ <<u, t>> \in Rounds(S)
  <2>1. t[1] # u[1] \/ t[2] # u[2]
    BY <1>2, <1>3
  <2>. QED BY <1>1, <1>2, <2>1
<1>4. \A t \in S : <<t, t>> \notin Rounds(S)
  BY <1>1, <1>2
<1>5. ASSUME NEW t \in S, NEW u \in S, NEW v \in S,
             <<t, u>> \in Rounds(S), <<u, v>> \in Rounds(S)
      PROVE  <<t, v>> \in Rounds(S)
  <2>1. t[1] < u[1] \/ (t[1] = u[1] /\ t[2] < u[2])
    BY <1>1, <1>5
  <2>2. u[1] < v[1] \/ (u[1] = v[1] /\ u[2] < v[2])
    BY <1>1, <1>5
  <2>3. t[1] < v[1] \/ (t[1] = v[1] /\ t[2] < v[2])
    BY <1>2, <2>1, <2>2
  <2>. QED BY <1>1, <2>3
<1>. QED BY <1>1, <1>3, <1>4, <1>5 DEF Strict

\* All turns are finitely many.
AllTurns(lists, live) == UNION {{<<p, i>> : p \in DOMAIN lists[i]} : i \in live}

\* Every rank of every list that was looked up has its turn.
LEMMA TurnsFinite ==
    ASSUME NEW lists, NEW live, IsFiniteSet(live), live \subseteq Int,
           \A i \in live : \E n \in Nat : DOMAIN lists[i] = 1..n
    PROVE  /\ IsFiniteSet(AllTurns(lists, live))
           /\ AllTurns(lists, live) \in SUBSET (Int \X Int)
           /\ \A p, i : <<p, i>> \in AllTurns(lists, live) <=>
                           i \in live /\ p \in DOMAIN lists[i]
           /\ \A t \in AllTurns(lists, live) :
                 t = <<t[1], t[2]>> /\ t[2] \in live /\ t[1] \in DOMAIN lists[t[2]]
<1>1. PICK row : row = [i \in live |-> {<<p, i>> : p \in DOMAIN lists[i]}]
  OBVIOUS
<1>2. PICK rows : rows = {row[i] : i \in live}
  OBVIOUS
<1>3. AllTurns(lists, live) = UNION rows
  BY <1>1, <1>2 DEF AllTurns
<1>4. IsFiniteSet(rows)
  <2>1. row \in Surjection(live, rows)
    BY <1>1, <1>2 DEF Surjection
  <2>. QED BY <2>1, FS_Surjection
<1>5. ASSUME NEW i \in live PROVE IsFiniteSet(row[i])
  <2>1. PICK n \in Nat : DOMAIN lists[i] = 1..n
    OBVIOUS
  <2>2. PICK f : f = [p \in 1..n |-> <<p, i>>]
    OBVIOUS
  <2>3. f \in Surjection(1..n, row[i])
    BY <1>1, <2>1, <2>2 DEF Surjection
  <2>4. IsFiniteSet(1..n)
    BY FS_Interval
  <2>. QED BY <2>3, <2>4, FS_Surjection
<1>6. IsFiniteSet(UNION rows)
  <2>1. \A T \in rows : IsFiniteSet(T)
    BY <1>2, <1>5
  <2>. QED BY <1>4, <2>1, FS_UNION
<1>7. ASSUME NEW t \in AllTurns(lists, live)
      PROVE  t = <<t[1], t[2]>> /\ t[2] \in live /\ t[1] \in DOMAIN lists[t[2]]
  BY DEF AllTurns
<1>8. ASSUME NEW p, NEW i
      PROVE  <<p, i>> \in AllTurns(lists, live) <=> i \in live /\ p \in DOMAIN lists[i]
  <2>1. ASSUME <<p, i>> \in AllTurns(lists, live)
        PROVE  i \in live /\ p \in DOMAIN lists[i]
    <3>1. PICK t \in AllTurns(lists, live) : t = <<p, i>>
      BY <2>1
    <3>2. t[1] = p /\ t[2] = i
      BY <3>1
    <3>. QED BY <1>7, <3>2
  <2>2. ASSUME i \in live, p \in DOMAIN lists[i]
        PROVE  <<p, i>> \in AllTurns(lists, live)
    <3>1. <<p, i>> \in row[i] /\ row[i] \in rows
      BY <1>1, <1>2, <2>2
    <3>. QED BY <1>3, <3>1
  <2>. QED BY <2>1, <2>2
<1>9. AllTurns(lists, live) \in SUBSET (Int \X Int)
  <2>1. \A i \in live : DOMAIN lists[i] \subseteq Int /\ i \in Int
    <3>1. \A n \in Nat : 1..n \subseteq Int
      OBVIOUS
    <3>. QED BY <3>1
  <2>2. ASSUME NEW t \in AllTurns(lists, live) PROVE t \in Int \X Int
    <3>1. t = <<t[1], t[2]>> /\ t[1] \in Int /\ t[2] \in Int
      BY <1>7, <2>1
    <3>. QED BY <3>1
  <2>. QED BY <2>2
<1>. QED BY <1>3, <1>6, <1>7, <1>8, <1>9

\* The merge: the turns up to the k-th of all lists are k for each list, and a
\* memory is placed by its first turn.
LEMMA MergeIsFair ==
    ASSUME NEW lists, NEW w \in Nat, DOMAIN lists = 1..w,
           \A i \in 1..w : lists[i] # Failed => \E n \in Nat : Listing(lists[i], n)
    PROVE  MergesFairly(lists)
<1>1. PICK live : live = {i \in 1..w : lists[i] # Failed}
  OBVIOUS
<1>2. PICK all : all = MergedRanks(lists)
  OBVIOUS
<1>3. CASE live = {}
  BY <1>1, <1>3 DEF MergesFairly, MergedRanks
<1>4. CASE live # {}
  <2>1. IsFiniteSet(live) /\ live \subseteq Int
        /\ \A i \in live : i \in 1..w /\ \E n \in Nat : Listing(lists[i], n)
    <3>1. IsFiniteSet(1..w)
      BY FS_Interval
    <3>. QED BY <1>1, <3>1, FS_Subset
  <2>2. PICK turns : turns = AllTurns(lists, live)
    OBVIOUS
  <2>3. /\ IsFiniteSet(turns) /\ turns \in SUBSET (Int \X Int)
        /\ \A p, i : <<p, i>> \in turns <=> i \in live /\ p \in DOMAIN lists[i]
        /\ \A t \in turns :
              t = <<t[1], t[2]>> /\ t[2] \in live /\ t[1] \in DOMAIN lists[t[2]]
    <3>1. \A i \in live : \E n \in Nat : DOMAIN lists[i] = 1..n
      BY <2>1, ListingFacts
    <3>. QED BY <2>1, <2>2, <3>1, TurnsFinite
  <2>4. PICK at : at = [t \in turns |-> lists[t[2]][t[1]]]
    OBVIOUS
  <2>. DEFINE Sooner(t, u) == t[1] < u[1] \/ (t[1] = u[1] /\ t[2] < u[2])
  <2>5. PICK firsts : firsts = {t \in turns : ~\E u \in turns : at[u] = at[t] /\ Sooner(u, t)}
    OBVIOUS
  <2>6. PICK R : R = Rounds(firsts)
    OBVIOUS
  <2>7. /\ IsFiniteSet(firsts) /\ firsts \subseteq turns
        /\ Strict(firsts, R)
        /\ \A t, u \in firsts : <<t, u>> \in R <=> Sooner(t, u)
    <3>1. firsts \subseteq turns /\ IsFiniteSet(firsts)
      BY <2>3, <2>5, FS_Subset
    <3>2. firsts \in SUBSET (Int \X Int)
      BY <2>3, <3>1
    <3>. QED BY <2>6, <3>1, <3>2, RoundsStrict
  <2>8. ASSUME NEW t \in firsts, NEW u \in firsts, at[t] = at[u] PROVE t = u
    <3>1. ~Sooner(t, u) /\ ~Sooner(u, t) /\ t \in turns /\ u \in turns
      BY <2>5, <2>7, <2>8
    <3>. HIDE DEF Sooner
    <3>. QED BY <2>7, <3>1 DEF Strict
  <2>9. ASSUME NEW u \in turns
        PROVE  \E t \in firsts : at[t] = at[u] /\ (t = u \/ Sooner(t, u))
    <3>1. PICK same : same = {t \in turns : at[t] = at[u]}
      OBVIOUS
    <3>2. u \in same /\ same \subseteq turns /\ IsFiniteSet(same)
      BY <2>3, <3>1, FS_Subset
    <3>3. same \in SUBSET (Int \X Int)
      BY <2>3, <3>2
    <3>4. /\ Strict(same, Rounds(same))
          /\ \A x, y \in same : <<x, y>> \in Rounds(same) <=> Sooner(x, y)
      BY <3>3, RoundsStrict
    <3>5. PICK t \in same : \A x \in same : x = t \/ <<t, x>> \in Rounds(same)
      BY <3>2, <3>4, LeastOf
    <3>6. ASSUME NEW x \in turns, at[x] = at[t], Sooner(x, t) PROVE FALSE
      <4>1. x \in same
        BY <3>1, <3>5, <3>6
      <4>2. <<x, t>> \in Rounds(same) /\ (x = t \/ <<t, x>> \in Rounds(same))
        BY <3>4, <3>5, <3>6, <4>1
      <4>. QED BY <3>4, <3>5, <4>1, <4>2 DEF Strict
    <3>7. t \in firsts
      BY <2>5, <3>2, <3>5, <3>6
    <3>8. t = u \/ Sooner(t, u)
      BY <3>2, <3>4, <3>5
    <3>. HIDE DEF Sooner
    <3>. QED BY <3>1, <3>5, <3>7, <3>8
  <2>10. PICK order : order = Placed(firsts, Ahead(firsts, R))
    OBVIOUS
  <2>11. /\ InOrder(order, firsts, R)
         /\ \A k \in 1..Cardinality(firsts) : Ahead(firsts, R)[order[k]] = k - 1
    BY <2>7, <2>10, PlacedInOrder
  <2>12. Listing(order, Cardinality(firsts)) /\ ToSet(order) = firsts
    BY <2>11, OrderedListing
  <2>13. all = [k \in DOMAIN order |-> at[order[k]]]
    <3>1. firsts = {t \in turns : ~\E u \in turns :
                       lists[u[2]][u[1]] = lists[t[2]][t[1]] /\ Sooner(u, t)}
      BY <2>4, <2>5
    <3>. DEFINE ahead == [t \in firsts |-> Cardinality({u \in firsts \ {t} : Sooner(u, t)})]
                sorted == [k \in 1..Cardinality(firsts) |->
                             CHOOSE t \in firsts : ahead[t] = k - 1]
    <3>2. ahead = Ahead(firsts, R)
      <4>1. \A t \in firsts : {u \in firsts \ {t} : Sooner(u, t)}
                                = {u \in firsts \ {t} : <<u, t>> \in R}
        BY <2>7
      <4>. HIDE DEF Sooner
      <4>. QED BY <4>1 DEF Ahead
    <3>3. sorted = order
      <4>. HIDE DEF ahead
      <4>. QED BY <2>10, <3>2 DEF Placed
    <3>4. all = [k \in DOMAIN sorted |-> lists[sorted[k][2]][sorted[k][1]]]
      <4>. DEFINE First(T) == {t \in T : ~\E u \in T :
                                 lists[u[2]][u[1]] = lists[t[2]][t[1]] /\ Sooner(u, t)}
                  Sort(F) == [k \in 1..Cardinality(F) |-> CHOOSE t \in F :
                     [m \in F |-> Cardinality({u \in F \ {m} : Sooner(u, m)})][t] = k - 1]
                  Merge(L) == IF L = {} THEN Failed
                              ELSE [k \in DOMAIN Sort(First(AllTurns(lists, L))) |->
                                      lists[Sort(First(AllTurns(lists, L)))[k][2]]
                                           [Sort(First(AllTurns(lists, L)))[k][1]]]
      <4>1. MergedRanks(lists) = Merge({i \in DOMAIN lists : lists[i] # Failed})
        BY DEF MergedRanks, AllTurns, Sorted
      <4>2. {i \in DOMAIN lists : lists[i] # Failed} = live
        BY <1>1
      <4>3. all = Merge(live)
        <5>. HIDE DEF Merge
        <5>. QED BY <1>2, <4>1, <4>2
      <4>4. First(turns) = firsts
        BY <3>1
      <4>5. Sort(firsts) = sorted
        OBVIOUS
      <4>. HIDE DEF Sort, First, sorted
      <4>. QED BY <1>4, <2>2, <4>3, <4>4, <4>5
    <3>. HIDE DEF sorted
    <3>5. \A k \in DOMAIN order : order[k] \in turns
      BY <2>7, <2>12, ListingFacts
    <3>. QED BY <2>4, <3>3, <3>4, <3>5
  <2>14. /\ Listing(all, Cardinality(firsts))
         /\ ToSet(all) = {at[t] : t \in firsts}
         /\ \A t \in firsts : Place(all, at[t]) = Place(order, t)
    <3>1. \A t, u \in ToSet(order) : at[t] = at[u] => t = u
      BY <2>8, <2>12
    <3>2. /\ Listing(all, Cardinality(firsts))
          /\ ToSet(all) = {at[t] : t \in ToSet(order)}
          /\ \A t \in ToSet(order) : Place(all, at[t]) = Place(order, t)
      BY ONLY <2>12, <2>13, <3>1, Composed
    <3>. QED BY <2>12, <3>2
  <2>15. ToSet(all) = UNION {ToSet(lists[i]) : i \in live}
    <3>1. ASSUME NEW x \in ToSet(all) PROVE \E i \in live : x \in ToSet(lists[i])
      <4>1. PICK t \in turns : x = at[t]
        BY <2>7, <2>14, <3>1
      <4>2. x = lists[t[2]][t[1]] /\ t[2] \in live /\ t[1] \in DOMAIN lists[t[2]]
        BY <2>3, <2>4, <4>1
      <4>. QED BY <4>2 DEF ToSet
    <3>2. ASSUME NEW i \in live, NEW x \in ToSet(lists[i]) PROVE x \in ToSet(all)
      <4>1. PICK k \in DOMAIN lists[i] : x = lists[i][k]
        BY <3>2 DEF ToSet
      <4>2. <<k, i>> \in turns /\ at[<<k, i>>] = x
        BY <2>3, <2>4, <3>2, <4>1
      <4>. QED BY <2>9, <2>14, <4>2
    <3>. QED BY <3>1, <3>2
  <2>16. Len(all) = Cardinality(ToSet(all))
    BY <2>14, ListingFacts
  <2>17. ASSUME NEW i \in live, NEW k \in DOMAIN lists[i]
         PROVE  Place(all, lists[i][k]) <= k * Cardinality(live)
    <3>1. <<k, i>> \in turns /\ at[<<k, i>>] = lists[i][k]
      BY <2>3, <2>4, <2>17
    <3>2. PICK t \in firsts : at[t] = lists[i][k] /\ (t = <<k, i>> \/ Sooner(t, <<k, i>>))
      BY <2>9, <3>1
    <3>3. k \in Nat
      BY <2>1, ListingFacts
    <3>4. t[1] <= k /\ t[1] \in Int
      <4>1. t[1] \in Int
        BY <2>3, <2>7
      <4>. QED BY <3>2, <3>3, <4>1
    <3>5. PICK box : box = (1..k) \X live
      OBVIOUS
    <3>6. /\ IsFiniteSet(box) /\ Cardinality(box) = k * Cardinality(live)
          /\ Cardinality(box) \in Nat
      <4>1. IsFiniteSet(1..k) /\ Cardinality(1..k) = k
        BY <3>3, FS_Interval
      <4>. QED BY <2>1, <3>5, <4>1, FS_Product, FS_CardinalityType
    <3>7. ASSUME NEW u \in firsts, u = t \/ <<u, t>> \in R PROVE u \in box
      <4>1. u = <<u[1], u[2]>> /\ u[2] \in live /\ u[1] \in DOMAIN lists[u[2]]
        BY <2>3, <2>7
      <4>2. u[1] \in Nat /\ u[1] >= 1
        BY <2>1, <4>1, ListingFacts
      <4>3. u[1] <= t[1]
        BY <2>7, <3>4, <3>7, <4>2
      <4>4. u[1] \in 1..k
        BY <3>3, <3>4, <4>2, <4>3
      <4>. QED BY <3>5, <4>1, <4>4
    <3>8. PICK before : before = {u \in firsts \ {t} : <<u, t>> \in R}
      OBVIOUS
    <3>9. Cardinality(before) <= Cardinality(box) - 1 /\ Cardinality(before) \in Nat
      <4>1. t \in box /\ before \subseteq box \ {t}
        BY <3>7, <3>8
      <4>2. IsFiniteSet(box \ {t}) /\ Cardinality(box \ {t}) = Cardinality(box) - 1
        BY <3>6, <4>1, FS_RemoveElement
      <4>3. IsFiniteSet(before) /\ Cardinality(before) <= Cardinality(box \ {t})
        BY <4>1, <4>2, FS_Subset
      <4>. QED BY <4>2, <4>3, FS_CardinalityType
    <3>10. Place(order, t) \in 1..Cardinality(firsts) /\ order[Place(order, t)] = t
      BY <2>12, ListingFacts
    <3>11. Cardinality(before) = Place(order, t) - 1
      <4>1. Ahead(firsts, R)[t] = Place(order, t) - 1
        BY <2>11, <3>10
      <4>2. Ahead(firsts, R)[t] = Cardinality(before)
        BY <3>8 DEF Ahead
      <4>. QED BY <4>1, <4>2
    <3>12. Place(all, lists[i][k]) = Place(order, t) /\ Place(order, t) \in Int
      BY <2>14, <3>2, <3>10
    <3>. QED BY <3>6, <3>9, <3>11, <3>12
  <2>. QED BY <1>1, <1>2, <1>4, <2>15, <2>16, <2>17 DEF MergesFairly
<1>. QED BY <1>3, <1>4

-----------------------------------------------------------------------------
(* The gate.                                                                *)

\* What is not everywhere is rare.
LEMMA KeywordsAreRare ==
    ASSUME NEW words \in [Items -> SUBSET Words], NEW query
    PROVE  Keywords(words, query) = Rare(words, query)
<1>1. DOMAIN words = Items
  OBVIOUS
<1>2. PICK size \in Nat : size = Cardinality(Items)
  BY CasesAssumption, PriorLists, FS_CardinalityType
<1>3. PICK count : count = [t \in query |-> Cardinality({m \in Items : t \in words[m]})]
  OBVIOUS
<1>4. ASSUME NEW t \in query
      PROVE  /\ count[t] \in Nat
             /\ t \notin UNION {words[m] : m \in Items} => count[t] = 0
  <2>1. PICK having : having = {m \in Items : t \in words[m]}
    OBVIOUS
  <2>2. IsFiniteSet(having)
    BY <2>1, CasesAssumption, PriorLists, FS_Subset
  <2>3. t \notin UNION {words[m] : m \in Items} => having = {}
    BY <2>1
  <2>. QED BY <1>3, <2>1, <2>2, <2>3, FS_CardinalityType, FS_EmptySet
<1>5. ASSUME NEW t \in query
      PROVE  t \notin Ubiquitous(words) <=> size < 4 \/ count[t] <= size \div 2
  <2>1. CASE size < 4
    BY <1>1, <1>2, <2>1 DEF Ubiquitous, DF_MIN_POOL
  <2>2. CASE ~(size < 4)
    <3>1. t \in Ubiquitous(words) <=>
             t \in UNION {words[m] : m \in Items} /\ 2 * count[t] > size
      BY <1>1, <1>2, <1>3, <2>2 DEF Ubiquitous, DF_MIN_POOL
    <3>2. 2 * count[t] > size <=> ~(count[t] <= size \div 2)
      BY <1>4
    <3>3. count[t] = 0 => count[t] <= size \div 2
      OBVIOUS
    <3>. QED BY <1>4, <2>2, <3>1, <3>2, <3>3
  <2>. QED BY <2>1, <2>2
<1>6. \A t \in query : t \in Rare(words, query) <=> size < 4 \/ count[t] <= size \div 2
  BY <1>2, <1>3 DEF Rare
<1>. QED BY <1>5, <1>6 DEF Keywords, Rare

\* By hits, then by place, then by name.
ByHits(S, hits, place, name) ==
    {p \in S \X S :
        \/ hits[p[1]] > hits[p[2]]
        \/ hits[p[1]] = hits[p[2]] /\ place[p[1]] < place[p[2]]
        \/ /\ hits[p[1]] = hits[p[2]] /\ place[p[1]] = place[p[2]]
           /\ name[p[1]] < name[p[2]]}

\* This is an order as names differ.
LEMMA ByHitsStrict ==
    ASSUME NEW S, NEW hits \in [S -> Int], NEW place \in [S -> Int],
           NEW name \in [S -> Int], \A m, n \in S : name[m] = name[n] => m = n
    PROVE  /\ Strict(S, ByHits(S, hits, place, name))
           /\ \A m, n \in S : <<m, n>> \in ByHits(S, hits, place, name) <=>
                 \/ hits[m] > hits[n]
                 \/ hits[m] = hits[n] /\ place[m] < place[n]
                 \/ hits[m] = hits[n] /\ place[m] = place[n] /\ name[m] < name[n]
<1>. DEFINE B(m, n) == \/ hits[m] > hits[n]
                       \/ hits[m] = hits[n] /\ place[m] < place[n]
                       \/ hits[m] = hits[n] /\ place[m] = place[n] /\ name[m] < name[n]
<1>1. \A m, n \in S : <<m, n>> \in ByHits(S, hits, place, name) <=> B(m, n)
  BY DEF ByHits
<1>2. \A m \in S : hits[m] \in Int /\ place[m] \in Int /\ name[m] \in Int
  OBVIOUS
<1>3. \A m \in S : ~B(m, m)
  BY <1>2
<1>4. \A m, n \in S : m # n => B(m, n) \/ B(n, m)
  BY <1>2
<1>5. \A l, m, n \in S : B(l, m) /\ B(m, n) => B(l, n)
  BY <1>2
<1>. QED
  <2>1. \A m, n \in S : <<m, n>> \in ByHits(S, hits, place, name) <=>
                 \/ hits[m] > hits[n]
                 \/ hits[m] = hits[n] /\ place[m] < place[n]
                 \/ hits[m] = hits[n] /\ place[m] = place[n] /\ name[m] < name[n]
    BY <1>1
  <2>. HIDE DEF B
  <2>. QED BY <1>1, <1>3, <1>4, <1>5, <2>1 DEF Strict

\* Who qualifies has enough rare words, and more of them put it ahead.
LEMMA RelevanceFacts ==
    ASSUME NEW words \in [Items -> SUBSET Words], NEW query \in SUBSET Words,
           NEW minHits, NEW bm25, NEW b, Listing(bm25, b),
           NEW evidence, evidence =
              [m \in Items |-> Cardinality(words[m] \cap Rare(words, query))],
           NEW S, S = Qualified(words, query, minHits),
           NEW relevance, relevance = Relevance(words, query, minHits, bm25, Prior1)
    PROVE  /\ S = {m \in Items : evidence[m] >= minHits}
           /\ IsFiniteSet(S)
           /\ Listing(relevance, Cardinality(S)) /\ ToSet(relevance) = S
           /\ \A m, n \in S : evidence[m] > evidence[n] => Before(relevance, m, n)
<1>1. Keywords(words, query) = Rare(words, query)
  BY KeywordsAreRare
<1>2. \A m \in Items : evidence[m] = Hits(words, m, Keywords(words, query))
  BY <1>1 DEF Hits
<1>3. S = {m \in Items : evidence[m] >= minHits}
  BY <1>2 DEF Qualified
<1>4. IsFiniteSet(S)
  BY <1>3, CasesAssumption, PriorLists, FS_Subset
<1>5. ASSUME NEW m \in Items PROVE evidence[m] \in Int
  <2>1. PICK had : had = words[m] \cap Rare(words, query)
    OBVIOUS
  <2>2. IsFiniteSet(had)
    BY <2>1, CasesAssumption, FS_Subset
  <2>3. Cardinality(had) \in Nat
    BY <2>2, FS_CardinalityType
  <2>. QED BY <2>1, <2>3
<1>6. PICK hits : hits = [m \in S |-> evidence[m]]
  OBVIOUS
<1>7. PICK place : place =
         [m \in S |-> IF m \in ToSet(bm25) THEN Place(bm25, m) ELSE Len(bm25) + 1]
  OBVIOUS
<1>8. PICK name : name = [m \in S |-> m]
  OBVIOUS
<1>9. hits \in [S -> Int] /\ place \in [S -> Int] /\ name \in [S -> Int]
  <2>1. hits \in [S -> Int]
    BY <1>3, <1>5, <1>6
  <2>2. ASSUME NEW m \in S PROVE place[m] \in Int
    <3>1. Len(bm25) + 1 \in Int
      BY ListingFacts
    <3>2. m \in ToSet(bm25) => Place(bm25, m) \in Int
      BY ListingFacts
    <3>. QED BY <1>7, <3>1, <3>2
  <2>3. name \in [S -> Int]
    BY <1>3, <1>8, CasesAssumption DEF Items
  <2>. QED BY <1>7, <2>1, <2>2, <2>3
<1>10. PICK R : R = ByHits(S, hits, place, name)
  OBVIOUS
<1>11. /\ Strict(S, R)
       /\ \A m, n \in S : <<m, n>> \in R <=>
             \/ hits[m] > hits[n]
             \/ hits[m] = hits[n] /\ place[m] < place[n]
             \/ hits[m] = hits[n] /\ place[m] = place[n] /\ name[m] < name[n]
  <2>1. \A m, n \in S : name[m] = name[n] => m = n
    BY <1>8
  <2>. QED BY <1>9, <1>10, <2>1, ByHitsStrict
<1>12. relevance = Placed(S, Ahead(S, R))
  <2>. DEFINE hit(m) == Hits(words, m, Keywords(words, query))
              at(m) == IF m \in ToSet(bm25) THEN Place(bm25, m) ELSE Len(bm25) + 1
              Better(n, m) == \/ hit(n) > hit(m)
                              \/ hit(n) = hit(m) /\ at(n) < at(m)
                              \/ /\ hit(n) = hit(m) /\ at(n) = at(m)
                                 /\ Prior1[n] < Prior1[m]
              ahead == [m \in S |-> Cardinality({n \in S \ {m} : Better(n, m)})]
  <2>1. relevance = Placed(S, ahead)
    BY DEF Relevance, Sorted, Placed
  <2>2. \A m, n \in S : Better(n, m) <=> <<n, m>> \in R
    <3>1. \A m \in S : hit(m) = hits[m] /\ at(m) = place[m] /\ Prior1[m] = name[m]
      BY <1>2, <1>3, <1>6, <1>7, <1>8 DEF Prior1
    <3>. HIDE DEF hit, at
    <3>. QED BY <1>11, <3>1
  <2>. HIDE DEF Better
  <2>3. \A m \in S : {n \in S \ {m} : Better(n, m)} = {n \in S \ {m} : <<n, m>> \in R}
    BY <2>2
  <2>4. ahead = Ahead(S, R)
    BY <2>3 DEF Ahead
  <2>. HIDE DEF ahead
  <2>. QED BY <2>1, <2>4
<1>13. InOrder(relevance, S, R)
  BY <1>4, <1>11, <1>12, PlacedInOrder
<1>14. /\ Listing(relevance, Cardinality(S)) /\ ToSet(relevance) = S
       /\ \A m, n \in S : <<m, n>> \in R <=> Place(relevance, m) < Place(relevance, n)
  BY <1>13, OrderedListing
<1>15. ASSUME NEW m \in S, NEW n \in S, evidence[m] > evidence[n]
       PROVE  Before(relevance, m, n)
  <2>1. <<m, n>> \in R
    <3>1. hits[m] = evidence[m] /\ hits[n] = evidence[n]
      BY <1>6
    <3>2. hits[m] > hits[n]
      BY <1>15, <3>1
    <3>. QED BY ONLY <1>11, <3>2, m \in S, n \in S
  <2>. QED BY <1>14, <2>1, BeforeIs
<1>. QED BY <1>3, <1>4, <1>14, <1>15

\* So it is served in that order where the prior agrees.
LEMMA GateIsFair ==
    ASSUME NEW words \in [Items -> SUBSET Words], NEW query \in SUBSET Words,
           NEW minHits, NEW bm25, NEW b, Listing(bm25, b)
    PROVE  EvidenceDecides(words, query, minHits, bm25)
<1>1. PICK S : S = Qualified(words, query, minHits)
  OBVIOUS
<1>2. PICK relevance : relevance = Relevance(words, query, minHits, bm25, Prior1)
  OBVIOUS
<1>3. PICK evidence : evidence =
         [m \in Items |-> Cardinality(words[m] \cap Rare(words, query))]
  OBVIOUS
<1>4. /\ S = {m \in Items : evidence[m] >= minHits}
      /\ IsFiniteSet(S)
      /\ Listing(relevance, Cardinality(S)) /\ ToSet(relevance) = S
      /\ \A m, n \in S : evidence[m] > evidence[n] => Before(relevance, m, n)
  BY <1>1, <1>2, <1>3, RelevanceFacts
<1>5. PICK items : items = BySize(S)
  OBVIOUS
<1>6. S \in SUBSET Int
  BY <1>4, CasesAssumption DEF Items
<1>7. /\ Listing(items, Cardinality(S)) /\ ToSet(items) = S
      /\ \A m, n \in S : m < n <=> Place(items, m) < Place(items, n)
  BY <1>4, <1>5, <1>6, SortedNumbers
<1>8. PICK served : served = Fused(items, relevance)
  OBVIOUS
<1>9. /\ ToSet(served) = S
      /\ \A m, n \in S :
            Before(items, m, n) /\ Before(relevance, m, n) => Before(served, m, n)
  BY <1>4, <1>7, <1>8, FusionKeeps
<1>10. \A m, n \in S :
          m < n /\ evidence[m] > evidence[n] => Before(served, m, n)
  BY <1>4, <1>7, <1>9, BeforeIs
<1>. DEFINE Q == Qualified(words, query, minHits)
            above == [m \in Q |-> Cardinality({n \in Q \ {m} : n < m})]
            sorted == [k \in 1..Cardinality(Q) |-> CHOOSE m \in Q : above[m] = k - 1]
<1>11. sorted = items
  BY <1>1, <1>5 DEF BySize, Placed
<1>12. Fused(sorted, Relevance(words, query, minHits, bm25, Prior1)) = served
  <2>. HIDE DEF sorted
  <2>. QED BY <1>2, <1>8, <1>11
<1>13. EvidenceDecides(words, query, minHits, bm25) <=>
          LET s == Fused(sorted, Relevance(words, query, minHits, bm25, Prior1))
              e == [m \in Items |-> Cardinality(words[m] \cap Rare(words, query))]
          IN  /\ ToSet(s) = {m \in Items : e[m] >= minHits}
              /\ \A m, n \in ToSet(s) : m < n /\ e[m] > e[n] => Before(s, m, n)
  BY DEF EvidenceDecides, Sorted
<1>. HIDE DEF sorted
<1>. QED BY <1>3, <1>4, <1>9, <1>10, <1>12, <1>13

-----------------------------------------------------------------------------
(* Hybrid search.                                                           *)

\* A set of natural numbers has a least element: those up to one of them are
\* finitely many.
LEMMA LeastNumber ==
    ASSUME NEW T \in SUBSET Nat, NEW t \in T
    PROVE  \E n \in T : \A m \in T : n <= m
<1>1. PICK S : S = {m \in T : m <= t}
  OBVIOUS
<1>2. t \in S /\ S \subseteq 0..t /\ S \in SUBSET Int
  <2>1. t \in Nat /\ \A m \in T : m \in Nat
    OBVIOUS
  <2>2. t \in S
    BY <1>1, <2>1
  <2>3. ASSUME NEW m \in S PROVE m \in Int /\ m \in 0..t
    <3>1. m \in Nat /\ m <= t
      BY <1>1, <2>1
    <3>. QED BY <2>1, <3>1
  <2>. QED BY <2>2, <2>3
<1>3. IsFiniteSet(S)
  <2>1. IsFiniteSet(0..t)
    BY FS_Interval
  <2>. QED BY <1>2, <2>1, FS_Subset
<1>4. PICK n \in S : \A m \in S : m = n \/ <<n, m>> \in Smaller(S)
  BY <1>2, <1>3, SmallerStrict, LeastOf
<1>5. \A m \in S : n <= m
  <2>1. \A m \in S : <<n, m>> \in Smaller(S) => n < m
    BY <1>2, SmallerStrict
  <2>2. ASSUME NEW m \in S PROVE n <= m
    <3>1. n \in Int /\ m \in Int
      BY <1>2, <1>4
    <3>2. m = n \/ n < m
      BY <1>4, <2>1
    <3>. QED BY <3>1, <3>2
  <2>. QED BY <2>2
<1>6. \A m \in T : m \in S \/ t < m
  BY <1>1
<1>7. n \in T /\ n <= t
  BY <1>1, <1>4
<1>. QED BY <1>5, <1>6, <1>7

\* Induction, from the least element.
LEMMA NumberInduction ==
    ASSUME NEW K \in SUBSET Nat, 0 \in K, \A n \in K : n + 1 \in K
    PROVE  K = Nat
<1>. SUFFICES ASSUME NEW t \in Nat \ K PROVE FALSE
  OBVIOUS
<1>1. PICK n \in Nat \ K : \A m \in Nat \ K : n <= m
  <2>1. Nat \ K \in SUBSET Nat
    OBVIOUS
  <2>. QED BY <2>1, LeastNumber
<1>2. n # 0 /\ n - 1 \in Nat /\ ~(n <= n - 1)
  BY <1>1
<1>3. n - 1 \in K
  BY <1>1, <1>2
<1>4. (n - 1) + 1 \in K
  BY <1>3
<1>. QED BY <1>1, <1>2, <1>4

\* The powers of two up to n.
Doubling(f, n) ==
    /\ f \in [0..n -> Nat \ {0}]
    /\ f[0] = 1
    /\ \A i \in 1..n : f[i] = 2 * f[i - 1]

\* They exist and are unique, and so the recursive function HalfLives is defined.
LEMMA DoublingExists ==
    ASSUME NEW n \in Nat
    PROVE  /\ \E f : Doubling(f, n)
           /\ \A f, g : Doubling(f, n) /\ Doubling(g, n) => f[n] = g[n]
<1>1. PICK K : K = {k \in Nat : /\ \E f : Doubling(f, k)
                                /\ \A f, g : Doubling(f, k) /\ Doubling(g, k) =>
                                                f[k] = g[k]}
  OBVIOUS
<1>2. 0 \in K
  <2>1. Doubling([i \in 0..0 |-> 1], 0)
    BY DEF Doubling
  <2>2. \A f, g : Doubling(f, 0) /\ Doubling(g, 0) => f[0] = g[0]
    BY DEF Doubling
  <2>. QED BY <1>1, <2>1, <2>2
<1>3. ASSUME NEW k \in K PROVE k + 1 \in K
  <2>1. k \in Nat
    BY <1>1
  <2>2. PICK f : Doubling(f, k)
    BY <1>1
  <2>3. PICK h : h = [i \in 0..(k + 1) |-> IF i = k + 1 THEN 2 * f[k] ELSE f[i]]
    OBVIOUS
  <2>4. f[k] \in Nat \ {0} /\ 2 * f[k] \in Nat \ {0}
    BY <2>1, <2>2 DEF Doubling
  <2>5. \A i \in 0..k : h[i] = f[i] /\ f[i] \in Nat \ {0}
    BY <2>1, <2>2, <2>3 DEF Doubling
  <2>6. h[k + 1] = 2 * f[k]
    BY <2>1, <2>3
  <2>7. h \in [0..(k + 1) -> Nat \ {0}]
    <3>1. \A i \in 0..(k + 1) : i \in 0..k \/ i = k + 1
      BY <2>1
    <3>. QED BY <2>3, <2>4, <2>5, <2>6, <3>1
  <2>8. ASSUME NEW i \in 1..(k + 1) PROVE h[i] = 2 * h[i - 1]
    <3>1. CASE i = k + 1
      <4>1. i - 1 = k /\ k \in 0..k
        BY <2>1, <3>1
      <4>. QED BY <2>5, <2>6, <3>1, <4>1
    <3>2. CASE i # k + 1
      <4>1. i \in 1..k /\ i \in 0..k /\ i - 1 \in 0..k
        BY <2>1, <3>2
      <4>. QED BY <2>2, <2>5, <4>1 DEF Doubling
    <3>. QED BY <3>1, <3>2
  <2>9. Doubling(h, k + 1)
    <3>1. h[0] = 1
      <4>1. 0 \in 0..k
        BY <2>1
      <4>. QED BY <2>2, <2>5, <4>1 DEF Doubling
    <3>. QED BY <2>7, <2>8, <3>1 DEF Doubling
  <2>10. ASSUME NEW a, NEW c, Doubling(a, k + 1), Doubling(c, k + 1)
         PROVE  a[k + 1] = c[k + 1]
    <3>. DEFINE cut(x) == [i \in 0..k |-> x[i]]
    <3>1. ASSUME NEW x, Doubling(x, k + 1)
          PROVE  Doubling(cut(x), k) /\ cut(x)[k] = x[k] /\ x[k + 1] = 2 * x[k]
      <4>1. \A i \in 0..k : i \in 0..(k + 1) /\ cut(x)[i] = x[i]
        BY <2>1
      <4>2. \A i \in 1..k : i \in 0..k /\ i - 1 \in 0..k /\ i \in 1..(k + 1)
        BY <2>1
      <4>3. 0 \in 0..k /\ k \in 0..k /\ k + 1 \in 1..(k + 1) /\ (k + 1) - 1 = k
        BY <2>1
      <4>4. cut(x) \in [0..k -> Nat \ {0}]
        BY <3>1, <4>1 DEF Doubling
      <4>. HIDE DEF cut
      <4>. QED BY <3>1, <4>1, <4>2, <4>3, <4>4 DEF Doubling
    <3>2. cut(a)[k] = cut(c)[k]
      <4>1. Doubling(cut(a), k) /\ Doubling(cut(c), k)
        BY <2>10, <3>1
      <4>. HIDE DEF cut
      <4>. QED BY <1>1, <4>1
    <3>. HIDE DEF cut
    <3>. QED BY <2>10, <3>1, <3>2
  <2>. QED BY <1>1, <2>1, <2>9, <2>10
<1>4. K = Nat
  BY <1>1, <1>2, <1>3, NumberInduction
<1>. QED BY <1>1, <1>4

\* HalfLives is what its equation says.
LEMMA HalfLivesDouble ==
    /\ HalfLives \in [Nat -> Nat \ {0}]
    /\ HalfLives[0] = 1
    /\ \A n \in Nat : HalfLives[n + 1] = 2 * HalfLives[n]
<1>. DEFINE value(n) == (CHOOSE f : Doubling(f, n))[n]
            g == [n \in Nat |-> value(n)]
<1>1. ASSUME NEW n \in Nat, NEW f, Doubling(f, n)
      PROVE  g[n] = f[n] /\ g[n] \in Nat \ {0}
  <2>1. Doubling(CHOOSE x : Doubling(x, n), n)
    BY <1>1
  <2>2. value(n) = f[n]
    BY <1>1, <2>1, DoublingExists
  <2>3. f[n] \in Nat \ {0}
    BY <1>1 DEF Doubling
  <2>. QED BY <2>2, <2>3
<1>2. \A n \in Nat : g[n] \in Nat \ {0}
  BY <1>1, DoublingExists
<1>3. g[0] = 1
  <2>1. PICK f : Doubling(f, 0)
    BY DoublingExists
  <2>2. f[0] = 1
    BY <2>1 DEF Doubling
  <2>. QED BY <1>1, <2>1, <2>2
<1>4. ASSUME NEW n \in Nat PROVE g[n + 1] = 2 * g[n]
  <2>1. PICK f : Doubling(f, n + 1)
    BY DoublingExists
  <2>2. PICK h : h = [i \in 0..n |-> f[i]]
    OBVIOUS
  <2>3. \A i \in 0..n : i \in 0..(n + 1) /\ h[i] = f[i]
    BY <2>2
  <2>4. \A i \in 1..n : i \in 0..n /\ i - 1 \in 0..n /\ i \in 1..(n + 1)
    OBVIOUS
  <2>5. 0 \in 0..n /\ n \in 0..n /\ n + 1 \in 1..(n + 1) /\ (n + 1) - 1 = n
    OBVIOUS
  <2>6. h \in [0..n -> Nat \ {0}]
    BY <2>1, <2>2, <2>3 DEF Doubling
  <2>7. Doubling(h, n)
    BY <2>1, <2>3, <2>4, <2>5, <2>6 DEF Doubling
  <2>8. f[n + 1] = 2 * f[n]
    BY <2>1, <2>5 DEF Doubling
  <2>9. g[n] = h[n] /\ g[n + 1] = f[n + 1]
    <3>1. n + 1 \in Nat
      OBVIOUS
    <3>. HIDE DEF g
    <3>. QED BY <1>1, <2>1, <2>7, <3>1
  <2>. HIDE DEF g
  <2>. QED BY <2>3, <2>5, <2>8, <2>9
<1>. DEFINE F(f) == [age \in Nat |-> IF age = 0 THEN 1 ELSE 2 * f[age - 1]]
<1>5. g = F(g)
  <2>1. ASSUME NEW n \in Nat
        PROVE  g[n] = IF n = 0 THEN 1 ELSE 2 * g[n - 1]
    <3>1. n # 0 => n - 1 \in Nat /\ (n - 1) + 1 = n
      OBVIOUS
    <3>. HIDE DEF g
    <3>. QED BY <1>3, <1>4, <3>1
  <2>2. g = [n \in Nat |-> g[n]]
    OBVIOUS
  <2>. HIDE DEF g
  <2>. QED BY <2>1, <2>2
<1>6. HalfLives = CHOOSE f : f = F(f)
  BY DEF HalfLives
<1>7. HalfLives = F(HalfLives)
  <2>. HIDE DEF g, F
  <2>. QED BY <1>5, <1>6
<1>8. HalfLives[0] = 1 /\ \A n \in Nat : HalfLives[n + 1] = 2 * HalfLives[n]
  <2>1. PICK f : f = HalfLives
    OBVIOUS
  <2>2. f = [age \in Nat |-> IF age = 0 THEN 1 ELSE 2 * f[age - 1]]
    BY <1>7, <2>1
  <2>3. f[0] = 1
    BY <2>2
  <2>4. ASSUME NEW n \in Nat PROVE f[n + 1] = 2 * f[n]
    <3>1. n + 1 \in Nat /\ n + 1 # 0 /\ (n + 1) - 1 = n
      OBVIOUS
    <3>. QED BY <2>2, <3>1
  <2>. QED BY <2>1, <2>3, <2>4
<1>9. PICK K : K = {n \in Nat : HalfLives[n] \in Nat \ {0}}
  OBVIOUS
<1>10. K = Nat
  <2>1. 0 \in K
    BY <1>8, <1>9
  <2>2. ASSUME NEW n \in K PROVE n + 1 \in K
    <3>1. n \in Nat /\ HalfLives[n] \in Nat \ {0} /\ HalfLives[n + 1] = 2 * HalfLives[n]
      BY <1>8, <1>9
    <3>. QED BY <1>9, <3>1
  <2>. QED BY <1>9, <2>1, <2>2, NumberInduction
<1>11. HalfLives \in [Nat -> Nat \ {0}]
  <2>1. HalfLives = [n \in Nat |-> HalfLives[n]]
    BY <1>7
  <2>2. \A n \in Nat : HalfLives[n] \in Nat \ {0}
    BY <1>9, <1>10
  <2>. QED BY <2>1, <2>2
<1>. QED BY <1>8, <1>11

\* What is not older has not had more half-lives.
LEMMA HalfLivesGrow ==
    ASSUME NEW m \in Nat, NEW n \in Nat, m <= n
    PROVE  HalfLives[m] <= HalfLives[n]
<1>1. PICK K : K = {d \in Nat : HalfLives[m] <= HalfLives[m + d]}
  OBVIOUS
<1>2. 0 \in K
  BY <1>1, HalfLivesDouble
<1>3. ASSUME NEW d \in K PROVE d + 1 \in K
  <2>1. d \in Nat /\ m + d \in Nat /\ m + (d + 1) = (m + d) + 1
    BY <1>1
  <2>2. HalfLives[m + d] \in Nat /\ HalfLives[m] \in Nat
    BY <2>1, HalfLivesDouble
  <2>3. HalfLives[(m + d) + 1] = 2 * HalfLives[m + d]
    BY <2>1, HalfLivesDouble
  <2>4. HalfLives[m] <= HalfLives[m + d]
    BY <1>1, <1>3
  <2>5. HalfLives[m] <= HalfLives[m + (d + 1)]
    BY <2>1, <2>2, <2>3, <2>4
  <2>. QED BY <1>1, <2>1, <2>5
<1>4. K = Nat
  BY <1>1, <1>2, <1>3, NumberInduction
<1>5. n - m \in Nat /\ m + (n - m) = n
  OBVIOUS
<1>. QED BY <1>1, <1>4, <1>5

\* The product of three: a higher score, not less of a boost, not more age.
LEMMA ProductsOrdered ==
    ASSUME NEW x \in Int, NEW y \in Int, 0 <= y, y < x,
           NEW b \in Int, NEW c \in Int, c <= b, 0 < b,
           NEW g \in Nat \ {0}, NEW h \in Nat \ {0}, g <= h
    PROVE  (y * c) * g < (x * b) * h
<1>1. /\ y * c \in Int /\ x * b \in Int /\ y * b \in Int
      /\ (y * c) * g \in Int /\ (x * b) * h \in Int
  OBVIOUS
<1>2. y * c <= y * b
  OBVIOUS
<1>3. b \in Nat \ {0}
  OBVIOUS
<1>4. y * b < x * b
  BY <1>3, Scale
<1>5. 0 <= y * b
  <2>1. y = 0 \/ 0 < y
    OBVIOUS
  <2>2. 0 < y => 0 < y * b
    <3>1. 0 * b = 0
      OBVIOUS
    <3>. QED BY <1>3, <3>1, Scale
  <2>3. y = 0 => y * b = 0
    OBVIOUS
  <2>. QED BY <1>1, <2>1, <2>2, <2>3
<1>6. PICK p \in Int, q \in Int : p = y * c /\ q = x * b
  BY <1>1
<1>7. p < q /\ 0 < q
  BY <1>1, <1>2, <1>4, <1>5, <1>6
<1>8. p * g < q * g
  BY <1>7, Scale
<1>9. q * g <= q * h
  BY <1>7
<1>10. p * g \in Int /\ q * g \in Int /\ q * h \in Int
  OBVIOUS
<1>. QED BY <1>6, <1>8, <1>9, <1>10

\* Whatever is found has a positive score.
LEMMA FusedScoreFacts ==
    ASSUME NEW word, NEW k, Listing(word, k), NEW trigram, NEW n,
           Listing(trigram, n), NEW m \in ToSet(word) \cup ToSet(trigram)
    PROVE  FusedScore(word, trigram, m) \in Fractions
           /\ FusedScore(word, trigram, m).num > 0
<1>1. m \in ToSet(word) => Place(word, m) \in Nat
  BY ListingFacts
<1>2. m \in ToSet(trigram) => Place(trigram, m) \in Nat
  BY ListingFacts
<1>3. CASE m \notin ToSet(word)
  BY <1>2, <1>3, Terms DEF FusedScore
<1>4. CASE m \in ToSet(word) /\ m \notin ToSet(trigram)
  BY <1>1, <1>4, Terms DEF FusedScore
<1>5. CASE m \in ToSet(word) /\ m \in ToSet(trigram)
  <2>1. PICK a \in Fractions, b \in Fractions :
           /\ a = Term(Place(word, m)) /\ b = Term(Place(trigram, m))
           /\ a.num = 1 /\ b.num = 1
    BY <1>1, <1>2, <1>5, Terms DEF Term
  <2>2. FusedScore(word, trigram, m) = Plus(a, b)
    BY <1>5, <2>1 DEF FusedScore
  <2>3. Plus(a, b) \in Fractions
    BY SumsOrdered
  <2>4. Plus(a, b).num > 0
    <3>1. a.den \in Nat \ {0} /\ b.den \in Nat \ {0}
      BY DEF Fractions
    <3>2. Plus(a, b).num = b.den + a.den
      BY <2>1, <3>1 DEF Plus
    <3>. QED BY <3>1, <3>2
  <2>. QED BY <2>2, <2>3, <2>4
<1>. QED BY <1>3, <1>4, <1>5

\* The search, for lists without repetition of any length over the few.
LEMMA SearchIsFair ==
    ASSUME NEW word, NEW k, Listing(word, k), ToSet(word) \subseteq Few,
           NEW trigram, NEW n, Listing(trigram, n), ToSet(trigram) \subseteq Few,
           NEW row \in [Few -> [reinforcement : Int, age : Nat]]
    PROVE  BestMatchFirst(word, trigram, row)
<1>1. PICK S : S = ToSet(word) \cup ToSet(trigram)
  OBVIOUS
<1>2. PICK name : name = [m \in Few |-> m]
  OBVIOUS
<1>3. IsFiniteSet(S) /\ S \subseteq Few
  BY <1>1, ListingFacts, FS_Union
<1>4. ASSUME NEW m \in S
      PROVE  /\ row[m].reinforcement \in Int /\ row[m].age \in Nat
             /\ HalfLives[row[m].age] \in Nat \ {0}
  <2>1. row[m] \in [reinforcement : Int, age : Nat]
    BY <1>3
  <2>2. row[m].reinforcement \in Int /\ row[m].age \in Nat
    BY <2>1
  <2>. QED BY <2>2, HalfLivesDouble
<1>5. ASSUME NEW m \in S
      PROVE  /\ FusedScore(word, trigram, m) \in Fractions
             /\ FusedScore(word, trigram, m).num > 0
  BY <1>1, FusedScoreFacts
<1>. DEFINE fs(m) == FusedScore(word, trigram, m)
            fn(m) == FinalScore(word, trigram, row, m)
<1>6. ASSUME NEW m \in S
      PROVE  /\ fn(m).num = fs(m).num * (10 + row[m].reinforcement)
             /\ fn(m).den = (fs(m).den * 10) * HalfLives[row[m].age]
             /\ fn(m) \in Fractions
  <2>1. fs(m).num \in Int /\ fs(m).den \in Nat \ {0}
    BY <1>5 DEF Fractions
  <2>2. PICK r \in Int : r = 10 + row[m].reinforcement
    BY <1>4
  <2>3. PICK h \in Nat \ {0} : h = HalfLives[row[m].age]
    BY <1>4
  <2>4. fn(m) = [num |-> (fs(m).num * r) * 1, den |-> (fs(m).den * 10) * h]
    BY <2>2, <2>3 DEF FinalScore, Times, Boost, Half
  <2>5. fs(m).num * r \in Int /\ (fs(m).num * r) * 1 = fs(m).num * r
    BY <2>1
  <2>6. (fs(m).den * 10) * h \in Nat \ {0}
    <3>1. \A x, y \in Nat \ {0} : x * y \in Nat \ {0}
      OBVIOUS
    <3>2. fs(m).den * 10 \in Nat \ {0}
      BY <2>1, <3>1
    <3>. QED BY <3>1, <3>2
  <2>. HIDE DEF fn, fs
  <2>. QED BY <2>2, <2>3, <2>4, <2>5, <2>6 DEF Fractions
<1>7. PICK score : score = [m \in S |-> fn(m)]
  OBVIOUS
<1>8. PICK rank : rank = [m \in S |-> m]
  OBVIOUS
<1>9. score \in [S -> Fractions] /\ rank \in [S -> Int]
  <2>1. \A m \in S : fn(m) \in Fractions
    BY <1>6
  <2>. HIDE DEF fn
  <2>. QED BY <1>3, <1>7, <1>8, <2>1 DEF Few
<1>10. PICK R : R = ByScore(S, score, rank)
  OBVIOUS
<1>11. Strict(S, R)
  <2>1. \A m, x \in S : rank[m] = rank[x] => m = x
    BY <1>8
  <2>. QED BY <1>9, <1>10, <2>1, ByScoreStrict
<1>12. \A m, x \in S : <<m, x>> \in R <=>
          Above(fn(m), fn(x)) \/ (~Above(fn(x), fn(m)) /\ name[m] < name[x])
  <2>1. \A m \in S : score[m] = fn(m) /\ rank[m] = name[m]
    BY <1>2, <1>3, <1>7, <1>8
  <2>. HIDE DEF fn
  <2>. QED BY <1>10, <2>1 DEF ByScore
<1>13. PICK found : found = HybridSearch(word, trigram, row, name)
  OBVIOUS
<1>14. found = Placed(S, Ahead(S, R))
  <2>. DEFINE Better(x, m) ==
                 Above(fn(x), fn(m)) \/ (~Above(fn(m), fn(x)) /\ name[x] < name[m])
              ahead == [m \in S |-> Cardinality({x \in S \ {m} : Better(x, m)})]
  <2>1. found = Placed(S, ahead)
    BY <1>1, <1>13 DEF HybridSearch, Sorted, Placed
  <2>2. \A m, x \in S : Better(x, m) <=> <<x, m>> \in R
    BY <1>12
  <2>. HIDE DEF Better
  <2>3. \A m \in S : {x \in S \ {m} : Better(x, m)} = {x \in S \ {m} : <<x, m>> \in R}
    BY <2>2
  <2>4. ahead = Ahead(S, R)
    BY <2>3 DEF Ahead
  <2>. HIDE DEF ahead
  <2>. QED BY <2>1, <2>4
<1>15. /\ ToSet(found) = S
       /\ \A m, x \in S : <<m, x>> \in R <=> Place(found, m) < Place(found, x)
  BY <1>3, <1>11, <1>14, PlacedInOrder, OrderedListing
<1>16. ASSUME NEW m \in S, NEW x \in S, Above(fs(m), fs(x)),
              row[m].reinforcement >= row[x].reinforcement,
              row[m].reinforcement > -10, row[m].age <= row[x].age
       PROVE  Above(fn(m), fn(x))
  <2>1. PICK mn \in Int, xn \in Int, md \in Nat \ {0}, xd \in Nat \ {0} :
           /\ mn = fs(m).num /\ md = fs(m).den
           /\ xn = fs(x).num /\ xd = fs(x).den
           /\ mn > 0 /\ xn > 0
    BY <1>5 DEF Fractions
  <2>2. PICK b \in Int, c \in Int :
           b = 10 + row[m].reinforcement /\ c = 10 + row[x].reinforcement
    BY <1>4
  <2>3. c <= b /\ 0 < b
    BY <1>4, <1>16, <2>2
  <2>4. PICK g \in Nat \ {0}, h \in Nat \ {0} :
           g = HalfLives[row[m].age] /\ h = HalfLives[row[x].age] /\ g <= h
    BY <1>4, <1>16, HalfLivesGrow
  <2>5. PICK p \in Int, q \in Int : p = mn * xd /\ q = xn * md
    OBVIOUS
  <2>6. q < p /\ 0 <= q
    <3>1. q < p
      BY <1>16, <2>1, <2>5 DEF Above
    <3>2. 0 <= q
      BY <2>1, <2>5
    <3>. QED BY <3>1, <3>2
  <2>7. (q * c) * g < (p * b) * h
    BY <2>3, <2>4, <2>6, ProductsOrdered
  <2>8. (xn * c) * ((md * 10) * g) = ((q * c) * g) * 10
    BY <2>5
  <2>9. (mn * b) * ((xd * 10) * h) = ((p * b) * h) * 10
    BY <2>5
  <2>10. (q * c) * g \in Int /\ (p * b) * h \in Int
    OBVIOUS
  <2>11. (xn * c) * ((md * 10) * g) < (mn * b) * ((xd * 10) * h)
    BY <2>7, <2>8, <2>9, <2>10
  <2>12. /\ fn(m).num = mn * b /\ fn(m).den = (md * 10) * g
         /\ fn(x).num = xn * c /\ fn(x).den = (xd * 10) * h
    BY <1>6, <2>1, <2>2, <2>4
  <2>13. /\ mn * b \in Int /\ xn * c \in Int
         /\ (md * 10) * g \in Int /\ (xd * 10) * h \in Int
    OBVIOUS
  <2>14. (xn * c) * ((md * 10) * g) \in Int /\ (mn * b) * ((xd * 10) * h) \in Int
    BY <2>13
  <2>. HIDE DEF fn, fs
  <2>. QED BY <2>11, <2>12, <2>14 DEF Above
<1>17. ASSUME NEW m \in S, NEW x \in S, Above(fs(m), fs(x)),
              row[m].reinforcement >= row[x].reinforcement,
              row[m].reinforcement > -10, row[m].age <= row[x].age
       PROVE  Before(found, m, x)
  <2>1. <<m, x>> \in R
    <3>1. Above(fn(m), fn(x))
      BY <1>16, <1>17
    <3>. HIDE DEF fn, fs
    <3>. QED BY <1>12, <3>1
  <2>. QED BY <1>15, <2>1, BeforeIs
<1>. HIDE DEF fn
<1>. QED BY <1>2, <1>13, <1>15, <1>17 DEF BestMatchFirst

\* RankingFair, for any number of memories and words, any reinforcements and ages:
\* fusion never reverses two lists that agree, the merge of two namespaces favours
\* neither, the gate lets nothing in for words that are everywhere, and a search
\* has the better match first.
THEOREM RankingIsFair == CasesInit => RankingFair
<1>. SUFFICES ASSUME CasesInit PROVE RankingFair
  OBVIOUS
<1>1. ItemCount \in Nat /\ Reinforcements \subseteq Int /\ Ages \subseteq Nat
  BY CasesAssumption
<1>2. ASSUME NEW l \in Lists
      PROVE  \E n \in Nat : Listing(l, n)
  BY <1>1, PriorLists, ListsAreListings DEF Lists
<1>3. ASSUME input.of = "fusion" PROVE KeepsAgreement(Prior1, input.relevance)
  <2>1. input \in Fusions
    BY <1>3 DEF CasesInit, Merges, Gates, Searches
  <2>2. PICK n : Listing(input.relevance, n)
    BY <1>2, <2>1 DEF Fusions
  <2>3. /\ Listing(Fused(Prior1, input.relevance), ItemCount)
        /\ ToSet(Fused(Prior1, input.relevance)) = ToSet(Prior1)
        /\ \A x, y \in ToSet(Prior1) :
              /\ Before(Prior1, x, y)
              /\ Before(input.relevance, x, y) \/ y \notin ToSet(input.relevance)
              => Before(Fused(Prior1, input.relevance), x, y)
    BY <1>1, <2>2, PriorLists, FusionKeeps
  <2>4. Len(Fused(Prior1, input.relevance)) = Len(Prior1)
    BY <1>1, <2>3, PriorLists, ListingFacts
  <2>. QED BY <2>3, <2>4 DEF KeepsAgreement
<1>4. ASSUME input.of = "merge" PROVE MergesFairly(input.lists)
  <2>1. input \in Merges
    BY <1>4 DEF CasesInit, Fusions, Gates, Searches
  <2>2. DOMAIN input.lists = 1..2
        /\ \A i \in 1..2 : input.lists[i] # Failed => input.lists[i] \in Lists
    BY <2>1 DEF Merges
  <2>. QED BY <1>2, <2>2, MergeIsFair
<1>5. ASSUME input.of = "gate"
      PROVE  EvidenceDecides(input.words, input.query, input.minHits, input.bm25)
  <2>1. input \in Gates
    BY <1>5 DEF CasesInit, Fusions, Merges, Searches
  <2>2. /\ input.words \in [Items -> SUBSET Words] /\ input.query \in SUBSET Words
        /\ input.bm25 \in {<<>>, <<2, 1>>}
    BY <2>1 DEF Gates
  <2>3. \E b : Listing(input.bm25, b)
    <3>1. Listing(<<>>, 0)
      BY DEF Listing
    <3>2. Listing(<<2, 1>>, 2)
      <4>1. <<2, 1>> = [i \in 1..2 |-> <<2, 1>>[i]]
        OBVIOUS
      <4>2. \A i, j \in 1..2 : <<2, 1>>[i] = <<2, 1>>[j] => i = j
        OBVIOUS
      <4>. QED BY <4>1, <4>2 DEF Listing
    <3>. QED BY <2>2, <3>1, <3>2
  <2>. QED BY <2>2, <2>3, GateIsFair
<1>6. ASSUME input.of = "search" PROVE BestMatchFirst(input.word, input.trigram, input.row)
  <2>1. input \in Searches
    BY <1>6 DEF CasesInit, Fusions, Merges, Gates
  <2>2. /\ input.word \in {<<>>, <<1>>, <<1, 2>>, <<1, 2, 3>>}
        /\ input.trigram \in Lists /\ ToSet(input.trigram) \subseteq Few
        /\ input.row \in [Few -> [reinforcement : Reinforcements, age : Ages]]
    BY <2>1 DEF Searches
  <2>3. PICK n \in Nat : Listing(input.trigram, n)
    BY <1>2, <2>2
  <2>4. \E k \in 0..3 : input.word = [i \in 1..k |-> i]
    <3>1. <<>> = [i \in 1..0 |-> i] /\ <<1>> = [i \in 1..1 |-> i]
      OBVIOUS
    <3>2. <<1, 2>> = [i \in 1..2 |-> i]
      OBVIOUS
    <3>3. <<1, 2, 3>> = [i \in 1..3 |-> i]
      OBVIOUS
    <3>. QED BY <2>2, <3>1, <3>2, <3>3
  <2>5. PICK k \in 0..3 : input.word = [i \in 1..k |-> i]
    BY <2>4
  <2>6. Listing(input.word, k) /\ ToSet(input.word) \subseteq Few
    <3>1. Listing([i \in 1..k |-> i], k)
      BY DEF Listing
    <3>2. ToSet([i \in 1..k |-> i]) \subseteq Few
      BY DEF ToSet, Few
    <3>. QED BY <2>5, <3>1, <3>2
  <2>7. input.row \in [Few -> [reinforcement : Int, age : Nat]]
    BY <1>1, <2>2
  <2>. QED BY <2>2, <2>3, <2>6, <2>7, SearchIsFair
<1>. QED BY <1>3, <1>4, <1>5, <1>6 DEF RankingFair

===============================================================================
