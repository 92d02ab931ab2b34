--------------------------- MODULE MigrationsProofs ---------------------------
(* Proofs about Migrations for every number of starters, versions and      *)
(* statements and every set of faults.                                     *)
EXTENDS Migrations, TLAPS

\* All the versions below v are complete.
Below(v) == \A u \in Versions : u < v => claim[u] = "complete"

\* A call that is under way is right about what it has passed and holds.
CallOk(p) ==
    LET c == start[p]
    IN  /\ c.step \notin {"off", "raised"} =>
              /\ c.version > 0
              /\ \A u \in c.seen : claim[u] = "complete"
              /\ Below(c.version)
        /\ c.step \in {"script", "mark", "release", "wait"} =>
              c.version \in Versions
        /\ c.step \in {"script", "mark", "release"} =>
              claim[c.version] = "claimed"
        /\ c.step \in {"next", "wait"} => c.ran = 0
        /\ c.step = "script" => c.ran <= applied[c.version]
        /\ c.step = "mark" => Statements[c.version] <= applied[c.version]
        /\ c.step = "returned" => c.version = NumVersions + 1

CallInv == \A p \in Starters : CallOk(p)

\* Complete means run to the end, and a version is touched in its turn.
RowInv ==
    \A v \in Versions :
        /\ applied[v] <= Statements[v]
        /\ claim[v] = "complete" => applied[v] = Statements[v]
        /\ applied[v] > 0 \/ claim[v] # "absent" => Below(v)

Inv == TypeOK /\ CallInv /\ RowInv /\ OneRunner

-----------------------------------------------------------------------------

LEMMA InvInit == Init => Inv
BY VersionsAssumption, BoundsAssumption
   DEF Init, Inv, TypeOK, CallInv, CallOk, RowInv, OneRunner, Holds, Below, Off, Calls,
       Versions

\* Moving to another step keeps the rest of the call.
LEMMA AtType ==
    ASSUME TypeOK, NEW p \in Starters, NEW s, At(p, s),
           s \in {"next", "script", "mark", "release", "wait", "returned",
                  "raised", "off"}
    PROVE  /\ start' \in [Starters -> Calls]
           /\ start'[p].step = s
           /\ start'[p].version = start[p].version
           /\ start'[p].seen = start[p].seen
           /\ start'[p].ran = start[p].ran
           /\ \A q \in Starters \ {p} : start'[q] = start[q]
<1>1. start[p] \in Calls
  BY DEF TypeOK
<1>2. [start[p] EXCEPT !.step = s] =
         [step |-> s, version |-> start[p].version, seen |-> start[p].seen,
          ran |-> start[p].ran]
  BY <1>1 DEF Calls
<1>3. start' = [start EXCEPT ![p] = [start[p] EXCEPT !.step = s]]
  BY DEF At, TypeOK
<1>4. [start[p] EXCEPT !.step = s] \in Calls
  BY <1>1, <1>2 DEF Calls
<1>5. QED
  BY <1>2, <1>3, <1>4 DEF TypeOK

\* The loop goes on to the next file.
LEMMA NextVersionType ==
    ASSUME TypeOK, NEW p \in Starters, NextVersion(p),
           start[p].version \in Versions
    PROVE  /\ start' \in [Starters -> Calls]
           /\ start'[p].step = "next"
           /\ start'[p].version = start[p].version + 1
           /\ start'[p].seen = start[p].seen
           /\ start'[p].ran = 0
           /\ \A q \in Starters \ {p} : start'[q] = start[q]
<1> DEFINE r == [step |-> "next", version |-> start[p].version + 1,
                 seen |-> start[p].seen, ran |-> 0]
<1>1. r \in Calls
  BY VersionsAssumption DEF TypeOK, Calls, Versions
<1>2. start' = [start EXCEPT ![p] = r]
  BY DEF NextVersion
<1>3. QED
  BY <1>1, <1>2 DEF TypeOK

\* Running a statement counts it.
LEMMA RanType ==
    ASSUME TypeOK, NEW p \in Starters,
           start' = [start EXCEPT ![p].ran = start[p].ran + 1]
    PROVE  /\ start' \in [Starters -> Calls]
           /\ start'[p].step = start[p].step
           /\ start'[p].version = start[p].version
           /\ start'[p].seen = start[p].seen
           /\ start'[p].ran = start[p].ran + 1
           /\ \A q \in Starters \ {p} : start'[q] = start[q]
<1>1. start[p] \in Calls
  BY DEF TypeOK
<1>2. [start[p] EXCEPT !.ran = start[p].ran + 1] =
         [step |-> start[p].step, version |-> start[p].version,
          seen |-> start[p].seen, ran |-> start[p].ran + 1]
  BY <1>1 DEF Calls
<1>3. start' = [start EXCEPT ![p] = [start[p] EXCEPT !.ran = start[p].ran + 1]]
  BY DEF TypeOK
<1>4. [start[p] EXCEPT !.ran = start[p].ran + 1] \in Calls
  BY <1>1, <1>2 DEF Calls
<1>5. QED
  BY <1>2, <1>3, <1>4 DEF TypeOK

\* Each variable keeps its shape.
LEMMA TypeStep == TypeOK /\ CallInv /\ [Next]_vars => TypeOK'
<1> SUFFICES ASSUME TypeOK, CallInv, [Next]_vars PROVE TypeOK'
  OBVIOUS
<1>1. ASSUME NEW p \in Starters, Begin(p) PROVE TypeOK'
  <2> DEFINE r == [step |-> "next", version |-> 1,
                   seen |-> {v \in Versions : claim[v] = "complete"},
                   ran |-> 0]
  <2>1. r \in Calls
    BY VersionsAssumption DEF Calls
  <2>2. start' = [start EXCEPT ![p] = r] /\ UNCHANGED <<claim, applied>>
    BY <1>1 DEF Begin
  <2>3. starts' \in [Starters -> 0..MaxStarts]
    BY <1>1, BoundsAssumption DEF Begin, TypeOK
  <2> HIDE DEF r
  <2>4. QED
    BY <2>1, <2>2, <2>3 DEF TypeOK
<1>2. ASSUME NEW p \in Starters, Skip(p) \/ PeerCompleted(p) PROVE TypeOK'
  <2>1. start[p].version \in Versions /\ NextVersion(p)
    BY <1>2 DEF Skip, PeerCompleted, CallInv, CallOk, TypeOK, Calls
  <2>2. QED
    BY <1>2, <2>1, NextVersionType DEF Skip, PeerCompleted, TypeOK
<1>3. ASSUME NEW p \in Starters, TryClaim(p) PROVE TypeOK'
  BY <1>3, AtType DEF TryClaim, TypeOK
<1>4. ASSUME NEW p \in Starters, RunStatement(p) PROVE TypeOK'
  <2>1. start[p].version \in Versions /\ start[p].ran + 1 \in Nat
    BY <1>4 DEF RunStatement, CallInv, CallOk, TypeOK, Calls
  <2>2. CASE start' = [start EXCEPT ![p].ran = start[p].ran + 1]
    <3>1. start' \in [Starters -> Calls]
      BY <2>2, RanType
    <3>2. applied' \in [Versions -> Nat]
      <4> DEFINE w == start[p].version
                 n == start[p].ran + 1
      <4>1. applied' = applied
               \/ applied' = [applied EXCEPT ![w] = IF @ < n THEN n ELSE @]
        BY <1>4 DEF RunStatement
      <4>2. w \in Versions /\ n \in Nat
        BY <2>1
      <4> HIDE DEF w, n
      <4>3. QED
        BY <4>1, <4>2 DEF TypeOK
    <3>3. QED
      BY <1>4, <3>1, <3>2 DEF RunStatement, TypeOK
  <2>3. CASE At(p, "release")
    BY <1>4, <2>1, <2>3, AtType DEF RunStatement, TypeOK
  <2>4. QED
    BY <1>4, <2>2, <2>3 DEF RunStatement
<1>5. ASSUME NEW p \in Starters, MarkComplete(p) PROVE TypeOK'
  BY <1>5, NextVersionType DEF MarkComplete, CallInv, CallOk, TypeOK
<1>6. ASSUME NEW p \in Starters, ReleaseClaim(p) PROVE TypeOK'
  BY <1>6, AtType DEF ReleaseClaim, TypeOK
<1>7. ASSUME NEW p \in Starters,
             \/ ScriptEnds(p) \/ HolderRaises(p) \/ PeerReleased(p)
             \/ TimesOut(p) \/ ReadRaises(p) \/ Return(p)
      PROVE  TypeOK'
  BY <1>7, AtType
     DEF ScriptEnds, HolderRaises, PeerReleased, TimesOut, ReadRaises, Return,
         TypeOK
<1>8. ASSUME NEW p \in Starters, Crash(p) PROVE TypeOK'
  <2>1. Off \in Calls
    BY VersionsAssumption DEF Off, Calls
  <2>2. QED
    BY <1>8, <2>1 DEF Crash, TypeOK
<1>9. CASE UNCHANGED vars
  BY <1>9 DEF vars, TypeOK
<1>10. QED
  BY <1>1, <1>2, <1>3, <1>4, <1>5, <1>6, <1>7, <1>8, <1>9 DEF Next, Step, Works

\* A complete version stays complete: only holders write their own row.
LEMMA CompleteStays ==
    ASSUME Inv, [Next]_vars, NEW v \in Versions, claim[v] = "complete"
    PROVE  claim'[v] = "complete"
<1> USE DEF Inv, TypeOK, CallInv, CallOk
<1>1. ASSUME NEW p \in Starters, TryClaim(p) PROVE claim'[v] = "complete"
  BY <1>1 DEF TryClaim
<1>2. ASSUME NEW p \in Starters, MarkComplete(p) PROVE claim'[v] = "complete"
  BY <1>2 DEF MarkComplete
<1>3. ASSUME NEW p \in Starters, ReleaseClaim(p) PROVE claim'[v] = "complete"
  BY <1>3 DEF ReleaseClaim
<1>4. CASE UNCHANGED claim
  BY <1>4
<1>5. QED
  BY <1>1, <1>2, <1>3, <1>4
     DEF Next, Step, Works, vars, Begin, Skip, RunStatement, ScriptEnds, HolderRaises,
         PeerCompleted, PeerReleased, TimesOut, ReadRaises, Return, Crash

\* A step of p leaves the other calls, and the rows they hold, alone.
LEMMA OthersStay ==
    ASSUME Inv, NEW p \in Starters, Begin(p) \/ Step(p) \/ Crash(p),
           NEW q \in Starters \ {p}
    PROVE  /\ start'[q] = start[q]
           /\ \A v \in Versions : Holds(q, v) => claim'[v] = claim[v]
           /\ \A v \in Versions : applied[v] <= applied'[v]
<1>1. TypeOK
  BY DEF Inv
<1>2. start'[q] = start[q]
  BY <1>1 DEF TypeOK, Begin, Step, Works, Crash, Skip, TryClaim, RunStatement,
       ScriptEnds, MarkComplete, HolderRaises, ReleaseClaim, PeerCompleted,
       PeerReleased, TimesOut, ReadRaises, Return, At, NextVersion
<1>3. ASSUME NEW v \in Versions, Holds(q, v) PROVE claim'[v] = claim[v]
  <2>1. claim[v] = "claimed"
    BY <1>3 DEF Inv, CallInv, CallOk, Holds
  <2>2. ~Holds(p, v)
    BY <1>3 DEF Inv, OneRunner
  <2>3. UNCHANGED claim \/ TryClaim(p) \/ MarkComplete(p) \/ ReleaseClaim(p)
    BY DEF Begin, Step, Works, Crash, Skip, RunStatement, ScriptEnds, HolderRaises,
           PeerCompleted, PeerReleased, TimesOut, ReadRaises, Return
  <2>4. CASE TryClaim(p)
    BY <1>1, <2>1, <2>4 DEF TryClaim, TypeOK
  <2>5. CASE MarkComplete(p)
    BY <1>1, <2>2, <2>5 DEF MarkComplete, Holds, TypeOK
  <2>6. CASE ReleaseClaim(p)
    BY <1>1, <2>2, <2>6 DEF ReleaseClaim, Holds, TypeOK
  <2>7. QED
    BY <2>3, <2>4, <2>5, <2>6
<1>4. ASSUME NEW v \in Versions PROVE applied[v] <= applied'[v]
  <2>1. UNCHANGED applied \/ RunStatement(p)
    BY DEF Begin, Step, Works, Crash, Skip, TryClaim, ScriptEnds, MarkComplete,
           HolderRaises, ReleaseClaim, PeerCompleted, PeerReleased, TimesOut,
           ReadRaises, Return
  <2>2. CASE RunStatement(p)
    <3> DEFINE w == start[p].version
               n == start[p].ran + 1
    <3>1. applied' = applied
             \/ applied' = [applied EXCEPT ![w] = IF @ < n THEN n ELSE @]
      BY <2>2 DEF RunStatement
    <3>2. n \in Nat
      BY <1>1 DEF TypeOK, Calls
    <3> HIDE DEF w, n
    <3>3. QED
      BY <1>1, <3>1, <3>2 DEF TypeOK
  <2>3. QED
    BY <1>1, <2>1, <2>2 DEF TypeOK
<1>5. QED
  BY <1>2, <1>3, <1>4

\* What is passed stays complete.
LEMMA BelowStays ==
    ASSUME Inv, [Next]_vars, NEW v \in Int, Below(v)
    PROVE  \A u \in Versions : u < v => claim'[u] = "complete"
BY CompleteStays DEF Below

\* The invariant survives in the calls that do not move.
LEMMA OthersOk ==
    ASSUME Inv, NEW p \in Starters, Begin(p) \/ Step(p) \/ Crash(p),
           NEW q \in Starters \ {p}, TypeOK'
    PROVE  CallOk(q)'
<1> DEFINE c == start[q]
<1>1. start'[q] = c /\ CallOk(q) /\ c \in Calls /\ [Next]_vars
  BY OthersStay DEF Inv, CallInv, TypeOK, Next
<1>2. c.step \notin {"off", "raised"} =>
         /\ c.version > 0
         /\ \A u \in c.seen : claim'[u] = "complete"
         /\ \A u \in Versions : u < c.version => claim'[u] = "complete"
  <2> c.version \in Int
    BY <1>1 DEF Calls
  <2> HIDE DEF c
  <2>1. Below(c.version) =>
           \A u \in Versions : u < c.version => claim'[u] = "complete"
    BY <1>1, BelowStays
  <2> USE DEF c
  <2>2. c.seen \subseteq Versions
    BY <1>1 DEF Calls
  <2>3. QED
    BY <1>1, <2>1, <2>2, CompleteStays DEF CallOk
<1>3. c.step \in {"script", "mark", "release"} =>
         claim'[c.version] = "claimed"
  BY <1>1, OthersStay DEF CallOk, Holds
<1>4. c.step \in {"script", "mark"} =>
         /\ c.version \in Versions
         /\ applied[c.version] \in Int
         /\ applied'[c.version] \in Int
         /\ Statements[c.version] \in Int
         /\ applied[c.version] <= applied'[c.version]
  BY <1>1, OthersStay, VersionsAssumption DEF CallOk, TypeOK, Inv
<1>5. c.step = "script" => c.ran <= applied'[c.version]
  BY <1>1, <1>4 DEF CallOk, Calls
<1>6. c.step = "mark" => Statements[c.version] <= applied'[c.version]
  BY <1>1, <1>4 DEF CallOk, Calls
<1>7. QED
  BY <1>1, <1>2, <1>3, <1>5, <1>6 DEF CallOk, Below

\* The call that moves is right about where it is now.
LEMMA MoverOk ==
    ASSUME Inv, NEW p \in Starters, Begin(p) \/ Step(p) \/ Crash(p), TypeOK'
    PROVE  CallOk(p)'
<1> DEFINE c == start[p]
<1>1. /\ TypeOK
      /\ CallOk(p)
      /\ c \in Calls
      /\ [Next]_vars
  BY DEF Inv, CallInv, TypeOK, Next
<1>2. Below(c.version) =>
         \A u \in Versions : u < c.version => claim'[u] = "complete"
  <2> c.version \in Int
    BY <1>1 DEF Calls
  <2> HIDE DEF c
  <2>1. QED
    BY <1>1, BelowStays
<1>3. ASSUME NEW s, At(p, s), UNCHANGED <<claim, applied>>,
             c.step \notin {"off", "raised"},
             \/ s \in {"off", "raised"}
             \/ s = "next" /\ c.step = "wait"
             \/ s = "wait" /\ c.step = "next" /\ c.version \in Versions
             \/ s = "release" /\ c.step \in {"script", "mark"}
             \/ /\ s = "mark" /\ c.step = "script"
                /\ c.ran = Statements[c.version]
             \/ s = "returned" /\ c.version = NumVersions + 1
      PROVE  CallOk(p)'
  <2>1. /\ start'[p].step = s /\ start'[p].version = c.version
        /\ start'[p].seen = c.seen /\ start'[p].ran = c.ran
    BY <1>1, <1>3, AtType
  <2>2. QED
    BY <1>1, <1>3, <2>1 DEF CallOk, Below
<1>4. ASSUME NextVersion(p), c.version \in Versions, c.version > 0,
             \A u \in c.seen : claim'[u] = "complete",
             \A u \in Versions : u < c.version => claim'[u] = "complete",
             claim'[c.version] = "complete"
      PROVE  CallOk(p)'
  <2>1. start'[p].step = "next" /\ start'[p].version = c.version + 1
           /\ start'[p].seen = c.seen /\ start'[p].ran = 0
    BY <1>1, <1>4, NextVersionType
  <2>2. \A u \in Versions : u < c.version + 1 => claim'[u] = "complete"
    BY <1>4, VersionsAssumption DEF Versions
  <2>3. QED
    BY <1>4, <2>1, <2>2 DEF CallOk, Below, Versions
<1>5. CASE Begin(p)
  BY <1>1, <1>5, VersionsAssumption DEF Begin, CallOk, Below, TypeOK, Versions
<1>6. CASE Skip(p)
  BY <1>1, <1>2, <1>4, <1>6 DEF Skip, CallOk, Calls, Versions
<1>7. CASE TryClaim(p)
  <2>1. CASE UNCHANGED claim
    BY <1>1, <1>3, <1>7, <2>1 DEF TryClaim, TypeOK
  <2>2. CASE At(p, "script") /\ claim' = [claim EXCEPT ![c.version] = "claimed"]
    <3>1. /\ start'[p].step = "script" /\ start'[p].version = c.version
          /\ start'[p].seen = c.seen /\ start'[p].ran = c.ran
      BY <1>1, <2>2, AtType
    <3>2. c.step = "next" /\ c.version \in Versions /\ applied' = applied
      BY <1>7 DEF TryClaim
    <3>3. claim'[c.version] = "claimed" /\ c.ran = 0 /\ 0 <= applied[c.version]
      BY <1>1, <2>2, <3>2 DEF TypeOK, CallOk
    <3>4. \A u \in c.seen : claim'[u] = "complete"
      BY <1>1, <3>2, CompleteStays DEF CallOk, Calls
    <3>5. QED
      BY <1>1, <1>2, <3>1, <3>2, <3>3, <3>4 DEF CallOk, Below
  <2>3. QED
    BY <1>7, <2>1, <2>2 DEF TryClaim
<1>8. CASE RunStatement(p)
  <2>1. CASE At(p, "release") /\ UNCHANGED applied
    <3>1. c.step = "script" /\ UNCHANGED claim
      BY <1>8 DEF RunStatement
    <3>2. QED
      BY <1>3, <2>1, <3>1
  <2> DEFINE w == start[p].version
             n == start[p].ran + 1
  <2>2. CASE /\ applied' = [applied EXCEPT ![w] = IF @ < n THEN n ELSE @]
             /\ start' = [start EXCEPT ![p].ran = n]
    <3>1. /\ start'[p].step = "script" /\ start'[p].version = w
          /\ start'[p].seen = c.seen /\ start'[p].ran = n
      BY <1>1, <1>8, <2>2, RanType DEF RunStatement
    <3>2. n <= applied'[w]
      <4>1. w \in Versions /\ n \in Nat
        BY <1>1, <1>8 DEF RunStatement, CallOk, Calls
      <4> HIDE DEF w, n
      <4>2. QED
        BY <1>1, <2>2, <4>1 DEF TypeOK
    <3>3. UNCHANGED claim
      BY <1>8 DEF RunStatement
    <3>4. QED
      <4>1. c.step = "script"
        BY <1>8 DEF RunStatement
      <4>2. QED
        BY <1>1, <4>1, <3>1, <3>2, <3>3 DEF CallOk, Below
  <2>3. QED
    BY <1>8, <2>1, <2>2 DEF RunStatement
<1>9. CASE MarkComplete(p)
  BY <1>1, <1>2, <1>4, <1>9, CompleteStays
     DEF MarkComplete, CallOk, TypeOK, Calls
<1>10. CASE ReleaseClaim(p)
  BY <1>1, <1>10, AtType DEF ReleaseClaim, CallOk
<1>11. CASE PeerCompleted(p)
  BY <1>1, <1>2, <1>4, <1>11 DEF PeerCompleted, CallOk, Calls
<1>12. CASE \/ ScriptEnds(p) \/ HolderRaises(p) \/ PeerReleased(p)
            \/ TimesOut(p) \/ ReadRaises(p) \/ Return(p)
  BY <1>1, <1>3, <1>12
     DEF ScriptEnds, HolderRaises, PeerReleased, TimesOut, ReadRaises, Return
<1>13. CASE Crash(p)
  BY <1>1, <1>13 DEF Crash, Off, CallOk, TypeOK
<1>14. QED
  BY <1>5, <1>6, <1>7, <1>8, <1>9, <1>10, <1>11, <1>12, <1>13 DEF Step, Works

\* A process comes to hold a version only by claiming an absent row.
LEMMA NewHolder ==
    ASSUME Inv, NEW p \in Starters, Begin(p) \/ Step(p) \/ Crash(p),
           NEW v \in Versions, Holds(p, v)'
    PROVE  Holds(p, v) \/ claim[v] = "absent"
<1>1. TypeOK /\ CallOk(p)
  BY DEF Inv, CallInv
<1>2. ASSUME NextVersion(p) \/ Begin(p) \/ Crash(p) PROVE FALSE
  BY <1>1, <1>2 DEF NextVersion, Begin, Crash, Off, Holds, TypeOK
<1>3. ASSUME NEW s, At(p, s), s \notin {"script", "mark", "release"} PROVE FALSE
  BY <1>1, <1>3 DEF At, Holds, TypeOK, Calls
<1>4. ASSUME NEW s, At(p, s), start[p].step \in {"script", "mark"}
      PROVE  Holds(p, v)
  BY <1>1, <1>4 DEF At, Holds, TypeOK, Calls
<1>5. CASE TryClaim(p)
  BY <1>1, <1>3, <1>5 DEF TryClaim, At, Holds, TypeOK, Calls
<1>6. CASE RunStatement(p)
  BY <1>1, <1>6 DEF RunStatement, At, Holds, TypeOK, Calls
<1>7. CASE ScriptEnds(p) \/ HolderRaises(p)
  BY <1>4, <1>7 DEF ScriptEnds, HolderRaises
<1>8. QED
  BY <1>2, <1>3, <1>5, <1>6, <1>7
     DEF Step, Works, Skip, MarkComplete, ReleaseClaim, PeerCompleted,
         PeerReleased, TimesOut, ReadRaises, Return

\* Claims exclude each other.
LEMMA OneRunnerStep ==
    ASSUME Inv, NEW p \in Starters, Begin(p) \/ Step(p) \/ Crash(p)
    PROVE  OneRunner'
<1>1. SUFFICES ASSUME NEW q \in Starters, NEW r \in Starters,
                      NEW v \in Versions, Holds(q, v)', Holds(r, v)'
               PROVE  q = r
  BY DEF OneRunner
<1>2. ASSUME NEW o \in Starters \ {p}, Holds(o, v)'
      PROVE  Holds(o, v) /\ claim[v] = "claimed"
  BY <1>2, OthersStay DEF Holds, Inv, CallInv, CallOk
<1>3. ASSUME NEW o \in Starters \ {p}, Holds(o, v)', Holds(p, v)'
      PROVE  FALSE
  BY <1>2, <1>3, NewHolder DEF Inv, OneRunner
<1>4. CASE q = p \/ r = p
  BY <1>1, <1>3, <1>4
<1>5. CASE q # p /\ r # p
  BY <1>1, <1>2, <1>5 DEF Inv, OneRunner
<1>6. QED
  BY <1>4, <1>5

\* The rows and the schema keep in step.
LEMMA RowStep ==
    ASSUME Inv, NEW p \in Starters, Begin(p) \/ Step(p) \/ Crash(p)
    PROVE  RowInv'
<1> DEFINE c == start[p]
           w == start[p].version
           n == start[p].ran + 1
<1>1. TypeOK /\ CallOk(p) /\ RowInv /\ [Next]_vars /\ c \in Calls
  BY DEF Inv, CallInv, Next, TypeOK
<1>2. ASSUME NEW v \in Versions, Below(v) PROVE Below(v)'
  BY <1>1, <1>2, CompleteStays DEF Below
<1>3. CASE UNCHANGED <<claim, applied>>
  BY <1>1, <1>3 DEF RowInv, Below
<1>4. CASE TryClaim(p) /\ claim' = [claim EXCEPT ![w] = "claimed"]
  <2>1. Below(w) /\ applied' = applied
    BY <1>1, <1>4 DEF TryClaim, CallOk
  <2> HIDE DEF w
  <2>2. QED
    BY <1>1, <1>2, <1>4, <2>1 DEF RowInv, TypeOK
<1>5. CASE RunStatement(p) /\ applied' = [applied EXCEPT ![w] = IF @ < n THEN n ELSE @]
  <2>1. /\ Below(w) /\ w \in Versions /\ n \in Nat
        /\ n <= Statements[w] /\ claim[w] = "claimed" /\ claim' = claim
    BY <1>1, <1>5, VersionsAssumption DEF RunStatement, CallOk, Calls
  <2> HIDE DEF w, n
  <2>2. ASSUME NEW v \in Versions
        PROVE  /\ applied'[v] <= Statements[v]
               /\ claim'[v] = "complete" => applied'[v] = Statements[v]
    BY <1>1, <1>5, <2>1, VersionsAssumption DEF RowInv, TypeOK
  <2>3. ASSUME NEW v \in Versions, applied'[v] > 0 \/ claim'[v] # "absent"
        PROVE  Below(v)'
    BY <1>1, <1>2, <1>5, <2>1, <2>3 DEF RowInv, TypeOK
  <2>4. QED
    BY <2>2, <2>3 DEF RowInv
<1>6. CASE MarkComplete(p)
  <2>1. /\ w \in Versions /\ claim' = [claim EXCEPT ![w] = "complete"]
        /\ applied' = applied /\ Below(w) /\ Statements[w] <= applied[w]
    BY <1>1, <1>6 DEF MarkComplete, CallOk
  <2> HIDE DEF w
  <2>2. applied[w] = Statements[w]
    <3>1. w \in Versions
      BY <2>1
    <3>2. applied[w] \in Nat /\ Statements[w] \in Nat
      BY <1>1, <3>1, VersionsAssumption DEF TypeOK
    <3>3. applied[w] <= Statements[w] /\ Statements[w] <= applied[w]
      BY <1>1, <2>1 DEF RowInv
    <3>4. QED
      BY <3>2, <3>3
  <2>3. ASSUME NEW v \in Versions
        PROVE  /\ applied'[v] <= Statements[v]
               /\ claim'[v] = "complete" => applied'[v] = Statements[v]
    BY <1>1, <2>1, <2>2 DEF RowInv, TypeOK
  <2>4. ASSUME NEW v \in Versions, applied'[v] > 0 \/ claim'[v] # "absent"
        PROVE  Below(v)'
    BY <1>1, <1>2, <2>1, <2>4 DEF RowInv, TypeOK
  <2>5. QED
    BY <2>3, <2>4 DEF RowInv
<1>7. CASE ReleaseClaim(p) /\ claim' = [claim EXCEPT ![w] = "absent"]
  <2>1. w \in Versions /\ applied' = applied /\ Below(w)
    BY <1>1, <1>7 DEF ReleaseClaim, CallOk
  <2> HIDE DEF w
  <2>2. QED
    BY <1>1, <1>2, <1>7, <2>1 DEF RowInv, TypeOK
<1>8. QED
  BY <1>3, <1>4, <1>5, <1>6, <1>7
     DEF Step, Works, Begin, Crash, Skip, TryClaim, RunStatement, ScriptEnds,
         HolderRaises, ReleaseClaim, PeerCompleted, PeerReleased, TimesOut,
         ReadRaises, Return

-----------------------------------------------------------------------------

\* Every step keeps the whole invariant.
LEMMA InvStep == Inv /\ [Next]_vars => Inv'
<1> SUFFICES ASSUME Inv, [Next]_vars PROVE Inv'
  OBVIOUS
<1>1. TypeOK'
  BY TypeStep DEF Inv
<1>2. ASSUME NEW p \in Starters, Begin(p) \/ Step(p) \/ Crash(p) PROVE Inv'
  <2>1. \A q \in Starters : CallOk(q)'
    BY <1>1, <1>2, OthersOk, MoverOk
  <2>2. CallInv'
    BY <2>1 DEF CallInv
  <2>3. QED
    BY <1>1, <1>2, <2>2, OneRunnerStep, RowStep DEF Inv
<1>3. CASE UNCHANGED vars
  BY <1>3 DEF vars, Inv, TypeOK, CallInv, CallOk, RowInv, Below, OneRunner, Holds
<1>4. QED
  BY <1>2, <1>3 DEF Next

LEMMA Invariance == Spec => []Inv
BY InvInit, InvStep, PTL DEF Spec

\* The types are kept, for any number of starters, versions and statements.
THEOREM TypeCorrect == Spec => []TypeOK
BY Invariance, PTL DEF Inv

\* No two starters ever run the script of one version at a time.
THEOREM OneRunnerAtATime == Spec => []OneRunner
BY Invariance, PTL DEF Inv

\* No call returns before every script has run to its end, whatever fails,
\* dies or times out.
THEOREM ReturnsWithSchema == Spec => []NoBrokenSchema
<1>1. Inv => NoBrokenSchema
  BY VersionsAssumption
     DEF Inv, NoBrokenSchema, CallInv, CallOk, RowInv, Below, Versions
<1>2. QED
  BY <1>1, Invariance, PTL

\* No script starts before the ones below it are complete.
THEOREM AppliedInOrder == Spec => []InOrder
<1>1. Inv => InOrder
  BY DEF Inv, InOrder, RowInv, Below
<1>2. QED
  BY <1>1, Invariance, PTL

\* A holder that neither dies nor tries to delete its claim keeps it.
LEMMA GiveBackStep ==
    ASSUME Inv, [Next]_vars, NEW p \in Starters, NEW v \in Versions,
           Holds(p, v), claim'[v] = "claimed", start[p].step # "release"
    PROVE  Holds(p, v)' \/ start'[p] = Off
<1>1. TypeOK /\ start[p] \in Calls
  BY DEF Inv, TypeOK
<1>2. ASSUME NEW s \in {"mark", "release"}, At(p, s) PROVE Holds(p, v)'
  BY <1>1, <1>2, AtType DEF Holds, TypeOK
<1>3. CASE RunStatement(p)
  <2>1. CASE start' = [start EXCEPT ![p].ran = start[p].ran + 1]
    BY <1>1, <2>1, RanType DEF Holds
  <2>2. CASE At(p, "release")
    BY <1>2, <2>2
  <2>3. QED
    BY <1>3, <2>1, <2>2 DEF RunStatement
<1>4. CASE ScriptEnds(p) \/ HolderRaises(p)
  BY <1>2, <1>4 DEF ScriptEnds, HolderRaises
<1>5. CASE MarkComplete(p)
  BY <1>1, <1>5 DEF MarkComplete, Holds, TypeOK
<1>6. CASE Crash(p)
  BY <1>1, <1>6 DEF Crash, TypeOK
<1>7. ASSUME NEW q \in Starters \ {p}, Begin(q) \/ Step(q) \/ Crash(q)
      PROVE  Holds(p, v)'
  <2>1. start'[p] = start[p]
    BY <1>7, OthersStay
  <2>2. QED
    BY <2>1 DEF Holds
<1>8. CASE UNCHANGED vars
  BY <1>8 DEF vars, Holds
<1>9. ~Begin(p) /\ ~Skip(p) /\ ~TryClaim(p) /\ ~ReleaseClaim(p)
      /\ ~PeerCompleted(p) /\ ~PeerReleased(p) /\ ~TimesOut(p)
      /\ ~ReadRaises(p) /\ ~Return(p)
  BY DEF Holds, Begin, Skip, TryClaim, ReleaseClaim, PeerCompleted,
         PeerReleased, TimesOut, ReadRaises, Return
<1>10. QED
  BY <1>3, <1>4, <1>5, <1>6, <1>7, <1>8, <1>9 DEF Next, Step, Works

\* Only death or a release that fails leaves a claim without a holder.
THEOREM ClaimsComeBack == Spec => ClaimsGivenBack
<1>1. Inv /\ [Next]_vars =>
         [\A p \in Starters : \A v \in Versions :
             Holds(p, v) /\ claim'[v] = "claimed" =>
                Holds(p, v)' \/ start[p].step = "release" \/ start'[p] = Off]_vars
  BY GiveBackStep
<1>2. QED
  BY <1>1, Invariance, PTL DEF Spec, ClaimsGivenBack

\* A step of p is a step of the one process that runs the files alone, or nothing
\* it would notice: the row claimed, waited for or given back is no effect, and a
\* statement that is run again has its effect already.
LEMMA UpgradeStep ==
    ASSUME Inv, NEW p \in Starters, Begin(p) \/ Step(p) \/ Crash(p)
    PROVE  Upgrade!Next \/ UNCHANGED <<{v \in Versions : claim[v] = "complete"}, applied>>
<1>. DEFINE done == {v \in Versions : claim[v] = "complete"}
            w == start[p].version
            n == start[p].ran + 1
<1>1. TypeOK /\ CallOk(p) /\ RowInv /\ [Next]_vars /\ start[p] \in Calls
  BY DEF Inv, CallInv, Next, TypeOK
<1>2. Upgrade!Versions = Versions
  BY DEF Versions, Upgrade!Versions
<1>3. ASSUME w \in Versions, claim[w] = "claimed", Below(w)
      PROVE  w \in Upgrade!Versions /\ Upgrade!Due(w)
  BY <1>2, <1>3 DEF Upgrade!Due, Below
<1>4. CASE UNCHANGED <<claim, applied>>
  BY <1>4
<1>5. CASE TryClaim(p) /\ claim' = [claim EXCEPT ![w] = "claimed"]
  <2>1. w \in Versions /\ applied' = applied
    BY <1>5 DEF TryClaim
  <2>2. claim'[w] = "claimed"
    BY <1>1, <1>5, <2>1 DEF TypeOK
  <2>3. claim[w] # "complete"
    BY <1>5, <2>2 DEF TryClaim
  <2>. QED BY <1>1, <1>5, <2>1, <2>3 DEF TypeOK
<1>6. CASE ReleaseClaim(p) /\ claim' = [claim EXCEPT ![w] = "absent"]
  <2>1. claim[w] # "complete" /\ applied' = applied
    BY <1>1, <1>6 DEF ReleaseClaim, CallOk
  <2>. QED BY <1>1, <1>6, <2>1 DEF TypeOK
<1>7. CASE RunStatement(p) /\ applied' = [applied EXCEPT ![w] = IF @ < n THEN n ELSE @]
  <2>1. /\ w \in Versions /\ claim[w] = "claimed" /\ Below(w) /\ claim' = claim
        /\ start[p].ran < Statements[w] /\ start[p].ran <= applied[w]
    BY <1>1, <1>7 DEF RunStatement, CallOk
  <2>2. Upgrade!Due(w)
    BY <1>3, <2>1
  <2>3. applied[w] \in Nat /\ start[p].ran \in Nat /\ Statements[w] \in Nat
    BY <1>1, <2>1, VersionsAssumption DEF TypeOK, Calls
  <2>4. CASE applied[w] < n
    <3>1. applied[w] = start[p].ran /\ n = applied[w] + 1 /\ applied[w] < Statements[w]
      BY <2>1, <2>3, <2>4
    <3>2. applied' = [applied EXCEPT ![w] = @ + 1] /\ UNCHANGED done
      BY <1>7, <2>1, <2>4, <3>1
    <3>3. Upgrade!Run(w)
      BY <2>2, <3>1, <3>2 DEF Upgrade!Run
    <3>. QED BY <1>2, <2>1, <3>3 DEF Upgrade!Next
  <2>5. CASE ~(applied[w] < n)
    <3>1. applied' = applied
      BY <1>1, <1>7, <2>5 DEF TypeOK
    <3>. QED BY <2>1, <3>1
  <2>. QED BY <2>4, <2>5
<1>8. CASE MarkComplete(p)
  <2>1. /\ w \in Versions /\ claim[w] = "claimed" /\ Below(w) /\ applied' = applied
        /\ claim' = [claim EXCEPT ![w] = "complete"] /\ Statements[w] <= applied[w]
    BY <1>1, <1>8 DEF MarkComplete, CallOk
  <2>2. Upgrade!Due(w)
    BY <1>3, <2>1
  <2>3. applied[w] = Statements[w]
    <3>1. applied[w] \in Nat /\ Statements[w] \in Nat /\ applied[w] <= Statements[w]
      BY <1>1, <2>1, VersionsAssumption DEF TypeOK, RowInv
    <3>. QED BY <2>1, <3>1
  <2>4. done' = done \cup {w}
    BY <1>1, <2>1 DEF TypeOK
  <2>5. PICK v \in Upgrade!Versions : v = w
    BY <1>2, <2>1
  <2>6. Upgrade!Finish(v)
    BY <2>1, <2>2, <2>3, <2>4, <2>5 DEF Upgrade!Finish
  <2>. QED BY <2>6 DEF Upgrade!Next
<1>. QED
  BY <1>4, <1>5, <1>6, <1>7, <1>8
     DEF Step, Works, Begin, Crash, Skip, TryClaim, RunStatement, ScriptEnds,
         HolderRaises, ReleaseClaim, PeerCompleted, PeerReleased, TimesOut,
         ReadRaises, Return

\* Any number of starters that race, fail, die and retry take the database along
\* the states of one that runs every file by itself.
THEOREM RunsAsOne == Spec => FollowsUpgrade
<1>1. Init => Upgrade!Init
  BY DEF Init, Upgrade!Init, Upgrade!Versions, Versions
<1>2. Inv /\ [Next]_vars
        => [Upgrade!Next]_<<{v \in Versions : claim[v] = "complete"}, applied>>
  <2>. SUFFICES ASSUME Inv, [Next]_vars
                PROVE  \/ Upgrade!Next
                       \/ UNCHANGED <<{v \in Versions : claim[v] = "complete"}, applied>>
    OBVIOUS
  <2>1. CASE UNCHANGED vars
    BY <2>1 DEF vars
  <2>. QED BY <2>1, UpgradeStep DEF Next
<1>. QED BY <1>1, <1>2, Invariance, PTL DEF Spec, FollowsUpgrade, Upgrade!Spec
=============================================================================
