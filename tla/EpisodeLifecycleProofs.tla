----------------------- MODULE EpisodeLifecycleProofs -----------------------
(***************************************************************************)
(* Theorems about EpisodeLifecycle for any number of sessions, servers,    *)
(* hooks, UIs, goals and episodes.                                         *)
(***************************************************************************)
EXTENDS EpisodeLifecycle, TLAPS

USE ProcessAssumption, GoalAssumption, OutcomeAssumption

\* Closing a row yields a row.
LEMMA ClosedLemma ==
    ASSUME NEW row \in Row, NEW o \in Outcomes, NEW r \in Reasons,
           NEW L, L \subseteq Sessions
    PROVE  Closed(row, o, r, L) \in Row
BY DEF Closed, Row

\* A process that returns to Idle leaves proc well typed.
LEMMA WorkLemma ==
    ASSUME TypeOK, NEW p \in Procs, NEW w \in Work, Goto(p, w)
    PROVE  proc' \in [Procs -> Work]
BY DEF TypeOK, Goto

LEMMA IdleLemma == Idle \in Work
BY DEF Work

LEMMA ReasonLemma ==
    ASSUME NEW o \in Outcomes PROVE DefaultReason[o] \in Reasons
BY DEF Outcomes, Reasons, DefaultReason

-----------------------------------------------------------------------------
(* One lemma per operation: it preserves TypeOK. *)

LEMMA BootstrapType ==
    ASSUME TypeOK, NEW p \in Servers \cup Hooks, Bootstrap(p) PROVE TypeOK'
<1> USE DEF Procs
<1>1. CASE BootstrapReuse(p)
  BY <1>1 DEF BootstrapReuse, TypeOK, vars
<1>2. CASE BootstrapMiss(p)
  <2>1. [step |-> "bootstrap_open"] \in Work
    BY DEF Work
  <2> QED BY <1>2, <2>1, WorkLemma DEF BootstrapMiss, TypeOK
<1>3. CASE BootstrapOpen(p)
  <2>1. PICK e \in EpisodeIds :
           episodes' = [episodes EXCEPT ![e] = Opened(SessionOf[p], NoGoal)]
    BY <1>3 DEF BootstrapOpen, Fresh
  <2>2. Opened(SessionOf[p], NoGoal) \in Row
    BY DEF Opened, Row
  <2>3. proc' \in [Procs -> Work]
    BY <1>3, WorkLemma, IdleLemma DEF BootstrapOpen
  <2> QED BY <1>3, <2>1, <2>2, <2>3 DEF BootstrapOpen, TypeOK
<1> QED BY <1>1, <1>2, <1>3 DEF Bootstrap

LEMMA CreateType ==
    ASSUME TypeOK, NEW p \in Servers, Create(p) PROVE TypeOK'
<1> USE DEF Procs
<1>1. CASE CreateFind(p)
  <2>1. PICK e \in EpisodeIds :
           Goto(p, [step |-> "create_insert", episode |-> e])
    BY <1>1 DEF CreateFind, Active
  <2>2. [step |-> "create_insert", episode |-> e] \in Work
    BY DEF Work
  <2> QED BY <1>1, <2>1, <2>2, WorkLemma DEF CreateFind, TypeOK
<1>2. CASE CreateMiss(p)
  <2>1. [step |-> "create_open"] \in Work
    BY DEF Work
  <2> QED BY <1>2, <2>1, WorkLemma DEF CreateMiss, TypeOK
<1>3. CASE CreateOpen(p)
  <2>1. PICK e \in EpisodeIds :
           /\ episodes' = [episodes EXCEPT ![e] = Opened(SessionOf[p], NoGoal)]
           /\ Goto(p, [step |-> "create_insert", episode |-> e])
    BY <1>3 DEF CreateOpen, Fresh
  <2>2. Opened(SessionOf[p], NoGoal) \in Row
    BY DEF Opened, Row
  <2>3. [step |-> "create_insert", episode |-> e] \in Work
    BY DEF Work
  <2>4. proc' \in [Procs -> Work]
    BY <2>1, <2>3, WorkLemma
  <2> QED BY <1>3, <2>1, <2>2, <2>4 DEF CreateOpen, TypeOK
<1>4. CASE CreateInsert(p)
  <2>1. proc[p].episode \in EpisodeIds
    BY <1>4 DEF CreateInsert, TypeOK, Work, Idle, Closing
  <2>2. proc' \in [Procs -> Work]
    BY <1>4, WorkLemma, IdleLemma DEF CreateInsert
  <2> QED BY <1>4, <2>1, <2>2 DEF CreateInsert, TypeOK
<1> QED BY <1>1, <1>2, <1>3, <1>4 DEF Create

LEMMA StartType ==
    ASSUME TypeOK, NEW p \in Servers, Start(p) PROVE TypeOK'
<1> USE DEF Procs
<1>1. CASE \E g \in Goals : StartResume(p, g)
  BY <1>1 DEF StartResume, TypeOK, vars
<1>2. CASE \E g \in Goals : StartRead(p, g)
  <2>1. PICK g \in Goals : StartRead(p, g)
    BY <1>2
  <2>2. [step |-> "start", goal |-> g] \in Work
    BY DEF Work
  <2> QED BY <2>1, <2>2, WorkLemma DEF StartRead, TypeOK
<1>3. ASSUME proc[p].step = "start" PROVE proc[p].goal \in Goals
  BY <1>3 DEF TypeOK, Work, Idle, Closing
<1>4. CASE StartHarden(p)
  <2>1. PICK e \in EpisodeIds :
           episodes' = [episodes EXCEPT ![e] = Hardened(@, proc[p].goal)]
    BY <1>4 DEF StartHarden, Active
  <2>2. Hardened(episodes[e], proc[p].goal) \in Row
    BY <1>3, <1>4 DEF StartHarden, TypeOK, Hardened, Row
  <2>3. proc' \in [Procs -> Work]
    BY <1>4, WorkLemma, IdleLemma DEF StartHarden
  <2> QED BY <1>4, <2>1, <2>2, <2>3 DEF StartHarden, TypeOK
<1>5. CASE StartSupersede(p)
  <2>1. PICK e \in EpisodeIds, n \in EpisodeIds :
           episodes' = [episodes EXCEPT
              ![e] = Closed(@, "no_outcome", "superseded", {SessionOf[p]}),
              ![n] = Opened(SessionOf[p], proc[p].goal)]
    BY <1>5 DEF StartSupersede, Active, Fresh
  <2>2. Closed(episodes[e], "no_outcome", "superseded", {SessionOf[p]}) \in Row
    BY DEF TypeOK, Closed, Row, Outcomes, Reasons
  <2>3. Opened(SessionOf[p], proc[p].goal) \in Row
    BY <1>3, <1>5 DEF StartSupersede, Opened, Row
  <2>4. proc' \in [Procs -> Work]
    BY <1>5, WorkLemma, IdleLemma DEF StartSupersede
  <2> QED BY <1>5, <2>1, <2>2, <2>3, <2>4 DEF StartSupersede, TypeOK
<1>6. CASE StartNew(p)
  <2>1. PICK n \in EpisodeIds :
           episodes' = [episodes EXCEPT ![n] = Opened(SessionOf[p], proc[p].goal)]
    BY <1>6 DEF StartNew, Fresh
  <2>2. Opened(SessionOf[p], proc[p].goal) \in Row
    BY <1>3, <1>6 DEF StartNew, Opened, Row
  <2>3. proc' \in [Procs -> Work]
    BY <1>6, WorkLemma, IdleLemma DEF StartNew
  <2> QED BY <1>6, <2>1, <2>2, <2>3 DEF StartNew, TypeOK
<1> QED BY <1>1, <1>2, <1>4, <1>5, <1>6 DEF Start

\* What a pending close carries.
LEMMA PendingClose ==
    ASSUME TypeOK, NEW p \in Procs, proc[p].step = "close"
    PROVE  /\ proc[p].session \in Sessions
           /\ proc[p].episode \in EpisodeIds
           /\ proc[p].outcome \in Outcomes
           /\ proc[p].reason \in Reasons
BY DEF TypeOK, Work, Idle, Closing

\* ReadThenClose leaves a well-typed pending close on an active episode.
LEMMA ReadThenCloseLemma ==
    ASSUME TypeOK, NEW p \in Procs, NEW s \in Sessions, NEW o \in Outcomes,
           NEW r \in Reasons,
           ReadThenClose(p, s, o, r)
    PROVE  \E e \in Active(s) :
              /\ proc' = [proc EXCEPT ![p] =
                    [step |-> "close", session |-> s, episode |-> e,
                     outcome |-> o, reason |-> r]]
              /\ proc' \in [Procs -> Work]
<1>1. PICK e \in Active(s) :
         Goto(p, [step |-> "close", session |-> s, episode |-> e,
                  outcome |-> o, reason |-> r])
  BY DEF ReadThenClose
<1>2. [step |-> "close", session |-> s, episode |-> e,
       outcome |-> o, reason |-> r] \in Work
  BY DEF Work, Closing, Active
<1> QED BY <1>1, <1>2, WorkLemma DEF Goto

LEMMA CloseType ==
    ASSUME TypeOK, NEW p \in Servers, Close(p) PROVE TypeOK'
<1> USE DEF Procs
<1>1. CASE \E o \in CloseOutcomes : CloseEpisodeTool(p, o)
  <2>1. PICK o \in Outcomes : CloseEpisodeTool(p, o)
    BY <1>1 DEF Outcomes
  <2>2. DefaultReason[o] \in Reasons
    BY ReasonLemma
  <2> QED BY <2>1, <2>2, ReadThenCloseLemma DEF CloseEpisodeTool, TypeOK
<1>2. CASE \E s \in Sessions : CommitClose(p, s)
  BY <1>2, ReadThenCloseLemma DEF CommitClose, TypeOK, Outcomes, Reasons
<1>3. CASE \E s \in Sessions : SessionEndCheck(p, s)
  <2>1. PICK s \in Sessions : SessionEndCheck(p, s)
    BY <1>3
  <2>2. [step |-> "session_end", session |-> s] \in Work
    BY DEF Work
  <2> QED BY <2>1, <2>2, WorkLemma DEF SessionEndCheck, TypeOK
<1>4. CASE SessionEndRead(p)
  <2>1. proc[p].session \in Sessions
    BY <1>4 DEF SessionEndRead, TypeOK, Work, Idle, Closing
  <2> QED BY <1>4, <2>1, ReadThenCloseLemma
          DEF SessionEndRead, TypeOK, Outcomes, Reasons
<1>5. CASE SessionEndGone(p)
  BY <1>5, WorkLemma, IdleLemma DEF SessionEndGone, TypeOK
<1>6. CASE CloseWrite(p)
  <2>1. Closed(episodes[proc[p].episode], proc[p].outcome, proc[p].reason,
               {proc[p].session}) \in Row
    <3>1. proc[p].step = "close"
      BY <1>6 DEF CloseWrite
    <3>2. /\ proc[p].session \in Sessions
          /\ proc[p].outcome \in Outcomes
          /\ proc[p].reason \in Reasons
          /\ episodes[proc[p].episode] \in Row
      BY <3>1, PendingClose DEF TypeOK
    <3> QED BY <3>2, ClosedLemma
  <2>2. proc' \in [Procs -> Work]
    BY <1>6, WorkLemma, IdleLemma DEF CloseWrite
  <2>3. proc[p].episode \in EpisodeIds
    BY <1>6, PendingClose DEF CloseWrite
  <2> QED BY <1>6, <2>1, <2>2, <2>3 DEF CloseWrite, TypeOK
<1> QED BY <1>1, <1>2, <1>3, <1>4, <1>5, <1>6 DEF Close

LEMMA CloseByIdType ==
    ASSUME TypeOK, NEW u \in UIs, CloseById(u) PROVE TypeOK'
<1> USE DEF Procs
<1>1. CASE \E e \in EpisodeIds, o \in CloseOutcomes : CloseByIdCheck(u, e, o)
  <2>1. PICK e \in EpisodeIds, o \in Outcomes : CloseByIdCheck(u, e, o)
    BY <1>1 DEF Outcomes
  <2>2. [step |-> "close_by_id", episode |-> e, outcome |-> o] \in Work
    BY DEF Work
  <2> QED BY <2>1, <2>2, WorkLemma DEF CloseByIdCheck, TypeOK
<1>2. CASE CloseByIdWrite(u)
  <2>1. proc[u].episode \in EpisodeIds /\ proc[u].outcome \in Outcomes
    BY <1>2 DEF CloseByIdWrite, TypeOK, Work, Idle, Closing
  <2>2. Closed(episodes[proc[u].episode], proc[u].outcome,
               DefaultReason[proc[u].outcome],
               episodes[proc[u].episode].joined) \in Row
    <3>1. /\ episodes[proc[u].episode] \in Row
          /\ episodes[proc[u].episode].joined \subseteq Sessions
      BY <2>1 DEF TypeOK, Row
    <3> QED BY <2>1, <3>1, ReasonLemma, ClosedLemma
  <2>3. proc' \in [Procs -> Work]
    BY <1>2, WorkLemma, IdleLemma DEF CloseByIdWrite
  <2> QED BY <1>2, <2>1, <2>2, <2>3 DEF CloseByIdWrite, TypeOK
<1> QED BY <1>1, <1>2 DEF CloseById

LEMMA AbortType ==
    ASSUME TypeOK, NEW p \in Procs, Abort(p) PROVE TypeOK'
BY WorkLemma, IdleLemma DEF Abort, TypeOK

LEMMA NextType == TypeOK /\ [Next]_vars => TypeOK'
<1>1. CASE UNCHANGED vars
  BY <1>1 DEF TypeOK, vars
<1>2. CASE Next
  BY <1>2, BootstrapType, CreateType, StartType, CloseType, CloseByIdType,
     AbortType DEF Next
<1> QED BY <1>1, <1>2

\* The tables and the pending work of every process are well typed in every
\* reachable state.
THEOREM TypeCorrect == Spec => []TypeOK
<1>1. Init => TypeOK
  BY IdleLemma DEF Init, TypeOK, Absent, Row
<1> QED BY <1>1, NextType, PTL DEF Spec

-----------------------------------------------------------------------------
(* What a step may do to one row. *)

RowStep(row, new) ==
    \/ new = row
    \/ /\ row.state = "absent"
       /\ \E s \in Sessions, g \in Goals \cup {NoGoal} : new = Opened(s, g)
    \/ /\ row.state = "open" /\ row.goal = NoGoal
       /\ \E g \in Goals : new = Hardened(row, g)
    \/ /\ row.state # "absent"
       /\ \E o \in Outcomes, r \in Reasons, L \in SUBSET row.joined :
             L # {} /\ new = Closed(row, o, r, L)

LEMMA RowStepLemma ==
    ASSUME NEW row \in Row, NEW new, RowInv(row), RowStep(row, new)
    PROVE  /\ RowInv(new)
           /\ row.joined \subseteq new.joined
           /\ row.state # "absent" => new.state # "absent"
<1>1. CASE new = row
  BY <1>1
<1>2. CASE /\ row.state = "absent"
           /\ \E s \in Sessions, g \in Goals \cup {NoGoal} : new = Opened(s, g)
  BY <1>2 DEF RowInv, Opened
<1>3. CASE /\ row.state = "open" /\ row.goal = NoGoal
           /\ \E g \in Goals : new = Hardened(row, g)
  BY <1>3 DEF RowInv, Hardened, Row
<1>4. CASE /\ row.state # "absent"
           /\ \E o \in Outcomes, r \in Reasons, L \in SUBSET row.joined :
                 L # {} /\ new = Closed(row, o, r, L)
  <2>1. PICK o \in Outcomes, r \in Reasons, L \in SUBSET row.joined :
           L # {} /\ new = Closed(row, o, r, L)
    BY <1>4
  <2>2. /\ new.state = "closed"
        /\ new.joined = row.joined
        /\ new.left = row.left \cup L
    BY <2>1 DEF Closed, Row
  <2>3. PICK s \in Sessions : row.joined = {s}
    BY <1>4 DEF RowInv
  <2>4. L = {s} /\ row.left \subseteq {s}
    BY <1>4, <2>1, <2>3 DEF RowInv, Row
  <2> QED BY <2>2, <2>3, <2>4 DEF RowInv
<1> QED BY <1>1, <1>2, <1>3, <1>4 DEF RowStep

\* Every step of the system is a RowStep on every row.
LEMMA StepRows ==
    ASSUME IInv, [Next]_vars, NEW d \in EpisodeIds
    PROVE  RowStep(episodes[d], episodes'[d])
<1> USE DEF Procs, IInv
<1>0. TypeOK /\ episodes[d] \in Row
  BY DEF TypeOK
<1>1. CASE UNCHANGED episodes
  BY <1>1 DEF RowStep
<1>2. ASSUME NEW p \in Servers \cup Hooks, Bootstrap(p)
      PROVE  RowStep(episodes[d], episodes'[d])
  BY <1>0, <1>1, <1>2 DEF Bootstrap, BootstrapReuse, BootstrapMiss,
     BootstrapOpen, vars, RowStep, Fresh, TypeOK
<1>3. ASSUME NEW p \in Servers, Create(p)
      PROVE  RowStep(episodes[d], episodes'[d])
  BY <1>0, <1>1, <1>3 DEF Create, CreateFind, CreateMiss, CreateOpen,
     CreateInsert, vars, RowStep, Fresh, TypeOK
<1>4. ASSUME NEW p \in Servers, Start(p)
      PROVE  RowStep(episodes[d], episodes'[d])
  <2>1. ASSUME proc[p].step = "start" PROVE proc[p].goal \in Goals
    BY <2>1 DEF TypeOK, Work, Idle, Closing
  <2>2. CASE StartHarden(p)
    BY <1>0, <2>1, <2>2 DEF StartHarden, Active, RowStep, TypeOK
  <2>3. CASE StartSupersede(p)
    <3>1. PICK e \in Active(SessionOf[p]), n \in Fresh :
             episodes' = [episodes EXCEPT
                ![e] = Closed(@, "no_outcome", "superseded", {SessionOf[p]}),
                ![n] = Opened(SessionOf[p], proc[p].goal)]
      BY <2>3 DEF StartSupersede
    <3>2. e # n /\ e \in EpisodeIds /\ n \in EpisodeIds
      BY <3>1 DEF Active, Fresh
    <3>3. CASE d = n
      BY <1>0, <2>1, <2>3, <3>1, <3>2, <3>3 DEF StartSupersede, RowStep, Fresh, TypeOK
    <3>4. CASE d = e
      <4>1. episodes'[d] = Closed(episodes[d], "no_outcome", "superseded",
                                  {SessionOf[p]})
        BY <1>0, <3>1, <3>2, <3>4 DEF TypeOK
      <4>2. {SessionOf[p]} \in SUBSET episodes[d].joined
        BY <3>1, <3>4 DEF Active
      <4>3. episodes[d].state # "absent"
        BY <3>1, <3>4 DEF Active
      <4>4. "no_outcome" \in Outcomes /\ "superseded" \in Reasons
        BY DEF Outcomes, Reasons
      <4> QED BY <4>1, <4>2, <4>3, <4>4 DEF RowStep
    <3>5. CASE d # n /\ d # e
      BY <1>0, <3>1, <3>5 DEF RowStep, TypeOK
    <3> QED BY <3>3, <3>4, <3>5
  <2>4. CASE StartNew(p)
    BY <1>0, <2>1, <2>4 DEF StartNew, RowStep, Fresh, TypeOK
  <2> QED BY <1>1, <1>4, <2>2, <2>3, <2>4 DEF Start, StartResume, StartRead, vars
<1>5. ASSUME NEW p \in Servers, Close(p)
      PROVE  RowStep(episodes[d], episodes'[d])
  <2>1. CASE CloseWrite(p)
    <3>1. /\ proc[p].session \in episodes[proc[p].episode].joined
          /\ proc[p].outcome \in Outcomes
          /\ proc[p].reason \in Reasons
      BY <2>1, PendingClose DEF CloseWrite, PendingBound
    <3>2. CASE d = proc[p].episode
      <4>1. episodes'[d] = Closed(episodes[d], proc[p].outcome, proc[p].reason,
                                  {proc[p].session})
        BY <1>0, <2>1, <3>2 DEF CloseWrite, TypeOK
      <4>2. episodes[d].state # "absent"
        BY <3>1, <3>2 DEF RowInv
      <4>3. {proc[p].session} \in SUBSET episodes[d].joined
        BY <3>1, <3>2
      <4> QED BY <3>1, <4>1, <4>2, <4>3 DEF RowStep
    <3>3. CASE d # proc[p].episode
      BY <1>0, <2>1, <3>3 DEF CloseWrite, RowStep, TypeOK
    <3> QED BY <3>2, <3>3
  <2> QED BY <1>1, <1>5, <2>1 DEF Close, CloseEpisodeTool, CommitClose,
          SessionEndCheck, SessionEndRead, SessionEndGone
<1>6. ASSUME NEW u \in UIs, CloseById(u)
      PROVE  RowStep(episodes[d], episodes'[d])
  <2>1. CASE CloseByIdWrite(u)
    <3>1. /\ proc[u].episode \in EpisodeIds /\ proc[u].outcome \in Outcomes
          /\ DefaultReason[proc[u].outcome] \in Reasons
      BY <2>1, ReasonLemma DEF CloseByIdWrite, TypeOK, Work, Idle, Closing
    <3>2. CASE d = proc[u].episode
      <4>1. episodes'[d] = Closed(episodes[d], proc[u].outcome,
               DefaultReason[proc[u].outcome], episodes[d].joined)
        BY <1>0, <2>1, <3>2 DEF CloseByIdWrite, TypeOK
      <4>2. episodes[d].state # "absent"
        BY <2>1, <3>2 DEF CloseByIdWrite, PendingBound
      <4>3. episodes[d].joined \in SUBSET episodes[d].joined /\ episodes[d].joined # {}
        BY <4>2 DEF RowInv
      <4> QED BY <3>1, <4>1, <4>2, <4>3 DEF RowStep
    <3>3. CASE d # proc[u].episode
      BY <1>0, <2>1, <3>3 DEF CloseByIdWrite, RowStep, TypeOK
    <3> QED BY <3>2, <3>3
  <2> QED BY <1>1, <1>6, <2>1 DEF CloseById, CloseByIdCheck
<1> QED BY <1>1, <1>2, <1>3, <1>4, <1>5, <1>6 DEF Next, Abort, vars

-----------------------------------------------------------------------------
(* The inductive invariant. *)

LEMMA InitIInv == Init => IInv
<1> SUFFICES ASSUME Init PROVE IInv
  OBVIOUS
<1>1. TypeOK
  BY IdleLemma DEF Init, TypeOK, Absent, Row
<1>2. \A e \in EpisodeIds : RowInv(episodes[e])
  BY DEF Init, RowInv, Absent
<1>3. PendingBound
  BY DEF Init, PendingBound, Idle
<1>4. ObservationInOwnEpisode
  BY DEF Init, ObservationInOwnEpisode
<1> QED BY <1>1, <1>2, <1>3, <1>4 DEF IInv

\* A pending write either was pending before the step or has just been
\* prepared from a row that its session had joined.
LEMMA StepPending ==
    ASSUME IInv, [Next]_vars, NEW p \in Procs
    PROVE  /\ proc'[p].step = "close" =>
                proc'[p].session \in episodes[proc'[p].episode].joined
           /\ proc'[p].step = "create_insert" =>
                \/ SessionOf[p] \in episodes[proc'[p].episode].joined
                \/ SessionOf[p] \in episodes'[proc'[p].episode].joined
           /\ proc'[p].step = "close_by_id" =>
                episodes[proc'[p].episode].state # "absent"
<1> DEFINE P(w) ==
      /\ w.step = "close" => w.session \in episodes[w.episode].joined
      /\ w.step = "create_insert" =>
            \/ SessionOf[p] \in episodes[w.episode].joined
            \/ SessionOf[p] \in episodes'[w.episode].joined
      /\ w.step = "close_by_id" => episodes[w.episode].state # "absent"
<1> SUFFICES P(proc'[p])
  OBVIOUS
<1>0. proc \in [Procs -> Work] /\ P(proc[p])
  BY DEF IInv, TypeOK, PendingBound
<1>1. ASSUME NEW q \in Procs, NEW w, Goto(q, w), q = p => P(w)
      PROVE  P(proc'[p])
  <2>1. CASE q = p
    BY <1>0, <1>1, <2>1 DEF Goto
  <2>2. CASE q # p
    BY <1>0, <1>1, <2>2 DEF Goto
  <2> QED BY <2>1, <2>2
<1>2. P(Idle)
  BY DEF Idle
<1> HIDE DEF P
<1>3. ASSUME NEW q \in Procs, Goto(q, Idle) PROVE P(proc'[p])
  BY <1>1, <1>2, <1>3
<1>4. CASE UNCHANGED proc
  BY <1>0, <1>4
<1>5. ASSUME NEW q \in Servers \cup Hooks, Bootstrap(q) PROVE P(proc'[p])
  <2>1. CASE BootstrapMiss(q)
    BY <1>1, <2>1 DEF BootstrapMiss, P, Procs
  <2> QED BY <1>3, <1>4, <1>5, <2>1
          DEF Bootstrap, BootstrapReuse, BootstrapOpen, vars, Procs
<1>6. ASSUME NEW q \in Servers, Create(q) PROVE P(proc'[p])
  <2>1. CASE CreateFind(q)
    BY <1>1, <2>1 DEF CreateFind, Active, P, Procs
  <2>2. CASE CreateMiss(q)
    BY <1>1, <2>2 DEF CreateMiss, P, Procs
  <2>3. CASE CreateOpen(q)
    <3>1. PICK e \in EpisodeIds :
             /\ episodes' = [episodes EXCEPT ![e] = Opened(SessionOf[q], NoGoal)]
             /\ Goto(q, [step |-> "create_insert", episode |-> e])
      BY <2>3 DEF CreateOpen, Fresh
    <3>2. SessionOf[q] \in episodes'[e].joined
      BY <3>1 DEF Opened, IInv, TypeOK
    <3>3. q = p => P([step |-> "create_insert", episode |-> e])
      BY <3>2 DEF P
    <3> QED BY <1>1, <3>1, <3>3 DEF Procs
  <2> QED BY <1>3, <1>6, <2>1, <2>2, <2>3 DEF Create, CreateInsert, Procs
<1>7. ASSUME NEW q \in Servers, Start(q) PROVE P(proc'[p])
  <2>1. CASE \E g \in Goals : StartRead(q, g)
    BY <1>1, <2>1 DEF StartRead, P, Procs
  <2> QED BY <1>3, <1>4, <1>7, <2>1
          DEF Start, StartResume, StartHarden, StartSupersede, StartNew, vars, Procs
<1>8. ASSUME NEW q \in Servers, Close(q) PROVE P(proc'[p])
  <2>1. ASSUME NEW s, NEW o, NEW r, ReadThenClose(q, s, o, r)
        PROVE  P(proc'[p])
    <3>1. PICK e \in Active(s) :
             Goto(q, [step |-> "close", session |-> s, episode |-> e,
                      outcome |-> o, reason |-> r])
      BY <2>1 DEF ReadThenClose
    <3>2. P([step |-> "close", session |-> s, episode |-> e,
             outcome |-> o, reason |-> r])
      BY DEF P, Active
    <3> QED BY <1>1, <3>1, <3>2 DEF Procs
  <2>2. CASE \E s \in Sessions : SessionEndCheck(q, s)
    BY <1>1, <2>2 DEF SessionEndCheck, P, Procs
  <2> QED BY <1>3, <1>8, <2>1, <2>2
          DEF Close, CloseEpisodeTool, CommitClose, SessionEndRead,
              SessionEndGone, CloseWrite, Procs
<1>9. ASSUME NEW u \in UIs, CloseById(u) PROVE P(proc'[p])
  <2>1. CASE \E e \in EpisodeIds, o \in CloseOutcomes : CloseByIdCheck(u, e, o)
    BY <1>1, <2>1 DEF CloseByIdCheck, P, Procs
  <2> QED BY <1>3, <1>9, <2>1 DEF CloseById, CloseByIdWrite, Procs
<1>10. ASSUME NEW q \in Procs, Abort(q) PROVE P(proc'[p])
  BY <1>3, <1>10 DEF Abort
<1> QED BY <1>4, <1>5, <1>6, <1>7, <1>8, <1>9, <1>10 DEF Next, vars

LEMMA NextIInv == IInv /\ [Next]_vars => IInv'
<1> SUFFICES ASSUME IInv, [Next]_vars PROVE IInv'
  OBVIOUS
<1>1. TypeOK /\ TypeOK'
  BY NextType DEF IInv
<1>2. ASSUME NEW e \in EpisodeIds
      PROVE  /\ RowInv(episodes'[e])
             /\ episodes[e].joined \subseteq episodes'[e].joined
             /\ episodes[e].state # "absent" => episodes'[e].state # "absent"
  BY <1>1, StepRows, RowStepLemma DEF IInv, TypeOK
<1>3. PendingBound'
  <2> SUFFICES ASSUME NEW p \in Procs
               PROVE  /\ proc'[p].step = "close" =>
                            proc'[p].session \in episodes'[proc'[p].episode].joined
                      /\ proc'[p].step = "create_insert" =>
                            SessionOf[p] \in episodes'[proc'[p].episode].joined
                      /\ proc'[p].step = "close_by_id" =>
                            episodes'[proc'[p].episode].state # "absent"
    BY DEF PendingBound
  <2>1. proc'[p].step \in {"close", "create_insert", "close_by_id"} =>
           proc'[p].episode \in EpisodeIds
    BY <1>1 DEF TypeOK, Work, Idle, Closing
  <2> QED BY <1>2, <2>1, StepPending
<1>4. ObservationInOwnEpisode'
  <2>1. CASE UNCHANGED filed
    BY <1>1, <1>2, <2>1 DEF IInv, ObservationInOwnEpisode, TypeOK
  <2>2. ASSUME NEW p \in Servers, CreateInsert(p)
        PROVE  ObservationInOwnEpisode'
    <3>1. /\ proc[p].episode \in EpisodeIds
          /\ SessionOf[p] \in episodes[proc[p].episode].joined
      BY <1>1, <2>2 DEF CreateInsert, IInv, PendingBound, Procs, TypeOK,
         Work, Idle, Closing
    <3> QED BY <1>1, <1>2, <2>2, <3>1
            DEF CreateInsert, IInv, ObservationInOwnEpisode, TypeOK
  <2> QED BY <2>1, <2>2 DEF Next, vars, Bootstrap, BootstrapReuse,
          BootstrapMiss, BootstrapOpen, Create, CreateFind, CreateMiss,
          CreateOpen, Start, StartResume, StartRead, StartHarden,
          StartSupersede, StartNew, Close, CloseEpisodeTool, CommitClose,
          SessionEndCheck, SessionEndRead, SessionEndGone, CloseWrite,
          CloseById, CloseByIdCheck, CloseByIdWrite, Abort
<1> QED BY <1>1, <1>2, <1>3, <1>4 DEF IInv

THEOREM Inductive == Spec => []IInv
BY InitIInv, NextIInv, PTL DEF Spec

\* An open episode keeps an open binding and a closed one keeps none,
\* whatever the interleaving of closers, hooks and the UI.
THEOREM BindingsAgree == Spec => []BindingsFollowEpisode
<1>1. IInv => BindingsFollowEpisode
  BY DEF IInv, RowInv, BindingsFollowEpisode
<1> QED BY <1>1, Inductive, PTL

\* An observation stays in an episode that its own session joined.
THEOREM ObservationsStayHome == Spec => []ObservationInOwnEpisode
<1>1. IInv => ObservationInOwnEpisode
  BY DEF IInv
<1> QED BY <1>1, Inductive, PTL

\* A goal is only ever written on an open background episode.
THEOREM GoalsAreSetOnce == Spec => GoalSetOnce
<1>1. IInv /\ [Next]_vars =>
         [\A e \in EpisodeIds :
            episodes[e].state # "absent" /\ episodes'[e].goal # episodes[e].goal
            => episodes[e].goal = NoGoal /\ episodes[e].state = "open"]_vars
  <2> SUFFICES ASSUME IInv, [Next]_vars, NEW e \in EpisodeIds,
                      episodes[e].state # "absent",
                      episodes'[e].goal # episodes[e].goal
               PROVE  episodes[e].goal = NoGoal /\ episodes[e].state = "open"
    OBVIOUS
  <2>1. episodes[e] \in Row /\ RowStep(episodes[e], episodes'[e])
    BY StepRows DEF IInv, TypeOK
  <2> QED BY <2>1 DEF RowStep, Closed, Row
<1> QED BY <1>1, Inductive, PTL DEF Spec, GoalSetOnce

\* An ended episode changes in its outcome and reason only.
THEOREM ClosedIsFinal == Spec => ClosedStaysClosed
<1>1. IInv /\ [Next]_vars =>
         [\A e \in EpisodeIds : episodes[e].state = "closed" =>
            episodes'[e] = [episodes[e] EXCEPT !.outcome = episodes'[e].outcome,
                                               !.reason = episodes'[e].reason]]_vars
  <2> SUFFICES ASSUME IInv, [Next]_vars, NEW e \in EpisodeIds,
                      episodes[e].state = "closed"
               PROVE  episodes'[e] =
                        [episodes[e] EXCEPT !.outcome = episodes'[e].outcome,
                                            !.reason = episodes'[e].reason]
    OBVIOUS
  <2>1. /\ episodes[e] \in Row /\ RowStep(episodes[e], episodes'[e])
        /\ episodes[e].left = episodes[e].joined
    BY StepRows DEF IInv, TypeOK, RowInv
  <2>2. CASE episodes'[e] = episodes[e]
    BY <2>1, <2>2 DEF Row
  <2>3. CASE \E o \in Outcomes, r \in Reasons, L \in SUBSET episodes[e].joined :
                L # {} /\ episodes'[e] = Closed(episodes[e], o, r, L)
    <3>1. PICK o \in Outcomes, r \in Reasons, L \in SUBSET episodes[e].joined :
             episodes'[e] = Closed(episodes[e], o, r, L)
      BY <2>3
    <3>2. episodes[e].left \cup L = episodes[e].left
      BY <2>1, <3>1
    <3> QED BY <2>1, <3>1, <3>2 DEF Closed, Row
  <2> QED BY <2>1, <2>2, <2>3 DEF RowStep
<1> QED BY <1>1, Inductive, PTL DEF Spec, ClosedStaysClosed

-----------------------------------------------------------------------------
(* At most one active episode per session, if one process opens for it.    *)

\* A step that is not one of p's openings never makes an episode active for
\* p's session: the others only harden or close, or open for their own.
LEMMA ActiveOnlyShrinks ==
    ASSUME OneOpener, IInv, [Next]_vars, NEW p \in Servers \cup Hooks,
           proc'[p].step \in {"bootstrap_open", "create_open"}
    PROVE  Active(SessionOf[p])' \subseteq Active(SessionOf[p])
<1> SUFFICES ASSUME NEW e \in Active(SessionOf[p])'
             PROVE  e \in Active(SessionOf[p])
  OBVIOUS
<1>1. /\ e \in EpisodeIds
      /\ episodes'[e].state = "open"
      /\ SessionOf[p] \in episodes'[e].joined \ episodes'[e].left
  BY DEF Active
<1>2. episodes[e] \in Row /\ RowStep(episodes[e], episodes'[e])
  BY <1>1, StepRows DEF IInv, TypeOK
<1>3. CASE episodes[e].state # "absent"
  BY <1>1, <1>2, <1>3 DEF RowStep, Active, Hardened, Closed, Row
<1>4. CASE episodes[e].state = "absent"
  <2>1. episodes'[e] # episodes[e]
    BY <1>1, <1>4
  <2>2. ASSUME NEW q \in Servers \cup Hooks, q # p,
               \/ BootstrapOpen(q) \/ CreateOpen(q) \/ StartHarden(q)
               \/ StartSupersede(q) \/ StartNew(q) \/ CloseWrite(q)
        PROVE  FALSE
    <3>0. SessionOf[q] # SessionOf[p]
      BY <2>2 DEF OneOpener
    <3>1. \A g : SessionOf[p] \notin Opened(SessionOf[q], g).joined
      BY <3>0 DEF Opened
    <3>2. CASE BootstrapOpen(q) \/ CreateOpen(q) \/ StartNew(q)
      BY <1>1, <2>1, <3>1, <3>2 DEF BootstrapOpen, CreateOpen, StartNew, IInv, TypeOK
    <3>3. CASE StartHarden(q)
      BY <1>1, <1>4, <2>1, <3>3 DEF StartHarden, Active, IInv, TypeOK
    <3>4. CASE StartSupersede(q)
      <4>1. PICK a \in Active(SessionOf[q]), n \in Fresh :
               episodes' = [episodes EXCEPT
                  ![a] = Closed(@, "no_outcome", "superseded", {SessionOf[q]}),
                  ![n] = Opened(SessionOf[q], proc[q].goal)]
        BY <3>4 DEF StartSupersede
      <4>2. e # a
        BY <1>4, <4>1 DEF Active
      <4> QED BY <1>1, <2>1, <3>1, <4>1, <4>2 DEF IInv, TypeOK
    <3>5. CASE CloseWrite(q)
      <4>1. proc[q].session \in episodes[proc[q].episode].joined
        BY <3>5 DEF CloseWrite, IInv, PendingBound, Procs
      <4>2. e # proc[q].episode
        BY <1>1, <1>4, <4>1 DEF IInv, RowInv
      <4> QED BY <1>1, <2>1, <3>5, <4>2 DEF CloseWrite, IInv, TypeOK
    <3> QED BY <2>2, <3>2, <3>3, <3>4, <3>5
  <2>3. ASSUME NEW q \in Servers \cup Hooks, q = p,
               \/ BootstrapOpen(q) \/ CreateOpen(q) \/ StartHarden(q)
               \/ StartSupersede(q) \/ StartNew(q) \/ CloseWrite(q)
        PROVE  FALSE
    BY <2>3 DEF BootstrapOpen, CreateOpen, StartHarden, StartSupersede,
       StartNew, CloseWrite, Goto, Idle, IInv, TypeOK, Procs
  <2>4. ASSUME NEW u \in UIs, CloseByIdWrite(u) PROVE FALSE
    <3>1. episodes[proc[u].episode].state # "absent"
      BY <2>4 DEF CloseByIdWrite, IInv, PendingBound, Procs
    <3> QED BY <1>1, <1>4, <2>1, <2>4, <3>1 DEF CloseByIdWrite, IInv, TypeOK
  <2> QED BY <2>1, <2>2, <2>3, <2>4 DEF Next, vars, Bootstrap,
          BootstrapReuse, BootstrapMiss, Create, CreateFind, CreateMiss,
          CreateInsert, Start, StartResume, StartRead, Close,
          CloseEpisodeTool, CommitClose, SessionEndCheck, SessionEndRead,
          SessionEndGone, CloseById, CloseByIdCheck, Abort
<1> QED BY <1>3, <1>4

LEMMA NextOpenerInv ==
    ASSUME OneOpener, IInv, OpenerInv, [Next]_vars PROVE OpenerInv'
<1> SUFFICES ASSUME NEW p \in Servers \cup Hooks,
                    proc'[p].step \in {"bootstrap_open", "create_open"}
             PROVE  Active(SessionOf[p])' = {}
  BY DEF OpenerInv
<1> USE DEF Procs
<1>1. CASE proc[p].step \in {"bootstrap_open", "create_open"}
  BY <1>1, ActiveOnlyShrinks DEF OpenerInv
<1>2. CASE proc[p].step \notin {"bootstrap_open", "create_open"}
  <2>1. ASSUME NEW q \in Procs, NEW w, Goto(q, w),
               w.step \notin {"bootstrap_open", "create_open"}
        PROVE  FALSE
    BY <1>2, <2>1 DEF Goto, IInv, TypeOK
  <2>2. Idle.step \notin {"bootstrap_open", "create_open"}
    BY DEF Idle
  <2>3. ASSUME NEW q \in Procs, Goto(q, Idle) PROVE FALSE
    BY <2>1, <2>2, <2>3
  <2>4. ASSUME NEW q \in Servers \cup Hooks, BootstrapMiss(q) \/ CreateMiss(q)
        PROVE  Active(SessionOf[p]) = {}
    BY <1>2, <2>4 DEF BootstrapMiss, CreateMiss, Goto, IInv, TypeOK
  <2>5. ASSUME NEW q \in Servers, NEW s, NEW o, NEW r,
               ReadThenClose(q, s, o, r)
        PROVE  FALSE
    <3>1. PICK e \in Active(s) :
             Goto(q, [step |-> "close", session |-> s, episode |-> e,
                      outcome |-> o, reason |-> r])
      BY <2>5 DEF ReadThenClose
    <3> QED BY <2>1, <3>1
  <2>6. ASSUME NEW q \in Servers, CreateFind(q) \/ CreateOpen(q) PROVE FALSE
    <3>1. PICK e : Goto(q, [step |-> "create_insert", episode |-> e])
      BY <2>6 DEF CreateFind, CreateOpen
    <3> QED BY <2>1, <3>1
  <2>7. ASSUME NEW q \in Servers, NEW g, StartRead(q, g) PROVE FALSE
    BY <2>1, <2>7 DEF StartRead
  <2>8. ASSUME NEW q \in Servers, NEW s, SessionEndCheck(q, s) PROVE FALSE
    BY <2>1, <2>8 DEF SessionEndCheck
  <2>9. ASSUME NEW u \in UIs, NEW e, NEW o, CloseByIdCheck(u, e, o) PROVE FALSE
    BY <2>1, <2>9 DEF CloseByIdCheck
  <2>10. ~UNCHANGED proc
    BY <1>2
  <2>11. Active(SessionOf[p]) = {}
    BY <2>3, <2>4, <2>5, <2>6, <2>7, <2>8, <2>9, <2>10
       DEF Next, vars, Bootstrap, BootstrapReuse, BootstrapOpen, Create,
           CreateInsert, Start, StartResume, StartHarden, StartSupersede,
           StartNew, Close, CloseEpisodeTool, CommitClose, SessionEndRead,
           SessionEndGone, CloseWrite, CloseById, CloseByIdWrite, Abort
  <2> QED BY <2>11, ActiveOnlyShrinks
<1> QED BY <1>1, <1>2

\* A step either adds no active episode to a session or leaves it with one.
LEMMA ActiveStep ==
    ASSUME OneActivePerSession, IInv, OpenerInv, [Next]_vars, NEW s \in Sessions
    PROVE  \/ Active(s)' \subseteq Active(s)
           \/ \E n \in EpisodeIds : Active(s)' \subseteq {n}
<1> USE DEF Procs
<1>0. /\ episodes \in [EpisodeIds -> Row]
      /\ \A e \in EpisodeIds : RowStep(episodes[e], episodes'[e])
  BY StepRows DEF IInv, TypeOK
<1>1. ASSUME NEW q \in Servers \cup Hooks, NEW n \in EpisodeIds, NEW g,
             episodes' = [episodes EXCEPT ![n] = Opened(SessionOf[q], g)],
             Active(SessionOf[q]) = {}
      PROVE  \/ Active(s)' \subseteq Active(s)
             \/ \E m \in EpisodeIds : Active(s)' \subseteq {m}
  <2>1. CASE s = SessionOf[q]
    <3>1. Active(s)' \subseteq {n}
      BY <1>0, <1>1, <2>1 DEF Active
    <3> QED BY <3>1
  <2>2. CASE s # SessionOf[q]
    <3>1. s \notin Opened(SessionOf[q], g).joined
      BY <2>2 DEF Opened
    <3>2. Active(s)' \subseteq Active(s)
      BY <1>0, <1>1, <3>1 DEF Active
    <3> QED BY <3>2
  <2> QED BY <2>1, <2>2
<1>2. ASSUME \A e \in EpisodeIds : episodes[e].state = "absent" =>
                episodes'[e] = episodes[e]
      PROVE  Active(s)' \subseteq Active(s)
  <2> SUFFICES ASSUME NEW e \in Active(s)' PROVE e \in Active(s)
    OBVIOUS
  <2>1. /\ e \in EpisodeIds /\ episodes'[e].state = "open"
        /\ s \in episodes'[e].joined \ episodes'[e].left
        /\ episodes[e] \in Row /\ RowStep(episodes[e], episodes'[e])
    BY <1>0 DEF Active
  <2> QED BY <1>2, <2>1 DEF RowStep, Active, Hardened, Closed, Row
<1>3. ASSUME NEW q \in Servers \cup Hooks, BootstrapOpen(q) \/ CreateOpen(q)
      PROVE  \/ Active(s)' \subseteq Active(s)
             \/ \E m \in EpisodeIds : Active(s)' \subseteq {m}
  <2>1. Active(SessionOf[q]) = {}
    BY <1>3 DEF BootstrapOpen, CreateOpen, OpenerInv
  <2> QED BY <1>1, <1>3, <2>1 DEF BootstrapOpen, CreateOpen, Fresh
<1>4. ASSUME NEW q \in Servers, StartNew(q)
      PROVE  \/ Active(s)' \subseteq Active(s)
             \/ \E m \in EpisodeIds : Active(s)' \subseteq {m}
  BY <1>1, <1>4 DEF StartNew, Fresh
<1>5. ASSUME NEW q \in Servers, StartSupersede(q)
      PROVE  \/ Active(s)' \subseteq Active(s)
             \/ \E m \in EpisodeIds : Active(s)' \subseteq {m}
  <2>1. PICK a \in Active(SessionOf[q]), n \in Fresh :
           episodes' = [episodes EXCEPT
              ![a] = Closed(@, "no_outcome", "superseded", {SessionOf[q]}),
              ![n] = Opened(SessionOf[q], proc[q].goal)]
    BY <1>5 DEF StartSupersede
  <2>2. a \in EpisodeIds /\ n \in EpisodeIds /\ a # n
    BY <2>1 DEF Active, Fresh
  <2>3. episodes'[a].state = "closed"
    BY <1>0, <2>1, <2>2 DEF Closed, Row
  <2>4. CASE s = SessionOf[q]
    <3>1. \A e \in Active(s) : e = a
      BY <2>1, <2>4 DEF OneActivePerSession
    <3>2. Active(s)' \subseteq {n}
      BY <1>0, <2>1, <2>2, <2>3, <3>1 DEF Active
    <3> QED BY <2>2, <3>2
  <2>5. CASE s # SessionOf[q]
    <3>1. s \notin Opened(SessionOf[q], proc[q].goal).joined
      BY <2>5 DEF Opened
    <3>2. Active(s)' \subseteq Active(s)
      BY <1>0, <2>1, <2>2, <2>3, <3>1 DEF Active
    <3> QED BY <3>2
  <2> QED BY <2>4, <2>5
<1>6. ASSUME NEW q \in Servers, StartHarden(q)
      PROVE  Active(s)' \subseteq Active(s)
  <2>1. \A e \in EpisodeIds : episodes[e].state = "absent" =>
           episodes'[e] = episodes[e]
    BY <1>0, <1>6 DEF StartHarden, Active
  <2> QED BY <1>2, <2>1
<1>7. ASSUME NEW q \in Servers, CloseWrite(q)
      PROVE  Active(s)' \subseteq Active(s)
  <2>1. proc[q].session \in episodes[proc[q].episode].joined
    BY <1>7 DEF CloseWrite, IInv, PendingBound
  <2>2. \A e \in EpisodeIds : episodes[e].state = "absent" =>
           e # proc[q].episode
    BY <2>1 DEF IInv, RowInv
  <2>3. \A e \in EpisodeIds : episodes[e].state = "absent" =>
           episodes'[e] = episodes[e]
    BY <1>0, <1>7, <2>2 DEF CloseWrite
  <2> QED BY <1>2, <2>3
<1>8. ASSUME NEW u \in UIs, CloseByIdWrite(u)
      PROVE  Active(s)' \subseteq Active(s)
  <2>1. episodes[proc[u].episode].state # "absent"
    BY <1>8 DEF CloseByIdWrite, IInv, PendingBound
  <2>2. \A e \in EpisodeIds : episodes[e].state = "absent" =>
           episodes'[e] = episodes[e]
    BY <1>0, <1>8, <2>1 DEF CloseByIdWrite
  <2> QED BY <1>2, <2>2
<1>9. CASE UNCHANGED episodes
  BY <1>9 DEF Active
<1> QED BY <1>3, <1>4, <1>5, <1>6, <1>7, <1>8, <1>9
        DEF Next, vars, Bootstrap, BootstrapReuse, BootstrapMiss, Create,
            CreateFind, CreateMiss, CreateInsert, Start, StartResume,
            StartRead, Close, CloseEpisodeTool, CommitClose, SessionEndCheck,
            SessionEndRead, SessionEndGone, CloseById, CloseByIdCheck, Abort

\* If no session is served by two openers, no session ever has two active
\* episodes: the drains of other servers and the UI cannot break it.
THEOREM OneActive ==
    ASSUME OneOpener
    PROVE  Spec => []OneActivePerSession
<1> DEFINE Inv == IInv /\ OpenerInv /\ OneActivePerSession
<1>1. Init => Inv
  <2>1. Init => OpenerInv
    BY DEF Init, OpenerInv, Idle, Procs
  <2>2. Init => OneActivePerSession
    BY DEF Init, OneActivePerSession, Active, Absent
  <2> QED BY <2>1, <2>2, InitIInv
<1>2. Inv /\ [Next]_vars => Inv'
  <2> SUFFICES ASSUME Inv, [Next]_vars PROVE Inv'
    OBVIOUS
  <2>1. IInv' /\ OpenerInv'
    BY NextIInv, NextOpenerInv, OneOpener
  <2>2. OneActivePerSession'
    <3> SUFFICES ASSUME NEW s \in Sessions, NEW d1 \in Active(s)',
                        NEW d2 \in Active(s)'
                 PROVE  d1 = d2
      BY DEF OneActivePerSession
    <3> QED BY ActiveStep DEF OneActivePerSession
  <2> QED BY <2>1, <2>2
<1>3. Inv => OneActivePerSession
  OBVIOUS
<1> QED BY <1>1, <1>2, <1>3, PTL DEF Spec

-----------------------------------------------------------------------------
(* The stages of an episode.                                               *)

StageNow == [e \in EpisodeIds |-> StageOf(episodes[e])]

\* A write of one row moves its episode only.
LEMMA OneRowMoves ==
    ASSUME TypeOK, NEW e \in EpisodeIds, NEW row,
           episodes' = [episodes EXCEPT ![e] = row]
    PROVE  StageNow' = [StageNow EXCEPT ![e] = StageOf(row)]
BY DEF TypeOK, StageNow

EndOf(row) == [state |-> "closed", goal |-> row.goal, of |-> row.joined, active |-> {}]

\* A row just opened, hardened or closed, as a stage.
LEMMA OpenedAsStage ==
    ASSUME NEW s, NEW g
    PROVE  StageOf(Opened(s, g)) = Stages!OpenFor({s}, g)
BY DEF StageOf, Opened, Stages!OpenFor

LEMMA HardenedAsStage ==
    ASSUME NEW row \in Row, NEW g
    PROVE  StageOf(Hardened(row, g)) = [StageOf(row) EXCEPT !.goal = g]
BY DEF StageOf, Hardened, Row

LEMMA ClosedAsStage ==
    ASSUME NEW row \in Row, RowInv(row), NEW o, NEW r, NEW L,
           row.state # "absent", L \subseteq row.joined, L # {}
    PROVE  StageOf(Closed(row, o, r, L)) = EndOf(row)
<1>1. PICK s \in Sessions : row.joined = {s}
  BY DEF RowInv
<1>2. row.joined \ (row.left \cup L) = {}
  BY <1>1
<1>3. PICK c : c = Closed(row, o, r, L)
  OBVIOUS
<1>4. /\ c.state = "closed" /\ c.goal = row.goal /\ c.joined = row.joined
      /\ c.left = row.left \cup L
  BY <1>3 DEF Closed, Row
<1>5. StageOf(c) = EndOf(row)
  BY <1>2, <1>4 DEF StageOf, EndOf
<1>. QED BY <1>3, <1>5

\* A closer writes an end: the first one ends the episode, a later one does not
\* move it.
LEMMA ClosingIsAStage ==
    ASSUME IInv, NEW e \in EpisodeIds, NEW o, NEW r, NEW L,
           episodes[e].state # "absent", L \subseteq episodes[e].joined, L # {},
           episodes' = [episodes EXCEPT ![e] = Closed(@, o, r, L)]
    PROVE  Stages!Next \/ UNCHANGED StageNow
<1>1. TypeOK /\ episodes[e] \in Row /\ RowInv(episodes[e])
  BY DEF IInv, TypeOK
<1>2. PICK row : row = Closed(episodes[e], o, r, L)
  OBVIOUS
<1>3. StageNow[e] = StageOf(episodes[e])
  BY DEF StageNow
<1>4. /\ StageOf(row) = EndOf(episodes[e])
      /\ Stages!Ended(e) = EndOf(episodes[e])
  BY <1>1, <1>2, <1>3, ClosedAsStage DEF Stages!Ended, EndOf, StageOf
<1>5. episodes' = [episodes EXCEPT ![e] = row]
  BY <1>2
<1>6. StageNow' = [StageNow EXCEPT ![e] = StageOf(row)]
  BY <1>1, <1>5, OneRowMoves
<1>7. CASE episodes[e].state = "open"
  <2>1. StageNow[e].state = "open"
    BY <1>3, <1>7 DEF StageOf
  <2>2. Stages!Close(e)
    BY <1>4, <1>6, <2>1 DEF Stages!Close, StageNow
  <2>. QED BY <2>2 DEF Stages!Next
<1>8. CASE episodes[e].state = "closed"
  <2>1. StageOf(row) = StageNow[e]
    <3>1. episodes[e].joined \ episodes[e].left = {}
      BY <1>1, <1>8 DEF RowInv
    <3>2. StageOf(episodes[e]) = EndOf(episodes[e])
      BY <1>8, <3>1 DEF StageOf, EndOf
    <3>. QED BY <1>3, <1>4, <3>2
  <2>2. StageNow = [d \in EpisodeIds |-> StageNow[d]]
    BY DEF StageNow
  <2>. QED BY <1>6, <2>1, <2>2
<1>. QED BY <1>1, <1>7, <1>8 DEF Row

\* A session that has no active episode gets one.
LEMMA OpeningIsAStage ==
    ASSUME IInv, NEW s \in Sessions, Active(s) = {}, NEW n \in Fresh,
           NEW g \in Goals \cup {NoGoal},
           episodes' = [episodes EXCEPT ![n] = Opened(s, g)]
    PROVE  Stages!Next
<1>1. TypeOK /\ n \in EpisodeIds /\ episodes[n] \in Row /\ RowInv(episodes[n])
  BY DEF IInv, TypeOK, Fresh
<1>2. StageNow' = [StageNow EXCEPT ![n] = Stages!OpenFor({s}, g)]
  <2>1. StageOf(Opened(s, g)) = Stages!OpenFor({s}, g)
    BY OpenedAsStage
  <2>. QED BY <1>1, <2>1, OneRowMoves
<1>3. StageNow[n].state = "absent"
  BY DEF StageNow, StageOf, Fresh
<1>4. \A o \in EpisodeIds : s \notin StageNow[o].active
  <2>1. ASSUME NEW o \in EpisodeIds, s \in StageNow[o].active PROVE FALSE
    <3>1. s \in episodes[o].joined \ episodes[o].left
      BY <2>1 DEF StageNow, StageOf
    <3>2. episodes[o] \in Row /\ RowInv(episodes[o])
      BY DEF IInv, TypeOK
    <3>3. episodes[o].state = "open"
      BY <3>1, <3>2 DEF RowInv, Row
    <3>. QED BY <3>1, <3>3 DEF Active
  <2>. QED BY <2>1
<1>5. Stages!Open(n)
  BY <1>2, <1>3, <1>4 DEF Stages!Open, StageNow
<1>. QED BY <1>1, <1>5 DEF Stages!Next

\* A start by p hardens the active episode or puts another in its place.
LEMMA StartingIsAStage ==
    ASSUME IInv, NEW p \in Servers, StartHarden(p) \/ StartSupersede(p)
    PROVE  Stages!Next
<1>1. TypeOK
  BY DEF IInv
<1>2. proc[p].goal \in Goals
  BY <1>1 DEF StartHarden, StartSupersede, TypeOK, Work, Idle, Closing, Procs
<1>3. CASE StartHarden(p)
  <2>1. PICK e \in Active(SessionOf[p]) :
           /\ episodes[e].goal = NoGoal
           /\ episodes' = [episodes EXCEPT ![e] = Hardened(episodes[e], proc[p].goal)]
    BY <1>3 DEF StartHarden
  <2>2. /\ e \in EpisodeIds /\ episodes[e].state = "open"
        /\ episodes[e] \in Row /\ RowInv(episodes[e])
    BY <2>1 DEF Active, IInv, TypeOK
  <2>3. PICK row : row = Hardened(episodes[e], proc[p].goal)
    OBVIOUS
  <2>4. StageNow' = [StageNow EXCEPT ![e] = StageOf(row)]
    BY <1>1, <2>1, <2>2, <2>3, OneRowMoves
  <2>5. StageOf(row) = [StageNow[e] EXCEPT !.goal = proc[p].goal]
    BY <2>2, <2>3, HardenedAsStage DEF StageNow
  <2>6. StageNow[e].state = "open" /\ StageNow[e].goal = NoGoal
    BY <2>1, <2>2 DEF StageNow, StageOf
  <2>7. PICK g \in Goals : g = proc[p].goal
    BY <1>2
  <2>8. StageNow' = [StageNow EXCEPT ![e].goal = g]
    BY <2>4, <2>5, <2>7
  <2>9. Stages!Harden(e)
    BY <2>6, <2>8 DEF Stages!Harden, StageNow
  <2>. QED BY <2>2, <2>9 DEF Stages!Next
<1>4. CASE StartSupersede(p)
  <2>1. PICK e \in Active(SessionOf[p]), n \in Fresh :
           /\ episodes[e].goal # NoGoal
           /\ episodes' = [episodes EXCEPT
                 ![e] = Closed(@, "no_outcome", "superseded", {SessionOf[p]}),
                 ![n] = Opened(SessionOf[p], proc[p].goal)]
    BY <1>4 DEF StartSupersede
  <2>2. /\ e \in EpisodeIds /\ n \in EpisodeIds /\ e # n
        /\ episodes[e].state = "open" /\ episodes[n].state = "absent"
        /\ episodes[e] \in Row /\ RowInv(episodes[e])
        /\ SessionOf[p] \in episodes[e].joined
    BY <2>1 DEF Active, Fresh, IInv, TypeOK
  <2>3. SessionOf[p] \in Sessions /\ episodes[e].joined = {SessionOf[p]}
    BY <2>2, ProcessAssumption DEF RowInv
  <2>4. PICK row, new :
           /\ row = Closed(episodes[e], "no_outcome", "superseded", {SessionOf[p]})
           /\ new = Opened(SessionOf[p], proc[p].goal)
    OBVIOUS
  <2>5. episodes' = [episodes EXCEPT ![e] = row, ![n] = new]
    BY <2>1, <2>4
  <2>6. StageNow' = [StageNow EXCEPT ![e] = StageOf(row), ![n] = StageOf(new)]
    BY <1>1, <2>2, <2>5 DEF StageNow, TypeOK
  <2>7. StageOf(row) = Stages!Ended(e)
    <3>1. PICK L : L = {SessionOf[p]}
      OBVIOUS
    <3>2. L \subseteq episodes[e].joined /\ L # {} /\ episodes[e].state # "absent"
      BY <2>2, <3>1
    <3>3. row = Closed(episodes[e], "no_outcome", "superseded", L)
      BY <2>4, <3>1
    <3>4. StageOf(row) = EndOf(episodes[e])
      BY <2>2, <3>2, <3>3, ClosedAsStage
    <3>. QED BY <2>2, <3>4 DEF Stages!Ended, EndOf, StageOf
  <2>8. PICK g \in Goals : g = proc[p].goal
    BY <1>2
  <2>9. StageOf(new) = Stages!OpenFor(StageNow[e].of, g)
    <3>1. StageNow[e].of = {SessionOf[p]}
      BY <2>2, <2>3 DEF StageNow, StageOf
    <3>. QED BY <2>2, <2>3, <2>4, <2>8, <3>1, OpenedAsStage
  <2>10. /\ StageNow[e].state = "open" /\ StageNow[e].goal # NoGoal
         /\ StageNow[n].state = "absent"
    BY <2>1, <2>2 DEF StageNow, StageOf
  <2>11. Stages!Supersede(e, n)
    BY <2>6, <2>7, <2>9, <2>10 DEF Stages!Supersede, StageNow
  <2>. QED BY <2>2, <2>11 DEF Stages!Next
<1>. QED BY <1>3, <1>4

\* Every step is a step of EpisodeStages or leaves the stages alone.
LEMMA StageStep ==
    ASSUME IInv, OpenerInv, [Next]_vars
    PROVE  Stages!Next \/ UNCHANGED StageNow
<1>. USE DEF Procs
<1>1. CASE UNCHANGED episodes
  BY <1>1 DEF StageNow
<1>2. ASSUME NEW q \in Servers \cup Hooks, BootstrapOpen(q) \/ CreateOpen(q)
      PROVE  Stages!Next
  <2>1. SessionOf[q] \in Sessions /\ Active(SessionOf[q]) = {}
    BY <1>2, ProcessAssumption DEF BootstrapOpen, CreateOpen, OpenerInv
  <2>. QED BY <1>2, <2>1, OpeningIsAStage DEF BootstrapOpen, CreateOpen
<1>3. ASSUME NEW q \in Servers, StartNew(q) PROVE Stages!Next
  <2>1. SessionOf[q] \in Sessions /\ proc[q].goal \in Goals
    BY <1>3, ProcessAssumption DEF StartNew, IInv, TypeOK, Work, Idle, Closing
  <2>. QED BY <1>3, <2>1, OpeningIsAStage DEF StartNew
<1>4. ASSUME NEW q \in Servers, StartHarden(q) \/ StartSupersede(q) PROVE Stages!Next
  BY <1>4, StartingIsAStage
<1>5. ASSUME NEW q \in Servers, CloseWrite(q)
      PROVE  Stages!Next \/ UNCHANGED StageNow
  <2>1. /\ proc[q].episode \in EpisodeIds
        /\ proc[q].session \in episodes[proc[q].episode].joined
    BY <1>5 DEF CloseWrite, IInv, PendingBound, TypeOK, Work, Idle, Closing
  <2>2. /\ episodes[proc[q].episode].state # "absent"
        /\ {proc[q].session} \subseteq episodes[proc[q].episode].joined
        /\ {proc[q].session} # {}
    BY <2>1 DEF IInv, RowInv
  <2>3. PICK e, o, r, L :
           /\ e = proc[q].episode /\ o = proc[q].outcome
           /\ r = proc[q].reason /\ L = {proc[q].session}
    BY <2>1
  <2>4. episodes' = [episodes EXCEPT ![e] = Closed(@, o, r, L)]
    BY <1>5, <2>3 DEF CloseWrite
  <2>5. /\ e \in EpisodeIds
        /\ episodes[e].state # "absent" /\ L \subseteq episodes[e].joined /\ L # {}
    BY <2>1, <2>2, <2>3
  <2>. QED BY <2>4, <2>5, ClosingIsAStage
<1>6. ASSUME NEW u \in UIs, CloseByIdWrite(u)
      PROVE  Stages!Next \/ UNCHANGED StageNow
  <2>1. /\ proc[u].episode \in EpisodeIds
        /\ episodes[proc[u].episode].state # "absent"
    BY <1>6 DEF CloseByIdWrite, IInv, PendingBound, TypeOK, Work, Idle, Closing
  <2>2. episodes[proc[u].episode].joined # {}
    BY <2>1 DEF IInv, RowInv
  <2>. QED BY <1>6, <2>1, <2>2, ClosingIsAStage DEF CloseByIdWrite
<1>. QED BY <1>1, <1>2, <1>3, <1>4, <1>5, <1>6
        DEF Next, vars, Bootstrap, BootstrapReuse, BootstrapMiss, Create,
            CreateFind, CreateMiss, CreateInsert, Start, StartResume,
            StartRead, Close, CloseEpisodeTool, CommitClose, SessionEndCheck,
            SessionEndRead, SessionEndGone, CloseById, CloseByIdCheck, Abort

\* If no session is served by two openers, the episodes go through their stages as
\* if each call were one transaction: EpisodeLifecycle implements EpisodeStages.
THEOREM Staging ==
    ASSUME OneOpener
    PROVE  Spec => FollowsStages
<1>. DEFINE now == [e \in EpisodeIds |-> StageOf(episodes[e])]
<1>1. Init => OpenerInv
  BY DEF Init, OpenerInv, Idle, Procs
<1>2. IInv /\ OpenerInv /\ [Next]_vars => OpenerInv'
  BY OneOpener, NextOpenerInv
<1>3. Init => Stages!Init
  BY DEF Init, Stages!Init, StageOf, Absent
<1>4. IInv /\ OpenerInv /\ [Next]_vars
        => [Stages!Next]_[e \in EpisodeIds |-> StageOf(episodes[e])]
  BY StageStep DEF StageNow
<1>. QED BY <1>1, <1>2, <1>3, <1>4, Inductive, PTL DEF Spec, FollowsStages, Stages!Spec
=============================================================================
