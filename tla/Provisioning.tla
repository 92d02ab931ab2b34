----------------------------- MODULE Provisioning -----------------------------
(***************************************************************************)
(* Creating the two memories of the agentcore backend: agentcore init and   *)
(* migrate --provision (cli/agentcore.py, storage/agentcore_persistence.py). *)
(* Creating a memory takes minutes and can fail; the file agentcore.json    *)
(* names the two that are used.  Runs can overlap, and the service is an    *)
(* external part: its memories appear, become active or fail.               *)
(***************************************************************************)
EXTENDS Integers, FiniteSets

CONSTANTS
    Tools,       \* invocations of the command line
    MaxMemories, \* memories that there ever are (a bound)
    Mishaps,     \* what can go wrong
    MaxMishaps   \* how often in a behaviour (a bound)

(* error    a call raises and has done nothing                              *)
(* lost     a memory is created and the answer is lost                      *)
(* failed   the service gives up on a memory                                *)
(* slow     a memory is not active in time                                  *)
(* ignored  an update of the schema is accepted and does nothing            *)
(* crash    a run is killed                                                 *)
AllMishaps == {"error", "lost", "failed", "slow", "ignored", "crash"}

ASSUME ProvisioningAssumption ==
    /\ IsFiniteSet(Tools) /\ MaxMemories \in Nat \ {0, 1}
    /\ Mishaps \subseteq AllMishaps /\ MaxMishaps \in Nat

VARIABLES
    memories,  \* the service's memories
    named,     \* agentcore.json
    activated, \* is agentcore the backend in settings.json?
    tool,      \* where each run is
    mishaps,   \* how many there were
    known      \* memories that nobody names for a reason (history)

toolVars == <<memories, named, activated, tool, mishaps, known>>

-----------------------------------------------------------------------------

Labels == 1..2   \* episodic, semantic
NoMemory == [label |-> 0, state |-> "none", wide |-> FALSE]
NoConfig == [l \in Labels |-> 0]
Resting == [step |-> "idle", kind |-> "none", at |-> 1, cfg |-> NoConfig,
            created |-> {}, behind |-> FALSE]

Existing == {"creating", "active", "failed"}
Names(cfg) == {cfg[l] : l \in Labels} \ {0}

\* Nothing yet, or two memories whose schema may be of an earlier release.
ProvisioningInit ==
    /\ \E wide \in BOOLEAN, some \in BOOLEAN :
          /\ memories = [m \in 1..MaxMemories |->
                IF some /\ m \in Labels THEN [label |-> m, state |-> "active", wide |-> wide]
                ELSE NoMemory]
          /\ named = IF some THEN [l \in Labels |-> l] ELSE NoConfig
          /\ activated = some
    /\ tool = [p \in Tools |-> Resting]
    /\ mishaps = 0
    /\ known = {}

Mishap(f) == f \in Mishaps /\ mishaps < MaxMishaps /\ mishaps' = mishaps + 1
Goes(p, step, at) == tool' = [tool EXCEPT ![p].step = step, ![p].at = at]
Finishes(p) == tool' = [tool EXCEPT ![p] = Resting]

-----------------------------------------------------------------------------
(* The service and the user's console.                                      *)

Progress(m) ==
    /\ memories[m].state = "creating"
    /\ \/ memories' = [memories EXCEPT ![m].state = "active"] /\ UNCHANGED mishaps
       \/ memories' = [memories EXCEPT ![m].state = "failed"] /\ Mishap("failed")
    /\ UNCHANGED <<named, activated, tool, known>>

DeletedByUser(m) ==
    /\ memories[m].state \in Existing
    /\ m \in known \cup Names(named)
    /\ memories' = [memories EXCEPT ![m].state = "gone"]
    /\ UNCHANGED <<named, activated, tool, mishaps, known>>

-----------------------------------------------------------------------------
(* Both commands.                                                           *)

\* Without --force an agentcore.json is left alone.
BeginInit(p) ==
    /\ tool[p].step = "idle"
    /\ tool' = [tool EXCEPT ![p] = [Resting EXCEPT !.step = "find", !.kind = "init"]]
    /\ UNCHANGED <<memories, named, activated, mishaps, known>>

BeginMigrate(p) ==
    /\ tool[p].step = "idle"
    /\ tool' = [tool EXCEPT ![p] =
          IF named = NoConfig THEN [Resting EXCEPT !.kind = "first", !.step = "create"]
          ELSE [Resting EXCEPT !.kind = "migrate", !.step = "resolve", !.cfg = named]]
    /\ UNCHANGED <<memories, named, activated, mishaps, known>>

\* _find_existing_memory, for both names: what cannot be read is passed over.
Find(p) ==
    LET taken == \E m \in DOMAIN memories :
                    memories[m].label = tool[p].at /\ memories[m].state \in Existing
    IN  /\ tool[p].step = "find"
        /\ \/ taken /\ Finishes(p) /\ UNCHANGED mishaps
           \/ Mishap("error") /\ Finishes(p)   \* the list itself
           \/ /\ taken => Mishap("error")
              /\ ~taken => UNCHANGED mishaps
              /\ IF tool[p].at = 1 THEN Goes(p, "find", 2) ELSE Goes(p, "create", 1)
        /\ UNCHANGED <<memories, named, activated, known>>

\* An exception: init deletes what it has created, migrate just fails.
Raised(p) == IF tool[p].kind = "init" THEN [tool[p] EXCEPT !.step = "cleanup"]
             ELSE Resting
Raises(p) ==
    /\ tool' = [tool EXCEPT ![p] = Raised(p)]
    /\ known' = IF tool[p].kind = "init" THEN known ELSE known \cup tool[p].created

NextId == CHOOSE m \in DOMAIN memories :
             /\ memories[m] = NoMemory
             /\ \A k \in 1..(m - 1) : memories[k] # NoMemory

\* Mutant of Noted: the id is noted when the memory is active.
NotedLater(p, m) == [tool[p] EXCEPT !.step = "poll", !.cfg[tool[p].at] = m]

\* The id is noted before the wait begins.
Noted(p, m) == [tool[p] EXCEPT !.step = "poll", !.cfg[tool[p].at] = m,
                               !.created = @ \cup {m}]

CreateMemory(p) ==
    LET m == NextId
    IN  /\ tool[p].step = "create"
        /\ \/ /\ \E k \in DOMAIN memories : memories[k] = NoMemory
              /\ memories' = [memories EXCEPT ![m] =
                    [label |-> tool[p].at, state |-> "creating", wide |-> TRUE]]
              /\ \/ /\ tool' = [tool EXCEPT ![p] = Noted(p, m)]
                    /\ UNCHANGED <<mishaps, known>>
                 \/ /\ Mishap("lost")
                    /\ tool' = [tool EXCEPT ![p] = Raised(p)]
                    /\ known' = known \cup {m}
                          \cup (IF tool[p].kind = "init" THEN {} ELSE tool[p].created)
           \/ Mishap("error") /\ Raises(p) /\ UNCHANGED memories
        /\ UNCHANGED <<named, activated>>

\* _poll_until_active: to the next memory, or to agentcore.json, which migrate
\* writes after each one that replaces another.
Poll(p) ==
    LET m == tool[p].cfg[tool[p].at]
    IN  /\ tool[p].step = "poll"
        /\ \/ /\ memories[m].state = "active"
              /\ IF 0 \in {tool[p].cfg[l] : l \in Labels} THEN Goes(p, "create", 2)
                 ELSE Goes(p, "save", tool[p].at)
              /\ UNCHANGED <<mishaps, known>>
           \/ memories[m].state \in {"failed", "gone"} /\ Raises(p) /\ UNCHANGED mishaps
           \/ memories[m].state = "creating" /\ Mishap("slow") /\ Raises(p)
           \/ Mishap("error") /\ Raises(p)
        /\ UNCHANGED <<memories, named, activated>>

\* A deletion that fails is reported, with the id.
CleanUp(p) ==
    /\ tool[p].step = "cleanup"
    /\ IF tool[p].created = {} THEN Finishes(p) /\ UNCHANGED <<memories, mishaps, known>>
       ELSE \E m \in tool[p].created :
              /\ tool' = [tool EXCEPT ![p].created = @ \ {m}]
              /\ \/ /\ memories' = [memories EXCEPT ![m].state = "gone"]
                    /\ UNCHANGED <<mishaps, known>>
                 \/ Mishap("error") /\ known' = known \cup {m} /\ UNCHANGED memories
    /\ UNCHANGED <<named, activated>>

NextLabel(k) == IF k.at = 1 THEN [k EXCEPT !.step = "resolve", !.at = 2]
               ELSE [k EXCEPT !.step = "schema", !.at = 1]
Saved(p) ==
    CASE tool[p].kind = "init" -> [tool[p] EXCEPT !.step = "activate"]
      [] tool[p].kind = "first" -> [tool[p] EXCEPT !.kind = "migrate",
                                                   !.step = "resolve", !.at = 1]
      [] tool[p].kind = "migrate" -> NextLabel(tool[p])

\* The runs that hold what was in the file do not know.
Save(p) ==
    /\ tool[p].step = "save"
    /\ named' = tool[p].cfg
    /\ known' = known \cup (Names(named) \ Names(tool[p].cfg))
    /\ tool' = [q \in Tools |->
          IF q # p THEN [tool[q] EXCEPT !.behind = TRUE]
          ELSE [Saved(p) EXCEPT !.created = {}, !.behind = FALSE]]
    /\ UNCHANGED <<memories, activated, mishaps>>

Activate(p) ==
    /\ tool[p].step = "activate"
    /\ activated' = TRUE
    /\ Finishes(p)
    /\ UNCHANGED <<memories, named, mishaps, known>>

-----------------------------------------------------------------------------
(* migrate.                                                                 *)

\* Whatever could not be read counts as missing, and is replaced.
Resolve(p) ==
    LET l == tool[p].at
        m == tool[p].cfg[l]
    IN  /\ tool[p].step = "resolve"
        /\ \/ /\ memories[m].state = "active"
              /\ tool' = [tool EXCEPT ![p] = NextLabel(@)]
              /\ UNCHANGED mishaps
           \/ /\ \/ memories[m].state # "active" /\ UNCHANGED mishaps
                 \/ Mishap("error")
              /\ Goes(p, "create", l) \/ Finishes(p)   \* with and without --provision
        /\ UNCHANGED <<memories, named, activated, known>>

\* Mutant of Confirmed: the update is taken at its word.
ConfirmedAnyhow(wide) == TRUE

\* The schema is read again after the update.
Confirmed(wide) == wide

\* _ensure_semantic_schema
Schema(p) ==
    LET m == tool[p].cfg[2]
    IN  /\ tool[p].step = "schema"
        /\ \/ Mishap("error") /\ Finishes(p) /\ UNCHANGED memories
           \/ /\ memories[m].state = "gone" /\ ~memories[m].wide /\ Finishes(p)
              /\ UNCHANGED <<memories, mishaps>>
           \/ /\ memories[m].state # "gone" \/ memories[m].wide
              /\ memories' = [memories EXCEPT ![m].wide = TRUE]
              /\ Goes(p, "ready", 1) /\ UNCHANGED mishaps
           \/ /\ ~memories[m].wide /\ Mishap("ignored")
              /\ IF Confirmed(memories[m].wide) THEN Goes(p, "ready", 1) ELSE Finishes(p)
              /\ UNCHANGED memories
        /\ UNCHANGED <<named, activated, known>>

\* The rows are copied into the two memories (AgentCoreMigration).
EndMigrate(p) ==
    /\ tool[p].step = "ready"
    /\ Finishes(p)
    /\ UNCHANGED <<memories, named, activated, mishaps, known>>

ToolKilled(p) ==
    /\ tool[p].step # "idle" /\ Mishap("crash")
    /\ known' = known \cup tool[p].created
    /\ Finishes(p)
    /\ UNCHANGED <<memories, named, activated>>

ProvisioningNext ==
    \/ \E m \in DOMAIN memories : Progress(m) \/ DeletedByUser(m)
    \/ \E p \in Tools :
          \/ BeginInit(p) \/ BeginMigrate(p)
          \/ Find(p) \/ CreateMemory(p) \/ Poll(p) \/ CleanUp(p) \/ Save(p) \/ Activate(p)
          \/ Resolve(p) \/ Schema(p) \/ EndMigrate(p)
          \/ ToolKilled(p)

ProvisioningSpec == ProvisioningInit /\ [][ProvisioningNext]_toolVars

-----------------------------------------------------------------------------
(* Properties.                                                              *)

\* Every memory there is is in agentcore.json, or of a run that still goes on, or
\* was left behind for a reason: a lost answer, a killed run, a deletion that
\* failed, a migrate that failed, or its replacement in the file.
NoneForgotten ==
    \A m \in DOMAIN memories : memories[m].state \in Existing =>
        m \in Names(named) \cup known \cup UNION {tool[p].created : p \in Tools}

\* A migrate copies rows only into memories that agentcore.json names, unless
\* another run has written the file meanwhile, and that keep the source ids.
CopiesAreFound ==
    \A p \in Tools : tool[p].step = "ready" =>
        /\ tool[p].behind \/ tool[p].cfg = named
        /\ \A l \in Labels : memories[tool[p].cfg[l]].state \in {"active", "gone"}
        /\ memories[tool[p].cfg[2]].wide

\* Invariant: whatever fails and whichever runs overlap, provisioning loses track
\* of no memory, migrate writes where a later run looks, and agentcore is not made
\* the backend before there is an agentcore.json.
Provisioned == NoneForgotten /\ CopiesAreFound /\ (activated => named # NoConfig)

=============================================================================
