------------------------------ MODULE UILauncher ------------------------------
(***************************************************************************)
(* Starting the management UI (services/ui_launcher.py, ui/__main__.py and  *)
(* the exits of ui/app.py).  A call of memory.start_ui probes the UI that   *)
(* the file ui.url names and reuses it, or unlinks the file, spawns a       *)
(* detached process and waits for the file to appear.  A UI writes the file *)
(* when it has bound its port and unlinks it, whatever it says by then,     *)
(* when it ends.                                                            *)
(***************************************************************************)
EXTENDS Integers, FiniteSets

CONSTANTS
    Callers,    \* MCP servers
    Processes,  \* UI processes, each with a port of its own
    MaxTroubles \* silences, kills, interrupts and slow starts (a bound)

ASSUME LaunchAssumption ==
    /\ IsFiniteSet(Callers) /\ IsFiniteSet(Processes)
    /\ "none" \notin Processes /\ MaxTroubles \in Nat

VARIABLES
    url,      \* the process ui.url names
    tmp,      \* the one ui.url.tmp names
    ui,       \* what each process is doing
    call,     \* where each server's call is
    troubles, \* how many there were
    amiss     \* what happened beyond what the launcher allows for (history)

launchVars == <<url, tmp, ui, call, troubles, amiss>>

-----------------------------------------------------------------------------

NoCall == [step |-> "idle", at |-> "none"]

LaunchInit ==
    /\ url = "none" /\ tmp = "none"
    /\ ui = [k \in Processes |-> "off"]
    /\ call = [s \in Callers |-> NoCall]
    /\ troubles = 0 /\ amiss = {}

\* From binding the port to the last thing it does.
Serving == {"listening", "up", "silent"}
Running == {"starting", "written"} \cup Serving

Busy == {s \in Callers : call[s].step # "idle"}
Trouble == troubles < MaxTroubles /\ troubles' = troubles + 1
Moves(s, step, at) == call' = [call EXCEPT ![s] = [step |-> step, at |-> at]]
Returns(s) == call' = [call EXCEPT ![s] = NoCall]

-----------------------------------------------------------------------------
(* start_ui.                                                                *)

Call(s) ==
    /\ call[s].step = "idle"
    /\ IF url = "none" THEN Moves(s, "spawn", "none") ELSE Moves(s, "probe", url)
    /\ amiss' = IF Busy = {} THEN amiss ELSE amiss \cup {"overlap"}
    /\ UNCHANGED <<url, tmp, ui, troubles>>

\* Mutant of Alive: the address in the file is trusted.
AliveAnyhow(k) == k # "none"

\* Mutant of Alive: no answer is good enough.
AliveNever(k) == FALSE

\* _is_alive: /healthz answers within a second.
Alive(k) == k \in Processes /\ ui[k] = "up"

Probe(s) ==
    /\ call[s].step = "probe"
    /\ IF Alive(call[s].at) THEN Returns(s) ELSE Moves(s, "unlink", "none")
    /\ amiss' = IF ui[call[s].at] \in Serving \ {"up"}
                THEN amiss \cup {"silent"} ELSE amiss
    /\ UNCHANGED <<url, tmp, ui, troubles>>

\* The file may name another process than the one that did not answer.
Unlink(s) ==
    /\ call[s].step = "unlink"
    /\ url' = "none"
    /\ Moves(s, "spawn", "none")
    /\ UNCHANGED <<tmp, ui, troubles, amiss>>

\* Which of the processes that are off is the next one does not matter.
Spawn(s) ==
    /\ call[s].step = "spawn" /\ \E k \in Processes : ui[k] = "off"
    /\ ui' = [ui EXCEPT ![CHOOSE k \in Processes : ui[k] = "off"] = "starting"]
    /\ Moves(s, "wait", "none")
    /\ UNCHANGED <<url, tmp, troubles, amiss>>

\* Whatever UI the file names is taken for the one that was spawned.
Wait(s) ==
    /\ call[s].step = "wait" /\ url # "none"
    /\ Moves(s, "confirm", url)
    /\ UNCHANGED <<url, tmp, ui, troubles, amiss>>

\* "UI did not write ui.url": the process may still be starting.
WaitTooLong(s) ==
    /\ call[s].step = "wait" /\ url = "none"
    /\ IF \E k \in Processes : ui[k] \in {"starting", "written"}
       THEN Trouble /\ amiss' = amiss \cup {"slow"}
       ELSE UNCHANGED <<troubles, amiss>>
    /\ Returns(s)
    /\ UNCHANGED <<url, tmp, ui>>

\* The confirmation, its one retry, and the error when neither is answered.
Confirm(s) ==
    /\ call[s].step \in {"confirm", "retry"}
    /\ IF Alive(call[s].at) \/ call[s].step = "retry" THEN Returns(s)
       ELSE Moves(s, "retry", call[s].at)
    /\ UNCHANGED <<url, tmp, ui, troubles, amiss>>

-----------------------------------------------------------------------------
(* A UI process.                                                            *)

WriteUrl(k) ==
    /\ ui[k] = "starting"
    /\ tmp' = k
    /\ ui' = [ui EXCEPT ![k] = "written"]
    /\ UNCHANGED <<url, call, troubles, amiss>>

\* All processes write the same temporary file: the one that comes second to
\* replace finds it gone and dies, before it has registered its clean-up.
ReplaceUrl(k) ==
    /\ ui[k] = "written"
    /\ \/ /\ tmp # "none"
          /\ url' = tmp /\ tmp' = "none"
          /\ ui' = [ui EXCEPT ![k] = "listening"]
       \/ /\ tmp = "none"
          /\ ui' = [ui EXCEPT ![k] = "off"]
          /\ UNCHANGED <<url, tmp>>
    /\ UNCHANGED <<call, troubles, amiss>>

Serve(k) ==
    /\ ui[k] \in {"listening", "silent"}
    /\ ui' = [ui EXCEPT ![k] = "up"]
    /\ UNCHANGED <<url, tmp, call, troubles, amiss>>

\* One request at a time: a long one leaves /healthz without an answer.
FallSilent(k) ==
    /\ ui[k] = "up" /\ Trouble
    /\ ui' = [ui EXCEPT ![k] = "silent"]
    /\ UNCHANGED <<url, tmp, call, amiss>>

\* The clean-up of a process that ends.
DropsUrl(k) ==
    /\ url' = "none"
    /\ amiss' = IF url \in Processes \ {k} THEN amiss \cup {"robbed"} ELSE amiss

\* /shutdown and the watchdog unlink the file, then _exit.
Leave(k) ==
    /\ ui[k] \in {"up", "silent"}
    /\ DropsUrl(k)
    /\ ui' = [ui EXCEPT ![k] = "leaving"]
    /\ UNCHANGED <<tmp, call, troubles>>

\* An interrupt unlinks the file twice: on the way out of main and at exit.
Interrupt(k) ==
    /\ ui[k] \in {"up", "silent"} /\ Trouble
    /\ DropsUrl(k)
    /\ ui' = [ui EXCEPT ![k] = "interrupted"]
    /\ UNCHANGED <<tmp, call>>

End(k) ==
    /\ \/ ui[k] = "leaving" /\ UNCHANGED <<url, amiss>>
       \/ ui[k] = "interrupted" /\ DropsUrl(k)
    /\ ui' = [ui EXCEPT ![k] = "off"]
    /\ UNCHANGED <<tmp, call, troubles>>

Kill(k) ==
    /\ ui[k] # "off" /\ Trouble
    /\ ui' = [ui EXCEPT ![k] = "off"]
    /\ UNCHANGED <<url, tmp, call, amiss>>

CallStep(s) ==
    Probe(s) \/ Unlink(s) \/ Spawn(s) \/ Wait(s) \/ WaitTooLong(s) \/ Confirm(s)

UIStep(k) == WriteUrl(k) \/ ReplaceUrl(k) \/ Serve(k) \/ End(k)

LaunchNext ==
    \/ \E s \in Callers : Call(s) \/ CallStep(s)
    \/ \E k \in Processes :
          UIStep(k) \/ FallSilent(k) \/ Leave(k) \/ Interrupt(k) \/ Kill(k)

\* Calls keep coming and go on, processes go on, and one that ui.url does not
\* name gets no requests, so that its watchdog ends it.
LaunchFairness ==
    /\ \A s \in Callers : WF_launchVars(Call(s)) /\ WF_launchVars(CallStep(s))
    /\ \A k \in Processes :
          WF_launchVars(UIStep(k)) /\ WF_launchVars(Leave(k) /\ url # k)

LaunchSpec == LaunchInit /\ [][LaunchNext]_launchVars /\ LaunchFairness

-----------------------------------------------------------------------------
(* Properties.                                                              *)

\* Invariant: repeated calls are idempotent, whatever UIs were killed or ended:
\* a second UI runs only after two calls overlapped, a running UI did not
\* answer its probe, a start outlasted the wait, or a UI that ended took the
\* file of another with it.
OneUI ==
    amiss = {} => Cardinality({k \in Processes : ui[k] \in Running}) <= 1

Findable == url \in Processes /\ ui[url] \in Serving

OneAtATime ==
    /\ Cardinality(Busy) <= 1
    /\ Cardinality({k \in Processes : ui[k] \in {"starting", "written"}}) <= 1

\* Liveness: once calls and starts do not overlap any more, a running UI can be
\* found again and again, whatever processes and files were left behind.
FoundAgain == <>[]OneAtATime => []<>Findable

=============================================================================
