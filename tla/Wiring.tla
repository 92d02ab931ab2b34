-------------------------------- MODULE Wiring --------------------------------
(***************************************************************************)
(* What an apply writes (setup/engine.py): CLAUDE.md with the managed block *)
(* between two markers, settings.json with the managed hooks and variables, *)
(* and the server's entry in .claude.json.  A CLAUDE.md is a sequence of    *)
(* lines, of which the kinds below are told apart; an event of              *)
(* settings.json has groups of hooks.  Every input is an initial state.     *)
(***************************************************************************)
EXTENDS Integers, Sequences, FiniteSets, Functions, SequencesExt

CONSTANTS
    MaxLines,    \* of a CLAUDE.md (a bound)
    ManagedHooks \* for each event the managed hooks, a group each

ASSUME WiringAssumption ==
    /\ MaxLines \in Nat \ {0}
    /\ \A e \in DOMAIN ManagedHooks :
          ManagedHooks[e] \in Seq(STRING) /\ IsInjective(ManagedHooks[e])

VARIABLE wiring

\* A list without what is in S.
Dropping(list, S) ==
    LET first[n \in 0..Len(list)] ==
          IF n = 0 THEN <<>>
          ELSE IF list[n] \in S THEN first[n - 1] ELSE Append(first[n - 1], list[n])
    IN  first[Len(list)]

-----------------------------------------------------------------------------
(* CLAUDE.md.                                                               *)

\* legacy: the heading the block begins with; text: its other lines; heading:
\* any other top-level heading; mine, yours: what the user wrote.
LineKinds == {"begin", "end", "legacy", "text", "heading", "mine", "yours"}
Block == <<"legacy", "text">>

Has(lines, kind) == kind \in ToSet(lines)
FirstLine(lines, kind) ==
    CHOOSE i \in DOMAIN lines :
        lines[i] = kind /\ \A j \in DOMAIN lines : lines[j] = kind => i <= j

\* Where the section that begins at line i ends.
SectionEnd(lines, i) ==
    CHOOSE j \in (i + 1)..(Len(lines) + 1) :
        /\ j = Len(lines) + 1 \/ lines[j] \in {"legacy", "heading"}
        /\ \A k \in (i + 1)..(j - 1) : lines[k] \notin {"legacy", "heading"}

\* _excise_legacy_unmarked_section: the first one.
Excised(lines) ==
    IF ~Has(lines, "legacy") THEN lines
    ELSE LET i == FirstLine(lines, "legacy")
         IN  SubSeq(lines, 1, i - 1)
             \o SubSeq(lines, SectionEnd(lines, i), Len(lines))

Marked(lines) == Has(lines, "begin") /\ Has(lines, "end")
Outside(lines) ==
    IF Marked(lines)
    THEN <<SubSeq(lines, 1, FirstLine(lines, "begin") - 1),
           SubSeq(lines, FirstLine(lines, "end") + 1, Len(lines))>>
    ELSE <<lines, <<>>>>

Managed == <<"begin">> \o Block \o <<"end">>

\* Mutant of Spliced: with markers in place, what is outside stays as it is.
SplicedBetween(lines) ==
    IF Marked(lines) THEN Outside(lines)[1] \o Managed \o Outside(lines)[2]
    ELSE Excised(lines) \o Managed

\* splice_managed_block
Spliced(lines) ==
    LET out == Outside(lines)
    IN  Excised(out[1]) \o Managed \o Excised(out[2])

\* extract_managed_block, compared with the block by diff, which also looks for
\* the heading outside.
MdClean(lines) ==
    /\ Marked(lines)
    /\ FirstLine(lines, "begin") < FirstLine(lines, "end")
    /\ SubSeq(lines, FirstLine(lines, "begin") + 1, FirstLine(lines, "end") - 1) = Block
    /\ \A i \in 1..2 : ~Has(Outside(lines)[i], "legacy")

-----------------------------------------------------------------------------
(* settings.json.                                                           *)

Ours == (UNION {ToSet(ManagedHooks[e]) : e \in DOMAIN ManagedHooks}) \cup {"retired"}

\* Mutant of Stripped: one that is registered for its event already stays.
StrippedElsewhere(e, groups) ==
    LET known == IF e \in DOMAIN ManagedHooks THEN ToSet(ManagedHooks[e]) ELSE {}
    IN  [i \in DOMAIN groups |-> Dropping(groups[i], Ours \ known)]

\* Managed and retired hooks go, from every event, ...
Stripped(e, groups) == [i \in DOMAIN groups |-> Dropping(groups[i], Ours)]

\* ... and so do the groups that are left empty; then each managed one is added.
\* merge_settings
MergedSettings(events) ==
    [e \in DOMAIN events \cup DOMAIN ManagedHooks |->
        (IF e \in DOMAIN events
         THEN Dropping(Stripped(e, events[e]), {<<>>}) ELSE <<>>)
        \o (IF e \in DOMAIN ManagedHooks
            THEN [i \in DOMAIN ManagedHooks[e] |-> <<ManagedHooks[e][i]>>] ELSE <<>>)]

-----------------------------------------------------------------------------
(* .claude.json.                                                            *)

\* patch_mcp_entry: the command is refreshed; the user's variables stay, and the
\* home is added only when there is none.
PatchedEntry(entry) ==
    [command |-> "current",
     home |-> IF entry.home = "none" THEN "default" ELSE entry.home,
     others |-> entry.others]

-----------------------------------------------------------------------------
(* Inputs.                                                                  *)

\* The user's lines are told apart by their order.
UserLines(lines) == Dropping(lines, LineKinds \ {"mine", "yours"})
Mds == {lines \in UNION {[1..n -> LineKinds] : n \in 0..MaxLines} :
           UserLines(lines) \in {<<>>, <<"mine">>, <<"mine", "yours">>}}

AnyHook == Ours \cup {"user"}
GroupsOf == (UNION {[1..n -> UNION {[1..k -> AnyHook] : k \in 1..2}] : n \in 0..1})
            \cup [1..2 -> [1..1 -> AnyHook]]
Events == DOMAIN ManagedHooks \cup {"another"}

WiringInit ==
    wiring \in {[of |-> "md", lines |-> l] : l \in Mds}
               \cup {[of |-> "settings", events |-> v] : v \in [Events -> GroupsOf]}
               \cup {[of |-> "entry", entry |-> e] : e \in
                       [command : {"none", "old", "current"}, others : {"none", "user"},
                        home : {"none", "user", "default"}]}

-----------------------------------------------------------------------------
(* Properties.                                                              *)

\* Nothing that looks like a marker, or one pair of them in their order.
MarkersInOrder(lines) ==
    LET at(kind) == {i \in DOMAIN lines : lines[i] = kind}
    IN  \/ at("begin") = {} /\ at("end") = {}
        \/ /\ Cardinality(at("begin")) = 1 /\ Cardinality(at("end")) = 1
           /\ FirstLine(lines, "begin") < FirstLine(lines, "end")

\* The lines that belong to the user: not between the markers, and the heading
\* above them, on the same side of the markers, is not the legacy one.
OfTheUser(lines) ==
    LET Side(i) == <<\E j \in 1..i : lines[j] = "begin", \E j \in 1..i : lines[j] = "end">>
        Marks == {i \in DOMAIN lines : lines[i] \in {"begin", "end"}}
        Headings(i) == {j \in 1..i : lines[j] \in {"legacy", "heading"} /\ Side(j) = Side(i)}
        Legacy(i) == \E j \in Headings(i) :
                        lines[j] = "legacy" /\ \A k \in Headings(i) : k <= j
        kept == {i \in DOMAIN lines \ Marks : Side(i) # <<TRUE, FALSE>> /\ ~Legacy(i)}
    IN  Dropping([i \in DOMAIN lines |-> IF i \in kept THEN lines[i] ELSE "none"],
                {"none"})

Leftovers(lines) == Cardinality({i \in DOMAIN lines : lines[i] = "legacy"})
AppliedOften(lines) ==
    LET after[n \in 0..MaxLines] == IF n = 0 THEN lines ELSE Spliced(after[n - 1])
    IN  after[MaxLines]

MdSettles(lines) ==
    LET last == AppliedOften(lines)
    IN  /\ MdClean(last)
        /\ Leftovers(lines) <= 1 => MdClean(Spliced(lines))
        /\ MdClean(lines) => Spliced(lines) = lines
        /\ OfTheUser(lines) = Outside(last)[1] \o Outside(last)[2]

SettingsSettle(events) ==
    LET merged == MergedSettings(events)
        hooks(e, all) == FlattenSeq(all[e])
        users(e, all) == Dropping(hooks(e, all), Ours)
    IN  /\ MergedSettings(merged) = merged
        /\ \A e \in DOMAIN events : users(e, merged) = users(e, events)
        /\ \A e \in DOMAIN merged :
              Dropping(hooks(e, merged), AnyHook \ Ours)
                = (IF e \in DOMAIN ManagedHooks THEN ManagedHooks[e] ELSE <<>>)

\* Invariant: what apply writes is what diff wants, so that the next session start
\* finds nothing to do, and what is the user's is left alone: a CLAUDE.md whose
\* markers are in order gets clean, after one apply for each leftover section,
\* with all lines of the user in their order; each managed hook is registered
\* once, where it belongs, between the hooks of the user.
WiringSettles ==
    /\ wiring.of = "md" /\ MarkersInOrder(wiring.lines) => MdSettles(wiring.lines)
    /\ wiring.of = "settings" => SettingsSettle(wiring.events)
    /\ wiring.of = "entry" =>
          LET patched == PatchedEntry(wiring.entry)
          IN  /\ PatchedEntry(patched) = patched
              /\ patched.others = wiring.entry.others
              /\ wiring.entry.home # "none" => patched.home = wiring.entry.home

=============================================================================
