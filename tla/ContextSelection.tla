---------------------------- MODULE ContextSelection ----------------------------
(***************************************************************************)
(* What of the ranked evidence reaches the prompt: the selector            *)
(* (EvidenceConstrainedContextSelector.select) and the packet that the     *)
(* context manager builds from the selection, giving candidates up again   *)
(* while the formatted prompt is too long.                                 *)
(*                                                                         *)
(* A candidate is a record: its source, its tokens, whether its score or   *)
(* its words make it relevant, its utility class, its text, the messages   *)
(* it quotes and those that matched, its time, and the gist it expands.    *)
(* Candidates are referred to by their rank in the list.  The prompt has   *)
(* one token of layout per section that is not empty.                      *)
(***************************************************************************)
EXTENDS WorkingBudget, FiniteSets, Sequences

CONSTANTS
  Rankings,  \* the ranked lists that are tried
  Routes,    \* the plans that are tried: those of CapKind, with raw, whether
             \* they demand a raw span
  Rooms,     \* tokens the hard limit leaves for the memory
  NoParent   \* a candidate that expands no gist

ASSUME RoomsAssumption == Rooms \subseteq Int
ASSUME RankingsAssumption ==
  \A list \in Rankings :
    /\ Len(list) \in Nat /\ DOMAIN list = 1 .. Len(list)
    /\ \A i \in DOMAIN list : list[i].tokens \in Nat /\ list[i].time \in Nat
ASSUME RoutesAssumption == \A p \in Routes : IsPlan(p)

VARIABLES
  ranked,    \* the candidates, best first
  plan,      \* the route plan
  rawFirst,  \* the raw source that is tried first
  room,      \* hard input budget less the fixed prompt (below 0: too long)
  pass,      \* "preflight" without a limit, then "final"
  floor,     \* the cost of required evidence in the preflight
  budget,    \* the working memory budget
  phase,
  required,  \* requirements not looked at yet, in order
  remaining, \* ranks that are still to be looked at
  picked,    \* selected ranks
  choice,    \* the rank that was selected for each requirement, or 0
  dropped,   \* ranks with a drop record
  used,      \* used_tokens, then token_usage
  missing,   \* missing_requirements
  mustKeep,  \* required_trace_ids
  replaced   \* a required gist was folded into its raw span (history)

inputs == <<ranked, plan, rawFirst, room>>
planned == <<inputs, pass, floor, budget>>
selectionVars == <<planned, phase, required, remaining, picked, choice, dropped,
                   used, missing, mustKeep, replaced>>

RawSources == {"raw_message_span", "current_chat_span"}
GistSources == {"previous_chat_gist", "current_chat_gist"}
Summary == plan.profile = "global_summary"

\* the order in which select looks at the requirements
Position == [raw_span |-> 1, document |-> 2, current_chat |-> 3,
             previous_chat |-> 4, durable |-> 5]
Requirements == DOMAIN Position
\* required_scopes_for and requires_raw_span
Asked == {r \in Requirements : IF r = "raw_span" THEN plan.raw ELSE r \in plan.scopes}
Foremost(r) == r \in required /\ \A s \in required : Position[r] <= Position[s]
NoChoice == [r \in Requirements |-> 0]

(* Preferred sources, the first one first.  RAW_SOURCES is a frozenset:    *)
(* the order of its elements varies from process to process.               *)
Preferences(requirement) ==
  CASE requirement = "raw_span" ->
         <<rawFirst, CHOOSE s \in RawSources : s # rawFirst>>
    [] requirement = "document" -> <<"document_memory">>
    [] requirement = "current_chat" -> <<"current_chat_span">>
    [] requirement = "previous_chat" -> <<"raw_message_span", "previous_chat_gist">>
    [] requirement = "durable" -> <<"structured_memory">>
Serves(requirement, i) ==
  \E n \in DOMAIN Preferences(requirement) : ranked[i].source = Preferences(requirement)[n]

\* the tokens of these candidates, one by one
TokenUnits(ranks) == UNION {{i} \X (1 .. ranked[i].tokens) : i \in ranks}
Cost(ranks) == Cardinality(TokenUnits(ranks))
\* the layout of the prompt: a token per section
Formatted(ranks) == Cost(ranks) + Cardinality({ranked[i].source : i \in ranks})

-----------------------------------------------------------------------------
(* Duplicates: the same text, or a span most of which a better one quotes  *)
(* and whose matched messages that one quotes, too.                        *)

Overlaps(keeper, c) ==
  /\ {keeper.source, c.source} \subseteq RawSources
  /\ keeper.span # {} /\ c.span # {}
  /\ LET smaller == CHOOSE n \in {Cardinality(keeper.span), Cardinality(c.span)} :
                      n <= Cardinality(keeper.span) /\ n <= Cardinality(c.span)
     IN 10 * Cardinality(keeper.span \cap c.span) >= 7 * smaller
  /\ c.anchors \cap (c.span \ keeper.span) = {}

Recent(list) == {i \in DOMAIN list : list[i].source = "recent_messages"}
Ordinary(list) == DOMAIN list \ Recent(list)

\* the ranks that deduplicate_candidates keeps; recent messages are set aside
Deduplicated(list) ==
  LET folds(i, kept) == \/ \E j \in Ordinary(list) : j < i /\ list[j].text = list[i].text
                        \/ \E j \in kept : Overlaps(list[j], list[i])
      keptOf[n \in 0 .. Len(list)] ==
        IF n = 0 THEN {}
        ELSE keptOf[n - 1] \cup (IF folds(n, keptOf[n - 1]) THEN {} ELSE {n})
  IN Ordinary(list) \cap keptOf[Len(list)]

Duplicates(list) == Ordinary(list) \ Deduplicated(list)

SelectionInit ==
  /\ ranked \in Rankings /\ plan \in Routes /\ room \in Rooms
  /\ rawFirst \in RawSources
  /\ pass = "preflight" /\ floor = 0 /\ budget = 0
  /\ phase = "require" /\ required = Asked /\ remaining = Deduplicated(ranked)
  /\ picked = {} /\ choice = NoChoice /\ dropped = Duplicates(ranked) /\ used = 0
  /\ missing = {} /\ mustKeep = {} /\ replaced = FALSE

-----------------------------------------------------------------------------
(* select: required evidence, the newest messages, then by utility.        *)

Expands(i, gist) == /\ ranked[i].source = "raw_message_span"
                    /\ ranked[gist].source \in GistSources
                    /\ ranked[i].parent = ranked[gist].record

\* Mutant: the gist stays next to the span that replaces it
BugParents(i, ranks) == {}

\* fold_parent_gist: the gists among these ranks that candidate i expands
Parents(i, ranks) == {j \in ranks : Expands(i, j)}

\* fold_unselected_parent_gists: the ranks that the chosen candidates expand
Folded(ranks, chosen) == UNION {Parents(i, ranks) : i \in chosen}

(* A candidate is selected and its gist makes room for it; gists are those *)
(* that were not selected and are dropped with it.                         *)
Pick(i, gists) ==
  LET folded == Parents(i, picked) IN
  /\ picked' = (picked \ folded) \cup {i}
  /\ used' = used + ranked[i].tokens - Cost(folded)
  /\ dropped' = dropped \cup folded \cup gists
  /\ replaced' = (replaced \/ folded \cap mustKeep # {})
Keep == UNCHANGED <<picked, choice, used, dropped, replaced>>
Fits(i) == pass = "preflight" \/ used + ranked[i].tokens <= budget

\* best_required_candidate, next to the ranks that are already selected
Matches(source, ranks) ==
  {j \in Deduplicated(ranked) \ ranks : ranked[j].source = source /\ ranked[j].relevant}
BestRequired(r, ranks, i) ==
  \E n \in DOMAIN Preferences(r) :
    /\ i \in Matches(Preferences(r)[n], ranks)
    /\ \A j \in Matches(Preferences(r)[n], ranks) : i <= j
    /\ \A m \in 1 .. n - 1 : Matches(Preferences(r)[m], ranks) = {}

\* what was selected for s serves r, too
ServedBy(r, s) == choice[s] \in picked /\ Serves(r, choice[s])
Served(r) == \E i \in picked : Serves(r, i)

\* the first one selected counts
AlreadyServed(r) ==
  /\ phase = "require" /\ Foremost(r)
  /\ \E s \in Requirements :
       /\ ServedBy(r, s)
       /\ \A t \in Requirements : ServedBy(r, t) => Position[s] <= Position[t]
       /\ mustKeep' = mustKeep \cup {choice[s]}
  /\ required' = required \ {r} /\ Keep
  /\ UNCHANGED <<planned, phase, remaining, missing>>

Choose(r, i) == /\ Pick(i, {}) /\ choice' = [choice EXCEPT ![r] = i]
                /\ mustKeep' = mustKeep \cup {i} /\ UNCHANGED missing

\* Mutant: the budget is not looked at for required evidence
BugRequire(r, i) ==
  /\ phase = "require" /\ Foremost(r) /\ ~Served(r) /\ BestRequired(r, picked, i)
  /\ required' = required \ {r} /\ Choose(r, i)
  /\ UNCHANGED <<planned, phase, remaining>>

Require(r, i) ==
  /\ phase = "require" /\ Foremost(r) /\ ~Served(r) /\ BestRequired(r, picked, i)
  /\ required' = required \ {r}
  /\ \/ Fits(i) /\ Choose(r, i)
     \/ /\ ~Fits(i) /\ missing' = missing \cup {r}
        /\ dropped' = dropped \cup {i}
        /\ UNCHANGED <<picked, choice, used, mustKeep, replaced>>
  /\ UNCHANGED <<planned, phase, remaining>>

NothingServes(r) ==
  /\ phase = "require" /\ Foremost(r) /\ ~Served(r)
  /\ ~\E i \in DOMAIN ranked : BestRequired(r, picked, i)
  /\ required' = required \ {r}
  /\ missing' = missing \cup {r}
  /\ Keep /\ UNCHANGED <<planned, phase, remaining, mustKeep>>

\* newest_recent_suffix: the longest tail of the messages that fits
NewestSuffix ==
  LET usable == {i \in Recent(ranked) : ~ranked[i].latest}
      newerThan(i) == {j \in usable : ranked[j].time >= ranked[i].time}
  IN {i \in usable : pass = "preflight"
                      \/ used + Cost(newerThan(i)) <= budget}

TakeRecent ==
  /\ phase = "require" /\ required = {}
  /\ LET suffix == NewestSuffix IN
       /\ picked' = picked \cup suffix
       /\ used' = used + Cost(suffix)
       /\ LET left == remaining \ picked
              folded == Folded(left, picked)
          IN /\ remaining' = left \ folded
             /\ dropped' = dropped \cup (Recent(ranked) \ suffix) \cup folded
  /\ phase' = "optional"
  /\ UNCHANGED <<planned, required, choice, missing, mustKeep, replaced>>

(* The next candidate: the highest utility, then the best rank; for a      *)
(* summary the gists, the raw spans and the rest in order of time.  (When  *)
(* the history does not fit, its spans are sampled along the time line:    *)
(* any of them may come next.)                                             *)
Group(i) == CASE ranked[i].source \in GistSources -> 1
              [] ranked[i].source \in RawSources -> 2
              [] OTHER -> 3
Before(i, j) == IF ranked[i].utility # ranked[j].utility
                  THEN ranked[i].utility > ranked[j].utility ELSE i < j
IsNextOptional(i) ==
  /\ i \in remaining
  /\ \A j \in remaining \ {i} :
       IF Summary THEN Group(i) <= Group(j) ELSE Before(i, j)

PickOptional(i) ==
  /\ phase = "optional" /\ IsNextOptional(i)
  /\ Summary \/ ranked[i].utility > 0
  /\ Fits(i)
  /\ LET gists == IF Summary THEN {} ELSE Folded(remaining, {i}) IN
       Pick(i, gists) /\ remaining' = remaining \ ({i} \cup gists)
  /\ UNCHANGED <<planned, phase, required, choice, missing, mustKeep>>

SkipOptional(i) ==
  /\ phase = "optional" /\ IsNextOptional(i)
  /\ Summary \/ ranked[i].utility > 0
  /\ ~Fits(i)
  /\ remaining' = remaining \ {i} /\ dropped' = dropped \cup {i}
  /\ UNCHANGED <<planned, phase, required, picked, choice, used, missing, mustKeep, replaced>>

\* below the minimum utility: this candidate and all the others are dropped
StopOptional(i) ==
  /\ phase = "optional" /\ IsNextOptional(i)
  /\ ~Summary /\ ranked[i].utility = 0
  /\ remaining' = {} /\ dropped' = dropped \cup remaining
  /\ UNCHANGED <<planned, phase, required, picked, choice, used, missing, mustKeep, replaced>>

\* required_floor_candidates
Floor == {i \in picked :
            \/ i \in mustKeep \/ ranked[i].source = "recent_messages"
            \/ plan.long /\ ranked[i].source = "document_memory"}

(* The preflight is over: the formatted size of its required evidence and  *)
(* recent messages (and, for a long document, of its documents) is the     *)
(* floor, the planner grants a budget, and the selection starts again.     *)
GrantBudget ==
  /\ pass = "preflight" /\ phase = "optional" /\ remaining = {}
  /\ pass' = "final"
  /\ floor' = Formatted(Floor)
  /\ budget' = Working(plan, AtLeast0(room), floor')
  /\ phase' = "require" /\ required' = Asked /\ remaining' = Deduplicated(ranked)
  /\ picked' = {} /\ choice' = NoChoice /\ dropped' = Duplicates(ranked) /\ used' = 0
  /\ missing' = {} /\ mustKeep' = {} /\ UNCHANGED <<inputs, replaced>>

\* ContextBuilder.build for the selection: the first packet
Build == /\ pass = "final" /\ phase = "optional" /\ remaining = {}
         /\ phase' = "build"
         /\ UNCHANGED <<planned, required, remaining, missing, mustKeep>> /\ Keep

-----------------------------------------------------------------------------
(* The packet, and what is given up while it is too long.                  *)

Overflows == Formatted(picked) > room

Optional == {i \in picked \ mustKeep : ranked[i].source # "recent_messages"}
LeastUseful(i) == /\ i \in Optional
                  /\ \A j \in Optional \ {i} : Before(j, i)
Oldest(i) == /\ i \in picked \cap Recent(ranked)
             /\ \A j \in picked \cap Recent(ranked) : ranked[i].time <= ranked[j].time

GiveUp(i) == /\ picked' = picked \ {i}
             /\ used' = used - ranked[i].tokens
             /\ dropped' = dropped \cup {i}
             /\ UNCHANGED <<planned, phase, required, remaining, choice, mustKeep, replaced>>

\* removable_overflow_candidate
RemoveOptional(i) ==
  /\ phase = "build" /\ Overflows
  /\ LeastUseful(i) \/ (Optional = {} /\ Oldest(i))
  /\ GiveUp(i) /\ UNCHANGED missing

\* required_overflow_candidate: the contract is given up first
RemoveRequired(i) ==
  /\ phase = "build" /\ Overflows
  /\ Optional = {} /\ picked \cap Recent(ranked) = {}
  /\ i \in picked /\ \A j \in picked : j <= i
  /\ GiveUp(i) /\ missing' = missing \cup {"hard_input_budget"}

PacketReady ==
  /\ phase = "build" /\ (~Overflows \/ picked = {})
  /\ missing' = IF Overflows THEN missing \cup {"hard_input_budget"} ELSE missing
  /\ phase' = "done" /\ UNCHANGED <<planned, required, remaining, mustKeep>> /\ Keep

SelectionNext ==
  \/ \E r \in Requirements : \/ AlreadyServed(r) \/ NothingServes(r)
                              \/ \E i \in DOMAIN ranked : Require(r, i)
  \/ TakeRecent
  \/ \E i \in DOMAIN ranked :
       \/ PickOptional(i) \/ SkipOptional(i) \/ StopOptional(i)
       \/ RemoveOptional(i) \/ RemoveRequired(i)
  \/ GrantBudget \/ Build \/ PacketReady
SelectionSpec == SelectionInit /\ [][SelectionNext]_selectionVars

-----------------------------------------------------------------------------
(* Properties.                                                             *)

SelectionTypeOK ==
  /\ phase \in {"require", "optional", "build", "done"}
  /\ remaining \cup dropped \cup mustKeep \cup picked \subseteq DOMAIN ranked
  /\ required \subseteq Requirements /\ choice \in [Requirements -> DOMAIN ranked \cup {0}]
  /\ pass \in {"preflight", "final"} /\ floor \in Nat /\ budget \in Nat
  /\ used \in Nat /\ missing \subseteq Requirements \cup {"hard_input_budget"}

(* used_tokens is the cost of the selection through every fold and removal *)
(* and stays within the working budget; the packet fits the hard limit, or *)
(* nothing is left in it that could be given up.                           *)
BudgetIsKept ==
  /\ used = Cost(picked) /\ (pass = "final" => used <= budget)
  /\ phase = "done" => ~Overflows \/ picked = {}

(* A gist and the raw span that expands it are never both in the prompt.   *)
GistOrItsSpan ==
  \A i, j \in picked : ~Expands(i, j)

(* Evidence that is required and available is not lost to a budget: when   *)
(* what the preflight requires fits what can be granted, a requirement is  *)
(* missing only where nothing relevant was found.  Here, too, a required   *)
(* gist that was folded is the exception: the floor no longer counts it.   *)
RequiredEvidenceFits ==
  (/\ phase = "done" /\ ~replaced
   /\ room >= 0 /\ floor <= SafeAvailable(plan, room)) =>
    \A r \in missing : \A i \in DOMAIN ranked :
      ~(r # "hard_input_budget" /\ Serves(r, i) /\ ranked[i].relevant
        /\ i \in Deduplicated(ranked))

=============================================================================
