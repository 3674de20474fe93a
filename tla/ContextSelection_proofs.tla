------------------------ MODULE ContextSelection_proofs ------------------------
(***************************************************************************)
(* The context of a turn, for every policy, window, ranked list and plan:  *)
(* the planner's arithmetic, the selector and packet builder that spend    *)
(* what the planner grants, the ranking they are given, the raw spans that *)
(* are retrieved for it, and the chunks of documents that answer it.       *)
(***************************************************************************)
EXTENDS SpanRetrieval, ContextSelection, Reranking, DocumentChunks, FiniteSetTheorems,
        WellFoundedInduction, TLAPS

-----------------------------------------------------------------------------
(* The planner.                                                            *)

(* The cap, the request and the reserve of a plan are numbers.             *)
LEMMA PolicyTypes ==
  ASSUME NEW route, IsPlan(route)
  PROVE  /\ RouteCap(route) \in Int /\ Requested(route) \in Nat
         /\ Reserve(route) \in Nat
<1>1. CapKind(route) \in CapKinds
  BY DEF IsPlan, CapKind, CapKinds
<1>2. RouteCap(route) \in Int
  BY <1>1, PolicyAssumption DEF RouteCap, AtLeast0, CapKinds
<1>3. Requested(route) \in Nat
  BY PolicyAssumption DEF Requested, AtLeast0, IsPlan
<1>4. Reserve(route) \in Nat
  BY PolicyAssumption DEF Reserve, AtLeast0
<1> QED BY <1>2, <1>3, <1>4

(* DynamicWorkingMemoryBudgetPlanner.plan never grants more than the       *)
(* window leaves, whatever the policy and the required evidence are.       *)
THEOREM GrantIsAvailable ==
  ASSUME NEW route, IsPlan(route), NEW available \in Nat, NEW needed \in Nat
  PROVE  Working(route, available, needed) \in 0 .. available
<1>1. RouteCap(route) \in Int /\ Requested(route) \in Nat /\ Reserve(route) \in Nat
  BY PolicyTypes
<1>2. Headroom(needed) \in Nat
  BY DEF Headroom
<1>3. SafeAvailable(route, available) \in 0 .. available
  BY <1>1 DEF SafeAvailable, AtLeast0
<1> QED
  BY <1>1, <1>2, <1>3 DEF Working, Target, AtLeast0, Lesser, Greater

(* Required evidence that fits what is available (less the reserve of a    *)
(* summary) fits the budget that is granted, also above the plan's cap.    *)
THEOREM FloorIsGranted ==
  ASSUME NEW route, IsPlan(route), NEW available \in Nat, NEW needed \in Nat,
         needed <= SafeAvailable(route, available)
  PROVE  needed <= Working(route, available, needed)
<1>1. RouteCap(route) \in Int /\ Requested(route) \in Nat /\ Reserve(route) \in Nat
  BY PolicyTypes
<1>2. Headroom(needed) \in Nat
  BY DEF Headroom
<1>3. SafeAvailable(route, available) \in 0 .. available
  BY <1>1 DEF SafeAvailable, AtLeast0
<1> QED
  BY <1>1, <1>2, <1>3 DEF Working, Target, AtLeast0, Lesser, Greater

(* The reserves come off the window before the memory is given anything:   *)
(* what is available, the fixed prompt, the output reserve and the safety  *)
(* margin fit the window together whenever the fixed parts do.             *)
THEOREM WindowIsKept ==
  ASSUME NEW window \in Nat, NEW wanted \in Nat, NEW safety \in Nat,
         NEW fixed \in Nat,
         OutputReserve(window, wanted) + safety + fixed <= window
  PROVE  AvailableMemory(HardInputBudget(window, wanted, safety), fixed)
           + fixed + OutputReserve(window, wanted) + safety = window
BY DEF AvailableMemory, HardInputBudget, OutputReserve, AtLeast0, Lesser

-----------------------------------------------------------------------------
(* Tokens.                                                                 *)

LEMMA FiniteRanks ==
  ASSUME ranked \in Rankings
  PROVE  /\ IsFiniteSet(DOMAIN ranked) /\ DOMAIN ranked \subseteq Nat \ {0}
         /\ \A i \in DOMAIN ranked : ranked[i].tokens \in Nat /\ ranked[i].time \in Nat
<1>1. Len(ranked) \in Nat /\ DOMAIN ranked = 1 .. Len(ranked)
  BY RankingsAssumption
<1>2. IsFiniteSet(1 .. Len(ranked))
  <2>1. 1 \in Int /\ Len(ranked) \in Int
    BY <1>1
  <2> QED BY <2>1, FS_Interval, Zenon
<1> QED
  BY <1>1, <1>2, RankingsAssumption

\* a finite family of finite sets, by rank
LEMMA FiniteTokens ==
  ASSUME ranked \in Rankings, NEW ranks \in SUBSET DOMAIN ranked
  PROVE  IsFiniteSet(TokenUnits(ranks)) /\ Cost(ranks) \in Nat
<1> DEFINE units(i) == {i} \X (1 .. ranked[i].tokens)
           family == {units(i) : i \in ranks}
           f == [i \in ranks |-> units(i)]
<1>1. IsFiniteSet(ranks)
  BY FiniteRanks, FS_Subset
<1>2. f \in Surjection(ranks, family)
  BY DEF Surjection
<1>3. IsFiniteSet(family)
  <2> HIDE DEF f, family
  <2> QED
    BY <1>1, <1>2, FS_Surjection
<1>4. \A i \in ranks : IsFiniteSet(units(i))
  <2> SUFFICES ASSUME NEW i \in ranks
               PROVE  IsFiniteSet(units(i))
    OBVIOUS
  <2>1. ranked[i].tokens \in Int
    BY FiniteRanks
  <2>2. IsFiniteSet(1 .. ranked[i].tokens)
    BY <2>1, FS_Interval
  <2>3. IsFiniteSet({i})
    BY FS_Singleton
  <2> QED
    BY <2>2, <2>3, FS_Product
<1>5. IsFiniteSet(UNION family)
  BY <1>3, <1>4, FS_UNION
<1>6. TokenUnits(ranks) = UNION family
  BY DEF TokenUnits
<1> QED
  BY <1>5, <1>6, FS_CardinalityType DEF Cost

\* disjoint sets of candidates add up
LEMMA CostUnion ==
  ASSUME ranked \in Rankings, NEW S \in SUBSET DOMAIN ranked,
         NEW T \in SUBSET DOMAIN ranked, S \cap T = {}
  PROVE  Cost(S \cup T) = Cost(S) + Cost(T)
<1>1. IsFiniteSet(TokenUnits(S)) /\ IsFiniteSet(TokenUnits(T))
  BY FiniteTokens
<1>2. TokenUnits(S \cup T) = TokenUnits(S) \cup TokenUnits(T)
  BY DEF TokenUnits
<1>3. TokenUnits(S) \cap TokenUnits(T) = {}
  <2> SUFFICES ASSUME NEW u \in TokenUnits(S), u \in TokenUnits(T)
               PROVE  FALSE
    OBVIOUS
  <2>1. PICK i \in S : u \in {i} \X (1 .. ranked[i].tokens)
    BY DEF TokenUnits
  <2>2. PICK j \in T : u \in {j} \X (1 .. ranked[j].tokens)
    BY DEF TokenUnits
  <2>3. u[1] = i /\ u[1] = j
    BY <2>1, <2>2
  <2> QED
    BY <2>3
<1>4. Cardinality({}) = 0
  BY FS_EmptySet
<1>5. /\ Cardinality(TokenUnits(S)) \in Nat /\ Cardinality(TokenUnits(T)) \in Nat
      /\ Cardinality(TokenUnits(S) \cup TokenUnits(T))
           = Cardinality(TokenUnits(S)) + Cardinality(TokenUnits(T)) - 0
  BY <1>1, <1>3, <1>4, FS_Union, FS_CardinalityType
<1>6. /\ Cost(S) = Cardinality(TokenUnits(S)) /\ Cost(T) = Cardinality(TokenUnits(T))
      /\ Cost(S \cup T) = Cardinality(TokenUnits(S \cup T))
  BY DEF Cost
<1>7. Cardinality(TokenUnits(S) \cup TokenUnits(T))
        = Cardinality(TokenUnits(S)) + Cardinality(TokenUnits(T))
  BY <1>5
<1> QED
  BY <1>2, <1>6, <1>7, Zenon

LEMMA CostOne ==
  ASSUME ranked \in Rankings, NEW i \in DOMAIN ranked
  PROVE  Cost({i}) = ranked[i].tokens
<1>1. TokenUnits({i}) = {i} \X (1 .. ranked[i].tokens)
  BY DEF TokenUnits
<1>2. ranked[i].tokens \in Nat
  BY FiniteRanks
<1>3. /\ IsFiniteSet(1 .. ranked[i].tokens)
      /\ Cardinality(1 .. ranked[i].tokens) = ranked[i].tokens
  <2> DEFINE n == ranked[i].tokens
  <2>1. 1 \in Int /\ n \in Int /\ n \in Nat
    BY <1>2
  <2> HIDE DEF n
  <2>2. IsFiniteSet(1 .. n) /\ Cardinality(1 .. n) = IF 1 > n THEN 0 ELSE n - 1 + 1
    BY <2>1, FS_Interval
  <2>3. (IF 1 > n THEN 0 ELSE n - 1 + 1) = n
    BY <2>1
  <2>4. IsFiniteSet(1 .. n) /\ Cardinality(1 .. n) = n
    BY <2>2, <2>3
  <2> QED BY <2>4 DEF n
<1>4. IsFiniteSet({i}) /\ Cardinality({i}) = 1
  BY FS_Singleton
<1>5. Cardinality({i} \X (1 .. ranked[i].tokens)) = 1 * ranked[i].tokens
  BY <1>3, <1>4, FS_Product
<1>6. Cost({i}) = Cardinality(TokenUnits({i}))
  BY DEF Cost
<1>7. Cardinality({i} \X (1 .. ranked[i].tokens)) = ranked[i].tokens
  BY <1>2, <1>5
<1> QED
  BY <1>1, <1>6, <1>7, Zenon

LEMMA CostMinus ==
  ASSUME ranked \in Rankings, NEW S \in SUBSET DOMAIN ranked, NEW T \in SUBSET S
  PROVE  /\ Cost(S \ T) = Cost(S) - Cost(T)
         /\ Cost(T) <= Cost(S)
         /\ {Cost(S), Cost(T), Cost(S \ T)} \subseteq Nat
<1>1. S \ T \in SUBSET DOMAIN ranked /\ T \in SUBSET DOMAIN ranked
  OBVIOUS
<1>2. Cost(S) \in Nat /\ Cost(T) \in Nat /\ Cost(S \ T) \in Nat
  BY <1>1, FiniteTokens
<1>3. (S \ T) \cap T = {} /\ (S \ T) \cup T = S
  OBVIOUS
<1>4. Cost(S) = Cost(S \ T) + Cost(T)
  BY <1>1, <1>3, CostUnion
<1> QED
  BY <1>2, <1>4

LEMMA CostNone == Cost({}) = 0
<1>1. TokenUnits({}) = {}
  BY DEF TokenUnits
<1> QED
  BY <1>1, FS_EmptySet DEF Cost

\* the layout of a packet adds to its tokens
LEMMA FormattedAbove ==
  ASSUME ranked \in Rankings, NEW ranks \in SUBSET DOMAIN ranked
  PROVE  Formatted(ranks) \in Nat /\ Cost(ranks) <= Formatted(ranks)
<1> DEFINE sources == {ranked[i].source : i \in ranks}
           f == [i \in ranks |-> ranked[i].source]
<1>1. IsFiniteSet(ranks)
  BY FiniteRanks, FS_Subset
<1>2. f \in Surjection(ranks, sources)
  BY DEF Surjection
<1>3. Cardinality(sources) \in Nat
  <2> HIDE DEF f, sources
  <2> QED
    BY <1>1, <1>2, FS_Surjection, FS_CardinalityType
<1>4. Cost(ranks) \in Nat
  BY FiniteTokens
<1> QED
  BY <1>3, <1>4 DEF Formatted

-----------------------------------------------------------------------------
(* The budget.                                                             *)

SelectionShapes ==
  /\ ranked \in Rankings /\ plan \in Routes /\ room \in Int
  /\ phase \in {"require", "optional", "build", "done"}
  /\ pass \in {"preflight", "final"} /\ floor \in Nat /\ budget \in Nat
  /\ required \subseteq Asked /\ remaining \subseteq Ordinary(ranked)
  /\ picked \cup dropped \cup mustKeep \subseteq DOMAIN ranked
  /\ choice \in [Requirements -> DOMAIN ranked \cup {0}]
  /\ missing \subseteq Requirements \cup {"hard_input_budget"}

\* what is still to be looked at was not selected
Phases ==
  /\ phase = "require" => remaining = Deduplicated(ranked) /\ picked \subseteq Ordinary(ranked)
  /\ phase # "require" => required = {}
  /\ phase = "optional" => remaining \cap picked = {}
  /\ phase \in {"build", "done"} => pass = "final"

BudgetInv == SelectionShapes /\ Phases /\ BudgetIsKept

LEMMA DuplicatesAreOrdinary ==
  /\ Deduplicated(ranked) \subseteq Ordinary(ranked)
  /\ Duplicates(ranked) \subseteq DOMAIN ranked
  /\ Ordinary(ranked) \subseteq DOMAIN ranked /\ Recent(ranked) \subseteq DOMAIN ranked
  /\ Ordinary(ranked) \cap Recent(ranked) = {}
<1>1. Deduplicated(ranked) \subseteq Ordinary(ranked)
  BY DEF Deduplicated
<1>2. Duplicates(ranked) \subseteq DOMAIN ranked
  BY DEF Duplicates, Ordinary
<1> QED
  BY <1>1, <1>2 DEF Ordinary, Recent

LEMMA SameInputs ==
  ASSUME UNCHANGED inputs
  PROVE  /\ UNCHANGED <<ranked, plan, room>>
         /\ Asked' = Asked /\ Deduplicated(ranked)' = Deduplicated(ranked)
         /\ Ordinary(ranked)' = Ordinary(ranked)
<1>1. UNCHANGED <<ranked, plan, room>>
  BY DEF inputs
<1>2. Asked' = Asked
  BY <1>1 DEF Asked
<1>3. Deduplicated(ranked)' = Deduplicated(ranked)
  BY <1>1
<1>4. Ordinary(ranked)' = Ordinary(ranked)
  BY <1>1
<1> QED
  BY <1>1, <1>2, <1>3, <1>4

LEMMA CostAfter ==
  ASSUME UNCHANGED ranked, NEW S, picked' = S
  PROVE  Cost(picked)' = Cost(S)
BY DEF Cost, TokenUnits

(* Selecting a candidate keeps the count, whatever gists it replaces.      *)
LEMMA PickStep ==
  ASSUME ranked \in Rankings, picked \subseteq DOMAIN ranked, used = Cost(picked),
         NEW i \in DOMAIN ranked \ picked, NEW gists \in SUBSET DOMAIN ranked,
         Pick(i, gists), UNCHANGED ranked,
         dropped \subseteq DOMAIN ranked
  PROVE  /\ picked' \subseteq picked \cup {i} /\ i \in picked'
         /\ used' = Cost(picked)'
         /\ used' <= used + ranked[i].tokens
         /\ dropped' \subseteq DOMAIN ranked
<1> DEFINE folded == Parents(i, picked)
<1>1. folded \in SUBSET picked
  BY DEF Parents
<1> HIDE DEF folded
<1>2. /\ picked' = (picked \ folded) \cup {i}
      /\ used' = used + ranked[i].tokens - Cost(folded)
      /\ dropped' = dropped \cup folded \cup gists
  BY DEF Pick, folded
<1>3. /\ Cost(picked \ folded) = Cost(picked) - Cost(folded)
      /\ Cost(picked) \in Nat /\ Cost(folded) \in Nat /\ Cost(picked \ folded) \in Nat
  BY <1>1, CostMinus
<1>4. Cost({i}) = ranked[i].tokens /\ ranked[i].tokens \in Nat
  BY CostOne, FiniteRanks
<1>5. Cost((picked \ folded) \cup {i}) = Cost(picked \ folded) + Cost({i})
  <2>1. (picked \ folded) \cap {i} = {}
    OBVIOUS
  <2> QED
    BY <2>1, CostUnion
<1>6. Cost(picked)' = Cost((picked \ folded) \cup {i})
  BY <1>2, CostAfter
<1> QED
  BY <1>1, <1>2, <1>3, <1>4, <1>5, <1>6

LEMMA BudgetInit == SelectionInit => BudgetInv
<1> SUFFICES ASSUME SelectionInit
             PROVE  BudgetInv
  OBVIOUS
<1>1. SelectionShapes
  BY DuplicatesAreOrdinary, RoomsAssumption DEF SelectionInit, SelectionShapes, NoChoice
<1>2. Phases
  BY DEF SelectionInit, Phases
<1>3. BudgetIsKept
  BY CostNone DEF SelectionInit, BudgetIsKept
<1> QED
  BY <1>1, <1>2, <1>3 DEF BudgetInv

\* A requirement is looked at.
LEMMA BudgetRequire ==
  ASSUME BudgetInv, NEW r \in Requirements,
         AlreadyServed(r) \/ NothingServes(r) \/ \E i \in DOMAIN ranked : Require(r, i)
  PROVE  BudgetInv'
<1>1. /\ UNCHANGED <<planned, phase, remaining>> /\ phase = "require"
      /\ required' = required \ {r}
  BY DEF AlreadyServed, NothingServes, Require
<1>2. UNCHANGED <<inputs, pass, floor, budget>>
  BY <1>1 DEF planned
<1>3. /\ UNCHANGED <<ranked, plan, room>>
      /\ Asked' = Asked /\ Deduplicated(ranked)' = Deduplicated(ranked)
      /\ Ordinary(ranked)' = Ordinary(ranked)
  BY <1>2, SameInputs
<1>4. CASE UNCHANGED <<picked, choice, used>>
  <2>1. /\ dropped' \subseteq DOMAIN ranked /\ mustKeep' \subseteq DOMAIN ranked
        /\ missing' \subseteq Requirements \cup {"hard_input_budget"}
    <3>1. CASE AlreadyServed(r)
      <4>1. PICK s \in Requirements : ServedBy(r, s) /\ mustKeep' = mustKeep \cup {choice[s]}
        BY <3>1 DEF AlreadyServed
      <4>2. choice[s] \in DOMAIN ranked
        BY <4>1 DEF ServedBy, BudgetInv, SelectionShapes
      <4> QED
        BY <3>1, <4>1, <4>2 DEF AlreadyServed, Keep, BudgetInv, SelectionShapes
    <3>2. CASE NothingServes(r)
      BY <3>2 DEF NothingServes, Keep, BudgetInv, SelectionShapes
    <3>3. CASE \E i \in DOMAIN ranked : Require(r, i)
      BY <3>3 DEF Require, Choose, Pick, Parents, BudgetInv, SelectionShapes
    <3> QED
      BY <3>1, <3>2, <3>3
  <2>2. SelectionShapes'
    BY <1>1, <1>2, <1>3, <1>4, <2>1 DEF BudgetInv, SelectionShapes
  <2>3. Phases'
    BY <1>1, <1>2, <1>3, <1>4 DEF BudgetInv, Phases
  <2>4. Cost(picked)' = Cost(picked)
    BY <1>3, <1>4, CostAfter
  <2>5. BudgetIsKept'
    BY <1>1, <1>2, <1>4, <2>4 DEF BudgetInv, BudgetIsKept
  <2> QED
    BY <2>2, <2>3, <2>5 DEF BudgetInv
<1>5. CASE ~UNCHANGED <<picked, choice, used>>
  <2>1. PICK i \in DOMAIN ranked : /\ BestRequired(r, picked, i) /\ Fits(i)
                                   /\ Choose(r, i)
    BY <1>5 DEF AlreadyServed, NothingServes, Require, Keep
  <2>2. i \in Deduplicated(ranked) \ picked
    BY <2>1 DEF BestRequired, Matches
  <2>3. i \in Ordinary(ranked) /\ i \in DOMAIN ranked
    BY <2>2, DuplicatesAreOrdinary
  <2>4. /\ picked' \subseteq picked \cup {i}
        /\ used' = Cost(picked)' /\ used' <= used + ranked[i].tokens
        /\ dropped' \subseteq DOMAIN ranked
    BY <1>3, <2>1, <2>2, <2>3, PickStep
       DEF Choose, BudgetInv, SelectionShapes, BudgetIsKept
  <2>5. SelectionShapes'
    <3>1. choice' \in [Requirements -> DOMAIN ranked \cup {0}]
      BY <2>1, <2>3 DEF Choose, BudgetInv, SelectionShapes
    <3> QED
      BY <1>1, <1>2, <1>3, <2>1, <2>3, <2>4, <3>1 DEF Choose, BudgetInv, SelectionShapes
  <2>6. Phases'
    BY <1>1, <1>2, <1>3, <2>3, <2>4 DEF BudgetInv, Phases
  <2>7. pass' = "final" => used' <= budget'
    <3>1. /\ used \in Nat /\ ranked[i].tokens \in Nat /\ used' \in Int
      <4>1. picked \in SUBSET DOMAIN ranked
        BY DEF BudgetInv, SelectionShapes
      <4>2. Cost(picked) \in Nat /\ used = Cost(picked) /\ ranked[i].tokens \in Nat
        BY <4>1, FiniteTokens, FiniteRanks DEF BudgetInv, SelectionShapes, BudgetIsKept
      <4>3. Cost(Parents(i, picked)) \in Nat
        BY <4>1, FiniteTokens DEF Parents, BudgetInv, SelectionShapes
      <4> QED
        BY <2>1, <4>2, <4>3 DEF Choose, Pick
    <3> QED
      BY <1>2, <2>1, <2>4, <3>1 DEF Fits, BudgetInv, SelectionShapes
  <2>8. BudgetIsKept'
    BY <1>1, <2>4, <2>7 DEF BudgetIsKept
  <2> QED
    BY <2>5, <2>6, <2>8 DEF BudgetInv
<1> QED
  BY <1>4, <1>5

\* among finitely or infinitely many numbers there is a least one
LEMMA LeastExists ==
  ASSUME NEW S \in SUBSET Nat, S # {}
  PROVE  \E i \in S : \A j \in S : i <= j
<1>1. PICK i \in S : \A j \in S : ~(<<j, i>> \in OpToRel(<, Nat))
  BY NatLessThanWellFounded, WFMin
<1>2. \A j \in S : ~(j < i)
  BY <1>1 DEF OpToRel
<1> QED
  BY <1>2

(* newest_recent_suffix asks only whether each message fits together with  *)
(* the newer ones; the oldest of those that do brings all the others.      *)
LEMMA SuffixFits ==
  ASSUME BudgetInv, phase = "require"
  PROVE  /\ NewestSuffix \subseteq Recent(ranked)
         /\ pass = "final" => used + Cost(NewestSuffix) <= budget
<1> DEFINE usable == {i \in Recent(ranked) : ~ranked[i].latest}
           newer(i) == {j \in usable : ranked[j].time >= ranked[i].time}
<1>1. /\ ranked \in Rankings /\ picked \in SUBSET DOMAIN ranked
      /\ used = Cost(picked) /\ budget \in Nat
      /\ pass = "final" => used <= budget
  BY DEF BudgetInv, SelectionShapes, BudgetIsKept
<1>2. usable \in SUBSET DOMAIN ranked /\ NewestSuffix \in SUBSET usable
  BY DEF NewestSuffix, Recent
<1>3. used \in Nat
  BY <1>1, FiniteTokens
<1>4. CASE NewestSuffix = {}
  BY <1>1, <1>3, <1>4, CostNone
<1>5. CASE NewestSuffix # {} /\ pass = "final"
  <2> DEFINE times == {ranked[i].time : i \in NewestSuffix}
  <2>1. \A i \in usable : ranked[i].time \in Nat
    BY <1>1, <1>2, FiniteRanks
  <2>2. PICK t \in times : \A u \in times : t <= u
    <3>1. times \in SUBSET Nat /\ times # {}
      BY <1>2, <1>5, <2>1
    <3> HIDE DEF times
    <3> QED
      BY <3>1, LeastExists
  <2>3. PICK i \in NewestSuffix : \A j \in NewestSuffix : ranked[i].time <= ranked[j].time
    BY <2>2
  <2>4. NewestSuffix \in SUBSET newer(i) /\ newer(i) \in SUBSET DOMAIN ranked
    BY <1>2, <2>1, <2>3
  <2>5. used + Cost(newer(i)) <= budget
    BY <1>5, <2>3 DEF NewestSuffix
  <2> HIDE DEF newer
  <2>6. /\ Cost(NewestSuffix) <= Cost(newer(i))
        /\ Cost(NewestSuffix) \in Nat /\ Cost(newer(i)) \in Nat
    BY <1>1, <2>4, CostMinus
  <2> QED
    BY <1>1, <1>2, <1>3, <2>5, <2>6
<1>6. NewestSuffix \subseteq Recent(ranked)
  BY DEF NewestSuffix
<1> QED
  BY <1>4, <1>5, <1>6

LEMMA BudgetTakeRecent ==
  ASSUME BudgetInv, TakeRecent
  PROVE  BudgetInv'
<1>1. /\ UNCHANGED <<planned, required, choice, missing, mustKeep, replaced>>
      /\ phase = "require" /\ phase' = "optional" /\ required = {}
      /\ picked' = picked \cup NewestSuffix /\ used' = used + Cost(NewestSuffix)
      /\ remaining' \subseteq remaining \ picked
      /\ dropped' = dropped \cup (Recent(ranked) \ NewestSuffix)
                            \cup Folded(remaining \ picked, picked)
  BY DEF TakeRecent
<1>2. UNCHANGED <<inputs, pass, floor, budget>>
  BY <1>1 DEF planned
<1>3. /\ UNCHANGED <<ranked, plan, room>>
      /\ Asked' = Asked /\ Deduplicated(ranked)' = Deduplicated(ranked)
      /\ Ordinary(ranked)' = Ordinary(ranked)
  BY <1>2, SameInputs
<1>4. /\ NewestSuffix \subseteq Recent(ranked)
      /\ pass = "final" => used + Cost(NewestSuffix) <= budget
  BY <1>1, SuffixFits
<1>5. /\ ranked \in Rankings /\ picked \in SUBSET DOMAIN ranked
      /\ NewestSuffix \in SUBSET DOMAIN ranked
      /\ remaining \subseteq Ordinary(ranked) /\ picked \subseteq Ordinary(ranked)
  BY <1>1, <1>4, DuplicatesAreOrdinary DEF BudgetInv, SelectionShapes, Phases
<1>6. picked \cap NewestSuffix = {} /\ remaining \cap NewestSuffix = {}
  BY <1>4, <1>5, DuplicatesAreOrdinary
<1>7. SelectionShapes'
  <2>1. Folded(remaining \ picked, picked) \subseteq DOMAIN ranked
    BY <1>5, DuplicatesAreOrdinary DEF Folded, Parents
  <2>2. (picked \cup dropped \cup mustKeep)' \subseteq DOMAIN ranked
    BY <1>1, <1>5, <2>1, DuplicatesAreOrdinary DEF BudgetInv, SelectionShapes
  <2> QED
    BY <1>1, <1>2, <1>3, <2>2 DEF BudgetInv, SelectionShapes
<1>8. Phases'
  BY <1>1, <1>2, <1>3, <1>6 DEF BudgetInv, Phases
<1>9. Cost(picked)' = used'
  <2>1. Cost(picked)' = Cost(picked \cup NewestSuffix)
    BY <1>1, <1>3, CostAfter
  <2>2. Cost(picked \cup NewestSuffix) = Cost(picked) + Cost(NewestSuffix)
    BY <1>5, <1>6, CostUnion
  <2>3. used = Cost(picked)
    BY DEF BudgetInv, BudgetIsKept
  <2> QED
    BY <1>1, <2>1, <2>2, <2>3
<1>10. BudgetIsKept'
  BY <1>1, <1>2, <1>4, <1>9 DEF BudgetIsKept
<1> QED
  BY <1>7, <1>8, <1>10 DEF BudgetInv

(* The optional evidence: one candidate is selected, or some are dropped.  *)
LEMMA BudgetOptional ==
  ASSUME BudgetInv, NEW i \in DOMAIN ranked,
         PickOptional(i) \/ SkipOptional(i) \/ StopOptional(i)
  PROVE  BudgetInv'
<1>1. /\ UNCHANGED <<planned, phase, required, choice, missing, mustKeep>>
      /\ phase = "optional" /\ i \in remaining /\ remaining' \subseteq remaining
  BY DEF PickOptional, SkipOptional, StopOptional, IsNextOptional
<1>2. UNCHANGED <<inputs, pass, floor, budget>>
  BY <1>1 DEF planned
<1>3. /\ UNCHANGED <<ranked, plan, room>>
      /\ Asked' = Asked /\ Deduplicated(ranked)' = Deduplicated(ranked)
      /\ Ordinary(ranked)' = Ordinary(ranked)
  BY <1>2, SameInputs
<1>4. /\ ranked \in Rankings /\ picked \in SUBSET DOMAIN ranked /\ used = Cost(picked)
      /\ remaining \subseteq Ordinary(ranked) /\ remaining \subseteq DOMAIN ranked
      /\ dropped \subseteq DOMAIN ranked /\ remaining \cap picked = {}
  BY <1>1, DuplicatesAreOrdinary DEF BudgetInv, SelectionShapes, Phases, BudgetIsKept
<1>5. CASE UNCHANGED <<picked, used>>
  <2>1. dropped' \subseteq DOMAIN ranked
    BY <1>4 DEF PickOptional, SkipOptional, StopOptional, Pick, Parents, Folded
  <2>2. SelectionShapes'
    BY <1>1, <1>2, <1>3, <1>5, <2>1 DEF BudgetInv, SelectionShapes
  <2>3. Phases'
    BY <1>1, <1>2, <1>3, <1>5 DEF BudgetInv, Phases
  <2>4. Cost(picked)' = Cost(picked)
    BY <1>3, <1>5, CostAfter
  <2>5. BudgetIsKept'
    BY <1>1, <1>2, <1>5, <2>4 DEF BudgetInv, BudgetIsKept
  <2> QED
    BY <2>2, <2>3, <2>5 DEF BudgetInv
<1>6. CASE ~UNCHANGED <<picked, used>>
  <2>1. Fits(i) /\ PickOptional(i)
    BY <1>6 DEF PickOptional, SkipOptional, StopOptional
  <2>2. PICK gists \in SUBSET remaining : /\ Pick(i, gists)
                                         /\ remaining' = remaining \ ({i} \cup gists)
    <3> DEFINE given == IF Summary THEN {} ELSE Folded(remaining, {i})
    <3>1. given \in SUBSET remaining
      BY DEF Folded, Parents
    <3>2. Pick(i, given) /\ remaining' = remaining \ ({i} \cup given)
      BY <2>1 DEF PickOptional
    <3> HIDE DEF given
    <3> QED
      BY <3>1, <3>2
  <2>3. i \in DOMAIN ranked \ picked /\ gists \in SUBSET DOMAIN ranked
    BY <1>1, <1>4
  <2>4. /\ picked' \subseteq picked \cup {i}
        /\ used' = Cost(picked)' /\ used' <= used + ranked[i].tokens
        /\ dropped' \subseteq DOMAIN ranked
    BY <1>3, <1>4, <2>2, <2>3, PickStep
  <2>5. SelectionShapes'
    BY <1>1, <1>2, <1>3, <2>4 DEF BudgetInv, SelectionShapes
  <2>6. Phases'
    BY <1>1, <1>2, <1>3, <1>4, <2>2, <2>4 DEF BudgetInv, Phases
  <2>7. pass' = "final" => used' <= budget'
    <3>1. Cost(picked) \in Nat /\ ranked[i].tokens \in Nat
      BY <1>4, FiniteTokens, FiniteRanks
    <3>2. Cost(Parents(i, picked)) \in Nat
      BY <1>4, FiniteTokens DEF Parents
    <3>3. used' \in Int
      BY <1>4, <2>2, <3>1, <3>2 DEF Pick
    <3> QED
      BY <1>2, <1>4, <2>1, <2>4, <3>1, <3>3 DEF Fits, BudgetInv, SelectionShapes
  <2>8. BudgetIsKept'
    BY <1>1, <2>4, <2>7 DEF BudgetIsKept
  <2> QED
    BY <2>5, <2>6, <2>8 DEF BudgetInv
<1> QED
  BY <1>5, <1>6

(* The planner's budget: the floor is a number, and so is the grant.       *)
LEMMA BudgetGranted ==
  ASSUME BudgetInv, GrantBudget
  PROVE  /\ BudgetInv' /\ floor' = Formatted(Floor)
         /\ budget' = Working(plan, AtLeast0(room), floor')
         /\ plan \in Routes /\ AtLeast0(room) \in Nat /\ floor' \in Nat
<1>1. /\ UNCHANGED <<inputs, replaced>> /\ pass' = "final"
      /\ floor' = Formatted(Floor)
      /\ budget' = Working(plan, AtLeast0(room), floor')
      /\ phase' = "require" /\ required' = Asked /\ remaining' = Deduplicated(ranked)
      /\ picked' = {} /\ choice' = NoChoice /\ dropped' = Duplicates(ranked) /\ used' = 0
      /\ missing' = {} /\ mustKeep' = {}
  BY DEF GrantBudget
<1>2. /\ UNCHANGED <<ranked, plan, room>>
      /\ Asked' = Asked /\ Deduplicated(ranked)' = Deduplicated(ranked)
      /\ Ordinary(ranked)' = Ordinary(ranked)
  BY <1>1, SameInputs
<1>3. floor' \in Nat
  <2>1. ranked \in Rankings /\ Floor \in SUBSET DOMAIN ranked
    BY DEF Floor, BudgetInv, SelectionShapes
  <2> QED
    BY <1>1, <2>1, FormattedAbove
<1>4. plan \in Routes /\ AtLeast0(room) \in Nat
  BY DEF BudgetInv, SelectionShapes, AtLeast0
<1>5. budget' \in Nat
  <2>1. budget' \in 0 .. AtLeast0(room)
    BY <1>1, <1>3, <1>4, GrantIsAvailable, RoutesAssumption
  <2> QED
    BY <1>4, <2>1
<1>6. SelectionShapes'
  BY <1>1, <1>2, <1>3, <1>5, DuplicatesAreOrdinary
     DEF BudgetInv, SelectionShapes, NoChoice
<1>7. Phases'
  BY <1>1, <1>2 DEF Phases
<1>8. BudgetIsKept'
  <2>1. Cost(picked)' = Cost({})
    BY <1>1, <1>2, CostAfter
  <2> QED
    BY <1>1, <1>5, <2>1, CostNone DEF BudgetIsKept
<1> QED
  BY <1>1, <1>3, <1>4, <1>6, <1>7, <1>8 DEF BudgetInv

(* The packet: what is given up is no longer counted.                      *)
LEMMA BudgetPacket ==
  ASSUME BudgetInv,
         \/ Build \/ PacketReady \/ UNCHANGED selectionVars
         \/ \E i \in DOMAIN ranked : RemoveOptional(i) \/ RemoveRequired(i)
  PROVE  BudgetInv'
<1>1. UNCHANGED <<planned, required, remaining, choice, mustKeep>>
  BY DEF Build, PacketReady, RemoveOptional, RemoveRequired, GiveUp, Keep, selectionVars
<1>2. UNCHANGED <<inputs, pass, floor, budget>>
  BY <1>1 DEF planned
<1>3. /\ UNCHANGED <<ranked, plan, room>>
      /\ Asked' = Asked /\ Deduplicated(ranked)' = Deduplicated(ranked)
      /\ Ordinary(ranked)' = Ordinary(ranked)
  BY <1>2, SameInputs
<1>4. missing' \subseteq Requirements \cup {"hard_input_budget"}
  BY DEF Build, PacketReady, RemoveOptional, RemoveRequired, selectionVars,
         BudgetInv, SelectionShapes
<1>5. CASE \E i \in DOMAIN ranked : RemoveOptional(i) \/ RemoveRequired(i)
  <2>1. PICK i \in DOMAIN ranked : RemoveOptional(i) \/ RemoveRequired(i)
    BY <1>5
  <2>2. i \in picked /\ GiveUp(i) /\ phase = "build"
    BY <2>1 DEF RemoveOptional, RemoveRequired, LeastUseful, Oldest, Optional
  <2>3. /\ ranked \in Rankings /\ picked \in SUBSET DOMAIN ranked /\ used = Cost(picked)
        /\ pass = "final" => used <= budget
    BY DEF BudgetInv, SelectionShapes, BudgetIsKept
  <2>4. /\ Cost(picked \ {i}) = Cost(picked) - Cost({i})
        /\ Cost(picked) \in Nat /\ Cost({i}) \in Nat /\ Cost({i}) = ranked[i].tokens
    BY <2>2, <2>3, CostMinus, CostOne
  <2>5. Cost(picked)' = Cost(picked \ {i})
    BY <1>3, <2>2, CostAfter DEF GiveUp
  <2>6. used' = Cost(picked)' /\ used' <= used /\ used \in Nat /\ used' \in Int
    BY <2>2, <2>3, <2>4, <2>5 DEF GiveUp
  <2>7. SelectionShapes'
    BY <1>1, <1>2, <1>3, <1>4, <2>2 DEF BudgetInv, SelectionShapes, GiveUp
  <2>8. Phases'
    BY <1>1, <1>2, <1>3, <2>2 DEF BudgetInv, Phases, GiveUp
  <2>9. BudgetIsKept'
    <3>1. budget \in Nat /\ phase' = "build"
      BY <2>2 DEF BudgetInv, SelectionShapes, GiveUp
    <3> QED
      BY <1>2, <2>3, <2>6, <3>1 DEF BudgetIsKept
  <2> QED
    BY <2>7, <2>8, <2>9 DEF BudgetInv
<1>6. CASE Build \/ PacketReady \/ UNCHANGED selectionVars
  <2>1. /\ UNCHANGED <<picked, used, dropped>>
        /\ phase' = phase \/ (phase \in {"optional", "build"} /\ phase' \in {"build", "done"}
                              /\ pass = "final")
        /\ phase' = "done" => (phase = "done" \/ ~Overflows \/ picked = {})
    BY <1>6 DEF Build, PacketReady, Keep, selectionVars, BudgetInv, Phases
  <2>2. SelectionShapes'
    BY <1>1, <1>2, <1>3, <1>4, <2>1 DEF BudgetInv, SelectionShapes
  <2>3. Phases'
    BY <1>1, <1>2, <1>3, <2>1 DEF BudgetInv, Phases
  <2>4. Cost(picked)' = Cost(picked)
    BY <1>3, <2>1, CostAfter
  <2>5. Overflows' = Overflows
    BY <1>3, <2>1 DEF Overflows, Formatted, Cost, TokenUnits
  <2>6. BudgetIsKept'
    BY <1>2, <2>1, <2>4, <2>5 DEF BudgetInv, BudgetIsKept
  <2> QED
    BY <2>2, <2>3, <2>6 DEF BudgetInv
<1> QED
  BY <1>5, <1>6

LEMMA BudgetStep == BudgetInv /\ [SelectionNext]_selectionVars => BudgetInv'
<1> SUFFICES ASSUME BudgetInv, [SelectionNext]_selectionVars
             PROVE  BudgetInv'
  OBVIOUS
<1>1. CASE \E r \in Requirements :
             AlreadyServed(r) \/ NothingServes(r) \/ \E i \in DOMAIN ranked : Require(r, i)
  BY <1>1, BudgetRequire
<1>2. CASE TakeRecent
  BY <1>2, BudgetTakeRecent
<1>3. CASE \E i \in DOMAIN ranked : PickOptional(i) \/ SkipOptional(i) \/ StopOptional(i)
  BY <1>3, BudgetOptional
<1>4. CASE GrantBudget
  BY <1>4, BudgetGranted
<1>5. CASE \/ Build \/ PacketReady \/ UNCHANGED selectionVars
           \/ \E i \in DOMAIN ranked : RemoveOptional(i) \/ RemoveRequired(i)
  BY <1>5, BudgetPacket
<1> QED
  BY <1>1, <1>2, <1>3, <1>4, <1>5 DEF SelectionNext

LEMMA BudgetAlways == SelectionSpec => []BudgetInv
<1> QED
  BY BudgetInit, BudgetStep, PTL DEF SelectionSpec

(* The state of a selection keeps its shape for every ranked list, plan    *)
(* and window.                                                             *)
THEOREM SelectionTyped == SelectionSpec => []SelectionTypeOK
<1>1. BudgetInv => SelectionTypeOK
  <2> SUFFICES ASSUME BudgetInv
               PROVE  SelectionTypeOK
    OBVIOUS
  <2>1. used \in Nat
    <3>1. ranked \in Rankings /\ picked \in SUBSET DOMAIN ranked /\ used = Cost(picked)
      BY DEF BudgetInv, SelectionShapes, BudgetIsKept
    <3> QED
      BY <3>1, FiniteTokens
  <2>2. Asked \subseteq Requirements /\ Ordinary(ranked) \subseteq DOMAIN ranked
    BY DEF Asked, Ordinary
  <2> QED
    BY <2>1, <2>2 DEF BudgetInv, SelectionShapes, SelectionTypeOK
<1> QED
  BY <1>1, BudgetAlways, PTL

(* Through every selection, fold and removal used_tokens is the cost of    *)
(* what is selected and within the granted budget; the packet that is      *)
(* handed on fits the hard limit unless nothing is left in it.             *)
THEOREM BudgetStaysKept == SelectionSpec => []BudgetIsKept
<1>1. BudgetInv => BudgetIsKept
  BY DEF BudgetInv
<1> QED
  BY <1>1, BudgetAlways, PTL

-----------------------------------------------------------------------------
(* A gist or its span.                                                     *)

\* what may still be selected has no gist of a selected span among it
GistsMadeRoom ==
  /\ GistOrItsSpan
  /\ phase = "optional" => \A i \in picked, j \in remaining : ~Expands(i, j)

GistInv == BudgetInv /\ rawFirst \in RawSources /\ GistsMadeRoom


\* only a previous chat may be required by its gist, and a span of it comes first
LEMMA GistsServePreviousChats ==
  ASSUME rawFirst \in RawSources, NEW r \in Requirements, NEW i
  PROVE  /\ Serves(r, i) /\ ranked[i].source \in GistSources => r = "previous_chat"
         /\ ranked[i].source = "raw_message_span" => Serves("previous_chat", i)
<1>1. (CHOOSE s \in RawSources : s # rawFirst) \in RawSources
  BY DEF RawSources
<1>2. RawSources \cap GistSources = {}
  BY DEF RawSources, GistSources
<1>3. r \in {"raw_span", "document", "current_chat", "previous_chat", "durable"}
  BY DEF Requirements, Position
<1>4. Serves(r, i) /\ ranked[i].source \in GistSources => r = "previous_chat"
  <2> SUFFICES ASSUME Serves(r, i), ranked[i].source \in GistSources, r # "previous_chat"
               PROVE  FALSE
    OBVIOUS
  <2>1. PICK n \in DOMAIN Preferences(r) : ranked[i].source = Preferences(r)[n]
    BY DEF Serves
  <2>2. CASE r = "raw_span"
    <3> DEFINE other == CHOOSE s \in RawSources : s # rawFirst
    <3>1. Preferences(r) = <<rawFirst, other>>
      BY <2>2 DEF Preferences
    <3>2. other \in RawSources
      BY <1>1
    <3> HIDE DEF other
    <3> QED
      BY <1>2, <2>1, <3>1, <3>2
  <2>3. CASE r = "document"
    BY <2>1, <2>3 DEF Preferences, GistSources
  <2>4. CASE r = "current_chat"
    BY <2>1, <2>4 DEF Preferences, GistSources
  <2>5. CASE r = "durable"
    BY <2>1, <2>5 DEF Preferences, GistSources
  <2> QED
    BY <1>3, <2>2, <2>3, <2>4, <2>5
<1>5. ranked[i].source = "raw_message_span" => Serves("previous_chat", i)
  <2>1. Preferences("previous_chat") = <<"raw_message_span", "previous_chat_gist">>
    BY DEF Preferences
  <2>2. /\ 1 \in DOMAIN Preferences("previous_chat")
        /\ Preferences("previous_chat")[1] = "raw_message_span"
    BY <2>1
  <2> QED
    BY <2>2 DEF Serves
<1> QED
  BY <1>4, <1>5

LEMMA GistInit == SelectionInit => GistInv
<1> SUFFICES ASSUME SelectionInit
             PROVE  GistInv
  OBVIOUS
<1>1. GistsMadeRoom
  BY DEF SelectionInit, GistsMadeRoom, GistOrItsSpan
<1> QED
  BY <1>1, BudgetInit DEF GistInv, SelectionInit

(* A selected candidate takes the place of its gists; it is itself no gist *)
(* of a selected span.                                                     *)
LEMMA PickReplaces ==
  ASSUME GistOrItsSpan, UNCHANGED ranked, NEW i, NEW gists, Pick(i, gists),
         \A j \in picked : ~Expands(j, i)
  PROVE  GistOrItsSpan'
<1>1. picked' = (picked \ Parents(i, picked)) \cup {i}
  BY DEF Pick
<1>2. ~Expands(i, i)
  BY DEF Expands, GistSources
<1>3. \A j \in picked' \ {i} : j \in picked /\ ~Expands(i, j)
  BY <1>1 DEF Parents
<1>4. \A j, k \in picked' : ~Expands(j, k)
  BY <1>1, <1>2, <1>3 DEF GistOrItsSpan
<1> QED
  BY <1>4 DEF GistOrItsSpan, Expands

LEMMA GistStep == GistInv /\ [SelectionNext]_selectionVars => GistInv'
<1> SUFFICES ASSUME GistInv, [SelectionNext]_selectionVars
             PROVE  GistInv'
  OBVIOUS
<1>1. BudgetInv' /\ BudgetInv
  BY BudgetStep DEF GistInv
<1>2. UNCHANGED inputs
  BY DEF SelectionNext, selectionVars, planned, AlreadyServed, NothingServes, Require,
         TakeRecent, PickOptional, SkipOptional, StopOptional, RemoveOptional,
         RemoveRequired, GiveUp, GrantBudget, Build, PacketReady
<1>3. UNCHANGED ranked /\ rawFirst' \in RawSources
  BY <1>2 DEF inputs, GistInv
<1>4. GistOrItsSpan /\ rawFirst \in RawSources
  BY DEF GistInv, GistsMadeRoom
<1>5. \A i, j : Expands(i, j)' <=> Expands(i, j)
  BY <1>3 DEF Expands
\* a step that selects nothing
<1>6. ASSUME picked' \subseteq picked, remaining' \subseteq remaining,
             phase' = "optional" => phase = "optional"
      PROVE  GistsMadeRoom'
  BY <1>4, <1>5, <1>6 DEF GistsMadeRoom, GistOrItsSpan, GistInv
<1> SUFFICES GistsMadeRoom'
  BY <1>1, <1>3 DEF GistInv
<1>7. CASE \E r \in Requirements :
             AlreadyServed(r) \/ NothingServes(r) \/ \E i \in DOMAIN ranked : Require(r, i)
  <2>1. PICK r \in Requirements :
          AlreadyServed(r) \/ NothingServes(r) \/ \E i \in DOMAIN ranked : Require(r, i)
    BY <1>7
  <2>2. phase' = "require" /\ UNCHANGED remaining
    BY <2>1 DEF AlreadyServed, NothingServes, Require
  <2>3. CASE UNCHANGED picked
    BY <1>6, <2>2, <2>3
  <2>4. CASE ~UNCHANGED picked
    <3>1. PICK i \in DOMAIN ranked : /\ ~Served(r) /\ BestRequired(r, picked, i)
                                     /\ Pick(i, {})
      BY <2>1, <2>4 DEF AlreadyServed, NothingServes, Require, Choose, Keep
    <3>2. Serves(r, i)
      BY <3>1 DEF BestRequired, Matches, Serves
    <3>3. \A j \in picked : ~Expands(j, i)
      BY <1>4, <3>1, <3>2, GistsServePreviousChats DEF Served, Expands
    <3>4. GistOrItsSpan'
      BY <1>3, <1>4, <3>1, <3>3, PickReplaces
    <3> QED
      BY <2>2, <3>4 DEF GistsMadeRoom
  <2> QED
    BY <2>3, <2>4
<1>8. CASE TakeRecent
  <2>1. /\ picked' = picked \cup NewestSuffix
        /\ remaining' = (remaining \ picked) \ Folded(remaining \ picked, picked)
    BY <1>8 DEF TakeRecent
  <2>2. NewestSuffix \subseteq Recent(ranked)
    BY DEF NewestSuffix
  <2>3. \A i \in NewestSuffix : \A j : ~Expands(i, j) /\ ~Expands(j, i)
    BY <2>2 DEF Recent, Expands, GistSources
  <2>4. \A i \in picked, j \in remaining' : ~Expands(i, j)
    BY <2>1 DEF Folded, Parents
  <2> QED
    BY <1>4, <1>5, <2>1, <2>3, <2>4 DEF GistsMadeRoom, GistOrItsSpan
<1>9. CASE \E i \in DOMAIN ranked : PickOptional(i)
  <2>1. PICK i \in DOMAIN ranked : PickOptional(i)
    BY <1>9
  <2>2. PICK gists : /\ gists = IF Summary THEN {} ELSE Folded(remaining, {i})
                     /\ Pick(i, gists) /\ remaining' = remaining \ ({i} \cup gists)
    BY <2>1 DEF PickOptional
  <2>3. /\ phase = "optional" /\ i \in remaining /\ IsNextOptional(i)
        /\ \A j \in picked, k \in remaining : ~Expands(j, k)
    BY <2>1 DEF PickOptional, IsNextOptional, GistInv, GistsMadeRoom
  <2>4. GistOrItsSpan'
    BY <1>3, <1>4, <2>2, <2>3, PickReplaces
  <2>5. \A j \in remaining' : ~Expands(i, j)
    <3>1. CASE Summary
      <4> SUFFICES ASSUME NEW j \in remaining', Expands(i, j)
                   PROVE  FALSE
        OBVIOUS
      <4>1. j \in remaining \ {i}
        BY <2>2
      <4>2. Group(i) <= Group(j)
        BY <2>3, <3>1, <4>1 DEF IsNextOptional
      <4>3. Group(i) = 2 /\ Group(j) = 1
        BY DEF Expands, Group, GistSources, RawSources
      <4> QED
        BY <4>2, <4>3
    <3>2. CASE ~Summary
      BY <2>2, <3>2 DEF Folded, Parents
    <3> QED
      BY <3>1, <3>2
  <2>6. picked' \subseteq picked \cup {i} /\ remaining' \subseteq remaining
    BY <2>2 DEF Pick
  <2>7. \A j \in picked', k \in remaining' : ~Expands(j, k)
    BY <2>3, <2>5, <2>6
  <2> QED
    BY <1>5, <2>4, <2>7 DEF GistsMadeRoom
<1>10. CASE GrantBudget
  <2>1. picked' = {} /\ phase' = "require"
    BY <1>10 DEF GrantBudget
  <2> QED
    BY <2>1 DEF GistsMadeRoom, GistOrItsSpan
<1>11. CASE \/ Build \/ PacketReady \/ UNCHANGED selectionVars
            \/ \E i \in DOMAIN ranked : SkipOptional(i) \/ StopOptional(i)
                                        \/ RemoveOptional(i) \/ RemoveRequired(i)
  <2>1. /\ picked' \subseteq picked /\ remaining' \subseteq remaining
        /\ phase' = "optional" => phase = "optional"
    BY <1>11 DEF Build, PacketReady, SkipOptional, StopOptional, RemoveOptional,
                 RemoveRequired, GiveUp, Keep, selectionVars
  <2> QED
    BY <1>6, <2>1
<1> QED
  BY <1>7, <1>8, <1>9, <1>10, <1>11 DEF SelectionNext

(* fold_parent_gist and fold_unselected_parent_gists keep a gist and the   *)
(* span that expands it from meeting in a prompt, whatever the order in    *)
(* which the two were ranked, required or sampled.                         *)
THEOREM GistMakesRoom == SelectionSpec => []GistOrItsSpan
<1>1. GistInv => GistOrItsSpan
  BY DEF GistInv, GistsMadeRoom
<1> QED
  BY <1>1, GistInit, GistStep, PTL DEF SelectionSpec

-----------------------------------------------------------------------------
(* The required evidence of the preflight fits the second time.            *)

\* the ranks that a choice selects, all of them and those before r
Chosen(c) == {c[s] : s \in Requirements} \ {0}
Earlier(r) == {s \in Asked : Position[s] < Position[r]}
ChosenBefore(c, r) == {c[s] : s \in Earlier(r)} \ {0}

\* the loop of select over the requirements chooses this for r
Decided(c, r) ==
  LET before == ChosenBefore(c, r) IN
  IF c[r] = 0 THEN \/ \E i \in before : Serves(r, i)
                   \/ ~\E i \in DOMAIN ranked : BestRequired(r, before, i)
  ELSE ~(\E i \in before : Serves(r, i)) /\ BestRequired(r, before, c[r])

\* nothing in the list serves r
Hopeless(r) ==
  \A i \in DOMAIN ranked :
    ~(Serves(r, i) /\ ranked[i].relevant /\ i \in Deduplicated(ranked))

\* as long as no required gist was folded into its span
ChoiceIsKept ==
  /\ \A s \in Requirements : s \in required \/ s \notin Asked => choice[s] = 0
  /\ \A s \in Asked \ required, r \in required : Position[s] < Position[r]
  /\ ~replaced =>
       /\ phase = "require" => picked = Chosen(choice)
       /\ phase \in {"require", "optional"} => Chosen(choice) \subseteq picked \cap mustKeep
       /\ pass = "preflight" => \A s \in Asked \ required : Decided(choice, s)

Granted == /\ pass = "final" /\ ~replaced
           /\ room >= 0 /\ floor <= SafeAvailable(plan, room)

\* the choice of the preflight, which the second pass makes again
FloorChoice(c) ==
  /\ c \in [Requirements -> DOMAIN ranked \cup {0}]
  /\ \A s \in Requirements : IF s \in Asked THEN Decided(c, s) ELSE c[s] = 0
  /\ Cost(Chosen(c)) <= floor
  /\ phase = "require" => \A s \in Asked \ required : choice[s] = c[s]

FloorIsChosen ==
  /\ pass = "final" => budget = Working(plan, AtLeast0(room), floor)
  /\ Granted => /\ \E c \in [Requirements -> DOMAIN ranked \cup {0}] : FloorChoice(c)
                /\ \A r \in missing : r = "hard_input_budget" \/ Hopeless(r)

EvidenceInv == BudgetInv /\ rawFirst \in RawSources /\ ChoiceIsKept /\ FloorIsChosen

LEMMA Requirement ==
  /\ \A r \in Requirements : Position[r] \in Nat /\ DOMAIN Preferences(r) \subseteq Nat \ {0}
  /\ \A r, s \in Requirements : Position[r] = Position[s] => r = s
<1>1. Requirements = {"raw_span", "document", "current_chat", "previous_chat", "durable"}
  BY DEF Requirements, Position
<1>2. /\ Position["raw_span"] = 1 /\ Position["document"] = 2
      /\ Position["current_chat"] = 3 /\ Position["previous_chat"] = 4
      /\ Position["durable"] = 5
  BY DEF Position
<1>3. \A r \in Requirements : DOMAIN Preferences(r) \subseteq Nat \ {0}
  <2>1. DOMAIN Preferences("raw_span") \subseteq Nat \ {0}
    <3> DEFINE other == CHOOSE s \in RawSources : s # rawFirst
    <3>1. Preferences("raw_span") = <<rawFirst, other>>
      BY DEF Preferences
    <3> HIDE DEF other
    <3> QED
      BY <3>1
  <2>2. DOMAIN Preferences("document") \subseteq Nat \ {0}
    BY DEF Preferences
  <2>3. DOMAIN Preferences("current_chat") \subseteq Nat \ {0}
    BY DEF Preferences
  <2>4. DOMAIN Preferences("previous_chat") \subseteq Nat \ {0}
    BY DEF Preferences
  <2>5. DOMAIN Preferences("durable") \subseteq Nat \ {0}
    BY DEF Preferences
  <2> QED
    BY <1>1, <2>1, <2>2, <2>3, <2>4, <2>5
<1> QED
  BY <1>1, <1>2, <1>3

\* the list, the plan and the order of the sources stay: so does every choice
LEMMA SameDecisions ==
  ASSUME UNCHANGED inputs
  PROVE  /\ \A c, s : Decided(c, s)' <=> Decided(c, s)
         /\ \A s : Hopeless(s)' <=> Hopeless(s)
         /\ \A c : Cost(Chosen(c))' = Cost(Chosen(c))
<1>1. UNCHANGED <<ranked, plan, rawFirst, room>>
  BY DEF inputs
<1>2. \A s, i : Serves(s, i)' <=> Serves(s, i)
  BY <1>1 DEF Serves, Preferences
<1>3. \A s, S, i : BestRequired(s, S, i)' <=> BestRequired(s, S, i)
  BY <1>1 DEF BestRequired, Matches, Preferences
<1>4. \A c, s : ChosenBefore(c, s)' = ChosenBefore(c, s)
  BY <1>1 DEF ChosenBefore, Earlier, Asked
<1>5. \A c, s : Decided(c, s)' <=> Decided(c, s)
  BY <1>1, <1>2, <1>3, <1>4 DEF Decided
<1>6. \A s : Hopeless(s)' <=> Hopeless(s)
  BY <1>1, <1>2 DEF Hopeless
<1>7. \A c : Cost(Chosen(c))' = Cost(Chosen(c))
  BY <1>1 DEF Cost, TokenUnits, Chosen
<1> QED
  BY <1>5, <1>6, <1>7

\* best_required_candidate returns one candidate, which serves the requirement
LEMMA BestIsUnique ==
  ASSUME ranked \in Rankings, NEW r \in Requirements, NEW S,
         NEW i, NEW j, BestRequired(r, S, i), BestRequired(r, S, j)
  PROVE  i = j /\ Serves(r, i) /\ i \in Deduplicated(ranked) \ S
<1>1. PICK n \in DOMAIN Preferences(r) :
        /\ i \in Matches(Preferences(r)[n], S)
        /\ \A k \in Matches(Preferences(r)[n], S) : i <= k
        /\ \A m \in 1 .. n - 1 : Matches(Preferences(r)[m], S) = {}
  BY DEF BestRequired
<1>2. PICK o \in DOMAIN Preferences(r) :
        /\ j \in Matches(Preferences(r)[o], S)
        /\ \A k \in Matches(Preferences(r)[o], S) : j <= k
        /\ \A m \in 1 .. o - 1 : Matches(Preferences(r)[m], S) = {}
  BY DEF BestRequired
<1>3. n \in Nat \ {0} /\ o \in Nat \ {0}
  BY Requirement
<1>4. n = o
  <2>1. ~(n < o) /\ ~(o < n)
    BY <1>1, <1>2, <1>3
  <2> QED
    BY <1>3, <2>1
<1>5. i \in Nat /\ j \in Nat
  BY <1>1, <1>2, FiniteRanks, DuplicatesAreOrdinary DEF Matches
<1>6. Serves(r, i) /\ i \in Deduplicated(ranked) \ S
  BY <1>1 DEF Matches, Serves
<1> QED
  BY <1>1, <1>2, <1>4, <1>5, <1>6

\* and it returns one whenever there is a relevant candidate
LEMMA SomethingIsBest ==
  ASSUME ranked \in Rankings, NEW r \in Requirements, NEW S,
         NEW i \in Deduplicated(ranked) \ S, Serves(r, i), ranked[i].relevant
  PROVE  \E j \in DOMAIN ranked : BestRequired(r, S, j)
<1> DEFINE ns == {n \in DOMAIN Preferences(r) : Matches(Preferences(r)[n], S) # {}}
<1>1. PICK n \in ns : \A m \in ns : n <= m
  <2>1. PICK n \in DOMAIN Preferences(r) : ranked[i].source = Preferences(r)[n]
    BY DEF Serves
  <2>2. i \in Matches(Preferences(r)[n], S)
    BY <2>1 DEF Matches
  <2>3. ns \in SUBSET Nat /\ ns # {}
    BY <2>2, Requirement
  <2> HIDE DEF ns
  <2> QED
    BY <2>3, LeastExists
<1> DEFINE shown == Matches(Preferences(r)[n], S)
<1>2. PICK j \in shown : \A k \in shown : j <= k
  <2>1. shown \in SUBSET Nat /\ shown # {}
    BY FiniteRanks, DuplicatesAreOrdinary DEF Matches
  <2> HIDE DEF shown
  <2> QED
    BY <2>1, LeastExists
<1>3. j \in DOMAIN ranked
  BY DuplicatesAreOrdinary DEF Matches
<1>4. n \in Nat \ {0}
  BY Requirement
<1>5. \A m \in 1 .. n - 1 : Matches(Preferences(r)[m], S) = {}
  <2> SUFFICES ASSUME NEW m \in 1 .. n - 1, Matches(Preferences(r)[m], S) # {}
               PROVE  FALSE
    OBVIOUS
  <2>1. m \in DOMAIN Preferences(r)
    <3>1. \E l \in Nat : DOMAIN Preferences(r) = 1 .. l
      <4>1. r \in {"raw_span", "document", "current_chat", "previous_chat", "durable"}
        BY DEF Requirements, Position
      <4>2. CASE r = "raw_span"
        <5> DEFINE other == CHOOSE s \in RawSources : s # rawFirst
        <5>1. Preferences(r) = <<rawFirst, other>>
          BY <4>2 DEF Preferences
        <5> HIDE DEF other
        <5>2. DOMAIN Preferences(r) = 1 .. 2
          BY <5>1
        <5> QED
          BY <5>2
      <4>3. CASE r = "previous_chat"
        <5>1. DOMAIN Preferences(r) = 1 .. 2
          BY <4>3 DEF Preferences
        <5> QED
          BY <5>1
      <4>4. CASE r \in {"document", "current_chat", "durable"}
        <5>1. DOMAIN Preferences(r) = 1 .. 1
          BY <4>4 DEF Preferences
        <5> QED
          BY <5>1
      <4> QED
        BY <4>1, <4>2, <4>3, <4>4
    <3> QED
      BY <1>4, <3>1
  <2>2. m \in ns
    BY <2>1
  <2> QED
    BY <1>1, <1>4, <2>2
<1> QED
  BY <1>2, <1>3, <1>5 DEF BestRequired

\* what the next requirement meets is what those before it have selected
LEMMA BeforeIsPicked ==
  ASSUME EvidenceInv, phase = "require", ~replaced, NEW r \in Requirements, Foremost(r)
  PROVE  /\ r \in Asked /\ choice[r] = 0 /\ Earlier(r) = Asked \ required
         /\ picked = Chosen(choice) /\ picked \subseteq mustKeep
         /\ ChosenBefore(choice, r) = picked
<1>1. /\ required \subseteq Asked /\ Asked \subseteq Requirements
      /\ r \in required /\ \A s \in required : Position[r] <= Position[s]
      /\ \A s \in Requirements : s \in required \/ s \notin Asked => choice[s] = 0
      /\ \A s \in Asked \ required, t \in required : Position[s] < Position[t]
      /\ picked = Chosen(choice) /\ Chosen(choice) \subseteq picked \cap mustKeep
  BY DEF EvidenceInv, BudgetInv, SelectionShapes, ChoiceIsKept, Foremost, Asked
<1>2. Earlier(r) = Asked \ required
  BY <1>1, Requirement DEF Earlier
<1>3. ChosenBefore(choice, r) = Chosen(choice)
  BY <1>1, <1>2 DEF ChosenBefore, Chosen
<1> QED
  BY <1>1, <1>2, <1>3

(* The requirement r is looked at: the choice is one that Decided allows.  *)
LEMMA ChoiceRequire ==
  ASSUME EvidenceInv, NEW r \in Requirements,
         AlreadyServed(r) \/ NothingServes(r) \/ \E i \in DOMAIN ranked : Require(r, i)
  PROVE  /\ ChoiceIsKept' /\ (~replaced' => ~replaced)
         /\ Foremost(r) /\ UNCHANGED <<planned, phase, remaining>>
         /\ phase = "require" /\ required' = required \ {r}
         /\ \A s \in Requirements \ {r} : choice'[s] = choice[s]
<1>1. /\ UNCHANGED <<planned, phase, remaining>> /\ phase = "require"
      /\ required' = required \ {r} /\ Foremost(r)
      /\ ~replaced' => ~replaced
  <2>1. CASE AlreadyServed(r)
    BY <2>1 DEF AlreadyServed, Keep
  <2>2. CASE NothingServes(r)
    BY <2>2 DEF NothingServes, Keep
  <2>3. CASE \E i \in DOMAIN ranked : Require(r, i)
    <3>1. PICK i \in DOMAIN ranked : Require(r, i)
      BY <2>3
    <3>2. UNCHANGED replaced \/ replaced' = (replaced \/ Parents(i, picked) \cap mustKeep # {})
      BY <3>1, Zenon DEF Require, Choose, Pick
    <3>3. ~replaced' => ~replaced
      BY <3>2, Zenon
    <3> QED
      BY <3>1, <3>3 DEF Require
  <2> QED
    BY <2>1, <2>2, <2>3
<1>2. /\ UNCHANGED <<inputs, pass, floor, budget>> /\ Asked' = Asked
  BY <1>1, SameInputs DEF planned
<1>3. /\ ranked \in Rankings /\ required \subseteq Asked /\ Asked \subseteq Requirements
      /\ choice \in [Requirements -> DOMAIN ranked \cup {0}] /\ ChoiceIsKept
  BY DEF EvidenceInv, BudgetInv, SelectionShapes, Asked
<1>4. \A s \in Asked \ required', t \in required' : Position[s] < Position[t]
  BY <1>1, <1>3, Requirement DEF ChoiceIsKept, Foremost
<1>5. CASE UNCHANGED <<picked, choice>> /\ mustKeep \subseteq mustKeep'
  <2>1. \A s \in Requirements : s \in required' \/ s \notin Asked => choice'[s] = 0
    BY <1>1, <1>3, <1>5 DEF ChoiceIsKept
  <2>2. ASSUME ~replaced', pass' = "preflight", NEW s \in Asked \ required'
        PROVE  Decided(choice, s)
    <3>1. CASE s \in Asked \ required
      BY <1>1, <1>2, <1>3, <2>2, <3>1 DEF ChoiceIsKept
    <3>2. CASE s = r
      <4>1. ~replaced /\ choice[r] = 0 /\ ChosenBefore(choice, r) = picked
        BY <1>1, <2>2, BeforeIsPicked
      <4>2. (\E i \in picked : Serves(r, i))
              \/ ~\E i \in DOMAIN ranked : BestRequired(r, picked, i)
        <5>1. CASE AlreadyServed(r)
          BY <5>1 DEF AlreadyServed, ServedBy
        <5>2. CASE NothingServes(r)
          BY <5>2 DEF NothingServes
        <5>3. CASE \E i \in DOMAIN ranked : Require(r, i)
          <6>1. PICK i \in DOMAIN ranked : Require(r, i)
            BY <5>3
          <6>2. Choose(r, i)
            BY <1>2, <2>2, <6>1 DEF Require, Fits
          <6>3. choice'[r] = i /\ i # 0
            BY <1>3, <6>2, FiniteRanks DEF Choose
          <6> QED
            BY <1>5, <4>1, <6>3
        <5> QED
          BY <5>1, <5>2, <5>3
      <4> QED
        BY <3>2, <4>1, <4>2 DEF Decided
    <3> QED
      BY <1>1, <2>2, <3>1, <3>2
  <2>3. \A s : Decided(choice, s)' <=> Decided(choice, s)
    <3> DEFINE c == choice
    <3>1. \A s : Decided(choice, s)' <=> Decided(c, s)
      BY <1>2, <1>5, SameDecisions DEF Decided, ChosenBefore, Earlier
    <3> QED
      BY <3>1
  <2>4. Chosen(choice)' = Chosen(choice)
    BY <1>5 DEF Chosen
  <2>5. ASSUME ~replaced'
        PROVE  /\ phase' = "require" => picked' = Chosen(choice)'
               /\ phase' \in {"require", "optional"} =>
                    Chosen(choice)' \subseteq (picked \cap mustKeep)'
    BY <1>1, <1>3, <1>5, <2>4, <2>5 DEF ChoiceIsKept
  <2>6. ASSUME ~replaced', pass' = "preflight"
        PROVE  \A s \in Asked \ required' : Decided(choice, s)'
    BY <2>2, <2>3, <2>6
  <2>7. ChoiceIsKept'
    <3>1. Asked' = Asked
      BY <1>2
    <3>2. /\ \A s \in Requirements : s \in required' \/ s \notin Asked' => choice'[s] = 0
          /\ \A s \in Asked' \ required', t \in required' : Position[s] < Position[t]
      BY <1>4, <2>1, <3>1
    <3>3. ASSUME ~replaced', pass' = "preflight"
          PROVE  \A s \in Asked' \ required' : Decided(choice, s)'
      BY <2>6, <3>1, <3>3, Zenon
    <3>4. ASSUME ~replaced'
          PROVE  /\ phase' = "require" => picked' = Chosen(choice)'
                 /\ phase' \in {"require", "optional"} =>
                      Chosen(choice)' \subseteq (picked \cap mustKeep)'
                 /\ pass' = "preflight" =>
                      \A s \in Asked' \ required' : Decided(choice, s)'
      <4> QED
        BY <2>5, <3>3, <3>4
    <3> QED
      BY <3>2, <3>4 DEF ChoiceIsKept
  <2> QED
    BY <1>1, <1>5, <2>7
<1>6. CASE ~(UNCHANGED <<picked, choice>> /\ mustKeep \subseteq mustKeep')
  <2>1. PICK i \in DOMAIN ranked : /\ ~Served(r) /\ BestRequired(r, picked, i)
                                   /\ Choose(r, i)
    BY <1>6 DEF AlreadyServed, NothingServes, Require, Keep
  <2>2. /\ choice' = [choice EXCEPT ![r] = i] /\ mustKeep' = mustKeep \cup {i}
        /\ picked' = (picked \ Parents(i, picked)) \cup {i}
        /\ replaced' = (replaced \/ Parents(i, picked) \cap mustKeep # {})
    BY <2>1 DEF Choose, Pick
  <2>3. /\ choice'[r] = i /\ i # 0 /\ r \in Asked /\ r \in required
        /\ \A s \in Requirements \ {r} : choice'[s] = choice[s]
    BY <1>1, <1>3, <2>2, FiniteRanks DEF Foremost
  <2>4. \A s \in Requirements : s \in required' \/ s \notin Asked => choice'[s] = 0
    BY <1>1, <1>3, <2>3 DEF ChoiceIsKept
  <2>5. ASSUME ~replaced'
        PROVE  /\ picked' = picked \cup {i} /\ Chosen(choice)' = picked \cup {i}
               /\ picked \cup {i} \subseteq mustKeep' /\ choice[r] = 0
               /\ picked = Chosen(choice) /\ ChosenBefore(choice, r) = picked
    <3>1. /\ ~replaced /\ picked = Chosen(choice) /\ picked \subseteq mustKeep
          /\ choice[r] = 0 /\ ChosenBefore(choice, r) = picked
      BY <1>1, <2>5, BeforeIsPicked
    <3>2. Parents(i, picked) = {}
      BY <2>2, <2>5, <3>1 DEF Parents
    <3>3. Chosen(choice)' = Chosen(choice) \cup {i}
      BY <2>3, <3>1 DEF Chosen
    <3> QED
      BY <2>2, <3>1, <3>2, <3>3
  <2>6. ASSUME ~replaced', pass' = "preflight", NEW s \in Asked \ required'
        PROVE  Decided(choice, s)'
    <3>1. /\ \A t \in Earlier(s) : t \in Requirements /\ Position[t] < Position[s]
          /\ (Earlier(s))' = Earlier(s)
      BY <1>2, <1>3 DEF Earlier
    <3>2. s = r \/ Position[s] < Position[r]
      BY <1>1, <1>3, <2>3, <2>6 DEF ChoiceIsKept
    <3>3. r \notin Earlier(s)
      BY <1>3, <2>3, <2>6, <3>1, <3>2, Requirement
    <3>4. ChosenBefore(choice, s)' = ChosenBefore(choice, s)
      BY <2>3, <3>1, <3>3 DEF ChosenBefore
    <3>5. /\ \A j : Serves(s, j)' <=> Serves(s, j)
          /\ \A S, j : BestRequired(s, S, j)' <=> BestRequired(s, S, j)
          /\ DOMAIN ranked' = DOMAIN ranked
      BY <1>2 DEF inputs, Serves, BestRequired, Matches, Preferences
    <3>6. CASE s = r
      <4>1. ~(\E j \in picked : Serves(r, j)) /\ BestRequired(r, picked, i)
        BY <2>1 DEF Served
      <4> QED
        BY <2>3, <2>5, <2>6, <3>4, <3>5, <3>6, <4>1 DEF Decided
    <3>7. CASE s # r
      <4>1. s \in Asked \ required /\ choice'[s] = choice[s]
        BY <1>1, <1>3, <2>3, <2>6, <3>7
      <4>2. Decided(choice, s)
        BY <1>1, <1>2, <1>3, <2>6, <4>1 DEF ChoiceIsKept
      <4> QED
        BY <3>4, <3>5, <4>1, <4>2 DEF Decided
    <3> QED
      BY <3>6, <3>7
  <2>7. ChoiceIsKept'
    BY <1>2, <1>4, <2>4, <2>5, <2>6 DEF ChoiceIsKept
  <2> QED
    BY <1>1, <2>3, <2>7
<1> QED
  BY <1>5, <1>6

(* The second pass decides as the first one did, and what it selects fits. *)
LEMMA FloorRequire ==
  ASSUME EvidenceInv, NEW r \in Requirements,
         AlreadyServed(r) \/ NothingServes(r) \/ \E i \in DOMAIN ranked : Require(r, i)
  PROVE  FloorIsChosen'
<1>1. /\ UNCHANGED <<planned, phase, remaining>> /\ phase = "require"
      /\ required' = required \ {r} /\ Foremost(r)
      /\ ~replaced' => ~replaced
      /\ \A s \in Requirements \ {r} : choice'[s] = choice[s]
  BY ChoiceRequire
<1>2. /\ UNCHANGED <<inputs, pass, floor, budget>> /\ Asked' = Asked
      /\ UNCHANGED <<ranked, plan, room>>
  BY <1>1, SameInputs DEF planned
<1>3. /\ ranked \in Rankings /\ required \subseteq Asked /\ Asked \subseteq Requirements
      /\ plan \in Routes /\ room \in Int /\ floor \in Nat
      /\ picked \in SUBSET DOMAIN ranked /\ used = Cost(picked)
      /\ choice \in [Requirements -> DOMAIN ranked \cup {0}] /\ FloorIsChosen
  BY DEF EvidenceInv, BudgetInv, SelectionShapes, BudgetIsKept, Asked
<1>4. pass' = "final" => budget' = Working(plan', AtLeast0(room'), floor')
  BY <1>2, <1>3 DEF FloorIsChosen
<1>5. ASSUME Granted'
      PROVE  /\ \E c \in [Requirements -> DOMAIN ranked' \cup {0}] : FloorChoice(c)'
             /\ \A s \in missing' : s = "hard_input_budget" \/ Hopeless(s)'
  <2>1. Granted /\ ~replaced /\ pass = "final"
    BY <1>1, <1>2, <1>5 DEF Granted
  <2>2. PICK c \in [Requirements -> DOMAIN ranked \cup {0}] : FloorChoice(c)
    BY <1>3, <2>1 DEF FloorIsChosen
  <2>3. /\ r \in Asked /\ choice[r] = 0 /\ Earlier(r) = Asked \ required
        /\ ChosenBefore(choice, r) = picked
    BY <1>1, <2>1, BeforeIsPicked
  <2>4. ChosenBefore(c, r) = picked
    BY <1>1, <2>2, <2>3 DEF ChosenBefore, FloorChoice
  <2>5. Decided(c, r)
    BY <1>3, <2>2, <2>3 DEF FloorChoice
  <2>6. picked \subseteq Chosen(c)
    BY <1>3, <2>4 DEF ChosenBefore, Chosen, Earlier
  <2>7. \A i \in DOMAIN ranked : Require(r, i) => choice' = [choice EXCEPT ![r] = i] /\ c[r] = i
                                             /\ UNCHANGED missing
    <3> SUFFICES ASSUME NEW i \in DOMAIN ranked, Require(r, i)
                 PROVE  /\ choice' = [choice EXCEPT ![r] = i] /\ c[r] = i
                        /\ UNCHANGED missing
      OBVIOUS
    <3>1. ~(\E j \in picked : Serves(r, j)) /\ BestRequired(r, picked, i)
      BY DEF Require, Served
    <3>2. BestRequired(r, picked, c[r]) /\ c[r] # 0
      BY <2>4, <2>5, <3>1 DEF Decided
    <3>3. c[r] = i /\ i \notin picked
      BY <1>3, <3>1, <3>2, BestIsUnique
    <3>4. used + ranked[i].tokens <= budget
      <4>1. Chosen(c) \in SUBSET DOMAIN ranked /\ picked \cup {i} \in SUBSET Chosen(c)
        BY <2>2, <2>6, <3>2, <3>3 DEF Chosen
      <4>2. /\ Cost(picked \cup {i}) <= Cost(Chosen(c))
            /\ Cost(picked \cup {i}) \in Nat /\ Cost(Chosen(c)) \in Nat
        BY <1>3, <4>1, CostMinus
      <4>3. Cost(picked \cup {i}) = Cost(picked) + Cost({i}) /\ Cost({i}) = ranked[i].tokens
        BY <1>3, <3>3, CostUnion, CostOne
      <4>4. Cost(Chosen(c)) <= floor
        BY <2>2 DEF FloorChoice
      <4>5. floor <= budget
        <5>1. room >= 0 /\ floor <= SafeAvailable(plan, room)
          BY <2>1 DEF Granted
        <5>2. AtLeast0(room) = room /\ room \in Nat
          BY <1>3, <5>1 DEF AtLeast0
        <5>3. floor <= Working(plan, room, floor)
          BY <1>3, <5>1, <5>2, FloorIsGranted, RoutesAssumption
        <5> QED
          BY <1>3, <2>1, <5>2, <5>3 DEF FloorIsChosen
      <4>6. budget \in Nat /\ ranked[i].tokens \in Nat /\ Cost(picked) \in Nat
        BY <1>3, FiniteRanks, FiniteTokens DEF EvidenceInv, BudgetInv, SelectionShapes
      <4> HIDE DEF Cost
      <4> QED
        BY <1>3, <4>2, <4>3, <4>4, <4>5, <4>6
    <3>5. Choose(r, i)
      BY <3>4 DEF Require, Fits
    <3> QED
      BY <3>3, <3>5 DEF Choose
  <2>8. choice'[r] = c[r]
    <3>1. CASE \E i \in DOMAIN ranked : Require(r, i)
      BY <1>3, <2>7, <3>1
    <3>2. CASE AlreadyServed(r)
      <4>1. (\E j \in picked : Serves(r, j)) /\ choice' = choice
        BY <3>2 DEF AlreadyServed, ServedBy, Keep
      <4> QED
        BY <2>3, <2>4, <2>5, <4>1 DEF Decided
    <3>3. CASE NothingServes(r)
      <4>1. ~(\E j \in DOMAIN ranked : BestRequired(r, picked, j)) /\ choice' = choice
        BY <3>3 DEF NothingServes, Keep
      <4>2. c[r] \in DOMAIN ranked \cup {0}
        BY <2>2
      <4> QED
        BY <2>3, <2>4, <2>5, <4>1, <4>2 DEF Decided
    <3> QED
      BY <3>1, <3>2, <3>3
  <2>9. FloorChoice(c)'
    <3>1. \A s : Decided(c, s)' <=> Decided(c, s)
      BY <1>2, SameDecisions
    <3>2. Cost(Chosen(c))' = Cost(Chosen(c))
      BY <1>2, SameDecisions
    <3>3. \A s \in Asked \ required' : choice'[s] = c[s]
      BY <1>1, <1>3, <2>2, <2>8 DEF FloorChoice
    <3> QED
      BY <1>2, <2>2, <3>1, <3>2, <3>3 DEF FloorChoice
  <2>10. \A s \in missing' : s = "hard_input_budget" \/ Hopeless(s)
    <3>1. \A s \in missing : s = "hard_input_budget" \/ Hopeless(s)
      BY <1>3, <2>1 DEF FloorIsChosen
    <3>2. CASE missing' = missing
      BY <3>1, <3>2
    <3>3. CASE NothingServes(r)
      <4>1. /\ ~(\E j \in picked : Serves(r, j)) /\ missing' = missing \cup {r}
            /\ ~\E j \in DOMAIN ranked : BestRequired(r, picked, j)
        BY <3>3 DEF NothingServes, Served
      <4>2. Hopeless(r)
        BY <1>3, <4>1, SomethingIsBest DEF Hopeless
      <4> QED
        BY <3>1, <4>1, <4>2
    <3> QED
      BY <2>7, <3>2, <3>3 DEF AlreadyServed
  <2> QED
    BY <1>2, <2>2, <2>9, <2>10, SameDecisions
<1> QED
  BY <1>4, <1>5 DEF FloorIsChosen

\* after the requirements, the choice is kept: steps that leave it alone
LEMMA EvidenceRest ==
  ASSUME EvidenceInv, UNCHANGED <<planned, required, choice>>,
         phase' # "require", ~replaced' => ~replaced,
         ~replaced' /\ phase' = "optional" =>
           Chosen(choice) \subseteq picked' \cap mustKeep',
         missing' \subseteq missing \cup {"hard_input_budget"}
  PROVE  ChoiceIsKept' /\ FloorIsChosen'
<1>1. /\ UNCHANGED <<inputs, pass, floor, budget>> /\ Asked' = Asked
      /\ UNCHANGED <<ranked, plan, room>>
  BY SameInputs DEF planned
<1>2. ChoiceIsKept /\ FloorIsChosen
  BY DEF EvidenceInv
<1>3. \A s : Decided(choice, s)' <=> Decided(choice, s)
  <2> DEFINE c == choice
  <2>1. \A s : Decided(choice, s)' <=> Decided(c, s)
    BY <1>1, SameDecisions DEF Decided, ChosenBefore, Earlier
  <2> QED
    BY <2>1
<1>4. Chosen(choice)' = Chosen(choice)
  BY DEF Chosen
<1>5. ChoiceIsKept'
  <2>1. ASSUME ~replaced'
        PROVE  /\ phase' = "require" => picked' = Chosen(choice)'
               /\ phase' \in {"require", "optional"} =>
                    Chosen(choice)' \subseteq (picked \cap mustKeep)'
    BY <1>4, <2>1
  <2>2. ASSUME ~replaced', pass' = "preflight"
        PROVE  \A s \in Asked \ required : Decided(choice, s)'
    BY <1>1, <1>2, <1>3, <2>2 DEF ChoiceIsKept
  <2>3. /\ \A s \in Requirements : s \in required \/ s \notin Asked => choice[s] = 0
        /\ \A s \in Asked \ required, r \in required : Position[s] < Position[r]
    BY <1>2 DEF ChoiceIsKept
  <2> QED
    BY <1>1, <2>1, <2>2, <2>3 DEF ChoiceIsKept
<1>6. FloorIsChosen'
  <2>1. pass' = "final" => budget' = Working(plan', AtLeast0(room'), floor')
    BY <1>1, <1>2 DEF FloorIsChosen
  <2>2. ASSUME Granted'
        PROVE  /\ \E c \in [Requirements -> DOMAIN ranked' \cup {0}] : FloorChoice(c)'
               /\ \A s \in missing' : s = "hard_input_budget" \/ Hopeless(s)'
    <3>1. Granted
      BY <1>1, <2>2 DEF Granted
    <3>2. PICK c \in [Requirements -> DOMAIN ranked \cup {0}] : FloorChoice(c)
      BY <1>2, <3>1 DEF FloorIsChosen
    <3>3. (\A s : Decided(c, s)' <=> Decided(c, s)) /\ Cost(Chosen(c))' = Cost(Chosen(c))
      BY <1>1, SameDecisions
    <3>4. FloorChoice(c)'
      BY <1>1, <3>2, <3>3 DEF FloorChoice
    <3>5. \A s \in missing' : s = "hard_input_budget" \/ Hopeless(s)'
      BY <1>1, <1>2, <3>1, SameDecisions DEF FloorIsChosen
    <3> QED
      BY <1>1, <3>2, <3>4, <3>5
  <2> QED
    BY <2>1, <2>2 DEF FloorIsChosen
<1> QED
  BY <1>5, <1>6

(* The preflight hands over its choice: it is in the floor.                *)
LEMMA EvidenceGranted ==
  ASSUME EvidenceInv, GrantBudget
  PROVE  ChoiceIsKept' /\ FloorIsChosen'
<1>1. /\ UNCHANGED inputs /\ pass' = "final" /\ pass = "preflight" /\ UNCHANGED replaced
      /\ phase = "optional" /\ phase' = "require" /\ required' = Asked
      /\ picked' = {} /\ choice' = NoChoice /\ missing' = {} /\ mustKeep' = {}
      /\ floor' = Formatted(Floor) /\ budget' = Working(plan, AtLeast0(room), floor')
  BY DEF GrantBudget
<1>2. Asked' = Asked /\ UNCHANGED <<ranked, plan, room>>
  BY <1>1, SameInputs
<1>3. /\ ranked \in Rankings /\ required = {} /\ Asked \subseteq Requirements
      /\ choice \in [Requirements -> DOMAIN ranked \cup {0}] /\ ChoiceIsKept
      /\ picked \in SUBSET DOMAIN ranked
  BY <1>1 DEF EvidenceInv, BudgetInv, SelectionShapes, Phases, Asked
<1>4. ChoiceIsKept'
  <2>1. Chosen(choice)' = {}
    BY <1>1 DEF Chosen, NoChoice
  <2>2. \A s \in Requirements : choice'[s] = 0
    BY <1>1 DEF NoChoice
  <2> QED
    BY <1>1, <1>2, <2>1, <2>2 DEF ChoiceIsKept
<1>5. ASSUME Granted'
      PROVE  \E c \in [Requirements -> DOMAIN ranked' \cup {0}] : FloorChoice(c)'
  <2>1. ~replaced
    BY <1>1, <1>5 DEF Granted
  <2>2. PICK c : c = choice
    OBVIOUS
  <2>3. /\ \A s \in Asked : Decided(c, s)
        /\ \A s \in Requirements : s \notin Asked => c[s] = 0
        /\ Chosen(c) \subseteq picked \cap mustKeep
    BY <1>1, <1>3, <2>1, <2>2 DEF ChoiceIsKept
  <2>4. Cost(Chosen(c)) <= floor'
    <3>1. Floor \in SUBSET DOMAIN ranked /\ Chosen(c) \in SUBSET Floor
      BY <1>3, <2>3 DEF Floor
    <3>2. /\ Cost(Chosen(c)) <= Cost(Floor) /\ Cost(Chosen(c)) \in Nat
          /\ Cost(Floor) \in Nat
      BY <1>3, <3>1, CostMinus
    <3>3. Cost(Floor) <= Formatted(Floor) /\ Formatted(Floor) \in Nat
      BY <1>3, <3>1, FormattedAbove
    <3> QED
      BY <1>1, <3>2, <3>3
  <2>5. (\A s : Decided(c, s)' <=> Decided(c, s)) /\ Cost(Chosen(c))' = Cost(Chosen(c))
    BY <1>1, SameDecisions
  <2>6. FloorChoice(c)'
    BY <1>1, <1>2, <1>3, <2>2, <2>3, <2>4, <2>5 DEF FloorChoice
  <2> QED
    BY <1>2, <1>3, <2>2, <2>6
<1>6. FloorIsChosen'
  BY <1>1, <1>2, <1>5 DEF FloorIsChosen
<1> QED
  BY <1>4, <1>6

LEMMA EvidenceInit == SelectionInit => EvidenceInv
<1> SUFFICES ASSUME SelectionInit
             PROVE  EvidenceInv
  OBVIOUS
<1>1. Chosen(choice) = {}
  BY DEF SelectionInit, NoChoice, Chosen
<1>2. ChoiceIsKept
  BY <1>1 DEF SelectionInit, ChoiceIsKept, NoChoice
<1>3. FloorIsChosen
  BY DEF SelectionInit, FloorIsChosen, Granted
<1> QED
  BY <1>2, <1>3, BudgetInit DEF EvidenceInv, SelectionInit

LEMMA EvidenceStep == EvidenceInv /\ [SelectionNext]_selectionVars => EvidenceInv'
<1> SUFFICES ASSUME EvidenceInv, [SelectionNext]_selectionVars
             PROVE  EvidenceInv'
  OBVIOUS
<1>1. BudgetInv' /\ BudgetInv
  BY BudgetStep DEF EvidenceInv
<1>2. rawFirst' \in RawSources
  BY DEF SelectionNext, selectionVars, planned, inputs, AlreadyServed, NothingServes,
         Require, TakeRecent, PickOptional, SkipOptional, StopOptional, RemoveOptional,
         RemoveRequired, GiveUp, GrantBudget, Build, PacketReady, EvidenceInv
<1> SUFFICES ChoiceIsKept' /\ FloorIsChosen'
  BY <1>1, <1>2 DEF EvidenceInv
<1>3. CASE \E r \in Requirements :
             AlreadyServed(r) \/ NothingServes(r) \/ \E i \in DOMAIN ranked : Require(r, i)
  BY <1>3, ChoiceRequire, FloorRequire
<1>4. phase = "optional" /\ ~replaced => Chosen(choice) \subseteq picked \cap mustKeep
  BY DEF EvidenceInv, ChoiceIsKept
<1>5. CASE TakeRecent
  <2>1. phase = "require" /\ ~replaced => Chosen(choice) \subseteq picked \cap mustKeep
    BY DEF EvidenceInv, ChoiceIsKept
  <2>2. /\ UNCHANGED <<planned, required, choice, missing, mustKeep, replaced>>
        /\ phase = "require" /\ phase' = "optional" /\ picked \subseteq picked'
    BY <1>5 DEF TakeRecent
  <2> QED
    BY <2>1, <2>2, EvidenceRest
<1>6. CASE \E i \in DOMAIN ranked : PickOptional(i)
  <2>1. PICK i \in DOMAIN ranked : PickOptional(i)
    BY <1>6
  <2>2. PICK gists : Pick(i, gists)
    BY <2>1 DEF PickOptional
  <2>3. /\ UNCHANGED <<planned, phase, required, choice, missing, mustKeep>>
        /\ phase = "optional"
    BY <2>1 DEF PickOptional
  <2>4. ~replaced' => ~replaced /\ Parents(i, picked) \cap mustKeep = {}
    BY <2>2, Zenon DEF Pick
  <2>5. picked \ Parents(i, picked) \subseteq picked'
    BY <2>2 DEF Pick
  <2> QED
    BY <1>4, <2>3, <2>4, <2>5, EvidenceRest
<1>7. CASE \/ Build \/ PacketReady
           \/ \E i \in DOMAIN ranked : SkipOptional(i) \/ StopOptional(i)
                                       \/ RemoveOptional(i) \/ RemoveRequired(i)
  <2>1. /\ UNCHANGED <<planned, required, choice, mustKeep, replaced>>
        /\ phase' \in {"optional", "build", "done"}
        /\ phase' = "optional" => phase = "optional" /\ UNCHANGED picked
        /\ missing' \subseteq missing \cup {"hard_input_budget"}
    BY <1>7 DEF Build, PacketReady, SkipOptional, StopOptional, RemoveOptional,
                RemoveRequired, GiveUp, Keep
  <2> QED
    BY <1>4, <2>1, EvidenceRest
<1>8. CASE GrantBudget
  BY <1>8, EvidenceGranted
<1>9. CASE UNCHANGED selectionVars
  <2>1. UNCHANGED <<inputs, pass, floor, budget, phase, required, picked, choice,
                    missing, mustKeep, replaced>>
    BY <1>9 DEF selectionVars, planned
  <2>2. UNCHANGED <<ranked, plan, rawFirst, room>>
    BY <2>1 DEF inputs
  <2>3. ChoiceIsKept /\ FloorIsChosen
    BY DEF EvidenceInv
  <2>4. ChoiceIsKept'
    <3> DEFINE c == choice
    <3>1. Asked' = Asked /\ Chosen(choice)' = Chosen(choice)
      BY <2>1, <2>2 DEF Asked, Chosen
    <3>2. \A s : Decided(choice, s)' <=> Decided(c, s)
      BY <2>1, <2>2, SameDecisions DEF Decided, ChosenBefore, Earlier
    <3>3. \A s : Decided(choice, s)' <=> Decided(choice, s)
      BY <3>2
    <3> QED
      BY <2>1, <2>2, <2>3, <3>1, <3>3 DEF ChoiceIsKept
  <2>5. Granted' <=> Granted
    BY <2>1, <2>2 DEF Granted
  <2>6. \A c : FloorChoice(c)' <=> FloorChoice(c)
    <3>1. Asked' = Asked
      BY <2>2 DEF Asked
    <3> QED
      BY <2>1, <2>2, <3>1, SameDecisions DEF FloorChoice
  <2>7. FloorIsChosen'
    BY <2>1, <2>2, <2>3, <2>5, <2>6, SameDecisions DEF FloorIsChosen
  <2> QED
    BY <2>4, <2>7
<1> QED
  BY <1>3, <1>5, <1>6, <1>7, <1>8, <1>9 DEF SelectionNext

(* When the required evidence of the preflight fits what the planner may   *)
(* grant, the second pass selects all of it again, and a requirement that  *)
(* is missing at the end had no relevant candidate in the list: no budget, *)
(* fold or recent message pushes required evidence out (unless a required  *)
(* gist was folded into a span, which the floor does not count).           *)
THEOREM RequiredEvidenceIsKept == SelectionSpec => []RequiredEvidenceFits
<1>1. EvidenceInv => RequiredEvidenceFits
  <2> SUFFICES ASSUME EvidenceInv, phase = "done", ~replaced,
                      room >= 0, floor <= SafeAvailable(plan, room),
                      NEW r \in missing, NEW i \in DOMAIN ranked
               PROVE  ~(r # "hard_input_budget" /\ Serves(r, i) /\ ranked[i].relevant
                        /\ i \in Deduplicated(ranked))
    BY DEF RequiredEvidenceFits
  <2>1. pass = "final" /\ FloorIsChosen
    BY DEF EvidenceInv, BudgetInv, Phases
  <2>2. r = "hard_input_budget" \/ Hopeless(r)
    BY <2>1 DEF FloorIsChosen, Granted
  <2> QED
    BY <2>2 DEF Hopeless
<1> QED
  BY <1>1, EvidenceInit, EvidenceStep, PTL DEF SelectionSpec

-----------------------------------------------------------------------------
(***************************************************************************)
(* The rankings, for every list, score and answer.  A list sorted by how   *)
(* many stand above each member names every member once, because of two    *)
(* members one stands above the other: the places are taken injectively,   *)
(* and so all of them.                                                     *)
(***************************************************************************)

Ranks(ranking, places) ==
  /\ ranking \in Seq(places) /\ Named(ranking) = places
  /\ \A m, n \in DOMAIN ranking : ranking[m] = ranking[n] => m = n

RankInv ==
  /\ RerankTypeOK /\ list \in Seq(Hits)
  /\ stage # "deterministic" => Ranks(order, Places)

LEMMA SortedRanks ==
  ASSUME NEW P \in SUBSET Nat, IsFiniteSet(P), NEW value, \A i \in P : value[i] \in Int
  PROVE  Ranks(Sorted(P, value), P)
<1> DEFINE n == Cardinality(P)
           Higher(i) == {j \in P : Above(j, i, value)}
           standing == [i \in P |-> Standing(i, P, value)]
<1>0. n \in Nat
  BY FS_CardinalityType
<1>1. \A i \in P : IsFiniteSet(Higher(i)) /\ Standing(i, P, value) = Cardinality(Higher(i))
  BY FS_Subset DEF Standing
<1>2. ASSUME NEW i \in P, NEW j \in P, Above(i, j, value)
      PROVE  Standing(i, P, value) < Standing(j, P, value)
  <2>1. Higher(i) \subseteq Higher(j)
    <3> SUFFICES ASSUME NEW k \in P, Above(k, i, value) PROVE Above(k, j, value)
      OBVIOUS
    <3>1. k \in Nat /\ i \in Nat /\ j \in Nat
      OBVIOUS
    <3>2. value[k] \in Int /\ value[i] \in Int /\ value[j] \in Int
      OBVIOUS
    <3> QED BY <1>2, <3>1, <3>2 DEF Above
  <2>2. i \in Higher(j) /\ i \notin Higher(i)
    BY <1>2 DEF Above
  <2> HIDE DEF Higher
  <2>3. /\ Cardinality(Higher(i)) \in Nat /\ Cardinality(Higher(j)) \in Nat
        /\ Cardinality(Higher(i)) <= Cardinality(Higher(j))
        /\ Cardinality(Higher(i)) # Cardinality(Higher(j))
    BY <1>1, <2>1, <2>2, FS_Subset, FS_CardinalityType
  <2> QED BY <1>1, <2>3
<1>3. ASSUME NEW i \in P
      PROVE  standing[i] \in 0 .. n - 1
  <2>1. Higher(i) \subseteq P \ {i}
    BY DEF Above
  <2> HIDE DEF Higher
  <2>2. IsFiniteSet(P \ {i}) /\ Cardinality(P \ {i}) = n - 1
    BY FS_RemoveElement
  <2>3. Cardinality(Higher(i)) \in Nat /\ Cardinality(Higher(i)) <= n - 1
    BY <1>1, <2>1, <2>2, FS_Subset, FS_CardinalityType
  <2> HIDE DEF n
  <2> QED BY <1>0, <1>1, <2>3
<1>4. \A i, j \in P : standing[i] = standing[j] => i = j
  <2> SUFFICES ASSUME NEW i \in P, NEW j \in P, i # j PROVE standing[i] # standing[j]
    OBVIOUS
  <2>1. Above(i, j, value) \/ Above(j, i, value)
    BY DEF Above
  <2>2. standing[i] \in Int /\ standing[j] \in Int
    BY <1>3
  <2> QED BY <1>2, <2>1, <2>2
<1>5. standing \in Injection(P, 0 .. n - 1)
  <2> HIDE DEF n
  <2> QED BY <1>3, <1>4 DEF Injection, IsInjective
<1>6. ASSUME NEW r \in 0 .. n - 1
      PROVE  \E i \in P : standing[i] = r
  <2>1. 0 \in Int /\ n - 1 \in Int
    BY <1>0
  <2>2. IsFiniteSet(0 .. n - 1) /\ Cardinality(0 .. n - 1) = n
    <3> DEFINE last == n - 1
    <3>1. last \in Int /\ (0 > last => n = 0) /\ (~(0 > last) => last - 0 + 1 = n) /\ 0 \in Int
      BY <1>0
    <3> HIDE DEF last
    <3>2. IsFiniteSet(0 .. last) /\ Cardinality(0 .. last) = n
      BY <3>1, FS_Interval
    <3> QED BY <3>2 DEF last
  <2> DEFINE numbers == 0 .. n - 1
  <2>3. standing \in Injection(P, numbers) /\ IsFiniteSet(numbers) /\ Cardinality(numbers) = n
    BY <1>5, <2>2
  <2>4. r \in numbers
    OBVIOUS
  <2> HIDE DEF numbers, standing, n
  <2>5. standing \in Surjection(P, numbers)
    BY <2>3, FS_Injection DEF n
  <2> QED BY <2>4, <2>5 DEF Surjection
<1> DEFINE s == Sorted(P, value)
<1>7. s = [k \in 1 .. n |-> CHOOSE i \in P : Standing(i, P, value) = k - 1]
  BY DEF Sorted
<1>8. ASSUME NEW k \in 1 .. n
      PROVE  s[k] \in P /\ standing[s[k]] = k - 1
  <2>1. k - 1 \in 0 .. n - 1
    BY <1>0
  <2>2. \E i \in P : Standing(i, P, value) = k - 1
    BY <1>6, <2>1
  <2> HIDE DEF n
  <2> QED BY <1>7, <2>2
<1>9. ASSUME NEW i \in P
      PROVE  standing[i] + 1 \in 1 .. n /\ s[standing[i] + 1] = i
  <2>1. standing[i] + 1 \in 1 .. n /\ (standing[i] + 1) - 1 = standing[i]
    BY <1>0, <1>3
  <2> DEFINE k == standing[i] + 1
  <2>2. k \in 1 .. n /\ k - 1 = standing[i]
    BY <2>1
  <2> HIDE DEF k, standing, s, n
  <2>3. s[k] \in P /\ standing[s[k]] = standing[i]
    BY <1>8, <2>2
  <2>4. s[k] = i
    BY <1>4, <2>3
  <2> QED BY <2>2, <2>4 DEF k
<1>10. DOMAIN s = 1 .. n /\ s = [k \in 1 .. n |-> s[k]]
  BY <1>7
<1> HIDE DEF n, standing, s
<1>11. s \in Seq(P)
  BY <1>0, <1>8, <1>10
<1>12. Named(s) = P
  BY <1>8, <1>9, <1>10 DEF Named
<1>13. \A k, m \in DOMAIN s : s[k] = s[m] => k = m
  <2>1. \A k, m \in 1 .. n : k - 1 = m - 1 => k = m
    BY <1>0
  <2> QED BY <1>8, <1>10, <2>1
<1> QED BY <1>11, <1>12, <1>13 DEF Ranks, s

(* Rankings of different places one after the other.                       *)
LEMMA JoinedRanks ==
  ASSUME NEW P, NEW Q, P \cap Q = {}, NEW s, Ranks(s, P), NEW t, Ranks(t, Q)
  PROVE  Ranks(s \o t, P \cup Q)
<1>1. /\ s \in Seq(P) /\ t \in Seq(Q) /\ Len(s) \in Nat /\ Len(t) \in Nat
      /\ DOMAIN s = 1 .. Len(s) /\ DOMAIN t = 1 .. Len(t)
      /\ Named(s) = P /\ Named(t) = Q
  BY DEF Ranks
<1> DEFINE st == s \o t
<1>2. /\ st \in Seq(P \cup Q) /\ DOMAIN st = 1 .. Len(s) + Len(t)
      /\ \A n \in 1 .. Len(s) : st[n] = s[n]
      /\ \A n \in 1 .. Len(t) : st[Len(s) + n] = t[n]
  BY <1>1
<1> HIDE DEF st
<1>3. ASSUME NEW n \in DOMAIN st
      PROVE  \/ n \in DOMAIN s /\ st[n] = s[n] /\ st[n] \in P
             \/ n - Len(s) \in DOMAIN t /\ st[n] = t[n - Len(s)] /\ st[n] \in Q
  <2>1. CASE n <= Len(s)
    BY <1>1, <1>2, <2>1 DEF Named
  <2>2. CASE ~(n <= Len(s))
    <3>1. n - Len(s) \in 1 .. Len(t) /\ Len(s) + (n - Len(s)) = n
      BY <1>1, <1>2, <2>2
    <3>2. st[Len(s) + (n - Len(s))] = t[n - Len(s)]
      BY <1>2, <3>1
    <3> QED BY <1>1, <3>1, <3>2 DEF Named
  <2> QED BY <2>1, <2>2
<1>4. Named(st) = P \cup Q
  <2>1. ASSUME NEW p \in P PROVE p \in Named(st)
    <3>1. PICK n \in DOMAIN s : s[n] = p
      BY <1>1 DEF Named
    <3>2. n \in DOMAIN st /\ st[n] = p
      BY <1>1, <1>2, <3>1
    <3> QED BY <3>2 DEF Named
  <2>2. ASSUME NEW q \in Q PROVE q \in Named(st)
    <3>1. PICK n \in DOMAIN t : t[n] = q
      BY <1>1 DEF Named
    <3>2. Len(s) + n \in DOMAIN st /\ st[Len(s) + n] = q
      BY <1>1, <1>2, <3>1
    <3> QED BY <3>2 DEF Named
  <2> QED BY <1>3, <2>1, <2>2 DEF Named
<1>5. ASSUME NEW m \in DOMAIN st, NEW n \in DOMAIN st, st[m] = st[n]
      PROVE  m = n
  <2>0. m \in Nat /\ n \in Nat
    BY <1>1, <1>2
  <2>1. CASE st[m] \in P
    <3>1. m \in DOMAIN s /\ st[m] = s[m] /\ n \in DOMAIN s /\ st[n] = s[n]
      BY <1>3, <1>5, <2>1
    <3> QED BY <1>5, <3>1 DEF Ranks
  <2>2. CASE st[m] \notin P
    <3>1. /\ m - Len(s) \in DOMAIN t /\ st[m] = t[m - Len(s)]
          /\ n - Len(s) \in DOMAIN t /\ st[n] = t[n - Len(s)]
      BY <1>3, <1>5, <2>2
    <3>2. m - Len(s) = n - Len(s)
      BY <1>5, <3>1 DEF Ranks
    <3> QED BY <1>1, <2>0, <3>2
  <2> QED BY <2>1, <2>2
<1> QED BY <1>2, <1>4, <1>5 DEF Ranks, st

(* The pool of the best, and what is ranked behind it.                     *)
LEMMA PoolIsCut ==
  ASSUME Ranks(order, Places), NEW top \in Nat
  PROVE  /\ Pool(top) \subseteq Places /\ Ranks(Best(top), Pool(top))
         /\ Ranks(RestAfter(top), Places \ Pool(top))
<1> DEFINE n == Len(order)
           cut == IF top < n THEN top ELSE n
<1>1. /\ order \in Seq(Places) /\ n \in Nat /\ DOMAIN order = 1 .. n /\ Named(order) = Places
      /\ \A k, m \in 1 .. n : order[k] = order[m] => k = m
      /\ \A k \in 1 .. n : order[k] \in Places
  BY DEF Ranks
<1>2. cut \in 0 .. n /\ cut <= top /\ (cut < n => cut = top)
  <2> HIDE DEF n
  <2> QED BY <1>1
<1> DEFINE best == Best(top)
           rest == RestAfter(top)
<1>3. best = [k \in 1 .. cut |-> order[k]] /\ best \in Seq(Places)
  <2>1. best = SubSeq(order, 1, cut)
    BY DEF Best
  <2> HIDE DEF cut, n
  <2> QED BY <1>1, <1>2, <2>1
<1>4. rest = [k \in 1 .. n - cut |-> order[cut + k]]
  <2>1. rest = SubSeq(order, top + 1, n)
    BY DEF RestAfter
  <2> HIDE DEF cut, n
  <2> QED BY <1>1, <1>2, <2>1
<1> HIDE DEF best, rest, cut, n
<1>5. Pool(top) = {order[k] : k \in 1 .. cut}
  BY <1>3 DEF Pool, Named, best
<1>6. Ranks(best, Pool(top))
  <2>1. best \in Seq(Pool(top))
    BY <1>1, <1>2, <1>3, <1>5
  <2>2. Named(best) = Pool(top)
    BY DEF Pool, best
  <2> QED BY <1>1, <1>2, <1>3, <2>1, <2>2 DEF Ranks
<1>7. ASSUME NEW k \in 1 .. n - cut
      PROVE  cut + k \in 1 .. n /\ order[cut + k] \in Places \ Pool(top)
  <2>1. cut + k \in 1 .. n /\ \A m \in 1 .. cut : m \in 1 .. n /\ m # cut + k
    BY <1>1, <1>2
  <2> QED BY <1>1, <1>5, <2>1
<1>8. ASSUME NEW p \in Places \ Pool(top)
      PROVE  \E k \in 1 .. n - cut : order[cut + k] = p
  <2>1. PICK m \in 1 .. n : order[m] = p
    BY <1>1 DEF Named
  <2>2. m \notin 1 .. cut
    BY <1>5, <2>1
  <2>3. m - cut \in 1 .. n - cut /\ cut + (m - cut) = m
    BY <1>1, <1>2, <2>2
  <2> QED BY <2>1, <2>3
<1>9. Ranks(rest, Places \ Pool(top))
  <2>0. n - cut \in Nat
    BY <1>1, <1>2
  <2>1. rest \in Seq(Places \ Pool(top))
    BY <1>4, <1>7, <2>0
  <2>2. Named(rest) = Places \ Pool(top)
    BY <1>4, <1>7, <1>8 DEF Named
  <2>3. ASSUME NEW k \in 1 .. n - cut, NEW m \in 1 .. n - cut, rest[k] = rest[m]
        PROVE  k = m
    <3>1. cut + k = cut + m
      BY <1>1, <1>4, <1>7, <2>3
    <3> QED BY <1>1, <1>2, <3>1
  <2> QED BY <1>4, <2>1, <2>2, <2>3 DEF Ranks
<1>10. Pool(top) \subseteq Places
  BY <1>1, <1>2, <1>5
<1> QED BY <1>6, <1>9, <1>10 DEF best, rest

LEMMA PlacesAreFinite ==
  ASSUME RankInv
  PROVE  /\ Places \in SUBSET Nat /\ IsFiniteSet(Places) /\ Cardinality(Places) = Len(list)
         /\ Len(list) \in Nat /\ Places = 1 .. Len(list)
         /\ \A P \in SUBSET Places : P \in SUBSET Nat /\ IsFiniteSet(P)
<1> DEFINE n == Len(list)
<1>1. n \in Nat /\ Places = 1 .. n
  BY DEF RankInv, Places
<1> HIDE DEF n
<1>2. 1 \in Int /\ n \in Int /\ (1 > n => n = 0) /\ (~(1 > n) => n - 1 + 1 = n)
  BY <1>1
<1>3. IsFiniteSet(Places) /\ Cardinality(Places) = n
  BY <1>1, <1>2, FS_Interval
<1>4. Places \in SUBSET Nat
  BY <1>1
<1>5. \A P \in SUBSET Places : P \in SUBSET Nat /\ IsFiniteSet(P)
  BY <1>3, <1>4, FS_Subset
<1> QED BY <1>1, <1>3, <1>4, <1>5 DEF n

(* A ranking in three parts: two of the pool, and the rest.                *)
LEMMA PartsRank ==
  ASSUME Ranks(order, Places), NEW top \in Nat, NEW P, P \subseteq Pool(top),
         NEW s, Ranks(s, P), NEW t, Ranks(t, Pool(top) \ P)
  PROVE  Ranks(s \o t \o RestAfter(top), Places)
<1>1. Pool(top) \subseteq Places /\ Ranks(RestAfter(top), Places \ Pool(top))
  BY PoolIsCut
<1>2. Ranks(s \o t, P \cup (Pool(top) \ P))
  BY JoinedRanks
<1>3. P \cup (Pool(top) \ P) = Pool(top)
  OBVIOUS
<1>4. Ranks(s \o t, Pool(top))
  BY <1>2, <1>3
<1>5. Ranks((s \o t) \o RestAfter(top), Pool(top) \cup (Places \ Pool(top)))
  BY <1>1, <1>4, JoinedRanks
<1>6. Pool(top) \cup (Places \ Pool(top)) = Places
  BY <1>1
<1> QED BY <1>5, <1>6

LEMMA ScoresAreNumbers ==
  ASSUME NEW s \in Scores
  PROVE  s \in Int
BY DEF Scores

LEMMA EncodeRanks ==
  ASSUME RankInv, NEW value \in [Places -> Scores], Encode(value)
  PROVE  RankInv'
<1>1. /\ Ranks(order, Places) /\ score \in [Places -> Scores] /\ list \in Seq(Hits)
      /\ {encoderUsed, modelUsed, fallback} \subseteq BOOLEAN
  BY DEF RankInv, Encode, RerankTypeOK
<1>2. EncoderTop \in Nat /\ Encodable \subseteq Pool(EncoderTop) /\ Pool(EncoderTop) \subseteq Places
  BY <1>1, TopAssumption, PoolIsCut DEF Encodable
<1>3. /\ \A i \in Encodable : value[i] \in Int
      /\ \A i \in Pool(EncoderTop) \ Encodable : score[i] \in Int
  BY <1>1, <1>2, ScoresAreNumbers
<1>4. Encodable \in SUBSET Places /\ Pool(EncoderTop) \ Encodable \in SUBSET Places
  BY <1>2
<1>5. /\ Encodable \in SUBSET Nat /\ IsFiniteSet(Encodable)
      /\ Pool(EncoderTop) \ Encodable \in SUBSET Nat /\ IsFiniteSet(Pool(EncoderTop) \ Encodable)
  BY <1>4, PlacesAreFinite
<1>6. /\ Ranks(Sorted(Encodable, value), Encodable)
      /\ Ranks(Sorted(Pool(EncoderTop) \ Encodable, score), Pool(EncoderTop) \ Encodable)
  BY <1>3, <1>5, SortedRanks
<1>7. Ranks(order', Places) /\ Places' = Places
  BY <1>1, <1>2, <1>6, PartsRank DEF Encode, request, Places
<1>8. score' \in [Places -> Scores]
  BY <1>1 DEF Encode
<1>9. stage' \in {"gate", "done"}
  BY DEF Encode, AfterEncoder
<1> QED BY <1>1, <1>7, <1>8, <1>9
        DEF Encode, Trace, request, RankInv, RerankTypeOK, Ranks

LEMMA BlendRanks ==
  ASSUME RankInv, NEW raw, NEW mixed \in [Encodable -> Scores], Blend(raw, mixed)
  PROVE  RankInv'
<1>1. /\ Ranks(order, Places) /\ score \in [Places -> Scores] /\ list \in Seq(Hits)
      /\ {encoderUsed, modelUsed, fallback} \subseteq BOOLEAN
  BY DEF RankInv, Blend, RerankTypeOK
<1> DEFINE after == [i \in Places |-> IF i \in Encodable THEN mixed[i] ELSE score[i]]
           pool == Pool(EncoderTop)
<1>2. EncoderTop \in Nat /\ pool \subseteq Places
  BY <1>1, TopAssumption, PoolIsCut
<1>3. after \in [Places -> Scores]
  BY <1>1
<1>4. /\ score' = after /\ order' = Sorted(pool, after) \o RestAfter(EncoderTop)
      /\ Places' = Places
  BY DEF Blend, request, Places
<1> HIDE DEF after
<1>5. /\ pool \in SUBSET Nat /\ IsFiniteSet(pool) /\ \A i \in pool : after[i] \in Int
  BY <1>2, <1>3, PlacesAreFinite, ScoresAreNumbers
<1>6. Ranks(Sorted(pool, after), pool)
  BY <1>5, SortedRanks
<1>7. Ranks(RestAfter(EncoderTop), Places \ pool)
  BY <1>1, <1>2, PoolIsCut
<1> HIDE DEF pool
<1>8. Ranks(order', pool \cup (Places \ pool))
  BY <1>4, <1>6, <1>7, JoinedRanks
<1>9. pool \cup (Places \ pool) = Places
  BY <1>2
<1>10. stage' \in {"gate", "done"}
  BY DEF Blend, AfterEncoder
<1> QED BY <1>1, <1>3, <1>4, <1>8, <1>9, <1>10
        DEF Blend, Trace, request, RankInv, RerankTypeOK, Ranks

LEMMA ModelRanksAll ==
  ASSUME RankInv, NEW answer, ModelRanks(answer)
  PROVE  RankInv'
<1>1. /\ Ranks(order, Places) /\ score \in [Places -> Scores] /\ list \in Seq(Hits)
      /\ {encoderUsed, modelUsed, fallback} \subseteq BOOLEAN
  BY DEF RankInv, ModelRanks, RerankTypeOK
<1> DEFINE pool == Pool(ModelPool)
           others == pool \ Named(answer)
           standing == [i \in Places |-> Len(order) - PlaceOf(i)]
<1>2. ModelPool \in Nat /\ Len(order) \in Nat /\ DOMAIN order = 1 .. Len(order)
  BY <1>1, TopAssumption DEF ModelPool, Ranks
<1>3. pool \subseteq Places
  BY <1>1, <1>2, PoolIsCut
<1>4. Ranks(answer, Named(answer)) /\ Named(answer) \subseteq pool
  <2>1. PICK n \in 1 .. Len(order) : answer \in [1 .. n -> pool]
    BY DEF ModelRanks, Answers
  <2>2. \A k, m \in DOMAIN answer : k # m => answer[k] # answer[m]
    BY DEF ModelRanks, Answers
  <2>3. Named(answer) \subseteq pool /\ DOMAIN answer = 1 .. n /\ n \in Nat
    BY <1>2, <2>1 DEF Named
  <2>4. answer \in Seq(Named(answer))
    <3>1. \A k \in 1 .. n : answer[k] \in Named(answer)
      BY <2>3 DEF Named
    <3> QED BY <2>1, <2>3, <3>1
  <2> QED BY <2>2, <2>3, <2>4 DEF Ranks
<1>5. ASSUME NEW i \in others PROVE standing[i] \in Int
  <2>1. \E n \in DOMAIN order : order[n] = i
    BY <1>1, <1>3 DEF Ranks, Named
  <2>2. PlaceOf(i) \in DOMAIN order
    BY <2>1 DEF PlaceOf
  <2> QED BY <1>2, <1>3, <2>2
<1>6. others \in SUBSET Nat /\ IsFiniteSet(others)
  BY <1>3, PlacesAreFinite
<1>7. order' = answer \o Sorted(others, standing) \o RestAfter(ModelPool) /\ Places' = Places
  BY DEF ModelRanks, ModelOrder, request, Places
<1> HIDE DEF standing
<1>8. Ranks(Sorted(others, standing), others)
  BY <1>5, <1>6, SortedRanks
<1>9. Ranks(order', Places)
  BY <1>1, <1>2, <1>4, <1>7, <1>8, PartsRank
<1>10. stage' = "done" /\ score' = score /\ list' = list
      /\ encoderUsed' = encoderUsed /\ modelUsed' = TRUE /\ fallback' = FALSE
  BY DEF ModelRanks, Trace, request
<1> QED BY <1>1, <1>7, <1>9, <1>10 DEF RankInv, RerankTypeOK, Ranks

THEOREM RankInvariant == RerankSpec => []RankInv
<1>1. RerankInit => RankInv
  <2> SUFFICES ASSUME RerankInit PROVE RankInv
    OBVIOUS
  <2>1. list \in Seq(Hits) /\ stage = "deterministic" /\ order = <<>>
        /\ score = [i \in Places |-> list[i].score]
        /\ encoderUsed = FALSE /\ modelUsed = FALSE /\ fallback = FALSE
    BY RetrievedAssumption DEF RerankInit
  <2>2. \A i \in Places : list[i].score \in Scores
    <3>1. \A i \in Places : list[i] \in Hits
      BY <2>1 DEF Places
    <3> QED BY <3>1 DEF Hits
  <2>3. order \in Seq(Places) /\ score \in [Places -> Scores]
    BY <2>1, <2>2
  <2> QED BY <2>1, <2>3 DEF RankInv, RerankTypeOK
<1>2. RankInv /\ [RerankNext]_rerankVars => RankInv'
  <2> SUFFICES ASSUME RankInv, [RerankNext]_rerankVars PROVE RankInv'
    OBVIOUS
  <2>1. CASE RankDeterministically
    <3>1. \A i \in Places : score[i] \in Int
      BY ScoresAreNumbers DEF RankInv, RerankTypeOK
    <3>2. Ranks(Sorted(Places, score), Places)
      BY <3>1, PlacesAreFinite, SortedRanks
    <3>3. order' = Sorted(Places, score) /\ Places' = Places /\ list' = list
      BY <2>1 DEF RankDeterministically, request, Places
    <3>4. stage' \in {"done", "model", "gate", "encode"}
      BY <2>1 DEF RankDeterministically
    <3> QED BY <2>1, <3>2, <3>3, <3>4
            DEF RankDeterministically, RankInv, RerankTypeOK, Ranks
  <2>2. ASSUME NEW value \in [Places -> Scores], Encode(value) PROVE RankInv'
    BY <2>2, EncodeRanks
  <2>3. ASSUME NEW raw \in [Encodable -> Scores], NEW mixed \in [Encodable -> Scores],
               Blend(raw, mixed)
        PROVE  RankInv'
    BY <2>3, BlendRanks
  <2>4. CASE EncoderFails
    BY <2>4 DEF EncoderFails, AfterEncoder, Trace, request, RankInv, RerankTypeOK, Ranks, Places
  <2>5. ASSUME NEW needsConflict \in BOOLEAN, Gate(needsConflict) PROVE RankInv'
    <3>1. stage' \in {"model", "done"}
      BY <2>5 DEF Gate
    <3> QED BY <2>5, <3>1 DEF Gate, request, RankInv, RerankTypeOK, Ranks, Places
  <2>6. ASSUME NEW answer \in Answers, ModelRanks(answer) PROVE RankInv'
    BY <2>6, ModelRanksAll
  <2>7. CASE ModelFails
    BY <2>7 DEF ModelFails, Trace, request, RankInv, RerankTypeOK, Ranks, Places
  <2>8. CASE UNCHANGED rerankVars
    BY <2>8 DEF rerankVars, request, RankInv, RerankTypeOK, Ranks, Places
  <2> QED BY <2>1, <2>2, <2>3, <2>4, <2>5, <2>6, <2>7, <2>8 DEF RerankNext
<1> QED BY <1>1, <1>2, PTL DEF RerankSpec

(* The ranking, the scores and the trace are typed.                        *)
THEOREM RankingTyped == RerankSpec => []RerankTypeOK
<1>1. RankInv => RerankTypeOK
  BY DEF RankInv
<1> QED BY <1>1, RankInvariant, PTL

(* MemoryReranker.rank_with_trace: whatever the encoder scores and the     *)
(* model names, every candidate that was retrieved is ranked once.         *)
THEOREM NothingIsLostInRanking == RerankSpec => []RankingIsAPermutation
<1>1. RankInv => RankingIsAPermutation
  <2> SUFFICES ASSUME RankInv, stage # "deterministic"
               PROVE  Len(order) = Len(list) /\ Named(order) = Places
    BY DEF RankingIsAPermutation
  <2>1. Ranks(order, Places)
    BY DEF RankInv
  <2> DEFINE n == Len(order)
             numbers == 1 .. n
  <2>2. n \in Nat /\ order \in [numbers -> Places] /\ Named(order) = Places
        /\ DOMAIN order = numbers
    BY <2>1 DEF Ranks
  <2>3. 1 \in Int /\ n \in Int /\ (1 > n => n = 0) /\ (~(1 > n) => n - 1 + 1 = n)
    BY <2>2
  <2> HIDE DEF n
  <2>4. IsFiniteSet(numbers) /\ Cardinality(numbers) = n
    BY <2>2, <2>3, FS_Interval
  <2> HIDE DEF numbers
  <2>5. order \in Injection(numbers, Places)
    BY <2>1, <2>2 DEF Ranks, Injection, IsInjective
  <2>6. order \in Surjection(numbers, Places)
    BY <2>2 DEF Surjection, Named
  <2>7. Cardinality(numbers) = Cardinality(Places)
    BY <2>4, <2>5, <2>6, PlacesAreFinite, FS_Injection
  <2> QED BY <2>2, <2>4, <2>7, PlacesAreFinite DEF n
<1> QED BY <1>1, RankInvariant, PTL

-----------------------------------------------------------------------------
(***************************************************************************)
(* The raw spans, for every transcript, gist table and limit.  The windows *)
(* of a search are the longest runs of what the hits cover, so that two    *)
(* runs that meet are one, and a run that meets a window holds its hit.    *)
(* What is quoted of a span keeps its best anchor in each of the ways a    *)
(* span is cut.                                                            *)
(***************************************************************************)

SpanShapes ==
  /\ transcript \in Seq(Seq(Seen)) /\ reader \in Chats /\ inactive \subseteq Chats
  /\ gistTable \subseteq StoredGists
  /\ \A g \in gistTable : g.chat \in Chats /\ g.last \in Positions(g.chat)

Apart(shown) ==
  \A s, t \in shown : s # t /\ s.chat = t.chat => s.messages \cap t.messages = {}
QuotesBest(s) ==
  \E i \in s.quoted \cap s.anchors :
    \A j \in s.anchors : MessageAt(s.chat, i).near >= MessageAt(s.chat, j).near
ShowsBest(shown) ==
  \A h \in OwnHits : (\A k \in OwnHits \ {h} : Better(h, k)) =>
    \E s \in shown : s.chat = reader /\ h[2] \in s.messages

SpanInv ==
  /\ SpanShapes
  /\ asked = "nothing" => spans = {}
  /\ Apart(spans) /\ \A s \in spans : QuotesBest(s)
  /\ asked = "current" => ShowsBest(spans)

(* A finite set has a member that no other one beats.                      *)
LEMMA TopExists ==
  ASSUME NEW P, IsFiniteSet(P), P # {}, NEW Beats,
         \A i, j, k \in P : <<i, j>> \in Beats /\ <<j, k>> \in Beats => <<i, k>> \in Beats,
         \A i \in P : <<i, i>> \notin Beats
  PROVE  \E i \in P : \A j \in P : <<j, i>> \notin Beats
<1> DEFINE Over(i) == {j \in P : <<j, i>> \in Beats}
           sizes == {Cardinality(Over(i)) : i \in P}
<1>1. \A i \in P : IsFiniteSet(Over(i)) /\ Cardinality(Over(i)) \in Nat
  BY FS_Subset, FS_CardinalityType
<1>2. sizes \in SUBSET Nat /\ sizes # {}
  <2> HIDE DEF Over
  <2> QED BY <1>1
<1>3. PICK least \in sizes : \A size \in sizes : least <= size
  <2> HIDE DEF sizes
  <2> QED BY <1>2, LeastExists
<1>4. PICK i \in P : least = Cardinality(Over(i))
  <2> HIDE DEF Over
  <2> QED OBVIOUS
<1>5. ASSUME NEW j \in P, <<j, i>> \in Beats PROVE FALSE
  <2>1. Over(j) \subseteq Over(i) /\ j \in Over(i) /\ j \notin Over(j)
    BY <1>5
  <2>2. Cardinality(Over(j)) \in sizes
    OBVIOUS
  <2> HIDE DEF Over, sizes
  <2>4. Cardinality(Over(i)) <= Cardinality(Over(j))
    BY <1>3, <1>4, <2>2
  <2>3. /\ Cardinality(Over(j)) <= Cardinality(Over(i))
        /\ Cardinality(Over(i)) = Cardinality(Over(j)) => Over(i) = Over(j)
    BY <1>1, <2>1, FS_Subset
  <2> QED BY <1>1, <2>1, <2>3, <2>4
<1> QED BY <1>5

LEMMA PositionsAreNumbers ==
  ASSUME SpanShapes, NEW chat \in Chats
  PROVE  /\ chat \in Nat /\ Len(transcript[chat]) \in Nat
         /\ Positions(chat) = 1 .. Len(transcript[chat]) /\ Positions(chat) \subseteq Nat
         /\ IsFiniteSet(Positions(chat))
         /\ \A ids \in SUBSET Positions(chat) : IsFiniteSet(ids)
         /\ \A i \in Positions(chat) : MessageAt(chat, i) \in Seen
<1>1. transcript[chat] \in Seq(Seen) /\ chat \in Nat
  BY DEF SpanShapes, Chats
<1> DEFINE n == Len(transcript[chat])
<1>2. n \in Nat /\ Positions(chat) = 1 .. n
  BY <1>1 DEF Positions
<1>3. \A i \in Positions(chat) : MessageAt(chat, i) \in Seen
  BY <1>1 DEF Positions, MessageAt
<1> HIDE DEF n
<1>4. 1 \in Int /\ n \in Int
  BY <1>2
<1>5. IsFiniteSet(Positions(chat))
  BY <1>2, <1>4, FS_Interval
<1>6. \A ids \in SUBSET Positions(chat) : IsFiniteSet(ids)
  BY <1>5, FS_Subset
<1> QED BY <1>1, <1>2, <1>3, <1>5, <1>6 DEF n

LEMMA LastIdIs ==
  ASSUME NEW ids \in SUBSET Nat, IsFiniteSet(ids), ids # {}
  PROVE  LastId(ids) \in ids /\ \A j \in ids : j <= LastId(ids)
<1> DEFINE Beats == {e \in ids \X ids : e[1] > e[2]}
<1>1. \A i, j \in ids : <<i, j>> \in Beats <=> i > j
  OBVIOUS
<1> HIDE DEF Beats
<1>2. /\ \A i, j, k \in ids : <<i, j>> \in Beats /\ <<j, k>> \in Beats => <<i, k>> \in Beats
      /\ \A i \in ids : <<i, i>> \notin Beats
  BY <1>1
<1>3. PICK i \in ids : \A j \in ids : <<j, i>> \notin Beats
  BY <1>2, TopExists
<1>4. ASSUME NEW j \in ids PROVE j <= i
  <2>1. ~(j > i)
    BY <1>1, <1>3
  <2>2. i \in Nat /\ j \in Nat
    OBVIOUS
  <2> QED BY <2>1, <2>2
<1> QED BY <1>4 DEF LastId

LEMMA FirstIdIs ==
  ASSUME NEW ids \in SUBSET Nat, ids # {}
  PROVE  FirstId(ids) \in ids /\ \A j \in ids : FirstId(ids) <= j
<1>1. \E i \in ids : \A j \in ids : i <= j
  BY LeastExists
<1> QED BY <1>1 DEF FirstId

(* best_query_message_index.                                               *)
LEMMA BestOfIs ==
  ASSUME SpanShapes, NEW chat \in Chats, NEW among \in SUBSET Positions(chat), among # {}
  PROVE  /\ BestOf(chat, among) \in among
         /\ \A j \in among : MessageAt(chat, BestOf(chat, among)).near >= MessageAt(chat, j).near
<1> DEFINE Near(i) == MessageAt(chat, i).near
           Beats == {e \in among \X among :
                       Near(e[1]) > Near(e[2]) \/ (Near(e[1]) = Near(e[2]) /\ e[1] > e[2])}
<1>1. IsFiniteSet(among) /\ \A i \in among : i \in Nat /\ Near(i) \in Nat
  BY PositionsAreNumbers DEF Seen
<1>2. \A i, j \in among :
        <<i, j>> \in Beats <=> Near(i) > Near(j) \/ (Near(i) = Near(j) /\ i > j)
  OBVIOUS
<1>0. BestOf(chat, among) = CHOOSE i \in among : \A j \in among :
        Near(i) > Near(j) \/ (Near(i) = Near(j) /\ i >= j)
  BY DEF BestOf
<1> HIDE DEF Beats, Near
<1>3. /\ \A i, j, k \in among : <<i, j>> \in Beats /\ <<j, k>> \in Beats => <<i, k>> \in Beats
      /\ \A i \in among : <<i, i>> \notin Beats
  BY <1>1, <1>2
<1>4. PICK i \in among : \A j \in among : <<j, i>> \notin Beats
  BY <1>1, <1>3, TopExists
<1>5. ASSUME NEW j \in among
      PROVE  Near(i) > Near(j) \/ (Near(i) = Near(j) /\ i >= j)
  <2>1. ~(Near(j) > Near(i) \/ (Near(j) = Near(i) /\ j > i))
    BY <1>2, <1>4
  <2>2. i \in Nat /\ j \in Nat /\ Near(i) \in Nat /\ Near(j) \in Nat
    BY <1>1
  <2> QED BY <2>1, <2>2
<1>6. LET b == BestOf(chat, among) IN
      b \in among /\ \A j \in among : Near(b) > Near(j) \/ (Near(b) = Near(j) /\ b >= j)
  BY <1>0, <1>5
<1>7. BestOf(chat, among) \in among /\ \A j \in among : Near(BestOf(chat, among)) >= Near(j)
  BY <1>1, <1>6
<1> QED BY <1>7 DEF Near

(* best_message_ids.                                                       *)
LEMMA MostTermsExist ==
  ASSUME SpanShapes, NEW chat \in Chats, NEW among \in SUBSET Positions(chat), among # {}
  PROVE  MostTerms(chat, among) # {} /\ MostTerms(chat, among) \subseteq among
<1> DEFINE Terms(i) == MessageAt(chat, i).overlap
           Beats == {e \in among \X among : Terms(e[1]) > Terms(e[2])}
<1>1. IsFiniteSet(among) /\ \A i \in among : Terms(i) \in Nat
  BY PositionsAreNumbers DEF Seen
<1>2. \A i, j \in among : <<i, j>> \in Beats <=> Terms(i) > Terms(j)
  OBVIOUS
<1>0. MostTerms(chat, among) = {i \in among : \A j \in among : Terms(i) >= Terms(j)}
  BY DEF MostTerms
<1> HIDE DEF Beats, Terms
<1>3. /\ \A i, j, k \in among : <<i, j>> \in Beats /\ <<j, k>> \in Beats => <<i, k>> \in Beats
      /\ \A i \in among : <<i, i>> \notin Beats
  BY <1>1, <1>2
<1>4. PICK i \in among : \A j \in among : <<j, i>> \notin Beats
  BY <1>1, <1>3, TopExists
<1>5. ASSUME NEW j \in among PROVE Terms(i) >= Terms(j)
  <2>1. ~(Terms(j) > Terms(i))
    BY <1>2, <1>4
  <2>2. Terms(i) \in Nat /\ Terms(j) \in Nat
    BY <1>1
  <2> QED BY <2>1, <2>2
<1> QED BY <1>0, <1>5

(* format_raw_span_with_anchor: however a span is cut, its best anchor is  *)
(* quoted.                                                                 *)
LEMMA BestIsQuoted ==
  ASSUME SpanShapes, NEW chat \in Chats, NEW span \in SUBSET Positions(chat),
         NEW anchors \in SUBSET span, anchors # {}
  PROVE  QuotesBest(Span(chat, span, anchors))
<1> DEFINE b == BestOf(chat, anchors)
<1>1. b \in anchors /\ \A j \in anchors : MessageAt(chat, b).near >= MessageAt(chat, j).near
  BY BestOfIs
<1>2. b \in Quoted(chat, span, anchors)
  <2>1. anchors \cap span = anchors
    OBVIOUS
  <2> QED BY <1>1, <2>1 DEF Quoted
<1> HIDE DEF b
<1> QED BY <1>1, <1>2 DEF QuotesBest, Span

-----------------------------------------------------------------------------
(* Runs.                                                                   *)

LEMMA RunsThatMeetAreOne ==
  ASSUME NEW ranges, UNION ranges \subseteq Nat \ {0},
         NEW r \in MergeRanges(ranges), NEW t \in MergeRanges(ranges), r \cap t # {}
  PROVE  r = t
<1> DEFINE covered == UNION ranges
<1>1. PICK a \in covered, b \in covered :
        /\ r = a .. b /\ a <= b /\ a .. b \subseteq covered
        /\ a - 1 \notin covered /\ b + 1 \notin covered
  BY DEF MergeRanges
<1>2. PICK c \in covered, d \in covered :
        /\ t = c .. d /\ c <= d /\ c .. d \subseteq covered
        /\ c - 1 \notin covered /\ d + 1 \notin covered
  BY DEF MergeRanges
<1>0. covered \subseteq Nat \ {0}
  OBVIOUS
<1> HIDE DEF covered
<1>3. PICK p \in Nat : p \in a .. b /\ p \in c .. d
  BY <1>0, <1>1, <1>2
<1>4. a = c
  <2>1. a < c => c - 1 \in a .. b
    BY <1>0, <1>3
  <2>2. c < a => a - 1 \in c .. d
    BY <1>0, <1>3
  <2> QED BY <1>0, <1>1, <1>2, <2>1, <2>2
<1>5. b = d
  <2>1. b < d => b + 1 \in c .. d
    BY <1>0, <1>3
  <2>2. d < b => d + 1 \in a .. b
    BY <1>0, <1>3
  <2> QED BY <1>0, <1>1, <1>2, <2>1, <2>2
<1> QED BY <1>1, <1>2, <1>4, <1>5

(* A run that meets an interval of what is covered holds all of it.        *)
LEMMA RunsHoldIntervals ==
  ASSUME NEW ranges, UNION ranges \subseteq Nat \ {0}, NEW window \in ranges,
         \A x, y \in window : x .. y \subseteq window,
         NEW r \in MergeRanges(ranges), window \cap r # {}
  PROVE  window \subseteq r
<1> DEFINE covered == UNION ranges
<1>1. PICK a \in covered, b \in covered :
        r = a .. b /\ a <= b /\ a - 1 \notin covered /\ b + 1 \notin covered
  BY DEF MergeRanges
<1>0. covered \subseteq Nat \ {0} /\ window \subseteq covered
  OBVIOUS
<1> HIDE DEF covered
<1>2. PICK p \in window : p \in a .. b
  BY <1>1
<1> SUFFICES ASSUME NEW x \in window PROVE x \in a .. b
  BY <1>1
<1>3. x .. p \subseteq covered /\ p .. x \subseteq covered
  BY <1>0, <1>2
<1>4. x < a => a - 1 \in x .. p
  BY <1>0, <1>2
<1>5. b < x => b + 1 \in p .. x
  BY <1>0, <1>2
<1> QED BY <1>0, <1>1, <1>3, <1>4, <1>5

LEMMA EveryIdIsInARun ==
  ASSUME NEW ranges, NEW n \in Nat, UNION ranges \subseteq 1 .. n, NEW p \in UNION ranges
  PROVE  \E r \in MergeRanges(ranges) : p \in r
<1> DEFINE covered == UNION ranges
           lows == {i \in Nat : i <= p /\ i .. p \subseteq covered}
           highs == {i \in Nat : p <= i /\ p .. i \subseteq covered}
<1>0. covered \subseteq 1 .. n /\ p \in covered /\ p \in Nat
  OBVIOUS
<1>8. MergeRanges(ranges) = {e[1] .. e[2] : e \in {f \in covered \X covered :
        /\ f[1] <= f[2] /\ f[1] .. f[2] \subseteq covered
        /\ f[1] - 1 \notin covered /\ f[2] + 1 \notin covered}}
  BY DEF MergeRanges
<1> HIDE DEF covered
<1>1. p .. p = {p}
  BY <1>0
<1>2. lows \in SUBSET Nat /\ p \in lows /\ highs \in SUBSET Nat /\ p \in highs
  BY <1>0, <1>1
<1>3. \A i \in highs : i <= n
  BY <1>0
<1>4. PICK a \in lows : \A i \in lows : a <= i
  <2> HIDE DEF lows, highs
  <2> QED BY <1>2, LeastExists
<1>5. PICK b \in highs : \A i \in highs : b >= i
  <2> HIDE DEF lows
  <2>1. IsFiniteSet(highs)
    <3> HIDE DEF highs
    <3> QED BY <1>2, <1>3, FS_BoundedSetOfNaturals
  <2>2. highs # {}
    BY <1>2
  <2> HIDE DEF highs
  <2>3. LastId(highs) \in highs /\ \A i \in highs : i <= LastId(highs)
    BY <1>2, <2>1, <2>2, LastIdIs
  <2>4. \A i \in highs : i \in Nat
    BY <1>2
  <2> QED BY <2>3, <2>4
<1>6. /\ a <= p /\ p <= b /\ a \in covered /\ b \in covered
      /\ a .. b \subseteq covered
  <2>1. a \in a .. p /\ b \in p .. b /\ a <= p /\ p <= b
    BY <1>0
  <2>2. \A i \in a .. b : i \in a .. p \/ i \in p .. b
    BY <1>0
  <2> QED BY <2>1, <2>2
<1>7. a - 1 \notin covered /\ b + 1 \notin covered
  <2>1. a \in Nat \ {0} /\ b \in Nat
    BY <1>0, <1>6
  <2>2. a - 1 \in covered => a - 1 \in lows
    <3> SUFFICES ASSUME a - 1 \in covered, NEW i \in (a - 1) .. p PROVE i \in covered
      BY <1>0, <1>6, <2>1
    <3>1. i = a - 1 \/ i \in a .. p
      BY <1>0, <2>1
    <3> QED BY <3>1
  <2>3. b + 1 \in covered => b + 1 \in highs
    <3> SUFFICES ASSUME b + 1 \in covered, NEW i \in p .. (b + 1) PROVE i \in covered
      BY <1>0, <1>6, <2>1
    <3>1. i = b + 1 \/ i \in p .. b
      BY <1>0, <2>1
    <3> QED BY <3>1
  <2> HIDE DEF lows, highs
  <2>4. a - 1 \in lows => FALSE
    BY <1>4, <2>1
  <2>5. b + 1 \in highs => FALSE
    BY <1>5, <2>1
  <2> QED BY <2>2, <2>3, <2>4, <2>5
<1> HIDE DEF lows, highs
<1>9. <<a, b>> \in {f \in covered \X covered :
        /\ f[1] <= f[2] /\ f[1] .. f[2] \subseteq covered
        /\ f[1] - 1 \notin covered /\ f[2] + 1 \notin covered}
  <2>1. a <= b
    BY <1>0, <1>6
  <2> QED BY <1>6, <1>7, <2>1
<1>10. a .. b \in MergeRanges(ranges)
  BY <1>8, <1>9
<1>11. p \in a .. b
  BY <1>0, <1>6
<1> QED BY <1>10, <1>11

(* merge_requests: the ranges of gists that meet a run are in it.          *)
LEMMA RequestsThatMeetAreOne ==
  ASSUME NEW chat, NEW shown \in SUBSET StoredGists,
         NEW r \in MergeRequests(chat, shown), NEW t \in MergeRequests(chat, shown),
         r \cap t # {}
  PROVE  r = t
<1> DEFINE ranges == {Request(g) : g \in {h \in shown : h.chat = chat}}
           linked(i) == \E q \in ranges : i \in q /\ i + 1 \in q
<1>0. UNION ranges \subseteq Nat
  BY DEF StoredGists, Request
<1>1. PICK a \in UNION ranges, b \in UNION ranges :
        /\ r = a .. b /\ a <= b /\ \A i \in a .. b : i = b \/ linked(i)
        /\ \A q \in ranges : q \cap (a .. b) # {} => q \subseteq a .. b
  BY DEF MergeRequests
<1>2. PICK c \in UNION ranges, d \in UNION ranges :
        /\ t = c .. d /\ c <= d /\ \A i \in c .. d : i = d \/ linked(i)
        /\ \A q \in ranges : q \cap (c .. d) # {} => q \subseteq c .. d
  BY DEF MergeRequests
<1>3. /\ a \in Nat /\ b \in Nat /\ c \in Nat /\ d \in Nat
  BY <1>0
<1> HIDE DEF ranges
<1>4. PICK p \in Nat : p \in a .. b /\ p \in c .. d
  <2>1. PICK p \in r : p \in t
    OBVIOUS
  <2>2. p \in a .. b /\ p \in c .. d
    BY <1>1, <1>2, <2>1
  <2>3. p \in Nat
    BY <1>3, <2>2
  <2> QED BY <2>2, <2>3
<1>5. a = c
  <2>1. ASSUME a < c PROVE FALSE
    <3>1. c - 1 \in a .. b /\ c - 1 # b /\ c \in c .. d /\ (c - 1) + 1 = c /\ c - 1 \notin c .. d
      BY <1>3, <1>4, <2>1
    <3>2. PICK q \in ranges : c - 1 \in q /\ c \in q
      BY <1>1, <3>1
    <3> QED BY <1>2, <3>1, <3>2
  <2>2. ASSUME c < a PROVE FALSE
    <3>1. a - 1 \in c .. d /\ a - 1 # d /\ a \in a .. b /\ (a - 1) + 1 = a /\ a - 1 \notin a .. b
      BY <1>3, <1>4, <2>2
    <3>2. PICK q \in ranges : a - 1 \in q /\ a \in q
      BY <1>2, <3>1
    <3> QED BY <1>1, <3>1, <3>2
  <2> QED BY <1>3, <2>1, <2>2
<1>6. b = d
  <2>1. ASSUME b < d PROVE FALSE
    <3>1. b \in c .. d /\ b # d /\ b \in a .. b /\ b + 1 \notin a .. b
      BY <1>3, <1>4, <2>1
    <3>2. PICK q \in ranges : b \in q /\ b + 1 \in q
      BY <1>2, <3>1
    <3> QED BY <1>1, <3>1, <3>2
  <2>2. ASSUME d < b PROVE FALSE
    <3>1. d \in a .. b /\ d # b /\ d \in c .. d /\ d + 1 \notin c .. d
      BY <1>3, <1>4, <2>2
    <3>2. PICK q \in ranges : d \in q /\ d + 1 \in q
      BY <1>1, <3>1
    <3> QED BY <1>2, <3>1, <3>2
  <2> QED BY <1>3, <2>1, <2>2
<1> QED BY <1>1, <1>2, <1>5, <1>6

LEMMA RequestsAreSpans ==
  ASSUME SpanShapes, NEW chat, NEW shown \in SUBSET gistTable,
         NEW r \in MergeRequests(chat, shown)
  PROVE  \E a, b \in Positions(chat) :
           r = a .. b /\ a <= b /\ chat \in Chats /\ r \subseteq Positions(chat)
<1> DEFINE ranges == {Request(g) : g \in {h \in shown : h.chat = chat}}
<1>1. PICK a \in UNION ranges, b \in UNION ranges : r = a .. b /\ a <= b
  BY DEF MergeRequests
<1>2. chat \in Chats
  BY <1>1 DEF SpanShapes
<1>3. UNION ranges \subseteq Positions(chat)
  <2> SUFFICES ASSUME NEW g \in shown, g.chat = chat PROVE Request(g) \subseteq Positions(chat)
    OBVIOUS
  <2>1. g.first \in Nat \ {0} /\ g.last \in Positions(chat)
    BY DEF SpanShapes, StoredGists
  <2> QED BY <1>2, <2>1, PositionsAreNumbers DEF Request
<1> HIDE DEF ranges
<1>4. a \in Positions(chat) /\ b \in Positions(chat)
  BY <1>3
<1>5. a .. b \subseteq Positions(chat)
  BY <1>2, <1>4, PositionsAreNumbers
<1> QED BY <1>1, <1>2, <1>4, <1>5

-----------------------------------------------------------------------------
(* Hits and their windows.                                                 *)

Matched(hits) == \A h \in hits : /\ h = <<h[1], h[2]>> /\ h[1] \in Chats
                                 /\ h[2] \in Positions(h[1])

LEMMA MatchingIsMatched ==
  ASSUME NEW chats \in SUBSET Chats
  PROVE  Matched(Matching(chats))
BY DEF Matched, Matching

LEMMA WindowsOfHits ==
  ASSUME SpanShapes, NEW h, h[1] \in Chats, h[2] \in Positions(h[1])
  PROVE  /\ h[2] \in WindowAround(h) /\ WindowAround(h) \subseteq Positions(h[1])
         /\ \A x, y \in WindowAround(h) : x .. y \subseteq WindowAround(h)
<1> DEFINE chat == h[1]
           p == h[2]
<1>1. HitWindow \in Nat
  BY LimitsAssumption
<1>2. PICK n \in Nat : Positions(chat) = 1 .. n
  BY PositionsAreNumbers
<1>3. WindowAround(h) = {i \in Positions(chat) : i <= p + HitWindow /\ p <= i + HitWindow}
  BY DEF WindowAround
<1> HIDE DEF chat, p
<1>4. p \in Positions(chat)
  BY DEF chat, p
<1>5. p \in WindowAround(h)
  BY <1>1, <1>2, <1>3, <1>4
<1>6. ASSUME NEW x \in WindowAround(h), NEW y \in WindowAround(h), NEW i \in x .. y
      PROVE  i \in WindowAround(h)
  BY <1>1, <1>2, <1>3, <1>4, <1>6
<1> QED BY <1>3, <1>5, <1>6 DEF chat, p

(* _retrieve_direct: the windows of a search lie in their chats, are apart *)
(* and have a hit each.                                                    *)
LEMMA WindowsHold ==
  ASSUME SpanShapes, NEW hits, Matched(hits), NEW w \in Windows(hits)
  PROVE  /\ w = <<w[1], w[2]>> /\ w[1] \in Chats /\ w[2] \subseteq Positions(w[1])
         /\ HitsIn(hits, w) # {} /\ HitsIn(hits, w) \subseteq w[2]
         /\ \A v \in Windows(hits) : v[1] = w[1] /\ v[2] \cap w[2] # {} => v = w
<1> DEFINE ranges(chat) == {WindowAround(h) : h \in TopIn(hits, chat)}
<1>1. \A v \in Windows(hits) : /\ v = <<v[1], v[2]>> /\ v[1] \in Chats
                              /\ v[2] \in MergeRanges(ranges(v[1]))
  <2> SUFFICES ASSUME NEW v \in Windows(hits)
               PROVE  /\ v = <<v[1], v[2]>> /\ v[1] \in Chats
                      /\ v[2] \in MergeRanges(ranges(v[1]))
    OBVIOUS
  <2>1. Windows(hits) = UNION {{chat} \X MergeRanges(ranges(chat)) : chat \in Chats}
    BY DEF Windows
  <2> HIDE DEF ranges
  <2>2. PICK chat \in Chats : v \in {chat} \X MergeRanges(ranges(chat))
    BY <2>1
  <2> QED BY <2>2
<1> DEFINE chat == w[1]
           run == w[2]
<1>2. chat \in Chats /\ run \in MergeRanges(ranges(chat)) /\ w = <<chat, run>>
  BY <1>1
<1>3. \A h \in TopIn(hits, chat) : h[1] = chat /\ h \in hits
  BY DEF TopIn, TopHits
<1>4. \A h \in TopIn(hits, chat) :
        /\ h[2] \in WindowAround(h) /\ WindowAround(h) \subseteq Positions(chat)
        /\ \A x, y \in WindowAround(h) : x .. y \subseteq WindowAround(h)
  <2> HIDE DEF chat
  <2> QED BY <1>3, WindowsOfHits DEF Matched
<1>5. UNION ranges(chat) \subseteq Positions(chat)
  <2> HIDE DEF chat
  <2> QED BY <1>4
<1>6. PICK n \in Nat : Positions(chat) = 1 .. n
  <2> HIDE DEF chat
  <2> QED BY <1>2, PositionsAreNumbers
<1>7. UNION ranges(chat) \subseteq Nat \ {0}
  <2> HIDE DEF chat, ranges
  <2> QED BY <1>5, <1>6
<1> HIDE DEF chat, run
<1>8. PICK a \in UNION ranges(chat), b \in UNION ranges(chat) :
        run = a .. b /\ a <= b /\ a .. b \subseteq UNION ranges(chat)
  <2> HIDE DEF ranges
  <2> QED BY <1>2 DEF MergeRanges
<1>9. PICK h \in TopIn(hits, chat) : a \in WindowAround(h)
  BY <1>8
<1>10. WindowAround(h) \subseteq run
  <2>1. a \in run
    <3> HIDE DEF ranges
    <3> QED BY <1>7, <1>8
  <2>2. WindowAround(h) \in ranges(chat)
    OBVIOUS
  <2>3. WindowAround(h) \cap run # {}
    BY <1>9, <2>1
  <2> HIDE DEF ranges
  <2> QED BY <1>2, <1>4, <1>7, <2>2, <2>3, RunsHoldIntervals
<1>11. HitsIn(hits, w) = {k[2] : k \in {g \in TopIn(hits, chat) : g[2] \in run}}
  BY DEF HitsIn, chat, run
<1>12. h[2] \in HitsIn(hits, w)
  BY <1>4, <1>10, <1>11
<1>13. HitsIn(hits, w) \subseteq run
  BY <1>11
<1>14. run \subseteq Positions(chat)
  <2> HIDE DEF ranges
  <2> QED BY <1>5, <1>8
<1>15. ASSUME NEW v \in Windows(hits), v[1] = chat, v[2] \cap run # {}
       PROVE  v = w
  <2>1. v[2] \in MergeRanges(ranges(chat)) /\ v = <<chat, v[2]>>
    BY <1>1, <1>15
  <2> HIDE DEF ranges
  <2>2. v[2] = run
    BY <1>2, <1>7, <1>15, <2>1, RunsThatMeetAreOne
  <2> QED BY <1>2, <2>1, <2>2
<1> QED BY <1>2, <1>12, <1>13, <1>14, <1>15 DEF chat, run

LEMMA ScoresAreNats ==
  ASSUME NEW message \in Seen
  PROVE  Score(message) \in Nat
<1>1. /\ message.near \in Nat /\ message.overlap \in Nat
      /\ RareBonus \in Nat /\ FullScore \in Nat
  BY LimitsAssumption DEF Seen
<1>2. (IF message.rare THEN RareBonus ELSE 0) \in Nat
  BY <1>1
<1> QED BY <1>1, <1>2 DEF Score

(* The best hit of the chat itself beats all others, and so is followed up.*)
LEMMA BestHitIs ==
  ASSUME SpanShapes, OwnHits # {}
  PROVE  /\ BestHitOf(OwnHits) \in OwnHits
         /\ \A k \in OwnHits \ {BestHitOf(OwnHits)} : Better(BestHitOf(OwnHits), k)
<1> DEFINE worth(h) == Score(MessageAt(h[1], h[2]))
           Beats == {e \in OwnHits \X OwnHits : Better(e[1], e[2])}
<1>0. reader \in Chats
  BY DEF SpanShapes
<1>1. \A h \in OwnHits : /\ h = <<h[1], h[2]>> /\ h[1] = reader
                         /\ h[2] \in Positions(reader)
  BY <1>0 DEF OwnHits, Matching
<1>2. \A h \in OwnHits : worth(h) \in Nat /\ h[2] \in Nat
  <2>1. \A h \in OwnHits : MessageAt(h[1], h[2]) \in Seen /\ h[2] \in Nat
    BY <1>0, <1>1, PositionsAreNumbers
  <2> QED BY <2>1, ScoresAreNats
<1>3. \A h, k \in OwnHits : /\ Better(h, k) <=> worth(h) > worth(k)
                                              \/ (worth(h) = worth(k) /\ h[2] > k[2])
                            /\ h[2] = k[2] => h = k
  <2> SUFFICES ASSUME NEW h \in OwnHits, NEW k \in OwnHits
               PROVE  /\ Better(h, k) <=> worth(h) > worth(k)
                                              \/ (worth(h) = worth(k) /\ h[2] > k[2])
                      /\ h[2] = k[2] => h = k
    OBVIOUS
  <2>1. h[1] = reader /\ k[1] = reader /\ reader \in Nat
    BY <1>0, <1>1, PositionsAreNumbers
  <2>2. Better(h, k) <=> worth(h) > worth(k)
          \/ (worth(h) = worth(k) /\ (h[1] > k[1] \/ (h[1] = k[1] /\ h[2] > k[2])))
    BY DEF Better
  <2> HIDE DEF worth
  <2> QED BY <1>1, <2>1, <2>2
<1>4. \A h, k \in OwnHits : <<h, k>> \in Beats <=> Better(h, k)
  OBVIOUS
<1>5. IsFiniteSet(OwnHits)
  <2> DEFINE f == [h \in OwnHits |-> h[2]]
  <2>1. f \in Injection(OwnHits, Positions(reader))
    BY <1>1, <1>3 DEF Injection, IsInjective
  <2> HIDE DEF f
  <2> QED BY <1>0, <2>1, PositionsAreNumbers, FS_Injection
<1> HIDE DEF Beats, worth
<1>6. /\ \A i, j, k \in OwnHits : <<i, j>> \in Beats /\ <<j, k>> \in Beats => <<i, k>> \in Beats
      /\ \A i \in OwnHits : <<i, i>> \notin Beats
  BY <1>2, <1>3, <1>4
<1>7. PICK h \in OwnHits : \A k \in OwnHits : <<k, h>> \notin Beats
  BY <1>5, <1>6, TopExists
<1>8. ASSUME NEW k \in OwnHits \ {h} PROVE Better(h, k)
  <2>1. ~(worth(k) > worth(h) \/ (worth(k) = worth(h) /\ k[2] > h[2]))
    BY <1>3, <1>4, <1>7
  <2>2. k[2] # h[2] /\ k[2] \in Nat /\ h[2] \in Nat /\ worth(h) \in Nat /\ worth(k) \in Nat
    BY <1>2, <1>3
  <2>3. worth(h) > worth(k) \/ (worth(h) = worth(k) /\ h[2] > k[2])
    BY <2>1, <2>2
  <2> QED BY <1>3, <2>3
<1>9. \E g \in OwnHits : \A k \in OwnHits \ {g} : Better(g, k)
  BY <1>8
<1> QED BY <1>9 DEF BestHitOf

(* The best hit is among those that are followed up, and a window holds it.*)
LEMMA BestHitIsFollowed ==
  ASSUME SpanShapes, NEW h \in OwnHits, \A k \in OwnHits \ {h} : Better(h, k)
  PROVE  \E w \in Windows(OwnHits) : w[1] = reader /\ h[2] \in w[2]
<1>0. reader \in Chats
  BY DEF SpanShapes
<1>1. \A k \in OwnHits : /\ k[1] = reader /\ k[2] \in Positions(reader)
                         /\ k[2] \in Nat /\ Score(MessageAt(k[1], k[2])) \in Nat
  <2>1. \A k \in OwnHits : k[1] = reader /\ k[2] \in Positions(reader)
    BY <1>0 DEF OwnHits, Matching
  <2>2. \A k \in OwnHits : k[2] \in Nat /\ MessageAt(k[1], k[2]) \in Seen
    BY <1>0, <2>1, PositionsAreNumbers
  <2> QED BY <2>1, <2>2, ScoresAreNats
<1>2. {k \in OwnHits : Better(k, h)} = {}
  <2> SUFFICES ASSUME NEW k \in OwnHits, Better(k, h) PROVE FALSE
    OBVIOUS
  <2>1. k = h \/ Better(h, k)
    OBVIOUS
  <2>2. reader \in Nat
    BY <1>0, PositionsAreNumbers
  <2> QED BY <1>1, <2>1, <2>2 DEF Better
<1>3. h \in TopHits(OwnHits)
  <2>1. Cardinality({}) = 0 /\ 0 < HitLimit
    BY LimitsAssumption, FS_EmptySet
  <2> QED BY <1>2, <2>1 DEF TopHits
<1> DEFINE ranges == {WindowAround(k) : k \in TopIn(OwnHits, reader)}
<1>4. h \in TopIn(OwnHits, reader)
  BY <1>1, <1>3 DEF TopIn
<1>5. \A k \in TopIn(OwnHits, reader) : k[1] = reader /\ k \in OwnHits
  BY DEF TopIn, TopHits
<1>6. \A k \in TopIn(OwnHits, reader) :
        k[2] \in WindowAround(k) /\ WindowAround(k) \subseteq Positions(reader)
  BY <1>0, <1>1, <1>5, WindowsOfHits
<1>7. UNION ranges \subseteq Positions(reader) /\ h[2] \in UNION ranges
  BY <1>4, <1>6
<1>8. PICK n \in Nat : Positions(reader) = 1 .. n
  BY <1>0, PositionsAreNumbers
<1>10. Windows(OwnHits) = UNION {{chat} \X MergeRanges({WindowAround(k) : k \in TopIn(OwnHits, chat)}) : chat \in Chats}
  BY DEF Windows
<1>9. \A r \in MergeRanges(ranges) : <<reader, r>> \in Windows(OwnHits)
  BY <1>0, <1>10
<1> HIDE DEF ranges
<1>11. PICK r \in MergeRanges(ranges) : h[2] \in r
  BY <1>7, <1>8, EveryIdIsInARun
<1> QED BY <1>9, <1>11

-----------------------------------------------------------------------------
(* The ways to retrieve.                                                   *)

LEMMA DirectSpansHold ==
  ASSUME SpanShapes, NEW scope
  PROVE  Apart(DirectSpans(scope)) /\ \A s \in DirectSpans(scope) : QuotesBest(s)
<1> DEFINE hits == Matching(InactiveChats(scope))
<1>0. Matched(hits)
  <2>1. InactiveChats(scope) \in SUBSET Chats
    BY DEF InactiveChats, SpanShapes
  <2> QED BY <2>1, MatchingIsMatched
<1>1. DirectSpans(scope) = {Span(w[1], w[2], HitsIn(hits, w)) : w \in Windows(hits)}
  BY DEF DirectSpans
<1> HIDE DEF hits
<1>2. ASSUME NEW w \in Windows(hits)
      PROVE  QuotesBest(Span(w[1], w[2], HitsIn(hits, w)))
  BY <1>0, WindowsHold, BestIsQuoted
<1>3. Apart(DirectSpans(scope))
  <2> SUFFICES ASSUME NEW w \in Windows(hits), NEW v \in Windows(hits),
                      v[1] = w[1], v[2] \cap w[2] # {}
               PROVE  v = w
    BY <1>1 DEF Apart, Span
  <2> QED BY <1>0, WindowsHold
<1> QED BY <1>1, <1>2, <1>3

LEMMA CurrentSpansHold ==
  ASSUME SpanShapes
  PROVE  /\ Apart(CurrentSpans) /\ \A s \in CurrentSpans : QuotesBest(s)
         /\ ShowsBest(CurrentSpans)
<1> DEFINE shown(w) == {i \in w[2] : ~MessageAt(w[1], i).query}
<1>0. Matched(OwnHits)
  <2>1. Matched(Matching({reader}))
    BY MatchingIsMatched DEF SpanShapes
  <2> QED BY <2>1 DEF OwnHits, Matched
<1>1. CurrentSpans = {Span(w[1], shown(w), HitsIn(OwnHits, w)) : w \in Windows(OwnHits)}
  BY DEF CurrentSpans
<1>2. ASSUME NEW w \in Windows(OwnHits)
      PROVE  HitsIn(OwnHits, w) \subseteq shown(w)
  <2> SUFFICES ASSUME NEW i \in HitsIn(OwnHits, w) PROVE i \in shown(w)
    OBVIOUS
  <2>1. i \in w[2]
    BY <1>0, WindowsHold
  <2>2. PICK h \in OwnHits : h[1] = w[1] /\ h[2] = i
    BY DEF HitsIn, TopIn, TopHits
  <2>3. ~MessageAt(w[1], i).query
    BY <2>2 DEF OwnHits
  <2> QED BY <2>1, <2>3
<1>3. ASSUME NEW w \in Windows(OwnHits)
      PROVE  QuotesBest(Span(w[1], shown(w), HitsIn(OwnHits, w)))
  <2>1. w[1] \in Chats /\ w[2] \subseteq Positions(w[1]) /\ HitsIn(OwnHits, w) # {}
    BY <1>0, WindowsHold
  <2>2. shown(w) \in SUBSET Positions(w[1])
    BY <2>1
  <2> HIDE DEF shown
  <2> QED BY <1>2, <2>1, <2>2, BestIsQuoted
<1>4. Apart(CurrentSpans)
  <2> SUFFICES ASSUME NEW w \in Windows(OwnHits), NEW v \in Windows(OwnHits),
                      v[1] = w[1], shown(v) \cap shown(w) # {}
               PROVE  v = w
    <3> DEFINE s(u) == Span(u[1], shown(u), HitsIn(OwnHits, u))
    <3>1. \A u : s(u).chat = u[1] /\ s(u).messages = shown(u)
      BY DEF Span
    <3>2. CurrentSpans = {s(u) : u \in Windows(OwnHits)}
      BY <1>1
    <3> HIDE DEF s, shown
    <3> QED BY <3>1, <3>2 DEF Apart
  <2>1. v[2] \cap w[2] # {}
    OBVIOUS
  <2> HIDE DEF shown
  <2> QED BY <1>0, <2>1, WindowsHold
<1>5. ShowsBest(CurrentSpans)
  <2> SUFFICES ASSUME NEW h \in OwnHits, \A k \in OwnHits \ {h} : Better(h, k)
               PROVE  \E s \in CurrentSpans : s.chat = reader /\ h[2] \in s.messages
    BY DEF ShowsBest
  <2>1. PICK w \in Windows(OwnHits) : w[1] = reader /\ h[2] \in w[2]
    BY BestHitIsFollowed
  <2>2. h[1] = reader /\ ~MessageAt(h[1], h[2]).query
    BY DEF OwnHits, Matching
  <2>3. h[2] \in shown(w)
    BY <2>1, <2>2
  <2> DEFINE s == Span(w[1], shown(w), HitsIn(OwnHits, w))
  <2>4. s.chat = reader /\ s.messages = shown(w)
    BY <2>1 DEF Span
  <2>5. s \in CurrentSpans
    BY <1>1
  <2> HIDE DEF s
  <2> QED BY <2>3, <2>4, <2>5
<1> QED BY <1>1, <1>3, <1>4, <1>5

LEMMA SummarySpansHold ==
  ASSUME SpanShapes, NEW scope
  PROVE  Apart(SummarySpans(scope)) /\ \A s \in SummarySpans(scope) : QuotesBest(s)
<1>1. \A s \in SummarySpans(scope) : \E chat \in Chats : \E chunk \in Chunks(chat) :
        s = Span(chat, chunk, chunk)
  <2>1. InactiveChats(scope) \subseteq Chats
    BY DEF InactiveChats, SpanShapes
  <2> QED BY <2>1 DEF SummarySpans
<1>2. ASSUME NEW chat \in Chats, NEW chunk \in Chunks(chat)
      PROVE  chunk \in SUBSET Positions(chat) /\ chunk # {}
  BY DEF Chunks
<1>3. ASSUME NEW chat \in Chats, NEW c \in Chunks(chat), NEW d \in Chunks(chat), c \cap d # {}
      PROVE  c = d
  BY <1>3 DEF Chunks
<1>4. \A s \in SummarySpans(scope) : QuotesBest(s)
  BY <1>1, <1>2, BestIsQuoted
<1>5. Apart(SummarySpans(scope))
  BY <1>1, <1>3 DEF Apart, Span
<1> QED BY <1>4, <1>5

LEMMA ExplicitSpansHold ==
  ASSUME SpanShapes, NEW chat, NEW first, NEW last, NEW anchors, NEW asking
  PROVE  LET shown == ExplicitSpans(Chats, chat, first, last, anchors, asking) IN
         Apart(shown) /\ \A s \in shown : QuotesBest(s)
<1> DEFINE span == Positions(chat) \cap (first .. last)
           wanted == IF anchors \cap span # {} THEN anchors \cap span
                     ELSE IF asking THEN {BestOf(chat, span)} ELSE span
           shown == ExplicitSpans(Chats, chat, first, last, anchors, asking)
<1>1. shown = IF chat \notin Chats \/ span = {} THEN {} ELSE {Span(chat, span, wanted)}
  BY DEF ExplicitSpans
<1>2. ASSUME chat \in Chats, span # {}
      PROVE  QuotesBest(Span(chat, span, wanted))
  <2>1. span \in SUBSET Positions(chat)
    OBVIOUS
  <2> HIDE DEF span
  <2>2. BestOf(chat, span) \in span
    BY <1>2, <2>1, BestOfIs
  <2>3. wanted \in SUBSET span /\ wanted # {}
    BY <1>2, <2>2
  <2> HIDE DEF wanted
  <2> QED BY <1>2, <2>1, <2>3, BestIsQuoted
<1> HIDE DEF span, wanted, shown
<1>3. Apart(shown) /\ \A s \in shown : QuotesBest(s)
  BY <1>1, <1>2 DEF Apart
<1> QED BY <1>3 DEF shown

(* bounded_messages: the window is part of the span.                       *)
LEMMA WindowIsInSpan ==
  ASSUME SpanShapes, NEW chat \in Chats, NEW a \in Positions(chat), NEW b \in Positions(chat),
         a <= b, a .. b \subseteq Positions(chat)
  PROVE  BoundedWindow(chat, a .. b) # {} /\ BoundedWindow(chat, a .. b) \subseteq a .. b
<1> DEFINE span == a .. b
           n == ChunkMessages
           best == LastId(MostTerms(chat, span))
           before == IF best > FirstId(span) + n \div 2 THEN best - n \div 2 ELSE FirstId(span)
           first == IF before + n <= LastId(span) + 1 THEN before ELSE LastId(span) + 1 - n
<1>0. a \in Nat /\ b \in Nat /\ n \in Nat \ {0} /\ n \div 2 \in Nat
  <2>1. a \in Nat /\ b \in Nat /\ n \in Nat \ {0}
    BY PositionsAreNumbers, LimitsAssumption
  <2> HIDE DEF n
  <2> QED BY <2>1
<1>1. span \in SUBSET Nat /\ span # {} /\ IsFiniteSet(span) /\ span \in SUBSET Positions(chat)
  <2>1. a \in span
    BY <1>0
  <2> HIDE DEF span
  <2> QED BY <2>1, PositionsAreNumbers DEF span
<1>2. Cardinality(span) = b - a + 1
  <2>1. a \in Int /\ b \in Int /\ ~(a > b)
    BY <1>0
  <2> QED BY <2>1, FS_Interval
<1>3. FirstId(span) = a /\ LastId(span) = b
  <2>1. /\ FirstId(span) \in span /\ \A j \in span : FirstId(span) <= j
        /\ LastId(span) \in span /\ \A j \in span : j <= LastId(span)
    <3> HIDE DEF span
    <3> QED BY <1>1, FirstIdIs, LastIdIs
  <2>2. a \in span /\ b \in span
    BY <1>0
  <2>3. FirstId(span) <= a /\ b <= LastId(span)
    BY <2>1, <2>2
  <2>4. FirstId(span) \in a .. b /\ LastId(span) \in a .. b
    BY <2>1
  <2> HIDE DEF span
  <2> QED BY <1>0, <2>3, <2>4
<1>4. best \in span
  <2> HIDE DEF span
  <2>1. MostTerms(chat, span) # {} /\ MostTerms(chat, span) \subseteq span
    BY <1>1, MostTermsExist
  <2>2. MostTerms(chat, span) \in SUBSET Nat /\ IsFiniteSet(MostTerms(chat, span))
    BY <1>1, <2>1, FS_Subset
  <2> QED BY <2>1, <2>2, LastIdIs
<1>5. BoundedWindow(chat, span) = IF Cardinality(span) <= n THEN span ELSE first .. (first + n - 1)
  BY DEF BoundedWindow
<1>6. CASE Cardinality(span) <= n
  <2> HIDE DEF first, n
  <2> QED BY <1>1, <1>5, <1>6
<1>7. CASE ~(Cardinality(span) <= n)
  <2>0. best \in a .. b
    BY <1>4
  <2> HIDE DEF best, span, n
  <2>1. before \in Nat /\ a <= before /\ n < b - a + 1
    BY <1>0, <1>2, <1>3, <1>7, <2>0
  <2> HIDE DEF before
  <2>2. first \in Nat /\ a <= first /\ first + n - 1 <= b
    BY <1>0, <1>3, <2>1
  <2> HIDE DEF first
  <2>3. first \in first .. (first + n - 1) /\ first .. (first + n - 1) \subseteq a .. b
    BY <1>0, <2>2
  <2> QED BY <1>5, <1>7, <2>3 DEF span
<1> QED BY <1>6, <1>7

LEMMA ExpansionsHold ==
  ASSUME SpanShapes, NEW shown \in SUBSET gistTable
  PROVE  Apart(Expansions(shown)) /\ \A s \in Expansions(shown) : QuotesBest(s)
<1> DEFINE expanded(chat, run) ==
             Span(chat, BoundedWindow(chat, run), GistAnchors(chat, BoundedWindow(chat, run)))
<1>0. shown \in SUBSET StoredGists
  BY DEF SpanShapes
<1>1. \A s \in Expansions(shown) : \E chat \in Chats : \E run \in MergeRequests(chat, shown) :
        s = expanded(chat, run)
  BY DEF Expansions
<1>2. ASSUME NEW chat \in Chats, NEW run \in MergeRequests(chat, shown)
      PROVE  /\ BoundedWindow(chat, run) # {} /\ BoundedWindow(chat, run) \subseteq run
             /\ run \subseteq Positions(chat)
  <2>1. PICK a \in Positions(chat), b \in Positions(chat) :
          run = a .. b /\ a <= b /\ run \subseteq Positions(chat)
    BY RequestsAreSpans
  <2> QED BY <2>1, WindowIsInSpan
<1>3. ASSUME NEW chat \in Chats, NEW run \in MergeRequests(chat, shown)
      PROVE  QuotesBest(expanded(chat, run))
  <2> DEFINE window == BoundedWindow(chat, run)
  <2>1. window \in SUBSET Positions(chat) /\ window # {}
    BY <1>2
  <2> HIDE DEF window
  <2>2. window \in SUBSET Nat /\ IsFiniteSet(window)
    BY <2>1, PositionsAreNumbers
  <2>3. LastId(window) \in window
    BY <2>1, <2>2, LastIdIs
  <2>4. GistAnchors(chat, window) \in SUBSET window /\ GistAnchors(chat, window) # {}
    BY <2>1, <2>3, MostTermsExist DEF GistAnchors
  <2>5. QuotesBest(Span(chat, window, GistAnchors(chat, window)))
    BY <2>1, <2>4, BestIsQuoted
  <2> QED BY <2>5 DEF window
<1>4. Apart(Expansions(shown))
  <2> SUFFICES ASSUME NEW chat \in Chats, NEW r \in MergeRequests(chat, shown),
                      NEW t \in MergeRequests(chat, shown),
                      BoundedWindow(chat, r) \cap BoundedWindow(chat, t) # {}
               PROVE  r = t
    <3>1. \A chat \in Chats : \A r \in MergeRequests(chat, shown) :
            expanded(chat, r).chat = chat /\ expanded(chat, r).messages = BoundedWindow(chat, r)
      BY DEF Span
    <3> HIDE DEF expanded
    <3> QED BY <1>1, <3>1 DEF Apart
  <2>1. r \cap t # {}
    BY <1>2
  <2> QED BY <1>0, <2>1, RequestsThatMeetAreOne
<1> HIDE DEF expanded
<1> QED BY <1>1, <1>3, <1>4

LEMMA AnswerHolds ==
  ASSUME SpanInv, NEW path, NEW shown, Answer(path, shown),
         Apart(shown), \A s \in shown : QuotesBest(s),
         path # "nothing", path = "current" => ShowsBest(shown)
  PROVE  SpanInv'
<1>1. /\ spans' = shown /\ asked' = path
      /\ UNCHANGED <<transcript, inactive, gistTable, reader>>
  BY DEF Answer
<1>2. SpanShapes'
  BY <1>1 DEF SpanInv, SpanShapes, Chats, Positions
<1>3. Apart(spans)' /\ \A s \in spans' : QuotesBest(s)'
  BY <1>1 DEF Apart, QuotesBest, MessageAt
<1>4. asked' = "current" => ShowsBest(spans)'
  BY <1>1 DEF ShowsBest, OwnHits, Matching, Better, Score, MessageAt, Positions
<1> QED BY <1>1, <1>2, <1>3, <1>4 DEF SpanInv

THEOREM SpanInvariant == SpanSpec => []SpanInv
<1>1. SpanInit => SpanInv
  BY SeenAssumption DEF SpanInit, SpanInv, SpanShapes, Apart
<1>2. SpanInv /\ [SpanNext]_spanVars => SpanInv'
  <2> SUFFICES ASSUME SpanInv, [SpanNext]_spanVars PROVE SpanInv'
    OBVIOUS
  <2>0. SpanShapes
    BY DEF SpanInv
  <2>1. ASSUME NEW scope \in Scopes, RetrieveDirect(scope) PROVE SpanInv'
    BY <2>0, <2>1, DirectSpansHold, AnswerHolds DEF RetrieveDirect
  <2>2. CASE RetrieveCurrent
    BY <2>0, <2>2, CurrentSpansHold, AnswerHolds DEF RetrieveCurrent
  <2>3. CASE RetrieveSummary
    BY <2>0, <2>3, SummarySpansHold, AnswerHolds DEF RetrieveSummary
  <2>4. ASSUME NEW chat, NEW first, NEW last, NEW anchors, NEW asking,
               RetrieveExplicit(chat, first, last, anchors, asking)
        PROVE  SpanInv'
    BY <2>0, <2>4, ExplicitSpansHold, AnswerHolds DEF RetrieveExplicit
  <2>5. ASSUME NEW source, NEW summary, RetrieveGists(source, summary) PROVE SpanInv'
    <3>1. PICK shown \in FoundGists(source, summary) : Answer("gists", Expansions(shown))
      BY <2>5 DEF RetrieveGists
    <3>2. shown \in SUBSET gistTable
      BY DEF FoundGists, PreviousGists, CurrentGists
    <3> QED BY <2>0, <3>1, <3>2, ExpansionsHold, AnswerHolds
  <2>6. CASE UNCHANGED spanVars
    BY <2>6 DEF spanVars, SpanInv, SpanShapes, Chats, Positions, Apart, QuotesBest, MessageAt,
                ShowsBest, OwnHits, Matching, Better, Score
  <2> QED BY <2>1, <2>2, <2>3, <2>4, <2>5, <2>6 DEF SpanNext
<1> QED BY <1>1, <1>2, PTL DEF SpanSpec

(* Retrieval of raw messages: for every transcript, gists and limits, one  *)
(* search gives no message twice, quotes a best match in every span and    *)
(* finds the best hit of the chat.                                         *)
THEOREM BestMatchesStayQuoted == SpanSpec => []BestMatchesAreQuotedOnce
<1>1. SpanInv => BestMatchesAreQuotedOnce
  <2> SUFFICES ASSUME SpanInv PROVE BestMatchesAreQuotedOnce
    OBVIOUS
  <2>1. Apart(spans) /\ SpanShapes /\ \A s \in spans : QuotesBest(s)
    BY DEF SpanInv
  <2>2. asked = "current" /\ OwnHits # {} =>
          \E s \in spans : s.chat = reader /\ BestHitOf(OwnHits)[2] \in s.messages
    <3> SUFFICES ASSUME asked = "current", OwnHits # {}
                 PROVE  \E s \in spans : s.chat = reader /\ BestHitOf(OwnHits)[2] \in s.messages
      OBVIOUS
    <3>1. ShowsBest(spans)
      BY DEF SpanInv
    <3> QED BY <2>1, <3>1, BestHitIs DEF ShowsBest
  <2> QED BY <2>1, <2>2 DEF BestMatchesAreQuotedOnce, Apart, QuotesBest
<1> QED BY <1>1, SpanInvariant, PTL

-----------------------------------------------------------------------------
(***************************************************************************)
(* What a search quotes, for any set of documents, files, names and        *)
(* limits.  A hit is about a document of the scope, and until it is        *)
(* expanded it quotes the chunk that was found (HitsAreFound); expanding   *)
(* adds the neighbours the store has at that moment, among them every      *)
(* chunk that has been there all along.                                    *)
(***************************************************************************)

QuotedBy(text) == {text[i] : i \in DOMAIN text}
Passage(text, index) ==
  /\ index \in QuotedBy(text) /\ \A i \in 2 .. Len(text) : text[i] = text[i - 1] + 1
  /\ QuotedBy(text) \subseteq {index} \cup NextTo(index)
NothingLeftOut(text, hit) ==
  hit.index # 0 => \A i \in NextTo(hit.index) : <<hit.paper, i>> \in lasting => i \in QuotedBy(text)

Quote(k) ==
  /\ found[k].paper \in ScopeSet(docQuery) /\ Passage(found[k].text, found[k].index)
  /\ lookup = "expanded" => NothingLeftOut(found[k].text, found[k])

\* a hit that has not been expanded
IsFound(hit, r) ==
  /\ hit = [paper |-> hit.paper, index |-> hit.index, text |-> hit.text]
  /\ hit.paper \in ScopeSet(r) /\ hit.index \in Nat /\ hit.text = <<hit.index>>

HitsAreFound ==
  lookup \in {"searched", "ranked"} => \A k \in DOMAIN found : IsFound(found[k], docQuery)

PaperInv ==
  /\ PaperTypeOK /\ HitsAreFound
  /\ lookup = "idle" => found = <<>>
  /\ lookup = "expanded" => \A k \in DOMAIN found : Quote(k)

(* An indexed document has finitely many chunks, numbered from 1.          *)
LEMMA ChunksAreNumbered ==
  ASSUME NEW p \in Papers, NEW file \in PdfFiles
  PROVE  /\ ChunksOf(p, NormalizedLines(file)) \subseteq Papers \X (Nat \ {0})
         /\ IsFiniteSet(ChunksOf(p, NormalizedLines(file)))
<1>1. NormalizedLines(file) \subseteq DOMAIN file.lines
  BY DEF NormalizedLines
<1>2. IsFiniteSet(NormalizedLines(file))
  BY <1>1, PapersAssumption, FS_Subset
<1>3. Cardinality(NormalizedLines(file)) \in Nat
  BY <1>2, FS_CardinalityType
<1> DEFINE n == Cardinality(NormalizedLines(file))
<1>4. ChunksOf(p, NormalizedLines(file)) = {p} \X (1 .. n) /\ n \in Nat
  BY <1>3 DEF ChunksOf
<1> HIDE DEF n
<1>5. IsFiniteSet({p}) /\ IsFiniteSet(1 .. n)
  <2>1. 1 \in Int /\ n \in Int
    BY <1>4
  <2>2. IsFiniteSet(1 .. n)
    BY <2>1, FS_Interval, Zenon
  <2> QED BY <2>2, FS_Singleton
<1>6. IsFiniteSet({p} \X (1 .. n))
  BY <1>5, FS_Product
<1>7. {p} \X (1 .. n) \subseteq Papers \X (Nat \ {0})
  BY <1>4
<1> QED BY <1>4, <1>6, <1>7

(* The scope of a search lists documents, and a summary is of its first.   *)
LEMMA SummariesAreFound ==
  ASSUME NEW r \in DocQueries, NEW asks \in BOOLEAN
  PROVE  /\ \A k \in DOMAIN SummaryHits(r, asks) : IsFound(SummaryHits(r, asks)[k], r)
         /\ SummaryHits(r, asks) = <<>> \/
              \E hit : SummaryHits(r, asks) = <<hit>> /\ IsFound(hit, r)
<1>1. CASE SummaryHits(r, asks) = <<>>
  BY <1>1
<1>2. CASE SummaryHits(r, asks) # <<>>
  <2> DEFINE hit == [paper |-> r.scope[1], index |-> 0, text |-> <<0>>]
  <2>1. r.scope \notin {NoScope, <<>>} /\ SummaryHits(r, asks) = <<hit>>
    BY <1>2 DEF SummaryHits
  <2>2. r.scope \in SearchScopes
    BY DEF DocQueries
  <2>3. PICK n \in 0 .. 2 : r.scope \in [1 .. n -> Searchable]
    BY <2>1, <2>2 DEF SearchScopes
  <2>4. n # 0
    BY <2>1, <2>3
  <2>5. 1 \in DOMAIN r.scope
    BY <2>3, <2>4
  <2>6. r.scope[1] \in ScopeSet(r)
    BY <2>1, <2>5 DEF ScopeSet
  <2>7. IsFound(hit, r)
    BY <2>6 DEF IsFound
  <2> HIDE DEF hit
  <2> QED BY <2>1, <2>7
<1> QED BY <1>1, <1>2

(* The chunks a search returns are a list of hits in its scope.            *)
LEMMA ResultsAreFound ==
  ASSUME PaperTypeOK, NEW r \in DocQueries, NEW listed \in SearchResults(r)
  PROVE  \E n \in Nat :
           /\ DOMAIN listed = 1 .. n
           /\ \A k \in 1 .. n : IsFound(ChunkHit(listed[k]), r)
<1> DEFINE inScope == {c \in chunkStore : c[1] \in ScopeSet(r)}
           n == IF Cardinality(inScope) < FetchLimit THEN Cardinality(inScope) ELSE FetchLimit
<1>1. IsFiniteSet(inScope)
  BY FS_Subset DEF PaperTypeOK
<1>2. Cardinality(inScope) \in Nat
  BY <1>1, FS_CardinalityType
<1>3. n \in Nat
  BY <1>2, PapersAssumption
<1>4. listed \in [1 .. n -> inScope]
  BY DEF SearchResults
<1>5. \A c \in inScope : IsFound(ChunkHit(c), r)
  BY DEF PaperTypeOK, ChunkHit, IsFound
<1> HIDE DEF n, inScope
<1> QED BY <1>3, <1>4, <1>5

LEMMA SearchPapersStep ==
  ASSUME PaperInv, NEW r \in DocQueries, SearchPapers(r)
  PROVE  PaperInv'
<1>1. /\ lookup' = "searched" /\ docQuery' = r /\ lasting' = chunkStore
      /\ UNCHANGED <<paper, chunkStore>> /\ PaperTypeOK
  BY DEF SearchPapers, PaperInv
<1>2. ScopeSet(r)' = ScopeSet(r)
  BY DEF ScopeSet
<1>3. \A k \in DOMAIN found' : IsFound(found'[k], r)
  <2>1. CASE r.scope = <<>>
    BY <2>1 DEF SearchPapers
  <2>2. CASE r.scope # <<>>
    <3>1. PICK listed \in SearchResults(r) :
            LET results == [i \in DOMAIN listed |-> ChunkHit(listed[i])]
                first == SummaryHits(r, r.summary) \o results IN
            found' = IF first = <<>> /\ r.scope # NoScope THEN SummaryHits(r, AsksSummary(r)) ELSE first
      BY <2>2 DEF SearchPapers
    <3> DEFINE results == [i \in DOMAIN listed |-> ChunkHit(listed[i])]
               summary == SummaryHits(r, r.summary)
    <3>2. found' \in {SummaryHits(r, AsksSummary(r)), summary \o results}
      BY <3>1
    <3>3. PICK n \in Nat : /\ DOMAIN listed = 1 .. n
                           /\ \A k \in 1 .. n : IsFound(ChunkHit(listed[k]), r)
      BY <1>1, ResultsAreFound
    <3>4. /\ DOMAIN results = 1 .. n /\ Len(results) = n
          /\ \A k \in 1 .. n : IsFound(results[k], r)
      BY <3>3
    <3>5. r.summary \in BOOLEAN /\ AsksSummary(r) \in BOOLEAN
      BY DEF DocQueries, AsksSummary
    <3>6. summary = <<>> \/ \E hit : summary = <<hit>> /\ IsFound(hit, r)
      BY <3>5, SummariesAreFound
    <3>7. \A k \in DOMAIN SummaryHits(r, AsksSummary(r)) : IsFound(SummaryHits(r, AsksSummary(r))[k], r)
      BY <3>5, SummariesAreFound
    <3> HIDE DEF results, summary
    <3>8. \A k \in DOMAIN (summary \o results) : IsFound((summary \o results)[k], r)
      <4>1. CASE summary = <<>>
        BY <3>3, <3>4, <4>1
      <4>2. ASSUME NEW hit, summary = <<hit>>, IsFound(hit, r)
            PROVE  \A k \in DOMAIN (summary \o results) : IsFound((summary \o results)[k], r)
        <5>1. /\ DOMAIN (summary \o results) = 1 .. (n + 1)
              /\ (summary \o results)[1] = hit
              /\ \A k \in 2 .. (n + 1) : (summary \o results)[k] = results[k - 1]
          BY <3>3, <3>4, <4>2
        <5>2. \A k \in 2 .. (n + 1) : k - 1 \in 1 .. n
          BY <3>3
        <5> QED BY <3>3, <3>4, <4>2, <5>1, <5>2
      <4> QED BY <3>6, <4>1, <4>2
    <3> QED BY <3>2, <3>7, <3>8
  <2> QED BY <2>1, <2>2
<1>4. PaperTypeOK'
  BY <1>1 DEF PaperTypeOK
<1> QED BY <1>1, <1>3, <1>4 DEF PaperInv, HitsAreFound, IsFound, ScopeSet

LEMMA JoinOne ==
  ASSUME NEW S, NEW s \in Seq(S), NEW e \in S
  PROVE  LET t == s \o <<e>> IN
         /\ t \in Seq(S) /\ Len(t) = Len(s) + 1
         /\ t[Len(s) + 1] = e /\ \A i \in 1 .. Len(s) : t[i] = s[i]
<1> DEFINE t == s \o <<e>>
<1>1. t \in Seq(S) /\ Len(t) = Len(s) + 1
  OBVIOUS
<1>2. t = Append(s, e)
  OBVIOUS
<1> QED BY <1>1, <1>2

(* The chunks around a hit, as far as the store has them, with the hit     *)
(* between them.                                                           *)
LEMMA ExpandedIsOnePassage ==
  ASSUME PaperInv, lookup = "ranked", NEW k \in DOMAIN found
  PROVE  /\ Passage(ExpandedText(k), found[k].index)
         /\ NothingLeftOut(ExpandedText(k), found[k])
<1>1. IsFound(found[k], docQuery) /\ lasting \subseteq chunkStore
  BY DEF PaperInv, HitsAreFound, PaperTypeOK
<1> DEFINE index == found[k].index
<1>2. index \in Nat /\ found[k].text = <<index>>
  BY <1>1 DEF IsFound
<1>3. CASE index = 0
  BY <1>2, <1>3 DEF ExpandedText, Passage, NothingLeftOut, QuotedBy
<1>5. found[k].index = index
  OBVIOUS
<1>4. CASE index # 0
  <2> DEFINE Part(i) == IF <<k, i>> \in Needed(found) /\ <<found[k].paper, i>> \in chunkStore
                          THEN <<i>> ELSE <<>>
  <2>1. ExpandedText(k) = Part(index - 1) \o <<index>> \o Part(index + 1)
    BY <1>2, <1>4 DEF ExpandedText
  <2>2. \A i : <<k, i>> \in Needed(found) <=> i \in NextTo(index)
    BY <1>4 DEF Needed, ChunkHits
  <2>3. index + 1 \in NextTo(index) /\ (index - 1 \in NextTo(index) <=> index - 1 # 0)
        /\ index - 1 \in Nat
    BY <1>2, <1>4 DEF NextTo
  <2> DEFINE before == index - 1 # 0 /\ <<found[k].paper, index - 1>> \in chunkStore
             after == <<found[k].paper, index + 1>> \in chunkStore
  <2>4. Part(index - 1) = IF before THEN <<index - 1>> ELSE <<>>
    BY <2>2, <2>3
  <2>5. Part(index + 1) = IF after THEN <<index + 1>> ELSE <<>>
    BY <2>2, <2>3
  <2>6. \A i \in NextTo(index) : <<found[k].paper, i>> \in lasting =>
          (i = index - 1 /\ before) \/ (i = index + 1 /\ after)
    BY <1>1 DEF NextTo
  <2>7. /\ before => index - 1 \in NextTo(index)
        /\ index + 1 \in NextTo(index)
    BY <2>3
  <2> HIDE DEF Part, index, before, after
  <2> DEFINE middle == Part(index - 1) \o <<index>>
             text == middle \o Part(index + 1)
  <2>8. /\ middle \in Seq(Nat)
        /\ before => Len(middle) = 2 /\ middle[1] = index - 1 /\ middle[2] = index
        /\ ~before => Len(middle) = 1 /\ middle[1] = index
    <3>1. CASE before
      <4>1. Part(index - 1) = <<index - 1>>
        BY <2>4, <3>1
      <4>2. middle = <<index - 1>> \o <<index>>
        BY <4>1, Zenon
      <4> HIDE DEF middle
      <4>3. <<index - 1>> \in Seq(Nat) /\ Len(<<index - 1>>) = 1 /\ <<index - 1>>[1] = index - 1
        BY <1>2, <2>3
      <4> QED BY <1>2, <3>1, <4>2, <4>3, JoinOne
    <3>2. CASE ~before
      <4>1. Part(index - 1) = <<>>
        BY <2>4, <3>2
      <4>2. middle = <<>> \o <<index>>
        BY <4>1, Zenon
      <4> HIDE DEF middle
      <4>3. <<>> \in Seq(Nat) /\ Len(<<>>) = 0
        OBVIOUS
      <4> QED BY <1>2, <3>2, <4>2, <4>3, JoinOne
    <3> QED BY <3>1, <3>2
  <2>9. ExpandedText(k) = text
    BY <2>1
  <2> HIDE DEF middle
  <2>10. /\ after => /\ text \in Seq(Nat) /\ Len(text) = Len(middle) + 1
                     /\ text[Len(middle) + 1] = index + 1
                     /\ \A i \in 1 .. Len(middle) : text[i] = middle[i]
         /\ ~after => text = middle
    <3>1. CASE after
      <4>1. Part(index + 1) = <<index + 1>>
        BY <2>5, <3>1
      <4>2. text = middle \o <<index + 1>>
        BY <4>1, Zenon
      <4>3. index + 1 \in Nat /\ Len(middle) \in Nat
        BY <1>2, <2>8
      <4> HIDE DEF text
      <4> QED BY <2>8, <3>1, <4>2, <4>3, JoinOne
    <3>2. CASE ~after
      <4>1. Part(index + 1) = <<>>
        BY <2>5, <3>2
      <4>2. text = middle \o <<>>
        BY <4>1, Zenon
      <4> HIDE DEF text
      <4> QED BY <2>8, <3>2, <4>2
    <3> QED BY <3>1, <3>2
  <2> HIDE DEF text
  <2>11. /\ middle \in Seq(Nat) /\ text \in Seq(Nat)
         /\ before => Len(middle) = 2 /\ middle[1] = index - 1 /\ middle[2] = index
         /\ ~before => Len(middle) = 1 /\ middle[1] = index
    BY <2>8, <2>10
  <2>12. CASE before /\ after
    <3>1. DOMAIN text = {1, 2, 3} /\ Len(text) = 3 /\ text[1] = index - 1 /\ text[2] = index /\ text[3] = index + 1
      <4>0. Len(middle) = 2
        BY <2>11, <2>12
      <4>1. Len(middle) = 2 /\ Len(text) = 3
        <5>1. Len(text) = Len(middle) + 1
          BY <2>10, <2>12
        <5> QED BY <4>0, <5>1
      <4>2. DOMAIN text = 1 .. 3
        BY <2>11, <4>1
      <4>3. text[3] = index + 1 /\ \A i \in 1 .. 2 : text[i] = middle[i]
        BY <2>10, <2>12, <4>1
      <4> QED BY <2>11, <2>12, <4>1, <4>2, <4>3
    <3>2. QuotedBy(text) = {index - 1, index, index + 1}
      BY <3>1 DEF QuotedBy
    <3>3. \A i \in 2 .. Len(text) : text[i] = text[i - 1] + 1
      BY <1>2, <2>3, <3>1
    <3> QED BY <1>5, <2>6, <2>7, <2>9, <2>12, <3>2, <3>3 DEF Passage, NothingLeftOut
  <2>13. CASE before /\ ~after
    <3>1. DOMAIN text = {1, 2} /\ Len(text) = 2 /\ text[1] = index - 1 /\ text[2] = index
      BY <2>10, <2>11, <2>13
    <3>2. QuotedBy(text) = {index - 1, index}
      BY <3>1 DEF QuotedBy
    <3>3. \A i \in 2 .. Len(text) : text[i] = text[i - 1] + 1
      BY <1>2, <2>3, <3>1
    <3> QED BY <1>5, <2>6, <2>7, <2>9, <2>13, <3>2, <3>3 DEF Passage, NothingLeftOut
  <2>14. CASE ~before /\ after
    <3>1. DOMAIN text = {1, 2} /\ Len(text) = 2 /\ text[1] = index /\ text[2] = index + 1
      <4>0. Len(middle) = 1
        BY <2>11, <2>14
      <4>1. Len(middle) = 1 /\ Len(text) = 2
        <5>1. Len(text) = Len(middle) + 1
          BY <2>10, <2>14
        <5> QED BY <4>0, <5>1
      <4>2. DOMAIN text = 1 .. 2
        BY <2>11, <4>1
      <4>3. text[2] = index + 1 /\ \A i \in 1 .. 1 : text[i] = middle[i]
        BY <2>10, <2>14, <4>1
      <4> QED BY <2>11, <2>14, <4>1, <4>2, <4>3
    <3>2. QuotedBy(text) = {index, index + 1}
      BY <3>1 DEF QuotedBy
    <3>3. \A i \in 2 .. Len(text) : text[i] = text[i - 1] + 1
      BY <1>2, <2>3, <3>1
    <3> QED BY <1>5, <2>6, <2>7, <2>9, <2>14, <3>2, <3>3 DEF Passage, NothingLeftOut
  <2>15. CASE ~before /\ ~after
    <3>1. DOMAIN text = {1} /\ Len(text) = 1 /\ text[1] = index
      BY <2>10, <2>11, <2>15
    <3>2. QuotedBy(text) = {index}
      BY <3>1 DEF QuotedBy
    <3>3. \A i \in 2 .. Len(text) : text[i] = text[i - 1] + 1
      BY <1>2, <2>3, <3>1
    <3> QED BY <1>5, <2>6, <2>7, <2>9, <2>15, <3>2, <3>3 DEF Passage, NothingLeftOut
  <2> QED BY <2>12, <2>13, <2>14, <2>15
<1> QED BY <1>3, <1>4

(* The second read of the store, or its failure.                           *)
LEMMA ExpandStep ==
  ASSUME PaperInv, ExpandNeighbors \/ ExpansionFails
  PROVE  PaperInv'
<1>1. lookup = "ranked" /\ lookup' = "expanded" /\ UNCHANGED <<paper, chunkStore, docQuery>>
      /\ lasting' \subseteq lasting /\ PaperTypeOK
  BY DEF ExpandNeighbors, ExpansionFails, PaperInv
<1>2. PaperTypeOK'
  BY <1>1 DEF PaperTypeOK
<1>3. \A k \in DOMAIN found : IsFound(found[k], docQuery)
  BY <1>1 DEF PaperInv, HitsAreFound
<1>4. ScopeSet(docQuery)' = ScopeSet(docQuery)
  BY <1>1 DEF ScopeSet
<1>5. ASSUME ExpandNeighbors, NEW k \in DOMAIN found'
      PROVE  Quote(k)'
  <2> DEFINE text == ExpandedText(k)
  <2>1. k \in DOMAIN found /\ found'[k] = [found[k] EXCEPT !.text = text] /\ lasting' = lasting
    BY <1>5 DEF ExpandNeighbors
  <2>2. found'[k].paper = found[k].paper /\ found'[k].index = found[k].index /\ found'[k].text = text
    BY <1>3, <2>1 DEF IsFound
  <2>3. found[k].paper \in ScopeSet(docQuery)
    BY <1>3, <2>1 DEF IsFound
  <2>4. Passage(text, found[k].index) /\ NothingLeftOut(text, found[k])
    BY <1>1, <2>1, ExpandedIsOnePassage
  <2> HIDE DEF text
  <2> QED BY <1>4, <2>1, <2>2, <2>3, <2>4 DEF Quote, Passage, NothingLeftOut
<1>6. ASSUME ExpansionFails, NEW k \in DOMAIN found'
      PROVE  Quote(k)'
  <2>1. found' = found /\ lasting' = {} /\ IsFound(found[k], docQuery) /\ k \in DOMAIN found
    BY <1>3, <1>6 DEF ExpansionFails
  <2> QED BY <1>4, <2>1 DEF Quote, IsFound, Passage, NothingLeftOut, QuotedBy
<1> QED BY <1>1, <1>2, <1>5, <1>6 DEF PaperInv, HitsAreFound

LEMMA RankFoundStep ==
  ASSUME PaperInv, NEW kept \in KeptOrders, RankFound(kept)
  PROVE  PaperInv'
<1>1. /\ lookup = "searched" /\ lookup' = "ranked"
      /\ found' = [i \in DOMAIN kept |-> found[kept[i]]]
      /\ UNCHANGED <<paper, chunkStore, docQuery, lasting>> /\ PaperTypeOK
  BY DEF RankFound, PaperInv
<1>2. \A i \in DOMAIN kept : kept[i] \in DOMAIN found
  BY DEF KeptOrders
<1>3. \A k \in DOMAIN found : IsFound(found[k], docQuery)
  BY <1>1 DEF PaperInv, HitsAreFound
<1>4. \A k \in DOMAIN found' : IsFound(found'[k], docQuery)
  BY <1>1, <1>2, <1>3
<1>5. PaperTypeOK'
  BY <1>1 DEF PaperTypeOK
<1>6. \A k \in DOMAIN found' : IsFound(found[k], docQuery)'
  <2> SUFFICES ASSUME NEW k \in DOMAIN found' PROVE IsFound(found[k], docQuery)'
    OBVIOUS
  <2>1. ScopeSet(docQuery)' = ScopeSet(docQuery)
    BY <1>1 DEF ScopeSet
  <2> QED BY <1>1, <1>4, <2>1 DEF IsFound
<1>7. HitsAreFound'
  BY <1>6 DEF HitsAreFound
<1> QED BY <1>1, <1>5, <1>7 DEF PaperInv

(* Uploads and deletions leave what was found alone.                       *)
LEMMA PaperStep ==
  ASSUME PaperInv, UNCHANGED <<lookup, docQuery, found>>, lasting' \subseteq lasting, PaperTypeOK'
  PROVE  PaperInv'
<1>1. ScopeSet(docQuery)' = ScopeSet(docQuery)
  BY DEF ScopeSet
<1> QED BY <1>1 DEF PaperInv, HitsAreFound, IsFound, Quote, Passage, NothingLeftOut

THEOREM PaperInvariant == PaperSpec => []PaperInv
<1>1. PaperInit => PaperInv
  <2> SUFFICES ASSUME PaperInit PROVE PaperInv
    OBVIOUS
  <2>1. IsFiniteSet({})
    BY FS_EmptySet
  <2> QED BY <2>1 DEF PaperInit, PaperInv, PaperTypeOK, HitsAreFound, Unlisted
<1>2. PaperInv /\ [PaperNext]_paperVars => PaperInv'
  <2> SUFFICES ASSUME PaperInv, [PaperNext]_paperVars PROVE PaperInv'
    OBVIOUS
  <2>0. PaperTypeOK
    BY DEF PaperInv
  <2>1. ASSUME NEW p \in Papers, NEW file \in PdfFiles, LoadAndIndex(p, file)
        PROVE  PaperInv'
    <3>1. IsFiniteSet(chunkStore')
      BY <2>0, <2>1, ChunksAreNumbered, FS_Union DEF LoadAndIndex, PaperTypeOK
    <3>2. PaperTypeOK'
      BY <2>0, <2>1, <3>1, ChunksAreNumbered DEF LoadAndIndex, PaperTypeOK
    <3> QED BY <2>1, <3>2, PaperStep DEF LoadAndIndex
  <2>2. ASSUME NEW p \in Papers, NEW file \in PdfFiles, LoadIsRefused(p, file)
        PROVE  PaperInv'
    BY <2>0, <2>2, PaperStep DEF LoadIsRefused, PaperTypeOK
  <2>3. ASSUME NEW p \in Papers, NEW made \in BOOLEAN, Summarize(p, made)
        PROVE  PaperInv'
    BY <2>0, <2>3, PaperStep DEF Summarize, PaperTypeOK
  <2>4. ASSUME NEW p \in Papers, RemovePaperChunks(p)
        PROVE  PaperInv'
    <3>1. IsFiniteSet(chunkStore') /\ chunkStore' \subseteq chunkStore
      BY <2>0, <2>4, FS_Subset DEF RemovePaperChunks, PaperTypeOK
    <3> QED BY <2>0, <2>4, <3>1, PaperStep DEF RemovePaperChunks, PaperTypeOK
  <2>5. ASSUME NEW p \in Papers, DeletePaper(p)
        PROVE  PaperInv'
    BY <2>0, <2>5, PaperStep DEF DeletePaper, PaperTypeOK, Unlisted
  <2>6. ASSUME NEW r \in DocQueries, SearchPapers(r)
        PROVE  PaperInv'
    BY <2>6, SearchPapersStep
  <2>7. ASSUME NEW r \in DocQueries, ChromaIsUnavailable(r)
        PROVE  PaperInv'
    BY <2>0, <2>7 DEF ChromaIsUnavailable, PaperInv, PaperTypeOK, HitsAreFound
  <2>8. ASSUME NEW kept \in KeptOrders, RankFound(kept)
        PROVE  PaperInv'
    BY <2>8, RankFoundStep
  <2>9. CASE ExpandNeighbors \/ ExpansionFails
    BY <2>9, ExpandStep
  <2>10. CASE LookupEnds
    BY <2>0, <2>10 DEF LookupEnds, PaperInv, PaperTypeOK, HitsAreFound
  <2>11. CASE UNCHANGED paperVars
    BY <2>0, <2>11, PaperStep DEF paperVars, PaperTypeOK
  <2> QED BY <2>1, <2>2, <2>3, <2>4, <2>5, <2>6, <2>7, <2>8, <2>9, <2>10, <2>11 DEF PaperNext
<1> QED BY <1>1, <1>2, PTL DEF PaperSpec

(* The store holds finitely many numbered chunks of documents, and what    *)
(* was there ever since a search is still there.                           *)
THEOREM PapersTyped == PaperSpec => []PaperTypeOK
<1>1. PaperInv => PaperTypeOK
  BY DEF PaperInv
<1> QED BY <1>1, PaperInvariant, PTL

(* LangChainChromaRetriever.retrieve and _expand_neighbors: what a hit     *)
(* quotes is one passage of a document in the turn's scope, with every     *)
(* neighbour that was stored all along, through uploads and deletions      *)
(* between the two reads of the store.                                     *)
THEOREM HitsStayOnePassage == PaperSpec => []HitsQuoteOnePassage
<1>1. PaperInv => HitsQuoteOnePassage
  <2> SUFFICES ASSUME PaperInv, NEW k \in DOMAIN found PROVE Quote(k)
    BY DEF HitsQuoteOnePassage, Quote, Passage, NothingLeftOut, QuotedBy
  <2>1. CASE lookup = "expanded"
    BY <2>1 DEF PaperInv
  <2>2. CASE lookup = "idle"
    BY <2>2 DEF PaperInv
  <2>3. CASE lookup \in {"searched", "ranked"}
    <3>1. IsFound(found[k], docQuery)
      BY <2>3 DEF PaperInv, HitsAreFound
    <3> QED BY <2>3, <3>1 DEF Quote, IsFound, Passage, QuotedBy
  <2> QED BY <2>1, <2>2, <2>3 DEF PaperInv, PaperTypeOK
<1> QED BY <1>1, PaperInvariant, PTL

=============================================================================
