----------------------------- MODULE Services_proofs -----------------------------
(***************************************************************************)
(* Theorems of the services side by side, for every value of their         *)
(* constants: each of them behaves in the composition as it does alone, so *)
(* what is proved of a component holds of the services, and MCServices     *)
(* restricts a component, never adds to it.                                *)
(***************************************************************************)
EXTENDS MCServices, Turn_proofs, ContextSelection_proofs, Database_proofs, Browser_proofs,
        EvalRun_proofs

-----------------------------------------------------------------------------
(* Every component starts as it does alone.                                *)
LEMMA PartsStart ==
  ASSUME ServicesInit
  PROVE  /\ RoutingInit /\ PipelineInit /\ GuardInit /\ SelectionInit /\ RerankInit /\ StoreInit
         /\ BatchesInit /\ SpanInit /\ ForkInit /\ TabInit /\ EvalInit /\ PageInit /\ PromptInit
         /\ ChatPageInit /\ CountInit /\ ProposalInit /\ PaperInit
  BY DEF ServicesInit, Asleep

(* A step of the services is a step of each component, or leaves it alone. *)
LEMMA PartsStep ==
  ASSUME [ServicesNext]_servicesVars
  PROVE  /\ [RoutingNext]_routingVars
         /\ [PipelineNext]_pipelineVars
         /\ [GuardNext]_guardVars
         /\ [SelectionNext]_selectionVars
         /\ [RerankNext]_rerankVars
         /\ [StoreNext]_storeVars
         /\ [BatchesNext]_batchVars
         /\ [SpanNext]_spanVars
         /\ [ForkNext]_forkVars
         /\ [TabNext]_tabVars
         /\ [EvalNext]_evalVars
         /\ [PageNext]_pageVars
         /\ [PromptNext]_promptVars
         /\ [ChatPageNext]_chatPageVars
         /\ [CountNext]_countVars
         /\ [ProposalNext]_proposalVars
         /\ [PaperNext]_paperVars
<1>1. CASE UNCHANGED servicesVars
  BY <1>1 DEF servicesVars
<1>2. [RoutingNext]_routingVars
  BY <1>1 DEF ServicesNext, Only
<1>3. [PipelineNext]_pipelineVars
  BY <1>1 DEF ServicesNext, Only
<1>4. [GuardNext]_guardVars
  BY <1>1 DEF ServicesNext, Only
<1>5. [SelectionNext]_selectionVars
  BY <1>1 DEF ServicesNext, Only
<1>6. [RerankNext]_rerankVars
  BY <1>1 DEF ServicesNext, Only
<1>7. [StoreNext]_storeVars
  BY <1>1 DEF ServicesNext, Only
<1>8. [BatchesNext]_batchVars
  BY <1>1 DEF ServicesNext, Only
<1>9. [SpanNext]_spanVars
  BY <1>1 DEF ServicesNext, Only
<1>10. [ForkNext]_forkVars
  BY <1>1 DEF ServicesNext, Only
<1>11. [TabNext]_tabVars
  BY <1>1 DEF ServicesNext, Only
<1>12. [EvalNext]_evalVars
  BY <1>1 DEF ServicesNext, Only
<1>13. [PageNext]_pageVars
  BY <1>1 DEF ServicesNext, Only
<1>14. [PromptNext]_promptVars
  BY <1>1 DEF ServicesNext, Only
<1>15. [ChatPageNext]_chatPageVars
  BY <1>1 DEF ServicesNext, Only
<1>16. [CountNext]_countVars
  BY <1>1 DEF ServicesNext, Only
<1>17. [ProposalNext]_proposalVars
  BY <1>1 DEF ServicesNext, Only
<1>18. [PaperNext]_paperVars
  BY <1>1 DEF ServicesNext, Only
<1> QED
  BY <1>2, <1>3, <1>4, <1>5, <1>6, <1>7, <1>8, <1>9, <1>10, <1>11, <1>12, <1>13, <1>14, <1>15,
     <1>16, <1>17, <1>18

-----------------------------------------------------------------------------
(* The services are their components: a behaviour of MCServices is one of  *)
(* the turn's routing and pipeline, of its context, of the stores, of the  *)
(* browser and of an evaluation, so that every theorem about a component   *)
(* holds of the services that the run checks.                              *)
THEOREM ServicesAreTheirParts ==
  ServicesSpec =>
    /\ RoutingSpec /\ PipelineSpec /\ GuardSpec /\ SelectionSpec /\ RerankSpec /\ StoreSpec
    /\ BatchesSpec /\ SpanSpec /\ ForkSpec /\ TabSpec /\ EvalSpec /\ PageSpec /\ PromptSpec
    /\ ChatPageSpec /\ CountSpec /\ ProposalSpec /\ PaperSpec
<1>1. ServicesSpec => RoutingSpec
  BY PartsStart, PartsStep, PTL DEF ServicesSpec, RoutingSpec
<1>2. ServicesSpec => PipelineSpec
  BY PartsStart, PartsStep, PTL DEF ServicesSpec, PipelineSpec
<1>3. ServicesSpec => GuardSpec
  BY PartsStart, PartsStep, PTL DEF ServicesSpec, GuardSpec
<1>4. ServicesSpec => SelectionSpec
  BY PartsStart, PartsStep, PTL DEF ServicesSpec, SelectionSpec
<1>5. ServicesSpec => RerankSpec
  BY PartsStart, PartsStep, PTL DEF ServicesSpec, RerankSpec
<1>6. ServicesSpec => StoreSpec
  BY PartsStart, PartsStep, PTL DEF ServicesSpec, StoreSpec
<1>7. ServicesSpec => BatchesSpec
  BY PartsStart, PartsStep, PTL DEF ServicesSpec, BatchesSpec
<1>8. ServicesSpec => SpanSpec
  BY PartsStart, PartsStep, PTL DEF ServicesSpec, SpanSpec
<1>9. ServicesSpec => ForkSpec
  BY PartsStart, PartsStep, PTL DEF ServicesSpec, ForkSpec
<1>10. ServicesSpec => TabSpec
  BY PartsStart, PartsStep, PTL DEF ServicesSpec, TabSpec
<1>11. ServicesSpec => EvalSpec
  BY PartsStart, PartsStep, PTL DEF ServicesSpec, EvalSpec
<1>12. ServicesSpec => PageSpec
  BY PartsStart, PartsStep, PTL DEF ServicesSpec, PageSpec
<1>13. ServicesSpec => PromptSpec
  BY PartsStart, PartsStep, PTL DEF ServicesSpec, PromptSpec
<1>14. ServicesSpec => ChatPageSpec
  BY PartsStart, PartsStep, PTL DEF ServicesSpec, ChatPageSpec
<1>15. ServicesSpec => CountSpec
  BY PartsStart, PartsStep, PTL DEF ServicesSpec, CountSpec
<1>16. ServicesSpec => ProposalSpec
  BY PartsStart, PartsStep, PTL DEF ServicesSpec, ProposalSpec
<1>17. ServicesSpec => PaperSpec
  BY PartsStart, PartsStep, PTL DEF ServicesSpec, PaperSpec
<1> QED
  BY <1>1, <1>2, <1>3, <1>4, <1>5, <1>6, <1>7, <1>8, <1>9, <1>10, <1>11, <1>12, <1>13, <1>14,
     <1>15, <1>16, <1>17

(* The type invariant of the services, of every instance: whichever part   *)
(* moves, its state is of its type.                                        *)
THEOREM ServicesTyped == ServicesSpec => []TypesOK
<1>1. /\ PipelineTypeOK /\ GuardTypeOK /\ SelectionTypeOK /\ RerankTypeOK /\ StoreTypeOK
      /\ BatchesTypeOK /\ ForkTypeOK /\ TabTypeOK /\ EvalTypeOK /\ PageTypeOK /\ PromptTypeOK
      /\ ChatPageTypeOK /\ CountTypeOK /\ ProposalTypeOK /\ PaperTypeOK
      => TypesOK
  BY DEF TypesOK
<1>2. ServicesSpec => []PipelineTypeOK
  BY ServicesAreTheirParts, TurnsTyped, PTL
<1>3. ServicesSpec => []GuardTypeOK
  BY ServicesAreTheirParts, GuardTyped, PTL
<1>4. ServicesSpec => []SelectionTypeOK
  BY ServicesAreTheirParts, SelectionTyped, PTL
<1>5. ServicesSpec => []RerankTypeOK
  BY ServicesAreTheirParts, RankingTyped, PTL
<1>6. ServicesSpec => []StoreTypeOK
  BY ServicesAreTheirParts, StoreTyped, PTL
<1>7. ServicesSpec => []BatchesTypeOK
  BY ServicesAreTheirParts, LogTyped, PTL
<1>8. ServicesSpec => []ForkTypeOK
  BY ServicesAreTheirParts, ForkTyped, PTL
<1>9. ServicesSpec => []TabTypeOK
  BY ServicesAreTheirParts, TabTyped, PTL
<1>10. ServicesSpec => []EvalTypeOK
  BY ServicesAreTheirParts, EvalTyped, PTL
<1>11. ServicesSpec => []PageTypeOK
  BY ServicesAreTheirParts, RecordPagesTyped, PTL
<1>12. ServicesSpec => []PromptTypeOK
  BY ServicesAreTheirParts, PromptsTyped, PTL
<1>13. ServicesSpec => []ChatPageTypeOK
  BY ServicesAreTheirParts, ChatPageTyped, PTL
<1>14. ServicesSpec => []CountTypeOK
  BY ServicesAreTheirParts, CountersTyped, PTL
<1>15. ServicesSpec => []ProposalTypeOK
  BY ServicesAreTheirParts, ProposalsTyped, PTL
<1>16. ServicesSpec => []PaperTypeOK
  BY ServicesAreTheirParts, PapersTyped, PTL
<1> QED
  BY <1>1, <1>2, <1>3, <1>4, <1>5, <1>6, <1>7, <1>8, <1>9, <1>10, <1>11, <1>12, <1>13, <1>14,
     <1>15, <1>16, PTL

=============================================================================
