------------------------------- MODULE Reranking --------------------------------
(***************************************************************************)
(* MemoryReranker.rank_with_trace: a deterministic ranking, and after it,  *)
(* by mode, a cross encoder, a language model, or both in a cascade.       *)
(* Every optional stage may fail; the order before it then stands.         *)
(*                                                                         *)
(* A candidate is a record [source, score, skip]: its deterministic score  *)
(* in coarse steps (the weighted features are not recomputed) and whether  *)
(* it asks not to be ranked.  A ranking is a sequence of places in the     *)
(* list that was retrieved: the reranker's candidate ids c0, c1, ...       *)
(***************************************************************************)
EXTENDS Naturals, FiniteSets, Sequences

CONSTANTS
  Retrieved,  \* the lists of candidates that are tried
  EncoderTop, \* cross_encoder_top_k
  ModelTop    \* llm_top_k, of a hybrid ranking

Scores == 0 .. 2
Hits == [source : STRING, score : Scores, skip : BOOLEAN]

ASSUME TopAssumption == EncoderTop \in Nat \ {0} /\ ModelTop \in Nat \ {0}
ASSUME RetrievedAssumption == Retrieved \subseteq Seq(Hits)

VARIABLES
  list,          \* the candidates as they were retrieved
  query,         \* [provenance, decision : BOOLEAN]: what the query asks for
  method, backend, \* of the reranker and of its hybrid mode
  stage,
  order,         \* the ranking so far
  score,         \* the score of every candidate so far
  encoderUsed, modelUsed, fallback \* what the trace says

rerankVars == <<list, query, method, backend, stage, order, score, encoderUsed,
                modelUsed, fallback>>
request == <<list, query, method, backend>>

RerankerModes == {"deterministic", "cross_encoder", "hybrid", "llm"}
Backends == {"auto", "cross_encoder", "llm"}
CEScorableSources == {"document_memory", "structured_memory"}

Places == DOMAIN list
Named(ranking) == {ranking[n] : n \in DOMAIN ranking}

\* by falling value; equal values in the order of the retrieval
Above(i, j, value) == value[i] > value[j] \/ (value[i] = value[j] /\ i < j)
Standing(i, places, value) == Cardinality({j \in places : Above(j, i, value)})
Sorted(places, value) ==
  [n \in 1 .. Cardinality(places) |-> CHOOSE i \in places : Standing(i, places, value) = n - 1]

RerankInit ==
  /\ list \in Retrieved
  /\ query \in [provenance : BOOLEAN, decision : BOOLEAN]
  /\ method \in RerankerModes /\ backend \in Backends
  /\ (method # "hybrid" => backend = "auto")
  /\ stage = "deterministic" /\ order = <<>> /\ score = [i \in Places |-> list[i].score]
  /\ encoderUsed = FALSE /\ modelUsed = FALSE /\ fallback = FALSE

Trace(encoder, model, back) ==
  encoderUsed' = encoder /\ modelUsed' = model /\ fallback' = back

\* _deterministic_rank, and which stage follows it
RankDeterministically ==
  /\ stage = "deterministic"
  /\ order' = Sorted(Places, score)
  /\ stage' = CASE method = "deterministic" \/ Len(list) < 2 -> "done"
                [] method = "llm" -> "model"
                [] method = "hybrid" /\ backend = "llm" -> "gate"
                [] OTHER -> "encode"
  /\ UNCHANGED <<request, score, encoderUsed, modelUsed, fallback>>

-----------------------------------------------------------------------------
(* The cross encoder sees the best EncoderTop candidates, and of them only *)
(* the documents and structured memories that want to be ranked.           *)

Best(top) == SubSeq(order, 1, IF top < Len(order) THEN top ELSE Len(order))
Pool(top) == Named(Best(top))
Scorable(i) == list[i].source \in CEScorableSources /\ ~list[i].skip
Encodable == {i \in Pool(EncoderTop) : Scorable(i)}
\* candidates below the pool keep their places behind it
RestAfter(top) == SubSeq(order, top + 1, Len(order))
AfterEncoder == IF method = "hybrid" /\ backend # "cross_encoder" THEN "gate" ELSE "done"

\* Mutant: what the encoder does not score is lost
BugEncode(value) ==
  /\ stage = "encode" /\ method = "cross_encoder"
  /\ order' = Sorted(Encodable, value) \o RestAfter(EncoderTop)
  /\ score' = [i \in Places |-> IF i \in Encodable THEN value[i] ELSE score[i]]
  /\ stage' = AfterEncoder /\ Trace(TRUE, modelUsed, fallback)
  /\ UNCHANGED request

\* pure cross encoder: raw scores first, the other sources behind them
Encode(value) ==
  /\ stage = "encode" /\ method = "cross_encoder"
  /\ order' = Sorted(Encodable, value) \o Sorted(Pool(EncoderTop) \ Encodable, score)
                \o RestAfter(EncoderTop)
  /\ score' = [i \in Places |-> IF i \in Encodable THEN value[i] ELSE score[i]]
  /\ stage' = AfterEncoder /\ Trace(TRUE, modelUsed, fallback)
  /\ UNCHANGED request

\* raw and deterministic scores are normalized for each source: within one,
\* any mixture respects what both agree on
Normalized(raw, mixed) ==
  \A i, j \in Encodable :
    (list[i].source = list[j].source /\ raw[i] >= raw[j] /\ score[i] >= score[j])
      => mixed[i] >= mixed[j]

\* hybrid: the mixture ranks the pool, where the other candidates keep their score
Blend(raw, mixed) ==
  /\ stage = "encode" /\ method = "hybrid" /\ Normalized(raw, mixed)
  /\ LET after == [i \in Places |-> IF i \in Encodable THEN mixed[i] ELSE score[i]] IN
       score' = after /\ order' = Sorted(Pool(EncoderTop), after) \o RestAfter(EncoderTop)
  /\ stage' = AfterEncoder /\ Trace(TRUE, modelUsed, fallback)
  /\ UNCHANGED request

\* the model cannot be loaded, raises, or its scores are not valid
EncoderFails ==
  /\ stage = "encode" /\ Encodable # {}
  /\ stage' = AfterEncoder /\ Trace(FALSE, modelUsed, TRUE)
  /\ UNCHANGED <<request, order, score>>

-----------------------------------------------------------------------------
(* The language model of a hybrid ranking is asked when the leading        *)
(* candidates conflict: llm_gate_decision.                                 *)

TopSources == {list[i].source : i \in Pool(3)}
\* the two best scores are close: a step apart at most
Ambiguous == LET a == score[order[1]] b == score[order[2]] IN a <= b + 1 /\ b <= a + 1
Disagree == order[1] # Sorted(Places, [i \in Places |-> list[i].score])[1]
AskModel(needsConflict) ==
  IF /\ query.provenance \/ query.decision
     /\ {"previous_chat_gist", "raw_message_span"} \subseteq TopSources
    THEN TRUE
    ELSE IF Cardinality(TopSources) > 1 THEN Ambiguous \/ Disagree
         ELSE ~needsConflict /\ Ambiguous

Gate(needsConflict) ==
  /\ stage = "gate"
  /\ stage' = IF AskModel(needsConflict) THEN "model" ELSE "done"
  /\ UNCHANGED <<request, order, score, encoderUsed, modelUsed, fallback>>

ModelPool == IF method = "hybrid" THEN ModelTop ELSE Len(order)
\* a valid answer names candidates of the pool, none of them twice
Answers == {a \in UNION {[1 .. n -> Pool(ModelPool)] : n \in 1 .. Len(order)} :
              \A m, n \in DOMAIN a : m # n => a[m] # a[n]}

\* apply_llm_order: named candidates, the others of the pool as they stood, the rest
PlaceOf(i) == CHOOSE n \in DOMAIN order : order[n] = i
ModelOrder(answer) ==
  answer \o Sorted(Pool(ModelPool) \ Named(answer), [i \in Places |-> Len(order) - PlaceOf(i)])
         \o RestAfter(ModelPool)

ModelRanks(answer) ==
  /\ stage = "model" /\ answer \in Answers
  /\ order' = ModelOrder(answer) /\ stage' = "done"
  /\ Trace(encoderUsed, TRUE, FALSE)
  /\ UNCHANGED <<request, score>>

\* no model, an error, an answer that is not valid or not confident enough
ModelFails ==
  /\ stage = "model" /\ stage' = "done"
  /\ Trace(encoderUsed, FALSE, TRUE)
  /\ UNCHANGED <<request, order, score>>

RerankNext ==
  \/ RankDeterministically \/ EncoderFails \/ ModelFails
  \/ \E value \in [Places -> Scores] : Encode(value)
  \/ \E raw, mixed \in [Encodable -> Scores] : Blend(raw, mixed)
  \/ \E needsConflict \in BOOLEAN : Gate(needsConflict)
  \/ \E answer \in Answers : ModelRanks(answer)
RerankSpec == RerankInit /\ [][RerankNext]_rerankVars

-----------------------------------------------------------------------------
(* Properties.                                                             *)

RerankTypeOK ==
  /\ stage \in {"deterministic", "encode", "gate", "model", "done"}
  /\ order \in Seq(Places) /\ score \in [Places -> Scores]
  /\ {encoderUsed, modelUsed, fallback} \subseteq BOOLEAN

(* Whatever a stage returns or leaves out, every candidate that was        *)
(* retrieved is ranked, and none of them twice.                            *)
RankingIsAPermutation ==
  stage # "deterministic" =>
    /\ Len(order) = Len(list) /\ Named(order) = Places

=============================================================================
