------------------------------ MODULE TokenCounting -----------------------------
(***************************************************************************)
(* How tokens are counted (GemmaTokenEstimator): with the model's          *)
(* processor, else with its tokenizer, else approximately.  The context    *)
(* manager and the short-term memory hold an estimator each, worker        *)
(* threads share them without a lock, and the loaded assets are cached     *)
(* once per process under one lock, failures as well as successes.  An     *)
(* action is one access to a shared cell.                                  *)
(***************************************************************************)
CONSTANTS
  Counters,   \* worker threads that count
  Estimators, \* the estimators of the process, of one tokenizer_id
  NoCounter   \* the lock is free

ASSUME CountingAssumption == NoCounter \notin Counters /\ Estimators # {}

VARIABLES
  cache,     \* _PROCESSOR_CACHE and _TOKENIZER_CACHE with their failures
  cacheLock, \* the thread inside _TOKENIZER_CACHE_LOCK
  held,      \* the assets each estimator keeps: _processor, _tokenizer
  attempted, \* ... has tried to load: _processor_load_attempted, ...
  failed,    \* ... reports as failed: _processor_failure, ...
  fellBack,  \* ... reports as having refused the last call's input
  count      \* what each thread is doing

countVars == <<cache, cacheLock, held, attempted, failed, fellBack, count>>

Assets == {"processor", "tokenizer"}
CountSteps == {"idle", "held?", "attempted?", "mark", "wait", "load", "keep",
               "fail", "use", "approximate"}
LoadingSteps == {"wait", "load", "keep", "fail"}

Counting(step, e, a) == [step |-> step, by |-> e, asset |-> a]

CountInit ==
  /\ cache = [a \in Assets |-> "unknown"] /\ cacheLock = NoCounter
  /\ held = [e \in Estimators |-> {}] /\ attempted = [e \in Estimators |-> {}]
  /\ failed = [e \in Estimators |-> {}] /\ fellBack = [e \in Estimators |-> {}]
  /\ count = [c \in Counters |-> Counting("idle", CHOOSE e \in Estimators : TRUE, "processor")]

-----------------------------------------------------------------------------
(* count_text and count_messages of something that is not empty.           *)

CountAt(c, step) == count[c].step = step
CountGoes(c, step) == count' = [count EXCEPT ![c] = Counting(step, @.by, @.asset)]
\* after the processor the tokenizer, after the tokenizer the approximation
NextAsset(c) ==
  count' = [count EXCEPT ![c] =
              IF @.asset = "processor" THEN Counting("held?", @.by, "tokenizer")
              ELSE Counting("approximate", @.by, "tokenizer")]

BeginCount(c, e) ==
  /\ CountAt(c, "idle") /\ count' = [count EXCEPT ![c] = Counting("held?", e, "processor")]
  /\ fellBack' = [fellBack EXCEPT ![e] = {}]
  /\ UNCHANGED <<cache, cacheLock, held, attempted, failed>>

AssetCounts(c) == /\ CountAt(c, "use") /\ CountGoes(c, "idle")
           /\ UNCHANGED <<cache, cacheLock, held, attempted, failed, fellBack>>
\* the asset refuses the text, or the messages and their serialization
AssetRefuses(c) ==
  /\ CountAt(c, "use") /\ NextAsset(c)
  /\ fellBack' = [fellBack EXCEPT ![count[c].by] = @ \cup {count[c].asset}]
  /\ UNCHANGED <<cache, cacheLock, held, attempted, failed>>

Approximated(c) ==
  /\ CountAt(c, "approximate") /\ CountGoes(c, "idle")
  /\ UNCHANGED <<cache, cacheLock, held, attempted, failed, fellBack>>

-----------------------------------------------------------------------------
(* _resolve_processor and _resolve_tokenizer: the attempt is marked before *)
(* the load and the asset is kept after it.                                *)

SeeHeld(c) ==
  /\ CountAt(c, "held?")
  /\ CountGoes(c, IF count[c].asset \in held[count[c].by] THEN "use" ELSE "attempted?")
  /\ UNCHANGED <<cache, cacheLock, held, attempted, failed, fellBack>>

SeeAttempted(c) ==
  /\ CountAt(c, "attempted?")
  /\ IF count[c].asset \in attempted[count[c].by] THEN NextAsset(c) ELSE CountGoes(c, "mark")
  /\ UNCHANGED <<cache, cacheLock, held, attempted, failed, fellBack>>

MarkAttempted(c) ==
  /\ CountAt(c, "mark") /\ CountGoes(c, "wait")
  /\ attempted' = [attempted EXCEPT ![count[c].by] = @ \cup {count[c].asset}]
  /\ UNCHANGED <<cache, cacheLock, held, failed, fellBack>>

KeepAsset(c) ==
  /\ CountAt(c, "keep") /\ CountGoes(c, "use")
  /\ held' = [held EXCEPT ![count[c].by] = @ \cup {count[c].asset}]
  /\ UNCHANGED <<cache, cacheLock, attempted, failed, fellBack>>

LoadFailed(c) ==
  /\ CountAt(c, "fail") /\ NextAsset(c)
  /\ failed' = [failed EXCEPT ![count[c].by] = @ \cup {count[c].asset}]
  /\ UNCHANGED <<cache, cacheLock, held, attempted, fellBack>>

-----------------------------------------------------------------------------
(* cached_auto_processor and cached_auto_tokenizer.                        *)

\* what a cached result lets the thread do next
AfterLoad(state) == IF state = "loaded" THEN "keep" ELSE "fail"

EnterCached(c) ==
  /\ CountAt(c, "wait") /\ cacheLock = NoCounter /\ cache[count[c].asset] # "unknown"
  /\ CountGoes(c, AfterLoad(cache[count[c].asset]))
  /\ UNCHANGED <<cache, cacheLock, held, attempted, failed, fellBack>>

EnterToLoad(c) ==
  /\ CountAt(c, "wait") /\ cacheLock = NoCounter /\ cache[count[c].asset] = "unknown"
  /\ cacheLock' = c /\ CountGoes(c, "load")
  /\ UNCHANGED <<cache, held, attempted, failed, fellBack>>

\* from_pretrained answers or raises
LoadEnds(c, state) ==
  /\ CountAt(c, "load") /\ cacheLock' = NoCounter
  /\ cache' = [cache EXCEPT ![count[c].asset] = state]
  /\ CountGoes(c, AfterLoad(state))
  /\ UNCHANGED <<held, attempted, failed, fellBack>>

Count(c) == \/ AssetCounts(c) \/ AssetRefuses(c) \/ Approximated(c)
            \/ \E e \in Estimators : BeginCount(c, e)
ResolveAsset(c) == SeeHeld(c) \/ SeeAttempted(c) \/ MarkAttempted(c) \/ KeepAsset(c) \/ LoadFailed(c)
CachedLoad(c) == \/ EnterCached(c) \/ EnterToLoad(c)
             \/ \E state \in {"loaded", "failed"} : LoadEnds(c, state)

CountNext == \E c \in Counters : Count(c) \/ ResolveAsset(c) \/ CachedLoad(c)
CountSpec == CountInit /\ [][CountNext]_countVars

-----------------------------------------------------------------------------
(* Properties.                                                             *)

CountTypeOK ==
  /\ cache \in [Assets -> {"unknown", "loaded", "failed"}]
  /\ cacheLock \in Counters \cup {NoCounter}
  /\ held \in [Estimators -> SUBSET Assets] /\ attempted \in [Estimators -> SUBSET Assets]
  /\ failed \in [Estimators -> SUBSET Assets] /\ fellBack \in [Estimators -> SUBSET Assets]
  /\ count \in [Counters -> [step : CountSteps, by : Estimators, asset : Assets]]

\* tokenizer_mode: the best way of counting the estimator still has
TokenizerMode(e) == IF "processor" \in held[e] THEN "model_template"
                    ELSE IF "tokenizer" \in held[e] THEN "text_tokenizer"
                    ELSE IF attempted[e] = Assets THEN "approximate" ELSE "model_template"

BeingLoaded(e, a) == \E c \in Counters : /\ count[c].step \in LoadingSteps
                                         /\ count[c].by = e /\ count[c].asset = a

(* An estimator that reports a worse mode than the model's template names  *)
(* the failure in fallback_reason, unless another thread is still loading  *)
(* the asset (the attempt is marked first: until the load is over the      *)
(* other threads count approximately, and no failure is reported).         *)
FallbackIsExplained ==
  \A e \in Estimators :
    /\ TokenizerMode(e) # "model_template" =>
         "processor" \in failed[e] \/ BeingLoaded(e, "processor")
    /\ TokenizerMode(e) = "approximate" =>
         "tokenizer" \in failed[e] \/ BeingLoaded(e, "tokenizer")

(* "Load processor assets once per process; cache failures as well as      *)
(* successes": at most one thread loads, never what is already cached, and *)
(* so no estimator keeps an asset that it or another one reports failed.   *)
AssetsLoadOnce ==
  /\ \A c \in Counters : CountAt(c, "load") => cacheLock = c /\ cache[count[c].asset] = "unknown"
  /\ \A e, f \in Estimators : held[e] \cap failed[f] = {}

=============================================================================
