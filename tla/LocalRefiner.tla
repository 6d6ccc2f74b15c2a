------------------------------ MODULE LocalRefiner ------------------------------
(***************************************************************************)
(* Refining with a model on this computer (whspr-refine: local_llm.rs,      *)
(* llama_local.rs; whspr-core: pipeline.rs).  Every turn runs its prompt on *)
(* a blocking thread, one thread at a time under the process-wide BACKEND   *)
(* lock, on a model that is loaded once and cached.  A turn that has waited *)
(* for refine_timeout goes on with the raw text; its thread does not know,  *)
(* and keeps its place at the lock.                                         *)
(*                                                                         *)
(* Time passes in ticks, and only when no thread and no turn has anything to*)
(* do at once: what takes time is loading, generating, and waiting for them.*)
(* One model file, which may come and go.                                   *)
(***************************************************************************)
EXTENDS Naturals, Sequences, FiniteSetsExt

CONSTANTS
  Pipelines,     (* that refine at the same time: the worker's, a file's     *)
  RefineTimeout, (* refine_timeout                                           *)
  LoadTicks,     (* what loading the model takes                             *)
  Needs,         (* what generating may take                                 *)
  MaxGens        (* bound: generations                                       *)

ASSUME RefinerAssumption ==
  /\ RefineTimeout \in Nat \ {0} /\ LoadTicks \in Nat /\ MaxGens \in Nat
  /\ Needs \subseteq Nat \ {0} /\ IsFiniteSet(Needs)

VARIABLES
  onDisk,   (* model_path.is_file()                                          *)
  cached,   (* the model is in MODEL_CACHE                                   *)
  gens,     (* the calls of generate so far                                  *)
  awaited,  (* of each pipeline: the generation its turn awaits, 0: none     *)
  waited,   (* of each pipeline: for how long                                *)
  fellBack  (* history: generations given up on for the raw text             *)

refinerVars == <<onDisk, cached, gens, awaited, waited, fellBack>>

\* `left`: of what it is doing now.  `cold`: history, none had a model before it.
\* `beside`: history, the generations under way at some time while it was.
Stages == {"starting", "locking", "loading", "generating", "done", "failed"}
Ended == {"done", "failed"}

Alive == {g \in DOMAIN gens : gens[g].stage \notin Ended}
Warm == {g \in DOMAIN gens : gens[g].stage \in {"generating", "done"}}
AtLock == {g \in DOMAIN gens : gens[g].stage = "locking"}
Running == {g \in DOMAIN gens : gens[g].stage \in {"loading", "generating"}}

\* mutant: a generation that fails keeps the lock
RunningOrFailed == Running \cup {g \in DOMAIN gens : gens[g].stage = "failed"}

\* Who has the BACKEND lock: the guard lives as long as generate does.
Holding == Running

RefinerInit ==
  /\ onDisk \in BOOLEAN /\ cached = FALSE /\ gens = <<>> /\ fellBack = {}
  /\ awaited = [p \in Pipelines |-> 0] /\ waited = [p \in Pipelines |-> 0]

To(g, stage, left) == gens' = [gens EXCEPT ![g].stage = stage, ![g].left = left]

\* run_with_transcript calls refine, which puts generate on a thread.
Refine(p) ==
  /\ awaited[p] = 0 /\ Len(gens) < MaxGens
  /\ \E need \in Needs :
       LET new == Len(gens) + 1
           beside == [g \in DOMAIN gens |->
                        IF g \in Alive THEN [gens[g] EXCEPT !.beside = @ \cup {new}] ELSE gens[g]]
       IN  /\ gens' = Append(beside, [stage |-> "starting", need |-> need, left |-> 0,
                                      cold |-> Warm = {}, beside |-> Alive \cup {new}])
           /\ awaited' = [awaited EXCEPT ![p] = new]
  /\ waited' = [waited EXCEPT ![p] = 0]
  /\ UNCHANGED <<onDisk, cached, fellBack>>

\* generate: without the file it fails before the lock, though the model be cached.
LookForModel(g) ==
  /\ gens[g].stage = "starting"
  /\ To(g, IF onDisk THEN "locking" ELSE "failed", 0)
  /\ UNCHANGED <<onDisk, cached, awaited, waited, fellBack>>

\* BACKEND.lock(): which of those that wait gets it, nobody says.
TakeLock(g) ==
  /\ g \in AtLock /\ Holding = {}
  /\ IF cached THEN To(g, "generating", gens[g].need) ELSE To(g, "loading", LoadTicks)
  /\ UNCHANGED <<onDisk, cached, awaited, waited, fellBack>>

\* mutant: the loaded model is used and forgotten
ModelLoadedUncached(g) ==
  /\ gens[g].stage = "loading" /\ gens[g].left = 0
  /\ To(g, "generating", gens[g].need)
  /\ UNCHANGED <<onDisk, cached, awaited, waited, fellBack>>

\* load_model, when the file can be read.
ModelLoaded(g) ==
  /\ gens[g].stage = "loading" /\ gens[g].left = 0
  /\ cached' = TRUE
  /\ To(g, "generating", gens[g].need)
  /\ UNCHANGED <<onDisk, awaited, waited, fellBack>>

Generated(g) ==
  /\ gens[g].stage = "generating" /\ gens[g].left = 0
  /\ To(g, "done", 0)
  /\ UNCHANGED <<onDisk, cached, awaited, waited, fellBack>>

\* A file that is no model, a prompt too long for the context, an error in decoding.
GenerateFails(g) ==
  /\ g \in Running
  /\ To(g, "failed", 0)
  /\ UNCHANGED <<onDisk, cached, awaited, waited, fellBack>>

\* The turn gets the refined text, or fails as a whole.
Answered(p) ==
  /\ awaited[p] # 0 /\ gens[awaited[p]].stage \in Ended
  /\ awaited' = [awaited EXCEPT ![p] = 0]
  /\ UNCHANGED <<onDisk, cached, gens, waited, fellBack>>

\* timeout elapsed: the turn goes on with the text as recognized.
FallBack(p) ==
  /\ awaited[p] # 0 /\ gens[awaited[p]].stage \notin Ended /\ waited[p] >= RefineTimeout
  /\ fellBack' = fellBack \cup {awaited[p]}
  /\ awaited' = [awaited EXCEPT ![p] = 0]
  /\ UNCHANGED <<onDisk, cached, gens, waited>>

\* The file is deleted in the Models tab, or downloaded.
ModelFileChanges == onDisk' = ~onDisk /\ UNCHANGED <<cached, gens, awaited, waited, fellBack>>

RefinerTick ==
  /\ \A g \in Alive : gens[g].stage # "starting"
  /\ \A g \in Running : gens[g].left > 0
  /\ AtLock \cup Running # {} /\ (AtLock # {} => Holding # {})
  /\ \A p \in Pipelines :
       awaited[p] # 0 => gens[awaited[p]].stage \notin Ended /\ waited[p] < RefineTimeout
  /\ gens' = [g \in DOMAIN gens |->
                IF g \in Running THEN [gens[g] EXCEPT !.left = @ - 1] ELSE gens[g]]
  /\ waited' = [p \in Pipelines |-> IF awaited[p] = 0 THEN 0 ELSE waited[p] + 1]
  /\ UNCHANGED <<onDisk, cached, awaited, fellBack>>

RefinerNext ==
  \/ \E p \in Pipelines : Refine(p) \/ Answered(p) \/ FallBack(p)
  \/ \E g \in DOMAIN gens :
       LookForModel(g) \/ TakeLock(g) \/ ModelLoaded(g) \/ Generated(g) \/ GenerateFails(g)
  \/ ModelFileChanges
  \/ RefinerTick

RefinerSpec == RefinerInit /\ [][RefinerNext]_refinerVars

-----------------------------------------------------------------------------
RefinerTypeOK ==
  /\ onDisk \in BOOLEAN /\ cached \in BOOLEAN
  /\ gens \in Seq([stage : Stages, need : Needs, left : Nat, cold : BOOLEAN,
                   beside : SUBSET (1..MaxGens)])
  /\ awaited \in [Pipelines -> 0..Len(gens)] /\ waited \in [Pipelines -> 0..RefineTimeout]
  /\ fellBack \subseteq DOMAIN gens

\* pipeline.rs falls back for "a slow/hung refiner", and local_llm.rs loads a model once:
\* a turn is left with its raw text only if the work under way beside its own really
\* takes that long, the model's loading counted where nothing was loaded yet.
\* Neither a failed nor an abandoned generation delays later turns beyond its own need.
FallsBackForAReason ==
  \A g \in fellBack :
    LET work == MapThenSumSet(LAMBDA h : gens[h].need, gens[g].beside)
        loads == Cardinality({h \in gens[g].beside : gens[h].cold})
    IN  work + loads * LoadTicks >= RefineTimeout
=============================================================================
