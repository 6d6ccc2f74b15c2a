------------------------------- MODULE MC_Tasks -------------------------------
(***************************************************************************)
(* One run for three state machines whose tasks and saves wait for one      *)
(* another inside each and share nothing between them: the hotkey's         *)
(* threads, the tasks that transcribe, and the secrets.  `part` picks the   *)
(* one that moves; the others rest in an initial state, as in MC_Hub.       *)
(***************************************************************************)
EXTENDS HotkeyListener, Transcription, Secrets

VARIABLE part

Parts == {"hotkey", "transcription", "secrets"}

tasksVars == <<part, vars, transcriptionVars, secretsVars>>

TasksInit ==
  /\ part \in Parts
  /\ part # "secrets" => persistent = FALSE
  /\ Init /\ TranscriptionInit /\ SecretsInit

TasksNext ==
  \/ part = "hotkey" /\ Next /\ UNCHANGED <<part, transcriptionVars, secretsVars>>
  \/ part = "transcription" /\ TranscriptionNext /\ UNCHANGED <<part, vars, secretsVars>>
  \/ part = "secrets" /\ SecretsNext /\ UNCHANGED <<part, vars, transcriptionVars>>

TasksSpec == TasksInit /\ [][TasksNext]_tasksVars

\* The fairness of each part is asked of it where it is the one that moves.
Listens(A) == part = "hotkey" /\ A
Runs(A) == part = "transcription" /\ A

HotkeyFairness ==
  /\ WF_vars(Listens(Forward)) /\ WF_vars(Listens(Debounce))
  /\ WF_vars(Listens(SendAction)) /\ WF_vars(Listens(Receive))

TranscriptionFairness ==
  /\ WF_transcriptionVars(Runs(TakeChunk)) /\ WF_transcriptionVars(Runs(Transcribe))
  /\ WF_transcriptionVars(Runs(RefineTimeout)) /\ WF_transcriptionVars(Runs(Answer))
  /\ WF_transcriptionVars(Runs(ForwardState)) /\ WF_transcriptionVars(Runs(AppReceives))
  /\ WF_transcriptionVars(Runs(LingerElapses)) /\ WF_transcriptionVars(Runs(TrayDoneTick))

FairTasksSpec == TasksSpec /\ HotkeyFairness /\ TranscriptionFairness
=============================================================================
