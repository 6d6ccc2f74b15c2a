---------------------------- MODULE Transcription ----------------------------
(***************************************************************************)
(* From a finished chunk to the text on the user's screen.  The worker's   *)
(* processor task runs the pipeline (whspr-core/pipeline.rs) on one chunk  *)
(* at a time; a forwarder task carries the pipeline's state reports; both, *)
(* through senders of their own, feed the channel the app reads            *)
(* (whspr-app: worker/mod.rs, worker/processor.rs).  The app updates the   *)
(* tray and the transcript (worker_events.rs, tray_state.rs), and runs     *)
(* transcriptions of its own for the record button and for files (app.rs). *)
(*                                                                         *)
(* A chunk is its number; a reported state carries the chunk it is about,  *)
(* which only the properties read.  Where chunks come from is CaptureSession: *)
(* here a capture is open or not, and may queue a chunk when split or      *)
(* closed.                                                                 *)
(***************************************************************************)
EXTENDS Naturals, Sequences, FiniteSets

CONSTANTS
  OutputCapacity, (* the output channel: its buffer and one slot per sender  *)
  BackendsFail,   (* transcribing a hotkey chunk may return an error         *)
  MaxChunks,      (* bound of the model on hotkey chunks                     *)
  MaxJobs         (* bound of the model on the app's own transcriptions      *)

ASSUME OutputAssumption == OutputCapacity \in Nat \ {0}
ASSUME BoundsAssumption == MaxChunks \in Nat /\ MaxJobs \in Nat /\ BackendsFail \in BOOLEAN

PipelineState == {"idle", "recording", "transcribing", "refining", "error"}
TrayVisual == {"idle", "recording", "processing", "done"}

VARIABLES
  capturing,     (* the session's capture is open                            *)
  submitted,     (* chunks queued so far: they are 1..submitted              *)
  queue,         (* the chunks channel                                       *)
  stage,         (* where the processor is with its chunk                    *)
  chunk,         (* the chunk it took last                                   *)
  states,        (* the state channel, the forwarder's hand included         *)
  output,        (* the channel of worker events                             *)
  pipelineState, (* State::pipeline_state                                    *)
  tray,          (* the visual drawn by the tray icon                        *)
  linger,        (* State::tray_done_until: none, pending or past            *)
  isRecording,   (* State::is_recording: the record button's capture is open *)
  jobs,          (* the app's own transcriptions in flight                   *)
  started,       (* how many of those were started                           *)
  answered       (* history: the hotkey chunks whose outcome the app has seen *)

sessionVars == <<capturing, submitted>>
processorVars == <<stage, chunk>>
trayVars == <<pipelineState, tray, linger>>
buttonVars == <<isRecording, jobs, started>>
transcriptionVars ==
  <<sessionVars, queue, processorVars, states, output, trayVars, buttonVars, answered>>

Report == [state : PipelineState, of : Nat]
Event ==
  [kind : {"stateChanged"}, state : PipelineState, of : Nat]
    \cup [kind : {"completed", "failed"}, of : Nat]

-----------------------------------------------------------------------------
(* The session *)

SendChunk ==
  /\ submitted < MaxChunks
  /\ submitted' = submitted + 1
  /\ queue' = Append(queue, submitted')

OpenCapture ==
  /\ ~capturing /\ capturing' = TRUE
  /\ UNCHANGED <<submitted, queue, processorVars, states, output, trayVars, buttonVars, answered>>

\* Auto-send: the chunk so far is queued, recording goes on.
SplitCapture ==
  /\ capturing /\ SendChunk
  /\ UNCHANGED <<capturing, processorVars, states, output, trayVars, buttonVars, answered>>

\* Finalized, or discarded as a tap or a silent remainder.
CloseCapture ==
  /\ capturing /\ capturing' = FALSE
  /\ SendChunk \/ UNCHANGED <<submitted, queue>>
  /\ UNCHANGED <<processorVars, states, output, trayVars, buttonVars, answered>>

-----------------------------------------------------------------------------
(* The processor and its pipeline *)

Tell(report) == states' = Append(states, [state |-> report, of |-> chunk'])

\* mutant: the pipeline runs the newest chunk first
TakeNewest ==
  /\ stage = "waiting" /\ queue # <<>>
  /\ chunk' = queue[Len(queue)]
  /\ queue' = SubSeq(queue, 1, Len(queue) - 1)
  /\ stage' = "transcribing"
  /\ Tell("transcribing")
  /\ UNCHANGED <<sessionVars, output, trayVars, buttonVars, answered>>

\* processor::spawn takes a chunk; Pipeline::run reports Transcribing.
TakeChunk ==
  /\ stage = "waiting" /\ queue # <<>>
  /\ chunk' = Head(queue)
  /\ queue' = Tail(queue)
  /\ stage' = "transcribing"
  /\ Tell("transcribing")
  /\ UNCHANGED <<sessionVars, output, trayVars, buttonVars, answered>>

\* AsrBackend::transcribe returns.
Transcribe ==
  /\ stage = "transcribing"
  /\ UNCHANGED chunk
  /\ \/ stage' = "refining" /\ Tell("refining")
     \/ BackendsFail /\ stage' = "failed" /\ UNCHANGED states
  /\ UNCHANGED <<sessionVars, queue, output, trayVars, buttonVars, answered>>

\* TextRefiner::refine returns, or never does.
Refine ==
  /\ stage = "refining"
  /\ UNCHANGED chunk
  /\ \/ stage' = "completed" /\ Tell("idle")
     \/ BackendsFail /\ stage' = "failed" /\ UNCHANGED states
  /\ UNCHANGED <<sessionVars, queue, output, trayVars, buttonVars, answered>>

\* mutant: no cap on how long the refiner may run
NoTimeout == FALSE /\ UNCHANGED transcriptionVars

\* refine_timeout passed first: Error is reported, the raw text is used, and
\* the turn ends as if it had been refined.
RefineTimeout ==
  /\ stage = "refining"
  /\ UNCHANGED chunk
  /\ stage' = "completed"
  /\ states' = states \o <<[state |-> "error", of |-> chunk], [state |-> "idle", of |-> chunk]>>
  /\ UNCHANGED <<sessionVars, queue, output, trayVars, buttonVars, answered>>

\* mutant: sends without waiting for the channel to have room, and loses the event
AnswerOrDrop ==
  /\ stage \in {"completed", "failed"}
  /\ output' = IF Len(output) < OutputCapacity
                 THEN Append(output, [kind |-> stage, of |-> chunk]) ELSE output
  /\ stage' = "waiting"
  /\ UNCHANGED <<sessionVars, queue, chunk, states, trayVars, buttonVars, answered>>

\* output.send(event).await, before the next chunk is taken.
Answer ==
  /\ stage \in {"completed", "failed"}
  /\ Len(output) < OutputCapacity
  /\ output' = Append(output, [kind |-> stage, of |-> chunk])
  /\ stage' = "waiting"
  /\ UNCHANGED <<sessionVars, queue, chunk, states, trayVars, buttonVars, answered>>

\* The forwarder's loop.
ForwardState ==
  /\ states # <<>>
  /\ Len(output) < OutputCapacity
  /\ output' = Append(output, [kind |-> "stateChanged", state |-> Head(states).state,
                               of |-> Head(states).of])
  /\ states' = Tail(states)
  /\ UNCHANGED <<sessionVars, queue, processorVars, trayVars, buttonVars, answered>>

-----------------------------------------------------------------------------
(* The app *)

\* mutant: hands the pipeline's state to the tray as it is
RawVisual(state) == state

VisualFor(state) ==
  CASE state = "idle" -> "idle"
    [] state \in {"recording", "error"} -> "recording"
    [] state \in {"transcribing", "refining"} -> "processing"

SetPipelineState(state) ==
  /\ pipelineState' = state
  /\ tray' = VisualFor(state)
  /\ linger' = "none"

BeginTrayDoneLinger == tray' = "done" /\ linger' = "pending"

\* A pending linger outlives the turn's own Idle; any other state ends it.
StateChanged(state) ==
  /\ pipelineState' = state
  /\ IF linger = "pending" /\ state = "idle"
       THEN UNCHANGED <<tray, linger>>
       ELSE /\ tray' = VisualFor(state)
            /\ linger' = IF linger = "pending" THEN "none" ELSE linger

Completed ==
  /\ BeginTrayDoneLinger
  /\ UNCHANGED pipelineState

Failed == UNCHANGED trayVars

NoteAnswer(event) == answered' = Append(answered, [of |-> event.of, kind |-> event.kind])

AppReceives ==
  /\ output # <<>>
  /\ output' = Tail(output)
  /\ LET event == Head(output) IN
       CASE event.kind = "stateChanged" -> StateChanged(event.state) /\ UNCHANGED answered
         [] event.kind = "completed" -> Completed /\ NoteAnswer(event)
         [] event.kind = "failed" -> Failed /\ NoteAnswer(event)
  /\ UNCHANGED <<sessionVars, queue, processorVars, states, buttonVars>>

LingerElapses ==
  /\ linger = "pending" /\ linger' = "past"
  /\ UNCHANGED <<sessionVars, queue, processorVars, states, output, pipelineState, tray,
                 buttonVars, answered>>

\* mutant: forgets the linger without redrawing the tray
TrayDoneTickWithoutRedraw ==
  /\ linger = "past" /\ linger' = "none"
  /\ UNCHANGED <<sessionVars, queue, processorVars, states, output, pipelineState, tray,
                 buttonVars, answered>>

\* Ticks while a linger is pending do nothing.
TrayDoneTick ==
  /\ linger = "past" /\ linger' = "none"
  /\ tray' = VisualFor(pipelineState)
  /\ UNCHANGED <<sessionVars, queue, processorVars, states, output, pipelineState,
                 buttonVars, answered>>

StartJob == started < MaxJobs /\ started' = started + 1 /\ jobs' = jobs \cup {started'}

StartRecording ==
  /\ ~isRecording /\ started < MaxJobs
  /\ \/ isRecording' = TRUE /\ SetPipelineState("recording")
     \/ UNCHANGED isRecording /\ SetPipelineState("idle")
  /\ UNCHANGED <<sessionVars, queue, processorVars, states, output, jobs, started, answered>>

StopRecording ==
  /\ isRecording /\ isRecording' = FALSE
  /\ \/ StartJob /\ SetPipelineState("transcribing")
     \/ UNCHANGED <<jobs, started>> /\ SetPipelineState("idle")
  /\ UNCHANGED <<sessionVars, queue, processorVars, states, output, answered>>

TranscribeFile ==
  /\ StartJob
  /\ UNCHANGED <<sessionVars, queue, processorVars, states, output, trayVars, isRecording, answered>>

FileTranscribed ==
  /\ \E job \in jobs : jobs' = jobs \ {job}
  /\ \/ pipelineState' = "idle" /\ BeginTrayDoneLinger
     \/ SetPipelineState("idle")
  /\ UNCHANGED <<sessionVars, queue, processorVars, states, output, isRecording, started, answered>>

-----------------------------------------------------------------------------
TranscriptionInit ==
  /\ capturing = FALSE /\ submitted = 0 /\ queue = <<>>
  /\ stage = "waiting" /\ chunk = 0
  /\ states = <<>> /\ output = <<>>
  /\ pipelineState = "idle" /\ tray = "idle" /\ linger = "none"
  /\ isRecording = FALSE /\ jobs = {} /\ started = 0
  /\ answered = <<>>

Session == OpenCapture \/ SplitCapture \/ CloseCapture
Processor == TakeChunk \/ Transcribe \/ Refine \/ RefineTimeout \/ Answer
App == AppReceives \/ TrayDoneTick
Button == StartRecording \/ StopRecording \/ TranscribeFile \/ FileTranscribed

TranscriptionNext == Session \/ Processor \/ ForwardState \/ App \/ LingerElapses \/ Button

TranscriptionSpec == TranscriptionInit /\ [][TranscriptionNext]_transcriptionVars

\* The tasks run, a backend's transcribe returns, time passes; a refiner may
\* hang, and the user need not do anything.
FairTranscriptionSpec ==
  /\ TranscriptionSpec
  /\ WF_transcriptionVars(TakeChunk) /\ WF_transcriptionVars(Transcribe)
  /\ WF_transcriptionVars(RefineTimeout) /\ WF_transcriptionVars(Answer)
  /\ WF_transcriptionVars(ForwardState) /\ WF_transcriptionVars(AppReceives)
  /\ WF_transcriptionVars(LingerElapses) /\ WF_transcriptionVars(TrayDoneTick)

-----------------------------------------------------------------------------
(* What it guarantees *)

TranscriptionTypeOK ==
  /\ capturing \in BOOLEAN /\ submitted \in Nat /\ queue \in Seq(Nat)
  /\ stage \in {"waiting", "transcribing", "refining", "completed", "failed"}
  /\ chunk \in Nat
  /\ states \in Seq(Report)
  /\ output \in Seq(Event)
  /\ pipelineState \in PipelineState
  /\ tray \in TrayVisual
  /\ linger \in {"none", "pending", "past"}
  /\ isRecording \in BOOLEAN /\ jobs \subseteq Nat /\ started \in Nat
  /\ answered \in Seq([of : Nat, kind : {"completed", "failed"}])

(***************************************************************************)
(* The app sees one outcome per chunk, in the order the chunks were        *)
(* recorded, so dictations are typed in the order they were spoken.        *)
(***************************************************************************)
AnswersInOrder == \A i \in DOMAIN answered : answered[i].of = i

(***************************************************************************)
(* The state reports and the outcomes travel through different senders,    *)
(* yet the app never sees a turn begin before it has the outcome of every  *)
(* earlier turn: "Done" is never overtaken by the next "Transcribing".     *)
(***************************************************************************)
Reordered ==
  \E i, j \in DOMAIN output :
    /\ i < j
    /\ output[i].kind = "stateChanged" /\ output[j].kind # "stateChanged"
    /\ output[j].of < output[i].of

AnswersBeforeNextTurn == ~Reordered

(***************************************************************************)
(* Every chunk's outcome reaches the app, even behind a hung refiner.      *)
(***************************************************************************)
EveryChunkAnswered == \A c \in 1..MaxChunks : submitted >= c ~> Len(answered) >= c

(***************************************************************************)
(* Once nothing is recorded, transcribed or on its way any more, the tray  *)
(* and the status word return to idle, if every turn has succeeded.        *)
(***************************************************************************)
AtRest ==
  /\ ~capturing /\ queue = <<>> /\ stage = "waiting" /\ states = <<>> /\ output = <<>>
  /\ ~isRecording /\ jobs = {}

Settled == tray = "idle" /\ pipelineState = "idle"
AllCompleted == \A i \in DOMAIN answered : answered[i].kind = "completed"

TraySettles == (AtRest /\ AllCompleted) ~> (~AtRest \/ Settled)

\* The same of every turn: "reported so UI/tray layers can reflect what's
\* happening" (PipelineState, types.rs).
TraySettlesAlways == AtRest ~> (~AtRest \/ Settled)
=============================================================================
