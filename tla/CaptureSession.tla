--------------------------- MODULE CaptureSession ---------------------------
(***************************************************************************)
(* The worker's capture state machine (whspr-app: worker/session.rs with   *)
(* its decisions in hotkey_decision, capture_plan, auto_send and preroll), *)
(* driven by the hold stream, by the settings the user saves, by           *)
(* microphones coming and going, and by the user's speech.                 *)
(*                                                                         *)
(* Audio is a sequence of utterances [id, mic]: what was said, and which   *)
(* microphone really heard it.  Silence is not represented.  An utterance  *)
(* outlasts an auto-send tick, so a running detector samples each of them. *)
(* hold, spoken, recent, heard, overlap, cancelled and reported are history *)
(* variables: only the properties read them, apart from the bounds.        *)
(***************************************************************************)
EXTENDS HoldStream, FiniteSets

CONSTANTS
  Builtin,        (* the microphone that is always there                   *)
  Mics,           (* the microphones that can be plugged and chosen        *)
  DefaultDevice,  (* [device].input_device = None                          *)
  NoMonitor, NoCapture, NoSpeech,    (* None, of the field in question     *)
  Settings,       (* the settings the user may save                        *)
  InitialSetting, (* the settings whspr_config::load returns               *)
  Pause,          (* AUTO_SEND_SILENCE_MS in ticks of the model's clock    *)
  CanFail,        (* opening and stopping a stream may fail                *)
  Hotplug,        (* microphones and the system's default come and go      *)
  MaxHolds,       (* bound of the model on holds                           *)
  MaxUtterances,  (* bound of the model on utterances                      *)
  MaxSaves        (* bound of the model on saved settings not yet applied  *)

Config == [mic : Mics \cup {DefaultDevice}, autoSend : BOOLEAN, micPrivacy : BOOLEAN]
Device == Mics \cup {DefaultDevice}

ASSUME MicAssumption ==
  /\ DefaultDevice \notin Mics /\ Builtin \notin Mics
  /\ NoMonitor \notin Mics \cup {Builtin, DefaultDevice}
ASSUME SettingsAssumption == Settings \subseteq Config /\ InitialSetting \in Config
ASSUME PauseAssumption == Pause \in Nat \ {0}
ASSUME SwitchAssumption == CanFail \in BOOLEAN /\ Hotplug \in BOOLEAN

VARIABLES
  cfg,        (* Session::config                                           *)
  saves,      (* the settings channel: saved and not yet applied           *)
  connected,  (* the microphones of Mics that are plugged in               *)
  osDefault,  (* the operating system's default microphone                 *)
  active,     (* Session::active                                           *)
  finishing,  (* on_tick's finished handle, until submit has stopped it    *)
  monitor,    (* PrerollSlot::running: the device it was opened for        *)
  monitorMic, (* the microphone its stream was opened on                   *)
  alive,      (* that stream still delivers                                *)
  ring,       (* the monitor's ring buffer                                 *)
  chunks,     (* every chunk handed to the processor, in order             *)
  hold, spoken, recent, heard, overlap, cancelled, reported

settingsVars == <<cfg, saves>>
micVars == <<connected, osDefault>>
captureVars == <<active, finishing>>
monitorVars == <<monitor, monitorMic, alive, ring>>
fateVars == <<chunks, cancelled, reported>>
saidVars == <<spoken, recent, heard, overlap>>
vars == <<holdVars, settingsVars, micVars, captureVars, monitorVars, fateVars, hold, saidVars>>

Utterance == [id : Nat, mic : Mics \cup {Builtin}]
Ids(audio) == {audio[i].id : i \in DOMAIN audio}

\* A live capture; the level of a capture whose microphone is gone is frozen.
Capture ==
  [device : Device, mic : Mics \cup {Builtin}, level : {"live", "quiet", "loud"},
   audio : Seq(Utterance), sinceSpeech : (0..Pause) \cup {NoSpeech}, chunksSent : Nat]

ASSUME NoneAssumption == NoCapture \notin Capture /\ NoSpeech \notin 0..Pause

-----------------------------------------------------------------------------
(* Devices *)

SourceWithoutFallback(device) == device  \* mutant

\* resolve_input_device: the name if it is connected, else the device that is the
\* default at this moment.
SourceOf(device) == IF device \in connected THEN device ELSE osDefault

\* What input_device_names may return: enumeration may fail.
Listings == {connected \cup {Builtin}} \cup (IF CanFail THEN {{}} ELSE {})

ResolveDevice(config, available) ==
  IF config.mic \in available \/ available = {} THEN config.mic ELSE DefaultDevice

-----------------------------------------------------------------------------
(* The idle preroll monitor *)

DesiredMonitor(config, device) == IF config.micPrivacy THEN NoMonitor ELSE device

StopMonitor ==
  monitor' = NoMonitor /\ monitorMic' = NoMonitor /\ alive' = FALSE /\ ring' = <<>>

StartMonitor(target) ==
  /\ monitor' = target
  /\ monitorMic' = SourceOf(target)
  /\ alive' = TRUE
  /\ ring' = <<>>

Reconcile(config, device) ==
  LET desired == DesiredMonitor(config, device) IN
  \/ desired = monitor /\ UNCHANGED monitorVars
  \/ desired # monitor /\ desired = NoMonitor /\ StopMonitor
  \/ desired # monitor /\ desired # NoMonitor /\ StartMonitor(desired)
  \/ desired # monitor /\ desired # NoMonitor /\ CanFail /\ StopMonitor

SnapshotWhateverDevice(device) == ring  \* mutant

SnapshotFor(device) == IF monitor = device THEN ring ELSE <<>>

-----------------------------------------------------------------------------
(* Holds *)

OpenCapture(device, preroll) ==
  [device |-> device, mic |-> SourceOf(device), level |-> "live",
   audio |-> preroll, sinceSpeech |-> NoSpeech, chunksSent |-> 0]

Start ==
  \E available \in Listings :
    LET device == ResolveDevice(cfg, available) IN
    /\ hold' = hold + 1
    /\ \/ active' = OpenCapture(device, SnapshotFor(device))
       \/ CanFail /\ UNCHANGED active
    /\ Reconcile(cfg, device)
    /\ UNCHANGED fateVars

\* Stop the stream and queue its clip, or report why it cannot be.
Submit(capture) ==
  \/ /\ chunks' = Append(chunks, [hold |-> hold, audio |-> capture.audio])
     /\ UNCHANGED reported
  \/ /\ CanFail
     /\ reported' = reported \cup Ids(capture.audio)
     /\ UNCHANGED chunks

\* mutant: after the first automatic chunk, nothing more is worth sending
RemainderAfterChunks(capture) == ~(cfg.autoSend /\ capture.chunksSent > 0)

RemainderWorthSending(capture) ==
  ~(cfg.autoSend /\ capture.chunksSent > 0 /\ capture.sinceSpeech = NoSpeech)

\* mutant: returns before taking the capture when there is nothing to send
FinalizeOnlyWorthwhile ==
  /\ IF RemainderWorthSending(active)
       THEN active' = NoCapture /\ Submit(active)
       ELSE UNCHANGED <<active, chunks, reported>>
  /\ UNCHANGED <<monitorVars, hold, cancelled>>

Finalize ==
  /\ active' = NoCapture
  /\ IF RemainderWorthSending(active) THEN Submit(active) ELSE UNCHANGED <<chunks, reported>>
  /\ UNCHANGED <<monitorVars, hold, cancelled>>

\* mutant: ignores the tap instead of dropping its capture
DiscardNothing == UNCHANGED <<active, monitorVars, fateVars, hold>>

Discard ==
  /\ active' = NoCapture
  /\ cancelled' = cancelled \cup Ids(active.audio)
  /\ UNCHANGED <<monitorVars, hold, chunks, reported>>

\* Nothing is awaited between the opening of the next capture and the stop of
\* the last one: the worker takes no action, tick or setting in between.
Free == finishing = NoCapture

OnAction ==
  /\ Free
  /\ Take
  /\ CASE Head(stream) = "start" -> Start
       [] Head(stream) = "stop" /\ active # NoCapture -> Finalize
       [] Head(stream) = "cancel" /\ active # NoCapture -> Discard
       [] OTHER -> UNCHANGED <<active, monitorVars, fateVars, hold>>
  /\ UNCHANGED <<settingsVars, micVars, finishing, saidVars>>

-----------------------------------------------------------------------------
(* Auto-send *)

AutoSendActive == cfg.autoSend /\ active # NoCapture

\* A tick that completes a pause.
PauseOver ==
  /\ Free
  /\ AutoSendActive
  /\ active.level # "loud"
  /\ active.sinceSpeech = Pause

\* on_tick opens the next chunk's capture before it stops this one.
GoOn(next) ==
  /\ active' = [next EXCEPT !.chunksSent = active.chunksSent + 1]
  /\ finishing' = active

\* mutant: the next capture opens on the device the settings name now
PauseTickMoving ==
  /\ PauseOver
  /\ GoOn(OpenCapture(cfg.mic, <<>>))
  /\ UNCHANGED <<holdVars, settingsVars, micVars, monitorVars, fateVars, hold, saidVars>>

\* mutant: the next capture starts with the audio of the last one as its preroll
PauseTickPrerolled ==
  /\ PauseOver
  /\ GoOn(OpenCapture(active.device, active.audio))
  /\ UNCHANGED <<holdVars, settingsVars, micVars, monitorVars, fateVars, hold, saidVars>>

PauseTick ==
  /\ PauseOver
  /\ \/ GoOn(OpenCapture(active.device, <<>>))
     \/ /\ CanFail
        /\ active' = [active EXCEPT !.sinceSpeech = NoSpeech]
        /\ UNCHANGED finishing
  /\ UNCHANGED <<holdVars, settingsVars, micVars, monitorVars, fateVars, hold, saidVars>>

\* Both streams record until this one is stopped.
StopFinished ==
  /\ finishing # NoCapture
  /\ Submit(finishing)
  /\ finishing' = NoCapture
  /\ UNCHANGED <<holdVars, settingsVars, micVars, active, monitorVars, cancelled, hold, saidVars>>

\* A tick on a stream whose microphone went away in the middle of a word.
FrozenTick ==
  /\ Free
  /\ AutoSendActive
  /\ active.level = "loud"
  /\ active' = [active EXCEPT !.sinceSpeech = 0]
  /\ UNCHANGED <<holdVars, settingsVars, micVars, finishing, monitorVars, fateVars, hold, saidVars>>

-----------------------------------------------------------------------------
(* Settings *)

\* mutant: acts on a new device, but not on mic privacy alone
ApplyConfigOnNewDevice ==
  /\ Free /\ saves # <<>>
  /\ cfg' = saves[Len(saves)]
  /\ saves' = <<>>
  /\ IF cfg'.mic # cfg.mic
       THEN \E available \in Listings : Reconcile(cfg', ResolveDevice(cfg', available))
       ELSE UNCHANGED monitorVars
  /\ UNCHANGED <<holdVars, micVars, captureVars, fateVars, hold, saidVars>>

\* mutant: takes the first of the queued settings and drops the rest
ApplyConfigOldest ==
  /\ Free /\ saves # <<>>
  /\ cfg' = saves[1]
  /\ saves' = <<>>
  /\ IF cfg'.micPrivacy # cfg.micPrivacy \/ cfg'.mic # cfg.mic
       THEN \E available \in Listings : Reconcile(cfg', ResolveDevice(cfg', available))
       ELSE UNCHANGED monitorVars
  /\ UNCHANGED <<holdVars, micVars, captureVars, fateVars, hold, saidVars>>

\* newest_config skips to the last of the queued settings.
ApplyConfig ==
  /\ Free /\ saves # <<>>
  /\ cfg' = saves[Len(saves)]
  /\ saves' = <<>>
  /\ IF cfg'.micPrivacy # cfg.micPrivacy \/ cfg'.mic # cfg.mic
       THEN \E available \in Listings : Reconcile(cfg', ResolveDevice(cfg', available))
       ELSE UNCHANGED monitorVars
  /\ UNCHANGED <<holdVars, micVars, captureVars, fateVars, hold, saidVars>>

-----------------------------------------------------------------------------
(* The user, the microphones and time *)

Press ==
  /\ hold < MaxHolds
  /\ Begin
  /\ UNCHANGED <<settingsVars, micVars, captureVars, monitorVars, fateVars, hold, saidVars>>

Release ==
  /\ End
  /\ UNCHANGED <<settingsVars, micVars, captureVars, monitorVars, fateVars, hold, saidVars>>

Save ==
  /\ Len(saves) < MaxSaves
  /\ \E config \in Settings : saves' = Append(saves, config)
  /\ UNCHANGED <<holdVars, cfg, micVars, captureVars, monitorVars, fateVars, hold, saidVars>>

Recording(capture) == capture # NoCapture /\ capture.level = "live"

\* What a recording stream adds to its capture.
Hears(capture, id) ==
  [capture EXCEPT !.audio = Append(@, [id |-> id, mic |-> capture.mic])]

\* Everyone listening hears the utterance; a running detector samples it.
Speak ==
  /\ spoken < MaxUtterances
  /\ spoken' = spoken + 1
  /\ recent' = recent \cup {spoken'}
  /\ active' = IF Recording(active)
                  THEN [Hears(active, spoken') EXCEPT !.sinceSpeech = IF cfg.autoSend THEN 0 ELSE @]
                  ELSE active
  /\ finishing' = IF Recording(finishing) THEN Hears(finishing, spoken') ELSE finishing
  /\ heard' = IF Recording(active) \/ Recording(finishing) THEN heard \cup {spoken'} ELSE heard
  /\ overlap' = IF Recording(active) /\ Recording(finishing) THEN overlap \cup {spoken'} ELSE overlap
  /\ ring' = IF alive THEN Append(ring, [id |-> spoken', mic |-> monitorMic]) ELSE ring
  /\ UNCHANGED <<holdVars, settingsVars, micVars, monitor, monitorMic, alive, fateVars, hold>>

\* A tick of the model's clock is longer than the preroll: silence flushes the
\* ring of a live monitor.
Elapse ==
  /\ recent' = {}
  /\ ring' = IF alive THEN <<>> ELSE ring
  /\ active' = IF active = NoCapture \/ active.sinceSpeech \in {NoSpeech, Pause} THEN active
               ELSE [active EXCEPT !.sinceSpeech = @ + 1]
  /\ UNCHANGED <<holdVars, settingsVars, micVars, finishing, monitor, monitorMic, alive, fateVars,
                 hold, spoken, heard, overlap>>

Plug ==
  /\ Hotplug
  /\ \E mic \in Mics \ connected : connected' = connected \cup {mic}
  /\ UNCHANGED <<holdVars, settingsVars, osDefault, captureVars, monitorVars, fateVars, hold, saidVars>>

\* Another microphone becomes the default; open streams stay where they are.
SwitchDefault ==
  /\ Hotplug
  /\ \E mic \in (connected \cup {Builtin}) \ {osDefault} : osDefault' = mic
  /\ UNCHANGED <<holdVars, settingsVars, connected, captureVars, monitorVars, fateVars, hold, saidVars>>

\* What becomes of a capture whose microphone goes away: silence, or the last
\* level for ever.
Frozen(capture, mic) ==
  IF Recording(capture) /\ capture.mic = mic
    THEN {[capture EXCEPT !.level = level] : level \in {"quiet", "loud"}}
    ELSE {capture}

\* Streams on the microphone stay open and deliver nothing more.
Unplug ==
  /\ Hotplug
  /\ \E mic \in connected :
       /\ connected' = connected \ {mic}
       /\ \/ osDefault # mic /\ UNCHANGED osDefault
          \/ osDefault = mic /\ osDefault' \in (connected \ {mic}) \cup {Builtin}
       /\ active' \in Frozen(active, mic)
       /\ finishing' \in Frozen(finishing, mic)
       /\ alive' = (alive /\ monitorMic # mic)
  /\ UNCHANGED <<holdVars, settingsVars, monitor, monitorMic, ring, fateVars, hold, saidVars>>

-----------------------------------------------------------------------------
\* Session::new and the worker's first sync_preroll.
Init ==
  /\ HoldInit
  /\ cfg = InitialSetting /\ saves = <<>>
  /\ connected = Mics /\ osDefault = Builtin
  /\ active = NoCapture /\ finishing = NoCapture
  /\ ring = <<>>
  /\ monitor = DesiredMonitor(cfg, cfg.mic)
  /\ monitorMic = IF cfg.micPrivacy THEN NoMonitor ELSE SourceOf(cfg.mic)
  /\ alive = ~cfg.micPrivacy
  /\ chunks = <<>> /\ cancelled = {} /\ reported = {}
  /\ hold = 0 /\ spoken = 0 /\ recent = {} /\ heard = {} /\ overlap = {}

User == Press \/ Release \/ Save \/ Speak
World == Elapse \/ Plug \/ Unplug \/ SwitchDefault
Worker == OnAction \/ PauseTick \/ StopFinished \/ FrozenTick \/ ApplyConfig

Next == User \/ World \/ Worker

Spec == Init /\ [][Next]_vars

\* tokio::select! polls its ready branches in random order, so neither the
\* hotkey nor the ticks starve the settings; a stop that was begun returns.
FairSpec == Spec /\ WF_vars(OnAction) /\ WF_vars(ApplyConfig) /\ WF_vars(StopFinished)

-----------------------------------------------------------------------------
(* What it guarantees *)

TypeOK ==
  /\ HoldTypeOK
  /\ cfg \in Config /\ saves \in Seq(Config)
  /\ connected \subseteq Mics /\ osDefault \in connected \cup {Builtin}
  /\ active \in Capture \cup {NoCapture} /\ finishing \in Capture \cup {NoCapture}
  /\ monitor \in Device \cup {NoMonitor} /\ monitorMic \in Mics \cup {Builtin, NoMonitor}
  /\ alive \in BOOLEAN
  /\ ring \in Seq(Utterance)
  /\ chunks \in Seq([hold : Nat, audio : Seq(Utterance)])
  /\ hold \in Nat /\ spoken \in Nat
  /\ recent \subseteq Nat /\ heard \subseteq Nat /\ overlap \subseteq Nat
  /\ cancelled \subseteq Nat /\ reported \subseteq Nat

(***************************************************************************)
(* The microphone records only between the worker's "start" and its        *)
(* closing: every stop or cancel releases the capture, whatever failed     *)
(* before.                                                                 *)
(***************************************************************************)
MicOnlyWhileHeld == active # NoCapture \/ finishing # NoCapture => recording

(***************************************************************************)
(* A start never replaces a capture in progress: the hold before it was    *)
(* closed, and its closing released the microphone (session.rs: start      *)
(* overwrites Session::active without stopping what it held).              *)
(***************************************************************************)
CaptureNeverReplaced == [][hold' # hold => active = NoCapture]_vars

(***************************************************************************)
(* "A standing input stream is exactly what mic privacy promises not to    *)
(* keep open" (capture_plan.rs): no monitor runs once the setting applies. *)
(***************************************************************************)
MicPrivacyHonoured == cfg.micPrivacy => monitor = NoMonitor /\ ~alive

\* And a saved setting does apply, however many saves queue up behind it.
MicPrivacyApplies ==
  [](saves # <<>> /\ saves[Len(saves)].micPrivacy =>
       <>(monitor = NoMonitor \/ (saves # <<>> /\ ~saves[Len(saves)].micPrivacy)))

(***************************************************************************)
(* Nothing the user said into a hold disappears without a word: it is      *)
(* still being recorded, or was sent, or the tap was cancelled, or the     *)
(* failure was reported.                                                   *)
(***************************************************************************)
Sent == UNION {Ids(chunks[i].audio) : i \in DOMAIN chunks}
HeardBy(capture) == IF capture = NoCapture THEN {} ELSE Ids(capture.audio)
StillRecording == HeardBy(active) \cup HeardBy(finishing)

NothingIsLost == heard \subseteq Sent \cup StillRecording \cup cancelled \cup reported

(***************************************************************************)
(* What finalize leaves unsent "is just the trailing pause" (auto_send.rs, *)
(* remainder_worth_sending): a capture that ends without being queued,     *)
(* cancelled or reported has heard nothing.                                *)
(***************************************************************************)
RemainderIsSilence ==
  [][active # NoCapture /\ active' = NoCapture /\ UNCHANGED fateVars
       => StillRecording = {}]_vars

(***************************************************************************)
(* Speech is transcribed in the order it was spoken and not twice, within  *)
(* a clip and across the clips auto-send splits a hold into.  The one       *)
(* exception is what is said while on_tick stops the last capture with the *)
(* next one already open: the next clip repeats it, and no clip after it.  *)
(***************************************************************************)
Before(i, k, j, l) == i < j \/ (i = j /\ k < l)
Adjoining(i, j) == j = i + 1 /\ chunks[i].hold = chunks[j].hold

SpeechInOrder ==
  \A i, j \in DOMAIN chunks :
    \A k \in DOMAIN chunks[i].audio, l \in DOMAIN chunks[j].audio :
      Before(i, k, j, l) =>
        \/ chunks[i].audio[k].id < chunks[j].audio[l].id
        \/ Adjoining(i, j) /\ chunks[j].audio[l].id \in overlap

(***************************************************************************)
(* "One hold never switches microphones" (session.rs, ActiveCapture),      *)
(* whatever the settings become meanwhile, as long as the microphone it    *)
(* records from is the one its device stands for at that moment.           *)
(***************************************************************************)
GoesOn == active # NoCapture /\ active' # NoCapture /\ hold' = hold

KeepsMicrophone ==
  [][GoesOn /\ active.mic = SourceOf(active.device) => active'.mic = active.mic]_vars

(***************************************************************************)
(* The preroll of a new capture is audio of the last moments (preroll.rs:  *)
(* "the last DEFAULT_PREROLL_MS of audio").                                *)
(***************************************************************************)
Opens == active = NoCapture /\ active' # NoCapture

PrerollIsRecent == [][Opens => Ids(active'.audio) \subseteq recent]_vars

(***************************************************************************)
(* "Preroll from a different microphone would splice two sources"          *)
(* (preroll.rs): whatever is plugged and saved between the monitor's start *)
(* and the press, the ring was heard by the microphone now opened.  Two    *)
(* cases are excepted: a monitor or a capture for a missing microphone,    *)
(* which takes a failing enumeration and hears the default one, and a      *)
(* monitor of the default microphone after the default has moved.          *)
(***************************************************************************)
Blind(device, mic) == device \in Mics /\ mic # device
DefaultMoved == monitor = DefaultDevice /\ monitorMic # osDefault

Spliced == \E k \in DOMAIN active'.audio : active'.audio[k].mic # active'.mic

PrerollFromSameMicrophone ==
  [][Opens /\ ~Blind(monitor, monitorMic) /\ ~Blind(active'.device, active'.mic) /\ ~DefaultMoved
       => ~Spliced]_vars
=============================================================================
