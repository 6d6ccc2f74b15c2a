------------------------ MODULE CaptureSession_proofs ------------------------
(* The microphone's safety properties, for any devices, settings and bounds. *)
EXTENDS CaptureSession, HoldStream_proofs

(* The session takes the actions of the hold stream as they come. *)
LEMMA StepHolds == [Next]_vars => [HoldNext]_holdVars
BY DEF Next, User, World, Worker, HoldNext, vars, holdVars, Press, Release, Save, Speak,
       Elapse, Plug, Unplug, SwitchDefault, OnAction, PauseTick, StopFinished, FrozenTick, ApplyConfig

LEMMA SessionAlternates == Spec => [](HoldTypeOK /\ Alternates)
<1>1. Init => HoldInit
  BY DEF Init
<1>2. HoldTypeOK /\ Alternates /\ [HoldNext]_holdVars => (HoldTypeOK /\ Alternates)'
  BY HoldTypeKept, AlternationKept
<1>3. QED
  BY <1>1, <1>2, StepHolds, HoldInitAlternates, PTL DEF Spec

(* The microphone records only while the worker is between a start and its   *)
(* closing, whatever opening and stopping streams or enumerating devices     *)
(* does.                                                                     *)
THEOREM MicReleased == Spec => []MicOnlyWhileHeld
<1>1. Init => MicOnlyWhileHeld
  BY DEF Init, MicOnlyWhileHeld
<1>2. HoldTypeOK /\ MicOnlyWhileHeld /\ [Next]_vars => MicOnlyWhileHeld'
  <2> SUFFICES ASSUME HoldTypeOK, MicOnlyWhileHeld, [Next]_vars PROVE MicOnlyWhileHeld'
    OBVIOUS
  <2> USE DEF MicOnlyWhileHeld, holdVars
  <2>1. CASE Worker
    <3>1. CASE OnAction /\ Head(stream) = "start"
      BY <3>1 DEF OnAction, Take
    <3>2. CASE OnAction /\ Head(stream) # "start" /\ active = NoCapture
      BY <3>2 DEF OnAction, Free, Take
    <3>3. CASE OnAction /\ Head(stream) # "start" /\ active # NoCapture
      <4>1. Head(stream) \in DebounceAction
        BY <3>3, HeadTailProperties DEF OnAction, Take, HoldTypeOK
      <4>2. CASE Head(stream) = "stop"
        BY <3>3, <4>2 DEF OnAction, Free, Finalize
      <4>3. CASE Head(stream) = "cancel"
        BY <3>3, <4>3 DEF OnAction, Free, Discard
      <4>4. QED
        BY <3>3, <4>1, <4>2, <4>3 DEF DebounceAction, Closings
    <3>4. CASE ~OnAction
      BY <2>1, <3>4 DEF Worker, PauseTick, PauseOver, GoOn, StopFinished, FrozenTick,
                        AutoSendActive, ApplyConfig, captureVars
    <3>5. QED
      BY <3>1, <3>2, <3>3, <3>4
  <2>2. CASE User
    BY <2>2 DEF User, Press, Begin, Release, End, Save, Speak, Recording, captureVars
  <2>3. CASE World \/ UNCHANGED vars
    BY <2>3 DEF World, Elapse, Plug, Unplug, Frozen, Recording, SwitchDefault, captureVars, vars
  <2>4. QED
    BY <2>1, <2>2, <2>3 DEF Next
<1>3. QED
  BY <1>1, <1>2, SessionAlternates, PTL DEF Spec

(* A start never finds a capture in progress, so none is ever overwritten:   *)
(* a start in the stream means, by alternation, that the recorder is not     *)
(* between a start and its closing.                                          *)
THEOREM NeverReplaced == Spec => CaptureNeverReplaced
<1>1. HoldTypeOK /\ Alternates /\ MicOnlyWhileHeld /\ [Next]_vars
        => [hold' # hold => active = NoCapture]_vars
  <2> SUFFICES ASSUME HoldTypeOK, Alternates, MicOnlyWhileHeld, Next, hold' # hold
               PROVE  active = NoCapture
    BY DEF vars
  <2>1. OnAction
    BY DEF Next, User, World, Worker, Press, Release, Save, Speak, Elapse, Plug, Unplug,
           SwitchDefault, PauseTick, StopFinished, FrozenTick, ApplyConfig, vars
  <2>2. Head(stream) = "start" /\ stream # <<>>
    BY <2>1 DEF OnAction, Take, Finalize, Discard
  <2>3. stream[1] = "start"
    BY <2>2 DEF HoldTypeOK
  <2>4. ~recording
    BY <2>2, <2>3 DEF Alternates, Alternating
  <2>5. QED
    BY <2>4 DEF MicOnlyWhileHeld
<1>2. QED
  BY <1>1, SessionAlternates, MicReleased, PTL DEF Spec, CaptureNeverReplaced

(* No monitor listens while the settings in force keep the microphone        *)
(* private; inductive with the fact that a slot without a monitor hears      *)
(* nothing.                                                                  *)
MonitorFollowsSettings ==
  /\ MicPrivacyHonoured
  /\ monitor = NoMonitor => ~alive

LEMMA Reconciled ==
  ASSUME NEW config, NEW device \in Device, monitor = NoMonitor => ~alive,
         Reconcile(config, device)
  PROVE  /\ config.micPrivacy => monitor' = NoMonitor /\ ~alive'
         /\ monitor' = NoMonitor => ~alive'
<1>1. device # NoMonitor
  BY MicAssumption DEF Device
<1>2. QED
  BY <1>1 DEF Reconcile, DesiredMonitor, StopMonitor, StartMonitor, monitorVars

LEMMA ResolvedIsDevice ==
  ASSUME NEW config \in Config, NEW available
  PROVE  ResolveDevice(config, available) \in Device
BY DEF ResolveDevice, Config, Device

LEMMA SettingsTyped == Spec => [](cfg \in Config /\ saves \in Seq(Config))
<1>1. Init => cfg \in Config /\ saves \in Seq(Config)
  BY SettingsAssumption DEF Init
<1>2. cfg \in Config /\ saves \in Seq(Config) /\ [Next]_vars
        => (cfg \in Config /\ saves \in Seq(Config))'
  <2> SUFFICES ASSUME cfg \in Config, saves \in Seq(Config), [Next]_vars
               PROVE  cfg' \in Config /\ saves' \in Seq(Config)
    OBVIOUS
  <2>1. CASE Save
    BY <2>1, SettingsAssumption, AppendProperties DEF Save
  <2>2. CASE ApplyConfig
    <3>1. Len(saves) \in 1..Len(saves)
      BY <2>2, EmptySeq DEF ApplyConfig
    <3>2. QED
      BY <2>2, <3>1 DEF ApplyConfig
  <2>3. CASE UNCHANGED settingsVars
    BY <2>3 DEF settingsVars
  <2>4. QED
    BY <2>1, <2>2, <2>3
    DEF Next, User, World, Worker, vars, Press, Release, Speak, Elapse, Plug, Unplug,
        SwitchDefault, OnAction, PauseTick, StopFinished, FrozenTick
<1>3. QED
  BY <1>1, <1>2, PTL DEF Spec

THEOREM MicPrivacyKept == Spec => []MicPrivacyHonoured
<1> USE DEF MonitorFollowsSettings, MicPrivacyHonoured
<1>1. Init => MonitorFollowsSettings
  <2>1. Init => cfg.mic # NoMonitor
    BY SettingsAssumption, MicAssumption DEF Init, Config
  <2>2. QED
    BY <2>1 DEF Init, DesiredMonitor
<1>2. cfg \in Config /\ (cfg \in Config)' /\ MonitorFollowsSettings /\ [Next]_vars
        => MonitorFollowsSettings'
  <2> SUFFICES ASSUME cfg \in Config, cfg' \in Config, MonitorFollowsSettings, [Next]_vars
               PROVE  MonitorFollowsSettings'
    OBVIOUS
  <2>1. CASE OnAction /\ Head(stream) = "start"
    <3>1. PICK available \in Listings : Reconcile(cfg, ResolveDevice(cfg, available))
      BY <2>1 DEF OnAction, Start
    <3>2. cfg' = cfg
      BY <2>1 DEF OnAction, settingsVars
    <3>3. QED
      BY <3>1, <3>2, Reconciled, ResolvedIsDevice
  <2>2. CASE OnAction /\ Head(stream) # "start"
    BY <2>2 DEF OnAction, Finalize, Discard, settingsVars, monitorVars
  <2>3. CASE ApplyConfig
    <3>1. CASE cfg'.micPrivacy # cfg.micPrivacy \/ cfg'.mic # cfg.mic
      <4>1. PICK available \in Listings : Reconcile(cfg', ResolveDevice(cfg', available))
        BY <2>3, <3>1 DEF ApplyConfig
      <4>2. QED
        BY <4>1, Reconciled, ResolvedIsDevice
    <3>2. CASE ~(cfg'.micPrivacy # cfg.micPrivacy \/ cfg'.mic # cfg.mic)
      BY <2>3, <3>2 DEF ApplyConfig, monitorVars
    <3>3. QED
      BY <3>1, <3>2
  <2>4. CASE Unplug
    BY <2>4 DEF Unplug, settingsVars
  <2>same. CASE UNCHANGED <<cfg, monitor, alive>>
    BY <2>same
  <2>5. QED
    BY <2>same, <2>1, <2>2, <2>3, <2>4
    DEF Next, User, World, Worker, vars, settingsVars, monitorVars, Press, Release, Save,
        Speak, Elapse, Plug, SwitchDefault, PauseTick, StopFinished, FrozenTick
<1>3. QED
  BY <1>1, <1>2, SettingsTyped, PTL DEF Spec

(* Every variable keeps its type; the parts are grouped by who writes them.  *)
Opened ==
  /\ active \in Capture \cup {NoCapture} /\ finishing \in Capture \cup {NoCapture}
  /\ connected \subseteq Mics /\ osDefault \in connected \cup {Builtin}
  /\ monitor \in Device \cup {NoMonitor} /\ monitorMic \in Mics \cup {Builtin, NoMonitor}
  /\ alive \in BOOLEAN /\ (alive => monitorMic # NoMonitor)
  /\ ring \in Seq(Utterance)

Counted ==
  /\ hold \in Nat /\ spoken \in Nat
  /\ recent \subseteq Nat /\ heard \subseteq Nat /\ overlap \subseteq Nat

Settled ==
  /\ chunks \in Seq([hold : Nat, audio : Seq(Utterance)])
  /\ cancelled \subseteq Nat /\ reported \subseteq Nat

LEMMA SourceIsMic ==
  ASSUME Opened, NEW device PROVE SourceOf(device) \in Mics \cup {Builtin}
BY DEF Opened, SourceOf

LEMMA SourceTyped == ASSUME TypeOK, NEW device PROVE SourceOf(device) \in Mics \cup {Builtin}
BY DEF TypeOK, SourceOf

LEMMA OpenCaptureTyped ==
  ASSUME NEW device \in Device, SourceOf(device) \in Mics \cup {Builtin},
         NEW preroll \in Seq(Utterance), NEW n \in Nat
  PROVE  [device |-> device, mic |-> SourceOf(device), level |-> "live",
          audio |-> preroll, sinceSpeech |-> NoSpeech, chunksSent |-> n] \in Capture
BY DEF Capture

LEMMA IdsAreNat ==
  ASSUME NEW audio \in Seq(Utterance) PROVE Ids(audio) \subseteq Nat
<1> SUFFICES ASSUME NEW i \in DOMAIN audio PROVE audio[i].id \in Nat
  BY DEF Ids
<1>1. audio[i] \in Utterance
  OBVIOUS
<1>2. QED
  BY <1>1 DEF Utterance

LEMMA CaptureFields ==
  ASSUME NEW c \in Capture
  PROVE  /\ c.device \in Device
         /\ c.mic \in Mics \cup {Builtin}
         /\ c.level \in {"live", "quiet", "loud"}
         /\ c.audio \in Seq(Utterance)
         /\ c.sinceSpeech \in (0..Pause) \cup {NoSpeech}
         /\ c.chunksSent \in Nat
BY DEF Capture

LEMMA CaptureUpdates ==
  ASSUME NEW c \in Capture, NEW since \in (0..Pause) \cup {NoSpeech},
         NEW audio \in Seq(Utterance)
  PROVE  /\ [c EXCEPT !.sinceSpeech = since] \in Capture
         /\ [c EXCEPT !.audio = audio] \in Capture
         /\ [[c EXCEPT !.audio = audio] EXCEPT !.sinceSpeech = since] \in Capture
BY DEF Capture

LEMMA HeardTyped ==
  ASSUME NEW c \in Capture, NEW id \in Nat
  PROVE  /\ Hears(c, id) \in Capture
         /\ Hears(c, id).audio = Append(c.audio, [id |-> id, mic |-> c.mic])
         /\ Append(c.audio, [id |-> id, mic |-> c.mic]) \in Seq(Utterance)
<1> DEFINE said == [id |-> id, mic |-> c.mic]
           more == Append(c.audio, said)
<1>1. said \in Utterance
  BY CaptureFields DEF Utterance
<1>2. Hears(c, id) = [c EXCEPT !.audio = more]
  BY DEF Hears
<1> HIDE DEF said
<1>3. more \in Seq(Utterance)
  BY <1>1, CaptureFields, AppendProperties
<1> HIDE DEF more
<1>4. Hears(c, id) \in Capture /\ Hears(c, id).audio = more
  BY <1>2, <1>3 DEF Capture
<1>5. QED
  BY <1>3, <1>4 DEF more, said

LEMMA FrozenTyped ==
  ASSUME NEW c \in Capture \cup {NoCapture}, NEW mic, NEW d \in Frozen(c, mic)
  PROVE  /\ d \in Capture \cup {NoCapture}
         /\ c = NoCapture <=> d = NoCapture
         /\ c # NoCapture => d.audio = c.audio /\ d.sinceSpeech = c.sinceSpeech /\ d.mic = c.mic
<1>1. CASE d = c
  BY <1>1
<1>2. CASE d # c
  <2>1. c \in Capture /\ \E level \in {"quiet", "loud"} : d = [c EXCEPT !.level = level]
    BY <1>2, NoneAssumption DEF Frozen, Recording
  <2>2. d \in Capture /\ d.audio = c.audio /\ d.sinceSpeech = c.sinceSpeech /\ d.mic = c.mic
    BY <2>1 DEF Capture
  <2>3. QED
    BY <2>1, <2>2, NoneAssumption
<1>3. QED
  BY <1>1, <1>2

LEMMA SubmitTyped ==
  ASSUME Settled, Counted, NEW c \in Capture, Submit(c)
  PROVE  /\ chunks' \in Seq([hold : Nat, audio : Seq(Utterance)])
         /\ reported' \subseteq Nat
<1>1. [hold |-> hold, audio |-> c.audio] \in [hold : Nat, audio : Seq(Utterance)]
  BY CaptureFields DEF Counted
<1>2. CASE chunks' = Append(chunks, [hold |-> hold, audio |-> c.audio]) /\ UNCHANGED reported
  <2> DEFINE clip == [hold |-> hold, audio |-> c.audio]
  <2>1. clip \in [hold : Nat, audio : Seq(Utterance)]
    BY <1>1
  <2> HIDE DEF clip
  <2>2. Append(chunks, clip) \in Seq([hold : Nat, audio : Seq(Utterance)])
    BY <2>1, AppendProperties DEF Settled
  <2>3. QED
    BY <1>2, <2>2 DEF Settled, clip
<1>3. CASE reported' = reported \cup Ids(c.audio) /\ UNCHANGED chunks
  BY <1>3, CaptureFields, IdsAreNat DEF Settled
<1>4. QED
  BY <1>2, <1>3 DEF Submit

LEMMA ReconcileTyped ==
  ASSUME Opened, NEW config \in Config, NEW device \in Device, Reconcile(config, device)
  PROVE  /\ monitor' \in Device \cup {NoMonitor}
         /\ monitorMic' \in Mics \cup {Builtin, NoMonitor}
         /\ alive' \in BOOLEAN /\ (alive' => monitorMic' # NoMonitor)
         /\ ring' \in Seq(Utterance)
<1>1. CASE UNCHANGED monitorVars
  BY <1>1 DEF monitorVars, Opened
<1>2. CASE StopMonitor
  <2>1. monitor' = NoMonitor /\ monitorMic' = NoMonitor /\ ring' = <<>> /\ <<>> \in Seq(Utterance)
    BY <1>2 DEF StopMonitor
  <2>2. alive' = FALSE
    BY <1>2 DEF StopMonitor
  <2>3. QED
    BY <2>1, <2>2
<1>3. CASE StartMonitor(DesiredMonitor(config, device))
  BY <1>3, SourceIsMic, MicAssumption DEF StartMonitor, DesiredMonitor
<1>4. QED
  BY <1>1, <1>2, <1>3 DEF Reconcile

LEMMA SessionTyped ==
  Spec => [](HoldTypeOK /\ cfg \in Config /\ saves \in Seq(Config) /\ Opened /\ Counted /\ Settled)
<1>1. Init => Opened /\ Counted /\ Settled
  <2>1. Init => cfg.mic \in Device
    BY SettingsAssumption DEF Init, Config, Device
  <2> SUFFICES ASSUME Init PROVE Opened /\ Counted /\ Settled
    OBVIOUS
  <2>2. SourceOf(cfg.mic) \in Mics \cup {Builtin} /\ cfg.micPrivacy \in BOOLEAN
    BY SettingsAssumption DEF Init, SourceOf, Config
  <2>3. /\ monitor \in Device \cup {NoMonitor} /\ monitorMic \in Mics \cup {Builtin, NoMonitor}
        /\ ~cfg.micPrivacy => monitorMic # NoMonitor
    BY <2>1, <2>2, MicAssumption DEF Init, DesiredMonitor
  <2>4. alive \in BOOLEAN /\ (alive => ~cfg.micPrivacy)
    BY <2>2 DEF Init
  <2>5. QED
    BY <2>3, <2>4 DEF Init, Opened, Counted, Settled
<1>2. HoldTypeOK /\ cfg \in Config /\ (cfg \in Config)'
        /\ Opened /\ Counted /\ Settled /\ [Next]_vars
        => Opened' /\ Counted' /\ Settled'
  <2> SUFFICES ASSUME HoldTypeOK, cfg \in Config, cfg' \in Config,
                      Opened, Counted, Settled, [Next]_vars
               PROVE  Opened' /\ Counted' /\ Settled'
    OBVIOUS
  <2> USE DEF Opened, Counted, Settled, fateVars, monitorVars
  <2>a. active # NoCapture => active \in Capture
    OBVIOUS
  <2>1. CASE OnAction
    <3>0. UNCHANGED <<connected, osDefault, finishing, spoken, recent, heard, overlap>>
      BY <2>1 DEF OnAction, micVars, saidVars
    <3>1. CASE Head(stream) = "start"
      <4>0. Start
        BY <2>1, <3>1 DEF OnAction
      <4>1. PICK available \in Listings :
              /\ hold' = hold + 1
              /\ \/ active' = OpenCapture(ResolveDevice(cfg, available),
                                          SnapshotFor(ResolveDevice(cfg, available)))
                 \/ UNCHANGED active
              /\ Reconcile(cfg, ResolveDevice(cfg, available))
              /\ UNCHANGED fateVars
        BY <4>0 DEF Start
      <4>2. ResolveDevice(cfg, available) \in Device
        BY ResolvedIsDevice
      <4>3. SnapshotFor(ResolveDevice(cfg, available)) \in Seq(Utterance)
        BY DEF SnapshotFor
      <4>4. active' \in Capture \cup {NoCapture}
        BY <4>1, <4>2, <4>3, SourceIsMic, OpenCaptureTyped DEF OpenCapture
      <4>5. QED
        BY <3>0, <4>1, <4>2, <4>4, ReconcileTyped
    <3>2. CASE Finalize /\ active # NoCapture
      <4>1. chunks' \in Seq([hold : Nat, audio : Seq(Utterance)]) /\ reported' \subseteq Nat
        <5>1. CASE RemainderWorthSending(active)
          BY <2>a, <3>2, <5>1, SubmitTyped DEF Finalize
        <5>2. CASE ~RemainderWorthSending(active)
          BY <3>2, <5>2 DEF Finalize
        <5>3. QED
          BY <5>1, <5>2
      <4>2. QED
        BY <3>0, <3>2, <4>1 DEF Finalize
    <3>3. CASE Discard /\ active # NoCapture
      <4>1. active.audio \in Seq(Utterance)
        BY <2>a, <3>3, CaptureFields
      <4>2. QED
        BY <3>0, <3>3, <4>1, IdsAreNat DEF Discard
    <3>4. CASE UNCHANGED <<active, monitorVars, fateVars, hold>>
      BY <3>0, <3>4
    <3>5. QED
      BY <2>1, <3>1, <3>2, <3>3, <3>4 DEF OnAction
  <2>2. CASE PauseTick
    <3>0. UNCHANGED <<connected, osDefault, monitor, monitorMic, alive, ring, chunks, cancelled,
                      reported, hold, spoken, recent, heard, overlap>>
      BY <2>2 DEF PauseTick, micVars, saidVars
    <3>1. active \in Capture
      BY <2>2 DEF PauseTick, PauseOver, AutoSendActive
    <3>2. CASE GoOn(OpenCapture(active.device, <<>>))
      <4>1. active.device \in Device /\ active.chunksSent + 1 \in Nat
        BY <3>1, CaptureFields
      <4>2. <<>> \in Seq(Utterance)
        OBVIOUS
      <4>3. active' \in Capture /\ finishing' = active
        BY <3>2, <4>1, <4>2, SourceIsMic, OpenCaptureTyped DEF GoOn, OpenCapture
      <4>4. QED
        BY <3>0, <3>1, <4>3
    <3>3. CASE active' = [active EXCEPT !.sinceSpeech = NoSpeech] /\ UNCHANGED finishing
      <4>1. active' \in Capture
        BY <3>1, <3>3, CaptureUpdates
      <4>2. QED
        BY <3>0, <3>3, <4>1
    <3>4. QED
      BY <2>2, <3>2, <3>3 DEF PauseTick
  <2>2a. CASE StopFinished
    <3>1. finishing \in Capture /\ Submit(finishing)
      BY <2>2a DEF StopFinished
    <3>2. chunks' \in Seq([hold : Nat, audio : Seq(Utterance)]) /\ reported' \subseteq Nat
      BY <3>1, SubmitTyped
    <3>3. QED
      BY <2>2a, <3>2 DEF StopFinished, micVars, saidVars
  <2>3. CASE FrozenTick
    <3>1. active \in Capture
      BY <2>3 DEF FrozenTick, AutoSendActive
    <3>2. active' \in Capture
      <4>1. 0 \in 0..Pause
        BY PauseAssumption
      <4>2. QED
        BY <2>3, <3>1, <4>1, CaptureUpdates DEF FrozenTick
    <3>3. QED
      BY <2>3, <3>2 DEF FrozenTick, micVars, saidVars
  <2>4. CASE ApplyConfig
    <3>1. /\ monitor' \in Device \cup {NoMonitor} /\ monitorMic' \in Mics \cup {Builtin, NoMonitor}
          /\ alive' \in BOOLEAN /\ (alive' => monitorMic' # NoMonitor) /\ ring' \in Seq(Utterance)
      <4>1. CASE cfg'.micPrivacy # cfg.micPrivacy \/ cfg'.mic # cfg.mic
        BY <2>4, <4>1, ReconcileTyped, ResolvedIsDevice DEF ApplyConfig
      <4>2. CASE ~(cfg'.micPrivacy # cfg.micPrivacy \/ cfg'.mic # cfg.mic)
        BY <2>4, <4>2 DEF ApplyConfig
      <4>3. QED
        BY <4>1, <4>2
    <3>2. QED
      BY <2>4, <3>1 DEF ApplyConfig, micVars, captureVars, saidVars
  <2>5. CASE Speak
    <3>1. /\ spoken' \in Nat /\ recent' \subseteq Nat /\ heard' \subseteq Nat /\ overlap' \subseteq Nat
          /\ UNCHANGED <<connected, osDefault, monitor, monitorMic, alive, chunks, cancelled, reported, hold>>
      BY <2>5 DEF Speak, micVars
    <3>3. ring' \in Seq(Utterance)
      <4>1. CASE alive
        <5> DEFINE said == [id |-> spoken', mic |-> monitorMic]
        <5>1. said \in Utterance /\ ring' = Append(ring, said)
          BY <2>5, <3>1, <4>1 DEF Speak, Utterance
        <5> HIDE DEF said
        <5>2. QED
          BY <5>1, AppendProperties
      <4>2. CASE ~alive
        BY <2>5, <4>2 DEF Speak
      <4>3. QED
        BY <4>1, <4>2
    <3>4. active' \in Capture \cup {NoCapture}
      <4>1. CASE Recording(active)
        <5> DEFINE since == IF cfg.autoSend THEN 0 ELSE Hears(active, spoken').sinceSpeech
        <5>1. Hears(active, spoken') \in Capture
          BY <2>a, <3>1, <4>1, HeardTyped DEF Recording
        <5>2. since \in (0..Pause) \cup {NoSpeech}
          BY <5>1, CaptureFields, PauseAssumption
        <5>3. active' = [Hears(active, spoken') EXCEPT !.sinceSpeech = since]
          BY <2>5, <4>1 DEF Speak
        <5> HIDE DEF since
        <5>4. QED
          BY <5>1, <5>2, <5>3 DEF Capture
      <4>2. CASE ~Recording(active)
        BY <2>5, <4>2 DEF Speak
      <4>3. QED
        BY <4>1, <4>2
    <3>5. finishing' \in Capture \cup {NoCapture}
      BY <2>5, <3>1, HeardTyped DEF Speak, Recording
    <3>6. QED
      BY <3>1, <3>3, <3>4, <3>5
  <2>6. CASE Elapse
    <3>1. active' \in Capture \cup {NoCapture}
      <4>1. CASE active = NoCapture \/ active.sinceSpeech \in {NoSpeech, Pause}
        BY <2>6, <4>1 DEF Elapse
      <4>2. CASE ~(active = NoCapture \/ active.sinceSpeech \in {NoSpeech, Pause})
        <5>1. active.sinceSpeech + 1 \in 0..Pause
          BY <2>a, <4>2, CaptureFields, PauseAssumption
        <5>2. active' = [active EXCEPT !.sinceSpeech = active.sinceSpeech + 1]
          BY <2>6, <4>2 DEF Elapse
        <5>3. QED
          BY <2>a, <4>2, <5>1, <5>2, CaptureUpdates
      <4>3. QED
        BY <4>1, <4>2
    <3>2. QED
      BY <2>6, <3>1 DEF Elapse, micVars
  <2>7. CASE Plug \/ SwitchDefault
    <3>1. connected' \subseteq Mics /\ osDefault' \in connected' \cup {Builtin}
      BY <2>7 DEF Plug, SwitchDefault
    <3>2. UNCHANGED <<captureVars, monitorVars, fateVars, hold, saidVars>>
      BY <2>7 DEF Plug, SwitchDefault
    <3>3. QED
      BY <3>1, <3>2 DEF captureVars, saidVars
  <2>8. CASE Unplug
    <3>1. PICK mic \in connected :
            /\ connected' = connected \ {mic}
            /\ \/ osDefault # mic /\ UNCHANGED osDefault
               \/ osDefault = mic /\ osDefault' \in (connected \ {mic}) \cup {Builtin}
            /\ active' \in Frozen(active, mic)
            /\ finishing' \in Frozen(finishing, mic)
            /\ alive' = (alive /\ monitorMic # mic)
      BY <2>8 DEF Unplug
    <3>2. active' \in Capture \cup {NoCapture} /\ finishing' \in Capture \cup {NoCapture}
      BY <3>1, FrozenTyped
    <3>3. QED
      BY <2>8, <3>1, <3>2 DEF Unplug, saidVars
  <2>9. CASE UNCHANGED <<micVars, captureVars, monitorVars, fateVars, hold, saidVars>>
    BY <2>9 DEF micVars, captureVars, saidVars
  <2>10. QED
    BY <2>1, <2>2, <2>2a, <2>3, <2>4, <2>5, <2>6, <2>7, <2>8, <2>9
    DEF Next, User, World, Worker, vars, Press, Release, Save
<1>3. QED
  BY <1>1, <1>2, SessionAlternates, SettingsTyped, PTL DEF Spec

(* The type invariant, with types alone.                                     *)
THEOREM SessionTypeCorrect == Spec => []TypeOK
<1>1. HoldTypeOK /\ cfg \in Config /\ saves \in Seq(Config) /\ Opened /\ Counted /\ Settled => TypeOK
  BY DEF TypeOK, Opened, Counted, Settled
<1>2. QED
  BY <1>1, SessionTyped, PTL

LEMMA LiveMonitorHasMic == Spec => [](alive => monitorMic # NoMonitor)
<1>1. Opened => (alive => monitorMic # NoMonitor)
  BY DEF Opened
<1>2. QED
  BY <1>1, SessionTyped, PTL

(* What a step writes to the list of chunks is at most one clip at its end.  *)
LEMMA SubmitAppends ==
  ASSUME TypeOK, NEW c \in Capture, Submit(c)
  PROVE  \/ /\ Len(chunks') = Len(chunks) + 1 /\ chunks' \in Seq([hold : Nat, audio : Seq(Utterance)])
            /\ \A i \in DOMAIN chunks : i \in DOMAIN chunks' /\ chunks'[i] = chunks[i]
            /\ chunks'[Len(chunks) + 1].audio = c.audio
            /\ UNCHANGED reported
         \/ CanFail /\ UNCHANGED chunks /\ reported' = reported \cup Ids(c.audio)
<1> DEFINE clip == [hold |-> hold, audio |-> c.audio]
           Clips == [hold : Nat, audio : Seq(Utterance)]
<1>1. clip \in Clips /\ clip.audio = c.audio
  BY CaptureFields DEF TypeOK
<1>2. (chunks' = Append(chunks, clip) /\ UNCHANGED reported)
      \/ (CanFail /\ UNCHANGED chunks /\ reported' = reported \cup Ids(c.audio))
  BY DEF Submit
<1>3. chunks \in Seq(Clips)
  BY DEF TypeOK
<1> HIDE DEF clip, Clips
<1>4. ASSUME chunks' = Append(chunks, clip)
      PROVE  /\ Len(chunks') = Len(chunks) + 1 /\ chunks' \in Seq(Clips)
             /\ \A i \in 1..Len(chunks) : chunks'[i] = chunks[i]
             /\ chunks'[Len(chunks) + 1] = clip
  BY <1>1, <1>3, <1>4, AppendProperties
<1>5. DOMAIN chunks = 1..Len(chunks) /\ Len(chunks) \in Nat
  BY <1>3
<1>6. CASE chunks' = Append(chunks, clip) /\ UNCHANGED reported
  <2>1. DOMAIN chunks' = 1..(Len(chunks) + 1)
    BY <1>4, <1>6
  <2>2. \A i \in DOMAIN chunks : i \in DOMAIN chunks' /\ chunks'[i] = chunks[i]
    BY <1>4, <1>5, <1>6, <2>1
  <2>3. QED
    BY <1>1, <1>4, <1>6, <2>2 DEF Clips
<1>7. QED
  BY <1>2, <1>6

LEMMA SubmitSends ==
  ASSUME TypeOK, NEW c \in Capture, Submit(c), ~CanFail
  PROVE  Sent' = Sent \cup Ids(c.audio) /\ UNCHANGED reported
<1>1. /\ Len(chunks') = Len(chunks) + 1 /\ chunks' \in Seq([hold : Nat, audio : Seq(Utterance)])
      /\ \A i \in DOMAIN chunks : i \in DOMAIN chunks' /\ chunks'[i] = chunks[i]
      /\ chunks'[Len(chunks) + 1].audio = c.audio
      /\ UNCHANGED reported
  BY SubmitAppends
<1>2. /\ DOMAIN chunks = 1..Len(chunks) /\ DOMAIN chunks' = 1..(Len(chunks) + 1)
      /\ Len(chunks) \in Nat
  BY <1>1 DEF TypeOK
<1>3. DOMAIN chunks' = DOMAIN chunks \cup {Len(chunks) + 1}
  BY <1>2
<1>4. \A id : id \in Sent' <=> id \in Sent \cup Ids(c.audio)
  <2> DEFINE n == Len(chunks) + 1
  <2> HIDE DEF n
  <2>1. \A id : id \in Sent <=> \E i \in DOMAIN chunks : id \in Ids(chunks[i].audio)
    BY DEF Sent
  <2>2. \A id : id \in Sent' <=> \E i \in DOMAIN chunks' : id \in Ids(chunks'[i].audio)
    BY DEF Sent
  <2>3. DOMAIN chunks' = DOMAIN chunks \cup {n} /\ chunks'[n].audio = c.audio
    BY <1>1, <1>3 DEF n
  <2>4. QED
    BY <1>1, <2>1, <2>2, <2>3
<1>5. QED
  BY <1>1, <1>4

(* Until the detector has heard something, all that the user has said into a *)
(* hold is in the clips that have left it, or in the one being stopped.      *)
Away == Sent \cup cancelled \cup reported
DetectorMissesNothing ==
  active # NoCapture /\ cfg.autoSend /\ active.sinceSpeech = NoSpeech
    => heard \subseteq Away \cup HeardBy(finishing)

SameAutoSend == \A setting \in Settings : setting.autoSend = InitialSetting.autoSend

LEMMA AutoSendStays ==
  ASSUME SameAutoSend
  PROVE  Spec => [](/\ cfg.autoSend = InitialSetting.autoSend
                    /\ \A i \in DOMAIN saves : saves[i].autoSend = InitialSetting.autoSend)
<1> DEFINE Same == /\ cfg.autoSend = InitialSetting.autoSend
                   /\ \A i \in DOMAIN saves : saves[i].autoSend = InitialSetting.autoSend
<1>1. Init => Same
  BY DEF Init
<1>2. saves \in Seq(Config) /\ Same /\ [Next]_vars => Same'
  <2> SUFFICES ASSUME saves \in Seq(Config), Same, [Next]_vars PROVE Same'
    OBVIOUS
  <2>1. CASE Save
    <3>1. PICK config \in Settings : saves' = Append(saves, config)
      BY <2>1 DEF Save
    <3>2. config \in Config /\ config.autoSend = InitialSetting.autoSend
      BY SettingsAssumption DEF SameAutoSend
    <3>3. /\ Len(saves') = Len(saves) + 1 /\ saves' \in Seq(Config)
          /\ \A i \in 1..Len(saves) : saves'[i] = saves[i]
          /\ saves'[Len(saves) + 1] = config
      BY <3>1, <3>2, AppendProperties
    <3>4. DOMAIN saves' = 1..(Len(saves) + 1) /\ DOMAIN saves = 1..Len(saves) /\ Len(saves) \in Nat
      BY <3>3
    <3>5. \A i \in DOMAIN saves' : i \in DOMAIN saves \/ i = Len(saves) + 1
      BY <3>4
    <3>6. QED
      BY <2>1, <3>2, <3>3, <3>4, <3>5 DEF Save
  <2>2. CASE ApplyConfig
    <3>1. Len(saves) \in DOMAIN saves
      BY <2>2, EmptySeq DEF ApplyConfig
    <3>2. QED
      BY <2>2, <3>1 DEF ApplyConfig
  <2>3. CASE UNCHANGED settingsVars
    BY <2>3 DEF settingsVars
  <2>4. QED
    BY <2>1, <2>2, <2>3
    DEF Next, User, World, Worker, vars, Press, Release, Speak, Elapse, Plug, Unplug,
        SwitchDefault, OnAction, PauseTick, StopFinished, FrozenTick
<1>3. QED
  BY <1>1, <1>2, SettingsTyped, PTL DEF Spec

LEMMA HeardIds ==
  ASSUME NEW c \in Capture, NEW id \in Nat
  PROVE  Ids(Hears(c, id).audio) = Ids(c.audio) \cup {id}
<1> DEFINE said == [id |-> id, mic |-> c.mic]
           n == Len(c.audio) + 1
<1>1. said \in Utterance /\ said.id = id
  BY CaptureFields DEF Utterance
<1> HIDE DEF said
<1>2. /\ c.audio \in Seq(Utterance) /\ Len(c.audio) \in Nat
      /\ DOMAIN c.audio = 1..Len(c.audio)
  BY CaptureFields
<1>3. Hears(c, id).audio = Append(c.audio, said)
  BY HeardTyped DEF said
<1>4. /\ DOMAIN Append(c.audio, said) = 1..Len(c.audio) + 1
      /\ \A k \in 1..Len(c.audio) : Append(c.audio, said)[k] = c.audio[k]
      /\ Append(c.audio, said)[Len(c.audio) + 1] = said
  BY <1>1, <1>2, AppendProperties
<1>5. 1..Len(c.audio) + 1 = (DOMAIN c.audio) \cup {n}
  BY <1>2
<1>6. /\ DOMAIN Hears(c, id).audio = (DOMAIN c.audio) \cup {n}
      /\ \A k \in DOMAIN c.audio : Hears(c, id).audio[k] = c.audio[k]
      /\ Hears(c, id).audio[n] = said
  BY <1>2, <1>3, <1>4, <1>5
<1> HIDE DEF n
<1>7. \A x : x \in Ids(Hears(c, id).audio) <=> x \in Ids(c.audio) \cup {id}
  BY <1>1, <1>6 DEF Ids
<1>8. QED
  BY <1>7

LEMMA SpeakHears ==
  ASSUME TypeOK, Speak
  PROVE  /\ active = NoCapture <=> active' = NoCapture
         /\ finishing = NoCapture <=> finishing' = NoCapture
         /\ Recording(active) => HeardBy(active') = HeardBy(active) \cup {spoken'}
         /\ Recording(finishing) => HeardBy(finishing') = HeardBy(finishing) \cup {spoken'}
         /\ Recording(active) /\ cfg.autoSend => active'.sinceSpeech # NoSpeech
         /\ ~Recording(active) => active' = active
         /\ ~Recording(finishing) => finishing' = finishing
<1>1. /\ active \in Capture \cup {NoCapture} /\ finishing \in Capture \cup {NoCapture}
      /\ spoken' \in Nat
  BY DEF TypeOK, Speak
<1>2. ASSUME Recording(active)
      PROVE  /\ active # NoCapture /\ active' # NoCapture
             /\ HeardBy(active') = HeardBy(active) \cup {spoken'}
             /\ cfg.autoSend => active'.sinceSpeech # NoSpeech
  <2>1. active \in Capture
    BY <1>1, <1>2 DEF Recording
  <2> DEFINE since == IF cfg.autoSend THEN 0 ELSE Hears(active, spoken').sinceSpeech
  <2>2. Hears(active, spoken') \in Capture
    BY <1>1, <2>1, HeardTyped
  <2>3. active' = [Hears(active, spoken') EXCEPT !.sinceSpeech = since]
    BY <1>2 DEF Speak
  <2>4. since \in (0..Pause) \cup {NoSpeech} /\ (cfg.autoSend => since # NoSpeech)
    BY <2>2, CaptureFields, PauseAssumption, NoneAssumption
  <2> HIDE DEF since
  <2>5. active' \in Capture /\ active'.audio = Hears(active, spoken').audio /\ active'.sinceSpeech = since
    BY <2>2, <2>3, <2>4 DEF Capture
  <2>6. Ids(active'.audio) = Ids(active.audio) \cup {spoken'}
    BY <1>1, <2>1, <2>5, HeardIds
  <2>7. active # NoCapture /\ active' # NoCapture
    BY <2>1, <2>5, NoneAssumption
  <2>8. HeardBy(active') = HeardBy(active) \cup {spoken'}
    BY <2>6, <2>7 DEF HeardBy
  <2>9. QED
    BY <2>4, <2>5, <2>7, <2>8
<1>3. ~Recording(active) => active' = active
  BY DEF Speak
<1>4. ASSUME Recording(finishing)
      PROVE  /\ finishing # NoCapture /\ finishing' # NoCapture
             /\ HeardBy(finishing') = HeardBy(finishing) \cup {spoken'}
  <2>1. finishing \in Capture /\ finishing' = Hears(finishing, spoken')
    BY <1>1, <1>4 DEF Recording, Speak
  <2>2. Hears(finishing, spoken') \in Capture
    BY <1>1, <2>1, HeardTyped
  <2>3. Ids(Hears(finishing, spoken').audio) = Ids(finishing.audio) \cup {spoken'}
    BY <1>1, <2>1, HeardIds
  <2>4. finishing # NoCapture /\ finishing' # NoCapture
    BY <2>1, <2>2, NoneAssumption
  <2>5. HeardBy(finishing') = HeardBy(finishing) \cup {spoken'}
    BY <2>1, <2>3, <2>4 DEF HeardBy
  <2>6. QED
    BY <2>4, <2>5
<1>5. ~Recording(finishing) => finishing' = finishing
  BY DEF Speak
<1>6. /\ active = NoCapture <=> active' = NoCapture
      /\ Recording(active) => HeardBy(active') = HeardBy(active) \cup {spoken'}
      /\ Recording(active) /\ cfg.autoSend => active'.sinceSpeech # NoSpeech
      /\ ~Recording(active) => active' = active
  BY <1>2, <1>3
<1>7. /\ finishing = NoCapture <=> finishing' = NoCapture
      /\ Recording(finishing) => HeardBy(finishing') = HeardBy(finishing) \cup {spoken'}
      /\ ~Recording(finishing) => finishing' = finishing
  BY <1>4, <1>5
<1>8. QED
  BY <1>6, <1>7

(* Time, a frozen level and a microphone that goes away leave what a capture *)
(* holds alone.                                                              *)
StillSays(old, new) ==
  /\ old = NoCapture <=> new = NoCapture
  /\ old # NoCapture => /\ new.audio = old.audio
                        /\ new.sinceSpeech = NoSpeech => old.sinceSpeech = NoSpeech

LEMMA ActiveStillSays ==
  ASSUME TypeOK, Elapse \/ FrozenTick \/ Unplug
  PROVE  StillSays(active, active')
<1>1. active \in Capture \cup {NoCapture}
  BY DEF TypeOK
<1>2. ASSUME active \in Capture, NEW since \in 0..Pause, active' = [active EXCEPT !.sinceSpeech = since]
      PROVE  StillSays(active, active')
  <2>1. active' \in Capture /\ active'.audio = active.audio /\ active'.sinceSpeech = since
    BY <1>2 DEF Capture
  <2>2. QED
    BY <1>2, <2>1, NoneAssumption DEF StillSays
<1>3. CASE Elapse
  <2>1. CASE active = NoCapture \/ active.sinceSpeech \in {NoSpeech, Pause}
    BY <1>3, <2>1 DEF Elapse, StillSays
  <2>2. CASE ~(active = NoCapture \/ active.sinceSpeech \in {NoSpeech, Pause})
    <3>1. active \in Capture /\ active.sinceSpeech + 1 \in 0..Pause
      BY <1>1, <2>2, CaptureFields, PauseAssumption
    <3>2. active' = [active EXCEPT !.sinceSpeech = active.sinceSpeech + 1]
      BY <1>3, <2>2 DEF Elapse
    <3>3. QED
      BY <1>2, <3>1, <3>2
  <2>3. QED
    BY <2>1, <2>2
<1>4. CASE FrozenTick
  BY <1>1, <1>2, <1>4, PauseAssumption DEF FrozenTick, AutoSendActive
<1>5. CASE Unplug
  <2>1. PICK mic : active' \in Frozen(active, mic)
    BY <1>5 DEF Unplug
  <2>2. QED
    BY <1>1, <2>1, FrozenTyped DEF StillSays
<1>6. QED
  BY <1>3, <1>4, <1>5

(* What is said into a hold is still being recorded, was sent or was         *)
(* cancelled, for any microphones and settings that agree on auto-send, if   *)
(* no stream fails: the automatic sends and the remainder that is dropped at *)
(* a release between them lose nothing (session.rs, finalize, on_tick).      *)
THEOREM SpeechIsKept ==
  ASSUME ~CanFail, SameAutoSend
  PROVE  Spec => []NothingIsLost
<1> DEFINE Same == /\ cfg.autoSend = InitialSetting.autoSend
                   /\ \A i \in DOMAIN saves : saves[i].autoSend = InitialSetting.autoSend
           Kept == NothingIsLost /\ DetectorMissesNothing
<1>1. Init => Kept
  BY DEF Init, NothingIsLost, DetectorMissesNothing
<1>2. TypeOK /\ Same /\ Same' /\ Alternates /\ MicOnlyWhileHeld /\ Kept /\ [Next]_vars => Kept'
  <2> SUFFICES ASSUME TypeOK, Same, Same', Alternates, MicOnlyWhileHeld, Kept, [Next]_vars
               PROVE  NothingIsLost' /\ DetectorMissesNothing'
    OBVIOUS
  <2>0. cfg'.autoSend = cfg.autoSend
    OBVIOUS
  <2>a. active # NoCapture => active \in Capture
    BY DEF TypeOK
  <2>b. /\ heard \subseteq Away \cup StillRecording
        /\ DetectorMissesNothing
    BY DEF NothingIsLost, Away
  <2>c. NothingIsLost' <=> heard' \subseteq Away' \cup StillRecording'
    BY DEF NothingIsLost, Away
  <2> HIDE DEF Same
  <2>1. CASE OnAction
    <3>0. finishing = NoCapture /\ finishing' = NoCapture
      BY <2>1 DEF OnAction, Free
    <3>1. /\ heard' = heard /\ cfg' = cfg
          /\ HeardBy(finishing) = {} /\ HeardBy(finishing') = {}
      BY <2>1, <3>0 DEF OnAction, settingsVars, saidVars, HeardBy
    <3>2. CASE Head(stream) = "start"
      <4>1. stream # <<>> /\ stream[1] = "start"
        BY <2>1, <3>2 DEF OnAction, Take, TypeOK, HoldTypeOK
      <4>2. ~recording
        BY <4>1 DEF Alternates, Alternating
      <4>3. active = NoCapture
        BY <4>2 DEF MicOnlyWhileHeld
      <4>4. UNCHANGED fateVars
        BY <2>1, <3>2 DEF OnAction, Start
      <4>5. Away' = Away
        BY <4>4 DEF Away, Sent, fateVars
      <4>6. heard \subseteq Away
        BY <2>b, <3>1, <4>3 DEF StillRecording, HeardBy
      <4>7. QED
        BY <2>c, <3>1, <4>5, <4>6 DEF DetectorMissesNothing
    <3>3. CASE Finalize /\ active # NoCapture
      <4>1. active' = NoCapture /\ cancelled' = cancelled
        BY <3>3 DEF Finalize
      <4>2. CASE RemainderWorthSending(active)
        <5>1. Sent' = Sent \cup Ids(active.audio) /\ UNCHANGED reported
          BY <2>a, <3>3, <4>2, SubmitSends DEF Finalize
        <5>2. Away' = Away \cup StillRecording
          BY <3>1, <3>3, <4>1, <5>1 DEF Away, StillRecording, HeardBy
        <5>3. QED
          BY <2>b, <2>c, <3>1, <4>1, <5>2 DEF DetectorMissesNothing
      <4>3. CASE ~RemainderWorthSending(active)
        <5>1. Away' = Away
          BY <3>3, <4>1, <4>3 DEF Finalize, Away, Sent
        <5>2. heard \subseteq Away
          BY <2>b, <3>1, <3>3, <4>3 DEF RemainderWorthSending, DetectorMissesNothing
        <5>3. QED
          BY <2>c, <3>1, <4>1, <5>1, <5>2 DEF DetectorMissesNothing
      <4>4. QED
        BY <4>2, <4>3
    <3>4. CASE Discard /\ active # NoCapture
      <4>1. active' = NoCapture /\ UNCHANGED <<chunks, reported>>
            /\ cancelled' = cancelled \cup Ids(active.audio)
        BY <3>4 DEF Discard
      <4>2. Away' = Away \cup StillRecording
        BY <3>1, <3>4, <4>1 DEF Away, Sent, StillRecording, HeardBy
      <4>3. QED
        BY <2>b, <2>c, <3>1, <4>1, <4>2 DEF DetectorMissesNothing
    <3>5. CASE UNCHANGED <<active, monitorVars, fateVars, hold>>
      <4>1. Away' = Away /\ StillRecording' = StillRecording
        BY <3>0, <3>5 DEF Away, Sent, StillRecording, fateVars
      <4>2. QED
        BY <2>b, <2>c, <3>0, <3>1, <3>5, <4>1 DEF DetectorMissesNothing
    <3>6. QED
      BY <2>1, <3>2, <3>3, <3>4, <3>5 DEF OnAction
  <2>2. CASE PauseTick
    <3>1. finishing = NoCapture /\ finishing' = active /\ active' # NoCapture /\ active # NoCapture
      <4>1. GoOn(OpenCapture(active.device, <<>>)) /\ active \in Capture /\ finishing = NoCapture
        BY <2>2, <2>a DEF PauseTick, PauseOver, AutoSendActive, Free
      <4>2. active'.audio = <<>> /\ active' \in Capture
        <5>1. active.device \in Device /\ active.chunksSent + 1 \in Nat
          BY <4>1, CaptureFields
        <5>2. SourceOf(active.device) \in Mics \cup {Builtin} /\ <<>> \in Seq(Utterance)
          BY SourceTyped
        <5>3. QED
          BY <4>1, <5>1, <5>2, OpenCaptureTyped DEF GoOn, OpenCapture
      <4>3. QED
        BY <4>1, <4>2, NoneAssumption DEF GoOn
    <3>2. Away' = Away /\ heard' = heard
      BY <2>2 DEF PauseTick, Away, Sent, fateVars, saidVars
    <3>3. heard' \subseteq Away' \cup HeardBy(finishing')
      BY <2>b, <3>1, <3>2 DEF StillRecording, HeardBy
    <3>4. QED
      BY <2>c, <3>3 DEF DetectorMissesNothing, StillRecording
  <2>2a. CASE StopFinished
    <3>1. /\ finishing \in Capture /\ Submit(finishing) /\ finishing' = NoCapture
          /\ cancelled' = cancelled /\ heard' = heard /\ active' = active /\ cfg' = cfg
      BY <2>2a DEF StopFinished, TypeOK, saidVars, settingsVars
    <3>2. Sent' = Sent \cup Ids(finishing.audio) /\ UNCHANGED reported
      BY <3>1, SubmitSends
    <3>3. Away' = Away \cup HeardBy(finishing) /\ HeardBy(active') = HeardBy(active)
      BY <2>2a, <3>1, <3>2 DEF Away, HeardBy, StopFinished
    <3>4. QED
      BY <2>b, <2>c, <3>1, <3>3 DEF DetectorMissesNothing, StillRecording
  <2>3. CASE Speak
    <3>1. /\ Away' = Away /\ cfg' = cfg
          /\ heard' = heard \cup (IF Recording(active) \/ Recording(finishing) THEN {spoken'} ELSE {})
      BY <2>3 DEF Speak, Away, Sent, fateVars, settingsVars
    <3>2. NothingIsLost'
      BY <2>3, <2>b, <2>c, <3>1, SpeakHears DEF StillRecording
    <3>3. DetectorMissesNothing'
      BY <2>3, <2>b, <3>1, SpeakHears DEF DetectorMissesNothing
    <3>4. QED
      BY <3>2, <3>3
  <2>4. CASE Elapse \/ FrozenTick \/ Unplug
    <3>1. Away' = Away /\ heard' = heard /\ cfg' = cfg
      BY <2>4 DEF Elapse, FrozenTick, Unplug, Away, Sent, fateVars, settingsVars, saidVars
    <3>2. StillSays(active, active')
      BY <2>4, ActiveStillSays
    <3>3. HeardBy(finishing') = HeardBy(finishing)
      <4>1. CASE Unplug
        <5>1. PICK mic : finishing' \in Frozen(finishing, mic)
          BY <4>1 DEF Unplug
        <5>2. /\ finishing = NoCapture <=> finishing' = NoCapture
              /\ finishing # NoCapture => finishing'.audio = finishing.audio
          BY <5>1, FrozenTyped DEF TypeOK
        <5>3. QED
          BY <5>2 DEF HeardBy
      <4>2. CASE ~Unplug
        <5>1. finishing' = finishing
          BY <2>4, <4>2 DEF Elapse, FrozenTick
        <5>2. QED
          BY <5>1 DEF HeardBy
      <4>3. QED
        BY <4>1, <4>2
    <3>4. HeardBy(active') = HeardBy(active)
      BY <3>2 DEF StillSays, HeardBy
    <3>5. QED
      BY <2>b, <2>c, <3>1, <3>2, <3>3, <3>4 DEF DetectorMissesNothing, StillRecording, StillSays
  <2>same. CASE UNCHANGED <<captureVars, fateVars, heard>>
    <3>1. Away' = Away /\ StillRecording' = StillRecording /\ heard' = heard /\ UNCHANGED <<active, finishing>>
      BY <2>same DEF Away, Sent, StillRecording, fateVars, captureVars
    <3>2. QED
      BY <2>0, <2>b, <2>c, <3>1 DEF DetectorMissesNothing
  <2>5. QED
    BY <2>same, <2>1, <2>2, <2>2a, <2>3, <2>4
    DEF Next, User, World, Worker, vars, saidVars, Press, Release, Save, Plug, SwitchDefault, ApplyConfig
<1>3. QED
  BY <1>1, <1>2, SessionTypeCorrect, AutoSendStays, SessionAlternates, MicReleased, PTL DEF Spec

(* While every setting keeps the microphone private no monitor has anything  *)
(* to splice in front of a capture.                                          *)
AllPrivate == InitialSetting.micPrivacy /\ \A setting \in Settings : setting.micPrivacy

NoPreroll ==
  /\ cfg.micPrivacy /\ \A i \in DOMAIN saves : saves[i].micPrivacy
  /\ monitor = NoMonitor /\ ~alive /\ ring = <<>>

LEMMA NoPrerollEver == ASSUME AllPrivate PROVE Spec => []NoPreroll
<1>1. Init => NoPreroll
  <2> SUFFICES ASSUME Init PROVE NoPreroll
    OBVIOUS
  <2>1. cfg.micPrivacy /\ saves = <<>> /\ ring = <<>>
    BY DEF Init, AllPrivate
  <2>2. monitor = NoMonitor /\ alive = FALSE
    BY <2>1, Zenon DEF Init, DesiredMonitor
  <2>3. QED
    BY <2>1, <2>2 DEF NoPreroll
<1>2. saves \in Seq(Config) /\ cfg \in Config /\ (cfg \in Config)' /\ NoPreroll /\ [Next]_vars => NoPreroll'
  <2> SUFFICES ASSUME saves \in Seq(Config), cfg \in Config, cfg' \in Config, NoPreroll, [Next]_vars
               PROVE  NoPreroll'
    OBVIOUS
  <2> USE DEF NoPreroll
  <2>1. CASE Save
    <3>1. PICK config \in Settings : saves' = Append(saves, config)
      BY <2>1 DEF Save
    <3>2. config \in Config /\ config.micPrivacy
      BY SettingsAssumption DEF AllPrivate
    <3>3. /\ Len(saves') = Len(saves) + 1 /\ saves' \in Seq(Config)
          /\ \A i \in 1..Len(saves) : saves'[i] = saves[i]
          /\ saves'[Len(saves) + 1] = config
      BY <3>1, <3>2, AppendProperties
    <3>4. DOMAIN saves' = 1..(Len(saves) + 1) /\ DOMAIN saves = 1..Len(saves) /\ Len(saves) \in Nat
      BY <3>3
    <3>5. \A i \in DOMAIN saves' : i \in DOMAIN saves \/ i = Len(saves) + 1
      BY <3>4
    <3>6. \A i \in DOMAIN saves' : saves'[i].micPrivacy
      BY <3>2, <3>3, <3>4, <3>5
    <3>7. UNCHANGED <<cfg, monitor, alive, ring>>
      BY <2>1 DEF Save, monitorVars
    <3>8. QED
      BY <3>6, <3>7
  <2>2. CASE ApplyConfig
    <3>1. Len(saves) \in DOMAIN saves /\ cfg' = saves[Len(saves)] /\ saves' = <<>>
      BY <2>2, EmptySeq DEF ApplyConfig
    <3>2. cfg'.micPrivacy
      BY <3>1
    <3>3. UNCHANGED monitorVars
      <4>1. CASE cfg'.micPrivacy # cfg.micPrivacy \/ cfg'.mic # cfg.mic
        <5>1. PICK device : Reconcile(cfg', device)
          BY <2>2, <4>1 DEF ApplyConfig
        <5>2. QED
          BY <3>2, <5>1 DEF Reconcile, DesiredMonitor
      <4>2. CASE ~(cfg'.micPrivacy # cfg.micPrivacy \/ cfg'.mic # cfg.mic)
        BY <2>2, <4>2 DEF ApplyConfig
      <4>3. QED
        BY <4>1, <4>2
    <3>4. QED
      BY <3>1, <3>2, <3>3 DEF monitorVars
  <2>3. CASE OnAction
    <3>1. UNCHANGED settingsVars
      BY <2>3 DEF OnAction
    <3>2. UNCHANGED monitorVars
      <4>1. CASE Start
        <5>1. PICK device : Reconcile(cfg, device)
          BY <4>1 DEF Start
        <5>2. QED
          BY <5>1 DEF Reconcile, DesiredMonitor
      <4>2. CASE ~Start
        BY <2>3, <4>2 DEF OnAction, Finalize, Discard
      <4>3. QED
        BY <4>1, <4>2
    <3>3. QED
      BY <3>1, <3>2 DEF settingsVars, monitorVars
  <2>4. CASE Speak
    BY <2>4 DEF Speak, settingsVars
  <2>5. CASE Elapse
    BY <2>5 DEF Elapse, settingsVars
  <2>6. CASE Unplug
    BY <2>6 DEF Unplug, settingsVars
  <2>7. CASE UNCHANGED <<settingsVars, monitorVars>>
    BY <2>7 DEF settingsVars, monitorVars
  <2>8. QED
    BY <2>1, <2>2, <2>3, <2>4, <2>5, <2>6, <2>7
    DEF Next, User, World, Worker, vars, Press, Release, Plug, SwitchDefault, PauseTick,
        StopFinished, FrozenTick
<1>3. QED
  BY <1>1, <1>2, SettingsTyped, PTL DEF Spec

(* What was said later has the higher number: in a clip, from clip to clip   *)
(* and to the captures that are open, but for what two adjoining clips both  *)
(* heard.                                                                    *)
Rising(audio) == \A k, l \in DOMAIN audio : k < l => audio[k].id < audio[l].id
UpTo(audio, last) == \A k \in DOMAIN audio : audio[k].id <= last
Follows(audio, clip) == \A k \in DOMAIN clip, l \in DOMAIN audio : clip[k].id < audio[l].id
Laps(audio, clip, both) ==
  \A k \in DOMAIN clip, l \in DOMAIN audio : clip[k].id < audio[l].id \/ audio[l].id \in both

ClipsInOrder ==
  /\ \A i \in DOMAIN chunks : Rising(chunks[i].audio) /\ UpTo(chunks[i].audio, spoken)
  /\ \A i, j \in DOMAIN chunks : i < j =>
       /\ Laps(chunks[j].audio, chunks[i].audio, overlap)
       /\ Adjoining(i, j) \/ Follows(chunks[j].audio, chunks[i].audio)

(* The audio of the next clip to be queued, at the end of this hold's clips. *)
ComesNext(audio, clips, now, both) ==
  \A i \in DOMAIN clips :
    /\ Laps(audio, clips[i].audio, both)
    /\ (i = Len(clips) /\ clips[i].hold = now) \/ Follows(audio, clips[i].audio)

CaptureInOrder ==
  /\ active # NoCapture => Rising(active.audio) /\ UpTo(active.audio, spoken)
  /\ active # NoCapture /\ finishing = NoCapture => ComesNext(active.audio, chunks, hold, overlap)
  /\ finishing # NoCapture =>
       /\ active # NoCapture
       /\ Rising(finishing.audio) /\ UpTo(finishing.audio, spoken)
       /\ ComesNext(finishing.audio, chunks, hold, overlap)
       /\ Laps(active.audio, finishing.audio, overlap)
       /\ Recording(finishing) => Ids(active.audio) \subseteq overlap
       /\ \A i \in DOMAIN chunks : Follows(active.audio, chunks[i].audio)

LEMMA OrderedClips == ASSUME TypeOK, ClipsInOrder PROVE SpeechInOrder
<1> SUFFICES ASSUME NEW i \in DOMAIN chunks, NEW j \in DOMAIN chunks,
                    NEW k \in DOMAIN chunks[i].audio, NEW l \in DOMAIN chunks[j].audio,
                    Before(i, k, j, l)
             PROVE  \/ chunks[i].audio[k].id < chunks[j].audio[l].id
                    \/ Adjoining(i, j) /\ chunks[j].audio[l].id \in overlap
  BY DEF SpeechInOrder
<1>1. CASE i < j
  BY <1>1 DEF ClipsInOrder, Follows, Laps
<1>2. CASE i = j /\ k < l
  BY <1>2 DEF ClipsInOrder, Rising
<1>3. QED
  BY <1>1, <1>2 DEF Before

LEMMA ClipsTyped ==
  ASSUME TypeOK
  PROVE  /\ DOMAIN chunks = 1..Len(chunks) /\ Len(chunks) \in Nat
         /\ \A i \in DOMAIN chunks : chunks[i].hold \in Nat /\ chunks[i].audio \in Seq(Utterance)
<1> DEFINE Clips == [hold : Nat, audio : Seq(Utterance)]
<1>1. chunks \in Seq(Clips)
  BY DEF TypeOK
<1> HIDE DEF Clips
<1>2. DOMAIN chunks = 1..Len(chunks) /\ Len(chunks) \in Nat /\ \A i \in DOMAIN chunks : chunks[i] \in Clips
  BY <1>1
<1>3. QED
  BY <1>2 DEF Clips

(* Queueing a clip that comes next, or reporting that it cannot be stopped.  *)
LEMMA SubmitInOrder ==
  ASSUME TypeOK, NEW c \in Capture, Submit(c), spoken' = spoken, overlap' = overlap, hold' = hold,
         ClipsInOrder, ComesNext(c.audio, chunks, hold, overlap), Rising(c.audio), UpTo(c.audio, spoken)
  PROVE  /\ ClipsInOrder'
         /\ \A audio : /\ \A i \in DOMAIN chunks : Follows(audio, chunks[i].audio)
                       /\ Laps(audio, c.audio, overlap)
                       => ComesNext(audio, chunks', hold', overlap')
<1> DEFINE n == Len(chunks) + 1
<1>1. \A audio, clip : Follows(audio, clip) => Laps(audio, clip, overlap)
  BY DEF Follows, Laps
<1>2. CASE UNCHANGED chunks
  BY <1>1, <1>2 DEF ClipsInOrder, ComesNext, Adjoining
<1>3. CASE chunks' = Append(chunks, [hold |-> hold, audio |-> c.audio])
  <2> DEFINE clip == [hold |-> hold, audio |-> c.audio]
             Clips == [hold : Nat, audio : Seq(Utterance)]
  <2>1. clip \in Clips /\ clip.hold = hold /\ clip.audio = c.audio
    BY CaptureFields DEF TypeOK
  <2>2. chunks \in Seq(Clips) /\ Len(chunks) \in Nat /\ DOMAIN chunks = 1..Len(chunks)
    BY ClipsTyped DEF TypeOK
  <2> HIDE DEF clip, Clips
  <2>3. /\ DOMAIN Append(chunks, clip) = 1..Len(chunks) + 1 /\ Len(Append(chunks, clip)) = Len(chunks) + 1
        /\ \A i \in 1..Len(chunks) : Append(chunks, clip)[i] = chunks[i]
        /\ Append(chunks, clip)[Len(chunks) + 1] = clip
    BY <2>1, <2>2, AppendProperties
  <2>4. /\ chunks' = Append(chunks, clip) /\ Len(chunks') = n
        /\ \A i \in DOMAIN chunks' : i \in DOMAIN chunks \/ i = n
        /\ \A i \in DOMAIN chunks : chunks'[i] = chunks[i] /\ i # n /\ i \in DOMAIN chunks'
        /\ chunks'[n].audio = c.audio /\ chunks'[n].hold = hold
        /\ \A i \in DOMAIN chunks' : ~(n < i)
        /\ \A i \in DOMAIN chunks : (i = Len(chunks)) <=> (n = i + 1)
    <3>1. chunks' = Append(chunks, clip)
      BY <1>3 DEF clip
    <3>2. QED
      BY <2>1, <2>2, <2>3, <3>1
  <2> HIDE DEF n
  <2>5. \A i \in DOMAIN chunks' : Rising(chunks'[i].audio) /\ UpTo(chunks'[i].audio, spoken')
    BY <2>4 DEF ClipsInOrder
  <2>6. ASSUME NEW i \in DOMAIN chunks', NEW j \in DOMAIN chunks', i < j
        PROVE  /\ Laps(chunks'[j].audio, chunks'[i].audio, overlap')
               /\ Adjoining(i, j)' \/ Follows(chunks'[j].audio, chunks'[i].audio)
    <3>1. i \in DOMAIN chunks /\ chunks'[i] = chunks[i]
      BY <2>4, <2>6
    <3>2. CASE j = n
      <4>1. /\ Laps(c.audio, chunks[i].audio, overlap)
            /\ (i = Len(chunks) /\ chunks[i].hold = hold) \/ Follows(c.audio, chunks[i].audio)
        BY <3>1 DEF ComesNext
      <4>2. i = Len(chunks) /\ chunks[i].hold = hold => Adjoining(i, j)'
        BY <2>4, <3>1, <3>2 DEF Adjoining
      <4>3. QED
        BY <2>4, <3>1, <3>2, <4>1, <4>2
    <3>3. CASE j \in DOMAIN chunks
      <4>1. /\ Laps(chunks[j].audio, chunks[i].audio, overlap)
            /\ Adjoining(i, j) \/ Follows(chunks[j].audio, chunks[i].audio)
        BY <2>6, <3>1, <3>3 DEF ClipsInOrder
      <4>2. chunks'[j] = chunks[j] /\ (Adjoining(i, j) => Adjoining(i, j)')
        BY <2>4, <3>1, <3>3 DEF Adjoining
      <4>3. QED
        BY <3>1, <4>1, <4>2
    <3>4. QED
      BY <2>4, <3>2, <3>3
  <2>7. ASSUME NEW audio, \A i \in DOMAIN chunks : Follows(audio, chunks[i].audio),
               Laps(audio, c.audio, overlap)
        PROVE  ComesNext(audio, chunks', hold', overlap')
    BY <1>1, <2>4, <2>7 DEF ComesNext
  <2>8. QED
    BY <2>5, <2>6, <2>7 DEF ClipsInOrder
<1>4. QED
  BY <1>2, <1>3 DEF Submit

(* A capture that hears one more utterance, the last one spoken.             *)
LEMMA HearsInOrder ==
  ASSUME NEW c \in Capture, NEW last \in Nat, Rising(c.audio), UpTo(c.audio, last)
  PROVE  /\ Rising(Hears(c, last + 1).audio) /\ UpTo(Hears(c, last + 1).audio, last + 1)
         /\ \A clip \in Seq(Utterance) : \A both : UpTo(clip, last) =>
              /\ Follows(c.audio, clip) => Follows(Hears(c, last + 1).audio, clip)
              /\ Laps(c.audio, clip, both) => Laps(Hears(c, last + 1).audio, clip, both)
<1> DEFINE said == [id |-> last + 1, mic |-> c.mic]
           n == Len(c.audio) + 1
           more == Hears(c, last + 1).audio
<1>1. c.audio \in Seq(Utterance) /\ c.mic \in Mics \cup {Builtin}
  BY CaptureFields
<1>2. said \in Utterance /\ said.id = last + 1 /\ more = Append(c.audio, said)
  BY <1>1, HeardTyped DEF Utterance
<1> HIDE DEF said, more
<1>3. /\ DOMAIN more = 1..Len(c.audio) + 1 /\ more[Len(c.audio) + 1] = said
      /\ \A k \in 1..Len(c.audio) : more[k] = c.audio[k]
  BY <1>1, <1>2, AppendProperties
<1>4. /\ \A k \in DOMAIN more : k \in DOMAIN c.audio \/ k = n
      /\ \A k \in DOMAIN c.audio : k \in DOMAIN more /\ more[k] = c.audio[k] /\ ~(n < k)
      /\ more[n] = said /\ ~(n < n)
  BY <1>1, <1>3
<1> HIDE DEF n
<1>5. \A k \in DOMAIN c.audio : c.audio[k].id \in Nat /\ c.audio[k].id <= last
  <2>1. \A k \in DOMAIN c.audio : c.audio[k] \in Utterance
    BY <1>1
  <2>2. QED
    BY <2>1 DEF UpTo, Utterance
<1>6. Rising(more)
  <2> SUFFICES ASSUME NEW k \in DOMAIN more, NEW l \in DOMAIN more, k < l
               PROVE  more[k].id < more[l].id
    BY DEF Rising
  <2>1. k \in DOMAIN c.audio
    BY <1>4
  <2>2. CASE l = n
    BY <1>2, <1>4, <1>5, <2>1, <2>2
  <2>3. CASE l \in DOMAIN c.audio
    BY <1>4, <2>1, <2>3 DEF Rising
  <2>4. QED
    BY <1>4, <2>2, <2>3
<1>7. UpTo(more, last + 1)
  BY <1>2, <1>4, <1>5 DEF UpTo
<1>8. ASSUME NEW clip \in Seq(Utterance), UpTo(clip, last)
      PROVE  \A k \in DOMAIN clip : clip[k].id < said.id
  <2>1. \A k \in DOMAIN clip : clip[k] \in Utterance
    OBVIOUS
  <2>2. QED
    BY <1>2, <1>8, <2>1 DEF UpTo, Utterance
<1>9. \A clip \in Seq(Utterance) : \A both : UpTo(clip, last) =>
        /\ Follows(c.audio, clip) => Follows(more, clip)
        /\ Laps(c.audio, clip, both) => Laps(more, clip, both)
  BY <1>4, <1>8 DEF Follows, Laps
<1>10. QED
  BY <1>6, <1>7, <1>9 DEF more

(* What is said keeps the order.                                             *)
LEMMA SpeakInOrder ==
  ASSUME TypeOK, ClipsInOrder, CaptureInOrder, Speak
  PROVE  ClipsInOrder' /\ CaptureInOrder'
<1>1. /\ spoken \in Nat /\ spoken' = spoken + 1 /\ chunks' = chunks /\ hold' = hold
      /\ overlap \subseteq overlap'
      /\ Recording(active) /\ Recording(finishing) => spoken' \in overlap'
  BY DEF Speak, TypeOK, fateVars
<1>2. /\ active \in Capture \cup {NoCapture} /\ finishing \in Capture \cup {NoCapture}
      /\ \A i \in DOMAIN chunks : chunks[i].audio \in Seq(Utterance)
  BY ClipsTyped DEF TypeOK
<1>3. \A audio \in Seq(Utterance) : UpTo(audio, spoken) => UpTo(audio, spoken')
  <2> SUFFICES ASSUME NEW audio \in Seq(Utterance), UpTo(audio, spoken), NEW k \in DOMAIN audio
               PROVE  audio[k].id <= spoken'
    BY DEF UpTo
  <2>1. audio[k] \in Utterance
    OBVIOUS
  <2>2. QED
    BY <1>1, <2>1 DEF UpTo, Utterance
<1>4. \A audio, clip : Laps(audio, clip, overlap) => Laps(audio, clip, overlap')
  BY <1>1 DEF Laps
<1>5. ClipsInOrder'
  BY <1>1, <1>2, <1>3, <1>4 DEF ClipsInOrder, Adjoining
(* Each of the two captures, whether it hears the utterance or not.          *)
<1> DEFINE Grows(old, new) ==
             /\ Rising(new.audio) /\ UpTo(new.audio, spoken')
             /\ \A clip \in Seq(Utterance) : UpTo(clip, spoken) =>
                  /\ Follows(old.audio, clip) => Follows(new.audio, clip)
                  /\ Laps(old.audio, clip, overlap) => Laps(new.audio, clip, overlap')
<1>6. /\ active = NoCapture <=> active' = NoCapture
      /\ finishing = NoCapture <=> finishing' = NoCapture
  BY SpeakHears
<1>7. ASSUME NEW c \in Capture, Rising(c.audio), UpTo(c.audio, spoken)
      PROVE  Grows(c, c) /\ Grows(c, Hears(c, spoken'))
  <2>1. c.audio \in Seq(Utterance)
    BY CaptureFields
  <2>2. Grows(c, c)
    BY <1>3, <1>4, <1>7, <2>1
  <2>3. Grows(c, Hears(c, spoken'))
    BY <1>1, <1>4, <1>7, HearsInOrder
  <2>4. QED
    BY <2>2, <2>3
<1>8. active # NoCapture => /\ Grows(active, active')
                            /\ active'.audio = IF Recording(active) THEN Hears(active, spoken').audio
                                               ELSE active.audio
  <2> SUFFICES ASSUME active # NoCapture
               PROVE  /\ Grows(active, active')
                      /\ active'.audio = IF Recording(active) THEN Hears(active, spoken').audio
                                         ELSE active.audio
    OBVIOUS
  <2>1. Grows(active, active) /\ Grows(active, Hears(active, spoken'))
    BY <1>2, <1>7 DEF CaptureInOrder
  <2>1a. active \in Capture
    BY <1>2
  <2>2. active'.audio = IF Recording(active) THEN Hears(active, spoken').audio ELSE active.audio
    <3>1. CASE Recording(active)
      <4>1. spoken' \in Nat
        BY <1>1
      <4>1a. Hears(active, spoken') \in Capture
        BY <2>1a, <4>1, HeardTyped
      <4>2. \E since : active' = [Hears(active, spoken') EXCEPT !.sinceSpeech = since]
        BY <3>1 DEF Speak
      <4>3. QED
        BY <3>1, <4>1a, <4>2 DEF Capture
    <3>2. CASE ~Recording(active)
      BY <3>2, SpeakHears
    <3>3. QED
      BY <3>1, <3>2
  <2>3. QED
    BY <2>1, <2>2
<1>9. finishing # NoCapture => Grows(finishing, finishing')
  <2> SUFFICES ASSUME finishing # NoCapture PROVE Grows(finishing, finishing')
    OBVIOUS
  <2>1. Grows(finishing, finishing) /\ Grows(finishing, Hears(finishing, spoken'))
    BY <1>2, <1>7 DEF CaptureInOrder
  <2>2. finishing' = IF Recording(finishing) THEN Hears(finishing, spoken') ELSE finishing
    BY DEF Speak
  <2>3. QED
    BY <2>1, <2>2
<1>10. \A i \in DOMAIN chunks : chunks[i].audio \in Seq(Utterance) /\ UpTo(chunks[i].audio, spoken)
  BY <1>2 DEF ClipsInOrder
<1>11. ASSUME NEW old, NEW new, Grows(old, new), ComesNext(old.audio, chunks, hold, overlap)
       PROVE  ComesNext(new.audio, chunks', hold', overlap')
  BY <1>1, <1>10, <1>11 DEF ComesNext
<1>12. ASSUME finishing # NoCapture
       PROVE  /\ Laps(active'.audio, finishing'.audio, overlap')
              /\ Recording(finishing)' => Ids(active'.audio) \subseteq overlap'
  <2>1. /\ active \in Capture /\ finishing \in Capture /\ UpTo(finishing.audio, spoken)
        /\ Laps(active.audio, finishing.audio, overlap)
        /\ Recording(finishing) => Ids(active.audio) \subseteq overlap
    BY <1>2, <1>12 DEF CaptureInOrder
  <2>2. finishing.audio \in Seq(Utterance) /\ active.audio \in Seq(Utterance)
    BY <2>1, CaptureFields
  <2>3. Laps(active'.audio, finishing.audio, overlap')
    BY <1>8, <2>1, <2>2, NoneAssumption
  <2>4. CASE ~Recording(finishing)
    <3>1. finishing' = finishing
      BY <2>4 DEF Speak
    <3>2. QED
      BY <2>3, <2>4, <3>1 DEF Recording
  <2>5. CASE Recording(finishing)
    <3>1. Ids(active'.audio) \subseteq overlap'
      <4>1. CASE Recording(active)
        <5>1. Ids(active'.audio) = Ids(active.audio) \cup {spoken'}
          BY <1>1, <1>8, <2>1, <4>1, HeardIds DEF Recording
        <5>2. QED
          BY <1>1, <2>1, <2>5, <4>1, <5>1
      <4>2. CASE ~Recording(active)
        BY <1>1, <1>8, <2>1, <2>5, <4>2, NoneAssumption
      <4>3. QED
        BY <4>1, <4>2
    <3>2. \A l \in DOMAIN active'.audio : active'.audio[l].id \in overlap'
      BY <3>1 DEF Ids
    <3>3. QED
      BY <3>1, <3>2 DEF Laps
  <2>6. QED
    BY <2>4, <2>5
<1>13. finishing # NoCapture =>
         active # NoCapture /\ \A i \in DOMAIN chunks : Follows(active'.audio, chunks[i].audio)
  BY <1>8, <1>10 DEF CaptureInOrder
<1>14. active' # NoCapture => Rising(active'.audio) /\ UpTo(active'.audio, spoken')
  BY <1>6, <1>8
<1>15. active' # NoCapture /\ finishing' = NoCapture => ComesNext(active'.audio, chunks', hold', overlap')
  BY <1>6, <1>8, <1>11 DEF CaptureInOrder
<1>16. finishing' # NoCapture =>
         /\ active' # NoCapture
         /\ Rising(finishing'.audio) /\ UpTo(finishing'.audio, spoken')
         /\ ComesNext(finishing'.audio, chunks', hold', overlap')
  BY <1>6, <1>9, <1>11, <1>13 DEF CaptureInOrder
<1>17. CaptureInOrder'
  BY <1>1, <1>6, <1>12, <1>13, <1>14, <1>15, <1>16 DEF CaptureInOrder
<1>18. QED
  BY <1>5, <1>17

LEMMA NothingFollows ==
  \A audio, clip, both : audio = <<>> =>
    Rising(audio) /\ Follows(audio, clip) /\ Laps(audio, clip, both) /\ Ids(audio) = {}
BY DEF Rising, Follows, Laps, Ids

LEMMA FreshCapture ==
  ASSUME finishing' = NoCapture, active' = NoCapture \/ active'.audio = <<>>
  PROVE  CaptureInOrder'
<1>1. CASE active' = NoCapture
  BY <1>1 DEF CaptureInOrder
<1>2. CASE active' # NoCapture
  <2>1. active'.audio = <<>> /\ UpTo(active'.audio, spoken') /\ ComesNext(active'.audio, chunks', hold', overlap')
    BY <1>2, NothingFollows DEF UpTo, ComesNext
  <2>2. QED
    BY <2>1, NothingFollows DEF CaptureInOrder
<1>3. QED
  BY <1>1, <1>2

(* With the microphone private, so that nothing is recorded before a press,  *)
(* what is transcribed is in the order it was spoken, and in it twice only   *)
(* if it was said while two captures were open and then in two clips in a    *)
(* row, for any settings of auto-send, and whatever fails or is unplugged    *)
(* (session.rs, on_tick: the next capture is opened before the last one is   *)
(* stopped and queued).                                                      *)
THEOREM SpeechKeepsOrder ==
  ASSUME AllPrivate
  PROVE  Spec => []SpeechInOrder
<1>1. Init => ClipsInOrder /\ CaptureInOrder
  BY DEF Init, ClipsInOrder, CaptureInOrder
<1>2. TypeOK /\ Alternates /\ MicOnlyWhileHeld /\ NoPreroll /\ ClipsInOrder /\ CaptureInOrder /\ [Next]_vars
        => ClipsInOrder' /\ CaptureInOrder'
  <2> SUFFICES ASSUME TypeOK, Alternates, MicOnlyWhileHeld, NoPreroll, ClipsInOrder, CaptureInOrder,
                      [Next]_vars
               PROVE  ClipsInOrder' /\ CaptureInOrder'
    OBVIOUS
  <2>a. /\ active # NoCapture => active \in Capture
        /\ finishing # NoCapture => finishing \in Capture
    BY DEF TypeOK
  <2>1. CASE OnAction
    <3>0. spoken' = spoken /\ overlap' = overlap /\ finishing = NoCapture /\ finishing' = NoCapture
      BY <2>1 DEF OnAction, Free, saidVars
    <3>1. CASE Head(stream) = "start"
      <4>1. stream # <<>> /\ stream[1] = "start" /\ Start
        BY <2>1, <3>1 DEF OnAction, Take, TypeOK, HoldTypeOK
      <4>2. active = NoCapture
        BY <4>1 DEF Alternates, Alternating, MicOnlyWhileHeld
      <4>3. chunks' = chunks
        BY <4>1 DEF Start, fateVars
      <4>4. ClipsInOrder'
        BY <3>0, <4>3 DEF ClipsInOrder, Adjoining
      <4>5. active' = NoCapture \/ active'.audio = <<>>
        BY <4>1, <4>2 DEF Start, OpenCapture, SnapshotFor, NoPreroll
      <4>6. QED
        BY <3>0, <4>4, <4>5, FreshCapture
    <3>2. CASE Finalize /\ active # NoCapture
      <4>1. active' = NoCapture /\ hold' = hold
        BY <3>2 DEF Finalize
      <4>2. ClipsInOrder'
        <5>1. CASE RemainderWorthSending(active)
          <6>1. Submit(active) /\ ComesNext(active.audio, chunks, hold, overlap) /\ Rising(active.audio) /\ UpTo(active.audio, spoken)
            BY <3>0, <3>2, <5>1 DEF Finalize, CaptureInOrder
          <6>2. QED
            BY <2>a, <3>0, <3>2, <4>1, <6>1, SubmitInOrder
        <5>2. CASE ~RemainderWorthSending(active)
          BY <3>0, <3>2, <5>2 DEF Finalize, ClipsInOrder, Adjoining
        <5>3. QED
          BY <5>1, <5>2
      <4>3. QED
        BY <3>0, <4>1, <4>2, FreshCapture
    <3>3. CASE Discard /\ active # NoCapture
      <4>1. active' = NoCapture /\ chunks' = chunks
        BY <3>3 DEF Discard
      <4>2. QED
        BY <3>0, <4>1, FreshCapture DEF ClipsInOrder, Adjoining
    <3>4. CASE UNCHANGED <<active, monitorVars, fateVars, hold>>
      BY <3>0, <3>4 DEF ClipsInOrder, CaptureInOrder, ComesNext, Adjoining, fateVars
    <3>5. QED
      BY <2>1, <3>1, <3>2, <3>3, <3>4 DEF OnAction
  <2>2. CASE PauseTick
    <3>1. /\ active \in Capture /\ finishing = NoCapture
          /\ UNCHANGED <<chunks, spoken, overlap, hold>>
      BY <2>2, <2>a DEF PauseTick, PauseOver, AutoSendActive, Free, fateVars, saidVars
    <3>2. ClipsInOrder' /\ \A audio : ComesNext(audio, chunks', hold', overlap') <=> ComesNext(audio, chunks, hold, overlap)
      BY <3>1 DEF ClipsInOrder, Adjoining, ComesNext
    <3>3. CASE GoOn(OpenCapture(active.device, <<>>))
      <4>1. finishing' = active /\ active'.audio = <<>> /\ active' # NoCapture
        <5>1. active.device \in Device /\ active.chunksSent + 1 \in Nat /\ <<>> \in Seq(Utterance)
          BY <3>1, CaptureFields
        <5>2. SourceOf(active.device) \in Mics \cup {Builtin}
          BY SourceTyped
        <5>3. active' \in Capture /\ active'.audio = <<>> /\ finishing' = active
          BY <3>3, <5>1, <5>2, OpenCaptureTyped DEF GoOn, OpenCapture
        <5>4. QED
          BY <5>3, NoneAssumption
      <4>2. /\ Rising(active.audio) /\ UpTo(active.audio, spoken) /\ ComesNext(active.audio, chunks, hold, overlap)
        BY <3>1, NoneAssumption DEF CaptureInOrder
      <4>3. UpTo(active'.audio, spoken') /\ Ids(active'.audio) \subseteq overlap'
        BY <4>1, NothingFollows DEF UpTo
      <4>3a. /\ Rising(active'.audio) /\ Laps(active'.audio, active.audio, overlap)
             /\ \A i \in DOMAIN chunks : Follows(active'.audio, chunks[i].audio)
        BY <4>1, NothingFollows
      <4>3b. ComesNext(finishing'.audio, chunks', hold', overlap')
        BY <3>2, <4>1, <4>2
      <4>3c. /\ Rising(finishing'.audio) /\ UpTo(finishing'.audio, spoken')
             /\ Laps(active'.audio, finishing'.audio, overlap')
             /\ \A i \in DOMAIN chunks' : Follows(active'.audio, chunks'[i].audio)
        BY <3>1, <4>1, <4>2, <4>3a
      <4>3d. finishing' # NoCapture
        BY <3>1, <4>1, NoneAssumption
      <4>3e. CaptureInOrder'
        BY <4>1, <4>3, <4>3a, <4>3b, <4>3c, <4>3d DEF CaptureInOrder
      <4>4. QED
        BY <3>2, <4>3e
    <3>4. CASE active' = [active EXCEPT !.sinceSpeech = NoSpeech] /\ UNCHANGED finishing
      <4>1. active'.audio = active.audio
        BY <3>1, <3>4 DEF Capture
      <4>2. QED
        BY <3>1, <3>2, <3>4, <4>1, NoneAssumption DEF CaptureInOrder
    <3>5. QED
      BY <2>2, <3>3, <3>4 DEF PauseTick
  <2>3. CASE StopFinished
    <3>1. /\ finishing \in Capture /\ Submit(finishing) /\ finishing' = NoCapture
          /\ UNCHANGED <<active, spoken, overlap, hold>>
      BY <2>3, <2>a DEF StopFinished, saidVars
    <3>2. /\ active # NoCapture /\ ComesNext(finishing.audio, chunks, hold, overlap)
          /\ Rising(finishing.audio) /\ UpTo(finishing.audio, spoken)
          /\ Laps(active.audio, finishing.audio, overlap)
          /\ \A i \in DOMAIN chunks : Follows(active.audio, chunks[i].audio)
      BY <2>3 DEF StopFinished, CaptureInOrder
    <3>3. ClipsInOrder' /\ ComesNext(active.audio, chunks', hold', overlap')
      BY <3>1, <3>2, SubmitInOrder
    <3>4. ComesNext(active'.audio, chunks', hold', overlap')
      BY <3>1, <3>3 DEF ComesNext
    <3>5. QED
      BY <3>1, <3>3, <3>4 DEF CaptureInOrder
  <2>4. CASE Speak
    BY <2>4, SpeakInOrder
  <2>5. CASE Elapse \/ FrozenTick \/ Unplug
    <3>1. UNCHANGED <<spoken, overlap, chunks, hold>>
      BY <2>5 DEF Elapse, FrozenTick, Unplug, fateVars, saidVars
    <3>2. StillSays(active, active')
      BY <2>5, ActiveStillSays
    <3>3. /\ finishing = NoCapture <=> finishing' = NoCapture
          /\ finishing # NoCapture => finishing'.audio = finishing.audio
          /\ Recording(finishing)' => Recording(finishing)
      <4>1. CASE Unplug
        <5>1. PICK mic : finishing' \in Frozen(finishing, mic)
          BY <4>1 DEF Unplug
        <5>2. Recording(finishing)' => Recording(finishing)
          BY <5>1 DEF Frozen, Recording
        <5>3. QED
          BY <5>1, <5>2, FrozenTyped DEF TypeOK
      <4>2. CASE ~Unplug
        BY <2>5, <4>2 DEF Elapse, FrozenTick, Recording
      <4>3. QED
        BY <4>1, <4>2
    <3>4. ClipsInOrder' /\ \A audio : ComesNext(audio, chunks', hold', overlap') <=> ComesNext(audio, chunks, hold, overlap)
      BY <3>1 DEF ClipsInOrder, Adjoining, ComesNext
    <3>5. QED
      BY <3>1, <3>2, <3>3, <3>4 DEF CaptureInOrder, StillSays
  <2>same. CASE UNCHANGED <<captureVars, chunks, hold, spoken, overlap>>
    BY <2>same DEF ClipsInOrder, CaptureInOrder, ComesNext, Adjoining, Recording, captureVars
  <2>6. QED
    BY <2>same, <2>1, <2>2, <2>3, <2>4, <2>5
    DEF Next, User, World, Worker, vars, fateVars, saidVars, Press, Release, Save, Plug, SwitchDefault,
        ApplyConfig
<1>3. QED
  BY <1>1, <1>2, SessionTypeCorrect, SessionAlternates, MicReleased, NoPrerollEver, OrderedClips, PTL DEF Spec

(***************************************************************************)
(* One hold, one microphone.                                                *)
(***************************************************************************)
LEMMA HoldGoesOn ==
  ASSUME TypeOK, [Next]_vars, GoesOn, active.mic = SourceOf(active.device)
  PROVE  active'.mic = active.mic
<1>1. active \in Capture
  BY DEF GoesOn, TypeOK
<1>3. CASE OnAction
  BY <1>3 DEF OnAction, Start, Finalize, Discard, GoesOn, TypeOK
<1>4. CASE PauseTick
  <2>1. CASE GoOn(OpenCapture(active.device, <<>>))
    BY <2>1 DEF GoOn, OpenCapture
  <2>2. CASE active' = [active EXCEPT !.sinceSpeech = NoSpeech]
    BY <1>1, <2>2 DEF Capture
  <2>3. QED
    BY <1>4, <2>1, <2>2 DEF PauseTick
<1>5. CASE FrozenTick
  BY <1>1, <1>5 DEF FrozenTick, Capture
<1>6. CASE Speak
  <2>1. CASE Recording(active)
    <3>1. spoken' \in Nat /\ Hears(active, spoken').mic = active.mic
      BY <1>1, <1>6 DEF Speak, TypeOK, Hears, Capture
    <3>2. Hears(active, spoken') \in Capture
      BY <1>1, <3>1, HeardTyped
    <3>3. \E since : active' = [Hears(active, spoken') EXCEPT !.sinceSpeech = since]
      BY <1>6, <2>1 DEF Speak
    <3>4. QED
      BY <3>1, <3>2, <3>3 DEF Capture
  <2>2. CASE ~Recording(active)
    BY <1>6, <2>2 DEF Speak
  <2>3. QED
    BY <2>1, <2>2
<1>7. CASE Elapse
  BY <1>1, <1>7 DEF Elapse, Capture
<1>8. CASE Unplug
  <2>1. PICK mic : active' \in Frozen(active, mic)
    BY <1>8 DEF Unplug
  <2>2. QED
    BY <2>1, FrozenTyped DEF TypeOK, GoesOn
<1>9. CASE UNCHANGED active
  BY <1>9
<1>10. QED
  BY <1>3, <1>4, <1>5, <1>6, <1>7, <1>8, <1>9
  DEF Next, User, World, Worker, vars, captureVars, Press, Release, Save, Plug, SwitchDefault,
      StopFinished, ApplyConfig

(* No hold moves to another microphone, whatever becomes of the settings and  *)
(* of the devices, while its device name stands for the one it records from.  *)
THEOREM MicrophoneKept == Spec => KeepsMicrophone
<1>1. TypeOK /\ [Next]_vars
        => [GoesOn /\ active.mic = SourceOf(active.device) => active'.mic = active.mic]_vars
  BY HoldGoesOn
<1>2. QED
  BY <1>1, SessionTypeCorrect, PTL DEF Spec, KeepsMicrophone

(***************************************************************************)
(* What the ring holds was heard by the microphone the monitor's stream was *)
(* opened on, alive or not, whatever has become of the default since.       *)
(***************************************************************************)
RingIsMonitors == \A k \in DOMAIN ring : ring[k].mic = monitorMic

LEMMA RingReconciled ==
  ASSUME RingIsMonitors, NEW config, NEW device, Reconcile(config, device)
  PROVE  RingIsMonitors'
<1>1. CASE UNCHANGED monitorVars
  BY <1>1 DEF monitorVars, RingIsMonitors
<1>2. CASE ring' = <<>>
  BY <1>2 DEF RingIsMonitors
<1>3. QED
  BY <1>1, <1>2 DEF Reconcile, StopMonitor, StartMonitor

LEMMA RingStep ==
  ASSUME TypeOK, alive => monitorMic # NoMonitor, RingIsMonitors, [Next]_vars
  PROVE  RingIsMonitors'
<1>2. CASE OnAction
  <2>1. CASE UNCHANGED monitorVars
    BY <2>1 DEF monitorVars, RingIsMonitors
  <2>2. CASE Start
    BY <2>2, RingReconciled DEF Start
  <2>3. QED
    BY <1>2, <2>1, <2>2 DEF OnAction, Finalize, Discard
<1>3. CASE ApplyConfig
  <2>1. CASE UNCHANGED monitorVars
    BY <2>1 DEF monitorVars, RingIsMonitors
  <2>2. CASE ~UNCHANGED monitorVars
    BY <1>3, <2>2, RingReconciled DEF ApplyConfig
  <2>3. QED
    BY <2>1, <2>2
<1>4. CASE Speak
  <2> DEFINE said == [id |-> spoken', mic |-> monitorMic]
  <2>1. /\ ring' = IF alive THEN Append(ring, said) ELSE ring
        /\ UNCHANGED <<monitor, monitorMic>> /\ said.mic = monitorMic
    BY <1>4 DEF Speak
  <2>2. alive => said \in Utterance
    BY <1>4 DEF Speak, TypeOK, Utterance
  <2> HIDE DEF said
  <2>3. CASE ~alive
    BY <2>1, <2>3 DEF RingIsMonitors
  <2>4. CASE alive
    <3>1. ring \in Seq(Utterance) /\ said \in Utterance /\ ring' = Append(ring, said)
      BY <2>1, <2>2, <2>4 DEF TypeOK
    <3>2. /\ DOMAIN ring' = 1..Len(ring) + 1 /\ ring'[Len(ring) + 1] = said
          /\ \A k \in 1..Len(ring) : ring'[k] = ring[k]
          /\ Len(ring) \in Nat /\ DOMAIN ring = 1..Len(ring)
      BY <3>1, AppendProperties
    <3>3. \A k \in DOMAIN ring' : ring'[k] = said \/ (k \in DOMAIN ring /\ ring'[k] = ring[k])
      BY <3>2
    <3>4. QED
      BY <2>1, <3>3 DEF RingIsMonitors
  <2>5. QED
    BY <2>3, <2>4
<1>5. CASE Elapse
  <2>1. UNCHANGED monitorMic /\ (ring' = ring \/ (ring' = <<>> /\ DOMAIN ring' = {}))
    BY <1>5 DEF Elapse
  <2>2. QED
    BY <2>1 DEF RingIsMonitors
<1>6. CASE UNCHANGED <<monitorMic, ring>>
  BY <1>6 DEF RingIsMonitors
<1>7. QED
  BY <1>2, <1>3, <1>4, <1>5, <1>6
  DEF Next, User, World, Worker, vars, monitorVars, Press, Release, Save, Plug, Unplug, SwitchDefault,
      PauseTick, StopFinished, FrozenTick

LEMMA RingAlways == Spec => [](TypeOK /\ RingIsMonitors)
<1>1. Init => RingIsMonitors
  BY DEF Init, RingIsMonitors
<1>2. QED
  BY <1>1, RingStep, SessionTypeCorrect, LiveMonitorHasMic, PTL DEF Spec

(* The preroll a capture opens with was heard by the microphone it opens, for *)
(* any microphones and any default among them, however often they come and go *)
(* and settings are saved in between, but for the cases the property excepts. *)
THEOREM PrerollFits == Spec => PrerollFromSameMicrophone
<1>1. TypeOK /\ RingIsMonitors /\ [Next]_vars
        => [Opens /\ ~Blind(monitor, monitorMic) /\ ~Blind(active'.device, active'.mic) /\ ~DefaultMoved
              => ~Spliced]_vars
  <2> SUFFICES ASSUME TypeOK, RingIsMonitors, [Next]_vars, Opens, ~DefaultMoved,
                      ~Blind(monitor, monitorMic), ~Blind(active'.device, active'.mic)
               PROVE  \A k \in DOMAIN active'.audio : active'.audio[k].mic = active'.mic
    BY DEF Spliced
  <2>1. OnAction /\ Start
    <3>1. active = NoCapture /\ active' # NoCapture
      BY DEF Opens
    <3>2. ~Speak /\ ~Elapse /\ ~Unplug
      BY <3>1, ActiveStillSays, SpeakHears DEF StillSays
    <3>3. QED
      BY <3>1, <3>2 DEF Next, User, World, Worker, vars, captureVars, Press, Release, Save, Plug,
             SwitchDefault, OnAction, Finalize, Discard, PauseTick, PauseOver, StopFinished, FrozenTick,
             ApplyConfig, AutoSendActive
  <2>2. PICK available \in Listings :
          active' = OpenCapture(ResolveDevice(cfg, available), SnapshotFor(ResolveDevice(cfg, available)))
    BY <2>1 DEF Start, Opens
  <2> DEFINE device == ResolveDevice(cfg, available)
  <2>3. device \in Mics \cup {DefaultDevice}
    BY ResolvedIsDevice DEF TypeOK, Device
  <2> HIDE DEF device
  <2>4. /\ active'.device = device /\ active'.mic = SourceOf(device)
        /\ active'.audio = IF monitor = device THEN ring ELSE <<>>
    BY <2>2 DEF device, OpenCapture, SnapshotFor
  <2>5. CASE monitor # device
    <3>1. DOMAIN active'.audio = {}
      BY <2>4, <2>5
    <3>2. QED
      BY <3>1
  <2>6. CASE monitor = device
    <3>1. monitorMic = active'.mic
      <4>1. CASE device \in Mics
        BY <2>4, <2>6, <4>1 DEF Blind
      <4>2. CASE device = DefaultDevice
        <5>1. device \notin connected
          BY <4>2, MicAssumption DEF TypeOK
        <5>2. QED
          BY <2>4, <2>6, <4>2, <5>1 DEF SourceOf, DefaultMoved
      <4>3. QED
        BY <2>3, <4>1, <4>2
    <3>2. QED
      BY <2>4, <2>6, <3>1 DEF RingIsMonitors
  <2>7. QED
    BY <2>5, <2>6
<1>2. QED
  BY <1>1, RingAlways, PTL DEF Spec, PrerollFromSameMicrophone
=============================================================================
