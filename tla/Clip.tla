---------------------------------- MODULE Clip ----------------------------------
(***************************************************************************)
(* Audio on its way to the recognizer, and times on their way back: what the*)
(* app dictates or opens, what a link import downloads and what the command *)
(* line transcribes (whspr-audio: decode_wav, trim_silence,                 *)
(* resample_to_16k_mono; whspr-app: capture_plan.rs, transcribe_file.rs,    *)
(* note_desk.rs; whspr-import: download.rs; whspr-cli: transcribe_cmd.rs,   *)
(* subtitles.rs).                                                           *)
(*                                                                         *)
(* Sound is a sequence of samples: the energy of each, and where it was in  *)
(* the recording.  Rates are multiples of the recognizer's own (1 is 16 kHz),*)
(* thresholds are energies.  Downmixing, gain and noise suppression, which  *)
(* change energies only, are left out.                                      *)
(***************************************************************************)
EXTENDS Naturals, Sequences, FiniteSetsExt

CONSTANTS
  Recordings,       (* sequences of energies                                 *)
  Rates,            (* of a microphone or a file                             *)
  WindowLen,        (* trim_silence's window, in samples at rate 1           *)
  MinKeep,          (* DEFAULT_MIN_KEEP_SAMPLES                              *)
  SilenceThreshold, (* DEFAULT_SILENCE_THRESHOLD                             *)
  VadThresholds,    (* the user's vad_threshold                              *)
  ClipStarts        (* where a link import's clip may start, in samples      *)

ASSUME ClipAssumption ==
  /\ Recordings \subseteq Seq(Nat) /\ Rates \subseteq Nat \ {0}
  /\ WindowLen \in Nat \ {0} /\ MinKeep \in Nat /\ SilenceThreshold \in Nat
  /\ VadThresholds \subseteq Nat /\ ClipStarts \subseteq Nat

Sources == {"capture", "file", "link", "cli"}

VARIABLES
  source,       (* which of them it is                                       *)
  recording,    (* what was recorded                                         *)
  rate,         (* its rate                                                  *)
  vadThreshold, (* [capture].vad_threshold                                   *)
  clipStart,    (* of a link import: ClipRange.start_secs                    *)
  toDo,         (* what is still done to the audio, in order                 *)
  audio,        (* the samples, as [energy, at]                              *)
  audioRate,    (* the rate they are at                                      *)
  rows          (* what is shown: a time for each sample recognized          *)

clipVars == <<source, recording, rate, vadThreshold, clipStart, toDo, audio, audioRate, rows>>

\* The RMS of a window is at most the threshold: its energy at most the threshold's.
Silent(samples, from, len, threshold) ==
  MapThenSumSet(LAMBDA i : samples[i].energy, from + 1..from + len) <= threshold * len

\* The scan from the front stops before the first window that is not silent, or where
\* none is left; the one from the back does the same, down to where the first stopped.
FrontOf(samples, len, threshold) ==
  Min({from \in 0..Len(samples) :
         /\ from % len = 0
         /\ from + len <= Len(samples) => ~Silent(samples, from, len, threshold)})

BackOf(samples, from, len, threshold) ==
  Max({to \in 0..Len(samples) :
         /\ (Len(samples) - to) % len = 0
         /\ to >= from + len => ~Silent(samples, to - len, len, threshold)})

\* mutant: every silent window is dropped, those of a pause too
TrimPauses(samples, atRate, threshold) ==
  LET len == WindowLen * atRate
      Kept(i) == LET from == ((i - 1) \div len) * len
                 IN  from + len > Len(samples) \/ ~Silent(samples, from, len, threshold)
      kept == {i \in DOMAIN samples : Kept(i)}
      Nth(n) == CHOOSE i \in kept : Cardinality({j \in kept : j < i}) = n - 1
  IN  IF Cardinality(kept) < MinKeep THEN samples
      ELSE [n \in 1..Cardinality(kept) |-> samples[Nth(n)]]

\* mutant: the samples of one window at either end go, however loud
TrimEnds(samples, atRate, threshold) ==
  LET len == WindowLen * atRate
  IN  IF Len(samples) < 2 * len + MinKeep THEN samples
      ELSE SubSeq(samples, len + 1, Len(samples) - len)

\* The buffer from one scan's end to the other's, unless too little is left.
TrimSilence(samples, atRate, threshold) ==
  LET len == WindowLen * atRate
      from == FrontOf(samples, len, threshold)
      to == BackOf(samples, from, len, threshold)
  IN  IF Len(samples) < len \/ from >= to \/ to - from < MinKeep THEN samples
      ELSE SubSeq(samples, from + 1, to)

\* resample_to_16k_mono: a sample for every atRate of them, with their mean energy.
Resample(samples, atRate) ==
  [n \in 1..(Len(samples) \div atRate) |->
     LET group == (n - 1) * atRate + 1..n * atRate
     IN  [energy |-> MapThenSumSet(LAMBDA i : samples[i].energy, group) \div atRate,
          at |-> samples[(n - 1) * atRate + 1].at]]

\* What is done to the audio: CaptureHandle::stop and trim_captured; decode_wav, which
\* trims by its own threshold, and resampling; the command line trims a file by the
\* user's threshold too, and leaves it at its rate.
AudioSteps ==
  [capture |-> <<"resample", "trim">>, file |-> <<"decode", "resample">>,
   link |-> <<"download", "decode", "resample">>, cli |-> <<"decode", "trim">>]

ClipInit ==
  /\ source \in Sources /\ recording \in Recordings /\ vadThreshold \in VadThresholds
  /\ source \in {"file", "link"} => vadThreshold = Min(VadThresholds)  (* not used *)
  /\ rate \in Rates /\ (source = "link" => rate = 1)
  /\ clipStart \in (IF source = "link" THEN ClipStarts ELSE {0}) /\ clipStart < Len(recording)
  /\ toDo = AudioSteps[source]
  /\ audio = [i \in DOMAIN recording |-> [energy |-> recording[i], at |-> i - 1]]
  /\ audioRate = rate /\ rows = {}

Does(step, result, resultRate) ==
  /\ toDo # <<>> /\ Head(toDo) = step
  /\ toDo' = Tail(toDo)
  /\ audio' = result /\ audioRate' = resultRate
  /\ UNCHANGED <<source, recording, rate, vadThreshold, clipStart, rows>>

\* yt-dlp --download-sections.
DownloadSection ==
  Does("download", SubSeq(audio, clipStart + 1, Len(audio)), audioRate)

DecodeWav == Does("decode", TrimSilence(audio, audioRate, SilenceThreshold), audioRate)

TrimByUser == Does("trim", TrimSilence(audio, audioRate, vadThreshold), audioRate)

ResampleAudio == Does("resample", Resample(audio, audioRate), 1)

\* The recognizer takes samples to be at 16 kHz and times them from the first one; a
\* subtitle cue or a row of the note desk shows the time it gave.
Recognize ==
  /\ toDo = <<>> /\ rows = {}
  /\ rows' = {[shown |-> i - 1, at |-> audio[i].at] : i \in DOMAIN audio}
  /\ UNCHANGED <<source, recording, rate, vadThreshold, clipStart, toDo, audio, audioRate>>

ClipNext == DownloadSection \/ DecodeWav \/ TrimByUser \/ ResampleAudio \/ Recognize

ClipSpec == ClipInit /\ [][ClipNext]_clipVars

-----------------------------------------------------------------------------
ClipTypeOK ==
  /\ source \in Sources /\ recording \in Seq(Nat) /\ rate \in Rates
  /\ vadThreshold \in VadThresholds /\ clipStart \in {0} \cup ClipStarts
  /\ toDo \in Seq({"resample", "trim", "decode", "download"})
  /\ audio \in Seq([energy : Nat, at : Nat]) /\ audioRate \in Rates \cup {1}
  /\ rows \subseteq [shown : Nat, at : Nat]

\* What counts as sound where the audio passes: above every threshold it meets.
Loudest ==
  CASE source = "cli" -> Max({SilenceThreshold, vadThreshold})
    [] source = "capture" -> vadThreshold
    [] OTHER -> SilenceThreshold

\* Where two windows of unbroken sound begin, wherever they lie.
TwoWindows == 2 * WindowLen * rate

Speaks == {from \in clipStart..Len(recording) - TwoWindows :
             \A i \in from + 1..from + TwoWindows : recording[i] > Loudest}

\* trim_silence: "speech in the middle - including a pause inside an utterance - is
\* never touched".  Of what is spoken, less than a window is lost at the beginning, less
\* than a window and a sample of the recognizer's at the end (resampling may drop the
\* rest of a group) and nothing in between, however often the audio is trimmed and
\* whatever rates it passes.
SpeechReachesRecognizer ==
  (rows # {} /\ Speaks # {}) =>
    LET heard == {row.at : row \in rows}
        spacing == rate \div audioRate
        first == Min(Speaks) + WindowLen * rate
        last == Max(Speaks) + TwoWindows - WindowLen * rate
        spoken == UNION {from..from + TwoWindows - 1 : from \in Speaks}
    IN  \A at \in spoken : first <= at + 1 /\ at + spacing <= last + 1 =>
          \E from \in heard : from <= at /\ at < from + spacing

\* Times shown are those of the recording less one displacement for all: what was
\* cut from its front.  (Not where the command line is given a file at another rate.)
TimesKeepApart ==
  (source = "cli" => rate = 1) =>
    \A a, b \in rows : a.shown <= b.shown =>
      b.at = a.at + (b.shown - a.shown) * rate
=============================================================================
