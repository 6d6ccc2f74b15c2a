# A formal model of wspr

wspr is a dictation app: hold a global hotkey, speak, release, and the text is typed into
whatever window has the focus. It is a Cargo workspace: a desktop app (`whspr-app`, an iced
application with a tray icon), a command line tool (`whspr-cli`) and the libraries both use.
This directory holds TLA+ modules of the parts of it that have state, concurrency or failure
worth reasoning about, TLC configurations that check them on small instances, and TLAPS proofs
of the properties that matter most.

Contents:

1. [The system](#the-system): the inventory of components
2. [Modules and the code](#modules-and-the-code)
3. [Runs, bounds and fairness](#runs-bounds-and-fairness)
4. [What does not hold](#what-does-not-hold)
5. [Proofs](#proofs)
6. [Only model-checked, and not modelled](#only-model-checked-and-not-modelled)
7. [Plan](#plan)
8. [Observations without a run](#observations-without-a-run)

`PROJECT.json` maps every definition of a model to the lines it stands for, and lists the
components, runs, hazards, findings and theorems.

## The system

```
 OS key events --> [forwarding thread] --raw--> [debouncing thread] --actions-->+
                                                                                |
   settings saved in the hub ------------- config channel --------------------> |
                                                                                v
                             auto-send tick --> [worker: select! over a Session]
                                                  | capture stream, preroll monitor
                                                  v chunks
                                       [processor task: Pipeline, one chunk a turn]
                                            | states             | outcomes
                                      [forwarder task]           |
                                            +----> output <------+
                                                     v
                                  [iced update loop: State, tray, history]
                                     |                 |             |
                          type into the window   history.jsonl   config.toml, keystore
                                                       ^
                                                  [whspr-cli]
```

### Global hotkey and debouncer — `whspr-inject` (`lib.rs`, `debounce.rs`)

*State.* The process-wide event channel of the `global-hotkey` crate; a bounded channel of raw
events; `HotkeyDebouncer {active_since, last_press}`; a bounded channel of debounced actions.
*Operations.* A thread forwards system events of our hotkey; a second thread stamps each one
with the time it takes it and turns it into start, stop, cancel or nothing; both block when the
next channel is full. *Hard.* Key auto-repeat, a press inside the double-press window and its
release, channels at their limit, and time stamps taken late. *Correct when* the worker gets
alternating starts and closings whatever happens, a recording never outlives the hold, and taps
and double presses are discarded as the user would judge them, as long as the threads keep up.

### Capture session of the dictation worker — `whspr-app/src/worker`

*State.* `Session`: the configuration in force, the live capture (`ActiveCapture`: device, stream,
pause detector, chunks already sent) and the `PrerollSlot` (a monitor listening while the app is
idle, so that the first syllable is not lost). *Operations.* `tokio::select!` over hotkey actions,
auto-send ticks (a pause in the speech sends what was said and goes on recording) and saved
settings. *Interacts* with the hold stream above, the processor below, the settings screen, and
the operating system's devices. *Hard.* Settings saved during a hold; microphones that vanish and
return, and a system default that moves between them; opening, stopping and listing devices
failing independently; the hand-over from one capture to the next, during which both record.
*Correct when* the microphone is open only during a hold, no capture is overwritten, mic privacy
is honoured, new settings never move a hold to another microphone, nothing said is lost silently
or reordered, or repeated but for that hand-over, and preroll is recent and from the right
microphone.

### Transcription pipeline, worker events and tray — `whspr-core/src/pipeline.rs`, `worker/processor.rs`, `worker/mod.rs`, `worker_events.rs`, `tray_state.rs`, `app.rs`

*State.* The queue of chunks, the turn in progress, a channel of state reports, the output
channel, and in the app `pipeline_state`, the tray's visual and `tray_done_until`. *Operations.*
Transcribe, refine under a timeout, report the state at each stage; a separate task forwards the
reports; the app updates the tray and shows "Done" for a moment; the record button and file
transcriptions run the same backends on tasks of their own and write the same fields. *Hard.*
Two senders into one channel; a refiner that hangs; a turn that fails half-way; three
independent writers of the tray. *Correct when* each chunk has one outcome, in the order spoken,
no later turn is seen before it, and the tray comes back to idle.

### History journal and its encryption — `history.rs`, `history_encryption.rs`, `whspr-cli/src/history_io.rs`, `whspr-config`

*State.* `history.jsonl`, its temporary copy during a rewrite, the setting in `config.toml` and in
memory, the key in the OS keystore and in memory. *Operations.* Append an entry (app and command
line tool); switch encryption: get a key, rewrite the whole journal, rename, save the setting;
load at boot; clear. *Hard.* Two processes on one file without a lock; a crash between any two
calls, which may leave a line without its end for the next to run into; the journal and the
setting saved separately; a keystore that fails. *Correct when* no entry is lost, none is hidden
from its owner, and none is in the clear while encryption is on.

### Secrets — `secret_store.rs`, `whspr-config/src/secrets`, `hf.rs`

*State.* For every API key and the HuggingFace token: a keystore entry, a plaintext copy in
`config.toml` and one in memory. *Operations.* At boot move plaintext copies into a persistent
keystore, then save the file; save and remove secrets; save other settings. *Hard.* A migration
that fails after some secrets; crashes between keystore and file; a file that is truncated
before it is written. *Correct when* no secret is lost or replaced by an older value, and no
plaintext copy stays behind.

### Text delivery and clipboard — `whspr-inject` (`text_sink.rs`, `clipboard.rs`), `worker/delivery.rs`, `worker_events.rs`

*State.* The clipboard, the copy saved of it, the text last emitted, the focus. *Operations.*
Save the clipboard, stage the text, send the paste chord, wait, restore; on any failure type
instead. The app itself types, or puts the text on the clipboard when nothing that takes text
has the focus. *Hard.* The target reads the clipboard when it gets to it; the user copies
something meanwhile; a chord that fails after it pasted; the focus is looked at before it is
used. *Correct when* the text arrives once and the clipboard is what it was.

### Link import and file transcription — `link_import.rs`, `hub/link_import`, `transcribe_url.rs`, `transcribe_file.rs`, `note_desk.rs`, `whspr-import`

*State.* A modal dialog (link, resolved media, what is going on), the note desk, the Dictate
screen with its recorder, temporary WAV files. *Operations.* Resolve, import by captions or by
transcription, transcribe to the screen, transcribe a file, record and transcribe the recording,
open and leave the desk, export it. *Hard.* Tasks whose answers carry no request id meet a dialog
that was closed, reopened or asked for another link; recorder, imports, file transcriptions and
dictations write one status. *Correct when* an answer changes only the request it is of, the
status says what runs, and no temporary file stays.

### Speakers — `speakers.rs`, `whspr-config/src/speaker`, `whspr-cli/src/diarize_cmd.rs`

*State.* The database of speakers with their turns and centroids, in memory and in
`speakers.json`. *Operations.* A dictation matches a speaker or enrols one; a scan of a recording
works on a copy, saves it and replaces the app's; the user renames; turns are moved between
speakers; the command line loads the file, matches a recording and writes it. *Hard.* A copy is
stale when it is written; two processes write one file. *Correct when* centroids are what the
turns say, and no speaker or name is lost.

### HuggingFace models — `hf.rs`, `hf_progress.rs`, `hub/models`, `whspr-hf`

*State.* The account, the model directories and their files, the list last scanned, one busy
flag and one progress indicator, the search and its results, the browser's tabs and the local
port of a sign-in. *Hard.* Controls the flag does not govern; answers without ids; a copy that
fails half-way; tabs that outlive their attempt. *Correct when* one operation runs at a time,
the list is what is on the disk, the files shown are of the repository named, and a sign-in goes
on with its own code.

### How settings reach dictation — `worker/mod.rs`, `worker/backends.rs`, `app.rs`, `whspr-config`

*State.* The settings in memory, in the file and in the worker; the API key; what the pipeline was
built from; a channel of saved settings that exists once the worker listens. *Hard.* Two loads of
one file at times of their own; saves before the channel; the pipeline is built once. *Correct
when* dictation goes by the settings shown.

### Input devices and hot-plugging in the settings — `devices.rs`, `whspr-audio/src/device.rs`

*State.* The list shown, the watcher's own, differences on their way, the notice that the chosen
device is not connected. *Correct when* list and notice are true.

### Local refiner — `whspr-refine` (`local_llm.rs`, `llama_local.rs`), `whspr-core/src/pipeline.rs`

*State.* The model cached for the process, the lock that lets one prompt run at a time, the
threads of turns in progress and of turns that have given up. *Hard.* A timeout abandons the
turn and not its thread. *Correct when* a turn is left with its raw text only for a refinement
that takes too long.

### Audio on its way to the recognizer — `whspr-audio`, `transcribe_cmd.rs`, `subtitles.rs`, `note_desk.rs`

*State.* The samples and the rate they are at. *Operations.* Trim silence, resample, cut a
section, each source in an order of its own; times come back with the text. *Hard.* Windows at
two rates, two thresholds, edges; times are counted from what is left. *Correct when* what was
said arrives and times keep their distances.

### Long transcriptions in overlapping windows — `whspr-core/src/chunker.rs`

*State.* The segments so far. *Operations.* Push a window: shift its segments, drop what the
overlap repeats, keep starts in order. *Correct when* words that two windows share appear once,
none is lost, and starts ascend. No other crate uses it yet.

### Rule-based text normalization — `whspr-refine/src/normalize`

Passes over the words, each reading what the one before it wrote: numbers, times, formulas,
money, percents, repeated words. *Hard.* All share one reader of numbers. *Correct when* what is
written means what was said.

### Installing and uninstalling — `whspr-setup`, `whspr-cli/src/uninstall_cmd.rs`, `whspr-config/src/autostart.rs`

*State.* The install directory, shortcuts, the launch-at-login entry, the files and keystore
entries whspr makes. *Hard.* A job may fail or be cut off half-way, and so may a save of the
settings; an app may run meanwhile. *Correct when* what is shown as installed is there, the
setting agrees with the login entry, and an uninstall leaves nothing.

### The rest

* *Capture streams, preroll ring, signal processing*: seen by CaptureSession as streams that
  hear, freeze or fail; trimming and resampling are in Clip. Gain and noise suppression are
  floating point.
* *Speech recognition backends* (`whspr-asr`): an answer or an error, after any time; choosing
  and building them is in WorkerBoot.
* *Cloud refiners and Apple's*: an answer, an error or none.
* *Note desk and export* (`whspr-typst`): opening, leaving and exporting are in LinkImport;
  filters and the documents generated are not modelled.
* *Hub screens, theme, sounds, menus*: presentation.
* *Media tools* (captions, browsers, yt-dlp, ffmpeg): parsers of other programs' output, process
  spawning.
* *Acceptance checker, benchmarks*: developers' tools.

## Modules and the code

| Module | Stands for | EXTENDS / INSTANCE |
|---|---|---|
| `HoldStream` | what the hotkey promises: an alternating FIFO stream of starts and closings (abstract specification) | |
| `HotkeyListener` | the threads, channels, clock and debouncer | INSTANCE HoldStream, as a refinement |
| `CaptureSession` | the worker's session, devices, settings, the user's speech | EXTENDS HoldStream: the composition |
| `MC_CaptureSession` | the settings of its runs | EXTENDS CaptureSession |
| `Transcription` | processor, pipeline, forwarder, app events and tray | |
| `History` | the journal, its encryption and the two processes that share it | |
| `Secrets` | keystore, config.toml and the migration between them | |
| `Delivery` | the paste, its clipboard, the target and the user | |
| `LinkImport` | the dialog, the note desk, the Dictate screen and their tasks | |
| `SpeakerDb` | the speaker database as operators | |
| `Speakers` | its use by dictations, scans, edits and the command line | EXTENDS SpeakerDb |
| `ModelStore` | the Models tab: sign-in, downloads, deletions, directories | |
| `ModelSearch` | its search for community models | |
| `HfLogin` | the browser, the port and the attempts to sign in | |
| `WorkerBoot` | the worker's start and the settings it goes by | |
| `Devices` | the device list, its watcher and the notice | |
| `LocalRefiner` | the local model, its lock and abandoned threads | |
| `Clip` | audio on its way to the recognizer, times on their way back | |
| `Rolling` | stitching overlapping windows | |
| `Normalizer` | the passes over spoken numbers | |
| `Installer`, `Uninstall` | setup, launch at login, removal | |
| `MC_Rolling`, `MC_Normalizer`, `MC_Clip` | what is said, for the runs | EXTEND the module of that name |
| `MC_Tasks` | one run for HotkeyListener, Transcription and Secrets | EXTENDS them |
| `MC_Speech` | one run for CaptureSession, History and LinkImport | EXTENDS MC_CaptureSession, History and LinkImport |
| `MC_Hub` | one run for the parts from Delivery on but LinkImport | EXTENDS them |
| `*_proofs` | theorems about the module of that name | EXTENDS it and TLAPS |
| `Screens_proofs` | theorems about LinkImport, the Models tab (ModelStore, ModelSearch, HfLogin), Speakers, Devices, WorkerBoot and Secrets | EXTENDS them and TLAPS |
| `Speech_proofs` | theorems about Clip and Normalizer | EXTENDS MC_Clip, MC_Normalizer and TLAPS |
| `Hub_proofs` | theorems about Rolling, Delivery, Installer, Uninstall and LocalRefiner, and about the composition | EXTENDS MC_Hub, Screens_proofs and Speech_proofs |

**HotkeyListener.** `hotkeys`, `raw` and `actions` are the three channels; `outbox` is the
action in the debouncing thread's hand while its `blocking_send` waits; `activeSince` and
`lastPress` are the debouncer's fields. `OnPress` and `OnRelease` are the methods of that name,
reading `now` when they run. Events also carry the instant the key really moved, which only
properties read. `Debounce` is one turn of the thread's loop. `DebounceAction::Ignore` never
reaches the channel, in the code and here.

**HoldStream** has no clock and no threads. `open`, `stream` and `recording` are: a hold is
accepted and not closed; what was emitted and not taken; what the worker took last. The
refinement maps `open` to `activeSince # NoTime` and `stream` to the channel followed by the
outbox, with room for one more action than the channel.

**CaptureSession.** One action per branch of `select!`: `OnAction` (start, stop, cancel, with
everything `Session` calls in them: resolving the device, opening the capture, reconciling the
monitor), `PauseTick` and `FrozenTick` (the ticks of auto-send that change something),
`ApplyConfig` (skips to the newest saved settings). Audio is a sequence of numbered utterances
tagged with the microphone that heard them, so loss, duplication, order, staleness and mixing of
microphones can be told apart; silence is not represented. Streams on an unplugged microphone stay
open and freeze at their last level, as cpal's do. `osDefault` is the system's default microphone,
which `SourceOf` asks for at every opening and `SwitchDefault` moves; `mic` and `monitorMic` are
what a stream was really opened on. A pause is two steps: `PauseTick` opens the next capture and
leaves the last in `finishing`, which goes on hearing until `StopFinished` has stopped it, as
between `start_capture_with` and `handle.stop()` in `on_tick`. Failures of opening, stopping and
listing are choices when `CanFail`. `sinceSpeech` is the pause detector, in ticks; an utterance
outlasts an auto-send tick (100 ms), so a running detector samples each one.

**Transcription.** `stage` is where the processor's task is in a turn; `states` includes the
report the forwarder holds. `output` stands for the `iced::stream` channel. `AppReceives` is the
whole of the worker-event handler on the fields modelled. The record button and file
transcriptions are the app's own tasks (`jobs`).

**History.** A step is one call on the file system or on the keystore, because the other process
or a crash may come between two. `pc` walks through `set_history_encryption_at` (key, read and
convert, rename, setting) and `Config::save` (truncate, write). An entry written by `writeln!` is
two writes; the command line tool's is one. A line appended behind one that has no newline runs
into it (`RunTogether`): the two are one line, which `texts` says whose words are in, and what
follows an encrypted part stands there as it was written. `Convert` is the loop of
`rewrite_history_file`, which keeps a line that it cannot decode. Ghost variables: `chosen`, what
the user last asked for; `drifted`, that a boot has since loaded the other; `strayed`, that some
boot ever has; `seen`, what a rewrite in progress has read.

**Secrets.** As in History, a step is one call. Values are numbered in the order the user comes
up with them, so that "older" means something. Keystore slots, the file and the configuration in
memory are functions from secret to value. `Migrate` moves the secrets in any order, where the
code goes by name.

**Delivery.** `sinkAt` walks through `insert`: save, stage, chord, restore, or the typed
fallback; a step may fail where the call it stands for returns an error. `clipboard` says what
kind of content it holds and whose; `chords` are paste chords the target has not handled.
`ResolveDelivery` and `Deliver` are the app's own way, with the focus as the worker saw it.
Ghost variables `disturbed`, `doubled` and `moved` name the interferences.

**LinkImport.** A task is a record of what it was started for; its answer is an action named after
the message (`LinkImportResolved`, `LinkImportImported`, `FileTranscribed`, ...), which does to
the dialog and the screens what the handler does, whatever they are by then. `Confirmable` is when
the button is enabled. `StartRecording` and `StopRecording` are the Dictate screen's button, which
nothing disables; either may fail, and stopping hands the recording to a file transcription.
`status` is the one field all of them write. `wavs` are temporary files; `foreign`, `overlapped`
and `spoiled` are ghosts.

**SpeakerDb and Speakers.** An embedding is a point on a line and similarity falls with distance;
a centroid is an exact mean (a sum and a count). `MatchOrEnroll`, `Reassign` and `BumpMargin` are
the functions of those names, margins between two speakers included. A scan of the app is three
steps: it copies the database, saves its copy (`ScanSaves`), and its answer replaces the app's
(`ScanFinished`). The command line's load of the file with the matching (`CliMatches`) and its
save (`CliSaves`) are two steps, between which the app may write. A write of the file may fail or
be cut short (`unsaved`), and the app restarted with what it then loads; `replaced` says that a
copy was written over changes made since it was taken.

**ModelStore, ModelSearch, HfLogin.** `hfTasks` are the tasks in flight; a download fetches,
then copies (`CopyEnds`, `CopyFails`); `Rescan` is what every handler that ends an operation
does in the same step. Where the interface leaves a control enabled while another operation
runs, its action has no guard. `HfLogin` has the port, the tabs and the connections: each has
the attempt it came from, and whether its bytes have arrived.

**WorkerBoot.** `EmptyFile` and `WriteFile` are the two halves of `Config::save`, so that the
worker's load may fall between them. `PipelineFor` is what the pipeline is given of settings and
keystore: recognizer, refiner, `effective_language`, the API key where one of the two uses it, and
translating, shortening and normalizing as one choice (`rewrites`). A worker that cannot build
parks for good. The history variables `changed`, `unheardSave`, `tornLoad` and `saveFailed` name
why dictation may go by other settings.

**Devices.** The watcher's stream is `watching`, `known`, and a bounded channel; `HotplugNotice`
and `ApplyDeviceChange` are the functions of those names. A capture resolves the device by
itself.

**LocalRefiner.** `gens` are the calls of `generate`, each with its stage: before the file
check, at the lock, loading, generating, ended. `awaited` is what a pipeline's turn waits for,
so a generation that nobody awaits is an abandoned one. Time passes in ticks only when nothing
can be done at once.

**Clip.** A sample is its energy and where it was in the recording. `toDo` is what the source
still does to the audio, in the code's order; `TrimSilence` is the two scans with their floor. A
resampled sample has the mean energy of those it stands for.

**Rolling.** One step takes one segment of a backend's answer; answers are any that `MC_Rolling`
lists, among them out of order, clipped by the window's edge, or missing.

**Normalizer.** A word is its kind and the numbers it carries. One step is one position of one
pass; each pass is an operator that gives the words written and how many were read (`NumbersAt`,
`TimesAt`, ...). `MC_Normalizer` lists sentences with what they mean: those the passes write as
they should, and one of four phrases, each with the comment that gives its meaning, that they do
not (`MisreadSpeeches`).

**Installer and Uninstall.** The plan of jobs is run one at a time; one that fails may have done
part of its work. The uninstall's steps may each fail without stopping the rest. Autostart's
setting and the login entry are two pieces of state in both; a save of the settings
(`SaveSettings`) writes them, fails, or is cut short and leaves a file that loads as the defaults.
`WhsprSecretNames` has the known backends, those config.toml names, the HuggingFace token and the
history's key.

**MC_Hub.** The thirteen parts share no state: a behaviour of all of them is an interleaving of
a behaviour of each, and whether a property of one part holds depends on that part's steps
alone. `part` therefore picks, in the initial state, the one that moves; the others rest in an
initial state of theirs. Each part is explored in all its interleavings, and the sizes add up
instead of multiplying.

**MC_Tasks and MC_Speech** do the same for parts of the dictation worker, and MC_Speech for links
and files beside them. What connects the worker's parts in the code is in the modules themselves:
CaptureSession takes the hotkey's actions as the hold stream that HotkeyListener is shown to
implement, and Transcription's session submits chunks at any moment, as CaptureSession does.
Fairness is asked of a part's steps where that part is the one that moves.

## Runs, bounds and fairness

Each property has a mutant: a plausible mistake in one mapped definition, under which TLC finds
that property violated in the same run.

| Run | Question | Properties |
|---|---|---|
| `tasks` | does the listener implement the hold stream, end every recording, and judge taps rightly when prompt; | `TypeOK HoldsAlternate ImplementsHoldStream RecordingEnds TapsAreDiscarded StartsAreApart` |
| | is there one outcome per chunk, in order, and a tray that settles; | `TranscriptionTypeOK AnswersInOrder AnswersBeforeNextTurn EveryChunkAnswered TraySettles` |
| | do secrets get lost, reverted or left in plaintext | `SecretsTypeOK NoPlaintextLeft SecretsKept` |
| `speech` | is all that is said sent in order, and once but for the hand-over; | `SpeechTypeOK NothingIsLost SpeechInOrder` |
| | does encryption lose, hide or expose entries; | `EncryptedWhileOn NothingHidden EntriesKept` |
| | do dialog and screens show what their own tasks do | `LinkFits WavsRemoved` |
| `capture_failures` | does the session stay safe under failures, hot-plugging and new settings | `TypeOK MicOnlyWhileHeld MicPrivacyHonoured CaptureNeverReplaced KeepsMicrophone PrerollFromSameMicrophone MicPrivacyApplies` |
| `hub` | does each part keep what it promises, but for the interferences its properties name | `HubTypeOK SpeakersFit ModelsTabFits DeliveryFits SettingsFit StartsInOrder WordsOnce WrittenAsMeant FallsBackForAReason ClipFits SetupFits` |

Eight more runs have the outcome "violation"; see the next section.

Of the `speech` run, `LinkFits` says that dialog and screens show what their own tasks do, unless
an answer reached another dialog (`foreign`) or two of transcription, import, dictation and
recording ran at once (`overlapped`); the status then names exactly what runs. `WavsRemoved` says
that no WAV stays but that of a task that failed after the download (`spoiled`).

The `hub` run's properties:

* `SpeakersFit`: `CentroidIsMean` (every centroid is the mean of the turns in its profile),
  `SpeakersKept` (a speaker that a history entry names stays enrolled, under the name the user
  gave, unless a stale copy has replaced the database or a write failed: `replaced`, `unsaved`).
* `ModelsTabFits`: `OneOperation` (the busy flag and the progress bar never outlive the tasks,
  and but for a token sent beside another operation one runs at a time), `ListIsDisk` (what is
  listed is what is on the disk, whole, unless a copy failed), `FilesOfRepo` (the files shown
  are the selected repository's unless answers crossed), `CodeIsItsOwn` (a sign-in goes on only
  with the code of its own tab, and one that waits has missed no grant but one read too early).
* `DeliveryFits`: `ClipboardKept` (the clipboard is put back to what it was) and `DeliveredOnce`
  (what is reported as delivered was, once), with the three ghosts as exceptions.
* `SettingsFit`: `DevicesFit` (list and notice are true once no change is on its way) and
  `SettingsApply` (captures go by the settings saved; the pipeline by settings and key as they
  were when the worker loaded, and so by today's if what it is built from has not changed:
  `changed`).
* `StartsInOrder`, `WordsOnce`: starts ascend whatever the backend says; with a backend that
  reports words at their times, a word that is whole in some window is told exactly once.
* `WrittenAsMeant`: each sentence is written as `MC_Normalizer` says it is meant. The four phrases
  that are not are left out here; the run `normalizer_misread` shows them.
* `FallsBackForAReason`: a turn is left with its raw text only if the work really under way
  beside its own adds up to the timeout.
* `ClipFits`: `SpeechReachesRecognizer` (of unbroken sound, less than a window is lost at either
  end, and at the far end a sample of the recognizer's more, and nothing in between) and
  `TimesKeepApart` (times shown are displaced alike).
* `SetupFits`: `InstalledWhole`, and `UninstallFits` (setting and login entry agree unless a
  change of one of them failed or was cut short: `drifted`; a clean uninstall leaves nothing
  behind but keys of backends that nothing names any more).

**Bounds.**

* `tasks`, hotkey: `MinHold` 2 and `DoublePressWindow` 3 ticks keep the order of 200 ms and
  300 ms, so that a hold may end before, at and after each; five instants (`MaxTime` 4) hold a tap, a
  second press inside the window and one after it. Channels of capacity 1 and `MaxUnread` 2 (of
  the system's unbounded channel) fill at once and make both threads block; larger ones add only
  buffering.
* `speech`, session: three holds, four utterances, a pause of two ticks: enough for a hold
  split twice, with speech before, between and after, and for chunks of different holds queued
  behind each other. `micPrivacy` is on so that preroll, which repeats speech by design, does
  not blur loss and duplication.
* `capture_failures`: the default microphone and one that comes and goes, three settings that
  change the device, mic privacy, or both, up to two saves queued while a hold is in progress; the
  system's default moves between the two.
* `tasks`, transcription: two chunks (a turn and the one that may overtake it), a full output
  channel (2 against six events), one job of the app's own.
* `speech`, history: two entries, two switches, one other save, one crash, one run of the command
  line tool, which adds an entry or clears the journal: one of each kind of interference inside
  and around a switch on and a switch off again. The theorems need none of these bounds.
* `speech`, link (563 000 states; links are interchangeable: `LinkSymmetry`): two links, two
  dialogs, three tasks: an old answer, a new dialog and a file, or a recording, beside them.
* `tasks`, secrets: two API keys and the token, three values, so that a migration fails after some
  secrets, and a secret has an old value in the file, a newer one in the keystore, while another
  has one of its own. Crashes need no bound.
* `hub`, 1.2 million states, by part:
  * *speakers* (279 000): voices at 0, 1 and 3 with a reach of 2, so that one lies between two
    speakers and a centroid moves far enough to change who is nearest; three turns, one scan, one
    edit at a time of each.
  * *store* (65 000), *search* (12 000), *login* (8 000): one model (names do not interact), two
    directories besides the default, five operations; two queries and two repositories with four
    requests, so that answers cross; two attempts, a check of a token and a stray request.
  * *boot* (340 000): two saves, which may fall before, in and after the worker's load.
  * *delivery* (32 000): two utterances, two copies of the user's.
  * *devices* (62 000): two devices; a channel of one change where the code has four, to fill it.
  * *refiner* (195 000): a timeout of three ticks, a load of one, generations of one and of
    three ticks, two pipelines and three generations: a turn in time, one that times out, one
    that waits behind it.
  * *clip* (57 000): two stretches of soft or loud sound in silence, up to 29 samples, windows
    of two (four at the higher rate), thresholds below and above the soft sound; and a recording
    of odd length, so that resampling drops the rest of a group.
  * *rolling* (5 000): windows of six ticks that overlap by two, over a timeline of six ticks
    filled with words of one and two ticks in every way.
  * *normalizer* (77 000): every sentence of `TestSpeeches`, with the two settings on and off.
  * *installer* (14 000), *uninstall* (46 000): every set of options, one known and one other
    backend.

`CHECK_DEADLOCK FALSE` is set where the counters that bound a behaviour may all be used up, or a
pass over a text or a clip comes to its end: in `speech` and `history_reset` (the journal), in
`hub`, and in the violation runs of parts of `hub`. In the others the system always has a step.

**Fairness.**

* `HotkeyListener`: weak fairness of the threads' loops and of the worker's receive. They are OS
  threads and a task that does nothing but wait for these channels. Nothing is assumed of the
  user: `RecordingEnds` says that a recording ends *or* the key goes down again.
* `CaptureSession`: weak fairness of `OnAction`, `ApplyConfig` and `StopFinished` (a stop that was
  begun returns). `select!` polls its ready branches in random order, so neither a stream of
  hotkey actions nor the ticks can starve the settings.
* `Transcription`: weak fairness of every task's step, of `AsrBackend::transcribe` returning
  (the code puts no cap on it), and of the two timers. **Not** of `Refine`: the refiner may
  hang, and `RefineTimeout` is why a chunk is answered all the same. The mutant without the
  timeout violates `EveryChunkAnswered`.
* `History`, `Secrets`, `LinkImport` and the parts of `hub` have safety properties only.

`TapsAreDiscarded` and `StartsAreApart` speak of steps at which no time has passed with an event
under way (`stalled`): the code stamps an event when it is dequeued, so it cannot promise more.

## What does not hold

| Run | Violated | What the code does |
|---|---|---|
| `capture_lost_remainder` | `RemainderIsSilence` | "that remainder is just the trailing pause" (`auto_send.rs:62-65`). If opening the next capture fails in an automatic send, the old one goes on with its speech but the detector has been reset; released without another word, the hold is dropped although it holds speech. |
| `capture_stale` | `PrerollIsRecent` | "The last `DEFAULT_PREROLL_MS` of audio" (`preroll.rs:46`). The slot remembers the device name only. A microphone unplugged and plugged in again has a dead monitor whose ring is spliced in front of the next dictation, however old. |
| `tray_stuck` | `TraySettlesAlways` | State is "reported so UI/tray layers can reflect what's happening" (`types.rs:82-83`). A failed turn reports nothing after "Transcribing" or "Refining", and the app does not touch the tray on a failure: it goes on saying so until the next dictation. |
| `history_reset` | `EncryptedAtRest` | "Whether transcripts stored in history are encrypted at rest" (`privacy.rs:13-17`). `Config::save` truncates before it writes; killed in between, the app boots with defaults, and writes in the clear. |
| `secrets_reverted` | `FileIsNewer` | "since the config file is the more recently edited source" (`migrate.rs:36-38`). With the keystore locked at one boot, a value saved later goes to the keystore; if the save of the file fails or is cut short, the next boot restores the older plaintext copy over it. |
| `uninstall_left` | `NoSecretLeft` | "Every keystore entry whspr may have created" (`uninstall_cmd.rs:28`). A key of a backend that is not one of the known ones, written into `config.toml`, is moved to the keystore at boot and named nowhere any more: an uninstall in which nothing failed leaves it. |
| `settings_stale` | `SettingsReachPipeline` | "a settings change applies to the very next dictation" (`worker/mod.rs:24-26`). The pipeline is built once: recognizer, refiner, their key, language, translating, shortening and normalizing change with a restart only. |
| `normalizer_misread` | `DigitsAsMeant` | "two thirty" is a time (`normalize/mod.rs:102-106`, `numbers.rs:307`), but times are read of digits only and before there are any: "2 30". What is not a number is left untouched (`numbers.rs:232-234`), but the "and" of "five and six" goes: "5 6". A number and an English ordinal are a fraction (`percents.rs:8-10`, `34-35`), but the pass over numbers has made an ordinal of "one third": "1 3rd". Times are unified to 24 hours (`times.rs:1`), but "13 30 pm" becomes "25:30". |

Passing runs hold for the same code because their properties name the exception. In `speech`, what
was said while both streams recorded may be in two clips in a row (`overlap`), and nothing else
twice; `drifted` is that a boot has loaded a setting other than the one chosen, `strayed` that some
boot ever has (and a line ran into an encrypted one); `EntriesKept` names the three ways in which
entries do get lost: two appends that run together on one line, an append between a rewrite's read
and its rename, and two processes each storing a first key; and there are `foreign`, `overlapped`
and `spoiled`, as above. In `capture_failures`, `KeepsMicrophone` is about a hold whose device still
stands for the microphone it records from, and `PrerollFromSameMicrophone` leaves out a default that
has moved. In `tasks`, `interrupted` is that a save of `config.toml` failed or was cut short. In
`hub`: `replaced`, `unsaved`, `changed` and `drifted`, as above. What the code does in these cases
is under [Observations](#observations-without-a-run).

## Proofs

All theorems hold for every value of the constants that satisfies the modules' assumptions
(capacities at least one, `None` values distinct from what they stand for): any capacity, any
number of chunks, secrets, microphones and settings, any timing constants. The assumptions are
named in the modules that declare the constants, and TLC evaluates each on a run. Bounds are
natural numbers (`OpsAssumption`, `RequestsAssumption`, `LoginAssumption`, `VoicesAssumption`,
`SavesAssumption`, `DeliveryBounds`, ...). Two assumptions say more: `BackendAssumption` of
`MC_Rolling`, below, and `SpeechesAssumption` of `Normalizer`, that what is said are words of the
kinds it knows, those of a number kind with a number.

**Hold stream.** `HoldStream_proofs` shows `HoldSpec => []Alternates` (`HoldsAlternateAlways`).
`Alternating(actions, before, after)` says that the queued actions alternate and fit the
recorder's state before them and the hotkey's after; it is inductive together with the types.
The lemmas say that appending an action that flips the phase, and taking the first one, keep it;
the induction over positions is done by comparing neighbours, so no induction over data is
needed.

**Listener.** `TypeCorrect`; `CapacityKept` (the action channel never exceeds its capacity,
which the mapped stream's guard needs); `Implementation`: `Spec => ImplementsHoldStream`, one
step per action, each a `Begin`, `End`, `Take` or stutter of the hold stream; `Alternation`:
`HoldsAlternate` follows from the two without another look at threads or time.
`TapsAlwaysDiscarded` and `StartsAlwaysApart` are action properties about real time: what the
debouncer measures is the clock when it runs, and it may run late. Their invariant, `Prompted`,
says what `stalled` being false buys: every event under way is stamped with the present instant,
and the debouncer's `activeSince` and `lastPress` are the instants the key really moved.

**Capture session.** Every step of it is a step or a stutter of the hold stream (`StepHolds`), so
alternation is inherited. `MicReleased` (`MicOnlyWhileHeld`) needs it: a closing is only taken
while recording. `NeverReplaced` is an action property on top: a start is only taken when nothing
is recorded, hence with no capture. `MicPrivacyKept` has its own invariant
`MonitorFollowsSettings`: what `reconcile` leaves is what the settings in force ask for, or
nothing. `SessionTypeCorrect` covers the records and sequences. `MicrophoneKept`
(`KeepsMicrophone`) needs no more than the steps: only an automatic send reopens, and it resolves
the device the capture was opened for. `PrerollFits` (`PrerollFromSameMicrophone`) rests on
`RingIsMonitors`: the ring was heard by the microphone the monitor's stream was opened on,
whatever has become of the system's default since.

Two properties of the speech itself are theorems under a hypothesis. `SpeechIsKept`
(`NothingIsLost`) supposes that no stream fails and that all settings agree on auto-send; toggling
it during a hold really can lose a remainder. Its invariant says that nothing is lost so far and
that until the detector has heard something everything said has left the capture
(`DetectorMissesNothing`), so that a remainder dropped as silence is silent. `SpeechKeepsOrder`
(`SpeechInOrder`) supposes that all settings keep the microphone private: with preroll a second
hold can begin with words already transcribed. The clips are in order (`ClipsInOrder`), what the
capture being stopped and the one after it hold comes after them (`CaptureInOrder`, by
`ComesNext`), and there is nothing in front of it (`NoPreroll`); two audios share an utterance
only if they adjoin and it was said while both were recorded (`Laps`).

**Transcription.** `OneOutcomeInOrder` and `NoOutcomeOvertaken` share `Inv == Typed /\
QueueInOrder /\ OutcomesInOrder /\ NothingAhead /\ AnswersBeforeNextTurn`. `AnswersInOrder` is
not inductive: it speaks of what the app has seen, which depends on what is under way.
`QueueInOrder`: the queue is exactly the chunks after the one in progress. `OutcomesInOrder`:
the outcomes in the output channel are exactly those sent and not yet seen, ascending.
`NothingAhead`: no report, forwarded or not, is about a chunk the processor has not reached. The
last is what makes overtaking impossible: a turn's outcome is sent before the next turn begins,
so a report that gets into the channel before an outcome is not of a later turn. `TypeCorrect`
adds the app's own fields to that invariant.

**History.** All its safety properties are theorems, for any number of entries, switches, crashes,
runs of the command line tool and generated keys. `OwnEntriesEncrypted` (`EncryptedWhileOn`) rests
on `IInv == HistoryTypeOK /\ Encrypted /\ Straight /\ InForce /\ Switching`. The property is not
inductive: it speaks of the setting, which a rename changes together with the journal. `Encrypted`
says it of what the user chose instead, `Straight` that until some boot has lost the setting
nothing dictated has run into an encrypted line, `InForce` that a running app acts on that choice,
`Switching` that the temporary file is the conversion of what was read, under a real key, and that
where nothing was read the app has written nothing since. `NothingOfOwnHidden` (`NothingHidden`)
needs to know who may know which key, since app and command line tool may each generate a first
one: `Keys` says that before there is a key nothing is encrypted (`NoKeyYet`, `FirstKey`), that a
key the tool is about to store has never been used by the app (`ToolsKey`), that of the app's
entries those under the stored key are under the key it uses (`KeyInUse`), and that with
encryption switched off none is (`Decrypted`). `EntriesSurvive` (`EntriesKept`) follows step by
step from what an append and a conversion do to the set of readable entries.

**Secrets** (`Screens_proofs`). `PlaintextGone` (`NoPlaintextLeft`) and `NoneLostOrReverted`
(`SecretsKept`, an action property) rest on `SecretsInv`, which is `SecretsTypeOK` and
`~interrupted => Consistent /\ MigrationDone`: while every
save succeeds, memory and file agree outside a save, no plaintext copy is older than the
keystore's entry, what a migration has moved is in the keystore, and past the migration nothing
in memory is in plaintext.

**Link import.** `LinkTypeCorrect`, `NoAudioLeft` (`WavsRemoved`) and `ScreensFitTasks`
(`LinkFits`), for any links and any number of dialogs and tasks. The invariant beside the types:
tasks are numbered apart (`Numbered`), a WAV on the disk is of a task that has one to remove or
has failed (`AudioOnDisk`), the dialog has at most one task of a kind (`OneOfKind`), and one
transcription runs, and no recording beside it, unless some overlapped (`OneTranscription`). The
two dozen handlers come in four shapes (a step that starts no task and ends none, one that begins
one, one that ends one, one that moves one on); each shape preserves the invariant by a lemma, and
each handler is shown to have its shape.

**Models tab** (`Screens_proofs`). `StoreFits` (`OneOperation`, `ListIsDisk`): `FlagsFit` names
the one task that runs instead of counting tasks; `FewTasks` leaves a number for the next one;
`ListedOrComing` says that what the list lacks a task still to scan will bring, and
`WholeOrCopied` that a file that is not whole is being copied to. `SearchFits` (`FilesOfRepo`) by
`RequestFits`: until two requests cross, the one in flight is about the repository shown.
`LoginFits` (`CodeIsItsOwn`) by `TabsFit`: while an attempt waits on the port no later one has
opened a tab, and a code in the backlog is of a tab that granted access; and `WaitsForCode`.

**Speakers, devices, settings** (`Screens_proofs`). `SpeakersStay` (`CentroidIsMean`,
`SpeakersKept`) says of every database there is — in memory, in the file, taken by a scan and
changed by it — that identifiers are unique and below the next one and that centroids are means
(`DbFits`). Each operation on a database is shown to keep that and to extend the database it was
given (`ExtendsDb`). That is why a scan's copy still has everyone it was taken with, and why only
what was enrolled or named between its load and its save can be missing from it, the app's scan or
the command line's. `DevicesTrue` (`DevicesFit`): applying the difference of two lists to the
first gives the second, and a change takes away no device that it brings. `SettingsReachDictation`
(`SettingsApply`): the last settings on their way are the app's (`SettingsPushed`); what the
worker has loaded, at each stage of its start, is what the app has, but for what was saved since
(`SessionFits`), and the pipeline is what the app's settings and the key in the keystore ask for,
but for what of these has changed since.

**Windows** (`Hub_proofs`). `TranscriptInOrder` (`StartsInOrder`), for windows of any length and
overlap and any answer. `WordsToldOnce` (`WordsOnce`) has a hypothesis, `FaithfulBackend`: words
are apart and no longer than the overlap, which is at most a third of the window (the code's
defaults are 3 and 20 seconds), and an answer reports, in order, pieces of the window's words,
among them every word that lies whole in it. `BackendAssumption` says so of the run's timelines
and answers. What the backend makes of a word cut by an edge is left open, and so is which
windows fail. The invariant: every segment is the piece some window has of a word (`Pieces`),
no two segments overlap (`SegmentsApart`), the rest of an answer comes after what it has given
(`Coming`), and a word whole in an answered window is told or still to come (`ToldOrComing`).
The hard part is that a segment that is no duplicate is never moved by the clamp
(`ComesAfter`): an earlier window could have told a later word only if it had the word now heard
whole, and then that is a duplicate (`ToldAlready`). A word is heard in two windows at most
(`TwoWindowsReach`), so that two segments that tell a whole word overlap and are one
(`ToldByOne`).

**Delivery** (`Hub_proofs`). `ClipboardReturned` (`ClipboardKept`) by an invariant of where the
saved content is at each step of `insert` (`Borrowed`). `DeliveredAsReported` (`DeliveredOnce`)
by what the target has received against what was reported (`Received`). `DeliveryTypeCorrect`
(`DeliveryTypeOK`): the text in hand is one of the utterances so far, and one dictation waits at
most (`DeliveryTyped`).

**Spoken numbers** (`Speech_proofs`). `PassesKeepWords` (`NormalizerTypeOK`), for any sentences:
each pass goes through its text word by word, always forward and never past the end, and writes
words of the kinds that later passes read, those of a number kind with a number. There is one
lemma for each pass (`TimesGo`, `NumbersGo`, ...: `Goes` says that a match writes words and ends
past its beginning and within the text), on top of where a run of number words ends
(`RunEnds`, `NumberEnds`) and that it adds up to a number (`EvalTyped`). What a run adds up to
and what a formula's chain of operators is are recursive functions. That such a function exists
and has values of its type is proved once, for any recursion along a decreasing measure
(`RecursionExists`, `RecursionTyped`), by a least counterexample.

`NumbersAsMeant` says what the passes write: `NumberSpoken => WrittenAsMeant`, where
`NumberSpoken` is that a number from 1 to 999 999 999 999 is said (`Cardinal`: its thousands,
millions and billions, each below 1000 and with or without an *and* after the hundred), in one of
the contexts of `SpeechesOf`: alone, as dollars, percent, fifths, squared, with decimals, or
times another. It holds for each setting of the two switches, whatever other sentences there are.
The argument has three layers.

* *Parsing.* Going through the words of a number, the running sums of `EvalKinds` are what the words
  so far say (`Read`, `SoFar`: a total, and a group that no scale has ended yet). Tens, hundreds and
  groups each move them on (`TensRead`, `HundredsRead`, ..., put together by `ReadOn`), so that the
  run adds up to the number. The run ends where the number does (`RunEnd`): each word fits after the
  one before it (`FitsThere`), and the word of the context after it does not.
* *One pass.* At the number's first word the pass whose pattern the context is (`PatternOf`) matches
  all of the text and writes what was meant (`CurrencyHits`, `PercentsHit`, `PowerHit`, `ProductHit`);
  every other pass finds none of its own kinds of words (`StageKinds`) and copies the text as it is.
* *All passes.* `ReadingInv` names, for the stage that `passes` is at, the text it began with
  (`TextAt`) and what of it has been written (`PassSoFar`). It is inductive together with the types
  (`StagesPass`), and at the end of the last pass it is the property (`StagesEnd`). TLC agreed on
  nineteen numbers up to 2 000 000 019 before the proof; its own integers end there.

The proof attempt showed the alternatives of `NumbersAt` to overlap, where TLA+ leaves open which
one a `CASE` takes; they are now an `IF` chain in the order of the code's early returns.

Nothing here is an induction over the number: no number has more than four groups of three, and
each group is read by the same lemma.

**Audio** (`Speech_proofs`). `AudioArrives` (`SpeechReachesRecognizer`, `TimesKeepApart`), for any
recordings, rates, windows and thresholds. `EvenlySpaced` says that the samples left are at even
distances in the recording, `Covered` that they reach from before the first window of speech to
after the last, `StepsFit` which steps are still to do. That a scan stops at the first loud
window needs sums of energies over finite sets, whose laws are proved by a least counterexample
(`LeastBadSet`) and not by induction; that a window of two that is loud at one rate is loud at
the other needs that a mean is at least the least of its samples (`MeanAtLeast`). The attempt
showed the property to be too strong as first stated: when resampling drops the last samples of
a recording that do not make a whole group, up to one sample of the recognizer's is lost at the
end beside the window. The property now allows that, and the run has a recording where it
happens.

**Local refiner** (`Hub_proofs`). `RefinedUnlessSlow` (`FallsBackForAReason`), for any pipelines,
generations and times. The invariant `RefInv` keeps account of time: a turn has waited no longer
than what the generations beside its own, and its own, have used of what loading and generating
cost (`Waits`), since a tick passes only while one of them is at work. When the turn gives up,
the sum of what they cost is therefore at least the timeout.

**Setup** (`Hub_proofs`). `InstallIsWhole` (`InstalledWhole`) by `PlanGoesOn`: what the rest of
the plan will not do is done, and the payload comes in it before anything that points to the exe.
`UninstallIsWhole` (`UninstallFits`) by `StepsDone` (a clean uninstall has done the steps not
left) and `EntryAsSet` (the setting that the file loads as, torn or whole, agrees with the entry
too, which the next boot relies on).

**Composition** (`Hub_proofs`). `HubIsItsParts`: every behaviour of `HubSpec` is a behaviour of
each of the thirteen parts' specifications. The parts' theorems therefore hold of the whole
(`SpeakersAlwaysFit`, `ModelsTabAlwaysFits`, `SettingsAlwaysFit`, `SetupAlwaysFits`,
`ClipAlwaysFits`, `DeliveryAlwaysFits`, `RestAlwaysFits`, and `HubTypesFit` for the types), which
are the invariants the `hub` run checks; of `WrittenAsMeant` the whole has what `NumbersAsMeant`
says.

## Only model-checked, and not modelled

* *Liveness* (`RecordingEnds`, `MicPrivacyApplies`, `EveryChunkAnswered`, `TraySettles`) needs
  fairness and ENABLED, which the prover does not handle.
* `WrittenAsMeant` for the other sentences of `MC_Normalizer`: several numbers joined, and times
  of day. Each is one sentence or a few, and its meaning is listed there.
* *Sounds and the focused application's name* are not modelled.
* *In the normalizer*: Russian, punctuation, hyphenated numbers, roots, dates, fillers, macros,
  scripts, phone numbers, addresses, abbreviations and paragraphs.
* *In the audio path*: the contents of the filter, gain, noise suppression, the preroll ring.
* *Contents* — audio samples, words, JSON, cipher — are abstracted to identities. A line that is
  encrypted under a key reads back with that key and with no other.
* *Hand edits of `config.toml`* are made while the app is off; `stats --clear` only between runs
  of the command line tool (at most one runs at a time).
* The remaining components are listed with their reasons in the inventory.

## Plan

Done: the hotkey, the capture session, transcription, history and secrets, and the parts of the
`hub` run, with proofs of every safety property the passing runs check, of `WrittenAsMeant` for
every sentence that says one number.

Next, most important first:

1. **The remaining passes of the normalizer**: dates, phone numbers, the passes over
   punctuation.
2. **The preroll ring** as a sequence of its own, composed with Clip and CaptureSession.

## Observations without a run

Met while reading or modelling, without a run of their own. Where a property excepts one, the
ghost or condition by which it does is named.

*Dictation and history*

* "preroll from a different microphone would splice two sources" (`preroll.rs:47-48`): for the
  default microphone the slot and the press compare `None` with `None`, so after the system's
  default has moved, the old one's audio is spliced in front of the new one's (`DefaultMoved`).
* "one hold never switches microphones" (`session.rs:30-31`): a hold keeps a name or "the
  default", resolved again for every chunk. It goes on with another microphone once the default
  has moved or a missing one has come or gone (the hypothesis of `KeepsMicrophone`).
* "toggling converts the existing file" (`README.md:361`): a dictation in the clear that ran into
  an encrypted line without its newline is kept as it was, and stays readable when encryption is
  switched on again (`strayed`).
* Switching auto-send off and on during a hold makes the detector and `chunks_sent` disagree; a
  remainder with speech may be dropped as well.
* The preroll monitor goes on listening during captures (`preroll_monitor.rs:1-6` says "while
  the app is idle"), so a second hold soon after the first begins with its last words.
* The tray stops showing the microphone while the record button records, when a hotkey or file
  transcription changes it (`app.rs:279-293`); hotkey recordings never show it.
* A completed dictation clears `last_error` of an earlier failed one before it may have been
  read.
* `stats --clear` while a rewrite is in progress is undone by the rename; a crash during a
  switch off leaves a decrypted `history.jsonl.rewrite`; after a crash between the rename and
  the save of a switch on, the app skips the encrypted entries, which the command line tool
  reads.
* The command line tool, started while the app has `config.toml` truncated, sees the defaults.
  Hand edits made while the app runs are overwritten by its next save.
* A secret whose keystore entry cannot be deleted comes back at the next boot (the failure is
  shown).
* Removing a secret drops its plaintext copy and saves although the keystore would not delete
  the entry (`hub/settings/update.rs:152`).

*Delivery*

* The app delivers through `type_text`, so that the space `spaced_payload` puts between
  consecutive dictations and the delay before a paste, both of the text sink, are not in effect.
* A target slower than 120 ms pastes what the user had copied; a copy the user makes between
  staging and restoring is overwritten; a clipboard that held an image is emptied.

*Link import and files*

* "`None` when idle" (`link_import.rs:49-50`): progress handled after an import's error sets
  `importing` again, and Confirm stays disabled with nothing under way (`foreign`).
* "Status/progress text for an in-flight or just-finished file transcription"
  (`state.rs:125-127`): the recorder, imports and dictations write the same field, and the first
  of several transcriptions to finish ends the status of all (`overlapped`).
* "then deletes the temp WAV" (`link_import.rs:275-277`, `download.rs:9-11`): a decode or a
  transcription that fails returns before the removal (`spoiled`).
* The link is read when Confirm is pressed and may not be the one resolved. A cancelled import
  replaces the desk and closes whatever dialog is open.
* The temporary directories, those of captions included, are never removed.
* Captions are imported whole, though a section was chosen; the headings kept are at the times
  of the whole recording.

*Audio and times*

* `whspr transcribe` does not resample: a file that is not at 16 kHz reaches the recognizer at
  its own rate, which takes it for 16 kHz, although "capture/decode/resample all normalize down
  to this shape before anything touches an ASR backend" (`whspr-core/src/types.rs:3-5`).
  `TimesKeepApart` leaves that case out.
* Times of segments count from the trimmed audio: subtitle cues and the rows of the desk are
  early by the silence cut in front, and by a chosen section's start, while chapter headings are
  not.
* `decode_wav` trims by its fixed threshold before the user's lower one is looked at; the floor
  of 1600 samples is 100 ms at 16 kHz only; 24-bit samples are shifted by 8 more bits than they
  have (256 times too quiet).
* A ring of capacity 0 keeps one sample.

*Recognizers and refiners*

* A generation that was given up keeps the lock, and those behind it fall back too. A timeout
  leaves the text without the rule-based passes as well, which a no-op refiner would have had
  (`pipeline.rs:127-129`).
* A prompt too long for the context fails the whole dictation, where a timeout does not.
* The OpenAI refiner fails on an empty answer, Anthropic's returns it. Cloud recognizers ignore
  language and translation.
* `RollingTranscriber` is used by no other crate. A word longer than the overlap, or than the
  window less two overlaps, may be told twice or not at all.

*Speakers*

* "a speaker enrolled from one recording is recognized again in a completely different one later"
  (`README.md:407-409`): a scan works on the database as it was when it began and replaces it, so
  who was enrolled meanwhile is lost; the command line's load and save do the same (`replaced`).
* A speaker whose last turn was moved away keeps a centroid and goes on matching.

*Models and sign-in*

* Enter in the search field searches while the buttons are disabled: the files of one repository
  may be shown under another. Enter in the token field likewise, and the flag then falls while
  an operation runs. Removing a directory heeds no flag.
* A failed copy leaves a truncated file that the next scan offers.
* Access denied in the browser (`?error=`) is taken for a stray request, and the tab is busy for
  the full five minutes. The address to open is not shown although `run_login` says so. A
  redirect accepted before its bytes have arrived is lost where sockets inherit non-blocking
  mode. A late tab of an earlier attempt ends the new one.

*Settings*

* What is saved between the worker's load and its readiness is not pushed. A worker that reads
  `config.toml` while it is emptied goes by defaults.
* A worker parked for want of a model stays so when one is chosen. `refine_timeout_ms` is read
  by nothing, and `config_reload` by tests only.
* The list of languages has no effect while `language_switch` is on, which is the default and
  has no control. The command line resolves neither recognizer nor language as the app does.

*Devices*

* A device plugged between the list and the watcher's first look, or while hot-plugging is off,
  is never reported. A notice stays if the device returns while another is chosen, or if it was
  gone between two polls only. A failed enumeration shows "not connected" until the next.

*Normalizer*

* Under the format Words, which keeps numbers spelled out (`normalize/mod.rs:141-144`), "twenty
  fifth" becomes "20/5".
* "25th 25th" is collapsed; two groups of a phone number may become a time; ten "hundred"s
  overflow.

*Setup*

* The installer writes the login entry while the setting's default is off; a reinstall does not
  remove what is deselected; Retry resets the options. A toggle of autostart that fails is saved
  as if it had not.
* An uninstall leaves the install directory and the shortcuts; an app that runs writes its files
  again.
