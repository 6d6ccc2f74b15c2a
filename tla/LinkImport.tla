------------------------------ MODULE LinkImport ------------------------------
(***************************************************************************)
(* Importing from a link and transcribing files (whspr-app: link_import.rs, *)
(* hub/link_import, transcribe_url.rs, transcribe_file.rs, note_desk.rs,    *)
(* app.rs; whspr-import: download.rs).  A dialog resolves a link, then      *)
(* imports it -- captions, or the audio transcribed -- to a note desk, or   *)
(* transcribes it to the Dictate screen; a file chosen there, or what was   *)
(* recorded there, is transcribed to the same place.  Everything runs in    *)
(* tasks whose answers carry no identifier and meet whatever the dialog and  *)
(* the screen are by then.                                                 *)
(*                                                                         *)
(* A link stands for its media: the title and the chapters of a note are    *)
(* those of one link, its text that of a link too.                          *)
(***************************************************************************)
EXTENDS Naturals, FiniteSets

CONSTANTS
  Links,
  NoLink,      (* a blank URL; no media                                      *)
  Closed,      (* no dialog                                                  *)
  NoDesk,
  Sample,      (* the note desk's sample                                     *)
  MaxDialogs,  (* bound of the model on dialogs opened                       *)
  MaxTasks     (* bound of the model on tasks started                        *)

ASSUME LinkBounds == MaxDialogs \in Nat /\ MaxTasks \in Nat

VARIABLES
  dialog,      (* State::link_import                                         *)
  noteDesk,    (* State::note_desk                                           *)
  status,      (* State::transcribe_status                                   *)
  shown,       (* State::transcribed_text: the task it is of, 0 if of none    *)
  isRecording, (* State::is_recording, with a capture in RECORDER            *)
  importTasks, (* the tasks in flight                                        *)
  progress,    (* progress messages sent and not handled                     *)
  wavs,        (* tasks whose WAV is in the temporary directory              *)
  recorded,    (* tasks recorded in History                                  *)
  opened, started, (* counters of the bounds                                 *)
  foreign,     (* history: a message has changed a dialog it was not of, or was
                  handled after the answer of its task                       *)
  overlapped,  (* history: two of transcription, import, dictation and recording
                  have run at once                                           *)
  spoiled      (* history: tasks that failed with their WAV on disk, on the
                  way the code does not clean up                             *)

linkVars == <<dialog, noteDesk, status, shown, isRecording, importTasks, progress, wavs, recorded,
              opened, started, foreign, overlapped, spoiled>>

Media == Links \cup {NoLink, Sample}
LinkTask == [no : 1..MaxTasks, kind : {"resolve", "import", "dictate", "file", "export"},
             of : 0..MaxDialogs, link : Media, title : Media, captions : BOOLEAN,
             stage : {"running", "audio", "ok", "error"}]
Progress == [task : 1..MaxTasks, of : 0..MaxDialogs, phase : {"downloading", "transcribing"}]

Dialog == [url : Links \cup {NoLink}, resolving : BOOLEAN, media : Media, captions : BOOLEAN,
           importing : {"none", "captions", "downloading", "transcribing"}]
Desk == [title : Media, text : Media, export : {"none", "exporting", "saved", "failed"}]

Transcribing == {"import", "dictate", "file"}
ToScreen(task) == task.kind \in {"dictate", "file"}
Imports == {task \in importTasks : task.kind = "import"}

LinkInit ==
  /\ dialog = Closed /\ noteDesk = NoDesk /\ status = "none" /\ shown = 0
  /\ isRecording = FALSE /\ importTasks = {} /\ progress = {} /\ wavs = {} /\ recorded = {}
  /\ spoiled = {}
  /\ opened = 0 /\ started = 0 /\ foreign = FALSE /\ overlapped = FALSE

\* Something else is shown, or to be shown, on the Dictate screen.
Overlaps == isRecording \/ \E task \in importTasks : task.kind \in Transcribing

\* The task's number, the dialog it is of, and how far it is.
StartTask(kind, link, title, captions) ==
  /\ started < MaxTasks /\ started' = started + 1
  /\ importTasks' = importTasks \cup
       {[no |-> started', kind |-> kind, of |-> opened, link |-> link, title |-> title,
         captions |-> captions, stage |-> "running"]}

Screen == <<noteDesk, status, shown, isRecording>>
Files == <<progress, wavs, recorded, spoiled>>

-----------------------------------------------------------------------------
(* The dialog *)

LinkImportOpen ==
  /\ dialog = Closed /\ noteDesk = NoDesk /\ opened < MaxDialogs
  /\ opened' = opened + 1
  /\ dialog' = [url |-> NoLink, resolving |-> FALSE, media |-> NoLink, captions |-> FALSE,
                importing |-> "none"]
  /\ UNCHANGED <<Screen, Files, importTasks, started, foreign, overlapped>>

\* Cancel, or Esc: nothing that runs is stopped.
LinkImportCancel ==
  /\ dialog # Closed
  /\ dialog' = Closed
  /\ UNCHANGED <<Screen, Files, importTasks, opened, started, foreign, overlapped>>

LinkImportUrl(link) ==
  /\ dialog # Closed
  /\ dialog' = [dialog EXCEPT !.url = link]
  /\ UNCHANGED <<Screen, Files, importTasks, opened, started, foreign, overlapped>>

\* start_resolve: the button is disabled while resolving, pressing Enter is not.
LinkImportResolve ==
  /\ dialog # Closed /\ dialog.url # NoLink
  /\ StartTask("resolve", dialog.url, dialog.url, FALSE)
  /\ dialog' = [dialog EXCEPT !.resolving = TRUE]
  /\ foreign' = (foreign \/ dialog.resolving)
  /\ UNCHANGED <<Screen, Files, opened, overlapped>>

\* mutant: a failed answer leaves the dialog waiting
LinkImportResolvedOk(task) ==
  /\ task.kind = "resolve"
  /\ importTasks' = importTasks \ {task}
  /\ \/ /\ dialog = Closed /\ UNCHANGED dialog
     \/ /\ dialog # Closed
        /\ \E hasCaptions \in BOOLEAN :
             dialog' = [dialog EXCEPT !.resolving = FALSE, !.media = task.link, !.captions = hasCaptions]
     \/ dialog # Closed /\ dialog' = [dialog EXCEPT !.media = NoLink]
  /\ foreign' = (foreign \/ (dialog # Closed /\ task.of # opened))
  /\ UNCHANGED <<Screen, Files, opened, started, overlapped>>

\* apply_resolved: the media and the default way, or the error and no media.
LinkImportResolved(task) ==
  /\ task.kind = "resolve"
  /\ importTasks' = importTasks \ {task}
  /\ \/ /\ dialog = Closed /\ UNCHANGED dialog
     \/ /\ dialog # Closed
        /\ \E hasCaptions \in BOOLEAN :
             dialog' = [dialog EXCEPT !.resolving = FALSE, !.media = task.link, !.captions = hasCaptions]
     \/ dialog # Closed /\ dialog' = [dialog EXCEPT !.resolving = FALSE, !.media = NoLink]
  /\ foreign' = (foreign \/ (dialog # Closed /\ task.of # opened))
  /\ UNCHANGED <<Screen, Files, opened, started, overlapped>>

LinkImportUseCaptions(captions) ==
  /\ dialog # Closed /\ dialog.media # NoLink
  /\ dialog' = [dialog EXCEPT !.captions = captions]
  /\ UNCHANGED <<Screen, Files, importTasks, opened, started, foreign, overlapped>>

Confirmable == dialog # Closed /\ dialog.media # NoLink /\ dialog.importing = "none" /\ dialog.url # NoLink

\* start_import: the title is the resolved media's, the audio that of the URL
\* field.  Captions come by a URL of the media's own.
LinkImportConfirm ==
  /\ Confirmable
  /\ StartTask("import", IF dialog.captions THEN dialog.media ELSE dialog.url, dialog.media, dialog.captions)
  /\ dialog' = [dialog EXCEPT !.importing = IF dialog.captions THEN "captions" ELSE "downloading"]
  /\ status' = "importing" /\ overlapped' = (overlapped \/ Overlaps)
  /\ UNCHANGED <<noteDesk, shown, isRecording, Files, opened, foreign>>

\* start_transcribe_to_dictate: closes the dialog.
LinkImportTranscribeToDictate ==
  /\ Confirmable
  /\ StartTask("dictate", dialog.url, dialog.media, FALSE)
  /\ dialog' = Closed /\ status' = "transcribing" /\ shown' = 0
  /\ overlapped' = (overlapped \/ Overlaps)
  /\ UNCHANGED <<noteDesk, isRecording, Files, opened, foreign>>

\* LinkImportProgress, handled whenever it is: of the download or of whisper.
LinkImportProgress(message) ==
  /\ progress' = progress \ {message}
  /\ IF dialog = Closed THEN UNCHANGED <<dialog, foreign>>
     ELSE /\ dialog' = [dialog EXCEPT !.importing = message.phase]
          /\ foreign' = (foreign \/ message.of # opened \/ message.task \notin {t.no : t \in importTasks})
  /\ UNCHANGED <<Screen, wavs, recorded, spoiled, importTasks, opened, started, overlapped>>

\* apply_imported: an import opens a note desk and closes the dialog, whichever.
LinkImportImported(task) ==
  /\ task.kind = "import" /\ task.stage \in {"ok", "error"}
  /\ importTasks' = importTasks \ {task}
  /\ status' = "none"
  /\ IF task.stage = "ok"
       THEN /\ recorded' = recorded \cup {task.no}
            /\ noteDesk' = [title |-> task.title, text |-> task.link, export |-> "none"]
            /\ dialog' = Closed
       ELSE /\ UNCHANGED <<recorded, noteDesk>>
            /\ dialog' = IF dialog = Closed THEN Closed ELSE [dialog EXCEPT !.importing = "none"]
  /\ foreign' = (foreign \/ (dialog # Closed /\ task.of # opened))
  /\ UNCHANGED <<shown, isRecording, progress, wavs, spoiled, opened, started, overlapped>>

-----------------------------------------------------------------------------
(* The Dictate screen *)

\* FileToTranscribePicked: the answer of the file dialog, whatever is open by then.
TranscribeFile ==
  /\ StartTask("file", NoLink, NoLink, FALSE)
  /\ status' = "transcribing" /\ shown' = 0
  /\ overlapped' = (overlapped \/ Overlaps)
  /\ UNCHANGED <<dialog, noteDesk, isRecording, Files, opened, foreign>>

\* ToggleRecording, the button of the Dictate screen: it is enabled whatever runs.
StartRecording ==
  /\ dialog = Closed /\ noteDesk = NoDesk /\ ~isRecording
  /\ \/ isRecording' = TRUE /\ status' = "recording"
     \/ isRecording' = FALSE /\ status' = "failed"
  /\ overlapped' = (overlapped \/ Overlaps)
  /\ UNCHANGED <<dialog, noteDesk, shown, Files, importTasks, opened, started, foreign>>

StopRecording ==
  /\ dialog = Closed /\ noteDesk = NoDesk /\ isRecording
  /\ isRecording' = FALSE
  /\ \/ StartTask("file", NoLink, NoLink, FALSE) /\ status' = "transcribing" /\ shown' = 0
     \/ status' = "failed" /\ UNCHANGED <<importTasks, started, shown>>
  /\ UNCHANGED <<dialog, noteDesk, Files, opened, foreign, overlapped>>

\* mutant: an error is logged, the status left as it was
FileTranscribedQuiet(task) ==
  /\ ToScreen(task) /\ task.stage \in {"ok", "error"}
  /\ importTasks' = importTasks \ {task}
  /\ IF task.stage = "ok"
       THEN status' = "complete" /\ shown' = task.no /\ recorded' = recorded \cup {task.no}
       ELSE UNCHANGED <<status, shown, recorded>>
  /\ UNCHANGED <<dialog, noteDesk, isRecording, progress, wavs, spoiled, opened, started, foreign,
                 overlapped>>

FileTranscribed(task) ==
  /\ ToScreen(task) /\ task.stage \in {"ok", "error"}
  /\ importTasks' = importTasks \ {task}
  /\ IF task.stage = "ok"
       THEN status' = "complete" /\ shown' = task.no /\ recorded' = recorded \cup {task.no}
       ELSE status' = "failed" /\ UNCHANGED <<shown, recorded>>
  /\ UNCHANGED <<dialog, noteDesk, isRecording, progress, wavs, spoiled, opened, started, foreign,
                 overlapped>>

\* WorkerEvent::Completed: a dictation is shown on the same screen.
Dictated ==
  /\ status' = "dictated" /\ shown' = 0
  /\ overlapped' = (overlapped \/ Overlaps)
  /\ UNCHANGED <<dialog, noteDesk, isRecording, Files, importTasks, opened, started, foreign>>

-----------------------------------------------------------------------------
(* The note desk *)

EnterNoteDesk ==
  /\ dialog = Closed /\ noteDesk = NoDesk
  /\ noteDesk' = [title |-> Sample, text |-> Sample, export |-> "none"]
  /\ UNCHANGED <<dialog, status, shown, isRecording, Files, importTasks, opened, started, foreign,
                 overlapped>>

BackToDictate ==
  /\ noteDesk # NoDesk /\ noteDesk' = NoDesk
  /\ UNCHANGED <<dialog, status, shown, isRecording, Files, importTasks, opened, started, foreign,
                 overlapped>>

\* start_export_typ and _pdf: of the desk as it is now, to a file yet to be chosen.
NoteDeskExport ==
  /\ noteDesk # NoDesk
  /\ StartTask("export", noteDesk.text, noteDesk.title, FALSE)
  /\ noteDesk' = [noteDesk EXCEPT !.export = "exporting"]
  /\ UNCHANGED <<dialog, status, shown, isRecording, Files, opened, foreign, overlapped>>

\* apply_export_status, to whichever desk is open: saved, failed, or cancelled.
NoteDeskExportDone(task) ==
  /\ task.kind = "export"
  /\ importTasks' = importTasks \ {task}
  /\ IF noteDesk = NoDesk THEN UNCHANGED noteDesk
     ELSE \E outcome \in {"saved", "failed", "none"} : noteDesk' = [noteDesk EXCEPT !.export = outcome]
  /\ UNCHANGED <<dialog, status, shown, isRecording, Files, opened, started, foreign, overlapped>>

-----------------------------------------------------------------------------
(* The tasks *)

ToStage(task, stage) == importTasks' = (importTasks \ {task}) \cup {[task EXCEPT !.stage = stage]}

\* download_to_audio, with progress of an import; a WAV that will not decode stays.
DownloadAudio(task) ==
  /\ task.kind \in {"import", "dictate"} /\ ~task.captions /\ task.stage = "running"
  /\ \/ ToStage(task, "audio") /\ wavs' = wavs \cup {task.no} /\ UNCHANGED spoiled
     \/ ToStage(task, "error") /\ UNCHANGED <<wavs, spoiled>>
     \/ /\ ToStage(task, "error")
        /\ wavs' = wavs \cup {task.no} /\ spoiled' = spoiled \cup {task.no}
  /\ progress' = IF task.kind = "import"
                   THEN progress \cup {[task |-> task.no, of |-> task.of, phase |-> "downloading"]}
                   ELSE progress
  /\ UNCHANGED <<dialog, Screen, recorded, opened, started, foreign, overlapped>>

\* The import deletes the WAV last, after every step that may fail.
TranscribeImport(task) ==
  /\ task.kind = "import" /\ task.stage = "audio"
  /\ \/ ToStage(task, "ok") /\ wavs' = wavs \ {task.no} /\ UNCHANGED spoiled
     \/ ToStage(task, "error") /\ UNCHANGED wavs /\ spoiled' = spoiled \cup {task.no}
  /\ progress' = progress \cup {[task |-> task.no, of |-> task.of, phase |-> "transcribing"]}
  /\ UNCHANGED <<dialog, Screen, recorded, opened, started, foreign, overlapped>>

\* mutant: an error returns before the file is deleted
TranscribeUrlEarly(task) ==
  /\ task.kind = "dictate" /\ task.stage = "audio"
  /\ \/ ToStage(task, "ok") /\ wavs' = wavs \ {task.no}
     \/ ToStage(task, "error") /\ UNCHANGED wavs
  /\ UNCHANGED <<dialog, Screen, progress, recorded, spoiled, opened, started, foreign, overlapped>>

\* run_transcribe_url deletes it whatever the outcome.
TranscribeUrl(task) ==
  /\ task.kind = "dictate" /\ task.stage = "audio"
  /\ ToStage(task, "ok") \/ ToStage(task, "error")
  /\ wavs' = wavs \ {task.no}
  /\ UNCHANGED <<dialog, Screen, progress, recorded, spoiled, opened, started, foreign, overlapped>>

\* fetch_caption or download_captions, and run_transcribe of a file.
Answer(task) ==
  /\ task.stage = "running" /\ (task.kind = "file" \/ (task.kind = "import" /\ task.captions))
  /\ ToStage(task, "ok") \/ ToStage(task, "error")
  /\ UNCHANGED <<dialog, Screen, Files, opened, started, foreign, overlapped>>

LinkNext ==
  \/ LinkImportOpen \/ LinkImportCancel
  \/ \E link \in Links \cup {NoLink} : LinkImportUrl(link)
  \/ \E captions \in BOOLEAN : LinkImportUseCaptions(captions)
  \/ LinkImportResolve \/ LinkImportConfirm \/ LinkImportTranscribeToDictate
  \/ \E message \in progress : LinkImportProgress(message)
  \/ TranscribeFile \/ StartRecording \/ StopRecording \/ Dictated
  \/ EnterNoteDesk \/ BackToDictate \/ NoteDeskExport
  \/ \E task \in importTasks :
       \/ LinkImportResolved(task) \/ LinkImportImported(task) \/ FileTranscribed(task)
       \/ NoteDeskExportDone(task)
       \/ DownloadAudio(task) \/ TranscribeImport(task) \/ TranscribeUrl(task) \/ Answer(task)

LinkSpec == LinkInit /\ [][LinkNext]_linkVars

-----------------------------------------------------------------------------
LinkTypeOK ==
  /\ importTasks \subseteq LinkTask /\ progress \subseteq Progress
  /\ dialog = Closed \/ dialog \in Dialog
  /\ noteDesk = NoDesk \/ noteDesk \in Desk
  /\ status \in {"none", "importing", "recording", "transcribing", "complete", "failed", "dictated"}
  /\ shown \in 0..started /\ recorded \subseteq 1..started /\ wavs \subseteq 1..started
  /\ spoiled \subseteq wavs /\ opened \in 0..MaxDialogs /\ started \in 0..MaxTasks
  /\ isRecording \in BOOLEAN /\ foreign \in BOOLEAN /\ overlapped \in BOOLEAN

\* The dialog waits for exactly what is under way for it: its resolve, its import
\* (link_import.rs: "a status shown in the footer while an import runs ... None
\* when idle") -- until an answer meets a dialog it is not of, progress is handled
\* after the answer it led to, or a second resolve is sent with Enter.
DialogFits ==
  dialog # Closed /\ ~foreign =>
    /\ dialog.resolving <=> \E task \in importTasks : task.kind = "resolve" /\ task.of = opened
    /\ dialog.importing # "none" <=> \E task \in Imports : task.of = opened

\* No temporary audio outlives its task: a WAV on disk is of a transcription in
\* progress, or of one that failed after the download on the two ways that leave it.
WavsRemoved ==
  \A no \in wavs \ spoiled :
    \E task \in importTasks : task.no = no /\ task.stage = "audio"

\* Nothing is waited for that is not under way: the Dictate screen says "recording",
\* "importing" or "transcribing" exactly while the recorder, an import or a transcription
\* to it runs, and what it shows is recorded, while no two of these and a dictation
\* overlap; and a note desk never waits for an export that has been answered, whichever
\* desk asked for it.
ScreenFits ==
  /\ ~overlapped =>
       /\ status = "recording" <=> isRecording
       /\ status = "importing" <=> Imports # {}
       /\ status = "transcribing" <=> \E task \in importTasks : ToScreen(task)
       /\ status = "complete" => shown \in recorded
  /\ (noteDesk # NoDesk /\ noteDesk.export = "exporting") =>
       \E task \in importTasks : task.kind = "export"

\* Answers meet the dialog and the screens they were asked from, but for those
\* that DialogFits and ScreenFits name.
LinkFits == DialogFits /\ ScreenFits
=============================================================================
