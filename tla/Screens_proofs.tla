----------------------------- MODULE Screens_proofs -----------------------------
(***************************************************************************)
(* What is proved of the Hub's screens, each for itself: the link dialog   *)
(* (LinkImport), the Models tab (ModelStore, ModelSearch, HfLogin), the    *)
(* speakers (SpeakerDb, Speakers) and the Settings (Devices, WorkerBoot,   *)
(* Secrets).                                                               *)
(***************************************************************************)
EXTENDS LinkImport, ModelStore, ModelSearch, HfLogin, Speakers, Devices, WorkerBoot, Secrets,
        FiniteSetTheorems, SequenceTheorems, WellFoundedInduction, TLAPS

(***************************************************************************)
(* LinkImport, for any links and any number of dialogs and of tasks: types, *)
(* the temporary audio, the dialog and the screens.                        *)
(***************************************************************************)
(* Tasks are told apart by their numbers, and progress is that of an import. *)
Numbered ==
  /\ \A t \in importTasks : t.no \in 1..started /\ t.of \in 0..opened
  /\ \A t, u \in importTasks : t.no = u.no => t = u
  /\ \A m \in progress : /\ m.task \in 1..started
                         /\ \A t \in importTasks : t.no = m.task => t.kind = "import" /\ t.of = m.of

(* Only what downloads has audio on disk to transcribe, and what has left its *)
(* audio behind has failed.                                                   *)
AudioOnDisk ==
  \A t \in importTasks :
    /\ t.stage = "audio" => t.no \in wavs /\ (t.kind = "import" \/ t.kind = "dictate")
    /\ t.no \in spoiled => t.stage = "error"

(* The dialog that is open, or was open last, waits for one task of a kind. *)
OneOfKind ==
  ~foreign => \A t, u \in importTasks :
    /\ t.kind = u.kind /\ t.of = opened /\ u.of = opened
    /\ t.kind = "resolve" \/ t.kind = "import"
    => t = u

(* One transcription at a time, and none beside the recorder, while nothing has overlapped. *)
OneTranscription ==
  ~overlapped =>
    /\ \A t, u \in importTasks : t.kind \in Transcribing /\ u.kind \in Transcribing => t = u
    /\ isRecording => \A t \in importTasks : t.kind \notin Transcribing

-----------------------------------------------------------------------------
(* What an action does to the tasks: starts one, ends one, takes one on.     *)

Begun(kind) ==
  /\ started' = started + 1 /\ started' \in 1..MaxTasks
  /\ \E new \in LinkTask :
       /\ importTasks' = importTasks \cup {new}
       /\ new.no = started' /\ new.kind = kind /\ new.of = opened /\ new.stage = "running"

TaskEnded(task) ==
  /\ task \in importTasks /\ importTasks' = importTasks \ {task} /\ started' = started

TakenOn(task, stage) ==
  /\ task \in importTasks /\ started' = started
  /\ \E new \in LinkTask :
       /\ importTasks' = (importTasks \ {task}) \cup {new}
       /\ new.no = task.no /\ new.kind = task.kind /\ new.of = task.of /\ new.stage = stage

Kinds == {"resolve", "import", "dictate", "file", "export"}
TaskStages == {"running", "audio", "ok", "error"}

LEMMA StartBegins ==
  ASSUME LinkTypeOK, NEW kind \in Kinds, NEW link \in Media, NEW title \in Media,
         NEW captions \in BOOLEAN, StartTask(kind, link, title, captions)
  PROVE  Begun(kind)
<1> DEFINE new == [no |-> started', kind |-> kind, of |-> opened, link |-> link, title |-> title,
                   captions |-> captions, stage |-> "running"]
<1>1. started' = started + 1 /\ started' \in 1..MaxTasks
  BY LinkBounds DEF StartTask, LinkTypeOK
<1>2. new \in LinkTask
  BY <1>1 DEF LinkTask, LinkTypeOK, Kinds
<1>3. new.no = started' /\ new.kind = kind /\ new.of = opened /\ new.stage = "running"
  OBVIOUS
<1>4. importTasks' = importTasks \cup {new}
  BY DEF StartTask
<1> HIDE DEF new
<1> QED
  BY <1>1, <1>2, <1>3, <1>4 DEF Begun

(* What overlaps is seen where it begins. *)
LEMMA OverlapSeen ==
  ASSUME LinkTypeOK, overlapped' = (overlapped \/ Overlaps)
  PROVE  /\ overlapped' \in BOOLEAN /\ (overlapped => overlapped')
         /\ overlapped' \/ (~isRecording /\ \A t \in importTasks : t.kind \notin Transcribing)
BY DEF LinkTypeOK, Overlaps

LEMMA StageTakesOn ==
  ASSUME LinkTypeOK, NEW task \in importTasks, NEW stage \in TaskStages, ToStage(task, stage),
         started' = started
  PROVE  TakenOn(task, stage)
<1> DEFINE new == [task EXCEPT !.stage = stage]
<1>1. task \in LinkTask
  BY DEF LinkTypeOK
<1>2. /\ new \in LinkTask
      /\ new.no = task.no /\ new.kind = task.kind /\ new.of = task.of /\ new.stage = stage
  BY <1>1 DEF LinkTask, TaskStages
<1>3. importTasks' = (importTasks \ {task}) \cup {new}
  BY DEF ToStage
<1> HIDE DEF new
<1> QED
  BY <1>2, <1>3 DEF TakenOn

LEMMA BegunTyped ==
  ASSUME LinkTypeOK, NEW kind, Begun(kind)
  PROVE  importTasks' \subseteq LinkTask /\ started' \in 0..MaxTasks /\ started <= started'
BY LinkBounds DEF LinkTypeOK, Begun

LEMMA TakenOnTyped ==
  ASSUME LinkTypeOK, NEW task, NEW stage, TakenOn(task, stage)
  PROVE  importTasks' \subseteq LinkTask /\ started' = started /\ task \in LinkTask
BY DEF LinkTypeOK, TakenOn

LEMMA LinkTypeInit == LinkInit => LinkTypeOK
<1> SUFFICES ASSUME LinkInit PROVE LinkTypeOK
  OBVIOUS
<1>1. foreign \in BOOLEAN /\ overlapped \in BOOLEAN
  BY DEF LinkInit
<1>2. opened \in 0..MaxDialogs /\ started \in 0..MaxTasks /\ shown \in 0..started
  BY LinkBounds DEF LinkInit
<1> QED
  BY <1>1, <1>2 DEF LinkInit, LinkTypeOK

LEMMA TaskProgress ==
  ASSUME NEW task \in LinkTask, NEW phase \in {"downloading", "transcribing"}
  PROVE  [task |-> task.no, of |-> task.of, phase |-> phase] \in Progress
BY DEF LinkTask, Progress

(* What an answer to a resolve does, apart: to the dialog, and to the rest.   *)
Offering(media, captions) ==
  [dialog EXCEPT !.resolving = FALSE, !.media = media, !.captions = captions]

Unresolved == [dialog EXCEPT !.resolving = FALSE, !.media = NoLink]

LEMMA ResolvedDialog ==
  ASSUME NEW task, LinkImportResolved(task)
  PROVE  \/ dialog = Closed /\ dialog' = dialog
         \/ dialog # Closed /\ \E hasCaptions \in BOOLEAN : dialog' = Offering(task.link, hasCaptions)
         \/ dialog # Closed /\ dialog' = Unresolved
BY Zenon DEF LinkImportResolved, Offering, Unresolved

LEMMA ResolvedRest ==
  ASSUME NEW task, LinkImportResolved(task)
  PROVE  /\ task.kind = "resolve" /\ importTasks' = importTasks \ {task}
         /\ foreign' = (foreign \/ (dialog # Closed /\ task.of # opened))
         /\ UNCHANGED <<Screen, Files, opened, started, overlapped>>
BY Zenon DEF LinkImportResolved

LEMMA ResolvedTyped ==
  ASSUME LinkTypeOK, NEW task \in LinkTask, LinkImportResolved(task)
  PROVE  /\ dialog = Closed => dialog' = Closed
         /\ dialog # Closed => /\ dialog' \in Dialog
                               /\ dialog'.resolving = FALSE /\ dialog'.importing = dialog.importing
<1>1. CASE dialog = Closed
  BY <1>1, ResolvedDialog
<1>2. CASE dialog # Closed
  <2>1. dialog \in Dialog /\ task.link \in Media /\ NoLink \in Media
    BY <1>2 DEF LinkTypeOK, LinkTask, Media
  <2>2. ASSUME NEW media \in Media, NEW captions \in BOOLEAN
        PROVE  /\ Offering(media, captions) \in Dialog
               /\ Offering(media, captions).resolving = FALSE
               /\ Offering(media, captions).importing = dialog.importing
    BY <2>1 DEF Dialog, Offering
  <2>3. Unresolved \in Dialog /\ Unresolved.resolving = FALSE /\ Unresolved.importing = dialog.importing
    BY <2>1 DEF Dialog, Unresolved
  <2>4. (\E captions \in BOOLEAN : dialog' = Offering(task.link, captions)) \/ dialog' = Unresolved
    BY <1>2, ResolvedDialog
  <2>5. CASE dialog' = Unresolved
    BY <1>2, <2>3, <2>5
  <2>6. ASSUME NEW captions \in BOOLEAN, dialog' = Offering(task.link, captions)
        PROVE  /\ dialog' \in Dialog
               /\ dialog'.resolving = FALSE /\ dialog'.importing = dialog.importing
    BY <2>1, <2>2, <2>6
  <2> QED
    BY <1>2, <2>4, <2>5, <2>6
<1> QED
  BY <1>1, <1>2

LEMMA LinkTypeStep ==
  ASSUME LinkTypeOK, Numbered, AudioOnDisk, [LinkNext]_linkVars
  PROVE  LinkTypeOK'
<1> USE LinkBounds DEF LinkTypeOK, Screen, Files
<1>1. CASE LinkImportOpen
  BY <1>1 DEF LinkImportOpen, Media, Dialog
<1>2. CASE LinkImportCancel
  BY <1>2 DEF LinkImportCancel
<1>3. CASE \E link \in Links \cup {NoLink} : LinkImportUrl(link)
  BY <1>3 DEF LinkImportUrl, Dialog
<1>4. CASE LinkImportResolve
  <2>1. dialog.url \in Media
    BY <1>4 DEF LinkImportResolve, Media, Dialog
  <2>2. Begun("resolve")
    BY <1>4, <2>1, StartBegins DEF LinkImportResolve, Kinds
  <2>3. importTasks' \subseteq LinkTask /\ started' \in 0..MaxTasks /\ started <= started'
    BY <2>2, BegunTyped
  <2>4. dialog' \in Dialog
    BY <1>4 DEF LinkImportResolve, Dialog
  <2>5. foreign' \in BOOLEAN
    BY <1>4 DEF LinkImportResolve
  <2> QED
    BY <1>4, <2>2, <2>3, <2>4, <2>5 DEF LinkImportResolve
<1>5. CASE \E captions \in BOOLEAN : LinkImportUseCaptions(captions)
  BY <1>5 DEF LinkImportUseCaptions, Dialog
<1>6. CASE LinkImportConfirm
  <2>1. dialog.url \in Media /\ dialog.media \in Media /\ dialog.captions \in BOOLEAN
    BY <1>6 DEF LinkImportConfirm, Confirmable, Media, Dialog
  <2>2. (IF dialog.captions THEN dialog.media ELSE dialog.url) \in Media
    BY <2>1
  <2>3. Begun("import")
    BY <1>6, <2>1, <2>2, StartBegins DEF LinkImportConfirm, Kinds
  <2>4. importTasks' \subseteq LinkTask /\ started' \in 0..MaxTasks /\ started <= started'
    BY <2>3, BegunTyped
  <2>5. overlapped' \in BOOLEAN
    BY <1>6, OverlapSeen DEF LinkImportConfirm
  <2> QED
    BY <1>6, <2>3, <2>4, <2>5 DEF LinkImportConfirm, Confirmable, Dialog
<1>7. CASE LinkImportTranscribeToDictate
  <2>1. dialog.url \in Media /\ dialog.media \in Media
    BY <1>7 DEF LinkImportTranscribeToDictate, Confirmable, Media, Dialog
  <2>2. Begun("dictate")
    BY <1>7, <2>1, StartBegins DEF LinkImportTranscribeToDictate, Kinds
  <2>3. importTasks' \subseteq LinkTask /\ started' \in 0..MaxTasks /\ started <= started'
    BY <2>2, BegunTyped
  <2>4. overlapped' \in BOOLEAN
    BY <1>7, OverlapSeen DEF LinkImportTranscribeToDictate
  <2> QED
    BY <1>7, <2>2, <2>3, <2>4 DEF LinkImportTranscribeToDictate
<1>8. CASE \E message \in progress : LinkImportProgress(message)
  <2>1. PICK message \in progress : LinkImportProgress(message)
    BY <1>8
  <2>2. message.phase \in {"downloading", "transcribing"}
    BY DEF Progress
  <2>3. dialog' = Closed \/ dialog' \in Dialog
    BY <2>1, <2>2 DEF LinkImportProgress, Dialog
  <2>4. foreign' \in BOOLEAN
    BY <2>1 DEF LinkImportProgress
  <2> QED
    BY <2>1, <2>3, <2>4 DEF LinkImportProgress
<1>9. CASE TranscribeFile
  <2>1. NoLink \in Media
    BY DEF Media
  <2>2. Begun("file")
    BY <1>9, <2>1, StartBegins DEF TranscribeFile, Kinds
  <2>3. importTasks' \subseteq LinkTask /\ started' \in 0..MaxTasks /\ started <= started'
    BY <2>2, BegunTyped
  <2>4. overlapped' \in BOOLEAN
    BY <1>9, OverlapSeen DEF TranscribeFile
  <2> QED
    BY <1>9, <2>2, <2>3, <2>4 DEF TranscribeFile
<1>10. CASE Dictated
  <2>1. overlapped' \in BOOLEAN
    BY <1>10, OverlapSeen DEF Dictated
  <2> QED
    BY <1>10, <2>1 DEF Dictated
<1>10c. CASE StartRecording
  <2>1. overlapped' \in BOOLEAN
    BY <1>10c, OverlapSeen DEF StartRecording
  <2>2. isRecording' \in BOOLEAN
    BY <1>10c DEF StartRecording
  <2> QED
    BY <1>10c, <2>1, <2>2 DEF StartRecording
<1>10b. CASE StopRecording
  <2>1. isRecording' \in BOOLEAN
    BY <1>10b DEF StopRecording
  <2>2. CASE StartTask("file", NoLink, NoLink, FALSE) /\ status' = "transcribing" /\ shown' = 0
    <3>1. NoLink \in Media
      BY DEF Media
    <3>2. Begun("file")
      BY <2>2, <3>1, StartBegins DEF Kinds
    <3>3. importTasks' \subseteq LinkTask /\ started' \in 0..MaxTasks /\ started <= started'
      BY <3>2, BegunTyped
    <3> QED
      BY <1>10b, <2>1, <2>2, <3>3 DEF StopRecording
  <2>3. CASE status' = "failed" /\ UNCHANGED <<importTasks, started, shown>>
    BY <1>10b, <2>1, <2>3 DEF StopRecording
  <2> QED
    BY <1>10b, <2>2, <2>3 DEF StopRecording
<1>10a. CASE BackToDictate
  BY <1>10a DEF BackToDictate
<1>11. CASE EnterNoteDesk
  BY <1>11 DEF EnterNoteDesk, Media, Desk
<1>12. CASE NoteDeskExport
  <2>1. Begun("export")
    BY <1>12, StartBegins DEF NoteDeskExport, Kinds, Desk
  <2>2. importTasks' \subseteq LinkTask /\ started' \in 0..MaxTasks /\ started <= started'
    BY <2>1, BegunTyped
  <2> QED
    BY <1>12, <2>1, <2>2 DEF NoteDeskExport, Desk
<1>13. ASSUME NEW task \in importTasks, LinkImportResolved(task) PROVE LinkTypeOK'
  <2>1. foreign' \in BOOLEAN
    BY <1>13, ResolvedRest
  <2>2. dialog' = Closed \/ dialog' \in Dialog
    BY <1>13, ResolvedTyped
  <2> QED
    BY <1>13, <2>1, <2>2, ResolvedRest
<1>14. ASSUME NEW task \in importTasks, LinkImportImported(task) PROVE LinkTypeOK'
  <2>1. foreign' \in BOOLEAN
    BY <1>14 DEF LinkImportImported
  <2>2. task.link \in Media /\ task.title \in Media
    BY DEF LinkTask
  <2>3. dialog' = Closed \/ dialog' \in Dialog
    BY <1>14 DEF LinkImportImported, Dialog
  <2>4. noteDesk' = NoDesk \/ noteDesk' \in Desk
    BY <1>14, <2>2 DEF LinkImportImported, Desk
  <2>5. recorded' \subseteq 1..started
    BY <1>14 DEF LinkImportImported, Numbered
  <2> QED
    BY <1>14, <2>1, <2>3, <2>4, <2>5 DEF LinkImportImported
<1>15. ASSUME NEW task \in importTasks, FileTranscribed(task) PROVE LinkTypeOK'
  <2>1. task.no \in 1..started
    BY DEF Numbered
  <2>2. shown' \in 0..started /\ recorded' \subseteq 1..started
    <3>1. CASE task.stage = "ok"
      <4>1. shown' = task.no /\ recorded' = recorded \cup {task.no}
        BY <1>15, <3>1 DEF FileTranscribed
      <4>2. task.no \in 0..started
        BY <2>1
      <4> QED
        BY <2>1, <4>1, <4>2
    <3>2. CASE task.stage # "ok"
      BY <1>15, <3>2 DEF FileTranscribed
    <3> QED
      BY <3>1, <3>2
  <2>3. importTasks' \subseteq LinkTask
    BY <1>15 DEF FileTranscribed
  <2> QED
    BY <1>15, <2>2, <2>3 DEF FileTranscribed
<1>16. ASSUME NEW task \in importTasks, NoteDeskExportDone(task) PROVE LinkTypeOK'
  BY <1>16 DEF NoteDeskExportDone, Desk
<1>17. ASSUME NEW task \in importTasks, NEW stage \in TaskStages, ToStage(task, stage), started' = started
       PROVE  importTasks' \subseteq LinkTask
  BY <1>17, StageTakesOn, TakenOnTyped
<1>18. ASSUME NEW task \in importTasks, DownloadAudio(task) PROVE LinkTypeOK'
  <2>1. importTasks' \subseteq LinkTask
    BY <1>17, <1>18 DEF DownloadAudio, TaskStages
  <2>2. progress' \subseteq Progress
    BY <1>18, TaskProgress DEF DownloadAudio
  <2>3. wavs' \subseteq 1..started /\ spoiled' \subseteq wavs'
    BY <1>18 DEF DownloadAudio, Numbered
  <2> QED
    BY <1>18, <2>1, <2>2, <2>3 DEF DownloadAudio
<1>19. ASSUME NEW task \in importTasks, TranscribeImport(task) PROVE LinkTypeOK'
  <2>1. importTasks' \subseteq LinkTask
    BY <1>17, <1>19 DEF TranscribeImport, TaskStages
  <2>2. progress' \subseteq Progress
    BY <1>19, TaskProgress DEF TranscribeImport
  <2>3. wavs' \subseteq 1..started /\ spoiled' \subseteq wavs'
    BY <1>19 DEF TranscribeImport, AudioOnDisk
  <2> QED
    BY <1>19, <2>1, <2>2, <2>3 DEF TranscribeImport
<1>20. ASSUME NEW task \in importTasks, TranscribeUrl(task) \/ Answer(task) PROVE LinkTypeOK'
  <2>1. importTasks' \subseteq LinkTask
    BY <1>17, <1>20 DEF TranscribeUrl, Answer, TaskStages
  <2>2. wavs' \subseteq 1..started /\ spoiled' \subseteq wavs'
    BY <1>20 DEF TranscribeUrl, Answer, AudioOnDisk
  <2> QED
    BY <1>20, <2>1, <2>2 DEF TranscribeUrl, Answer
<1>21. CASE UNCHANGED linkVars
  BY <1>21 DEF linkVars
<1> QED
  BY <1>1, <1>2, <1>3, <1>4, <1>5, <1>6, <1>7, <1>8, <1>9, <1>10, <1>10a, <1>10b, <1>10c, <1>11, <1>12, <1>13,
     <1>14, <1>15, <1>16, <1>18, <1>19, <1>20, <1>21 DEF LinkNext

-----------------------------------------------------------------------------
(* The four shapes of a step, with what the invariants need to know of it.   *)

KeepsHistory == (foreign => foreign') /\ (overlapped => overlapped')

Quiet ==
  /\ UNCHANGED <<importTasks, started, wavs, spoiled>> /\ KeepsHistory
  /\ progress' \subseteq progress /\ opened' \in {opened, opened + 1}
  /\ isRecording' => isRecording \/ overlapped' \/ \A t \in importTasks : t.kind \notin Transcribing

Begins(kind) ==
  /\ Begun(kind) /\ UNCHANGED <<progress, opened, wavs, spoiled>> /\ KeepsHistory
  /\ kind = "resolve" => dialog # Closed /\ (foreign' \/ ~dialog.resolving)
  /\ kind = "import" => dialog # Closed /\ dialog.importing = "none"
  /\ isRecording' => isRecording
  /\ kind \in Transcribing =>
       \/ overlapped'
       \/ ~isRecording' /\ (isRecording \/ \A t \in importTasks : t.kind \notin Transcribing)

Ends(task) ==
  /\ TaskEnded(task) /\ UNCHANGED <<progress, opened, wavs, spoiled, isRecording>> /\ KeepsHistory
  /\ task.stage = "audio" => task.kind \in {"resolve", "export"}

Proceeds(task, stage) ==
  /\ TakenOn(task, stage) /\ UNCHANGED <<opened, foreign, overlapped, isRecording>>
  /\ task.stage \in {"running", "audio"}
  /\ \A m \in progress' \ progress : task.kind = "import" /\ m.task = task.no /\ m.of = task.of
  /\ \A no \in wavs' \ wavs : no = task.no
  /\ \A no \in wavs \ wavs' : no = task.no
  /\ \A no \in spoiled' \ spoiled : no = task.no /\ stage = "error"
  /\ spoiled \subseteq spoiled'
  /\ stage = "audio" => task.no \in wavs' /\ (task.kind = "import" \/ task.kind = "dictate")
  /\ stage # "audio" => \/ task.no \notin wavs' \ spoiled'
                        \/ wavs' = wavs /\ spoiled' = spoiled /\ task.stage = "running"

LEMMA ActionBegins ==
  ASSUME LinkTypeOK,
         \/ LinkImportResolve \/ LinkImportConfirm \/ LinkImportTranscribeToDictate
         \/ TranscribeFile \/ NoteDeskExport
         \/ StopRecording /\ StartTask("file", NoLink, NoLink, FALSE)
  PROVE  \E kind \in Kinds : Begins(kind)
<1> USE DEF LinkTypeOK, Screen, Files, Begins, KeepsHistory
<1>1. CASE LinkImportResolve
  <2>1. dialog.url \in Media
    BY <1>1 DEF LinkImportResolve, Media, Dialog
  <2>2. Begun("resolve")
    BY <1>1, <2>1, StartBegins DEF LinkImportResolve, Kinds
  <2>3. Begins("resolve")
    BY <1>1, <2>2 DEF LinkImportResolve, Transcribing
  <2> QED
    BY <2>3 DEF Kinds
<1>2. CASE LinkImportConfirm
  <2>1. dialog.url \in Media /\ dialog.media \in Media /\ dialog.captions \in BOOLEAN
    BY <1>2 DEF LinkImportConfirm, Confirmable, Media, Dialog
  <2>2. (IF dialog.captions THEN dialog.media ELSE dialog.url) \in Media
    BY <2>1
  <2>3. Begun("import")
    BY <1>2, <2>1, <2>2, StartBegins DEF LinkImportConfirm, Kinds
  <2>4. Begins("import")
    BY <1>2, <2>3, OverlapSeen DEF LinkImportConfirm, Confirmable, Transcribing
  <2> QED
    BY <2>4 DEF Kinds
<1>3. CASE LinkImportTranscribeToDictate
  <2>1. dialog.url \in Media /\ dialog.media \in Media
    BY <1>3 DEF LinkImportTranscribeToDictate, Confirmable, Media, Dialog
  <2>2. Begun("dictate")
    BY <1>3, <2>1, StartBegins DEF LinkImportTranscribeToDictate, Kinds
  <2>3. Begins("dictate")
    BY <1>3, <2>2, OverlapSeen DEF LinkImportTranscribeToDictate, Transcribing
  <2> QED
    BY <2>3 DEF Kinds
<1>4. CASE TranscribeFile
  <2>1. NoLink \in Media
    BY DEF Media
  <2>2. Begun("file")
    BY <1>4, <2>1, StartBegins DEF TranscribeFile, Kinds
  <2>3. Begins("file")
    BY <1>4, <2>2, OverlapSeen DEF TranscribeFile, Transcribing
  <2> QED
    BY <2>3 DEF Kinds
<1>5. CASE NoteDeskExport
  <2>1. Begun("export")
    BY <1>5, StartBegins DEF NoteDeskExport, Kinds, Desk
  <2>2. Begins("export")
    BY <1>5, <2>1 DEF NoteDeskExport, Transcribing
  <2> QED
    BY <2>2 DEF Kinds
<1>6. CASE StopRecording /\ StartTask("file", NoLink, NoLink, FALSE)
  <2>1. NoLink \in Media
    BY DEF Media
  <2>2. Begun("file")
    BY <1>6, <2>1, StartBegins DEF Kinds
  <2>3. Begins("file")
    BY <1>6, <2>2 DEF StopRecording, Transcribing
  <2> QED
    BY <2>3 DEF Kinds
<1> QED
  BY <1>1, <1>2, <1>3, <1>4, <1>5, <1>6

LEMMA ActionEnds ==
  ASSUME LinkTypeOK, NEW task \in importTasks,
         \/ LinkImportResolved(task) \/ LinkImportImported(task) \/ FileTranscribed(task)
         \/ NoteDeskExportDone(task)
  PROVE  Ends(task)
<1> USE DEF Ends, TaskEnded, KeepsHistory, Screen, Files
<1>1. CASE LinkImportResolved(task)
  BY <1>1, ResolvedRest DEF LinkTypeOK
<1>2. CASE LinkImportImported(task)
  BY <1>2 DEF LinkImportImported
<1>3. CASE FileTranscribed(task)
  BY <1>3 DEF FileTranscribed
<1>4. CASE NoteDeskExportDone(task)
  BY <1>4 DEF NoteDeskExportDone
<1> QED
  BY <1>1, <1>2, <1>3, <1>4

LEMMA ActionProceeds ==
  ASSUME LinkTypeOK, NEW task \in importTasks,
         DownloadAudio(task) \/ TranscribeImport(task) \/ TranscribeUrl(task) \/ Answer(task)
  PROVE  \E stage \in TaskStages : Proceeds(task, stage)
<1> USE DEF Proceeds, Screen, Files
<1>1. \A stage \in TaskStages : ToStage(task, stage) /\ started' = started => TakenOn(task, stage)
  BY StageTakesOn
<1>2. CASE DownloadAudio(task)
  <2>1. CASE ToStage(task, "audio") /\ wavs' = wavs \cup {task.no} /\ UNCHANGED spoiled
    BY <1>1, <1>2, <2>1 DEF DownloadAudio, TaskStages
  <2>2. CASE ToStage(task, "error") /\ UNCHANGED <<wavs, spoiled>>
    BY <1>1, <1>2, <2>2 DEF DownloadAudio, TaskStages
  <2>3. CASE /\ ToStage(task, "error")
             /\ wavs' = wavs \cup {task.no} /\ spoiled' = spoiled \cup {task.no}
    BY <1>1, <1>2, <2>3 DEF DownloadAudio, TaskStages
  <2> QED
    BY <1>2, <2>1, <2>2, <2>3 DEF DownloadAudio
<1>3. CASE TranscribeImport(task)
  <2>1. CASE ToStage(task, "ok") /\ wavs' = wavs \ {task.no} /\ UNCHANGED spoiled
    BY <1>1, <1>3, <2>1 DEF TranscribeImport, TaskStages
  <2>2. CASE ToStage(task, "error") /\ UNCHANGED wavs /\ spoiled' = spoiled \cup {task.no}
    BY <1>1, <1>3, <2>2 DEF TranscribeImport, TaskStages
  <2> QED
    BY <1>3, <2>1, <2>2 DEF TranscribeImport
<1>4. CASE TranscribeUrl(task)
  BY <1>1, <1>4 DEF TranscribeUrl, TaskStages
<1>5. CASE Answer(task)
  BY <1>1, <1>5 DEF Answer, TaskStages
<1> QED
  BY <1>2, <1>3, <1>4, <1>5

LEMMA Shapes ==
  ASSUME LinkTypeOK, [LinkNext]_linkVars
  PROVE  \/ Quiet
         \/ \E kind \in Kinds : Begins(kind)
         \/ \E task \in importTasks : Ends(task)
         \/ \E task \in importTasks, stage \in TaskStages : Proceeds(task, stage)
<1> USE DEF Quiet, KeepsHistory, Screen, Files, LinkTypeOK
<1>1. CASE LinkImportOpen \/ LinkImportCancel \/ EnterNoteDesk \/ BackToDictate \/ Dictated
  BY <1>1 DEF LinkImportOpen, LinkImportCancel, EnterNoteDesk, BackToDictate, Dictated
<1>2. CASE \E link \in Links \cup {NoLink} : LinkImportUrl(link)
  BY <1>2 DEF LinkImportUrl
<1>3. CASE \E captions \in BOOLEAN : LinkImportUseCaptions(captions)
  BY <1>3 DEF LinkImportUseCaptions
<1>4. CASE \E message \in progress : LinkImportProgress(message)
  BY <1>4 DEF LinkImportProgress
<1>5. CASE UNCHANGED linkVars
  BY <1>5 DEF linkVars
<1>6. CASE StartRecording
  BY <1>6, OverlapSeen DEF StartRecording
<1>7. CASE StopRecording /\ ~StartTask("file", NoLink, NoLink, FALSE)
  BY <1>7 DEF StopRecording
<1> QED
  BY <1>1, <1>2, <1>3, <1>4, <1>5, <1>6, <1>7, ActionBegins, ActionEnds, ActionProceeds DEF LinkNext

-----------------------------------------------------------------------------
LEMMA NumberedStep ==
  ASSUME LinkTypeOK, Numbered, [LinkNext]_linkVars
  PROVE  Numbered'
<1>0. started \in Nat /\ opened \in Nat
  BY LinkBounds DEF LinkTypeOK
<1>1. CASE Quiet
  BY <1>0, <1>1 DEF Quiet, Numbered
<1>2. ASSUME NEW kind \in Kinds, Begins(kind) PROVE Numbered'
  <2>1. PICK new \in LinkTask :
          importTasks' = importTasks \cup {new} /\ new.no = started' /\ new.of = opened
    BY <1>2 DEF Begins, Begun
  <2>2. started' = started + 1 /\ UNCHANGED <<progress, opened>>
    BY <1>2 DEF Begins, Begun
  <2>3. \A t \in importTasks' : t.no \in 1..started' /\ t.of \in 0..opened'
    BY <1>0, <2>1, <2>2 DEF Numbered
  <2>4. \A t, u \in importTasks' : t.no = u.no => t = u
    BY <1>0, <2>1, <2>2 DEF Numbered
  <2>5. \A m \in progress' : /\ m.task \in 1..started'
                            /\ \A t \in importTasks' : t.no = m.task => t.kind = "import" /\ t.of = m.of
    BY <1>0, <2>1, <2>2 DEF Numbered
  <2> QED
    BY <2>3, <2>4, <2>5 DEF Numbered
<1>3. ASSUME NEW task \in importTasks, Ends(task) PROVE Numbered'
  BY <1>3 DEF Ends, TaskEnded, Numbered
<1>4. ASSUME NEW task \in importTasks, NEW stage \in TaskStages, Proceeds(task, stage) PROVE Numbered'
  <2>1. PICK new \in LinkTask :
          /\ importTasks' = (importTasks \ {task}) \cup {new}
          /\ new.no = task.no /\ new.kind = task.kind /\ new.of = task.of
    BY <1>4 DEF Proceeds, TakenOn
  <2>2. UNCHANGED <<started, opened>>
    BY <1>4 DEF Proceeds, TakenOn
  <2>3. \A t \in importTasks' : t.no \in 1..started' /\ t.of \in 0..opened'
    BY <2>1, <2>2 DEF Numbered
  <2>4. \A t, u \in importTasks' : t.no = u.no => t = u
    BY <2>1 DEF Numbered
  <2>5. ASSUME NEW m \in progress'
        PROVE  /\ m.task \in 1..started'
               /\ \A t \in importTasks' : t.no = m.task => t.kind = "import" /\ t.of = m.of
    <3>1. CASE m \in progress
      BY <2>1, <2>2, <3>1 DEF Numbered
    <3>2. CASE m \notin progress
      <4>1. task.kind = "import" /\ m.task = task.no /\ m.of = task.of
        BY <1>4, <3>2 DEF Proceeds
      <4>2. \A t \in importTasks' : t.no = m.task => t = new
        BY <2>1, <2>4, <4>1
      <4> QED
        BY <2>1, <2>2, <4>1, <4>2 DEF Numbered
    <3> QED
      BY <3>1, <3>2
  <2> QED
    BY <2>3, <2>4, <2>5 DEF Numbered
<1> QED
  BY <1>1, <1>2, <1>3, <1>4, Shapes

LEMMA AudioOnDiskStep ==
  ASSUME LinkTypeOK, Numbered, AudioOnDisk, [LinkNext]_linkVars
  PROVE  AudioOnDisk'
<1>1. CASE Quiet
  BY <1>1 DEF Quiet, AudioOnDisk
<1>2. ASSUME NEW kind \in Kinds, Begins(kind) PROVE AudioOnDisk'
  <2>1. PICK new \in LinkTask :
          importTasks' = importTasks \cup {new} /\ new.no = started + 1 /\ new.stage = "running"
    BY <1>2 DEF Begins, Begun
  <2>2. new.no \notin spoiled
    BY <2>1, LinkBounds DEF LinkTypeOK
  <2>3. UNCHANGED <<wavs, spoiled>>
    BY <1>2 DEF Begins
  <2> QED
    BY <2>1, <2>2, <2>3 DEF AudioOnDisk
<1>3. ASSUME NEW task \in importTasks, Ends(task) PROVE AudioOnDisk'
  BY <1>3 DEF Ends, TaskEnded, AudioOnDisk
<1>4. ASSUME NEW task \in importTasks, NEW stage \in TaskStages, Proceeds(task, stage) PROVE AudioOnDisk'
  <2>1. PICK new \in LinkTask :
          /\ importTasks' = (importTasks \ {task}) \cup {new}
          /\ new.no = task.no /\ new.kind = task.kind /\ new.stage = stage
    BY <1>4 DEF Proceeds, TakenOn
  <2>2. ASSUME NEW t \in importTasks, t # task
        PROVE  /\ t.stage = "audio" => t.no \in wavs' /\ (t.kind = "import" \/ t.kind = "dictate")
               /\ t.no \in spoiled' => t.stage = "error"
    <3>1. t.no # task.no
      BY <2>2 DEF Numbered
    <3> QED
      BY <1>4, <2>2, <3>1 DEF Proceeds, AudioOnDisk
  <2>3. stage = "audio" => new.no \in wavs' /\ (new.kind = "import" \/ new.kind = "dictate")
    BY <1>4, <2>1 DEF Proceeds
  <2>4. task.no \notin spoiled
    BY <1>4 DEF Proceeds, AudioOnDisk
  <2>5. new.no \in spoiled' => stage = "error"
    BY <1>4, <2>1, <2>4 DEF Proceeds
  <2> QED
    BY <2>1, <2>2, <2>3, <2>5 DEF AudioOnDisk
<1> QED
  BY <1>1, <1>2, <1>3, <1>4, Shapes

LEMMA WavsRemovedStep ==
  ASSUME LinkTypeOK, Numbered, AudioOnDisk, WavsRemoved, [LinkNext]_linkVars
  PROVE  WavsRemoved'
<1>1. CASE Quiet
  BY <1>1 DEF Quiet, WavsRemoved
<1>2. ASSUME NEW kind \in Kinds, Begins(kind) PROVE WavsRemoved'
  BY <1>2 DEF Begins, Begun, WavsRemoved
<1>3. ASSUME NEW task \in importTasks, Ends(task) PROVE WavsRemoved'
  <2>1. task.stage # "audio"
    BY <1>3 DEF Ends, AudioOnDisk
  <2> QED
    BY <1>3, <2>1 DEF Ends, TaskEnded, WavsRemoved
<1>4. ASSUME NEW task \in importTasks, NEW stage \in TaskStages, Proceeds(task, stage),
             NEW no \in wavs' \ spoiled'
      PROVE  \E t \in importTasks' : t.no = no /\ t.stage = "audio"
  <2>1. PICK new \in LinkTask :
          /\ importTasks' = (importTasks \ {task}) \cup {new}
          /\ new.no = task.no /\ new.kind = task.kind /\ new.stage = stage
    BY <1>4 DEF Proceeds, TakenOn
  <2>2. CASE no = task.no /\ stage = "audio"
    BY <2>1, <2>2
  <2>3. CASE no = task.no /\ stage # "audio"
    <3>1. no \in wavs \ spoiled /\ task.stage = "running"
      BY <1>4, <2>3 DEF Proceeds
    <3>2. PICK t \in importTasks : t.no = no /\ t.stage = "audio"
      BY <3>1 DEF WavsRemoved
    <3>3. t = task
      BY <2>3, <3>2 DEF Numbered
    <3> QED
      BY <3>1, <3>2, <3>3
  <2>4. CASE no # task.no
    <3>1. no \in wavs \ spoiled
      BY <1>4, <2>4 DEF Proceeds
    <3>2. PICK t \in importTasks : t.no = no /\ t.stage = "audio"
      BY <3>1 DEF WavsRemoved
    <3> QED
      BY <2>1, <2>4, <3>2
  <2> QED
    BY <2>2, <2>3, <2>4
<1> QED
  BY <1>1, <1>2, <1>3, <1>4, Shapes DEF WavsRemoved

LEMMA TypedAndNumbered == LinkSpec => [](LinkTypeOK /\ Numbered /\ AudioOnDisk)
<1>1. LinkInit => LinkTypeOK /\ Numbered /\ AudioOnDisk
  BY LinkTypeInit DEF LinkInit, Numbered, AudioOnDisk
<1>2. LinkTypeOK /\ Numbered /\ AudioOnDisk /\ [LinkNext]_linkVars
        => (LinkTypeOK /\ Numbered /\ AudioOnDisk)'
  BY LinkTypeStep, NumberedStep, AudioOnDiskStep
<1> QED
  BY <1>1, <1>2, PTL DEF LinkSpec

(***************************************************************************)
(* For any links and any number of dialogs and tasks: a WAV on disk is of a *)
(* transcription in progress, or of a task that failed on one of the two    *)
(* ways start_import and download_audio do not clean up.                    *)
(***************************************************************************)
THEOREM NoAudioLeft == LinkSpec => []WavsRemoved
<1>1. LinkInit => WavsRemoved
  BY DEF LinkInit, WavsRemoved
<1>2. LinkTypeOK /\ Numbered /\ AudioOnDisk /\ WavsRemoved /\ [LinkNext]_linkVars => WavsRemoved'
  BY WavsRemovedStep
<1> QED
  BY <1>1, <1>2, TypedAndNumbered, PTL DEF LinkSpec

-----------------------------------------------------------------------------
(* What the dialog waits for.                                                *)

Awaits(kind) == \E task \in importTasks : task.kind = kind /\ task.of = opened

LEMMA FitsByAwaits ==
  DialogFits <=> (dialog # Closed /\ ~foreign =>
                    /\ dialog.resolving <=> Awaits("resolve")
                    /\ dialog.importing # "none" <=> Awaits("import"))
BY DEF DialogFits, Awaits, Imports

LEMMA AwaitsBegun ==
  ASSUME NEW kind, NEW first, Begun(first), opened' = opened
  PROVE  Awaits(kind)' <=> Awaits(kind) \/ kind = first
BY DEF Awaits, Begun

LEMMA AwaitsTakenOn ==
  ASSUME NEW kind, NEW task, NEW stage, TakenOn(task, stage), opened' = opened
  PROVE  Awaits(kind)' <=> Awaits(kind)
BY DEF Awaits, TakenOn

LEMMA AwaitsEnded ==
  ASSUME NEW kind \in {"resolve", "import"}, NEW task, TaskEnded(task), opened' = opened
  PROVE  /\ task.kind # kind \/ task.of # opened => (Awaits(kind)' <=> Awaits(kind))
         /\ task.kind = kind /\ task.of = opened /\ ~foreign /\ OneOfKind => ~Awaits(kind)'
<1>1. ASSUME task.kind # kind \/ task.of # opened PROVE Awaits(kind)' <=> Awaits(kind)
  BY <1>1 DEF Awaits, TaskEnded
<1>2. ASSUME task.kind = kind, task.of = opened, ~foreign, OneOfKind, Awaits(kind)' PROVE FALSE
  <2>1. PICK t \in importTasks \ {task} : t.kind = kind /\ t.of = opened
    BY <1>2 DEF Awaits, TaskEnded
  <2>2. t = task
    BY <1>2, <2>1 DEF OneOfKind, TaskEnded
  <2> QED
    BY <2>1, <2>2
<1> QED
  BY <1>1, <1>2

LEMMA OneOfKindStep ==
  ASSUME LinkTypeOK, Numbered, OneOfKind, DialogFits, [LinkNext]_linkVars
  PROVE  OneOfKind'
<1>0. started \in Nat /\ opened \in Nat
  BY LinkBounds DEF LinkTypeOK
<1>1. CASE Quiet
  BY <1>0, <1>1 DEF Quiet, KeepsHistory, OneOfKind, Numbered
<1>2. ASSUME NEW kind \in Kinds, Begins(kind) PROVE OneOfKind'
  <2>1. PICK new \in LinkTask :
          importTasks' = importTasks \cup {new} /\ new.kind = kind /\ new.of = opened
    BY <1>2 DEF Begins, Begun
  <2>2. opened' = opened /\ (foreign => foreign')
    BY <1>2 DEF Begins, KeepsHistory
  <2>3. ASSUME ~foreign', kind = "resolve" \/ kind = "import" PROVE ~Awaits(kind)
    BY <1>2, <2>2, <2>3, FitsByAwaits DEF Begins
  <2>4. ASSUME ~foreign', kind = "resolve" \/ kind = "import", NEW t \in importTasks,
               t.kind = kind, t.of = opened
        PROVE  FALSE
    BY <2>3, <2>4 DEF Awaits
  <2> QED
    BY <2>1, <2>2, <2>4 DEF OneOfKind
<1>3. ASSUME NEW task \in importTasks, Ends(task) PROVE OneOfKind'
  BY <1>3 DEF Ends, TaskEnded, KeepsHistory, OneOfKind
<1>4. ASSUME NEW task \in importTasks, NEW stage \in TaskStages, Proceeds(task, stage) PROVE OneOfKind'
  <2>1. PICK new \in LinkTask :
          /\ importTasks' = (importTasks \ {task}) \cup {new}
          /\ new.kind = task.kind /\ new.of = task.of
    BY <1>4 DEF Proceeds, TakenOn
  <2>2. UNCHANGED <<opened, foreign>>
    BY <1>4 DEF Proceeds
  <2> QED
    BY <2>1, <2>2 DEF OneOfKind
<1> QED
  BY <1>1, <1>2, <1>3, <1>4, Shapes

LEMMA OneTranscriptionStep ==
  ASSUME LinkTypeOK, OneTranscription, [LinkNext]_linkVars
  PROVE  OneTranscription'
<1>1. CASE Quiet
  BY <1>1 DEF Quiet, KeepsHistory, OneTranscription
<1>2. ASSUME NEW kind \in Kinds, Begins(kind) PROVE OneTranscription'
  <2>1. PICK new \in LinkTask : importTasks' = importTasks \cup {new} /\ new.kind = kind
    BY <1>2 DEF Begins, Begun
  <2> QED
    BY <1>2, <2>1 DEF Begins, KeepsHistory, OneTranscription
<1>3. ASSUME NEW task \in importTasks, Ends(task) PROVE OneTranscription'
  BY <1>3 DEF Ends, TaskEnded, KeepsHistory, OneTranscription
<1>4. ASSUME NEW task \in importTasks, NEW stage \in TaskStages, Proceeds(task, stage)
      PROVE  OneTranscription'
  <2>1. PICK new \in LinkTask :
          importTasks' = (importTasks \ {task}) \cup {new} /\ new.kind = task.kind
    BY <1>4 DEF Proceeds, TakenOn
  <2> QED
    BY <1>4, <2>1 DEF Proceeds, OneTranscription
<1> QED
  BY <1>1, <1>2, <1>3, <1>4, Shapes

(* A step that leaves the tasks of the dialog and what it waits for alone.   *)
LEMMA FitsAsBefore ==
  ASSUME DialogFits, foreign => foreign', dialog' # Closed => dialog # Closed,
         dialog' # Closed => dialog'.resolving = dialog.resolving /\ dialog'.importing = dialog.importing,
         Awaits("resolve")' <=> Awaits("resolve"), Awaits("import")' <=> Awaits("import")
  PROVE  DialogFits'
BY FitsByAwaits DEF DialogFits, Awaits, Imports

LEMMA DialogStep ==
  ASSUME LinkTypeOK, Numbered, OneOfKind, DialogFits, [LinkNext]_linkVars
  PROVE  DialogFits'
<1> USE DEF Screen, Files
<1>0. started \in Nat /\ opened \in Nat
  BY LinkBounds DEF LinkTypeOK
<1>1. CASE LinkImportOpen
  <2>1. ~Awaits("resolve")' /\ ~Awaits("import")'
    BY <1>0, <1>1 DEF LinkImportOpen, Awaits, Numbered
  <2>2. dialog'.resolving = FALSE /\ dialog'.importing = "none"
    BY <1>1 DEF LinkImportOpen
  <2> QED
    BY <2>1, <2>2 DEF DialogFits, Awaits, Imports
<1>2. CASE LinkImportCancel
  BY <1>2 DEF LinkImportCancel, DialogFits
<1>3. CASE \/ \E link \in Links \cup {NoLink} : LinkImportUrl(link)
           \/ \E captions \in BOOLEAN : LinkImportUseCaptions(captions)
  <2>1. /\ dialog' # Closed => dialog # Closed
        /\ dialog'.resolving = dialog.resolving /\ dialog'.importing = dialog.importing
        /\ UNCHANGED <<importTasks, opened, foreign>>
    BY <1>3 DEF LinkImportUrl, LinkImportUseCaptions, LinkTypeOK, Dialog
  <2> QED
    BY <2>1, FitsAsBefore DEF Awaits
<1>4. CASE LinkImportResolve
  <2>1. dialog.url \in Media
    BY <1>4 DEF LinkImportResolve, Media, Dialog, LinkTypeOK
  <2>2. Begun("resolve")
    BY <1>4, <2>1, StartBegins DEF LinkImportResolve, Kinds
  <2>3. Awaits("resolve")' /\ (Awaits("import")' <=> Awaits("import"))
    BY <1>4, <2>2, AwaitsBegun DEF LinkImportResolve
  <2>4. dialog'.resolving = TRUE /\ dialog'.importing = dialog.importing /\ dialog # Closed
    BY <1>4 DEF LinkImportResolve, LinkTypeOK, Dialog
  <2>5. foreign => foreign'
    BY <1>4 DEF LinkImportResolve
  <2> QED
    BY <2>3, <2>4, <2>5, FitsByAwaits DEF DialogFits, Awaits, Imports
<1>5. CASE LinkImportConfirm
  <2>1. dialog.url \in Media /\ dialog.media \in Media /\ dialog.captions \in BOOLEAN
    BY <1>5 DEF LinkImportConfirm, Confirmable, Media, Dialog, LinkTypeOK
  <2>2. (IF dialog.captions THEN dialog.media ELSE dialog.url) \in Media
    BY <2>1
  <2>3. Begun("import")
    BY <1>5, <2>1, <2>2, StartBegins DEF LinkImportConfirm, Kinds
  <2>4. Awaits("import")' /\ (Awaits("resolve")' <=> Awaits("resolve"))
    BY <1>5, <2>3, AwaitsBegun DEF LinkImportConfirm
  <2>5. dialog'.resolving = dialog.resolving /\ dialog'.importing # "none" /\ dialog # Closed
    BY <1>5 DEF LinkImportConfirm, Confirmable, LinkTypeOK, Dialog
  <2>6. foreign' = foreign
    BY <1>5 DEF LinkImportConfirm
  <2> QED
    BY <2>4, <2>5, <2>6, FitsByAwaits DEF DialogFits, Awaits, Imports
<1>6. CASE LinkImportTranscribeToDictate
  BY <1>6 DEF LinkImportTranscribeToDictate, DialogFits
<1>7. CASE TranscribeFile
  <2>1. NoLink \in Media
    BY DEF Media
  <2>2. Begun("file")
    BY <1>7, <2>1, StartBegins DEF TranscribeFile, Kinds
  <2>3. (Awaits("import")' <=> Awaits("import")) /\ (Awaits("resolve")' <=> Awaits("resolve"))
    BY <1>7, <2>2, AwaitsBegun DEF TranscribeFile
  <2> QED
    BY <1>7, <2>3, FitsAsBefore DEF TranscribeFile
<1>7a. CASE StopRecording
  BY <1>7a DEF StopRecording, DialogFits
<1>8. CASE NoteDeskExport
  <2>1. Begun("export")
    BY <1>8, StartBegins DEF NoteDeskExport, Kinds, Desk, LinkTypeOK
  <2>2. (Awaits("import")' <=> Awaits("import")) /\ (Awaits("resolve")' <=> Awaits("resolve"))
    BY <1>8, <2>1, AwaitsBegun DEF NoteDeskExport
  <2> QED
    BY <1>8, <2>2, FitsAsBefore DEF NoteDeskExport
<1>9. CASE Dictated \/ StartRecording \/ EnterNoteDesk \/ BackToDictate \/ UNCHANGED linkVars
  <2>1. UNCHANGED <<dialog, importTasks, opened, foreign>>
    BY <1>9 DEF Dictated, StartRecording, EnterNoteDesk, BackToDictate, linkVars
  <2> QED
    BY <2>1, FitsAsBefore DEF Awaits
<1>10. ASSUME NEW message \in progress, LinkImportProgress(message) PROVE DialogFits'
  <2>1. CASE dialog = Closed
    BY <1>10, <2>1 DEF LinkImportProgress, DialogFits
  <2>2. CASE dialog # Closed
    <3>1. /\ dialog'.resolving = dialog.resolving /\ dialog'.importing = message.phase
          /\ UNCHANGED <<importTasks, opened>>
      BY <1>10, <2>2 DEF LinkImportProgress, LinkTypeOK, Dialog
    <3>2. message.phase # "none"
      BY DEF LinkTypeOK, Progress
    <3>3. foreign => foreign'
      BY <1>10, <2>2 DEF LinkImportProgress
    <3>4. ASSUME ~foreign' PROVE Awaits("import")
      <4>1. message.of = opened /\ message.task \in {t.no : t \in importTasks}
        BY <1>10, <2>2, <3>4 DEF LinkImportProgress
      <4>2. PICK t \in importTasks : t.no = message.task
        BY <4>1
      <4> QED
        BY <4>1, <4>2 DEF Numbered, Awaits
    <3> QED
      BY <2>2, <3>1, <3>2, <3>3, <3>4, FitsByAwaits DEF DialogFits, Awaits, Imports
  <2> QED
    BY <2>1, <2>2
<1>11. ASSUME NEW task \in importTasks, LinkImportResolved(task) PROVE DialogFits'
  <2>1. TaskEnded(task) /\ opened' = opened /\ task.kind = "resolve" /\ task \in LinkTask
    BY <1>11, ActionEnds, ResolvedRest DEF Ends, LinkTypeOK
  <2>2. CASE dialog = Closed
    BY <1>11, <2>1, <2>2, ResolvedTyped DEF DialogFits
  <2>3. CASE dialog # Closed
    <3>1. dialog'.resolving = FALSE /\ dialog'.importing = dialog.importing
      BY <1>11, <2>1, <2>3, ResolvedTyped
    <3>2. Awaits("import")' <=> Awaits("import")
      BY <2>1, AwaitsEnded
    <3>3. (foreign => foreign') /\ (~foreign' => task.of = opened)
      BY <1>11, <2>3, ResolvedRest
    <3>4. ~foreign' => ~Awaits("resolve")'
      BY <2>1, <3>3, AwaitsEnded
    <3> QED
      BY <2>3, <3>1, <3>2, <3>3, <3>4, FitsByAwaits DEF DialogFits, Awaits, Imports
  <2> QED
    BY <2>2, <2>3
<1>12. ASSUME NEW task \in importTasks, LinkImportImported(task) PROVE DialogFits'
  <2>1. TaskEnded(task) /\ opened' = opened
    BY <1>12, ActionEnds DEF Ends
  <2>2. CASE dialog = Closed \/ task.stage = "ok"
    BY <1>12, <2>2 DEF LinkImportImported, DialogFits
  <2>3. CASE dialog # Closed /\ task.stage # "ok"
    <3>1. dialog'.resolving = dialog.resolving /\ dialog'.importing = "none"
      BY <1>12, <2>3 DEF LinkImportImported, LinkTypeOK, Dialog
    <3>2. Awaits("resolve")' <=> Awaits("resolve")
      BY <1>12, <2>1, AwaitsEnded DEF LinkImportImported
    <3>3. (foreign => foreign') /\ (~foreign' => task.of = opened)
      BY <1>12, <2>3 DEF LinkImportImported
    <3>4. ~foreign' => ~Awaits("import")'
      BY <1>12, <2>1, <3>3, AwaitsEnded DEF LinkImportImported
    <3> QED
      BY <2>3, <3>1, <3>2, <3>3, <3>4, FitsByAwaits DEF DialogFits, Awaits, Imports
  <2> QED
    BY <2>2, <2>3
<1>13. ASSUME NEW task \in importTasks, FileTranscribed(task) \/ NoteDeskExportDone(task)
       PROVE  DialogFits'
  <2>1. TaskEnded(task) /\ opened' = opened /\ UNCHANGED <<dialog, foreign>>
    BY <1>13, ActionEnds DEF Ends, FileTranscribed, NoteDeskExportDone
  <2>2. task.kind # "resolve" /\ task.kind # "import"
    BY <1>13 DEF FileTranscribed, NoteDeskExportDone, ToScreen
  <2>3. (Awaits("import")' <=> Awaits("import")) /\ (Awaits("resolve")' <=> Awaits("resolve"))
    BY <2>1, <2>2, AwaitsEnded
  <2> QED
    BY <2>1, <2>3, FitsAsBefore
<1>14. ASSUME NEW task \in importTasks,
              DownloadAudio(task) \/ TranscribeImport(task) \/ TranscribeUrl(task) \/ Answer(task)
       PROVE  DialogFits'
  <2>1. PICK stage \in TaskStages : Proceeds(task, stage)
    BY <1>14, ActionProceeds
  <2>2. UNCHANGED <<dialog, foreign, opened>> /\ TakenOn(task, stage)
    BY <1>14, <2>1 DEF Proceeds, DownloadAudio, TranscribeImport, TranscribeUrl, Answer
  <2>3. (Awaits("import")' <=> Awaits("import")) /\ (Awaits("resolve")' <=> Awaits("resolve"))
    BY <2>2, AwaitsTakenOn
  <2> QED
    BY <2>2, <2>3, FitsAsBefore
<1> QED
  BY <1>1, <1>2, <1>3, <1>4, <1>5, <1>6, <1>7, <1>7a, <1>8, <1>9, <1>10, <1>11, <1>12, <1>13, <1>14
     DEF LinkNext

-----------------------------------------------------------------------------
(* What the screens wait for.                                                *)

ToScreenRuns == \E task \in importTasks : ToScreen(task)
ImportRuns == Imports # {}
Exporting == noteDesk # NoDesk /\ noteDesk.export = "exporting"
ExportRuns == \E task \in importTasks : task.kind = "export"

ScreenShows ==
  ~overlapped => /\ status = "recording" <=> isRecording
                 /\ status = "importing" <=> ImportRuns
                 /\ status = "transcribing" <=> ToScreenRuns
                 /\ status = "complete" => shown \in recorded

LEMMA ScreenParts == ScreenFits <=> ScreenShows /\ (Exporting => ExportRuns)
BY DEF ScreenFits, ScreenShows, ToScreenRuns, ImportRuns, Exporting, ExportRuns

(* Tasks only proceed: nothing on the screens changes.                       *)
LEMMA ScreenTakenOn ==
  ASSUME NEW task, NEW stage, TakenOn(task, stage)
  PROVE  /\ ToScreenRuns' <=> ToScreenRuns
         /\ ImportRuns' <=> ImportRuns
         /\ ExportRuns' <=> ExportRuns
BY DEF TakenOn, ToScreenRuns, ImportRuns, Imports, ExportRuns, ToScreen

LEMMA ScreenBegun ==
  ASSUME NEW kind, Begun(kind)
  PROVE  /\ ToScreenRuns' <=> ToScreenRuns \/ kind \in {"dictate", "file"}
         /\ ImportRuns' <=> ImportRuns \/ kind = "import"
         /\ ExportRuns' <=> ExportRuns \/ kind = "export"
BY DEF Begun, ToScreenRuns, ImportRuns, Imports, ExportRuns, ToScreen

LEMMA ScreenEnded ==
  ASSUME NEW task, TaskEnded(task)
  PROVE  /\ ~ToScreen(task) => (ToScreenRuns' <=> ToScreenRuns)
         /\ task.kind # "import" => (ImportRuns' <=> ImportRuns)
         /\ task.kind # "export" => (ExportRuns' <=> ExportRuns)
BY DEF TaskEnded, ToScreenRuns, ImportRuns, Imports, ExportRuns, ToScreen

(* Nothing is transcribed, to the screen or to a note desk.                  *)
LEMMA NothingRuns ==
  ASSUME \A t \in importTasks : t.kind \notin Transcribing
  PROVE  ~ToScreenRuns /\ ~ImportRuns
BY DEF ToScreenRuns, ImportRuns, Imports, ToScreen, Transcribing

(* What ends was the only one, and the recorder was off.                     *)
LEMMA LastEnded ==
  ASSUME OneTranscription, ~overlapped, NEW task, TaskEnded(task), task.kind \in Transcribing
  PROVE  ~ToScreenRuns' /\ ~ImportRuns' /\ ~isRecording
BY DEF OneTranscription, TaskEnded, ToScreenRuns, ImportRuns, Imports, ToScreen, Transcribing

LEMMA ScreenStep ==
  ASSUME LinkTypeOK, OneTranscription, ScreenFits, [LinkNext]_linkVars
  PROVE  ScreenFits'
<1> USE DEF Screen, Files
<1>0. ScreenShows /\ (Exporting => ExportRuns)
  BY ScreenParts
<1>a. ASSUME ScreenShows', (Exporting => ExportRuns)'
      PROVE  ScreenFits'
  BY <1>a DEF ScreenFits, ScreenShows, ToScreenRuns, ImportRuns, Exporting, ExportRuns
<1>1. CASE \/ LinkImportOpen \/ LinkImportCancel
           \/ \E link \in Links \cup {NoLink} : LinkImportUrl(link)
           \/ \E captions \in BOOLEAN : LinkImportUseCaptions(captions)
           \/ \E message \in progress : LinkImportProgress(message)
           \/ UNCHANGED linkVars
  <2>1. UNCHANGED <<status, shown, isRecording, noteDesk, importTasks, recorded, overlapped>>
    BY <1>1 DEF LinkImportOpen, LinkImportCancel, LinkImportUrl, LinkImportUseCaptions,
                LinkImportProgress, linkVars
  <2> QED
    BY <2>1 DEF ScreenFits, Imports
<1>2. CASE LinkImportResolve
  <2>1. dialog.url \in Media
    BY <1>2 DEF LinkImportResolve, Media, Dialog, LinkTypeOK
  <2>2. Begun("resolve")
    BY <1>2, <2>1, StartBegins DEF LinkImportResolve, Kinds
  <2>3. (ToScreenRuns' <=> ToScreenRuns) /\ (ImportRuns' <=> ImportRuns) /\ (ExportRuns' <=> ExportRuns)
    BY <2>2, ScreenBegun
  <2>4. UNCHANGED <<status, shown, isRecording, noteDesk, recorded, overlapped>>
    BY <1>2 DEF LinkImportResolve
  <2> QED
    BY <1>0, <1>a, <2>3, <2>4 DEF ScreenShows, Exporting
<1>3. CASE LinkImportConfirm
  <2>1. dialog.url \in Media /\ dialog.media \in Media /\ dialog.captions \in BOOLEAN
    BY <1>3 DEF LinkImportConfirm, Confirmable, Media, Dialog, LinkTypeOK
  <2>2. (IF dialog.captions THEN dialog.media ELSE dialog.url) \in Media
    BY <2>1
  <2>3. Begun("import")
    BY <1>3, <2>1, <2>2, StartBegins DEF LinkImportConfirm, Kinds
  <2>4. overlapped' \/ (~isRecording /\ ~ToScreenRuns)
    BY <1>3, OverlapSeen, NothingRuns DEF LinkImportConfirm
  <2>5. ImportRuns' /\ (ToScreenRuns' <=> ToScreenRuns) /\ (ExportRuns' <=> ExportRuns)
    BY <2>3, ScreenBegun
  <2>6. status' = "importing" /\ UNCHANGED <<noteDesk, isRecording>>
    BY <1>3 DEF LinkImportConfirm
  <2> QED
    BY <1>0, <1>a, <2>4, <2>5, <2>6 DEF ScreenShows, Exporting
<1>3a. CASE LinkImportTranscribeToDictate
  <2>1. dialog.url \in Media /\ dialog.media \in Media
    BY <1>3a DEF LinkImportTranscribeToDictate, Confirmable, Media, Dialog, LinkTypeOK
  <2>2. Begun("dictate")
    BY <1>3a, <2>1, StartBegins DEF LinkImportTranscribeToDictate, Kinds
  <2>3. overlapped' \/ (~isRecording /\ ~ImportRuns)
    BY <1>3a, OverlapSeen, NothingRuns DEF LinkImportTranscribeToDictate
  <2>4. ToScreenRuns' /\ (ImportRuns' <=> ImportRuns) /\ (ExportRuns' <=> ExportRuns)
    BY <2>2, ScreenBegun
  <2>5. status' = "transcribing" /\ UNCHANGED <<noteDesk, isRecording>>
    BY <1>3a DEF LinkImportTranscribeToDictate
  <2> QED
    BY <1>0, <1>a, <2>3, <2>4, <2>5 DEF ScreenShows, Exporting
<1>3b. CASE TranscribeFile
  <2>1. NoLink \in Media
    BY DEF Media
  <2>2. Begun("file")
    BY <1>3b, <2>1, StartBegins DEF TranscribeFile, Kinds
  <2>3. overlapped' \/ (~isRecording /\ ~ImportRuns)
    BY <1>3b, OverlapSeen, NothingRuns DEF TranscribeFile
  <2>4. ToScreenRuns' /\ (ImportRuns' <=> ImportRuns) /\ (ExportRuns' <=> ExportRuns)
    BY <2>2, ScreenBegun
  <2>5. status' = "transcribing" /\ UNCHANGED <<noteDesk, isRecording>>
    BY <1>3b DEF TranscribeFile
  <2> QED
    BY <1>0, <1>a, <2>3, <2>4, <2>5 DEF ScreenShows, Exporting
<1>4. CASE NoteDeskExport
  <2>1. Begun("export")
    BY <1>4, StartBegins DEF NoteDeskExport, Kinds, Desk, LinkTypeOK
  <2>2. (ToScreenRuns' <=> ToScreenRuns) /\ (ImportRuns' <=> ImportRuns) /\ ExportRuns'
    BY <2>1, ScreenBegun
  <2>3. UNCHANGED <<status, shown, isRecording, recorded, overlapped>>
    BY <1>4 DEF NoteDeskExport
  <2> QED
    BY <1>0, <1>a, <2>2, <2>3 DEF ScreenShows
<1>5. CASE Dictated \/ StartRecording
  <2>1. overlapped' \/ (~isRecording /\ ~ImportRuns /\ ~ToScreenRuns)
    BY <1>5, OverlapSeen, NothingRuns DEF Dictated, StartRecording
  <2>2. UNCHANGED <<noteDesk, importTasks>>
    BY <1>5 DEF Dictated, StartRecording
  <2>3. (ToScreenRuns' <=> ToScreenRuns) /\ (ImportRuns' <=> ImportRuns) /\ (ExportRuns' <=> ExportRuns)
    BY <2>2 DEF ToScreenRuns, ImportRuns, Imports, ExportRuns
  <2>4. \/ status' = "dictated" /\ isRecording' = isRecording
        \/ status' = "recording" /\ isRecording' = TRUE
        \/ status' = "failed" /\ isRecording' = FALSE
    BY <1>5 DEF Dictated, StartRecording
  <2> QED
    BY <1>0, <1>a, <2>1, <2>2, <2>3, <2>4 DEF ScreenShows, Exporting
<1>5a. CASE StopRecording
  <2>1. isRecording' = FALSE /\ UNCHANGED <<noteDesk, overlapped>>
    BY <1>5a DEF StopRecording
  <2>2. ~overlapped => ~ImportRuns /\ ~ToScreenRuns
    BY <1>5a, NothingRuns DEF StopRecording, OneTranscription
  <2>3. CASE StartTask("file", NoLink, NoLink, FALSE) /\ status' = "transcribing"
    <3>1. NoLink \in Media
      BY DEF Media
    <3>2. Begun("file")
      BY <2>3, <3>1, StartBegins DEF Kinds
    <3>3. ToScreenRuns' /\ (ImportRuns' <=> ImportRuns) /\ (ExportRuns' <=> ExportRuns)
      BY <3>2, ScreenBegun
    <3> QED
      BY <1>0, <1>a, <2>1, <2>2, <2>3, <3>3 DEF ScreenShows, Exporting
  <2>4. CASE status' = "failed" /\ UNCHANGED importTasks
    <3>1. (ToScreenRuns' <=> ToScreenRuns) /\ (ImportRuns' <=> ImportRuns) /\ (ExportRuns' <=> ExportRuns)
      BY <2>4 DEF ToScreenRuns, ImportRuns, Imports, ExportRuns
    <3> QED
      BY <1>0, <1>a, <2>1, <2>2, <2>4, <3>1 DEF ScreenShows, Exporting
  <2> QED
    BY <1>5a, <2>3, <2>4 DEF StopRecording
<1>6. CASE EnterNoteDesk \/ BackToDictate
  <2>1. ~Exporting' /\ UNCHANGED <<status, shown, isRecording, importTasks, recorded, overlapped>>
    BY <1>6 DEF EnterNoteDesk, BackToDictate, Exporting
  <2> QED
    BY <2>1 DEF ScreenFits, Imports, Exporting
<1>7. ASSUME NEW task \in importTasks, LinkImportResolved(task) PROVE ScreenFits'
  <2>1. TaskEnded(task) /\ ~ToScreen(task) /\ task.kind # "import" /\ task.kind # "export"
    BY <1>7, ActionEnds, ResolvedRest DEF Ends, ToScreen
  <2>2. (ToScreenRuns' <=> ToScreenRuns) /\ (ImportRuns' <=> ImportRuns) /\ (ExportRuns' <=> ExportRuns)
    BY <2>1, ScreenEnded
  <2>3. UNCHANGED <<status, shown, isRecording, noteDesk, recorded, overlapped>>
    BY <1>7, ResolvedRest
  <2> QED
    BY <1>0, <1>a, <2>2, <2>3 DEF ScreenShows, Exporting
<1>8. ASSUME NEW task \in importTasks, LinkImportImported(task) PROVE ScreenFits'
  <2>1. TaskEnded(task) /\ task.kind = "import"
    BY <1>8, ActionEnds DEF Ends, LinkImportImported
  <2>2. ~overlapped => ~ToScreenRuns' /\ ~ImportRuns' /\ ~isRecording
    BY <2>1, LastEnded DEF Transcribing
  <2>3. ExportRuns' <=> ExportRuns
    BY <2>1, ScreenEnded
  <2>4. status' = "none" /\ UNCHANGED <<overlapped, isRecording>>
    BY <1>8 DEF LinkImportImported
  <2>5. Exporting' => Exporting
    BY <1>8 DEF LinkImportImported, Exporting
  <2> QED
    BY <1>0, <1>a, <2>2, <2>3, <2>4, <2>5 DEF ScreenShows
<1>9. ASSUME NEW task \in importTasks, FileTranscribed(task) PROVE ScreenFits'
  <2>1. TaskEnded(task) /\ (task.kind = "dictate" \/ task.kind = "file")
    BY <1>9, ActionEnds DEF Ends, FileTranscribed, ToScreen
  <2>2. ~overlapped => ~ToScreenRuns' /\ ~ImportRuns' /\ ~isRecording
    BY <2>1, LastEnded DEF Transcribing
  <2>3. ExportRuns' <=> ExportRuns
    BY <2>1, ScreenEnded
  <2>4. /\ UNCHANGED <<noteDesk, isRecording, overlapped>>
        /\ status' \in {"complete", "failed"}
        /\ status' = "complete" => shown' \in recorded'
    BY <1>9 DEF FileTranscribed
  <2> QED
    BY <1>0, <1>a, <2>2, <2>3, <2>4 DEF ScreenShows, Exporting
<1>10. ASSUME NEW task \in importTasks, NoteDeskExportDone(task) PROVE ScreenFits'
  <2>1. TaskEnded(task) /\ ~ToScreen(task) /\ task.kind # "import"
    BY <1>10, ActionEnds DEF Ends, NoteDeskExportDone, ToScreen
  <2>2. (ToScreenRuns' <=> ToScreenRuns) /\ (ImportRuns' <=> ImportRuns)
    BY <2>1, ScreenEnded
  <2>3. UNCHANGED <<status, shown, isRecording, recorded, overlapped>>
    BY <1>10 DEF NoteDeskExportDone
  <2>4. ~Exporting'
    BY <1>10 DEF NoteDeskExportDone, Exporting, LinkTypeOK, Desk
  <2> QED
    BY <1>0, <1>a, <2>2, <2>3, <2>4 DEF ScreenShows
<1>11. ASSUME NEW task \in importTasks,
              DownloadAudio(task) \/ TranscribeImport(task) \/ TranscribeUrl(task) \/ Answer(task)
       PROVE  ScreenFits'
  <2>1. PICK stage \in TaskStages : Proceeds(task, stage)
    BY <1>11, ActionProceeds
  <2>2. (ToScreenRuns' <=> ToScreenRuns) /\ (ImportRuns' <=> ImportRuns) /\ (ExportRuns' <=> ExportRuns)
    BY <2>1, ScreenTakenOn DEF Proceeds
  <2>3. UNCHANGED <<status, shown, isRecording, noteDesk, recorded, overlapped>>
    BY <1>11 DEF DownloadAudio, TranscribeImport, TranscribeUrl, Answer
  <2> QED
    BY <1>0, <1>a, <2>2, <2>3 DEF ScreenShows, Exporting
<1> QED
  BY <1>1, <1>2, <1>3, <1>3a, <1>3b, <1>4, <1>5, <1>5a, <1>6, <1>7, <1>8, <1>9, <1>10, <1>11
     DEF LinkNext

(***************************************************************************)
(* For any links and any number of dialogs and tasks: the dialog, the       *)
(* Dictate screen and the note desk wait for exactly what is under way for  *)
(* them, but for the answers and overlaps that DialogFits and ScreenFits    *)
(* name.                                                                    *)
(***************************************************************************)
THEOREM ScreensFitTasks == LinkSpec => []LinkFits
<1>1. LinkInit => OneOfKind /\ OneTranscription /\ DialogFits /\ ScreenFits
  BY DEF LinkInit, OneOfKind, OneTranscription, DialogFits, ScreenFits, Imports
<1>2. LinkTypeOK /\ Numbered /\ AudioOnDisk /\ OneOfKind /\ OneTranscription /\ DialogFits
        /\ ScreenFits /\ [LinkNext]_linkVars
        => OneOfKind' /\ OneTranscription' /\ DialogFits' /\ ScreenFits'
  <2> SUFFICES ASSUME LinkTypeOK, Numbered, AudioOnDisk, OneOfKind, OneTranscription, DialogFits,
                      ScreenFits, [LinkNext]_linkVars
               PROVE  OneOfKind' /\ OneTranscription' /\ DialogFits' /\ ScreenFits'
    OBVIOUS
  <2>1. OneOfKind'
    BY OneOfKindStep
  <2>2. OneTranscription'
    BY OneTranscriptionStep
  <2>3. DialogFits'
    BY DialogStep
  <2>4. ScreenFits'
    BY ScreenStep
  <2> QED
    BY <2>1, <2>2, <2>3, <2>4
<1>3. DialogFits /\ ScreenFits => LinkFits
  BY DEF LinkFits
<1> QED
  BY <1>1, <1>2, <1>3, TypedAndNumbered, PTL DEF LinkSpec

(* Every variable of LinkImport keeps its type. *)
THEOREM LinkTypeCorrect == LinkSpec => []LinkTypeOK
BY TypedAndNumbered, PTL

-----------------------------------------------------------------------------
(***************************************************************************)
(* The Models tab: the operations on the model directories (ModelStore), the *)
(* search (ModelSearch) and the sign-in (HfLogin).                         *)
(***************************************************************************)
\* A set of naturals that is not empty has a least element, which Min yields.
LEMMA LeastOfNaturals ==
  ASSUME NEW S \in SUBSET Nat, S # {}
  PROVE  Min(S) \in S /\ \A n \in S : Min(S) <= n
<1>1. PICK x \in S : \A y \in S : ~ (<<y, x>> \in OpToRel(<, Nat))
  BY NatLessThanWellFounded, WFMin
<1>2. ASSUME NEW y \in S
      PROVE  ~ (y < x)
  <2>1. ~ (<<y, x>> \in {ss \in Nat \X Nat : ss[1] < ss[2]})
    BY <1>1, Zenon DEF OpToRel
  <2>2. QED
    BY <2>1
<1>3. \A y \in S : x <= y
  BY <1>2
<1>4. QED
  BY <1>3 DEF Min

-----------------------------------------------------------------------------
(* ModelStore: the invariant *)

\* The bound on the operations leaves a number for the next task.
FewTasks == IsFiniteSet(hfTasks) /\ Cardinality(hfTasks) <= hfOps

\* OneOperation, with the one task named rather than counted.
FlagsFit ==
  /\ hfBusy => hfTasks # {}
  /\ activeDownload => \E task \in hfTasks : task.kind = "download"
  /\ ~sentBeside => /\ \A t, u \in hfTasks : t = u
                    /\ hfBusy <=> hfTasks # {}
                    /\ activeDownload <=> \E task \in hfTasks : task.kind = "download"

\* What the list lacks, a task that will scan brings, or a failed copy has hidden.
ListedOrComing ==
  \/ unlisted
  \/ hfModels = ScanDirs(EffectiveModelDirs, modelFiles)
  \/ \E task \in hfTasks : task.stage \in {"copying", "torn", "done"}

CopiesTo(task, at) == task.stage = "copying" /\ task.dir = at[1] /\ task.model = at[2]

\* A file that is not whole is being copied to, unless a copy failed or was cut short.
WholeOrCopied ==
  \/ brokenCopy
  \/ /\ ~unlisted
     /\ \A task \in hfTasks : task.stage # "torn"
     /\ \A at \in AllDirs \X Models :
          modelFiles[at] = "partial" => \E task \in hfTasks : CopiesTo(task, at)

StoreInv == StoreTypeOK /\ FewTasks /\ FlagsFit /\ ListedOrComing /\ WholeOrCopied

-----------------------------------------------------------------------------
(* ModelStore: the tasks *)

\* While the bound allows another operation, a number is free.
LEMMA TaskNoFree ==
  ASSUME StoreTypeOK, FewTasks, hfOps < MaxOps
  PROVE  TaskNo \in 1..MaxOps
<1> DEFINE used == {task.no : task \in hfTasks}
           free == {n \in 1..MaxOps : \A task \in hfTasks : task.no # n}
           no == [task \in hfTasks |-> task.no]
<1>1. no \in Surjection(hfTasks, used)
  BY DEF Surjection
<1>2. IsFiniteSet(used) /\ Cardinality(used) <= Cardinality(hfTasks)
  BY <1>1, FS_Surjection, Zenon DEF FewTasks
<1>3. Cardinality(used) \in Nat /\ Cardinality(hfTasks) \in Nat
  BY <1>2, FS_CardinalityType DEF FewTasks
<1>4. hfOps \in Nat /\ MaxOps \in Nat
  BY OpsAssumption DEF StoreTypeOK
<1>5. free # {}
  <2>1. SUFFICES ASSUME free = {} PROVE FALSE
    OBVIOUS
  <2>2. 1..MaxOps \subseteq used
    BY <2>1
  <2>3. Cardinality(1..MaxOps) <= Cardinality(used)
    BY <1>2, <2>2, FS_Subset
  <2>4. Cardinality(1..MaxOps) = MaxOps
    BY <1>4, FS_Interval
  <2>5. QED
    BY <1>2, <1>3, <1>4, <2>3, <2>4 DEF FewTasks
<1>6. free \in SUBSET Nat
  BY <1>4
<1>7. Min(free) \in free
  BY <1>5, <1>6, LeastOfNaturals
<1>8. QED
  BY <1>7 DEF TaskNo

\* A task more, for one operation more.
LEMMA OneTaskMore ==
  ASSUME FewTasks, StoreTypeOK, NEW new, hfTasks' = hfTasks \cup {new}, hfOps' = hfOps + 1
  PROVE  FewTasks'
<1>1. IsFiniteSet(hfTasks')
      /\ (Cardinality(hfTasks') = Cardinality(hfTasks) \/ Cardinality(hfTasks') = Cardinality(hfTasks) + 1)
  BY FS_AddElement DEF FewTasks
<1>2. Cardinality(hfTasks) \in Nat /\ hfOps \in Nat
  BY FS_CardinalityType DEF FewTasks, StoreTypeOK
<1>3. QED
  BY <1>1, <1>2 DEF FewTasks

\* A task less.
LEMMA OneTaskLess ==
  ASSUME FewTasks, StoreTypeOK, NEW task \in hfTasks, hfTasks' = hfTasks \ {task}, hfOps' = hfOps
  PROVE  FewTasks'
<1>1. IsFiniteSet(hfTasks') /\ Cardinality(hfTasks') = Cardinality(hfTasks) - 1
  BY FS_RemoveElement DEF FewTasks
<1>2. Cardinality(hfTasks) \in Nat /\ hfOps \in Nat
  BY FS_CardinalityType DEF FewTasks, StoreTypeOK
<1>3. QED
  BY <1>1, <1>2 DEF FewTasks

\* Tasks that go on to another stage are no more than they were.
LEMMA TasksMoveOn ==
  ASSUME FewTasks, NEW f, f \in Surjection(hfTasks, hfTasks'), hfOps' = hfOps, StoreTypeOK
  PROVE  FewTasks'
<1>1. IsFiniteSet(hfTasks') /\ Cardinality(hfTasks') <= Cardinality(hfTasks)
  BY FS_Surjection, Zenon DEF FewTasks
<1>2. Cardinality(hfTasks) \in Nat /\ Cardinality(hfTasks') \in Nat /\ hfOps \in Nat
  BY <1>1, FS_CardinalityType DEF FewTasks, StoreTypeOK
<1>3. QED
  BY <1>1, <1>2 DEF FewTasks

LEMMA StageKeepsFew ==
  ASSUME FewTasks, StoreTypeOK, NEW task \in hfTasks, NEW stage, StageTo(task, stage), hfOps' = hfOps
  PROVE  FewTasks'
<1> DEFINE f == [t \in hfTasks |-> IF t = task THEN [task EXCEPT !.stage = stage] ELSE t]
<1>1. f \in Surjection(hfTasks, hfTasks')
  BY DEF StageTo, Surjection
<1>2. QED
  BY <1>1, TasksMoveOn

-----------------------------------------------------------------------------
(* ModelStore: types *)

LEMMA StageKeepsType ==
  ASSUME StoreTypeOK, NEW task \in hfTasks, task.kind # "signIn",
         NEW stage \in {"running", "copying", "torn", "done", "failed"}
  PROVE  [task EXCEPT !.stage = stage] \in HfTask
BY DEF StoreTypeOK, HfTask

LEMMA StoreTypeStep ==
  ASSUME StoreTypeOK, FewTasks, [StoreNext]_storeVars
  PROVE  StoreTypeOK'
<1> USE DirsAssumption, OpsAssumption DEF StoreTypeOK
<1>1. ASSUME HfOp
      PROVE  hfOps' \in 0..MaxOps /\ TaskNo \in 1..MaxOps
  BY <1>1, TaskNoFree DEF HfOp
<1>2. ASSUME Rescan, modelDirs' \in Seq(UserDirs), modelFiles' \in [AllDirs \X Models -> FileState]
      PROVE  hfModels' \subseteq AllDirs \X Models /\ unlisted' \in BOOLEAN
  <2>1. ToSet(modelDirs') \cup {DefaultDir} \subseteq AllDirs
    BY <1>2 DEF ToSet, AllDirs
  <2>2. QED
    BY <1>2, <2>1 DEF Rescan, ScanDirs
<1>3. ASSUME NEW task \in hfTasks, task.kind # "signIn",
             NEW stage \in {"running", "copying", "torn", "done", "failed"}, StageTo(task, stage)
      PROVE  hfTasks' \subseteq HfTask
  BY <1>3, StageKeepsType DEF StageTo
<1>4. ASSUME NEW task \in hfTasks, task.kind # "signIn", NEW content \in FileState, PutFile(task, content)
      PROVE  modelFiles' \in [AllDirs \X Models -> FileState]
  BY <1>4 DEF PutFile, HfTask
<1>5. ASSUME NEW task \in hfTasks, EndHf(task)
      PROVE  /\ hfTasks' \subseteq HfTask /\ hfBusy' \in BOOLEAN /\ sentBeside' \in BOOLEAN
             /\ modelDirs' \in Seq(UserDirs) /\ modelFiles' \in [AllDirs \X Models -> FileState]
             /\ hfPicker' \in BOOLEAN /\ hfOps' \in 0..MaxOps /\ brokenCopy' \in BOOLEAN
  BY <1>5 DEF EndHf
<1>6. ASSUME NEW dir \in AllDirs, NEW model \in Models, NEW kind \in {"download", "delete"},
             BeginHf(kind, dir, model), activeDownload' \in BOOLEAN
      PROVE  StoreTypeOK'
  <2>1. [no |-> TaskNo, kind |-> kind, dir |-> dir, model |-> model, stage |-> "running"] \in HfTask
    BY <1>1, <1>6 DEF BeginHf, HfTask
  <2>2. QED
    BY <1>1, <1>6, <2>1 DEF BeginHf, storeHistory
<1>7. ASSUME SendSignIn, sentBeside' \in BOOLEAN
      PROVE  StoreTypeOK'
  <2>1. [no |-> TaskNo, kind |-> "signIn", stage |-> "running"] \in HfTask
    BY <1>1, <1>7 DEF SendSignIn, HfTask
  <2>2. QED
    BY <1>1, <1>7, <2>1 DEF SendSignIn, storeHistory
<1>8. CASE SignIn
  BY <1>7, <1>8 DEF SignIn
<1>9. CASE TokenSubmit
  BY <1>7, <1>9 DEF TokenSubmit
<1>10. CASE SignOut
  BY <1>1, <1>10 DEF SignOut, storeHistory
<1>11. ASSUME NEW model \in Models, StartDownload(model)
       PROVE  StoreTypeOK'
  <2>1. DownloadDir \in AllDirs
    BY DEF DownloadDir, AllDirs
  <2>2. QED
    BY <1>6, <1>11, <2>1 DEF StartDownload
<1>12. ASSUME NEW at \in hfModels, DeleteModel(at)
       PROVE  StoreTypeOK'
  <2>1. at[1] \in AllDirs /\ at[2] \in Models
    OBVIOUS
  <2>2. QED
    BY <1>6, <1>12, <2>1 DEF DeleteModel
<1>13. ASSUME NEW task \in hfTasks, SignedIn(task)
       PROVE  StoreTypeOK'
  BY <1>2, <1>5, <1>13 DEF SignedIn
<1>14. ASSUME NEW task \in hfTasks, Fetch(task)
       PROVE  StoreTypeOK'
  BY <1>3, <1>4, <1>14 DEF Fetch, FileState, storeHistory
<1>15. ASSUME NEW task \in hfTasks, CopyEnds(task)
       PROVE  StoreTypeOK'
  <2>1. task.kind # "signIn"
    BY <1>15 DEF CopyEnds, HfTask
  <2>2. QED
    BY <1>3, <1>4, <1>15, <2>1 DEF CopyEnds, storeHistory
<1>16. ASSUME NEW task \in hfTasks, CopyFails(task)
       PROVE  StoreTypeOK'
  <2>1. task.kind # "signIn"
    BY <1>16 DEF CopyFails, HfTask
  <2>2. ASSUME NEW other \in Beside(task)
        PROVE  [other EXCEPT !.stage = "torn"] \in HfTask
    <3>1. other \in hfTasks /\ other.kind # "signIn"
      BY DEF Beside, HfTask
    <3>2. QED
      BY <3>1, StageKeepsType
  <2>3. [task EXCEPT !.stage = "failed"] \in HfTask
    BY <2>1, StageKeepsType
  <2>4. hfTasks' \subseteq HfTask
    BY <1>16, <2>2, <2>3 DEF CopyFails
  <2>5. QED
    BY <1>16, <2>4 DEF CopyFails
<1>17. ASSUME NEW task \in hfTasks, Downloaded(task)
       PROVE  StoreTypeOK'
  BY <1>2, <1>5, <1>17 DEF Downloaded
<1>18. ASSUME NEW task \in hfTasks, Delete(task)
       PROVE  StoreTypeOK'
  BY <1>3, <1>4, <1>18 DEF Delete, FileState, storeHistory
<1>19. ASSUME NEW task \in hfTasks, Deleted(task)
       PROVE  StoreTypeOK'
  BY <1>2, <1>5, <1>19 DEF Deleted
<1>20. CASE AddModelDir
  BY <1>1, <1>20 DEF AddModelDir, storeHistory
<1>21. CASE PickedNothing
  BY <1>21 DEF PickedNothing, storeHistory
<1>22. ASSUME NEW dir \in UserDirs, PickedDir(dir)
       PROVE  StoreTypeOK'
  <2>1. modelDirs' \in Seq(UserDirs)
    BY <1>22 DEF PickedDir
  <2>2. QED
    BY <1>2, <1>22, <2>1 DEF PickedDir
<1>23. ASSUME NEW dir \in UserDirs, RemoveModelDir(dir)
       PROVE  StoreTypeOK'
  <2>1. modelDirs' \in Seq(UserDirs)
    BY <1>23 DEF RemoveModelDir, RemoveAt
  <2>2. QED
    BY <1>1, <1>2, <1>23, <2>1 DEF RemoveModelDir
<1>24. CASE RestartStore
  BY <1>1, <1>2, <1>24 DEF RestartStore
<1>25. CASE UNCHANGED storeVars
  BY <1>25 DEF storeVars
<1>26. QED
  BY <1>8, <1>9, <1>10, <1>11, <1>12, <1>13, <1>14, <1>15, <1>16, <1>17, <1>18, <1>19, <1>20,
     <1>21, <1>22, <1>23, <1>24, <1>25 DEF StoreNext

-----------------------------------------------------------------------------
(* ModelStore: the steps *)

\* The number of the tasks stays within the bound.
LEMMA FewTasksStep ==
  ASSUME StoreTypeOK, FewTasks, [StoreNext]_storeVars
  PROVE  FewTasks'
<1>1. CASE SignIn \/ TokenSubmit
  BY <1>1, OneTaskMore DEF SignIn, TokenSubmit, SendSignIn, HfOp
<1>2. CASE \/ \E model \in Models : StartDownload(model)
           \/ \E at \in hfModels : DeleteModel(at)
  BY <1>2, OneTaskMore DEF StartDownload, DeleteModel, BeginHf, HfOp
<1>3. ASSUME NEW task \in hfTasks, SignedIn(task) \/ Downloaded(task) \/ Deleted(task)
      PROVE  FewTasks'
  BY <1>3, OneTaskLess DEF SignedIn, Downloaded, Deleted, EndHf
<1>4. ASSUME NEW task \in hfTasks, Fetch(task) \/ CopyEnds(task) \/ Delete(task)
      PROVE  FewTasks'
  BY <1>4, StageKeepsFew DEF Fetch, CopyEnds, Delete
<1>5. ASSUME NEW task \in hfTasks, CopyFails(task)
      PROVE  FewTasks'
  <2> DEFINE f == [t \in hfTasks |-> IF t = task THEN [task EXCEPT !.stage = "failed"]
                                     ELSE IF t \in Beside(task) THEN [t EXCEPT !.stage = "torn"]
                                     ELSE t]
  <2>1. f \in Surjection(hfTasks, hfTasks')
    BY <1>5 DEF CopyFails, Surjection, Beside
  <2>2. QED
    BY <1>5, <2>1, TasksMoveOn DEF CopyFails
<1>6. CASE RestartStore
  <2>1. hfTasks' = {} /\ hfOps' \in Nat
    BY <1>6 DEF RestartStore, HfOp, StoreTypeOK
  <2>2. QED
    BY <2>1, FS_EmptySet DEF FewTasks
<1>7. CASE \/ SignOut \/ AddModelDir \/ PickedNothing \/ UNCHANGED storeVars
           \/ \E dir \in UserDirs : PickedDir(dir) \/ RemoveModelDir(dir)
  <2>1. hfTasks' = hfTasks /\ (hfOps' = hfOps \/ hfOps' = hfOps + 1)
    BY <1>7 DEF SignOut, AddModelDir, PickedNothing, storeVars, PickedDir, RemoveModelDir, HfOp
  <2>2. Cardinality(hfTasks) \in Nat /\ hfOps \in Nat
    BY FS_CardinalityType DEF FewTasks, StoreTypeOK
  <2>3. QED
    BY <2>1, <2>2 DEF FewTasks
<1>8. QED
  BY <1>1, <1>2, <1>3, <1>4, <1>5, <1>6, <1>7 DEF StoreNext

\* Each flag stays up only for its task, and one task at a time runs but for a token.
LEMMA FlagsStep ==
  ASSUME StoreTypeOK, FlagsFit, [StoreNext]_storeVars
  PROVE  FlagsFit'
<1> USE DEF FlagsFit
<1>1. CASE SignIn \/ TokenSubmit
  <2> DEFINE new == [no |-> TaskNo, kind |-> "signIn", stage |-> "running"]
  <2>1. hfTasks' = hfTasks \cup {new} /\ new.kind = "signIn"
    BY <1>1 DEF SignIn, TokenSubmit, SendSignIn
  <2>2. hfBusy' /\ activeDownload' = activeDownload
    BY <1>1 DEF SignIn, TokenSubmit, SendSignIn
  <2>3. hfTasks = {} \/ sentBeside'
    BY <1>1 DEF SignIn, TokenSubmit, SendSignIn
  <2> HIDE DEF new
  <2>4. CASE hfTasks = {}
    BY <2>1, <2>2, <2>4
  <2>5. CASE sentBeside'
    BY <2>1, <2>2, <2>5
  <2>6. QED
    BY <2>3, <2>4, <2>5
<1>2. ASSUME NEW model \in Models, StartDownload(model)
      PROVE  FlagsFit'
  <2> DEFINE new == [no |-> TaskNo, kind |-> "download", dir |-> DownloadDir, model |-> model, stage |-> "running"]
  <2>1. hfTasks' = hfTasks \cup {new} /\ new.kind = "download" /\ (hfTasks = {} \/ sentBeside')
    BY <1>2 DEF StartDownload, BeginHf
  <2> HIDE DEF new
  <2>2. QED
    BY <1>2, <2>1 DEF StartDownload, BeginHf
<1>3. ASSUME NEW at \in hfModels, DeleteModel(at)
      PROVE  FlagsFit'
  <2> DEFINE new == [no |-> TaskNo, kind |-> "delete", dir |-> at[1], model |-> at[2], stage |-> "running"]
  <2>1. hfTasks' = hfTasks \cup {new} /\ new.kind = "delete" /\ (hfTasks = {} \/ sentBeside')
    BY <1>3 DEF DeleteModel, BeginHf
  <2> HIDE DEF new
  <2>2. QED
    BY <1>3, <2>1 DEF DeleteModel, BeginHf
<1>4. ASSUME NEW task \in hfTasks, SignedIn(task) \/ Downloaded(task) \/ Deleted(task)
      PROVE  FlagsFit'
  <2>1. hfTasks' = hfTasks \ {task} /\ ~hfBusy' /\ (sentBeside' <=> sentBeside /\ hfTasks' # {})
    BY <1>4 DEF SignedIn, Downloaded, Deleted, EndHf, StoreTypeOK
  <2>2. ~sentBeside => hfTasks' = {}
    BY <2>1
  <2>3. ~activeDownload' \/ (UNCHANGED activeDownload /\ task.kind # "download")
    BY <1>4 DEF SignedIn, Downloaded, Deleted
  <2>4. activeDownload' => \E t \in hfTasks' : t.kind = "download"
    BY <2>1, <2>3
  <2>5. QED
    BY <2>1, <2>2, <2>4
<1>5. ASSUME NEW task \in hfTasks, Fetch(task) \/ CopyEnds(task) \/ Delete(task)
      PROVE  FlagsFit'
  <2>1. PICK stage : StageTo(task, stage)
    BY <1>5 DEF Fetch, CopyEnds, Delete
  <2>2. [task EXCEPT !.stage = stage].kind = task.kind
    BY DEF StoreTypeOK, HfTask
  <2>3. UNCHANGED <<hfBusy, activeDownload, sentBeside>>
    BY <1>5 DEF Fetch, CopyEnds, Delete
  <2>4. QED
    BY <2>1, <2>2, <2>3 DEF StageTo
<1>6. ASSUME NEW task \in hfTasks, CopyFails(task)
      PROVE  FlagsFit'
  <2>1. ASSUME NEW t \in hfTasks, NEW stage
        PROVE  [t EXCEPT !.stage = stage].kind = t.kind
    BY DEF StoreTypeOK, HfTask
  <2>2. \A t \in Beside(task) : t \in hfTasks /\ t # task
    BY DEF Beside
  <2>3. (\E t \in hfTasks : t.kind = "download") <=> (\E t \in hfTasks' : t.kind = "download")
    <3> DEFINE failed == [task EXCEPT !.stage = "failed"]
               torn == {[other EXCEPT !.stage = "torn"] : other \in Beside(task)}
    <3>1. hfTasks' = (hfTasks \ (Beside(task) \cup {task})) \cup {failed} \cup torn
      BY <1>6 DEF CopyFails
    <3>2. failed.kind = task.kind
      BY <2>1
    <3>3. \A u \in Beside(task) : [u EXCEPT !.stage = "torn"].kind = u.kind
      BY <2>1, <2>2
    <3>4. /\ \A t \in torn : \E u \in Beside(task) : t.kind = u.kind
          /\ \A u \in Beside(task) : \E t \in torn : t.kind = u.kind
      BY <3>3
    <3> HIDE DEF failed, torn
    <3>5. QED
      BY <2>2, <3>1, <3>2, <3>3, <3>4
  <2>4. (\A t, u \in hfTasks : t = u) => \A t, u \in hfTasks' : t = u
    BY <1>6, <2>2 DEF CopyFails
  <2>5. hfTasks' # {}
    BY <1>6 DEF CopyFails
  <2>6. QED
    BY <1>6, <2>3, <2>4, <2>5 DEF CopyFails
<1>7. CASE \/ SignOut \/ AddModelDir \/ PickedNothing \/ RestartStore \/ UNCHANGED storeVars
           \/ \E dir \in UserDirs : PickedDir(dir) \/ RemoveModelDir(dir)
  BY <1>7 DEF SignOut, AddModelDir, PickedNothing, RestartStore, storeVars, PickedDir, RemoveModelDir
<1>8. QED
  BY <1>1, <1>2, <1>3, <1>4, <1>5, <1>6, <1>7 DEF StoreNext

\* A scan lists what there is, and only a task that will scan changes what there is.
LEMMA ListedStep ==
  ASSUME StoreTypeOK, ListedOrComing, [StoreNext]_storeVars
  PROVE  ListedOrComing'
<1> USE DEF ListedOrComing
<1>1. ASSUME Rescan
      PROVE  ListedOrComing'
  BY <1>1 DEF Rescan, EffectiveModelDirs
<1>2. ASSUME UNCHANGED <<modelDirs, modelFiles, hfModels, unlisted>>,
             \A task \in hfTasks : task.stage \in {"copying", "torn", "done"} => task \in hfTasks'
      PROVE  ListedOrComing'
  BY <1>2 DEF ScanDirs, EffectiveModelDirs
<1>3. CASE \/ SignIn \/ TokenSubmit \/ SignOut \/ AddModelDir \/ PickedNothing \/ UNCHANGED storeVars
           \/ \E model \in Models : StartDownload(model)
           \/ \E at \in hfModels : DeleteModel(at)
  BY <1>2, <1>3 DEF SignIn, TokenSubmit, SendSignIn, SignOut, AddModelDir, PickedNothing, storeVars,
                    storeHistory, StartDownload, DeleteModel, BeginHf
<1>4. ASSUME NEW task \in hfTasks, SignedIn(task) \/ Downloaded(task) \/ Deleted(task)
      PROVE  ListedOrComing'
  <2>1. CASE Rescan
    BY <1>1, <2>1
  <2>2. CASE ~Rescan
    <3>1. task.stage \notin {"copying", "torn", "done"}
      BY <1>4, <2>2 DEF SignedIn, Downloaded, Deleted, StoreTypeOK, HfTask
    <3>2. UNCHANGED <<modelDirs, modelFiles, hfModels, unlisted>> /\ hfTasks' = hfTasks \ {task}
      BY <1>4, <2>2 DEF SignedIn, Downloaded, Deleted, EndHf
    <3>3. QED
      BY <1>2, <3>1, <3>2
  <2>3. QED
    BY <2>1, <2>2
<1>5. ASSUME NEW task \in hfTasks, Fetch(task) \/ CopyEnds(task) \/ Delete(task)
      PROVE  ListedOrComing'
  <2>1. ASSUME NEW stage \in {"copying", "done"}, StageTo(task, stage)
        PROVE  \E t \in hfTasks' : t.stage \in {"copying", "torn", "done"}
    <3>1. [task EXCEPT !.stage = stage].stage = stage
      BY DEF StoreTypeOK, HfTask
    <3>2. QED
      BY <2>1, <3>1 DEF StageTo
  <2>2. CASE \E stage \in {"copying", "done"} : StageTo(task, stage)
    BY <2>1, <2>2
  <2>3. CASE ~\E stage \in {"copying", "done"} : StageTo(task, stage)
    <3>1. task.stage = "running" /\ StageTo(task, "failed")
          /\ UNCHANGED <<modelDirs, modelFiles, hfModels, unlisted>>
      BY <1>5, <2>3 DEF Fetch, CopyEnds, Delete, storeHistory
    <3>2. QED
      BY <1>2, <3>1 DEF StageTo
  <2>4. QED
    BY <2>2, <2>3
<1>6. ASSUME NEW task \in hfTasks, CopyFails(task)
      PROVE  ListedOrComing'
  BY <1>6 DEF CopyFails
<1>7. CASE RestartStore \/ \E dir \in UserDirs : PickedDir(dir) \/ RemoveModelDir(dir)
  BY <1>1, <1>7 DEF RestartStore, PickedDir, RemoveModelDir
<1>8. QED
  BY <1>3, <1>4, <1>5, <1>6, <1>7 DEF StoreNext

\* Only a copy that failed, or was cut short, leaves a file that is not whole behind.
LEMMA WholeStep ==
  ASSUME StoreTypeOK, WholeOrCopied, [StoreNext]_storeVars
  PROVE  WholeOrCopied'
<1> USE DEF WholeOrCopied
<1>1. ASSUME NEW task \in hfTasks
      PROVE  /\ \A stage : [task EXCEPT !.stage = stage].stage = stage
             /\ \A stage : task.kind # "signIn" => [task EXCEPT !.stage = stage].dir = task.dir
             /\ \A stage : task.kind # "signIn" => [task EXCEPT !.stage = stage].model = task.model
  BY DEF StoreTypeOK, HfTask
<1>2. ASSUME UNCHANGED <<modelFiles, brokenCopy>>, unlisted' = unlisted \/ ~unlisted',
             \A task \in hfTasks' : task \in hfTasks \/ task.stage # "torn",
             \A task \in hfTasks : task.stage = "copying" => task \in hfTasks'
      PROVE  WholeOrCopied'
  BY <1>2 DEF CopiesTo
<1>3. CASE \/ SignOut \/ AddModelDir \/ PickedNothing \/ UNCHANGED storeVars
           \/ \E dir \in UserDirs : PickedDir(dir) \/ RemoveModelDir(dir)
  BY <1>2, <1>3 DEF SignOut, AddModelDir, PickedNothing, storeVars, storeHistory, PickedDir,
                    RemoveModelDir, Rescan
<1>4. CASE \/ SignIn \/ TokenSubmit
           \/ \E model \in Models : StartDownload(model)
           \/ \E at \in hfModels : DeleteModel(at)
  <2>1. \A task \in hfTasks' : task \in hfTasks \/ task.stage = "running"
    BY <1>4 DEF SignIn, TokenSubmit, SendSignIn, StartDownload, DeleteModel, BeginHf
  <2>2. hfTasks \subseteq hfTasks' /\ UNCHANGED <<modelFiles, brokenCopy, unlisted>>
    BY <1>4 DEF SignIn, TokenSubmit, SendSignIn, StartDownload, DeleteModel, BeginHf, storeHistory
  <2>3. QED
    BY <1>2, <2>1, <2>2
<1>5. ASSUME NEW task \in hfTasks, SignedIn(task) \/ Downloaded(task) \/ Deleted(task)
      PROVE  WholeOrCopied'
  <2>1. task.stage # "copying"
    BY <1>5 DEF SignedIn, Downloaded, Deleted, StoreTypeOK, HfTask
  <2>2. /\ hfTasks' = hfTasks \ {task} /\ UNCHANGED <<modelFiles, brokenCopy>>
        /\ unlisted' = unlisted \/ ~unlisted'
    BY <1>5 DEF SignedIn, Downloaded, Deleted, EndHf, Rescan
  <2>3. QED
    BY <1>2, <2>1, <2>2
<1>6. ASSUME NEW task \in hfTasks, Fetch(task)
      PROVE  WholeOrCopied'
  <2>1. CASE StageTo(task, "failed") /\ UNCHANGED modelFiles
    <3>1. UNCHANGED <<modelFiles, brokenCopy, unlisted>> /\ task.stage = "running"
      BY <1>6, <2>1 DEF Fetch, storeHistory
    <3>2. hfTasks' = (hfTasks \ {task}) \cup {[task EXCEPT !.stage = "failed"]}
      BY <2>1 DEF StageTo
    <3>3. [task EXCEPT !.stage = "failed"].stage # "torn"
      BY <1>1
    <3>4. QED
      BY <1>2, <3>1, <3>2, <3>3
  <2>2. CASE StageTo(task, "copying") /\ PutFile(task, "partial")
    <3> DEFINE copying == [task EXCEPT !.stage = "copying"]
    <3>1. CopiesTo(copying, <<task.dir, task.model>>) /\ copying.stage # "torn"
      BY <1>1, <1>6 DEF Fetch, CopiesTo
    <3>2. hfTasks' = (hfTasks \ {task}) \cup {copying} /\ task.stage # "copying"
      BY <1>6, <2>2 DEF Fetch, StageTo
    <3>3. \A at \in AllDirs \X Models :
             modelFiles'[at] = modelFiles[at] \/ at = <<task.dir, task.model>>
      BY <2>2 DEF PutFile, StoreTypeOK
    <3>4. UNCHANGED <<brokenCopy, unlisted>>
      BY <1>6 DEF Fetch, storeHistory
    <3> HIDE DEF copying
    <3>5. QED
      BY <3>1, <3>2, <3>3, <3>4 DEF CopiesTo
  <2>3. QED
    BY <1>6, <2>1, <2>2 DEF Fetch
<1>7. ASSUME NEW task \in hfTasks, CopyEnds(task)
      PROVE  WholeOrCopied'
  <2> DEFINE done == [task EXCEPT !.stage = "done"]
  <2>1. done.stage = "done"
    BY <1>1
  <2>2. hfTasks' = (hfTasks \ {task}) \cup {done} /\ UNCHANGED <<brokenCopy, unlisted>>
    BY <1>7 DEF CopyEnds, StageTo, storeHistory
  <2>3. task.kind # "signIn" /\ <<task.dir, task.model>> \in AllDirs \X Models
    BY <1>7 DEF CopyEnds, StoreTypeOK, HfTask
  <2> HIDE DEF done
  <2>4. SUFFICES ASSUME ~brokenCopy, NEW at \in AllDirs \X Models, modelFiles'[at] = "partial"
                 PROVE  \E t \in hfTasks' : CopiesTo(t, at)
    BY <2>1, <2>2
  <2>5. CASE at = <<task.dir, task.model>>
    <3>1. Beside(task) # {}
      <4>1. modelFiles'[<<task.dir, task.model>>] \in FileState
        BY <1>7, <2>3 DEF CopyEnds, PutFile, StoreTypeOK
      <4>2. task.stage # "torn"
        BY <2>4
      <4>3. QED
        BY <1>7, <2>3, <2>4, <2>5, <4>2 DEF CopyEnds, PutFile, StoreTypeOK
    <3>2. PICK other \in hfTasks \ {task} : /\ other.stage \in {"copying", "torn"}
                                           /\ other.dir = task.dir /\ other.model = task.model
      BY <3>1 DEF Beside
    <3>3. CopiesTo(other, at)
      BY <2>4, <2>5, <3>2 DEF CopiesTo
    <3>4. QED
      BY <2>2, <3>2, <3>3
  <2>6. CASE at # <<task.dir, task.model>>
    <3>1. modelFiles'[at] = modelFiles[at]
      BY <1>7, <2>3, <2>6 DEF CopyEnds, PutFile, StoreTypeOK
    <3>2. PICK t \in hfTasks : CopiesTo(t, at)
      BY <2>4, <3>1
    <3>3. t # task
      BY <2>6, <3>2 DEF CopiesTo
    <3>4. QED
      BY <2>2, <3>2, <3>3
  <2>7. QED
    BY <2>5, <2>6
<1>8. ASSUME NEW task \in hfTasks, CopyFails(task)
      PROVE  WholeOrCopied'
  BY <1>8 DEF CopyFails
<1>9. ASSUME NEW task \in hfTasks, Delete(task)
      PROVE  WholeOrCopied'
  <2>1. \A at \in AllDirs \X Models :
          modelFiles'[at] = modelFiles[at] \/ modelFiles'[at] = "none"
    BY <1>9 DEF Delete, PutFile, StoreTypeOK
  <2>2. \A t \in hfTasks' : t \in hfTasks \/ t.stage \in {"done", "failed"}
    <3>1. PICK stage \in {"done", "failed"} : StageTo(task, stage)
      BY <1>9 DEF Delete
    <3>2. QED
      BY <1>1, <3>1 DEF StageTo
  <2>3. \A t \in hfTasks : t.stage = "copying" => t \in hfTasks'
    BY <1>9 DEF Delete, StageTo
  <2>4. UNCHANGED <<brokenCopy, unlisted>>
    BY <1>9 DEF Delete, storeHistory
  <2>5. QED
    BY <2>1, <2>2, <2>3, <2>4 DEF CopiesTo
<1>10. CASE RestartStore
  BY <1>10 DEF RestartStore, Rescan, CopiesTo
<1>11. QED
  BY <1>3, <1>4, <1>5, <1>6, <1>7, <1>8, <1>9, <1>10 DEF StoreNext

-----------------------------------------------------------------------------
(* ModelStore: the theorem *)

LEMMA StoreInvHolds == StoreSpec => []StoreInv
<1>1. StoreInit => StoreInv
  <2>1. SUFFICES ASSUME StoreInit PROVE StoreInv
    OBVIOUS
  <2>2. StoreTypeOK
    <3>1. modelDirs \in Seq(UserDirs)
      BY <2>1, EmptySeq DEF StoreInit
    <3>2. modelFiles \in [AllDirs \X Models -> FileState]
      BY <2>1 DEF StoreInit, FileState
    <3>3. hfModels \subseteq AllDirs \X Models /\ hfTasks \subseteq HfTask
      BY <2>1 DEF StoreInit
    <3>4. hfOps \in 0..MaxOps
      BY <2>1, OpsAssumption DEF StoreInit
    <3>5. QED
      BY <2>1, <3>1, <3>2, <3>3, <3>4 DEF StoreInit, StoreTypeOK
  <2>3. FewTasks
    BY <2>1, FS_EmptySet DEF StoreInit, FewTasks
  <2>4. ScanDirs(EffectiveModelDirs, modelFiles) = {}
    BY <2>1, EmptySeq DEF StoreInit, ScanDirs, EffectiveModelDirs, ToSet, AllDirs
  <2>5. QED
    BY <2>1, <2>2, <2>3, <2>4 DEF StoreInit, StoreInv, FlagsFit, ListedOrComing, WholeOrCopied
<1>2. StoreInv /\ [StoreNext]_storeVars => StoreInv'
  BY StoreTypeStep, FewTasksStep, FlagsStep, ListedStep, WholeStep DEF StoreInv
<1>3. QED
  BY <1>1, <1>2, PTL DEF StoreSpec

\* In every state the flags and the list are as OneOperation and ListIsDisk say.
LEMMA StoreInvImplies ==
  ASSUME StoreInv
  PROVE  StoreTypeOK /\ OneOperation /\ ListIsDisk
<1> USE DEF StoreInv
<1>1. ASSUME \A t, u \in hfTasks : t = u
      PROVE  Cardinality(hfTasks) <= 1
  <2>1. CASE hfTasks = {}
    BY <2>1, FS_EmptySet
  <2>2. CASE hfTasks # {}
    <3>1. PICK t \in hfTasks : TRUE
      BY <2>2
    <3>2. hfTasks = {t}
      BY <1>1, <3>1
    <3>3. Cardinality({t}) = 1
      BY FS_Singleton, Zenon
    <3>4. QED
      BY <3>2, <3>3
  <2>3. QED
    BY <2>1, <2>2
<1>2. OneOperation
  BY <1>1 DEF FlagsFit, OneOperation
<1>3. ASSUME hfTasks = {}, ~brokenCopy, NEW at \in hfModels
      PROVE  modelFiles[at] = "whole"
  <2>1. hfModels = ScanDirs(EffectiveModelDirs, modelFiles)
    BY <1>3 DEF ListedOrComing, WholeOrCopied
  <2>2. modelFiles[at] # "none"
    BY <2>1 DEF ScanDirs
  <2>3. modelFiles[at] # "partial"
    BY <1>3 DEF WholeOrCopied, StoreTypeOK
  <2>4. QED
    BY <2>2, <2>3 DEF StoreTypeOK, FileState
<1>4. ListIsDisk
  BY <1>3 DEF ListIsDisk, ListedOrComing
<1>5. QED
  BY <1>2, <1>4

\* Whatever tasks run beside each other, fail or are cut short, and for any models and
\* directories: no flag is left up, and between operations the tab lists what is there.
THEOREM StoreFits == StoreSpec => [](StoreTypeOK /\ OneOperation /\ ListIsDisk)
BY StoreInvHolds, StoreInvImplies, PTL

-----------------------------------------------------------------------------
(* ModelSearch *)

\* Until two requests cross, the one in flight is about what is shown.
RequestFits ==
  ~crossed => /\ \A one, other \in requests : one = other
              /\ \A request \in requests : request.kind = "files" => request.about = selectedRepo

RequestTypeOK ==
  \A request \in requests : /\ request.kind = "files" => request.about \in Repos
                            /\ request.kind = "search" => request.about \in Queries

SearchInv == SearchTypeOK /\ RequestTypeOK /\ RequestFits /\ FilesOfRepo

LEMMA SearchTypeStep ==
  ASSUME SearchTypeOK, RequestTypeOK, [SearchNext]_searchVars
  PROVE  SearchTypeOK' /\ RequestTypeOK'
<1> USE RequestsAssumption DEF SearchTypeOK, RequestTypeOK
<1>1. ASSUME NEW q \in Queries \cup {NoQuery}, LlmSearchInput(q)
      PROVE  SearchTypeOK' /\ RequestTypeOK'
  BY <1>1 DEF LlmSearchInput
<1>2. CASE LlmSearchSubmit
  <2> DEFINE request == [no |-> asked + 1, kind |-> "search", about |-> query]
  <2>1. query \in Queries
    BY <1>2 DEF LlmSearchSubmit
  <2>2. asked' = asked + 1 /\ asked < MaxRequests /\ requests' = requests \cup {request}
    BY <1>2 DEF LlmSearchSubmit, Send
  <2>3. asked + 1 \in 1..MaxRequests /\ asked' \in 0..MaxRequests
    BY <2>2
  <2>4. /\ request \in [no : 1..MaxRequests, kind : {"search", "files"}, about : Queries \cup Repos]
        /\ request.kind = "search" /\ request.about = query
    BY <2>1, <2>3
  <2>5. crossed' \in BOOLEAN
    BY <1>2 DEF LlmSearchSubmit, Send
  <2> HIDE DEF request
  <2>6. QED
    BY <1>2, <2>1, <2>2, <2>3, <2>4, <2>5 DEF LlmSearchSubmit
<1>3. ASSUME NEW repo \in results, ShowFiles(repo)
      PROVE  SearchTypeOK' /\ RequestTypeOK'
  <2> DEFINE request == [no |-> asked + 1, kind |-> "files", about |-> repo]
  <2>1. repo \in Repos
    BY <1>3 DEF ShowFiles
  <2>2. asked' = asked + 1 /\ asked < MaxRequests /\ requests' = requests \cup {request}
    BY <1>3 DEF ShowFiles, Send
  <2>3. asked + 1 \in 1..MaxRequests /\ asked' \in 0..MaxRequests
    BY <2>2
  <2>4. /\ request \in [no : 1..MaxRequests, kind : {"search", "files"}, about : Queries \cup Repos]
        /\ request.kind = "files" /\ request.about = repo
    BY <2>1, <2>3
  <2>5. crossed' \in BOOLEAN
    BY <1>3 DEF ShowFiles, Send
  <2> HIDE DEF request
  <2>6. QED
    BY <1>3, <2>1, <2>2, <2>3, <2>4, <2>5 DEF ShowFiles
<1>4. ASSUME NEW repo \in results, HideFiles(repo)
      PROVE  SearchTypeOK' /\ RequestTypeOK'
  BY <1>4 DEF HideFiles
<1>5. ASSUME NEW request \in requests, LlmSearchResults(request)
      PROVE  SearchTypeOK' /\ RequestTypeOK'
  BY <1>5 DEF LlmSearchResults, HitsOf
<1>6. ASSUME NEW request \in requests, LlmSearchFiles(request)
      PROVE  SearchTypeOK' /\ RequestTypeOK'
  <2>1. FilesIn(request.about) \subseteq [of : Repos, no : 1..2]
    BY <1>6 DEF LlmSearchFiles, FilesIn
  <2>2. QED
    BY <1>6, <2>1 DEF LlmSearchFiles
<1>7. ASSUME NEW file \in files, LlmSearchDownload(file)
      PROVE  SearchTypeOK' /\ RequestTypeOK'
  BY <1>7 DEF LlmSearchDownload
<1>8. CASE UNCHANGED searchVars
  BY <1>8 DEF searchVars
<1>9. QED
  BY <1>1, <1>2, <1>3, <1>4, <1>5, <1>6, <1>7, <1>8 DEF SearchNext

\* While no request has been sent beside another, every answer is for what is shown.
LEMMA SearchFitsStep ==
  ASSUME SearchTypeOK, RequestFits, FilesOfRepo, [SearchNext]_searchVars
  PROVE  RequestFits' /\ FilesOfRepo'
<1> USE DEF RequestFits, FilesOfRepo
<1>1. ASSUME NEW q \in Queries \cup {NoQuery}, LlmSearchInput(q)
      PROVE  RequestFits' /\ FilesOfRepo'
  BY <1>1 DEF LlmSearchInput
<1>2. CASE LlmSearchSubmit
  <2> DEFINE request == [no |-> asked + 1, kind |-> "search", about |-> query]
  <2>1. request.kind = "search" /\ request.about = query
    OBVIOUS
  <2>2. requests' = requests \cup {request} /\ (crossed' <=> crossed \/ requests # {})
    BY <1>2 DEF LlmSearchSubmit, Send, SearchTypeOK
  <2> HIDE DEF request
  <2>3. QED
    BY <1>2, <2>1, <2>2 DEF LlmSearchSubmit
<1>3. ASSUME NEW repo \in results, ShowFiles(repo)
      PROVE  RequestFits' /\ FilesOfRepo'
  <2> DEFINE request == [no |-> asked + 1, kind |-> "files", about |-> repo]
  <2>1. request.kind = "files" /\ request.about = repo
    OBVIOUS
  <2>2. requests' = requests \cup {request} /\ (crossed' <=> crossed \/ requests # {})
    BY <1>3 DEF ShowFiles, Send, SearchTypeOK
  <2> HIDE DEF request
  <2>3. QED
    BY <1>3, <2>1, <2>2 DEF ShowFiles
<1>4. ASSUME NEW repo \in results, HideFiles(repo)
      PROVE  RequestFits' /\ FilesOfRepo'
  BY <1>4 DEF HideFiles
<1>5. ASSUME NEW request \in requests, LlmSearchResults(request)
      PROVE  RequestFits' /\ FilesOfRepo'
  BY <1>5 DEF LlmSearchResults
<1>6. ASSUME NEW request \in requests, LlmSearchFiles(request)
      PROVE  RequestFits' /\ FilesOfRepo'
  <2>1. \A file \in FilesIn(request.about) : file.of = request.about
    BY DEF FilesIn
  <2>2. QED
    BY <1>6, <2>1 DEF LlmSearchFiles
<1>7. ASSUME NEW file \in files, LlmSearchDownload(file)
      PROVE  RequestFits' /\ FilesOfRepo'
  BY <1>7 DEF LlmSearchDownload
<1>8. CASE UNCHANGED searchVars
  BY <1>8 DEF searchVars
<1>9. QED
  BY <1>1, <1>2, <1>3, <1>4, <1>5, <1>6, <1>7, <1>8 DEF SearchNext

\* For any queries, repositories and number of requests: what is shown under a
\* repository is its own, until a request is sent while another is in flight.
THEOREM SearchFits == SearchSpec => [](SearchTypeOK /\ FilesOfRepo)
<1>1. SearchInit => SearchInv
  <2>1. SearchInit => SearchTypeOK
    <3>1. ASSUME SearchInit PROVE asked \in 0..MaxRequests
      BY <3>1, RequestsAssumption DEF SearchInit
    <3>2. QED
      BY <3>1 DEF SearchInit, SearchTypeOK
  <2>2. SearchInit => RequestTypeOK /\ RequestFits /\ FilesOfRepo
    BY DEF SearchInit, RequestTypeOK, RequestFits, FilesOfRepo
  <2>3. QED
    BY <2>1, <2>2 DEF SearchInv
<1>2. SearchInv /\ [SearchNext]_searchVars => SearchInv'
  BY SearchTypeStep, SearchFitsStep DEF SearchInv
<1>3. SearchInv => SearchTypeOK /\ FilesOfRepo
  BY DEF SearchInv
<1>4. QED
  BY <1>1, <1>2, <1>3, PTL DEF SearchSpec

-----------------------------------------------------------------------------
(* HfLogin *)

\* While an attempt waits on the port no later one has opened a tab, and only then do
\* connections wait; a code in the backlog is of a tab that granted access.
TabsFit ==
  /\ port \in 0..Len(logins) /\ Len(logins) <= MaxLogins /\ checking <= checks
  /\ port # 0 => \A no \in DOMAIN logins : no > port => tabs[no] = "none"
  /\ backlog # <<>> => port # 0
  /\ \A k \in DOMAIN backlog :
       backlog[k].code => backlog[k].of \in DOMAIN logins /\ tabs[backlog[k].of] = "granted"

\* An attempt that waits has no code yet.
WaitsForCode == \A no \in DOMAIN logins : logins[no] = "waiting" => codeOf[no] = 0

LoginInv == HfLoginTypeOK /\ TabsFit /\ WaitsForCode /\ CodeIsItsOwn

LEMMA LoginTypeStep ==
  ASSUME HfLoginTypeOK, TabsFit, [HfLoginNext]_hfLoginVars
  PROVE  HfLoginTypeOK'
<1> USE LoginAssumption DEF HfLoginTypeOK, TabsFit
<1>1. CASE HfSignIn
  <2>1. Len(logins) + 1 \in 1..MaxLogins
    BY <1>1 DEF HfSignIn
  <2>2. logins' \in Seq({"waiting", "exchanging", "asking", "done", "failed", "over"})
        /\ Len(logins') = Len(logins) + 1
    <3>1. \E stage \in {"waiting", "failed"} : logins' = Append(logins, stage)
      BY <1>1 DEF HfSignIn
    <3>2. QED
      BY <3>1, AppendProperties
  <2>3. codeOf' \in Seq(0..MaxLogins) /\ Len(codeOf') = Len(codeOf) + 1
    <3>1. codeOf' = Append(codeOf, 0) /\ 0 \in 0..MaxLogins
      BY <1>1 DEF HfSignIn
    <3>2. QED
      BY <3>1, AppendProperties
  <2>4. tabs' \in Seq({"open", "none", "granted", "refused"}) /\ Len(tabs') = Len(tabs) + 1
    <3>1. PICK tab \in {"open", "none", "granted", "refused"} : tabs' = Append(tabs, tab)
      BY <1>1 DEF HfSignIn
    <3>2. QED
      BY <3>1, AppendProperties
  <2>5. port' \in 0..MaxLogins
    BY <1>1, <2>1 DEF HfSignIn
  <2>6. QED
    BY <1>1, <2>2, <2>3, <2>4, <2>5 DEF HfSignIn
<1>2. ASSUME NEW no \in DOMAIN logins, NEW answer \in {"granted", "refused"}, AnswerTab(no, answer)
      PROVE  HfLoginTypeOK'
  <2>1. [of |-> no, code |-> answer = "granted", arrived |-> FALSE] \in Redirect
    BY DEF Redirect
  <2>2. tabs' \in Seq({"open", "none", "granted", "refused"}) /\ Len(tabs') = Len(tabs)
    BY <1>2 DEF AnswerTab
  <2>3. backlog' \in Seq(Redirect)
    BY <1>2, <2>1 DEF AnswerTab
  <2>4. QED
    BY <1>2, <2>2, <2>3 DEF AnswerTab
<1>3. ASSUME NEW no \in DOMAIN logins, ExchangeOrAsk(no)
      PROVE  HfLoginTypeOK'
  BY <1>3 DEF ExchangeOrAsk
<1>4. ASSUME NEW no \in DOMAIN logins, LoginEnds(no)
      PROVE  HfLoginTypeOK'
  <2>1. logins' \in Seq({"waiting", "exchanging", "asking", "done", "failed", "over"})
        /\ Len(logins') = Len(logins)
    BY <1>4 DEF LoginEnds
  <2>2. username' \in 0..ByToken
    BY <1>4 DEF LoginEnds, ByToken
  <2>3. QED
    BY <1>4, <2>1, <2>2 DEF LoginEnds
<1>5. ASSUME NEW k \in DOMAIN backlog, RequestArrives(k)
      PROVE  HfLoginTypeOK'
  <2>1. [backlog[k] EXCEPT !.arrived = TRUE] \in Redirect
    <3>1. backlog[k] \in Redirect
      OBVIOUS
    <3>2. QED
      BY <3>1 DEF Redirect
  <2>2. QED
    BY <1>5, <2>1 DEF RequestArrives
<1>6. CASE StrayRequest
  <2>1. [of |-> 0, code |-> FALSE, arrived |-> FALSE] \in Redirect
    BY DEF Redirect
  <2>2. QED
    BY <1>6, <2>1 DEF StrayRequest
<1>7. CASE AcceptCallback
  <2>1. Head(backlog) \in Redirect /\ Tail(backlog) \in Seq(Redirect)
    BY <1>7 DEF AcceptCallback
  <2>2. Head(backlog).of \in 0..MaxLogins
    BY <2>1 DEF Redirect
  <2>3. CASE Head(backlog).arrived /\ Head(backlog).code
    <3>1. TakeCode(port, Head(backlog)) /\ UNCHANGED <<tabs, signInBusy, checking, username, checks, strays, unheard>>
      BY <1>7, <2>3 DEF AcceptCallback
    <3>2. backlog' = <<>> /\ backlog' \in Seq(Redirect) /\ port' = 0
      BY <3>1, EmptySeq DEF TakeCode, Unbind
    <3>3. logins' \in Seq({"waiting", "exchanging", "asking", "done", "failed", "over"})
          /\ Len(logins') = Len(logins)
      <4>1. \E stage \in {"exchanging", "failed"} : logins' = [logins EXCEPT ![port] = stage]
        BY <3>1 DEF TakeCode
      <4>2. port \in 1..Len(logins)
        BY <1>7 DEF AcceptCallback
      <4>3. QED
        BY <4>1, <4>2, ExceptSeq
    <3>4. codeOf' \in Seq(0..MaxLogins) /\ Len(codeOf') = Len(codeOf)
      <4>1. codeOf' = [codeOf EXCEPT ![port] = Head(backlog).of] /\ port \in 1..Len(codeOf)
        BY <1>7, <3>1 DEF AcceptCallback, TakeCode
      <4>2. QED
        BY <2>2, <4>1, ExceptSeq
    <3>5. QED
      BY <3>1, <3>2, <3>3, <3>4
  <2>4. CASE ~ (Head(backlog).arrived /\ Head(backlog).code)
    BY <1>7, <2>1, <2>2, <2>4 DEF AcceptCallback
  <2>5. QED
    BY <2>3, <2>4
<1>8. CASE LoginTimesOut
  BY <1>8, EmptySeq DEF LoginTimesOut, Unbind
<1>9. CASE HfTokenSubmit \/ CheckEnds \/ HfSignOut
  <2>1. username' \in 0..ByToken
    BY <1>9 DEF HfTokenSubmit, CheckEnds, HfSignOut, ByToken
  <2>2. checking \in Nat /\ checks \in Nat /\ MaxChecks \in Nat /\ checking <= checks /\ checks <= MaxChecks
    OBVIOUS
  <2>3. /\ signInBusy' \in BOOLEAN
        /\ \/ checking' = checking + 1 /\ checks' = checks + 1 /\ checks < MaxChecks
           \/ checking' = checking - 1 /\ checks' = checks /\ checking > 0
           \/ checking' = checking /\ checks' = checks
    BY <1>9 DEF HfTokenSubmit, CheckEnds, HfSignOut
  <2>4. checking' \in 0..MaxChecks /\ checks' \in 0..MaxChecks
    BY <2>2, <2>3, SMTT(30)
  <2>5. QED
    BY <1>9, <2>1, <2>3, <2>4 DEF HfTokenSubmit, CheckEnds, HfSignOut
<1>10. CASE UNCHANGED hfLoginVars
  BY <1>10 DEF hfLoginVars
<1>11. QED
  BY <1>1, <1>2, <1>3, <1>4, <1>5, <1>6, <1>7, <1>8, <1>9, <1>10 DEF HfLoginNext

\* The tabs: only an attempt that listens has opened the last of them.
LEMMA TabsStep ==
  ASSUME HfLoginTypeOK, TabsFit, CodeIsItsOwn, [HfLoginNext]_hfLoginVars
  PROVE  TabsFit'
<1> USE LoginAssumption DEF TabsFit
<1> USE DEF HfLoginTypeOK
<1>1. CASE HfSignIn
  <2>1. PICK stage \in {"waiting", "failed"}, tab \in {"open", "none"} :
          /\ logins' = Append(logins, stage) /\ tabs' = Append(tabs, tab)
          /\ port' = Len(logins) + 1 \/ (port' = port /\ tab = "none")
          /\ port = 0 \/ port' = port
    BY <1>1 DEF HfSignIn
  <2>2. /\ Len(logins') = Len(logins) + 1 /\ DOMAIN logins' = 1..Len(logins) + 1
        /\ \A no \in 1..Len(logins) : tabs'[no] = tabs[no]
        /\ tabs'[Len(logins) + 1] = tab
    BY <2>1
  <2>3. backlog' = backlog /\ Len(logins) < MaxLogins /\ UNCHANGED <<checking, checks>>
    BY <1>1 DEF HfSignIn
  <2>4. DOMAIN logins = 1..Len(logins) /\ Len(logins) \in Nat /\ port \in Nat
    OBVIOUS
  <2>5. port' # 0 => \A no \in DOMAIN logins' : no > port' => tabs'[no] = "none"
    BY <2>1, <2>2, <2>4
  <2>6. \A k \in DOMAIN backlog' :
          backlog'[k].code => backlog'[k].of \in DOMAIN logins' /\ tabs'[backlog'[k].of] = "granted"
    BY <2>2, <2>3, <2>4, SMTT(30)
  <2>7. port' \in 0..Len(logins')
    BY <2>1, <2>2, <2>4
  <2>8. backlog' # <<>> => port' # 0
    BY <2>1, <2>3
  <2>9. QED
    BY <2>2, <2>3, <2>4, <2>5, <2>6, <2>7, <2>8
<1>2. ASSUME NEW no \in DOMAIN logins, NEW answer \in {"granted", "refused"}, AnswerTab(no, answer)
      PROVE  TabsFit'
  <2> DEFINE new == [of |-> no, code |-> answer = "granted", arrived |-> FALSE]
  <2>1. tabs' = [tabs EXCEPT ![no] = answer] /\ tabs[no] = "open" /\ UNCHANGED <<logins, port, checking, checks>>
    BY <1>2 DEF AnswerTab
  <2>2. backlog' = backlog \/ (port # 0 /\ backlog' = Append(backlog, new))
    BY <1>2 DEF AnswerTab
  <2>3. new.of = no /\ (new.code <=> answer = "granted")
    OBVIOUS
  <2> HIDE DEF new
  <2>4. \A k \in DOMAIN backlog' : (k \in DOMAIN backlog /\ backlog'[k] = backlog[k]) \/ backlog'[k] = new
    <3>1. CASE backlog' = backlog
      BY <3>1
    <3>2. CASE backlog' = Append(backlog, new)
      BY <3>2
    <3>3. QED
      BY <2>2, <3>1, <3>2
  <2>5. \A k \in DOMAIN backlog' :
          backlog'[k].code => backlog'[k].of \in DOMAIN logins /\ tabs'[backlog'[k].of] = "granted"
    BY <2>1, <2>3, <2>4, SMTT(30)
  <2>6. port # 0 => \A other \in DOMAIN logins : other > port => tabs'[other] = "none"
    BY <2>1
  <2>7. backlog' # <<>> => port # 0
    BY <2>2
  <2>8. QED
    BY <2>1, <2>5, <2>6, <2>7
<1>3. CASE \E no \in DOMAIN logins : ExchangeOrAsk(no) \/ LoginEnds(no)
  <2>1. DOMAIN logins' = DOMAIN logins /\ Len(logins') = Len(logins)
    BY <1>3 DEF ExchangeOrAsk, LoginEnds
  <2>2. UNCHANGED <<tabs, port, backlog, checking, checks>>
    BY <1>3 DEF ExchangeOrAsk, LoginEnds
  <2>3. QED
    BY <2>1, <2>2
<1>4. ASSUME NEW k \in DOMAIN backlog, RequestArrives(k)
      PROVE  TabsFit'
  <2>1. UNCHANGED <<logins, tabs, port, checking, checks>> /\ DOMAIN backlog' = DOMAIN backlog /\ backlog # <<>>
    BY <1>4 DEF RequestArrives
  <2>2. \A i \in DOMAIN backlog : backlog'[i].code = backlog[i].code /\ backlog'[i].of = backlog[i].of
    BY <1>4 DEF RequestArrives, Redirect
  <2>3. QED
    BY <2>1, <2>2
<1>5. CASE StrayRequest
  <2> DEFINE new == [of |-> 0, code |-> FALSE, arrived |-> FALSE]
  <2>1. UNCHANGED <<logins, tabs, port, checking, checks>> /\ port # 0 /\ backlog' = Append(backlog, new)
    BY <1>5 DEF StrayRequest
  <2>2. ~new.code
    OBVIOUS
  <2> HIDE DEF new
  <2>3. \A k \in DOMAIN backlog' : (k \in DOMAIN backlog /\ backlog'[k] = backlog[k]) \/ backlog'[k] = new
    BY <2>1, SMTT(30)
  <2>4. QED
    BY <2>1, <2>2, <2>3
<1>6. ASSUME Unbind, Len(logins') = Len(logins), DOMAIN logins' = DOMAIN logins,
             UNCHANGED <<tabs, checking, checks>>
      PROVE  TabsFit'
  <2>1. port' = 0 /\ DOMAIN backlog' = {} /\ backlog' = <<>>
    BY <1>6 DEF Unbind
  <2>2. QED
    BY <1>6, <2>1
<1>7. CASE AcceptCallback
  <2>1. CASE TakeCode(port, Head(backlog))
    <3>1. Unbind /\ Len(logins') = Len(logins) /\ DOMAIN logins' = DOMAIN logins
      BY <2>1 DEF TakeCode
    <3>2. QED
      BY <1>6, <1>7, <3>1 DEF AcceptCallback
  <2>2. CASE backlog' = Tail(backlog) /\ UNCHANGED <<port, codeOf, logins>>
    <3>1. backlog # <<>> /\ UNCHANGED <<tabs, checking, checks>>
      BY <1>7 DEF AcceptCallback
    <3>2. \A k \in DOMAIN backlog' : k + 1 \in DOMAIN backlog /\ backlog'[k] = backlog[k + 1]
      BY <2>2, <3>1
    <3>3. QED
      BY <2>2, <3>1, <3>2
  <2>3. QED
    BY <1>7, <2>1, <2>2 DEF AcceptCallback
<1>8. CASE LoginTimesOut
  <2>1. Unbind /\ Len(logins') = Len(logins) /\ DOMAIN logins' = DOMAIN logins
        /\ UNCHANGED <<tabs, checking, checks>>
    BY <1>8 DEF LoginTimesOut
  <2>2. QED
    BY <1>6, <2>1
<1>9. CASE HfTokenSubmit \/ CheckEnds \/ HfSignOut
  <2>1. UNCHANGED <<logins, tabs, port, backlog>>
    BY <1>9 DEF HfTokenSubmit, CheckEnds, HfSignOut
  <2>2. checking' <= checks'
    <3>1. checking \in Nat /\ checks \in Nat /\ checking <= checks
      OBVIOUS
    <3>2. \/ checking' = checking + 1 /\ checks' = checks + 1
          \/ checking' = checking - 1 /\ checks' = checks
          \/ checking' = checking /\ checks' = checks
      BY <1>9 DEF HfTokenSubmit, CheckEnds, HfSignOut
    <3>3. QED
      BY <3>1, <3>2
  <2>3. QED
    BY <2>1, <2>2
<1>10. CASE UNCHANGED hfLoginVars
  BY <1>10 DEF hfLoginVars
<1>11. QED
  BY <1>1, <1>2, <1>3, <1>4, <1>5, <1>7, <1>8, <1>9, <1>10 DEF HfLoginNext

\* The attempts: a code is taken by the attempt that waits, and goes on with it only if
\* it is its own.
LEMMA CodesStep ==
  ASSUME LoginInv, [HfLoginNext]_hfLoginVars
  PROVE  WaitsForCode' /\ CodeIsItsOwn'
<1> USE LoginAssumption DEF LoginInv, WaitsForCode, CodeIsItsOwn
<1>1. /\ DOMAIN logins = 1..Len(logins) /\ Len(logins) \in Nat /\ port \in Nat
      /\ DOMAIN tabs = DOMAIN logins /\ DOMAIN codeOf = DOMAIN logins
  BY DEF HfLoginTypeOK
<1>2. CASE HfSignIn
  <2>1. PICK stage \in {"waiting", "failed"}, tab \in {"open", "none"} :
          /\ logins' = Append(logins, stage) /\ tabs' = Append(tabs, tab) /\ codeOf' = Append(codeOf, 0)
          /\ \/ stage = "waiting" /\ port = 0 /\ port' = Len(logins) + 1
             \/ stage = "failed" /\ port' = port
    BY <1>2 DEF HfSignIn
  <2>2. /\ DOMAIN logins' = 1..Len(logins) + 1
        /\ \A no \in 1..Len(logins) :
             logins'[no] = logins[no] /\ tabs'[no] = tabs[no] /\ codeOf'[no] = codeOf[no]
        /\ logins'[Len(logins) + 1] = stage /\ codeOf'[Len(logins) + 1] = 0
        /\ tabs'[Len(logins) + 1] = tab
    BY <2>1 DEF HfLoginTypeOK
  <2>3. UNCHANGED <<backlog, username, unheard>> /\ username = 0
    BY <1>2 DEF HfSignIn
  <2>4. port <= Len(logins)
    BY DEF TabsFit
  <2>5. ASSUME NEW no \in DOMAIN logins'
        PROVE  no \in DOMAIN logins \/ no = Len(logins) + 1
    BY <1>1, <2>2
  <2>6. \A no \in DOMAIN logins' : logins'[no] = "waiting" <=> port' = no
    BY <1>1, <2>1, <2>2, <2>4, <2>5
  <2>7. WaitsForCode'
    BY <1>1, <2>2, <2>5
  <2>8. ASSUME NEW no \in DOMAIN logins'
        PROVE  /\ logins'[no] \in {"exchanging", "asking", "done"} => codeOf'[no] = no /\ tabs'[no] = "granted"
               /\ username' = no => codeOf'[no] = no
               /\ codeOf'[no] \notin {0, no} => logins'[no] \in {"failed", "over"} /\ codeOf'[no] < no
               /\ logins'[no] = "waiting" /\ tabs'[no] = "granted" =>
                    no \in unheard' \/ \E k \in DOMAIN backlog' : backlog'[k].of = no /\ backlog'[k].code
    <3>1. CASE no \in DOMAIN logins
      BY <1>1, <2>2, <2>3, <3>1
    <3>2. CASE no = Len(logins) + 1
      BY <1>1, <2>2, <2>3, <3>2
    <3>3. QED
      BY <2>5, <3>1, <3>2
  <2>9. QED
    BY <2>6, <2>7, <2>8
<1>3. ASSUME NEW at \in DOMAIN logins, NEW answer \in {"granted", "refused"}, AnswerTab(at, answer)
      PROVE  WaitsForCode' /\ CodeIsItsOwn'
  <2> DEFINE new == [of |-> at, code |-> answer = "granted", arrived |-> FALSE]
  <2>1. tabs' = [tabs EXCEPT ![at] = answer] /\ tabs[at] = "open"
        /\ UNCHANGED <<logins, codeOf, port, username, unheard>>
    BY <1>3 DEF AnswerTab
  <2>2. backlog' = IF port = 0 THEN backlog ELSE Append(backlog, new)
    BY <1>3 DEF AnswerTab
  <2>3. new.of = at /\ (new.code <=> answer = "granted")
    OBVIOUS
  <2> HIDE DEF new
  <2>4. \A k \in DOMAIN backlog : k \in DOMAIN backlog' /\ backlog'[k] = backlog[k]
    BY <2>2 DEF HfLoginTypeOK
  <2>5. port # 0 => \E k \in DOMAIN backlog' : backlog'[k] = new
    <3>1. ASSUME port # 0
          PROVE  Len(backlog) + 1 \in DOMAIN backlog' /\ backlog'[Len(backlog) + 1] = new
      BY <2>2, <3>1 DEF HfLoginTypeOK
    <3>2. QED
      BY <3>1
  <2>6. \A no \in DOMAIN logins : no # at => tabs'[no] = tabs[no]
    BY <2>1 DEF HfLoginTypeOK
  <2>7. tabs'[at] = answer
    BY <1>1, <2>1
  <2>8. QED
    BY <1>1, <2>1, <2>3, <2>4, <2>5, <2>6, <2>7
<1>4. ASSUME NEW at \in DOMAIN logins, ExchangeOrAsk(at)
      PROVE  WaitsForCode' /\ CodeIsItsOwn'
  <2>1. PICK stage \in {"asking", "done", "failed"} : logins' = [logins EXCEPT ![at] = stage]
    BY <1>4 DEF ExchangeOrAsk
  <2>2. logins[at] \in {"exchanging", "asking"} /\ UNCHANGED <<codeOf, tabs, port, backlog, username, unheard>>
    BY <1>4 DEF ExchangeOrAsk
  <2>3. DOMAIN logins' = DOMAIN logins /\ logins'[at] = stage
        /\ \A no \in DOMAIN logins : no # at => logins'[no] = logins[no]
    BY <2>1 DEF HfLoginTypeOK
  <2>4. QED
    BY <1>1, <2>2, <2>3
<1>5. ASSUME NEW at \in DOMAIN logins, LoginEnds(at)
      PROVE  WaitsForCode' /\ CodeIsItsOwn'
  <2>1. /\ logins[at] \in {"done", "failed"} /\ UNCHANGED <<codeOf, tabs, port, backlog, unheard>>
        /\ username' = username \/ (username' = at /\ logins[at] = "done")
    BY <1>5 DEF LoginEnds
  <2>2. DOMAIN logins' = DOMAIN logins /\ logins'[at] = "over"
        /\ \A no \in DOMAIN logins : no # at => logins'[no] = logins[no]
    BY <1>5 DEF LoginEnds, HfLoginTypeOK
  <2>3. QED
    BY <1>1, <2>1, <2>2
<1>6. ASSUME NEW i \in DOMAIN backlog, RequestArrives(i)
      PROVE  WaitsForCode' /\ CodeIsItsOwn'
  <2>1. UNCHANGED <<logins, codeOf, tabs, port, username, unheard>> /\ DOMAIN backlog' = DOMAIN backlog
    BY <1>6 DEF RequestArrives
  <2>2. \A k \in DOMAIN backlog : backlog'[k].code = backlog[k].code /\ backlog'[k].of = backlog[k].of
    BY <1>6 DEF RequestArrives, HfLoginTypeOK, Redirect
  <2>3. QED
    BY <2>1, <2>2
<1>7. CASE StrayRequest
  <2>1. UNCHANGED <<logins, codeOf, tabs, port, username, unheard>>
    BY <1>7 DEF StrayRequest
  <2>2. \A k \in DOMAIN backlog : k \in DOMAIN backlog' /\ backlog'[k] = backlog[k]
    BY <1>7 DEF StrayRequest, HfLoginTypeOK
  <2>3. QED
    BY <2>1, <2>2
<1>8. CASE AcceptCallback /\ TakeCode(port, Head(backlog))
  <2> DEFINE request == Head(backlog)
  <2>1. port # 0 /\ port \in DOMAIN logins /\ backlog # <<>> /\ port' = 0
        /\ UNCHANGED <<tabs, username, unheard>>
    BY <1>1, <1>8 DEF AcceptCallback, TakeCode, Unbind, TabsFit
  <2>2. request.code
    <3>1. CASE request.arrived /\ request.code
      BY <3>1
    <3>2. CASE ~ (request.arrived /\ request.code)
      BY <1>8, <2>1, <3>2 DEF AcceptCallback
    <3>3. QED
      BY <3>1, <3>2
  <2>3. request.of \in DOMAIN logins /\ tabs[request.of] = "granted"
    <3>1. 1 \in DOMAIN backlog /\ request = backlog[1]
      BY <2>1 DEF HfLoginTypeOK
    <3>2. QED
      BY <2>2, <3>1 DEF TabsFit
  <2>4. request.of <= port
    BY <1>1, <2>1, <2>3 DEF TabsFit
  <2>5. /\ DOMAIN logins' = DOMAIN logins
        /\ codeOf'[port] = request.of
        /\ logins'[port] = IF request.of = port THEN "exchanging" ELSE "failed"
        /\ \A no \in DOMAIN logins : no # port => logins'[no] = logins[no] /\ codeOf'[no] = codeOf[no]
    BY <1>1, <1>8, <2>1 DEF TakeCode, HfLoginTypeOK
  <2>6. username # port
    BY <1>1, <2>1
  <2> HIDE DEF request
  <2>7. QED
    BY <1>1, <2>1, <2>3, <2>4, <2>5, <2>6
<1>9. CASE AcceptCallback /\ ~TakeCode(port, Head(backlog))
  <2> DEFINE request == Head(backlog)
  <2>1. backlog # <<>> /\ backlog' = Tail(backlog)
        /\ UNCHANGED <<logins, codeOf, tabs, port, username>>
        /\ ~ (request.arrived /\ request.code)
        /\ unheard' = IF request.arrived THEN unheard ELSE unheard \cup {request.of}
    BY <1>9 DEF AcceptCallback
  <2>2. \A k \in DOMAIN backlog : backlog[k] = request \/ (k - 1 \in DOMAIN backlog' /\ backlog'[k - 1] = backlog[k])
    BY <2>1 DEF HfLoginTypeOK
  <2> HIDE DEF request
  <2>3. ASSUME NEW no \in DOMAIN logins, logins[no] = "waiting", tabs[no] = "granted"
        PROVE  no \in unheard' \/ \E k \in DOMAIN backlog' : backlog'[k].of = no /\ backlog'[k].code
    <3>1. CASE no \in unheard
      BY <2>1, <3>1
    <3>2. CASE no \notin unheard
      <4>1. PICK k \in DOMAIN backlog : backlog[k].of = no /\ backlog[k].code
        BY <2>3, <3>2
      <4>2. CASE backlog[k] = request
        BY <2>1, <4>1, <4>2
      <4>3. CASE k - 1 \in DOMAIN backlog' /\ backlog'[k - 1] = backlog[k]
        BY <4>1, <4>3
      <4>4. QED
        BY <2>2, <4>2, <4>3
    <3>3. QED
      BY <3>1, <3>2
  <2>4. WaitsForCode'
    BY <2>1
  <2>5. QED
    BY <2>1, <2>3, <2>4
<1>10. CASE LoginTimesOut
  <2>1. port \in DOMAIN logins /\ port' = 0 /\ UNCHANGED <<codeOf, tabs, username, unheard>>
    BY <1>1, <1>10 DEF LoginTimesOut, Unbind, TabsFit
  <2>2. /\ DOMAIN logins' = DOMAIN logins /\ logins'[port] = "failed"
        /\ \A no \in DOMAIN logins : no # port => logins'[no] = logins[no]
    BY <1>10, <2>1 DEF LoginTimesOut, HfLoginTypeOK
  <2>3. QED
    BY <1>1, <2>1, <2>2
<1>11. CASE HfTokenSubmit \/ CheckEnds \/ HfSignOut
  <2>1. UNCHANGED <<logins, codeOf, tabs, port, backlog, unheard>>
    BY <1>11 DEF HfTokenSubmit, CheckEnds, HfSignOut
  <2>2. username' = username \/ username' = ByToken \/ username' = 0
    BY <1>11 DEF HfTokenSubmit, CheckEnds, HfSignOut
  <2>3. ByToken \notin DOMAIN logins
    BY <1>1 DEF ByToken, TabsFit
  <2>4. QED
    BY <1>1, <2>1, <2>2, <2>3
<1>12. CASE UNCHANGED hfLoginVars
  BY <1>12 DEF hfLoginVars
<1>13. QED
  BY <1>2, <1>3, <1>4, <1>5, <1>6, <1>7, <1>8, <1>9, <1>10, <1>11, <1>12 DEF HfLoginNext

\* For any number of attempts, tokens and stray requests, in whatever order tabs are
\* answered and connections accepted: an attempt goes on only with its own tab's code.
THEOREM LoginFits == HfLoginSpec => [](HfLoginTypeOK /\ CodeIsItsOwn)
<1>1. HfLoginInit => LoginInv
  <2>1. SUFFICES ASSUME HfLoginInit PROVE LoginInv
    OBVIOUS
  <2>2. Len(logins) = 0 /\ DOMAIN logins = {} /\ DOMAIN backlog = {}
    BY <2>1, EmptySeq DEF HfLoginInit
  <2>3. HfLoginTypeOK
    <3>1. /\ logins \in Seq({"waiting", "exchanging", "asking", "done", "failed", "over"})
          /\ codeOf \in Seq(0..MaxLogins) /\ backlog \in Seq(Redirect)
          /\ tabs \in Seq({"open", "none", "granted", "refused"})
      BY <2>1, EmptySeq DEF HfLoginInit
    <3>2. Len(codeOf) = Len(logins) /\ Len(tabs) = Len(logins)
      BY <2>1 DEF HfLoginInit
    <3>3. /\ port \in 0..MaxLogins /\ checking \in 0..MaxChecks /\ username \in 0..ByToken
          /\ checks \in 0..MaxChecks /\ strays \in 0..MaxStrays
      BY <2>1, LoginAssumption DEF HfLoginInit, ByToken
    <3>4. signInBusy \in BOOLEAN /\ unheard \subseteq 0..MaxLogins
      BY <2>1 DEF HfLoginInit
    <3>5. QED
      BY <3>1, <3>2, <3>3, <3>4 DEF HfLoginTypeOK
  <2>4. QED
    BY <2>1, <2>2, <2>3, LoginAssumption DEF HfLoginInit, LoginInv, TabsFit, WaitsForCode, CodeIsItsOwn
<1>2. LoginInv /\ [HfLoginNext]_hfLoginVars => LoginInv'
  BY LoginTypeStep, TabsStep, CodesStep DEF LoginInv
<1>3. LoginInv => HfLoginTypeOK /\ CodeIsItsOwn
  BY DEF LoginInv
<1>4. QED
  BY <1>1, <1>2, <1>3, PTL DEF HfLoginSpec

-----------------------------------------------------------------------------
(***************************************************************************)
(* The speakers: centroids are means of their turns, and nobody is forgotten. *)
(***************************************************************************)
\* The fold of the library, at the one or two elements that it is used for here: the
\* greatest of one or two positions is taken first, so the order is that of the sequence.
LEMMA GreatestOfTwo == Max({1}) = 1 /\ Max({1, 2}) = 2
BY DEF Max

\* The mean of a single turn.
LEMMA MeanOfOne ==
  ASSUME NEW voice \in Int, NEW scan
  PROVE  Mean(<<[voice |-> voice, scan |-> scan]>>) = [sum |-> voice, n |-> 1]
<1> DEFINE turn == [voice |-> voice, scan |-> scan]
           turns == <<turn>>
           iter == [s \in SUBSET {1} |-> IF s = {} THEN 0 ELSE voice]
           Is(f) == f = [s \in SUBSET DOMAIN turns |->
                          IF s = {} THEN 0
                          ELSE LET x == Max(s) IN f[s \ {x}] + turns[x].voice]
<1>1. DOMAIN turns = {1} /\ turns[1] = turn /\ turn.voice = voice /\ Len(turns) = 1
  OBVIOUS
<1> HIDE DEF turn, turns
<1>2. \A s \in SUBSET {1} : s = {} \/ s = {1}
  OBVIOUS
<1>3. Is(iter)
  <2>1. \A s \in SUBSET {1} : iter[s] =
          IF s = {} THEN 0 ELSE LET x == Max(s) IN iter[s \ {x}] + turns[x].voice
    <3>1. iter[{}] = 0 /\ iter[{1}] = voice
      OBVIOUS
    <3>2. {1} \ {1} = {}
      OBVIOUS
    <3> HIDE DEF iter
    <3>3. ASSUME NEW s \in SUBSET {1}
          PROVE  iter[s] = IF s = {} THEN 0 ELSE LET x == Max(s) IN iter[s \ {x}] + turns[x].voice
      <4>1. CASE s = {}
        BY <3>1, <4>1
      <4>2. CASE s = {1}
        BY <1>1, <3>1, <3>2, <4>2, GreatestOfTwo
      <4>3. QED
        BY <1>2, <4>1, <4>2
    <3>4. QED
      BY <3>3
  <2>2. iter = [s \in SUBSET {1} |-> 
          IF s = {} THEN 0 ELSE LET x == Max(s) IN iter[s \ {x}] + turns[x].voice]
    BY <2>1
  <2>3. QED
    BY <1>1, <2>2
<1>4. PICK f : f = (CHOOSE g : Is(g)) /\ Is(f)
  BY <1>3
<1>5. f[{}] = 0 /\ f[{1}] = f[{}] + voice
  <2>1. \A s \in SUBSET {1} : f[s] =
          IF s = {} THEN 0 ELSE LET x == Max(s) IN f[s \ {x}] + turns[x].voice
    BY <1>1, <1>4
  <2>2. QED
    BY <1>1, <2>1, GreatestOfTwo
<1>6. Mean(turns) = [sum |-> f[DOMAIN turns], n |-> Len(turns)]
  BY <1>4 DEF Mean, FoldLeft, MapThenFoldSet
<1>7. Mean(turns) = [sum |-> voice, n |-> 1]
  BY <1>1, <1>5, <1>6
<1>8. QED
  BY <1>7 DEF turns, turn

-----------------------------------------------------------------------------
(* Sequences of anything: a turn's voice may be a mean, of which nothing is known here. *)
IsSeq(s) == s \in Seq({s[k] : k \in 1..Len(s)})

LEMMA SeqIsSeq ==
  ASSUME NEW S, NEW s \in Seq(S)
  PROVE  IsSeq(s)
BY SeqOfRange, RangeEquality DEF IsSeq

LEMMA IsSeqLen ==
  ASSUME NEW s, IsSeq(s)
  PROVE  Len(s) \in Nat /\ DOMAIN s = 1..Len(s) /\ (s # <<>> => Len(s) > 0) /\ (s = <<>> => Len(s) = 0)
BY LenProperties, EmptySeq DEF IsSeq

LEMMA IsSeqAppend ==
  ASSUME NEW s, IsSeq(s), NEW x
  PROVE  /\ IsSeq(Append(s, x)) /\ Append(s, x) # <<>> /\ Len(Append(s, x)) = Len(s) + 1
         /\ \A k \in 1..Len(s) : Append(s, x)[k] = s[k]
         /\ Append(s, x)[Len(s) + 1] = x
<1> DEFINE S == {s[k] : k \in 1..Len(s)} \cup {x}
<1>1. s \in Seq(S) /\ x \in S
  BY SeqMonotonic DEF IsSeq
<1> HIDE DEF S
<1>2. /\ Append(s, x) \in Seq(S) /\ Append(s, x) # <<>> /\ Len(Append(s, x)) = Len(s) + 1
      /\ \A k \in 1..Len(s) : Append(s, x)[k] = s[k]
      /\ Append(s, x)[Len(s) + 1] = x
  BY <1>1, AppendProperties
<1>3. QED
  BY <1>2, SeqIsSeq

LEMMA IsSeqConcat ==
  ASSUME NEW s, IsSeq(s), NEW t, IsSeq(t)
  PROVE  IsSeq(s \o t) /\ (s = <<>> /\ t = <<>> <=> s \o t = <<>>)
<1> DEFINE S == {s[k] : k \in 1..Len(s)} \cup {t[k] : k \in 1..Len(t)}
<1>1. s \in Seq(S) /\ t \in Seq(S)
  BY SeqMonotonic DEF IsSeq
<1> HIDE DEF S
<1>2. s \o t \in Seq(S)
  BY <1>1, ConcatProperties
<1>3. s = <<>> /\ t = <<>> <=> s \o t = <<>>
  BY <1>1, ConcatEqualIffEmpty
<1>4. QED
  BY <1>2, <1>3, SeqIsSeq

LEMMA IsSeqExcept ==
  ASSUME NEW s, IsSeq(s), NEW i \in DOMAIN s, NEW e
  PROVE  /\ IsSeq([s EXCEPT ![i] = e]) /\ DOMAIN [s EXCEPT ![i] = e] = DOMAIN s
         /\ \A j \in DOMAIN s : [s EXCEPT ![i] = e][j] = IF j = i THEN e ELSE s[j]
<1> DEFINE S == {s[k] : k \in 1..Len(s)} \cup {e}
<1>1. s \in Seq(S) /\ e \in S /\ i \in 1..Len(s)
  BY SeqMonotonic, IsSeqLen DEF IsSeq
<1> HIDE DEF S
<1>2. [s EXCEPT ![i] = e] \in Seq(S)
  BY <1>1, ExceptSeq
<1>3. QED
  BY <1>2, SeqIsSeq

LEMMA IsSeqRemoveAt ==
  ASSUME NEW s, IsSeq(s), NEW i \in DOMAIN s
  PROVE  IsSeq(RemoveAt(s, i))
<1> DEFINE S == {s[k] : k \in 1..Len(s)}
<1>1. s \in Seq(S) /\ Len(s) \in Nat /\ i \in 1..Len(s) /\ \A k \in 1..Len(s) : s[k] \in S
  BY IsSeqLen DEF IsSeq
<1> HIDE DEF S
<1>2. SubSeq(s, 1, i - 1) \in Seq(S) /\ SubSeq(s, i + 1, Len(s)) \in Seq(S)
  BY <1>1, SubSeqProperties
<1>3. RemoveAt(s, i) \in Seq(S)
  BY <1>2, ConcatProperties DEF RemoveAt
<1>4. QED
  BY <1>3, SeqIsSeq

-----------------------------------------------------------------------------
(* Profiles and databases *)

\* A profile whose centroid is current.
ProfileFits(profile) ==
  /\ profile = [id |-> profile.id, name |-> profile.name,
                centroid |-> profile.centroid, turns |-> profile.turns]
  /\ IsSeq(profile.turns) /\ profile.centroid.n \in Nat \ {0}
  /\ profile.turns # <<>> => profile.centroid = Mean(profile.turns)

\* A database whose identifiers are its own, and below the next one.
DbFits(db, next) ==
  /\ db = [profiles |-> db.profiles, margins |-> db.margins] /\ IsSeq(db.profiles)
  /\ \A i \in DOMAIN db.profiles : ProfileFits(db.profiles[i]) /\ db.profiles[i].id \in 0..next - 1
  /\ \A i, j \in DOMAIN db.profiles : db.profiles[i].id = db.profiles[j].id => i = j
  /\ db.margins \in [DOMAIN db.margins -> 0..MarginCap]
  /\ \A pair \in DOMAIN db.margins : pair \subseteq Ids(db)

\* Whoever is in the old one is in the new one, by the same name.
ExtendsDb(new, old) ==
  /\ Ids(old) \subseteq Ids(new)
  /\ \A i \in DOMAIN new.profiles : new.profiles[i].id \in Ids(old) =>
       \E j \in DOMAIN old.profiles :
         old.profiles[j].id = new.profiles[i].id /\ old.profiles[j].name = new.profiles[i].name

LEMMA DbFitsIsDb ==
  ASSUME NEW db, NEW next, DbFits(db, next)
  PROVE  IsDb(db) /\ CentroidsCurrent(db)
<1>1. \A pair \in DOMAIN db.margins : db.margins[pair] \in 0..MarginCap
  BY DEF DbFits
<1>2. \A pair \in DOMAIN db.margins : db.margins[pair] <= MarginCap
  BY <1>1, ReachAssumption
<1>3. \A i \in DOMAIN db.profiles : db.profiles[i].centroid.n > 0
  BY DEF DbFits, ProfileFits
<1>4. IsDb(db)
  BY <1>2, <1>3 DEF DbFits, IsDb
<1>5. CentroidsCurrent(db)
  BY DEF DbFits, ProfileFits, CentroidsCurrent
<1>6. QED
  BY <1>4, <1>5

LEMMA DbFitsLater ==
  ASSUME NEW db, NEW next \in Nat, DbFits(db, next), NEW later \in Nat, next <= later
  PROVE  DbFits(db, later)
<1>1. 0..next - 1 \subseteq 0..later - 1
  OBVIOUS
<1>2. QED
  BY <1>1 DEF DbFits

LEMMA EmptyDbFits == ASSUME NEW next PROVE DbFits(EmptyDb, next) /\ Ids(EmptyDb) = {}
<1>1. EmptyDb = [profiles |-> <<>>, margins |-> <<>>] /\ EmptyDb.profiles = <<>> /\ EmptyDb.margins = <<>>
  BY DEF EmptyDb
<1>2. DOMAIN EmptyDb.profiles = {} /\ DOMAIN EmptyDb.margins = {} /\ IsSeq(EmptyDb.profiles)
  <2>1. <<>> \in Seq({})
    BY EmptySeq
  <2>2. IsSeq(<<>>)
    BY <2>1, SeqIsSeq
  <2>3. QED
    BY <1>1, <2>2
<1>3. EmptyDb.margins \in [DOMAIN EmptyDb.margins -> 0..MarginCap]
  BY <1>1, <1>2
<1>4. QED
  BY <1>1, <1>2, <1>3 DEF DbFits, Ids

\* The centroid is computed anew; the rest stays.
LEMMA Recomputed ==
  ASSUME NEW profile,
         profile = [id |-> profile.id, name |-> profile.name,
                    centroid |-> profile.centroid, turns |-> profile.turns],
         IsSeq(profile.turns), profile.centroid.n \in Nat \ {0}
  PROVE  LET new == RecomputeCentroid(profile)
         IN  ProfileFits(new) /\ new.id = profile.id /\ new.name = profile.name /\ new.turns = profile.turns
<1>1. CASE profile.turns = <<>>
  BY <1>1 DEF RecomputeCentroid, ProfileFits
<1>2. CASE profile.turns # <<>>
  <2> DEFINE mean == Mean(profile.turns)
             new == [id |-> profile.id, name |-> profile.name, centroid |-> mean, turns |-> profile.turns]
  <2>1. mean.n = Len(profile.turns)
    BY DEF Mean
  <2>2. mean.n \in Nat \ {0}
    BY <1>2, <2>1, IsSeqLen
  <2>3. RecomputeCentroid(profile) = [profile EXCEPT !.centroid = mean]
    BY <1>2 DEF RecomputeCentroid
  <2> HIDE DEF mean
  <2>4. [profile EXCEPT !.centroid = mean] = new
    OBVIOUS
  <2>5. /\ new.id = profile.id /\ new.name = profile.name /\ new.turns = profile.turns
        /\ new.centroid = mean
    OBVIOUS
  <2> HIDE DEF new
  <2>6. new = [id |-> new.id, name |-> new.name, centroid |-> new.centroid, turns |-> new.turns]
    BY <2>5 DEF new
  <2>7. ProfileFits(new)
    BY <2>2, <2>5, <2>6 DEF ProfileFits, mean
  <2>8. QED
    BY <2>3, <2>4, <2>5, <2>7
<1>3. QED
  BY <1>1, <1>2

LEMMA TurnPushed ==
  ASSUME NEW profile, ProfileFits(profile), NEW voice, NEW scan
  PROVE  LET new == PushTurn(profile, voice, scan)
         IN  ProfileFits(new) /\ new.id = profile.id /\ new.name = profile.name
<1> DEFINE seed == IF profile.turns = <<>>
                     THEN <<[voice |-> profile.centroid.sum, scan |-> NoScan]>> ELSE <<>>
           turn == <<[voice |-> voice, scan |-> scan]>>
           turns == (profile.turns \o seed) \o turn
           mid == [profile EXCEPT !.turns = turns]
<1>1. PushTurn(profile, voice, scan) = RecomputeCentroid(mid)
  BY DEF PushTurn
<1>2. IsSeq(seed) /\ IsSeq(turn)
  <2>1. \A any : IsSeq(<<any>>)
    <3>1. ASSUME NEW any PROVE IsSeq(<<any>>)
      <4>1. <<any>> \in Seq({any})
        OBVIOUS
      <4>2. QED
        BY <4>1, SeqIsSeq
    <3>2. QED
      BY <3>1
  <2>2. IsSeq(<<>>)
    BY EmptySeq, SeqIsSeq
  <2>3. QED
    BY <2>1, <2>2
<1>3. IsSeq(turns)
  BY <1>2, IsSeqConcat DEF ProfileFits
<1> HIDE DEF seed, turn, turns
<1>4. /\ mid.id = profile.id /\ mid.name = profile.name /\ mid.centroid = profile.centroid
      /\ mid.turns = turns
      /\ mid = [id |-> mid.id, name |-> mid.name, centroid |-> mid.centroid, turns |-> mid.turns]
  BY DEF ProfileFits
<1> HIDE DEF mid
<1>5. QED
  BY <1>1, <1>3, <1>4, Recomputed DEF ProfileFits

\* A database some of whose profiles change, but for who they are.
LEMMA DbChanged ==
  ASSUME NEW db, NEW next, DbFits(db, next),
         NEW profiles, IsSeq(profiles), DOMAIN profiles = DOMAIN db.profiles,
         \A i \in DOMAIN profiles : ProfileFits(profiles[i]) /\ profiles[i].id = db.profiles[i].id,
         NEW margins, margins \in [DOMAIN margins -> 0..MarginCap],
         \A pair \in DOMAIN margins : pair \subseteq Ids(db)
  PROVE  LET new == [profiles |-> profiles, margins |-> margins]
         IN  DbFits(new, next) /\ Ids(new) = Ids(db)
<1> DEFINE new == [profiles |-> profiles, margins |-> margins]
<1>1. new.profiles = profiles /\ new.margins = margins
  OBVIOUS
<1>2. new = [profiles |-> new.profiles, margins |-> new.margins]
  BY <1>1
<1> HIDE DEF new
<1>3. Ids(new) = Ids(db)
  BY <1>1 DEF Ids
<1>4. DbFits(new, next)
  BY <1>1, <1>2, <1>3 DEF DbFits
<1>5. QED
  BY <1>3, <1>4 DEF new

LEMMA MarginBumped ==
  ASSUME NEW db, NEW next, DbFits(db, next), NEW a \in Ids(db), NEW b \in Ids(db)
  PROVE  LET new == BumpMargin(db, a, b)
         IN  DbFits(new, next) /\ new.profiles = db.profiles
<1> DEFINE more == MarginBetween(db, a, b) + MarginStep
           bounded == IF more < MarginCap THEN more ELSE MarginCap
           margins == [pair \in DOMAIN db.margins \cup {{a, b}} |->
                        IF pair = {a, b} THEN bounded ELSE db.margins[pair]]
           new == [profiles |-> db.profiles, margins |-> margins]
<1>1. MarginBetween(db, a, b) \in Nat
  BY ReachAssumption DEF MarginBetween, DbFits
<1>2. bounded \in 0..MarginCap
  BY <1>1, ReachAssumption
<1>3. BumpMargin(db, a, b) = [db EXCEPT !.margins = margins]
  BY DEF BumpMargin
<1> HIDE DEF bounded, more
<1>4. margins \in [DOMAIN margins -> 0..MarginCap]
  BY <1>2 DEF DbFits
<1>5. \A pair \in DOMAIN margins : pair \subseteq Ids(db)
  BY DEF DbFits
<1> HIDE DEF margins
<1>6. BumpMargin(db, a, b) = new
  BY <1>3 DEF DbFits
<1>7. IsSeq(db.profiles) /\ \A i \in DOMAIN db.profiles : ProfileFits(db.profiles[i])
  BY DEF DbFits
<1>8. DbFits(new, next)
  BY <1>4, <1>5, <1>7, DbChanged
<1>9. QED
  BY <1>6, <1>8

LEMMA ProfileReplaced ==
  ASSUME NEW db, NEW next, DbFits(db, next), NEW at \in DOMAIN db.profiles,
         NEW profile, ProfileFits(profile),
         profile.id = db.profiles[at].id, profile.name = db.profiles[at].name
  PROVE  LET new == [db EXCEPT !.profiles[at] = profile]
         IN  /\ DbFits(new, next) /\ Ids(new) = Ids(db) /\ ExtendsDb(new, db)
             /\ DOMAIN new.profiles = DOMAIN db.profiles /\ new.profiles[at] = profile
             /\ \A i \in DOMAIN db.profiles : i # at => new.profiles[i] = db.profiles[i]
<1> DEFINE profiles == [db.profiles EXCEPT ![at] = profile]
           new == [profiles |-> profiles, margins |-> db.margins]
<1>1. [db EXCEPT !.profiles[at] = profile] = new
  BY DEF DbFits
<1>2. /\ IsSeq(profiles) /\ DOMAIN profiles = DOMAIN db.profiles
      /\ \A j \in DOMAIN db.profiles : profiles[j] = IF j = at THEN profile ELSE db.profiles[j]
  BY IsSeqExcept DEF DbFits
<1> HIDE DEF profiles
<1>3. \A i \in DOMAIN profiles : ProfileFits(profiles[i]) /\ profiles[i].id = db.profiles[i].id
  BY <1>2 DEF DbFits
<1>4. DbFits(new, next) /\ Ids(new) = Ids(db)
  BY <1>2, <1>3, DbChanged DEF DbFits
<1>5. new.profiles = profiles
  OBVIOUS
<1> HIDE DEF new
<1>6. ExtendsDb(new, db)
  <2>1. \A i \in DOMAIN profiles : profiles[i].id = db.profiles[i].id /\ profiles[i].name = db.profiles[i].name
    BY <1>2
  <2>2. QED
    BY <1>2, <1>4, <1>5, <2>1 DEF ExtendsDb
<1>7. QED
  BY <1>1, <1>2, <1>4, <1>5, <1>6

\* A turn is attributed: to a speaker matched, or to a new one.
LEMMA MatchedOrEnrolled ==
  ASSUME NEW db, NEW next \in Nat, DbFits(db, next), NEW voice \in Int, NEW scan
  PROVE  LET match == MatchOrEnroll(db, voice, scan, next)
         IN  DbFits(match.db, next + 1) /\ ExtendsDb(match.db, db) /\ match.id \in Ids(match.db)
<1>1. CASE Matches(db, voice) = {}
  <2> DEFINE profile == NewProfile(next, voice, scan)
             profiles == Append(db.profiles, profile)
             new == [profiles |-> profiles, margins |-> db.margins]
  <2>1. MatchOrEnroll(db, voice, scan, next) = [db |-> [db EXCEPT !.profiles = profiles], id |-> next]
    BY <1>1 DEF MatchOrEnroll
  <2> HIDE DEF profiles
  <2>2. [db EXCEPT !.profiles = profiles] = new
    BY DEF DbFits
  <2>3. ProfileFits(profile) /\ profile.id = next
    <3> DEFINE turns == <<[voice |-> voice, scan |-> scan]>>
    <3>1. profile = [id |-> next, name |-> NoName, centroid |-> [sum |-> voice, n |-> 1], turns |-> turns]
      BY DEF NewProfile
    <3>2. Mean(turns) = [sum |-> voice, n |-> 1]
      BY MeanOfOne
    <3>3. IsSeq(turns)
      <4>1. turns \in Seq({[voice |-> voice, scan |-> scan]})
        OBVIOUS
      <4>2. QED
        BY <4>1, SeqIsSeq
    <3> HIDE DEF turns, profile
    <3>4. profile.id = next /\ profile.centroid = [sum |-> voice, n |-> 1] /\ profile.turns = turns /\ profile.name = NoName
      BY <3>1
    <3>5. profile.centroid.n = 1
      BY <3>4
    <3>6. profile = [id |-> profile.id, name |-> profile.name, centroid |-> profile.centroid, turns |-> profile.turns]
      BY <3>1, <3>4
    <3>7. QED
      BY <3>2, <3>3, <3>4, <3>5, <3>6 DEF ProfileFits
  <2> HIDE DEF profile
  <2>4. /\ IsSeq(profiles) /\ Len(profiles) = Len(db.profiles) + 1
        /\ \A k \in 1..Len(db.profiles) : profiles[k] = db.profiles[k]
        /\ profiles[Len(db.profiles) + 1] = profile
    BY IsSeqAppend DEF DbFits, profiles
  <2>5. /\ Len(db.profiles) \in Nat /\ DOMAIN db.profiles = 1..Len(db.profiles)
        /\ DOMAIN profiles = 1..Len(db.profiles) + 1
    BY <2>4, IsSeqLen DEF DbFits
  <2>6. new.profiles = profiles /\ new.margins = db.margins /\ new = [profiles |-> new.profiles, margins |-> new.margins]
    OBVIOUS
  <2> HIDE DEF new
  <2>7. /\ \A i \in DOMAIN profiles : (i \in DOMAIN db.profiles /\ profiles[i] = db.profiles[i]) \/ i = Len(db.profiles) + 1
        /\ \A i \in DOMAIN db.profiles : i \in DOMAIN profiles /\ profiles[i] = db.profiles[i]
        /\ Len(db.profiles) + 1 \in DOMAIN profiles
    BY <2>4, <2>5
  <2>8. Ids(new) = Ids(db) \cup {next}
    BY <2>3, <2>4, <2>6, <2>7 DEF Ids
  <2>9. next \notin Ids(db) /\ \A i \in DOMAIN db.profiles : db.profiles[i].id \in 0..next - 1
    BY DEF DbFits, Ids
  <2>10. \A i \in DOMAIN profiles : ProfileFits(profiles[i]) /\ profiles[i].id \in 0..(next + 1) - 1
    <3>1. ASSUME NEW i \in DOMAIN db.profiles PROVE ProfileFits(db.profiles[i]) /\ db.profiles[i].id \in 0..(next + 1) - 1
      BY <2>9 DEF DbFits
    <3>2. next \in 0..(next + 1) - 1
      OBVIOUS
    <3>3. QED
      BY <2>3, <2>4, <2>7, <3>1, <3>2
  <2>11. \A i, j \in DOMAIN profiles : profiles[i].id = profiles[j].id => i = j
    BY <2>3, <2>4, <2>7, <2>9 DEF DbFits
  <2>12. DbFits(new, next + 1)
    BY <2>4, <2>6, <2>8, <2>10, <2>11 DEF DbFits
  <2>13. ExtendsDb(new, db)
    <3>1. \A i \in DOMAIN profiles : profiles[i].id \in Ids(db) => i \in DOMAIN db.profiles /\ profiles[i] = db.profiles[i]
      BY <2>3, <2>4, <2>7, <2>9
    <3>2. QED
      BY <2>6, <2>8, <3>1 DEF ExtendsDb
  <2>14. QED
    BY <2>1, <2>2, <2>8, <2>12, <2>13
<1>2. CASE Matches(db, voice) # {}
  <2> DEFINE best == CHOOSE i \in Matches(db, voice) : TRUE
             profile == PushTurn(db.profiles[best], voice, scan)
             new == [db EXCEPT !.profiles[best] = profile]
  <2>1. MatchOrEnroll(db, voice, scan, next) = [db |-> new, id |-> db.profiles[best].id]
    BY <1>2 DEF MatchOrEnroll
  <2>2. best \in DOMAIN db.profiles
    <3>1. Matches(db, voice) \subseteq DOMAIN db.profiles
      BY DEF Matches
    <3>2. QED
      BY <1>2, <3>1
  <2> HIDE DEF best
  <2>3. ProfileFits(profile) /\ profile.id = db.profiles[best].id /\ profile.name = db.profiles[best].name
    BY <2>2, TurnPushed DEF DbFits
  <2> HIDE DEF profile
  <2>4. DbFits(new, next) /\ Ids(new) = Ids(db) /\ ExtendsDb(new, db)
    BY <2>2, <2>3, ProfileReplaced
  <2> HIDE DEF new
  <2>5. DbFits(new, next + 1)
    BY <2>4, DbFitsLater
  <2>6. db.profiles[best].id \in Ids(new)
    BY <2>2, <2>4 DEF Ids
  <2>7. QED
    BY <2>1, <2>4, <2>5, <2>6
<1>3. QED
  BY <1>1, <1>2

LEMMA ProfileRenamed ==
  ASSUME NEW db, NEW next, DbFits(db, next), NEW id, NEW name
  PROVE  LET new == RenameProfile(db, id, name)
         IN  /\ DbFits(new, next) /\ Ids(new) = Ids(db) /\ DOMAIN new.profiles = DOMAIN db.profiles
             /\ \A i \in DOMAIN db.profiles :
                  /\ new.profiles[i].id = db.profiles[i].id
                  /\ new.profiles[i].name = IF db.profiles[i].id = id THEN name ELSE db.profiles[i].name
<1> DEFINE Renamed(profile) == IF profile.id = id THEN [profile EXCEPT !.name = name] ELSE profile
           n == Len(db.profiles)
           profiles == [i \in DOMAIN db.profiles |-> Renamed(db.profiles[i])]
           new == [profiles |-> profiles, margins |-> db.margins]
<1>1. ASSUME NEW profile, ProfileFits(profile)
      PROVE  /\ ProfileFits(Renamed(profile)) /\ Renamed(profile).id = profile.id
             /\ Renamed(profile).name = IF profile.id = id THEN name ELSE profile.name
  BY <1>1 DEF ProfileFits
<1>2. RenameProfile(db, id, name) = [db EXCEPT !.profiles = profiles]
  BY DEF RenameProfile
<1> HIDE DEF Renamed
<1>3. /\ DOMAIN profiles = DOMAIN db.profiles
      /\ \A i \in DOMAIN profiles : profiles[i] = Renamed(db.profiles[i])
  OBVIOUS
<1>4. IsSeq(profiles)
  <2>1. DOMAIN profiles = 1..n /\ n \in Nat
    BY IsSeqLen DEF DbFits
  <2>2. profiles \in [1..n -> {Renamed(db.profiles[i]) : i \in 1..n}]
    BY <2>1
  <2>3. profiles \in Seq({Renamed(db.profiles[i]) : i \in 1..n})
    BY <2>1, <2>2, SeqDef
  <2>4. QED
    BY <2>3, SeqIsSeq
<1> HIDE DEF profiles
<1>5. [db EXCEPT !.profiles = profiles] = new /\ new.profiles = profiles
  BY DEF DbFits
<1>6. \A i \in DOMAIN profiles : ProfileFits(profiles[i]) /\ profiles[i].id = db.profiles[i].id
  BY <1>1, <1>3 DEF DbFits
<1>7. DbFits(new, next) /\ Ids(new) = Ids(db)
  BY <1>3, <1>4, <1>6, DbChanged DEF DbFits
<1> HIDE DEF new
<1>8. \A i \in DOMAIN db.profiles :
        new.profiles[i].name = IF db.profiles[i].id = id THEN name ELSE db.profiles[i].name
  BY <1>1, <1>3, <1>5 DEF DbFits
<1>9. QED
  BY <1>2, <1>3, <1>5, <1>6, <1>7, <1>8

\* Turns are given and taken: the speakers stay who they are.
LEMMA TurnsReplaced ==
  ASSUME NEW profile, ProfileFits(profile), NEW turns, IsSeq(turns)
  PROVE  LET new == RecomputeCentroid([profile EXCEPT !.turns = turns])
         IN  ProfileFits(new) /\ new.id = profile.id /\ new.name = profile.name
<1> DEFINE mid == [profile EXCEPT !.turns = turns]
<1>1. /\ mid.id = profile.id /\ mid.name = profile.name /\ mid.centroid = profile.centroid
      /\ mid.turns = turns
      /\ mid = [id |-> mid.id, name |-> mid.name, centroid |-> mid.centroid, turns |-> mid.turns]
  BY DEF ProfileFits
<1> HIDE DEF mid
<1>2. QED
  BY <1>1, Recomputed DEF ProfileFits, mid

LEMMA ExtendsMore ==
  ASSUME NEW one, NEW two, NEW three, ExtendsDb(two, one), ExtendsDb(three, two)
  PROVE  ExtendsDb(three, one)
BY DEF ExtendsDb

LEMMA TurnMoved ==
  ASSUME NEW db, NEW next, DbFits(db, next), NEW from \in DOMAIN db.profiles,
         NEW to \in DOMAIN db.profiles, from # to, NEW at \in DOMAIN db.profiles[from].turns
  PROVE  LET new == Reassign(db, from, to, at)
         IN  DbFits(new, next) /\ Ids(new) = Ids(db) /\ ExtendsDb(new, db)
<1> DEFINE moved == db.profiles[from].turns[at]
           taken == RemoveAt(db.profiles[from].turns, at)
           grown == Append(db.profiles[to].turns, moved)
           giver == RecomputeCentroid([db.profiles[from] EXCEPT !.turns = taken])
           taker == RecomputeCentroid([db.profiles[to] EXCEPT !.turns = grown])
           first == [db EXCEPT !.profiles[from] = giver]
           second == [first EXCEPT !.profiles[to] = taker]
<1>1. IsSeq(taken) /\ IsSeq(grown)
  BY IsSeqRemoveAt, IsSeqAppend DEF DbFits, ProfileFits
<1> HIDE DEF taken, grown
<1>2. /\ ProfileFits(giver) /\ giver.id = db.profiles[from].id /\ giver.name = db.profiles[from].name
      /\ ProfileFits(taker) /\ taker.id = db.profiles[to].id /\ taker.name = db.profiles[to].name
  BY <1>1, TurnsReplaced DEF DbFits
<1>3. Reassign(db, from, to, at) =
        BumpMargin(second, db.profiles[from].id, db.profiles[to].id)
  <2> DEFINE both == [db EXCEPT
               !.profiles[from] = RecomputeCentroid([db.profiles[from] EXCEPT !.turns = RemoveAt(@, at)]),
               !.profiles[to] = RecomputeCentroid([db.profiles[to] EXCEPT !.turns = Append(@, moved)])]
  <2>1. Reassign(db, from, to, at) = BumpMargin(both, db.profiles[from].id, db.profiles[to].id)
    BY DEF Reassign
  <2>2. both = second
    BY DEF taken, grown, DbFits
  <2> HIDE DEF both, second
  <2>3. QED
    BY <2>1, <2>2
<1> HIDE DEF giver, taker
<1>4. /\ DbFits(first, next) /\ Ids(first) = Ids(db) /\ ExtendsDb(first, db)
      /\ DOMAIN first.profiles = DOMAIN db.profiles /\ first.profiles[to] = db.profiles[to]
  <2>1. /\ DbFits(first, next) /\ Ids(first) = Ids(db) /\ ExtendsDb(first, db)
        /\ DOMAIN first.profiles = DOMAIN db.profiles
        /\ \A i \in DOMAIN db.profiles : i # from => first.profiles[i] = db.profiles[i]
    BY <1>2, ProfileReplaced
  <2> HIDE DEF first
  <2>2. QED
    BY <2>1
<1> HIDE DEF first
<1>5. DbFits(second, next) /\ Ids(second) = Ids(first) /\ ExtendsDb(second, first)
  <2>1. to \in DOMAIN first.profiles /\ ProfileFits(taker)
        /\ taker.id = first.profiles[to].id /\ taker.name = first.profiles[to].name
    BY <1>2, <1>4
  <2>2. DbFits(first, next)
    BY <1>4
  <2>3. QED
    BY <2>1, <2>2, ProfileReplaced
<1> HIDE DEF second
<1>6. db.profiles[from].id \in Ids(second) /\ db.profiles[to].id \in Ids(second)
  BY <1>4, <1>5 DEF Ids
<1> DEFINE new == BumpMargin(second, db.profiles[from].id, db.profiles[to].id)
<1>7. DbFits(new, next) /\ new.profiles = second.profiles
  BY <1>5, <1>6, MarginBumped
<1> HIDE DEF new
<1>8. Ids(new) = Ids(db) /\ ExtendsDb(new, db)
  <2>1. Ids(new) = Ids(second)
    BY <1>7 DEF Ids
  <2>2. ExtendsDb(second, db)
    BY <1>4, <1>5, ExtendsMore
  <2>3. QED
    BY <1>4, <1>5, <1>7, <2>1, <2>2 DEF ExtendsDb
<1>9. QED
  BY <1>3, <1>7, <1>8 DEF new

-----------------------------------------------------------------------------
(* A scan's turns *)

\* One turn of a scan.
Hear(done, voice, no) ==
  [db |-> MatchOrEnroll(done.db, voice, 100 + no, done.next).db, next |-> done.next + 1]

LEMMA ScannedOne ==
  ASSUME NEW scan, NEW copy, NEW voice, scan.voices = <<voice>>
  PROVE  Scanned(scan, copy) = Hear([db |-> copy, next |-> fresh], voice, scan.no)
<1> DEFINE base == [db |-> copy, next |-> fresh]
           one == Hear(base, voice, scan.no)
           voices == scan.voices
           iter == [s \in SUBSET {1} |-> IF s = {} THEN base ELSE one]
           Is(f) == f = [s \in SUBSET DOMAIN voices |->
                          IF s = {} THEN base
                          ELSE LET x == Max(s) IN Hear(f[s \ {x}], voices[x], scan.no)]
<1>1. DOMAIN voices = {1} /\ voices[1] = voice
  OBVIOUS
<1>2. \A s \in SUBSET {1} : s = {} \/ s = {1}
  OBVIOUS
<1>3. Is(iter)
  <2>1. iter[{}] = base /\ iter[{1}] = one /\ {1} \ {1} = {}
    OBVIOUS
  <2> HIDE DEF iter, base
  <2>5. 1 \in {1} /\ {1} # {} /\ Max({1}) = 1
    BY GreatestOfTwo
  <2>2. ASSUME NEW s \in SUBSET {1}
        PROVE  iter[s] = IF s = {} THEN base ELSE LET x == Max(s) IN Hear(iter[s \ {x}], voices[x], scan.no)
    <3>1. CASE s = {}
      BY <2>1, <3>1
    <3>2. CASE s = {1}
      <4>1. s \ {Max(s)} = {} /\ s # {} /\ voices[Max(s)] = voice
        BY <1>1, <2>5, <3>2
      <4>2. iter[s] = one /\ one = Hear(base, voice, scan.no)
        BY <2>1, <3>2
      <4>3. QED
        BY <2>1, <4>1, <4>2
    <3>3. QED
      BY <1>2, <3>1, <3>2
  <2>3. iter = [s \in SUBSET {1} |->
          IF s = {} THEN base ELSE LET x == Max(s) IN Hear(iter[s \ {x}], voices[x], scan.no)]
    BY <2>2 DEF iter
  <2>4. QED
    BY <1>1, <2>3
<1>4. PICK f : f = (CHOOSE g : Is(g)) /\ Is(f)
  BY <1>3
<1>5. f[{1}] = one
  <2> HIDE DEF base
  <2>1. \A s \in SUBSET {1} : f[s] =
          IF s = {} THEN base ELSE LET x == Max(s) IN Hear(f[s \ {x}], voices[x], scan.no)
    BY <1>1, <1>4
  <2>2. f[{}] = base
    BY <2>1
  <2>3. {1} \ {Max({1})} = {} /\ {1} # {} /\ voices[Max({1})] = voice
    BY <1>1, GreatestOfTwo
  <2>4. QED
    BY <2>1, <2>2, <2>3
<1>6. Scanned(scan, copy) = f[DOMAIN voices]
  BY <1>4 DEF Scanned, FoldLeft, MapThenFoldSet, Hear
<1>7. QED
  BY <1>1, <1>5, <1>6

LEMMA ScannedTwo ==
  ASSUME NEW scan, NEW copy, NEW first, NEW second, scan.voices = <<first, second>>
  PROVE  Scanned(scan, copy) = Hear(Hear([db |-> copy, next |-> fresh], first, scan.no), second, scan.no)
<1> DEFINE base == [db |-> copy, next |-> fresh]
           one == Hear(base, first, scan.no)
           two == Hear(one, second, scan.no)
           other == Hear(base, second, scan.no)
           voices == scan.voices
           iter == [s \in SUBSET {1, 2} |->
                     IF s = {} THEN base ELSE IF s = {1} THEN one ELSE IF s = {2} THEN other ELSE two]
           Is(f) == f = [s \in SUBSET DOMAIN voices |->
                          IF s = {} THEN base
                          ELSE LET x == Max(s) IN Hear(f[s \ {x}], voices[x], scan.no)]
<1>1. DOMAIN voices = {1, 2} /\ voices[1] = first /\ voices[2] = second
  OBVIOUS
<1>2. \A s \in SUBSET {1, 2} : s = {} \/ s = {1} \/ s = {2} \/ s = {1, 2}
  OBVIOUS
<1>3. Max({1}) = 1 /\ Max({2}) = 2 /\ Max({1, 2}) = 2
  BY DEF Max
<1>4. {1} \ {1} = {} /\ {2} \ {2} = {} /\ {1, 2} \ {2} = {1}
  OBVIOUS
<1>5. Is(iter)
  <2>1. iter[{}] = base /\ iter[{1}] = one /\ iter[{2}] = other /\ iter[{1, 2}] = two
    <3> HIDE DEF base, one, two, other
    <3>1. {1} # {} /\ {2} # {} /\ {2} # {1} /\ {1, 2} # {} /\ {1, 2} # {1} /\ {1, 2} # {2}
      OBVIOUS
    <3>2. QED
      BY <3>1
  <2> HIDE DEF iter, base
  <2>2. ASSUME NEW s \in SUBSET {1, 2}
        PROVE  iter[s] = IF s = {} THEN base ELSE LET x == Max(s) IN Hear(iter[s \ {x}], voices[x], scan.no)
    <3>1. CASE s = {}
      BY <2>1, <3>1
    <3>2. CASE s = {1}
      BY <1>1, <1>3, <1>4, <2>1, <3>2
    <3>3. CASE s = {2}
      BY <1>1, <1>3, <1>4, <2>1, <3>3
    <3>4. CASE s = {1, 2}
      BY <1>1, <1>3, <1>4, <2>1, <3>4
    <3>5. QED
      BY <1>2, <3>1, <3>2, <3>3, <3>4
  <2>3. iter = [s \in SUBSET {1, 2} |->
          IF s = {} THEN base ELSE LET x == Max(s) IN Hear(iter[s \ {x}], voices[x], scan.no)]
    BY <2>2 DEF iter
  <2>4. QED
    BY <1>1, <2>3
<1>6. PICK f : f = (CHOOSE g : Is(g)) /\ Is(f)
  BY <1>5
<1>7. f[{1, 2}] = two
  <2> HIDE DEF base
  <2>1. \A s \in SUBSET {1, 2} : f[s] =
          IF s = {} THEN base ELSE LET x == Max(s) IN Hear(f[s \ {x}], voices[x], scan.no)
    BY <1>1, <1>6
  <2>2. f[{}] = base
    BY <2>1
  <2>3. f[{1}] = one
    BY <1>1, <1>3, <1>4, <2>1, <2>2
  <2>4. QED
    BY <1>1, <1>3, <1>4, <2>1, <2>3, SMTT(30)
<1>8. Scanned(scan, copy) = f[DOMAIN voices]
  BY <1>6 DEF Scanned, FoldLeft, MapThenFoldSet, Hear
<1>9. QED
  BY <1>1, <1>7, <1>8

\* The turns of a scan of one or two voices.
OfVoices(scan) ==
  \E first, second \in Voices : scan.voices = <<first>> \/ scan.voices = <<first, second>>

\* A copy that a scan has gone through still has everyone it had.
LEMMA ScanExtends ==
  ASSUME NEW scan, OfVoices(scan), fresh \in Nat, NEW copy, DbFits(copy, fresh)
  PROVE  LET done == Scanned(scan, copy)
         IN  done.next \in Nat /\ fresh <= done.next /\ DbFits(done.db, done.next) /\ ExtendsDb(done.db, copy)
<1>1. ASSUME NEW done, done.next \in Nat, DbFits(done.db, done.next), NEW voice \in Voices
      PROVE  LET new == Hear(done, voice, scan.no)
             IN  new.next = done.next + 1 /\ DbFits(new.db, new.next) /\ ExtendsDb(new.db, done.db)
  <2>1. voice \in Int
    BY VoicesAssumption
  <2>2. QED
    BY <1>1, <2>1, MatchedOrEnrolled DEF Hear
<1> DEFINE base == [db |-> copy, next |-> fresh]
<1>2. base.db = copy /\ base.next = fresh
  OBVIOUS
<1> HIDE DEF base
<1>3. PICK first \in Voices, second \in Voices : scan.voices = <<first>> \/ scan.voices = <<first, second>>
  BY DEF OfVoices
<1> DEFINE one == Hear(base, first, scan.no)
           two == Hear(one, second, scan.no)
<1>4. one.next = fresh + 1 /\ DbFits(one.db, one.next) /\ ExtendsDb(one.db, copy)
  BY <1>1, <1>2
<1>5. CASE scan.voices = <<first>>
  <2>1. Scanned(scan, copy) = one
    BY <1>5, ScannedOne DEF base
  <2> HIDE DEF one
  <2>2. QED
    BY <1>4, <2>1
<1>6. CASE scan.voices = <<first, second>>
  <2>1. Scanned(scan, copy) = two
    BY <1>6, ScannedTwo DEF base
  <2> HIDE DEF one
  <2>2. one.next \in Nat
    BY <1>4
  <2>3. two.next = fresh + 2 /\ DbFits(two.db, two.next) /\ ExtendsDb(two.db, one.db)
    BY <1>1, <1>4, <2>2
  <2> HIDE DEF two
  <2>4. QED
    BY <1>4, <2>1, <2>3, ExtendsMore
<1>7. QED
  BY <1>3, <1>5, <1>6

-----------------------------------------------------------------------------
(* The database in use *)

\* It has every speaker a History entry names, and the names the user gave.
KnowsSpeakers(db, who, names) ==
  /\ who \subseteq Ids(db) /\ DOMAIN names \subseteq Ids(db)
  /\ \A i \in DOMAIN db.profiles :
       db.profiles[i].id \in DOMAIN names => db.profiles[i].name = names[db.profiles[i].id]

\* A scan's copy fits, and still has everyone it was taken with.
ScanFits(scan, next) ==
  /\ {"stage", "from", "db"} \subseteq DOMAIN scan
  /\ OfVoices(scan) /\ scan.stage \in {"diarizing", "matched", "saved", "failed"}
  /\ DbFits(scan.from, next) /\ DbFits(scan.db, next)
  /\ scan.stage \in {"matched", "saved"} => ExtendsDb(scan.db, scan.from)

CountersFit ==
  /\ fresh \in Nat /\ attributed \subseteq 0..fresh - 1 /\ DOMAIN given \subseteq 0..fresh - 1
  /\ heard \in 0..MaxTurns /\ begun \in 0..MaxScans /\ edits \in 0..MaxEdits
  /\ replaced \in BOOLEAN /\ unsaved \in BOOLEAN

SpeakersInv ==
  /\ CountersFit
  /\ DbFits(speakerDb, fresh) /\ DbFits(speakersFile, fresh)
  /\ \A scan \in scans : ScanFits(scan, fresh)
  /\ ~replaced /\ ~unsaved =>
       KnowsSpeakers(speakerDb, attributed, given) /\ KnowsSpeakers(speakersFile, attributed, given)

LEMMA ScanChanged ==
  ASSUME NEW scan, {"stage", "from", "db"} \subseteq DOMAIN scan, NEW stage, NEW from, NEW db
  PROVE  LET new == [scan EXCEPT !.stage = stage, !.from = from, !.db = db]
         IN  /\ new.by = scan.by /\ new.no = scan.no /\ new.voices = scan.voices /\ new.from = from
             /\ new.stage = stage /\ new.db = db /\ {"stage", "from", "db"} \subseteq DOMAIN new
OBVIOUS

LEMMA KnowsExtended ==
  ASSUME NEW old, NEW new, NEW who, NEW names, ExtendsDb(new, old), KnowsSpeakers(old, who, names)
  PROVE  KnowsSpeakers(new, who, names)
BY DEF ExtendsDb, KnowsSpeakers

\* Scans do not notice what happens to the database while they run.
LEMMA ScansStay ==
  ASSUME SpeakersInv, fresh' \in Nat, fresh <= fresh'
  PROVE  \A scan \in scans : ScanFits(scan, fresh')
<1>1. ASSUME NEW scan \in scans PROVE ScanFits(scan, fresh')
  <2>1. ScanFits(scan, fresh) /\ fresh \in Nat
    BY DEF SpeakersInv, CountersFit
  <2>2. DbFits(scan.from, fresh') /\ DbFits(scan.db, fresh')
    BY <2>1, DbFitsLater DEF ScanFits
  <2>3. QED
    BY <2>1, <2>2 DEF ScanFits, OfVoices
<1>2. QED
  BY <1>1

Advanced(scan, stage, from, db) == [scan EXCEPT !.stage = stage, !.from = from, !.db = db]

\* A scan that matched its turns fits, if its copy and its database do.
LEMMA ScanMovesOn ==
  ASSUME NEW scan, NEW next, ScanFits(scan, next), NEW stage \in {"matched", "saved", "failed"},
         NEW from, DbFits(from, next), NEW db, DbFits(db, next),
         stage # "failed" => ExtendsDb(db, from)
  PROVE  ScanFits(Advanced(scan, stage, from, db), next)
<1> DEFINE new == Advanced(scan, stage, from, db)
<1>1. /\ new.by = scan.by /\ new.no = scan.no /\ new.voices = scan.voices /\ new.from = from
      /\ new.stage = stage /\ new.db = db /\ {"stage", "from", "db"} \subseteq DOMAIN new
  BY ScanChanged DEF ScanFits, Advanced
<1> HIDE DEF new
<1>2. ScanFits(new, next)
  BY <1>1 DEF ScanFits, OfVoices
<1>3. QED
  BY <1>2 DEF new

LEMMA SpeakersStep ==
  ASSUME SpeakersInv, [SpeakersNext]_speakersVars
  PROVE  SpeakersInv'
<1>1. /\ fresh \in Nat /\ DbFits(speakerDb, fresh) /\ DbFits(speakersFile, fresh)
      /\ heard \in 0..MaxTurns /\ begun \in 0..MaxScans /\ edits \in 0..MaxEdits
  BY DEF SpeakersInv, CountersFit
<1>2. ASSUME NEW voice \in Voices, Attribute(voice) PROVE SpeakersInv'
  <2> DEFINE match == MatchOrEnroll(speakerDb, voice, heard', fresh)
  <2>1. /\ speakerDb' = match.db /\ attributed' = attributed \cup {match.id}
        /\ fresh' = fresh + 1 /\ heard' = heard + 1 /\ heard < MaxTurns
        /\ UNCHANGED <<scans, begun, edits, given, replaced>>
        /\ \/ speakersFile' = match.db /\ UNCHANGED unsaved
           \/ UNCHANGED speakersFile /\ unsaved' = TRUE
    BY <1>2 DEF Attribute, Save
  <2>2. DbFits(match.db, fresh + 1) /\ ExtendsDb(match.db, speakerDb) /\ match.id \in Ids(match.db)
    BY <1>1, MatchedOrEnrolled, VoicesAssumption
  <2> HIDE DEF match
  <2>3. fresh' \in Nat /\ fresh <= fresh' /\ heard' \in 0..MaxTurns
    BY <1>1, <2>1, VoicesAssumption
  <2>4. DbFits(speakersFile, fresh')
    BY <1>1, <2>3, DbFitsLater
  <2>5. match.id \in 0..fresh' - 1
    BY <2>1, <2>2 DEF DbFits, Ids
  <2>6. CountersFit'
    <3>1. attributed \subseteq 0..fresh - 1 /\ DOMAIN given \subseteq 0..fresh - 1
      BY DEF SpeakersInv, CountersFit
    <3>2. 0..fresh - 1 \subseteq 0..fresh' - 1
      BY <1>1, <2>1
    <3>3. attributed' \subseteq 0..fresh' - 1 /\ DOMAIN given' \subseteq 0..fresh' - 1
      BY <2>1, <2>5, <3>1, <3>2
    <3>4. unsaved' = unsaved \/ unsaved' = TRUE
      BY <2>1
    <3>5. replaced' \in BOOLEAN /\ unsaved' \in BOOLEAN
      BY <2>1, <3>4 DEF SpeakersInv, CountersFit
    <3>6. begun' \in 0..MaxScans /\ edits' \in 0..MaxEdits
      BY <1>1, <2>1
    <3>7. QED
      BY <2>3, <3>3, <3>5, <3>6 DEF CountersFit
  <2>7. ~replaced' /\ ~unsaved' => KnowsSpeakers(match.db, attributed', given')
    <3>1. ASSUME ~replaced, ~unsaved PROVE KnowsSpeakers(match.db, attributed, given)
      BY <2>2, <3>1, KnowsExtended DEF SpeakersInv
    <3>2. QED
      BY <2>1, <2>2, <3>1 DEF KnowsSpeakers
  <2>8. \A scan \in scans' : ScanFits(scan, fresh')
    BY <2>1, <2>3, ScansStay
  <2>9. ~replaced' /\ ~unsaved' =>
          KnowsSpeakers(speakerDb', attributed', given') /\ KnowsSpeakers(speakersFile', attributed', given')
    BY <2>1, <2>7 DEF KnowsSpeakers
  <2>10. DbFits(speakerDb', fresh') /\ DbFits(speakersFile', fresh')
    BY <2>1, <2>2, <2>4
  <2>11. QED
    BY <2>6, <2>8, <2>9, <2>10 DEF SpeakersInv
<1>3. ASSUME NEW first \in Voices, NEW second \in Voices,
             StartScan(<<first>>) \/ StartScan(<<first, second>>)
      PROVE  SpeakersInv'
  <2>1. PICK voices \in {<<first>>, <<first, second>>} : StartScan(voices)
    BY <1>3
  <2>2. PICK by \in {"app", "cli"} :
          scans' = scans \cup
            {[by |-> by, no |-> begun', voices |-> voices, stage |-> "diarizing",
              from |-> IF by = "app" THEN speakerDb ELSE speakersFile, db |-> EmptyDb]}
    BY <2>1 DEF StartScan
  <2>3. /\ begun < MaxScans /\ heard + Len(voices) <= MaxTurns /\ begun' = begun + 1
        /\ heard' = heard + Len(voices)
        /\ UNCHANGED <<speakerDb, speakersFile, attributed, fresh, edits, given, replaced, unsaved>>
    BY <2>1 DEF StartScan
  <2>4. Len(voices) \in Nat
    BY <2>1
  <2>5. heard' \in 0..MaxTurns /\ begun' \in 0..MaxScans
    BY <1>1, <2>3, <2>4, VoicesAssumption
  <2>6. CountersFit'
    BY <2>3, <2>5 DEF SpeakersInv, CountersFit
  <2> DEFINE from == IF by = "app" THEN speakerDb ELSE speakersFile
             scan == [by |-> by, no |-> begun', voices |-> voices, stage |-> "diarizing",
                      from |-> from, db |-> EmptyDb]
  <2>7. ScanFits(scan, fresh')
    <3>1. DbFits(from, fresh') /\ DbFits(EmptyDb, fresh')
      BY <1>1, <2>3, EmptyDbFits
    <3> HIDE DEF from
    <3>2. /\ scan.by = by /\ scan.no = begun' /\ scan.voices = voices /\ scan.stage = "diarizing"
          /\ scan.from = from /\ scan.db = EmptyDb
      OBVIOUS
    <3>3. {"stage", "from", "db"} \subseteq DOMAIN scan
      OBVIOUS
    <3> HIDE DEF scan
    <3>4. OfVoices(scan)
      BY <2>1, <3>2 DEF OfVoices
    <3>5. QED
      BY <3>1, <3>2, <3>3, <3>4 DEF ScanFits, OfVoices
  <2>8. \A s \in scans' : ScanFits(s, fresh')
    BY <1>1, <2>2, <2>3, <2>7, ScansStay
  <2>9. ~replaced' /\ ~unsaved' =>
          KnowsSpeakers(speakerDb', attributed', given') /\ KnowsSpeakers(speakersFile', attributed', given')
    BY <2>3 DEF SpeakersInv, KnowsSpeakers
  <2>10. QED
    BY <1>1, <2>3, <2>6, <2>8, <2>9 DEF SpeakersInv
<1>4. ASSUME NEW scan \in scans, ScanSaves(scan) PROVE SpeakersInv'
  <2> DEFINE done == Scanned(scan, scan.from)
  <2>1. /\ fresh' = done.next
        /\ UNCHANGED <<speakerDb, attributed, heard, begun, edits, given, unsaved>>
        /\ \/ /\ speakersFile' = done.db
              /\ replaced' = (replaced \/ speakerDb # scan.from)
              /\ scans' = Moved(scan, "saved", done.db)
           \/ UNCHANGED <<speakersFile, replaced>> /\ scans' = Moved(scan, "failed", EmptyDb)
    BY <1>4 DEF ScanSaves
  <2>2. ScanFits(scan, fresh) /\ DbFits(scan.from, fresh)
    BY DEF SpeakersInv, ScanFits
  <2>3. /\ done.next \in Nat /\ fresh <= done.next /\ DbFits(done.db, done.next)
        /\ ExtendsDb(done.db, scan.from)
    BY <1>1, <2>2, ScanExtends DEF ScanFits
  <2> HIDE DEF done
  <2>4. CountersFit'
    <3>1. 0..fresh - 1 \subseteq 0..fresh' - 1
      BY <1>1, <2>1, <2>3
    <3>2. replaced' \in BOOLEAN
      BY <2>1 DEF SpeakersInv, CountersFit
    <3>3. QED
      BY <2>1, <2>3, <3>1, <3>2 DEF SpeakersInv, CountersFit
  <2>5. /\ DbFits(speakerDb', fresh') /\ DbFits(speakersFile', fresh')
        /\ DbFits(scan.from, fresh') /\ DbFits(done.db, fresh') /\ DbFits(EmptyDb, fresh')
    BY <1>1, <2>1, <2>2, <2>3, DbFitsLater, EmptyDbFits
  <2>6. ~replaced' /\ ~unsaved' =>
          KnowsSpeakers(speakerDb', attributed', given') /\ KnowsSpeakers(speakersFile', attributed', given')
    <3>1. ASSUME ~replaced', ~unsaved'
          PROVE  KnowsSpeakers(speakerDb, attributed, given) /\ KnowsSpeakers(speakersFile', attributed, given)
      <4>1. CASE speakersFile' = done.db /\ replaced' = (replaced \/ speakerDb # scan.from)
        <5>1. ~replaced /\ ~unsaved /\ speakerDb = scan.from
          BY <2>1, <3>1, <4>1
        <5>2. KnowsSpeakers(speakerDb, attributed, given)
          BY <5>1 DEF SpeakersInv
        <5>3. QED
          BY <2>3, <4>1, <5>1, <5>2, KnowsExtended
      <4>2. CASE UNCHANGED <<speakersFile, replaced>>
        BY <2>1, <3>1, <4>2 DEF SpeakersInv
      <4>3. QED
        BY <2>1, <4>1, <4>2
    <3>2. QED
      BY <2>1, <3>1 DEF KnowsSpeakers
  <2>7. \A s \in scans : ScanFits(s, fresh')
    BY <2>1, <2>3, ScansStay
  <2>8. \A s \in scans' : ScanFits(s, fresh')
    <3>1. CASE scans' = Moved(scan, "saved", done.db)
      <4>1. ScanFits([scan EXCEPT !.stage = "saved", !.db = done.db], fresh')
        <5>1. Advanced(scan, "saved", scan.from, done.db) = [scan EXCEPT !.stage = "saved", !.db = done.db]
          BY <2>2 DEF ScanFits, Advanced
        <5>2. ScanFits(Advanced(scan, "saved", scan.from, done.db), fresh')
          BY <2>3, <2>5, <2>7, ScanMovesOn
        <5>3. QED
          BY <5>1, <5>2
      <4>2. QED
        BY <2>7, <3>1, <4>1 DEF Moved
    <3>2. CASE scans' = Moved(scan, "failed", EmptyDb)
      <4>1. ScanFits([scan EXCEPT !.stage = "failed", !.db = EmptyDb], fresh')
        <5>1. Advanced(scan, "failed", scan.from, EmptyDb) = [scan EXCEPT !.stage = "failed", !.db = EmptyDb]
          BY <2>2 DEF ScanFits, Advanced
        <5>2. ScanFits(Advanced(scan, "failed", scan.from, EmptyDb), fresh')
          BY <2>5, <2>7, ScanMovesOn
        <5>3. QED
          BY <5>1, <5>2
      <4>2. QED
        BY <2>7, <3>2, <4>1 DEF Moved
    <3>3. QED
      BY <2>1, <3>1, <3>2
  <2>9. QED
    BY <2>4, <2>5, <2>6, <2>8 DEF SpeakersInv
<1>5. ASSUME NEW scan \in scans, CliMatches(scan) PROVE SpeakersInv'
  <2>1. PICK copy \in {speakersFile, Garbled} :
          /\ fresh' = Scanned(scan, copy).next
          /\ scans' = (scans \ {scan}) \cup
               {[scan EXCEPT !.stage = "matched", !.from = copy, !.db = Scanned(scan, copy).db]}
    BY <1>5 DEF CliMatches
  <2> DEFINE done == Scanned(scan, copy)
  <2>2. UNCHANGED <<speakerDb, speakersFile, attributed, heard, begun, edits, given, replaced, unsaved>>
    BY <1>5 DEF CliMatches
  <2>3. ScanFits(scan, fresh) /\ DbFits(copy, fresh)
    BY <1>1, EmptyDbFits DEF SpeakersInv, Garbled
  <2>4. /\ done.next \in Nat /\ fresh <= done.next /\ DbFits(done.db, done.next)
        /\ ExtendsDb(done.db, copy)
    BY <1>1, <2>3, ScanExtends DEF ScanFits
  <2>5. fresh' = done.next /\ scans' = (scans \ {scan}) \cup
          {[scan EXCEPT !.stage = "matched", !.from = copy, !.db = done.db]}
    BY <2>1
  <2> HIDE DEF done
  <2>6. CountersFit'
    <3>1. 0..fresh - 1 \subseteq 0..fresh' - 1
      BY <1>1, <2>4, <2>5
    <3>2. QED
      BY <2>2, <2>4, <2>5, <3>1 DEF SpeakersInv, CountersFit
  <2>7. /\ DbFits(speakerDb', fresh') /\ DbFits(speakersFile', fresh')
        /\ DbFits(copy, fresh') /\ DbFits(done.db, fresh')
    BY <1>1, <2>2, <2>3, <2>4, <2>5, DbFitsLater
  <2>8. \A s \in scans : ScanFits(s, fresh')
    BY <2>4, <2>5, ScansStay
  <2>9. ScanFits(Advanced(scan, "matched", copy, done.db), fresh')
    BY <2>4, <2>7, <2>8, ScanMovesOn
  <2>10. \A s \in scans' : ScanFits(s, fresh')
    BY <2>5, <2>8, <2>9 DEF Advanced
  <2>11. ~replaced' /\ ~unsaved' =>
          KnowsSpeakers(speakerDb', attributed', given') /\ KnowsSpeakers(speakersFile', attributed', given')
    BY <2>2 DEF SpeakersInv, KnowsSpeakers
  <2>12. QED
    BY <2>6, <2>7, <2>10, <2>11 DEF SpeakersInv
<1>6. ASSUME NEW scan \in scans, CliSaves(scan) PROVE SpeakersInv'
  <2>1. /\ scan.stage = "matched" /\ scans' = scans \ {scan}
        /\ UNCHANGED <<speakerDb, attributed, fresh, heard, begun, edits, given>>
        /\ \/ /\ speakersFile' = scan.db /\ UNCHANGED unsaved
              /\ replaced' = (replaced \/ speakersFile # scan.from)
           \/ UNCHANGED <<speakersFile, replaced, unsaved>>
           \/ speakersFile' = EmptyDb /\ unsaved' = TRUE /\ UNCHANGED replaced
    BY <1>6 DEF CliSaves, Garbled
  <2>2. ScanFits(scan, fresh)
    BY DEF SpeakersInv
  <2>3. CountersFit'
    <3>1. replaced' \in BOOLEAN /\ unsaved' \in BOOLEAN
      BY <2>1 DEF SpeakersInv, CountersFit
    <3>2. QED
      BY <2>1, <3>1 DEF SpeakersInv, CountersFit
  <2>4. DbFits(speakerDb', fresh') /\ DbFits(speakersFile', fresh')
    BY <1>1, <2>1, <2>2, EmptyDbFits DEF ScanFits
  <2>5. ~replaced' /\ ~unsaved' =>
          KnowsSpeakers(speakerDb', attributed', given') /\ KnowsSpeakers(speakersFile', attributed', given')
    <3>1. ASSUME ~replaced', ~unsaved'
          PROVE  KnowsSpeakers(speakerDb, attributed, given) /\ KnowsSpeakers(speakersFile', attributed, given)
      <4>1. ~replaced /\ ~unsaved
        <5>1. ~replaced
          BY <2>1, <3>1
        <5>2. ~unsaved
          BY <2>1, <3>1
        <5>3. QED
          BY <5>1, <5>2
      <4>2. KnowsSpeakers(speakerDb, attributed, given) /\ KnowsSpeakers(speakersFile, attributed, given)
        BY <4>1 DEF SpeakersInv
      <4>3. speakersFile' = speakersFile \/ (speakersFile' = scan.db /\ speakersFile = scan.from)
        BY <2>1, <3>1
      <4>4. ExtendsDb(scan.db, scan.from)
        BY <2>1, <2>2 DEF ScanFits
      <4>5. QED
        BY <4>2, <4>3, <4>4, KnowsExtended
    <3>2. QED
      BY <2>1, <3>1 DEF KnowsSpeakers
  <2>6. \A s \in scans' : ScanFits(s, fresh')
    BY <1>1, <2>1, ScansStay
  <2>7. QED
    BY <2>3, <2>4, <2>5, <2>6 DEF SpeakersInv
<1>7. ASSUME NEW scan \in scans, ScanFinished(scan) PROVE SpeakersInv'
  <2>1. /\ scans' = scans \ {scan}
        /\ UNCHANGED <<speakersFile, attributed, fresh, heard, begun, edits, given, unsaved>>
        /\ \/ /\ scan.stage = "saved" /\ speakerDb' = scan.db
              /\ replaced' = (replaced \/ speakerDb # scan.from)
           \/ UNCHANGED <<speakerDb, replaced>>
    BY <1>7 DEF ScanFinished
  <2>2. ScanFits(scan, fresh)
    BY DEF SpeakersInv
  <2>3. CountersFit'
    BY <2>1 DEF SpeakersInv, CountersFit
  <2>4. DbFits(speakerDb', fresh')
    BY <1>1, <2>1, <2>2 DEF ScanFits
  <2>5. ~replaced' /\ ~unsaved' =>
          KnowsSpeakers(speakerDb', attributed', given') /\ KnowsSpeakers(speakersFile', attributed', given')
    <3>1. ASSUME ~replaced', ~unsaved'
          PROVE  ~replaced /\ ~unsaved /\ KnowsSpeakers(speakerDb', attributed, given)
      <4>1. ~replaced
        BY <2>1, <3>1
      <4>2. ~unsaved
        BY <2>1, <3>1
      <4>3. KnowsSpeakers(speakerDb, attributed, given)
        BY <4>1, <4>2 DEF SpeakersInv
      <4>4. speakerDb' = speakerDb \/ (speakerDb' = scan.db /\ speakerDb = scan.from /\ scan.stage = "saved")
        BY <2>1, <3>1
      <4>5. scan.stage = "saved" => ExtendsDb(scan.db, scan.from)
        BY <2>2 DEF ScanFits
      <4>6. KnowsSpeakers(speakerDb', attributed, given)
        BY <4>3, <4>4, <4>5, KnowsExtended
      <4>7. QED
        BY <4>1, <4>2, <4>6
    <3>2. QED
      BY <2>1, <3>1 DEF SpeakersInv, KnowsSpeakers
  <2>6. \A s \in scans' : ScanFits(s, fresh')
    BY <1>1, <2>1, ScansStay
  <2>7. QED
    BY <1>1, <2>1, <2>3, <2>4, <2>5, <2>6 DEF SpeakersInv
<1>8. ASSUME NEW id \in Ids(speakerDb), NEW name \in Names, Rename(id, name) PROVE SpeakersInv'
  <2> DEFINE new == RenameProfile(speakerDb, id, name)
  <2>1. /\ speakerDb' = new /\ edits < MaxEdits /\ edits' = edits + 1
        /\ given' = [i \in DOMAIN given \cup {id} |-> IF i = id THEN name ELSE given[i]]
        /\ UNCHANGED <<scans, attributed, fresh, heard, begun, replaced>>
        /\ \/ speakersFile' = new /\ UNCHANGED unsaved
           \/ UNCHANGED speakersFile /\ unsaved' = TRUE
    BY <1>8 DEF Rename, Save, Edit
  <2>2. /\ DbFits(new, fresh) /\ Ids(new) = Ids(speakerDb)
        /\ DOMAIN new.profiles = DOMAIN speakerDb.profiles
        /\ \A i \in DOMAIN speakerDb.profiles :
             /\ new.profiles[i].id = speakerDb.profiles[i].id
             /\ new.profiles[i].name = IF speakerDb.profiles[i].id = id THEN name ELSE speakerDb.profiles[i].name
    BY <1>1, ProfileRenamed
  <2> HIDE DEF new
  <2>3. id \in 0..fresh - 1 /\ edits' \in 0..MaxEdits
    BY <1>1, <2>1, VoicesAssumption DEF DbFits, Ids
  <2>4. CountersFit'
    BY <2>1, <2>3 DEF SpeakersInv, CountersFit
  <2>5. ~replaced /\ ~unsaved => KnowsSpeakers(new, attributed', given')
    <3>1. DOMAIN given' = DOMAIN given \cup {id} /\ \A i \in DOMAIN given' : given'[i] = IF i = id THEN name ELSE given[i]
      BY <2>1
    <3>2. QED
      BY <2>1, <2>2, <3>1 DEF SpeakersInv, KnowsSpeakers
  <2>6. ~replaced' /\ ~unsaved' =>
          KnowsSpeakers(speakerDb', attributed', given') /\ KnowsSpeakers(speakersFile', attributed', given')
    BY <2>1, <2>5 DEF KnowsSpeakers
  <2>7. \A s \in scans' : ScanFits(s, fresh')
    BY <1>1, <2>1, ScansStay
  <2>8. DbFits(speakerDb', fresh') /\ DbFits(speakersFile', fresh')
    BY <1>1, <2>1, <2>2
  <2>9. QED
    BY <2>4, <2>6, <2>7, <2>8 DEF SpeakersInv
<1>9. ASSUME NEW from \in DOMAIN speakerDb.profiles, NEW to \in DOMAIN speakerDb.profiles,
             NEW at \in DOMAIN speakerDb.profiles[from].turns, MoveTurn(from, to, at)
      PROVE  SpeakersInv'
  <2> DEFINE new == Reassign(speakerDb, from, to, at)
  <2>1. /\ speakerDb' = new /\ edits < MaxEdits /\ edits' = edits + 1 /\ from # to
        /\ UNCHANGED <<scans, attributed, fresh, heard, begun, given, replaced>>
        /\ \/ speakersFile' = new /\ UNCHANGED unsaved
           \/ UNCHANGED speakersFile /\ unsaved' = TRUE
    BY <1>9 DEF MoveTurn, Save, Edit
  <2>2. DbFits(new, fresh) /\ ExtendsDb(new, speakerDb)
    BY <1>1, <2>1, TurnMoved
  <2> HIDE DEF new
  <2>3. edits' \in 0..MaxEdits
    BY <1>1, <2>1, VoicesAssumption
  <2>4. CountersFit'
    BY <2>1, <2>3 DEF SpeakersInv, CountersFit
  <2>5. ~replaced /\ ~unsaved => KnowsSpeakers(new, attributed, given)
    BY <2>2, KnowsExtended DEF SpeakersInv
  <2>6. ~replaced' /\ ~unsaved' =>
          KnowsSpeakers(speakerDb', attributed', given') /\ KnowsSpeakers(speakersFile', attributed', given')
    BY <2>1, <2>5 DEF KnowsSpeakers
  <2>7. \A s \in scans' : ScanFits(s, fresh')
    BY <1>1, <2>1, ScansStay
  <2>8. DbFits(speakerDb', fresh') /\ DbFits(speakersFile', fresh')
    BY <1>1, <2>1, <2>2
  <2>9. QED
    BY <2>4, <2>6, <2>7, <2>8 DEF SpeakersInv
<1>10. CASE RestartApp
  <2>1. /\ speakerDb' = speakersFile' /\ scans' \subseteq scans
        /\ UNCHANGED <<attributed, fresh, heard, begun, edits, given, replaced>>
        /\ UNCHANGED <<speakersFile, unsaved>> \/ (speakersFile' = EmptyDb /\ unsaved' = TRUE)
    BY <1>10 DEF RestartApp, Garbled
  <2>2. CountersFit'
    BY <2>1 DEF SpeakersInv, CountersFit
  <2>3. DbFits(speakerDb', fresh') /\ DbFits(speakersFile', fresh')
    BY <1>1, <2>1, EmptyDbFits
  <2>4. \A s \in scans' : ScanFits(s, fresh')
    BY <1>1, <2>1, ScansStay
  <2>5. ~replaced' /\ ~unsaved' =>
          KnowsSpeakers(speakerDb', attributed', given') /\ KnowsSpeakers(speakersFile', attributed', given')
    BY <2>1 DEF SpeakersInv, KnowsSpeakers
  <2>6. QED
    BY <2>2, <2>3, <2>4, <2>5 DEF SpeakersInv
<1>11. CASE UNCHANGED speakersVars
  BY <1>11 DEF speakersVars, SpeakersInv, CountersFit, ScanFits, OfVoices, KnowsSpeakers
<1>12. QED
  BY <1>2, <1>3, <1>4, <1>5, <1>6, <1>7, <1>8, <1>9, <1>10, <1>11 DEF SpeakersNext

LEMMA SpeakersInvInit == SpeakersInit => SpeakersInv
<1> SUFFICES ASSUME SpeakersInit PROVE SpeakersInv
  OBVIOUS
<1>1. fresh = 1 /\ scans = {} /\ attributed = {} /\ given = <<>> /\ DOMAIN given = {}
  BY DEF SpeakersInit
<1>2. CountersFit
  <2>1. heard \in 0..MaxTurns /\ begun \in 0..MaxScans /\ edits \in 0..MaxEdits
    BY VoicesAssumption DEF SpeakersInit
  <2>2. replaced \in BOOLEAN /\ unsaved \in BOOLEAN
    BY DEF SpeakersInit
  <2>3. fresh \in Nat /\ attributed \subseteq 0..fresh - 1
    BY <1>1
  <2>4. DOMAIN given \subseteq 0..fresh - 1
    BY <1>1
  <2>5. QED
    BY <2>1, <2>2, <2>3, <2>4 DEF CountersFit
<1>3. ASSUME NEW voice \in Voices PROVE DbFits(Legacy(voice), 1)
  <2> DEFINE centroid == [sum |-> voice, n |-> 1]
             profile == [id |-> 0, name |-> NoName, centroid |-> centroid, turns |-> <<>>]
             db == [profiles |-> <<profile>>, margins |-> <<>>]
  <2>1. Legacy(voice) = db
    BY DEF Legacy, EmptyDb
  <2>2. IsSeq(<<>>)
    <3>1. <<>> \in Seq({})
      BY EmptySeq
    <3>2. QED
      BY <3>1, SeqIsSeq
  <2>3. centroid.n = 1
    OBVIOUS
  <2> HIDE DEF centroid
  <2>4. profile.id = 0 /\ profile.name = NoName /\ profile.centroid = centroid /\ profile.turns = <<>>
    OBVIOUS
  <2> HIDE DEF profile
  <2>5. profile = [id |-> profile.id, name |-> profile.name, centroid |-> profile.centroid, turns |-> profile.turns]
    BY <2>4 DEF profile
  <2>6. ProfileFits(profile)
    BY <2>2, <2>3, <2>4, <2>5 DEF ProfileFits
  <2>7. IsSeq(<<profile>>) /\ DOMAIN <<profile>> = {1} /\ <<profile>>[1] = profile
    <3>1. <<profile>> \in Seq({profile})
      OBVIOUS
    <3>2. IsSeq(<<profile>>)
      BY <3>1, SeqIsSeq
    <3>3. QED
      BY <3>2
  <2>8. db.profiles = <<profile>> /\ db.margins = <<>>
    OBVIOUS
  <2>9. db = [profiles |-> db.profiles, margins |-> db.margins]
    OBVIOUS
  <2> HIDE DEF db
  <2>10. db.margins \in [DOMAIN db.margins -> 0..MarginCap] /\ DOMAIN db.margins = {}
    BY <2>8
  <2>11. DbFits(db, 1)
    BY <2>4, <2>6, <2>7, <2>8, <2>9, <2>10 DEF DbFits
  <2>12. QED
    BY <2>1, <2>11
<1>4. DbFits(speakerDb, fresh) /\ DbFits(speakersFile, fresh)
  BY <1>1, <1>3, EmptyDbFits DEF SpeakersInit
<1>5. KnowsSpeakers(speakerDb, attributed, given) /\ KnowsSpeakers(speakersFile, attributed, given)
  BY <1>1 DEF KnowsSpeakers
<1>6. QED
  BY <1>1, <1>2, <1>4, <1>5 DEF SpeakersInv

LEMMA SpeakersInvFits == SpeakersInv => SpeakersTypeOK /\ CentroidIsMean /\ SpeakersKept
<1> SUFFICES ASSUME SpeakersInv PROVE SpeakersTypeOK /\ CentroidIsMean /\ SpeakersKept
  OBVIOUS
<1>1. IsDb(speakerDb) /\ CentroidsCurrent(speakerDb) /\ IsDb(speakersFile) /\ CentroidsCurrent(speakersFile)
  BY DbFitsIsDb DEF SpeakersInv
<1>2. \A scan \in scans : IsDb(scan.db) /\ CentroidsCurrent(scan.db) /\ scan.stage \in {"diarizing", "matched", "saved", "failed"}
  BY DbFitsIsDb DEF SpeakersInv, ScanFits
<1>3. SpeakersTypeOK
  BY <1>1, <1>2 DEF SpeakersInv, CountersFit, SpeakersTypeOK
<1>4. CentroidIsMean
  BY <1>1, <1>2 DEF CentroidIsMean
<1>5. SpeakersKept
  BY DEF SpeakersInv, KnowsSpeakers, SpeakersKept
<1>6. QED
  BY <1>3, <1>4, <1>5

\* For any voices and names, whatever is enrolled, scanned, moved, renamed, lost or read
\* back: centroids are current, and nobody who was named is forgotten.
THEOREM SpeakersStay == SpeakersSpec => [](SpeakersTypeOK /\ CentroidIsMean /\ SpeakersKept)
BY SpeakersInvInit, SpeakersStep, SpeakersInvFits, PTL DEF SpeakersSpec

-----------------------------------------------------------------------------
(***************************************************************************)
(* Input devices: the list with the changes under way is what the watcher   *)
(* saw last, and a notice that is up is for a device the list lacks.        *)
(***************************************************************************)
\* A change takes away no device that it brings.
ChangesDiffer == \A k \in DOMAIN changes : changes[k].added \cap changes[k].removed = {}

\* Whichever device it names: another one may be chosen while it is up.
NoticeOfMissing == ~stray => notice \notin inputDevices

DevicesInv == DevicesTypeOK /\ ChangesDiffer /\ ListFits /\ NoticeOfMissing

\* The change a poll sends.
LEMMA PolledChange ==
  ASSUME DevicesTypeOK, Poll
  PROVE  LET change == DiffDeviceNames(known, known')
         IN  /\ known' \subseteq Devices /\ change \in DeviceChange
             /\ changes' = Append(changes, change)
             /\ known' = (known \ change.removed) \cup change.added
             /\ change.added \cap change.removed = {}
<1>1. known' \subseteq Devices
  BY DEF DevicesTypeOK, Poll, InputDeviceNames
<1>2. QED
  BY <1>1 DEF DevicesTypeOK, Poll, DiffDeviceNames, DeviceChange

LEMMA DevicesTypeStep ==
  ASSUME DevicesTypeOK, [DevicesNext]_devicesVars
  PROVE  DevicesTypeOK'
<1> USE DevicesAssumption DEF DevicesTypeOK
<1>1. CASE Replug
  BY <1>1 DEF Replug
<1>2. CASE StartWatcher
  BY <1>2 DEF StartWatcher, InputDeviceNames
<1>3. CASE Poll
  <2> DEFINE change == DiffDeviceNames(known, known')
  <2>1. known' \subseteq Devices /\ change \in DeviceChange /\ changes' = Append(changes, change)
    BY <1>3, PolledChange
  <2> HIDE DEF change
  <2>2. changes' \in Seq(DeviceChange) /\ Len(changes') = Len(changes) + 1
    BY <2>1, AppendProperties
  <2>3. Len(changes') \in 0..ChangeSlots
    BY <1>3, <2>2 DEF Poll
  <2>4. QED
    BY <1>3, <2>1, <2>2, <2>3 DEF Poll
<1>4. CASE InputDevicesChanged
  <2>1. Head(changes) \in DeviceChange /\ changes' \in Seq(DeviceChange) /\ Len(changes') = Len(changes) - 1
    BY <1>4, HeadTailProperties DEF InputDevicesChanged
  <2>2. Len(changes') \in 0..ChangeSlots
    BY <2>1
  <2>3. inputDevices' \subseteq Devices
    BY <1>4, <2>1 DEF InputDevicesChanged, ApplyDeviceChange, DeviceChange
  <2>4. notice' \in Devices \cup {NoDevice, OtherNotice} /\ stray' \in BOOLEAN
    BY <1>4 DEF InputDevicesChanged, ShowNotice, HotplugNotice
  <2>5. QED
    BY <1>4, <2>1, <2>2, <2>3, <2>4 DEF InputDevicesChanged
<1>5. CASE DeviceHotplugToggled
  <2>1. PICK n \in 0..Len(changes) : changes' = SubSeq(changes, 1, n)
    BY <1>5 DEF DeviceHotplugToggled
  <2>2. changes' \in Seq(DeviceChange) /\ Len(changes') = n
    BY <2>1, SubSeqProperties
  <2>3. Len(changes') \in 0..ChangeSlots
    BY <2>2
  <2>4. QED
    BY <1>5, <2>2, <2>3 DEF DeviceHotplugToggled
<1>6. ASSUME NEW device \in Devices, DeviceSelected(device) PROVE DevicesTypeOK'
  BY <1>6 DEF DeviceSelected
<1>7. CASE CaptureMissesDevice
  BY <1>7 DEF CaptureMissesDevice
<1>8. CASE NoticeTaken \/ DismissNotice
  <2>1. notice' \in Devices \cup {NoDevice, OtherNotice} /\ raised' \in Devices \cup {NoDevice}
    BY <1>8 DEF NoticeTaken, DismissNotice, ShowNotice
  <2>2. stray' \in BOOLEAN
    <3>1. stray' = (raised \in inputDevices) \/ stray' = FALSE
      BY <1>8, Zenon DEF NoticeTaken, DismissNotice, ShowNotice
    <3>2. (raised \in inputDevices) \in BOOLEAN
      OBVIOUS
    <3>3. QED
      BY <3>1, <3>2
  <2>3. UNCHANGED <<plugged, inputDevices, deviceHotplug, watching, known, changes, inputDevice, missed>>
    BY <1>8 DEF NoticeTaken, DismissNotice
  <2>4. QED
    BY <2>1, <2>2, <2>3
<1>9. CASE UNCHANGED devicesVars
  BY <1>9 DEF devicesVars
<1>10. QED
  BY <1>1, <1>2, <1>3, <1>4, <1>5, <1>6, <1>7, <1>8, <1>9 DEF DevicesNext

\* A change that is sent is applied last.
LEMMA ListedAfterPoll ==
  ASSUME DevicesTypeOK, Poll
  PROVE  Listed' = (Listed \ (known \ known')) \cup (known' \ known)
<1> DEFINE change == DiffDeviceNames(known, known')
           n == Len(changes)
<1>1. known' \subseteq Devices /\ changes' = Append(changes, change) /\ UNCHANGED inputDevices
  BY PolledChange DEF Poll
<1>2. change.removed = known \ known' /\ change.added = known' \ known
  BY DEF DiffDeviceNames
<1> HIDE DEF change
<1>3. /\ n \in Nat /\ Len(changes') = n + 1 /\ changes'[n + 1] = change
      /\ \A k \in 1..n : changes'[k] = changes[k]
  BY <1>1 DEF DevicesTypeOK
<1>4. ASSUME NEW device \in Devices
      PROVE  device \in Listed' <=> (device \in Listed /\ device \notin change.removed) \/ device \in change.added
  <2>1. ASSUME device \in Listed, device \notin change.removed
        PROVE  device \in Listed'
    BY <1>1, <1>3, <2>1 DEF Listed
  <2>2. ASSUME device \in change.added
        PROVE  device \in Listed'
    BY <1>1, <1>3, <2>2 DEF Listed
  <2>3. ASSUME device \in Listed', device \notin change.added
        PROVE  device \in Listed /\ device \notin change.removed
    <3>1. PICK k \in 0..n + 1 :
            /\ IF k = 0 THEN device \in inputDevices ELSE device \in changes'[k].added
            /\ \A later \in k + 1..n + 1 : device \notin changes'[later].removed
      BY <1>1, <1>3, <2>3 DEF Listed
    <3>2. k \in 0..n
      BY <1>3, <2>3, <3>1
    <3>3. QED
      BY <1>3, <3>1, <3>2 DEF Listed
  <2>4. QED
    BY <2>1, <2>2, <2>3
<1>5. Listed \subseteq Devices /\ Listed' \subseteq Devices
  BY DEF Listed
<1>6. QED
  BY <1>1, <1>2, <1>4, <1>5

\* The change that is applied is the first of those under way.
LEMMA ListedAfterChange ==
  ASSUME DevicesTypeOK, InputDevicesChanged
  PROVE  Listed' = Listed
<1> DEFINE n == Len(changes)
<1>1. /\ changes # <<>> /\ changes' = Tail(changes)
      /\ inputDevices' = (inputDevices \ Head(changes).removed) \cup Head(changes).added
  BY DEF InputDevicesChanged, ApplyDeviceChange
<1>2. /\ n \in Nat /\ n > 0 /\ Len(changes') = n - 1 /\ Head(changes) = changes[1]
      /\ \A k \in 1..n - 1 : changes'[k] = changes[k + 1]
  BY <1>1 DEF DevicesTypeOK
<1>3. ASSUME NEW device \in Devices, NEW k \in 0..n - 1,
             IF k = 0 THEN device \in inputDevices' ELSE device \in changes'[k].added,
             \A later \in k + 1..n - 1 : device \notin changes'[later].removed
      PROVE  device \in Listed
  <2>1. \A later \in k + 2..n : device \notin changes[later].removed
    <3>1. ASSUME NEW later \in k + 2..n PROVE device \notin changes[later].removed
      <4>1. later - 1 \in k + 1..n - 1 /\ later - 1 \in 1..n - 1 /\ (later - 1) + 1 = later
        BY <1>2
      <4>2. QED
        BY <1>2, <1>3, <4>1
    <3>2. QED
      BY <3>1
  <2>2. CASE k # 0
    BY <1>2, <1>3, <2>1, <2>2 DEF Listed
  <2>3. CASE k = 0 /\ device \in changes[1].added
    BY <1>2, <2>1, <2>3 DEF Listed
  <2>4. CASE k = 0 /\ device \notin changes[1].added
    <3>1. device \in inputDevices /\ device \notin changes[1].removed
      BY <1>1, <1>2, <1>3, <2>4
    <3>2. \A later \in 1..n : device \notin changes[later].removed
      BY <1>2, <2>1, <2>4, <3>1
    <3>3. QED
      BY <1>2, <3>1, <3>2 DEF Listed
  <2>5. QED
    BY <2>2, <2>3, <2>4
<1>4. ASSUME NEW device \in Devices, NEW k \in 0..n,
             IF k = 0 THEN device \in inputDevices ELSE device \in changes[k].added,
             \A later \in k + 1..n : device \notin changes[later].removed
      PROVE  device \in Listed'
  <2>1. CASE k \in {0, 1}
    <3>1. device \in inputDevices'
      BY <1>1, <1>2, <1>4, <2>1
    <3>2. \A later \in 1..n - 1 : device \notin changes'[later].removed
      BY <1>2, <1>4, <2>1
    <3>3. QED
      BY <1>2, <3>1, <3>2 DEF Listed
  <2>2. CASE k \notin {0, 1}
    <3>1. k - 1 \in 1..n - 1 /\ device \in changes'[k - 1].added
      BY <1>2, <1>4, <2>2
    <3>2. \A later \in (k - 1) + 1..n - 1 : device \notin changes'[later].removed
      BY <1>2, <1>4, <2>2
    <3>3. QED
      BY <1>2, <3>1, <3>2 DEF Listed
  <2>3. QED
    BY <2>1, <2>2
<1>5. Listed \subseteq Listed'
  BY <1>4 DEF Listed
<1>6. Listed' \subseteq Listed
  BY <1>2, <1>3 DEF Listed
<1>7. QED
  BY <1>5, <1>6

LEMMA DevicesStep ==
  ASSUME DevicesInv, [DevicesNext]_devicesVars
  PROVE  ChangesDiffer' /\ ListFits' /\ NoticeOfMissing'
<1> USE DevicesAssumption DEF DevicesInv, ChangesDiffer, NoticeOfMissing, ListFits
<1>1. CASE Replug
  BY <1>1 DEF Replug, Listed
<1>2. CASE StartWatcher
  BY <1>2 DEF StartWatcher, Listed
<1>3. CASE Poll
  <2>1. ListFits'
    <3>1. known' \subseteq Devices /\ UNCHANGED missed /\ watching
      BY <1>3, PolledChange DEF Poll
    <3>2. QED
      BY <1>3, <3>1, ListedAfterPoll
  <2>2. ChangesDiffer'
    <3> DEFINE change == DiffDeviceNames(known, known')
    <3>1. changes' = Append(changes, change) /\ change.added \cap change.removed = {}
      BY <1>3, PolledChange
    <3> HIDE DEF change
    <3>2. QED
      BY <3>1 DEF DevicesTypeOK
  <2>3. NoticeOfMissing'
    BY <1>3 DEF Poll
  <2>4. QED
    BY <2>1, <2>2, <2>3
<1>4. CASE InputDevicesChanged
  <2> DEFINE change == Head(changes)
  <2>1. change \in DeviceChange /\ change.added \cap change.removed = {}
    <3>1. change = changes[1] /\ 1 \in DOMAIN changes
      BY <1>4 DEF InputDevicesChanged, DevicesTypeOK
    <3>2. changes[1] \in DeviceChange
      BY <3>1 DEF DevicesTypeOK
    <3>3. QED
      BY <3>1, <3>2
  <2>2. ListFits'
    BY <1>4, ListedAfterChange DEF InputDevicesChanged
  <2>3. ChangesDiffer'
    BY <1>4 DEF InputDevicesChanged, DevicesTypeOK
  <2>4. /\ inputDevices' = (inputDevices \ change.removed) \cup change.added
        /\ notice' = HotplugNotice(change, notice)
        /\ stray' = /\ notice' = notice /\ inputDevice \notin change.removed
                    /\ stray \/ (notice \in change.added /\ notice # inputDevice)
    BY <1>4 DEF InputDevicesChanged, ApplyDeviceChange, ShowNotice
  <2> HIDE DEF change
  <2>5. NoticeOfMissing'
    <3>1. CASE inputDevice \in change.removed
      BY <2>1, <2>4, <3>1 DEF HotplugNotice
    <3>2. CASE inputDevice \notin change.removed /\ inputDevice \in change.added /\ notice = inputDevice
      <4>1. notice' = NoDevice /\ NoDevice \notin inputDevices'
        BY <2>1, <2>4, <3>2 DEF HotplugNotice, DevicesTypeOK, DeviceChange
      <4>2. QED
        BY <4>1
    <3>3. CASE inputDevice \notin change.removed /\ ~ (inputDevice \in change.added /\ notice = inputDevice)
      <4>1. notice' = notice
        BY <2>4, <3>3 DEF HotplugNotice
      <4>2. ~stray' => ~stray /\ notice \notin change.added
        BY <2>4, <3>3, <4>1
      <4>3. QED
        BY <2>4, <4>1, <4>2
    <3>4. QED
      BY <3>1, <3>2, <3>3
  <2>6. QED
    BY <2>2, <2>3, <2>5
<1>5. CASE DeviceHotplugToggled
  <2>1. PICK n \in 0..Len(changes) : changes' = SubSeq(changes, 1, n)
    BY <1>5 DEF DeviceHotplugToggled, DevicesTypeOK
  <2>2. \A k \in DOMAIN changes' : k \in DOMAIN changes /\ changes'[k] = changes[k]
    BY <2>1, SubSeqProperties DEF DevicesTypeOK
  <2>3. QED
    BY <1>5, <2>2 DEF DeviceHotplugToggled
<1>6. ASSUME NEW device \in Devices, DeviceSelected(device)
      PROVE  ChangesDiffer' /\ ListFits' /\ NoticeOfMissing'
  BY <1>6 DEF DeviceSelected, Listed
<1>7. CASE CaptureMissesDevice
  BY <1>7 DEF CaptureMissesDevice, Listed
<1>8. CASE NoticeTaken \/ DismissNotice
  <2>1. UNCHANGED <<inputDevices, watching, known, changes, missed>>
    BY <1>8 DEF NoticeTaken, DismissNotice
  <2>2. \/ notice' = raised /\ stray' = (raised \in inputDevices)
        \/ notice' \in {OtherNotice, NoDevice}
    BY <1>8 DEF NoticeTaken, DismissNotice, ShowNotice
  <2>3. NoticeOfMissing'
    BY <2>1, <2>2 DEF DevicesTypeOK
  <2>4. QED
    BY <2>1, <2>3 DEF Listed
<1>9. CASE UNCHANGED devicesVars
  BY <1>9 DEF devicesVars, Listed
<1>10. QED
  BY <1>1, <1>2, <1>3, <1>4, <1>5, <1>6, <1>7, <1>8, <1>9 DEF DevicesNext

LEMMA DevicesInvInit == DevicesInit => DevicesInv
<1> SUFFICES ASSUME DevicesInit PROVE DevicesInv
  OBVIOUS
<1>1. DevicesTypeOK
  <2>1. changes \in Seq(DeviceChange) /\ Len(changes) = 0
    BY EmptySeq DEF DevicesInit
  <2>2. Len(changes) \in 0..ChangeSlots
    BY <2>1, DevicesAssumption
  <2>3. QED
    BY <2>1, <2>2 DEF DevicesInit, DevicesTypeOK, InputDeviceNames
<1>2. QED
  BY <1>1, DevicesAssumption, EmptySeq
     DEF DevicesInit, DevicesInv, DevicesTypeOK, ChangesDiffer, ListFits, NoticeOfMissing

LEMMA DevicesInvStep == DevicesInv /\ [DevicesNext]_devicesVars => DevicesInv'
BY DevicesTypeStep, DevicesStep DEF DevicesInv

\* For any devices and any room in the watcher's channel, whatever is plugged, polled,
\* dropped or fails to enumerate: the list is kept current and the notice true.
THEOREM DevicesTrue == DevicesSpec => [](DevicesTypeOK /\ DevicesFit)
<1>1. DevicesInv => DevicesTypeOK /\ DevicesFit
  BY DEF DevicesInv, DevicesFit, NoticeFits, NoticeOfMissing
<1>2. QED
  BY <1>1, DevicesInvInit, DevicesInvStep, PTL DEF DevicesSpec

-----------------------------------------------------------------------------
(***************************************************************************)
(* How settings reach dictation.                                            *)
(***************************************************************************)
\* The settings on their way end with those of the app, who sent them on the channel
\* of a worker that runs.
SettingsPushed ==
  /\ settings # <<>> => workerConfig /\ Last(settings) = config
  /\ workerConfig => worker = "running"
  /\ \A k \in DOMAIN reports : reports[k] = "ready" => worker = "running"

\* What the worker loaded is what the app has, but for what was saved since, or a file
\* read within a save; and so is what it builds from it.
SessionFits ==
  /\ saving = "no" /\ ~saveFailed => LoadFrom = config
  /\ worker # "starting" /\ settings = <<>> /\ ~unheardSave => session = config \/ tornLoad
  /\ worker = "building" =>
       \/ changed \/ tornLoad
       \/ PipelineFor(session, openaiKey) = PipelineFor(config, openaiKey) /\ session.model = config.model
  /\ worker \in {"listening", "running"} =>
       pipeline = PipelineFor(config, openaiKey) \/ changed \/ tornLoad

\* A model is reported missing only if it is; a worker that parked said why.
ReportsFit ==
  /\ worker = "starting" => reports = <<>> /\ ~needsModel
  /\ needsModel \/ (\E k \in DOMAIN reports : reports[k] = "needsModel") =>
       IsMissingWhisperModel(config) \/ changed \/ tornLoad
  /\ worker = "parked" => reports # <<>> \/ needsModel \/ lastError

BootInv == BootTypeOK /\ SettingsPushed /\ SessionFits /\ ReportsFit

LEMMA PipelineTyped ==
  ASSUME NEW c \in AppConfig, NEW key \in OpenaiKeys
  PROVE  PipelineFor(c, key) \in [asr : {"whisper", "openai"}, refine : {"noop", "openai"},
                             language : {"unset", "es", "fr"}, rewrites : BOOLEAN, key : OpenaiKeys]
<1>1. EffectiveLanguage(c) \in {"unset", "es", "fr"}
  BY DEF EffectiveLanguage, AppConfig
<1>2. c.asr \in {"whisper", "openai"} /\ c.refine \in {"noop", "openai"}
  BY DEF AppConfig
<1>3. c.rewrites \in BOOLEAN
  BY DEF AppConfig
<1>4. QED
  BY <1>1, <1>2, <1>3 DEF PipelineFor, OpenaiKeys

LEMMA DefaultsTyped == BootDefaults \in AppConfig
BY DEF BootDefaults, AppConfig

\* Every change of the settings saves a configuration.
LEMMA ChangeIsSave ==
  ASSUME config \in AppConfig, SelectSetting \/ SetKey
  PROVE  \E new \in AppConfig : SaveConfig(new)
<1>1. ASSUME SelectSetting PROVE \E new \in AppConfig : SaveConfig(new)
  <2>1. /\ [config EXCEPT !.asr = "whisper", !.model = TRUE] \in AppConfig
        /\ [config EXCEPT !.asr = "openai"] \in AppConfig
        /\ \A refine \in {"noop", "openai"} : [config EXCEPT !.refine = refine] \in AppConfig
        /\ \A language \in {"unset", "fr"} : [config EXCEPT !.language = language] \in AppConfig
        /\ [config EXCEPT !.rewrites = ~@] \in AppConfig
        /\ [config EXCEPT !.micPrivacy = ~@] \in AppConfig
    BY DEF AppConfig
  <2>2. QED
    BY <1>1, <2>1, Zenon DEF SelectSetting
<1>2. ASSUME SetKey PROVE \E new \in AppConfig : SaveConfig(new)
  BY <1>2 DEF SetKey
<1>3. QED
  BY <1>1, <1>2

LEMMA PushedTyped ==
  ASSUME settings \in Seq(AppConfig), NEW new \in AppConfig, PushSettings(new)
  PROVE  /\ settings' \in Seq(AppConfig)
         /\ workerConfig => settings' # <<>> /\ Last(settings') = new
         /\ ~workerConfig => settings' = settings
<1>1. CASE workerConfig
  <2>1. settings' = Append(settings, new)
    BY <1>1 DEF PushSettings
  <2>2. QED
    BY <1>1, <2>1, AppendProperties DEF Last
<1>2. CASE ~workerConfig
  BY <1>2 DEF PushSettings
<1>3. QED
  BY <1>1, <1>2

LEMMA BootTypeStep ==
  ASSUME BootTypeOK, [BootNext]_bootVars
  PROVE  BootTypeOK'
<1> USE SavesAssumption DEF BootTypeOK
<1>1. LoadFrom \in AppConfig
  BY DefaultsTyped DEF LoadFrom
<1>2. CASE LoadSettings
  <2>1. tornLoad' \in BOOLEAN
    BY <1>2 DEF LoadSettings
  <2>2. /\ worker' = "building" /\ session' = LoadFrom /\ changed' = FALSE /\ unheardSave' = FALSE
        /\ UNCHANGED <<config, configFile, fileTorn, openaiKey, saving, pipeline, settings, workerConfig,
                       reports, needsModel, lastError, saves, saveFailed>>
    BY <1>2 DEF LoadSettings
  <2>3. /\ session' \in AppConfig /\ worker' \in {"starting", "building", "listening", "running", "parked"}
        /\ changed' \in BOOLEAN /\ unheardSave' \in BOOLEAN
    BY <1>1, <2>2, Zenon
  <2>4. /\ config' \in AppConfig /\ configFile' \in AppConfig
        /\ openaiKey' \in OpenaiKeys /\ fileTorn' \in BOOLEAN /\ workerConfig' \in BOOLEAN
        /\ saving' \in {"no", "opening", "writing"}
    BY <2>2, Zenon
  <2>5. /\ pipeline' \in [asr : {"whisper", "openai"}, refine : {"noop", "openai"},
                          language : {"unset", "es", "fr"}, rewrites : BOOLEAN, key : OpenaiKeys]
        /\ settings' \in Seq(AppConfig) /\ reports' \in Seq({"ready", "needsModel", "failed"})
    BY <2>2, Zenon
  <2>6. /\ needsModel' \in BOOLEAN /\ lastError' \in BOOLEAN /\ saves' \in 0..MaxSaves
        /\ saveFailed' \in BOOLEAN
    BY <2>2, Zenon
  <2>7. QED
    BY <2>1, <2>3, <2>4, <2>5, <2>6, Zenon
<1>3. CASE BuildPipeline
  <2>1. reports' \in Seq({"ready", "needsModel", "failed"})
    <3>1. CASE UNCHANGED reports
      BY <3>1
    <3>2. CASE ~UNCHANGED reports
      <4>1. PICK report \in {"ready", "needsModel", "failed"} : reports' = Append(reports, report)
        BY <1>3, <3>2 DEF BuildPipeline
      <4>2. QED
        BY <4>1, AppendProperties
    <3>3. QED
      BY <3>1, <3>2
  <2>2. pipeline' = pipeline \/ pipeline' = PipelineFor(session, openaiKey)
    BY <1>3 DEF BuildPipeline
  <2>3. QED
    BY <1>3, <2>1, <2>2, PipelineTyped DEF BuildPipeline, bootHistory
<1>4. CASE StartListener
  <2>1. reports' \in Seq({"ready", "needsModel", "failed"})
    <3>1. \E report \in {"ready", "failed"} : reports' = Append(reports, report)
      BY <1>4 DEF StartListener
    <3>2. QED
      BY <3>1, AppendProperties
  <2>2. QED
    BY <1>4, <2>1 DEF StartListener, bootHistory
<1>5. CASE ApplySettings
  <2>1. session' \in AppConfig /\ settings' \in Seq(AppConfig)
    BY <1>5, EmptySeq, ElementOfSeq, LenProperties DEF ApplySettings, Last
  <2>2. QED
    BY <1>5, <2>1 DEF ApplySettings, bootHistory
<1>6. CASE Dictate
  BY <1>6 DEF Dictate, bootHistory
<1>7. CASE SelectSetting \/ SetKey
  <2>1. PICK new \in AppConfig : SaveConfig(new)
    BY <1>7, ChangeIsSave
  <2>2. config' \in AppConfig /\ settings' \in Seq(AppConfig)
    BY <2>1, PushedTyped DEF SaveConfig
  <2>3. saves' \in 0..MaxSaves /\ changed' \in BOOLEAN /\ unheardSave' \in BOOLEAN
    BY <2>1 DEF SaveConfig
  <2>4. openaiKey' \in OpenaiKeys
    BY <1>7 DEF SelectSetting, SetKey
  <2>5. QED
    BY <2>1, <2>2, <2>3, <2>4 DEF SaveConfig
<1>8. CASE EmptyFile \/ WriteFile \/ SaveFails
  <2>1. /\ UNCHANGED <<config, openaiKey, worker, session, pipeline, settings, workerConfig,
                       reports, needsModel, saves, changed, unheardSave, tornLoad>>
        /\ configFile' \in {config, configFile} /\ saving' \in {"no", "writing"}
    BY <1>8 DEF EmptyFile, WriteFile, SaveFails, bootHistory
  <2>2. /\ fileTorn' \in {TRUE, FALSE, fileTorn} /\ lastError' \in {TRUE, lastError}
        /\ saveFailed' \in {TRUE, FALSE, saveFailed}
    BY <1>8 DEF EmptyFile, WriteFile, SaveFails, bootHistory
  <2>3. fileTorn' \in BOOLEAN /\ lastError' \in BOOLEAN /\ saveFailed' \in BOOLEAN
    BY <2>2
  <2>4. QED
    BY <2>1, <2>3
<1>9. CASE HandleReport
  <2>1. reports' \in Seq({"ready", "needsModel", "failed"})
    BY <1>9, HeadTailProperties DEF HandleReport
  <2>2. workerConfig' \in BOOLEAN /\ needsModel' \in BOOLEAN /\ lastError' \in BOOLEAN
    BY <1>9 DEF HandleReport
  <2>3. QED
    BY <1>9, <2>1, <2>2 DEF HandleReport, bootHistory
<1>10. CASE RestartWorker
  <2>1. settings' \in Seq(AppConfig) /\ reports' \in Seq({"ready", "needsModel", "failed"})
    BY <1>10, EmptySeq DEF RestartWorker
  <2>2. saves' \in 0..MaxSaves
    BY <1>10 DEF RestartWorker
  <2>3. "none" \in OpenaiKeys
    BY DEF OpenaiKeys
  <2>4. QED
    BY <1>1, <1>10, <2>1, <2>2, <2>3, PipelineTyped, DefaultsTyped DEF RestartWorker
<1>11. CASE UNCHANGED bootVars
  BY <1>11 DEF bootVars
<1>12. QED
  BY <1>2, <1>3, <1>4, <1>5, <1>6, <1>7, <1>8, <1>9, <1>10, <1>11 DEF BootNext

\* What the worker builds depends on the parts of the settings it is compared by.
LEMMA MissingFollowsPipeline ==
  ASSUME NEW one \in AppConfig, NEW other \in AppConfig,
         NEW oneKey, NEW otherKey,
         PipelineFor(one, oneKey) = PipelineFor(other, otherKey), one.model = other.model
  PROVE  IsMissingWhisperModel(one) <=> IsMissingWhisperModel(other)
<1>1. one.asr = other.asr
  BY DEF PipelineFor
<1>2. QED
  BY <1>1 DEF IsMissingWhisperModel

\* A key that makes no difference to one configuration makes none to one built alike.
LEMMA KeyMakesNoDifference ==
  ASSUME NEW one, NEW other, NEW new, NEW key, NEW newKey,
         PipelineFor(one, key) = PipelineFor(other, key),
         PipelineFor(new, newKey) = PipelineFor(other, key)
  PROVE  PipelineFor(one, newKey) = PipelineFor(new, newKey)
<1>1. /\ one.asr = other.asr /\ one.refine = other.refine /\ new.asr = other.asr
      /\ new.refine = other.refine /\ one.rewrites = new.rewrites
      /\ EffectiveLanguage(one) = EffectiveLanguage(new)
  BY DEF PipelineFor
<1>2. UsesOpenai(one) <=> UsesOpenai(new)
  BY <1>1 DEF UsesOpenai
<1>3. QED
  BY <1>1, <1>2 DEF PipelineFor

LEMMA BootStep ==
  ASSUME BootInv, [BootNext]_bootVars
  PROVE  SettingsPushed' /\ SessionFits' /\ ReportsFit'
<1> USE DEF BootInv, SettingsPushed, SessionFits, ReportsFit
<1>1. CASE LoadSettings
  <2>1. settings = <<>> /\ ~workerConfig
    BY <1>1 DEF LoadSettings
  <2>2. session' = config \/ tornLoad'
    BY <1>1 DEF LoadSettings, BootTypeOK
  <2>3. SettingsPushed' /\ ReportsFit'
    BY <1>1, <2>1 DEF LoadSettings
  <2>4. SessionFits'
    BY <1>1, <2>2 DEF LoadSettings, LoadFrom
  <2>5. QED
    BY <2>3, <2>4
<1>2. CASE BuildPipeline
  <2>1. UNCHANGED <<config, configFile, fileTorn, openaiKey, saving, session, settings, workerConfig,
                    needsModel, lastError, changed, unheardSave, tornLoad, saveFailed>> /\ worker = "building"
    BY <1>2 DEF BuildPipeline, bootHistory
  <2>2. CASE worker' = "listening" /\ pipeline' = PipelineFor(session, openaiKey) /\ UNCHANGED reports
    BY <2>1, <2>2 DEF LoadFrom
  <2>3. ASSUME NEW report \in {"needsModel", "failed"}, worker' = "parked", UNCHANGED pipeline,
               reports' = Append(reports, report),
               report = "needsModel" => IsMissingWhisperModel(session)
        PROVE  SettingsPushed' /\ SessionFits' /\ ReportsFit'
    <3>1. /\ reports' # <<>> /\ DOMAIN reports' = 1..Len(reports) + 1
          /\ \A k \in DOMAIN reports' : (k \in DOMAIN reports /\ reports'[k] = reports[k]) \/ reports'[k] = report
      BY <2>3 DEF BootTypeOK
    <3>2. report = "needsModel" => IsMissingWhisperModel(config) \/ changed \/ tornLoad
      BY <2>1, <2>3, MissingFollowsPipeline DEF BootTypeOK
    <3>3. SettingsPushed'
      BY <2>1, <2>3, <3>1
    <3>4. SessionFits'
      BY <2>1, <2>3 DEF LoadFrom
    <3>5. ReportsFit'
      BY <2>1, <2>3, <3>1, <3>2
    <3>6. QED
      BY <3>3, <3>4, <3>5
  <2>4. QED
    BY <1>2, <2>2, <2>3 DEF BuildPipeline
<1>3. CASE StartListener
  <2>1. UNCHANGED <<config, configFile, fileTorn, openaiKey, saving, session, pipeline, settings, workerConfig,
                    needsModel, lastError, changed, unheardSave, tornLoad, saveFailed>> /\ worker = "listening"
    BY <1>3 DEF StartListener, bootHistory
  <2>2. PICK report \in {"ready", "failed"} :
          /\ reports' = Append(reports, report)
          /\ worker' = IF report = "ready" THEN "running" ELSE "parked"
    BY <1>3 DEF StartListener
  <2>3. /\ reports' # <<>> /\ DOMAIN reports' = 1..Len(reports) + 1
        /\ \A k \in DOMAIN reports' : (k \in DOMAIN reports /\ reports'[k] = reports[k]) \/ reports'[k] = report
    BY <2>2 DEF BootTypeOK
  <2>4. SettingsPushed'
    BY <2>1, <2>2, <2>3
  <2>5. SessionFits'
    BY <2>1, <2>2 DEF LoadFrom
  <2>6. ReportsFit'
    BY <2>1, <2>2, <2>3
  <2>7. QED
    BY <2>4, <2>5, <2>6
<1>4. CASE ApplySettings
  <2>1. session' = config /\ settings' = <<>> /\ worker = "running"
    BY <1>4 DEF ApplySettings
  <2>2. QED
    BY <1>4, <2>1 DEF ApplySettings, bootHistory, LoadFrom
<1>5. CASE Dictate
  BY <1>5 DEF Dictate, bootHistory, LoadFrom
<1>6. CASE SelectSetting \/ SetKey
  <2>1. PICK new \in AppConfig : SaveConfig(new)
    BY <1>6, ChangeIsSave DEF BootTypeOK
  <2>2. /\ saving' = "opening" /\ config' = new /\ unheardSave' = ~workerConfig
        /\ UNCHANGED <<worker, session, pipeline, workerConfig, reports, needsModel, lastError, tornLoad>>
        /\ changed' = \/ changed \/ new.model # config.model
                      \/ PipelineFor(new, openaiKey') # PipelineFor(config, openaiKey)
    BY <2>1 DEF SaveConfig
  <2>3. workerConfig => settings' # <<>> /\ Last(settings') = new
    BY <2>1, PushedTyped DEF SaveConfig, BootTypeOK
  <2>4. ~workerConfig => settings' = settings
    BY <2>1, PushedTyped DEF SaveConfig, BootTypeOK
  <2>5. ~changed' =>
          /\ ~changed /\ PipelineFor(new, openaiKey') = PipelineFor(config, openaiKey) /\ new.model = config.model
          /\ (IsMissingWhisperModel(new) <=> IsMissingWhisperModel(config))
    BY <2>2, MissingFollowsPipeline DEF BootTypeOK
  <2>6. SettingsPushed'
    BY <2>2, <2>3, <2>4
  <2>7. SessionFits'
    <3>1. worker = "building" /\ ~changed' /\ ~tornLoad =>
            PipelineFor(session, openaiKey') = PipelineFor(new, openaiKey') /\ session.model = new.model
      BY <2>5, KeyMakesNoDifference
    <3>2. QED
      BY <2>2, <2>3, <2>4, <2>5, <3>1
  <2>8. ReportsFit'
    BY <2>2, <2>5
  <2>9. QED
    BY <2>6, <2>7, <2>8
<1>7. CASE EmptyFile \/ WriteFile \/ SaveFails
  <2>1. UNCHANGED <<config, openaiKey, worker, session, pipeline, settings, workerConfig, reports, needsModel,
                    changed, unheardSave, tornLoad>> /\ (lastError => lastError')
    BY <1>7 DEF EmptyFile, WriteFile, SaveFails, bootHistory
  <2>2. saving' = "no" /\ ~saveFailed' => LoadFrom' = config'
    BY <1>7 DEF EmptyFile, WriteFile, SaveFails, LoadFrom
  <2>3. QED
    BY <2>1, <2>2
<1>8. CASE HandleReport
  <2>1. /\ UNCHANGED <<config, configFile, fileTorn, openaiKey, saving, worker, session, pipeline, settings,
                       changed, unheardSave, tornLoad, saveFailed>>
        /\ reports # <<>> /\ reports' = Tail(reports)
        /\ workerConfig' = (workerConfig \/ Head(reports) = "ready")
        /\ needsModel' = (needsModel \/ Head(reports) = "needsModel")
        /\ lastError' = (lastError \/ Head(reports) = "failed")
    BY <1>8 DEF HandleReport, bootHistory
  <2>2. /\ 1 \in DOMAIN reports /\ Head(reports) = reports[1]
        /\ \A k \in DOMAIN reports' : k + 1 \in DOMAIN reports /\ reports'[k] = reports[k + 1]
        /\ Head(reports) \in {"ready", "needsModel", "failed"}
    BY <2>1 DEF BootTypeOK
  <2>3. SettingsPushed'
    BY <2>1, <2>2
  <2>4. SessionFits'
    BY <2>1 DEF LoadFrom
  <2>5. ReportsFit'
    BY <2>1, <2>2
  <2>6. QED
    BY <2>3, <2>4, <2>5
<1>9. CASE RestartWorker
  BY <1>9 DEF RestartWorker, LoadFrom
<1>10. CASE UNCHANGED bootVars
  BY <1>10 DEF bootVars, LoadFrom
<1>11. QED
  BY <1>1, <1>2, <1>3, <1>4, <1>5, <1>6, <1>7, <1>8, <1>9, <1>10 DEF BootNext

LEMMA BootInvInit == BootInit => BootInv
<1> SUFFICES ASSUME BootInit PROVE BootInv
  OBVIOUS
<1>1. config \in AppConfig
  BY DEF BootInit, AppConfig
<1>2. settings \in Seq(AppConfig) /\ reports \in Seq({"ready", "needsModel", "failed"})
  BY EmptySeq DEF BootInit
<1>3. saves \in 0..MaxSaves
  BY SavesAssumption DEF BootInit
<1>4. openaiKey \in OpenaiKeys /\ "none" \in OpenaiKeys
  BY DEF BootInit, OpenaiKeys
<1>5. pipeline \in [asr : {"whisper", "openai"}, refine : {"noop", "openai"},
                    language : {"unset", "es", "fr"}, rewrites : BOOLEAN, key : OpenaiKeys]
  BY <1>4, PipelineTyped, DefaultsTyped DEF BootInit
<1>6. BootTypeOK
  BY <1>1, <1>2, <1>3, <1>4, <1>5, DefaultsTyped DEF BootInit, BootTypeOK
<1>7. SettingsPushed /\ SessionFits /\ ReportsFit
  BY EmptySeq DEF BootInit, SettingsPushed, SessionFits, ReportsFit, LoadFrom
<1>8. QED
  BY <1>6, <1>7 DEF BootInv

LEMMA BootInvStep == BootInv /\ [BootNext]_bootVars => BootInv'
BY BootTypeStep, BootStep DEF BootInv

\* However saves, a torn file, restarts and the worker's reports interleave: what the
\* settings show is what dictation goes by, but for the reasons SettingsApply names.
THEOREM SettingsReachDictation == BootSpec => [](BootTypeOK /\ SettingsApply)
<1>1. BootInv => BootTypeOK /\ SettingsApply
  BY DEF BootInv, SettingsApply, SettingsPushed, SessionFits, ReportsFit
<1>2. QED
  BY <1>1, BootInvInit, BootInvStep, PTL DEF BootSpec

-----------------------------------------------------------------------------
(***************************************************************************)
(* Secrets: none is lost, reverted or left in plaintext, whatever the      *)
(* number of secrets and however often the user edits them.                *)
(***************************************************************************)
\* A plaintext copy, if there is one, is no older than the keystore's entry.
NoOlder(copy) == \A s \in Slots : copy[s] # None => keystore[s] <= copy[s]

\* What the keystore, config.toml and the configuration in memory have to do
\* with each other while nothing has gone wrong with a save.
Consistent ==
  /\ pc \in {"migrate", "idle"} => configCopy = fileCopy
  /\ pc \in {"off", "migrate", "idle"} => NoOlder(fileCopy)
  /\ pc \in {"truncate", "write"} => NoOlder(configCopy)
  /\ pc = "migrate" => \A s \in Slots \ toMigrate : fileCopy[s] # None => keystore[s] # None
  /\ pc = "truncate" =>
       \A s \in Slots \ removed : keystore[s] # None \/ configCopy[s] >= fileCopy[s]

\* Once past the migration, there is no plaintext copy in memory to save.
MigrationDone ==
  persistent /\ ~refused /\ pc \in {"idle", "truncate", "write"} =>
    \A s \in Slots : configCopy[s] = None

SecretsInv == SecretsTypeOK /\ (~interrupted => Consistent /\ MigrationDone)

(***************************************************************************)
(* Every variable keeps its type, whatever the keystore and the file       *)
(* system do.                                                              *)
(***************************************************************************)
LEMMA SecretsTypeInit == SecretsInit => SecretsTypeOK
<1> SUFFICES ASSUME SecretsInit PROVE SecretsTypeOK
  OBVIOUS
<1>1. keystore \in Values /\ fileCopy \in Values /\ configCopy \in Values
  BY DEF SecretsInit, Values, None
<1> QED
  BY <1>1 DEF SecretsInit, SecretsTypeOK

LEMMA SecretsTypeStep == SecretsTypeOK /\ [SecretsNext]_secretsVars => SecretsTypeOK'
<1> SUFFICES ASSUME SecretsTypeOK, [SecretsNext]_secretsVars PROVE SecretsTypeOK'
  OBVIOUS
<1> USE DEF SecretsTypeOK, Values, None
<1>1. CASE \E s \in Slots : EditFile(s)
  BY <1>1 DEF EditFile
<1>2. CASE Boot
  BY <1>2 DEF Boot
<1>3. CASE \E s \in Slots : Migrate(s)
  <2> PICK s \in Slots : Migrate(s)
    BY <1>3
  <2>1. keystore' \in Values' /\ fileCopy' \in Values' /\ configCopy' \in Values'
    BY DEF Migrate
  <2>2. toMigrate' \subseteq toMigrate /\ (toMigrate' # {} => configCopy' = configCopy)
    BY DEF Migrate
  <2>3. pc' = "migrate" <=> toMigrate' # {}
    BY DEF Migrate
  <2>4. pc' \in {"idle", "truncate", "migrate"} /\ refused' \in BOOLEAN
    BY DEF Migrate
  <2> QED
    BY <2>1, <2>2, <2>3, <2>4 DEF Migrate
<1>4. CASE \E s \in Slots : SaveSecret(s)
  BY <1>4 DEF SaveSecret
<1>5. CASE \E s \in Slots : RemoveSecret(s)
  BY <1>5 DEF RemoveSecret
<1>6. CASE SaveSetting
  BY <1>6 DEF SaveSetting, history
<1>7. CASE TruncateConfig
  <2>1. fileCopy' \in Values' /\ UNCHANGED <<keystore, configCopy, values>>
    BY <1>7 DEF TruncateConfig
  <2>2. pc' \in {"write", "idle"} /\ interrupted' \in BOOLEAN
    BY <1>7 DEF TruncateConfig
  <2> QED
    BY <1>7, <2>1, <2>2 DEF TruncateConfig
<1>8. CASE WriteConfig
  BY <1>8 DEF WriteConfig
<1>9. CASE Crash
  BY <1>9 DEF Crash
<1>10. CASE UNCHANGED secretsVars
  BY <1>10 DEF secretsVars, history
<1> QED
  BY <1>1, <1>2, <1>3, <1>4, <1>5, <1>6, <1>7, <1>8, <1>9, <1>10 DEF SecretsNext

THEOREM SecretsTypeCorrect == SecretsSpec => []SecretsTypeOK
  BY SecretsTypeInit, SecretsTypeStep, PTL DEF SecretsSpec

-----------------------------------------------------------------------------
(***************************************************************************)
(* What every save relies on: as long as none has failed, the copies agree *)
(* or are about to, and no copy is older than the keystore's entry.        *)
(***************************************************************************)
LEMMA SecretsInvStep == SecretsInv /\ [SecretsNext]_secretsVars => SecretsInv'
<1> SUFFICES ASSUME SecretsInv, [SecretsNext]_secretsVars, ~interrupted'
             PROVE  Consistent' /\ MigrationDone'
  BY SecretsTypeStep DEF SecretsInv
<1>0. SecretsTypeOK /\ SecretsTypeOK'
  BY SecretsTypeStep DEF SecretsInv
<1> USE DEF Consistent, MigrationDone, NoOlder, SecretsTypeOK, Values, None
<1>1. CASE \E s \in Slots : EditFile(s)
  <2>1. Consistent /\ MigrationDone
    BY <1>1 DEF EditFile, SecretsInv
  <2> QED
    BY <1>0, <1>1, <2>1 DEF EditFile
<1>2. CASE Boot
  <2>1. Consistent /\ MigrationDone
    BY <1>2 DEF Boot, SecretsInv
  <2> QED
    BY <1>0, <1>2, <2>1 DEF Boot
<1>3. CASE \E s \in Slots : Migrate(s)
  <2>1. Consistent /\ MigrationDone
    BY <1>3 DEF Migrate, SecretsInv
  <2> QED
    BY <1>0, <1>3, <2>1 DEF Migrate
<1>4. CASE \E s \in Slots : SaveSecret(s)
  <2>1. Consistent /\ MigrationDone
    BY <1>4 DEF SaveSecret, SecretsInv
  <2> QED
    BY <1>0, <1>4, <2>1 DEF SaveSecret
<1>5. CASE \E s \in Slots : RemoveSecret(s)
  <2>1. Consistent /\ MigrationDone
    BY <1>5 DEF RemoveSecret, SecretsInv
  <2> QED
    BY <1>0, <1>5, <2>1 DEF RemoveSecret
<1>6. CASE SaveSetting
  <2>1. Consistent /\ MigrationDone
    BY <1>6 DEF SaveSetting, history, SecretsInv
  <2> QED
    BY <1>0, <1>6, <2>1 DEF SaveSetting, history
<1>7. CASE TruncateConfig
  <2>1. Consistent /\ MigrationDone
    BY <1>7 DEF TruncateConfig, SecretsInv
  <2> QED
    BY <1>0, <1>7, <2>1 DEF TruncateConfig
<1>8. CASE WriteConfig
  <2>1. Consistent /\ MigrationDone
    BY <1>8 DEF WriteConfig, SecretsInv
  <2> QED
    BY <1>0, <1>8, <2>1 DEF WriteConfig
<1>9. CASE Crash
  <2>1. Consistent /\ MigrationDone
    BY <1>9 DEF Crash, SecretsInv
  <2> QED
    BY <1>0, <1>9, <2>1 DEF Crash
<1>10. CASE UNCHANGED secretsVars
  BY <1>10 DEF secretsVars, history, SecretsInv
<1> QED
  BY <1>1, <1>2, <1>3, <1>4, <1>5, <1>6, <1>7, <1>8, <1>9, <1>10 DEF SecretsNext

LEMMA SecretsInvariant == SecretsSpec => []SecretsInv
<1>1. SecretsInit => SecretsInv
  BY SecretsTypeInit DEF SecretsInit, SecretsInv, Consistent, MigrationDone, NoOlder, None
<1> QED
  BY <1>1, SecretsInvStep, PTL DEF SecretsSpec

(***************************************************************************)
(* For any number of secrets: where there is a keystore, no plaintext copy *)
(* stays in config.toml once the app has started.                          *)
(***************************************************************************)
THEOREM PlaintextGone == SecretsSpec => []NoPlaintextLeft
<1>1. SecretsInv => NoPlaintextLeft
  BY DEF SecretsInv, Consistent, MigrationDone, NoPlaintextLeft
<1> QED
  BY <1>1, SecretsInvariant, PTL

-----------------------------------------------------------------------------
(***************************************************************************)
(* For any number of secrets: as long as config.toml gets saved, no secret *)
(* is lost or reverted.                                                    *)
(***************************************************************************)
LEMMA StepKeeps ==
  ASSUME SecretsInv, [SecretsNext]_secretsVars, ~interrupted', NEW s \in Slots \ removed'
  PROVE  Stored(s)' >= Stored(s)
<1>0. SecretsTypeOK /\ SecretsTypeOK' /\ SecretsInv'
  BY SecretsTypeStep, SecretsInvStep DEF SecretsInv
<1> USE DEF Stored, Consistent, NoOlder, SecretsTypeOK, Values, None
<1>1. CASE \E t \in Slots : EditFile(t)
  <2>1. Consistent
    BY <1>1 DEF EditFile, SecretsInv
  <2>2. PICK t \in Slots : EditFile(t)
    BY <1>1
  <2> QED
    BY <1>0, <2>1, <2>2 DEF EditFile
<1>2. CASE Boot
  <2>1. Consistent
    BY <1>2 DEF Boot, SecretsInv
  <2> QED
    BY <1>0, <1>2, <2>1 DEF Boot
<1>3. CASE \E t \in Slots : Migrate(t)
  <2>1. Consistent
    BY <1>3 DEF Migrate, SecretsInv
  <2>2. PICK t \in Slots : Migrate(t)
    BY <1>3
  <2> QED
    BY <1>0, <2>1, <2>2 DEF Migrate
<1>4. CASE \E t \in Slots : SaveSecret(t)
  <2>1. Consistent
    BY <1>4 DEF SaveSecret, SecretsInv
  <2>2. PICK t \in Slots : SaveSecret(t)
    BY <1>4
  <2> QED
    BY <1>0, <2>1, <2>2 DEF SaveSecret
<1>5. CASE \E t \in Slots : RemoveSecret(t)
  <2>1. Consistent
    BY <1>5 DEF RemoveSecret, SecretsInv
  <2>2. PICK t \in Slots : RemoveSecret(t)
    BY <1>5
  <2> QED
    BY <1>0, <2>1, <2>2 DEF RemoveSecret
<1>6. CASE SaveSetting
  <2>1. Consistent
    BY <1>6 DEF SaveSetting, history, SecretsInv
  <2> QED
    BY <1>0, <1>6, <2>1 DEF SaveSetting, history
<1>7. CASE TruncateConfig
  <2>1. Consistent
    BY <1>7 DEF TruncateConfig, SecretsInv
  <2> QED
    BY <1>0, <1>7, <2>1 DEF TruncateConfig
<1>8. CASE WriteConfig
  <2>1. Consistent
    BY <1>8 DEF WriteConfig, SecretsInv
  <2> QED
    BY <1>0, <1>8, <2>1 DEF WriteConfig
<1>9. CASE Crash
  <2>1. Consistent
    BY <1>9 DEF Crash, SecretsInv
  <2>2. pc # "write" /\ pc' = "off" /\ UNCHANGED <<keystore, fileCopy>>
    BY <1>9 DEF Crash
  <2> QED
    BY <1>0, <2>2
<1>10. CASE UNCHANGED secretsVars
  BY <1>0, <1>10 DEF secretsVars, history
<1> QED
  BY <1>1, <1>2, <1>3, <1>4, <1>5, <1>6, <1>7, <1>8, <1>9, <1>10 DEF SecretsNext

THEOREM NoneLostOrReverted == SecretsSpec => SecretsKept
<1>1. SecretsInv /\ [SecretsNext]_secretsVars =>
        [~interrupted' => \A s \in Slots \ removed' : Stored(s)' >= Stored(s)]_secretsVars
  BY StepKeeps
<1> QED
  BY <1>1, SecretsInvariant, PTL DEF SecretsSpec, SecretsKept
=============================================================================
