------------------------------ MODULE ModelStore ------------------------------
(***************************************************************************)
(* The Models tab (whspr-app: hf.rs, hf_progress.rs, hub/models; whspr-hf:  *)
(* models/mod.rs, scan.rs): signing in, downloading and deleting models,    *)
(* the directories models are kept in, and the list of installed models the *)
(* tab shows, which is whatever the last scan of the directories found.     *)
(*                                                                         *)
(* One flag, hf_busy, disables the buttons while an operation runs; the     *)
(* folder picker and the removal of a directory do not set or heed it, and  *)
(* the Enter key in the field of the token does not heed it: a token may be *)
(* sent while another operation runs, and the first of the two to end       *)
(* enables the buttons again.  A download fetches into a cache and then     *)
(* copies into the directory, which truncates the file first.  A model is   *)
(* its file name.                                                           *)
(***************************************************************************)
EXTENDS Naturals, FiniteSets, Sequences, SequencesExt

CONSTANTS
  Models,     (* file names a download may place                             *)
  UserDirs,   (* directories a user may add                                  *)
  DefaultDir, (* models_dir: configured or the platform's                    *)
  MaxOps      (* bound of the model on operations, picks and restarts        *)

ASSUME DirsAssumption == DefaultDir \notin UserDirs
ASSUME OpsAssumption == MaxOps \in Nat

VARIABLES
  modelDirs,   (* [huggingface].model_dirs                                   *)
  modelFiles,  (* what is on disk: directory and name to none, partial, whole *)
  hfModels,    (* State::hf_models: the directory and name of each           *)
  hfBusy,      (* State::hf_busy                                             *)
  activeDownload, (* State::active_download is present                       *)
  hfTasks,     (* the tasks in flight, with how far they are                 *)
  hfPicker,    (* a folder picker is open                                    *)
  account,     (* signed in: not, for this session, or with a saved token    *)
  hfOps,       (* counter of the bound                                       *)
  unlisted,    (* history: a failed copy has changed a file, and no scan has
                  been made since                                            *)
  brokenCopy,  (* history: a copy failed or was cut short                    *)
  sentBeside   (* history: of the tasks in flight, one is a token that was
                  sent while another ran                                     *)

storeVars == <<modelDirs, modelFiles, hfModels, hfBusy, activeDownload, hfTasks,
               hfPicker, hfOps, account, unlisted, brokenCopy, sentBeside>>
storeHistory == <<unlisted, brokenCopy>>

AllDirs == UserDirs \cup {DefaultDir}
FileState == {"none", "partial", "whole"}
HfTask == [no : 1..MaxOps, kind : {"signIn"}, stage : {"running"}]
          \cup [no : 1..MaxOps, kind : {"download", "delete"}, dir : AllDirs, model : Models,
                stage : {"running", "copying", "torn", "done", "failed"}]

EffectiveModelDirs == ToSet(modelDirs) \cup {DefaultDir}
DownloadDir == IF modelDirs = <<>> THEN DefaultDir ELSE Head(modelDirs)

\* whspr_hf::scan: a file is classified by its first bytes, else by its name, so
\* a copy cut short is listed like a whole one.
ScanDirs(dirs, files) == {at \in dirs \X Models : files[at] # "none"}

Rescan == hfModels' = ScanDirs(ToSet(modelDirs') \cup {DefaultDir}, modelFiles') /\ unlisted' = FALSE

StoreInit ==
  /\ modelDirs = <<>>
  /\ modelFiles = [at \in AllDirs \X Models |-> "none"]
  /\ hfModels = {} /\ hfTasks = {}
  /\ hfBusy = FALSE /\ activeDownload = FALSE /\ hfPicker = FALSE
  /\ hfOps = 0 /\ unlisted = FALSE /\ brokenCopy = FALSE
  /\ account = "none" /\ sentBeside = FALSE

HfOp == hfOps < MaxOps /\ hfOps' = hfOps + 1

\* The least number no task in flight has.
TaskNo == Min({n \in 1..MaxOps : \A task \in hfTasks : task.no # n})

\* A button that is disabled while an operation runs starts another.
BeginHf(kind, dir, model) ==
  /\ ~hfBusy /\ HfOp /\ hfBusy' = TRUE
  /\ hfTasks' = hfTasks \cup {[no |-> TaskNo, kind |-> kind, dir |-> dir, model |-> model,
                              stage |-> "running"]}
  /\ UNCHANGED <<modelDirs, modelFiles, hfModels, hfPicker, account, storeHistory, sentBeside>>

\* Whichever task it is that ends, the buttons are enabled again.
EndHf(task) ==
  /\ hfTasks' = hfTasks \ {task} /\ hfBusy' = FALSE
  /\ sentBeside' = (sentBeside /\ hfTasks' # {})
  /\ UNCHANGED <<modelDirs, modelFiles, hfPicker, hfOps, brokenCopy>>

-----------------------------------------------------------------------------
(* Signing in, in the browser or with a pasted token, and out *)

SendSignIn ==
  /\ account = "none" /\ HfOp /\ hfBusy' = TRUE
  /\ hfTasks' = hfTasks \cup {[no |-> TaskNo, kind |-> "signIn", stage |-> "running"]}
  /\ UNCHANGED <<modelDirs, modelFiles, hfModels, activeDownload, hfPicker, account, storeHistory>>

SignIn == ~hfBusy /\ SendSignIn /\ UNCHANGED sentBeside

\* HfTokenSubmit, by its button, disabled while an operation runs, or by Enter in the
\* field of the token, which is not (hub/models/mod.rs:109).
TokenSubmit == SendSignIn /\ sentBeside' = (hfTasks # {})

\* HfSignedIn: a fresh token may unlock gated models, so a success scans again;
\* the token is saved, or cannot be.
SignedIn(task) ==
  /\ task.kind = "signIn"
  /\ EndHf(task) /\ UNCHANGED activeDownload
  /\ \/ Rescan /\ account' \in {"saved", IF account = "saved" THEN "saved" ELSE "session"}
     \/ UNCHANGED <<hfModels, unlisted, account>>

\* HfSignOut: the saved token is removed, or cannot be.
SignOut ==
  /\ account # "none" /\ ~hfBusy /\ HfOp
  /\ account' \in {"none", IF account = "saved" THEN "saved" ELSE "none"}
  /\ UNCHANGED <<modelDirs, modelFiles, hfModels, hfBusy, activeDownload, hfTasks, hfPicker,
                 storeHistory, sentBeside>>

-----------------------------------------------------------------------------
(* Downloads *)

\* start_download, for a curated model or a file found by a search.
StartDownload(model) ==
  BeginHf("download", DownloadDir, model) /\ activeDownload' = TRUE

StageTo(task, stage) == hfTasks' = (hfTasks \ {task}) \cup {[task EXCEPT !.stage = stage]}
PutFile(task, content) == modelFiles' = [modelFiles EXCEPT ![<<task.dir, task.model>>] = content]

\* download_file: fetched into the cache, or not.
Fetch(task) ==
  /\ task.kind = "download" /\ task.stage = "running"
  /\ \/ StageTo(task, "copying") /\ PutFile(task, "partial")
     \/ StageTo(task, "failed") /\ UNCHANGED modelFiles
  /\ UNCHANGED <<modelDirs, hfModels, hfBusy, activeDownload, hfPicker, hfOps, account,
                 storeHistory, sentBeside>>

\* The other tasks that are copying to the file.
Beside(task) ==
  {other \in hfTasks \ {task} : /\ other.stage \in {"copying", "torn"}
                               /\ other.dir = task.dir /\ other.model = task.model}

\* std::fs::copy ends: the file is whole, unless it was deleted meanwhile, or another
\* copy to it is still running, or failed and left a hole.
CopyEnds(task) ==
  /\ task.stage \in {"copying", "torn"}
  /\ StageTo(task, "done")
  /\ \E content \in FileState :
       /\ PutFile(task, content)
       /\ IF modelFiles[<<task.dir, task.model>>] = "none" THEN content = "none"
          ELSE IF Beside(task) # {} THEN content = "partial"
          ELSE content = "whole" \/ (content = "partial" /\ task.stage = "torn")
  /\ UNCHANGED <<modelDirs, hfModels, hfBusy, activeDownload, hfPicker, hfOps, account,
                 storeHistory, sentBeside>>

\* It fails, the disk being full say.
CopyFails(task) ==
  /\ task.stage \in {"copying", "torn"}
  /\ hfTasks' = (hfTasks \ (Beside(task) \cup {task})) \cup {[task EXCEPT !.stage = "failed"]}
                \cup {[other EXCEPT !.stage = "torn"] : other \in Beside(task)}
  /\ unlisted' = TRUE /\ brokenCopy' = TRUE
  /\ UNCHANGED <<modelDirs, modelFiles, hfModels, hfBusy, activeDownload, hfPicker, hfOps,
                 account, sentBeside>>

\* mutant: the scan is left to the next operation
DownloadedUnscanned(task) ==
  /\ task.kind = "download" /\ task.stage \in {"done", "failed"}
  /\ EndHf(task) /\ activeDownload' = FALSE
  /\ UNCHANGED <<hfModels, unlisted, account>>

\* downloaded: the flag and the progress bar are cleared whatever came.
Downloaded(task) ==
  /\ task.kind = "download" /\ task.stage \in {"done", "failed"}
  /\ EndHf(task) /\ activeDownload' = FALSE /\ UNCHANGED account
  /\ IF task.stage = "done" THEN Rescan ELSE UNCHANGED <<hfModels, unlisted>>

-----------------------------------------------------------------------------
(* Deleting a listed model *)

DeleteModel(at) ==
  at \in hfModels /\ BeginHf("delete", at[1], at[2]) /\ UNCHANGED activeDownload

\* remove_file succeeds, or the file is in use or gone.
Delete(task) ==
  /\ task.kind = "delete" /\ task.stage = "running"
  /\ \/ /\ modelFiles[<<task.dir, task.model>>] # "none"
        /\ StageTo(task, "done") /\ PutFile(task, "none")
     \/ StageTo(task, "failed") /\ UNCHANGED modelFiles
  /\ UNCHANGED <<modelDirs, hfModels, hfBusy, activeDownload, hfPicker, hfOps, account,
                 storeHistory, sentBeside>>

\* HfModelDeleted.
Deleted(task) ==
  /\ task.kind = "delete" /\ task.stage \in {"done", "failed"}
  /\ EndHf(task) /\ UNCHANGED <<activeDownload, account>>
  /\ IF task.stage = "done" THEN Rescan ELSE UNCHANGED <<hfModels, unlisted>>

-----------------------------------------------------------------------------
(* Directories *)

\* mutant: opening the picker counts as an operation, a cancelled one never ends
AddModelDirBusy ==
  /\ ~hfBusy /\ ~hfPicker /\ HfOp /\ hfPicker' = TRUE /\ hfBusy' = TRUE
  /\ UNCHANGED <<modelDirs, modelFiles, hfModels, activeDownload, hfTasks, account, storeHistory,
                 sentBeside>>

AddModelDir ==
  /\ ~hfBusy /\ ~hfPicker /\ HfOp /\ hfPicker' = TRUE
  /\ UNCHANGED <<modelDirs, modelFiles, hfModels, hfBusy, activeDownload, hfTasks, account,
                 storeHistory, sentBeside>>

\* HfModelDirPicked: nothing was picked, or one that is already there.
PickedNothing ==
  /\ hfPicker /\ hfPicker' = FALSE
  /\ UNCHANGED <<modelDirs, modelFiles, hfModels, hfBusy, activeDownload, hfTasks, hfOps, account,
                 storeHistory, sentBeside>>

PickedDir(dir) ==
  /\ hfPicker /\ hfPicker' = FALSE
  /\ dir \notin ToSet(modelDirs)
  /\ modelDirs' = Append(modelDirs, dir)
  /\ UNCHANGED <<modelFiles, hfBusy, activeDownload, hfTasks, hfOps, account, brokenCopy, sentBeside>>
  /\ Rescan

\* HfRemoveModelDir, at any moment: a directory is in the list at most once.
RemoveModelDir(dir) ==
  /\ HfOp
  /\ \E k \in DOMAIN modelDirs : modelDirs[k] = dir /\ modelDirs' = RemoveAt(modelDirs, k)
  /\ UNCHANGED <<modelFiles, hfBusy, activeDownload, hfTasks, hfPicker, account, brokenCopy,
                 sentBeside>>
  /\ Rescan

\* The app ends with whatever was running, and boots: a scan of its directories.
RestartStore ==
  /\ HfOp
  /\ hfTasks' = {} /\ hfBusy' = FALSE /\ activeDownload' = FALSE /\ hfPicker' = FALSE
  /\ account' = (IF account = "session" THEN "none" ELSE account)
  /\ sentBeside' = FALSE
  /\ brokenCopy' = (brokenCopy \/ \E task \in hfTasks : task.stage \in {"copying", "torn"})
  /\ UNCHANGED <<modelDirs, modelFiles>>
  /\ Rescan

StoreNext ==
  \/ SignIn \/ TokenSubmit \/ SignOut
  \/ \E model \in Models : StartDownload(model)
  \/ \E at \in hfModels : DeleteModel(at)
  \/ \E task \in hfTasks :
       \/ SignedIn(task)
       \/ Fetch(task) \/ CopyEnds(task) \/ CopyFails(task) \/ Downloaded(task)
       \/ Delete(task) \/ Deleted(task)
  \/ AddModelDir \/ PickedNothing
  \/ \E dir \in UserDirs : PickedDir(dir) \/ RemoveModelDir(dir)
  \/ RestartStore

StoreSpec == StoreInit /\ [][StoreNext]_storeVars

-----------------------------------------------------------------------------
StoreTypeOK ==
  /\ modelDirs \in Seq(UserDirs) /\ modelFiles \in [AllDirs \X Models -> FileState]
  /\ hfModels \subseteq AllDirs \X Models /\ hfTasks \subseteq HfTask
  /\ hfBusy \in BOOLEAN /\ activeDownload \in BOOLEAN /\ hfPicker \in BOOLEAN
  /\ unlisted \in BOOLEAN /\ brokenCopy \in BOOLEAN /\ sentBeside \in BOOLEAN
  /\ hfOps \in 0..MaxOps /\ account \in {"none", "session", "saved"}

\* The flag the buttons go by is never left up with no task to take it down, nor the
\* progress bar with no download (hf.rs:297, "the bar never lingers past completion").
\* And but for a token sent meanwhile, one operation runs at a time, the flag up
\* exactly while it does and the bar exactly while a download does.
OneOperation ==
  /\ hfBusy => hfTasks # {}
  /\ activeDownload => \E task \in hfTasks : task.kind = "download"
  /\ ~sentBeside => /\ Cardinality(hfTasks) <= 1
                    /\ hfBusy <=> hfTasks # {}
                    /\ activeDownload <=> \E task \in hfTasks : task.kind = "download"

\* Between operations the tab lists exactly the models in its directories, and
\* each of them is whole -- unless a copy failed or was cut short, which leaves a
\* truncated file that is listed like any other from the next scan on.
ListIsDisk ==
  hfTasks = {} =>
    /\ unlisted \/ hfModels = ScanDirs(EffectiveModelDirs, modelFiles)
    /\ brokenCopy \/ \A at \in hfModels : modelFiles[at] = "whole"
=============================================================================
