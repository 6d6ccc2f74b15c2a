------------------------------ MODULE History ------------------------------
(***************************************************************************)
(* The history journal (history.jsonl), which the app and the command line *)
(* tool share, and `[privacy].history_encryption`: whspr-app/history.rs    *)
(* and history_encryption.rs, whspr-cli/history_io.rs, whspr-config        *)
(* (history_codec.rs, secrets/history.rs, lib.rs).  The app is single      *)
(* threaded; the unit of a step is one call on the file system or the      *)
(* keystore, since another process may run between two, and a crash may    *)
(* come there.                                                             *)
(*                                                                         *)
(* A journal line is an entry, who began the line, the key it is encrypted *)
(* under (Plain: none) and whose words are in it, below that key.  The     *)
(* file is never empty: with no lines, there is none.                      *)
(***************************************************************************)
EXTENDS Integers, Sequences, SequencesExt

CONSTANTS
  CallsFail,     (* calls on the file system and the keystore may fail *)
  MaxEntries,    (* bounds of the model: journal entries,              *)
  MaxSwitches,   (* encryption switched on or off,                     *)
  MaxOtherSaves, (* saves of other settings,                           *)
  MaxCrashes,    (* crashes or exits of the app,                       *)
  MaxRuns        (* runs of the command line tool                      *)

Plain == 0
NoKey == -1    \* the key of an encrypted line something has run into: none opens it
Garbled == 0   \* the entry of a line two appends ran together in: reads as nothing

VARIABLES
  journal,     (* the lines of history.jsonl                              *)
  terminated,  (* the last one ends with a newline                        *)
  temp,        (* history.jsonl.rewrite, while there is one, else <<>>    *)
  disk,        (* the setting in config.toml: "on", "off" or "truncated"  *)
  keystore,    (* the stored history key, Plain if there is none          *)
  minted,      (* keys generated so far                                   *)
  pc,          (* where the app is                                        *)
  setting,     (* State::config.privacy.history_encryption                *)
  held,        (* State::history_key, Plain if none                       *)
  key,         (* the key a switch in progress uses                       *)
  cli,         (* the command line tool: where it is, the setting it read *)
  chosen,      (* history: the setting the user last switched to          *)
  drifted,     (* history: a boot since then has loaded the other one     *)
  strayed,     (* history: some boot has                                  *)
  seen,        (* the lines a rewrite in progress has read                *)
  used         (* counts of what the constants bound                      *)

files == <<journal, terminated, temp>>
secrets == <<keystore, minted>>
app == <<pc, setting, held, key>>
choice == <<chosen, drifted, strayed>>
historyVars == <<files, disk, secrets, app, cli, choice, seen, used>>

Line == [entry : Nat, key : Nat \cup {NoKey}, by : {"app", "cli"},
         texts : SUBSET {"app", "cli"}]

Spend(what, bound) == used[what] < bound /\ used' = [used EXCEPT ![what] = @ + 1]

-----------------------------------------------------------------------------
(* Lines *)

Written(who, with) == [entry |-> used'.entries, key |-> with, by |-> who, texts |-> {who}]

\* Whose words anyone can read in the line: what has run into an encrypted
\* line stands behind it as it was written.
InClear(line) == IF line.key \in {Plain, NoKey} THEN line.texts ELSE {}

RunTogether(first, line) ==
  [first EXCEPT !.entry = Garbled, !.key = IF @ = Plain THEN Plain ELSE NoKey,
                !.texts = InClear(first) \cup InClear(line)]

\* O_APPEND: behind a line without its newline, an append becomes part of it.
AppendLine(line) ==
  IF terminated
    THEN Append(journal, line)
    ELSE [journal EXCEPT ![Len(journal)] = RunTogether(@, line)]

\* decode_line: a plain line passes whatever it holds, an encrypted one has to be whole.
Decodes(line, with) == line.key \in {Plain, with}

\* ... and is then parsed.
Reads(line, with) == Decodes(line, with) /\ line.entry # Garbled

\* mutant: drops the lines it cannot decrypt
ConvertDropping(lines, with, on) ==
  LET kept == SelectSeq(lines, LAMBDA line : Decodes(line, with)) IN
  [i \in DOMAIN kept |-> [kept[i] EXCEPT !.key = IF on THEN with ELSE Plain]]

\* mutant: only ever encrypts
ConvertEncrypting(lines, with, on) ==
  [i \in DOMAIN lines |->
     IF on /\ lines[i].key = Plain THEN [lines[i] EXCEPT !.key = with] ELSE lines[i]]

\* rewrite_history_file's loop; a line it cannot decrypt stays as it was.
Convert(lines, with, on) ==
  [i \in DOMAIN lines |->
     IF Decodes(lines[i], with)
       THEN [lines[i] EXCEPT !.key = IF on THEN with ELSE Plain] ELSE lines[i]]

-----------------------------------------------------------------------------
(* The app: dictations *)

\* mutant: an entry whose key is unavailable is written in the clear
WritesFallingBack == TRUE

\* history_write: MemoryOnly when encryption is on and no key is held.
Writes == setting => held # Plain

\* record_completed, up to the line itself ...
Dictate ==
  /\ pc = "idle" /\ Spend("entries", MaxEntries)
  /\ \/ /\ Writes
        /\ journal' = AppendLine(Written("app", IF setting THEN held ELSE Plain))
        /\ terminated' = FALSE /\ pc' = "newline"
     \/ (Writes => CallsFail) /\ UNCHANGED <<journal, terminated, pc>>
  /\ UNCHANGED <<temp, disk, secrets, setting, held, key, cli, choice, seen>>

\* ... and the newline, which writeln! writes on its own.
FinishLine ==
  /\ pc = "newline" /\ pc' = "idle"
  /\ terminated' = TRUE \/ (CallsFail /\ UNCHANGED terminated)
  /\ UNCHANGED <<journal, temp, disk, secrets, setting, held, key, cli, choice, seen, used>>

-----------------------------------------------------------------------------
(* The app: the key *)

\* history_key, as far as the keystore's first answer: with a stored key, or
\* with none and a new one about to be stored.
LoadKey(found, minting) ==
  \/ keystore # Plain /\ key' = keystore /\ pc' = found /\ UNCHANGED minted
  \/ keystore = Plain /\ minted' = minted + 1 /\ key' = minted' /\ pc' = minting

\* HistoryEncryptionToggled: set_history_encryption_at up to the key.
Switch ==
  /\ pc = "idle" /\ Spend("switches", MaxSwitches)
  /\ \/ held # Plain /\ key' = held /\ pc' = "rewrite" /\ UNCHANGED minted
     \/ held = Plain /\ LoadKey("rewrite", "minting")
     \/ held = Plain /\ CallsFail /\ UNCHANGED <<pc, key, minted>>
  /\ UNCHANGED <<files, disk, keystore, setting, held, cli, choice, seen>>

MintForSwitch ==
  /\ pc = "minting"
  /\ \/ keystore' = key /\ pc' = "rewrite"
     \/ CallsFail /\ pc' = "idle" /\ UNCHANGED keystore
  /\ UNCHANGED <<files, disk, minted, setting, held, key, cli, choice, seen, used>>

-----------------------------------------------------------------------------
(* The app: rewriting the journal, then saving the setting *)

ReadForRewrite ==
  /\ pc = "rewrite"
  /\ \/ temp' = Convert(journal, key, ~setting) /\ seen' = journal /\ pc' = "rename"
     \/ CallsFail /\ pc' = "idle" /\ UNCHANGED <<temp, seen>>
  /\ UNCHANGED <<journal, terminated, disk, secrets, setting, held, key, cli, choice, used>>

\* mutant: the rewritten journal does not end with a newline
RenameUnterminated ==
  /\ pc = "rename"
  /\ journal' = temp /\ terminated' = FALSE /\ temp' = <<>>
  /\ setting' = ~setting /\ chosen' = setting' /\ drifted' = FALSE /\ UNCHANGED strayed
  /\ held' = IF setting' THEN key ELSE Plain
  /\ pc' = "truncate"
  /\ UNCHANGED <<disk, secrets, key, cli, seen, used>>

\* With no journal there is nothing to rename.
Rename ==
  /\ pc = "rename"
  /\ temp' = <<>>
  /\ \/ /\ IF seen = <<>>
             THEN UNCHANGED <<journal, terminated>>
             ELSE journal' = temp /\ terminated' = TRUE
        /\ setting' = ~setting /\ chosen' = setting' /\ drifted' = FALSE
        /\ UNCHANGED strayed
        /\ held' = IF setting' THEN key ELSE Plain
        /\ pc' = "truncate"
     \/ CallsFail /\ pc' = "idle" /\ UNCHANGED <<journal, terminated, setting, choice, held>>
  /\ UNCHANGED <<disk, secrets, key, cli, seen, used>>

\* Any other setting: persist_config.
SaveSetting ==
  /\ pc = "idle" /\ pc' = "truncate" /\ Spend("saves", MaxOtherSaves)
  /\ UNCHANGED <<files, disk, secrets, setting, held, key, cli, choice, seen>>

\* Config::save is fs::write: it truncates config.toml, then writes it.
TruncateConfig ==
  /\ pc = "truncate"
  /\ \/ disk' = "truncated" /\ pc' = "write"
     \/ CallsFail /\ pc' = "idle" /\ UNCHANGED disk
  /\ UNCHANGED <<files, secrets, setting, held, key, cli, choice, seen, used>>

WriteConfig ==
  /\ pc = "write" /\ pc' = "idle"
  /\ \/ disk' = IF setting THEN "on" ELSE "off"
     \/ CallsFail /\ UNCHANGED disk
  /\ UNCHANGED <<files, secrets, setting, held, key, cli, choice, seen, used>>

-----------------------------------------------------------------------------
(* The app: crashes and boots *)

Crash ==
  /\ pc # "off" /\ Spend("crashes", MaxCrashes)
  /\ pc' = "off" /\ setting' = FALSE /\ held' = Plain /\ key' = Plain
  /\ UNCHANGED <<files, disk, secrets, cli, choice, seen>>

\* load_from: an empty file parses, and a field it does not give is the default.
LoadedSetting == disk = "on"

\* boot: whspr_config::load, then load_history up to the key.
Boot ==
  /\ pc = "off"
  /\ setting' = LoadedSetting
  /\ drifted' = (drifted \/ setting' # chosen) /\ strayed' = (strayed \/ drifted')
  /\ \/ setting' /\ LoadKey("idle", "bootMinting")
     \/ (setting' => CallsFail) /\ pc' = "idle" /\ key' = Plain /\ UNCHANGED minted
  /\ held' = IF pc' = "idle" THEN key' ELSE Plain
  /\ UNCHANGED <<files, disk, keystore, cli, chosen, seen, used>>

MintAtBoot ==
  /\ pc = "bootMinting" /\ pc' = "idle"
  /\ \/ keystore' = key /\ held' = key
     \/ CallsFail /\ UNCHANGED <<keystore, held>>
  /\ UNCHANGED <<files, disk, minted, setting, key, cli, choice, seen, used>>

-----------------------------------------------------------------------------
(* The command line tool *)

\* Reads the configuration, then transcribes for as long as that takes.
CliStart ==
  /\ cli.pc = "done" /\ Spend("runs", MaxRuns)
  /\ cli' = [pc |-> "transcribing", setting |-> LoadedSetting, key |-> Plain]
  /\ UNCHANGED <<files, disk, secrets, app, choice, seen>>

\* append_entry: the key, if the setting read at the start asks for one ...
CliKey ==
  /\ cli.pc = "transcribing"
  /\ \/ ~cli.setting /\ cli' = [cli EXCEPT !.pc = "append"] /\ UNCHANGED minted
     \/ /\ cli.setting /\ keystore # Plain
        /\ cli' = [cli EXCEPT !.pc = "append", !.key = keystore] /\ UNCHANGED minted
     \/ /\ cli.setting /\ keystore = Plain
        /\ minted' = minted + 1 /\ cli' = [cli EXCEPT !.pc = "minting", !.key = minted']
     \/ cli.setting /\ CallsFail /\ cli' = [cli EXCEPT !.pc = "done"] /\ UNCHANGED minted
  /\ UNCHANGED <<files, disk, keystore, app, choice, seen, used>>

CliMint ==
  /\ cli.pc = "minting"
  /\ \/ keystore' = cli.key /\ cli' = [cli EXCEPT !.pc = "append"]
     \/ CallsFail /\ cli' = [cli EXCEPT !.pc = "done"] /\ UNCHANGED keystore
  /\ UNCHANGED <<files, disk, minted, app, choice, seen, used>>

\* ... and the line, newline included, in one write.
CliAppend ==
  /\ cli.pc = "append" /\ cli' = [cli EXCEPT !.pc = "done"]
  /\ Spend("entries", MaxEntries)
  /\ \/ /\ journal' = AppendLine(Written("cli", cli.key))
        /\ terminated' = TRUE
     \/ CallsFail /\ UNCHANGED <<journal, terminated>>
  /\ UNCHANGED <<temp, disk, secrets, app, choice, seen>>

\* whspr stats --clear
Clear ==
  /\ cli.pc = "done" /\ Spend("runs", MaxRuns)
  /\ journal' = <<>> /\ terminated' = TRUE
  /\ UNCHANGED <<temp, disk, secrets, app, cli, choice, seen>>

-----------------------------------------------------------------------------
\* config.toml is edited by hand too: encryption may be on before there is a key.
HistoryInit ==
  /\ journal = <<>> /\ terminated = TRUE /\ temp = <<>>
  /\ disk \in {"on", "off"}
  /\ keystore = Plain /\ minted = 0
  /\ pc = "off" /\ setting = FALSE /\ held = Plain /\ key = Plain
  /\ cli = [pc |-> "done", setting |-> FALSE, key |-> Plain]
  /\ chosen = (disk = "on") /\ drifted = FALSE /\ strayed = FALSE /\ seen = <<>>
  /\ used = [entries |-> 0, switches |-> 0, saves |-> 0, crashes |-> 0, runs |-> 0]

AppStep ==
  \/ Dictate \/ FinishLine \/ Switch \/ MintForSwitch
  \/ ReadForRewrite \/ Rename \/ SaveSetting \/ TruncateConfig \/ WriteConfig
  \/ Boot \/ MintAtBoot

HistoryNext == AppStep \/ Crash \/ CliStart \/ CliKey \/ CliMint \/ CliAppend \/ Clear

HistorySpec == HistoryInit /\ [][HistoryNext]_historyVars

-----------------------------------------------------------------------------
(* What it guarantees *)

HistoryTypeOK ==
  /\ journal \in Seq(Line) /\ temp \in Seq(Line) /\ seen \in Seq(Line)
  /\ terminated \in BOOLEAN /\ (journal = <<>> => terminated)
  /\ disk \in {"on", "off", "truncated"}
  /\ minted \in Nat
  /\ keystore \in 0..minted /\ held \in 0..minted /\ key \in 0..minted
  /\ pc \in {"off", "idle", "newline", "minting", "rewrite", "rename", "truncate", "write",
             "bootMinting"}
  /\ setting \in BOOLEAN /\ chosen \in BOOLEAN /\ drifted \in BOOLEAN
  /\ strayed \in BOOLEAN
  /\ cli \in [pc : {"done", "transcribing", "minting", "append"}, setting : BOOLEAN,
              key : 0..minted]
  /\ used \in [entries : Nat, switches : Nat, saves : Nat, crashes : Nat, runs : Nat]

\* Entries a reader gets back with the key in the keystore.
Stored(lines, with) == {line.entry : line \in {l \in lines : Reads(l, with)}}

(***************************************************************************)
(* Crashes, failures and switches of encryption never lose an entry that   *)
(* was in the journal.  Besides stats --clear, an entry is lost only when  *)
(* two appends run together, when it was appended between the read and the *)
(* rename of a rewrite, or when two processes each store a first key: then *)
(* what was written, or is rewritten, with the one replaced.               *)
(***************************************************************************)
Keeps(lines) == Stored(lines, keystore) \subseteq Stored(ToSet(journal'), keystore')

RunsTogether == ~terminated /\ Len(journal') = Len(journal) /\ Keeps(ToSet(Front(journal)))
Untouched == {line \in ToSet(seen) : ~Decodes(line, key)}
Rewrites == Rename /\ Keeps(IF key = keystore THEN ToSet(seen) ELSE Untouched)
KeysCollide == keystore # Plain /\ keystore' # keystore

EntriesKept ==
  [][Keeps(ToSet(journal)) \/ RunsTogether \/ Rewrites \/ KeysCollide \/ Clear]_historyVars

\* The lines the app began, which no process with another setting in mind has.
Own(lines) == {line \in ToSet(lines) : line.by = "app"}

\* The lines in which anyone can read what was dictated to the app.
Exposed(lines) == {line \in ToSet(lines) : "app" \in InClear(line)}

(***************************************************************************)
(* Unless a crash has cost the app its setting, nothing dictated to it is  *)
(* in the journal in the clear while encryption is on, whatever came       *)
(* before: entries from before the switch, a key that would not load,      *)
(* crashes.  Only what ran into an encrypted line, at a time when some     *)
(* boot had lost the setting, stays as it is whatever is switched later.   *)
(***************************************************************************)
EncryptedWhileOn ==
  setting /\ ~drifted => \A line \in Exposed(journal) : line.key = NoKey /\ strayed

(***************************************************************************)
(* Unless a crash has cost it its setting, the app can read back every     *)
(* entry of its own that the stored key can, if that key would load.       *)
(***************************************************************************)
NothingHidden ==
  pc = "idle" /\ ~drifted /\ (setting => held # Plain) =>
    \A line \in Own(journal) : Reads(line, keystore) => Reads(line, held)

(***************************************************************************)
(* "Whether transcripts stored in history are encrypted at rest"           *)
(* (PrivacySettings): once the user has switched that on, and not off, no  *)
(* entry is left in the clear.                                             *)
(***************************************************************************)
EncryptedAtRest == pc = "idle" /\ chosen => Exposed(journal) = {}
=============================================================================
