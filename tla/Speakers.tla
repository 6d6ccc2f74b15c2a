------------------------------- MODULE Speakers -------------------------------
(***************************************************************************)
(* The speaker database in use (whspr-app: speakers.rs, app.rs,            *)
(* worker_events.rs; whspr-cli: diarize_cmd.rs).  The app keeps it in      *)
(* memory and writes it whole at every change; a diarization scan works on *)
(* a copy taken when it starts, writes its copy, and the app then replaces *)
(* its own by it; `whspr diarize`, a process of its own, reads the same    *)
(* file when it has found the turns, and writes it when it has matched     *)
(* them.  Moving a turn (SpeakerDb::reassign) is whspr-config's and has no *)
(* caller in the app yet: it is taken as one more change.                  *)
(***************************************************************************)
EXTENDS SpeakerDb, FiniteSets

CONSTANTS
  Voices,    (* embeddings                                                   *)
  Names,     (* names a user gives                                           *)
  MaxTurns,  (* bound of the model on turns heard                            *)
  MaxScans,  (* bound of the model on scans started                          *)
  MaxEdits   (* bound of the model on renames and moved turns                 *)

ASSUME VoicesAssumption ==
  Voices \subseteq Int /\ MaxTurns \in Nat /\ MaxScans \in Nat /\ MaxEdits \in Nat

VARIABLES
  speakerDb,  (* State::speaker_db                                           *)
  speakersFile, (* speakers.json; Garbled while it is cut short              *)
  scans,      (* scans in flight: of the app or the command line             *)
  attributed, (* speaker ids written to History entries                      *)
  fresh,      (* the next identifier                                         *)
  heard, begun, edits, (* counters of the bounds                             *)
  given,      (* history: the last name given to each speaker               *)
  replaced,   (* history: a scan's copy has been written over a database that
                 had changed since the copy was taken                        *)
  unsaved     (* history: a write of the file failed or was cut short        *)

speakersVars ==
  <<speakerDb, speakersFile, scans, attributed, fresh, heard, begun, edits, given, replaced,
    unsaved>>

Garbled == EmptyDb   (* load: a file that does not parse is an empty database *)

\* A file from before turns were kept: a stored centroid, and no turns.
Legacy(voice) ==
  [EmptyDb EXCEPT !.profiles =
    <<[id |-> 0, name |-> NoName, centroid |-> [sum |-> voice, n |-> 1], turns |-> <<>>]>>]

SpeakersInit ==
  /\ speakersFile \in {EmptyDb} \cup {Legacy(voice) : voice \in Voices}
  /\ speakerDb = speakersFile
  /\ scans = {} /\ attributed = {} /\ fresh = 1
  /\ heard = 0 /\ begun = 0 /\ edits = 0
  /\ given = <<>> /\ replaced = FALSE /\ unsaved = FALSE

\* SpeakerDb::save, by the app: the error is logged or ignored.
Save(db) ==
  \/ speakersFile' = db /\ UNCHANGED unsaved
  \/ UNCHANGED speakersFile /\ unsaved' = TRUE

\* attribute_speaker, for a dictation or a transcription with an embedding.
Attribute(voice) ==
  /\ heard < MaxTurns
  /\ heard' = heard + 1
  /\ LET match == MatchOrEnroll(speakerDb, voice, heard', fresh)
     IN  /\ speakerDb' = match.db
         /\ attributed' = attributed \cup {match.id}
         /\ Save(match.db)
  /\ fresh' = fresh + 1
  /\ UNCHANGED <<scans, begun, edits, given, replaced>>

\* Message::RecordingPicked with a model installed, and the command line.
StartScan(voices) ==
  /\ begun < MaxScans /\ heard + Len(voices) <= MaxTurns
  /\ begun' = begun + 1 /\ heard' = heard + Len(voices)
  /\ \E by \in {"app", "cli"} :
       scans' = scans \cup
         {[by |-> by, no |-> begun', voices |-> voices, stage |-> "diarizing",
           from |-> IF by = "app" THEN speakerDb ELSE speakersFile, db |-> EmptyDb]}
  /\ UNCHANGED <<speakerDb, speakersFile, attributed, fresh, edits, given, replaced, unsaved>>

\* run_diarize_scan: every turn is matched against the copy.
Scanned(scan, copy) ==
  FoldLeft(LAMBDA acc, voice :
             [db |-> MatchOrEnroll(acc.db, voice, 100 + scan.no, acc.next).db, next |-> acc.next + 1],
           [db |-> copy, next |-> fresh], scan.voices)

Moved(scan, stage, db) == (scans \ {scan}) \cup {[scan EXCEPT !.stage = stage, !.db = db]}

\* The app's scan matches the turns against its copy and saves it.
ScanSaves(scan) ==
  /\ scan.by = "app" /\ scan.stage = "diarizing"
  /\ LET done == Scanned(scan, scan.from)
     IN  /\ fresh' = done.next
         /\ \/ /\ speakersFile' = done.db
               /\ replaced' = (replaced \/ speakerDb # scan.from)
               /\ scans' = Moved(scan, "saved", done.db)
            \/ UNCHANGED <<speakersFile, replaced>> /\ scans' = Moved(scan, "failed", EmptyDb)
  /\ UNCHANGED <<speakerDb, attributed, heard, begun, edits, given, unsaved>>

\* The command line takes its copy when it has found the turns, perhaps while the app
\* writes the file.
CliMatches(scan) ==
  /\ scan.by = "cli" /\ scan.stage = "diarizing"
  /\ \E copy \in {speakersFile, Garbled} :
       LET done == Scanned(scan, copy)
       IN  /\ fresh' = done.next
           /\ scans' = (scans \ {scan}) \cup
                {[scan EXCEPT !.stage = "matched", !.from = copy, !.db = done.db]}
  /\ UNCHANGED <<speakerDb, speakersFile, attributed, heard, begun, edits, given, replaced, unsaved>>

\* It saves, unless it cannot open the file or is ended within the write.
CliSaves(scan) ==
  /\ scan.stage = "matched" /\ scans' = scans \ {scan}
  /\ \/ /\ speakersFile' = scan.db /\ UNCHANGED unsaved
        /\ replaced' = (replaced \/ speakersFile # scan.from)
     \/ UNCHANGED <<speakersFile, replaced, unsaved>>
     \/ speakersFile' = Garbled /\ unsaved' = TRUE /\ UNCHANGED replaced
  /\ UNCHANGED <<speakerDb, attributed, fresh, heard, begun, edits, given>>

\* Message::DiarizeFinished.
ScanFinished(scan) ==
  /\ scan.stage \in {"saved", "failed"}
  /\ scans' = scans \ {scan}
  /\ IF scan.stage = "saved"
       THEN /\ speakerDb' = scan.db
            /\ replaced' = (replaced \/ speakerDb # scan.from)
       ELSE UNCHANGED <<speakerDb, replaced>>
  /\ UNCHANGED <<speakersFile, attributed, fresh, heard, begun, edits, given, unsaved>>

Edit == edits < MaxEdits /\ edits' = edits + 1

\* mutant: the name is only kept in memory
RenameUnsaved(id, name) ==
  /\ Edit
  /\ speakerDb' = RenameProfile(speakerDb, id, name)
  /\ given' = [i \in DOMAIN given \cup {id} |-> IF i = id THEN name ELSE given[i]]
  /\ UNCHANGED <<speakersFile, scans, attributed, fresh, heard, begun, replaced, unsaved>>

\* Message::SpeakerRenameSubmitted.
Rename(id, name) ==
  /\ Edit
  /\ speakerDb' = RenameProfile(speakerDb, id, name)
  /\ Save(speakerDb')
  /\ given' = [i \in DOMAIN given \cup {id} |-> IF i = id THEN name ELSE given[i]]
  /\ UNCHANGED <<scans, attributed, fresh, heard, begun, replaced>>

\* SpeakerDb::reassign.
MoveTurn(from, to, at) ==
  /\ Edit
  /\ from # to
  /\ speakerDb' = Reassign(speakerDb, from, to, at)
  /\ Save(speakerDb')
  /\ UNCHANGED <<scans, attributed, fresh, heard, begun, given, replaced>>

\* The app ends, at worst while the file is being written, and boots again.
RestartApp ==
  /\ \/ UNCHANGED <<speakersFile, unsaved>>
     \/ speakersFile' = Garbled /\ unsaved' = TRUE
  /\ speakerDb' = speakersFile'
  /\ scans' = {s \in scans : s.by = "cli"}
  /\ UNCHANGED <<attributed, fresh, heard, begun, edits, given, replaced>>

SpeakersNext ==
  \/ \E voice \in Voices : Attribute(voice)
  \/ \E first, second \in Voices : StartScan(<<first>>) \/ StartScan(<<first, second>>)
  \/ \E scan \in scans : ScanSaves(scan) \/ CliMatches(scan) \/ CliSaves(scan) \/ ScanFinished(scan)
  \/ \E id \in Ids(speakerDb), name \in Names : Rename(id, name)
  \/ \E from, to \in DOMAIN speakerDb.profiles :
       \E at \in DOMAIN speakerDb.profiles[from].turns : MoveTurn(from, to, at)
  \/ RestartApp

SpeakersTypeOK ==
  /\ IsDb(speakerDb) /\ IsDb(speakersFile)
  /\ \A scan \in scans : scan.stage \in {"diarizing", "matched", "saved", "failed"} /\ IsDb(scan.db)
  /\ attributed \subseteq 0..fresh - 1 /\ DOMAIN given \subseteq 0..fresh - 1
  /\ heard \in 0..MaxTurns /\ begun \in 0..MaxScans /\ edits \in 0..MaxEdits
  /\ replaced \in BOOLEAN /\ unsaved \in BOOLEAN

\* Whatever is enrolled, matched, scanned, moved, saved and loaded, the centroid
\* a speaker is matched by is the mean of the turns retained for that speaker
\* (speaker/mod.rs: "after any mutation of turns, centroid is exactly the mean").
CentroidIsMean ==
  CentroidsCurrent(speakerDb) /\ CentroidsCurrent(speakersFile)
    /\ \A scan \in scans : CentroidsCurrent(scan.db)

\* A speaker a History entry names stays enrolled, and keeps the name the user
\* gave, across scans and restarts -- unless the copy of a scan, the app's or the command
\* line's, replaced changes made since it was taken, or the file was not
\* written whole.
SpeakersKept ==
  ~replaced /\ ~unsaved =>
    /\ attributed \subseteq Ids(speakerDb)
    /\ \A i \in DOMAIN speakerDb.profiles :
         LET profile == speakerDb.profiles[i]
         IN  profile.id \in DOMAIN given => profile.name = given[profile.id]

SpeakersSpec == SpeakersInit /\ [][SpeakersNext]_speakersVars
=============================================================================
