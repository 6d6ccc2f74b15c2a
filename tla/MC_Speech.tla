------------------------------ MODULE MC_Speech ------------------------------
(***************************************************************************)
(* One run for what becomes of speech: in the clips of the capture session, *)
(* in the journal, and, where it comes from a link or a file, on the        *)
(* screens of the app.  The three share nothing (between the first two is   *)
(* Transcription), so `part` picks the one that moves and the others rest   *)
(* in an initial state, as in MC_Hub.                                       *)
(***************************************************************************)
EXTENDS MC_CaptureSession, History, LinkImport

\* The links are interchangeable: nothing tells one from another but by equality.
LinkSymmetry == Permutations(Links)

VARIABLE part

speechVars == <<part, vars, historyVars, linkVars>>

SpeechInit ==
  /\ part \in {"session", "history", "link"}
  /\ part # "history" => disk = "off"
  /\ HistoryInit /\ Init /\ LinkInit

SpeechNext ==
  \/ part = "session" /\ Next /\ UNCHANGED <<part, historyVars, linkVars>>
  \/ part = "history" /\ HistoryNext /\ UNCHANGED <<part, vars, linkVars>>
  \/ part = "link" /\ LinkNext /\ UNCHANGED <<part, vars, historyVars>>

\* The journal and its processes, the dialog, the screens and their tasks keep their
\* types; those of the session are checked where its streams may fail.
SpeechTypeOK == HistoryTypeOK /\ LinkTypeOK

SpeechSpec == SpeechInit /\ [][SpeechNext]_speechVars
=============================================================================
