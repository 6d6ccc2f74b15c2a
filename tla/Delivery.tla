------------------------------- MODULE Delivery -------------------------------
(***************************************************************************)
(* How a dictation reaches the user (whspr-inject: text_sink.rs,            *)
(* clipboard.rs, focus; whspr-app: worker/delivery.rs, worker_events.rs).   *)
(*                                                                         *)
(* The text sink pastes: it saves the clipboard, puts the text there, sends *)
(* the paste chord, waits a moment and restores the clipboard; if anything  *)
(* fails it types.  The target reads the clipboard when it handles the      *)
(* chord, and the user may copy something at any moment.  The app itself    *)
(* types, or writes to the clipboard when nothing that takes text has the   *)
(* focus, as the worker saw it when the transcription ended.                *)
(*                                                                         *)
(* An utterance is its number; every third begins and ends with white space. *)
(***************************************************************************)
EXTENDS Naturals, Sequences, FiniteSets, SequencesExt

CONSTANTS
  MaxUtterances, (* bound of the model on utterances                         *)
  MaxCopies      (* bound of the model on what the user copies, and on moves
                    of the focus                                             *)

ASSUME DeliveryBounds == MaxUtterances \in Nat /\ MaxCopies \in Nat

VARIABLES
  clipboard,   (* its content: what kind, and which                          *)
  userCopied,  (* what the user copied last                                  *)
  copies,      (* counter of the bound                                       *)
  sinkAt,      (* how far `insert` is                                        *)
  payload,     (* the text it delivers: utterance, and whether a space leads *)
  original,    (* the clipboard saved by stage_and_paste                     *)
  lastEmitted, (* last_emitted(): the utterance emitted last, or 0           *)
  chords,      (* paste chords sent and not handled by the target            *)
  field,       (* what the target has received                               *)
  inserted,    (* utterances `insert` returned Ok for, in order              *)
  utterances,  (* counter of the bound                                       *)
  queried,     (* the app's dictation on its way: what the focus was         *)
  editable,    (* whether the focused element takes text                     *)
  handed,       (* dictations the app put on the clipboard                    *)
  astray,      (* dictations the app typed where no text is taken            *)
  disturbed,   (* history: the user copied between saving and restoring, or the
                  restore failed or had nothing to restore                   *)
  doubled,     (* history: the target was late, or the chord failed after the click *)
  moved        (* history: the focus moved while a dictation was on its way   *)

deliveryVars == <<clipboard, userCopied, copies, sinkAt, payload, original, lastEmitted, chords,
                  field, inserted, utterances, queried, editable, handed, astray, disturbed, doubled, moved>>

User(n) == [of |-> "user", item |-> n]      \* text the user copied
Image(n) == [of |-> "image", item |-> n]    \* something that is not text
Nothing == [of |-> "nothing", item |-> 0]
Staged(n) == [of |-> "whspr", item |-> n]

\* spaced_payload: white space between this text and the one before it.
NeedsLeadingSpace(last, next) == last > 0 /\ last % 3 # 0 /\ next % 3 # 0

DeliveryInit ==
  /\ clipboard = Nothing /\ userCopied = Nothing /\ copies = 0
  /\ sinkAt = "idle" /\ payload = [text |-> 0, space |-> FALSE] /\ original = Nothing
  /\ lastEmitted = 0 /\ chords = <<>> /\ field = <<>> /\ inserted = <<>>
  /\ utterances = 0 /\ queried = <<>> /\ editable = TRUE /\ handed = {} /\ astray = {}
  /\ disturbed = FALSE /\ doubled = FALSE /\ moved = FALSE

TheUser == <<userCopied, copies, editable, moved>>
TheApp == <<queried, handed, astray>>
TheSink == <<sinkAt, payload, original, lastEmitted, inserted>>

-----------------------------------------------------------------------------
(* EnigoTextSink::insert *)

InsertBegins ==
  /\ sinkAt = "idle" /\ utterances < MaxUtterances
  /\ utterances' = utterances + 1
  /\ payload' = [text |-> utterances', space |-> NeedsLeadingSpace(lastEmitted, utterances')]
  /\ \/ sinkAt' = "saving"
     \/ sinkAt' = "typing"                        \* no clipboard to be had
  /\ UNCHANGED <<clipboard, original, lastEmitted, chords, field, inserted, disturbed, doubled, TheUser, TheApp>>

\* get_text: a clipboard without text counts as empty.
SaveClipboard ==
  /\ sinkAt = "saving"
  /\ original' = IF clipboard.of = "image" THEN Nothing ELSE clipboard
  /\ disturbed' = (disturbed \/ clipboard.of = "image")
  /\ sinkAt' = "staging"
  /\ UNCHANGED <<clipboard, payload, lastEmitted, chords, field, inserted, utterances, doubled, TheUser, TheApp>>

\* set_text: staged, or PasteOutcome::Unstaged and the clipboard untouched.
StageText ==
  /\ sinkAt = "staging"
  /\ \/ clipboard' = Staged(payload.text) /\ sinkAt' = "pasting"
        /\ disturbed' = (disturbed \/ (clipboard # original))
     \/ sinkAt' = "typing" /\ UNCHANGED <<clipboard, disturbed>>
  /\ UNCHANGED <<payload, original, lastEmitted, chords, field, inserted, utterances, doubled, TheUser, TheApp>>

\* press_paste_keys and the settling wait: nothing was clicked, or the chord is
\* out; an error of the modifier's release comes after the click.
PasteChord ==
  /\ sinkAt = "pasting"
  /\ \/ sinkAt' = "restoring, failed" /\ UNCHANGED <<chords, doubled>>
     \/ sinkAt' = "restoring" /\ chords' = Append(chords, payload) /\ UNCHANGED doubled
     \/ sinkAt' = "restoring, failed" /\ chords' = Append(chords, payload) /\ doubled' = TRUE
  /\ UNCHANGED <<clipboard, payload, original, lastEmitted, field, inserted, utterances, disturbed, TheUser, TheApp>>

Succeeded ==
  /\ sinkAt' = "idle" /\ lastEmitted' = payload.text /\ inserted' = Append(inserted, payload.text)

\* mutant: the guard restores the clipboard on the way out of a success only
RestoreOnSuccess ==
  /\ sinkAt \in {"restoring", "restoring, failed"}
  /\ IF sinkAt = "restoring" THEN clipboard' = original ELSE UNCHANGED clipboard
  /\ doubled' = (doubled \/ chords # <<>>)
  /\ IF sinkAt = "restoring" THEN Succeeded
     ELSE sinkAt' = "typing" /\ UNCHANGED <<lastEmitted, inserted>>
  /\ UNCHANGED <<payload, original, chords, field, utterances, disturbed, TheUser, TheApp>>

\* ClipboardRestoreGuard::drop, then Ok or the fallback.  A target that has not
\* handled the chord by now is late.
Restore ==
  /\ sinkAt \in {"restoring", "restoring, failed"}
  /\ \/ clipboard' = original /\ disturbed' = (disturbed \/ clipboard # Staged(payload.text))
     \/ UNCHANGED clipboard /\ disturbed' = TRUE
  /\ doubled' = (doubled \/ chords # <<>>)
  /\ IF sinkAt = "restoring" THEN Succeeded
     ELSE sinkAt' = "typing" /\ UNCHANGED <<lastEmitted, inserted>>
  /\ UNCHANGED <<payload, original, chords, field, utterances, TheUser, TheApp>>

\* mutant: the fallback types the text without the space the paste had
TypeFallbackBare ==
  /\ sinkAt = "typing"
  /\ \/ field' = Append(field, [payload EXCEPT !.space = FALSE]) /\ Succeeded
     \/ sinkAt' = "idle" /\ UNCHANGED <<field, lastEmitted, inserted>>
  /\ UNCHANGED <<clipboard, payload, original, chords, utterances, disturbed, doubled, TheUser, TheApp>>

\* The fallback of inject_with_fallback: typed, or lost and said so.
TypeFallback ==
  /\ sinkAt = "typing"
  /\ \/ field' = Append(field, payload) /\ Succeeded
     \/ sinkAt' = "idle" /\ UNCHANGED <<field, lastEmitted, inserted>>
  /\ UNCHANGED <<clipboard, payload, original, chords, utterances, disturbed, doubled, TheUser, TheApp>>

-----------------------------------------------------------------------------
(* The target and the user *)

\* The target pastes what the clipboard holds by then.
TargetPastes ==
  /\ chords # <<>> /\ chords' = Tail(chords)
  /\ field' = Append(field, IF clipboard = Staged(Head(chords).text) THEN Head(chords)
                            ELSE [text |-> 0, space |-> FALSE])
  /\ doubled' = (doubled \/ clipboard # Staged(Head(chords).text))
  /\ UNCHANGED <<clipboard, utterances, disturbed, TheSink, TheUser, TheApp>>

UserCopies ==
  /\ copies < MaxCopies /\ copies' = copies + 1
  /\ clipboard' \in {User(copies'), Image(copies')} /\ userCopied' = clipboard'
  /\ UNCHANGED <<chords, field, utterances, disturbed, doubled, editable, moved, TheSink, TheApp>>

UserMoves ==
  /\ copies < MaxCopies /\ copies' = copies + 1
  /\ editable' = ~editable /\ moved' = (moved \/ queried # <<>>)
  /\ UNCHANGED <<clipboard, chords, field, utterances, disturbed, doubled, userCopied, TheSink, TheApp>>

-----------------------------------------------------------------------------
(* The app: worker/delivery.rs and worker_events.rs *)

\* mutant: what cannot be told counts as not editable
DeliveryForDoubtful(detection, found) ==
  IF detection /\ found # "editable" THEN "clipboard" ELSE "inject"

\* delivery_for: only a definite "not editable" diverts to the clipboard.
DeliveryFor(detection, found) ==
  IF detection /\ found = "not editable" THEN "clipboard" ELSE "inject"

Focus == IF editable THEN "editable" ELSE "not editable"

\* The turn ends and the worker asks; off macOS, or without permission, it cannot tell.
ResolveDelivery ==
  /\ queried = <<>> /\ sinkAt = "idle" /\ utterances < MaxUtterances
  /\ utterances' = utterances + 1
  /\ \E detection \in BOOLEAN, found \in {Focus, "unknown"} :
       queried' = <<[text |-> utterances', found |-> found, detection |-> detection,
                     way |-> DeliveryFor(detection, found)]>>
  /\ UNCHANGED <<clipboard, chords, field, handed, astray, disturbed, doubled, TheSink, TheUser>>

\* WorkerEvent::Completed: typed into whatever has the focus by now, or put on
\* the clipboard with a notice.
Deliver ==
  /\ queried # <<>> /\ sinkAt = "idle" /\ queried' = <<>>
  /\ IF queried[1].way = "clipboard"
       THEN /\ clipboard' = Staged(queried[1].text) /\ userCopied' = clipboard'
            /\ handed' = handed \cup {queried[1]} /\ UNCHANGED astray
       ELSE /\ UNCHANGED <<clipboard, userCopied, handed>>
            /\ astray' = IF editable THEN astray ELSE astray \cup {queried[1]}
  /\ UNCHANGED <<chords, field, utterances, disturbed, doubled, copies, editable, moved, TheSink>>

DeliveryNext ==
  \/ InsertBegins \/ SaveClipboard \/ StageText \/ PasteChord \/ Restore \/ TypeFallback
  \/ TargetPastes \/ UserCopies \/ UserMoves
  \/ ResolveDelivery \/ Deliver

DeliverySpec == DeliveryInit /\ [][DeliveryNext]_deliveryVars

-----------------------------------------------------------------------------
Dictation == [text : 1..MaxUtterances, found : {"editable", "not editable", "unknown"},
              detection : BOOLEAN, way : {"clipboard", "inject"}]

DeliveryTypeOK ==
  /\ {clipboard, userCopied, original} \subseteq
       [of : {"user", "image", "nothing", "whspr"}, item : 0..(MaxCopies + MaxUtterances)]
  /\ sinkAt \in {"idle", "saving", "staging", "pasting", "restoring", "restoring, failed", "typing"}
  /\ lastEmitted \in 0..utterances /\ utterances \in 0..MaxUtterances /\ copies \in 0..MaxCopies
  /\ handed \cup astray \cup ToSet(queried) \subseteq Dictation
  /\ {editable, disturbed, doubled, moved} \subseteq BOOLEAN

\* Whatever fails on the way, after a delivery the clipboard holds what the user
\* copied last (clipboard.rs: "we never leave our injected text sitting on the
\* user's clipboard") -- unless the user copied while it was borrowed, it held
\* something that is not text, or it could not be written back.
ClipboardKept ==
  sinkAt = "idle" /\ ~disturbed => clipboard = userCopied

\* What the sink reports as delivered is in the target once, in order, and with
\* white space exactly where two utterances would run together -- unless the
\* target was slow or the chord failed after its click.  And the app types where
\* no text is taken only if it could not know, or the focus moved after it asked.
DeliveredOnce ==
  /\ sinkAt = "idle" /\ ~doubled =>
       /\ [i \in DOMAIN field |-> field[i].text] = inserted
       /\ \A i \in DOMAIN field \ {1} :
            field[i].space <=> NeedsLeadingSpace(field[i - 1].text, field[i].text)
  /\ \A d \in astray : moved \/ ~d.detection \/ d.found = "unknown"
  /\ \A d \in handed : d.detection /\ d.found = "not editable"
=============================================================================
