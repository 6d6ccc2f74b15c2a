----------------------------- MODULE HoldStream -----------------------------
(***************************************************************************)
(* What the push-to-talk hotkey promises to whoever records: a FIFO stream *)
(* of debounced actions in which every "start" is closed by exactly one    *)
(* "stop" or "cancel" before the next "start".  No clock and no threads:   *)
(* HotkeyListener implements it, and the dictation worker is composed with *)
(* it instead of with the listener.                                        *)
(***************************************************************************)
EXTENDS Naturals, Sequences

CONSTANT MaxPending  (* bound of the model on actions not yet taken *)

ASSUME MaxPendingAssumption == MaxPending \in Nat \ {0}

Closings == {"stop", "cancel"}
DebounceAction == {"start"} \cup Closings

VARIABLES
  open,      (* a hold has been started and not closed yet            *)
  stream,    (* actions emitted and not yet taken by the recorder     *)
  recording  (* the recorder is between a "start" and its closing     *)

holdVars == <<open, stream, recording>>

HoldInit ==
  /\ open = FALSE
  /\ stream = <<>>
  /\ recording = FALSE

\* A fresh press is accepted.
Begin ==
  /\ ~open
  /\ Len(stream) < MaxPending
  /\ open' = TRUE
  /\ stream' = Append(stream, "start")
  /\ UNCHANGED recording

\* The hold ends, kept or discarded.
End ==
  /\ open
  /\ Len(stream) < MaxPending
  /\ open' = FALSE
  /\ \E closing \in Closings : stream' = Append(stream, closing)
  /\ UNCHANGED recording

\* The recorder takes the next action.
Take ==
  /\ stream # <<>>
  /\ recording' = (Head(stream) = "start")
  /\ stream' = Tail(stream)
  /\ UNCHANGED open

HoldNext == Begin \/ End \/ Take

HoldSpec == HoldInit /\ [][HoldNext]_holdVars

HoldTypeOK ==
  /\ open \in BOOLEAN
  /\ stream \in Seq(DebounceAction)
  /\ recording \in BOOLEAN

(***************************************************************************)
(* Starts and closings alternate from the recorder's state, through the    *)
(* queue, to the hotkey's state: the recorder never sees two starts in a   *)
(* row, nor a closing without its start.                                   *)
(***************************************************************************)
Alternating(actions, before, after) ==
  /\ \A i \in 1..(Len(actions) - 1) : actions[i] = "start" <=> actions[i + 1] # "start"
  /\ actions = <<>> => (before <=> after)
  /\ actions # <<>> => /\ actions[1] = "start" <=> ~before
                       /\ actions[Len(actions)] = "start" <=> after

Alternates == Alternating(stream, recording, open)
=============================================================================
