--------------------------- MODULE HotkeyListener ---------------------------
(***************************************************************************)
(* The global hotkey from the operating system to the dictation worker:    *)
(* the process-wide event channel, the forwarding thread, the bounded raw  *)
(* channel, the debouncing thread with its state machine, and the bounded  *)
(* action channel (whspr-inject: lib.rs and debounce.rs).                  *)
(*                                                                         *)
(* An event is stamped when the debouncing thread takes it, not when the   *)
(* key moved; "at" records when the key really moved and is read by        *)
(* properties only, as are heldFrom and stalled.                           *)
(***************************************************************************)
EXTENDS Integers, Sequences

CONSTANTS
  MinHold,            (* MIN_HOLD, in ticks of the model's clock           *)
  DoublePressWindow,  (* DOUBLE_PRESS_WINDOW, in the same ticks            *)
  RawCapacity,        (* capacity of the raw event channel                 *)
  ActionCapacity,     (* capacity of the debounced action channel          *)
  MaxTime,            (* bound of the model: the last instant of the clock *)
  MaxUnread           (* bound of the model on unread system events        *)

ASSUME TimingAssumption == MinHold \in Nat /\ DoublePressWindow \in Nat
ASSUME CapacityAssumption ==
  /\ RawCapacity \in Nat \ {0}
  /\ ActionCapacity \in Nat \ {0}
ASSUME BoundAssumption == MaxTime \in Nat /\ MaxUnread \in Nat \ {0}

NoTime == -1
NoAction == "none"
Closings == {"stop", "cancel"}
DebounceAction == {"start"} \cup Closings
HotkeyEvent == [kind : {"pressed", "released"}, at : Nat]

VARIABLES
  now,          (* the clock                                               *)
  keyDown,      (* the key is physically down                              *)
  hotkeys,      (* GlobalHotKeyEvent::receiver(): unread system events     *)
  raw,          (* channel from the forwarding to the debouncing thread    *)
  activeSince,  (* HotkeyDebouncer::active_since, NoTime for None          *)
  lastPress,    (* HotkeyDebouncer::last_press, NoTime for None            *)
  outbox,       (* the action the debouncing thread is sending             *)
  actions,      (* channel from the debouncing thread to the worker        *)
  recording,    (* the worker has taken a "start" and not its closing      *)
  heldFrom,     (* when the key really went down for the last start        *)
  stalled       (* time has passed with an event or an action under way    *)

threadVars == <<hotkeys, raw, outbox, actions>>
debouncerVars == <<activeSince, lastPress, heldFrom>>
vars == <<now, keyDown, threadVars, debouncerVars, recording, stalled>>

Init ==
  /\ now = 0
  /\ keyDown = FALSE
  /\ hotkeys = <<>> /\ raw = <<>> /\ actions = <<>>
  /\ outbox = NoAction
  /\ activeSince = NoTime /\ lastPress = NoTime /\ heldFrom = NoTime
  /\ recording = FALSE
  /\ stalled = FALSE

-----------------------------------------------------------------------------
(* The user and the operating system *)

Emit(kind) ==
  /\ Len(hotkeys) < MaxUnread
  /\ hotkeys' = Append(hotkeys, [kind |-> kind, at |-> now])
  /\ UNCHANGED <<now, raw, outbox, actions, debouncerVars, recording, stalled>>

Press == ~keyDown /\ keyDown' = TRUE /\ Emit("pressed")
AutoRepeat == keyDown /\ UNCHANGED keyDown /\ Emit("pressed")
Release == keyDown /\ keyDown' = FALSE /\ Emit("released")

Prompt == hotkeys = <<>> /\ raw = <<>> /\ outbox = NoAction

Tick ==
  /\ now < MaxTime
  /\ now' = now + 1
  /\ stalled' = (stalled \/ ~Prompt)
  /\ UNCHANGED <<keyDown, threadVars, debouncerVars, recording>>

-----------------------------------------------------------------------------
(* The debouncer *)

IsRealHold(duration) == duration >= MinHold

IsDoublePress(at) == lastPress # NoTime /\ at - lastPress < DoublePressWindow

\* Mistake: the "already holding" test is dropped.
OnPressRestarting(event) ==
  /\ event.kind = "pressed"
  /\ lastPress' = now
  /\ IF IsDoublePress(now)
       THEN outbox' = NoAction /\ UNCHANGED <<activeSince, heldFrom>>
       ELSE outbox' = "start" /\ activeSince' = now /\ heldFrom' = event.at

\* Mistake: a repeated press moves the beginning of the hold.
OnPressRestamping(event) ==
  /\ event.kind = "pressed"
  /\ lastPress' = now
  /\ CASE activeSince # NoTime -> outbox' = NoAction /\ activeSince' = now /\ UNCHANGED heldFrom
       [] activeSince = NoTime /\ IsDoublePress(now) -> outbox' = NoAction /\ UNCHANGED <<activeSince, heldFrom>>
       [] OTHER -> outbox' = "start" /\ activeSince' = now /\ heldFrom' = event.at

OnPress(event) ==
  /\ event.kind = "pressed"
  /\ lastPress' = now
  /\ IF activeSince # NoTime \/ IsDoublePress(now)
       THEN outbox' = NoAction /\ UNCHANGED <<activeSince, heldFrom>>
       ELSE outbox' = "start" /\ activeSince' = now /\ heldFrom' = event.at

\* Mistake: "ignore" is forwarded instead of filtered.
OnReleaseForwardingIgnore(event) ==
  /\ event.kind = "released"
  /\ activeSince' = NoTime
  /\ outbox' = CASE activeSince = NoTime -> "ignore"
                 [] activeSince # NoTime /\ IsRealHold(now - activeSince) -> "stop"
                 [] OTHER -> "cancel"
  /\ UNCHANGED <<lastPress, heldFrom>>

\* Mistake: a hold that is too short is filtered instead of cancelled.
OnReleaseWithoutCancel(event) ==
  /\ event.kind = "released"
  /\ activeSince' = NoTime
  /\ outbox' = IF activeSince # NoTime /\ IsRealHold(now - activeSince) THEN "stop" ELSE NoAction
  /\ UNCHANGED <<lastPress, heldFrom>>

\* Mistake: a release resets the whole debouncer.
OnReleaseForgetting(event) ==
  /\ event.kind = "released"
  /\ activeSince' = NoTime /\ lastPress' = NoTime
  /\ outbox' = CASE activeSince = NoTime -> NoAction
                 [] activeSince # NoTime /\ IsRealHold(now - activeSince) -> "stop"
                 [] OTHER -> "cancel"
  /\ UNCHANGED heldFrom

OnRelease(event) ==
  /\ event.kind = "released"
  /\ activeSince' = NoTime
  /\ outbox' = CASE activeSince = NoTime -> NoAction
                 [] activeSince # NoTime /\ IsRealHold(now - activeSince) -> "stop"
                 [] OTHER -> "cancel"
  /\ UNCHANGED <<lastPress, heldFrom>>

-----------------------------------------------------------------------------
(* The threads *)

\* The forwarding thread moves one system event to the raw channel.  The event
\* it holds while blocking_send waits for room is the head of hotkeys.
Forward ==
  /\ hotkeys # <<>>
  /\ Len(raw) < RawCapacity
  /\ raw' = Append(raw, Head(hotkeys))
  /\ hotkeys' = Tail(hotkeys)
  /\ UNCHANGED <<now, keyDown, outbox, actions, debouncerVars, recording, stalled>>

\* The debouncing thread takes an event, stamps it and runs the debouncer.
Debounce ==
  /\ outbox = NoAction
  /\ raw # <<>>
  /\ OnPress(Head(raw)) \/ OnRelease(Head(raw))
  /\ raw' = Tail(raw)
  /\ UNCHANGED <<now, keyDown, hotkeys, actions, recording, stalled>>

\* Mistake: try_send, which drops the action when the channel is full.
SendActionDropping ==
  /\ outbox # NoAction
  /\ actions' = IF Len(actions) < ActionCapacity THEN Append(actions, outbox) ELSE actions
  /\ outbox' = NoAction
  /\ UNCHANGED <<now, keyDown, hotkeys, raw, debouncerVars, recording, stalled>>

\* Its blocking_send completes.
SendAction ==
  /\ outbox # NoAction
  /\ Len(actions) < ActionCapacity
  /\ actions' = Append(actions, outbox)
  /\ outbox' = NoAction
  /\ UNCHANGED <<now, keyDown, hotkeys, raw, debouncerVars, recording, stalled>>

\* The worker's select loop takes an action.
Receive ==
  /\ actions # <<>>
  /\ recording' = (Head(actions) = "start")
  /\ actions' = Tail(actions)
  /\ UNCHANGED <<now, keyDown, hotkeys, raw, outbox, debouncerVars, stalled>>

User == Press \/ AutoRepeat \/ Release
Threads == Forward \/ Debounce \/ SendAction \/ Receive

Next == User \/ Tick \/ Threads

\* The threads and the worker run; nothing obliges the user to do anything.
Fairness ==
  WF_vars(Forward) /\ WF_vars(Debounce) /\ WF_vars(SendAction) /\ WF_vars(Receive)

Spec == Init /\ [][Next]_vars
FairSpec == Spec /\ Fairness

-----------------------------------------------------------------------------
(* What it guarantees *)

TypeOK ==
  /\ now \in Nat
  /\ keyDown \in BOOLEAN /\ recording \in BOOLEAN /\ stalled \in BOOLEAN
  /\ hotkeys \in Seq(HotkeyEvent)
  /\ raw \in Seq(HotkeyEvent)
  /\ actions \in Seq(DebounceAction)
  /\ outbox \in DebounceAction \cup {NoAction}
  /\ activeSince \in Nat \cup {NoTime}
  /\ lastPress \in Nat \cup {NoTime}
  /\ heldFrom \in Nat \cup {NoTime}

\* The listener seen as the stream of actions the worker relies on: an action
\* being sent is already part of the stream.
Sending == IF outbox = NoAction THEN <<>> ELSE <<outbox>>

Holds == INSTANCE HoldStream WITH
  MaxPending <- ActionCapacity + 1,
  open <- activeSince # NoTime,
  stream <- actions \o Sending

(***************************************************************************)
(* DebouncedHotkeyListener implements the hold stream: whatever the user   *)
(* does and however the threads are delayed, each accepted press adds one  *)
(* "start", its release one closing, and nothing is lost or reordered.     *)
(***************************************************************************)
ImplementsHoldStream == Holds!HoldSpec

(***************************************************************************)
(* No second recording starts on top of the first, and none is closed      *)
(* twice (the module comment of debounce.rs): across the worker, the       *)
(* channel and the debouncer, starts and closings alternate.               *)
(***************************************************************************)
HoldsAlternate == Holds!Alternates

(***************************************************************************)
(* D-09 and D-10 as the user sees them: while the threads and the worker   *)
(* have kept up with the clock, a recording is kept exactly when the key   *)
(* was really down for MIN_HOLD, and two recordings never start within     *)
(* DOUBLE_PRESS_WINDOW.                                                    *)
(***************************************************************************)
Decides == outbox = NoAction /\ outbox' # NoAction

TapsAreDiscarded ==
  [][Decides /\ outbox' \in Closings /\ ~stalled =>
       (outbox' = "stop") = (Head(raw).at - heldFrom >= MinHold)]_vars

StartsAreApart ==
  [][Decides /\ outbox' = "start" /\ heldFrom # NoTime /\ ~stalled =>
       Head(raw).at - heldFrom >= DoublePressWindow]_vars

(***************************************************************************)
(* A recording does not outlive the hold: once the key is up, the worker   *)
(* receives the closing (or the key goes down again).                      *)
(***************************************************************************)
RecordingEnds == (recording /\ ~keyDown) ~> (~recording \/ keyDown)
=============================================================================
