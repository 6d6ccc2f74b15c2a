----------------------- MODULE HotkeyListener_proofs -----------------------
(* The hotkey listener implements the hold stream, for any timing constants *)
(* and any channel capacities.                                              *)
EXTENDS HotkeyListener, SequenceTheorems, TLAPS

(* Every variable keeps its type. *)
THEOREM TypeCorrect == Spec => []TypeOK
<1>1. Init => TypeOK
  <2>1. Init => now \in Nat
    BY DEF Init
  <2>2. Init => /\ keyDown \in BOOLEAN /\ recording \in BOOLEAN /\ stalled \in BOOLEAN
                /\ outbox \in DebounceAction \cup {NoAction}
                /\ activeSince \in Nat \cup {NoTime}
                /\ lastPress \in Nat \cup {NoTime}
                /\ heldFrom \in Nat \cup {NoTime}
    BY Zenon DEF Init
  <2>3. Init => /\ hotkeys \in Seq(HotkeyEvent) /\ raw \in Seq(HotkeyEvent)
                /\ actions \in Seq(DebounceAction)
    BY DEF Init
  <2>4. QED
    BY <2>1, <2>2, <2>3 DEF TypeOK
<1> USE DEF DebounceAction, Closings, NoTime, NoAction
<1>2. TypeOK /\ [Next]_vars => TypeOK'
  <2> SUFFICES ASSUME TypeOK, [Next]_vars PROVE TypeOK'
    OBVIOUS
  <2> USE DEF TypeOK, threadVars, debouncerVars
  <2>1. CASE User
    <3>1. \A kind \in {"pressed", "released"} : Emit(kind) => hotkeys' \in Seq(HotkeyEvent)
      <4> SUFFICES ASSUME NEW kind \in {"pressed", "released"}, Emit(kind)
                   PROVE  hotkeys' \in Seq(HotkeyEvent)
        OBVIOUS
      <4>1. [kind |-> kind, at |-> now] \in HotkeyEvent
        BY DEF HotkeyEvent
      <4>2. QED
        BY <4>1 DEF Emit
    <3>2. QED
      BY <2>1, <3>1 DEF User, Press, AutoRepeat, Release, Emit
  <2>2. CASE Tick
    BY <2>2, BoundAssumption DEF Tick, Prompt
  <2>3. CASE Forward
    BY <2>3, HeadTailProperties DEF Forward
  <2>4. CASE Debounce
    <3>1. raw' \in Seq(HotkeyEvent) /\ Head(raw) \in HotkeyEvent
      BY <2>4, HeadTailProperties DEF Debounce
    <3>2. CASE OnPress(Head(raw))
      BY <2>4, <3>1, <3>2 DEF Debounce, OnPress, HotkeyEvent
    <3>3. CASE OnRelease(Head(raw))
      BY <2>4, <3>1, <3>3 DEF Debounce, OnRelease
    <3>4. QED
      BY <2>4, <3>2, <3>3 DEF Debounce
  <2>5. CASE SendAction
    BY <2>5 DEF SendAction
  <2>6. CASE Receive
    BY <2>6 DEF Receive
  <2>7. CASE UNCHANGED vars
    BY <2>7 DEF vars
  <2>8. QED
    BY <2>1, <2>2, <2>3, <2>4, <2>5, <2>6, <2>7 DEF Next, Threads
<1>3. QED
  BY <1>1, <1>2, PTL DEF Spec

(* The action channel never holds more than its capacity. *)
WithinCapacity == Len(actions) <= ActionCapacity

LEMMA CapacityKept == Spec => []WithinCapacity
<1>1. Init => WithinCapacity
  BY CapacityAssumption DEF Init, WithinCapacity
<1>2. TypeOK /\ WithinCapacity /\ [Next]_vars => WithinCapacity'
  BY CapacityAssumption
  DEF TypeOK, WithinCapacity, Next, User, Threads, Press, AutoRepeat, Release, Emit,
      Tick, Forward, Debounce, OnPress, OnRelease, SendAction, Receive,
      vars, threadVars, debouncerVars, DebounceAction, Closings, NoAction
<1>3. QED
  BY <1>1, <1>2, TypeCorrect, PTL DEF Spec

(* The stream the worker sees, and what the queue operations do to it. *)
Stream == actions \o Sending

LEMMA StreamFacts ==
  ASSUME TypeOK
  PROVE  /\ outbox = NoAction => Stream = actions
         /\ outbox # NoAction => Stream = Append(actions, outbox)
         /\ Len(Stream) = Len(actions) + (IF outbox = NoAction THEN 0 ELSE 1)
<1>1. outbox = NoAction => Stream = actions
  BY ConcatEmptySeq DEF TypeOK, Stream, Sending
<1>2. outbox # NoAction => Stream = Append(actions, outbox)
  BY AppendIsConcat DEF TypeOK, Stream, Sending, NoAction
<1>3. QED
  BY <1>1, <1>2 DEF TypeOK

(* Every step of the listener is a step of the hold stream, or none at all. *)
LEMMA StepImplements ==
  TypeOK /\ TypeOK' /\ WithinCapacity /\ [Next]_vars => [Holds!HoldNext]_(Holds!holdVars)
<1> USE DEF Stream
<1> SUFFICES ASSUME TypeOK, TypeOK', WithinCapacity, [Next]_vars
             PROVE  [Holds!HoldNext]_(Holds!holdVars)
  OBVIOUS
<1>0. /\ outbox = NoAction => Stream = actions
      /\ outbox # NoAction => Stream = Append(actions, outbox)
      /\ Len(Stream) = Len(actions) + (IF outbox = NoAction THEN 0 ELSE 1)
      /\ outbox' = NoAction => Stream' = actions'
      /\ outbox' # NoAction => Stream' = Append(actions', outbox')
  BY StreamFacts, ConcatEmptySeq, AppendIsConcat DEF TypeOK, Sending, NoAction
<1>1. ASSUME UNCHANGED <<actions, outbox, activeSince, recording>>
      PROVE  [Holds!HoldNext]_(Holds!holdVars)
  BY <1>1 DEF Holds!holdVars, Sending
<1>2. CASE User \/ Tick \/ Forward
  BY <1>1, <1>2 DEF User, Press, AutoRepeat, Release, Emit, Tick, Forward,
                    threadVars, debouncerVars
<1>3. CASE Debounce /\ OnPress(Head(raw))
  <2>1. CASE activeSince # NoTime \/ IsDoublePress(now)
    BY <1>1, <1>3, <2>1 DEF Debounce, OnPress
  <2>2. CASE ~(activeSince # NoTime \/ IsDoublePress(now))
    <3>1. Stream' = Append(Stream, "start")
      BY <1>0, <1>3, <2>2 DEF Debounce, OnPress, NoAction
    <3>2. Len(Stream) < ActionCapacity + 1
      BY <1>0, <1>3, CapacityAssumption DEF Debounce, WithinCapacity, TypeOK
    <3>3. Holds!Begin
      BY <1>3, <2>2, <3>1, <3>2 DEF Debounce, OnPress, Holds!Begin, TypeOK, NoTime
    <3>4. QED
      BY <3>3 DEF Holds!HoldNext
  <2>3. QED
    BY <2>1, <2>2
<1>4. CASE Debounce /\ OnRelease(Head(raw))
  <2>1. CASE activeSince = NoTime
    BY <1>1, <1>4, <2>1 DEF Debounce, OnRelease
  <2>2. CASE activeSince # NoTime
    <3>1. outbox' \in Holds!Closings /\ outbox' # NoAction
      BY <1>4, <2>2 DEF OnRelease, Holds!Closings, NoAction
    <3>2. Stream' = Append(Stream, outbox')
      BY <1>0, <1>4, <3>1 DEF Debounce
    <3>3. Len(Stream) < ActionCapacity + 1
      BY <1>0, <1>4, CapacityAssumption DEF Debounce, WithinCapacity, TypeOK
    <3>4. Holds!End
      BY <1>4, <2>2, <3>1, <3>2, <3>3 DEF Debounce, OnRelease, Holds!End
    <3>5. QED
      BY <3>4 DEF Holds!HoldNext
  <2>3. QED
    BY <2>1, <2>2
<1>5. CASE SendAction
  <2>1. Stream' = Stream
    BY <1>0, <1>5 DEF SendAction
  <2>2. QED
    BY <1>5, <2>1 DEF SendAction, debouncerVars, Holds!holdVars
<1>6. CASE Receive
  <2>1. /\ Stream # <<>>
        /\ Head(Stream) = Head(actions)
        /\ Stream' = Tail(Stream)
    <3>1. CASE outbox = NoAction
      BY <1>0, <1>6, <3>1 DEF Receive
    <3>2. CASE outbox # NoAction
      BY <1>0, <1>6, <3>2, HeadTailAppend, AppendProperties
      DEF Receive, TypeOK, NoAction
    <3>3. QED
      BY <3>1, <3>2
  <2>2. Holds!Take
    BY <1>6, <2>1 DEF Receive, debouncerVars, Holds!Take
  <2>3. QED
    BY <2>2 DEF Holds!HoldNext
<1>7. CASE UNCHANGED vars
  BY <1>1, <1>7 DEF vars, threadVars, debouncerVars
<1>8. QED
  BY <1>2, <1>3, <1>4, <1>5, <1>6, <1>7 DEF Next, Threads, Debounce

(* The listener implements the hold stream. *)
THEOREM Implementation == Spec => ImplementsHoldStream
<1> USE DEF Stream
<1>1. Init => Holds!HoldInit
  BY ConcatEmptySeq, EmptySeq DEF Init, Holds!HoldInit, Sending, NoTime
<1>2. QED
  BY <1>1, StepImplements, TypeCorrect, CapacityKept, PTL DEF Spec, ImplementsHoldStream, Holds!HoldSpec


(* Starts and closings alternate, from the worker back to the debouncer. *)
HoldFacts == INSTANCE HoldStream_proofs WITH
  MaxPending <- ActionCapacity + 1,
  open <- activeSince # NoTime,
  stream <- actions \o Sending

THEOREM Alternation == Spec => []HoldsAlternate
<1> USE DEF Holds!holdVars, HoldFacts!holdVars
<1>1. ActionCapacity + 1 \in Nat \ {0}
  BY CapacityAssumption
<1>2. HoldFacts!HoldSpec => []HoldFacts!Alternates
  BY <1>1, HoldFacts!HoldsAlternateAlways
<1>3. Holds!HoldInit => HoldFacts!HoldInit
  BY DEF Holds!HoldInit, HoldFacts!HoldInit
<1>4. [Holds!HoldNext]_(Holds!holdVars) => [HoldFacts!HoldNext]_(HoldFacts!holdVars)
  BY DEF Holds!HoldNext, Holds!Begin, Holds!End, Holds!Take, Holds!Closings,
         HoldFacts!HoldNext, HoldFacts!Begin, HoldFacts!End, HoldFacts!Take, HoldFacts!Closings
<1>5. HoldFacts!Alternates => HoldsAlternate
  BY DEF HoldsAlternate, Holds!Alternates, Holds!Alternating,
         HoldFacts!Alternates, HoldFacts!Alternating
<1>6. QED
  BY <1>2, <1>3, <1>4, <1>5, Implementation, PTL
  DEF ImplementsHoldStream, Holds!HoldSpec, HoldFacts!HoldSpec

(***************************************************************************)
(* While the threads keep up with the clock, what waits in the channels has *)
(* just happened, and the debouncer's times are those of the key itself.    *)
(***************************************************************************)
Prompted ==
  ~stalled =>
    /\ \A i \in DOMAIN hotkeys : hotkeys[i].at = now
    /\ \A i \in DOMAIN raw : raw[i].at = now
    /\ activeSince # NoTime => activeSince = heldFrom
    /\ heldFrom # NoTime => lastPress # NoTime /\ heldFrom <= lastPress
    /\ lastPress # NoTime => lastPress <= now

LEMMA PromptedStep == TypeOK /\ Prompted /\ [Next]_vars => Prompted'
<1> SUFFICES ASSUME TypeOK, Prompted, [Next]_vars, ~stalled' PROVE Prompted'
  BY DEF Prompted
<1> USE DEF Prompted
<1>1. ASSUME NEW kind, Emit(kind) PROVE Prompted'
  <2> DEFINE event == [kind |-> kind, at |-> now]
  <2>1. /\ hotkeys' = Append(hotkeys, event) /\ event.at = now
        /\ UNCHANGED <<now, raw, stalled, activeSince, heldFrom, lastPress>>
    BY <1>1 DEF Emit, debouncerVars
  <2> HIDE DEF event
  <2>2. \A i \in DOMAIN hotkeys' : hotkeys'[i] = event \/ (i \in DOMAIN hotkeys /\ hotkeys'[i] = hotkeys[i])
    BY <2>1, AppendProperties DEF TypeOK
  <2>3. QED
    BY <2>1, <2>2
<1>2. CASE Tick
  <2>1. hotkeys = <<>> /\ raw = <<>> /\ ~stalled
    BY <1>2 DEF Tick, Prompt
  <2>2. /\ now' = now + 1 /\ UNCHANGED <<hotkeys, raw, activeSince, heldFrom, lastPress>>
    BY <1>2 DEF Tick, threadVars, debouncerVars
  <2>3. lastPress # NoTime => lastPress \in Nat /\ now \in Nat
    BY DEF TypeOK
  <2>4. QED
    BY <2>1, <2>2, <2>3
<1>3. CASE Forward
  <2>1. /\ raw' = Append(raw, Head(hotkeys)) /\ hotkeys' = Tail(hotkeys) /\ hotkeys # <<>>
        /\ UNCHANGED <<now, stalled, activeSince, heldFrom, lastPress>>
    BY <1>3 DEF Forward, debouncerVars
  <2>2. Head(hotkeys).at = now
    BY <2>1, HeadTailProperties, EmptySeq DEF TypeOK
  <2>3. \A i \in DOMAIN raw' : raw'[i] = Head(hotkeys) \/ (i \in DOMAIN raw /\ raw'[i] = raw[i])
    BY <2>1, AppendProperties, HeadTailProperties DEF TypeOK
  <2>4. \A i \in DOMAIN hotkeys' : i + 1 \in DOMAIN hotkeys /\ hotkeys'[i] = hotkeys[i + 1]
    BY <2>1, HeadTailProperties DEF TypeOK
  <2>5. QED
    BY <2>1, <2>2, <2>3, <2>4
<1>4. CASE Debounce
  <2>1. raw' = Tail(raw) /\ raw # <<>> /\ UNCHANGED <<now, hotkeys, stalled>>
    BY <1>4 DEF Debounce
  <2>2. \A i \in DOMAIN raw' : i + 1 \in DOMAIN raw /\ raw'[i] = raw[i + 1]
    BY <2>1, HeadTailProperties DEF TypeOK
  <2>3. Head(raw).at = now
    BY <2>1, HeadTailProperties, EmptySeq DEF TypeOK
  <2>4. now \in Nat /\ now # NoTime
    BY DEF TypeOK, NoTime
  <2>5. CASE OnPress(Head(raw))
    <3>1. lastPress' = now
      BY <2>5 DEF OnPress
    <3>2. \/ activeSince' = now /\ heldFrom' = now
          \/ UNCHANGED <<activeSince, heldFrom>>
      BY <2>3, <2>5 DEF OnPress
    <3>3. heldFrom # NoTime => heldFrom \in Nat /\ lastPress \in Nat /\ heldFrom <= now
      BY <2>1 DEF TypeOK
    <3>4. QED
      BY <2>1, <2>2, <2>4, <3>1, <3>2, <3>3
  <2>6. CASE OnRelease(Head(raw))
    BY <2>1, <2>2, <2>6 DEF OnRelease
  <2>7. QED
    BY <1>4, <2>5, <2>6 DEF Debounce
<1>5. CASE SendAction \/ Receive \/ UNCHANGED vars
  BY <1>5 DEF SendAction, Receive, vars, threadVars, debouncerVars
<1>6. QED
  BY <1>1, <1>2, <1>3, <1>4, <1>5 DEF Next, User, Threads, Press, AutoRepeat, Release

LEMMA PromptedAlways == Spec => [](TypeOK /\ Prompted)
<1>1. Init => Prompted
  BY DEF Init, Prompted, NoTime
<1>2. QED
  BY <1>1, PromptedStep, TypeCorrect, PTL DEF Spec

\* What decides is the debouncer, of the event it takes.
LEMMA OnlyDebounceDecides ==
  ASSUME [Next]_vars, Decides
  PROVE  Debounce
BY DEF Decides, Next, User, Threads, Press, AutoRepeat, Release, Emit, Tick, Forward, SendAction,
       Receive, vars, threadVars, debouncerVars

(* A recording is kept exactly when the key was down for MinHold, however     *)
(* often the system repeats the press, as long as the threads keep up.        *)
THEOREM TapsAlwaysDiscarded == Spec => TapsAreDiscarded
<1>1. TypeOK /\ Prompted /\ [Next]_vars
        => [Decides /\ outbox' \in Closings /\ ~stalled =>
              (outbox' = "stop") = (Head(raw).at - heldFrom >= MinHold)]_vars
  <2> SUFFICES ASSUME TypeOK, Prompted, [Next]_vars, Decides, outbox' \in Closings, ~stalled
               PROVE  (outbox' = "stop") = (Head(raw).at - heldFrom >= MinHold)
    OBVIOUS
  <2>1. Debounce /\ raw # <<>> /\ (OnPress(Head(raw)) \/ OnRelease(Head(raw)))
    BY OnlyDebounceDecides DEF Debounce
  <2>2. Head(raw).at = now
    BY <2>1, HeadTailProperties, EmptySeq DEF TypeOK, Prompted
  <2>3. OnRelease(Head(raw))
    BY <2>1 DEF OnPress, Closings, NoAction
  <2>4. activeSince # NoTime /\ activeSince = heldFrom
    BY <2>3 DEF OnRelease, Prompted, Decides
  <2>5. outbox' = IF IsRealHold(now - activeSince) THEN "stop" ELSE "cancel"
    BY <2>3, <2>4 DEF OnRelease
  <2>6. QED
    BY <2>2, <2>4, <2>5 DEF IsRealHold
<1>2. QED
  BY <1>1, PromptedAlways, PTL DEF Spec, TapsAreDiscarded

(* Two recordings never start within DoublePressWindow of each other, though  *)
(* presses in between, which the window rejects, move its beginning on.       *)
THEOREM StartsAlwaysApart == Spec => StartsAreApart
<1>1. TypeOK /\ Prompted /\ [Next]_vars
        => [Decides /\ outbox' = "start" /\ heldFrom # NoTime /\ ~stalled =>
              Head(raw).at - heldFrom >= DoublePressWindow]_vars
  <2> SUFFICES ASSUME TypeOK, Prompted, [Next]_vars, Decides, outbox' = "start",
                      heldFrom # NoTime, ~stalled
               PROVE  Head(raw).at - heldFrom >= DoublePressWindow
    OBVIOUS
  <2>1. Debounce /\ raw # <<>> /\ (OnPress(Head(raw)) \/ OnRelease(Head(raw)))
    BY OnlyDebounceDecides DEF Debounce
  <2>2. Head(raw).at = now
    BY <2>1, HeadTailProperties, EmptySeq DEF TypeOK, Prompted
  <2>3. OnPress(Head(raw))
    BY <2>1 DEF OnRelease, NoAction
  <2>4. ~IsDoublePress(now)
    BY <2>3 DEF OnPress, NoAction
  <2>5. lastPress # NoTime /\ heldFrom <= lastPress
    BY DEF Prompted
  <2>6. now \in Nat /\ lastPress \in Nat /\ heldFrom \in Nat
    BY <2>5 DEF TypeOK
  <2>7. QED
    BY <2>2, <2>4, <2>5, <2>6, TimingAssumption DEF IsDoublePress
<1>2. QED
  BY <1>1, PromptedAlways, PTL DEF Spec, StartsAreApart
=============================================================================
