------------------------------ MODULE Hub_proofs ------------------------------
(***************************************************************************)
(* What is proved of the run of all parts together, and of the parts that  *)
(* have no screen: the delivery of text (Delivery), the installer, the     *)
(* uninstaller, refining on this computer (LocalRefiner) and the stitching of *)
(* overlapping windows (Rolling).                                          *)
(***************************************************************************)
EXTENDS MC_Hub, Screens_proofs, Speech_proofs

(***************************************************************************)
(* Long transcriptions: types and order of the segments, for any windows,  *)
(* any timelines and any answers of the backend.                           *)
(***************************************************************************)
Retime(segment, start, end) == [segment EXCEPT !.start = start, !.end = end]

LEMMA Retimed ==
  ASSUME NEW segment \in Segment, NEW start \in Nat, NEW end \in Nat
  PROVE  Retime(segment, start, end) \in Segment /\ Retime(segment, start, end).start = start
BY DEF Segment, Retime

LEMMA ShiftTyped ==
  ASSUME NEW segment \in Segment, NEW by \in Nat
  PROVE  Shift(segment, by) \in Segment
<1> DEFINE start == segment.start + by
           end == segment.end + by
<1>1. start \in Nat /\ end \in Nat
  BY DEF Segment
<1>2. Shift(segment, by) = Retime(segment, start, end)
  BY DEF Shift, Retime
<1> HIDE DEF start, end
<1> QED
  BY <1>1, <1>2, Retimed

LEMMA ClampTyped ==
  ASSUME NEW segment \in Segment, NEW prev \in Segment
  PROVE  Clamp(segment, prev) \in Segment /\ prev.start <= Clamp(segment, prev).start
<1> DEFINE start == AtLeast(segment.start, prev.start)
           end == AtLeast(segment.end, start)
<1>1. start \in Nat /\ prev.start <= start
  BY DEF AtLeast, Segment
<1>2. end \in Nat
  BY <1>1 DEF AtLeast, Segment
<1>3. Clamp(segment, prev) = Retime(segment, start, end)
  BY DEF Clamp, Retime
<1> HIDE DEF start, end
<1> QED
  BY <1>1, <1>2, <1>3, Retimed

LEMMA SegmentFolded ==
  ASSUME RollingTypeOK, StitchSegment
  PROVE  \/ UNCHANGED segments
         \/ \E segment \in Segment :
              /\ segments' = Append(segments, segment)
              /\ segments # <<>> => segments[Len(segments)].start <= segment.start
<1> DEFINE shifted == Shift(Head(pending), windowStart)
<1>1. shifted \in Segment
  <2>1. Head(pending) \in Segment
    BY HeadTailProperties DEF StitchSegment, RollingTypeOK
  <2> QED
    BY <2>1, ShiftTyped DEF RollingTypeOK
<1>2. CASE segments = <<>>
  BY <1>1, <1>2 DEF StitchSegment
<1>3. CASE segments # <<>>
  <2>1. segments[Len(segments)] \in Segment
    BY <1>3, ElementOfSeq, LenProperties, EmptySeq DEF RollingTypeOK
  <2> HIDE DEF shifted
  <2>2. /\ Clamp(shifted, segments[Len(segments)]) \in Segment
        /\ segments[Len(segments)].start <= Clamp(shifted, segments[Len(segments)]).start
    BY <1>1, <2>1, ClampTyped
  <2>3. UNCHANGED segments \/ segments' = Append(segments, Clamp(shifted, segments[Len(segments)]))
    BY <1>3 DEF StitchSegment, shifted
  <2> QED
    BY <2>2, <2>3, <1>3
<1> QED
  BY <1>2, <1>3

LEMMA RollingTyped == RollingTypeOK /\ [RollingNext]_rollingVars => RollingTypeOK'
<1> SUFFICES ASSUME RollingTypeOK, [RollingNext]_rollingVars PROVE RollingTypeOK'
  OBVIOUS
<1>1. CASE StitchSegment
  <2>1. pending' \in Seq(Segment)
    BY <1>1, HeadTailProperties DEF StitchSegment, RollingTypeOK
  <2>2. segments' \in Seq(Segment) /\ Len(segments) <= Len(segments')
    <3>1. CASE UNCHANGED segments
      BY <3>1, LenProperties DEF RollingTypeOK
    <3>2. CASE ~UNCHANGED segments
      <4>1. PICK segment \in Segment : segments' = Append(segments, segment)
        BY <1>1, <3>2, SegmentFolded
      <4>2. Len(segments) \in Nat /\ Len(segments') = Len(segments) + 1 /\ segments' \in Seq(Segment)
        BY <4>1, AppendProperties, LenProperties DEF RollingTypeOK
      <4> QED
        BY <4>2
    <3> QED
      BY <3>1, <3>2
  <2>3. existing' \in 0..Len(segments')
    BY <1>1, <2>2, LenProperties DEF StitchSegment, RollingTypeOK
  <2> QED
    BY <1>1, <2>1, <2>2, <2>3 DEF StitchSegment, RollingTypeOK
<1>2. CASE PushWindow
  <2>1. nextStart \in 0..LastStart /\ StepSecs \in Nat
    BY <1>2, WindowAssumption DEF PushWindow, RollingTypeOK, StepSecs
  <2>2. pending' \in Seq(Segment)
    BY <1>2, <2>1, WindowAssumption DEF PushWindow, RollingTypeOK
  <2>3. existing' \in 0..Len(segments)
    BY <1>2, LenProperties DEF PushWindow, RollingTypeOK
  <2> QED
    BY <1>2, <2>1, <2>2, <2>3 DEF PushWindow, RollingTypeOK
<1>3. CASE PushWindowFails
  <2>1. StepSecs \in Nat
    BY WindowAssumption DEF StepSecs
  <2> QED
    BY <1>3, <2>1 DEF PushWindowFails, RollingTypeOK
<1>4. CASE UNCHANGED rollingVars
  BY <1>4 DEF rollingVars, RollingTypeOK
<1> QED
  BY <1>1, <1>2, <1>3, <1>4 DEF RollingNext

LEMMA RollingTypeInit == RollingInit => RollingTypeOK
BY WindowAssumption, EmptySeq DEF RollingInit, RollingTypeOK

(* Appending a segment that starts no earlier than the last one keeps order. *)
LEMMA AppendedInOrder ==
  ASSUME RollingTypeOK, StartsInOrder, NEW segment \in Segment,
         segments' = Append(segments, segment),
         segments # <<>> => segments[Len(segments)].start <= segment.start
  PROVE  StartsInOrder'
<1> DEFINE n == Len(segments)
<1>1. /\ n \in Nat /\ DOMAIN segments = 1..n /\ DOMAIN segments' = 1..(n + 1)
      /\ segments'[n + 1] = segment
      /\ \A i \in 1..n : segments'[i] = segments[i] /\ segments[i].start \in Nat
  <2>1. \A i \in 1..n : segments[i] \in Segment
    BY ElementOfSeq DEF RollingTypeOK
  <2>2. n \in Nat /\ DOMAIN segments = 1..n
    BY LenProperties DEF RollingTypeOK
  <2>3. \A i \in 1..n : segments[i].start \in Nat
    BY <2>1 DEF Segment
  <2>4. /\ Len(segments') = n + 1 /\ segments'[n + 1] = segment /\ segments' \in Seq(Segment)
        /\ \A i \in 1..n : segments'[i] = segments[i]
    BY AppendProperties DEF RollingTypeOK
  <2>5. DOMAIN segments' = 1..(n + 1)
    BY <2>4, LenProperties
  <2> QED
    BY <2>2, <2>3, <2>4, <2>5
<1>2. ASSUME NEW i \in DOMAIN segments', NEW j \in DOMAIN segments', i < j
      PROVE  segments'[i].start <= segments'[j].start
  <2>1. i \in 1..n
    BY <1>1, <1>2
  <2>2. CASE j \in 1..n
    BY <1>1, <1>2, <2>1, <2>2 DEF StartsInOrder
  <2>3. CASE j = n + 1
    <3>1. n \in 1..n /\ segments # <<>>
      BY <1>1, <2>1, EmptySeq
    <3>2. segments[i].start <= segments[n].start
      BY <1>1, <2>1, <3>1 DEF StartsInOrder
    <3>3. segments[n].start <= segment.start /\ segment.start \in Nat
      BY <3>1 DEF Segment
    <3>4. segments'[i].start = segments[i].start /\ segments'[j].start = segment.start
      BY <1>1, <2>1, <2>3
    <3> HIDE DEF n
    <3> QED
      BY <1>1, <2>1, <3>1, <3>2, <3>3, <3>4
  <2> QED
    BY <1>1, <2>2, <2>3
<1> QED
  BY <1>2 DEF StartsInOrder

(***************************************************************************)
(* Whatever the backend answers, window by window, the accumulated          *)
(* segments never step back in time (RollingTranscriber::push_window).      *)
(***************************************************************************)
THEOREM TranscriptInOrder == RollingSpec => []StartsInOrder
<1>1. RollingInit => RollingTypeOK /\ StartsInOrder
  BY RollingTypeInit DEF RollingInit, StartsInOrder
<1>2. RollingTypeOK /\ StartsInOrder /\ [RollingNext]_rollingVars => RollingTypeOK' /\ StartsInOrder'
  <2> SUFFICES ASSUME RollingTypeOK, StartsInOrder, [RollingNext]_rollingVars PROVE StartsInOrder'
    BY RollingTyped
  <2>1. CASE StitchSegment
    <3>1. CASE UNCHANGED segments
      BY <3>1 DEF StartsInOrder
    <3>2. CASE ~UNCHANGED segments
      BY <2>1, <3>2, SegmentFolded, AppendedInOrder
    <3> QED
      BY <3>1, <3>2
  <2>2. CASE PushWindow \/ PushWindowFails \/ UNCHANGED rollingVars
    BY <2>2 DEF PushWindow, PushWindowFails, rollingVars, StartsInOrder
  <2> QED
    BY <2>1, <2>2 DEF RollingNext
<1> QED
  BY <1>1, <1>2, PTL DEF RollingSpec

-----------------------------------------------------------------------------
(***************************************************************************)
(* Delivery: the clipboard.  While it is borrowed and undisturbed, what was *)
(* saved is the user's last copy, as long as our text is still there.       *)
(***************************************************************************)
Borrowed == ~disturbed =>
  /\ sinkAt \in {"idle", "saving", "staging", "typing"} => clipboard = userCopied
  /\ sinkAt \in {"pasting", "restoring", "restoring, failed"} /\ clipboard = Staged(payload.text)
       => original = userCopied

SinkAt == {"idle", "saving", "staging", "pasting", "restoring", "restoring, failed", "typing"}

LEMMA BorrowedStep ==
  ASSUME sinkAt \in SinkAt, Borrowed, [DeliveryNext]_deliveryVars
  PROVE  sinkAt' \in SinkAt /\ Borrowed'
<1> USE DEF SinkAt, Borrowed, TheUser, TheApp, TheSink
<1>1. CASE InsertBegins
  BY <1>1 DEF InsertBegins
<1>2. CASE SaveClipboard
  BY <1>2 DEF SaveClipboard
<1>3. CASE StageText
  BY <1>3 DEF StageText
<1>4. CASE PasteChord
  BY <1>4 DEF PasteChord
<1>5. CASE Restore
  BY <1>5 DEF Restore, Succeeded
<1>6. CASE TypeFallback
  BY <1>6 DEF TypeFallback, Succeeded
<1>7. CASE TargetPastes
  BY <1>7 DEF TargetPastes
<1>8. CASE UserCopies
  <2>1. \A n, m : User(n) # Staged(m) /\ Image(n) # Staged(m)
    BY DEF User, Image, Staged
  <2> QED
    BY <1>8, <2>1 DEF UserCopies
<1>9. CASE UserMoves \/ ResolveDelivery
  BY <1>9 DEF UserMoves, ResolveDelivery
<1>10. CASE Deliver
  BY <1>10 DEF Deliver
<1>11. CASE UNCHANGED deliveryVars
  BY <1>11 DEF deliveryVars
<1> QED
  BY <1>1, <1>2, <1>3, <1>4, <1>5, <1>6, <1>7, <1>8, <1>9, <1>10, <1>11 DEF DeliveryNext

(***************************************************************************)
(* For any number of utterances and of copies: after a delivery the user    *)
(* finds on the clipboard what they copied last, but for the disturbances   *)
(* ClipboardKept names (clipboard.rs, ClipboardRestoreGuard).               *)
(***************************************************************************)
THEOREM ClipboardReturned == DeliverySpec => []ClipboardKept
<1>1. DeliveryInit => sinkAt \in SinkAt /\ Borrowed
  BY DEF DeliveryInit, SinkAt, Borrowed
<1>2. sinkAt \in SinkAt /\ Borrowed /\ [DeliveryNext]_deliveryVars => (sinkAt \in SinkAt)' /\ Borrowed'
  BY BorrowedStep
<1>3. Borrowed => ClipboardKept
  BY DEF Borrowed, ClipboardKept
<1> QED
  BY <1>1, <1>2, <1>3, PTL DEF DeliverySpec

-----------------------------------------------------------------------------
(***************************************************************************)
(* Delivery: the target.  Outside a paste the target has exactly what was   *)
(* reported; during one, the chord is on its way or has just been handled.  *)
(***************************************************************************)
Payload == [text : Nat, space : BOOLEAN]

Emitted == IF field = <<>> THEN 0 ELSE field[Len(field)].text
Texts(received) == [i \in DOMAIN received |-> received[i].text]
Spaced(received) ==
  \A i \in DOMAIN received \ {1} :
    received[i].space <=> NeedsLeadingSpace(received[i - 1].text, received[i].text)

FieldTyped ==
  /\ field \in Seq(Payload) /\ chords \in Seq(Payload) /\ inserted \in Seq(Nat) /\ payload \in Payload
  /\ utterances \in Nat /\ lastEmitted \in Nat /\ sinkAt \in SinkAt

(* What the target has is what was reported, and the text in hand follows it. *)
Settled ==
  /\ chords = <<>> /\ Texts(field) = inserted /\ lastEmitted = Emitted
  /\ sinkAt # "idle" => (payload.space <=> NeedsLeadingSpace(lastEmitted, payload.text))

(* The chord is on its way, or the target has pasted and it is not reported yet. *)
Pasting ==
  \/ /\ chords = <<payload>> /\ Texts(field) = inserted /\ lastEmitted = Emitted
     /\ payload.space <=> NeedsLeadingSpace(lastEmitted, payload.text)
  \/ /\ chords = <<>> /\ Emitted = payload.text
     /\ Texts(field) = Append(inserted, payload.text)

Received ==
  ~doubled => /\ Spaced(field)
              /\ IF sinkAt = "restoring" THEN Pasting ELSE Settled

LEMMA Appended ==
  ASSUME NEW received \in Seq(Payload), NEW one \in Payload
  PROVE  LET more == Append(received, one) n == Len(received)
         IN  /\ more \in Seq(Payload) /\ more # <<>> /\ Len(more) = n + 1 /\ n \in Nat
             /\ DOMAIN more = 1..(n + 1) /\ DOMAIN received = 1..n
             /\ more[n + 1] = one /\ \A i \in 1..n : more[i] = received[i]
BY AppendProperties, LenProperties

LEMMA TextsAppended ==
  ASSUME NEW received \in Seq(Payload), NEW one \in Payload, NEW texts \in Seq(Nat),
         Texts(received) = texts
  PROVE  Texts(Append(received, one)) = Append(texts, one.text)
<1> DEFINE more == Append(received, one)
           n == Len(received)
           all == Append(texts, one.text)
<1>1. /\ n \in Nat /\ DOMAIN more = 1..(n + 1) /\ DOMAIN received = 1..n
      /\ more[n + 1] = one /\ \A i \in 1..n : more[i] = received[i]
  BY Appended
<1>2. one.text \in Nat
  BY DEF Payload
<1>3. Len(texts) = n
  BY <1>1, LenProperties DEF Texts
<1>4. /\ all \in [1..(n + 1) -> Nat] /\ all[n + 1] = one.text
      /\ \A i \in 1..n : all[i] = texts[i]
  <2>1. all \in Seq(Nat) /\ Len(all) = n + 1
    BY <1>2, <1>3, AppendProperties
  <2>2. all \in [1..(n + 1) -> Nat]
    BY <2>1, LenProperties
  <2>3. all[n + 1] = one.text /\ \A i \in 1..n : all[i] = texts[i]
    BY <1>2, <1>3, AppendProperties
  <2> QED
    BY <2>2, <2>3
<1>5. \A i \in 1..n : texts[i] = received[i].text
  BY <1>1 DEF Texts
<1> HIDE DEF more, n, all
<1>6. \A i \in 1..(n + 1) : more[i].text = all[i]
  BY <1>1, <1>4, <1>5
<1>7. Texts(more) = [i \in 1..(n + 1) |-> more[i].text]
  BY <1>1 DEF Texts
<1>8. Texts(more) = all
  BY <1>4, <1>6, <1>7
<1> QED
  BY <1>8 DEF more, all

LEMMA SpacedAppended ==
  ASSUME NEW received \in Seq(Payload), NEW one \in Payload, Spaced(received),
         received # <<>> =>
           (one.space <=> NeedsLeadingSpace(received[Len(received)].text, one.text))
  PROVE  Spaced(Append(received, one))
<1> DEFINE more == Append(received, one)
           n == Len(received)
<1>1. /\ n \in Nat /\ DOMAIN more = 1..(n + 1) /\ DOMAIN received = 1..n
      /\ more[n + 1] = one /\ \A i \in 1..n : more[i] = received[i]
  BY Appended
<1> HIDE DEF more
<1>2. ASSUME NEW i \in DOMAIN more \ {1}
      PROVE  more[i].space <=> NeedsLeadingSpace(more[i - 1].text, more[i].text)
  <2>1. CASE i \in 1..n
    <3>1. i \in DOMAIN received \ {1} /\ i - 1 \in 1..n
      BY <1>1, <1>2, <2>1
    <3>2. more[i] = received[i] /\ more[i - 1] = received[i - 1]
      BY <1>1, <2>1, <3>1
    <3>3. received[i].space <=> NeedsLeadingSpace(received[i - 1].text, received[i].text)
      BY <3>1 DEF Spaced
    <3> QED
      BY <3>2, <3>3
  <2>2. CASE i = n + 1
    <3>1. i - 1 = n /\ n \in 1..n
      BY <1>1, <1>2, <2>2
    <3>2. more[i] = one /\ more[i - 1] = received[n]
      BY <1>1, <2>2, <3>1
    <3>3. received # <<>>
      BY <3>1, EmptySeq
    <3> QED
      BY <3>2, <3>3
  <2> QED
    BY <1>1, <1>2, <2>1, <2>2
<1> QED
  BY <1>2 DEF Spaced, more

(* The target gets a payload that follows what it has. *)
LEMMA Follows ==
  ASSUME FieldTyped, Spaced(field), lastEmitted = Emitted, Texts(field) = inserted,
         payload.space <=> NeedsLeadingSpace(lastEmitted, payload.text),
         field' = Append(field, payload)
  PROVE  /\ Spaced(field') /\ Emitted' = payload.text
         /\ Texts(field') = Append(inserted, payload.text) /\ field' \in Seq(Payload)
<1>1. field' \in Seq(Payload) /\ field' # <<>> /\ field'[Len(field')] = payload
  <2>1. field \in Seq(Payload) /\ payload \in Payload
    BY DEF FieldTyped
  <2> QED
    BY <2>1, AppendProperties
<1>2. Emitted' = payload.text
  BY <1>1 DEF Emitted
<1>3. Texts(field') = Append(inserted, payload.text)
  BY TextsAppended DEF FieldTyped
<1>4. Spaced(field')
  BY SpacedAppended DEF FieldTyped, Emitted
<1> QED
  BY <1>1, <1>2, <1>3, <1>4

LEMMA SpaceTyped == \A last, next : NeedsLeadingSpace(last, next) \in BOOLEAN
BY DEF NeedsLeadingSpace

LEMMA SucceededTyped ==
  ASSUME FieldTyped, Succeeded
  PROVE  lastEmitted' \in Nat /\ inserted' \in Seq(Nat) /\ sinkAt' = "idle"
<1>1. payload.text \in Nat
  BY DEF FieldTyped, Payload
<1> QED
  BY <1>1, AppendProperties DEF FieldTyped, Succeeded

LEMMA FieldTypedStep ==
  ASSUME FieldTyped, [DeliveryNext]_deliveryVars
  PROVE  FieldTyped'
<1> USE DEF TheUser, TheApp, TheSink
<1>1. CASE InsertBegins
  <2>1. payload' \in Payload /\ utterances' \in Nat
    BY <1>1, SpaceTyped DEF InsertBegins, FieldTyped, Payload
  <2> QED
    BY <1>1, <2>1 DEF InsertBegins, FieldTyped, SinkAt
<1>2. CASE SaveClipboard \/ StageText
  BY <1>2 DEF SaveClipboard, StageText, FieldTyped, SinkAt
<1>3. CASE PasteChord
  <2>1. chords' \in Seq(Payload)
    <3>1. chords' = chords \/ chords' = Append(chords, payload)
      BY <1>3 DEF PasteChord
    <3> QED
      BY <3>1, AppendProperties, SMTT(30) DEF FieldTyped
  <2> QED
    BY <1>3, <2>1 DEF PasteChord, FieldTyped, SinkAt
<1>4. CASE Restore
  <2>1. lastEmitted' \in Nat /\ inserted' \in Seq(Nat) /\ sinkAt' \in SinkAt
    BY <1>4, SucceededTyped DEF Restore, FieldTyped, SinkAt
  <2> QED
    BY <1>4, <2>1 DEF Restore, FieldTyped
<1>5. CASE TypeFallback
  <2>1. lastEmitted' \in Nat /\ inserted' \in Seq(Nat) /\ sinkAt' \in SinkAt
    BY <1>5, SucceededTyped DEF TypeFallback, FieldTyped, SinkAt
  <2>2. field' \in Seq(Payload)
    <3>1. field' = field \/ field' = Append(field, payload)
      BY <1>5 DEF TypeFallback
    <3>2. payload \in Payload /\ field \in Seq(Payload)
      BY DEF FieldTyped
    <3>3. CASE field' = field
      BY <3>2, <3>3
    <3>4. CASE field' = Append(field, payload)
      BY <3>2, <3>4, AppendProperties
    <3> QED
      BY <3>1, <3>3, <3>4
  <2> QED
    BY <1>5, <2>1, <2>2 DEF TypeFallback, FieldTyped
<1>6. CASE TargetPastes
  <2>1. Head(chords) \in Payload /\ Tail(chords) \in Seq(Payload)
    BY <1>6, HeadTailProperties DEF TargetPastes, FieldTyped
  <2>2. [text |-> 0, space |-> FALSE] \in Payload
    BY DEF Payload
  <2>3. field' \in Seq(Payload)
    BY <1>6, <2>1, <2>2, AppendProperties DEF TargetPastes, FieldTyped
  <2> QED
    BY <1>6, <2>1, <2>3 DEF TargetPastes, FieldTyped
<1>7. CASE UserCopies \/ UserMoves
  BY <1>7 DEF UserCopies, UserMoves, FieldTyped
<1>8. CASE ResolveDelivery \/ Deliver
  BY <1>8 DEF ResolveDelivery, Deliver, FieldTyped
<1>9. CASE UNCHANGED deliveryVars
  BY <1>9 DEF deliveryVars, FieldTyped
<1> QED
  BY <1>1, <1>2, <1>3, <1>4, <1>5, <1>6, <1>7, <1>8, <1>9 DEF DeliveryNext

LEMMA ReceivedStep ==
  ASSUME FieldTyped, Received, [DeliveryNext]_deliveryVars
  PROVE  Received'
<1> SUFFICES ASSUME ~doubled'
             PROVE  Spaced(field') /\ IF sinkAt' = "restoring" THEN Pasting' ELSE Settled'
  BY DEF Received
<1> USE DEF TheUser, TheApp, TheSink
<1>0. ~doubled
  BY DEF InsertBegins, SaveClipboard, StageText, PasteChord, Restore, TypeFallback, TargetPastes,
         UserCopies, UserMoves, ResolveDelivery, Deliver, DeliveryNext, deliveryVars
<1>1. Spaced(field) /\ IF sinkAt = "restoring" THEN Pasting ELSE Settled
  BY <1>0 DEF Received
<1>2. CASE InsertBegins
  <2>1. payload'.space <=> NeedsLeadingSpace(lastEmitted, payload'.text)
    BY <1>2 DEF InsertBegins
  <2>2. Settled /\ UNCHANGED <<field, chords, inserted, lastEmitted>> /\ sinkAt' # "restoring"
    BY <1>1, <1>2 DEF InsertBegins
  <2> QED
    BY <1>1, <2>1, <2>2 DEF Settled, Emitted
<1>3. CASE SaveClipboard \/ StageText
  <2>1. /\ Settled /\ UNCHANGED <<field, chords, inserted, lastEmitted, payload>>
        /\ sinkAt # "idle" /\ sinkAt' # "restoring"
    BY <1>1, <1>3 DEF SaveClipboard, StageText
  <2> QED
    BY <1>1, <2>1 DEF Settled, Emitted
<1>4. CASE PasteChord
  <2>1. Settled /\ UNCHANGED <<field, inserted, lastEmitted, payload>> /\ sinkAt # "idle"
    BY <1>1, <1>4 DEF PasteChord
  <2>2. CASE sinkAt' = "restoring"
    <3>1. chords' = <<payload>>
      BY <1>4, <2>1, <2>2 DEF PasteChord, Settled
    <3> QED
      BY <1>1, <2>1, <2>2, <3>1 DEF Settled, Pasting, Emitted
  <2>3. CASE sinkAt' # "restoring"
    <3>1. chords' = chords
      BY <1>4, <2>3 DEF PasteChord
    <3> QED
      BY <1>1, <2>1, <2>3, <3>1 DEF Settled, Emitted
  <2> QED
    BY <2>2, <2>3
<1>5. CASE Restore
  <2>1. chords = <<>> /\ UNCHANGED <<field, chords, payload>> /\ sinkAt' # "restoring"
    BY <1>5 DEF Restore, Succeeded
  <2>2. CASE sinkAt = "restoring"
    <3>1. Emitted = payload.text /\ Texts(field) = Append(inserted, payload.text)
      BY <1>1, <2>1, <2>2 DEF Pasting
    <3>2. inserted' = Append(inserted, payload.text) /\ lastEmitted' = payload.text /\ sinkAt' = "idle"
      BY <1>5, <2>2 DEF Restore, Succeeded
    <3> QED
      BY <1>1, <2>1, <3>1, <3>2 DEF Settled, Emitted
  <2>3. CASE sinkAt # "restoring"
    <3>1. UNCHANGED <<lastEmitted, inserted>> /\ sinkAt # "idle"
      BY <1>5, <2>3 DEF Restore
    <3> QED
      BY <1>1, <2>1, <2>3, <3>1 DEF Settled, Emitted
  <2> QED
    BY <2>2, <2>3
<1>6. CASE TypeFallback
  <2>1. Settled /\ (payload.space <=> NeedsLeadingSpace(lastEmitted, payload.text)) /\ chords' = <<>>
    BY <1>1, <1>6 DEF TypeFallback, Settled
  <2>2. CASE UNCHANGED <<field, lastEmitted, inserted>>
    BY <1>1, <1>6, <2>1, <2>2 DEF TypeFallback, Settled, Emitted
  <2>3. CASE field' = Append(field, payload) /\ Succeeded
    <3>1. Spaced(field') /\ Emitted' = payload.text /\ Texts(field') = Append(inserted, payload.text)
      BY <1>1, <2>1, <2>3, Follows DEF Settled
    <3> QED
      BY <2>1, <2>3, <3>1 DEF Succeeded, Settled
  <2> QED
    BY <1>6, <2>2, <2>3 DEF TypeFallback
<1>7. CASE TargetPastes
  <2>1. sinkAt = "restoring" /\ Pasting /\ chords = <<payload>>
    BY <1>1, <1>7 DEF TargetPastes, Settled, Pasting
  <2>2. Head(chords) = payload /\ Tail(chords) = <<>>
    BY <2>1
  <2>3. field' = Append(field, payload) /\ chords' = <<>>
    BY <1>7, <2>2 DEF TargetPastes
  <2>4. UNCHANGED <<payload, inserted, sinkAt>>
    BY <1>7 DEF TargetPastes
  <2>5. /\ Texts(field) = inserted /\ lastEmitted = Emitted
        /\ payload.space <=> NeedsLeadingSpace(lastEmitted, payload.text)
    BY <2>1 DEF Pasting
  <2>6. Spaced(field') /\ Emitted' = payload.text /\ Texts(field') = Append(inserted, payload.text)
    BY <1>1, <2>3, <2>5, Follows
  <2> QED
    BY <2>1, <2>3, <2>4, <2>6 DEF Pasting
<1>8. CASE UserCopies \/ UserMoves \/ ResolveDelivery \/ Deliver \/ UNCHANGED deliveryVars
  <2>1. UNCHANGED <<field, chords, inserted, lastEmitted, payload, sinkAt>>
    BY <1>8 DEF UserCopies, UserMoves, ResolveDelivery, Deliver, deliveryVars
  <2> QED
    BY <1>1, <2>1 DEF Settled, Pasting, Emitted
<1> QED
  BY <1>2, <1>3, <1>4, <1>5, <1>6, <1>7, <1>8 DEF DeliveryNext

(* The app: what it knew of the focus when it chose how to deliver.          *)
Chosen ==
  /\ Len(queried) = 1 \/ queried = <<>>
  /\ queried # <<>> => /\ queried[1].way = DeliveryFor(queried[1].detection, queried[1].found)
                       /\ queried[1].detection \in BOOLEAN
                       /\ moved \/ queried[1].found \in {Focus, "unknown"}
  /\ \A d \in astray : moved \/ ~d.detection \/ d.found = "unknown"
  /\ \A d \in handed : d.detection /\ d.found = "not editable"

LEMMA ChosenStep ==
  ASSUME Chosen, [DeliveryNext]_deliveryVars
  PROVE  Chosen'
<1> USE DEF TheUser, TheApp, TheSink
<1>1. CASE ResolveDelivery
  <2>1. PICK detection \in BOOLEAN, found \in {Focus, "unknown"} :
          queried' = <<[text |-> utterances', found |-> found, detection |-> detection,
                        way |-> DeliveryFor(detection, found)]>>
    BY <1>1 DEF ResolveDelivery
  <2>2. /\ Len(queried') = 1 /\ queried'[1].detection = detection /\ queried'[1].found = found
        /\ queried'[1].way = DeliveryFor(detection, found)
    BY <2>1
  <2>3. UNCHANGED <<editable, moved, astray, handed>>
    BY <1>1 DEF ResolveDelivery
  <2> QED
    BY <2>2, <2>3 DEF Chosen, Focus
<1>2. CASE Deliver
  <2>1. queried # <<>> /\ queried' = <<>> /\ UNCHANGED moved
    BY <1>2 DEF Deliver
  <2>2. CASE queried[1].way = "clipboard"
    <3>1. queried[1].detection /\ queried[1].found = "not editable"
      BY <2>1, <2>2 DEF Chosen, DeliveryFor
    <3>2. handed' = handed \cup {queried[1]} /\ astray' = astray
      BY <1>2, <2>2 DEF Deliver
    <3> QED
      BY <2>1, <3>1, <3>2 DEF Chosen
  <2>3. CASE queried[1].way # "clipboard"
    <3>1. handed' = handed /\ astray' = IF editable THEN astray ELSE astray \cup {queried[1]}
      BY <1>2, <2>3 DEF Deliver
    <3>2. ~queried[1].detection \/ queried[1].found # "not editable"
      BY <2>1, <2>3 DEF Chosen, DeliveryFor
    <3>3. ~editable => moved \/ queried[1].found = "not editable" \/ queried[1].found = "unknown"
      BY <2>1 DEF Chosen, Focus
    <3> QED
      BY <2>1, <3>1, <3>2, <3>3 DEF Chosen
  <2> QED
    BY <2>2, <2>3
<1>3. CASE UserMoves
  <2>1. UNCHANGED <<queried, astray, handed>> /\ moved' = (moved \/ queried # <<>>)
    BY <1>3 DEF UserMoves
  <2> QED
    BY <2>1 DEF Chosen
<1>4. CASE \/ InsertBegins \/ SaveClipboard \/ StageText \/ PasteChord \/ Restore \/ TypeFallback
           \/ TargetPastes \/ UserCopies \/ UNCHANGED deliveryVars
  <2>1. UNCHANGED <<queried, editable, moved, astray, handed>>
    BY <1>4 DEF InsertBegins, SaveClipboard, StageText, PasteChord, Restore, TypeFallback,
                TargetPastes, UserCopies, deliveryVars
  <2> QED
    BY <2>1 DEF Chosen, Focus
<1> QED
  BY <1>1, <1>2, <1>3, <1>4 DEF DeliveryNext

(***************************************************************************)
(* For any number of utterances: the target has what the sink reported,     *)
(* once, in order and spaced, but for the slow target and the chord that    *)
(* fails after its click (text_sink.rs, insert); and the app diverts a      *)
(* dictation or types it astray only as delivery_for says.                  *)
(***************************************************************************)
THEOREM DeliveredAsReported == DeliverySpec => []DeliveredOnce
<1>1. DeliveryInit => FieldTyped /\ Received /\ Chosen
  <2> SUFFICES ASSUME DeliveryInit PROVE FieldTyped /\ Received /\ Chosen
    OBVIOUS
  <2>1. payload \in Payload /\ payload.space = FALSE
    BY DEF DeliveryInit, Payload
  <2>2. FieldTyped
    BY <2>1, EmptySeq DEF DeliveryInit, FieldTyped, SinkAt
  <2>3. Texts(field) = inserted /\ Spaced(field) /\ lastEmitted = Emitted
    BY EmptySeq DEF DeliveryInit, Texts, Spaced, Emitted
  <2>4. Received
    BY <2>3 DEF DeliveryInit, Received, Settled
  <2>5. Chosen
    BY DEF DeliveryInit, Chosen
  <2> QED
    BY <2>2, <2>4, <2>5
<1>2. FieldTyped /\ Received /\ Chosen /\ [DeliveryNext]_deliveryVars
        => FieldTyped' /\ Received' /\ Chosen'
  BY FieldTypedStep, ReceivedStep, ChosenStep
<1>3. Received /\ Chosen => DeliveredOnce
  BY DEF Received, Chosen, DeliveredOnce, Settled, Spaced, Texts
<1> QED
  BY <1>1, <1>2, <1>3, PTL DEF DeliverySpec

-----------------------------------------------------------------------------
(* Delivery: the types.  What is on the clipboard is counted by the          *)
(* utterances and copies so far.                                            *)
OneWaits == queried = <<>> \/ \E d \in Dictation : queried = <<d>>

DeliveryTyped == DeliveryTypeOK /\ FieldTyped /\ OneWaits /\ payload.text \in 0..utterances

Contents == [of : {"user", "image", "nothing", "whspr"}, item : 0..(MaxCopies + MaxUtterances)]

LEMMA ContentsMade ==
  /\ Nothing \in Contents
  /\ \A n \in 0..MaxUtterances : Staged(n) \in Contents
  /\ \A n \in 0..MaxCopies : User(n) \in Contents /\ Image(n) \in Contents
<1>1. 0 \in 0..(MaxCopies + MaxUtterances)
  BY DeliveryBounds
<1>2. \A n \in 0..MaxUtterances : n \in 0..(MaxCopies + MaxUtterances)
  BY DeliveryBounds
<1>3. \A n \in 0..MaxCopies : n \in 0..(MaxCopies + MaxUtterances)
  BY DeliveryBounds
<1>4. QED
  BY <1>1, <1>2, <1>3 DEF Contents, Nothing, Staged, User, Image

\* An utterance begins, and any number up to the one in hand still is one of them.
LEMMA Counted ==
  ASSUME utterances \in 0..MaxUtterances, utterances < MaxUtterances
  PROVE  /\ utterances + 1 \in 1..MaxUtterances /\ utterances + 1 \in 0..MaxUtterances
         /\ utterances + 1 \in 0..(utterances + 1)
         /\ \A n \in 0..utterances : n \in 0..(utterances + 1)
BY DeliveryBounds

LEMMA DeliveryTypeStep ==
  ASSUME DeliveryTyped, [DeliveryNext]_deliveryVars
  PROVE  DeliveryTyped'
<1>1. FieldTyped'
  BY FieldTypedStep DEF DeliveryTyped
<1>2. /\ {clipboard, userCopied, original} \subseteq Contents
      /\ sinkAt' \in SinkAt
      /\ lastEmitted \in 0..utterances /\ utterances \in 0..MaxUtterances /\ copies \in 0..MaxCopies
      /\ handed \cup astray \cup ToSet(queried) \subseteq Dictation
      /\ {editable, disturbed, doubled, moved} \subseteq BOOLEAN
      /\ payload.text \in 0..utterances /\ OneWaits
  BY <1>1 DEF DeliveryTyped, DeliveryTypeOK, Contents, FieldTyped
<1>3. SUFFICES /\ {clipboard, userCopied, original}' \subseteq Contents
               /\ lastEmitted' \in 0..utterances' /\ utterances' \in 0..MaxUtterances /\ copies' \in 0..MaxCopies
               /\ handed' \cup astray' \cup ToSet(queried)' \subseteq Dictation
               /\ {editable, disturbed, doubled, moved}' \subseteq BOOLEAN
               /\ payload.text' \in 0..utterances' /\ OneWaits'
  BY <1>1, <1>2 DEF DeliveryTyped, DeliveryTypeOK, Contents, SinkAt
<1> USE DEF TheUser, TheApp, TheSink, OneWaits
<1>4. \A n \in 0..utterances : n \in 0..MaxUtterances
  BY <1>2, DeliveryBounds
<1>5. CASE InsertBegins
  <2>1. utterances' = utterances + 1 /\ utterances < MaxUtterances /\ payload'.text = utterances + 1
    BY <1>5 DEF InsertBegins
  <2>2. /\ utterances' \in 0..MaxUtterances /\ payload'.text \in 0..utterances'
        /\ \A n \in 0..utterances : n \in 0..utterances'
    BY <1>2, <2>1, Counted
  <2>3. UNCHANGED <<clipboard, userCopied, original, lastEmitted, copies, handed, astray, queried,
                    editable, disturbed, doubled, moved>>
    BY <1>5 DEF InsertBegins
  <2>4. QED
    BY <1>2, <2>2, <2>3
<1>6. CASE SaveClipboard
  BY <1>2, <1>6, ContentsMade DEF SaveClipboard
<1>7. CASE StageText
  <2>1. Staged(payload.text) \in Contents
    BY <1>2, <1>4, ContentsMade
  <2>2. QED
    BY <1>2, <1>7, <2>1 DEF StageText
<1>8. CASE PasteChord
  BY <1>2, <1>8 DEF PasteChord
<1>9. CASE Restore
  BY <1>2, <1>9 DEF Restore, Succeeded
<1>10. CASE TypeFallback
  BY <1>2, <1>10 DEF TypeFallback, Succeeded
<1>11. CASE TargetPastes
  BY <1>2, <1>11 DEF TargetPastes
<1>12. CASE UserCopies
  <2>1. copies' \in 0..MaxCopies
    BY <1>2, <1>12, DeliveryBounds DEF UserCopies
  <2>2. clipboard' \in Contents /\ userCopied' \in Contents
    BY <1>12, <2>1, ContentsMade DEF UserCopies
  <2>3. QED
    BY <1>2, <1>12, <2>1, <2>2 DEF UserCopies
<1>13. CASE UserMoves
  <2>1. copies' \in 0..MaxCopies
    BY <1>2, <1>13, DeliveryBounds DEF UserMoves
  <2>2. QED
    BY <1>2, <1>13, <2>1 DEF UserMoves
<1>14. CASE ResolveDelivery
  <2>1. PICK detection \in BOOLEAN, found \in {Focus, "unknown"} :
          queried' = <<[text |-> utterances', found |-> found, detection |-> detection,
                        way |-> DeliveryFor(detection, found)]>>
    BY <1>14 DEF ResolveDelivery
  <2>2. utterances' = utterances + 1 /\ utterances < MaxUtterances
    BY <1>14 DEF ResolveDelivery
  <2>3. /\ utterances' \in 1..MaxUtterances /\ utterances' \in 0..MaxUtterances
        /\ \A n \in 0..utterances : n \in 0..utterances'
    BY <1>2, <2>2, Counted
  <2>4. found \in {"editable", "not editable", "unknown"}
    BY <2>1 DEF Focus
  <2>5. DeliveryFor(detection, found) \in {"clipboard", "inject"}
    BY DEF DeliveryFor
  <2>6. [text |-> utterances', found |-> found, detection |-> detection,
         way |-> DeliveryFor(detection, found)] \in Dictation
    BY <2>1, <2>3, <2>4, <2>5 DEF Dictation
  <2>7. ToSet(queried') \subseteq Dictation /\ OneWaits'
    BY <2>1, <2>6 DEF ToSet
  <2>8. UNCHANGED <<clipboard, userCopied, original, lastEmitted, payload, copies, handed, astray,
                    editable, disturbed, doubled, moved>>
    BY <1>14 DEF ResolveDelivery
  <2>9. QED
    BY <1>2, <2>3, <2>7, <2>8
<1>15. CASE Deliver
  <2>1. queried # <<>> /\ queried' = <<>>
    BY <1>15 DEF Deliver
  <2>2. PICK d \in Dictation : queried = <<d>>
    BY <1>2, <2>1
  <2>3. ToSet(queried') \subseteq Dictation /\ OneWaits'
    BY <2>1 DEF ToSet
  <2>4. d \in Dictation /\ queried[1] = d
    BY <2>2
  <2>5. Staged(d.text) \in Contents
    <3>1. d.text \in 1..MaxUtterances
      BY <2>4 DEF Dictation
    <3>2. \A n \in 1..MaxUtterances : n \in 0..MaxUtterances
      BY DeliveryBounds
    <3>3. QED
      BY <3>1, <3>2, ContentsMade
  <2>6. /\ clipboard' \in Contents /\ userCopied' \in Contents
        /\ handed' \subseteq Dictation /\ astray' \subseteq Dictation
    BY <1>2, <1>15, <2>4, <2>5 DEF Deliver
  <2>7. UNCHANGED <<original, lastEmitted, utterances, payload, copies, editable, disturbed, doubled, moved>>
    BY <1>15 DEF Deliver
  <2>8. QED
    BY <1>2, <2>3, <2>6, <2>7
<1>16. CASE UNCHANGED deliveryVars
  BY <1>2, <1>16 DEF deliveryVars
<1>17. QED
  BY <1>5, <1>6, <1>7, <1>8, <1>9, <1>10, <1>11, <1>12, <1>13, <1>14, <1>15, <1>16 DEF DeliveryNext

\* text_sink.rs and worker/delivery.rs: every text, dictation and copy on its way is one
\* there was, for any number of them.
THEOREM DeliveryTypeCorrect == DeliverySpec => []DeliveryTypeOK
<1>1. DeliveryInit => DeliveryTyped
  <2> SUFFICES ASSUME DeliveryInit PROVE DeliveryTyped
    OBVIOUS
  <2>1. FieldTyped
    <3>1. payload \in Payload
      BY DEF DeliveryInit, Payload
    <3>2. QED
      BY <3>1, EmptySeq DEF DeliveryInit, FieldTyped, SinkAt
  <2>2. Nothing \in Contents /\ ToSet(<<>>) = {}
    BY ContentsMade DEF ToSet
  <2>3. 0 \in 0..0 /\ 0 \in 0..MaxUtterances /\ 0 \in 0..MaxCopies
    BY DeliveryBounds
  <2>4. QED
    BY <2>1, <2>2, <2>3 DEF DeliveryInit, DeliveryTyped, DeliveryTypeOK, Contents, OneWaits
<1>2. DeliveryTyped /\ [DeliveryNext]_deliveryVars => DeliveryTyped'
  BY DeliveryTypeStep
<1>3. DeliveryTyped => DeliveryTypeOK
  BY DEF DeliveryTyped
<1>4. QED
  BY <1>1, <1>2, <1>3, PTL DEF DeliverySpec

-----------------------------------------------------------------------------
(***************************************************************************)
(* The installer.                                                           *)
(***************************************************************************)
Jobs == Options \cup {"dir", "payload", "finish"}
InJobs(job) == \E k \in DOMAIN jobs : jobs[k] = job

\* What the rest of the plan will not do is done, and the payload comes before anything
\* that points to it.
PlanGoesOn ==
  /\ screen = "installing" =>
       /\ InJobs("dir") \/ installDir
       /\ InJobs("payload") \/ \A file \in PayloadFiles : installed[file] = "whole"
       /\ \A option \in promised : option \in entries \/ InJobs(option)
       /\ \A j, k \in DOMAIN jobs : jobs[j] = "payload" /\ jobs[k] \in Options => j < k
  /\ jobs # <<>> => screen = "installing"

InstallerInv == InstallerTypeOK /\ PlanGoesOn /\ InstalledWhole

\* The plan as far as some options have been considered.
PlanFits(plan, some) ==
  /\ plan \in Seq(Jobs) /\ Len(plan) >= 2 /\ plan[1] = "dir" /\ plan[2] = "payload"
  /\ \A k \in DOMAIN plan : k > 2 => plan[k] # "payload"
  /\ \A option \in some : \E k \in DOMAIN plan : plan[k] = option

LEMMA PlanGrows ==
  ASSUME NEW plan, NEW some, PlanFits(plan, some), NEW job \in Jobs \ {"payload"}
  PROVE  PlanFits(plan \o <<job>>, some \cup {job})
<1> DEFINE new == plan \o <<job>>
<1>1. /\ new \in Seq(Jobs) /\ Len(new) = Len(plan) + 1 /\ new[Len(plan) + 1] = job
      /\ \A k \in 1..Len(plan) : new[k] = plan[k]
  BY DEF PlanFits
<1>2. Len(plan) \in Nat /\ Len(plan) >= 2 /\ DOMAIN plan = 1..Len(plan) /\ DOMAIN new = 1..Len(plan) + 1
  BY <1>1 DEF PlanFits
<1> HIDE DEF new
<1>3. \A k \in DOMAIN new : k > 2 => new[k] # "payload"
  BY <1>1, <1>2 DEF PlanFits
<1>4. \A option \in some \cup {job} : \E k \in DOMAIN new : new[k] = option
  BY <1>1, <1>2 DEF PlanFits
<1>5. Len(new) >= 2 /\ new[1] = "dir" /\ new[2] = "payload"
  BY <1>1, <1>2 DEF PlanFits
<1>6. QED
  BY <1>1, <1>3, <1>4, <1>5 DEF PlanFits, new

LEMMA PlanConsiders ==
  ASSUME NEW plan, NEW some, PlanFits(plan, some), NEW option \in Options, NEW chosen
  PROVE  PlanFits(plan \o IfChosen(option, chosen), some \cup (chosen \cap {option}))
<1>1. CASE option \in chosen
  <2>1. IfChosen(option, chosen) = <<option>> /\ chosen \cap {option} = {option}
    BY <1>1 DEF IfChosen
  <2>2. option \in Jobs \ {"payload"}
    BY DEF Jobs, Options
  <2>3. QED
    BY <2>1, <2>2, PlanGrows
<1>2. CASE option \notin chosen
  <2>1. IfChosen(option, chosen) = <<>> /\ some \cup (chosen \cap {option}) = some
    BY <1>2 DEF IfChosen
  <2>2. plan \o <<>> = plan
    BY ConcatEmptySeq DEF PlanFits
  <2>3. QED
    BY <2>1, <2>2
<1>3. QED
  BY <1>1, <1>2

\* The plan of any options: the directory, the payload, then each option chosen.
LEMMA PlanOf ==
  ASSUME NEW chosen \in SUBSET Options
  PROVE  PlanFits(Plan(chosen), chosen)
<1> DEFINE first == <<"dir", "payload">>
           second == first \o IfChosen("start menu", chosen)
           third == second \o IfChosen("desktop", chosen)
           fourth == third \o IfChosen("autostart", chosen)
           start == chosen \cap {"start menu"}
           both == start \cup (chosen \cap {"desktop"})
           all == both \cup (chosen \cap {"autostart"})
<1>1. PlanFits(first, {})
  BY DEF PlanFits, Jobs
<1> HIDE DEF first
<1>2. PlanFits(second, start)
  <2>1. PlanFits(second, {} \cup (chosen \cap {"start menu"}))
    BY <1>1, PlanConsiders DEF Options
  <2>2. {} \cup (chosen \cap {"start menu"}) = start
    OBVIOUS
  <2>3. QED
    BY <2>1, <2>2
<1> HIDE DEF second, start
<1>3. PlanFits(third, both)
  BY <1>2, PlanConsiders DEF Options
<1> HIDE DEF third, both
<1>4. PlanFits(fourth, all)
  BY <1>3, PlanConsiders DEF Options
<1> HIDE DEF fourth
<1>5. PlanFits(fourth \o <<"finish">>, all \cup {"finish"})
  BY <1>4, PlanGrows DEF Jobs
<1>6. chosen \subseteq all \cup {"finish"}
  BY DEF all, both, start, Options
<1>7. Plan(chosen) = fourth \o <<"finish">>
  BY DEF Plan, fourth, third, second, first
<1>8. QED
  BY <1>5, <1>6, <1>7 DEF PlanFits

\* A job done in full.
LEMMA PerformedTypes ==
  ASSUME InstallerTypeOK, NEW job \in Jobs, Performed(job)
  PROVE  /\ installDir' \in BOOLEAN /\ entries' \subseteq Options
         /\ installed' \in [PayloadFiles -> {"absent", "cut", "whole"}]
         /\ \A file \in PayloadFiles : installed'[file] = IF job = "payload" THEN "whole" ELSE installed[file]
<1>1. installDir' \in BOOLEAN
  BY DEF Performed, InstallerTypeOK
<1>2. entries' \subseteq Options
  BY DEF Performed, InstallerTypeOK
<1>3. installed' = [file \in PayloadFiles |-> IF job = "payload" THEN "whole" ELSE installed[file]]
  BY DEF Performed
<1>4. \A file \in PayloadFiles : installed[file] \in {"absent", "cut", "whole"}
  BY DEF InstallerTypeOK
<1>5. QED
  BY <1>1, <1>2, <1>3, <1>4

\* A job done in part spoils no more than the payload, and only where it is the payload's.
LEMMA PerformedPartlyTypes ==
  ASSUME InstallerTypeOK, NEW job \in Jobs, PerformedPartly(job)
  PROVE  /\ installDir' \in BOOLEAN /\ entries' \subseteq Options
         /\ installed' \in [PayloadFiles -> {"absent", "cut", "whole"}]
         /\ \A file \in PayloadFiles : installed'[file] = "absent" => installed[file] = "absent"
         /\ entries' \subseteq entries \cup ({job} \cap Options)
         /\ job # "payload" => \A file \in PayloadFiles : installed'[file] = installed[file]
<1>1. CASE job # "payload" /\ Performed(job)
  <2>1. entries' = entries \cup ({job} \cap Options)
    BY <1>1 DEF Performed
  <2>2. QED
    BY <1>1, <2>1, PerformedTypes
<1>2. CASE ~ (job # "payload" /\ Performed(job))
  <2>1. PICK whole \in SUBSET PayloadFiles, cut \in SUBSET PayloadFiles :
          /\ job # "payload" => whole \cup cut = {}
          /\ installed' = [file \in PayloadFiles |->
               IF file \in whole THEN "whole" ELSE IF file \in cut THEN "cut" ELSE installed[file]]
    BY <1>2 DEF PerformedPartly
  <2>2. UNCHANGED <<installDir, entries>>
    BY <1>2 DEF PerformedPartly
  <2>3. \A file \in PayloadFiles : installed[file] \in {"absent", "cut", "whole"}
    BY DEF InstallerTypeOK
  <2>4. \A file \in PayloadFiles :
          installed'[file] = IF file \in whole THEN "whole" ELSE IF file \in cut THEN "cut" ELSE installed[file]
    BY <2>1
  <2>5. installed' \in [PayloadFiles -> {"absent", "cut", "whole"}]
    BY <2>1, <2>3
  <2>6. job # "payload" => \A file \in PayloadFiles : installed'[file] = installed[file]
    BY <2>1, <2>4
  <2>7. \A file \in PayloadFiles : installed'[file] = "absent" => installed[file] = "absent"
    BY <2>4
  <2>8. QED
    BY <2>2, <2>5, <2>6, <2>7 DEF InstallerTypeOK
<1>3. QED
  BY <1>1, <1>2

LEMMA JobHead ==
  ASSUME InstallerTypeOK, jobs # <<>>
  PROVE  /\ Head(jobs) \in Jobs /\ Head(jobs) = jobs[1] /\ 1 \in DOMAIN jobs
         /\ Tail(jobs) \in Seq(Jobs)
         /\ \A k \in DOMAIN Tail(jobs) : k \in Nat /\ k + 1 \in DOMAIN jobs /\ Tail(jobs)[k] = jobs[k + 1]
         /\ \A k \in DOMAIN jobs : k # 1 => k - 1 \in DOMAIN Tail(jobs) /\ Tail(jobs)[k - 1] = jobs[k]
<1>1. DOMAIN StartProgress = Jobs
  BY DEF StartProgress, Jobs
<1>2. jobs \in Seq(Jobs)
  BY <1>1 DEF InstallerTypeOK
<1>3. QED
  BY <1>2

LEMMA ProgressBounded == \A job \in Jobs : StartProgress[job] \in 0..100
<1>1. StartProgress["dir"] = 5 /\ StartProgress["payload"] = 18 /\ StartProgress["finish"] = 100
  BY DEF StartProgress, Options
<1>2. /\ StartProgress["start menu"] = 30 /\ StartProgress["desktop"] = 42
      /\ StartProgress["autostart"] = 60
  BY DEF StartProgress, Options
<1>3. ASSUME NEW job \in Jobs PROVE StartProgress[job] \in {5, 18, 100, 30, 42, 60}
  <2>1. job \in {"dir", "payload", "finish", "start menu", "desktop", "autostart"}
    BY DEF Jobs, Options
  <2>2. CASE job \in {"dir", "payload", "finish"}
    BY <1>1, <2>2
  <2>3. CASE job \in {"start menu", "desktop", "autostart"}
    BY <1>2, <2>3
  <2>4. QED
    BY <2>1, <2>2, <2>3
<1>4. {5, 18, 100, 30, 42, 60} \subseteq 0..100
  OBVIOUS
<1>5. QED
  BY <1>3, <1>4

LEMMA InstallerTypeStep ==
  ASSUME InstallerTypeOK, [InstallerNext]_installerVars
  PROVE  InstallerTypeOK'
<1> USE DEF InstallerTypeOK
<1>1. DOMAIN StartProgress = Jobs
  BY DEF StartProgress, Jobs
<1>2. ASSUME NEW option \in Options, ToggleOption(option) PROVE InstallerTypeOK'
  BY <1>2 DEF ToggleOption
<1>3. CASE StartInstall
  <2>1. PlanFits(jobs', options)
    BY <1>3, PlanOf DEF StartInstall
  <2>2. jobs' \in Seq(Jobs) /\ Head(jobs') \in Jobs
    <3>1. jobs' \in Seq(Jobs) /\ Len(jobs') >= 2 /\ jobs'[1] = "dir"
      BY <2>1 DEF PlanFits
    <3>2. QED
      BY <3>1 DEF Jobs
  <2>3. bar' \in 0..100
    BY <1>3, <2>2, ProgressBounded DEF StartInstall
  <2>4. QED
    BY <1>1, <1>3, <2>2, <2>3 DEF StartInstall
<1>4. CASE InstallStepped
  <2>1. Head(jobs) \in Jobs /\ jobs' = Tail(jobs) /\ jobs' \in Seq(Jobs)
    BY <1>4, JobHead DEF InstallStepped
  <2>2. bar' \in 0..100
    <3>1. CASE jobs' = <<>>
      <4>1. bar' = 100
        BY <1>4, <3>1, Zenon DEF InstallStepped
      <4>2. QED
        BY <4>1
    <3>2. CASE jobs' # <<>>
      <4>1. Head(jobs') \in Jobs
        BY <2>1, <3>2
      <4>2. QED
        BY <1>4, <3>2, <4>1, ProgressBounded DEF InstallStepped
    <3>3. QED
      BY <3>1, <3>2
  <2>3. /\ installDir' \in BOOLEAN /\ entries' \subseteq Options
        /\ installed' \in [PayloadFiles -> {"absent", "cut", "whole"}]
    BY <1>4, <2>1, PerformedTypes DEF InstallStepped
  <2>4. QED
    BY <1>1, <1>4, <2>1, <2>2, <2>3 DEF InstallStepped
<1>5. CASE InstallFails
  <2>1. Head(jobs) \in Jobs
    BY <1>5, JobHead DEF InstallFails
  <2>2. /\ installDir' \in BOOLEAN /\ entries' \subseteq Options
        /\ installed' \in [PayloadFiles -> {"absent", "cut", "whole"}]
    BY <1>5, <2>1, PerformedPartlyTypes DEF InstallFails
  <2>3. QED
    BY <1>1, <1>5, <2>2, EmptySeq DEF InstallFails
<1>6. CASE InstallSucceeded
  BY <1>6 DEF InstallSucceeded
<1>7. CASE Retry
  BY <1>7 DEF Retry, DefaultOptions, Options
<1>8. CASE CloseInstaller
  <2>1. CASE jobs = <<>>
    BY <1>1, <1>8, <2>1, EmptySeq DEF CloseInstaller
  <2>2. CASE jobs # <<>>
    <3>1. /\ installDir' \in BOOLEAN /\ entries' \subseteq Options
          /\ installed' \in [PayloadFiles -> {"absent", "cut", "whole"}]
      BY <1>8, <2>2, JobHead, PerformedPartlyTypes DEF CloseInstaller
    <3>2. QED
      BY <1>1, <1>8, <3>1, EmptySeq DEF CloseInstaller
  <2>3. QED
    BY <2>1, <2>2
<1>9. CASE AutostartChangedElsewhere
  BY <1>9 DEF AutostartChangedElsewhere, Options
<1>10. CASE UNCHANGED installerVars
  BY <1>10 DEF installerVars
<1>11. QED
  BY <1>2, <1>3, <1>4, <1>5, <1>6, <1>7, <1>8, <1>9, <1>10 DEF InstallerNext

LEMMA InstallerStep ==
  ASSUME InstallerInv, [InstallerNext]_installerVars
  PROVE  PlanGoesOn' /\ InstalledWhole'
<1> USE DEF InstallerInv, PlanGoesOn, InstalledWhole
<1>1. "exe" \in PayloadFiles
  BY DEF PayloadFiles
<1>2. ASSUME NEW option \in Options, ToggleOption(option) PROVE PlanGoesOn' /\ InstalledWhole'
  BY <1>2 DEF ToggleOption, InJobs
<1>3. CASE StartInstall
  <2>1. PlanFits(jobs', options)
    BY <1>3, PlanOf DEF StartInstall, InstallerTypeOK
  <2>2. 1 \in DOMAIN jobs' /\ jobs'[1] = "dir" /\ 2 \in DOMAIN jobs' /\ jobs'[2] = "payload"
    BY <2>1 DEF PlanFits
  <2>3. \A j, k \in DOMAIN jobs' : jobs'[j] = "payload" /\ jobs'[k] \in Options => j < k
    <3>1. ASSUME NEW j \in DOMAIN jobs', NEW k \in DOMAIN jobs', jobs'[j] = "payload", jobs'[k] \in Options
          PROVE  j < k
      <4>1. j \in Nat /\ k \in Nat /\ j # 0 /\ k # 0
        BY <2>1 DEF PlanFits
      <4>2. j = 2
        BY <2>1, <2>2, <3>1, <4>1 DEF PlanFits
      <4>3. k # 1 /\ k # 2
        BY <2>2, <3>1 DEF Options
      <4>4. QED
        BY <4>1, <4>2, <4>3
    <3>2. QED
      BY <3>1
  <2>4. \A option \in options : \E k \in DOMAIN jobs' : jobs'[k] = option
    BY <2>1 DEF PlanFits
  <2>5. screen' = "installing" /\ promised' = options /\ UNCHANGED <<installDir, installed, entries>>
    BY <1>3 DEF StartInstall
  <2>6. QED
    BY <2>2, <2>3, <2>4, <2>5 DEF InJobs
<1>4. CASE InstallStepped
  <2> DEFINE job == Head(jobs)
  <2>1. /\ screen = "installing" /\ jobs' = Tail(jobs) /\ UNCHANGED <<screen, promised>>
        /\ installDir' = (installDir \/ job = "dir") /\ entries' = entries \cup ({job} \cap Options)
    BY <1>4 DEF InstallStepped, Performed
  <2>2. /\ job \in Jobs /\ job = jobs[1] /\ 1 \in DOMAIN jobs
        /\ \A k \in DOMAIN jobs' : k \in Nat /\ k + 1 \in DOMAIN jobs /\ jobs'[k] = jobs[k + 1]
        /\ \A k \in DOMAIN jobs : k # 1 => k - 1 \in DOMAIN jobs' /\ jobs'[k - 1] = jobs[k]
    BY <1>4, <2>1, JobHead DEF InstallStepped
  <2>3. \A file \in PayloadFiles : installed'[file] = IF job = "payload" THEN "whole" ELSE installed[file]
    BY <1>4, <2>2, PerformedTypes DEF InstallStepped
  <2> HIDE DEF job
  <2>4. \A any : InJobs(any) => any = job \/ \E k \in DOMAIN jobs' : jobs'[k] = any
    BY <2>2 DEF InJobs
  <2>5. (\E k \in DOMAIN jobs' : jobs'[k] = "dir") \/ installDir'
    BY <2>1, <2>4
  <2>6. (\E k \in DOMAIN jobs' : jobs'[k] = "payload") \/ \A file \in PayloadFiles : installed'[file] = "whole"
    BY <2>1, <2>3, <2>4
  <2>7. \A option \in promised : option \in entries' \/ \E k \in DOMAIN jobs' : jobs'[k] = option
    BY <2>1, <2>4 DEF InstallerTypeOK
  <2>8. \A j, k \in DOMAIN jobs' : jobs'[j] = "payload" /\ jobs'[k] \in Options => j < k
    <3>1. ASSUME NEW j \in DOMAIN jobs', NEW k \in DOMAIN jobs', jobs'[j] = "payload", jobs'[k] \in Options
          PROVE  j < k
      <4>1. j + 1 < k + 1 /\ j \in Nat /\ k \in Nat
        BY <2>1, <2>2, <3>1
      <4>2. QED
        BY <4>1
    <3>2. QED
      BY <3>1
  <2>9. job \in Options => \A file \in PayloadFiles : installed[file] = "whole"
    <3>1. ASSUME job \in Options, InJobs("payload") PROVE FALSE
      <4>1. PICK j \in DOMAIN jobs : jobs[j] = "payload"
        BY <3>1 DEF InJobs
      <4>2. j < 1 /\ j \in Nat /\ j # 0
        BY <2>1, <2>2, <3>1, <4>1 DEF InstallerTypeOK
      <4>3. QED
        BY <4>2
    <3>2. QED
      BY <2>1, <3>1
  <2>10. entries' # {} => installed'["exe"] # "absent"
    BY <1>1, <2>1, <2>3, <2>9
  <2>11. QED
    BY <2>1, <2>5, <2>6, <2>7, <2>8, <2>10 DEF InJobs
<1>5. CASE jobs # <<>> /\ (InstallFails \/ CloseInstaller)
  <2> DEFINE job == Head(jobs)
  <2>1. /\ screen = "installing" /\ screen' \in {"failure", "closed"} /\ jobs' = <<>> /\ PerformedPartly(job)
    BY <1>5 DEF InstallFails, CloseInstaller
  <2>2. job \in Jobs /\ job = jobs[1] /\ 1 \in DOMAIN jobs
    BY <1>5, JobHead
  <2>3. /\ installed'["exe"] = "absent" => installed["exe"] = "absent"
        /\ entries' \subseteq entries \cup ({job} \cap Options)
    BY <1>1, <2>1, <2>2, PerformedPartlyTypes
  <2> HIDE DEF job
  <2>4. job \in Options => installed["exe"] = "whole"
    <3>1. ASSUME job \in Options, InJobs("payload") PROVE FALSE
      <4>1. PICK j \in DOMAIN jobs : jobs[j] = "payload"
        BY <3>1 DEF InJobs
      <4>2. j < 1 /\ j \in Nat /\ j # 0
        BY <2>1, <2>2, <3>1, <4>1 DEF InstallerTypeOK
      <4>3. QED
        BY <4>2
    <3>2. QED
      BY <1>1, <2>1, <3>1
  <2>5. QED
    BY <2>1, <2>3, <2>4
<1>6. CASE InstallSucceeded
  <2>1. ~InJobs("dir") /\ ~InJobs("payload") /\ \A option \in promised : ~InJobs(option)
    BY <1>6 DEF InstallSucceeded, InJobs
  <2>2. QED
    BY <1>6, <2>1 DEF InstallSucceeded
<1>7. CASE Retry
  BY <1>7 DEF Retry
<1>8. CASE CloseInstaller /\ jobs = <<>>
  BY <1>8 DEF CloseInstaller
<1>9. CASE AutostartChangedElsewhere
  <2>1. UNCHANGED <<screen, jobs, installDir, installed>>
    BY <1>9 DEF AutostartChangedElsewhere
  <2>2. \/ installed["exe"] = "whole" /\ entries' = entries \cup {"autostart"} /\ UNCHANGED promised
        \/ entries' = entries \ {"autostart"} /\ promised' = promised \ {"autostart"}
    BY <1>9 DEF AutostartChangedElsewhere
  <2>3. (promised \subseteq entries => promised' \subseteq entries')
        /\ \A option \in promised' : option \in promised /\ (option \in entries => option \in entries')
    BY <2>2
  <2>4. entries' # {} => installed["exe"] # "absent"
    BY <2>2
  <2>5. QED
    BY <2>1, <2>3, <2>4 DEF InJobs
<1>10. CASE UNCHANGED installerVars
  BY <1>10 DEF installerVars, InJobs
<1>11. QED
  BY <1>2, <1>3, <1>4, <1>5, <1>6, <1>7, <1>8, <1>9, <1>10 DEF InstallerNext, InstallFails

LEMMA InstallerInvInit == InstallerInit => InstallerInv
<1> SUFFICES ASSUME InstallerInit PROVE InstallerInv
  OBVIOUS
<1>1. jobs \in Seq(DOMAIN StartProgress) /\ bar \in 0..100
  BY EmptySeq DEF InstallerInit
<1>2. installed \in [PayloadFiles -> {"absent", "cut", "whole"}]
  BY DEF InstallerInit
<1>3. InstallerTypeOK
  BY <1>1, <1>2 DEF InstallerInit, InstallerTypeOK, DefaultOptions, Options
<1>4. PlanGoesOn /\ InstalledWhole
  BY DEF InstallerInit, PlanGoesOn, InstalledWhole
<1>5. QED
  BY <1>3, <1>4 DEF InstallerInv

LEMMA InstallerInvStep == InstallerInv /\ [InstallerNext]_installerVars => InstallerInv'
BY InstallerTypeStep, InstallerStep DEF InstallerInv

\* Whatever job fails, is cut off, or is undone from elsewhere, and however often the
\* installer is run: what it shows as installed is there, and nothing points nowhere.
THEOREM InstallIsWhole == InstallerSpec => [](InstallerTypeOK /\ InstalledWhole)
<1>1. InstallerInv => InstallerTypeOK /\ InstalledWhole
  BY DEF InstallerInv
<1>2. QED
  BY <1>1, InstallerInvInit, InstallerInvStep, PTL DEF InstallerSpec

(***************************************************************************)
(* Uninstalling, and launch at login.                                       *)
(***************************************************************************)
InSteps(step) == \E k \in DOMAIN leftToRemove : leftToRemove[k] = step

\* The setting of the file is that of the app, as far as it is drifted from the entry.
EntryAsSet == ~drifted => (Loaded.autostart <=> loginEntry) /\ AutostartAgrees

\* A clean uninstall has done the steps that are not left.
StepsDone == clean =>
  /\ appConfig = NoConfig /\ KnownBackends \cup FixedNames \subseteq keyNames
  /\ InSteps("autostart") \/ ~loginEntry
  /\ InSteps("secrets") \/ keyEntries \cap keyNames = {}
  /\ InSteps("config") \/ configToml = NoConfig
  /\ InSteps("data") \/ ~dataDir

UninstallInv == UninstallTypeOK /\ EntryAsSet /\ StepsDone

LEMMA LoadedTyped ==
  ASSUME UninstallTypeOK
  PROVE  Loaded \in Config /\ Loaded.autostart \in BOOLEAN /\ Loaded.apiKeys \subseteq Backends
<1>1. Loaded \in Config
  BY DEF UninstallTypeOK, Loaded, Loads, DefaultConfig, Config
<1>2. QED
  BY <1>1 DEF Config

\* Saving: the file is as before, as it should be, or torn; where it says something else
\* of launch at login than the app does, they have parted.
LEMMA Saved ==
  ASSUME UninstallTypeOK, NEW toSave \in Config, SaveSettings(toSave)
  PROVE  /\ configToml' \in Config \cup {NoConfig, Torn} /\ drifted' \in BOOLEAN
         /\ ~drifted' => ~drifted /\ Loads(configToml').autostart = toSave.autostart
BY DEF UninstallTypeOK, SaveSettings

\* Booting: the app takes what is in the file, with or without the keys in it.
LEMMA Booted ==
  ASSUME UninstallTypeOK, BootApp
  PROVE  /\ appConfig' \in Config /\ appConfig'.autostart = Loaded.autostart
         /\ configToml' \in Config \cup {NoConfig, Torn} /\ drifted' \in BOOLEAN
         /\ ~drifted' => ~drifted /\ Loads(configToml').autostart = Loaded.autostart
         /\ keyEntries' \subseteq SecretNames
<1>1. Loaded \in Config /\ Loaded.apiKeys \subseteq Backends
  BY LoadedTyped
<1>2. CASE /\ appConfig' = [Loaded EXCEPT !.apiKeys = {}]
           /\ keyEntries' = keyEntries \cup Loaded.apiKeys
           /\ SaveSettings(appConfig')
  <2>1. appConfig' \in Config /\ appConfig'.autostart = Loaded.autostart
    BY <1>1, <1>2 DEF Config
  <2>2. keyEntries' \subseteq SecretNames
    BY <1>1, <1>2 DEF UninstallTypeOK, SecretNames
  <2>3. QED
    BY <1>2, <2>1, <2>2, Saved
<1>3. ASSUME appConfig' = Loaded, NEW keysMoved \in SUBSET Loaded.apiKeys,
             keyEntries' = keyEntries \cup keysMoved
      PROVE  appConfig' \in Config /\ appConfig'.autostart = Loaded.autostart /\ keyEntries' \subseteq SecretNames
  BY <1>1, <1>3 DEF UninstallTypeOK, SecretNames
<1>4. CASE configToml = NoConfig /\ SaveSettings(DefaultConfig)
  <2>1. DefaultConfig \in Config /\ Loaded = DefaultConfig
    BY <1>4 DEF DefaultConfig, Config, Loaded, Loads
  <2>2. /\ configToml' \in Config \cup {NoConfig, Torn} /\ drifted' \in BOOLEAN
        /\ ~drifted' => ~drifted /\ Loads(configToml').autostart = Loaded.autostart
    BY <1>4, <2>1, Saved
  <2>3. QED
    BY <1>2, <1>3, <2>2 DEF BootApp
<1>5. CASE UNCHANGED <<configToml, drifted>>
  <2>1. /\ configToml' \in Config \cup {NoConfig, Torn} /\ drifted' \in BOOLEAN
        /\ ~drifted' => ~drifted /\ Loads(configToml').autostart = Loaded.autostart
    BY <1>5 DEF UninstallTypeOK, Loaded
  <2>2. QED
    BY <1>2, <1>3, <2>1 DEF BootApp
<1>6. QED
  BY <1>2, <1>4, <1>5 DEF BootApp

LEMMA UninstallTypeStep ==
  ASSUME UninstallTypeOK, [UninstallNext]_uninstallVars
  PROVE  UninstallTypeOK'
<1> USE DEF UninstallTypeOK
<1>1. CASE BootApp
  <2>1. UNCHANGED <<dataDir, loginEntry, leftToRemove, keyNames>> /\ clean' = FALSE
    BY <1>1 DEF BootApp
  <2>2. QED
    BY <1>1, <2>1, Booted
<1>2. CASE CloseApp \/ PersistConfig \/ WriteData \/ InstallerWritesEntry
  <2>1. PersistConfig => configToml' \in Config \cup {NoConfig, Torn} /\ drifted' \in BOOLEAN
    BY Saved DEF PersistConfig
  <2>2. QED
    BY <1>2, <2>1 DEF CloseApp, PersistConfig, WriteData, InstallerWritesEntry
<1>3. CASE AutostartToggled
  <2>1. appConfig' \in Config /\ appConfig'.autostart \in BOOLEAN
    BY <1>3 DEF AutostartToggled, Config
  <2>2. drifted' \in BOOLEAN /\ loginEntry' \in BOOLEAN
    BY <1>3, <2>1 DEF AutostartToggled
  <2>3. QED
    BY <1>3, <2>1, <2>2 DEF AutostartToggled
<1>4. ASSUME NEW name \in KnownBackends \cup FixedNames, SaveKey(name) PROVE UninstallTypeOK'
  BY <1>4 DEF SaveKey, Backends, SecretNames
<1>5. ASSUME NEW backend \in Backends, EditConfig(backend) PROVE UninstallTypeOK'
  <2>1. configToml' \in Config
    <3>1. Loaded \in Config
      BY LoadedTyped
    <3>2. /\ [Loaded EXCEPT !.apiKeys = @ \cup {backend}] \in Config
          /\ [Loaded EXCEPT !.autostart = ~@] \in Config
      BY <3>1 DEF Config
    <3>3. QED
      BY <1>5, <3>2, Zenon DEF EditConfig
  <2>2. drifted' \in BOOLEAN
    BY <1>5 DEF EditConfig
  <2>3. QED
    BY <1>5, <2>1, <2>2 DEF EditConfig
<1>6. CASE UninstallStarts
  <2>1. leftToRemove' \in Seq({"autostart", "secrets", "config", "data"})
    BY <1>6 DEF UninstallStarts, Steps
  <2>2. keyNames' \subseteq SecretNames /\ configToml' \in Config \cup {Torn}
    BY <1>6, LoadedTyped DEF UninstallStarts, WhsprSecretNames, Backends, SecretNames, DefaultConfig, Config
  <2>3. QED
    BY <1>6, <2>1, <2>2 DEF UninstallStarts
<1>7. CASE RemoveStep
  <2>1. leftToRemove' \in Seq({"autostart", "secrets", "config", "data"})
    BY <1>7, HeadTailProperties DEF RemoveStep
  <2>2. configToml' \in {NoConfig, configToml} /\ keyEntries' \subseteq keyEntries
    BY <1>7 DEF RemoveStep
  <2>3. loginEntry' \in BOOLEAN /\ dataDir' \in BOOLEAN /\ drifted' \in BOOLEAN
    BY <1>7 DEF RemoveStep
  <2>4. QED
    BY <1>7, <2>1, <2>2, <2>3 DEF RemoveStep
<1>8. CASE RemoveStepFails
  <2>1. leftToRemove' \in Seq({"autostart", "secrets", "config", "data"})
    BY <1>8, HeadTailProperties DEF RemoveStepFails
  <2>2. keyEntries' \subseteq keyEntries
    BY <1>8 DEF RemoveStepFails
  <2>3. QED
    BY <1>8, <2>1, <2>2 DEF RemoveStepFails
<1>9. CASE UNCHANGED uninstallVars
  BY <1>9 DEF uninstallVars
<1>10. QED
  BY <1>1, <1>2, <1>3, <1>4, <1>5, <1>6, <1>7, <1>8, <1>9 DEF UninstallNext

\* A step comes off the list.
LEMMA StepOff ==
  ASSUME UninstallTypeOK, leftToRemove # <<>>, leftToRemove' = Tail(leftToRemove)
  PROVE  \A step : InSteps(step) => step = Head(leftToRemove) \/ InSteps(step)'
<1>1. /\ Head(leftToRemove) = leftToRemove[1]
      /\ \A k \in DOMAIN leftToRemove : k # 1 =>
           k - 1 \in DOMAIN Tail(leftToRemove) /\ Tail(leftToRemove)[k - 1] = leftToRemove[k]
  BY DEF UninstallTypeOK
<1>2. ASSUME NEW step, NEW k \in DOMAIN leftToRemove, leftToRemove[k] = step,
             step # Head(leftToRemove)
      PROVE  InSteps(step)'
  <2>1. k # 1
    BY <1>1, <1>2
  <2>2. k - 1 \in DOMAIN leftToRemove' /\ leftToRemove'[k - 1] = step
    BY <1>1, <1>2, <2>1
  <2>3. QED
    BY <2>2 DEF InSteps
<1>3. QED
  BY <1>2 DEF InSteps

LEMMA UninstallStep ==
  ASSUME UninstallInv, [UninstallNext]_uninstallVars
  PROVE  EntryAsSet' /\ StepsDone'
<1> USE NoConfigAssumption DEF UninstallInv, EntryAsSet, StepsDone, AutostartAgrees
<1>1. CASE BootApp
  <2>1. UNCHANGED loginEntry /\ ~clean'
    BY <1>1 DEF BootApp
  <2>2. appConfig' # NoConfig /\ appConfig'.autostart = Loaded.autostart
        /\ (~drifted' => ~drifted /\ Loads(configToml').autostart = Loaded.autostart)
    BY <1>1, Booted
  <2>3. QED
    BY <2>1, <2>2 DEF Loaded
<1>2. CASE CloseApp
  BY <1>2 DEF CloseApp, Loaded, InSteps
<1>3. CASE WriteData
  BY <1>3 DEF WriteData, Loaded
<1>4. CASE PersistConfig
  <2>1. UNCHANGED <<appConfig, loginEntry, clean>> /\ appConfig # NoConfig /\ appConfig \in Config
    BY <1>4 DEF PersistConfig, UninstallTypeOK
  <2>2. ~drifted' => ~drifted /\ Loads(configToml').autostart = appConfig.autostart
    BY <1>4, <2>1, Saved DEF PersistConfig
  <2>3. QED
    BY <2>1, <2>2 DEF Loaded
<1>5. CASE AutostartToggled
  <2>1. appConfig # NoConfig /\ appConfig' \in Config
    BY <1>5 DEF AutostartToggled, UninstallTypeOK, Config
  <2>2. ~drifted' => loginEntry' = appConfig'.autostart
                     /\ Loads(configToml').autostart = appConfig'.autostart
    BY <1>5 DEF AutostartToggled
  <2>3. UNCHANGED clean /\ ~clean
    BY <1>5, <2>1 DEF AutostartToggled
  <2>4. QED
    BY <2>1, <2>2, <2>3 DEF Loaded
<1>6. ASSUME NEW name \in KnownBackends \cup FixedNames, SaveKey(name) PROVE EntryAsSet' /\ StepsDone'
  BY <1>6 DEF SaveKey, Loaded
<1>7. ASSUME NEW backend \in Backends, EditConfig(backend) PROVE EntryAsSet' /\ StepsDone'
  <2>1. configToml # NoConfig /\ configToml' \in Config
    <3>1. Loaded \in Config /\ configToml # NoConfig
      BY <1>7, LoadedTyped DEF EditConfig
    <3>2. /\ [Loaded EXCEPT !.apiKeys = @ \cup {backend}] \in Config
          /\ [Loaded EXCEPT !.autostart = ~@] \in Config
      BY <3>1 DEF Config
    <3>3. QED
      BY <1>7, <3>1, <3>2, Zenon DEF EditConfig
  <2>2. ~drifted' => ~drifted /\ Loads(configToml').autostart = Loaded.autostart
    <3>1. [Loaded EXCEPT !.apiKeys = @ \cup {backend}].autostart = Loaded.autostart
      BY LoadedTyped DEF Config
    <3>2. configToml' \notin {NoConfig, Torn}
      BY <2>1
    <3>3. ~drifted' => ~drifted /\ configToml' = [Loaded EXCEPT !.apiKeys = @ \cup {backend}]
      BY <1>7 DEF EditConfig
    <3>4. QED
      BY <3>1, <3>2, <3>3 DEF Loads
  <2>3. UNCHANGED <<appConfig, dataDir, loginEntry, keyEntries, leftToRemove, keyNames, clean>>
    BY <1>7 DEF EditConfig
  <2>4. EntryAsSet'
    BY <2>1, <2>2, <2>3 DEF Loaded
  <2>5. StepsDone'
    BY <2>1, <2>3 DEF InSteps
  <2>6. QED
    BY <2>4, <2>5
<1>8. CASE InstallerWritesEntry
  BY <1>8 DEF InstallerWritesEntry
<1>9. CASE UninstallStarts
  <2>1. UNCHANGED <<appConfig, loginEntry, drifted>>
    BY <1>9 DEF UninstallStarts
  <2>2. Loaded' = Loaded
    BY <1>9 DEF UninstallStarts, Loaded, Loads, DefaultConfig, Config
  <2>3. \A step \in {"autostart", "secrets", "config", "data"} : InSteps(step)'
    BY <1>9 DEF UninstallStarts, Steps, InSteps
  <2>4. /\ KnownBackends \cup FixedNames \subseteq keyNames'
        /\ clean' => appConfig' = NoConfig
    BY <1>9, <2>1 DEF UninstallStarts, WhsprSecretNames
  <2>5. QED
    BY <2>1, <2>2, <2>3, <2>4
<1>10. CASE RemoveStep
  <2> DEFINE step == Head(leftToRemove)
  <2>1. /\ \A other : InSteps(other) => other = step \/ InSteps(other)'
        /\ loginEntry' = (loginEntry /\ step # "autostart")
        /\ keyEntries' = (IF step = "secrets" THEN keyEntries \ keyNames ELSE keyEntries)
        /\ configToml' = (IF step = "config" THEN NoConfig ELSE configToml)
        /\ dataDir' = (dataDir /\ step # "data")
        /\ drifted' = (drifted \/ loginEntry' # loginEntry \/ configToml' # configToml)
        /\ UNCHANGED <<appConfig, keyNames, clean>>
    BY <1>10, StepOff DEF RemoveStep
  <2> HIDE DEF step
  <2>2. EntryAsSet'
    BY <2>1 DEF Loaded
  <2>3. StepsDone'
    BY <2>1
  <2>4. QED
    BY <2>2, <2>3
<1>11. CASE RemoveStepFails
  BY <1>11 DEF RemoveStepFails, Loaded
<1>12. CASE UNCHANGED uninstallVars
  BY <1>12 DEF uninstallVars, Loaded, InSteps
<1>13. QED
  BY <1>1, <1>2, <1>3, <1>4, <1>5, <1>6, <1>7, <1>8, <1>9, <1>10, <1>11, <1>12 DEF UninstallNext

LEMMA UninstallInvInit == UninstallInit => UninstallInv
<1> SUFFICES ASSUME UninstallInit PROVE UninstallInv
  OBVIOUS
<1>1. UninstallTypeOK
  BY EmptySeq DEF UninstallInit, UninstallTypeOK
<1>2. Loaded.autostart = FALSE
  BY DEF UninstallInit, Loaded, Loads, DefaultConfig
<1>3. QED
  BY <1>1, <1>2 DEF UninstallInit, UninstallInv, EntryAsSet, StepsDone, AutostartAgrees

LEMMA UninstallInvStep == UninstallInv /\ [UninstallNext]_uninstallVars => UninstallInv'
BY UninstallTypeStep, UninstallStep DEF UninstallInv

\* With the app, an installer and hand edits in between, for any backends: the setting of
\* launch at login says what is so, and a clean uninstall leaves nothing.
THEOREM UninstallIsWhole == UninstallSpec => [](UninstallTypeOK /\ UninstallFits)
<1>1. UninstallInv => UninstallTypeOK /\ UninstallFits
  <2>1. SUFFICES ASSUME UninstallInv PROVE UninstallFits
    BY DEF UninstallInv
  <2>2. AutostartAgrees
    BY <2>1 DEF UninstallInv, EntryAsSet, AutostartAgrees
  <2>3. NothingLeft
    BY <2>1 DEF UninstallInv, StepsDone, NothingLeft, InSteps
  <2>4. QED
    BY <2>2, <2>3 DEF UninstallFits
<1>2. QED
  BY <1>1, UninstallInvInit, UninstallInvStep, PTL DEF UninstallSpec

-----------------------------------------------------------------------------
(* Sums compared: term by term, over a part of a set, and split in two.     *)

LEMMA SumMonotone ==
  ASSUME NEW S, IsFiniteSet(S), NEW f, NEW g, \A x \in S : f[x] \in Nat /\ g[x] \in Nat /\ f[x] <= g[x]
  PROVE  SumOver(f, S) <= SumOver(g, S)
<1> DEFINE Bad == {t \in SUBSET S : ~(SumOver(f, t) <= SumOver(g, t))}
<1>1. SUFFICES ASSUME Bad # {} PROVE FALSE
  OBVIOUS
<1>2. PICK t \in Bad : \A x \in t : t \ {x} \notin Bad
  <2>1. Bad \in SUBSET (SUBSET S)
    OBVIOUS
  <2> HIDE DEF Bad
  <2>2. QED
    BY <1>1, <2>1, LeastBadSet
<1>3. t # {}
  <2>1. SumOver(f, {}) = 0 /\ SumOver(g, {}) = 0
    BY SumEmpty
  <2>2. QED
    BY <1>2, <2>1
<1>4. PICK x \in t : TRUE
  BY <1>3
<1>5. IsFiniteSet(t) /\ IsFiniteSet(t \ {x})
  BY <1>2, <1>4, FS_Subset
<1>6. /\ SumOver(f, t) = f[x] + SumOver(f, t \ {x})
      /\ SumOver(g, t) = g[x] + SumOver(g, t \ {x})
  BY <1>4, <1>5, SumInsert
<1>7. /\ SumOver(f, t \ {x}) \in Nat /\ SumOver(g, t \ {x}) \in Nat
      /\ SumOver(f, t \ {x}) <= SumOver(g, t \ {x})
  BY <1>2, <1>4, <1>5, SumNat
<1>8. f[x] \in Nat /\ g[x] \in Nat /\ f[x] <= g[x]
  BY <1>2, <1>4
<1>9. SumOver(f, t) <= SumOver(g, t)
  BY <1>6, <1>7, <1>8
<1>10. QED
  BY <1>2, <1>9

LEMMA SumStrict ==
  ASSUME NEW S, IsFiniteSet(S), NEW f, NEW g, \A x \in S : f[x] \in Nat /\ g[x] \in Nat /\ f[x] <= g[x],
         NEW y \in S, f[y] + 1 <= g[y]
  PROVE  SumOver(f, S) + 1 <= SumOver(g, S)
<1>1. IsFiniteSet(S \ {y})
  BY FS_Subset
<1>2. /\ SumOver(f, S) = f[y] + SumOver(f, S \ {y})
      /\ SumOver(g, S) = g[y] + SumOver(g, S \ {y})
  BY SumInsert
<1>3. /\ SumOver(f, S \ {y}) \in Nat /\ SumOver(g, S \ {y}) \in Nat
      /\ SumOver(f, S \ {y}) <= SumOver(g, S \ {y})
  BY <1>1, SumNat, SumMonotone
<1>4. QED
  BY <1>2, <1>3

LEMMA SumOfPart ==
  ASSUME NEW T, IsFiniteSet(T), NEW f, \A x \in T : f[x] \in Nat, NEW S \in SUBSET T
  PROVE  SumOver(f, S) <= SumOver(f, T)
<1> DEFINE Bad == {t \in SUBSET T : ~(SumOver(f, S \cap t) <= SumOver(f, t))}
<1>1. SUFFICES ASSUME Bad # {} PROVE FALSE
  <2>1. S \cap T = S /\ T \in SUBSET T
    OBVIOUS
  <2>2. QED
    BY <2>1
<1>2. PICK t \in Bad : \A x \in t : t \ {x} \notin Bad
  <2>1. Bad \in SUBSET (SUBSET T)
    OBVIOUS
  <2> HIDE DEF Bad
  <2>2. QED
    BY <1>1, <2>1, LeastBadSet
<1>3. t # {}
  <2>1. SumOver(f, {}) = 0 /\ S \cap {} = {}
    BY SumEmpty
  <2>2. QED
    BY <1>2, <2>1, SMTT(30)
<1>4. PICK x \in t : TRUE
  BY <1>3
<1>5. IsFiniteSet(t) /\ IsFiniteSet(t \ {x}) /\ IsFiniteSet(S \cap t) /\ IsFiniteSet(S \cap (t \ {x}))
  BY <1>2, <1>4, FS_Subset
<1>6. SumOver(f, t) = f[x] + SumOver(f, t \ {x})
  BY <1>4, <1>5, SumInsert
<1>7. /\ SumOver(f, t \ {x}) \in Nat /\ SumOver(f, S \cap (t \ {x})) \in Nat
      /\ SumOver(f, S \cap (t \ {x})) <= SumOver(f, t \ {x})
  BY <1>2, <1>4, <1>5, SumNat
<1>8. f[x] \in Nat
  BY <1>2, <1>4
<1>9. SumOver(f, S \cap t) <= f[x] + SumOver(f, S \cap (t \ {x}))
  <2>1. CASE x \in S
    <3>1. x \in S \cap t /\ (S \cap t) \ {x} = S \cap (t \ {x})
      BY <1>4, <2>1
    <3>2. \A z \in S \cap t : f[z] \in Nat
      OBVIOUS
    <3>3. SumOver(f, S \cap t) = f[x] + SumOver(f, (S \cap t) \ {x})
      BY <1>5, <3>1, <3>2, SumInsert
    <3>4. SumOver(f, (S \cap t) \ {x}) = SumOver(f, S \cap (t \ {x}))
      BY <3>1
    <3>5. PICK a \in Nat, b \in Nat : a = f[x] /\ b = SumOver(f, S \cap (t \ {x}))
      BY <1>7, <1>8
    <3>6. SumOver(f, S \cap t) = a + b
      BY <3>3, <3>4, <3>5
    <3>7. QED
      BY <3>5, <3>6
  <2>2. CASE x \notin S
    <3>1. S \cap t = S \cap (t \ {x})
      BY <2>2
    <3>2. SumOver(f, S \cap t) = SumOver(f, S \cap (t \ {x}))
      BY <3>1
    <3>3. PICK a \in Nat, b \in Nat : a = f[x] /\ b = SumOver(f, S \cap (t \ {x}))
      BY <1>7, <1>8
    <3>4. QED
      BY <3>2, <3>3
  <2>3. QED
    BY <2>1, <2>2
<1>10. SumOver(f, S \cap t) \in Nat
  BY <1>5, SumNat
<1>11. SumOver(f, S \cap t) <= SumOver(f, t)
  BY <1>6, <1>7, <1>8, <1>9, <1>10
<1>12. QED
  BY <1>2, <1>11

LEMMA SumSplit ==
  ASSUME NEW S, IsFiniteSet(S), NEW C \in SUBSET S, NEW c \in Nat, NEW f, NEW g,
         \A x \in S : f[x] \in Nat /\ g[x] = f[x] + (IF x \in C THEN c ELSE 0)
  PROVE  SumOver(g, S) = SumOver(f, S) + Cardinality(C) * c
<1> DEFINE Bad == {t \in SUBSET S : ~(SumOver(g, t) = SumOver(f, t) + Cardinality(C \cap t) * c)}
<1>1. SUFFICES ASSUME Bad # {} PROVE FALSE
  <2>1. C \cap S = C /\ S \in SUBSET S
    OBVIOUS
  <2>2. QED
    BY <2>1
<1>2. PICK t \in Bad : \A x \in t : t \ {x} \notin Bad
  <2>1. Bad \in SUBSET (SUBSET S)
    OBVIOUS
  <2> HIDE DEF Bad
  <2>2. QED
    BY <1>1, <2>1, LeastBadSet
<1>3. t # {}
  <2>1. SumOver(f, {}) = 0 /\ SumOver(g, {}) = 0 /\ Cardinality(C \cap {}) = 0
    <3>1. C \cap {} = {}
      OBVIOUS
    <3>2. QED
      BY <3>1, SumEmpty, FS_EmptySet
  <2>2. 0 * c = 0
    OBVIOUS
  <2>3. {} \notin Bad
    BY <2>1, <2>2
  <2>4. QED
    BY <1>2, <2>3
<1>4. PICK x \in t : TRUE
  BY <1>3
<1>5. IsFiniteSet(t) /\ IsFiniteSet(t \ {x}) /\ IsFiniteSet(C \cap t) /\ IsFiniteSet(C \cap (t \ {x}))
  BY <1>2, <1>4, FS_Subset
<1>6. \A z \in S : f[z] \in Nat /\ g[z] \in Nat
  OBVIOUS
<1>7. /\ SumOver(f, t) = f[x] + SumOver(f, t \ {x})
      /\ SumOver(g, t) = g[x] + SumOver(g, t \ {x})
  <2>1. \A z \in t : f[z] \in Nat /\ g[z] \in Nat
    BY <1>2, <1>6
  <2>2. QED
    BY <1>4, <1>5, <2>1, SumInsert
<1>8. PICK n \in Nat : n = Cardinality(C \cap (t \ {x}))
  BY <1>5, FS_CardinalityType
<1>9. /\ SumOver(f, t \ {x}) \in Nat /\ SumOver(g, t \ {x}) = SumOver(f, t \ {x}) + n * c
  <2>1. \A z \in t \ {x} : f[z] \in Nat
    BY <1>2, <1>6
  <2>2. QED
    BY <1>2, <1>4, <1>5, <1>8, <2>1, SumNat
<1>10. f[x] \in Nat /\ g[x] = f[x] + (IF x \in C THEN c ELSE 0)
  BY <1>2, <1>4
<1>11. PICK m \in Nat : m = n * c
  OBVIOUS
<1>12. Cardinality(C \cap t) * c = m + (IF x \in C THEN c ELSE 0)
  <2>1. CASE x \in C
    <3>1. x \in C \cap t /\ (C \cap t) \ {x} = C \cap (t \ {x})
      BY <1>4, <2>1
    <3>2. Cardinality((C \cap t) \ {x}) = Cardinality(C \cap t) - 1 /\ Cardinality(C \cap t) \in Nat
      BY <1>5, <3>1, FS_RemoveElement, FS_CardinalityType
    <3>3. Cardinality(C \cap t) = n + 1
      <4>1. Cardinality((C \cap t) \ {x}) = n
        BY <1>8, <3>1
      <4>2. QED
        BY <3>2, <4>1, SMTT(30)
    <3>4. (n + 1) * c = n * c + c
      OBVIOUS
    <3>5. QED
      BY <1>11, <2>1, <3>3, <3>4
  <2>2. CASE x \notin C
    <3>1. C \cap t = C \cap (t \ {x})
      BY <2>2
    <3>2. Cardinality(C \cap t) = n
      BY <1>8, <3>1
    <3>3. QED
      BY <1>11, <2>2, <3>2
  <2>3. QED
    BY <2>1, <2>2
<1>13. SumOver(g, t) = SumOver(f, t) + Cardinality(C \cap t) * c
  BY <1>7, <1>9, <1>10, <1>11, <1>12
<1>14. QED
  BY <1>2, <1>13

-----------------------------------------------------------------------------
(* Refining on this computer: a turn waits no longer than what was worked   *)
(* on, meanwhile, beside its own generation.                                *)

Gen == [stage : Stages, need : Needs, left : Nat, cold : BOOLEAN, beside : SUBSET (1..MaxGens)]

Extra(gen) == IF gen.cold THEN LoadTicks ELSE 0

\* What a generation takes at most, and what of that it has taken.
Cost(gen) == gen.need + Extra(gen)

UsedAt(gen, stage, left) ==
  IF stage \in {"starting", "locking"} THEN 0
  ELSE IF stage = "loading" THEN LoadTicks - left
  ELSE IF stage = "generating" THEN Extra(gen) + (gen.need - left)
  ELSE Cost(gen)

Used(gen) == UsedAt(gen, gen.stage, gen.left)

NeedsBy(list) == [g \in DOMAIN list |-> list[g].need]
CostsBy(list) == [g \in DOMAIN list |-> Cost(list[g])]
UsedBy(list) == [g \in DOMAIN list |-> Used(list[g])]

Bounded(gen) ==
  /\ gen.stage = "loading" => gen.cold /\ gen.left <= LoadTicks
  /\ gen.stage = "generating" => gen.left <= gen.need

\* Where something was loaded before a generation, or it is past loading, it is cached.
CachedFor(gen, isCached) == ~gen.cold \/ gen.stage \in {"generating", "done"} => isCached

RefTyped ==
  /\ onDisk \in BOOLEAN /\ cached \in BOOLEAN /\ gens \in Seq(Gen) /\ Len(gens) <= MaxGens
  /\ awaited \in [Pipelines -> 0..Len(gens)] /\ waited \in [Pipelines -> 0..RefineTimeout]
  /\ fellBack \subseteq DOMAIN gens

Besides ==
  \A g \in DOMAIN gens : /\ gens[g].beside \subseteq DOMAIN gens
                         /\ g \in Alive => Alive \subseteq gens[g].beside

Waits ==
  \A p \in Pipelines : awaited[p] # 0 => waited[p] <= SumOver(UsedBy(gens), gens[awaited[p]].beside)

Fallen == \A g \in fellBack : SumOver(CostsBy(gens), gens[g].beside) >= RefineTimeout

GensFit == \A g \in DOMAIN gens : Bounded(gens[g]) /\ CachedFor(gens[g], cached)

RefInv == RefTyped /\ GensFit /\ Besides /\ Waits /\ Fallen

LEMMA GenNumbers ==
  ASSUME NEW gen \in Gen, Bounded(gen)
  PROVE  /\ gen.need \in Nat \ {0} /\ LoadTicks \in Nat /\ gen.left \in Nat /\ Extra(gen) \in Nat
         /\ Cost(gen) \in Nat /\ Used(gen) \in Nat /\ Used(gen) <= Cost(gen)
<1>1. /\ gen.need \in Nat \ {0} /\ LoadTicks \in Nat /\ gen.left \in Nat /\ gen.cold \in BOOLEAN
      /\ gen.stage \in Stages
  BY RefinerAssumption DEF Gen
<1>2. Extra(gen) \in Nat /\ (gen.cold => Extra(gen) = LoadTicks)
  BY <1>1 DEF Extra
<1>3. QED
  BY <1>1, <1>2 DEF Cost, Used, UsedAt, Bounded

LEMMA ListTables ==
  ASSUME NEW list \in Seq(Gen), \A g \in DOMAIN list : Bounded(list[g])
  PROVE  /\ DOMAIN list = 1..Len(list) /\ Len(list) \in Nat
         /\ \A g \in DOMAIN list :
              /\ list[g] \in Gen
              /\ UsedBy(list)[g] = Used(list[g]) /\ CostsBy(list)[g] = Cost(list[g])
              /\ NeedsBy(list)[g] = list[g].need
              /\ UsedBy(list)[g] \in Nat /\ CostsBy(list)[g] \in Nat /\ NeedsBy(list)[g] \in Nat
              /\ UsedBy(list)[g] <= CostsBy(list)[g]
         /\ \A S \in SUBSET DOMAIN list : IsFiniteSet(S)
<1>1. /\ DOMAIN list = 1..Len(list) /\ Len(list) \in Nat
      /\ \A g \in DOMAIN list : list[g] \in Gen
  BY LenProperties, ElementOfSeq
<1>2. IsFiniteSet(DOMAIN list)
  BY <1>1, FS_Interval
<1>3. \A S \in SUBSET DOMAIN list : IsFiniteSet(S)
  BY <1>2, FS_Subset
<1>4. \A g \in DOMAIN list :
        /\ UsedBy(list)[g] = Used(list[g]) /\ CostsBy(list)[g] = Cost(list[g])
        /\ NeedsBy(list)[g] = list[g].need
  BY DEF UsedBy, CostsBy, NeedsBy
<1>5. \A g \in DOMAIN list : /\ list[g].need \in Nat /\ Cost(list[g]) \in Nat /\ Used(list[g]) \in Nat
                             /\ Used(list[g]) <= Cost(list[g])
  BY <1>1, GenNumbers
<1>6. QED
  BY <1>1, <1>3, <1>4, <1>5

LEMMA RefLists ==
  ASSUME RefInv
  PROVE  gens \in Seq(Gen) /\ (\A g \in DOMAIN gens : Bounded(gens[g]))
         /\ RefineTimeout \in Nat \ {0} /\ LoadTicks \in Nat
BY RefinerAssumption DEF RefInv, RefTyped, GensFit

\* The needs as the property adds them.
NeedIn(S) == MapThenSumSet(LAMBDA h : gens[h].need, S)

LEMMA NeedSum ==
  ASSUME RefInv, NEW S \in SUBSET DOMAIN gens
  PROVE  NeedIn(S) = SumOver(NeedsBy(gens), S)
<1>1. \A x \in S : NeedsBy(gens)[x] = gens[x].need /\ NeedsBy(gens)[x] \in Nat
  BY RefLists, ListTables
<1>2. IsFiniteSet(S)
  BY RefLists, ListTables
<1>3. PICK own \in [SUBSET S -> Nat] : Tabled(own, NeedsBy(gens), SUBSET S)
  BY <1>1, <1>2, TableExists
<1> DEFINE By(table) == table = [s \in SUBSET S |-> IF s = {} THEN 0
                            ELSE gens[CHOOSE x \in s : TRUE].need + table[s \ {CHOOSE x \in s : TRUE}]]
<1>4. ASSUME NEW table PROVE By(table) <=> Tabled(table, NeedsBy(gens), SUBSET S)
  <2>1. \A s \in SUBSET S : s # {} => NeedsBy(gens)[Pick(s)] = gens[Pick(s)].need
    BY <1>1, PickIn
  <2>2. QED
    BY <2>1 DEF Tabled, Pick
<1>5. NeedIn(S) = (CHOOSE table : By(table))[S]
  BY DEF NeedIn, MapThenSumSet, MapThenFoldSet
<1>6. Tabled(CHOOSE table : By(table), NeedsBy(gens), SUBSET S)
  <2>1. By(own)
    BY <1>3, <1>4
  <2>2. By(CHOOSE table : By(table))
    BY <2>1
  <2>3. QED
    BY <1>4, <2>2
<1> HIDE DEF By
<1>7. SumOver(NeedsBy(gens), S) = (CHOOSE table : By(table))[S]
  BY <1>1, <1>2, <1>6, SumIs
<1>8. QED
  BY <1>5, <1>7

LEMMA RefTypeOK == RefInv => RefinerTypeOK
BY DEF RefInv, RefTyped, RefinerTypeOK, Gen

LEMMA FallsBackRightly == RefInv => FallsBackForAReason
<1> SUFFICES ASSUME RefInv, NEW g \in fellBack
             PROVE  NeedIn(gens[g].beside) + Cardinality({h \in gens[g].beside : gens[h].cold}) * LoadTicks
                      >= RefineTimeout
  BY DEF FallsBackForAReason, NeedIn
<1>1. g \in DOMAIN gens
  BY DEF RefInv, RefTyped
<1>2. gens[g].beside \in SUBSET DOMAIN gens /\ IsFiniteSet(gens[g].beside) /\ LoadTicks \in Nat
  BY <1>1, RefLists, ListTables, RefinerAssumption DEF RefInv, Besides
<1> DEFINE C == {h \in gens[g].beside : gens[h].cold}
<1>3. \A x \in gens[g].beside :
        NeedsBy(gens)[x] \in Nat /\ CostsBy(gens)[x] = NeedsBy(gens)[x] + (IF x \in C THEN LoadTicks ELSE 0)
  <2>1. \A x \in gens[g].beside : /\ x \in DOMAIN gens /\ NeedsBy(gens)[x] \in Nat /\ NeedsBy(gens)[x] = gens[x].need
                                  /\ CostsBy(gens)[x] = Cost(gens[x])
    BY <1>2, RefLists, ListTables
  <2>2. \A x \in gens[g].beside : x \in C <=> gens[x].cold
    OBVIOUS
  <2> HIDE DEF C
  <2>3. QED
    BY <2>1, <2>2 DEF Cost, Extra
<1>4. C \in SUBSET gens[g].beside
  OBVIOUS
<1> HIDE DEF C
<1>5. SumOver(CostsBy(gens), gens[g].beside) = SumOver(NeedsBy(gens), gens[g].beside) + Cardinality(C) * LoadTicks
  BY <1>2, <1>3, <1>4, SumSplit
<1>6. SumOver(CostsBy(gens), gens[g].beside) >= RefineTimeout
  BY DEF RefInv, Fallen
<1>7. QED
  BY <1>2, <1>5, <1>6, NeedSum DEF C

\* Whatever goes on, no generation has used less than before.
LEMMA Onward ==
  ASSUME NEW old \in Seq(Gen), \A g \in DOMAIN old : Bounded(old[g]),
         NEW new \in Seq(Gen), \A g \in DOMAIN new : Bounded(new[g]),
         DOMAIN old \subseteq DOMAIN new,
         \A g \in DOMAIN old : Used(old[g]) <= Used(new[g]) /\ Cost(old[g]) <= Cost(new[g]),
         NEW S \in SUBSET DOMAIN old, NEW T \in SUBSET DOMAIN new, S \subseteq T
  PROVE  /\ SumOver(UsedBy(old), S) \in Nat /\ SumOver(UsedBy(old), S) <= SumOver(UsedBy(new), T)
         /\ SumOver(CostsBy(old), S) \in Nat /\ SumOver(CostsBy(old), S) <= SumOver(CostsBy(new), T)
         /\ SumOver(UsedBy(old), S) <= SumOver(CostsBy(old), S)
         /\ SumOver(UsedBy(new), T) \in Nat /\ SumOver(CostsBy(new), T) \in Nat
         /\ (\E h \in S : Used(old[h]) + 1 <= Used(new[h]))
              => SumOver(UsedBy(old), S) + 1 <= SumOver(UsedBy(new), T)
<1>1. /\ IsFiniteSet(S) /\ \A g \in S : /\ UsedBy(old)[g] = Used(old[g]) /\ UsedBy(old)[g] \in Nat
                                       /\ CostsBy(old)[g] = Cost(old[g]) /\ CostsBy(old)[g] \in Nat
                                       /\ UsedBy(old)[g] <= CostsBy(old)[g]
  BY ListTables
<1>2. /\ IsFiniteSet(T) /\ \A g \in T : /\ UsedBy(new)[g] = Used(new[g]) /\ UsedBy(new)[g] \in Nat
                                       /\ CostsBy(new)[g] = Cost(new[g]) /\ CostsBy(new)[g] \in Nat
  BY ListTables
<1>3. \A g \in S : UsedBy(old)[g] <= UsedBy(new)[g] /\ CostsBy(old)[g] <= CostsBy(new)[g]
  BY <1>1, <1>2
<1>4. /\ SumOver(UsedBy(old), S) <= SumOver(UsedBy(new), S)
      /\ SumOver(CostsBy(old), S) <= SumOver(CostsBy(new), S)
      /\ SumOver(UsedBy(old), S) <= SumOver(CostsBy(old), S)
  BY <1>1, <1>2, <1>3, SumMonotone
<1>5. /\ SumOver(UsedBy(new), S) <= SumOver(UsedBy(new), T)
      /\ SumOver(CostsBy(new), S) <= SumOver(CostsBy(new), T)
  BY <1>2, SumOfPart
<1>6. /\ SumOver(UsedBy(old), S) \in Nat /\ SumOver(CostsBy(old), S) \in Nat
      /\ SumOver(UsedBy(new), S) \in Nat /\ SumOver(CostsBy(new), S) \in Nat
      /\ SumOver(UsedBy(new), T) \in Nat /\ SumOver(CostsBy(new), T) \in Nat
  BY <1>1, <1>2, SumNat
<1>7. ASSUME NEW h \in S, Used(old[h]) + 1 <= Used(new[h])
      PROVE  SumOver(UsedBy(old), S) + 1 <= SumOver(UsedBy(new), S)
  BY <1>1, <1>2, <1>3, <1>7, SumStrict
<1>8. QED
  BY <1>4, <1>5, <1>6, <1>7

-----------------------------------------------------------------------------
LEMMA RefInvInit == RefinerInit => RefInv
<1> SUFFICES ASSUME RefinerInit PROVE RefInv
  OBVIOUS
<1>1. gens = <<>> /\ gens \in Seq(Gen) /\ Len(gens) = 0 /\ DOMAIN gens = {}
  BY EmptySeq DEF RefinerInit
<1>2. RefTyped
  <2>1. /\ onDisk \in BOOLEAN /\ cached \in BOOLEAN /\ fellBack = {}
        /\ awaited = [p \in Pipelines |-> 0] /\ waited = [p \in Pipelines |-> 0]
    BY DEF RefinerInit
  <2>2. 0 \in 0..0 /\ 0 \in 0..RefineTimeout /\ 0 <= MaxGens
    BY RefinerAssumption
  <2>3. QED
    BY <1>1, <2>1, <2>2 DEF RefTyped
<1>3. Besides
  BY <1>1 DEF Besides
<1>4. Waits /\ Fallen
  BY DEF Waits, Fallen, RefinerInit
<1>5. QED
  BY <1>1, <1>2, <1>3, <1>4 DEF RefInv, GensFit

\* Of a step that leaves no turn waiting longer than before.
LEMMA GoesOnRefining ==
  ASSUME RefInv, RefTyped', Besides',
         GensFit',
         fellBack' = fellBack, DOMAIN gens \subseteq DOMAIN gens',
         \A g \in DOMAIN gens : /\ Used(gens[g]) <= Used(gens'[g]) /\ Cost(gens[g]) <= Cost(gens'[g])
                                /\ gens[g].beside \subseteq gens'[g].beside,
         \A p \in Pipelines : awaited'[p] # 0 => \/ awaited'[p] = awaited[p] /\ waited'[p] = waited[p]
                                                 \/ waited'[p] = 0
  PROVE  RefInv'
<1>1. gens' \in Seq(Gen) /\ awaited' \in [Pipelines -> 0..Len(gens')] /\ DOMAIN gens' = 1..Len(gens')
      /\ Len(gens') \in Nat
  BY LenProperties DEF RefTyped
<1>2. ASSUME NEW g \in DOMAIN gens
      PROVE  /\ gens[g].beside \in SUBSET DOMAIN gens /\ gens'[g].beside \in SUBSET DOMAIN gens'
             /\ gens[g].beside \subseteq gens'[g].beside
  BY DEF RefInv, Besides
<1>3. ASSUME NEW g \in DOMAIN gens
      PROVE  /\ SumOver(UsedBy(gens), gens[g].beside) \in Nat /\ SumOver(CostsBy(gens), gens[g].beside) \in Nat
             /\ SumOver(UsedBy(gens'), gens'[g].beside) \in Nat /\ SumOver(CostsBy(gens'), gens'[g].beside) \in Nat
             /\ SumOver(UsedBy(gens), gens[g].beside) <= SumOver(UsedBy(gens'), gens'[g].beside)
             /\ SumOver(CostsBy(gens), gens[g].beside) <= SumOver(CostsBy(gens'), gens'[g].beside)
  <2>1. \A h \in DOMAIN gens' : Bounded(gens'[h])
    BY DEF GensFit
  <2>2. QED
    BY <1>1, <1>2, <2>1, RefLists, Onward
<1>4. ASSUME NEW p \in Pipelines, awaited'[p] # 0
      PROVE  waited'[p] <= SumOver(UsedBy(gens'), gens'[awaited'[p]].beside)
  <2>1. CASE awaited'[p] = awaited[p] /\ waited'[p] = waited[p]
    <3>1. awaited[p] \in DOMAIN gens /\ waited[p] \in Nat
      BY <1>4, <2>1, LenProperties, RefLists DEF RefInv, RefTyped
    <3>2. waited[p] <= SumOver(UsedBy(gens), gens[awaited[p]].beside)
      BY <1>4, <2>1 DEF RefInv, Waits
    <3>3. QED
      BY <1>3, <2>1, <3>1, <3>2
  <2>2. CASE waited'[p] = 0
    <3>1. awaited'[p] \in DOMAIN gens'
      BY <1>1, <1>4
    <3>2. gens'[awaited'[p]].beside \in SUBSET DOMAIN gens'
      BY <3>1 DEF Besides
    <3>3. SumOver(UsedBy(gens'), gens'[awaited'[p]].beside) \in Nat
      <4>1. /\ IsFiniteSet(gens'[awaited'[p]].beside)
            /\ \A g \in gens'[awaited'[p]].beside : UsedBy(gens')[g] \in Nat
        <5>1. \A h \in DOMAIN gens' : Bounded(gens'[h])
          BY DEF GensFit
        <5>2. QED
          BY <1>1, <3>2, <5>1, ListTables
      <4>2. QED
        BY <4>1, SumNat
    <3>4. QED
      BY <2>2, <3>3
  <2>3. QED
    BY <1>4, <2>1, <2>2
<1>5. Waits'
  BY <1>4 DEF Waits
<1>6. Fallen'
  <2>1. SUFFICES ASSUME NEW g \in fellBack
                 PROVE  SumOver(CostsBy(gens'), gens'[g].beside) >= RefineTimeout
    BY DEF Fallen
  <2>2. g \in DOMAIN gens
    BY DEF RefInv, RefTyped
  <2>3. SumOver(CostsBy(gens), gens[g].beside) >= RefineTimeout
    BY DEF RefInv, Fallen
  <2>4. QED
    BY <1>3, <2>2, <2>3, RefLists
<1>7. QED
  <2>1. RefTyped' /\ GensFit' /\ Besides'
    OBVIOUS
  <2>2. QED
    BY <1>5, <1>6, <2>1 DEF RefInv

\* Of a step of one generation.
LEMMA GenMovesOn ==
  ASSUME RefInv, NEW g \in DOMAIN gens, NEW stage \in Stages \ {"starting"}, NEW left \in Nat,
         g \in Alive, To(g, stage, left), cached' \in BOOLEAN, cached => cached',
         UNCHANGED <<onDisk, awaited, waited, fellBack>>,
         stage = "loading" => gens[g].cold /\ left <= LoadTicks,
         stage = "generating" => cached' /\ left <= gens[g].need,
         stage = "done" => cached',
         Used(gens[g]) <= UsedAt(gens[g], stage, left)
  PROVE  RefInv'
<1>1. gens \in Seq(Gen) /\ (\A h \in DOMAIN gens : gens[h] \in Gen /\ Bounded(gens[h]) /\ CachedFor(gens[h], cached))
      /\ DOMAIN gens = 1..Len(gens)
  BY RefLists, ListTables DEF RefInv, GensFit
<1> DEFINE new == [gens[g] EXCEPT !.stage = stage, !.left = left]
<1>2. /\ new \in Gen /\ new.stage = stage /\ new.left = left /\ new.need = gens[g].need
      /\ new.cold = gens[g].cold /\ new.beside = gens[g].beside
  BY <1>1 DEF Gen
<1>3. gens' = [gens EXCEPT ![g] = new]
  BY DEF To
<1> HIDE DEF new
<1>4. gens' \in Seq(Gen) /\ DOMAIN gens' = DOMAIN gens /\ Len(gens') = Len(gens)
  BY <1>1, <1>2, <1>3, ExceptSeq
<1>5. \A h \in DOMAIN gens : gens'[h] = IF h = g THEN new ELSE gens[h]
  BY <1>3
<1>6. Bounded(new) /\ CachedFor(new, cached')
  <2>1. Bounded(new)
    BY <1>2 DEF Bounded
  <2>2. CachedFor(new, cached')
    BY <1>1, <1>2 DEF CachedFor
  <2>3. QED
    BY <2>1, <2>2
<1>7. GensFit'
  <2>1. SUFFICES ASSUME NEW h \in DOMAIN gens PROVE Bounded(gens'[h]) /\ CachedFor(gens'[h], cached')
    BY <1>4 DEF GensFit
  <2>2. CASE h = g
    BY <1>5, <1>6, <2>2 DEF Bounded, CachedFor
  <2>3. CASE h # g
    BY <1>1, <1>5, <2>3 DEF CachedFor
  <2>4. QED
    BY <2>2, <2>3
<1>8. /\ Used(gens[g]) <= Used(new) /\ Cost(gens[g]) = Cost(new)
  BY <1>2 DEF Cost, Extra, Used, UsedAt
<1>9. \A h \in DOMAIN gens : /\ Used(gens[h]) <= Used(gens'[h]) /\ Cost(gens[h]) <= Cost(gens'[h])
                             /\ gens[h].beside = gens'[h].beside
  <2>1. \A h \in DOMAIN gens : Used(gens[h]) \in Nat /\ Cost(gens[h]) \in Nat
    BY <1>1, GenNumbers
  <2>2. QED
    BY <1>2, <1>5, <1>8, <2>1
<1>10. Alive' \subseteq Alive
  <2>1. SUFFICES ASSUME NEW h \in DOMAIN gens, gens'[h].stage \notin Ended PROVE gens[h].stage \notin Ended
    BY <1>4 DEF Alive
  <2>2. CASE h = g
    BY <2>2 DEF Alive
  <2>3. CASE h # g
    BY <1>5, <2>1, <2>3
  <2>4. QED
    BY <2>2, <2>3
<1>11. Besides'
  <2>1. SUFFICES ASSUME NEW h \in DOMAIN gens
                 PROVE  gens[h].beside \subseteq DOMAIN gens /\ (h \in Alive => Alive \subseteq gens[h].beside)
    BY <1>4, <1>9, <1>10 DEF Besides
  <2>2. QED
    BY DEF RefInv, Besides
<1>12. RefTyped'
  BY <1>4 DEF RefInv, RefTyped
<1>13. /\ fellBack' = fellBack /\ DOMAIN gens \subseteq DOMAIN gens'
       /\ \A p \in Pipelines : awaited'[p] = awaited[p] /\ waited'[p] = waited[p]
  BY <1>4
<1>14. \A h \in DOMAIN gens : /\ Used(gens[h]) <= Used(gens'[h]) /\ Cost(gens[h]) <= Cost(gens'[h])
                              /\ gens[h].beside \subseteq gens'[h].beside
  BY <1>9
<1>15. QED
  BY <1>7, <1>11, <1>12, <1>13, <1>14, GoesOnRefining

-----------------------------------------------------------------------------
\* The generations as they are, and the lock's holders.
LEMMA GenAt ==
  ASSUME RefInv, NEW g \in DOMAIN gens
  PROVE  /\ gens[g] \in Gen /\ Bounded(gens[g]) /\ CachedFor(gens[g], cached)
         /\ gens[g].need \in Nat \ {0} /\ LoadTicks \in Nat /\ gens[g].left \in Nat /\ gens[g].cold \in BOOLEAN
         /\ gens[g].stage \in Stages /\ Extra(gens[g]) \in Nat /\ cached \in BOOLEAN
         /\ g \in Alive <=> gens[g].stage \notin Ended
         /\ Used(gens[g]) \in Nat /\ Used(gens[g]) <= Cost(gens[g])
<1>1. gens[g] \in Gen /\ Bounded(gens[g]) /\ CachedFor(gens[g], cached) /\ cached \in BOOLEAN
  BY RefLists, ListTables DEF RefInv, RefTyped, GensFit
<1>2. g \in Alive <=> gens[g].stage \notin Ended
  BY DEF Alive
<1>3. gens[g].stage \in Stages /\ gens[g].cold \in BOOLEAN
  BY <1>1 DEF Gen
<1>4. QED
  BY <1>1, <1>2, <1>3, GenNumbers

LEMMA LookForModelRefines == ASSUME RefInv, NEW g \in DOMAIN gens, LookForModel(g) PROVE RefInv'
<1>1. /\ gens[g].stage = "starting" /\ To(g, IF onDisk THEN "locking" ELSE "failed", 0)
      /\ cached' = cached /\ UNCHANGED <<onDisk, awaited, waited, fellBack>>
  BY DEF LookForModel
<1>2. PICK stage \in {"locking", "failed"} : stage = IF onDisk THEN "locking" ELSE "failed"
  OBVIOUS
<1>3. g \in Alive /\ cached' \in BOOLEAN /\ (cached => cached')
  BY <1>1, GenAt DEF Ended
<1>4. Used(gens[g]) <= UsedAt(gens[g], stage, 0)
  <2>1. Used(gens[g]) = 0 /\ Cost(gens[g]) \in Nat
    BY <1>1, GenAt, GenNumbers DEF Used, UsedAt
  <2>2. UsedAt(gens[g], stage, 0) \in {0, Cost(gens[g])}
    BY <1>2 DEF UsedAt
  <2>3. QED
    BY <2>1, <2>2
<1>5. stage \in Stages \ {"starting"} /\ stage # "loading" /\ stage # "generating" /\ stage # "done"
  BY <1>2 DEF Stages
<1>6. To(g, stage, 0) /\ 0 \in Nat
  BY <1>1, <1>2
<1>7. QED
  BY <1>1, <1>3, <1>4, <1>5, <1>6, GenMovesOn

LEMMA TakeLockRefines == ASSUME RefInv, NEW g \in DOMAIN gens, TakeLock(g) PROVE RefInv'
<1>1. /\ gens[g].stage = "locking" /\ cached' = cached /\ UNCHANGED <<onDisk, awaited, waited, fellBack>>
      /\ IF cached THEN To(g, "generating", gens[g].need) ELSE To(g, "loading", LoadTicks)
  BY DEF TakeLock, AtLock
<1>2. g \in Alive /\ cached' \in BOOLEAN /\ (cached => cached')
  BY <1>1, GenAt DEF Ended
<1>3. Used(gens[g]) = 0
  BY <1>1 DEF Used, UsedAt
<1>4. /\ gens[g].need \in Nat /\ LoadTicks \in Nat /\ gens[g].need <= gens[g].need /\ LoadTicks <= LoadTicks
      /\ ~cached => gens[g].cold
  BY GenAt DEF CachedFor
<1>5. CASE cached
  <2>1. /\ To(g, "generating", gens[g].need) /\ cached'
        /\ Used(gens[g]) <= UsedAt(gens[g], "generating", gens[g].need)
    <3>1. UsedAt(gens[g], "generating", gens[g].need) = Extra(gens[g]) + (gens[g].need - gens[g].need)
      BY DEF UsedAt
    <3>2. gens[g].need \in Nat /\ Extra(gens[g]) \in Nat
      BY GenAt
    <3>3. QED
      BY <1>1, <1>3, <1>5, <3>1, <3>2
  <2>2. "generating" \in Stages \ {"starting"} /\ "generating" # "loading"
    BY DEF Stages
  <2>3. QED
    BY <1>1, <1>2, <1>3, <1>4, <2>1, <2>2, GenMovesOn
<1>6. CASE ~cached
  <2>1. /\ To(g, "loading", LoadTicks) /\ gens[g].cold
        /\ Used(gens[g]) <= UsedAt(gens[g], "loading", LoadTicks)
    BY <1>1, <1>3, <1>4, <1>6 DEF UsedAt
  <2>2. "loading" \in Stages \ {"starting"} /\ "loading" # "generating" /\ "loading" # "done"
    BY DEF Stages
  <2>3. QED
    BY <1>1, <1>2, <1>3, <1>4, <2>1, <2>2, GenMovesOn
<1>7. QED
  BY <1>5, <1>6

LEMMA ModelLoadedRefines == ASSUME RefInv, NEW g \in DOMAIN gens, ModelLoaded(g) PROVE RefInv'
<1>1. /\ gens[g].stage = "loading" /\ gens[g].left = 0 /\ cached' = TRUE
      /\ To(g, "generating", gens[g].need) /\ UNCHANGED <<onDisk, awaited, waited, fellBack>>
  BY DEF ModelLoaded
<1>2. g \in Alive /\ gens[g].need \in Nat /\ LoadTicks \in Nat /\ gens[g].cold
      /\ gens[g].need <= gens[g].need /\ cached' \in BOOLEAN /\ cached'
  BY <1>1, GenAt DEF Ended, Bounded
<1>3. Used(gens[g]) <= UsedAt(gens[g], "generating", gens[g].need)
  BY <1>1, <1>2 DEF Used, UsedAt, Extra
<1>4. "generating" \in Stages \ {"starting"} /\ "generating" # "loading" /\ "generating" # "done"
  BY DEF Stages
<1>5. QED
  BY <1>1, <1>2, <1>3, <1>4, GenMovesOn

LEMMA GeneratedRefines == ASSUME RefInv, NEW g \in DOMAIN gens, Generated(g) PROVE RefInv'
<1>1. /\ gens[g].stage = "generating" /\ gens[g].left = 0 /\ cached' = cached
      /\ To(g, "done", 0) /\ UNCHANGED <<onDisk, awaited, waited, fellBack>>
  BY DEF Generated
<1>2. g \in Alive /\ gens[g].need \in Nat /\ cached /\ cached' /\ cached' \in BOOLEAN /\ Extra(gens[g]) \in Nat
  BY <1>1, GenAt DEF Ended, CachedFor
<1>3. Used(gens[g]) <= UsedAt(gens[g], "done", 0)
  <2>1. UsedAt(gens[g], "done", 0) = Cost(gens[g])
    BY DEF UsedAt
  <2>2. QED
    BY <2>1, GenAt
<1>4. "done" \in Stages \ {"starting"} /\ "done" # "loading" /\ "done" # "generating" /\ 0 \in Nat
  BY DEF Stages
<1>5. QED
  BY <1>1, <1>2, <1>3, <1>4, GenMovesOn

LEMMA GenerateFailsRefines == ASSUME RefInv, NEW g \in DOMAIN gens, GenerateFails(g) PROVE RefInv'
<1>1. /\ gens[g].stage \in {"loading", "generating"} /\ cached' = cached
      /\ To(g, "failed", 0) /\ UNCHANGED <<onDisk, awaited, waited, fellBack>>
  BY DEF GenerateFails, Running
<1>2. g \in Alive /\ cached' \in BOOLEAN /\ (cached => cached')
  BY <1>1, GenAt DEF Ended
<1>3. Used(gens[g]) <= UsedAt(gens[g], "failed", 0)
  <2>1. UsedAt(gens[g], "failed", 0) = Cost(gens[g])
    BY DEF UsedAt
  <2>2. QED
    BY <2>1, GenAt
<1>4. "failed" \in Stages \ {"starting"} /\ "failed" # "loading" /\ "failed" # "generating" /\ "failed" # "done"
      /\ 0 \in Nat
  BY DEF Stages
<1>5. QED
  BY <1>1, <1>2, <1>3, <1>4, GenMovesOn

-----------------------------------------------------------------------------
LEMMA RefineRefines == ASSUME RefInv, NEW p \in Pipelines, Refine(p) PROVE RefInv'
<1> DEFINE count == Len(gens) + 1
           BesideNew(g) == IF g \in Alive THEN [gens[g] EXCEPT !.beside = @ \cup {count}] ELSE gens[g]
           beside == [g \in DOMAIN gens |-> BesideNew(g)]
<1>1. PICK need \in Needs :
        /\ gens' = Append(beside, [stage |-> "starting", need |-> need, left |-> 0,
                                   cold |-> Warm = {}, beside |-> Alive \cup {count}])
        /\ awaited' = [awaited EXCEPT ![p] = count]
        /\ waited' = [waited EXCEPT ![p] = 0] /\ UNCHANGED <<onDisk, cached, fellBack>>
        /\ Len(gens) < MaxGens
  BY DEF Refine
<1> DEFINE new == [stage |-> "starting", need |-> need, left |-> 0,
                   cold |-> Warm = {}, beside |-> Alive \cup {count}]
<1>2. /\ gens \in Seq(Gen) /\ Len(gens) \in Nat /\ DOMAIN gens = 1..Len(gens)
      /\ count \in 1..MaxGens /\ MaxGens \in Nat /\ count \notin DOMAIN gens
  BY <1>1, RefLists, ListTables, RefinerAssumption
<1>3. /\ new \in Gen /\ new.stage = "starting" /\ new.cold = (Warm = {}) /\ new.beside = Alive \cup {count}
      /\ new.need = need
  <2>1. Alive \cup {count} \in SUBSET (1..MaxGens) /\ (Warm = {}) \in BOOLEAN /\ "starting" \in Stages
    BY <1>1, <1>2 DEF Alive, Stages
  <2>2. QED
    BY <2>1 DEF Gen
<1>4. ASSUME NEW g \in DOMAIN gens
      PROVE  /\ BesideNew(g) \in Gen /\ BesideNew(g).stage = gens[g].stage /\ BesideNew(g).need = gens[g].need
             /\ BesideNew(g).left = gens[g].left /\ BesideNew(g).cold = gens[g].cold
             /\ BesideNew(g).beside = IF g \in Alive THEN gens[g].beside \cup {count} ELSE gens[g].beside
  <2>1. gens[g] \in Gen
    BY GenAt
  <2>2. CASE g \in Alive
    <3>1. gens[g].beside \cup {count} \in SUBSET (1..MaxGens)
      BY <1>2, <2>1 DEF Gen
    <3>2. QED
      BY <2>1, <2>2, <3>1 DEF Gen
  <2>3. CASE g \notin Alive
    BY <2>1, <2>3
  <2>4. QED
    BY <2>2, <2>3
<1> HIDE DEF BesideNew
<1>5. beside \in Seq(Gen) /\ Len(beside) = Len(gens) /\ \A g \in DOMAIN gens : beside[g] = BesideNew(g)
  <2>1. beside \in [1..Len(gens) -> Gen]
    BY <1>2, <1>4
  <2>2. beside \in Seq(Gen)
    BY <1>2, <2>1, SeqDef
  <2>3. DOMAIN beside = 1..Len(gens) /\ DOMAIN beside = 1..Len(beside) /\ Len(beside) \in Nat
    BY <2>1, <2>2, LenProperties
  <2>4. QED
    BY <1>2, <2>2, <2>3
<1> HIDE DEF new, beside
<1>6. /\ gens' \in Seq(Gen) /\ Len(gens') = count /\ DOMAIN gens' = DOMAIN gens \cup {count}
      /\ gens'[count] = new /\ \A g \in DOMAIN gens : gens'[g] = BesideNew(g)
  <2>1. gens' = Append(beside, new)
    BY <1>1 DEF new
  <2>2. /\ Append(beside, new) \in Seq(Gen) /\ Len(Append(beside, new)) = Len(beside) + 1
        /\ Append(beside, new)[Len(beside) + 1] = new
        /\ \A i \in 1..Len(beside) : Append(beside, new)[i] = beside[i]
    BY <1>3, <1>5, AppendProperties
  <2>3. DOMAIN gens' = 1..count
    BY <1>2, <1>5, <2>1, <2>2, LenProperties
  <2>4. 1..count = 1..Len(gens) \cup {count}
    BY <1>2
  <2>5. QED
    BY <1>2, <1>5, <2>1, <2>2, <2>3, <2>4
<1> HIDE DEF count
<1>7. GensFit'
  <2>1. SUFFICES ASSUME NEW g \in DOMAIN gens' PROVE Bounded(gens'[g]) /\ CachedFor(gens'[g], cached)
    BY <1>1 DEF GensFit
  <2>2. CASE g \in DOMAIN gens
    <3>1. Bounded(gens[g]) /\ CachedFor(gens[g], cached)
      BY <2>2, GenAt
    <3>2. QED
      BY <1>4, <1>6, <2>2, <3>1 DEF Bounded, CachedFor
  <2>3. CASE g = count
    <3>1. Warm # {} => cached
      <4>1. SUFFICES ASSUME NEW h \in DOMAIN gens, gens[h].stage \in {"generating", "done"} PROVE cached
        BY DEF Warm
      <4>2. QED
        BY <4>1, GenAt DEF CachedFor
    <3>2. QED
      BY <1>3, <1>6, <2>3, <3>1 DEF Bounded, CachedFor
  <2>4. QED
    BY <1>6, <2>2, <2>3
<1>8. ASSUME NEW g \in DOMAIN gens
      PROVE  /\ Used(gens[g]) <= Used(gens'[g]) /\ Cost(gens[g]) <= Cost(gens'[g])
             /\ gens[g].beside \subseteq gens'[g].beside
  <2>1. Used(gens'[g]) = Used(gens[g]) /\ Cost(gens'[g]) = Cost(gens[g])
    BY <1>4, <1>6 DEF Used, UsedAt, Cost, Extra
  <2>2. Used(gens[g]) \in Nat /\ Cost(gens[g]) \in Nat
    BY GenAt, GenNumbers
  <2>3. gens[g].beside \subseteq gens'[g].beside
    BY <1>4, <1>6
  <2>4. \A n \in Nat : n <= n
    OBVIOUS
  <2>5. QED
    BY <2>1, <2>2, <2>3, <2>4
<1>9. Alive' = Alive \cup {count}
  <2>1. \A g \in DOMAIN gens : gens'[g].stage = gens[g].stage
    BY <1>4, <1>6
  <2>2. gens'[count].stage \notin Ended
    BY <1>3, <1>6 DEF Ended
  <2>3. QED
    BY <1>6, <2>1, <2>2 DEF Alive
<1>10. Besides'
  <2>1. ASSUME NEW g \in DOMAIN gens'
        PROVE  gens'[g].beside \subseteq DOMAIN gens' /\ (g \in Alive' => Alive' \subseteq gens'[g].beside)
    <3>1. CASE g \in DOMAIN gens
      <4>1. gens[g].beside \subseteq DOMAIN gens /\ (g \in Alive => Alive \subseteq gens[g].beside)
        BY <3>1 DEF RefInv, Besides
      <4>2. g \in Alive' <=> g \in Alive
        BY <1>2, <1>9, <3>1
      <4>3. QED
        BY <1>4, <1>6, <1>9, <3>1, <4>1, <4>2
    <3>2. CASE g = count
      <4>1. Alive \subseteq DOMAIN gens
        BY DEF Alive
      <4>2. QED
        BY <1>3, <1>6, <1>9, <3>2, <4>1
    <3>3. QED
      BY <1>6, <3>1, <3>2
  <2>2. QED
    BY <2>1 DEF Besides
<1>11. RefTyped'
  <2>1. /\ onDisk' \in BOOLEAN /\ cached' \in BOOLEAN /\ gens' \in Seq(Gen) /\ Len(gens') <= MaxGens
        /\ fellBack' \subseteq DOMAIN gens'
    BY <1>1, <1>2, <1>6 DEF RefInv, RefTyped
  <2>2. awaited' \in [Pipelines -> 0..Len(gens')]
    <3>1. awaited \in [Pipelines -> 0..Len(gens)] /\ \A n \in 0..Len(gens) : n \in 0..count
      BY <1>2 DEF RefInv, RefTyped, count
    <3>2. awaited \in [Pipelines -> 0..count] /\ count \in 0..count
      BY <1>2, <3>1
    <3>3. QED
      BY <1>1, <1>6, <3>2
  <2>3. waited' \in [Pipelines -> 0..RefineTimeout]
    BY <1>1, RefLists DEF RefInv, RefTyped
  <2>4. QED
    BY <2>1, <2>2, <2>3 DEF RefTyped
<1>12. \A q \in Pipelines : \/ awaited'[q] = awaited[q] /\ waited'[q] = waited[q]
                            \/ waited'[q] = 0
  BY <1>1 DEF RefInv, RefTyped
<1>13. fellBack' = fellBack /\ DOMAIN gens \subseteq DOMAIN gens'
  BY <1>1, <1>6
<1>14. QED
  BY <1>7, <1>8, <1>10, <1>11, <1>12, <1>13, GoesOnRefining

\* Of a step that touches no generation and lets no turn wait longer.
LEMMA GensStay ==
  ASSUME RefInv, gens' = gens, cached' = cached
  PROVE  /\ GensFit' /\ Besides' /\ DOMAIN gens \subseteq DOMAIN gens'
         /\ \A g \in DOMAIN gens : /\ Used(gens[g]) <= Used(gens'[g]) /\ Cost(gens[g]) <= Cost(gens'[g])
                                   /\ gens[g].beside \subseteq gens'[g].beside
<1>1. GensFit' /\ Besides'
  BY DEF RefInv, GensFit, Besides, Alive
<1>2. ASSUME NEW g \in DOMAIN gens PROVE Used(gens[g]) <= Used(gens[g]) /\ Cost(gens[g]) <= Cost(gens[g])
  <2>1. Used(gens[g]) \in Nat /\ Cost(gens[g]) \in Nat
    BY GenAt, GenNumbers
  <2>2. QED
    BY <2>1
<1>3. QED
  BY <1>1, <1>2

LEMMA AnsweredRefines == ASSUME RefInv, NEW p \in Pipelines, Answered(p) PROVE RefInv'
<1>1. /\ awaited' = [awaited EXCEPT ![p] = 0] /\ gens' = gens /\ cached' = cached /\ onDisk' = onDisk
      /\ waited' = waited /\ fellBack' = fellBack
  BY DEF Answered
<1>2. RefTyped'
  <2>1. Len(gens) \in Nat
    BY RefLists, ListTables
  <2>2. QED
    BY <1>1, <2>1 DEF RefInv, RefTyped
<1>3. \A q \in Pipelines : awaited'[q] # 0 => awaited'[q] = awaited[q] /\ waited'[q] = waited[q]
  BY <1>1 DEF RefInv, RefTyped
<1>4. QED
  BY <1>1, <1>2, <1>3, GensStay, GoesOnRefining

LEMMA FileRefines == ASSUME RefInv, ModelFileChanges PROVE RefInv'
<1>1. /\ onDisk' = ~onDisk /\ awaited' = awaited /\ gens' = gens /\ cached' = cached
      /\ waited' = waited /\ fellBack' = fellBack
  BY DEF ModelFileChanges
<1>2. RefTyped'
  BY <1>1 DEF RefInv, RefTyped
<1>3. QED
  BY <1>1, <1>2, GensStay, GoesOnRefining

\* A turn that has waited long enough has had the work of as long beside it.
LEMMA FallBackRefines == ASSUME RefInv, NEW p \in Pipelines, FallBack(p) PROVE RefInv'
<1>1. /\ awaited[p] # 0 /\ waited[p] >= RefineTimeout /\ fellBack' = fellBack \cup {awaited[p]}
      /\ awaited' = [awaited EXCEPT ![p] = 0] /\ gens' = gens /\ cached' = cached /\ onDisk' = onDisk
      /\ waited' = waited
  BY DEF FallBack
<1>2. awaited[p] \in DOMAIN gens /\ Len(gens) \in Nat /\ waited[p] \in Nat /\ RefineTimeout \in Nat
  BY <1>1, RefLists, ListTables DEF RefInv, RefTyped
<1>3. RefTyped'
  BY <1>1, <1>2 DEF RefInv, RefTyped
<1>4. GensFit' /\ Besides'
  BY <1>1, GensStay
<1>5. Waits'
  <2>1. \A q \in Pipelines : awaited'[q] # 0 => awaited'[q] = awaited[q] /\ waited'[q] = waited[q]
    BY <1>1 DEF RefInv, RefTyped
  <2>2. QED
    BY <1>1, <2>1 DEF RefInv, Waits
<1>6. SumOver(CostsBy(gens), gens[awaited[p]].beside) >= RefineTimeout
  <2>1. waited[p] <= SumOver(UsedBy(gens), gens[awaited[p]].beside)
    BY <1>1 DEF RefInv, Waits
  <2>2. /\ SumOver(UsedBy(gens), gens[awaited[p]].beside) \in Nat
        /\ SumOver(CostsBy(gens), gens[awaited[p]].beside) \in Nat
        /\ SumOver(UsedBy(gens), gens[awaited[p]].beside) <= SumOver(CostsBy(gens), gens[awaited[p]].beside)
    <3>1. gens[awaited[p]].beside \in SUBSET DOMAIN gens
      BY <1>2 DEF RefInv, Besides
    <3>2. \A g \in DOMAIN gens : Used(gens[g]) <= Used(gens[g]) /\ Cost(gens[g]) <= Cost(gens[g])
      BY <1>1, GensStay
    <3>3. QED
      BY <3>1, <3>2, RefLists, Onward
  <2>3. QED
    BY <1>1, <1>2, <2>1, <2>2
<1>7. Fallen'
  BY <1>1, <1>6 DEF RefInv, Fallen
<1>8. QED
  BY <1>3, <1>4, <1>5, <1>7 DEF RefInv

\* A tick is spent on a generation that every waiting turn has beside its own.
LEMMA TickRefines == ASSUME RefInv, RefinerTick PROVE RefInv'
<1> DEFINE Next(g) == IF g \in Running THEN [gens[g] EXCEPT !.left = @ - 1] ELSE gens[g]
<1>1. /\ \A g \in Running : gens[g].left > 0
      /\ Running # {}
      /\ \A p \in Pipelines : awaited[p] # 0 => gens[awaited[p]].stage \notin Ended /\ waited[p] < RefineTimeout
      /\ gens' = [g \in DOMAIN gens |-> Next(g)]
      /\ waited' = [p \in Pipelines |-> IF awaited[p] = 0 THEN 0 ELSE waited[p] + 1]
      /\ UNCHANGED <<onDisk, cached, awaited, fellBack>>
  BY DEF RefinerTick, Holding
<1>2. ASSUME NEW g \in DOMAIN gens
      PROVE  /\ Next(g) \in Gen /\ Next(g).stage = gens[g].stage /\ Next(g).need = gens[g].need
             /\ Next(g).cold = gens[g].cold /\ Next(g).beside = gens[g].beside
             /\ Next(g).left = IF g \in Running THEN gens[g].left - 1 ELSE gens[g].left
             /\ Next(g).left \in Nat
  <2>1. gens[g] \in Gen /\ gens[g].left \in Nat
    BY GenAt
  <2>2. CASE g \in Running
    <3>1. gens[g].left - 1 \in Nat
      BY <1>1, <2>1, <2>2
    <3>2. QED
      BY <2>1, <2>2, <3>1 DEF Gen
  <2>3. CASE g \notin Running
    BY <2>1, <2>3
  <2>4. QED
    BY <2>2, <2>3
<1> HIDE DEF Next
<1>3. Len(gens) \in Nat /\ DOMAIN gens = 1..Len(gens) /\ RefineTimeout \in Nat
  BY RefLists, ListTables
<1>4. gens' \in Seq(Gen) /\ Len(gens') = Len(gens) /\ DOMAIN gens' = DOMAIN gens
      /\ \A g \in DOMAIN gens : gens'[g] = Next(g)
  <2>1. gens' \in [1..Len(gens) -> Gen]
    BY <1>1, <1>2, <1>3
  <2>2. gens' \in Seq(Gen)
    BY <1>3, <2>1, SeqDef
  <2>3. DOMAIN gens' = 1..Len(gens') /\ Len(gens') \in Nat
    BY <2>2, LenProperties
  <2>4. QED
    BY <1>1, <1>3, <2>1, <2>2, <2>3
<1>5. ASSUME NEW g \in DOMAIN gens
      PROVE  /\ Bounded(gens'[g]) /\ CachedFor(gens'[g], cached)
             /\ Cost(gens[g]) <= Cost(gens'[g]) /\ Used(gens[g]) <= Used(gens'[g])
             /\ g \in Running => Used(gens[g]) + 1 <= Used(gens'[g])
  <2>1. /\ gens'[g].stage = gens[g].stage /\ gens'[g].need = gens[g].need
        /\ gens'[g].cold = gens[g].cold /\ gens'[g].left \in Nat
        /\ gens'[g].left = IF g \in Running THEN gens[g].left - 1 ELSE gens[g].left
    BY <1>2, <1>4
  <2>2. /\ Bounded(gens[g]) /\ CachedFor(gens[g], cached) /\ gens[g].need \in Nat /\ gens[g].left \in Nat
        /\ LoadTicks \in Nat /\ gens[g].cold \in BOOLEAN /\ gens[g].stage \in Stages
    BY GenAt
  <2>3. g \in Running <=> gens[g].stage \in {"loading", "generating"}
    BY DEF Running
  <2>4. Extra(gens'[g]) = Extra(gens[g]) /\ Extra(gens[g]) \in Nat
    BY <2>1, <2>2 DEF Extra
  <2>5. Bounded(gens'[g]) /\ CachedFor(gens'[g], cached)
    BY <2>1, <2>2 DEF Bounded, CachedFor
  <2>6. Cost(gens'[g]) = Cost(gens[g]) /\ Cost(gens[g]) \in Nat
    BY <2>1, <2>2, <2>4 DEF Cost
  <2>7. Used(gens[g]) <= Used(gens'[g]) /\ (g \in Running => Used(gens[g]) + 1 <= Used(gens'[g]))
    BY <2>1, <2>2, <2>3, <2>4, <2>6 DEF Used, UsedAt, Bounded
  <2>8. QED
    BY <2>5, <2>6, <2>7
<1>6. GensFit'
  BY <1>1, <1>4, <1>5 DEF GensFit
<1>7. Alive' = Alive
  <2>1. \A g \in DOMAIN gens : gens'[g].stage = gens[g].stage
    BY <1>2, <1>4
  <2>2. QED
    BY <1>4, <2>1 DEF Alive
<1>8. \A g \in DOMAIN gens : gens'[g].beside = gens[g].beside
  BY <1>2, <1>4
<1>9. Besides'
  BY <1>4, <1>7, <1>8 DEF RefInv, Besides
<1>10. RefTyped'
  <2>1. waited' \in [Pipelines -> 0..RefineTimeout]
    <3>1. \A p \in Pipelines : /\ waited[p] \in 0..RefineTimeout
                               /\ awaited[p] # 0 => waited[p] + 1 \in 0..RefineTimeout
      BY <1>1, <1>3 DEF RefInv, RefTyped
    <3>2. QED
      BY <1>1, <1>3, <3>1
  <2>2. QED
    BY <1>1, <1>4, <2>1 DEF RefInv, RefTyped
<1>11. ASSUME NEW g \in DOMAIN gens
       PROVE  /\ SumOver(CostsBy(gens), gens[g].beside) <= SumOver(CostsBy(gens'), gens'[g].beside)
              /\ SumOver(CostsBy(gens), gens[g].beside) \in Nat /\ SumOver(CostsBy(gens'), gens'[g].beside) \in Nat
              /\ SumOver(UsedBy(gens), gens[g].beside) \in Nat /\ SumOver(UsedBy(gens'), gens'[g].beside) \in Nat
              /\ (\E h \in gens[g].beside : h \in Running)
                   => SumOver(UsedBy(gens), gens[g].beside) + 1 <= SumOver(UsedBy(gens'), gens'[g].beside)
  <2>1. gens[g].beside \in SUBSET DOMAIN gens /\ gens'[g].beside = gens[g].beside
    BY <1>8 DEF RefInv, Besides
  <2>2. (\A h \in DOMAIN gens' : Bounded(gens'[h])) /\ DOMAIN gens' = DOMAIN gens
    BY <1>4, <1>5
  <2>3. \A h \in DOMAIN gens : Used(gens[h]) <= Used(gens'[h]) /\ Cost(gens[h]) <= Cost(gens'[h])
    BY <1>5
  <2>4. (\E h \in gens[g].beside : h \in Running)
          => \E h \in gens[g].beside : Used(gens[h]) + 1 <= Used(gens'[h])
    BY <1>5, <2>1
  <2>5. QED
    BY <1>4, <2>1, <2>2, <2>3, <2>4, RefLists, Onward
<1>12. Fallen'
  <2>1. SUFFICES ASSUME NEW g \in fellBack
                 PROVE  SumOver(CostsBy(gens'), gens'[g].beside) >= RefineTimeout
    BY <1>1 DEF Fallen
  <2>2. g \in DOMAIN gens /\ SumOver(CostsBy(gens), gens[g].beside) >= RefineTimeout
    BY DEF RefInv, RefTyped, Fallen
  <2>3. QED
    BY <1>3, <1>11, <2>2
<1>13. ASSUME NEW p \in Pipelines, awaited[p] # 0
       PROVE  waited[p] + 1 <= SumOver(UsedBy(gens'), gens'[awaited[p]].beside)
  <2>1. awaited[p] \in DOMAIN gens /\ waited[p] \in Nat
    BY <1>3, <1>13 DEF RefInv, RefTyped
  <2>2. awaited[p] \in Alive
    BY <1>1, <1>13, <2>1 DEF Alive
  <2>3. PICK h \in Running : TRUE
    BY <1>1
  <2>4. h \in Alive
    BY DEF Running, Alive, Ended
  <2>5. h \in gens[awaited[p]].beside
    BY <2>1, <2>2, <2>4 DEF RefInv, Besides
  <2>6. waited[p] <= SumOver(UsedBy(gens), gens[awaited[p]].beside)
    BY <1>13 DEF RefInv, Waits
  <2>7. QED
    BY <1>11, <2>1, <2>5, <2>6
<1>14. Waits'
  BY <1>1, <1>13 DEF Waits
<1>15. QED
  BY <1>6, <1>9, <1>10, <1>12, <1>14 DEF RefInv

LEMMA RefInvStep == RefInv /\ [RefinerNext]_refinerVars => RefInv'
<1> SUFFICES ASSUME RefInv, [RefinerNext]_refinerVars PROVE RefInv'
  OBVIOUS
<1>1. ASSUME NEW p \in Pipelines, Refine(p) \/ Answered(p) \/ FallBack(p) PROVE RefInv'
  BY <1>1, RefineRefines, AnsweredRefines, FallBackRefines
<1>2. ASSUME NEW g \in DOMAIN gens,
             LookForModel(g) \/ TakeLock(g) \/ ModelLoaded(g) \/ Generated(g) \/ GenerateFails(g)
      PROVE  RefInv'
  BY <1>2, LookForModelRefines, TakeLockRefines, ModelLoadedRefines, GeneratedRefines, GenerateFailsRefines
<1>3. CASE ModelFileChanges
  BY <1>3, FileRefines
<1>4. CASE RefinerTick
  BY <1>4, TickRefines
<1>5. CASE UNCHANGED refinerVars
  BY <1>5 DEF refinerVars, RefInv, RefTyped, GensFit, Besides, Alive, Waits, Fallen
<1>6. QED
  BY <1>1, <1>2, <1>3, <1>4, <1>5 DEF RefinerNext

\* A turn goes on with its raw text only where the generations beside its own, and the
\* loading of the model where none had it, take as long as the timeout: for any number of
\* pipelines, any timeout and any times that loading and generating take.
THEOREM RefinedUnlessSlow == RefinerSpec => [](RefinerTypeOK /\ FallsBackForAReason)
<1>1. RefInv => RefinerTypeOK /\ FallsBackForAReason
  BY RefTypeOK, FallsBackRightly
<1>2. QED
  BY <1>1, RefInvInit, RefInvStep, PTL DEF RefinerSpec

-----------------------------------------------------------------------------
(* What a window has of a word, in absolute time.                           *)
Piece(word, start) ==
  [start |-> IF word.start < start THEN start ELSE word.start,
   end |-> IF word.end > start + WindowSecs THEN start + WindowSecs ELSE word.end,
   text |-> word.text]

LEMMA Secs ==
  ASSUME FaithfulBackend
  PROVE  /\ WindowSecs \in Nat /\ OverlapSecs \in Nat /\ StepSecs \in Nat \ {0} /\ LastStart \in Nat
         /\ WindowSecs = StepSecs + OverlapSecs /\ 2 * OverlapSecs <= StepSecs
BY WindowAssumption DEF FaithfulBackend, StepSecs

LEMMA PieceOf ==
  ASSUME FaithfulBackend, NEW word \in Segment, word.start < word.end, NEW start \in Nat, Heard(word, start)
  PROVE  /\ Piece(word, start) \in Segment /\ Piece(word, start).text = word.text
         /\ Piece(word, start).start < Piece(word, start).end
         /\ word.start <= Piece(word, start).start /\ Piece(word, start).end <= word.end
         /\ start <= Piece(word, start).start /\ Piece(word, start).end <= start + WindowSecs
         /\ Piece(word, start).start \in {word.start, start}
         /\ WholeIn(word, start) => /\ Piece(word, start).start = word.start
                                    /\ Piece(word, start).end = word.end
         /\ Clipped(word, start) \in Segment
         /\ start + Clipped(word, start).start = Piece(word, start).start
         /\ start + Clipped(word, start).end = Piece(word, start).end
         /\ Clipped(word, start).text = word.text
         /\ word.start < start + WindowSecs /\ start < word.end
<1>1. WindowSecs \in Nat
  BY Secs
<1>2. word.start \in Nat /\ word.end \in Nat /\ word.text \in STRING
  BY DEF Segment
<1>3. word.start < start + WindowSecs /\ start < word.end
  BY DEF Heard, TimeRangesOverlap
<1>4. PICK from \in Nat : from = IF word.start < start THEN start ELSE word.start
  BY <1>2
<1>5. PICK to \in Nat : to = IF word.end > start + WindowSecs THEN start + WindowSecs ELSE word.end
  BY <1>1, <1>2
<1> DEFINE wordStart == word.start
           wordEnd == word.end
           secs == WindowSecs
<1> HIDE DEF wordStart, wordEnd, secs
<1>a. wordStart \in Nat /\ wordEnd \in Nat /\ secs \in Nat /\ wordStart < wordEnd
      /\ wordStart < start + secs /\ start < wordEnd /\ 0 < secs
  BY <1>1, <1>2, <1>3, Secs DEF wordStart, wordEnd, secs
<1>b. from = IF wordStart < start THEN start ELSE wordStart
  BY <1>4 DEF wordStart
<1>c. to = IF wordEnd > start + secs THEN start + secs ELSE wordEnd
  BY <1>5 DEF wordEnd, secs
<1>d. /\ from < to /\ wordStart <= from /\ to <= wordEnd /\ start <= from /\ to <= start + secs
      /\ from \in {wordStart, start} /\ from - start \in Nat /\ to - start \in Nat
  BY <1>a, <1>b, <1>c
<1>e. start <= wordStart /\ wordEnd <= start + secs => from = wordStart /\ to = wordEnd
  BY <1>a, <1>b, <1>c
<1>6. /\ from < to /\ word.start <= from /\ to <= word.end /\ start <= from /\ to <= start + WindowSecs
      /\ from \in {word.start, start} /\ from - start \in Nat /\ to - start \in Nat
      /\ WholeIn(word, start) => from = word.start /\ to = word.end
  BY <1>d, <1>e DEF wordStart, wordEnd, secs, WholeIn
<1>7. Piece(word, start) = [start |-> from, end |-> to, text |-> word.text]
  BY <1>4, <1>5 DEF Piece
<1>8. Clipped(word, start) = [start |-> from - start, end |-> to - start, text |-> word.text]
  BY <1>4, <1>5 DEF Clipped
<1>9. Piece(word, start) \in Segment /\ Clipped(word, start) \in Segment
  BY <1>2, <1>6, <1>7, <1>8 DEF Segment
<1>10. QED
  BY <1>3, <1>6, <1>7, <1>8, <1>9

LEMMA SameSegment ==
  ASSUME NEW a \in Segment, NEW b \in Segment, a.start = b.start, a.end = b.end, a.text = b.text
  PROVE  a = b
BY DEF Segment

LEMMA ShiftIs ==
  ASSUME NEW segment \in Segment, NEW by \in Nat
  PROVE  /\ Shift(segment, by).start = segment.start + by /\ Shift(segment, by).end = segment.end + by
         /\ Shift(segment, by).text = segment.text
<1>1. segment.start + by \in Nat /\ segment.end + by \in Nat
  BY DEF Segment
<1>2. QED
  BY <1>1 DEF Shift, Segment

LEMMA ShiftedPiece ==
  ASSUME FaithfulBackend, NEW word \in Segment, word.start < word.end, NEW start \in Nat, Heard(word, start)
  PROVE  Shift(Clipped(word, start), start) = Piece(word, start)
<1>1. /\ Clipped(word, start) \in Segment /\ Piece(word, start) \in Segment
      /\ start + Clipped(word, start).start = Piece(word, start).start
      /\ start + Clipped(word, start).end = Piece(word, start).end
      /\ Clipped(word, start).text = Piece(word, start).text
  BY PieceOf
<1>2. Clipped(word, start).start \in Nat /\ Clipped(word, start).end \in Nat
  BY <1>1 DEF Segment
<1>3. /\ Shift(Clipped(word, start), start) \in Segment
      /\ Shift(Clipped(word, start), start).start = Clipped(word, start).start + start
      /\ Shift(Clipped(word, start), start).end = Clipped(word, start).end + start
      /\ Shift(Clipped(word, start), start).text = Clipped(word, start).text
  BY <1>1, ShiftTyped, ShiftIs
<1>4. QED
  BY <1>1, <1>2, <1>3, SameSegment

\* A segment that comes in order is not moved.
LEMMA NotClamped ==
  ASSUME NEW segment \in Segment, NEW prev \in Segment, prev.start <= segment.start, segment.start <= segment.end
  PROVE  Clamp(segment, prev) = segment
<1>1. segment.start \in Nat /\ segment.end \in Nat /\ prev.start \in Nat
  BY DEF Segment
<1>2. AtLeast(segment.start, prev.start) = segment.start /\ AtLeast(segment.end, segment.start) = segment.end
  BY <1>1 DEF AtLeast
<1>3. QED
  BY <1>2 DEF Clamp, Segment

\* The words that are said.
LEMMA WordIndex ==
  ASSUME FaithfulBackend, words \in Timelines
  PROVE  \A n \in DOMAIN words : n \in Nat /\ words[n] \in Segment
<1>1. words \in Seq(Segment)
  BY DEF FaithfulBackend
<1>2. QED
  BY <1>1, LenProperties, ElementOfSeq

LEMMA WordAt ==
  ASSUME FaithfulBackend, words \in Timelines, NEW n \in DOMAIN words
  PROVE  /\ words[n] \in Segment /\ words[n].start \in Nat /\ words[n].end \in Nat
         /\ words[n].start < words[n].end /\ words[n].end <= words[n].start + OverlapSecs
         /\ \A m \in DOMAIN words : m < n => words[m].end <= words[n].start
<1>1. /\ words[n].start < words[n].end /\ words[n].end <= words[n].start + OverlapSecs
      /\ \A m \in DOMAIN words : m < n => words[m].end <= words[n].start
  BY DEF FaithfulBackend
<1>2. words[n] \in Segment
  BY WordIndex
<1>3. QED
  BY <1>1, <1>2 DEF Segment

\* Words are apart, and so what is within one overlaps no other.
LEMMA OneWord ==
  ASSUME FaithfulBackend, words \in Timelines, NEW m \in DOMAIN words, NEW n \in DOMAIN words,
         m \in Nat, n \in Nat,
         NEW a \in Segment, words[m].start <= a.start, a.end <= words[m].end,
         NEW b \in Segment, words[n].start <= b.start, b.end <= words[n].end,
         TimeRangesOverlap(a, b)
  PROVE  m = n
<1>1. /\ a.start \in Nat /\ a.end \in Nat /\ b.start \in Nat /\ b.end \in Nat
      /\ a.start < b.end /\ b.start < a.end
  BY DEF Segment, TimeRangesOverlap
<1>2. CASE m < n
  <2>1. words[m].end <= words[n].start /\ words[m].end \in Nat /\ words[n].start \in Nat
    BY <1>2, WordAt
  <2>2. QED
    BY <1>1, <2>1
<1>3. CASE n < m
  <2>1. words[n].end <= words[m].start /\ words[n].end \in Nat /\ words[m].start \in Nat
    BY <1>3, WordAt
  <2>2. QED
    BY <1>1, <2>1
<1>4. QED
  BY <1>2, <1>3

-----------------------------------------------------------------------------
(* Stitching: the segments are pieces of the words, in the windows they were *)
(* heard in, and no two of them overlap.                                    *)
PushedApart ==
  /\ \A s \in pushed : s <= windowStart /\ s + StepSecs <= nextStart
  /\ \A s, t \in pushed : s < t => s + StepSecs <= t
  /\ pushed # {} => windowStart \in pushed
  /\ pushed = {} => pending = <<>> /\ segments = <<>>

IsPiece(i, n, s) ==
  /\ Heard(words[n], s) /\ segments[i] = Piece(words[n], s)
  /\ i <= existing => s < windowStart
  /\ i > existing => s = windowStart

Pieces == \A i \in DOMAIN segments : \E n \in DOMAIN words, s \in pushed : IsPiece(i, n, s)

SegmentsApart == \A i, j \in DOMAIN segments : i # j => ~TimeRangesOverlap(segments[i], segments[j])

Coming ==
  /\ \A k \in DOMAIN pending : \E n \in DOMAIN words :
       Heard(words[n], windowStart) /\ pending[k] = Clipped(words[n], windowStart)
  /\ \A k, l \in DOMAIN pending : k < l => pending[k].end <= pending[l].start
  /\ \A i \in DOMAIN segments, k \in DOMAIN pending :
       i > existing => segments[i].end <= windowStart + pending[k].start

TellsBefore(i, n, s) == Tells(words[n], segments[i]) /\ (s < windowStart => i <= existing)

ToldOrComing ==
  \A n \in DOMAIN words, s \in pushed : WholeIn(words[n], s) =>
    \/ s = windowStart /\ \E k \in DOMAIN pending : pending[k] = Clipped(words[n], s)
    \/ \E i \in DOMAIN segments : TellsBefore(i, n, s)

WordsInv ==
  /\ RollingTypeOK
  /\ words # <<>> => PushedApart /\ Pieces /\ SegmentsApart /\ Coming /\ ToldOrComing

LEMMA RollingNumbers ==
  ASSUME FaithfulBackend, RollingTypeOK
  PROVE  /\ words \in Timelines /\ windowStart \in Nat /\ nextStart \in Nat
         /\ \A s \in pushed : s \in Nat
         /\ Len(segments) \in Nat /\ DOMAIN segments = 1..Len(segments) /\ existing \in 0..Len(segments)
         /\ \A i \in DOMAIN segments : segments[i] \in Segment /\ i \in Nat
         /\ Len(pending) \in Nat /\ DOMAIN pending = 1..Len(pending)
         /\ \A k \in DOMAIN pending : pending[k] \in Segment /\ k \in Nat
<1>1. LastStart \in Nat
  BY Secs
<1>2. QED
  BY <1>1, LenProperties, ElementOfSeq DEF RollingTypeOK

\* No more than two of the windows pushed reach a word.
LEMMA TwoWindowsReach ==
  ASSUME FaithfulBackend, RollingTypeOK, PushedApart, NEW n \in DOMAIN words,
         NEW s \in pushed, NEW t \in pushed, NEW u \in pushed, s < t, t < u,
         Heard(words[n], s), Heard(words[n], u)
  PROVE  FALSE
<1>1. s \in Nat /\ t \in Nat /\ u \in Nat /\ words \in Timelines
  BY RollingNumbers
<1>2. s + StepSecs <= t /\ t + StepSecs <= u
  BY DEF PushedApart
<1>3. /\ words[n].start \in Nat /\ words[n].end \in Nat /\ words[n].end <= words[n].start + OverlapSecs
      /\ words[n] \in Segment /\ words[n].start < words[n].end
  BY <1>1, WordAt
<1>4. words[n].start < s + WindowSecs /\ u < words[n].end
  BY <1>1, <1>3, PieceOf
<1>5. PICK p \in Nat, o \in Nat : p = StepSecs /\ o = OverlapSecs /\ WindowSecs = p + o /\ 2 * o <= p
  BY Secs
<1>6. s + p <= t /\ t + p <= u /\ words[n].start < s + (p + o) /\ words[n].end <= words[n].start + o
  BY <1>2, <1>3, <1>4, <1>5
<1>7. u < words[n].start + o /\ s + p + p <= u
  BY <1>1, <1>3, <1>4, <1>6
<1>8. QED
  BY <1>1, <1>3, <1>5, <1>6, <1>7

\* Which word a segment is a piece of.
LEMMA PieceTold ==
  ASSUME FaithfulBackend, WordsInv, words # <<>>, NEW i \in DOMAIN segments, NEW n \in DOMAIN words,
         n \in Nat, NEW b \in Segment, words[n].start <= b.start, b.end <= words[n].end,
         TimeRangesOverlap(segments[i], b)
  PROVE  \E s \in pushed : IsPiece(i, n, s)
<1>1. PICK m \in DOMAIN words, s \in pushed : IsPiece(i, m, s)
  BY DEF WordsInv, Pieces
<1>2. words \in Timelines /\ s \in Nat /\ segments[i] \in Segment
  BY RollingNumbers DEF WordsInv
<1>3. words[m] \in Segment /\ words[m].start < words[m].end
  BY <1>2, WordAt
<1>4. words[m].start <= segments[i].start /\ segments[i].end <= words[m].end
  BY <1>1, <1>2, <1>3, PieceOf DEF IsPiece
<1>5. m \in Nat
  BY <1>2, WordIndex
<1>6. m = n
  BY <1>2, <1>4, <1>5, OneWord
<1>7. QED
  BY <1>1, <1>6

-----------------------------------------------------------------------------
LEMMA PieceFacts ==
  ASSUME FaithfulBackend, RollingTypeOK, NEW n \in DOMAIN words, NEW s \in Nat, Heard(words[n], s)
  PROVE  /\ Piece(words[n], s) \in Segment /\ Piece(words[n], s).text = words[n].text
         /\ Piece(words[n], s).start \in Nat /\ Piece(words[n], s).end \in Nat
         /\ Piece(words[n], s).start < Piece(words[n], s).end
         /\ words[n].start <= Piece(words[n], s).start /\ Piece(words[n], s).end <= words[n].end
         /\ s <= Piece(words[n], s).start
         /\ Piece(words[n], s).start \in {words[n].start, s}
         /\ TimeRangesOverlap(words[n], Piece(words[n], s))
         /\ TimeRangesOverlap(Piece(words[n], s), words[n])
<1>1. /\ words[n] \in Segment /\ words[n].start < words[n].end
      /\ words[n].start \in Nat /\ words[n].end \in Nat
  BY RollingNumbers, WordAt
<1>2. /\ Piece(words[n], s) \in Segment /\ Piece(words[n], s).text = words[n].text
      /\ Piece(words[n], s).start < Piece(words[n], s).end
      /\ words[n].start <= Piece(words[n], s).start /\ Piece(words[n], s).end <= words[n].end
      /\ s <= Piece(words[n], s).start
      /\ Piece(words[n], s).start \in {words[n].start, s}
  BY <1>1, PieceOf
<1>3. Piece(words[n], s).start \in Nat /\ Piece(words[n], s).end \in Nat
  BY <1>2 DEF Segment
<1>4. PICK a \in Nat, b \in Nat, c \in Nat, d \in Nat :
        /\ a = words[n].start /\ b = words[n].end /\ c = Piece(words[n], s).start /\ d = Piece(words[n], s).end
  BY <1>1, <1>3
<1>5. a < d /\ c < b
  BY <1>1, <1>2, <1>4
<1>6. QED
  BY <1>2, <1>3, <1>4, <1>5 DEF TimeRangesOverlap

\* A word after one heard in an earlier window lies whole in that window, when the
\* window stitched now reaches it.
LEMMA EarlierIsWhole ==
  ASSUME FaithfulBackend, RollingTypeOK, PushedApart, pushed # {}, NEW t \in pushed, t < windowStart,
         NEW n \in DOMAIN words, Heard(words[n], windowStart),
         NEW m \in DOMAIN words, n < m, Heard(words[m], t)
  PROVE  WholeIn(words[n], t) /\ Heard(words[n], t)
<1>1. t \in Nat /\ windowStart \in Nat /\ words \in Timelines /\ m \in Nat /\ n \in Nat
  BY RollingNumbers, WordIndex
<1>2. /\ words[n] \in Segment /\ words[n].start < words[n].end
      /\ words[m] \in Segment /\ words[m].start < words[m].end
      /\ words[n].end <= words[n].start + OverlapSecs
      /\ words[n].end <= words[m].start
      /\ words[n].start \in Nat /\ words[n].end \in Nat /\ words[m].start \in Nat
  BY <1>1, WordAt
<1>3. words[m].start < t + WindowSecs /\ windowStart < words[n].end
  BY <1>1, <1>2, PieceOf
<1>4. t + StepSecs <= windowStart
  BY DEF PushedApart
<1>5. PICK a \in Nat, b \in Nat, c \in Nat, p \in Nat, o \in Nat :
        /\ a = words[n].start /\ b = words[n].end /\ c = words[m].start
        /\ p = StepSecs /\ o = OverlapSecs /\ WindowSecs = p + o /\ 2 * o <= p
  BY <1>2, Secs
<1>6. /\ b <= a + o /\ b <= c /\ a < b /\ c < t + (p + o) /\ windowStart < b /\ t + p <= windowStart
  BY <1>2, <1>3, <1>4, <1>5
<1>7. t <= a /\ b <= t + (p + o) /\ a < t + (p + o) /\ t < b
  BY <1>1, <1>5, <1>6
<1>8. QED
  BY <1>5, <1>7 DEF WholeIn, Heard, TimeRangesOverlap

\* What is heard in an earlier window as well, whole, is a duplicate of the seam now.
LEMMA ToldAlready ==
  ASSUME FaithfulBackend, WordsInv, words # <<>>, NEW t \in pushed, t < windowStart, windowStart \in pushed,
         NEW n \in DOMAIN words, Heard(words[n], windowStart), Heard(words[n], t), WholeIn(words[n], t)
  PROVE  IsSeamDuplicate(Before, Piece(words[n], windowStart))
<1>1. /\ t \in Nat /\ windowStart \in Nat /\ words \in Timelines /\ n \in Nat /\ RollingTypeOK /\ PushedApart
      /\ \A s \in pushed : s \in Nat
  BY RollingNumbers, WordIndex DEF WordsInv
<1>2. PICK j \in DOMAIN segments : TellsBefore(j, n, t)
  BY <1>1 DEF WordsInv, ToldOrComing
<1>3. j <= existing /\ j \in 1..existing /\ segments[j] \in Before
  BY <1>1, <1>2, RollingNumbers DEF TellsBefore, Before
<1>4. TimeRangesOverlap(words[n], segments[j]) /\ words[n].text = segments[j].text
  BY <1>2 DEF TellsBefore, Tells
<1>5. TimeRangesOverlap(segments[j], words[n]) /\ words[n] \in Segment
  BY <1>1, <1>4, WordIndex DEF TimeRangesOverlap
<1>6. words[n].start <= words[n].start /\ words[n].end <= words[n].end
  BY <1>5 DEF Segment
<1>7. PICK u \in pushed : IsPiece(j, n, u)
  BY <1>1, <1>5, <1>6, PieceTold
<1>8. u < windowStart /\ u \in Nat /\ Heard(words[n], u) /\ segments[j] = Piece(words[n], u)
  BY <1>1, <1>3, <1>7 DEF IsPiece
<1>9. ~(u < t)
  BY <1>1, <1>8, TwoWindowsReach
<1>10. ~(t < u)
  BY <1>1, <1>8, TwoWindowsReach
<1>11. u = t
  BY <1>1, <1>8, <1>9, <1>10
<1>12. segments[j].start = words[n].start /\ segments[j].end = words[n].end
  <2>1. words[n].start < words[n].end
    BY <1>1, WordAt
  <2>2. QED
    BY <1>1, <1>5, <1>8, <1>11, <2>1, PieceOf
<1>13. TimeRangesOverlap(segments[j], Piece(words[n], windowStart))
  BY <1>1, <1>12, PieceFacts DEF TimeRangesOverlap
<1>14. segments[j].text = Piece(words[n], windowStart).text
  BY <1>1, <1>4, PieceFacts
<1>15. QED
  BY <1>3, <1>13, <1>14 DEF IsSeamDuplicate

\* What is no duplicate comes after everything there is.
LEMMA ComesAfter ==
  ASSUME FaithfulBackend, WordsInv, words # <<>>, pending # <<>>,
         NEW n \in DOMAIN words, Heard(words[n], windowStart), pending[1] = Clipped(words[n], windowStart),
         ~IsSeamDuplicate(Before, Piece(words[n], windowStart)),
         NEW i \in DOMAIN segments
  PROVE  /\ segments[i].start <= Piece(words[n], windowStart).start
         /\ ~TimeRangesOverlap(segments[i], Piece(words[n], windowStart))
<1>1. /\ RollingTypeOK /\ PushedApart /\ windowStart \in pushed /\ windowStart \in Nat /\ words \in Timelines
      /\ n \in Nat /\ i \in Nat /\ segments[i] \in Segment /\ existing \in Nat /\ 1 \in DOMAIN pending
      /\ \A s \in pushed : s \in Nat
  <2>1. RollingTypeOK /\ PushedApart
    BY DEF WordsInv
  <2>2. pushed # {}
    BY <2>1 DEF PushedApart
  <2>3. pending \in Seq(Segment)
    BY <2>1 DEF RollingTypeOK
  <2>4. Len(pending) \in Nat \ {0} /\ 1 \in DOMAIN pending
    BY <2>3, EmptySeq, LenProperties
  <2>5. QED
    BY <2>1, <2>2, <2>4, RollingNumbers, WordIndex DEF PushedApart
<1>2. PICK p \in Segment : p = Piece(words[n], windowStart)
  BY <1>1, PieceFacts
<1>3. /\ p.start \in Nat /\ p.end \in Nat /\ p.start < p.end /\ p.text = words[n].text
      /\ words[n].start <= p.start /\ p.end <= words[n].end
      /\ words[n].start \in Nat /\ words[n].end \in Nat
      /\ windowStart <= p.start /\ p.start \in {words[n].start, windowStart}
  BY <1>1, <1>2, PieceFacts, WordAt
<1>4. PICK m \in DOMAIN words, t \in pushed : IsPiece(i, m, t)
  BY DEF WordsInv, Pieces
<1>5. /\ Heard(words[m], t) /\ segments[i] = Piece(words[m], t) /\ t \in Nat
      /\ m \in Nat /\ words[m].start \in Nat /\ words[m].end \in Nat
      /\ segments[i].start \in Nat /\ segments[i].end \in Nat /\ segments[i].start < segments[i].end
      /\ words[m].start <= segments[i].start /\ segments[i].end <= words[m].end
      /\ t <= segments[i].start /\ segments[i].start \in {words[m].start, t}
      /\ segments[i].text = words[m].text
  BY <1>1, <1>4, PieceFacts, WordAt, WordIndex DEF IsPiece
<1>6. CASE i > existing
  <2>1. segments[i].end <= windowStart + pending[1].start
    BY <1>1, <1>6 DEF WordsInv, Coming
  <2>2. windowStart + pending[1].start = p.start
    BY <1>1, <1>2, WordAt, PieceOf
  <2>3. segments[i].end <= p.start
    BY <2>1, <2>2
  <2>4. QED
    BY <1>2, <1>3, <1>5, <2>3 DEF TimeRangesOverlap
<1>7. CASE i <= existing
  <2>1. t < windowStart /\ segments[i] \in Before
    BY <1>1, <1>4, <1>7, RollingNumbers DEF IsPiece, Before
  <2>2. ~TimeRangesOverlap(segments[i], p)
    <3>1. SUFFICES ASSUME TimeRangesOverlap(segments[i], p) PROVE FALSE
      OBVIOUS
    <3>2. m = n
      BY <1>1, <1>3, <1>5, <3>1, OneWord
    <3>3. QED
      BY <1>2, <1>3, <1>5, <2>1, <3>1, <3>2 DEF IsSeamDuplicate
  <2>3. CASE m = n
    BY <1>2, <1>3, <1>5, <2>1, <2>2, <2>3, <1>1
  <2>4. CASE m < n
    <3>1. words[m].end <= words[n].start
      BY <1>1, <2>4, WordAt
    <3>2. QED
      BY <1>2, <1>3, <1>5, <2>2, <3>1
  <2>5. CASE n < m
    <3>1. WholeIn(words[n], t) /\ Heard(words[n], t)
      BY <1>1, <1>5, <2>1, <2>5, EarlierIsWhole
    <3>2. QED
      BY <1>1, <2>1, <3>1, ToldAlready
  <2>6. QED
    BY <1>1, <1>5, <2>3, <2>4, <2>5
<1>8. QED
  BY <1>1, <1>6, <1>7

-----------------------------------------------------------------------------
(* A step of stitching: the next word heard is a duplicate, or is told.      *)
Behind(n) ==
  /\ Heard(words[n], windowStart) /\ pending[1] = Clipped(words[n], windowStart)
  /\ UNCHANGED <<words, windowStart, nextStart, existing, pushed>>
  /\ Len(pending') = Len(pending) - 1 /\ DOMAIN pending' = 1..(Len(pending) - 1)
  /\ \A k \in DOMAIN pending' : k + 1 \in DOMAIN pending /\ pending'[k] = pending[k + 1]

NowTold(n) ==
  /\ DOMAIN segments' = 1..(Len(segments) + 1)
  /\ \A i \in DOMAIN segments : segments'[i] = segments[i]
  /\ segments'[Len(segments) + 1] = Piece(words[n], windowStart)

LEMMA Stitched ==
  ASSUME FaithfulBackend, WordsInv, words # <<>>, StitchSegment
  PROVE  \E n \in DOMAIN words :
           /\ Behind(n)
           /\ \/ IsSeamDuplicate(Before, Piece(words[n], windowStart)) /\ UNCHANGED segments
              \/ ~IsSeamDuplicate(Before, Piece(words[n], windowStart)) /\ NowTold(n)
<1>1. /\ RollingTypeOK /\ pending \in Seq(Segment) /\ segments \in Seq(Segment) /\ pending # <<>>
      /\ windowStart \in Nat /\ words \in Timelines
  BY RollingNumbers DEF WordsInv, RollingTypeOK, StitchSegment
<1>2. Len(pending) \in Nat \ {0} /\ 1 \in DOMAIN pending /\ Head(pending) = pending[1]
  BY <1>1, EmptySeq, LenProperties
<1>3. PICK n \in DOMAIN words : Heard(words[n], windowStart) /\ pending[1] = Clipped(words[n], windowStart)
  BY <1>2 DEF WordsInv, Coming
<1>4. words[n] \in Segment /\ words[n].start < words[n].end
  BY <1>1, WordAt
<1>5. Shift(Head(pending), windowStart) = Piece(words[n], windowStart)
  BY <1>1, <1>2, <1>3, <1>4, ShiftedPiece
<1>6. PICK p \in Segment : p = Piece(words[n], windowStart)
  BY <1>1, PieceFacts, <1>3
<1>7. Behind(n)
  <2>1. /\ Tail(pending) \in Seq(Segment) /\ Len(Tail(pending)) = Len(pending) - 1
        /\ \A i \in 1..Len(Tail(pending)) : Tail(pending)[i] = pending[i + 1]
    BY <1>1, HeadTailProperties
  <2>2. pending' = Tail(pending)
    BY DEF StitchSegment
  <2>3. /\ Len(pending') = Len(pending) - 1 /\ DOMAIN pending' = 1..(Len(pending) - 1)
        /\ \A i \in 1..(Len(pending) - 1) : pending'[i] = pending[i + 1]
    BY <2>1, <2>2, LenProperties
  <2>4. \A k \in DOMAIN pending' : k + 1 \in DOMAIN pending
    BY <1>1, <1>2, <2>3, LenProperties
  <2>5. QED
    BY <1>3, <2>3, <2>4 DEF StitchSegment, Behind
<1>8. CASE IsSeamDuplicate(Before, p)
  <2>1. UNCHANGED segments
    BY <1>5, <1>6, <1>8 DEF StitchSegment
  <2>2. QED
    BY <1>6, <1>7, <1>8, <2>1
<1>9. CASE ~IsSeamDuplicate(Before, p)
  <2>1. segments' = Append(segments, p)
    <3>1. CASE segments = <<>>
      BY <1>5, <1>6, <1>9, <3>1 DEF StitchSegment
    <3>2. CASE segments # <<>>
      <4>1. Len(segments) \in DOMAIN segments
        BY <1>1, <3>2, EmptySeq, LenProperties
      <4>2. segments[Len(segments)].start <= p.start /\ segments[Len(segments)] \in Segment
        BY <1>1, <1>3, <1>6, <1>9, <4>1, ComesAfter, RollingNumbers
      <4>3. p.start <= p.end
        BY <1>1, <1>3, <1>6, PieceFacts
      <4>4. PICK last \in Segment : last = segments[Len(segments)]
        BY <4>2
      <4>5. Clamp(p, last) = p
        BY <4>2, <4>3, <4>4, NotClamped
      <4>6. segments' = Append(segments, Clamp(p, last))
        BY <1>5, <1>6, <1>9, <3>2, <4>4 DEF StitchSegment
      <4>7. QED
        BY <4>5, <4>6
    <3>3. QED
      BY <3>1, <3>2
  <2>2. NowTold(n)
    <3>1. /\ Append(segments, p) \in Seq(Segment) /\ Len(Append(segments, p)) = Len(segments) + 1
          /\ \A i \in 1..Len(segments) : Append(segments, p)[i] = segments[i]
          /\ Append(segments, p)[Len(segments) + 1] = p
      BY <1>1, AppendProperties
    <3>2. DOMAIN segments' = 1..(Len(segments) + 1)
      BY <2>1, <3>1, LenProperties
    <3>3. DOMAIN segments = 1..Len(segments)
      BY <1>1, LenProperties
    <3>4. QED
      BY <1>6, <2>1, <3>1, <3>2, <3>3 DEF NowTold
  <2>3. QED
    BY <1>6, <1>7, <1>9, <2>2
<1>10. QED
  BY <1>8, <1>9

LEMMA StitchKeepsApart ==
  ASSUME FaithfulBackend, WordsInv, words # <<>>, StitchSegment
  PROVE  PushedApart' /\ Pieces' /\ SegmentsApart'
<1>1. PICK n \in DOMAIN words :
           /\ Behind(n)
           /\ \/ IsSeamDuplicate(Before, Piece(words[n], windowStart)) /\ UNCHANGED segments
              \/ ~IsSeamDuplicate(Before, Piece(words[n], windowStart)) /\ NowTold(n)
  BY Stitched
<1>2. /\ RollingTypeOK /\ PushedApart /\ Pieces /\ SegmentsApart /\ pushed # {} /\ pending # <<>>
      /\ windowStart \in pushed
  BY DEF WordsInv, StitchSegment, PushedApart
<1>3. UNCHANGED <<words, windowStart, nextStart, existing, pushed>>
  BY <1>1 DEF Behind
<1>4. PushedApart'
  BY <1>2, <1>3 DEF PushedApart
<1>5. /\ DOMAIN segments = 1..Len(segments) /\ Len(segments) \in Nat /\ existing \in 0..Len(segments)
      /\ \A i \in DOMAIN segments : segments[i] \in Segment /\ i \in Nat
      /\ windowStart \in Nat
  BY <1>2, RollingNumbers
<1>6. CASE UNCHANGED segments
  BY <1>2, <1>3, <1>4, <1>6 DEF Pieces, IsPiece, SegmentsApart
<1>7. CASE ~IsSeamDuplicate(Before, Piece(words[n], windowStart)) /\ NowTold(n)
  <2>1. Heard(words[n], windowStart) /\ pending[1] = Clipped(words[n], windowStart)
    BY <1>1 DEF Behind
  <2>2. ASSUME NEW i \in DOMAIN segments'
        PROVE  \/ i \in DOMAIN segments /\ segments'[i] = segments[i]
               \/ i = Len(segments) + 1 /\ segments'[i] = Piece(words[n], windowStart)
    <3>1. NowTold(n)
      BY <1>7
    <3>2. i \in 1..(Len(segments) + 1)
      BY <2>2, <3>1 DEF NowTold
    <3>3. i \in DOMAIN segments \/ i = Len(segments) + 1
      BY <1>5, <3>2
    <3>4. CASE i \in DOMAIN segments
      <4>1. segments'[i] = segments[i]
        BY <3>1, <3>4 DEF NowTold
      <4>2. QED
        BY <3>4, <4>1
    <3>5. CASE i = Len(segments) + 1
      <4>1. segments'[Len(segments) + 1] = Piece(words[n], windowStart)
        BY <3>1 DEF NowTold
      <4>2. QED
        BY <3>5, <4>1
    <3>6. QED
      BY <3>3, <3>4, <3>5
  <2>3. Pieces'
    <3>1. SUFFICES ASSUME NEW i \in DOMAIN segments'
                   PROVE  \E m \in DOMAIN words, s \in pushed : IsPiece(i, m, s)'
      BY <1>3 DEF Pieces
    <3>2. CASE i \in DOMAIN segments /\ segments'[i] = segments[i]
      <4>1. PICK m \in DOMAIN words, s \in pushed : IsPiece(i, m, s)
        BY <1>2, <3>2 DEF Pieces
      <4>2. IsPiece(i, m, s)'
        BY <1>3, <3>2, <4>1 DEF IsPiece
      <4>3. QED
        BY <4>2
    <3>3. CASE i = Len(segments) + 1 /\ segments'[i] = Piece(words[n], windowStart)
      <4>1. i > existing /\ ~(i <= existing)
        BY <1>5, <3>3
      <4>2. PICK w \in pushed : w = windowStart
        BY <1>2
      <4>3. IsPiece(i, n, w)'
        BY <1>3, <2>1, <3>3, <4>1, <4>2 DEF IsPiece, Piece, Heard
      <4>4. QED
        BY <4>3
    <3>4. QED
      BY <2>2, <3>2, <3>3
  <2>4. ASSUME NEW i \in DOMAIN segments
        PROVE  /\ ~TimeRangesOverlap(segments[i], Piece(words[n], windowStart))
               /\ ~TimeRangesOverlap(Piece(words[n], windowStart), segments[i])
    <3>1. ~TimeRangesOverlap(segments[i], Piece(words[n], windowStart))
      BY <1>2, <1>7, <2>1, ComesAfter
    <3>2. QED
      BY <3>1 DEF TimeRangesOverlap
  <2>5. SegmentsApart'
    <3>1. SUFFICES ASSUME NEW i \in DOMAIN segments', NEW j \in DOMAIN segments', i # j
                   PROVE  ~TimeRangesOverlap(segments'[i], segments'[j])
      BY DEF SegmentsApart
    <3>2. CASE i \in DOMAIN segments /\ j \in DOMAIN segments /\ segments'[i] = segments[i] /\ segments'[j] = segments[j]
      BY <1>2, <3>1, <3>2 DEF SegmentsApart
    <3>3. QED
      BY <2>2, <2>4, <3>1, <3>2
  <2>6. QED
    BY <1>4, <2>3, <2>5
<1>8. QED
  BY <1>1, <1>6, <1>7

LEMMA StitchKeepsComing ==
  ASSUME FaithfulBackend, WordsInv, words # <<>>, StitchSegment
  PROVE  Coming'
<1>1. PICK n \in DOMAIN words :
           /\ Behind(n)
           /\ UNCHANGED segments \/ NowTold(n)
  BY Stitched
<1>2. RollingTypeOK /\ Coming /\ 1 \in DOMAIN pending
  <2>1. RollingTypeOK /\ Coming /\ pending # <<>> /\ pending \in Seq(Segment)
    BY DEF WordsInv, StitchSegment, RollingTypeOK
  <2>2. QED
    BY <2>1, EmptySeq, LenProperties
<1>3. /\ UNCHANGED <<words, windowStart, nextStart, existing, pushed>>
      /\ \A k \in DOMAIN pending' : k + 1 \in DOMAIN pending /\ pending'[k] = pending[k + 1]
      /\ Heard(words[n], windowStart) /\ pending[1] = Clipped(words[n], windowStart)
      /\ DOMAIN pending' = 1..(Len(pending) - 1)
  BY <1>1 DEF Behind
<1>4. /\ DOMAIN segments = 1..Len(segments) /\ Len(segments) \in Nat /\ existing \in 0..Len(segments)
      /\ windowStart \in Nat /\ words \in Timelines /\ Len(pending) \in Nat
      /\ \A k \in DOMAIN pending : pending[k] \in Segment /\ k \in Nat
  BY <1>2, RollingNumbers
<1>5. \A k \in DOMAIN pending' : \E m \in DOMAIN words :
        Heard(words[m], windowStart) /\ pending'[k] = Clipped(words[m], windowStart)
  BY <1>2, <1>3 DEF Coming
<1>6. \A k, l \in DOMAIN pending' : k < l => pending'[k].end <= pending'[l].start
  <2>1. SUFFICES ASSUME NEW k \in DOMAIN pending', NEW l \in DOMAIN pending', k < l
                 PROVE  pending'[k].end <= pending'[l].start
    OBVIOUS
  <2>2. k + 1 < l + 1
    BY <1>3, <1>4, <2>1
  <2>3. QED
    BY <1>2, <1>3, <2>2 DEF Coming
<1>7. \A i \in DOMAIN segments', k \in DOMAIN pending' :
        i > existing => segments'[i].end <= windowStart + pending'[k].start
  <2>1. SUFFICES ASSUME NEW i \in DOMAIN segments', NEW k \in DOMAIN pending', i > existing
                 PROVE  segments'[i].end <= windowStart + pending'[k].start
    OBVIOUS
  <2>2. CASE i \in DOMAIN segments /\ segments'[i] = segments[i]
    BY <1>2, <1>3, <2>1, <2>2 DEF Coming
  <2>3. CASE segments'[i] = Piece(words[n], windowStart)
    <3>1. 1 < k + 1
      BY <1>3, <1>4
    <3>2. pending[1].end <= pending[k + 1].start
      BY <1>2, <1>3, <3>1 DEF Coming
    <3>3. windowStart + pending[1].end = Piece(words[n], windowStart).end
      BY <1>3, <1>4, WordAt, PieceOf, SMTT(30)
    <3>4. pending[1].end \in Nat /\ pending[k + 1].start \in Nat
      BY <1>2, <1>3, <1>4 DEF Segment
    <3>5. windowStart + pending[1].end <= windowStart + pending[k + 1].start
      BY <1>4, <3>2, <3>4
    <3>6. QED
      BY <1>3, <2>3, <3>3, <3>5
  <2>4. QED
    BY <1>1, <1>4, <2>1, <2>2, <2>3 DEF NowTold
<1>8. QED
  BY <1>3, <1>5, <1>6, <1>7 DEF Coming, Heard, Clipped

LEMMA StitchKeepsTold ==
  ASSUME FaithfulBackend, WordsInv, words # <<>>, StitchSegment
  PROVE  ToldOrComing'
<1>1. PICK n \in DOMAIN words :
           /\ Behind(n)
           /\ \/ IsSeamDuplicate(Before, Piece(words[n], windowStart)) /\ UNCHANGED segments
              \/ ~IsSeamDuplicate(Before, Piece(words[n], windowStart)) /\ NowTold(n)
  BY Stitched
<1>2. /\ RollingTypeOK /\ ToldOrComing /\ pending \in Seq(Segment) /\ pending # <<>>
      /\ windowStart \in Nat /\ words \in Timelines
  BY RollingNumbers DEF WordsInv, StitchSegment, RollingTypeOK
<1>3. /\ UNCHANGED <<words, windowStart, nextStart, existing, pushed>>
      /\ DOMAIN pending' = 1..(Len(pending) - 1)
      /\ \A k \in DOMAIN pending' : pending'[k] = pending[k + 1]
      /\ Heard(words[n], windowStart) /\ pending[1] = Clipped(words[n], windowStart)
  BY <1>1 DEF Behind
<1>4. /\ DOMAIN segments = 1..Len(segments) /\ Len(segments) \in Nat /\ existing \in 0..Len(segments)
      /\ Len(pending) \in Nat /\ DOMAIN pending = 1..Len(pending)
  BY <1>2, RollingNumbers
<1>5. SUFFICES ASSUME NEW m \in DOMAIN words, NEW s \in pushed, WholeIn(words[m], s)
               PROVE  \/ s = windowStart /\ \E k \in DOMAIN pending' : pending'[k] = Clipped(words[m], s)
                      \/ \E i \in DOMAIN segments' : TellsBefore(i, m, s)'
  BY <1>3 DEF ToldOrComing, WholeIn, Clipped
<1>6. \A i \in DOMAIN segments : i \in DOMAIN segments' /\ segments'[i] = segments[i]
  BY <1>1, <1>4 DEF NowTold
<1>7. CASE \E i \in DOMAIN segments : TellsBefore(i, m, s)
  <2>1. PICK i \in DOMAIN segments : TellsBefore(i, m, s)
    BY <1>7
  <2>2. TellsBefore(i, m, s)'
    BY <1>3, <1>6, <2>1 DEF TellsBefore, Tells, TimeRangesOverlap
  <2>3. QED
    BY <1>6, <2>2
<1>8. CASE s = windowStart /\ \E k \in DOMAIN pending : pending[k] = Clipped(words[m], s)
  <2>1. PICK k \in DOMAIN pending : pending[k] = Clipped(words[m], s)
    BY <1>8
  <2>2. CASE k # 1
    <3>1. k - 1 \in DOMAIN pending' /\ (k - 1) + 1 = k
      BY <1>3, <1>4, <2>2
    <3>2. pending'[k - 1] = Clipped(words[m], s)
      BY <1>3, <2>1, <3>1
    <3>3. QED
      BY <1>8, <3>1, <3>2
  <2>3. CASE k = 1
    <3>1. Heard(words[m], windowStart)
      <4>1. s \in Nat /\ words[m].start < words[m].end /\ words[m].start \in Nat /\ words[m].end \in Nat
            /\ s <= words[m].start /\ words[m].end <= s + WindowSecs /\ WindowSecs \in Nat
        BY <1>2, <1>5, <1>8, WordAt, Secs DEF WholeIn
      <4>2. QED
        BY <1>8, <4>1 DEF Heard, TimeRangesOverlap
    <3>2. Piece(words[m], windowStart) = Piece(words[n], windowStart)
      BY <1>2, <1>3, <1>8, <2>1, <2>3, <3>1, WordAt, ShiftedPiece
    <3>3. CASE IsSeamDuplicate(Before, Piece(words[n], windowStart)) /\ UNCHANGED segments
      <4>1. PICK i \in 1..existing : /\ TimeRangesOverlap(segments[i], Piece(words[m], windowStart))
                                     /\ segments[i].text = Piece(words[m], windowStart).text
        BY <3>2, <3>3 DEF IsSeamDuplicate, Before
      <4>2. i \in DOMAIN segments /\ segments[i] \in Segment
        BY <1>2, <1>4, RollingNumbers
      <4>3. PICK p \in Segment : p = Piece(words[m], windowStart)
        BY <1>2, <3>1, PieceFacts
      <4>4. /\ words[m].start <= p.start /\ p.end <= words[m].end /\ p.text = words[m].text
            /\ words[m].start \in Nat /\ words[m].end \in Nat
        BY <1>2, <3>1, <4>3, PieceFacts, WordAt
      <4>5. TimeRangesOverlap(words[m], segments[i])
        <5>1. PICK a \in Nat, b \in Nat : a = segments[i].start /\ b = segments[i].end
          BY <4>2 DEF Segment
        <5>2. PICK c \in Nat, d \in Nat : c = p.start /\ d = p.end
          BY DEF Segment
        <5>3. QED
          BY <4>1, <4>3, <4>4, <5>1, <5>2 DEF TimeRangesOverlap
      <4>6. TellsBefore(i, m, s)'
        BY <1>3, <1>8, <3>3, <4>1, <4>3, <4>4, <4>5, <1>2 DEF TellsBefore, Tells, TimeRangesOverlap
      <4>7. QED
        BY <3>3, <4>2, <4>6
    <3>4. CASE NowTold(n)
      <4>1. PICK i \in DOMAIN segments' : segments'[i] = Piece(words[m], windowStart)
        <5>1. Len(segments) + 1 \in DOMAIN segments'
          BY <1>4, <3>4 DEF NowTold
        <5>2. QED
          BY <3>2, <3>4, <5>1 DEF NowTold
      <4>2. Tells(words[m], segments'[i])
        BY <1>2, <3>1, <4>1, PieceFacts DEF Tells
      <4>3. TellsBefore(i, m, s)'
        BY <1>2, <1>3, <1>8, <4>2 DEF TellsBefore, Tells, TimeRangesOverlap
      <4>4. QED
        BY <4>1, <4>3
    <3>5. QED
      BY <1>1, <3>3, <3>4
  <2>4. QED
    BY <2>2, <2>3
<1>9. QED
  BY <1>2, <1>5, <1>7, <1>8 DEF ToldOrComing

-----------------------------------------------------------------------------
\* The backend answers: nothing of the answer is told yet, everything else is.
LEMMA PushKeepsWords ==
  ASSUME FaithfulBackend, WordsInv, words # <<>>, PushWindow
  PROVE  PushedApart' /\ Pieces' /\ SegmentsApart' /\ Coming' /\ ToldOrComing'
<1>1. /\ RollingTypeOK /\ PushedApart /\ Pieces /\ SegmentsApart /\ ToldOrComing
      /\ words \in Timelines /\ nextStart \in 0..LastStart /\ windowStart \in Nat
      /\ \A s \in pushed : s \in Nat
      /\ DOMAIN segments = 1..Len(segments) /\ Len(segments) \in Nat /\ existing \in 0..Len(segments)
      /\ \A i \in DOMAIN segments : i \in Nat
  BY RollingNumbers DEF WordsInv, PushWindow
<1>2. PICK now \in 0..LastStart : now = nextStart
  BY <1>1
<1>3. /\ windowStart' = now /\ pushed' = pushed \cup {now} /\ nextStart' = now + StepSecs
      /\ existing' = Len(segments) /\ UNCHANGED <<words, segments>>
      /\ pending = <<>> /\ pending' \in Answers[words][now]
  BY <1>2 DEF PushWindow
<1>4. now \in Nat /\ StepSecs \in Nat \ {0}
  BY <1>2, Secs
<1>5. \A s \in pushed : s + StepSecs <= now
  BY <1>1, <1>2 DEF PushedApart
<1>6. \A s \in pushed : s < now
  BY <1>1, <1>4, <1>5
<1>7. Reports(pending', words, now)
  BY <1>1, <1>3 DEF FaithfulBackend
<1>8. PushedApart'
  <2>1. \A s \in pushed' : s <= windowStart' /\ s + StepSecs <= nextStart'
    BY <1>1, <1>3, <1>4, <1>5, <1>6
  <2>2. \A s, t \in pushed' : s < t => s + StepSecs <= t
    <3>1. SUFFICES ASSUME NEW s \in pushed', NEW t \in pushed', s < t PROVE s + StepSecs <= t
      OBVIOUS
    <3>2. CASE s = now
      <4>1. t = now \/ (t \in pushed /\ t \in Nat /\ t < now)
        BY <1>1, <1>3, <1>6, <3>1
      <4>2. FALSE
        BY <1>4, <3>1, <3>2, <4>1
      <4>3. QED
        BY <4>2
    <3>3. CASE s \in pushed /\ t = now
      BY <1>5, <3>3
    <3>4. CASE s \in pushed /\ t \in pushed
      BY <1>1, <3>1, <3>4 DEF PushedApart
    <3>5. QED
      BY <1>3, <3>2, <3>3, <3>4
  <2>3. QED
    BY <1>3, <2>1, <2>2 DEF PushedApart, StepSecs
<1>9. Pieces'
  <2>1. SUFFICES ASSUME NEW i \in DOMAIN segments
                 PROVE  \E m \in DOMAIN words, s \in pushed' : IsPiece(i, m, s)'
    BY <1>3 DEF Pieces
  <2>2. PICK m \in DOMAIN words, s \in pushed : IsPiece(i, m, s)
    BY <1>1 DEF Pieces
  <2>3. s < now /\ i <= Len(segments) /\ ~(i > Len(segments))
    BY <1>1, <1>6
  <2>4. IsPiece(i, m, s)'
    BY <1>3, <2>2, <2>3 DEF IsPiece, Piece, Heard
  <2>5. QED
    BY <1>3, <2>4
<1>10. SegmentsApart'
  BY <1>1, <1>3 DEF SegmentsApart
<1>11. Coming'
  <2>1. \A i \in DOMAIN segments : ~(i > Len(segments))
    BY <1>1
  <2>2. QED
    BY <1>3, <1>7, <2>1 DEF Coming, Reports, Heard, Clipped
<1>12. ToldOrComing'
  <2>1. SUFFICES ASSUME NEW m \in DOMAIN words, NEW s \in pushed', WholeIn(words[m], s)
                 PROVE  \/ s = now /\ \E k \in DOMAIN pending' : pending'[k] = Clipped(words[m], s)
                        \/ \E i \in DOMAIN segments : TellsBefore(i, m, s)'
    BY <1>3 DEF ToldOrComing, WholeIn, Clipped
  <2>2. CASE s = now
    BY <1>7, <2>1, <2>2 DEF Reports
  <2>3. CASE s \in pushed
    <3>1. PICK i \in DOMAIN segments : TellsBefore(i, m, s)
      BY <1>1, <1>3, <2>1, <2>3 DEF ToldOrComing
    <3>2. i <= Len(segments)
      BY <1>1
    <3>3. TellsBefore(i, m, s)'
      BY <1>3, <3>1, <3>2 DEF TellsBefore, Tells, TimeRangesOverlap
    <3>4. QED
      BY <3>3
  <2>4. QED
    BY <1>3, <2>2, <2>3
<1>13. QED
  BY <1>8, <1>9, <1>10, <1>11, <1>12

LEMMA FailureKeepsWords ==
  ASSUME FaithfulBackend, WordsInv, words # <<>>, PushWindowFails
  PROVE  PushedApart' /\ Pieces' /\ SegmentsApart' /\ Coming' /\ ToldOrComing'
<1>1. /\ RollingTypeOK /\ PushedApart /\ Pieces /\ SegmentsApart /\ Coming /\ ToldOrComing
      /\ nextStart \in Nat /\ StepSecs \in Nat /\ \A s \in pushed : s \in Nat
  BY RollingNumbers, Secs DEF WordsInv
<1>2. UNCHANGED <<words, windowStart, existing, segments, pending, pushed>>
  BY DEF PushWindowFails
<1>3. nextStart' \in Nat /\ nextStart <= nextStart'
  BY <1>1 DEF PushWindowFails
<1>4. PushedApart'
  <2>1. \A s \in pushed : s + StepSecs <= nextStart'
    <3>1. SUFFICES ASSUME NEW s \in pushed PROVE s + StepSecs <= nextStart'
      OBVIOUS
    <3>2. s + StepSecs <= nextStart /\ s + StepSecs \in Nat
      BY <1>1 DEF PushedApart
    <3>3. QED
      BY <1>1, <1>3, <3>2
  <2>2. QED
    BY <1>1, <1>2, <2>1 DEF PushedApart, StepSecs
<1>5. Pieces'
  BY <1>1, <1>2 DEF Pieces, IsPiece, Piece, Heard
<1>6. SegmentsApart'
  BY <1>1, <1>2 DEF SegmentsApart
<1>7. Coming'
  BY <1>1, <1>2 DEF Coming, Heard, Clipped
<1>8. ToldOrComing'
  BY <1>1, <1>2 DEF ToldOrComing, TellsBefore, Tells, WholeIn, Clipped
<1>9. QED
  BY <1>4, <1>5, <1>6, <1>7, <1>8

LEMMA WordsInvStep == FaithfulBackend /\ WordsInv /\ [RollingNext]_rollingVars => WordsInv'
<1> SUFFICES ASSUME FaithfulBackend, WordsInv, [RollingNext]_rollingVars PROVE WordsInv'
  OBVIOUS
<1>1. RollingTypeOK'
  BY RollingTyped DEF WordsInv
<1>2. words' = words
  BY DEF RollingNext, StitchSegment, PushWindow, PushWindowFails, rollingVars
<1>3. CASE words = <<>>
  BY <1>1, <1>2, <1>3 DEF WordsInv
<1>4. CASE words # <<>>
  <2>1. CASE StitchSegment
    BY <1>1, <1>4, <2>1, StitchKeepsApart, StitchKeepsComing, StitchKeepsTold DEF WordsInv
  <2>2. CASE PushWindow
    BY <1>1, <1>4, <2>2, PushKeepsWords DEF WordsInv
  <2>3. CASE PushWindowFails
    BY <1>1, <1>4, <2>3, FailureKeepsWords DEF WordsInv
  <2>4. CASE UNCHANGED rollingVars
    BY <2>4 DEF rollingVars, WordsInv, RollingTypeOK, PushedApart, Pieces, IsPiece, Piece, SegmentsApart,
         Coming, ToldOrComing, TellsBefore, Tells
  <2>5. QED
    BY <2>1, <2>2, <2>3, <2>4 DEF RollingNext
<1>5. QED
  BY <1>3, <1>4

LEMMA WordsInvInit == FaithfulBackend /\ RollingInit => WordsInv
<1> SUFFICES ASSUME FaithfulBackend, RollingInit PROVE WordsInv
  OBVIOUS
<1>1. segments = <<>> /\ pending = <<>> /\ pushed = {} /\ RollingTypeOK
  BY RollingTypeInit DEF RollingInit
<1>2. DOMAIN segments = {} /\ DOMAIN pending = {}
  BY <1>1
<1>3. QED
  BY <1>1, <1>2 DEF WordsInv, PushedApart, Pieces, SegmentsApart, Coming, ToldOrComing

-----------------------------------------------------------------------------
\* Two segments that tell a word that lies whole in a window: one of the two, where they
\* differ, is the whole word, and so they overlap.
LEMMA ToldByOne ==
  ASSUME FaithfulBackend, WordsInv, words # <<>>, NEW n \in DOMAIN words, NEW s \in pushed,
         WholeIn(words[n], s), NEW i \in DOMAIN segments, NEW j \in DOMAIN segments,
         Tells(words[n], segments[i]), Tells(words[n], segments[j])
  PROVE  i = j
<1>1. /\ RollingTypeOK /\ PushedApart /\ SegmentsApart /\ words \in Timelines /\ n \in Nat
      /\ \A t \in pushed : t \in Nat
      /\ segments[i] \in Segment /\ segments[j] \in Segment
  BY RollingNumbers, WordIndex DEF WordsInv
<1>2. words[n] \in Segment /\ words[n].start \in Nat /\ words[n].end \in Nat /\ words[n].start < words[n].end
  BY <1>1, WordAt
<1>3. /\ words[n].start <= words[n].start /\ words[n].end <= words[n].end
      /\ TimeRangesOverlap(segments[i], words[n]) /\ TimeRangesOverlap(segments[j], words[n])
  BY <1>2 DEF Tells, TimeRangesOverlap
<1>4. PICK t \in pushed : IsPiece(i, n, t)
  BY <1>1, <1>2, <1>3, PieceTold
<1>5. PICK u \in pushed : IsPiece(j, n, u)
  BY <1>1, <1>2, <1>3, PieceTold
<1>6. /\ Heard(words[n], t) /\ segments[i] = Piece(words[n], t)
      /\ Heard(words[n], u) /\ segments[j] = Piece(words[n], u)
      /\ s \in Nat /\ t \in Nat /\ u \in Nat
  BY <1>1, <1>4, <1>5 DEF IsPiece
<1>7. Heard(words[n], s)
  <2>1. PICK a \in Nat, b \in Nat, w \in Nat : a = words[n].start /\ b = words[n].end /\ w = WindowSecs
    BY <1>2, Secs
  <2>2. s <= a /\ b <= s + w /\ a < b
    BY <1>2, <2>1 DEF WholeIn
  <2>3. a < s + w /\ s < b
    BY <1>6, <2>1, <2>2
  <2>4. QED
    BY <2>1, <2>3 DEF Heard, TimeRangesOverlap
<1>8. Piece(words[n], s).start = words[n].start /\ Piece(words[n], s).end = words[n].end
  BY <1>2, <1>6, <1>7, PieceOf
<1>9. TimeRangesOverlap(segments[i], segments[j])
  <2>1. CASE t = u
    <3>1. segments[i] = segments[j] /\ segments[i].start < segments[i].end
      BY <1>1, <1>6, <2>1, PieceFacts
    <3>2. QED
      BY <3>1 DEF TimeRangesOverlap
  <2>2. CASE t = s
    BY <1>1, <1>6, <1>8, <2>2, PieceFacts DEF TimeRangesOverlap
  <2>3. CASE u = s
    BY <1>1, <1>6, <1>8, <2>3, PieceFacts DEF TimeRangesOverlap
  <2>4. CASE t # u /\ t # s /\ u # s
    <3>1. ~(s < t /\ t < u) /\ ~(t < s /\ s < u) /\ ~(t < u /\ u < s)
      BY <1>1, <1>6, <1>7, TwoWindowsReach
    <3>2. ~(s < u /\ u < t) /\ ~(u < s /\ s < t) /\ ~(u < t /\ t < s)
      BY <1>1, <1>6, <1>7, TwoWindowsReach
    <3>3. QED
      BY <1>6, <2>4, <3>1, <3>2
  <2>5. QED
    BY <2>1, <2>2, <2>3, <2>4
<1>10. QED
  BY <1>1, <1>9 DEF SegmentsApart

\* Between two windows, every word that lies whole in an answered window has been told,
\* and once: for any windows that overlap by a third of their length at most, and any
\* backend that reports the words of a window, all that lie whole in it and any of those
\* its edges cut.
THEOREM WordsToldOnce == FaithfulBackend => (RollingSpec => []WordsOnce)
<1> SUFFICES ASSUME FaithfulBackend PROVE RollingSpec => []WordsOnce
  OBVIOUS
<1>1. RollingInit => WordsInv
  BY WordsInvInit
<1>2. WordsInv /\ [RollingNext]_rollingVars => WordsInv'
  BY WordsInvStep
<1>3. WordsInv => WordsOnce
  <2>1. SUFFICES ASSUME WordsInv, pending = <<>>, NEW n \in DOMAIN words, NEW s \in pushed, WholeIn(words[n], s)
                 PROVE  Told(words[n]) # {} /\ \A i, j \in Told(words[n]) : i = j
    BY DEF WordsOnce
  <2>2. words # <<>> /\ DOMAIN pending = {}
    BY <2>1
  <2>3. PICK i \in DOMAIN segments : TellsBefore(i, n, s)
    BY <2>1, <2>2 DEF WordsInv, ToldOrComing
  <2>4. i \in Told(words[n])
    BY <2>3 DEF Told, TellsBefore
  <2>5. \A j, k \in Told(words[n]) : j = k
    BY <2>1, <2>2, ToldByOne DEF Told
  <2>6. QED
    BY <2>4, <2>5
<1>4. QED
  BY <1>1, <1>2, <1>3, PTL DEF RollingSpec

-----------------------------------------------------------------------------
(***************************************************************************)
(* The run of all parts together: whatever it does, each part behaves as it *)
(* does alone, so that what is proved of each holds together.               *)
(***************************************************************************)
\* A step of the Hub is a step of one part, and none of the others.
LEMMA HubSteps ==
  ASSUME [HubNext]_hubVars
  PROVE  /\ [SpeakersNext]_speakersVars /\ [StoreNext]_storeVars /\ [SearchNext]_searchVars
         /\ [HfLoginNext]_hfLoginVars /\ [BootNext]_bootVars
         /\ [DeliveryNext]_deliveryVars /\ [DevicesNext]_devicesVars
         /\ [RollingNext]_rollingVars /\ [NormalizerNext]_normalizerVars
         /\ [InstallerNext]_installerVars /\ [UninstallNext]_uninstallVars
         /\ [RefinerNext]_refinerVars /\ [ClipNext]_clipVars
BY DEF HubNext, hubVars

LEMMA HubStarts ==
  ASSUME HubInit
  PROVE  /\ SpeakersInit /\ StoreInit /\ SearchInit /\ HfLoginInit /\ BootInit
         /\ DeliveryInit /\ DevicesInit /\ RollingInit /\ NormalizerInit /\ InstallerInit
         /\ UninstallInit /\ RefinerInit /\ ClipInit
BY DEF HubInit

THEOREM HubIsItsParts ==
  HubSpec => /\ SpeakersSpec /\ StoreSpec /\ SearchSpec /\ HfLoginSpec /\ BootSpec
             /\ DeliverySpec /\ DevicesSpec /\ RollingSpec /\ NormalizerSpec
             /\ InstallerSpec /\ UninstallSpec /\ RefinerSpec /\ ClipSpec
BY HubSteps, HubStarts, PTL
   DEF HubSpec, SpeakersSpec, StoreSpec, SearchSpec, HfLoginSpec, BootSpec,
       DeliverySpec, DevicesSpec, RollingSpec, NormalizerSpec,
       InstallerSpec, UninstallSpec, RefinerSpec, ClipSpec

\* The speaker database in every behaviour of the whole, for any voices, names and bounds.
THEOREM SpeakersAlwaysFit == HubSpec => []SpeakersFit
<1>1. CentroidIsMean /\ SpeakersKept => SpeakersFit
  BY DEF SpeakersFit
<1>2. QED
  BY <1>1, HubIsItsParts, SpeakersStay, PTL

\* The Models tab, for any directories, models, repositories, tabs and bounds.
THEOREM ModelsTabAlwaysFits == HubSpec => []ModelsTabFits
<1>1. OneOperation /\ ListIsDisk /\ FilesOfRepo /\ CodeIsItsOwn => ModelsTabFits
  BY DEF ModelsTabFits
<1>2. QED
  BY <1>1, HubIsItsParts, StoreFits, SearchFits, LoginFits, PTL

\* The Settings, for any devices and values.
THEOREM SettingsAlwaysFit == HubSpec => []SettingsFit
<1>1. DevicesFit /\ SettingsApply => SettingsFit
  BY DEF SettingsFit
<1>2. QED
  BY <1>1, HubIsItsParts, DevicesTrue, SettingsReachDictation, PTL

\* Installing and uninstalling, whatever fails on the way.
THEOREM SetupAlwaysFits == HubSpec => []SetupFits
<1>1. InstalledWhole /\ UninstallFits => SetupFits
  BY DEF SetupFits
<1>2. QED
  BY <1>1, HubIsItsParts, InstallIsWhole, UninstallIsWhole, PTL

\* The audio on its way to the recognizer, for any recordings, rates and thresholds.
THEOREM ClipAlwaysFits == HubSpec => []ClipFits
<1>1. SpeechReachesRecognizer /\ TimesKeepApart => ClipFits
  BY DEF ClipFits
<1>2. QED
  BY <1>1, HubIsItsParts, AudioArrives, PTL

\* The delivery of text, for any number of dictations and of copies.
THEOREM DeliveryAlwaysFits == HubSpec => []DeliveryFits
<1>1. ClipboardKept /\ DeliveredOnce => DeliveryFits
  BY DEF DeliveryFits
<1>2. QED
  BY <1>1, HubIsItsParts, ClipboardReturned, DeliveredAsReported, PTL

\* And what is proved of long transcriptions, of spoken numbers and of refining on this
\* computer.
THEOREM RestAlwaysFits ==
  HubSpec => []( /\ StartsInOrder /\ WordsOnce
                 /\ NumberSpoken => WrittenAsMeant
                 /\ FallsBackForAReason )
BY BackendAssumption, HubIsItsParts, TranscriptInOrder, WordsToldOnce,
   NumbersAsMeant, RefinedUnlessSlow, PTL

\* And every variable of every part is of its type.
THEOREM HubTypesFit == HubSpec => []HubTypeOK
<1>1. HubSpec => [](part \in Parts)
  <2>1. HubInit => part \in Parts
    BY DEF HubInit
  <2>2. part \in Parts /\ [HubNext]_hubVars => (part \in Parts)'
    BY DEF HubNext, hubVars
  <2>3. QED
    BY <2>1, <2>2, PTL DEF HubSpec
<1>2. /\ part \in Parts /\ SpeakersTypeOK /\ StoreTypeOK /\ SearchTypeOK /\ HfLoginTypeOK /\ BootTypeOK
      /\ DeliveryTypeOK /\ DevicesTypeOK /\ RollingTypeOK /\ NormalizerTypeOK
      /\ InstallerTypeOK /\ UninstallTypeOK /\ RefinerTypeOK /\ ClipTypeOK
      => HubTypeOK
  BY DEF HubTypeOK
<1>3. RollingSpec => []RollingTypeOK
  BY RollingTypeInit, RollingTyped, PTL DEF RollingSpec
<1>4. QED
  BY <1>1, <1>2, <1>3, HubIsItsParts, SpeakersStay, StoreFits, SearchFits, LoginFits,
     SettingsReachDictation, DeliveryTypeCorrect, DevicesTrue, PassesKeepWords,
     InstallIsWhole, UninstallIsWhole, RefinedUnlessSlow, AudioArrives, PTL
=============================================================================
