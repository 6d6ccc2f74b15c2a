-------------------------------- MODULE Rolling --------------------------------
(***************************************************************************)
(* Transcribing long audio in overlapping windows (whspr-core: chunker.rs,  *)
(* RollingTranscriber): each window's segments are shifted to absolute      *)
(* time, those that repeat what the overlap already gave are dropped, and   *)
(* starts are kept from stepping back.                                      *)
(*                                                                         *)
(* One step takes one segment of the backend's answer.  The code clamps the *)
(* whole list afterwards: what was there before is in order already, so that*)
(* is the same.  Texts are compared normalized, so a text stands for all    *)
(* its spellings.  Times are whole ticks.                                   *)
(***************************************************************************)
EXTENDS Naturals, Sequences

CONSTANTS
  WindowSecs,   (* window_secs                                               *)
  OverlapSecs,  (* overlap_secs                                              *)
  LastStart,    (* bound: no window starts later                             *)
  Timelines,    (* what may be said: sequences of words with their times     *)
  Answers       (* the answers a backend may give for a window of a timeline *)

Segment == [start : Nat, end : Nat, text : STRING]

ASSUME WindowAssumption ==
  /\ WindowSecs \in Nat /\ OverlapSecs \in Nat /\ OverlapSecs < WindowSecs
  /\ LastStart \in Nat
  /\ \A timeline \in Timelines, start \in 0..LastStart :
       \A answer \in Answers[timeline][start] : answer \in Seq(Segment)

VARIABLES
  words,       (* what is said                                               *)
  windowStart, (* the start of the window being stitched, or stitched last   *)
  nextStart,   (* the start of the caller's next window                      *)
  existing,    (* how many segments there were before this window            *)
  segments,    (* accumulated                                                *)
  pending,     (* segments of the backend's answer not folded in yet         *)
  pushed       (* history: the starts of the windows the backend answered    *)

rollingVars == <<words, windowStart, nextStart, existing, segments, pending, pushed>>

StepSecs == WindowSecs - OverlapSecs

\* Half-open ranges that share more than an endpoint.
TimeRangesOverlap(a, b) == a.start < b.end /\ b.start < a.end

\* mutant: a segment that touches another one counts as the same
IsSeamDuplicateTouching(before, segment) ==
  \E prev \in before : /\ prev.start <= segment.end /\ segment.start <= prev.end
                       /\ prev.text = segment.text

IsSeamDuplicate(before, segment) ==
  \E prev \in before : TimeRangesOverlap(prev, segment) /\ prev.text = segment.text

Before == {segments[i] : i \in 1..existing}

Shift(segment, by) == [segment EXCEPT !.start = @ + by, !.end = @ + by]

AtLeast(time, floor) == IF time < floor THEN floor ELSE time

\* mutant: the end is kept from stepping back, the start is not
ClampEnd(segment, prev) == [segment EXCEPT !.end = AtLeast(@, prev.start)]

\* enforce_monotonic_starts, on the segment that comes last.
Clamp(segment, prev) ==
  LET start == AtLeast(segment.start, prev.start)
  IN  [segment EXCEPT !.start = start, !.end = AtLeast(@, start)]

RollingInit ==
  /\ words \in Timelines
  /\ windowStart = 0 /\ nextStart = 0 /\ existing = 0
  /\ segments = <<>> /\ pending = <<>> /\ pushed = {}

\* stitch, one segment: dropped as a duplicate of the seam, or appended in order.
StitchSegment ==
  /\ pending # <<>>
  /\ pending' = Tail(pending)
  /\ LET shifted == Shift(Head(pending), windowStart)
     IN  IF IsSeamDuplicate(Before, shifted) THEN UNCHANGED segments
         ELSE segments' = Append(segments,
                IF segments = <<>> THEN shifted ELSE Clamp(shifted, segments[Len(segments)]))
  /\ UNCHANGED <<words, windowStart, nextStart, existing, pushed>>

\* push_window: slice_window, the backend's answer, stitch.
PushWindow ==
  /\ pending = <<>> /\ nextStart <= LastStart
  /\ pending' \in Answers[words][nextStart]
  /\ windowStart' = nextStart /\ pushed' = pushed \cup {nextStart}
  /\ nextStart' = nextStart + StepSecs
  /\ existing' = Len(segments)
  /\ UNCHANGED <<words, segments>>

\* push_window, when the backend fails: nothing changes.  The caller pushes the
\* window again, or skips it.
PushWindowFails ==
  /\ pending = <<>> /\ nextStart <= LastStart
  /\ nextStart' \in {nextStart, nextStart + StepSecs}
  /\ UNCHANGED <<words, windowStart, existing, segments, pending, pushed>>

RollingNext == StitchSegment \/ PushWindow \/ PushWindowFails

RollingSpec == RollingInit /\ [][RollingNext]_rollingVars

-----------------------------------------------------------------------------
RollingTypeOK ==
  /\ words \in Timelines /\ windowStart \in 0..LastStart /\ nextStart \in Nat
  /\ existing \in 0..Len(segments) /\ pushed \subseteq 0..LastStart
  /\ segments \in Seq(Segment) /\ pending \in Seq(Segment)

\* chunker.rs: "the result's segment starts are guaranteed non-decreasing",
\* whatever the backend answers.
StartsInOrder ==
  \A i, j \in DOMAIN segments : i < j => segments[i].start <= segments[j].start

Tells(word, segment) == TimeRangesOverlap(word, segment) /\ word.text = segment.text

Told(word) == {i \in DOMAIN segments : Tells(word, segments[i])}

WholeIn(word, start) == start <= word.start /\ word.end <= start + WindowSecs

\* chunker.rs: "words shared across an overlapping boundary appear once, not
\* twice".  With a backend that reports the words of a window at their times, a
\* word that lies whole in an answered window is in the transcript exactly
\* once: however other windows clip it or fail, and though its neighbours may be the same word.  (A word cut by two windows because the one
\* between them failed may be told twice, once for each half.)
WordsOnce ==
  pending = <<>> =>
    \A n \in DOMAIN words : LET word == words[n] IN (\E start \in pushed : WholeIn(word, start)) =>
      /\ Told(word) # {}
      /\ \A i, j \in Told(word) : i = j
=============================================================================
