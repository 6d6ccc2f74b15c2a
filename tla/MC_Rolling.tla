------------------------------- MODULE MC_Rolling -------------------------------
(* What is said, and what a backend makes of a window of it. *)
EXTENDS Rolling, Functions

Word(from, to) == [start |-> from, end |-> to, text |-> "a"]

\* Everything that may be said from an instant on: the same word over and over, each
\* one or two ticks long, with or without silence in between.
Said[from \in 3..9] ==
  {<<>>}
  \cup UNION {{<<Word(from, to)>> \o rest : rest \in Said[to]} : to \in {from + 1, from + 2} \cap 3..9}
  \cup (IF from < 9 THEN Said[from + 1] ELSE {})

TestTimelines == Said[3]

\* A word as a window has it: cut off at its edges, in the window's time.
Clipped(word, start) ==
  LET from == IF word.start < start THEN start ELSE word.start
      to == IF word.end > start + WindowSecs THEN start + WindowSecs ELSE word.end
  IN  [start |-> from - start, end |-> to - start, text |-> word.text]

Heard(word, start) == TimeRangesOverlap(word, [start |-> start, end |-> start + WindowSecs])

\* Silence: there a backend may report anything, in any order.
Made(up) == [i \in DOMAIN up |-> [start |-> up[i][1], end |-> up[i][2], text |-> "a"]]
MadeUp == {<<>>, Made(<<<<4, 5>>, <<1, 2>>>>), Made(<<<<2, 6>>, <<3, 4>>, <<0, 1>>>>)}

\* A window's words, each that is cut by its edge heard or not.
TestAnswers ==
  [timeline \in TestTimelines |-> [start \in 0..LastStart |->
     LET partly == {w \in Range(timeline) : Heard(w, start) /\ ~WholeIn(w, start)}
     IN  IF timeline = <<>> THEN MadeUp
         ELSE {LET told == SelectSeq(timeline, LAMBDA w : Heard(w, start) /\ w \notin missed)
               IN  [i \in DOMAIN told |-> Clipped(told[i], start)] : missed \in SUBSET partly}]]

\* Of what is said in a window: pieces of its words, in order, and every word that lies
\* whole in it.
Reports(answer, timeline, start) ==
  /\ \A k \in DOMAIN answer : \E n \in DOMAIN timeline :
       Heard(timeline[n], start) /\ answer[k] = Clipped(timeline[n], start)
  /\ \A k, l \in DOMAIN answer : k < l => answer[k].end <= answer[l].start
  /\ \A n \in DOMAIN timeline : WholeIn(timeline[n], start) =>
       \E k \in DOMAIN answer : answer[k] = Clipped(timeline[n], start)

\* Words one after the other, none longer than the overlap, which is at most a third of
\* the window; and a backend that reports them.
FaithfulBackend ==
  /\ 3 * OverlapSecs <= WindowSecs
  /\ \A timeline \in Timelines :
       /\ timeline \in Seq(Segment)
       /\ \A n \in DOMAIN timeline :
            /\ timeline[n].start < timeline[n].end
            /\ timeline[n].end <= timeline[n].start + OverlapSecs
       /\ \A m, n \in DOMAIN timeline : m < n => timeline[m].end <= timeline[n].start
       /\ timeline # <<>> =>
            \A start \in 0..LastStart : \A answer \in Answers[timeline][start] :
              Reports(answer, timeline, start)

\* The timelines and answers here are such ones.
ASSUME BackendAssumption == FaithfulBackend

\* TLC evaluates a definition once, but what a cfg gives a constant at every use of it.
MCTimelines == TestTimelines
MCAnswers == TestAnswers
=============================================================================
