------------------------ MODULE Transcription_proofs ------------------------
(* One outcome per chunk, in order, and never after the next turn's state,   *)
(* for any number of chunks and any capacity of the output channel.          *)
EXTENDS Transcription, SequenceTheorems, TLAPS

IsAnswer(event) == event.kind # "stateChanged"

(* Chunks whose outcome has left the processor. *)
Sent == IF stage = "waiting" THEN chunk ELSE chunk - 1

(* The types the argument rests on. *)
Typed ==
  /\ submitted \in Nat /\ chunk \in Nat
  /\ queue \in Seq(Nat)
  /\ stage \in {"waiting", "transcribing", "refining", "completed", "failed"}
  /\ states \in Seq(Report)
  /\ output \in Seq(Event)
  /\ answered \in Seq([of : Nat, kind : {"completed", "failed"}])

(* The processor works through 1..submitted; the rest waits in the queue. *)
QueueInOrder ==
  /\ Len(queue) = submitted - chunk
  /\ \A i \in 1..Len(queue) : queue[i] = chunk + i
  /\ stage # "waiting" => chunk # 0

(* The outcomes under way are exactly those sent and not yet seen, in order. *)
OutcomesInOrder ==
  /\ AnswersInOrder
  /\ \A i \in 1..Len(output) :
       IsAnswer(output[i]) => Len(answered) < output[i].of /\ output[i].of <= Sent
  /\ \A i, j \in 1..Len(output) :
       i < j /\ IsAnswer(output[i]) /\ IsAnswer(output[j]) => output[i].of < output[j].of
  /\ \A c \in 1..Sent : Len(answered) < c =>
       \E i \in 1..Len(output) : IsAnswer(output[i]) /\ output[i].of = c
  /\ Len(answered) <= Sent

(* Nothing reported is about a chunk the processor has not reached. *)
NothingAhead ==
  /\ \A i \in 1..Len(states) : states[i].of <= chunk
  /\ \A i \in 1..Len(output) : output[i].of <= chunk

Inv == Typed /\ QueueInOrder /\ OutcomesInOrder /\ NothingAhead /\ AnswersBeforeNextTurn

LEMMA EventTyped ==
  /\ \A kind \in {"completed", "failed"}, of \in Nat : [kind |-> kind, of |-> of] \in Event
  /\ \A state \in PipelineState, of \in Nat :
       [kind |-> "stateChanged", state |-> state, of |-> of] \in Event
  /\ \A event \in Event : event.of \in Nat /\ event.kind \in {"stateChanged", "completed", "failed"}
  /\ \A report \in Report : report.of \in Nat /\ report.state \in PipelineState
BY DEF Event, Report

LEMMA InitInv == TranscriptionInit => Inv
BY DEF TranscriptionInit, Inv, Typed, QueueInOrder, OutcomesInOrder, NothingAhead, AnswersBeforeNextTurn,
       Reordered, AnswersInOrder, Sent

(* The states channel only ever gets reports about the current chunk. *)
LEMMA TellKeeps ==
  ASSUME states \in Seq(Report), NEW c \in Nat, NEW state \in PipelineState,
         \A i \in 1..Len(states) : states[i].of <= c
  PROVE  LET more == Append(states, [state |-> state, of |-> c]) IN
         /\ more \in Seq(Report)
         /\ \A i \in 1..Len(more) : more[i].of <= c
<1> DEFINE report == [state |-> state, of |-> c]
           more == Append(states, report)
<1>1. report \in Report /\ report.of = c
  BY DEF Report
<1> HIDE DEF report
<1>2. more \in Seq(Report) /\ Len(more) = Len(states) + 1
      /\ \A i \in 1..Len(more) : more[i] = IF i = Len(states) + 1 THEN report ELSE states[i]
  BY <1>1, AppendProperties
<1>3. \A i \in 1..Len(more) : more[i].of <= c
  BY <1>1, <1>2
<1>4. QED
  BY <1>2, <1>3 DEF report

LEMMA StatesTyped ==
  {"idle", "transcribing", "refining", "error"} \subseteq PipelineState
BY DEF PipelineState

(* What the steps that leave the output alone must keep. *)
LEMMA OutputAlone ==
  ASSUME Inv, UNCHANGED <<output, answered>>, Sent' = Sent, chunk' \in Nat, chunk <= chunk',
         stage' \in {"waiting", "transcribing", "refining", "completed", "failed"},
         states' \in Seq(Report), \A i \in 1..Len(states') : states'[i].of <= chunk',
         queue' \in Seq(Nat), submitted' \in Nat, QueueInOrder'
  PROVE  Inv'
<1>1. Typed'
  BY DEF Inv, Typed
<1>2. OutcomesInOrder'
  BY DEF Inv, OutcomesInOrder, AnswersInOrder
<1>3. NothingAhead'
  <2>1. \A i \in 1..Len(output) : output[i].of \in Nat
    BY EventTyped DEF Inv, Typed
  <2>2. chunk \in Nat /\ output' = output
    BY DEF Inv, Typed
  <2>3. \A i \in 1..Len(output) : output[i].of <= chunk
    BY DEF Inv, NothingAhead
  <2>4. \A i \in 1..Len(output') : output'[i].of <= chunk'
    BY <2>1, <2>2, <2>3
  <2>5. QED
    BY <2>4 DEF NothingAhead
<1>4. AnswersBeforeNextTurn'
  BY DEF Inv, AnswersBeforeNextTurn, Reordered
<1>5. QED
  BY <1>1, <1>2, <1>3, <1>4 DEF Inv

LEMMA SendChunkKeeps ==
  ASSUME Inv, SendChunk, UNCHANGED <<processorVars, states, output, answered>>
  PROVE  Inv'
<1> DEFINE next == submitted + 1
<1>1. next \in Nat /\ submitted' = next /\ queue' = Append(queue, next)
  BY DEF SendChunk, Inv, Typed
<1>2. Len(queue) \in Nat /\ Len(queue) = submitted - chunk
  BY DEF Inv, Typed, QueueInOrder
<1>3. queue' \in Seq(Nat) /\ Len(queue') = Len(queue) + 1
      /\ \A i \in 1..Len(queue') : queue'[i] = IF i = Len(queue) + 1 THEN next ELSE queue[i]
  <2> HIDE DEF next
  <2> DEFINE longer == Append(queue, next)
  <2>1. queue \in Seq(Nat) /\ Len(queue) \in Nat
    BY <1>2 DEF Inv, Typed
  <2>2. /\ longer \in Seq(Nat)
        /\ Len(longer) = Len(queue) + 1
        /\ \A i \in 1..Len(queue) : longer[i] = queue[i]
        /\ longer[Len(queue) + 1] = next
    BY <1>1, <2>1, AppendProperties
  <2> HIDE DEF longer
  <2>3. \A i \in 1..Len(longer) : longer[i] = IF i = Len(queue) + 1 THEN next ELSE queue[i]
    BY <2>1, <2>2
  <2>4. queue' = longer
    BY <1>1 DEF longer
  <2>5. QED
    BY <2>2, <2>3, <2>4
<1>4. QueueInOrder'
  <2>1. chunk' = chunk /\ stage' = stage /\ chunk \in Nat /\ submitted \in Nat
    BY DEF Inv, Typed, processorVars
  <2>2. \A i \in 1..Len(queue) : queue[i] = chunk + i
    BY DEF Inv, QueueInOrder
  <2>3. ASSUME NEW i \in 1..Len(queue') PROVE queue'[i] = chunk' + i
    <3>1. CASE i = Len(queue) + 1
      BY <1>1, <1>2, <1>3, <2>1, <3>1
    <3>2. CASE i # Len(queue) + 1
      BY <1>2, <1>3, <2>1, <2>2, <3>2
    <3>3. QED
      BY <3>1, <3>2
  <2>4. Len(queue') = submitted' - chunk'
    BY <1>1, <1>2, <1>3, <2>1
  <2>5. QED
    BY <2>1, <2>3, <2>4 DEF Inv, QueueInOrder
<1>5. /\ UNCHANGED <<output, answered>> /\ Sent' = Sent
      /\ chunk' \in Nat /\ chunk <= chunk' /\ states' = states
      /\ stage' \in {"waiting", "transcribing", "refining", "completed", "failed"}
  BY DEF Inv, Typed, Sent, processorVars
<1>6. states' \in Seq(Report) /\ \A i \in 1..Len(states') : states'[i].of <= chunk'
  <2>1. chunk' = chunk
    BY DEF processorVars
  <2>2. QED
    BY <1>5, <2>1 DEF Inv, Typed, NothingAhead
<1>7. queue' \in Seq(Nat) /\ submitted' \in Nat
  BY <1>1, <1>3
<1>8. QED
  BY <1>4, <1>5, <1>6, <1>7, OutputAlone

LEMMA TakeChunkKeeps == ASSUME Inv, TakeChunk PROVE Inv'
<1>1. /\ queue # <<>> /\ chunk' = queue[1] /\ queue' = Tail(queue)
      /\ stage = "waiting" /\ stage' = "transcribing"
      /\ UNCHANGED <<submitted, output, answered>>
      /\ states' = Append(states, [state |-> "transcribing", of |-> chunk'])
  BY DEF TakeChunk, Tell, sessionVars, Inv, Typed
<1>2. Len(queue) \in Nat \ {0}
  BY <1>1, EmptySeq DEF Inv, Typed
<1>3. chunk' = chunk + 1 /\ chunk' \in Nat
  BY <1>1, <1>2 DEF Inv, Typed, QueueInOrder
<1>4. queue' \in Seq(Nat) /\ Len(queue') = Len(queue) - 1
      /\ \A i \in 1..Len(queue') : queue'[i] = queue[i + 1]
  BY <1>1, HeadTailProperties DEF Inv, Typed
<1>5. QueueInOrder'
  BY <1>1, <1>2, <1>3, <1>4 DEF Inv, Typed, QueueInOrder
<1>6. \A i \in 1..Len(states) : states[i].of <= chunk'
  BY <1>3, EventTyped DEF Inv, Typed, NothingAhead
<1>7. states' \in Seq(Report) /\ \A i \in 1..Len(states') : states'[i].of <= chunk'
  BY <1>1, <1>3, <1>6, TellKeeps, StatesTyped DEF Inv, Typed
<1>8. Sent' = Sent
  BY <1>1, <1>3 DEF Sent, Inv, Typed
<1>9. /\ UNCHANGED <<output, answered>> /\ chunk <= chunk' /\ submitted' \in Nat
      /\ stage' \in {"waiting", "transcribing", "refining", "completed", "failed"}
  BY <1>1, <1>3 DEF Inv, Typed
<1>10. QED
  BY <1>3, <1>4, <1>5, <1>7, <1>8, <1>9, OutputAlone

(* A step of the processor inside a turn: at most it reports something. *)
LEMMA TurnKeeps ==
  ASSUME Inv, UNCHANGED <<submitted, queue, chunk, output, answered>>, stage # "waiting",
         stage' \in {"transcribing", "refining", "completed", "failed"},
         states' \in Seq(Report), \A i \in 1..Len(states') : states'[i].of <= chunk
  PROVE  Inv'
<1>1. chunk' \in Nat /\ chunk <= chunk' /\ Sent' = Sent /\ submitted' \in Nat /\ queue' \in Seq(Nat)
  BY DEF Inv, Typed, Sent
<1>2. QueueInOrder'
  BY DEF Inv, QueueInOrder
<1>3. QED
  BY <1>1, <1>2, OutputAlone

LEMMA ProcessorKeeps ==
  ASSUME Inv, Transcribe \/ Refine \/ RefineTimeout
  PROVE  Inv'
<1>1. /\ UNCHANGED <<submitted, queue, chunk, output, answered>> /\ stage # "waiting"
      /\ stage' \in {"transcribing", "refining", "completed", "failed"}
  BY DEF Transcribe, Refine, RefineTimeout, sessionVars
<1>2. /\ states \in Seq(Report) /\ chunk \in Nat
      /\ \A i \in 1..Len(states) : states[i].of <= chunk
  BY DEF Inv, Typed, NothingAhead
<1>3. CASE UNCHANGED states
  BY <1>1, <1>2, <1>3, TurnKeeps
<1>4. CASE \E state \in {"idle", "refining"} :
             states' = Append(states, [state |-> state, of |-> chunk])
  BY <1>1, <1>2, <1>4, TellKeeps, TurnKeeps, StatesTyped
<1>5. CASE states' = states \o <<[state |-> "error", of |-> chunk], [state |-> "idle", of |-> chunk]>>
  <2> DEFINE error == [state |-> "error", of |-> chunk]
             idle == [state |-> "idle", of |-> chunk]
             first == Append(states, error)
  <2>1. first \in Seq(Report) /\ \A i \in 1..Len(first) : first[i].of <= chunk
    BY <1>2, TellKeeps, StatesTyped
  <2>2. Append(first, idle) \in Seq(Report)
        /\ \A i \in 1..Len(Append(first, idle)) : Append(first, idle)[i].of <= chunk
    <3> HIDE DEF first
    <3>1. QED
      BY <1>2, <2>1, TellKeeps, StatesTyped
  <2>3. states' = Append(first, idle)
    <3>1. error \in Report /\ idle \in Report
      BY <1>2, StatesTyped DEF Report
    <3> HIDE DEF error, idle
    <3>2. states \o <<error, idle>> = Append(Append(states, error), idle)
      BY <1>2, <3>1
    <3>3. QED
      BY <1>5, <3>2 DEF error, idle
  <2> HIDE DEF first, error, idle
  <2>4. QED
    BY <1>1, <2>2, <2>3, TurnKeeps
<1>6. QED
  BY <1>3, <1>4, <1>5 DEF Transcribe, Refine, RefineTimeout, Tell

(* The outcome of the current turn goes behind everything about earlier turns. *)
LEMMA AnswerKeeps == ASSUME Inv, Answer PROVE Inv'
<1> DEFINE event == [kind |-> stage, of |-> chunk]
           n == Len(output)
<1>1. /\ UNCHANGED <<submitted, queue, chunk, states, answered>>
      /\ stage # "waiting" /\ stage' = "waiting" /\ stage \in {"completed", "failed"}
      /\ output' = Append(output, event)
  BY DEF Answer, sessionVars
<1>2. chunk \in Nat \ {0} /\ n \in Nat /\ Len(answered) \in Nat
  BY <1>1 DEF Inv, Typed, QueueInOrder
<1>3. event \in Event /\ IsAnswer(event) /\ event.of = chunk
  BY <1>1, <1>2, EventTyped DEF IsAnswer
<1> HIDE DEF event
<1>4. output' \in Seq(Event) /\ Len(output') = n + 1
      /\ \A i \in 1..Len(output') : output'[i] = IF i = n + 1 THEN event ELSE output[i]
  BY <1>1, <1>3, AppendProperties DEF Inv, Typed
<1>5. \A i \in 1..n : output[i].of \in Nat /\ output[i].of <= chunk
  BY EventTyped DEF Inv, Typed, NothingAhead
<1>6. Sent = chunk - 1 /\ Sent' = chunk
  BY <1>1 DEF Sent
<1>7. Typed'
  BY <1>1, <1>4 DEF Inv, Typed
<1>8. QueueInOrder'
  BY <1>1 DEF Inv, QueueInOrder
<1> HIDE DEF n
<1>9. OutcomesInOrder'
  <2>1. /\ \A i \in 1..n : IsAnswer(output[i]) => Len(answered) < output[i].of /\ output[i].of <= chunk - 1
        /\ \A i, j \in 1..n :
             i < j /\ IsAnswer(output[i]) /\ IsAnswer(output[j]) => output[i].of < output[j].of
        /\ \A c \in 1..(chunk - 1) : Len(answered) < c =>
             \E i \in 1..n : IsAnswer(output[i]) /\ output[i].of = c
        /\ Len(answered) <= chunk - 1
    BY <1>6 DEF Inv, OutcomesInOrder, n
  <2>2. \A i \in 1..(n + 1) :
          IsAnswer(output'[i]) => Len(answered) < output'[i].of /\ output'[i].of <= chunk
    BY <1>2, <1>3, <1>4, <1>5, <2>1
  <2>3. \A i, j \in 1..(n + 1) :
          i < j /\ IsAnswer(output'[i]) /\ IsAnswer(output'[j]) => output'[i].of < output'[j].of
    <3>1. SUFFICES ASSUME NEW i \in 1..(n + 1), NEW j \in 1..(n + 1), i < j,
                          IsAnswer(output'[i]), IsAnswer(output'[j])
                   PROVE  output'[i].of < output'[j].of
      OBVIOUS
    <3>2. i \in 1..n /\ output'[i] = output[i] /\ output[i].of <= chunk - 1
      BY <1>2, <1>4, <2>1, <3>1
    <3>3. CASE j = n + 1
      BY <1>2, <1>3, <1>4, <1>5, <3>2, <3>3
    <3>4. CASE j # n + 1
      BY <1>2, <1>4, <2>1, <3>1, <3>2, <3>4
    <3>5. QED
      BY <3>3, <3>4
  <2>4. \A c \in 1..chunk : Len(answered) < c =>
          \E i \in 1..(n + 1) : IsAnswer(output'[i]) /\ output'[i].of = c
    <3>1. SUFFICES ASSUME NEW c \in 1..chunk, Len(answered) < c
                   PROVE  \E i \in 1..(n + 1) : IsAnswer(output'[i]) /\ output'[i].of = c
      OBVIOUS
    <3>2. CASE c = chunk
      <4>1. n + 1 \in 1..(n + 1) /\ output'[n + 1] = event
        BY <1>2, <1>4
      <4>2. QED
        BY <1>3, <3>2, <4>1
    <3>3. CASE c # chunk
      <4>1. PICK i \in 1..n : IsAnswer(output[i]) /\ output[i].of = c
        BY <1>2, <2>1, <3>1, <3>3
      <4>2. i \in 1..(n + 1) /\ output'[i] = output[i]
        BY <1>2, <1>4
      <4>3. QED
        BY <4>1, <4>2
    <3>4. QED
      BY <3>2, <3>3
  <2>5. Len(answered) <= chunk
    BY <1>2, <2>1
  <2>6. AnswersInOrder'
    BY <1>1 DEF Inv, OutcomesInOrder, AnswersInOrder
  <2>7. QED
    BY <1>1, <1>4, <1>6, <2>2, <2>3, <2>4, <2>5, <2>6 DEF OutcomesInOrder
<1>10. NothingAhead'
  <2>1. \A i \in 1..(n + 1) : output'[i].of <= chunk
    BY <1>2, <1>3, <1>4, <1>5
  <2>2. QED
    BY <1>1, <1>4, <2>1 DEF Inv, NothingAhead
<1>11. AnswersBeforeNextTurn'
  <2>1. SUFFICES ASSUME NEW i \in 1..(n + 1), NEW j \in 1..(n + 1), i < j,
                        output'[i].kind = "stateChanged", output'[j].kind # "stateChanged",
                        output'[j].of < output'[i].of
                 PROVE  FALSE
    BY <1>4 DEF AnswersBeforeNextTurn, Reordered
  <2>2. i \in 1..n /\ output'[i] = output[i]
    BY <1>2, <1>4, <2>1
  <2>3. CASE j = n + 1
    BY <1>2, <1>3, <1>4, <1>5, <2>1, <2>2, <2>3
  <2>4. CASE j # n + 1
    <3>1. j \in 1..n /\ output'[j] = output[j]
      BY <1>2, <1>4, <2>4
    <3>2. i \in DOMAIN output /\ j \in DOMAIN output
      BY <2>2, <3>1 DEF Inv, Typed, n
    <3>3. QED
      BY <2>1, <2>2, <3>1, <3>2 DEF Inv, AnswersBeforeNextTurn, Reordered
  <2>5. QED
    BY <2>3, <2>4
<1>12. QED
  BY <1>7, <1>8, <1>9, <1>10, <1>11 DEF Inv

(* The forwarder appends a report about a chunk already taken. *)
LEMMA ForwardKeeps == ASSUME Inv, ForwardState PROVE Inv'
<1> DEFINE event == [kind |-> "stateChanged", state |-> Head(states).state, of |-> Head(states).of]
           n == Len(output)
<1>1. /\ UNCHANGED <<submitted, queue, chunk, stage, answered>>
      /\ states # <<>> /\ states' = Tail(states)
      /\ output' = Append(output, event)
  BY DEF ForwardState, sessionVars, processorVars
<1>2. chunk \in Nat /\ n \in Nat /\ Len(answered) \in Nat
  BY DEF Inv, Typed
<1>3. Len(states) \in Nat \ {0} /\ Head(states) = states[1] /\ states[1] \in Report
  BY <1>1, EmptySeq DEF Inv, Typed
<1>4. states[1].of \in Nat /\ states[1].state \in PipelineState /\ states[1].of <= chunk
  BY <1>3, EventTyped DEF Inv, NothingAhead
<1>5. event \in Event /\ event.kind = "stateChanged" /\ event.of <= chunk
  BY <1>3, <1>4, EventTyped
<1>6. states' \in Seq(Report) /\ \A i \in 1..Len(states') : states'[i].of <= chunk
  <2>1. states' \in Seq(Report) /\ Len(states') = Len(states) - 1
        /\ \A i \in 1..Len(states') : states'[i] = states[i + 1]
    BY <1>1, HeadTailProperties DEF Inv, Typed
  <2>2. \A i \in 1..Len(states') : i + 1 \in 1..Len(states)
    BY <1>3, <2>1
  <2>3. QED
    BY <2>1, <2>2 DEF Inv, NothingAhead
<1> HIDE DEF event
<1>7. output' \in Seq(Event) /\ Len(output') = n + 1
      /\ \A i \in 1..Len(output') : output'[i] = IF i = n + 1 THEN event ELSE output[i]
  BY <1>1, <1>5, AppendProperties DEF Inv, Typed
<1>8. Sent' = Sent
  BY <1>1 DEF Sent
<1>9. Typed'
  BY <1>1, <1>6, <1>7 DEF Inv, Typed
<1>10. QueueInOrder'
  BY <1>1 DEF Inv, QueueInOrder
<1> HIDE DEF n
<1>11. \A i \in 1..(n + 1) : output'[i].kind # "stateChanged" => i \in 1..n /\ output'[i] = output[i]
  BY <1>2, <1>5, <1>7
<1>12. OutcomesInOrder'
  <2>1. /\ \A i \in 1..n : IsAnswer(output[i]) => Len(answered) < output[i].of /\ output[i].of <= Sent
        /\ \A i, j \in 1..n :
             i < j /\ IsAnswer(output[i]) /\ IsAnswer(output[j]) => output[i].of < output[j].of
        /\ \A c \in 1..Sent : Len(answered) < c =>
             \E i \in 1..n : IsAnswer(output[i]) /\ output[i].of = c
    BY DEF Inv, OutcomesInOrder, n
  <2>2. \A c \in 1..Sent : Len(answered) < c =>
          \E i \in 1..(n + 1) : IsAnswer(output'[i]) /\ output'[i].of = c
    <3>1. \A i \in 1..n : i \in 1..(n + 1) /\ output'[i] = output[i]
      BY <1>2, <1>7
    <3>2. QED
      BY <2>1, <3>1
  <2>3. /\ \A i \in 1..(n + 1) :
             IsAnswer(output'[i]) => Len(answered) < output'[i].of /\ output'[i].of <= Sent
        /\ \A i, j \in 1..(n + 1) :
             i < j /\ IsAnswer(output'[i]) /\ IsAnswer(output'[j]) => output'[i].of < output'[j].of
    BY <1>11, <2>1 DEF IsAnswer
  <2>4. AnswersInOrder' /\ Len(answered) <= Sent
    BY <1>1 DEF Inv, OutcomesInOrder, AnswersInOrder
  <2>5. QED
    BY <1>1, <1>7, <1>8, <2>2, <2>3, <2>4 DEF OutcomesInOrder
<1>13. NothingAhead'
  <2>1. \A i \in 1..(n + 1) : output'[i].of <= chunk
    BY <1>2, <1>5, <1>7 DEF Inv, NothingAhead, n
  <2>2. QED
    BY <1>1, <1>6, <1>7, <2>1 DEF NothingAhead
<1>14. AnswersBeforeNextTurn'
  <2>1. SUFFICES ASSUME NEW i \in 1..(n + 1), NEW j \in 1..(n + 1), i < j,
                        output'[i].kind = "stateChanged", output'[j].kind # "stateChanged",
                        output'[j].of < output'[i].of
                 PROVE  FALSE
    BY <1>7 DEF AnswersBeforeNextTurn, Reordered
  <2>2. j \in 1..n /\ output'[j] = output[j]
    BY <1>11, <2>1
  <2>3. i \in 1..n /\ output'[i] = output[i]
    BY <1>2, <1>7, <2>1, <2>2
  <2>4. i \in DOMAIN output /\ j \in DOMAIN output
    BY <2>2, <2>3 DEF Inv, Typed, n
  <2>5. QED
    BY <2>1, <2>2, <2>3, <2>4 DEF Inv, AnswersBeforeNextTurn, Reordered
<1>15. QED
  BY <1>9, <1>10, <1>12, <1>13, <1>14 DEF Inv

(* The app takes the oldest event; an outcome is that of the next chunk. *)
LEMMA AppReceivesKeeps == ASSUME Inv, AppReceives PROVE Inv'
<1> DEFINE event == output[1]
           n == Len(output)
           a == Len(answered)
<1>1. /\ UNCHANGED <<submitted, queue, chunk, stage, states>>
      /\ output # <<>> /\ output' = Tail(output) /\ Head(output) = event
  BY DEF AppReceives, sessionVars, processorVars
<1>2. chunk \in Nat /\ n \in Nat \ {0} /\ a \in Nat
  BY <1>1, EmptySeq DEF Inv, Typed
<1>3. Sent \in Int
  BY <1>2 DEF Sent
<1>4. \A i \in 1..n : /\ output[i].of \in Nat
                      /\ output[i].kind \in {"stateChanged", "completed", "failed"}
  BY EventTyped DEF Inv, Typed
<1>5. output' \in Seq(Event) /\ Len(output') = n - 1
      /\ \A i \in 1..Len(output') : output'[i] = output[i + 1]
  BY <1>1, HeadTailProperties DEF Inv, Typed
<1>6. \A i \in 1..(n - 1) : i + 1 \in 1..n
  BY <1>2
<1>7. Sent' = Sent
  BY <1>1 DEF Sent
<1>8. /\ \A i \in 1..n : IsAnswer(output[i]) => a < output[i].of /\ output[i].of <= Sent
      /\ \A i, j \in 1..n :
           i < j /\ IsAnswer(output[i]) /\ IsAnswer(output[j]) => output[i].of < output[j].of
      /\ \A c \in 1..Sent : a < c => \E i \in 1..n : IsAnswer(output[i]) /\ output[i].of = c
      /\ a <= Sent
      /\ \A i \in 1..a : answered[i].of = i
  <2>1. DOMAIN answered = 1..a
    BY DEF Inv, Typed
  <2>2. \A i \in 1..a : answered[i].of = i
    BY <2>1 DEF Inv, OutcomesInOrder, AnswersInOrder
  <2>3. QED
    BY <2>2 DEF Inv, OutcomesInOrder
<1>9. QueueInOrder'
  BY <1>1 DEF Inv, QueueInOrder
<1> HIDE DEF n, a
<1>10. NothingAhead'
  <2>1. \A i \in 1..(n - 1) : output'[i].of <= chunk
    BY <1>5, <1>6 DEF Inv, NothingAhead, n
  <2>2. QED
    BY <1>1, <1>5, <2>1 DEF Inv, NothingAhead
<1>11. AnswersBeforeNextTurn'
  <2>1. SUFFICES ASSUME NEW i \in 1..(n - 1), NEW j \in 1..(n - 1), i < j,
                        output'[i].kind = "stateChanged", output'[j].kind # "stateChanged",
                        output'[j].of < output'[i].of
                 PROVE  FALSE
    BY <1>5 DEF AnswersBeforeNextTurn, Reordered
  <2>2. /\ i + 1 \in DOMAIN output /\ j + 1 \in DOMAIN output /\ i + 1 < j + 1
        /\ output'[i] = output[i + 1] /\ output'[j] = output[j + 1]
    BY <1>2, <1>5, <1>6, <2>1 DEF Inv, Typed, n
  <2>3. QED
    BY <2>1, <2>2 DEF Inv, AnswersBeforeNextTurn, Reordered
(* What is left of the outcomes under way, whatever was taken. *)
<1>12. /\ \A i \in 1..(n - 1) : IsAnswer(output'[i]) => a < output'[i].of /\ output'[i].of <= Sent
       /\ \A i, j \in 1..(n - 1) :
            i < j /\ IsAnswer(output'[i]) /\ IsAnswer(output'[j]) => output'[i].of < output'[j].of
  <2>1. \A i, j \in 1..(n - 1) : i < j => i + 1 < j + 1
    OBVIOUS
  <2>2. QED
    BY <1>5, <1>6, <1>8, <2>1
<1>13. \A i \in 1..n : i # 1 => i - 1 \in 1..(n - 1) /\ output'[i - 1] = output[i]
  <2>1. SUFFICES ASSUME NEW i \in 1..n, i # 1
                 PROVE  i - 1 \in 1..(n - 1) /\ output'[i - 1] = output[i]
    OBVIOUS
  <2>2. i - 1 \in 1..(n - 1) /\ (i - 1) + 1 = i
    BY <1>2, <2>1
  <2>3. QED
    BY <1>5, <2>2
<1>14. CASE event.kind = "stateChanged"
  <2>1. answered' = answered
    BY <1>1, <1>14 DEF AppReceives
  <2>2. \A c \in 1..Sent : a < c => \E i \in 1..(n - 1) : IsAnswer(output'[i]) /\ output'[i].of = c
    <3>1. SUFFICES ASSUME NEW c \in 1..Sent, a < c
                   PROVE  \E i \in 1..(n - 1) : IsAnswer(output'[i]) /\ output'[i].of = c
      OBVIOUS
    <3>2. PICK i \in 1..n : IsAnswer(output[i]) /\ output[i].of = c
      BY <1>8, <3>1
    <3>3. i # 1
      BY <1>14, <3>2 DEF IsAnswer
    <3>4. QED
      BY <1>13, <3>2, <3>3
  <2>3. OutcomesInOrder'
    BY <1>5, <1>7, <1>8, <1>12, <2>1, <2>2 DEF OutcomesInOrder, AnswersInOrder, Inv, Typed, a
  <2>4. Typed'
    BY <1>1, <1>5, <2>1 DEF Inv, Typed
  <2>5. QED
    BY <1>9, <1>10, <1>11, <2>3, <2>4 DEF Inv
<1>15. CASE event.kind # "stateChanged"
  <2> DEFINE outcome == [of |-> event.of, kind |-> event.kind]
  <2>1. IsAnswer(event) /\ event.kind \in {"completed", "failed"} /\ event.of \in Nat /\ 1 \in 1..n
    BY <1>2, <1>4, <1>15 DEF IsAnswer
  <2>2. answered' = Append(answered, outcome)
    BY <1>1, <1>2, <1>15, <2>1 DEF AppReceives, NoteAnswer
  <2>3. outcome \in [of : Nat, kind : {"completed", "failed"}] /\ outcome.of = event.of
    BY <2>1
  <2> HIDE DEF outcome
  <2>4. event.of = a + 1 /\ a + 1 <= Sent
    <3>1. a < event.of /\ event.of <= Sent
      BY <1>8, <2>1
    <3>2. a + 1 \in 1..Sent
      BY <1>2, <1>3, <2>1, <3>1
    <3>3. PICK i \in 1..n : IsAnswer(output[i]) /\ output[i].of = a + 1
      BY <1>2, <1>8, <3>2
    <3>4. i = 1 \/ event.of < output[i].of
      BY <1>2, <1>8, <2>1, <3>3
    <3>5. QED
      BY <1>2, <2>1, <3>1, <3>2, <3>3, <3>4
  <2>5. answered' \in Seq([of : Nat, kind : {"completed", "failed"}]) /\ Len(answered') = a + 1
        /\ \A i \in 1..(a + 1) : answered'[i] = IF i = a + 1 THEN outcome ELSE answered[i]
    BY <2>2, <2>3, AppendProperties DEF Inv, Typed, a
  <2>6. \A i \in 1..(a + 1) : answered'[i].of = i
    BY <1>2, <1>8, <2>3, <2>4, <2>5
  <2>7. AnswersInOrder'
    BY <2>5, <2>6 DEF AnswersInOrder
  <2>8. \A i \in 1..(n - 1) : IsAnswer(output'[i]) => a + 1 < output'[i].of /\ output'[i].of <= Sent
    <3>1. SUFFICES ASSUME NEW i \in 1..(n - 1), IsAnswer(output'[i])
                   PROVE  a + 1 < output'[i].of /\ output'[i].of <= Sent
      OBVIOUS
    <3>2. output'[i] = output[i + 1] /\ i + 1 \in 1..n /\ 1 < i + 1
      BY <1>2, <1>5, <1>6
    <3>3. event.of < output[i + 1].of /\ output[i + 1].of <= Sent
      BY <1>8, <2>1, <3>1, <3>2
    <3>4. QED
      BY <2>4, <3>2, <3>3
  <2>9. \A c \in 1..Sent : a + 1 < c =>
          \E i \in 1..(n - 1) : IsAnswer(output'[i]) /\ output'[i].of = c
    <3>1. SUFFICES ASSUME NEW c \in 1..Sent, a + 1 < c
                   PROVE  \E i \in 1..(n - 1) : IsAnswer(output'[i]) /\ output'[i].of = c
      OBVIOUS
    <3>2. a < c
      BY <1>2, <1>3, <3>1
    <3>3. PICK i \in 1..n : IsAnswer(output[i]) /\ output[i].of = c
      BY <1>8, <3>2
    <3>4. i # 1
      BY <1>2, <2>4, <3>1, <3>3
    <3>5. QED
      BY <1>13, <3>3, <3>4
  <2>10. OutcomesInOrder'
    BY <1>5, <1>7, <1>12, <2>4, <2>5, <2>7, <2>8, <2>9 DEF OutcomesInOrder
  <2>11. Typed'
    BY <1>1, <1>5, <2>5 DEF Inv, Typed
  <2>12. QED
    BY <1>9, <1>10, <1>11, <2>10, <2>11 DEF Inv
<1>16. QED
  BY <1>14, <1>15

(* Sessions, the tray and the record button: nothing in Inv moves, but for a *)
(* chunk the session may queue.                                              *)
LEMMA ElsewhereKeeps ==
  ASSUME Inv, UNCHANGED <<submitted, queue, chunk, stage, states, output, answered>>
  PROVE  Inv'
BY DEF Inv, Typed, QueueInOrder, OutcomesInOrder, NothingAhead, AnswersBeforeNextTurn, Reordered,
       AnswersInOrder, Sent

LEMMA StepKeepsInv == Inv /\ [TranscriptionNext]_transcriptionVars => Inv'
<1> SUFFICES ASSUME Inv, [TranscriptionNext]_transcriptionVars PROVE Inv'
  OBVIOUS
<1>1. CASE Session
  <2>1. CASE SendChunk /\ UNCHANGED <<processorVars, states, output, answered>>
    BY <2>1, SendChunkKeeps
  <2>2. CASE UNCHANGED <<submitted, queue, processorVars, states, output, answered>>
    BY <2>2, ElsewhereKeeps DEF processorVars
  <2>3. QED
    BY <1>1, <2>1, <2>2 DEF Session, OpenCapture, SplitCapture, CloseCapture
<1>2. CASE Processor
  BY <1>2, TakeChunkKeeps, ProcessorKeeps, AnswerKeeps DEF Processor
<1>3. CASE ForwardState
  BY <1>3, ForwardKeeps
<1>4. CASE AppReceives
  BY <1>4, AppReceivesKeeps
<1>5. CASE TrayDoneTick \/ LingerElapses \/ Button
  BY <1>5, ElsewhereKeeps DEF TrayDoneTick, LingerElapses, Button, StartRecording, StopRecording,
     TranscribeFile, FileTranscribed, sessionVars, processorVars
<1>6. CASE UNCHANGED transcriptionVars
  BY <1>6, ElsewhereKeeps DEF transcriptionVars, sessionVars, processorVars
<1>7. QED
  BY <1>1, <1>2, <1>3, <1>4, <1>5, <1>6 DEF TranscriptionNext, App

(* The app sees exactly one outcome per chunk, in the order the chunks were  *)
(* queued, whatever fails, hangs or waits for room (processor::process).     *)
THEOREM OneOutcomeInOrder == TranscriptionSpec => []AnswersInOrder
<1>1. Inv => AnswersInOrder
  BY DEF Inv, OutcomesInOrder
<1>2. QED
  BY <1>1, InitInv, StepKeepsInv, PTL DEF TranscriptionSpec

(* No turn's state overtakes the outcome of an earlier one, although they    *)
(* come from two tasks with senders of their own (worker/mod.rs).            *)
THEOREM NoOutcomeOvertaken == TranscriptionSpec => []AnswersBeforeNextTurn
<1>1. Inv => AnswersBeforeNextTurn
  BY DEF Inv
<1>2. QED
  BY <1>1, InitInv, StepKeepsInv, PTL DEF TranscriptionSpec

(* The app's side: what the session, the tray and the record button hold. *)
AppTyped ==
  /\ capturing \in BOOLEAN
  /\ pipelineState \in PipelineState
  /\ tray \in TrayVisual
  /\ linger \in {"none", "pending", "past"}
  /\ isRecording \in BOOLEAN
  /\ started \in Nat /\ jobs \subseteq Nat

LEMMA VisualTyped == \A state \in PipelineState : VisualFor(state) \in TrayVisual
BY DEF PipelineState, VisualFor, TrayVisual

LEMMA SetKeepsTypes ==
  ASSUME NEW state \in PipelineState, SetPipelineState(state)
  PROVE  pipelineState' \in PipelineState /\ tray' \in TrayVisual
         /\ linger' \in {"none", "pending", "past"}
BY VisualTyped DEF SetPipelineState

LEMMA DoneKeepsTypes ==
  ASSUME BeginTrayDoneLinger
  PROVE  tray' \in TrayVisual /\ linger' \in {"none", "pending", "past"}
BY DEF BeginTrayDoneLinger, TrayVisual

LEMMA JobTyped ==
  ASSUME AppTyped, StartJob
  PROVE  started' \in Nat /\ jobs' \subseteq Nat
BY DEF AppTyped, StartJob

LEMMA ReceivesKeepsTypes == ASSUME Inv, AppTyped, AppReceives PROVE AppTyped'
<1> DEFINE event == Head(output)
<1>1. output \in Seq(Event) /\ output # <<>>
  BY DEF Inv, Typed, AppReceives
<1>2. event \in Event
  BY <1>1, HeadTailProperties
<1>3. event.kind \in {"stateChanged", "completed", "failed"}
  BY <1>2, EventTyped
<1>4. event.kind = "stateChanged" => event.state \in PipelineState
  BY <1>2 DEF Event
<1> HIDE DEF event
<1>5. UNCHANGED <<capturing, isRecording, started, jobs>>
  BY DEF AppReceives, sessionVars, buttonVars
<1>6. pipelineState' \in PipelineState /\ tray' \in TrayVisual
      /\ linger' \in {"none", "pending", "past"}
  <2>1. CASE event.kind = "stateChanged"
    <3>1. StateChanged(event.state)
      BY <2>1 DEF AppReceives, event
    <3>2. QED
      BY <2>1, <3>1, <1>4, VisualTyped DEF StateChanged, AppTyped
  <2>2. CASE event.kind = "completed"
    <3>1. Completed
      BY <2>2 DEF AppReceives, event
    <3>2. QED
      BY <3>1, DoneKeepsTypes DEF Completed, AppTyped
  <2>3. CASE event.kind = "failed"
    <3>1. UNCHANGED trayVars
      BY <2>3 DEF AppReceives, Failed, event
    <3>2. QED
      BY <3>1 DEF trayVars, AppTyped
  <2>4. QED
    BY <1>3, <2>1, <2>2, <2>3
<1>7. QED
  BY <1>5, <1>6 DEF AppTyped

LEMMA AppTypedStep == Inv /\ AppTyped /\ [TranscriptionNext]_transcriptionVars => AppTyped'
<1> SUFFICES ASSUME Inv, AppTyped, [TranscriptionNext]_transcriptionVars PROVE AppTyped'
  OBVIOUS
<1>1. CASE Session
  <2>1. UNCHANGED <<pipelineState, tray, linger, isRecording, started, jobs>>
    BY <1>1 DEF Session, OpenCapture, SplitCapture, CloseCapture, trayVars, buttonVars
  <2>2. capturing' \in BOOLEAN
    BY <1>1 DEF Session, OpenCapture, SplitCapture, CloseCapture, AppTyped
  <2>3. QED
    BY <2>1, <2>2 DEF AppTyped
<1>2. CASE Processor
  BY <1>2 DEF Processor, TakeChunk, Transcribe, Refine, RefineTimeout, Answer, AppTyped,
     sessionVars, trayVars, buttonVars
<1>3. CASE ForwardState
  BY <1>3 DEF ForwardState, AppTyped, sessionVars, trayVars, buttonVars
<1>4. CASE AppReceives
  BY <1>4, ReceivesKeepsTypes
<1>5. CASE TrayDoneTick
  BY <1>5, VisualTyped DEF TrayDoneTick, AppTyped, sessionVars, buttonVars
<1>6. CASE LingerElapses
  BY <1>6 DEF LingerElapses, AppTyped, sessionVars, buttonVars
<1>7. CASE StartRecording
  <2>1. UNCHANGED <<capturing, started, jobs>>
    BY <1>7 DEF StartRecording, sessionVars
  <2>2. isRecording' \in BOOLEAN
    BY <1>7 DEF StartRecording, AppTyped
  <2>3. SetPipelineState("recording") \/ SetPipelineState("idle")
    BY <1>7 DEF StartRecording
  <2>4. QED
    BY <2>1, <2>2, <2>3, SetKeepsTypes DEF AppTyped, PipelineState
<1>8. CASE StopRecording
  <2>1. UNCHANGED capturing /\ isRecording' \in BOOLEAN
    BY <1>8 DEF StopRecording, sessionVars
  <2>2. SetPipelineState("transcribing") \/ SetPipelineState("idle")
    BY <1>8 DEF StopRecording
  <2>3. StartJob \/ UNCHANGED <<jobs, started>>
    BY <1>8 DEF StopRecording
  <2>4. started' \in Nat /\ jobs' \subseteq Nat
    BY <2>3, JobTyped DEF AppTyped
  <2>5. QED
    BY <2>1, <2>2, <2>4, SetKeepsTypes DEF AppTyped, PipelineState
<1>9. CASE TranscribeFile
  BY <1>9, JobTyped DEF TranscribeFile, AppTyped, sessionVars, trayVars
<1>10. CASE FileTranscribed
  <2>1. UNCHANGED <<capturing, isRecording, started>>
    BY <1>10 DEF FileTranscribed, sessionVars
  <2>2. jobs' \subseteq Nat
    BY <1>10 DEF FileTranscribed, AppTyped
  <2>3. CASE pipelineState' = "idle" /\ BeginTrayDoneLinger
    BY <2>1, <2>2, <2>3, DoneKeepsTypes DEF AppTyped, PipelineState
  <2>4. CASE SetPipelineState("idle")
    BY <2>1, <2>2, <2>4, SetKeepsTypes DEF AppTyped, PipelineState
  <2>5. QED
    BY <1>10, <2>3, <2>4 DEF FileTranscribed
<1>11. CASE UNCHANGED transcriptionVars
  BY <1>11 DEF transcriptionVars, AppTyped, sessionVars, trayVars, buttonVars
<1>12. QED
  BY <1>1, <1>2, <1>3, <1>4, <1>5, <1>6, <1>7, <1>8, <1>9, <1>10, <1>11 DEF TranscriptionNext, App, Button

(* Every variable keeps its type, whatever a transcription returns, whoever  *)
(* redraws the tray and however many events wait (worker_events.rs, app.rs). *)
THEOREM TypeCorrect == TranscriptionSpec => []TranscriptionTypeOK
<1>1. TranscriptionInit => AppTyped
  <2> SUFFICES ASSUME TranscriptionInit PROVE AppTyped
    OBVIOUS
  <2>1. capturing \in BOOLEAN /\ isRecording \in BOOLEAN /\ linger \in {"none", "pending", "past"}
    BY DEF TranscriptionInit
  <2>2. pipelineState \in PipelineState /\ tray \in TrayVisual
    BY DEF TranscriptionInit, PipelineState, TrayVisual
  <2>3. started \in Nat /\ jobs \subseteq Nat
    BY DEF TranscriptionInit
  <2>4. QED
    BY <2>1, <2>2, <2>3 DEF AppTyped
<1>2. Inv /\ AppTyped => TranscriptionTypeOK
  <2> SUFFICES ASSUME Inv, AppTyped PROVE TranscriptionTypeOK
    OBVIOUS
  <2>1. Typed
    BY DEF Inv
  <2>2. QED
    BY <2>1 DEF Typed, AppTyped, TranscriptionTypeOK
<1>3. QED
  BY <1>1, <1>2, InitInv, StepKeepsInv, AppTypedStep, PTL DEF TranscriptionSpec
=============================================================================
