-------------------------- MODULE HoldStream_proofs --------------------------
(* The hold stream alternates; the lemmas serve whoever implements or uses it. *)
EXTENDS HoldStream, SequenceTheorems, TLAPS

(* Appending an action that flips the phase, or taking the first one, keeps *)
(* a sequence of actions alternating between the phases around it.          *)
LEMMA AlternatingAppend ==
  ASSUME NEW s \in Seq(DebounceAction), NEW before \in BOOLEAN, NEW after \in BOOLEAN,
         NEW a \in DebounceAction, a = "start" <=> ~after,
         Alternating(s, before, after)
  PROVE  Alternating(Append(s, a), before, a = "start")
<1>1. CASE s = <<>>
  BY <1>1 DEF Alternating
<1>2. CASE s # <<>>
  <2>1. s[1] = "start" <=> ~before
    BY <1>2 DEF Alternating
  <2>2. s[Len(s)] = "start" <=> after
    BY <1>2 DEF Alternating
  <2>3. /\ Len(Append(s, a)) = Len(s) + 1
        /\ \A i \in 1..Len(s) : Append(s, a)[i] = s[i]
        /\ Append(s, a)[Len(s) + 1] = a
        /\ Len(s) \in Nat \ {0}
    BY <1>2, AppendProperties, EmptySeq
  <2>4. \A i \in 1..Len(s) : Append(s, a)[i] = "start" <=> Append(s, a)[i + 1] # "start"
    <3> SUFFICES ASSUME NEW i \in 1..Len(s)
                 PROVE  Append(s, a)[i] = "start" <=> Append(s, a)[i + 1] # "start"
      OBVIOUS
    <3>1. CASE i = Len(s)
      BY <2>2, <2>3, <3>1
    <3>2. CASE i < Len(s)
      BY <2>3, <3>2 DEF Alternating
    <3>3. QED
      BY <2>3, <3>1, <3>2
  <2>5. Append(s, a)[1] = "start" <=> ~before
    BY <2>1, <2>3
  <2>6. Append(s, a) # <<>>
    BY AppendProperties
  <2>7. Append(s, a)[Len(Append(s, a))] = a
    BY <2>3
  <2>8. \A i \in 1..(Len(Append(s, a)) - 1) :
          Append(s, a)[i] = "start" <=> Append(s, a)[i + 1] # "start"
    BY <2>3, <2>4
  <2>9. QED
    BY <2>5, <2>6, <2>7, <2>8 DEF Alternating
<1>3. QED
  BY <1>1, <1>2

LEMMA AlternatingShift ==
  ASSUME NEW s \in Seq(DebounceAction), NEW t \in Seq(DebounceAction),
         NEW before \in BOOLEAN, NEW after \in BOOLEAN,
         s # <<>>, Alternating(s, before, after),
         Len(t) = Len(s) - 1, \A i \in 1..Len(t) : t[i] = s[i + 1]
  PROVE  Alternating(t, s[1] = "start", after)
<1>1. /\ Len(s) \in Nat \ {0}
      /\ t # <<>> <=> Len(t) # 0
  BY EmptySeq
<1>2. CASE Len(s) = 1
  <2>1. t = <<>>
    BY <1>1, <1>2, EmptySeq
  <2>2. s[1] = "start" <=> after
    BY <1>2 DEF Alternating
  <2>3. QED
    BY <1>1, <2>1, <2>2 DEF Alternating
<1>3. CASE Len(s) > 1
  <2>1. t # <<>>
    BY <1>1, <1>3
  <2>2. s[1] = "start" <=> s[2] # "start"
    BY <1>1, <1>3 DEF Alternating
  <2>3. s[Len(s)] = "start" <=> after
    BY DEF Alternating
  <2>4. \A i \in 1..(Len(t) - 1) : t[i] = "start" <=> t[i + 1] # "start"
    <3> SUFFICES ASSUME NEW i \in 1..(Len(t) - 1)
                 PROVE  t[i] = "start" <=> t[i + 1] # "start"
      OBVIOUS
    <3>1. t[i] = s[i + 1] /\ t[i + 1] = s[i + 2]
      BY <1>1
    <3>2. s[i + 1] = "start" <=> s[i + 2] # "start"
      BY <1>1 DEF Alternating
    <3>3. QED
      BY <3>1, <3>2
  <2>5. t[1] = s[2] /\ t[Len(t)] = s[Len(s)]
    BY <1>1, <1>3
  <2>6. QED
    BY <1>1, <2>1, <2>2, <2>3, <2>4, <2>5 DEF Alternating
<1>4. QED
  BY <1>1, <1>2, <1>3

LEMMA AlternatingTail ==
  ASSUME NEW s \in Seq(DebounceAction), NEW before \in BOOLEAN, NEW after \in BOOLEAN,
         s # <<>>, Alternating(s, before, after)
  PROVE  Alternating(Tail(s), Head(s) = "start", after)
<1> DEFINE t == Tail(s)
<1>1. /\ Len(t) = Len(s) - 1
      /\ \A i \in 1..Len(t) : t[i] = s[i + 1]
      /\ t \in Seq(DebounceAction)
  BY HeadTailProperties
<1>2. Head(s) = s[1]
  OBVIOUS
<1> HIDE DEF t
<1>3. Alternating(t, s[1] = "start", after)
  BY <1>1, AlternatingShift
<1>4. QED
  BY <1>2, <1>3 DEF t

(* Every step of the stream keeps it alternating. *)
LEMMA AlternationKept ==
  ASSUME HoldTypeOK, HoldTypeOK', Alternates, [HoldNext]_holdVars
  PROVE  Alternates'
<1>1. CASE Begin
  <2>1. Alternating(Append(stream, "start"), recording, "start" = "start")
    BY <1>1, AlternatingAppend DEF Begin, Alternates, HoldTypeOK, DebounceAction
  <2>2. QED
    BY <1>1, <2>1 DEF Begin, Alternates, Alternating
<1>2. CASE End
  <2>1. PICK a \in Closings : stream' = Append(stream, a)
    BY <1>2 DEF End
  <2>2. a # "start" /\ a \in DebounceAction
    BY DEF Closings, DebounceAction
  <2>3. Alternating(stream', recording, a = "start")
    BY <1>2, <2>1, <2>2, AlternatingAppend DEF End, Alternates, HoldTypeOK
  <2>4. QED
    BY <1>2, <2>2, <2>3 DEF End, Alternates, Alternating
<1>3. CASE Take
  <2>1. Alternating(Tail(stream), Head(stream) = "start", open)
    BY <1>3, AlternatingTail DEF Take, Alternates, HoldTypeOK
  <2>2. QED
    BY <1>3, <2>1 DEF Take, Alternates
<1>4. CASE UNCHANGED holdVars
  BY <1>4 DEF holdVars, Alternates
<1>5. QED
  BY <1>1, <1>2, <1>3, <1>4 DEF HoldNext

(* And keeps its type. *)
LEMMA HoldTypeKept ==
  HoldTypeOK /\ [HoldNext]_holdVars => HoldTypeOK'
<1> SUFFICES ASSUME HoldTypeOK, [HoldNext]_holdVars PROVE HoldTypeOK'
  OBVIOUS
<1>1. stream' \in Seq(DebounceAction)
  <2>1. CASE Begin
    BY <2>1, AppendProperties DEF Begin, HoldTypeOK, DebounceAction
  <2>2. CASE End
    BY <2>2, AppendProperties DEF End, HoldTypeOK, DebounceAction
  <2>3. CASE Take
    BY <2>3, HeadTailProperties DEF Take, HoldTypeOK
  <2>4. CASE UNCHANGED holdVars
    BY <2>4 DEF holdVars, HoldTypeOK
  <2>5. QED
    BY <2>1, <2>2, <2>3, <2>4 DEF HoldNext
<1>2. open' \in BOOLEAN /\ recording' \in BOOLEAN
  <2>1. CASE Begin
    BY <2>1, Zenon DEF Begin, HoldTypeOK
  <2>2. CASE End
    BY <2>2, Zenon DEF End, HoldTypeOK
  <2>3. CASE Take
    BY <2>3, Zenon DEF Take, HoldTypeOK
  <2>4. CASE UNCHANGED holdVars
    BY <2>4, Zenon DEF holdVars, HoldTypeOK
  <2>5. QED
    BY <2>1, <2>2, <2>3, <2>4 DEF HoldNext
<1>3. QED
  BY <1>1, <1>2 DEF HoldTypeOK

LEMMA HoldInitAlternates == HoldInit => HoldTypeOK /\ Alternates
<1>1. HoldInit => HoldTypeOK
  <2>1. HoldInit => stream \in Seq(DebounceAction)
    BY DEF HoldInit
  <2>2. HoldInit => open \in BOOLEAN /\ recording \in BOOLEAN
    BY Zenon DEF HoldInit
  <2>3. QED
    BY <2>1, <2>2 DEF HoldTypeOK
<1>2. HoldInit => Alternates
  BY DEF HoldInit, Alternates, Alternating
<1>3. QED
  BY <1>1, <1>2

(* The stream alternates in every behaviour that obeys it. *)
THEOREM HoldsAlternateAlways == HoldSpec => []Alternates
<1>1. HoldSpec => [](HoldTypeOK /\ Alternates)
  <2>1. HoldTypeOK /\ Alternates /\ [HoldNext]_holdVars => (HoldTypeOK /\ Alternates)'
    BY HoldTypeKept, AlternationKept
  <2>2. QED
    BY <2>1, HoldInitAlternates, PTL DEF HoldSpec
<1>2. QED
  BY <1>1, PTL
=============================================================================
