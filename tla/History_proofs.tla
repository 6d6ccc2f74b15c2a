--------------------------- MODULE History_proofs ---------------------------
(***************************************************************************)
(* While history encryption is on, nothing the app wrote is in the clear:  *)
(* for any number of entries, switches, crashes and runs of the command    *)
(* line tool, whichever calls fail.                                        *)
(***************************************************************************)
EXTENDS History, SequenceTheorems, TLAPS

(* What the user has switched on holds of the journal, as far as a line can *)
(* be converted at all.                                                     *)
Encrypted == chosen /\ ~drifted => \A line \in Exposed(journal) : line.key = NoKey

(* Nothing dictated to the app has run into an encrypted line. *)
Clean(lines) == \A line \in ToSet(lines) : line.key = NoKey => "app" \notin line.texts

(* As long as no boot has lost the setting, that holds, since the last line *)
(* is encrypted and without its newline only while encryption is on.        *)
Straight ==
  /\ drifted => strayed
  /\ ~strayed =>
       /\ Clean(journal)
       /\ pc = "rename" => Clean(temp)
       /\ ~terminated /\ ~chosen => journal[Len(journal)].key = Plain

(* A running app acts on the setting the user chose, unless a crash cost it that. *)
InForce ==
  /\ pc # "off" /\ ~drifted => (setting <=> chosen)
  /\ pc = "off" => ~setting

(* A switch converts what it has read, under a real key; where it has read  *)
(* nothing, the app has written nothing since.                              *)
Switching ==
  /\ pc \in {"minting", "rewrite", "rename"} => key # Plain
  /\ pc = "rename" => /\ temp = Convert(seen, key, ~setting)
                      /\ seen = <<>> => /\ terminated
                                        /\ Own(journal) = {}
                                        /\ \A line \in ToSet(journal) : "app" \notin line.texts

IInv == HistoryTypeOK /\ Encrypted /\ Straight /\ InForce /\ Switching

(* Converting changes the keys of lines and nothing else. *)
LEMMA ConvertTyped ==
  ASSUME NEW lines \in Seq(Line), NEW with \in Nat, NEW on \in BOOLEAN
  PROVE  /\ Convert(lines, with, on) \in Seq(Line)
         /\ Len(Convert(lines, with, on)) = Len(lines)
         /\ \A i \in 1..Len(lines) :
              Convert(lines, with, on)[i] =
                IF Decodes(lines[i], with)
                  THEN [lines[i] EXCEPT !.key = IF on THEN with ELSE Plain] ELSE lines[i]
<1> DEFINE new(i) == IF Decodes(lines[i], with)
                       THEN [lines[i] EXCEPT !.key = IF on THEN with ELSE Plain] ELSE lines[i]
<1>1. Convert(lines, with, on) = [i \in 1..Len(lines) |-> new(i)]
  BY DEF Convert
<1>2. \A i \in 1..Len(lines) : new(i) \in Line
  <2> TAKE i \in 1..Len(lines)
  <2>1. lines[i] \in Line
    OBVIOUS
  <2>2. [lines[i] EXCEPT !.key = IF on THEN with ELSE Plain] \in Line
    BY <2>1 DEF Line, Plain
  <2>3. QED
    BY <2>1, <2>2
<1> HIDE DEF new
<1>3. Len(lines) \in Nat
  OBVIOUS
<1>4. [i \in 1..Len(lines) |-> new(i)] \in Seq(Line)
  BY <1>2, <1>3
<1>5. QED
  BY <1>1, <1>3, <1>4 DEF new

(* Converting towards encryption leaves no line in the clear but those      *)
(* something has run into.                                                  *)
LEMMA ConvertEncrypts ==
  ASSUME NEW lines \in Seq(Line), NEW with \in Nat, with # Plain
  PROVE  \A line \in Exposed(Convert(lines, with, TRUE)) : line.key = NoKey
<1> DEFINE new == Convert(lines, with, TRUE)
<1>1. /\ new \in Seq(Line) /\ Len(new) = Len(lines)
      /\ \A i \in 1..Len(lines) :
           new[i] = IF Decodes(lines[i], with) THEN [lines[i] EXCEPT !.key = with] ELSE lines[i]
  BY ConvertTyped
<1> HIDE DEF new
<1>2. ASSUME NEW i \in 1..Len(new) PROVE new[i].key # Plain
  <2>1. lines[i] \in Line
    BY <1>1
  <2>2. CASE Decodes(lines[i], with)
    BY <1>1, <2>1, <2>2 DEF Line
  <2>3. CASE ~Decodes(lines[i], with)
    BY <1>1, <2>1, <2>3 DEF Decodes
  <2>4. QED
    BY <2>2, <2>3
<1>3. \A line \in Exposed(new) : line.key \in {Plain, NoKey} /\ \E i \in 1..Len(new) : line = new[i]
  BY <1>1 DEF Exposed, InClear, ToSet
<1>4. QED
  BY <1>2, <1>3 DEF new

(* Converting runs nothing together. *)
LEMMA ConvertClean ==
  ASSUME NEW lines \in Seq(Line), NEW with \in Nat, NEW on \in BOOLEAN, Clean(lines)
  PROVE  Clean(Convert(lines, with, on))
<1> DEFINE new == Convert(lines, with, on)
<1> DEFINE target == IF on THEN with ELSE Plain
<1>1. /\ new \in Seq(Line) /\ Len(new) = Len(lines)
      /\ \A i \in 1..Len(lines) :
           new[i] = IF Decodes(lines[i], with) THEN [lines[i] EXCEPT !.key = target] ELSE lines[i]
  BY ConvertTyped
<1>2. target # NoKey
  BY DEF Plain, NoKey
<1> HIDE DEF new, target
<1>3. ASSUME NEW i \in 1..Len(new), new[i].key = NoKey PROVE "app" \notin new[i].texts
  <2>1. lines[i] \in Line
    BY <1>1
  <2>2. CASE Decodes(lines[i], with)
    BY <1>1, <1>2, <1>3, <2>1, <2>2 DEF Line
  <2>3. CASE ~Decodes(lines[i], with)
    <3>1. i \in 1..Len(lines) /\ new[i] = lines[i]
      BY <1>1, <2>3
    <3>2. lines[i] \in ToSet(lines)
      BY <3>1 DEF ToSet
    <3>3. QED
      BY <1>3, <3>1, <3>2 DEF Clean
  <2>4. QED
    BY <2>2, <2>3
<1>4. QED
  BY <1>1, <1>3 DEF Clean, ToSet, new

(* `new` may come from `old`: it is not restored, and its key is the same,  *)
(* or something has run into it.                                            *)
From(new, old) ==
  \/ new.key = old.key /\ (new.entry # Garbled => old.entry # Garbled)
  \/ new.key = NoKey /\ old.key # Plain /\ new.entry = Garbled

(* What a line is another has run into. *)
LEMMA TogetherFacts ==
  ASSUME NEW first \in Line, NEW line \in Line
  PROVE  LET both == RunTogether(first, line) IN
           /\ both \in Line /\ both.by = first.by /\ both.entry = Garbled
           /\ both.key = IF first.key = Plain THEN Plain ELSE NoKey
           /\ both.texts = InClear(first) \cup InClear(line)
           /\ From(both, first)
<1> DEFINE texts == InClear(first) \cup InClear(line)
<1> DEFINE sealed == IF first.key = Plain THEN Plain ELSE NoKey
<1>1. texts \in SUBSET {"app", "cli"} /\ sealed \in Nat \cup {NoKey}
  BY DEF Line, InClear, Plain
<1>2. RunTogether(first, line) = [first EXCEPT !.entry = Garbled, !.key = sealed, !.texts = texts]
  BY DEF RunTogether
<1>3. first = [entry |-> first.entry, key |-> first.key, by |-> first.by, texts |-> first.texts]
      /\ first.by \in {"app", "cli"}
  BY DEF Line
<1> HIDE DEF texts, sealed
<1>4. RunTogether(first, line) =
        [entry |-> Garbled, key |-> sealed, by |-> first.by, texts |-> texts]
  BY <1>3, <1>2
<1>5. /\ RunTogether(first, line) \in Line /\ RunTogether(first, line).by = first.by
      /\ RunTogether(first, line).entry = Garbled /\ RunTogether(first, line).key = sealed
      /\ RunTogether(first, line).texts = texts
  BY <1>1, <1>3, <1>4 DEF Line, Garbled
<1>6. From(RunTogether(first, line), first)
  BY <1>5 DEF From, sealed
<1>7. QED
  BY <1>5, <1>6 DEF texts, sealed

(* An append adds a line, or runs into the last one. *)
LEMMA AppendLineFacts ==
  ASSUME NEW line \in Line, journal \in Seq(Line), terminated \in BOOLEAN,
         journal = <<>> => terminated
  PROVE  LET new == AppendLine(line)
             last == journal[Len(journal)] IN
         /\ new \in Seq(Line)
         /\ new # <<>>
         /\ terminated => /\ new[Len(new)] = line
                          /\ \A l \in ToSet(new) : l = line \/ l \in ToSet(journal)
         /\ ~terminated => /\ last \in ToSet(journal)
                           /\ new[Len(new)] = RunTogether(last, line)
                           /\ \A l \in ToSet(new) :
                                l = RunTogether(last, line) \/ l \in ToSet(journal)
<1> DEFINE last == journal[Len(journal)]
<1>1. CASE terminated
  <2> DEFINE longer == Append(journal, line)
  <2>1. /\ longer \in Seq(Line) /\ Len(longer) = Len(journal) + 1 /\ Len(journal) \in Nat
        /\ \A i \in 1..Len(journal) : longer[i] = journal[i]
        /\ longer[Len(journal) + 1] = line
    BY AppendProperties
  <2>2. AppendLine(line) = longer
    BY <1>1 DEF AppendLine
  <2> HIDE DEF longer
  <2>3. longer # <<>>
    BY <2>1, EmptySeq
  <2>4. \A l \in ToSet(longer) : l = line \/ l \in ToSet(journal)
    BY <2>1 DEF ToSet
  <2>5. QED
    BY <1>1, <2>1, <2>2, <2>3, <2>4
<1>2. CASE ~terminated
  <2> DEFINE both == RunTogether(last, line)
  <2> DEFINE same == [journal EXCEPT ![Len(journal)] = both]
  <2>1. journal # <<>> /\ Len(journal) \in 1..Len(journal) /\ Len(journal) \in Nat
    BY <1>2, EmptySeq
  <2>2. last \in Line /\ last \in ToSet(journal)
    BY <2>1 DEF ToSet
  <2>3. both \in Line
    BY <2>2, TogetherFacts
  <2>4. AppendLine(line) = same
    BY <1>2, <2>1 DEF AppendLine
  <2> HIDE DEF both
  <2>5. /\ same \in Seq(Line) /\ Len(same) = Len(journal)
        /\ \A i \in 1..Len(journal) : same[i] = IF i = Len(journal) THEN both ELSE journal[i]
    BY <2>1, <2>3
  <2> HIDE DEF same
  <2>6. same # <<>>
    BY <2>1, <2>5, EmptySeq
  <2>7. \A l \in ToSet(same) : l = both \/ l \in ToSet(journal)
    BY <2>5 DEF ToSet
  <2>8. QED
    BY <1>2, <2>1, <2>2, <2>4, <2>5, <2>6, <2>7 DEF both
<1>3. QED
  BY <1>1, <1>2

(* The app's lines after it: the line, or what there was. *)
LEMMA AppendOwn ==
  ASSUME NEW line \in Line, journal \in Seq(Line), terminated \in BOOLEAN,
         journal = <<>> => terminated
  PROVE  \A new \in Own(AppendLine(line)) : new = line \/ \E old \in Own(journal) : From(new, old)
<1> DEFINE all == AppendLine(line)
<1> DEFINE last == journal[Len(journal)]
<1>1. ASSUME NEW new \in Own(all), new # line PROVE \E old \in Own(journal) : From(new, old)
  <2>1. new \in ToSet(all) /\ new.by = "app"
    BY <1>1 DEF Own
  <2>2. CASE new \in ToSet(journal)
    BY <2>1, <2>2 DEF Own, From
  <2>3. CASE ~terminated /\ new = RunTogether(last, line) /\ last \in ToSet(journal)
    <3>1. last \in Line
      BY <2>3 DEF ToSet
    <3>2. new.by = last.by /\ From(new, last)
      BY <2>3, <3>1, TogetherFacts
    <3>3. last \in Own(journal)
      BY <2>1, <2>3, <3>2 DEF Own
    <3>4. QED
      BY <3>2, <3>3
  <2>4. QED
    BY <1>1, <2>1, <2>2, <2>3, AppendLineFacts
<1>2. QED
  BY <1>1

-----------------------------------------------------------------------------
(* Types *)

Counts == [entries : Nat, switches : Nat, saves : Nat, crashes : Nat, runs : Nat]

LEMMA SpendTyped ==
  ASSUME used \in Counts, NEW what \in {"entries", "switches", "saves", "crashes", "runs"},
         NEW bound, Spend(what, bound)
  PROVE  used' \in Counts /\ used'[what] \in Nat
BY DEF Spend, Counts

LEMMA LoadKeyTyped ==
  ASSUME minted \in Nat, keystore \in 0..minted, NEW found, NEW minting, LoadKey(found, minting)
  PROVE  /\ minted' \in Nat /\ minted <= minted'
         /\ key' \in 0..minted' /\ key' # Plain
         /\ pc' \in {found, minting}
BY DEF LoadKey, Plain

LEMMA TypeInit == HistoryInit => HistoryTypeOK
<1> SUFFICES ASSUME HistoryInit PROVE HistoryTypeOK
  OBVIOUS
<1>1. terminated \in BOOLEAN /\ setting \in BOOLEAN /\ chosen \in BOOLEAN /\ drifted \in BOOLEAN
      /\ strayed \in BOOLEAN
  BY DEF HistoryInit
<1>2. journal \in Seq(Line) /\ temp \in Seq(Line) /\ seen \in Seq(Line)
      /\ (journal = <<>> => terminated)
  BY EmptySeq DEF HistoryInit
<1>3. minted \in Nat /\ keystore \in 0..minted /\ held \in 0..minted /\ key \in 0..minted
  BY DEF HistoryInit, Plain
<1>4. cli \in [pc : {"done", "transcribing", "minting", "append"}, setting : BOOLEAN,
               key : 0..minted]
  BY <1>3 DEF HistoryInit
<1>5. used \in Counts
  BY DEF HistoryInit, Counts
<1>6. disk \in {"on", "off", "truncated"} /\ pc = "off"
  BY DEF HistoryInit
<1>7. QED
  BY <1>1, <1>2, <1>3, <1>4, <1>5, <1>6 DEF HistoryTypeOK, Counts

LEMMA AppendTyped ==
  ASSUME HistoryTypeOK, NEW line \in Line, journal' = AppendLine(line)
  PROVE  journal' \in Seq(Line) /\ journal' # <<>>
BY AppendLineFacts DEF HistoryTypeOK

LEMMA DictateTyped == ASSUME HistoryTypeOK, Dictate PROVE HistoryTypeOK'
<1>1. used' \in Counts /\ used'.entries \in Nat
  BY SpendTyped DEF Dictate, HistoryTypeOK, Counts
<1>2. journal' \in Seq(Line) /\ terminated' \in BOOLEAN /\ (journal' = <<>> => terminated')
      /\ pc' \in {"idle", "newline"}
  <2>1. CASE UNCHANGED <<journal, terminated, pc>>
    BY <2>1 DEF HistoryTypeOK, Dictate
  <2>2. CASE ~UNCHANGED <<journal, terminated, pc>>
    <3> DEFINE line == Written("app", IF setting THEN held ELSE Plain)
    <3>1. line \in Line
      BY <1>1 DEF HistoryTypeOK, Line, Plain, Written
    <3>2. journal' = AppendLine(line) /\ terminated' = FALSE /\ pc' = "newline"
      BY <2>2 DEF Dictate
    <3> HIDE DEF line
    <3>3. QED
      BY <3>1, <3>2, AppendTyped
  <2>3. QED
    BY <2>1, <2>2
<1>3. QED
  BY <1>1, <1>2 DEF HistoryTypeOK, Dictate, secrets, choice, Counts

LEMMA CliAppendTyped == ASSUME HistoryTypeOK, CliAppend PROVE HistoryTypeOK'
<1>1. used' \in Counts /\ used'.entries \in Nat
  BY SpendTyped DEF CliAppend, HistoryTypeOK, Counts
<1>2. journal' \in Seq(Line) /\ terminated' \in BOOLEAN /\ (journal' = <<>> => terminated')
  <2>1. CASE UNCHANGED <<journal, terminated>>
    BY <2>1 DEF HistoryTypeOK
  <2>2. CASE ~UNCHANGED <<journal, terminated>>
    <3> DEFINE line == Written("cli", cli.key)
    <3>1. line \in Line
      BY <1>1 DEF HistoryTypeOK, Line, Written
    <3>2. journal' = AppendLine(line) /\ terminated' = TRUE
      BY <2>2 DEF CliAppend
    <3> HIDE DEF line
    <3>3. QED
      BY <3>1, <3>2, AppendTyped
  <2>3. QED
    BY <2>1, <2>2
<1>3. QED
  BY <1>1, <1>2 DEF HistoryTypeOK, CliAppend, app, secrets, choice, Counts

LEMMA TypeStep == HistoryTypeOK /\ [HistoryNext]_historyVars => HistoryTypeOK'
<1> SUFFICES ASSUME HistoryTypeOK, [HistoryNext]_historyVars PROVE HistoryTypeOK'
  OBVIOUS
<1> USE DEF HistoryTypeOK, files, secrets, app, choice, Counts
<1>1. CASE FinishLine
  BY <1>1 DEF FinishLine
<1>2. CASE Switch
  <2>1. used' \in Counts
    BY <1>2, SpendTyped DEF Switch
  <2>2. minted' \in Nat /\ minted <= minted' /\ key' \in 0..minted'
        /\ pc' \in {"idle", "minting", "rewrite"}
    BY <1>2, LoadKeyTyped DEF Switch
  <2>3. held \in 0..minted' /\ keystore \in 0..minted' /\ cli.key \in 0..minted'
    BY <2>2
  <2>4. UNCHANGED <<journal, terminated, temp, disk, keystore, setting, held, cli, choice, seen>>
    BY <1>2 DEF Switch
  <2>5. cli' \in [pc : {"done", "transcribing", "minting", "append"}, setting : BOOLEAN,
                  key : 0..minted']
    BY <2>2, <2>4
  <2>6. QED
    BY <2>5, <2>4, <2>3, <2>2, <2>1
<1>3. CASE MintForSwitch
  BY <1>3 DEF MintForSwitch
<1>4. CASE ReadForRewrite
  <2>1. Convert(journal, key, ~setting) \in Seq(Line)
    <3>1. key \in Nat
      OBVIOUS
    <3>2. (~setting) \in BOOLEAN
      OBVIOUS
    <3>3. QED
      BY <3>1, <3>2, ConvertTyped
  <2>2. QED
    BY <1>4, <2>1 DEF ReadForRewrite
<1>5. CASE Rename
  <2>1. journal' \in Seq(Line) /\ terminated' \in BOOLEAN /\ (journal' = <<>> => terminated')
    BY <1>5 DEF Rename
  <2>2. temp' \in Seq(Line)
    BY <1>5, EmptySeq DEF Rename
  <2>3. setting' \in BOOLEAN /\ chosen' \in BOOLEAN /\ drifted' \in BOOLEAN /\ strayed' \in BOOLEAN
        /\ held' \in 0..minted /\ pc' \in {"idle", "truncate"}
    <3>1. CASE setting' = ~setting /\ chosen' = setting' /\ drifted' = FALSE /\ UNCHANGED strayed
               /\ held' = (IF setting' THEN key ELSE Plain) /\ pc' = "truncate"
      <4>1. setting' \in BOOLEAN /\ chosen' \in BOOLEAN /\ drifted' \in BOOLEAN /\ strayed' \in BOOLEAN
        BY <3>1
      <4>2. held' \in 0..minted
        BY <3>1 DEF Plain
      <4>3. QED
        BY <3>1, <4>1, <4>2
    <3>2. CASE UNCHANGED <<setting, choice, held>> /\ pc' = "idle"
      BY <3>2
    <3>3. QED
      BY <1>5, <3>1, <3>2 DEF Rename
  <2>4. QED
    BY <1>5, <2>1, <2>2, <2>3 DEF Rename
<1>6. CASE SaveSetting
  <2>1. used' \in Counts
    BY <1>6, SpendTyped DEF SaveSetting
  <2>2. QED
    BY <1>6, <2>1 DEF SaveSetting
<1>7. CASE TruncateConfig
  BY <1>7 DEF TruncateConfig
<1>8. CASE WriteConfig
  BY <1>8 DEF WriteConfig
<1>9. CASE Boot
  <2>1. setting' \in BOOLEAN /\ drifted' \in BOOLEAN /\ strayed' \in BOOLEAN
    BY <1>9 DEF Boot, LoadedSetting
  <2>2. minted' \in Nat /\ minted <= minted' /\ key' \in 0..minted' /\ pc' \in {"idle", "bootMinting"}
    BY <1>9, LoadKeyTyped DEF Boot, Plain
  <2>3. held' \in 0..minted'
    BY <1>9, <2>2 DEF Boot, Plain
  <2>4. QED
    BY <1>9, <2>1, <2>2, <2>3 DEF Boot
<1>10. CASE MintAtBoot
  BY <1>10 DEF MintAtBoot
<1>11. CASE Crash
  <2>1. used' \in Counts
    BY <1>11, SpendTyped DEF Crash
  <2>2. QED
    <3>1. held' \in 0..minted /\ key' \in 0..minted /\ pc' = "off"
      BY <1>11 DEF Crash, Plain
    <3>2. setting' \in BOOLEAN
      BY <1>11 DEF Crash
    <3>3. UNCHANGED <<journal, terminated, temp, disk, keystore, minted, cli, choice, seen>>
      BY <1>11 DEF Crash
    <3>4. QED
      BY <2>1, <3>1, <3>2, <3>3
<1>12. CASE CliStart
  <2>1. used' \in Counts
    BY <1>12, SpendTyped DEF CliStart
  <2>2. QED
    BY <1>12, <2>1 DEF CliStart, LoadedSetting, Plain
<1>13. CASE CliKey
  <2>1. minted' \in Nat /\ minted <= minted'
    BY <1>13 DEF CliKey
  <2>2. cli.pc \in {"done", "transcribing", "minting", "append"} /\ cli.setting \in BOOLEAN
        /\ cli.key \in 0..minted'
    BY <2>1
  <2>3. cli' \in [pc : {"done", "transcribing", "minting", "append"}, setting : BOOLEAN,
                  key : 0..minted']
    <3> DEFINE Tool == [pc : {"done", "transcribing", "minting", "append"}, setting : BOOLEAN,
                        key : 0..minted']
    <3>0. cli \in Tool /\ keystore \in 0..minted' /\ minted' \in 0..minted'
      BY <2>1
    <3>1. CASE cli' = [cli EXCEPT !.pc = "append"]
      BY <2>2, <3>1
    <3>2. CASE cli' = [cli EXCEPT !.pc = "append", !.key = keystore]
      <4>1. \A tool \in Tool, k \in 0..minted' : [tool EXCEPT !.pc = "append", !.key = k] \in Tool
        OBVIOUS
      <4> HIDE DEF Tool
      <4>2. QED
        BY <3>0, <3>2, <4>1 DEF Tool
    <3>3. CASE minted' = minted + 1 /\ cli' = [cli EXCEPT !.pc = "minting", !.key = minted']
      <4>1. \A tool \in Tool, k \in 0..minted' : [tool EXCEPT !.pc = "minting", !.key = k] \in Tool
        OBVIOUS
      <4> HIDE DEF Tool
      <4>2. QED
        BY <3>0, <3>3, <4>1 DEF Tool
    <3>4. CASE cli' = [cli EXCEPT !.pc = "done"]
      BY <2>2, <3>4
    <3>5. QED
      BY <1>13, <3>1, <3>2, <3>3, <3>4 DEF CliKey
  <2>4. QED
    BY <1>13, <2>1, <2>3 DEF CliKey
<1>14. CASE CliMint
  <2>1. cli' \in [pc : {"done", "transcribing", "minting", "append"}, setting : BOOLEAN,
                  key : 0..minted]
    BY <1>14 DEF CliMint
  <2>2. keystore' \in 0..minted
    BY <1>14 DEF CliMint
  <2>3. QED
    BY <1>14, <2>1, <2>2 DEF CliMint
<1>15. CASE Clear
  <2>1. used' \in Counts
    BY <1>15, SpendTyped DEF Clear
  <2>2. QED
    BY <1>15, <2>1, EmptySeq DEF Clear
<1>16. CASE UNCHANGED historyVars
  BY <1>16 DEF historyVars
<1>17. QED
  BY <1>1, <1>2, <1>3, <1>4, <1>5, <1>6, <1>7, <1>8, <1>9, <1>10, <1>11, <1>12, <1>13, <1>14,
     <1>15, <1>16, DictateTyped, CliAppendTyped DEF HistoryNext, AppStep

(***************************************************************************)
(* Every variable keeps its type, whatever fails and whenever the app or   *)
(* the command line tool is stopped.                                       *)
(***************************************************************************)
THEOREM TypeCorrect == HistorySpec => []HistoryTypeOK
BY TypeInit, TypeStep, PTL DEF HistorySpec

-----------------------------------------------------------------------------
(* The invariant *)

LEMMA InvInit == HistoryInit => IInv
<1> SUFFICES ASSUME HistoryInit PROVE IInv
  OBVIOUS
<1>1. Own(journal) = {} /\ ToSet(journal) = {} /\ Exposed(journal) = {}
  BY EmptySeq DEF HistoryInit, Own, ToSet, Exposed
<1>2. Encrypted /\ Switching /\ Straight
  BY <1>1 DEF HistoryInit, Encrypted, Switching, Straight, Clean
<1>3. InForce
  BY DEF HistoryInit, InForce
<1>4. QED
  BY <1>2, <1>3, TypeInit DEF IInv

(* An append keeps what the user chose, if what the app appends does.      *)
(* Behind an encrypted line, its words stay in the clear.                  *)
LEMMA AppendKeeps ==
  ASSUME IInv, NEW line \in Line, journal' = AppendLine(line), UNCHANGED <<choice, temp>>,
         line.key # NoKey, pc = "rename" => pc' = "rename", pc' = "rename" => pc = "rename",
         chosen /\ ~drifted => "app" \notin InClear(line),
         "app" \in line.texts /\ ~strayed /\ ~chosen => line.key = Plain,
         "app" \in line.texts \/ terminated'
  PROVE  Encrypted' /\ Straight'
<1> DEFINE last == journal[Len(journal)]
<1>1. /\ journal' # <<>> /\ journal' \in Seq(Line)
      /\ terminated => /\ journal'[Len(journal')] = line
                       /\ \A l \in ToSet(journal') : l = line \/ l \in ToSet(journal)
      /\ ~terminated => /\ last \in ToSet(journal)
                        /\ journal'[Len(journal')] = RunTogether(last, line)
                        /\ \A l \in ToSet(journal') :
                             l = RunTogether(last, line) \/ l \in ToSet(journal)
  BY AppendLineFacts DEF IInv, HistoryTypeOK
<1> DEFINE both == RunTogether(last, line)
<1>2. ~terminated =>
        /\ last \in Line
        /\ both.key = IF last.key = Plain THEN Plain ELSE NoKey
        /\ both.texts = InClear(last) \cup InClear(line)
  <2>1. ~terminated => last \in Line
    BY <1>1 DEF IInv, HistoryTypeOK, ToSet
  <2>2. QED
    BY <2>1, TogetherFacts
<1> HIDE DEF both, last
<1>3. Encrypted'
  <2>1. ASSUME chosen, ~drifted, NEW new \in Exposed(journal') PROVE new.key = NoKey
    <3>1. new \in ToSet(journal') /\ "app" \in InClear(new)
      BY <2>1 DEF Exposed
    <3>2. CASE new \in ToSet(journal)
      BY <2>1, <3>1, <3>2 DEF IInv, Encrypted, Exposed
    <3>3. CASE ~terminated /\ new = both
      <4>1. "app" \in InClear(last)
        BY <1>2, <2>1, <3>1, <3>3 DEF InClear
      <4>2. last.key = NoKey
        BY <1>1, <2>1, <3>3, <4>1 DEF IInv, Encrypted, Exposed, last
      <4>3. QED
        BY <1>2, <3>3, <4>2 DEF Plain, NoKey
    <3>4. QED
      BY <1>1, <2>1, <3>1, <3>2, <3>3 DEF both, last
  <2>2. QED
    BY <2>1 DEF Encrypted, choice
<1>4. Straight'
  <2>1. drifted => strayed
    BY DEF IInv, Straight
  <2>2. ASSUME ~strayed PROVE Clean(journal')
    <3>1. Clean(journal) /\ (~terminated /\ ~chosen => last.key = Plain) /\ ~drifted
      BY <2>1, <2>2 DEF IInv, Straight, last
    <3>2. ASSUME ~terminated, both.key = NoKey PROVE "app" \notin both.texts
      <4>1. last.key # Plain
        BY <1>2, <3>2 DEF Plain, NoKey
      <4>2. chosen
        BY <3>1, <3>2, <4>1
      <4>3. "app" \notin InClear(line)
        BY <3>1, <4>2
      <4>4. "app" \notin InClear(last)
        BY <1>1, <3>1, <3>2, <4>1 DEF Clean, InClear
      <4>5. QED
        BY <1>2, <3>2, <4>3, <4>4
    <3>3. QED
      BY <1>1, <3>1, <3>2 DEF Clean, both, last
  <2>3. ASSUME ~strayed, ~terminated', ~chosen PROVE journal'[Len(journal')].key = Plain
    <3>1. line.key = Plain
      BY <2>3
    <3>2. ~terminated => last.key = Plain
      BY <2>3 DEF IInv, Straight, last
    <3>3. QED
      BY <1>1, <1>2, <3>1, <3>2 DEF both, last
  <2>4. pc' = "rename" /\ ~strayed => Clean(temp')
    BY DEF IInv, Straight
  <2>5. QED
    BY <2>1, <2>2, <2>3, <2>4 DEF Straight, choice
<1>5. QED
  BY <1>3, <1>4

(* A step that leaves the journal and the choice alone. *)
LEMMA StillKeeps ==
  ASSUME IInv, UNCHANGED <<journal, terminated, choice, temp>>, pc' = "rename" => pc = "rename"
  PROVE  Encrypted' /\ Straight'
<1>1. Encrypted'
  BY DEF IInv, Encrypted, Exposed, choice
<1>2. Straight'
  BY DEF IInv, Straight, Clean, choice
<1>3. QED
  BY <1>1, <1>2

LEMMA DictateKeeps ==
  ASSUME IInv, Dictate PROVE Encrypted' /\ Straight' /\ InForce' /\ Switching'
<1>1. pc = "idle" /\ pc' \in {"idle", "newline"} /\ UNCHANGED <<temp, setting, held, key, choice, seen>>
  BY DEF Dictate
<1>2. Encrypted' /\ Straight'
  <2>1. CASE UNCHANGED <<journal, terminated>>
    BY <1>1, <2>1, StillKeeps
  <2>2. CASE ~UNCHANGED <<journal, terminated>>
    <3> DEFINE with == IF setting THEN held ELSE Plain
    <3> DEFINE line == Written("app", with)
    <3>1. Writes /\ journal' = AppendLine(line)
      BY <2>2 DEF Dictate
    <3>2. used' \in Counts /\ used'.entries \in Nat
      BY SpendTyped DEF Dictate, IInv, HistoryTypeOK, Counts
    <3>3. line \in Line
      BY <3>2 DEF IInv, HistoryTypeOK, Line, Plain, Written
    <3>4. line.key = with /\ line.texts = {"app"} /\ with \in Nat
      BY DEF Written, IInv, HistoryTypeOK, Plain
    <3>5. chosen /\ ~drifted => with # Plain
      BY <1>1, <3>1 DEF IInv, InForce, Writes
    <3>6. ~strayed /\ ~chosen => with = Plain
      BY <1>1 DEF IInv, InForce, Straight
    <3> HIDE DEF with, line
    <3>7. line.key # NoKey /\ (chosen /\ ~drifted => "app" \notin InClear(line))
      BY <3>4, <3>5 DEF InClear, NoKey
    <3>8. QED
      BY <1>1, <3>1, <3>3, <3>4, <3>6, <3>7, AppendKeeps
  <2>3. QED
    BY <2>1, <2>2
<1>3. InForce'
  BY <1>1 DEF IInv, InForce, choice
<1>4. Switching'
  BY <1>1 DEF Switching
<1>5. QED
  BY <1>2, <1>3, <1>4

LEMMA CliAppendKeeps ==
  ASSUME IInv, CliAppend PROVE Encrypted' /\ Straight' /\ InForce' /\ Switching'
<1>1. UNCHANGED <<temp, pc, setting, held, key, choice, seen>>
  BY DEF CliAppend, app
<1>2. CASE UNCHANGED <<journal, terminated>>
  <2>1. InForce' /\ Switching'
    BY <1>1, <1>2 DEF IInv, InForce, Switching, Own, choice
  <2>2. QED
    BY <1>1, <1>2, <2>1, StillKeeps
<1>3. CASE ~UNCHANGED <<journal, terminated>>
  <2> DEFINE line == Written("cli", cli.key)
  <2>1. journal' = AppendLine(line) /\ terminated'
    BY <1>3 DEF CliAppend
  <2>2. used' \in Counts /\ used'.entries \in Nat
    BY SpendTyped DEF CliAppend, IInv, HistoryTypeOK, Counts
  <2>3. line \in Line /\ line.by # "app" /\ "app" \notin line.texts /\ line.key # NoKey
        /\ "app" \notin InClear(line)
    BY <2>2 DEF IInv, HistoryTypeOK, Line, Written, NoKey, InClear
  <2> HIDE DEF line
  <2>4. Encrypted' /\ Straight'
    BY <1>1, <2>1, <2>3, AppendKeeps
  <2>5. Own(journal) = {} => Own(journal') = {}
    <3>1. \A new \in Own(journal') : new = line \/ \E old \in Own(journal) : From(new, old)
      BY <2>1, <2>3, AppendOwn DEF IInv, HistoryTypeOK
    <3>2. \A new \in Own(journal') : new.by = "app"
      BY DEF Own
    <3>3. QED
      BY <2>3, <3>1, <3>2
  <2>6. terminated /\ (\A l \in ToSet(journal) : "app" \notin l.texts) =>
          \A l \in ToSet(journal') : "app" \notin l.texts
    BY <2>1, <2>3, AppendLineFacts DEF IInv, HistoryTypeOK
  <2>7. InForce' /\ Switching'
    BY <1>1, <2>1, <2>5, <2>6 DEF IInv, InForce, Switching, choice
  <2>8. QED
    BY <2>4, <2>7
<1>4. QED
  BY <1>2, <1>3

LEMMA ReadKeeps ==
  ASSUME IInv, ReadForRewrite PROVE Encrypted' /\ Straight' /\ InForce' /\ Switching'
<1>1. pc = "rewrite" /\ key # Plain /\ UNCHANGED <<journal, terminated, setting, key, choice>>
  BY DEF ReadForRewrite, IInv, Switching
<1>2. Encrypted' /\ InForce'
  BY <1>1 DEF ReadForRewrite, IInv, Encrypted, InForce, Exposed, choice
<1>3. CASE pc' = "idle"
  <2>1. UNCHANGED temp
    BY <1>3 DEF ReadForRewrite
  <2>2. Straight'
    BY <1>1, <1>3, <2>1, StillKeeps
  <2>3. QED
    BY <1>2, <1>3, <2>2 DEF Switching
<1>4. CASE pc' # "idle"
  <2>1. temp' = Convert(journal, key, ~setting) /\ seen' = journal
    BY <1>4 DEF ReadForRewrite
  <2>2. journal = <<>> => terminated /\ Own(journal') = {} /\ ToSet(journal') = {}
    BY <1>1, EmptySeq DEF Own, ToSet, IInv, HistoryTypeOK
  <2>3. Switching'
    BY <1>1, <2>1, <2>2 DEF Switching
  <2>4. journal \in Seq(Line) /\ key \in Nat /\ (~setting) \in BOOLEAN
    BY DEF IInv, HistoryTypeOK
  <2>5. Clean(journal) => Clean(temp')
    BY <2>1, <2>4, ConvertClean
  <2>6. Straight'
    BY <1>1, <2>5 DEF IInv, Straight, Clean, choice
  <2>7. QED
    BY <1>2, <2>3, <2>6
<1>5. QED
  BY <1>3, <1>4

LEMMA RenameKeeps ==
  ASSUME IInv, Rename PROVE Encrypted' /\ Straight' /\ InForce' /\ Switching'
<1>1. pc = "rename" /\ key # Plain /\ temp = Convert(seen, key, ~setting)
      /\ (seen = <<>> => terminated /\ \A line \in ToSet(journal) : "app" \notin line.texts)
  BY DEF Rename, IInv, Switching
<1>2. pc' \in {"idle", "truncate"}
  BY DEF Rename
<1>3. CASE UNCHANGED <<journal, terminated, setting, choice>>
  <2>1. InForce' /\ Switching' /\ Encrypted'
    BY <1>1, <1>2, <1>3 DEF IInv, Encrypted, InForce, Switching, Exposed, choice
  <2>2. Straight'
    BY <1>2, <1>3 DEF IInv, Straight, Clean, choice
  <2>3. QED
    BY <2>1, <2>2
<1>4. CASE /\ IF seen = <<>> THEN UNCHANGED <<journal, terminated>>
                           ELSE journal' = temp /\ terminated' = TRUE
           /\ setting' = ~setting /\ chosen' = setting' /\ drifted' = FALSE /\ UNCHANGED strayed
  <2>1. Encrypted'
    <3>1. CASE seen = <<>>
      <4>1. Exposed(journal') = {}
        BY <1>1, <1>4, <3>1 DEF Exposed, InClear
      <4>2. QED
        BY <4>1 DEF Encrypted
    <3>2. CASE seen # <<>> /\ ~setting
      <4>1. temp = Convert(seen, key, TRUE)
        BY <1>1, <3>2
      <4>2. seen \in Seq(Line) /\ key \in Nat
        BY DEF IInv, HistoryTypeOK
      <4>3. \A line \in Exposed(Convert(seen, key, TRUE)) : line.key = NoKey
        BY <1>1, <4>2, ConvertEncrypts
      <4>4. journal' = Convert(seen, key, TRUE)
        BY <1>4, <3>2, <4>1
      <4>5. QED
        BY <4>3, <4>4 DEF Encrypted
    <3>3. CASE setting
      BY <1>4, <3>3 DEF Encrypted
    <3>4. QED
      BY <3>1, <3>2, <3>3
  <2>2. terminated'
    BY <1>1, <1>4
  <2>3. ~strayed => Clean(journal')
    BY <1>1, <1>4 DEF IInv, Straight, Clean
  <2>4. Straight'
    BY <1>2, <1>4, <2>2, <2>3 DEF Straight
  <2>5. InForce'
    BY <1>2, <1>4 DEF InForce
  <2>6. Switching'
    BY <1>2 DEF Switching
  <2>7. QED
    BY <2>1, <2>4, <2>5, <2>6
<1>5. QED
  BY <1>3, <1>4 DEF Rename

LEMMA FinishLineKeeps ==
  ASSUME IInv, FinishLine PROVE Encrypted' /\ Straight' /\ InForce' /\ Switching'
<1>1. /\ pc = "newline" /\ pc' = "idle" /\ (terminated => terminated')
      /\ UNCHANGED <<journal, temp, setting, held, key, choice, seen>>
  BY DEF FinishLine, IInv, HistoryTypeOK
<1>2. Encrypted' /\ InForce' /\ Switching'
  BY <1>1 DEF IInv, Encrypted, InForce, Switching, Exposed, choice
<1>3. Straight'
  BY <1>1 DEF IInv, Straight, Clean, choice
<1>4. QED
  BY <1>2, <1>3

LEMMA BootKeeps ==
  ASSUME IInv, Boot PROVE Encrypted' /\ Straight' /\ InForce' /\ Switching'
<1>1. pc = "off" /\ pc' \in {"idle", "bootMinting"} /\ UNCHANGED <<journal, terminated, temp, chosen>>
  BY LoadKeyTyped DEF Boot, files, IInv, HistoryTypeOK
<1>2. (drifted => drifted') /\ (~drifted' => (setting' <=> chosen))
      /\ (strayed => strayed') /\ (drifted' => strayed')
  <2>1. setting' \in BOOLEAN /\ chosen \in BOOLEAN /\ drifted \in BOOLEAN /\ strayed \in BOOLEAN
    BY DEF Boot, LoadedSetting, IInv, HistoryTypeOK
  <2>2. QED
    BY <2>1 DEF Boot
<1>3. Encrypted' /\ InForce' /\ Switching'
  BY <1>1, <1>2 DEF IInv, Encrypted, InForce, Switching, Exposed
<1>4. Straight'
  BY <1>1, <1>2 DEF IInv, Straight, Clean
<1>5. QED
  BY <1>3, <1>4

LEMMA InvStep == IInv /\ [HistoryNext]_historyVars => IInv'
<1> SUFFICES ASSUME IInv, [HistoryNext]_historyVars PROVE Encrypted' /\ Straight' /\ InForce' /\ Switching'
  BY TypeStep DEF IInv
<1>1. CASE Switch
  <2>1. pc = "idle" /\ pc' \in {"idle", "minting", "rewrite"} /\ (pc' # "idle" => key' # Plain)
    BY <1>1, LoadKeyTyped DEF Switch, IInv, HistoryTypeOK
  <2>2. UNCHANGED <<journal, terminated, temp, setting, choice>>
    BY <1>1 DEF Switch, files
  <2>3. InForce' /\ Switching'
    BY <2>1, <2>2 DEF IInv, InForce, Switching, Own, choice
  <2>4. QED
    BY <2>1, <2>2, <2>3, StillKeeps
<1>2. CASE MintForSwitch
  BY <1>2, StillKeeps DEF MintForSwitch, files, IInv, InForce, Switching, choice
<1>3. CASE SaveSetting
  BY <1>3, StillKeeps DEF SaveSetting, files, IInv, InForce, Switching, choice
<1>4. CASE TruncateConfig
  BY <1>4, StillKeeps DEF TruncateConfig, files, IInv, InForce, Switching, choice
<1>5. CASE WriteConfig
  BY <1>5, StillKeeps DEF WriteConfig, files, IInv, InForce, Switching, choice
<1>6. CASE MintAtBoot
  BY <1>6, StillKeeps DEF MintAtBoot, files, IInv, InForce, Switching, choice
<1>7. CASE Crash
  BY <1>7, StillKeeps DEF Crash, files, IInv, InForce, Switching, choice
<1>8. CASE UNCHANGED <<files, app, choice, seen>>
  BY <1>8, StillKeeps DEF files, app, IInv, InForce, Switching, Own, choice
<1>9. CASE Clear
  <2>1. Own(journal') = {} /\ ToSet(journal') = {} /\ Exposed(journal') = {} /\ terminated'
    BY <1>9, EmptySeq DEF Clear, Own, ToSet, Exposed
  <2>2. UNCHANGED <<temp, pc, setting, held, key, choice, seen>>
    BY <1>9 DEF Clear, app
  <2>3. Encrypted' /\ InForce' /\ Switching'
    BY <2>1, <2>2 DEF IInv, Encrypted, InForce, Switching, choice
  <2>4. Straight'
    BY <2>1, <2>2 DEF IInv, Straight, Clean, choice
  <2>5. QED
    BY <2>3, <2>4
<1>10. CASE CliStart \/ CliKey \/ CliMint \/ UNCHANGED historyVars
  BY <1>8, <1>10 DEF CliStart, CliKey, CliMint, historyVars
<1>11. QED
  BY <1>1, <1>2, <1>3, <1>4, <1>5, <1>6, <1>7, <1>9, <1>10, FinishLineKeeps, BootKeeps,
     DictateKeeps, CliAppendKeeps, ReadKeeps, RenameKeeps DEF HistoryNext, AppStep

(***************************************************************************)
(* While encryption is on, and unless a crash has cost the app its         *)
(* setting, nothing dictated to it is in the journal in the clear; what    *)
(* ran into an encrypted line is, once some boot has lost the setting.     *)
(***************************************************************************)
THEOREM OwnEntriesEncrypted == HistorySpec => []EncryptedWhileOn
<1>1. IInv => EncryptedWhileOn
  <2> SUFFICES ASSUME IInv, setting, ~drifted, NEW line \in Exposed(journal)
               PROVE  line.key = NoKey /\ strayed
    BY DEF EncryptedWhileOn
  <2>1. line.key = NoKey
    BY DEF IInv, Encrypted, InForce
  <2>2. line \in ToSet(journal) /\ "app" \in line.texts
    BY <2>1 DEF Exposed, InClear
  <2>3. QED
    BY <2>1, <2>2 DEF IInv, Straight, Clean
<1>2. QED
  BY <1>1, InvInit, InvStep, PTL DEF HistorySpec

-----------------------------------------------------------------------------
(* Keys: the app and the command line tool may each generate the first one *)

(* Of the app's intact entries under the stored key, `with` reads each. *)
ReadBy(lines, with) ==
  \A line \in Own(lines) :
    line.entry # Garbled /\ line.key = keystore /\ keystore # Plain => line.key = with

(* Nothing the app has done involves the key. *)
Unused(fresh) ==
  /\ keystore # fresh /\ held # fresh
  /\ pc \in {"minting", "bootMinting", "rewrite", "rename"} => key # fresh
  /\ \A line \in Own(journal) : line.key # fresh
  /\ pc = "rename" => \A line \in Own(temp) : line.key # fresh

NoKeyYet ==
  keystore = Plain =>
    /\ held = Plain /\ pc \notin {"rewrite", "rename"}
    /\ \A line \in Own(journal) : line.key = Plain

FirstKey ==
  pc \in {"minting", "bootMinting"} =>
    /\ key # Plain /\ held = Plain
    /\ \A line \in Own(journal) : line.key = Plain

ToolsKey == cli.pc = "minting" => cli.key # Plain /\ cli.key # NoKey /\ Unused(cli.key)

KeyInUse ==
  /\ held # Plain => ReadBy(journal, held)
  /\ pc \in {"rewrite", "rename"} => ReadBy(journal, key)
  /\ pc = "rename" => ReadBy(temp, key)

(* What the user has switched off holds of the journal. *)
Decrypted ==
  ~chosen /\ ~drifted =>
    \A line \in Own(journal) : line.entry # Garbled /\ line.key = keystore => line.key = Plain

Keys == NoKeyYet /\ FirstKey /\ ToolsKey /\ KeyInUse /\ Decrypted

KInv == IInv /\ Keys

(* What the app's lines are after a conversion. *)
LEMMA ConvertOwn ==
  ASSUME NEW lines \in Seq(Line), NEW with \in Nat, NEW on \in BOOLEAN,
         NEW new \in Own(Convert(lines, with, on))
  PROVE  \/ new.key = IF on THEN with ELSE Plain
         \/ \E old \in Own(lines) :
              From(new, old) /\ (new.entry # Garbled => old.key # with /\ old.key # Plain)
<1> DEFINE all == Convert(lines, with, on)
<1> DEFINE target == IF on THEN with ELSE Plain
<1>1. /\ all \in Seq(Line) /\ Len(all) = Len(lines)
      /\ \A i \in 1..Len(lines) :
           all[i] = IF Decodes(lines[i], with) THEN [lines[i] EXCEPT !.key = target] ELSE lines[i]
  BY ConvertTyped
<1>2. new \in Own(all)
  OBVIOUS
<1> HIDE DEF all, target
<1>3. PICK i \in 1..Len(all) : all[i] = new
  BY <1>1, <1>2 DEF Own, ToSet
<1>4. lines[i] \in Line
  BY <1>1
<1>5. CASE Decodes(lines[i], with)
  <2>1. new = [lines[i] EXCEPT !.key = target]
    BY <1>1, <1>3, <1>5
  <2>2. new.key = target
    BY <1>4, <2>1 DEF Line
  <2>3. QED
    BY <2>2 DEF target
<1>6. CASE ~Decodes(lines[i], with)
  <2>1. new = lines[i]
    BY <1>1, <1>3, <1>6
  <2>2. lines[i] \in Own(lines)
    BY <1>1, <1>2, <2>1 DEF Own, ToSet
  <2>3. new.entry # Garbled => lines[i].key # with /\ lines[i].key # Plain
    BY <1>6, <2>1 DEF Decodes
  <2>4. QED
    BY <2>1, <2>2, <2>3 DEF From
<1>7. QED
  BY <1>5, <1>6

(* Appends of the command line tool, and steps that touch neither lines nor *)
(* keys, at most spoil one of the app's lines.                              *)
LEMMA LinesFrom ==
  ASSUME Keys, \A new \in Own(journal') : \E old \in Own(journal) : From(new, old),
         UNCHANGED <<keystore, held, key, temp, choice>>,
         \/ pc' = pc
         \/ pc' \notin {"minting", "bootMinting", "rewrite", "rename"},
         cli'.pc = "minting" => UNCHANGED cli
  PROVE  Keys'
<1>1. NoKeyYet'
  BY DEF Keys, NoKeyYet, From
<1>2. FirstKey'
  BY DEF Keys, FirstKey, From
<1>3. ToolsKey'
  BY DEF Keys, ToolsKey, Unused, From
<1>4. KeyInUse'
  BY DEF Keys, KeyInUse, ReadBy, From
<1>5. Decrypted'
  BY DEF Keys, Decrypted, From, choice
<1>6. QED
  BY <1>1, <1>2, <1>3, <1>4, <1>5 DEF Keys

LEMMA Unwritten ==
  ASSUME UNCHANGED journal
  PROVE  \A new \in Own(journal') : \E old \in Own(journal) : From(new, old)
BY DEF Own, From

LEMMA DictateKeys == ASSUME KInv, Dictate PROVE Keys'
<1>1. /\ pc = "idle" /\ pc' \in {"idle", "newline"}
      /\ UNCHANGED <<temp, keystore, setting, held, key, cli, choice>>
  BY DEF Dictate, secrets
<1>2. CASE UNCHANGED journal
  BY <1>1, <1>2, Unwritten, LinesFrom DEF KInv
<1>3. CASE ~UNCHANGED journal
  <2> DEFINE line == Written("app", IF setting THEN held ELSE Plain)
  <2>1. Writes /\ journal' = AppendLine(line)
    BY <1>3 DEF Dictate
  <2>2. used' \in Counts /\ used'.entries \in Nat
    BY SpendTyped DEF Dictate, KInv, IInv, HistoryTypeOK, Counts
  <2>3. line \in Line
    BY <2>2 DEF KInv, IInv, HistoryTypeOK, Line, Plain, Written
  <2>4. line.key \in {held, Plain} /\ (~setting => line.key = Plain)
    BY DEF Written
  <2> HIDE DEF line
  <2>5. \A new \in Own(journal') : new = line \/ \E old \in Own(journal) : From(new, old)
    BY <2>1, <2>3, AppendOwn DEF KInv, IInv, HistoryTypeOK
  <2>6. NoKeyYet'
    BY <1>1, <2>4, <2>5 DEF KInv, Keys, NoKeyYet, From
  <2>7. FirstKey'
    BY <1>1 DEF FirstKey
  <2>8. ToolsKey'
    BY <1>1, <2>4, <2>5 DEF KInv, Keys, ToolsKey, Unused, From
  <2>9. KeyInUse'
    BY <1>1, <2>4, <2>5 DEF KInv, Keys, KeyInUse, ReadBy, From
  <2>10. Decrypted'
    BY <1>1, <2>4, <2>5 DEF KInv, IInv, InForce, Keys, Decrypted, From, choice
  <2>11. QED
    BY <2>6, <2>7, <2>8, <2>9, <2>10 DEF Keys
<1>4. QED
  BY <1>2, <1>3

LEMMA CliAppendKeys == ASSUME KInv, CliAppend PROVE Keys'
<1>1. UNCHANGED <<temp, pc, keystore, held, key, choice>>
  BY DEF CliAppend, app, secrets
<1>2. cli'.pc # "minting"
  BY DEF CliAppend, KInv, IInv, HistoryTypeOK
<1>3. \A new \in Own(journal') : \E old \in Own(journal) : From(new, old)
  <2>1. CASE UNCHANGED journal
    BY <2>1, Unwritten
  <2>2. CASE ~UNCHANGED journal
    <3> DEFINE line == Written("cli", cli.key)
    <3>1. journal' = AppendLine(line)
      BY <2>2 DEF CliAppend
    <3>2. used' \in Counts /\ used'.entries \in Nat
      BY SpendTyped DEF CliAppend, KInv, IInv, HistoryTypeOK, Counts
    <3>3. line \in Line /\ line.by # "app"
      BY <3>2 DEF KInv, IInv, HistoryTypeOK, Line, Written
    <3> HIDE DEF line
    <3>4. \A new \in Own(journal') : new = line \/ \E old \in Own(journal) : From(new, old)
      BY <3>1, <3>3, AppendOwn DEF KInv, IInv, HistoryTypeOK
    <3>5. QED
      BY <3>3, <3>4 DEF Own
  <2>3. QED
    BY <2>1, <2>2
<1>4. QED
  BY <1>1, <1>2, <1>3, LinesFrom DEF KInv

LEMMA SwitchKeys == ASSUME KInv, Switch PROVE Keys'
<1>1. UNCHANGED <<journal, temp, keystore, held, cli, choice>>
  BY DEF Switch, files
<1>2. \/ held # Plain /\ key' = held /\ pc' = "rewrite"
      \/ keystore # Plain /\ key' = keystore /\ pc' = "rewrite"
      \/ keystore = Plain /\ held = Plain /\ key' = minted + 1 /\ pc' = "minting"
      \/ pc' = "idle"
  BY DEF Switch, LoadKey
<1>3. minted + 1 # Plain /\ (cli.pc = "minting" => cli.key # minted + 1)
  BY DEF KInv, IInv, HistoryTypeOK, Plain
<1>4. NoKeyYet' /\ FirstKey'
  BY <1>1, <1>2, <1>3 DEF KInv, Keys, NoKeyYet, FirstKey, Own
<1>5. ToolsKey'
  BY <1>1, <1>2, <1>3 DEF KInv, Keys, ToolsKey, Unused, Own
<1>6. KeyInUse'
  BY <1>1, <1>2 DEF KInv, Keys, KeyInUse, ReadBy, Own
<1>7. Decrypted'
  BY <1>1 DEF KInv, Keys, Decrypted, Own, choice
<1>8. QED
  BY <1>4, <1>5, <1>6, <1>7 DEF Keys

(* A key is stored that no line of the app's is under. *)
LEMMA StoringKeeps ==
  ASSUME KInv, UNCHANGED <<journal, temp, choice>>, keystore' # Plain,
         \A line \in Own(journal) : line.key # keystore',
         pc = "rename" => \A line \in Own(temp) : line.key # keystore',
         pc' \notin {"minting", "bootMinting"} \/ (UNCHANGED <<pc, held, key>>),
         pc' = "rename" => pc = "rename",
         cli'.pc = "minting" => ToolsKey'
  PROVE  Keys'
<1>1. NoKeyYet'
  BY DEF NoKeyYet
<1>2. FirstKey'
  BY DEF KInv, Keys, FirstKey, Own
<1>3. KeyInUse'
  BY DEF KeyInUse, ReadBy, Own
<1>4. Decrypted'
  BY DEF Decrypted, Own, choice
<1>5. ToolsKey'
  BY DEF ToolsKey
<1>6. QED
  BY <1>1, <1>2, <1>3, <1>4, <1>5 DEF Keys

LEMMA MintKeys == ASSUME KInv, MintForSwitch \/ MintAtBoot PROVE Keys'
<1>1. /\ pc \in {"minting", "bootMinting"} /\ pc' \in {"idle", "rewrite"}
      /\ UNCHANGED <<journal, temp, choice, key, cli>>
  BY DEF MintForSwitch, MintAtBoot, files
<1>2. /\ key # Plain /\ held = Plain /\ held' \in {held, key}
      /\ \A line \in Own(journal) : line.key = Plain
  BY <1>1 DEF KInv, Keys, FirstKey, MintForSwitch, MintAtBoot
<1>3. CASE keystore' = key
  <2>1. ToolsKey'
    BY <1>1, <1>2, <1>3 DEF KInv, Keys, ToolsKey, Unused, Own
  <2>2. QED
    BY <1>1, <1>2, <1>3, <2>1, StoringKeeps
<1>4. CASE UNCHANGED <<keystore, held>> /\ pc' = "idle"
  BY <1>1, <1>4, Unwritten, LinesFrom DEF KInv
<1>5. QED
  BY <1>3, <1>4 DEF MintForSwitch, MintAtBoot

LEMMA CliMintKeys == ASSUME KInv, CliMint PROVE Keys'
<1>1. cli.pc = "minting" /\ cli'.pc # "minting" /\ UNCHANGED <<journal, temp, choice, pc, held, key>>
  BY DEF CliMint, files, app, KInv, IInv, HistoryTypeOK
<1>2. cli.key # Plain /\ Unused(cli.key)
  BY <1>1 DEF KInv, Keys, ToolsKey
<1>3. CASE keystore' = cli.key
  BY <1>1, <1>2, <1>3, StoringKeeps DEF Unused
<1>4. CASE UNCHANGED keystore
  BY <1>1, <1>4, Unwritten, LinesFrom DEF KInv
<1>5. QED
  BY <1>3, <1>4 DEF CliMint

LEMMA CliKeyKeys == ASSUME KInv, CliKey PROVE Keys'
<1>1. UNCHANGED <<journal, temp, choice, pc, held, key, keystore>>
  BY DEF CliKey, files, app
<1>2. CASE cli'.pc # "minting"
  BY <1>1, <1>2, Unwritten, LinesFrom DEF KInv
<1>3. CASE cli'.pc = "minting"
  <2>1. keystore = Plain /\ cli'.key = minted + 1
    BY <1>3 DEF CliKey, KInv, IInv, HistoryTypeOK
  <2>2. minted + 1 # Plain /\ minted + 1 # NoKey /\ key # minted + 1
    BY DEF KInv, IInv, HistoryTypeOK, Plain, NoKey
  <2>3. ToolsKey'
    BY <1>1, <2>1, <2>2 DEF KInv, Keys, NoKeyYet, ToolsKey, Unused, Own
  <2>4. NoKeyYet' /\ FirstKey' /\ KeyInUse' /\ Decrypted'
    BY <1>1 DEF KInv, Keys, NoKeyYet, FirstKey, KeyInUse, ReadBy, Decrypted, Own, choice
  <2>5. QED
    BY <2>3, <2>4 DEF Keys
<1>4. QED
  BY <1>2, <1>3

LEMMA ReadKeys == ASSUME KInv, ReadForRewrite PROVE Keys'
<1>1. pc = "rewrite" /\ UNCHANGED <<journal, keystore, held, key, cli, choice>>
  BY DEF ReadForRewrite, secrets
<1>2. CASE pc' = "idle"
  <2>1. UNCHANGED temp
    BY <1>2 DEF ReadForRewrite
  <2>2. QED
    BY <1>1, <1>2, <2>1, Unwritten, LinesFrom DEF KInv
<1>3. CASE pc' = "rename" /\ temp' = Convert(journal, key, ~setting)
  <2>1. (~setting) \in BOOLEAN
    BY DEF KInv, IInv, HistoryTypeOK
  <2>2. journal \in Seq(Line) /\ key \in Nat
    BY DEF KInv, IInv, HistoryTypeOK
  <2>3. ASSUME NEW new \in Own(temp')
        PROVE  new.key \in {key, Plain} \/ \E old \in Own(journal) : From(new, old)
    BY <1>3, <2>1, <2>2, <2>3, ConvertOwn
  <2>4. NoKeyYet' /\ FirstKey'
    BY <1>1, <1>3 DEF KInv, Keys, NoKeyYet, FirstKey, Own
  <2>5. ToolsKey'
    BY <1>1, <1>3, <2>3 DEF KInv, Keys, ToolsKey, Unused, From
  <2>6. KeyInUse'
    BY <1>1, <1>3, <2>3 DEF KInv, Keys, KeyInUse, ReadBy, From
  <2>7. Decrypted'
    BY <1>1 DEF KInv, Keys, Decrypted, Own, choice
  <2>8. QED
    BY <2>4, <2>5, <2>6, <2>7 DEF Keys
<1>4. QED
  BY <1>2, <1>3 DEF ReadForRewrite

LEMMA RenameKeys == ASSUME KInv, Rename PROVE Keys'
<1>1. /\ pc = "rename" /\ pc' \in {"idle", "truncate"} /\ UNCHANGED <<keystore, key, cli>>
      /\ keystore # Plain
  BY DEF Rename, secrets, KInv, Keys, NoKeyYet
<1>2. CASE pc' = "idle"
  <2>1. UNCHANGED <<journal, choice, held>>
    BY <1>2 DEF Rename
  <2>2. Keys'
    BY <1>1, <1>2, <2>1
       DEF KInv, Keys, NoKeyYet, FirstKey, ToolsKey, Unused, KeyInUse, ReadBy, Decrypted, Own, choice
  <2>3. QED
    BY <2>2
<1>3. CASE pc' = "truncate"
  <2>1. /\ held' \in {key, Plain} /\ setting' = ~setting /\ chosen' = setting'
        /\ IF seen = <<>> THEN UNCHANGED journal ELSE journal' = temp
    BY <1>3 DEF Rename
  <2>2. seen = <<>> => Own(journal') = {}
    BY <1>1, <2>1 DEF KInv, IInv, Switching, Own
  <2>3. seen # <<>> => Own(journal') = Own(temp)
    BY <2>1 DEF Own
  <2>4. NoKeyYet' /\ FirstKey'
    BY <1>1, <1>3 DEF NoKeyYet, FirstKey
  <2>5. ToolsKey'
    BY <1>1, <1>3, <2>1, <2>2, <2>3 DEF KInv, Keys, ToolsKey, Unused
  <2>6. KeyInUse'
    BY <1>1, <1>3, <2>1, <2>2, <2>3 DEF KInv, Keys, KeyInUse, ReadBy
  <2>7. Decrypted'
    <3> SUFFICES ASSUME ~chosen', seen # <<>>, NEW new \in Own(temp),
                        new.entry # Garbled, new.key = keystore
                 PROVE  FALSE
      BY <1>1, <2>2, <2>3 DEF Decrypted
    <3>1. setting
      BY <2>1
    <3>2. temp = Convert(seen, key, FALSE)
      BY <1>1, <3>1 DEF KInv, IInv, Switching
    <3>3. seen \in Seq(Line) /\ key \in Nat
      BY DEF KInv, IInv, HistoryTypeOK
    <3>4. new.key = Plain \/ \E old \in Own(seen) : From(new, old) /\ old.key # key
      BY <3>2, <3>3, ConvertOwn
    <3>5. new.key # key
      BY <1>1, <3>4 DEF From
    <3>6. new.key = key
      BY <1>1 DEF KInv, Keys, KeyInUse, ReadBy
    <3>7. QED
      BY <3>5, <3>6
  <2>8. QED
    BY <2>4, <2>5, <2>6, <2>7 DEF Keys
<1>4. QED
  BY <1>1, <1>2, <1>3

LEMMA BootKeys == ASSUME KInv, Boot PROVE Keys'
<1>1. pc = "off" /\ UNCHANGED <<journal, temp, keystore, cli, chosen>> /\ (drifted => drifted')
  BY DEF Boot, files
<1>2. \/ keystore # Plain /\ key' = keystore /\ held' = keystore /\ pc' = "idle"
      \/ keystore = Plain /\ key' = minted + 1 /\ held' = Plain /\ pc' = "bootMinting"
      \/ held' = Plain /\ pc' = "idle"
  BY DEF Boot, LoadKey
<1>3. minted + 1 # Plain /\ (cli.pc = "minting" => cli.key # minted + 1)
  BY DEF KInv, IInv, HistoryTypeOK, Plain
<1>4. NoKeyYet' /\ FirstKey'
  BY <1>1, <1>2, <1>3 DEF KInv, Keys, NoKeyYet, FirstKey, Own
<1>5. ToolsKey'
  BY <1>1, <1>2, <1>3 DEF KInv, Keys, ToolsKey, Unused, Own
<1>6. KeyInUse'
  BY <1>1, <1>2 DEF KeyInUse, ReadBy, Own
<1>7. Decrypted'
  BY <1>1 DEF KInv, Keys, Decrypted, Own
<1>8. QED
  BY <1>4, <1>5, <1>6, <1>7 DEF Keys

LEMMA CrashKeys == ASSUME KInv, Crash PROVE Keys'
<1>1. pc' = "off" /\ held' = Plain /\ UNCHANGED <<journal, temp, keystore, cli, choice>>
  BY DEF Crash, files, secrets
<1>2. NoKeyYet' /\ FirstKey'
  BY <1>1 DEF KInv, Keys, NoKeyYet, FirstKey, Own
<1>3. ToolsKey'
  BY <1>1 DEF KInv, Keys, ToolsKey, Unused, Own
<1>4. KeyInUse' /\ Decrypted'
  BY <1>1 DEF KInv, Keys, KeyInUse, Decrypted, Own, choice
<1>5. QED
  BY <1>2, <1>3, <1>4 DEF Keys

LEMMA KeysStep == KInv /\ [HistoryNext]_historyVars => KInv'
<1> SUFFICES ASSUME KInv, [HistoryNext]_historyVars PROVE Keys'
  BY InvStep DEF KInv
<1> USE DEF KInv
<1>1. CASE FinishLine
  BY <1>1, Unwritten, LinesFrom DEF FinishLine, secrets
<1>2. CASE SaveSetting
  BY <1>2, Unwritten, LinesFrom DEF SaveSetting, files, secrets
<1>3. CASE TruncateConfig
  BY <1>3, Unwritten, LinesFrom DEF TruncateConfig, files, secrets
<1>4. CASE WriteConfig
  BY <1>4, Unwritten, LinesFrom DEF WriteConfig, files, secrets
<1>5. CASE CliStart
  BY <1>5, Unwritten, LinesFrom DEF CliStart, files, secrets, app
<1>6. CASE Clear
  <2>1. Own(journal') = {}
    BY <1>6, EmptySeq DEF Clear, Own, ToSet
  <2>2. UNCHANGED <<temp, keystore, held, key, pc, choice, cli>>
    BY <1>6 DEF Clear, secrets, app
  <2>3. QED
    BY <2>1, <2>2, LinesFrom
<1>7. CASE UNCHANGED historyVars
  BY <1>7, Unwritten, LinesFrom DEF historyVars, files, secrets, app
<1>8. QED
  BY <1>1, <1>2, <1>3, <1>4, <1>5, <1>6, <1>7, DictateKeys, SwitchKeys, MintKeys, ReadKeys,
     RenameKeys, BootKeys, CrashKeys, CliKeyKeys, CliMintKeys, CliAppendKeys DEF HistoryNext, AppStep

LEMMA KeysInit == HistoryInit => KInv
<1> SUFFICES ASSUME HistoryInit PROVE Keys
  BY InvInit DEF KInv
<1>1. Own(journal) = {} /\ keystore = Plain /\ held = Plain /\ pc = "off" /\ cli.pc = "done"
  BY EmptySeq DEF HistoryInit, Own, ToSet
<1>2. QED
  BY <1>1 DEF Keys, NoKeyYet, FirstKey, ToolsKey, KeyInUse, Decrypted

(***************************************************************************)
(* Unless a crash has cost it its setting, the app reads back every entry  *)
(* of its own that the stored key can, even if the command line tool has   *)
(* replaced that key by a first one of its own.                            *)
(***************************************************************************)
THEOREM NothingOfOwnHidden == HistorySpec => []NothingHidden
<1>1. KInv => NothingHidden
  <2> SUFFICES ASSUME KInv, pc = "idle", ~drifted, setting => held # Plain,
                      NEW line \in Own(journal), Reads(line, keystore)
               PROVE  Reads(line, held)
    BY DEF NothingHidden
  <2>1. line.entry # Garbled /\ line.key \in {Plain, keystore}
    BY DEF Reads, Decodes
  <2>2. CASE setting
    BY <2>1, <2>2 DEF KInv, Keys, KeyInUse, ReadBy, Reads, Decodes
  <2>3. CASE ~setting
    BY <2>1, <2>3 DEF KInv, IInv, InForce, Keys, Decrypted, Reads, Decodes
  <2>4. QED
    BY <2>2, <2>3
<1>2. QED
  BY <1>1, KeysInit, KeysStep, PTL DEF HistorySpec

-----------------------------------------------------------------------------
(* What each step keeps of the journal *)

Lossless == Keeps(ToSet(journal)) \/ RunsTogether \/ Rewrites \/ KeysCollide \/ Clear

\* Reading with no key reads what any key reads.
LEMMA PlainReads ==
  ASSUME NEW line, NEW with, Reads(line, Plain) PROVE Reads(line, with)
BY DEF Reads, Decodes

LEMMA SameJournalKeeps ==
  ASSUME UNCHANGED journal, keystore' = keystore \/ keystore = Plain
  PROVE  Keeps(ToSet(journal))
BY PlainReads DEF Keeps, Stored

LEMMA FrontFacts ==
  ASSUME NEW lines \in Seq(Line), lines # <<>>
  PROVE  /\ Front(lines) \in Seq(Line)
         /\ Len(Front(lines)) = Len(lines) - 1
         /\ \A i \in 1..Len(Front(lines)) : Front(lines)[i] = lines[i]
<1> DEFINE n == Len(lines) - 1
<1> DEFINE front == SubSeq(lines, 1, n)
<1>1. n \in Nat /\ \A i \in 1..n : lines[i] \in Line
  BY EmptySeq
<1>2. Front(lines) = front
  BY DEF Front
<1> HIDE DEF n
<1>3. front \in Seq(Line) /\ Len(front) = IF 1 <= n THEN n - 1 + 1 ELSE 0
  BY <1>1, SubSeqProperties
<1>4. \A i \in 1..(n - 1 + 1) : front[i] = lines[1 + i - 1]
  BY <1>1, SubSeqProperties
<1> HIDE DEF front
<1>5. Len(front) = n
  BY <1>1, <1>3
<1>6. \A i \in 1..n : front[i] = lines[i]
  BY <1>1, <1>4
<1>7. QED
  BY <1>2, <1>3, <1>5, <1>6 DEF n

LEMMA AppendKeepsEntries ==
  ASSUME HistoryTypeOK, NEW line \in Line, journal' = AppendLine(line), UNCHANGED keystore
  PROVE  Lossless
<1>1. CASE terminated
  <2> DEFINE longer == Append(journal, line)
  <2>1. /\ Len(longer) = Len(journal) + 1 /\ Len(journal) \in Nat /\ longer \in Seq(Line)
        /\ \A i \in 1..Len(journal) : longer[i] = journal[i]
    BY AppendProperties DEF HistoryTypeOK
  <2>2. journal' = longer
    BY <1>1 DEF AppendLine
  <2> HIDE DEF longer
  <2>3. ToSet(journal) \subseteq ToSet(longer)
    BY <2>1 DEF ToSet, HistoryTypeOK
  <2>4. Keeps(ToSet(journal))
    BY <2>2, <2>3 DEF Keeps, Stored
  <2>5. QED
    BY <2>4 DEF Lossless
<1>2. CASE ~terminated
  <2> DEFINE last == Len(journal)
  <2> DEFINE spoilt == RunTogether(journal[last], line)
  <2> DEFINE same == [journal EXCEPT ![last] = spoilt]
  <2>1. journal \in Seq(Line) /\ journal # <<>> /\ last \in 1..Len(journal) /\ Len(journal) \in Nat
    BY <1>2, EmptySeq DEF HistoryTypeOK
  <2>2. spoilt \in Line
    <3>1. journal[last] \in Line
      BY <2>1
    <3>2. QED
      BY <3>1, TogetherFacts
  <2>3. journal' = same
    BY <1>2, <2>1 DEF AppendLine
  <2> HIDE DEF spoilt
  <2>4. same \in Seq(Line) /\ Len(same) = Len(journal)
        /\ \A i \in 1..Len(journal) : i # last => same[i] = journal[i]
    BY <2>1, <2>2
  <2> HIDE DEF same
  <2>5. /\ Len(Front(journal)) = Len(journal) - 1
        /\ \A i \in 1..Len(Front(journal)) : Front(journal)[i] = journal[i]
        /\ Front(journal) \in Seq(Line)
    BY <2>1, FrontFacts
  <2>6. ToSet(Front(journal)) \subseteq ToSet(same)
    BY <2>1, <2>4, <2>5 DEF ToSet
  <2>7. Keeps(ToSet(Front(journal)))
    BY <2>3, <2>6 DEF Keeps, Stored
  <2>8. QED
    BY <1>2, <2>3, <2>4, <2>7 DEF RunsTogether, Lossless
<1>3. QED
  BY <1>1, <1>2 DEF HistoryTypeOK

LEMMA DictateLossless == ASSUME HistoryTypeOK, Dictate PROVE Lossless
<1>1. UNCHANGED keystore
  BY DEF Dictate, secrets
<1>2. CASE UNCHANGED journal
  BY <1>1, <1>2, SameJournalKeeps DEF Lossless
<1>3. CASE ~UNCHANGED journal
  <2> DEFINE line == Written("app", IF setting THEN held ELSE Plain)
  <2>1. used' \in Counts /\ used'.entries \in Nat
    BY SpendTyped DEF Dictate, HistoryTypeOK, Counts
  <2>2. line \in Line
    BY <2>1 DEF HistoryTypeOK, Line, Plain, Written
  <2>3. journal' = AppendLine(line)
    BY <1>3 DEF Dictate
  <2> HIDE DEF line
  <2>4. QED
    BY <1>1, <2>2, <2>3, AppendKeepsEntries
<1>4. QED
  BY <1>2, <1>3

LEMMA CliAppendLossless == ASSUME HistoryTypeOK, CliAppend PROVE Lossless
<1>1. UNCHANGED keystore
  BY DEF CliAppend, secrets
<1>2. CASE UNCHANGED journal
  BY <1>1, <1>2, SameJournalKeeps DEF Lossless
<1>3. CASE ~UNCHANGED journal
  <2> DEFINE line == Written("cli", cli.key)
  <2>1. used' \in Counts /\ used'.entries \in Nat
    BY SpendTyped DEF CliAppend, HistoryTypeOK, Counts
  <2>2. line \in Line
    BY <2>1 DEF HistoryTypeOK, Line, Written
  <2>3. journal' = AppendLine(line)
    BY <1>3 DEF CliAppend
  <2> HIDE DEF line
  <2>4. QED
    BY <1>1, <2>2, <2>3, AppendKeepsEntries
<1>4. QED
  BY <1>2, <1>3

(* What a conversion can decode it keeps under a key it was given, or plain; *)
(* the rest it keeps as it is.                                               *)
LEMMA RenameLossless == ASSUME IInv, Rename PROVE Lossless
<1>1. pc = "rename" /\ temp = Convert(seen, key, ~setting) /\ UNCHANGED keystore
      /\ seen \in Seq(Line) /\ key \in Nat
  BY DEF Rename, secrets, IInv, Switching, HistoryTypeOK
<1>2. CASE UNCHANGED journal
  BY <1>1, <1>2, SameJournalKeeps DEF Lossless
<1>3. CASE ~UNCHANGED journal
  <2>1. journal' = temp
    BY <1>3 DEF Rename
  <2> DEFINE target == IF ~setting THEN key ELSE Plain
  <2>2. (~setting) \in BOOLEAN
    BY DEF IInv, HistoryTypeOK
  <2>3. /\ temp \in Seq(Line) /\ Len(temp) = Len(seen)
        /\ \A i \in 1..Len(seen) :
             temp[i] = IF Decodes(seen[i], key) THEN [seen[i] EXCEPT !.key = target] ELSE seen[i]
    BY <1>1, <2>2, ConvertTyped
  <2>4. target \in {key, Plain}
    OBVIOUS
  <2> HIDE DEF target
  <2>5. ASSUME NEW line \in ToSet(seen), Reads(line, keystore),
               key = keystore \/ ~Decodes(line, key)
        PROVE  \E new \in ToSet(temp) : new.entry = line.entry /\ Reads(new, keystore)
    <3>1. PICK i \in 1..Len(seen) : seen[i] = line
      BY <1>1 DEF ToSet
    <3>2. seen[i] \in Line
      BY <1>1
    <3>3. temp[i] \in ToSet(temp)
      BY <2>3 DEF ToSet
    <3>4. CASE Decodes(line, key)
      <4>1. temp[i] = [line EXCEPT !.key = target] /\ line \in Line
        BY <2>3, <3>1, <3>2, <3>4
      <4>2. temp[i].entry = line.entry /\ temp[i].key = target
        BY <4>1 DEF Line
      <4>3. Reads(temp[i], keystore)
        BY <2>4, <2>5, <3>4, <4>2 DEF Reads, Decodes
      <4>4. QED
        BY <3>3, <4>2, <4>3
    <3>5. CASE ~Decodes(line, key)
      BY <2>3, <2>5, <3>1, <3>3, <3>5
    <3>6. QED
      BY <3>4, <3>5
  <2>6. Keeps(IF key = keystore THEN ToSet(seen) ELSE Untouched)
    <3>1. CASE key = keystore
      BY <1>1, <2>1, <2>5, <3>1 DEF Keeps, Stored
    <3>2. CASE key # keystore
      BY <1>1, <2>1, <2>5, <3>2 DEF Keeps, Stored, Untouched
    <3>3. QED
      BY <3>1, <3>2
  <2>7. QED
    BY <2>6 DEF Rewrites, Lossless
<1>4. QED
  BY <1>2, <1>3

(***************************************************************************)
(* No step loses an entry that was in the journal, but for appends that    *)
(* run together, appends in the middle of a rewrite, keys that collide and *)
(* the user's own stats --clear.                                           *)
(***************************************************************************)
THEOREM EntriesSurvive == HistorySpec => EntriesKept
<1>1. ASSUME IInv, [HistoryNext]_historyVars PROVE Lossless \/ UNCHANGED historyVars
  <2>1. CASE UNCHANGED journal /\ (keystore' = keystore \/ keystore = Plain \/ KeysCollide)
    BY <2>1, SameJournalKeeps DEF Lossless
  <2>2. CASE Dictate \/ CliAppend \/ Rename \/ Clear
    BY <1>1, <2>2, DictateLossless, CliAppendLossless, RenameLossless DEF Lossless, IInv
  <2>3. CASE FinishLine \/ Switch \/ MintForSwitch \/ ReadForRewrite \/ SaveSetting
    BY <2>1, <2>3 DEF FinishLine, Switch, MintForSwitch, ReadForRewrite, SaveSetting, files,
                      secrets, KeysCollide
  <2>4. CASE TruncateConfig \/ WriteConfig \/ Boot \/ MintAtBoot \/ Crash
    BY <2>1, <2>4 DEF TruncateConfig, WriteConfig, Boot, MintAtBoot, Crash, files, secrets,
                      KeysCollide
  <2>5. CASE CliStart \/ CliKey \/ CliMint
    BY <2>1, <2>5 DEF CliStart, CliKey, CliMint, files, secrets, KeysCollide
  <2>6. QED
    BY <1>1, <2>2, <2>3, <2>4, <2>5 DEF HistoryNext, AppStep
<1>2. QED
  BY <1>1, InvInit, InvStep, PTL DEF HistorySpec, EntriesKept, Lossless
=============================================================================
