------------------------------- MODULE Normalizer -------------------------------
(***************************************************************************)
(* The rule-based passes over a refined text that turn spoken numbers into  *)
(* written ones (whspr-refine: normalize/mod.rs, numbers.rs, times.rs,      *)
(* formulas.rs, currency.rs, percents.rs, dedup.rs), one after the other in *)
(* the order of apply().  A pass walks the text: where its pattern matches  *)
(* the words from a position on it writes something else for them, and      *)
(* anywhere else it copies the word.  One step is one position.             *)
(*                                                                         *)
(* A word is what the tables make of it: its kind, with the numbers it      *)
(* carries.  Languages, punctuation and the other passes are left out.      *)
(***************************************************************************)
EXTENDS Integers, Sequences, SequencesExt

CONSTANTS
  Speeches \* what may be said: records [said, meant]; see MC_Normalizer

\* What the tables tell apart, and what is written.
WordKinds ==
  {"unit", "scale", "and", "digits", "point", "ordinal word", "denominator", "operator", "oclock",
   "minutes", "am", "pm", "squared", "dollars", "percent", "word", "decimal", "ordinal", "clock",
   "sign", "square", "money", "percentage", "fraction"}

\* A word: where its kind is that of a number, it carries one.
Token == {word \in [kind : WordKinds, value : Seq(Nat)] :
            word.kind \in {"unit", "scale", "digits", "ordinal word", "denominator"} => word.value # <<>>}

ASSUME SpeechesAssumption == \A utterance \in Speeches : utterance.said \in Seq(Token)

VARIABLES
  speech,   (* what was said, and what it means                              *)
  digits,   (* settings.numbers_format: numbers are written as digits        *)
  formulas, (* settings.formulas                                             *)
  passes,   (* the passes still to run, the present one first                *)
  text,     (* what the present pass walks over                              *)
  at,       (* its position                                                  *)
  out       (* what it has written                                           *)

normalizerVars == <<speech, digits, formulas, passes, text, at, out>>

Tok(kind, value) == [kind |-> kind, value |-> value]

Kind(j) == IF j \in DOMAIN text THEN text[j].kind ELSE "none"

IsNumberWord(j) == Kind(j) \in {"unit", "scale"}

\* eval_kinds; a connector adds nothing.
AddKind(sum, word) ==
  LET value == word.value[1]
      group == IF sum.current = 0 THEN 1 ELSE sum.current
  IN  CASE word.kind = "unit" -> [sum EXCEPT !.current = @ + value]
        [] word.kind = "scale" /\ value >= 1000 -> [total |-> sum.total + group * value, current |-> 0]
        [] word.kind = "scale" /\ value < 1000 -> [sum EXCEPT !.current = group * value]
        [] OTHER -> sum

EvalKinds(words) ==
  LET sum == FoldLeft(AddKind, [total |-> 0, current |-> 0], words)
  IN  sum.total + sum.current

Tier(value) == IF value < 10 THEN 0 ELSE IF value < 20 THEN 1 ELSE IF value < 100 THEN 2 ELSE 3

NoTier == 4

\* mutant: any number word extends a run
RunEndAnyOrder(i) ==
  LET End[j \in i..(Len(text) + 1)] ==
        IF IsNumberWord(j) \/ (Kind(j) = "and" /\ j > i /\ IsNumberWord(j + 1)) THEN End[j + 1] ELSE j
  IN  End[i]

\* last_tier in a run from i on: none at first and after a scale.
LastTier(i, j) ==
  LET numbers == {k \in i..(j - 1) : IsNumberWord(k)}
  IN  IF numbers = {} \/ Kind(Max(numbers)) = "scale" THEN NoTier ELSE Tier(text[Max(numbers)].value[1])

\* parse_run, at j: units only go on in falling tiers; a connector is passed over when a
\* number word follows it.
RunGoesOn(i, j) ==
  \/ Kind(j) = "scale"
  \/ Kind(j) = "unit" /\ Tier(text[j].value[1]) < LastTier(i, j)
  \/ Kind(j) = "and" /\ j > i /\ IsNumberWord(j + 1)

\* Where the run of number words from i on ends.
RunEnd(i) == CHOOSE j \in i..(Len(text) + 1) : ~RunGoesOn(i, j) /\ \A k \in i..(j - 1) : RunGoesOn(i, k)

\* parse_number_at: digits, or a run of number words.
IsNumberAt(i) == Kind(i) = "digits" \/ IsNumberWord(i)

NumberEnd(i) == IF Kind(i) = "digits" THEN i + 1 ELSE RunEnd(i)

NumberAt(i) ==
  IF Kind(i) = "digits" THEN text[i].value[1]
  ELSE EvalKinds(SubSeq(text, i, RunEnd(i) - 1))

Match(written, end) == [written |-> written, end |-> end]

NoMatch(i) == Match(<<text[i]>>, i + 1)

\* digit_chars, as far as the words from i on are digits.
IsDigit(j) == Kind(j) = "digits" \/ (Kind(j) = "unit" /\ text[j].value[1] < 10)

DigitsEnd(i) == CHOOSE j \in i..(Len(text) + 1) : ~IsDigit(j) /\ \A k \in i..(j - 1) : IsDigit(k)

IsTens(i) == Kind(i) = "unit" /\ text[i].value[1] \in {10 * n : n \in 2..9}

IsOnesOrdinal(i) == Kind(i) = "ordinal word" /\ text[i].value[1] < 10

\* normalize_numbers at i: a decimal, an ordinal, a run of number words.
NumbersAt(i) ==
  LET end == NumberEnd(i)
      Digit(j) == text[j].value[1]
  IN  IF IsNumberAt(i) /\ Kind(end) = "point" /\ IsDigit(end + 1)
      THEN LET last == DigitsEnd(end + 1)
           IN  Match(<<Tok("decimal", <<NumberAt(i)>> \o [j \in 1..(last - end - 1) |-> Digit(end + j)])>>, last)
      ELSE IF IsTens(i) /\ IsOnesOrdinal(i + 1)
      THEN Match(<<Tok("ordinal", <<Digit(i) + Digit(i + 1)>>)>>, i + 2)
      ELSE IF Kind(i) = "ordinal word" THEN Match(<<Tok("ordinal", text[i].value)>>, i + 1)
      ELSE IF IsNumberWord(i) THEN Match(<<Tok("digits", <<NumberAt(i)>>)>>, end)
      ELSE NoMatch(i)

Clock(hour, minute) == Tok("clock", <<hour, minute>>)

IsTime(hour, minute) == hour < 24 /\ minute < 60

\* apply_meridiem
Meridiem(hour, j) ==
  CASE Kind(j) = "pm" -> IF hour = 12 THEN 12 ELSE hour + 12
    [] Kind(j) = "am" -> IF hour = 12 THEN 0 ELSE hour
    [] OTHER -> hour

\* normalize_times at i: two bare numbers and am or pm, or hours and minutes.
TimesAt(i) ==
  LET after   == NumberEnd(i)
      minutes == IF IsNumberAt(after + 1) THEN NumberAt(after + 1) ELSE 0
      ending  == IF IsNumberAt(after + 1) THEN NumberEnd(after + 1) ELSE after + 1
  IN  CASE /\ Kind(i) = "digits" /\ Kind(i + 1) = "digits"
           /\ IsTime(text[i].value[1], text[i + 1].value[1]) ->
             Match(<<Clock(Meridiem(text[i].value[1], i + 2), text[i + 1].value[1])>>,
                   IF Kind(i + 2) \in {"am", "pm"} THEN i + 3 ELSE i + 2)
        [] IsNumberAt(i) /\ Kind(after) = "oclock" /\ IsTime(NumberAt(i), minutes) ->
             Match(<<Clock(NumberAt(i), minutes)>>,
                   IF Kind(ending) = "minutes" /\ ending > after + 1 THEN ending + 1 ELSE ending)
        [] OTHER -> NoMatch(i)

\* normalize_formulas at i: a power, or operators between numbers for as far as
\* there are numbers.
ChainGoesOn(j) == Kind(j) = "operator" /\ IsNumberAt(j + 1)

ChainEnd(i) ==
  LET End[j \in i..(Len(text) + 1)] == IF ChainGoesOn(j) THEN End[NumberEnd(j + 1)] ELSE j
  IN  End[NumberEnd(i)]

Chain(i) ==
  LET Write[j \in i..(Len(text) + 1)] ==
        IF ChainGoesOn(j)
        THEN <<Tok("sign", text[j].value), Tok("digits", <<NumberAt(j + 1)>>)>> \o Write[NumberEnd(j + 1)]
        ELSE <<>>
  IN  <<Tok("digits", <<NumberAt(i)>>)>> \o Write[NumberEnd(i)]

FormulasAt(i) ==
  CASE IsNumberAt(i) /\ Kind(NumberEnd(i)) = "squared" ->
         Match(<<Tok("square", <<NumberAt(i)>>)>>, NumberEnd(i) + 1)
    [] IsNumberAt(i) /\ ChainEnd(i) > NumberEnd(i) -> Match(Chain(i), ChainEnd(i))
    [] OTHER -> NoMatch(i)

\* normalize_currency at i.
CurrencyAt(i) ==
  IF IsNumberAt(i) /\ Kind(NumberEnd(i)) = "dollars"
  THEN Match(<<Tok("money", <<NumberAt(i)>>)>>, NumberEnd(i) + 1)
  ELSE NoMatch(i)

\* fraction_denominator: third and fifth are denominators, and so is fifths.
IsDenominator(j) == Kind(j) = "denominator" \/ (Kind(j) = "ordinal word" /\ text[j].value[1] \in 3..10)

\* normalize_percents at i.
PercentsAt(i) ==
  LET end == NumberEnd(i)
  IN  CASE IsNumberAt(i) /\ Kind(end) = "percent" -> Match(<<Tok("percentage", <<NumberAt(i)>>)>>, end + 1)
        [] IsNumberAt(i) /\ IsDenominator(end) ->
             Match(<<Tok("fraction", <<NumberAt(i), text[end].value[1]>>)>>, end + 1)
        [] OTHER -> NoMatch(i)

\* is_collapsible: it has letters, and is no number word.
IsCollapsible(i) ==
  Kind(i) \notin {"unit", "scale", "digits", "decimal", "clock", "sign", "square", "money", "percentage", "fraction"}

\* collapse_duplicate_words at i: a word that repeats the one before it goes.
DedupAt(i) ==
  IF IsCollapsible(i) /\ out # <<>> /\ Last(out) = text[i] THEN Match(<<>>, i + 1) ELSE NoMatch(i)

PassAt(pass, i) ==
  CASE pass = "times" -> TimesAt(i)
    [] pass = "numbers" -> NumbersAt(i)
    [] pass = "formulas" -> FormulasAt(i)
    [] pass = "currency" -> CurrencyAt(i)
    [] pass = "percents" -> PercentsAt(i)
    [] pass = "dedup" -> DedupAt(i)

\* apply, with settings.times and settings.numbers on.
PassesOf(asDigits, asFormulas) ==
  <<"times">> \o (IF asDigits THEN <<"numbers">> ELSE <<>>) \o (IF asFormulas THEN <<"formulas">> ELSE <<>>)
    \o <<"currency", "percents", "dedup">>

NormalizerInit ==
  /\ speech \in Speeches
  /\ digits \in BOOLEAN /\ formulas \in BOOLEAN
  /\ passes = PassesOf(digits, formulas)
  /\ text = speech.said /\ at = 1 /\ out = <<>>

\* The loop of a pass at one position.
WalkOn ==
  /\ passes # <<>> /\ at <= Len(text)
  /\ LET match == PassAt(Head(passes), at)
     IN  out' = out \o match.written /\ at' = match.end
  /\ UNCHANGED <<speech, digits, formulas, passes, text>>

\* A pass is through the text: out.join, and the next one splits it again.
NextPass ==
  /\ passes # <<>> /\ at > Len(text)
  /\ passes' = Tail(passes)
  /\ text' = out /\ at' = 1 /\ out' = <<>>
  /\ UNCHANGED <<speech, digits, formulas>>

NormalizerNext == WalkOn \/ NextPass

NormalizerSpec == NormalizerInit /\ [][NormalizerNext]_normalizerVars

-----------------------------------------------------------------------------
NormalizerTypeOK ==
  /\ text \in Seq(Token) /\ out \in Seq(Token) /\ at \in 1..(Len(text) + 1)
  /\ passes \in Seq({"times", "numbers", "formulas", "currency", "percents", "dedup"})

\* mod.rs: the passes, each with a pattern of its own, together write what was
\* meant: each number, amount, share, fraction, ordinal, decimal, time and sum once
\* and whole, and the words around it as they were (numbers.rs: "leaving everything
\* else ... untouched").  MC_Normalizer lists the sentences of which it holds, and those of
\* which it does not.
WrittenAsMeant == passes = <<>> => text \in speech.meant[<<digits, formulas>>]
=============================================================================
