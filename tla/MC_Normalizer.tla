----------------------------- MODULE MC_Normalizer -----------------------------
(* Spoken numbers, alone and joined, and how they are meant to be written. *)
EXTENDS Normalizer

Unit(n) == Tok("unit", <<n>>)
Digits(n) == Tok("digits", <<n>>)
Other(kind) == Tok(kind, <<>>)
And == Other("and")
Times == Tok("operator", <<1>>)

IfAny(n, words) == IF n = 0 THEN <<>> ELSE words

Below100(n) ==
  IF n < 20 THEN IfAny(n, <<Unit(n)>>) ELSE <<Unit(n - (n % 10))>> \o IfAny(n % 10, <<Unit(n % 10)>>)

Below1000(n, and) ==
  IfAny(n \div 100, Below100(n \div 100) \o <<Tok("scale", <<100>>)>> \o IfAny(n % 100, and)) \o Below100(n % 100)

Million == 1000000
Billion == 1000 * Million

\* The thousands, millions or billions of n, at most 999 of them.
Scaled(n, scale, and) ==
  LET count == (n \div scale) % 1000
  IN  IfAny(count, Below1000(count, and) \o <<Tok("scale", <<scale>>)>>)

\* How n is said, with or without an and after the hundreds.
Cardinal(n, and) ==
  Scaled(n, Billion, and) \o Scaled(n, Million, and) \o Scaled(n, 1000, and) \o Below1000(n % 1000, and)

\* What is said, and the texts that write it under the settings: with digits or
\* not, with formulas or not.
Speech(said, Meant(_, _)) ==
  [said |-> said, meant |-> [settings \in BOOLEAN \X BOOLEAN |-> Meant(settings[1], settings[2])]]

\* Said so, it is always written so.
Always(said, written) == Speech(said, LAMBDA d, f : {written})

SpeechesOf(n, and) ==
  LET said == Cardinal(n, and)
      twoPoint == <<Other("point"), Unit(1), Unit(4)>>
      product == <<Times, Unit(20), Unit(2)>>
      plain(d) == IF d THEN <<Digits(n)>> ELSE said
  IN  {Always(said \o <<Other("dollars")>>, <<Tok("money", <<n>>)>>),
       Always(said \o <<Other("percent")>>, <<Tok("percentage", <<n>>)>>),
       Always(said \o <<Tok("denominator", <<5>>)>>, <<Tok("fraction", <<n, 5>>)>>),
       Speech(said, LAMBDA d, f : {plain(d)}),
       Speech(said \o <<Other("squared")>>,
              LAMBDA d, f : {IF f THEN <<Tok("square", <<n>>)>> ELSE plain(d) \o <<Other("squared")>>}),
       Speech(said \o twoPoint,
              LAMBDA d, f : {IF d THEN <<Tok("decimal", <<n, 1, 4>>)>> ELSE said \o twoPoint}),
       Speech(said \o product,
              LAMBDA d, f : {CASE f -> <<Digits(n), Tok("sign", <<1>>), Digits(22)>>
                               [] d /\ ~f -> <<Digits(n), Times, Digits(22)>>
                               [] OTHER -> said \o product})}

Clocks ==
  {Always(<<Digits(5), Digits(30), Other("pm")>>, <<Clock(17, 30)>>),
   Always(<<Digits(12), Digits(5), Other("am")>>, <<Clock(0, 5)>>),
   Always(<<Unit(5), Other("oclock"), Unit(40), Unit(5), Other("minutes")>>, <<Clock(5, 45)>>)}

Some == UNION {SpeechesOf(n, and) : n \in {5, 230}, and \in {<<And>>}} \cup Clocks

\* The last of one and the first of the other would be one run of numbers.
Runs(a, b) == Last(a.said).kind = "unit" /\ Head(b.said).kind = "unit"

\* Two with words in between: a word said twice over, or an and.
Joined(a, words, b) ==
  Speech(a.said \o words \o b.said,
         LAMBDA d, f : {x \o <<Head(words)>> \o y : x \in a.meant[d, f], y \in b.meant[d, f]})

\* Four phrases the passes write otherwise than the code says they are to: what is meant is
\* what its comments say of them.

\* mod.rs:102-106: "two thirty" is matched as a whole by the more specific pattern, the time.
TwoThirty ==
  Speech(<<Unit(2), Unit(30)>>,
         LAMBDA d, f : {<<Clock(2, 30)>>} \cup IF d THEN {} ELSE {<<Unit(2), Unit(30)>>})

\* numbers.rs:232-234: the digit value for a run, everything else is left untouched.
FiveAndSix ==
  Speech(<<Unit(5), And, Unit(6)>>,
         LAMBDA d, f : {IF d THEN <<Digits(5), And, Digits(6)>> ELSE <<Unit(5), And, Unit(6)>>})

\* percents.rs:8-10 and 34-35: number and English ordinal are a fraction.
OneThird == Always(<<Unit(1), Tok("ordinal word", <<3>>)>>, <<Tok("fraction", <<1, 3>>)>>)

\* times.rs:1: times unified to 24-hour HH:MM.
HalfPastOne == Always(<<Digits(13), Digits(30), Other("pm")>>, <<Clock(13, 30)>>)

Breaks == <<Other("word"), Other("word")>>

\* One sentence of the four, with words between them.
MisreadSpeeches ==
  {Joined(Joined(Joined(TwoThirty, Breaks, FiveAndSix), Breaks, OneThird), Breaks, HalfPastOne)}

(***************************************************************************)
(* With numbers written as digits, as numbers_format is by default, what    *)
(* the comments above say of each phrase is what is written of it.          *)
(***************************************************************************)
DigitsAsMeant == digits => WrittenAsMeant

\* Nothing said.
Silence == Always(<<>>, <<>>)

\* Two numbers in an order no number is spoken in.
FortyFifty ==
  Speech(<<Unit(40), Unit(50)>>, LAMBDA d, f : {IF d THEN <<Digits(40), Digits(50)>> ELSE <<Unit(40), Unit(50)>>})

\* With none of those four: two runs of numbers are joined by words, not by an and.
TestSpeeches ==
  {Silence, FortyFifty} \cup
  UNION {SpeechesOf(n, and) : n \in {5, 13, 20, 47, 105, 1900, 2026, 125000, 305012, 8340000, 1200000007}, and \in {<<>>, <<And>>}}
    \cup {Joined(a, Breaks, b) : a \in Some, b \in Some}
    \cup {Joined(s[1], <<And>>, s[2]) : s \in {t \in Some \X Some : ~Runs(t[1], t[2])}}

\* TLC evaluates a definition once, but what a cfg gives a constant at every use of it.
MCSpeeches == TestSpeeches
=============================================================================
