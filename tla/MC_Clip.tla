-------------------------------- MODULE MC_Clip ---------------------------------
(* Recordings: two stretches of sound, soft or loud, with silence around them; and one   *)
(* that is trimmed within its sound, to a length that is no multiple of the rate.        *)
EXTENDS Clip

Stretch(len, energy) == [i \in 1..len |-> energy]

TestRecordings ==
  {Stretch(8, 5) \o Stretch(1, 0)} \cup
  {Stretch(a, 0) \o Stretch(b, e) \o Stretch(c, 0) \o Stretch(d, e) \o Stretch(f, 0) :
     a \in 0..4, b \in {1, 5, 8}, c \in {0, 3, 5}, d \in {0, 1, 8}, f \in 0..4, e \in {4, 16}}

\* TLC evaluates a definition once, but what a cfg gives a constant at every use of it.
MCRecordings == TestRecordings
=================================================================================
