------------------------------- MODULE SpeakerDb -------------------------------
(***************************************************************************)
(* The speaker database (whspr-config: speaker/mod.rs, retrain.rs): every   *)
(* distinct voice heard so far, each with the turns it was heard in and the *)
(* mean of their embeddings as its centroid.                                *)
(*                                                                         *)
(* An embedding is a point on a line, and the similarity of two falls with  *)
(* their distance: a threshold on the similarity is a greatest distance,    *)
(* and a margin that raises the one lowers the other.  A centroid is the    *)
(* exact mean, kept as a sum and a count (the code rounds to f32).          *)
(***************************************************************************)
EXTENDS Integers, Sequences, SequencesExt

CONSTANTS
  Reach,      (* the greatest distance of a match: similarity_threshold      *)
  MarginStep, (* MARGIN_STEP                                                 *)
  MarginCap   (* MARGIN_CAP                                                  *)

ASSUME ReachAssumption == Reach \in Nat /\ MarginStep \in Nat /\ MarginCap \in Nat

NoScan == 0      (* the empty scan_id of a turn seeded from a stored centroid *)
NoName == "no name"
EmptyDb == [profiles |-> <<>>, margins |-> <<>>]

Ids(db) == {db.profiles[i].id : i \in DOMAIN db.profiles}
Distance(a, b) == IF a < b THEN b - a ELSE a - b

-----------------------------------------------------------------------------
(* One profile *)

Mean(turns) ==
  [sum |-> FoldLeft(LAMBDA total, turn : total + turn.voice, 0, turns), n |-> Len(turns)]

\* Without turns (a file from before turns were kept) the stored value stays.
RecomputeCentroid(profile) ==
  IF profile.turns = <<>> THEN profile ELSE [profile EXCEPT !.centroid = Mean(profile.turns)]

\* mutant: the new turn is stored, the centroid left as it was
PushTurnOnly(profile, voice, scan) ==
  [profile EXCEPT !.turns = Append(@, [voice |-> voice, scan |-> scan])]

\* A stored centroid without turns becomes a turn of its own first.  Such a
\* centroid is of one voice: from a file, or of the only turn, taken away.
PushTurn(profile, voice, scan) ==
  LET seed == IF profile.turns = <<>>
                THEN <<[voice |-> profile.centroid.sum, scan |-> NoScan]>> ELSE <<>>
  IN  RecomputeCentroid([profile EXCEPT
        !.turns = (@ \o seed) \o <<[voice |-> voice, scan |-> scan]>>])

-----------------------------------------------------------------------------
(* The database *)

MarginBetween(db, a, b) == IF {a, b} \in DOMAIN db.margins THEN db.margins[{a, b}] ELSE 0

BumpMargin(db, a, b) ==
  LET raised == MarginBetween(db, a, b) + MarginStep
      bounded == IF raised < MarginCap THEN raised ELSE MarginCap
  IN  [db EXCEPT !.margins =
        [pair \in DOMAIN @ \cup {{a, b}} |-> IF pair = {a, b} THEN bounded ELSE @[pair]]]

\* How far voice is from a centroid, times the centroid's count.
Off(voice, centroid) == Distance(voice * centroid.n, centroid.sum)

\* Profile i comes before j in the stable sort by similarity.
Nearer(db, voice, i, j) ==
  LET near == db.profiles[i].centroid
      far == db.profiles[j].centroid
  IN  \/ Off(voice, near) * far.n < Off(voice, far) * near.n
      \/ Off(voice, near) * far.n = Off(voice, far) * near.n /\ i < j

Nearest(db, voice, among) ==
  CHOOSE i \in among : \A j \in among \ {i} : Nearer(db, voice, i, j)

\* The best candidate clears the threshold, raised by the margin learned
\* between it and the runner-up.
Matches(db, voice) ==
  LET all == DOMAIN db.profiles
      best == Nearest(db, voice, all)
      second == Nearest(db, voice, all \ {best})
      margin == IF all = {best} THEN 0
                ELSE MarginBetween(db, db.profiles[best].id, db.profiles[second].id)
      centroid == db.profiles[best].centroid
  IN  {i \in all : i = best /\ Off(voice, centroid) <= (Reach - margin) * centroid.n}

NewProfile(id, voice, scan) ==
  [id |-> id, name |-> NoName, centroid |-> [sum |-> voice, n |-> 1],
   turns |-> <<[voice |-> voice, scan |-> scan]>>]

\* The database after a turn, and the speaker it was attributed to; fresh is
\* the identifier a new speaker would get.
MatchOrEnroll(db, voice, scan, fresh) ==
  IF Matches(db, voice) = {}
    THEN [db |-> [db EXCEPT !.profiles = Append(@, NewProfile(fresh, voice, scan))], id |-> fresh]
    ELSE LET best == CHOOSE i \in Matches(db, voice) : TRUE
         IN  [db |-> [db EXCEPT !.profiles[best] = PushTurn(@, voice, scan)],
              id |-> db.profiles[best].id]

RenameProfile(db, id, name) ==
  [db EXCEPT !.profiles = [i \in DOMAIN @ |->
    IF @[i].id = id THEN [@[i] EXCEPT !.name = name] ELSE @[i]]]

\* mutant: only the speaker who receives the turn is computed again
ReassignStale(db, from, to, at) ==
  LET moved == db.profiles[from].turns[at]
  IN  BumpMargin([db EXCEPT
        !.profiles[from].turns = RemoveAt(@, at),
        !.profiles[to] = RecomputeCentroid([@ EXCEPT !.turns = Append(@, moved)])],
        db.profiles[from].id, db.profiles[to].id)

\* Profiles by position, the turn by position: what the ids and a TurnRef find.
Reassign(db, from, to, at) ==
  LET moved == db.profiles[from].turns[at]
      giver == RecomputeCentroid([db.profiles[from] EXCEPT !.turns = RemoveAt(@, at)])
      taker == RecomputeCentroid([db.profiles[to] EXCEPT !.turns = Append(@, moved)])
  IN  BumpMargin([db EXCEPT !.profiles[from] = giver, !.profiles[to] = taker],
                 db.profiles[from].id, db.profiles[to].id)

-----------------------------------------------------------------------------
Turn(voices, scans) == [voice : voices, scan : scans]

IsDb(db) ==
  /\ \A i, j \in DOMAIN db.profiles : db.profiles[i].id = db.profiles[j].id => i = j
  /\ \A i \in DOMAIN db.profiles : db.profiles[i].centroid.n > 0
  /\ \A pair \in DOMAIN db.margins : pair \subseteq Ids(db) /\ db.margins[pair] <= MarginCap

\* The cache holds: the centroid of every profile with turns is their mean.
CentroidsCurrent(db) ==
  \A i \in DOMAIN db.profiles :
    db.profiles[i].turns # <<>> => db.profiles[i].centroid = Mean(db.profiles[i].turns)
=============================================================================
