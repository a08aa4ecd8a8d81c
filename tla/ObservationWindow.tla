--------------------------- MODULE ObservationWindow ---------------------------
(***************************************************************************)
(* observation_slots: which of the observations that lie within the last   *)
(* Size seconds stand for them, one for each nominal second.  Observations *)
(* are given by how long before the newest they were made, oldest first;   *)
(* the anchor, which fixes where seconds begin, likewise.                  *)
(***************************************************************************)
EXTENDS Integers, Sequences, FiniteSets

CONSTANTS
    Second,     \* ticks of a second
    Size,       \* EDGE_V2_MEDIAN_WINDOW_SECONDS
    NoAnchor

ASSUME WindowAssumption == {Second, Size} \subseteq Nat \ {0} /\ NoAnchor \notin Int

Duration == Size * Second
HalfSecond == Second \div 2
GapLimit == Second + HalfSecond   \* a longer gap starts a window anew

Current(before) == {i \in DOMAIN before : before[i] \in 0 .. Duration - 1}

AnchorAfter(before, anchor) ==
    IF anchor # NoAnchor /\ anchor \in 0 .. Duration - 1 THEN anchor
    ELSE before[CHOOSE i \in Current(before) : \A j \in Current(before) : i <= j]

Slot(before, anchor, i) == (AnchorAfter(before, anchor) - before[i] + HalfSecond) \div Second

(* Wrong on purpose: every observation of the window counts, so that a     *)
(* burst fills it.                                                         *)
LatestOfAll(before, anchor) == Current(before)

(* The last observation of each slot. *)
LatestOfSlots(before, anchor) ==
    {i \in Current(before) :
        \A j \in Current(before) : j > i => Slot(before, anchor, j) # Slot(before, anchor, i)}

Selected(before, anchor) ==
    {i \in LatestOfSlots(before, anchor) :
        Cardinality({j \in LatestOfSlots(before, anchor) : j >= i}) <= Size}

(* A set of positions as the sequence in which they come. *)
InOrder(set) ==
    CHOOSE s \in [1 .. Cardinality(set) -> set] : \A i, j \in DOMAIN s : i < j => s[i] < s[j]
=============================================================================
