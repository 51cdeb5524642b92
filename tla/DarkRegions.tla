---------------------------- MODULE DarkRegions -----------------------------
(* isolated_dark_regions of misc/stray_perf_loop.py: the dark islands of a *)
(* picture, by a flood fill with an explicit stack over the sampled grid,  *)
(* and the tests that a found island must pass.  The picture is any choice *)
(* of dark and bright samples.                                             *)
EXTENDS Integers, Sequences, FiniteSets

CONSTANTS
    GridWidth, GridHeight,  \* sample_width, sample_height
    MinCount,               \* 80 samples
    MinBox,                 \* 12 pixels, in samples
    MaxBox,                 \* 3 % of the picture, in samples
    RingRadius              \* 10 samples

ASSUME RegionAssumption ==
    /\ GridWidth \in Nat \ {0} /\ GridHeight \in Nat \ {0}
    /\ MinCount \in Nat /\ MinBox \in Nat /\ MaxBox \in Nat
    /\ RingRadius \in Nat

VARIABLES
    dark,       \* the dark samples, as indices of the bytearray
    visited,    \* the samples pushed so far
    pending,    \* the stack of the fill in progress
    scan,       \* the seed, the count and the box of the fill
    regions     \* the boxes reported

regionVars == <<dark, visited, pending, scan, regions>>

Samples == 0 .. GridWidth * GridHeight - 1
X(sample) == sample % GridWidth
Y(sample) == sample \div GridWidth

NoBox == [minX |-> GridWidth, maxX |-> 0, minY |-> GridHeight, maxY |-> 0]

RegionInit ==
    /\ dark \in SUBSET Samples
    /\ visited = {} /\ pending = <<>> /\ regions = {}
    /\ scan = [at |-> "seek", seed |-> 0, count |-> 0, box |-> NoBox]

Smaller(a, b) == IF a < b THEN a ELSE b
Larger(a, b) == IF a > b THEN a ELSE b

(* A place in the grid, as <<next_x, next_y>>, and its sample.             *)
At(place) == place[2] * GridWidth + place[1]

(* Mutant: a column outside the grid is not refused.                       *)
InRange(place) == At(place) \in Samples

InGrid(place) == place[1] \in 0 .. GridWidth - 1 /\ place[2] \in 0 .. GridHeight - 1

(* for seed, is_dark in enumerate(dark): the next one that starts a fill.  *)
SeekSeed ==
    /\ scan.at = "seek"
    /\ LET fresh == {s \in dark \ visited : s >= scan.seed}
       IN  IF fresh = {}
           THEN /\ scan' = [scan EXCEPT !.at = "done"]
                /\ UNCHANGED <<visited, pending>>
           ELSE LET seed == CHOOSE s \in fresh : \A t \in fresh : s <= t
                IN  /\ scan' = [at |-> "fill", seed |-> seed, count |-> 0,
                                box |-> NoBox]
                    /\ visited' = visited \cup {seed}
                    /\ pending' = <<seed>>
    /\ UNCHANGED <<dark, regions>>

Grown(box, sample) ==
    [minX |-> Smaller(box.minX, X(sample)), maxX |-> Larger(box.maxX, X(sample)),
     minY |-> Smaller(box.minY, Y(sample)), maxY |-> Larger(box.maxY, Y(sample))]

(* A neighbour is pushed if it is in the grid, dark and not pushed before. *)
Push(place) ==
    IF InGrid(place) /\ At(place) \in dark \ visited THEN <<At(place)>> ELSE <<>>

(* The loop over the four neighbours, in its order.                        *)
Pushed(x, y) ==
    Push(<<x - 1, y>>) \o Push(<<x + 1, y>>) \o Push(<<x, y - 1>>) \o Push(<<x, y + 1>>)

(* One turn of the loop: the last sample is popped, its dark neighbours    *)
(* that were not pushed before are marked and pushed.                      *)
PopSample ==
    /\ scan.at = "fill" /\ pending # <<>>
    /\ LET current == pending[Len(pending)]
           found == Pushed(X(current), Y(current))
       IN  /\ pending' = SubSeq(pending, 1, Len(pending) - 1) \o found
           /\ visited' = visited \cup {found[i] : i \in DOMAIN found}
           /\ scan' = [scan EXCEPT !.count = @ + 1,
                                   !.box = Grown(@, current)]
    /\ UNCHANGED <<dark, regions>>

InBox(sample, box) ==
    /\ box.minX <= X(sample) /\ X(sample) <= box.maxX
    /\ box.minY <= Y(sample) /\ Y(sample) <= box.maxY
BoxSamples(box) == (box.maxX - box.minX + 1) * (box.maxY - box.minY + 1)

(* The samples around the box, up to the radius and the picture's edge.    *)
Ring(box) ==
    {n \in Samples : /\ ~InBox(n, box)
                     /\ InBox(n, [minX |-> box.minX - RingRadius,
                                  maxX |-> box.maxX + RingRadius,
                                  minY |-> box.minY - RingRadius,
                                  maxY |-> box.maxY + RingRadius])}

(* Mutant: the right and the lower edge of the picture are not looked at.  *)
TouchesOrigin(box) == box.minX = 0 \/ box.minY = 0

TouchesEdge(box) ==
    \/ box.minX = 0 \/ box.minY = 0
    \/ box.maxX = GridWidth - 1 \/ box.maxY = GridHeight - 1

(* Big enough, clear of the edges, compact, in a ring that is mostly       *)
(* bright (dark samples are 40 and bright ones 200 of 255 here: the mean   *)
(* reaches 140 with five bright samples of eight), and well filled.        *)
Accepted(count, box) ==
    LET ring == Ring(box)
        bright == Cardinality(ring \ dark)
    IN  /\ count >= MinCount
        /\ ~TouchesEdge(box)
        /\ box.maxX - box.minX + 1 >= MinBox /\ box.maxY - box.minY + 1 >= MinBox
        /\ BoxSamples(box) <= MaxBox
        /\ ring # {}
        /\ 8 * bright >= 5 * Cardinality(ring)
        /\ 100 * count >= 15 * BoxSamples(box)

ClassifyPixels ==
    /\ scan.at = "fill" /\ pending = <<>>
    /\ regions' = IF Accepted(scan.count, scan.box)
                  THEN regions \cup {[count |-> scan.count, box |-> scan.box]}
                  ELSE regions
    /\ scan' = [scan EXCEPT !.at = "seek", !.seed = @ + 1]
    /\ UNCHANGED <<dark, visited, pending>>

RegionsDone == scan.at = "done" /\ UNCHANGED regionVars

RegionNext == SeekSeed \/ PopSample \/ ClassifyPixels \/ RegionsDone

-----------------------------------------------------------------------------
(* Two samples that share a side.                                          *)
Adjacent(a, b) ==
    \/ Y(a) = Y(b) /\ (X(a) = X(b) + 1 \/ X(b) = X(a) + 1)
    \/ X(a) = X(b) /\ (Y(a) = Y(b) + 1 \/ Y(b) = Y(a) + 1)

(* A set of dark samples that no adjacent dark sample leaves.              *)
Closed(S) == \A s \in S, n \in dark : Adjacent(s, n) => n \in S

(* The connected dark samples around one: the least closed set that has it. *)
Component(sample) ==
    CHOOSE S \in SUBSET dark :
        /\ sample \in S /\ Closed(S)
        /\ \A T \in SUBSET S : sample \in T /\ Closed(T) => T = S

BoxOf(S) ==
    [minX |-> CHOOSE m \in {X(s) : s \in S} : \A s \in S : m <= X(s),
     maxX |-> CHOOSE m \in {X(s) : s \in S} : \A s \in S : m >= X(s),
     minY |-> CHOOSE m \in {Y(s) : s \in S} : \A s \in S : m <= Y(s),
     maxY |-> CHOOSE m \in {Y(s) : s \in S} : \A s \in S : m >= Y(s)]

(* A fill that has emptied its stack counted every sample of the seed's    *)
(* connected component exactly once, and its box is the component's.       *)
FillIsComponent ==
    scan.at = "fill" /\ pending = <<>>
        => LET whole == Component(scan.seed)
           IN  scan.count = Cardinality(whole) /\ scan.box = BoxOf(whole)

(* "surrounded by a substantially bright ring": round a reported island    *)
(* there is a sample on each side, and most of the ring is bright.         *)
IslandsSurrounded ==
    \A r \in regions :
        /\ \E n \in Ring(r.box) : X(n) < r.box.minX
        /\ \E n \in Ring(r.box) : X(n) > r.box.maxX
        /\ \E n \in Ring(r.box) : Y(n) < r.box.minY
        /\ \E n \in Ring(r.box) : Y(n) > r.box.maxY
        /\ 2 * Cardinality(Ring(r.box) \ dark) >= Cardinality(Ring(r.box))
=============================================================================
