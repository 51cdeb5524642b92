-------------------------- MODULE WindowAcceptance --------------------------
(* macws_window_mode_acceptance.py: the harness records the sizes of three   *)
(* append-only logs (Host, SpringBoard tweak, Finder), then repeatedly reads *)
(* what was appended, one log after the other, and scores one activation by  *)
(* joining lines of the three: publication nonce -> FBS scene -> session ->  *)
(* first geometry and postconditions; one gesture by window and contact.     *)
(* The Host, SpringBoard and Finder write meanwhile.                         *)
EXTENDS Naturals, Sequences

CONSTANTS MaxWindows,   \* bound: native windows whose scenes are activated
          MaxContacts,  \* bound: direct-touch gestures
          MaxPolls,     \* bound: polls before the deadline
          MaxEarly      \* bound: lines written before the harness is armed

ASSUME BoundsAssumption == MaxPolls \in Nat \ {0} /\ MaxEarly \in Nat

(* Gestures are numbered as they begin, windows as they are published or     *)
(* first touched.                                                            *)
Windows == 1 .. MaxWindows
Contacts == 1 .. MaxContacts

VARIABLES logs,     \* [host, windowing, finder]: sequences of lines
          scene,    \* per window: how far its activation is, and its truth
          touch,    \* per gesture: how far it is, and its truth
          harness   \* the harness: stage, offsets, extents read, report

acceptVars == <<logs, scene, touch, harness>>

(* A line, by what the regular expressions capture: its kind, the identity   *)
(* that ties it to an activation or gesture, its window, and its verdict.    *)
Line(k, i, w, v) == [kind |-> k, id |-> i, win |-> w, ok |-> v]

NoReport == [passed |-> FALSE, drag |-> FALSE, target |-> 0, touched |-> 0]

AcceptInit ==
  /\ logs = [host |-> <<>>, windowing |-> <<>>, finder |-> <<>>]
  /\ scene = [w \in Windows |-> [at |-> "idle", exact |-> TRUE, fixed |-> FALSE,
                                 placed |-> FALSE]]
  /\ touch = [c \in Contacts |-> [at |-> "idle", win |-> 0, moved |-> FALSE,
                                  reset |-> FALSE, seen |-> {}]]
  /\ \E m \in {"springback", "drag"} :
       harness = [stage |-> "host", mode |-> m, armed |-> FALSE, polls |-> 0,
                  off |-> [host |-> 0, windowing |-> 0, finder |-> 0],
                  upto |-> [host |-> 0, windowing |-> 0, finder |-> 0],
                  report |-> NoReport]

-----------------------------------------------------------------------------
(* The writers.  Each window is activated once, in the order the Host and    *)
(* SpringBoard follow; a geometry line is exact or a stock one, and a scene  *)
(* that missed its size is resized afterwards.                               *)
Writes(log, line) == logs' = [logs EXCEPT ![log] = Append(@, line)]

Observing(m) ==
  /\ harness.mode = m /\ harness.stage # "done"
  /\ ~harness.armed => Len(logs.host) + Len(logs.windowing) + Len(logs.finder) < MaxEarly

Publish(w) ==
  /\ scene[w].at = "idle" /\ \A v \in 1 .. w - 1 : scene[v].at # "idle"
  /\ Writes("host", Line("published", w, w, TRUE))
  /\ scene' = [scene EXCEPT ![w].at = "published"]

(* The layout hook logs its entry and, when it returns, what it observed. *)
EnterLayout(w) ==
  /\ scene[w].at = "published"
  /\ logs' = [logs EXCEPT !.windowing =
                @ \o <<Line("entering", w, w, TRUE), Line("returned", w, w, TRUE)>>]
  /\ scene' = [scene EXCEPT ![w].at = "entered"]

(* first scene geometry: exact, or the stock size *)
FirstGeometry(w) ==
  /\ scene[w].at = "entered"
  /\ \E exact \in BOOLEAN :
       /\ Writes("host", Line("geometry", w, w, exact))
       /\ scene' = [scene EXCEPT ![w].at = "sized", ![w].exact = exact]

(* The postcondition either keeps the initial layout or resizes the scene:   *)
(* a stock scene is always corrected, an exact one may lose its size late.   *)
Postcondition(w) ==
  /\ scene[w].at = "sized"
  /\ \E landed \in {v \in BOOLEAN : v => scene[w].exact} :
       /\ Writes("host", Line("postcondition", w, w, landed))
       /\ scene' = [scene EXCEPT ![w].at = "settled", ![w].fixed = ~landed]

(* The layout-postcondition and the resize policy of a scene on screen: each *)
(* comes after a delay of its own, before or after the size's postcondition. *)
Settled(w) ==
  /\ scene[w].at \in {"sized", "settled"} /\ ~scene[w].placed
  /\ logs' = [logs EXCEPT !.host = Append(@, Line("layout", w, w, TRUE)),
                          !.windowing = Append(@, Line("springback", w, w, TRUE))]
  /\ scene' = [scene EXCEPT ![w].placed = TRUE]

Activation(w) ==
  /\ Observing("springback")
  /\ Publish(w) \/ EnterLayout(w) \/ FirstGeometry(w) \/ Postcondition(w) \/ Settled(w)
  /\ UNCHANGED <<touch, harness>>

(* A gesture: began, perhaps dragging, perhaps reset, ended; one at a time.  *)
Gesture(c) ==
  /\ Observing("drag")
  /\ \/ /\ touch[c].at = "idle"
        /\ \A d \in Contacts : touch[d].at = IF d < c THEN "ended" ELSE "idle"
        /\ \E w \in Windows \cap 1 .. c :
             /\ Writes("host", Line("began", c, w, TRUE))
             /\ touch' = [touch EXCEPT ![c].at = "began", ![c].win = w]
     \/ /\ touch[c].at = "began" /\ ~touch[c].reset
        /\ Writes("host", Line("dragging", c, touch[c].win, TRUE))
        /\ touch' = [touch EXCEPT ![c].at = "dragged", ![c].moved = TRUE]
     \/ /\ touch[c].at \in {"began", "dragged"} /\ ~touch[c].reset
        /\ Writes("host", Line("cancelled", c, touch[c].win, TRUE))
        /\ touch' = [touch EXCEPT ![c].reset = TRUE]
     \/ /\ touch[c].at \in {"began", "dragged"}
        /\ Writes("host", Line("ended", c, touch[c].win, TRUE))
        /\ touch' = [touch EXCEPT ![c].at = "ended"]
  /\ UNCHANGED <<scene, harness>>

(* Finder logs the gesture's route, then its drag session with the native    *)
(* moves, then the release.                                                  *)
FinderLines(seen) ==
  CASE seen = {} -> <<"route">>
    [] seen = {"route"} -> <<"session", "move">>
    [] OTHER -> <<"up">>

Finder(c) ==
  /\ Observing("drag") /\ touch[c].moved /\ "up" \notin touch[c].seen
  /\ \/ touch[c].at = "ended"
     \/ touch[c].at = "dragged" /\ "move" \notin touch[c].seen
  /\ LET wrote == FinderLines(touch[c].seen) IN
     /\ logs' = [logs EXCEPT !.finder =
          @ \o [i \in DOMAIN wrote |-> Line(wrote[i], c, touch[c].win, TRUE)]]
     /\ touch' = [touch EXCEPT ![c].seen = @ \cup {wrote[i] : i \in DOMAIN wrote}]
  /\ UNCHANGED <<scene, harness>>

-----------------------------------------------------------------------------
(* analyze.  Positions of the lines that satisfy a test in a text. *)
Where(text, Test(_)) == {i \in DOMAIN text : Test(text[i])}
Earliest(places) == CHOOSE i \in places : \A j \in places : i <= j
Latest(places) == CHOOSE i \in places : \A j \in places : i >= j
From(text, i) == SubSeq(text, i, Len(text))

(* A search that must be satisfied by its first match, as re.search is. *)
FirstOk(text, Test(_)) ==
  LET found == Where(text, Test) IN found # {} /\ text[Earliest(found)].ok

(* Mutant: whichever scene logs geometry first. *)
AnyGeometry(e, w) == e.kind = "geometry"

(* The geometry of the scene SpringBoard bound to the nonce. *)
GeometryOf(e, w) == e.kind = "geometry" /\ e.id = w

(* The checks of the last published window: entry and return of the layout   *)
(* hook, exact first geometry, postcondition, coexistence, and no corrective *)
(* resize of any scene after the publication.                                *)
SceneChecks(host, windowing, at) ==
  LET w == host[at].id
      after == From(host, at)
      Entry(e) == e.kind = "entering" /\ e.id = w
      Return(e) == e.kind = "returned" /\ e.id = w
      Geometry(e) == GeometryOf(e, w)
      session == after[Earliest(Where(after, Geometry))].id
      Post(e) == e.kind = "postcondition" /\ e.id = session
      Layout(e) == e.kind = "layout" /\ e.win = w
      Corrected(e) == e.kind = "postcondition" /\ ~e.ok
  IN /\ Where(windowing, Entry) # {} /\ FirstOk(windowing, Return)
     /\ FirstOk(after, Geometry) /\ FirstOk(after, Post) /\ FirstOk(after, Layout)
     /\ Where(after, Corrected) = {}

(* The springback of the bound scene, or of any scene when none is bound. *)
SpringbackCheck(windowing, w) ==
  LET Bound(e) == e.kind = "entering" /\ e.id = w
      Back(e) == e.kind = "springback" /\ (Where(windowing, Bound) # {} => e.id = w)
  IN Where(windowing, Back) # {}

(* Mutant: the gesture is joined by its window alone. *)
SameWindow(e, began) == e.win = began.win

(* Lines of one gesture: the same window and the same contact. *)
SameGesture(e, began) == e.id = began.id /\ e.win = began.win

(* The lifecycle of the last gesture begun: dragging before its end, and no  *)
(* cancellation before its end; Finder's route, moves, release and session.  *)
DragChecks(host, finder, at) ==
  LET began == host[at]
      tail == From(host, at + 1)
      Is(k) == LET Test(e) == e.kind = k /\ SameGesture(e, began) IN Where(tail, Test)
      Did(k) == LET Test(e) == e.kind = k /\ SameGesture(e, began) IN Where(finder, Test)
      Route(e) == e.kind = "route" /\ e.id = began.id
      Session(e) == e.kind = "session" /\ e.win = began.win
  IN /\ Is("dragging") # {} /\ Is("ended") # {}
     /\ Earliest(Is("dragging")) < Earliest(Is("ended"))
     /\ ~(Is("cancelled") # {} /\ Earliest(Is("cancelled")) < Earliest(Is("ended")))
     /\ Where(finder, Route) # {} /\ Did("move") # {} /\ Did("up") # {}
     /\ Where(finder, Session) # {}

analyze(host, windowing, finder) ==
  LET IsPublish(e) == e.kind = "published"
      IsBegan(e) == e.kind = "began"
      published == Where(host, IsPublish)
      begun == Where(host, IsBegan)
  IN [passed |-> /\ published # {}
                 /\ SceneChecks(host, windowing, Latest(published))
                 /\ SpringbackCheck(windowing, host[Latest(published)].id),
      drag |-> begun # {} /\ DragChecks(host, finder, Latest(begun)),
      target |-> IF published = {} THEN 0 ELSE host[Latest(published)].id,
      touched |-> IF begun = {} THEN 0 ELSE host[Latest(begun)].id]

-----------------------------------------------------------------------------
(* main: arm by recording the three sizes, then read the three tails.        *)
NextLog(l) == CASE l = "host" -> "windowing" [] l = "windowing" -> "finder"
                [] OTHER -> "analyze"

TakeOffset ==
  /\ ~harness.armed /\ harness.stage \in {"host", "windowing", "finder"}
  /\ LET l == harness.stage IN
     harness' = [harness EXCEPT !.off[l] = Len(logs[l]),
       !.stage = IF l = "finder" THEN "host" ELSE NextLog(l),
       !.armed = l = "finder"]
  /\ UNCHANGED <<logs, scene, touch>>

ReadTail ==
  /\ harness.armed /\ harness.stage \in {"host", "windowing", "finder"}
  /\ LET l == harness.stage IN
     harness' = [harness EXCEPT !.upto[l] = Len(logs[l]), !.stage = NextLog(l)]
  /\ UNCHANGED <<logs, scene, touch>>

TextOf(l) == SubSeq(logs[l], harness.off[l] + 1, harness.upto[l])

(* The whole interval is observed: only the deadline ends the polling. *)
Analyze ==
  /\ harness.stage = "analyze"
  /\ \E expired \in {x \in BOOLEAN : harness.polls + 1 = MaxPolls => x} :
       harness' = [harness EXCEPT
         !.report = analyze(TextOf("host"), TextOf("windowing"), TextOf("finder")),
         !.polls = @ + 1,
         !.stage = IF expired THEN "done" ELSE "host"]
  /\ UNCHANGED <<logs, scene, touch>>

AcceptNext ==
  \/ TakeOffset \/ ReadTail \/ Analyze
  \/ \E w \in Windows : Activation(w)
  \/ \E c \in Contacts : Gesture(c) \/ Finder(c)

-----------------------------------------------------------------------------
(* "scores the first Scene geometry, not eventual convergence": a report     *)
(* that passes names a window whose own first geometry was exact and whose   *)
(* scene was not resized afterwards, whatever the other scenes logged and    *)
(* whenever the three logs were read.                                        *)
PassIsOneScene ==
  harness.report.passed =>
    /\ scene[harness.report.target].exact
    /\ ~scene[harness.report.target].fixed

(* A passing drag report is about one gesture, the last begun in the text:   *)
(* it dragged, ended, was not reset before, and Finder handled its moves.    *)
DragIsOneGesture ==
  harness.report.drag =>
    LET t == touch[harness.report.touched] IN
    /\ t.at = "ended" /\ t.moved /\ ~t.reset /\ {"route", "move", "up"} \subseteq t.seen
=============================================================================
