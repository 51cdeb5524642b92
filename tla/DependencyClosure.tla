-------------------------- MODULE DependencyClosure --------------------------
(* closure of macws_macho_dependencies.py: the images an application's main  *)
(* executable and its plug-ins import, found depth first.  An import names a *)
(* file, or is searched along the rpaths of the image and of the chain of    *)
(* images that led to it.  Every image is visited once, with the rpaths of   *)
(* the chain that reaches it first; depth and number of images are bounded.  *)
EXTENDS Naturals, Sequences, FiniteSets, SequencesExt

CONSTANTS
    MaxDepth,
    MaxImages

ASSUME ClosureAssumption == MaxDepth \in Nat /\ MaxImages \in Nat \ {0}

VARIABLES
    graph,   \* what the load commands on the disk say, and the seeds
    walk     \* the locals of closure and the stack of its visits

closureVars == <<graph, walk>>

MainImage == "main"
Image == {MainImage, "framework", "helper", "leaf"}

\* An import is an image's own path or the name "@rpath", which the directory
\* "plugins" has as the helper and the directory "empty" does not have.
RpathName == "@rpath"
FilesIn == [plugins |-> {"helper"}, empty |-> {}]

Lists(S, n) == {s \in UNION {[1..k -> S] : k \in 0..n} : IsInjective(s)}

ByImage(m, f, h) == [main |-> m, framework |-> f, helper |-> h, leaf |-> <<>>]

LoadLists ==
    {ByImage(m, f, h) : m \in Lists({"framework", "helper", RpathName}, 2),
                        f \in Lists({"helper", "leaf", RpathName}, 2),
                        h \in Lists({MainImage, "framework", "leaf", RpathName}, 1)}
RpathLists ==
    LET lists == {<<>>, <<"plugins">>, <<"empty", "plugins">>}
    IN  {ByImage(m, f, <<>>) : m \in lists, f \in lists}

ClosureInit ==
    /\ graph \in [loads : LoadLists, rpaths : RpathLists, seeds : {{}, {"framework"}}]
    /\ walk = [pc |-> "start", stack |-> <<>>, visited |-> {}, seeds |-> graph.seeds]

-----------------------------------------------------------------------------

(* Mutant: only the first rpath is looked into. *)
FirstOnly(name, rpaths) ==
    IF name # RpathName THEN {name}
    ELSE IF rpaths = <<>> THEN {} ELSE FilesIn[Head(rpaths)]

\* Candidates that do not exist are passed over, the first that does decides.
Resolve(name, rpaths) ==
    IF name # RpathName THEN {name}
    ELSE LET found == {k \in DOMAIN rpaths : FilesIn[rpaths[k]] # {}}
         IN  UNION {FilesIn[rpaths[k]] : k \in {m \in found : \A n \in found : m <= n}}

\* An image's own rpaths come before the inherited ones.  (The code drops a
\* directory that comes again, which no search gets to.)
Rpaths(i, inherited) == graph.rpaths[i] \o inherited

\* The commands come from the file or from a record of the same identity.
Frame(i, inherited) == [image |-> i, rpaths |-> Rpaths(i, inherited), left |-> graph.loads[i]]

(* Mutant: the list of the parent is extended in place. *)
FrameLeaks(stack, i, inherited) ==
    LET frame == Frame(i, inherited)
    IN  IF stack = <<>> THEN <<frame>>
        ELSE Append([stack EXCEPT ![Len(stack)].rpaths = frame.rpaths], frame)

Pushed(stack, i, inherited) == Append(stack, Frame(i, inherited))

\* visit, over the frames that remain below it.
visit(stack, i, inherited) ==
    IF i \in walk.visited THEN [walk EXCEPT !.stack = stack]
    ELSE IF Len(stack) > MaxDepth \/ Cardinality(walk.visited) >= MaxImages
         THEN [walk EXCEPT !.pc = "refused", !.stack = <<>>]
         ELSE [walk EXCEPT !.visited = @ \cup {i}, !.stack = Pushed(stack, i, inherited)]

VisitMain ==
    /\ walk.pc = "start"
    /\ walk' = [visit(<<>>, MainImage, <<>>) EXCEPT !.pc = "walk"]
    /\ UNCHANGED graph

\* One import of the image on top.
FollowLoad ==
    /\ walk.pc = "walk" /\ walk.stack # <<>> /\ Last(walk.stack).left # <<>>
    /\ LET top == Last(walk.stack)
           rest == [walk.stack EXCEPT ![Len(walk.stack)].left = Tail(@)]
           found == Resolve(Head(top.left), top.rpaths)
       IN  \/ found = {} /\ walk' = [walk EXCEPT !.stack = rest]
           \/ \E i \in found : walk' = visit(rest, i, top.rpaths)
    /\ UNCHANGED graph

Return ==
    /\ walk.pc = "walk" /\ walk.stack # <<>> /\ Last(walk.stack).left = <<>>
    /\ walk' = [walk EXCEPT !.stack = Front(@)]
    /\ UNCHANGED graph

\* The seeds start over, with the rpaths of the main executable.
VisitSeed ==
    /\ walk.pc = "walk" /\ walk.stack = <<>>
    /\ \E i \in walk.seeds :
         walk' = [visit(<<>>, i, graph.rpaths[MainImage]) EXCEPT !.seeds = @ \ {i}]
    /\ UNCHANGED graph

ClosureReturns ==
    /\ walk.pc = "walk" /\ walk.stack = <<>> /\ walk.seeds = {}
    /\ walk' = [walk EXCEPT !.pc = "done"]
    /\ UNCHANGED graph

ClosureNext == VisitMain \/ FollowLoad \/ Return \/ VisitSeed \/ ClosureReturns

ClosureSpec == ClosureInit /\ [][ClosureNext]_closureVars

-----------------------------------------------------------------------------

\* Imports that do not depend on the chain, and all imports that might.
Imports(i) ==
    (Range(graph.loads[i]) \ {RpathName})
        \cup {j \in {"helper"} : RpathName \in Range(graph.loads[i])
                                    /\ "plugins" \in Range(graph.rpaths[i])}
MayImport(i) ==
    {j \in Image : \/ j \in Range(graph.loads[i])
                   \/ j = "helper" /\ RpathName \in Range(graph.loads[i])
                   \/ i = MainImage /\ j \in graph.seeds}

\* Imports lead from a to k: k is in every set that has a and what it imports.
Leads(a, k) ==
    \A S \in SUBSET Image : a \in S /\ (\A i \in S : MayImport(i) \subseteq S) => k \in S

(* Every image that an admitted image imports by its own path, or finds      *)
(* along its own rpaths, is admitted, whatever the order in which the walk   *)
(* meets shared images, cycles and rpaths without the file.                  *)
ClosureComplete ==
    walk.pc = "done" =>
        \A i \in Image :
            (\A S \in SUBSET Image :
                ({MainImage} \cup graph.seeds \subseteq S /\ \A k \in S : Imports(k) \subseteq S)
                    => i \in S)
            => i \in walk.visited

(* No image is admitted that no chain of imports asks for: an rpath is only  *)
(* searched for an image whose own chain of loaders brought it along.        *)
ClosureSound ==
    walk.pc = "done" =>
        \A i \in walk.visited \ ({MainImage} \cup graph.seeds) :
            \E k \in walk.visited :
                \/ i \in Range(graph.loads[k])
                \/ /\ i = "helper" /\ RpathName \in Range(graph.loads[k])
                   /\ \E a \in walk.visited :
                        Leads(a, k) /\ "plugins" \in Range(graph.rpaths[a])

(* The walk admits every image that the imports of admitted images lead to   *)
(* and none that no chain of loaders asks for.                               *)
ClosureExact == ClosureComplete /\ ClosureSound
=============================================================================
