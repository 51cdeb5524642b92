--------------------------- MODULE ShaderInstall ---------------------------
(* Publishing converted Metal libraries while the driver reads them.         *)
(* misc/install_stray_exact_metallib.py puts a library and its metadata in   *)
(* place one after the other; macwshostd takes a pair that does not match    *)
(* for none.                                                                 *)
(* misc/ensure_office_metal2metal.py links a new generation of files and     *)
(* then switches a route to it.  Either may die at any step.                 *)
EXTENDS Naturals, FiniteSets

CONSTANTS
    Installers,   \* processes that install a conversion of the same capture
    Sources,      \* distinct shader archives of the Office applications
    MaxInstalls,  \* conversions made
    MaxStops      \* processes killed, tools that fail

VARIABLES
    store,     \* archived_output, the exact library and its metadata
    install,   \* the locals of install_stray_exact_metallib.main
    office,    \* generation files, routes and damaged files on disk
    maker,     \* the locals of ensure_office_metal2metal.main
    made,      \* conversions made so far
    stops,
    overlap    \* history: installs that ran at the same time as another

shaderVars == <<store, install, office, maker, made, stops, overlap>>

NoInstall == [pc |-> "idle", mine |-> 0, read |-> 0]
NoMaker == [pc |-> "idle", todo |-> {}, source |-> 0, generation |-> 0, errors |-> FALSE]

ShaderInit ==
    /\ store = [output |-> 0, library |-> 0, meta |-> 0]
    /\ install = [p \in Installers |-> NoInstall]
    /\ office = [files |-> {}, route |-> [s \in Sources |-> 0], damaged |-> {}]
    /\ maker = NoMaker
    /\ made = 0
    /\ stops = 0
    /\ overlap = {}

-----------------------------------------------------------------------------
(* install_stray_exact_metallib.py                                          *)

Running == {p \in Installers : install[p].pc # "idle"}

\* The capture is validated and archived, the converted file is validated.
Validate(p) ==
    /\ install[p].pc = "idle" /\ made < MaxInstalls
    /\ made' = made + 1
    /\ install' = [install EXCEPT ![p] = [NoInstall EXCEPT !.pc = "output", !.mine = made + 1]]
    /\ overlap' = IF Running = {} THEN overlap \ {p} ELSE overlap \cup Running \cup {p}
    /\ UNCHANGED <<store, office, maker, stops>>

\* atomic_install of the converted file into the archive.
InstallOutput(p) ==
    /\ install[p].pc = "output"
    /\ store' = [store EXCEPT !.output = install[p].mine]
    /\ install' = [install EXCEPT ![p].pc = "read"]
    /\ UNCHANGED <<office, maker, made, stops, overlap>>

\* It is read back for the length and the hash of the metadata.
ReadOutput(p) ==
    /\ install[p].pc = "read"
    /\ install' = [install EXCEPT ![p].pc = "library", ![p].read = store.output]
    /\ UNCHANGED <<store, office, maker, made, stops, overlap>>

\* atomic_install copies the archived file as it is now.
InstallLibrary(p) ==
    /\ install[p].pc = "library"
    /\ store' = [store EXCEPT !.library = store.output]
    /\ install' = [install EXCEPT ![p].pc = "meta"]
    /\ UNCHANGED <<office, maker, made, stops, overlap>>

(* Mutant: existing metadata is kept. *)
MetaIfAbsent(p) == IF store.meta = 0 THEN install[p].read ELSE store.meta

\* The metadata always describes the library that was read back.
MetaOf(p) == install[p].read

InstallMeta(p) ==
    /\ install[p].pc = "meta"
    /\ store' = [store EXCEPT !.meta = MetaOf(p)]
    /\ install' = [install EXCEPT ![p] = NoInstall]
    /\ UNCHANGED <<office, maker, made, stops, overlap>>

InstallStops(p) ==
    /\ install[p].pc # "idle" /\ stops < MaxStops
    /\ stops' = stops + 1
    /\ install' = [install EXCEPT ![p] = NoInstall]
    /\ UNCHANGED <<store, office, maker, made, overlap>>

-----------------------------------------------------------------------------
(* ensure_office_metal2metal.py                                             *)

\* Every installed application's archive is read; an unreadable one is an
\* error of the run, not of the others.  The directory is locked.
Discover ==
    /\ maker.pc \in {"idle", "exit0"}
    /\ \E readable \in SUBSET Sources \ {{}} :
         maker' = [NoMaker EXCEPT !.pc = "next", !.todo = readable, !.errors = readable # Sources]
    /\ UNCHANGED <<store, install, office, made, stops, overlap>>

\* verify-runtime-manifest: both files of the route's generation, whole, and the
\* manifest of a complete translation.
verify_runtime_manifest(generation) ==
    /\ {<<generation, "source">>, <<generation, "translated">>} \subseteq office.files
    /\ generation \notin office.damaged

cache_valid(s) == office.route[s] # 0 /\ verify_runtime_manifest(office.route[s])

Provision(s) ==
    /\ maker.pc = "next" /\ s \in maker.todo
    /\ \/ /\ cache_valid(s)
          /\ maker' = [maker EXCEPT !.todo = @ \ {s}]
          /\ UNCHANGED made
       \/ /\ ~cache_valid(s) /\ made < MaxInstalls
          /\ made' = made + 1
          /\ maker' = [maker EXCEPT !.pc = "link", !.source = s, !.generation = made + 1]
    /\ UNCHANGED <<store, install, office, stops, overlap>>

(* Mutant: a source that failed is only printed. *)
FailedQuietly == [maker EXCEPT !.pc = "next", !.todo = @ \ {maker.source}]

\* Translation or verification failed: the other sources go on.
SourceFailed == [maker EXCEPT !.pc = "next", !.todo = @ \ {maker.source}, !.errors = TRUE]

ConvertFails ==
    /\ maker.pc = "link" /\ stops < MaxStops
    /\ stops' = stops + 1
    /\ maker' = SourceFailed
    /\ UNCHANGED <<store, install, office, made, overlap>>

\* The two files are linked under fresh names, one after the other.
LinkFiles ==
    /\ maker.pc = "link"
    /\ LET source == <<maker.generation, "source">>
           output == <<maker.generation, "translated">>
       IN  IF source \notin office.files
           THEN office' = [office EXCEPT !.files = @ \cup {source}] /\ UNCHANGED maker
           ELSE /\ office' = [office EXCEPT !.files = @ \cup {output}]
                /\ maker' = [maker EXCEPT !.pc = "route"]
    /\ UNCHANGED <<store, install, made, stops, overlap>>

(* Mutant: the route is switched as soon as the source file is linked. *)
SwitchEarly ==
    /\ maker.pc = "link" /\ <<maker.generation, "source">> \in office.files
    /\ office' = [office EXCEPT !.route[maker.source] = maker.generation]
    /\ maker' = [maker EXCEPT !.pc = "next", !.todo = @ \ {maker.source}]
    /\ UNCHANGED <<store, install, made, stops, overlap>>

\* The atomic rename of the route is the commit point.
SwitchRoute ==
    /\ maker.pc = "route"
    /\ office' = [office EXCEPT !.route[maker.source] = maker.generation]
    /\ maker' = [maker EXCEPT !.pc = "next", !.todo = @ \ {maker.source}]
    /\ UNCHANGED <<store, install, made, stops, overlap>>

OfficeExit ==
    /\ maker.pc = "next" /\ maker.todo = {}
    /\ maker' = [maker EXCEPT !.pc = IF maker.errors THEN "idle" ELSE "exit0"]
    /\ UNCHANGED <<store, install, office, made, stops, overlap>>

OfficeStops ==
    /\ maker.pc \in {"next", "link", "route"} /\ stops < MaxStops
    /\ stops' = stops + 1
    /\ maker' = NoMaker
    /\ UNCHANGED <<store, install, office, made, overlap>>

\* Between runs a generation's files may be damaged; a run checks them again.
Damage ==
    /\ maker.pc \in {"idle", "exit0"} /\ stops < MaxStops
    /\ stops' = stops + 1
    /\ \E g \in {file[1] : file \in office.files} :
         office' = [office EXCEPT !.damaged = @ \cup {g}]
    /\ maker' = NoMaker
    /\ UNCHANGED <<store, install, made, overlap>>

ExactNext ==
    \E p \in Installers :
        \/ Validate(p) \/ InstallOutput(p) \/ ReadOutput(p) \/ InstallLibrary(p)
        \/ InstallMeta(p) \/ InstallStops(p)

OfficeNext ==
    \/ Discover \/ ConvertFails \/ LinkFiles \/ SwitchRoute \/ OfficeExit \/ OfficeStops \/ Damage
    \/ \E s \in Sources : Provision(s)

ShaderSpec == ShaderInit /\ [][ExactNext \/ OfficeNext]_shaderVars

-----------------------------------------------------------------------------

(* An installation that finishes on its own leaves a usable pair, whatever   *)
(* an earlier one that died had left half replaced.                          *)
InstallRepairs ==
    \A p \in Installers \ overlap :
        install[p].pc = "meta" /\ install'[p].pc = "idle" /\ stops' = stops
            => store'.library = store'.meta

(* A route never points to a generation that is not linked completely: a     *)
(* converter, verifier or publication that fails or dies leaves the old      *)
(* route as it was.                                                          *)
RouteBacked ==
    \A s \in Sources : office.route[s] # 0 =>
        {<<office.route[s], "source">>, <<office.route[s], "translated">>} \subseteq office.files

(* The provisioner only reports success, which lets the boot skip it, when   *)
(* the route of every installed archive is valid.                            *)
SuccessProvisions == maker.pc = "exit0" => \A s \in Sources : cache_valid(s)
=============================================================================
