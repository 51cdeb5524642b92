---------------------------- MODULE StrayProfile ----------------------------
(* The INI editors that misc/stray_perf_loop.py runs on the device before  *)
(* a launch: GameUserSettings.ini by apply_quality_profile, Engine.ini by  *)
(* apply_engine_system_settings and remove_engine_system_settings.  A file *)
(* is a sequence of section headers, settings and other lines.             *)
EXTENDS Integers, Sequences, SequencesExt

CONSTANTS MaxLines      \* bound on the lines of a file before the edit

ASSUME ProfileAssumption == MaxLines \in Nat

VARIABLES
    before,     \* the file as UE left it
    file,       \* the file now
    wanted,     \* the settings asked for, as a function from keys
    edit        \* the editor's progress

profileVars == <<before, file, wanted, edit>>

Sections == {"System", "Scalability", "Game"}
Keys == {"sg", "fps"}
Section(name) == [kind |-> "section", name |-> name]
Setting(k, v) == [kind |-> "setting", name |-> k, value |-> v]
Blank == [kind |-> "blank"]
FileLines == {Section(n) : n \in Sections} \cup {Blank}
               \cup {Setting(k, v) : k \in Keys, v \in {"old", "new"}}

IsSetting(line, keys) == line.kind = "setting" /\ line.name \in keys

(* The header that line i of a file is under.                              *)
SectionAt(lines, i) ==
    LET headers == {j \in 1..i : lines[j].kind = "section"}
    IN  IF headers = {} THEN "none"
        ELSE lines[CHOOSE j \in headers : \A h \in headers : h <= j].name

(* values[key], for each key of a set, in some fixed order.                *)
Entries(values, keys) ==
    SetToSeq({Setting(k, values[k]) : k \in keys})

(* "if output and output[-1].strip(): output.append('\n')" and the header. *)
NewSection(lines, name, entries) ==
    (IF Len(lines) > 0 /\ lines[Len(lines)] # Blank THEN <<Blank>> ELSE <<>>)
      \o <<Section(name)>> \o entries

-----------------------------------------------------------------------------
(* apply_quality_profile: a key is replaced wherever it stands, a missing  *)
(* one is inserted after every header of its section.                      *)
Owner(key) == IF key = "sg" THEN "Scalability" ELSE "Game"

Found(lines, values) ==
    {k \in DOMAIN values : \E i \in DOMAIN lines : IsSetting(lines[i], {k})}

(* Mutant: a line that was replaced is inserted again.                     *)
MissingAll(lines, values) == DOMAIN values

Missing(lines, values) == DOMAIN values \ Found(lines, values)

(* The entries for the missing keys of a section.                          *)
Owned(lines, values, name) ==
    Entries(values, {k \in Missing(lines, values) : Owner(k) = name})

QualityLine(lines, values, i) ==
    IF IsSetting(lines[i], DOMAIN values)
    THEN <<Setting(lines[i].name, values[lines[i].name])>>
    ELSE IF lines[i].kind = "section"
    THEN <<lines[i]>> \o Owned(lines, values, lines[i].name)
    ELSE <<lines[i]>>

(* A section that the file lacks is added for the keys that it lacks.      *)
WithSection(output, lines, values, name) ==
    IF /\ Owned(lines, values, name) # <<>>
       /\ \A i \in DOMAIN lines : lines[i] # Section(name)
    THEN output \o NewSection(output, name, Owned(lines, values, name))
    ELSE output

ApplyQuality(lines, values) ==
    LET kept == FlattenSeq([i \in DOMAIN lines |-> QualityLine(lines, values, i)])
    IN  WithSection(WithSection(kept, lines, values, "Game"),
                    lines, values, "Scalability")

(* grep: the last line of a key, wherever it is.                           *)
ReadQuality(lines, keys) ==
    [k \in {k \in keys : \E i \in DOMAIN lines : IsSetting(lines[i], {k})} |->
       lines[CHOOSE i \in DOMAIN lines :
               /\ IsSetting(lines[i], {k})
               /\ \A j \in (i + 1)..Len(lines) : ~IsSetting(lines[j], {k})].value]

-----------------------------------------------------------------------------
(* Engine.ini: only [SystemSettings] counts.                               *)
IsSystem(lines, i, keys) ==
    IsSetting(lines[i], keys) /\ SectionAt(lines, i) = "System"

read_engine_system_settings(lines, keys) ==
    [k \in {k \in keys : \E i \in DOMAIN lines : IsSystem(lines, i, {k})} |->
       lines[CHOOSE i \in DOMAIN lines :
               /\ IsSystem(lines, i, {k})
               /\ \A j \in (i + 1)..Len(lines) : ~IsSystem(lines, j, {k})].value]

(* Mutant: the later lines of a key stay as they are.                      *)
EngineLineFirst(lines, values, i) ==
    IF /\ IsSystem(lines, i, DOMAIN values)
       /\ \A j \in 1..(i - 1) : ~IsSystem(lines, j, {lines[i].name})
    THEN <<Setting(lines[i].name, values[lines[i].name])>>
    ELSE <<lines[i]>>

(* The first line of a key is replaced and the others are dropped.         *)
EngineLine(lines, values, i) ==
    IF ~IsSystem(lines, i, DOMAIN values) THEN <<lines[i]>>
    ELSE IF \A j \in 1..(i - 1) : ~IsSystem(lines, j, {lines[i].name})
    THEN <<Setting(lines[i].name, values[lines[i].name])>>
    ELSE <<>>

(* The missing keys go below the first header.                             *)
BelowHeader(output, entries) ==
    LET at == {i \in DOMAIN output : output[i] = Section("System")}
        header == CHOOSE i \in at : \A j \in at : i <= j
    IN  IF at = {} THEN output \o NewSection(output, "System", entries)
        ELSE SubSeq(output, 1, header) \o entries
               \o SubSeq(output, header + 1, Len(output))

MissingSystem(lines, values) ==
    {k \in DOMAIN values : \A i \in DOMAIN lines : ~IsSystem(lines, i, {k})}

ApplyEngine(lines, values) ==
    LET output == FlattenSeq([i \in DOMAIN lines |-> EngineLine(lines, values, i)])
        missing == MissingSystem(lines, values)
    IN  IF missing = {} THEN output ELSE BelowHeader(output, Entries(values, missing))

(* Mutant: the whole section goes.                                         *)
RemoveSection(lines, keys) ==
    FlattenSeq([i \in DOMAIN lines |->
        IF SectionAt(lines, i) = "System" THEN <<>> ELSE <<lines[i]>>])

RemoveEngine(lines, keys) ==
    FlattenSeq([i \in DOMAIN lines |->
        IF IsSystem(lines, i, keys) THEN <<>> ELSE <<lines[i]>>])

-----------------------------------------------------------------------------
ProfileInit ==
    /\ before = <<>> /\ file = <<>> /\ wanted = <<>>
    /\ edit = [ini |-> "none", op |-> "none", read |-> <<>>]

OpenFile ==
    /\ edit.op = "none"
    /\ \E n \in 0..MaxLines : \E lines \in [1..n -> FileLines],
          keys \in (SUBSET Keys) \ {{}}, ini \in {"quality", "engine"} :
         /\ before' = lines /\ file' = lines
         /\ wanted' = [k \in keys |-> "new"]
         /\ edit' = [ini |-> ini, op |-> "open", read |-> <<>>]

(* The rewrite is one os.replace; what it wrote is then read back.         *)
Apply ==
    /\ edit.op \in {"open", "applied"}
    /\ file' = IF edit.ini = "quality" THEN ApplyQuality(file, wanted)
               ELSE ApplyEngine(file, wanted)
    /\ edit' = [edit EXCEPT
         !.op = IF @ = "open" THEN "applied" ELSE "again",
         !.read = IF edit.ini = "quality"
                  THEN ReadQuality(file', DOMAIN wanted)
                  ELSE read_engine_system_settings(file', DOMAIN wanted)]
    /\ UNCHANGED <<before, wanted>>

RemoveSettings ==
    /\ edit.op = "applied" /\ edit.ini = "engine"
    /\ file' = RemoveEngine(file, DOMAIN wanted)
    /\ edit' = [edit EXCEPT
         !.op = "removed",
         !.read = read_engine_system_settings(file', DOMAIN wanted)]
    /\ UNCHANGED <<before, wanted>>

ProfileOver == edit.op \in {"again", "removed"} /\ UNCHANGED profileVars

ProfileNext == OpenFile \/ Apply \/ RemoveSettings \/ ProfileOver

ProfileSpec == ProfileInit /\ [][ProfileNext]_profileVars

-----------------------------------------------------------------------------
(* The verification that follows an edit never fails: whatever the file    *)
(* held, duplicates and keys in another section included, what is read     *)
(* back is what was asked for, and nothing after a removal.                *)
EditVerifies ==
    /\ edit.op \in {"applied", "again"} => edit.read = wanted
    /\ edit.op = "removed" => edit.read = <<>>

(* The lines that are not about the keys an edit sets.                     *)
Others(lines) ==
    FlattenSeq([i \in DOMAIN lines |->
        IF IsSetting(lines[i], DOMAIN wanted) THEN <<>> ELSE <<lines[i]>>])

(* An edit keeps every line that is not about the keys it sets, in order:  *)
(* rewriting the user's settings file loses none of the user's settings.   *)
EditKeepsOthers ==
    edit.op # "none" => IsPrefix(Others(before), Others(file))

(* Applying the same profile twice changes nothing the second time, so     *)
(* that a sweep of runs does not let the file grow.                        *)
ApplySettles ==
    edit.op = "applied" /\ edit'.op = "again" => file' = file

(* An edit of the user's settings is read back by the game, keeps the      *)
(* other settings and settles, whatever the file looked like before.       *)
EditSound == [][EditVerifies' /\ EditKeepsOthers' /\ ApplySettles]_profileVars
=============================================================================
