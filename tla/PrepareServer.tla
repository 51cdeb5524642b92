---------------------------- MODULE PrepareServer ----------------------------
(* prepare_ventura_windowserver.py: extract the verified ARM64/E slice of    *)
(* the universal WindowServer, mark it ARM64/ALL and publish it through a    *)
(* temporary file and os.replace.  Runs of the tool (package installation    *)
(* and boot preparation) may overlap, be killed between any two steps, and   *)
(* get the process number of a run that died.                                *)
EXTENDS Naturals, FiniteSets

CONSTANTS Preparers,          \* overlapping runs of the tool
          Numbers,            \* process numbers, reused
          MaxPreparersKilled  \* bound: runs killed between two steps

ASSUME PrepareAssumption ==
  /\ MaxPreparersKilled \in Nat
  /\ IsFiniteSet(Numbers) /\ "none" \notin Numbers

VARIABLES server,   \* the image at the path
          temps,    \* temporary files by process number: "none" or contents
          prep,     \* per run: its stage, number, check mode, what it read
          prepKilled

serverVars == <<server, temps, prep, prepKilled>>

(* An image by what preparation_state tells apart; "partial" is a prefix of  *)
(* a valid one.                                                              *)
ServerImages == {"universal", "ready", "thinE", "foreign", "noslice", "partial"}

(* preparation_state: only the verified UUID, thin ARM64/ALL or universal    *)
(* with an ARM64/E slice, is accepted.                                       *)
preparation_state(image) ==
  CASE image = "ready" -> "ready"
    [] image = "universal" -> "needs-conversion"
    [] OTHER -> "error"

(* prepare_bytes, with its postcondition on the converted image. *)
prepare_bytes(image) ==
  IF preparation_state(image) = "needs-conversion" THEN "ready" ELSE image

Free == {n \in Numbers : \A r \in Preparers : prep[r].number # n}

ServerInit ==
  /\ server \in ServerImages \ {"partial"}
  /\ temps = [n \in Numbers |-> "none"]
  /\ prep = [r \in Preparers |-> [stage |-> "new", number |-> "none", check |-> FALSE,
                                  read |-> "none", rc |-> 0]]
  /\ prepKilled = 0

PrepareGoes(r, stage) == prep' = [prep EXCEPT ![r].stage = stage]
PrepareEnds(r, code) ==
  prep' = [prep EXCEPT ![r].stage = "done", ![r].rc = code, ![r].number = "none"]

(* main: read the image and classify it; --check never converts. *)
ReadImage(r) ==
  /\ prep[r].stage = "new"
  /\ \E n \in Free, c \in BOOLEAN :
       LET state == preparation_state(server) IN
       prep' = [prep EXCEPT ![r] =
         CASE state = "ready" -> [@ EXCEPT !.stage = "done", !.rc = 0]
           [] state = "error" -> [@ EXCEPT !.stage = "done", !.rc = 2]
           [] OTHER -> IF c THEN [@ EXCEPT !.stage = "done", !.rc = 1]
                       ELSE [@ EXCEPT !.stage = "create", !.number = n,
                                      !.read = server]]
  /\ UNCHANGED <<server, temps, prepKilled>>

(* open(temporary, "xb"): a file left by a dead run with this number fails   *)
(* the run, whose finally clause removes it.                                 *)
CreateTemp(r) ==
  /\ prep[r].stage = "create"
  /\ LET n == prep[r].number IN
     IF temps[n] = "none"
     THEN temps' = [temps EXCEPT ![n] = "partial"] /\ PrepareGoes(r, "write")
     ELSE PrepareGoes(r, "failed") /\ UNCHANGED temps
  /\ UNCHANGED <<server, prepKilled>>

(* Mutant: the bytes are not written out before the name is published. *)
WrittenEarly(r) == "partial"

Written(r) == prepare_bytes(prep[r].read)

(* write, flush and fsync; a full disk or an I/O error fails the run. *)
WriteTemp(r) ==
  /\ prep[r].stage = "write"
  /\ \/ /\ temps' = [temps EXCEPT ![prep[r].number] = Written(r)]
        /\ PrepareGoes(r, "replace")
     \/ PrepareGoes(r, "failed") /\ UNCHANGED temps
  /\ UNCHANGED <<server, prepKilled>>

(* chmod, chown and os.replace, then the unlink of the finally clause, which *)
(* finds no file.                                                            *)
ReplaceServer(r) ==
  /\ prep[r].stage = "replace"
  /\ LET n == prep[r].number IN
     \/ /\ server' = temps[n] /\ temps' = [temps EXCEPT ![n] = "none"]
        /\ PrepareEnds(r, 0)
     \/ PrepareGoes(r, "failed") /\ UNCHANGED <<server, temps>>
  /\ UNCHANGED prepKilled

(* Mutant: a failed run leaves its temporary file. *)
LeavesTemp(r) == temps

(* The finally clause: os.unlink(temporary). *)
Unlinked(r) == [temps EXCEPT ![prep[r].number] = "none"]

FailRun(r) ==
  /\ prep[r].stage = "failed"
  /\ temps' = Unlinked(r)
  /\ PrepareEnds(r, 2)
  /\ UNCHANGED <<server, prepKilled>>

(* A kill or a power loss: the temporary file stays; the caller runs the     *)
(* tool again at the next boot.                                              *)
Kill(r) ==
  /\ prep[r].stage \in {"create", "write", "replace", "failed"}
  /\ prepKilled < MaxPreparersKilled
  /\ prepKilled' = prepKilled + 1
  /\ prep' = [prep EXCEPT ![r].stage = "new", ![r].number = "none"]
  /\ UNCHANGED <<server, temps>>

RunStep(r) ==
  \/ ReadImage(r) \/ CreateTemp(r) \/ WriteTemp(r) \/ ReplaceServer(r) \/ FailRun(r)

ServerNext == \E r \in Preparers : RunStep(r) \/ Kill(r)

ServerSpec == ServerInit /\ [][ServerNext]_serverVars

-----------------------------------------------------------------------------
(* replace_atomically: whatever is killed or overlaps, the path never holds  *)
(* a half-written image, and a run that reported success (the caller then    *)
(* signs and trusts the image) leaves the verified one.                      *)
ServerWhole ==
  /\ server # "partial"
  /\ \A r \in Preparers : prep[r].stage = "done" /\ prep[r].rc = 0 => server = "ready"

(* A temporary file outlives its run only when a run was killed: every other *)
(* exit of replace_atomically removes it.                                    *)
TempsOwned ==
  Cardinality({n \in Numbers : /\ temps[n] # "none"
                               /\ \A r \in Preparers : prep[r].number # n}) <= prepKilled
=============================================================================
