---------------------------- MODULE StrayStreams ----------------------------
(* The three observers of misc/stray_perf_loop.py that follow a device     *)
(* process over SSH: RemoteRuntimeLogStream and RemoteGPUPowerStream keep  *)
(* the tail of a byte stream and answer by absolute offset;                *)
(* RemoteThermalStream reads lines and answers with a sample.  Bytes and   *)
(* lines are numbered in the order in which the device produced them.      *)
EXTENDS Integers, Sequences

CONSTANTS
    MaxProduced,    \* bound on what the device produces
    Window,         \* MAX_BYTES: how much a stream retains
    Quota           \* bytes that one _drain takes at most

(* 4 MiB of 32 MiB for the log, 1 MiB of 8 MiB for the power stream.       *)
ASSUME StreamAssumption ==
    /\ MaxProduced \in Nat
    /\ Quota \in Nat \ {0} /\ Window \in Nat
    /\ Quota < Window

VARIABLES
    produced,       \* bytes or lines the device has written
    arrived,        \* those that have reached the pipe
    start, end,     \* buffer_start, and buffer_start + len(buffer)
    scored,         \* the mark of the power stream: [mark, before] or none
    lines, held, latest,    \* thermal: fd, text buffer, self.latest
    answer          \* what the last call returned

streamVars == <<produced, arrived, start, end, scored, lines, held, latest, answer>>

Raise == [ok |-> FALSE]

StreamInit ==
    /\ produced = 0 /\ arrived = 0
    /\ start = 0 /\ end = 0
    /\ scored = Raise
    /\ lines = <<>> /\ held = <<>> /\ latest = 0
    /\ answer = Raise

Produce ==
    /\ produced < MaxProduced
    /\ produced' = produced + 1
    /\ UNCHANGED <<arrived, start, end, scored, lines, held, latest, answer>>

(* A line of the thermal stream takes the same way.                        *)
Arrive ==
    /\ arrived < produced
    /\ arrived' = arrived + 1
    /\ lines' = Append(lines, arrived + 1)
    /\ UNCHANGED <<produced, start, end, scored, held, latest, answer>>

-----------------------------------------------------------------------------

(* Mutant: the head is never discarded.                                    *)
DrainedWhole(b, upTo) ==
    [end |-> IF upTo - b.end > Quota THEN b.end + Quota ELSE upTo,
     start |-> b.start]

(* _drain: up to the quota, the head discarded past the window.            *)
Drained(b, upTo) ==
    LET last == IF upTo - b.end > Quota THEN b.end + Quota ELSE upTo
    IN  [end |-> last, start |-> IF last - b.start > Window THEN last - Window
                                 ELSE b.start]

Buffer == [start |-> start, end |-> end]

(* Python's buffer[from:] on a buffer that begins at b.start.              *)
SliceFrom(b, from) ==
    LET n == b.end - b.start
    IN  IF from >= 0 THEN b.start + from
        ELSE IF -from > n THEN b.start ELSE b.end + from

(* snapshot_from(offset): bytes that arrive during the second, longer      *)
(* drain are counted by more.                                              *)
snapshot_from ==
    \E offset \in 0..MaxProduced, more \in 0..(produced - arrived) :
      LET once == Drained(Buffer, arrived)
          ahead == offset - once.start > once.end - once.start
          twice == IF ahead THEN Drained(once, arrived + more) ELSE once
          from == offset - twice.start
      IN  /\ more > 0 => ahead
          /\ arrived' = arrived + more
          /\ lines' = lines \o [i \in 1..more |-> arrived + i]
          /\ start' = twice.start /\ end' = twice.end
          /\ answer' = IF offset < once.start \/ from > twice.end - twice.start
                       THEN Raise
                       ELSE [ok |-> TRUE, offset |-> offset,
                             first |-> SliceFrom(twice, from), last |-> twice.end]
          /\ UNCHANGED <<produced, scored, held, latest>>

(* Mutant: a single drain.                                                 *)
BacklogOnce == Drained(Buffer, arrived)

(* _drain_backlog: drains until nothing more comes.                        *)
_drain_backlog ==
    [end |-> arrived, start |-> IF arrived - start > Window
                                THEN arrived - Window ELSE start]

(* mark: the offset where the scored interval begins.                      *)
mark ==
    /\ start' = _drain_backlog.start /\ end' = _drain_backlog.end
    /\ scored' = [ok |-> TRUE, mark |-> _drain_backlog.end, before |-> arrived]
    /\ answer' = Raise
    /\ UNCHANGED <<produced, arrived, lines, held, latest>>

(* Mutant: the slice is taken without the test.                            *)
BehindNever(from) == FALSE
FellBehind(from) == from < 0

(* samples_since(mark).                                                    *)
samples_since ==
    /\ scored.ok
    /\ LET b == _drain_backlog
           from == scored.mark - b.start
       IN  /\ start' = b.start /\ end' = b.end
           /\ answer' = IF FellBehind(from) \/ from > b.end - b.start THEN Raise
                        ELSE [ok |-> TRUE, offset |-> scored.mark,
                              first |-> SliceFrom(b, from), last |-> b.end]
    /\ UNCHANGED <<produced, arrived, scored, lines, held, latest>>

-----------------------------------------------------------------------------
(* The loop of snapshot(): select looks at the pipe only, and readline     *)
(* gives what the text wrapper has read ahead first; the read of the pipe  *)
(* takes everything that waits there.  A round that leaves the pipe        *)
(* readable is followed by another one, up to 256 lines and the deadline.  *)
RoundsTaken == IF lines = <<>> THEN {0} ELSE 1..(Len(held) + 1)

ReadLines(n) ==
    [newest |-> IF n = 0 THEN 0 ELSE (held \o lines)[n],
     held |-> IF n <= Len(held) THEN SubSeq(held, n + 1, Len(held)) ELSE Tail(lines),
     lines |-> IF n <= Len(held) THEN lines ELSE <<>>]

(* Mutant: a call that finds nothing new forgets the last sample.          *)
NotRetained(newest) == newest

(* self.latest                                                             *)
Retained(newest) == IF newest # 0 THEN newest ELSE latest

thermal_snapshot ==
    \E n \in RoundsTaken :
      LET t == ReadLines(n)
          best == Retained(t.newest)
      IN  /\ lines' = t.lines /\ held' = t.held
          /\ latest' = best
          /\ answer' = IF best = 0 THEN Raise
                       ELSE [ok |-> TRUE, sample |-> best]
          /\ UNCHANGED <<produced, arrived, start, end, scored>>

StreamNext == \/ Produce \/ Arrive \/ snapshot_from \/ mark \/ samples_since
              \/ thermal_snapshot

StreamSpec == StreamInit /\ [][StreamNext]_streamVars

-----------------------------------------------------------------------------
(* Properties *)

Ranged == answer.ok /\ "first" \in DOMAIN answer

(* A follower keeps a bounded tail of what has arrived, and its offsets    *)
(* stay within what the device produced, however far it falls behind.      *)
StreamBounded ==
    /\ produced \in 0..MaxProduced /\ arrived \in 0..produced
    /\ start \in 0..end /\ end \in 0..arrived
    /\ end - start <= Window
    /\ latest \in 0..arrived

(* Evidence is byte-contiguous: a range that is returned begins at the     *)
(* offset that was asked for and ends at the end of the buffer; a window   *)
(* that has moved on, or moves on during the second drain, gives an error  *)
(* and never another range.                                                *)
EvidenceContiguous ==
    Ranged => answer.first = answer.offset /\ answer.last >= answer.first

(* Nothing that had arrived when the scored interval began is scored.      *)
BacklogNotScored == scored.ok => scored.mark >= scored.before

(* A reading is one of this run and readings never go back in time.        *)
ReadingsAdvance == latest' >= latest

(* What the readers of the log, power and thermal streams report as        *)
(* evidence is the range that was asked for, of the interval that is       *)
(* scored, and in the order in which it was written, although a reader     *)
(* falls behind a stream that is bounded and samples arrive late.          *)
EvidenceSound ==
    [][StreamBounded' /\ EvidenceContiguous' /\ BacklogNotScored' /\ ReadingsAdvance]_streamVars
=============================================================================
