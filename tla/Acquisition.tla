---------------------------- MODULE Acquisition ----------------------------
(***************************************************************************)
(* One rooted snapshot acquisition: readSnapshotWithOpenLimits of          *)
(* internal/audit/read_linux.go with the counting reader of root_linux.go. *)
(*                                                                         *)
(* The file is opened without following links, its size and times are      *)
(* taken, at most limit + 1 bytes are read, and size and times are         *)
(* compared with a second stat.  Meanwhile other programs write, truncate  *)
(* and re-stamp the file; the file system's clock advances in ticks, and a *)
(* change carries the tick it happened in.                                 *)
(***************************************************************************)
EXTENDS Naturals, Sequences, Charges

CONSTANTS
  FileLimit,    \* the configured per-file ceiling
  MaxSize,      \* bound: the longest file other programs make
  MaxChanges,   \* bound: changes by other programs
  MaxTicks      \* bound: ticks of the file system's clock

ASSUME LimitAssumption ==
  /\ FileLimit \in Nat \ {0}
  /\ MaxSize \in Nat /\ MaxChanges \in Nat /\ MaxTicks \in Nat

VARIABLES
  limit,     \* what this acquisition may take: what a corpus run has left, or FileLimit
  file,      \* kind, content (each byte names the change that wrote it), times
  clock,
  stage,     \* open, stat, read, settle or done
  before,    \* the file as the first stat saw it
  data,      \* the bytes read so far
  consumed,  \* *consumed
  result,    \* how the acquisition ended
  changes,   \* changes by other programs so far
  blurred,   \* one of them, while we read, fell in the tick of before's ctime
  peak       \* the largest size the file has had

snapshotVars == <<limit, file, clock, stage, before, data, consumed, result, changes, blurred, peak>>

Contents == UNION {[1..n -> 0..MaxChanges] : n \in 0..MaxSize}
Times == 0..MaxTicks

SnapshotInit ==
  /\ limit \in 1..FileLimit
  /\ \E n \in 0..MaxSize, kind \in {"regular", "other"} :
       /\ file = [kind |-> kind, content |-> [i \in 1..n |-> 0], mtime |-> 0, ctime |-> 0]
       /\ peak = n
  /\ clock = 0
  /\ stage = "open"
  /\ before = file
  /\ data = <<>>
  /\ consumed = 0
  /\ result = "none"
  /\ changes = 0
  /\ blurred = FALSE

---------------------------------------------------------------------------
\* The acquisition.

End(code) == stage' = "done" /\ result' = code
World == UNCHANGED <<limit, file, clock, changes, blurred, peak>>

\* Every component of the path is opened below the root; any of these calls can fail.
Open ==
  /\ stage = "open"
  /\ \/ stage' = "stat" /\ UNCHANGED result
     \/ End("io")
  /\ UNCHANGED <<before, data, consumed>>
  /\ World

StatBefore ==
  /\ stage = "stat"
  /\ \/ End("io") /\ UNCHANGED before
     \/ /\ before' = file
        /\ IF file.kind # "regular" THEN End("not_regular")
           ELSE IF Len(file.content) > FileLimit THEN End("too_large")
           ELSE IF Len(file.content) > limit THEN End("resource_limit")
           ELSE stage' = "read" /\ UNCHANGED result
  /\ UNCHANGED <<data, consumed>>
  /\ World

\* io.LimitReader: the sentinel byte shows that the file is longer than limit.
Quota == limit + 1

\* One Read: some of the bytes that stand at the offset, within the quota.
Read ==
  /\ stage = "read"
  /\ Len(data) < Quota
  /\ \/ \E n \in 1..(Quota - Len(data)) :
          /\ Len(data) + n <= Len(file.content)
          /\ data' = data \o SubSeq(file.content, Len(data) + 1, Len(data) + n)
          /\ consumed' = consumed + n
          /\ UNCHANGED <<stage, result>>
     \/ End("io") /\ UNCHANGED <<data, consumed>>
  /\ UNCHANGED before
  /\ World

\* The end of the file, or of the quota.
ReadEnds ==
  /\ stage = "read"
  /\ Len(data) >= Quota \/ Len(data) >= Len(file.content)
  /\ stage' = "settle"
  /\ UNCHANGED <<before, data, consumed, result>>
  /\ World

\* Mutant of Unchanged: the change time is not compared.
UnchangedByMtime ==
  Len(file.content) = Len(before.content) /\ file.mtime = before.mtime

Unchanged ==
  /\ Len(file.content) = Len(before.content)
  /\ file.mtime = before.mtime
  /\ file.ctime = before.ctime

\* Mutant of Oversize: what exceeds the limit always counts as a file too large.
OversizeAlways == "too_large"

\* More than the limit was there: whose limit it was decides the code.
Oversize == IF limit < FileLimit THEN "resource_limit" ELSE "too_large"

\* Mutant of Verdict: the stats are compared before the length is looked at.
VerdictChangedFirst ==
  IF ~Unchanged THEN "changed" ELSE IF Len(data) > limit THEN Oversize ELSE "ok"

\* The verdict on what was read.
Verdict ==
  IF Len(data) > limit THEN Oversize ELSE IF Unchanged THEN "ok" ELSE "changed"

\* The second stat.
Settle ==
  /\ stage = "settle"
  /\ End("io") \/ End(Verdict)
  /\ UNCHANGED <<before, data, consumed>>
  /\ World

---------------------------------------------------------------------------
\* Other programs, and time.

Change(content, mtime) ==
  /\ stage # "done"
  /\ changes < MaxChanges
  /\ changes' = changes + 1
  /\ file' = [file EXCEPT !.content = content, !.mtime = mtime, !.ctime = clock]
  /\ peak' = IF Len(content) > peak THEN Len(content) ELSE peak
  /\ blurred' = (\/ blurred
                 \/ stage \in {"read", "settle"} /\ clock = before.ctime)
  /\ UNCHANGED <<limit, clock, stage, before, data, consumed, result>>

Overwrite ==
  \E i \in 1..Len(file.content) :
    Change([file.content EXCEPT ![i] = changes + 1], clock)
Extend ==
  /\ Len(file.content) < MaxSize
  /\ Change(Append(file.content, changes + 1), clock)
Truncate ==
  \E n \in 0..(Len(file.content) - 1) :
    Change(SubSeq(file.content, 1, n), clock)
\* utimes can set the modification time to anything; the change time tells.
SetTimes ==
  \E t \in 0..clock : Change(file.content, t)

Tick ==
  /\ stage # "done"
  /\ clock < MaxTicks
  /\ clock' = clock + 1
  /\ UNCHANGED <<limit, file, stage, before, data, consumed, result, changes, blurred, peak>>

AcquireSteps == Open \/ StatBefore \/ Read \/ ReadEnds \/ Settle
Others == Overwrite \/ Extend \/ Truncate \/ SetTimes \/ Tick
SnapshotNext == AcquireSteps \/ Others
SnapshotSpec == SnapshotInit /\ [][SnapshotNext]_snapshotVars

---------------------------------------------------------------------------
\* Properties

\* Accepted evidence is the file as it stood at the first stat, whatever was written,
\* truncated or re-stamped while it was read.  The exception is the clock's: a
\* change in the very tick of the change time already seen leaves no trace.
SnapshotConsistent ==
  result = "ok" /\ ~blurred => data = before.content

\* A code tells the truth: too_large is reserved for files above the configured
\* ceiling, resource_limit for files above a smaller allowance, and changed for
\* files somebody changed (read_linux.go:53-58 and 67-75).
CodesTellTruth ==
  /\ result = "too_large" => peak > FileLimit
  /\ result = "resource_limit" => limit < FileLimit /\ peak > limit
  /\ result = "changed" => changes > 0

\* The bytes charged and the code are among those a caller expects, and at no time
\* has more been read than the allowance and its sentinel.
ChargeExpected ==
  /\ consumed <= limit + 1
  /\ stage = "done" => [code |-> result, charge |-> consumed] \in Charges(limit, FileLimit)
=============================================================================
