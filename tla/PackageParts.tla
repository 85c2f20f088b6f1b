--------------------------- MODULE PackageParts ---------------------------
(***************************************************************************)
(* Reading a document package: directory and Read of                       *)
(* packageparts/read.go.  A ZIP file says twice what it holds, in its       *)
(* central directory and in front of every entry's data; the reader takes  *)
(* it only if the two agree, and if the entries with their headers and     *)
(* descriptors cover the file up to the directory without gap or overlap.  *)
(*                                                                         *)
(* Positions and lengths are in units in which a local header and a data   *)
(* descriptor are one long, a signature that may precede it one more.      *)
(* locals[p] is what stands at p when it is read as a local header.        *)
(***************************************************************************)
EXTENDS Naturals, Sequences, FiniteSets, SequencesExt

CONSTANTS
    NoHeader, Signature,
    OfferedFile(_),     \* is this an acquired file?
    MaxEntries, MaxPart, MaxTotal

ASSUME LimitsAssumption == MaxTotal \in Nat

VARIABLES archive, index, total, spans, parts, stage
readVars == <<archive, index, total, spans, parts, stage>>

\* Positions and sizes are read as unsigned numbers.
Archive(a) ==
    /\ a.central \in Nat /\ a.entries \in Seq(Range(a.entries))
    /\ \A e \in Range(a.entries) : e.at \in Nat /\ e.compressed \in Nat /\ e.size \in Nat

ReadInit ==
    /\ OfferedFile(archive) /\ Archive(archive)
    /\ index = 1 /\ total = 0 /\ spans = <<>> /\ parts = {} /\ stage = "directory"

Entries == archive.entries
Local(e) == archive.locals[e.at]
DataOffset(e) == e.at + 1
DataEnd(e) == DataOffset(e) + e.compressed

Refuse == stage' = "refused" /\ UNCHANGED <<archive, index, total, spans, parts>>
Goto(l) == stage' = l /\ index' = 1 /\ UNCHANGED <<archive, total, spans, parts>>

----------------------------------------------------------------------------
\* directory: the end record's count is compared with the records counted.
DirectoryStands ==
    /\ archive.declared <= MaxEntries /\ Len(Entries) <= MaxEntries
    /\ Len(Entries) = archive.declared
Directory ==
    /\ stage = "directory"
    /\ IF DirectoryStands THEN Goto("headers") ELSE Refuse

\* A name is a sequence of segments; a directory's ends in a slash.
NewName(e) == \A i \in 1..(index - 1) : Entries[i].name # e.name

Affordable(e) == e.size <= MaxPart /\ e.size <= MaxTotal - total

\* An entry's central record by itself.
CentralStands(e) ==
    /\ e.valid /\ NewName(e)
    /\ e.supported
    /\ Affordable(e)
    /\ e.directory => e.size = 0 /\ e.compressed = 0 /\ e.crc = 0
    /\ DataEnd(e) <= archive.central

\* The local header agrees; with a descriptor its fields may still be zero.
Agrees(field, central, streamed) == field = central \/ (streamed /\ field = 0)
LocalStands(e) ==
    /\ Local(e) # NoHeader
    /\ Local(e).name = e.name /\ Local(e).directory = e.directory
    /\ Local(e).streamed = e.streamed
    /\ Agrees(Local(e).crc, e.crc, e.streamed)
    /\ Agrees(Local(e).compressed, e.compressed, e.streamed)
    /\ Agrees(Local(e).size, e.size, e.streamed)

\* The descriptor after the data, its signature optional.
Signed(e) == DataEnd(e) < archive.central /\ archive.marks[DataEnd(e)] = Signature
DescriptorAt(e) == DataEnd(e) + (IF Signed(e) THEN 1 ELSE 0)
DescriptorStands(e) ==
    e.streamed => DescriptorAt(e) < archive.central /\ archive.marks[DescriptorAt(e)] = e.crc

\* Mutant of End: the descriptor is not counted as the entry's.
EndOfData(e) == DataEnd(e)
End(e) == IF e.streamed THEN DescriptorAt(e) + 1 ELSE DataEnd(e)

ReadHeader ==
    /\ stage = "headers" /\ index <= Len(Entries)
    /\ LET e == Entries[index] IN
          IF CentralStands(e) /\ LocalStands(e) /\ DescriptorStands(e)
          THEN /\ total' = total + e.size
               /\ spans' = Append(spans, [start |-> e.at, end |-> End(e)])
               /\ index' = index + 1
               /\ UNCHANGED <<archive, parts, stage>>
          ELSE Refuse

\* No file is the directory of another entry.
NamesStand ==
    \A e, f \in Range(Entries) : IsStrictPrefix(f.name, e.name) => f.directory

\* The spans sorted by their starts leave no gap: none of them is empty, so an
\* order in which each begins where the one before it ends is the sorted one.
Before(order, i) == IF i = 1 THEN 0 ELSE spans[order[i - 1]].end
Contiguous ==
    \E order \in Bijection(DOMAIN spans, DOMAIN spans) :
        /\ \A i \in DOMAIN spans : spans[order[i]].start = Before(order, i)
        /\ Before(order, Len(spans) + 1) = archive.central
Layout ==
    /\ stage = "headers" /\ index > Len(Entries)
    /\ IF NamesStand /\ Contiguous THEN Goto("contents") ELSE Refuse

\* What inflating an entry yields is read to one byte beyond its size.  The
\* parts are returned in the order of their names.
ReadPart ==
    /\ stage = "contents" /\ index <= Len(Entries)
    /\ LET e == Entries[index] IN
          IF e.yields = e.size
          THEN /\ parts' = parts \cup {[name |-> e.name, directory |-> e.directory,
                     from |-> DataOffset(e), until |-> DataEnd(e), size |-> e.yields]}
               /\ index' = index + 1
               /\ UNCHANGED <<archive, total, spans, stage>>
          ELSE Refuse

Return == stage = "contents" /\ index > Len(Entries) /\ Goto("returned")

\* The context ends between two entries or within a part; nothing is returned.
CancelRead ==
    /\ stage \in {"headers", "contents"}
    /\ stage' = "canceled" /\ parts' = {} /\ UNCHANGED <<archive, index, total, spans>>

ReadNext == Directory \/ ReadHeader \/ Layout \/ ReadPart \/ Return \/ CancelRead
ReadSpec == ReadInit /\ [][ReadNext]_readVars

----------------------------------------------------------------------------
\* The bytes an entry's header, data and descriptor occupy.
Occupied(e) ==
    e.at..(DataEnd(e) - 1) \cup (IF e.streamed THEN DataEnd(e)..DescriptorAt(e) ELSE {})

(* A package that is returned accounts for every byte before the central   *)
(* directory by exactly one entry, so nothing is hidden between or under   *)
(* the parts; a name leads to one part only, never to a file and through   *)
(* it to another part; and what was inflated, summed entry by entry, stays *)
(* within the limit (packageparts.Read).                                   *)
BytesClaimedOnce ==
    stage = "returned" =>
        /\ \A b \in 0..(archive.central - 1) :
              \E i \in DOMAIN Entries : \A j \in DOMAIN Entries :
                  b \in Occupied(Entries[j]) <=> j = i
        /\ Cardinality(parts) = Len(Entries)
        /\ \A p, q \in parts : p # q =>
              /\ p.name # q.name
              /\ p.until <= q.from \/ q.until <= p.from
              /\ IsStrictPrefix(p.name, q.name) => p.directory
        /\ \E sums \in [0..Len(Entries) -> 0..MaxTotal] : sums[0] = 0 /\
              \A i \in DOMAIN Entries : sums[i] = sums[i - 1] + Entries[i].yields
=============================================================================
