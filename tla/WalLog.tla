------------------------------- MODULE WalLog -------------------------------
(***************************************************************************)
(* The write-ahead log (src/src/storage/WalLog.cpp) on a file whose        *)
(* unsynced cells may be lost one by one in a crash.                       *)
(*                                                                         *)
(* The file is a sequence of cells.  A record of length n takes one header *)
(* cell and n payload cells; id stands for the payload's contents, so the  *)
(* checksum of a record matches exactly the cells of its own payload.      *)
(***************************************************************************)
EXTENDS Integers, Sequences, SequencesExt, FiniteSets

CONSTANTS
    Writers,        \* coroutines that share the log
    MaxAppends,     \* bound: appends started
    MaxLength,      \* bound: payload cells of a record
    MaxCrashes      \* bound: crashes and reopenings

WalAssumption ==
    MaxAppends \in Nat /\ MaxLength \in Nat /\ MaxCrashes \in Nat

VARIABLES
    file,           \* what a read returns
    disk,           \* what is on the medium
    last_seq_, append_offset_,
    job,            \* writer -> the write_all in progress, or None
    appends, crashes,
    log,            \* history: recovered, then acknowledged records
    synced,         \* history: the log at the last sync
    raced           \* history: two appends were under way at once

vars == <<file, disk, last_seq_, append_offset_, job, appends, crashes, log, synced, raced>>

-----------------------------------------------------------------------------
Zero == [k |-> "zero", id |-> 0, seq |-> 0, len |-> 0]
Header(id, seq, len) == [k |-> "header", id |-> id, seq |-> seq, len |-> len]
PayloadCell(id, i) == [k |-> "payload", id |-> id, seq |-> 0, len |-> i]
Buffer(h) == <<h>> \o [i \in 1 .. h.len |-> PayloadCell(h.id, i)]
Cells ==
    {Zero} \cup [k : {"header"}, id : 1 .. MaxAppends, seq : 1 .. MaxAppends, len : 0 .. MaxLength]
           \cup [k : {"payload"}, id : 1 .. MaxAppends, seq : {0}, len : 1 .. MaxLength]
None == [h |-> Zero, off |-> 0, total |-> 0]
Records(hs) == {hs[i] : i \in DOMAIN hs}

TypeOK ==
    /\ file \in Seq(Cells) /\ disk \in Seq(Cells)
    /\ last_seq_ \in 0 .. MaxAppends
    /\ append_offset_ \in 0 .. MaxAppends * (MaxLength + 1)
    /\ raced \in BOOLEAN
    /\ \A w \in Writers : job[w] = None \/ /\ job[w].h \in Cells /\ job[w].h.k = "header"
                                           /\ job[w].off \in 0 .. MaxAppends * (MaxLength + 1)
                                           /\ job[w].total \in 0 .. job[w].h.len + 1
    /\ appends \in 0 .. MaxAppends /\ crashes \in 0 .. MaxCrashes
    /\ log \in Seq(Cells) /\ synced \in Seq(Cells)

Init ==
    /\ file = <<>> /\ disk = <<>>
    /\ last_seq_ = 0 /\ append_offset_ = 0
    /\ job = [w \in Writers |-> None]
    /\ appends = 0 /\ crashes = 0
    /\ log = <<>> /\ synced = <<>>
    /\ raced = FALSE

-----------------------------------------------------------------------------
(***************************************************************************)
(* recover(): the records from offset 0 up to the first that is not whole. *)
(* The checksum covers the payload only and is not tested when it is empty.*)
(***************************************************************************)
\* Mutant: a record that runs past the end of the file is accepted
Whole_NoBound(cells, o) ==
    /\ o <= Len(cells) /\ cells[o].k = "header"
    /\ \A i \in 1 .. cells[o].len : o + i <= Len(cells) => cells[o + i] = PayloadCell(cells[o].id, i)

\* Mutant: the checksum is not compared
Whole_NoChecksum(cells, o) ==
    /\ o <= Len(cells) /\ cells[o].k = "header" /\ o + cells[o].len <= Len(cells)

Whole(cells, o) ==
    /\ o <= Len(cells) /\ cells[o].k = "header" /\ o + cells[o].len <= Len(cells)
    /\ \A i \in 1 .. cells[o].len : cells[o + i] = PayloadCell(cells[o].id, i)

Recovered(cells) ==
    LET from[o \in 1 .. Len(cells) + MaxLength + 1] ==
            IF Whole(cells, o) THEN <<cells[o]>> \o from[o + 1 + cells[o].len] ELSE <<>>
    IN  from[1]

EndOf(hs) == FoldLeft(LAMBDA o, h : o + 1 + h.len, 0, hs)
MaxSeq(hs) == FoldLeft(LAMBDA m, h : IF h.seq > m THEN h.seq ELSE m, 0, hs)

\* Mutant: append_offset_ is not set from the recovered records
OpenOn_NoOffset(cells) ==
    LET hs == Recovered(cells)
    IN  /\ file' = cells /\ log' = hs
        /\ last_seq_' = MaxSeq(hs) /\ append_offset_' = 0

\* Mutant: last_seq_ starts from zero again
OpenOn_NoSequence(cells) ==
    LET hs == Recovered(cells)
    IN  /\ file' = cells /\ log' = hs
        /\ last_seq_' = 0 /\ append_offset_' = EndOf(hs)

\* open(): last_seq_ and append_offset_ come from recover(); an empty file
\* has neither, which is what recover() would find
OpenOn(cells) ==
    LET hs == Recovered(cells)
    IN  /\ file' = cells /\ log' = hs
        /\ last_seq_' = MaxSeq(hs) /\ append_offset_' = EndOf(hs)

(***************************************************************************)
(* append(): the sequence number and the offset are read before the first  *)
(* await, append_offset_ moves after the last.                             *)
(***************************************************************************)
AppendStart(w) ==
    /\ job[w] = None /\ appends < MaxAppends
    /\ \E n \in 0 .. MaxLength :
           job' = [job EXCEPT ![w] = [h |-> Header(appends + 1, last_seq_ + 1, n), off |-> append_offset_, total |-> 0]]
    /\ last_seq_' = last_seq_ + 1
    /\ appends' = appends + 1
    /\ raced' = (raced \/ \E v \in Writers : job[v] # None)
    /\ UNCHANGED <<file, disk, append_offset_, crashes, log, synced>>

\* pwrite: what it leaves out behind the end of the file reads as zeros
WriteAt(cells, o, c) ==
    [i \in 1 .. Max({Len(cells), o}) |->
        IF i = o THEN c ELSE IF i <= Len(cells) THEN cells[i] ELSE Zero]

\* a write of write_all(); the kernel may take one cell at a time
WriteCell(w) ==
    LET j == job[w]
    IN  /\ j # None /\ j.total <= j.h.len
        /\ file' = WriteAt(file, j.off + j.total + 1, Buffer(j.h)[j.total + 1])
        /\ job' = [job EXCEPT ![w].total = @ + 1]
        /\ UNCHANGED <<disk, last_seq_, append_offset_, appends, crashes, log, synced, raced>>

AppendDone(w) ==
    /\ job[w] # None /\ job[w].total = job[w].h.len + 1
    /\ append_offset_' = append_offset_ + job[w].h.len + 1
    /\ log' = Append(log, job[w].h)
    /\ job' = [job EXCEPT ![w] = None]
    /\ UNCHANGED <<file, disk, last_seq_, appends, crashes, synced, raced>>

\* write_all() throws: the number is spent, the offset stays
AppendFails(w) ==
    /\ job[w] # None /\ job[w].total <= job[w].h.len
    /\ job' = [job EXCEPT ![w] = None]
    /\ UNCHANGED <<file, disk, last_seq_, append_offset_, appends, crashes, log, synced, raced>>

Sync ==
    /\ disk' = file /\ synced' = log
    /\ UNCHANGED <<file, last_seq_, append_offset_, job, appends, crashes, log, raced>>

-----------------------------------------------------------------------------
OnDisk(i) == IF i <= Len(disk) THEN disk[i] ELSE Zero

\* what a crash may leave: every unsynced cell is the old or the new one
Unsynced(n) == {i \in 1 .. n : OnDisk(i) # file[i]}
Image(n, lost) == [i \in 1 .. n |-> IF i \in lost THEN OnDisk(i) ELSE file[i]]

Crash ==
    /\ crashes < MaxCrashes
    /\ \E n \in Len(disk) .. Len(file) : \E lost \in SUBSET Unsynced(n) :
           OpenOn(Image(n, lost)) /\ disk' = Image(n, lost)
    /\ job' = [w \in Writers |-> None]
    /\ crashes' = crashes + 1
    /\ UNCHANGED <<appends, synced, raced>>

\* close() and open() with nothing in flight
Reopen ==
    /\ crashes < MaxCrashes
    /\ \A w \in Writers : job[w] = None
    /\ OpenOn(file)
    /\ crashes' = crashes + 1
    /\ UNCHANGED <<disk, job, appends, synced, raced>>

Next ==
    \/ \E w \in Writers : AppendStart(w) \/ WriteCell(w) \/ AppendDone(w) \/ AppendFails(w)
    \/ Sync \/ Crash \/ Reopen

Spec == Init /\ [][Next]_vars

-----------------------------------------------------------------------------
(***************************************************************************)
(* Properties                                                              *)
(***************************************************************************)
\* append() and recover() report only records that are in the file, whole,
\* one behind the other from offset 0, also after a torn or failed write.  The
\* exception is a log on which two coroutines were in append() at once: both
\* write at append_offset_.
LogInFile ==
    LET image == FlattenSeq([i \in DOMAIN log |-> Buffer(log[i])])
    IN  raced \/ (append_offset_ <= Len(file) /\ IsPrefix(image, file))

\* recover() after any crash returns, in order and first, every record that
\* was acknowledged before a sync(), with the same exception.
SyncedSurvives == raced \/ IsPrefix(synced, log)

\* append() returns a number no record of the log has, also with two coroutines
\* in append(), across crashes, reopenings and failed writes; appended one
\* after another, the numbers grow.
NumberStep ==
    crashes' = crashes =>
        \A h \in Records(log') \ Records(log) : \A g \in Records(log) :
            IF raced THEN g.seq # h.seq ELSE g.seq < h.seq
NumbersGrow == [][NumberStep]_vars
=============================================================================
