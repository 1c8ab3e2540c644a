----------------------------- MODULE FileStream -----------------------------
(***************************************************************************)
(* storage::File with the streams above it (src/src/storage/File.cpp,      *)
(* FileStream.cpp): a coroutine writes through a FileWriteStream, appends  *)
(* and truncates, and a FileReadStream then reads a range of the file,     *)
(* buffered or in whole blocks (direct I/O).                               *)
(*                                                                         *)
(* A byte is the number of its production; Hole is a byte nobody wrote.    *)
(***************************************************************************)
EXTENDS Integers, Sequences, SequencesExt, FiniteSets

CONSTANTS
    WriteChunk,     \* chunk_size_ of the write stream
    ReadChunks,     \* chunk sizes a read stream may have
    Starts,         \* start offsets of a read stream
    Limits,         \* max_bytes of a read stream; -1: none
    Block,          \* physical_block_size
    MaxBytes        \* bound: bytes produced

StreamAssumption ==
    /\ WriteChunk \in Nat \ {0} /\ Block \in Nat \ {0} /\ MaxBytes \in Nat
    /\ ReadChunks \subseteq Nat \ {0} /\ Starts \subseteq Nat
    /\ Limits \subseteq Nat \cup {-1}

VARIABLES
    file, append_offset_,
    wbuf, wpos,     \* FileWriteStream: buffered bytes, current_offset_
    pending,        \* what is left of the chunk in write_chunk()
    produced,       \* bytes produced so far
    accepted,       \* history: bytes copied into the write stream, in order
    mode, rchunk, start, limit,     \* the read stream's parameters
    rpos, remaining, eof_,          \* current_offset_, remaining_bytes_
    got,            \* history: what next_chunk() returned
    phase,          \* writing, reading, done (next_chunk returned nullopt)
    style           \* the owner writes through the stream, or with File::append

writer == <<file, append_offset_, wbuf, wpos, pending, produced, accepted>>
reader == <<mode, rchunk, start, limit, rpos, remaining, eof_, got>>
vars == <<writer, reader, phase, style>>

-----------------------------------------------------------------------------
Hole == 0
Least(a, b) == IF a < b THEN a ELSE b
Most(a, b) == IF a > b THEN a ELSE b
Range0(seq, from, n) == SubSeq(seq, from + 1, from + n)     \* n bytes at offset from
Fresh(n) == [i \in 1 .. n |-> produced + i]

TypeOK ==
    /\ file \in Seq(0 .. MaxBytes) /\ append_offset_ \in Nat
    /\ wbuf \in Seq(1 .. MaxBytes) /\ Len(wbuf) <= WriteChunk /\ wpos \in Nat
    /\ pending \in Seq(1 .. MaxBytes) /\ produced \in 0 .. MaxBytes
    /\ accepted \in Seq(1 .. MaxBytes)
    /\ mode \in {"none", "buffered", "direct"}
    /\ rchunk \in ReadChunks \cup {0} /\ start \in Starts \cup {0} /\ limit \in Limits \cup {0}
    /\ rpos \in Nat /\ remaining \in Nat \cup {-1} /\ eof_ \in BOOLEAN
    /\ got \in Seq(0 .. MaxBytes)
    /\ phase \in {"writing", "reading", "done"} /\ style \in {"stream", "append"}

Init ==
    /\ file = <<>> /\ append_offset_ = 0
    /\ wbuf = <<>> /\ wpos = 0 /\ pending = <<>> /\ produced = 0 /\ accepted = <<>>
    /\ mode = "none" /\ rchunk = 0 /\ start = 0 /\ limit = 0
    /\ rpos = 0 /\ remaining = 0 /\ eof_ = FALSE /\ got = <<>>
    /\ phase = "writing" /\ style \in {"stream", "append"}

-----------------------------------------------------------------------------
(***************************************************************************)
(* File                                                                    *)
(***************************************************************************)
\* the file after pwrite of data at offset o
Written(o, data) ==
    [i \in 1 .. Most(Len(file), o + Len(data)) |->
        IF i \in o + 1 .. o + Len(data) THEN data[i - o]
        ELSE IF i <= Len(file) THEN file[i] ELSE Hole]

\* write(): append_offset_ follows the furthest byte written
AfterWrite(o, n) == Most(append_offset_, o + n)

\* append(): write() has moved append_offset_ already
FileAppend ==
    /\ style = "append" /\ phase = "writing" /\ pending = <<>> /\ produced < MaxBytes
    /\ \E n \in 1 .. MaxBytes - produced :
           /\ file' = Written(append_offset_, Fresh(n))
           /\ append_offset_' = AfterWrite(append_offset_, n) + n
           /\ produced' = produced + n
    /\ UNCHANGED <<wbuf, wpos, pending, accepted, reader, phase, style>>

FileTruncate ==
    /\ style = "append" /\ phase = "writing" /\ pending = <<>>
    /\ \E n \in 0 .. Len(file) - 1 : file' = SubSeq(file, 1, n) /\ append_offset_' = n
    /\ UNCHANGED <<wbuf, wpos, pending, produced, accepted, reader, phase, style>>

(***************************************************************************)
(* FileWriteStream                                                         *)
(***************************************************************************)
WriteChunkCall ==
    /\ style = "stream" /\ phase = "writing" /\ pending = <<>>
    /\ \E n \in 1 .. MaxBytes - produced : pending' = Fresh(n) /\ produced' = produced + n
    /\ UNCHANGED <<file, append_offset_, wbuf, wpos, accepted, reader, phase, style>>

\* Mutant: the whole chunk is copied
CopyIn_Whole ==
    /\ pending # <<>> /\ Len(wbuf) < WriteChunk
    /\ wbuf' = wbuf \o pending /\ accepted' = accepted \o pending /\ pending' = <<>>
    /\ UNCHANGED <<file, append_offset_, wpos, produced, reader, phase, style>>

\* the memcpy of the loop in write_chunk()
CopyIn ==
    /\ pending # <<>> /\ Len(wbuf) < WriteChunk
    /\ LET take == Least(WriteChunk - Len(wbuf), Len(pending))
       IN  /\ wbuf' = wbuf \o SubSeq(pending, 1, take)
           /\ accepted' = accepted \o SubSeq(pending, 1, take)
           /\ pending' = SubSeq(pending, take + 1, Len(pending))
    /\ UNCHANGED <<file, append_offset_, wpos, produced, reader, phase, style>>

\* Mutant: the offset moves by a whole chunk, also after a part of one
Flushed_WholeChunk(n) == wpos + WriteChunk

Flushed(n) == wpos + n

\* flush(), by write_chunk() when the buffer is full or by the owner
Flush ==
    /\ phase = "writing" /\ wbuf # <<>>
    /\ Len(wbuf) = WriteChunk \/ pending = <<>>
    /\ file' = Written(wpos, wbuf)
    /\ append_offset_' = AfterWrite(wpos, Len(wbuf))
    /\ wpos' = Flushed(Len(wbuf))
    /\ wbuf' = <<>>
    /\ UNCHANGED <<pending, produced, accepted, reader, phase, style>>

\* write_all() throws after some bytes: the buffer stays for the next flush,
\* the rest of the chunk goes back to the caller
FlushFails ==
    /\ phase = "writing" /\ wbuf # <<>>
    /\ Len(wbuf) = WriteChunk \/ pending = <<>>
    /\ \E n \in 0 .. Len(wbuf) - 1 :
           /\ file' = Written(wpos, SubSeq(wbuf, 1, n))
           /\ append_offset_' = AfterWrite(wpos, n)
    /\ pending' = <<>>
    /\ UNCHANGED <<wbuf, wpos, produced, accepted, reader, phase, style>>

StartReading ==
    /\ phase = "writing" /\ wbuf = <<>> /\ pending = <<>>
    /\ phase' = "reading"
    /\ mode' \in {"buffered", "direct"} /\ rchunk' \in ReadChunks
    /\ start' \in Starts /\ rpos' = start'
    /\ limit' \in Limits /\ remaining' = limit'
    /\ UNCHANGED <<writer, eof_, got, style>>

(***************************************************************************)
(* FileReadStream::next_chunk                                              *)
(***************************************************************************)
\* Mutant: the limit is only tested when a chunk starts
ToRead_NoLimit == rchunk

ToRead == IF remaining > 0 /\ rchunk > remaining THEN remaining ELSE rchunk
Available(o) == Most(0, Len(file) - o)
Ended == eof_ \/ remaining = 0

EndOfStream ==
    /\ phase = "reading" /\ Ended
    /\ phase' = "done"
    /\ UNCHANGED <<writer, reader, style>>

\* what one chunk of len bytes at file offset o does to the stream
Deliver(o, len, last) ==
    /\ got' = got \o Range0(file, o, len)
    /\ rpos' = rpos + len
    /\ remaining' = IF remaining > 0 THEN remaining - len ELSE remaining
    /\ eof_' = last
    /\ phase' = phase

NextBuffered ==
    /\ phase = "reading" /\ ~Ended /\ mode = "buffered"
    /\ LET n == Least(ToRead, Available(rpos))
       IN  IF n = 0 THEN /\ eof_' = TRUE /\ phase' = "done"
                         /\ UNCHANGED <<rpos, remaining, got>>
                    ELSE Deliver(rpos, n, n < ToRead)
    /\ UNCHANGED <<writer, mode, rchunk, start, limit, style>>

\* Mutant: the chunk starts at the first byte of the first block
NextDirect_NoSkip ==
    /\ phase = "reading" /\ ~Ended /\ mode = "direct"
    /\ LET aligned_offset == (rpos \div Block) * Block
           raw_len == ((rpos - aligned_offset + ToRead + Block - 1) \div Block) * Block
           n == Least(raw_len, Available(aligned_offset))
       IN  IF n <= rpos - aligned_offset
           THEN eof_' = TRUE /\ phase' = "done" /\ UNCHANGED <<rpos, remaining, got>>
           ELSE Deliver(aligned_offset, Least(ToRead, n - (rpos - aligned_offset)), n < raw_len)
    /\ UNCHANGED <<writer, mode, rchunk, start, limit, style>>

\* reads whole blocks around the range; eof_ when the blocks came back short
NextDirect ==
    /\ phase = "reading" /\ ~Ended /\ mode = "direct"
    /\ LET aligned_offset == (rpos \div Block) * Block
           offset_in_block == rpos - aligned_offset
           raw_len == ((offset_in_block + ToRead + Block - 1) \div Block) * Block
           n == Least(raw_len, Available(aligned_offset))
       IN  IF n <= offset_in_block
           THEN eof_' = TRUE /\ phase' = "done" /\ UNCHANGED <<rpos, remaining, got>>
           ELSE Deliver(aligned_offset + offset_in_block, Least(ToRead, n - offset_in_block), n < raw_len)
    /\ UNCHANGED <<writer, mode, rchunk, start, limit, style>>

Finished == phase = "done" /\ UNCHANGED vars

Next ==
    \/ FileAppend \/ FileTruncate
    \/ WriteChunkCall \/ CopyIn \/ Flush \/ FlushFails
    \/ StartReading \/ EndOfStream \/ NextBuffered \/ NextDirect \/ Finished

Spec == Init /\ [][Next]_vars

-----------------------------------------------------------------------------
(***************************************************************************)
(* Properties                                                              *)
(***************************************************************************)
\* FileWriteStream neither loses, repeats nor reorders a byte it accepted,
\* also when a flush fails half way and is tried again.
WritesInOrder ==
    style = "stream" => wpos <= Len(file) /\ Range0(file, 0, wpos) \o wbuf = accepted

WholeBlocks == start % Block = 0 /\ rchunk % Block = 0

\* FileReadStream returns the bytes of its range from the first on, and says
\* end of file only after the last byte of the range.  A direct stream that
\* is not made of whole blocks loses what it read behind a chunk.
ReadsWholeRange ==
    /\ got = Range0(file, start, Len(got))
    /\ phase = "done" /\ (mode = "direct" => WholeBlocks) =>
          Len(got) = IF limit = -1 THEN Available(start) ELSE Least(limit, Available(start))

\* File::append puts its bytes at the end of the file, so no hole appears.
AppendsAtEnd == \A i \in DOMAIN file : file[i] # Hole
=============================================================================
