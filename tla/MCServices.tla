----------------------------- MODULE MCServices -----------------------------
(***************************************************************************)
(* The logger, the in-process store, the write-ahead log and the file      *)
(* streams in one run.  A behaviour is one of the logger, of a store of    *)
(* two entries that a single coroutine fills ("lru"), of a store of one    *)
(* entry that two coroutines share ("shared"), of a log with one writer    *)
(* ("wal") or two ("appends"), or of the streams.  The logger has its own  *)
(* variables, and is as it starts in the other parts; these share the      *)
(* variables x1 to x17: a part has the first of them for its own, in the   *)
(* order of its declaration, and the others are 0.                         *)
(***************************************************************************)
EXTENDS Logger

CONSTANTS p1, a1, k1, k2, k3, c1, c2, w1, w2

VARIABLES
    part,
    x1, x2, x3, x4, x5, x6, x7, x8, x9, x10,
    x11, x12, x13, x14, x15, x16, x17

Lru == INSTANCE MemStore WITH
    Clients <- {c1}, Keys <- {k1, k2, k3}, Lists <- {<<k1, k2>>}, MaxEntries <- 2, MaxOps <- 3,
    MaxTime <- 1, queue_ <- x1, stop_flag_ <- x2, thread <- x3, batch <- x4, last <- x5,
    store_ <- x6, lru_list_ <- x7, now <- x8, client <- x9, req <- x10, notified <- x11,
    ops <- x12, version <- x13, acked <- x14, used <- x15
Shared == INSTANCE MemStore WITH
    Clients <- {c1, c2}, Keys <- {k1, k2}, Lists <- {}, MaxEntries <- 1, MaxOps <- 3,
    MaxTime <- 0, queue_ <- x1, stop_flag_ <- x2, thread <- x3, batch <- x4, last <- x5,
    store_ <- x6, lru_list_ <- x7, now <- x8, client <- x9, req <- x10, notified <- x11,
    ops <- x12, version <- x13, acked <- x14, used <- x15
Wal == INSTANCE WalLog WITH
    Writers <- {w1}, MaxAppends <- 3, MaxLength <- 2, MaxCrashes <- 2, file <- x1, disk <- x2,
    last_seq_ <- x3, append_offset_ <- x4, job <- x5, appends <- x6, crashes <- x7, log <- x8,
    synced <- x9, raced <- x10
Appends == INSTANCE WalLog WITH
    Writers <- {w1, w2}, MaxAppends <- 3, MaxLength <- 1, MaxCrashes <- 1, file <- x1, disk <- x2,
    last_seq_ <- x3, append_offset_ <- x4, job <- x5, appends <- x6, crashes <- x7, log <- x8,
    synced <- x9, raced <- x10
\* Limits below, at and above the sizes a file may have, and none.
Streams == INSTANCE FileStream WITH
    WriteChunk <- 3, ReadChunks <- {1, 2, 4}, Starts <- {0, 1, 2},
    Limits <- {-1, 0, 3, 9}, Block <- 2, MaxBytes <- 6, file <- x1, append_offset_ <- x2,
    wbuf <- x3, wpos <- x4, pending <- x5, produced <- x6, accepted <- x7, mode <- x8,
    rchunk <- x9, start <- x10, limit <- x11, rpos <- x12, remaining <- x13, eof_ <- x14,
    got <- x15, phase <- x16, style <- x17

ASSUME
    /\ Lru!StoreAssumption /\ Shared!StoreAssumption
    /\ Wal!WalAssumption /\ Appends!WalAssumption /\ Streams!StreamAssumption

-----------------------------------------------------------------------------
(* What follows the first n variables. *)
from17 == vars
from15 == <<x16, x17, from17>>
from10 == <<x11, x12, x13, x14, x15, from15>>
from0 == <<x1, x2, x3, x4, x5, x6, x7, x8, x9, x10, from10>>
shared == <<x1, x2, x3, x4, x5, x6, x7, x8, x9, x10, x11, x12, x13, x14, x15, x16, x17>>
all == <<part, from0>>

Idle17 == Init
Idle15 == x16 = 0 /\ x17 = 0 /\ Idle17
Idle10 == x11 = 0 /\ x12 = 0 /\ x13 = 0 /\ x14 = 0 /\ x15 = 0 /\ Idle15
Idle0 ==
    /\ x1 = 0 /\ x2 = 0 /\ x3 = 0 /\ x4 = 0 /\ x5 = 0 /\ x6 = 0 /\ x7 = 0 /\ x8 = 0 /\ x9 = 0
    /\ x10 = 0 /\ Idle10

MCInit ==
    \/ part = "logger" /\ Idle0
    \/ part = "lru" /\ Lru!Init /\ Idle15
    \/ part = "shared" /\ Shared!Init /\ Idle15
    \/ part = "wal" /\ Wal!Init /\ Idle10
    \/ part = "appends" /\ Appends!Init /\ Idle10
    \/ part = "streams" /\ Streams!Init /\ Idle17
MCNext ==
    \/ part = "logger" /\ Next /\ UNCHANGED <<part, shared>>
    \/ part = "lru" /\ Lru!Next /\ UNCHANGED <<part, from15>>
    \/ part = "shared" /\ Shared!Next /\ UNCHANGED <<part, from15>>
    \/ part = "wal" /\ Wal!Next /\ UNCHANGED <<part, from10>>
    \/ part = "appends" /\ Appends!Next /\ UNCHANGED <<part, from10>>
    \/ part = "streams" /\ Streams!Next /\ UNCHANGED <<part, from17>>

\* The fairness of the logger and of the shared store, thread by thread; the
\* other parts are about safety only.
Thread ==
    \/ part = "logger" /\ Worker /\ UNCHANGED <<part, shared>>
    \/ part = "shared" /\ Shared!Thread /\ UNCHANGED <<part, from15>>
First ==
    \/ part = "logger" /\ WriteSync(p1) /\ UNCHANGED <<part, shared>>
    \/ part = "shared" /\ Shared!Answered(c1) /\ UNCHANGED <<part, from15>>
Second ==
    \/ part = "logger" /\ Woken(a1) /\ UNCHANGED <<part, shared>>
    \/ part = "shared" /\ Shared!Answered(c2) /\ UNCHANGED <<part, from15>>
Third == part = "logger" /\ ShutdownReturn(a1) /\ UNCHANGED <<part, shared>>
MCSpec ==
    /\ MCInit /\ [][MCNext]_all
    /\ WF_all(Thread) /\ WF_all(First) /\ WF_all(Second) /\ WF_all(Third)

-----------------------------------------------------------------------------
(* Properties, with CallsSettle and RecordsAccounted of Logger *)

\* The recency list and the map hold the same keys, each once and no more than
\* max_entries, and a read after an answered write sees nothing older
\* (MemStore).
StoreCoherent ==
    /\ part = "lru" => Lru!TypeOK /\ Lru!ListMatchesMap /\ Lru!NoStaleRead
    /\ part = "shared" => Shared!TypeOK /\ Shared!ListMatchesMap /\ Shared!NoStaleRead
\* The records append() and recover() report are in the file, and those that
\* were synced are recovered, first and in order (WalLog).
LogSurvives ==
    /\ part = "wal" => Wal!TypeOK /\ Wal!LogInFile /\ Wal!SyncedSurvives
    /\ part = "appends" => Appends!TypeOK /\ Appends!LogInFile /\ Appends!SyncedSurvives
\* FileWriteStream writes each accepted byte once and in order, and
\* FileReadStream returns its range, in order and to its end (FileStream).
StreamsExact ==
    part = "streams" => Streams!TypeOK /\ Streams!WritesInOrder /\ Streams!ReadsWholeRange
\* An insertion pushes out the entry used least recently (MemStore).
EvictsLeastRecent == [][part = "lru" => Lru!LeastRecentStep]_all
\* append() returns a new number, and numbers grow (WalLog).
NumbersGrow ==
    [][/\ part = "wal" => Wal!NumberStep
       /\ part = "appends" => Appends!NumberStep]_all
\* flush() returns (Logger), and requests queued before the last drain are
\* answered (MemStore).
CallsReturn ==
    /\ (part = "logger" /\ Flushing(a1)) ~> (part = "logger" /\ IdleAdmin(a1))
    /\ \A c \in {c1, c2} :
          (part = "shared" /\ Shared!Owed(c)) ~> (part = "shared" /\ ~Shared!Polling(c))
=============================================================================
