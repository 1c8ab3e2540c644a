---------------------------- MODULE StaticFiles -----------------------------
(***************************************************************************)
(* Router::static_files (src/src/http/Router.cpp): workers of one handler  *)
(* share a cache of file contents that is revalidated by modification      *)
(* time, while the files are replaced under them.  A file is a version, a  *)
(* time and a size; replacing one is atomic, and two replacements may fall *)
(* into one tick of the clock.  A body is <<version, bytes of it>>.        *)
(* Large files are sent from disk (stream_file in                          *)
(* src/src/http/v1/Http1Connection.cpp): by sendfile, and if that fails by *)
(* reading, byte by byte here.                                             *)
(***************************************************************************)
EXTENDS Integers, FiniteSetsExt, SequencesExt

CONSTANTS
    Workers,
    Sizes,                  \* sizes a file may have
    max_cache_file_size,    \* larger files are sent from disk
    MaxWrites,              \* replacements and removals
    MaxRequests

FilesAssumption == Sizes \subseteq Nat /\ max_cache_file_size \in Nat /\ MaxWrites \in Nat /\ MaxRequests \in Nat

VARIABLES
    cache_in_memory,
    disk,       \* per file: [there, v, mtime, size]
    cache,      \* per file: [there, mtime, size, body]
    w,          \* per worker: the request it serves
    kept,       \* what the client holds: [tag, body] of its last 200
    writes, requests,
    blurred     \* two versions of a file share a modification time

vars == <<cache_in_memory, disk, cache, w, kept, writes, requests, blurred>>
Files == {"gz", "plain", "index"}
NoBody == <<0, 0>>
Garbled == <<-1, 0>>       \* what a client reads when the body was begun twice
NoTag == <<"none", 0, 0>>
Idle == [pc |-> "idle", todo |-> <<>>, tag |-> NoTag, st |-> [mtime |-> 0, size |-> 0],
         entry |-> [mtime |-> 0, size |-> 0, body |-> NoBody], changed |-> FALSE, got |-> NoTag, held |-> NoBody,
         file |-> NoBody, pos |-> 0, out |-> <<>>, again |-> FALSE]
\* cut: the connection is closed before the body is complete.
Over == {"idle", "200", "304", "404", "cut"}

Current(f) == <<disk[f].v, disk[f].size>>

\* The candidates in order: a compressed sidecar when accepted, the file, and
\* for a page of a single-page application the fallback.
Candidates(gzip, page) ==
    (IF gzip THEN <<"gz">> ELSE <<>>) \o <<"plain">> \o (IF page THEN <<"index">> ELSE <<>>)

Init ==
    /\ cache_in_memory \in BOOLEAN
    /\ \E there \in {{"plain"}, {"gz", "index"}}, size \in {Max(Sizes \cap 0 .. max_cache_file_size), Max(Sizes)} :
          /\ disk = [f \in Files |-> [there |-> f \in there, v |-> 1, mtime |-> 1, size |-> size]]
          /\ size > max_cache_file_size => "plain" \in there /\ ~cache_in_memory
    /\ cache = [f \in Files |-> [there |-> FALSE, mtime |-> 0, size |-> 0, body |-> NoBody]]
    /\ w = [i \in Workers |-> Idle]
    /\ kept = [tag |-> NoTag, body |-> NoBody]
    /\ writes = 0 /\ requests = 0 /\ blurred = FALSE

\* The file changes on disk, or goes away.
Write(f) ==
    /\ writes < MaxWrites
    /\ \E size \in Sizes, tick \in {0, 1}, there \in BOOLEAN :
          /\ disk[f].there \/ there
          /\ disk' = [disk EXCEPT ![f] = IF there THEN [there |-> TRUE, v |-> @.v + 1, mtime |-> @.mtime + tick, size |-> size]
                                         ELSE [@ EXCEPT !.there = FALSE]]
          /\ blurred' = (blurred \/ (there /\ tick = 0))
    /\ writes' = writes + 1
    /\ w' = [i \in Workers |-> [w[i] EXCEPT !.changed = TRUE]]
    /\ UNCHANGED <<cache_in_memory, cache, kept, requests>>

\* A request, perhaps with the tag the client has in If-None-Match.
Request(i) ==
    /\ w[i].pc \in Over /\ requests < MaxRequests
    /\ \E gzip, conditional \in BOOLEAN :
          w' = [w EXCEPT ![i] = [Idle EXCEPT !.pc = "stat", !.todo = Candidates(gzip, ~gzip),
                                              !.tag = IF conditional THEN kept.tag ELSE NoTag,
                                              !.held = IF conditional THEN kept.body ELSE NoBody]]
    /\ requests' = requests + 1
    /\ UNCHANGED <<cache_in_memory, disk, cache, kept, writes, blurred>>

File(i) == Head(w[i].todo)

\* try_serve returned false: the next candidate, or 404.
Skip(i) ==
    w' = [w EXCEPT ![i] = IF Len(w[i].todo) > 1 THEN [@ EXCEPT !.pc = "stat", !.todo = Tail(@)] ELSE [@ EXCEPT !.pc = "404"]]

\* Mutant: an entry is used whatever its time.
Fresh_Always(f) == cache[f].there
Fresh(f) == cache[f].there /\ cache[f].mtime = disk[f].mtime
\* stat and the look into the cache; without a cache open and fstat, after
\* which the bytes are those of the opened file.
Stat(i) ==
    LET f == File(i)
        st == [mtime |-> disk[f].mtime, size |-> disk[f].size]
        large == disk[f].size > max_cache_file_size
    IN /\ w[i].pc = "stat"
       /\ IF ~disk[f].there THEN Skip(i) /\ UNCHANGED cache
          ELSE CASE cache_in_memory /\ Fresh(f) ->
                      /\ w' = [w EXCEPT ![i].pc = "respond", ![i].st = st,
                                        ![i].entry = [mtime |-> cache[f].mtime, size |-> cache[f].size, body |-> cache[f].body]]
                      /\ UNCHANGED cache
                 [] ~cache_in_memory \/ (~Fresh(f) /\ large) ->
                      LET entry == [mtime |-> st.mtime, size |-> st.size,
                                    body |-> IF large THEN NoBody ELSE <<disk[f].v, st.size>>]
                      IN /\ w' = [w EXCEPT ![i].pc = "respond", ![i].st = st, ![i].entry = entry]
                         /\ cache' = IF cache_in_memory THEN [cache EXCEPT ![f] = [there |-> TRUE] @@ entry] ELSE cache
                 [] OTHER -> w' = [w EXCEPT ![i].pc = "open", ![i].st = st] /\ UNCHANGED cache
       /\ UNCHANGED <<cache_in_memory, disk, kept, writes, requests, blurred>>

\* Mutant: the entry is filed under the time the file has now.
Filed_Now(i, f) == disk[f].mtime
\* The time of the stat.
Filed(i, f) == w[i].st.mtime
\* pread returned less than the size that stat saw.
ShortRead(i, f) == disk[f].size < w[i].st.size
\* open, pread of as many bytes as stat saw, and the new entry.
Load(i) ==
    LET f == File(i)
        entry == [mtime |-> Filed(i, f), size |-> w[i].st.size, body |-> <<disk[f].v, Min({w[i].st.size, disk[f].size})>>]
    IN /\ w[i].pc = "open"
       /\ IF ~disk[f].there \/ ShortRead(i, f) THEN Skip(i) /\ UNCHANGED cache
          ELSE /\ w' = [w EXCEPT ![i].pc = "respond", ![i].entry = entry]
               /\ cache' = [cache EXCEPT ![f] = [there |-> TRUE] @@ entry]
       /\ UNCHANGED <<cache_in_memory, disk, kept, writes, requests, blurred>>

Tag(i) == <<File(i), w[i].entry.mtime, w[i].entry.size>>
\* Mutant: only the size is compared.
is_not_modified_Size(i) == w[i].tag # NoTag /\ w[i].tag[3] = w[i].entry.size
\* If-None-Match; two files with equal time and size have equal tags.
is_not_modified(i) ==
    w[i].tag # NoTag /\ w[i].tag[2] = w[i].entry.mtime /\ w[i].tag[3] = w[i].entry.size
\* 304, or 200 with the entry's bytes, or send_file, which opens the file later.
Respond(i) ==
    LET pc == IF is_not_modified(i) THEN "304" ELSE IF w[i].entry.body[2] = 0 /\ w[i].st.size > 0 THEN "send" ELSE "200"
    IN /\ w[i].pc = "respond"
       /\ w' = [w EXCEPT ![i].pc = pc, ![i].got = Tag(i), ![i].tag = IF pc = "304" THEN @ ELSE NoTag,
                         ![i].held = IF pc = "304" THEN @ ELSE NoBody]
       /\ kept' = IF pc = "200" THEN [tag |-> Tag(i), body |-> w[i].entry.body] ELSE kept
       /\ UNCHANGED <<cache_in_memory, disk, cache, writes, requests, blurred>>
\* Response::file: the size that is announced, and 404 without the file.
SendFile(i) ==
    LET f == File(i)
    IN /\ w[i].pc = "send"
       /\ w' = [w EXCEPT ![i].pc = IF disk[f].there THEN "stream" ELSE "404", ![i].st.size = disk[f].size]
       /\ UNCHANGED <<cache_in_memory, disk, cache, kept, writes, requests, blurred>>

(* stream_file *)
rest == <<cache_in_memory, disk, cache, writes, requests, blurred>>

Whole(i) ==
    LET body == IF w[i].again THEN Garbled
                ELSE <<IF w[i].out = <<>> THEN disk[File(i)].v ELSE w[i].out[1][1], Len(w[i].out)>>
    IN /\ w' = [w EXCEPT ![i].pc = "200", ![i].entry.body = body]
       /\ kept' = [tag |-> w[i].got, body |-> body]
OpenFile(i) ==
    /\ w[i].pc = "stream"
    /\ IF w[i].st.size = 0 THEN Whole(i)
       ELSE /\ w' = IF disk[File(i)].there THEN [w EXCEPT ![i].pc = "sendfile", ![i].file = Current(File(i))]
                                           ELSE [w EXCEPT ![i].pc = "reopen"]
            /\ UNCHANGED kept
    /\ UNCHANGED rest
\* Some more bytes, from position pos of the opened file.
Sends(i) ==
    /\ w[i].pos < w[i].file[2]
    /\ w' = [w EXCEPT ![i].pos = @ + 1, ![i].out = Append(@, <<w[i].file[1], w[i].pos + 1>>)]
    /\ UNCHANGED kept
\* Mutant: the end of the file is the end of the body.
AtEnd_Done(i) == Whole(i)
\* The file is shorter than announced.
AtEnd(i) == w' = [w EXCEPT ![i].pc = "reopen"] /\ UNCHANGED kept
\* sendfile; EAGAIN and EINTR are to wait here.
Sendfile(i) ==
    /\ w[i].pc = "sendfile"
    /\ IF w[i].pos = w[i].st.size THEN Whole(i)
       ELSE \/ Sends(i)
            \/ w[i].pos = w[i].file[2] /\ AtEnd(i)
            \/ w' = [w EXCEPT ![i].pc = "reopen"] /\ UNCHANGED kept
    /\ UNCHANGED rest
\* Mutant: the reading goes on in the file as it is now.
Reopened_Mixed(i) == [w[i] EXCEPT !.pc = "pread", !.file = Current(File(i))]
\* Reading starts at the beginning, whatever sendfile has sent.
Reopened(i) ==
    [w[i] EXCEPT !.pc = "pread", !.file = Current(File(i)), !.pos = 0, !.again = w[i].out # <<>>]
Reopen(i) ==
    /\ w[i].pc = "reopen"
    /\ w' = [w EXCEPT ![i] = IF disk[File(i)].there THEN Reopened(i) ELSE [Idle EXCEPT !.pc = "cut"]]
    /\ UNCHANGED <<rest, kept>>
\* pread and send_all; a short file and a failed send end the connection.
Pread(i) ==
    /\ w[i].pc = "pread"
    /\ IF w[i].pos = w[i].st.size THEN Whole(i)
       ELSE \/ Sends(i)
            \/ w' = [w EXCEPT ![i] = [Idle EXCEPT !.pc = "cut"]] /\ UNCHANGED kept
    /\ UNCHANGED rest

Rest == requests = MaxRequests /\ (\A i \in Workers : w[i].pc \in Over) /\ UNCHANGED vars
Next ==
    \/ \E i \in Workers : Request(i) \/ Stat(i) \/ Load(i) \/ Respond(i) \/ SendFile(i)
                           \/ OpenFile(i) \/ Sendfile(i) \/ Reopen(i) \/ Pread(i)
    \/ Write("plain")
    \/ Rest

-----------------------------------------------------------------------------
(***************************************************************************)
(* A file that did not change while a request for it was served is         *)
(* answered with its current bytes, all of them, however old the cache is; *)
(* 304 means that the client holds them, and 404 that no candidate exists. *)
(* Only versions that share a modification time may be confused, and files *)
(* that share time and size, as their tags are equal.  Without the cache   *)
(* the tag and the bytes of a small file always belong together.  A body   *)
(* from disk is as long as announced and of one version, or cut off, but   *)
(* when sendfile failed half way and reading began anew: that client keeps *)
(* a garbled body under a good tag.                                        *)
(***************************************************************************)
FilesFresh ==
    \A i \in Workers :
        /\ (w[i].pc = "200" /\ ~w[i].changed /\ ~blurred /\ ~w[i].again) =>
              (w[i].entry.body = Current(File(i)) \/ (disk[File(i)].size = 0 /\ w[i].entry.body[2] = 0))
        /\ (w[i].pc = "304" /\ w[i].tag[1] = File(i) /\ ~w[i].changed /\ ~blurred) =>
              w[i].held \in {Current(File(i)), Garbled}
        /\ (w[i].pc = "404" /\ ~w[i].changed) => ~disk[File(i)].there
        /\ (w[i].pc = "200" /\ ~cache_in_memory /\ w[i].out = <<>> /\ w[i].st.size \in 1 .. max_cache_file_size) =>
              w[i].entry.body[2] = w[i].got[3]
        /\ (w[i].pc = "200" /\ w[i].out # <<>> /\ ~w[i].again) =>
              w[i].out = [k \in 1 .. w[i].st.size |-> <<w[i].file[1], k>>]

=============================================================================
