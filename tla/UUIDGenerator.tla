--------------------------- MODULE UUIDGenerator ----------------------------
(***************************************************************************)
(* UUIDGenerator: the random version 4 and the time-ordered version 7      *)
(* (src/src/data/types/UUIDGenerator.h).  Every thread has its own scalar  *)
(* generator tl_rng, vector generator tl_vec_rng, buffer of version 4      *)
(* identifiers and state of version 7.  A random value is named by the     *)
(* seed it comes from and its place in the stream of that seed: the same   *)
(* name is the same value, and different names are taken to be different   *)
(* values.  The build fixes the instruction set; a system clock that is    *)
(* set back is an input.                                                   *)
(***************************************************************************)
EXTENDS Integers, SequencesExt

CONSTANTS
    Threads,
    ReseedAt, VecReseedAt,   \* 65536 and 16384
    SeedDraws,               \* scalar draws that seed the vector generator, 16
    CounterMod,              \* the counter of version 7 has 42 bits
    Batches,                 \* sizes a caller asks for
    MaxClock, MaxIds, MaxV7  \* bounds: the clock, identifiers, and those of version 7

GeneratorAssumption ==
    /\ {ReseedAt, VecReseedAt, SeedDraws, CounterMod} \subseteq Nat \ {0}
    /\ Batches \subseteq Nat

VARIABLES tier, clock, thread, issued4, issued7

vars == <<tier, clock, thread, issued4, issued7>>

-----------------------------------------------------------------------------
(* The generators *)

\* n calls of FastRng::next_u64: after so many draws the state is taken from
\* hardware, once more for this thread.  The state names the value just drawn.
After(t, r, n) ==
    LET times == r.times + (r.count + n) \div ReseedAt
    IN [seed |-> IF times = r.times THEN r.seed ELSE <<<<t>>, times>>,
        count |-> (r.count + n) % ReseedAt, times |-> times]
next_u64(t, r) == After(t, r, 1)

Value(r) == <<r.seed, r.count>>

\* seed_from_scalar: the vector generator starts from the next scalar draws.
seed_from_scalar(t, th) ==
    [th EXCEPT !.rng = After(t, th.rng, SeedDraws),
               !.vec = [seed |-> Value(next_u64(t, th.rng)), count |-> 0]]

\* tl_vec_rng is seeded when it is first used.
Ready(t, th) == IF th.vec.seed = <<>> THEN seed_from_scalar(t, th) ELSE th

\* VectorRng::next_4x64.
Drawn(t, th) ==
    IF th.vec.count + 1 >= VecReseedAt THEN seed_from_scalar(t, th)
    ELSE [th EXCEPT !.vec.count = @ + 1]
next_4x64(t, th) == Drawn(t, Ready(t, th))

\* Two vector draws become identifiers: with AVX-512 all eight lanes, two at
\* a time; with AVX2 the even lanes, one of each draw.
Lanes(a, b) ==
    IF tier = "avx512" THEN <<<<a, 0>>, <<a, 2>>, <<b, 0>>, <<b, 2>>>>
    ELSE <<<<a, 0>>, <<a, 2>>>>

Vector == tier \in {"avx512", "avx2"}
\* The state after two vector draws, and their identifiers.
Joined(a, b) == <<b, Lanes(Value(a.vec), Value(b.vec))>>
SecondDraw(t, a) == Joined(a, next_4x64(t, a))
Pair(t, th) == SecondDraw(t, next_4x64(t, th))
\* Two scalar draws are one identifier.
Scalar(t, th, a) == <<[th EXCEPT !.rng = next_u64(t, a)], <<Value(a), 0>>>>
Two(t, th) == Scalar(t, th, next_u64(t, th.rng))

-----------------------------------------------------------------------------
(* Version 4 *)

\* ThreadV4Buffer::refill, from the two draws.
Filled(pair) == [pair[1] EXCEPT !.buffer = pair[2]]
refill(t, th) == Filled(Pair(t, th))

\* Mutant: the buffer gives its first identifier again.
Take_Same(th) == <<th, th.buffer[1]>>
Take(th) == <<[th EXCEPT !.buffer = Tail(@)], th.buffer[1]>>
\* ThreadV4Buffer::next: the buffer is refilled when it is used up.
next(t, th) == Take(IF th.buffer = <<>> THEN refill(t, th) ELSE th)

\* v4.
v4(t, th) == IF Vector THEN next(t, th) ELSE Two(t, th)

\* A batch so far is the thread's state and the identifiers; both paths of
\* v4_batch add to it.
WithVector(made, pair) == <<pair[1], made[2] \o pair[2]>>
WithOne(made, one) == <<one[1], Append(made[2], one[2])>>
Vectors(t, made, n) == FoldLeft(LAMBDA m, i : WithVector(m, Pair(t, m[1])), made, [i \in 1 .. n |-> i])
OneByOne(t, made, n) == FoldLeft(LAMBDA m, i : WithOne(m, v4(t, m[1])), made, [i \in 1 .. n |-> i])
\* v4_batch: whole vectors past the buffer, then what is left one by one.
v4_batch(t, th, n) ==
    LET width == IF tier = "avx512" THEN 4 ELSE 2
        whole == IF Vector THEN n \div width ELSE 0
    IN OneByOne(t, Vectors(t, <<th, <<>>>>, whole), n - whole * width)

Fits(n) == Len(issued4) + Len(issued7) + n <= MaxIds

\* A thread asks for one identifier or for a batch.
V4(t) ==
    /\ \/ /\ Fits(1)
          /\ \E one \in {v4(t, thread[t])} :
              /\ thread' = [thread EXCEPT ![t] = one[1]]
              /\ issued4' = Append(issued4, [by |-> t, id |-> one[2]])
       \/ \E n \in Batches :
           /\ Fits(n)
           /\ \E made \in {v4_batch(t, thread[t], n)} :
               /\ thread' = [thread EXCEPT ![t] = made[1]]
               /\ issued4' = issued4 \o [i \in 1 .. n |-> [by |-> t, id |-> made[2][i]]]
    /\ UNCHANGED <<tier, clock, issued7>>

-----------------------------------------------------------------------------
(* Version 7 *)

\* stamp_v7: the time, the low bits of the counter, and a random tail.
stamp_v7(t, ts, counter, tail) == [by |-> t, ts |-> ts, counter |-> counter % CounterMod, tail |-> tail]

\* v7 and v7_batch take the same first counter: a random one in a new
\* millisecond, the next one otherwise.  c is the random number.
First(th, c) == IF clock > th.last_ts_ms THEN c ELSE th.counter + 1
AfterFirst(t, th) == IF clock > th.last_ts_ms THEN next_u64(t, th.rng) ELSE th.rng

\* Mutant: the batch leaves the counter at its first identifier.
Kept_First(base, n) == base
\* The counter the batch leaves behind.
Kept(base, n) == base + (n - 1)

\* v7 is a batch of one; v7_batch returns at once when it is given no room.
V7(t) ==
    \E n \in {1} \cup Batches, c \in 0 .. CounterMod - 1 :
        /\ Fits(n) /\ Len(issued7) + n <= MaxV7
        /\ n > 0
        /\ clock > thread[t].last_ts_ms \/ c = 0
        /\ LET base == First(thread[t], c)
               rng == AfterFirst(t, thread[t])
           IN /\ thread' = [thread EXCEPT ![t].rng = After(t, rng, n),
                                          ![t].counter = Kept(base, n),
                                          ![t].last_ts_ms = IF clock > @ THEN clock ELSE @]
              /\ issued7' = issued7 \o [i \in 1 .. n |->
                     stamp_v7(t, clock, base + i - 1, Value(After(t, rng, i)))]
        /\ UNCHANGED <<tier, clock, issued4>>

\* The system clock moves on, or is set back.
Clock ==
    /\ clock' \in 1 .. MaxClock
    /\ clock' # clock
    /\ UNCHANGED <<tier, thread, issued4, issued7>>

Rest == ~Fits(1) /\ UNCHANGED vars

Init ==
    /\ tier \in {"avx512", "avx2", "scalar"}
    /\ clock = 1
    /\ thread = [t \in Threads |->
           [rng |-> [seed |-> <<>>, count |-> 0, times |-> 0], vec |-> [seed |-> <<>>, count |-> 0],
            buffer |-> <<>>, last_ts_ms |-> 0, counter |-> 0]]
    /\ issued4 = <<>> /\ issued7 = <<>>

Next == Clock \/ Rest \/ \E t \in Threads : V4(t) \/ V7(t)

-----------------------------------------------------------------------------
(* Properties *)

\* The scalar stream a random value goes back to: a vector generator is named
\* by the scalar draw that seeded it.
Unseeded(value) == value[1] = <<>> \/ (Len(value[1]) = 2 /\ value[1][1] = <<>>)

\* Identifiers are distinct, buffers, batches and reseeding included, with one
\* exception: the streams of all threads start from the same constants
\* (FastRng::s), so until a thread has drawn ReseedAt numbers another thread
\* may issue the same identifiers.
IdsDistinct ==
    /\ \A i, j \in DOMAIN issued4 :
        i < j /\ issued4[i].id = issued4[j].id
        => issued4[i].by # issued4[j].by /\ Unseeded(issued4[i].id[1])
    /\ \A i, j \in DOMAIN issued7 :
        i < j /\ issued7[i].tail = issued7[j].tail
        => issued7[i].by # issued7[j].by /\ Unseeded(issued7[i].tail)

\* operator<=> on identifiers of version 7, without the tail.
Below(u, v) == u.ts < v.ts \/ (u.ts = v.ts /\ u.counter < v.counter)

\* An identifier of version 7 is above the one the thread made before it,
\* unless the clock was set back in between or the counter ran out of bits
\* (UUIDGenerator::v7 and v7_batch).
V7InOrder ==
    \A j \in DOMAIN issued7 :
        LET mine == {i \in 1 .. j - 1 : issued7[i].by = issued7[j].by}
            u == issued7[CHOOSE i \in mine : \A k \in mine : k <= i]
        IN (mine # {} /\ issued7[j].ts >= u.ts /\ issued7[j].counter # 0) => Below(u, issued7[j])
=============================================================================
