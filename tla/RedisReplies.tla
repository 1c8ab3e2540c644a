---------------------------- MODULE RedisReplies ----------------------------
(***************************************************************************)
(* Replies of Redis: Resp3Parser::parse on what has arrived so far, and    *)
(* what RedisClient makes of a reply (src/src/data/redis).  Bytes are      *)
(* one-letter strings.  The encoding of the server is the reference the    *)
(* parser is checked against; a store of two keys is the reference for the *)
(* commands.                                                               *)
(***************************************************************************)
EXTENDS Integers, SequencesExt, FiniteSetsExt

VARIABLES input, output

CRLF == <<"\r", "\n">>
nullopt == [t |-> "none"]

-----------------------------------------------------------------------------
(* Resp3Parser *)

\* find_crlf: where the first line ends, 0 when it does not.
find_crlf(in) ==
    LET ends == {i \in 1 .. Len(in) - 1 : in[i] = "\r" /\ in[i + 1] = "\n"}
    IN IF ends = {} THEN 0 ELSE Min(ends)

\* from_chars over the digits in use; FALSE stands for an errc.
from_chars(s) ==
    CASE s = <<"0">> -> 0 [] s = <<"1">> -> 1 [] s = <<"2">> -> 2 [] s = <<"-", "1">> -> -1
      [] OTHER -> -2

Done(v, n) == [s |-> "done", v |-> v, n |-> n]
NeedMoreData == [s |-> "more"]
Error == [s |-> "error"]

\* Replies that are one line.
ParseLine(in, crlf) ==
    LET text == SubSeq(in, 2, crlf - 1)
    IN CASE in[1] = "+" -> Done([t |-> "simple", v |-> text], crlf + 1)
         [] in[1] = "-" -> Done([t |-> "error", v |-> text], crlf + 1)
         [] in[1] = ":" -> IF from_chars(text) = -2 THEN Error
                           ELSE Done([t |-> "int", v |-> from_chars(text)], crlf + 1)
         [] in[1] = "_" -> Done([t |-> "null"], crlf + 1)
         [] in[1] = "#" -> Done([t |-> "bool", v |-> in[2] = "t"], crlf + 1)

\* Mutant: the content ends at the next line end.
ParseBulk_ToCrlf(in, crlf) ==
    LET len == from_chars(SubSeq(in, 2, crlf - 1))
        rest == SubSeq(in, crlf + 2, Len(in))
        total_needed == crlf + 1 + find_crlf(rest) + 1
    IN CASE len = -1 -> Done([t |-> "null"], crlf + 1)
         [] len # -1 /\ find_crlf(rest) = 0 -> NeedMoreData
         [] OTHER -> Done([t |-> "bulk", v |-> SubSeq(in, crlf + 2, total_needed - 2)], total_needed)
\* Mutant: does not wait for the line end after the content.
ParseBulk_Early(in, crlf) ==
    LET len == from_chars(SubSeq(in, 2, crlf - 1))
        total_needed == crlf + 1 + len + 2
    IN CASE len = -1 -> Done([t |-> "null"], crlf + 1)
         [] len # -1 /\ Len(in) < total_needed - 2 -> NeedMoreData
         [] OTHER -> Done([t |-> "bulk", v |-> SubSeq(in, crlf + 2, crlf + 1 + len)], total_needed)
\* A bulk string: as many bytes as announced, and a line end after them.
ParseBulk(in, crlf) ==
    LET len == from_chars(SubSeq(in, 2, crlf - 1))
        total_needed == crlf + 1 + len + 2
    IN CASE len = -2 -> Error
         [] len = -1 -> Done([t |-> "null"], crlf + 1)
         [] len >= 0 /\ Len(in) < total_needed -> NeedMoreData
         [] OTHER -> Done([t |-> "bulk", v |-> SubSeq(in, crlf + 2, crlf + 1 + len)], total_needed)

RECURSIVE parse(_), ParseItems(_, _, _, _)
\* Arrays, pushes, sets and maps: count elements, one after the other; what was
\* consumed is given back when one is not complete.
ParseItems(in, at, count, got) ==
    IF count = 0 THEN Done([t |-> IF in[1] = ">" THEN "push" ELSE "array", v |-> got], at)
    ELSE LET r == parse(SubSeq(in, at + 1, Len(in)))
         IN IF r.s # "done" THEN r ELSE ParseItems(in, at + r.n, count - 1, Append(got, r.v))
parse(in) ==
    IF in = <<>> THEN NeedMoreData
    ELSE LET crlf == find_crlf(in)
             count == from_chars(SubSeq(in, 2, crlf - 1))
         IN CASE in[1] \notin {"+", "-", ":", "_", "#", "$", "*", ">", "~", "%"} -> Error
              [] crlf = 0 -> NeedMoreData
              [] in[1] \in {"+", "-", ":", "_", "#"} -> ParseLine(in, crlf)
              [] in[1] = "$" -> ParseBulk(in, crlf)
              [] OTHER ->
                   IF count = -2 THEN Error
                   ELSE IF count = -1 THEN Done([t |-> "null"], crlf + 1)
                   ELSE ParseItems(in, crlf + 1, IF in[1] = "%" THEN 2 * count ELSE count, <<>>)

\* serialize_command: an array of bulk strings.
Digit(n) == <<"0", "1", "2">>[n + 1]
serialize_command(args) ==
    <<"*", Digit(Len(args))>> \o CRLF \o
    FlattenSeq([i \in DOMAIN args |-> <<"$", Digit(Len(args[i]))>> \o CRLF \o args[i] \o CRLF])

-----------------------------------------------------------------------------
(* What RedisClient makes of a reply, by the shape of its commands *)
StringCommands == [get |-> "value", set |-> "done", del |-> "positive", incr |-> "count", decr |-> "count"]
HashCommands ==
    [hget |-> "value", hset |-> "done", hdel |-> "positive", hgetall |-> "pairs", hexists |-> "one"]
ListCommands ==
    [lpush |-> "count", rpush |-> "count", lpop |-> "value", rpop |-> "value", sadd |-> "positive",
     srem |-> "positive", smembers |-> "strings", sismember |-> "one"]
SortedSetCommands ==
    [zadd |-> "done", zrem |-> "positive", zrange |-> "strings", zrange_with_scores |-> "pairs",
     zrevrange |-> "strings", zrevrange_with_scores |-> "pairs", zrangebyscore |-> "strings",
     zrangebyscore_with_scores |-> "pairs", zcard |-> "count", zcount |-> "count", zscore |-> "value",
     zrank |-> "rank", zrevrank |-> "rank"]
StreamCommands ==
    [xadd |-> "text", xread |-> "streams", xrange |-> "messages", xrevrange |-> "messages",
     xlen |-> "count", xgroup_create |-> "ok", xreadgroup |-> "streams", xack |-> "count", xdel |-> "count"]
KeyCommands ==
    [publish |-> "count", expire |-> "one", pexpire |-> "one", ttl |-> "ttl", pttl |-> "ttl",
     persist |-> "one", exists |-> "one", select_db |-> "done"]
Commands ==
    StringCommands @@ HashCommands @@ ListCommands @@ SortedSetCommands @@ StreamCommands @@ KeyCommands

is_string(r) == r.t \in {"simple", "bulk"}
is_array(r) == r.t \in {"array", "push"}
Elements(r) == IF is_array(r) THEN r.v ELSE <<>>
as_string(r) == IF r.t \in {"simple", "bulk", "error"} THEN r.v ELSE <<>>

\* Mutant: as_string without is_string, which holds for the text of an error too.
Optional_Text(r) == [t |-> "some", v |-> as_string(r)]
Optional(r) == IF is_string(r) THEN [t |-> "some", v |-> r.v] ELSE nullopt
Count(r) == IF r.t = "int" THEN r.v ELSE 0
Positive(r) == r.t = "int" /\ r.v > 0
\* hgetall and the WITHSCORES commands: two elements at a time, an odd last one
\* is left out.
Pairs(es) == [i \in 1 .. Len(es) \div 2 |-> <<as_string(es[2 * i - 1]), as_string(es[2 * i])>>]

\* Mutant: an entry without fields is left out.
parse_stream_messages_Full(r) ==
    LET whole == SelectSeq(Elements(r), LAMBDA m : is_array(m) /\ Len(m.v) >= 2 /\ is_array(m.v[2]))
    IN [i \in DOMAIN whole |-> [id |-> as_string(whole[i].v[1]), fields |-> Pairs(Elements(whole[i].v[2]))]]
parse_stream_messages(r) ==
    LET whole == SelectSeq(Elements(r), LAMBDA m : is_array(m) /\ Len(m.v) >= 2)
    IN [i \in DOMAIN whole |-> [id |-> as_string(whole[i].v[1]), fields |-> Pairs(Elements(whole[i].v[2]))]]
parse_stream_read_results(r) ==
    LET whole == SelectSeq(Elements(r), LAMBDA m : is_array(m) /\ Len(m.v) >= 2)
    IN [i \in DOMAIN whole |-> [stream |-> as_string(whole[i].v[1]), messages |-> parse_stream_messages(whole[i].v[2])]]

Decode(shape, r) ==
    CASE shape = "value" -> Optional(r)
      [] shape = "done" -> r.t # "error"
      [] shape = "positive" -> Positive(r)
      [] shape = "count" -> Count(r)
      [] shape = "one" -> r.t = "int" /\ r.v = 1
      [] shape = "rank" -> IF r.t = "int" THEN [t |-> "some", v |-> r.v] ELSE nullopt
      [] shape = "ttl" -> IF r.t = "int" THEN r.v ELSE -2
      [] shape = "text" -> IF is_string(r) THEN r.v ELSE <<>>
      [] shape = "ok" -> is_string(r) /\ r.v = <<"O", "K">>
      [] shape = "strings" -> SelectSeq(Elements(r), is_string)
      [] shape = "pairs" -> Pairs(Elements(r))
      [] shape = "messages" -> parse_stream_messages(r)
      [] shape = "streams" -> parse_stream_read_results(r)

\* get, set, del on a store, or an error instead.
Refused == [t |-> "error", v |-> <<"a">>]
Stored(store, k, err) == IF err THEN Refused ELSE store[k]
Gone(store, k, err) == IF err THEN Refused ELSE [t |-> "int", v |-> IF store[k].t = "null" THEN 0 ELSE 1]

\* Mutant: keys without a value are left out.
mget_Dense(cluster, store, keys, errs) ==
    SelectSeq([i \in DOMAIN keys |-> Optional(Stored(store, keys[i], errs[i]))], LAMBDA v : v # nullopt)
\* mget: one GET per key in a cluster; one MGET otherwise, of which a missing
\* value keeps its place.
mget(cluster, store, keys, errs) ==
    IF cluster THEN [i \in DOMAIN keys |-> Optional(Stored(store, keys[i], errs[i]))]
    ELSE LET resp == IF errs[1] THEN Refused ELSE [t |-> "array", v |-> [i \in DOMAIN keys |-> store[keys[i]]]]
         IN IF is_array(resp) THEN [i \in DOMAIN resp.v |-> Optional(resp.v[i])]
            ELSE [i \in DOMAIN keys |-> nullopt]

\* del_many: one DEL per key in a cluster, one DEL of all keys otherwise.
del_many(cluster, store, keys, errs) ==
    IF cluster THEN Cardinality({i \in DOMAIN keys : Positive(Gone(store, keys[i], errs[i]))})
    ELSE IF errs[1] THEN Count(Refused)
    ELSE Count([t |-> "int", v |-> Cardinality({k \in Range(keys) : store[k].t # "null"})])

-----------------------------------------------------------------------------
(* The reference *)
RECURSIVE Encode(_)
Encode(v) ==
    CASE v.t = "simple" -> <<"+">> \o v.v \o CRLF
      [] v.t = "error" -> <<"-">> \o v.v \o CRLF
      [] v.t = "int" -> <<":">> \o (IF v.v < 0 THEN <<"-", "1">> ELSE <<Digit(v.v)>>) \o CRLF
      [] v.t = "null" -> <<"_">> \o CRLF
      [] v.t = "bool" -> <<"#", IF v.v THEN "t" ELSE "f">> \o CRLF
      [] v.t = "bulk" -> <<"$", Digit(Len(v.v))>> \o CRLF \o v.v \o CRLF
      [] OTHER -> <<IF v.t = "push" THEN ">" ELSE "*", Digit(Len(v.v))>> \o CRLF
                  \o FlattenSeq([i \in DOMAIN v.v |-> Encode(v.v[i])])

Flat ==
    {[t |-> "simple", v |-> <<"a">>], [t |-> "error", v |-> <<"a">>], [t |-> "int", v |-> -1],
     [t |-> "int", v |-> 2], [t |-> "null"], [t |-> "bool", v |-> TRUE], [t |-> "bulk", v |-> <<>>],
     [t |-> "bulk", v |-> <<"a">>], [t |-> "bulk", v |-> CRLF]}
Lists(S) == {[t |-> "array", v |-> s] : s \in BoundedSeq(S, 2)}
Values == Flat \cup Lists(Flat) \cup Lists({[t |-> "array", v |-> <<[t |-> "bulk", v |-> CRLF]>>], [t |-> "null"]})
          \cup {[t |-> "push", v |-> <<[t |-> "int", v |-> 2]>>]}
Args == BoundedSeq({<<>>, <<"a">>, CRLF}, 2)
TwoKeys == {"k", "l"}
Stores == [TwoKeys -> {[t |-> "null"], [t |-> "bulk", v |-> <<"a">>]}]

Entry(id, fields) ==
    [t |-> "array", v |-> <<[t |-> "bulk", v |-> <<id>>], fields>>]
Fields == {[t |-> "null"], [t |-> "array", v |-> <<[t |-> "bulk", v |-> <<"a">>], [t |-> "bulk", v |-> <<>>]>>]}
Entries == BoundedSeq({Entry(i, f) : i \in {"a", "b"}, f \in Fields}, 2)

Init ==
    /\ \/ input \in {[op |-> "reply", v |-> v, cut |-> k] : v \in Values, k \in 0 .. 24}
       \/ input \in {[op |-> "command", v |-> a] : a \in Args}
       \/ input \in {[op |-> "decode", command |-> c, v |-> v] : c \in DOMAIN Commands, v \in Flat \cup Lists(Flat)}
       \/ input \in {[op |-> "entries", v |-> es] : es \in Entries}
       \/ input \in {[op |-> "many", cluster |-> b, store |-> s, keys |-> ks, errs |-> <<e, f>>] :
            b \in BOOLEAN, s \in Stores, ks \in {<<"k", "l">>, <<"l", "k">>}, e \in BOOLEAN, f \in BOOLEAN}
    /\ output = nullopt
\* What follows a reply in the buffer is the beginning of the next one.
Arrived(in) == LET all == Encode(in.v) \o <<"$", "1">> IN SubSeq(all, 1, Min({in.cut, Len(all)}))
Parse == /\ output = nullopt /\ input.op = "reply"
         /\ output' = parse(Arrived(input)) /\ UNCHANGED input
Serialize == /\ output = nullopt /\ input.op = "command"
             /\ output' = parse(serialize_command(input.v)) /\ UNCHANGED input
Many == /\ output = nullopt /\ input.op = "many"
        /\ output' = [t |-> "many",
                      got |-> mget(input.cluster, input.store, input.keys, input.errs),
                      deleted |-> del_many(input.cluster, input.store, input.keys, input.errs)]
        /\ UNCHANGED input
Command == /\ output = nullopt /\ input.op = "decode"
           /\ output' = [t |-> "decoded", v |-> Decode(Commands[input.command], input.v)] /\ UNCHANGED input
Stream == /\ output = nullopt /\ input.op = "entries"
          /\ output' = [t |-> "decoded", v |-> parse_stream_messages([t |-> "array", v |-> input.v])]
          /\ UNCHANGED input
Next == Parse \/ Command \/ Stream \/ Serialize \/ Many \/ (output # nullopt /\ UNCHANGED <<input, output>>)

-----------------------------------------------------------------------------
\* A reply is complete exactly when all its bytes are there, is then the value
\* that the server sent, and takes no byte of the next; a command is read back
\* as its arguments; the text of an error never ends up in what a command
\* returns, pairs and stream entries are all kept; and the commands on many keys answer key by key, the same
\* in a cluster as on one server when nothing fails.
RepliesAgree ==
    output # nullopt =>
        CASE input.op = "reply" ->
               output = IF input.cut < Len(Encode(input.v)) THEN NeedMoreData
                        ELSE Done(input.v, Len(Encode(input.v)))
          [] input.op = "command" ->
               output = Done([t |-> "array", v |-> [i \in DOMAIN input.v |-> [t |-> "bulk", v |-> input.v[i]]]],
                             Len(serialize_command(input.v)))
          [] input.op = "decode" ->
               /\ input.v.t = "error" =>
                     output.v = Decode(Commands[input.command], [t |-> "error", v |-> <<>>])
               /\ Commands[input.command] = "pairs" /\ is_array(input.v) /\ Len(input.v.v) % 2 = 0 =>
                     FlattenSeq(output.v) = [i \in DOMAIN input.v.v |-> as_string(input.v.v[i])]
          [] input.op = "entries" ->
               [i \in DOMAIN output.v |-> <<output.v[i].id[1], Len(output.v[i].fields)>>] =
               [i \in DOMAIN input.v |-> <<input.v[i].v[1].v[1], Len(Elements(input.v[i].v[2])) \div 2>>]
          [] input.op = "many" ->
               /\ Len(output.got) = 2
               /\ \A i \in 1 .. 2 : output.got[i] \in {nullopt, Optional(input.store[input.keys[i]])}
               /\ (\A i \in 1 .. 2 : ~input.errs[i]) =>
                    /\ output.got = [i \in 1 .. 2 |-> Optional(input.store[input.keys[i]])]
                    /\ output.deleted = Cardinality({k \in TwoKeys : input.store[k].t # "null"})
=============================================================================
