-------------------------- MODULE Http1Connection ---------------------------
(***************************************************************************)
(* One HTTP/1.x connection (src/src/http/v1/Http1Connection.cpp) with the  *)
(* incremental parser under it (Http1Parser.h): requests arrive in pieces  *)
(* that need not end where a request ends, responses are batched, files    *)
(* and event streams bypass the batch.                                     *)
(*                                                                         *)
(* The byte stream is cut at the places the parser tells apart: "line" is  *)
(* the request line with its headers, "blank" the empty line, "chunk" a    *)
(* chunk with its size line, "last" the line of size 0, "data" a body of   *)
(* Content-Length; "pri" and "sm" are the two halves of the HTTP/2 preface.*)
(***************************************************************************)
EXTENDS Integers, Sequences, SequencesExt, FiniteSets

CONSTANTS
    Kinds,          \* kinds of request the client makes
    MaxRequests     \* bound: requests on the connection

AllKinds == {"get", "head", "post", "chunked", "expect", "close", "file", "sse", "ws", "h2c", "bad", "h2"}

ConnectionAssumption == Kinds \subseteq AllKinds /\ MaxRequests \in Nat

VARIABLES
    tls,            \* run_tls rather than run
    pipelined,      \* whether the client sends before it has been answered
    kind,           \* request -> its kind
    tosend,         \* what the client has still to send
    alive,          \* whether the client is still there
    first_packet, req_accum_, resp_batch_, keep_alive,
    place,          \* recv, parse, flush; closed or upgraded
    out             \* history: what the client has received

vars == <<tls, pipelined, kind, tosend, alive, first_packet, req_accum_, resp_batch_, keep_alive, place, out>>

-----------------------------------------------------------------------------
Requests == DOMAIN kind
Pieces(k) ==
    CASE k \in {"post", "expect"} -> <<"line", "blank", "data">>
      [] k = "chunked" -> <<"line", "blank", "chunk", "last", "blank">>
      [] k = "h2" -> <<"pri", "sm">>
      [] OTHER -> <<"line", "blank">>
Wire(ks) == FlattenSeq([r \in DOMAIN ks |-> [i \in DOMAIN Pieces(ks[r]) |-> [r |-> r, t |-> Pieces(ks[r])[i]]]])
Tokens == [r : Requests, t : {"line", "blank", "chunk", "last", "data", "pri", "sm"}]
Interim == "100"
Finals == {"ok", "err", "101"}

TypeOK ==
    /\ tls \in BOOLEAN /\ pipelined \in BOOLEAN /\ kind \in Seq(Kinds)
    /\ tosend \in Seq(Tokens) /\ req_accum_ \in Seq(Tokens)
    /\ alive \in BOOLEAN /\ first_packet \in BOOLEAN /\ keep_alive \in BOOLEAN
    /\ resp_batch_ \in Seq(Requests)
    /\ place \in {"recv", "parse", "flush", "closed", "upgraded"}
    /\ place = "recv" => resp_batch_ = <<>> /\ keep_alive
    /\ out \in Seq([r : Requests, what : Finals \cup {Interim}])

Init ==
    /\ tls \in BOOLEAN /\ pipelined \in BOOLEAN
    /\ kind \in UNION {[1 .. n -> Kinds] : n \in 1 .. MaxRequests}
    /\ tosend = Wire(kind) /\ alive = TRUE
    /\ first_packet = TRUE /\ req_accum_ = <<>> /\ resp_batch_ = <<>>
    /\ keep_alive = TRUE /\ place = "recv" /\ out = <<>>

Answered(r) == \E i \in DOMAIN out : out[i].r = r /\ out[i].what \in Finals

-----------------------------------------------------------------------------
(***************************************************************************)
(* Http1Parser::parse on the unparsed part of the buffer.                  *)
(***************************************************************************)
More(expect) == [status |-> "more", used |-> 0, expect |-> expect]
Complete(n) == [status |-> "complete", used |-> n, expect |-> FALSE]
Error == [status |-> "error", used |-> 0, expect |-> FALSE]

EndsLine(tok) == tok.t # "data"

\* where find_double_crlf() from piece c on ends, or 0
DoubleCrlf(buf, c) ==
    LET ends == {i \in c + 1 .. Len(buf) : EndsLine(buf[i - 1]) /\ buf[i].t = "blank"}
    IN  IF ends = {} THEN 0 ELSE CHOOSE i \in ends : \A j \in ends : i <= j

\* the trailer section behind the last chunk, which starts at piece c
AfterLastChunk(buf, c) ==
    IF DoubleCrlf(buf, c) # 0 THEN Complete(DoubleCrlf(buf, c))
    ELSE IF c <= Len(buf) /\ buf[c].t = "blank" THEN Complete(c) ELSE More(FALSE)

\* Mutant: a body that has not arrived is taken as empty
Body_Short(buf, k) ==
    CASE k \in {"post", "expect"} -> Complete(IF Len(buf) < 3 THEN 2 ELSE 3)
      [] k = "chunked" -> IF Len(buf) < 4 THEN More(FALSE) ELSE AfterLastChunk(buf, 5)
      [] OTHER -> Complete(2)

Body(buf, k) ==
    CASE k \in {"post", "expect"} -> IF Len(buf) < 3 THEN More(k = "expect") ELSE Complete(3)
      [] k = "chunked" -> IF Len(buf) < 4 THEN More(FALSE) ELSE AfterLastChunk(buf, 5)
      [] OTHER -> Complete(2)

Parse(buf) ==
    IF buf = <<>> THEN More(FALSE) ELSE
    LET k == kind[buf[1].r]
    IN  CASE buf[1].t = "data" -> IF Len(buf) = 1 THEN More(FALSE) ELSE Error
          [] buf[1].t # "line" \/ k = "bad" -> Error
          [] Len(buf) < 2 -> More(k = "expect")
          [] OTHER -> Body(buf, k)

-----------------------------------------------------------------------------
Say(rs, what) == out' = IF alive THEN out \o [i \in DOMAIN rs |-> [r |-> rs[i], what |-> what]] ELSE out
Rest(seq, n) == SubSeq(seq, n + 1, Len(seq))

\* any number of pieces arrive; a client that does not pipeline sends a
\* request only after the one before has been answered
Recv ==
    /\ place = "recv" /\ tosend # <<>> /\ alive
    /\ \E n \in 1 .. Len(tosend) :
           /\ pipelined \/ \A i \in 1 .. n : \A r \in 1 .. tosend[i].r - 1 : Answered(r)
           /\ req_accum_' = req_accum_ \o SubSeq(tosend, 1, n)
           /\ tosend' = Rest(tosend, n)
    /\ place' = "parse"
    /\ UNCHANGED <<tls, pipelined, kind, alive, first_packet, resp_batch_, keep_alive, out>>

\* recv returns nothing more: the client has finished or is gone
RecvEnds ==
    /\ place = "recv" /\ (tosend = <<>> \/ ~alive)
    /\ place' = "closed"
    /\ UNCHANGED <<tls, pipelined, kind, tosend, alive, first_packet, req_accum_, resp_batch_, keep_alive, out>>

ClientGone ==
    /\ alive /\ place \notin {"closed", "upgraded"}
    /\ alive' = FALSE
    /\ UNCHANGED <<tls, pipelined, kind, tosend, first_packet, req_accum_, resp_batch_, keep_alive, place, out>>

\* the preface is looked for in the first packet only
HasPreface ==
    /\ first_packet /\ ~tls
    /\ Len(req_accum_) >= 2 /\ req_accum_[1].t = "pri" /\ req_accum_[2].t = "sm"

H2Direct ==
    /\ place = "parse" /\ HasPreface
    /\ place' = "upgraded"
    /\ UNCHANGED <<tls, pipelined, kind, tosend, alive, first_packet, req_accum_, resp_batch_, keep_alive, out>>

\* NeedMoreData, or everything parsed: leave the inner loop
ParseMore ==
    /\ place = "parse" /\ ~HasPreface
    /\ Parse(req_accum_).status = "more"
    /\ Say(IF Parse(req_accum_).expect THEN <<req_accum_[1].r>> ELSE <<>>, Interim)
    /\ first_packet' = FALSE /\ place' = "flush"
    /\ UNCHANGED <<tls, pipelined, kind, tosend, alive, req_accum_, resp_batch_, keep_alive>>

\* the error response is sent at once, the batch afterwards
ParseError ==
    /\ place = "parse" /\ ~HasPreface
    /\ Parse(req_accum_).status = "error"
    /\ Say(<<req_accum_[1].r>>, "err")
    /\ first_packet' = FALSE /\ keep_alive' = FALSE /\ place' = "flush"
    /\ UNCHANGED <<tls, pipelined, kind, tosend, alive, req_accum_, resp_batch_>>

\* a complete request of one of the kinds ks is at the front of the buffer
Parsed(ks) ==
    /\ place = "parse" /\ ~HasPreface
    /\ Parse(req_accum_).status = "complete"
    /\ kind[req_accum_[1].r] \in ks
    /\ first_packet' = FALSE
Consume == req_accum_' = Rest(req_accum_, Parse(req_accum_).used)

\* the batch is sent, then the 101, and another protocol takes the socket
Upgrade ==
    /\ ~tls /\ Parsed({"ws", "h2c"})
    /\ out' = IF alive THEN out \o [i \in DOMAIN resp_batch_ |-> [r |-> resp_batch_[i], what |-> "ok"]]
                                \o <<[r |-> req_accum_[1].r, what |-> "101"]>> ELSE out
    /\ resp_batch_' = <<>> /\ Consume /\ place' = "upgraded"
    /\ UNCHANGED <<tls, pipelined, kind, tosend, alive, keep_alive>>

\* the response of a handler joins the batch
Respond ==
    /\ Parsed({"get", "head", "post", "chunked", "expect", "close"} \cup IF tls THEN {"ws", "h2c"} ELSE {})
    /\ resp_batch_' = Append(resp_batch_, req_accum_[1].r)
    /\ Consume
    /\ keep_alive' = (kind[req_accum_[1].r] # "close")
    /\ place' = IF keep_alive' THEN "parse" ELSE "flush"
    /\ UNCHANGED <<tls, pipelined, kind, tosend, alive, out>>

\* Mutant: a file is sent ahead of the batch
RespondDirect_NoFlush ==
    /\ Parsed({"file", "sse"})
    /\ Say(<<req_accum_[1].r>>, "ok")
    /\ Consume
    /\ keep_alive' = (kind[req_accum_[1].r] # "sse" /\ alive)
    /\ place' = IF keep_alive' THEN "parse" ELSE "flush"
    /\ UNCHANGED <<tls, pipelined, kind, tosend, alive, resp_batch_>>

\* files and event streams: the batch first, then headers and body at once
RespondDirect ==
    /\ Parsed({"file", "sse"})
    /\ Say(Append(resp_batch_, req_accum_[1].r), "ok")
    /\ resp_batch_' = <<>>
    /\ Consume
    /\ keep_alive' = (kind[req_accum_[1].r] # "sse" /\ alive)
    /\ place' = IF keep_alive' THEN "parse" ELSE "flush"
    /\ UNCHANGED <<tls, pipelined, kind, tosend, alive>>

\* Mutant: the batch is dropped when the connection is about to close
Flush_OnlyKeepAlive ==
    /\ place = "flush"
    /\ Say(IF keep_alive THEN resp_batch_ ELSE <<>>, "ok")
    /\ resp_batch_' = <<>>
    /\ place' = IF keep_alive /\ (alive \/ resp_batch_ = <<>>) THEN "recv" ELSE "closed"
    /\ UNCHANGED <<tls, pipelined, kind, tosend, alive, first_packet, req_accum_, keep_alive>>

\* Mutant: what has been parsed stays in the batch
Flush_NoClear ==
    /\ place = "flush"
    /\ Say(resp_batch_, "ok")
    /\ place' = IF keep_alive /\ (alive \/ resp_batch_ = <<>>) THEN "recv" ELSE "closed"
    /\ UNCHANGED <<tls, pipelined, kind, tosend, alive, first_packet, req_accum_, resp_batch_, keep_alive>>

Flush ==
    /\ place = "flush"
    /\ Say(resp_batch_, "ok")
    /\ resp_batch_' = <<>>
    /\ place' = IF keep_alive /\ (alive \/ resp_batch_ = <<>>) THEN "recv" ELSE "closed"
    /\ UNCHANGED <<tls, pipelined, kind, tosend, alive, first_packet, req_accum_, keep_alive>>

Over == place \in {"closed", "upgraded"} /\ UNCHANGED vars

Server == H2Direct \/ ParseMore \/ ParseError \/ Upgrade \/ Respond \/ RespondDirect \/ Flush \/ RecvEnds
Next == Recv \/ ClientGone \/ Server \/ Over

\* the client goes on sending, the event loop resumes the coroutine
Spec == Init /\ [][Next]_vars /\ WF_vars(Recv) /\ WF_vars(Server)

-----------------------------------------------------------------------------
(***************************************************************************)
(* Properties                                                              *)
(***************************************************************************)
\* Requests whose end the parser looks for in what belongs to the next ones.
Swallows(q) == pipelined /\ kind[q] = "chunked"

\* Responses leave in the order of the requests, at most one final response
\* each, however the requests are cut into packets and batched.  The refusal
\* of a pipelined request is sent at once, ahead of the batch.
ResponsesInOrder ==
    LET finals == SelectSeq(out, LAMBDA o : o.what \in Finals \ (IF pipelined THEN {"err"} ELSE {}))
    IN  \A i, j \in DOMAIN finals : i < j => finals[i].r < finals[j].r

\* Every request is answered, up to the first that ends the connection, hands
\* it to another protocol or swallows what follows, unless the client goes.
Settled(r) ==
    \/ ~alive \/ r \notin Requests \/ Answered(r) \/ kind[r] = "h2"
    \/ \E q \in 1 .. r - 1 :
          kind[q] \in {"close", "sse", "ws", "h2c", "bad", "h2"} \/ Swallows(q)
EveryRequestAnswered == \A r \in 1 .. MaxRequests : <>[]Settled(r)

\* Only a request that is wrong is refused: a bad one, the preface of HTTP/2
\* over TLS or in pieces, or what a chunked request left of the next.
OnlyBadRefused ==
    \A i \in DOMAIN out :
        out[i].what = "err" =>
            \/ kind[out[i].r] \in {"bad", "h2"}
            \/ \E q \in 1 .. out[i].r - 1 : Swallows(q)
=============================================================================
