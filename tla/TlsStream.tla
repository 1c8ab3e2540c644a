----------------------------- MODULE TlsStream ------------------------------
(***************************************************************************)
(* A TLS connection: the server's stream (src/src/net/tls/TlsStream.cpp)   *)
(* under Server::handle_tls_connection, and the client's                   *)
(* (src/src/http/client/TlsClientStream.cpp).  OpenSSL works on two memory *)
(* BIOs; coroutines move what they hold to and from the socket.  Besides   *)
(* the connection's own coroutine there may be one that pushes (the writer *)
(* of an event stream).  A record is [key, seq, by]; records of the        *)
(* handshake have key "hs", and the others count from 0.                   *)
(***************************************************************************)
EXTENDS Integers, SequencesExt

CONSTANTS MaxMessages, MaxPushes    \* of the peer's application, and of the second coroutine

TlsAssumption == MaxMessages \in Nat /\ MaxPushes \in Nat

Writers == {"main", "push"}

VARIABLES
    setup,          \* [side, proto, ktls]
    pc,             \* the connection's coroutine
    ssl,            \* OpenSSL: [need, hello, seq]: messages the handshake needs, records written
    in_bio_,        \* "" or what the peer sent: hs, data, bad
    out_bio_,       \* records
    ktls_tx_, rec_seq,      \* the kernel encrypts, and its next record
    flush,          \* per writer: [at, data], the records it is sending
    after,          \* where the connection's coroutine goes after a flush
    inbound,        \* what the peer has sent and the socket still holds
    peer,           \* what the peer does next: [hs, data, gone]
    wire,           \* records that reached the peer
    ok,             \* per writer: writes that succeeded
    pushes,
    fd,             \* who has the descriptor's number: us, nobody, another
    met             \* history: the known weak spots that were met

vars == <<setup, pc, ssl, in_bio_, out_bio_, ktls_tx_, rec_seq, flush, after, inbound, peer, wire, ok, pushes, fd, met>>

Server == setup.side = "server"
Idle == [at |-> "off", data |-> <<>>]

Init ==
    /\ setup \in [side : {"server"}, proto : {"h1", "h2"}, ktls : BOOLEAN]
                 \cup [side : {"client"}, proto : {"h1"}, ktls : {FALSE}]
    /\ pc = "handshake"
    /\ ssl = [need |-> IF Server THEN 2 ELSE 1, hello |-> ~Server, seq |-> 0]
    /\ in_bio_ = "" /\ out_bio_ = <<>> /\ ktls_tx_ = FALSE /\ rec_seq = 0
    /\ flush = [w \in Writers |-> Idle] /\ after = "none" /\ inbound = <<>>
    /\ peer = [hs |-> IF Server THEN 2 ELSE 1, data |-> MaxMessages, gone |-> FALSE]
    /\ wire = <<>> /\ ok = [w \in Writers |-> 0] /\ pushes = 0 /\ fd = "us" /\ met = {}

Hs == [key |-> "hs", seq |-> 0, by |-> "main"]
App(w, n) == [key |-> "app", seq |-> n, by |-> w]

-----------------------------------------------------------------------------
(* OpenSSL, on what the BIOs hold *)

\* What the handshake did: [ssl, out, after].
Step(s, out, then) == [ssl |-> s, out |-> out_bio_ \o out, after |-> then]
\* Mutant: the context sends a session ticket, under the application's key.
SSL_do_handshake_Ticket ==
    CASE in_bio_ = "bad" -> Step(ssl, <<>>, "fail")
      [] in_bio_ = "" /\ ssl.hello -> Step([ssl EXCEPT !.hello = FALSE], <<Hs>>, "recv-hs")
      [] in_bio_ = "" /\ ~ssl.hello -> Step(ssl, <<>>, "recv-hs")
      [] OTHER -> LET s == [ssl EXCEPT !.need = @ - 1]
                  IN IF s.need = 0 THEN Step([s EXCEPT !.seq = 1], <<App("main", 0)>>, "ready")
                     ELSE Step(s, <<Hs>>, "recv-hs")
\* SSL_do_handshake, SSL_connect: a message in, a flight out, or more to read.
\* No session ticket follows (SSL_CTX_set_num_tickets).
SSL_do_handshake ==
    CASE in_bio_ = "bad" -> Step(ssl, <<>>, "fail")
      [] in_bio_ = "" /\ ssl.hello -> Step([ssl EXCEPT !.hello = FALSE], <<Hs>>, "recv-hs")
      [] in_bio_ = "" /\ ~ssl.hello -> Step(ssl, <<>>, "recv-hs")
      [] OTHER -> LET s == [ssl EXCEPT !.need = @ - 1]
                  IN IF s.need = 0 THEN Step(s, IF Server THEN <<>> ELSE <<Hs>>, "ready")
                     ELSE Step(s, <<Hs>>, "recv-hs")

-----------------------------------------------------------------------------
(* flush_outbound *)

\* Mutant: the client's stream, too, sends the whole BIO and leaves it there.
Takes_Peek(bio) == [data |-> bio, left |-> bio]
\* The server's stream sends what is in the BIO and resets it afterwards; the
\* client's reads a piece at a time.
Takes(bio) == IF Server THEN [data |-> bio, left |-> bio] ELSE [data |-> <<Head(bio)>>, left |-> Tail(bio)]
\* w goes on with what is in the BIO, if there is something.
Flush(w, bio) ==
    IF bio = <<>> THEN flush' = [flush EXCEPT ![w] = [at |-> "done", data |-> <<>>]] /\ out_bio_' = bio
    ELSE flush' = [flush EXCEPT ![w] = [at |-> "send", data |-> Takes(bio).data]] /\ out_bio_' = Takes(bio).left

\* Mutant: the BIO is not reset.
Sent_Keeps(w) == flush' = [flush EXCEPT ![w] = [at |-> "done", data |-> <<>>]] /\ UNCHANGED out_bio_
\* BIO_reset drops also what was added meanwhile.
Sent(w) ==
    IF Server THEN flush' = [flush EXCEPT ![w] = [at |-> "done", data |-> <<>>]] /\ out_bio_' = <<>>
    ELSE Flush(w, out_bio_)
FlushSent(w) ==
    /\ flush[w].at = "send" /\ "broken" \notin met
    /\ wire' = wire \o flush[w].data /\ Sent(w)
    /\ UNCHANGED <<setup, pc, ssl, in_bio_, ktls_tx_, rec_seq, after, inbound, peer, ok, pushes, fd, met>>

\* SSL_write encrypts into the BIO, also while another coroutine sends from it.
SSL_write(w) ==
    /\ Flush(w, Append(out_bio_, App(w, ssl.seq)))
    /\ ssl' = [ssl EXCEPT !.seq = @ + 1]
    /\ met' = IF \E v \in Writers \ {w} : flush[v].at = "send" THEN met \cup {"overlap"} ELSE met

\* flush_outbound returns true.
Flushed(w) == flush[w].at = "done"
MainFlushed ==
    /\ pc = "flush" /\ Flushed("main")
    /\ flush' = [flush EXCEPT !["main"] = Idle] /\ pc' = after
    /\ ok' = IF after = "read" THEN [ok EXCEPT !["main"] = @ + 1] ELSE ok
    /\ UNCHANGED <<setup, ssl, in_bio_, out_bio_, ktls_tx_, rec_seq, after, inbound, peer, wire, pushes, fd, met>>
PushFlushed ==
    /\ Flushed("push")
    /\ flush' = [flush EXCEPT !["push"] = Idle] /\ ok' = [ok EXCEPT !["push"] = @ + 1]
    /\ UNCHANGED <<setup, pc, ssl, in_bio_, out_bio_, ktls_tx_, rec_seq, after, inbound, peer, wire, pushes, fd, met>>
\* A write that fails ends the connection, but for run_tls, which reads on.
Failed == IF Server /\ setup.proto = "h1" /\ after = "read" THEN "read" ELSE "fail"
\* A send fails, and all that follow; what the writer had is lost.
SendFails(w) ==
    /\ flush[w].at = "send" /\ peer.gone
    /\ flush' = [flush EXCEPT ![w] = Idle] /\ out_bio_' = IF Server THEN <<>> ELSE out_bio_
    /\ pc' = IF w = "main" THEN Failed ELSE pc
    /\ met' = met \cup {"broken"}
    /\ UNCHANGED <<setup, ssl, in_bio_, ktls_tx_, rec_seq, after, inbound, peer, wire, ok, pushes, fd>>

-----------------------------------------------------------------------------
(* The connection's coroutine *)

Handshake ==
    /\ pc = "handshake"
    /\ LET step == SSL_do_handshake
       IN ssl' = step.ssl /\ after' = step.after /\ Flush("main", step.out)
    /\ in_bio_' = "" /\ pc' = "flush"
    /\ UNCHANGED <<setup, ktls_tx_, rec_seq, inbound, peer, wire, ok, pushes, fd, met>>
\* recv into the BIO.  Without buffers (-ENOBUFS) the coroutine sleeps and tries
\* again, which is to wait here.
Recv(back) ==
    /\ inbound # <<>>
    /\ in_bio_' = Head(inbound) /\ inbound' = Tail(inbound) /\ pc' = back
    /\ UNCHANGED <<setup, ssl, out_bio_, ktls_tx_, rec_seq, flush, after, peer, wire, ok, pushes, fd, met>>
RecvHandshake == pc = "recv-hs" /\ Recv("handshake")
RecvData == pc = "recv" /\ Recv("read")
RecvEnd ==
    /\ pc \in {"recv-hs", "recv"} /\ inbound = <<>> /\ peer.gone
    /\ pc' = "fail"
    /\ UNCHANGED <<setup, ssl, in_bio_, out_bio_, ktls_tx_, rec_seq, flush, after, inbound, peer, wire, ok, pushes, fd, met>>
\* handshake returns true: try_enable_ktls_tx, where the kernel can.
Ready ==
    /\ pc = "ready"
    /\ ktls_tx_' = setup.ktls /\ rec_seq' = 0
    /\ pc' = "read"
    /\ UNCHANGED <<setup, ssl, in_bio_, out_bio_, flush, after, inbound, peer, wire, ok, pushes, fd, met>>

\* SSL_read: data, which is answered, or more to read, or an error.
read_plaintext ==
    /\ pc = "read"
    /\ pc' = CASE in_bio_ = "data" -> "write" [] in_bio_ = "" -> "recv" [] OTHER -> "fail"
    /\ in_bio_' = ""
    /\ UNCHANGED <<setup, ssl, out_bio_, ktls_tx_, rec_seq, flush, after, inbound, peer, wire, ok, pushes, fd, met>>

\* write_plaintext: through the kernel, or through OpenSSL and flush_outbound.
Kernel(w) ==
    \/ /\ "broken" \notin met
       /\ wire' = Append(wire, App(w, rec_seq)) /\ rec_seq' = rec_seq + 1
       /\ ok' = [ok EXCEPT ![w] = @ + 1] /\ UNCHANGED met
    \/ /\ peer.gone /\ met' = met \cup {"broken"}
       /\ UNCHANGED <<wire, rec_seq, ok>>
\* Mutant: OpenSSL encrypts although the kernel does too.
write_plaintext_Both ==
    /\ pc = "write"
    /\ SSL_write("main") /\ pc' = "flush" /\ after' = "read"
    /\ UNCHANGED <<wire, rec_seq, ok, setup, in_bio_, ktls_tx_, inbound, peer, pushes, fd>>
write_plaintext ==
    /\ pc = "write"
    /\ IF ktls_tx_
       THEN /\ Kernel("main")
            /\ pc' = IF "broken" \in met' /\ setup.proto = "h2" THEN "fail" ELSE "read"
            /\ UNCHANGED <<ssl, out_bio_, flush, after>>
       ELSE /\ SSL_write("main") /\ pc' = "flush" /\ after' = "read"
            /\ UNCHANGED <<wire, rec_seq, ok>>
    /\ UNCHANGED <<setup, in_bio_, ktls_tx_, inbound, peer, pushes, fd>>

\* The second coroutine pushes while the connection is up.
Push ==
    /\ Server /\ pc \in {"read", "recv", "write", "flush"} /\ (pc = "flush" => after = "read")
    /\ flush["push"].at = "off" /\ pushes < MaxPushes
    /\ pushes' = pushes + 1
    /\ IF ktls_tx_
       THEN Kernel("push") /\ UNCHANGED <<ssl, out_bio_, flush>>
       ELSE /\ SSL_write("push")
            /\ UNCHANGED <<wire, rec_seq, ok>>
    /\ UNCHANGED <<setup, pc, in_bio_, ktls_tx_, after, inbound, peer, fd>>

-----------------------------------------------------------------------------
(* The end: handle_tls_connection *)

\* Mutant: the connection is closed by everyone who might.
RunEnds_Twice == ssl.need = 0
\* Http1Connection::run_tls closes the descriptor, and its caller does it again.
RunEnds == Server /\ setup.proto = "h1" /\ ssl.need = 0
\* The stream is destroyed, also under a push that is still being sent.
Fail ==
    /\ pc = "fail"
    /\ flush' = [w \in Writers |-> Idle]
    /\ met' = IF flush["push"].at = "off" THEN met ELSE met \cup {"outlived"}
    /\ pc' = IF RunEnds THEN "closed" ELSE "over"
    /\ fd' = "nobody"
    /\ UNCHANGED <<setup, ssl, in_bio_, out_bio_, ktls_tx_, rec_seq, after, inbound, peer, wire, ok, pushes>>
\* shutdown and close of a number that may be another connection's by now.
CloseAgain ==
    /\ pc = "closed"
    /\ pc' = "over" /\ fd' = "nobody"
    /\ met' = IF fd = "another" THEN met \cup {"stranger"} ELSE met
    /\ UNCHANGED <<setup, ssl, in_bio_, out_bio_, ktls_tx_, rec_seq, flush, after, inbound, peer, wire, ok, pushes>>
\* A new connection gets the number.
Reuse ==
    /\ fd = "nobody" /\ pc = "closed"
    /\ fd' = "another"
    /\ UNCHANGED <<setup, pc, ssl, in_bio_, out_bio_, ktls_tx_, rec_seq, flush, after, inbound, peer, wire, ok, pushes, met>>

-----------------------------------------------------------------------------
(* The peer *)

HsSeen == Len(SelectSeq(wire, LAMBDA r : r.key = "hs"))
\* Its side of the handshake, each message after ours, or something malformed.
PeerHandshake ==
    /\ ~peer.gone /\ peer.hs > 0
    /\ IF Server THEN peer.hs = 2 \/ HsSeen = 1 ELSE HsSeen = 1
    /\ \E m \in {"hs", "bad"} : inbound' = Append(inbound, m)
    /\ peer' = [peer EXCEPT !.hs = @ - 1]
    /\ UNCHANGED <<setup, pc, ssl, in_bio_, out_bio_, ktls_tx_, rec_seq, flush, after, wire, ok, pushes, fd, met>>
PeerData ==
    /\ ~peer.gone /\ peer.hs = 0 /\ peer.data > 0 /\ ssl.need = 0
    /\ inbound' = Append(inbound, "data") /\ peer' = [peer EXCEPT !.data = @ - 1]
    /\ UNCHANGED <<setup, pc, ssl, in_bio_, out_bio_, ktls_tx_, rec_seq, flush, after, wire, ok, pushes, fd, met>>
PeerGone ==
    /\ ~peer.gone
    /\ peer' = [peer EXCEPT !.gone = TRUE]
    /\ UNCHANGED <<setup, pc, ssl, in_bio_, out_bio_, ktls_tx_, rec_seq, flush, after, inbound, wire, ok, pushes, fd, met>>

LoopStep ==
    \/ Handshake \/ RecvHandshake \/ RecvData \/ RecvEnd \/ Ready \/ read_plaintext \/ write_plaintext
    \/ MainFlushed \/ PushFlushed \/ Fail \/ CloseAgain
    \/ \E w \in Writers : FlushSent(w) \/ SendFails(w)
PeerStep == PeerHandshake \/ PeerData \/ PeerGone
Next == LoopStep \/ PeerStep \/ Push \/ Reuse \/ (pc = "over" /\ UNCHANGED vars)

-----------------------------------------------------------------------------
(* Properties *)

Apps == SelectSeq(wire, LAMBDA r : r.key = "app")
(***************************************************************************)
(* The peer gets the flights of the handshake once, and the application's  *)
(* records from 0 on, in order, each once, and none before the handshake   *)
(* is over, also when the kernel takes over from OpenSSL (rec_seq 0); a    *)
(* write that succeeded is on the wire.  The exception: the server's       *)
(* stream sends from the BIO and resets it, so that a second coroutine's   *)
(* record is lost or sent twice.                                           *)
(***************************************************************************)
RecordsExact ==
    "overlap" \notin met =>
        /\ \A i \in 1 .. Len(Apps) : Apps[i].seq = i - 1
        /\ HsSeen <= (IF Server THEN 1 ELSE 2)
        /\ Apps # <<>> => ssl.need = 0 /\ wire[Len(wire)].key = "app"
        /\ \A w \in Writers : ok[w] <= Len(SelectSeq(Apps, LAMBDA r : r.by = w))
\* A connection closes the descriptor of another only behind run_tls.
ClosesOwn == "stranger" \in met => setup = [setup EXCEPT !.side = "server", !.proto = "h1"]
TlsRight == RecordsExact /\ ClosesOwn
\* A connection whose peer is gone is over.
Over == peer.gone /\ pc = "over"

=============================================================================
