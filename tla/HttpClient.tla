----------------------------- MODULE HttpClient -----------------------------
(***************************************************************************)
(* HttpClient over HTTP/1.1: coroutines of one event loop send requests on *)
(* connections of a ConnectionPool and follow redirects                    *)
(* (src/src/http/client).                                                  *)
(*                                                                         *)
(* A response is a sequence of segments: its head, which carries status    *)
(* and headers, and its body.  A read takes one segment or several.  The   *)
(* server is external: it answers a connection's requests in order.        *)
(***************************************************************************)
EXTENDS Integers, FiniteSets, SequencesExt

CONSTANTS
    Clients,        \* coroutines
    Origins, Https, \* origins, and those reached through TLS
    MaxIdle,        \* max_idle_connections
    MaxPerHost,     \* max_connections_per_host
    Width,          \* what redirect_count, an uint8_t, wraps at, made small
    Settings,       \* triples: max_redirects, how many calls are made, with which methods
    MaxFaults,      \* bound: what the peers, the network or the clock do
    None

ClientAssumption ==
    /\ IsFiniteSet(Clients) /\ Https \subseteq Origins
    /\ {MaxIdle, MaxPerHost, MaxFaults} \subseteq Nat
    /\ Settings \subseteq (0 .. Width - 1) \X Nat \X SUBSET {"GET", "POST", "HEAD"}

VARIABLES
    limit_, calls, methods, \* max_redirects; calls still to be made, and their methods
    place, req,     \* client -> where its call is; the RequestState of this hop
    hops,           \* client -> redirect_count
    conn, recv_buf, \* client -> the connection it holds and what it read there
    out,            \* client -> the request its last Response answers
    idle_conns_,    \* origin -> idle connections, the last one taken first
    socket,         \* connection -> its two ends, what is under way, its age
    faults,
    asked, crossed, \* history: requests of this call; calls that changed origin
    odd             \* history: a response came that parse_response misreads

call == <<place, req, hops, conn, recv_buf, out, asked, crossed>>
vars == <<limit_, methods, calls, call, idle_conns_, socket, faults, odd>>

-----------------------------------------------------------------------------
Conns == 1 .. Cardinality(Clients) + MaxIdle
Idle == UNION {Range(idle_conns_[o]) : o \in Origins}
Held == {conn[c] : c \in Clients} \ {None}
Fresh == CHOOSE n \in Conns \ (Idle \cup Held) : \A m \in Conns \ (Idle \cup Held) : n <= m
NoRequest == [id |-> None, origin |-> None, method |-> "GET", body |-> FALSE, secret |-> FALSE]
\* wire holds whole requests, inbox segments to read.
NoSocket == [fd |-> FALSE, peer |-> FALSE, origin |-> None, old |-> FALSE, wire |-> <<>>, inbox |-> <<>>]
BadGateway == [of |-> None, code |-> 502]

Init ==
    /\ \E s \in Settings : limit_ = s[1] /\ calls = s[2] /\ methods = s[3]
    /\ place = [c \in Clients |-> "idle"] /\ req = [c \in Clients |-> NoRequest]
    /\ hops = [c \in Clients |-> 0]
    /\ conn = [c \in Clients |-> None] /\ recv_buf = [c \in Clients |-> <<>>]
    /\ out = [c \in Clients |-> None]
    /\ idle_conns_ = [o \in Origins |-> <<>>] /\ socket = [n \in Conns |-> NoSocket]
    /\ faults = 0 /\ odd = FALSE
    /\ asked = [c \in Clients |-> 0] /\ crossed = {}

Fault == faults < MaxFaults /\ faults' = faults + 1

-----------------------------------------------------------------------------
(* ConnectionPool *)

idle_count == Cardinality(Idle)

\* PooledConnection::close().
close(n, sockets) == [sockets EXCEPT ![n] = NoSocket]

\* Mutant: the bound over all hosts is forgotten.
release_PerHost(n, keep_alive, sockets) ==
    LET o == sockets[n].origin IN
    IF keep_alive /\ Len(idle_conns_[o]) < MaxPerHost
      THEN idle_conns_' = [idle_conns_ EXCEPT ![o] = Append(@, n)] /\ socket' = sockets
      ELSE socket' = close(n, sockets) /\ UNCHANGED idle_conns_
\* release() of an open connection.
release(n, keep_alive, sockets) ==
    LET o == sockets[n].origin IN
    IF keep_alive /\ idle_count < MaxIdle /\ Len(idle_conns_[o]) < MaxPerHost
      THEN idle_conns_' = [idle_conns_ EXCEPT ![o] = Append(@, n)] /\ socket' = sockets
      ELSE socket' = close(n, sockets) /\ UNCHANGED idle_conns_

\* Mutant: the connection taken stays in the list.
acquire_Kept(c) ==
    LET o == req[c].origin
        list == idle_conns_[o]
        top == Len(list)
    IN /\ place[c] = "acquire"
       /\ conn' = [conn EXCEPT ![c] = IF top = 0 THEN None ELSE list[top]]
       /\ place' = [place EXCEPT ![c] = IF top = 0 THEN "connect" ELSE "write"]
       /\ UNCHANGED <<limit_, methods, calls, req, hops, recv_buf, out, asked, crossed, idle_conns_, socket, faults, odd>>
\* acquire(): the idle connection given back last; expired ones met on the way
\* are closed.  Nothing tells that the server has closed one.
acquire(c) ==
    LET o == req[c].origin
        list == idle_conns_[o]
        top == Max({0} \cup {i \in DOMAIN list : ~socket[list[i]].old})
        gone == {list[i] : i \in top + 1 .. Len(list)}
    IN /\ place[c] = "acquire"
       /\ idle_conns_' = [idle_conns_ EXCEPT ![o] = SubSeq(list, 1, top - 1)]
       /\ socket' = [n \in Conns |-> IF n \in gone THEN NoSocket ELSE socket[n]]
       /\ conn' = [conn EXCEPT ![c] = IF top = 0 THEN None ELSE list[top]]
       /\ place' = [place EXCEPT ![c] = IF top = 0 THEN "connect" ELSE "write"]
       /\ UNCHANGED <<limit_, methods, calls, req, hops, recv_buf, out, asked, crossed, faults, odd>>

\* The call ends with the response res and gives up its connection.
Return(c, res) ==
    /\ place' = [place EXCEPT ![c] = "idle"]
    /\ out' = [out EXCEPT ![c] = res.of]
    /\ conn' = [conn EXCEPT ![c] = None] /\ recv_buf' = [recv_buf EXCEPT ![c] = <<>>]
    /\ req' = [req EXCEPT ![c] = [NoRequest EXCEPT !.id = req[c].id]]
    /\ hops' = [hops EXCEPT ![c] = 0] /\ asked' = [asked EXCEPT ![c] = 0]
    /\ crossed' = crossed \ {c}

\* create_connection(): a socket that connects,
create_connection(c) ==
    LET n == Fresh IN
    /\ place[c] = "connect"
    /\ conn' = [conn EXCEPT ![c] = n]
    /\ socket' = [socket EXCEPT ![n] = [@ EXCEPT !.fd = TRUE, !.peer = TRUE, !.origin = req[c].origin]]
    /\ place' = [place EXCEPT ![c] = IF req[c].origin \in Https THEN "handshake" ELSE "write"]
    /\ UNCHANGED <<limit_, methods, calls, req, hops, recv_buf, out, asked, crossed, idle_conns_, faults, odd>>
\* TlsClientStream::handshake() on it,
handshake(c) ==
    /\ place[c] = "handshake"
    /\ place' = [place EXCEPT ![c] = "write"]
    /\ UNCHANGED <<limit_, methods, calls, req, hops, conn, recv_buf, out, asked, crossed, idle_conns_, socket, faults, odd>>
\* or a failed lookup, connect or handshake; the socket is closed.
connect_failed(c) ==
    /\ place[c] \in {"connect", "handshake"} /\ Fault
    /\ socket' = IF conn[c] = None THEN socket ELSE close(conn[c], socket)
    /\ Return(c, BadGateway)
    /\ UNCHANGED <<limit_, methods, calls, idle_conns_, odd>>

\* HttpClient::close(): idle connections only.
clear ==
    /\ Idle # {} /\ Fault
    /\ socket' = [n \in Conns |-> IF n \in Idle THEN NoSocket ELSE socket[n]]
    /\ idle_conns_' = [o \in Origins |-> <<>>]
    /\ UNCHANGED <<limit_, methods, calls, call, odd>>

-----------------------------------------------------------------------------
(* execute() and execute_single() *)

\* A call of the application: credentials are set, a POST has a body.
send(c, o, m) ==
    /\ place[c] = "idle" /\ calls > 0 /\ calls' = calls - 1
    /\ req' = [req EXCEPT ![c] =
          [id |-> <<calls, 0>>, origin |-> o, method |-> m, body |-> m = "POST", secret |-> TRUE]]
    /\ place' = [place EXCEPT ![c] = "acquire"]
    /\ out' = [out EXCEPT ![c] = None] /\ asked' = [asked EXCEPT ![c] = 1]
    /\ UNCHANGED <<limit_, methods, hops, conn, recv_buf, crossed, idle_conns_, socket, faults, odd>>

\* A plain send() may take a part; write_plaintext() sends all or fails.
TakesPart(o) == o \notin Https
\* The request goes out, whole.  Towards a server that has closed it is lost.
\* A part of it counts as success.
write(c) ==
    LET n == conn[c] IN
    /\ place[c] = "write"
    /\ \/ /\ place' = [place EXCEPT ![c] = "read"] /\ UNCHANGED faults
          /\ socket' = IF socket[n].peer THEN [socket EXCEPT ![n].wire = Append(@, req[c])] ELSE socket
       \/ /\ socket[n].peer /\ TakesPart(req[c].origin) /\ Fault
          /\ place' = [place EXCEPT ![c] = "stuck"] /\ UNCHANGED socket
    /\ UNCHANGED <<limit_, methods, calls, req, hops, conn, recv_buf, out, asked, crossed, idle_conns_, odd>>
write_failed(c) ==
    /\ place[c] = "write" /\ ~socket[conn[c]].peer
    /\ socket' = close(conn[c], socket) /\ Return(c, BadGateway)
    /\ UNCHANGED <<limit_, methods, calls, idle_conns_, faults, odd>>

\* Mutant: the body is not waited for.
parse_response_Head(buf) == IF buf[1].k = "body" THEN "Error" ELSE "Complete"
\* parse_response(): a head that announces a body needs it; a 1xx status, and a
\* head without length, are complete as they stand.
parse_response(buf) ==
    CASE buf[1].k = "body" -> "Error"
      [] buf[1].k = "head" /\ Len(buf) = 1 -> "NeedMoreData"
      [] OTHER -> "Complete"

Redirects == {302, 303, 307}
ToGet(r, code) == code = 303 \/ (code = 302 /\ r.method = "POST")

\* Mutant: credentials follow the redirect.
check_redirect_Trusting(r, res, count) ==
    [r EXCEPT !.id = <<r.id[1], count>>, !.origin = res.to,
              !.method = IF ToGet(r, res.code) /\ @ # "HEAD" THEN "GET" ELSE @,
              !.body = @ /\ ~ToGet(r, res.code)]
\* Mutant: the body follows the redirect.
check_redirect_Body(r, res, count) ==
    [r EXCEPT !.id = <<r.id[1], count>>, !.origin = res.to,
              !.method = IF ToGet(r, res.code) /\ @ # "HEAD" THEN "GET" ELSE @,
              !.secret = @ /\ res.to = r.origin]
\* check_redirect(): the request of the next hop.
check_redirect(r, res, count) ==
    [r EXCEPT !.id = <<r.id[1], count>>, !.origin = res.to,
              !.method = IF ToGet(r, res.code) /\ @ # "HEAD" THEN "GET" ELSE @,
              !.body = @ /\ ~ToGet(r, res.code),
              !.secret = @ /\ res.to = r.origin]

\* Mutant: the limit is compared before the redirect is counted.
Follows_Late(c, res) == res.code \in Redirects /\ hops[c] <= limit_
\* redirect_count is incremented, as an uint8_t, before it is compared.
Follows(c, res) == res.code \in Redirects /\ (hops[c] + 1) % Width <= limit_

\* The end of a hop: the call returns, or goes on with the next request.
execute(c, res) ==
    IF Follows(c, res)
      THEN LET count == (hops[c] + 1) % Width IN
           /\ req' = [req EXCEPT ![c] = check_redirect(@, res, count)]
           /\ hops' = [hops EXCEPT ![c] = count]
           /\ place' = [place EXCEPT ![c] = "acquire"]
           /\ conn' = [conn EXCEPT ![c] = None] /\ recv_buf' = [recv_buf EXCEPT ![c] = <<>>]
           /\ asked' = [asked EXCEPT ![c] = IF @ > Width THEN @ ELSE @ + 1]
           /\ crossed' = IF res.to # req[c].origin THEN crossed \cup {c} ELSE crossed
           /\ UNCHANGED out
      ELSE Return(c, res)

\* A read returned k segments.
read(c, k) ==
    LET n == conn[c]
        buf == recv_buf[c] \o SubSeq(socket[n].inbox, 1, k)
        sockets == [socket EXCEPT ![n].inbox = SubSeq(@, k + 1, Len(@))]
        status == parse_response(buf)
    IN /\ place[c] = "read" /\ k <= Len(socket[n].inbox)
       /\ CASE status = "NeedMoreData" ->
                 /\ recv_buf' = [recv_buf EXCEPT ![c] = buf] /\ socket' = sockets
                 /\ UNCHANGED <<place, req, hops, conn, out, asked, crossed, idle_conns_>>
            [] status = "Error" ->
                 socket' = close(n, sockets) /\ Return(c, BadGateway) /\ UNCHANGED idle_conns_
            [] OTHER -> release(n, ~buf[1].close, sockets) /\ execute(c, buf[1])
       /\ UNCHANGED <<limit_, methods, calls, faults, odd>>

\* Mutant: the end of the stream is taken for a short read.
read_eof_Again(c) == FALSE /\ UNCHANGED vars
\* The server has closed: what was read so far is the response, its status
\* included; with nothing read the call ends in 502.
read_eof(c) ==
    /\ place[c] \in {"read", "stuck"} /\ socket[conn[c]].inbox = <<>> /\ ~socket[conn[c]].peer
    /\ socket' = close(conn[c], socket)
    /\ IF recv_buf[c] = <<>> THEN Return(c, BadGateway) ELSE execute(c, recv_buf[c][1])
    /\ UNCHANGED <<limit_, methods, calls, idle_conns_, faults, odd>>

-----------------------------------------------------------------------------
(* The servers (external) *)

Segment(k, r, code, to, close_) == [k |-> k, of |-> r.id, code |-> code, to |-> to, close |-> close_]
\* A response of known length; to HEAD its head alone.
Whole(r, code, to, close_) ==
    <<Segment("head", r, code, to, close_)>>
    \o IF r.method = "HEAD" THEN <<>> ELSE <<Segment("body", r, 0, None, FALSE)>>

\* The server answers the first request of a connection, and may close it.
Put(n, segments, closes) ==
    socket' = [socket EXCEPT ![n] = [@ EXCEPT !.wire = Tail(@), !.inbox = @ \o segments, !.peer = ~closes]]
Answer(n) ==
    /\ socket[n].peer /\ socket[n].wire # <<>>
    /\ LET r == Head(socket[n].wire) IN
       \/ \E code \in Redirects, to \in Origins : Put(n, Whole(r, code, to, FALSE), FALSE)
       \/ \E closes \in BOOLEAN : Put(n, Whole(r, 200, None, closes), closes)
    /\ UNCHANGED <<limit_, methods, calls, call, idle_conns_, faults, odd>>
\* It closes before the end of the answer.
AnswerCut(n) ==
    /\ socket[n].peer /\ socket[n].wire # <<>> /\ Fault
    /\ \E cut \in {0, 1} : Put(n, SubSeq(Whole(Head(socket[n].wire), 200, None, FALSE), 1, cut), TRUE)
    /\ UNCHANGED <<limit_, methods, calls, call, idle_conns_, odd>>
\* It sends a 1xx response before the answer, or ends the body by closing.
AnswerOdd(n) ==
    /\ socket[n].peer /\ socket[n].wire # <<>> /\ Fault
    /\ LET r == Head(socket[n].wire) IN
       \/ Put(n, <<Segment("interim", r, 103, None, FALSE)>> \o Whole(r, 200, None, FALSE), FALSE)
       \/ Put(n, <<Segment("bare", r, 200, None, FALSE), Segment("body", r, 0, None, FALSE)>>, TRUE)
    /\ odd' = TRUE
    /\ UNCHANGED <<limit_, methods, calls, call, idle_conns_>>

\* A server gives up a connection nobody has asked anything on.
PeerCloses(n) ==
    /\ socket[n].peer /\ socket[n].wire = <<>> /\ Fault
    /\ socket' = [socket EXCEPT ![n].peer = FALSE]
    /\ UNCHANGED <<limit_, methods, calls, call, idle_conns_, odd>>
\* The idle timeout of a connection passes.
Expire(n) ==
    /\ n \in Idle /\ ~socket[n].old /\ Fault
    /\ socket' = [socket EXCEPT ![n].old = TRUE]
    /\ UNCHANGED <<limit_, methods, calls, call, idle_conns_, odd>>

-----------------------------------------------------------------------------
Runs(c) ==
    \/ acquire(c) \/ create_connection(c) \/ handshake(c) \/ connect_failed(c)
    \/ write(c) \/ write_failed(c) \/ read_eof(c)
    \/ \E k \in 1 .. 3 : read(c, k)
\* Every call has been made; some may be waiting for ever.
Rest == calls = 0 /\ UNCHANGED vars

Next ==
    \/ \E c \in Clients : Runs(c)
    \/ \E c \in Clients, o \in Origins, m \in methods : send(c, o, m)
    \/ \E n \in Conns : Answer(n) \/ AnswerCut(n) \/ AnswerOdd(n) \/ PeerCloses(n) \/ Expire(n)
    \/ clear
    \/ Rest

\* The event loop resumes a coroutine whose operation is done; servers answer.
Spec ==
    /\ Init /\ [][Next]_vars
    /\ \A c \in Clients : WF_vars(Runs(c))
    /\ \A n \in Conns : WF_vars(Answer(n))

-----------------------------------------------------------------------------
\* Every open socket is idle in the list of its origin or held by one call,
\* and idle connections keep to max_idle_connections and
\* max_connections_per_host (ConnectionPool).
SocketsAccounted ==
    /\ {n \in Conns : socket[n].fd} = Idle \cup Held
    /\ Idle \cap Held = {}
    /\ \A c, d \in Clients : c # d /\ conn[c] # None => conn[c] # conn[d]
    /\ \A o \in Origins :
          /\ Len(idle_conns_[o]) <= MaxPerHost /\ IsInjective(idle_conns_[o])
          /\ \A n \in Range(idle_conns_[o]) : socket[n].origin = o
    /\ idle_count <= MaxIdle

\* Unless a response came that parse_response misreads (a 1xx status, a body
\* ended by the close), nothing waits on an idle connection and a call returns
\* the answer to its own last request (execute_single).
RightResponse ==
    ~odd => /\ \A n \in Idle : socket[n].inbox = <<>> /\ socket[n].wire = <<>>
            /\ \A c \in Clients : place[c] = "idle" => out[c] \in {None, req[c].id}

\* However redirects chain, credentials stay with the first origin, a body
\* goes out with POST only, and a call makes at most max_redirects further
\* requests, provided max_redirects is below the largest uint8_t
\* (check_redirect).
RedirectsBounded ==
    \A c \in Clients :
        /\ c \in crossed => ~req[c].secret
        /\ req[c].body <=> req[c].method = "POST"
        /\ limit_ < Width - 1 => asked[c] <= limit_ + 1

\* A call ends when the servers answer, except after a partial write, for
\* HEAD, whose announced body never comes, and with the largest max_redirects:
\* there is no timeout (execute).
Excused(c) == place[c] = "stuck" \/ req[c].method = "HEAD" \/ limit_ = Width - 1
Ended(c) == place[c] = "idle" \/ Excused(c)
RequestsEnd == \A c \in Clients : <>[]Ended(c)
=============================================================================
