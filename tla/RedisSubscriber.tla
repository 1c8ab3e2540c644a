--------------------------- MODULE RedisSubscriber --------------------------
(***************************************************************************)
(* RedisSubscriber: one coroutine that subscribes, unsubscribes and takes  *)
(* messages on a connection of its own (src/src/data/redis).  The server   *)
(* pushes messages between the confirmations of the commands; a command    *)
(* reads the first thing that arrives, whatever it is.                     *)
(***************************************************************************)
EXTENDS Integers, FiniteSets, SequencesExt

CONSTANTS
    Channels,
    MaxCalls, MaxMessages, MaxBreaks    \* bounds

SubscriberAssumption == IsFiniteSet(Channels) /\ {MaxCalls, MaxMessages, MaxBreaks} \subseteq Nat

VARIABLES
    place,          \* idle, or the call that waits for its answer
    connected, calls,
    request,        \* the command under way: [op, channels], or NoRequest
    channels,       \* channels the server pushes on this connection
    stream,         \* what the server has sent and nobody has read: 0 is a
                    \* confirmation, n the nth message
    published, breaks,
    delivered,      \* messages next_message() returned
    swallowed,      \* history: messages read as the answer of a command
    missed          \* history: messages lost with a connection, or sent to no one

vars == <<place, connected, calls, request, channels, stream, published, breaks, delivered, swallowed,
          missed>>

NoRequest == [op |-> "none", channels |-> {}]

Init ==
    /\ place = "idle" /\ connected = FALSE /\ calls = 0
    /\ request = NoRequest /\ channels = {} /\ stream = <<>>
    /\ published = 0 /\ breaks = 0 /\ delivered = <<>> /\ swallowed = {} /\ missed = {}

-----------------------------------------------------------------------------
\* subscribe() and psubscribe() connect when they must, unsubscribe() does not.
Call(op) ==
    /\ place = "idle" /\ calls < MaxCalls /\ calls' = calls + 1
    /\ op = "unsubscribe" => connected
    /\ connected' = TRUE /\ place' = "command"
    /\ \E chs \in SUBSET Channels \ {{}} : request' = [op |-> op, channels |-> chs]
    /\ UNCHANGED <<channels, stream, published, breaks, delivered, swallowed, missed>>

\* execute(): the first reply is the answer.
Answered ==
    /\ place = "command" /\ stream # <<>>
    /\ stream' = Tail(stream) /\ place' = "idle"
    /\ swallowed' = swallowed \cup ({Head(stream)} \ {0})
    /\ UNCHANGED <<connected, calls, request, channels, published, breaks, delivered, missed>>

NextMessage ==
    /\ place = "idle" /\ connected /\ place' = "next"
    /\ UNCHANGED <<connected, calls, request, channels, stream, published, breaks, delivered, swallowed, missed>>

\* Mutant: a confirmation is returned as a message.
Skips_Nothing(x) == FALSE
\* next_message() passes over confirmations.
Skips(x) == x = 0
Received ==
    /\ place = "next" /\ stream # <<>>
    /\ stream' = Tail(stream)
    /\ IF Skips(Head(stream)) THEN UNCHANGED <<place, delivered>>
       ELSE place' = "idle" /\ delivered' = Append(delivered, Head(stream))
    /\ UNCHANGED <<connected, calls, request, channels, published, breaks, swallowed, missed>>

\* The end of the stream: close(), an error or nullopt.
Ended ==
    /\ place # "idle" /\ stream = <<>> /\ ~connected
    /\ place' = "idle"
    /\ UNCHANGED <<connected, calls, request, channels, stream, published, breaks, delivered, swallowed, missed>>

\* Mutant: what is left in read_buffer_ survives.
Close_Kept ==
    /\ place = "idle" /\ connected /\ connected' = FALSE
    /\ channels' = {} /\ request' = NoRequest
    /\ missed' = missed \cup (Range(stream) \ {0})
    /\ UNCHANGED <<place, calls, stream, published, breaks, delivered, swallowed>>
\* close() by the program.
Close ==
    /\ place = "idle" /\ connected /\ connected' = FALSE
    /\ channels' = {} /\ request' = NoRequest /\ stream' = <<>>
    /\ missed' = missed \cup (Range(stream) \ {0})
    /\ UNCHANGED <<place, calls, published, breaks, delivered, swallowed>>

-----------------------------------------------------------------------------
(* The server: one confirmation per channel *)
Serve ==
    /\ request # NoRequest /\ connected
    /\ channels' = IF request.op = "subscribe" THEN channels \cup request.channels
                   ELSE channels \ request.channels
    /\ stream' = stream \o [i \in 1 .. Cardinality(request.channels) |-> 0]
    /\ request' = NoRequest
    /\ UNCHANGED <<place, connected, calls, published, breaks, delivered, swallowed, missed>>

Publish(ch) ==
    /\ published < MaxMessages /\ published' = published + 1
    /\ IF connected /\ ch \in channels
         THEN stream' = Append(stream, published + 1) /\ UNCHANGED missed
         ELSE missed' = missed \cup {published + 1} /\ UNCHANGED stream
    /\ UNCHANGED <<place, connected, calls, request, channels, breaks, delivered, swallowed>>

\* What is on its way is lost; the subscriber finds out when it reads next.
Break ==
    /\ connected /\ place # "idle" /\ breaks < MaxBreaks /\ breaks' = breaks + 1
    /\ connected' = FALSE /\ channels' = {} /\ request' = NoRequest /\ stream' = <<>>
    /\ missed' = missed \cup (Range(stream) \ {0})
    /\ UNCHANGED <<place, calls, published, delivered, swallowed>>

Next ==
    \/ \E op \in {"subscribe", "unsubscribe"} : Call(op)
    \/ Answered \/ NextMessage \/ Received \/ Ended \/ Close \/ Serve \/ Break
    \/ \E ch \in Channels : Publish(ch)
    \/ UNCHANGED vars
Spec == Init /\ [][Next]_vars

-----------------------------------------------------------------------------
\* Messages are delivered once and in the order of publication, and each one is
\* delivered, on its way, lost with a connection, sent to nobody, or was taken
\* for the answer of a later command, which only happens while subscribed.
MessagesAccounted ==
    /\ \A i, j \in DOMAIN delivered : i < j => delivered[i] < delivered[j]
    /\ Range(delivered) \cup swallowed \cup missed \cup (Range(stream) \ {0}) = 1 .. published
    /\ Range(delivered) \cap (swallowed \cup missed) = {}
    /\ swallowed # {} => calls > 1
=============================================================================
