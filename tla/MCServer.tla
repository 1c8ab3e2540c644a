------------------------------ MODULE MCServer ------------------------------
(***************************************************************************)
(* The service registry, and the pure conversions of the data layer        *)
(* (replies, values and statements, which share x1 and x2) in one run.  A  *)
(* behaviour is a behaviour of one of them, named by part; the others stay *)
(* as they are.                                                            *)
(***************************************************************************)
EXTENDS ServiceRegistry, Integers

VARIABLES part, x1, x2

\* Round the years -400, 0 and 1, 1600, 1970, 2000, the end of February 2000,
\* 2100 and 2400.
SomeDays == UNION {c - 70 .. c + 70 :
    c \in {-865625, -719528, -719468, -135140, 0, 10957, 11016, 47541, 157113}}
SomeColumns == <<"id", "name", "note", "price">>
SomeChildren == {[fk |-> 1, a |-> 1], [fk |-> 1, a |-> 0], [fk |-> 2, a |-> 2]}

Replies == INSTANCE RedisReplies WITH
    input <- x1, output <- x2
Types == INSTANCE DataTypes WITH
    Days <- SomeDays, Micros <- 100, Digits <- 2, Scale <- 2, MaxRaw <- 1100, Bits <- 3,
    Wrap <- 64, input <- x1, output <- x2
Statements == INSTANCE SqlStatements WITH
    MaxConds <- 3, MaxRows <- 5, MaxParams <- 5, Columns <- SomeColumns,
    Children <- SomeChildren, built <- x1, result <- x2

ASSUME Types!TypesAssumption

values == <<x1, x2>>
all == <<part, vars, values>>

MCInit ==
    /\ Init
    /\ \/ part = "registry" /\ x1 = 0 /\ x2 = 0
       \/ part = "replies" /\ Replies!Init
       \/ part = "types" /\ Types!Init
       \/ part = "statements" /\ Statements!Init
MCNext ==
    \/ part = "registry" /\ Next /\ UNCHANGED <<part, values>>
    \/ part = "replies" /\ Replies!Next /\ UNCHANGED <<part, vars>>
    \/ part = "types" /\ Types!Next /\ UNCHANGED <<part, vars>>
    \/ part = "statements" /\ Statements!Next /\ UNCHANGED <<part, vars>>

MCSpec == MCInit /\ [][MCNext]_all

-----------------------------------------------------------------------------
\* Replies, values and statements mean on the other side what they meant here
\* (RedisReplies, DataTypes, SqlStatements).
ConversionsAgree ==
    /\ part = "replies" => Replies!RepliesAgree
    /\ part = "types" => Types!TypesRight
    /\ part = "statements" => Statements!StatementsRight
=============================================================================
