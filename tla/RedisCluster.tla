----------------------------- MODULE RedisCluster ---------------------------
(***************************************************************************)
(* RedisClusterRouter: commands of several coroutines on the keys of one   *)
(* hash slot while the cluster moves the slot from node to node            *)
(* (src/src/data/redis/RedisCluster.h).  Slots do not influence each       *)
(* other.  A pipeline takes its pool from pool_for_key and follows no      *)
(* redirect.                                                               *)
(***************************************************************************)
EXTENDS Integers, FiniteSets

CONSTANTS
    Clients, Nodes,
    Seed,           \* the first of seed_nodes
    None,
    MaxMoves        \* bound: migrations of the slot

ClusterAssumption == Seed \in Nodes /\ None \notin Nodes /\ MaxMoves \in Nat

VARIABLES
    slots_,         \* the node in the table of the router, or None
    kind, place,    \* client -> command or pipeline, and where it is
    target, asking, \* client -> the node it asks, and whether after ASKING
    answer,         \* client -> the answer on its way: [t, node]
    first,          \* client -> the first answer it was given
    owner, import,  \* the node that serves the slot, and the one it moves to
    left,           \* whether the keys have left the owner already
    moves,
    disturbed       \* history: clients under way when the slot was given a new owner
                    \* or its move began

router == <<slots_, kind, place, target, asking, answer, first>>
cluster == <<owner, import, left, moves>>
vars == <<router, cluster, disturbed>>

Nothing == [t |-> "none", node |-> None]

Init ==
    /\ slots_ \in Nodes \cup {None} /\ owner \in Nodes
    /\ kind \in [Clients -> {"command", "pipeline"}] /\ place = [c \in Clients |-> "start"]
    /\ target = [c \in Clients |-> None] /\ asking = [c \in Clients |-> FALSE]
    /\ answer = [c \in Clients |-> Nothing] /\ first = [c \in Clients |-> Nothing]
    /\ import = None /\ left = FALSE /\ moves = 0
    /\ disturbed = {}

Ask(c, n, a) ==
    /\ target' = [target EXCEPT ![c] = n] /\ asking' = [asking EXCEPT ![c] = a]
    /\ answer' = [answer EXCEPT ![c] = Nothing]
    /\ place' = [place EXCEPT ![c] = "sent"]

-----------------------------------------------------------------------------
pool_for_key == IF slots_ = None THEN Seed ELSE slots_

\* execute(): the node of the table; without one the table is refreshed first.
Execute(c) ==
    /\ place[c] = "start" /\ kind[c] = "command"
    /\ IF slots_ = None
         THEN place' = [place EXCEPT ![c] = "refresh"] /\ UNCHANGED <<target, asking, answer>>
         ELSE Ask(c, slots_, FALSE)
    /\ UNCHANGED <<slots_, kind, first, cluster, disturbed>>

\* RedisPipeline::execute: commands are sent to the node of their key, and the
\* answers given back in the order of the commands.
Pipeline(c) ==
    /\ place[c] = "start" /\ kind[c] = "pipeline"
    /\ Ask(c, pool_for_key, FALSE)
    /\ UNCHANGED <<slots_, kind, first, cluster, disturbed>>

\* refresh_slots(): the answer to CLUSTER SLOTS fills the table, when a seed
\* answers at all; without it the first seed is asked.
Refresh(c) ==
    /\ place[c] = "refresh"
    /\ \/ /\ answer[c] # Nothing
          /\ slots_' = answer[c].node /\ Ask(c, answer[c].node, FALSE)
       \/ UNCHANGED slots_ /\ Ask(c, pool_for_key, FALSE)
    /\ UNCHANGED <<kind, first, cluster, disturbed>>

\* Mutant: a redirect to the importing node is taken for a move.
Redirect_AskMoves(c, a) == slots_' = a.node /\ Ask(c, a.node, FALSE)
\* MOVED is remembered and followed, ASK is followed after ASKING.
Redirect(c, a) ==
    /\ slots_' = IF a.t = "moved" THEN a.node ELSE slots_
    /\ Ask(c, a.node, a.t = "ask")

\* Mutant: a command follows no redirect once the table was wrong.
Follows_Not(c) == FALSE
\* The first answer of a command may be followed.
Follows(c) == kind[c] = "command" /\ first[c] = Nothing

Receive(c) ==
    /\ place[c] = "sent" /\ answer[c] # Nothing
    /\ first' = [first EXCEPT ![c] = IF @ = Nothing THEN answer[c] ELSE @]
    /\ IF answer[c].t # "value" /\ Follows(c)
         THEN Redirect(c, answer[c])
         ELSE place' = [place EXCEPT ![c] = "over"] /\ UNCHANGED <<slots_, target, asking, answer>>
    /\ UNCHANGED <<kind, cluster, disturbed>>

-----------------------------------------------------------------------------
(* The cluster *)
Reply(n, a) ==
    CASE n = owner /\ ~left -> [t |-> "value", node |-> n]
      [] n = owner /\ left -> [t |-> "ask", node |-> import]
      [] n = import /\ a -> [t |-> "value", node |-> n]
      [] OTHER -> [t |-> "moved", node |-> owner]

Serve(c) ==
    /\ place[c] \in {"sent", "refresh"} /\ answer[c] = Nothing
    /\ answer' = [answer EXCEPT ![c] = IF place[c] = "refresh" THEN [t |-> "slots", node |-> owner]
                                       ELSE Reply(target[c], asking[c])]
    /\ UNCHANGED <<slots_, kind, place, target, asking, first, cluster, disturbed>>

Underway == {c \in Clients : place[c] \in {"sent", "refresh"}}
Migrate ==
    /\ \/ /\ import = None /\ moves < MaxMoves /\ moves' = moves + 1
          /\ \E n \in Nodes \ {owner} : import' = n
          /\ UNCHANGED <<owner, left>>
       \/ import # None /\ ~left /\ left' = TRUE /\ UNCHANGED <<owner, import, moves>>
       \/ left /\ owner' = import /\ import' = None /\ left' = FALSE /\ UNCHANGED moves
    /\ disturbed' = disturbed \cup Underway
    /\ UNCHANGED router

Rest == (\A c \in Clients : place[c] = "over") /\ UNCHANGED vars
Next == (\E c \in Clients : Execute(c) \/ Pipeline(c) \/ Refresh(c) \/ Receive(c) \/ Serve(c)) \/ Migrate \/ Rest
Spec == Init /\ [][Next]_vars

-----------------------------------------------------------------------------
\* A command ends with a redirect instead of its result only if the slot was
\* on the move during the call, or if the table was out of date while the keys
\* were moving, which takes two redirects where execute() follows one.
RedirectsExplained ==
    \A c \in Clients : place[c] = "over" /\ kind[c] = "command" /\ answer[c].t # "value" =>
        c \in disturbed \/ (first[c].t = "moved" /\ answer[c].t = "ask")
=============================================================================
