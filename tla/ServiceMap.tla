----------------------------- MODULE ServiceMap -----------------------------
(***************************************************************************)
(* What the service registry promises its callers: a map from keys (a type *)
(* and an optional name) to services, registered until it is frozen, on    *)
(* which every operation takes effect at one moment of its call.           *)
(***************************************************************************)
CONSTANTS Threads, Keys, Services, None

VARIABLES services, frozen, call, answer

vars == <<services, frozen, call, answer>>

Idle == [op |-> "idle"]
Calls ==
    [op : {"get"}, key : Keys] \cup [op : {"register"}, key : Keys, service : Services] \cup [op : {"freeze"}]
Answers == Services \cup {None, "pending", "ok", "throws"}

Init ==
    /\ services = [k \in Keys |-> None] /\ frozen = FALSE
    /\ call = [t \in Threads |-> Idle] /\ answer = [t \in Threads |-> "pending"]

Call(t) ==
    /\ call[t] = Idle
    /\ \E c \in Calls : call' = [call EXCEPT ![t] = c]
    /\ answer' = [answer EXCEPT ![t] = "pending"]
    /\ UNCHANGED <<services, frozen>>

Answer(t, op, a) ==
    /\ call[t].op = op /\ answer[t] = "pending"
    /\ answer' = [answer EXCEPT ![t] = a]
    /\ UNCHANGED call

Get(t) == Answer(t, "get", services[call[t].key]) /\ UNCHANGED <<services, frozen>>

Register(t) ==
    /\ ~frozen /\ Answer(t, "register", "ok")
    /\ services' = [services EXCEPT ![call[t].key] = call[t].service]
    /\ UNCHANGED frozen

Refuse(t) == frozen /\ Answer(t, "register", "throws") /\ UNCHANGED <<services, frozen>>

Freeze(t) == Answer(t, "freeze", "ok") /\ frozen' = TRUE /\ UNCHANGED services

Return(t) ==
    /\ answer[t] # "pending"
    /\ call' = [call EXCEPT ![t] = Idle] /\ answer' = [answer EXCEPT ![t] = "pending"]
    /\ UNCHANGED <<services, frozen>>

Next == \E t \in Threads : Call(t) \/ Get(t) \/ Register(t) \/ Refuse(t) \/ Freeze(t) \/ Return(t)

Spec == Init /\ [][Next]_vars
=============================================================================
