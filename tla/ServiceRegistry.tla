-------------------------- MODULE ServiceRegistry ---------------------------
(***************************************************************************)
(* The service registry (ServiceRegistry.h): register_service and freeze   *)
(* take the mutex alone, get takes it shared while the registry is not     *)
(* frozen and not at all afterwards, when it reads the tables that freeze  *)
(* filled one entry after the other.                                       *)
(***************************************************************************)
EXTENDS FiniteSets

CONSTANTS Threads, Keys, Services, None

ASSUME RegistryAssumption ==
    /\ None \notin Services \cup Threads
    /\ {"pending", "ok", "throws"} \cap (Services \cup {None}) = {}

VARIABLES
    services_,      \* unkeyed_services_ and keyed_services_
    frozen_,        \* the frozen tables
    is_frozen_,
    writer, readers,        \* mutex_
    todo,           \* entries that freeze has still to copy
    call, pc, answer

vars == <<services_, frozen_, is_frozen_, writer, readers, todo, call, pc, answer>>

Abstract == INSTANCE ServiceMap WITH services <- services_, frozen <- is_frozen_

Idle == [op |-> "idle"]
Calls ==
    [op : {"get"}, key : Keys] \cup [op : {"register"}, key : Keys, service : Services] \cup [op : {"freeze"}]
Answers == Services \cup {None, "pending", "ok", "throws"}
Entries == [Keys -> Services \cup {None}]

TypeOK ==
    /\ services_ \in Entries /\ frozen_ \in Entries
    /\ is_frozen_ \in BOOLEAN
    /\ writer \in Threads \cup {None} /\ readers \subseteq Threads /\ todo \subseteq Keys
    /\ call \in [Threads -> Calls \cup {Idle}]
    /\ pc \in [Threads -> {"idle", "start", "fast", "slow", "read", "lock", "locked", "copy", "return"}]
    /\ answer \in [Threads -> Answers]

Init ==
    /\ services_ = [k \in Keys |-> None] /\ frozen_ = [k \in Keys |-> None]
    /\ is_frozen_ = FALSE /\ writer = None /\ readers = {} /\ todo = {}
    /\ call = [t \in Threads |-> Idle] /\ pc = [t \in Threads |-> "idle"]
    /\ answer = [t \in Threads |-> "pending"]

Go(t, from, to) == pc[t] = from /\ pc' = [pc EXCEPT ![t] = to]
Returns(t, a) == answer' = [answer EXCEPT ![t] = a]

-----------------------------------------------------------------------------
Call(t) ==
    /\ pc[t] = "idle"
    /\ \E c \in Calls :
          /\ call' = [call EXCEPT ![t] = c]
          /\ pc' = [pc EXCEPT ![t] = IF c.op = "get" THEN "start" ELSE "lock"]
    /\ Returns(t, "pending")
    /\ UNCHANGED <<services_, frozen_, is_frozen_, writer, readers, todo>>

(***************************************************************************)
(* get and get_shared: is_frozen_ is read without the mutex                *)
(***************************************************************************)
CheckFrozen(t) ==
    /\ Go(t, "start", IF is_frozen_ THEN "fast" ELSE "slow")
    /\ UNCHANGED <<services_, frozen_, is_frozen_, writer, readers, todo, call, answer>>

FastGet(t) ==
    /\ Go(t, "fast", "return") /\ Returns(t, frozen_[call[t].key])
    /\ UNCHANGED <<services_, frozen_, is_frozen_, writer, readers, todo, call>>

LockShared(t) ==
    /\ Go(t, "slow", "read") /\ writer = None
    /\ readers' = readers \cup {t}
    /\ UNCHANGED <<services_, frozen_, is_frozen_, writer, todo, call, answer>>

SlowGet(t) ==
    /\ Go(t, "read", "return") /\ Returns(t, services_[call[t].key])
    /\ readers' = readers \ {t}
    /\ UNCHANGED <<services_, frozen_, is_frozen_, writer, todo, call>>

(***************************************************************************)
(* register_service and freeze                                             *)
(***************************************************************************)
\* Mutant: register_service and freeze take no lock
Lock_None(t) ==
    /\ Go(t, "lock", "locked")
    /\ writer' = t
    /\ UNCHANGED <<services_, frozen_, is_frozen_, readers, todo, call, answer>>

Lock(t) ==
    /\ Go(t, "lock", "locked") /\ writer = None /\ readers = {}
    /\ writer' = t
    /\ UNCHANGED <<services_, frozen_, is_frozen_, readers, todo, call, answer>>

\* Mutant: registration does not ask whether the registry is frozen
Register_Always(t) ==
    /\ call[t].op = "register" /\ Go(t, "locked", "return")
    /\ services_' = [services_ EXCEPT ![call[t].key] = call[t].service] /\ Returns(t, "ok")
    /\ writer' = None
    /\ UNCHANGED <<frozen_, is_frozen_, readers, todo, call>>

Register(t) ==
    /\ call[t].op = "register" /\ Go(t, "locked", "return")
    /\ IF is_frozen_
       THEN Returns(t, "throws") /\ UNCHANGED services_
       ELSE services_' = [services_ EXCEPT ![call[t].key] = call[t].service] /\ Returns(t, "ok")
    /\ writer' = None
    /\ UNCHANGED <<frozen_, is_frozen_, readers, todo, call>>

\* freeze of a frozen registry
FreezeAgain(t) ==
    /\ call[t].op = "freeze" /\ is_frozen_ /\ Go(t, "locked", "return") /\ Returns(t, "ok")
    /\ writer' = None
    /\ UNCHANGED <<services_, frozen_, is_frozen_, readers, todo, call>>

\* Mutant: freeze announces itself before the tables are filled
FreezeStart_Early(t) ==
    /\ call[t].op = "freeze" /\ ~is_frozen_ /\ Go(t, "locked", "copy")
    /\ frozen_' = [k \in Keys |-> None] /\ todo' = Keys /\ is_frozen_' = TRUE
    /\ UNCHANGED <<services_, writer, readers, call, answer>>

FreezeStart(t) ==
    /\ call[t].op = "freeze" /\ ~is_frozen_ /\ Go(t, "locked", "copy")
    /\ frozen_' = [k \in Keys |-> None] /\ todo' = Keys
    /\ UNCHANGED <<services_, is_frozen_, writer, readers, call, answer>>

FreezeCopy(t) ==
    /\ pc[t] = "copy"
    /\ \E k \in todo : frozen_' = [frozen_ EXCEPT ![k] = services_[k]] /\ todo' = todo \ {k}
    /\ UNCHANGED <<services_, is_frozen_, writer, readers, call, pc, answer>>

FreezeEnd(t) ==
    /\ todo = {} /\ Go(t, "copy", "return") /\ Returns(t, "ok")
    /\ is_frozen_' = TRUE /\ writer' = None
    /\ UNCHANGED <<services_, frozen_, readers, todo, call>>

Return(t) ==
    /\ Go(t, "return", "idle") /\ Returns(t, "pending")
    /\ call' = [call EXCEPT ![t] = Idle]
    /\ UNCHANGED <<services_, frozen_, is_frozen_, writer, readers, todo>>

Step(t) ==
    \/ Call(t) \/ CheckFrozen(t) \/ FastGet(t) \/ LockShared(t) \/ SlowGet(t) \/ Lock(t)
    \/ Register(t) \/ FreezeAgain(t) \/ FreezeStart(t) \/ FreezeCopy(t) \/ FreezeEnd(t) \/ Return(t)

Next == \E t \in Threads : Step(t)

Spec == Init /\ [][Next]_vars

-----------------------------------------------------------------------------
(***************************************************************************)
(* Properties                                                              *)
(***************************************************************************)
\* who holds mutex_, and that it is held alone or shared
LockInv ==
    /\ \A t \in Threads : pc[t] \in {"locked", "copy"} <=> writer = t
    /\ \A t \in Threads : pc[t] = "read" <=> t \in readers
    /\ writer # None => readers = {}

\* No thread reads the frozen tables while freeze writes them, and what it
\* reads is complete (freeze publishes them with is_frozen_).
NoRacyRead ==
    /\ is_frozen_ => frozen_ = services_
    /\ \A t \in Threads : pc[t] = "fast" => is_frozen_
    /\ \A t \in Threads : pc[t] = "copy" =>
          ~is_frozen_ /\ \A k \in Keys \ todo : frozen_[k] = services_[k]

\* the operation under way at each place
CallInv ==
    \A t \in Threads :
        /\ pc[t] = "idle" <=> call[t] = Idle
        /\ pc[t] \in {"start", "fast", "slow", "read"} => call[t].op = "get"
        /\ pc[t] \in {"lock", "locked", "copy"} => call[t].op \in {"register", "freeze"}
        /\ pc[t] = "copy" => call[t].op = "freeze"
        /\ pc[t] # "return" <=> answer[t] = "pending"

\* The places of the threads, the mutex, the calls and the tables agree: the
\* inductive invariant behind the two properties around it.
IInv == TypeOK /\ LockInv /\ CallInv /\ NoRacyRead

\* Every operation takes effect at one moment of its call, whatever runs
\* beside it: the registry implements ServiceMap.
Linearizable == Abstract!Spec
=============================================================================
