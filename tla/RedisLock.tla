------------------------------ MODULE RedisLock -----------------------------
(***************************************************************************)
(* RedisClient::lock and RedisLock: coroutines that take, extend and       *)
(* release the lock of one key, whose lease may run out, on a server whose *)
(* answers may be lost (src/src/data/redis).  A token is the call of       *)
(* lock() that made it; what a command does at the server is one step, the *)
(* coroutine reads the answer in another.  The wait between two attempts   *)
(* blocks the thread and changes nothing.                                  *)
(***************************************************************************)
EXTENDS Integers, TLAPS

CONSTANTS
    Clients,
    MaxRetries,     \* max_retries
    MaxCalls,       \* bound: calls of lock() per coroutine
    MaxLosses,      \* bound: answers that are lost
    MaxLapses       \* bound: leases that run out

LockAssumption == {MaxRetries, MaxCalls, MaxLosses, MaxLapses} \subseteq Nat

VARIABLES
    place,          \* client -> what it waits for
    token,          \* client -> the token of its last call
    attempts, locked_,
    answer,         \* client -> the answer on its way
    holder,         \* the token under the key, or NoToken
    cached,         \* whether the server has the scripts
    losses, lapses,
    lapsed,         \* history: tokens whose lease ran out
    orphaned        \* history: tokens of a lost answer or of a dropped lock object

vars == <<place, token, attempts, locked_, answer, holder, cached, losses, lapses, lapsed, orphaned>>

NoToken == <<>>
Waiting == "waiting"

Init ==
    /\ place = [c \in Clients |-> "idle"] /\ token = [c \in Clients |-> <<c, 0>>]
    /\ attempts = [c \in Clients |-> 0] /\ locked_ = [c \in Clients |-> FALSE]
    /\ answer = [c \in Clients |-> Waiting]
    /\ holder = NoToken /\ cached \in BOOLEAN
    /\ losses = 0 /\ lapses = 0 /\ lapsed = {} /\ orphaned = {}

Send(c, p) == place' = [place EXCEPT ![c] = p] /\ answer' = [answer EXCEPT ![c] = Waiting]

-----------------------------------------------------------------------------
\* lock(): a token of its own, then SET NX PX until it is OK or the attempts
\* are used up.
Lock(c) ==
    /\ place[c] = "idle" /\ token[c][2] < MaxCalls
    /\ token' = [token EXCEPT ![c] = <<c, @[2] + 1>>] /\ attempts' = [attempts EXCEPT ![c] = 0]
    /\ Send(c, "set")
    /\ UNCHANGED <<locked_, holder, cached, losses, lapses, lapsed, orphaned>>

Locked(c) ==
    /\ place[c] = "set" /\ answer[c] # Waiting
    /\ IF answer[c] = "ok"
         THEN /\ locked_' = [locked_ EXCEPT ![c] = TRUE] /\ place' = [place EXCEPT ![c] = "held"]
              /\ UNCHANGED <<attempts, answer>>
         ELSE /\ attempts' = [attempts EXCEPT ![c] = @ + 1]
              /\ Send(c, IF attempts[c] + 1 > MaxRetries THEN "idle" ELSE "set")
              /\ UNCHANGED locked_
    /\ UNCHANGED <<token, holder, cached, losses, lapses, lapsed, orphaned>>

\* release() and extend() run a script by its digest, and by its text when the
\* server does not know it.
Script(c, p) ==
    /\ place[c] = "held" /\ locked_[c] /\ Send(c, p)
    /\ UNCHANGED <<token, attempts, locked_, holder, cached, losses, lapses, lapsed, orphaned>>

\* eval_script() sends the text; release() forgets the lock whatever the
\* answer is, extend() keeps it whatever the answer is.
Scripted(c) ==
    /\ place[c] \in {"release", "release_text", "extend", "extend_text"} /\ answer[c] # Waiting
    /\ IF answer[c] = "noscript"
         THEN Send(c, IF place[c] = "release" THEN "release_text" ELSE "extend_text") /\ UNCHANGED locked_
         ELSE IF place[c] \in {"release", "release_text"}
                THEN locked_' = [locked_ EXCEPT ![c] = FALSE] /\ Send(c, "idle")
                ELSE UNCHANGED locked_ /\ Send(c, "held")
    /\ UNCHANGED <<token, attempts, holder, cached, losses, lapses, lapsed, orphaned>>

\* A lock object that goes out of scope releases nothing.
Drop(c) ==
    /\ place[c] = "held"
    /\ locked_' = [locked_ EXCEPT ![c] = FALSE] /\ Send(c, "idle")
    /\ orphaned' = orphaned \cup {token[c]}
    /\ UNCHANGED <<token, attempts, holder, cached, losses, lapses, lapsed>>

-----------------------------------------------------------------------------
(* The server, with the scripts of RedisLock.cpp *)

\* Mutant: the release script deletes the key of whoever holds it.
Release_Any(t) == NoToken
\* What the key holds after the release script ran for token t.
Release(t) == IF holder = t THEN NoToken ELSE holder

\* Mutant: without NX.
SetNx_Overwrites(t) == t
SetNx(t) == IF holder = NoToken THEN t ELSE holder

Serve(c) ==
    /\ place[c] \notin {"idle", "held"} /\ answer[c] = Waiting
    /\ LET done ==
             CASE place[c] = "set" -> SetNx(token[c])
               [] place[c] \in {"release", "release_text"} -> Release(token[c])
               [] OTHER -> holder
           said ==
             CASE place[c] = "set" -> IF done = token[c] /\ holder # token[c] THEN "ok" ELSE "nil"
               [] OTHER -> IF holder = token[c] THEN "one" ELSE "zero"
           unknown == place[c] \in {"release", "extend"} /\ ~cached
       IN /\ holder' = IF unknown THEN holder ELSE done
          /\ cached' = (cached \/ place[c] \in {"release_text", "extend_text"})
          /\ \/ answer' = [answer EXCEPT ![c] = IF unknown THEN "noscript" ELSE said]
                /\ UNCHANGED <<losses, orphaned>>
             \/ /\ losses < MaxLosses /\ losses' = losses + 1
                /\ answer' = [answer EXCEPT ![c] = "error"]
                /\ orphaned' = orphaned \cup {token[c]}
    /\ UNCHANGED <<place, token, attempts, locked_, lapses, lapsed>>

Expire ==
    /\ holder # NoToken /\ lapses < MaxLapses
    /\ lapsed' = lapsed \cup {holder} /\ holder' = NoToken /\ lapses' = lapses + 1
    /\ UNCHANGED <<place, token, attempts, locked_, answer, cached, losses, orphaned>>

Rest == (\A c \in Clients : place[c] = "idle" /\ token[c][2] = MaxCalls) /\ UNCHANGED vars
Next ==
    \/ \E c \in Clients :
         \/ Lock(c) \/ Locked(c) \/ Scripted(c) \/ Drop(c) \/ Serve(c)
         \/ \E p \in {"release", "extend"} : Script(c, p)
    \/ Expire \/ Rest
Spec == Init /\ [][Next]_vars

-----------------------------------------------------------------------------
\* A coroutine that holds a lock object and has not asked to release it owns
\* the key at the server unless its lease ran out: two coroutines are in the
\* critical section together only after that.  And a key whose owner has no
\* lock object and no call under way was orphaned by a lost answer or by a lock
\* object that was dropped: it stays taken until its lease ends.
LocksExclude ==
    /\ \A c \in Clients :
          locked_[c] /\ place[c] \in {"held", "extend", "extend_text"} /\ token[c] \notin lapsed => holder = token[c]
    /\ holder # NoToken =>
          \/ holder \in orphaned
          \/ token[holder[1]] = holder /\ place[holder[1]] # "idle"

-----------------------------------------------------------------------------
(***************************************************************************)
(* LocksExclude for any number of clients, calls, losses and lapses.       *)
(***************************************************************************)
Places == {"idle", "set", "held", "release", "release_text", "extend", "extend_text"}
Tokens == Clients \X Nat

\* The types; tokens are numbered per client, and none is used before its call.
Numbered ==
    /\ place \in [Clients -> Places] /\ locked_ \in [Clients -> BOOLEAN]
    /\ answer \in [Clients -> {Waiting, "ok", "nil", "one", "zero", "noscript", "error"}]
    /\ token \in [Clients -> Tokens] /\ \A c \in Clients : token[c][1] = c
    /\ holder # NoToken => holder \in Tokens /\ holder[2] <= token[holder[1]][2]

\* A lock object exists exactly between a SET that was answered OK and the end
\* of release(); an OK means that the key is the client's, any other answer to
\* SET that it is not, or that an answer was lost; a release that was answered
\* has taken the key away.
Answered(c) ==
    /\ locked_[c] <=> place[c] \notin {"idle", "set"}
    /\ answer[c] = "noscript" => place[c] \in {"release", "extend"}
    /\ place[c] = "set" /\ answer[c] = "ok" => token[c] \in lapsed \/ holder = token[c]
    /\ place[c] = "set" /\ answer[c] # "ok" => token[c] \in orphaned \/ holder # token[c]
    /\ place[c] \in {"release", "release_text"} /\ answer[c] \notin {Waiting, "noscript"}
          => token[c] \in orphaned \/ holder # token[c]

\* LocksExclude with what makes it inductive.
IInv == Numbered /\ (\A c \in Clients : Answered(c)) /\ LocksExclude

USE DEF Places, Tokens, NoToken, Waiting

LEMMA InvInit == Init => IInv
BY DEF Init, IInv, LocksExclude, Numbered, Answered

\* Tokens of two clients differ, and a token is not NoToken.
LEMMA TokensDiffer ==
    ASSUME Numbered
    PROVE  /\ \A c, d \in Clients : c # d => token[c] # token[d]
           /\ \A c \in Clients : /\ token[c] # NoToken /\ token[c][2] \in Nat
                                 /\ token[c] = <<c, token[c][2]>>
BY DEF Numbered

LEMMA InvStep ==
    ASSUME IInv, [Next]_vars
    PROVE  IInv'
<1> USE DEF Send
<1>0. /\ Numbered /\ LocksExclude /\ \A c \in Clients : Answered(c)
      /\ \A c, d \in Clients : c # d => token[c] # token[d]
      /\ \A c \in Clients : /\ token[c] # NoToken /\ token[c][2] \in Nat
                            /\ token[c] = <<c, token[c][2]>>
  BY TokensDiffer, Zenon DEF IInv
<1>1. ASSUME NEW c \in Clients, Lock(c)
      PROVE  IInv'
  <2>1. Numbered'
    BY <1>0, <1>1 DEF Numbered, Lock
  <2>2. Answered(c)'
    BY <1>0, <1>1 DEF Numbered, Answered, LocksExclude, Lock
  <2>3. ASSUME NEW e \in Clients, e # c
        PROVE  Answered(e)'
    BY <1>0, <1>1, <2>3 DEF Numbered, Answered, Lock
  <2>4. LocksExclude'
    BY <1>0, <1>1 DEF Numbered, Answered, LocksExclude, Lock
  <2> QED
    BY <2>1, <2>2, <2>3, <2>4, Zenon DEF IInv
<1>2. ASSUME NEW c \in Clients, Locked(c)
      PROVE  IInv'
  <2>1. Numbered'
    <3>1. token' = token /\ holder' = holder
      BY <1>2, Zenon DEF Locked
    <3>2. CASE answer[c] = "ok"
      BY <1>0, <1>2, <3>1, <3>2, ZenonT(40) DEF Numbered, Locked
    <3>3. CASE answer[c] # "ok"
      BY <1>0, <1>2, <3>1, <3>3, ZenonT(40) DEF Numbered, Locked
    <3> QED  BY <3>2, <3>3, Zenon
  <2>2. Answered(c)'
    BY <1>0, <1>2 DEF Numbered, Answered, LocksExclude, Locked
  <2>3. ASSUME NEW e \in Clients, e # c
        PROVE  Answered(e)'
    BY <1>0, <1>2, <2>3 DEF Numbered, Answered, Locked
  <2>4. LocksExclude'
    BY <1>0, <1>2 DEF Numbered, Answered, LocksExclude, Locked
  <2> QED
    BY <2>1, <2>2, <2>3, <2>4, Zenon DEF IInv
<1>3. ASSUME NEW c \in Clients, NEW p \in {"release", "extend"}, Script(c, p)
      PROVE  IInv'
  <2>1. Numbered'
    BY <1>0, <1>3, Zenon DEF Numbered, Script
  <2>2. Answered(c)'
    BY <1>0, <1>3 DEF Numbered, Answered, LocksExclude, Script
  <2>3. ASSUME NEW e \in Clients, e # c
        PROVE  Answered(e)'
    BY <1>0, <1>3, <2>3 DEF Numbered, Answered, Script
  <2>4. LocksExclude'
    BY <1>0, <1>3 DEF Numbered, Answered, LocksExclude, Script
  <2> QED
    BY <2>1, <2>2, <2>3, <2>4, Zenon DEF IInv
<1>4. ASSUME NEW c \in Clients, Scripted(c)
      PROVE  IInv'
  <2>0. /\ UNCHANGED <<token, holder, lapsed, orphaned>>
        /\ \E q \in {"release_text", "extend_text", "idle", "held"} : Send(c, q)
        /\ locked_' = locked_ \/ locked_' = [locked_ EXCEPT ![c] = FALSE]
    BY <1>4, Zenon DEF Scripted
  <2>1. Numbered'
    <3>1. locked_' \in [Clients -> BOOLEAN]
      BY <1>0, <2>0, Zenon DEF Numbered
    <3>2. place' \in [Clients -> Places] /\ token' = token /\ holder' = holder
      BY <1>0, <2>0 DEF Numbered
    <3>3. answer' \in [Clients -> {Waiting, "ok", "nil", "one", "zero", "noscript", "error"}]
      BY <1>0, <2>0, Zenon DEF Numbered
    <3> QED
      BY <1>0, <3>1, <3>2, <3>3, Zenon DEF Numbered
  <2>2. Answered(c)'
    BY <1>0, <1>4 DEF Numbered, Answered, LocksExclude, Scripted
  <2>3. ASSUME NEW e \in Clients, e # c
        PROVE  Answered(e)'
    BY <1>0, <1>4, <2>3 DEF Numbered, Answered, Scripted
  <2>4. LocksExclude'
    <3>1. ASSUME NEW e \in Clients, locked_'[e], place'[e] \in {"held", "extend", "extend_text"}, token[e] \notin lapsed
          PROVE  holder = token[e]
      BY <1>0, <1>4, <3>1 DEF Numbered, Answered, LocksExclude, Scripted
    <3>2. CASE holder # NoToken /\ holder \notin orphaned /\ holder[1] = c
      BY <1>0, <1>4, <3>2 DEF Numbered, Answered, LocksExclude, Scripted
    <3>3. CASE holder # NoToken /\ holder \notin orphaned /\ holder[1] # c
      <4>1. holder[1] \in Clients /\ place'[holder[1]] = place[holder[1]]
        BY <1>0, <2>0, <3>3, Zenon DEF Numbered
      <4> QED
        BY <1>0, <2>0, <3>1, <3>3, <4>1, Zenon DEF LocksExclude
    <3> QED
      BY <2>0, <3>1, <3>2, <3>3, Zenon DEF LocksExclude
  <2> QED
    BY <2>1, <2>2, <2>3, <2>4, Zenon DEF IInv
<1>5. ASSUME NEW c \in Clients, Drop(c)
      PROVE  IInv'
  <2>1. Numbered'
    BY <1>0, <1>5, Zenon DEF Numbered, Drop
  <2>2. Answered(c)'
    BY <1>0, <1>5 DEF Numbered, Answered, LocksExclude, Drop
  <2>3. ASSUME NEW e \in Clients, e # c
        PROVE  Answered(e)'
    BY <1>0, <1>5, <2>3 DEF Numbered, Answered, Drop
  <2>4. LocksExclude'
    BY <1>0, <1>5 DEF Numbered, Answered, LocksExclude, Drop
  <2> QED
    BY <2>1, <2>2, <2>3, <2>4, Zenon DEF IInv
<1>6. ASSUME NEW c \in Clients, Serve(c)
      PROVE  IInv'
  <2>0. /\ UNCHANGED <<place, token, locked_>> /\ holder' \in {holder, token[c], NoToken}
        /\ \E s \in {"ok", "nil", "one", "zero", "noscript", "error"} : answer' = [answer EXCEPT ![c] = s]
    <3>1. CASE place[c] = "set"
      BY <1>6, <3>1, Zenon DEF Serve, SetNx
    <3>2. CASE place[c] \in {"release", "release_text"}
      BY <1>6, <3>2, Zenon DEF Serve, Release
    <3>3. CASE place[c] \in {"extend", "extend_text"}
      BY <1>6, <3>3, Zenon DEF Serve
    <3> QED
      BY <1>0, <1>6, <3>1, <3>2, <3>3, Zenon DEF Serve, Numbered
  <2>1. Numbered'
    BY <1>0, <2>0 DEF Numbered
  <2>2. Answered(c)'
    BY <1>0, <1>6 DEF Numbered, Answered, LocksExclude, Serve, SetNx, Release
  <2>3. ASSUME NEW e \in Clients, e # c
        PROVE  Answered(e)'
    BY <1>0, <1>6, <2>3 DEF Numbered, Answered, Serve, SetNx, Release
  <2>4. place[c] = "set" => LocksExclude'
    BY <1>0, <1>6 DEF Numbered, Answered, LocksExclude, Serve, SetNx
  <2>5. place[c] \in {"release", "release_text"} => LocksExclude'
    BY <1>0, <1>6 DEF Numbered, Answered, LocksExclude, Serve, Release
  <2>6. place[c] \in {"extend", "extend_text"} => LocksExclude'
    BY <1>0, <1>6 DEF Numbered, Answered, LocksExclude, Serve
  <2> QED
    BY <1>0, <1>6, <2>1, <2>2, <2>3, <2>4, <2>5, <2>6 DEF IInv, Numbered, Serve
<1>7. CASE Expire
  BY <1>0, <1>7, Zenon DEF Expire, IInv, Numbered, Answered, LocksExclude
<1>8. CASE UNCHANGED vars
  BY <1>0, <1>8, Zenon DEF vars, IInv, Numbered, Answered, LocksExclude
<1> QED
  BY <1>1, <1>2, <1>3, <1>4, <1>5, <1>6, <1>7, <1>8, Zenon DEF Next, Rest

\* However many coroutines call lock(), a lock object whose lease has not run
\* out owns the key, so that two of them exclude each other; and a key nobody
\* will release was orphaned by a lost answer or a dropped lock object
\* (RedisClient::lock, RedisLock::release and extend).
THEOREM LocksAlwaysExclude == Spec => []LocksExclude
<1>1. IInv => LocksExclude
  BY Zenon DEF IInv
<1> QED
  BY InvInit, InvStep, <1>1, PTL DEF Spec
=============================================================================
