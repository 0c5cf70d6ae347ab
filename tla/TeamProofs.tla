------------------------------ MODULE TeamProofs ------------------------------
(* The safety of Team for every set of users and clients and every bound.  *)
EXTENDS Team, TLAPS, SequenceTheorems

(* The bounds leave room for one of everything. *)
LEMMA Bounds ==
    /\ MaxGen \in Nat /\ MaxGen > 0 /\ MaxChanges \in Nat /\ MaxChanges > 0
    /\ MaxTokens \in Nat /\ MaxFaults \in Nat
    /\ 1 \in Keys /\ 1 \in Gens
  BY TeamAssumption DEF Keys, Gens

(* What is known of the secrets and of the clients built with them. *)
LEMMA Typed ==
    ASSUME TypeOK
    PROVE  /\ issued \in Seq(SecretSet) /\ Len(issued) \in Nat
           /\ \A i \in Secrets : issued[i] \in SecretSet
           /\ \A c \in Clients : pc[c] # "off" => with[c] \in Secrets /\ User(c) \in Users
<1>1. issued \in Seq(SecretSet)
  BY DEF TypeOK
<1>2. Len(issued) \in Nat /\ \A i \in Secrets : issued[i] \in SecretSet
  BY <1>1, LenProperties, ElementOfSeq DEF Secrets
<1>3. ASSUME NEW c \in Clients, pc[c] # "off"
      PROVE  with[c] \in Secrets /\ User(c) \in Users
  <2>1. with[c] \in Secrets
    BY <1>2, <1>3 DEF TypeOK, Secrets
  <2> QED
    BY <1>2, <2>1 DEF User, SecretSet
<1> QED
  BY <1>1, <1>2, <1>3

(* A secret that is issued comes after the others. *)
LEMMA IssueTyped ==
    ASSUME TypeOK, NEW s \in SecretSet, Issue(s)
    PROVE  /\ issued' \in Seq(SecretSet)
           /\ Len(issued') = Len(issued) + 1
           /\ issued'[Len(issued) + 1] = s
           /\ \A i \in Secrets : issued'[i] = issued[i]
  BY Typed, AppendProperties DEF Issue, Secrets

(* Secrets that are revoked keep their places. *)
LEMMA RevokedTyped ==
    ASSUME TypeOK, NEW u \in Users,
           issued' = [i \in Secrets |->
                        IF issued[i].user = u THEN [issued[i] EXCEPT !.revoked = TRUE]
                        ELSE issued[i]]
    PROVE  issued' \in Seq(SecretSet) /\ Len(issued') = Len(issued)
<1> DEFINE f == [i \in Secrets |->
                   IF issued[i].user = u THEN [issued[i] EXCEPT !.revoked = TRUE]
                   ELSE issued[i]]
<1>1. \A i \in Secrets : f[i] \in SecretSet
  BY Typed DEF SecretSet
<1>2. f = [i \in Secrets |-> f[i]] /\ issued' = f
  OBVIOUS
<1> HIDE DEF f
<1>3. Len(issued) \in Nat
  BY Typed
<1>4. [i \in 1..Len(issued) |-> f[i]] \in Seq(SecretSet)
  BY <1>1, <1>3, IsASeq DEF Secrets
<1>5. issued' \in Seq(SecretSet) /\ DOMAIN issued' = 1..Len(issued)
  BY <1>2, <1>4 DEF Secrets
<1> QED
  BY <1>3, <1>5, LenProperties

(* The initial state has the right types. *)
LEMMA TypeInit == Init => TypeOK
<1> SUFFICES ASSUME Init PROVE TypeOK
  OBVIOUS
<1>1. Secret("bootstrap", Founder, 1, 1) \in SecretSet
  BY Bounds, TeamAssumption DEF Secret, SecretSet, Kinds
<1>2. issued \in Seq(SecretSet) /\ Len(issued) = 1
  BY <1>1 DEF Init
<1> QED
  BY <1>2, Bounds DEF Init, TypeOK, Gens, PCs, NoRotation, NoAccount, NoSession,
                         NoTask, Rekeying, Rotating, Unlocked

Sessions == {NoSession} \cup [gen : Gens, key : Keys]
Tasks == [salt : 0..MaxChanges, newGen : 0..MaxGen, key : 0..MaxGen]

(* What TypeOK says of the server and of its history. *)
ServerTyped ==
    /\ issued \in Seq(SecretSet)
    /\ account \in [Users -> {NoAccount} \cup Accounts]
    /\ left \in [Users -> 0..MaxGen]
    /\ gen \in Gens
    /\ pending \in {NoRotation} \cup [gen : Gens, user : Users, wrap : Wraps]
    /\ blobs \subseteq Keys
    /\ crossed \subseteq Users

(* What a step of client c leaves alone.                                   *)
OthersStay(c) ==
    /\ pc' \in [Clients -> PCs] /\ session' \in [Clients -> Sessions]
    /\ task' \in [Clients -> Tasks]
    /\ \A d \in Clients \ {c} :
          pc'[d] = pc[d] /\ session'[d] = session[d] /\ task'[d] = task[d]

(* The stages of a method and the task they need. *)
Staged(c) ==
    /\ pc[c] # "off"
    /\ pc[c] \in Rekeying => task[c].key # 0
    /\ pc[c] \in {"status", "begin"} => task[c].salt # 0
    /\ pc[c] \in Rotating \ {"status"} => task[c].newGen # 0

(* A step takes one client from a stage of its method to another, and the  *)
(* types hold if the new stage has the task it needs.                      *)
LEMMA StageTyped ==
    ASSUME TypeOK, NEW c \in Clients, pc[c] # "off", OthersStay(c), Staged(c)',
           ServerTyped', Len(issued') \in Nat, Len(issued) <= Len(issued'),
           with' = with, net' \subseteq net, saved' \subseteq Clients,
           faults' \in 0..MaxFaults
    PROVE  TypeOK'
<1>1. with' \in [Clients -> 0..Len(issued')]
  BY Typed DEF TypeOK
<1>2. \A d \in Clients :
        /\ with'[d] = 0 <=> pc'[d] = "off"
        /\ d \in net' => pc'[d] # "off"
        /\ pc'[d] = "off" => ~Unlocked(d)'
        /\ pc'[d] \in Rekeying => task'[d].key # 0
        /\ pc'[d] \in {"status", "begin"} => task'[d].salt # 0
        /\ pc'[d] \in Rotating \ {"status"} => task'[d].newGen # 0
  BY DEF TypeOK, Unlocked, OthersStay, Staged
<1> QED
  BY <1>1, <1>2 DEF ServerTyped, TypeOK, Sessions, Tasks, OthersStay

(* A step of the server alone. *)
LEMMA StillTyped ==
    ASSUME TypeOK, UNCHANGED <<net, pc, with, saved, session, task>>, ServerTyped',
           Len(issued') \in Nat, Len(issued) <= Len(issued'), faults' \in 0..MaxFaults
    PROVE  TypeOK'
<1>1. with' \in [Clients -> 0..Len(issued')]
  BY Typed DEF TypeOK
<1> QED
  BY <1>1 DEF ServerTyped, TypeOK, Unlocked

(* A client in a state that has the right types. *)
LEMMA StageNow ==
    ASSUME TypeOK, NEW c \in Clients
    PROVE  /\ ServerTyped
           /\ pc[c] # "off" => Staged(c)
           /\ saved \subseteq Clients /\ faults \in 0..MaxFaults
           /\ Len(issued) \in Nat
           /\ pc \in [Clients -> PCs] /\ session \in [Clients -> Sessions]
           /\ task \in [Clients -> Tasks]
           /\ NoTask \in Tasks /\ NoSession \in Sessions
<1>1. NoTask \in Tasks /\ NoSession \in Sessions
  BY Bounds DEF NoTask, Tasks, Sessions
<1>2. pc[c] # "off" => Staged(c)
  BY DEF TypeOK, Staged
<1> QED
  BY <1>1, <1>2, Typed DEF TypeOK, ServerTyped, Sessions, Tasks

(* What the method of client c has read after the step. *)
Reads(c, n, g, k) ==
    /\ task' \in [Clients -> Tasks]
    /\ task'[c].salt = n /\ task'[c].newGen = g /\ task'[c].key = k
    /\ \A d \in Clients \ {c} : task'[d] = task[d]

(* A method keeps what it has read before. *)
LEMMA TaskTyped ==
    ASSUME TypeOK, NEW c \in Clients, NEW k \in Keys
    PROVE  /\ task' = [task EXCEPT ![c].key = k] =>
                Reads(c, task[c].salt, task[c].newGen, k)
           /\ \A n \in 1..MaxChanges : task' = [task EXCEPT ![c].salt = n, ![c].key = k] =>
                Reads(c, n, task[c].newGen, k)
           /\ \A g \in Gens : task' = [task EXCEPT ![c].newGen = g] =>
                Reads(c, task[c].salt, g, task[c].key)
<1>1. /\ task \in [Clients -> Tasks] /\ task[c] \in Tasks /\ k \in 0..MaxGen
      /\ 1..MaxChanges \subseteq 0..MaxChanges /\ Gens \subseteq 0..MaxGen
  BY Bounds, StageNow DEF Keys, Gens
<1>k. \A t \in Tasks : LET r == [t EXCEPT !.key = k]
        IN  r \in Tasks /\ r.salt = t.salt /\ r.newGen = t.newGen /\ r.key = k
  BY <1>1 DEF Tasks
<1>n. \A t \in Tasks, n \in 0..MaxChanges : LET r == [t EXCEPT !.salt = n, !.key = k]
        IN  r \in Tasks /\ r.salt = n /\ r.newGen = t.newGen /\ r.key = k
  BY <1>1 DEF Tasks
<1>g. \A t \in Tasks, g \in 0..MaxGen : LET r == [t EXCEPT !.newGen = g]
        IN  r \in Tasks /\ r.salt = t.salt /\ r.newGen = g /\ r.key = t.key
  BY <1>1 DEF Tasks
<1>3. ASSUME NEW r \in Tasks, task' = [task EXCEPT ![c] = r]
      PROVE  Reads(c, r.salt, r.newGen, r.key)
  BY <1>1, <1>3 DEF Reads
<1>4. ASSUME task' = [task EXCEPT ![c].key = k]
      PROVE  Reads(c, task[c].salt, task[c].newGen, k)
  <2> DEFINE r == [task[c] EXCEPT !.key = k]
  <2>1. task' = [task EXCEPT ![c] = r]
    BY <1>4
  <2>2. r \in Tasks /\ r.salt = task[c].salt /\ r.newGen = task[c].newGen /\ r.key = k
    BY <1>1, <1>k
  <2> HIDE DEF r
  <2> QED
    BY <1>3, <2>1, <2>2 DEF Reads
<1>5. ASSUME NEW n \in 1..MaxChanges, task' = [task EXCEPT ![c].salt = n, ![c].key = k]
      PROVE  Reads(c, n, task[c].newGen, k)
  <2> DEFINE r == [task[c] EXCEPT !.salt = n, !.key = k]
  <2>1. task' = [task EXCEPT ![c] = r]
    BY <1>1, <1>5
  <2>2. r \in Tasks /\ r.salt = n /\ r.newGen = task[c].newGen /\ r.key = k
    BY <1>1, <1>n
  <2> HIDE DEF r
  <2> QED
    BY <1>3, <2>1, <2>2 DEF Reads
<1>6. ASSUME NEW g \in Gens, task' = [task EXCEPT ![c].newGen = g]
      PROVE  Reads(c, task[c].salt, g, task[c].key)
  <2> DEFINE r == [task[c] EXCEPT !.newGen = g]
  <2>1. task' = [task EXCEPT ![c] = r]
    BY <1>6
  <2>2. r \in Tasks /\ r.salt = task[c].salt /\ r.newGen = g /\ r.key = task[c].key
    BY <1>1, <1>g
  <2> HIDE DEF r
  <2> QED
    BY <1>3, <2>1, <2>2 DEF Reads
<1> QED
  BY <1>4, <1>5, <1>6

(* Every step keeps TypeOK. *)
LEMMA TypeStep == TypeOK /\ [Next]_vars => TypeOK'
<1> SUFFICES ASSUME TypeOK, [Next]_vars PROVE TypeOK'
  OBVIOUS
<1> USE Bounds, TeamAssumption
<1>1. ASSUME NEW c \in Clients, NEW i \in Secrets, Post(c, i) \/ FromCi(c, i)
      PROVE  TypeOK'
  <2>1. i \in 1..Len(issued) /\ Len(issued) \in Nat
    BY Typed DEF Secrets
  <2>2. UNCHANGED <<issued, account, left, gen, pending, blobs, session, task, faults,
                   crossed>>
    BY <1>1 DEF Post, FromCi, server
  <2>3. /\ with' = [with EXCEPT ![c] = i]
        /\ pc[c] = "off"
        /\ \E at \in {"posting", "unlock"} : pc' = [pc EXCEPT ![c] = at]
        /\ saved' \subseteq Clients
        /\ net' \subseteq Clients /\ net' \subseteq net \cup {c}
    BY <1>1 DEF Post, FromCi, Goto, TypeOK
  <2>4. with' \in [Clients -> 0..Len(issued')]
    BY <2>1, <2>2, <2>3 DEF TypeOK
  <2>5. pc' \in [Clients -> PCs]
    BY <2>3 DEF TypeOK, PCs
  <2>6. \A d \in Clients :
        /\ with'[d] = 0 <=> pc'[d] = "off"
        /\ d \in net' => pc'[d] # "off"
        /\ pc'[d] = "off" => ~Unlocked(d)'
        /\ pc'[d] \in Rekeying => task'[d].key # 0
        /\ pc'[d] \in {"status", "begin"} => task'[d].salt # 0
        /\ pc'[d] \in Rotating \ {"status"} => task'[d].newGen # 0
    BY <2>1, <2>2, <2>3 DEF TypeOK, Rekeying, Rotating, Unlocked
  <2> QED
    BY <2>2, <2>3, <2>4, <2>5, <2>6 DEF TypeOK
<1>2. ASSUME NEW c \in Clients, TakePost(c) PROVE TypeOK'
  <2> DEFINE i == with[c]
             s == issued[i]
             t == [s EXCEPT !.by = c]
  <2>1. i \in Secrets /\ s \in SecretSet /\ pc[c] # "off"
    BY <1>2, Typed DEF TakePost, TypeOK
  <2>2. issued' \in Seq(SecretSet) /\ Len(issued') = Len(issued)
    <3>1. t \in SecretSet
      BY <2>1 DEF SecretSet
    <3>2. issued' = issued \/ issued' = [issued EXCEPT ![i] = t]
      BY <1>2 DEF TakePost
    <3> HIDE DEF t
    <3>3. [issued EXCEPT ![i] = t] \in Seq(SecretSet)
          /\ Len([issued EXCEPT ![i] = t]) = Len(issued)
      BY <2>1, <3>1, Typed, ExceptSeq DEF Secrets
    <3> QED
      BY <3>2, <3>3, Typed
  <2>3. FirstAccount(s) \in Accounts /\ s.user \in Users
    BY <2>1 DEF FirstAccount, CreatedWrap, RedeemedWrap, Account, Wrap, Accounts,
                Wraps, SecretSet
  <2>4. account' \in [Users -> {NoAccount} \cup Accounts]
    BY <1>2, <2>3, StageNow DEF TakePost, ServerTyped
  <2>5. ServerTyped'
    BY <1>2, <2>2, <2>4, StageNow DEF TakePost, ServerTyped
  <2>6. OthersStay(c) /\ pc'[c] \in {"save", "failed", pc[c]}
    BY <1>2, <2>1, StageNow DEF TakePost, Goto, OthersStay, PCs
  <2>7. UNCHANGED <<with, saved, session, task, faults>> /\ net' \subseteq net
    BY <1>2 DEF TakePost
  <2>8. Staged(c)'
    BY <2>1, <2>6, <2>7, StageNow DEF Staged, Rekeying, Rotating
  <2> QED
    BY <2>1, <2>2, <2>5, <2>6, <2>7, <2>8, StageNow, StageTyped
<1>3. ASSUME NEW c \in Clients, SaveTokens(c) PROVE TypeOK'
  <2>1. issued[with[c]] \in SecretSet /\ pc[c] # "off"
    BY <1>3, Typed DEF SaveTokens
  <2>2. ServerTyped' /\ UNCHANGED <<issued, with, net, task, faults>>
    BY <1>3, StageNow DEF SaveTokens, server, ServerTyped
  <2>3. saved' \subseteq Clients
    BY <1>3, StageNow DEF SaveTokens
  <2>4. OthersStay(c) /\ pc'[c] \in {"unlock", "idle"}
    BY <1>3, <2>1, StageNow
    DEF SaveTokens, Goto, SetKey, OthersStay, PCs, SecretSet, Sessions
  <2>5. Staged(c)'
    BY <2>4 DEF Staged, Rekeying, Rotating
  <2> QED
    BY <2>1, <2>2, <2>3, <2>4, <2>5, StageNow, StageTyped
<1>4. ASSUME NEW c \in Clients, Unlock(c) \/ UnlockFails(c)
      PROVE  TypeOK'
  <2>1. pc[c] # "off" /\ pc'[c] = "idle" /\ saved' = saved
    BY <1>4, StageNow DEF Unlock, UnlockFails, Goto
  <2>2. ServerTyped' /\ UNCHANGED <<issued, with, net, task, faults>>
    BY <1>4, StageNow DEF Unlock, UnlockFails, server, ServerTyped
  <2>3. Unlock(c) => account[User(c)] \in Accounts
    BY <2>1, Typed, StageNow DEF Unlock, Live, Member, ServerTyped
  <2>4. OthersStay(c)
    BY <1>4, <2>3, StageNow
    DEF Unlock, UnlockFails, Goto, SetKey, OthersStay, PCs, Accounts, Wraps, Sessions
  <2>5. Staged(c)'
    BY <2>1 DEF Staged, Rekeying, Rotating
  <2> QED
    BY <2>1, <2>2, <2>4, <2>5, StageNow, StageTyped
<1>19. ASSUME NEW c \in Clients, Lock(c) PROVE TypeOK'
  <2>1. pc[c] # "off" /\ OthersStay(c) /\ UNCHANGED <<pc, task>>
    BY <1>19, StageNow DEF Lock, OthersStay, Rekeying, Rotating
  <2>2. ServerTyped' /\ UNCHANGED <<issued, with, net, saved>> /\ faults' \in 0..MaxFaults
    BY <1>19, StageNow DEF Lock, server, ServerTyped
  <2>3. Staged(c)'
    BY <2>1, StageNow DEF Staged
  <2> QED
    BY <2>1, <2>2, <2>3, StageNow, StageTyped
<1>5. ASSUME NEW c \in Clients, NEW kind \in Kinds, GenToken(c, kind) PROVE TypeOK'
  <2>1. User(c) \in Users /\ pc[c] # "off"
    BY <1>5, Typed DEF GenToken, Calls
  <2>2. Secret(kind, User(c), 1, 1) \in SecretSet
    BY <2>1 DEF Secret, SecretSet
  <2>3. issued' \in Seq(SecretSet) /\ Len(issued') = Len(issued) + 1
    BY <1>5, <2>2, IssueTyped DEF GenToken
  <2> QED
    BY <1>5, <2>1, <2>3, StageNow, StillTyped
    DEF GenToken, ServerTyped
<1>6. ASSUME NEW c \in Clients, NEW u \in Users, Invite(c, u) PROVE TypeOK'
  <2>1. session[c].key \in Keys /\ pc[c] # "off"
    BY <1>6, StageNow DEF Invite, Calls, Unlocked, Sessions
  <2>2. Secret("invite", u, session[c].key, gen) \in SecretSet
    BY <2>1, StageNow DEF Secret, SecretSet, Kinds, ServerTyped
  <2>3. issued' \in Seq(SecretSet) /\ Len(issued') = Len(issued) + 1
    BY <1>6, <2>2, IssueTyped DEF Invite
  <2> QED
    BY <1>6, <2>1, <2>3, StageNow, StillTyped
    DEF Invite, ServerTyped
<1>7. ASSUME NEW c \in Clients, NEW i \in Secrets, RevokeDevice(c, i) PROVE TypeOK'
  <2> DEFINE t == [issued[i] EXCEPT !.revoked = TRUE]
  <2>1. t \in SecretSet /\ issued' = [issued EXCEPT ![i] = t]
    BY <1>7, Typed DEF RevokeDevice, SecretSet
  <2> HIDE DEF t
  <2>2. issued' \in Seq(SecretSet) /\ Len(issued') = Len(issued)
    BY <2>1, Typed, ExceptSeq DEF Secrets
  <2>3. faults' \in 0..MaxFaults /\ pc[c] # "off"
    BY <1>7 DEF RevokeDevice, Calls, TypeOK
  <2> QED
    BY <1>7, <2>2, <2>3, StageNow, StillTyped
    DEF RevokeDevice, ServerTyped
<1>8. ASSUME NEW c \in Clients, NEW u \in Users, RemoveUser(c, u) PROVE TypeOK'
  <2>1. issued' \in Seq(SecretSet) /\ Len(issued') = Len(issued)
    BY <1>8, RevokedTyped DEF RemoveUser
  <2>2. left' \in [Users -> 0..MaxGen] /\ pc[c] # "off"
    BY <1>8, StageNow DEF RemoveUser, Calls, ServerTyped, Gens
  <2>3. ServerTyped'
    BY <1>8, <2>1, <2>2, StageNow DEF RemoveUser, ServerTyped
  <2>4. UNCHANGED <<net, pc, with, saved, session, task, faults>>
    BY <1>8 DEF RemoveUser
  <2> QED
    BY <2>1, <2>3, <2>4, StageNow, StillTyped
<1>9. ASSUME NEW c \in Clients, Push(c) PROVE TypeOK'
  <2>1. session[c].key \in Keys /\ pc[c] # "off"
    BY <1>9, StageNow DEF Push, Calls, Unlocked, Sessions
  <2>2. ServerTyped' /\ Len(issued') = Len(issued) /\ faults' = faults
    BY <1>9, <2>1, StageNow DEF Push, ServerTyped
  <2> QED
    BY <1>9, <2>2, StageNow, Typed, StillTyped DEF Push
<1>10. ASSUME NEW c \in Clients, ChangeUnlock(c) PROVE TypeOK'
  <2>1. pc[c] # "off" /\ account[User(c)] \in Accounts
    BY <1>10, Typed, StageNow DEF ChangeUnlock, Calls, Live, Member, ServerTyped
  <2> DEFINE k == account[User(c)].wrap.key
             g == account[User(c)].gen
  <2>5. k \in Keys /\ g \in Gens
    BY <2>1 DEF Accounts, Wraps
  <2>6. /\ pc' = [pc EXCEPT ![c] = "patch"]
        /\ session' = [session EXCEPT ![c] = [gen |-> g, key |-> k]]
        /\ task' = [task EXCEPT ![c].key = k]
    BY <1>10 DEF ChangeUnlock, Goto, SetKey
  <2> HIDE DEF k, g
  <2>2. OthersStay(c) /\ pc'[c] = "patch" /\ task'[c].key = k
    <3>1. Reads(c, task[c].salt, task[c].newGen, k)
      BY <2>5, <2>6, TaskTyped
    <3> QED
      BY <2>5, <2>6, <3>1, StageNow DEF Reads, OthersStay, PCs, Rekeying, Sessions
  <2>3. Staged(c)'
    BY <2>2, <2>5 DEF Staged, Rekeying, Rotating, Keys
  <2>4. ServerTyped' /\ UNCHANGED <<issued, with, net, saved, faults>>
    BY <1>10, StageNow DEF ChangeUnlock, server, ServerTyped
  <2> QED
    BY <2>1, <2>2, <2>3, <2>4, StageNow, StageTyped
<1>11. ASSUME NEW c \in Clients, ChangePatch(c) PROVE TypeOK'
  <2> DEFINE u == User(c)
             a == account[u]
  <2>1. pc[c] # "off" /\ u \in Users /\ a \in Accounts
    BY <1>11, Typed, StageNow DEF ChangePatch, Live, Member, ServerTyped
  <2>2. task[c].key \in Keys
    BY <1>11, StageNow DEF ChangePatch, Staged, Rekeying, Tasks, Keys
  <2>3. a.salt < MaxChanges /\ a.salt + 1 \in 1..MaxChanges
    BY <1>11, <2>1 DEF ChangePatch, Accounts
  <2>4. Rewrapped(a, task[c].key) \in Accounts
    BY <2>1, <2>2, <2>3 DEF Rewrapped, Wrap, Accounts, Wraps
  <2>5. account' \in [Users -> {NoAccount} \cup Accounts] /\ crossed' \subseteq Users
    BY <1>11, <2>1, <2>4, StageNow DEF ChangePatch, ServerTyped
  <2>6. OthersStay(c) /\ pc'[c] = "idle"
    BY <1>11, StageNow DEF ChangePatch, End, Goto, OthersStay, PCs
  <2>7. Staged(c)'
    BY <2>6 DEF Staged, Rekeying, Rotating
  <2>8. ServerTyped' /\ UNCHANGED <<issued, with, net, saved, faults>>
    BY <1>11, <2>5, StageNow DEF ChangePatch, ServerTyped
  <2> QED
    BY <2>1, <2>6, <2>7, <2>8, StageNow, StageTyped
<1>12. ASSUME NEW c \in Clients, RotateStart(c) \/ RotateStatus(c) PROVE TypeOK'
  <2>1. /\ pc[c] # "off" /\ account[User(c)] \in Accounts
        /\ ServerTyped' /\ UNCHANGED <<issued, with, net, saved, session, faults>>
    BY <1>12, Typed, StageNow
    DEF RotateStart, RotateStatus, Calls, Live, Member, server, ServerTyped
  <2>2. CASE RotateStart(c)
    <3> DEFINE k == session[c].key
               n == account[User(c)].salt
    <3>1. k \in Keys /\ n \in 1..MaxChanges
      BY <2>1, <2>2, StageNow DEF RotateStart, Unlocked, Sessions, Accounts
    <3>2. /\ pc' = [pc EXCEPT ![c] = "status"]
          /\ task' = [task EXCEPT ![c].salt = n, ![c].key = k]
      BY <2>2 DEF RotateStart, Goto
    <3> HIDE DEF k, n
    <3>3. OthersStay(c) /\ pc'[c] = "status" /\ task'[c].salt = n /\ task'[c].key = k
      <4>1. Reads(c, n, task[c].newGen, k)
        BY <3>1, <3>2, TaskTyped
      <4> QED
        BY <2>1, <3>2, <4>1, StageNow DEF Reads, OthersStay, PCs, Rekeying, Rotating
    <3>4. Staged(c)'
      BY <3>1, <3>3 DEF Staged, Rotating, Keys
    <3> QED
      BY <2>1, <3>3, <3>4, StageNow, StageTyped
  <2>3. CASE RotateStatus(c)
    <3>1. InProgress => pending.gen \in Gens
      BY StageNow DEF InProgress, ServerTyped
    <3>2. \/ pc' = [pc EXCEPT ![c] = "idle"] /\ task' = [task EXCEPT ![c] = NoTask]
          \/ \E at \in {"begin", "reencrypt"}, g \in Gens :
                pc' = [pc EXCEPT ![c] = at] /\ task' = [task EXCEPT ![c].newGen = g]
      <4>1. ~InProgress /\ gen < MaxGen => gen + 1 \in Gens
        BY StageNow DEF ServerTyped, Gens
      <4> QED
        BY <2>3, <3>1, <4>1 DEF RotateStatus, Goto, End
    <3>3. Staged(c) /\ pc[c] = "status"
      BY <2>3, StageNow DEF RotateStatus
    <3>4. OthersStay(c) /\ Staged(c)'
      <4>1. CASE /\ pc' = [pc EXCEPT ![c] = "idle"]
                 /\ task' = [task EXCEPT ![c] = NoTask]
        BY <2>1, <4>1, StageNow DEF OthersStay, Staged, PCs, Rekeying, Rotating
      <4>2. ASSUME NEW at \in {"begin", "reencrypt"}, NEW g \in Gens,
                   pc' = [pc EXCEPT ![c] = at], task' = [task EXCEPT ![c].newGen = g]
            PROVE  OthersStay(c) /\ Staged(c)'
        <5>1. /\ OthersStay(c) /\ pc'[c] = at /\ task'[c].newGen = g
              /\ task'[c].key = task[c].key /\ task'[c].salt = task[c].salt
          <6>1. Reads(c, task[c].salt, g, task[c].key)
            BY <4>2, Bounds, TaskTyped
          <6> QED
            BY <2>1, <4>2, <6>1, StageNow DEF Reads, OthersStay, PCs, Rekeying, Rotating
        <5> QED
          BY <3>3, <5>1 DEF Staged, Rekeying, Rotating, Gens
      <4> QED
        BY <3>2, <4>1, <4>2
    <3> QED
      BY <2>1, <3>4, StageNow, StageTyped
  <2> QED
    BY <1>12, <2>2, <2>3
<1>13. ASSUME NEW c \in Clients, RotateBegin(c) PROVE TypeOK'
  <2>1. /\ pc[c] # "off" /\ User(c) \in Users /\ account[User(c)] \in Accounts
        /\ task[c].newGen \in Gens /\ task[c].salt \in 1..MaxChanges
    BY <1>13, Typed, StageNow
    DEF RotateBegin, Live, Member, ServerTyped, Staged, Rekeying, Rotating, Tasks, Gens
  <2>2. BeginBody(c) \in [gen : Gens, user : Users, wrap : Wraps]
    BY <2>1 DEF BeginBody, Wrap, Wraps, Accounts, Keys, Gens
  <2>3. ServerTyped'
    BY <1>13, <2>2, StageNow DEF RotateBegin, ServerTyped
  <2>4. OthersStay(c)
    BY <1>13, StageNow DEF RotateBegin, End, Goto, OthersStay, PCs, Rekeying, Rotating
  <2>5. Staged(c)'
    BY <1>13, StageNow DEF RotateBegin, End, Goto, Staged, Rekeying, Rotating
  <2> QED
    BY <1>13, <2>1, <2>3, <2>4, <2>5, StageNow, StageTyped DEF RotateBegin
<1>14. ASSUME NEW c \in Clients, ReencryptSome(c) PROVE TypeOK'
  <2>1. pending.wrap.key \in Keys /\ pc[c] # "off"
    BY <1>14, StageNow DEF ReencryptSome, Ours, InProgress, ServerTyped, Wraps
  <2>2. ServerTyped' /\ Len(issued') = Len(issued) /\ faults' = faults
    BY <1>14, <2>1, StageNow DEF ReencryptSome, ServerTyped
  <2> QED
    BY <1>14, <2>2, StageNow, Typed, StillTyped DEF ReencryptSome
<1>15. ASSUME NEW c \in Clients, RotateComplete(c) PROVE TypeOK'
  <2> DEFINE u == pending.user
  <2>1. /\ pc[c] # "off" /\ u \in Users /\ (Member(u) => account[u] \in Accounts)
        /\ pending \in [gen : Gens, user : Users, wrap : Wraps]
    BY <1>15, StageNow DEF RotateComplete, CanComplete, Member, InProgress, ServerTyped
  <2>2. account' \in [Users -> {NoAccount} \cup Accounts] /\ crossed' \subseteq Users
    BY <1>15, <2>1, StageNow DEF RotateComplete, ServerTyped, Accounts
  <2>3. ServerTyped' /\ UNCHANGED <<issued, with, net, saved, session, task, faults>>
    BY <1>15, <2>1, <2>2, StageNow DEF RotateComplete, ServerTyped, Wraps
  <2>4. OthersStay(c) /\ pc'[c] = "cutover"
    BY <1>15, StageNow DEF RotateComplete, Goto, OthersStay, PCs, Rekeying, Rotating
  <2>5. Staged(c)'
    BY <1>15, <2>1, <2>3, <2>4, StageNow DEF RotateComplete, Staged, Rekeying, Rotating
  <2> QED
    BY <2>1, <2>3, <2>4, <2>5, StageNow, StageTyped
<1>16. ASSUME NEW c \in Clients, Cutover(c) PROVE TypeOK'
  <2>1. task[c].newGen \in Gens /\ pc[c] # "off"
    BY <1>16, StageNow DEF Cutover, Staged, Rekeying, Rotating, Tasks, Gens
  <2>2. OthersStay(c) /\ pc'[c] = "idle"
    BY <1>16, <2>1, StageNow
    DEF Cutover, End, Goto, SetKey, OthersStay, PCs, Sessions, Keys, Gens
  <2>3. Staged(c)'
    BY <2>2 DEF Staged, Rekeying, Rotating
  <2> QED
    BY <1>16, <2>1, <2>2, <2>3, StageNow, StageTyped DEF Cutover, server, ServerTyped
<1>17. ASSUME NEW c \in Clients,
              \/ ReencryptFails(c) \/ Refused(c) \/ GiveUp(c) \/ Abort(c) \/ Crash(c)
       PROVE  TypeOK'
  <2>1. pc[c] # "off" /\ OthersStay(c) /\ pc'[c] \in {"idle", "lost"}
    BY <1>17, StageNow
    DEF ReencryptFails, Refused, GiveUp, Abort, Crash, End, Goto, OthersStay, PCs,
        Rekeying, Rotating
  <2>2. ServerTyped' /\ faults' \in 0..MaxFaults
    BY <1>17, StageNow
    DEF ReencryptFails, Refused, GiveUp, Abort, Crash, server, ServerTyped
  <2>3. UNCHANGED <<issued, with, net, saved>>
    BY <1>17 DEF ReencryptFails, Refused, GiveUp, Abort, Crash, server
  <2>4. Staged(c)'
    BY <2>1 DEF Staged, Rekeying, Rotating
  <2> QED
    BY <2>1, <2>2, <2>3, <2>4, StageNow, StageTyped
<1>18. CASE UNCHANGED vars
  BY <1>18 DEF TypeOK, vars, Unlocked
<1> QED
  BY <1>1, <1>2, <1>3, <1>4, <1>5, <1>6, <1>7, <1>8, <1>9, <1>10, <1>11, <1>12,
     <1>13, <1>14, <1>15, <1>16, <1>17, <1>18, <1>19
  DEF Next, Build, Manage, Rekey, Fault

(* Every variable stays in its set, for any number of users and clients:   *)
(* in particular every method that needs the account key has read one.     *)
THEOREM TypeCorrect == Spec => []TypeOK
  BY TypeInit, TypeStep, PTL DEF Spec

-----------------------------------------------------------------------------
(* What no step takes back. *)

(* What a secret says for good. *)
Kept(i) ==
    /\ issued'[i].kind = issued[i].kind /\ issued'[i].user = issued[i].user
    /\ issued'[i].key = issued[i].key /\ issued'[i].gen = issued[i].gen
    /\ issued[i].revoked => issued'[i].revoked

(* Secrets stay as they were made, except that they are spent and revoked. *)
LEMMA SecretsKept ==
    ASSUME TypeOK, [Next]_vars
    PROVE  Secrets \subseteq Secrets' /\ \A i \in Secrets : Kept(i)
<1> SUFFICES ASSUME issued' # issued
             PROVE  Secrets \subseteq Secrets' /\ \A i \in Secrets : Kept(i)
  BY DEF Secrets, Kept
<1>1. CASE \E s \in SecretSet : Issue(s)
  BY <1>1, IssueTyped, Typed DEF Secrets, Kept
<1>2. CASE \E i \in Secrets, c \in Clients : issued' = [issued EXCEPT ![i].by = c]
  <2>1. DOMAIN issued = Secrets
    BY Typed, LenProperties DEF Secrets
  <2>2. PICK i \in Secrets, c \in Clients : issued' = [issued EXCEPT ![i].by = c]
    BY <1>2
  <2>3. \A j \in Secrets : issued'[j] = IF j = i THEN [issued[j] EXCEPT !.by = c] ELSE issued[j]
    BY <2>1, <2>2
  <2>4. DOMAIN issued' = Secrets /\ Secrets' = Secrets
    BY <2>1, <2>2 DEF Secrets
  <2> QED
    BY <2>3, <2>4, Typed DEF Kept, SecretSet
<1>3. CASE \E i \in Secrets : issued' = [issued EXCEPT ![i].revoked = TRUE]
  <2>1. DOMAIN issued = Secrets
    BY Typed, LenProperties DEF Secrets
  <2>2. PICK i \in Secrets : issued' = [issued EXCEPT ![i].revoked = TRUE]
    BY <1>3
  <2>3. \A j \in Secrets :
          issued'[j] = IF j = i THEN [issued[j] EXCEPT !.revoked = TRUE] ELSE issued[j]
    BY <2>1, <2>2
  <2>4. Secrets' = Secrets
    BY <2>1, <2>2 DEF Secrets
  <2> QED
    BY <2>3, <2>4, Typed DEF Kept, SecretSet
<1>4. CASE \E u \in Users : issued' = [i \in Secrets |->
               IF issued[i].user = u THEN [issued[i] EXCEPT !.revoked = TRUE]
               ELSE issued[i]]
  <2>1. Secrets' = Secrets
    BY <1>4, RevokedTyped DEF Secrets
  <2>2. PICK u \in Users : issued' = [i \in Secrets |->
               IF issued[i].user = u THEN [issued[i] EXCEPT !.revoked = TRUE]
               ELSE issued[i]]
    BY <1>4
  <2>3. \A j \in Secrets : issued'[j] = IF issued[j].user = u
                                      THEN [issued[j] EXCEPT !.revoked = TRUE]
                                      ELSE issued[j]
    BY <2>2
  <2> QED
    BY <2>1, <2>3, Typed DEF Kept, SecretSet
<1>5. ASSUME NEW c \in Clients, Manage(c) \/ TakePost(c)
      PROVE  \/ \E s \in SecretSet : Issue(s)
             \/ \E i \in Secrets, d \in Clients : issued' = [issued EXCEPT ![i].by = d]
             \/ \E i \in Secrets : issued' = [issued EXCEPT ![i].revoked = TRUE]
             \/ \E u \in Users : issued' = [i \in Secrets |->
                    IF issued[i].user = u THEN [issued[i] EXCEPT !.revoked = TRUE]
                    ELSE issued[i]]
  <2>1. ASSUME NEW kind \in Kinds, GenToken(c, kind) PROVE \E s \in SecretSet : Issue(s)
    <3>1. Secret(kind, User(c), 1, 1) \in SecretSet
      BY <2>1, Typed, Bounds DEF GenToken, Calls, Secret, SecretSet
    <3> QED
      BY <2>1, <3>1 DEF GenToken
  <2>2. ASSUME NEW u \in Users, Invite(c, u) PROVE \E s \in SecretSet : Issue(s)
    <3>1. Secret("invite", u, session[c].key, gen) \in SecretSet
      BY <2>2, StageNow DEF Invite, Unlocked, Sessions, ServerTyped, Secret, SecretSet, Kinds
    <3> QED
      BY <2>2, <3>1 DEF Invite
  <2>3. TakePost(c) => \E i \in Secrets, d \in Clients : issued' = [issued EXCEPT ![i].by = d]
    BY Typed DEF TakePost, TypeOK
  <2> QED
    BY <1>5, <2>1, <2>2, <2>3 DEF Manage, RevokeDevice, RemoveUser, Push
<1>6. \E c \in Clients : Manage(c) \/ TakePost(c)
  BY DEF Next, Build, Rekey, Fault, vars, server, Post, FromCi, SaveTokens, Unlock,
     UnlockFails, Lock, ChangeUnlock, ChangePatch, RotateStart, RotateStatus, RotateBegin,
     ReencryptSome, ReencryptFails, RotateComplete, Cutover, Refused, GiveUp, Abort,
     Crash
<1> QED
  BY <1>1, <1>2, <1>3, <1>4, <1>5, <1>6

(* A client that is built stays what it is built with, and history is not  *)
(* taken back.                                                             *)
LEMMA Lasting ==
    ASSUME TypeOK, [Next]_vars
    PROVE  /\ \A c \in Clients : pc[c] # "off" =>
                 /\ pc'[c] # "off" /\ with'[c] = with[c] /\ User(c)' = User(c)
           /\ crossed \subseteq crossed'
           /\ \A u \in Users : Misled(u) => Misled(u)'
<1>1. \A c \in Clients : pc[c] # "off" => with'[c] = with[c]
  <2>1. \/ with' = with
        \/ \E d \in Clients, i \in Secrets : Post(d, i) \/ FromCi(d, i)
    <3>1. UNCHANGED vars => with' = with
      BY DEF vars
    <3>2. ASSUME NEW d \in Clients, Manage(d) \/ Rekey(d) \/ Fault(d) PROVE with' = with
      BY <3>2
      DEF Manage, Rekey, Fault, GenToken, Invite, RevokeDevice, RemoveUser, Push,
          ChangeUnlock, ChangePatch, RotateStart, RotateStatus, RotateBegin, ReencryptSome,
          ReencryptFails, RotateComplete, Cutover, Refused, GiveUp, Abort, Crash
    <3>3. ASSUME NEW d \in Clients, Build(d)
          PROVE  with' = with \/ \E i \in Secrets : Post(d, i) \/ FromCi(d, i)
      BY <3>3 DEF Build, TakePost, SaveTokens, Unlock, UnlockFails, Lock
    <3> QED
      BY <3>1, <3>2, <3>3 DEF Next
  <2>2. ASSUME NEW d \in Clients, NEW i \in Secrets, Post(d, i) \/ FromCi(d, i),
               NEW c \in Clients, pc[c] # "off"
        PROVE  with'[c] = with[c]
    BY <2>2 DEF Post, FromCi, TypeOK
  <2> QED
    BY <2>1, <2>2
<1>2. \A c \in Clients : pc[c] # "off" => pc'[c] # "off"
  BY <1>1, TypeStep DEF TypeOK
<1>3. crossed \subseteq crossed'
  <2>1. CASE UNCHANGED vars
    BY <2>1 DEF vars
  <2>2. ASSUME NEW d \in Clients, ChangePatch(d) \/ RotateComplete(d)
        PROVE  crossed \subseteq crossed'
    BY <2>2 DEF ChangePatch, RotateComplete
  <2>3. ASSUME NEW d \in Clients, Manage(d) \/ Rekey(d) \/ Fault(d)
        PROVE  crossed \subseteq crossed'
    BY <2>2, <2>3
    DEF Manage, Rekey, Fault, GenToken, Invite, RevokeDevice, RemoveUser, Push,
        ChangeUnlock, RotateStart, RotateStatus, RotateBegin, ReencryptSome,
        ReencryptFails, Cutover, Refused, GiveUp, Abort, Crash
  <2>4. ASSUME NEW d \in Clients, Build(d) PROVE crossed \subseteq crossed'
    BY <2>4 DEF Build, TakePost, SaveTokens, Unlock, UnlockFails, Lock, Post, FromCi
  <2> QED
    BY <2>1, <2>3, <2>4 DEF Next
<1> QED
  BY <1>1, <1>2, <1>3, SecretsKept, Typed DEF User, Kept, Misled, Misinvited

-----------------------------------------------------------------------------
(* DevicesHeld, which needs no more than that a POST under way is waited   *)
(* for or given up.                                                        *)
Waits == \A c \in Clients : NetWaits(c)

(* Every step keeps both. *)
LEMMA HeldStep ==
    TypeOK /\ Waits /\ DevicesHeld /\ [Next]_vars => Waits' /\ DevicesHeld'
<1> SUFFICES ASSUME TypeOK, Waits, DevicesHeld, [Next]_vars
             PROVE  Waits' /\ DevicesHeld'
  OBVIOUS
<1>1. \A c \in Clients : pc \in [Clients -> PCs] /\ (c \in saved => c \notin net)
  BY DEF Waits, NetWaits, TypeOK
<1>2. ASSUME NEW c \in Clients, NEW i \in Secrets, Post(c, i) \/ FromCi(c, i)
      PROVE  Waits' /\ DevicesHeld'
  <2>1. issued' = issued /\ pc[c] = "off" /\ saved \subseteq saved'
    BY <1>2 DEF Post, FromCi, server
  <2>2. Waits'
    BY <1>1, <1>2 DEF Waits, NetWaits, Post, FromCi, Goto
  <2>3. \A d \in Clients : pc[d] \in {"save", "lost"} => pc'[d] = pc[d]
    BY <1>1, <1>2, <2>1 DEF Post, FromCi, Goto
  <2> QED
    BY <2>1, <2>2, <2>3, Typed DEF DevicesHeld, Secrets, SecretSet
<1>3. ASSUME NEW c \in Clients, TakePost(c) PROVE Waits' /\ DevicesHeld'
  <2>1. /\ c \in net /\ pc[c] \in {"posting", "lost"} /\ saved' = saved
        /\ net' = net \ {c} /\ with[c] \in Secrets /\ c # NoClient
    BY <1>3, Typed, TeamAssumption DEF TakePost, Waits, NetWaits
  <2>2. Waits'
    BY <1>1, <1>3, <2>1 DEF Waits, NetWaits, TakePost, Goto
  <2>3. \A d \in Clients : pc[d] \in {"save", "lost"} => pc'[d] = pc[d]
    BY <1>1, <1>3, <2>1 DEF TakePost, Goto
  <2>4. CASE issued' = issued
    BY <2>1, <2>2, <2>3, <2>4, Typed DEF DevicesHeld, Secrets, SecretSet
  <2>5. CASE Takes(issued[with[c]])
    <3>1. issued' = [issued EXCEPT ![with[c]].by = c] /\ pc'[c] \in {"save", "lost"}
      BY <1>1, <1>3, <2>1, <2>5 DEF TakePost, Goto
    <3>2. DOMAIN issued = Secrets
      BY Typed, LenProperties DEF Secrets
    <3>3. Secrets' = Secrets
      BY <3>1 DEF Secrets
    <3>4. \A j \in Secrets : issued'[j].by = IF j = with[c] THEN c ELSE issued[j].by
      BY <2>1, <3>1, <3>2, Typed DEF SecretSet
    <3> QED
      BY <2>1, <2>2, <2>3, <3>1, <3>3, <3>4, Typed DEF DevicesHeld, SecretSet
  <2> QED
    BY <1>3, <2>4, <2>5 DEF TakePost
<1>4. ASSUME NEW c \in Clients,
             SaveTokens(c) \/ Unlock(c) \/ UnlockFails(c) \/ Rekey(c) \/ Fault(c)
      PROVE  Waits' /\ DevicesHeld'
  <2> USE DEF Rekey, Fault
  <2>1. /\ saved \subseteq saved' /\ net' = net
        /\ \A d \in Clients \ {c} : pc'[d] = pc[d] /\ (d \in saved' => d \in saved)
    BY <1>1, <1>4 DEF SaveTokens, Unlock, UnlockFails, ChangeUnlock, ChangePatch,
       RotateStart, RotateStatus, RotateBegin, ReencryptSome, ReencryptFails,
       RotateComplete, Cutover, Refused, GiveUp, Abort, Crash, Goto, End
  <2>2. pc[c] # "off" /\ c \in Clients
    BY <1>4 DEF SaveTokens, Unlock, UnlockFails, ChangeUnlock, ChangePatch,
       RotateStart, RotateStatus, RotateBegin, ReencryptSome, ReencryptFails,
       RotateComplete, Cutover, Refused, GiveUp, Abort, Crash, Calls, Rekeying, Rotating
  <2>3. /\ pc[c] \in {"save", "lost"} => c \in saved' \/ pc'[c] \in {"save", "lost"}
        /\ c \in saved' => pc'[c] \notin {"off", "posting", "save", "failed", "lost"}
        /\ c \in net' => pc'[c] \in {"posting", "lost"}
    BY <1>1, <1>4, <2>1 DEF SaveTokens, Unlock, UnlockFails, ChangeUnlock, ChangePatch,
       RotateStart, RotateStatus, RotateBegin, ReencryptSome, ReencryptFails,
       RotateComplete, Cutover, Refused, GiveUp, Abort, Crash, Goto, End, Calls, Rekeying, Rotating,
       Waits, NetWaits, Live
  <2>4. Waits'
    BY <2>1, <2>3 DEF Waits, NetWaits
  <2>5. issued' = issued
    BY <1>4 DEF SaveTokens, Unlock, UnlockFails, ChangeUnlock, ChangePatch,
       RotateStart, RotateStatus, RotateBegin, ReencryptSome, ReencryptFails,
       RotateComplete, Cutover, Refused, GiveUp, Abort, Crash, server
  <2> QED
    BY <2>1, <2>3, <2>4, <2>5, Typed DEF DevicesHeld, Secrets, SecretSet
<1>5. ASSUME NEW c \in Clients, Manage(c) \/ Lock(c) \/ UNCHANGED vars
      PROVE  Waits' /\ DevicesHeld'
  <2>1. UNCHANGED <<pc, net, saved>>
    BY <1>5 DEF Manage, Lock, GenToken, Invite, RevokeDevice, RemoveUser, Push, server, vars
  <2>2. \A i \in Secrets' : issued'[i].by = NoClient
                          \/ (i \in Secrets /\ issued'[i].by = issued[i].by)
    <3>1. ASSUME NEW s, Issue(s), s.by = NoClient, s \in SecretSet
          PROVE  \A i \in Secrets' : issued'[i].by = NoClient
                          \/ (i \in Secrets /\ issued'[i].by = issued[i].by)
      BY <3>1, IssueTyped, Typed DEF Secrets
    <3>2. ASSUME NEW kind \in Kinds, GenToken(c, kind)
          PROVE  \E s \in SecretSet : Issue(s) /\ s.by = NoClient
      <4>1. Secret(kind, User(c), 1, 1) \in SecretSet
        BY <3>2, Typed, Bounds DEF GenToken, Calls, Secret, SecretSet
      <4> QED
        BY <3>2, <4>1 DEF GenToken, Secret
    <3>3. ASSUME NEW u \in Users, Invite(c, u)
          PROVE  \E s \in SecretSet : Issue(s) /\ s.by = NoClient
      <4>1. Secret("invite", u, session[c].key, gen) \in SecretSet
        BY <3>3, StageNow
        DEF Invite, Unlocked, Sessions, ServerTyped, Secret, SecretSet, Kinds
      <4> QED
        BY <3>3, <4>1 DEF Invite, Secret
    <3>4. ASSUME NEW i \in Secrets, RevokeDevice(c, i)
          PROVE  Secrets' = Secrets /\ \A j \in Secrets : issued'[j].by = issued[j].by
      <4>1. DOMAIN issued = Secrets
        BY Typed, LenProperties DEF Secrets
      <4>2. issued' = [issued EXCEPT ![i].revoked = TRUE]
        BY <3>4 DEF RevokeDevice
      <4> QED
        BY <4>1, <4>2, Typed DEF SecretSet, Secrets
    <3>5. ASSUME NEW u \in Users, RemoveUser(c, u)
          PROVE  Secrets' = Secrets /\ \A j \in Secrets : issued'[j].by = issued[j].by
      <4>1. Secrets' = Secrets
        BY <3>5, RevokedTyped DEF RemoveUser, Secrets
      <4> QED
        BY <3>5, <4>1, Typed DEF RemoveUser, SecretSet
    <3>6. CASE issued' = issued
      BY <3>6 DEF Secrets
    <3>7. (Push(c) \/ Lock(c) \/ UNCHANGED vars) => issued' = issued
      BY DEF Push, Lock, server, vars
    <3> QED
      BY <1>5, <3>1, <3>2, <3>3, <3>4, <3>5, <3>6, <3>7 DEF Manage
  <2> QED
    BY <2>1, <2>2 DEF Waits, NetWaits, DevicesHeld
<1>6. CASE UNCHANGED vars
  BY <1>6 DEF vars, Waits, NetWaits, DevicesHeld, Secrets
<1> QED
  BY <1>2, <1>3, <1>4, <1>5, <1>6 DEF Next, Build

(* Every POST under way is waited for or given up, and every device held. *)
LEMMA HeldInvariant == Spec => [](Waits /\ DevicesHeld)
<1>1. Init => Waits /\ DevicesHeld
  <2> SUFFICES ASSUME Init PROVE Waits /\ DevicesHeld
    OBVIOUS
  <2>1. Secrets = {1} /\ issued[1].by = NoClient
    BY DEF Init, Secrets, Secret
  <2> QED
    BY <2>1 DEF Init, Waits, NetWaits, DevicesHeld
<1> QED
  BY <1>1, HeldStep, TypeCorrect, PTL DEF Spec

(* No device is lost to a wrong password or to any refusal: a device that  *)
(* the server has made has its tokens in a store or about to be, unless    *)
(* the answer that carried them did not come.                              *)
THEOREM DevicesAreHeld == Spec => []DevicesHeld
  BY HeldInvariant, PTL

-----------------------------------------------------------------------------
(* The other safety properties, from the inductive invariant TeamInv.      *)

(* What TypeOK says of the numbers that TeamInv compares. *)
LEMMA Numbers ==
    ASSUME TypeOK
    PROVE  /\ gen \in Nat /\ gen > 0
           /\ \A u \in Users : left[u] \in Nat /\ LastGen(u) \in Nat
           /\ \A u \in Users : Member(u) => account[u] \in Accounts
           /\ InProgress => pending \in [gen : Gens, user : Users, wrap : Wraps]
           /\ crossed \subseteq Users
  BY Bounds DEF TypeOK, LastGen, Member, InProgress, Gens

(* The same of a client. *)
LEMMA ClientNumbers ==
    ASSUME TypeOK, NEW c \in Clients
    PROVE  /\ task[c].newGen \in Nat /\ task[c].salt \in Nat /\ task[c].key \in Nat
           /\ Unlocked(c) => session[c].key \in Nat /\ session[c].gen \in Nat
  BY Bounds DEF TypeOK, Unlocked, Gens, Keys

(* A client that the server answers is a member's, who was not removed.    *)
LEMMA LiveMember ==
    ASSUME TypeOK, TeamInv, NEW c \in Clients, Live(c), pc[c] # "off"
    PROVE  /\ User(c) \in Users /\ Member(User(c)) /\ left[User(c)] = 0
           /\ account[User(c)] \in Accounts /\ LastGen(User(c)) = gen
  BY Typed, Numbers DEF TeamInv, ServerInv, RemovedStay, Live, LastGen

(* A step that only takes one client to another stage keeps the invariant  *)
(* if the client's own part of it holds.                                   *)
LEMMA StageAgrees ==
    ASSUME TypeOK, TeamInv, NEW c \in Clients, pc[c] # "off",
           UNCHANGED <<issued, account, left, gen, pending, with, crossed>>,
           OthersStay(c), Waits', RotatorAgrees(c)', SessionAgrees(c)'
    PROVE  TeamInv'
<1>1. ServerInv'
  BY DEF TeamInv, ServerInv, RemovedStay, Member, Secrets, AccountsFit, Fits,
         PendingFits, InProgress, FitsUser, Excused, KeysNamed, Misled, Misinvited, LastGen
<1>2. ASSUME NEW d \in Clients \ {c} PROVE RotatorAgrees(d)' /\ SessionAgrees(d)'
  <2>1. RotatorAgrees(d) /\ SessionAgrees(d)
    BY DEF TeamInv, ClientInv
  <2>2. pc'[d] = pc[d] /\ session'[d] = session[d] /\ task'[d] = task[d]
    BY DEF OthersStay
  <2>3. User(d)' = User(d) /\ LastGen(User(d))' = LastGen(User(d))
    BY DEF User, LastGen
  <2>4. RotatorAgrees(d)'
    BY <2>1, <2>2, <2>3 DEF RotatorAgrees, FitsUser, Excused, Member, InProgress
  <2>5. Misled(User(d))' <=> Misled(User(d))
    BY <2>3 DEF Misled, Misinvited, Secrets
  <2>6. SessionAgrees(d)'
    BY <2>1, <2>2, <2>3, <2>5 DEF SessionAgrees, HoldsKey, Excused, Member, Unlocked
  <2> QED
    BY <2>4, <2>6
<1> QED
  BY <1>1, <1>2 DEF TeamInv, ClientInv, Waits

(* The client's part of the invariant outlives a step that leaves alone or *)
(* ends what the client is doing, if what it relies on stays.              *)
LEMMA ServerAgrees ==
    ASSUME TypeOK, TeamInv, [Next]_vars, TypeOK', NEW c \in Clients, pc[c] # "off",
           session'[c] = session[c],
           \/ pc'[c] = pc[c] /\ task'[c] = task[c]
           \/ pc'[c] \notin Rekeying,
           \A u \in Users : LastGen(u) <= LastGen(u)',
           pc'[c] \in {"status", "begin"} =>
             \A u \in Users, n \in Nat : u = User(c) /\ FitsUser(n, u) => FitsUser(n, u)',
           pc'[c] = "reencrypt" => RotatorAgrees(c)',
           pc'[c] = "patch" =>
             \A u \in Users, k \in Nat : u = User(c) /\ HoldsKey(k, u) => HoldsKey(k, u)'
    PROVE  RotatorAgrees(c)' /\ SessionAgrees(c)'
<1>1. User(c) \in Users /\ User(c)' = User(c) /\ with'[c] = with[c]
  BY Typed, Lasting
<1>2. gen' \in Nat /\ \A u \in Users : LastGen(u)' \in Nat
  BY Bounds DEF TypeOK, LastGen, Gens
<1> PICK u \in Users : u = User(c)
  BY <1>1
<1>3. LastGen(User(c))' = LastGen(u)' /\ LastGen(u) <= LastGen(u)'
  BY <1>1 DEF LastGen
<1>4. Misled(u) => Misled(User(c))'
  BY <1>1, Lasting DEF Misled, Misinvited
<1>5. /\ task[c].newGen \in Nat /\ task[c].salt \in Nat /\ task[c].key \in Nat
      /\ LastGen(u) \in Nat /\ LastGen(u)' \in Nat
  BY <1>2, Numbers, ClientNumbers
<1>6. RotatorAgrees(c)'
  <2>1. pc'[c] = "cutover" => task'[c].newGen <= LastGen(User(c))'
    <3>1. pc[c] = "cutover" => task[c].newGen <= LastGen(u)
      BY DEF TeamInv, ClientInv, RotatorAgrees
    <3> QED
      BY <1>3, <1>5, <3>1 DEF Rekeying, Rotating
  <2>2. pc'[c] \in {"status", "begin"} => FitsUser(task[c].salt, User(c))'
    <3>1. pc[c] \in {"status", "begin"} => FitsUser(task[c].salt, u)
      BY DEF TeamInv, ClientInv, RotatorAgrees
    <3>3. PICK n \in Nat : n = task[c].salt
      BY <1>5
    <3>4. FitsUser(n, u) /\ pc'[c] \in {"status", "begin"} => FitsUser(n, u)'
      OBVIOUS
    <3>5. pc'[c] \in {"status", "begin"} => task'[c].salt = n /\ FitsUser(n, u)
      BY <3>1, <3>3 DEF Rekeying, Rotating
    <3>6. task'[c].salt = n /\ FitsUser(n, u)' => FitsUser(task[c].salt, User(c))'
      BY <1>1 DEF FitsUser, Excused, Member
    <3> QED
      BY <3>4, <3>5, <3>6
  <2> QED
    BY <2>1, <2>2 DEF RotatorAgrees
<1>7. SessionAgrees(c)'
  <2>1. Unlocked(c)' => /\ session[c].key <= LastGen(u) /\ session[c].key \in Nat
                        /\ session'[c].gen = session'[c].key \/ Misled(User(c))'
    BY <1>4, ClientNumbers DEF TeamInv, ClientInv, SessionAgrees, Unlocked
  <2>2. Unlocked(c)' => session'[c].key <= LastGen(User(c))'
    BY <1>3, <1>5, <2>1
  <2>3. pc'[c] \in Rekeying => task'[c].key <= LastGen(User(c))'
    <3>1. pc'[c] \in Rekeying => task'[c] = task[c] /\ task[c].key <= LastGen(u)
      BY DEF TeamInv, ClientInv, SessionAgrees
    <3> QED
      BY <1>3, <1>5, <3>1
  <2>4. pc'[c] = "patch" => HoldsKey(task[c].key, User(c))'
    <3>1. PICK k \in Nat : k = task[c].key
      BY <1>5
    <3>2. pc'[c] = "patch" => task'[c].key = k /\ HoldsKey(k, u)
      BY <3>1 DEF TeamInv, ClientInv, SessionAgrees, Rekeying
    <3>3. HoldsKey(k, u) /\ pc'[c] = "patch" => HoldsKey(k, u)'
      OBVIOUS
    <3>4. task'[c].key = k /\ HoldsKey(k, u)' => HoldsKey(task[c].key, User(c))'
      BY <1>1 DEF HoldsKey, Excused, Member
    <3> QED
      BY <3>2, <3>3, <3>4
  <2> QED
    BY <2>1, <2>2, <2>3, <2>4 DEF SessionAgrees
<1> QED
  BY <1>6, <1>7

(* The steps that only take a client to another stage. *)
Stages(c) ==
    \/ SaveTokens(c) \/ Unlock(c) \/ UnlockFails(c) \/ Lock(c)
    \/ ChangeUnlock(c) \/ RotateStart(c) \/ RotateStatus(c) \/ ReencryptFails(c)
    \/ Cutover(c) \/ Fault(c)

LEMMA StagesAgree ==
    ASSUME TypeOK, TypeOK', TeamInv, Waits', NEW c \in Clients, Stages(c)
    PROVE  TeamInv'
<1>1. UNCHANGED <<issued, account, left, gen, pending, with, crossed>> /\ pc[c] # "off"
  BY DEF Stages, Fault, server, SaveTokens, Unlock, UnlockFails, Lock, ChangeUnlock,
     RotateStart, RotateStatus, ReencryptFails, Cutover, Refused, GiveUp, Abort, Crash,
     Calls, Rekeying, Rotating
<1>2. OthersStay(c)
  <2>1. /\ pc' \in [Clients -> PCs] /\ session' \in [Clients -> Sessions]
        /\ task' \in [Clients -> Tasks]
    BY DEF TypeOK, Sessions, Tasks
  <2>2. \A d \in Clients \ {c} :
          pc'[d] = pc[d] /\ session'[d] = session[d] /\ task'[d] = task[d]
    <3>1. pc \in [Clients -> PCs] /\ session \in [Clients -> Sessions]
          /\ task \in [Clients -> Tasks]
      BY StageNow
    <3>2. CASE SaveTokens(c) \/ Unlock(c) \/ UnlockFails(c) \/ Lock(c) \/ ChangeUnlock(c)
      BY <3>1, <3>2
      DEF SaveTokens, Unlock, UnlockFails, Lock, ChangeUnlock, Goto, SetKey
    <3>3. CASE RotateStart(c) \/ RotateStatus(c)
      BY <3>1, <3>3 DEF RotateStart, RotateStatus, Goto, End
    <3>4. CASE ReencryptFails(c) \/ Cutover(c) \/ Fault(c)
      BY <3>1, <3>4 DEF ReencryptFails, Cutover, Fault, Refused, GiveUp, Abort, Crash,
         Goto, End, SetKey
    <3> QED
      BY <3>2, <3>3, <3>4 DEF Stages
  <2> QED
    BY <2>1, <2>2 DEF OthersStay
<1>3. PICK u \in Users : u = User(c) /\ u = User(c)'
  BY <1>1, Typed DEF User
<1>4. /\ LastGen(User(c))' = LastGen(u) /\ (Misled(u) => Misled(User(c))')
      /\ (FitsUser(task'[c].salt, u) => FitsUser(task[c].salt, User(c))')
      /\ (HoldsKey(task'[c].key, u) => HoldsKey(task[c].key, User(c))')
      /\ InProgress' = InProgress
  BY <1>1, <1>3 DEF LastGen, Misled, Misinvited, Secrets, FitsUser, HoldsKey, Excused,
                    Member, InProgress
<1>5. /\ Unlocked(c) => /\ session[c].key <= LastGen(u)
                        /\ session[c].gen = session[c].key \/ Misled(u)
      /\ pc[c] \in Rekeying => task[c].key <= LastGen(u)
      /\ pc[c] = "patch" => HoldsKey(task[c].key, u)
      /\ pc[c] \in {"status", "begin"} => FitsUser(task[c].salt, u)
      /\ pc[c] = "reencrypt" =>
            \/ task[c].newGen <= gen
            \/ InProgress /\ task[c].newGen = pending.gen /\ u = pending.user
      /\ pc[c] = "cutover" => task[c].newGen <= LastGen(u)
  BY <1>3 DEF TeamInv, ClientInv, SessionAgrees, RotatorAgrees
(* What the client knows after the step. *)
<1> DEFINE Knows(n) == n = NoSession \/ /\ n.key <= LastGen(u)
                                        /\ n.gen = n.key \/ Misled(u)
<1>6. ASSUME Knows(session'[c]), pc'[c] \notin Rekeying PROVE TeamInv'
  <2>1. RotatorAgrees(c)' /\ SessionAgrees(c)'
    BY <1>3, <1>4, <1>6 DEF RotatorAgrees, SessionAgrees, Unlocked, Rekeying, Rotating
  <2> QED
    BY <1>1, <1>2, <2>1, StageAgrees
<1>7. Knows(session[c])
  BY <1>5 DEF Unlocked
<1>8. ASSUME SaveTokens(c) PROVE TeamInv'
  <2> DEFINE s == issued[with[c]]
  <2>1. /\ with[c] \in Secrets /\ s.user = u /\ s.key <= LastGen(u)
        /\ s.kind # "invite" => s.key = s.gen
    BY <1>1, <1>3, Typed DEF TeamInv, ServerInv, KeysNamed, User
  <2>2. s.gen = s.key \/ Misled(u)
    BY <2>1 DEF Misled, Misinvited
  <2>3. session'[c] = session[c] \/ session'[c] = [gen |-> s.gen, key |-> s.key]
    BY <1>8, StageNow DEF SaveTokens, SetKey
  <2>4. Knows(session'[c])
    BY <1>7, <2>1, <2>2, <2>3
  <2>5. pc'[c] \notin Rekeying
    BY <1>8, StageNow DEF SaveTokens, Goto, Rekeying, Rotating
  <2> QED
    BY <1>6, <2>4, <2>5
<1>9. ASSUME Unlock(c) \/ ChangeUnlock(c)
      PROVE  /\ session'[c] = [gen |-> account[u].gen, key |-> account[u].wrap.key]
             /\ Member(u) /\ Knows(session'[c])
  <2>1. session'[c] = [gen |-> account[u].gen, key |-> account[u].wrap.key]
    BY <1>3, <1>9, StageNow DEF Unlock, ChangeUnlock, SetKey
  <2>2. Member(u) /\ LastGen(u) = gen
    BY <1>1, <1>3, <1>9, LiveMember DEF Unlock, ChangeUnlock, Calls
  <2>3. account[u].wrap.key <= gen
        /\ (account[u].gen = account[u].wrap.key \/ Misled(u))
    BY <2>2 DEF TeamInv, ServerInv, KeysNamed
  <2> QED
    BY <2>1, <2>2, <2>3
<1>10. ASSUME Unlock(c) PROVE TeamInv'
  <2>1. pc'[c] \notin Rekeying
    BY <1>10, StageNow DEF Unlock, Goto, Rekeying, Rotating
  <2> QED
    BY <1>6, <1>9, <1>10, <2>1
<1>11. ASSUME ChangeUnlock(c) PROVE TeamInv'
  <2>1. pc'[c] = "patch" /\ task'[c].key = account[u].wrap.key
    BY <1>3, <1>11, StageNow DEF ChangeUnlock, Goto, Tasks
  <2>2. HoldsKey(task[c].key, User(c))'
    BY <1>4, <1>9, <1>11, <2>1 DEF HoldsKey
  <2>3. SessionAgrees(c)'
    <3>1. /\ session'[c].key <= LastGen(u)
          /\ session'[c].gen = session'[c].key \/ Misled(u)
          /\ task'[c].key = session'[c].key
      BY <1>9, <1>11, <2>1 DEF NoSession
    <3> QED
      BY <1>4, <2>2, <3>1 DEF SessionAgrees
  <2>4. RotatorAgrees(c)'
    BY <2>1 DEF RotatorAgrees
  <2> QED
    BY <1>1, <1>2, <2>3, <2>4, StageAgrees
<1>12. ASSUME RotateStart(c) PROVE TeamInv'
  <2>1. /\ session'[c] = session[c] /\ pc'[c] = "status" /\ Unlocked(c)
        /\ task'[c].salt = account[u].salt /\ task'[c].key = session[c].key
    BY <1>3, <1>12, StageNow DEF RotateStart, Goto, Tasks
  <2>2. SessionAgrees(c)'
    BY <1>3, <1>4, <1>5, <1>7, <2>1 DEF SessionAgrees, Unlocked
  <2>3. Member(u)
    BY <1>1, <1>3, <1>12, LiveMember DEF RotateStart, Calls
  <2>4. RotatorAgrees(c)'
    BY <1>4, <2>1, <2>3 DEF RotatorAgrees, FitsUser
  <2> QED
    BY <1>1, <1>2, <2>2, <2>4, StageAgrees
<1>15. ASSUME RotateStatus(c) PROVE TeamInv'
  <2>1. session'[c] = session[c] /\ pc[c] = "status"
    BY <1>15 DEF RotateStatus
  <2>2. CASE pc' = [pc EXCEPT ![c] = "idle"]
    BY <1>6, <1>7, <2>1, <2>2, StageNow DEF Rekeying, Rotating
  <2>3. CASE \/ /\ InProgress /\ Resumes(c)
                /\ task' = [task EXCEPT ![c].newGen = pending.gen]
                /\ pc' = [pc EXCEPT ![c] = "reencrypt"]
             \/ /\ task' = [task EXCEPT ![c].newGen = gen + 1]
                /\ pc' = [pc EXCEPT ![c] = "begin"]
    <3>1. /\ task'[c].key = task[c].key /\ task'[c].salt = task[c].salt
          /\ pc'[c] \in {"begin", "reencrypt"}
          /\ pc'[c] = "reencrypt" =>
                InProgress /\ u = pending.user /\ task'[c].newGen = pending.gen
      <4>1. task \in [Clients -> Tasks] /\ pc \in [Clients -> PCs]
        BY StageNow
      <4>2. Resumes(c) => u = pending.user
        BY <1>3 DEF Resumes
      <4> QED
        BY <2>3, <4>1, <4>2 DEF Tasks
    <3>2. SessionAgrees(c)'
      BY <1>3, <1>4, <1>5, <1>7, <2>1, <3>1 DEF SessionAgrees, Unlocked, Rekeying, Rotating
    <3>3. RotatorAgrees(c)'
      BY <1>1, <1>3, <1>4, <1>5, <2>1, <3>1 DEF RotatorAgrees
    <3> QED
      BY <1>1, <1>2, <3>2, <3>3, StageAgrees
  <2> QED
    BY <1>15, <2>2, <2>3 DEF RotateStatus, Goto, End
<1>13. ASSUME Cutover(c) PROVE TeamInv'
  <2>1. session'[c] = [gen |-> task[c].newGen, key |-> task[c].newGen]
        /\ pc'[c] = "idle" /\ pc[c] = "cutover"
    BY <1>13, StageNow DEF Cutover, SetKey, End, Goto
  <2>2. Knows(session'[c])
    BY <1>5, <2>1
  <2> QED
    BY <1>6, <2>1, <2>2 DEF Rekeying, Rotating
<1>16. ASSUME Lock(c) PROVE TeamInv'
  <2>1. session'[c] = NoSession /\ UNCHANGED <<pc, task>>
    BY <1>16, StageNow DEF Lock
  <2>2. SessionAgrees(c)' /\ RotatorAgrees(c)'
    BY <1>1, <1>3, <1>4, <1>5, <2>1 DEF SessionAgrees, RotatorAgrees, Unlocked
  <2> QED
    BY <1>1, <1>2, <2>2, StageAgrees
<1>14. ASSUME UnlockFails(c) \/ ReencryptFails(c) \/ Fault(c) PROVE TeamInv'
  <2>1. session'[c] \in {session[c], NoSession} /\ pc'[c] \in {"idle", "lost"}
    BY <1>14, StageNow
    DEF UnlockFails, ReencryptFails, Fault, Refused, GiveUp, Abort, Crash, End, Goto
  <2> QED
    BY <1>6, <1>7, <2>1 DEF Rekeying, Rotating
<1> QED
  BY <1>8, <1>10, <1>11, <1>12, <1>13, <1>14, <1>15, <1>16 DEF Stages

(* A step that issues, spends or revokes secrets: the new ones give their  *)
(* users, who have not been removed, no later key than they may know.      *)
LEMMA SecretsAgree ==
    ASSUME TypeOK, TeamInv, [Next]_vars,
           UNCHANGED <<account, left, gen, pending, crossed>>,
           \A i \in Secrets' \ Secrets :
              /\ left[issued'[i].user] = 0 /\ issued'[i].key <= LastGen(issued'[i].user)
              /\ issued'[i].kind # "invite" => issued'[i].key = issued'[i].gen
    PROVE  ServerInv'
<1>1. Secrets \subseteq Secrets' /\ \A i \in Secrets : Kept(i)
  BY SecretsKept
<1>2. \A u \in Users :
        /\ Member(u)' = Member(u) /\ LastGen(u)' = LastGen(u)
        /\ Misled(u) => Misled(u)'
  BY Lasting DEF Member, LastGen
<1>3. RemovedStay'
  <2>1. ASSUME NEW u \in Users, left[u] # 0, NEW i \in Secrets', issued'[i].user = u
        PROVE  issued'[i].revoked
    BY <1>1, <2>1 DEF TeamInv, ServerInv, RemovedStay, Kept
  <2>2. ASSUME NEW u \in Users, Member(u) \/ left[u] # 0
        PROVE  \E i \in Secrets' : issued'[i].user = u
    BY <1>1, <2>2 DEF TeamInv, ServerInv, RemovedStay, Kept
  <2> QED
    BY <1>2, <2>1, <2>2 DEF TeamInv, ServerInv, RemovedStay
<1>4. AccountsFit'
  BY DEF TeamInv, ServerInv, AccountsFit, Member
<1>5. PendingFits'
  BY DEF TeamInv, ServerInv, PendingFits, InProgress, FitsUser, Excused, Member
<1>6. KeysNamed'
  <2>1. ASSUME NEW u \in Users, Member(u)
        PROVE  /\ account'[u].wrap.key <= gen'
               /\ account'[u].gen = account'[u].wrap.key \/ Misled(u)'
    BY <1>2, <2>1 DEF TeamInv, ServerInv, KeysNamed
  <2>2. ASSUME NEW i \in Secrets'
        PROVE  /\ issued'[i].key <= LastGen(issued[i].user)'
               /\ issued'[i].kind # "invite" => issued'[i].key = issued'[i].gen
    <3>1. LastGen(issued[i].user)' = LastGen(issued'[i].user)
      BY DEF LastGen
    <3>2. CASE i \in Secrets
      BY <1>1, <3>1, <3>2 DEF TeamInv, ServerInv, KeysNamed, Kept
    <3>3. CASE i \notin Secrets
      BY <3>1, <3>3
    <3> QED
      BY <3>2, <3>3
  <2> QED
    BY <1>2, <2>1, <2>2 DEF KeysNamed
<1> QED
  BY <1>3, <1>4, <1>5, <1>6 DEF ServerInv

(* A step that changes no client and keeps what the server tells of its    *)
(* keys keeps the client's part of the invariant.                          *)
LEMMA QuietAgrees ==
    ASSUME TypeOK, TypeOK', TeamInv, [Next]_vars, Waits', ServerInv',
           UNCHANGED <<pc, session, task, account, left, gen, pending, crossed>>
    PROVE  TeamInv'
<1>1. ASSUME NEW c \in Clients PROVE RotatorAgrees(c)' /\ SessionAgrees(c)'
  <2>1. CASE pc[c] = "off"
    BY <2>1 DEF RotatorAgrees, SessionAgrees, TypeOK, Rekeying, Rotating
  <2>2. CASE pc[c] # "off"
    <3>1. User(c)' = User(c) /\ User(c) \in Users
      BY <2>2, Lasting, Typed
    <3>2. RotatorAgrees(c)'
      BY <3>1 DEF TeamInv, ClientInv, RotatorAgrees, FitsUser, Excused, Member, InProgress,
                  LastGen
    <3>3. \A u \in Users : LastGen(u) <= LastGen(u)'
      BY Numbers DEF LastGen
    <3>4. ASSUME NEW u \in Users, NEW n \in Nat, FitsUser(n, u) PROVE FitsUser(n, u)'
      BY <3>4 DEF FitsUser, Excused, Member
    <3>6. ASSUME NEW u \in Users, NEW k \in Nat, HoldsKey(k, u) PROVE HoldsKey(k, u)'
      BY <3>6 DEF HoldsKey, Excused, Member
    <3>5. session'[c] = session[c] /\ pc'[c] = pc[c] /\ task'[c] = task[c]
      OBVIOUS
    <3> QED
      BY <2>2, <3>2, <3>3, <3>4, <3>5, <3>6, ServerAgrees
  <2> QED
    BY <2>1, <2>2
<1> QED
  BY <1>1 DEF TeamInv, ClientInv, Waits

(* The requests of a client that is built, save RemoveUser. *)
LEMMA ManageAgrees ==
    ASSUME TypeOK, TypeOK', TeamInv, Waits', [Next]_vars, NEW c \in Clients,
           \/ \E kind \in Kinds : GenToken(c, kind)
           \/ \E u \in Users : Invite(c, u)
           \/ \E i \in Secrets : RevokeDevice(c, i)
           \/ Push(c) \/ ReencryptSome(c)
    PROVE  TeamInv'
<1>1. UNCHANGED <<pc, session, task, account, left, gen, pending, crossed>>
  BY DEF GenToken, Invite, RevokeDevice, Push, ReencryptSome
<1>2. SUFFICES ASSUME NEW i \in Secrets' \ Secrets
               PROVE  /\ left[issued'[i].user] = 0
                      /\ issued'[i].key <= LastGen(issued'[i].user)
                      /\ issued'[i].kind # "invite" => issued'[i].key = issued'[i].gen
  BY <1>1, SecretsAgree, QuietAgrees
<1>3. ASSUME NEW s \in SecretSet, Issue(s) PROVE issued'[i] = s
  BY <1>3, IssueTyped, Typed DEF Secrets
<1>4. ASSUME NEW kind \in Kinds, GenToken(c, kind)
      PROVE  /\ left[issued'[i].user] = 0
             /\ issued'[i].key <= LastGen(issued'[i].user)
             /\ issued'[i].kind # "invite" => issued'[i].key = issued'[i].gen
  <2> DEFINE s == Secret(kind, User(c), 1, 1)
  <2>1. left[User(c)] = 0 /\ LastGen(User(c)) = gen /\ User(c) \in Users
    BY <1>4, LiveMember DEF GenToken, Calls
  <2>2. s \in SecretSet /\ s.user = User(c) /\ s.key = 1 /\ s.gen = 1
    BY <2>1, Bounds DEF Secret, SecretSet
  <2>3. issued'[i] = s
    BY <1>3, <1>4, <2>2 DEF GenToken
  <2> QED
    BY <2>1, <2>2, <2>3, Numbers
<1>5. ASSUME NEW u \in Users, Invite(c, u)
      PROVE  /\ left[issued'[i].user] = 0
             /\ issued'[i].key <= LastGen(issued'[i].user)
             /\ issued'[i].kind # "invite" => issued'[i].key = issued'[i].gen
  <2> DEFINE s == Secret("invite", u, session[c].key, gen)
  <2>1. session[c].key <= gen
    BY <1>5, LiveMember DEF Invite, Calls, TeamInv, ClientInv, SessionAgrees
  <2>2. left[u] = 0 /\ LastGen(u) = gen
    BY <1>5 DEF Invite, TeamInv, ServerInv, RemovedStay, LastGen
  <2>3. /\ s \in SecretSet /\ s.user = u /\ s.key = session[c].key /\ s.kind = "invite"
    BY <1>5, StageNow DEF Invite, Unlocked, Sessions, ServerTyped, Secret, SecretSet, Kinds
  <2>4. issued'[i] = s
    BY <1>3, <1>5, <2>3 DEF Invite
  <2> QED
    BY <2>1, <2>2, <2>3, <2>4
<1>6. CASE (\E j \in Secrets : RevokeDevice(c, j)) \/ Push(c) \/ ReencryptSome(c)
  <2>1. Len(issued') = Len(issued)
    <3>1. ASSUME NEW j \in Secrets, RevokeDevice(c, j) PROVE Len(issued') = Len(issued)
      BY <3>1 DEF RevokeDevice
    <3> QED
      BY <1>6, <3>1 DEF Push, ReencryptSome
  <2> QED
    BY <2>1 DEF Secrets
<1> QED
  BY <1>4, <1>5, <1>6

(* A client that begins to be built has no session yet. *)
LEMMA BuildAgrees ==
    ASSUME TypeOK, TypeOK', TeamInv, Waits', [Next]_vars, NEW c \in Clients,
           NEW i \in Secrets, Post(c, i) \/ FromCi(c, i)
    PROVE  TeamInv'
<1>1. /\ UNCHANGED <<issued, account, left, gen, pending, session, task, crossed>>
      /\ pc[c] = "off" /\ pc'[c] \in {"posting", "unlock"}
      /\ \A d \in Clients \ {c} : pc'[d] = pc[d]
  BY StageNow DEF Post, FromCi, server, Goto
<1>2. ServerInv'
  BY <1>1, SecretsAgree DEF Secrets
<1>3. RotatorAgrees(c)' /\ SessionAgrees(c)'
  BY <1>1 DEF TypeOK, RotatorAgrees, SessionAgrees, Unlocked, Rekeying, Rotating
<1>4. ASSUME NEW d \in Clients \ {c} PROVE RotatorAgrees(d)' /\ SessionAgrees(d)'
  <2>1. CASE pc[d] = "off"
    BY <1>1, <2>1 DEF RotatorAgrees, SessionAgrees, TypeOK, Rekeying, Rotating
  <2>2. CASE pc[d] # "off"
    <3>1. User(d)' = User(d)
      BY <2>2, Lasting
    <3>2. RotatorAgrees(d)'
      BY <1>1, <3>1
      DEF TeamInv, ClientInv, RotatorAgrees, FitsUser, Excused, Member, InProgress, LastGen
    <3>3. SessionAgrees(d)'
      BY <1>1, <3>1 DEF TeamInv, ClientInv, SessionAgrees, HoldsKey, Excused, Unlocked,
                        Member, LastGen, Misled, Misinvited, Secrets
    <3> QED
      BY <3>2, <3>3
  <2> QED
    BY <2>1, <2>2
<1> QED
  BY <1>2, <1>3, <1>4 DEF TeamInv, ClientInv, Waits

(* A POST that is taken makes a member only of somebody who is not one and *)
(* has not been removed.                                                   *)
LEMMA TakeAgrees ==
    ASSUME TypeOK, TypeOK', TeamInv, Waits', [Next]_vars, NEW c \in Clients, TakePost(c)
    PROVE  TeamInv'
<1> DEFINE s == issued[with[c]]
<1>1. PICK v \in Users, a \in Accounts :
        /\ v = s.user /\ a = FirstAccount(s)
        /\ with[c] \in Secrets
  <2>1. with[c] \in Secrets /\ s \in SecretSet
    BY Typed DEF TakePost, TypeOK
  <2>2. FirstAccount(s) \in Accounts
    BY <2>1, Bounds, TeamAssumption
    DEF FirstAccount, CreatedWrap, RedeemedWrap, Account, Wrap, Accounts, Wraps, SecretSet
  <2> QED
    BY <2>1, <2>2 DEF SecretSet
<1>2. /\ UNCHANGED <<left, gen, pending, session, task, with, crossed>> /\ pc[c] # "off"
      /\ \A d \in Clients \ {c} : pc'[d] = pc[d]
      /\ pc'[c] = pc[c] \/ pc'[c] \in {"save", "failed"}
  BY StageNow DEF TakePost, Goto, TypeOK
<1>3. \/ account' = account
      \/ /\ ~Member(v) /\ left[v] = 0 /\ s.kind # "enroll"
         /\ account' = [account EXCEPT ![v] = a]
  BY <1>1 DEF TakePost, Takes, TeamInv, ServerInv, RemovedStay
<1>4. \A u \in Users :
        /\ account'[u] = account[u]
           \/ (u = v /\ left[u] = 0 /\ ~Member(u) /\ account'[u] = a)
        /\ Member(u) => Member(u)'
        /\ LastGen(u)' = LastGen(u)
        /\ Misled(u) => Misled(u)'
  BY <1>2, <1>3, Lasting, StageNow DEF ServerTyped, Member, LastGen
<1>5. /\ Fits(a.wrap, a)
      /\ a.wrap.key = s.key /\ a.gen = s.gen
  BY <1>1 DEF FirstAccount, CreatedWrap, RedeemedWrap, Account, Wrap, Fits
<1>6. Secrets \subseteq Secrets' /\ \A i \in Secrets : Kept(i)
  BY SecretsKept
<1>7. Secrets' = Secrets
  BY DEF TakePost, Secrets
<1>8. RemovedStay'
  <2>1. ASSUME NEW u \in Users, left[u] # 0
        PROVE  ~Member(u)' /\ \A i \in Secrets : issued'[i].user = u => issued'[i].revoked
    BY <1>4, <1>6, <2>1 DEF TeamInv, ServerInv, RemovedStay, Kept, Member
  <2>2. ASSUME NEW u \in Users, Member(u)' \/ left[u] # 0
        PROVE  \E i \in Secrets : issued'[i].user = u
    BY <1>1, <1>4, <1>6, <2>2 DEF TeamInv, ServerInv, RemovedStay, Kept, Member
  <2> QED
    BY <1>2, <1>7, <2>1, <2>2 DEF RemovedStay
<1>9. AccountsFit'
  <2>1. ASSUME NEW u \in Users \ crossed', Member(u)'
        PROVE  /\ account'[u].wrap.kek = account'[u].salt
               /\ \/ account'[u].wrap.params = account'[u].params
                  \/ account'[u].wrap.params = DefaultParams /\ account'[u].salt > 1
    <3>1. CASE account'[u] = account[u]
      BY <1>2, <2>1, <3>1 DEF TeamInv, ServerInv, AccountsFit, Member
    <3>2. CASE account'[u] = a
      BY <1>5, <3>2 DEF Fits
    <3> QED
      BY <1>4, <3>1, <3>2
  <2> QED
    BY <2>1 DEF AccountsFit
<1>10. \A n, u : u \in Users => /\ FitsUser(n, u) => FitsUser(n, u)'
                                /\ HoldsKey(n, u) => HoldsKey(n, u)'
  BY <1>2, <1>4 DEF FitsUser, HoldsKey, Excused, Member
<1>11. PendingFits'
  <2> SUFFICES ASSUME InProgress PROVE PendingFits'
    BY <1>2 DEF PendingFits, InProgress
  <2>1. pending.user \in Users /\ FitsUser(pending.wrap.kek, pending.user)
    BY Numbers DEF TeamInv, ServerInv, PendingFits
  <2>2. FitsUser(pending.wrap.kek, pending.user)'
    BY <1>2, <1>4, <2>1 DEF FitsUser, Excused, Member
  <2>3. \/ left[pending.user] # 0
        \/ /\ Member(pending.user) /\ account'[pending.user] = account[pending.user]
           /\ pending.wrap.params = account[pending.user].params
    BY <1>4, <2>1 DEF TeamInv, ServerInv, PendingFits
  <2> QED
    BY <1>2, <2>2, <2>3 DEF TeamInv, ServerInv, PendingFits, InProgress, Member
<1>12. KeysNamed'
  <2>1. ASSUME NEW u \in Users, Member(u)'
        PROVE  /\ account'[u].wrap.key <= gen
               /\ account'[u].gen = account'[u].wrap.key \/ Misled(u)'
    <3>1. CASE account'[u] = account[u]
      BY <1>4, <2>1, <3>1 DEF TeamInv, ServerInv, KeysNamed, Member
    <3>2. CASE account'[u] # account[u]
      <4>1. u = v /\ left[u] = 0 /\ account'[u] = a /\ s.kind # "enroll"
        BY <1>3, <1>4, <3>2
      <4>2. s.key <= gen /\ (s.kind # "invite" => s.key = s.gen)
        BY <1>1, <4>1 DEF TeamInv, ServerInv, KeysNamed, LastGen
      <4>3. s.key = s.gen \/ Misled(u)
        BY <1>1, <4>1, <4>2 DEF Misled, Misinvited
      <4> QED
        BY <1>4, <1>5, <4>1, <4>2, <4>3
    <3> QED
      BY <3>1, <3>2
  <2>2. ASSUME NEW i \in Secrets
        PROVE  /\ issued'[i].key <= LastGen(issued[i].user)'
               /\ issued'[i].kind # "invite" => issued'[i].key = issued'[i].gen
    <3>1. LastGen(issued[i].user)' = LastGen(issued[i].user)
      BY <1>2, <1>6 DEF LastGen, Kept
    <3> QED
      BY <1>6, <3>1 DEF TeamInv, ServerInv, KeysNamed, Kept
  <2> QED
    BY <1>2, <1>7, <2>1, <2>2 DEF KeysNamed
<1>13. ASSUME NEW d \in Clients PROVE RotatorAgrees(d)' /\ SessionAgrees(d)'
  <2>1. CASE pc[d] = "off"
    BY <1>2, <2>1 DEF RotatorAgrees, SessionAgrees, TypeOK, Rekeying, Rotating
  <2>2. CASE pc[d] # "off"
    <3>1. User(d)' = User(d) /\ User(d) \in Users
      BY <2>2, Lasting, Typed
    <3>2. pc'[d] = pc[d] \/ pc'[d] \notin Rekeying
      BY <1>2 DEF Rekeying, Rotating
    <3>3. pc'[d] = "reencrypt" => RotatorAgrees(d)'
      BY <1>2, <3>1, <3>2
      DEF TeamInv, ClientInv, RotatorAgrees, InProgress, Rekeying, Rotating
    <3>4. \A u \in Users : LastGen(u) <= LastGen(u)'
      BY <1>4, Numbers
    <3>5. ASSUME NEW u \in Users, NEW n \in Nat, FitsUser(n, u) PROVE FitsUser(n, u)'
      BY <1>2, <1>4, <3>5 DEF FitsUser, Excused, Member
    <3>6. ASSUME NEW u \in Users, NEW k \in Nat, HoldsKey(k, u) PROVE HoldsKey(k, u)'
      BY <1>2, <1>4, <3>6 DEF HoldsKey, Excused, Member
    <3> QED
      <4>1. /\ session'[d] = session[d]
            /\ \/ pc'[d] = pc[d] /\ task'[d] = task[d]
               \/ pc'[d] \notin Rekeying
        BY <1>2, <3>2
      <4> QED
        BY <2>2, <3>3, <3>4, <3>5, <3>6, <4>1, ServerAgrees
  <2> QED
    BY <2>1, <2>2
<1> QED
  BY <1>8, <1>9, <1>11, <1>12, <1>13 DEF TeamInv, ServerInv, ClientInv, Waits

(* Whoever is removed may know the keys up to the generation of that time. *)
LEMMA RemoveAgrees ==
    ASSUME TypeOK, TypeOK', TeamInv, Waits', [Next]_vars, NEW c \in Clients,
           NEW v \in Users, RemoveUser(c, v)
    PROVE  TeamInv'
<1>1. /\ UNCHANGED <<gen, pending, pc, session, task, with, crossed>>
      /\ account' = [account EXCEPT ![v] = NoAccount] /\ left' = [left EXCEPT ![v] = gen]
      /\ Member(v) /\ left[v] = 0 /\ Secrets' = Secrets
  <2>1. Secrets' = Secrets
    BY RevokedTyped DEF RemoveUser, Secrets
  <2> QED
    BY <2>1 DEF RemoveUser, TeamInv, ServerInv, RemovedStay
<1>2. gen > 0 /\ gen \in Nat
  BY Numbers
<1>3. \A u \in Users :
        /\ u # v => account'[u] = account[u] /\ left'[u] = left[u]
        /\ u = v => ~Member(u)' /\ left'[u] = gen /\ left'[u] # 0
        /\ LastGen(u)' = LastGen(u)
        /\ Misled(u) => Misled(u)'
  BY <1>1, <1>2, Lasting, StageNow DEF ServerTyped, Member, LastGen
<1>4. \A n, u : u \in Users => /\ FitsUser(n, u) => FitsUser(n, u)'
                               /\ HoldsKey(n, u) => HoldsKey(n, u)'
  BY <1>1, <1>3 DEF FitsUser, HoldsKey, Excused, Member
<1>5. \A i \in Secrets : Kept(i) /\ (issued[i].user = v => issued'[i].revoked)
  <2>1. \A i \in Secrets : issued[i].user = v => issued'[i].revoked
    BY Typed DEF RemoveUser, SecretSet
  <2> QED
    BY <2>1, SecretsKept
<1>6. RemovedStay'
  <2>1. ASSUME NEW u \in Users, left'[u] # 0
        PROVE  ~Member(u)' /\ \A i \in Secrets : issued'[i].user = u => issued'[i].revoked
    BY <1>3, <1>5, <2>1 DEF TeamInv, ServerInv, RemovedStay, Kept, Member
  <2>2. ASSUME NEW u \in Users, Member(u)' \/ left'[u] # 0
        PROVE  \E i \in Secrets : issued'[i].user = u
    BY <1>1, <1>3, <1>5, <2>2 DEF TeamInv, ServerInv, RemovedStay, Kept, Member
  <2> QED
    BY <1>1, <2>1, <2>2 DEF RemovedStay
<1>7. AccountsFit'
  BY <1>1, <1>3 DEF TeamInv, ServerInv, AccountsFit, Member
<1>8. PendingFits'
  <2> SUFFICES ASSUME InProgress PROVE PendingFits'
    BY <1>1 DEF PendingFits, InProgress
  <2>1. pending.user \in Users /\ FitsUser(pending.wrap.kek, pending.user)
    BY Numbers DEF TeamInv, ServerInv, PendingFits
  <2>2. FitsUser(pending.wrap.kek, pending.user)'
    BY <1>1, <1>3, <2>1 DEF FitsUser, Excused, Member
  <2>3. \/ left'[pending.user] # 0
        \/ /\ Member(pending.user)'
           /\ pending.wrap.params = account'[pending.user].params
    <3>1. CASE pending.user = v
      BY <1>3, <2>1, <3>1
    <3>2. CASE pending.user # v
      <4>1. account'[pending.user] = account[pending.user]
            /\ left'[pending.user] = left[pending.user]
        BY <1>3, <2>1, <3>2
      <4>2. Member(pending.user)' <=> Member(pending.user)
        BY <1>1, <4>1 DEF Member
      <4> QED
        BY <4>1, <4>2 DEF TeamInv, ServerInv, PendingFits
    <3> QED
      BY <3>1, <3>2
  <2> QED
    BY <1>1, <2>2, <2>3 DEF TeamInv, ServerInv, PendingFits, InProgress, Member
<1>9. KeysNamed'
  <2>1. ASSUME NEW u \in Users, Member(u)'
        PROVE  /\ account'[u].wrap.key <= gen
               /\ account'[u].gen = account'[u].wrap.key \/ Misled(u)'
    BY <1>3, <2>1 DEF TeamInv, ServerInv, KeysNamed, Member
  <2>2. ASSUME NEW i \in Secrets
        PROVE  /\ issued'[i].key <= LastGen(issued[i].user)'
               /\ issued'[i].kind # "invite" => issued'[i].key = issued'[i].gen
    <3>1. issued[i].user \in Users /\ issued'[i].user = issued[i].user
      BY <1>5, Typed DEF Kept, SecretSet
    <3>2. PICK w \in Users : w = issued[i].user
      BY <3>1
    <3>3. LastGen(issued[i].user)' = LastGen(w)' /\ LastGen(w)' = LastGen(w)
      BY <1>3, <3>1, <3>2 DEF LastGen
    <3> QED
      BY <1>5, <3>2, <3>3 DEF TeamInv, ServerInv, KeysNamed, Kept
  <2> QED
    BY <1>1, <2>1, <2>2 DEF KeysNamed
<1>10. ASSUME NEW d \in Clients PROVE RotatorAgrees(d)' /\ SessionAgrees(d)'
  <2>1. CASE pc[d] = "off"
    BY <1>1, <2>1 DEF RotatorAgrees, SessionAgrees, TypeOK, Rekeying, Rotating
  <2>2. CASE pc[d] # "off"
    <3>1. User(d)' = User(d) /\ User(d) \in Users
      BY <2>2, Lasting, Typed
    <3>2. pc'[d] = "reencrypt" => RotatorAgrees(d)'
      BY <1>1, <3>1 DEF TeamInv, ClientInv, RotatorAgrees, InProgress
    <3>3. \A w \in Users : LastGen(w) <= LastGen(w)'
      BY <1>3, Numbers
    <3>4. ASSUME NEW w \in Users, NEW n \in Nat, FitsUser(n, w) PROVE FitsUser(n, w)'
      BY <1>1, <1>3, <3>4 DEF FitsUser, Excused, Member
    <3>5. ASSUME NEW w \in Users, NEW k \in Nat, HoldsKey(k, w) PROVE HoldsKey(k, w)'
      BY <1>1, <1>3, <3>5 DEF HoldsKey, Excused, Member
    <3> QED
      <4>1. session'[d] = session[d] /\ pc'[d] = pc[d] /\ task'[d] = task[d]
        BY <1>1
      <4> QED
        BY <2>2, <3>2, <3>3, <3>4, <3>5, <4>1, ServerAgrees
  <2> QED
    BY <2>1, <2>2
<1> QED
  BY <1>6, <1>7, <1>8, <1>9, <1>10 DEF TeamInv, ServerInv, ClientInv, Waits

(* The PATCH wraps the key the account has, with the next password, unless *)
(* it has crossed a rotation of the user; and if it crosses a rotate that  *)
(* has not begun, the user is excused from then on.                        *)
LEMMA PatchAgrees ==
    ASSUME TypeOK, TypeOK', TeamInv, Waits', [Next]_vars, NEW c \in Clients,
           ChangePatch(c)
    PROVE  TeamInv'
<1>1. PICK v \in Users :
        /\ v = User(c) /\ Member(v) /\ left[v] = 0 /\ account[v] \in Accounts
        /\ v \in crossed \/ task[c].key = account[v].wrap.key
        /\ task[c].key <= gen
  BY LiveMember
  DEF ChangePatch, TeamInv, ClientInv, SessionAgrees, HoldsKey, Excused, Rekeying
<1> DEFINE a == Rewrapped(account[v], task[c].key)
<1>2. /\ UNCHANGED <<issued, left, gen, pending, with, session>>
      /\ pc[c] = "patch" /\ pc'[c] = "idle"
      /\ \A d \in Clients \ {c} : pc'[d] = pc[d] /\ task'[d] = task[d]
      /\ \/ account' = account
         \/ /\ ~InProgress /\ account' = [account EXCEPT ![v] = a]
            /\ crossed' = crossed \cup {u \in {v} : Crosses(c, v, {"status", "begin"})}
  BY <1>1, StageNow DEF ChangePatch, End, Goto
<1>3. /\ a.gen = account[v].gen /\ a.params = account[v].params
      /\ a.wrap.kek = a.salt /\ a.wrap.params = DefaultParams /\ a.salt > 1
      /\ a.wrap.key = task[c].key
  BY <1>1, Bounds DEF Rewrapped, Wrap, Accounts
<1>4. /\ crossed \subseteq crossed' /\ \A u \in Users : Misled(u) => Misled(u)'
  BY Lasting
<1> HIDE DEF a
<1>5. \A u \in Users :
        /\ \/ account'[u] = account[u]
           \/ u = v /\ account'[u] = a /\ ~InProgress
        /\ Member(u)' <=> Member(u)
        /\ Member(u) => /\ account'[u].gen = account[u].gen
                        /\ account'[u].params = account[u].params
                        /\ \/ account'[u].wrap.key = account[u].wrap.key
                           \/ u \in crossed /\ account'[u].wrap.key = task[c].key
        /\ LastGen(u)' = LastGen(u)
  <2>1. a # NoAccount
    BY <1>1, <1>3 DEF Accounts, NoAccount, Gens
  <2> QED
    BY <1>1, <1>2, <1>3, <2>1, StageNow DEF ServerTyped, Member, LastGen
<1>6. ServerInv'
  <2>1. RemovedStay'
    BY <1>2, <1>5 DEF TeamInv, ServerInv, RemovedStay, Secrets
  <2>2. AccountsFit'
    BY <1>3, <1>4, <1>5 DEF TeamInv, ServerInv, AccountsFit
  <2>3. PendingFits'
    <3> SUFFICES ASSUME InProgress PROVE PendingFits'
      BY <1>2 DEF PendingFits, InProgress
    <3>1. account' = account
      BY <1>2
    <3> QED
      BY <1>2, <1>4, <3>1
      DEF TeamInv, ServerInv, PendingFits, InProgress, FitsUser, Excused, Member
  <2>4. KeysNamed'
    <3>1. ASSUME NEW u \in Users, Member(u)'
          PROVE  /\ account'[u].wrap.key <= gen
                 /\ account'[u].gen = account'[u].wrap.key \/ Misled(u)'
      BY <1>1, <1>4, <1>5, <3>1 DEF TeamInv, ServerInv, KeysNamed, Misled
    <3> QED
      BY <1>2, <3>1 DEF TeamInv, ServerInv, KeysNamed, Secrets, LastGen
  <2> QED
    BY <2>1, <2>2, <2>3, <2>4 DEF ServerInv
<1>7. ASSUME NEW d \in Clients PROVE RotatorAgrees(d)' /\ SessionAgrees(d)'
  <2>1. CASE pc[d] = "off"
    BY <1>2, <2>1 DEF RotatorAgrees, SessionAgrees, TypeOK, Rekeying, Rotating
  <2>2. CASE pc[d] # "off"
    <3>1. PICK u \in Users : u = User(d) /\ u = User(d)'
      BY <2>2, Lasting, Typed
    <3>2. \/ pc'[d] = pc[d] /\ task'[d] = task[d]
          \/ pc'[d] \notin Rekeying
      BY <1>2 DEF Rekeying, Rotating
    <3>3. pc'[d] = "reencrypt" => RotatorAgrees(d)'
      BY <1>2, <3>1 DEF TeamInv, ClientInv, RotatorAgrees, InProgress
    <3>4. \A w \in Users : LastGen(w) <= LastGen(w)'
      BY <1>5, Numbers
    <3>5. ASSUME pc'[d] \in {"status", "begin"}, NEW n \in Nat, FitsUser(n, u)
          PROVE  FitsUser(n, u)'
      <4>1. d # c /\ pc[d] \in {"status", "begin"}
        BY <1>2, <3>5
      <4>2. account'[u] = account[u] \/ u \in crossed'
        <5>1. u = v => Crosses(c, v, {"status", "begin"})
          BY <3>1, <4>1 DEF Crosses
        <5> QED
          BY <1>2, <1>5, <5>1
      <4> QED
        BY <1>2, <1>4, <1>5, <3>5, <4>2 DEF FitsUser, Excused, Member
    <3>6. ASSUME NEW k \in Nat, HoldsKey(k, u) PROVE HoldsKey(k, u)'
      BY <1>2, <1>4, <1>5, <3>6 DEF HoldsKey, Excused
    <3> QED
      BY <1>2, <2>2, <3>1, <3>2, <3>3, <3>4, <3>5, <3>6, ServerAgrees
  <2> QED
    BY <2>1, <2>2
<1> QED
  BY <1>6, <1>7 DEF TeamInv, ClientInv, Waits

(* begin: the wrap is made with the salt that is in force. *)
LEMMA BeginAgrees ==
    ASSUME TypeOK, TypeOK', TeamInv, Waits', [Next]_vars, NEW c \in Clients,
           RotateBegin(c)
    PROVE  TeamInv'
<1>1. PICK v \in Users :
        /\ v = User(c) /\ v = User(c)' /\ Member(v) /\ left[v] = 0
        /\ FitsUser(task[c].salt, v)
  BY LiveMember, Lasting DEF RotateBegin, TeamInv, ClientInv, RotatorAgrees
<1>2. /\ UNCHANGED <<issued, account, left, gen, with, session, crossed>>
      /\ pc[c] = "begin"
      /\ \A d \in Clients \ {c} : pc'[d] = pc[d] /\ task'[d] = task[d]
  BY StageNow DEF RotateBegin, End, Goto
<1>3. \/ pc'[c] = "idle" /\ pending' = pending
      \/ /\ pc'[c] = "reencrypt" /\ task' = task /\ pending' = BeginBody(c)
         /\ ~InProgress /\ task[c].newGen = gen + 1
  BY StageNow DEF RotateBegin, End, Goto
<1>4. /\ BeginBody(c).gen = task[c].newGen /\ BeginBody(c).user = v
      /\ BeginBody(c).wrap.key = task[c].newGen /\ BeginBody(c).wrap.kek = task[c].salt
      /\ BeginBody(c).wrap.params = account[v].params
  BY <1>1 DEF BeginBody, Wrap
<1>5. \A n, u : FitsUser(n, u)' = FitsUser(n, u)
  BY <1>2 DEF FitsUser, Excused, Member
<1>6. ServerInv'
  <2>1. RemovedStay' /\ AccountsFit' /\ KeysNamed'
    BY <1>2 DEF TeamInv, ServerInv, RemovedStay, AccountsFit, KeysNamed, Member,
                Secrets, Misled, Misinvited, LastGen
  <2>2. PendingFits'
    <3>1. CASE pending' = pending
      BY <1>2, <3>1
      DEF TeamInv, ServerInv, PendingFits, InProgress, FitsUser, Excused, Member
    <3>2. CASE pending' = BeginBody(c) /\ task[c].newGen = gen + 1
      <4> PICK n : n = task[c].salt
        OBVIOUS
      <4>1. pending'.wrap.kek = n /\ pending'.user = v /\ FitsUser(n, v)
        BY <1>1, <1>4, <3>2
      <4>2. FitsUser(pending.wrap.kek, pending.user)'
        BY <1>2, <4>1 DEF FitsUser, Excused, Member
      <4>3. Member(v)' /\ account'[v] = account[v]
        BY <1>1, <1>2 DEF Member
      <4> QED
        BY <1>2, <1>4, <3>2, <4>2, <4>3 DEF PendingFits, Member
    <3> QED
      BY <1>3, <3>1, <3>2
  <2> QED
    BY <2>1, <2>2 DEF ServerInv
<1>8. InProgress => pending' = pending /\ InProgress'
  BY <1>3 DEF InProgress
<1>9. pc'[c] = "reencrypt" =>
        InProgress' /\ task'[c].newGen = pending'.gen /\ pending'.user = User(c)'
  <2>1. pc'[c] = "reencrypt" =>
          /\ task'[c].newGen = gen + 1 /\ pending'.gen = gen + 1 /\ pending'.user = v
    BY <1>3, <1>4
  <2>2. pending'.gen = gen + 1 => pending' # NoRotation
    BY Numbers DEF NoRotation
  <2> QED
    BY <1>1, <2>1, <2>2 DEF InProgress
<1>10. RotatorAgrees(c)'
  BY <1>3, <1>9 DEF RotatorAgrees
<1>11. ASSUME NEW d \in Clients \ {c}, pc[d] # "off" PROVE RotatorAgrees(d)'
  <2>1. RotatorAgrees(d)
    BY DEF TeamInv, ClientInv
  <2>2. User(d)' = User(d) /\ pc'[d] = pc[d] /\ task'[d] = task[d]
    BY <1>2, <1>11, Lasting
  <2>3. pc[d] = "reencrypt" => \/ task'[d].newGen <= gen'
                               \/ InProgress' /\ task'[d].newGen = pending'.gen
                                  /\ User(d)' = pending'.user
    BY <1>2, <1>8, <2>1, <2>2 DEF RotatorAgrees
  <2>4. pc[d] \in {"status", "begin"} => FitsUser(task[d].salt, User(d))'
    BY <1>2, <2>1, <2>2 DEF RotatorAgrees, FitsUser, Excused, Member
  <2>5. pc[d] = "cutover" => task'[d].newGen <= LastGen(User(d))'
    BY <1>2, <2>1, <2>2 DEF RotatorAgrees, LastGen
  <2> QED
    BY <2>2, <2>3, <2>4, <2>5 DEF RotatorAgrees
<1>12. ASSUME NEW d \in Clients PROVE RotatorAgrees(d)' /\ SessionAgrees(d)'
  <2>1. CASE pc[d] = "off"
    BY <1>2, <2>1 DEF RotatorAgrees, SessionAgrees, TypeOK, Rekeying, Rotating
  <2>2. CASE pc[d] # "off"
    <3>1. User(d)' = User(d) /\ User(d) \in Users
      BY <2>2, Lasting, Typed
    <3>2. \/ pc'[d] = pc[d] /\ task'[d] = task[d]
          \/ pc'[d] \notin Rekeying
          \/ pc[d] = "begin" /\ pc'[d] = "reencrypt" /\ task'[d] = task[d]
      BY <1>2, <1>3 DEF Rekeying, Rotating
    <3>3. SessionAgrees(d)'
      BY <1>2, <3>1, <3>2
      DEF TeamInv, ClientInv, SessionAgrees, HoldsKey, Excused, Unlocked, Member,
          LastGen, Misled, Misinvited, Secrets, Rekeying, Rotating
    <3> QED
      BY <1>10, <1>11, <2>2, <3>3
  <2> QED
    BY <2>1, <2>2
<1> QED
  BY <1>6, <1>12 DEF TeamInv, ClientInv, Waits

(* complete: the wrap that is put in force is that of the owner's own      *)
(* begin, and opens with the password the owner has now; a change of the   *)
(* owner's password that has unlocked before is excused from then on.      *)
LEMMA CompleteAgrees ==
    ASSUME TypeOK, TypeOK', TeamInv, Waits', [Next]_vars, NEW c \in Clients,
           RotateComplete(c)
    PROVE  TeamInv'
<1>1. PICK v \in Users : v = pending.user
  BY Numbers DEF RotateComplete, CanComplete
<1>2. /\ UNCHANGED <<issued, left, with, session, task>>
      /\ pc[c] = "reencrypt" /\ pc'[c] = "cutover" /\ pending' = NoRotation
      /\ \A d \in Clients \ {c} : pc'[d] = pc[d]
      /\ gen' = pending.gen
      /\ crossed' = crossed \cup {u \in {v} : Crosses(c, v, {"patch"})}
  BY <1>1, StageNow DEF RotateComplete, Goto
<1>3. /\ pending.gen = gen + 1 /\ pending.wrap.key = pending.gen
      /\ FitsUser(pending.wrap.kek, v)
      /\ Member(v) => left[v] = 0 /\ pending.wrap.params = account[v].params
      /\ gen \in Nat /\ gen > 0
  BY <1>1, Numbers
  DEF TeamInv, ServerInv, RemovedStay, PendingFits, RotateComplete, CanComplete
<1>4. /\ crossed \subseteq crossed' /\ \A u \in Users : Misled(u) => Misled(u)'
  BY Lasting
<1> DEFINE a == [account[v] EXCEPT !.wrap = pending.wrap, !.gen = pending.gen]
<1>5. ASSUME Member(v)
      PROVE  /\ account' = [account EXCEPT ![v] = a]
             /\ a.salt = account[v].salt /\ a.params = account[v].params
             /\ a.wrap = pending.wrap /\ a.gen = pending.gen /\ a # NoAccount
  <2>1. account[v] \in Accounts
    BY <1>5, Numbers
  <2>2. /\ a.salt = account[v].salt /\ a.params = account[v].params
        /\ a.wrap = pending.wrap /\ a.gen = pending.gen
    BY <2>1 DEF Accounts
  <2>3. a # NoAccount
    <3>1. a.gen # 0
      BY <1>3, <2>2
    <3> HIDE DEF a
    <3> QED
      BY <3>1 DEF NoAccount
  <2>4. account' = [account EXCEPT ![v] = a]
    BY <1>1, <1>5, <2>1, StageNow DEF RotateComplete, ServerTyped, Accounts
  <2> QED
    BY <2>2, <2>3, <2>4
<1>6. ~Member(v) => account' = account
  BY <1>1 DEF RotateComplete
<1> HIDE DEF a
<1>7. \A u \in Users :
        /\ \/ account'[u] = account[u]
           \/ u = v /\ Member(v) /\ account'[u] = a
        /\ Member(u)' <=> Member(u)
        /\ Member(u) => /\ account'[u].salt = account[u].salt
                        /\ account'[u].params = account[u].params
        /\ LastGen(u) <= LastGen(u)'
        /\ left[u] = 0 => LastGen(u)' = gen + 1
        /\ LastGen(u)' \in Nat
  <2>1. \A u \in Users : \/ account'[u] = account[u]
                         \/ u = v /\ Member(v) /\ account'[u] = a
    BY <1>5, <1>6, StageNow DEF ServerTyped
  <2>2. \A u \in Users : /\ Member(u)' <=> Member(u)
                         /\ Member(u) => /\ account'[u].salt = account[u].salt
                                         /\ account'[u].params = account[u].params
    BY <1>5, <2>1 DEF Member
  <2>3. \A u \in Users : left[u] \in Nat
    BY Numbers
  <2>4. \A u \in Users : /\ LastGen(u) <= LastGen(u)'
                         /\ left[u] = 0 => LastGen(u)' = gen + 1
                         /\ LastGen(u)' \in Nat
    BY <1>2, <1>3, <2>3 DEF LastGen
  <2> QED
    BY <2>1, <2>2, <2>4
<1>8. ServerInv'
  <2>1. RemovedStay'
    BY <1>2, <1>7 DEF TeamInv, ServerInv, RemovedStay, Secrets
  <2>2. AccountsFit'
    <3>1. ASSUME NEW u \in Users \ crossed', Member(u)'
          PROVE  /\ account'[u].wrap.kek = account'[u].salt
                 /\ \/ account'[u].wrap.params = account'[u].params
                    \/ account'[u].wrap.params = DefaultParams /\ account'[u].salt > 1
      <4>1. u \notin crossed /\ Member(u)
        BY <1>4, <1>7, <3>1
      <4>2. CASE account'[u] = account[u]
        BY <4>1, <4>2 DEF TeamInv, ServerInv, AccountsFit
      <4>3. CASE u = v /\ account'[u] = a
        <5>1. pending.wrap.kek = account[v].salt
          BY <1>3, <4>1, <4>3 DEF FitsUser, Excused
        <5> QED
          BY <1>3, <1>5, <4>1, <4>3, <5>1
      <4> QED
        BY <1>7, <4>2, <4>3
    <3> QED
      BY <3>1 DEF AccountsFit
  <2>3. PendingFits'
    BY <1>2 DEF PendingFits, InProgress
  <2>4. KeysNamed'
    <3>1. ASSUME NEW u \in Users, Member(u)'
          PROVE  /\ account'[u].wrap.key <= gen'
                 /\ account'[u].gen = account'[u].wrap.key \/ Misled(u)'
      <4>1. Member(u)
        BY <1>7, <3>1
      <4>2. CASE u = v /\ account'[u] = a
        BY <1>2, <1>3, <1>5, <4>1, <4>2
      <4>3. CASE account'[u] = account[u]
        <5>1. account[u].wrap.key <= gen /\ account[u].wrap.key \in Nat
          BY <4>1, Numbers DEF TeamInv, ServerInv, KeysNamed, Accounts, Wraps, Keys
        <5> QED
          BY <1>2, <1>3, <1>4, <4>1, <4>3, <5>1 DEF TeamInv, ServerInv, KeysNamed
      <4> QED
        BY <1>7, <4>2, <4>3
    <3>2. ASSUME NEW i \in Secrets
          PROVE  /\ issued[i].key <= LastGen(issued[i].user)'
                 /\ issued[i].kind # "invite" => issued[i].key = issued[i].gen
      <4>1. PICK u \in Users : u = issued[i].user /\ issued[i].key \in Nat
        BY Typed DEF SecretSet, Keys
      <4>2. LastGen(issued[i].user)' = LastGen(u)'
        BY <1>2, <4>1 DEF LastGen
      <4>3. LastGen(u) \in Nat /\ issued[i].key <= LastGen(u)
        BY <4>1, Numbers DEF TeamInv, ServerInv, KeysNamed
      <4> QED
        BY <1>7, <4>1, <4>2, <4>3 DEF TeamInv, ServerInv, KeysNamed
    <3> QED
      BY <1>2, <3>1, <3>2 DEF KeysNamed, Secrets
  <2> QED
    BY <2>1, <2>2, <2>3, <2>4 DEF ServerInv
<1>9. ASSUME NEW d \in Clients \ {c} PROVE RotatorAgrees(d)' /\ SessionAgrees(d)'
  <2>1. CASE pc[d] = "off"
    BY <1>2, <2>1 DEF RotatorAgrees, SessionAgrees, TypeOK, Rekeying, Rotating
  <2>2. CASE pc[d] # "off"
    <3>1. PICK u \in Users : u = User(d) /\ u = User(d)'
      BY <2>2, Lasting, Typed
    <3>2. pc'[d] = "reencrypt" => RotatorAgrees(d)'
      <4>1. pc[d] = "reencrypt" => task[d].newGen <= gen \/ task[d].newGen = pending.gen
        BY DEF TeamInv, ClientInv, RotatorAgrees
      <4>2. pc'[d] = "reencrypt" => task'[d].newGen <= gen'
        BY <1>2, <1>3, <4>1, ClientNumbers
      <4> QED
        BY <4>2 DEF RotatorAgrees
    <3>3. \A w \in Users : LastGen(w) <= LastGen(w)'
      BY <1>7
    <3>4. ASSUME NEW n \in Nat, FitsUser(n, u) PROVE FitsUser(n, u)'
      BY <1>2, <1>4, <1>7, <3>4 DEF FitsUser, Excused
    <3>5. ASSUME pc'[d] = "patch", NEW k \in Nat, HoldsKey(k, u) PROVE HoldsKey(k, u)'
      <4>1. u = v => v \in crossed'
        <5>1. u = v => Crosses(c, v, {"patch"})
          BY <1>2, <3>1, <3>5 DEF Crosses
        <5> QED
          BY <1>2, <5>1
      <4> QED
        BY <1>2, <1>4, <1>7, <3>5, <4>1 DEF HoldsKey, Excused
    <3> QED
      BY <1>2, <2>2, <3>1, <3>2, <3>3, <3>4, <3>5, ServerAgrees
  <2> QED
    BY <2>1, <2>2
<1>10. RotatorAgrees(c)' /\ SessionAgrees(c)'
  <2>1. PICK u \in Users : u = User(c) /\ u = User(c)' /\ left[u] = 0
    BY <1>2, LiveMember, Lasting DEF RotateComplete, CanComplete
  <2>2. LastGen(User(c))' = gen + 1 /\ (Misled(u) => Misled(User(c))') /\ LastGen(u) = gen
    BY <1>2, <1>4, <1>7, <2>1 DEF LastGen, Misled, Misinvited
  <2>3. task[c].newGen <= gen + 1
    BY <1>2, <1>3, ClientNumbers DEF TeamInv, ClientInv, RotatorAgrees
  <2>4. RotatorAgrees(c)'
    BY <1>2, <2>2, <2>3 DEF RotatorAgrees
  <2>5. /\ Unlocked(c) => /\ session[c].key <= gen /\ session[c].key \in Nat
                          /\ session[c].gen = session[c].key \/ Misled(u)
        /\ task[c].key <= gen /\ task[c].key \in Nat
    BY <1>2, <2>1, <2>2, ClientNumbers
    DEF TeamInv, ClientInv, SessionAgrees, Rekeying, Rotating
  <2>6. SessionAgrees(c)'
    BY <1>2, <1>3, <2>1, <2>2, <2>5 DEF SessionAgrees, Unlocked
  <2> QED
    BY <2>4, <2>6
<1> QED
  BY <1>8, <1>9, <1>10 DEF TeamInv, ClientInv, Waits

(* Every step keeps the inductive invariant. *)
LEMMA InvStep == TypeOK /\ TypeOK' /\ TeamInv /\ Waits' /\ [Next]_vars => TeamInv'
<1> SUFFICES ASSUME TypeOK, TypeOK', TeamInv, Waits', [Next]_vars PROVE TeamInv'
  OBVIOUS
<1>1. ASSUME NEW c \in Clients, Build(c) PROVE TeamInv'
  BY <1>1, BuildAgrees, TakeAgrees, StagesAgree DEF Build, Stages
<1>2. ASSUME NEW c \in Clients, Manage(c) PROVE TeamInv'
  BY <1>2, ManageAgrees, RemoveAgrees DEF Manage
<1>3. ASSUME NEW c \in Clients, Rekey(c) \/ Fault(c) PROVE TeamInv'
  BY <1>3, StagesAgree, PatchAgrees, BeginAgrees, ManageAgrees, CompleteAgrees
  DEF Rekey, Stages
<1>4. CASE UNCHANGED vars
  <2>1. UNCHANGED <<pc, session, task, account, left, gen, pending, issued, crossed>>
    BY <1>4 DEF vars
  <2>2. ServerInv'
    BY <2>1, SecretsAgree DEF Secrets
  <2> QED
    BY <2>1, <2>2, QuietAgrees
<1> QED
  BY <1>1, <1>2, <1>3, <1>4 DEF Next

(* The invariant that carries the safety properties holds in every state.  *)
THEOREM Invariance == Spec => [](TypeOK /\ Waits /\ TeamInv)
<1>1. Init => TeamInv
  <2> SUFFICES ASSUME Init PROVE TeamInv
    OBVIOUS
  <2>1. Secrets = {1} /\ issued[1].user = Founder /\ issued[1].key = 1 /\ issued[1].gen = 1
    BY DEF Init, Secrets, Secret
  <2>2. Founder \in Users /\ \A u \in Users : ~Member(u) /\ left[u] = 0 /\ LastGen(u) = 1
    BY TeamAssumption DEF Init, Member, LastGen
  <2>3. ServerInv
    BY <2>1, <2>2 DEF Init, ServerInv, RemovedStay, AccountsFit, PendingFits, InProgress,
                      KeysNamed
  <2>4. \A c \in Clients : pc[c] = "off" /\ ~Unlocked(c) /\ c \notin net /\ c \notin saved
    BY DEF Init, Unlocked
  <2> QED
    BY <2>3, <2>4
    DEF TeamInv, ClientInv, NetWaits, RotatorAgrees, SessionAgrees, Rekeying, Rotating
<1>2. Init => Waits
  BY DEF Init, Waits, NetWaits
<1> QED
  BY <1>1, <1>2, TypeCorrect, HeldInvariant, InvStep, PTL DEF Spec

-----------------------------------------------------------------------------
(* The password a member last set opens the member's wrap and the wrap     *)
(* that the member's rotation is resumed with, whatever the parameters     *)
(* that joining uses, unless a change of the password and a rotate by two  *)
(* clients of the member have crossed, or the member joined under other    *)
(* parameters than the default ones and has changed the password.          *)
THEOREM MasterPasswordAlwaysOpens == Spec => []MasterPasswordOpens
<1>1. TypeOK /\ TeamInv => MasterPasswordOpens
  <2> SUFFICES ASSUME TypeOK, TeamInv, NEW u \in Users \ crossed, Member(u)
               PROVE  /\ \/ Fits(account[u].wrap, account[u])
                         \/ account[u].params # DefaultParams /\ account[u].salt > 1
                      /\ InProgress /\ pending.user = u => Fits(pending.wrap, account[u])
    BY DEF MasterPasswordOpens
  <2>1. AccountsFit /\ PendingFits /\ left[u] = 0
    BY DEF TeamInv, ServerInv, RemovedStay
  <2>2. InProgress /\ pending.user = u => Fits(pending.wrap, account[u])
    BY <2>1 DEF PendingFits, FitsUser, Excused, Fits
  <2> QED
    BY <2>1, <2>2 DEF AccountsFit, Fits
<1> QED
  BY <1>1, Invariance, PTL

(* Every session tells the generation of its key, whatever way its client  *)
(* was built, unless its user was invited with a key that was replaced or  *)
(* has had a change of the password and a rotate cross.                    *)
THEOREM SessionsTellTheTruth == Spec => []SessionGenTrue
<1>1. TeamInv => SessionGenTrue
  BY DEF TeamInv, ClientInv, SessionAgrees, SessionGenTrue
<1> QED
  BY <1>1, Invariance, PTL

(* After a removal, no client of the user that was removed knows a later   *)
(* key than the one of that time, nor one that a member's later rotation   *)
(* has put in force, unless the member was invited with a replaced key or  *)
(* has had a change of the password and a rotate cross.                    *)
THEOREM OffboardedKeysStayRetired == Spec => []OffboardedKeysRetired
<1>1. TypeOK /\ TeamInv => OffboardedKeysRetired
  <2> SUFFICES ASSUME TypeOK, TeamInv, NEW c \in Clients, Unlocked(c), left[User(c)] # 0
               PROVE  /\ session[c].key <= left[User(c)]
                      /\ \A u \in Users :
                           Member(u) /\ account[u].gen > left[User(c)] /\ ~Misled(u) =>
                              account[u].wrap.key # session[c].key
    BY DEF OffboardedKeysRetired
  <2>1. pc[c] # "off"
    BY DEF TypeOK
  <2>2. User(c) \in Users /\ left[User(c)] \in Nat /\ session[c].key \in Nat
    BY <2>1, Typed, Numbers, ClientNumbers
  <2>3. session[c].key <= left[User(c)]
    BY DEF TeamInv, ClientInv, SessionAgrees, LastGen
  <2>4. ASSUME NEW u \in Users, Member(u), account[u].gen > left[User(c)], ~Misled(u)
        PROVE  account[u].wrap.key # session[c].key
    <3>1. account[u].gen = account[u].wrap.key /\ account[u].gen \in Nat
      BY <2>4, Numbers DEF TeamInv, ServerInv, KeysNamed, Accounts, Gens
    <3> QED
      BY <2>2, <2>3, <2>4, <3>1
  <2> QED
    BY <2>3, <2>4
<1> QED
  BY <1>1, Invariance, PTL

(* A change of the master password wraps the same key again, whatever      *)
(* other changes of the password, late POSTs, removals and rotations come  *)
(* in between, unless a rotation of the user was completed by another      *)
(* client between the unlock and the PATCH.                                *)
THEOREM SameKeyIsRewrapped == Spec => SameKeyRewrapped
<1> DEFINE Same == \A u \in Users \ crossed : Member(u) /\ Member(u)' =>
                      (account'[u].salt # account[u].salt =>
                          account'[u].wrap.key = account[u].wrap.key)
<1>1. TypeOK /\ TeamInv /\ [Next]_vars => [Same]_vars
  <2> SUFFICES ASSUME TypeOK, TeamInv, Next, NEW u \in Users, u \notin crossed,
                      Member(u), Member(u)', account'[u].salt # account[u].salt
               PROVE  account'[u].wrap.key = account[u].wrap.key
    OBVIOUS
  <2>1. account \in [Users -> {NoAccount} \cup Accounts] /\ account[u] \in Accounts
    BY Numbers DEF TypeOK
  <2>2. \E c \in Clients : \/ TakePost(c) \/ ChangePatch(c) \/ RotateComplete(c)
                           \/ \E v \in Users : RemoveUser(c, v)
    BY DEF Next, Build, Manage, Rekey, Fault, server, Post, FromCi, SaveTokens, Unlock,
       UnlockFails, Lock, GenToken, Invite, RevokeDevice, Push, ChangeUnlock,
       RotateStart, RotateStatus, RotateBegin, ReencryptSome, ReencryptFails, Cutover,
       Refused, GiveUp, Abort, Crash
  <2>3. ASSUME NEW c \in Clients, TakePost(c) PROVE FALSE
    <3>1. pc[c] # "off" /\ issued[with[c]].user \in Users
      BY <2>3, Typed DEF TakePost, TypeOK, SecretSet
    <3>2. account' = account
          \/ /\ ~Member(issued[with[c]].user)
             /\ account' = [account EXCEPT ![issued[with[c]].user] =
                              FirstAccount(issued[with[c]])]
      BY <2>3 DEF TakePost, Takes
    <3> QED
      BY <2>1, <3>1, <3>2
  <2>4. ASSUME NEW c \in Clients, NEW v \in Users, RemoveUser(c, v) PROVE FALSE
    <3>1. account' = [account EXCEPT ![v] = NoAccount]
      BY <2>4 DEF RemoveUser
    <3> QED
      BY <2>1, <3>1 DEF Member
  <2>5. ASSUME NEW c \in Clients, RotateComplete(c) PROVE FALSE
    <3>1. pending.user \in Users
      BY <2>5, Numbers DEF RotateComplete, CanComplete
    <3>2. \/ account' = account
          \/ account' = [account EXCEPT ![pending.user].wrap = pending.wrap,
                                        ![pending.user].gen = pending.gen]
      BY <2>5 DEF RotateComplete
    <3>3. account'[u].salt = account[u].salt
      BY <2>1, <3>1, <3>2 DEF Accounts
    <3> QED
      BY <3>3
  <2>6. ASSUME NEW c \in Clients, ChangePatch(c)
        PROVE  account'[u].wrap.key = account[u].wrap.key
    <3>1. User(c) = u
      BY <2>1, <2>6 DEF ChangePatch
    <3>2. task[c].key = account[u].wrap.key
      BY <2>6, <3>1, LiveMember
      DEF ChangePatch, TeamInv, ClientInv, SessionAgrees, HoldsKey, Excused
    <3>3. account' = [account EXCEPT ![u] = Rewrapped(account[u], task[c].key)]
      BY <2>6, <3>1 DEF ChangePatch
    <3> QED
      BY <2>1, <3>2, <3>3 DEF Rewrapped, Wrap, Accounts
  <2> QED
    BY <2>2, <2>3, <2>4, <2>5, <2>6
<1> QED
  BY <1>1, Invariance, PTL DEF Spec, SameKeyRewrapped

=============================================================================
