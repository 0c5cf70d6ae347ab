--------------------------------- MODULE Team ---------------------------------
(***************************************************************************)
(* Who is in a vault and with which key: the clients of several users that *)
(* are built by init_vault, enroll, join and from_ci, the wrap the server  *)
(* keeps of the account key for each member, and the methods that change   *)
(* them: change_master_password, invite, remove_user, revoke_device and    *)
(* rotate (its re-encryption, request by request, is in Rotation).         *)
(*                                                                         *)
(* The POST that spends a bootstrap secret, an enrollment token or an      *)
(* invitation may reach the server after its sender has given up, and only *)
(* the first copy that arrives is taken: a retry of one that was taken is  *)
(* refused, which the sender cannot tell from a lost answer.               *)
(*                                                                         *)
(* A key is named by its generation: begin is taken once per generation,   *)
(* and the key of a refused one is dropped.  A password and the salt that  *)
(* goes with it are named by how often the user has set one.               *)
(*                                                                         *)
(* Of the server it is assumed that the status of a rotation in progress   *)
(* carries its pending wrap, to every member.  A client runs one method at *)
(* a time, but for lock(); two methods of one user meet in two clients.    *)
(***************************************************************************)
EXTENDS Naturals, Sequences, FiniteSets

CONSTANTS
    Users,          \* the people of the team
    Founder,        \* who runs init_vault
    Clients,        \* DotMage objects, each with a credential store of its own
    NoClient,       \* nobody has spent the secret
    Params,         \* Argon2 parameters
    DefaultParams,  \* DEFAULT_ARGON_*
    JoinParams,     \* argon_defaults of the server, which join uses
    MaxGen,         \* bound: rotations begin below this key generation
    MaxTokens,      \* bound: enrollment and CI tokens issued
    MaxChanges,     \* bound: passwords a user sets
    MaxFaults       \* bound: crashes, lost answers, revoked devices, locks

ASSUME TeamAssumption ==
    /\ Founder \in Users
    /\ NoClient \notin Clients
    /\ {DefaultParams, JoinParams} \subseteq Params
    /\ {MaxGen, MaxTokens, MaxChanges, MaxFaults} \subseteq Nat \ {0}

VARIABLES
    issued,     \* server: the tokens and invitations, by number
    account,    \* server: account[u], the wrap kept for each member
    left,       \* server: left[u], the generation in which u was removed
    gen,        \* server: current_key_gen
    pending,    \* server: the rotation in progress, and whose it is
    blobs,      \* server: the keys that some revision is encrypted under
    net,        \* the clients whose single-use POST is under way
    pc,         \* pc[c]: the request c's method is at
    with,       \* with[c]: the token or invitation c was built with
    saved,      \* the clients whose tokens are in their stores
    session,    \* session[c]: the account key in memory and its key_gen
    task,       \* task[c]: what rotate or change_master_password has read
    faults      \* what MaxFaults bounds, so far

(* History: only the properties and the invariant read it. *)
VARIABLE crossed    \* users whose two clients crossed (Crosses)

vars == <<issued, account, left, gen, pending, blobs, net, pc, with, saved,
          session, task, faults, crossed>>
server == <<issued, account, left, gen, pending, blobs>>

Keys == 1..MaxGen
Gens == 1..MaxGen
Secrets == 1..Len(issued)

(* What a client is built with.  An invitation holds the key its sender    *)
(* sealed and the generation the server stamped it with; init_vault draws  *)
(* the first key; the tokens hold none.                                    *)
Tokens == {"enroll", "ci"}
Kinds == {"bootstrap", "invite"} \cup Tokens
Secret(kind, u, k, g) ==
    [kind |-> kind, user |-> u, key |-> k, gen |-> g, by |-> NoClient, revoked |-> FALSE]
Issue(s) == issued' = Append(issued, s)

(* A wrap opens with the password and salt and the parameters it was made  *)
(* with; the server keeps salt and parameters beside it.                   *)
Wrap(k, n, a) == [key |-> k, kek |-> n, params |-> a]
Account(w, g) == [salt |-> w.kek, params |-> w.params, wrap |-> w, gen |-> g]
NoAccount == [gen |-> 0]
Member(u) == account[u] # NoAccount
Fits(w, a) == w.kek = a.salt /\ w.params = a.params

NoRotation == [gen |-> 0]
NoSession  == [gen |-> 0]
InProgress == pending # NoRotation
Unlocked(c) == session[c] # NoSession
User(c) == issued[with[c]].user
NoTask == [salt |-> 0, newGen |-> 0, key |-> 0]

(* The server answers a client whose device is not revoked and whose user  *)
(* is a member.                                                            *)
Live(c) ==
    /\ c \in saved
    /\ ~issued[with[c]].revoked
    /\ Member(User(c))

Rotating == {"status", "begin", "reencrypt", "cutover"}
Rekeying == {"patch"} \cup Rotating
PCs == {"off", "posting", "save", "unlock", "idle", "failed", "lost"} \cup Rekeying

(* What the client crosses that is at a request of `at' while another      *)
(* client of user u has an effect.                                         *)
Crosses(c, u, at) == \E d \in Clients \ {c} : pc[d] \in at /\ User(d) = u

-----------------------------------------------------------------------------
Init ==
    /\ issued = <<Secret("bootstrap", Founder, 1, 1)>>
    /\ account = [u \in Users |-> NoAccount]
    /\ left = [u \in Users |-> 0]
    /\ gen = 1
    /\ pending = NoRotation
    /\ blobs = {}
    /\ net = {}
    /\ pc = [c \in Clients |-> "off"]
    /\ with = [c \in Clients |-> 0]
    /\ saved = {}
    /\ session = [c \in Clients |-> NoSession]
    /\ task = [c \in Clients |-> NoTask]
    /\ faults = 0
    /\ crossed = {}

Goto(c, at) == pc' = [pc EXCEPT ![c] = at]
SetKey(c, k, g) == session' = [session EXCEPT ![c] = [gen |-> g, key |-> k]]
End(c) == Goto(c, "idle") /\ task' = [task EXCEPT ![c] = NoTask]

-----------------------------------------------------------------------------
(* Building a client.                                                      *)

(* init_vault, enroll and join send the POST that spends their secret.     *)
(* join has redeemed the invitation first, which changes nothing and which *)
(* the server refuses for one that is spent or revoked.                    *)
Post(c, i) ==
    /\ pc[c] = "off"
    /\ issued[i].kind \in {"bootstrap", "enroll", "invite"}
    /\ issued[i].kind = "invite" => issued[i].by = NoClient /\ ~issued[i].revoked
    /\ with' = [with EXCEPT ![c] = i]
    /\ net' = net \cup {c}
    /\ Goto(c, "posting")
    /\ UNCHANGED <<server, saved, session, task, faults, crossed>>

(* create_account_key_material wraps the key init_vault has drawn under    *)
(* the default parameters; join has read the sealed key, its generation    *)
(* and the parameters from the answer to redeem.                           *)
CreatedWrap(s)  == Wrap(s.key, 1, DefaultParams)
RedeemedWrap(s) == Wrap(s.key, 1, JoinParams)

FirstAccount(s) ==
    Account(IF s.kind = "invite" THEN RedeemedWrap(s) ELSE CreatedWrap(s), s.gen)

(* The server takes the first copy, and enrolls for members only.          *)
Takes(s) ==
    /\ s.by = NoClient
    /\ ~s.revoked
    /\ s.kind = "enroll" <=> Member(s.user)

(* account/init, auth/device, invitations/complete: the secret is spent    *)
(* and the device is the sender's, who may have gone.                      *)
TakePost(c) ==
    /\ c \in net
    /\ net' = net \ {c}
    /\ LET i == with[c]
           s == issued[i]
       IN  /\ IF Takes(s)
              THEN /\ issued' = [issued EXCEPT ![i].by = c]
                   /\ account' = IF s.kind = "enroll" THEN account
                                 ELSE [account EXCEPT ![s.user] = FirstAccount(s)]
              ELSE UNCHANGED <<issued, account>>
           /\ IF pc[c] = "posting"
              THEN Goto(c, IF Takes(s) THEN "save" ELSE "failed")
              ELSE UNCHANGED pc
    /\ UNCHANGED <<left, gen, pending, blobs, with, saved, session, task, faults, crossed>>

(* Mutants of SaveTokens: enroll unlocks first and so drops the tokens     *)
(* when the password is wrong; join takes the generation of a new vault.   *)
UnlockThenSave(c) ==
    /\ pc[c] = "save"
    /\ LET s == issued[with[c]] IN
        IF s.kind = "enroll"
        THEN /\ \/ Goto(c, "unlock") /\ saved' = saved \cup {c}
                \/ Goto(c, "failed") /\ UNCHANGED saved
             /\ UNCHANGED session
        ELSE Goto(c, "idle") /\ saved' = saved \cup {c} /\ SetKey(c, s.key, s.gen)
    /\ UNCHANGED <<server, net, with, task, faults, crossed>>

JoinKeyGenOne(c) ==
    /\ pc[c] = "save"
    /\ saved' = saved \cup {c}
    /\ LET s == issued[with[c]] IN
        IF s.kind = "enroll"
        THEN Goto(c, "unlock") /\ UNCHANGED session
        ELSE Goto(c, "idle") /\ SetKey(c, s.key, 1)
    /\ UNCHANGED <<server, net, with, task, faults, crossed>>

(* _save_tokens; init_vault and join have the key, enroll unlocks next.    *)
SaveTokens(c) ==
    /\ pc[c] = "save"
    /\ saved' = saved \cup {c}
    /\ LET s == issued[with[c]] IN
        IF s.kind = "enroll"
        THEN Goto(c, "unlock") /\ UNCHANGED session
        ELSE Goto(c, "idle") /\ SetKey(c, s.key, s.gen)
    /\ UNCHANGED <<server, net, with, task, faults, crossed>>

(* from_ci: a CI token is a device token, and any number of clients are    *)
(* built from it.                                                          *)
FromCi(c, i) ==
    /\ pc[c] = "off"
    /\ issued[i].kind = "ci"
    /\ with' = [with EXCEPT ![c] = i]
    /\ saved' = saved \cup {c}
    /\ Goto(c, "unlock")
    /\ UNCHANGED <<server, net, session, task, faults, crossed>>

(* unlock with the password of the user; at the end of enroll and from_ci  *)
(* it may fail, and the client that is left is one on the same store.      *)
Unlock(c) ==
    /\ pc[c] \in {"unlock", "idle"}
    /\ Live(c)
    /\ LET a == account[User(c)] IN Fits(a.wrap, a) /\ SetKey(c, a.wrap.key, a.gen)
    /\ Goto(c, "idle")
    /\ UNCHANGED <<server, net, with, saved, task, faults, crossed>>

(* MasterPasswordError of enroll and from_ci.                              *)
UnlockFails(c) ==
    /\ pc[c] = "unlock"
    /\ Goto(c, "idle")
    /\ UNCHANGED <<server, net, with, saved, session, task, faults, crossed>>

(* lock, also while another method of the client waits for an answer: the  *)
(* methods go on with the key that they have read.                         *)
Lock(c) ==
    /\ pc[c] \in {"idle"} \cup Rekeying
    /\ faults < MaxFaults
    /\ faults' = faults + 1
    /\ session' = [session EXCEPT ![c] = NoSession]
    /\ UNCHANGED <<server, net, pc, with, saved, task, crossed>>

-----------------------------------------------------------------------------
(* Requests of a client that is built.                                     *)
Calls(c) == pc[c] = "idle" /\ Live(c)

(* gen_enroll_token, gen_ci_token: for the user's own next client.         *)
GenToken(c, kind) ==
    /\ Calls(c)
    /\ kind \in Tokens
    /\ Cardinality({i \in Secrets : issued[i].kind \in Tokens}) < MaxTokens
    /\ Issue(Secret(kind, User(c), 1, 1))
    /\ UNCHANGED <<account, left, gen, pending, blobs, net, pc, with, saved,
                   session, task, faults, crossed>>

(* invite: the session's key is sealed, the server adds the generation.    *)
Invite(c, u) ==
    /\ Calls(c)
    /\ Unlocked(c)
    /\ u # Founder
    /\ \A i \in Secrets : issued[i].user # u
    /\ Issue(Secret("invite", u, session[c].key, gen))
    /\ UNCHANGED <<account, left, gen, pending, blobs, net, pc, with, saved,
                   session, task, faults, crossed>>

RevokeDevice(c, i) ==
    /\ Calls(c)
    /\ issued[i].by # NoClient \/ issued[i].kind = "ci"
    /\ ~issued[i].revoked
    /\ faults < MaxFaults
    /\ faults' = faults + 1
    /\ issued' = [issued EXCEPT ![i].revoked = TRUE]
    /\ UNCHANGED <<account, left, gen, pending, blobs, net, pc, with, saved,
                   session, task, crossed>>

(* remove_user: the devices and tokens of the user are revoked; a rotation *)
(* that was the user's stays in progress.                                  *)
RemoveUser(c, u) ==
    /\ Calls(c)
    /\ Member(u) /\ u # User(c)
    /\ account' = [account EXCEPT ![u] = NoAccount]
    /\ left' = [left EXCEPT ![u] = gen]
    /\ issued' = [i \in Secrets |->
                    IF issued[i].user = u THEN [issued[i] EXCEPT !.revoked = TRUE]
                    ELSE issued[i]]
    /\ UNCHANGED <<gen, pending, blobs, net, pc, with, saved, session, task, faults, crossed>>

(* push, of which only the key matters here. *)
Push(c) ==
    /\ Calls(c)
    /\ Unlocked(c)
    /\ blobs' = blobs \cup {session[c].key}
    /\ UNCHANGED <<issued, account, left, gen, pending, net, pc, with, saved,
                   session, task, faults, crossed>>

(* Mutant of ChangeUnlock: a session that is unlocked is not unlocked      *)
(* again.                                                                  *)
ChangeUnlocked(c) ==
    /\ Calls(c)
    /\ Unlocked(c)
    /\ account[User(c)].salt < MaxChanges
    /\ task' = [task EXCEPT ![c].key = session[c].key]
    /\ Goto(c, "patch")
    /\ UNCHANGED <<server, net, with, saved, session, faults, crossed>>

(* change_master_password: unlock, then a PATCH with the key unlocked.     *)
ChangeUnlock(c) ==
    /\ Calls(c)
    /\ LET a == account[User(c)] IN
        /\ a.salt < MaxChanges
        /\ Fits(a.wrap, a)
        /\ SetKey(c, a.wrap.key, a.gen)
        /\ task' = [task EXCEPT ![c].key = a.wrap.key]
    /\ Goto(c, "patch")
    /\ UNCHANGED <<server, net, with, saved, faults, crossed>>

(* Mutant of Rewrapped: the body lacks the salt. *)
RewrappedWithoutSalt(a, k) ==
    [a EXCEPT !.wrap = Wrap(k, a.salt + 1, DefaultParams)]

(* rewrap_account_key, called without parameters, uses the default ones;   *)
(* the PATCH carries the wrap and its salt, and no parameters.             *)
Rewrapped(a, k) ==
    [a EXCEPT !.salt = @ + 1, !.wrap = Wrap(k, a.salt + 1, DefaultParams)]

(* The server refuses the PATCH while a rotation runs.  It crosses a       *)
(* rotate of the user that has read the salt and has not begun.            *)
ChangePatch(c) ==
    /\ pc[c] = "patch"
    /\ Live(c)
    /\ LET u == User(c) IN
        /\ account[u].salt < MaxChanges
        /\ IF InProgress
           THEN UNCHANGED <<account, crossed>>
           ELSE /\ account' = [account EXCEPT ![u] = Rewrapped(@, task[c].key)]
                /\ crossed' = crossed \cup
                      {v \in {u} : Crosses(c, u, {"status", "begin"})}
    /\ End(c)
    /\ UNCHANGED <<issued, left, gen, pending, blobs, net, with, saved, session, faults>>

(* Mutant of RotateStart: the old key is read without looking whether      *)
(* there is one.                                                           *)
RotateStartLocked(c) ==
    /\ Calls(c)
    /\ gen < MaxGen
    /\ task' = [task EXCEPT ![c].salt = account[User(c)].salt,
                            ![c].key = IF Unlocked(c) THEN session[c].key ELSE 0]
    /\ Goto(c, "status")
    /\ UNCHANGED <<server, net, with, saved, session, faults, crossed>>

(* rotate: GET keys, and the old key is the session's.  Users type the     *)
(* password that is in force here (Rotation has the wrong one).            *)
RotateStart(c) ==
    /\ Calls(c)
    /\ Unlocked(c)
    /\ gen < MaxGen
    /\ task' = [task EXCEPT ![c].salt = account[User(c)].salt,
                            ![c].key = session[c].key]
    /\ Goto(c, "status")
    /\ UNCHANGED <<server, net, with, saved, session, faults, crossed>>

(* The pending wrap opens with the password of the user and the salt and   *)
(* parameters that GET keys has given.                                     *)
Resumes(c) ==
    /\ pending.user = User(c)
    /\ Fits(pending.wrap, [account[User(c)] EXCEPT !.salt = task[c].salt])

(* GET rotate: a rotation in progress goes on or the method raises; with   *)
(* none, the next generation is begun.                                     *)
RotateStatus(c) ==
    /\ pc[c] = "status"
    /\ Live(c)
    /\ \/ /\ InProgress /\ Resumes(c)
          /\ task' = [task EXCEPT ![c].newGen = pending.gen]
          /\ Goto(c, "reencrypt")
       \/ /\ InProgress /\ ~Resumes(c)
          /\ End(c)
       \/ /\ ~InProgress /\ gen < MaxGen
          /\ task' = [task EXCEPT ![c].newGen = gen + 1]
          /\ Goto(c, "begin")
    /\ UNCHANGED <<server, net, with, saved, session, faults, crossed>>

(* Mutant of BeginBody: the old key is wrapped again. *)
BeginBodyOldKey(c) ==
    [gen |-> task[c].newGen, user |-> User(c),
     wrap |-> Wrap(task[c].key, task[c].salt, account[User(c)].params)]

(* build_begin_body: one wrap, the rotator's own.                          *)
BeginBody(c) ==
    [gen |-> task[c].newGen, user |-> User(c),
     wrap |-> Wrap(task[c].newGen, task[c].salt, account[User(c)].params)]

(* Mutant of RotateBegin: a refusal is taken for a repeated begin. *)
BeginRefusalIgnored(c) ==
    /\ pc[c] = "begin"
    /\ Live(c)
    /\ pending' = IF InProgress \/ task[c].newGen # gen + 1 THEN pending ELSE BeginBody(c)
    /\ Goto(c, "reencrypt")
    /\ UNCHANGED <<issued, account, left, gen, blobs, net, with, saved, session,
                   task, faults, crossed>>

RotateBegin(c) ==
    /\ pc[c] = "begin"
    /\ Live(c)
    /\ IF InProgress \/ task[c].newGen # gen + 1
       THEN End(c) /\ UNCHANGED pending
       ELSE /\ pending' = BeginBody(c)
            /\ Goto(c, "reencrypt")
            /\ UNCHANGED task
    /\ UNCHANGED <<issued, account, left, gen, blobs, net, with, saved, session, faults, crossed>>

Ours(c) == InProgress /\ pending.gen = task[c].newGen

(* _reencrypt_stale: revisions under the old key are put under the new     *)
(* one; the others do not decrypt, and the server takes a revision only    *)
(* for the generation in progress.                                         *)
ReencryptSome(c) ==
    /\ pc[c] = "reencrypt"
    /\ Live(c) /\ Ours(c)
    /\ task[c].key \in blobs
    /\ blobs' = blobs \cup {pending.wrap.key}
    /\ UNCHANGED <<issued, account, left, gen, pending, net, pc, with, saved,
                   session, task, faults, crossed>>

(* Nothing is stale, or only what this client puts under the new key.      *)
CanComplete(c) ==
    /\ Live(c) /\ InProgress
    /\ blobs \subseteq {pending.wrap.key} \cup (IF Ours(c) THEN {task[c].key} ELSE {})

(* A revision does not decrypt, or the server refuses a request. *)
ReencryptFails(c) ==
    /\ pc[c] = "reencrypt"
    /\ ~CanComplete(c)
    /\ End(c)
    /\ UNCHANGED <<server, net, with, saved, session, faults, crossed>>

(* Nothing is stale any more, and complete, which names no rotation, puts  *)
(* the one wrap in force.  It crosses a change of the password by the      *)
(* owner that has unlocked and not sent its PATCH.                         *)
RotateComplete(c) ==
    /\ pc[c] = "reencrypt"
    /\ CanComplete(c)
    /\ blobs' = IF blobs = {} THEN {} ELSE {pending.wrap.key}
    /\ LET u == pending.user IN
        /\ account' = IF Member(u)
                      THEN [account EXCEPT ![u].wrap = pending.wrap, ![u].gen = pending.gen]
                      ELSE account
        /\ crossed' = crossed \cup {v \in {u} : Crosses(c, u, {"patch"})}
    /\ gen' = pending.gen
    /\ pending' = NoRotation
    /\ Goto(c, "cutover")
    /\ UNCHANGED <<issued, left, net, with, saved, session, task, faults>>

Cutover(c) ==
    /\ pc[c] = "cutover"
    /\ SetKey(c, task[c].newGen, task[c].newGen)
    /\ End(c)
    /\ UNCHANGED <<server, net, with, saved, faults, crossed>>

-----------------------------------------------------------------------------
(* The server refuses the request of a device that was revoked meanwhile.  *)
Refused(c) ==
    /\ pc[c] \in {"patch", "status", "begin"}
    /\ ~Live(c)
    /\ End(c)
    /\ UNCHANGED <<server, net, with, saved, session, faults, crossed>>

(* The answer to the POST does not come, however often it is retried: the  *)
(* method raises with no tokens, and the POST may still be taken.          *)
GiveUp(c) ==
    /\ pc[c] = "posting"
    /\ faults < MaxFaults
    /\ faults' = faults + 1
    /\ Goto(c, "lost")
    /\ UNCHANGED <<server, net, with, saved, session, task, crossed>>

(* The answer to the last request of a method is lost: it raises.          *)
Abort(c) ==
    /\ pc[c] \in Rekeying
    /\ faults < MaxFaults
    /\ faults' = faults + 1
    /\ End(c)
    /\ UNCHANGED <<server, net, with, saved, session, crossed>>

(* The process ends; what is in the store is all that is left.             *)
Crash(c) ==
    /\ pc[c] \notin {"off", "failed", "lost"}
    /\ faults < MaxFaults
    /\ faults' = faults + 1
    /\ Goto(c, IF c \in saved THEN "idle" ELSE "lost")
    /\ session' = [session EXCEPT ![c] = NoSession]
    /\ task' = [task EXCEPT ![c] = NoTask]
    /\ UNCHANGED <<server, net, with, saved, crossed>>

Build(c) ==
    \/ \E i \in Secrets : Post(c, i) \/ FromCi(c, i)
    \/ TakePost(c)
    \/ SaveTokens(c)
    \/ Unlock(c)
    \/ UnlockFails(c)
    \/ Lock(c)

Manage(c) ==
    \/ \E kind \in Kinds : GenToken(c, kind)
    \/ \E u \in Users : Invite(c, u) \/ RemoveUser(c, u)
    \/ \E i \in Secrets : RevokeDevice(c, i)
    \/ Push(c)

Rekey(c) ==
    \/ ChangeUnlock(c)
    \/ ChangePatch(c)
    \/ RotateStart(c)
    \/ RotateStatus(c)
    \/ RotateBegin(c)
    \/ ReencryptSome(c)
    \/ ReencryptFails(c)
    \/ RotateComplete(c)
    \/ Cutover(c)

Fault(c) == Refused(c) \/ GiveUp(c) \/ Abort(c) \/ Crash(c)

Next == \E c \in Clients : Build(c) \/ Manage(c) \/ Rekey(c) \/ Fault(c)

Spec == Init /\ [][Next]_vars

-----------------------------------------------------------------------------
Wraps == [key : Keys, kek : 1..MaxChanges, params : Params]
Accounts == [salt : 1..MaxChanges, params : Params, wrap : Wraps, gen : Gens]
SecretSet == [kind : Kinds, user : Users, key : Keys, gen : Gens,
              by : Clients \cup {NoClient}, revoked : BOOLEAN]

(* Every variable stays in its set; a client that is built has been built  *)
(* with something, and a method that needs a key has read one.             *)
TypeOK ==
    /\ issued \in Seq(SecretSet)
    /\ account \in [Users -> {NoAccount} \cup Accounts]
    /\ left \in [Users -> 0..MaxGen]
    /\ gen \in Gens
    /\ pending \in {NoRotation} \cup [gen : Gens, user : Users, wrap : Wraps]
    /\ blobs \subseteq Keys
    /\ net \subseteq Clients
    /\ pc \in [Clients -> PCs]
    /\ with \in [Clients -> 0..Len(issued)]
    /\ saved \subseteq Clients
    /\ session \in [Clients -> {NoSession} \cup [gen : Gens, key : Keys]]
    /\ task \in [Clients -> [salt : 0..MaxChanges, newGen : 0..MaxGen, key : 0..MaxGen]]
    /\ faults \in 0..MaxFaults
    /\ crossed \subseteq Users
    /\ \A c \in Clients :
        /\ with[c] = 0 <=> pc[c] = "off"
        /\ c \in net => pc[c] # "off"
        /\ pc[c] = "off" => ~Unlocked(c)
        /\ pc[c] \in Rekeying => task[c].key # 0
        /\ pc[c] \in {"status", "begin"} => task[c].salt # 0
        /\ pc[c] \in Rotating \ {"status"} => task[c].newGen # 0

(* credentials.md:46 says "the clients `save()` after enrollment, init, or *)
(* join": a device that the server has made is one whose tokens are in a   *)
(* store or about to be, whatever password is typed next, unless the       *)
(* answer was lost or the process ended before the save.                   *)
DevicesHeld ==
    \A i \in Secrets : issued[i].by # NoClient =>
        \/ issued[i].by \in saved
        \/ pc[issued[i].by] \in {"save", "lost"}

(* security-model.md:63: the master password "derives (via Argon2id +      *)
(* salt) the KEK that wraps the AK": the password a member last set opens  *)
(* the member's wrap, and the wrap that the member's unfinished rotation   *)
(* is resumed with, but for two cases where the code does not keep it: a   *)
(* change of the password and a rotate by two clients of the user have     *)
(* crossed, or the user joined under other parameters than the default     *)
(* ones and has changed the password since.                                *)
MasterPasswordOpens ==
    \A u \in Users \ crossed : Member(u) =>
        /\ \/ Fits(account[u].wrap, account[u])
           \/ account[u].params # DefaultParams /\ account[u].salt > 1
        /\ InProgress /\ pending.user = u => Fits(pending.wrap, account[u])

(* The member joined by an invitation that a session with a replaced key   *)
(* had sealed.                                                             *)
Misinvited(u) == \E i \in Secrets :
    issued[i].kind = "invite" /\ issued[i].user = u /\ issued[i].key # issued[i].gen

(* The generation that the server tells a user may not be that of the key: *)
(* an invitation carried a replaced key, or a late PATCH, of a change of   *)
(* the password that crossed a rotate, put one back.                       *)
Misled(u) == Misinvited(u) \/ u \in crossed

(* session.md:27 says of set_key "stores the unlocked AK and the           *)
(* generation it corresponds to": so does every client, however it was     *)
(* built, unless its user was invited by a session whose key had been      *)
(* replaced, or has had a change of the password and a rotate by two       *)
(* clients cross.                                                          *)
SessionGenTrue ==
    \A c \in Clients : Unlocked(c) =>
        session[c].gen = session[c].key \/ Misled(User(c))

(* security-model.md:89 says "after off-boarding someone, rotate the key": *)
(* no client of a removed user, even one that was in the middle of a       *)
(* rotation, knows a later key than the one in force at the removal, and   *)
(* none knows the key that a member's rotation has put in force since,     *)
(* unless the member was invited with a replaced key or a change of the    *)
(* member's password crossed the rotation and put the retired key back.    *)
OffboardedKeysRetired ==
    \A c \in Clients : Unlocked(c) /\ left[User(c)] # 0 =>
        /\ session[c].key <= left[User(c)]
        /\ \A u \in Users :
              Member(u) /\ account[u].gen > left[User(c)] /\ ~Misled(u) =>
                  account[u].wrap.key # session[c].key

(* security-model.md:64 says of change_master_password that it "re-wraps   *)
(* the same AK under a new KEK": a new salt comes with a wrap of the same  *)
(* key, unless a rotation of the user was completed by another client      *)
(* between the unlock and the PATCH of a change.                           *)
SameKeyRewrapped ==
    [][\A u \in Users \ crossed : Member(u) /\ Member(u)' =>
          (account'[u].salt # account[u].salt =>
              account'[u].wrap.key = account[u].wrap.key)]_vars

(* security-model.md:77 says "Everyone who can unlock holds the same       *)
(* account key": when no rotation runs, all wraps hold one key.            *)
MembersShareKey ==
    ~InProgress => \A u, v \in Users :
        Member(u) /\ Member(v) => account[u].wrap.key = account[v].wrap.key

(* api-reference.md:106 calls rotate "resumable": a rotation in progress   *)
(* is that of a member, who alone can resume it.                           *)
RotationHasOwner == InProgress => Member(pending.user)

-----------------------------------------------------------------------------
(* The inductive invariant behind the safety properties.                   *)

(* A user who was removed does not come back: no secret of theirs is good, *)
(* and no invitation is made for somebody who has one.                     *)
RemovedStay == \A u \in Users :
    /\ left[u] # 0 => ~Member(u)
    /\ left[u] # 0 => \A i \in Secrets : issued[i].user = u => issued[i].revoked
    /\ Member(u) \/ left[u] # 0 => \E i \in Secrets : issued[i].user = u

(* A wrap is made with the password in force, and with the parameters of   *)
(* the account or, by a change of the password, with the default ones.     *)
AccountsFit == \A u \in Users \ crossed : Member(u) =>
    /\ account[u].wrap.kek = account[u].salt
    /\ \/ account[u].wrap.params = account[u].params
       \/ account[u].wrap.params = DefaultParams /\ account[u].salt > 1

(* The password that opens an account is number n, and the key it gives is *)
(* k; or its user is gone or has crossed.                                  *)
Excused(u) == left[u] # 0 \/ u \in crossed
FitsUser(n, u) == Excused(u) \/ (Member(u) /\ account[u].salt = n)
HoldsKey(k, u) == Excused(u) \/ (Member(u) /\ account[u].wrap.key = k)

(* A rotation in progress is towards the next generation, and its wrap     *)
(* opens with the password and the parameters of its owner.                *)
PendingFits == InProgress =>
    /\ pending.gen = gen + 1 /\ pending.wrap.key = pending.gen
    /\ FitsUser(pending.wrap.kek, pending.user)
    /\ \/ left[pending.user] # 0
       \/ /\ Member(pending.user)
          /\ pending.wrap.params = account[pending.user].params

(* The last generation whose key a user may know. *)
LastGen(u) == IF left[u] # 0 THEN left[u] ELSE gen

(* What a wrap or a secret gives to its user. *)
KeysNamed ==
    /\ \A u \in Users : Member(u) =>
          /\ account[u].wrap.key <= gen
          /\ account[u].gen = account[u].wrap.key \/ Misled(u)
    /\ \A i \in Secrets :
          /\ issued[i].key <= LastGen(issued[i].user)
          /\ issued[i].kind # "invite" => issued[i].key = issued[i].gen

(* A POST under way is waited for or given up; tokens are saved once.      *)
NetWaits(c) ==
    /\ c \in net => pc[c] \in {"posting", "lost"}
    /\ c \in saved => pc[c] \notin {"off", "posting", "save", "failed", "lost"}

(* A method that is about to begin has read the salt that is in force, the *)
(* one that re-encrypts for the rotation in progress is its owner's, and   *)
(* one that has completed one goes on to a key that is in force.           *)
RotatorAgrees(c) ==
    /\ pc[c] \in {"status", "begin"} => FitsUser(task[c].salt, User(c))
    /\ pc[c] = "reencrypt" =>
          \/ task[c].newGen <= gen
          \/ InProgress /\ task[c].newGen = pending.gen /\ User(c) = pending.user
    /\ pc[c] = "cutover" => task[c].newGen <= LastGen(User(c))

(* A session knows no later key than its user may, nor does a method, and  *)
(* the one about to send a PATCH has the key that is wrapped.              *)
SessionAgrees(c) ==
    /\ Unlocked(c) =>
          /\ session[c].key <= LastGen(User(c))
          /\ session[c].gen = session[c].key \/ Misled(User(c))
    /\ pc[c] \in Rekeying => task[c].key <= LastGen(User(c))
    /\ pc[c] = "patch" => HoldsKey(task[c].key, User(c))

(* What the safety properties rest on: facts about the server, and facts   *)
(* about each client.                                                      *)
ServerInv == RemovedStay /\ AccountsFit /\ PendingFits /\ KeysNamed
ClientInv(c) == NetWaits(c) /\ RotatorAgrees(c) /\ SessionAgrees(c)
TeamInv == ServerInv /\ \A c \in Clients : ClientInv(c)

=============================================================================
