------------------------------ MODULE Rotation ------------------------------
(***************************************************************************)
(* The account key of a vault: the devices that hold it in their sessions, *)
(* the wraps the server keeps of it (one for the master password, one for  *)
(* the recovery code), and its rotation, which re-encrypts every stored    *)
(* revision under a new key and then cuts over.                            *)
(*                                                                         *)
(* A device runs one method at a time, but for lock().  A request and its  *)
(* answer are one step; a lost answer is an Abort after the request took   *)
(* effect, and a process that ends at any point is a Crash.  A second      *)
(* attempt at begin or complete after a lost answer is refused by the      *)
(* server and raises, so that it ends the method as an Abort does.         *)
(*                                                                         *)
(* Keys and passwords are names: a wrap opens exactly with the password    *)
(* and the Argon2 parameters it was made with, and a blob exactly with the *)
(* key it was encrypted under (the AEAD tag).  The master password of the  *)
(* account and its salt stay the same here: Team has the methods that      *)
(* change them, and the other members of a team.                           *)
(***************************************************************************)
EXTENDS Naturals, Sequences, FiniteSets

CONSTANTS
    Devices,        \* clients of one account
    Creator,        \* the client that init_vault or join has made it with
    Passwords,      \* what a user may type as the master password
    Password,       \* the master password of the account
    Params,         \* Argon2 parameters
    DefaultParams,  \* DEFAULT_ARGON_*, the parameters of rewrap_account_key
    KeepsRecovery,  \* server: a rotation without a new code keeps the old wrap
    Careful,        \* users type the current master password into rotate
    MaxGen,         \* bound: rotations begin below this key generation
    MaxRevs,        \* bound: number of revisions pushed
    MaxFaults       \* bound: crashes, lost answers, locks during a method

ASSUME RotationAssumption ==
    /\ Password \in Passwords
    /\ DefaultParams \in Params
    /\ {Careful, KeepsRecovery} \subseteq BOOLEAN
    /\ {MaxGen, MaxRevs, MaxFaults} \subseteq Nat
    /\ MaxGen >= 1

VARIABLES
    acct,       \* server: key generation, parameters, wraps in force
    pending,    \* server: generation and wraps of the rotation in progress
    blobs,      \* server: the key and the key_gen stamp of each revision
    code,       \* the recovery code last returned to a caller
    session,    \* session[d]: the account key in memory and its key_gen
    pc,         \* pc[d]: the request d's method is at
    task,       \* task[d]: the local variables of that method
    faults      \* what MaxFaults bounds, so far

vars == <<acct, pending, blobs, code, session, pc, task, faults>>
server == <<acct, pending, blobs, code>>

Gens == 1..MaxGen

(* generate_account_key: the key a client draws for a generation. *)
Keys == [gen : Gens, by : Devices \cup {Creator}]
FirstKey == [gen |-> 1, by |-> Creator]

Wrap(k, p, a) == [key |-> k, pw |-> p, params |-> a]
(* A recovery code is named by the key it was drawn with.  Its wrap in     *)
(* rotate/begin is made by rewrap_account_key too.                         *)
NoCode == [gen |-> 0]
NoWrap == [key |-> NoCode]
RcWrap(k, c, a) == IF c = NoCode THEN NoWrap ELSE [key |-> k, code |-> c, params |-> a]
RcOpens(w, c, a) == w # NoWrap /\ w.code = c /\ w.params = a
Codes == {NoCode} \cup Keys
NoKey == [gen |-> 0]
RcWraps == {NoWrap} \cup [key : Keys, code : Keys, params : Params]

Wraps == [key : Keys, pw : Passwords, params : Params]
Opens(w, p, a) == w.pw = p /\ w.params = a

(* wrap_with_salt: rotate keeps the parameters it has read. *)
WrapWithSalt(t) == Wrap(t.newKey, t.pw, t.params)

(* rewrap_account_key, called without parameters, uses the default ones. *)
Rewrap(k, p) == Wrap(k, p, DefaultParams)

NoRotation == [gen |-> 0]
NoSession  == [gen |-> 0]
InProgress == pending # NoRotation
Unlocked(d) == session[d] # NoSession

(* encrypt_blob, decrypt_blob: the AEAD tag tells the key; the server adds *)
(* the key_gen stamp.                                                      *)
Encrypted(k, g) == [key |-> k, gen |-> g]
Decrypts(k, b)  == b.key = k
Blob == [key : Keys, gen : Gens]
Stale == {r \in 1..Len(blobs) : InProgress /\ blobs[r].gen # pending.gen}

PCs == {"idle", "status", "begin", "list", "fetch", "put", "complete",
        "cutover"}

NoTask == [pw |-> Password, params |-> DefaultParams,
           oldKey |-> NoKey, newKey |-> FirstKey, newGen |-> 1,
           newCode |-> NoCode, todo |-> {}, rev |-> 0]
Task == [pw : Passwords, params : Params, oldKey : {NoKey} \cup Keys,
         newKey : Keys, newGen : Gens, newCode : Codes, todo : SUBSET Nat, rev : Nat]

-----------------------------------------------------------------------------
(* init_vault or join was run on some device, which returned its recovery  *)
(* code: the account has the default parameters, or those that the server  *)
(* gave to join.  Every session is locked.                                 *)
Init ==
    /\ \E a \in Params :
          acct = [gen |-> 1, params |-> a, wrap |-> Wrap(FirstKey, Password, a),
                  rc |-> RcWrap(FirstKey, FirstKey, a)]
    /\ pending = NoRotation
    /\ blobs = <<>>
    /\ code = FirstKey
    /\ session = [d \in Devices |-> NoSession]
    /\ pc = [d \in Devices |-> "idle"]
    /\ task = [d \in Devices |-> NoTask]
    /\ faults = 0

Goto(d, at) == pc' = [pc EXCEPT ![d] = at]
SetKey(d, k, g) == session' = [session EXCEPT ![d] = [gen |-> g, key |-> k]]

(* The method returns or raises: its local variables are gone. *)
End(d) == Goto(d, "idle") /\ task' = [task EXCEPT ![d] = NoTask]

(* It raises: nothing it has done is undone. *)
Raise(d) == End(d) /\ UNCHANGED <<server, session, faults>>

(* unlock: the key and its generation come in one answer. *)
Unlock(d, p) ==
    /\ pc[d] = "idle"
    /\ Opens(acct.wrap, p, acct.params)
    /\ SetKey(d, acct.wrap.key, acct.gen)
    /\ UNCHANGED <<server, pc, task, faults>>

(* unlock_with_recovery, with the code the user was given last. *)
UnlockWithRecovery(d) ==
    /\ pc[d] = "idle"
    /\ RcOpens(acct.rc, code, acct.params)
    /\ SetKey(d, acct.rc.key, acct.gen)
    /\ UNCHANGED <<server, pc, task, faults>>

(* lock, also while rotate waits for an answer: it goes on with the keys   *)
(* that it has read.  Between methods the end of the process is the same.  *)
Lock(d) ==
    /\ Unlocked(d)
    /\ \/ pc[d] = "idle" /\ UNCHANGED faults
       \/ pc[d] # "idle" /\ faults < MaxFaults /\ faults' = faults + 1
    /\ session' = [session EXCEPT ![d] = NoSession]
    /\ UNCHANGED <<server, pc, task>>

(* push: the blob is encrypted under the session's key, and the server     *)
(* stamps it with the generation in force; key_gen is not sent.            *)
Push(d) ==
    /\ pc[d] = "idle"
    /\ Unlocked(d)
    /\ Len(blobs) < MaxRevs
    /\ blobs' = Append(blobs, Encrypted(session[d].key, acct.gen))
    /\ UNCHANGED <<acct, pending, code, session, pc, task, faults>>

-----------------------------------------------------------------------------
(* Mutant of RotateStart: a locked session is not refused. *)
RotateStartLocked(d, p) ==
    /\ pc[d] = "idle"
    /\ Careful => p = Password
    /\ InProgress \/ acct.gen < MaxGen
    /\ task' = [task EXCEPT ![d] = [NoTask EXCEPT !.pw = p, !.params = acct.params,
                    !.oldKey = IF Unlocked(d) THEN session[d].key ELSE NoKey]]
    /\ Goto(d, "status")
    /\ UNCHANGED <<server, session, faults>>

(* rotate: GET keys, then the session's key as the old key. *)
RotateStart(d, p) ==
    /\ pc[d] = "idle"
    /\ Unlocked(d)
    /\ Careful => p = Password
    /\ InProgress \/ acct.gen < MaxGen
    /\ task' = [task EXCEPT ![d] = [NoTask EXCEPT !.pw = p,
                    !.params = acct.params, !.oldKey = session[d].key]]
    /\ Goto(d, "status")
    /\ UNCHANGED <<server, session, faults>>

(* Mutants of RotateResume: without pending_* in the answer the wrap in    *)
(* force is opened instead; an unfinished rotation is an error; a new      *)
(* recovery code is drawn and returned, though begin is not sent again.    *)
ResumeWithOldWrap(d) ==
    /\ pc[d] = "status"
    /\ InProgress
    /\ task' = [task EXCEPT ![d].newKey = acct.wrap.key, ![d].newGen = pending.gen]
    /\ Goto(d, "list")
    /\ UNCHANGED <<server, session, faults>>

ResumeReturnsCode(d) ==
    /\ pc[d] = "status"
    /\ InProgress
    /\ IF Opens(pending.wrap, task[d].pw, task[d].params)
       THEN /\ task' = [task EXCEPT ![d].newKey = pending.wrap.key,
                            ![d].newCode = [gen |-> pending.gen, by |-> d],
                            ![d].newGen = pending.gen]
            /\ Goto(d, "list")
            /\ UNCHANGED <<server, session, faults>>
       ELSE Raise(d)

ResumeRefused(d) == pc[d] = "status" /\ InProgress /\ Raise(d)

(* GET rotate: an unfinished rotation is resumed with the key of its wrap, *)
(* which the server is assumed to send along with its generation (for an   *)
(* answer without it, the code would open the wrap in force).              *)
RotateResume(d) ==
    /\ pc[d] = "status"
    /\ InProgress
    /\ IF Opens(pending.wrap, task[d].pw, task[d].params)
       THEN /\ task' = [task EXCEPT ![d].newKey = pending.wrap.key,
                                    ![d].newGen = pending.gen]
            /\ Goto(d, "list")
            /\ UNCHANGED <<server, session, faults>>
       ELSE Raise(d)

(* Otherwise a new key is drawn for the next generation, and a new code    *)
(* with it if the caller asks for one.                                     *)
RotateFresh(d, withRecovery) ==
    /\ pc[d] = "status"
    /\ ~InProgress
    /\ acct.gen < MaxGen
    /\ LET k == [gen |-> acct.gen + 1, by |-> d] IN
        task' = [task EXCEPT ![d].newKey = k, ![d].newGen = acct.gen + 1,
                             ![d].newCode = IF withRecovery THEN k ELSE NoCode]
    /\ Goto(d, "begin")
    /\ UNCHANGED <<server, session, faults>>

(* build_begin_body: the wraps of the new key. *)
BeginBody(t) == [gen |-> t.newGen, wrap |-> WrapWithSalt(t),
                 rc |-> RcWrap(t.newKey, t.newCode, DefaultParams)]

(* Mutants of RotateBegin: a refusal is taken for a repeated begin; the    *)
(* key is wrapped by rewrap_account_key, which ignores the account's       *)
(* parameters.                                                             *)
BeginRefusalIgnored(d) ==
    /\ pc[d] = "begin"
    /\ pending' = IF InProgress \/ task[d].newGen # acct.gen + 1 THEN pending
                  ELSE BeginBody(task[d])
    /\ Goto(d, "list")
    /\ UNCHANGED <<acct, blobs, code, session, task, faults>>

BeginDefaultParams(d) ==
    /\ pc[d] = "begin"
    /\ ~InProgress /\ task[d].newGen = acct.gen + 1
    /\ pending' = [BeginBody(task[d]) EXCEPT !.wrap =
                       Rewrap(task[d].newKey, task[d].pw)]
    /\ Goto(d, "list")
    /\ UNCHANGED <<acct, blobs, code, session, task, faults>>

(* POST rotate/begin: refused while a rotation runs and for any generation *)
(* but the next.                                                           *)
RotateBegin(d) ==
    /\ pc[d] = "begin"
    /\ IF InProgress \/ task[d].newGen # acct.gen + 1
       THEN Raise(d)
       ELSE /\ pending' = BeginBody(task[d])
            /\ Goto(d, "list")
            /\ UNCHANGED <<acct, blobs, code, session, task, faults>>

(* _reencrypt_stale: list what is stale until nothing is. *)
ListStale(d) ==
    /\ pc[d] = "list"
    /\ task' = [task EXCEPT ![d].todo = Stale]
    /\ Goto(d, IF Stale = {} THEN "complete" ELSE "fetch")
    /\ UNCHANGED <<server, session, faults>>

FetchStale(d, r) ==
    /\ pc[d] = "fetch"
    /\ r \in task[d].todo
    /\ IF Decrypts(task[d].oldKey, blobs[r])
       THEN /\ task' = [task EXCEPT ![d].rev = r]
            /\ Goto(d, "put")
            /\ UNCHANGED <<server, session, faults>>
       ELSE Raise(d)

(* Mutant of PutBlob: the blob is encrypted under the old key. *)
PutOldKey(d) ==
    /\ pc[d] = "put"
    /\ InProgress /\ task[d].newGen = pending.gen
    /\ blobs' = [blobs EXCEPT ![task[d].rev] =
                    Encrypted(task[d].oldKey, task[d].newGen)]
    /\ task' = [task EXCEPT ![d].todo = @ \ {task[d].rev}]
    /\ Goto(d, IF task[d].todo = {task[d].rev} THEN "list" ELSE "fetch")
    /\ UNCHANGED <<acct, pending, code, session, faults>>

(* PUT blob: taken only for the rotation in progress. *)
PutBlob(d) ==
    /\ pc[d] = "put"
    /\ IF InProgress /\ task[d].newGen = pending.gen
       THEN /\ blobs' = [blobs EXCEPT ![task[d].rev] =
                            Encrypted(task[d].newKey, task[d].newGen)]
            /\ task' = [task EXCEPT ![d].todo = @ \ {task[d].rev}]
            /\ Goto(d, IF task[d].todo = {task[d].rev} THEN "list" ELSE "fetch")
            /\ UNCHANGED <<acct, pending, code, session, faults>>
       ELSE Raise(d)

(* POST rotate/complete: refused unless a rotation runs and nothing is     *)
(* stale; the pending wraps come into force.                               *)
RotateComplete(d) ==
    /\ pc[d] = "complete"
    /\ IF InProgress /\ Stale = {}
       THEN /\ acct' = [acct EXCEPT !.gen = pending.gen, !.wrap = pending.wrap,
                !.rc = IF KeepsRecovery /\ pending.rc = NoWrap THEN @ ELSE pending.rc]
            /\ pending' = NoRotation
            /\ Goto(d, "cutover")
            /\ UNCHANGED <<blobs, code, session, task, faults>>
       ELSE Raise(d)

(* Mutant of Cutover: the session keeps its key under the new number. *)
CutoverOldKey(d) ==
    /\ pc[d] = "cutover"
    /\ SetKey(d, task[d].oldKey, task[d].newGen)
    /\ End(d)
    /\ UNCHANGED <<server, faults>>

(* The method returns, with the recovery code if it has drawn one. *)
Cutover(d) ==
    /\ pc[d] = "cutover"
    /\ SetKey(d, task[d].newKey, task[d].newGen)
    /\ code' = IF task[d].newCode = NoCode THEN code ELSE task[d].newCode
    /\ End(d)
    /\ UNCHANGED <<acct, pending, blobs, faults>>

-----------------------------------------------------------------------------
(* The answer to the last request is lost for good, or the method is       *)
(* cancelled: the session survives.                                        *)
Abort(d) ==
    /\ pc[d] # "idle"
    /\ faults < MaxFaults
    /\ faults' = faults + 1
    /\ End(d)
    /\ UNCHANGED <<server, session>>

(* The process ends: the key was only in its memory. *)
Crash(d) ==
    /\ pc[d] # "idle"
    /\ faults < MaxFaults
    /\ faults' = faults + 1
    /\ session' = [session EXCEPT ![d] = NoSession]
    /\ End(d)
    /\ UNCHANGED server

Working(d) ==
    \/ RotateResume(d)
    \/ \E withRecovery \in BOOLEAN : RotateFresh(d, withRecovery)
    \/ RotateBegin(d)
    \/ ListStale(d)
    \/ \E r \in task[d].todo : FetchStale(d, r)
    \/ PutBlob(d)
    \/ RotateComplete(d)
    \/ Cutover(d)

Next == \E d \in Devices :
    \/ \E p \in Passwords : Unlock(d, p)
    \/ UnlockWithRecovery(d)
    \/ Lock(d)
    \/ Push(d)
    \/ \E p \in Passwords : RotateStart(d, p)
    \/ Working(d)
    \/ Abort(d)
    \/ Crash(d)

Spec == Init /\ [][Next]_vars

(* A method that runs goes on (the transport answers or raises, see        *)
(* Transport).  The user of each device unlocks it again and again, and    *)
(* calls rotate while a rotation is unfinished: "resumable" speaks of a    *)
(* user who resumes.                                                       *)
FairSpec ==
    /\ Spec
    /\ \A d \in Devices :
        /\ WF_vars(Working(d))
        /\ SF_vars(\E p \in Passwords : Unlock(d, p))
        /\ SF_vars(InProgress /\ \E p \in Passwords : RotateStart(d, p))

-----------------------------------------------------------------------------
(* Every variable stays in its set, and a method in progress has read a    *)
(* key, whatever becomes of the session.                                   *)
TypeOK ==
    /\ acct \in [gen : Gens, params : Params,
                wrap : Wraps, rc : RcWraps]
    /\ pending \in {NoRotation} \cup [gen : Gens, wrap : Wraps, rc : RcWraps]
    /\ blobs \in Seq(Blob)
    /\ code \in Keys
    /\ session \in [Devices -> {NoSession} \cup [gen : Gens, key : Keys]]
    /\ pc \in [Devices -> PCs]
    /\ task \in [Devices -> Task]
    /\ faults \in 0..MaxFaults
    /\ \A d \in Devices : pc[d] # "idle" => task[d].oldKey # NoKey

(* The key in force or the one a rotation is about to put in force. *)
Readable(r) ==
    \/ Decrypts(acct.wrap.key, blobs[r])
    \/ InProgress /\ Decrypts(pending.wrap.key, blobs[r])

(* No step makes a revision unreadable that could be read: not a rotation  *)
(* that is interrupted, resumed by another device or run by two of them,   *)
(* nor a push during one, whatever passwords are typed (rotate,            *)
(* _reencrypt_stale).                                                      *)
ReadableStaysReadable ==
    [][\A r \in 1..Len(blobs) : Readable(r) => Readable(r)']_vars

(* session.md:27 says of set_key "stores the unlocked AK and the           *)
(* generation it corresponds to": sessions of one generation hold one key, *)
(* and it is the account's when the generation is in force.                *)
SessionKeyMatchesGen ==
    \A d, e \in Devices :
        /\ Unlocked(d) /\ session[d].gen = acct.gen => session[d].key = acct.wrap.key
        /\ Unlocked(d) /\ Unlocked(e) /\ session[d].gen = session[e].gen =>
              session[d].key = session[e].key

(* Whoever re-encrypts for the rotation in progress, having begun or       *)
(* resumed it, does so under the key that its wrap holds.                  *)
RotatorsShareKey ==
    \A d \in Devices :
        /\ pc[d] \in {"list", "fetch", "put", "complete"}
        /\ InProgress /\ task[d].newGen = pending.gen
        => task[d].newKey = pending.wrap.key

(* security-model.md:63: the master password "derives (via Argon2id +      *)
(* salt) the KEK that wraps the AK": whatever the parameters of the        *)
(* account, the password its users type into rotate opens the wrap in      *)
(* force throughout, and the one a resumed rotation needs.                 *)
MasterPasswordOpens ==
    /\ Opens(acct.wrap, Password, acct.params)
    /\ InProgress => Opens(pending.wrap, Password, acct.params)

(* security-model.md:67 says of the recovery code "It wraps the *same* AK": *)
(* a code that a method returned for the generation in force is that of    *)
(* the recovery wrap, whoever began, resumed or completed the rotation; it *)
(* opens the wrap, unless a rotation has made it for an account that has   *)
(* not the default parameters; and the wrap holds what the master password *)
(* opens.                                                                  *)
RecoveryCodeOpens ==
    code.gen = acct.gen =>
        /\ acct.rc # NoWrap /\ acct.rc.code = code
        /\ \/ RcOpens(acct.rc, code, acct.params)
           \/ acct.params # DefaultParams /\ code.gen > 1
        /\ acct.rc.key = acct.wrap.key

(* api-reference.md:106 calls rotate "resumable": an unfinished rotation   *)
(* gets finished by a user who keeps resuming it.                          *)
RotationFinishes == InProgress ~> ~InProgress

(* security-model.md:77 says "Everyone who can unlock holds the same       *)
(* account key and can decrypt any blob they are allowed to fetch": while  *)
(* no rotation runs, every blob is under the key that unlock gives.        *)
AllReadable ==
    ~InProgress => \A r \in 1..Len(blobs) : Decrypts(acct.wrap.key, blobs[r])

(* security-model.md:71 says "A wrong password/code surfaces as            *)
(* MasterPasswordError": a rotation that goes on was given the master      *)
(* password of the account.                                                *)
WrongPasswordSurfaces ==
    \A d \in Devices :
        pc[d] \in {"list", "fetch", "put", "complete", "cutover"} =>
            task[d].pw = Password

-----------------------------------------------------------------------------
(* The inductive invariant behind the safety properties. *)

(* A rotation in progress is towards the next generation. *)
NextGen == InProgress => pending.gen = acct.gen + 1

(* A stamp is not ahead of the generations, and the stamp of the rotation  *)
(* in progress is on blobs under its key only.                             *)
StampsTrue ==
    \A r \in 1..Len(blobs) :
        /\ blobs[r].gen <= acct.gen \/ (InProgress /\ blobs[r].gen = pending.gen)
        /\ InProgress /\ blobs[r].gen = pending.gen => blobs[r].key = pending.wrap.key

(* Who has begun or resumed a rotation and has not returned yet. *)
Rotators == {d \in Devices : pc[d] \in {"list", "fetch", "put", "complete", "cutover"}}

(* The keys in use and their generations: on the server, with those who    *)
(* rotate, and in the sessions, unless the recovery wrap may hold a key of *)
(* another generation than the one unlock_with_recovery is told.           *)
KeysHeld ==
    {[gen |-> acct.gen, key |-> acct.wrap.key]}
    \cup {[gen |-> p.gen, key |-> p.wrap.key] : p \in {pending} \ {NoRotation}}
    \cup {[gen |-> task[d].newGen, key |-> task[d].newKey] : d \in Rotators}
    \cup {session[d] : d \in {e \in Devices : Unlocked(e) /\ ~KeepsRecovery}}

(* A generation has one key, drawn by whoever began its rotation. *)
OneKeyPerGen == \A h, i \in KeysHeld : h.gen = i.gen => h.key = i.key

(* Nobody is ahead of the server; a session never holds a pending key. *)
NobodyAhead ==
    /\ \A d \in Rotators :
          \/ task[d].newGen <= acct.gen
          \/ InProgress /\ task[d].newGen = pending.gen /\ pc[d] # "cutover"
    /\ \A d \in Devices : Unlocked(d) => session[d].gen <= acct.gen

(* All wraps are made with the account's parameters, but for those of the  *)
(* recovery codes that rotate returns, which are made with the default     *)
(* ones; all with the master password, if that is what users type.         *)
WrapsMade ==
    /\ acct.wrap.params = acct.params
    /\ acct.rc # NoWrap =>
          acct.rc.params = acct.params \/ (acct.rc.params = DefaultParams /\ acct.gen > 1)
    /\ InProgress =>
          /\ pending.wrap.params = acct.params
          /\ pending.rc # NoWrap => pending.rc.params = DefaultParams
    /\ \A d \in Devices : pc[d] # "idle" => task[d].params = acct.params
    /\ Careful =>
          /\ acct.wrap.pw = Password /\ (InProgress => pending.wrap.pw = Password)
          /\ \A d \in Devices : task[d].pw = Password

(* The recovery wrap c is the one for code k. *)
IsFor(c, k, key) == c # NoWrap /\ c.code = k /\ c.key = key

(* A recovery wrap is one of the key it is stored with, the code that is   *)
(* to be returned is the one that was sent, and it replaces older ones.    *)
CodesSent ==
    /\ ~KeepsRecovery =>
          /\ acct.rc # NoWrap => acct.rc.key = acct.wrap.key
          /\ InProgress /\ pending.rc # NoWrap => pending.rc.key = pending.wrap.key
    /\ code.gen <= acct.gen
    /\ code.gen = acct.gen => IsFor(acct.rc, code, acct.wrap.key)
    /\ \A d \in Devices : pc[d] = "status" => task[d].newCode = NoCode
    /\ \A d \in Devices : task[d].newCode # NoCode => task[d].newCode.gen = task[d].newGen
    /\ \A d \in Rotators : task[d].newCode # NoCode =>
          /\ InProgress /\ pending.gen = task[d].newGen =>
                IsFor(pending.rc, task[d].newCode, task[d].newKey)
          /\ acct.gen = task[d].newGen =>
                IsFor(acct.rc, task[d].newCode, task[d].newKey)

RotationInv ==
    /\ NextGen /\ StampsTrue
    /\ OneKeyPerGen /\ NobodyAhead
    /\ WrapsMade /\ CodesSent

=============================================================================
