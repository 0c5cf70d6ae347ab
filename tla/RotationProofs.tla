---------------------------- MODULE RotationProofs -----------------------------
(* The safety of Rotation for every set of devices, passwords and Argon2   *)
(* parameters, and for every bound.                                        *)
EXTENDS Rotation, TLAPS, SequenceTheorems

PairsOf == [gen : Gens, key : Keys]
Sessions == {NoSession} \cup PairsOf
Pendings == {NoRotation} \cup [gen : Gens, wrap : Wraps, rc : RcWraps]
Accts == [gen : Gens, params : Params, wrap : Wraps, rc : RcWraps]

(* The constants, and the records that stand for nothing. *)
LEMMA Consts ==
    /\ MaxGen \in Nat /\ MaxRevs \in Nat /\ MaxFaults \in Nat /\ 1 \in Gens
    /\ Gens \subseteq Nat /\ \A g \in Gens : g >= 1
    /\ Password \in Passwords /\ DefaultParams \in Params
    /\ FirstKey \in Keys /\ FirstKey.gen = 1
    /\ NoCode \notin Keys /\ NoKey \notin Keys
    /\ NoRotation.gen = 0 /\ NoSession.gen = 0
<1>1. /\ MaxGen \in Nat /\ MaxRevs \in Nat /\ MaxFaults \in Nat /\ MaxGen >= 1
      /\ Password \in Passwords /\ DefaultParams \in Params
  BY RotationAssumption
<1>2. 1 \in Gens /\ Gens \subseteq Nat /\ \A g \in Gens : g >= 1
  BY <1>1 DEF Gens
<1>3. FirstKey \in Keys /\ FirstKey.gen = 1
  BY <1>1, <1>2 DEF FirstKey, Keys
<1>4. NoCode \notin Keys /\ NoKey \notin Keys
  BY <1>2 DEF NoCode, NoKey, Keys
<1> QED
  BY <1>1, <1>2, <1>3, <1>4 DEF NoRotation, NoSession

(* A method that has ended has these local variables. *)
LEMMA NoTaskTyped ==
    /\ NoTask \in Task /\ NoTask.pw = Password /\ NoTask.newCode = NoCode
  BY Consts DEF NoTask, Task, Codes

(* What TypeOK says of the server's records, field by field. *)
LEMMA ServerTyped ==
    ASSUME TypeOK
    PROVE  /\ acct.gen \in Gens /\ acct.params \in Params
           /\ acct.wrap \in Wraps /\ acct.rc \in RcWraps
           /\ acct.wrap.key \in Keys /\ acct.wrap.params \in Params
           /\ acct.rc # NoWrap => acct.rc.key \in Keys /\ acct.rc.code \in Keys
           /\ InProgress => /\ pending.gen \in Gens /\ pending.wrap \in Wraps
                            /\ pending.rc \in RcWraps /\ pending.wrap.key \in Keys
           /\ Len(blobs) \in Nat
           /\ \A r \in 1..Len(blobs) :
                 blobs[r] \in Blob /\ blobs[r].gen \in Gens /\ blobs[r].key \in Keys
<1>1. acct.gen \in Gens /\ acct.params \in Params /\ acct.wrap \in Wraps /\ acct.rc \in RcWraps
  BY DEF TypeOK
<1>2. acct.wrap.key \in Keys /\ acct.wrap.params \in Params
  BY <1>1 DEF Wraps
<1>3. acct.rc # NoWrap => acct.rc.key \in Keys /\ acct.rc.code \in Keys
  BY <1>1 DEF RcWraps
<1>4. InProgress => pending.gen \in Gens /\ pending.wrap \in Wraps /\ pending.rc \in RcWraps
  BY DEF TypeOK, InProgress
<1>5. InProgress => pending.wrap.key \in Keys
  BY <1>4 DEF Wraps
<1>6. Len(blobs) \in Nat /\ \A r \in 1..Len(blobs) : blobs[r] \in Blob
  BY LenProperties, ElementOfSeq DEF TypeOK
<1> QED
  BY <1>1, <1>2, <1>3, <1>4, <1>5, <1>6 DEF Blob

(* What it says of the local variables of a method. *)
LEMMA TaskTyped ==
    ASSUME TypeOK, NEW d \in Devices
    PROVE  /\ task[d] \in Task /\ task[d].pw \in Passwords /\ task[d].params \in Params
           /\ task[d].oldKey \in {NoKey} \cup Keys
           /\ pc[d] # "idle" => task[d].oldKey # NoKey
           /\ task[d].newKey \in Keys /\ task[d].newGen \in Gens
           /\ task[d].newCode \in Codes /\ task[d].rev \in Nat
           /\ task[d].todo \subseteq Nat
           /\ Unlocked(d) => session[d].gen \in Gens /\ session[d].key \in Keys
  BY DEF TypeOK, Task, Unlocked

(* What a step of device d leaves to the others.                           *)
OthersStay(d) ==
    /\ pc' \in [Devices -> PCs] /\ task' \in [Devices -> Task]
    /\ session' \in [Devices -> Sessions]
    /\ \A e \in Devices \ {d} : pc'[e] = pc[e] /\ task'[e] = task[e] /\ session'[e] = session[e]

(* A device whose method goes on, with other local variables or with the   *)
(* same.                                                                   *)
LEMMA TaskOf ==
    ASSUME TypeOK, NEW d \in Devices, NEW at \in PCs, NEW t \in Task,
           Goto(d, at), task' = [task EXCEPT ![d] = t], session' = session
    PROVE  OthersStay(d) /\ pc'[d] = at /\ task'[d] = t /\ session'[d] = session[d]
  BY DEF TypeOK, Goto, OthersStay, Sessions, PairsOf

(* A device whose session changes, and not its method. *)
LEMMA SessionOf ==
    ASSUME TypeOK, NEW d \in Devices, NEW s \in Sessions,
           session' = [session EXCEPT ![d] = s], UNCHANGED <<pc, task>>
    PROVE  OthersStay(d) /\ pc'[d] = pc[d] /\ task'[d] = task[d] /\ session'[d] = s
  BY DEF TypeOK, OthersStay, Sessions, PairsOf

(* A method that ends, with the session it leaves. *)
LEMMA EndOf ==
    ASSUME TypeOK, NEW d \in Devices, End(d), NEW s \in Sessions,
           session' = [session EXCEPT ![d] = s]
    PROVE  OthersStay(d) /\ pc'[d] = "idle" /\ task'[d] = NoTask /\ session'[d] = s
  BY NoTaskTyped DEF TypeOK, End, Goto, OthersStay, Sessions, PairsOf, PCs

(* A method that raises. *)
LEMMA RaiseOf ==
    ASSUME TypeOK, NEW d \in Devices, End(d), session' = session
    PROVE  OthersStay(d) /\ pc'[d] = "idle" /\ task'[d] = NoTask /\ session'[d] = session[d]
  BY NoTaskTyped DEF TypeOK, End, Goto, OthersStay, Sessions, PairsOf, PCs

(* The types hold after a step of d. *)
LEMMA TypeKept ==
    ASSUME TypeOK, NEW d \in Devices, OthersStay(d),
           acct' \in Accts, pending' \in Pendings, blobs' \in Seq(Blob),
           code' \in Keys, faults' \in 0..MaxFaults,
           pc'[d] # "idle" => task'[d].oldKey # NoKey
    PROVE  TypeOK'
<1>1. \A e \in Devices : pc'[e] # "idle" => task'[e].oldKey # NoKey
  BY DEF TypeOK, OthersStay
<1> QED
  BY <1>1 DEF TypeOK, OthersStay, Sessions, PairsOf, Pendings, Accts

-----------------------------------------------------------------------------
(* The invariant, taken apart: what it says of the code that was returned, *)
(* of the wraps on the server and of one device's local variables.         *)
CodeOK ==
    /\ code.gen <= acct.gen
    /\ code.gen = acct.gen => IsFor(acct.rc, code, acct.wrap.key)

WrapsOK ==
    /\ acct.wrap.params = acct.params
    /\ acct.rc # NoWrap =>
          acct.rc.params = acct.params \/ (acct.rc.params = DefaultParams /\ acct.gen > 1)
    /\ InProgress =>
          /\ pending.wrap.params = acct.params
          /\ pending.rc # NoWrap => pending.rc.params = DefaultParams
    /\ Careful => acct.wrap.pw = Password /\ (InProgress => pending.wrap.pw = Password)
    /\ ~KeepsRecovery =>
          /\ acct.rc # NoWrap => acct.rc.key = acct.wrap.key
          /\ InProgress /\ pending.rc # NoWrap => pending.rc.key = pending.wrap.key

Rotating(d) == pc[d] \in {"list", "fetch", "put", "complete", "cutover"}

LocalOK(d) ==
    /\ Rotating(d) =>
          \/ task[d].newGen <= acct.gen
          \/ InProgress /\ task[d].newGen = pending.gen /\ pc[d] # "cutover"
    /\ Unlocked(d) => session[d].gen <= acct.gen
    /\ pc[d] # "idle" => task[d].params = acct.params
    /\ Careful => task[d].pw = Password
    /\ pc[d] = "status" => task[d].newCode = NoCode
    /\ task[d].newCode # NoCode => task[d].newCode.gen = task[d].newGen
    /\ Rotating(d) /\ task[d].newCode # NoCode =>
          /\ InProgress /\ pending.gen = task[d].newGen =>
                IsFor(pending.rc, task[d].newCode, task[d].newKey)
          /\ acct.gen = task[d].newGen =>
                IsFor(acct.rc, task[d].newCode, task[d].newKey)

RotationParts ==
    /\ NextGen /\ StampsTrue /\ OneKeyPerGen
    /\ CodeOK /\ WrapsOK /\ \A d \in Devices : LocalOK(d)

(* The invariant is the conjunction of its parts. *)
LEMMA Parts == RotationInv <=> RotationParts
<1>1. NobodyAhead /\ WrapsMade /\ CodesSent
        <=> CodeOK /\ WrapsOK /\ \A d \in Devices : LocalOK(d)
  BY DEF NobodyAhead, WrapsMade, CodesSent, CodeOK, WrapsOK, LocalOK, Rotators, Rotating
<1> QED
  BY <1>1 DEF RotationInv, RotationParts

AcctPair == [gen |-> acct.gen, key |-> acct.wrap.key]
PendingPair == [gen |-> pending.gen, key |-> pending.wrap.key]
TaskPair(d) == [gen |-> task[d].newGen, key |-> task[d].newKey]

HeldBy ==
    \A h : h \in KeysHeld <=>
        \/ h = AcctPair
        \/ InProgress /\ h = PendingPair
        \/ \E d \in Devices : Rotating(d) /\ h = TaskPair(d)
        \/ ~KeepsRecovery /\ \E d \in Devices : Unlocked(d) /\ h = session[d]

(* Who holds a key. *)
LEMMA Holders == HeldBy
<1>1. \A h : h \in {[gen |-> p.gen, key |-> p.wrap.key] : p \in {pending} \ {NoRotation}}
             <=> InProgress /\ h = PendingPair
  BY DEF InProgress, PendingPair
<1>2. \A h : h \in {[gen |-> task[d].newGen, key |-> task[d].newKey] : d \in Rotators}
             <=> \E d \in Devices : Rotating(d) /\ h = TaskPair(d)
  BY DEF Rotators, Rotating, TaskPair
<1>3. \A h : h \in {session[d] : d \in {e \in Devices : Unlocked(e) /\ ~KeepsRecovery}}
             <=> ~KeepsRecovery /\ \E d \in Devices : Unlocked(d) /\ h = session[d]
  OBVIOUS
<1> QED
  BY <1>1, <1>2, <1>3 DEF HeldBy, KeysHeld, AcctPair

(* No key comes into use that was in none.                                 *)
LEMMA HeldKept ==
    ASSUME TypeOK, RotationInv, NEW d \in Devices, OthersStay(d),
           UNCHANGED <<acct, pending>>,
           Rotating(d)' => TaskPair(d)' \in KeysHeld,
           Unlocked(d)' /\ ~KeepsRecovery => session'[d] \in KeysHeld
    PROVE  OneKeyPerGen'
<1>1. ASSUME NEW h, h \in KeysHeld' PROVE h \in KeysHeld
  <2>1. CASE h = AcctPair' \/ (InProgress /\ h = PendingPair)'
    BY <2>1, Holders DEF HeldBy, AcctPair, PendingPair, InProgress
  <2>2. ASSUME NEW e \in Devices, Rotating(e)', h = TaskPair(e)' PROVE h \in KeysHeld
    <3>1. CASE e = d
      BY <2>2, <3>1
    <3>2. CASE e # d
      <4>1. Rotating(e) /\ h = TaskPair(e)
        BY <2>2, <3>2 DEF OthersStay, Rotating, TaskPair
      <4> QED
        BY <4>1, Holders DEF HeldBy
    <3> QED
      BY <3>1, <3>2
  <2>3. ASSUME NEW e \in Devices, ~KeepsRecovery, Unlocked(e)', h = session'[e]
        PROVE  h \in KeysHeld
    <3>1. CASE e = d
      BY <2>3, <3>1
    <3>2. CASE e # d
      <4>1. Unlocked(e) /\ h = session[e]
        BY <2>3, <3>2 DEF OthersStay, Unlocked
      <4> QED
        BY <2>3, <4>1, Holders DEF HeldBy
    <3> QED
      BY <3>1, <3>2
  <2>4. \/ h = AcctPair' \/ (InProgress /\ h = PendingPair)'
        \/ \E e \in Devices : Rotating(e)' /\ h = TaskPair(e)'
        \/ ~KeepsRecovery /\ \E e \in Devices : Unlocked(e)' /\ h = session'[e]
    <3>1. HeldBy'
      BY Holders, PTL
    <3> QED
      BY <1>1, <3>1 DEF HeldBy
  <2> QED
    BY <2>1, <2>2, <2>3, <2>4
<1> QED
  BY <1>1 DEF RotationInv, OneKeyPerGen

(* The other devices are as sound as before when the server is the same.   *)
LEMMA OthersOK ==
    ASSUME RotationInv, NEW d \in Devices, OthersStay(d), UNCHANGED <<acct, pending>>
    PROVE  \A e \in Devices \ {d} : LocalOK(e)'
<1> SUFFICES ASSUME NEW e \in Devices \ {d} PROVE LocalOK(e)'
  OBVIOUS
<1>1. LocalOK(e) /\ pc'[e] = pc[e] /\ task'[e] = task[e] /\ session'[e] = session[e]
  BY Parts DEF RotationParts, OthersStay
<1> QED
  BY <1>1 DEF LocalOK, Rotating, Unlocked, InProgress

(* A step of d that changes no wrap and no blob. *)
LEMMA LocalStep ==
    ASSUME TypeOK, RotationInv, NEW d \in Devices, OthersStay(d),
           UNCHANGED <<acct, pending, blobs>>, LocalOK(d)', CodeOK',
           Rotating(d)' => TaskPair(d)' \in KeysHeld,
           Unlocked(d)' /\ ~KeepsRecovery => session'[d] \in KeysHeld
    PROVE  RotationInv'
<1>1. OneKeyPerGen'
  BY HeldKept
<1>2. \A e \in Devices : LocalOK(e)'
  BY OthersOK
<1>3. NextGen' /\ StampsTrue' /\ WrapsOK'
  BY Parts DEF RotationParts, NextGen, StampsTrue, WrapsOK, InProgress
<1>4. RotationParts'
  BY <1>1, <1>2, <1>3 DEF RotationParts
<1> QED
  BY <1>4, Parts, PTL

(* What a device keeps from one stage of its method to the next. *)
LEMMA SessionKept ==
    ASSUME RotationInv, NEW d \in Devices, session'[d] = session[d], acct' = acct
    PROVE  /\ Unlocked(d)' <=> Unlocked(d)
           /\ Unlocked(d)' => session'[d].gen <= acct'.gen
           /\ Unlocked(d)' /\ ~KeepsRecovery => session'[d] \in KeysHeld
  BY Parts, Holders DEF RotationParts, HeldBy, LocalOK, Unlocked

(* A method that raises, or a process that ends, leaves a sound device.    *)
LEMMA EndStep ==
    ASSUME TypeOK, RotationInv, NEW d \in Devices, OthersStay(d), UNCHANGED server,
           pc'[d] = "idle", task'[d] = NoTask, session'[d] \in {NoSession, session[d]}
    PROVE  RotationInv'
<1>1. /\ Unlocked(d)' => session'[d].gen <= acct'.gen
      /\ Unlocked(d)' /\ ~KeepsRecovery => session'[d] \in KeysHeld
  <2>1. CASE session'[d] = NoSession
    BY <2>1 DEF Unlocked
  <2>2. CASE session'[d] = session[d]
    BY <2>2, SessionKept DEF server
  <2> QED
    BY <2>1, <2>2
<1>2. ~Rotating(d)'
  BY DEF Rotating
<1>3. LocalOK(d)'
  BY <1>1, <1>2, NoTaskTyped DEF LocalOK
<1>4. CodeOK'
  BY Parts DEF RotationParts, CodeOK, server
<1> QED
  BY <1>1, <1>2, <1>3, <1>4, LocalStep DEF server

(* A session that changes, to a key that is held, whatever the method of   *)
(* the device is at.                                                       *)
LEMMA SessionStep ==
    ASSUME TypeOK, RotationInv, NEW d \in Devices, OthersStay(d), UNCHANGED server,
           pc'[d] = pc[d], task'[d] = task[d],
           Unlocked(d)' => session'[d].gen <= acct.gen,
           Unlocked(d)' /\ ~KeepsRecovery => session'[d] \in KeysHeld
    PROVE  RotationInv'
<1>1. LocalOK(d)'
  BY Parts DEF RotationParts, LocalOK, Rotating, InProgress, server
<1>2. CodeOK'
  BY Parts DEF RotationParts, CodeOK, server
<1>3. Rotating(d)' => TaskPair(d)' \in KeysHeld
  BY Holders DEF HeldBy, Rotating, TaskPair
<1> QED
  BY <1>1, <1>2, <1>3, LocalStep DEF server

(* A revision stays as it was, and so do the keys that can read it.        *)
LEMMA ReadKept ==
    ASSUME UNCHANGED <<acct, pending, blobs>>
    PROVE  \A r \in 1..Len(blobs) : Readable(r) => Readable(r)'
  BY DEF Readable, Decrypts, InProgress

Reads == \A r \in 1..Len(blobs) : Readable(r) => Readable(r)'

-----------------------------------------------------------------------------
(* A session that a device may have, be it emptied. *)
Fitting(s) ==
    /\ s # NoSession => s.gen <= acct.gen
    /\ s # NoSession /\ ~KeepsRecovery => s \in KeysHeld

NewSession(d, s) == session' = [session EXCEPT ![d] = s] /\ Fitting(s)

(* unlock, unlock_with_recovery and lock: a session gets the key in force  *)
(* or is emptied.                                                          *)
LEMMA SessionsStep ==
    ASSUME TypeOK, RotationInv, NEW d \in Devices,
           Lock(d) \/ UnlockWithRecovery(d) \/ \E p \in Passwords : Unlock(d, p)
    PROVE  TypeOK' /\ RotationInv' /\ Reads
<1>1. UNCHANGED <<server, pc, task>> /\ faults' \in 0..MaxFaults
  <2>1. UNCHANGED <<server, pc, task>>
    BY DEF Lock, UnlockWithRecovery, Unlock
  <2>2. faults' = faults \/ (faults < MaxFaults /\ faults' = faults + 1)
    BY DEF Lock, UnlockWithRecovery, Unlock
  <2> QED
    BY <2>1, <2>2, Consts DEF TypeOK
<1>s. \E s \in Sessions : NewSession(d, s)
  <2>1. CASE Lock(d)
    BY <2>1 DEF Lock, Sessions, NewSession, Fitting
  <2>2. ASSUME NEW p \in Passwords, Unlock(d, p) PROVE \E s \in Sessions : NewSession(d, s)
    <3>1. AcctPair \in Sessions
      BY ServerTyped DEF AcctPair, Sessions, PairsOf
    <3>2. AcctPair.gen = acct.gen /\ acct.gen <= acct.gen
      <4>1. acct.gen \in Nat
        BY ServerTyped, Consts
      <4> QED
        BY <4>1 DEF AcctPair
    <3>3. AcctPair \in KeysHeld
      BY Holders DEF HeldBy
    <3>4. session' = [session EXCEPT ![d] = AcctPair]
      BY <2>2 DEF Unlock, SetKey, AcctPair
    <3> QED
      BY <3>1, <3>2, <3>3, <3>4 DEF NewSession, Fitting
  <2>3. CASE UnlockWithRecovery(d)
    <3> DEFINE s == [gen |-> acct.gen, key |-> acct.rc.key]
    <3>1. acct.rc # NoWrap /\ acct.rc.key \in Keys
      BY <2>3, ServerTyped DEF UnlockWithRecovery, RcOpens
    <3>2. s \in Sessions
      BY <3>1, ServerTyped DEF Sessions, PairsOf
    <3>3. s.gen = acct.gen /\ acct.gen <= acct.gen
      <4>1. acct.gen \in Nat
        BY ServerTyped, Consts
      <4> QED
        BY <4>1
    <3>4. ~KeepsRecovery => s = AcctPair
      BY <3>1, Parts DEF RotationParts, WrapsOK, AcctPair
    <3>5. ~KeepsRecovery => s \in KeysHeld
      BY <3>4, Holders DEF HeldBy
    <3>6. session' = [session EXCEPT ![d] = s]
      BY <2>3 DEF UnlockWithRecovery, SetKey
    <3> HIDE DEF s
    <3> QED
      BY <3>2, <3>3, <3>5, <3>6 DEF NewSession, Fitting
  <2> QED
    BY <2>1, <2>2, <2>3
<1>2. PICK s \in Sessions :
        session' = [session EXCEPT ![d] = s] /\ Fitting(s)
  BY <1>s DEF NewSession
<1>3. OthersStay(d) /\ pc'[d] = pc[d] /\ task'[d] = task[d] /\ session'[d] = s
  BY <1>1, <1>2, SessionOf
<1>4. TypeOK'
  BY <1>1, <1>3, TypeKept DEF TypeOK, server, Accts, Pendings
<1>5. RotationInv'
  BY <1>1, <1>2, <1>3, SessionStep DEF Fitting, Unlocked
<1> QED
  BY <1>1, <1>4, <1>5, ReadKept DEF Reads, server

(* push: the new blob is stamped with the generation in force, which is    *)
(* not that of a rotation in progress.                                     *)
LEMMA PushStep ==
    ASSUME TypeOK, RotationInv, NEW d \in Devices, Push(d)
    PROVE  TypeOK' /\ RotationInv' /\ Reads
<1>1. /\ Unlocked(d) /\ blobs' = Append(blobs, Encrypted(session[d].key, acct.gen))
      /\ UNCHANGED <<acct, pending, code, session, pc, task, faults>>
  BY DEF Push
<1>2. PICK b \in Blob : b = Encrypted(session[d].key, acct.gen) /\ b.gen = acct.gen
  <2>1. Encrypted(session[d].key, acct.gen) \in Blob
    BY <1>1, ServerTyped, TaskTyped DEF Encrypted, Blob
  <2> QED
    BY <2>1 DEF Encrypted
<1>3. /\ blobs' \in Seq(Blob) /\ Len(blobs') = Len(blobs) + 1
      /\ blobs'[Len(blobs) + 1] = b
      /\ \A r \in 1..Len(blobs) : blobs'[r] = blobs[r]
  BY <1>1, <1>2, AppendProperties DEF TypeOK
<1>4. TypeOK'
  BY <1>1, <1>3 DEF TypeOK, Unlocked
<1>5. StampsTrue'
  <2> SUFFICES ASSUME NEW r \in 1..Len(blobs')
               PROVE  /\ blobs'[r].gen <= acct.gen \/ (InProgress /\ blobs'[r].gen = pending.gen)
                      /\ InProgress /\ blobs'[r].gen = pending.gen =>
                             blobs'[r].key = pending.wrap.key
    BY <1>1 DEF StampsTrue, InProgress
  <2>1. CASE r \in 1..Len(blobs)
    BY <1>3, <2>1, Parts DEF RotationParts, StampsTrue
  <2>2. CASE r = Len(blobs) + 1
    <3>1. blobs'[r].gen = acct.gen /\ acct.gen \in Nat
      BY <1>2, <1>3, <2>2, ServerTyped, Consts
    <3>2. InProgress => pending.gen # acct.gen
      BY <3>1, Parts DEF RotationParts, NextGen
    <3> QED
      BY <3>1, <3>2
  <2> QED
    BY <1>3, <2>1, <2>2, ServerTyped
<1>6. /\ NextGen' /\ OneKeyPerGen' /\ CodeOK' /\ WrapsOK' /\ \A e \in Devices : LocalOK(e)'
  <2>1. OthersStay(d)
    BY <1>1 DEF TypeOK, OthersStay, Sessions, PairsOf
  <2>2. LocalOK(d)'
    BY <1>1, Parts DEF RotationParts, LocalOK, Rotating, Unlocked, InProgress
  <2>3. /\ Rotating(d)' => TaskPair(d)' \in KeysHeld
        /\ Unlocked(d)' /\ ~KeepsRecovery => session'[d] \in KeysHeld
    BY <1>1, Holders DEF HeldBy, Rotating, TaskPair, Unlocked
  <2>4. OneKeyPerGen'
    BY <1>1, <2>1, <2>3, HeldKept
  <2>5. \A e \in Devices : LocalOK(e)'
    BY <1>1, <2>1, <2>2, OthersOK
  <2> QED
    BY <1>1, <2>4, <2>5, Parts DEF RotationParts, NextGen, CodeOK, WrapsOK, InProgress
<1>7. RotationInv'
  <2>1. RotationParts'
    BY <1>5, <1>6 DEF RotationParts
  <2> QED
    BY <2>1, Parts, PTL
<1>8. Reads
  BY <1>1, <1>3 DEF Reads, Readable, Decrypts, InProgress
<1> QED
  BY <1>4, <1>7, <1>8

(* A method that raises, by itself or for a lost answer, and a process     *)
(* that ends.                                                              *)
LEMMA EndsStep ==
    ASSUME TypeOK, RotationInv, NEW d \in Devices, End(d), UNCHANGED server,
           faults' \in 0..MaxFaults,
           session' = session \/ session' = [session EXCEPT ![d] = NoSession]
    PROVE  TypeOK' /\ RotationInv' /\ Reads
<1>1. /\ OthersStay(d) /\ pc'[d] = "idle" /\ task'[d] = NoTask
      /\ session'[d] \in {NoSession, session[d]}
  BY RaiseOf, EndOf DEF Sessions
<1>2. TypeOK'
  BY <1>1, TypeKept DEF TypeOK, server, Accts, Pendings
<1>3. RotationInv'
  BY <1>1, EndStep
<1> QED
  BY <1>2, <1>3, ReadKept DEF Reads, server

-----------------------------------------------------------------------------
(* A method that goes on without changing the server. *)
LEMMA GoesOn ==
    ASSUME TypeOK, RotationInv, NEW d \in Devices, OthersStay(d), task'[d].oldKey # NoKey,
           UNCHANGED <<server, faults>>, session'[d] = session[d],
           LocalOK(d)', Rotating(d)' => TaskPair(d)' \in KeysHeld
    PROVE  TypeOK' /\ RotationInv' /\ Reads
<1>1. TypeOK'
  BY TypeKept DEF TypeOK, server, Accts, Pendings
<1>2. CodeOK'
  BY Parts DEF RotationParts, CodeOK, server
<1>3. Unlocked(d)' /\ ~KeepsRecovery => session'[d] \in KeysHeld
  BY Holders DEF HeldBy, Unlocked
<1>4. RotationInv'
  BY <1>2, <1>3, LocalStep DEF server
<1> QED
  BY <1>1, <1>4, ReadKept DEF Reads, server

(* rotate starts with the parameters and the key it has read.              *)
LEMMA RotateStartStep ==
    ASSUME TypeOK, RotationInv, NEW d \in Devices, NEW p \in Passwords, RotateStart(d, p)
    PROVE  TypeOK' /\ RotationInv' /\ Reads
<1> DEFINE t == [NoTask EXCEPT !.pw = p, !.params = acct.params, !.oldKey = session[d].key]
<1>1. /\ Unlocked(d) /\ (Careful => p = Password)
      /\ task' = [task EXCEPT ![d] = t] /\ Goto(d, "status")
      /\ UNCHANGED <<server, session, faults>>
  BY DEF RotateStart
<1>2. /\ t \in Task /\ t.pw = p /\ t.params = acct.params /\ t.newCode = NoCode
      /\ t.oldKey # NoKey
  <2>1. session[d].key \in Keys /\ acct.params \in Params /\ NoKey \notin Keys
    BY <1>1, ServerTyped, TaskTyped, Consts
  <2> QED
    BY <2>1, NoTaskTyped DEF NoTask, Task
<1> HIDE DEF t
<1>3. OthersStay(d) /\ pc'[d] = "status" /\ task'[d] = t /\ session'[d] = session[d]
  BY <1>1, <1>2, TaskOf DEF PCs
<1>4. LocalOK(d)' /\ ~Rotating(d)'
  BY <1>1, <1>2, <1>3, Parts DEF RotationParts, LocalOK, WrapsOK, Rotating, Unlocked, server
<1> QED
  BY <1>1, <1>2, <1>3, <1>4, GoesOn

(* A rotation is resumed with the key that its wrap holds.                 *)
LEMMA ResumeStep ==
    ASSUME TypeOK, RotationInv, NEW d \in Devices, RotateResume(d)
    PROVE  TypeOK' /\ RotationInv' /\ Reads
<1>1. CASE Opens(pending.wrap, task[d].pw, task[d].params)
  <2> DEFINE t == [task[d] EXCEPT !.newKey = pending.wrap.key, !.newGen = pending.gen]
  <2>1. /\ pc[d] = "status" /\ InProgress /\ task' = [task EXCEPT ![d] = t] /\ Goto(d, "list")
        /\ UNCHANGED <<server, session, faults>>
    BY <1>1 DEF RotateResume, TypeOK
  <2>2. /\ t \in Task /\ t.newKey = pending.wrap.key /\ t.newGen = pending.gen
        /\ t.pw = task[d].pw /\ t.params = task[d].params /\ t.newCode = task[d].newCode
        /\ t.oldKey = task[d].oldKey
    BY <2>1, ServerTyped, TaskTyped DEF Task
  <2> HIDE DEF t
  <2>3. OthersStay(d) /\ pc'[d] = "list" /\ task'[d] = t /\ session'[d] = session[d]
    BY <2>1, <2>2, TaskOf DEF PCs
  <2>4. task'[d].oldKey # NoKey
    BY <2>1, <2>2, <2>3, TaskTyped
  <2>5. t.newCode = NoCode
    BY <2>1, <2>2, Parts DEF RotationParts, LocalOK
  <2>6. LocalOK(d)'
    BY <2>1, <2>2, <2>3, <2>5, Parts
    DEF RotationParts, LocalOK, Rotating, Unlocked, server, InProgress
  <2>7. TaskPair(d)' \in KeysHeld
    <3>1. TaskPair(d)' = PendingPair
      BY <2>2, <2>3 DEF TaskPair, PendingPair
    <3> QED
      BY <2>1, <3>1, Holders DEF HeldBy
  <2> QED
    BY <2>1, <2>3, <2>4, <2>6, <2>7, GoesOn
<1>2. CASE ~Opens(pending.wrap, task[d].pw, task[d].params)
  <2>1. End(d) /\ UNCHANGED server /\ session' = session /\ faults' = faults
    BY <1>2 DEF RotateResume, Raise
  <2> QED
    BY <2>1, EndsStep DEF TypeOK
<1> QED
  BY <1>1, <1>2

(* A fresh key is nobody's until begin has sent it.                        *)
LEMMA FreshStep ==
    ASSUME TypeOK, RotationInv, NEW d \in Devices, NEW withRecovery \in BOOLEAN,
           RotateFresh(d, withRecovery)
    PROVE  TypeOK' /\ RotationInv' /\ Reads
<1> DEFINE k == [gen |-> acct.gen + 1, by |-> d]
           t == [task[d] EXCEPT !.newKey = k, !.newGen = acct.gen + 1,
                                !.newCode = IF withRecovery THEN k ELSE NoCode]
<1>1. /\ pc[d] = "status" /\ acct.gen < MaxGen
      /\ task' = [task EXCEPT ![d] = t] /\ Goto(d, "begin")
      /\ UNCHANGED <<server, session, faults>>
  BY DEF RotateFresh, TypeOK
<1>2. acct.gen + 1 \in Gens
  BY <1>1, ServerTyped, Consts DEF Gens
<1>3. k \in Keys /\ k.gen = acct.gen + 1
  BY <1>2 DEF Keys
<1> HIDE DEF k
<1>4. /\ t \in Task /\ t.newGen = acct.gen + 1 /\ (t.newCode # NoCode => t.newCode = k)
      /\ t.pw = task[d].pw /\ t.params = task[d].params /\ t.oldKey = task[d].oldKey
  BY <1>2, <1>3, TaskTyped DEF Task, Codes
<1> HIDE DEF t
<1>5. OthersStay(d) /\ pc'[d] = "begin" /\ task'[d] = t /\ session'[d] = session[d]
  BY <1>1, <1>4, TaskOf DEF PCs
<1>6. task'[d].oldKey # NoKey
  BY <1>1, <1>4, <1>5, TaskTyped
<1>7. LocalOK(d)' /\ ~Rotating(d)'
  BY <1>1, <1>3, <1>4, <1>5, Parts DEF RotationParts, LocalOK, Rotating, Unlocked, server
<1> QED
  BY <1>1, <1>5, <1>6, <1>7, GoesOn

(* From stage to stage of the re-encryption a method keeps its key.        *)
LEMMA StageOK ==
    ASSUME TypeOK, RotationInv, NEW d \in Devices, OthersStay(d),
           UNCHANGED <<acct, pending>>, session'[d] = session[d],
           pc[d] \in {"list", "fetch", "put"}, pc'[d] \in {"list", "fetch", "put", "complete"},
           task'[d].pw = task[d].pw, task'[d].params = task[d].params,
           task'[d].newGen = task[d].newGen, task'[d].newKey = task[d].newKey,
           task'[d].newCode = task[d].newCode, task'[d].oldKey = task[d].oldKey
    PROVE  LocalOK(d)' /\ TaskPair(d)' \in KeysHeld /\ task'[d].oldKey # NoKey
<1>1. Rotating(d)
  BY DEF Rotating
<1>2. TaskPair(d)' \in KeysHeld
  <2>1. TaskPair(d)' = TaskPair(d)
    BY DEF TaskPair
  <2> QED
    BY <1>1, <2>1, Holders DEF HeldBy
<1>3. LocalOK(d)'
  BY <1>1, Parts DEF RotationParts, LocalOK, Rotating, Unlocked, InProgress
<1> QED
  BY <1>2, <1>3, TaskTyped

(* The listing and the fetching of stale blobs. *)
LEMMA ListStep ==
    ASSUME TypeOK, RotationInv, NEW d \in Devices,
           ListStale(d) \/ \E r \in task[d].todo : FetchStale(d, r)
    PROVE  TypeOK' /\ RotationInv' /\ Reads
<1>1. ASSUME NEW at \in {"fetch", "put", "complete"}, NEW t \in Task,
             pc[d] \in {"list", "fetch"}, Goto(d, at), task' = [task EXCEPT ![d] = t],
             UNCHANGED <<server, session, faults>>,
             t.pw = task[d].pw, t.params = task[d].params, t.newGen = task[d].newGen,
             t.newKey = task[d].newKey, t.newCode = task[d].newCode, t.oldKey = task[d].oldKey
      PROVE  TypeOK' /\ RotationInv' /\ Reads
  <2>0. at \in PCs
    BY DEF PCs
  <2>1. OthersStay(d) /\ pc'[d] = at /\ task'[d] = t /\ session'[d] = session[d]
    BY <1>1, <2>0, TaskOf
  <2>2. LocalOK(d)' /\ TaskPair(d)' \in KeysHeld /\ task'[d].oldKey # NoKey
    BY <1>1, <2>1, StageOK DEF server
  <2> QED
    BY <1>1, <2>1, <2>2, GoesOn
<1>2. CASE ListStale(d)
  <2> DEFINE t == [task[d] EXCEPT !.todo = Stale]
             at == IF Stale = {} THEN "complete" ELSE "fetch"
  <2>1. /\ pc[d] = "list" /\ task' = [task EXCEPT ![d] = t] /\ Goto(d, at)
        /\ UNCHANGED <<server, session, faults>>
    BY <1>2 DEF ListStale, TypeOK
  <2>2. Stale \subseteq Nat
    BY ServerTyped DEF Stale
  <2>3. /\ t \in Task /\ t.pw = task[d].pw /\ t.params = task[d].params
        /\ t.newGen = task[d].newGen /\ t.newKey = task[d].newKey
        /\ t.newCode = task[d].newCode /\ t.oldKey = task[d].oldKey
    BY <2>2, TaskTyped DEF Task
  <2>4. at \in {"fetch", "put", "complete"}
    OBVIOUS
  <2> HIDE DEF t, at
  <2> QED
    BY <1>1, <2>1, <2>3, <2>4
<1>3. ASSUME NEW r \in task[d].todo, FetchStale(d, r)
      PROVE  TypeOK' /\ RotationInv' /\ Reads
  <2>1. CASE Decrypts(task[d].oldKey, blobs[r])
    <3> DEFINE t == [task[d] EXCEPT !.rev = r]
    <3>1. /\ pc[d] = "fetch" /\ task' = [task EXCEPT ![d] = t] /\ Goto(d, "put")
          /\ UNCHANGED <<server, session, faults>>
      BY <1>3, <2>1 DEF FetchStale, TypeOK
    <3>2. /\ t \in Task /\ t.pw = task[d].pw /\ t.params = task[d].params
          /\ t.newGen = task[d].newGen /\ t.newKey = task[d].newKey
          /\ t.newCode = task[d].newCode /\ t.oldKey = task[d].oldKey
      BY TaskTyped DEF Task
    <3> HIDE DEF t
    <3> QED
      BY <1>1, <3>1, <3>2
  <2>2. CASE ~Decrypts(task[d].oldKey, blobs[r])
    <3>1. End(d) /\ UNCHANGED server /\ session' = session /\ faults' = faults
      BY <1>3, <2>2 DEF FetchStale, Raise
    <3> QED
      BY <3>1, EndsStep DEF TypeOK
  <2> QED
    BY <2>1, <2>2
<1> QED
  BY <1>2, <1>3

(* PUT blob: the blob gets the pending key, whoever re-encrypts it.        *)
LEMMA PutStep ==
    ASSUME TypeOK, RotationInv, NEW d \in Devices, PutBlob(d)
    PROVE  TypeOK' /\ RotationInv' /\ Reads
<1>1. CASE InProgress /\ task[d].newGen = pending.gen
  <2> DEFINE t == [task[d] EXCEPT !.todo = @ \ {task[d].rev}]
             at == IF task[d].todo = {task[d].rev} THEN "list" ELSE "fetch"
             b == Encrypted(task[d].newKey, task[d].newGen)
  <2>1. /\ pc[d] = "put" /\ task' = [task EXCEPT ![d] = t] /\ Goto(d, at)
        /\ blobs' = [blobs EXCEPT ![task[d].rev] = b]
        /\ UNCHANGED <<acct, pending, code, session, faults>>
    BY <1>1 DEF PutBlob, TypeOK
  <2>2. /\ t \in Task /\ t.pw = task[d].pw /\ t.params = task[d].params
        /\ t.newGen = task[d].newGen /\ t.newKey = task[d].newKey
        /\ t.newCode = task[d].newCode /\ t.oldKey = task[d].oldKey
    BY TaskTyped DEF Task
  <2>3. at \in {"list", "fetch"}
    OBVIOUS
  <2>4. b \in Blob /\ b.gen = pending.gen /\ b.key = task[d].newKey
    BY <1>1, TaskTyped DEF Blob, Encrypted
  <2> HIDE DEF t, at, b
  <2>5. OthersStay(d) /\ pc'[d] = at /\ task'[d] = t /\ session'[d] = session[d]
    BY <2>1, <2>2, <2>3, TaskOf DEF PCs
  <2>6. LocalOK(d)' /\ TaskPair(d)' \in KeysHeld /\ task'[d].oldKey # NoKey
    BY <2>1, <2>2, <2>3, <2>5, StageOK
  <2>7. /\ blobs' \in Seq(Blob) /\ Len(blobs') = Len(blobs)
        /\ \A r \in 1..Len(blobs) :
              blobs'[r] = IF r = task[d].rev THEN b ELSE blobs[r]
    <3>1. blobs \in Seq(Blob)
      BY DEF TypeOK
    <3>2. CASE task[d].rev \in 1..Len(blobs)
      BY <2>1, <2>4, <3>1, <3>2, ExceptSeq
    <3>3. CASE task[d].rev \notin 1..Len(blobs)
      <4>1. blobs' = blobs
        BY <2>1, <3>1, <3>3, LenProperties
      <4> QED
        BY <3>1, <3>3, <4>1
    <3> QED
      BY <3>2, <3>3
  <2>8. b.key = pending.wrap.key
    <3>1. Rotating(d)
      BY <2>1 DEF Rotating
    <3>2. PendingPair \in KeysHeld /\ TaskPair(d) \in KeysHeld
      BY <1>1, <3>1, Holders DEF HeldBy
    <3>3. PendingPair.gen = TaskPair(d).gen
      BY <1>1 DEF PendingPair, TaskPair
    <3>4. PendingPair.key = TaskPair(d).key
      BY <3>2, <3>3, Parts DEF RotationParts, OneKeyPerGen
    <3> QED
      BY <2>4, <3>4 DEF PendingPair, TaskPair
  <2>9. TypeOK'
    BY <2>1, <2>5, <2>6, <2>7, TypeKept DEF TypeOK, Accts, Pendings
  <2>10. RotationInv'
    <3>1. StampsTrue'
      <4> SUFFICES ASSUME NEW r \in 1..Len(blobs)
                   PROVE  /\ blobs'[r].gen <= acct.gen \/ blobs'[r].gen = pending.gen
                          /\ blobs'[r].gen = pending.gen => blobs'[r].key = pending.wrap.key
        BY <1>1, <2>1, <2>7 DEF StampsTrue, InProgress
      <4>1. CASE r = task[d].rev
        BY <2>4, <2>7, <2>8, <4>1
      <4>2. CASE r # task[d].rev
        BY <1>1, <2>7, <4>2, Parts DEF RotationParts, StampsTrue
      <4> QED
        BY <4>1, <4>2
    <3>2. OneKeyPerGen'
      <4>1. Unlocked(d)' /\ ~KeepsRecovery => session'[d] \in KeysHeld
        BY <2>5, Holders DEF HeldBy, Unlocked
      <4> QED
        BY <2>1, <2>5, <2>6, <4>1, HeldKept
    <3>3. \A e \in Devices : LocalOK(e)'
      BY <2>1, <2>5, <2>6, OthersOK
    <3>4. NextGen' /\ CodeOK' /\ WrapsOK'
      BY <2>1, Parts DEF RotationParts, NextGen, CodeOK, WrapsOK, InProgress
    <3>5. RotationParts'
      BY <3>1, <3>2, <3>3, <3>4 DEF RotationParts
    <3> QED
      BY <3>5, Parts, PTL
  <2>11. Reads
    <3> SUFFICES ASSUME NEW r \in 1..Len(blobs), Readable(r) PROVE Readable(r)'
      BY DEF Reads
    <3>1. CASE r = task[d].rev
      BY <1>1, <2>1, <2>7, <2>8, <3>1 DEF Readable, Decrypts, InProgress
    <3>2. CASE r # task[d].rev
      BY <2>1, <2>7, <3>2 DEF Readable, Decrypts, InProgress
    <3> QED
      BY <3>1, <3>2
  <2> QED
    BY <2>9, <2>10, <2>11
<1>2. CASE ~(InProgress /\ task[d].newGen = pending.gen)
  <2>1. End(d) /\ UNCHANGED server /\ session' = session /\ faults' = faults
    BY <1>2 DEF PutBlob, Raise
  <2> QED
    BY <2>1, EndsStep DEF TypeOK
<1> QED
  BY <1>1, <1>2

(* The method returns: its key is that of its generation, and its code is  *)
(* for the wrap that begin has sent.                                       *)
LEMMA CutoverStep ==
    ASSUME TypeOK, RotationInv, NEW d \in Devices, Cutover(d)
    PROVE  TypeOK' /\ RotationInv' /\ Reads
<1>1. /\ pc[d] = "cutover" /\ session' = [session EXCEPT ![d] = TaskPair(d)]
      /\ code' = IF task[d].newCode = NoCode THEN code ELSE task[d].newCode
      /\ End(d) /\ UNCHANGED <<acct, pending, blobs, faults>>
  BY DEF Cutover, SetKey, TaskPair
<1>2. TaskPair(d) \in Sessions /\ TaskPair(d) # NoSession
  <2>1. TaskPair(d) \in PairsOf /\ TaskPair(d).gen \in Gens
    BY TaskTyped DEF TaskPair, PairsOf
  <2>2. TaskPair(d).gen # 0
    BY <2>1, Consts
  <2> QED
    BY <2>1, <2>2, Consts DEF Sessions
<1>3. /\ OthersStay(d) /\ pc'[d] = "idle" /\ task'[d] = NoTask
      /\ session'[d] = TaskPair(d)
  BY <1>1, <1>2, EndOf
<1>4. Rotating(d) /\ task[d].newGen <= acct.gen
  BY <1>1, Parts DEF RotationParts, LocalOK, Rotating
<1>5. TaskPair(d) \in KeysHeld
  BY <1>4, Holders DEF HeldBy
<1>6. code' \in Keys
  BY <1>1, TaskTyped DEF TypeOK, Codes
<1>7. TypeOK'
  BY <1>1, <1>3, <1>6, TypeKept DEF TypeOK, Accts, Pendings
<1>8. CodeOK'
  <2>1. CASE task[d].newCode = NoCode
    BY <1>1, <2>1, Parts DEF RotationParts, CodeOK
  <2>2. CASE task[d].newCode # NoCode
    <3>1. code' = task[d].newCode /\ code'.gen = task[d].newGen
      BY <1>1, <2>2, Parts DEF RotationParts, LocalOK
    <3>2. ASSUME acct.gen = task[d].newGen
          PROVE  IsFor(acct.rc, task[d].newCode, task[d].newKey)
                 /\ task[d].newKey = acct.wrap.key
      <4>1. IsFor(acct.rc, task[d].newCode, task[d].newKey)
        BY <1>4, <2>2, <3>2, Parts DEF RotationParts, LocalOK
      <4>2. AcctPair \in KeysHeld
        BY Holders DEF HeldBy
      <4>3. AcctPair.gen = TaskPair(d).gen
        BY <3>2 DEF AcctPair, TaskPair
      <4>4. AcctPair.key = TaskPair(d).key
        BY <1>5, <4>2, <4>3, Parts DEF RotationParts, OneKeyPerGen
      <4> QED
        BY <4>1, <4>4 DEF AcctPair, TaskPair
    <3> QED
      BY <1>1, <1>4, <3>1, <3>2 DEF CodeOK
  <2> QED
    BY <2>1, <2>2
<1>9. LocalOK(d)' /\ ~Rotating(d)'
  <2>1. session'[d].gen <= acct'.gen
    BY <1>1, <1>3, <1>4 DEF TaskPair
  <2> QED
    BY <1>3, <2>1, NoTaskTyped DEF LocalOK, Rotating
<1>10. RotationInv'
  BY <1>1, <1>3, <1>5, <1>8, <1>9, LocalStep
<1> QED
  BY <1>1, <1>7, <1>10, ReadKept DEF Reads

(* What a step that changes no session leaves of who holds a key, when the *)
(* key of d stays.                                                         *)
LEMMA HoldersKept ==
    ASSUME TypeOK, RotationInv, NEW d \in Devices, OthersStay(d), session' = session,
           TaskPair(d)' = TaskPair(d), NEW h, h \in KeysHeld'
    PROVE  \/ h = AcctPair' \/ (InProgress' /\ h = PendingPair')
           \/ h = TaskPair(d) \/ h \in KeysHeld
<1>1. HeldBy'
  BY Holders, PTL
<1>2. ASSUME NEW e \in Devices, Rotating(e)', h = TaskPair(e)'
      PROVE  h = TaskPair(d) \/ h \in KeysHeld
  <2>1. CASE e = d
    BY <1>2, <2>1
  <2>2. CASE e # d
    <3>1. Rotating(e) /\ h = TaskPair(e)
      BY <1>2, <2>2 DEF OthersStay, Rotating, TaskPair
    <3> QED
      BY <3>1, Holders DEF HeldBy
  <2> QED
    BY <2>1, <2>2
<1>3. ASSUME NEW e \in Devices, ~KeepsRecovery, Unlocked(e)', h = session'[e]
      PROVE  h \in KeysHeld
  <2>1. Unlocked(e) /\ h = session[e]
    BY <1>3 DEF Unlocked
  <2> QED
    BY <1>3, <2>1, Holders DEF HeldBy
<1> QED
  BY <1>1, <1>2, <1>3 DEF HeldBy

(* POST rotate/begin: the generation is a new one, and nobody has its key. *)
LEMMA BeginStep ==
    ASSUME TypeOK, RotationInv, NEW d \in Devices, RotateBegin(d)
    PROVE  TypeOK' /\ RotationInv' /\ Reads
<1>1. CASE InProgress \/ task[d].newGen # acct.gen + 1
  <2>1. End(d) /\ UNCHANGED server /\ session' = session /\ faults' = faults
    BY <1>1 DEF RotateBegin, Raise
  <2> QED
    BY <2>1, EndsStep DEF TypeOK
<1>2. CASE ~InProgress /\ task[d].newGen = acct.gen + 1
  <2> DEFINE body == BeginBody(task[d])
  <2>1. /\ pc[d] = "begin" /\ pending' = body /\ Goto(d, "list")
        /\ UNCHANGED <<acct, blobs, code, session, task, faults>>
    BY <1>2 DEF RotateBegin
  <2>2. /\ body.gen = task[d].newGen
        /\ body.wrap = Wrap(task[d].newKey, task[d].pw, task[d].params)
        /\ body.rc = RcWrap(task[d].newKey, task[d].newCode, DefaultParams)
    BY DEF BeginBody, WrapWithSalt
  <2>3. /\ body.wrap \in Wraps /\ body.wrap.key = task[d].newKey
        /\ body.wrap.pw = task[d].pw /\ body.wrap.params = task[d].params
    BY <2>2, TaskTyped DEF Wrap, Wraps
  <2>4. /\ body.rc \in RcWraps
        /\ body.rc # NoWrap => body.rc.params = DefaultParams /\ body.rc.key = task[d].newKey
        /\ task[d].newCode # NoCode => IsFor(body.rc, task[d].newCode, task[d].newKey)
    <3>1. CASE task[d].newCode = NoCode
      BY <2>2, <3>1 DEF RcWrap, RcWraps
    <3>2. CASE task[d].newCode # NoCode
      <4> DEFINE w == [key |-> task[d].newKey, code |-> task[d].newCode,
                       params |-> DefaultParams]
      <4>1. body.rc = w
        BY <2>2, <3>2 DEF RcWrap
      <4>2. task[d].newCode \in Keys /\ task[d].newKey \in Keys /\ DefaultParams \in Params
        BY <3>2, TaskTyped, Consts DEF Codes
      <4>3. w \in RcWraps /\ w.key # NoCode
        BY <4>2, Consts DEF RcWraps
      <4>4. NoWrap.key = NoCode
        BY DEF NoWrap
      <4> QED
        BY <4>1, <4>3, <4>4 DEF IsFor
    <3> QED
      BY <3>1, <3>2
  <2>5. /\ body \in [gen : Gens, wrap : Wraps, rc : RcWraps] /\ body # NoRotation
    <3>1. body = [gen |-> body.gen, wrap |-> body.wrap, rc |-> body.rc]
      BY DEF BeginBody
    <3>2. body.gen \in Gens /\ body.gen # 0
      BY <2>2, TaskTyped, Consts
    <3> QED
      BY <2>3, <2>4, <3>1, <3>2, Consts
  <2> HIDE DEF body
  <2>6. /\ OthersStay(d) /\ pc'[d] = "list" /\ task'[d] = task[d]
        /\ session'[d] = session[d] /\ task'[d].oldKey # NoKey
    <3>1. OthersStay(d) /\ pc'[d] = "list"
      BY <2>1 DEF TypeOK, Goto, OthersStay, Sessions, PairsOf, PCs
    <3> QED
      BY <2>1, <3>1, TaskTyped
  <2>7. TypeOK'
    BY <2>1, <2>5, <2>6, TypeKept DEF TypeOK, Accts, Pendings
  <2>8. InProgress' /\ pending' = body /\ body.gen = acct.gen + 1 /\ acct.gen \in Nat
    BY <1>2, <2>1, <2>2, <2>5, ServerTyped, Consts DEF InProgress
  <2>9. NextGen'
    BY <2>1, <2>8 DEF NextGen
  <2>10. StampsTrue'
    <3> SUFFICES ASSUME NEW r \in 1..Len(blobs)
                 PROVE  blobs[r].gen <= acct.gen /\ blobs[r].gen # body.gen
      BY <2>1, <2>8 DEF StampsTrue
    <3>1. blobs[r].gen <= acct.gen
      BY <1>2, Parts DEF RotationParts, StampsTrue
    <3>2. blobs[r].gen \in Nat
      BY ServerTyped, Consts
    <3> QED
      BY <2>8, <3>1, <3>2
  <2>11. OneKeyPerGen'
    <3>1. ASSUME NEW h \in KeysHeld PROVE h.gen <= acct.gen
      <4>1. acct.gen <= acct.gen
        BY <2>8
      <4>2. \/ h = AcctPair \/ (\E e \in Devices : Rotating(e) /\ h = TaskPair(e))
            \/ \E e \in Devices : Unlocked(e) /\ h = session[e]
        BY <1>2, Holders DEF HeldBy
      <4> QED
        BY <1>2, <4>1, <4>2, Parts DEF RotationParts, LocalOK, AcctPair, TaskPair
    <3>2. ASSUME NEW h \in KeysHeld' PROVE h = TaskPair(d) \/ h \in KeysHeld
      <4>1. TaskPair(d)' = TaskPair(d) /\ AcctPair' = AcctPair
        BY <2>1 DEF TaskPair, AcctPair
      <4>2. PendingPair' = TaskPair(d)
        BY <2>2, <2>3, <2>8 DEF TaskPair, PendingPair
      <4>3. AcctPair \in KeysHeld
        BY Holders DEF HeldBy
      <4> QED
        BY <2>1, <2>6, <4>1, <4>2, <4>3, HoldersKept
    <3>3. TaskPair(d).gen = acct.gen + 1 /\ ~(acct.gen + 1 <= acct.gen)
      BY <1>2, <2>8 DEF TaskPair
    <3>4. \A h \in KeysHeld : h.gen # TaskPair(d).gen
      BY <3>1, <3>3
    <3> QED
      BY <3>2, <3>4, Parts DEF RotationParts, OneKeyPerGen
  <2>12. WrapsOK'
    <3>1. LocalOK(d) /\ pc[d] # "idle" /\ WrapsOK
      BY <2>1, Parts DEF RotationParts
    <3> QED
      BY <2>1, <2>3, <2>4, <2>8, <3>1 DEF WrapsOK, LocalOK
  <2>13. \A e \in Devices : LocalOK(e)'
    <3>1. acct.gen # body.gen /\ body.gen = task[d].newGen
      BY <2>2, <2>8
    <3>2. LocalOK(d)'
      <4>1. LocalOK(d) /\ pc[d] = "begin"
        BY <2>1, Parts DEF RotationParts
      <4> QED
        BY <2>1, <2>4, <2>6, <2>8, <3>1, <4>1 DEF LocalOK, Rotating, Unlocked
    <3>3. ASSUME NEW e \in Devices \ {d} PROVE LocalOK(e)'
      <4>1. LocalOK(e) /\ pc'[e] = pc[e] /\ task'[e] = task[e] /\ session'[e] = session[e]
        BY <2>6, Parts DEF RotationParts, OthersStay
      <4>2. Rotating(e) => task[e].newGen <= acct.gen
        BY <1>2, <4>1 DEF LocalOK
      <4>3. task[e].newGen <= acct.gen => task[e].newGen # body.gen
        BY <2>8, TaskTyped, Consts
      <4> QED
        BY <2>1, <2>8, <4>1, <4>2, <4>3 DEF LocalOK, Rotating, Unlocked
    <3> QED
      BY <3>2, <3>3
  <2>14. RotationInv'
    <3>1. CodeOK'
      BY <2>1, Parts DEF RotationParts, CodeOK
    <3>2. RotationParts'
      BY <2>9, <2>10, <2>11, <2>12, <2>13, <3>1 DEF RotationParts
    <3> QED
      BY <3>2, Parts, PTL
  <2>15. Reads
    BY <1>2, <2>1 DEF Reads, Readable, Decrypts
  <2> QED
    BY <2>7, <2>14, <2>15
<1> QED
  BY <1>1, <1>2

(* POST rotate/complete: every blob is under the key that comes into force.*)
LEMMA CompleteStep ==
    ASSUME TypeOK, RotationInv, NEW d \in Devices, RotateComplete(d)
    PROVE  TypeOK' /\ RotationInv' /\ Reads
<1>1. CASE InProgress /\ Stale = {}
  <2>1. /\ pc[d] = "complete" /\ pending' = NoRotation /\ Goto(d, "cutover")
        /\ acct' = [acct EXCEPT !.gen = pending.gen, !.wrap = pending.wrap,
                !.rc = IF KeepsRecovery /\ pending.rc = NoWrap THEN @ ELSE pending.rc]
        /\ UNCHANGED <<blobs, code, session, task, faults>>
    BY <1>1 DEF RotateComplete
  <2>2. /\ acct' \in Accts /\ acct'.gen = pending.gen /\ acct'.wrap = pending.wrap
        /\ acct'.params = acct.params
        /\ acct'.rc = IF KeepsRecovery /\ pending.rc = NoWrap THEN acct.rc ELSE pending.rc
    BY <1>1, <2>1, ServerTyped DEF TypeOK, Accts
  <2>3. /\ OthersStay(d) /\ pc'[d] = "cutover" /\ task'[d] = task[d]
        /\ session'[d] = session[d] /\ task'[d].oldKey # NoKey
    <3>1. OthersStay(d) /\ pc'[d] = "cutover"
      BY <2>1 DEF TypeOK, Goto, OthersStay, Sessions, PairsOf, PCs
    <3> QED
      BY <2>1, <3>1, TaskTyped
  <2>4. TypeOK'
    BY <2>1, <2>2, <2>3, TypeKept DEF TypeOK, Pendings
  <2>5. ~InProgress' /\ pending.gen = acct.gen + 1 /\ acct.gen \in Nat
    BY <1>1, <2>1, ServerTyped, Consts, Parts DEF InProgress, RotationParts, NextGen
  <2>6. \A n \in Nat : n <= acct.gen => n <= pending.gen /\ n # pending.gen
    BY <2>5
  <2>7. \A r \in 1..Len(blobs) : blobs[r].gen = pending.gen /\ blobs[r].key = pending.wrap.key
    BY <1>1, Parts DEF Stale, RotationParts, StampsTrue
  <2>8. OneKeyPerGen'
    <3>1. TaskPair(d)' = TaskPair(d) /\ AcctPair' = PendingPair
      BY <2>1, <2>2 DEF TaskPair, AcctPair, PendingPair
    <3>2. PendingPair \in KeysHeld
      BY <1>1, Holders DEF HeldBy
    <3>3. TaskPair(d) \in KeysHeld
      BY <2>1, Holders DEF HeldBy, Rotating
    <3>4. \A h \in KeysHeld' : h \in KeysHeld
      BY <2>1, <2>3, <2>5, <3>1, <3>2, <3>3, HoldersKept
    <3> QED
      BY <3>4, Parts DEF RotationParts, OneKeyPerGen
  <2>9. StampsTrue' /\ NextGen'
    <3>1. pending.gen <= pending.gen
      BY <2>5
    <3> QED
      BY <2>1, <2>2, <2>5, <2>7, <3>1 DEF StampsTrue, NextGen
  <2>10. CodeOK'
    <3>1. code.gen <= acct.gen /\ code.gen \in Nat
      BY Parts, Consts DEF RotationParts, CodeOK, TypeOK, Keys
    <3> QED
      BY <2>1, <2>2, <2>6, <3>1 DEF CodeOK
  <2>11. WrapsOK'
    <3>1. acct'.gen > 1
      BY <1>1, <2>2, <2>5, ServerTyped, Consts
    <3> QED
      BY <1>1, <2>2, <2>5, <3>1, Parts DEF RotationParts, WrapsOK
  <2>12. ASSUME NEW e \in Devices PROVE LocalOK(e)'
    <3>1. /\ LocalOK(e) /\ task'[e] = task[e] /\ session'[e] = session[e]
          /\ Rotating(e)' => Rotating(e)
          /\ pc'[e] # "idle" => pc[e] # "idle"
          /\ pc'[e] = "status" => pc[e] = "status"
      BY <2>1, <2>3, Parts DEF RotationParts, OthersStay, Rotating
    <3>2. Rotating(e) => task[e].newGen <= pending.gen
      <4>0. task[e].newGen \in Gens /\ pending.gen \in Gens
        BY <1>1, ServerTyped, TaskTyped
      <4>n. task[e].newGen \in Nat /\ pending.gen \in Nat
        BY <4>0, Consts
      <4>1. task[e].newGen \in Nat /\ pending.gen <= pending.gen
        BY <4>n
      <4>2. Rotating(e) => task[e].newGen <= acct.gen \/ task[e].newGen = pending.gen
        BY <3>1 DEF LocalOK
      <4> QED
        BY <2>6, <4>1, <4>2
    <3>3. Unlocked(e) => session[e].gen <= pending.gen
      BY <2>6, <3>1, TaskTyped, Consts DEF LocalOK
    <3>4. Rotating(e) /\ task[e].newCode # NoCode /\ pending.gen = task[e].newGen =>
            IsFor(acct'.rc, task[e].newCode, task[e].newKey)
      BY <1>1, <2>2, <3>1 DEF LocalOK, IsFor
    <3> QED
      BY <2>2, <2>5, <3>1, <3>2, <3>3, <3>4 DEF LocalOK, Unlocked
  <2>13. RotationInv'
    <3>1. RotationParts'
      BY <2>8, <2>9, <2>10, <2>11, <2>12 DEF RotationParts
    <3> QED
      BY <3>1, Parts, PTL
  <2>14. Reads
    BY <2>1, <2>2, <2>7 DEF Reads, Readable, Decrypts
  <2> QED
    BY <2>4, <2>13, <2>14
<1>2. CASE ~(InProgress /\ Stale = {})
  <2>1. End(d) /\ UNCHANGED server /\ session' = session /\ faults' = faults
    BY <1>2 DEF RotateComplete, Raise
  <2> QED
    BY <2>1, EndsStep DEF TypeOK
<1> QED
  BY <1>1, <1>2

-----------------------------------------------------------------------------
(* The initial state: the wrap, the code and the key of init_vault or join.*)
LEMMA InitInv == Init => TypeOK /\ RotationInv
<1> SUFFICES ASSUME Init PROVE TypeOK /\ RotationInv
  OBVIOUS
<1>a. PICK a \in Params :
        acct = [gen |-> 1, params |-> a, wrap |-> Wrap(FirstKey, Password, a),
                rc |-> RcWrap(FirstKey, FirstKey, a)]
  BY DEF Init
<1> DEFINE w == Wrap(FirstKey, Password, a)
           c == [key |-> FirstKey, code |-> FirstKey, params |-> a]
<1>1. /\ w \in Wraps /\ w.key = FirstKey /\ w.pw = Password /\ w.params = a
  BY Consts DEF Wrap, Wraps
<1>2. /\ c \in RcWraps /\ c.key = FirstKey /\ c.code = FirstKey /\ c.params = a
      /\ c # NoWrap
  <2>1. FirstKey # NoCode
    BY Consts
  <2>2. c.key # NoWrap.key
    BY <2>1 DEF NoWrap
  <2> QED
    BY <2>2, Consts DEF RcWraps
<1>3. acct = [gen |-> 1, params |-> a, wrap |-> w, rc |-> c]
  <2>1. FirstKey # NoCode
    BY Consts
  <2> QED
    BY <1>a, <2>1 DEF RcWrap
<1> HIDE DEF w, c
<1>4. /\ acct \in Accts /\ acct.gen = 1 /\ acct.params = a
      /\ acct.wrap = w /\ acct.rc = c
  BY <1>1, <1>2, <1>3, Consts DEF Accts
<1>5. /\ ~InProgress /\ blobs = <<>> /\ Len(blobs) = 0 /\ code = FirstKey
      /\ \A d \in Devices : ~Unlocked(d) /\ pc[d] = "idle" /\ task[d] = NoTask /\ ~Rotating(d)
  BY DEF Init, InProgress, Unlocked, Rotating
<1>6. TypeOK
  <2>1. pending \in Pendings /\ blobs \in Seq(Blob) /\ faults \in 0..MaxFaults
    BY Consts DEF Init, Pendings
  <2>2. pc \in [Devices -> PCs] /\ task \in [Devices -> Task] /\ session \in [Devices -> Sessions]
    BY NoTaskTyped DEF Init, PCs, Sessions
  <2> QED
    BY <1>4, <1>5, <2>1, <2>2, Consts DEF TypeOK, Accts, Pendings, Sessions, PairsOf
<1>7. OneKeyPerGen
  <2>1. \A h \in KeysHeld : h = AcctPair
    BY <1>5, Holders DEF HeldBy
  <2> QED
    BY <2>1 DEF OneKeyPerGen
<1>8. NextGen /\ StampsTrue
  BY <1>5 DEF NextGen, StampsTrue
<1>9. CodeOK /\ WrapsOK
  BY <1>1, <1>2, <1>4, <1>5, Consts DEF CodeOK, WrapsOK, IsFor
<1>10. \A d \in Devices : LocalOK(d)
  BY <1>5, NoTaskTyped DEF LocalOK
<1> QED
  BY <1>6, <1>7, <1>8, <1>9, <1>10, Parts DEF RotationParts

(* Every step keeps the types and the invariant, and every revision that   *)
(* could be read can still be.                                             *)
LEMMA InvStep ==
    ASSUME TypeOK, RotationInv, [Next]_vars
    PROVE  TypeOK' /\ RotationInv' /\ Reads
<1>1. ASSUME NEW d \in Devices,
             Lock(d) \/ UnlockWithRecovery(d) \/ \E p \in Passwords : Unlock(d, p)
      PROVE  TypeOK' /\ RotationInv' /\ Reads
  BY <1>1, SessionsStep
<1>2. ASSUME NEW d \in Devices, Push(d) PROVE TypeOK' /\ RotationInv' /\ Reads
  BY <1>2, PushStep
<1>3. ASSUME NEW d \in Devices, NEW p \in Passwords, RotateStart(d, p)
      PROVE  TypeOK' /\ RotationInv' /\ Reads
  BY <1>3, RotateStartStep
<1>4. ASSUME NEW d \in Devices, Working(d) PROVE TypeOK' /\ RotationInv' /\ Reads
  BY <1>4, ResumeStep, FreshStep, BeginStep, ListStep, PutStep, CompleteStep, CutoverStep
  DEF Working
<1>5. ASSUME NEW d \in Devices, Abort(d) \/ Crash(d)
      PROVE  TypeOK' /\ RotationInv' /\ Reads
  <2>1. /\ End(d) /\ UNCHANGED server /\ faults < MaxFaults /\ faults' = faults + 1
        /\ session' = session \/ session' = [session EXCEPT ![d] = NoSession]
    BY <1>5 DEF Abort, Crash
  <2>2. faults' \in 0..MaxFaults
    BY <2>1, Consts DEF TypeOK
  <2> QED
    BY <2>1, <2>2, EndsStep
<1>6. CASE UNCHANGED vars
  <2>1. TypeOK'
    BY <1>6 DEF vars, TypeOK
  <2>2. RotationInv'
    <3>1. KeysHeld' = KeysHeld
      BY <1>6 DEF vars, KeysHeld, Rotators, Unlocked
    <3> QED
      BY <1>6, <3>1 DEF vars, RotationInv, NextGen, StampsTrue, OneKeyPerGen, NobodyAhead,
          WrapsMade, CodesSent, Rotators, Unlocked, InProgress
  <2>3. Reads
    BY <1>6, ReadKept DEF vars, Reads
  <2> QED
    BY <2>1, <2>2, <2>3
<1> QED
  BY <1>1, <1>2, <1>3, <1>4, <1>5, <1>6 DEF Next

(* Types and invariant at once. *)
LEMMA Reachable == Spec => [](TypeOK /\ RotationInv)
<1>1. Init => TypeOK /\ RotationInv
  BY InitInv
<1>2. TypeOK /\ RotationInv /\ [Next]_vars => (TypeOK /\ RotationInv)'
  BY InvStep
<1> QED
  BY <1>1, <1>2, PTL DEF Spec

(* A method in progress has read a key from its session, and keeps it when *)
(* the session is locked meanwhile.                                        *)
THEOREM TypeCorrect == Spec => []TypeOK
  BY Reachable, PTL

(* The inductive invariant: one key for each generation, whoever begins,   *)
(* resumes, re-encrypts or completes, and stamps that tell the key.        *)
THEOREM Invariance == Spec => []RotationInv
  BY Reachable, PTL

(* Whoever re-encrypts for the rotation in progress does so under the key  *)
(* that its wrap holds.                                                    *)
THEOREM SharedKey == Spec => []RotatorsShareKey
<1>1. ASSUME RotationInv PROVE RotatorsShareKey
  <2> SUFFICES ASSUME NEW d \in Devices, pc[d] \in {"list", "fetch", "put", "complete"},
                      InProgress, task[d].newGen = pending.gen
               PROVE  task[d].newKey = pending.wrap.key
    BY DEF RotatorsShareKey
  <2>1. PendingPair \in KeysHeld /\ TaskPair(d) \in KeysHeld
    BY Holders DEF HeldBy, Rotating
  <2>2. PendingPair.gen = TaskPair(d).gen
    BY DEF PendingPair, TaskPair
  <2>3. PendingPair.key = TaskPair(d).key
    BY <1>1, <2>1, <2>2 DEF RotationInv, OneKeyPerGen
  <2> QED
    BY <2>3 DEF PendingPair, TaskPair
<1>2. RotationInv => RotatorsShareKey
  BY <1>1
<1> QED
  BY <1>2, Invariance, PTL

(* No step of rotate, push or unlock makes a revision unreadable that      *)
(* could be read.                                                          *)
THEOREM NothingLost == Spec => ReadableStaysReadable
<1>1. TypeOK /\ RotationInv /\ [Next]_vars =>
        [\A r \in 1..Len(blobs) : Readable(r) => Readable(r)']_vars
  BY InvStep DEF Reads
<1> QED
  BY <1>1, Reachable, PTL DEF Spec, ReadableStaysReadable

(* Sessions of one generation hold one key, the account's if it is the     *)
(* generation in force, on a server that drops the recovery wrap of a      *)
(* replaced key.                                                           *)
THEOREM SessionKeys ==
    ASSUME ~KeepsRecovery
    PROVE  Spec => []SessionKeyMatchesGen
<1>1. ASSUME RotationInv PROVE SessionKeyMatchesGen
  <2>1. ASSUME NEW d \in Devices, Unlocked(d) PROVE session[d] \in KeysHeld
    BY <1>1, <2>1, Holders DEF HeldBy
  <2>2. AcctPair \in KeysHeld
    BY Holders DEF HeldBy
  <2>3. AcctPair.gen = acct.gen /\ AcctPair.key = acct.wrap.key
    BY DEF AcctPair
  <2> QED
    BY <1>1, <2>1, <2>2, <2>3 DEF RotationInv, OneKeyPerGen, SessionKeyMatchesGen
<1>2. RotationInv => SessionKeyMatchesGen
  BY <1>1
<1> QED
  BY <1>2, Invariance, PTL

(* A code that a method returned for the generation in force is that of    *)
(* the recovery wrap, which holds what the master password opens; and it   *)
(* opens the wrap, unless a rotation has made it for an account that has   *)
(* not the default Argon2 parameters.                                      *)
THEOREM CodeOpens == Spec => []RecoveryCodeOpens
<1>1. RotationInv => RecoveryCodeOpens
  BY Consts DEF RotationInv, WrapsMade, CodesSent, IsFor, RecoveryCodeOpens, RcOpens
<1> QED
  BY <1>1, Invariance, PTL

(* Users who type the master password of the account into rotate can open  *)
(* the wrap in force and the pending one, whatever the parameters.         *)
THEOREM PasswordOpens ==
    ASSUME Careful
    PROVE  Spec => []MasterPasswordOpens
<1>1. RotationInv => MasterPasswordOpens
  BY DEF RotationInv, WrapsMade, MasterPasswordOpens, Opens
<1> QED
  BY <1>1, Invariance, PTL

=============================================================================
