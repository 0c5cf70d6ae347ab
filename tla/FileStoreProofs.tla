---------------------------- MODULE FileStoreProofs ----------------------------
(* The safety of FileStore for every set of processes and every bound.     *)
EXTENDS FileStore, TLAPS

Stored == Creds \cup {NoCreds, CICreds}
Stages == {"idle", "merge", "refresh", "apply", "open", "write"}

(* What is known of the bounds, of credentials and of their lengths: those *)
(* that name a device hold a pair of it, none of the others does.          *)
LEMMA Kinds ==
    /\ MaxDevices \in Nat /\ MaxTokens \in Nat /\ MaxFaults \in Nat /\ MaxTokens > 0
    /\ {NoCreds, CICreds} \subseteq Stored
    /\ NoCreds.dev \notin Devices /\ CICreds.dev \notin Devices
    /\ \A c \in Stored : c.dev \in Devices <=> c \in Creds
    /\ \A c \in Stored : Size(c) \in 0..2
<1>1. MaxDevices \in Nat /\ MaxTokens \in Nat /\ MaxFaults \in Nat /\ MaxTokens > 0
  BY FileStoreAssumption
<1>2. None \notin Devices /\ CI \notin Devices /\ None # CI
  BY <1>1 DEF None, CI, Devices
<1>3. NoCreds.dev \notin Devices /\ CICreds.dev \notin Devices
  BY <1>2 DEF NoCreds, CICreds
<1>4. \A c \in Creds : c.dev \in Devices
  BY DEF Creds
<1>5. \A c \in Stored : Size(c) \in 0..2
  BY DEF Size
<1> QED
  BY <1>1, <1>3, <1>4, <1>5 DEF Stored

(* What a step of process p leaves to the others.                          *)
OthersStay(p) ==
    /\ pc' \in [Processes -> Stages] /\ mem' \in [Processes -> Stored]
    /\ \A q \in Processes \ {p} : pc'[q] = pc[q] /\ mem'[q] = mem[q]

(* A process that goes to a stage with credentials.                        *)
LEMMA StepOf ==
    ASSUME TypeOK, NEW p \in Processes, NEW at \in Stages, NEW c \in Stored,
           Goto(p, at), Hold(p, c)
    PROVE  OthersStay(p) /\ pc'[p] = at /\ mem'[p] = c
  BY DEF TypeOK, Goto, Hold, OthersStay, Stages, Stored

(* A process that goes to a stage with the credentials it had.             *)
LEMMA StageOf ==
    ASSUME TypeOK, NEW p \in Processes, NEW at \in Stages, Goto(p, at), mem' = mem
    PROVE  OthersStay(p) /\ pc'[p] = at /\ mem'[p] = mem[p]
  BY DEF TypeOK, Goto, OthersStay, Stages, Stored

(* A method that ends. *)
LEMMA EndOf ==
    ASSUME TypeOK, NEW p \in Processes, Ends(p)
    PROVE  /\ OthersStay(p) /\ pc'[p] = "idle" /\ mem'[p] = NoCreds
           /\ lost \subseteq lost' /\ lost' \subseteq Devices
           /\ mem[p].dev \in Devices => mem[p].dev \in lost'
           /\ file' = file /\ issued' = issued
<1>1. OthersStay(p) /\ pc'[p] = "idle" /\ mem'[p] = NoCreds
  BY Kinds, StepOf DEF Ends, Stages
<1> QED
  BY <1>1 DEF Ends, TypeOK

-----------------------------------------------------------------------------
(* The invariant but for the saves, which it does not depend on.           *)
PairsInv ==
    /\ HoldsPair /\ OneBearer /\ BearersCurrent /\ ReadersBehind
    /\ IssuedBefore(file.creds) /\ StoredPairInForce

(* A step that issues no pair and makes p the bearer of none: the pairs of *)
(* the bearers stay in force, and what was issued before stays so.         *)
LEMMA NothingIssued ==
    ASSUME TypeOK, OneBearer, BearersCurrent, NEW p \in Processes, OthersStay(p),
           issued' = issued,
           \A d \in Devices : Bears(p, d)' =>
               Bears(p, d) /\ mem'[p] = mem[p] /\ pc'[p] # "merge"
    PROVE  /\ OneBearer' /\ BearersCurrent'
           /\ \A c \in Stored : IssuedBefore(c) => IssuedBefore(c)'
<1>1. \A d \in Devices : \A q \in Processes : Bears(q, d)' =>
        Bears(q, d) /\ mem'[q] = mem[q] /\ (pc'[q] = "merge" => pc[q] = "merge")
  BY DEF OthersStay, Bears
<1>2. OneBearer'
  BY <1>1 DEF OneBearer
<1>3. BearersCurrent'
  BY <1>1 DEF BearersCurrent
<1>4. \A c \in Stored : IssuedBefore(c) => IssuedBefore(c)'
  BY <1>1 DEF IssuedBefore
<1> QED
  BY <1>2, <1>3, <1>4

(* A step that issues a pair of a device that has no bearer, to p.         *)
LEMMA PairIssued ==
    ASSUME TypeOK, OneBearer, BearersCurrent, NEW p \in Processes, OthersStay(p),
           NEW d \in Devices, \A q \in Processes : ~Bears(q, d),
           issued' = [issued EXCEPT ![d] = @ + 1],
           mem'[p].dev = d, mem'[p].id = d, mem'[p].num = issued[d] + 1,
           pc'[p] \in {"merge", "apply"}, pc'[p] = "merge" => issued[d] = 0
    PROVE  /\ OneBearer' /\ BearersCurrent'
           /\ \A c \in Stored : IssuedBefore(c) => IssuedBefore(c)'
<1>1. /\ issued'[d] = issued[d] + 1 /\ issued[d] \in Nat
      /\ \A e \in Devices \ {d} : issued'[e] = issued[e]
  BY Kinds DEF TypeOK
<1>2. \A q \in Processes : Bears(q, d)' <=> q = p
  BY DEF OthersStay, Bears
<1>3. \A e \in Devices \ {d} : \A q \in Processes : Bears(q, e)' =>
        Bears(q, e) /\ mem'[q] = mem[q] /\ pc'[q] = pc[q]
  BY DEF OthersStay, Bears
<1>4. OneBearer'
  BY <1>2, <1>3 DEF OneBearer
<1>5. BearersCurrent'
  BY <1>1, <1>2, <1>3 DEF BearersCurrent
<1>6. ASSUME NEW c \in Stored, IssuedBefore(c) PROVE IssuedBefore(c)'
  <2>1. CASE c.dev = d
    <3>1. c.num \in Nat
      BY <2>1, Kinds DEF Creds
    <3> QED
      BY <1>1, <1>6, <2>1, <3>1 DEF IssuedBefore
  <2>2. CASE c.dev # d
    BY <1>1, <1>3, <1>6, <2>2 DEF IssuedBefore
  <2> QED
    BY <2>1, <2>2
<1> QED
  BY <1>4, <1>5, <1>6

(* The pair of a bearer is in no file and in no other process.             *)
LEMMA BearerAhead ==
    ASSUME TypeOK, PairsInv, NEW p \in Processes, NEW d \in Devices, Bears(p, d)
    PROVE  /\ mem[p] \in Creds /\ mem[p].num = issued[d] /\ issued[d] >= 1
           /\ IssuedBefore(mem[p]) => FALSE
<1>1. mem[p] \in Creds
  BY Kinds DEF Bears, TypeOK, Stored
<1> QED
  BY <1>1 DEF PairsInv, BearersCurrent, Bears, Creds, IssuedBefore

-----------------------------------------------------------------------------
(* The initial state. *)
LEMMA InitInv == Init => TypeOK /\ FileStoreInv
<1> SUFFICES ASSUME Init PROVE TypeOK /\ FileStoreInv
  OBVIOUS
<1>1. TypeOK
  <2>1. file \in [state : {"absent", "empty", "json", "garbled"}, size : 0..2,
                  creds : Creds \cup {NoCreds, CICreds}]
    BY DEF Init
  <2>2. issued \in [Devices -> 0..MaxTokens] /\ faults \in 0..MaxFaults
    BY Kinds DEF Init
  <2> QED
    BY <2>1, <2>2 DEF Init, TypeOK
<1>2. SavesTakeTurns
  BY DEF Init, SavesTakeTurns, Writing, Parses
<1>3. HoldsPair /\ OneBearer /\ BearersCurrent /\ ReadersBehind
  BY DEF Init, HoldsPair, OneBearer, BearersCurrent, ReadersBehind, Bears
<1>4. IssuedBefore(file.creds) /\ StoredPairInForce
  BY Kinds DEF Init, IssuedBefore, StoredPairInForce
<1> QED
  BY <1>1, <1>2, <1>3, <1>4 DEF FileStoreInv

(* A step that leaves the file to whom it belongs keeps the turns.         *)
LEMMA TurnsKept ==
    ASSUME SavesTakeTurns, NEW p \in Processes, OthersStay(p),
           file' = file, torn' = torn, pc[p] # "write", pc'[p] # "write"
    PROVE  SavesTakeTurns'
<1>1. Writing' = Writing
  BY DEF Writing, OthersStay
<1> QED
  BY <1>1 DEF SavesTakeTurns, Parses

(* A step of p that issues no pair keeps what is said of the processes.    *)
LEMMA ProcessesKept ==
    ASSUME TypeOK, PairsInv, NEW p \in Processes, OthersStay(p), issued' = issued,
           \A d \in Devices : Bears(p, d)' =>
               Bears(p, d) /\ mem'[p] = mem[p] /\ pc'[p] # "merge",
           pc'[p] \in {"merge", "apply"} => mem'[p] \in Creds,
           pc'[p] = "refresh" =>
               mem'[p] \in Creds /\ mem'[p].num < MaxTokens /\ IssuedBefore(mem'[p])
    PROVE  /\ HoldsPair' /\ OneBearer' /\ BearersCurrent' /\ ReadersBehind'
           /\ \A c \in Stored : IssuedBefore(c) => IssuedBefore(c)'
<1>1. /\ OneBearer' /\ BearersCurrent'
      /\ \A c \in Stored : IssuedBefore(c) => IssuedBefore(c)'
  BY NothingIssued DEF PairsInv
<1>2. HoldsPair'
  BY DEF PairsInv, HoldsPair, OthersStay
<1>3. ReadersBehind'
  <2> SUFFICES ASSUME NEW q \in Processes, pc'[q] = "refresh"
               PROVE  mem'[q] \in Creds /\ mem'[q].num < MaxTokens /\ IssuedBefore(mem[q])'
    BY DEF ReadersBehind
  <2>1. mem'[q] \in Creds /\ mem'[q].num < MaxTokens /\ IssuedBefore(mem'[q])
    BY DEF PairsInv, ReadersBehind, OthersStay
  <2>2. PICK c \in Stored : c = mem'[q] /\ IssuedBefore(c)
    BY <2>1 DEF Stored
  <2>3. IssuedBefore(c)'
    BY <1>1, <2>2
  <2> QED
    BY <2>1, <2>2, <2>3 DEF IssuedBefore
<1> QED
  BY <1>1, <1>2, <1>3

(* The file stays as it is, and so does who brings a newer pair to it.     *)
LEMMA FileKept ==
    ASSUME PairsInv, NEW p \in Processes, OthersStay(p), TypeOK,
           issued' = issued, file' = file, lost \subseteq lost',
           \A c \in Stored : IssuedBefore(c) => IssuedBefore(c)',
           \A d \in Devices : Bears(p, d) /\ pc[p] # "merge" =>
               d \in lost' \/ (mem'[p] = mem[p] /\ pc'[p] \in {"apply", "open", "write"})
    PROVE  IssuedBefore(file.creds)' /\ StoredPairInForce'
<1>1. IssuedBefore(file.creds)'
  BY DEF PairsInv, TypeOK, Stored, IssuedBefore
<1>2. StoredPairInForce'
  <2> SUFFICES ASSUME file.creds.dev \in Devices,
                      file.creds.num # issued[file.creds.dev],
                      file.creds.dev \notin lost'
               PROVE  \E q \in Processes : pc'[q] \in {"apply", "open", "write"}
                         /\ mem'[q].dev = file.creds.dev
                         /\ mem'[q].num = issued[file.creds.dev]
    BY DEF StoredPairInForce
  <2>1. PICK q \in Processes : pc[q] \in {"apply", "open", "write"}
            /\ mem[q].dev = file.creds.dev /\ mem[q].num = issued[file.creds.dev]
    BY DEF PairsInv, StoredPairInForce
  <2>2. CASE q = p
    BY <2>1, <2>2 DEF Bears
  <2>3. CASE q # p
    BY <2>1, <2>3 DEF OthersStay
  <2> QED
    BY <2>2, <2>3
<1> QED
  BY <1>1, <1>2

(* A step that issues a pair to p leaves the file with an older one.       *)
LEMMA IssueKept ==
    ASSUME TypeOK, PairsInv, NEW p \in Processes, OthersStay(p),
           NEW d \in Devices, \A q \in Processes : ~Bears(q, d),
           issued' = [issued EXCEPT ![d] = @ + 1],
           mem'[p] \in Creds,
           mem'[p].dev = d, mem'[p].id = d, mem'[p].num = issued[d] + 1,
           pc'[p] \in {"merge", "apply"}, pc'[p] = "merge" => issued[d] = 0,
           pc[p] \in {"idle", "refresh"},
           file' = file, lost' = lost
    PROVE  PairsInv'
<1>1. /\ OneBearer' /\ BearersCurrent'
      /\ \A c \in Stored : IssuedBefore(c) => IssuedBefore(c)'
  BY PairIssued DEF PairsInv
<1>2. HoldsPair'
  BY DEF PairsInv, HoldsPair, OthersStay
<1>3. ReadersBehind'
  <2> SUFFICES ASSUME NEW q \in Processes, pc'[q] = "refresh"
               PROVE  mem'[q] \in Creds /\ mem'[q].num < MaxTokens /\ IssuedBefore(mem[q])'
    BY DEF ReadersBehind
  <2>1. mem'[q] = mem[q] /\ mem[q] \in Creds /\ mem[q].num < MaxTokens /\ IssuedBefore(mem[q])
    BY DEF PairsInv, ReadersBehind, OthersStay
  <2>2. PICK c \in Stored : c = mem[q] /\ IssuedBefore(c)
    BY <2>1 DEF Stored
  <2>3. IssuedBefore(c)'
    BY <1>1, <2>2
  <2> QED
    BY <2>1, <2>2, <2>3 DEF IssuedBefore
<1>4. IssuedBefore(file.creds)'
  BY <1>1 DEF PairsInv, TypeOK, Stored, IssuedBefore
<1>5. StoredPairInForce'
  <2> SUFFICES ASSUME file.creds.dev \in Devices,
                      file.creds.num # issued'[file.creds.dev],
                      file.creds.dev \notin lost
               PROVE  \E q \in Processes : pc'[q] \in {"apply", "open", "write"}
                         /\ mem'[q].dev = file.creds.dev
                         /\ mem'[q].num = issued'[file.creds.dev]
    BY DEF StoredPairInForce
  <2>1. CASE file.creds.dev = d
    <3>1. file.creds \in Creds /\ IssuedBefore(file.creds)
      BY Kinds DEF TypeOK, Stored, PairsInv
    <3>2. issued[d] >= 1 /\ issued'[d] = issued[d] + 1
      BY <2>1, <3>1, Kinds DEF IssuedBefore, Creds, TypeOK
    <3>3. pc'[p] = "apply"
      BY <3>2
    <3> QED
      BY <2>1, <3>2, <3>3
  <2>2. CASE file.creds.dev # d
    <3>1. issued'[file.creds.dev] = issued[file.creds.dev]
      BY <2>2 DEF TypeOK
    <3>2. PICK q \in Processes : pc[q] \in {"apply", "open", "write"}
              /\ mem[q].dev = file.creds.dev /\ mem[q].num = issued[file.creds.dev]
      BY <3>1 DEF PairsInv, StoredPairInForce
    <3> QED
      BY <3>1, <3>2 DEF OthersStay
  <2> QED
    BY <2>1, <2>2
<1> QED
  BY <1>1, <1>2, <1>3, <1>4, <1>5 DEF PairsInv

-----------------------------------------------------------------------------
(* The types hold after a step of p that keeps those of the rest.          *)
LEMMA TypeKept ==
    ASSUME TypeOK, NEW p \in Processes, OthersStay(p),
           file' = file \/ file' \in [state : {"absent", "empty", "json", "garbled"},
                                      size : 0..2, creds : Stored],
           issued' \in [Devices -> 0..MaxTokens],
           lost' \subseteq Devices, torn' \in BOOLEAN, faults' \in 0..MaxFaults
    PROVE  TypeOK'
  BY DEF TypeOK, OthersStay, Stages, Stored

(* One step per action: it keeps the invariant.                            *)
LEMMA InvStep ==
    ASSUME TypeOK, FileStoreInv, [Next]_vars
    PROVE  TypeOK' /\ FileStoreInv'
<1> USE DEF ghosts
<1>0. PairsInv /\ SavesTakeTurns
  BY DEF FileStoreInv, PairsInv
<1> SUFFICES TypeOK' /\ PairsInv' /\ SavesTakeTurns'
  BY DEF FileStoreInv, PairsInv
<1>1. ASSUME NEW p \in Processes, NEW d \in Devices, Enroll(p, d)
      PROVE  TypeOK' /\ PairsInv' /\ SavesTakeTurns'
  <2> DEFINE c == [id |-> d, dev |-> d, num |-> 1]
  <2>1. c \in Creds /\ c \in Stored /\ c.id = d /\ c.dev = d /\ c.num = 1
    BY Kinds DEF Creds, Stored
  <2> HIDE DEF c
  <2>2. Goto(p, "merge") /\ Hold(p, c) /\ pc[p] = "idle" /\ issued[d] = 0
    BY <1>1 DEF Enroll, c
  <2>3. OthersStay(p) /\ pc'[p] = "merge" /\ mem'[p] = c
    BY <2>1, <2>2, StepOf DEF Stages
  <2>4. \A q \in Processes : ~Bears(q, d)
    BY <1>0, <2>2, BearerAhead
  <2>5. /\ issued' = [issued EXCEPT ![d] = @ + 1] /\ issued' \in [Devices -> 0..MaxTokens]
        /\ file' = file /\ lost' = lost /\ torn' = torn /\ faults' = faults
    <3>1. /\ issued' = [issued EXCEPT ![d] = 1] /\ issued[d] = 0
          /\ file' = file /\ lost' = lost /\ torn' = torn /\ faults' = faults
      BY <1>1 DEF Enroll
    <3>2. 1 \in 0..MaxTokens /\ issued[d] + 1 = 1
      BY <3>1, Kinds
    <3> QED
      BY <3>1, <3>2 DEF TypeOK
  <2>6. TypeOK'
    BY <2>3, <2>5, TypeKept DEF TypeOK
  <2>7. /\ mem'[p] \in Creds /\ mem'[p].dev = d /\ mem'[p].id = d
        /\ mem'[p].num = issued[d] + 1
    BY <2>1, <2>2, <2>3
  <2>8. PairsInv'
    BY <1>0, <2>2, <2>3, <2>4, <2>5, <2>7, IssueKept
  <2> QED
    BY <1>0, <2>2, <2>3, <2>5, <2>6, <2>8, TurnsKept
<1>2. ASSUME NEW p \in Processes, Merge(p) \/ Apply(p)
      PROVE  TypeOK' /\ PairsInv' /\ SavesTakeTurns'
  <2>1. pc[p] \in {"merge", "apply"} /\ torn' = torn /\ faults' = faults
    BY <1>2 DEF Merge, Apply
  <2>2. CASE Parses
    <3>1. /\ Goto(p, "open") /\ mem' = mem /\ file' = file /\ issued' = issued
          /\ lost' = lost
      BY <1>2, <2>2 DEF Merge, Apply
    <3>2. OthersStay(p) /\ pc'[p] = "open" /\ mem'[p] = mem[p]
      BY <3>1, StageOf DEF Stages
    <3>3. TypeOK'
      BY <2>1, <3>1, <3>2, TypeKept DEF TypeOK
    <3>4. \A d \in Devices : Bears(p, d)' => Bears(p, d)
      BY <2>1, <3>2 DEF Bears
    <3>5. /\ HoldsPair' /\ OneBearer' /\ BearersCurrent' /\ ReadersBehind'
          /\ \A c \in Stored : IssuedBefore(c) => IssuedBefore(c)'
      BY <1>0, <3>1, <3>2, <3>4, ProcessesKept
    <3>6. IssuedBefore(file.creds)' /\ StoredPairInForce'
      BY <1>0, <3>1, <3>2, <3>5, FileKept
    <3> QED
      BY <1>0, <2>1, <3>1, <3>2, <3>3, <3>5, <3>6, TurnsKept DEF PairsInv
  <2>3. CASE ~Parses
    <3>1. Ends(p)
      BY <1>2, <2>3 DEF Merge, Apply
    <3>2. /\ OthersStay(p) /\ pc'[p] = "idle" /\ mem'[p] = NoCreds
          /\ lost \subseteq lost' /\ lost' \subseteq Devices
          /\ mem[p].dev \in Devices => mem[p].dev \in lost'
          /\ file' = file /\ issued' = issued
      BY <3>1, EndOf
    <3>3. TypeOK'
      BY <2>1, <3>2, TypeKept DEF TypeOK
    <3>4. \A d \in Devices : ~Bears(p, d)'
      BY <3>2 DEF Bears
    <3>5. /\ HoldsPair' /\ OneBearer' /\ BearersCurrent' /\ ReadersBehind'
          /\ \A c \in Stored : IssuedBefore(c) => IssuedBefore(c)'
      BY <1>0, <3>2, <3>4, ProcessesKept
    <3>6. \A d \in Devices : Bears(p, d) => d \in lost'
      BY <3>2 DEF Bears
    <3>7. IssuedBefore(file.creds)' /\ StoredPairInForce'
      BY <1>0, <3>2, <3>5, <3>6, FileKept
    <3> QED
      BY <1>0, <2>1, <3>2, <3>3, <3>5, <3>7, TurnsKept DEF PairsInv
  <2> QED
    BY <2>2, <2>3
<1>3. ASSUME NEW p \in Processes, NEW c \in {CICreds, NoCreds}, Overwrite(p, c)
      PROVE  TypeOK' /\ PairsInv' /\ SavesTakeTurns'
  <2>1. /\ Goto(p, "open") /\ Hold(p, c) /\ pc[p] = "idle" /\ file' = file
        /\ issued' = issued /\ lost' = lost /\ torn' = torn /\ faults' = faults
    BY <1>3 DEF Overwrite
  <2>2. c \in Stored /\ c.dev \notin Devices
    BY Kinds
  <2>3. OthersStay(p) /\ pc'[p] = "open" /\ mem'[p] = c
    BY <2>1, <2>2, StepOf DEF Stages
  <2>4. TypeOK'
    BY <2>1, <2>3, TypeKept DEF TypeOK
  <2>5. \A d \in Devices : ~Bears(p, d)' /\ ~Bears(p, d)
    BY <2>1, <2>2, <2>3 DEF Bears
  <2>6. /\ HoldsPair' /\ OneBearer' /\ BearersCurrent' /\ ReadersBehind'
        /\ \A k \in Stored : IssuedBefore(k) => IssuedBefore(k)'
    BY <1>0, <2>1, <2>3, <2>5, ProcessesKept
  <2>7. IssuedBefore(file.creds)' /\ StoredPairInForce'
    BY <1>0, <2>1, <2>3, <2>5, <2>6, FileKept
  <2> QED
    BY <1>0, <2>1, <2>3, <2>4, <2>6, <2>7, TurnsKept DEF PairsInv
<1>4. ASSUME NEW p \in Processes, RefreshLoad(p)
      PROVE  TypeOK' /\ PairsInv' /\ SavesTakeTurns'
  <2>1. /\ Goto(p, "refresh") /\ Hold(p, file.creds) /\ pc[p] = "idle" /\ file' = file
        /\ issued' = issued /\ lost' = lost /\ torn' = torn /\ faults' = faults
        /\ file.creds.dev \in Devices /\ file.creds.num < MaxTokens
    BY <1>4 DEF RefreshLoad
  <2>2. file.creds \in Stored /\ file.creds \in Creds
    BY <2>1, Kinds DEF TypeOK, Stored
  <2>3. OthersStay(p) /\ pc'[p] = "refresh" /\ mem'[p] = file.creds
    BY <2>1, <2>2, StepOf DEF Stages
  <2>4. TypeOK'
    BY <2>1, <2>3, TypeKept DEF TypeOK
  <2>5. \A d \in Devices : ~Bears(p, d)' /\ ~Bears(p, d)
    BY <2>1, <2>3 DEF Bears
  <2>6. IssuedBefore(mem'[p])
    BY <1>0, <2>3 DEF PairsInv
  <2>7. /\ HoldsPair' /\ OneBearer' /\ BearersCurrent' /\ ReadersBehind'
        /\ \A k \in Stored : IssuedBefore(k) => IssuedBefore(k)'
    BY <1>0, <2>1, <2>2, <2>3, <2>5, <2>6, ProcessesKept
  <2>8. IssuedBefore(file.creds)' /\ StoredPairInForce'
    BY <1>0, <2>1, <2>3, <2>5, <2>7, FileKept
  <2> QED
    BY <1>0, <2>1, <2>3, <2>4, <2>7, <2>8, TurnsKept DEF PairsInv
<1>5. ASSUME NEW p \in Processes, RefreshPost(p)
      PROVE  TypeOK' /\ PairsInv' /\ SavesTakeTurns'
  <2>1. /\ pc[p] = "refresh" /\ file' = file
        /\ lost' = lost /\ torn' = torn /\ faults' = faults
    BY <1>5 DEF RefreshPost
  <2>2. mem[p] \in Creds /\ mem[p].num < MaxTokens /\ IssuedBefore(mem[p])
    BY <1>0, <2>1 DEF PairsInv, ReadersBehind
  <2>3. CASE mem[p].num = issued[mem[p].dev]
    <3> DEFINE d == mem[p].dev
               c == [mem[p] EXCEPT !.id = d, !.num = issued[d] + 1]
    <3>1. /\ issued' = [issued EXCEPT ![d] = @ + 1] /\ Hold(p, c) /\ Goto(p, "apply")
      BY <1>5, <2>3 DEF RefreshPost
    <3>2. d \in Devices /\ issued[d] \in Nat /\ issued[d] + 1 \in 1..MaxTokens
      BY <2>2, <2>3, Kinds DEF Creds
    <3>3. c \in Creds /\ c \in Stored /\ c.id = d /\ c.dev = d /\ c.num = issued[d] + 1
      BY <2>2, <3>2 DEF Creds, Stored
    <3>4. \A q \in Processes : ~Bears(q, d)
      BY <2>2, <2>3, <3>2 DEF IssuedBefore
    <3> HIDE DEF d, c
    <3>5. OthersStay(p) /\ pc'[p] = "apply" /\ mem'[p] = c
      BY <3>1, <3>3, StepOf DEF Stages
    <3>6. issued' \in [Devices -> 0..MaxTokens]
      BY <3>1, <3>2 DEF TypeOK
    <3>7. TypeOK'
      BY <2>1, <3>5, <3>6, TypeKept DEF TypeOK
    <3>8. PairsInv'
      BY <1>0, <2>1, <3>1, <3>2, <3>3, <3>4, <3>5, IssueKept
    <3> QED
      BY <1>0, <2>1, <3>5, <3>7, <3>8, TurnsKept
  <2>4. CASE mem[p].num # issued[mem[p].dev]
    <3>1. Goto(p, "idle") /\ Hold(p, NoCreds) /\ issued' = issued
      BY <1>5, <2>4 DEF RefreshPost
    <3>2. OthersStay(p) /\ pc'[p] = "idle" /\ mem'[p] = NoCreds
      BY <3>1, Kinds, StepOf DEF Stages
    <3>3. TypeOK'
      BY <2>1, <3>1, <3>2, TypeKept DEF TypeOK
    <3>4. \A d \in Devices : ~Bears(p, d)' /\ ~Bears(p, d)
      BY <2>1, <3>2 DEF Bears
    <3>5. /\ HoldsPair' /\ OneBearer' /\ BearersCurrent' /\ ReadersBehind'
          /\ \A k \in Stored : IssuedBefore(k) => IssuedBefore(k)'
      BY <1>0, <3>1, <3>2, <3>4, ProcessesKept
    <3>6. IssuedBefore(file.creds)' /\ StoredPairInForce'
      BY <1>0, <2>1, <3>1, <3>2, <3>4, <3>5, FileKept
    <3> QED
      BY <1>0, <2>1, <3>2, <3>3, <3>5, <3>6, TurnsKept DEF PairsInv
  <2> QED
    BY <2>3, <2>4
<1>6. ASSUME NEW p \in Processes, Open(p)
      PROVE  TypeOK' /\ PairsInv' /\ SavesTakeTurns'
  <2>1. /\ pc[p] = "open" /\ Goto(p, "write") /\ mem' = mem /\ issued' = issued
        /\ file' = [state |-> "empty", size |-> 0, creds |-> NoCreds]
        /\ torn' = (torn \/ Writing # {}) /\ lost' = lost /\ faults' = faults
    BY <1>6 DEF Open
  <2>2. OthersStay(p) /\ pc'[p] = "write" /\ mem'[p] = mem[p]
    BY <2>1, StageOf DEF Stages
  <2>3. file'.state = "empty" /\ file'.creds = NoCreds
    BY <2>1
  <2>4. TypeOK'
    <3>1. file' \in [state : {"absent", "empty", "json", "garbled"}, size : 0..2,
                     creds : Stored]
      BY <2>1, Kinds
    <3>2. torn' \in BOOLEAN
      BY <2>1 DEF TypeOK
    <3> QED
      BY <2>1, <2>2, <3>1, <3>2, TypeKept DEF TypeOK
  <2>5. \A d \in Devices : Bears(p, d)' => Bears(p, d)
    BY <2>1, <2>2 DEF Bears
  <2>6. HoldsPair' /\ OneBearer' /\ BearersCurrent' /\ ReadersBehind'
    BY <1>0, <2>1, <2>2, <2>5, ProcessesKept
  <2>7. IssuedBefore(file.creds)' /\ StoredPairInForce'
    BY <2>3, Kinds DEF IssuedBefore, StoredPairInForce
  <2>8. SavesTakeTurns'
    <3> SUFFICES ASSUME ~torn'
                 PROVE  (\A q, r \in Writing' : q = r) /\ file'.state = "empty" /\ Writing' # {}
      BY DEF SavesTakeTurns
    <3>1. Writing = {}
      BY <2>1
    <3>2. Writing' = {p}
      BY <2>2, <3>1 DEF Writing, OthersStay
    <3> QED
      BY <2>3, <3>2
  <2> QED
    BY <2>4, <2>6, <2>7, <2>8 DEF PairsInv
<1>7. ASSUME NEW p \in Processes, Write(p)
      PROVE  TypeOK' /\ PairsInv' /\ SavesTakeTurns'
  <2>1. /\ pc[p] = "write" /\ Goto(p, "idle") /\ Hold(p, NoCreds) /\ issued' = issued
        /\ torn' = torn /\ lost' = lost /\ faults' = faults
        /\ file' = IF file.state # "empty" /\ file.size > Size(mem[p])
                   THEN [file EXCEPT !.state = "garbled", !.creds = NoCreds]
                   ELSE [state |-> "json", size |-> Size(mem[p]), creds |-> mem[p]]
    BY <1>7 DEF Write
  <2>2. OthersStay(p) /\ pc'[p] = "idle" /\ mem'[p] = NoCreds
    BY <2>1, Kinds, StepOf DEF Stages
  <2>3. /\ file.state = "empty" => file'.state = "json"
        /\ file'.creds \in {NoCreds, mem[p]}
    BY <2>1 DEF TypeOK
  <2>4. mem[p] \in Stored /\ Size(mem[p]) \in 0..2
    BY Kinds DEF TypeOK, Stored
  <2>5. file' \in [state : {"absent", "empty", "json", "garbled"}, size : 0..2,
                   creds : Stored]
    BY <2>1, <2>4, Kinds DEF TypeOK
  <2>6. TypeOK'
    BY <2>1, <2>2, <2>5, TypeKept DEF TypeOK
  <2>7. \A d \in Devices : ~Bears(p, d)'
    BY <2>2 DEF Bears
  <2>8. HoldsPair' /\ OneBearer' /\ BearersCurrent' /\ ReadersBehind'
    BY <1>0, <2>1, <2>2, <2>7, ProcessesKept
  <2>9. IssuedBefore(file.creds)' /\ StoredPairInForce'
    <3> SUFFICES ASSUME file'.creds.dev \in Devices
                 PROVE  IssuedBefore(file.creds)' /\ StoredPairInForce'
      BY DEF IssuedBefore, StoredPairInForce
    <3>0. mem[p].dev \in Devices /\ file'.creds = mem[p]
      BY <2>3, Kinds
    <3>1. PICK d \in Devices : d = mem[p].dev /\ file'.creds = mem[p]
      BY <3>0
    <3>2. Bears(p, d)
      BY <2>1, <3>1 DEF Bears
    <3>3. mem[p].num = issued[d] /\ mem[p].id = d /\ issued[d] \in Nat
      BY <1>0, <3>1, <3>2, Kinds DEF PairsInv, BearersCurrent, TypeOK
    <3>4. \A q \in Processes : ~Bears(q, d)'
      <4> SUFFICES ASSUME NEW q \in Processes, Bears(q, d)' PROVE FALSE
        OBVIOUS
      <4>1. q # p
        BY <2>7
      <4>2. Bears(q, d)
        BY <2>2, <4>1 DEF OthersStay, Bears
      <4> QED
        BY <1>0, <3>2, <4>1, <4>2 DEF PairsInv, OneBearer
    <3>5. issued'[d] = issued[d]
      BY <2>1
    <3>6. IssuedBefore(file.creds)'
      BY <3>1, <3>3, <3>4, <3>5 DEF IssuedBefore
    <3>7. StoredPairInForce'
      BY <3>1, <3>3, <3>5 DEF StoredPairInForce
    <3> QED
      BY <3>6, <3>7
  <2>10. SavesTakeTurns'
    <3> SUFFICES ASSUME ~torn PROVE Writing' = {} /\ Parses'
      BY <2>1 DEF SavesTakeTurns
    <3>1. p \in Writing
      BY <2>1 DEF Writing
    <3>2. Writing' = {}
      BY <1>0, <2>2, <3>1 DEF Writing, OthersStay, SavesTakeTurns
    <3> QED
      BY <1>0, <2>3, <3>1, <3>2 DEF SavesTakeTurns, Parses
  <2> QED
    BY <2>6, <2>8, <2>9, <2>10 DEF PairsInv
<1>8. ASSUME NEW p \in Processes, Crash(p)
      PROVE  TypeOK' /\ PairsInv' /\ SavesTakeTurns'
  <2>1. /\ pc[p] # "idle" /\ faults < MaxFaults /\ faults' = faults + 1
        /\ torn' = (torn \/ p \in Writing)
    BY <1>8 DEF Crash
  <2>2. /\ OthersStay(p) /\ pc'[p] = "idle" /\ mem'[p] = NoCreds
        /\ file' = file /\ issued' = issued
        /\ lost \subseteq lost' /\ lost' \subseteq Devices
        /\ pc[p] # "refresh" /\ mem[p].dev \in Devices => mem[p].dev \in lost'
    <3>1. CASE pc[p] = "refresh"
      <4>1. /\ Goto(p, "idle") /\ Hold(p, NoCreds) /\ file' = file /\ issued' = issued
            /\ lost' = lost
        BY <1>8, <3>1 DEF Crash
      <4> QED
        BY <3>1, <4>1, Kinds, StepOf DEF Stages, TypeOK
    <3>2. CASE pc[p] # "refresh"
      BY <1>8, <3>2, EndOf DEF Crash
    <3> QED
      BY <3>1, <3>2
  <2>3. TypeOK'
    <3>1. faults' \in 0..MaxFaults
      BY <2>1, Kinds DEF TypeOK
    <3>2. torn' \in BOOLEAN
      BY <2>1 DEF TypeOK
    <3> QED
      BY <2>2, <3>1, <3>2, TypeKept DEF TypeOK
  <2>4. \A d \in Devices : ~Bears(p, d)' /\ (Bears(p, d) => d \in lost')
    BY <2>2 DEF Bears
  <2>5. /\ HoldsPair' /\ OneBearer' /\ BearersCurrent' /\ ReadersBehind'
        /\ \A c \in Stored : IssuedBefore(c) => IssuedBefore(c)'
    BY <1>0, <2>2, <2>4, ProcessesKept
  <2>6. IssuedBefore(file.creds)' /\ StoredPairInForce'
    BY <1>0, <2>2, <2>4, <2>5, FileKept
  <2>7. SavesTakeTurns'
    <3>1. CASE p \in Writing
      BY <2>1, <3>1 DEF SavesTakeTurns
    <3>2. CASE p \notin Writing
      <4>1. pc[p] # "write" /\ torn' = torn
        BY <2>1, <3>2 DEF Writing, TypeOK
      <4> QED
        BY <1>0, <2>2, <4>1, TurnsKept
    <3> QED
      BY <3>1, <3>2
  <2> QED
    BY <2>3, <2>5, <2>6, <2>7 DEF PairsInv
<1>9. CASE UNCHANGED vars
  BY <1>0, <1>9 DEF vars, TypeOK, PairsInv, SavesTakeTurns, HoldsPair, OneBearer,
      BearersCurrent, ReadersBehind, IssuedBefore, StoredPairInForce, Bears, Writing, Parses
<1> QED
  BY <1>1, <1>2, <1>3, <1>4, <1>5, <1>6, <1>7, <1>8, <1>9 DEF Next

-----------------------------------------------------------------------------
(* The reachable states have the right types and satisfy the invariant:    *)
(* the type of a refreshed pair rests on ReadersBehind, the rest of the    *)
(* invariant on the types, so both are shown at once.                      *)
LEMMA Reachable == Spec => [](TypeOK /\ FileStoreInv)
<1>1. Init => TypeOK /\ FileStoreInv
  BY InitInv
<1>2. TypeOK /\ FileStoreInv /\ [Next]_vars => (TypeOK /\ FileStoreInv)'
  BY InvStep
<1> QED
  BY <1>1, <1>2, PTL DEF Spec

(* What is stored is whole: no field of two saves, no pair without device. *)
THEOREM TypeCorrect == Spec => []TypeOK
  BY Reachable, PTL

(* The inductive invariant: a device's newest pair has at most one bearer, *)
(* the process that the answer of init_vault, enroll, join or refresh went *)
(* to, until its save is over.                                             *)
THEOREM Invariance == Spec => []FileStoreInv
  BY Reachable, PTL

(* load raises only during a save, or after two have overlapped or one was *)
(* cut off.                                                                *)
THEOREM Loads == Spec => []FileParses
<1>1. FileStoreInv => FileParses
  BY DEF FileStoreInv, SavesTakeTurns, FileParses
<1> QED
  BY <1>1, Invariance, PTL

(* _apply_refresh and _save_tokens never put an older pair back.           *)
THEOREM NeverOlder == Spec => []StoredPairInForce
<1>1. FileStoreInv => StoredPairInForce
  BY DEF FileStoreInv
<1> QED
  BY <1>1, Invariance, PTL

(* The device_id that is stored is that of the tokens stored with it.      *)
THEOREM IdOfTokens == Spec => []DeviceIdOwnsTokens
<1>1. FileStoreInv => DeviceIdOwnsTokens
  BY DEF FileStoreInv, IssuedBefore, DeviceIdOwnsTokens
<1> QED
  BY <1>1, Invariance, PTL

=============================================================================
