---------------------------- MODULE TransportProofs ----------------------------
(* The safety of Transport for every finite set of tasks, every number of  *)
(* attempts and every number of expiries.                                  *)
EXTENDS Transport, TLAPS, FiniteSetTheorems

(* The number of tasks bounds the tokens: each task issues a pair at most. *)
LEMMA Counts ==
    /\ MaxAttempts \in Nat /\ MaxAttempts >= 1 /\ MaxExpiries \in Nat
    /\ Cardinality(Tasks) \in Nat
    /\ Refused = 2 + Cardinality(Tasks) /\ Tokens = 0..(1 + Cardinality(Tasks))
    /\ \A S : S \subseteq Tasks =>
           IsFiniteSet(S) /\ Cardinality(S) \in Nat /\ Cardinality(S) <= Cardinality(Tasks)
<1>1. \A S : S \subseteq Tasks =>
        IsFiniteSet(S) /\ Cardinality(S) \in Nat /\ Cardinality(S) <= Cardinality(Tasks)
  BY TransportAssumption, FS_Subset, FS_CardinalityType
<1> QED
  BY <1>1, TransportAssumption DEF Refused, Tokens

(* A token number is not the sign of a refusal. *)
LEMMA Numbers ==
    ASSUME TypeOK, TransportInv
    PROVE  /\ issued \in Nat /\ issued >= 1 /\ issued # Refused
           /\ store.device \in Tokens /\ store.refresh \in Tokens
           /\ \A t \in Tasks : reply[t] = issued => Answered(t)
           /\ \A t \in Tasks : Answered(t) => reply[t] \in Tokens
<1>1. issued \in Tokens /\ issued >= 1 /\ issued # Refused
  BY Counts DEF TypeOK, TransportInv
<1>2. \A t \in Tasks : reply[t] = issued => Answered(t)
  BY <1>1, Counts DEF Answered, None
<1>3. \A t \in Tasks : Answered(t) => reply[t] \in Tokens
  BY DEF Answered, TypeOK
<1> QED
  BY <1>1, <1>2, <1>3, Counts DEF TypeOK

(* What a step of task t leaves to the others; it changes no answer.       *)
OthersStay(t) ==
    /\ pc' \in [Tasks -> PCs] /\ attempt' \in [Tasks -> 0..MaxAttempts]
    /\ token' \in [Tasks -> Tokens] /\ result' \in [Tasks -> Results]
    /\ \A u \in Tasks \ {t} :
           pc'[u] = pc[u] /\ attempt'[u] = attempt[u] /\ token'[u] = token[u]

(* _send enters a phase with a token. *)
LEMMA SendOf ==
    ASSUME TypeOK, NEW t \in Tasks, NEW at \in PCs, NEW tok \in Tokens,
           Send(t, at, tok), result' = result
    PROVE  OthersStay(t) /\ pc'[t] = at /\ attempt'[t] = 1 /\ token'[t] = tok
<1>1. 1 \in 0..MaxAttempts
  BY Counts
<1> QED
  BY <1>1 DEF TypeOK, Send, OthersStay

(* A request that returns or raises. *)
LEMMA FinishOf ==
    ASSUME TypeOK, NEW t \in Tasks, NEW res \in Results, Finish(t, res)
    PROVE  OthersStay(t) /\ pc'[t] = "done"
  BY DEF TypeOK, Finish, OthersStay, PCs

(* Without an exchange it is enough that no task of Spent can exchange the *)
(* pair in force after all.                                                *)
LEMMA CountKept ==
    ASSUME TypeOK, TransportInv, issued' = issued, Spent \subseteq Spent'
    PROVE  issued' >= 1 /\ issued' <= 1 + Cardinality(Spent')
<1>1. IsFiniteSet(Spent') /\ Spent' \subseteq Tasks
  BY Counts DEF Spent
<1>2. Cardinality(Spent) <= Cardinality(Spent')
  BY <1>1, FS_Subset
<1> QED
  BY <1>1, <1>2, Counts, Numbers DEF TransportInv, Spent

(* The initial states satisfy the types and the invariant. *)
LEMMA InitInv == Init => TypeOK /\ TransportInv
<1> SUFFICES ASSUME Init PROVE TypeOK /\ TransportInv
  OBVIOUS
<1>1. store.device = 1 /\ store.refresh \in {0, 1} /\ {0, 1} \subseteq Tokens
  BY Counts DEF Init, None
<1>2. TypeOK
  <2>1. store \in [device : Tokens, refresh : Tokens]
    BY <1>1 DEF Init, None
  <2>2. /\ reply \in [Tasks -> Tokens \cup {Refused}] /\ token \in [Tasks -> Tokens]
        /\ attempt \in [Tasks -> 0..MaxAttempts] /\ issued \in Tokens
        /\ expiries \in 0..MaxExpiries
    BY Counts DEF Init, None
  <2> QED
    BY <2>1, <2>2 DEF Init, TypeOK, PCs, Results
<1>3. Cardinality(Spent) \in Nat
  BY Counts DEF Spent
<1>4. ReadFromStore /\ CopiesOfOneCall /\ AnswerAhead
  BY <1>1 DEF Init, ReadFromStore, CopiesOfOneCall, AnswerAhead
<1>5. TokensNotLost
  BY <1>1 DEF Init, TokensNotLost, None
<1> QED
  BY <1>2, <1>3, <1>4, <1>5 DEF TransportInv, Init

-----------------------------------------------------------------------------
(* A request that ends: the answer it waited for is stored or dropped.     *)
LEMMA Finishes ==
    ASSUME TypeOK, TransportInv, NEW t \in Tasks, NEW res \in Results,
           pc[t] \in {"first", "refresh", "second"}, Finish(t, res),
           UNCHANGED <<server, store, net, reply>>, dropped' \in BOOLEAN,
           dropped \/ (pc[t] = "refresh" /\ Answered(t)) => dropped'
    PROVE  TypeOK' /\ TransportInv'
<1> USE DEF server
<1>1. OthersStay(t) /\ pc'[t] = "done"
  BY FinishOf
<1>2. TypeOK'
  BY <1>1 DEF TypeOK, OthersStay
<1>3. Spent \subseteq Spent'
  BY <1>1 DEF Spent, OthersStay
<1>4. issued' >= 1 /\ issued' <= 1 + Cardinality(Spent')
  BY <1>3, CountKept
<1>5. ReadFromStore'
  BY <1>1 DEF TransportInv, ReadFromStore, OthersStay
<1>6. CopiesOfOneCall'
  <2>1. \A m \in net : m.task \in Tasks
    BY DEF TypeOK, Copy
  <2> QED
    BY <1>1, <2>1 DEF TransportInv, CopiesOfOneCall, OthersStay
<1>7. AnswerAhead'
  BY <1>1 DEF TransportInv, AnswerAhead, OthersStay, Answered
<1>8. TokensNotLost'
  <2> SUFFICES ASSUME ~dropped', store.refresh \notin {None, issued}
               PROVE  \E u \in Tasks : pc'[u] = "refresh" /\ reply[u] = issued
    BY DEF TokensNotLost
  <2>1. PICK u \in Tasks : pc[u] = "refresh" /\ reply[u] = issued
    BY DEF TransportInv, TokensNotLost
  <2>2. u # t
    BY <2>1, Numbers
  <2> QED
    BY <1>1, <2>1, <2>2 DEF OthersStay
<1> QED
  BY <1>2, <1>4, <1>5, <1>6, <1>7, <1>8 DEF TransportInv

(* Start: the task has no call of refresh() yet. *)
LEMMA Starts ==
    ASSUME TypeOK, TransportInv, NEW t \in Tasks, Start(t)
    PROVE  TypeOK' /\ TransportInv'
<1> USE DEF server
<1>0. /\ pc[t] = "idle" /\ UNCHANGED <<server, store, net, reply, result, dropped>>
      /\ Send(t, "first", store.device)
  BY DEF Start
<1>1. OthersStay(t) /\ pc'[t] = "first"
  BY <1>0, Numbers, SendOf DEF PCs
<1>2. TypeOK'
  BY <1>0, <1>1 DEF TypeOK, OthersStay
<1>3. Spent \subseteq Spent'
  BY <1>0, <1>1 DEF Spent, OthersStay
<1>4. issued' >= 1 /\ issued' <= 1 + Cardinality(Spent')
  BY <1>0, <1>3, CountKept
<1>5. ReadFromStore'
  BY <1>0, <1>1 DEF TransportInv, ReadFromStore, OthersStay
<1>6. CopiesOfOneCall'
  <2>1. \A m \in net : m.task \in Tasks
    BY DEF TypeOK, Copy
  <2> QED
    BY <1>0, <1>1, <2>1 DEF TransportInv, CopiesOfOneCall, OthersStay
<1>7. AnswerAhead'
  BY <1>0, <1>1 DEF TransportInv, AnswerAhead, OthersStay, Answered
<1>8. TokensNotLost'
  BY <1>0, <1>1 DEF TransportInv, TokensNotLost, OthersStay
<1> QED
  BY <1>2, <1>4, <1>5, <1>6, <1>7, <1>8 DEF TransportInv

(* StartRefresh: the first copy of the task's only call, with the token    *)
(* that is in the store.                                                   *)
LEMMA Refreshes ==
    ASSUME TypeOK, TransportInv, NEW t \in Tasks, StartRefresh(t)
    PROVE  TypeOK' /\ TransportInv'
<1> USE DEF server
<1> DEFINE m1 == [task |-> t, attempt |-> 1, token |-> store.refresh]
<1>0. /\ pc[t] = "first" /\ UNCHANGED <<server, store, reply, result, dropped>>
      /\ store.refresh # None
      /\ Send(t, "refresh", store.refresh) /\ net' = net \cup {m1}
  BY DEF StartRefresh
<1>m. PICK m \in Copy : m = m1 /\ m.task = t /\ m.attempt = 1 /\ m.token = store.refresh
  <2>1. store.refresh \in Nat /\ 1 \in 1..MaxAttempts
    BY Numbers, Counts
  <2>2. m1 \in Copy /\ m1.task = t /\ m1.attempt = 1 /\ m1.token = store.refresh
    BY <2>1 DEF Copy
  <2> HIDE DEF m1
  <2> QED
    BY <2>2
<1>n. net' = net \cup {m}
  BY <1>0, <1>m
<1> HIDE DEF m1
<1>1. /\ OthersStay(t) /\ pc'[t] = "refresh" /\ attempt'[t] = 1
      /\ token'[t] = store.refresh
  BY <1>0, Numbers, SendOf DEF PCs
<1>2. TypeOK'
  BY <1>0, <1>1, <1>n DEF TypeOK, OthersStay
<1>c. \A k \in net : k.task \in Tasks /\ k.task # t
  BY <1>0 DEF TypeOK, Copy, TransportInv, CopiesOfOneCall
<1>3. Spent \subseteq Spent'
  <2> SUFFICES ASSUME NEW u \in Spent PROVE u \in Spent'
    OBVIOUS
  <2>1. u \in Tasks \ {t} /\ issued' = issued
    BY <1>0 DEF Spent
  <2>2. pc'[u] = pc[u] /\ token'[u] = token[u]
    BY <1>1, <2>1 DEF OthersStay
  <2>3. \A k \in net' : k.task = u => k \in net
    BY <1>m, <1>n, <2>1
  <2> QED
    BY <2>1, <2>2, <2>3 DEF Spent
<1>4. issued' >= 1 /\ issued' <= 1 + Cardinality(Spent')
  BY <1>0, <1>3, CountKept
<1>5. ReadFromStore'
  <2>1. store.refresh \in 1..store.refresh
    BY <1>0, Counts, Numbers DEF None
  <2> QED
    BY <1>0, <1>1, <1>m, <1>n, <2>1 DEF TransportInv, ReadFromStore, OthersStay
<1>6. CopiesOfOneCall'
  <2>1. reply[t] = None
    BY <1>0 DEF TransportInv, CopiesOfOneCall
  <2>2. ASSUME NEW u \in Tasks, pc'[u] \in {"idle", "first"}
        PROVE  reply'[u] = None /\ \A k \in net' : k.task # u
    BY <1>0, <1>1, <1>m, <1>n, <2>2 DEF TransportInv, CopiesOfOneCall, OthersStay
  <2>3. ASSUME NEW k \in net', pc'[k.task] = "refresh"
        PROVE  /\ k.token = token'[k.task] /\ k.attempt <= attempt'[k.task]
               /\ k.attempt = attempt'[k.task] => reply'[k.task] = None
    <3>1. CASE k = m
      BY <1>0, <1>1, <1>m, <2>1, <3>1
    <3>2. CASE k \in net
      BY <1>0, <1>1, <1>c, <2>3, <3>2 DEF TransportInv, CopiesOfOneCall, OthersStay
    <3> QED
      BY <1>n, <3>1, <3>2
  <2> QED
    BY <2>2, <2>3 DEF CopiesOfOneCall
<1>7. AnswerAhead'
  <2>1. ~Answered(t)
    BY <1>0 DEF TransportInv, CopiesOfOneCall, Answered
  <2> QED
    BY <1>0, <1>1, <2>1 DEF TransportInv, AnswerAhead, OthersStay, Answered
<1>8. TokensNotLost'
  BY <1>0, <1>1 DEF TransportInv, TokensNotLost, OthersStay
<1> QED
  BY <1>2, <1>4, <1>5, <1>6, <1>7, <1>8 DEF TransportInv

(* Retry: the next copy carries the token of the ones before; an answer    *)
(* that had come is dropped.                                               *)
LEMMA Retries ==
    ASSUME TypeOK, TransportInv, NEW t \in Tasks, Retry(t)
    PROVE  TypeOK' /\ TransportInv'
<1> USE DEF server
<1> DEFINE m1 == [task |-> t, attempt |-> attempt[t] + 1, token |-> token[t]]
<1>0. /\ pc[t] \in {"first", "refresh", "second"} /\ attempt[t] < MaxAttempts
      /\ UNCHANGED <<server, store, pc, token, result>>
      /\ attempt' = [attempt EXCEPT ![t] = @ + 1]
      /\ reply' = [reply EXCEPT ![t] = None]
      /\ net' = IF pc[t] = "refresh" THEN net \cup {m1} ELSE net
      /\ dropped' = (dropped \/ (pc[t] = "refresh" /\ Answered(t)))
  BY DEF Retry
<1>a. /\ attempt[t] \in 0..MaxAttempts /\ attempt[t] + 1 \in 1..MaxAttempts
      /\ attempt' \in [Tasks -> 0..MaxAttempts]
      /\ attempt'[t] = attempt[t] + 1
      /\ \A u \in Tasks \ {t} : attempt'[u] = attempt[u]
  <2>1. attempt[t] \in 0..MaxAttempts /\ attempt[t] + 1 \in 1..MaxAttempts
    BY <1>0, Counts DEF TypeOK
  <2> QED
    BY <1>0, <2>1, Counts DEF TypeOK
<1>r. /\ reply' \in [Tasks -> Tokens \cup {Refused}] /\ reply'[t] = None
      /\ \A u \in Tasks \ {t} : reply'[u] = reply[u]
  BY <1>0, Counts DEF TypeOK, None
<1>m. PICK m \in Copy :
        m = m1 /\ m.task = t /\ m.attempt = attempt[t] + 1 /\ m.token = token[t]
  <2>1. token[t] \in Nat
    BY Counts DEF TypeOK
  <2>2. m1 \in Copy /\ m1.task = t /\ m1.attempt = attempt[t] + 1 /\ m1.token = token[t]
    BY <1>a, <2>1 DEF Copy
  <2> HIDE DEF m1
  <2> QED
    BY <2>2
<1>n. net' = IF pc[t] = "refresh" THEN net \cup {m} ELSE net
  BY <1>0, <1>m
<1> HIDE DEF m1
<1>2. TypeOK'
  <2>1. dropped' \in BOOLEAN
    BY <1>0 DEF TypeOK
  <2>2. net' \subseteq Copy
    BY <1>n DEF TypeOK
  <2>3. attempt' \in [Tasks -> 0..MaxAttempts] /\ reply' \in [Tasks -> Tokens \cup {Refused}]
    BY <1>a, <1>r
  <2>4. /\ issued' \in Tokens /\ expired' \in BOOLEAN /\ expiries' \in 0..MaxExpiries
        /\ store' \in [device : Tokens, refresh : Tokens]
    BY <1>0 DEF TypeOK
  <2>5. /\ pc' \in [Tasks -> PCs] /\ token' \in [Tasks -> Tokens]
        /\ result' \in [Tasks -> Results]
    BY <1>0 DEF TypeOK
  <2> QED
    BY <2>1, <2>2, <2>3, <2>4, <2>5 DEF TypeOK
<1>c. \A k \in net : k.task \in Tasks /\ k.attempt \in Nat
  <2>1. net \subseteq Copy
    BY DEF TypeOK
  <2>2. \A i \in 1..MaxAttempts : i \in Nat
    BY Counts
  <2> QED
    BY <2>1, <2>2 DEF Copy
<1>3. Spent \subseteq Spent'
  <2> SUFFICES ASSUME NEW u \in Spent PROVE u \in Spent'
    OBVIOUS
  <2>1. u \in Tasks /\ pc'[u] = pc[u] /\ token'[u] = token[u] /\ issued' = issued
    BY <1>0 DEF Spent
  <2>2. \A k \in net' : k.task = u => k \in net \/ (pc[u] = "refresh" /\ k.token = token[u])
    BY <1>m, <1>n
  <2> QED
    BY <2>1, <2>2 DEF Spent
<1>4. issued' >= 1 /\ issued' <= 1 + Cardinality(Spent')
  BY <1>0, <1>3, CountKept
<1>5. ReadFromStore'
  BY <1>0, <1>m, <1>n DEF TransportInv, ReadFromStore
<1>6. CopiesOfOneCall'
  <2>1. ASSUME NEW u \in Tasks, pc'[u] \in {"idle", "first"}
        PROVE  reply'[u] = None /\ \A k \in net' : k.task # u
    BY <1>0, <1>r, <1>m, <1>n, <2>1 DEF TransportInv, CopiesOfOneCall
  <2>2. ASSUME NEW k \in net', pc'[k.task] = "refresh"
        PROVE  /\ k.token = token'[k.task] /\ k.attempt <= attempt'[k.task]
               /\ k.attempt = attempt'[k.task] => reply'[k.task] = None
    <3>1. CASE k = m
      BY <1>0, <1>a, <1>r, <1>m, <3>1
    <3>2. CASE k \in net
      <4>1. k.token = token[k.task] /\ k.attempt <= attempt[k.task]
        BY <1>0, <2>2, <3>2 DEF TransportInv, CopiesOfOneCall
      <4>2. CASE k.task = t
        BY <1>0, <1>a, <1>r, <1>c, <3>2, <4>1, <4>2
      <4>3. CASE k.task # t
        BY <1>0, <1>a, <1>r, <1>c, <2>2, <3>2, <4>3 DEF TransportInv, CopiesOfOneCall
      <4> QED
        BY <4>2, <4>3
    <3> QED
      BY <1>n, <3>1, <3>2
  <2> QED
    BY <2>1, <2>2 DEF CopiesOfOneCall
<1>7. AnswerAhead'
  BY <1>0, <1>r DEF TransportInv, AnswerAhead, Answered
<1>8. TokensNotLost'
  <2> SUFFICES ASSUME ~dropped', store.refresh \notin {None, issued}
               PROVE  \E u \in Tasks : pc[u] = "refresh" /\ reply'[u] = issued
    BY <1>0 DEF TokensNotLost
  <2>1. PICK u \in Tasks : pc[u] = "refresh" /\ reply[u] = issued
    BY <1>0 DEF TransportInv, TokensNotLost
  <2>2. u # t
    BY <1>0, <2>1, Numbers
  <2> QED
    BY <1>r, <2>1, <2>2
<1> QED
  BY <1>2, <1>4, <1>5, <1>6, <1>7, <1>8 DEF TransportInv

(* ApplyRefresh: the answer is the pair in force, and now the store has it.*)
LEMMA Applies ==
    ASSUME TypeOK, TransportInv, NEW t \in Tasks, ApplyRefresh(t)
    PROVE  /\ TypeOK' /\ TransportInv'
           /\ store' = [device |-> issued, refresh |-> issued]
<1> USE DEF server
<1>0. /\ pc[t] = "refresh" /\ Answered(t)
      /\ UNCHANGED <<server, net, reply, result, dropped>>
      /\ store' = [device |-> reply[t], refresh |-> reply[t]]
      /\ Send(t, "second", reply[t])
  BY DEF ApplyRefresh
<1>s. store' = [device |-> issued, refresh |-> issued] /\ store.refresh < issued
  BY <1>0 DEF TransportInv, AnswerAhead
<1>1. OthersStay(t) /\ pc'[t] = "second"
  BY <1>0, Numbers, SendOf DEF PCs
<1>t. issued \in Tokens /\ store'.device = issued /\ store'.refresh = issued
  BY <1>s DEF TypeOK
<1>2. TypeOK'
  <2>1. store' \in [device : Tokens, refresh : Tokens]
    BY <1>s, <1>t
  <2> QED
    BY <1>0, <1>1, <2>1 DEF TypeOK, OthersStay
<1>3. Spent \subseteq Spent'
  BY <1>0, <1>1 DEF Spent, OthersStay
<1>4. issued' >= 1 /\ issued' <= 1 + Cardinality(Spent')
  BY <1>0, <1>3, CountKept
<1>5. ReadFromStore'
  <2>1. \A k \in 1..store.refresh : k \in 1..issued
    BY <1>s, Numbers, Counts
  <2> QED
    BY <1>0, <1>1, <1>t, <2>1, Numbers DEF TransportInv, ReadFromStore, OthersStay
<1>6. CopiesOfOneCall'
  <2>1. \A m \in net : m.task \in Tasks
    BY DEF TypeOK, Copy
  <2> QED
    BY <1>0, <1>1, <2>1 DEF TransportInv, CopiesOfOneCall, OthersStay
<1>7. AnswerAhead'
  BY <1>0, <1>1 DEF TransportInv, AnswerAhead, OthersStay, Answered
<1>8. TokensNotLost'
  BY <1>0, <1>t DEF TokensNotLost
<1> QED
  BY <1>s, <1>2, <1>4, <1>5, <1>6, <1>7, <1>8 DEF TransportInv

-----------------------------------------------------------------------------
Waiting(m) == pc[m.task] = "refresh" /\ attempt[m.task] = m.attempt

(* The attempt that a copy belongs to, when its task waits for it, has no  *)
(* answer yet and no other copy.                                           *)
LEMMA OneCopy ==
    ASSUME TypeOK, TransportInv, NEW m \in net, Waiting(m)
    PROVE  /\ reply[m.task] = None
           /\ \A k \in net : k.task = m.task /\ k.attempt = m.attempt => k = m
<1>1. reply[m.task] = None
  BY DEF TransportInv, CopiesOfOneCall, Waiting
<1>2. \A k \in net : k.task = m.task => k.token = m.token
  BY DEF TransportInv, CopiesOfOneCall, Waiting
<1>3. \A k \in net : k \in Copy
  BY DEF TypeOK
<1> QED
  BY <1>1, <1>2, <1>3 DEF Copy

(* What the handling of a copy does to the answers and to the copies.      *)
LEMMA AnswerKept ==
    ASSUME TypeOK, TransportInv, NEW m \in net, NEW a,
           a \in Nat, a # None, a = Refused \/ a \in Tokens,
           net' = net \ {m}, UNCHANGED <<pc, attempt, token>>,
           reply' = IF Waiting(m) THEN [reply EXCEPT ![m.task] = a] ELSE reply,
           issued' \in Nat, 1 <= issued'
    PROVE  /\ m.task \in Tasks /\ pc[m.task] \in {"refresh", "second", "done"}
           /\ reply' \in [Tasks -> Tokens \cup {Refused}]
           /\ Waiting(m) => reply'[m.task] = a
           /\ \A u \in Tasks : (~Waiting(m) \/ u # m.task) => reply'[u] = reply[u]
           /\ CopiesOfOneCall'
<1>1. m \in Copy /\ m.task \in Tasks
  BY DEF TypeOK, Copy
<1>2. pc[m.task] \in {"refresh", "second", "done"}
  BY <1>1 DEF TypeOK, PCs, TransportInv, CopiesOfOneCall
<1>3. /\ reply' \in [Tasks -> Tokens \cup {Refused}]
      /\ Waiting(m) => reply'[m.task] = a
      /\ \A u \in Tasks : (~Waiting(m) \/ u # m.task) => reply'[u] = reply[u]
  BY <1>1 DEF TypeOK
<1>4. CopiesOfOneCall'
  <2>1. ASSUME NEW u \in Tasks, pc[u] \in {"idle", "first"}
        PROVE  reply'[u] = None /\ \A k \in net' : k.task # u
    BY <1>2, <1>3, <2>1 DEF TransportInv, CopiesOfOneCall
  <2>2. ASSUME NEW k \in net', pc[k.task] = "refresh"
        PROVE  /\ k.token = token[k.task] /\ k.attempt <= attempt[k.task]
               /\ k.attempt = attempt[k.task] => reply'[k.task] = None
    <3>1. /\ k \in net /\ k # m /\ k.task \in Tasks
          /\ k.token = token[k.task] /\ k.attempt <= attempt[k.task]
          /\ k.attempt = attempt[k.task] => reply[k.task] = None
      BY <2>2 DEF TypeOK, Copy, TransportInv, CopiesOfOneCall
    <3>2. k.attempt = attempt[k.task] => ~Waiting(m) \/ k.task # m.task
      BY <3>1, OneCopy DEF Waiting
    <3> QED
      BY <1>3, <3>1, <3>2
  <2> QED
    BY <2>1, <2>2 DEF CopiesOfOneCall
<1> QED
  BY <1>1, <1>2, <1>3, <1>4

(* HandleRefresh, a refusal: the pair in force stays where it is.          *)
LEMMA Refuses ==
    ASSUME TypeOK, TransportInv, NEW m \in net, HandleRefresh(m), m.token # issued
    PROVE  TypeOK' /\ TransportInv'
<1>0. /\ net' = net \ {m}
      /\ reply' = IF Waiting(m) THEN [reply EXCEPT ![m.task] = Refused] ELSE reply
      /\ UNCHANGED <<issued, expired, expiries, store, pc, attempt, token, result, dropped>>
  BY DEF HandleRefresh, Waiting
<1>1. /\ m.task \in Tasks
      /\ reply' \in [Tasks -> Tokens \cup {Refused}]
      /\ Waiting(m) => reply'[m.task] = Refused
      /\ \A u \in Tasks : (~Waiting(m) \/ u # m.task) => reply'[u] = reply[u]
      /\ CopiesOfOneCall'
  <2>1. Refused \in Nat /\ Refused # None
    BY Counts DEF None
  <2> QED
    BY <1>0, <2>1, Numbers, AnswerKept
<1>2. TypeOK'
  BY <1>0, <1>1 DEF TypeOK
<1>3. Spent \subseteq Spent'
  BY <1>0 DEF Spent
<1>4. issued' >= 1 /\ issued' <= 1 + Cardinality(Spent')
  BY <1>0, <1>3, CountKept
<1>5. ReadFromStore'
  BY <1>0 DEF TransportInv, ReadFromStore
<1>6. AnswerAhead'
  <2>1. \A u \in Tasks : Answered(u)' => Answered(u) /\ reply'[u] = reply[u]
    BY <1>1 DEF Answered
  <2> QED
    BY <1>0, <2>1 DEF TransportInv, AnswerAhead
<1>7. TokensNotLost'
  <2> SUFFICES ASSUME ~dropped, store.refresh \notin {None, issued}
               PROVE  \E u \in Tasks : pc[u] = "refresh" /\ reply'[u] = issued
    BY <1>0 DEF TokensNotLost
  <2>1. PICK u \in Tasks : pc[u] = "refresh" /\ reply[u] = issued
    BY DEF TransportInv, TokensNotLost
  <2>2. ~Waiting(m) \/ u # m.task
    BY <2>1, OneCopy, Numbers DEF Answered
  <2> QED
    BY <1>1, <2>1, <2>2
<1> QED
  BY <1>1, <1>2, <1>4, <1>5, <1>6, <1>7 DEF TransportInv

(* HandleRefresh, an exchange: no answer waits to be stored, all tokens    *)
(* that were read are spent, and one task more has called refresh().       *)
LEMMA Exchanges ==
    ASSUME TypeOK, TransportInv, NEW m \in net, HandleRefresh(m), m.token = issued
    PROVE  TypeOK' /\ TransportInv'
<1>0. /\ net' = net \ {m}
      /\ reply' = IF Waiting(m) THEN [reply EXCEPT ![m.task] = issued + 1] ELSE reply
      /\ issued' = issued + 1 /\ expired' = FALSE
      /\ dropped' = (dropped \/ ~Waiting(m))
      /\ UNCHANGED <<expiries, store, pc, attempt, token, result>>
  BY DEF HandleRefresh, Waiting
<1>a. /\ store.refresh = issued
      /\ \A t \in Tasks : pc[t] = "refresh" => ~Answered(t) /\ token[t] < issued'
      /\ \A k \in net' : k.token < issued'
  <2>1. store.refresh = issued
    BY Numbers, Counts DEF TransportInv, ReadFromStore
  <2>2. \A i \in 1..issued : i < issued'
    BY <1>0, Numbers
  <2> QED
    BY <1>0, <2>1, <2>2, Numbers DEF TransportInv, ReadFromStore, AnswerAhead
<1>t. m.task \in Tasks /\ pc[m.task] \in {"refresh", "second", "done"}
  BY DEF TypeOK, Copy, PCs, TransportInv, CopiesOfOneCall
<1>4. issued' >= 1 /\ issued' <= 1 + Cardinality(Spent')
  <2>1. m.task \notin Spent
    BY DEF Spent
  <2>2. \A t \in Tasks : pc[t] \in {"refresh", "second", "done"} => t \in Spent'
    BY <1>0, <1>a, Numbers DEF Spent
  <2>3. Spent \cup {m.task} \subseteq Spent' /\ Spent \subseteq Tasks /\ Spent' \subseteq Tasks
    BY <1>t, <2>2 DEF Spent
  <2>4. Cardinality(Spent \cup {m.task}) = Cardinality(Spent) + 1
    BY <2>1, <2>3, Counts, FS_AddElement
  <2>5. Cardinality(Spent \cup {m.task}) <= Cardinality(Spent')
    BY <2>3, Counts, FS_Subset
  <2> QED
    BY <1>0, <2>3, <2>4, <2>5, Counts, Numbers DEF TransportInv
<1>i. issued' \in Tokens /\ issued' \in Nat /\ issued' # None /\ issued' # Refused
  <2>1. Cardinality(Spent') \in Nat /\ Cardinality(Spent') <= Cardinality(Tasks)
    BY Counts DEF Spent
  <2> QED
    BY <1>0, <1>4, <2>1, Counts, Numbers DEF None
<1>1. /\ reply' \in [Tasks -> Tokens \cup {Refused}]
      /\ Waiting(m) => reply'[m.task] = issued'
      /\ \A u \in Tasks : (~Waiting(m) \/ u # m.task) => reply'[u] = reply[u]
      /\ CopiesOfOneCall'
  <2>1. reply' = IF Waiting(m) THEN [reply EXCEPT ![m.task] = issued'] ELSE reply
    BY <1>0
  <2> QED
    BY <1>0, <1>4, <1>i, <2>1, AnswerKept
<1>2. TypeOK'
  <2>1. dropped' \in BOOLEAN
    BY <1>0 DEF TypeOK, Waiting
  <2> QED
    BY <1>0, <1>1, <1>i, <2>1 DEF TypeOK
<1>5. ReadFromStore'
  <2>1. store.device <= issued' /\ store.refresh <= issued'
    BY <1>0, <1>a, Numbers, Counts DEF TransportInv, ReadFromStore
  <2> QED
    BY <1>0, <2>1 DEF TransportInv, ReadFromStore
<1>6. AnswerAhead'
  <2>1. \A u \in Tasks : pc[u] = "refresh" /\ Answered(u)' => Waiting(m) /\ u = m.task
    BY <1>1, <1>a DEF Answered
  <2>2. store.refresh < issued'
    BY <1>0, <1>a, Numbers
  <2> QED
    BY <1>0, <1>1, <2>1, <2>2 DEF AnswerAhead
<1>7. TokensNotLost'
  BY <1>0, <1>1, <1>t DEF TokensNotLost, Waiting
<1> QED
  BY <1>1, <1>2, <1>4, <1>5, <1>6, <1>7 DEF TransportInv

-----------------------------------------------------------------------------
(* Every step keeps the types and the invariant, and the store's tokens    *)
(* are replaced by newer ones only.                                        *)
LEMMA InvStep ==
    ASSUME TypeOK, TransportInv, [Next]_vars
    PROVE  /\ TypeOK' /\ TransportInv'
           /\ store'.device >= store.device /\ store'.refresh >= store.refresh
<1> USE DEF server
<1>s. store.device >= store.device /\ store.refresh >= store.refresh
  BY Numbers, Counts
<1>f. {"ok", "auth", "error"} \subseteq Results
  BY DEF Results
<1>1. ASSUME NEW t \in Tasks, Start(t) PROVE TypeOK' /\ TransportInv' /\ store' = store
  BY <1>1, Starts DEF Start
<1>2. ASSUME NEW t \in Tasks, Succeed(t) PROVE TypeOK' /\ TransportInv' /\ store' = store
  BY <1>2, <1>f, Finishes DEF Succeed, TypeOK
<1>3. ASSUME NEW t \in Tasks, StartRefresh(t) PROVE TypeOK' /\ TransportInv' /\ store' = store
  BY <1>3, Refreshes DEF StartRefresh
<1>4. ASSUME NEW t \in Tasks, Unauthorized(t) PROVE TypeOK' /\ TransportInv' /\ store' = store
  <2>1. /\ pc[t] \in {"first", "second"} /\ Finish(t, "auth")
        /\ UNCHANGED <<server, store, net, reply, dropped>>
    BY <1>4 DEF Unauthorized
  <2> QED
    BY <2>1, <1>f, Finishes DEF TypeOK
<1>5. ASSUME NEW t \in Tasks, Retry(t) PROVE TypeOK' /\ TransportInv' /\ store' = store
  BY <1>5, Retries DEF Retry
<1>6. ASSUME NEW t \in Tasks, GiveUp(t) \/ Abort(t)
      PROVE  TypeOK' /\ TransportInv' /\ store' = store
  <2>1. /\ pc[t] \in {"first", "refresh", "second"} /\ Finish(t, "error")
        /\ dropped' = (dropped \/ (pc[t] = "refresh" /\ Answered(t)))
        /\ UNCHANGED <<server, store, net, reply>>
    BY <1>6 DEF GiveUp, Abort
  <2>2. dropped' \in BOOLEAN /\ (dropped \/ (pc[t] = "refresh" /\ Answered(t)) => dropped')
    BY <2>1 DEF TypeOK
  <2> QED
    BY <2>1, <2>2, <1>f, Finishes
<1>7. ASSUME NEW t \in Tasks, ApplyRefresh(t)
      PROVE  TypeOK' /\ TransportInv' /\ store'.device >= store.device
             /\ store'.refresh >= store.refresh
  <2>1. TypeOK' /\ TransportInv' /\ store' = [device |-> issued, refresh |-> issued]
    BY <1>7, Applies
  <2> QED
    BY <2>1, Numbers, Counts DEF TransportInv, ReadFromStore
<1>8. ASSUME NEW t \in Tasks, RefreshRefused(t)
      PROVE  TypeOK' /\ TransportInv' /\ store' = store
  <2>1. /\ pc[t] = "refresh" /\ ~Answered(t) /\ Finish(t, "auth")
        /\ UNCHANGED <<server, store, net, reply, dropped>>
    BY <1>8 DEF RefreshRefused, Answered
  <2> QED
    BY <2>1, <1>f, Finishes DEF TypeOK
<1>9. ASSUME NEW m \in net, HandleRefresh(m) PROVE TypeOK' /\ TransportInv' /\ store' = store
  BY <1>9, Refuses, Exchanges DEF HandleRefresh
<1>10. CASE Expire
  <2>1. /\ expired' = TRUE /\ expiries' = expiries + 1 /\ expiries < MaxExpiries
        /\ UNCHANGED <<issued, store, net, reply, pc, attempt, token, result, dropped>>
    BY <1>10 DEF Expire
  <2>2. TypeOK'
    BY <2>1, Counts DEF TypeOK
  <2> QED
    BY <2>1, <2>2, <1>s DEF TransportInv, Spent, ReadFromStore, CopiesOfOneCall,
        AnswerAhead, Answered, TokensNotLost
<1>11. CASE UNCHANGED vars
  BY <1>11, <1>s DEF vars, TypeOK, TransportInv, Spent, ReadFromStore, CopiesOfOneCall,
        AnswerAhead, Answered, TokensNotLost
<1> QED
  BY <1>s, <1>1, <1>2, <1>3, <1>4, <1>5, <1>6, <1>7, <1>8, <1>9, <1>10, <1>11
  DEF Next, Step

(* Types and invariant rest on each other: the tokens stay in their set as *)
(* each was issued to another task.                                        *)
LEMMA Reachable == Spec => [](TypeOK /\ TransportInv)
<1>1. Init => TypeOK /\ TransportInv
  BY InitInv
<1>2. TypeOK /\ TransportInv /\ [Next]_vars => (TypeOK /\ TransportInv)'
  BY InvStep
<1> QED
  BY <1>1, <1>2, PTL DEF Spec

(* Attempts stay within max_attempts, and tokens and answers in their sets.*)
THEOREM TypeCorrect == Spec => []TypeOK
  BY Reachable, PTL

(* The inductive invariant: an answer to refresh() that waits to be stored *)
(* is the only way to the pair in force, and each pair cost one task its   *)
(* call.                                                                   *)
THEOREM Invariance == Spec => []TransportInv
  BY Reachable, PTL

(* Requests that overlap never lose the tokens in force: only an answer    *)
(* that did not arrive does.                                               *)
THEOREM TokensKept == Spec => []TokensNotLost
<1>1. TransportInv => TokensNotLost
  BY DEF TransportInv
<1> QED
  BY <1>1, Invariance, PTL

(* A request exchanges the tokens at most once, however often it sends     *)
(* them.                                                                   *)
THEOREM ExchangedOnce == Spec => []OneExchangeEach
<1>1. ASSUME TypeOK, TransportInv PROVE OneExchangeEach
  <2> DEFINE called == {t \in Tasks : pc[t] \in {"refresh", "second", "done"}}
  <2>1. Spent \subseteq called /\ Spent \subseteq Tasks /\ called \subseteq Tasks
    BY DEF Spent
  <2> HIDE DEF called
  <2>2. Cardinality(Spent) <= Cardinality(called)
    BY <2>1, Counts, FS_Subset
  <2>3. Cardinality(Spent) \in Nat /\ Cardinality(called) \in Nat
    BY <2>1, Counts
  <2>4. issued \in Nat /\ issued <= 1 + Cardinality(Spent)
    BY <1>1, Numbers DEF TransportInv
  <2>5. issued <= 1 + Cardinality(called)
    BY <2>2, <2>3, <2>4
  <2> QED
    BY <2>5 DEF OneExchangeEach, called
<1>2. TypeOK /\ TransportInv => OneExchangeEach
  BY <1>1
<1> QED
  BY <1>2, Reachable, PTL

(* The credential store never goes back to older tokens.                   *)
THEOREM StoreAdvances == Spec => StoreNeverGoesBack
<1>1. TypeOK /\ TransportInv /\ [Next]_vars =>
        [store'.device >= store.device /\ store'.refresh >= store.refresh]_vars
  BY InvStep
<1> QED
  BY <1>1, Reachable, PTL DEF Spec, StoreNeverGoesBack

=============================================================================
