-------------------------- MODULE RevisionsProofs --------------------------
(* The safety of Revisions for every set of calls and every max_attempts.  *)
EXTENDS Revisions, TLAPS, SequenceTheorems

(* What appending one revision does to a log. *)
LEMMA AppendedLog ==
    ASSUME NEW l \in Seq(Revision), NEW r \in Revision
    PROVE  /\ Append(l, r) \in Seq(Revision)
           /\ Len(l) \in Nat
           /\ Len(Append(l, r)) = Len(l) + 1
           /\ Append(l, r)[Len(l) + 1] = r
           /\ \A i \in 1..Len(l) : Append(l, r)[i] = l[i]
           /\ \A i \in 1..Len(l) : l[i] \in Revision
  BY AppendProperties, ElementOfSeq, LenProperties

(* The content of any revision number is a set of calls. *)
LEMMA ContentType ==
    ASSUME log \in Seq(Revision), NEW r \in Nat
    PROVE  ContentAt(r) \subseteq Calls
  BY AppendedLog, ElementOfSeq DEF ContentAt, Revision

(* The initial state has the right types. *)
LEMMA TypeInit == Init => TypeOK
  BY AttemptsAssumption
  DEF Init, TypeOK, Reply, NoReply, Kinds, PCs, Results, Revision

(* Every step of the client and of the server keeps TypeOK. *)
LEMMA TypeStep == TypeOK /\ [Next]_vars => TypeOK'
<1> SUFFICES ASSUME TypeOK, [Next]_vars PROVE TypeOK'
  OBVIOUS
<1> USE AttemptsAssumption
<1>1. ASSUME NEW c \in Calls, StartPush(c) PROVE TypeOK'
  BY <1>1 DEF TypeOK, StartPush, Get, Kinds, PCs
<1>2. ASSUME NEW c \in Calls, NEW b \in 0..LatestRev, StartPushBase(c, b)
      PROVE TypeOK'
  <2>1. b \in Nat /\ ContentAt(b) \subseteq Calls
    BY ContentType DEF TypeOK, LatestRev
  <2> QED
    BY <1>2, <2>1 DEF TypeOK, StartPushBase, Post, Kinds, PCs, Copy
<1>3. ASSUME NEW c \in Calls, StartSet(c) PROVE TypeOK'
  BY <1>3 DEF TypeOK, StartSet, Get, Kinds, PCs
<1>4. ASSUME NEW c \in Calls, NEW r \in 1..LatestRev, StartRollback(c, r)
      PROVE TypeOK'
  <2>1. r \in Nat
    BY DEF TypeOK, LatestRev
  <2> QED
    BY <1>4, <2>1 DEF TypeOK, StartRollback, Post, Kinds, PCs, Copy
<1>5. ASSUME NEW c \in Calls, Pulled(c) PROVE TypeOK'
  <2>1. ContentAt(LatestRev) \subseteq Calls
    BY ContentType, LenProperties DEF TypeOK, LatestRev
  <2> QED
    BY <1>5, <2>1 DEF TypeOK, Pulled, Get, PCs
<1>6. ASSUME NEW c \in Calls, GotLatest(c) PROVE TypeOK'
  <2>1. LatestRev \in Nat
    BY LenProperties DEF TypeOK, LatestRev
  <2> QED
    BY <1>6, <2>1 DEF TypeOK, GotLatest, Post, PCs, Copy
<1>7. ASSUME NEW c \in Calls, Retry(c) PROVE TypeOK'
  <2>1. attempt[c] \in 0..MaxAttempts /\ attempt[c] + 1 \in 1..MaxAttempts
    BY <1>7 DEF TypeOK, Retry
  <2>2. net' \subseteq Copy
    BY <1>7, <2>1 DEF TypeOK, Retry, Copy
  <2>3. attempt' \in [Calls -> 0..MaxAttempts]
    BY <1>7, <2>1 DEF TypeOK, Retry
  <2>4. reply' \in [Calls -> Reply]
    BY <1>7 DEF TypeOK, Retry, Reply, NoReply
  <2> QED
    BY <1>7, <2>2, <2>3, <2>4 DEF TypeOK, Retry, local
<1>8. ASSUME NEW c \in Calls, GiveUp(c) \/ Abort(c) PROVE TypeOK'
  BY <1>8 DEF TypeOK, GiveUp, Abort, Finish, PCs, Results, local
<1>9. ASSUME NEW c \in Calls, Receive(c) PROVE TypeOK'
  <2>1. reply[c].status \in Results
    BY DEF TypeOK, Reply, Results
  <2> QED
    BY <1>9, <2>1 DEF TypeOK, Receive, Finish, PCs, local
<1>10. ASSUME NEW m \in net, ServerPush(m) \/ ServerRollback(m) PROVE TypeOK'
  <2>1. /\ m \in Copy /\ m.call \in Calls
        /\ LatestRev \in Nat
        /\ ContentAt(rev[m.call]) \subseteq Calls
    BY ContentType, LenProperties DEF TypeOK, LatestRev, Copy
  <2>2. net' \subseteq Copy
    BY <1>10 DEF TypeOK, ServerPush, ServerRollback
  <2>3. log' \in Seq(Revision)
    <3>1. [author |-> m.call, content |-> data[m.call]] \in Revision
      BY <2>1 DEF TypeOK, Revision
    <3>2. [author |-> m.call, content |-> ContentAt(rev[m.call])] \in Revision
      BY <2>1 DEF Revision
    <3>3. log \in Seq(Revision)
      BY DEF TypeOK
    <3>4. \/ log' = log
          \/ log' = Append(log, [author |-> m.call, content |-> data[m.call]])
          \/ log' = Append(log, [author |-> m.call,
                                content |-> ContentAt(rev[m.call])])
      BY <1>10 DEF ServerPush, ServerRollback, Append1
    <3>5. ASSUME NEW r \in Revision, log' = Append(log, r)
          PROVE  log' \in Seq(Revision)
      BY <3>3, <3>5, AppendedLog
    <3> QED
      BY <3>1, <3>2, <3>3, <3>4, <3>5
  <2>4. ASSUME NEW s \in {"ok", "conflict"}, NEW r \in Nat, Answer(m, s, r)
        PROVE  reply' \in [Calls -> Reply]
    BY <2>1, <2>4 DEF TypeOK, Answer, Reply
  <2>5. reply' \in [Calls -> Reply]
    <3>1. LatestRev \in Nat /\ LatestRev + 1 \in Nat
      BY <2>1
    <3>2. Answer(m, "ok", LatestRev + 1) \/ Answer(m, "conflict", LatestRev)
      BY <1>10 DEF ServerPush, ServerRollback
    <3> QED
      BY <2>4, <3>1, <3>2
  <2> QED
    BY <1>10, <2>2, <2>3, <2>5 DEF TypeOK, ServerPush, ServerRollback, local
<1>11. CASE UNCHANGED vars
  BY <1>11 DEF TypeOK, vars
<1> QED
  BY <1>1, <1>2, <1>3, <1>4, <1>5, <1>6, <1>7, <1>8, <1>9, <1>10, <1>11
  DEF Next, Start, Client, Server

(* Every variable stays in its set, for any number of calls and attempts:  *)
(* in particular no attempt is numbered past max_attempts.                 *)
THEOREM TypeCorrect == Spec => []TypeOK
  BY TypeInit, TypeStep, PTL DEF Spec

-----------------------------------------------------------------------------
(* The strengthening of the safety properties: four facts about who may    *)
(* have revisions, copies and answers, each kept by every step.            *)
Facts == SentFirst /\ SlotOfParent /\ ParentWasRead /\ AnswersAreTrue

(* Revisions and copies belong to calls. *)
LEMMA Typed ==
    ASSUME TypeOK
    PROVE  /\ Len(log) \in Nat
           /\ \A i \in 1..Len(log) : log[i] \in Revision /\ log[i].author \in Calls
           /\ \A m \in net : m.call \in Calls
<1>1. log \in Seq(Revision) /\ net \subseteq Copy
  BY DEF TypeOK
<1>2. Len(log) \in Nat /\ \A i \in 1..Len(log) : log[i] \in Revision
  BY <1>1, LenProperties, ElementOfSeq
<1> QED
  BY <1>1, <1>2 DEF Revision, Copy

(* A call that is not waiting for its POST has nothing on the server yet.  *)
LEMMA NothingSent ==
    ASSUME TypeOK, SentFirst, NEW c \in Calls, ~Sent(c)
    PROVE  /\ \A m \in net : m.call # c
           /\ \A i \in 1..Len(log) : log[i].author # c
           /\ reply[c].status = "none"
           /\ pc[c] # "done" => result[c] = "none"
  BY DEF SentFirst, Sent

(* Starting a call: what it will send is chosen before anything is sent. *)
LEMMA StartKeepsFacts ==
    ASSUME TypeOK, Facts, NEW c \in Calls, Start(c)
    PROVE  Facts'
<1> USE DEF Facts
<1>1. /\ pc[c] = "idle" /\ ~Sent(c)
      /\ log' = log /\ reply' = reply /\ result' = result
      /\ \A d \in Calls \ {c} : /\ pc'[d] = pc[d] /\ kind'[d] = kind[d]
                              /\ rev'[d] = rev[d] /\ data'[d] = data[d]
  BY DEF Start, StartPush, StartPushBase, StartSet, StartRollback, Get, Post,
         TypeOK, Sent
<1>2. /\ \A m \in net : m.call # c
      /\ \A i \in 1..Len(log) : log[i].author # c
      /\ reply[c].status = "none" /\ result[c] = "none"
  BY <1>1, NothingSent
<1>3. /\ Len(log) \in Nat /\ rev[c] <= Len(log)
      /\ \A i \in 1..Len(log) : log[i].author \in Calls
      /\ \A m \in net : m.call \in Calls
  BY Typed DEF ParentWasRead
<1>4. SentFirst'
  <2>1. \A m \in net' : m \in net \/ (m.call = c /\ pc'[c] = "post" /\ kind'[c] # "none")
    BY DEF Start, StartPush, StartPushBase, StartSet, StartRollback, Get, Post,
           TypeOK
  <2>2. \/ pc'[c] \in {"pull", "latest"} /\ kind'[c] \in {"push", "set"}
        \/ pc'[c] = "post" /\ kind'[c] # "none"
    BY DEF Start, StartPush, StartPushBase, StartSet, StartRollback, Get, Post,
           TypeOK
  <2> QED
    BY <1>1, <1>2, <1>3, <2>1, <2>2 DEF SentFirst, Sent
<1>5. SlotOfParent'
  BY <1>1, <1>2, <1>3 DEF SlotOfParent
<1>6. ParentWasRead'
  <2>1. rev'[c] <= Len(log)
    BY <1>3 DEF Start, StartPush, StartPushBase, StartSet, StartRollback,
                LatestRev, TypeOK
  <2>2. kind'[c] = "pushBase" => ContentAt(rev'[c]) \subseteq data'[c]
    BY DEF Start, StartPush, StartPushBase, StartSet, StartRollback, TypeOK
  <2> QED
    BY <1>1, <2>1, <2>2 DEF ParentWasRead, ContentAt
<1>7. AnswersAreTrue'
  BY <1>1, <1>2, <1>3 DEF AnswersAreTrue, Committed
<1> QED
  BY <1>4, <1>5, <1>6, <1>7

(* Between the start and the POST: a set and a push only read. *)
LEMMA ReadKeepsFacts ==
    ASSUME TypeOK, Facts, NEW c \in Calls, Pulled(c) \/ GotLatest(c)
    PROVE  Facts'
<1> USE DEF Facts
<1>1. /\ pc[c] \in {"pull", "latest"} /\ ~Sent(c)
      /\ log' = log /\ reply' = reply /\ result' = result /\ kind' = kind
      /\ \A d \in Calls \ {c} : /\ pc'[d] = pc[d]
                              /\ rev'[d] = rev[d] /\ data'[d] = data[d]
  BY DEF Pulled, GotLatest, Get, Post, TypeOK, Sent
<1>2. /\ \A m \in net : m.call # c
      /\ \A i \in 1..Len(log) : log[i].author # c
      /\ reply[c].status = "none" /\ result[c] = "none"
  BY <1>1, NothingSent
<1>3. /\ Len(log) \in Nat /\ rev[c] <= Len(log)
      /\ \A i \in 1..Len(log) : log[i].author \in Calls
      /\ \A m \in net : m.call \in Calls
  BY Typed DEF ParentWasRead
<1>4. SentFirst'
  <2>1. kind[c] \in {"push", "set"}
    BY <1>1 DEF SentFirst
  <2>2. pc'[c] \in {"latest", "post"}
    BY DEF Pulled, GotLatest, Get, Post, TypeOK
  <2>3. \A m \in net' : m \in net \/ (m.call = c /\ pc'[c] = "post")
    BY DEF Pulled, GotLatest, Get, Post, TypeOK
  <2> QED
    BY <1>1, <1>2, <1>3, <2>1, <2>2, <2>3 DEF SentFirst, Sent
<1>5. SlotOfParent'
  BY <1>1, <1>2, <1>3 DEF SlotOfParent
<1>6. ParentWasRead'
  <2>1. rev'[c] <= Len(log)
    BY <1>3 DEF Pulled, GotLatest, LatestRev, TypeOK
  <2>2. kind[c] # "pushBase"
    BY <1>1 DEF SentFirst
  <2> QED
    BY <1>1, <2>1, <2>2 DEF ParentWasRead, ContentAt
<1>7. AnswersAreTrue'
  BY <1>1, <1>2, <1>3 DEF AnswersAreTrue, Committed
<1> QED
  BY <1>4, <1>5, <1>6, <1>7

(* Waiting for an answer, and returning: another copy may be sent, nothing *)
(* that was sent changes, and the result is the answer received.           *)
LEMMA WaitKeepsFacts ==
    ASSUME TypeOK, Facts, NEW c \in Calls,
           Retry(c) \/ GiveUp(c) \/ Abort(c) \/ Receive(c)
    PROVE  Facts'
<1> USE DEF Facts
<1>1. /\ log' = log /\ kind' = kind /\ rev' = rev /\ data' = data
      /\ pc[c] \in {"pull", "latest", "post"}
  BY DEF Retry, GiveUp, Abort, Receive, Finish, local
<1>2. /\ Len(log) \in Nat
      /\ \A i \in 1..Len(log) : log[i].author \in Calls
      /\ \A m \in net : m.call \in Calls
  BY Typed
<1>3. CASE Retry(c)
  <2>1. /\ pc' = pc /\ result' = result
        /\ reply' = [reply EXCEPT ![c] = NoReply]
        /\ \A m \in net' : m \in net \/ (m.call = c /\ pc[c] = "post")
    BY <1>3 DEF Retry
  <2>2. \A d \in Calls : reply'[d] = reply[d] \/ reply'[d].status = "none"
    BY <2>1 DEF TypeOK, NoReply
  <2>3. pc[c] = "post" => kind[c] # "none"
    BY DEF SentFirst, Sent
  <2>4. SentFirst'
    BY <1>1, <1>2, <2>1, <2>2, <2>3 DEF SentFirst, Sent
  <2>5. SlotOfParent' /\ ParentWasRead'
    BY <1>1 DEF SlotOfParent, ParentWasRead, ContentAt
  <2>6. AnswersAreTrue'
    BY <1>1, <2>1, <2>2 DEF AnswersAreTrue, Committed
  <2> QED
    BY <2>4, <2>5, <2>6
<1>4. ASSUME NEW r, Finish(c, r), r \in {"error", reply[c].status},
             r = reply[c].status => pc[c] = "post"
      PROVE  Facts'
  <2>1. /\ net' = net /\ reply' = reply
        /\ pc' = [pc EXCEPT ![c] = "done"]
        /\ result' = [result EXCEPT ![c] = r]
    BY <1>4 DEF Finish
  <2>2. SentFirst'
    BY <1>1, <1>2, <2>1 DEF SentFirst, Sent, TypeOK
  <2>3. SlotOfParent' /\ ParentWasRead'
    BY <1>1 DEF SlotOfParent, ParentWasRead, ContentAt
  <2>4. AnswersAreTrue'
    BY <1>1, <1>4, <2>1 DEF AnswersAreTrue, Committed, TypeOK
  <2> QED
    BY <2>2, <2>3, <2>4
<1>5. reply[c].status # "error"
  BY DEF TypeOK, Reply
<1> QED
  BY <1>3, <1>4, <1>5 DEF GiveUp, Abort, Receive

(* The server: a revision made for a copy of c's POST stands right after   *)
(* the parent_rev the POST carries, and its answer is true of the new log. *)
LEMMA ServerKeepsFacts ==
    ASSUME TypeOK, Facts, NEW m \in net, ServerPush(m) \/ ServerRollback(m)
    PROVE  Facts'
<1> USE DEF Facts
<1> DEFINE c == m.call
<1>1. /\ pc' = pc /\ kind' = kind /\ rev' = rev /\ data' = data
      /\ result' = result /\ net' \subseteq net
  BY DEF ServerPush, ServerRollback, local
<1>2. /\ Len(log) \in Nat
      /\ \A i \in 1..Len(log) : log[i] \in Revision /\ log[i].author \in Calls
      /\ \A n \in net : n.call \in Calls
      /\ c \in Calls /\ Sent(c)
  BY Typed DEF SentFirst
<1>3. rev \in [Calls -> Nat] /\ rev[c] <= Len(log)
  BY <1>2 DEF TypeOK, ParentWasRead
<1>4. \/ /\ kind[c] # "rollback" /\ rev[c] # Len(log)
         /\ log' = log /\ Answer(m, "conflict", Len(log))
      \/ \E r \in Revision :
            /\ r.author = c
            /\ kind[c] # "rollback" => rev[c] = Len(log) /\ r.content = data[c]
            /\ log' = Append(log, r) /\ Answer(m, "ok", Len(log) + 1)
  <2>1. /\ [author |-> c, content |-> data[c]] \in Revision
        /\ [author |-> c, content |-> ContentAt(rev[c])] \in Revision
    BY <1>2, <1>3, ContentType DEF TypeOK, Revision
  <2> QED
    BY <2>1 DEF ServerPush, ServerRollback, Append1, LatestRev
<1>5. CASE /\ kind[c] # "rollback" /\ rev[c] # Len(log)
           /\ log' = log /\ Answer(m, "conflict", Len(log))
  <2>1. \A d \in Calls :
            reply'[d] = reply[d] \/ (d = c /\ reply'[d].status = "conflict")
    BY <1>2, <1>5 DEF Answer, TypeOK
  <2>2. SentFirst'
    BY <1>1, <1>2, <1>5, <2>1 DEF SentFirst, Sent
  <2>3. SlotOfParent' /\ ParentWasRead'
    BY <1>1, <1>5 DEF SlotOfParent, ParentWasRead, ContentAt
  <2>4. AnswersAreTrue'
    BY <1>1, <1>2, <1>3, <1>5, <2>1 DEF AnswersAreTrue, Committed
  <2> QED
    BY <2>2, <2>3, <2>4
<1>6. ASSUME NEW r \in Revision, r.author = c,
             kind[c] # "rollback" => rev[c] = Len(log) /\ r.content = data[c],
             log' = Append(log, r), Answer(m, "ok", Len(log) + 1)
      PROVE  Facts'
  <2>1. /\ Len(log') = Len(log) + 1
        /\ log'[Len(log) + 1] = r
        /\ \A i \in 1..Len(log) : log'[i] = log[i]
    BY <1>6, AppendedLog DEF TypeOK
  <2>2. \A d \in Calls :
            reply'[d] = reply[d] \/ (d = c /\ reply'[d].status = "ok")
    BY <1>2, <1>6 DEF Answer, TypeOK
  <2>3. \A i \in 1..Len(log') : i \in 1..Len(log) \/ i = Len(log) + 1
    BY <1>2, <2>1
  <2>4. SentFirst'
    BY <1>1, <1>2, <1>6, <2>1, <2>2, <2>3 DEF SentFirst, Sent
  <2>5. SlotOfParent'
    BY <1>1, <1>2, <1>3, <1>6, <2>1, <2>3 DEF SlotOfParent
  <2>6. ParentWasRead'
    <3> SUFFICES ASSUME NEW d \in Calls
                 PROVE  /\ rev'[d] <= Len(log')
                        /\ kind'[d] = "pushBase" => ContentAt(rev[d])' \subseteq data'[d]
      BY <1>1 DEF ParentWasRead
    <3>1. rev[d] \in Nat /\ rev[d] <= Len(log) /\ rev'[d] = rev[d]
      BY <1>1, <1>3 DEF ParentWasRead
    <3>2. rev'[d] <= Len(log')
      BY <1>2, <2>1, <3>1
    <3>3. (rev[d] \in 1..Len(log')) = (rev[d] \in 1..Len(log))
      BY <1>2, <2>1, <3>1
    <3>4. ContentAt(rev[d])' = ContentAt(rev[d])
      BY <2>1, <3>1, <3>3 DEF ContentAt
    <3> QED
      BY <1>1, <3>2, <3>4 DEF ParentWasRead
  <2>7. \A d \in Calls : Committed(d) => Committed(d)'
    BY <1>2, <2>1 DEF Committed
  <2>8. Committed(c)'
    BY <1>2, <1>6, <2>1 DEF Committed
  <2>9. AnswersAreTrue'
    <3> SUFFICES ASSUME NEW d \in Calls
                 PROVE  /\ "ok" \in {reply'[d].status, result'[d]} => Committed(d)'
                        /\ "conflict" \in {reply'[d].status, result'[d]} =>
                              kind'[d] # "rollback" /\ rev'[d] < Len(log')
      BY DEF AnswersAreTrue
    <3>1. "ok" \in {reply'[d].status, result'[d]} => Committed(d)'
      BY <1>1, <2>2, <2>7, <2>8 DEF AnswersAreTrue
    <3>2. "conflict" \in {reply'[d].status, result'[d]} =>
             kind'[d] # "rollback" /\ rev'[d] < Len(log')
      BY <1>1, <1>2, <1>3, <2>1, <2>2 DEF AnswersAreTrue
    <3> QED
      BY <3>1, <3>2
  <2> QED
    BY <2>4, <2>5, <2>6, <2>9
<1> QED
  BY <1>4, <1>5, <1>6

(* Every step keeps the inductive invariant. *)
LEMMA InvStep == IInv /\ [Next]_vars => IInv'
<1> SUFFICES ASSUME TypeOK, Facts, [Next]_vars PROVE TypeOK' /\ Facts'
  BY DEF IInv, Facts
<1>1. TypeOK'
  BY TypeStep
<1>2. CASE Next
  BY <1>1, <1>2, StartKeepsFacts, ReadKeepsFacts, WaitKeepsFacts, ServerKeepsFacts
  DEF Next, Client, Server
<1>3. CASE UNCHANGED vars
  BY <1>1, <1>3 DEF vars, Facts, SentFirst, Sent, SlotOfParent, ParentWasRead,
              ContentAt, AnswersAreTrue, Committed
<1> QED
  BY <1>1, <1>2, <1>3

(* The initial state satisfies the inductive invariant. *)
LEMMA InvInit == Init => IInv
<1> SUFFICES ASSUME Init PROVE Facts
  BY TypeInit DEF IInv, Facts
<1> QED
  BY DEF Init, NoReply, Facts, SentFirst, Sent, SlotOfParent, ParentWasRead,
         ContentAt, AnswersAreTrue, Committed

(* The invariant that carries the safety properties holds in every state,  *)
(* for any number of concurrent calls and any max_attempts.                *)
THEOREM Invariance == Spec => []IInv
  BY InvInit, InvStep, PTL DEF Spec

-----------------------------------------------------------------------------
(* A push or a set appends at most one revision, however often its POST    *)
(* was sent and however late a copy of it is handled.                      *)
THEOREM AtMostOnce == Spec => []CommitsOnce
<1>1. IInv => CommitsOnce
  BY Typed DEF IInv, SlotOfParent, CommitsOnce, TypeOK
<1> QED
  BY <1>1, Invariance, PTL

(* A method that returned normally has its payload in the log. *)
THEOREM SuccessIsCommitted == Spec => []OkIsCommitted
<1>1. IInv => OkIsCommitted
  BY DEF IInv, AnswersAreTrue, Committed, SlotOfParent, OkIsCommitted, Commits
<1> QED
  BY <1>1, Invariance, PTL

(* push(base_rev) never overwrites an update its caller has not read. *)
THEOREM NoLostUpdateWithBase == Spec => []BaseRevKeepsUpdates
<1>1. IInv => BaseRevKeepsUpdates
  <2> SUFFICES ASSUME IInv, NEW i \in 2..Len(log),
                      kind[log[i].author] = "pushBase"
               PROVE  log[i - 1].content \subseteq log[i].content
    BY DEF BaseRevKeepsUpdates
  <2> DEFINE c == log[i].author
  <2>1. /\ i \in 1..Len(log) /\ i \in Nat /\ c \in Calls /\ rev[c] \in Nat
        /\ Len(log) \in Nat
    BY Typed DEF IInv, TypeOK
  <2>2. i = rev[c] + 1 /\ log[i].content = data[c]
    BY <2>1 DEF IInv, SlotOfParent
  <2>3. rev[c] = i - 1 /\ rev[c] \in 1..Len(log)
    BY <2>1, <2>2
  <2> QED
    BY <2>1, <2>2, <2>3 DEF IInv, ParentWasRead, ContentAt
<1> QED
  BY <1>1, Invariance, PTL

(* After RevisionConflictError no copy of the refused POST takes effect. *)
THEOREM RefusedForGood == Spec => ConflictIsFinal
<1> DEFINE Kept == \A c \in Calls : result[c] = "conflict" => Commits(c)' = Commits(c)
<1>1. IInv /\ [Next]_vars => [Kept]_vars
  <2> SUFFICES ASSUME IInv, Next, NEW c \in Calls, result[c] = "conflict"
               PROVE  Commits(c)' = Commits(c)
    OBVIOUS
  <2>1. kind[c] # "rollback" /\ rev[c] < Len(log) /\ log \in Seq(Revision)
    BY DEF IInv, AnswersAreTrue, TypeOK
  <2>2. CASE log' = log
    BY <2>2 DEF Commits
  <2>3. CASE \E r \in Revision : r.author # c /\ log' = Append(log, r)
    <3> PICK r \in Revision : r.author # c /\ log' = Append(log, r)
      BY <2>3
    <3>1. /\ Len(log) \in Nat /\ Len(log') = Len(log) + 1
          /\ log'[Len(log) + 1] = r
          /\ \A i \in 1..Len(log) : log'[i] = log[i]
      BY <2>1, AppendedLog
    <3> QED
      BY <3>1 DEF Commits
  <2>4. ASSUME NEW m \in net, ServerPush(m) \/ ServerRollback(m), log' # log
        PROVE  \E r \in Revision : r.author # c /\ log' = Append(log, r)
    <3>1. m.call # c
      BY <2>1, <2>4, Typed DEF ServerPush, ServerRollback, LatestRev, IInv, TypeOK
    <3>2. /\ m.call \in Calls
          /\ [author |-> m.call, content |-> data[m.call]] \in Revision
          /\ [author |-> m.call, content |-> ContentAt(rev[m.call])] \in Revision
      BY Typed, ContentType DEF IInv, TypeOK, Revision
    <3> QED
      BY <2>4, <3>1, <3>2 DEF ServerPush, ServerRollback, Append1
  <2>5. (\E m \in net : ServerPush(m) \/ ServerRollback(m)) \/ log' = log
    BY DEF Next, Start, Client, Server, StartPush, StartPushBase, StartSet,
           StartRollback, Pulled, GotLatest, Retry, GiveUp, Abort, Receive, Finish
  <2> QED
    BY <2>2, <2>3, <2>4, <2>5
<1> QED
  BY <1>1, Invariance, PTL DEF Spec, ConflictIsFinal

-----------------------------------------------------------------------------
(* Revisions implements RevisionLog.  The abstract log of a state: the     *)
(* authors of its revisions.                                               *)
Authors(l) == [i \in 1..Len(l) |-> l[i].author]

(* The authors of a log are a sequence of calls, which grows with the log. *)
LEMMA AuthorsTyped ==
    ASSUME NEW l \in Seq(Revision)
    PROVE  /\ Authors(l) \in Seq(Calls)
           /\ Len(Authors(l)) = Len(l)
           /\ \A i \in 1..Len(l) : Authors(l)[i] = l[i].author
<1>1. Len(l) \in Nat /\ \A i \in 1..Len(l) : l[i] \in Revision
  BY AppendedLog, LenProperties, ElementOfSeq
<1>2. \A i \in 1..Len(l) : l[i].author \in Calls
  BY <1>1 DEF Revision
<1>3. Authors(l) \in [1..Len(l) -> Calls]
  BY <1>2 DEF Authors
<1>4. Authors(l) \in Seq(Calls)
  BY <1>1, <1>3
<1>5. Len(Authors(l)) = Len(l)
  BY <1>1, <1>3, <1>4, LenProperties
<1> QED
  BY <1>1, <1>4, <1>5 DEF Authors

(* Appending a revision appends its author. *)
LEMMA AuthorsAppend ==
    ASSUME NEW l \in Seq(Revision), NEW r \in Revision
    PROVE  Authors(Append(l, r)) = Append(Authors(l), r.author)
<1>1. /\ Append(l, r) \in Seq(Revision) /\ r.author \in Calls
      /\ Len(l) \in Nat /\ Len(Append(l, r)) = Len(l) + 1
      /\ Append(l, r)[Len(l) + 1] = r
      /\ \A i \in 1..Len(l) : Append(l, r)[i] = l[i]
  BY AppendedLog DEF Revision
<1>2. /\ Authors(l) \in Seq(Calls) /\ Len(Authors(l)) = Len(l)
      /\ \A i \in 1..Len(l) : Authors(l)[i] = l[i].author
  BY AuthorsTyped
<1>3. /\ Authors(Append(l, r)) \in Seq(Calls)
      /\ Len(Authors(Append(l, r))) = Len(l) + 1
      /\ \A i \in 1..Len(l) + 1 : Authors(Append(l, r))[i] = Append(l, r)[i].author
  BY <1>1, AuthorsTyped
<1>4. /\ Append(Authors(l), r.author) \in Seq(Calls)
      /\ Len(Append(Authors(l), r.author)) = Len(l) + 1
      /\ \A i \in 1..Len(l) : Append(Authors(l), r.author)[i] = l[i].author
      /\ Append(Authors(l), r.author)[Len(l) + 1] = r.author
  BY <1>1, <1>2, AppendProperties
<1>5. \A i \in 1..Len(l) + 1 :
          Authors(Append(l, r))[i] = Append(Authors(l), r.author)[i]
  BY <1>1, <1>3, <1>4
<1> QED
  BY <1>3, <1>4, <1>5, SeqEqual

(* The abstract copiers: the calls of rollback. *)
Copiers == {c \in Calls : kind[c] = "rollback"}

(* What a call is, is chosen when it starts. *)
Unstarted == \A c \in Calls : pc[c] = "idle" => kind[c] = "none"

(* No call has a method before it starts. *)
LEMMA NothingStarted == Spec => []Unstarted
<1>1. Init => Unstarted
  BY DEF Init, Unstarted
<1>2. TypeOK /\ Unstarted /\ [Next]_vars => Unstarted'
  <2> SUFFICES ASSUME TypeOK, Unstarted, [Next]_vars PROVE Unstarted'
    OBVIOUS
  <2>1. ASSUME NEW c \in Calls, Start(c) PROVE Unstarted'
    BY <2>1 DEF Start, StartPush, StartPushBase, StartSet, StartRollback, Get, Post,
                TypeOK, Unstarted
  <2>2. ASSUME NEW c \in Calls, Client(c) \/ Abort(c) PROVE Unstarted'
    BY <2>2 DEF Client, Pulled, GotLatest, Retry, GiveUp, Abort, Receive, Finish, Get,
                Post, local, TypeOK, Unstarted
  <2>3. CASE Server
    BY <2>3 DEF Server, ServerPush, ServerRollback, local, Unstarted
  <2>4. CASE UNCHANGED vars
    BY <2>4 DEF vars, Unstarted
  <2> QED
    BY <2>1, <2>2, <2>3, <2>4 DEF Next
<1> QED
  BY <1>1, <1>2, TypeCorrect, PTL DEF Spec

(* The effects of a call in RevisionLog are its revisions. *)
LEMMA EffectsAreCommits ==
    ASSUME IInv, NEW c \in Calls
    PROVE  /\ Abstract!Effects(c) = Commits(c)
           /\ Len(Authors(log)) = Len(log)
  BY AuthorsTyped DEF IInv, TypeOK, Abstract!Effects, Authors, Commits

(* A step that touches neither the log nor a result, and makes no call a   *)
(* rollback, is a stutter of RevisionLog.                                  *)
LEMMA Stutters ==
    ASSUME UNCHANGED <<log, result>>, Copiers' = Copiers
    PROVE  UNCHANGED Abstract!avars
  BY DEF Copiers, Abstract!avars

(* Starting a rollback declares it a copier; the other starts stutter. *)
LEMMA StartMaps ==
    ASSUME IInv, Unstarted, NEW c \in Calls, Start(c)
    PROVE  Abstract!StartCopy(c) \/ UNCHANGED Abstract!avars
<1>1. UNCHANGED <<log, result>> /\ pc[c] = "idle" /\ kind[c] = "none"
  BY DEF Start, StartPush, StartPushBase, StartSet, StartRollback, Unstarted
<1>2. CASE \E r \in 1..LatestRev : StartRollback(c, r)
  <2>1. result[c] = "none" /\ Commits(c) = {}
    BY <1>1, NothingSent DEF IInv, Sent, Commits
  <2>2. Copiers' = Copiers \cup {c}
    BY <1>2 DEF StartRollback, Copiers, IInv, TypeOK
  <2> QED
    BY <1>1, <2>1, <2>2, EffectsAreCommits DEF Abstract!StartCopy, Copiers
<1>3. CASE StartPush(c) \/ StartSet(c) \/ \E b \in 0..LatestRev : StartPushBase(c, b)
  <2>1. Copiers' = Copiers
    BY <1>1, <1>3 DEF StartPush, StartSet, StartPushBase, Copiers, IInv, TypeOK
  <2> QED
    BY <1>1, <2>1, Stutters
<1> QED
  BY <1>2, <1>3 DEF Start

(* A method that ends reports what RevisionLog allows: a success that is   *)
(* in the log, a conflict of a push with a log that has a revision.        *)
LEMMA EndMaps ==
    ASSUME IInv, NEW c \in Calls, GiveUp(c) \/ Abort(c) \/ Receive(c)
    PROVE  \E res \in {"ok", "conflict", "error"} : Abstract!Return(c, res)
<1>1. PICK res \in {"ok", "conflict", "error"} :
          Finish(c, res) /\ pc[c] # "done" /\ res \in {"error", reply[c].status}
  BY DEF GiveUp, Abort, Receive, IInv, TypeOK, Reply
<1>2. result[c] = "none"
  BY <1>1 DEF IInv, SentFirst
<1>3. res = "ok" => Commits(c) # {}
  BY <1>1 DEF IInv, AnswersAreTrue, Committed, Commits
<1>4. res = "conflict" => c \notin Copiers /\ Len(log) > 0
  BY <1>1, Typed DEF IInv, TypeOK, AnswersAreTrue, Copiers
<1>5. /\ result' = [result EXCEPT ![c] = res]
      /\ UNCHANGED <<log, kind>>
  BY <1>1 DEF Finish, local
<1> QED
  BY <1>2, <1>3, <1>4, <1>5, EffectsAreCommits DEF Abstract!Return, Copiers, Authors

(* A POST that the server takes is the effect of its call, the first one   *)
(* of a push, and not one that was refused; a refusal changes nothing.     *)
LEMMA ServerMaps ==
    ASSUME IInv, NEW m \in net, ServerPush(m) \/ ServerRollback(m)
    PROVE  Abstract!TakeEffect(m.call) \/ UNCHANGED Abstract!avars
<1>1. UNCHANGED <<kind, result>> /\ m.call \in Calls /\ Copiers' = Copiers
  BY Typed DEF ServerPush, ServerRollback, local, Copiers, IInv
<1>2. CASE log' = log
  BY <1>1, <1>2, Stutters
<1>3. CASE log' # log
  <2>1. PICK r \in Revision : r.author = m.call /\ log' = Append(log, r)
    <3>1. /\ [author |-> m.call, content |-> data[m.call]] \in Revision
          /\ [author |-> m.call, content |-> ContentAt(rev[m.call])] \in Revision
      BY <1>1, ContentType DEF IInv, TypeOK, Revision
    <3> QED
      BY <1>3, <3>1 DEF ServerPush, ServerRollback, Append1
  <2>2. Authors(log)' = Append(Authors(log), m.call)
    BY <2>1, AuthorsAppend DEF IInv, TypeOK
  <2>3. m.call \notin Copiers => kind[m.call] # "rollback" /\ rev[m.call] = Len(log)
    BY <1>1, <1>3 DEF Copiers, ServerPush, ServerRollback, LatestRev
  <2>4. m.call \notin Copiers => Commits(m.call) = {} /\ result[m.call] # "conflict"
    BY <1>1, <2>3, Typed DEF IInv, TypeOK, SlotOfParent, AnswersAreTrue, Commits
  <2> QED
    BY <1>1, <2>2, <2>4, EffectsAreCommits DEF Abstract!TakeEffect, Copiers, Authors
<1> QED
  BY <1>2, <1>3

(* Every step of the client over its network is a step or a stutter of     *)
(* RevisionLog.                                                            *)
LEMMA StepMaps ==
    IInv /\ Unstarted /\ [Next]_vars => [Abstract!ANext]_(Abstract!avars)
<1> SUFFICES ASSUME IInv, Unstarted, [Next]_vars
             PROVE  Abstract!ANext \/ UNCHANGED Abstract!avars
  OBVIOUS
<1>1. ASSUME NEW c \in Calls, Start(c)
      PROVE  Abstract!ANext \/ UNCHANGED Abstract!avars
  BY <1>1, StartMaps DEF Abstract!ANext
<1>2. ASSUME NEW c \in Calls, Pulled(c) \/ GotLatest(c) \/ Retry(c)
      PROVE  UNCHANGED Abstract!avars
  <2>1. UNCHANGED <<log, result, kind>>
    BY <1>2 DEF Pulled, GotLatest, Retry, local
  <2> QED
    BY <2>1, Stutters DEF Copiers
<1>3. ASSUME NEW c \in Calls, GiveUp(c) \/ Abort(c) \/ Receive(c)
      PROVE  Abstract!ANext
  BY <1>3, EndMaps DEF Abstract!ANext
<1>4. ASSUME NEW m \in net, ServerPush(m) \/ ServerRollback(m)
      PROVE  Abstract!ANext \/ UNCHANGED Abstract!avars
  <2>1. m.call \in Calls
    BY Typed DEF IInv
  <2> QED
    BY <1>4, <2>1, ServerMaps DEF Abstract!ANext
<1>5. CASE UNCHANGED vars
  BY <1>5, Stutters DEF vars, Copiers
<1> QED
  BY <1>1, <1>2, <1>3, <1>4, <1>5 DEF Next, Client, Server

(* The calls of the client, over a network that loses, delays and repeats  *)
(* their requests, implement the append-only log of RevisionLog.           *)
THEOREM Refinement == Spec => RefinesLog
<1>1. Init => Abstract!AInit
  BY DEF Init, Abstract!AInit
<1> QED
  BY <1>1, StepMaps, NothingStarted, Invariance, PTL DEF Spec, RefinesLog, Abstract!ASpec

=============================================================================
