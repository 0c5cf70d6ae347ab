------------------------------ MODULE Revisions ------------------------------
(***************************************************************************)
(* The revision log of one environment, written by concurrent calls of the *)
(* client's push, push(base_rev), set and rollback, each of which runs its *)
(* requests through the retrying transport.                                *)
(*                                                                         *)
(* A call is one invocation of one of these methods, by any client on any  *)
(* device: the calls share nothing but the server.  A POST is sent once    *)
(* per attempt, and each copy reaches the server at any later time or      *)
(* never; a copy whose attempt the client gave up waiting for is still     *)
(* handled (a ReadTimeout says nothing of the server).                     *)
(*                                                                         *)
(* The content of a revision is the set of calls whose updates it carries: *)
(* a push replaces everything, a merge adds the call to what it read.      *)
(***************************************************************************)
EXTENDS Naturals, Sequences, FiniteSets

CONSTANTS
    Calls,          \* invocations of push, set and rollback
    MaxAttempts     \* max_attempts of the transport

ASSUME AttemptsAssumption == MaxAttempts \in Nat \ {0}

VARIABLES
    log,        \* server: the revisions, numbered from 1
    net,        \* copies of POSTs on their way to the server
    reply,      \* reply[c]: the server's answer to the attempt c waits for
    kind,       \* kind[c]: the method c invokes
    pc,         \* pc[c]: the request c is at
    attempt,    \* attempt[c]: number of sends of that request so far
    rev,        \* rev[c]: parent_rev of a push, to_rev of a rollback
    data,       \* data[c]: the payload, as the set of updates it carries
    result      \* result[c]: what the method returned or raised

vars == <<log, net, reply, kind, pc, attempt, rev, data, result>>
local == <<kind, rev, data>>

Kinds   == {"none", "push", "pushBase", "set", "rollback"}
PCs     == {"idle", "pull", "latest", "post", "done"}
Results == {"none", "ok", "conflict", "error"}

Revision == [author : Calls, content : SUBSET Calls]
Copy     == [call : Calls, attempt : 1..MaxAttempts]
Reply    == [status : {"none", "ok", "conflict"}, rev : Nat]

NoReply == [status |-> "none", rev |-> 0]

(* The decrypted content of revision r; an environment without revisions   *)
(* answers 404 to revisions/last, which set turns into an empty dict.      *)
ContentAt(r) == IF r \in 1..Len(log) THEN log[r].content ELSE {}

LatestRev == Len(log)

-----------------------------------------------------------------------------
Init ==
    /\ log = <<>>
    /\ net = {}
    /\ reply = [c \in Calls |-> NoReply]
    /\ kind = [c \in Calls |-> "none"]
    /\ pc = [c \in Calls |-> "idle"]
    /\ attempt = [c \in Calls |-> 0]
    /\ rev = [c \in Calls |-> 0]
    /\ data = [c \in Calls |-> {}]
    /\ result = [c \in Calls |-> "none"]

(* _send: the first attempt of a request. *)
Get(c, at) ==
    /\ pc' = [pc EXCEPT ![c] = at]
    /\ attempt' = [attempt EXCEPT ![c] = 1]
    /\ net' = net

Post(c) ==
    /\ pc' = [pc EXCEPT ![c] = "post"]
    /\ attempt' = [attempt EXCEPT ![c] = 1]
    /\ net' = net \cup {[call |-> c, attempt |-> 1]}

(* push without base_rev asks for the latest revision first. *)
StartPush(c) ==
    /\ pc[c] = "idle"
    /\ Get(c, "latest")
    /\ kind' = [kind EXCEPT ![c] = "push"]
    /\ data' = [data EXCEPT ![c] = {c}]
    /\ UNCHANGED <<log, reply, rev, result>>

(* Mutant of StartPushBase: `base_rev or self._latest_rev(...)` takes the  *)
(* legal base_rev 0 for a missing one.                                     *)
StartPushBaseFalsy(c, b) ==
    /\ pc[c] = "idle"
    /\ Post(c)
    /\ kind' = [kind EXCEPT ![c] = "pushBase"]
    /\ rev' = [rev EXCEPT ![c] = IF b = 0 THEN LatestRev ELSE b]
    /\ data' = [data EXCEPT ![c] = ContentAt(b) \cup {c}]
    /\ UNCHANGED <<log, reply, result>>

(* push with base_rev = b: the caller edited what it had read at b. *)
StartPushBase(c, b) ==
    /\ pc[c] = "idle"
    /\ Post(c)
    /\ kind' = [kind EXCEPT ![c] = "pushBase"]
    /\ rev' = [rev EXCEPT ![c] = b]
    /\ data' = [data EXCEPT ![c] = ContentAt(b) \cup {c}]
    /\ UNCHANGED <<log, reply, result>>

StartSet(c) ==
    /\ pc[c] = "idle"
    /\ Get(c, "pull")
    /\ kind' = [kind EXCEPT ![c] = "set"]
    /\ UNCHANGED <<log, reply, rev, data, result>>

StartRollback(c, r) ==
    /\ pc[c] = "idle"
    /\ Post(c)
    /\ kind' = [kind EXCEPT ![c] = "rollback"]
    /\ rev' = [rev EXCEPT ![c] = r]
    /\ UNCHANGED <<log, reply, data, result>>

(* set: the answer to pull(last) is merged with the updates, and push is   *)
(* called without base_rev, which sends the next GET.                      *)
Pulled(c) ==
    /\ pc[c] = "pull"
    /\ data' = [data EXCEPT ![c] = ContentAt(LatestRev) \cup {c}]
    /\ Get(c, "latest")
    /\ UNCHANGED <<log, reply, kind, rev, result>>

(* push: the answer to list_envs gives parent_rev, and the POST follows. *)
GotLatest(c) ==
    /\ pc[c] = "latest"
    /\ rev' = [rev EXCEPT ![c] = LatestRev]
    /\ Post(c)
    /\ UNCHANGED <<log, reply, kind, data, result>>

(* Mutant of Retry: the retry wraps all of push, _latest_rev included. *)
RetryWholePush(c) ==
    /\ pc[c] \in {"pull", "latest", "post"}
    /\ attempt[c] < MaxAttempts
    /\ attempt' = [attempt EXCEPT ![c] = @ + 1]
    /\ net' = IF pc[c] = "post"
              THEN net \cup {[call |-> c, attempt |-> attempt[c] + 1]} ELSE net
    /\ rev' = [rev EXCEPT ![c] = LatestRev]
    /\ reply' = [reply EXCEPT ![c] = NoReply]
    /\ UNCHANGED <<log, pc, result, kind, data>>

(* Mutant of Retry: one attempt too many. *)
RetryOneMore(c) ==
    /\ pc[c] \in {"pull", "latest", "post"}
    /\ attempt[c] <= MaxAttempts
    /\ attempt' = [attempt EXCEPT ![c] = @ + 1]
    /\ net' = IF pc[c] = "post"
              THEN net \cup {[call |-> c, attempt |-> attempt[c] + 1]} ELSE net
    /\ reply' = [reply EXCEPT ![c] = NoReply]
    /\ UNCHANGED <<log, pc, result, local>>

(* An attempt failed in a way the retrying controller retries: a timeout,  *)
(* a broken connection, a retryable status.  The next attempt sends the    *)
(* same request; an answer to the failed one reaches nobody.               *)
Retry(c) ==
    /\ pc[c] \in {"pull", "latest", "post"}
    /\ attempt[c] < MaxAttempts
    /\ attempt' = [attempt EXCEPT ![c] = @ + 1]
    /\ net' = IF pc[c] = "post"
              THEN net \cup {[call |-> c, attempt |-> attempt[c] + 1]} ELSE net
    /\ reply' = [reply EXCEPT ![c] = NoReply]
    /\ UNCHANGED <<log, pc, result, local>>

Finish(c, res) ==
    /\ pc' = [pc EXCEPT ![c] = "done"]
    /\ result' = [result EXCEPT ![c] = res]
    /\ UNCHANGED <<log, net, reply, attempt, local>>

(* Mutant of GiveUp: a timeout is reported as a conflict. *)
GiveUpConflict(c) ==
    /\ pc[c] \in {"pull", "latest", "post"}
    /\ attempt[c] = MaxAttempts
    /\ Finish(c, "conflict")

(* stop_after_attempt: the last attempt failed too, its error is raised. *)
GiveUp(c) ==
    /\ pc[c] \in {"pull", "latest", "post"}
    /\ attempt[c] = MaxAttempts
    /\ Finish(c, "error")

(* An error that is not retried (a reset connection, a cancelled task, the *)
(* end of the process) ends the call at any attempt.                       *)
Abort(c) ==
    /\ pc[c] \in {"pull", "latest", "post"}
    /\ attempt[c] < MaxAttempts
    /\ Finish(c, "error")

(* Mutant of Receive: _handle lets the 409 through. *)
ReceiveUnchecked(c) ==
    /\ pc[c] = "post"
    /\ reply[c].status # "none"
    /\ Finish(c, "ok")

(* _handle: a 409 raises RevisionConflictError, a success is returned. *)
Receive(c) ==
    /\ pc[c] = "post"
    /\ reply[c].status # "none"
    /\ Finish(c, reply[c].status)

-----------------------------------------------------------------------------
(* The server's handlers, as the client's use of them fixes them.  A copy  *)
(* of a POST carries rev and data, which its call no longer changes.       *)

Append1(r) == log' = Append(log, r)

(* The answer reaches the call only while it waits for this attempt. *)
Answer(m, status, r) ==
    reply' = IF pc[m.call] = "post" /\ attempt[m.call] = m.attempt
             THEN [reply EXCEPT ![m.call] = [status |-> status, rev |-> r]]
             ELSE reply

(* POST revisions: compare-and-append on parent_rev. *)
ServerPush(m) ==
    /\ kind[m.call] # "rollback"
    /\ net' = net \ {m}
    /\ IF rev[m.call] = LatestRev
       THEN /\ Append1([author |-> m.call, content |-> data[m.call]])
            /\ Answer(m, "ok", LatestRev + 1)
       ELSE /\ Answer(m, "conflict", LatestRev)
            /\ log' = log
    /\ UNCHANGED <<pc, attempt, result, local>>

(* POST rollback: a copy of revision to_rev becomes the latest. *)
ServerRollback(m) ==
    /\ kind[m.call] = "rollback"
    /\ net' = net \ {m}
    /\ Append1([author |-> m.call, content |-> ContentAt(rev[m.call])])
    /\ Answer(m, "ok", LatestRev + 1)
    /\ UNCHANGED <<pc, attempt, result, local>>

Start(c) ==
    \/ StartPush(c)
    \/ \E b \in 0..LatestRev : StartPushBase(c, b)
    \/ StartSet(c)
    \/ \E r \in 1..LatestRev : StartRollback(c, r)

Client(c) == Pulled(c) \/ GotLatest(c) \/ Retry(c) \/ GiveUp(c) \/ Receive(c)

Server == \E m \in net : ServerPush(m) \/ ServerRollback(m)

Next ==
    \/ \E c \in Calls : Start(c) \/ Client(c) \/ Abort(c)
    \/ Server

Spec == Init /\ [][Next]_vars

-----------------------------------------------------------------------------
(* Every variable stays in its set; what a POST carries is set before it   *)
(* is sent, and no attempt number goes past max_attempts.                  *)
TypeOK ==
    /\ log \in Seq(Revision)
    /\ net \subseteq Copy
    /\ reply \in [Calls -> Reply]
    /\ kind \in [Calls -> Kinds]
    /\ pc \in [Calls -> PCs]
    /\ attempt \in [Calls -> 0..MaxAttempts]
    /\ rev \in [Calls -> Nat]
    /\ data \in [Calls -> SUBSET Calls]
    /\ result \in [Calls -> Results]

Commits(c) == {i \in 1..Len(log) : log[i].author = c}

(* A push or a set puts at most one revision in the log however often its  *)
(* POST was sent, and whatever copies of it are handled late: parent_rev   *)
(* is computed once, before the attempts (client.push, retry.py).          *)
CommitsOnce ==
    \A i, j \in 1..Len(log) :
        log[i].author = log[j].author /\ kind[log[i].author] # "rollback" => i = j

(* A method that returned normally has its revision in the log, with the   *)
(* payload it encrypted: an answer is never taken for that of an earlier   *)
(* state of the log or of another call.                                    *)
OkIsCommitted ==
    \A c \in Calls : result[c] = "ok" =>
        \E i \in Commits(c) : kind[c] # "rollback" => log[i].content = data[c]

(* Once RevisionConflictError was raised, no late copy of the refused POST *)
(* can take effect: the caller may merge and push again.                   *)
ConflictIsFinal ==
    [][\A c \in Calls : result[c] = "conflict" => Commits(c)' = Commits(c)]_vars

(* push(base_rev) never drops an update: its revision contains all that    *)
(* the revision before it contained (spec.push_revision's parent_rev).     *)
BaseRevKeepsUpdates ==
    \A i \in 2..Len(log) :
        kind[log[i].author] = "pushBase" => log[i - 1].content \subseteq log[i].content

(* The log and the outcomes of the calls behave like RevisionLog. *)
Abstract == INSTANCE RevisionLog WITH
    copiers <- {c \in Calls : kind[c] = "rollback"},
    authors <- [i \in 1..Len(log) |-> log[i].author],
    outcome <- result

RefinesLog == Abstract!ASpec

-----------------------------------------------------------------------------
(* The inductive invariant behind the safety properties. *)

(* Only a call that has sent its POST has copies, an answer or revisions,  *)
(* and only push and set read before they send it.                         *)
Sent(c) == pc[c] \in {"post", "done"} /\ kind[c] # "none"

SentFirst ==
    /\ \A m \in net : Sent(m.call)
    /\ \A i \in 1..Len(log) : Sent(log[i].author)
    /\ \A c \in Calls : reply[c].status # "none" => Sent(c)
    /\ \A c \in Calls : result[c] # "none" => pc[c] = "done"
    /\ \A c \in Calls : pc[c] \in {"pull", "latest"} => kind[c] \in {"push", "set"}
    /\ \A c \in Calls : pc[c] = "post" => Sent(c)

(* The revision of a push is the successor of its parent_rev. *)
SlotOfParent ==
    \A i \in 1..Len(log) : kind[log[i].author] # "rollback" =>
        i = rev[log[i].author] + 1 /\ log[i].content = data[log[i].author]

(* A parent_rev was read from the log, and a merge contains what it read. *)
ParentWasRead ==
    \A c \in Calls :
        /\ rev[c] <= Len(log)
        /\ kind[c] = "pushBase" => ContentAt(rev[c]) \subseteq data[c]

Committed(c) == \E i \in 1..Len(log) : log[i].author = c

(* An answer, and what the method made of it, is true of the log. *)
AnswersAreTrue ==
    \A c \in Calls :
        /\ "ok" \in {reply[c].status, result[c]} => Committed(c)
        /\ "conflict" \in {reply[c].status, result[c]} =>
               kind[c] # "rollback" /\ rev[c] < Len(log)

(* The conjunction of the above: every step of the client and of the       *)
(* server keeps it.                                                        *)
IInv == TypeOK /\ SentFirst /\ SlotOfParent /\ ParentWasRead /\ AnswersAreTrue

-----------------------------------------------------------------------------
(* What the documentation says, and the code does not do. *)

(* client.py:335 says of set "Merge ``updates`` into the latest revision   *)
(* and push the result": a revision made by set contains what the one      *)
(* before it contained.                                                    *)
SetKeepsUpdates ==
    \A i \in 2..Len(log) :
        kind[log[i].author] = "set" => log[i - 1].content \subseteq log[i].content

(* exceptions.py:92 says of RevisionConflictError "A push was rejected     *)
(* because the remote is ahead": a push that raised it is not in the log.  *)
ConflictMeansRejected ==
    \A c \in Calls : result[c] = "conflict" => Commits(c) = {}

(* api-reference.md:73 says of rollback "Server-side copy of an old        *)
(* revision to a new one": one call makes one revision.                    *)
RollbackOnce ==
    \A c \in Calls : kind[c] = "rollback" =>
        \A i, j \in Commits(c) : i = j

=============================================================================
