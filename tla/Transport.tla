----------------------------- MODULE Transport -----------------------------
(***************************************************************************)
(* The authenticated, retrying transport, used by several coroutines of    *)
(* one AsyncDotMage at once: bounded retries, one token refresh on a 401,  *)
(* and the credential store they share.                                    *)
(*                                                                         *)
(* The device and the refresh token are a pair the server replaces at each *)
(* refresh, so a token is named by the number of the refresh that issued   *)
(* it.  A refresh is sent once per attempt; each copy may be handled late, *)
(* when its task has gone on to the next attempt or has raised.  Other     *)
(* requests have no effect here: sending one and its answer are one step.  *)
(***************************************************************************)
EXTENDS Naturals, FiniteSets

CONSTANTS
    Tasks,          \* requests of one client that may overlap
    MaxAttempts,    \* max_attempts
    MaxExpiries     \* bound: how often the device token expires

ASSUME TransportAssumption ==
    IsFiniteSet(Tasks) /\ MaxAttempts \in Nat \ {0} /\ MaxExpiries \in Nat

VARIABLES
    issued,     \* server: number of the tokens in force
    expired,    \* server: whether the device token has expired
    expiries,   \* how often it has
    store,      \* client: device and refresh token in the credential store
    net,        \* copies of refresh requests on their way
    reply,      \* reply[t]: the answer to the refresh attempt t waits for
    pc,         \* pc[t]: first send, refresh, second send
    attempt,    \* attempt[t]: sends in this phase
    token,      \* token[t]: the token captured for this phase
    result,     \* result[t]: what request returned or raised
    dropped     \* whether the answer to a handled refresh got lost

vars == <<issued, expired, expiries, store, net, reply, pc, attempt, token,
          result, dropped>>
server == <<issued, expired, expiries>>

None == 0
Tokens == 0..(1 + Cardinality(Tasks))

(* The answer to a refresh: the number of the new pair, or a refusal. *)
Refused == 2 + Cardinality(Tasks)
Answered(t) == reply[t] \notin {None, Refused}

PCs == {"idle", "first", "refresh", "second", "done"}
Results == {"none", "ok", "auth", "error"}
Copy == [task : Tasks, attempt : 1..MaxAttempts, token : Nat]

-----------------------------------------------------------------------------
(* A client has both tokens, or only a device token (from_ci). *)
Init ==
    /\ issued = 1 /\ expired = FALSE /\ expiries = 0
    /\ store \in {[device |-> 1, refresh |-> 1], [device |-> 1, refresh |-> None]}
    /\ net = {}
    /\ reply = [t \in Tasks |-> None]
    /\ pc = [t \in Tasks |-> "idle"]
    /\ attempt = [t \in Tasks |-> 0]
    /\ token = [t \in Tasks |-> None]
    /\ result = [t \in Tasks |-> "none"]
    /\ dropped = FALSE

(* _send captures the token before the first attempt. *)
Send(t, at, tok) ==
    /\ pc' = [pc EXCEPT ![t] = at]
    /\ attempt' = [attempt EXCEPT ![t] = 1]
    /\ token' = [token EXCEPT ![t] = tok]

Finish(t, res) ==
    /\ pc' = [pc EXCEPT ![t] = "done"]
    /\ result' = [result EXCEPT ![t] = res]
    /\ UNCHANGED <<attempt, token>>

Start(t) ==
    /\ pc[t] = "idle"
    /\ Send(t, "first", store.device)
    /\ UNCHANGED <<server, store, net, reply, result, dropped>>

Accepted(t) == token[t] = issued /\ ~expired

(* The server accepts the token. *)
Succeed(t) ==
    /\ pc[t] \in {"first", "second"}
    /\ Accepted(t)
    /\ Finish(t, "ok")
    /\ UNCHANGED <<server, store, net, reply, dropped>>

(* Mutant of StartRefresh: a 401 on the second send refreshes again. *)
StartRefreshAgain(t) ==
    /\ pc[t] \in {"first", "second"}
    /\ ~Accepted(t)
    /\ store.refresh # None
    /\ Send(t, "refresh", store.refresh)
    /\ net' = net \cup {[task |-> t, attempt |-> 1, token |-> store.refresh]}
    /\ UNCHANGED <<server, store, reply, result, dropped>>

(* 401 on the first send, with a refresh token: refresh() is called, and   *)
(* reads the token it sends without an await in between.                   *)
StartRefresh(t) ==
    /\ pc[t] = "first"
    /\ ~Accepted(t)
    /\ store.refresh # None
    /\ Send(t, "refresh", store.refresh)
    /\ net' = net \cup {[task |-> t, attempt |-> 1, token |-> store.refresh]}
    /\ UNCHANGED <<server, store, reply, result, dropped>>

(* 401 that is not answered by a refresh: no refresh token, or the second  *)
(* send.                                                                   *)
Unauthorized(t) ==
    /\ \/ pc[t] = "first" /\ store.refresh = None
       \/ pc[t] = "second"
    /\ ~Accepted(t)
    /\ Finish(t, "auth")
    /\ UNCHANGED <<server, store, net, reply, dropped>>

(* Mutant of Retry: a retry too many. *)
RetryOneMore(t) ==
    /\ pc[t] \in {"first", "refresh", "second"}
    /\ attempt[t] <= MaxAttempts
    /\ attempt' = [attempt EXCEPT ![t] = @ + 1]
    /\ net' = IF pc[t] = "refresh"
              THEN net \cup {[task |-> t, attempt |-> attempt[t] + 1,
                              token |-> token[t]]} ELSE net
    /\ reply' = [reply EXCEPT ![t] = None]
    /\ dropped' = (dropped \/ (pc[t] = "refresh" /\ Answered(t)))
    /\ UNCHANGED <<server, store, pc, token, result>>

(* A retryable failure.  The next attempt carries the captured token. *)
Retry(t) ==
    /\ pc[t] \in {"first", "refresh", "second"}
    /\ attempt[t] < MaxAttempts
    /\ attempt' = [attempt EXCEPT ![t] = @ + 1]
    /\ net' = IF pc[t] = "refresh"
              THEN net \cup {[task |-> t, attempt |-> attempt[t] + 1,
                              token |-> token[t]]} ELSE net
    /\ reply' = [reply EXCEPT ![t] = None]
    /\ dropped' = (dropped \/ (pc[t] = "refresh" /\ Answered(t)))
    /\ UNCHANGED <<server, store, pc, token, result>>

(* Mutant of GiveUp: none of the attempts is the last. *)
GiveUpNever(t) ==
    /\ pc[t] \in {"first", "refresh", "second"}
    /\ attempt[t] > MaxAttempts
    /\ Finish(t, "error")
    /\ dropped' = (dropped \/ (pc[t] = "refresh" /\ Answered(t)))
    /\ UNCHANGED <<server, store, net, reply>>

(* The last attempt failed too, and its error is raised. *)
GiveUp(t) ==
    /\ pc[t] \in {"first", "refresh", "second"}
    /\ attempt[t] = MaxAttempts
    /\ Finish(t, "error")
    /\ dropped' = (dropped \/ (pc[t] = "refresh" /\ Answered(t)))
    /\ UNCHANGED <<server, store, net, reply>>

(* An error that is not retried, or a cancelled task, at any attempt. *)
Abort(t) ==
    /\ pc[t] \in {"first", "refresh", "second"}
    /\ attempt[t] < MaxAttempts
    /\ Finish(t, "error")
    /\ dropped' = (dropped \/ (pc[t] = "refresh" /\ Answered(t)))
    /\ UNCHANGED <<server, store, net, reply>>

(* Mutant of ApplyRefresh: the refresh token is kept. *)
ApplyDeviceToken(t) ==
    /\ pc[t] = "refresh"
    /\ Answered(t)
    /\ store' = [store EXCEPT !.device = reply[t]]
    /\ Send(t, "second", reply[t])
    /\ UNCHANGED <<server, net, reply, result, dropped>>

(* _apply_refresh: both tokens of the answer are stored, then the request  *)
(* is sent again with the new device token.                                *)
ApplyRefresh(t) ==
    /\ pc[t] = "refresh"
    /\ Answered(t)
    /\ store' = [device |-> reply[t], refresh |-> reply[t]]
    /\ Send(t, "second", reply[t])
    /\ UNCHANGED <<server, net, reply, result, dropped>>

(* Mutant of RefreshRefused: a refused client forgets its tokens. *)
RefusedForgets(t) ==
    /\ pc[t] = "refresh"
    /\ reply[t] = Refused
    /\ store' = [device |-> None, refresh |-> None]
    /\ Finish(t, "auth")
    /\ UNCHANGED <<server, net, reply, dropped>>

(* The refresh was refused: its 401 is raised. *)
RefreshRefused(t) ==
    /\ pc[t] = "refresh"
    /\ reply[t] = Refused
    /\ Finish(t, "auth")
    /\ UNCHANGED <<server, store, net, reply, dropped>>

-----------------------------------------------------------------------------
(* The server, as the client's use of it fixes it. *)

(* POST auth/refresh: a refresh token in force is exchanged for a new pair *)
(* of tokens, any other is refused.                                        *)
HandleRefresh(m) ==
    LET waiting == pc[m.task] = "refresh" /\ attempt[m.task] = m.attempt
        answer(a) == reply' = IF waiting THEN [reply EXCEPT ![m.task] = a] ELSE reply
    IN  /\ net' = net \ {m}
        /\ IF m.token = issued
           THEN /\ issued' = issued + 1
                /\ expired' = FALSE
                /\ answer(issued + 1)
                /\ dropped' = (dropped \/ ~waiting)
           ELSE /\ answer(Refused)
                /\ UNCHANGED <<issued, expired, dropped>>
        /\ UNCHANGED <<expiries, store, pc, attempt, token, result>>

Expire ==
    /\ ~expired
    /\ expiries < MaxExpiries
    /\ expired' = TRUE
    /\ expiries' = expiries + 1
    /\ UNCHANGED <<issued, store, net, reply, pc, attempt, token, result, dropped>>

Step(t) ==
    \/ Succeed(t)
    \/ StartRefresh(t)
    \/ Unauthorized(t)
    \/ Retry(t)
    \/ GiveUp(t)
    \/ ApplyRefresh(t)
    \/ RefreshRefused(t)

Next ==
    \/ \E t \in Tasks : Start(t) \/ Step(t) \/ Abort(t)
    \/ \E m \in net : HandleRefresh(m)
    \/ Expire

Spec == Init /\ [][Next]_vars

(* An attempt is answered or times out; nothing is assumed of the server.  *)
FairSpec == Spec /\ \A t \in Tasks : WF_vars(Step(t))

-----------------------------------------------------------------------------
(* Every variable stays in its set; attempts stay within max_attempts. *)
TypeOK ==
    /\ issued \in Tokens /\ expired \in BOOLEAN /\ expiries \in 0..MaxExpiries
    /\ store \in [device : Tokens, refresh : Tokens]
    /\ net \subseteq Copy
    /\ reply \in [Tasks -> Tokens \cup {Refused}]
    /\ pc \in [Tasks -> PCs]
    /\ attempt \in [Tasks -> 0..MaxAttempts]
    /\ token \in [Tasks -> Tokens]
    /\ result \in [Tasks -> Results]
    /\ dropped \in BOOLEAN

(* The tokens in force are in the store, or in an answer that a task is    *)
(* about to store: requests that overlap never lose them, only a lost      *)
(* answer does (_apply_refresh against refresh).                           *)
TokensNotLost ==
    store.refresh \in {None, issued} \/ dropped
        \/ \E t \in Tasks : pc[t] = "refresh" /\ reply[t] = issued

(* One call of refresh() exchanges the tokens at most once, however often  *)
(* it is sent, and a request calls it at most once.                        *)
OneExchangeEach ==
    issued <= 1 + Cardinality({t \in Tasks : pc[t] \in {"refresh", "second", "done"}})

(* The store never goes back to older tokens. *)
StoreNeverGoesBack ==
    [][store'.device >= store.device /\ store'.refresh >= store.refresh]_vars

(* Every request returns or raises, with at most three times max_attempts  *)
(* sends, whatever the server does.                                        *)
EveryRequestEnds == \A t \in Tasks : pc[t] # "idle" ~> pc[t] = "done"

(* http.md:7 says the transport "transparently refreshes an expired token  *)
(* once on `401`", and http.md:49 keeps AuthenticationError for the case   *)
(* of "no refresh token": with one, an expiry is not noticed.              *)
RefreshIsTransparent ==
    \A t \in Tasks : result[t] = "auth" => store.refresh = None

-----------------------------------------------------------------------------
(* The inductive invariant behind the safety properties. *)

(* The store and the requests that read it are never ahead of the server:  *)
(* refresh() sends a token that was in the store, and keeps to it.         *)
ReadFromStore ==
    /\ store.device <= issued /\ store.refresh <= issued
    /\ \A t \in Tasks : pc[t] = "refresh" => token[t] \in 1..store.refresh
    /\ \A m \in net : m.token \in 1..store.refresh

(* The copies of a refresh belong to the one call of refresh() its task    *)
(* makes; the attempt that it waits for has one copy, or an answer.        *)
CopiesOfOneCall ==
    /\ \A t \in Tasks : pc[t] \in {"idle", "first"} =>
           reply[t] = None /\ \A m \in net : m.task # t
    /\ \A m \in net : pc[m.task] = "refresh" =>
           /\ m.token = token[m.task] /\ m.attempt <= attempt[m.task]
           /\ m.attempt = attempt[m.task] => reply[m.task] = None

(* An answer that waits to be stored brings the pair in force, to one task *)
(* only: until it is in the store, nobody can exchange it for another.     *)
AnswerAhead ==
    \A t \in Tasks : pc[t] = "refresh" /\ Answered(t) =>
        /\ reply[t] = issued /\ store.refresh < issued
        /\ \A u \in Tasks : pc[u] = "refresh" /\ Answered(u) => u = t

(* Tasks that have called refresh() and will not exchange the pair in      *)
(* force: each pair but the first is the work of one of them.              *)
Spent ==
    {t \in Tasks :
        /\ pc[t] \in {"refresh", "second", "done"}
        /\ pc[t] = "refresh" => token[t] # issued
        /\ \A m \in net : m.task = t => m.token # issued}

TransportInv ==
    /\ issued >= 1 /\ issued <= 1 + Cardinality(Spent)
    /\ ReadFromStore /\ CopiesOfOneCall /\ AnswerAhead
    /\ TokensNotLost

=============================================================================
