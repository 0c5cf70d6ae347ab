# dotMage Python SDK: specifications and proofs

TLA+ models of the client library in `src/src/dotmage`, the TLC runs that check
them on small instances, and TLAPS proofs of what holds for all. Line numbers
without a path are those of `client.py`; `async_client.py` mirrors that file
method by method, and the map in `PROJECT.json` names whichever of the two shows
an action better (the asynchronous one where the point is what happens between
two `await`s).

## 1. The system

dotMage stores encrypted environments. The SDK encrypts and decrypts on the
client; the server, which is not in this repository, keeps ciphertext, wrapped
keys and tokens.

| Component | State | Operations | Interacts with | What is hard | What makes it correct |
|---|---|---|---|---|---|
| Revisions (`push`, `set`, `rollback`, `pull`) | none of its own; the server's log | one to three requests per call, `parent_rev` read before it is used | transport; session for the key | other clients between two requests; retried POSTs, late copies | no push applied twice; an answer is true; no update lost |
| Transport (`core/http`) | attempts, tokens in the store | `request`, `refresh`, `_send` | every facade method; credential store | overlapping coroutines, lost answers, a single-use refresh token | every request ends; tokens in force are not lost |
| Session and account key (`session.py`, `core/crypto/keys.py`) | key and `key_gen` in memory; wraps, salt, Argon2 parameters on the server | `unlock`, `lock`, `change_master_password`, `unlock_with_recovery` | rotation, team | stale keys, read-then-write without a condition | the password last set and the code last returned open the wraps; a session's number tells its key |
| Rotation (`rotate`, `_reencrypt_stale`, `core/rotation.py`) | pending wrap on the server; local variables | begin or resume, re-encrypt until nothing is stale, complete, cutover | session, revisions | crashes, two rotators, pushes meanwhile, wrong passwords | no readable revision becomes unreadable; it can be finished |
| Credential stores (`core/credentials`) | a file or an object | `load`, `save`, `clear` | transport, onboarding | `save` is two steps; processes share the file | what is stored is whole and in force |
| Onboarding (`init_vault`, `enroll`, `join`, `from_ci`) | single-use secrets on the server | a POST or two, `_save_tokens`, then a key | all of the above | a lost answer to a POST that used a secret up, a late copy of it, a wrong password | a device that was made is one whose tokens are kept |
| Team (`invite`, `core/crypto/invitation.py`, `remove_user`, `revoke_device`, roles) | invitations, one wrap and key generation per member on the server | single requests | onboarding, rotation | an invitation sealed before a rotation, a removal during one, members' wraps that a rotation does not renew | sessions tell the generation of their keys; a removed user learns no later key |
| Apps, environments, lists, audit | the server's | single requests | - | re-created environments restart at revision 0 | - |
| Pure code: `diffing.py`, `dotenv.py`, `exceptions.py`, `spec.py` | none | conversions | facade | corner cases of quoting; the table of codes | round trip, reference definitions |

`PROJECT.json` lists the hazards at their lines, with the property that covers
each, or the reason why none does yet.

## 2. The modules

| Module | Models | Extends / uses |
|---|---|---|
| `RevisionLog` | what the revision log promises: an append-only log where a push takes effect at most once, an answer is never false and a refusal is for good | - |
| `Revisions` | concurrent `push`, `push(base_rev)`, `set`, `rollback` over the retrying transport and a server that handles copies late | refines `RevisionLog` |
| `RevisionsProofs` | TLAPS proofs about `Revisions`, and that it implements `RevisionLog` | `Revisions` |
| `Rotation` | the devices of one account: sessions, recovery code, account key, rotation request by request | - |
| `Team` | several users: how clients are built, the wraps of the members, changes of the master password, invitations, removals, and rotation as the members see it | - |
| `TeamProofs` | TLAPS proofs about `Team` | `Team` |
| `Transport` | overlapping requests, retries and the token refresh | - |
| `FileStore` | the credentials file, shared by processes that enroll and refresh | - |
| `EnvText` | an environment as `.env` text: `pull_to_file`, an editor, `push_from_file`, with `dotenv.py` and `diffing.py` as operators | - |
| `RotationProofs`, `TransportProofs`, `FileStoreProofs`, `EnvTextProofs` | TLAPS proofs about the module each is named after | that module |
| `Induction` | induction over numbers and sequences with sets in place of predicates; what `FlattenSeq` gives | - |
| `FoldProofs` | what `FoldLeft` computes, for a step operator that is a constant of the module | `Induction`; `EnvTextProofs` instantiates it for each of its four folds |
| `MC*` | symmetry sets and sets of inputs for TLC | the module they are named after |

Operators whose comment begins with "Mutant of" are variants of an action with a
plausible bug. They are in no specification. `PROJECT.json` pairs each property
with one of them; put in place of the action, the property fails.

### Revisions

`Calls` are invocations of methods, by whatever client: two calls share nothing
but the server, so the model has no notion of a device. `pc[c]` is the request a
call has sent and waits for: `pull` (`set`, 337), `latest` (`_latest_rev`, 286),
`post`. `Pulled` and `GotLatest` are the answers to the two GETs, taken together
with the server's handling of them, since a GET changes nothing and the call sees
one state of the log whenever it is handled. POSTs are different: each send is a
`Copy` in `net` that the server may handle at any later time, after the client
has moved to the next attempt or raised. `Retry` is an attempt that failed in a
way `retry.py` retries, `GiveUp` the failure of the last attempt, `Abort` an error
that is not retried or the end of the process. The content of a revision is
the set of calls whose updates it carries, which is what lost updates are about.

`StartPushBase` takes any `base_rev` up to the latest, 0 included, with data that
contains what that revision contains: the caller edited what it had read.

`MaxAttempts` bounds the attempts of one call of `_send`. The call that follows a
refresh (116-121 of `core/http/client.py`) is in `Transport` only: a POST that is answered
401 leaves the log as it was, and the copies of both calls are no more than those of a
larger `MaxAttempts`, for which the proofs hold too.

Assumed of the server (external in the map): a push is compared with the latest
revision number and appended, or answered 409; a rollback is appended without a
condition, as its request carries none.

### Rotation

Keys and passwords are names. A key is the generation it was made for
and the device that drew it, so that two devices that start the same rotation
have two keys. A wrap records key, password and parameters and opens
exactly with the last two; a blob opens exactly with its key: what the AEAD tag
decides. Every request is one step with its answer; a lost answer is the step
followed by `Abort`, and `Crash` also loses the session. A device runs one method
at a time, but for `lock()`, which needs no request: `Lock` may come while `rotate`
waits for an answer, and `rotate` goes on with the keys in its local variables.
The end of a process between two methods leaves what `Lock` leaves.

The actions follow `rotate` (427-472) line by line: `RotateStart` GET keys and
`old_key`; `RotateResume` or `RotateFresh` on the status; `RotateBegin`;
`ListStale`, `FetchStale`, `PutBlob` the loop of `_reencrypt_stale`;
`RotateComplete`; `Cutover`. The account's password is a constant: what changes it,
`change_master_password`, is in `Team`. Its Argon2 parameters are any of `Params`:
`init_vault` uses the default ones, `join` those that the server names.
`Creator` is the client that made the account, whose key is the first.

A recovery code is named by the key it was drawn with. `code` is the one last
returned to a caller: by `init_vault`, or by a rotation with `with_recovery` that
got to its `Cutover`. `BeginBody` is `build_begin_body`, whose recovery wrap has
default parameters too. `UnlockWithRecovery` types `code`.

Assumed of the server: begin is refused while a rotation runs and for any
generation but the next; a blob is taken only for the rotation in progress;
complete is refused while anything is stale; a push is stamped with the generation
in force; the status of a rotation in progress carries its pending wrap along with the
generation. (For a status without the wrap, 448-449 fall back on the wrap in force: a
resumed rotation would re-encrypt under the replaced key, which is the mutant
`ResumeWithOldWrap`.) A completed rotation without a recovery wrap leaves the account without one
(`KeepsRecovery = FALSE`): the client has no way to renew the old wrap, and with
the other choice `unlock_with_recovery` would put a replaced key into a session
under the new generation.

### Team

`Clients` are `DotMage` objects, each with a credential store of its own, built
by one of four ways: `Post` is the request of `init_vault`, `enroll` and `join` that
spends a secret, `FromCi` is `from_ci`. `issued` is the list of bootstrap secret,
tokens and invitations; `with[c]` is the one a client is built with, which also
says whose client it is. A `Post` stays in `net` until the server handles it, before
or after the sender has given up; the copies of one POST are one entry there,
since only the first that arrives is taken. A retry of one that was taken is
refused and raises, which for the sender is the `GiveUp` of a lost answer.
`SaveTokens` is `_save_tokens` and the `set_key` of `init_vault` and `join`; `enroll` and
`from_ci` unlock next, with a right password (`Unlock`) or a wrong one
(`UnlockFails`). `redeem` is a read: `join` learns from it the sealed key, the
generation the server stamped on it and the parameters, and spends the
invitation with the POST after it (165-197).

A member's `account` is the wrap the server keeps for that user, with the salt and
the parameters next to it and the generation it is answered with. The password
and the salt of a user are numbered together, since `rewrap_account_key` draws
a new salt with every password. `ChangeUnlock` and `ChangePatch` are the two requests
of `change_master_password`, whose wrap has the default Argon2 parameters because
`rewrap_account_key` is called without any (251). A key is named by its generation:
begin is taken once for each, and the key of a refused begin is dropped.
`RotateStart` to `Cutover` are `rotate`, its two GETs (439, 441) in two steps
(`RotateStart`, `RotateStatus`), with the loop of `_reencrypt_stale` reduced to
which keys some revision is under (`blobs`); the loop itself is in `Rotation`.
`RotateComplete` names no rotation, as the request has no body (470): it completes
whatever rotation is in progress once nothing is stale. Clients of one user run their
methods at once, whichever they are; one client runs one method at a time, but
for `lock()`. `JoinParams` are the parameters the server tells `join` to use.

Not every method keeps what it promises when two clients of one user cross, and the
properties except exactly the cases where the code does not:

- `crossed`, a history variable that no guard reads, has the users of whom one
  client had its PATCH taken while another was between its GET of the keys and
  begin, or of whom a rotation was completed while another client was between the unlock
  of a change of the password and its PATCH (`Crosses`). `MasterPasswordOpens`,
  `SessionGenTrue`, `OffboardedKeysRetired` (for the member with the key, not for the
  user removed) and `SameKeyRewrapped` except these users, from that step on.
- An account that was joined under other parameters than the default ones and whose
  password was changed since: `MasterPasswordOpens` excepts it.
- `Misinvited`: the member joined by an invitation that was sealed by a session whose
  key had been replaced. `SessionGenTrue` and `OffboardedKeysRetired` except it.

Each of these occurs in the run `team`, and each property fails there when one of its
exceptions is taken out (section 6), but for `Misinvited` in `OffboardedKeysRetired`, where
it takes a third user. `left[u]`, the generation in which a user was
removed, is read by no guard either.

Assumed of the server (external in the map, and from what the requests in
`spec.py` carry): a secret is taken once, an enrollment token from members only, a
bootstrap secret or an invitation from non-members only; key and generation are
kept per user (`TeamUser` in `models.py`); an invitation is stamped with the
generation in force; a new invitation is not made for a user who has had one
or is a member; PATCH replaces wrap and salt only, so that the parameters stay those of the first
wrap, and is refused while a rotation runs; the status carries the pending wrap of a
rotation in progress, to every member; begin is refused while a rotation runs and for any generation but
the next; complete replaces the wrap of the member who began; removing a user
revokes that user's devices, tokens and invitations and leaves a rotation of the
user in progress; requests of revoked devices are refused.

### Transport

A token is the number of the exchange that issued it. `StartRefresh` reads the
refresh token and sends it without an `await` in between (`refresh`, 212-217 of
`core/http/client.py`); a copy may be handled after its task has gone on.
`ApplyRefresh` stores both tokens and sends the request again. `dropped` records
that the answer to an exchange reached nobody. The model has the coroutines of
one `AsyncDotMage`; between two `await`s nothing else runs. Threads that share a
synchronous client are not modelled.

Assumed of the server: refresh exchanges the pair of tokens in force for a new
one, the old pair is refused from then on ("Rotate the device/refresh tokens").

### FileStore

`save` is `Open` (`O_CREAT | O_TRUNC`) and `Write`; the JSON is short enough to
leave in one `write` when the file is closed. Three lengths (empty credentials, a
CI token, full credentials) are enough to have a text overwrite a longer one.
`Enroll` is the answer to `POST auth/device` and stands for `init_vault` and
`join` too, which store their tokens the same way; `Merge` is the load in
`_save_tokens`; `Overwrite` are `from_ci` and `clear`, which do not load.
`RefreshLoad`, `RefreshPost` and `Apply` are `Transport.refresh`, whose
`_apply_refresh` loads the file a second time. The pairs are numbered per device.
Assumed of the server: the answer to a refresh carries the `device_id`, as those in the
tests do. (Without it, line 80 of `core/http/client.py` keeps the id that was just loaded,
which another process may have stored: the mutant `ApplyKeepsId`.)
`lost` (pairs whose process died or raised) and `torn` (saves that overlapped or
were cut off) are history variables; no guard reads them.

### EnvText

A text is a sequence of characters, of which those the code treats alike have one
name (`vt` for all separators that `splitlines` knows besides newline and carriage
return). `Serialize` and `Parse` follow `dotenv.py` function by function; the
loops over characters and lines are folds. `Updated` is `dict.update`. `Diff` and
`Drift` are `compute_diff` and `compute_drift`: what is reported of a key has the old and
the new value where there is one, and a content hash is as good as the content
it is made from. It may be missing from an answer, which is "diverged". The last revision
that the server lists (372) is taken to be the latest. `Chars` may be any set that has the characters the code tells
apart; `Plain` are those that values and lines are made of. `IsEnv` and `IsLine` say
which dicts are pushed and which lines are typed: keys that a line can assign to
(no `=`, no break, no white space at an end, no `#` at the start), and no `vt` or `nb` in a
value, where the serialiser is at fault (section 6). A typed line may have `export` at its
start; a `#` after it, which would make a key that can be parsed and not be
written, is left out. The actions put them to use: a dict is pushed, pulled to a file,
edited by lines at its end, and pushed from the file. `pulled` and `typed` are
history variables. Keys are sorted in the code and in any order here: no
property depends on it, since the keys of a dict differ.

## 3. The runs

All bounds are constants of the modules; the guards that use them are named there.

| Run | Instance | What it shows |
|---|---|---|
| `revisions_safety` | 3 calls, 2 attempts, symmetry | `CommitsOnce`, `OkIsCommitted`, `BaseRevKeepsUpdates`, `ConflictIsFinal`, the inductive invariant `IInv`, and `RefinesLog`: the log and the results of the calls are a behaviour of `RevisionLog`. Three calls are needed for a third writer between a call's read and its POST while an older copy is still on its way; two attempts give a duplicate and a late copy |
| `set_keeps_updates` | 3 calls | violated: see section 6 |
| `rotation_safety` | 2 devices, 3 generations, 2 revisions, right and wrong passwords, default parameters or others, 1 fault (a crash, a lost answer or a `lock()` during a method), symmetry | `ReadableStaysReadable`, `RotatorsShareKey`, `SessionKeyMatchesGen`, `RecoveryCodeOpens`, and the inductive invariant `RotationInv`. Two devices race for begin, resume each other's rotation and complete it under each other's feet; three generations let a session be two behind. Two million states |
| `team` | 2 users, 3 clients, the bootstrap secret, an invitation and 1 token, 2 generations, 1 change of a password per user, other parameters than the default ones for `join`, 1 fault (a crash, a lost answer, a revoked device or a `lock()`), symmetry | `DevicesHeld`, `MasterPasswordOpens`, `SessionGenTrue`, `OffboardedKeysRetired`, `SameKeyRewrapped`, and the inductive invariant `TeamInv`. Three clients let one user have two while the other has one; with two generations every session, wrap and invitation can be one behind; the token may be either kind and either user's, and a CI token builds several clients. The two clients of a user cross in both ways. More than one and a half million states |
| `rotation_finishes` | 2 devices, 1 rotation, 2 revisions, default parameters or others, 1 fault, `FairSpec`, no symmetry | `RotationFinishes`; `MasterPasswordOpens` whatever the parameters |
| `rotation_wrong_password` | 1 device | violated: section 6 |
| `team_shares_key` | 2 users, 2 clients | violated: section 6 |
| `transport` | 3 tasks, 2 attempts, 1 expiry, `FairSpec`, no symmetry | `TokensNotLost`, `OneExchangeEach`, `StoreNeverGoesBack`, `EveryRequestEnds`, and the inductive invariant `TransportInv`. An exchange by one task also outdates the tokens of the others, so there are up to three refreshes after one expiry |
| `transport_fan_out` | 2 tasks, 1 attempt | violated: section 6 |
| `file_store` | 3 processes, 2 devices, 3 pairs each, 2 crashes, symmetry | `FileParses`, `StoredPairInForce`, `DeviceIdOwnsTokens`, and the inductive invariant `FileStoreInv`. Two writers and a reader in between; two devices let one enroll while another refreshes |
| `file_store_crash` | 1 process | violated: section 6 |
| `env_text` | values of up to 3 of 7 characters for one key, of up to 1 for two; 8 kinds of line, 2 typed; 2 revisions | `EditsOnly`, `DiffRebuilds`; `TypeOK` says that what is pushed and pulled stays what a file can carry. Three characters make every pair of an escape and a neighbour, with or without quotes at the ends; two lines let one replace what another assigned |

Deadlock is not checked in the Revisions and Transport runs, where every call and
every request ends and then nothing is left to do, nor in the Team runs, where
all devices can be revoked or lost.

### Fairness

`Transport!FairSpec` has weak fairness of the client's steps, task by task: each
attempt has an httpx timeout and tenacity goes on or stops after `max_attempts`,
so a request never waits for good. Nothing is assumed of the server or the
network, and `Abort` is not forced. A method of `Revisions` is at most three such
requests in a row, so that its end follows from theirs.

`Rotation!FairSpec` has weak fairness of a method that runs, for the same reason,
and strong fairness of two things users do: unlock a device again, and call
`rotate` while a rotation is unfinished. The documentation calls `rotate`
resumable; the property asks what it gives to somebody who resumes.

## 4. The proofs

`RevisionsProofs` proves for any set `Calls` and any `MaxAttempts` of at least 1,
with no bound on the log (`AttemptsAssumption` is the only assumption):

| Theorem | Statement |
|---|---|
| `TypeCorrect` | `Spec => []TypeOK` |
| `Invariance` | `Spec => []IInv` |
| `AtMostOnce` | `Spec => []CommitsOnce` |
| `SuccessIsCommitted` | `Spec => []OkIsCommitted` |
| `NoLostUpdateWithBase` | `Spec => []BaseRevKeepsUpdates` |
| `RefusedForGood` | `Spec => ConflictIsFinal` |
| `Refinement` | `Spec => RefinesLog` |

None of the four properties is inductive. That a push commits once says nothing
of the copies still in `net`: what keeps a second copy out is that the revision
of a push is the successor of its `parent_rev` (`SlotOfParent`), which the server's
comparison ensures and the client's not recomputing `parent_rev` between attempts
preserves. So two revisions of one call would have one number. The same slot
argument gives `ConflictIsFinal`, with `AnswersAreTrue`: a refused call has a
`parent_rev` below the end of the log, which only grows. `BaseRevKeepsUpdates`
needs in addition that the data of `push(base_rev)` contains the revision at
`base_rev` (`ParentWasRead`), and `SentFirst` keeps `rev`, `data` and `kind`
frozen once a copy exists. `IInv` is the conjunction of these with `TypeOK`; the
module has one lemma per group of actions, and `revisions_safety` checks `IInv`
before it is proved. `Refinement` maps each step with `IInv` in hand: a copy that the
server takes is `TakeEffect` of `RevisionLog`, a push's first because no revision of the
call is there yet (`SlotOfParent`); an answer that a method returns with is `Return`, true when it is
given (`AnswersAreTrue`); the start of a rollback is `StartCopy`; every other step changes
neither the log nor a result and stutters.

`TeamProofs` proves for any users, clients, parameters and bounds
(`TeamAssumption`: the founder is a user, bounds are positive):

| Theorem | Statement |
|---|---|
| `TypeCorrect` | `Spec => []TypeOK` |
| `DevicesAreHeld` | `Spec => []DevicesHeld` |
| `Invariance` | `Spec => [](TypeOK /\ Waits /\ TeamInv)` |
| `MasterPasswordAlwaysOpens` | `Spec => []MasterPasswordOpens` |
| `SessionsTellTheTruth` | `Spec => []SessionGenTrue` |
| `OffboardedKeysStayRetired` | `Spec => []OffboardedKeysRetired` |
| `SameKeyIsRewrapped` | `Spec => SameKeyRewrapped` |

None has a hypothesis: two clients of a user may do anything at once, and `JoinParams`
is any of `Params`. The cases in which the code does not keep a promise are named in the
properties (section 2), and nothing else is. `DevicesHeld` needs only
`Waits`: a POST under way is waited for or given up, so that the server never
makes a device for a client that is past its `save`.

`TeamInv` is facts about the server (`ServerInv`) and facts about each client
(`ClientInv(c)`). That the wrap in force opens with the salt beside it
is kept by complete only if the pending wrap was made with that salt
(`PendingFits`), hence only if a client about to begin holds it
(`RotatorAgrees`). A change of the password in between breaks this: the server refuses
the PATCH while a rotation runs, and one that it takes before begin is a step that
puts the user into `crossed`, which `Excused` passes over. `SameKeyRewrapped` needs that
the key a `patch` carries is still the one wrapped (`SessionAgrees`): only a complete of
the same user's rotation replaces it, which again is a step that puts the user
into `crossed`. `pending.wrap.params` fits its owner even then, since no request
changes the parameters of an account. For `OffboardedKeysRetired` the invariant bounds what everything gives
to its user by the last generation the user was there for (`LastGen`): wraps and
secrets (`KeysNamed`), sessions, and a client between complete and cutover.
A removal in the middle of a rotation leaves the pending wrap to nobody: its
owner, being removed, is refused every request (`LiveMember`), and
`RemovedStay` keeps the owner from coming back. The proofs have one lemma per step that
changes what the server keeps for a member (`TakeAgrees`, `RemoveAgrees`, `PatchAgrees`,
`BeginAgrees`, `CompleteAgrees`), and `StageAgrees` for all steps that only take a client from one
request to the next.

`RotationProofs` proves for any devices, passwords, parameters and bounds
(`RotationAssumption`: the password and the default parameters are among those named):

| Theorem | Statement |
|---|---|
| `TypeCorrect` | `Spec => []TypeOK` |
| `Invariance` | `Spec => []RotationInv` |
| `SharedKey` | `Spec => []RotatorsShareKey` |
| `NothingLost` | `Spec => ReadableStaysReadable` |
| `SessionKeys` | `Spec => []SessionKeyMatchesGen`, with `~KeepsRecovery` |
| `CodeOpens` | `Spec => []RecoveryCodeOpens` |
| `PasswordOpens` | `Spec => []MasterPasswordOpens`, with `Careful` |

The two hypotheses are those without which the theorems fail (section 6): what the server
does with an old recovery wrap, and what users type. `RecoveryCodeOpens` says of any
account that the code is that of the recovery wrap, and excepts a wrap that a
rotation has made under other parameters than the default ones from being opened by it.
`TypeOK` says that a method in progress has read a key, and nothing of the session, which
`Lock` may empty meanwhile.
`KeysHeld` is every place a key is kept at, with the generation it is believed to be
of: the server's wraps, the local variables of whoever rotates, the sessions.
`OneKeyPerGen` makes a function of it. It survives a begin because nobody is ahead
of the server (`NobodyAhead`), so that the generation which begins is a new one, and
a complete because it only moves the pending wrap. Two steps could make a revision
unreadable. What `PutBlob` writes is under the key of the pending wrap, whoever drew
that key, by `OneKeyPerGen`; and `RotateComplete` drops the replaced key when every
stamp is the pending generation's, which tells the key by `StampsTrue`. `WrapsMade`
and `CodesSent` carry parameters, passwords and recovery codes from the local
variables of `rotate` through begin, a crash, a resumption by somebody else, and
complete.

`TransportProofs` proves for any finite set of requests and any bounds
(`TransportAssumption`; `Cardinality` says nothing of an infinite one):

| Theorem | Statement |
|---|---|
| `TypeCorrect` | `Spec => []TypeOK` |
| `Invariance` | `Spec => []TransportInv` |
| `TokensKept` | `Spec => []TokensNotLost` |
| `ExchangedOnce` | `Spec => []OneExchangeEach` |
| `StoreAdvances` | `Spec => StoreNeverGoesBack` |

The argument is `AnswerAhead`: an answer that waits to be stored brings the pair in force,
and no second one does, because nothing that is sent carries a token newer than the
store's (`ReadFromStore`), so that nobody can exchange the pair before it is stored. Hence
answers are stored in the order of the exchanges. `OneExchangeEach` counts tasks, and the
count goes up by one task per exchange: `Spent` are the tasks whose call cannot exchange
the pair in force any more, and `CopiesOfOneCall` says that the copies of a call carry one
token, so that the first one taken makes the others void.

`FileStoreProofs` proves for any processes, devices and bounds (`FileStoreAssumption`):

| Theorem | Statement |
|---|---|
| `TypeCorrect` | `Spec => []TypeOK` |
| `Invariance` | `Spec => []FileStoreInv` |
| `Loads` | `Spec => []FileParses` |
| `NeverOlder` | `Spec => []StoredPairInForce` |
| `IdOfTokens` | `Spec => []DeviceIdOwnsTokens` |

Nothing locks the file; what replaces a lock is that the refresh token can be used once. A
process that has the answer to an exchange is the bearer of the device's newest pair until
its save ends. There is one (`OneBearer`), its pair is in force (`BearersCurrent`), and all
other copies are strictly older, in the file (`IssuedBefore`) and in processes that wait to
refresh (`ReadersBehind`): the latter can only be refused while there is a bearer, so that
no second one comes up, and only a bearer writes tokens.

`EnvTextProofs` proves for texts of any length, dicts of any number of keys and any
number of edits (`CharsAssumption`, `EnvsAssumption`, `LinesAssumption`,
`BoundsAssumption`):

| Theorem | Statement |
|---|---|
| `ValueRoundTrip` | `ParseValue(FormatValue(v)) = v` for every text `v`, the separators included |
| `SerializeParses` | `Parse(Serialize(env)) = env` for every `env` with `IsEnv(env)` |
| `DiffLosesNothing` | `Rebuilds(a, b, r)` for any two dicts, whatever their keys and values |
| `Invariance` | `Spec => [](TypeOK /\ EditsOnly)` |
| `TypeCorrect` | `Spec => []TypeOK` |
| `FileHasEdits` | `Spec => []EditsOnly` |
| `DiffIsComplete` | `Spec => DiffRebuilds` |

The prover cannot instantiate an induction theorem whose parameter is an operator.
`Induction` states the principle with sets (a set with 0 and the successor of each of
its numbers has all; a set of sequences with the empty one and each one that is longer by one
element has all), which follows from `WFMin` of the library, a theorem about relations. A proof
names the set of those for which its claim holds. Two definitions of the community modules
are recursive functions on sets of indices: `FlattenAppend` and `FoldProofs!FoldAppend` bring
them to "one element more", after showing that the function exists. `ReadEscaped` is then an
induction over the value: the two-state reader is back in its first state after each
escape. `SplitOfFile` and `LineAtEnd` say that a line added to a file which ends in a break
is parsed as if it were alone, with `LoadAppend` doing the update; `PrefixStep` adds one key to what is
serialised. `SelectInSeq` finds the `=` behind the key because a key has none, and
`FormatShape` says that what is behind it has no break and nothing that `Strip` removes. For a
typed line `LineIsEnv` shows that what it assigns can be written again, which makes
`TypeOK /\ EditsOnly` inductive: the next pull starts from it.

Model-checked only: liveness (`EveryRequestEnds`, `RotationFinishes`), which needs
fairness, for which the prover has no rules. Every other property of a passing run is proved. The
runs that expect a violation show what cannot be.

## 5. Not modelled

Ciphertexts, nonces, canonical JSON and the envelope; paths, verbs and headers;
back-off times and the connection pool; the lists, the audit trail and health,
which change nothing; roles and `change_role`, which decide only which requests the
server takes; the expiry of tokens and invitations, the server's too. The table
of error codes (`exceptions.py`) is a dict from codes to classes, of which the modules
keep what a method does next. Threads that share a synchronous client. In `Team`, the
retry of a POST that issues a token or an invitation: it may issue two, of which
the caller knows one. Deletion and re-creation of an environment, and a composition
of `Rotation` with `Revisions`, are in the plan below.

## 6. Where the code does not do what its documentation says

The findings in `PROJECT.json`, each with a run whose counterexample is short:

- `SetKeepsUpdates`: `set` reads the content with one request and `parent_rev` with
  another (337, 341). A revision in between becomes the parent, its updates are
  overwritten, no conflict is raised. `push(base_rev=...)` does not have the
  problem: `BaseRevKeepsUpdates` is proved.
- `WrongPasswordSurfaces`: a fresh rotation never tries the password on the
  current wrap (457), so that a mistyped one becomes the master password.
- `MembersShareKey`: begin carries one wrap of the new key, that of the member who
  rotates (464), and everything stored is re-encrypted under it. The other members
  go on unlocking the replaced key, which decrypts nothing that is stored.
- `RefreshIsTransparent`: coroutines that find the token expired together each
  refresh; all but the first get `AuthenticationError`.
- `StaysLoadable`: a process that ends inside `save` leaves an empty file.

Further statements that do not hold, for which the constants below show it (as the
only property of the configuration of the named run):

- `Revisions!ConflictMeansRejected` with the constants of `revisions_safety`: the
  first answer to a push is lost, the retry conflicts with its own revision.
- `Revisions!RollbackOnce`, same constants: a retried rollback appends twice.
- `Rotation!AllReadable` with the constants of `rotation_safety` and `Careful = TRUE`:
  `push` never compares the session's `key_gen` with the account's (323). A device
  that was unlocked before a rotation stores blobs nobody who unlocks now can
  read. `Team!MembersShareKey` fails for more members the same way.
- `Team!MasterPasswordOpens` with those of `team`, without its second disjunct: the
  re-wrap of a change of the password uses the default parameters (251), the PATCH
  carries none and the server keeps the account's, so that after one change nothing opens
  the account of a user who joined where the server names others (the repository's tests
  do: 8192 KiB, 2 iterations). Or for all of `Users` instead of `Users \ crossed`: a
  change between `RotateStart` and `RotateBegin` leaves the pending wrap under a salt
  that is gone (461).
- `Team!SameKeyRewrapped` with those of `team`, for all of `Users`: a change that has
  read its key before another client of the user completes a rotation puts the
  old key back (254), and what was re-encrypted becomes unreadable. From there
  `Team!SessionGenTrue` fails without `u \in crossed` in `Misled`, since the next
  unlock gives the old key under the new generation, and so does
  `Team!OffboardedKeysRetired`: the key put back may be one that a removed user knows.
  `SessionGenTrue` fails without `Misinvited(u)` too: `invite` seals the session's key, the
  server stamps the generation in force. So does `OffboardedKeysRetired` with three
  users and `MaxChanges = 1`: the user invited that way gets a key which the one
  who was removed knows.
- `Team!RotationHasOwner` with those of `team`: a member who has begun a rotation is
  removed. Nobody can resume it (446), and begin is refused while it is there.
- `Team!DevicesHeld` without its `"lost"`: the answer to a POST that spends a secret is lost,
  every retry is refused, and the device stays unused. After `init_vault` that
  leaves a vault that has no device to issue an enrollment token with, as nothing in
  `client.py` calls `spec.device_register_bootstrap`.
- `Rotation!RotationFinishes` with those of `rotation_finishes` and `MaxGen = 3`: a
  blob pushed under a replaced key stops the next rotation at every resumption
  (493).
- `Rotation!RecoveryCodeOpens` with the constants of `rotation_safety`, without its
  disjunct on `DefaultParams`: `build_begin_body` wraps the new key with default
  parameters, the account keeps its own. `Rotation!SessionKeyMatchesGen` with
  `KeepsRecovery = TRUE`: see section 2.
- `EnvText!EditsOnly` with `"vt"` or `"nb"` in `Alphabet` and not taken out of `Plain`:
  `_NEEDS_QUOTING` lacks the line separators besides newline and carriage return and the white space besides
  space and tab, so that `pull_to_file` writes such a value bare and `parse` cuts or
  trims it.
- `Transport!RefreshIsTransparent` with one task and `MaxAttempts = 2`: the answer
  to a refresh is lost and the retry sends the used-up token.

## 7. Plan

In this order:

1. `Revisions`: deletion and re-creation of an environment, after which revision
   numbers start again while copies of older pushes are on their way.
2. A composition of `Rotation` and `Revisions`: the stamp of a revision against
   the log's order while a rotation re-encrypts, and the proof that each part implements
   what the other assumes of it.
3. Proofs about these, with invariants that extend `SlotOfParent` by the incarnation of the
   environment and `StampsTrue` by the author of a revision.

Bounds stay of the size of those in section 3.
