----------------------------- MODULE FileStore -----------------------------
(***************************************************************************)
(* The credentials file that the processes of one user share, and the      *)
(* methods that write it: init_vault, enroll and join store the tokens of  *)
(* a new device, from_ci those of a CI device, and the transport's refresh *)
(* replaces the tokens it has read.                                        *)
(*                                                                         *)
(* save opens the file, which truncates it, and then writes it: two steps, *)
(* between which other processes run and this one may end.  A text that is *)
(* written over a longer one, which another process wrote in between,      *)
(* leaves the end of that one behind it.                                   *)
(***************************************************************************)
EXTENDS Naturals, FiniteSets

CONSTANTS
    Processes,      \* processes with a FileStore on one path
    MaxDevices,     \* bound: devices enrolled
    MaxTokens,      \* bound: token pairs of one device
    MaxFaults       \* bound: processes that end in the middle of a method

ASSUME FileStoreAssumption ==
    /\ {MaxDevices, MaxTokens, MaxFaults} \subseteq Nat
    /\ MaxDevices >= 1 /\ MaxTokens >= 1

VARIABLES
    file,       \* what the path holds, the length of its text, its content
    issued,     \* server: issued[d], the number of d's token pair in force
    pc,         \* pc[p]: what p's method does next
    mem,        \* mem[p]: the credentials p is about to store
    lost,       \* devices whose pair in force no process will store any more
    torn,       \* whether two saves overlapped or one was cut off
    faults      \* processes that have ended in the middle of a method

vars == <<file, issued, pc, mem, lost, torn, faults>>
ghosts == <<lost, torn, faults>>

CI == 0         \* the device of a CI token, which from_ci is given
None == MaxDevices + 1
Devices == 1..MaxDevices

(* Credentials: device_id, and the device and number of the token pair. *)
Creds == [id : Devices, dev : Devices, num : 1..MaxTokens]
NoCreds == [id |-> None, dev |-> None, num |-> 0]
CICreds == [id |-> None, dev |-> CI, num |-> 0]

(* The length of to_dict as JSON: a field that is not set is a null. *)
Size(c) == CASE c = NoCreds -> 0 [] c = CICreds -> 1 [] OTHER -> 2

(* load: an absent file gives empty credentials; a text that json.loads    *)
(* does not take raises.                                                   *)
Parses == file.state \in {"absent", "json"}

Init ==
    /\ file = [state |-> "absent", size |-> 0, creds |-> NoCreds]
    /\ issued = [d \in Devices |-> 0]
    /\ pc = [p \in Processes |-> "idle"]
    /\ mem = [p \in Processes |-> NoCreds]
    /\ lost = {} /\ torn = FALSE /\ faults = 0

Goto(p, at) == pc' = [pc EXCEPT ![p] = at]
Hold(p, c) == mem' = [mem EXCEPT ![p] = c]

(* The method ends, and with it what it held in memory. *)
Ends(p) ==
    /\ Goto(p, "idle")
    /\ Hold(p, NoCreds)
    /\ lost' = lost \cup ({mem[p].dev} \cap Devices)
    /\ UNCHANGED <<file, issued>>

-----------------------------------------------------------------------------
(* init_vault, enroll, join: the answer holds the tokens of a new device. *)
Enroll(p, d) ==
    /\ pc[p] = "idle"
    /\ issued[d] = 0
    /\ issued' = [issued EXCEPT ![d] = 1]
    /\ Hold(p, [id |-> d, dev |-> d, num |-> 1])
    /\ Goto(p, "merge")
    /\ UNCHANGED <<file, ghosts>>

(* Mutant of Merge: device_id is assigned, the tokens are not. *)
MergeOnlyId(p) ==
    /\ pc[p] = "merge"
    /\ Parses
    /\ Hold(p, [file.creds EXCEPT !.id = mem[p].id])
    /\ Goto(p, "open")
    /\ UNCHANGED <<file, issued, ghosts>>

(* _save_tokens: load, which may raise, then every field is assigned. *)
Merge(p) ==
    /\ pc[p] = "merge"
    /\ IF Parses
       THEN Goto(p, "open") /\ UNCHANGED <<file, issued, mem, ghosts>>
       ELSE Ends(p) /\ UNCHANGED <<torn, faults>>

(* from_ci and clear save without a load. *)
Overwrite(p, c) ==
    /\ pc[p] = "idle"
    /\ c \in {CICreds, NoCreds}
    /\ Hold(p, c)
    /\ Goto(p, "open")
    /\ UNCHANGED <<file, issued, ghosts>>

(* A request was answered 401 and refresh() loads the refresh token: the   *)
(* credentials of a CI device have none.                                   *)
RefreshLoad(p) ==
    /\ pc[p] = "idle"
    /\ file.state = "json" /\ file.creds.dev \in Devices
    /\ file.creds.num < MaxTokens
    /\ Hold(p, file.creds)
    /\ Goto(p, "refresh")
    /\ UNCHANGED <<file, issued, ghosts>>

(* POST auth/refresh: the pair in force is exchanged for the next one. *)
RefreshPost(p) ==
    /\ pc[p] = "refresh"
    /\ LET d == mem[p].dev IN
        IF mem[p].num = issued[d]
        THEN /\ issued' = [issued EXCEPT ![d] = @ + 1]
             /\ Hold(p, [mem[p] EXCEPT !.id = d, !.num = issued[d] + 1])
             /\ Goto(p, "apply")
        ELSE Goto(p, "idle") /\ Hold(p, NoCreds) /\ UNCHANGED issued
    /\ UNCHANGED <<file, ghosts>>

(* Mutants of Apply: device_id is kept; the credentials are not saved. *)
ApplyKeepsId(p) ==
    /\ pc[p] = "apply"
    /\ Parses
    /\ Hold(p, [mem[p] EXCEPT !.id = IF file.creds.id = None THEN @ ELSE file.creds.id])
    /\ Goto(p, "open")
    /\ UNCHANGED <<file, issued, ghosts>>

ApplyUnsaved(p) ==
    /\ pc[p] = "apply"
    /\ Goto(p, "idle")
    /\ Hold(p, NoCreds)
    /\ UNCHANGED <<file, issued, ghosts>>

(* _apply_refresh: load again, then assign the answer's tokens and its     *)
(* device_id, which the server is assumed to send (for an answer without   *)
(* it, the code would keep the one it has loaded).                         *)
Apply(p) ==
    /\ pc[p] = "apply"
    /\ IF Parses
       THEN Goto(p, "open") /\ UNCHANGED <<file, issued, mem, ghosts>>
       ELSE Ends(p) /\ UNCHANGED <<torn, faults>>

-----------------------------------------------------------------------------
(* save, first step: O_CREAT | O_TRUNC. *)
Writing == {p \in Processes : pc[p] = "write"}

(* Mutant of Open: no O_TRUNC. *)
OpenKeeps(p) ==
    /\ pc[p] = "open"
    /\ file' = IF file.state = "absent" THEN [file EXCEPT !.state = "empty"] ELSE file
    /\ torn' = (torn \/ Writing # {})
    /\ Goto(p, "write")
    /\ UNCHANGED <<issued, mem, lost, faults>>

Open(p) ==
    /\ pc[p] = "open"
    /\ file' = [state |-> "empty", size |-> 0, creds |-> NoCreds]
    /\ torn' = (torn \/ Writing # {})
    /\ Goto(p, "write")
    /\ UNCHANGED <<issued, mem, lost, faults>>

(* save, second step: the text goes to the start of the file. *)
Write(p) ==
    /\ pc[p] = "write"
    /\ file' = IF file.state # "empty" /\ file.size > Size(mem[p])
               THEN [file EXCEPT !.state = "garbled", !.creds = NoCreds]
               ELSE [state |-> "json", size |-> Size(mem[p]), creds |-> mem[p]]
    /\ Goto(p, "idle")
    /\ Hold(p, NoCreds)
    /\ UNCHANGED <<issued, ghosts>>

(* The process ends in the middle of a method. *)
Crash(p) ==
    /\ pc[p] # "idle"
    /\ faults < MaxFaults
    /\ faults' = faults + 1
    /\ torn' = (torn \/ p \in Writing)
    /\ IF pc[p] = "refresh"
       THEN Goto(p, "idle") /\ Hold(p, NoCreds) /\ UNCHANGED <<file, issued, lost>>
       ELSE Ends(p)

Next == \E p \in Processes :
    \/ \E d \in Devices : Enroll(p, d)
    \/ Merge(p)
    \/ \E c \in {CICreds, NoCreds} : Overwrite(p, c)
    \/ RefreshLoad(p)
    \/ RefreshPost(p)
    \/ Apply(p)
    \/ Open(p)
    \/ Write(p)
    \/ Crash(p)

Spec == Init /\ [][Next]_vars

-----------------------------------------------------------------------------
(* Every variable stays in its set: what is stored is whole. *)
TypeOK ==
    /\ file \in [state : {"absent", "empty", "json", "garbled"}, size : 0..2,
                 creds : Creds \cup {NoCreds, CICreds}]
    /\ issued \in [Devices -> 0..MaxTokens]
    /\ pc \in [Processes -> {"idle", "merge", "refresh", "apply", "open", "write"}]
    /\ mem \in [Processes -> Creds \cup {NoCreds, CICreds}]
    /\ lost \subseteq Devices
    /\ torn \in BOOLEAN
    /\ faults \in 0..MaxFaults

(* load finds a text it can parse except while a save is going on, after   *)
(* two have overlapped or after one was cut off: a shorter text leaves     *)
(* nothing of a longer one (FileStore.save's truncation).                  *)
FileParses == Parses \/ torn \/ Writing # {}

(* The pair stored for a device is its pair in force, unless the newer one *)
(* is on its way to the file or its process has died or raised: processes  *)
(* that refresh, enroll and store in any order never put an older pair     *)
(* back (_apply_refresh, _save_tokens).                                    *)
StoredPairInForce ==
    LET d == file.creds.dev IN
    d \in Devices =>
        \/ file.creds.num = issued[d]
        \/ d \in lost
        \/ \E p \in Processes : pc[p] \in {"apply", "open", "write"}
               /\ mem[p].dev = d /\ mem[p].num = issued[d]

(* The stored device_id is that of the stored tokens, though _apply_refresh*)
(* assigns them to credentials that another process may have stored since. *)
DeviceIdOwnsTokens ==
    file.creds.dev \in Devices => file.creds.id = file.creds.dev

(* credentials.md:67 says of FileStore "Use it to keep a device enrolled   *)
(* across process runs": once credentials are stored, a process that       *)
(* starts while no other is writing can load some.                         *)
StaysLoadable == Parses \/ Writing # {}

-----------------------------------------------------------------------------
(* The inductive invariant behind the safety properties. *)

(* The file is open in one process at a time, empty meanwhile and whole    *)
(* otherwise, as long as no two saves have overlapped and none was cut off. *)
SavesTakeTurns ==
    ~torn =>
        /\ \A p, q \in Writing : p = q
        /\ IF Writing = {} THEN Parses ELSE file.state = "empty"

(* From the answer that brings a pair to the end of the save that stores   *)
(* it, a process is the bearer of the pair in force: whoever has a pair of *)
(* the device besides, the file or a process that refreshes, has an older. *)
Bears(p, d) == pc[p] \in {"merge", "apply", "open", "write"} /\ mem[p].dev = d

OneBearer ==
    \A d \in Devices : \A p, q \in Processes : Bears(p, d) /\ Bears(q, d) => p = q

BearersCurrent ==
    \A d \in Devices : \A p \in Processes : Bears(p, d) =>
        /\ mem[p].num = issued[d] /\ mem[p].id = d
        /\ pc[p] = "merge" => mem[p].num = 1

(* A pair that is not borne was issued before, to the device it names, and *)
(* is older than the one that is.                                          *)
IssuedBefore(c) ==
    c.dev \in Devices =>
        /\ c.id = c.dev /\ c.num <= issued[c.dev]
        /\ (\E p \in Processes : Bears(p, c.dev)) => c.num < issued[c.dev]

ReadersBehind ==
    \A p \in Processes : pc[p] = "refresh" =>
        mem[p] \in Creds /\ mem[p].num < MaxTokens /\ IssuedBefore(mem[p])

(* A process between an answer and its save holds a pair. *)
HoldsPair == \A p \in Processes : pc[p] \in {"merge", "apply"} => mem[p] \in Creds

FileStoreInv ==
    /\ SavesTakeTurns /\ HoldsPair
    /\ OneBearer /\ BearersCurrent /\ ReadersBehind /\ IssuedBefore(file.creds)
    /\ StoredPairInForce

=============================================================================
