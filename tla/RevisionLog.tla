----------------------------- MODULE RevisionLog -----------------------------
(***************************************************************************)
(* What the revisions of an environment promise to their writers, whatever *)
(* the network does: an append-only log in which a push or a set takes     *)
(* effect at most once, in one step, and never after it was refused; a     *)
(* success is reported only for what is in the log.  A call that ended in  *)
(* an error, or has not ended, may still take effect.                      *)
(***************************************************************************)
EXTENDS Naturals, Sequences

CONSTANT Calls

VARIABLES
    authors,    \* authors[i]: the call that made revision i
    copiers,    \* calls whose effect may be repeated: the rollbacks
    outcome     \* outcome[c]: "none" until c has returned

avars == <<authors, copiers, outcome>>

Effects(c) == {i \in 1..Len(authors) : authors[i] = c}

AInit ==
    /\ authors = <<>>
    /\ copiers = {}
    /\ outcome = [c \in Calls |-> "none"]

StartCopy(c) ==
    /\ outcome[c] = "none" /\ Effects(c) = {}
    /\ copiers' = copiers \cup {c}
    /\ UNCHANGED <<authors, outcome>>

TakeEffect(c) ==
    /\ c \notin copiers => Effects(c) = {} /\ outcome[c] # "conflict"
    /\ authors' = Append(authors, c)
    /\ UNCHANGED <<copiers, outcome>>

Return(c, res) ==
    /\ outcome[c] = "none"
    /\ res = "ok" => Effects(c) # {}
    /\ res = "conflict" => c \notin copiers /\ Len(authors) > 0
    /\ outcome' = [outcome EXCEPT ![c] = res]
    /\ UNCHANGED <<authors, copiers>>

ANext == \E c \in Calls :
    \/ StartCopy(c)
    \/ TakeEffect(c)
    \/ \E res \in {"ok", "conflict", "error"} : Return(c, res)

ASpec == AInit /\ [][ANext]_avars

=============================================================================
