------------------------------- MODULE EnvText -------------------------------
(***************************************************************************)
(* An environment as .env text: pull_to_file writes the latest revision to *)
(* a file, its user adds lines to it, push_from_file makes it the next     *)
(* revision.  Around it the pure parts of the package: dotenv.serialize    *)
(* and dotenv.parse, compute_diff and compute_drift.                       *)
(*                                                                         *)
(* A text is a sequence of characters.  The characters that matter to the  *)
(* code have names (nl, cr, tab, dq, sq, bs for the backslash, vt for the  *)
(* line separators and nb for the white space the serialiser does not      *)
(* know); "export " is one character.  Keys and values are texts.          *)
(***************************************************************************)
EXTENDS Naturals, Sequences, FiniteSets, SequencesExt

CONSTANTS
    Chars,      \* the characters
    Envs,       \* the dicts a caller pushes
    Lines,      \* the lines a user types
    MaxLines,   \* bound: lines typed after a pull
    MaxRevs     \* bound: revisions

VARIABLES
    rev,        \* number of the latest revision, 0 if there is none
    remote,     \* its content
    file,       \* the text of the file
    pulled,     \* the content it was written from
    typed       \* the lines typed into it since

vars == <<rev, remote, file, pulled, typed>>

NoEnv == [k \in {} |-> <<>>]
Entry(k, v) == [x \in {k} |-> v]

(* The dict env after update(new). *)
Updated(env, new) ==
    [k \in DOMAIN env \cup DOMAIN new |-> IF k \in DOMAIN new THEN new[k] ELSE env[k]]

(* What str.splitlines breaks at, what str.strip removes, and the          *)
(* _NEEDS_QUOTING of the serialiser.                                       *)
Breaks == {"nl", "cr", "vt"}
White == Breaks \cup {" ", "tab", "nb"}
NeedsQuoting == {" ", "tab", "nl", "cr", "dq", "sq", "#", "="}

ASSUME CharsAssumption ==
    White \cup NeedsQuoting \cup {"bs", "export", "n", "r", "t"} \subseteq Chars

-----------------------------------------------------------------------------
(* dotenv.serialize *)

Escapes == [bs |-> "bs", dq |-> "dq", nl |-> "n", cr |-> "r", tab |-> "t"]

Escape(ch) == IF ch \in DOMAIN Escapes THEN <<"bs", Escapes[ch]>> ELSE <<ch>>

EscapeAll(v) == FlattenSeq([i \in DOMAIN v |-> Escape(v[i])])

(* Mutant of FormatValue: the backslash is replaced after the quote. *)
FormatValueSwapped(v) ==
    IF v = <<>> \/ ToSet(v) \cap NeedsQuoting # {}
    THEN <<"dq">> \o FlattenSeq([i \in DOMAIN v |->
            IF v[i] = "dq" THEN <<"bs", "bs", "dq">> ELSE Escape(v[i])]) \o <<"dq">>
    ELSE v

FormatValue(v) ==
    IF v = <<>> \/ ToSet(v) \cap NeedsQuoting # {}
    THEN <<"dq">> \o EscapeAll(v) \o <<"dq">> ELSE v

Serialize(env) ==
    LET keys == SetToSeq(DOMAIN env) IN
    FlattenSeq([i \in DOMAIN keys |->
        keys[i] \o <<"=">> \o FormatValue(env[keys[i]]) \o <<"nl">>])

-----------------------------------------------------------------------------
(* dotenv.parse *)

SplitStep(ls, ch) == IF ch \in Breaks THEN Append(ls, <<>>)
                     ELSE [ls EXCEPT ![Len(ls)] = Append(@, ch)]

SplitLines(text) == FoldLeft(SplitStep, << <<>> >>, text)

Strip(s) ==
    LET kept == {i \in DOMAIN s : s[i] \notin White} IN
    IF kept = {} THEN <<>> ELSE SubSeq(s, Min(kept), Max(kept))

Unescapes == [n |-> "nl", t |-> "tab", r |-> "cr", bs |-> "bs", dq |-> "dq"]

Unescaped(ch) == IF ch \in DOMAIN Unescapes THEN <<Unescapes[ch]>> ELSE <<"bs", ch>>

UnescapeStep(st, ch) ==
    IF st.esc THEN [esc |-> FALSE, out |-> st.out \o Unescaped(ch)]
    ELSE IF ch = "bs" THEN [st EXCEPT !.esc = TRUE]
    ELSE [st EXCEPT !.out = Append(@, ch)]

(* A backslash at the end stands for itself. *)
UnescapeDouble(v) ==
    LET end == FoldLeft(UnescapeStep, [esc |-> FALSE, out |-> <<>>], v)
    IN IF end.esc THEN Append(end.out, "bs") ELSE end.out

Quoted(v, q) == Len(v) >= 2 /\ v[1] = q /\ v[Len(v)] = q

ParseValue(v) ==
    CASE Quoted(v, "dq") -> UnescapeDouble(SubSeq(v, 2, Len(v) - 1))
      [] Quoted(v, "sq") -> SubSeq(v, 2, Len(v) - 1)
      [] OTHER -> v

(* A stripped line without the word export. *)
Assignment(raw) ==
    LET line == Strip(raw) IN
    IF line # <<>> /\ line[1] = "export" THEN Strip(Tail(line)) ELSE line

(* Mutant of ParseLine: an empty key is taken. *)
ParseLineEmptyKey(env, raw) ==
    LET line == Assignment(raw)
        eq == SelectInSeq(line, LAMBDA ch : ch = "=")
        key == Strip(SubSeq(line, 1, eq - 1))
    IN IF Strip(raw) = <<>> \/ Strip(raw)[1] = "#" \/ eq = 0
       THEN env
       ELSE Updated(env, Entry(key, ParseValue(Strip(SubSeq(line, eq + 1, Len(line))))))

(* Comments, blank lines, lines without = and empty keys are skipped; a    *)
(* later assignment to a key replaces an earlier one.                      *)
ParseLine(env, raw) ==
    LET line == Assignment(raw)
        eq == SelectInSeq(line, LAMBDA ch : ch = "=")
        key == Strip(SubSeq(line, 1, eq - 1))
    IN IF Strip(raw) = <<>> \/ Strip(raw)[1] = "#" \/ eq = 0 \/ key = <<>>
       THEN env
       ELSE Updated(env, Entry(key, ParseValue(Strip(SubSeq(line, eq + 1, Len(line))))))

Parse(text) == FoldLeft(ParseLine, NoEnv, SplitLines(text))

-----------------------------------------------------------------------------
(* compute_diff and compute_drift.  A content hash stands for the content: *)
(* canonical_bytes is one to one on environments.  status compares with    *)
(* the hash of the last revision that the server lists, which is taken to  *)
(* be the latest, and which may come without one: hash is a set.           *)

(* Mutant of Change: a key with an empty value is taken for a missing one. *)
ChangeFalsy(a, b, k) ==
    IF k \in DOMAIN a /\ (k \notin DOMAIN b \/ b[k] = <<>>)
    THEN [kind |-> "removed", old |-> a[k]]
    ELSE IF k \notin DOMAIN a THEN [kind |-> "added", new |-> b[k]]
    ELSE [kind |-> IF a[k] # b[k] THEN "changed" ELSE "unchanged",
          old |-> a[k], new |-> b[k]]

Change(a, b, k) ==
    IF k \notin DOMAIN b THEN [kind |-> "removed", old |-> a[k]]
    ELSE IF k \notin DOMAIN a THEN [kind |-> "added", new |-> b[k]]
    ELSE [kind |-> IF a[k] # b[k] THEN "changed" ELSE "unchanged",
          old |-> a[k], new |-> b[k]]

Diff(a, b) == [k \in DOMAIN a \cup DOMAIN b |-> Change(a, b, k)]

Drift(local, hash, r) ==
    IF r = 0 THEN "no_remote"
    ELSE IF hash = {local} THEN "synced" ELSE "diverged"

-----------------------------------------------------------------------------
Init ==
    /\ rev = 0 /\ remote = NoEnv
    /\ file = <<>> /\ pulled = NoEnv /\ typed = <<>>

(* push of a dict, here the first revision. *)
PushDict(env) ==
    /\ rev = 0
    /\ rev' = 1
    /\ remote' = env
    /\ UNCHANGED <<file, pulled, typed>>

PullToFile ==
    /\ rev > 0
    /\ file' = Serialize(remote)
    /\ pulled' = remote
    /\ typed' = <<>>
    /\ UNCHANGED <<rev, remote>>

(* The user's editor: a line at the end, or an empty file. *)
TypeLine(line) ==
    /\ Len(typed) < MaxLines
    /\ file' = file \o line \o <<"nl">>
    /\ typed' = Append(typed, line)
    /\ UNCHANGED <<rev, remote, pulled>>

NewFile ==
    /\ file' = <<>> /\ pulled' = NoEnv /\ typed' = <<>>
    /\ UNCHANGED <<rev, remote>>

PushFromFile ==
    /\ rev < MaxRevs
    /\ rev' = rev + 1
    /\ remote' = Parse(file)
    /\ UNCHANGED <<file, pulled, typed>>

Next ==
    \/ \E env \in Envs : PushDict(env)
    \/ PullToFile
    \/ \E line \in Lines : TypeLine(line)
    \/ NewFile
    \/ PushFromFile

Spec == Init /\ [][Next]_vars

-----------------------------------------------------------------------------
(* What goes through a .env file: the characters that the serialiser knows *)
(* (it leaves a value with vt or nb bare, which parse then cuts or trims;  *)
(* export is the word only where it starts a line), and keys that a line   *)
(* can assign to.                                                          *)
Plain == Chars \ {"vt", "nb", "export"}

IsKey(k) ==
    /\ k \in Seq(Plain \ (Breaks \cup {"="})) /\ k # <<>>
    /\ k[1] \notin White \cup {"#"} /\ k[Len(k)] \notin White

IsEnv(env) ==
    /\ env = [k \in DOMAIN env |-> env[k]] /\ IsFiniteSet(DOMAIN env)
    /\ \A k \in DOMAIN env : IsKey(k) /\ env[k] \in Seq(Plain)

ASSUME EnvsAssumption == \A env \in Envs : IsEnv(env)

(* A line in these characters; export may come first, and no # after it.   *)
IsLine(line) ==
    /\ line \in Seq((Plain \ Breaks) \cup {"export"})
    /\ \A i \in DOMAIN line : line[i] = "export" =>
          /\ \A j \in 1..i - 1 : line[j] \in White
          /\ \A j \in DOMAIN line : line[j] # "#"

ASSUME LinesAssumption == \A line \in Lines : IsLine(line)

ASSUME BoundsAssumption == MaxLines \in Nat /\ MaxRevs \in Nat \ {0}

(* What is pushed and pulled can be written to a file, and a file ends     *)
(* where a line does.                                                      *)
TypeOK ==
    /\ rev \in 0..MaxRevs
    /\ IsEnv(remote) /\ IsEnv(pulled)
    /\ typed \in Seq(Lines) /\ Len(typed) <= MaxLines
    /\ file \in Seq(Chars) /\ (file # <<>> => file[Len(file)] \in Breaks)

(* dotenv.md:3 says that push "can accept raw .env text" and pull_to_file  *)
(* "can emit .env files": a file that was pulled reads as what was pulled, *)
(* and every line typed into it changes the one key it assigns to.         *)
Edited(env, line) == Updated(env, Parse(line))

EditsOnly == Parse(file) = FoldLeft(Edited, pulled, typed)

(* What diff reports between two revisions is all there is between them:   *)
(* applied to the first it gives the second, and undone the first; and     *)
(* status calls the local content synced exactly when diff has nothing to  *)
(* report and the server has sent a content hash (client.py:372).          *)
Patched(d) == [k \in {x \in DOMAIN d : d[x].kind # "removed"} |-> d[k].new]
Undone(d)  == [k \in {x \in DOMAIN d : d[x].kind # "added"} |-> d[k].old]

Rebuilds(a, b, r) ==
    LET d == Diff(a, b) IN
    /\ Patched(d) = b
    /\ Undone(d) = a
    /\ \A hash \in SUBSET {b} : Drift(a, hash, r) = "synced" <=>
          hash # {} /\ \A k \in DOMAIN d : d[k].kind = "unchanged"

DiffRebuilds == [][rev' # rev => Rebuilds(remote, remote', rev')]_vars

=============================================================================
