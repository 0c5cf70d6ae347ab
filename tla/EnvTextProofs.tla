--------------------------- MODULE EnvTextProofs ---------------------------
(***************************************************************************)
(* The .env round trip and the diff, for texts of every length, any number *)
(* of keys and any number of edits.  Escapes, lines, files and edits are   *)
(* sequences: Induction and FoldProofs have the induction that the lemmas  *)
(* about them rest on.                                                     *)
(***************************************************************************)
EXTENDS EnvText, Induction, FiniteSetTheorems

-----------------------------------------------------------------------------
(* dotenv.serialize: values *)

(* The texts over all characters. *)
Text == Seq(Chars)

(* The characters of one escape, and what they are read as. *)
LEMMA EscapeOfChar ==
    ASSUME NEW c \in Chars
    PROVE  \/ c # "bs" /\ Escape(c) = <<c>>
           \/ \E x \in Chars : Escape(c) = <<"bs", x>> /\ Unescaped(x) = <<c>>
<1>1. DOMAIN Escapes = {"bs", "dq", "nl", "cr", "tab"}
  BY DEF Escapes
<1>2. DOMAIN Unescapes = {"bs", "dq", "n", "t", "r"}
  BY DEF Unescapes
<1>3. /\ Escapes["bs"] = "bs" /\ Escapes["dq"] = "dq" /\ Escapes["nl"] = "n"
      /\ Escapes["cr"] = "r" /\ Escapes["tab"] = "t"
  BY DEF Escapes
<1>4. /\ Unescapes["bs"] = "bs" /\ Unescapes["dq"] = "dq" /\ Unescapes["n"] = "nl"
      /\ Unescapes["r"] = "cr" /\ Unescapes["t"] = "tab"
  BY DEF Unescapes
<1>5. CASE c \in DOMAIN Escapes
  <2>1. c \in {"bs", "dq", "nl", "cr", "tab"}
    BY <1>1, <1>5
  <2>2. Escapes[c] \in {"bs", "dq", "n", "r", "t"}
    BY <1>3, <2>1
  <2>3. Unescapes[Escapes[c]] = c
    BY <1>3, <1>4, <2>1
  <2>4. Escapes[c] \in Chars
    BY <2>2, CharsAssumption DEF NeedsQuoting
  <2>5. Escapes[c] \in DOMAIN Unescapes
    BY <1>2, <2>2
  <2> QED
    BY <1>5, <2>3, <2>4, <2>5 DEF Escape, Unescaped
<1>6. CASE c \notin DOMAIN Escapes
  BY <1>1, <1>6 DEF Escape
<1> QED
  BY <1>5, <1>6

(* An escape is a text. *)
LEMMA EscapeTyped ==
    ASSUME NEW c \in Chars
    PROVE  Escape(c) \in Text
<1>1. "bs" \in Chars
  BY CharsAssumption
<1> QED
  BY <1>1, EscapeOfChar DEF Text

(* An empty text has no escapes. *)
LEMMA EscapeEmpty == EscapeAll(<<>>) = <<>>
<1>1. [i \in DOMAIN <<>> |-> Escape(<<>>[i])] = <<>>
  OBVIOUS
<1> QED
  BY <1>1, FlattenEmpty DEF EscapeAll

(* One character more adds its escape. *)
LEMMA EscapeAppend ==
    ASSUME NEW v \in Text, NEW c \in Chars
    PROVE  EscapeAll(Append(v, c)) = EscapeAll(v) \o Escape(c)
<1> DEFINE w == Append(v, c)
           n == Len(v)
           f == [i \in DOMAIN w |-> Escape(w[i])]
<1>1. /\ w \in Text /\ n \in Nat /\ Len(w) = n + 1
      /\ DOMAIN v = 1..n /\ DOMAIN w = 1..n + 1
      /\ \A i \in 1..n : w[i] = v[i]
      /\ w[n + 1] = c
  BY AppendProperties, LenProperties DEF Text
<1>2. \A i \in 1..n + 1 : Escape(w[i]) \in Text
  BY <1>1, EscapeTyped, ElementOfSeq DEF Text
<1>3. f \in [1..n + 1 -> Text] /\ f[n + 1] = Escape(c)
  BY <1>1, <1>2
<1>4. [i \in 1..n |-> f[i]] = [i \in DOMAIN v |-> Escape(v[i])]
  BY <1>1
<1> HIDE DEF f
<1>5. FlattenSeq(f) = FlattenSeq([i \in 1..n |-> f[i]]) \o f[n + 1]
  BY <1>1, <1>3, FlattenMore DEF Text
<1> QED
  BY <1>3, <1>4, <1>5 DEF EscapeAll, f

-----------------------------------------------------------------------------
(* dotenv.parse: values *)

(* The fold of UnescapeDouble, and its state after the characters of v.    *)
Unescape == INSTANCE FoldProofs WITH Step <- UnescapeStep

Reading(out) == [esc |-> FALSE, out |-> out]
Read(v) == FoldLeft(UnescapeStep, Reading(<<>>), v)

(* What FoldProofs shows of a fold holds of Read. *)
LEMMA ReadFold ==
    ASSUME NEW v
    PROVE  Read(v) = Unescape!Fold(Reading(<<>>), v)
BY DEF Read, Unescape!Fold, Unescape!FoldLeft, FoldLeft,
       Unescape!MapThenFoldSet, MapThenFoldSet, Unescape!Max, Max

(* One character more is one step more. *)
LEMMA ReadAppend ==
    ASSUME NEW v \in Text, NEW c \in Chars
    PROVE  Read(Append(v, c)) = UnescapeStep(Read(v), c)
BY ReadFold, Unescape!FoldAppend DEF Text

(* Before the first character nothing has been read. *)
LEMMA ReadEmpty == Read(<<>>) = Reading(<<>>)
BY ReadFold, Unescape!FoldEmpty

(* What is escaped is a text. *)
LEMMA EscapeAllTyped == \A v \in Text : EscapeAll(v) \in Text
<1> DEFINE T == {v \in Text : EscapeAll(v) \in Text}
<1>1. <<>> \in T
  BY EscapeEmpty, EmptySeq DEF Text
<1>2. ASSUME NEW v \in Text, v \in T, NEW c \in Chars PROVE Append(v, c) \in T
  <2>1. EscapeAll(v) \in Text /\ Escape(c) \in Text
    BY <1>2, EscapeTyped
  <2>2. Append(v, c) \in Text /\ EscapeAll(v) \o Escape(c) \in Text
    BY <2>1, AppendProperties, ConcatProperties DEF Text
  <2> QED
    BY <2>2, EscapeAppend
<1> HIDE DEF T
<1>3. Text \subseteq T
  BY <1>1, <1>2, SequenceInduction DEF Text
<1> QED
  BY <1>3 DEF T

(* The characters of an escaped text are read as the text, with no escape  *)
(* left open.                                                              *)
LEMMA ReadEscaped == \A v \in Text : Read(EscapeAll(v)) = Reading(v)
<1> DEFINE T == {v \in Text : Read(EscapeAll(v)) = Reading(v)}
<1>1. <<>> \in T
  BY EscapeEmpty, ReadEmpty, EmptySeq DEF Text
<1>2. ASSUME NEW v \in Text, v \in T, NEW c \in Chars PROVE Append(v, c) \in T
  <2> DEFINE e == EscapeAll(v)
  <2>1. e \in Text /\ Append(v, c) \in Text
    BY EscapeAllTyped, AppendProperties DEF Text
  <2>2. Read(e) = Reading(v) /\ EscapeAll(Append(v, c)) = e \o Escape(c)
    BY <1>2, EscapeAppend
  <2> HIDE DEF e
  <2>3. CASE c # "bs" /\ Escape(c) = <<c>>
    <3>1. e \o <<c>> = Append(e, c)
      BY <2>1, AppendIsConcat DEF Text
    <3>2. Read(Append(e, c)) = UnescapeStep(Reading(v), c)
      BY <2>1, <2>2, ReadAppend
    <3>3. UnescapeStep(Reading(v), c) = Reading(Append(v, c))
      BY <2>3 DEF UnescapeStep, Reading
    <3> QED
      BY <2>1, <2>2, <2>3, <3>1, <3>2, <3>3
  <2>4. ASSUME NEW x \in Chars, Escape(c) = <<"bs", x>>, Unescaped(x) = <<c>>
        PROVE  Append(v, c) \in T
    <3>1. "bs" \in Chars
      BY CharsAssumption
    <3>2. /\ e \o <<"bs", x>> = Append(Append(e, "bs"), x)
          /\ Append(e, "bs") \in Text /\ v \o <<c>> = Append(v, c)
      BY <2>1, <3>1 DEF Text
    <3>3. Read(Append(e, "bs")) = [esc |-> TRUE, out |-> v]
      BY <2>1, <2>2, <3>1, ReadAppend DEF UnescapeStep, Reading
    <3>4. Read(Append(Append(e, "bs"), x)) = Reading(v \o <<c>>)
      <4>1. Read(Append(Append(e, "bs"), x)) = UnescapeStep([esc |-> TRUE, out |-> v], x)
        BY <3>2, <3>3, ReadAppend
      <4> QED
        BY <2>4, <4>1 DEF UnescapeStep, Reading
    <3> QED
      BY <2>1, <2>2, <2>4, <3>2, <3>4
  <2> QED
    BY <2>3, <2>4, EscapeOfChar
<1> HIDE DEF T
<1>3. Text \subseteq T
  BY <1>1, <1>2, SequenceInduction DEF Text
<1> QED
  BY <1>3 DEF T

(* _unescape_double undoes the escapes of _format_value. *)
LEMMA UnescapeEscaped ==
    ASSUME NEW v \in Text
    PROVE  UnescapeDouble(EscapeAll(v)) = v
<1>1. Read(EscapeAll(v)) = Reading(v)
  BY ReadEscaped
<1>2. UnescapeDouble(EscapeAll(v)) = Reading(v).out
  BY <1>1 DEF UnescapeDouble, Read, Reading
<1> QED
  BY <1>2 DEF Reading

(* _parse_value gives back what _format_value wrote, whatever characters   *)
(* the value has: quotes and backslashes at any place, and none at all.    *)
THEOREM ValueRoundTrip ==
    ASSUME NEW v \in Text
    PROVE  ParseValue(FormatValue(v)) = v
<1>0. /\ {"dq", "sq"} \subseteq Chars /\ {"dq", "sq"} \subseteq NeedsQuoting
      /\ EscapeAll(v) \in Text
  BY CharsAssumption, EscapeAllTyped DEF NeedsQuoting
<1>1. CASE v = <<>> \/ ToSet(v) \cap NeedsQuoting # {}
  <2> DEFINE e == EscapeAll(v)
             q == <<"dq">> \o e \o <<"dq">>
  <2>1. e \in Text /\ Len(e) \in Nat
    BY <1>0, LenProperties DEF Text
  <2> HIDE DEF e
  <2>2. /\ q \in Text /\ Len(q) = Len(e) + 2 /\ q[1] = "dq" /\ q[Len(q)] = "dq"
    BY <1>0, <2>1 DEF Text
  <2>3. SubSeq(q, 2, Len(q) - 1) = e
    BY <1>0, <2>1, <2>2 DEF Text
  <2>4. Quoted(q, "dq") /\ ~Quoted(q, "sq")
    BY <2>1, <2>2 DEF Quoted
  <2> HIDE DEF q
  <2>5. ParseValue(q) = UnescapeDouble(e)
    BY <2>3, <2>4 DEF ParseValue
  <2>6. FormatValue(v) = q
    BY <1>1 DEF FormatValue, q, e
  <2> QED
    BY <2>5, <2>6, UnescapeEscaped DEF e
<1>2. CASE v # <<>> /\ ToSet(v) \cap NeedsQuoting = {}
  <2>1. Len(v) \in Nat \ {0} /\ DOMAIN v = 1..Len(v)
    BY <1>2, EmptySeq, LenProperties DEF Text
  <2>2. v[1] \in ToSet(v)
    BY <2>1 DEF ToSet
  <2>3. v[1] # "dq" /\ v[1] # "sq"
    BY <1>0, <1>2, <2>2
  <2> QED
    BY <1>2, <2>3 DEF FormatValue, ParseValue, Quoted
<1> QED
  BY <1>1, <1>2

-----------------------------------------------------------------------------
(* Dicts *)

(* A dict, whatever its keys and values are. *)
IsDict(a) == a = [k \in DOMAIN a |-> a[k]]

(* An update has the keys of both. *)
LEMMA UpdatedIsDict ==
    ASSUME NEW a, NEW b
    PROVE  IsDict(Updated(a, b)) /\ DOMAIN Updated(a, b) = DOMAIN a \cup DOMAIN b
BY DEF IsDict, Updated

(* The empty dict. *)
LEMMA NoEnvIsDict == IsDict(NoEnv) /\ DOMAIN NoEnv = {}
BY DEF IsDict, NoEnv

(* It changes nothing that it updates, *)
LEMMA UpdatedByNothing ==
    ASSUME NEW a, IsDict(a)
    PROVE  Updated(a, NoEnv) = a
<1>1. DOMAIN a \cup DOMAIN NoEnv = DOMAIN a
  BY NoEnvIsDict
<1>2. Updated(a, NoEnv) = [k \in DOMAIN a |-> a[k]]
  BY <1>1, NoEnvIsDict DEF Updated
<1> QED
  BY <1>2 DEF IsDict

(* and becomes whatever it is updated by. *)
LEMMA UpdateNothing ==
    ASSUME NEW a, IsDict(a)
    PROVE  Updated(NoEnv, a) = a
<1>1. DOMAIN NoEnv \cup DOMAIN a = DOMAIN a
  BY NoEnvIsDict
<1>2. Updated(NoEnv, a) = [k \in DOMAIN a |-> a[k]]
  BY <1>1, NoEnvIsDict DEF Updated
<1> QED
  BY <1>2 DEF IsDict

-----------------------------------------------------------------------------
(* dotenv.parse: lines *)

(* The fold of SplitLines. *)
Split == INSTANCE FoldProofs WITH Step <- SplitStep

(* What FoldProofs shows of a fold holds of SplitLines. *)
LEMMA SplitFold ==
    ASSUME NEW t
    PROVE  SplitLines(t) = Split!Fold(<< <<>> >>, t)
BY DEF SplitLines, Split!Fold, Split!FoldLeft, FoldLeft,
       Split!MapThenFoldSet, MapThenFoldSet, Split!Max, Max

(* An empty text is one empty line, *)
LEMMA SplitEmpty == SplitLines(<<>>) = << <<>> >>
BY SplitFold, Split!FoldEmpty

(* and one character more is one step more. *)
LEMMA SplitAppend ==
    ASSUME NEW t \in Text, NEW c \in Chars
    PROVE  SplitLines(Append(t, c)) = SplitStep(SplitLines(t), c)
BY SplitFold, Split!FoldAppend DEF Text

(* A text on one line. *)
Line == Seq(Chars \ Breaks)

(* Lines are texts, *)
LEMMA LineIsText == ASSUME NEW l \in Line PROVE l \in Text
BY SeqMonotonic DEF Line, Text

(* and so is what is written after each. *)
LEMMA NewlineIsText == <<"nl">> \in Text
<1>1. "nl" \in Chars
  BY CharsAssumption DEF White, Breaks
<1> QED
  BY <1>1 DEF Text

(* A character that breaks no line goes to the last line. *)
LEMMA SplitOther ==
    ASSUME NEW ls \in Seq(Text), NEW l \in Text, NEW c \in Chars \ Breaks
    PROVE  SplitStep(Append(ls, l), c) = Append(ls, Append(l, c))
<1> DEFINE old == Append(ls, l)
           new == Append(ls, Append(l, c))
           n == Len(ls) + 1
<1>1. Append(l, c) \in Text /\ Len(ls) \in Nat /\ n \in 1..n
  BY AppendProperties, LenProperties DEF Text
<1>2. /\ old \in Seq(Text) /\ Len(old) = n /\ old[n] = l
      /\ \A i \in 1..Len(ls) : old[i] = ls[i]
  BY AppendProperties
<1>3. /\ new \in Seq(Text) /\ Len(new) = n /\ new[n] = Append(l, c)
      /\ \A i \in 1..Len(ls) : new[i] = ls[i]
  BY <1>1, AppendProperties
<1>4. SplitStep(old, c) = [old EXCEPT ![n] = Append(l, c)]
  <2> HIDE DEF old, new
  <2> QED
    BY <1>2 DEF SplitStep
<1> HIDE DEF old, new
<1> DEFINE mid == [old EXCEPT ![n] = Append(l, c)]
<1>5. /\ mid \in Seq(Text) /\ Len(mid) = n
      /\ \A i \in 1..n : mid[i] = IF i = n THEN Append(l, c) ELSE old[i]
  BY <1>1, <1>2, ExceptSeq
<1> HIDE DEF mid
<1>6. \A i \in 1..n : mid[i] = new[i]
  <2>1. \A i \in 1..n : i # n => i \in 1..Len(ls)
    BY <1>1
  <2> HIDE DEF n
  <2> QED
    BY <1>2, <1>3, <1>5, <2>1
<1>7. mid = new
  BY <1>3, <1>5, <1>6, SeqEqual
<1> QED
  BY <1>4, <1>7 DEF mid, old, new

(* A line after a break. *)
LEMMA SplitLine ==
    ASSUME NEW t \in Text, NEW ls \in Seq(Text), SplitLines(t) = Append(ls, <<>>)
    PROVE  \A l \in Line : SplitLines(t \o l) = Append(ls, l)
<1> DEFINE T == {l \in Line : SplitLines(t \o l) = Append(ls, l)}
<1>1. <<>> \in T
  BY ConcatEmptySeq, EmptySeq DEF Text, Line
<1>2. ASSUME NEW l \in Line, l \in T, NEW c \in Chars \ Breaks PROVE Append(l, c) \in T
  <2>1. l \in Text /\ Append(l, c) \in Line
    BY SeqMonotonic, AppendProperties DEF Text, Line
  <2>2. t \o l \in Text
    BY <2>1, ConcatProperties DEF Text
  <2>3. t \o Append(l, c) = Append(t \o l, c)
    BY <2>1, <2>2 DEF Text
  <2>4. SplitLines(Append(t \o l, c)) = SplitStep(Append(ls, l), c)
    BY <1>2, <2>2, SplitAppend
  <2> QED
    BY <2>1, <2>3, <2>4, SplitOther
<1> HIDE DEF T
<1>3. Line \subseteq T
  BY <1>1, <1>2, SequenceInduction DEF Line
<1> QED
  BY <1>3 DEF T

(* Splitting gives texts. *)
LEMMA SplitTyped ==
    \A t \in Text : SplitLines(t) \in Seq(Text) /\ SplitLines(t) # <<>>
<1> DEFINE T == {t \in Text : SplitLines(t) \in Seq(Text) /\ SplitLines(t) # <<>>}
<1>1. <<>> \in T
  <2>1. <<>> \in Text
    BY EmptySeq DEF Text
  <2> QED
    BY <2>1, SplitEmpty
<1>2. ASSUME NEW t \in Text, t \in T, NEW c \in Chars PROVE Append(t, c) \in T
  <2> DEFINE ls == SplitLines(t)
  <2>1. ls \in Seq(Text) /\ ls # <<>> /\ SplitLines(Append(t, c)) = SplitStep(ls, c)
    BY <1>2, SplitAppend
  <2>2. Append(t, c) \in Text /\ <<>> \in Text
    BY AppendProperties, EmptySeq DEF Text
  <2> HIDE DEF ls
  <2>3. CASE c \in Breaks
    <3>1. SplitStep(ls, c) = Append(ls, <<>>)
      BY <2>3 DEF SplitStep
    <3> QED
      BY <2>1, <2>2, <3>1, AppendProperties
  <2>4. CASE c \notin Breaks
    <3>1. PICK fs \in Seq(Text), l \in Text : ls = Append(fs, l)
      BY <2>1, SequenceEmptyOrAppend
    <3>2. SplitStep(ls, c) = Append(fs, Append(l, c))
      BY <2>4, <3>1, SplitOther
    <3>3. Append(l, c) \in Text
      BY AppendProperties DEF Text
    <3>4. /\ Append(fs, Append(l, c)) \in Seq(Text)
          /\ Append(fs, Append(l, c)) # <<>>
      BY <3>3, AppendProperties
    <3> QED
      BY <2>1, <2>2, <3>2, <3>4
  <2> QED
    BY <2>3, <2>4
<1> HIDE DEF T
<1>3. Text \subseteq T
  BY <1>1, <1>2, SequenceInduction DEF Text
<1> QED
  BY <1>3 DEF T

(* A file: empty, or a text that ends in a break. *)
IsFile(t) == t \in Text /\ (t # <<>> => t[Len(t)] \in Breaks)

(* The last of the lines of a file is empty. *)
LEMMA SplitOfFile ==
    ASSUME NEW t, IsFile(t)
    PROVE  \E ls \in Seq(Text) : SplitLines(t) = Append(ls, <<>>)
<1>1. CASE t = <<>>
  <2>1. << <<>> >> = Append(<<>>, <<>>) /\ <<>> \in Seq(Text)
    BY EmptySeq
  <2> QED
    BY <1>1, <2>1, SplitEmpty
<1>2. CASE t # <<>>
  <2>1. PICK u \in Text, c \in Chars : t = Append(u, c)
    BY <1>2, SequenceEmptyOrAppend DEF IsFile, Text
  <2>2. t[Len(t)] = c
    BY <2>1, AppendProperties, LenProperties DEF Text
  <2>3. c \in Breaks
    BY <1>2, <2>2 DEF IsFile
  <2>4. SplitLines(t) = Append(SplitLines(u), <<>>)
    BY <2>1, <2>3, SplitAppend DEF SplitStep
  <2> QED
    BY <2>4, SplitTyped
<1> QED
  BY <1>1, <1>2

-----------------------------------------------------------------------------
(* dotenv.parse: assignments *)

(* The fold of Parse, and the dict after the lines ls. *)
Load == INSTANCE FoldProofs WITH Step <- ParseLine
Loaded(ls) == FoldLeft(ParseLine, NoEnv, ls)

(* What FoldProofs shows of a fold holds of Loaded. *)
LEMMA LoadFold ==
    ASSUME NEW ls
    PROVE  Loaded(ls) = Load!Fold(NoEnv, ls)
BY DEF Loaded, Load!Fold, Load!FoldLeft, FoldLeft,
       Load!MapThenFoldSet, MapThenFoldSet, Load!Max, Max

(* One line more is one ParseLine more. *)
LEMMA LoadAppend ==
    ASSUME NEW ls \in Seq(Text), NEW l \in Text
    PROVE  Loaded(Append(ls, l)) = ParseLine(Loaded(ls), l)
BY LoadFold, Load!FoldAppend

(* No line says nothing, *)
LEMMA LoadEmpty == Loaded(<<>>) = NoEnv
BY LoadFold, Load!FoldEmpty

(* and nor does an empty one. *)
LEMMA StripEmpty == Strip(<<>>) = <<>>
BY DEF Strip

(* ParseLine skips an empty line. *)
LEMMA ParseLineEmpty == ASSUME NEW env PROVE ParseLine(env, <<>>) = env
BY StripEmpty DEF ParseLine

(* What one line does to an environment is what it says alone.             *)
LEMMA LineAlone ==
    ASSUME NEW env, IsDict(env), NEW l
    PROVE  /\ IsDict(ParseLine(env, l))
           /\ ParseLine(env, l) = Updated(env, ParseLine(NoEnv, l))
<1> DEFINE line == Assignment(l)
           eq == SelectInSeq(line, LAMBDA ch : ch = "=")
           key == Strip(SubSeq(line, 1, eq - 1))
           e == Entry(key, ParseValue(Strip(SubSeq(line, eq + 1, Len(line)))))
           skips == Strip(l) = <<>> \/ Strip(l)[1] = "#" \/ eq = 0 \/ key = <<>>
<1>1. \A x : ParseLine(x, l) = IF skips THEN x ELSE Updated(x, e)
  BY DEF ParseLine
<1>2. IsDict(e)
  BY DEF IsDict, Entry
<1> HIDE DEF skips, e
<1>3. CASE skips
  BY <1>1, <1>3, UpdatedByNothing
<1>4. CASE ~skips
  <2>1. ParseLine(env, l) = Updated(env, e) /\ ParseLine(NoEnv, l) = e
    BY <1>1, <1>2, <1>4, UpdateNothing
  <2> QED
    BY <2>1, UpdatedIsDict
<1> QED
  BY <1>3, <1>4

(* Lines make a dict. *)
LEMMA LoadedIsDict == \A ls \in Seq(Text) : IsDict(Loaded(ls))
<1> DEFINE T == {ls \in Seq(Text) : IsDict(Loaded(ls))}
<1>1. <<>> \in T
  BY LoadEmpty, NoEnvIsDict, EmptySeq
<1>2. ASSUME NEW ls \in Seq(Text), ls \in T, NEW l \in Text PROVE Append(ls, l) \in T
  BY <1>2, LoadAppend, LineAlone, AppendProperties
<1> HIDE DEF T
<1>3. Seq(Text) \subseteq T
  BY <1>1, <1>2, SequenceInduction
<1> QED
  BY <1>3 DEF T

(* A line is read as what it says. *)
LEMMA ParseOfLine ==
    ASSUME NEW l \in Line
    PROVE  Parse(l) = ParseLine(NoEnv, l)
<1>1. l \in Text /\ <<>> \in Text /\ <<>> \in Seq(Text) /\ <<>> \o l = l
  BY SeqMonotonic, EmptySeq, ConcatEmptySeq DEF Text, Line
<1>2. SplitLines(<<>>) = Append(<<>>, <<>>)
  BY SplitEmpty
<1>3. SplitLines(l) = Append(<<>>, l)
  BY <1>1, <1>2, SplitLine
<1>4. Parse(l) = Loaded(Append(<<>>, l))
  BY <1>3 DEF Parse, Loaded
<1> QED
  BY <1>1, <1>4, LoadAppend, LoadEmpty

(* A line at the end of a file changes what the file is read as by what it *)
(* says alone, and leaves a file.                                          *)
LEMMA LineAtEnd ==
    ASSUME NEW t, IsFile(t), NEW l \in Line
    PROVE  /\ IsFile(t \o l \o <<"nl">>)
           /\ IsDict(Parse(t))
           /\ Parse(t \o l \o <<"nl">>) = ParseLine(Parse(t), l)
           /\ Parse(t \o l \o <<"nl">>) = Updated(Parse(t), Parse(l))
<1>1. PICK ls \in Seq(Text) : SplitLines(t) = Append(ls, <<>>)
  BY SplitOfFile
<1>2. t \in Text /\ l \in Text /\ <<>> \in Text /\ "nl" \in Chars /\ "nl" \in Breaks
  BY SeqMonotonic, EmptySeq, CharsAssumption DEF Text, Line, IsFile, White, Breaks
<1>3. t \o l \in Text /\ t \o l \o <<"nl">> = Append(t \o l, "nl")
  BY <1>2 DEF Text
<1>4. SplitLines(t \o l) = Append(ls, l)
  BY <1>1, <1>2, SplitLine
<1>5. SplitLines(t \o l \o <<"nl">>) = Append(Append(ls, l), <<>>)
  BY <1>2, <1>3, <1>4, SplitAppend DEF SplitStep
<1>6. Parse(t) = Loaded(ls) /\ IsDict(Parse(t))
  <2>1. Parse(t) = Loaded(Append(ls, <<>>))
    BY <1>1 DEF Parse, Loaded
  <2> QED
    BY <1>2, <2>1, LoadAppend, ParseLineEmpty, LoadedIsDict
<1>7. Parse(t \o l \o <<"nl">>) = ParseLine(Parse(t), l)
  <2>1. Parse(t \o l \o <<"nl">>) = Loaded(Append(Append(ls, l), <<>>))
    BY <1>5 DEF Parse, Loaded
  <2>2. Append(ls, l) \in Seq(Text)
    BY <1>2, AppendProperties
  <2>3. Loaded(Append(Append(ls, l), <<>>)) = Loaded(Append(ls, l))
    BY <1>2, <2>2, LoadAppend, ParseLineEmpty
  <2>4. Loaded(Append(ls, l)) = ParseLine(Loaded(ls), l)
    BY <1>2, LoadAppend
  <2> QED
    BY <1>6, <2>1, <2>3, <2>4
<1>8. IsFile(t \o l \o <<"nl">>)
  <2>1. /\ Append(t \o l, "nl") \in Text
        /\ Append(t \o l, "nl")[Len(Append(t \o l, "nl"))] = "nl"
    BY <1>2, <1>3, AppendProperties, LenProperties DEF Text
  <2> QED
    BY <1>2, <1>3, <2>1 DEF IsFile
<1> QED
  BY <1>6, <1>7, <1>8, LineAlone, ParseOfLine

-----------------------------------------------------------------------------
(* str.strip and str.partition *)

(* Strip keeps what is from m to n. *)
Stripped(s, m, n) ==
    /\ m \in 1..Len(s) /\ n \in m..Len(s)
    /\ Strip(s) = SubSeq(s, m, n)
    /\ s[m] \notin White /\ s[n] \notin White
    /\ \A i \in 1..m - 1 : s[i] \in White

(* What is left by Strip has no white space at its ends or before it.      *)
LEMMA StripShape ==
    ASSUME NEW S, NEW s \in Seq(S), Strip(s) # <<>>
    PROVE  \E m, n \in 1..Len(s) : Stripped(s, m, n)
<1> DEFINE kept == {i \in DOMAIN s : s[i] \notin White}
<1>1. Len(s) \in Nat /\ DOMAIN s = 1..Len(s) /\ kept \subseteq 1..Len(s)
  BY LenProperties
<1>2. kept # {} /\ Strip(s) = SubSeq(s, Min(kept), Max(kept))
  BY DEF Strip
<1> DEFINE m == Min(kept)
           n == Max(kept)
<1>3. /\ m \in kept /\ n \in kept /\ m <= n
      /\ \A i \in kept : m <= i
  <2> HIDE DEF kept
  <2> QED
    BY <1>1, <1>2, MinOfRange, MaxOfRange
<1>4. \A i \in 1..m - 1 : i \in DOMAIN s /\ i \notin kept
  <2>1. m \in 1..Len(s) /\ n \in 1..Len(s)
    BY <1>1, <1>3
  <2> HIDE DEF kept, m, n
  <2>2. ASSUME NEW i \in 1..m - 1 PROVE i \in 1..Len(s) /\ ~(m <= i)
    BY <1>1, <2>1
  <2> QED
    BY <1>1, <1>3, <2>2
<1>5. Stripped(s, m, n)
  <2>1. m \in 1..Len(s) /\ n \in m..Len(s)
    <3> HIDE DEF kept, m, n
    <3> QED
      BY <1>1, <1>3
  <2>2. s[m] \notin White /\ s[n] \notin White /\ \A i \in 1..m - 1 : s[i] \in White
    BY <1>3, <1>4
  <2> QED
    BY <1>2, <2>1, <2>2 DEF Stripped
<1> HIDE DEF m, n
<1> QED
  BY <1>1, <1>3, <1>5

(* A text without white space at its ends is stripped already. *)
LEMMA StripNothing ==
    ASSUME NEW S, NEW s \in Seq(S), s # <<>>, s[1] \notin White, s[Len(s)] \notin White
    PROVE  Strip(s) = s
<1> DEFINE kept == {i \in DOMAIN s : s[i] \notin White}
<1>1. Len(s) \in Nat \ {0} /\ DOMAIN s = 1..Len(s)
  BY EmptySeq, LenProperties
<1>2. 1 \in kept /\ Len(s) \in kept /\ kept \subseteq 1..Len(s)
  BY <1>1
<1>3. Strip(s) = SubSeq(s, Min(kept), Max(kept))
  BY <1>2 DEF Strip
<1> HIDE DEF kept
<1>4. /\ Min(kept) \in kept /\ Max(kept) \in kept
      /\ Min(kept) <= 1 /\ Max(kept) >= Len(s)
  BY <1>1, <1>2, MinOfRange, MaxOfRange
<1>5. ASSUME NEW i \in kept PROVE (i <= 1 => i = 1) /\ (i >= Len(s) => i = Len(s))
  <2>1. i \in 1..Len(s) /\ Len(s) \in Nat
    BY <1>1, <1>2
  <2> QED
    BY <2>1
<1> QED
  BY <1>3, <1>4, <1>5, SubSeqFull

(* The place of the first = of a line. *)
FirstEq(s) == SelectInSeq(s, LAMBDA ch : ch = "=")

(* It is n if there is one at n and none before, *)
LEMMA FirstEqIs ==
    ASSUME NEW S, NEW s \in Seq(S), NEW n \in 1..Len(s), s[n] = "=",
           \A i \in 1..n - 1 : s[i] # "="
    PROVE  FirstEq(s) = n
<1> DEFINE I == {i \in 1..Len(s) : s[i] = "="}
<1>1. Len(s) \in Nat /\ n \in I /\ I \subseteq 1..Len(s)
  BY LenProperties
<1>2. FirstEq(s) = Min(I)
  BY <1>1 DEF FirstEq, SelectInSeq
<1>3. \A i \in I : i \notin 1..n - 1 /\ i \in 1..Len(s)
  OBVIOUS
<1> HIDE DEF I
<1>4. Min(I) \in I /\ Min(I) <= n
  BY <1>1, MinOfRange
<1>5. ASSUME NEW m \in I, m <= n PROVE m = n
  <2>1. m \in 1..Len(s) /\ m \notin 1..n - 1
    BY <1>3
  <2> QED
    BY <1>1, <1>5, <2>1
<1> QED
  BY <1>2, <1>4, <1>5

(* and where it is there is none before. *)
LEMMA FirstEqFound ==
    ASSUME NEW S, NEW s \in Seq(S), FirstEq(s) # 0
    PROVE  /\ FirstEq(s) \in 1..Len(s)
           /\ \A i \in 1..FirstEq(s) - 1 : s[i] # "="
<1> DEFINE I == {i \in 1..Len(s) : s[i] = "="}
<1>1. Len(s) \in Nat /\ I \subseteq 1..Len(s)
  BY LenProperties
<1>2. I # {} /\ FirstEq(s) = Min(I)
  BY DEF FirstEq, SelectInSeq
<1>3. Min(I) \in I /\ \A i \in I : Min(I) <= i
  <2> HIDE DEF I
  <2> QED
    BY <1>1, <1>2, MinOfRange
<1> DEFINE m == Min(I)
<1>4. m \in 1..Len(s)
  <2> HIDE DEF I
  <2> QED
    BY <1>1, <1>3
<1>5. \A i \in 1..m - 1 : i \in 1..Len(s) /\ i \notin I
  <2>1. m \in I /\ \A i \in I : m <= i
    BY <1>3
  <2> HIDE DEF m, I
  <2> QED
    BY <1>1, <1>4, <2>1
<1>6. \A i \in 1..m - 1 : s[i] # "="
  BY <1>5
<1> HIDE DEF m, I
<1> QED
  BY <1>2, <1>4, <1>6 DEF m

(* The parts of a line, and whether it has none. *)
KeyOf(raw) == Strip(SubSeq(Assignment(raw), 1, FirstEq(Assignment(raw)) - 1))

ValueOf(raw) ==
    ParseValue(Strip(SubSeq(Assignment(raw), FirstEq(Assignment(raw)) + 1,
                            Len(Assignment(raw)))))

Skipped(raw) ==
    \/ Strip(raw) = <<>> \/ Strip(raw)[1] = "#"
    \/ FirstEq(Assignment(raw)) = 0 \/ KeyOf(raw) = <<>>

(* ParseLine in these terms. *)
LEMMA ParseLineIs ==
    ASSUME NEW env, NEW raw
    PROVE  ParseLine(env, raw) = IF Skipped(raw) THEN env
                                 ELSE Updated(env, Entry(KeyOf(raw), ValueOf(raw)))
BY DEF ParseLine, Skipped, KeyOf, ValueOf, FirstEq

-----------------------------------------------------------------------------
(* dotenv.serialize: what is written, parse reads back *)

(* The values that go through a .env file. *)
Values == Seq(Plain)

(* They are texts. *)
LEMMA PlainText == Values \subseteq Text
BY SeqMonotonic DEF Values, Text, Plain

(* An escape breaks no line, *)
LEMMA EscapeOfPlain ==
    ASSUME NEW c \in Plain
    PROVE  Escape(c) \in Line
<1>1. DOMAIN Escapes = {"bs", "dq", "nl", "cr", "tab"}
  BY DEF Escapes
<1>2. /\ Escapes["bs"] = "bs" /\ Escapes["dq"] = "dq" /\ Escapes["nl"] = "n"
      /\ Escapes["cr"] = "r" /\ Escapes["tab"] = "t"
  BY DEF Escapes
<1>3. {"bs", "dq", "n", "r", "t"} \subseteq Chars \ Breaks
  BY CharsAssumption DEF NeedsQuoting, Breaks
<1>4. CASE c \in DOMAIN Escapes
  <2>1. c \in {"bs", "dq", "nl", "cr", "tab"}
    BY <1>1, <1>4
  <2>2. Escapes[c] \in {"bs", "dq", "n", "r", "t"}
    BY <1>2, <2>1
  <2>3. "bs" \in Chars \ Breaks /\ Escapes[c] \in Chars \ Breaks
    BY <1>3, <2>2
  <2> QED
    BY <1>4, <2>3 DEF Escape, Line
<1>5. CASE c \notin DOMAIN Escapes
  <2>1. c \in Chars \ Breaks
    BY <1>1, <1>5 DEF Plain, Breaks
  <2> QED
    BY <1>5, <2>1 DEF Escape, Line
<1> QED
  BY <1>4, <1>5

(* and nor does an escaped value. *)
LEMMA EscapeAllOfPlain == \A v \in Values : EscapeAll(v) \in Line
<1> DEFINE T == {v \in Values : EscapeAll(v) \in Line}
<1>1. <<>> \in T
  BY EscapeEmpty, EmptySeq DEF Values, Line
<1>2. ASSUME NEW v \in Values, v \in T, NEW c \in Plain PROVE Append(v, c) \in T
  <2>1. EscapeAll(v) \in Line /\ Escape(c) \in Line /\ v \in Text /\ c \in Chars
    BY <1>2, EscapeOfPlain, PlainText DEF Plain
  <2>2. Append(v, c) \in Values /\ EscapeAll(v) \o Escape(c) \in Line
    BY <2>1, AppendProperties, ConcatProperties DEF Values, Line
  <2> QED
    BY <2>1, <2>2, EscapeAppend
<1> HIDE DEF T
<1>3. Values \subseteq T
  BY <1>1, <1>2, SequenceInduction DEF Values
<1> QED
  BY <1>3 DEF T

(* A written value breaks no line, and strip leaves it as it is. *)
LEMMA FormatShape ==
    ASSUME NEW v \in Values
    PROVE  /\ FormatValue(v) \in Line
           /\ Strip(FormatValue(v)) = FormatValue(v)
           /\ FormatValue(v) # <<>>
           /\ FormatValue(v)[Len(FormatValue(v))] \notin White
<1> DEFINE f == FormatValue(v)
<1>1. f \in Line /\ f # <<>> /\ f[1] \notin White /\ f[Len(f)] \notin White
  <2>1. CASE v = <<>> \/ ToSet(v) \cap NeedsQuoting # {}
    <3> DEFINE e == EscapeAll(v)
               q == <<"dq">> \o e \o <<"dq">>
    <3>1. e \in Line /\ Len(e) \in Nat
      BY EscapeAllOfPlain, LenProperties DEF Line
    <3>2. "dq" \in Chars \ Breaks /\ "dq" \notin White
      BY CharsAssumption DEF NeedsQuoting, White, Breaks
    <3> HIDE DEF e
    <3>3. /\ q \in Line /\ Len(q) = Len(e) + 2 /\ q[1] = "dq" /\ q[Len(q)] = "dq"
          /\ q # <<>>
      BY <3>1, <3>2 DEF Line
    <3> HIDE DEF q
    <3>4. f = q
      BY <2>1 DEF FormatValue, q, e
    <3> QED
      BY <3>2, <3>3, <3>4
  <2>2. CASE v # <<>> /\ ToSet(v) \cap NeedsQuoting = {}
    <3>1. Len(v) \in Nat \ {0} /\ DOMAIN v = 1..Len(v)
      BY <2>2, EmptySeq, LenProperties DEF Values
    <3>2. \A i \in 1..Len(v) : v[i] \in Plain /\ v[i] \notin NeedsQuoting
      BY <2>2, <3>1, ElementOfSeq DEF Values, ToSet
    <3>3. \A i \in 1..Len(v) : v[i] \in Chars \ Breaks /\ v[i] \notin White
      BY <3>2 DEF Plain, NeedsQuoting, White, Breaks
    <3>4. v \in Line
      BY <3>1, <3>3 DEF Values, Line
    <3>5. v[1] \notin White /\ v[Len(v)] \notin White
      BY <3>1, <3>3
    <3> QED
      BY <2>2, <3>4, <3>5 DEF FormatValue
  <2> QED
    BY <2>1, <2>2
<1> HIDE DEF f
<1> QED
  BY <1>1, StripNothing DEF f, Line

(* A written line is read as the assignment that it was written from.      *)
LEMMA WrittenLine ==
    ASSUME NEW k, IsKey(k), NEW v \in Values, NEW env
    PROVE  /\ k \o <<"=">> \o FormatValue(v) \in Line
           /\ ParseLine(env, k \o <<"=">> \o FormatValue(v)) = Updated(env, Entry(k, v))
<1> DEFINE f == FormatValue(v)
           l == k \o <<"=">> \o f
           n == Len(k) + 1
<1>1. /\ f \in Line /\ Strip(f) = f /\ f # <<>> /\ f[Len(f)] \notin White
      /\ ParseValue(f) = v
  BY FormatShape, ValueRoundTrip, PlainText
<1>2. k \in Line /\ k # <<>> /\ k[1] \notin White /\ k[1] # "#" /\ k[Len(k)] \notin White
  BY SeqMonotonic DEF IsKey, Line, Plain
<1>3. \A i \in 1..Len(k) : k[i] # "=" /\ k[i] # "export"
  BY ElementOfSeq DEF IsKey, Plain
<1>4. "=" \in Chars \ Breaks
  BY CharsAssumption DEF NeedsQuoting, Breaks
<1> HIDE DEF f
<1>5. Len(k) \in Nat \ {0} /\ Len(f) \in Nat \ {0}
  BY <1>1, <1>2, EmptySeq DEF Line
<1>6. /\ l \in Line /\ Len(l) = n + Len(f) /\ l # <<>>
      /\ \A i \in 1..Len(k) : l[i] = k[i]
      /\ l[n] = "=" /\ l[Len(l)] = f[Len(f)]
  BY <1>1, <1>2, <1>4, <1>5 DEF Line
<1>7. SubSeq(l, 1, n - 1) = k /\ SubSeq(l, n + 1, Len(l)) = f
  BY <1>1, <1>2, <1>4, <1>5, <1>6 DEF Line
<1> HIDE DEF l
<1>8. l[1] \notin White /\ l[1] # "#" /\ l[1] # "export"
  BY <1>2, <1>3, <1>5, <1>6
<1>9. Strip(l) = l
  BY <1>1, <1>6, <1>8, StripNothing DEF Line
<1>10. Assignment(l) = l
  BY <1>8, <1>9 DEF Assignment
<1>11. FirstEq(l) = n
  <2>1. n \in 1..Len(l) /\ \A i \in 1..n - 1 : l[i] # "="
    BY <1>3, <1>5, <1>6
  <2> QED
    BY <1>6, <2>1, FirstEqIs DEF Line
<1>12. Strip(k) = k
  BY <1>2, StripNothing DEF Line
<1>13. ParseLine(env, l) = Updated(env, Entry(k, v))
  <2>1. KeyOf(l) = k /\ ValueOf(l) = v
    BY <1>1, <1>7, <1>10, <1>11, <1>12 DEF KeyOf, ValueOf
  <2>2. ~Skipped(l)
    BY <1>2, <1>5, <1>6, <1>8, <1>9, <1>10, <1>11, <2>1 DEF Skipped
  <2> HIDE DEF n
  <2> QED
    BY <2>1, <2>2, ParseLineIs
<1> QED
  BY <1>6, <1>13 DEF l, f

(* The keys in the order in which they are written: each of them once. *)
LEMMA KeyOrder ==
    ASSUME NEW D, IsFiniteSet(D)
    PROVE  /\ SetToSeq(D) \in Seq(D)
           /\ \A k \in D : \E i \in DOMAIN SetToSeq(D) : SetToSeq(D)[i] = k
<1> DEFINE n == Cardinality(D)
           f == SetToSeq(D)
<1>1. n \in Nat /\ \E g \in [1..n -> D] : IsInjective(g)
  BY FS_CardinalityType DEF ExistsBijection, Bijection, Injection
<1>2. f \in [1..n -> D] /\ IsInjective(f)
  BY <1>1 DEF SetToSeq
<1> HIDE DEF f
<1>3. f \in Injection(1..n, D)
  BY <1>2 DEF Injection
<1>4. IsFiniteSet(1..n) /\ Cardinality(1..n) = n
  BY <1>1, FS_Interval
<1>5. f \in Surjection(1..n, D)
  BY <1>3, <1>4, FS_Injection
<1>6. f \in Seq(D) /\ DOMAIN f = 1..n
  BY <1>1, <1>2
<1> QED
  BY <1>5, <1>6 DEF Surjection, f

(* The line of a key. *)
Written(env, k) == k \o <<"=">> \o FormatValue(env[k])

(* The file after the first m keys. *)
Prefix(env, keys, m) == FlattenSeq([i \in 1..m |-> Written(env, keys[i]) \o <<"nl">>])

(* The next key adds its line. *)
LEMMA PrefixStep ==
    ASSUME NEW env, NEW keys, NEW m \in Nat,
           \A i \in 1..m + 1 : Written(env, keys[i]) \in Line
    PROVE  Prefix(env, keys, m + 1) =
               Prefix(env, keys, m) \o (Written(env, keys[m + 1]) \o <<"nl">>)
<1> DEFINE f == [i \in 1..m + 1 |-> Written(env, keys[i]) \o <<"nl">>]
<1>1. \A i \in 1..m + 1 : Written(env, keys[i]) \o <<"nl">> \in Text
  BY LineIsText, NewlineIsText, ConcatProperties DEF Text
<1>2. f \in [1..m + 1 -> Text]
  BY <1>1
<1>3. /\ [i \in 1..m |-> f[i]] = [i \in 1..m |-> Written(env, keys[i]) \o <<"nl">>]
      /\ f[m + 1] = Written(env, keys[m + 1]) \o <<"nl">>
  OBVIOUS
<1> HIDE DEF f
<1>4. FlattenSeq(f) = FlattenSeq([i \in 1..m |-> f[i]]) \o f[m + 1]
  BY <1>2, FlattenMore DEF Text
<1> QED
  BY <1>3, <1>4 DEF Prefix, f

(* The round trip of pull_to_file and push_from_file with no edit between: *)
(* parse gives back every environment that serialize writes, for any       *)
(* number of keys and values of any length.                                *)
THEOREM SerializeParses ==
    ASSUME NEW env, IsEnv(env)
    PROVE  IsFile(Serialize(env)) /\ Parse(Serialize(env)) = env
<1> DEFINE D == DOMAIN env
           keys == SetToSeq(D)
           n == Len(keys)
           G(m) == Prefix(env, keys, m)
           E(m) == [k \in {keys[i] : i \in 1..m} |-> env[k]]
           M == {m \in Nat : m <= n => IsFile(G(m)) /\ Parse(G(m)) = E(m)}
<1>1. keys \in Seq(D) /\ \A k \in D : \E i \in DOMAIN keys : keys[i] = k
  BY KeyOrder DEF IsEnv
<1> HIDE DEF keys
<1>2. n \in Nat /\ DOMAIN keys = 1..n /\ \A i \in 1..n : keys[i] \in D
  BY <1>1, LenProperties, ElementOfSeq
<1>3. \A k \in D : IsKey(k) /\ env[k] \in Values
  BY DEF IsEnv, Values
<1>4. 0 \in M
  <2>1. G(0) = <<>>
    BY FlattenEmpty DEF Prefix
  <2>2. Parse(<<>>) = NoEnv
    BY EmptySeq, ParseOfLine, ParseLineEmpty DEF Line
  <2>3. E(0) = NoEnv
    BY DEF NoEnv
  <2>4. IsFile(<<>>)
    BY EmptySeq DEF IsFile, Text
  <2> QED
    BY <2>1, <2>2, <2>3, <2>4
<1>5. ASSUME NEW m \in Nat, m \in M PROVE m + 1 \in M
  <2>0. SUFFICES ASSUME m + 1 <= n PROVE IsFile(G(m + 1)) /\ Parse(G(m + 1)) = E(m + 1)
    <3>1. m + 1 \in Nat
      OBVIOUS
    <3> HIDE DEF G, E, n
    <3> QED
      BY <3>1
  <2>1. m <= n /\ m + 1 \in 1..n /\ \A i \in 1..m + 1 : i \in 1..n
    BY <1>2, <2>0
  <2>2. IsFile(G(m)) /\ Parse(G(m)) = E(m)
    BY <1>5, <2>1
  <2> DEFINE k == keys[m + 1]
             l == Written(env, k)
  <2>3. \A i \in 1..n : Written(env, keys[i]) \in Line
    BY <1>2, <1>3, WrittenLine DEF Written
  <2>4. G(m + 1) = G(m) \o (l \o <<"nl">>)
    BY <2>1, <2>3, PrefixStep
  <2>5. k \in D /\ l \in Line /\ \A x : ParseLine(x, l) = Updated(x, Entry(k, env[k]))
    BY <1>2, <1>3, <2>1, <2>3, WrittenLine DEF Written
  <2> HIDE DEF G, E, k, l
  <2>6. G(m + 1) = G(m) \o l \o <<"nl">>
    <3>1. G(m) \in Text /\ l \in Text /\ <<"nl">> \in Text
      BY <2>2, <2>5, LineIsText, NewlineIsText DEF IsFile
    <3>2. (G(m) \o l) \o <<"nl">> = G(m) \o (l \o <<"nl">>)
      BY <3>1, ConcatAssociative DEF Text
    <3> QED
      BY <2>4, <3>2
  <2>7. IsFile(G(m + 1)) /\ Parse(G(m + 1)) = Updated(E(m), Entry(k, env[k]))
    BY <2>2, <2>5, <2>6, LineAtEnd
  <2>8. Updated(E(m), Entry(k, env[k])) = E(m + 1)
    <3>1. {keys[i] : i \in 1..m + 1} = {keys[i] : i \in 1..m} \cup {k}
      <4>1. \A i \in 1..m + 1 : i = m + 1 \/ i \in 1..m
        OBVIOUS
      <4>2. m + 1 \in 1..m + 1 /\ \A i \in 1..m : i \in 1..m + 1
        OBVIOUS
      <4> QED
        BY <4>1, <4>2 DEF k
    <3> QED
      BY <3>1 DEF Updated, Entry, E
  <2> QED
    BY <2>7, <2>8
<1>6. Nat \subseteq M
  <2> HIDE DEF M
  <2> QED
    BY <1>4, <1>5, NumberInduction
<1>7. IsFile(G(n)) /\ Parse(G(n)) = E(n)
  <2> HIDE DEF G, E
  <2> QED
    BY <1>2, <1>6
<1>8. Serialize(env) = G(n)
  BY <1>2 DEF Serialize, Prefix, Written, keys
<1>9. E(n) = env
  <2>1. {keys[i] : i \in 1..n} = D
    BY <1>1, <1>2
  <2> QED
    BY <2>1 DEF IsEnv
<1> QED
  BY <1>7, <1>8, <1>9

-----------------------------------------------------------------------------
(* Typed lines say environments *)

(* Strip leaves no white space at the ends. *)
LEMMA StripTyped ==
    ASSUME NEW S, NEW s \in Seq(S)
    PROVE  /\ Strip(s) \in Seq(S)
           /\ Strip(s) # <<>> =>
                 Strip(s)[1] \notin White /\ Strip(s)[Len(Strip(s))] \notin White
<1>1. CASE Strip(s) = <<>>
  BY <1>1, EmptySeq
<1>2. CASE Strip(s) # <<>>
  <2>1. PICK m \in 1..Len(s), n \in 1..Len(s) : Stripped(s, m, n)
    BY <1>2, StripShape
  <2>2. m \in 1..Len(s) /\ n \in m..Len(s) /\ Len(s) \in Nat
    BY <2>1, LenProperties DEF Stripped
  <2>3. /\ SubSeq(s, m, n) \in Seq(S) /\ SubSeq(s, m, n)[1] = s[m]
        /\ SubSeq(s, m, n)[Len(SubSeq(s, m, n))] = s[n]
    <3>1. /\ m \in Int /\ n \in Int /\ m <= n /\ \A i \in m..n : i \in 1..Len(s)
          /\ 1 \in 1..n - m + 1 /\ n - m + 1 \in 1..n - m + 1
          /\ m + 1 - 1 = m /\ m + (n - m + 1) - 1 = n
      BY <2>2
    <3>2. \A i \in m..n : s[i] \in S
      BY <3>1, ElementOfSeq
    <3> QED
      BY <3>1, <3>2, SubSeqProperties
  <2> QED
    BY <2>1, <2>3 DEF Stripped
<1> QED
  BY <1>1, <1>2

(* What an escape is read as has plain characters. *)
LEMMA UnescapedPlain ==
    ASSUME NEW c \in Plain
    PROVE  Unescaped(c) \in Values
<1>1. DOMAIN Unescapes = {"bs", "dq", "n", "t", "r"}
  BY DEF Unescapes
<1>2. /\ Unescapes["bs"] = "bs" /\ Unescapes["dq"] = "dq" /\ Unescapes["n"] = "nl"
      /\ Unescapes["r"] = "cr" /\ Unescapes["t"] = "tab"
  BY DEF Unescapes
<1>3. {"bs", "dq", "nl", "cr", "tab"} \subseteq Plain
  BY CharsAssumption DEF Plain, NeedsQuoting, White, Breaks
<1>4. CASE c \in DOMAIN Unescapes
  <2>1. Unescapes[c] \in {"bs", "dq", "nl", "cr", "tab"}
    BY <1>1, <1>2, <1>4
  <2>2. Unescapes[c] \in Plain
    BY <1>3, <2>1
  <2> QED
    BY <1>4, <2>2 DEF Unescaped, Values
<1>5. CASE c \notin DOMAIN Unescapes
  BY <1>3, <1>5 DEF Unescaped, Values
<1> QED
  BY <1>4, <1>5

(* So has the state of UnescapeDouble, *)
LEMMA ReadPlain ==
    \A v \in Values :
        /\ Read(v).out \in Values
        /\ Read(v) = [esc |-> Read(v).esc, out |-> Read(v).out]
<1> DEFINE Ok(r) == r.out \in Values /\ r = [esc |-> r.esc, out |-> r.out]
           T == {v \in Values : Ok(Read(v))}
<1>1. <<>> \in T
  <2>1. Read(<<>>).out = <<>> /\ Read(<<>>).esc = FALSE /\ <<>> \in Values
    BY ReadEmpty, EmptySeq DEF Reading, Values
  <2> QED
    BY <2>1, ReadEmpty DEF Reading
<1>2. ASSUME NEW v \in Values, v \in T, NEW c \in Plain PROVE Append(v, c) \in T
  <2> DEFINE r == Read(v)
  <2>1. Ok(r) /\ Read(Append(v, c)) = UnescapeStep(r, c) /\ Append(v, c) \in Values
    BY <1>2, ReadAppend, PlainText, AppendProperties DEF Values, Plain
  <2> HIDE DEF r
  <2>2. r.out \o Unescaped(c) \in Values /\ Append(r.out, c) \in Values
    BY <2>1, UnescapedPlain, ConcatProperties, AppendProperties DEF Values
  <2>3. Ok(UnescapeStep(r, c))
    BY <2>1, <2>2 DEF UnescapeStep
  <2> QED
    BY <2>1, <2>3
<1> HIDE DEF T
<1>3. Values \subseteq T
  BY <1>1, <1>2, SequenceInduction DEF Values
<1> QED
  BY <1>3 DEF T

(* and what _parse_value gives. *)
LEMMA ParseValuePlain ==
    ASSUME NEW v \in Values
    PROVE  ParseValue(v) \in Values
<1>1. ASSUME NEW w \in Values PROVE UnescapeDouble(w) \in Values
  <2>1. Read(w).out \in Values /\ Append(Read(w).out, "bs") \in Values
    BY ReadPlain, CharsAssumption, AppendProperties DEF Values, Plain
  <2> QED
    BY <2>1 DEF UnescapeDouble, Read, Reading
<1>2. Len(v) \in Nat
  BY LenProperties DEF Values
<1>3. Len(v) >= 2 => SubSeq(v, 2, Len(v) - 1) \in Values
  BY <1>2 DEF Values
<1>4. CASE Quoted(v, "dq")
  <2>1. Len(v) >= 2 /\ ~Quoted(v, "sq")
    BY <1>4 DEF Quoted
  <2>2. ParseValue(v) = UnescapeDouble(SubSeq(v, 2, Len(v) - 1))
    BY <1>4, <2>1 DEF ParseValue
  <2> QED
    BY <1>1, <1>3, <2>1, <2>2
<1>5. CASE Quoted(v, "sq")
  <2>1. Len(v) >= 2 /\ ~Quoted(v, "dq")
    BY <1>5 DEF Quoted
  <2>2. ParseValue(v) = SubSeq(v, 2, Len(v) - 1)
    BY <1>5, <2>1 DEF ParseValue
  <2> QED
    BY <1>3, <2>1, <2>2
<1>6. CASE ~Quoted(v, "dq") /\ ~Quoted(v, "sq")
  BY <1>6 DEF ParseValue
<1> QED
  BY <1>4, <1>5, <1>6

(* What is left of a line to assign starts with no white space and no #,   *)
(* and has no export any more.                                             *)
LEMMA AssignmentShape ==
    ASSUME NEW l, IsLine(l), Strip(l) # <<>>, Strip(l)[1] # "#"
    PROVE  /\ Assignment(l) \in Seq(Plain \ Breaks)
           /\ Assignment(l) # <<>> => Assignment(l)[1] \notin White \cup {"#"}
<1> DEFINE S == (Plain \ Breaks) \cup {"export"}
           s == Strip(l)
<1>1. l \in Seq(S) /\ Len(l) \in Nat /\ DOMAIN l = 1..Len(l)
  BY LenProperties DEF IsLine
<1>2. PICK m \in 1..Len(l), n \in 1..Len(l) : Stripped(l, m, n)
  BY <1>1, StripShape
<1>3. /\ m \in 1..Len(l) /\ n \in m..Len(l) /\ l[m] \notin White /\ s = SubSeq(l, m, n)
  BY <1>2 DEF Stripped
<1>4. /\ s \in Seq(S) /\ Len(s) = n - m + 1 /\ Len(s) \in Nat \ {0}
      /\ \A i \in 1..Len(s) : s[i] = l[m + i - 1] /\ m + i - 1 \in DOMAIN l
  <2> HIDE DEF S, s
  <2> QED
    BY <1>1, <1>3
<1> HIDE DEF s
<1>5. \A j \in DOMAIN l : j > m => l[j] # "export"
  BY <1>1, <1>3 DEF IsLine
<1>6. \A i \in 2..Len(s) : s[i] # "export"
  <2> SUFFICES ASSUME NEW i \in 2..Len(s) PROVE s[i] # "export"
    OBVIOUS
  <2>1. i \in 1..Len(s) /\ m + i - 1 > m
    BY <1>1, <1>3, <1>4
  <2> QED
    BY <1>4, <1>5, <2>1
<1>7. \A i \in 1..Len(s) : s[i] \in S
  BY <1>4, ElementOfSeq
<1>8. s[1] = l[m] /\ 1 \in 1..Len(s)
  BY <1>1, <1>3, <1>4
<1>9. CASE s[1] = "export"
  <2>1. \A j \in DOMAIN l : l[j] # "#"
    BY <1>1, <1>3, <1>8, <1>9 DEF IsLine
  <2>2. \A i \in 2..Len(s) : s[i] \in (Plain \ Breaks) \ {"#"}
    <3>1. \A i \in 2..Len(s) : i \in 1..Len(s)
      OBVIOUS
    <3> QED
      BY <1>4, <1>6, <1>7, <2>1, <3>1
  <2>3. /\ Len(Tail(s)) = Len(s) - 1 /\ Tail(s) \in Seq(S)
        /\ \A i \in 1..Len(s) - 1 : Tail(s)[i] = s[i + 1] /\ i + 1 \in 2..Len(s)
    <3>1. s # <<>>
      BY <1>4, EmptySeq
    <3> HIDE DEF S
    <3>2. /\ Len(Tail(s)) = Len(s) - 1 /\ Tail(s) \in Seq(S)
          /\ \A i \in 1..Len(s) - 1 : Tail(s)[i] = s[i + 1]
      BY <1>4, <3>1, HeadTailProperties
    <3> QED
      BY <1>4, <3>2
  <2>4. Tail(s) \in Seq((Plain \ Breaks) \ {"#"})
    <3> DEFINE t == Tail(s)
               X == (Plain \ Breaks) \ {"#"}
    <3>1. t \in Seq(S) /\ \A i \in 1..Len(t) : t[i] \in X
      BY <2>2, <2>3
    <3> HIDE DEF t, X, S
    <3>2. t \in Seq(X)
      BY <3>1, ElementsInSeq
    <3> QED
      BY <3>2 DEF t, X
  <2>5. Assignment(l) = Strip(Tail(s))
    BY <1>9 DEF Assignment, s
  <2> DEFINE a == Assignment(l)
  <2>6. a \in Seq((Plain \ Breaks) \ {"#"}) /\ (a # <<>> => a[1] \notin White)
    BY <2>4, <2>5, StripTyped
  <2> HIDE DEF a
  <2>7. a # <<>> => a[1] # "#"
    BY <2>6, EmptySeq, ElementOfSeq
  <2>8. a \in Seq(Plain \ Breaks)
    BY <2>6, SeqMonotonic
  <2> QED
    BY <2>6, <2>7, <2>8 DEF a
<1>10. CASE s[1] # "export"
  <2>1. \A i \in 1..Len(s) : s[i] \in Plain \ Breaks
    <3>1. \A i \in 1..Len(s) : i = 1 \/ i \in 2..Len(s)
      BY <1>4
    <3> QED
      BY <1>6, <1>7, <1>10, <3>1
  <2>2. s \in Seq(Plain \ Breaks)
    BY <1>4, <2>1
  <2>3. Assignment(l) = s
    BY <1>10 DEF Assignment, s
  <2>4. s[1] # "#"
    BY DEF s
  <2> QED
    BY <1>3, <1>8, <2>2, <2>3, <2>4
<1> QED
  BY <1>9, <1>10

(* The key that a line assigns to can be written, and so can the value.    *)
LEMMA AssignedKey ==
    ASSUME NEW l, IsLine(l), ~Skipped(l)
    PROVE  IsKey(KeyOf(l)) /\ ValueOf(l) \in Values
<1> DEFINE a == Assignment(l)
           eq == FirstEq(a)
           p == SubSeq(a, 1, eq - 1)
           q == SubSeq(a, eq + 1, Len(a))
           k == KeyOf(l)
<1>1. a \in Seq(Plain \ Breaks) /\ (a # <<>> => a[1] \notin White \cup {"#"}) /\ k # <<>>
  BY AssignmentShape DEF Skipped
<1>2. eq # 0 /\ k = Strip(p) /\ ValueOf(l) = ParseValue(Strip(q))
  BY DEF Skipped, KeyOf, ValueOf
<1> HIDE DEF a, k
<1>3. Len(a) \in Nat /\ eq \in 1..Len(a) /\ \A i \in 1..eq - 1 : a[i] # "="
  BY <1>1, <1>2, FirstEqFound, LenProperties
<1> HIDE DEF eq
<1>4. /\ p \in Seq(Plain \ Breaks) /\ Len(p) = eq - 1
      /\ \A i \in 1..eq - 1 : p[i] = a[i]
      /\ q \in Seq(Plain \ Breaks)
  BY <1>1, <1>3
<1> HIDE DEF p, q
<1>5. p \in Seq(Plain \ (Breaks \cup {"="}))
  <2>1. \A i \in 1..Len(p) : p[i] \in Plain \ (Breaks \cup {"="})
    BY <1>3, <1>4, ElementOfSeq
  <2> QED
    BY <1>4, <2>1
<1>6. /\ k \in Seq(Plain \ (Breaks \cup {"="}))
      /\ k[1] \notin White /\ k[Len(k)] \notin White
  BY <1>1, <1>2, <1>5, StripTyped
<1>7. k[1] # "#"
  <2>1. PICK m \in 1..Len(p), n \in 1..Len(p) : Stripped(p, m, n)
    BY <1>1, <1>2, <1>5, StripShape
  <2>2. m \in 1..Len(p) /\ n \in m..Len(p) /\ Len(p) \in Nat /\ k = SubSeq(p, m, n)
    BY <1>2, <1>3, <1>4, <2>1 DEF Stripped
  <2>3. k[1] = p[m]
    BY <1>5, <2>2
  <2>4. a # <<>> /\ p[1] = a[1] /\ 1 \in 1..Len(p)
    BY <1>3, <1>4, <2>2
  <2>5. m = 1
    <3>1. m # 1 => 1 \in 1..m - 1
      BY <2>2
    <3>2. m # 1 => p[1] \in White
      BY <2>1, <3>1 DEF Stripped
    <3> QED
      BY <1>1, <2>4, <3>2
  <2> QED
    BY <1>1, <2>3, <2>4, <2>5
<1>8. ValueOf(l) \in Values
  <2>1. Strip(q) \in Seq(Plain \ Breaks)
    BY <1>4, StripTyped
  <2>2. Strip(q) \in Values
    BY <2>1, SeqMonotonic DEF Values
  <2> QED
    BY <1>2, <2>2, ParseValuePlain
<1> QED
  BY <1>1, <1>6, <1>7, <1>8 DEF IsKey, k

(* The empty environment, *)
LEMMA NoEnvIsEnv == IsEnv(NoEnv)
BY NoEnvIsDict, FS_EmptySet DEF IsEnv, IsDict

(* one assignment, *)
LEMMA EntryIsEnv ==
    ASSUME NEW k, IsKey(k), NEW v \in Values
    PROVE  IsEnv(Entry(k, v))
BY FS_Singleton DEF IsEnv, Entry, Values

(* and an update of an environment by another are environments. *)
LEMMA UpdatedIsEnv ==
    ASSUME NEW a, NEW b, IsEnv(a), IsEnv(b)
    PROVE  IsEnv(Updated(a, b))
<1>1. DOMAIN Updated(a, b) = DOMAIN a \cup DOMAIN b /\ IsDict(Updated(a, b))
  BY UpdatedIsDict
<1>2. IsFiniteSet(DOMAIN a \cup DOMAIN b)
  BY FS_Union DEF IsEnv
<1>3. \A k \in DOMAIN a \cup DOMAIN b : IsKey(k) /\ Updated(a, b)[k] \in Seq(Plain)
  BY DEF IsEnv, Updated
<1> QED
  BY <1>1, <1>2, <1>3 DEF IsEnv, IsDict

(* A typed line says an environment. *)
LEMMA LineIsEnv ==
    ASSUME NEW l, IsLine(l)
    PROVE  l \in Line /\ IsEnv(Parse(l))
<1>1. l \in Line
  <2>1. (Plain \ Breaks) \cup {"export"} \subseteq Chars \ Breaks
    BY CharsAssumption DEF Plain, Breaks
  <2> QED
    BY <2>1, SeqMonotonic DEF IsLine, Line
<1>2. CASE Skipped(l)
  BY <1>1, <1>2, ParseOfLine, ParseLineIs, NoEnvIsEnv
<1>3. CASE ~Skipped(l)
  <2>1. Parse(l) = Updated(NoEnv, Entry(KeyOf(l), ValueOf(l)))
    BY <1>1, <1>3, ParseOfLine, ParseLineIs
  <2>2. IsEnv(Entry(KeyOf(l), ValueOf(l)))
    BY <1>3, AssignedKey, EntryIsEnv
  <2>3. IsEnv(Updated(NoEnv, Entry(KeyOf(l), ValueOf(l))))
    BY <2>2, UpdatedIsEnv, NoEnvIsEnv
  <2> QED
    BY <1>1, <2>1, <2>3
<1> QED
  BY <1>1, <1>2, <1>3

-----------------------------------------------------------------------------
(* compute_diff and compute_drift *)

(* The kind of change of one key, and the values that a change carries.    *)
LEMMA ChangeOfKey ==
    ASSUME NEW a, NEW b, NEW k \in DOMAIN a \cup DOMAIN b
    PROVE  /\ Change(a, b, k).kind # "removed" <=> k \in DOMAIN b
           /\ Change(a, b, k).kind # "added" <=> k \in DOMAIN a
           /\ Change(a, b, k).kind = "unchanged" <=>
                  k \in DOMAIN a /\ k \in DOMAIN b /\ a[k] = b[k]
           /\ k \in DOMAIN a => Change(a, b, k).old = a[k]
           /\ k \in DOMAIN b => Change(a, b, k).new = b[k]
<1>1. CASE k \notin DOMAIN b
  BY <1>1 DEF Change
<1>2. CASE k \in DOMAIN b /\ k \notin DOMAIN a
  BY <1>2 DEF Change
<1>3. CASE k \in DOMAIN b /\ k \in DOMAIN a
  BY <1>3 DEF Change
<1> QED
  BY <1>1, <1>2, <1>3

(* compute_diff loses nothing between any two dicts: its report leads from *)
(* the first to the second and back, and the second is "synced" with the   *)
(* first in status exactly when the report has nothing but unchanged keys  *)
(* and the server has sent a content hash.                                 *)
THEOREM DiffLosesNothing ==
    ASSUME NEW a, NEW b, IsDict(a), IsDict(b), NEW r \in Nat \ {0}
    PROVE  Rebuilds(a, b, r)
<1> DEFINE d == Diff(a, b)
<1>1. /\ DOMAIN d = DOMAIN a \cup DOMAIN b
      /\ \A k \in DOMAIN a \cup DOMAIN b : d[k] = Change(a, b, k)
  BY DEF Diff
<1>2. Patched(d) = b
  <2>1. {k \in DOMAIN d : d[k].kind # "removed"} = DOMAIN b
    BY <1>1, ChangeOfKey
  <2>2. \A k \in DOMAIN b : d[k].new = b[k]
    BY <1>1, ChangeOfKey
  <2> QED
    BY <2>1, <2>2 DEF Patched, IsDict
<1>3. Undone(d) = a
  <2>1. {k \in DOMAIN d : d[k].kind # "added"} = DOMAIN a
    BY <1>1, ChangeOfKey
  <2>2. \A k \in DOMAIN a : d[k].old = a[k]
    BY <1>1, ChangeOfKey
  <2> QED
    BY <2>1, <2>2 DEF Undone, IsDict
<1>4. ASSUME NEW hash \in SUBSET {b}
      PROVE  Drift(a, hash, r) = "synced" <=> hash # {} /\ a = b
  <2>1. hash = {} \/ hash = {b}
    OBVIOUS
  <2>2. hash = {a} <=> hash # {} /\ a = b
    BY <2>1
  <2> QED
    BY <2>2 DEF Drift
<1>5. a = b <=> \A k \in DOMAIN d : d[k].kind = "unchanged"
  <2>1. (\A k \in DOMAIN d : d[k].kind = "unchanged") <=>
           DOMAIN a = DOMAIN b /\ \A k \in DOMAIN a : a[k] = b[k]
    BY <1>1, ChangeOfKey
  <2> QED
    BY <2>1 DEF IsDict
<1> QED
  BY <1>2, <1>3, <1>4, <1>5 DEF Rebuilds

-----------------------------------------------------------------------------
(* The specification *)

(* The fold of EditsOnly. *)
Edits == INSTANCE FoldProofs WITH Step <- Edited
Edit(env, lines) == FoldLeft(Edited, env, lines)

(* What FoldProofs shows of a fold holds of Edit. *)
LEMMA EditFold ==
    ASSUME NEW env, NEW lines
    PROVE  Edit(env, lines) = Edits!Fold(env, lines)
BY DEF Edit, Edits!Fold, Edits!FoldLeft, FoldLeft,
       Edits!MapThenFoldSet, MapThenFoldSet, Edits!Max, Max

(* No line typed changes nothing, *)
LEMMA EditEmpty == ASSUME NEW env PROVE Edit(env, <<>>) = env
BY EditFold, Edits!FoldEmpty

(* and one more changes what the others left. *)
LEMMA EditAppend ==
    ASSUME NEW env, NEW lines \in Seq(Lines), NEW line \in Lines
    PROVE  Edit(env, Append(lines, line)) = Edited(Edit(env, lines), line)
BY EditFold, Edits!FoldAppend

(* An environment stays one under edits. *)
LEMMA EditIsEnv ==
    ASSUME NEW env, IsEnv(env)
    PROVE  \A lines \in Seq(Lines) : IsEnv(Edit(env, lines))
<1> DEFINE T == {lines \in Seq(Lines) : IsEnv(Edit(env, lines))}
<1>1. <<>> \in T
  BY EditEmpty, EmptySeq
<1>2. ASSUME NEW lines \in Seq(Lines), lines \in T, NEW line \in Lines
      PROVE  Append(lines, line) \in T
  <2>1. IsEnv(Parse(line))
    BY LinesAssumption, LineIsEnv
  <2>2. IsEnv(Edited(Edit(env, lines), line))
    BY <1>2, <2>1, UpdatedIsEnv DEF Edited
  <2> QED
    BY <2>2, EditAppend, AppendProperties
<1> HIDE DEF T
<1>3. Seq(Lines) \subseteq T
  BY <1>1, <1>2, SequenceInduction
<1> QED
  BY <1>3 DEF T

(* An empty file is a file, and says nothing. *)
LEMMA EmptyFile == IsFile(<<>>) /\ Parse(<<>>) = NoEnv
<1>1. <<>> \in Line
  BY EmptySeq DEF Line
<1> QED
  BY <1>1, LineIsText, ParseOfLine, ParseLineEmpty DEF IsFile

(* The type invariant and EditsOnly are inductive together: that a file is *)
(* its pulled environment with the typed lines is why what push_from_file  *)
(* pushes can be written to a file again.                                  *)
EnvTextInv == TypeOK /\ EditsOnly

(* What a file is read as is an environment. *)
LEMMA FileIsEnv ==
    ASSUME EnvTextInv
    PROVE  IsEnv(Parse(file))
<1>1. IsEnv(pulled) /\ typed \in Seq(Lines) /\ Parse(file) = Edit(pulled, typed)
  BY DEF EnvTextInv, TypeOK, EditsOnly, Edit
<1> QED
  BY <1>1, EditIsEnv

(* At the start. *)
LEMMA InvInit == Init => EnvTextInv
<1> SUFFICES ASSUME Init PROVE EnvTextInv
  OBVIOUS
<1> USE DEF Init
<1>1. EditsOnly
  <2>1. Parse(file) = pulled /\ Edit(pulled, typed) = pulled
    BY EmptyFile, EditEmpty
  <2> QED
    BY <2>1 DEF EditsOnly, Edit
<1>2. TypeOK
  <2>1. typed \in Seq(Lines) /\ Len(typed) = 0
    BY EmptySeq
  <2> QED
    BY <2>1, NoEnvIsEnv, EmptyFile, BoundsAssumption DEF TypeOK, IsFile, Text
<1> QED
  BY <1>1, <1>2 DEF EnvTextInv

(* Step by step. *)
LEMMA InvNext == EnvTextInv /\ [Next]_vars => EnvTextInv'
<1> SUFFICES ASSUME EnvTextInv, [Next]_vars PROVE EnvTextInv'
  OBVIOUS
<1>1. CASE UNCHANGED vars
  BY <1>1 DEF vars, EnvTextInv, TypeOK, EditsOnly
<1>2. ASSUME NEW env \in Envs, PushDict(env) PROVE EnvTextInv'
  <2>1. IsEnv(env) /\ 1 \in 0..MaxRevs
    BY EnvsAssumption, BoundsAssumption
  <2> QED
    BY <1>2, <2>1 DEF PushDict, EnvTextInv, TypeOK, EditsOnly
<1>3. CASE PullToFile
  <2>1. /\ IsEnv(remote) /\ file' = Serialize(remote) /\ pulled' = remote
        /\ typed' = <<>> /\ rev' = rev /\ remote' = remote
    BY <1>3 DEF PullToFile, EnvTextInv, TypeOK
  <2>2. IsFile(file') /\ Parse(file') = remote
    BY <2>1, SerializeParses
  <2>3. EditsOnly'
    BY <2>1, <2>2, EditEmpty DEF EditsOnly, Edit
  <2>4. TypeOK'
    <3>1. typed' \in Seq(Lines) /\ Len(typed') = 0
      BY <2>1, EmptySeq
    <3> QED
      BY <2>1, <2>2, <3>1, BoundsAssumption DEF EnvTextInv, TypeOK, IsFile, Text
  <2> QED
    BY <2>3, <2>4 DEF EnvTextInv
<1>4. ASSUME NEW line \in Lines, TypeLine(line) PROVE EnvTextInv'
  <2>1. /\ file' = file \o line \o <<"nl">> /\ typed' = Append(typed, line)
        /\ pulled' = pulled /\ rev' = rev /\ remote' = remote
        /\ typed \in Seq(Lines) /\ Len(typed) < MaxLines /\ IsFile(file)
    BY <1>4 DEF TypeLine, EnvTextInv, TypeOK, IsFile, Text
  <2>2. line \in Line
    BY LinesAssumption, LineIsEnv
  <2>3. IsFile(file') /\ Parse(file') = Updated(Parse(file), Parse(line))
    BY <2>1, <2>2, LineAtEnd
  <2>4. EditsOnly'
    <3>1. Parse(file) = Edit(pulled, typed)
      BY DEF EnvTextInv, EditsOnly, Edit
    <3>2. Edit(pulled, Append(typed, line)) = Updated(Parse(file), Parse(line))
      BY <2>1, <3>1, EditAppend DEF Edited
    <3> QED
      BY <2>1, <2>3, <3>2 DEF EditsOnly, Edit
  <2>5. TypeOK'
    <3>1. typed' \in Seq(Lines) /\ Len(typed') <= MaxLines
      BY <2>1, AppendProperties, LenProperties, BoundsAssumption
    <3> QED
      BY <2>1, <2>3, <3>1 DEF EnvTextInv, TypeOK, IsFile, Text
  <2> QED
    BY <2>4, <2>5 DEF EnvTextInv
<1>5. CASE NewFile
  <2>1. /\ file' = <<>> /\ pulled' = NoEnv /\ typed' = <<>>
        /\ rev' = rev /\ remote' = remote
    BY <1>5 DEF NewFile
  <2>2. EditsOnly'
    <3>1. Parse(<<>>) = NoEnv /\ Edit(NoEnv, <<>>) = NoEnv
      BY EmptyFile, EditEmpty
    <3> QED
      BY <2>1, <3>1 DEF EditsOnly, Edit
  <2>3. TypeOK'
    <3>1. <<>> \in Seq(Lines) /\ Len(<<>>) = 0
      BY EmptySeq
    <3> QED
      BY <2>1, <3>1, EmptyFile, NoEnvIsEnv, BoundsAssumption
         DEF EnvTextInv, TypeOK, IsFile, Text
  <2> QED
    BY <2>2, <2>3 DEF EnvTextInv
<1>6. CASE PushFromFile
  <2>1. IsEnv(Parse(file))
    BY FileIsEnv
  <2> QED
    BY <1>6, <2>1, BoundsAssumption DEF PushFromFile, EnvTextInv, TypeOK, EditsOnly
<1> QED
  BY <1>1, <1>2, <1>3, <1>4, <1>5, <1>6 DEF Next

(* Both hold for all environments, lines and bounds. *)
THEOREM Invariance == Spec => []EnvTextInv
<1> QED
  BY InvInit, InvNext, PTL DEF Spec

(* Every environment that is pushed or pulled can be written to a file,    *)
(* the ones that push_from_file reads included.                            *)
THEOREM TypeCorrect == Spec => []TypeOK
<1>1. EnvTextInv => TypeOK
  BY DEF EnvTextInv
<1> QED
  BY Invariance, <1>1, PTL

(* A file that pull_to_file wrote and a user added lines to is read by     *)
(* push_from_file as what was pulled, with the changes of these lines in   *)
(* their order and no other.                                               *)
THEOREM FileHasEdits == Spec => []EditsOnly
<1>1. EnvTextInv => EditsOnly
  BY DEF EnvTextInv
<1> QED
  BY Invariance, <1>1, PTL

(* Between two revisions in a row, diff and status tell all there is.      *)
THEOREM DiffIsComplete == Spec => DiffRebuilds
<1>1. EnvTextInv /\ EnvTextInv' /\ [Next]_vars =>
          [rev' # rev => Rebuilds(remote, remote', rev')]_vars
  <2> SUFFICES ASSUME EnvTextInv, EnvTextInv', Next, rev' # rev
               PROVE  Rebuilds(remote, remote', rev')
    BY DEF vars
  <2>1. IsDict(remote) /\ IsDict(remote')
    BY DEF EnvTextInv, TypeOK, IsEnv, IsDict
  <2>2. rev' \in Nat \ {0}
    BY BoundsAssumption DEF Next, PushDict, PullToFile, TypeLine, NewFile, PushFromFile,
                            EnvTextInv, TypeOK
  <2> QED
    BY <2>1, <2>2, DiffLosesNothing
<1> QED
  BY Invariance, <1>1, PTL DEF Spec, DiffRebuilds

=============================================================================
