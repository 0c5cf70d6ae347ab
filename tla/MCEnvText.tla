----------------------------- MODULE MCEnvText -----------------------------
(* Instances of EnvText for TLC. *)
EXTENDS EnvText

CONSTANTS
    Alphabet,   \* characters of the values that are pushed
    MaxLen      \* their greatest length, for an environment of one key

MCChars == White \cup NeedsQuoting \cup {"bs", "export", "n", "r", "t", "a", "A", "B"}

KeyA == <<"A">>
KeyB == <<"B">>
Texts(n) == UNION {[1..m -> Alphabet] : m \in 0..n}

(* One key with any value, and two keys with short ones. *)
MCEnvs ==
    {Entry(KeyA, v) : v \in Texts(MaxLen)} \cup
    {Entry(KeyA, v) @@ Entry(KeyB, w) : v, w \in Texts(1)}

(* Assignments in every form that parse knows, and lines that it skips. *)
MCLines == {
    <<"A", "=">>,
    <<"export", "A", "=", "sq", " ", "bs", "n", "sq">>,
    <<" ", "B", " ", "=", " ", "a", "=", "#", " ">>,
    <<"B", "=", "dq", "a", "bs", "n", "bs", "a", "bs", "dq">>,
    <<"B", "=", "dq">>,
    <<" ", "#", "A", "=", "a">>,
    <<"A">>,
    <<"=", "a">> }

=============================================================================
