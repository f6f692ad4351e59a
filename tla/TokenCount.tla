------------------------------ MODULE TokenCount ------------------------------
(***************************************************************************)
(* estimate_token_count of crates/itoken-inference/src/proxy.rs: how many  *)
(* tokens a piece of an answer is billed as.  A word counts one and one    *)
(* for each punctuation mark at its end; but in a word with a CJK          *)
(* character each such character and each mark counts one, and so does     *)
(* each run of other characters.                                           *)
(*                                                                         *)
(* A text is a sequence of symbols: "sp" is whitespace, "!" ASCII          *)
(* punctuation, <<"hi", "lo">> the bytes of one CJK character, and any     *)
(* other symbol another character.  What counts is a set of positions.     *)
(***************************************************************************)
EXTENDS Integers, Sequences, FiniteSets

\* No whitespace from one position to the other.
SameWord(text, i, j) == \A k \in (i..j) \cup (j..i) : text[k] # "sp"

HasCJK(text, i) == \E j \in DOMAIN text : text[j] = "hi" /\ SameWord(text, i, j)

FirstOfWord(text, i) == text[i] # "sp" /\ (i = 1 \/ text[i - 1] = "sp")

\* Neither CJK nor punctuation, and what is before it is, or nothing is.
FirstOfRun(text, i) ==
    /\ text[i] \notin {"sp", "!", "hi", "lo"}
    /\ i = 1 \/ text[i - 1] \in {"sp", "!", "lo"}

Counted(text) ==
    {i \in DOMAIN text :
        IF HasCJK(text, i) THEN text[i] \in {"hi", "!"} \/ FirstOfRun(text, i)
        ELSE FirstOfWord(text, i)}

\* The marks at the end of words without a CJK character.
TrailingPunct(text) ==
    {i \in DOMAIN text :
        /\ ~HasCJK(text, i)
        /\ text[i] = "!"
        /\ \A j \in DOMAIN text : i < j /\ SameWord(text, i, j) => text[j] = "!"}

estimate_token_count(text) ==
    LET count == Cardinality(Counted(text)) + Cardinality(TrailingPunct(text))
    IN  IF text # << >> /\ count = 0 THEN 1 ELSE count
=============================================================================
