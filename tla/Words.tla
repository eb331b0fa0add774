-------------------------------- MODULE Words --------------------------------
(***************************************************************************)
(* A text as every reader here takes it: a sequence of tokens.  The words   *)
(* of the language are in capitals, names in small letters; a number, a     *)
(* quoted text and a variable are one token each.  Comments and spaces are  *)
(* gone, and what stands inside quotes or square brackets is never looked   *)
(* into.                                                                    *)
(***************************************************************************)
EXTENDS Integers, Sequences, SequencesExt, FiniteSets

CONSTANTS Literals,     \* what each number and each text among the tokens is worth
          Variables     \* the tokens that are variables

At(s, i) == IF i \in DOMAIN s THEN s[i] ELSE ""
From(s, i) == SubSeq(s, i, Len(s))
Has(s, word) == \E i \in DOMAIN s : s[i] = word
Least(S) == CHOOSE i \in S : \A j \in S : i <= j
Greatest(S) == CHOOSE i \in S : \A j \in S : j <= i

(* How deep in brackets a place is, counted from another; what closes more  *)
(* than was opened closes nothing.                                          *)
Deepened(depth, token) ==
    CASE token = "(" -> depth + 1
      [] token = ")" -> IF depth = 0 THEN 0 ELSE depth - 1
      [] OTHER -> depth
Depth(s, from, at) ==
    LET before[i \in from..at] == IF i = from THEN 0 ELSE Deepened(before[i - 1], s[i - 1])
    IN before[at]

(* The words, one after another and with something behind them.             *)
Begins(s, i, words) ==
    /\ i + Len(words) <= Len(s)
    /\ \A k \in DOMAIN words : s[i + k - 1] = words[k]

(* _read_bracketed: the place of the bracket that closes the one at a       *)
(* place, or past the end where nothing does.                               *)
CloseOf(s, i) ==
    LET closes == {j \in i..Len(s) : s[j] = ")" /\ Depth(s, i, j) = 1}
    IN IF closes = {} THEN Len(s) + 1 ELSE Least(closes)
=============================================================================
