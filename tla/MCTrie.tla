------------------------------- MODULE MCTrie -------------------------------
(***************************************************************************)
(* Strings for TLC.  Mixed: nodes become dense and sparse again, prefixes  *)
(* are split in the middle and joined, strings continue one another and    *)
(* all messages.  Topic: one string that others continue.                  *)
(***************************************************************************)
EXTENDS Trie

Mixed == {<<>>, <<1>>, <<1, 1>>, <<1, 2>>, <<1, 4>>, <<1, 3, 1>>, <<1, 2, 1, 1, 1>>, <<1, 2, 1, 2>>,
          <<2, 1, 1>>}
Topic == {<<1>>, <<1, 1>>, <<1, 2>>, <<1, 3>>, <<1, 4>>}

(* The strings, what they start with, and these with another character.    *)
Starts == UNION {Prefixes(s) : s \in Strings}
Around == Starts \cup {Append(p, c) : p \in Starts, c \in Chars}
=============================================================================
