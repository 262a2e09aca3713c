-------------------------- MODULE MCAccountCreation --------------------------
(* AccountCreation on a small instance, for TLC.                           *)
EXTENDS AccountCreation, TLC

Capitals == [c \in {"A"} |-> "a"]

Api == <<"a", "p", "i">>
Pi7 == <<"p", "i", "7">>

\* Two names with one slug, one with another slug, one whose slug is reserved
\* although the name is not, one that is reserved itself.
Names == {<<"A">> \o Pi7, <<"a", " ">> \o Pi7 \o <<"!">>, <<" ", "a">> \o Pi7,
          Api \o <<"_">>, Api}
Reserved == {Api}

Symmetry == Permutations(Call) \cup Permutations(Email)
=============================================================================
