--------------------------- MODULE MCKeywordSync ----------------------------
(* The words are interchangeable, and so are the tasks. *)
EXTENDS KeywordSync, TLC

Alike == Permutations(Words) \cup Permutations(Tasks)
=============================================================================
