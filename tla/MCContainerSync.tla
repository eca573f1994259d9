-------------------------- MODULE MCContainerSync ---------------------------
(* The titles are interchangeable but for that of the default container. *)
EXTENDS ContainerSync, TLC

OtherTitles == Permutations(Titles \ {NoTitle})
=============================================================================
