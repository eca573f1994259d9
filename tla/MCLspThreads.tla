---------------------------- MODULE MCLspThreads ----------------------------
(* Values for the constants of LspThreads: one note of each language. *)
EXTENDS LspThreads, TLC

OneOfEach == 1 :> "clangd" @@ 2 :> "gopls"
=============================================================================
