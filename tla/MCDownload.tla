----------------------------- MODULE MCDownload ------------------------------
(* A file on the server of UPDATE, A, one of its length on a server of its   *)
(* own, C, so that a partial A and a partial C look alike, and a shorter one *)
(* there, B.                                                                 *)
EXTENDS Download, TLC

CONSTANTS A, B, C

MCFiles == {A, B, C}
MCBlocks == A :> 3 @@ B :> 1 @@ C :> 3
MCHome == A :> "upd" @@ B :> "file" @@ C :> "file"
==============================================================================
