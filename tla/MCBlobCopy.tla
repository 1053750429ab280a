----------------------------- MODULE MCBlobCopy ------------------------------
(* Two copies of one blob into a registry that mounts: c1 with the attempts *)
(* of config.go's default, c2 with one retry.                               *)
EXTENDS BlobCopy, TLC

CONSTANTS c1, c2, b1

MCBlobOf == (c1 :> b1) @@ (c2 :> b1)
MCMaxAttempts == (c1 :> 3) @@ (c2 :> 2)
=============================================================================
