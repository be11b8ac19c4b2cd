--------------------------- MODULE MCNativeInstall ---------------------------
(***************************************************************************)
(* A small instance of NativeInstall for TLC: two processes of one build   *)
(* and one of another share a cache directory.                             *)
(***************************************************************************)
EXTENDS NativeInstall, TLC

CONSTANTS p1, p2, q, old_build, new_build

Builds == (p1 :> new_build) @@ (p2 :> new_build) @@ (q :> old_build)

SameBuild == Permutations({p1, p2})
=============================================================================
