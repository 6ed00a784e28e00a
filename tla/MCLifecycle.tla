----------------------------- MODULE MCLifecycle ------------------------------
(* One pipeline, as it was drafted or already normalized, under catalogs in which*)
(* its destination is plain, external (which needs an approval), or missing.     *)
EXTENDS Lifecycle

MCNormal(design) == "normalized"
MCValid(s, c) == c # "missing"
MCSensitive(s, c) == c = "external"
===============================================================================
