---------------------------- MODULE MCLocalRunner -----------------------------
(* The small pipelines under LocalRunner.                                       *)
EXTENDS LocalRunner

CONSTANTS NullKey, Mode, First

INSTANCE SmallPipelines
===============================================================================
