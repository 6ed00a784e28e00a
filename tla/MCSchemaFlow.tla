---------------------------- MODULE MCSchemaFlow -----------------------------
(* A registered source, whose columns mappings and joins can rename until the    *)
(* names meet, and a source about which nothing is known.                        *)
EXTENDS SchemaFlow

MCNames == {"k", "x", "right_k", "right_x", "right_right_k", "right_right_x"}
MCRight == [k |-> "right_k", x |-> "right_x",
            right_k |-> "right_right_k", right_x |-> "right_right_x"]
MCSchema == [orders |-> {"k", "x"}, loose |-> {}]
MCFound == [orders |-> {{"k", "x"}}, loose |-> {{"k"}}]
MCMaps == {[k |-> "k"], [k |-> "right_x"], [k |-> "right_x", x |-> "k"], [k |-> "k", x |-> "k"]}
MCTargets == {{}, {"k", "x"}, {"k", "right_x"}}
===============================================================================
