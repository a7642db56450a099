------------------------------ MODULE MCConfig ------------------------------
(* Three parameters for ConfigRollout: one takes a restart, and one has a    *)
(* name that the API stores and applyParameter rejects.                      *)
EXTENDS ConfigRollout

MCPostmaster == {"shared_buffers"}
MCValid == {"shared_buffers", "work_mem"}
MCParams == MCValid \cup {"WorkMem"}
Set(p, v) == [q \in {p} |-> v]
MCSets == {Set("shared_buffers", "big"), Set("work_mem", "big"), Set("work_mem", "small")}
MCPatches == MCSets \cup {Set("work_mem", ""), Set("WorkMem", "big")}
=============================================================================
