--------------------------- MODULE MCCommandHandle ---------------------------
(* CommandHandle on a small instance: one kind of chunk per stream, so that*)
(* reordering and misfiling both show, and two exit statuses.              *)
EXTENDS CommandHandle

Chunk(k) == [kind |-> k, data |-> "x"]

MCChunks   == {Chunk("stdout"), Chunk("stderr"), Chunk("pty")}
MCStatuses == {[code |-> 0, err |-> "none"], [code |-> 137, err |-> "reported"],
               [code |-> 1, err |-> "none"]}
=============================================================================
