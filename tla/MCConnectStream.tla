--------------------------- MODULE MCConnectStream ---------------------------
(* ConnectStream with bytes 0..3.  Payloads hold bytes that read as flags or *)
(* lengths when framing slips; an empty payload is no JSON.                *)
EXTENDS ConnectStream

MCMessages == {<<1>>, <<2, 2>>}
MCErrors   == {<<3>>}

MCFrames == {[flags |-> 0, data |-> <<1>>], [flags |-> 0, data |-> <<2, 2>>],
             [flags |-> 0, data |-> << >>],
             [flags |-> 2, data |-> <<1>>], [flags |-> 2, data |-> <<3>>],
             [flags |-> 3, data |-> << >>]}
=============================================================================
