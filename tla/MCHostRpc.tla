----------------------------- MODULE MCHostRpc -----------------------------
(* Two requests: one asks the host back, the other streams deltas.          *)
EXTENDS HostRpc

CONSTANTS asks, streams
MCCallers == {asks, streams}
MCAsks == {asks}
MCStreams == {streams}
=============================================================================
