--------------------------- MODULE MCUnixReactor ---------------------------
(* The runs of UnixReactor: which misfortunes each of them allows.         *)
EXTENDS UnixReactor

Attentive   == {"io", "port", "close", "cancel", "pause", "descendant"}
Impatient   == {"close", "descendant"}
Calm        == {}
=============================================================================
