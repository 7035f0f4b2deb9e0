----------------------------- MODULE MCBrowser ------------------------------
(* Small instances of Browser for TLC. *)
EXTENDS Browser
MCPaths == {"/", "/sub"}
MCNames == {"a"}
(* Each machine has the file below its root. *)
MCHoldings == {[m \in Machines |-> [p \in MCPaths |-> IF p = "/" THEN {} ELSE MCNames]]}
=============================================================================
