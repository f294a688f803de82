----------------------------- MODULE MCRadixSession -----------------------------
(* Small instances of RadixSession for TLC.                                *)
EXTENDS RadixSession

\* Two nodes, each of a network of its own.
ServedBy == [node \in {"mainnetNode", "stokenetNode"} |->
               IF node = "mainnetNode" THEN "mainnet" ELSE "stokenet"]
=============================================================================
