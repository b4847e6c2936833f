------------------------------ MODULE MCFetcher ------------------------------
(* Instances of Fetcher for TLC. *)
EXTENDS Fetcher

(* One gateway, spelled in two ways, and a host that is not allowed. *)
Spelled == {"gateway", "Gateway", "elsewhere"}
Lowered == [s \in Spelled |-> IF s = "Gateway" THEN "gateway" ELSE s]
=============================================================================
