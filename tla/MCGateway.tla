------------------------------ MODULE MCGateway -----------------------------
(* Instances of the gateway and its ledger for TLC.                        *)
EXTENDS GatewayProps, TLC

CallSymmetry == Permutations(Executions) \cup Permutations(Sessions) \cup Permutations(Entities)
LedgerSymmetry == Permutations(Sessions) \cup Permutations(Keys) \cup Permutations(Entities)
=============================================================================
