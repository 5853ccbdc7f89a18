--------------------------- MODULE MCContractSaga ---------------------------
(* Instances of the contract Saga for TLC.                                 *)
EXTENDS ContractSagaProps, TLC

AttemptSymmetry == Permutations(Workers) \cup Permutations(Activations)
                       \cup Permutations(Settlements) \cup Permutations(Tags)
=============================================================================
