------------------------------ MODULE MCConfigFlow ------------------------------
(***************************************************************************)
(* Two accounts that share a contract, of which the second account has one *)
(* more of the same number with another provider.                          *)
(***************************************************************************)
EXTENDS ConfigFlow, TLC

CONSTANTS f1, f2, sem, semm, number, alice, bob

MCFlows == {f1, f2}
MCUsers == {alice, bob}
MCOwns == {<<alice, [provider |-> sem, contract |-> number]>>,
           <<bob, [provider |-> sem, contract |-> number]>>,
           <<bob, [provider |-> semm, contract |-> number]>>}
Symmetry == Permutations(MCFlows)
===============================================================================
