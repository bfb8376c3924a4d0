-------------------------- MODULE MCMachineJournal --------------------------
(* Small instances of MachineJournal for TLC. *)
EXTENDS MachineJournal, TLC

Alike == Permutations(Client) \cup Permutations(Row) \cup Permutations(Value)
=============================================================================
