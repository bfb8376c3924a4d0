-------------------------- MODULE MCUuidGenerator --------------------------
(* A small instance of UuidGenerator for TLC. *)
EXTENDS UuidGenerator, TLC

AnyCaller == Permutations(Caller)
=============================================================================
