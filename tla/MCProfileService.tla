-------------------------- MODULE MCProfileService --------------------------
(* Small instances of ProfileService for the model checker. *)
EXTENDS ProfileService, TLC

Sym == Permutations(Ids) \cup Permutations(Anons) \cup Permutations(Users)
         \cup Permutations(Workers) \cup Permutations(Keys) 
=============================================================================
