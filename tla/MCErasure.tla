------------------------------ MODULE MCErasure ------------------------------
(* Small instances of Erasure for the model checker. *)
EXTENDS Erasure, TLC

CONSTANTS a1, a2, u1, email, x

Traits(v) == [k \in Keys |-> v]

Identify(a, u) == [type |-> "identify", anon |-> a, user |-> u, traits |-> Traits(x)]
Track(a) == [type |-> "track", anon |-> a, user |-> NoUser, traits |-> NoTraits]

\* A visitor of two devices who identifies on both.
MCBatches == {<<Identify(a1, u1)>>, <<Identify(a2, u1)>>, <<Track(a1), Track(a1)>>}

\* Subjects given by one field.
MCSubjects == {[user |-> u1, anon |-> NoAnon], [user |-> NoUser, anon |-> a1]}

\* A subject given by two.
MCSubjectsBoth == {[user |-> u1, anon |-> a2]}
=============================================================================
