---------------------------- MODULE MCConsentGate ----------------------------
(* Small instances of ConsentGate for the model checker. *)
EXTENDS ConsentGate, TLC

Body(a, s, e, g) ==
  [analyticsOptOut |-> a, saleOrShareOptOut |-> s, marketingEmailOptIn |-> e,
   messagingTcpaOptIn |-> FALSE, gpc |-> g]

\* Accept everything; opt out of analytics; GPC with a banner that allows sale.
MCInputs == {Body(FALSE, FALSE, TRUE, FALSE), Body(TRUE, TRUE, FALSE, FALSE),
             Body(FALSE, FALSE, FALSE, TRUE)}

Sym == Permutations(Requests)
=============================================================================
