----------------------------- MODULE MCSelfUpdate -----------------------------
(* An instance of SelfUpdate for TLC. *)
EXTENDS SelfUpdate

P(e, s, p, y) == [enabled |-> e, onStartup |-> s, periodic |-> p, onSync |-> y]
DefaultPolicy == P(TRUE, TRUE, TRUE, TRUE)
TwoPolicies == {DefaultPolicy, P(FALSE, TRUE, TRUE, TRUE)}
=============================================================================
