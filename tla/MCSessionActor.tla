--------------------------- MODULE MCSessionActor ---------------------------
(***************************************************************************)
(* Small instances of SessionActor.                                        *)
(***************************************************************************)
EXTENDS SessionActor

CONSTANTS m1, m2, low, high, c1

MCSettings == [model |-> m1, reasoning |-> low, context_tokens |-> 0]

\* m2 supports more levels than m1.
MCCatalog == [m \in {m1, m2} |-> IF m = m1 THEN {low} ELSE {low, high}]

NoClients == {}
OneClient == {<<c1, 1>>}
=============================================================================
