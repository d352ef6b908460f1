----------------------------- MODULE MCRecovery -----------------------------
(* Two pipelines, the first with both of its legs.                          *)
EXTENDS Recovery

MCLegs == {<<"a", "long">>, <<"a", "short">>, <<"b", "long">>}
=============================================================================
