--------------------------- MODULE MCSessionLabels ---------------------------
(* A small instance of SessionLabels: two sessions, and two names, one of     *)
(* which begins like a message of the catalogue.                              *)
EXTENDS SessionLabels

\* One session has no price groups, the other one a group for every reason,
\* one of them unknown to the page.
MCPrices == [s1 |-> {}, s2 |-> {"priced", "a new reason"} \cup DOMAIN Reasons]

MCNames == {<<"plan">>, <<"Hour", "3">>}
=============================================================================
