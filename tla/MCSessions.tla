------------------------------ MODULE MCSessions ------------------------------
(* Small instances of Sessions for TLC: the messages m* go to the session s0,*)
(* each turn t* has one of its own.                                          *)
EXTENDS Sessions

CONSTANTS s0, s1, s2, m1, m2, m3, t1, t2

MCSessionOf ==
  [m \in Messages |-> CASE m = t1 -> s1 [] m = t2 -> s2 [] OTHER -> s0]
=============================================================================
