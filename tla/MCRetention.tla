----------------------------- MODULE MCRetention -----------------------------
(* A policy with both rules, and two policies whose strictest values are the *)
(* 0 that one implementation honours and the other ignores.                  *)
EXTENDS Retention

MCPolicySets ==
  { {[keep |-> 1, age |-> 1]}, {[keep |-> 2, age |-> Null], [keep |-> 0, age |-> Null]} }

MCBothRules == { {[keep |-> 1, age |-> 1]} }
=============================================================================
