---------------------------- MODULE MCOperatorCard ----------------------------
(* Small instances of OperatorCard for TLC: phase maps.                       *)
EXTENDS OperatorCard
CONSTANT t1
OneAndEmpty == << <<t1>>, << >> >>
=============================================================================
