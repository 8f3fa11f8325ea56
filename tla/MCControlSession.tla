-------------------------- MODULE MCControlSession --------------------------
(* A report and then a candidate with its evidence; one operation of         *)
(* the host, which is as many as a session handles at one time.              *)
EXTENDS ControlSession
CONSTANT o1
MCEvidence == {1, 2}
MCHostOperations == {o1}
=============================================================================
