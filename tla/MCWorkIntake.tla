---------------------------- MODULE MCWorkIntake ----------------------------
(* Two requests, the second depending on the first; one promotion, a rival   *)
(* whose contract for the first is refused and which then names the second;  *)
(* one ship task, presented with two contracts, and two looks at its scout.  *)
EXTENDS WorkIntake

CONSTANTS i1, i2

MCItems == {i1, i2}
MCDependsOn == [i \in MCItems |-> IF i = i2 THEN {i1} ELSE {}]
Command(kind, op, i, contract) == [kind |-> kind, op |-> op, item |-> i, contract |-> contract]
MCWorkloads ==
    {{Command("add", "n1", i1, "ready"), Command("add", "n2", i2, "ready"),
      Command("promote", "p1", i1, "sound"), Command("promote", "p2", i1, "refused"),
      Command("promote", "p2", i2, "sound")},
     {Command("ship", "q1", None, "sound"), Command("ship", "q1", None, "altered"),
      Command("attest", "a1", None, "no_open_decisions"),
      Command("attest", "a2", None, "open_decisions")}}
=============================================================================
