--------------------------- MODULE MCPolicyClient ---------------------------
(* A credential for GET only, and two policies: the first allows both reads,  *)
(* the second blocks the read of secrets by a rule about every operation, and *)
(* allows listing by a rule that the bundle leaves out as well.               *)
EXTENDS PolicyClient, TLC

MCOperationOf == [list |-> "GET", secret |-> "GET", change |-> "POST"]
Reads ==
    [id |-> 1, decision |-> "ALLOW", priority |-> 1, operation |-> "GET",
     matches |-> {"list", "secret"}, cache_eligible |-> TRUE]
Secrets ==
    [id |-> 2, decision |-> "BLOCK", priority |-> 0, operation |-> "any",
     matches |-> {"secret"}, cache_eligible |-> FALSE]
Listing ==
    [id |-> 3, decision |-> "ALLOW", priority |-> 2, operation |-> "any",
     matches |-> {"list", "change"}, cache_eligible |-> FALSE]
MCRulesOf == [open |-> {Reads}, strict |-> {Reads, Secrets, Listing}]
MCDefaultOf == [open |-> "BLOCK", strict |-> "ESCALATE"]
MCTable == [open |-> [list |-> "ALLOW", secret |-> "ALLOW", change |-> "BLOCK"],
            strict |-> [list |-> "ALLOW", secret |-> "BLOCK", change |-> "ALLOW"]]
MCActionOf == [k1 |-> "list", k2 |-> "secret"]
=============================================================================
