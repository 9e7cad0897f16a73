---------------------------- MODULE MCTrustStore ----------------------------
(* TrustStore on small instances.  The contents of a file differ in layout   *)
(* only, in the definition of c1, or no longer define c2.                    *)
EXTENDS TrustStore

MCDefaultActions == [format |-> "REQUIRE_REAPPROVAL", semantic |-> "REQUIRE_REAPPROVAL",
                     security |-> "BLOCK"]
MCPolicies == {[format |-> "ALLOW", semantic |-> "QUARANTINE", security |-> "WARN"]}

MCSourceOf == [c \in Components |-> "s"]

Defines(one, two) == [c \in Components |-> IF c = "c1" THEN one ELSE two]

MCDefinitions ==
  [raw \in {"base", "layout", "edited", "removed"} |->
     CASE raw \in {"base", "layout"} -> Defines("a", "a")
       [] raw = "edited" -> Defines("b", "a")
       [] raw = "removed" -> Defines("a", "absent")]
=============================================================================
