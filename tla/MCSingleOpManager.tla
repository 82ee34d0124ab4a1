------------------------- MODULE MCSingleOpManager --------------------------
(***************************************************************************)
(* One small instance of SingleOpManager.  On a stream: a static operator  *)
(* of a TBE and an AICPU task, with weights, and a dynamic AICPU operator  *)
(* whose load needs a larger buffer and whose output shape is known only   *)
(* after it ran.  On the default stream: dynamic operators of one TBE task *)
(* and of one AICPU task of known shape range.                             *)
(***************************************************************************)
EXTENDS SingleOpManager

MCKey == {"mixed", "compute", "dynamic", "range"}
MCKind == [k \in MCKey |-> CASE k = "mixed" -> "aicpu" [] k = "compute" -> "depend_compute"
                             [] k = "range" -> "depend_range" [] OTHER -> k]
MCMemSize == [k \in MCKey |-> CASE k = "mixed" -> 1 [] k = "compute" -> 2 [] OTHER -> 0]
MCHasWeight == [k \in MCKey |-> k = "mixed"]
MCTaskNum == [k \in MCKey |-> IF k = "mixed" THEN 2 ELSE 1]
MCLoads == {<<s, k>> \in (Stream \cup {NullStream}) \X MCKey : (s = NullStream) <=> (k \in {"dynamic", "range"})}
=============================================================================
