------------------------------- MODULE ExecLog -------------------------------
(***************************************************************************)
(* What the execution log promises (models/executionLog.go): a write-once  *)
(* table.  A row is inserted for an execution only when its result is      *)
(* confirmed, it tells that result, and it is never written again.         *)
(***************************************************************************)
EXTENDS Sequences

CONSTANT Op  \* the executions

VARIABLES
  verdict,   \* the confirmed result of each execution, or "none"
  rows       \* the table: pairs <<execution, result>>, in insertion order

Results == {"success", "failed"}

Init == verdict = [o \in Op |-> "none"] /\ rows = <<>>

\* The result of o is confirmed.
Confirm(o) ==
  /\ verdict[o] = "none"
  /\ \E r \in Results : verdict' = [verdict EXCEPT ![o] = r]
  /\ UNCHANGED rows

\* The row of o is inserted.
Record(o) ==
  /\ verdict[o] # "none"
  /\ \A i \in DOMAIN rows : rows[i][1] # o
  /\ rows' = Append(rows, <<o, verdict[o]>>)
  /\ UNCHANGED verdict

Next == \E o \in Op : Confirm(o) \/ Record(o)

Spec == Init /\ [][Next]_<<verdict, rows>>
=============================================================================
