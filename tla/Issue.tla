------------------------------- MODULE Issue -------------------------------
(***************************************************************************)
(* What the front end promises the execution cluster: any instruction may  *)
(* be dispatched in any cycle, but for the cycles in which one of the two  *)
(* stall requests is registered.  This is the abstract specification of    *)
(* the front end that Operands is built on, and Pipeline implements it:    *)
(* fetch, redirections and the values of the CSRs are forgotten.           *)
(***************************************************************************)
EXTENDS DataPort

issueVars == <<eclVars, pending, lost>>

IssueInit == EclInit /\ pending = 0 /\ lost = FALSE

\* The inputs of a cycle: the class dispatched, whether the access in _e is
\* misaligned, whether the data cache takes it and whether it answers.
IssueInputs ==
    [ op      : IF lsu_stall_req \/ csr_stall_req THEN {Bubble}
                ELSE Ops \cup {Bubble},
      ale     : IF op_e \in LSU_RELATED THEN BOOLEAN ELSE {FALSE},
      owed_ok : IF op_e \in LSU_RELATED THEN BOOLEAN ELSE {TRUE},
      data_ok : IF pending > 0 THEN BOOLEAN ELSE {FALSE} ]

\* One clock edge.  The CSR fields and values of the stages are left at rest.
IssueTick(i) ==
    /\ EclNext(i.op, "none", 0, i.ale, 0, i.data_ok)
    /\ MemNext(data_req_e(i.ale), i.owed_ok, i.data_ok)

IssueNext == \E i \in IssueInputs : IssueTick(i)

IssueSpec == IssueInit /\ [][IssueNext]_issueVars
=============================================================================
