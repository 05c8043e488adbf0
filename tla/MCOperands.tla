----------------------------- MODULE MCOperands -----------------------------
(* Operands for model checking: the instruction mixes of the runs.         *)
EXTENDS Operands

\* A plain result, accesses, illegal ones among them, a result of another
\* unit, an instruction that stalls without an access, and the two that claim
\* the result multiplexer out of turn.
DataOps == {"alu", "mem", "inemem", "bl", "csrwr", "inebru", "cacop"}
\* Results only.
AluOps == {"alu"}
=============================================================================
