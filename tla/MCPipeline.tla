----------------------------- MODULE MCPipeline -----------------------------
(* Pipeline for model checking: the instruction mixes of the runs.         *)
EXTENDS Pipeline

\* Every way to redirect or stall the front end and to leave a stall, and the
\* words two units claim at once.
EveryOps == {"alu", "bcond", "bl", "mem", "csrwr", "ertn", "ine",
             "inemem", "inebru"}
\* What the CSRs interact with.
CsrOps == {"alu", "mem", "csrrd", "csrwr", "ertn", "ine"}
\* Short programs the claims of the comments are about.
ReturnOps == {"alu", "mem", "ertn"}
TrapOps == {"alu", "ine"}
=============================================================================
