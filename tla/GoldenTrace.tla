---------------------------- MODULE GoldenTrace -----------------------------
(***************************************************************************)
(* The comparison of what the core writes back with a reference trace, and *)
(* the conditions that end a simulation.  The reference has a record for   *)
(* every write that changes a register; the writes that do not are passed  *)
(* over.  It is called once a clock, and what it returns ends the          *)
(* simulation.                                                             *)
(***************************************************************************)
EXTENDS Naturals, Sequences

CONSTANTS
    Regs, Values, PCs,
    END_PC,     \* the pc of the last instruction of a test
    DeadLimit   \* clocks without a write-back after which the core is dead

ASSUME TraceAssumption ==
    0 \in Regs /\ 0 \in Values /\ END_PC \in PCs /\ DeadLimit \in Nat

VARIABLES
    golden_trace_in,    \* the records of the reference
    at,                 \* the one the next change is compared with
    right_fir_reg, right_sec_reg, two_delay,
    reg, no_change_flag, sim_over, dead_clock

pairing == <<right_fir_reg, right_sec_reg, two_delay>>
traceVars == <<golden_trace_in, at, pairing, reg, no_change_flag, sim_over, dead_clock>>

Change == [pc : PCs, wnum : Regs, wdata : Values]
\* A record: whether it is compared, how many registers change, and both.
Record == [trace_cmp_flag : BOOLEAN, change_num : 1 .. 3, fir : Change, sec : Change]

TraceTypeOK ==
    /\ golden_trace_in \in Seq(Record) /\ at \in 1 .. Len(golden_trace_in)
    /\ \A b \in {right_fir_reg, right_sec_reg, two_delay, no_change_flag, sim_over} : b \in BOOLEAN
    /\ reg \in [Regs -> Values] /\ dead_clock \in 0 .. DeadLimit + 1

\* The record is of two changes, so two calls use it.
Pair(i) == golden_trace_in[i].change_num = 2

TraceInit(trace) ==
    /\ golden_trace_in = trace /\ at = 1
    /\ right_fir_reg = Pair(1) /\ right_sec_reg = Pair(1) /\ two_delay = Pair(1)
    /\ no_change_flag = FALSE
    /\ reg = [r \in Regs |-> 0] /\ sim_over = FALSE /\ dead_clock = 0

----------------------------------------------------------------------------
\* What the core writes back in a clock.
WriteBack == [wen : BOOLEAN, wnum : Regs, wdata : Values, pc : PCs]
NoWriteBack == [wen |-> FALSE, wnum |-> 0, wdata |-> 0, pc |-> END_PC]
Writes(wb) == wb.wen /\ wb.wnum # 0

\* A bug for the checks: the flag is only ever set.
NoChangeSticky(wb) == no_change_flag \/ (Writes(wb) /\ reg[wb.wnum] = wb.wdata)

\* Whether the last write left its register as it was.
NoChange(wb) == IF Writes(wb) THEN reg[wb.wnum] = wb.wdata ELSE no_change_flag

Compared(wb) == Writes(wb) /\ ~NoChange(wb) /\ golden_trace_in[at].trace_cmp_flag

\* The register and the value a record names.
Same(c, wb) == c.wnum = wb.wnum /\ c.wdata = wb.wdata

\* Of two changes the first may not be either, and after the second both
\* marks are gone.
PairError(wb) ==
    LET r == golden_trace_in[at]
    IN  \/ r.fir.pc # wb.pc
        \/ ~Same(r.fir, wb) /\ ~right_fir_reg
        \/ ~Same(r.sec, wb) /\ ~right_sec_reg
        \/ (right_fir_reg => ~Same(r.fir, wb)) /\ (right_sec_reg => ~Same(r.sec, wb))

Mismatch(wb) ==
    /\ Compared(wb)
    /\ LET r == golden_trace_in[at]
       IN  CASE r.change_num = 1 -> r.fir.pc # wb.pc \/ ~Same(r.fir, wb)
             [] r.change_num = 2 -> PairError(wb)
             [] OTHER -> TRUE

\* The next record, unless this one has a second change to come; the last
\* one stays when the file is at its end.  The marks are those after the
\* comparison.
update_once(fir, sec) ==
    LET i == IF two_delay \/ at = Len(golden_trace_in) THEN at ELSE at + 1
    IN  /\ at' = i /\ two_delay' = (~two_delay /\ Pair(i))
        /\ right_fir_reg' = (fir \/ (~two_delay /\ Pair(i)))
        /\ right_sec_reg' = (sec \/ (~two_delay /\ Pair(i)))

\* A bug for the checks: a core that writes anything back is not dead.
DeadNextAny(wb) == IF wb.wen THEN 0 ELSE dead_clock

DeadNext(wb) == IF wb.wen THEN 0 ELSE dead_clock + 1

\* A bug for the checks: one clock more.
DeadLater(wb) == DeadNext(wb) > DeadLimit + 1
Dead(wb) == DeadNext(wb) > DeadLimit

\* The clock ends the simulation: a mismatch, the byte for the end on the
\* design's display, the last pc, a dead core.
trace_status(wb, end_byte) ==
    IF \/ Mismatch(wb) \/ end_byte \/ sim_over \/ (Writes(wb) /\ wb.pc = END_PC)
       \/ Dead(wb)
    THEN {"trace"} ELSE {}

compare(wb, end_byte) ==
    /\ sim_over' = (sim_over \/ (Writes(wb) /\ wb.pc = END_PC))
    /\ no_change_flag' = NoChange(wb)
    /\ reg' = IF Writes(wb) THEN [reg EXCEPT ![wb.wnum] = wb.wdata] ELSE reg
    /\ IF Compared(wb) /\ ~Mismatch(wb)
       THEN update_once(right_fir_reg /\ (Pair(at) => Same(golden_trace_in[at].fir, wb)),
                        right_sec_reg /\ (Pair(at) => Same(golden_trace_in[at].sec, wb)))
       ELSE UNCHANGED <<at, pairing>>
    /\ dead_clock' = IF Mismatch(wb) \/ end_byte \/ sim_over' THEN dead_clock ELSE DeadNext(wb)
    /\ UNCHANGED golden_trace_in
=============================================================================
