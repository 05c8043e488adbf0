------------------------------ MODULE Operands ------------------------------
(***************************************************************************)
(* The data path of the execution cluster: the register file (reg_file.v), *)
(* the operand registers and bypass of cpu7_exu_ecl.v with its two select  *)
(* blocks cpu7_exu_eclbyplog_rs1.v (first operand) and                     *)
(* cpu7_exu_eclbyplog.v (second operand), the result multiplexer of _m,    *)
(* and the destination of a load, which cpu7_lsu.v keeps.                  *)
(*                                                                         *)
(* Operands runs on the control of Issue.  A step is a clock edge; the     *)
(* fields of the instruction in _d, the result a unit computes and the     *)
(* word a load brings are chosen freely.  The control registers' and the   *)
(* multiplier's pipelines end in _m like the ALU's, so one register stands *)
(* for their four results.  A pc or an immediate is the value 0.           *)
(***************************************************************************)
EXTENDS Issue

CONSTANTS
    NRegs,      \* how many registers, r0 included
    Values      \* what a register may hold

ASSUME NRegsAssumption == NRegs \in Nat /\ NRegs > 1
ASSUME ValuesAssumption == 0 \in Values

Regs == 0 .. NRegs - 1
Writable == Regs \ {0}

VARIABLES
    dec_e,      \* the decode fields registered into _e: rs1_e, rs2_e,
                \* rf_target_e, the unit's write enable, alu_b_imm_e,
                \* double_read_e, and (history) a_pc, which the code does
                \* not keep
    alu_a_e, alu_b_e,           \* the operands read in _d
    dec_m,                      \* rf_target_m and the unit's write enable
    res_m,                      \* the result of the ALU, bru, mul or CSRs
    lsu_rd_m, lsu_wen_m,        \* the destination of the access in flight
    rd_w, wen_w, rd_data_w,     \* what _w writes to the register file
    regs,
    arch,       \* history: the registers as the instruction in _e must see
                \* them, after every result delivered before it
    owed        \* history: the register the access in flight will load, or 0

dataVars == <<dec_e, alu_a_e, alu_b_e, dec_m, res_m, lsu_rd_m, lsu_wen_m,
              rd_w, wen_w, rd_data_w, regs, arch, owed>>
operandsVars == <<issueVars, dataVars>>

----------------------------------------------------------------------------
(* Decode.                                                                 *)

ALU_RELATED == Ops \ (LSU_RELATED \cup BRU_RELATED \cup MUL_RELATED
                                  \cup CSR_RELATED)

\* GR_WEN, as the unit that takes the instruction uses it: the divisions,
\* which no unit takes, write nothing.
GrWen(op) == {w \in BOOLEAN :
                 \/ w  /\ op \in {"alu", "bl", "mem", "mul", "csrrd", "csrwr",
                                  "ine", "inemem"}
                 \/ ~w /\ op \notin {"bl", "mul", "csrrd", "csrwr"}}

Fields == [rs1 : Regs, rs2 : Regs, rd : Regs, wen : BOOLEAN,
           a_pc : BOOLEAN, b_imm : BOOLEAN, double : BOOLEAN]

NoFields == [rs1 |-> 0, rs2 |-> 0, rd |-> 0, wen |-> FALSE,
             a_pc |-> FALSE, b_imm |-> FALSE, double |-> FALSE]

\* The fields an instruction of class op can have: rf_target is 0 when it
\* does not write, only ALU instructions take an immediate as operand, and
\* those that take the pc take an immediate too.  The memory instructions
\* with two registers for their address (double_read: ldx.w, am..., preldx)
\* are all of the 64-bit set.
FieldsOf(op) ==
    {f \in Fields : /\ op = Bubble => f = NoFields
                    /\ f.wen \in GrWen(op)
                    /\ ~f.wen => f.rd = 0
                    /\ f.b_imm => op \in ALU_RELATED
                    /\ f.a_pc => f.b_imm
                    /\ f.double => op \in LSU_RELATED \cap INE}

----------------------------------------------------------------------------
(* Reading the register file, with the write of the same cycle forwarded.  *)

rf_read(r) == IF r = 0 THEN 0
              ELSE IF wen_w /\ rd_w = r THEN rd_data_w
              ELSE regs[r]

alu_a_d(f) == IF f.a_pc THEN 0 ELSE rf_read(f.rs1)
alu_b_d(f) == IF f.b_imm THEN 0 ELSE rf_read(f.rs2)

(* The result of _m: which register, whether it is written, which value.   *)

rd_m(data_ok) == IF lsu_finish_m(data_ok) THEN lsu_rd_m ELSE dec_m.rd

wen_m(data_ok) ==
    \/ op_m \notin LSU_RELATED \cup BRU_RELATED /\ dec_m.wen
    \/ op_m \in LINKS
    \/ lsu_wen_m /\ lsu_finish_m(data_ok)

\* Every value rd_data_mux can put out.
RdDataM(data_ok, rdata) ==
    DpMux(RdDataSel(data_ok),
          [alu |-> res_m, lsu |-> rdata, bru |-> res_m, mul |-> res_m,
           csr |-> res_m], Values)

(* The bypass into _e.                                                     *)

use_m(rs, data_ok) == rs = rd_m(data_ok) /\ wen_m(data_ok)

\* Mutant: the older result wins.
use_w_first(rs, data_ok) == rs = rd_w /\ wen_w

use_w(rs, data_ok) == rs = rd_w /\ wen_w /\ ~use_m(rs, data_ok)

\* cpu7_exu_eclbyplog_rs1
Rs1Sel(data_ok) ==
    LET rs == dec_e.rs1
    IN  {s \in {"rf", "m", "w"} :
           \/ s = "rf" /\ ~use_m(rs, data_ok) /\ ~use_w(rs, data_ok)
           \/ s = "m"  /\ use_m(rs, data_ok) /\ rs # 0
           \/ s = "w"  /\ use_w(rs, data_ok) /\ rs # 0}

\* cpu7_exu_eclbyplog, with use_other_e.
Rs2Sel(data_ok) ==
    LET rs == dec_e.rs2
        bypass == rs # 0 /\ ~(dec_e.b_imm \/ dec_e.double)
    IN  {s \in {"rf", "m", "w"} :
           \/ s = "rf" /\ \/ ~bypass
                          \/ ~use_m(rs, data_ok) /\ ~use_w(rs, data_ok)
           \/ s = "m"  /\ use_m(rs, data_ok) /\ bypass
           \/ s = "w"  /\ use_w(rs, data_ok) /\ bypass}

\* Every value a bypass multiplexer can put out.
Bypassed(sel, rf, data_ok, rdata) ==
    UNION {DpMux(sel, [rf |-> rf, m |-> v, w |-> rd_data_w], Values) :
           v \in RdDataM(data_ok, rdata)}

byp_rs1_data_e(data_ok, rdata) ==
    Bypassed(Rs1Sel(data_ok), alu_a_e, data_ok, rdata)
byp_rs2_data_e(data_ok, rdata) ==
    Bypassed(Rs2Sel(data_ok), alu_b_e, data_ok, rdata)

----------------------------------------------------------------------------
(* The specification.                                                      *)

OperandsTypeOK ==
    /\ EclTypeOK /\ pending \in 0 .. MaxPending /\ lost \in BOOLEAN
    /\ dec_e \in Fields
    /\ alu_a_e \in Values /\ alu_b_e \in Values
    /\ dec_m \in [rd : Regs, wen : BOOLEAN] /\ res_m \in Values
    /\ lsu_rd_m \in Regs /\ lsu_wen_m \in BOOLEAN
    /\ rd_w \in Regs /\ wen_w \in BOOLEAN /\ rd_data_w \in Values
    /\ regs \in [Writable -> Values]
    /\ arch \in [Writable -> Values]
    /\ owed \in Regs

\* Neither the register file nor the pipeline registers have a reset: the
\* registers hold anything, and no write is under way.
Init ==
    /\ IssueInit
    /\ dec_e = NoFields /\ alu_a_e = 0 /\ alu_b_e = 0
    /\ dec_m = [rd |-> 0, wen |-> FALSE] /\ res_m = 0
    /\ lsu_rd_m = 0 /\ lsu_wen_m = FALSE
    /\ rd_w = 0 /\ wen_w = FALSE /\ rd_data_w = 0
    /\ regs \in [Writable -> Values]
    /\ arch = regs /\ owed = 0

\* What the instruction in _e computes, and what a load in flight brings,
\* where there is one.
Results == IF dec_e.wen /\ op_e \notin LSU_RELATED THEN Values ELSE {0}
LoadWords == IF pending > 0 \/ ale_m THEN Values ELSE {0}

\* Mutant: the load's destination is registered in every cycle.
LsuRdNextAlways == /\ lsu_rd_m' = dec_e.rd
                   /\ lsu_wen_m' = dec_e.wen

LsuRdNext == IF op_e \in LSU_RELATED
             THEN lsu_rd_m' = dec_e.rd /\ lsu_wen_m' = dec_e.wen
             ELSE UNCHANGED <<lsu_rd_m, lsu_wen_m>>

RegFileNext == regs' = [r \in Writable |-> IF wen_w /\ rd_w = r THEN rd_data_w
                                           ELSE regs[r]]

\* An instruction delivers its result when it leaves _e, a load when it is
\* answered (or gives up).
ArchNext(i, res, rdata) ==
    /\ arch' = [r \in Writable |->
                  IF dec_e.wen /\ op_e \notin LSU_RELATED /\ dec_e.rd = r
                  THEN res
                  ELSE IF lsu_finish_m(i.data_ok) /\ owed = r THEN rdata
                  ELSE arch[r]]
    /\ owed' = IF op_e \in LSU_RELATED THEN dec_e.rd
               ELSE IF lsu_finish_m(i.data_ok) THEN 0 ELSE owed

Tick(i, f, res, rdata) ==
    /\ IssueTick(i)
    /\ dec_e' = f
    /\ alu_a_e' = alu_a_d(f) /\ alu_b_e' = alu_b_d(f)
    /\ dec_m' = [rd |-> dec_e.rd, wen |-> dec_e.wen]
    /\ res_m' = res
    /\ LsuRdNext
    /\ rd_w' = rd_m(i.data_ok) /\ wen_w' = wen_m(i.data_ok)
    /\ rd_data_w' \in RdDataM(i.data_ok, rdata)
    /\ RegFileNext
    /\ ArchNext(i, res, rdata)

Next == \E i \in IssueInputs : \E f \in FieldsOf(i.op) :
            \E res \in Results : \E rdata \in LoadWords :
                Tick(i, f, res, rdata)

Spec == Init /\ [][Next]_operandsVars

----------------------------------------------------------------------------
(* Properties.                                                             *)

(***************************************************************************)
(* The operands an instruction computes with in _e are those the program   *)
(* order gives it: whichever of _m, _w, the register file as it was one    *)
(* cycle ago, and the write forwarded in that cycle holds the newest value *)
(* of the register, that one is chosen, loads included (lines 180 to 318   *)
(* of cpu7_exu_ecl.v).  An immediate is never replaced.  Three cases are   *)
(* not claimed: a first operand that is r0 while an instruction naming r0  *)
(* as its destination is in _m or _w, a first operand that is the pc, and  *)
(* the second operand of an illegal word with double_read, which the code  *)
(* never bypasses (line 278).                                              *)
(***************************************************************************)
OperandsCurrent ==
    \A i \in IssueInputs, v \in Values :
        op_e # Bubble =>
          /\ dec_e.rs1 # 0 /\ ~dec_e.a_pc =>
                byp_rs1_data_e(i.data_ok, v) = {arch[dec_e.rs1]}
          /\ dec_e.rs1 = 0 /\ Rs1Sel(i.data_ok) # {} =>
                byp_rs1_data_e(i.data_ok, v) = {0}
          /\ dec_e.rs2 # 0 /\ ~dec_e.b_imm /\ ~dec_e.double =>
                byp_rs2_data_e(i.data_ok, v) = {arch[dec_e.rs2]}
          /\ dec_e.rs2 = 0 \/ dec_e.b_imm =>
                byp_rs2_data_e(i.data_ok, v) = {0}

(***************************************************************************)
(* No result is lost or overtaken on the way to the register file: the     *)
(* newest value of every register is in _m, else in _w, else in the file;  *)
(* and the LSU knows where the access in flight is to go, whatever has     *)
(* passed through _e since (lines 372 to 394 of cpu7_lsu.v, 917 to 996 of  *)
(* cpu7_exu_ecl.v).                                                        *)
(***************************************************************************)
HeldByM(r) == /\ op_m \notin LSU_RELATED /\ dec_m.wen /\ dec_m.rd = r

NewestCopy ==
    /\ \A r \in Writable :
         arch[r] = IF HeldByM(r) THEN res_m
                   ELSE IF wen_w /\ rd_w = r THEN rd_data_w
                   ELSE regs[r]
    /\ pending > 0 \/ ale_m => owed = IF lsu_wen_m THEN lsu_rd_m ELSE 0

----------------------------------------------------------------------------
(* Claims of the repository that the code does not keep.                   *)

(***************************************************************************)
(* The assertion "0in one_hot" of mux3ds (swrvr_clib.v:626) on             *)
(* mux_rs1_data: one of its three selects is high.  The test               *)
(* func_uty32_nop, "addi.w $r5, $r0, 0x3a # r5 = 0x3a" behind a nop, which *)
(* names r0 as its destination, relies on it.                              *)
(***************************************************************************)
Rs1MuxAssertion ==
    \A i \in IssueInputs : op_e # Bubble => OneCold(Rs1Sel(i.data_ok))

(***************************************************************************)
(* "alu_a = alu_a_pc? ifu_exu_pc_d : rdata0_0_input" (cpu7_exu_ecl.v:175): *)
(* the first operand of an instruction relative to the pc is the pc that   *)
(* was read in _d, not a register.                                         *)
(***************************************************************************)
PcOperand ==
    \A i \in IssueInputs :
        op_e # Bubble /\ dec_e.a_pc /\ dec_e.rs1 # 0 => Rs1Sel(i.data_ok) = {"rf"}
=============================================================================
