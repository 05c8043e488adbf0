-------------------------------- MODULE Ecl --------------------------------
(***************************************************************************)
(* The control part of cpu7_exu_ecl.v: which instruction each of the       *)
(* stages _e and _m holds, the two stall requests, the exceptions and the  *)
(* selects of the result multiplexer; with them the handshake part of      *)
(* cpu7_lsu.v, which decides when a memory access is over.                 *)
(*                                                                         *)
(* The code keeps one valid bit per unit and stage (lsu_valid_e,           *)
(* bru_valid_e, mul_valid_e, csr_wen_e, illinst_e, ertn_valid_e, ...).     *)
(* All of them are registered from the flags of one decoded instruction,   *)
(* so a stage is kept as that instruction's class, Bubble when no          *)
(* instruction was dispatched.                                             *)
(***************************************************************************)
EXTENDS Isa, Dlib

VARIABLES
    op_e, csr_e,    \* the instruction in _e and its csr_waddr_e
    csr_rdata_e,    \* the CSR value it read in _d
    op_m, csr_m,    \* the instruction in _m and its csr_waddr_m
    csr_wdata_m,    \* the value it writes to that CSR
    ale_m,          \* lsu_ale_m & valid_m: the access in _m was misaligned
    lsu_stall_req, csr_stall_req

eclVars == <<op_e, csr_e, csr_rdata_e, op_m, csr_m, csr_wdata_m, ale_m,
             lsu_stall_req, csr_stall_req>>

EclTypeOK ==
    /\ op_e \in Ops \cup {Bubble} /\ op_m \in Ops \cup {Bubble}
    /\ csr_e \in AllCsrs /\ csr_m \in AllCsrs
    /\ csr_rdata_e \in Word /\ csr_wdata_m \in Word
    /\ ale_m \in BOOLEAN
    /\ lsu_stall_req \in BOOLEAN /\ csr_stall_req \in BOOLEAN

EclInit ==
    /\ op_e = Bubble /\ op_m = Bubble
    /\ csr_e = "none" /\ csr_m = "none"
    /\ csr_rdata_e = 0 /\ csr_wdata_m = 0
    /\ ale_m = FALSE
    /\ lsu_stall_req = FALSE /\ csr_stall_req = FALSE

----------------------------------------------------------------------------
(* Stage _d: what is dispatched.  kill_d is the taken branch in _e.        *)

\* Mutant: a taken branch does not kill decode.
inst_vld_d_unkilled(valid_d, kill_d) == valid_d

inst_vld_d(valid_d, kill_d) == valid_d /\ ~kill_d

\* The class registered into _e.
dispatch_d(valid_d, op_d, kill_d) ==
    IF inst_vld_d(valid_d, kill_d) THEN op_d ELSE Bubble

lsu_dispatch_d(dispatched) == dispatched \in LSU_RELATED
csr_wen_d(dispatched) == dispatched \in CSR_WRITE

(* Stage _e: branches, exceptions and the return from them.                *)

br_taken_e(taken) == op_e \in BRU_RELATED /\ taken
lsu_ale_e(ale) == op_e \in LSU_RELATED /\ ale
illinst_e == op_e \in INE
except_e(ale) == lsu_ale_e(ale) \/ illinst_e
ertn_e == op_e \in ERET

\* An aligned access sends its request in its one cycle in _e.
data_req_e(ale) == op_e \in LSU_RELATED /\ ~ale

(* Stage _m: the end of an access, and the CSR write.                      *)

\* Mutant: only the data cache ends an access.
lsu_finish_m_answer(data_ok) == data_ok

lsu_finish_m(data_ok) == data_ok \/ ale_m
csr_valid_m == op_m \in CSR_RELATED \cup CACHE_RELATED
csr_wen_m == op_m \in CSR_WRITE

\* The selects of rd_data_mux.
RdDataSel(data_ok) ==
    LET lsu == lsu_finish_m(data_ok)
        bru == op_m \in LINKS
        mul == op_m \in MUL_RELATED
    IN  {s \in {"alu", "lsu", "bru", "mul", "csr"} :
           \/ s = "alu" /\ ~(lsu \/ bru \/ mul \/ csr_valid_m)
           \/ s = "lsu" /\ lsu
           \/ s = "bru" /\ bru
           \/ s = "mul" /\ mul
           \/ s = "csr" /\ csr_valid_m}

(* The stall requests: combinational, and registered for the next cycle.   *)

lsu_stall_req_next(dispatched, data_ok) ==
    lsu_dispatch_d(dispatched) \/ (lsu_stall_req /\ ~lsu_finish_m(data_ok))

\* Mutant: the CSR stall lasts one cycle.
csr_stall_req_once(dispatched) == csr_wen_d(dispatched)

csr_stall_req_next(dispatched) ==
    csr_wen_d(dispatched) \/ (csr_stall_req /\ ~csr_wen_m)

\* Mutants: the stall is asked for a cycle late; a CSR write asks for none.
exu_ifu_stall_req_late(dispatched, data_ok) == lsu_stall_req \/ csr_stall_req
exu_ifu_stall_req_lsu(dispatched, data_ok) ==
    lsu_stall_req_next(dispatched, data_ok)

exu_ifu_stall_req(dispatched, data_ok) ==
    lsu_stall_req_next(dispatched, data_ok) \/ csr_stall_req_next(dispatched)

\* One clock edge: the stages advance whatever happens.
EclNext(dispatched, csr_d, csr_rdata_d, ale, csr_wdata_e, data_ok) ==
    /\ op_e' = dispatched
    /\ csr_e' = csr_d
    /\ csr_rdata_e' = csr_rdata_d
    /\ op_m' = op_e
    /\ csr_m' = csr_e
    /\ csr_wdata_m' = csr_wdata_e
    /\ ale_m' = lsu_ale_e(ale)
    /\ lsu_stall_req' = lsu_stall_req_next(dispatched, data_ok)
    /\ csr_stall_req' = csr_stall_req_next(dispatched)
=============================================================================
