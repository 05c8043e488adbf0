-------------------------------- MODULE Fdp --------------------------------
(***************************************************************************)
(* cpu7_ifu_fdp.v and the instruction register of cpu7_ifu_dec.v: the      *)
(* choice of the next fetch address, the program counter of each stage and *)
(* the instruction handed to decode.  The selects of the two multiplexers  *)
(* that form pc_bf are active low in the code; here a select set holds the *)
(* inputs whose line is low.                                               *)
(***************************************************************************)
EXTENDS Isa, Dlib

VARIABLES
    pc_f,       \* the address the instruction cache is answering
    pc_d, pc_e, \* the program counters of the two later stages
    valid_d,    \* ifu_exu_valid_d
    op_d, csr_d \* ifu_exu_inst_d, abstracted to its class and CSR field

fdpVars == <<pc_f, pc_d, pc_e, valid_d, op_d, csr_d>>

FdpTypeOK == /\ pc_f \in Word /\ pc_d \in Word /\ pc_e \in Word
             /\ valid_d \in BOOLEAN
             /\ op_d \in Ops \cup {Bubble}
             /\ csr_d \in AllCsrs

\* After reset pc_f is pc_init and decode holds nothing; the program
\* counters of the other stages have no reset, and nothing reads them
\* before an instruction arrives.
FdpInit == /\ pc_f = 0 /\ pc_d = 0 /\ pc_e = 0
           /\ valid_d = FALSE /\ op_d = Bubble /\ csr_d = "none"

----------------------------------------------------------------------------
(* The wires.  w is the record of the signals the datapath samples:        *)
(* inst_valid, stall, br_taken, except and ertn.                           *)

\* Mutant: the word behind a taken branch is decoded.
fdp_dec_valid_after_branch(w) ==
    w.inst_valid /\ ~w.stall /\ ~w.except /\ ~w.ertn

fdp_dec_valid(w) ==
    w.inst_valid /\ ~w.stall /\ ~w.br_taken /\ ~w.except /\ ~w.ertn

\* Mutant: a trap does not release the held address when the front end stalls.
PcbfMux1SelOld(w) ==
    LET redirected == w.br_taken \/ w.ertn \/ w.except
    IN  {s \in {"old", "pcinc", "brpc"} :
           \/ s = "old"   /\ ~((w.inst_valid \/ redirected) /\ ~w.stall)
           \/ s = "pcinc" /\ w.inst_valid /\ ~redirected /\ ~w.stall
           \/ s = "brpc"  /\ w.br_taken}

\* pcbf_mux_1, between the held, the next and the branched-to address
\* (its fourth input, pc_init, is selected only during reset).
PcbfMux1Sel(w) ==
    LET redirected == w.br_taken \/ w.ertn
    IN  {s \in {"old", "pcinc", "brpc"} :
           \/ s = "old"   /\ ~((w.inst_valid \/ redirected) /\ ~w.stall)
                          /\ ~w.except
           \/ s = "pcinc" /\ w.inst_valid /\ ~redirected /\ ~w.except
                          /\ ~w.stall
           \/ s = "brpc"  /\ w.br_taken}

\* pcbf_mux_2, between the first multiplexer, EENTRY and ERA.
PcbfMux2Sel(w) ==
    {s \in {"mux1", "excpc", "ertnpc"} :
       \/ s = "mux1"   /\ PcbfMux1Sel(w) # {}
       \/ s = "excpc"  /\ w.except
       \/ s = "ertnpc" /\ w.ertn}

\* Every value pc_bf can have.
PcBf(w, br_target, exc_pc, ertn_pc) ==
    UNION { DpMux(PcbfMux2Sel(w),
                  [mux1 |-> m, excpc |-> exc_pc, ertnpc |-> ertn_pc], Word) :
            m \in DpMux(PcbfMux1Sel(w),
                        [old |-> pc_f, pcinc |-> Inc(pc_f), brpc |-> br_target],
                        Word) }

\* One clock edge.
FdpNext(w, inst, br_target, exc_pc, ertn_pc) ==
    /\ pc_f' \in PcBf(w, br_target, exc_pc, ertn_pc)
    /\ valid_d' = fdp_dec_valid(w)
    /\ IF fdp_dec_valid(w)
       THEN pc_d' = pc_f /\ op_d' = inst.op /\ csr_d' = inst.csr
       ELSE UNCHANGED <<pc_d, op_d, csr_d>>
    /\ pc_e' = pc_d
=============================================================================
