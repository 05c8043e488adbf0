------------------------------ MODULE Pipeline ------------------------------
(***************************************************************************)
(* The control of the core: cpu7_ifu_fdp and cpu7_ifu_dec (module Fdp),    *)
(* cpu7_exu_ecl with the handshake of cpu7_lsu (modules Ecl and DataPort)  *)
(* and cpu7_csr (module Csr), wired together as in cpu7_ifu.v and          *)
(* cpu7_exu.v.                                                             *)
(*                                                                         *)
(* A step is one rising clock edge: every register of the core is updated  *)
(* at once, from the wires of the cycle that ends.  What the rest of the   *)
(* system feeds those wires is chosen freely each cycle: whether the       *)
(* instruction cache answers and with which instruction, the outcome of a  *)
(* branch, whether an address is aligned, the value written to a CSR,      *)
(* whether the data cache takes a request and when it answers one it has   *)
(* taken.  That the answer of the instruction cache belongs to pc_f is     *)
(* assumed here.                                                           *)
(***************************************************************************)
EXTENDS Fdp, DataPort, Csr

VARIABLES
    shadow,     \* history: what the instruction in _e was dispatched behind,
                \* "except" or "ertn" if that was in _e then, else "no"
    retired     \* history: the last instruction to leave _e, and its pc

vars == <<fdpVars, eclVars, csrVars, pending, lost, shadow, retired>>

TypeOK == /\ FdpTypeOK /\ EclTypeOK /\ CsrTypeOK
          /\ pending \in 0 .. MaxPending /\ lost \in BOOLEAN
          /\ shadow \in {"no", "except", "ertn"}
          /\ retired \in [pc : Word, op : Ops \cup {Bubble}]

Init == /\ FdpInit /\ EclInit /\ CsrInit
        /\ pending = 0 /\ lost = FALSE /\ shadow = "no"
        /\ retired = [pc |-> 0, op |-> Bubble]

----------------------------------------------------------------------------
(* The inputs of a cycle.  An input nothing looks at in the current state  *)
(* is held at one value.                                                   *)

Inputs == [ inst    : Insts \cup {NoInst},
            taken   : IF op_e \in {"bcond"} THEN BOOLEAN ELSE {TRUE},
            target  : IF op_e \in BRU_RELATED THEN Word ELSE {0},
            ale     : IF op_e \in LSU_RELATED THEN BOOLEAN ELSE {FALSE},
            owed_ok : IF op_e \in LSU_RELATED THEN BOOLEAN ELSE {TRUE},
            wdata   : IF op_e \in CSR_WRITE THEN Word ELSE {0},
            data_ok : IF pending > 0 THEN BOOLEAN ELSE {FALSE} ]

\* The wires between the components.
dispatched(i) == dispatch_d(valid_d, op_d, br_taken_e(i.taken))

FdpWires(i) == [ inst_valid |-> i.inst # NoInst,
                 stall      |-> exu_ifu_stall_req(dispatched(i), i.data_ok),
                 br_taken   |-> br_taken_e(i.taken),
                 except     |-> except_e(i.ale),
                 ertn       |-> ertn_e ]

ShadowNext(i) ==
    shadow' = IF dispatched(i) = Bubble THEN "no"
              ELSE IF except_e(i.ale) THEN "except"
              ELSE IF ertn_e THEN "ertn" ELSE "no"

RetiredNext == retired' = IF op_e = Bubble THEN retired
                          ELSE [pc |-> pc_e, op |-> op_e]

\* One clock edge with the inputs i.
Tick(i) ==
    /\ FdpNext(FdpWires(i), i.inst, i.target, eentry, era)
    /\ EclNext(dispatched(i), csr_d, CsrRdata(csr_d), i.ale, i.wdata, i.data_ok)
    /\ CsrNext(csr_wen_m, csr_m, csr_wdata_m, except_e(i.ale), ertn_e, pc_e)
    /\ MemNext(data_req_e(i.ale), i.owed_ok, i.data_ok)
    /\ ShadowNext(i)
    /\ RetiredNext

Next == \E i \in Inputs : Tick(i)

Spec == Init /\ [][Next]_vars

(* Fairness.  The clock runs.  The instruction cache keeps answering: an   *)
(* instruction the front end could accept in every cycle from some point   *)
(* on is accepted.  The data cache answers every request it has taken as a *)
(* load or a store (TakenAnswered of module DataSide).                     *)
Deliver == \E i \in Inputs : fdp_dec_valid(FdpWires(i)) /\ Tick(i)
Answer  == \E i \in Inputs : i.data_ok /\ Tick(i)

FairSpec == Spec /\ WF_vars(Next) /\ WF_vars(Deliver) /\ WF_vars(Answer)

----------------------------------------------------------------------------
(* Properties.                                                             *)

(***************************************************************************)
(* The selects of the two multiplexers that form pc_bf are one-cold in     *)
(* every cycle and under every input, so the next fetch address is         *)
(* defined, but for two cases: an ertn whose successor makes the front end *)
(* stall, and an illegal instruction that is also a branch (lines 204 to   *)
(* 223 of cpu7_ifu_fdp.v; the first multiplexer is left without a select   *)
(* exactly when the second does not use it).                               *)
(***************************************************************************)
PcSelectsDefined ==
    \A i \in Inputs :
        LET w == FdpWires(i)
        IN  \/ w.ertn /\ w.stall
            \/ w.except /\ w.br_taken
            \/ /\ OneCold(PcbfMux2Sel(w))
               /\ PcbfMux1Sel(w) = {} \/ OneCold(PcbfMux1Sel(w))

(***************************************************************************)
(* The units never deliver two results in one cycle: an access ends with   *)
(* no other result in _m, so rd_data_mux is one-cold and the value bypassed *)
(* and written back is that of one instruction.  cacop is the exception: it *)
(* claims the CSR input in _m whenever its access ends there (lines 971 to  *)
(* 990 of cpu7_exu_ecl.v).                                                 *)
(***************************************************************************)
ResultSelectOneCold ==
    \A i \in Inputs : op_m \notin CACHE_RELATED => OneCold(RdDataSel(i.data_ok))

(***************************************************************************)
(* Memory accesses are blocking: from the cycle a request leaves _e until  *)
(* it is answered, and for ever if it never is, the LSU holds its stall    *)
(* request and nothing is in decode or behind it, so no second request can *)
(* reach the data cache and no instruction runs with the load's result     *)
(* outstanding (lines 1019 to 1029 of cpu7_exu_ecl.v).                     *)
(***************************************************************************)
BlockingAccess ==
    /\ op_e \in LSU_RELATED => ~valid_d /\ lsu_stall_req /\ pending = 0
    /\ pending > 0 => pending = 1
    /\ pending > 0 \/ lost => lsu_stall_req /\ ~valid_d /\ op_e = Bubble

(***************************************************************************)
(* The CSRs as the instruction in _e must see them: what it finds in the   *)
(* registers, with the write of an older csrwr still in _m.                *)
(***************************************************************************)
ArchCsr(a) ==
    IF csr_wen_m /\ csr_m = a /\ a # "none"
    THEN IF a = "bsec" THEN IF csr_wdata_m % 2 = 1 THEN 1 ELSE bsec
         ELSE csr_wdata_m
    ELSE CsrRdata(a)

(***************************************************************************)
(* There is no bypass of CSR values (lines 661 to 689 of cpu7_exu_ecl.v):  *)
(* csrrd and csrwr read the register in _d, two stages before a csrwr      *)
(* writes it in _m.  The CSR stall request makes the read value current    *)
(* nevertheless, except in the shadow of a trap or an ertn.                *)
(***************************************************************************)
CsrReadCurrent ==
    op_e \in CSR_RELATED /\ shadow = "no" => csr_rdata_e = ArchCsr(csr_e)

(***************************************************************************)
(* CRMD has one writer at a time: the csrwr in _m never meets a trap or an *)
(* ertn in _e, which would leave its multiplexer undefined (lines 58 to 69 *)
(* of cpu7_csr.v).                                                         *)
(***************************************************************************)
CrmdOneWriter ==
    \A i \in Inputs :
        LET sel == CrmdSel(csr_wen_m /\ csr_m = "crmd", except_e(i.ale), ertn_e)
        IN  sel = {} \/ OneCold(sel)

(***************************************************************************)
(* What ties the two stall requests to the decode stage, and (in DataPort) *)
(* to the later stages and the access in flight: the invariant the safety  *)
(* properties above follow from by induction.                              *)
(***************************************************************************)
StallHoldsDecode == lsu_stall_req \/ csr_stall_req => ~valid_d

ControlInv ==
    StallHoldsDecode /\ CsrStallTracksWrite /\ LsuStallTracksAccess

----------------------------------------------------------------------------
(* The core implements the machine of InOrder.  An instruction executes    *)
(* there when it leaves _e here.                                           *)

absSlot == IF op_e # Bubble /\ shadow # "no" THEN pc_e ELSE NWords
absNpc  == IF op_e # Bubble /\ shadow = "no" THEN pc_e
           ELSE IF valid_d THEN pc_d ELSE pc_f

Abs == INSTANCE InOrder WITH
           npc  <- absNpc,
           slot <- absSlot,
           csrs <- [a \in AllCsrs \ {"none"} |-> ArchCsr(a)],
           last <- retired

(***************************************************************************)
(* The program counters in flight are consecutive, which is what makes the *)
(* oldest of them the next instruction to execute.                         *)
(***************************************************************************)
PcsConsecutive ==
    /\ valid_d => op_d \in Ops /\ pc_f = Inc(pc_d)
    /\ op_e # Bubble /\ shadow = "no" =>
          Inc(pc_e) = IF valid_d THEN pc_d ELSE pc_f
    /\ shadow # "no" => op_e # Bubble /\ ~valid_d

(***************************************************************************)
(* Whatever the timing of the caches and the interleaving of stalls, kills *)
(* and redirections, every instruction executes exactly once, in program   *)
(* order, at its own address, and sees the control registers its           *)
(* predecessors left.                                                      *)
(***************************************************************************)
InOrderSpec == Abs!Spec

(***************************************************************************)
(* The core stops for one reason only, a request the data cache will never *)
(* answer: every other stall request is eventually dropped, so             *)
(* instructions keep reaching _e.  A misaligned access must end without    *)
(* the data cache, which never hears of it (lines 292 to 294 of            *)
(* cpu7_lsu.v).  That the cache does leave requests without an answer is   *)
(* what StallEnds of module DataSide is violated by.                       *)
(***************************************************************************)
KeepsExecuting == []<>(op_e # Bubble \/ lost)

----------------------------------------------------------------------------
(* What Operands assumes of the front end.                                 *)

Iss == INSTANCE Issue WITH csr_e <- "none", csr_rdata_e <- 0,
                           csr_m <- "none", csr_wdata_m <- 0

(***************************************************************************)
(* While a stall request is registered nothing is dispatched: a request    *)
(* raised in _d reaches the fetch datapath in the same cycle, so the word  *)
(* it would deliver is held, and it is dropped combinationally too, without*)
(* letting a word through early (lines 1043 to 1046 of cpu7_exu_ecl.v and  *)
(* 85 to 89 of cpu7_ifu_fdp.v).                                            *)
(***************************************************************************)
DispatchHeld == Iss!IssueSpec

----------------------------------------------------------------------------
(* Claims of the repository that the code does not keep.                   *)

(***************************************************************************)
(* The assertion "0in one_cold" of dp_mux3ds (swrvr_dlib.v:235) on         *)
(* pcbf_mux_2: one of its three selects is low in every cycle.             *)
(***************************************************************************)
PcMuxAssertion == \A i \in Inputs : OneCold(PcbfMux2Sel(FdpWires(i)))

(***************************************************************************)
(* cpu7_csr.v:9, "exception happened at _e has a higher priority, becasue  *)
(* it is from the elderly instruction": the instruction behind one that    *)
(* traps does not trap in its turn, overwriting ERA and PRMD before the    *)
(* handler has run.                                                        *)
(***************************************************************************)
ElderTrapWins == shadow = "except" => \A i \in Inputs : ~except_e(i.ale)
=============================================================================
