------------------------- MODULE PipelineRefinement -------------------------
(***************************************************************************)
(* The control of the core implements the machine of InOrder: initial      *)
(* states map to initial states, and a clock edge maps to the execution of *)
(* the instruction in _e, or to a stutter when there is none.  And it      *)
(* implements the front end of Issue, which Operands rests on.             *)
(***************************************************************************)
EXTENDS Pipeline_proofs

(***************************************************************************)
(* What a clock edge does to the fetch address when no instruction in _e   *)
(* redirects it, and when one does.                                        *)
(***************************************************************************)
LEMMA PcStep ==
    ASSUME TypeOK, ControlInv, NEW i \in Inputs, Tick(i)
    PROVE  LET w == FdpWires(i)
           IN  /\ ~w.except /\ ~w.ertn /\ ~w.br_taken =>
                    IF valid_d' THEN pc_d' = pc_f /\ op_d' \in Ops
                                     /\ pc_f' = Inc(pc_f)
                    ELSE pc_f' = pc_f
               /\ w.except \/ w.ertn \/ w.br_taken => ~valid_d'
               /\ w.except /\ ~w.br_taken => pc_f' = eentry
               /\ w.ertn /\ ~w.stall => pc_f' = era
               /\ w.br_taken /\ ~w.except => pc_f' = i.target
<1> DEFINE w == FdpWires(i)
<1> DEFINE in1 == [old |-> pc_f, pcinc |-> Inc(pc_f), brpc |-> i.target]
<1> DEFINE in2(m) == [mux1 |-> m, excpc |-> eentry, ertnpc |-> era]
<1> DEFINE mux1 == DpMux(PcbfMux1Sel(w), in1, Word)
<1> DEFINE mux2(m) == DpMux(PcbfMux2Sel(w), in2(m), Word)
<1>1. pc_f' \in UNION {mux2(m) : m \in mux1}
  BY DEF Tick, FdpNext, PcBf
<1>2. /\ valid_d' <=> w.inst_valid /\ ~w.stall /\ ~w.br_taken /\ ~w.except
                      /\ ~w.ertn
      /\ valid_d' => pc_d' = pc_f /\ op_d' = i.inst.op
  BY DEF Tick, FdpNext, fdp_dec_valid
<1>3. w.inst_valid => i.inst.op \in Ops
  <2>1. w.inst_valid => i.inst \in Insts
    BY InputFacts DEF FdpWires
  <2> QED
    BY <2>1 DEF Insts
<1>4. /\ ~(w.br_taken /\ w.ertn) /\ ~(w.except /\ w.ertn)
      /\ w.br_taken => ~w.stall
  <2>1. ~(w.br_taken /\ w.ertn) /\ ~(w.except /\ w.ertn)
    BY DEF FdpWires, br_taken_e, ertn_e, except_e, lsu_ale_e, illinst_e,
           BRU_RELATED, ERET, LSU_RELATED, INE
  <2>2. w.br_taken => ~w.stall
    BY BranchNotStalled
  <2> QED
    BY <2>1, <2>2
<1>5. ASSUME ~w.except, ~w.ertn, ~w.br_taken
      PROVE  IF valid_d' THEN pc_f' = Inc(pc_f) ELSE pc_f' = pc_f
  <2>1. PcbfMux2Sel(w) = {"mux1"}
    BY <1>5 DEF PcbfMux1Sel, PcbfMux2Sel
  <2>2. \A m \in mux1 : mux2(m) = {m}
    BY <2>1 DEF DpMux, OneCold
  <2>3. CASE valid_d'
    <3>1. PcbfMux1Sel(w) = {"pcinc"}
      BY <1>2, <1>5, <2>3 DEF PcbfMux1Sel
    <3>2. mux1 = {Inc(pc_f)}
      BY <3>1 DEF DpMux, OneCold
    <3> QED
      BY <1>1, <2>2, <2>3, <3>2
  <2>4. CASE ~valid_d'
    <3>1. PcbfMux1Sel(w) = {"old"}
      BY <1>2, <1>5, <2>4 DEF PcbfMux1Sel
    <3>2. mux1 = {pc_f}
      BY <3>1 DEF DpMux, OneCold
    <3> QED
      BY <1>1, <2>2, <2>4, <3>2
  <2> QED
    BY <2>3, <2>4
<1>6. ASSUME w.except, ~w.br_taken PROVE pc_f' = eentry
  <2>1. PcbfMux1Sel(w) = {}
    BY <1>4, <1>6 DEF PcbfMux1Sel
  <2>2. PcbfMux2Sel(w) = {"excpc"}
    BY <1>4, <1>6, <2>1 DEF PcbfMux2Sel
  <2>3. \A m \in mux1 : mux2(m) = {eentry}
    BY <2>2 DEF DpMux, OneCold
  <2>4. PICK m \in mux1 : pc_f' \in mux2(m)
    BY <1>1
  <2> HIDE DEF mux1, mux2
  <2> QED
    BY <2>3, <2>4
<1>7. ASSUME w.ertn, ~w.stall PROVE pc_f' = era
  <2>1. PcbfMux1Sel(w) = {}
    BY <1>4, <1>7 DEF PcbfMux1Sel
  <2>2. PcbfMux2Sel(w) = {"ertnpc"}
    BY <1>4, <1>7, <2>1 DEF PcbfMux2Sel
  <2>3. \A m \in mux1 : mux2(m) = {era}
    BY <2>2 DEF DpMux, OneCold
  <2>4. PICK m \in mux1 : pc_f' \in mux2(m)
    BY <1>1
  <2> HIDE DEF mux1, mux2
  <2> QED
    BY <2>3, <2>4
<1>8. ASSUME w.br_taken, ~w.except PROVE pc_f' = i.target
  <2>1. PcbfMux1Sel(w) = {"brpc"}
    BY <1>4, <1>8 DEF PcbfMux1Sel
  <2>2. PcbfMux2Sel(w) = {"mux1"}
    BY <1>4, <1>8, <2>1 DEF PcbfMux2Sel
  <2>3. mux1 = {i.target} /\ \A m \in mux1 : mux2(m) = {m}
    BY <2>1, <2>2 DEF DpMux, OneCold
  <2> QED
    BY <1>1, <2>3
<1> QED
  BY <1>2, <1>3, <1>5, <1>6, <1>7, <1>8

(***************************************************************************)
(* The program counters in flight are consecutive.                         *)
(***************************************************************************)
LEMMA PcsStep ==
    TypeOK /\ ControlInv /\ PcsConsecutive /\ [Next]_vars => PcsConsecutive'
<1> SUFFICES ASSUME TypeOK, ControlInv, PcsConsecutive, [Next]_vars
             PROVE  PcsConsecutive'
  OBVIOUS
<1>1. CASE UNCHANGED vars
  BY <1>1 DEF vars, fdpVars, eclVars, PcsConsecutive, Inc
<1>2. ASSUME NEW i \in Inputs, Tick(i) PROVE PcsConsecutive'
  <2> DEFINE w == FdpWires(i)
  <2>0. /\ w.except <=> except_e(i.ale)
        /\ w.ertn <=> ertn_e
        /\ w.br_taken <=> br_taken_e(i.taken)
    BY DEF FdpWires
  <2>1. w.except \/ w.ertn \/ w.br_taken => ~valid_d'
    BY <1>2, PcStep
  <2>2. valid_d' => op_d' \in Ops /\ pc_d' = pc_f /\ pc_f' = Inc(pc_f)
    BY <1>2, <2>1, PcStep
  <2>3. op_e' = dispatched(i) /\ pc_e' = pc_d
    BY <1>2 DEF Tick, FdpNext, EclNext
  <2>4. dispatched(i) # Bubble => valid_d /\ ~w.br_taken
    BY <2>0 DEF dispatched, dispatch_d, inst_vld_d
  <2>5. shadow' # "no" => dispatched(i) # Bubble /\ (w.except \/ w.ertn)
    BY <1>2, <2>0 DEF Tick, ShadowNext
  <2>6. dispatched(i) # Bubble /\ shadow' = "no" => ~w.except /\ ~w.ertn
    BY <1>2, <2>0 DEF Tick, ShadowNext
  <2>7. ASSUME op_e' # Bubble, shadow' = "no"
        PROVE  Inc(pc_e') = IF valid_d' THEN pc_d' ELSE pc_f'
    <3>1. ~w.except /\ ~w.ertn /\ ~w.br_taken /\ valid_d
      BY <2>3, <2>4, <2>6, <2>7
    <3>2. pc_f = Inc(pc_e')
      BY <2>3, <3>1 DEF PcsConsecutive
    <3>3. IF valid_d' THEN pc_d' = pc_f ELSE pc_f' = pc_f
      BY <1>2, <3>1, PcStep
    <3> QED
      BY <3>2, <3>3
  <2>8. Inc(pc_d)' = Inc(pc_d') /\ Inc(pc_e)' = Inc(pc_e')
    BY DEF Inc
  <2> QED
    BY <2>1, <2>2, <2>3, <2>5, <2>7, <2>8 DEF PcsConsecutive
<1> QED
  BY <1>1, <1>2 DEF Next

(***************************************************************************)
(* The instructions in _f, _d and _e have consecutive addresses: an        *)
(* answer of the instruction cache is neither lost nor handed on twice.    *)
(***************************************************************************)
THEOREM PcsAreConsecutive == Spec => []PcsConsecutive
<1>1. Init => PcsConsecutive
  BY DEF Init, FdpInit, EclInit, PcsConsecutive
<1> QED
  BY <1>1, PcsStep, TypeCorrect, ControlCorrect, PTL DEF Spec

----------------------------------------------------------------------------
(***************************************************************************)
(* The control registers as the next instruction sees them, across a clock *)
(* edge: what the instruction in _e does to them, and nothing else.        *)
(***************************************************************************)
LEMMA ArchCsrStep ==
    ASSUME TypeOK, ControlInv, NEW i \in Inputs, Tick(i), NEW a \in AllCsrs
    PROVE  /\ op_e # Bubble => ArchCsr(a) = CsrRdata(a)
           /\ ~except_e(i.ale) /\ ~ertn_e /\ op_e \notin CSR_WRITE =>
                ArchCsr(a)' = ArchCsr(a)
           /\ except_e(i.ale) => ArchCsr(a)' = CASE a = "crmd" -> 0
                                                 [] a = "prmd" -> crmd
                                                 [] a = "era"  -> pc_e
                                                 [] OTHER      -> CsrRdata(a)
           /\ ertn_e => ArchCsr(a)' = IF a = "crmd" THEN prmd ELSE CsrRdata(a)
           /\ op_e \in CSR_WRITE =>
                ArchCsr(a)' = IF a = csr_e /\ a # "none"
                              THEN IF a = "bsec"
                                   THEN IF i.wdata % 2 = 1 THEN 1 ELSE bsec
                                   ELSE i.wdata
                              ELSE CsrRdata(a)
<1>1. op_m' = op_e /\ csr_m' = csr_e /\ csr_wdata_m' = i.wdata
  BY DEF Tick, EclNext
<1>2. op_e # Bubble => ~csr_wen_m
  BY DEF ControlInv, CsrStallTracksWrite, csr_wen_m
<1>3. except_e(i.ale) \/ ertn_e => op_e # Bubble /\ op_e \notin CSR_WRITE
  BY DEF except_e, lsu_ale_e, illinst_e, ertn_e, LSU_RELATED, INE, ERET,
         CSR_WRITE, Bubble
<1>4. op_e \in CSR_WRITE => op_e # Bubble /\ ~except_e(i.ale) /\ ~ertn_e
  BY DEF except_e, lsu_ale_e, illinst_e, ertn_e, LSU_RELATED, INE, ERET,
         CSR_WRITE, Bubble
<1>5. ~(except_e(i.ale) /\ ertn_e)
  BY DEF except_e, lsu_ale_e, illinst_e, ertn_e, LSU_RELATED, INE, ERET
<1>6. csr_wen_m' <=> op_e \in CSR_WRITE
  BY <1>1 DEF csr_wen_m
<1>7. op_e # Bubble => ArchCsr(a) = CsrRdata(a)
  BY <1>2 DEF ArchCsr
<1>8. ASSUME op_e \notin CSR_WRITE PROVE ArchCsr(a)' = CsrRdata(a)'
  BY <1>6, <1>8 DEF ArchCsr
<1>9. ASSUME ~except_e(i.ale), ~ertn_e, op_e \notin CSR_WRITE
      PROVE  ArchCsr(a)' = ArchCsr(a)
  <2>1. CASE csr_wen_m
    <3>1. CsrRdata(a)' = ArchCsr(a)
      BY <2>1, CsrStep DEF ArchCsr, CsrRdata, AllCsrs
    <3> QED
      BY <1>8, <1>9, <3>1
  <2>2. CASE ~csr_wen_m
    <3>1. CsrRdata(a)' = CsrRdata(a)
      BY <1>9, <2>2, CsrStep DEF csrVars, CsrRdata
    <3> QED
      BY <1>8, <1>9, <2>2, <3>1 DEF ArchCsr
  <2> QED
    BY <2>1, <2>2
<1>10. ASSUME except_e(i.ale)
       PROVE  CsrRdata(a)' = CASE a = "crmd" -> 0 [] a = "prmd" -> crmd
                               [] a = "era" -> pc_e [] OTHER -> CsrRdata(a)
  BY <1>10, CsrStep DEF CsrRdata, AllCsrs
<1>11. ASSUME ertn_e
       PROVE  CsrRdata(a)' = IF a = "crmd" THEN prmd ELSE CsrRdata(a)
  BY <1>11, CsrStep DEF CsrRdata, AllCsrs
<1>12. ASSUME op_e \in CSR_WRITE
       PROVE  ArchCsr(a)' = IF a = csr_e /\ a # "none"
                            THEN IF a = "bsec"
                                 THEN IF i.wdata % 2 = 1 THEN 1 ELSE bsec
                                 ELSE i.wdata
                            ELSE CsrRdata(a)
  <2>1. UNCHANGED csrVars
    BY <1>2, <1>4, <1>12, CsrStep
  <2>2. CsrRdata(a)' = CsrRdata(a) /\ bsec' = bsec
    BY <2>1 DEF csrVars, CsrRdata
  <2> QED
    BY <1>1, <1>6, <1>12, <2>2 DEF ArchCsr
<1> QED
  BY <1>3, <1>7, <1>8, <1>9, <1>10, <1>11, <1>12

(***************************************************************************)
(* Where execution stands, across a clock edge: `next' is the address of   *)
(* the oldest instruction that has not reached _e.                         *)
(***************************************************************************)
LEMMA AbsPcStep ==
    ASSUME TypeOK, ControlInv, PcsConsecutive, NEW i \in Inputs, Tick(i)
    PROVE  LET w == FdpWires(i)
               next == IF valid_d THEN pc_d ELSE pc_f
           IN  /\ ~w.except /\ ~w.ertn /\ ~w.br_taken =>
                    absNpc' = next /\ absSlot' = NWords
               /\ w.br_taken => absNpc' = pc_f' /\ absSlot' = NWords
               /\ (w.except \/ w.ertn) /\ ~w.br_taken =>
                    /\ absNpc' = pc_f'
                    /\ absSlot' = IF valid_d THEN pc_d ELSE NWords
<1> DEFINE w == FdpWires(i)
<1>1. /\ w.except <=> except_e(i.ale)
      /\ w.ertn <=> ertn_e
      /\ w.br_taken <=> br_taken_e(i.taken)
  BY DEF FdpWires
<1>2. op_e' = dispatched(i) /\ pc_e' = pc_d
  BY DEF Tick, FdpNext, EclNext
<1>3. dispatched(i) = IF valid_d /\ ~w.br_taken THEN op_d ELSE Bubble
  BY <1>1 DEF dispatched, dispatch_d, inst_vld_d
<1>4. valid_d => op_d # Bubble
  BY OpsAssumption DEF PcsConsecutive, AllOps, Bubble
<1>5. w.except \/ w.ertn \/ w.br_taken => ~valid_d'
  BY PcStep
<1>6. ASSUME ~w.except, ~w.ertn, ~w.br_taken
      PROVE  absNpc' = (IF valid_d THEN pc_d ELSE pc_f) /\ absSlot' = NWords
  <2>1. shadow' = "no"
    BY <1>1, <1>6 DEF Tick, ShadowNext
  <2>2. IF valid_d' THEN pc_d' = pc_f ELSE pc_f' = pc_f
    BY <1>6, PcStep
  <2> QED
    BY <1>2, <1>3, <1>4, <1>6, <2>1, <2>2 DEF absNpc, absSlot
<1>7. ASSUME w.br_taken PROVE absNpc' = pc_f' /\ absSlot' = NWords
  BY <1>2, <1>3, <1>5, <1>7 DEF absNpc, absSlot
<1>8. ASSUME w.except \/ w.ertn, ~w.br_taken
      PROVE  /\ absNpc' = pc_f'
             /\ absSlot' = IF valid_d THEN pc_d ELSE NWords
  <2>1. dispatched(i) # Bubble => shadow' # "no"
    BY <1>1, <1>8 DEF Tick, ShadowNext
  <2> QED
    BY <1>2, <1>3, <1>4, <1>5, <1>8, <2>1 DEF absNpc, absSlot
<1> QED
  BY <1>6, <1>7, <1>8

(***************************************************************************)
(* The instruction the abstract machine executes is the one in _e, and its *)
(* successor the next one of the pipeline.                                 *)
(***************************************************************************)
LEMMA AbsView ==
    ASSUME TypeOK, PcsConsecutive, op_e # Bubble
    PROVE  /\ Abs!cur = pc_e
           /\ Abs!fallthrough = IF valid_d THEN pc_d ELSE pc_f
           /\ valid_d => Abs!Slots = {NWords, pc_d}
           /\ NWords \in Abs!Slots
<1>1. pc_e # NWords /\ NWords \notin Word
  BY NWordsAssumption DEF TypeOK, FdpTypeOK, Word
<1>2. absSlot = NWords <=> shadow = "no"
  BY <1>1 DEF absSlot
<1>3. Abs!cur = pc_e
  BY <1>2 DEF Abs!cur, Abs!NoSlot, absSlot, absNpc
<1>4. Abs!fallthrough = IF valid_d THEN pc_d ELSE pc_f
  <2>1. CASE shadow = "no"
    BY <1>2, <2>1 DEF Abs!fallthrough, Abs!NoSlot, Abs!Inc, absNpc, Inc,
                      PcsConsecutive
  <2>2. CASE shadow # "no"
    BY <1>2, <2>2 DEF Abs!fallthrough, Abs!NoSlot, absNpc, PcsConsecutive
  <2> QED
    BY <2>1, <2>2
<1>5. valid_d => Abs!Slots = {NWords, pc_d}
  <2> SUFFICES ASSUME valid_d PROVE Abs!Slots = {NWords, pc_d}
    OBVIOUS
  <2>1. shadow = "no"
    BY DEF PcsConsecutive
  <2>2. absNpc = pc_e /\ Inc(pc_e) = pc_d
    BY <2>1 DEF absNpc, PcsConsecutive
  <2> QED
    BY <1>2, <2>1, <2>2 DEF Abs!Slots, Abs!NoSlot, Abs!Inc, Inc
<1>6. NWords \in Abs!Slots
  BY DEF Abs!Slots, Abs!NoSlot
<1> QED
  BY <1>3, <1>4, <1>5, <1>6

(***************************************************************************)
(* A clock edge with an instruction in _e executes that instruction.       *)
(***************************************************************************)
LEMMA ExecuteStep ==
    ASSUME TypeOK, TypeOK', ControlInv, PcsConsecutive, NEW i \in Inputs, Tick(i),
           op_e # Bubble
    PROVE  Abs!Next
<1> DEFINE w == FdpWires(i)
<1> DEFINE csrs == [a \in AllCsrs \ {"none"} |-> ArchCsr(a)]
<1>1. /\ w.except <=> (op_e \in LSU_RELATED /\ i.ale) \/ op_e \in INE
      /\ w.ertn <=> op_e \in ERET
      /\ w.br_taken <=> op_e \in BRU_RELATED /\ i.taken
  BY DEF FdpWires, except_e, lsu_ale_e, illinst_e, ertn_e, br_taken_e
<1>2. op_e \in Ops /\ op_e \in AllOps
  BY OpsAssumption DEF TypeOK, EclTypeOK
<1>3. Abs!Execute(op_e)
  <2>1. retired' = [pc |-> pc_e, op |-> op_e]
    BY DEF Tick, RetiredNext
  <2> QED
    BY <2>1, AbsView DEF Abs!Execute
<1>4. pc_f' \in Word /\ i.target \in Word /\ i.wdata \in Word
  BY InputFacts DEF TypeOK, FdpTypeOK
<1>5. except_e(i.ale) <=> w.except
  BY DEF FdpWires
<1>6. ertn_e <=> w.ertn
  BY DEF FdpWires
<1>7. \A a \in AllCsrs : ArchCsr(a) = CsrRdata(a)
  BY ArchCsrStep
<1>8. /\ csrs["eentry"] = eentry /\ csrs["era"] = era /\ csrs["crmd"] = crmd
      /\ csrs["prmd"] = prmd /\ csrs["bsec"] = bsec
  BY <1>7 DEF AllCsrs, CsrRdata
<1>9. ASSUME ~w.except, ~w.ertn, op_e \notin CSR_WRITE PROVE csrs' = csrs
  BY <1>5, <1>6, <1>9, ArchCsrStep
<1>10. ASSUME w.except PROVE csrs' = Abs!Trapped
  <2>1. \A a \in AllCsrs \ {"none"} :
          ArchCsr(a)' = CASE a = "crmd" -> 0 [] a = "prmd" -> crmd
                          [] a = "era" -> pc_e [] OTHER -> csrs[a]
    BY <1>5, <1>7, <1>10, ArchCsrStep
  <2>2. Abs!cur = pc_e
    BY AbsView
  <2> QED
    BY <1>8, <2>1, <2>2 DEF Abs!Trapped, AllCsrs
<1>11. ASSUME w.ertn PROVE csrs' = Abs!Returned
  <2>1. \A a \in AllCsrs \ {"none"} :
          ArchCsr(a)' = IF a = "crmd" THEN prmd ELSE csrs[a]
    BY <1>6, <1>7, <1>11, ArchCsrStep
  <2> QED
    BY <1>8, <2>1 DEF Abs!Returned, AllCsrs
<1>12. ASSUME op_e \in CSR_WRITE PROVE csrs' = Abs!Written(csr_e, i.wdata)
  <2>1. \A a \in AllCsrs \ {"none"} :
          ArchCsr(a)' = IF a = csr_e
                        THEN IF a = "bsec" THEN IF i.wdata % 2 = 1 THEN 1 ELSE csrs[a]
                             ELSE i.wdata
                        ELSE csrs[a]
    BY <1>7, <1>8, <1>12, ArchCsrStep
  <2>2. csr_e \in AllCsrs
    BY DEF TypeOK, EclTypeOK
  <2> QED
    BY <2>1, <2>2 DEF Abs!Written, Abs!Regs, Abs!AllCsrs, AllCsrs
<1>13. ASSUME ~w.except, ~w.ertn, ~w.br_taken
       PROVE  absNpc' = Abs!fallthrough /\ absSlot' = Abs!NoSlot
  BY <1>13, AbsPcStep, AbsView DEF Abs!NoSlot
<1>14. CASE ~w.except /\ op_e \in {"alu", "mul", "csrrd"} \cup LSU_RELATED
  <2>1. ~w.except /\ ~w.ertn /\ ~w.br_taken
    BY <1>1, <1>14 DEF LSU_RELATED, INE, ERET, BRU_RELATED
  <2>2. op_e \notin BRU_RELATED \cup CSR_WRITE \cup ERET \cup INE
    BY <1>1, <1>14 DEF LSU_RELATED, INE, ERET, BRU_RELATED, CSR_WRITE
  <2>3. Abs!Plain(op_e)
    BY <1>3, <1>9, <1>13, <2>1, <2>2
       DEF Abs!Plain, Abs!BRU_RELATED, Abs!CSR_WRITE, Abs!ERET, Abs!INE,
           BRU_RELATED, CSR_WRITE, ERET, INE
  <2> QED
    BY <1>2, <2>3 DEF Abs!Next
<1>15. CASE op_e \in BRU_RELATED \ INE /\ ~w.br_taken
  <2>1. op_e = "bcond"
    <3>1. op_e # "bcond" => i.taken
      BY DEF Inputs
    <3> QED
      BY <1>1, <1>15, <3>1 DEF BRU_RELATED, INE
  <2>2. ~w.except /\ ~w.ertn /\ op_e \notin CSR_WRITE
    BY <1>1, <2>1 DEF LSU_RELATED, INE, ERET, CSR_WRITE
  <2>3. Abs!NotTaken(op_e)
    BY <1>3, <1>9, <1>13, <1>15, <2>1, <2>2 DEF Abs!NotTaken
  <2> QED
    BY <1>2, <2>3 DEF Abs!Next
<1>16. CASE op_e \in BRU_RELATED \ INE /\ w.br_taken
  <2>1. ~w.except /\ ~w.ertn /\ op_e \notin CSR_WRITE
    BY <1>1, <1>16 DEF LSU_RELATED, INE, ERET, CSR_WRITE, BRU_RELATED
  <2>2. absNpc' = i.target /\ absSlot' = Abs!NoSlot
    BY <1>16, <2>1, AbsPcStep, PcStep DEF Abs!NoSlot
  <2>3. Abs!Jump(op_e, i.target)
    BY <1>3, <1>9, <1>16, <2>1, <2>2
       DEF Abs!Jump, Abs!BRU_RELATED, Abs!INE, BRU_RELATED, INE
  <2> QED
    BY <1>2, <1>4, <2>3 DEF Abs!Next, Abs!Word, Word
<1>17. CASE op_e \in CSR_WRITE
  <2>1. ~w.except /\ ~w.ertn /\ ~w.br_taken
    BY <1>1, <1>17 DEF LSU_RELATED, INE, ERET, CSR_WRITE, BRU_RELATED
  <2>2. Abs!WriteCsr(op_e, csr_e, i.wdata)
    BY <1>3, <1>12, <1>13, <1>17, <2>1
       DEF Abs!WriteCsr, Abs!CSR_WRITE, CSR_WRITE
  <2>3. csr_e \in Abs!AllCsrs
    BY DEF TypeOK, EclTypeOK, Abs!AllCsrs, AllCsrs
  <2> QED
    BY <1>2, <1>4, <2>2, <2>3 DEF Abs!Next, Abs!Word, Word
<1>18. CASE op_e \in LSU_RELATED /\ w.except
  <2>1. ~w.br_taken /\ ~w.ertn
    BY <1>1, <1>18 DEF LSU_RELATED, BRU_RELATED, ERET
  <2>2. ~valid_d
    BY <1>18 DEF ControlInv, StallHoldsDecode, LsuStallTracksAccess
  <2>3. absNpc' = csrs["eentry"] /\ absSlot' = Abs!NoSlot
    BY <1>8, <1>18, <2>1, <2>2, AbsPcStep, PcStep DEF Abs!NoSlot
  <2>4. Abs!Misaligned(op_e)
    BY <1>3, <1>10, <1>18, <2>3
       DEF Abs!Misaligned, Abs!LSU_RELATED, LSU_RELATED
  <2> QED
    BY <1>2, <2>4 DEF Abs!Next
<1>19. CASE op_e = "ine"
  <2>1. w.except /\ ~w.br_taken /\ ~w.ertn
    BY <1>1, <1>19 DEF INE, BRU_RELATED, ERET
  <2>2. absNpc' = csrs["eentry"]
    BY <1>8, <2>1, AbsPcStep, PcStep
  <2>3. absSlot' \in Abs!Slots
    BY <2>1, AbsPcStep, AbsView
  <2>4. Abs!Illegal(op_e)
    BY <1>3, <1>10, <1>19, <2>1, <2>2, <2>3
       DEF Abs!Illegal, Abs!INE, Abs!BRU_RELATED, Abs!LSU_RELATED
  <2> QED
    BY <1>2, <2>4 DEF Abs!Next
<1>20. CASE op_e = "inebru"
  <2>1. w.except /\ w.br_taken
    <3>1. i.taken
      BY <1>20 DEF Inputs
    <3> QED
      BY <1>1, <1>20, <3>1 DEF INE, BRU_RELATED
  <2>2. absNpc' = pc_f' /\ absSlot' = Abs!NoSlot
    BY <2>1, AbsPcStep DEF Abs!NoSlot
  <2>3. Abs!IllegalBranch(op_e, pc_f')
    BY <1>3, <1>10, <1>20, <2>1, <2>2
       DEF Abs!IllegalBranch, Abs!INE, Abs!BRU_RELATED
  <2> QED
    BY <1>2, <1>4, <2>3 DEF Abs!Next, Abs!Word, Word
<1>21. CASE op_e \in ERET
  <2>1. w.ertn /\ ~w.except /\ ~w.br_taken
    BY <1>1, <1>21 DEF INE, BRU_RELATED, ERET, LSU_RELATED
  <2>2. absNpc' = pc_f' /\ absSlot' = IF valid_d THEN pc_d ELSE NWords
    BY <2>1, AbsPcStep
  <2>3. absSlot' \in Abs!Slots
    BY <2>2, AbsView
  <2>4. CASE ~w.stall
    <3>1. absNpc' = csrs["era"]
      BY <1>8, <2>1, <2>2, <2>4, PcStep
    <3>2. Abs!Return(op_e)
      BY <1>3, <1>11, <1>21, <2>1, <2>3, <3>1 DEF Abs!Return, Abs!ERET, ERET
    <3> QED
      BY <1>2, <3>2 DEF Abs!Next
  <2>5. CASE w.stall
    <3>1. valid_d
      <4>1. ~lsu_stall_req /\ ~csr_stall_req
        BY <1>21 DEF ControlInv, CsrStallTracksWrite, LsuStallTracksAccess,
                     ERET, LSU_RELATED, CSR_WRITE, Bubble
      <4>2. dispatched(i) \in LSU_RELATED \cup CSR_WRITE
        BY <2>5, <4>1 DEF FdpWires, exu_ifu_stall_req, lsu_stall_req_next,
              csr_stall_req_next, lsu_dispatch_d, csr_wen_d
      <4> QED
        BY <4>2, DispatchFacts DEF LSU_RELATED, CSR_WRITE, Bubble
    <3>2. pc_d \in Word /\ NWords \notin Word
      BY NWordsAssumption DEF TypeOK, FdpTypeOK, Word
    <3>3. absSlot' \in Abs!Slots \ {Abs!NoSlot}
      BY <2>2, <2>3, <3>1, <3>2 DEF Abs!NoSlot
    <3>4. Abs!ReturnUndefined(op_e, pc_f')
      BY <1>3, <1>11, <1>21, <2>1, <2>2, <3>3
         DEF Abs!ReturnUndefined, Abs!ERET, ERET
    <3> QED
      BY <1>2, <1>4, <3>4 DEF Abs!Next, Abs!Word, Word
  <2> QED
    BY <2>4, <2>5
<1>22. \/ ~w.except /\ op_e \in {"alu", "mul", "csrrd"}
       \/ op_e \in LSU_RELATED
       \/ op_e \in BRU_RELATED \ INE \/ op_e \in CSR_WRITE
       \/ op_e = "ine" \/ op_e = "inebru" \/ op_e \in ERET
  BY <1>1, <1>2 DEF AllOps, LSU_RELATED, BRU_RELATED, INE, CSR_WRITE, ERET
<1>23. CASE op_e \in LSU_RELATED
  BY <1>14, <1>18, <1>23
<1>24. CASE op_e \in BRU_RELATED \ INE
  BY <1>15, <1>16, <1>24
<1> QED
  BY <1>14, <1>17, <1>19, <1>20, <1>21, <1>22, <1>23, <1>24

(***************************************************************************)
(* The core implements the in-order machine, for every number of words,    *)
(* every set of instruction classes and control registers, and whatever    *)
(* the caches and the program do: InOrderSpec.                             *)
(***************************************************************************)
THEOREM ImplementsInOrder == Spec => InOrderSpec
<1>1. Init => Abs!Init
  <2> SUFFICES ASSUME Init PROVE Abs!Init
    OBVIOUS
  <2>1. /\ absNpc = 0 /\ absSlot = NWords
        /\ retired = [pc |-> 0, op |-> Bubble]
    BY DEF Init, FdpInit, EclInit, absNpc, absSlot
  <2>2. \A a \in AllCsrs : ArchCsr(a) = CsrRdata(a)
    BY DEF Init, EclInit, ArchCsr, csr_wen_m, CSR_WRITE, Bubble
  <2>3. \A a \in AllCsrs \ {"none"} : ArchCsr(a) \in PowerOn \cup {0}
    BY <2>2 DEF Init, CsrInit, CsrRdata, AllCsrs
  <2>4. ArchCsr("bsec") = 0
    BY <2>2 DEF Init, CsrInit, CsrRdata, AllCsrs
  <2> QED
    BY <2>1, <2>3, <2>4 DEF Abs!Init, Abs!NoSlot, Abs!Regs, Abs!AllCsrs,
                            AllCsrs, Abs!Bubble, Bubble
<1>2. TypeOK /\ TypeOK' /\ ControlInv /\ PcsConsecutive /\ [Next]_vars
        => [Abs!Next]_(Abs!absVars)
  <2> SUFFICES ASSUME TypeOK, TypeOK', ControlInv, PcsConsecutive, [Next]_vars
               PROVE  Abs!Next \/ UNCHANGED Abs!absVars
    OBVIOUS
  <2>1. CASE UNCHANGED vars
    BY <2>1 DEF vars, fdpVars, eclVars, csrVars, Abs!absVars, absNpc, absSlot,
                ArchCsr, CsrRdata, csr_wen_m
  <2>2. ASSUME NEW i \in Inputs, Tick(i), op_e = Bubble
        PROVE  UNCHANGED Abs!absVars
    <3> DEFINE w == FdpWires(i)
    <3>1. ~w.except /\ ~w.ertn /\ ~w.br_taken /\ ~except_e(i.ale) /\ ~ertn_e
      BY <2>2 DEF FdpWires, except_e, lsu_ale_e, illinst_e, ertn_e, br_taken_e,
                  LSU_RELATED, INE, ERET, BRU_RELATED, Bubble
    <3>2. absNpc' = absNpc /\ absSlot' = absSlot
      BY <2>2, <3>1, AbsPcStep DEF absNpc, absSlot
    <3>3. \A a \in AllCsrs : ArchCsr(a)' = ArchCsr(a)
      BY <2>2, <3>1, ArchCsrStep DEF CSR_WRITE, Bubble
    <3>4. retired' = retired
      BY <2>2 DEF Tick, RetiredNext
    <3> QED
      BY <3>2, <3>3, <3>4 DEF Abs!absVars
  <2> QED
    BY <2>1, <2>2, ExecuteStep DEF Next
<1> QED
  BY <1>1, <1>2, TypeCorrect, ControlCorrect, PcsAreConsecutive, PTL
     DEF Spec, InOrderSpec, Abs!Spec
----------------------------------------------------------------------------
(***************************************************************************)
(* The front end keeps what Operands assumes of it: a clock edge of the    *)
(* core is one of Issue, so nothing is dispatched while a stall request is *)
(* registered: DispatchHeld.                                               *)
(***************************************************************************)
THEOREM FrontEndHolds == Spec => DispatchHeld
<1>1. Init => Iss!IssueInit
  BY DEF Init, EclInit, Iss!IssueInit, Iss!EclInit, Bubble, Iss!Bubble
<1>2. TypeOK /\ ControlInv /\ [Next]_vars => [Iss!IssueNext]_(Iss!issueVars)
  <2> SUFFICES ASSUME TypeOK, ControlInv, [Next]_vars
               PROVE  Iss!IssueNext \/ UNCHANGED Iss!issueVars
    OBVIOUS
  <2>1. CASE UNCHANGED vars
    BY <2>1 DEF vars, eclVars, Iss!issueVars, Iss!eclVars
  <2>2. ASSUME NEW i \in Inputs, Tick(i) PROVE Iss!IssueNext
    <3> DEFINE j == [op |-> dispatched(i), ale |-> i.ale,
                     owed_ok |-> i.owed_ok, data_ok |-> i.data_ok]
    <3>1. j \in Iss!IssueInputs
      <4>1. lsu_stall_req \/ csr_stall_req => dispatched(i) = Bubble
        BY <2>2, DispatchFacts
      <4>2. dispatched(i) \in Ops \cup {Bubble}
        BY DEF dispatched, dispatch_d, TypeOK, FdpTypeOK
      <4>3. /\ i.ale \in IF op_e \in LSU_RELATED THEN BOOLEAN ELSE {FALSE}
            /\ i.owed_ok \in IF op_e \in LSU_RELATED THEN BOOLEAN ELSE {TRUE}
            /\ i.data_ok \in IF pending > 0 THEN BOOLEAN ELSE {FALSE}
        BY DEF Inputs
      <4> QED
        BY <4>1, <4>2, <4>3 DEF Iss!IssueInputs, Iss!Bubble, Bubble,
                                Iss!LSU_RELATED, LSU_RELATED
    <3>2. Iss!EclNext(j.op, "none", 0, j.ale, 0, j.data_ok)
      BY <2>2 DEF Tick, EclNext, Iss!EclNext, lsu_ale_e, Iss!lsu_ale_e,
          lsu_stall_req_next, Iss!lsu_stall_req_next, csr_stall_req_next,
          Iss!csr_stall_req_next, lsu_dispatch_d, Iss!lsu_dispatch_d,
          csr_wen_d, Iss!csr_wen_d, csr_wen_m, Iss!csr_wen_m, lsu_finish_m,
          Iss!lsu_finish_m, LSU_RELATED, Iss!LSU_RELATED, CSR_WRITE,
          Iss!CSR_WRITE
    <3>3. Iss!MemNext(Iss!data_req_e(j.ale), j.owed_ok, j.data_ok)
      BY <2>2 DEF Tick, MemNext, Iss!MemNext, MaxPending, Iss!MaxPending,
          data_req_e, Iss!data_req_e, LSU_RELATED, Iss!LSU_RELATED
    <3> QED
      BY <3>1, <3>2, <3>3 DEF Iss!IssueNext, Iss!IssueTick
  <2> QED
    BY <2>1, <2>2 DEF Next
<1> QED
  BY <1>1, <1>2, TypeCorrect, ControlCorrect, PTL
     DEF Spec, DispatchHeld, Iss!IssueSpec
=============================================================================
