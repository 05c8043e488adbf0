--------------------------- MODULE Pipeline_proofs ---------------------------
(***************************************************************************)
(* Theorems about the control of the core, for every size of the address   *)
(* space, every mix of instructions and every set of CSRs.                 *)
(***************************************************************************)
EXTENDS Pipeline

(***************************************************************************)
(* What the environment may feed a cycle.                                  *)
(***************************************************************************)
LEMMA InputFacts ==
    ASSUME TypeOK, NEW i \in Inputs
    PROVE  /\ i.inst \in Insts \cup {NoInst}
           /\ i.inst.op \in Ops \cup {Bubble}
           /\ i.inst.csr \in AllCsrs
           /\ i.taken \in BOOLEAN /\ i.ale \in BOOLEAN
           /\ i.owed_ok \in BOOLEAN /\ i.data_ok \in BOOLEAN
           /\ i.target \in Word /\ i.wdata \in Word
           /\ i.ale => op_e \in LSU_RELATED
           /\ i.data_ok => pending > 0
<1>1. 0 \in Word
  BY NWordsAssumption DEF Word
<1>2. i.inst \in Insts \cup {NoInst}
  BY DEF Inputs
<1>3. i.inst.op \in Ops \cup {Bubble} /\ i.inst.csr \in AllCsrs
  <2>0. "none" \in AllCsrs
    BY DEF AllCsrs
  <2>1. CASE i.inst \in [op : Ops \ CSR_RELATED, csr : {"none"}]
    BY <2>0, <2>1
  <2>2. CASE i.inst \in [op : Ops \cap CSR_RELATED, csr : CsrAddrs]
    BY <2>2, CsrsAssumption
  <2>3. CASE i.inst = NoInst
    BY <2>0, <2>3 DEF NoInst
  <2> QED
    BY <1>2, <2>1, <2>2, <2>3 DEF Insts
<1>4. /\ i.taken \in BOOLEAN /\ i.ale \in BOOLEAN
      /\ i.owed_ok \in BOOLEAN /\ i.data_ok \in BOOLEAN
      /\ i.target \in Word /\ i.wdata \in Word
      /\ i.ale => op_e \in LSU_RELATED
      /\ i.data_ok => pending > 0
  BY <1>1 DEF Inputs
<1> QED
  BY <1>2, <1>3, <1>4

(***************************************************************************)
(* The next address is a word.                                             *)
(***************************************************************************)
LEMMA IncType == \A p \in Word : Inc(p) \in Word
  BY NWordsAssumption DEF Inc, Word

(***************************************************************************)
(* Whatever its selects, the multiplexer that forms pc_bf yields a word.   *)
(***************************************************************************)
LEMMA PcBfType ==
    ASSUME NEW w, NEW t \in Word, NEW x \in Word, NEW r \in Word, pc_f \in Word
    PROVE  PcBf(w, t, x, r) \subseteq Word
<1> DEFINE in1 == [old |-> pc_f, pcinc |-> Inc(pc_f), brpc |-> t]
<1> DEFINE in2(m) == [mux1 |-> m, excpc |-> x, ertnpc |-> r]
<1>1. \A s \in PcbfMux1Sel(w) : in1[s] \in Word
  <2>1. \A s \in {"old", "pcinc", "brpc"} : in1[s] \in Word
    BY IncType
  <2> QED
    BY <2>1 DEF PcbfMux1Sel
<1>2. DpMux(PcbfMux1Sel(w), in1, Word) \subseteq Word
  BY <1>1 DEF DpMux
<1>3. ASSUME NEW m \in Word
      PROVE  DpMux(PcbfMux2Sel(w), in2(m), Word) \subseteq Word
  <2>1. \A s \in {"mux1", "excpc", "ertnpc"} : in2(m)[s] \in Word
    OBVIOUS
  <2>2. PcbfMux2Sel(w) \subseteq {"mux1", "excpc", "ertnpc"}
    BY DEF PcbfMux2Sel
  <2> QED
    BY <2>1, <2>2 DEF DpMux
<1> QED
  BY <1>2, <1>3 DEF PcBf

(***************************************************************************)
(* Reading a CSR yields a word.                                            *)
(***************************************************************************)
LEMMA CsrRdataType == ASSUME CsrTypeOK, NEW a PROVE CsrRdata(a) \in Word
<1>1. 0 \in Word /\ 1 \in Word
  BY NWordsAssumption DEF Word
<1>2. bsec \in Word
  BY <1>1 DEF CsrTypeOK
<1> QED
  BY <1>1, <1>2 DEF CsrTypeOK, CsrRdata

----------------------------------------------------------------------------
(***************************************************************************)
(* Every register holds a value of its width, and at most MaxPending       *)
(* accesses are in flight.                                                 *)
(***************************************************************************)
THEOREM TypeCorrect == Spec => []TypeOK
<1>1. Init => TypeOK
  <2> SUFFICES ASSUME Init PROVE TypeOK
    OBVIOUS
  <2>0. 0 \in Word /\ "none" \in AllCsrs
    BY NWordsAssumption DEF Word, AllCsrs
  <2>1. FdpTypeOK /\ EclTypeOK
    BY <2>0 DEF Init, FdpInit, EclInit, FdpTypeOK, EclTypeOK
  <2>2. CsrTypeOK
    BY PowerOnAssumption DEF Init, CsrInit, CsrTypeOK, Word
  <2>3. /\ pending \in 0 .. MaxPending
        /\ shadow \in {"no", "except", "ertn"}
    BY DEF Init, MaxPending
  <2>4. retired \in [pc : Word, op : Ops \cup {Bubble}]
    BY <2>0 DEF Init
  <2>5. lost \in BOOLEAN
    BY Zenon DEF Init
  <2> QED
    BY <2>1, <2>2, <2>3, <2>4, <2>5 DEF TypeOK
<1>2. TypeOK /\ [Next]_vars => TypeOK'
  <2> SUFFICES ASSUME TypeOK, [Next]_vars PROVE TypeOK'
    OBVIOUS
  <2>1. CASE UNCHANGED vars
    BY <2>1 DEF vars, fdpVars, eclVars, csrVars, TypeOK, FdpTypeOK, EclTypeOK,
                CsrTypeOK
  <2>2. ASSUME NEW i \in Inputs, Tick(i) PROVE TypeOK'
    <3>0. 0 \in Word
      BY NWordsAssumption DEF Word
    <3>1. FdpTypeOK'
      <4>1. pc_f' \in Word
        BY <2>2, InputFacts, PcBfType DEF Tick, FdpNext, TypeOK, FdpTypeOK,
                                          CsrTypeOK
      <4>2. valid_d' \in BOOLEAN
        BY <2>2 DEF Tick, FdpNext, fdp_dec_valid
      <4>3. /\ pc_d' \in Word /\ op_d' \in Ops \cup {Bubble}
            /\ csr_d' \in AllCsrs /\ pc_e' \in Word
        BY <2>2, InputFacts DEF Tick, FdpNext, TypeOK, FdpTypeOK
      <4> QED
        BY <4>1, <4>2, <4>3 DEF FdpTypeOK
    <3>2. EclTypeOK'
      <4>1. op_e' \in Ops \cup {Bubble}
        BY <2>2 DEF Tick, EclNext, dispatched, dispatch_d, TypeOK, FdpTypeOK
      <4>2. csr_rdata_e' \in Word
        BY <2>2, CsrRdataType DEF Tick, EclNext, TypeOK
      <4>3. /\ ale_m' \in BOOLEAN /\ lsu_stall_req' \in BOOLEAN
            /\ csr_stall_req' \in BOOLEAN
        BY <2>2 DEF Tick, EclNext, lsu_ale_e, lsu_stall_req_next,
                    csr_stall_req_next, lsu_dispatch_d, csr_wen_d, csr_wen_m
      <4>4. /\ op_m' \in Ops \cup {Bubble} /\ csr_e' \in AllCsrs
            /\ csr_m' \in AllCsrs /\ csr_wdata_m' \in Word
        BY <2>2, InputFacts DEF Tick, EclNext, TypeOK, FdpTypeOK, EclTypeOK
      <4> QED
        BY <4>1, <4>2, <4>3, <4>4 DEF EclTypeOK
    <3>3. CsrTypeOK'
      <4>1. crmd' \in Word
        <5> DEFINE wen == csr_wen_m /\ csr_m = "crmd"
        <5> DEFINE in == [wdata |-> csr_wdata_m, zero |-> 0, prmd |-> prmd]
        <5>1. \A s \in {"wdata", "zero", "prmd"} : in[s] \in Word
          BY <3>0 DEF TypeOK, EclTypeOK, CsrTypeOK
        <5>2. CrmdSel(wen, except_e(i.ale), ertn_e)
                \subseteq {"wdata", "zero", "prmd"}
          BY DEF CrmdSel
        <5>3. DpMux(CrmdSel(wen, except_e(i.ale), ertn_e), in, Word)
                \subseteq Word
          BY <5>1, <5>2 DEF DpMux
        <5>4. CrmdNext(wen, except_e(i.ale), ertn_e, csr_wdata_m)
          BY <2>2 DEF Tick, CsrNext
        <5> QED
          BY <5>3, <5>4 DEF CrmdNext, TypeOK, CsrTypeOK
      <4>2. /\ prmd' \in Word /\ era' \in Word /\ eentry' \in Word
            /\ bsec' \in {0, 1}
        BY <2>2 DEF Tick, CsrNext, DpMux2, TypeOK, CsrTypeOK, EclTypeOK,
                    FdpTypeOK
      <4> QED
        BY <4>1, <4>2 DEF CsrTypeOK
    <3>4. pending' \in 0 .. MaxPending /\ lost' \in BOOLEAN
      BY <2>2, InputFacts DEF Tick, MemNext, MaxPending, TypeOK
    <3>5. shadow' \in {"no", "except", "ertn"}
      BY <2>2 DEF Tick, ShadowNext
    <3>6. retired' \in [pc : Word, op : Ops \cup {Bubble}]
      BY <2>2 DEF Tick, RetiredNext, TypeOK, FdpTypeOK, EclTypeOK
    <3> QED
      BY <3>1, <3>2, <3>3, <3>4, <3>5, <3>6 DEF TypeOK
  <2> QED
    BY <2>1, <2>2 DEF Next
<1> QED
  BY <1>1, <1>2, PTL DEF Spec

----------------------------------------------------------------------------
(***************************************************************************)
(* A taken step, with the type facts every proof about it needs.           *)
(***************************************************************************)
LEMMA DispatchFacts ==
    ASSUME TypeOK, ControlInv, NEW i \in Inputs, Tick(i)
    PROVE  /\ op_e' = dispatched(i) /\ op_m' = op_e
           /\ dispatched(i) # Bubble => /\ valid_d /\ dispatched(i) = op_d
                                        /\ ~lsu_stall_req /\ ~csr_stall_req
           /\ valid_d' => ~exu_ifu_stall_req(dispatched(i), i.data_ok)
<1>1. op_e' = dispatched(i) /\ op_m' = op_e
  BY DEF Tick, EclNext
<1>2. dispatched(i) # Bubble => valid_d /\ dispatched(i) = op_d
  BY DEF dispatched, dispatch_d, inst_vld_d
<1>3. valid_d => ~lsu_stall_req /\ ~csr_stall_req
  BY DEF ControlInv, StallHoldsDecode
<1>4. valid_d' => ~exu_ifu_stall_req(dispatched(i), i.data_ok)
  BY DEF Tick, FdpNext, fdp_dec_valid, FdpWires
<1> QED
  BY <1>1, <1>2, <1>3, <1>4

(***************************************************************************)
(* The stall requests and the access in flight keep step with the stages.  *)
(***************************************************************************)
LEMMA ControlStep == TypeOK /\ ControlInv /\ [Next]_vars => ControlInv'
<1> SUFFICES ASSUME TypeOK, ControlInv, [Next]_vars PROVE ControlInv'
  OBVIOUS
<1>1. CASE UNCHANGED vars
  BY <1>1 DEF vars, fdpVars, eclVars, csrVars, ControlInv, StallHoldsDecode,
              CsrStallTracksWrite, LsuStallTracksAccess
<1>2. ASSUME NEW i \in Inputs, Tick(i) PROVE ControlInv'
  <2> DEFINE d == dispatched(i)
  <2>0. Bubble \notin LSU_RELATED /\ Bubble \notin CSR_WRITE
    BY DEF Bubble, LSU_RELATED, CSR_WRITE
  <2>1. /\ lsu_stall_req' <=> \/ d \in LSU_RELATED
                              \/ lsu_stall_req /\ ~(i.data_ok \/ ale_m)
        /\ csr_stall_req' <=> \/ d \in CSR_WRITE
                              \/ csr_stall_req /\ op_m \notin CSR_WRITE
        /\ ale_m' <=> op_e \in LSU_RELATED /\ i.ale
    BY <1>2 DEF Tick, EclNext, lsu_stall_req_next, csr_stall_req_next,
                lsu_dispatch_d, csr_wen_d, lsu_finish_m, csr_wen_m, lsu_ale_e
  <2>3. pending \in Nat /\ lost \in BOOLEAN /\ (i.data_ok => pending > 0)
    BY InputFacts DEF TypeOK, MaxPending
  <2>4. StallHoldsDecode'
    BY <1>2, <2>1, DispatchFacts
    DEF StallHoldsDecode, exu_ifu_stall_req, lsu_stall_req_next,
        csr_stall_req_next, lsu_dispatch_d, csr_wen_d, lsu_finish_m, csr_wen_m
  <2>5. CsrStallTracksWrite'
    BY <1>2, <2>0, <2>1, DispatchFacts DEF ControlInv, CsrStallTracksWrite
  <2>6. LsuStallTracksAccess'
    <3>1. /\ EclNext(d, csr_d, CsrRdata(csr_d), i.ale, i.wdata, i.data_ok)
          /\ MemNext(data_req_e(i.ale), i.owed_ok, i.data_ok)
      BY <1>2 DEF Tick
    <3>2. LsuStallTracksAccess /\ (d # Bubble => ~lsu_stall_req)
      BY <1>2, DispatchFacts DEF ControlInv
    <3>3. i.ale \in BOOLEAN /\ i.owed_ok \in BOOLEAN /\ i.data_ok \in BOOLEAN
      BY InputFacts
    <3> HIDE DEF d
    <3> QED
      BY <2>3, <3>1, <3>2, <3>3, LsuStallStep
  <2> QED
    BY <2>4, <2>5, <2>6 DEF ControlInv
<1> QED
  BY <1>1, <1>2 DEF Next

(***************************************************************************)
(* The inductive invariant holds in every reachable state.                 *)
(***************************************************************************)
THEOREM ControlCorrect == Spec => []ControlInv
<1>1. Init => ControlInv
  BY DEF Init, FdpInit, EclInit, ControlInv, StallHoldsDecode,
         CsrStallTracksWrite, LsuStallTracksAccess, Bubble, CSR_WRITE,
         LSU_RELATED
<1> QED
  BY <1>1, ControlStep, TypeCorrect, PTL DEF Spec

(***************************************************************************)
(* One access at a time, with nothing behind it: BlockingAccess.           *)
(***************************************************************************)
THEOREM AccessesBlock == Spec => []BlockingAccess
<1>1. TypeOK /\ ControlInv => BlockingAccess
  BY DEF ControlInv, StallHoldsDecode, LsuStallTracksAccess, BlockingAccess
<1> QED
  BY <1>1, TypeCorrect, ControlCorrect, PTL

(***************************************************************************)
(* The result multiplexer always has one select: ResultSelectOneCold.      *)
(***************************************************************************)
THEOREM OneResult == Spec => []ResultSelectOneCold
<1>1. TypeOK /\ ControlInv => ResultSelectOneCold
  <2> SUFFICES ASSUME TypeOK, ControlInv, NEW i \in Inputs,
                      op_m \notin CACHE_RELATED
               PROVE  OneCold(RdDataSel(i.data_ok))
    BY DEF ResultSelectOneCold
  <2>1. lsu_finish_m(i.data_ok) => op_m \in {"mem", "inemem", Bubble}
    BY InputFacts DEF lsu_finish_m, ControlInv, LsuStallTracksAccess,
                      LSU_RELATED, CACHE_RELATED
  <2>2. PICK s \in {"alu", "lsu", "bru", "mul", "csr"} :
          RdDataSel(i.data_ok) = {s}
    BY <2>1 DEF RdDataSel, csr_valid_m, LINKS, MUL_RELATED, CSR_RELATED,
                CACHE_RELATED, Bubble
  <2> QED
    BY <2>2 DEF OneCold
<1> QED
  BY <1>1, TypeCorrect, ControlCorrect, PTL

(***************************************************************************)
(* CRMD has at most one writer in a cycle: CrmdOneWriter.                  *)
(***************************************************************************)
THEOREM OneCrmdWriter == Spec => []CrmdOneWriter
<1>1. TypeOK /\ ControlInv => CrmdOneWriter
  <2> SUFFICES ASSUME TypeOK, ControlInv, NEW i \in Inputs
               PROVE  LET sel == CrmdSel(csr_wen_m /\ csr_m = "crmd",
                                         except_e(i.ale), ertn_e)
                      IN  sel = {} \/ OneCold(sel)
    BY DEF CrmdOneWriter
  <2> DEFINE sel == CrmdSel(csr_wen_m /\ csr_m = "crmd", except_e(i.ale), ertn_e)
  <2>1. csr_wen_m => ~except_e(i.ale) /\ ~ertn_e
    BY DEF ControlInv, CsrStallTracksWrite, csr_wen_m, except_e, lsu_ale_e,
           illinst_e, ertn_e, LSU_RELATED, INE, ERET, Bubble
  <2>2. ~(except_e(i.ale) /\ ertn_e)
    BY DEF except_e, lsu_ale_e, illinst_e, ertn_e, LSU_RELATED, INE, ERET
  <2>3. sel = {} \/ \E s \in {"wdata", "zero", "prmd"} : sel = {s}
    BY <2>1, <2>2 DEF CrmdSel
  <2> QED
    BY <2>3 DEF OneCold
<1> QED
  BY <1>1, TypeCorrect, ControlCorrect, PTL

(***************************************************************************)
(* A branch is never taken while the front end is stalled: it kills the    *)
(* only instruction that could ask for a new stall, and it cannot be in _e *)
(* while an older one is in force.                                         *)
(***************************************************************************)
LEMMA BranchNotStalled ==
    ASSUME TypeOK, ControlInv, NEW i \in Inputs, FdpWires(i).br_taken
    PROVE  ~FdpWires(i).stall
<1>1. op_e \in BRU_RELATED
  BY DEF FdpWires, br_taken_e
<1>2. dispatched(i) = Bubble
  BY DEF FdpWires, dispatched, dispatch_d, inst_vld_d
<1>3. (~lsu_stall_req /\ ~csr_stall_req) \/ csr_wen_m
  BY <1>1 DEF ControlInv, CsrStallTracksWrite, LsuStallTracksAccess,
              BRU_RELATED, LSU_RELATED, CSR_WRITE, Bubble, csr_wen_m
<1>4. ~csr_wen_m
  BY <1>1 DEF ControlInv, CsrStallTracksWrite, csr_wen_m, BRU_RELATED, Bubble
<1> QED
  BY <1>2, <1>3, <1>4 DEF FdpWires, exu_ifu_stall_req, lsu_stall_req_next,
      csr_stall_req_next, lsu_dispatch_d, csr_wen_d, Bubble, LSU_RELATED,
      CSR_WRITE

(***************************************************************************)
(* The next fetch address is defined: PcSelectsDefined.                    *)
(***************************************************************************)
THEOREM NextPcDefined == Spec => []PcSelectsDefined
<1>1. TypeOK /\ ControlInv => PcSelectsDefined
  <2> SUFFICES ASSUME TypeOK, ControlInv, NEW i \in Inputs,
                      ~(FdpWires(i).ertn /\ FdpWires(i).stall),
                      ~(FdpWires(i).except /\ FdpWires(i).br_taken)
               PROVE  /\ OneCold(PcbfMux2Sel(FdpWires(i)))
                      /\ \/ PcbfMux1Sel(FdpWires(i)) = {}
                         \/ OneCold(PcbfMux1Sel(FdpWires(i)))
    BY DEF PcSelectsDefined
  <2> DEFINE w == FdpWires(i)
  <2>1. w.br_taken => ~w.stall
    BY BranchNotStalled
  <2>2. ~(w.br_taken /\ w.ertn) /\ ~(w.except /\ w.ertn)
    BY DEF FdpWires, br_taken_e, ertn_e, except_e, lsu_ale_e, illinst_e,
           BRU_RELATED, ERET, LSU_RELATED, INE
  <2>3. \/ PcbfMux1Sel(w) = {} /\ (w.except \/ w.ertn)
        \/ /\ \E s \in {"old", "pcinc", "brpc"} : PcbfMux1Sel(w) = {s}
           /\ ~w.except /\ ~w.ertn
    BY <2>1, <2>2 DEF PcbfMux1Sel
  <2>4. \E s \in {"mux1", "excpc", "ertnpc"} : PcbfMux2Sel(w) = {s}
    BY <2>2, <2>3 DEF PcbfMux2Sel
  <2> QED
    BY <2>3, <2>4 DEF OneCold
<1> QED
  BY <1>1, TypeCorrect, ControlCorrect, PTL

----------------------------------------------------------------------------
(***************************************************************************)
(* What a clock edge does to the CSRs: a write from _m, a trap, a return,  *)
(* or nothing, and never two of them.                                      *)
(***************************************************************************)
LEMMA CsrStep ==
    ASSUME TypeOK, ControlInv, NEW i \in Inputs, Tick(i)
    PROVE  /\ csr_wen_m \/ except_e(i.ale) \/ ertn_e \/ UNCHANGED csrVars
           /\ csr_wen_m =>
                /\ crmd' = IF csr_m = "crmd" THEN csr_wdata_m ELSE crmd
                /\ prmd' = IF csr_m = "prmd" THEN csr_wdata_m ELSE prmd
                /\ era' = IF csr_m = "era" THEN csr_wdata_m ELSE era
                /\ eentry' = IF csr_m = "eentry" THEN csr_wdata_m ELSE eentry
                /\ bsec' = IF csr_m = "bsec" /\ csr_wdata_m % 2 = 1 THEN 1
                           ELSE bsec
           /\ except_e(i.ale) => /\ crmd' = 0 /\ prmd' = crmd /\ era' = pc_e
                                 /\ UNCHANGED <<eentry, bsec>>
           /\ ertn_e => crmd' = prmd /\ UNCHANGED <<prmd, era, eentry, bsec>>
<1> DEFINE x == except_e(i.ale)
<1> DEFINE wen == csr_wen_m /\ csr_m = "crmd"
<1> DEFINE in == [wdata |-> csr_wdata_m, zero |-> 0, prmd |-> prmd]
<1>1. (csr_wen_m => ~x /\ ~ertn_e) /\ ~(x /\ ertn_e)
  BY DEF ControlInv, CsrStallTracksWrite, csr_wen_m, except_e, lsu_ale_e,
         illinst_e, ertn_e, LSU_RELATED, INE, ERET, Bubble
<1>2. /\ prmd' = IF (csr_wen_m /\ csr_m = "prmd") \/ x
                 THEN IF x THEN crmd ELSE csr_wdata_m ELSE prmd
      /\ era' = IF (csr_wen_m /\ csr_m = "era") \/ x
                THEN IF x THEN pc_e ELSE csr_wdata_m ELSE era
      /\ eentry' = IF csr_wen_m /\ csr_m = "eentry" THEN csr_wdata_m ELSE eentry
      /\ bsec' = IF csr_wen_m /\ csr_m = "bsec" /\ csr_wdata_m % 2 = 1
                 THEN 1 ELSE bsec
  BY DEF Tick, CsrNext, DpMux2
<1>3. IF wen \/ x \/ ertn_e THEN crmd' \in DpMux(CrmdSel(wen, x, ertn_e), in, Word)
      ELSE crmd' = crmd
  BY DEF Tick, CsrNext, CrmdNext
<1>4. /\ wen => crmd' = csr_wdata_m
      /\ x => crmd' = 0
      /\ ertn_e => crmd' = prmd
  <2>1. CASE wen
    <3>1. CrmdSel(wen, x, ertn_e) = {"wdata"}
      BY <1>1, <2>1 DEF CrmdSel
    <3>2. DpMux(CrmdSel(wen, x, ertn_e), in, Word) = {csr_wdata_m}
      BY <3>1 DEF DpMux, OneCold
    <3> QED
      BY <1>1, <1>3, <2>1, <3>2
  <2>2. CASE x
    <3>1. CrmdSel(wen, x, ertn_e) = {"zero"}
      BY <1>1, <2>2 DEF CrmdSel
    <3>2. DpMux(CrmdSel(wen, x, ertn_e), in, Word) = {0}
      BY <3>1 DEF DpMux, OneCold
    <3> QED
      BY <1>1, <1>3, <2>2, <3>2
  <2>3. CASE ertn_e
    <3>1. CrmdSel(wen, x, ertn_e) = {"prmd"}
      BY <1>1, <2>3 DEF CrmdSel
    <3>2. DpMux(CrmdSel(wen, x, ertn_e), in, Word) = {prmd}
      BY <3>1 DEF DpMux, OneCold
    <3> QED
      BY <1>1, <1>3, <2>3, <3>2
  <2> QED
    BY <2>1, <2>2, <2>3
<1> QED
  BY <1>1, <1>2, <1>3, <1>4 DEF csrVars

(***************************************************************************)
(* What a csrrd or csrwr reads in _d is what it must see when it executes. *)
(***************************************************************************)
THEOREM CsrReadsCurrent == Spec => []CsrReadCurrent
<1>1. Init => CsrReadCurrent
  BY DEF Init, EclInit, CsrReadCurrent, Bubble, CSR_RELATED
<1>2. TypeOK /\ ControlInv /\ CsrReadCurrent /\ [Next]_vars => CsrReadCurrent'
  <2> SUFFICES ASSUME TypeOK, ControlInv, CsrReadCurrent, [Next]_vars,
                      op_e' \in CSR_RELATED, shadow' = "no"
               PROVE  csr_rdata_e' = ArchCsr(csr_e)'
    BY DEF CsrReadCurrent
  <2>1. CASE UNCHANGED vars
    BY <2>1 DEF vars, fdpVars, eclVars, csrVars, CsrReadCurrent, ArchCsr,
                CsrRdata, csr_wen_m
  <2>2. ASSUME NEW i \in Inputs, Tick(i) PROVE csr_rdata_e' = ArchCsr(csr_e)'
    <3>1. dispatched(i) # Bubble /\ op_m' = op_e /\ ~csr_stall_req
      BY <2>2, DispatchFacts DEF CSR_RELATED, Bubble
    <3>2. op_e \notin CSR_WRITE /\ ~csr_wen_m
      BY <3>1 DEF ControlInv, CsrStallTracksWrite, csr_wen_m
    <3>3. ~except_e(i.ale) /\ ~ertn_e
      BY <2>2, <3>1 DEF Tick, ShadowNext
    <3>4. UNCHANGED csrVars
      BY <2>2, <3>2, <3>3, CsrStep
    <3>5. csr_rdata_e' = CsrRdata(csr_d) /\ csr_e' = csr_d
      BY <2>2 DEF Tick, EclNext
    <3> QED
      BY <3>1, <3>2, <3>4, <3>5 DEF ArchCsr, CsrRdata, csr_wen_m, csrVars
  <2> QED
    BY <2>1, <2>2 DEF Next
<1> QED
  BY <1>1, <1>2, TypeCorrect, ControlCorrect, PTL DEF Spec
=============================================================================
