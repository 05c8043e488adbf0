--------------------------- MODULE Operands_proofs ---------------------------
(***************************************************************************)
(* The operands of every instruction are current, for every number of      *)
(* registers, every set of values and every mix of instructions.           *)
(*                                                                         *)
(* The inductive invariant is OperandsInv: the stall request of the LSU    *)
(* keeps step with the access in flight, the newest value of a register is *)
(* in _m, _w or the file (NewestCopy), and an operand register read in _d  *)
(* is as good as the file one cycle later, once _m and _w are preferred to *)
(* it (OperandsHeld).                                                      *)
(***************************************************************************)
EXTENDS Operands

\* The fields kept with an instruction are ones it can have, and the LSU
\* holds those of the access in _m.
FieldsKept ==
    /\ dec_e \in FieldsOf(op_e)
    /\ dec_m.wen \in GrWen(op_m) /\ (~dec_m.wen => dec_m.rd = 0)
    /\ op_m \in LSU_RELATED => lsu_wen_m = dec_m.wen

\* What reading register r in _e yields when the operand register holds v.
Seen(r, v) == IF HeldByM(r) THEN res_m
              ELSE IF wen_w /\ rd_w = r THEN rd_data_w
              ELSE v

OperandsHeld ==
    op_e # Bubble =>
      /\ alu_a_e = 0 \/ (dec_e.rs1 # 0 /\ ~dec_e.a_pc)
      /\ dec_e.rs1 # 0 /\ ~dec_e.a_pc =>
            arch[dec_e.rs1] = Seen(dec_e.rs1, alu_a_e)
      /\ alu_b_e = 0 \/ (dec_e.rs2 # 0 /\ ~dec_e.b_imm)
      /\ dec_e.rs2 # 0 /\ ~dec_e.b_imm =>
            arch[dec_e.rs2] = Seen(dec_e.rs2, alu_b_e)

OperandsInv == /\ OperandsTypeOK /\ LsuStallTracksAccess /\ FieldsKept
               /\ NewestCopy /\ OperandsHeld

----------------------------------------------------------------------------
(***************************************************************************)
(* What the inputs of a cycle can be.                                      *)
(***************************************************************************)
LEMMA InputFacts ==
    ASSUME OperandsTypeOK, NEW i \in IssueInputs
    PROVE  /\ i.op \in Ops \cup {Bubble}
           /\ i.ale \in BOOLEAN /\ i.owed_ok \in BOOLEAN
           /\ i.data_ok \in BOOLEAN
           /\ i.op # Bubble => ~lsu_stall_req
           /\ i.data_ok => pending > 0
  BY DEF IssueInputs

(***************************************************************************)
(* The value 0 and register r0 exist.                                      *)
(***************************************************************************)
LEMMA ZeroValue == 0 \in Values /\ 0 \in Regs
  BY ValuesAssumption, NRegsAssumption DEF Regs

(***************************************************************************)
(* When no access ends, the result in _m is that of the instruction there. *)
(***************************************************************************)
LEMMA ResultInM ==
    ASSUME OperandsTypeOK, FieldsKept, NEW d, ~lsu_finish_m(d), NEW v
    PROVE  /\ RdDataM(d, v) = {res_m}
           /\ \A r \in Writable : wen_m(d) /\ rd_m(d) = r <=> HeldByM(r)
<1>1. PICK s \in {"alu", "bru", "mul", "csr"} : RdDataSel(d) = {s}
  BY DEF RdDataSel, csr_valid_m, LINKS, MUL_RELATED, CSR_RELATED, CACHE_RELATED
<1>2. RdDataM(d, v) = {res_m}
  BY <1>1 DEF RdDataM, DpMux, OneCold
<1>3. ASSUME NEW r \in Writable
      PROVE  wen_m(d) /\ rd_m(d) = r <=> HeldByM(r)
  <2>1. rd_m(d) = dec_m.rd
    BY DEF rd_m
  <2>2. op_m \in LINKS => op_m \notin LSU_RELATED
    BY DEF LINKS, LSU_RELATED
  <2>3. op_m \in BRU_RELATED /\ dec_m.wen => op_m \in LINKS
    BY DEF FieldsKept, GrWen, BRU_RELATED, LINKS
  <2>4. op_m \in LINKS /\ dec_m.rd = r => dec_m.wen
    BY DEF FieldsKept, Writable
  <2>5. wen_m(d) <=> \/ op_m \notin LSU_RELATED \cup BRU_RELATED /\ dec_m.wen
                     \/ op_m \in LINKS
    BY DEF wen_m
  <2> QED
    BY <2>1, <2>2, <2>3, <2>4, <2>5 DEF HeldByM
<1> QED
  BY <1>2, <1>3

(***************************************************************************)
(* When an access ends, nothing else is in _e or _m, and the result of _m  *)
(* is the word it brings, for the register it is owed to.                  *)
(***************************************************************************)
LEMMA ResultOfAccess ==
    ASSUME OperandsInv, NEW d \in BOOLEAN, d => pending > 0,
           lsu_finish_m(d), NEW v
    PROVE  /\ op_e = Bubble
           /\ \A r \in Writable : ~HeldByM(r)
           /\ \A r \in Writable : wen_m(d) /\ rd_m(d) = r <=> owed = r
           /\ wen_m(d) => RdDataM(d, v) = {v}
<1>1. pending > 0 \/ ale_m
  BY DEF lsu_finish_m
<1>2. op_e = Bubble /\ op_m \in LSU_RELATED \cup {Bubble}
  BY <1>1 DEF OperandsInv, LsuStallTracksAccess
<1>3. op_m = Bubble => ~dec_m.wen
  BY DEF OperandsInv, FieldsKept, GrWen, Bubble
<1>4. op_m \notin LINKS
  BY <1>2 DEF LINKS, LSU_RELATED, Bubble
<1>5. wen_m(d) <=> lsu_wen_m
  BY <1>2, <1>3, <1>4 DEF wen_m
<1>6. rd_m(d) = lsu_rd_m
  BY DEF rd_m
<1>7. owed = IF lsu_wen_m THEN lsu_rd_m ELSE 0
  BY <1>1 DEF OperandsInv, NewestCopy
<1>8. ASSUME wen_m(d) PROVE RdDataM(d, v) = {v}
  <2>1. op_m \notin CACHE_RELATED
    BY <1>5, <1>8 DEF OperandsInv, FieldsKept, GrWen, CACHE_RELATED, LSU_RELATED
  <2>2. RdDataSel(d) = {"lsu"}
    BY <1>2, <2>1 DEF RdDataSel, csr_valid_m, LINKS, MUL_RELATED, CSR_RELATED,
                      CACHE_RELATED, LSU_RELATED, Bubble
  <2> QED
    BY <2>2 DEF RdDataM, DpMux, OneCold
<1> QED
  BY <1>2, <1>3, <1>5, <1>6, <1>7, <1>8 DEF HeldByM, Writable

----------------------------------------------------------------------------
(***************************************************************************)
(* The registers hold values.                                              *)
(***************************************************************************)
LEMMA TypeStep ==
    ASSUME OperandsInv, NEW i \in IssueInputs, NEW f \in FieldsOf(i.op),
           NEW res \in Results, NEW rdata \in LoadWords,
           Tick(i, f, res, rdata)
    PROVE  OperandsTypeOK'
<1>0. OperandsTypeOK
  BY DEF OperandsInv
<1>1. res \in Values /\ rdata \in Values
  BY ZeroValue DEF Results, LoadWords
<1>2. EclTypeOK'
  <2>1. 0 \in Word /\ "none" \in AllCsrs
    BY NWordsAssumption DEF Word, AllCsrs
  <2> QED
    BY <1>0, <2>1, InputFacts
    DEF Tick, IssueTick, EclNext, EclTypeOK, OperandsTypeOK, lsu_ale_e,
        lsu_stall_req_next, csr_stall_req_next, lsu_dispatch_d, csr_wen_d,
        csr_wen_m
<1>3. pending' \in 0 .. MaxPending /\ lost' \in BOOLEAN
  BY <1>0, InputFacts DEF Tick, IssueTick, MemNext, OperandsTypeOK, MaxPending
<1>4. dec_e' \in Fields
  BY DEF Tick, FieldsOf
<1>5. \A r \in Regs : rf_read(r) \in Values
  BY <1>0, ZeroValue DEF rf_read, OperandsTypeOK, Writable
<1>6. f \in Fields
  BY DEF FieldsOf
<1>7. alu_a_e' \in Values /\ alu_b_e' \in Values
  <2>1. f.rs1 \in Regs /\ f.rs2 \in Regs
    BY <1>6 DEF Fields
  <2> QED
    BY <1>5, <2>1, ZeroValue DEF Tick, alu_a_d, alu_b_d
<1>8. dec_e.rd \in Regs /\ dec_e.wen \in BOOLEAN
  BY <1>0 DEF OperandsTypeOK, Fields
<1>9. /\ dec_m' \in [rd : Regs, wen : BOOLEAN] /\ res_m' \in Values
      /\ lsu_rd_m' \in Regs /\ lsu_wen_m' \in BOOLEAN
  BY <1>0, <1>1, <1>8 DEF Tick, LsuRdNext, OperandsTypeOK
<1>10. rd_w' \in Regs /\ wen_w' \in BOOLEAN
  BY <1>0 DEF Tick, rd_m, wen_m, OperandsTypeOK
<1>11. rd_data_w' \in Values
  <2>1. RdDataM(i.data_ok, rdata) \subseteq Values
    <3>1. RdDataSel(i.data_ok) \subseteq {"alu", "lsu", "bru", "mul", "csr"}
      BY DEF RdDataSel
    <3> QED
      BY <1>0, <1>1, <3>1 DEF RdDataM, DpMux, OperandsTypeOK
  <2> QED
    BY <2>1 DEF Tick
<1>12. regs' \in [Writable -> Values]
  BY <1>0 DEF Tick, RegFileNext, OperandsTypeOK
<1>13. arch' \in [Writable -> Values]
  BY <1>0, <1>1 DEF Tick, ArchNext, OperandsTypeOK
<1>14. owed' \in Regs
  BY <1>0, <1>8, ZeroValue DEF Tick, ArchNext, OperandsTypeOK
<1> QED
  BY <1>2, <1>3, <1>4, <1>7, <1>9, <1>10, <1>11, <1>12, <1>13, <1>14
  DEF OperandsTypeOK

(***************************************************************************)
(* The fields stay with their instruction.                                 *)
(***************************************************************************)
LEMMA FieldsStep ==
    ASSUME OperandsInv, NEW i \in IssueInputs, NEW f \in FieldsOf(i.op),
           NEW res, NEW rdata, Tick(i, f, res, rdata)
    PROVE  FieldsKept'
<1>1. op_e' = i.op /\ op_m' = op_e /\ dec_e' = f
  BY DEF Tick, IssueTick, EclNext
<1>2. dec_m'.wen = dec_e.wen /\ dec_m'.rd = dec_e.rd
  BY DEF Tick
<1>3. dec_e.wen \in GrWen(op_e) /\ (~dec_e.wen => dec_e.rd = 0)
  BY DEF OperandsInv, FieldsKept, FieldsOf
<1>4. op_e \in LSU_RELATED => lsu_wen_m' = dec_e.wen
  BY DEF Tick, LsuRdNext
<1>5. GrWen(op_m)' = GrWen(op_e) /\ FieldsOf(op_e)' = FieldsOf(i.op)
  BY <1>1 DEF GrWen, FieldsOf
<1> QED
  BY <1>1, <1>2, <1>3, <1>4, <1>5 DEF FieldsKept

(***************************************************************************)
(* No result is lost or overtaken.                                         *)
(***************************************************************************)
LEMMA NewestStep ==
    ASSUME OperandsInv, NEW i \in IssueInputs, NEW f \in FieldsOf(i.op),
           NEW res \in Results, NEW rdata \in LoadWords,
           Tick(i, f, res, rdata)
    PROVE  NewestCopy'
<1> DEFINE d == i.data_ok
<1>0. OperandsTypeOK /\ FieldsKept /\ LsuStallTracksAccess
  BY DEF OperandsInv
<1>1. d \in BOOLEAN /\ (d => pending > 0)
  BY <1>0, InputFacts
<1>2. /\ op_m' = op_e /\ dec_m' = [rd |-> dec_e.rd, wen |-> dec_e.wen]
      /\ res_m' = res
      /\ rd_w' = rd_m(d) /\ wen_w' = wen_m(d)
      /\ rd_data_w' \in RdDataM(d, rdata)
      /\ ale_m' <=> op_e \in LSU_RELATED /\ i.ale
  BY DEF Tick, IssueTick, EclNext, lsu_ale_e
<1>3. ASSUME NEW r \in Writable
      PROVE  arch'[r] = (IF HeldByM(r) THEN res_m
                         ELSE IF wen_w /\ rd_w = r THEN rd_data_w
                         ELSE regs[r])'
  <2>1. HeldByM(r)' <=> op_e \notin LSU_RELATED /\ dec_e.wen /\ dec_e.rd = r
    BY <1>2 DEF HeldByM
  <2>2. /\ regs'[r] = IF wen_w /\ rd_w = r THEN rd_data_w ELSE regs[r]
        /\ arch[r] = IF HeldByM(r) THEN res_m
                     ELSE IF wen_w /\ rd_w = r THEN rd_data_w ELSE regs[r]
    BY DEF Tick, RegFileNext, OperandsInv, NewestCopy
  <2>3. arch'[r] = IF dec_e.wen /\ op_e \notin LSU_RELATED /\ dec_e.rd = r
                   THEN res
                   ELSE IF lsu_finish_m(d) /\ owed = r THEN rdata
                   ELSE arch[r]
    BY DEF Tick, ArchNext
  <2>4. CASE HeldByM(r)'
    BY <1>2, <2>1, <2>3, <2>4
  <2>5. CASE ~HeldByM(r)' /\ lsu_finish_m(d)
    <3>1. /\ ~HeldByM(r)
          /\ wen_m(d) /\ rd_m(d) = r <=> owed = r
          /\ wen_m(d) => RdDataM(d, rdata) = {rdata}
      BY <1>1, <2>5, ResultOfAccess
    <3>2. wen_w' /\ rd_w' = r <=> owed = r
      BY <1>2, <3>1
    <3>3. owed = r => rd_data_w' = rdata
      BY <1>2, <3>1
    <3> QED
      BY <2>1, <2>2, <2>3, <2>5, <3>1, <3>2, <3>3
  <2>6. CASE ~HeldByM(r)' /\ ~lsu_finish_m(d)
    <3>1. /\ RdDataM(d, rdata) = {res_m}
          /\ wen_m(d) /\ rd_m(d) = r <=> HeldByM(r)
      BY <1>0, <2>6, ResultInM
    <3>2. /\ rd_data_w' = res_m
          /\ wen_w' /\ rd_w' = r <=> HeldByM(r)
      BY <1>2, <3>1
    <3> QED
      BY <2>1, <2>2, <2>3, <2>6, <3>2
  <2> QED
    BY <2>4, <2>5, <2>6
<1>4. pending' > 0 \/ ale_m' => owed' = IF lsu_wen_m' THEN lsu_rd_m' ELSE 0
  <2>1. CASE op_e \in LSU_RELATED
    <3>1. ~dec_e.wen => dec_e.rd = 0
      BY <1>0 DEF FieldsKept, FieldsOf
    <3> QED
      BY <2>1, <3>1 DEF Tick, LsuRdNext, ArchNext
  <2>2. ASSUME op_e \notin LSU_RELATED, pending' > 0 \/ ale_m'
        PROVE  owed' = IF lsu_wen_m' THEN lsu_rd_m' ELSE 0
    <3>1. ~ale_m' /\ pending' = pending - (IF d THEN 1 ELSE 0)
      <4>1. MemNext(data_req_e(i.ale), i.owed_ok, d)
        BY DEF Tick, IssueTick
      <4>2. pending' = pending + (IF op_e \in LSU_RELATED /\ ~i.ale /\ i.owed_ok
                                     THEN 1 ELSE 0)
                               - (IF d THEN 1 ELSE 0)
        BY <4>1 DEF MemNext, data_req_e
      <4>3. pending \in Nat
        BY <1>0 DEF OperandsTypeOK, MaxPending
      <4> QED
        BY <1>2, <2>2, <4>2, <4>3
    <3>2. pending \in Nat
      BY <1>0 DEF OperandsTypeOK, MaxPending
    <3>3. pending > 0
      BY <1>1, <2>2, <3>1, <3>2
    <3>4. pending = 1 /\ ~ale_m
      BY <1>0, <3>3 DEF LsuStallTracksAccess
    <3>5. ~d
      BY <1>1, <2>2, <3>1, <3>4
    <3>6. ~lsu_finish_m(d)
      BY <3>4, <3>5 DEF lsu_finish_m
    <3>7. owed' = owed /\ lsu_wen_m' = lsu_wen_m /\ lsu_rd_m' = lsu_rd_m
      BY <2>2, <3>6 DEF Tick, LsuRdNext, ArchNext
    <3> QED
      BY <3>3, <3>7 DEF OperandsInv, NewestCopy
  <2> QED
    BY <2>1, <2>2
<1> QED
  BY <1>3, <1>4 DEF NewestCopy

(***************************************************************************)
(* A register read in _d is current one cycle later.                       *)
(***************************************************************************)
LEMMA ReadStep ==
    ASSUME OperandsInv, NEW i \in IssueInputs, NEW f \in FieldsOf(i.op),
           NEW res \in Results, NEW rdata \in LoadWords,
           Tick(i, f, res, rdata), i.op # Bubble, NEW r \in Writable
    PROVE  arch'[r] = IF HeldByM(r)' THEN res_m'
                      ELSE IF wen_w' /\ rd_w' = r THEN rd_data_w'
                      ELSE rf_read(r)
<1> DEFINE d == i.data_ok
<1>0. OperandsTypeOK /\ FieldsKept /\ LsuStallTracksAccess
  BY DEF OperandsInv
<1>1. ~lsu_stall_req /\ d \in BOOLEAN /\ (d => pending > 0)
  BY <1>0, InputFacts
<1>2. ~lsu_finish_m(d) /\ op_e \notin LSU_RELATED
  BY <1>0, <1>1 DEF lsu_finish_m, LsuStallTracksAccess
<1>3. /\ RdDataM(d, rdata) = {res_m}
      /\ wen_m(d) /\ rd_m(d) = r <=> HeldByM(r)
  BY <1>0, <1>2, ResultInM
<1>4. /\ wen_w' /\ rd_w' = r <=> HeldByM(r)
      /\ rd_data_w' = res_m /\ res_m' = res
  BY <1>3 DEF Tick
<1>5. HeldByM(r)' <=> dec_e.wen /\ dec_e.rd = r
  BY <1>2 DEF Tick, IssueTick, EclNext, HeldByM
<1>6. arch'[r] = IF dec_e.wen /\ dec_e.rd = r THEN res ELSE arch[r]
  BY <1>2 DEF Tick, ArchNext
<1>7. arch[r] = IF HeldByM(r) THEN res_m ELSE rf_read(r)
  BY DEF OperandsInv, NewestCopy, rf_read, Writable
<1> QED
  BY <1>4, <1>5, <1>6, <1>7

(***************************************************************************)
(* Both operand registers.                                                 *)
(***************************************************************************)
LEMMA HeldStep ==
    ASSUME OperandsInv, NEW i \in IssueInputs, NEW f \in FieldsOf(i.op),
           NEW res \in Results, NEW rdata \in LoadWords,
           Tick(i, f, res, rdata)
    PROVE  OperandsHeld'
<1>1. op_e' = i.op /\ dec_e' = f /\ alu_a_e' = alu_a_d(f) /\ alu_b_e' = alu_b_d(f)
  BY DEF Tick, IssueTick, EclNext
<1>2. f.rs1 \in Regs /\ f.rs2 \in Regs
  BY DEF FieldsOf, Fields
<1>3. ASSUME i.op # Bubble, f.rs1 # 0, ~f.a_pc
      PROVE  arch'[f.rs1] = Seen(f.rs1, alu_a_e)'
  <2>1. f.rs1 \in Writable /\ alu_a_e' = rf_read(f.rs1)
    BY <1>1, <1>2, <1>3 DEF Writable, alu_a_d
  <2> QED
    BY <1>3, <2>1, ReadStep DEF Seen
<1>4. ASSUME i.op # Bubble, f.rs2 # 0, ~f.b_imm
      PROVE  arch'[f.rs2] = Seen(f.rs2, alu_b_e)'
  <2>1. f.rs2 \in Writable /\ alu_b_e' = rf_read(f.rs2)
    BY <1>1, <1>2, <1>4 DEF Writable, alu_b_d
  <2> QED
    BY <1>4, <2>1, ReadStep DEF Seen
<1>5. /\ alu_a_e' = 0 \/ (f.rs1 # 0 /\ ~f.a_pc)
      /\ alu_b_e' = 0 \/ (f.rs2 # 0 /\ ~f.b_imm)
  BY <1>1 DEF alu_a_d, alu_b_d, rf_read
<1> QED
  BY <1>1, <1>3, <1>4, <1>5 DEF OperandsHeld, Seen

(***************************************************************************)
(* OperandsInv is an invariant.                                            *)
(***************************************************************************)
THEOREM OperandsCorrect == Spec => []OperandsInv
<1>1. Init => OperandsInv
  <2> SUFFICES ASSUME Init PROVE OperandsInv
    OBVIOUS
  <2>0. 0 \in Word /\ "none" \in AllCsrs /\ 0 \in Values /\ 0 \in Regs
    BY NWordsAssumption, ZeroValue DEF Word, AllCsrs
  <2>1. OperandsTypeOK
    <3>1. EclTypeOK
      BY <2>0 DEF Init, IssueInit, EclInit, EclTypeOK
    <3>2. pending \in 0 .. MaxPending
      BY DEF Init, IssueInit, MaxPending
    <3>3. dec_e \in Fields /\ dec_m \in [rd : Regs, wen : BOOLEAN]
      BY <2>0 DEF Init, NoFields, Fields
    <3>4. lost \in BOOLEAN
      BY Zenon DEF Init, IssueInit
    <3> QED
      BY <2>0, <3>1, <3>2, <3>3, <3>4 DEF Init, OperandsTypeOK
  <2>2. LsuStallTracksAccess
    BY DEF Init, IssueInit, EclInit, LsuStallTracksAccess, LSU_RELATED, Bubble
  <2>3. FieldsKept
    BY <2>0 DEF Init, IssueInit, EclInit, FieldsKept, FieldsOf, Fields, NoFields,
                GrWen, Bubble, LSU_RELATED
  <2>4. NewestCopy
    BY DEF Init, IssueInit, EclInit, NewestCopy, HeldByM
  <2>5. OperandsHeld
    BY DEF Init, IssueInit, EclInit, OperandsHeld
  <2> QED
    BY <2>1, <2>2, <2>3, <2>4, <2>5 DEF OperandsInv
<1>2. OperandsInv /\ [Next]_operandsVars => OperandsInv'
  <2> SUFFICES ASSUME OperandsInv, [Next]_operandsVars PROVE OperandsInv'
    OBVIOUS
  <2>1. CASE UNCHANGED operandsVars
    BY <2>1 DEF operandsVars, issueVars, dataVars, eclVars, OperandsInv,
        OperandsTypeOK, EclTypeOK, LsuStallTracksAccess, FieldsKept, NewestCopy,
        OperandsHeld, Seen, HeldByM, FieldsOf, GrWen
  <2>2. ASSUME NEW i \in IssueInputs, NEW f \in FieldsOf(i.op),
               NEW res \in Results, NEW rdata \in LoadWords,
               Tick(i, f, res, rdata)
        PROVE  OperandsInv'
    <3>1. LsuStallTracksAccess'
      <4>1. /\ EclNext(i.op, "none", 0, i.ale, 0, i.data_ok)
            /\ MemNext(data_req_e(i.ale), i.owed_ok, i.data_ok)
        BY <2>2 DEF Tick, IssueTick
      <4>2. LsuStallTracksAccess /\ pending \in Nat /\ lost \in BOOLEAN
        BY DEF OperandsInv, OperandsTypeOK, MaxPending
      <4>3. /\ i.ale \in BOOLEAN /\ i.owed_ok \in BOOLEAN
            /\ i.data_ok \in BOOLEAN
            /\ i.op # Bubble => ~lsu_stall_req
            /\ i.data_ok => pending > 0
        BY InputFacts DEF OperandsInv
      <4> QED
        BY <4>1, <4>2, <4>3, LsuStallStep
    <3> QED
      BY <2>2, <3>1, TypeStep, FieldsStep, NewestStep, HeldStep DEF OperandsInv
  <2> QED
    BY <2>1, <2>2 DEF Next
<1> QED
  BY <1>1, <1>2, PTL DEF Spec

(***************************************************************************)
(* Every result reaches the register file in program order: NewestCopy.    *)
(***************************************************************************)
THEOREM NoResultLost == Spec => []NewestCopy
<1>1. OperandsInv => NewestCopy
  BY DEF OperandsInv
<1> QED
  BY <1>1, OperandsCorrect, PTL

(***************************************************************************)
(* What an instruction computes with is what the program order gives it:   *)
(* OperandsCurrent, with its three named exceptions.                       *)
(***************************************************************************)
THEOREM OperandsAreCurrent == Spec => []OperandsCurrent
<1>1. OperandsInv => OperandsCurrent
  <2> SUFFICES ASSUME OperandsInv, NEW i \in IssueInputs, NEW v \in Values,
                      op_e # Bubble
               PROVE  /\ dec_e.rs1 # 0 /\ ~dec_e.a_pc =>
                           byp_rs1_data_e(i.data_ok, v) = {arch[dec_e.rs1]}
                      /\ dec_e.rs1 = 0 /\ Rs1Sel(i.data_ok) # {} =>
                           byp_rs1_data_e(i.data_ok, v) = {0}
                      /\ dec_e.rs2 # 0 /\ ~dec_e.b_imm /\ ~dec_e.double =>
                           byp_rs2_data_e(i.data_ok, v) = {arch[dec_e.rs2]}
                      /\ dec_e.rs2 = 0 \/ dec_e.b_imm =>
                           byp_rs2_data_e(i.data_ok, v) = {0}
    BY DEF OperandsCurrent
  <2> DEFINE d == i.data_ok
  <2>0. OperandsTypeOK /\ FieldsKept
    BY DEF OperandsInv
  <2>1. ~lsu_finish_m(d)
    BY <2>0, InputFacts DEF OperandsInv, LsuStallTracksAccess, lsu_finish_m
  <2>2. /\ RdDataM(d, v) = {res_m}
        /\ \A r \in Writable : wen_m(d) /\ rd_m(d) = r <=> HeldByM(r)
    BY <2>0, <2>1, ResultInM
  <2>3. dec_e.rs1 \in Regs /\ dec_e.rs2 \in Regs
    BY <2>0 DEF OperandsTypeOK, Fields
  <2>4. ASSUME NEW sel, NEW rf
        PROVE  Bypassed(sel, rf, d, v) =
                   DpMux(sel, [rf |-> rf, m |-> res_m, w |-> rd_data_w], Values)
    BY <2>2 DEF Bypassed
  <2>5. ASSUME NEW rf
        PROVE  /\ Bypassed({"rf"}, rf, d, v) = {rf}
               /\ Bypassed({"m"}, rf, d, v) = {res_m}
               /\ Bypassed({"w"}, rf, d, v) = {rd_data_w}
    <3> DEFINE in == [rf |-> rf, m |-> res_m, w |-> rd_data_w]
    <3>1. ASSUME NEW s \in {"rf", "m", "w"}
          PROVE  DpMux({s}, in, Values) = {in[s]}
      BY DEF DpMux, OneCold
    <3> QED
      BY <2>4, <3>1
  <2>6. ASSUME dec_e.rs1 # 0, ~dec_e.a_pc
        PROVE  byp_rs1_data_e(d, v) = {arch[dec_e.rs1]}
    <3>1. use_m(dec_e.rs1, d) <=> HeldByM(dec_e.rs1)
      BY <2>2, <2>3, <2>6 DEF use_m, Writable
    <3>2. Rs1Sel(d) = IF HeldByM(dec_e.rs1) THEN {"m"}
                      ELSE IF wen_w /\ rd_w = dec_e.rs1 THEN {"w"} ELSE {"rf"}
      BY <2>6, <3>1 DEF Rs1Sel, use_w
    <3>3. byp_rs1_data_e(d, v) = {Seen(dec_e.rs1, alu_a_e)}
      BY <2>5, <3>2 DEF byp_rs1_data_e, Seen
    <3> QED
      BY <2>6, <3>3 DEF OperandsInv, OperandsHeld
  <2>7. ASSUME dec_e.rs1 = 0, Rs1Sel(d) # {}
        PROVE  byp_rs1_data_e(d, v) = {0}
    <3>1. Rs1Sel(d) = {"rf"}
      BY <2>7 DEF Rs1Sel
    <3> QED
      BY <2>5, <2>7, <3>1 DEF byp_rs1_data_e, OperandsInv, OperandsHeld
  <2>8. ASSUME dec_e.rs2 # 0, ~dec_e.b_imm, ~dec_e.double
        PROVE  byp_rs2_data_e(d, v) = {arch[dec_e.rs2]}
    <3>1. use_m(dec_e.rs2, d) <=> HeldByM(dec_e.rs2)
      BY <2>2, <2>3, <2>8 DEF use_m, Writable
    <3>2. Rs2Sel(d) = IF HeldByM(dec_e.rs2) THEN {"m"}
                      ELSE IF wen_w /\ rd_w = dec_e.rs2 THEN {"w"} ELSE {"rf"}
      BY <2>8, <3>1 DEF Rs2Sel, use_w
    <3>3. byp_rs2_data_e(d, v) = {Seen(dec_e.rs2, alu_b_e)}
      BY <2>5, <3>2 DEF byp_rs2_data_e, Seen
    <3> QED
      BY <2>8, <3>3 DEF OperandsInv, OperandsHeld
  <2>9. ASSUME dec_e.rs2 = 0 \/ dec_e.b_imm
        PROVE  byp_rs2_data_e(d, v) = {0}
    <3>1. Rs2Sel(d) = {"rf"}
      BY <2>9 DEF Rs2Sel
    <3> QED
      BY <2>5, <2>9, <3>1 DEF byp_rs2_data_e, OperandsInv, OperandsHeld
  <2> QED
    BY <2>6, <2>7, <2>8, <2>9
<1> QED
  BY <1>1, OperandsCorrect, PTL
=============================================================================
