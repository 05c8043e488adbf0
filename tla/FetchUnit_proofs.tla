-------------------------- MODULE FetchUnit_proofs ---------------------------
(***************************************************************************)
(* Theorems about the front end: for every number of lines and ways and    *)
(* every way of splitting a line's address into tag and index, the cache   *)
(* answers with the word at pc_f.                                          *)
(***************************************************************************)
EXTENDS FetchUnit, TLAPS

(***************************************************************************)
(* Arithmetic of addresses: a word is found in its line, at its offset.    *)
(***************************************************************************)
LEMMA AddressFacts ==
    ASSUME NEW p \in Word
    PROVE  /\ LineOf(p) \in Line /\ OffsetOf(p) \in Offset
           /\ OffsetOf(p) \div 2 \in 0 .. 3
           /\ WordIn(BeatOf(LineOf(p), OffsetOf(p) \div 2), OffsetOf(p)) = p
  BY NLinesAssumption
     DEF Word, NWords, LineOf, OffsetOf, Line, Offset, WordIn, BeatOf

(****************************************************************************)
(* The beats of a line are consecutive, and none is the absent one.        *)
(****************************************************************************)
LEMMA BeatFacts ==
    ASSUME NEW l \in Line, NEW k \in 0 .. 3
    PROVE  /\ BeatOf(l, k) \in Beat /\ BeatOf(l, k) # NoBeat
           /\ BeatOf(l, k) % 4 = k
           /\ k < 3 => BeatOf(l, k) + 1 = BeatOf(l, k + 1)
  BY NLinesAssumption DEF Line, BeatOf, Beat, NoBeat

(***************************************************************************)
(* The tag and index of a line find it again.                              *)
(***************************************************************************)
LEMMA LineAtFacts ==
    ASSUME NEW l \in Line PROVE LineAt(Tag[l], Index[l]) = l
  BY SplitAssumption DEF LineAt

(***************************************************************************)
(* Whatever its selects, the next fetch address is a word.                 *)
(***************************************************************************)
LEMMA NextPcType ==
    ASSUME NEW w, NEW t \in Word, pc_f \in Word
    PROVE  F!PcBf(w, t, t, t) \subseteq Word
<1>0. F!Word = Word
  BY DEF F!Word, Word
<1> DEFINE in1 == [old |-> pc_f, pcinc |-> F!Inc(pc_f), brpc |-> t]
<1> DEFINE in2(m) == [mux1 |-> m, excpc |-> t, ertnpc |-> t]
<1>1. F!Inc(pc_f) \in Word
  BY NLinesAssumption DEF F!Inc, Word, NWords
<1>2. \A s \in F!PcbfMux1Sel(w) : in1[s] \in Word
  <2>1. \A s \in {"old", "pcinc", "brpc"} : in1[s] \in Word
    BY <1>1
  <2> QED
    BY <2>1 DEF F!PcbfMux1Sel
<1>3. F!DpMux(F!PcbfMux1Sel(w), in1, Word) \subseteq Word
  BY <1>2 DEF F!DpMux
<1>4. ASSUME NEW m \in Word
      PROVE  F!DpMux(F!PcbfMux2Sel(w), in2(m), Word) \subseteq Word
  <2>1. \A s \in {"mux1", "excpc", "ertnpc"} : in2(m)[s] \in Word
    OBVIOUS
  <2>2. F!PcbfMux2Sel(w) \subseteq {"mux1", "excpc", "ertnpc"}
    BY DEF F!PcbfMux2Sel
  <2> QED
    BY <2>1, <2>2 DEF F!DpMux
<1> QED
  BY <1>0, <1>3, <1>4 DEF F!PcBf

(***************************************************************************)
(* With nothing asked and no word delivered, the address is held.          *)
(***************************************************************************)
LEMMA HeldPc ==
    ASSUME NEW i \in Inputs, ~inst_cancel(i), ~inst_valid, NEW t
    PROVE  F!PcBf(FdpWires(i), t, t, t) = {pc_f}
<1> DEFINE w == FdpWires(i)
<1>1. ~w.inst_valid /\ ~w.br_taken /\ ~w.except /\ ~w.ertn
  BY DEF inst_cancel, FdpWires, Inputs, Asked
<1> HIDE DEF w
<1>2. F!PcbfMux1Sel(w) = {"old"}
  BY <1>1 DEF F!PcbfMux1Sel
<1>3. F!PcbfMux2Sel(w) = {"mux1"}
  BY <1>1, <1>2 DEF F!PcbfMux2Sel
<1>4. F!OneCold({"old"}) /\ F!OneCold({"mux1"})
  BY DEF F!OneCold
<1> DEFINE in1 == [old |-> pc_f, pcinc |-> F!Inc(pc_f), brpc |-> t]
<1> DEFINE in2(m) == [mux1 |-> m, excpc |-> t, ertnpc |-> t]
<1>5. F!DpMux(F!PcbfMux1Sel(w), in1, F!Word) = {pc_f}
  <2>1. {in1[s] : s \in {"old"}} = {pc_f}
    OBVIOUS
  <2> QED
    BY <1>2, <1>4, <2>1 DEF F!DpMux
<1>6. \A m : F!DpMux(F!PcbfMux2Sel(w), in2(m), F!Word) = {m}
  <2>1. \A m : {in2(m)[s] : s \in {"mux1"}} = {m}
    OBVIOUS
  <2> QED
    BY <1>3, <1>4, <2>1 DEF F!DpMux
<1> DEFINE mux1 == F!DpMux(F!PcbfMux1Sel(w), in1, F!Word)
           mux2(m) == F!DpMux(F!PcbfMux2Sel(w), in2(m), F!Word)
<1>7. F!PcBf(w, t, t, t) = UNION {mux2(m) : m \in mux1}
  BY DEF F!PcBf
<1>8. mux1 = {pc_f} /\ \A m : mux2(m) = {m}
  BY <1>5, <1>6
<1> HIDE DEF mux1, mux2
<1>9. UNION {mux2(m) : m \in mux1} = {pc_f}
  BY <1>8
<1> QED
  BY <1>7, <1>9 DEF w

----------------------------------------------------------------------------
(***************************************************************************)
(* A step as the lemmas below use it: the address presented, whether the   *)
(* requests in flight are cancelled, and what the bus does.                *)
(***************************************************************************)
BusStep(rdy, ret) ==
    ret_beat' = IF rd_req /\ rdy THEN BeatOf(rd_line, 0)
                ELSE IF ~ret THEN ret_beat
                ELSE IF ret_beat % 4 = 3 THEN NoBeat ELSE ret_beat + 1

Step(pc, cancel, rdy, ret) ==
    /\ pc \in Word /\ cancel \in BOOLEAN /\ rdy \in BOOLEAN /\ ret \in BOOLEAN
    /\ rdy => rd_req
    /\ ret => ret_beat # NoBeat
    /\ ~cancel /\ ~inst_valid => pc = pc_f
    /\ pc_f' = pc
    /\ IcacheNext(pc, cancel, rdy, ret, ret_beat)
    /\ BusStep(rdy, ret)

(***************************************************************************)
(* Every step is one.                                                      *)
(***************************************************************************)
LEMMA TickIsStep ==
    ASSUME TypeOK, NEW i \in Inputs, Tick(i)
    PROVE  \E pc, cancel, rdy, ret : Step(pc, cancel, rdy, ret)
<1>1. i.core.target \in Word
  <2>1. 0 \in Word /\ Targets \subseteq Word
    BY TargetsAssumption, NLinesAssumption DEF Word, NWords
  <2>2. i.core \in Asked
    BY DEF Inputs
  <2>3. i.core.target \in {0} \cup Targets
    BY <2>2 DEF Asked
  <2> QED
    BY <2>1, <2>3
<1>2. /\ i.rd_ready \in BOOLEAN /\ i.ret \in BOOLEAN
      /\ i.rd_ready => rd_req
      /\ i.ret => ret_beat # NoBeat
  <2>1. /\ i.rd_ready \in IF rd_req THEN BOOLEAN ELSE {FALSE}
        /\ i.ret \in IF ret_beat # NoBeat THEN BOOLEAN ELSE {FALSE}
    BY DEF Inputs
  <2>2. CASE rd_req /\ ret_beat # NoBeat
    BY <2>1, <2>2
  <2>3. CASE rd_req /\ ret_beat = NoBeat
    BY <2>1, <2>3
  <2>4. CASE ~rd_req /\ ret_beat # NoBeat
    BY <2>1, <2>4
  <2>5. CASE ~rd_req /\ ret_beat = NoBeat
    BY <2>1, <2>5
  <2> QED
    BY <2>2, <2>3, <2>4, <2>5
<1> DEFINE t == i.core.target
<1>3. PICK pc \in F!PcBf(FdpWires(i), t, t, t) :
          pc_f' = pc /\ IcacheNext(pc, inst_cancel(i), i.rd_ready, i.ret, ret_beat)
  BY DEF Tick
<1>4. pc \in Word
  BY <1>1, <1>3, NextPcType DEF TypeOK
<1>5. ~inst_cancel(i) /\ ~inst_valid => pc = pc_f
  <2> SUFFICES ASSUME ~inst_cancel(i), ~inst_valid PROVE pc = pc_f
    OBVIOUS
  <2>1. F!PcBf(FdpWires(i), t, t, t) = {pc_f}
    BY HeldPc
  <2> QED
    BY <1>3, <2>1
<1>6. inst_cancel(i) \in BOOLEAN
  BY DEF inst_cancel
<1>7. BusStep(i.rd_ready, i.ret)
  BY DEF Tick, BusNext, BusStep
<1>8. Step(pc, inst_cancel(i), i.rd_ready, i.ret)
  BY <1>2, <1>3, <1>4, <1>5, <1>6, <1>7 DEF Step
<1> QED
  BY <1>8

(***************************************************************************)
(* What a step does with the request: takes another, starts the refill of  *)
(* its line, finds it in the buffer, blocks it, or lets it wait.           *)
(***************************************************************************)
Takes  == /\ inst_addr_ok /\ state' = "lkup"
          /\ ~rfil_alloc /\ ~rfil_hit /\ ~rfil_refill /\ state # "blck"
Starts == /\ ~inst_addr_ok /\ state = "lkup" /\ cache_miss /\ state' = "idle"
          /\ rfil_state = "idle" /\ rfil_alloc /\ ~rfil_refill /\ ~rfil_hit
Finds  == /\ ~inst_addr_ok /\ state = "lkup" /\ cache_miss /\ state' = "idle"
          /\ rfil_state # "idle" /\ rfil_hit /\ ~rfil_alloc /\ ~rfil_refill
Blocks == /\ ~inst_addr_ok /\ state = "lkup" /\ cache_miss /\ state' = "blck"
          /\ rfil_state # "idle" /\ ~rfil_hit /\ ~rfil_alloc /\ ~rfil_refill
Refills == /\ ~inst_addr_ok /\ state = "blck" /\ state' = "idle"
           /\ rfil_refill /\ rfil_alloc /\ ~rfil_hit
Waits  == /\ ~inst_addr_ok /\ state # "lkup" /\ state' = state
          /\ ~rfil_alloc /\ ~rfil_hit /\ ~rfil_refill
          /\ state = "idle" => rfil_send_cpu /\ ~miss_data_ok

(****************************************************************************)
(* Every step is of one of these six kinds.                                *)
(****************************************************************************)
LEMMA StepKinds ==
    ASSUME TypeOK, FetchInv, NEW pc, NEW cancel, NEW rdy, NEW ret,
           Step(pc, cancel, rdy, ret)
    PROVE  Takes \/ Starts \/ Finds \/ Blocks \/ Refills \/ Waits
<1>1. /\ tlb_finish <=> state = "lkup"
      /\ rfil_send_cpu => state = "idle" /\ rfil_state # "idle"
      /\ state = "blck" => rfil_state # "idle"
  BY DEF FetchInv, StatesAgree
<1>2. StateNext /\ state \in {"idle", "lkup", "blck"}
  BY DEF Step, IcacheNext, TypeOK, IcacheTypeOK
<1>3. rfil_hit => ~cache_hit
  <2> SUFFICES ASSUME rfil_hit, cache_hit PROVE FALSE
    OBVIOUS
  <2>1. PICK w \in Ways : array[index][w].valid /\ array[index][w].tag = tlb_ptag
    BY DEF cache_hit, way_hit
  <2>2. Holds(rfil_index, w, rfil_ptag) /\ rfil_state # "idle"
    BY <2>1 DEF rfil_hit, Holds
  <2> QED
    BY <2>2 DEF FetchInv, OneCopy
<1>4. cache_miss <=> tlb_finish /\ ~cache_hit
  BY DEF cache_miss, cache_hit
<1>5. CASE state = "idle"
  BY <1>1, <1>2, <1>4, <1>5
     DEF StateNext, inst_addr_ok, rfil_hit, rfil_refill, rfil_alloc, cache_hit,
         Takes, Waits
<1>6. CASE state = "blck"
  BY <1>1, <1>2, <1>4, <1>6
     DEF StateNext, inst_addr_ok, rfil_hit, rfil_refill, rfil_alloc, cache_hit,
         Refills, Waits
<1>7. CASE state = "lkup" /\ cache_hit
  BY <1>1, <1>2, <1>3, <1>4, <1>7
     DEF StateNext, inst_addr_ok, rfil_refill, rfil_alloc, Takes
<1>8. CASE state = "lkup" /\ ~cache_hit
  <2>1. /\ tlb_finish /\ cache_miss /\ ~rfil_send_cpu /\ ~inst_addr_ok
        /\ ~rfil_refill
    BY <1>1, <1>4, <1>8 DEF inst_addr_ok, rfil_refill
  <2>2. rfil_alloc <=> rfil_state = "idle"
    BY <2>1, <1>8 DEF rfil_alloc
  <2>3. rfil_hit => rfil_state # "idle"
    BY DEF rfil_hit
  <2> QED
    BY <1>2, <1>8, <2>1, <2>2, <2>3 DEF StateNext, Starts, Finds, Blocks
<1> QED
  BY <1>2, <1>5, <1>6, <1>7, <1>8

(***************************************************************************)
(* The states of the cache, the lookup and the refill stay in agreement.   *)
(***************************************************************************)
LEMMA StatesStep ==
    ASSUME TypeOK, FetchInv, NEW pc, NEW cancel, NEW rdy, NEW ret,
           Step(pc, cancel, rdy, ret)
    PROVE  StatesAgree'
<1>1. /\ tlb_finish' = inst_addr_ok
      /\ rfil_send_cpu' = (rfil_new_req \/ (rfil_send_cpu /\ ~miss_data_ok))
      /\ rfil_state' = IF rfil_alloc THEN "addr"
                       ELSE IF rd_req /\ rdy THEN "data" ELSE rfil_state
  BY DEF Step, IcacheNext, RequestNext, RfilNext
<1>2. /\ tlb_finish <=> state = "lkup"
      /\ rfil_send_cpu => state = "idle" /\ rfil_state # "idle"
      /\ state = "blck" => rfil_state # "idle"
  BY DEF FetchInv, StatesAgree
<1>3. inst_addr_ok => (~rfil_send_cpu \/ miss_data_ok)
  BY DEF inst_addr_ok
<1>4. Takes \/ Starts \/ Finds \/ Blocks \/ Refills \/ Waits
  BY StepKinds
<1> QED
  BY <1>1, <1>2, <1>3, <1>4
     DEF StatesAgree, rfil_new_req, Takes, Starts, Finds, Blocks, Refills,
         Waits

(****************************************************************************)
(* A request that is not cancelled stays the one for pc_f.                 *)
(****************************************************************************)
LEMMA RequestStep ==
    ASSUME TypeOK, FetchInv, NEW pc, NEW cancel, NEW rdy, NEW ret,
           Step(pc, cancel, rdy, ret)
    PROVE  RequestIsPc'
<1>1. /\ IF inst_addr_ok THEN index' = Index[LineOf(pc)] /\ offset' = OffsetOf(pc)
                         ELSE index' = index /\ offset' = offset
      /\ inst_cancel_reg' = (cancel \/ (inst_cancel_reg /\ ~inst_addr_ok))
      /\ tlb_ptag' = Tag[LineOf(pc)]
      /\ blck_ptag' = IF state = "lkup" /\ cache_miss /\ ~rfil_hit
                      THEN tlb_ptag ELSE blck_ptag
      /\ pc_f' = pc
      /\ ~cancel /\ ~inst_valid => pc = pc_f
  BY DEF Step, IcacheNext, RequestNext
<1>2. /\ rfil_send_cpu' = (rfil_new_req \/ (rfil_send_cpu /\ ~miss_data_ok))
      /\ IF rfil_new_req
         THEN /\ rfil_ptag' = IF state = "blck" THEN blck_ptag ELSE tlb_ptag
              /\ rfil_index' = index /\ rfil_offset' = offset
         ELSE /\ rfil_ptag' = rfil_ptag
              /\ rfil_index' = rfil_index /\ rfil_offset' = rfil_offset
  BY DEF Step, IcacheNext, RfilNext
<1>3. RequestIsPc
  BY DEF FetchInv
<1>4. inst_valid => inst_addr_ok
  BY DEF FetchInv, StatesAgree, inst_valid, inst_addr_ok, cache_hit, miss_data_ok
<1>5. inst_addr_ok => (~rfil_send_cpu \/ miss_data_ok)
  BY DEF inst_addr_ok
<1>6. Takes \/ Starts \/ Finds \/ Blocks \/ Refills \/ Waits
  BY StepKinds
<1>7. LineOf(pc_f)' = LineOf(pc) /\ OffsetOf(pc_f)' = OffsetOf(pc)
  BY <1>1 DEF LineOf, OffsetOf
<1>8. CASE Takes
  BY <1>1, <1>2, <1>5, <1>7, <1>8 DEF Takes, RequestIsPc, rfil_new_req
<1>9. CASE ~inst_addr_ok
  <2>1. ~inst_cancel_reg' => ~inst_cancel_reg /\ pc = pc_f
    BY <1>1, <1>4, <1>9
  <2>2. state' # "lkup"
    BY <1>6, <1>9 DEF Takes, Starts, Finds, Blocks, Refills, Waits
  <2>3. ASSUME state' = "blck", ~inst_cancel_reg'
        PROVE  /\ blck_ptag' = Tag[LineOf(pc)]
               /\ index' = Index[LineOf(pc)] /\ offset' = OffsetOf(pc)
    <3>1. Blocks \/ (Waits /\ state = "blck")
      BY <1>6, <1>9, <2>3 DEF Takes, Starts, Finds, Blocks, Refills, Waits
    <3> QED
      BY <1>1, <1>3, <1>9, <2>1, <2>3, <3>1 DEF Blocks, Waits, RequestIsPc
  <2>4. ASSUME rfil_send_cpu', ~inst_cancel_reg'
        PROVE  /\ rfil_ptag' = Tag[LineOf(pc)]
               /\ rfil_index' = Index[LineOf(pc)] /\ rfil_offset' = OffsetOf(pc)
    <3>1. CASE rfil_new_req
      BY <1>2, <1>3, <1>6, <1>9, <2>1, <2>4, <3>1
         DEF RequestIsPc, rfil_new_req, Takes, Starts, Finds, Blocks, Refills,
             Waits
    <3>2. CASE ~rfil_new_req
      BY <1>2, <1>3, <2>1, <2>4, <3>2 DEF RequestIsPc
    <3> QED
      BY <3>1, <3>2
  <2> QED
    BY <1>7, <2>2, <2>3, <2>4 DEF RequestIsPc
<1> QED
  BY <1>6, <1>8, <1>9 DEF Starts, Finds, Blocks, Refills, Waits

(****************************************************************************)
(* A miss that waits for the buffer stays a miss of another line.          *)
(****************************************************************************)
LEMMA BlockedStep ==
    ASSUME TypeOK, FetchInv, NEW pc, NEW cancel, NEW rdy, NEW ret,
           Step(pc, cancel, rdy, ret)
    PROVE  BlockedIsMiss'
<1> SUFFICES ASSUME state' = "blck" PROVE BlockedIsMiss'
  BY DEF BlockedIsMiss
<1>1. Blocks \/ (Waits /\ state = "blck")
  BY StepKinds DEF Takes, Starts, Finds, Blocks, Refills, Waits
<1>2. UNCHANGED <<index, rfil_ptag, rfil_index, array>>
  BY <1>1 DEF Step, IcacheNext, RequestNext, RfilNext, ArrayNext, rfil_new_req,
              Blocks, Waits
<1>3. blck_ptag' = IF state = "lkup" /\ cache_miss /\ ~rfil_hit
                   THEN tlb_ptag ELSE blck_ptag
  BY DEF Step, IcacheNext, RequestNext
<1>4. CASE Blocks
  <2>1. /\ blck_ptag' = tlb_ptag /\ index' = index /\ state = "lkup"
        /\ tlb_finish /\ rfil_state # "idle" /\ ~rfil_hit /\ way_hit = {}
    BY <1>2, <1>3, <1>4 DEF Blocks, cache_miss
  <2>2. LineOf(pc_f) \in Line
    BY AddressFacts DEF TypeOK
  <2>3. tlb_ptag = Tag[LineOf(pc_f)] /\ index = Index[LineOf(pc_f)]
    BY <2>1 DEF FetchInv, RequestIsPc
  <2>4. ~(tlb_ptag = rfil_ptag /\ index = rfil_index)
    BY <2>1 DEF rfil_hit
  <2>5. \A w \in Ways : ~(array[index][w].valid /\ array[index][w].tag = tlb_ptag)
    BY <2>1 DEF way_hit
  <2> QED
    BY <1>2, <2>1, <2>2, <2>3, <2>4, <2>5 DEF BlockedIsMiss, Holds
<1>5. CASE Waits /\ state = "blck"
  <2>1. blck_ptag' = blck_ptag /\ BlockedIsMiss
    BY <1>3, <1>5 DEF FetchInv
  <2> QED
    BY <1>2, <1>5, <2>1 DEF BlockedIsMiss, Holds
<1> QED
  BY <1>1, <1>4, <1>5

(***************************************************************************)
(* The refill buffer and the bus.                                          *)
(***************************************************************************)
LEMMA BufferStep ==
    ASSUME TypeOK, FetchInv, NEW pc, NEW cancel, NEW rdy, NEW ret,
           Step(pc, cancel, rdy, ret)
    PROVE  BufferTracksBus'
<1>1. /\ rfil_state' = IF rfil_alloc THEN "addr"
                       ELSE IF rd_req /\ rdy THEN "data" ELSE rfil_state
      /\ IF rfil_new_req
         THEN /\ rfil_ptag' = IF state = "blck" THEN blck_ptag ELSE tlb_ptag
              /\ rfil_index' = index
         ELSE rfil_ptag' = rfil_ptag /\ rfil_index' = rfil_index
  BY DEF Step, IcacheNext, RfilNext
<1>2. /\ rfil_record' = IF rfil_alloc THEN 0
                        ELSE IF rfil_state = "data" /\ ret /\ rfil_record < 4
                        THEN rfil_record + 1 ELSE rfil_record
      /\ rfil_data' = IF ret /\ rfil_record < 4
                      THEN [rfil_data EXCEPT ![rfil_record] = ret_beat]
                      ELSE rfil_data
  BY DEF Step, IcacheNext, DataNext
<1>3. /\ ret_beat' = IF rd_req /\ rdy THEN BeatOf(rd_line, 0)
                     ELSE IF ~ret THEN ret_beat
                     ELSE IF ret_beat % 4 = 3 THEN NoBeat ELSE ret_beat + 1
      /\ rdy => rd_req
      /\ ret => ret_beat # NoBeat
      /\ ret \in BOOLEAN
  BY DEF Step, BusStep
<1>4. /\ rfil_record \in 0 .. 4 /\ rfil_data \in LineData
      /\ rfil_state \in {"idle", "addr", "data"}
  BY DEF TypeOK, IcacheTypeOK
<1>5. BufferTracksBus
  BY DEF FetchInv
<1>6. Takes \/ Starts \/ Finds \/ Blocks \/ Refills \/ Waits
  BY StepKinds
<1>7. CASE rfil_alloc
  <2>1. Starts \/ Refills
    BY <1>6, <1>7 DEF Takes, Starts, Finds, Blocks, Refills, Waits
  <2>2. ret_beat = NoBeat /\ ~rd_req
    <3>1. CASE Starts
      BY <1>5, <3>1 DEF Starts, BufferTracksBus, rd_req
    <3>2. CASE Refills
      BY <1>5, <3>2 DEF Refills, rfil_refill, BufferTracksBus, rd_req
    <3> QED
      BY <2>1, <3>1, <3>2
  <2>3. ret_beat' = NoBeat
    BY <1>3, <2>2
  <2>4. \E l \in Line : rfil_ptag' = Tag[l] /\ rfil_index' = Index[l]
    <3>1. CASE Starts
      <4>1. LineOf(pc_f) \in Line
        BY AddressFacts DEF TypeOK
      <4>2. tlb_ptag = Tag[LineOf(pc_f)] /\ index = Index[LineOf(pc_f)]
        BY <3>1 DEF Starts, FetchInv, RequestIsPc
      <4> QED
        BY <1>1, <3>1, <4>1, <4>2 DEF Starts, rfil_new_req
    <3>2. CASE Refills
      BY <1>1, <3>2 DEF Refills, rfil_new_req, FetchInv, BlockedIsMiss
    <3> QED
      BY <2>1, <3>1, <3>2
  <2>5. rfil_state' = "addr" /\ rfil_record' = 0
    BY <1>1, <1>2, <1>7
  <2> QED
    BY <2>3, <2>4, <2>5 DEF BufferTracksBus
<1>8. CASE ~rfil_alloc
  <2>1. rfil_ptag' = rfil_ptag /\ rfil_index' = rfil_index
    <3>1. rfil_hit => state = "lkup" /\ tlb_ptag = rfil_ptag /\ index = rfil_index
      BY DEF rfil_hit
    <3> QED
      BY <1>1, <1>8, <3>1 DEF rfil_new_req
  <2>2. CASE rfil_state = "idle"
    <3>1. ret_beat = NoBeat /\ ~rd_req
      BY <1>5, <2>2 DEF BufferTracksBus, rd_req
    <3> QED
      BY <1>1, <1>3, <1>8, <2>2, <3>1 DEF BufferTracksBus
  <2>3. CASE rfil_state # "idle"
    <3>1. PICK l \in Line :
            /\ rfil_ptag = Tag[l] /\ rfil_index = Index[l]
            /\ \A k \in 0 .. 3 : k < rfil_record => rfil_data[k] = BeatOf(l, k)
            /\ rfil_state = "addr" => rfil_record = 0
            /\ ret_beat = IF rfil_state = "data" /\ rfil_record < 4
                          THEN BeatOf(l, rfil_record) ELSE NoBeat
      BY <1>5, <2>3 DEF BufferTracksBus
    <3> SUFFICES /\ rfil_state' # "idle"
                 /\ \A k \in 0 .. 3 : k < rfil_record' => rfil_data'[k] = BeatOf(l, k)
                 /\ rfil_state' = "addr" => rfil_record' = 0
                 /\ ret_beat' = IF rfil_state' = "data" /\ rfil_record' < 4
                                THEN BeatOf(l, rfil_record') ELSE NoBeat
      BY <2>1, <3>1 DEF BufferTracksBus, BeatOf
    <3>2. CASE rfil_state = "addr"
      <4>1. rd_line = l
        BY <3>1, LineAtFacts DEF rd_line
      <4>2. rd_req /\ ~ret /\ rfil_record = 0
        BY <1>3, <3>1, <3>2 DEF rd_req
      <4>3. UNCHANGED <<rfil_record, rfil_data>>
        BY <1>2, <1>8, <4>2
      <4> QED
        BY <1>1, <1>3, <1>8, <3>1, <3>2, <4>1, <4>2, <4>3
    <3>3. CASE rfil_state = "data" /\ ~ret
      BY <1>1, <1>2, <1>3, <1>8, <3>1, <3>3 DEF rd_req
    <3>4. CASE rfil_state = "data" /\ ret
      <4>1. rfil_record \in 0 .. 3 /\ ret_beat = BeatOf(l, rfil_record)
        BY <1>3, <1>4, <3>1, <3>4
      <4>2. /\ ret_beat % 4 = rfil_record
            /\ rfil_record < 3 => ret_beat + 1 = BeatOf(l, rfil_record + 1)
        BY <4>1, BeatFacts
      <4>3. /\ rfil_record' = rfil_record + 1 /\ rfil_state' = "data"
            /\ rfil_data' = [rfil_data EXCEPT ![rfil_record] = ret_beat]
        BY <1>1, <1>2, <1>8, <3>4, <4>1 DEF rd_req
      <4>4. \A k \in 0 .. 3 : k < rfil_record' => rfil_data'[k] = BeatOf(l, k)
        BY <1>4, <3>1, <4>1, <4>3 DEF LineData
      <4>5. ret_beat' = IF rfil_record = 3 THEN NoBeat ELSE ret_beat + 1
        BY <1>3, <3>4, <4>2 DEF rd_req
      <4> QED
        BY <4>1, <4>2, <4>3, <4>4, <4>5
    <3> QED
      BY <1>3, <1>4, <2>3, <3>2, <3>3, <3>4
  <2> QED
    BY <2>2, <2>3
<1> QED
  BY <1>7, <1>8

(***************************************************************************)
(* The arrays change only when a full buffer is written to them.           *)
(***************************************************************************)
LEMMA ArrayStep ==
    ASSUME TypeOK, FetchInv, NEW pc, NEW cancel, NEW rdy, NEW ret,
           Step(pc, cancel, rdy, ret)
    PROVE  \/ ~rfil_refill /\ array' = array
           \/ /\ Refills
              /\ \E l \in Line, w \in Ways :
                    /\ rfil_ptag = Tag[l] /\ rfil_index = Index[l]
                    /\ rfil_data = [k \in 0 .. 3 |-> BeatOf(l, k)]
                    /\ array' = [array EXCEPT ![rfil_index][w] =
                         [valid |-> TRUE, tag |-> rfil_ptag, data |-> rfil_data]]
<1>1. ArrayNext
  BY DEF Step, IcacheNext
<1>2. CASE ~rfil_refill
  BY <1>1, <1>2 DEF ArrayNext
<1>3. CASE rfil_refill
  <2>1. Refills
    BY <1>3, StepKinds DEF Takes, Starts, Finds, Blocks, Refills, Waits
  <2>2. rfil_state = "data" /\ rfil_record = 4
    BY <1>3 DEF rfil_refill
  <2>3. PICK l \in Line :
          /\ rfil_ptag = Tag[l] /\ rfil_index = Index[l]
          /\ \A k \in 0 .. 3 : k < rfil_record => rfil_data[k] = BeatOf(l, k)
    BY <2>2 DEF FetchInv, BufferTracksBus
  <2>4. rfil_data = [k \in 0 .. 3 |-> BeatOf(l, k)]
    <3>1. rfil_data = [k \in 0 .. 3 |-> rfil_data[k]]
      BY DEF TypeOK, IcacheTypeOK, LineData
    <3>2. \A k \in 0 .. 3 : rfil_data[k] = BeatOf(l, k)
      BY <2>2, <2>3
    <3> QED
      BY <3>1, <3>2
  <2>5. PICK w \in Ways :
          array' = [array EXCEPT ![rfil_index][w] =
                      [valid |-> TRUE, tag |-> rfil_ptag, data |-> rfil_data]]
    BY <1>1, <1>3 DEF ArrayNext
  <2> QED
    BY <2>1, <2>3, <2>4, <2>5
<1> QED
  BY <1>2, <1>3

(****************************************************************************)
(* What the arrays hold stays lines of memory.                             *)
(****************************************************************************)
LEMMA CoherentStep ==
    ASSUME TypeOK, FetchInv, NEW pc, NEW cancel, NEW rdy, NEW ret,
           Step(pc, cancel, rdy, ret)
    PROVE  ArrayCoherent'
<1>1. ArrayCoherent
  BY DEF FetchInv
<1>2. CASE array' = array
  BY <1>1, <1>2 DEF ArrayCoherent, BeatOf
<1>3. CASE array' # array
  <2>1. PICK l \in Line, w \in Ways :
          /\ rfil_ptag = Tag[l] /\ rfil_index = Index[l]
          /\ rfil_data = [k \in 0 .. 3 |-> BeatOf(l, k)]
          /\ array' = [array EXCEPT ![rfil_index][w] =
                         [valid |-> TRUE, tag |-> rfil_ptag, data |-> rfil_data]]
    BY <1>3, ArrayStep
  <2>2. array \in [Indexes -> [Ways -> Entry]]
    BY DEF TypeOK, IcacheTypeOK
  <2> SUFFICES ASSUME NEW i \in Indexes, NEW v \in Ways, array'[i][v].valid
               PROVE  \E m \in Line :
                        /\ Index[m] = i /\ Tag[m] = array'[i][v].tag
                        /\ array'[i][v].data = [k \in 0 .. 3 |-> BeatOf(m, k)]
    BY DEF ArrayCoherent, BeatOf
  <2>3. CASE i = rfil_index /\ v = w
    <3>1. array'[i][v] = [valid |-> TRUE, tag |-> rfil_ptag, data |-> rfil_data]
      BY <2>1, <2>2, <2>3
    <3>2. array'[i][v].tag = rfil_ptag /\ array'[i][v].data = rfil_data
      BY <3>1
    <3> QED
      BY <2>1, <2>3, <3>2
  <2>4. CASE ~(i = rfil_index /\ v = w)
    <3>1. array'[i][v] = array[i][v]
      BY <2>1, <2>2, <2>4
    <3> QED
      BY <1>1, <3>1 DEF ArrayCoherent
  <2> QED
    BY <2>3, <2>4
<1> QED
  BY <1>2, <1>3

(****************************************************************************)
(* No step makes a second copy of a line.                                  *)
(****************************************************************************)
LEMMA OneCopyStep ==
    ASSUME TypeOK, FetchInv, NEW pc, NEW cancel, NEW rdy, NEW ret,
           Step(pc, cancel, rdy, ret)
    PROVE  OneCopy'
<1>1. OneCopy
  BY DEF FetchInv
<1>2. /\ IF rfil_new_req
         THEN /\ rfil_ptag' = IF state = "blck" THEN blck_ptag ELSE tlb_ptag
              /\ rfil_index' = index
         ELSE rfil_ptag' = rfil_ptag /\ rfil_index' = rfil_index
      /\ rfil_state' = IF rfil_alloc THEN "addr"
                       ELSE IF rd_req /\ rdy THEN "data" ELSE rfil_state
  BY DEF Step, IcacheNext, RfilNext
<1>3. CASE ~rfil_refill
  <2>1. array' = array
    BY <1>3, ArrayStep DEF Refills
  <2>2. CASE rfil_alloc
    <3>1. Starts
      BY <1>3, <2>2, StepKinds DEF Takes, Starts, Finds, Blocks, Refills, Waits
    <3>2. \A w \in Ways : ~Holds(index, w, tlb_ptag)
      BY <3>1 DEF Starts, cache_miss, way_hit, Holds
    <3>3. rfil_ptag' = tlb_ptag /\ rfil_index' = index
      BY <1>2, <2>2, <3>1 DEF Starts, rfil_new_req
    <3> QED
      BY <1>1, <2>1, <3>2, <3>3 DEF OneCopy, Holds
  <2>3. CASE ~rfil_alloc
    <3>1. rfil_ptag' = rfil_ptag /\ rfil_index' = rfil_index
      <4>1. rfil_hit => state = "lkup" /\ tlb_ptag = rfil_ptag /\ index = rfil_index
        BY DEF rfil_hit
      <4> QED
        BY <1>2, <2>3, <4>1 DEF rfil_new_req
    <3>2. rfil_state' # "idle" => rfil_state # "idle"
      BY <1>2, <2>3 DEF rd_req
    <3> QED
      BY <1>1, <2>1, <3>1, <3>2 DEF OneCopy, Holds
  <2> QED
    BY <2>2, <2>3
<1>4. CASE rfil_refill
  <2>1. PICK w \in Ways :
          array' = [array EXCEPT ![rfil_index][w] =
                      [valid |-> TRUE, tag |-> rfil_ptag, data |-> rfil_data]]
    BY <1>4, ArrayStep
  <2>2. Refills /\ rfil_state # "idle"
    BY <1>4, ArrayStep DEF rfil_refill
  <2>3. array \in [Indexes -> [Ways -> Entry]]
    BY DEF TypeOK, IcacheTypeOK
  <2>4. ASSUME NEW i \in Indexes, NEW v \in Ways, NEW t, array'[i][v].valid,
               array'[i][v].tag = t
        PROVE  \/ i = rfil_index /\ v = w /\ t = rfil_ptag
               \/ ~(i = rfil_index /\ v = w) /\ Holds(i, v, t)
    <3>1. CASE i = rfil_index /\ v = w
      <4>1. array'[i][v] = [valid |-> TRUE, tag |-> rfil_ptag, data |-> rfil_data]
        BY <2>1, <2>3, <3>1
      <4>2. array'[i][v].tag = rfil_ptag
        BY <4>1
      <4> QED
        BY <2>4, <3>1, <4>2
    <3>2. CASE ~(i = rfil_index /\ v = w)
      <4>1. array'[i][v] = array[i][v]
        BY <2>1, <2>3, <3>2
      <4> QED
        BY <2>4, <3>2, <4>1 DEF Holds
    <3> QED
      BY <3>1, <3>2
  <2>5. \A v \in Ways : ~Holds(rfil_index, v, rfil_ptag)
    BY <1>1, <2>2 DEF OneCopy
  <2>6. ASSUME NEW i \in Indexes, NEW t \in Tags, NEW v \in Ways, NEW u \in Ways,
               Holds(i, v, t)', Holds(i, u, t)'
        PROVE  v = u
    <3>1. /\ \/ i = rfil_index /\ v = w /\ t = rfil_ptag
             \/ ~(i = rfil_index /\ v = w) /\ Holds(i, v, t)
          /\ \/ i = rfil_index /\ u = w /\ t = rfil_ptag
             \/ ~(i = rfil_index /\ u = w) /\ Holds(i, u, t)
      BY <2>4, <2>6 DEF Holds
    <3> QED
      BY <1>1, <2>5, <3>1 DEF OneCopy
  <2>7. /\ ~(blck_ptag = rfil_ptag /\ index = rfil_index)
        /\ \A v \in Ways : ~Holds(index, v, blck_ptag)
    BY <2>2 DEF Refills, FetchInv, BlockedIsMiss
  <2>8. rfil_ptag' = blck_ptag /\ rfil_index' = index /\ index \in Indexes
    BY <1>2, <2>2 DEF Refills, rfil_new_req, TypeOK, IcacheTypeOK
  <2>9. ASSUME NEW v \in Ways, Holds(index, v, blck_ptag)' PROVE FALSE
    <3>1. array'[index'][v].valid /\ array'[index'][v].tag = blck_ptag'
      BY <2>9 DEF Holds
    <3>2. index' = index /\ blck_ptag' = blck_ptag
      BY <2>2 DEF Refills, Step, IcacheNext, RequestNext
    <3> QED
      BY <2>4, <2>7, <2>8, <3>1, <3>2
  <2>10. index' = index /\ blck_ptag' = blck_ptag
    BY <2>2 DEF Refills, Step, IcacheNext, RequestNext
  <2> QED
    BY <2>6, <2>8, <2>9, <2>10 DEF OneCopy, Holds
<1> QED
  BY <1>3, <1>4

(***************************************************************************)
(* Type correctness of a step.                                             *)
(***************************************************************************)
LEMMA TypeStep ==
    ASSUME TypeOK, FetchInv, NEW pc, NEW cancel, NEW rdy, NEW ret,
           Step(pc, cancel, rdy, ret)
    PROVE  TypeOK'
<1>1. IcacheTypeOK /\ pc \in Word /\ pc_f' = pc /\ ret_beat \in Beat \cup {NoBeat}
  BY DEF TypeOK, Step
<1>2. IcacheNext(pc, cancel, rdy, ret, ret_beat) /\ BusStep(rdy, ret)
      /\ cancel \in BOOLEAN /\ (ret => ret_beat # NoBeat)
  BY DEF Step
<1>3. /\ LineOf(pc) \in Line /\ OffsetOf(pc) \in Offset
      /\ Tag[LineOf(pc)] \in Tags /\ Index[LineOf(pc)] \in Indexes
  BY <1>1, AddressFacts DEF Tags, Indexes
<1>4. state' \in {"idle", "lkup", "blck"}
  BY <1>1, <1>2 DEF IcacheNext, StateNext, IcacheTypeOK
<1>5. /\ index' \in Indexes /\ offset' \in Offset
      /\ inst_cancel_reg' \in BOOLEAN /\ tlb_finish' \in BOOLEAN
      /\ tlb_ptag' \in Tags /\ blck_ptag' \in Tags
  BY <1>1, <1>2, <1>3
     DEF IcacheNext, RequestNext, IcacheTypeOK, inst_addr_ok
<1>6. /\ rfil_state' \in {"idle", "addr", "data"} /\ rfil_send_cpu' \in BOOLEAN
      /\ rfil_ptag' \in Tags /\ rfil_index' \in Indexes /\ rfil_offset' \in Offset
  BY <1>1, <1>2 DEF IcacheNext, RfilNext, IcacheTypeOK, rfil_new_req
<1>7. rfil_record' \in 0 .. 4 /\ rfil_data' \in LineData
  <2>1. /\ rfil_record \in 0 .. 4 /\ rfil_data \in LineData
        /\ ret_beat \in Beat \cup {NoBeat}
    BY <1>1 DEF IcacheTypeOK
  <2>2. rfil_record' \in {0, rfil_record} \/
        (rfil_record < 4 /\ rfil_record' = rfil_record + 1)
    BY <1>2 DEF IcacheNext, DataNext
  <2>3. rfil_data' \in {rfil_data, [rfil_data EXCEPT ![rfil_record] = ret_beat]}
    BY <1>2 DEF IcacheNext, DataNext
  <2> QED
    BY <2>1, <2>2, <2>3 DEF LineData
<1>8. lru_en_valid' \in BOOLEAN /\ lru_wr_valid' \in BOOLEAN
  BY <1>2 DEF IcacheNext, rfil_alloc, cache_hit
<1>9. array' \in [Indexes -> [Ways -> Entry]]
  <2>1. CASE array' = array
    BY <1>1, <2>1 DEF IcacheTypeOK
  <2>2. CASE array' # array
    <3>1. PICK w \in Ways :
            array' = [array EXCEPT ![rfil_index][w] =
                        [valid |-> TRUE, tag |-> rfil_ptag, data |-> rfil_data]]
      BY <2>2, ArrayStep
    <3>2. [valid |-> TRUE, tag |-> rfil_ptag, data |-> rfil_data] \in Entry
      BY <1>1 DEF IcacheTypeOK, Entry
    <3> QED
      BY <1>1, <3>1, <3>2 DEF IcacheTypeOK
  <2> QED
    BY <2>1, <2>2
<1>10. ret_beat' \in Beat \cup {NoBeat}
  <2>1. CASE rd_req /\ rdy
    <3>1. PICK l \in Line : rfil_ptag = Tag[l] /\ rfil_index = Index[l]
      BY <2>1 DEF FetchInv, BufferTracksBus, rd_req
    <3>2. rd_line = l
      BY <3>1, LineAtFacts DEF rd_line
    <3>3. BeatOf(l, 0) \in Beat
      BY BeatFacts
    <3> QED
      BY <1>2, <2>1, <3>2, <3>3 DEF BusStep
  <2>2. CASE ~(rd_req /\ rdy)
    <3>1. ret_beat' = IF ~ret THEN ret_beat
                      ELSE IF ret_beat % 4 = 3 THEN NoBeat ELSE ret_beat + 1
      BY <1>2, <2>2 DEF BusStep
    <3>2. CASE ret /\ ret_beat % 4 # 3
      BY <1>1, <1>2, <3>1, <3>2, NLinesAssumption DEF Beat, NoBeat
    <3> QED
      BY <1>1, <3>1, <3>2
  <2> QED
    BY <2>1, <2>2
<1> QED
  BY <1>1, <1>4, <1>5, <1>6, <1>7, <1>8, <1>9, <1>10 DEF TypeOK, IcacheTypeOK

(***************************************************************************)
(* The invariant holds initially ...                                       *)
(***************************************************************************)
LEMMA InitCorrect == Init => TypeOK /\ FetchInv
<1> SUFFICES ASSUME Init PROVE TypeOK /\ FetchInv
  OBVIOUS
<1>1. 0 \in Line /\ 0 \in Word /\ 0 \in Offset
  BY NLinesAssumption DEF Line, Word, NWords, Offset
<1>2. Tag[0] \in Tags /\ Index[0] \in Indexes
  BY <1>1 DEF Tags, Indexes
<1>3. Blank \in LineData
  BY DEF Blank, LineData
<1>4. array \in [Indexes -> [Ways -> Entry]]
  <2>1. [valid |-> FALSE, tag |-> Tag[0], data |-> Blank] \in Entry
    BY <1>2, <1>3 DEF Entry
  <2> QED
    BY <2>1 DEF Init, IcacheInit
<1>5. \A i \in Indexes, w \in Ways : ~array[i][w].valid
  BY DEF Init, IcacheInit
<1>6. TypeOK
  BY <1>1, <1>2, <1>3, <1>4 DEF Init, IcacheInit, TypeOK, IcacheTypeOK
<1>7. StatesAgree /\ RequestIsPc /\ BufferTracksBus /\ BlockedIsMiss
  BY DEF Init, IcacheInit, StatesAgree, RequestIsPc, BufferTracksBus,
         BlockedIsMiss
<1>8. OneCopy /\ ArrayCoherent
  BY <1>5 DEF Init, IcacheInit, OneCopy, Holds, ArrayCoherent
<1> QED
  BY <1>6, <1>7, <1>8 DEF FetchInv

(***************************************************************************)
(* ... and every step preserves it.                                        *)
(***************************************************************************)
LEMMA NextCorrect == TypeOK /\ FetchInv /\ [Next]_vars => (TypeOK /\ FetchInv)'
<1> SUFFICES ASSUME TypeOK, FetchInv, [Next]_vars PROVE (TypeOK /\ FetchInv)'
  OBVIOUS
<1>1. CASE Next
  <2>1. PICK i \in Inputs : Tick(i)
    BY <1>1 DEF Next
  <2>2. PICK pc, cancel, rdy, ret : Step(pc, cancel, rdy, ret)
    BY <2>1, TickIsStep
  <2> QED
    BY <2>2, TypeStep, StatesStep, RequestStep, BufferStep, BlockedStep,
       OneCopyStep, CoherentStep DEF FetchInv
<1>2. CASE UNCHANGED vars
  <2> USE <1>2 DEF vars, icacheVars
  <2>1. TypeOK'
    BY DEF TypeOK, IcacheTypeOK
  <2>2. StatesAgree'
    BY DEF FetchInv, StatesAgree
  <2>3. RequestIsPc'
    BY DEF FetchInv, RequestIsPc, LineOf, OffsetOf
  <2>4. BufferTracksBus'
    BY DEF FetchInv, BufferTracksBus, BeatOf
  <2>5. BlockedIsMiss'
    BY DEF FetchInv, BlockedIsMiss, Holds
  <2>6. OneCopy'
    BY DEF FetchInv, OneCopy, Holds
  <2>7. ArrayCoherent'
    BY DEF FetchInv, ArrayCoherent, BeatOf
  <2> QED
    BY <2>1, <2>2, <2>3, <2>4, <2>5, <2>6, <2>7 DEF FetchInv
<1> QED
  BY <1>1, <1>2

(***************************************************************************)
(* The registers of the cache, of the refill buffer and of the bus keep    *)
(* their types; in particular the bus is only asked for lines of memory.   *)
(***************************************************************************)
THEOREM FetchTypeCorrect == Spec => []TypeOK
<1> QED
  BY InitCorrect, NextCorrect, PTL DEF Spec

(***************************************************************************)
(* The invariant of the front end: what the request, the buffer, the bus   *)
(* and the arrays say of each other is true in every cycle.                *)
(***************************************************************************)
THEOREM FetchCorrect == Spec => []FetchInv
<1> QED
  BY InitCorrect, NextCorrect, PTL DEF Spec

(***************************************************************************)
(* A line is never held twice, by two ways or by a way and the buffer.     *)
(***************************************************************************)
THEOREM NoSecondCopy == Spec => []OneCopy
<1>1. FetchInv => OneCopy
  BY DEF FetchInv
<1> QED
  BY <1>1, FetchCorrect, PTL

(***************************************************************************)
(* Every valid entry of the arrays holds a whole line of memory, under its *)
(* own tag and index.                                                      *)
(***************************************************************************)
THEOREM ArraysHoldMemory == Spec => []ArrayCoherent
<1>1. FetchInv => ArrayCoherent
  BY DEF FetchInv
<1> QED
  BY <1>1, FetchCorrect, PTL

(***************************************************************************)
(* The word the cache answers with is the one at pc_f: what module         *)
(* Pipeline takes for granted of the front end.                            *)
(***************************************************************************)
THEOREM FetchedWordCorrect == Spec => []FetchedWordIsPc
<1>1. TypeOK /\ FetchInv => FetchedWordIsPc
  <2> SUFFICES ASSUME TypeOK, FetchInv, inst_valid PROVE inst_rdata = {pc_f}
    BY DEF FetchedWordIsPc
  <2>1. /\ LineOf(pc_f) \in Line /\ OffsetOf(pc_f) \div 2 \in 0 .. 3
        /\ OffsetOf(pc_f) \in Offset
        /\ WordIn(BeatOf(LineOf(pc_f), OffsetOf(pc_f) \div 2), OffsetOf(pc_f)) = pc_f
    BY AddressFacts DEF TypeOK
  <2>2. ~inst_cancel_reg /\ (cache_hit \/ miss_data_ok)
    BY DEF inst_valid
  <2>3. /\ tlb_finish <=> state = "lkup"
        /\ rfil_send_cpu => state = "idle" /\ rfil_state # "idle"
    BY DEF FetchInv, StatesAgree
  <2>4. CASE cache_hit
    <3>1. /\ tlb_finish /\ way_hit # {} /\ ~miss_data_ok
          /\ tlb_ptag = Tag[LineOf(pc_f)] /\ index = Index[LineOf(pc_f)]
          /\ offset = OffsetOf(pc_f)
      BY <2>3, <2>4 DEF cache_hit, miss_data_ok, FetchInv, RequestIsPc
    <3>2. ASSUME NEW w \in way_hit
          PROVE  WordIn(array[index][w].data[offset \div 2], offset) = pc_f
      <4>1. /\ w \in Ways /\ array[index][w].valid
            /\ array[index][w].tag = tlb_ptag /\ index \in Indexes
        BY DEF way_hit, TypeOK, IcacheTypeOK
      <4>2. PICK l \in Line :
              /\ Index[l] = index /\ Tag[l] = array[index][w].tag
              /\ array[index][w].data = [k \in 0 .. 3 |-> BeatOf(l, k)]
        BY <4>1 DEF FetchInv, ArrayCoherent
      <4>3. l = LineOf(pc_f)
        BY <2>1, <3>1, <4>1, <4>2, SplitAssumption
      <4>4. array[index][w].data[offset \div 2] = BeatOf(l, OffsetOf(pc_f) \div 2)
        BY <2>1, <3>1, <4>2
      <4> QED
        BY <2>1, <3>1, <4>3, <4>4
    <3>3. inst_rdata = {WordIn(array[index][w].data[offset \div 2], offset) :
                            w \in way_hit}
      BY <3>1 DEF inst_rdata
    <3> QED
      BY <3>1, <3>2, <3>3
  <2>5. CASE ~cache_hit
    <3>1. /\ rfil_send_cpu /\ rfil_record >= BeatsNeeded(rfil_offset)
          /\ ~tlb_finish /\ rfil_state # "idle"
          /\ rfil_ptag = Tag[LineOf(pc_f)] /\ rfil_index = Index[LineOf(pc_f)]
          /\ rfil_offset = OffsetOf(pc_f)
      BY <2>2, <2>3, <2>5 DEF miss_data_ok, FetchInv, RequestIsPc
    <3>2. PICK l \in Line :
            /\ rfil_ptag = Tag[l] /\ rfil_index = Index[l]
            /\ \A k \in 0 .. 3 : k < rfil_record => rfil_data[k] = BeatOf(l, k)
      BY <3>1 DEF FetchInv, BufferTracksBus
    <3>3. l = LineOf(pc_f)
      BY <2>1, <3>1, <3>2, SplitAssumption
    <3>4. rfil_offset \div 2 < rfil_record
      <4>1. rfil_offset \div 2 < BeatsNeeded(rfil_offset)
        BY <2>1, <3>1 DEF BeatsNeeded, Offset
      <4>2. rfil_record \in 0 .. 4 /\ BeatsNeeded(rfil_offset) \in 0 .. 4
        BY DEF TypeOK, IcacheTypeOK, BeatsNeeded
      <4> QED
        BY <2>1, <3>1, <4>1, <4>2
    <3>5. WordIn(rfil_data[rfil_offset \div 2], rfil_offset) = pc_f
      BY <2>1, <3>1, <3>2, <3>3, <3>4
    <3>6. inst_rdata = {WordIn(rfil_data[rfil_offset \div 2], rfil_offset)}
      BY <2>2, <2>5, <3>1 DEF inst_rdata
    <3> QED
      BY <3>5, <3>6
  <2> QED
    BY <2>4, <2>5
<1> QED
  BY <1>1, FetchTypeCorrect, FetchCorrect, PTL
=============================================================================
