------------------------------ MODULE FetchUnit ------------------------------
(***************************************************************************)
(* The front end: the next-address logic of cpu7_ifu_fdp.v (module Fdp)    *)
(* wired to the instruction cache (module Icache) as in mycpu_top.v, and a *)
(* bus that answers the cache's line reads.  A step is one clock edge.     *)
(*                                                                         *)
(* What the rest of the core does is chosen freely in every cycle: to      *)
(* stall the front end, to redirect it by a branch, an exception or an     *)
(* ertn, to any of the addresses Targets.                                  *)
(***************************************************************************)
EXTENDS Icache

CONSTANT Targets    \* the addresses the core redirects the front end to

NWords == 8 * NLines
Word == 0 .. NWords - 1

ASSUME TargetsAssumption == Targets \subseteq Word

VARIABLES
    pc_f,       \* the address whose instruction is fetched
    ret_beat    \* the beat the bus returns next, NoBeat when it owes none

vars == <<icacheVars, pc_f, ret_beat>>

\* Only the next-address logic of Fdp is used here, and only pc_f of its state.
F == INSTANCE Fdp WITH pc_d <- 0, pc_e <- 0, valid_d <- FALSE,
                       op_d <- "none", csr_d <- "none",
                       Ops <- {}, CsrAddrs <- {}, PowerOn <- {}

TypeOK == /\ IcacheTypeOK
          /\ pc_f \in Word /\ ret_beat \in Beat \cup {NoBeat}

Init == IcacheInit /\ pc_f = 0 /\ ret_beat = NoBeat

----------------------------------------------------------------------------
\* What the core asks of the front end: nothing or a stall, a redirection, or
\* the ertn that meets a stall and leaves pc_bf undefined.  An exception that
\* meets a taken branch has the same effect; other combinations do not occur
\* (NextPcDefined of Pipeline_proofs).
Asked == [redirect : {"no"}, stall : BOOLEAN, target : {0}]
         \cup [redirect : {"branch", "except", "ertn"}, stall : {FALSE},
              target : Targets]
         \cup [redirect : {"ertn"}, stall : {TRUE}, target : {0}]

Inputs == [ core     : Asked,
            rd_ready : IF rd_req THEN BOOLEAN ELSE {FALSE},
            ret      : IF ret_beat # NoBeat THEN BOOLEAN ELSE {FALSE} ]

FdpWires(i) == [ inst_valid |-> inst_valid,
                 stall      |-> i.core.stall,
                 br_taken   |-> i.core.redirect = "branch",
                 except     |-> i.core.redirect = "except",
                 ertn       |-> i.core.redirect = "ertn" ]

\* Mutant: an exception or an ertn cancels nothing.
inst_cancel_branch(i) == i.core.redirect = "branch"

inst_cancel(i) == i.core.redirect # "no"

\* The bus answers each read it has taken with the four beats of the line.
BusNext(i) ==
    ret_beat' = IF rd_req /\ i.rd_ready THEN BeatOf(rd_line, 0)
                ELSE IF ~i.ret THEN ret_beat
                ELSE IF ret_beat % 4 = 3 THEN NoBeat ELSE ret_beat + 1

\* One clock edge with the inputs i; pc_bf is the address on inst_addr.
Tick(i) ==
    /\ BusNext(i)
    /\ \E pc_bf \in F!PcBf(FdpWires(i), i.core.target, i.core.target,
                           i.core.target) :
          /\ pc_f' = pc_bf
          /\ IcacheNext(pc_bf, inst_cancel(i), i.rd_ready, i.ret, ret_beat)

Next == \E i \in Inputs : Tick(i)

Spec == Init /\ [][Next]_vars

(* Fairness.  The clock runs; the bus takes a read that stays offered, and *)
(* returns the beats it owes.                                              *)
Take   == rd_req /\ \E i \in {x \in Inputs : x.rd_ready} : Tick(i)
Return == ret_beat # NoBeat /\ \E i \in {x \in Inputs : x.ret} : Tick(i)

FairSpec == Spec /\ WF_vars(Next) /\ WF_vars(Take) /\ WF_vars(Return)

----------------------------------------------------------------------------
(* Properties.                                                             *)

(***************************************************************************)
(* What Pipeline assumes of the cache: whenever it answers, the word is    *)
(* the one at pc_f, however the request, its cancellation, the refill and  *)
(* the redirection before it fell (lines 656 to 701 of icache.v).          *)
(***************************************************************************)
FetchedWordIsPc == inst_valid => inst_rdata = {pc_f}

(***************************************************************************)
(* A line is in one place: in at most one way of its set, and never in the *)
(* arrays and in the refill buffer at once, which would put two words on   *)
(* inst_rdata (lines 656 to 660 and 714 of icache.v).                      *)
(***************************************************************************)
Holds(i, w, t) == array[i][w].valid /\ array[i][w].tag = t

OneCopy ==
    /\ \A i \in Indexes, t \in Tags, v, w \in Ways :
          Holds(i, v, t) /\ Holds(i, w, t) => v = w
    /\ rfil_state # "idle" =>
          \A w \in Ways : ~Holds(rfil_index, w, rfil_ptag)

(***************************************************************************)
(* The arrays hold whole lines of memory: a refill writes a buffer that is *)
(* full, and under the tag and index it was read for (lines 753 to 813 of  *)
(* icache.v).                                                              *)
(***************************************************************************)
ArrayCoherent ==
    \A i \in Indexes, w \in Ways :
        array[i][w].valid =>
            \E l \in Line : /\ Index[l] = i /\ Tag[l] = array[i][w].tag
                            /\ array[i][w].data = [k \in 0 .. 3 |-> BeatOf(l, k)]

(***************************************************************************)
(* A request in flight that is not cancelled is the one for pc_f, in       *)
(* whichever of the three places it waits; tag and index registers, which  *)
(* are loaded in different cycles, always name one line.                   *)
(***************************************************************************)
RequestIsPc ==
    /\ state = "lkup" => /\ tlb_ptag = Tag[LineOf(pc_f)]
                         /\ index = Index[LineOf(pc_f)]
                         /\ offset = OffsetOf(pc_f)
    /\ state = "blck" /\ ~inst_cancel_reg =>
                         /\ blck_ptag = Tag[LineOf(pc_f)]
                         /\ index = Index[LineOf(pc_f)]
                         /\ offset = OffsetOf(pc_f)
    /\ rfil_send_cpu /\ ~inst_cancel_reg =>
                         /\ rfil_ptag = Tag[LineOf(pc_f)]
                         /\ rfil_index = Index[LineOf(pc_f)]
                         /\ rfil_offset = OffsetOf(pc_f)

(***************************************************************************)
(* What the properties above follow from by induction: which state goes    *)
(* with which, that the buffer holds the first beats of the line it was    *)
(* asked for and the bus owes the others, and that a miss that waits for   *)
(* the buffer is for a line that is nowhere in the cache.                  *)
(***************************************************************************)
StatesAgree ==
    /\ tlb_finish <=> state = "lkup"
    /\ rfil_send_cpu => state = "idle" /\ rfil_state # "idle"
    /\ state = "blck" => rfil_state # "idle"

BufferTracksBus ==
    IF rfil_state = "idle" THEN ret_beat = NoBeat
    ELSE \E l \in Line :
            /\ rfil_ptag = Tag[l] /\ rfil_index = Index[l]
            /\ \A k \in 0 .. 3 : k < rfil_record => rfil_data[k] = BeatOf(l, k)
            /\ rfil_state = "addr" => rfil_record = 0
            /\ ret_beat = IF rfil_state = "data" /\ rfil_record < 4
                          THEN BeatOf(l, rfil_record) ELSE NoBeat

BlockedIsMiss ==
    state = "blck" =>
        /\ \E l \in Line : blck_ptag = Tag[l] /\ index = Index[l]
        /\ ~(blck_ptag = rfil_ptag /\ index = rfil_index)
        /\ \A w \in Ways : ~Holds(index, w, blck_ptag)

FetchInv == /\ StatesAgree /\ RequestIsPc /\ BufferTracksBus
            /\ BlockedIsMiss /\ OneCopy /\ ArrayCoherent

(***************************************************************************)
(* The front end is never starved: if no further request is cancelled, a   *)
(* valid word arrives.  A miss that waits for the refill buffer, which     *)
(* is emptied by nothing but such a miss, must not wait for ever, and a    *)
(* cancelled request must be answered before the next is taken (lines 717  *)
(* to 722 and 692 of icache.v).                                            *)
(***************************************************************************)
Cancelled == inst_cancel_reg' /\ (inst_addr_ok \/ ~inst_cancel_reg)

WordArrives == []<>inst_valid \/ []<><<Cancelled>>_vars
=============================================================================
