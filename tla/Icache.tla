------------------------------- MODULE Icache -------------------------------
(***************************************************************************)
(* icache.v: the instruction cache.  It takes one fetch address at a time, *)
(* looks it up in the arrays in the next cycle and, on a miss, fetches the *)
(* line into a refill buffer, from which it answers; the buffered line is  *)
(* written to the arrays only when the next line is missed.                *)
(*                                                                         *)
(* The state starts where the RAMs' initialisation ends (ram_wrapper.v):   *)
(* all tags are invalid and inst_req is 1 from then on.  As in cpu7.v, the *)
(* translation is the identity, one cycle late, and never uncached.  Cache *)
(* operations and external requests, which nothing drives, are left out.   *)
(* The way to replace is left open.                                        *)
(*                                                                         *)
(* Data is abstracted to where it came from: a word is its own address, a  *)
(* beat of the bus the number of the aligned pair of words it holds.       *)
(***************************************************************************)
EXTENDS Naturals, FiniteSets

CONSTANTS
    NLines,     \* lines of memory
    Ways,       \* the ways of the arrays
    Tag, Index  \* what a line's address is split into

Line   == 0 .. NLines - 1
Offset == 0 .. 7
Beat   == 0 .. 4 * NLines - 1
Tags    == {Tag[l] : l \in Line}
Indexes == {Index[l] : l \in Line}

ASSUME NLinesAssumption == NLines \in Nat \ {0}
ASSUME WaysAssumption == Ways # {}
ASSUME SplitAssumption ==
    /\ Tag \in [Line -> Nat] /\ Index \in [Line -> Nat]
    /\ \A l, m \in Line : Tag[l] = Tag[m] /\ Index[l] = Index[m] => l = m

\* A register or a RAM word that has never been written.
NoBeat == 4 * NLines

\* The fields of a word's address.
LineOf(p) == p \div 8

\* Mutant: the offset is not cut out of the address.
OffsetOfWhole(p) == p

OffsetOf(p) == p % 8
LineAt(t, i) == CHOOSE l \in Line : Tag[l] = t /\ Index[l] = i
BeatOf(l, k) == 4 * l + k
WordIn(b, o) == 2 * b + (o % 2)

VARIABLES
    state,          \* icache_state: idle, lkup or blck
    index, offset,  \* of the address taken last
    inst_cancel_reg,
    tlb_finish,     \* the translation's answer,
    tlb_ptag,       \* and the tag it found
    blck_ptag,      \* tag of the miss that waits for the refill buffer
    rfil_state,     \* idle, addr (addr_wait) or data (data_wait)
    rfil_send_cpu,  \* the core waits for a word of the buffer
    rfil_ptag, rfil_index, rfil_offset,
    rfil_record,    \* how many beats have arrived, a shift register
    rfil_data,      \* the four beats of the buffer
    lru_en_valid, lru_wr_valid,
    array           \* the tag and data arrays

icacheVars == <<state, index, offset, inst_cancel_reg, tlb_finish, tlb_ptag,
                blck_ptag, rfil_state, rfil_send_cpu, rfil_ptag, rfil_index,
                rfil_offset, rfil_record, rfil_data, lru_en_valid,
                lru_wr_valid, array>>

LineData == [0 .. 3 -> Beat \cup {NoBeat}]
Entry == [valid : BOOLEAN, tag : Tags, data : LineData]
Blank == [k \in 0 .. 3 |-> NoBeat]

IcacheTypeOK ==
    /\ state \in {"idle", "lkup", "blck"}
    /\ index \in Indexes /\ offset \in Offset
    /\ inst_cancel_reg \in BOOLEAN /\ tlb_finish \in BOOLEAN
    /\ tlb_ptag \in Tags /\ blck_ptag \in Tags
    /\ rfil_state \in {"idle", "addr", "data"}
    /\ rfil_send_cpu \in BOOLEAN
    /\ rfil_ptag \in Tags /\ rfil_index \in Indexes /\ rfil_offset \in Offset
    /\ rfil_record \in 0 .. 4 /\ rfil_data \in LineData
    /\ lru_en_valid \in BOOLEAN /\ lru_wr_valid \in BOOLEAN
    /\ array \in [Indexes -> [Ways -> Entry]]

\* rfil_record, the buffer and the data array have no reset; the other
\* registers without one are read only after they have been written.
IcacheInit ==
    /\ state = "idle" /\ index = Index[0] /\ offset = 0
    /\ inst_cancel_reg = FALSE /\ tlb_finish = FALSE
    /\ tlb_ptag = Tag[0] /\ blck_ptag = Tag[0]
    /\ rfil_state = "idle" /\ rfil_send_cpu = FALSE
    /\ rfil_ptag = Tag[0] /\ rfil_index = Index[0] /\ rfil_offset = 0
    /\ rfil_record \in 0 .. 4 /\ rfil_data = Blank
    /\ lru_en_valid = FALSE /\ lru_wr_valid = FALSE
    /\ array = [i \in Indexes |->
                  [w \in Ways |-> [valid |-> FALSE, tag |-> Tag[0], data |-> Blank]]]

----------------------------------------------------------------------------
(* Lookup.  The arrays are read in the cycle the address is taken and      *)
(* compared in the next; no refill writes them in between.                 *)

way_hit == {w \in Ways : /\ array[index][w].valid
                         /\ array[index][w].tag = tlb_ptag}
cache_hit  == tlb_finish /\ way_hit # {}
cache_miss == tlb_finish /\ way_hit = {}

(* The refill buffer.                                                      *)

\* Mutant: a miss of the line in the buffer is not recognised.
rfil_hit_never == FALSE

rfil_hit == /\ rfil_state # "idle" /\ tlb_finish /\ state = "lkup"
            /\ tlb_ptag = rfil_ptag /\ index = rfil_index

\* Mutant: the buffer is emptied between requests, never for a blocked one.
rfil_refill_idle == /\ rfil_state = "data" /\ rfil_record = 4
                    /\ state = "idle"
                    /\ ~lru_en_valid /\ ~lru_wr_valid

\* Mutant: the line is written to the arrays one beat early.
rfil_refill_early == /\ rfil_state = "data" /\ rfil_record >= 3
                     /\ state = "blck"
                     /\ ~lru_en_valid /\ ~lru_wr_valid

\* rfil_wait_go; its other trigger, an idle cache without a request, is
\* never met while inst_req is 1.
rfil_refill == /\ rfil_state = "data" /\ rfil_record = 4
               /\ state = "blck"
               /\ ~lru_en_valid /\ ~lru_wr_valid

rfil_alloc == \/ rfil_state = "idle" /\ state = "lkup" /\ cache_miss
              \/ rfil_refill /\ state = "blck"

rfil_new_req == rfil_alloc \/ rfil_hit

\* Mutant: a word at the line's start is given one beat early.
BeatsNeededEarly(o) == IF o <= 1 THEN 1 ELSE IF o <= 3 THEN 2 ELSE 3

\* The core is given four words from the offset on, or what is left of the
\* line, and only once they have all arrived; a beat holds two words.
BeatsNeeded(o) == IF o = 0 THEN 2 ELSE IF o <= 2 THEN 3 ELSE 4

miss_data_ok == rfil_send_cpu /\ rfil_record >= BeatsNeeded(rfil_offset)

(* The core's side.                                                        *)

inst_addr_ok == /\ ~rfil_send_cpu \/ miss_data_ok
                /\ state = "idle" \/ cache_hit

\* Mutant: the answer to a cancelled request is not dropped.
inst_valid_uncancelled == cache_hit \/ miss_data_ok

inst_valid == (cache_hit \/ miss_data_ok) /\ ~inst_cancel_reg

\* inst_rdata is the disjunction, bit by bit, of the words in this set.
inst_rdata == {WordIn(array[index][w].data[offset \div 2], offset) :
                    w \in IF tlb_finish THEN way_hit ELSE {}}
              \cup {WordIn(rfil_data[rfil_offset \div 2], rfil_offset) :
                    x \in IF miss_data_ok THEN {"miss"} ELSE {}}

(* The bus's side: a read of one line, answered in four beats in order.    *)
rd_req  == rfil_state = "addr"
rd_line == LineAt(rfil_ptag, rfil_index)

----------------------------------------------------------------------------
(* One clock edge, with inst_addr and inst_cancel from the core, rd_ready, *)
(* ret_valid and the beat ret from the bus.                                *)

StateNext ==
    state' = IF state = "idle" /\ inst_addr_ok THEN "lkup"
             ELSE IF /\ state = "lkup" /\ cache_miss
                     /\ ~rfil_hit /\ rfil_state # "idle" THEN "blck"
             ELSE IF \/ state = "lkup" /\ tlb_finish /\ ~inst_addr_ok
                     \/ state = "blck" /\ rfil_refill THEN "idle"
             ELSE state

RequestNext(inst_addr, inst_cancel) ==
    /\ IF inst_addr_ok THEN /\ index' = Index[LineOf(inst_addr)]
                            /\ offset' = OffsetOf(inst_addr)
                       ELSE UNCHANGED <<index, offset>>
    /\ inst_cancel_reg' = (inst_cancel \/ (inst_cancel_reg /\ ~inst_addr_ok))
    /\ tlb_finish' = inst_addr_ok
    /\ tlb_ptag' = Tag[LineOf(inst_addr)]
    /\ blck_ptag' = IF state = "lkup" /\ cache_miss /\ ~rfil_hit
                    THEN tlb_ptag ELSE blck_ptag

RfilNext(rd_ready) ==
    /\ rfil_state' = IF rfil_alloc THEN "addr"
                     ELSE IF rd_req /\ rd_ready THEN "data"
                     ELSE rfil_state
    /\ rfil_send_cpu' = (rfil_new_req \/ (rfil_send_cpu /\ ~miss_data_ok))
    /\ IF rfil_new_req
       THEN /\ rfil_ptag' = IF state = "blck" THEN blck_ptag ELSE tlb_ptag
            /\ rfil_index' = index /\ rfil_offset' = offset
       ELSE UNCHANGED <<rfil_ptag, rfil_index, rfil_offset>>

DataNext(ret_valid, ret) ==
    /\ rfil_record' = IF rfil_alloc THEN 0
                      ELSE IF rfil_state = "data" /\ ret_valid /\ rfil_record < 4
                      THEN rfil_record + 1 ELSE rfil_record
    /\ rfil_data' = IF ret_valid /\ rfil_record < 4
                    THEN [rfil_data EXCEPT ![rfil_record] = ret]
                    ELSE rfil_data

ArrayNext ==
    IF rfil_refill
    THEN \E w \in Ways :
            array' = [array EXCEPT ![rfil_index][w] =
                        [valid |-> TRUE, tag |-> rfil_ptag, data |-> rfil_data]]
    ELSE UNCHANGED array

IcacheNext(inst_addr, inst_cancel, rd_ready, ret_valid, ret) ==
    /\ StateNext
    /\ RequestNext(inst_addr, inst_cancel)
    /\ RfilNext(rd_ready)
    /\ DataNext(ret_valid, ret)
    /\ ArrayNext
    /\ lru_en_valid' = rfil_alloc
    /\ lru_wr_valid' = cache_hit
=============================================================================
