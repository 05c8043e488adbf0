----------------------------- MODULE WriteBuffer -----------------------------
(***************************************************************************)
(* The write buffer of dcache.v to the bit, on one word that stays in the  *)
(* cache: what a store that hits leaves for the load behind it.  Module    *)
(* Dcache follows one byte through the same registers by a flag, among     *)
(* misses and refills; here the bytes themselves are kept.                 *)
(*                                                                         *)
(* The core is that of DataSide: the answer of a hit comes in the cycle    *)
(* after the request, the next request two cycles later or any time after. *)
(***************************************************************************)
EXTENDS Naturals

CONSTANTS Lanes, Values     \* the bytes of the word, what each can hold (0 too)

VARIABLES
    lsu,                \* free to access, looked up, or just answered (gap)
    data_wr_reg, data_wstrb_reg, data_wdata_reg,    \* the request's registers
    wr_buff_wdata_src, wr_buff_wdata, wr_buff_ram_wdata, \* "uty: test"
    wr_buff_data, wr_buff_wstrb,
    wr_buff_set,        \* the buffer's address has been this word's
    ram, ramq,          \* the word in the data array and at its output
    stored              \* history: the bytes the stores have written

wbVars == <<lsu, data_wr_reg, data_wstrb_reg, data_wdata_reg, wr_buff_wdata_src,
            wr_buff_wdata, wr_buff_ram_wdata, wr_buff_data, wr_buff_wstrb,
            wr_buff_set, ram, ramq, stored>>

Word == [Lanes -> Values]
Zero == [b \in Lanes |-> 0]
Merge(old, new, strb) == [b \in Lanes |-> IF b \in strb THEN new[b] ELSE old[b]]

Init ==
    /\ lsu = "free" /\ data_wr_reg = FALSE
    /\ data_wstrb_reg = {} /\ data_wdata_reg = Zero
    /\ wr_buff_wdata_src = Zero /\ wr_buff_wdata = Zero /\ wr_buff_ram_wdata = Zero
    /\ wr_buff_data = Zero /\ wr_buff_wstrb = {} /\ wr_buff_set = FALSE
    /\ ram = Zero /\ ramq = Zero /\ stored = Zero

\* Nothing, a load, or a store of some bytes, on the request bus.
Requests ==
    [on : {FALSE}, wr : {FALSE}, strb : {{}}, wdata : {Zero}]
    \cup (IF lsu = "free"
          THEN [on : {TRUE}, wr : {FALSE}, strb : {{}}, wdata : {Zero}]
               \cup [on : {TRUE}, wr : {TRUE}, strb : SUBSET Lanes \ {{}}, wdata : Word]
          ELSE {})

store_hit == lsu = "lkup" /\ data_wr_reg
hit_rdata == Merge(ramq, wr_buff_data, IF wr_buff_set THEN wr_buff_wstrb ELSE {})

\* Written to the array in every cycle that does not read the word.
Release(d, hit) == ~d.on \/ (store_hit /\ ~hit)

\* One clock edge.  hit is wr_buff_hit: outside a lookup the address compared
\* is whatever the address bus last showed.
Tick(d, hit) ==
    /\ lsu' = CASE d.on -> "lkup" [] lsu = "lkup" -> "gap" [] OTHER -> "free"
    /\ data_wr_reg' = IF d.on THEN d.wr ELSE data_wr_reg
    /\ data_wstrb_reg' = IF d.on THEN d.strb ELSE data_wstrb_reg
    /\ data_wdata_reg' = IF d.on THEN d.wdata ELSE data_wdata_reg
    /\ wr_buff_wdata_src' = data_wdata_reg
    /\ wr_buff_wdata' = Merge(IF hit THEN wr_buff_data ELSE Zero, wr_buff_wdata_src,
                              data_wstrb_reg)
    /\ wr_buff_ram_wdata' = wr_buff_data
    /\ wr_buff_data' = IF store_hit THEN wr_buff_wdata ELSE wr_buff_data
    /\ wr_buff_wstrb' = IF store_hit
                        THEN (IF hit THEN wr_buff_wstrb ELSE {}) \cup data_wstrb_reg
                        ELSE IF Release(d, hit) THEN {} ELSE wr_buff_wstrb
    /\ wr_buff_set' = (wr_buff_set \/ store_hit)
    /\ ram' = IF Release(d, hit) THEN Merge(ram, wr_buff_ram_wdata, wr_buff_wstrb)
              ELSE ram
    /\ ramq' = IF d.on THEN ram ELSE ramq
    /\ stored' = IF store_hit THEN Merge(stored, data_wdata_reg, data_wstrb_reg)
                 ELSE stored

Next == \E d \in Requests :
          \E hit \in (IF ~wr_buff_set THEN {FALSE}
                      ELSE IF lsu = "lkup" THEN {TRUE} ELSE BOOLEAN) : Tick(d, hit)

Spec == Init /\ [][Next]_wbVars

(***************************************************************************)
(* A load that hits behind stores that hit gets the bytes they stored, as  *)
(* the tests of the stores have it ("rd is the data to be stored",         *)
(* func_uty3_st.w/start.S).  It does not: what the buffer takes is the     *)
(* output of two registers behind each other, filled by earlier requests   *)
(* (lines 914 and 933 of dcache.v).                                        *)
(***************************************************************************)
LoadReturnsStored == lsu = "lkup" /\ ~data_wr_reg => hit_rdata = stored
=============================================================================
