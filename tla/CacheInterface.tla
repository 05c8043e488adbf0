--------------------------- MODULE CacheInterface ---------------------------
(***************************************************************************)
(* cache_interface.v: between the data cache (module Dcache) and the AXI   *)
(* bus.  Lines the cache writes back wait in the victim buffer, two slots  *)
(* used in turn, until the bus has answered their writes; a read of a line *)
(* that waits there is held back.  Read beats and write answers reach the  *)
(* cache through a register.                                               *)
(*                                                                         *)
(* The instruction cache shares the read channels: to the data cache it    *)
(* looks like a bus that is not ready.  It never writes.                   *)
(***************************************************************************)
EXTENDS Dcache

VARIABLES
    vic,                    \* the victim buffer's slots
    vic_push_p, vic_pop_p,  \* which slot is filled and which is sent next
    vic_addr_arrived,       \* the bus has taken the address of the write,
    vic_data_all_recv,      \* and the last of its beats
    ret,                    \* rvalid_reg, rid_reg, rdata_reg
    bvalid_reg              \* the bus has answered the write

interfaceVars == <<vic, vic_push_p, vic_pop_p, vic_addr_arrived, vic_data_all_recv,
                   ret, bvalid_reg>>

Slot == {0, 1}
NoVictim == [line |-> NoLine, cur |-> FALSE]
NoBeat == [entry |-> NoEntry, cur |-> FALSE]

InterfaceTypeOK ==
    /\ vic \in [Slot -> [line : Line \cup {NoLine}, cur : BOOLEAN]]
    /\ vic_push_p \in Slot /\ vic_pop_p \in Slot
    /\ vic_addr_arrived \in BOOLEAN /\ vic_data_all_recv \in BOOLEAN
    /\ ret \in [entry : Entry \cup {NoEntry}, cur : BOOLEAN]
    /\ bvalid_reg \in BOOLEAN

InterfaceInit ==
    /\ vic = [s \in Slot |-> NoVictim] /\ vic_push_p = 0 /\ vic_pop_p = 0
    /\ vic_addr_arrived = FALSE /\ vic_data_all_recv = FALSE
    /\ ret = NoBeat /\ bvalid_reg = FALSE

----------------------------------------------------------------------------
\* Mutant: the pointers count on.
NextSlotOn(p) == p + 1

\* The pointers are one bit wide.
NextSlot(p) == 1 - p

vic_valid == {s \in Slot : vic[s].line # NoLine}
vic_pop == bvalid_reg
vic_not_full == vic_valid # Slot
vic_vacancy  == vic_valid # Slot \/ vic_pop

\* Mutant: a read does not wait for the write of the line it reads.
vic_hit_never == {}

vic_hit == {s \in vic_valid : rd_req # {} /\ vic[s].line = mshr[rd_entry].line}

d_scread_req == rd_req # {} /\ vic_hit = {}
awvalid == vic[vic_pop_p].line # NoLine /\ ~vic_addr_arrived
wvalid  == vic[vic_pop_p].line # NoLine /\ ~vic_data_all_recv

vic_push == mshr_wtbk # {} /\ vic_vacancy
NewVictim(s) ==
    IF vic_push /\ s = vic_push_p
    THEN [line |-> wr_line, cur |-> wr_line = Watched.line /\ Keep(dataq[rplc.way])]
    ELSE IF vic_pop /\ s = vic_pop_p THEN NoVictim
    ELSE [line |-> vic[s].line, cur |-> Keep(vic[s].cur)]

InterfaceNext(awready, wlast) ==
    /\ vic' = [s \in Slot |-> NewVictim(s)]
    /\ vic_push_p' = IF vic_push THEN NextSlot(vic_push_p) ELSE vic_push_p
    /\ vic_pop_p'  = IF vic_pop THEN NextSlot(vic_pop_p) ELSE vic_pop_p
    /\ vic_addr_arrived' = (~vic_pop /\ (vic_addr_arrived \/ (awvalid /\ awready)))
    /\ vic_data_all_recv' = (~vic_pop /\ (vic_data_all_recv \/ (wvalid /\ wlast)))
=============================================================================
