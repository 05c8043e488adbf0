------------------------------ MODULE DataPort ------------------------------
(***************************************************************************)
(* The execution cluster (module Ecl) facing the data cache: the accesses  *)
(* in flight between data_req and data_data_ok, and what ties them and the *)
(* two stall requests to the stages _e and _m.  The cache (modules Dcache  *)
(* and DataSide) is seen through the handshake only.                       *)
(***************************************************************************)
EXTENDS Ecl, TLAPS

VARIABLES
    pending,    \* accesses the data cache has taken and not answered
    lost        \* a request was sent that the cache will never answer

\* Accesses that may be in flight at once: the bound of `pending'.
MaxPending == 2

\* The data cache, as far as the core can see it: it answers a request it
\* takes as a load or a store (owed_ok) once, no earlier than the cycle after.
\* A request is on the bus for one cycle.  One that finds data_addr_ok low in
\* it, or that is taken as a prefetch (preld), gets no answer.
MemNext(req, owed_ok, data_ok) ==
    /\ pending' = pending + (IF req /\ owed_ok THEN 1 ELSE 0)
                          - (IF data_ok THEN 1 ELSE 0)
    /\ pending' <= MaxPending
    /\ lost' = (lost \/ (req /\ ~owed_ok))

----------------------------------------------------------------------------
(* The two halves of the invariant of the stall requests.                  *)

CsrStallTracksWrite ==
    /\ csr_stall_req <=> (op_e \in CSR_WRITE \/ op_m \in CSR_WRITE)
    /\ op_m \in CSR_WRITE => op_e = Bubble

LsuStallTracksAccess ==
    /\ op_e \in LSU_RELATED => lsu_stall_req /\ pending = 0 /\ ~lost
    /\ pending > 0 => /\ pending = 1 /\ lsu_stall_req /\ ~ale_m
                      /\ op_e = Bubble /\ op_m \in LSU_RELATED \cup {Bubble}
    /\ lost => lsu_stall_req /\ pending = 0 /\ ~ale_m /\ op_e = Bubble
    /\ ale_m => lsu_stall_req /\ op_e = Bubble /\ op_m \in LSU_RELATED
    /\ lsu_stall_req => op_e \in LSU_RELATED \/ pending > 0 \/ ale_m \/ lost

----------------------------------------------------------------------------
(***************************************************************************)
(* If nothing is dispatched while the request is registered, the request   *)
(* keeps step with the access in flight.                                   *)
(***************************************************************************)
LEMMA LsuStallStep ==
    ASSUME LsuStallTracksAccess, pending \in Nat,
           NEW STATE d, NEW STATE csr, NEW STATE rdata,
           NEW STATE ale, NEW STATE wdata, NEW STATE owed_ok, NEW STATE ok,
           ale \in BOOLEAN, owed_ok \in BOOLEAN, ok \in BOOLEAN, lost \in BOOLEAN,
           EclNext(d, csr, rdata, ale, wdata, ok),
           MemNext(data_req_e(ale), owed_ok, ok),
           ok => pending > 0,
           d # Bubble => ~lsu_stall_req
    PROVE  LsuStallTracksAccess'
<1>0. Bubble \notin LSU_RELATED
  BY DEF Bubble, LSU_RELATED
<1>1. /\ lsu_stall_req' <=> (d \in LSU_RELATED \/ (lsu_stall_req /\ ~(ok \/ ale_m)))
      /\ ale_m' <=> op_e \in LSU_RELATED /\ ale
      /\ op_e' = d /\ op_m' = op_e
  BY DEF EclNext, lsu_stall_req_next, lsu_dispatch_d, lsu_finish_m, lsu_ale_e
<1>2. /\ pending' = pending + (IF op_e \in LSU_RELATED /\ ~ale /\ owed_ok THEN 1 ELSE 0)
                            - (IF ok THEN 1 ELSE 0)
      /\ lost' <=> lost \/ (op_e \in LSU_RELATED /\ ~ale /\ ~owed_ok)
  BY DEF MemNext, data_req_e
<1>3. CASE op_e \in LSU_RELATED
  <2>1. lsu_stall_req /\ pending = 0 /\ ~ok /\ ~ale_m /\ ~lost
    BY <1>0, <1>3 DEF LsuStallTracksAccess
  <2>2. d = Bubble
    BY <2>1
  <2>3. /\ lsu_stall_req' /\ (ale_m' <=> ale)
        /\ pending' = IF ale \/ ~owed_ok THEN 0 ELSE 1
        /\ lost' <=> ~ale /\ ~owed_ok
    BY <1>1, <1>2, <1>3, <2>1
  <2> QED
    BY <1>0, <1>1, <1>3, <2>2, <2>3 DEF LsuStallTracksAccess
<1>4. CASE op_e \notin LSU_RELATED /\ pending > 0
  <2>1. lsu_stall_req /\ pending = 1 /\ ~ale_m /\ op_e = Bubble /\ ~lost
    BY <1>4 DEF LsuStallTracksAccess
  <2>2. d = Bubble
    BY <2>1
  <2>3. /\ ~ale_m' /\ (lsu_stall_req' <=> ~ok) /\ ~lost'
        /\ pending' = IF ok THEN 0 ELSE 1
    BY <1>0, <1>1, <1>2, <1>4, <2>1, <2>2
  <2> QED
    BY <1>0, <1>1, <2>1, <2>2, <2>3 DEF LsuStallTracksAccess
<1>5. CASE op_e \notin LSU_RELATED /\ ~(pending > 0)
  <2>1. pending = 0 /\ ~ok
    BY <1>5
  <2>2. pending' = 0 /\ ~ale_m' /\ (lost' <=> lost)
    BY <1>1, <1>2, <1>5, <2>1
  <2>3. CASE lost
    <3>1. lsu_stall_req /\ ~ale_m /\ op_e = Bubble
      BY <2>3 DEF LsuStallTracksAccess
    <3>2. d = Bubble /\ lsu_stall_req'
      BY <1>1, <2>1, <3>1
    <3> QED
      BY <1>0, <1>1, <2>2, <2>3, <3>2 DEF LsuStallTracksAccess
  <2>4. CASE ~lost
    <3>1. lsu_stall_req => ale_m
      BY <1>5, <2>4 DEF LsuStallTracksAccess
    <3>2. lsu_stall_req' <=> d \in LSU_RELATED
      BY <1>1, <3>1
    <3> QED
      BY <1>1, <2>2, <2>4, <3>2 DEF LsuStallTracksAccess
  <2> QED
    BY <2>3, <2>4
<1> QED
  BY <1>3, <1>4, <1>5
=============================================================================
