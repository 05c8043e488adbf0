------------------------------ MODULE InOrder ------------------------------
(***************************************************************************)
(* What the core promises: it executes one instruction after another, each *)
(* at the address the one before it left, with exceptions and CSRs taking  *)
(* effect between two instructions.  There is no pipeline here, no stall   *)
(* and no memory latency.                                                  *)
(*                                                                         *)
(* The promise has one exception, which the code makes and this module     *)
(* therefore states: an illegal instruction or an ertn may be followed by  *)
(* one instruction of the path it leaves, the one already in decode.  That *)
(* instruction's address is `slot'; it executes before the one at `npc'.   *)
(* And when the one behind an ertn makes the front end stall, or when an   *)
(* illegal branch is taken, the address execution continues at is          *)
(* undefined.                                                              *)
(***************************************************************************)
EXTENDS Isa

VARIABLES
    npc,        \* where execution continues
    slot,       \* the address of the instruction to execute first, or NoSlot
    csrs,       \* the control registers, as a function of their address
    last        \* the last instruction executed and its address

\* Not a word's address.
NoSlot == NWords
Regs == AllCsrs \ {"none"}
absVars == <<npc, slot, csrs, last>>

TypeOK == /\ npc \in Word /\ slot \in Word \cup {NoSlot}
          /\ csrs \in [Regs -> Word]
          /\ last \in [pc : Word, op : Ops \cup {Bubble}]

Init == /\ npc = 0 /\ slot = NoSlot
        /\ csrs \in [Regs -> PowerOn \cup {0}] /\ csrs["bsec"] = 0
        /\ last = [pc |-> 0, op |-> Bubble]

\* The instruction to execute now, and where its successor is.
cur == IF slot = NoSlot THEN npc ELSE slot
fallthrough == IF slot = NoSlot THEN Inc(npc) ELSE npc

Execute(op) == last' = [pc |-> cur, op |-> op]

\* What may be left in decode by an instruction that redirects the front end
\* without killing decode: nothing, or its successor.
Slots == {NoSlot} \cup (IF slot = NoSlot THEN {Inc(npc)} ELSE {})

Trapped == [csrs EXCEPT !["era"] = cur, !["prmd"] = csrs["crmd"], !["crmd"] = 0]
Returned == [csrs EXCEPT !["crmd"] = csrs["prmd"]]

\* BSEC can only be set; an address with no register swallows the write.
Written(a, v) ==
    IF a \notin Regs THEN csrs
    ELSE [csrs EXCEPT ![a] = IF a = "bsec" THEN IF v % 2 = 1 THEN 1 ELSE csrs[a]
                             ELSE v]

----------------------------------------------------------------------------
Plain(op) ==
    /\ Execute(op) /\ op \notin BRU_RELATED \cup CSR_WRITE \cup ERET \cup INE
    /\ npc' = fallthrough /\ slot' = NoSlot /\ UNCHANGED csrs

NotTaken(op) ==
    /\ Execute(op) /\ op = "bcond"
    /\ npc' = fallthrough /\ slot' = NoSlot /\ UNCHANGED csrs

Jump(op, target) ==
    /\ Execute(op) /\ op \in BRU_RELATED \ INE
    /\ npc' = target /\ slot' = NoSlot /\ UNCHANGED csrs

WriteCsr(op, a, v) ==
    /\ Execute(op) /\ op \in CSR_WRITE
    /\ csrs' = Written(a, v)
    /\ npc' = fallthrough /\ slot' = NoSlot

\* A misaligned access: precise, nothing behind it executes.
Misaligned(op) ==
    /\ Execute(op) /\ op \in LSU_RELATED
    /\ npc' = csrs["eentry"] /\ slot' = NoSlot /\ csrs' = Trapped

Illegal(op) ==
    /\ Execute(op) /\ op \in INE \ BRU_RELATED
    /\ csrs' = Trapped
    /\ npc' = csrs["eentry"]
    /\ slot' \in IF op \in LSU_RELATED THEN {NoSlot} ELSE Slots

IllegalBranch(op, pc) ==
    /\ Execute(op) /\ op \in INE \cap BRU_RELATED
    /\ csrs' = Trapped
    /\ npc' = pc /\ slot' = NoSlot

Return(op) ==
    /\ Execute(op) /\ op \in ERET
    /\ csrs' = Returned
    /\ npc' = csrs["era"]
    /\ slot' \in Slots

ReturnUndefined(op, pc) ==
    /\ Execute(op) /\ op \in ERET
    /\ csrs' = Returned
    /\ npc' = pc /\ slot' \in Slots \ {NoSlot}

Next ==
    \E op \in Ops :
        \/ Plain(op)
        \/ NotTaken(op)
        \/ \E pc \in Word : \/ Jump(op, pc)
                            \/ IllegalBranch(op, pc)
                            \/ ReturnUndefined(op, pc)
        \/ \E a \in AllCsrs, v \in Word : WriteCsr(op, a, v)
        \/ Misaligned(op)
        \/ Illegal(op)
        \/ Return(op)

Spec == Init /\ [][Next]_absVars
=============================================================================
