-------------------------------- MODULE Csr --------------------------------
(***************************************************************************)
(* cpu7_csr.v: the control and status registers.  The fields ie and plv of *)
(* CRMD, and pie and pplv of PRMD, are written under the same selects in   *)
(* the same cycles, so each register is kept as one word.                  *)
(***************************************************************************)
EXTENDS Isa, Dlib

VARIABLES crmd, prmd, era, eentry, bsec

csrVars == <<crmd, prmd, era, eentry, bsec>>

CsrTypeOK == /\ crmd \in Word /\ prmd \in Word
             /\ era \in Word  /\ eentry \in Word
             /\ bsec \in {0, 1}

\* Only BSEC has a reset.
CsrInit == /\ crmd \in PowerOn /\ prmd \in PowerOn
           /\ era \in PowerOn  /\ eentry \in PowerOn
           /\ bsec = 0

\* csr_rdata: an address with no register reads as zero.
CsrRdata(a) == CASE a = "crmd"   -> crmd
                 [] a = "prmd"   -> prmd
                 [] a = "era"    -> era
                 [] a = "eentry" -> eentry
                 [] a = "bsec"   -> bsec
                 [] OTHER        -> 0

\* The selects of CRMD's multiplexer, from the three that can write it.
CrmdSel(crmd_wen, exception, ertn) ==
    {s \in {"wdata", "zero", "prmd"} : \/ s = "wdata" /\ crmd_wen
                                       \/ s = "zero"  /\ exception
                                       \/ s = "prmd"  /\ ertn}

CrmdNext(crmd_wen, exception, ertn, wdata) ==
    IF crmd_wen \/ exception \/ ertn
    THEN crmd' \in DpMux(CrmdSel(crmd_wen, exception, ertn),
                         [wdata |-> wdata, zero |-> 0, prmd |-> prmd], Word)
    ELSE UNCHANGED crmd

\* Mutant: a trap leaves PRMD alone.
CsrNextKeepsPrmd(wen, waddr, wdata, exception, ertn, pc) ==
    LET Writes(a) == wen /\ waddr = a
    IN  /\ CrmdNext(Writes("crmd"), exception, ertn, wdata)
        /\ prmd' = IF Writes("prmd") THEN wdata ELSE prmd
        /\ era' = IF Writes("era") \/ exception
                  THEN DpMux2(exception, wdata, pc) ELSE era
        /\ eentry' = IF Writes("eentry") THEN wdata ELSE eentry
        /\ bsec' = IF Writes("bsec") /\ wdata % 2 = 1 THEN 1 ELSE bsec

\* One clock edge.  wen is csr_wen_m, with its address and data; exception
\* and ertn come from the instruction in _e, whose pc is pc_e.
CsrNext(wen, waddr, wdata, exception, ertn, pc) ==
    LET Writes(a) == wen /\ waddr = a
    IN  /\ CrmdNext(Writes("crmd"), exception, ertn, wdata)
        /\ prmd' = IF Writes("prmd") \/ exception
                   THEN DpMux2(exception, wdata, crmd) ELSE prmd
        /\ era' = IF Writes("era") \/ exception
                  THEN DpMux2(exception, wdata, pc) ELSE era
        /\ eentry' = IF Writes("eentry") THEN wdata ELSE eentry
        /\ bsec' = IF Writes("bsec") /\ wdata % 2 = 1 THEN 1 ELSE bsec
=============================================================================
