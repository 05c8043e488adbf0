-------------------------------- MODULE Isa --------------------------------
(***************************************************************************)
(* What the stages of the cpu7 core agree on: the words a 32-bit register  *)
(* or a program counter is abstracted to, the classes the decoder sorts    *)
(* instructions into, and the control registers they can name.             *)
(*                                                                         *)
(* An instruction is abstracted to its class, the set of the decoder's     *)
(* flags that decide which unit of the execution cluster takes it:         *)
(*   alu       any instruction no other class takes (also div and break,   *)
(*             which the core executes without effect on control)          *)
(*   bcond     a conditional branch                                        *)
(*   b         the unconditional branch that links nothing                 *)
(*   bl        bl and jirl: unconditional and linking                      *)
(*   mem       loads, stores, ll, sc, preld, dbar and ibar, all of which   *)
(*             send a request to the data cache                            *)
(*   mul       the multiplications                                         *)
(*   csrrd     csrrd; csrwr is csrwr and csrxchg                           *)
(*   cacop     cacop and invtlb, both memory and cache/tlb instructions    *)
(*   ertn      return from exception                                       *)
(*   ine       a word that decodes to nothing                              *)
(*   inemem    a 64-bit-only memory instruction (stx.w, am...): the        *)
(*             decoder marks it illegal and memory-related at once         *)
(*   inebru    jiscr0 and jiscr1: illegal and branch-related at once       *)
(***************************************************************************)
EXTENDS Naturals, FiniteSets

CONSTANTS
    NWords,     \* how many words there are: a program counter is a word index
    Ops,        \* the classes of instruction the program uses
    CsrAddrs,   \* the control registers it names
    PowerOn     \* the values a register with no reset may start with

AllOps == {"alu", "bcond", "b", "bl", "mem", "mul", "csrrd", "csrwr",
           "cacop", "ertn", "ine", "inemem", "inebru"}

\* "none" stands for any address at which the core has no register.
AllCsrs == {"crmd", "prmd", "era", "eentry", "bsec", "none"}

ASSUME NWordsAssumption == NWords \in Nat /\ NWords > 1
ASSUME OpsAssumption    == Ops \subseteq AllOps
ASSUME CsrsAssumption   == CsrAddrs \subseteq AllCsrs
ASSUME PowerOnAssumption == PowerOn \subseteq 0 .. NWords - 1

Word == 0 .. NWords - 1

\* Mutant: the incrementer carries out of the address.
IncNoWrap(p) == p + 1

\* cpu7_ifu_incr30: the next word's address, wrapping at the top.
Inc(p) == (p + 1) % NWords

----------------------------------------------------------------------------
(* The decoder's *_RELATED flags, one set of classes each.                 *)
LSU_RELATED   == {"mem", "inemem", "cacop"}
BRU_RELATED   == {"bcond", "b", "bl", "inebru"}
MUL_RELATED   == {"mul"}
CSR_RELATED   == {"csrrd", "csrwr"}
CSR_WRITE     == {"csrwr"}
CACHE_RELATED == {"cacop"}
ERET          == {"ertn"}
INE           == {"ine", "inemem", "inebru"}
LINKS         == {"bl", "inebru"}           \* branch codes JR and BL

\* An empty pipeline slot.
Bubble == "none"

\* What the fetch unit can be handed: a class and the CSR it names, if any.
Insts == [op : Ops \ CSR_RELATED, csr : {"none"}]
            \cup [op : Ops \cap CSR_RELATED, csr : CsrAddrs]

\* No instruction delivered this cycle (inst_valid low).
NoInst == [op |-> Bubble, csr |-> "none"]
=============================================================================
