# A verification development for cpu7

cpu7 is a single-issue, in-order, five-stage LoongArch32 core (stages `_f _d _e
_m _w`) written in Verilog and set in the CHIPLAB SoC.  This directory holds TLA+
models of the core, of its caches and of the test bench it is simulated in, TLC
configurations that check them on small instances, and proofs, checked by
TLAPS, of what matters most for every value of the constants.
Paths below are relative to `src/`; `IP/myCPU/` is left out where the file name
is enough.

A step of every model is one rising edge of `clk`.  All registers are updated at
once, from the wires of the cycle that ends; wires are operators, and what comes
from outside a model is chosen freely in each cycle.  An active-low select vector
is written as the set of the inputs it selects, and a multiplexer whose selects
are not one-cold may put out any value, as its `default` arm (`x`) says.

- [1. Inventory](#1-inventory)
- [2. Plan](#2-plan)
- [3. The modules and the code](#3-the-modules-and-the-code)
- [4. The runs](#4-the-runs)
- [5. Fairness](#5-fairness)
- [6. What is proved](#6-what-is-proved)
- [7. What the code does not keep](#7-what-the-code-does-not-keep)
- [8. What is not modelled](#8-what-is-not-modelled)
- [9. Running it](#9-running-it)

## 1. Inventory

    soc_top
      core_top / cpu7 (mycpu_top)
        ifu:  fdp (next address, pcs) -> dec/imd (decoder)
        exu:  ecl (dispatch, stalls, results) + byplog, reg_file, csr, lsu,
              branch, alu, mul
        icache ---+
        dcache + prefetch + lru ---+--- cache_interface --- AXI
      axi_mux, bridge_1x2, axi2apb --- SRAM bridge, confreg, APB (UART, NAND)

### The core

**Fetch datapath** (`cpu7_ifu_fdp.v`, `cpu7_ifu_incr30.v`).  State: `pc_f`, the
pcs of the later stages, the valid bit given to decode.  Each cycle it forms
`pc_bf`, the next fetch address, from the held address, the next one, a branch
target, EENTRY and ERA, in two one-cold multiplexers, and cancels the fetch in
flight when it redirects.  It is told to wait by one combinational wire,
`exu_ifu_stall_req`.  *Correct when* the selects are one-cold in every cycle,
every word between two redirections is handed to decode exactly once and in
order, and none after a redirection comes from the path that was left.

**Decode** (`cpu7_ifu_dec.v`, `decoder.v`, `cpu7_ifu_imd.v`).  State: the
instruction register and its valid bit.  The decoder gives each word a set of
flags; several unit flags may be set together, and with the illegal flag.

**Execution control** (`cpu7_exu_ecl.v`).  State: one valid bit per unit and
stage, the operands and destinations of each stage, and two registered stall
requests.  Stages advance in every cycle: a stall only stops *dispatch*, and only
a taken branch kills the instruction in `_d`.  *Correct when* instructions take
effect once, in order; the result multiplexer has one select; an operand is the
newest value of its register; a control register is read when it is current.

**Operand bypass, register file** (`cpu7_exu_eclbyplog*.v`, `reg_file.v`).  Two
selects between the value read in `_d`, the result of `_m` and that of `_w`; the
register file forwards the write of the same cycle.

**CSRs** (`cpu7_csr.v`).  CRMD, PRMD, ERA, EENTRY and BSEC, written in `_m` by
`csrwr` and in `_e` by exceptions and `ertn`; read in `_d` with no bypass.
*Correct when* the two writers of CRMD never meet, and a trap saves the state of
the instruction that trapped.

**LSU** (`cpu7_lsu.v`).  Sends a request in the one cycle an access spends in
`_e`, keeps its destination until the data cache answers, and ends a misaligned
access by itself a cycle later.  *Correct when* each access ends once and the
word loaded reaches the register it was meant for.

**Branch unit, ALU, multipliers** (`branch.v`, `alu.v`, `mul*.v`): combinational,
or pipelined in step with the core.

### The memory side

**Instruction cache** (`icache.v`).  State: a three-state lookup machine (`idle`,
`lkup`, `blck`), a refill buffer with its own state machine, a cancel register,
the arrays.  It takes one address, answers a hit in the next cycle, and answers a
miss from the refill buffer as soon as four words are there.  The buffer is
written to the arrays only when the *next* miss wants it.  *Correct when* the
answer is always the word at `pc_f`, no line is held twice (the answers of two
copies are or-ed), and a miss is always answered.

**Data cache, prefetcher, LRU** (`dcache.v`, `prefetch_d.v`, `lru_unit.v`).  A
main state machine, a write buffer, four miss registers, a way-replacement
matrix.  *Correct when* a load returns the last value stored to its address
through hits, misses, write-backs and refills in flight, and no request is lost.

**Cache interface** (`cache_interface.v`).  Merges the reads of both caches on
one AXI channel, holds up to two victims, sends them back.  *Correct when* a line
waiting to be written back is not read from memory, and an address offered on
the bus does not change before it is taken.

**Interconnect and devices** (`../AMBA`, `../BRIDGE`, `../AXI_SRAM_BRIDGE`,
`../AXI_DELAY_RAND`, `../CONFREG`, `../APB_DEV`).  Routing of requests and
responses, an APB state machine, the UART's FIFOs and line machines, board
registers with a timer that crosses clocks.  *Correct when* each response goes to
the master that asked and FIFOs neither lose nor repeat.

### The simulation

`sims/verilator/testbench`: a C++ loop (`testbench.h`) around the translated
design.  In each clock it serves the memory port, the serial line and the watch
on the UART's registers, then compares what the core wrote back.

**Memory** (`ram.h`, `devices.h`).  State: 256 vectors of pages sorted by tag,
one cursor for each, the address of the read to answer; a checkpoint file.  A
search starts at the cursor; a write makes the page it misses and inserts it
where the search ended.  *Correct when* it is a flat memory of zeros and what was
written, in a simulation started from a checkpoint too.

**Terminal** (`uart.h`).  State: the format of a frame and a receiving and a
sending state machine.  It takes the format from the writes of the design's UART
registers that `testbench.h` sees.  *Correct when* it samples and sends in the
design's format, and each byte arrives once and in order.

**Reference trace** (`golden_trace.h`).  State: a copy of the registers, the
record the next change must match, what is left of a record of two changes, the
clocks without a write.  *Correct when* the simulation goes on exactly as long as
the changes are the reference's, and a core that stops ends it.

### How they interact, and what is hard

The core is a closed loop of same-cycle wires.  An instruction dispatched from
`_d` raises a stall that holds the word the instruction cache delivers *in that
cycle*; a branch outcome, a misaligned address, an illegal word and `ertn` in
`_e` redirect the fetch in the same cycle; the data cache's answer drops the
stall in the same cycle.  There is no central interlock: which of these may meet
is implicit in who stalls whom, and the two caches answer after any number of
cycles.  So the hard questions are about *combinations*: a redirection meeting a
stall, a trap behind a trap, a control register written by an instruction two
stages ahead, an answer that comes back after the request has been cancelled, a
load's word that returns when another result is in `_m`, a miss that waits for
the refill buffer that waits for the miss, a prefetch that takes the cycle of a
load.  In the simulation the hard parts are what is kept between clocks and calls: cursors,
divisor latches, flags, and what a checkpoint leaves out.  The list, with lines, is under
"hazards" in `PROJECT.json`.

## 2. Plan

In order of importance; each stage is checked and proved before the next.

| | modules | abstract specification | state |
|---|---|---|---|
| 1 | `Pipeline` = `Fdp` + `Ecl`/`DataPort` + `Csr` | `InOrder`, the sequential machine | built, checked, proved |
| 2 | `FetchUnit` = `Icache` + `Fdp`'s next address + a bus | the word at `pc_f`, which `Pipeline` assumes | built, checked, proved |
| 3 | `Operands` = `Issue` + bypass, register file, LSU destination | program order of register values; `Issue` is implemented by `Pipeline` | built, checked, proved |
| 4 | `DataSide` = `Dcache` + `CacheInterface` + a core and a memory; `WriteBuffer` | a memory of which the newest byte is followed; a word that returns what was stored | built, checked, proved |
| 5 | `Testbench` = `CpuRam` + `UartSim` + `GoldenTrace` + a design's UART | `FlatRam` | built, checked, proved |
| 6 | `LsuAlign`: strobes, misalignment, lanes of loads and stores | a byte-addressed memory | open |
| 7 | `AxiMux`, `Axi2Apb`, UART FIFOs, `Confreg`, SRAM bridge | one response per request, to its master; FIFO order | open |

One run for each question.  `DataSide` shows of the data cache what `DataPort` lets
it do: a request may go without an answer for ever (`lost`, section 7), and each one
that is taken is answered.

Every invariant and action property of a passing run is now a theorem, and so are
the three refinements; what is left to prove belongs to stages 6 and 7.

## 3. The modules and the code

`PROJECT.json` maps each definition to its lines; this is the overview.

**`Isa`.**  Words, instruction classes, control register names.  A pc or a
32-bit value is a number below `NWords`, and `Inc` wraps as the 30-bit
incrementer does.  An instruction is its class: the set of decoder flags that
decide which unit takes it.  Classes with two flags are there because the
decoder has them: `cacop` (memory and cache), `inemem` (64-bit-only memory
instructions, illegal and memory-related at once), `inebru` (`jiscr0/1`, illegal
and branch-related).

**`Dlib`.**  The decoded-select multiplexers of `swrvr_dlib.v`/`swrvr_clib.v` and
the assertion they carry.

**`Fdp`.**  `cpu7_ifu_fdp.v` with the instruction register of `cpu7_ifu_dec.v`:
the selects line for line (`PcbfMux1Sel`, `PcbfMux2Sel`), the set of values
`pc_bf` can have (`PcBf`), the registers (`FdpNext`).

**`Ecl`.**  The control of `cpu7_exu_ecl.v` and the handshake of `cpu7_lsu.v`.
The valid bits of a stage are all registered from one instruction's flags, so a
stage is kept as that instruction's class (`op_e`, `op_m`).  Stall requests,
exceptions, `ertn`, the selects of `rd_data_mux`.

**`DataPort`.**  `Ecl` facing the data cache, which is `pending`, the accesses
taken and not answered, and `lost`.  In the one cycle a request is on the bus the
cache may leave it (`data_addr_ok` is low, which the LSU does not look at) or take
it as a prefetch (`preld`), and then never answers it (`owed_ok` false).
**`Csr`.**  `cpu7_csr.v`; the fields of a register that
are written under the same selects are one word.

**`Pipeline`** wires these as `cpu7_ifu.v` and `cpu7_exu.v` do.  `Tick(i)` is a
clock edge with the inputs `i`: whether and what the instruction cache answers,
the outcome and target of a branch, whether an address is misaligned, the value a
`csrwr` writes, whether the data cache takes what it is asked and whether it answers.  Two history variables, `shadow`
and `retired`, are read by no other register.  `Pipeline` assumes that the
instruction cache's answer belongs to `pc_f` (checked and proved of `FetchUnit`),
and that the data cache answers only what it has taken (`AnswersTaken`, checked and
proved of `DataSide`).

**`InOrder`.**  What the pipeline promises: one instruction after another, each
at the address its predecessor left, control registers changing between two
instructions.  It states, as an explicit `slot`, the one irregularity of the
code: after an illegal instruction or an `ertn`, which do not kill `_d`, one
instruction of the abandoned path may still execute.

**`Issue`.**  An abstract front end: anything may be dispatched, except while a
stall request is registered.  `Pipeline` implements it (`DispatchHeld`), and
`Operands` is built on it instead of on the whole pipeline.

**`Operands`.**  The decode fields registered into `_e` and `_m`, the operands
read in `_d`, the LSU's kept destination, `_w`, the register file.  The two
bypass units are translated separately because they differ.  `arch` is history,
the register values in program order, and `owed` the register an outstanding
load will write.  Its decode fields are any combination the decoder's write
enable and operand flags allow.  Immediates and the pc are the value 0: no
property tells them apart, only that they are not replaced.  Divisions write
nothing (no unit takes them).  An instruction that traps (a misaligned load, an
illegal word with an ALU flag) still writes its destination in the code, and the
history follows the code.  `double_read`, which keeps the second operand from
being bypassed (`cpu7_exu_ecl.v:278`), is the field `double`: it is set for the
memory words of the 64-bit set that name two address registers, illegal ones that
are dispatched all the same (`inemem`), and for no legal word.

**`Icache`.**  `icache.v` as the core uses it: no cache operations (`cpu7.v` has
the port `cache_req` and never drives it), no uncached fetches (`itlb_uncache` is
0 at `cpu7.v:303`), no external requests (`i_ex_req` is 0
at `cache_interface.v:502`).  A word is its own address, a beat is the number of the pair of
words it holds; the line address is split by the constants `Tag` and `Index`.
The way to replace is left open, so every replacement policy is covered.

**`FetchUnit`.**  `Icache` with the next-address logic of `Fdp` (by `INSTANCE`)
and a bus that answers each line read with four beats.  The core's requests are
`Asked`: the combinations of stall and redirection that `NextPcDefined`, proved
of `Pipeline`, leaves.  Things the model makes visible: a redirection in the
cycle in which its own new address is taken cancels that address too, and it is
fetched again after the cancelled answer; a cancelled miss is still refilled and
answered before the next address is taken.

**`Dcache`.**  `dcache.v` as it is wired: the translation is the identity one
cycle late, nothing is uncached or cancelled, no atomics, cache operations or
external requests.  Kept are the four states of the request machine, the
registers of the arrays' outputs, the write buffer, the miss registers with their
seven states, the delayed write of the dirty bit and the order in which all these
use one port of the arrays.  The data are followed for one byte, `Watched`: every
place that can hold a copy has a flag, `cur`, that says that this copy is of the
last store.  A store that is taken makes every other copy old (`Keep`), moving
and merging carry the flag along.  The write buffer and the array get what the
code gives them (lines 912-937): `wpath` has the flag in `data_wdata_reg`,
`wr_buff_wdata_src`, `wr_buff_wdata` and `wr_buff_ram_wdata`, each a clock behind
the one before it, so that a store that hits puts nothing newest into the buffer
and the byte is lost (`storehit` in section 7).  `hit_last`, history, says that the
last store to the byte was such a one; what the model claims of the bytes it claims
for all other stores, with hits on the bytes around in between.  The way to
replace is any way.  Where a comparison uses a register that is not yet of the
request (`st_ld_conflict`, `wr_buff_hit`), its outcome is left open (`stale`).

**`CacheInterface`.**  The victim buffer with its two pointers, the read that is
held back while its line waits there, the registers between the bus and the
cache.

**`DataSide`** adds the core (one request, on the bus for one cycle, then none
until the answer), the prefetcher (any line of the program at any time, when the
core asks for nothing), and a memory that answers as AXI allows: beats of a
line in order, those of two lines interleaved, a write answered after its
address and its last beat, the next version of memory visible then.

**`WriteBuffer`.**  The data path of a store that hits on one word, with the bytes
in place of a flag: the registers in front of the buffer, the merge on a later hit, the word the array
ends up with, and `stored`, what it should hold.

**`CpuRam`.**  `ram.h`.  An address is a tag, an index and an offset; a page is
its tag and its words; the cursor is a position, one behind the last page for
`end()`.  A word is loaded (`jump`, as the image is read), read with the search
that moves the cursor, written by lanes, saved and restored.  The device's UART is
one more address, at which the lowest byte of what is written decides the end
(`devices.h:30`, `LowLane`).  **`FlatRam`** is what it implements: contents, a read that is
answered a clock later, a copy that is kept and returned to.

**`UartSim`.**  `uart.h`: frames of words as wide as a byte (`ByteWidth`, the
code's 8; shorter words, which `uart.h:312` shows with the bits behind them, are not
modelled), the receiver's count from the fall of the line, the sender.  **`GoldenTrace`.**
`golden_trace.h` with one commit port: records of one and of two changes, records
that are not compared, the flags between clocks.

**`Testbench`.**  `testbench.h`'s loop.  One step is one clock: memory, line,
register watch, reference, in that order, and then the verdict.  What the design does comes from a
`program`: memory accesses and a checkpoint; writes of the latches and the line
control in any order (multi-byte divisors there, single-byte ones in the serial
programs); sending; hearing; writing registers back.  The design's UART (`uart_regs.v`,
`uart_transmitter.v`, `uart_receiver.v`) is modelled as the line shows it.  A
restart from the checkpoint happens with the memory program only, since nothing
restores the terminal or the reference.

**`MCPipeline`, `MCFetchUnit`, `MCOperands`, `MCDataSide`, `MCTestbench`** name the values the configurations
give to constants.

## 4. The runs

| run | checks | instance | states |
|---|---|---|---|
| `control` | `TypeOK`, `PcSelectsDefined`, `BlockingAccess`, `PcsConsecutive`, `ResultSelectOneCold`, `ControlInv`, refinement of `InOrder`, `KeepsExecuting`, `DispatchHeld` | every way to stall, redirect, trap and claim two units; 2 words | 35,553 |
| `csr` | `CsrReadCurrent`, `CrmdOneWriter`, refinement | CSR reads and writes amid traps and loads; 4 CSRs, 2 words | 155,279 |
| `fetch` | `TypeOK`, `FetchedWordIsPc`, `OneCopy`, `ArrayCoherent`, `FetchInv`, `WordArrives` | 2 lines, 1 set, 2 ways | 12,510 |
| `operands` | `OperandsCurrent`, `NewestCopy` | 2 registers, 2 values, 7 classes | 32,358 |
| `dcache` | `TypeOK`, `OnePlace`, `LoadReturnsLatest`, `NewestReachable`, `AnswersTaken`, `NoReadOfVictim`, `DataInv`, `TakenAnswered` | 4 programs, 4 lines, 2 sets, 1 way, 2 miss registers | 41,950 |
| `testbench` | `TypeOK`, `PagesSorted`, `SetupFollowsDesign`, `BytesIntact`, `NothingLost`, `TraceExact`, refinement of `FlatRam`, `BytesArrive`, `DeadCoreEnds` | 3 tags, 2 bytes each way, 3 registers | 105,810 |
| `pcmux`, `elder`, `nop`, `pcrel`, `lost`, `storehit` | claims the code does not keep, see 7 | | |

What they show:

- *Fetch addresses.*  In every reachable cycle the selects of `pc_bf` are
  one-cold, but for two named cases (an `ertn` whose successor stalls; an illegal
  branch that is taken).
- *In order, once.*  Under every timing of the caches and every combination of
  stall, kill and redirection, the pipeline implements `InOrder`.
- *One result, one writer.*  `rd_data_mux` has one select (`cacop` excepted), and
  CRMD one writer.
- *Control registers need no bypass*: a value read in `_d` is current when its
  instruction is in `_e`, except in the shadow of a trap.
- *Registers are bypassed correctly*, loads with any latency included: an operand
  is the newest value of its register, but for the two cases of section 7 and the
  second operand of an illegal `double_read` word.
- *The answer of the instruction cache is the word at `pc_f`*, whatever was
  cancelled, refilled or blocked; no line is held twice; arrays hold whole lines.
- *The data cache keeps one copy of a line.*  A line is never in two ways or
  miss registers.  The value of a byte whose last store missed is always in a place
  a load or a write-back will take it from, through refills, hits on the bytes
  around it, write-backs and the victim buffer, and a load that is answered gets
  it.  Of a byte whose last store hit nothing is claimed: the write buffer loses it.
- *The simulated memory is a flat one*, whatever order pages are made and searched
  in, and after a restart from a checkpoint, but for the read that was under way.
- *The terminal follows the design* through every order of latch and control
  writes, and bytes arrive both ways, frames back to back included: in order,
  unchanged (`BytesIntact`), and none missing once the line is quiet (`NothingLost`).
- *The reference ends what it should*: the simulation runs only while the changes
  agree, and the comparison ends no other one.
- *Nothing waits for ever*, given that the caches' environment answers: the core,
  but for a request the data cache has not taken (`KeepsExecuting` names that one
  reason, and `lost` shows that it happens), a fetch that is not redirected, a request the data cache took, a byte, a
  simulation whose core is dead.

### Bounds, and why they are enough

- `MaxPending = 2` caps `pending`; `BlockingAccess` shows it never passes 1, so
  the cap cuts nothing off.
- `NWords` is 2.  A pc is only incremented, compared by refinement and replaced;
  two words tell a held address from the next, and wrap.
- Each mix of classes holds what one question is about, since classes outside it
  add states and no interaction: `EveryOps` (one class for each way to stall,
  trap, redirect and be claimed by two units), `CsrOps` (what touches CSRs),
  `DataOps` (what delivers results).  The proofs hold for all classes together.
- `CsrAddrs` leaves out PRMD in `csr`, which is still written by traps and read
  by `ertn`.  `PowerOn = {1}`: registers without reset start at a value that
  differs from what traps and resets write.
- Two lines and two ways of one set: a line that is missed meets the buffer
  with itself, with the other line, and both ways full.  `Targets` lie inside a
  line and in the other one; running off a line into the next needs no target.
  Offsets and the four beats are the real ones.  Tag and index disagreeing across
  sets is left to the proof.
- Two registers are r0 and one other: bypass compares numbers for equality only.
  Two values tell two writes apart; `arch` compares them one register at a time.

- `dcache`: one way makes every miss a replacement.  The programs hold two lines
  of one tag in different sets and a rival of one of them (`TwoSets`), a prefetch of
  the rival (`Rival`), prefetches of the line that is loaded and stored to in two
  parts (`Own`), and three lines of one way and two miss registers (`Crowd`), so that
  the registers and the victim buffer fill up.  Two of
  four miss registers and the real two victims; two words of a line, one to a
  beat; two bytes of a word, so that a store covers the watched one or not.
- `testbench`: three tags put a page in front of, between and behind others, with
  the cursor anywhere or at the end.  Words of one bit-wide lane: merging lanes is
  checked by the refinement for one lane and is one expression in the code.  Frames have two
  data bits; divisors are 1 and 2 over four clocks instead of sixteen, which keeps
  start, middle and end of a bit apart; formats have no parity, a fixed one with
  two stop bits and with one, and a computed one.  `ChangeMax` caps a count that is used only
  while it is below half a bit.  `Typing` and `Frames` are two, so that one frame
  follows another at once.  Traces hold records of one, two and three changes and
  records not compared; `DeadLimit` 2 stands for 10000.

Deadlock is checked in every run but `testbench`, since a clocked circuit never
stops, and a simulation does.

## 5. Fairness

`Pipeline`, `FairSpec`: the clock runs (`WF(Next)`); the instruction cache keeps
answering, that is, a word the front end could accept in every cycle from some
point on is accepted (`Deliver`, which `WordArrives` backs: the front end is
eventually given a word); the data cache answers each request it has taken
(`Answer`, which `TakenAnswered` backs).  Nothing is assumed of stalls, branches or
traps, nor that a request is taken: `KeepsExecuting` is `[]<>(op_e # Bubble \/ lost)`.

`FetchUnit`, `FairSpec`: the clock runs; the bus takes a read that stays offered
(`Take`) and returns the beats it owes (`Return`), as AXI slaves must.  The core
may redirect as often as it likes: `WordArrives` says that a word arrives unless
fetches are cancelled for ever.

`DataSide`, `FairSpec`: the clock runs; the bus takes a read, an address and a
beat that stay offered, answers a write it has in full, and returns each beat it
owes, as AXI slaves must.  Nothing is assumed of the core or the prefetcher:
they may stop, or ask as often as the protocol lets them.

`Testbench`, `FairSpec`: the loop of `simulate` goes on until a clock ends it
(`WF(Step)`), and the image ends (`WF(Reset)`).  The user may type or not.

## 6. What is proved

Every theorem holds for all values of the constants that satisfy the assumptions
(`NWords > 1`, any subset of classes and CSRs; any number of lines and non-empty
set of ways, any injective split of the line address; any number of registers
above 1 and any values with 0; any number of miss registers, words of a line and
beats that divide it, and any programs whose stores have a byte to store; latches
of a byte and 3 to 256 clocks to a bit, any words, lanes, tags and reference).
TLC evaluates the assumptions in the runs.

**`Pipeline_proofs`.**  `TypeCorrect`, then
`ControlCorrect`: the inductive invariant

    ControlInv == StallHoldsDecode /\ CsrStallTracksWrite /\ LsuStallTracksAccess

`BlockingAccess` and the others are not inductive: they follow only from knowing
*why* nothing is in decode.  `StallHoldsDecode`: while a request is registered,
`_d` is empty, because the combinational request held the word of the cycle that
raised it.  `CsrStallTracksWrite`: the CSR request is registered exactly while a
`csrwr` is in `_e` or `_m`.  `LsuStallTracksAccess`: the LSU's is registered only
while an access is in `_e`, outstanding, lost or misaligned in `_m`, and those
exclude each other and everything else in `_e`.  From it: `AccessesBlock`, `OneResult`,
`OneCrmdWriter`, `NextPcDefined`.  `CsrReadsCurrent` needs one more induction: a
read in `_d` and a write in `_m` are never neighbours, because the request that
`csrwr` raises lasts until it is in `_m` and written.
`DataPort!LsuStallStep` is the step of the LSU's request, shared with
`Operands_proofs`.

**`PipelineRefinement`.**  `PcsAreConsecutive`, then `ImplementsInOrder` under the
refinement mapping

- `npc` is `pc_e` when a regular instruction is in `_e`, else `pc_d` when decode is
  valid, else `pc_f`: the oldest instruction in flight;
- `slot` is `pc_e` when the instruction in `_e` was dispatched behind a trap or an
  `ertn`;
- `csrs` are the registers with the write still in `_m` applied (`ArchCsr`);
- `last` is `retired`.

A clock edge with an instruction in `_e` is a step of `InOrder`, one without is a
stutter.  `FrontEndHolds`: `Pipeline` implements `Issue`.

**`Operands_proofs`.**  `OperandsCorrect`, the inductive invariant
`OperandsInv`: types, `LsuStallTracksAccess`, decode fields that go with their
class (`FieldsKept`), `NewestCopy` (the newest value of a register is in `_m`,
else `_w`, else the file), and `OperandsHeld` (the operand read in `_d` is the
register's value but for what `_m` and `_w` still hold).  `NoResultLost` and
`OperandsAreCurrent` follow, for every class, with the three exceptions the
property names.

**`FetchUnit_proofs`.**  `FetchTypeCorrect`, then `FetchCorrect`:

    FetchInv == StatesAgree /\ RequestIsPc /\ BufferTracksBus
                /\ BlockedIsMiss /\ OneCopy /\ ArrayCoherent

`RequestIsPc` says where the request for `pc_f` waits; it needs the others, since
the tag and index of a blocked miss are registers of different cycles.
`BlockedIsMiss` is what makes a refill create no second copy, and
`BufferTracksBus` what makes a full buffer a whole line.  `FetchedWordCorrect`,
`NoSecondCopy` and `ArraysHoldMemory` follow.

**`DataSide_proofs`.**  `DataTypeCorrect`, then `DataCorrect`:

    DataInv == PlacesInv /\ AnswersInv /\ BytesInv

`PlacesInv` says where each line is.  A refill is two cycles between which a line
is neither safely in the arrays nor out of them, so `OnePlace` alone is not kept:
`LookupCurrent` says that what a lookup compares is still what the tags are,
`BlockedAbsent` that a request which found all registers taken still misses when
its turn comes, `VictimRead` that a line being replaced has been read and has a
slot to go to, `VictimsAway` that a victim is in no way but the one it is leaving
and in no register past its read.  From it `OnePlaceHolds` and `NoVictimRead`;
`BeatDue` and `WholeLine` bound the beats, which types need.
`AnswersInv` says that the one access that is owed an answer is looked up, blocked
or waiting in one register; `AnswersAreTaken` follows.
`BytesInv` follows the newest byte, as long as its last store has not hit
(`hit_last`).  `NewestPlaced` strengthens `NewestReachable`
from "some place" to "every place it can be looked for in".  When a clean line is
replaced nothing is written back, so `CleanBehind` is needed: who is not dirty, and
has no dirty bit on its way in `lrud`, has its byte among the victims or in memory.
That bit takes two cycles and a port it shares with refills; `LrudBuffered` and
`BufferInWay` say why it gets there, since the store that set it is still in the
write buffer and no line is moved while it is.  `BufferInWay` also says that bytes in
the buffer are of stores that hit, so that the write of the buffer to the array,
whatever it writes, spoils no byte the other parts speak of.  `VictimOrder` and
`AnsweredWritten` bring victims to memory in order.  `LoadsReturnLatest` and
`NewestIsReachable` follow.  The proof has one lemma for each part and handler,
over the edge's inputs (`Edge`).

**`Testbench_proofs`.**  First the search of `ram.h`.  `FindIsAround`: wherever the cursor
starts, a search in sorted pages ends at a place with every page before it below
the tag and every page from it on at or above it.  From that a read finds the page
if there is one (`ReadFinds`), a page is inserted in order (`InsertedSorted`), and
an access changes one word and no other (`JumpCorrect`, `WriteCorrect`).

Then the theorems.  `Ordered`: `PagesSorted` with the types of the memory is
inductive.  `MemoryFlat`: with the mapping of the contents (`Contents`), the read
that is pending and the checkpoint, each clock is a step of `FlatRam` or a stutter.
`SetupFollows`, from `SetupIInv`: the terminal has a copy of both latches, and its
divisor is theirs unless one was written since.  `TraceIsExact`, from `TraceIInv`:
while the simulation goes on, the changes so far are those of the reference
(`InStep`), and after it the reason it ended is the one in the trace.

**`UartLines_proofs`.**  `NothingIsLost`, `BytesAreIntact` and `TestbenchTypes`.
Neither property is inductive: that the next byte is right follows from where each
receiver is in the frame the other side is sending.  The invariant

    LinesIInv == SerialTypeOK /\ (Serves => Rates) /\ (~Serving => AtRest)
                 /\ (Serving => OutLine /\ OutPlace /\ OutBytes /\ InLine /\ InPlace /\ InBytes)

has three parts for each direction.  `OutLine`, `InLine`: what is on the line is
the rest of the frame of the last byte.  `OutPlace`, `InPlace`: the receiver's
counter and the number of bits it has, as a function of the sender's bit and clock.
The sender changes the line every B clocks and the receiver looks half a bit later,
so that in each bit the receiver is first behind the sender and then level with it;
and the terminal may still wait for the middle of the last stop bit when the design
starts the next frame, which makes it two bytes behind for up to half a bit.
(It looks one clock after the fall, and takes that back in `RxStart`.)  `OutBytes`,
`InBytes`: the bits it has are those of the byte.  `LinesIInv` is kept together with
`SetupIInv`, which gives both ends the same rate and the terminal a format of the
same length.  `PlaceStep` and `HearPlaceStep` are the arithmetic of one clock, without
any of the states; `BothFrames` and `FrameHeard` say that the two descriptions of a
frame agree and what its bits are.

The assumptions are what the argument needs.  A bit has at least three clocks
(`Oversampling`, 16 in the code): with two TLC finds a frame that is missing when
the line is quiet, because the clock after the fall is already the middle of
the start bit.  At most 256, and half of the longest bit below `ChangeMax`, where the
model stops counting the clocks since the last fall; the code's counter has no such
end.

`TypeOK` of the loop needs `LinesIInv` for the terminal's counters and bits,
`TraceIInv` for the reference, and `LoopIInv`: the count of clocks without a write
passes `DeadLimit` only in the clock that ends the simulation, and is 0 in the
program that restarts from a checkpoint.

**Only model-checked:** `KeepsExecuting`, `WordArrives`, `TakenAnswered`,
`BytesArrive` and `DeadCoreEnds`, since liveness under fairness, and `ENABLED`,
are beyond the installed provers.  Of the six claims of section 7 TLC gives
counterexamples.  No module uses recursion.

## 7. What the code does not keep

Six runs expect a violation; each is a statement of the repository that the code
contradicts.

- **`pcmux`.**  The assertion `0in one_cold` on `pcbf_mux_2` (`swrvr_dlib.v:235`).
  When an `ertn` in `_e` meets a load, store or CSR write in `_d`, the front end
  stalls, the held address and ERA are selected at once
  (`cpu7_ifu_fdp.v:208`), and `pc_bf` is `x`.  Exceptions are masked out of that
  select; `ertn` is not.
- **`elder`.**  `cpu7_csr.v:9`, the exception in `_e` has priority because it is
  the elder.  An illegal instruction does not kill `_d`, so an illegal one behind
  it traps a cycle later and overwrites ERA and PRMD.
- **`nop`.**  The assertion `0in one_hot` of `mux3ds` (`swrvr_clib.v:626`).
  `cpu7_exu_eclbyplog_rs1.v:43` lacks the `| ~bypass` its sibling has: r0 read
  behind an instruction that names r0 as its destination (any `nop`) selects no
  input, and the operand is `x`.  `func_uty32_nop/start.S:23` depends on it being 0.
- **`pcrel`.**  `cpu7_exu_ecl.v:175` and `func_uty20_pcaddu12i`: the first operand
  of `pcaddu12i` is the pc.  The bypass compares five bits of its immediate with
  the destinations in `_m` and `_w` and may replace the pc by their result.

- **`lost`.**  `cpu7_exu_ecl.v:1020`, the stall an access starts is ended by its
  answer.  The request is on the bus for one cycle and `data_addr_ok` is not
  looked at (`cpu7_lsu.v:298`); the data cache refuses requests, for instance
  while it moves a prefetched line to its arrays.  The counterexample is a prefetch and a
  load a few cycles later.
- **`storehit`.**  A load behind a store returns what was stored
  (`func_uty3_st.w/start.S:27`).  The write buffer takes its data from registers
  that were loaded by an earlier store (`dcache.v:914`, `931-937`, marked "uty:
  test", and commented-out code beside them, `939-942`, without the registers).  They
  are loaded in every clock, so what a store brings is in the buffer's reach only
  for the requests behind it.  `Dcache` has the same registers, and its properties
  say nothing of a byte from a store that hits until one that misses.

One more disagreement has no run of its own.  The line control values that the
design's UART takes as odd and even parity are even and odd for the terminal's
sender (`testbench.h:288-292`, `uart.h:379-384`, `uart_transmitter.v:214-219`),
so a typed byte is heard with a parity error, and the right data bits: `BytesIntact`
says so, for every format.

The properties of the passing runs name these cases and claim everything else:
`PcSelectsDefined` (`pcmux`), `OperandsCurrent` (`nop`, `pcrel`, and the second
operand of an illegal `double_read` word, of which no text says anything),
`KeepsExecuting` (`lost`), `LoadReturnsLatest`, `NewestReachable` and `DataInv`
(`storehit`).  `InOrder` lets the address, or the control registers, be what the
code makes of them there.

## 8. What is not modelled

- The AXI and APB interconnect, confreg and the SRAM bridge; of the UART, the
  FIFOs and interrupts: open (section 2).  The caches assume of the bus what AXI
  promises, with any delay.
- Of the data cache: cache operations, atomics, uncached accesses and external
  requests, which nothing drives; which way is replaced (`lru_unit.v`) and what is
  prefetched (`prefetch_d.v`), which are left open.
- The read channel the two caches share (`cache_interface.v:401`): each cache's
  model sees it as a bus that is not ready.
- Byte lanes of the LSU: open.  Branch comparisons, ALU and multiplier: 32-bit
  combinational values; the models take their outcomes as inputs.
- Opcode tables and immediates of the decoder: the models take the flags that go
  together as given.
- RAM initialisation (`ram_wrapper.v`): `FetchUnit` starts when it ends, since
  `inst_req` is held low until then.
- The instruction cache's cache operations, uncached fetches and external
  requests: nothing drives them.
- `cpu7_csr_byplog.v`: not instantiated.  `pc_m`, `pc_w`: read by the debug port
  only.
- The NAND controller and the APB multiplexer (third-party, unused by the core's
  software), generated Xilinx IP, SoC tops.
- The software: test programs, and one header of opcodes per test (`inst_test.h`,
  the same in every directory).  They say what the core is expected to do.
- Of the terminal: words shorter than a byte (bits 1:0 of the line control, kept as
  `m_nbits`), so that `SetupFollowsDesign` compares divisor, stop bits and parity only;
  frames at a divisor of more than one byte, since the serial programs write the first
  latch and the `divisor` program, which writes all, sends nothing.
- Of the test bench: arguments, waveforms and their slices, output files, the
  display of the board's number, the device's timer; and what the default build
  leaves out or cannot build: random tests (`rand64.h`, the `RAND_TEST` half of
  `ram.h`), the second commit port (`CPU_2CMT`), `axi.h` and `rf_trace.h`, which
  nothing includes.

## 9. Running it

    tlc -workers 2 -config MCPipeline_control.cfg MCPipeline    # any run
    tlapm Pipeline_proofs.tla                                   # any *_proofs

A run named `r` of `PROJECT.json` is the module and configuration listed there.
The longest take about two minutes; the proofs together a few.
Definitions whose comment begins with "Mutant" or "A bug for the checks" are faulty variants of the one
that follows them, each one a bug its property catches when it takes the place
of the original.
