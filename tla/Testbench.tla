----------------------------- MODULE Testbench ------------------------------
(***************************************************************************)
(* The simulation of the design: a loop that once a clock serves the RAM   *)
(* port, the serial lines and the terminal's set-up, and compares what the *)
(* core writes back with the reference, until one of them ends it.  A      *)
(* checkpoint may be saved once, and a simulation started from it.         *)
(*                                                                         *)
(* The design is what the loop sees of it.  Its UART is the part of it     *)
(* that is modelled, from its registers and its transmitter.               *)
(***************************************************************************)
EXTENDS CpuRam, UartSim, GoldenTrace

CONSTANTS
    Programs,   \* what the design does in a simulation, and its reference
    Image,      \* the words of the image, as pairs of an address and a word
    Commits,            \* what the core may write back
    Latches, Formats,   \* bytes for the latches and frame formats the software may write
    Accesses,           \* what may be asked of the RAM port
    Frames,             \* bytes the design sends in one simulation
    Oversampling        \* clocks of a bit for a divisor of one

Format == [stop : {1, 2}, parity : {"none", "odd", "even", "one", "zero"}]
PlainFormat == [stop |-> 1, parity |-> "none"]

\* What is asked of the RAM and what fills it are addresses and words; a
\* program is its kind and its reference.  A bit has at least three clocks
\* (the code has sixteen), so that its middle is not next to its end; and the
\* terminal's count of clocks is not cut off before the middle of a bit.
ASSUME TestbenchAssumption ==
    /\ Accesses \subseteq Access /\ Image \subseteq Addr \X Word
    /\ Programs \subseteq {"memory", "divisor", "receive", "send", "trace"} \X (Seq(Record) \ {<<>>})
    /\ Commits \subseteq WriteBack
    /\ Latches \subseteq (0 .. 2) \X (0 .. 255) /\ Formats \subseteq Format
    /\ Oversampling \in 3 .. 256
    /\ \A w \in Latches : (w[2] * Oversampling) \div 2 < ChangeMax

VARIABLES
    program, phase,
    emask, nStatus,             \* what ended the simulation, its verdict
    saved, asked,               \* the checkpoint; a read was asked
    uart_div_set, div_reinit, div_val, uart_config,
    lcr, dl,                    \* the registers of the design's UART
    dev_tx, dev_count, sent,    \* its transmitter, the bytes it was given
    dev_rx, dev_wait, heard,    \* its receiver, the bytes it got
    changes, last               \* the writes that changed a register; the last clock's

design == <<lcr, dl, dev_tx, dev_count, sent, dev_rx, dev_wait, heard, changes, last>>
capture == <<uart_div_set, div_reinit, div_val, uart_config>>
loop == <<phase, emask, nStatus, saved, asked>>
vars == <<ramVars, uartVars, traceVars, program, loop, capture, design>>

TypeOK ==
    /\ RamTypeOK /\ UartTypeOK /\ TraceTypeOK
    /\ program \in Programs /\ phase \in {"load", "run", "over"}
    /\ emask \subseteq {"uart_exit", "time_limit", "trace"} /\ nStatus \in {0, 1}
    /\ saved \in {<<>>} \cup [mem : {mem} \cup [Indices -> Seq(Page)], rdata : Word] /\ asked \in BOOLEAN
    /\ uart_div_set \in BOOLEAN /\ div_reinit \in BOOLEAN
    /\ div_val \in [0 .. 2 -> Nat] /\ uart_config \in Setup
    /\ lcr \in [dlab : BOOLEAN, format : Format] /\ dl \in [0 .. 2 -> Nat]
    /\ dev_tx \in Seq(Bit) /\ dev_count \in Nat /\ sent \in Seq(Byte)
    /\ dev_rx \in Seq(Bit) /\ dev_wait \in Nat /\ heard \in Seq([byte : Byte, ok : BOOLEAN])
    /\ changes \in Seq(Change) /\ last \in [wen : BOOLEAN, end_byte : BOOLEAN]

\* The terminal starts with a divisor of one and frames of a byte, no parity
\* and one stop bit.
FirstSetup == [baud |-> Oversampling, nstop |-> 1, nparity |-> 0, fixdp |-> 0, evenp |-> 0]
CaptureInit == /\ uart_div_set = FALSE /\ div_reinit = FALSE
               /\ div_val = [i \in 0 .. 2 |-> 0] /\ uart_config = FirstSetup
DesignInit ==
    /\ lcr = [dlab |-> FALSE, format |-> PlainFormat] /\ dl = [i \in 0 .. 2 |-> 0]
    /\ dev_tx = <<>> /\ dev_count = 0 /\ sent = <<>>
    /\ dev_rx = <<>> /\ dev_wait = 0 /\ heard = <<>> /\ changes = <<>>
    /\ last = [wen |-> FALSE, end_byte |-> FALSE]

Init == /\ program \in Programs
        /\ RamInit /\ UartInit(FirstSetup) /\ TraceInit(program[2])
        /\ CaptureInit /\ DesignInit
        /\ phase = "load" /\ emask = {} /\ nStatus = 1
        /\ saved = <<>> /\ asked = FALSE

----------------------------------------------------------------------------
\* A write of the design's UART registers, seen on its bus.
NoBusWrite == [on |-> FALSE, addr |-> 0, data |-> 0, byte |-> <<>>, dlab |-> FALSE, format |-> PlainFormat]

\* The set-up that the writes of the line control register ask for.
SetupOf(baud, f) ==
    [baud |-> baud, nstop |-> f.stop, nparity |-> IF f.parity = "none" THEN 0 ELSE 1,
     fixdp |-> IF f.parity \in {"one", "zero"} THEN 1 ELSE 0,
     evenp |-> IF f.parity \in {"even", "one"} THEN 1 ELSE 0]

\* A bug for the checks: only the last latch written counts.
DivisorLast(v) == IF v[0] # 0 THEN v[0] ELSE v[1] * 256

\* The terminal's divisor has 24 bits.
BaudRange == 256 * 256 * 256
Divisor(v) == v[0] + v[1] * 256 + v[2] * 65536

Latch(b) ==
    /\ b.addr \in 0 .. 2
    /\ IF uart_div_set THEN div_val' = [div_val EXCEPT ![b.addr] = b.data] /\ div_reinit' = TRUE
       ELSE UNCHANGED <<div_val, div_reinit>>
    /\ UNCHANGED <<uart_div_set, uart_config, m_setup>>

\* The terminal takes the divisor when the access to the latches is closed.
LineControl(b) ==
    LET closes == uart_div_set /\ ~b.dlab
        baud == IF closes /\ div_reinit THEN (Divisor(div_val) * Oversampling) % BaudRange ELSE uart_config.baud
    IN  /\ b.addr = 3
        /\ uart_div_set' = b.dlab /\ div_reinit' = (div_reinit /\ ~closes)
        /\ uart_config' = SetupOf(baud, b.format) /\ m_setup' = uart_config'
        /\ UNCHANGED div_val

Reconfigure(b) ==
    IF b.on THEN Latch(b) \/ LineControl(b) ELSE UNCHANGED <<capture, m_setup>>

----------------------------------------------------------------------------
\* The design's UART.
DevBaud == (dl[0] + dl[1] * 256) * Oversampling
DevParity(byte) == CASE lcr.format.parity = "none" -> <<>>
                     [] lcr.format.parity = "odd"  -> <<1 - Xor(byte)>>
                     [] lcr.format.parity = "even" -> <<Xor(byte)>>
                     [] lcr.format.parity = "one"  -> <<1>>
                     [] lcr.format.parity = "zero" -> <<0>>
DevFrame(byte) == <<0>> \o byte \o DevParity(byte) \o [i \in 1 .. lcr.format.stop |-> 1]
DevLine == IF dev_tx = <<>> THEN 1 ELSE Head(dev_tx)

\* The frame that is sent ends in this clock, or none is.
DevFree == dev_tx = <<>> \/ (Len(dev_tx) = 1 /\ dev_count = 0)

DevRegisters(b) ==
    /\ dl' = IF b.on /\ b.addr # 3 /\ lcr.dlab THEN [dl EXCEPT ![b.addr] = b.data] ELSE dl
    /\ lcr' = IF b.on /\ b.addr = 3 THEN [dlab |-> b.dlab, format |-> b.format] ELSE lcr
DevTransmit(b) ==
    IF b.on /\ b.addr = 0 /\ ~lcr.dlab
    THEN dev_tx' = DevFrame(b.byte) /\ dev_count' = DevBaud - 1 /\ sent' = Append(sent, b.byte)
    ELSE /\ sent' = sent
         /\ dev_tx' = IF dev_tx = <<>> \/ dev_count > 0 THEN dev_tx ELSE Tail(dev_tx)
         /\ dev_count' = IF dev_tx = <<>> THEN 0 ELSE IF dev_count > 0 THEN dev_count - 1
                         ELSE IF Len(dev_tx) = 1 THEN 0 ELSE DevBaud - 1
\* The receiver waits for the line to fall, and samples the middle of the
\* bits, the start bit too.
DevReceive ==
    LET bits == ByteWidth + (IF lcr.format.parity = "none" THEN 0 ELSE 1)
        byte == SubSeq(dev_rx, 2, ByteWidth + 1)
    IN  \/ /\ dev_rx = <<>> /\ dev_wait = 0
           /\ dev_wait' = IF uart_rx = 0 THEN DevBaud \div 2 ELSE 0
           /\ UNCHANGED <<dev_rx, heard>>
        \/ /\ dev_wait > 1 /\ dev_wait' = dev_wait - 1 /\ UNCHANGED <<dev_rx, heard>>
        \/ /\ dev_wait = 1
           /\ IF Len(dev_rx) = bits + 1
              THEN /\ dev_rx' = <<>> /\ dev_wait' = 0
                   /\ heard' = Append(heard, [byte |-> byte,
                        ok |-> uart_rx = 1 /\ SubSeq(dev_rx, ByteWidth + 2, bits + 1) = DevParity(byte)])
              ELSE dev_rx' = Append(dev_rx, uart_rx) /\ dev_wait' = DevBaud /\ heard' = heard

----------------------------------------------------------------------------
\* Filling the memory with the image, word after word, and the reset.
LoadImage ==
    /\ phase = "load" /\ \E w \in Image : Load(w[1], w[2])
    /\ UNCHANGED <<uartVars, traceVars, program, loop, capture, design>>
Reset == /\ phase = "load" /\ phase' = "run"
         /\ UNCHANGED <<ramVars, uartVars, traceVars, program, emask, nStatus, saved, asked, capture, design>>

\* The clock is past the limit the user set, who is not asked to go on.
time_limit_status(late) == IF late THEN {"time_limit"} ELSE {}

\* One clock.  The verdict is whether the core left the mark in its fifth
\* register, whatever ended the simulation.
Clock(save, p, b, byte, wb, end_byte, late) ==
    LET causes == ram_status(p) \cup time_limit_status(late) \cup trace_status(wb, end_byte)
    IN  /\ phase = "run"
        /\ saved' = IF save THEN [mem |-> mem, rdata |-> ram_rdata] ELSE saved
        /\ process(p) /\ asked' = (asked \/ p.ren)
        /\ UartReceive(DevLine) /\ UartSend(byte)
        /\ Reconfigure(b)
        /\ compare(wb, end_byte)
        /\ emask' = causes /\ phase' = IF causes # {} THEN "over" ELSE "run"
        /\ nStatus' = IF causes # {} /\ reg'[5] = 1 THEN 0 ELSE 1
        /\ DevRegisters(b) /\ DevTransmit(b) /\ DevReceive
        /\ changes' = IF Writes(wb) /\ reg[wb.wnum] # wb.wdata
                      THEN Append(changes, [pc |-> wb.pc, wnum |-> wb.wnum, wdata |-> wb.wdata])
                      ELSE changes
        /\ last' = [wen |-> wb.wen, end_byte |-> end_byte]
        /\ UNCHANGED program

----------------------------------------------------------------------------
\* What the design and the user do in each of the programs.
Alive == [NoWriteBack EXCEPT !.wen = TRUE]
Quiet(p, b, byte) == Clock(FALSE, p, b, byte, Alive, FALSE, FALSE)

Memory == /\ program[1] = "memory"
          /\ \E p \in Accesses, save \in {FALSE, saved = <<>>} :
                Clock(save, p, NoBusWrite, <<>>, Alive, FALSE, FALSE)

LatchWrite(i, d) == [NoBusWrite EXCEPT !.on = TRUE, !.addr = i, !.data = d]
LineWrite(d, f) == [NoBusWrite EXCEPT !.on = TRUE, !.addr = 3, !.dlab = d, !.format = f]
LatchWrites == {LatchWrite(w[1], w[2]) : w \in Latches}
LineWrites == {LineWrite(d, f) : d \in BOOLEAN, f \in Formats}
ByteWrites == {[NoBusWrite EXCEPT !.on = TRUE, !.byte = x] : x \in Byte}

Divisors == /\ program[1] = "divisor"
            /\ \E b \in {NoBusWrite} \cup LineWrites \cup (IF lcr.dlab THEN LatchWrites ELSE {}) :
                  Quiet(NoAccess, b, <<>>)

\* The software sets the UART up, then it sends, or the user types.
Configured == ~lcr.dlab /\ DevBaud # 0
SetUp == {b \in LineWrites \cup (IF lcr.dlab THEN LatchWrites ELSE {}) :
            ~Configured /\ (b.addr = 3 => b.dlab = (DevBaud = 0)) /\ (b.addr # 3 => b.addr = 0)}
Serial ==
    \/ /\ program[1] \in {"receive", "send"}
       /\ \E b \in {NoBusWrite} \cup SetUp : Quiet(NoAccess, b, <<>>)
    \/ /\ program[1] = "receive" /\ Configured /\ DevFree /\ Len(sent) < Frames
       /\ \E b \in ByteWrites : Quiet(NoAccess, b, <<>>)
    \/ /\ program[1] = "send" /\ Configured
       /\ \E x \in Byte : Quiet(NoAccess, NoBusWrite, x)

Trace == /\ program[1] = "trace"
         /\ \E wb \in Commits, end_byte, late \in BOOLEAN :
               Clock(FALSE, NoAccess, NoBusWrite, <<>>, wb, end_byte, late)

\* A simulation that starts from the checkpoint: the design is where it was,
\* the rest of the loop is at its beginning.  In the program that does this
\* the design uses nothing but the memory.
Restart ==
    /\ program[1] = "memory" /\ saved # <<>>
    /\ breakpoint_restore(saved.mem, saved.rdata) /\ asked' = FALSE
    /\ phase' = "run" /\ emask' = {} /\ nStatus' = 1
    /\ UNCHANGED <<uartVars, traceVars, program, saved, capture, design>>

Step == Memory \/ Divisors \/ Serial \/ Trace
Next == LoadImage \/ Reset \/ Step \/ Restart

Spec == Init /\ [][Next]_vars

\* The loop goes on until a clock ends it.
FairSpec == Spec /\ WF_vars(Reset) /\ WF_vars(Step)

----------------------------------------------------------------------------
\* The paged memory with its cursors (CpuRam::find, jump) is a flat one: a
\* read gives what was written last, whatever was searched for in between,
\* and in a simulation started from a checkpoint too.
Flat == INSTANCE FlatRam WITH
            NoAddr <- Device, flat <- Contents(mem), rdata <- ram_rdata,
            pending <- IF asked THEN read_addr ELSE Device,
            kept <- IF saved = <<>> THEN Contents([i \in Indices |-> <<>>]) ELSE Contents(saved.mem)
MemoryIsFlat == Flat!Spec

\* After every write of the line control register that closes the latches,
\* the terminal samples and sends at the design's rate, with its stop bits
\* and with a parity bit if it has one.  (The third latch is a fraction of a
\* clock for the design; the words have a byte.)
SetupFollowsDesign ==
    ~lcr.dlab /\ dl[2] = 0 /\ DevBaud # 0 =>
        /\ m_setup.baud = DevBaud /\ m_setup.nstop = lcr.format.stop
        /\ m_setup.nparity = IF lcr.format.parity = "none" THEN 0 ELSE 1

\* What the terminal shows is what the design sent, in order; what the design
\* hears is what was typed.  It hears it with the parity and the stop bit it
\* expects unless the parity is odd or even: the terminal's sender (p_config
\* in testbench.h) takes the one for the other, its receiver checks neither.
BytesIntact ==
    /\ IsPrefix(uart_out, sent)
    /\ IsPrefix(heard, [i \in 1 .. Len(typed) |->
                          [byte |-> typed[i], ok |-> lcr.format.parity \notin {"odd", "even"}]])

\* Between frames nothing is missing: a receiver that waits for the next start
\* bit has got every byte the other end has sent to the last bit.
NothingLost ==
    /\ dev_tx = <<>> /\ m_rx_state = "RXIDLE" => Len(uart_out) = Len(sent)
    /\ m_tx_state = "TXIDLE" /\ dev_wait = 0 => Len(heard) = Len(typed)

\* Every byte sent is shown, every byte typed is heard.
BytesArrive == []<>(phase = "over" \/ (Len(uart_out) = Len(sent) /\ Len(heard) = Len(typed)))

\* The simulation goes on only while the changes of registers are those of
\* the reference, and the comparison ends no other one.
Plain == \A i \in 1 .. Len(golden_trace_in) :
            golden_trace_in[i].trace_cmp_flag /\ golden_trace_in[i].change_num = 1
Agrees == /\ Len(changes) <= Len(golden_trace_in)
          /\ \A i \in 1 .. Len(changes) : changes[i] = golden_trace_in[i].fir
TraceExact ==
    Plain => /\ phase = "run" => Agrees
             /\ Agrees /\ emask = {"trace"} => sim_over \/ last.end_byte \/ dead_clock > DeadLimit

\* A core that stops writing back does not keep the simulation running.
DeadCoreEnds == <>[](~last.wen) => <>(phase = "over")
=============================================================================
