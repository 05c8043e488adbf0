------------------------------ MODULE UartSim -------------------------------
(***************************************************************************)
(* The terminal of the simulation, at the other end of the design's serial *)
(* lines.  It is called once a clock with the level of the line the design *)
(* drives and returns the level of the line the design receives.           *)
(*                                                                         *)
(* Time is counted in clocks: a bit lasts m_setup.baud of them.  The shift *)
(* registers are sequences of bits; m_rx_busy and m_tx_busy are their      *)
(* lengths.  Bytes have ByteWidth bits, the frames' words as many: the     *)
(* word length the line control register can choose (m_nbits) stays at its *)
(* eight.  With shorter words the terminal would still show eight bits of  *)
(* a frame (line 312), its parity and stop bits among them.                *)
(***************************************************************************)
EXTENDS Integers, Sequences, FiniteSets

CONSTANTS
    ByteWidth,  \* bits of a byte
    ChangeMax,  \* where the count of clocks since a falling edge is cut off
    Typing      \* bytes typed into the terminal in one simulation

ASSUME UartAssumption == ByteWidth \in Nat \ {0} /\ ChangeMax \in Nat /\ Typing \in Nat

VARIABLES
    m_setup,                                \* the format of the frames
    m_rx_state, m_rx_baudcounter, m_rx_data,
    m_rx_changectr, m_last_tx,              \* clocks since the line fell
    m_tx_state, m_tx_baudcounter, m_tx_data,
    uart_rx,                                \* the line to the design
    uart_out, typed                         \* bytes shown, bytes taken

receiver == <<m_rx_state, m_rx_baudcounter, m_rx_data, m_rx_changectr, m_last_tx, uart_out>>
sender == <<m_tx_state, m_tx_baudcounter, m_tx_data, uart_rx, typed>>
uartVars == <<m_setup, receiver, sender>>

Bit == {0, 1}
Byte == [1 .. ByteWidth -> Bit]
Setup == [baud : Nat, nstop : {1, 2}, nparity : Bit, fixdp : Bit, evenp : Bit]

UartTypeOK ==
    /\ m_setup \in Setup
    /\ m_rx_state \in {"RXIDLE", "RXDATA"} /\ m_rx_baudcounter \in Int
    /\ m_rx_data \in Seq(Bit) /\ m_rx_changectr \in 0 .. ChangeMax /\ m_last_tx \in Bit
    /\ m_tx_state \in {"TXIDLE", "TXDATA"} /\ m_tx_baudcounter \in Int
    /\ m_tx_data \in Seq(Bit) /\ uart_rx \in Bit
    /\ uart_out \in Seq(Byte) /\ typed \in Seq(Byte)

\* The constructor does not set what it knows of the line; the count is not
\* used before the line has fallen.
UartInit(setup) ==
    /\ m_setup = setup
    /\ m_rx_state = "RXIDLE" /\ m_rx_baudcounter = 0 /\ m_rx_data = <<>>
    /\ m_rx_changectr = ChangeMax /\ m_last_tx \in Bit
    /\ m_tx_state = "TXIDLE" /\ m_tx_baudcounter = 0 /\ m_tx_data = <<>>
    /\ uart_rx = 1 /\ uart_out = <<>> /\ typed = <<>>

----------------------------------------------------------------------------
\* A bug for the checks: the receiver takes the edge to be in this clock.
RxStartNow(change) == m_setup.baud + m_setup.baud \div 2 - 1

\* From the clock the receiver sees the start bit to the middle of the first
\* data bit: it may have been busy with the last frame when the line fell.
RxStart(change) == m_setup.baud + m_setup.baud \div 2 - 1 - change

\* A bug for the checks: the mark of a sample is not shifted in.
SampledOne(bits, i_tx) == <<i_tx>>
Sampled(bits, i_tx) == Append(bits, i_tx)

\* A bug for the checks: a frame always has a parity bit.
FrameBitsLong == ByteWidth + 1 + m_setup.nstop
FrameBits == ByteWidth + m_setup.nparity + m_setup.nstop

UartReceive(i_tx) ==
    LET change == IF i_tx = 0 /\ m_last_tx = 1 THEN 0
                  ELSE IF m_rx_changectr < ChangeMax THEN m_rx_changectr + 1 ELSE ChangeMax
    IN  /\ m_rx_changectr' = change /\ m_last_tx' = i_tx
        /\ \/ /\ m_rx_state = "RXIDLE" /\ i_tx = 1
              /\ UNCHANGED <<m_rx_state, m_rx_baudcounter, m_rx_data, uart_out>>
           \/ /\ m_rx_state = "RXIDLE" /\ i_tx = 0
              /\ m_rx_state' = "RXDATA" /\ m_rx_baudcounter' = RxStart(change)
              /\ m_rx_data' = <<>> /\ UNCHANGED uart_out
           \/ /\ m_rx_state = "RXDATA" /\ m_rx_baudcounter > 0
              /\ m_rx_baudcounter' = m_rx_baudcounter - 1
              /\ UNCHANGED <<m_rx_state, m_rx_data, uart_out>>
           \/ /\ m_rx_state = "RXDATA" /\ m_rx_baudcounter <= 0
              /\ m_rx_baudcounter' = m_setup.baud - 1
              /\ IF Len(m_rx_data) >= FrameBits
                 THEN /\ m_rx_state' = "RXIDLE" /\ UNCHANGED m_rx_data
                      /\ uart_out' = Append(uart_out, SubSeq(m_rx_data, 1, ByteWidth))
                 ELSE /\ m_rx_data' = Sampled(m_rx_data, i_tx)
                      /\ UNCHANGED <<m_rx_state, uart_out>>

----------------------------------------------------------------------------
Xor(byte) == Cardinality({i \in 1 .. ByteWidth : byte[i] = 1}) % 2
ParityBits(byte) ==
    IF m_setup.nparity = 0 THEN <<>>
    ELSE IF m_setup.fixdp = 1 THEN <<m_setup.evenp>>
    ELSE <<(Xor(byte) + m_setup.evenp) % 2>>

StopBits(n) == [i \in 1 .. n |-> 1]

FrameOf(byte) == <<0>> \o byte \o ParityBits(byte) \o StopBits(m_setup.nstop)

\* An idle terminal takes a byte that was typed, if there is one, and starts
\* to send it.
UartSend(byte) ==
    \/ /\ m_tx_state = "TXIDLE" /\ byte = <<>> /\ uart_rx' = 1
       /\ UNCHANGED <<m_tx_state, m_tx_baudcounter, m_tx_data, typed>>
    \/ /\ m_tx_state = "TXIDLE" /\ byte # <<>> /\ Len(typed) < Typing
       /\ typed' = Append(typed, byte)
       /\ m_tx_state' = "TXDATA" /\ m_tx_data' = FrameOf(byte)
       /\ m_tx_baudcounter' = m_setup.baud - 1 /\ uart_rx' = 0
    \/ /\ m_tx_state = "TXDATA" /\ m_tx_baudcounter > 0
       /\ m_tx_baudcounter' = m_tx_baudcounter - 1 /\ uart_rx' = Head(m_tx_data)
       /\ UNCHANGED <<m_tx_state, m_tx_data, typed>>
    \/ /\ m_tx_state = "TXDATA" /\ m_tx_baudcounter <= 0
       /\ m_tx_data' = Tail(m_tx_data) /\ UNCHANGED typed
       /\ IF Len(m_tx_data) = 1
          THEN m_tx_state' = "TXIDLE" /\ uart_rx' = 1 /\ UNCHANGED m_tx_baudcounter
          ELSE /\ m_tx_baudcounter' = m_setup.baud - 1 /\ uart_rx' = m_tx_data[2]
               /\ UNCHANGED m_tx_state
=============================================================================
