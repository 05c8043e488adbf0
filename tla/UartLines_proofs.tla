-------------------------- MODULE UartLines_proofs --------------------------
(***************************************************************************)
(* Theorems about the serial lines of the simulation, for any width of a   *)
(* byte, any bytes, formats, divisors and distances between the frames:    *)
(* nothing is lost or changed on the way.  With them the types of the      *)
(* whole loop.                                                             *)
(***************************************************************************)
EXTENDS Testbench_proofs, FiniteSetTheorems

\* What the two ends of the serial lines are.
Heard == [byte : Byte, ok : BOOLEAN]
SerialTypeOK ==
    /\ UartTypeOK /\ uart_config.baud \in Nat
    /\ lcr \in [dlab : BOOLEAN, format : Format] /\ dl \in [0 .. 2 -> 0 .. 255]
    /\ dev_tx \in Seq(Bit) /\ dev_count \in Nat /\ sent \in Seq(Byte)
    /\ dev_rx \in Seq(Bit) /\ dev_wait \in Nat /\ heard \in Seq(Heard)
    /\ m_tx_state = "TXDATA" => m_tx_data # <<>>

\* The programs that use the lines, once the software has set the UART up.
Serves == program[1] \in {"receive", "send"}
Serving == Serves /\ Configured

\* Otherwise the lines are at rest; they are high before a latch is written.
AtRest ==
    /\ dev_tx = <<>> /\ sent = <<>> /\ m_rx_state = "RXIDLE" /\ uart_out = <<>>
    /\ m_tx_state = "TXIDLE" /\ uart_rx = 1 /\ typed = <<>>
    /\ dev_rx = <<>> /\ dev_wait = 0 /\ heard = <<>>
    /\ dl # Zeros3 => m_last_tx = 1

\* A bit, its half; the bit of its frame that an end sends and the clocks it
\* has sent it for.
B == m_setup.baud
Half == B \div 2
Bits == FrameBits + 1
OutBit == Bits - Len(dev_tx)
OutTime == B - 1 - dev_count
InBit == Bits - Len(m_tx_data)
InTime == B - 1 - m_tx_baudcounter

\* What the programs leave of the latches.
Rates ==
    /\ dl[1] = 0 /\ dl[2] = 0
    /\ dl[0] = 0 \/ \E w \in Latches : dl[0] = w[2]

\* The terminal has the design's rate and format.
Agreed ==
    /\ B = DevBaud /\ B \in Nat /\ 3 <= B /\ Half < ChangeMax
    /\ m_setup = SetupOf(B, lcr.format)

\* The design sends a frame, the terminal has noted when its start bit fell.
OutLine ==
    /\ dev_tx # <<>> =>
          /\ Len(sent) >= 1 /\ Len(dev_tx) <= Bits /\ dev_count <= B - 1
          /\ \A j \in 1 .. Len(dev_tx) : dev_tx[j] = DevFrame(sent[Len(sent)])[OutBit + j]
          /\ OutBit = 0 /\ OutTime = 0 => m_last_tx = 1
          /\ OutBit = 0 /\ OutTime \in 1 .. Half + 1 => m_last_tx = 0 /\ m_rx_changectr = OutTime - 1
    /\ dev_tx = <<>> => m_last_tx = 1

\* Where the terminal's receiver is in the frame, or between two: it waits for
\* the middle of the bit behind the ones it has.
Samples == Len(m_rx_data)
OutPlace ==
    \/ /\ m_rx_state = "RXIDLE" /\ dev_tx = <<>> /\ Len(uart_out) = Len(sent)
    \/ /\ m_rx_state = "RXIDLE" /\ dev_tx # <<>> /\ Len(uart_out) = Len(sent) - 1
       /\ OutBit = 0 /\ OutTime <= Half + 1
    \/ /\ m_rx_state = "RXDATA" /\ dev_tx # <<>> /\ Len(uart_out) = Len(sent) - 1
       /\ \/ OutBit = Samples /\ m_rx_baudcounter = B + Half - OutTime
          \/ OutBit = Samples + 1 /\ m_rx_baudcounter = Half - OutTime /\ OutTime <= Half
    \/ /\ m_rx_state = "RXDATA" /\ dev_tx = <<>> /\ Len(uart_out) = Len(sent) - 1
       /\ Samples = FrameBits /\ m_rx_baudcounter \in 0 .. Half
    \/ /\ m_rx_state = "RXDATA" /\ dev_tx # <<>> /\ Len(uart_out) = Len(sent) - 2
       /\ OutBit = 0
       /\ Samples = FrameBits /\ m_rx_baudcounter >= 0 /\ m_rx_baudcounter + OutTime <= Half

OutBytes ==
    /\ \A i \in 1 .. Len(uart_out) : uart_out[i] = sent[i]
    /\ m_rx_state = "RXDATA" =>
          \A i \in 1 .. Len(m_rx_data) : i <= ByteWidth => m_rx_data[i] = sent[Len(uart_out) + 1][i]

\* The terminal sends a frame.
InLine ==
    /\ m_tx_state = "TXDATA" =>
          /\ Len(typed) >= 1 /\ Len(m_tx_data) \in 1 .. Bits /\ m_tx_baudcounter \in 0 .. B - 1
          /\ \A j \in 1 .. Len(m_tx_data) : m_tx_data[j] = FrameOf(typed[Len(typed)])[InBit + j]
          /\ uart_rx = m_tx_data[1]
    /\ m_tx_state = "TXIDLE" => uart_rx = 1

\* Where the design's receiver is: it waits for the middle of the bit behind
\* the ones it has, the first one is the start bit; behind the first stop bit
\* it is done.
Wanted == ByteWidth + m_setup.nparity + 1
Got == Len(dev_rx)
InPlace ==
    \/ /\ dev_wait = 0 /\ dev_rx = <<>> /\ m_tx_state = "TXIDLE" /\ Len(heard) = Len(typed)
    \/ /\ dev_wait = 0 /\ dev_rx = <<>> /\ m_tx_state = "TXDATA" /\ Len(heard) = Len(typed)
       /\ InBit >= Wanted
    \/ /\ dev_wait = 0 /\ dev_rx = <<>> /\ m_tx_state = "TXDATA" /\ Len(heard) = Len(typed) - 1
       /\ InBit = 0 /\ InTime = 0
    \/ /\ dev_wait > 0 /\ Got <= Wanted /\ m_tx_state = "TXDATA" /\ Len(heard) = Len(typed) - 1
       /\ \/ InBit = Got /\ InTime <= Half /\ dev_wait = Half - InTime + 1
          \/ InBit = Got - 1 /\ dev_wait = B + Half - InTime + 1

InBytes ==
    /\ \A i \in 1 .. Len(heard) :
          heard[i] = [byte |-> typed[i], ok |-> lcr.format.parity \notin {"odd", "even"}]
    /\ dev_wait > 0 => \A i \in 1 .. Got : dev_rx[i] = FrameOf(typed[Len(heard) + 1])[i]

\* The inductive invariant of the lines.
OutInv == OutLine /\ OutPlace /\ OutBytes
InInv == InLine /\ InPlace /\ InBytes
LinesIInv ==
    /\ SerialTypeOK
    /\ Serves => Rates
    /\ ~Serving => AtRest
    /\ Serving => OutInv /\ InInv

----------------------------------------------------------------------------
\* A byte is a sequence of ByteWidth bits, and such a sequence is a byte.
LEMMA ByteIsSeq == ASSUME NEW x \in Byte PROVE x \in Seq(Bit) /\ Len(x) = ByteWidth
<1>1. ByteWidth \in Nat
  BY UartAssumption
<1>2. x \in Seq(Bit)
  BY <1>1, SeqDef DEF Byte
<1>3. DOMAIN x = 1 .. ByteWidth /\ Len(x) \in Nat /\ DOMAIN x = 1 .. Len(x)
  BY <1>2, LenProperties DEF Byte
<1> QED
  BY <1>1, <1>2, <1>3

LEMMA SeqOfByte == ASSUME NEW s \in Seq(Bit), Len(s) = ByteWidth PROVE s \in Byte
BY LenProperties DEF Byte

\* Bytes are the same when their bits are.
LEMMA SameByte ==
    ASSUME NEW x \in Byte, NEW y \in Byte, \A i \in 1 .. ByteWidth : x[i] = y[i]
    PROVE  x = y
<1>1. x = [i \in 1 .. ByteWidth |-> x[i]] /\ y = [i \in 1 .. ByteWidth |-> y[i]]
  BY Zenon DEF Byte
<1>2. [i \in 1 .. ByteWidth |-> x[i]] = [i \in 1 .. ByteWidth |-> y[i]]
  BY Zenon
<1> QED
  BY <1>1, <1>2, Zenon

\* The stop bits of a frame.
LEMMA StopsAreSeq ==
    ASSUME NEW n \in {1, 2}
    PROVE  LET s == [i \in 1 .. n |-> 1]
           IN  s \in Seq(Bit) /\ Len(s) = n /\ \A i \in 1 .. n : s[i] = 1
<1> DEFINE s == [i \in 1 .. n |-> 1]
<1>1. s \in [1 .. n -> Bit] /\ n \in Nat
  BY DEF Bit
<1>2. s \in Seq(Bit)
  BY <1>1, SeqDef
<1>3. DOMAIN s = 1 .. n /\ DOMAIN s = 1 .. Len(s) /\ Len(s) \in Nat
  BY <1>2, LenProperties
<1>4. Len(s) = n
  BY <1>1, <1>3
<1> QED
  BY <1>2, <1>4

\* The sequence c of bits is s and t, which have m and n.
Joined(c, s, t, m, n) ==
    /\ c \in Seq(Bit) /\ Len(c) = m + n
    /\ \A i \in 1 .. m : c[i] = s[i]
    /\ \A i \in 1 .. n : c[m + i] = t[i]

\* What is where in two sequences that are joined.
LEMMA Concat ==
    ASSUME NEW s \in Seq(Bit), NEW t \in Seq(Bit), NEW m \in Nat, NEW n \in Nat, Len(s) = m, Len(t) = n
    PROVE  Joined(s \o t, s, t, m, n)
<1>1. /\ s \o t \in Seq(Bit) /\ Len(s \o t) = m + n
      /\ \A i \in 1 .. m + n : (s \o t)[i] = IF i <= m THEN s[i] ELSE t[i - m]
  BY ConcatProperties
<1>2. ASSUME NEW i \in 1 .. m PROVE (s \o t)[i] = s[i]
  BY <1>1
<1>3. ASSUME NEW i \in 1 .. n PROVE (s \o t)[m + i] = t[i]
  <2>1. m + i \in 1 .. m + n /\ ~(m + i <= m) /\ (m + i) - m = i
    OBVIOUS
  <2> QED
    BY <2>1, <1>1
<1> QED
  BY <1>1, <1>2, <1>3 DEF Joined

\* A frame is a start bit, the bits of the byte, the parity, the stop bits.
Framed(x, par, n) == <<0>> \o x \o par \o [i \in 1 .. n |-> 1]

\* What is where in a frame.
LEMMA FrameParts ==
    ASSUME NEW x \in Byte, NEW par \in Seq(Bit), NEW p \in Nat, Len(par) = p, NEW n \in {1, 2}
    PROVE  LET f == Framed(x, par, n)
           IN  /\ f \in Seq(Bit) /\ Len(f) = 1 + ByteWidth + p + n
               /\ f[1] = 0
               /\ \A i \in 1 .. ByteWidth : f[1 + i] = x[i]
               /\ \A i \in 1 .. p : f[1 + ByteWidth + i] = par[i]
               /\ \A i \in 1 .. n : f[1 + ByteWidth + p + i] = 1
<1> DEFINE start == <<0>>
           stops == [i \in 1 .. n |-> 1]
           w == ByteWidth
           one == 1
           w1 == one + w
           w2 == w1 + p
<1>1. w \in Nat \ {0} /\ w \in Nat /\ n \in Nat /\ one \in Nat /\ w1 \in Nat /\ w2 \in Nat
  BY UartAssumption
<1>2. start \in Seq(Bit) /\ Len(start) = one /\ start[1] = 0
  BY DEF Bit
<1>3. x \in Seq(Bit) /\ Len(x) = w
  BY ByteIsSeq
<1>4. stops \in Seq(Bit) /\ Len(stops) = n /\ \A i \in 1 .. n : stops[i] = 1
  BY StopsAreSeq
<1> HIDE DEF start, stops, w, one, w1, w2
<1>5. Joined(start \o x, start, x, one, w)
  BY <1>1, <1>2, <1>3, Concat, Zenon
<1> DEFINE f1 == start \o x
<1> HIDE DEF f1
<1>6. Joined(f1 \o par, f1, par, w1, p)
  <2>1. f1 \in Seq(Bit) /\ Len(f1) = w1
    BY <1>5, Zenon DEF f1, w1, Joined
  <2> QED
    BY <2>1, <1>1, Concat, Zenon
<1> DEFINE f2 == f1 \o par
<1> HIDE DEF f2
<1>7. Joined(f2 \o stops, f2, stops, w2, n)
  <2>1. f2 \in Seq(Bit) /\ Len(f2) = w2
    BY <1>6, Zenon DEF f2, w2, Joined
  <2> QED
    BY <2>1, <1>1, <1>4, Concat, Zenon
<1> DEFINE f == f2 \o stops
<1>8. f = Framed(x, par, n)
  BY DEF Framed, f, f2, f1, start, stops
<1> HIDE DEF f
<1>9. /\ f \in Seq(Bit) /\ Len(f) = 1 + w + p + n
      /\ \A i \in 1 .. 1 : f1[i] = start[i]
      /\ \A i \in 1 .. w : f1[1 + i] = x[i]
      /\ \A i \in 1 .. 1 + w : f2[i] = f1[i]
      /\ \A i \in 1 .. p : f2[1 + w + i] = par[i]
      /\ \A i \in 1 .. 1 + w + p : f[i] = f2[i]
      /\ \A i \in 1 .. n : f[1 + w + p + i] = stops[i]
  BY <1>5, <1>6, <1>7, Zenon DEF one, w1, w2, f, f2, f1, Joined
<1>10. f[1] = 0
  BY <1>1, <1>2, <1>9
<1>11. ASSUME NEW i \in 1 .. w PROVE f[1 + i] = x[i]
  <2>1. 1 + i \in 1 .. 1 + w /\ 1 + i \in 1 .. 1 + w + p
    BY <1>1
  <2> QED
    BY <2>1, <1>9
<1>12. ASSUME NEW i \in 1 .. p PROVE f[1 + w + i] = par[i]
  <2>1. 1 + w + i \in 1 .. 1 + w + p
    BY <1>1
  <2> QED
    BY <2>1, <1>9
<1>13. ASSUME NEW i \in 1 .. n PROVE f[1 + w + p + i] = 1
  BY <1>4, <1>9
<1> QED
  BY <1>8, <1>9, <1>10, <1>11, <1>12, <1>13 DEF w

\* The parity of a byte is a bit.
LEMMA XorType == ASSUME NEW x \in Byte PROVE Xor(x) \in Bit
<1> DEFINE ones == {i \in 1 .. ByteWidth : x[i] = 1}
<1>1. IsFiniteSet(ones)
  <2>1. IsFiniteSet(1 .. ByteWidth)
    BY FS_Interval, UartAssumption
  <2> QED
    BY <2>1, FS_Subset
<1>2. Cardinality(ones) \in Nat
  BY <1>1, FS_CardinalityType
<1> HIDE DEF ones
<1>3. Cardinality(ones) % 2 \in {0, 1}
  BY <1>2, SMT
<1> QED
  BY <1>3 DEF Xor, Bit, ones

\* Both ends send frames of the same form; their parities are the same unless
\* they are computed, and then they are not.
LEMMA BothFrames ==
    ASSUME lcr \in [dlab : BOOLEAN, format : Format], m_setup = SetupOf(B, lcr.format), NEW x \in Byte
    PROVE  LET p == m_setup.nparity
               d == DevFrame(x)
               t == FrameOf(x)
           IN  /\ p \in {0, 1} /\ p = (IF lcr.format.parity = "none" THEN 0 ELSE 1)
               /\ m_setup.nstop \in {1, 2} /\ m_setup.nstop = lcr.format.stop
               /\ d \in Seq(Bit) /\ Len(d) = Bits /\ d[1] = 0 /\ d[Bits] = 1
               /\ \A i \in 1 .. ByteWidth : d[1 + i] = x[i]
               /\ t \in Seq(Bit) /\ Len(t) = Bits /\ t[1] = 0 /\ \A i \in Wanted + 1 .. Bits : t[i] = 1
               /\ \A i \in 1 .. ByteWidth : t[1 + i] = x[i]
               /\ ParityBits(x) \in Seq(Bit) /\ DevParity(x) \in Seq(Bit)
               /\ Len(ParityBits(x)) = p /\ Len(DevParity(x)) = p
               /\ \A i \in 1 .. p : t[1 + ByteWidth + i] = ParityBits(x)[i]
               /\ (ParityBits(x) = DevParity(x)) <=> lcr.format.parity \notin {"odd", "even"}
<1> DEFINE f == lcr.format
<1>1. /\ f.stop \in {1, 2} /\ f.parity \in {"none", "odd", "even", "one", "zero"}
  BY DEF Format
<1>2. /\ m_setup.nparity = (IF f.parity = "none" THEN 0 ELSE 1) /\ m_setup.nstop = f.stop
      /\ m_setup.fixdp = (IF f.parity \in {"one", "zero"} THEN 1 ELSE 0)
      /\ m_setup.evenp = (IF f.parity \in {"even", "one"} THEN 1 ELSE 0)
  BY DEF SetupOf
<1>3. Xor(x) \in {0, 1}
  BY XorType DEF Bit
<1>4. /\ ParityBits(x) \in Seq(Bit) /\ DevParity(x) \in Seq(Bit)
      /\ Len(ParityBits(x)) = m_setup.nparity /\ Len(DevParity(x)) = m_setup.nparity
      /\ (ParityBits(x) = DevParity(x)) <=> f.parity \notin {"odd", "even"}
  <2>0. \A b, c : b \in Bit /\ c \in Bit => <<b>> \in Seq(Bit) /\ Len(<<b>>) = 1 /\ (<<b>> = <<c>> <=> b = c)
    OBVIOUS
  <2>1. CASE f.parity = "none"
    BY <2>1, <1>2 DEF ParityBits, DevParity
  <2>2. CASE f.parity = "odd"
    <3>1. ParityBits(x) = <<(Xor(x) + 0) % 2>> /\ DevParity(x) = <<1 - Xor(x)>>
      BY <2>2, <1>2 DEF ParityBits, DevParity
    <3>2. (Xor(x) + 0) % 2 \in Bit /\ 1 - Xor(x) \in Bit /\ (Xor(x) + 0) % 2 # 1 - Xor(x)
      BY <1>3 DEF Bit
    <3> QED
      BY <3>1, <3>2, <2>0, <2>2, <1>2
  <2>3. CASE f.parity = "even"
    <3>1. ParityBits(x) = <<(Xor(x) + 1) % 2>> /\ DevParity(x) = <<Xor(x)>>
      BY <2>3, <1>2 DEF ParityBits, DevParity
    <3>2. (Xor(x) + 1) % 2 \in Bit /\ Xor(x) \in Bit /\ (Xor(x) + 1) % 2 # Xor(x)
      BY <1>3 DEF Bit
    <3> QED
      BY <3>1, <3>2, <2>0, <2>3, <1>2
  <2>4. CASE f.parity = "one"
    <3>1. ParityBits(x) = <<1>> /\ DevParity(x) = <<1>>
      BY <2>4, <1>2 DEF ParityBits, DevParity
    <3> QED
      BY <3>1, <2>0, <2>4, <1>2 DEF Bit
  <2>5. CASE f.parity = "zero"
    <3>1. ParityBits(x) = <<0>> /\ DevParity(x) = <<0>>
      BY <2>5, <1>2 DEF ParityBits, DevParity
    <3> QED
      BY <3>1, <2>0, <2>5, <1>2 DEF Bit
  <2> QED
    BY <1>1, <2>1, <2>2, <2>3, <2>4, <2>5
<1> DEFINE d == Framed(x, DevParity(x), m_setup.nstop)
           t == Framed(x, ParityBits(x), m_setup.nstop)
           n == m_setup.nstop
           p == m_setup.nparity
<1>0. p \in Nat
  BY <1>2
<1>5. /\ d \in Seq(Bit) /\ Len(d) = 1 + ByteWidth + p + n
      /\ d[1] = 0
      /\ \A i \in 1 .. ByteWidth : d[1 + i] = x[i]
      /\ \A i \in 1 .. n : d[1 + ByteWidth + p + i] = 1
  <2>1. DevParity(x) \in Seq(Bit) /\ Len(DevParity(x)) = p /\ n \in {1, 2}
    BY <1>1, <1>2, <1>4
  <2> QED
    BY <2>1, <1>0, FrameParts, Zenon
<1>6. /\ t \in Seq(Bit) /\ Len(t) = 1 + ByteWidth + p + n
      /\ t[1] = 0
      /\ \A i \in 1 .. ByteWidth : t[1 + i] = x[i]
      /\ \A i \in 1 .. p : t[1 + ByteWidth + i] = ParityBits(x)[i]
      /\ \A i \in 1 .. n : t[1 + ByteWidth + p + i] = 1
  BY <1>0, <1>1, <1>2, <1>4, FrameParts
<1>7. DevFrame(x) = d /\ FrameOf(x) = t
  BY <1>2 DEF DevFrame, FrameOf, StopBits, Framed
<1> HIDE DEF d, t
<1>8. p \in {0, 1} /\ n \in {1, 2} /\ ByteWidth \in Nat
  BY <1>1, <1>2, UartAssumption
<1>9. /\ Bits = 1 + ByteWidth + p + n /\ Wanted = 1 + ByteWidth + p
  BY <1>8 DEF Bits, FrameBits, Wanted
<1>10. d[Bits] = 1
  BY <1>5, <1>8, <1>9
<1>11. ASSUME NEW i \in Wanted + 1 .. Bits PROVE t[i] = 1
  <2>1. i - Wanted \in 1 .. n /\ 1 + ByteWidth + p + (i - Wanted) = i
    BY <1>8, <1>9
  <2> QED
    BY <2>1, <1>6
<1> QED
  BY <1>2, <1>4, <1>5, <1>6, <1>7, <1>8, <1>9, <1>10, <1>11

----------------------------------------------------------------------------
\* What a clock is for the lines.
LineClock(b, byte) ==
    /\ UartReceive(DevLine) /\ UartSend(byte)
    /\ BusWrite(b) /\ BusClock(b) /\ DevTransmit(b) /\ DevReceive
    /\ program' = program

\* A clock in which neither end begins a frame; one in which the design does;
\* one in which the terminal may.
Silent(b, byte) ==
    /\ byte = <<>> /\ (b.on /\ b.addr = 0 => lcr.dlab)
    /\ Serves => /\ Configured => ~b.on
                 /\ b.on /\ b.addr # 3 => b.addr = 0 /\ \E w \in Latches : b.data = w[2]
Sends(b, byte) ==
    Serving /\ DevFree /\ byte = <<>> /\ b.on /\ b.addr = 0 /\ b.byte \in Byte
Types(b, byte) == Serving /\ ~b.on /\ byte \in Byte

\* Every clock of the loop is one of the lines.
LEMMA StepIsLineClock ==
    Step => \E b, byte : LineClock(b, byte) /\ (Silent(b, byte) \/ Sends(b, byte) \/ Types(b, byte))
<1>1. ASSUME NEW p, NEW b, NEW byte, NEW wb, NEW save, NEW end_byte, NEW late, BusWrite(b),
             Clock(save, p, b, byte, wb, end_byte, late)
      PROVE  LineClock(b, byte)
  BY <1>1 DEF Clock, LineClock, BusClock
<1>2. ASSUME NEW b, NEW byte, BusWrite(b), Quiet(NoAccess, b, byte) PROVE LineClock(b, byte)
  BY <1>1, <1>2 DEF Quiet
<1>3. BusWrite(NoBusWrite) /\ ~NoBusWrite.on
  BY DEF BusWrite, NoBusWrite, PlainFormat, Format
<1>4. ASSUME NEW b \in LatchWrites
      PROVE  BusWrite(b) /\ b.addr # 3 /\ \E w \in Latches : b.data = w[2]
  <2>1. PICK w \in Latches : b = LatchWrite(w[1], w[2])
    BY DEF LatchWrites
  <2>2. w[1] \in 0 .. 2 /\ w[2] \in 0 .. 255
    BY TestbenchAssumption
  <2>3. b.addr = w[1] /\ b.data = w[2]
    BY <2>1 DEF LatchWrite, NoBusWrite
  <2>4. BusWrite(b)
    BY <2>1, <2>2 DEF BusWrite, LatchWrite, NoBusWrite, PlainFormat, Format
  <2> QED
    BY <2>2, <2>3, <2>4
<1>5. ASSUME NEW b \in LineWrites PROVE BusWrite(b) /\ b.addr = 3
  <2>1. PICK d \in BOOLEAN, f \in Formats : b = LineWrite(d, f)
    BY DEF LineWrites
  <2>2. f \in Format
    BY TestbenchAssumption
  <2> QED
    BY <2>1, <2>2 DEF BusWrite, LineWrite, NoBusWrite
<1>6. ASSUME NEW b \in ByteWrites PROVE BusWrite(b) /\ b.on /\ b.addr = 0 /\ b.byte \in Byte
  <2>1. PICK x \in Byte : b = [NoBusWrite EXCEPT !.on = TRUE, !.byte = x]
    BY DEF ByteWrites
  <2> QED
    BY <2>1 DEF BusWrite, NoBusWrite, PlainFormat, Format
<1>7. Silent(NoBusWrite, <<>>)
  BY <1>3 DEF Silent
<1>8. CASE Memory \/ Trace
  BY <1>1, <1>3, <1>7, <1>8 DEF Memory, Trace
<1>9. CASE Divisors
  <2>1. PICK b \in {NoBusWrite} \cup LineWrites \cup (IF lcr.dlab THEN LatchWrites ELSE {}) :
           Quiet(NoAccess, b, <<>>)
    BY <1>9 DEF Divisors
  <2>2. BusWrite(b) /\ (b.on /\ b.addr = 0 => lcr.dlab)
    BY <2>1, <1>3, <1>4, <1>5
  <2>3. ~Serves
    BY <1>9 DEF Divisors, Serves
  <2> QED
    BY <2>1, <2>2, <2>3, <1>2 DEF Silent
<1>10. CASE Serial
  <2>1. CASE Serves /\ \E b \in {NoBusWrite} \cup SetUp : Quiet(NoAccess, b, <<>>)
    <3>1. PICK b \in {NoBusWrite} \cup SetUp : Quiet(NoAccess, b, <<>>)
      BY <2>1
    <3>2. BusWrite(b) /\ Silent(b, <<>>)
      <4>1. CASE b \in SetUp
        <5>1. /\ b \in LineWrites \cup (IF lcr.dlab THEN LatchWrites ELSE {})
              /\ ~Configured /\ (b.addr # 3 => b.addr = 0)
          BY <4>1 DEF SetUp
        <5> QED
          BY <5>1, <1>4, <1>5 DEF Silent
      <4> QED
        BY <3>1, <4>1, <1>3, <1>7
    <3> QED
      BY <3>1, <3>2, <1>2
  <2>2. CASE Serving /\ DevFree /\ \E b \in ByteWrites : Quiet(NoAccess, b, <<>>)
    BY <2>2, <1>2, <1>6 DEF Sends
  <2>3. CASE Serving /\ \E x \in Byte : Quiet(NoAccess, NoBusWrite, x)
    BY <2>3, <1>2, <1>3 DEF Types
  <2> QED
    BY <1>10, <2>1, <2>2, <2>3 DEF Serial, Serves, Serving
<1> QED
  BY <1>8, <1>9, <1>10 DEF Step

\* While the lines are used the terminal has the design's rate and format.
LEMMA AgreedHolds == SetupIInv /\ Serving /\ Rates => Agreed
<1> SUFFICES ASSUME SetupIInv, Serving, Rates PROVE Agreed
  OBVIOUS
<1>1. ~lcr.dlab /\ DevBaud # 0 /\ dl[2] = 0 /\ dl[1] = 0
  BY DEF Serving, Configured, Rates
<1>2. B = DevBaud
  BY <1>1, SetupIsDesigns DEF SetupFollowsDesign, B
<1>3. m_setup = SetupOf(B, lcr.format)
  BY DEF SetupIInv, SetupOf, B
<1> DEFINE d == dl[0]
           o == Oversampling
<1>4. d \in Nat /\ o \in Nat /\ 3 <= o
  <2>1. dl[0] \in 0 .. 255
    BY DEF SetupIInv
  <2>2. Oversampling \in 3 .. 256
    BY TestbenchAssumption
  <2> QED
    BY <2>1, <2>2
<1>5. DevBaud = d * o
  BY <1>1, <1>4 DEF DevBaud
<1>6. d = 0 \/ \E w \in Latches : d = w[2]
  BY DEF Rates
<1> HIDE DEF d, o
<1>7. d # 0
  BY <1>1, <1>4, <1>5
<1>8. d * o \in Nat /\ 3 <= d * o
  <2>1. PICK e \in Nat : d = e + 1
    BY <1>4, <1>7
  <2>2. (e + 1) * o = e * o + o /\ e * o \in Nat
    BY <2>1, <1>4
  <2> QED
    BY <2>1, <2>2, <1>4
<1>9. Half < ChangeMax
  <2>1. PICK w \in Latches : d = w[2]
    BY <1>6, <1>7
  <2>2. (w[2] * Oversampling) \div 2 < ChangeMax
    BY TestbenchAssumption
  <2> QED
    BY <2>1, <2>2, <1>2, <1>5 DEF Half, o
<1> QED
  BY <1>2, <1>3, <1>5, <1>8, <1>9 DEF Agreed

----------------------------------------------------------------------------
\* The place of the terminal's receiver by numbers alone: the bits the design
\* has to send (0 for none), the clocks of this one it has; bytes sent and
\* shown; samples and clocks to the next one.
Place(b, bits, st, len, count, s, o, n, c) ==
    LET h == b \div 2
        bit == bits - len
        time == b - 1 - count
    IN  \/ st = "RXIDLE" /\ len = 0 /\ o = s
        \/ st = "RXIDLE" /\ len = bits /\ o = s - 1 /\ time <= h + 1
        \/ /\ st = "RXDATA" /\ len > 0 /\ o = s - 1
           /\ \/ bit = n /\ c = b + h - time
              \/ bit = n + 1 /\ c = h - time /\ time <= h
        \/ st = "RXDATA" /\ len = 0 /\ o = s - 1 /\ n = bits - 1 /\ c \in 0 .. h
        \/ st = "RXDATA" /\ len = bits /\ o = s - 2 /\ n = bits - 1 /\ c >= 0 /\ c + time <= h

\* What a clock is for the sender, and for the receiver.
SendStep(b, bits, len, count, s, len2, count2, s2) ==
    \/ len = 0 /\ len2 = 0 /\ s2 = s
    \/ (len = 0 \/ (len = 1 /\ count = 0)) /\ len2 = bits /\ count2 = b - 1 /\ s2 = s + 1
    \/ len > 0 /\ count > 0 /\ len2 = len /\ count2 = count - 1 /\ s2 = s
    \/ len > 1 /\ count = 0 /\ len2 = len - 1 /\ count2 = b - 1 /\ s2 = s
    \/ len = 1 /\ count = 0 /\ len2 = 0 /\ s2 = s
ReceiveStep(b, bits, line, change, st, o, n, c, st2, o2, n2, c2) ==
    \/ st = "RXIDLE" /\ line = 1 /\ st2 = st /\ o2 = o
    \/ st = "RXIDLE" /\ line = 0 /\ st2 = "RXDATA" /\ o2 = o /\ n2 = 0 /\ c2 = b + b \div 2 - 1 - change
    \/ st = "RXDATA" /\ c > 0 /\ st2 = st /\ o2 = o /\ n2 = n /\ c2 = c - 1
    \/ st = "RXDATA" /\ c <= 0 /\ n >= bits - 1 /\ st2 = "RXIDLE" /\ o2 = o + 1
    \/ st = "RXDATA" /\ c <= 0 /\ n < bits - 1 /\ st2 = st /\ o2 = o /\ n2 = n + 1 /\ c2 = b - 1

\* A clock keeps the receiver in its place: the sender and the receiver, each
\* by its own count, do not drift apart.
LEMMA PlaceStep ==
    ASSUME NEW b \in Nat, 3 <= b, NEW bits \in Nat, 3 <= bits,
           NEW st, NEW len \in 0 .. bits, NEW count \in 0 .. b - 1, NEW s \in Nat, NEW o \in Nat,
           NEW n \in Nat, NEW c \in Int,
           NEW st2, NEW len2 \in Nat, NEW count2 \in Nat, NEW s2 \in Nat, NEW o2 \in Nat,
           NEW n2 \in Nat, NEW c2 \in Int,
           NEW line \in Bit, NEW change \in Nat,
           len <= 1 => line = 1, len = bits => line = 0,
           len = bits /\ b - 1 - count <= b \div 2 + 1 => change = b - 1 - count,
           Place(b, bits, st, len, count, s, o, n, c),
           SendStep(b, bits, len, count, s, len2, count2, s2),
           ReceiveStep(b, bits, line, change, st, o, n, c, st2, o2, n2, c2)
    PROVE  Place(b, bits, st2, len2, count2, s2, o2, n2, c2)
<1> DEFINE h == b \div 2
<1>1. h \in Nat /\ 2 * h <= b /\ b <= 2 * h + 1
  OBVIOUS
<1>2. h >= 1 /\ h + 2 <= b
  BY <1>1
<1> HIDE DEF h
<1>3. Place(b, bits, st2, len2, count2, s2, o2, n2, c2)
  <2>1. CASE st = "RXIDLE" /\ len = 0 /\ o = s
    BY <1>2, <2>1 DEF Place, SendStep, ReceiveStep, h
  <2>2. CASE st = "RXIDLE" /\ len = bits /\ o = s - 1 /\ b - 1 - count <= h + 1
    BY <1>2, <2>2 DEF Place, SendStep, ReceiveStep, h
  <2>3. CASE st = "RXDATA" /\ len > 0 /\ o = s - 1 /\ bits - len = n /\ c = b + h - (b - 1 - count)
    BY <1>2, <2>3 DEF Place, SendStep, ReceiveStep, h
  <2>4. CASE /\ st = "RXDATA" /\ len > 0 /\ o = s - 1 /\ bits - len = n + 1
             /\ c = h - (b - 1 - count) /\ b - 1 - count <= h
    BY <1>2, <2>4 DEF Place, SendStep, ReceiveStep, h
  <2>5. CASE st = "RXDATA" /\ len = 0 /\ o = s - 1 /\ n = bits - 1 /\ c \in 0 .. h
    BY <1>2, <2>5 DEF Place, SendStep, ReceiveStep, h
  <2>6. CASE st = "RXDATA" /\ len = bits /\ o = s - 2 /\ n = bits - 1 /\ c >= 0 /\ c + (b - 1 - count) <= h
    BY <1>2, <2>6 DEF Place, SendStep, ReceiveStep, h
  <2> QED
    BY <2>1, <2>2, <2>3, <2>4, <2>5, <2>6 DEF Place, h
<1> QED
  BY <1>3

----------------------------------------------------------------------------
\* What is in the frames that both ends send.
DevFrameParts(x) ==
    /\ DevFrame(x) \in Seq(Bit) /\ Len(DevFrame(x)) = Bits
    /\ DevFrame(x)[1] = 0 /\ DevFrame(x)[Bits] = 1
    /\ \A i \in 1 .. ByteWidth : DevFrame(x)[1 + i] = x[i]
FrameOfParts(x) ==
    /\ FrameOf(x) \in Seq(Bit) /\ Len(FrameOf(x)) = Bits /\ FrameOf(x)[1] = 0
    /\ \A i \in Wanted + 1 .. Bits : FrameOf(x)[i] = 1
    /\ \A i \in 1 .. ByteWidth : FrameOf(x)[1 + i] = x[i]
ParityParts(x) ==
    /\ ParityBits(x) \in Seq(Bit) /\ DevParity(x) \in Seq(Bit)
    /\ Len(ParityBits(x)) = m_setup.nparity /\ Len(DevParity(x)) = m_setup.nparity
    /\ \A i \in 1 .. m_setup.nparity : FrameOf(x)[1 + ByteWidth + i] = ParityBits(x)[i]
    /\ (ParityBits(x) = DevParity(x)) <=> lcr.format.parity \notin {"odd", "even"}

\* BothFrames for the ends that agree.
LEMMA FramesAreKnown ==
    ASSUME Agreed, lcr \in [dlab : BOOLEAN, format : Format], NEW x \in Byte
    PROVE  DevFrameParts(x) /\ FrameOfParts(x) /\ ParityParts(x)
<1>1. m_setup = SetupOf(B, lcr.format)
  BY DEF Agreed
<1> QED
  BY <1>1, BothFrames DEF DevFrameParts, FrameOfParts, ParityParts

\* The numbers of a frame.
LEMMA FrameNumbers ==
    ASSUME Agreed, lcr \in [dlab : BOOLEAN, format : Format]
    PROVE  /\ ByteWidth \in Nat \ {0} /\ m_setup.nparity \in {0, 1} /\ m_setup.nstop \in {1, 2}
           /\ m_setup.nparity = (IF lcr.format.parity = "none" THEN 0 ELSE 1)
           /\ Bits \in Nat /\ 3 <= Bits /\ FrameBits = Bits - 1 /\ ByteWidth + 1 < Bits
           /\ Wanted \in Nat /\ ByteWidth < Wanted /\ Wanted < Bits
           /\ B \in Nat /\ 3 <= B /\ Half \in Nat /\ 1 <= Half /\ Half + 2 <= B /\ Half < ChangeMax
<1>1. ByteWidth \in Nat \ {0} /\ ChangeMax \in Nat
  BY UartAssumption
<1>2. /\ m_setup.nparity = (IF lcr.format.parity = "none" THEN 0 ELSE 1)
      /\ m_setup.nstop = lcr.format.stop /\ lcr.format.stop \in {1, 2}
  BY DEF Agreed, SetupOf, Format
<1>3. m_setup.nparity \in {0, 1} /\ m_setup.nstop \in {1, 2}
  BY <1>2
<1>4. Bits = ByteWidth + m_setup.nparity + m_setup.nstop + 1 /\ FrameBits = ByteWidth + m_setup.nparity + m_setup.nstop
  BY DEF Bits, FrameBits
<1>5. B \in Nat /\ 3 <= B /\ Half < ChangeMax
  BY DEF Agreed
<1>6. Half \in Nat /\ 1 <= Half /\ Half + 2 <= B
  BY <1>5 DEF Half
<1> QED
  BY <1>1, <1>2, <1>3, <1>4, <1>5, <1>6 DEF Wanted

----------------------------------------------------------------------------
\* A clock of the line from the design: the design begins a frame only behind
\* the last one.
Starts(b) == b.on /\ b.addr = 0 /\ ~lcr.dlab
OutClock(b) ==
    /\ UartReceive(DevLine) /\ DevTransmit(b)
    /\ Starts(b) => DevFree /\ b.byte \in Byte
    /\ UNCHANGED <<lcr, dl, m_setup>>

\* What a clock is for the design's transmitter.
Starting(b) ==
    /\ DevFree /\ b.byte \in Byte
    /\ dev_tx' = DevFrame(b.byte) /\ dev_count' = B - 1 /\ sent' = Append(sent, b.byte)
Waiting ==
    dev_tx # <<>> /\ dev_count > 0 /\ dev_tx' = dev_tx /\ dev_count' = dev_count - 1 /\ sent' = sent
Shifting ==
    /\ dev_tx # <<>> /\ dev_count = 0 /\ dev_tx' = Tail(dev_tx) /\ sent' = sent
    /\ Len(dev_tx) # 1 => dev_count' = B - 1
Resting == dev_tx = <<>> /\ dev_tx' = <<>> /\ sent' = sent

\* The transmitter begins a frame, waits, goes to the next bit or rests.
LEMMA TransmitCases ==
    ASSUME Agreed, SerialTypeOK, NEW b, OutClock(b)
    PROVE  Starting(b) \/ Waiting \/ Shifting \/ Resting
<1>1. B = DevBaud /\ dev_count \in Nat
  BY DEF Agreed, SerialTypeOK
<1>2. CASE Starts(b)
  BY <1>1, <1>2 DEF OutClock, DevTransmit, Starts, Starting
<1>3. CASE ~Starts(b)
  <2>1. /\ sent' = sent
        /\ dev_tx' = IF dev_tx = <<>> \/ dev_count > 0 THEN dev_tx ELSE Tail(dev_tx)
        /\ dev_count' = IF dev_tx = <<>> THEN 0 ELSE IF dev_count > 0 THEN dev_count - 1
                         ELSE IF Len(dev_tx) = 1 THEN 0 ELSE DevBaud - 1
    BY <1>3 DEF OutClock, DevTransmit, Starts
  <2>2. CASE dev_tx = <<>>
    BY <2>1, <2>2 DEF Resting
  <2>3. CASE dev_tx # <<>> /\ dev_count > 0
    BY <2>1, <2>3 DEF Waiting
  <2>4. CASE dev_tx # <<>> /\ ~(dev_count > 0)
    BY <1>1, <2>1, <2>4 DEF Shifting
  <2> QED
    BY <2>2, <2>3, <2>4
<1> QED
  BY <1>2, <1>3

\* The line from the design, and what the terminal knows of its last fall.
LEMMA OutLevel ==
    ASSUME Agreed, SerialTypeOK, OutLine, NEW b, OutClock(b)
    PROVE  /\ DevLine \in Bit /\ m_last_tx' = DevLine
           /\ Len(dev_tx) <= 1 => DevLine = 1
           /\ dev_tx # <<>> => DevLine = DevFrame(sent[Len(sent)])[OutBit + 1]
           /\ Len(dev_tx) = Bits => DevLine = 0
           /\ dev_tx # <<>> /\ OutBit = 0 /\ OutTime <= Half + 1 => m_rx_changectr' = OutTime
<1>1. /\ dev_tx \in Seq(Bit) /\ dev_count \in Nat /\ sent \in Seq(Byte) /\ m_last_tx \in Bit
      /\ m_rx_changectr \in 0 .. ChangeMax /\ lcr \in [dlab : BOOLEAN, format : Format]
  BY DEF SerialTypeOK, UartTypeOK
<1>2. /\ m_last_tx' = DevLine
      /\ m_rx_changectr' = IF DevLine = 0 /\ m_last_tx = 1 THEN 0
                           ELSE IF m_rx_changectr < ChangeMax THEN m_rx_changectr + 1 ELSE ChangeMax
  BY DEF OutClock, UartReceive
<1>3. Bits \in Nat /\ 3 <= Bits /\ B \in Nat /\ Half \in Nat /\ Half < ChangeMax /\ ChangeMax \in Nat
  BY <1>1, FrameNumbers, UartAssumption
<1>4. CASE dev_tx = <<>>
  <2>1. DevLine = 1 /\ Len(dev_tx) = 0
    BY <1>4 DEF DevLine
  <2> QED
    BY <2>1, <1>2, <1>3, <1>4 DEF Bit
<1>5. CASE dev_tx # <<>>
  <2> DEFINE x == sent[Len(sent)]
  <2>1. /\ Len(sent) >= 1 /\ Len(dev_tx) <= Bits /\ dev_count <= B - 1
        /\ \A j \in 1 .. Len(dev_tx) : dev_tx[j] = DevFrame(x)[OutBit + j]
        /\ OutBit = 0 /\ OutTime = 0 => m_last_tx = 1
        /\ OutBit = 0 /\ OutTime \in 1 .. Half + 1 => m_last_tx = 0 /\ m_rx_changectr = OutTime - 1
    BY <1>5 DEF OutLine
  <2>2. Len(dev_tx) \in Nat /\ 1 <= Len(dev_tx) /\ DevLine = dev_tx[1] /\ dev_tx[1] \in Bit
    BY <1>1, <1>5 DEF DevLine
  <2>3. x \in Byte
    BY <1>1, <2>1
  <2> HIDE DEF x
  <2>4. DevFrame(x)[1] = 0 /\ DevFrame(x)[Bits] = 1
    BY <1>1, <2>3, FramesAreKnown DEF DevFrameParts
  <2>5. dev_tx[1] = DevFrame(x)[OutBit + 1]
    BY <2>1, <2>2
  <2>6. OutBit = Bits - Len(dev_tx) /\ OutTime = B - 1 - dev_count /\ OutTime >= 0 /\ OutTime \in Int
    BY <1>1, <1>3, <2>1 DEF OutBit, OutTime
  <2>7. Len(dev_tx) = 1 => DevLine = 1
    <3> SUFFICES ASSUME Len(dev_tx) = 1 PROVE DevLine = 1
      OBVIOUS
    <3>1. OutBit + 1 = Bits
      BY <1>3, <2>6
    <3> QED
      BY <3>1, <2>2, <2>4, <2>5
  <2>8. Len(dev_tx) = Bits => DevLine = 0
    <3> SUFFICES ASSUME Len(dev_tx) = Bits PROVE DevLine = 0
      OBVIOUS
    <3>1. OutBit + 1 = 1
      BY <1>3, <2>6
    <3> QED
      BY <3>1, <2>2, <2>4, <2>5
  <2>9. OutBit = 0 /\ OutTime <= Half + 1 => m_rx_changectr' = OutTime
    <3> SUFFICES ASSUME OutBit = 0, OutTime <= Half + 1 PROVE m_rx_changectr' = OutTime
      OBVIOUS
    <3>1. DevLine = 0
      BY <1>3, <2>2, <2>6, <2>8
    <3>2. CASE OutTime = 0
      BY <1>2, <2>1, <3>1, <3>2
    <3>3. CASE OutTime # 0
      BY <1>2, <1>3, <2>1, <2>6, <3>1, <3>3
    <3> QED
      BY <3>2, <3>3
  <2>10. Len(dev_tx) <= 1 => DevLine = 1
    BY <2>2, <2>7
  <2>11. DevLine = DevFrame(x)[OutBit + 1] /\ DevLine \in Bit
    BY <2>2, <2>5
  <2> QED
    BY <1>2, <2>8, <2>9, <2>10, <2>11, Zenon DEF x
<1> QED
  BY <1>4, <1>5

\* What a clock is for the terminal's receiver.
RxIdles == m_rx_state = "RXIDLE" /\ DevLine = 1 /\ m_rx_state' = "RXIDLE" /\ uart_out' = uart_out
RxBegins ==
    /\ m_rx_state = "RXIDLE" /\ DevLine = 0 /\ m_rx_state' = "RXDATA" /\ uart_out' = uart_out
    /\ m_rx_data' = <<>> /\ m_rx_baudcounter' = B + Half - 1 - m_rx_changectr'
RxCounts ==
    /\ m_rx_state = "RXDATA" /\ m_rx_baudcounter > 0 /\ m_rx_state' = "RXDATA" /\ uart_out' = uart_out
    /\ m_rx_data' = m_rx_data /\ m_rx_baudcounter' = m_rx_baudcounter - 1
RxShows ==
    /\ m_rx_state = "RXDATA" /\ m_rx_baudcounter <= 0 /\ Len(m_rx_data) >= FrameBits
    /\ m_rx_state' = "RXIDLE" /\ uart_out' = Append(uart_out, SubSeq(m_rx_data, 1, ByteWidth))
RxSamples ==
    /\ m_rx_state = "RXDATA" /\ m_rx_baudcounter <= 0 /\ ~(Len(m_rx_data) >= FrameBits)
    /\ m_rx_state' = "RXDATA" /\ uart_out' = uart_out
    /\ m_rx_data' = Append(m_rx_data, DevLine) /\ m_rx_baudcounter' = B - 1

LEMMA ReceiveCases ==
    ASSUME NEW b, OutClock(b)
    PROVE  RxIdles \/ RxBegins \/ RxCounts \/ RxShows \/ RxSamples
BY DEF OutClock, UartReceive, RxStart, Sampled, B, Half, RxIdles, RxBegins, RxCounts, RxShows, RxSamples

\* The place of the terminal's receiver is kept: the numbers are PlaceStep.
LEMMA OutPlaceStep ==
    ASSUME Agreed, SerialTypeOK, SerialTypeOK', OutLine, OutPlace, NEW b, OutClock(b)
    PROVE  OutPlace'
<1> DEFINE st == m_rx_state
           len == Len(dev_tx)
           count == IF dev_tx = <<>> THEN 0 ELSE dev_count
           s == Len(sent)
           o == Len(uart_out)
           n == Len(m_rx_data)
           c == m_rx_baudcounter
           line == DevLine
           change == m_rx_changectr'
           len2 == Len(dev_tx')
           count2 == dev_count'
           s2 == Len(sent')
           o2 == Len(uart_out')
           n2 == Len(m_rx_data')
           c2 == m_rx_baudcounter'
           st2 == m_rx_state'
           bits == Bits
           bb == B
<1>1. /\ dev_tx \in Seq(Bit) /\ dev_count \in Nat /\ sent \in Seq(Byte) /\ uart_out \in Seq(Byte)
      /\ m_rx_data \in Seq(Bit) /\ m_rx_baudcounter \in Int /\ lcr \in [dlab : BOOLEAN, format : Format]
      /\ m_rx_state \in {"RXIDLE", "RXDATA"}
  BY DEF SerialTypeOK, UartTypeOK
<1>2. /\ dev_tx' \in Seq(Bit) /\ dev_count' \in Nat /\ sent' \in Seq(Byte) /\ uart_out' \in Seq(Byte)
      /\ m_rx_data' \in Seq(Bit) /\ m_rx_baudcounter' \in Int /\ m_rx_changectr' \in 0 .. ChangeMax
  BY DEF SerialTypeOK, UartTypeOK
<1>3. Bits \in Nat /\ 3 <= Bits /\ FrameBits = Bits - 1 /\ B \in Nat /\ 3 <= B /\ ChangeMax \in Nat
  BY <1>1, FrameNumbers, UartAssumption
<1>4. /\ dev_tx = <<>> <=> Len(dev_tx) = 0
      /\ dev_tx' = <<>> <=> Len(dev_tx') = 0
  BY <1>1, <1>2
<1>5. Len(dev_tx) \in 0 .. Bits /\ (dev_tx # <<>> => dev_count \in 0 .. B - 1)
  <2>1. Len(dev_tx) \in Nat
    BY <1>1
  <2> QED
    BY <1>1, <1>3, <1>4, <2>1 DEF OutLine
<1>6. /\ bb \in Nat /\ 3 <= bb /\ bits \in Nat /\ 3 <= bits
      /\ len \in 0 .. bits /\ count \in 0 .. bb - 1 /\ s \in Nat /\ o \in Nat /\ n \in Nat /\ c \in Int
      /\ len2 \in Nat /\ count2 \in Nat /\ s2 \in Nat /\ o2 \in Nat /\ n2 \in Nat /\ c2 \in Int
      /\ change \in Nat
  BY <1>1, <1>2, <1>3, <1>5
<1>7. /\ line \in Bit /\ (len <= 1 => line = 1) /\ (len = bits => line = 0)
      /\ len = bits /\ bb - 1 - count <= bb \div 2 + 1 => change = bb - 1 - count
  <2>1. DevLine \in Bit /\ (len <= 1 => line = 1) /\ (len = bits => line = 0)
    BY OutLevel
  <2>2. ASSUME len = bits, bb - 1 - count <= bb \div 2 + 1
        PROVE  change = bb - 1 - count
    <3>1. dev_tx # <<>> /\ OutBit = 0 /\ OutTime = bb - 1 - count
      BY <1>3, <1>4, <1>6, <2>2 DEF OutBit, OutTime
    <3>2. OutTime <= Half + 1
      BY <2>2, <3>1 DEF Half
    <3> QED
      BY <3>1, <3>2, OutLevel
  <2> QED
    BY <2>1, <2>2
<1>8. SendStep(bb, bits, len, count, s, len2, count2, s2)
  <2>1. CASE Starting(b)
    <3>1. len = 0 \/ (len = 1 /\ count = 0)
      BY <2>1, <1>4 DEF Starting, DevFree
    <3>2. len2 = bits /\ count2 = bb - 1
      BY <2>1, <1>1, FramesAreKnown DEF Starting, DevFrameParts
    <3>3. s2 = s + 1
      BY <2>1, <1>1 DEF Starting
    <3> QED
      BY <3>1, <3>2, <3>3 DEF SendStep
  <2>2. CASE Waiting
    BY <2>2, <1>4, <1>6 DEF Waiting, SendStep
  <2>3. CASE Shifting
    <3>1. len > 0 /\ count = 0 /\ s2 = s
      BY <2>3, <1>4, <1>6 DEF Shifting
    <3>2. len2 = len - 1
      BY <2>3, <1>1 DEF Shifting
    <3>3. len # 1 => count2 = bb - 1
      BY <2>3 DEF Shifting
    <3> QED
      BY <1>6, <3>1, <3>2, <3>3 DEF SendStep
  <2>4. CASE Resting
    BY <2>4, <1>4 DEF Resting, SendStep
  <2> QED
    BY <2>1, <2>2, <2>3, <2>4, TransmitCases
<1>9. ReceiveStep(bb, bits, line, change, st, o, n, c, st2, o2, n2, c2)
  <2>1. CASE RxIdles
    BY <2>1 DEF RxIdles, ReceiveStep
  <2>2. CASE RxBegins
    <3>1. n2 = 0 /\ c2 = bb + bb \div 2 - 1 - change
      BY <2>2, <1>2, <1>3 DEF RxBegins, Half
    <3> QED
      BY <2>2, <3>1 DEF RxBegins, ReceiveStep
  <2>3. CASE RxCounts
    BY <2>3 DEF RxCounts, ReceiveStep
  <2>4. CASE RxShows
    <3>1. o2 = o + 1
      <4> DEFINE x == SubSeq(m_rx_data, 1, ByteWidth)
      <4>1. uart_out' = Append(uart_out, x) /\ uart_out \in Seq(Byte \cup {x})
        BY <2>4, <1>1 DEF RxShows
      <4> HIDE DEF x
      <4> QED
        BY <4>1
    <3>2. n >= bits - 1
      BY <2>4, <1>3 DEF RxShows
    <3> QED
      BY <2>4, <3>1, <3>2 DEF RxShows, ReceiveStep
  <2>5. CASE RxSamples
    <3>1. n2 = n + 1
      BY <2>5, <1>1, <1>7 DEF RxSamples
    <3>2. n < bits - 1
      BY <2>5, <1>3, <1>6 DEF RxSamples
    <3> QED
      BY <2>5, <3>1, <3>2 DEF RxSamples, ReceiveStep
  <2> QED
    BY <2>1, <2>2, <2>3, <2>4, <2>5, ReceiveCases
<1>10. Place(bb, bits, st, len, count, s, o, n, c)
  <2>1. CASE dev_tx = <<>>
    <3>1. len = 0
      BY <1>4, <2>1
    <3> QED
      BY <2>1, <3>1, <1>3 DEF OutPlace, Place, Samples, Half
  <2>2. CASE dev_tx # <<>>
    <3>1. len > 0 /\ len \in Nat /\ OutBit = bits - len /\ OutTime = bb - 1 - count /\ Half = bb \div 2
      BY <1>4, <1>6, <2>2 DEF OutBit, OutTime, Half
    <3>2. OutBit = 0 <=> len = bits
      BY <1>6, <3>1
    <3> QED
      BY <2>2, <3>1, <3>2, <1>3 DEF OutPlace, Place, Samples
  <2> QED
    BY <2>1, <2>2
<1> HIDE DEF st, len, count, s, o, n, c, line, change, len2, count2, s2, o2, n2, c2, st2, bits, bb
<1>11. Place(bb, bits, st2, len2, count2, s2, o2, n2, c2)
  BY <1>6, <1>7, <1>8, <1>9, <1>10, PlaceStep, Zenon
<1>12. OutPlace'
  <2>1. Bits' = bits /\ B' = bb /\ FrameBits' = bits - 1
    BY <1>3 DEF OutClock, Bits, FrameBits, B, bits, bb
  <2>2. OutBit' = bits - len2 /\ OutTime' = bb - 1 - count2 /\ Half' = bb \div 2 /\ Samples' = n2
    BY <2>1 DEF OutBit, OutTime, Half, Samples, len2, count2, n2
  <2>3. (dev_tx' = <<>> <=> len2 = 0) /\ (OutBit' = 0 <=> len2 = bits)
    BY <1>4, <1>6, <2>2 DEF len2
  <2> DEFINE time == bb - 1 - count2
             h == bb \div 2
             bit == bits - len2
  <2>4. CASE st2 = "RXIDLE" /\ len2 = 0 /\ o2 = s2
    BY <2>3, <2>4 DEF OutPlace, st2, s2, o2
  <2>5. CASE st2 = "RXIDLE" /\ len2 = bits /\ o2 = s2 - 1 /\ time <= h + 1
    <3>1. dev_tx' # <<>> /\ OutBit' = 0 /\ OutTime' <= Half' + 1
      BY <1>6, <2>2, <2>3, <2>5
    <3> QED
      BY <2>5, <3>1 DEF OutPlace, st2, s2, o2
  <2>6. CASE st2 = "RXDATA" /\ len2 > 0 /\ o2 = s2 - 1 /\ bit = n2 /\ c2 = bb + h - time
    <3>1. dev_tx' # <<>> /\ OutBit' = Samples' /\ m_rx_baudcounter' = B' + Half' - OutTime'
      BY <1>6, <2>1, <2>2, <2>3, <2>6 DEF c2
    <3> QED
      BY <2>6, <3>1 DEF OutPlace, st2, s2, o2
  <2>7. CASE st2 = "RXDATA" /\ len2 > 0 /\ o2 = s2 - 1 /\ bit = n2 + 1 /\ c2 = h - time /\ time <= h
    <3>1. dev_tx' # <<>> /\ OutBit' = Samples' + 1 /\ m_rx_baudcounter' = Half' - OutTime' /\ OutTime' <= Half'
      BY <1>6, <2>1, <2>2, <2>3, <2>7 DEF c2
    <3> QED
      BY <2>7, <3>1 DEF OutPlace, st2, s2, o2
  <2>8. CASE st2 = "RXDATA" /\ len2 = 0 /\ o2 = s2 - 1 /\ n2 = bits - 1 /\ c2 \in 0 .. h
    <3>1. dev_tx' = <<>> /\ Samples' = FrameBits' /\ m_rx_baudcounter' \in 0 .. Half'
      BY <1>6, <2>1, <2>2, <2>3, <2>8 DEF c2
    <3> QED
      BY <2>8, <3>1 DEF OutPlace, st2, s2, o2
  <2>9. CASE st2 = "RXDATA" /\ len2 = bits /\ o2 = s2 - 2 /\ n2 = bits - 1 /\ c2 >= 0 /\ c2 + time <= h
    <3>1. dev_tx' # <<>> /\ OutBit' = 0 /\ Samples' = FrameBits'
      BY <1>6, <2>1, <2>2, <2>3, <2>9
    <3>2. m_rx_baudcounter' >= 0 /\ m_rx_baudcounter' + OutTime' <= Half'
      BY <2>2, <2>9, Zenon DEF c2
    <3> QED
      BY <2>9, <3>1, <3>2 DEF OutPlace, st2, s2, o2
  <2> QED
    BY <1>11, <2>4, <2>5, <2>6, <2>7, <2>8, <2>9 DEF Place
<1> QED
  BY <1>12

\* The rest of a frame stays the rest of a frame.
LEMMA OutLineStep ==
    ASSUME Agreed, SerialTypeOK, SerialTypeOK', OutLine, NEW b, OutClock(b)
    PROVE  OutLine'
<1>1. /\ dev_tx \in Seq(Bit) /\ dev_count \in Nat /\ sent \in Seq(Byte)
      /\ lcr \in [dlab : BOOLEAN, format : Format]
  BY DEF SerialTypeOK
<1>2. dev_tx' \in Seq(Bit) /\ dev_count' \in Nat /\ sent' \in Seq(Byte)
  BY DEF SerialTypeOK
<1>3. Bits \in Nat /\ 3 <= Bits /\ B \in Nat /\ 3 <= B /\ Half \in Nat /\ Half + 2 <= B
  BY <1>1, FrameNumbers
<1>4. Bits' = Bits /\ B' = B /\ Half' = Half
  BY DEF OutClock, Bits, FrameBits, B, Half
<1>11. DevFrame(sent[Len(sent)])' = DevFrame(sent'[Len(sent')])
  BY DEF OutClock, DevFrame, DevParity
<1>5. OutBit' = Bits - Len(dev_tx') /\ OutTime' = B - 1 - dev_count'
  BY <1>4 DEF OutBit, OutTime
<1>6. m_last_tx' = DevLine
  BY OutLevel
<1>7. CASE Starting(b)
  <2> DEFINE x == b.byte
  <2>1. x \in Byte /\ dev_tx' = DevFrame(x) /\ dev_count' = B - 1 /\ sent' = Append(sent, x)
    BY <1>7 DEF Starting
  <2>2. Len(DevFrame(x)) = Bits
    BY <1>1, <2>1, FramesAreKnown DEF DevFrameParts
  <2>3. Len(sent') >= 1 /\ sent'[Len(sent')] = x
    <3>1. Len(sent') = Len(sent) + 1 /\ sent'[Len(sent) + 1] = x /\ Len(sent) \in Nat
      BY <1>1, <2>1
    <3> QED
      BY <3>1
  <2>4. OutBit' = 0 /\ OutTime' = 0 /\ Len(dev_tx') = Bits /\ dev_tx' # <<>>
    BY <1>2, <1>3, <1>5, <2>1, <2>2
  <2>5. \A j \in 1 .. Len(dev_tx') : dev_tx'[j] = DevFrame(sent[Len(sent)])'[OutBit' + j]
    <3>1. TAKE j \in 1 .. Len(dev_tx')
    <3>2. OutBit' + j = j
      BY <2>4
    <3>3. DevFrame(sent[Len(sent)])' = DevFrame(x)
      BY <1>11, <2>3
    <3>4. dev_tx'[j] = DevFrame(x)[j]
      BY <2>1
    <3> HIDE DEF x
    <3> QED
      BY <3>2, <3>3, <3>4
  <2>6. m_last_tx' = 1
    <3>1. Len(dev_tx) <= 1
      <4>1. dev_tx = <<>> \/ Len(dev_tx) = 1
        BY <1>7 DEF Starting, DevFree
      <4>2. Len(<<>>) = 0 /\ 0 <= 1 /\ 1 <= 1
        OBVIOUS
      <4> QED
        BY <4>1, <4>2, Zenon
    <3> QED
      BY <3>1, <1>6, OutLevel
  <2> QED
    BY <1>3, <1>4, <2>1, <2>3, <2>4, <2>5, <2>6 DEF OutLine
<1>8. CASE Waiting
  <2>1. dev_tx # <<>> /\ dev_tx' = dev_tx /\ sent' = sent /\ dev_count' = dev_count - 1
    BY <1>8 DEF Waiting
  <2>2. OutBit' = OutBit /\ OutTime' = OutTime + 1 /\ OutTime >= 0 /\ OutTime \in Int
    BY <1>1, <1>3, <1>5, <2>1 DEF OutBit, OutTime, OutLine
  <2>3. /\ Len(sent) >= 1 /\ Len(dev_tx) <= Bits /\ dev_count <= B - 1
        /\ \A j \in 1 .. Len(dev_tx) : dev_tx[j] = DevFrame(sent[Len(sent)])[OutBit + j]
    BY <2>1 DEF OutLine
  <2>4. ASSUME OutBit' = 0, OutTime' \in 1 .. Half + 1
        PROVE  m_last_tx' = 0 /\ m_rx_changectr' = OutTime' - 1
    <3>1. OutBit = 0 /\ OutTime <= Half + 1
      BY <1>3, <2>2, <2>4
    <3>2. Len(dev_tx) = Bits
      BY <1>1, <1>3, <3>1 DEF OutBit
    <3>3. DevLine = 0 /\ m_rx_changectr' = OutTime
      BY <2>1, <3>1, <3>2, OutLevel
    <3> QED
      BY <1>6, <2>2, <3>3
  <2>5. OutTime' # 0 /\ dev_count' <= B - 1
    BY <1>1, <1>3, <2>1, <2>2, <2>3
  <2> QED
    BY <1>4, <1>11, <2>1, <2>2, <2>3, <2>4, <2>5 DEF OutLine
<1>9. CASE Shifting
  <2>1. /\ dev_tx # <<>> /\ dev_tx' = Tail(dev_tx) /\ sent' = sent
        /\ Len(dev_tx) # 1 => dev_count' = B - 1
    BY <1>9 DEF Shifting
  <2>2. /\ Len(dev_tx) \in Nat /\ Len(dev_tx) >= 1 /\ Len(dev_tx') = Len(dev_tx) - 1
        /\ \A j \in 1 .. Len(dev_tx) - 1 : dev_tx'[j] = dev_tx[j + 1]
    BY <1>1, <2>1
  <2>3. CASE Len(dev_tx) = 1
    <3>1. dev_tx' = <<>>
      BY <1>2, <2>2, <2>3
    <3>2. DevLine = 1
      BY <2>3, OutLevel
    <3> QED
      BY <1>6, <3>1, <3>2 DEF OutLine
  <2>4. CASE Len(dev_tx) # 1
    <3>1. /\ Len(sent) >= 1 /\ Len(dev_tx) <= Bits
          /\ \A j \in 1 .. Len(dev_tx) : dev_tx[j] = DevFrame(sent[Len(sent)])[OutBit + j]
      BY <2>1 DEF OutLine
    <3>2. OutBit' = OutBit + 1 /\ OutBit \in Nat /\ OutBit' # 0 /\ Len(dev_tx') <= Bits /\ dev_tx' # <<>>
      BY <1>2, <1>3, <1>5, <2>2, <2>4, <3>1 DEF OutBit
    <3>3. \A j \in 1 .. Len(dev_tx') : dev_tx'[j] = DevFrame(sent[Len(sent)])'[OutBit' + j]
      <4>1. TAKE j \in 1 .. Len(dev_tx')
      <4>2. j + 1 \in 1 .. Len(dev_tx) /\ OutBit + (j + 1) = OutBit' + j /\ dev_tx'[j] = dev_tx[j + 1]
        BY <2>2, <3>2
      <4>3. dev_tx[j + 1] = DevFrame(sent[Len(sent)])[OutBit' + j]
        BY <3>1, <4>2
      <4>4. DevFrame(sent[Len(sent)])' = DevFrame(sent[Len(sent)])
        BY <1>11, <2>1
      <4> QED
        BY <4>2, <4>3, <4>4
    <3>4. dev_count' <= B - 1 /\ OutTime' = 0
      BY <1>3, <1>5, <2>1, <2>4
    <3> QED
      BY <1>4, <2>1, <3>1, <3>2, <3>3, <3>4 DEF OutLine
  <2> QED
    BY <2>3, <2>4
<1>10. CASE Resting
  <2>1. dev_tx = <<>> /\ dev_tx' = <<>>
    BY <1>10 DEF Resting
  <2>2. DevLine = 1
    BY <2>1 DEF DevLine
  <2> QED
    BY <1>6, <2>1, <2>2 DEF OutLine
<1> QED
  BY <1>7, <1>8, <1>9, <1>10, TransmitCases

\* The bytes the design was given stay what they are.
LEMMA SentStays ==
    ASSUME Agreed, SerialTypeOK, NEW b, OutClock(b)
    PROVE  Len(sent) <= Len(sent') /\ \A i \in 1 .. Len(sent) : sent'[i] = sent[i]
<1>1. sent \in Seq(Byte) /\ Len(sent) \in Nat
  BY DEF SerialTypeOK
<1>2. CASE Starting(b)
  <2>1. sent' = Append(sent, b.byte) /\ b.byte \in Byte
    BY <1>2 DEF Starting
  <2> QED
    BY <1>1, <2>1
<1>3. CASE sent' = sent
  BY <1>1, <1>3
<1> QED
  BY <1>2, <1>3, TransmitCases DEF Waiting, Shifting, Resting

\* What the terminal has of a frame, and has shown, is what was sent.
LEMMA OutBytesStep ==
    ASSUME Agreed, SerialTypeOK, SerialTypeOK', OutLine, OutPlace, OutBytes, NEW b, OutClock(b)
    PROVE  OutBytes'
<1> DEFINE s == Len(sent)
           o == Len(uart_out)
           n == Len(m_rx_data)
           w == ByteWidth
<1>1. /\ dev_tx \in Seq(Bit) /\ dev_count \in Nat /\ sent \in Seq(Byte) /\ uart_out \in Seq(Byte)
      /\ m_rx_data \in Seq(Bit) /\ m_rx_baudcounter \in Int /\ lcr \in [dlab : BOOLEAN, format : Format]
      /\ m_rx_state \in {"RXIDLE", "RXDATA"}
  BY DEF SerialTypeOK, UartTypeOK
<1>2. /\ Bits \in Nat /\ 3 <= Bits /\ FrameBits = Bits - 1 /\ B \in Nat /\ Half \in Nat /\ Half + 2 <= B
      /\ w \in Nat /\ w + 1 < Bits
  BY <1>1, FrameNumbers
<1>3. s \in Nat /\ o \in Nat /\ n \in Nat
  BY <1>1
<1>4. s <= Len(sent') /\ \A i \in 1 .. s : sent'[i] = sent[i]
  BY SentStays
<1>5. /\ \A i \in 1 .. o : uart_out[i] = sent[i]
      /\ m_rx_state = "RXDATA" => \A i \in 1 .. n : i <= w => m_rx_data[i] = sent[o + 1][i]
  BY DEF OutBytes
<1>6. o <= s /\ (m_rx_state = "RXDATA" => o + 1 <= s)
  BY <1>1, <1>3 DEF OutPlace
<1>7. ASSUME uart_out' = uart_out
      PROVE  \A i \in 1 .. Len(uart_out') : uart_out'[i] = sent'[i]
  BY <1>3, <1>4, <1>5, <1>6, <1>7
<1>8. CASE RxIdles
  BY <1>7, <1>8 DEF RxIdles, OutBytes
<1>9. CASE RxBegins
  BY <1>7, <1>9 DEF RxBegins, OutBytes
<1>10. CASE RxCounts
  <2>1. m_rx_state = "RXDATA" /\ m_rx_data' = m_rx_data /\ uart_out' = uart_out
    BY <1>10 DEF RxCounts
  <2>2. sent'[o + 1] = sent[o + 1]
    BY <1>3, <1>4, <1>6, <2>1
  <2> QED
    BY <1>5, <1>7, <2>1, <2>2 DEF OutBytes
<1>11. CASE RxShows
  <2> DEFINE x == SubSeq(m_rx_data, 1, w)
  <2>1. /\ m_rx_state = "RXDATA" /\ m_rx_state' = "RXIDLE" /\ n >= FrameBits
        /\ uart_out' = Append(uart_out, x)
    BY <1>11 DEF RxShows
  <2>2. w <= n
    BY <1>2, <1>3, <2>1
  <2>3. /\ x \in Seq(Bit) /\ Len(x) = w /\ \A i \in 1 .. w : x[i] = m_rx_data[i]
    BY <1>1, <1>2, <1>3, <2>2, SubSeqProperties
  <2>4. x \in Byte
    BY <2>3, SeqOfByte
  <2>5. sent[o + 1] \in Byte
    BY <1>1, <1>3, <1>6, <2>1
  <2>6. \A i \in 1 .. w : x[i] = sent[o + 1][i]
    BY <1>2, <1>3, <1>5, <2>1, <2>2, <2>3
  <2>7. x = sent[o + 1]
    BY <2>4, <2>5, <2>6, SameByte, Zenon
  <2> HIDE DEF x
  <2>8. Len(uart_out') = o + 1 /\ uart_out'[o + 1] = x /\ \A i \in 1 .. o : uart_out'[i] = uart_out[i]
    BY <1>1, <2>1, <2>4
  <2>9. sent'[o + 1] = sent[o + 1]
    BY <1>3, <1>4, <1>6, <2>1
  <2>10. \A i \in 1 .. Len(uart_out') : uart_out'[i] = sent'[i]
    <3>1. TAKE i \in 1 .. Len(uart_out')
    <3>2. CASE i = o + 1
      BY <2>7, <2>8, <2>9, <3>2
    <3>3. CASE i # o + 1
      <4>1. i \in 1 .. o /\ i \in 1 .. s
        BY <1>3, <1>6, <2>8, <3>3
      <4> QED
        BY <1>4, <1>5, <2>8, <4>1
    <3> QED
      BY <3>2, <3>3
  <2> QED
    BY <2>1, <2>10 DEF OutBytes
<1>12. CASE RxSamples
  <2>1. /\ m_rx_state = "RXDATA" /\ m_rx_baudcounter <= 0 /\ n < FrameBits /\ uart_out' = uart_out
        /\ m_rx_data' = Append(m_rx_data, DevLine)
    BY <1>2, <1>3, <1>12 DEF RxSamples
  <2>2. dev_tx # <<>> /\ o = s - 1 /\ OutBit = n + 1
    <3>1. ~(OutBit = n /\ m_rx_baudcounter = B + Half - OutTime)
      BY <1>1, <1>2, <2>1 DEF OutTime
    <3> QED
      BY <1>2, <1>3, <2>1, <3>1 DEF OutPlace, Samples
  <2>3. DevLine = DevFrame(sent[o + 1])[OutBit + 1]
    BY <1>3, <2>2, OutLevel
  <2>4. sent[o + 1] \in Byte
    BY <1>1, <1>3, <1>6, <2>1
  <2>5. n + 1 <= w => DevLine = sent[o + 1][n + 1]
    <3> SUFFICES ASSUME n + 1 <= w PROVE DevLine = sent[o + 1][n + 1]
      OBVIOUS
    <3>1. n + 1 \in 1 .. w /\ OutBit + 1 = 1 + (n + 1)
      BY <1>2, <1>3, <2>2
    <3> QED
      BY <1>1, <2>3, <2>4, <3>1, FramesAreKnown DEF DevFrameParts
  <2>6. Len(m_rx_data') = n + 1 /\ m_rx_data'[n + 1] = DevLine /\ \A i \in 1 .. n : m_rx_data'[i] = m_rx_data[i]
    BY <1>1, <2>1, OutLevel
  <2>7. sent'[o + 1] = sent[o + 1]
    BY <1>3, <1>4, <1>6, <2>1
  <2>8. \A i \in 1 .. Len(m_rx_data') : i <= w => m_rx_data'[i] = sent'[Len(uart_out') + 1][i]
    <3>1. TAKE i \in 1 .. Len(m_rx_data')
    <3>2. CASE i = n + 1
      BY <2>1, <2>5, <2>6, <2>7, <3>2
    <3>3. CASE i # n + 1
      <4>1. i \in 1 .. n
        BY <1>3, <2>6, <3>3
      <4> QED
        BY <1>5, <2>1, <2>6, <2>7, <4>1
    <3> QED
      BY <3>2, <3>3
  <2> QED
    BY <1>7, <2>1, <2>8 DEF OutBytes
<1> QED
  BY <1>8, <1>9, <1>10, <1>11, <1>12, ReceiveCases

\* A clock keeps the line from the design.
LEMMA LineOutStep ==
    ASSUME Agreed, SerialTypeOK, SerialTypeOK', OutInv, NEW b, OutClock(b)
    PROVE  OutInv'
BY OutLineStep, OutPlaceStep, OutBytesStep DEF OutInv

----------------------------------------------------------------------------
\* A clock of the line to the design.
InClock(byte) ==
    /\ UartSend(byte) /\ DevReceive /\ (byte # <<>> => byte \in Byte)
    /\ UNCHANGED <<lcr, dl, m_setup>>

\* What a clock is for the terminal's sender, and for the design's receiver.
TxIdles == m_tx_state = "TXIDLE" /\ m_tx_state' = "TXIDLE" /\ uart_rx' = 1 /\ typed' = typed
TxBegins(x) ==
    /\ m_tx_state = "TXIDLE" /\ m_tx_state' = "TXDATA" /\ x \in Byte /\ typed' = Append(typed, x)
    /\ m_tx_data' = FrameOf(x) /\ m_tx_baudcounter' = B - 1 /\ uart_rx' = 0
TxWaits ==
    /\ m_tx_state = "TXDATA" /\ m_tx_state' = "TXDATA" /\ m_tx_baudcounter > 0 /\ typed' = typed
    /\ m_tx_data' = m_tx_data /\ m_tx_baudcounter' = m_tx_baudcounter - 1 /\ uart_rx' = Head(m_tx_data)
TxShifts ==
    /\ m_tx_state = "TXDATA" /\ m_tx_state' = "TXDATA" /\ m_tx_baudcounter <= 0 /\ typed' = typed
    /\ m_tx_data' = Tail(m_tx_data) /\ m_tx_baudcounter' = B - 1 /\ uart_rx' = m_tx_data[2]
    /\ Len(m_tx_data) # 1
TxEnds ==
    /\ m_tx_state = "TXDATA" /\ m_tx_state' = "TXIDLE" /\ m_tx_baudcounter <= 0 /\ typed' = typed
    /\ uart_rx' = 1 /\ Len(m_tx_data) = 1

LEMMA TxCases ==
    ASSUME NEW byte, InClock(byte)
    PROVE  TxIdles \/ TxBegins(byte) \/ TxWaits \/ TxShifts \/ TxEnds
BY DEF InClock, UartSend, TxIdles, TxBegins, TxWaits, TxShifts, TxEnds, B

HearIdles ==
    /\ dev_wait = 0 /\ dev_rx = <<>> /\ dev_rx' = <<>> /\ heard' = heard
    /\ dev_wait' = IF uart_rx = 0 THEN Half ELSE 0
HearWaits == dev_wait > 1 /\ dev_wait' = dev_wait - 1 /\ dev_rx' = dev_rx /\ heard' = heard
HearSamples ==
    /\ dev_wait = 1 /\ Len(dev_rx) # Wanted /\ dev_wait' = B
    /\ dev_rx' = Append(dev_rx, uart_rx) /\ heard' = heard
HearEnds ==
    /\ dev_wait = 1 /\ Len(dev_rx) = Wanted /\ dev_wait' = 0 /\ dev_rx' = <<>>
    /\ heard' = Append(heard, [byte |-> SubSeq(dev_rx, 2, ByteWidth + 1),
         ok |-> uart_rx = 1 /\ SubSeq(dev_rx, ByteWidth + 2, Wanted) = DevParity(SubSeq(dev_rx, 2, ByteWidth + 1))])

LEMMA HearCases ==
    ASSUME Agreed, SerialTypeOK, NEW byte, InClock(byte)
    PROVE  HearIdles \/ HearWaits \/ HearSamples \/ HearEnds
<1>1. lcr \in [dlab : BOOLEAN, format : Format]
  BY DEF SerialTypeOK
<1>2. ByteWidth + (IF lcr.format.parity = "none" THEN 0 ELSE 1) + 1 = Wanted
  BY <1>1, FrameNumbers DEF Wanted
<1>3. DevBaud = B /\ DevBaud \div 2 = Half
  BY DEF Agreed, Half
<1> QED
  BY <1>2, <1>3 DEF InClock, DevReceive, HearIdles, HearWaits, HearSamples, HearEnds

\* The place of the design's receiver by numbers alone: the bits the terminal
\* has to send, the clocks it still sends this one, the bytes it took; the
\* clocks to the next sample, the samples and the bytes heard.
HearPlace(b, bits, wanted, st, len, count, t, wait, got, o) ==
    LET h == b \div 2
        bit == bits - len
        time == b - 1 - count
    IN  \/ wait = 0 /\ st = "TXIDLE" /\ o = t
        \/ wait = 0 /\ st = "TXDATA" /\ o = t /\ bit >= wanted
        \/ wait = 0 /\ got = 0 /\ st = "TXDATA" /\ o = t - 1 /\ bit = 0 /\ time = 0
        \/ /\ wait > 0 /\ got <= wanted /\ st = "TXDATA" /\ o = t - 1
           /\ \/ bit = got /\ time <= h /\ wait = h - time + 1
              \/ bit = got - 1 /\ wait = b + h - time + 1

TypeStep(b, bits, st, len, count, t, st2, len2, count2, t2) ==
    \/ st = "TXIDLE" /\ st2 = "TXIDLE" /\ t2 = t
    \/ st = "TXIDLE" /\ st2 = "TXDATA" /\ t2 = t + 1 /\ len2 = bits /\ count2 = b - 1
    \/ st = "TXDATA" /\ st2 = "TXDATA" /\ count > 0 /\ t2 = t /\ len2 = len /\ count2 = count - 1
    \/ st = "TXDATA" /\ st2 = "TXDATA" /\ count <= 0 /\ t2 = t /\ len # 1 /\ len2 = len - 1 /\ count2 = b - 1
    \/ st = "TXDATA" /\ st2 = "TXIDLE" /\ count <= 0 /\ t2 = t /\ len = 1
HearStep(b, wanted, line, wait, got, o, wait2, got2, o2) ==
    \/ wait = 0 /\ got2 = 0 /\ o2 = o /\ line = 0 /\ wait2 = b \div 2
    \/ wait = 0 /\ got2 = 0 /\ o2 = o /\ line = 1 /\ wait2 = 0
    \/ wait > 1 /\ wait2 = wait - 1 /\ got2 = got /\ o2 = o
    \/ wait = 1 /\ got # wanted /\ wait2 = b /\ got2 = got + 1 /\ o2 = o
    \/ wait = 1 /\ got = wanted /\ wait2 = 0 /\ got2 = 0 /\ o2 = o + 1

\* A clock keeps the design's receiver in its place.
LEMMA HearPlaceStep ==
    ASSUME NEW b \in Nat, 3 <= b, NEW bits \in Nat, 3 <= bits, NEW wanted \in Nat, 2 <= wanted, wanted < bits,
           NEW st \in {"TXIDLE", "TXDATA"}, NEW len \in Nat, NEW count \in Int, NEW t \in Nat,
           NEW st2, NEW len2 \in Nat, NEW count2 \in Int, NEW t2 \in Nat,
           NEW wait \in Nat, NEW got \in Nat, NEW o \in Nat, NEW wait2 \in Nat, NEW got2 \in Nat, NEW o2 \in Nat,
           NEW line \in Bit,
           st = "TXDATA" => len \in 1 .. bits /\ count \in 0 .. b - 1,
           st = "TXIDLE" => line = 1,
           st = "TXDATA" /\ len = bits => line = 0,
           st = "TXDATA" /\ bits - len >= wanted => line = 1,
           HearPlace(b, bits, wanted, st, len, count, t, wait, got, o),
           TypeStep(b, bits, st, len, count, t, st2, len2, count2, t2),
           HearStep(b, wanted, line, wait, got, o, wait2, got2, o2)
    PROVE  HearPlace(b, bits, wanted, st2, len2, count2, t2, wait2, got2, o2)
<1> DEFINE h == b \div 2
<1>1. h \in Nat /\ 2 * h <= b /\ b <= 2 * h + 1
  OBVIOUS
<1>2. h >= 1 /\ h + 2 <= b
  BY <1>1
<1> HIDE DEF h
<1>3. CASE wait = 0 /\ st = "TXIDLE" /\ o = t
  BY <1>2, <1>3 DEF HearPlace, TypeStep, HearStep, h
<1>4. CASE wait = 0 /\ st = "TXDATA" /\ o = t /\ bits - len >= wanted
  BY <1>2, <1>4 DEF HearPlace, TypeStep, HearStep, h
<1>5. CASE wait = 0 /\ got = 0 /\ st = "TXDATA" /\ o = t - 1 /\ bits - len = 0 /\ b - 1 - count = 0
  BY <1>2, <1>5 DEF HearPlace, TypeStep, HearStep, h, Bit
<1>6. CASE /\ wait > 0 /\ got <= wanted /\ st = "TXDATA" /\ o = t - 1
           /\ bits - len = got /\ b - 1 - count <= h /\ wait = h - (b - 1 - count) + 1
  BY <1>2, <1>6 DEF HearPlace, TypeStep, HearStep, h
<1>7. CASE /\ wait > 0 /\ got <= wanted /\ st = "TXDATA" /\ o = t - 1
           /\ bits - len = got - 1 /\ wait = b + h - (b - 1 - count) + 1
  BY <1>2, <1>7 DEF HearPlace, TypeStep, HearStep, h
<1> QED
  BY <1>3, <1>4, <1>5, <1>6, <1>7 DEF HearPlace, h

\* The line to the design: the level of the bit that is sent.
LEMMA InLevel ==
    ASSUME Agreed, SerialTypeOK, InLine
    PROVE  /\ uart_rx \in Bit
           /\ m_tx_state = "TXIDLE" => uart_rx = 1
           /\ m_tx_state = "TXDATA" =>
                 /\ typed[Len(typed)] \in Byte /\ Len(m_tx_data) \in 1 .. Bits /\ m_tx_baudcounter \in 0 .. B - 1
                 /\ uart_rx = FrameOf(typed[Len(typed)])[InBit + 1]
           /\ m_tx_state = "TXDATA" /\ Len(m_tx_data) = Bits => uart_rx = 0
           /\ m_tx_state = "TXDATA" /\ Bits - Len(m_tx_data) >= Wanted => uart_rx = 1
<1>1. /\ m_tx_data \in Seq(Bit) /\ m_tx_baudcounter \in Int /\ typed \in Seq(Byte) /\ uart_rx \in Bit
      /\ lcr \in [dlab : BOOLEAN, format : Format]
  BY DEF SerialTypeOK, UartTypeOK
<1>2. Bits \in Nat /\ 3 <= Bits /\ Wanted \in Nat /\ Wanted < Bits
  BY <1>1, FrameNumbers
<1>3. m_tx_state = "TXIDLE" => uart_rx = 1
  BY DEF InLine
<1>4. ASSUME m_tx_state = "TXDATA"
      PROVE  /\ typed[Len(typed)] \in Byte /\ Len(m_tx_data) \in 1 .. Bits /\ m_tx_baudcounter \in 0 .. B - 1
             /\ uart_rx = FrameOf(typed[Len(typed)])[InBit + 1]
             /\ Len(m_tx_data) = Bits => uart_rx = 0
             /\ Bits - Len(m_tx_data) >= Wanted => uart_rx = 1
  <2> DEFINE x == typed[Len(typed)]
             len == Len(m_tx_data)
  <2>1. /\ Len(typed) >= 1 /\ len \in 1 .. Bits /\ m_tx_baudcounter \in 0 .. B - 1
        /\ \A j \in 1 .. len : m_tx_data[j] = FrameOf(x)[InBit + j]
        /\ uart_rx = m_tx_data[1]
    BY <1>4 DEF InLine
  <2>2. x \in Byte
    BY <1>1, <2>1
  <2> HIDE DEF x
  <2>3. uart_rx = FrameOf(x)[InBit + 1]
    BY <2>1
  <2>4. FrameOf(x)[1] = 0 /\ \A i \in Wanted + 1 .. Bits : FrameOf(x)[i] = 1
    BY <1>1, <2>2, FramesAreKnown DEF FrameOfParts
  <2>5. len = Bits => uart_rx = 0
    <3> SUFFICES ASSUME len = Bits PROVE uart_rx = 0
      OBVIOUS
    <3>1. InBit + 1 = 1
      BY <1>2 DEF InBit
    <3> QED
      BY <2>3, <2>4, <3>1
  <2>6. Bits - len >= Wanted => uart_rx = 1
    <3> SUFFICES ASSUME Bits - len >= Wanted PROVE uart_rx = 1
      OBVIOUS
    <3>1. InBit + 1 \in Wanted + 1 .. Bits
      BY <1>2, <2>1 DEF InBit
    <3> QED
      BY <2>3, <2>4, <3>1
  <2> QED
    BY <2>1, <2>2, <2>3, <2>5, <2>6, Zenon DEF x, len
<1> QED
  BY <1>1, <1>3, <1>4, Zenon

\* The place of the design's receiver is kept: the numbers are HearPlaceStep.
LEMMA InPlaceStep ==
    ASSUME Agreed, SerialTypeOK, SerialTypeOK', InLine, InPlace, NEW byte, InClock(byte)
    PROVE  InPlace'
<1> DEFINE st == m_tx_state
           len == Len(m_tx_data)
           count == m_tx_baudcounter
           t == Len(typed)
           wait == dev_wait
           got == Len(dev_rx)
           o == Len(heard)
           line == uart_rx
           st2 == m_tx_state'
           len2 == Len(m_tx_data')
           count2 == m_tx_baudcounter'
           t2 == Len(typed')
           wait2 == dev_wait'
           got2 == Len(dev_rx')
           o2 == Len(heard')
           bits == Bits
           bb == B
           wanted == Wanted
<1>1. /\ m_tx_data \in Seq(Bit) /\ m_tx_baudcounter \in Int /\ typed \in Seq(Byte) /\ uart_rx \in Bit
      /\ dev_rx \in Seq(Bit) /\ dev_wait \in Nat /\ heard \in Seq(Heard)
      /\ lcr \in [dlab : BOOLEAN, format : Format] /\ m_tx_state \in {"TXIDLE", "TXDATA"}
  BY DEF SerialTypeOK, UartTypeOK
<1>2. /\ m_tx_data' \in Seq(Bit) /\ m_tx_baudcounter' \in Int /\ typed' \in Seq(Byte)
      /\ dev_rx' \in Seq(Bit) /\ dev_wait' \in Nat /\ heard' \in Seq(Heard)
  BY DEF SerialTypeOK, UartTypeOK
<1>3. /\ Bits \in Nat /\ 3 <= Bits /\ B \in Nat /\ 3 <= B /\ Half \in Nat /\ Half = B \div 2
      /\ Wanted \in Nat /\ 2 <= Wanted /\ Wanted < Bits
  BY <1>1, FrameNumbers DEF Half
<1>4. (dev_rx = <<>> <=> got = 0) /\ (dev_rx' = <<>> <=> got2 = 0)
  BY <1>1, <1>2
<1>5. /\ bb \in Nat /\ 3 <= bb /\ bits \in Nat /\ 3 <= bits /\ wanted \in Nat /\ 2 <= wanted /\ wanted < bits
      /\ st \in {"TXIDLE", "TXDATA"} /\ len \in Nat /\ count \in Int /\ t \in Nat
      /\ len2 \in Nat /\ count2 \in Int /\ t2 \in Nat
      /\ wait \in Nat /\ got \in Nat /\ o \in Nat /\ wait2 \in Nat /\ got2 \in Nat /\ o2 \in Nat /\ line \in Bit
  BY <1>1, <1>2, <1>3
<1>6. /\ st = "TXDATA" => len \in 1 .. bits /\ count \in 0 .. bb - 1
      /\ st = "TXIDLE" => line = 1
      /\ st = "TXDATA" /\ len = bits => line = 0
      /\ st = "TXDATA" /\ bits - len >= wanted => line = 1
  BY InLevel
<1>7. TypeStep(bb, bits, st, len, count, t, st2, len2, count2, t2)
  <2>1. CASE TxIdles
    BY <2>1 DEF TxIdles, TypeStep
  <2>2. CASE TxBegins(byte)
    <3>1. len2 = bits
      BY <2>2, <1>1, FramesAreKnown DEF TxBegins, FrameOfParts
    <3>2. t2 = t + 1
      BY <2>2, <1>1 DEF TxBegins
    <3> QED
      BY <2>2, <3>1, <3>2 DEF TxBegins, TypeStep
  <2>3. CASE TxWaits
    BY <2>3 DEF TxWaits, TypeStep
  <2>4. CASE TxShifts
    <3>1. len2 = len - 1
      <4>1. m_tx_data # <<>>
        BY <1>1, <1>6, <2>4 DEF TxShifts
      <4> QED
        BY <2>4, <1>1, <4>1 DEF TxShifts
    <3> QED
      BY <2>4, <3>1 DEF TxShifts, TypeStep
  <2>5. CASE TxEnds
    BY <2>5 DEF TxEnds, TypeStep
  <2> QED
    BY <2>1, <2>2, <2>3, <2>4, <2>5, TxCases
<1>8. HearStep(bb, wanted, line, wait, got, o, wait2, got2, o2)
  <2>1. CASE HearIdles
    <3>1. wait = 0 /\ got2 = 0 /\ o2 = o /\ wait2 = IF line = 0 THEN bb \div 2 ELSE 0
      BY <2>1, <1>3, <1>4 DEF HearIdles
    <3> QED
      BY <3>1, <1>5 DEF HearStep, Bit
  <2>2. CASE HearWaits
    BY <2>2 DEF HearWaits, HearStep
  <2>3. CASE HearSamples
    <3>1. got2 = got + 1
      BY <2>3, <1>1 DEF HearSamples
    <3> QED
      BY <2>3, <3>1 DEF HearSamples, HearStep
  <2>4. CASE HearEnds
    <3>1. o2 = o + 1
      <4>1. PICK x : heard' = Append(heard, x)
        BY <2>4 DEF HearEnds
      <4>2. heard \in Seq(Heard \cup {x})
        BY <1>1
      <4> QED
        BY <4>1, <4>2
    <3> QED
      BY <2>4, <3>1, <1>4 DEF HearEnds, HearStep
  <2> QED
    BY <2>1, <2>2, <2>3, <2>4, HearCases
<1>9. HearPlace(bb, bits, wanted, st, len, count, t, wait, got, o)
  <2>1. InBit = bits - len /\ InTime = bb - 1 - count /\ Half = bb \div 2
    BY <1>3 DEF InBit, InTime
  <2> QED
    BY <1>4, <2>1 DEF InPlace, HearPlace, Got
<1> HIDE DEF st, len, count, t, wait, got, o, line, st2, len2, count2, t2, wait2, got2, o2, bits, bb, wanted
<1>10. HearPlace(bb, bits, wanted, st2, len2, count2, t2, wait2, got2, o2)
  BY <1>5, <1>6, <1>7, <1>8, <1>9, HearPlaceStep, Zenon
<1>11. wait2 = 0 => got2 = 0
  <2>1. dev_wait' = 0 => dev_rx' = <<>>
    <3>1. HearWaits => dev_wait' # 0
      BY <1>1 DEF HearWaits
    <3>2. HearSamples => dev_wait' # 0
      BY <1>3 DEF HearSamples
    <3> QED
      BY <3>1, <3>2, HearCases DEF HearIdles, HearEnds
  <2> QED
    BY <1>4, <2>1 DEF wait2
<1>12. Bits' = bits /\ B' = bb /\ Half' = bb \div 2 /\ Wanted' = wanted
  BY <1>3 DEF InClock, Bits, FrameBits, B, Half, Wanted, bits, bb, wanted
<1>13. InBit' = bits - len2 /\ InTime' = bb - 1 - count2 /\ Got' = got2
  BY <1>12 DEF InBit, InTime, Got, len2, count2, got2
<1> DEFINE h == bb \div 2
           bit == bits - len2
           time == bb - 1 - count2
<1>14. CASE wait2 = 0 /\ st2 = "TXIDLE" /\ o2 = t2
  BY <1>4, <1>11, <1>14 DEF InPlace, wait2, st2, o2, t2, got2
<1>15. CASE wait2 = 0 /\ st2 = "TXDATA" /\ o2 = t2 /\ bit >= wanted
  <2>1. InBit' >= Wanted' /\ dev_rx' = <<>>
    BY <1>4, <1>11, <1>12, <1>13, <1>15
  <2> QED
    BY <2>1, <1>15 DEF InPlace, wait2, st2, o2, t2
<1>16. CASE wait2 = 0 /\ got2 = 0 /\ st2 = "TXDATA" /\ o2 = t2 - 1 /\ bit = 0 /\ time = 0
  <2>1. InBit' = 0 /\ InTime' = 0 /\ dev_rx' = <<>>
    BY <1>4, <1>13, <1>16
  <2> QED
    BY <2>1, <1>16 DEF InPlace, wait2, st2, o2, t2
<1>17. CASE /\ wait2 > 0 /\ got2 <= wanted /\ st2 = "TXDATA" /\ o2 = t2 - 1
            /\ \/ bit = got2 /\ time <= h /\ wait2 = h - time + 1
               \/ bit = got2 - 1 /\ wait2 = bb + h - time + 1
  <2>1. \/ InBit' = Got' /\ InTime' <= Half' /\ dev_wait' = Half' - InTime' + 1
        \/ InBit' = Got' - 1 /\ dev_wait' = B' + Half' - InTime' + 1
    BY <1>12, <1>13, <1>17, Zenon DEF wait2
  <2>2. dev_wait' > 0 /\ Got' <= Wanted' /\ m_tx_state' = "TXDATA" /\ Len(heard') = Len(typed') - 1
    BY <1>12, <1>13, <1>17, Zenon DEF wait2, st2, o2, t2
  <2> QED
    BY <2>1, <2>2, Zenon DEF InPlace
<1> QED
  BY <1>10, <1>14, <1>15, <1>16, <1>17 DEF HearPlace

\* The rest of a frame stays the rest of a frame.
LEMMA InLineStep ==
    ASSUME Agreed, SerialTypeOK, SerialTypeOK', InLine, NEW byte, InClock(byte)
    PROVE  InLine'
<1>1. /\ m_tx_data \in Seq(Bit) /\ m_tx_baudcounter \in Int /\ typed \in Seq(Byte)
      /\ lcr \in [dlab : BOOLEAN, format : Format]
  BY DEF SerialTypeOK, UartTypeOK
<1>2. m_tx_data' \in Seq(Bit) /\ m_tx_state' \in {"TXIDLE", "TXDATA"}
  BY DEF SerialTypeOK, UartTypeOK
<1>3. Bits \in Nat /\ 3 <= Bits /\ B \in Nat /\ 3 <= B
  BY <1>1, FrameNumbers
<1>4. Bits' = Bits /\ B' = B
  BY DEF InClock, Bits, FrameBits, B
<1>5. InBit' = Bits - Len(m_tx_data')
  BY <1>4 DEF InBit
<1>6. FrameOf(typed[Len(typed)])' = FrameOf(typed'[Len(typed')])
  BY DEF InClock, FrameOf, ParityBits
<1>7. CASE m_tx_state' = "TXIDLE" /\ uart_rx' = 1
  BY <1>7 DEF InLine
<1>8. CASE TxBegins(byte)
  <2>1. /\ m_tx_state' = "TXDATA" /\ byte \in Byte /\ typed' = Append(typed, byte)
        /\ m_tx_data' = FrameOf(byte) /\ m_tx_baudcounter' = B - 1 /\ uart_rx' = 0
    BY <1>8 DEF TxBegins
  <2>2. Len(m_tx_data') = Bits /\ FrameOf(byte)[1] = 0
    BY <1>1, <2>1, FramesAreKnown DEF FrameOfParts
  <2>3. Len(typed') >= 1 /\ typed'[Len(typed')] = byte
    <3>1. Len(typed') = Len(typed) + 1 /\ typed'[Len(typed) + 1] = byte /\ Len(typed) \in Nat
      BY <1>1, <2>1
    <3> QED
      BY <3>1
  <2>4. \A j \in 1 .. Len(m_tx_data') : m_tx_data'[j] = FrameOf(typed[Len(typed)])'[InBit' + j]
    <3>1. TAKE j \in 1 .. Len(m_tx_data')
    <3>2. InBit' + j = j
      BY <1>3, <1>5, <2>2
    <3>3. FrameOf(typed[Len(typed)])' = FrameOf(byte)
      BY <1>6, <2>3
    <3> QED
      BY <2>1, <3>2, <3>3
  <2> QED
    BY <1>3, <1>4, <2>1, <2>2, <2>3, <2>4 DEF InLine
<1>9. CASE TxWaits
  <2>1. /\ m_tx_state = "TXDATA" /\ m_tx_state' = "TXDATA" /\ m_tx_baudcounter > 0 /\ typed' = typed
        /\ m_tx_data' = m_tx_data /\ m_tx_baudcounter' = m_tx_baudcounter - 1 /\ uart_rx' = Head(m_tx_data)
    BY <1>9 DEF TxWaits
  <2>2. /\ Len(typed) >= 1 /\ Len(m_tx_data) \in 1 .. Bits /\ m_tx_baudcounter \in 0 .. B - 1
        /\ \A j \in 1 .. Len(m_tx_data) : m_tx_data[j] = FrameOf(typed[Len(typed)])[InBit + j]
    BY <2>1 DEF InLine
  <2>3. InBit' = InBit
    BY <1>5, <2>1 DEF InBit
  <2>4. uart_rx' = m_tx_data'[1]
    BY <1>1, <2>1, <2>2
  <2>5. m_tx_baudcounter' \in 0 .. B - 1
    BY <1>1, <1>3, <2>1, <2>2
  <2> QED
    BY <1>4, <1>6, <2>1, <2>2, <2>3, <2>4, <2>5 DEF InLine
<1>10. CASE TxShifts
  <2>1. /\ m_tx_state = "TXDATA" /\ m_tx_state' = "TXDATA" /\ typed' = typed
        /\ m_tx_data' = Tail(m_tx_data) /\ m_tx_baudcounter' = B - 1 /\ uart_rx' = m_tx_data[2]
        /\ Len(m_tx_data) # 1
    BY <1>10 DEF TxShifts
  <2>2. /\ Len(typed) >= 1 /\ Len(m_tx_data) \in 1 .. Bits
        /\ \A j \in 1 .. Len(m_tx_data) : m_tx_data[j] = FrameOf(typed[Len(typed)])[InBit + j]
    BY <2>1 DEF InLine
  <2>3. /\ m_tx_data # <<>> /\ Len(m_tx_data') = Len(m_tx_data) - 1
        /\ \A j \in 1 .. Len(m_tx_data) - 1 : m_tx_data'[j] = m_tx_data[j + 1]
    BY <1>1, <2>1, <2>2
  <2>4. InBit' = InBit + 1 /\ InBit \in Nat /\ Len(m_tx_data') \in 1 .. Bits
    BY <1>3, <1>5, <2>1, <2>2, <2>3 DEF InBit
  <2>5. \A j \in 1 .. Len(m_tx_data') : m_tx_data'[j] = FrameOf(typed[Len(typed)])'[InBit' + j]
    <3>1. TAKE j \in 1 .. Len(m_tx_data')
    <3>2. j + 1 \in 1 .. Len(m_tx_data) /\ InBit + (j + 1) = InBit' + j /\ m_tx_data'[j] = m_tx_data[j + 1]
      BY <2>2, <2>3, <2>4
    <3>3. m_tx_data[j + 1] = FrameOf(typed[Len(typed)])[InBit' + j]
      BY <2>2, <3>2
    <3>4. FrameOf(typed[Len(typed)])' = FrameOf(typed[Len(typed)])
      BY <1>6, <2>1
    <3> QED
      BY <3>2, <3>3, <3>4
  <2>6. uart_rx' = m_tx_data'[1]
    <3>1. Len(m_tx_data) - 1 >= 1 /\ Len(m_tx_data) - 1 \in Nat
      <4>1. Len(m_tx_data) \in 1 .. Bits /\ Len(m_tx_data) # 1 /\ Len(m_tx_data) \in Nat
        BY <1>1, <2>1, <2>2
      <4>2. \A k, n \in Nat : k \in 1 .. n /\ k # 1 => k - 1 >= 1 /\ k - 1 \in Nat
        OBVIOUS
      <4> QED
        BY <1>3, <4>1, <4>2
    <3>2. 1 \in 1 .. Len(m_tx_data) - 1
      BY <3>1
    <3>3. m_tx_data'[1] = m_tx_data[1 + 1] /\ 1 + 1 = 2
      BY <2>3, <3>2
    <3> QED
      BY <2>1, <3>3
  <2>7. m_tx_baudcounter' \in 0 .. B - 1
    BY <1>3, <2>1
  <2> QED
    BY <1>4, <2>1, <2>2, <2>4, <2>5, <2>6, <2>7 DEF InLine
<1> QED
  BY <1>7, <1>8, <1>9, <1>10, TxCases DEF TxIdles, TxEnds

\* The bytes the terminal took stay what they are.
LEMMA TypedStays ==
    ASSUME SerialTypeOK, NEW byte, InClock(byte)
    PROVE  Len(typed) <= Len(typed') /\ \A i \in 1 .. Len(typed) : typed'[i] = typed[i]
<1>1. typed \in Seq(Byte) /\ Len(typed) \in Nat
  BY DEF SerialTypeOK, UartTypeOK
<1>2. CASE TxBegins(byte)
  <2>1. typed' = Append(typed, byte) /\ byte \in Byte
    BY <1>2 DEF TxBegins
  <2> QED
    BY <1>1, <2>1
<1>3. CASE typed' = typed
  BY <1>1, <1>3
<1> QED
  BY <1>2, <1>3, TxCases DEF TxIdles, TxWaits, TxShifts, TxEnds

\* What the design makes of the bits of a frame.
LEMMA FrameHeard ==
    ASSUME Agreed, SerialTypeOK, NEW x \in Byte, NEW r \in Seq(Bit), Len(r) = Wanted,
           \A i \in 1 .. Wanted : r[i] = FrameOf(x)[i]
    PROVE  /\ SubSeq(r, 2, ByteWidth + 1) = x
           /\ (SubSeq(r, ByteWidth + 2, Wanted) = DevParity(x)) <=> lcr.format.parity \notin {"odd", "even"}
<1> DEFINE w == ByteWidth
           p == m_setup.nparity
           y == SubSeq(r, 2, w + 1)
           par == SubSeq(r, w + 2, Wanted)
<1>1. lcr \in [dlab : BOOLEAN, format : Format]
  BY DEF SerialTypeOK
<1>2. w \in Nat \ {0} /\ p \in {0, 1} /\ Wanted = w + p + 1
  BY <1>1, FrameNumbers DEF Wanted
<1>3. /\ \A i \in 1 .. w : FrameOf(x)[1 + i] = x[i]
      /\ \A i \in 1 .. p : FrameOf(x)[1 + w + i] = ParityBits(x)[i]
      /\ ParityBits(x) \in Seq(Bit) /\ Len(ParityBits(x)) = p
      /\ (ParityBits(x) = DevParity(x)) <=> lcr.format.parity \notin {"odd", "even"}
  BY <1>1, FramesAreKnown DEF FrameOfParts, ParityParts
<1>4. y \in Seq(Bit) /\ Len(y) = w /\ \A i \in 1 .. w : y[i] = r[1 + i]
  <2>1. /\ y \in Seq(Bit) /\ Len(y) = w
        /\ \A i \in 1 .. w : y[i] = r[2 + i - 1]
    BY <1>2, SubSeqProperties
  <2>2. \A i \in 1 .. w : 2 + i - 1 = 1 + i
    BY <1>2
  <2> QED
    BY <2>1, <2>2
<1>5. \A i \in 1 .. w : y[i] = x[i]
  <2>1. TAKE i \in 1 .. w
  <2>2. 1 + i \in 1 .. Wanted
    BY <1>2
  <2>3. y[i] = FrameOf(x)[1 + i]
    BY <1>4, <2>2
  <2> QED
    BY <1>3, <2>3
<1>6. y = x
  <2>1. y \in Byte
    BY <1>4, SeqOfByte
  <2> HIDE DEF y
  <2> QED
    BY <1>5, <2>1, SameByte, Zenon
<1>7. par \in Seq(Bit) /\ Len(par) = p /\ \A i \in 1 .. p : par[i] = r[1 + w + i]
  <2>1. /\ par \in Seq(Bit) /\ Len(par) = p
        /\ \A i \in 1 .. p : par[i] = r[w + 2 + i - 1]
    BY <1>2, SubSeqProperties
  <2>2. \A i \in 1 .. p : w + 2 + i - 1 = 1 + w + i
    BY <1>2
  <2> QED
    BY <2>1, <2>2
<1>8. \A i \in 1 .. p : par[i] = ParityBits(x)[i]
  <2>1. TAKE i \in 1 .. p
  <2>2. 1 + w + i \in 1 .. Wanted
    BY <1>2
  <2>3. par[i] = FrameOf(x)[1 + w + i]
    BY <1>7, <2>2
  <2> QED
    BY <1>3, <2>3
<1>9. par = ParityBits(x)
  <2> DEFINE q == ParityBits(x)
  <2> HIDE DEF par, q, p
  <2>1. par \in Seq(Bit) /\ q \in Seq(Bit) /\ Len(par) = Len(q) /\ \A i \in 1 .. Len(par) : par[i] = q[i]
    BY <1>3, <1>7, <1>8 DEF q
  <2>2. par = q
    BY <2>1, SeqEqual, Zenon
  <2> QED
    BY <2>2 DEF q
<1> QED
  BY <1>3, <1>6, <1>9

\* What the design has of a frame, and has heard, is what was typed.
LEMMA InBytesStep ==
    ASSUME Agreed, SerialTypeOK, SerialTypeOK', InLine, InPlace, InBytes, NEW byte, InClock(byte)
    PROVE  InBytes'
<1> DEFINE t == Len(typed)
           o == Len(heard)
           good == lcr.format.parity \notin {"odd", "even"}
           is(i) == [byte |-> typed[i], ok |-> good]
<1>1. /\ typed \in Seq(Byte) /\ uart_rx \in Bit /\ m_tx_baudcounter \in Int
      /\ dev_rx \in Seq(Bit) /\ dev_wait \in Nat /\ heard \in Seq(Heard)
      /\ lcr \in [dlab : BOOLEAN, format : Format] /\ m_tx_state \in {"TXIDLE", "TXDATA"}
  BY DEF SerialTypeOK, UartTypeOK
<1>2. /\ Bits \in Nat /\ B \in Nat /\ 3 <= B /\ Half \in Nat /\ Half + 2 <= B
      /\ Wanted \in Nat /\ Wanted < Bits
  BY <1>1, FrameNumbers
<1>3. t \in Nat /\ o \in Nat /\ Got \in Nat
  BY <1>1 DEF Got
<1>4. t <= Len(typed') /\ \A i \in 1 .. t : typed'[i] = typed[i]
  BY TypedStays
<1>5. /\ \A i \in 1 .. o : heard[i] = is(i)
      /\ dev_wait > 0 => \A i \in 1 .. Got : dev_rx[i] = FrameOf(typed[o + 1])[i]
  BY DEF InBytes
<1>6. o <= t /\ (dev_wait > 0 => o + 1 = t /\ m_tx_state = "TXDATA")
  BY <1>1, <1>3 DEF InPlace
<1>7. lcr' = lcr /\ \A i \in 1 .. t : FrameOf(typed[i])' = FrameOf(typed[i])
  BY <1>4 DEF InClock, FrameOf, ParityBits
<1>8. ASSUME heard' = heard
      PROVE  \A i \in 1 .. Len(heard') : heard'[i] = [byte |-> typed'[i], ok |-> lcr'.format.parity \notin {"odd", "even"}]
  BY <1>3, <1>4, <1>5, <1>6, <1>7, <1>8
<1>9. CASE HearIdles
  <2>1. heard' = heard /\ dev_rx' = <<>>
    BY <1>9 DEF HearIdles
  <2>2. \A i \in 1 .. Len(dev_rx') : FALSE
    BY <2>1
  <2> QED
    BY <1>8, <2>1, <2>2 DEF InBytes, Got
<1>10. CASE HearWaits
  <2>1. dev_wait > 0 /\ dev_rx' = dev_rx /\ heard' = heard
    BY <1>1, <1>10 DEF HearWaits
  <2>2. FrameOf(typed[o + 1])' = FrameOf(typed[o + 1])
    BY <1>3, <1>6, <1>7, <2>1
  <2> QED
    BY <1>5, <1>8, <2>1, <2>2 DEF InBytes, Got
<1>11. CASE HearSamples
  <2>1. dev_wait = 1 /\ dev_rx' = Append(dev_rx, uart_rx) /\ heard' = heard
    BY <1>11 DEF HearSamples
  <2>2. o + 1 = t /\ m_tx_state = "TXDATA"
    BY <1>6, <2>1
  <2>3. m_tx_baudcounter \in 0 .. B - 1 /\ uart_rx = FrameOf(typed[o + 1])[InBit + 1]
    BY <2>2, InLevel
  <2>4. InBit = Got
    <3>1. ~(dev_wait = B + Half - InTime + 1)
      BY <1>2, <2>1, <2>3 DEF InTime
    <3> QED
      BY <2>1, <3>1 DEF InPlace
  <2>5. /\ Len(dev_rx') = Got + 1 /\ dev_rx'[Got + 1] = uart_rx
        /\ \A i \in 1 .. Got : dev_rx'[i] = dev_rx[i]
    <3>1. /\ Len(dev_rx') = Len(dev_rx) + 1 /\ dev_rx'[Len(dev_rx) + 1] = uart_rx
          /\ \A i \in 1 .. Len(dev_rx) : dev_rx'[i] = dev_rx[i]
      BY <1>1, <2>1
    <3> QED
      BY <3>1 DEF Got
  <2>6. FrameOf(typed[o + 1])' = FrameOf(typed[o + 1])
    BY <1>3, <1>7, <2>1, <2>2
  <2>7. \A i \in 1 .. Len(dev_rx') : dev_rx'[i] = FrameOf(typed[o + 1])[i]
    <3>1. TAKE i \in 1 .. Len(dev_rx')
    <3>2. CASE i = Got + 1
      BY <2>3, <2>4, <2>5, <3>2
    <3>3. CASE i # Got + 1
      <4>1. i \in 1 .. Got
        BY <1>3, <2>5, <3>3
      <4> QED
        BY <1>5, <2>1, <2>5, <4>1
    <3> QED
      BY <3>2, <3>3
  <2> QED
    BY <1>8, <2>1, <2>6, <2>7 DEF InBytes, Got
<1>12. CASE HearEnds
  <2> DEFINE x == typed[o + 1]
             y == SubSeq(dev_rx, 2, ByteWidth + 1)
             stop == uart_rx = 1
             par == SubSeq(dev_rx, ByteWidth + 2, Wanted) = DevParity(y)
  <2>1. /\ dev_wait = 1 /\ Got = Wanted /\ dev_wait' = 0
        /\ heard' = Append(heard, [byte |-> y, ok |-> stop /\ par])
    BY <1>12 DEF HearEnds, Got
  <2>2. o + 1 = t /\ m_tx_state = "TXDATA" /\ x \in Byte
    BY <1>1, <1>3, <1>6, <2>1
  <2>3. m_tx_baudcounter \in 0 .. B - 1 /\ uart_rx = FrameOf(x)[InBit + 1]
    BY <2>2, InLevel
  <2>4. InBit = Wanted
    <3>1. ~(dev_wait = B + Half - InTime + 1)
      BY <1>2, <2>1, <2>3 DEF InTime
    <3> QED
      BY <2>1, <3>1 DEF InPlace
  <2>5. stop
    <3>1. \A i \in Wanted + 1 .. Bits : FrameOf(x)[i] = 1
      BY <1>1, <2>2, FramesAreKnown DEF FrameOfParts
    <3>2. Wanted + 1 \in Wanted + 1 .. Bits
      BY <1>2
    <3> QED
      BY <2>3, <2>4, <3>1, <3>2
  <2>6. y = x /\ (par <=> good)
    <3>1. Len(dev_rx) = Wanted /\ \A i \in 1 .. Wanted : dev_rx[i] = FrameOf(x)[i]
      BY <1>5, <2>1 DEF Got
    <3> HIDE DEF x
    <3>2. /\ y = x
          /\ (SubSeq(dev_rx, ByteWidth + 2, Wanted) = DevParity(x)) <=> good
      BY <1>1, <2>2, <3>1, FrameHeard
    <3> QED
      BY <3>2
  <2> HIDE DEF y, stop, par
  <2>7. heard' = Append(heard, is(o + 1))
    <3>1. (stop /\ par) = good
      BY <2>5, <2>6 DEF stop, par
    <3> QED
      BY <2>1, <2>6, <3>1
  <2>8. is(o + 1) \in Heard
    BY <2>2 DEF Heard
  <2> HIDE DEF is, x, good
  <2>9. /\ Len(heard') = o + 1 /\ heard'[o + 1] = is(o + 1)
        /\ \A i \in 1 .. o : heard'[i] = heard[i]
    BY <1>1, <2>7, <2>8
  <2>10. \A i \in 1 .. Len(heard') : heard'[i] = is(i)
    BY <1>3, <1>5, <2>9
  <2>11. \A i \in 1 .. Len(heard') : heard'[i] = [byte |-> typed'[i], ok |-> lcr'.format.parity \notin {"odd", "even"}]
    <3>1. TAKE i \in 1 .. Len(heard')
    <3>2. typed'[i] = typed[i]
      BY <1>3, <1>4, <2>2, <2>9
    <3> QED
      BY <1>7, <2>10, <3>2 DEF is, good
  <2> QED
    BY <2>1, <2>11 DEF InBytes
<1> QED
  BY <1>9, <1>10, <1>11, <1>12, HearCases

\* A clock keeps the line to the design.
LEMMA LineInStep ==
    ASSUME Agreed, SerialTypeOK, SerialTypeOK', InInv, NEW byte, InClock(byte)
    PROVE  InInv'
<1>1. InLine /\ InPlace /\ InBytes
  BY DEF InInv
<1>2. InLine'
  BY <1>1, InLineStep
<1>3. InPlace'
  BY <1>1, InPlaceStep
<1>4. InBytes'
  BY <1>1, InBytesStep
<1> QED
  BY <1>2, <1>3, <1>4 DEF InInv


----------------------------------------------------------------------------
\* The bytes of a clock: the design is given one only where its frame ends,
\* the user types only when the software has set the UART up.
Given(b, byte) ==
    /\ Starts(b) => Serving /\ DevFree /\ b.byte \in Byte
    /\ byte # <<>> => Serving /\ byte \in Byte

LEMMA BytesGiven ==
    ASSUME NEW b, NEW byte, Silent(b, byte) \/ Sends(b, byte) \/ Types(b, byte)
    PROVE  Given(b, byte)
BY DEF Silent, Sends, Types, Given, Starts

\* The UART is not set up a second time.
LEMMA SetupStays ==
    ASSUME SetupIInv, NEW b, NEW byte, LineClock(b, byte), Serving,
           Silent(b, byte) \/ Sends(b, byte) \/ Types(b, byte)
    PROVE  UNCHANGED <<lcr, dl, m_setup, uart_config>> /\ Serving'
<1>1. ~lcr.dlab /\ uart_div_set = lcr.dlab /\ Serves
  BY DEF SetupIInv, Serving, Configured
<1>2. DevRegisters(b) /\ Reconfigure(b) /\ program' = program
  BY DEF LineClock, BusClock
<1>3. ~b.on \/ (b.on /\ b.addr = 0)
  BY DEF Silent, Sends, Types, Serving
<1>4. lcr' = lcr /\ dl' = dl
  BY <1>1, <1>2, <1>3 DEF DevRegisters
<1>5. m_setup' = m_setup /\ uart_config' = uart_config
  <2>1. CASE ~b.on
    BY <1>2, <2>1 DEF Reconfigure, capture
  <2>2. CASE b.on /\ b.addr = 0
    BY <1>1, <1>2, <2>2 DEF Reconfigure, Latch, LineControl
  <2> QED
    BY <1>3, <2>1, <2>2
<1>6. Serving'
  BY <1>2, <1>4 DEF Serving, Serves, Configured, DevBaud
<1> QED
  BY <1>4, <1>5, <1>6

\* The programs that use the lines write no other latch than the first.
LEMMA RatesStep ==
    ASSUME SetupIInv, NEW b, NEW byte, LineClock(b, byte), Serves => Rates,
           Silent(b, byte) \/ Sends(b, byte) \/ Types(b, byte)
    PROVE  Serves' => Rates'
<1> SUFFICES ASSUME Serves' PROVE Rates'
  OBVIOUS
<1>1. Serves /\ Rates
  BY DEF LineClock, Serves
<1>2. CASE dl' = dl
  BY <1>1, <1>2 DEF Rates
<1>3. CASE dl' # dl
  <2>1. dl' = [dl EXCEPT ![b.addr] = b.data] /\ b.on /\ b.addr # 3
    BY <1>3 DEF LineClock, BusClock, DevRegisters
  <2>2. Silent(b, byte)
    BY <1>3, SetupStays DEF Sends, Types
  <2>3. b.addr = 0 /\ \E w \in Latches : b.data = w[2]
    BY <1>1, <2>1, <2>2 DEF Silent
  <2>4. dl \in [0 .. 2 -> 0 .. 255]
    BY DEF SetupIInv
  <2>5. dl'[0] = b.data /\ dl'[1] = dl[1] /\ dl'[2] = dl[2]
    BY <2>1, <2>3, <2>4
  <2> QED
    BY <1>1, <2>3, <2>5 DEF Rates
<1> QED
  BY <1>2, <1>3

----------------------------------------------------------------------------
\* Where nothing is sent the lines stay high.
LEMMA RestStays ==
    ASSUME AtRest, NEW b, NEW byte, LineClock(b, byte), Given(b, byte), ~Serving
    PROVE  AtRest' /\ OutInv' /\ InInv'
<1>1. /\ dev_tx = <<>> /\ sent = <<>> /\ m_rx_state = "RXIDLE" /\ uart_out = <<>>
      /\ m_tx_state = "TXIDLE" /\ uart_rx = 1 /\ typed = <<>>
      /\ dev_rx = <<>> /\ dev_wait = 0 /\ heard = <<>>
  BY DEF AtRest
<1>2. ~Starts(b) /\ byte = <<>> /\ DevLine = 1
  BY <1>1 DEF Given, DevLine
<1>3. dev_tx' = <<>> /\ sent' = <<>>
  BY <1>1, <1>2 DEF LineClock, DevTransmit, Starts
<1>4. m_rx_state' = "RXIDLE" /\ uart_out' = <<>> /\ m_last_tx' = 1
  BY <1>1, <1>2 DEF LineClock, UartReceive
<1>5. m_tx_state' = "TXIDLE" /\ uart_rx' = 1 /\ typed' = <<>>
  BY <1>1, <1>2 DEF LineClock, UartSend
<1>6. dev_rx' = <<>> /\ dev_wait' = 0 /\ heard' = <<>>
  BY <1>1 DEF LineClock, DevReceive
<1>7. OutInv'
  BY <1>3, <1>4 DEF OutInv, OutLine, OutPlace, OutBytes
<1>8. InInv'
  BY <1>5, <1>6 DEF InInv, InLine, InPlace, InBytes
<1> QED
  BY <1>3, <1>4, <1>5, <1>6, <1>7, <1>8 DEF AtRest

----------------------------------------------------------------------------
\* The set-up of the terminal is one.
LEMMA ConfigType ==
    ASSUME SetupIInv, SetupIInv', SerialTypeOK, NEW b, NEW byte, LineClock(b, byte)
    PROVE  uart_config'.baud \in Nat /\ m_setup' \in Setup
<1>1. uart_config'.baud \in Nat
  <2>1. CASE uart_config' = uart_config
    BY <2>1 DEF SerialTypeOK
  <2>2. CASE uart_config' # uart_config
    <3>1. LineControl(b)
      BY <2>2 DEF LineClock, BusClock, Reconfigure, Latch, capture
    <3> DEFINE closes == uart_div_set /\ ~b.dlab
               product == Divisor(div_val) * Oversampling
               baud == IF closes /\ div_reinit THEN product % BaudRange ELSE uart_config.baud
    <3>2. product \in Int
      <4>1. Divisor(div_val) \in Int
        <5>1. div_val \in [0 .. 2 -> 0 .. 255]
          BY DEF SetupIInv
        <5>2. div_val[0] \in Int /\ div_val[1] \in Int /\ div_val[2] \in Int
          BY <5>1
        <5> QED
          BY <5>2 DEF Divisor
      <4>2. Oversampling \in Int
        <5>1. Oversampling \in 3 .. 256
          BY TestbenchAssumption
        <5> QED
          BY <5>1
      <4> QED
        BY <4>1, <4>2
    <3>3. uart_config' = SetupOf(baud, b.format)
      BY <3>1 DEF LineControl
    <3> HIDE DEF product
    <3>4. product % BaudRange \in Nat
      BY <3>2 DEF BaudRange
    <3>5. uart_config.baud \in Nat
      BY DEF SerialTypeOK
    <3>6. baud \in Nat
      BY <3>4, <3>5
    <3> HIDE DEF baud
    <3> QED
      BY <3>3, <3>6 DEF SetupOf
  <2> QED
    BY <2>1, <2>2
<1>2. m_setup' = SetupOf(uart_config'.baud, lcr'.format) /\ lcr' \in [dlab : BOOLEAN, format : Format]
  BY DEF SetupIInv
<1>3. lcr'.format.stop \in {1, 2}
  BY <1>2 DEF Format
<1> QED
  BY <1>1, <1>2, <1>3 DEF SetupOf, Setup, Bit

\* Both ends keep to the types of their lines.
LEMMA DevBaudType == SetupIInv => DevBaud \in Nat
<1> SUFFICES ASSUME SetupIInv PROVE DevBaud \in Nat
  OBVIOUS
<1>1. dl[0] \in Nat /\ dl[1] \in Nat
  BY DEF SetupIInv
<1>2. \A m, n \in Nat : m * n \in Nat
  OBVIOUS
<1>3. dl[0] + dl[1] * 256 \in Nat /\ Oversampling \in Nat
  <2>1. Oversampling \in 3 .. 256
    BY TestbenchAssumption
  <2> QED
    BY <1>1, <2>1
<1> QED
  BY <1>2, <1>3 DEF DevBaud

LEMMA TransmitTypes ==
    ASSUME SetupIInv, SerialTypeOK, NEW b, NEW byte, LineClock(b, byte), Given(b, byte),
           ~Serving => AtRest
    PROVE  dev_tx' \in Seq(Bit) /\ dev_count' \in Nat /\ sent' \in Seq(Byte)
<1>1. /\ dev_tx \in Seq(Bit) /\ dev_count \in Nat /\ sent \in Seq(Byte)
      /\ lcr \in [dlab : BOOLEAN, format : Format]
  BY DEF SerialTypeOK
<1>2. Serving => DevBaud - 1 \in Nat
  BY DevBaudType DEF Serving, Configured
<1>3. CASE Starts(b)
  <2>1. Serving /\ b.byte \in Byte
    BY <1>3 DEF Given
  <2>2. dev_tx' = DevFrame(b.byte) /\ dev_count' = DevBaud - 1 /\ sent' = Append(sent, b.byte)
    BY <1>3 DEF LineClock, DevTransmit, Starts
  <2>3. DevFrame(b.byte) \in Seq(Bit)
    <3>1. m_setup = SetupOf(B, lcr.format)
      BY DEF SetupIInv, SetupOf, B
    <3> QED
      BY <1>1, <2>1, <3>1, BothFrames
  <2> QED
    BY <1>1, <1>2, <2>1, <2>2, <2>3
<1>4. CASE ~Starts(b)
  <2>1. /\ sent' = sent
        /\ dev_tx' = IF dev_tx = <<>> \/ dev_count > 0 THEN dev_tx ELSE Tail(dev_tx)
        /\ dev_count' = IF dev_tx = <<>> THEN 0 ELSE IF dev_count > 0 THEN dev_count - 1
                         ELSE IF Len(dev_tx) = 1 THEN 0 ELSE DevBaud - 1
    BY <1>4 DEF LineClock, DevTransmit, Starts
  <2>2. dev_tx # <<>> => Serving
    BY DEF AtRest
  <2>3. dev_tx # <<>> => Tail(dev_tx) \in Seq(Bit)
    BY <1>1
  <2>4. dev_count > 0 => dev_count - 1 \in Nat
    BY <1>1
  <2> HIDE DEF Serving
  <2> QED
    BY <1>1, <1>2, <2>1, <2>2, <2>3, <2>4
<1> QED
  BY <1>3, <1>4

LEMMA ReceiveTypes ==
    ASSUME SerialTypeOK, NEW b, NEW byte, LineClock(b, byte)
    PROVE  /\ m_rx_state' \in {"RXIDLE", "RXDATA"} /\ m_rx_baudcounter' \in Int
           /\ m_rx_data' \in Seq(Bit) /\ m_rx_changectr' \in 0 .. ChangeMax /\ m_last_tx' \in Bit
           /\ uart_out' \in Seq(Byte)
<1>1. /\ dev_tx \in Seq(Bit) /\ m_setup \in Setup
      /\ m_rx_state \in {"RXIDLE", "RXDATA"} /\ m_rx_baudcounter \in Int /\ m_rx_data \in Seq(Bit)
      /\ m_rx_changectr \in 0 .. ChangeMax /\ uart_out \in Seq(Byte)
  BY DEF SerialTypeOK, UartTypeOK
<1>2. ChangeMax \in Nat /\ ByteWidth \in Nat
  BY UartAssumption
<1>3. DevLine \in Bit
  <2>1. dev_tx # <<>> => Head(dev_tx) \in Bit
    BY <1>1
  <2> QED
    BY <2>1 DEF DevLine, Bit
<1>4. UartReceive(DevLine)
  BY DEF LineClock
<1>5. m_rx_changectr' \in 0 .. ChangeMax /\ m_last_tx' \in Bit
  <2>1. /\ m_last_tx' = DevLine
        /\ m_rx_changectr' = IF DevLine = 0 /\ m_last_tx = 1 THEN 0
                             ELSE IF m_rx_changectr < ChangeMax THEN m_rx_changectr + 1 ELSE ChangeMax
    BY <1>4 DEF UartReceive
  <2> QED
    BY <1>1, <1>2, <1>3, <2>1
<1>6. m_setup.baud \in Nat /\ m_setup.baud \div 2 \in Int /\ FrameBits \in Nat /\ FrameBits >= ByteWidth
  BY <1>1, <1>2 DEF Setup, FrameBits, Bit
<1> DEFINE x == SubSeq(m_rx_data, 1, ByteWidth)
<1>7. CASE RxShows
  <2>1. ByteWidth <= Len(m_rx_data)
    BY <1>1, <1>2, <1>6, <1>7 DEF RxShows
  <2>2. x \in Seq(Bit) /\ Len(x) = ByteWidth
    BY <1>1, <1>2, <2>1, SubSeqProperties
  <2>3. x \in Byte
    BY <2>2, SeqOfByte
  <2> HIDE DEF x
  <2>4. uart_out' = Append(uart_out, x) /\ m_rx_state' = "RXIDLE" /\ m_rx_state = "RXDATA" /\ m_rx_baudcounter <= 0
    BY <1>7 DEF RxShows, x
  <2>5. m_rx_data' = m_rx_data /\ m_rx_baudcounter' = m_setup.baud - 1
    BY <1>1, <1>4, <1>7, <2>4 DEF UartReceive, RxShows
  <2> QED
    BY <1>1, <1>5, <1>6, <2>3, <2>4, <2>5
<1>8. CASE RxSamples
  <2>1. /\ m_rx_state' = "RXDATA" /\ uart_out' = uart_out /\ m_rx_baudcounter' = m_setup.baud - 1
        /\ m_rx_data' = Append(m_rx_data, DevLine)
    BY <1>8 DEF RxSamples, B
  <2> QED
    BY <1>1, <1>3, <1>5, <1>6, <2>1
<1>9. CASE RxIdles
  BY <1>1, <1>4, <1>5, <1>9 DEF RxIdles, UartReceive
<1>10. CASE RxBegins
  <2>1. m_rx_baudcounter' = B + Half - 1 - m_rx_changectr' /\ m_rx_data' = <<>> /\ uart_out' = uart_out /\ m_rx_state' = "RXDATA"
    BY <1>10 DEF RxBegins
  <2>2. m_rx_baudcounter' \in Int
    BY <1>2, <1>5, <1>6, <2>1 DEF B, Half
  <2> QED
    BY <1>1, <1>5, <2>1, <2>2
<1>11. CASE RxCounts
  BY <1>1, <1>5, <1>11 DEF RxCounts
<1> QED
  BY <1>4, <1>7, <1>8, <1>9, <1>10, <1>11
     DEF UartReceive, RxStart, Sampled, B, Half, RxIdles, RxBegins, RxCounts, RxShows, RxSamples

LEMMA SendTypes ==
    ASSUME SetupIInv, SerialTypeOK, NEW b, NEW byte, LineClock(b, byte), Given(b, byte)
    PROVE  /\ m_tx_state' \in {"TXIDLE", "TXDATA"} /\ m_tx_baudcounter' \in Int
           /\ m_tx_data' \in Seq(Bit) /\ uart_rx' \in Bit /\ typed' \in Seq(Byte)
           /\ m_tx_state' = "TXDATA" => m_tx_data' # <<>>
<1>1. /\ m_tx_state \in {"TXIDLE", "TXDATA"} /\ m_tx_baudcounter \in Int /\ m_tx_data \in Seq(Bit)
      /\ typed \in Seq(Byte) /\ m_setup.baud \in Nat /\ (m_tx_state = "TXDATA" => m_tx_data # <<>>)
      /\ lcr \in [dlab : BOOLEAN, format : Format]
  BY DEF SerialTypeOK, UartTypeOK, Setup
<1>2. UartSend(byte)
  BY DEF LineClock
<1>3. CASE m_tx_state = "TXIDLE" /\ byte = <<>>
  BY <1>1, <1>2, <1>3 DEF UartSend, Bit
<1>4. CASE m_tx_state = "TXIDLE" /\ byte # <<>>
  <2>1. /\ typed' = Append(typed, byte) /\ m_tx_state' = "TXDATA" /\ m_tx_data' = FrameOf(byte)
        /\ m_tx_baudcounter' = m_setup.baud - 1 /\ uart_rx' = 0
    BY <1>2, <1>4 DEF UartSend
  <2>2. byte \in Byte
    BY <1>4 DEF Given
  <2>3. FrameOf(byte) \in Seq(Bit) /\ FrameOf(byte) # <<>>
    <3>1. m_setup = SetupOf(B, lcr.format)
      BY DEF SetupIInv, SetupOf, B
    <3>2. FrameOf(byte) \in Seq(Bit) /\ Len(FrameOf(byte)) = Bits
      BY <1>1, <2>2, <3>1, BothFrames
    <3>3. Bits # 0
      <4>1. m_setup.nparity \in Nat /\ m_setup.nstop \in Nat /\ ByteWidth \in Nat
        BY UartAssumption DEF SerialTypeOK, UartTypeOK, Setup, Bit
      <4> QED
        BY <4>1 DEF Bits, FrameBits
    <3> QED
      BY <3>2, <3>3
  <2> QED
    BY <1>1, <2>1, <2>2, <2>3 DEF Bit
<1>5. CASE m_tx_state = "TXDATA" /\ m_tx_baudcounter > 0
  <2>1. /\ m_tx_baudcounter' = m_tx_baudcounter - 1 /\ uart_rx' = Head(m_tx_data)
        /\ UNCHANGED <<m_tx_state, m_tx_data, typed>>
    BY <1>1, <1>2, <1>5 DEF UartSend
  <2>2. m_tx_data # <<>>
    BY <1>1, <1>5
  <2>3. Head(m_tx_data) \in Bit
    BY <1>1, <2>2
  <2> QED
    BY <1>1, <1>5, <2>1, <2>3
<1>6. CASE m_tx_state = "TXDATA" /\ ~(m_tx_baudcounter > 0)
  <2>1. /\ m_tx_data' = Tail(m_tx_data) /\ typed' = typed
        /\ IF Len(m_tx_data) = 1
           THEN m_tx_state' = "TXIDLE" /\ uart_rx' = 1 /\ m_tx_baudcounter' = m_tx_baudcounter
           ELSE /\ m_tx_baudcounter' = m_setup.baud - 1 /\ uart_rx' = m_tx_data[2]
                /\ m_tx_state' = m_tx_state
    BY <1>1, <1>2, <1>6 DEF UartSend
  <2>2. m_tx_data # <<>> /\ Len(m_tx_data) \in Nat /\ Len(m_tx_data) >= 1
    BY <1>1, <1>6
  <2>3. m_tx_data' \in Seq(Bit) /\ Len(m_tx_data') = Len(m_tx_data) - 1
    BY <1>1, <2>1, <2>2
  <2>4. CASE Len(m_tx_data) = 1
    BY <1>1, <2>1, <2>3, <2>4 DEF Bit
  <2>5. CASE Len(m_tx_data) # 1
    <3>1. 2 \in 1 .. Len(m_tx_data)
      <4>1. \A n \in Nat : n >= 1 /\ n # 1 => 2 \in 1 .. n
        OBVIOUS
      <4> QED
        BY <2>2, <2>5, <4>1
    <3>2. m_tx_data[2] \in Bit
      BY <1>1, <3>1
    <3>3. m_tx_data' # <<>>
      BY <2>2, <2>3, <2>5
    <3> QED
      BY <1>1, <1>6, <2>1, <2>3, <2>5, <3>2, <3>3
  <2> QED
    BY <2>4, <2>5
<1> QED
  BY <1>1, <1>3, <1>4, <1>5, <1>6

LEMMA HearTypes ==
    ASSUME SetupIInv, SerialTypeOK, NEW b, NEW byte, LineClock(b, byte)
    PROVE  dev_rx' \in Seq(Bit) /\ dev_wait' \in Nat /\ heard' \in Seq(Heard)
<1>1. /\ dev_rx \in Seq(Bit) /\ dev_wait \in Nat /\ heard \in Seq(Heard) /\ uart_rx \in Bit
  BY DEF SerialTypeOK, UartTypeOK
<1>2. DevBaud \in Nat /\ DevBaud \div 2 \in Nat
  BY DevBaudType
<1> DEFINE bits == ByteWidth + (IF lcr.format.parity = "none" THEN 0 ELSE 1)
           y == SubSeq(dev_rx, 2, ByteWidth + 1)
           par == SubSeq(dev_rx, ByteWidth + 2, bits + 1) = DevParity(y)
<1>3. CASE dev_rx = <<>> /\ dev_wait = 0
  BY <1>1, <1>2, <1>3 DEF LineClock, DevReceive
<1>4. CASE dev_wait > 1
  BY <1>1, <1>4 DEF LineClock, DevReceive
<1>5. CASE dev_wait = 1 /\ Len(dev_rx) = bits + 1
  <2>1. bits \in Nat /\ ByteWidth \in Nat /\ ByteWidth <= bits
    BY UartAssumption
  <2>2. y \in Seq(Bit) /\ Len(y) = ByteWidth
    BY <1>1, <1>5, <2>1, SubSeqProperties
  <2>3. y \in Byte
    BY <2>2, SeqOfByte
  <2>4. heard' = Append(heard, [byte |-> y, ok |-> uart_rx = 1 /\ par]) /\ dev_rx' = <<>> /\ dev_wait' = 0
    BY <1>5 DEF LineClock, DevReceive
  <2> HIDE DEF y, par
  <2>5. [byte |-> y, ok |-> uart_rx = 1 /\ par] \in Heard
    BY <2>3 DEF Heard
  <2> QED
    BY <1>1, <2>4, <2>5
<1>6. CASE dev_wait = 1 /\ Len(dev_rx) # bits + 1
  <2>1. dev_rx' = Append(dev_rx, uart_rx) /\ dev_wait' = DevBaud /\ heard' = heard
    BY <1>6 DEF LineClock, DevReceive
  <2> QED
    BY <1>1, <1>2, <2>1
<1> QED
  BY <1>3, <1>4, <1>5, <1>6 DEF LineClock, DevReceive

LEMMA SerialTypeStep ==
    ASSUME SetupIInv, SetupIInv', SerialTypeOK, NEW b, NEW byte, LineClock(b, byte), Given(b, byte),
           ~Serving => AtRest
    PROVE  SerialTypeOK'
<1>1. lcr' \in [dlab : BOOLEAN, format : Format] /\ dl' \in [0 .. 2 -> 0 .. 255]
  BY DEF SetupIInv
<1>2. uart_config'.baud \in Nat /\ m_setup' \in Setup
  BY ConfigType
<1>3. /\ dev_tx' \in Seq(Bit) /\ dev_count' \in Nat /\ sent' \in Seq(Byte)
      /\ m_rx_state' \in {"RXIDLE", "RXDATA"} /\ m_rx_baudcounter' \in Int
      /\ m_rx_data' \in Seq(Bit) /\ m_rx_changectr' \in 0 .. ChangeMax /\ m_last_tx' \in Bit
      /\ uart_out' \in Seq(Byte)
  BY TransmitTypes, ReceiveTypes
<1>4. /\ m_tx_state' \in {"TXIDLE", "TXDATA"} /\ m_tx_baudcounter' \in Int
      /\ m_tx_data' \in Seq(Bit) /\ uart_rx' \in Bit /\ typed' \in Seq(Byte)
      /\ m_tx_state' = "TXDATA" => m_tx_data' # <<>>
  BY SendTypes
<1>5. dev_rx' \in Seq(Bit) /\ dev_wait' \in Nat /\ heard' \in Seq(Heard)
  BY HearTypes
<1> QED
  BY <1>1, <1>2, <1>3, <1>4, <1>5 DEF SerialTypeOK, UartTypeOK

----------------------------------------------------------------------------
\* The invariant of the lines holds at the beginning, in every clock, and in
\* the steps that are none.
LEMMA LinesInit == Init => LinesIInv
<1> SUFFICES ASSUME Init PROVE LinesIInv
  OBVIOUS
<1>1. /\ m_setup = FirstSetup /\ uart_config = FirstSetup /\ dl = Zeros3
      /\ lcr = [dlab |-> FALSE, format |-> PlainFormat]
  BY DEF Init, UartInit, CaptureInit, DesignInit, Zeros3
<1>2. /\ m_rx_state = "RXIDLE" /\ m_rx_baudcounter = 0 /\ m_rx_data = <<>>
      /\ m_rx_changectr = ChangeMax /\ m_last_tx \in Bit
      /\ m_tx_state = "TXIDLE" /\ m_tx_baudcounter = 0 /\ m_tx_data = <<>>
      /\ uart_rx = 1 /\ uart_out = <<>> /\ typed = <<>>
  BY DEF Init, UartInit
<1>3. /\ dev_tx = <<>> /\ dev_count = 0 /\ sent = <<>>
      /\ dev_rx = <<>> /\ dev_wait = 0 /\ heard = <<>>
  BY DEF Init, DesignInit
<1>4. Oversampling \in Nat /\ ChangeMax \in Nat
  <2>1. Oversampling \in 3 .. 256
    BY TestbenchAssumption
  <2> QED
    BY <2>1, UartAssumption
<1>5. dl[0] = 0 /\ dl[1] = 0 /\ dl[2] = 0 /\ dl \in [0 .. 2 -> 0 .. 255]
  BY <1>1 DEF Zeros3
<1>6. ~Serving
  BY <1>4, <1>5 DEF Serving, Configured, DevBaud
<1>7. AtRest
  BY <1>1, <1>2, <1>3 DEF AtRest
<1>8. Rates
  BY <1>5 DEF Rates
<1>9. SerialTypeOK
  <2>1. m_setup \in Setup /\ uart_config.baud \in Nat
    BY <1>1, <1>4 DEF FirstSetup, Setup, Bit
  <2>2. lcr \in [dlab : BOOLEAN, format : Format]
    BY <1>1 DEF PlainFormat, Format
  <2> QED
    BY <1>2, <1>3, <1>4, <1>5, <2>1, <2>2 DEF SerialTypeOK, UartTypeOK, Bit
<1> QED
  BY <1>6, <1>7, <1>8, <1>9 DEF LinesIInv

LEMMA LinesClock ==
    ASSUME SetupIInv, SetupIInv', LinesIInv, NEW b, NEW byte, LineClock(b, byte),
           Silent(b, byte) \/ Sends(b, byte) \/ Types(b, byte)
    PROVE  LinesIInv'
<1>1. SerialTypeOK /\ (Serves => Rates) /\ (~Serving => AtRest) /\ (Serving => OutInv /\ InInv)
  BY DEF LinesIInv
<1>2. Given(b, byte)
  BY BytesGiven
<1>3. SerialTypeOK'
  BY <1>1, <1>2, SerialTypeStep
<1>4. Serves' => Rates'
  BY <1>1, RatesStep
<1>5. CASE Serving
  <2>1. UNCHANGED <<lcr, dl, m_setup>> /\ Serving'
    BY <1>5, SetupStays
  <2>2. Agreed
    BY <1>1, <1>5, AgreedHolds DEF Serving
  <2>3. OutClock(b) /\ InClock(byte)
    BY <1>2, <2>1 DEF LineClock, OutClock, InClock, Given
  <2>4. OutInv'
    BY <1>1, <1>3, <1>5, <2>2, <2>3, LineOutStep
  <2>5. InInv'
    BY <1>1, <1>3, <1>5, <2>2, <2>3, LineInStep
  <2> QED
    BY <1>3, <1>4, <2>1, <2>4, <2>5 DEF LinesIInv
<1>6. CASE ~Serving
  <2>1. AtRest' /\ OutInv' /\ InInv'
    BY <1>1, <1>2, <1>6, RestStays
  <2> QED
    BY <1>3, <1>4, <2>1 DEF LinesIInv
<1> QED
  BY <1>5, <1>6

\* The rest of the loop does not touch the lines.
LEMMA LinesStay ==
    ASSUME LinesIInv, UNCHANGED <<uartVars, program, capture, design>>
    PROVE  LinesIInv'
<1>1. UNCHANGED <<m_setup, receiver, sender, program, uart_config, design>>
  BY DEF uartVars, capture
<1>2. SerialTypeOK'
  BY <1>1 DEF LinesIInv, SerialTypeOK, UartTypeOK, receiver, sender, design
<1>3. (Serving' <=> Serving) /\ (Serves' <=> Serves) /\ (Rates' <=> Rates)
  BY <1>1 DEF Serving, Serves, Configured, DevBaud, Rates, design
<1>4. AtRest => AtRest'
  BY <1>1 DEF AtRest, receiver, sender, design
<1>5. OutInv => OutInv'
  BY <1>1 DEF OutInv, OutLine, OutPlace, OutBytes, OutBit, OutTime, Samples, Bits, FrameBits, B, Half,
              DevFrame, DevParity, receiver, design
<1>6. InInv => InInv'
  BY <1>1 DEF InInv, InLine, InPlace, InBytes, InBit, InTime, Got, Wanted, Bits, FrameBits, B, Half,
              FrameOf, ParityBits, sender, design
<1> QED
  BY <1>2, <1>3, <1>4, <1>5, <1>6 DEF LinesIInv

LEMMA LinesStep == SetupIInv /\ LinesIInv /\ [Next]_vars => LinesIInv'
<1> SUFFICES ASSUME SetupIInv, LinesIInv, [Next]_vars PROVE LinesIInv'
  OBVIOUS
<1>1. CASE Step
  <2>1. SetupIInv'
    BY SetupStepIInv
  <2>2. PICK b, byte : LineClock(b, byte) /\ (Silent(b, byte) \/ Sends(b, byte) \/ Types(b, byte))
    BY <1>1, StepIsLineClock
  <2> QED
    BY <2>1, <2>2, LinesClock
<1>2. CASE LoadImage \/ Reset \/ Restart \/ UNCHANGED vars
  <2>1. UNCHANGED <<uartVars, program, capture, design>>
    BY <1>2 DEF LoadImage, Reset, Restart, vars
  <2> QED
    BY <2>1, LinesStay
<1> QED
  BY <1>1, <1>2 DEF Next

LEMMA LinesIInvHolds == Spec => []LinesIInv
BY LinesInit, LinesStep, SetupIInvHolds, PTL DEF Spec

\* What the invariant says of the numbers of the bytes.
LEMMA LinesCount ==
    LinesIInv => /\ NothingLost
                 /\ sent \in Seq(Byte) /\ uart_out \in Seq(Byte) /\ Len(uart_out) <= Len(sent)
                 /\ typed \in Seq(Byte) /\ heard \in Seq(Heard) /\ Len(heard) <= Len(typed)
                 /\ \A i \in 1 .. Len(uart_out) : uart_out[i] = sent[i]
                 /\ \A i \in 1 .. Len(heard) :
                       heard[i] = [byte |-> typed[i], ok |-> lcr.format.parity \notin {"odd", "even"}]
<1> SUFFICES ASSUME LinesIInv
    PROVE /\ NothingLost
          /\ sent \in Seq(Byte) /\ uart_out \in Seq(Byte) /\ Len(uart_out) <= Len(sent)
          /\ typed \in Seq(Byte) /\ heard \in Seq(Heard) /\ Len(heard) <= Len(typed)
          /\ \A i \in 1 .. Len(uart_out) : uart_out[i] = sent[i]
          /\ \A i \in 1 .. Len(heard) :
                heard[i] = [byte |-> typed[i], ok |-> lcr.format.parity \notin {"odd", "even"}]
  OBVIOUS
<1>1. /\ sent \in Seq(Byte) /\ uart_out \in Seq(Byte) /\ typed \in Seq(Byte) /\ heard \in Seq(Heard)
      /\ Len(sent) \in Nat /\ Len(uart_out) \in Nat /\ Len(typed) \in Nat /\ Len(heard) \in Nat
  BY DEF LinesIInv, SerialTypeOK, UartTypeOK
<1>2. CASE ~Serving
  <2>1. /\ sent = <<>> /\ uart_out = <<>> /\ typed = <<>> /\ heard = <<>>
    BY <1>2 DEF LinesIInv, AtRest
  <2>2. Len(sent) = 0 /\ Len(uart_out) = 0 /\ Len(typed) = 0 /\ Len(heard) = 0
    BY <2>1
  <2>3. 1 .. Len(uart_out) = {} /\ 1 .. Len(heard) = {}
    BY <2>2
  <2> QED
    BY <1>1, <2>2, <2>3 DEF NothingLost
<1>3. CASE Serving
  <2>1. OutPlace /\ OutBytes /\ InPlace /\ InBytes
    BY <1>3 DEF LinesIInv, OutInv, InInv
  <2>2. Len(uart_out) <= Len(sent) /\ (dev_tx = <<>> /\ m_rx_state = "RXIDLE" => Len(uart_out) = Len(sent))
    BY <1>1, <2>1 DEF OutPlace
  <2>3. Len(heard) <= Len(typed) /\ (m_tx_state = "TXIDLE" /\ dev_wait = 0 => Len(heard) = Len(typed))
    BY <1>1, <2>1 DEF InPlace
  <2> QED
    BY <1>1, <2>1, <2>2, <2>3 DEF NothingLost, OutBytes, InBytes
<1> QED
  BY <1>2, <1>3

\* A sequence that is at most as long as another and has its items is a prefix.
LEMMA PrefixByItems ==
    ASSUME NEW S, NEW s \in Seq(S), NEW t \in Seq(S), Len(s) <= Len(t), \A i \in 1 .. Len(s) : s[i] = t[i]
    PROVE  IsPrefix(s, t)
<1>1. Len(s) \in Nat /\ Len(t) \in Nat
  OBVIOUS
<1> DEFINE u == SubSeq(s, 1, Len(s))
           v == SubSeq(t, 1, Len(s))
<1>2. /\ u \in Seq(S) /\ Len(u) = Len(s) /\ \A i \in 1 .. Len(s) : u[i] = s[1 + i - 1]
      /\ v \in Seq(S) /\ Len(v) = Len(s) /\ \A i \in 1 .. Len(s) : v[i] = t[1 + i - 1]
  BY <1>1, SubSeqProperties
<1>3. \A i \in 1 .. Len(s) : 1 + i - 1 = i
  BY <1>1
<1>4. \A i \in 1 .. Len(u) : u[i] = v[i]
  BY <1>2, <1>3
<1> HIDE DEF u, v
<1>5. u = v
  BY <1>2, <1>4, SeqEqual, Zenon
<1> QED
  BY <1>1, <1>5 DEF IsPrefix, u, v

\* Between frames nothing of what was sent or typed is missing at the other
\* end, whatever bytes are sent at whatever distance.
THEOREM NothingIsLost == Spec => []NothingLost
BY LinesCount, LinesIInvHolds, PTL

\* Both ends get the bytes of the other one in order and unchanged.
THEOREM BytesAreIntact == Spec => []BytesIntact
<1>1. LinesIInv => BytesIntact
  <2> SUFFICES ASSUME LinesIInv PROVE BytesIntact
    OBVIOUS
  <2> DEFINE all == [i \in 1 .. Len(typed) |->
                       [byte |-> typed[i], ok |-> lcr.format.parity \notin {"odd", "even"}]]
  <2>1. IsPrefix(uart_out, sent)
    BY LinesCount, PrefixByItems
  <2>2. Len(typed) \in Nat /\ all \in Seq(Heard) /\ Len(all) = Len(typed)
    <3>1. Len(typed) \in Nat /\ \A i \in 1 .. Len(typed) : typed[i] \in Byte
      BY LinesCount
    <3>2. all \in [1 .. Len(typed) -> Heard]
      BY <3>1 DEF Heard
    <3>3. all \in Seq(Heard)
      BY <3>1, <3>2, SeqDef
    <3>4. DOMAIN all = 1 .. Len(typed)
      OBVIOUS
    <3> HIDE DEF all
    <3>5. DOMAIN all = 1 .. Len(all) /\ Len(all) \in Nat
      BY <3>3, LenProperties
    <3> QED
      BY <3>1, <3>3, <3>4, <3>5
  <2>3. ASSUME NEW i \in 1 .. Len(heard) PROVE heard[i] = all[i]
    <3>1. heard[i] = [byte |-> typed[i], ok |-> lcr.format.parity \notin {"odd", "even"}]
      BY LinesCount
    <3>2. Len(heard) <= Len(typed) /\ Len(heard) \in Nat
      BY LinesCount, LenProperties
    <3>3. i \in 1 .. Len(typed)
      BY <2>2, <3>2
    <3> QED
      BY <3>1, <3>3, Zenon
  <2> HIDE DEF all
  <2>4. IsPrefix(heard, all)
    BY <2>2, <2>3, LinesCount, PrefixByItems
  <2> QED
    BY <2>1, <2>4 DEF BytesIntact, all
<1> QED
  BY <1>1, LinesIInvHolds, PTL

----------------------------------------------------------------------------
\* The rest of the loop: the count of clocks without a write-back passes its
\* limit only in the clock that ends the simulation, and is not used by the
\* program whose simulations are started from a checkpoint.
LoopIInv ==
    /\ program \in Programs /\ phase \in {"load", "run", "over"}
    /\ emask \subseteq {"uart_exit", "time_limit", "trace"} /\ nStatus \in {0, 1} /\ asked \in BOOLEAN
    /\ last \in [wen : BOOLEAN, end_byte : BOOLEAN]
    /\ right_fir_reg \in BOOLEAN /\ right_sec_reg \in BOOLEAN /\ two_delay \in BOOLEAN
    /\ no_change_flag \in BOOLEAN /\ sim_over \in BOOLEAN
    /\ dead_clock \in 0 .. DeadLimit + 1
    /\ phase # "over" => dead_clock <= DeadLimit
    /\ program[1] = "memory" => dead_clock = 0

\* What a clock is for the rest of the loop.
LoopClock(p, wb, end_byte, late) ==
    /\ TraceClock(p, wb, end_byte, late)
    /\ nStatus' \in {0, 1} /\ asked' \in BOOLEAN
    /\ wb \in WriteBack /\ end_byte \in BOOLEAN
    /\ program[1] = "memory" => wb.wen

\* Every clock of the loop is one of what ends it.
LEMMA StepIsLoopClock == Step => \E p, wb, end_byte, late : LoopClock(p, wb, end_byte, late)
<1>1. ASSUME NEW save, NEW p, NEW b, NEW byte, NEW wb \in WriteBack, NEW end_byte \in BOOLEAN, NEW late,
             Clock(save, p, b, byte, wb, end_byte, late), program[1] = "memory" => wb.wen
      PROVE  LoopClock(p, wb, end_byte, late)
  <2>1. TraceClock(p, wb, end_byte, late)
    BY <1>1 DEF Clock, TraceClock, Recorded
  <2>2. nStatus' = IF emask' # {} /\ reg'[5] = 1 THEN 0 ELSE 1
    BY <1>1 DEF Clock
  <2>3. asked' = (asked \/ p.ren)
    BY <1>1 DEF Clock
  <2>4. \A x, y : (x \/ y) \in BOOLEAN
    OBVIOUS
  <2> QED
    BY <1>1, <2>1, <2>2, <2>3, <2>4 DEF LoopClock
<1>2. Alive \in WriteBack /\ Alive.wen = TRUE
  BY AliveType DEF Alive, NoWriteBack
<1>3. CASE Memory
  <2>1. PICK p, save : Clock(save, p, NoBusWrite, <<>>, Alive, FALSE, FALSE)
    BY <1>3 DEF Memory
  <2>2. LoopClock(p, Alive, FALSE, FALSE)
    BY <2>1, <1>1, <1>2
  <2> QED
    BY <2>2
<1>4. CASE Divisors \/ Serial
  <2>1. PICK b, byte : Clock(FALSE, NoAccess, b, byte, Alive, FALSE, FALSE)
    BY <1>4 DEF Divisors, Serial, Quiet
  <2>2. LoopClock(NoAccess, Alive, FALSE, FALSE)
    BY <2>1, <1>1, <1>2
  <2> QED
    BY <2>2
<1>5. CASE Trace
  <2>1. PICK wb \in Commits, end_byte \in BOOLEAN, late \in BOOLEAN :
           Clock(FALSE, NoAccess, NoBusWrite, <<>>, wb, end_byte, late)
    BY <1>5 DEF Trace
  <2>2. wb \in WriteBack /\ program[1] # "memory"
    BY <1>5, TestbenchAssumption DEF Trace
  <2>3. LoopClock(NoAccess, wb, end_byte, late)
    BY <2>1, <2>2, <1>1
  <2> QED
    BY <2>3
<1> QED
  BY <1>3, <1>4, <1>5 DEF Step

LEMMA LoopInit == Init => LoopIInv
<1> SUFFICES ASSUME Init PROVE LoopIInv
  OBVIOUS
<1>1. /\ program \in Programs /\ phase = "load" /\ emask = {} /\ nStatus = 1 /\ asked = FALSE
      /\ last = [wen |-> FALSE, end_byte |-> FALSE] /\ no_change_flag = FALSE /\ sim_over = FALSE
      /\ dead_clock = 0
  BY DEF Init, DesignInit, TraceInit
<1>2. right_fir_reg \in BOOLEAN /\ right_sec_reg \in BOOLEAN /\ two_delay \in BOOLEAN
  BY DEF Init, TraceInit, Pair
<1>3. dead_clock \in 0 .. DeadLimit + 1 /\ dead_clock <= DeadLimit
  BY <1>1, TraceAssumption
<1>4. last \in [wen : BOOLEAN, end_byte : BOOLEAN] /\ no_change_flag \in BOOLEAN /\ sim_over \in BOOLEAN
  BY <1>1
<1> QED
  BY <1>1, <1>2, <1>3, <1>4 DEF LoopIInv

LEMMA LoopStep == LoopIInv /\ [Next]_vars => LoopIInv'
<1> SUFFICES ASSUME LoopIInv, [Next]_vars PROVE LoopIInv'
  OBVIOUS
<1>0. DeadLimit \in Nat /\ \A x, y : (x \/ y) \in BOOLEAN /\ (x /\ y) \in BOOLEAN /\ (x = y) \in BOOLEAN
  BY TraceAssumption
<1>1. CASE Step
  <2>1. PICK p, wb, end_byte, late : LoopClock(p, wb, end_byte, late)
    BY <1>1, StepIsLoopClock
  <2> DEFINE causes == ram_status(p) \cup time_limit_status(late) \cup trace_status(wb, end_byte)
  <2>2. /\ phase = "run" /\ compare(wb, end_byte) /\ emask' = causes
        /\ phase' = IF causes # {} THEN "over" ELSE "run"
        /\ last' = [wen |-> wb.wen, end_byte |-> end_byte] /\ program' = program
    BY <2>1 DEF LoopClock, TraceClock
  <2>3. wb \in WriteBack /\ end_byte \in BOOLEAN /\ nStatus' \in {0, 1} /\ asked' \in BOOLEAN
    BY <2>1 DEF LoopClock
  <2>4. causes \subseteq {"uart_exit", "time_limit", "trace"}
    BY DEF ram_status, time_limit_status, trace_status
  <2>5. last' \in [wen : BOOLEAN, end_byte : BOOLEAN]
    BY <2>2, <2>3 DEF WriteBack
  <2>6. /\ sim_over' = (sim_over \/ (Writes(wb) /\ wb.pc = END_PC))
        /\ no_change_flag' = NoChange(wb)
        /\ \/ \E fir, sec : update_once(fir, sec)
           \/ UNCHANGED pairing
        /\ dead_clock' = IF Mismatch(wb) \/ end_byte \/ sim_over' THEN dead_clock ELSE DeadNext(wb)
    BY <2>2 DEF compare
  <2>7. sim_over' \in BOOLEAN
    BY <1>0, <2>6, Zenon
  <2>8. no_change_flag' \in BOOLEAN
    BY <2>6 DEF NoChange, LoopIInv
  <2>9. right_fir_reg' \in BOOLEAN /\ right_sec_reg' \in BOOLEAN /\ two_delay' \in BOOLEAN
    <3>1. CASE UNCHANGED pairing
      BY <3>1 DEF pairing, LoopIInv
    <3>2. CASE \E fir, sec : update_once(fir, sec)
      <4>1. PICK fir, sec : update_once(fir, sec)
        BY <3>2
      <4>2. \E x, y, z, i : /\ two_delay' = (~two_delay /\ Pair(i))
                            /\ right_fir_reg' = (x \/ z) /\ right_sec_reg' = (y \/ z)
        BY <4>1, Zenon DEF update_once
      <4> QED
        BY <1>0, <4>2, Zenon
    <3> QED
      BY <2>6, <3>1, <3>2
  <2>10. /\ dead_clock' \in 0 .. DeadLimit + 1
         /\ phase' # "over" => dead_clock' <= DeadLimit
         /\ program'[1] = "memory" => dead_clock' = 0
    <3>1. dead_clock \in 0 .. DeadLimit + 1 /\ dead_clock <= DeadLimit /\ (program[1] = "memory" => dead_clock = 0)
      BY <2>2 DEF LoopIInv
    <3>2. dead_clock' = dead_clock \/ dead_clock' = DeadNext(wb)
      BY <2>6
    <3>3. DeadNext(wb) \in 0 .. DeadLimit + 1 /\ (program[1] = "memory" => DeadNext(wb) = 0)
      BY <1>0, <2>1, <3>1 DEF DeadNext, LoopClock
    <3>4. DeadNext(wb) > DeadLimit => phase' = "over"
      <4>1. DeadNext(wb) > DeadLimit => "trace" \in causes
        BY DEF trace_status, Dead
      <4> HIDE DEF causes
      <4> QED
        BY <2>2, <4>1
    <3>5. phase' # "over" => dead_clock' <= DeadLimit
      BY <1>0, <3>1, <3>2, <3>3, <3>4
    <3> QED
      BY <2>2, <3>1, <3>2, <3>3, <3>5
  <2> HIDE DEF causes
  <2> QED
    BY <2>2, <2>3, <2>4, <2>5, <2>7, <2>8, <2>9, <2>10 DEF LoopIInv
<1>2. CASE LoadImage
  BY <1>2 DEF LoadImage, traceVars, pairing, loop, design, LoopIInv
<1>3. CASE Reset
  BY <1>3 DEF Reset, traceVars, pairing, design, LoopIInv
<1>4. CASE Restart
  <2>1. /\ program[1] = "memory" /\ phase' = "run" /\ emask' = {} /\ nStatus' = 1 /\ asked' = FALSE
        /\ UNCHANGED <<traceVars, program, design>>
    BY <1>4 DEF Restart
  <2>2. dead_clock = 0 /\ dead_clock <= DeadLimit
    BY <1>0, <2>1 DEF LoopIInv
  <2>3. UNCHANGED <<dead_clock, right_fir_reg, right_sec_reg, two_delay, no_change_flag, sim_over, last>>
    BY <2>1 DEF traceVars, pairing, design
  <2> QED
    BY <2>1, <2>2, <2>3 DEF LoopIInv
<1>5. CASE UNCHANGED vars
  BY <1>5 DEF vars, traceVars, pairing, loop, design, LoopIInv
<1> QED
  BY <1>1, <1>2, <1>3, <1>4, <1>5 DEF Next

LEMMA LoopIInvHolds == Spec => []LoopIInv
BY LoopInit, LoopStep, PTL DEF Spec

\* The invariants of the parts make up the types of the whole.
LEMMA InvsTypeOK == RamIInv /\ SetupIInv /\ LinesIInv /\ TraceIInv /\ LoopIInv => TypeOK
<1> SUFFICES ASSUME RamIInv, SetupIInv, LinesIInv, TraceIInv, LoopIInv PROVE TypeOK
  OBVIOUS
<1>1. RamTypeOK /\ SavedOK
  BY DEF RamIInv
<1>2. saved \in {<<>>} \cup [mem : {mem} \cup [Indices -> Seq(Page)], rdata : Word]
  BY <1>1, Zenon DEF SavedOK
<1>3. /\ UartTypeOK /\ dev_tx \in Seq(Bit) /\ dev_count \in Nat /\ sent \in Seq(Byte)
      /\ dev_rx \in Seq(Bit) /\ dev_wait \in Nat /\ heard \in Seq([byte : Byte, ok : BOOLEAN])
  BY DEF LinesIInv, SerialTypeOK, Heard
<1>4. /\ uart_div_set \in BOOLEAN /\ div_reinit \in BOOLEAN /\ uart_config \in Setup
      /\ lcr \in [dlab : BOOLEAN, format : Format]
  BY <1>3 DEF SetupIInv, UartTypeOK
<1>5. div_val \in [0 .. 2 -> Nat] /\ dl \in [0 .. 2 -> Nat]
  BY DEF SetupIInv
<1>6. /\ golden_trace_in \in Seq(Record) /\ at \in 1 .. Len(golden_trace_in)
      /\ reg \in [Regs -> Values] /\ changes \in Seq(Change)
  BY DEF TraceIInv
<1>7. TraceTypeOK
  BY <1>6 DEF TraceTypeOK, LoopIInv
<1> QED
  BY <1>1, <1>2, <1>3, <1>4, <1>5, <1>6, <1>7 DEF TypeOK, LoopIInv

\* Every variable of the simulation keeps to its type: the terminal's shift
\* registers hold bits, it shows bytes, the count of clocks without a
\* write-back never passes its limit by more than one.
THEOREM TestbenchTypes == Spec => []TypeOK
BY InvsTypeOK, RamIInvHolds, SetupIInvHolds, LinesIInvHolds, TraceIInvHolds, LoopIInvHolds, PTL
=============================================================================
