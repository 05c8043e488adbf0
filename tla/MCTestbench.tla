---------------------------- MODULE MCTestbench -----------------------------
(* Testbench for model checking: what the design and the user may do.      *)
EXTENDS Testbench

\* Three pages of a word of one byte; the image has a word of the second,
\* which is written twice in different ways, and one of the third.
At(t) == <<t, 0, 0>>
WordOf(v) == [l \in Lanes |-> v]
MCImage == {<<At(2), WordOf(1)>>, <<At(3), WordOf(0)>>}
Reads == {[NoAccess EXCEPT !.ren = TRUE, !.raddr = a] : a \in Addr}
MCAccesses == {NoAccess} \cup Reads
    \cup {[p EXCEPT !.wen = Lanes, !.waddr = a, !.wdata = WordOf(v)] :
             p \in {NoAccess} \cup Reads, a \in {At(1), At(2)}, v \in {1}}
    \cup {[p EXCEPT !.wen = Lanes, !.waddr = At(2), !.wdata = WordOf(0)] : p \in {NoAccess} \cup Reads}
    \cup {[NoAccess EXCEPT !.wen = Lanes, !.wdata = WordOf(v)] : v \in Bytes}

\* What is written to which latch of the divisor.
MCLatches == {<<0, 1>>, <<1, 0>>, <<1, 1>>, <<2, 1>>}

\* Frames without parity, with a fixed one and two stop bits, and with one
\* that is computed.
MCFormats == {PlainFormat, [stop |-> 2, parity |-> "one"], [stop |-> 1, parity |-> "zero"],
              [stop |-> 1, parity |-> "even"]}

\* A reference of single changes; one with a double change; one that is not
\* compared to the end.
Ch(p, n, d) == [pc |-> p, wnum |-> n, wdata |-> d]
One(c) == [trace_cmp_flag |-> TRUE, change_num |-> 1, fir |-> c, sec |-> c]
Two(c, d) == [One(c) EXCEPT !.change_num = 2, !.sec = d]
Off(c) == [One(c) EXCEPT !.trace_cmp_flag = FALSE]
Three(c) == [One(c) EXCEPT !.change_num = 3]
Singles == <<One(Ch(1, 5, 1)), One(Ch(2, 6, 1)), One(Ch(1, 6, 0))>>
Traces == {Singles,
             <<One(Ch(1, 5, 1)), Two(Ch(2, 6, 1), Ch(2, 5, 0)), Three(Ch(1, 6, 0))>>,
             <<Two(Ch(1, 5, 1), Ch(1, 6, 1)), Off(Ch(2, 6, 1))>>}
MCPrograms == ({"memory", "divisor", "receive", "send"} \X {Singles}) \cup ({"trace"} \X Traces)

MCCommits == {NoWriteBack} \cup [wen : {TRUE}, wnum : Regs, wdata : Values, pc : PCs]
=============================================================================
