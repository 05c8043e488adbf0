------------------------------ MODULE FlatRam -------------------------------
(***************************************************************************)
(* What the simulation's memory promises the design: an array of words,    *)
(* read one clock after it is asked and written byte by byte.  A read and  *)
(* a write of the same clock: the read sees the write, as it is answered   *)
(* in the next one.  A checkpoint keeps the contents and nothing else: of  *)
(* a read that is pending then, a restart answers anything.                *)
(***************************************************************************)
CONSTANTS Addr, Lanes, Bytes, Zeros, NoAddr

VARIABLES flat, pending, rdata, kept

vars == <<flat, pending, rdata, kept>>

Word == [Lanes -> Bytes]
Blank == [a \in Addr |-> Zeros]

Init == flat = Blank /\ pending = NoAddr /\ rdata = Zeros /\ kept = Blank

Merge(a, m, d) == [flat EXCEPT ![a] = [l \in Lanes |-> IF l \in m THEN d[l] ELSE @[l]]]

Fill(a, d) == flat' = Merge(a, Lanes, d) /\ UNCHANGED <<pending, rdata, kept>>

\* A clock: the read that is pending is answered, the next one may be asked,
\* lanes of a word may be written.
Clock(a, m, w, d) ==
    /\ rdata' \in IF pending = NoAddr THEN Word ELSE {flat[pending]}
    /\ pending' \in {pending, a}
    /\ flat' = IF m = {} THEN flat ELSE Merge(w, m, d)
    /\ kept' \in {kept, flat}

Restart == flat' = kept /\ pending' = NoAddr /\ rdata' \in Word /\ kept' = kept

Next == \/ \E a \in Addr, d \in Word : Fill(a, d)
        \/ \E a \in Addr \cup {NoAddr}, w \in Addr, m \in SUBSET Lanes, d \in Word : Clock(a, m, w, d)
        \/ Restart

Spec == Init /\ [][Next]_vars
=============================================================================
