------------------------------- MODULE CpuRam -------------------------------
(***************************************************************************)
(* The memory of the simulation.  Addresses are a tag, an index and an     *)
(* offset; every index has its pages sorted by tag and a cursor that is    *)
(* left where the last search ended, so that the next one starts there.    *)
(* The RAM port of the design is served once a clock: the read asked in    *)
(* the clock before is answered, then the read of this clock is noted,     *)
(* then the write of this clock is done.                                   *)
(***************************************************************************)
EXTENDS Naturals, SequencesExt

CONSTANTS
    Tags, Indices, Offsets, Lanes, Bytes,
    LowLane,    \* the lane of a word's least significant byte
    Device      \* the address of the UART that the simulation provides

\* The bytes of new pages are zero; the device is not an address of the RAM.
ASSUME RamAssumption == /\ Tags \subseteq Nat /\ 0 \in Bytes /\ LowLane \in Lanes
                        /\ Tags # {} /\ Indices # {} /\ Offsets # {}
                        /\ Device \notin Tags \X Indices \X Offsets

VARIABLES
    mem,        \* the pages of every index
    cur,        \* the cursor of every index
    read_addr,  \* the read to answer
    ram_rdata   \* the answer the design sees

ramVars == <<mem, cur, read_addr, ram_rdata>>

Addr == Tags \X Indices \X Offsets
Word == [Lanes -> Bytes]
Zeros == [l \in Lanes |-> 0]
Page == [tag : Tags, data : [Offsets -> Word]]
NewPage(tag) == [tag |-> tag, data |-> [o \in Offsets |-> Zeros]]

\* The end() of a vector.
EndOf(pages) == Len(pages) + 1

RamTypeOK ==
    /\ mem \in [Indices -> Seq(Page)]
    /\ cur \in [Indices -> Nat \ {0}]
    /\ \A i \in Indices : cur[i] <= EndOf(mem[i])
    /\ read_addr \in Addr \cup {Device} /\ ram_rdata \in Word

RamInit ==
    /\ mem = [i \in Indices |-> <<>>] /\ cur = [i \in Indices |-> 1]
    /\ read_addr \in Addr \cup {Device} /\ ram_rdata = Zeros

----------------------------------------------------------------------------
\* Up to the first page that is not below the tag, or the end; down to the
\* first that is not above it, or the first of all.
Upwards(pages, t, tag) == Min({k \in t + 1 .. Len(pages) : pages[k].tag >= tag} \cup {EndOf(pages)})
Downwards(pages, t, tag) == Max({k \in 1 .. t : pages[k].tag <= tag} \cup {1})
\* Where a search for a tag from a cursor ends.
Find(pages, t, tag) ==
    IF pages = <<>> THEN t
    ELSE IF t = EndOf(pages) THEN Downwards(pages, Len(pages), tag)
    ELSE IF tag > pages[t].tag THEN Upwards(pages, t, tag)
    ELSE Downwards(pages, t, tag)

Miss(pages, t, tag) == t = EndOf(pages) \/ pages[t].tag # tag

\* A bug for the checks: only at the end does a page go behind the one the
\* search ended at.
InsertPointBefore(pages, t, tag) ==
    IF t = Len(pages) /\ tag > pages[t].tag THEN t + 1 ELSE t

\* Where a page that is missing goes: behind the page the search ended at,
\* unless that one has the greater tag.
InsertPoint(pages, t, tag) ==
    IF t = EndOf(pages) THEN t ELSE IF tag > pages[t].tag THEN t + 1 ELSE t

\* The pages and the cursor after a search that makes the page it misses.
Jump(pages, t, tag) ==
    LET f == Find(pages, t, tag)
        k == InsertPoint(pages, f, tag)
    IN  IF Miss(pages, f, tag)
        THEN [pages |-> InsertAt(pages, k, NewPage(tag)), at |-> k]
        ELSE [pages |-> pages, at |-> f]

\* A bug for the checks: the page the search ended at is taken for the one.
ReadNearest(a) == LET t == Find(mem[a[2]], cur[a[2]], a[1])
                  IN  IF t = EndOf(mem[a[2]]) THEN Zeros ELSE mem[a[2]][t].data[a[3]]

\* What a read finds, and where it leaves the cursor.
Read(a) == LET t == Find(mem[a[2]], cur[a[2]], a[1])
           IN  IF Miss(mem[a[2]], t, a[1]) THEN Zeros ELSE mem[a[2]][t].data[a[3]]
AfterRead(a) == [cur EXCEPT ![a[2]] = Find(mem[a[2]], @, a[1])]

\* A write of the lanes m of a word, from the cursors c.
Write(a, m, d, c) ==
    LET j == Jump(mem[a[2]], c[a[2]], a[1])
    IN  /\ mem' = [mem EXCEPT ![a[2]] =
                     [j.pages EXCEPT ![j.at].data[a[3]] = [l \in Lanes |-> IF l \in m THEN d[l] ELSE @[l]]]]
        /\ cur' = [c EXCEPT ![a[2]] = j.at]

----------------------------------------------------------------------------
\* A word of the image the memory is filled with.
Load(a, d) == Write(a, Lanes, d, cur) /\ UNCHANGED <<read_addr, ram_rdata>>

\* What the design asks of the RAM port in a clock; no lane is no write.
Access == [ren : BOOLEAN, raddr : Addr \cup {Device},
           wen : SUBSET Lanes, waddr : Addr \cup {Device}, wdata : Word]
NoAccess == [ren |-> FALSE, raddr |-> Device, wen |-> {}, waddr |-> Device, wdata |-> Zeros]

process(p) ==
    LET c == IF read_addr = Device THEN cur ELSE AfterRead(read_addr)
    IN  /\ ram_rdata' = IF read_addr = Device THEN Zeros ELSE Read(read_addr)
        /\ read_addr' = IF p.ren THEN p.raddr ELSE read_addr
        /\ IF p.wen = {} \/ p.waddr = Device THEN mem' = mem /\ cur' = c
           ELSE Write(p.waddr, p.wen, p.wdata, c)

\* A null byte written to the device's UART ends the simulation, whatever the
\* other bytes of the word and whichever lanes are enabled.
ram_status(p) == IF p.wen # {} /\ p.waddr = Device /\ p.wdata[LowLane] = 0 THEN {"uart_exit"} ELSE {}

\* A simulation starts from the pages another one saved: the cursors are at
\* the ends, the read to answer is not saved and not set.
breakpoint_restore(saved, rdata) ==
    /\ mem' = saved /\ cur' = [i \in Indices |-> EndOf(saved[i])]
    /\ read_addr' \in Addr \cup {Device} /\ ram_rdata' = rdata

----------------------------------------------------------------------------
\* The pages of an index are in the order of their tags, which is asserted
\* after every insertion: a search from any cursor then finds the page.
Sorted(pages) == \A j, k \in 1 .. Len(pages) : j < k => pages[j].tag < pages[k].tag
PagesSorted == \A i \in Indices : Sorted(mem[i])

\* The contents of pages as a flat memory.
WordIn(pages, tag, offset) ==
    LET here == {k \in 1 .. Len(pages) : pages[k].tag = tag}
    IN  IF here = {} THEN Zeros ELSE pages[Min(here)].data[offset]
Contents(m) == [a \in Addr |-> WordIn(m[a[2]], a[1], a[3])]
=============================================================================
