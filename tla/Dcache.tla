------------------------------- MODULE Dcache -------------------------------
(***************************************************************************)
(* dcache.v, with the two arrays of ram_wrapper.v: a write-back cache with *)
(* a one-word write buffer for stores that hit and with miss registers     *)
(* (MSHRs) that collect the stores to a missing line while it is read.     *)
(*                                                                         *)
(* As wired in cpu7.v: the translation is the identity, one cycle late,    *)
(* never uncached; nothing drives cancellation, atomics, cache operations  *)
(* or external requests.  The way to replace is left open, and so is when  *)
(* the prefetcher asks for what.                                           *)
(*                                                                         *)
(* Bytes are abstracted to where the newest one is.  Of one byte, Watched, *)
(* every place that can hold a copy has a flag that says what is there was *)
(* put there by the last store to that byte, or copied from such a place.  *)
(* A store that hits puts nothing newest into the write buffer: between    *)
(* the request's data and the buffer, and between the buffer and the       *)
(* array, the code has registers that are a cycle late (wpath).            *)
(***************************************************************************)
EXTENDS Integers, FiniteSets

CONSTANTS
    Line, NoLine,   \* lines of memory, and the absence of one
    Tag, Index,     \* what a line's address is split into
    Ways,           \* the ways of the arrays
    NEntries,       \* the MSHRs
    NBanks,         \* words of a line,
    BanksPerBeat,   \* and of a beat of the bus
    Lanes,          \* bytes of a word
    Watched         \* the byte whose copies are followed

Bank == 0 .. NBanks - 1
Entry == 0 .. NEntries - 1
Sets == {Index[l] : l \in Line}
NBeats == NBanks \div BanksPerBeat

NoEntry == -1

ASSUME DcacheAssumption ==
    /\ NoLine \notin Line /\ Ways # {} /\ NEntries \in Nat \ {0} /\ NBanks \in Nat \ {0}
    /\ BanksPerBeat \in Nat \ {0} /\ NBanks % BanksPerBeat = 0
    /\ DOMAIN Tag = Line /\ DOMAIN Index = Line
    /\ \A l, m \in Line : Tag[l] = Tag[m] /\ Index[l] = Index[m] => l = m
    /\ Watched \in [line : Line, bank : Bank, lane : Lanes]

LineAt(t, s) == CHOOSE l \in Line : Tag[l] = t /\ Index[l] = s
BeatOf(bank) == bank \div BanksPerBeat
\* The word and the byte that are watched.
IsWatched(l, b) == l = Watched.line /\ b = Watched.bank
Covers(l, b, strb) == IsWatched(l, b) /\ Watched.lane \in strb
WatchedSet == Index[Watched.line]

VARIABLES
    state,      \* dcache_state: idle, lkup, block or goon
    req,        \* data_vaddr, data_wr_reg, data_wstrb_reg, prefetch_reg
    tlb_finish, \* the translation's answer
    lsu_recv,   \* cpu7_lsu.v: an address has been taken since the last answer
    tag,        \* the tag array: a line or NoLine, by set and way
    dirty,      \* the dirty bits, by set and way
    data,       \* the data array: the watched byte's flag, by way
    tagq, dataq,        \* the output registers of the two arrays
    lrud,       \* lrud_wr_*: the dirty bit to set for the store that just hit
    wb,         \* the write buffer
    wpath,      \* the watched byte's flag in data_wdata_reg, wr_buff_wdata_src,
                \* wr_buff_wdata and wr_buff_ram_wdata
    hit_last,   \* history: the last store to the watched byte hit
    mshr,       \* the miss registers
    send,       \* mshr_send_cpu, mshr_rbank, mshr_rentry: the load that waits
    cnt,        \* mshr_handle_cnt
    rplc        \* replaced_way with the dirty bit read for it

dcacheVars == <<state, req, tlb_finish, lsu_recv, tag, dirty, data, tagq,
                dataq, lrud, wb, wpath, hit_last, mshr, send, cnt, rplc>>

\* The signals of a request; those of the prefetcher have pref set.
Request == [line : Line, bank : Bank, wr : BOOLEAN,
            strb : SUBSET Lanes, pref : BOOLEAN]
NoRequest == [line |-> Watched.line, bank |-> 0, wr |-> FALSE, strb |-> {}, pref |-> FALSE]

NoLrud == [store |-> FALSE, set |-> WatchedSet, ways |-> {}]
NoWb == [strb |-> {}, line |-> Watched.line, bank |-> 0, way |-> CHOOSE w \in Ways : TRUE,
         cur |-> FALSE]
NoPath == [reg |-> FALSE, src |-> FALSE, wdata |-> FALSE, ram |-> FALSE]
NoSend == [on |-> FALSE, bank |-> 0, entry |-> 0]
NoRplc == [way |-> NoWb.way, dirty |-> FALSE]
FreeMshr == [st |-> "idle", line |-> Watched.line, strb |-> {}, rec |-> 0,
             dirty |-> FALSE, cur |-> FALSE]

DcacheTypeOK ==
    /\ state \in {"idle", "lkup", "block", "goon"} /\ req \in Request
    /\ tlb_finish \in BOOLEAN /\ lsu_recv \in BOOLEAN
    /\ tag \in [Sets -> [Ways -> Line \cup {NoLine}]]
    /\ dirty \in [Sets -> [Ways -> BOOLEAN]] /\ data \in [Ways -> BOOLEAN]
    /\ tagq \in [Ways -> Line \cup {NoLine}] /\ dataq \in [Ways -> BOOLEAN]
    /\ lrud \in [store : BOOLEAN, set : Sets, ways : SUBSET Ways]
    /\ wb \in [strb : SUBSET Lanes, line : Line, bank : Bank, way : Ways,
               cur : BOOLEAN]
    /\ wpath \in [reg : BOOLEAN, src : BOOLEAN, wdata : BOOLEAN, ram : BOOLEAN]
    /\ hit_last \in BOOLEAN
    /\ mshr \in [Entry -> [st : {"idle", "addr", "data", "handle"}, line : Line,
                           strb : SUBSET (Bank \X Lanes), rec : 0 .. NBeats,
                           dirty : BOOLEAN, cur : BOOLEAN]]
    /\ send \in [on : BOOLEAN, bank : Bank, entry : Entry]
    /\ cnt \in BOOLEAN /\ rplc \in [way : Ways, dirty : BOOLEAN]

\* The RAMs' initialisation is over: every tag is invalid.
DcacheInit ==
    /\ state = "idle" /\ req = NoRequest
    /\ tlb_finish = FALSE /\ lsu_recv = FALSE
    /\ tag = [s \in Sets |-> [w \in Ways |-> NoLine]]
    /\ dirty = [s \in Sets |-> [w \in Ways |-> FALSE]]
    /\ data = [w \in Ways |-> FALSE]
    /\ tagq = [w \in Ways |-> NoLine] /\ dataq = [w \in Ways |-> FALSE]
    /\ lrud = NoLrud /\ wb = NoWb /\ wpath = NoPath /\ hit_last = FALSE
    /\ mshr = [e \in Entry |-> FreeMshr]
    /\ send = NoSend /\ cnt = FALSE /\ rplc = NoRplc

----------------------------------------------------------------------------
(* Lookup, in the cycle after the address is taken.                        *)

tlb_valid_finish == tlb_finish /\ (lsu_recv \/ req.pref)

way_hit == {w \in Ways : tagq[w] # NoLine /\ Tag[tagq[w]] = Tag[req.line]}
cache_hit  == tlb_valid_finish /\ way_hit # {}
cache_miss == tlb_valid_finish /\ way_hit = {}
store_hit  == cache_hit /\ req.wr

wr_buff_valid == wb.strb # {}

\* Outside a lookup the tag compared is whatever the address bus last showed.
wr_buff_hit(stale) ==
    IF tlb_valid_finish THEN wb.line = req.line /\ wb.bank = req.bank
    ELSE stale /\ Index[wb.line] = Index[req.line] /\ wb.bank = req.bank

(* The miss registers.                                                     *)

\* Mutant: a miss of a line that is being read is not recognised.
mshr_hit_never == {}

mshr_hit == {e \in Entry : /\ tlb_valid_finish /\ mshr[e].st # "idle"
                           /\ mshr[e].line = req.line}
mshr_full == \A e \in Entry : mshr[e].st # "idle"
Lowest(S) == {e \in S : \A f \in S : e <= f}
mshr_alloc ==
    IF ((cache_miss /\ state = "lkup") \/ state = "goon") /\ mshr_hit = {}
    THEN Lowest({e \in Entry : mshr[e].st = "idle"}) ELSE {}
mshr_new_req  == mshr_alloc \cup mshr_hit
\* Mutant: a prefetch that misses is answered like a load.
mshr_new_lreq_prefetch == IF req.wr THEN {} ELSE mshr_new_req

mshr_new_lreq == IF req.wr \/ req.pref THEN {} ELSE mshr_new_req

mshr_handle == {e \in Entry : mshr[e].st = "handle"}
mshr_rfil == IF cnt THEN mshr_handle ELSE {}
mshr_sel  == IF cnt THEN {} ELSE mshr_handle
replaced_dirty == rplc.dirty /\ tagq[rplc.way] # NoLine
mshr_wtbk == IF replaced_dirty THEN mshr_sel ELSE {}

\* Mutant: a miss that found every register taken keeps the lines out.
mshr_rfil_ready_idle(d, vic_not_full) ==
    {e \in Entry : /\ mshr[e].st = "data" /\ mshr[e].rec = NBeats
                   /\ ~wr_buff_valid
                   /\ state = "idle" /\ ~d.on
                   /\ vic_not_full}

\* Mutant: a line is moved before its last beat is there.
mshr_rfil_ready_early(d, vic_not_full) ==
    {e \in Entry : /\ mshr[e].st = "data" /\ mshr[e].rec + 1 >= NBeats
                   /\ ~wr_buff_valid
                   /\ ((state = "idle" /\ ~d.on) \/ state = "block")
                   /\ vic_not_full}

mshr_rfil_ready(d, vic_not_full) ==
    {e \in Entry : /\ mshr[e].st = "data" /\ mshr[e].rec = NBeats
                   /\ ~wr_buff_valid
                   /\ ((state = "idle" /\ ~d.on) \/ state = "block")
                   /\ vic_not_full}
mshr_wait_go(d, vic_not_full) ==
    IF mshr_handle = {} THEN Lowest(mshr_rfil_ready(d, vic_not_full)) ELSE {}

\* Mutant: any byte stored to the word is taken for the whole word.
mshr_ld_ret_partial ==
    {e \in Entry : /\ send.on /\ send.entry = e
                   /\ \/ mshr[e].rec > BeatOf(send.bank)
                      \/ \E b \in Lanes : <<send.bank, b>> \in mshr[e].strb}

mshr_ld_ret ==
    {e \in Entry : /\ send.on /\ send.entry = e
                   /\ \/ mshr[e].rec > BeatOf(send.bank)
                      \/ \A b \in Lanes : <<send.bank, b>> \in mshr[e].strb}

(* The answers.                                                            *)

hit_ld_data_ok == cache_hit /\ ~req.wr /\ ~req.pref
mshr_data_ok   == mshr_ld_ret # {}
st_data_ok     == tlb_valid_finish /\ req.wr
data_data_ok   == hit_ld_data_ok \/ mshr_data_ok \/ st_data_ok

(* What stands in the way of the request d, on the bus in this cycle.      *)

load_miss_exist == (cache_miss /\ ~req.wr) \/ (send.on /\ ~mshr_data_ok)
st_ld_conflict(d, stale) ==
    req.wr /\ wr_buff_valid /\ ~wr_buff_hit(stale) /\ wb.bank = d.bank

pre_req_addr_ok(d) ==
    /\ d.on /\ d.pref /\ (state = "idle" \/ tlb_valid_finish)
    /\ ~(state = "lkup" /\ mshr_full)
    /\ mshr_rfil = {}

data_addr_ok(d, stale, vic_not_full) ==
    \/ /\ d.on /\ (state = "idle" \/ tlb_valid_finish)
       /\ mshr_handle = {} /\ mshr_wait_go(d, vic_not_full) = {}
       /\ ~load_miss_exist
       /\ ~(state = "lkup" /\ mshr_full)
       /\ ~st_ld_conflict(d, stale)
    \/ pre_req_addr_ok(d)

wr_buff_release(d, stale) ==
    LET wr_conflict == d.on /\ wb.bank = d.bank /\ wr_buff_valid
    IN  /\ \/ (state = "idle" \/ tlb_valid_finish) /\ ~wr_conflict
           \/ tlb_valid_finish /\ req.wr /\ ~wr_buff_hit(stale)
           \/ state = "block"
        /\ mshr_rfil = {}

----------------------------------------------------------------------------
(* The clock edge.                                                         *)

\* A store to the watched byte takes effect, and no copy is the newest.
WatchedStore ==
    tlb_valid_finish /\ req.wr /\ Covers(req.line, req.bank, req.strb)
Keep(cur) == cur /\ ~WatchedStore

StateNext(addr_ok) ==
    state' = CASE state = "idle" -> IF addr_ok THEN "lkup" ELSE "idle"
               [] state = "block" -> IF mshr_rfil # {} THEN "goon" ELSE "block"
               [] state = "goon" -> "idle"
               [] state = "lkup" ->
                    IF cache_miss /\ mshr_hit = {} /\ mshr_full THEN "block"
                    ELSE IF tlb_valid_finish /\ ~addr_ok THEN "idle" ELSE "lkup"

\* A store that hits claims its bytes of the buffer, with those already there
\* if it is the same word.  What the buffer takes is what wr_buff_wdata holds,
\* which an earlier cycle's request put there.  The bytes it no longer claims
\* reach no word again, and are forgotten.
WriteBufferNext(d, stale) ==
    LET merged == IF wr_buff_hit(stale) THEN wb.strb ELSE {}
    IN  wb' = IF store_hit
              THEN [strb |-> merged \cup req.strb, line |-> req.line,
                    bank |-> req.bank, way |-> CHOOSE w \in way_hit : TRUE,
                    cur |-> Keep(wpath.wdata)]
              ELSE IF wr_buff_release(d, stale) THEN NoWb
              ELSE [wb EXCEPT !.cur = Keep(@)]

\* The registers on the way to the buffer and from there to the array are
\* loaded in every cycle, but for the request's own.  What they hold can reach
\* the watched byte only while the buffer claims it; it is forgotten otherwise.
WritePathNext(stale, addr_ok) ==
    /\ wpath' = IF ~Covers(wb'.line, wb'.bank, wb'.strb) THEN NoPath
                ELSE [reg   |-> ~addr_ok /\ (WatchedStore \/ wpath.reg),
                      src   |-> WatchedStore \/ wpath.reg,
                      wdata |-> Keep(IF Watched.lane \in req.strb THEN wpath.src
                                     ELSE wr_buff_hit(stale) /\ wb.cur),
                      ram   |-> Keep(wb.cur)]
    /\ hit_last' = IF WatchedStore THEN store_hit ELSE hit_last

\* One miss register: a request or a beat, or both, or its end.
MshrEntry(e, ret, rd_ok, go) ==
    LET m == mshr[e]
        stored == {b \in Bank \X Lanes : e \in mshr_new_req /\ b[1] = req.bank
                                         /\ b[2] \in req.strb}
        beat == ret.entry = e
        filled == /\ beat /\ m.line = Watched.line
                  /\ m.rec = BeatOf(Watched.bank)
                  /\ <<Watched.bank, Watched.lane>> \notin m.strb
        took == e \in mshr_new_req /\ Covers(req.line, req.bank, req.strb)
    IN  IF e \in mshr_alloc
        THEN [st |-> "addr", line |-> req.line, strb |-> stored, rec |-> 0,
              dirty |-> req.wr, cur |-> took]
        ELSE IF e \in mshr_rfil THEN FreeMshr
        ELSE [st |-> IF m.st = "addr" /\ rd_ok THEN "data"
                     ELSE IF e \in go THEN "handle" ELSE m.st,
              line |-> m.line,
              strb |-> m.strb \cup stored,
              rec |-> IF beat THEN m.rec + 1 ELSE m.rec,
              dirty |-> m.dirty \/ (e \in mshr_hit /\ req.wr),
              cur |-> took \/ Keep(IF filled THEN ret.cur ELSE m.cur)]

SendNext ==
    send' = IF mshr_new_lreq # {}
            THEN [on |-> TRUE, bank |-> req.bank,
                  entry |-> CHOOSE e \in mshr_new_lreq : TRUE]
            ELSE IF mshr_data_ok THEN NoSend ELSE send

\* The watched byte of a way: of the line that is moved there, of the register
\* behind the write buffer, or as it was.
NewData(w, d, stale) ==
    IF \E e \in mshr_rfil : Index[mshr[e].line] = WatchedSet /\ w = rplc.way
    THEN \E e \in mshr_rfil : mshr[e].line = Watched.line /\ Keep(mshr[e].cur)
    ELSE IF /\ wr_buff_release(d, stale) /\ Watched.lane \in wb.strb /\ w = wb.way
            /\ Index[wb.line] = WatchedSet /\ wb.bank = Watched.bank
    THEN Keep(wpath.ram)
    ELSE Keep(data[w])

\* The two arrays: read for the request on the bus or for the line to be
\* replaced, written from a miss register or from the write buffer.  An
\* output register nobody will look at is forgotten.
ArraysNext(d, stale, addr_ok, go) ==
    LET useIndex == {Index[mshr[e].line] : e \in go}
        readSet  == IF go # {} THEN CHOOSE s \in useIndex : TRUE
                    ELSE Index[d.line]
        reading  == addr_ok \/ go # {}
    IN  /\ tag' = [s \in Sets |-> [w \in Ways |->
                    IF \E e \in mshr_rfil : Index[mshr[e].line] = s /\ w = rplc.way
                    THEN mshr[CHOOSE e \in mshr_rfil : TRUE].line
                    ELSE tag[s][w]]]
        /\ data' = [w \in Ways |-> NewData(w, d, stale)]
        /\ tagq' = IF reading THEN tag[readSet]
                   ELSE IF mshr_handle # {} THEN tagq
                   ELSE [w \in Ways |-> NoLine]
        /\ dataq' = IF reading /\ readSet = WatchedSet
                       /\ (go # {} \/ d.bank = Watched.bank)
                    THEN [w \in Ways |-> Keep(data[w])]
                    ELSE IF mshr_handle # {} /\ ~reading
                    THEN [w \in Ways |-> Keep(dataq[w])]
                    ELSE [w \in Ways |-> FALSE]

\* Mutant: the dirty bit is not cleared by a clean line and not set by a
\* line that was stored to while it was read.
DirtyNext_refill(go) ==
    /\ lrud' = IF store_hit
               THEN [store |-> TRUE, set |-> Index[req.line], ways |-> way_hit]
               ELSE NoLrud
    /\ dirty' = [s \in Sets |-> [w \in Ways |->
                   IF lrud.store /\ s = lrud.set /\ w \in lrud.ways THEN TRUE
                   ELSE dirty[s][w]]]

\* The dirty bits have one port: the line that is replaced or read for
\* replacement takes the address from the store that has just hit.
DirtySet(go) == IF go \cup mshr_rfil # {}
                THEN Index[mshr[CHOOSE e \in go \cup mshr_rfil : TRUE].line]
                ELSE lrud.set
NewDirty(s, w, go) ==
    IF s = DirtySet(go) /\ mshr_rfil # {} /\ w = rplc.way
    THEN \E e \in mshr_rfil : mshr[e].dirty
    ELSE (s = DirtySet(go) /\ lrud.store /\ w \in lrud.ways) \/ dirty[s][w]
DirtyNext(go) ==
    /\ lrud' = IF store_hit
               THEN [store |-> TRUE, set |-> Index[req.line], ways |-> way_hit]
               ELSE NoLrud
    /\ dirty' = [s \in Sets |-> [w \in Ways |-> NewDirty(s, w, go)]]

\* d: the request on the bus; stale: see wr_buff_hit; way: the way to replace;
\* ret: the beat returned; rd_ready, wr_ready, vic_not_full: cache_interface.v.
DcacheNext(d, stale, way, ret, rd_ready, wr_ready, vic_not_full) ==
    LET addr_ok == data_addr_ok(d, stale, vic_not_full)
        go == mshr_wait_go(d, vic_not_full)
    IN  /\ StateNext(addr_ok)
        /\ WriteBufferNext(d, stale)
        /\ WritePathNext(stale, addr_ok)
        /\ req' = IF addr_ok THEN [line |-> d.line, bank |-> d.bank,
                                   wr |-> d.wr, strb |-> d.strb, pref |-> d.pref]
                  ELSE IF state' = "idle" /\ wb'.strb = {} THEN NoRequest
                  ELSE req
        /\ tlb_finish' = addr_ok
        /\ lsu_recv' = ((lsu_recv \/ addr_ok) /\ ~data_data_ok)
        /\ mshr' = [e \in Entry |-> MshrEntry(e, ret, rd_ready = e, go)]
        /\ SendNext
        /\ ArraysNext(d, stale, addr_ok, go)
        /\ DirtyNext(go)
        /\ cnt' = (mshr_sel # {} /\ (wr_ready \/ ~replaced_dirty))
        /\ rplc' = IF go # {}
                   THEN [way |-> way,
                         dirty |-> \E e \in go : dirty[Index[mshr[e].line]][way]]
                   ELSE IF mshr_sel # {} THEN rplc ELSE NoRplc

\* The read that is asked of the bus, and the line that is written back.
rd_req == {e \in Entry : mshr[e].st = "addr"}
rd_entry == IF rd_req = {} THEN NoEntry ELSE CHOOSE e \in Lowest(rd_req) : TRUE
wr_line == LineAt(Tag[tagq[rplc.way]],
                  Index[mshr[CHOOSE e \in mshr_wtbk : TRUE].line])
=============================================================================
