------------------------------ MODULE DataSide ------------------------------
(***************************************************************************)
(* The data side: the core's load/store unit, the data cache and its       *)
(* prefetcher, the cache interface, and a memory on the AXI bus.  A step   *)
(* is one clock edge.                                                      *)
(*                                                                         *)
(* The core is what DataPort shows of it: a request is on the bus for one  *)
(* cycle, whether the cache takes it or not; the next one comes no earlier *)
(* than two cycles after the answer.                                       *)
(***************************************************************************)
EXTENDS CacheInterface

CONSTANT Programs   \* what a core and its prefetcher may ask for

\* The words that are loaded, the words and bytes that are stored to, and the
\* lines that are prefetched.  A store has a byte to store.
ASSUME ProgramsAssumption ==
    Programs \subseteq [loads : SUBSET (Line \X Bank),
                        stores : SUBSET (Line \X Bank \X ((SUBSET Lanes) \ {{}})),
                        prefetched : SUBSET Line]

VARIABLES
    program,    \* the one that runs
    core,   \* free to access, waiting for an answer, or just answered (gap)
    taken,  \* the request of the core the cache has taken and not answered
    mem     \* memory's copy of the watched byte is the newest

vars == <<dcacheVars, interfaceVars, program, core, taken, mem>>

NoTaken == [on |-> FALSE, line |-> Watched.line, bank |-> 0, wr |-> FALSE]

\* The registers hold what their widths can, and the pointers stay in the
\* victim buffer.
TypeOK ==
    /\ DcacheTypeOK /\ InterfaceTypeOK
    /\ program \in Programs /\ core \in {"free", "wait", "gap"} /\ mem \in BOOLEAN
    /\ taken \in [on : BOOLEAN, line : Line, bank : Bank, wr : BOOLEAN]

Init == /\ DcacheInit /\ InterfaceInit
        /\ program \in Programs /\ core = "free" /\ taken = NoTaken /\ mem = TRUE

----------------------------------------------------------------------------
\* What can be on the request bus: nothing, the core, the prefetcher.
Idle == [on |-> FALSE, line |-> Watched.line, bank |-> 0, wr |-> FALSE, strb |-> {},
         pref |-> FALSE]
Loads  == {[Idle EXCEPT !.on = TRUE, !.line = w[1], !.bank = w[2]] : w \in program.loads}
Stores == {[on |-> TRUE, line |-> w[1], bank |-> w[2], wr |-> TRUE, strb |-> w[3],
            pref |-> FALSE] : w \in program.stores}
Prefetches == {[Idle EXCEPT !.on = TRUE, !.line = l, !.pref = TRUE] : l \in program.prefetched}
Offers == {Idle} \cup Prefetches
          \cup (IF core = "free" THEN Loads \cup Stores ELSE {})

\* The beats of a line come in order; those of two lines may alternate.
Owed == {e \in Entry : /\ mshr[e].st = "data"
                       /\ mshr[e].rec + (IF ret.entry = e THEN 1 ELSE 0) < NBeats}
WriteDue == vic_addr_arrived /\ vic_data_all_recv /\ ~bvalid_reg

When(b) == IF b THEN BOOLEAN ELSE {FALSE}

\* Memory: it reads a beat when it puts it on the bus, and writes a line
\* when it answers the write.
Beat(e) ==
    IF e = NoEntry THEN NoBeat
    ELSE [entry |-> e,
          cur |-> /\ mshr[e].line = Watched.line
                  /\ mshr[e].rec + (IF ret.entry = e THEN 1 ELSE 0) = BeatOf(Watched.bank)
                  /\ Keep(mem)]
MemoryNext(beat, b) ==
    /\ ret' = Beat(beat)
    /\ bvalid_reg' = b
    /\ mem' = Keep(IF b /\ vic[vic_pop_p].line = Watched.line
                   THEN vic[vic_pop_p].cur ELSE mem)

CoreNext(d, addr_ok) ==
    /\ program' = program
    /\ core' = IF d.on /\ ~d.pref THEN "wait"
               ELSE IF core = "wait" /\ data_data_ok THEN "gap"
               ELSE IF core = "gap" THEN "free" ELSE core
    /\ taken' = IF d.on /\ ~d.pref /\ addr_ok
                THEN [on |-> TRUE, line |-> d.line, bank |-> d.bank, wr |-> d.wr]
                ELSE IF data_data_ok THEN NoTaken ELSE taken

\* The core and the cache, with the bus ready for the cache's read or not.
CacheNext(d, stale, way, arready) ==
    /\ CoreNext(d, data_addr_ok(d, stale, vic_not_full))
    /\ DcacheNext(d, stale, way, ret,
                  IF d_scread_req /\ arready THEN rd_entry ELSE NoEntry,
                  vic_vacancy, vic_not_full)

\* A clock edge.
Cycle(arreadys) ==
    /\ \E beat \in Owed \cup {NoEntry}, b \in When(WriteDue) : MemoryNext(beat, b)
    /\ \E awready \in When(awvalid), wlast \in When(wvalid) : InterfaceNext(awready, wlast)
    /\ \E d \in Offers, arready \in arreadys :
       \E stale \in When(wr_buff_valid /\ ~tlb_valid_finish /\ (d.on \/ wb.cur)),
          way \in (IF mshr_wait_go(d, vic_not_full) = {} THEN {rplc.way} ELSE Ways) :
          CacheNext(d, stale, way, arready)

Next == Cycle(When(d_scread_req))

Spec == Init /\ [][Next]_vars

(* Fairness.  The clock runs; the bus takes a read, the address and the    *)
(* beats of a write that stay offered, answers the write and returns every *)
(* beat it owes.                                                           *)
ReadTaken == d_scread_req /\ Cycle({TRUE})
BeatReturned(e) == e \in Owed /\ ret' = Beat(e) /\ Next
AddressTaken == awvalid /\ vic_addr_arrived' = TRUE /\ Next
WriteTaken == wvalid /\ vic_data_all_recv' = TRUE /\ Next
WriteAnswered == WriteDue /\ bvalid_reg' = TRUE /\ Next

FairSpec == /\ Spec /\ WF_vars(Next)
            /\ WF_vars(ReadTaken) /\ WF_vars(AddressTaken) /\ WF_vars(WriteTaken)
            /\ WF_vars(WriteAnswered) /\ \A e \in Entry : WF_vars(BeatReturned(e))

\* A request the data cache has taken (data_addr_ok) is answered: by a hit, by
\* the word's beat, or after the line's turn in a miss register has come.
TakenAnswered == taken.on ~> ~taken.on
\* A load or a store that was sent to the cache ends the stall of the core:
\* "lsu_dispatch_d is the staring signal / lsu_ecl_finish_m ends it"
\* (cpu7_exu_ecl.v).  The request is on the bus for one cycle, and the cache
\* need not take it.
StallEnds == core = "wait" ~> core # "wait"

----------------------------------------------------------------------------
\* A line is in at most one way or miss register, and not in both, whatever
\* the lookups, refills and prefetches that cross (dcache.v: mshr_hit, way_hit).
LinePlaces(l) == {<<"way", w>> : w \in {x \in Ways : tag[Index[l]][x] = l}}
                 \cup {<<"mshr", e>> : e \in {x \in Entry : /\ mshr[x].st # "idle"
                                                            /\ mshr[x].line = l}}
OnePlace == \A l \in Line : Cardinality(LinePlaces(l)) <= 1

\* A load is answered with the newest byte of the word it asked for, from the
\* array, the write buffer, or the miss register it waits for, unless the last
\* store to that byte hit: the write buffer loses what such a store brings
\* (module WriteBuffer), and the byte is found again only when it is next
\* stored to while its line is away.
LoadReturnsLatest ==
  ~hit_last =>
    /\ hit_ld_data_ok /\ IsWatched(req.line, req.bank) =>
         IF wr_buff_hit(FALSE) /\ Watched.lane \in wb.strb THEN wb.cur
         ELSE \A w \in way_hit : dataq[w]
    /\ \A e \in mshr_ld_ret :
         IsWatched(mshr[e].line, send.bank) => mshr[e].cur

\* An answer is for a request that was taken, of its kind and its address.
AnswersTaken ==
    /\ data_data_ok => taken.on /\ core = "wait"
    /\ st_data_ok => taken.wr
    /\ hit_ld_data_ok => ~taken.wr /\ req.line = taken.line /\ req.bank = taken.bank
    /\ \A e \in mshr_ld_ret : /\ ~taken.wr /\ send.bank = taken.bank
                              /\ mshr[e].st # "idle" /\ mshr[e].line = taken.line

\* Where the cache will find the watched byte when it is asked for next.
Registers == {e \in Entry : mshr[e].st # "idle" /\ mshr[e].line = Watched.line}
WaysOf == {w \in Ways : tag[WatchedSet][w] = Watched.line}
BehindCache ==
    IF \E s \in Slot : vic[s].line = Watched.line
    THEN \E s \in Slot : vic[s].line = Watched.line /\ vic[s].cur
    ELSE mem
InRegister(e) ==
    IF \/ <<Watched.bank, Watched.lane>> \in mshr[e].strb
       \/ mshr[e].rec > BeatOf(Watched.bank)
    THEN mshr[e].cur
    ELSE IF ret.entry = e /\ mshr[e].rec = BeatOf(Watched.bank) THEN ret.cur
    ELSE BehindCache
StoreWaits == state \in {"block", "goon"} /\ req.wr /\ Covers(req.line, req.bank, req.strb)

\* The next access to the byte finds the last value stored to it, wherever
\* the line is: a store that misses is not lost in its miss register, in the
\* refill, under the stores to its neighbours, in the victim buffer or on the
\* way to memory.  A store that hits is lost at once, and nothing is said of
\* the byte until the next one that misses.
NewestReachable ==
    \/ hit_last \/ StoreWaits
    \/ \E e \in Registers : InRegister(e)
    \/ Registers = {} /\ \E w \in WaysOf : data[w]
    \/ Registers = {} /\ WaysOf = {} /\ BehindCache

\* No line is read from memory while a newer copy of it waits in the victim
\* buffer for its write (vic_hit and d_scread_req, lines 240 to 335 and
\* 390 of cache_interface.v).
NoReadOfVictim == \A e \in Entry, s \in vic_valid :
                     mshr[e].st = "data" => mshr[e].line # vic[s].line
----------------------------------------------------------------------------
(* Why it is so: the registers of the cache in every cycle.  Each part     *)
(* rests on others; together they are inductive.                           *)

Holds(w, l) == tag[Index[l]][w] = l
Collects(e, l) == mshr[e].st # "idle" /\ mshr[e].line = l

\* A beat comes for a register that still expects one, and a line that is
\* moved to the arrays is whole.
BeatDue == ret.entry # NoEntry => /\ mshr[ret.entry].st = "data"
                                  /\ mshr[ret.entry].rec < NBeats
WholeLine == \A e \in mshr_handle : mshr[e].rec = NBeats
OneHandle == \A e, f \in mshr_handle : e = f
TagsInSets == \A s \in Sets, w \in Ways : tag[s][w] # NoLine => Index[tag[s][w]] = s
Apart == \A l \in Line :
            /\ \A v, w \in Ways : Holds(v, l) /\ Holds(w, l) => v = w
            /\ \A e, f \in Entry : Collects(e, l) /\ Collects(f, l) => e = f
            /\ \A w \in Ways, e \in Entry : ~(Holds(w, l) /\ Collects(e, l))
\* What a lookup compares is what the tags are, and what a blocked request
\* missed is still nowhere.
LookupCurrent == tlb_finish => /\ state = "lkup" /\ tagq = tag[Index[req.line]]
                               /\ req.pref \/ mshr_handle = {}
BlockedAbsent == state \in {"block", "goon"} =>
                   /\ \A w \in Ways : ~Holds(w, req.line)
                   /\ \A e \in Entry : ~Collects(e, req.line)
\* A line is moved in two cycles: the first has read the one it replaces, and
\* finds a place for it among the victims.
VictimRead == \A e \in mshr_sel : vic_not_full /\ tagq = tag[Index[mshr[e].line]]
\* A victim is in no register that reads it and in no way, but for the cycle
\* in which it is replaced, and in one slot.
Leaving(w, l) == \E e \in mshr_rfil : Index[mshr[e].line] = Index[l] /\ w = rplc.way
VictimsAway == \A s \in vic_valid :
    /\ \A e \in Entry : mshr[e].st \in {"data", "handle"} => mshr[e].line # vic[s].line
    /\ \A w \in Ways : Holds(w, vic[s].line) => Leaving(w, vic[s].line)
    /\ \A t \in vic_valid : vic[s].line = vic[t].line => s = t

PlacesInv == /\ BeatDue /\ WholeLine /\ OneHandle /\ TagsInSets /\ Apart /\ LookupCurrent
             /\ BlockedAbsent /\ VictimRead /\ VictimsAway

\* The one access that is owed an answer is looked up, blocked or sent.
Request_Taken == taken = [on |-> TRUE, line |-> req.line, bank |-> req.bank, wr |-> req.wr]
ReqKind == /\ req.pref => ~req.wr
           /\ req.wr <=> req.strb # {}
OneAnswerDue ==
    /\ tlb_finish /\ ~req.pref =>
         lsu_recv /\ core = "wait" /\ Request_Taken /\ ~send.on
    /\ state \in {"block", "goon"} /\ ~req.pref /\ ~req.wr =>
         core = "wait" /\ Request_Taken /\ ~send.on
    /\ send.on =>
         /\ core = "wait" /\ taken.on /\ ~taken.wr /\ taken.bank = send.bank
         /\ Collects(send.entry, taken.line)

AnswersInv == ReqKind /\ OneAnswerDue

\* The word in the write buffer is of a line in a way that is not replaced, and
\* its bytes are of stores that hit.
BufferInWay == /\ wr_buff_valid => Holds(wb.way, wb.line) /\ mshr_handle = {}
               /\ Covers(wb.line, wb.bank, wb.strb) => hit_last
LrudBuffered == lrud.store => wr_buff_valid
GoonFree == state = "goon" => \E e \in Entry : mshr[e].st = "idle"
\* What was read of the data array is what is there.
LookupData == tlb_finish /\ ~req.pref /\ Index[req.line] = WatchedSet /\ req.bank = Watched.bank
              => dataq = data
VictimData == \A e \in mshr_sel : Index[mshr[e].line] = WatchedSet => dataq = data

\* The victims are sent in their order, and the one whose write is answered is
\* in memory.
VictimOrder == /\ vic_push_p = vic_pop_p => vic_valid = {} \/ Slot \subseteq vic_valid
               /\ vic_push_p # vic_pop_p => vic_pop_p \in vic_valid /\ vic_push_p \notin vic_valid
               /\ vic_addr_arrived => vic_pop_p \in vic_valid
               /\ bvalid_reg => vic_addr_arrived
AnsweredWritten == bvalid_reg /\ vic[vic_pop_p].line = Watched.line /\ vic[vic_pop_p].cur => mem

\* Who is clean has its bytes behind the cache.
CleanBehind == ~hit_last =>
    /\ \A w \in WaysOf : \/ dirty[WatchedSet][w] \/ BehindCache
                         \/ lrud.store /\ lrud.set = WatchedSet /\ w \in lrud.ways
    /\ \A e \in Registers : mshr[e].dirty \/ BehindCache
    /\ \A e \in mshr_handle : Index[mshr[e].line] = WatchedSet /\ rplc.way \in WaysOf
                            => BehindCache \/ (e \in mshr_sel /\ rplc.dirty)

NewestPlaced == \/ hit_last \/ StoreWaits
                \/ /\ \A e \in Registers : InRegister(e)
                   /\ \A w \in WaysOf : data[w]
                   /\ Registers = {} /\ WaysOf = {} => BehindCache

BytesInv == /\ BufferInWay /\ LrudBuffered /\ GoonFree /\ LookupData /\ VictimData
            /\ VictimOrder /\ AnsweredWritten /\ CleanBehind /\ NewestPlaced

\* The registers agree: where each line is, what each answer is for, and where
\* the newest byte is, as long as the write buffer has not lost it (dcache.v
\* and cache_interface.v).  It implies every safety
\* property above, and is inductive together with TypeOK.
DataInv == PlacesInv /\ AnswersInv /\ BytesInv
=============================================================================
