--------------------------- MODULE DataSide_proofs ---------------------------
(***************************************************************************)
(* Theorems about the data cache and its interface, for any number of      *)
(* lines, ways, miss registers and banks, and any program.                 *)
(***************************************************************************)
EXTENDS DataSide, FiniteSetTheorems, WellFoundedInduction, TLAPS

\* What may be on the request bus.
Offer == [on : BOOLEAN, line : Line, bank : Bank, wr : BOOLEAN,
          strb : SUBSET Lanes, pref : BOOLEAN]
Sound(d) == d \in Offer /\ (d.pref => ~d.wr) /\ (d.wr <=> d.strb # {})

\* The inputs of a clock edge.
Edge(d, stale, way, arready, beat, awready, wlast, b) ==
    /\ Sound(d) /\ stale \in BOOLEAN /\ way \in Ways /\ arready \in BOOLEAN
    /\ beat \in Owed \cup {NoEntry}
    /\ awready \in BOOLEAN /\ wlast \in BOOLEAN /\ b \in BOOLEAN
    /\ MemoryNext(beat, b) /\ InterfaceNext(awready, wlast)
    /\ CacheNext(d, stale, way, arready)
    /\ d.on /\ ~d.pref => core = "free"
    /\ b => WriteDue

\* The first bank and the first register are there.
LEMMA BankZero == 0 \in Bank /\ NBeats \in Nat /\ 0 \in Entry
<1>1. NBanks \in Nat \ {0} /\ BanksPerBeat \in Nat \ {0} /\ NEntries \in Nat \ {0}
  BY DcacheAssumption
<1>2. NBanks \div BanksPerBeat \in Nat
  BY <1>1
<1> QED
  BY <1>1, <1>2 DEF Bank, NBeats, Entry

\* Every step is a clock edge with some inputs.
LEMMA EdgeInputs ==
    TypeOK /\ Next => \E d, stale, way, arready, beat, awready, wlast, b :
                         Edge(d, stale, way, arready, beat, awready, wlast, b)
<1> SUFFICES ASSUME TypeOK, Next
             PROVE  \E d, stale, way, arready, beat, awready, wlast, b :
                       Edge(d, stale, way, arready, beat, awready, wlast, b)
  OBVIOUS
<1>0. \A p : When(p) \subseteq BOOLEAN
  BY DEF When
<1>1. PICK beat \in Owed \cup {NoEntry}, b \in When(WriteDue) : MemoryNext(beat, b)
  BY DEF Next, Cycle
<1>2. PICK awready \in BOOLEAN, wlast \in BOOLEAN : InterfaceNext(awready, wlast)
  BY <1>0 DEF Next, Cycle
<1>11. PICK d \in Offers, arready \in BOOLEAN :
          \E stale \in BOOLEAN,
             way \in (IF mshr_wait_go(d, vic_not_full) = {} THEN {rplc.way} ELSE Ways) :
             CacheNext(d, stale, way, arready)
  BY <1>0 DEF Next, Cycle
<1>12. PICK stale \in BOOLEAN, way \in Ways : CacheNext(d, stale, way, arready)
  BY <1>11 DEF TypeOK, DcacheTypeOK
<1>3. Idle \in Offer
  BY BankZero, DcacheAssumption DEF Idle, Offer
<1>4. program \in [loads : SUBSET (Line \X Bank),
                   stores : SUBSET (Line \X Bank \X ((SUBSET Lanes) \ {{}})),
                   prefetched : SUBSET Line]
  BY ProgramsAssumption DEF TypeOK
<1>5. ASSUME d \in Loads PROVE Sound(d)
  <2>1. PICK w \in program.loads : d = [Idle EXCEPT !.on = TRUE, !.line = w[1], !.bank = w[2]]
    BY <1>5 DEF Loads
  <2>2. w[1] \in Line /\ w[2] \in Bank
    BY <1>4
  <2> QED
    BY <2>1, <2>2, <1>3 DEF Sound, Offer, Idle
<1>6. ASSUME d \in Stores PROVE Sound(d)
  <2>1. PICK w \in program.stores :
               d = [on |-> TRUE, line |-> w[1], bank |-> w[2], wr |-> TRUE, strb |-> w[3],
                    pref |-> FALSE]
    BY <1>6 DEF Stores
  <2>2. w \in Line \X Bank \X ((SUBSET Lanes) \ {{}})
    BY <1>4
  <2>3. w[1] \in Line /\ w[2] \in Bank /\ w[3] \in (SUBSET Lanes) \ {{}}
    BY <2>2
  <2>4. PICK l \in Line, k \in Bank, m \in (SUBSET Lanes) \ {{}} :
               d = [on |-> TRUE, line |-> l, bank |-> k, wr |-> TRUE, strb |-> m, pref |-> FALSE]
    BY <2>1, <2>3
  <2>5. m \in SUBSET Lanes /\ m # {}
    OBVIOUS
  <2>6. d.strb = m /\ d.wr /\ ~d.pref
    BY <2>4
  <2>7. d \in Offer
    BY <2>4, <2>5 DEF Offer
  <2> QED
    BY <2>5, <2>6, <2>7 DEF Sound
<1>7. ASSUME d \in Prefetches PROVE Sound(d) /\ d.pref
  BY <1>3, <1>4, <1>7 DEF Prefetches, Sound, Offer, Idle
<1>8. Sound(d) /\ (d.on /\ ~d.pref => core = "free")
  <2>1. CASE d = Idle
    BY <2>1, <1>3 DEF Idle, Sound
  <2>2. CASE d \in Prefetches
    BY <2>2, <1>7
  <2>3. CASE core = "free" /\ d \in Loads \cup Stores
    BY <2>3, <1>5, <1>6
  <2> QED
    BY <1>11, <2>1, <2>2, <2>3 DEF Offers
<1>9. b \in BOOLEAN /\ (b => WriteDue)
  BY <1>1 DEF When
<1>10. Edge(d, stale, way, arready, beat, awready, wlast, b)
  BY <1>1, <1>2, <1>8, <1>9, <1>12 DEF Edge
<1> QED
  BY <1>10
----------------------------------------------------------------------------
(* What the wires of a cycle leave possible.                               *)

AddrOk(d, stale) == data_addr_ok(d, stale, vic_not_full)
Go(d) == mshr_wait_go(d, vic_not_full)

\* Lowest takes at most one register.
LEMMA LowestOne ==
    ASSUME NEW S \in SUBSET Entry
    PROVE  Lowest(S) \subseteq S /\ \A e, f \in Lowest(S) : e = f
BY DEF Lowest, Entry

\* The numbers are well founded: a set of registers has a lowest one.
LEMMA LowestExists ==
    ASSUME NEW S \in SUBSET Entry, S # {}
    PROVE  Lowest(S) # {}
<1> DEFINE R == OpToRel(<, Nat)
<1>1. S \in SUBSET Nat
  BY DEF Entry
<1>2. IsWellFoundedOn(R, Nat)
  BY NatLessThanWellFounded
<1>3. \A k, m \in Nat : k < m => <<k, m>> \in R
  BY DEF OpToRel
<1> HIDE DEF R
<1>4. PICK m \in S : \A k \in S : ~ (<<k, m>> \in R)
  BY <1>1, <1>2, WFMin, Zenon
<1>5. ASSUME NEW k \in S PROVE m <= k
  <2>1. k \in Nat /\ m \in Nat
    BY <1>1
  <2>2. ~ (k < m)
    BY <1>3, <1>4, <2>1, Zenon
  <2> QED
    BY <2>1, <2>2
<1> QED
  BY <1>5 DEF Lowest

\* A miss register that begins to move its line.
LEMMA GoFacts ==
    ASSUME NEW d, NEW e \in Go(d), LookupCurrent
    PROVE  /\ Go(d) = {e} /\ e \in Entry /\ mshr[e].st = "data" /\ mshr[e].rec = NBeats
           /\ ~wr_buff_valid /\ state \in {"idle", "block"} /\ ~tlb_finish /\ vic_not_full
           /\ mshr_handle = {} /\ mshr_sel = {} /\ mshr_rfil = {} /\ mshr_wtbk = {}
           /\ mshr_alloc = {} /\ mshr_hit = {}
<1> DEFINE R == mshr_rfil_ready(d, vic_not_full)
<1>1. mshr_handle = {} /\ e \in Lowest(R)
  BY DEF Go, mshr_wait_go
<1>2. R \in SUBSET Entry
  BY DEF mshr_rfil_ready
<1>3. e \in R /\ Go(d) = {e}
  BY <1>1, <1>2, LowestOne DEF Go, mshr_wait_go
<1>4. /\ e \in Entry /\ mshr[e].st = "data" /\ mshr[e].rec = NBeats
      /\ ~wr_buff_valid /\ state \in {"idle", "block"} /\ vic_not_full
  BY <1>3 DEF mshr_rfil_ready
<1>5. ~tlb_finish
  BY <1>4 DEF LookupCurrent
<1>6. mshr_alloc = {} /\ mshr_hit = {}
  BY <1>4, <1>5 DEF mshr_alloc, mshr_hit, cache_miss, tlb_valid_finish
<1> QED
  BY <1>1, <1>3, <1>4, <1>5, <1>6 DEF mshr_sel, mshr_rfil, mshr_wtbk

\* A request that is taken has the arrays to itself.
LEMMA TakenFacts ==
    ASSUME NEW d, NEW stale, AddrOk(d, stale), LookupCurrent
    PROVE  /\ d.on /\ state \in {"idle", "lkup"} /\ mshr_rfil = {} /\ Go(d) = {}
           /\ ~(state = "lkup" /\ mshr_full)
           /\ d.pref \/ (mshr_handle = {} /\ ~load_miss_exist /\ ~st_ld_conflict(d, stale))
<1>1. d.on /\ state \in {"idle", "lkup"} /\ mshr_rfil = {}
  BY DEF AddrOk, data_addr_ok, pre_req_addr_ok, LookupCurrent, tlb_valid_finish, mshr_rfil
<1>2. Go(d) = {}
  BY <1>1 DEF Go, mshr_wait_go, mshr_rfil_ready, Lowest
<1>3. ~(state = "lkup" /\ mshr_full)
  BY DEF AddrOk, data_addr_ok, pre_req_addr_ok
<1>4. d.pref \/ (mshr_handle = {} /\ ~load_miss_exist /\ ~st_ld_conflict(d, stale))
  BY DEF AddrOk, data_addr_ok, pre_req_addr_ok
<1> QED
  BY <1>1, <1>2, <1>3, <1>4

\* A lookup finds the line in the arrays, in a miss register or in neither.
LEMMA LookupFacts ==
    ASSUME TypeOK, Apart, TagsInSets, LookupCurrent, tlb_finish
    PROVE  /\ state = "lkup"
           /\ \A w \in Ways : w \in way_hit <=> Holds(w, req.line)
           /\ way_hit # {} => mshr_hit = {}
<1>1. req.line \in Line /\ Index[req.line] \in Sets /\ state = "lkup"
  BY DEF TypeOK, DcacheTypeOK, Request, Sets, LookupCurrent
<1>2. \A w \in Ways : tagq[w] = tag[Index[req.line]][w]
  BY DEF LookupCurrent
<1>3. ASSUME NEW w \in Ways PROVE w \in way_hit <=> Holds(w, req.line)
  <2> DEFINE t == tag[Index[req.line]][w]
  <2>1. t \in Line \cup {NoLine}
    BY <1>1 DEF TypeOK, DcacheTypeOK
  <2>2. t # NoLine => Index[t] = Index[req.line]
    BY <1>1 DEF TagsInSets
  <2>3. t # NoLine /\ Tag[t] = Tag[req.line] => t = req.line
    BY <1>1, <2>1, <2>2, DcacheAssumption
  <2> QED
    BY <1>1, <1>2, <2>3, DcacheAssumption DEF way_hit, Holds
<1>4. ASSUME NEW w \in way_hit, NEW e \in mshr_hit PROVE FALSE
  BY <1>1, <1>3, <1>4 DEF way_hit, mshr_hit, Apart, Collects
<1> QED
  BY <1>1, <1>3, <1>4

----------------------------------------------------------------------------
(* What a clock edge does to each register.                                *)

\* The miss register whose read the bus takes.
RdTaken(arready) == IF d_scread_req /\ arready THEN rd_entry ELSE NoEntry

\* What an edge does, handler by handler.
LEMMA EdgeFacts ==
    ASSUME NEW d, NEW stale, NEW way, NEW arready, NEW beat, NEW awready, NEW wlast, NEW b,
           Edge(d, stale, way, arready, beat, awready, wlast, b)
    PROVE  /\ StateNext(AddrOk(d, stale)) /\ WriteBufferNext(d, stale) /\ SendNext
           /\ WritePathNext(stale, AddrOk(d, stale))
           /\ ArraysNext(d, stale, AddrOk(d, stale), Go(d)) /\ DirtyNext(Go(d))
           /\ InterfaceNext(awready, wlast) /\ MemoryNext(beat, b)
           /\ CoreNext(d, AddrOk(d, stale))
           /\ tlb_finish' = AddrOk(d, stale)
           /\ lsu_recv' = ((lsu_recv \/ AddrOk(d, stale)) /\ ~data_data_ok)
           /\ cnt' = (mshr_sel # {} /\ (vic_vacancy \/ ~replaced_dirty))
           /\ mshr' = [e \in Entry |-> MshrEntry(e, ret, RdTaken(arready) = e, Go(d))]
BY DEF Edge, CacheNext, DcacheNext, AddrOk, Go, RdTaken

\* The request registers take what is on the bus, keep their values or are cleared.
LEMMA RequestNext ==
    ASSUME NEW d, NEW stale, NEW way, NEW arready, NEW beat, NEW awready, NEW wlast, NEW b,
           Edge(d, stale, way, arready, beat, awready, wlast, b)
    PROVE  /\ AddrOk(d, stale) =>
                req' = [line |-> d.line, bank |-> d.bank, wr |-> d.wr, strb |-> d.strb,
                        pref |-> d.pref]
           /\ ~AddrOk(d, stale) => req' = req \/ (state' = "idle" /\ req' = NoRequest)
BY DEF Edge, CacheNext, DcacheNext, AddrOk, Go, RdTaken

\* The way to replace is chosen when a move begins and kept until it ends.
LEMMA RplcNext ==
    ASSUME NEW d, NEW stale, NEW way, NEW arready, NEW beat, NEW awready, NEW wlast, NEW b,
           Edge(d, stale, way, arready, beat, awready, wlast, b)
    PROVE  /\ Go(d) # {} =>
                rplc' = [way |-> way, dirty |-> \E e \in Go(d) : dirty[Index[mshr[e].line]][way]]
           /\ Go(d) = {} /\ mshr_sel # {} => rplc' = rplc
           /\ Go(d) = {} /\ mshr_sel = {} => rplc' = NoRplc
BY DEF Edge, CacheNext, DcacheNext, AddrOk, Go, RdTaken

\* A read is taken for a register that asks for one, and for no victim's line.
LEMMA ReadFacts ==
    ASSUME NEW arready, NEW e \in Entry, RdTaken(arready) = e
    PROVE  mshr[e].st = "addr" /\ \A s \in vic_valid : vic[s].line # mshr[e].line
<1>1. d_scread_req /\ rd_entry = e
  BY DEF RdTaken, NoEntry, Entry
<1>2. rd_req # {} /\ rd_req \in SUBSET Entry /\ vic_hit = {}
  BY <1>1 DEF d_scread_req, rd_req
<1>3. e \in rd_req
  BY <1>1, <1>2, LowestOne, LowestExists DEF rd_entry
<1> QED
  BY <1>1, <1>2, <1>3 DEF vic_hit, rd_req

\* A miss register is allocated, freed, or goes on with its line.
LEMMA MshrNext ==
    ASSUME NEW d, NEW stale, NEW way, NEW arready, NEW beat, NEW awready, NEW wlast, NEW b,
           Edge(d, stale, way, arready, beat, awready, wlast, b), NEW e \in Entry
    PROVE  /\ e \in mshr_alloc =>
                /\ mshr'[e].st = "addr" /\ mshr'[e].line = req.line /\ mshr'[e].rec = 0
                /\ mshr'[e].dirty = req.wr
           /\ e \notin mshr_alloc /\ e \in mshr_rfil => mshr'[e] = FreeMshr
           /\ e \notin mshr_alloc /\ e \notin mshr_rfil =>
                /\ mshr'[e].st = IF mshr[e].st = "addr" /\ RdTaken(arready) = e THEN "data"
                                 ELSE IF e \in Go(d) THEN "handle" ELSE mshr[e].st
                /\ mshr'[e].line = mshr[e].line
                /\ mshr'[e].rec = IF ret.entry = e THEN mshr[e].rec + 1 ELSE mshr[e].rec
                /\ mshr'[e].dirty = (mshr[e].dirty \/ (e \in mshr_hit /\ req.wr))
<1>1. mshr'[e] = MshrEntry(e, ret, RdTaken(arready) = e, Go(d))
  BY EdgeFacts
<1> QED
  BY <1>1 DEF MshrEntry

LEMMA AllocFacts ==
    ASSUME NEW e \in mshr_alloc, TypeOK, Apart, TagsInSets, LookupCurrent, BlockedAbsent
    PROVE  /\ mshr_alloc = {e} /\ e \in Entry /\ mshr[e].st = "idle"
           /\ \A w \in Ways : ~Holds(w, req.line)
           /\ \A f \in Entry : ~Collects(f, req.line)
           /\ tlb_finish \/ state = "goon"
<1> DEFINE F == {f \in Entry : mshr[f].st = "idle"}
<1>1. mshr_alloc = Lowest(F) /\ mshr_hit = {} /\ (cache_miss \/ state = "goon")
  BY DEF mshr_alloc
<1>2. F \in SUBSET Entry
  OBVIOUS
<1>3. mshr_alloc = {e} /\ e \in F
  BY <1>1, <1>2, LowestOne
<1>4. CASE state = "goon"
  BY <1>3, <1>4 DEF BlockedAbsent
<1>5. CASE cache_miss
  <2>1. tlb_finish /\ tlb_valid_finish /\ way_hit = {}
    BY <1>5 DEF cache_miss, tlb_valid_finish
  <2> QED
    BY <1>1, <1>3, <2>1, LookupFacts DEF mshr_hit, Collects
<1> QED
  BY <1>1, <1>4, <1>5

\* The tag array changes when a line is moved there.
LEMMA TagNext ==
    ASSUME NEW d, NEW stale, NEW way, NEW arready, NEW beat, NEW awready, NEW wlast, NEW b,
           Edge(d, stale, way, arready, beat, awready, wlast, b), TypeOK, OneHandle,
           NEW s \in Sets, NEW w \in Ways
    PROVE  /\ \A e \in mshr_rfil : Index[mshr[e].line] = s /\ w = rplc.way
                                   => tag'[s][w] = mshr[e].line
           /\ (\A e \in mshr_rfil : Index[mshr[e].line] # s \/ w # rplc.way)
              => tag'[s][w] = tag[s][w]
<1>1. tag'[s][w] = IF \E e \in mshr_rfil : Index[mshr[e].line] = s /\ w = rplc.way
                   THEN mshr[CHOOSE e \in mshr_rfil : TRUE].line
                   ELSE tag[s][w]
  <2>1. tag' = [u \in Sets |-> [v \in Ways |->
                  IF \E e \in mshr_rfil : Index[mshr[e].line] = u /\ v = rplc.way
                  THEN mshr[CHOOSE e \in mshr_rfil : TRUE].line
                  ELSE tag[u][v]]]
    BY EdgeFacts DEF ArraysNext
  <2> QED
    BY <2>1
<1>2. \A e \in mshr_rfil : e = CHOOSE f \in mshr_rfil : TRUE
  BY DEF OneHandle, mshr_rfil
<1> QED
  BY <1>1, <1>2

\* And only then.
LEMMA TagKept ==
    ASSUME NEW d, NEW stale, NEW way, NEW arready, NEW beat, NEW awready, NEW wlast, NEW b,
           Edge(d, stale, way, arready, beat, awready, wlast, b), TypeOK, mshr_rfil = {}
    PROVE  tag' = tag
<1>1. tag' = [u \in Sets |-> [v \in Ways |->
                IF \E e \in mshr_rfil : Index[mshr[e].line] = u /\ v = rplc.way
                THEN mshr[CHOOSE e \in mshr_rfil : TRUE].line
                ELSE tag[u][v]]]
  BY EdgeFacts DEF ArraysNext
<1>2. tag' = [u \in Sets |-> [v \in Ways |-> tag[u][v]]]
  BY <1>1
<1>3. tag \in [Sets -> [Ways -> Line \cup {NoLine}]]
  BY DEF TypeOK, DcacheTypeOK
<1>4. \A u \in Sets : tag[u] = [v \in Ways |-> tag[u][v]]
  BY <1>3
<1> QED
  BY <1>2, <1>3, <1>4

\* The line to be replaced is read from the arrays.
LEMMA ReplacedRead ==
    ASSUME NEW d, NEW stale, NEW way, NEW arready, NEW beat, NEW awready, NEW wlast, NEW b,
           Edge(d, stale, way, arready, beat, awready, wlast, b), NEW e, Go(d) = {e}
    PROVE  /\ tagq' = tag[Index[mshr[e].line]]
           /\ Index[mshr[e].line] = WatchedSet => dataq' = [w \in Ways |-> Keep(data[w])]
<1> DEFINE I == {Index[mshr[f].line] : f \in Go(d)}
           S == CHOOSE s \in I : TRUE
<1>1. S = Index[mshr[e].line]
  <2>1. I = {Index[mshr[e].line]}
    OBVIOUS
  <2> QED
    BY <2>1
<1>2. tagq' = tag[S] /\ (S = WatchedSet => dataq' = [w \in Ways |-> Keep(data[w])])
  BY EdgeFacts DEF ArraysNext
<1> QED
  BY <1>1, <1>2

\* Every register that is busy after an edge has been allocated in it or was
\* busy with the same line.
LEMMA BusyNext ==
    ASSUME NEW d, NEW stale, NEW way, NEW arready, NEW beat, NEW awready, NEW wlast, NEW b,
           Edge(d, stale, way, arready, beat, awready, wlast, b), TypeOK, PlacesInv,
           NEW e \in Entry
    PROVE  /\ mshr'[e].st # "idle" =>
                \/ e \in mshr_alloc /\ mshr'[e].st = "addr" /\ mshr'[e].line = req.line
                \/ /\ e \notin mshr_alloc /\ e \notin mshr_rfil
                   /\ mshr[e].st # "idle" /\ mshr'[e].line = mshr[e].line
           /\ mshr'[e].st = "data" =>
                \/ mshr[e].st = "data" /\ e \notin Go(d)
                \/ mshr[e].st = "addr" /\ RdTaken(arready) = e
           /\ mshr'[e].st = "handle" => e \in Go(d) \/ (mshr[e].st = "handle" /\ e \notin mshr_rfil)
           /\ mshr[e].st = "data" => mshr'[e].st \in {"data", "handle"}
<1>1. e \in Go(d) => mshr[e].st = "data"
  BY GoFacts DEF PlacesInv
<1>2. e \in mshr_alloc => mshr[e].st = "idle"
  BY AllocFacts DEF PlacesInv
<1>3. e \in mshr_rfil => mshr[e].st = "handle"
  BY DEF mshr_rfil, mshr_handle
<1>4. FreeMshr.st = "idle"
  BY DEF FreeMshr
<1> QED
  BY <1>1, <1>2, <1>3, <1>4, MshrNext

\* Beats, moves, lookups and blocked requests, one edge later.
LEMMA PlacesStep ==
    ASSUME NEW d, NEW stale, NEW way, NEW arready, NEW beat, NEW awready, NEW wlast, NEW b,
           Edge(d, stale, way, arready, beat, awready, wlast, b), TypeOK, PlacesInv
    PROVE  /\ BeatDue' /\ WholeLine' /\ OneHandle' /\ TagsInSets' /\ LookupCurrent'
           /\ BlockedAbsent' /\ VictimRead'
<1>0. /\ BeatDue /\ WholeLine /\ OneHandle /\ TagsInSets /\ Apart /\ LookupCurrent
      /\ BlockedAbsent /\ VictimRead /\ VictimsAway
  BY DEF PlacesInv
<1>1. BeatDue'
  <2> SUFFICES ASSUME ret'.entry # NoEntry
               PROVE  mshr'[ret'.entry].st = "data" /\ mshr'[ret'.entry].rec < NBeats
    BY DEF BeatDue
  <2>1. beat \in Owed /\ ret'.entry = beat
    BY EdgeFacts DEF MemoryNext, Beat, NoBeat, Edge
  <2>2. /\ beat \in Entry /\ mshr[beat].st = "data"
        /\ mshr[beat].rec + (IF ret.entry = beat THEN 1 ELSE 0) < NBeats
    BY <2>1 DEF Owed
  <2>3. mshr[beat].rec \in Nat /\ NBeats \in Nat
    BY <2>2, BankZero DEF TypeOK, DcacheTypeOK
  <2>4. beat \notin Go(d)
    BY <1>0, <2>2, <2>3, GoFacts
  <2>5. beat \notin mshr_alloc /\ beat \notin mshr_rfil
    BY <1>0, <2>2, AllocFacts DEF mshr_rfil, mshr_handle
  <2>6. /\ mshr'[beat].st = "data"
        /\ mshr'[beat].rec = IF ret.entry = beat THEN mshr[beat].rec + 1 ELSE mshr[beat].rec
    BY <2>2, <2>4, <2>5, MshrNext
  <2> QED
    BY <2>1, <2>2, <2>3, <2>6
<1>2. WholeLine'
  <2> SUFFICES ASSUME NEW e \in Entry, mshr'[e].st = "handle" PROVE mshr'[e].rec = NBeats
    BY DEF WholeLine, mshr_handle
  <2>1. e \notin mshr_alloc /\ e \notin mshr_rfil
    BY MshrNext DEF FreeMshr
  <2>2. mshr[e].rec = NBeats /\ mshr[e].st \in {"data", "handle"}
    BY <1>0, BusyNext, GoFacts DEF WholeLine, mshr_handle
  <2>3. ret.entry # e
    BY <1>0, <2>2, BankZero DEF BeatDue, NoEntry, Entry
  <2> QED
    BY <2>1, <2>2, <2>3, MshrNext
<1>3. OneHandle'
  <2> SUFFICES ASSUME NEW e \in Entry, NEW f \in Entry,
                      mshr'[e].st = "handle", mshr'[f].st = "handle"
               PROVE  e = f
    BY DEF OneHandle, mshr_handle
  <2>1. CASE Go(d) # {}
    BY <1>0, <2>1, BusyNext, GoFacts DEF mshr_handle
  <2>2. CASE Go(d) = {}
    BY <1>0, <2>2, BusyNext DEF OneHandle, mshr_handle
  <2> QED
    BY <2>1, <2>2
<1>4. TagsInSets'
  <2> SUFFICES ASSUME NEW s \in Sets, NEW w \in Ways, tag'[s][w] # NoLine
               PROVE  Index[tag'[s][w]] = s
    BY DEF TagsInSets
  <2>1. CASE \E e \in mshr_rfil : Index[mshr[e].line] = s /\ w = rplc.way
    BY <1>0, <2>1, TagNext
  <2>2. CASE \A e \in mshr_rfil : Index[mshr[e].line] # s \/ w # rplc.way
    BY <1>0, <2>2, TagNext DEF TagsInSets
  <2> QED
    BY <2>1, <2>2
<1>5. LookupCurrent'
  <2> SUFFICES ASSUME AddrOk(d, stale)
               PROVE  /\ state' = "lkup" /\ tagq' = tag'[Index[req'.line]]
                      /\ req'.pref \/ mshr_handle' = {}
    BY EdgeFacts DEF LookupCurrent
  <2>1. /\ d.on /\ state \in {"idle", "lkup"} /\ mshr_rfil = {} /\ Go(d) = {}
        /\ ~(state = "lkup" /\ mshr_full)
        /\ d.pref \/ mshr_handle = {}
    BY <1>0, TakenFacts
  <2>2. req'.line = d.line /\ req'.pref = d.pref
    BY RequestNext
  <2>3. state' = "lkup"
    BY <2>1, EdgeFacts DEF StateNext
  <2>4. d.line \in Line /\ Index[d.line] \in Sets
    BY DEF Edge, Sound, Offer, Sets
  <2>5. tagq' = tag[Index[d.line]]
    BY <2>1, EdgeFacts DEF ArraysNext
  <2>6. tag' = tag
    BY <2>1, TagKept
  <2>7. d.pref \/ mshr_handle' = {}
    BY <2>1, BusyNext DEF mshr_handle
  <2> QED
    BY <2>2, <2>3, <2>5, <2>6, <2>7
<1>6. BlockedAbsent'
  <2> SUFFICES ASSUME state' \in {"block", "goon"}
               PROVE  /\ \A w \in Ways : tag'[Index[req'.line]][w] # req'.line
                      /\ \A e \in Entry : ~(mshr'[e].st # "idle" /\ mshr'[e].line = req'.line)
    BY DEF BlockedAbsent, Holds, Collects
  <2>1. /\ ~AddrOk(d, stale) /\ mshr_alloc = {} /\ state \in {"lkup", "block"}
        /\ \A w \in Ways : ~Holds(w, req.line)
        /\ \A e \in Entry : ~Collects(e, req.line)
    <3>0. state \in {"idle", "lkup", "block", "goon"}
      BY DEF TypeOK, DcacheTypeOK
    <3>1. CASE state = "lkup"
      <4>1. cache_miss /\ mshr_hit = {} /\ mshr_full
        BY <3>1, EdgeFacts DEF StateNext
      <4>2. tlb_finish /\ tlb_valid_finish /\ way_hit = {}
        BY <4>1 DEF cache_miss, tlb_valid_finish
      <4>3. {e \in Entry : mshr[e].st = "idle"} = {}
        BY <4>1 DEF mshr_full
      <4>4. mshr_alloc = {}
        BY <4>3 DEF mshr_alloc, Lowest
      <4>5. ~AddrOk(d, stale)
        BY <1>0, <3>1, <4>1, TakenFacts
      <4> QED
        BY <1>0, <3>1, <4>1, <4>2, <4>4, <4>5, LookupFacts DEF mshr_hit, Collects
    <3>2. CASE state = "block"
      <4>1. ~tlb_finish /\ ~AddrOk(d, stale)
        BY <1>0, <3>2, TakenFacts DEF LookupCurrent
      <4>2. mshr_alloc = {}
        BY <3>2, <4>1 DEF mshr_alloc
      <4> QED
        BY <1>0, <3>2, <4>1, <4>2 DEF BlockedAbsent
    <3>3. CASE state \in {"idle", "goon"}
      BY <3>3, EdgeFacts DEF StateNext
    <3> QED
      BY <3>0, <3>1, <3>2, <3>3
  <2>2. req' = req /\ req.line \in Line /\ Index[req.line] \in Sets
    BY <2>1, RequestNext DEF TypeOK, DcacheTypeOK, Request, Sets
  <2>3. ASSUME NEW e \in Entry PROVE ~(mshr'[e].st # "idle" /\ mshr'[e].line = req.line)
    BY <2>1, BusyNext DEF Collects
  <2>4. ASSUME NEW w \in Ways PROVE tag'[Index[req.line]][w] # req.line
    <3>1. \A e \in mshr_rfil : mshr[e].line # req.line
      BY <2>1 DEF Collects, mshr_rfil, mshr_handle
    <3> QED
      BY <1>0, <2>1, <2>2, <3>1, TagNext DEF Holds
  <2> QED
    BY <2>2, <2>3, <2>4
<1>7. VictimRead'
  <2> SUFFICES ASSUME ~cnt', NEW e \in Entry, mshr'[e].st = "handle"
               PROVE  vic_not_full' /\ tagq' = tag'[Index[mshr'[e].line]]
    BY DEF VictimRead, mshr_sel, mshr_handle
  <2>1. e \in Go(d)
    <3>1. CASE mshr_sel # {}
      <4>1. vic_vacancy
        BY <1>0, <3>1 DEF VictimRead, vic_not_full, vic_vacancy
      <4> QED
        BY <3>1, <4>1, EdgeFacts
    <3>2. CASE mshr_sel = {}
      BY <3>2, BusyNext DEF mshr_sel, mshr_rfil, mshr_handle
    <3> QED
      BY <3>1, <3>2
  <2>2. /\ Go(d) = {e} /\ vic_not_full /\ mshr_handle = {} /\ mshr_rfil = {} /\ mshr_wtbk = {}
        /\ mshr_alloc = {}
    BY <1>0, <2>1, GoFacts
  <2>3. tagq' = tag[Index[mshr[e].line]]
    BY <2>2, ReplacedRead
  <2>4. tag' = tag /\ mshr'[e].line = mshr[e].line
    BY <2>2, TagKept, MshrNext
  <2>5. vic_not_full'
    <3>1. vic' = [s \in Slot |-> NewVictim(s)]
      BY EdgeFacts DEF InterfaceNext
    <3>2. \A s \in Slot : vic'[s].line # NoLine => vic[s].line # NoLine
      BY <2>2, <3>1 DEF NewVictim, vic_push, NoVictim
    <3> QED
      BY <2>2, <3>2 DEF vic_not_full, vic_valid
  <2> QED
    BY <2>3, <2>4, <2>5
<1> QED
  BY <1>1, <1>2, <1>3, <1>4, <1>5, <1>6, <1>7

\* The line that becomes a victim is the one the moved line replaces.
LEMMA PushFacts ==
    ASSUME TypeOK, PlacesInv, NEW e \in mshr_wtbk
    PROVE  /\ e \in Entry /\ mshr_handle = {e} /\ mshr_sel = {e} /\ mshr_rfil = {} /\ ~cnt
           /\ replaced_dirty /\ mshr[e].st = "handle" /\ vic_not_full /\ vic_vacancy
           /\ wr_line = tagq[rplc.way] /\ wr_line \in Line
           /\ Index[wr_line] = Index[mshr[e].line] /\ Holds(rplc.way, wr_line)
<1>1. replaced_dirty /\ ~cnt /\ mshr_wtbk = mshr_handle /\ mshr_sel = mshr_handle /\ mshr_rfil = {}
  BY DEF mshr_wtbk, mshr_sel, mshr_rfil
<1>2. mshr_handle = {e} /\ e \in Entry /\ mshr[e].st = "handle"
  BY <1>1 DEF PlacesInv, OneHandle, mshr_handle
<1>3. vic_not_full /\ tagq = tag[Index[mshr[e].line]]
  BY <1>1 DEF PlacesInv, VictimRead
<1>4. (CHOOSE f \in mshr_wtbk : TRUE) = e
  BY <1>1, <1>2
<1> DEFINE t == tagq[rplc.way]
<1>5. t \in Line /\ t # NoLine
  BY <1>1 DEF TypeOK, DcacheTypeOK, replaced_dirty
<1>6. mshr[e].line \in Line /\ Index[mshr[e].line] \in Sets /\ rplc.way \in Ways
  BY <1>2 DEF TypeOK, DcacheTypeOK, Sets
<1>7. Index[t] = Index[mshr[e].line]
  BY <1>3, <1>5, <1>6 DEF PlacesInv, TagsInSets
<1>8. LineAt(Tag[t], Index[t]) = t
  BY <1>5, DcacheAssumption DEF LineAt
<1>9. wr_line = t
  BY <1>4, <1>7, <1>8 DEF wr_line
<1> QED
  BY <1>1, <1>2, <1>3, <1>5, <1>6, <1>7, <1>9 DEF vic_not_full, vic_vacancy, Holds

\* A slot of the victim buffer takes the pushed line, is freed, or stays.
LEMMA VicNext ==
    ASSUME NEW d, NEW stale, NEW way, NEW arready, NEW beat, NEW awready, NEW wlast, NEW b,
           Edge(d, stale, way, arready, beat, awready, wlast, b), TypeOK, PlacesInv,
           NEW s \in Slot
    PROVE  /\ mshr_wtbk # {} /\ s = vic_push_p =>
                /\ vic'[s].line = wr_line
                /\ vic'[s].cur = (wr_line = Watched.line /\ Keep(dataq[rplc.way]))
           /\ ~(mshr_wtbk # {} /\ s = vic_push_p) /\ bvalid_reg /\ s = vic_pop_p =>
                vic'[s].line = NoLine
           /\ ~(mshr_wtbk # {} /\ s = vic_push_p) /\ ~(bvalid_reg /\ s = vic_pop_p) =>
                vic'[s].line = vic[s].line /\ vic'[s].cur = Keep(vic[s].cur)
<1>1. mshr_wtbk # {} => vic_vacancy
  BY PushFacts
<1>2. vic'[s] = NewVictim(s)
  BY EdgeFacts DEF InterfaceNext
<1>3. NoVictim.line = NoLine
  BY DEF NoVictim
<1> QED
  BY <1>1, <1>2, <1>3 DEF NewVictim, vic_push, vic_pop

\* A line that is allocated or moved is nowhere else.
LEMMA ApartStep ==
    ASSUME NEW d, NEW stale, NEW way, NEW arready, NEW beat, NEW awready, NEW wlast, NEW b,
           Edge(d, stale, way, arready, beat, awready, wlast, b), TypeOK, PlacesInv
    PROVE  Apart'
<1>0. /\ OneHandle /\ TagsInSets /\ Apart /\ LookupCurrent /\ BlockedAbsent
  BY DEF PlacesInv
<1> SUFFICES ASSUME NEW l \in Line
             PROVE  /\ \A v, w \in Ways : tag'[Index[l]][v] = l /\ tag'[Index[l]][w] = l => v = w
                    /\ \A e, f \in Entry : (/\ mshr'[e].st # "idle" /\ mshr'[e].line = l
                                            /\ mshr'[f].st # "idle" /\ mshr'[f].line = l) => e = f
                    /\ \A w \in Ways, e \in Entry :
                          ~(tag'[Index[l]][w] = l /\ mshr'[e].st # "idle" /\ mshr'[e].line = l)
  BY DEF Apart, Holds, Collects
<1>1. Index[l] \in Sets
  BY DEF Sets
<1>2. ASSUME NEW w \in Ways, tag'[Index[l]][w] = l
      PROVE  \/ Holds(w, l) /\ \A e \in mshr_rfil : Index[mshr[e].line] # Index[l] \/ w # rplc.way
             \/ w = rplc.way /\ \E e \in mshr_rfil : mshr[e].line = l
  BY <1>0, <1>1, <1>2, TagNext DEF Holds
<1>3. \A e \in mshr_rfil : e \in Entry /\ mshr[e].st = "handle"
  BY DEF mshr_rfil, mshr_handle
<1>4. ASSUME NEW e \in Entry, mshr'[e].st # "idle", mshr'[e].line = l
      PROVE  \/ /\ mshr_alloc = {e} /\ \A w \in Ways : ~Holds(w, l)
                /\ \A f \in Entry : ~Collects(f, l)
             \/ Collects(e, l) /\ e \notin mshr_rfil /\ e \notin mshr_alloc
  BY <1>0, <1>4, BusyNext, AllocFacts DEF Collects
<1>5. \A v, w \in Ways : tag'[Index[l]][v] = l /\ tag'[Index[l]][w] = l => v = w
  BY <1>0, <1>2, <1>3 DEF Apart, Collects
<1>6. \A e, f \in Entry : (/\ mshr'[e].st # "idle" /\ mshr'[e].line = l
                          /\ mshr'[f].st # "idle" /\ mshr'[f].line = l) => e = f
  BY <1>0, <1>4 DEF Apart
<1>7. \A w \in Ways, e \in Entry :
         ~(tag'[Index[l]][w] = l /\ mshr'[e].st # "idle" /\ mshr'[e].line = l)
  BY <1>0, <1>2, <1>3, <1>4 DEF Apart, Collects
<1> QED
  BY <1>5, <1>6, <1>7

\* A victim is read back only after its write, and no sooner held or collected.
LEMMA VictimsStep ==
    ASSUME NEW d, NEW stale, NEW way, NEW arready, NEW beat, NEW awready, NEW wlast, NEW b,
           Edge(d, stale, way, arready, beat, awready, wlast, b), TypeOK, PlacesInv
    PROVE  VictimsAway'
<1>0. /\ OneHandle /\ TagsInSets /\ Apart /\ VictimsAway
  BY DEF PlacesInv
<1> DEFINE Pushed(s) == mshr_wtbk # {} /\ s = vic_push_p
           LeavingNext(w, l) == \E e \in mshr_rfil' : /\ Index[mshr'[e].line] = Index[l]
                                                      /\ w = rplc'.way
<1>1. ASSUME NEW s \in Slot, vic'[s].line # NoLine
      PROVE  \/ Pushed(s) /\ vic'[s].line = wr_line
             \/ ~Pushed(s) /\ s \in vic_valid /\ vic'[s].line = vic[s].line
  <2>1. CASE Pushed(s)
    BY <2>1, VicNext
  <2>2. CASE ~Pushed(s)
    <3>1. ~(bvalid_reg /\ s = vic_pop_p)
      BY <1>1, <2>2, VicNext DEF NoVictim
    <3>2. vic'[s].line = vic[s].line
      BY <2>2, <3>1, VicNext
    <3> QED
      BY <1>1, <2>2, <3>2 DEF vic_valid
  <2> QED
    BY <2>1, <2>2
<1>2. ASSUME NEW e \in Entry, mshr'[e].st \in {"data", "handle"}
      PROVE  /\ mshr'[e].line = mshr[e].line /\ mshr[e].st # "idle"
             /\ mshr[e].st \in {"data", "handle"} \/ RdTaken(arready) = e
  BY <1>2, BusyNext, GoFacts DEF PlacesInv
<1>3. ASSUME NEW s \in vic_valid, NEW e \in Entry, mshr'[e].st \in {"data", "handle"}
      PROVE  mshr'[e].line # vic[s].line
  BY <1>0, <1>2, <1>3, ReadFacts DEF VictimsAway
<1>4. ASSUME NEW s \in vic_valid, NEW w \in Ways PROVE tag'[Index[vic[s].line]][w] # vic[s].line
  <2> DEFINE l == vic[s].line
  <2>1. l \in Line /\ Index[l] \in Sets
    BY DEF TypeOK, InterfaceTypeOK, vic_valid, Sets
  <2>2. \A e \in mshr_rfil : mshr[e].line # l
    BY <1>0 DEF VictimsAway, mshr_rfil, mshr_handle
  <2>3. CASE \E e \in mshr_rfil : Index[mshr[e].line] = Index[l] /\ w = rplc.way
    BY <1>0, <2>1, <2>2, <2>3, TagNext
  <2>4. CASE \A e \in mshr_rfil : Index[mshr[e].line] # Index[l] \/ w # rplc.way
    BY <1>0, <2>1, <2>4, TagNext DEF VictimsAway, Leaving, Holds
  <2> QED
    BY <2>3, <2>4
<1>5. ASSUME NEW e \in mshr_wtbk
      PROVE  /\ \A f \in Entry : mshr'[f].st \in {"data", "handle"} => mshr'[f].line # wr_line
             /\ \A w \in Ways : tag'[Index[wr_line]][w] = wr_line => LeavingNext(w, wr_line)
             /\ \A s \in vic_valid : vic[s].line # wr_line
  <2>1. /\ e \in Entry /\ mshr_handle = {e} /\ mshr_sel = {e} /\ mshr_rfil = {}
        /\ mshr[e].st = "handle" /\ vic_vacancy
        /\ wr_line \in Line /\ Index[wr_line] = Index[mshr[e].line] /\ Holds(rplc.way, wr_line)
    BY PushFacts
  <2>2. rplc.way \in Ways
    BY DEF TypeOK, DcacheTypeOK
  <2>3. \A f \in Entry : ~Collects(f, wr_line)
    BY <1>0, <2>1, <2>2 DEF Apart
  <2>4. \A f \in Entry : mshr'[f].st \in {"data", "handle"} => mshr'[f].line # wr_line
    BY <1>2, <2>3 DEF Collects
  <2>5. \A s \in vic_valid : vic[s].line # wr_line
    BY <1>0, <2>1, <2>2 DEF VictimsAway, Leaving
  <2>6. \A w \in Ways : tag'[Index[wr_line]][w] = wr_line => w = rplc.way
    BY <1>0, <2>1, <2>2, TagKept DEF Apart, Holds
  <2>7. Go(d) = {}
    BY <2>1, GoFacts DEF PlacesInv
  <2>8. cnt' /\ rplc' = rplc
    BY <2>1, <2>7, EdgeFacts, RplcNext
  <2>9. e \notin mshr_alloc
    BY <2>1, AllocFacts DEF PlacesInv
  <2>10. mshr'[e].st = "handle" /\ mshr'[e].line = mshr[e].line
    BY <2>1, <2>7, <2>9, MshrNext
  <2>11. e \in mshr_rfil'
    BY <2>1, <2>8, <2>10 DEF mshr_rfil, mshr_handle
  <2>12. \A w \in Ways : w = rplc.way => LeavingNext(w, wr_line)
    BY <2>1, <2>8, <2>10, <2>11
  <2> HIDE DEF LeavingNext
  <2> QED
    BY <2>4, <2>5, <2>6, <2>12
<1> SUFFICES ASSUME NEW s \in Slot, vic'[s].line # NoLine
             PROVE  /\ \A e \in Entry : mshr'[e].st \in {"data", "handle"}
                                        => mshr'[e].line # vic'[s].line
                    /\ \A w \in Ways : tag'[Index[vic'[s].line]][w] = vic'[s].line
                                      => LeavingNext(w, vic'[s].line)
                    /\ \A t \in Slot : vic'[t].line # NoLine /\ vic'[s].line = vic'[t].line => s = t
  BY DEF VictimsAway, Leaving, Holds, vic_valid
<1> HIDE DEF LeavingNext
<1>6. CASE Pushed(s)
  <2>1. vic'[s].line = wr_line /\ mshr_wtbk # {}
    BY <1>6, VicNext
  <2>2. ASSUME NEW t \in Slot, vic'[t].line # NoLine, vic'[s].line = vic'[t].line PROVE s = t
    BY <1>1, <1>5, <1>6, <2>1, <2>2
  <2> QED
    BY <1>5, <2>1, <2>2
<1>7. CASE ~Pushed(s)
  <2>1. s \in vic_valid /\ vic'[s].line = vic[s].line
    BY <1>1, <1>7
  <2>2. ASSUME NEW t \in Slot, vic'[t].line # NoLine, vic'[s].line = vic'[t].line PROVE s = t
    <3>1. CASE Pushed(t)
      BY <1>5, <2>1, <2>2, <3>1, VicNext
    <3>2. CASE ~Pushed(t)
      BY <1>0, <1>1, <2>1, <2>2, <3>2 DEF VictimsAway
    <3> QED
      BY <3>1, <3>2
  <2> QED
    BY <1>3, <1>4, <2>1, <2>2
<1> QED
  BY <1>6, <1>7

\* Registers keep their widths: beats are counted only while they are due.
LEMMA TypeStep ==
    ASSUME NEW d, NEW stale, NEW way, NEW arready, NEW beat, NEW awready, NEW wlast, NEW b,
           Edge(d, stale, way, arready, beat, awready, wlast, b), TypeOK, PlacesInv
    PROVE  TypeOK'
<1>0. \A x : Keep(x) \in BOOLEAN
  BY DEF Keep
<1>1. /\ d \in Offer /\ way \in Ways /\ beat \in Owed \cup {NoEntry} /\ b \in BOOLEAN
      /\ AddrOk(d, stale) \in BOOLEAN /\ WatchedStore \in BOOLEAN /\ Watched.line \in Line
      /\ data_data_ok \in BOOLEAN /\ Owed \subseteq Entry /\ 0 \in Bank /\ 0 \in Entry
      /\ NBeats \in Nat /\ replaced_dirty \in BOOLEAN
  BY BankZero, DcacheAssumption
     DEF Edge, Sound, AddrOk, data_addr_ok, WatchedStore, data_data_ok, Owed, TypeOK, DcacheTypeOK,
         replaced_dirty
<1>2. req \in Request /\ NoWb.way \in Ways
  BY DcacheAssumption DEF TypeOK, DcacheTypeOK, NoWb
<1>3. Index[req.line] \in Sets /\ WatchedSet \in Sets
  BY <1>1, <1>2 DEF Request, Sets, WatchedSet
<1>4. state' \in {"idle", "lkup", "block", "goon"}
  BY EdgeFacts DEF StateNext, TypeOK, DcacheTypeOK
<1>5. req' \in Request
  <2>1. NoRequest \in Request
    BY <1>1 DEF NoRequest, Request
  <2>2. [line |-> d.line, bank |-> d.bank, wr |-> d.wr, strb |-> d.strb, pref |-> d.pref] \in Request
    BY <1>1 DEF Request, Offer
  <2> QED
    BY <1>2, <2>1, <2>2, RequestNext
<1>6. tlb_finish' \in BOOLEAN /\ lsu_recv' \in BOOLEAN /\ cnt' \in BOOLEAN
  BY <1>1, EdgeFacts
<1>7. tag' \in [Sets -> [Ways -> Line \cup {NoLine}]]
  <2>1. tag' = [s \in Sets |-> [w \in Ways |->
                  IF \E e \in mshr_rfil : Index[mshr[e].line] = s /\ w = rplc.way
                  THEN mshr[CHOOSE e \in mshr_rfil : TRUE].line
                  ELSE tag[s][w]]]
    BY EdgeFacts DEF ArraysNext
  <2>2. \A e \in mshr_rfil : mshr[CHOOSE f \in mshr_rfil : TRUE].line \in Line
    <3>1. mshr_rfil \subseteq Entry
      BY DEF mshr_rfil, mshr_handle
    <3>2. \A e \in mshr_rfil : (CHOOSE f \in mshr_rfil : TRUE) \in mshr_rfil
      OBVIOUS
    <3> QED
      BY <3>1, <3>2 DEF TypeOK, DcacheTypeOK
  <2>3. \A s \in Sets, w \in Ways : tag[s][w] \in Line \cup {NoLine}
    BY DEF TypeOK, DcacheTypeOK
  <2> QED
    BY <2>1, <2>2, <2>3
<1>8. dirty' \in [Sets -> [Ways -> BOOLEAN]]
  <2>1. \A s \in Sets, w \in Ways : NewDirty(s, w, Go(d)) \in BOOLEAN
    BY DEF NewDirty, TypeOK, DcacheTypeOK
  <2>2. dirty' = [s \in Sets |-> [w \in Ways |-> NewDirty(s, w, Go(d))]]
    BY EdgeFacts DEF DirtyNext
  <2> QED
    BY <2>1, <2>2
<1>9. data' \in [Ways -> BOOLEAN]
  <2>1. \A w : NewData(w, d, stale) \in BOOLEAN
    BY <1>0 DEF NewData
  <2>2. data' = [w \in Ways |-> NewData(w, d, stale)]
    <3>1. ArraysNext(d, stale, AddrOk(d, stale), Go(d))
      BY EdgeFacts
    <3> QED
      BY <3>1 DEF ArraysNext
  <2> QED
    BY <2>1, <2>2
<1>10. tagq' \in [Ways -> Line \cup {NoLine}]
  <2>1. tag \in [Sets -> [Ways -> Line \cup {NoLine}]] /\ tagq \in [Ways -> Line \cup {NoLine}]
    BY DEF TypeOK, DcacheTypeOK
  <2>2. CASE Go(d) # {}
    <3>1. PICK e \in Entry : Go(d) = {e}
      BY <2>2, GoFacts DEF PlacesInv
    <3>2. Index[mshr[e].line] \in Sets
      BY DEF TypeOK, DcacheTypeOK, Sets
    <3> QED
      BY <2>1, <3>1, <3>2, ReplacedRead
  <2>3. CASE Go(d) = {}
    <3>1. Index[d.line] \in Sets
      BY <1>1 DEF Offer, Sets
    <3>2. tagq' \in {tag[Index[d.line]], tagq, [w \in Ways |-> NoLine]}
      BY <2>3, EdgeFacts DEF ArraysNext
    <3> QED
      BY <2>1, <3>1, <3>2
  <2> QED
    BY <2>2, <2>3
<1>11. dataq' \in [Ways -> BOOLEAN]
  <2>1. dataq' \in {[w \in Ways |-> Keep(data[w])], [w \in Ways |-> Keep(dataq[w])],
                    [w \in Ways |-> FALSE]}
    BY EdgeFacts DEF ArraysNext
  <2> QED
    BY <1>0, <2>1
<1>12. lrud' \in [store : BOOLEAN, set : Sets, ways : SUBSET Ways]
  <2>1. way_hit \in SUBSET Ways
    BY DEF way_hit
  <2>2. [store |-> TRUE, set |-> Index[req.line], ways |-> way_hit]
          \in [store : BOOLEAN, set : Sets, ways : SUBSET Ways]
    BY <1>3, <2>1
  <2>3. NoLrud \in [store : BOOLEAN, set : Sets, ways : SUBSET Ways]
    BY <1>3 DEF NoLrud
  <2> QED
    BY <1>3, <2>1, <2>2, <2>3, EdgeFacts DEF DirtyNext
<1>13. wb' \in [strb : SUBSET Lanes, line : Line, bank : Bank, way : Ways, cur : BOOLEAN]
  <2> DEFINE T == [strb : SUBSET Lanes, line : Line, bank : Bank, way : Ways, cur : BOOLEAN]
  <2>1. wb \in T /\ NoWb \in T
    BY <1>1, <1>2 DEF TypeOK, DcacheTypeOK, NoWb
  <2>2. CASE store_hit
    <3>1. way_hit \subseteq Ways /\ way_hit # {}
      BY <2>2 DEF way_hit, store_hit, cache_hit
    <3>2. (CHOOSE w \in way_hit : TRUE) \in Ways
      BY <3>1
    <3>3. \A m \in {wb.strb, {}} : \A k :
             [strb |-> m \cup req.strb, line |-> req.line, bank |-> req.bank,
              way |-> CHOOSE w \in way_hit : TRUE, cur |-> Keep(k)] \in T
      BY <1>0, <1>2, <2>1, <3>2 DEF Request
    <3> QED
      BY <2>2, <3>3, EdgeFacts DEF WriteBufferNext
  <2>3. CASE ~store_hit
    <3>1. [wb EXCEPT !.cur = Keep(@)] \in T
      BY <1>0, <2>1
    <3> QED
      BY <2>1, <2>3, <3>1, EdgeFacts DEF WriteBufferNext
  <2> QED
    BY <2>2, <2>3
<1>26. /\ wpath' \in [reg : BOOLEAN, src : BOOLEAN, wdata : BOOLEAN, ram : BOOLEAN]
       /\ hit_last' \in BOOLEAN
  <2> DEFINE T == [reg : BOOLEAN, src : BOOLEAN, wdata : BOOLEAN, ram : BOOLEAN]
  <2>1. wpath.reg \in BOOLEAN /\ hit_last \in BOOLEAN /\ store_hit \in BOOLEAN
    BY DEF TypeOK, DcacheTypeOK, store_hit
  <2>2. NoPath \in T
    BY DEF NoPath
  <2>3. \A k, m : [reg   |-> ~AddrOk(d, stale) /\ (WatchedStore \/ wpath.reg),
                  src   |-> WatchedStore \/ wpath.reg,
                  wdata |-> Keep(k), ram |-> Keep(m)] \in T
    BY <1>0, <1>1, <2>1
  <2> HIDE DEF T
  <2>4. wpath' \in T
    BY <2>2, <2>3, EdgeFacts DEF WritePathNext
  <2> QED
    BY <1>1, <2>1, <2>4, EdgeFacts DEF WritePathNext, T
<1>14. mshr' \in [Entry -> [st : {"idle", "addr", "data", "handle"}, line : Line,
                           strb : SUBSET (Bank \X Lanes), rec : 0 .. NBeats,
                           dirty : BOOLEAN, cur : BOOLEAN]]
  <2> DEFINE T == [st : {"idle", "addr", "data", "handle"}, line : Line,
                   strb : SUBSET (Bank \X Lanes), rec : 0 .. NBeats,
                   dirty : BOOLEAN, cur : BOOLEAN]
  <2>1. mshr' = [e \in Entry |-> MshrEntry(e, ret, RdTaken(arready) = e, Go(d))]
    BY EdgeFacts
  <2>2. ASSUME NEW e \in Entry PROVE MshrEntry(e, ret, RdTaken(arready) = e, Go(d)) \in T
    <3> DEFINE stored == {p \in Bank \X Lanes : e \in mshr_new_req /\ p[1] = req.bank
                                               /\ p[2] \in req.strb}
    <3>1. FreeMshr \in T
      BY <1>1 DEF FreeMshr
    <3>2. /\ mshr[e] \in T
          /\ ret.entry = e => mshr[e].rec + 1 \in 0 .. NBeats
      BY <1>1, BankZero DEF TypeOK, DcacheTypeOK, PlacesInv, BeatDue, NoEntry, Entry
    <3>3. stored \in SUBSET (Bank \X Lanes)
      OBVIOUS
    <3> HIDE DEF stored
    <3>4. \A k : [st |-> "addr", line |-> req.line, strb |-> stored, rec |-> 0,
                dirty |-> req.wr, cur |-> e \in mshr_new_req /\ k] \in T
      BY <1>1, <1>2, <3>3 DEF Request
    <3>7. CASE e \in mshr_alloc
      BY <3>4, <3>7 DEF MshrEntry, stored
    <3>8. CASE e \notin mshr_alloc /\ e \in mshr_rfil
      BY <3>1, <3>8 DEF MshrEntry
    <3>9. CASE e \notin mshr_alloc /\ e \notin mshr_rfil
      <4> DEFINE m == mshr[e]
                 filled == /\ ret.entry = e /\ m.line = Watched.line
                           /\ m.rec = BeatOf(Watched.bank)
                           /\ <<Watched.bank, Watched.lane>> \notin m.strb
                 took == e \in mshr_new_req /\ Covers(req.line, req.bank, req.strb)
                 st == IF m.st = "addr" /\ RdTaken(arready) = e THEN "data"
                       ELSE IF e \in Go(d) THEN "handle" ELSE m.st
                 rec == IF ret.entry = e THEN m.rec + 1 ELSE m.rec
                 dt == m.dirty \/ (e \in mshr_hit /\ req.wr)
                 cr == took \/ Keep(IF filled THEN ret.cur ELSE m.cur)
      <4>1. st \in {"idle", "addr", "data", "handle"} /\ rec \in 0 .. NBeats
            /\ dt \in BOOLEAN /\ cr \in BOOLEAN
        BY <3>2
      <4>2. MshrEntry(e, ret, RdTaken(arready) = e, Go(d)) =
              [st |-> st, line |-> m.line, strb |-> m.strb \cup stored, rec |-> rec,
               dirty |-> dt, cur |-> cr]
        BY <3>9 DEF MshrEntry, stored
      <4> HIDE DEF st, rec, dt, cr
      <4> QED
        BY <3>2, <3>3, <4>1, <4>2
    <3> QED
      BY <3>7, <3>8, <3>9
  <2> HIDE DEF T
  <2> QED
    BY <2>1, <2>2 DEF T
<1>15. send' \in [on : BOOLEAN, bank : Bank, entry : Entry]
  <2>1. mshr_new_lreq \subseteq Entry
    BY AllocFacts DEF mshr_new_lreq, mshr_new_req, mshr_hit, PlacesInv
  <2>2. mshr_new_lreq # {} => (CHOOSE e \in mshr_new_lreq : TRUE) \in Entry
    BY <2>1
  <2>3. req.bank \in Bank /\ NoSend \in [on : BOOLEAN, bank : Bank, entry : Entry]
    BY <1>1, <1>2 DEF Request, NoSend
  <2>4. send \in [on : BOOLEAN, bank : Bank, entry : Entry]
    BY DEF TypeOK, DcacheTypeOK
  <2>5. mshr_new_lreq # {} => [on |-> TRUE, bank |-> req.bank,
                               entry |-> CHOOSE e \in mshr_new_lreq : TRUE]
                               \in [on : BOOLEAN, bank : Bank, entry : Entry]
    BY <2>2, <2>3
  <2> QED
    BY <2>3, <2>4, <2>5, EdgeFacts DEF SendNext
<1>16. rplc' \in [way : Ways, dirty : BOOLEAN]
  <2>1. rplc \in [way : Ways, dirty : BOOLEAN] /\ NoRplc \in [way : Ways, dirty : BOOLEAN]
    BY <1>2 DEF TypeOK, DcacheTypeOK, NoRplc
  <2>2. [way |-> way, dirty |-> \E e \in Go(d) : dirty[Index[mshr[e].line]][way]]
          \in [way : Ways, dirty : BOOLEAN]
    BY <1>1
  <2> QED
    BY <2>1, <2>2, RplcNext
<1>17. vic' \in [Slot -> [line : Line \cup {NoLine}, cur : BOOLEAN]]
  <2> DEFINE T == [line : Line \cup {NoLine}, cur : BOOLEAN]
  <2>1. vic' = [s \in Slot |-> NewVictim(s)]
    BY EdgeFacts DEF InterfaceNext
  <2>2. ASSUME NEW s \in Slot PROVE NewVictim(s) \in T
    <3>1. mshr_wtbk # {} => [line |-> wr_line,
                             cur |-> wr_line = Watched.line /\ Keep(dataq[rplc.way])] \in T
      BY <1>0, PushFacts
    <3>2. NoVictim \in T
      BY DEF NoVictim
    <3>3. [line |-> vic[s].line, cur |-> Keep(vic[s].cur)] \in T
      BY <1>0 DEF TypeOK, InterfaceTypeOK
    <3> QED
      BY <3>1, <3>2, <3>3 DEF NewVictim, vic_push
  <2> HIDE DEF T
  <2> QED
    BY <2>1, <2>2 DEF T
<1>18. vic_push_p' \in Slot /\ vic_pop_p' \in Slot
  BY EdgeFacts DEF InterfaceNext, NextSlot, Slot, TypeOK, InterfaceTypeOK
<1>19. vic_addr_arrived' \in BOOLEAN /\ vic_data_all_recv' \in BOOLEAN
  BY EdgeFacts DEF InterfaceNext
<1>20. ret' \in [entry : Entry \cup {NoEntry}, cur : BOOLEAN] /\ bvalid_reg' \in BOOLEAN
  <2>1. NoBeat \in [entry : Entry \cup {NoEntry}, cur : BOOLEAN]
    BY DEF NoBeat
  <2>2. beat # NoEntry => Beat(beat) \in [entry : Entry \cup {NoEntry}, cur : BOOLEAN]
    BY <1>0, <1>1 DEF Beat
  <2>3. beat = NoEntry => Beat(beat) = NoBeat
    BY DEF Beat
  <2> QED
    BY <1>1, <2>1, <2>2, <2>3, EdgeFacts DEF MemoryNext
<1>21. mem' \in BOOLEAN
  BY <1>0, EdgeFacts DEF MemoryNext
<1>22. program' \in Programs /\ core' \in {"free", "wait", "gap"}
  BY EdgeFacts DEF CoreNext, TypeOK
<1>23. taken' \in [on : BOOLEAN, line : Line, bank : Bank, wr : BOOLEAN]
  <2>1. [on |-> TRUE, line |-> d.line, bank |-> d.bank, wr |-> d.wr]
          \in [on : BOOLEAN, line : Line, bank : Bank, wr : BOOLEAN]
    BY <1>1 DEF Offer
  <2>2. NoTaken \in [on : BOOLEAN, line : Line, bank : Bank, wr : BOOLEAN]
    BY <1>1 DEF NoTaken
  <2> QED
    BY <2>1, <2>2, EdgeFacts DEF CoreNext, TypeOK
<1>24. DcacheTypeOK'
  BY <1>4, <1>5, <1>6, <1>7, <1>8, <1>9, <1>10, <1>11, <1>12, <1>13, <1>14, <1>15, <1>16,
     <1>26 DEF DcacheTypeOK
<1>25. InterfaceTypeOK'
  BY <1>17, <1>18, <1>19, <1>20 DEF InterfaceTypeOK
<1> QED
  BY <1>21, <1>22, <1>23, <1>24, <1>25 DEF TypeOK

PlacesAll == TypeOK /\ PlacesInv

\* PlacesInv, with the types, is inductive.
LEMMA PlacesInit == Init => PlacesAll
<1> SUFFICES ASSUME Init PROVE PlacesAll
  OBVIOUS
<1>1. DcacheInit /\ InterfaceInit
  BY DEF Init
<1>2. /\ Watched.line \in Line /\ NoWb.way \in Ways /\ 0 \in Bank /\ 0 \in Entry
      /\ WatchedSet \in Sets /\ NBeats \in Nat
  BY BankZero, DcacheAssumption DEF NoWb, WatchedSet, Sets
<1>3. FreeMshr \in [st : {"idle", "addr", "data", "handle"}, line : Line,
                    strb : SUBSET (Bank \X Lanes), rec : 0 .. NBeats,
                    dirty : BOOLEAN, cur : BOOLEAN]
  BY <1>2 DEF FreeMshr
<1>4. NoRequest \in Request
  BY <1>2 DEF NoRequest, Request
<1>5. /\ NoLrud \in [store : BOOLEAN, set : Sets, ways : SUBSET Ways]
      /\ NoWb \in [strb : SUBSET Lanes, line : Line, bank : Bank, way : Ways, cur : BOOLEAN]
      /\ NoSend \in [on : BOOLEAN, bank : Bank, entry : Entry]
      /\ NoRplc \in [way : Ways, dirty : BOOLEAN]
      /\ NoTaken \in [on : BOOLEAN, line : Line, bank : Bank, wr : BOOLEAN]
      /\ NoVictim \in [line : Line \cup {NoLine}, cur : BOOLEAN]
      /\ NoBeat \in [entry : Entry \cup {NoEntry}, cur : BOOLEAN]
      /\ NoPath \in [reg : BOOLEAN, src : BOOLEAN, wdata : BOOLEAN, ram : BOOLEAN]
  BY <1>2 DEF NoLrud, NoWb, NoSend, NoRplc, NoTaken, NoVictim, NoBeat, NoPath
<1>14. wpath = NoPath /\ hit_last = FALSE
  BY <1>1 DEF DcacheInit
<1>15. /\ mshr = [e \in Entry |-> FreeMshr] /\ req = NoRequest /\ lrud = NoLrud
       /\ wb = NoWb /\ send = NoSend /\ rplc = NoRplc
  BY <1>1 DEF DcacheInit
<1>16. /\ state \in {"idle", "lkup", "block", "goon"}
       /\ tlb_finish \in BOOLEAN /\ lsu_recv \in BOOLEAN /\ cnt \in BOOLEAN
       /\ tag \in [Sets -> [Ways -> Line \cup {NoLine}]]
       /\ dirty \in [Sets -> [Ways -> BOOLEAN]] /\ data \in [Ways -> BOOLEAN]
       /\ tagq \in [Ways -> Line \cup {NoLine}] /\ dataq \in [Ways -> BOOLEAN]
  BY <1>1 DEF DcacheInit
<1>17. mshr \in [Entry -> [st : {"idle", "addr", "data", "handle"}, line : Line,
                           strb : SUBSET (Bank \X Lanes), rec : 0 .. NBeats,
                           dirty : BOOLEAN, cur : BOOLEAN]]
  BY <1>3, <1>15, Zenon
<1>18. /\ req \in Request
       /\ lrud \in [store : BOOLEAN, set : Sets, ways : SUBSET Ways]
       /\ wb \in [strb : SUBSET Lanes, line : Line, bank : Bank, way : Ways, cur : BOOLEAN]
       /\ send \in [on : BOOLEAN, bank : Bank, entry : Entry]
       /\ rplc \in [way : Ways, dirty : BOOLEAN]
       /\ wpath \in [reg : BOOLEAN, src : BOOLEAN, wdata : BOOLEAN, ram : BOOLEAN]
  BY <1>4, <1>5, <1>14, <1>15, Zenon
<1>6. DcacheTypeOK
  BY <1>14, <1>16, <1>17, <1>18, Zenon DEF DcacheTypeOK
<1>7. InterfaceTypeOK
  BY <1>1, <1>5 DEF InterfaceInit, InterfaceTypeOK, Slot
<1>8. TypeOK
  BY <1>5, <1>6, <1>7 DEF TypeOK, Init
<1>9. /\ \A e \in Entry : mshr[e].st = "idle"
      /\ \A s \in Sets, w \in Ways : tag[s][w] = NoLine
      /\ \A s \in Slot : vic[s].line = NoLine
      /\ ret.entry = NoEntry /\ ~tlb_finish /\ state = "idle"
  BY <1>1 DEF DcacheInit, InterfaceInit, FreeMshr, NoVictim, NoBeat
<1>10. mshr_handle = {} /\ mshr_sel = {} /\ vic_valid = {}
  BY <1>9 DEF mshr_handle, mshr_sel, vic_valid
<1>11. BeatDue /\ WholeLine /\ OneHandle /\ TagsInSets /\ LookupCurrent /\ BlockedAbsent
  BY <1>9, <1>10 DEF BeatDue, WholeLine, OneHandle, TagsInSets, LookupCurrent, BlockedAbsent
<1>12. VictimRead /\ VictimsAway
  BY <1>10 DEF VictimRead, VictimsAway
<1>13. Apart
  BY <1>9, DcacheAssumption DEF Apart, Holds, Collects, Sets
<1> QED
  BY <1>8, <1>11, <1>12, <1>13 DEF PlacesAll, PlacesInv

LEMMA PlacesStutter == PlacesAll /\ UNCHANGED vars => PlacesAll'
<1> SUFFICES ASSUME PlacesAll, UNCHANGED vars PROVE PlacesAll'
  OBVIOUS
<1>1. UNCHANGED dcacheVars /\ UNCHANGED interfaceVars /\ UNCHANGED <<program, core, taken, mem>>
  BY DEF vars
<1>2. TypeOK'
  BY <1>1 DEF PlacesAll, TypeOK, DcacheTypeOK, InterfaceTypeOK, dcacheVars, interfaceVars
<1>3. mshr_handle' = mshr_handle /\ mshr_sel' = mshr_sel /\ mshr_rfil' = mshr_rfil
      /\ vic_valid' = vic_valid /\ vic_not_full' = vic_not_full
  BY <1>1 DEF mshr_handle, mshr_sel, mshr_rfil, vic_valid, vic_not_full, dcacheVars, interfaceVars
<1>4. /\ BeatDue' /\ WholeLine' /\ OneHandle' /\ TagsInSets' /\ LookupCurrent'
      /\ BlockedAbsent' /\ VictimRead'
  BY <1>1, <1>3 DEF PlacesAll, PlacesInv, BeatDue, WholeLine, OneHandle, TagsInSets, LookupCurrent,
                    BlockedAbsent, VictimRead, Holds, Collects, dcacheVars, interfaceVars
<1>5. Apart'
  BY <1>1 DEF PlacesAll, PlacesInv, Apart, Holds, Collects, dcacheVars
<1>6. VictimsAway'
  BY <1>1, <1>3 DEF PlacesAll, PlacesInv, VictimsAway, Leaving, Holds, dcacheVars, interfaceVars
<1> QED
  BY <1>2, <1>4, <1>5, <1>6 DEF PlacesAll, PlacesInv

LEMMA PlacesNext == PlacesAll /\ [Next]_vars => PlacesAll'
<1>1. ASSUME PlacesAll, Next PROVE PlacesAll'
  <2>1. PICK d, stale, way, arready, beat, awready, wlast, b :
             Edge(d, stale, way, arready, beat, awready, wlast, b)
    BY <1>1, EdgeInputs DEF PlacesAll
  <2>2. TypeOK'
    BY <1>1, <2>1, TypeStep DEF PlacesAll
  <2>3. PlacesInv'
    BY <1>1, <2>1, PlacesStep, ApartStep, VictimsStep DEF PlacesAll, PlacesInv
  <2> QED
    BY <2>2, <2>3 DEF PlacesAll
<1> QED
  BY <1>1, PlacesStutter

\* Every register of the data side holds what its width can, for any geometry.
THEOREM DataTypeCorrect == Spec => []TypeOK
<1>1. PlacesAll => TypeOK
  BY DEF PlacesAll
<1> QED
  BY <1>1, PlacesInit, PlacesNext, PTL DEF Spec

\* A word comes before the last beat has come.
LEMMA BeatBound == \A k \in Bank : BeatOf(k) \in Nat /\ BeatOf(k) < NBeats
<1> SUFFICES ASSUME NEW k \in Bank PROVE BeatOf(k) \in Nat /\ BeatOf(k) < NBeats
  OBVIOUS
<1> DEFINE B == BanksPerBeat
<1>1. NBanks \in Nat /\ B \in Nat \ {0} /\ NBanks % B = 0 /\ k \in Nat /\ k < NBanks
  BY DcacheAssumption DEF Bank
<1>2. /\ NBeats = NBanks \div B /\ NBeats \in Nat /\ k \div B \in Nat
      /\ NBanks = B * NBeats /\ B * (k \div B) <= k
  BY <1>1 DEF NBeats
<1>3. k \div B < NBeats
  BY <1>1, <1>2
<1> QED
  BY <1>2, <1>3 DEF BeatOf

\* A line is in one way or one miss register at most, whatever is requested and
\* prefetched while lines are read and moved.
THEOREM OnePlaceHolds == Spec => []OnePlace
<1>1. PlacesAll => OnePlace
  <2> SUFFICES ASSUME PlacesAll, NEW l \in Line PROVE Cardinality(LinePlaces(l)) <= 1
    BY DEF OnePlace
  <2> DEFINE P == LinePlaces(l)
  <2>0. Apart
    BY DEF PlacesAll, PlacesInv
  <2>1. ASSUME NEW p \in P, NEW q \in P PROVE p = q
    <3>1. ASSUME NEW r \in P
          PROVE  \/ \E w \in Ways : r = <<"way", w>> /\ Holds(w, l)
                 \/ \E e \in Entry : r = <<"mshr", e>> /\ Collects(e, l)
      BY <3>1 DEF LinePlaces, Holds, Collects
    <3> QED
      BY <2>0, <3>1 DEF Apart
  <2>2. P = {} \/ \E p \in P : P = {p}
    BY <2>1
  <2>3. Cardinality(P) \in {0, 1}
    BY <2>2, FS_EmptySet, FS_Singleton
  <2> QED
    BY <2>3
<1> QED
  BY <1>1, PlacesInit, PlacesNext, PTL DEF Spec

\* No line is read from memory while a newer copy of it waits to be written.
THEOREM NoVictimRead == Spec => []NoReadOfVictim
<1>1. PlacesAll => NoReadOfVictim
  BY DEF PlacesAll, PlacesInv, VictimsAway, NoReadOfVictim
<1> QED
  BY <1>1, PlacesInit, PlacesNext, PTL DEF Spec

----------------------------------------------------------------------------
(* Every access has one answer coming, and gets it.                        *)

\* Who answers, and what for.
LEMMA AnswersFacts ==
    ASSUME TypeOK, PlacesInv, AnswersInv
    PROVE  /\ data_data_ok => taken.on /\ core = "wait"
           /\ st_data_ok => ~req.pref /\ tlb_finish /\ req.wr
           /\ hit_ld_data_ok => ~req.pref /\ tlb_finish /\ ~req.wr /\ mshr_hit = {} /\ ~cache_miss
           /\ \A e \in mshr_ld_ret : send.on /\ e = send.entry
<1>1. st_data_ok => ~req.pref /\ tlb_finish /\ req.wr
  BY DEF st_data_ok, tlb_valid_finish, AnswersInv, ReqKind
<1>2. hit_ld_data_ok => ~req.pref /\ tlb_finish /\ ~req.wr /\ mshr_hit = {} /\ ~cache_miss
  BY LookupFacts DEF hit_ld_data_ok, cache_hit, cache_miss, tlb_valid_finish, PlacesInv
<1>3. \A e \in mshr_ld_ret : send.on /\ e = send.entry
  BY DEF mshr_ld_ret
<1>4. data_data_ok => taken.on /\ core = "wait"
  BY <1>1, <1>2, <1>3 DEF data_data_ok, mshr_data_ok, AnswersInv, OneAnswerDue, Request_Taken
<1> QED
  BY <1>1, <1>2, <1>3, <1>4

\* A load that goes to a miss register is the one access in flight.
LEMMA NewLoadFacts ==
    ASSUME TypeOK, PlacesInv, AnswersInv, NEW e \in mshr_new_lreq
    PROVE  /\ mshr_new_lreq = {e} /\ e \in Entry /\ ~req.wr /\ ~req.pref
           /\ core = "wait" /\ Request_Taken /\ ~send.on /\ ~data_data_ok
           /\ e \in mshr_alloc \/ (e \in mshr_hit /\ e \notin mshr_alloc /\ mshr_handle = {})
<1>0. ~req.wr /\ ~req.pref /\ mshr_new_lreq = mshr_alloc \cup mshr_hit
  BY DEF mshr_new_lreq, mshr_new_req
<1>1. CASE e \in mshr_alloc
  <2>1. mshr_alloc = {e} /\ e \in Entry /\ (tlb_finish \/ state = "goon")
    BY <1>1, AllocFacts DEF PlacesInv
  <2>2. mshr_hit = {} /\ (cache_miss \/ state = "goon")
    BY <1>1 DEF mshr_alloc
  <2>3. core = "wait" /\ Request_Taken /\ ~send.on
    BY <1>0, <2>1 DEF AnswersInv, OneAnswerDue
  <2>4. ~data_data_ok
    BY <1>0, <2>2, <2>3, AnswersFacts
       DEF data_data_ok, mshr_data_ok, PlacesInv, LookupCurrent
  <2> QED
    BY <1>0, <1>1, <2>1, <2>2, <2>3, <2>4
<1>2. CASE e \in mshr_hit /\ e \notin mshr_alloc
  <2>1. e \in Entry /\ tlb_finish /\ mshr_alloc = {}
    BY <1>2 DEF mshr_hit, mshr_alloc, tlb_valid_finish
  <2>2. mshr_hit = {e}
    BY <1>2 DEF mshr_hit, PlacesInv, Apart, Collects, TypeOK, DcacheTypeOK, Request
  <2>3. core = "wait" /\ Request_Taken /\ ~send.on /\ mshr_handle = {}
    BY <1>0, <2>1 DEF AnswersInv, OneAnswerDue, PlacesInv, LookupCurrent
  <2>4. ~data_data_ok
    BY <1>0, <2>2, <2>3, AnswersFacts DEF data_data_ok, mshr_data_ok
  <2> QED
    BY <1>0, <1>2, <2>1, <2>2, <2>3, <2>4
<1> QED
  BY <1>0, <1>1, <1>2

\* One answer is owed, from one place, one edge later.
LEMMA AnswersStep ==
    ASSUME NEW d, NEW stale, NEW way, NEW arready, NEW beat, NEW awready, NEW wlast, NEW b,
           Edge(d, stale, way, arready, beat, awready, wlast, b), TypeOK, PlacesInv, AnswersInv
    PROVE  AnswersInv'
<1>0. ReqKind /\ OneAnswerDue /\ LookupCurrent
  BY DEF AnswersInv, PlacesInv
<1>1. ReqKind'
  BY <1>0, RequestNext DEF ReqKind, Edge, Sound, NoRequest
<1>2. d.on /\ ~d.pref => core = "free" /\ ~data_data_ok
  BY AnswersFacts DEF Edge
<1>3. core = "wait" /\ ~data_data_ok => core' = "wait" /\ taken' = taken
  BY <1>2, EdgeFacts DEF CoreNext
<1>4. tlb_finish' /\ ~req'.pref => lsu_recv' /\ core' = "wait" /\ Request_Taken' /\ ~send'.on
  <2> SUFFICES ASSUME AddrOk(d, stale), ~req'.pref
               PROVE  lsu_recv' /\ core' = "wait" /\ Request_Taken' /\ ~send'.on
    BY EdgeFacts
  <2>1. d.on /\ ~d.pref /\ core = "free" /\ ~data_data_ok
    BY <1>0, <1>2, TakenFacts, RequestNext
  <2>2. lsu_recv' /\ core' = "wait"
    BY <2>1, EdgeFacts DEF CoreNext
  <2>3. taken' = [on |-> TRUE, line |-> d.line, bank |-> d.bank, wr |-> d.wr]
    BY <2>1, EdgeFacts DEF CoreNext
  <2>4. Request_Taken'
    <3>1. req'.line = d.line /\ req'.bank = d.bank /\ req'.wr = d.wr
      BY RequestNext
    <3> QED
      BY <2>3, <3>1 DEF Request_Taken
  <2>5. mshr_new_lreq = {} /\ ~send.on
    BY <1>0, <2>1, NewLoadFacts DEF OneAnswerDue
  <2>6. ~send'.on
    BY <2>5, EdgeFacts DEF SendNext, NoSend
  <2> QED
    BY <2>2, <2>4, <2>6
<1>5. state' \in {"block", "goon"} /\ ~req'.pref /\ ~req'.wr
      => core' = "wait" /\ Request_Taken' /\ ~send'.on
  <2> SUFFICES ASSUME state' \in {"block", "goon"}, ~req'.pref, ~req'.wr
               PROVE  core' = "wait" /\ Request_Taken' /\ ~send'.on
    OBVIOUS
  <2>1. /\ req' = req /\ core = "wait" /\ Request_Taken /\ ~send.on
        /\ mshr_alloc = {} /\ mshr_hit = {} /\ ~data_data_ok
    <3>0. state \in {"idle", "lkup", "block", "goon"}
      BY DEF TypeOK, DcacheTypeOK
    <3>1. CASE state = "lkup"
      <4>1. cache_miss /\ mshr_hit = {} /\ mshr_full
        BY <3>1, EdgeFacts DEF StateNext
      <4>2. req' = req
        BY <1>0, <3>1, <4>1, TakenFacts, RequestNext
      <4>3. {e \in Entry : mshr[e].st = "idle"} = {}
        BY <4>1 DEF mshr_full
      <4>4. mshr_alloc = {}
        BY <4>3 DEF mshr_alloc, Lowest
      <4>5. core = "wait" /\ Request_Taken /\ ~send.on
        BY <1>0, <4>1, <4>2 DEF OneAnswerDue, cache_miss, tlb_valid_finish
      <4>6. ~data_data_ok
        BY <4>1, <4>2, <4>5, AnswersFacts DEF data_data_ok, mshr_data_ok
      <4> QED
        BY <4>1, <4>2, <4>4, <4>5, <4>6
    <3>2. CASE state = "block"
      <4>1. ~tlb_finish /\ ~AddrOk(d, stale)
        BY <1>0, <3>2, TakenFacts DEF LookupCurrent
      <4>2. mshr_alloc = {} /\ mshr_hit = {}
        BY <3>2, <4>1 DEF mshr_alloc, mshr_hit, tlb_valid_finish, cache_miss
      <4>3. req' = req
        BY <4>1, RequestNext
      <4>4. core = "wait" /\ Request_Taken /\ ~send.on
        BY <1>0, <3>2, <4>3 DEF OneAnswerDue
      <4>5. ~data_data_ok
        BY <4>1, <4>4, AnswersFacts DEF data_data_ok, mshr_data_ok
      <4> QED
        BY <4>2, <4>3, <4>4, <4>5
    <3>3. CASE state \in {"idle", "goon"}
      BY <3>3, EdgeFacts DEF StateNext
    <3> QED
      BY <3>0, <3>1, <3>2, <3>3
  <2>2. mshr_new_lreq = {}
    BY <2>1 DEF mshr_new_lreq, mshr_new_req
  <2>3. ~send'.on
    BY <2>1, <2>2, EdgeFacts DEF SendNext, NoSend
  <2>4. Request_Taken'
    BY <1>3, <2>1 DEF Request_Taken
  <2> QED
    BY <1>3, <2>1, <2>3, <2>4
<1>6. send'.on => /\ core' = "wait" /\ taken'.on /\ ~taken'.wr /\ taken'.bank = send'.bank
                  /\ Collects(send.entry, taken.line)'
  <2> SUFFICES ASSUME send'.on
               PROVE  /\ core' = "wait" /\ taken'.on /\ ~taken'.wr /\ taken'.bank = send'.bank
                      /\ mshr'[send'.entry].st # "idle" /\ mshr'[send'.entry].line = taken'.line
    BY DEF Collects
  <2>1. CASE mshr_new_lreq # {}
    <3>1. PICK e \in mshr_new_lreq : TRUE
      BY <2>1
    <3>2. /\ mshr_new_lreq = {e} /\ e \in Entry /\ ~req.wr /\ ~req.pref
          /\ core = "wait" /\ Request_Taken /\ ~data_data_ok
          /\ e \in mshr_alloc \/ (e \in mshr_hit /\ e \notin mshr_alloc /\ mshr_handle = {})
      BY NewLoadFacts
    <3>3. send' = [on |-> TRUE, bank |-> req.bank, entry |-> e]
      BY <3>2, EdgeFacts DEF SendNext
    <3>4. core' = "wait" /\ taken'.on /\ ~taken'.wr /\ taken'.bank = req.bank /\ taken'.line = req.line
      BY <1>3, <3>2 DEF Request_Taken
    <3>5. mshr'[e].st # "idle" /\ mshr'[e].line = req.line
      <4>1. CASE e \in mshr_alloc
        BY <3>2, <4>1, MshrNext
      <4>2. CASE e \in mshr_hit /\ e \notin mshr_alloc /\ mshr_handle = {}
        <5>1. e \notin mshr_rfil /\ mshr[e].st # "idle" /\ mshr[e].line = req.line
          BY <4>2 DEF mshr_rfil, mshr_hit
        <5> QED
          BY <3>2, <4>2, <5>1, MshrNext
      <4> QED
        BY <3>2, <4>1, <4>2
    <3> QED
      BY <3>3, <3>4, <3>5
  <2>2. CASE mshr_new_lreq = {}
    <3>1. ~mshr_data_ok /\ send' = send
      BY <2>2, EdgeFacts DEF SendNext, NoSend
    <3>2. /\ core = "wait" /\ taken.on /\ ~taken.wr /\ taken.bank = send.bank
          /\ Collects(send.entry, taken.line)
      BY <1>0, <3>1 DEF OneAnswerDue
    <3>3. ~data_data_ok
      BY <1>0, <3>1, AnswersFacts DEF data_data_ok, OneAnswerDue
    <3> DEFINE e == send.entry
    <3>4. e \in Entry /\ send.bank \in Bank
      BY DEF TypeOK, DcacheTypeOK
    <3>5. e \notin mshr_rfil
      <4>1. ~(mshr[e].rec > BeatOf(send.bank))
        BY <3>1, <3>4 DEF mshr_data_ok, mshr_ld_ret
      <4>2. mshr[e].rec # NBeats
        BY <3>4, <4>1, BeatBound, BankZero
      <4> QED
        BY <4>2 DEF PlacesInv, WholeLine, mshr_rfil
    <3>6. e \notin mshr_alloc
      BY <3>2, AllocFacts DEF Collects, PlacesInv
    <3>7. mshr'[e].st # "idle" /\ mshr'[e].line = mshr[e].line
      BY <3>2, <3>4, <3>5, <3>6, MshrNext DEF Collects
    <3> QED
      BY <1>3, <3>1, <3>2, <3>3, <3>7 DEF Collects
  <2> QED
    BY <2>1, <2>2
<1> QED
  BY <1>1, <1>4, <1>5, <1>6 DEF AnswersInv, OneAnswerDue

----------------------------------------------------------------------------
(* No copy that is needed is lost.                                         *)

\* While a line is moved no store takes effect.
LEMMA QuietMove ==
    ASSUME LookupCurrent, ReqKind, mshr_handle # {} \/ ~tlb_finish
    PROVE  ~WatchedStore /\ ~store_hit
BY DEF LookupCurrent, ReqKind, WatchedStore, store_hit, cache_hit, tlb_valid_finish

\* A line whose move begins was whole in the cycle before, and only that.
LEMMA MoveNext ==
    ASSUME NEW d, NEW stale, NEW way, NEW arready, NEW beat, NEW awready, NEW wlast, NEW b,
           Edge(d, stale, way, arready, beat, awready, wlast, b), TypeOK, PlacesInv,
           NEW e \in Entry, mshr'[e].st = "handle"
    PROVE  /\ ~cnt' => Go(d) = {e}
           /\ cnt' => /\ mshr_sel = {e} /\ mshr_handle = {e} /\ Go(d) = {} /\ rplc' = rplc
                      /\ mshr_rfil = {}
           /\ mshr'[e].line = mshr[e].line /\ tag' = tag
<1>1. CASE mshr_sel # {}
  <2>1. vic_vacancy
    BY <1>1 DEF PlacesInv, VictimRead, vic_not_full, vic_vacancy
  <2>2. cnt' /\ mshr_handle # {} /\ mshr_rfil = {} /\ mshr_sel = mshr_handle
    BY <1>1, <2>1, EdgeFacts DEF mshr_sel, mshr_rfil
  <2>3. Go(d) = {}
    BY <2>2, GoFacts DEF PlacesInv
  <2>4. mshr_handle = {e}
    BY <2>2, <2>3, BusyNext DEF mshr_handle, PlacesInv, OneHandle
  <2>5. rplc' = rplc
    BY <1>1, <2>3, RplcNext
  <2>6. mshr'[e].line = mshr[e].line
    BY <2>4, BusyNext, AllocFacts DEF PlacesInv, mshr_handle
  <2> QED
    BY <2>2, <2>3, <2>4, <2>5, <2>6, TagKept
<1>2. CASE mshr_sel = {}
  <2>1. ~cnt' /\ e \in Go(d)
    BY <1>2, BusyNext, EdgeFacts DEF mshr_sel, mshr_rfil, mshr_handle
  <2>2. Go(d) = {e} /\ mshr_rfil = {} /\ mshr_alloc = {}
    BY <2>1, GoFacts DEF PlacesInv
  <2>3. mshr'[e].line = mshr[e].line
    BY <2>2, MshrNext
  <2> QED
    BY <2>1, <2>2, <2>3, TagKept
<1> QED
  BY <1>1, <1>2

\* The write buffer claims a store that hits, is emptied or stays.
LEMMA WbNext ==
    ASSUME NEW d, NEW stale, NEW way, NEW arready, NEW beat, NEW awready, NEW wlast, NEW b,
           Edge(d, stale, way, arready, beat, awready, wlast, b), TypeOK
    PROVE  /\ store_hit =>
                /\ wb'.line = req.line /\ wb'.bank = req.bank
                /\ wb'.way \in way_hit
                /\ wb'.strb = (IF wr_buff_hit(stale) THEN wb.strb ELSE {}) \cup req.strb
           /\ ~store_hit /\ wr_buff_release(d, stale) => wb'.strb = {}
           /\ ~store_hit /\ ~wr_buff_release(d, stale) =>
                /\ wb'.line = wb.line /\ wb'.bank = wb.bank
                /\ wb'.way = wb.way /\ wb'.strb = wb.strb
<1>1. store_hit => way_hit # {}
  BY DEF store_hit, cache_hit
<1>2. WriteBufferNext(d, stale)
  BY EdgeFacts
<1>3. CASE store_hit
  <2>1. (CHOOSE w \in way_hit : TRUE) \in way_hit
    BY <1>1, <1>3
  <2> QED
    BY <1>2, <1>3, <2>1 DEF WriteBufferNext
<1>4. CASE ~store_hit
  <2>1. wb \in [strb : SUBSET Lanes, line : Line, bank : Bank, way : Ways, cur : BOOLEAN]
    BY DEF TypeOK, DcacheTypeOK
  <2> QED
    BY <1>2, <1>4, <2>1 DEF WriteBufferNext, NoWb
<1> QED
  BY <1>3, <1>4

\* Where the last store to the byte went.  One that misses is in no way.
LEMMA HitLastNext ==
    ASSUME NEW d, NEW stale, NEW way, NEW arready, NEW beat, NEW awready, NEW wlast, NEW b,
           Edge(d, stale, way, arready, beat, awready, wlast, b)
    PROVE  /\ WatchedStore => (hit_last' <=> way_hit # {})
           /\ ~WatchedStore => hit_last' = hit_last
<1>1. WritePathNext(stale, AddrOk(d, stale))
  BY EdgeFacts
<1>2. hit_last' = IF WatchedStore THEN store_hit ELSE hit_last
  BY <1>1 DEF WritePathNext
<1>3. WatchedStore => (store_hit <=> way_hit # {})
  BY DEF WatchedStore, store_hit, cache_hit
<1> QED
  BY <1>2, <1>3

\* The word that is buffered stays with its way.
LEMMA BufferStep ==
    ASSUME NEW d, NEW stale, NEW way, NEW arready, NEW beat, NEW awready, NEW wlast, NEW b,
           Edge(d, stale, way, arready, beat, awready, wlast, b), TypeOK, PlacesInv, AnswersInv,
           BufferInWay
    PROVE  BufferInWay' /\ LrudBuffered' /\ GoonFree'
<1>0. LookupCurrent /\ ReqKind /\ OneHandle
  BY DEF PlacesInv, AnswersInv
<1>4. Covers(wb'.line, wb'.bank, wb'.strb) => hit_last'
  <2> SUFFICES ASSUME Covers(wb'.line, wb'.bank, wb'.strb) PROVE hit_last'
    OBVIOUS
  <2>1. CASE store_hit /\ WatchedStore
    BY <2>1, HitLastNext DEF store_hit, cache_hit
  <2>2. CASE store_hit /\ ~WatchedStore
    <3>1. /\ tlb_valid_finish /\ req.wr /\ wb'.line = req.line /\ wb'.bank = req.bank
          /\ wb'.strb = (IF wr_buff_hit(stale) THEN wb.strb ELSE {}) \cup req.strb
      BY <2>2, WbNext DEF store_hit, cache_hit
    <3>2. Watched.lane \notin req.strb
      BY <2>2, <3>1 DEF WatchedStore, Covers, IsWatched
    <3>3. wr_buff_hit(stale) /\ Watched.lane \in wb.strb
      BY <3>1, <3>2 DEF Covers
    <3>4. Covers(wb.line, wb.bank, wb.strb)
      BY <3>1, <3>3 DEF wr_buff_hit, Covers, IsWatched
    <3> QED
      BY <2>2, <3>4, HitLastNext DEF BufferInWay
  <2>3. CASE ~store_hit
    <3>1. Covers(wb.line, wb.bank, wb.strb)
      BY <2>3, WbNext DEF Covers, IsWatched
    <3>2. hit_last /\ Holds(wb.way, Watched.line) /\ wb.way \in Ways
      BY <3>1 DEF BufferInWay, wr_buff_valid, Covers, IsWatched, TypeOK, DcacheTypeOK
    <3>3. ASSUME WatchedStore PROVE FALSE
      <4>1. tlb_finish /\ req.line = Watched.line /\ tlb_valid_finish /\ req.wr
        BY <3>3 DEF WatchedStore, tlb_valid_finish, Covers, IsWatched
      <4>2. wb.way \in way_hit
        BY <3>2, <4>1, LookupFacts DEF PlacesInv
      <4> QED
        BY <2>3, <4>1, <4>2 DEF store_hit, cache_hit
    <3> QED
      BY <3>2, <3>3, HitLastNext
  <2> QED
    BY <2>1, <2>2, <2>3
<1>1. BufferInWay'
  <2> SUFFICES ASSUME wb'.strb # {}
               PROVE  tag'[Index[wb'.line]][wb'.way] = wb'.line /\ mshr_handle' = {}
    BY <1>4 DEF BufferInWay, wr_buff_valid, Holds, Covers, IsWatched
  <2>1. mshr_handle = {} /\ Go(d) = {} /\ Holds(wb'.way, wb'.line)
    <3>1. CASE store_hit
      <4>1. tlb_finish /\ ~req.pref /\ mshr_handle = {}
        BY <1>0, <3>1 DEF store_hit, cache_hit, tlb_valid_finish, ReqKind, LookupCurrent
      <4>2. Go(d) = {}
        BY <4>1, GoFacts, <1>0
      <4>3. \A w \in Ways : w \in way_hit <=> Holds(w, req.line)
        BY <4>1, LookupFacts DEF PlacesInv
      <4>4. Holds(wb'.way, wb'.line)
        BY <3>1, <4>3, WbNext DEF way_hit
      <4> QED
        BY <4>1, <4>2, <4>4
    <3>2. CASE ~store_hit
      <4>1. wb'.way = wb.way /\ wb'.line = wb.line /\ wr_buff_valid
        BY <3>2, WbNext DEF wr_buff_valid
      <4> QED
        BY <1>0, <4>1, GoFacts DEF BufferInWay
    <3> QED
      BY <3>1, <3>2
  <2>2. tag' = tag
    BY <2>1, TagKept DEF mshr_rfil
  <2>3. mshr_handle' = {}
    BY <2>1, BusyNext DEF mshr_handle
  <2> QED
    BY <2>1, <2>2, <2>3 DEF Holds
<1>2. LrudBuffered'
  <2> SUFFICES ASSUME lrud'.store PROVE wb'.strb # {}
    BY DEF LrudBuffered, wr_buff_valid
  <2>1. store_hit
    BY EdgeFacts DEF DirtyNext, NoLrud
  <2>2. req.strb # {}
    BY <1>0, <2>1 DEF store_hit, ReqKind
  <2> QED
    BY <2>1, <2>2, WbNext
<1>3. GoonFree'
  <2> SUFFICES ASSUME state' = "goon" PROVE \E e \in Entry : mshr'[e].st = "idle"
    BY DEF GoonFree
  <2>1. state = "block" /\ mshr_rfil # {}
    BY EdgeFacts DEF StateNext, TypeOK, DcacheTypeOK
  <2>2. PICK e \in Entry : e \in mshr_rfil
    BY <2>1 DEF mshr_rfil, mshr_handle
  <2>3. e \notin mshr_alloc
    BY <2>1 DEF mshr_alloc
  <2> QED
    BY <2>2, <2>3, MshrNext DEF FreeMshr
<1> QED
  BY <1>1, <1>2, <1>3

\* The data array, way by way.
LEMMA DataNext ==
    ASSUME NEW d, NEW stale, NEW way, NEW arready, NEW beat, NEW awready, NEW wlast, NEW b,
           Edge(d, stale, way, arready, beat, awready, wlast, b)
    PROVE  data' = [w \in Ways |-> NewData(w, d, stale)]
<1>1. ArraysNext(d, stale, AddrOk(d, stale), Go(d))
  BY EdgeFacts
<1> QED
  BY <1>1 DEF ArraysNext

\* What the output registers got from the arrays is not changed behind them.
LEMMA ReadStep ==
    ASSUME NEW d, NEW stale, NEW way, NEW arready, NEW beat, NEW awready, NEW wlast, NEW b,
           Edge(d, stale, way, arready, beat, awready, wlast, b), TypeOK, PlacesInv, AnswersInv
    PROVE  LookupData' /\ VictimData'
<1>0. LookupCurrent
  BY DEF PlacesInv
<1>1. ASSUME mshr_rfil = {},
             \A w \in Ways : ~(/\ wr_buff_release(d, stale) /\ Watched.lane \in wb.strb /\ w = wb.way
                              /\ Index[wb.line] = WatchedSet /\ wb.bank = Watched.bank)
      PROVE  data' = [w \in Ways |-> Keep(data[w])]
  <2>1. \A w \in Ways : NewData(w, d, stale) = Keep(data[w])
    BY <1>1 DEF NewData
  <2> QED
    BY <2>1, DataNext
<1>2. LookupData'
  <2> SUFFICES ASSUME AddrOk(d, stale), ~d.pref, Index[d.line] = WatchedSet, d.bank = Watched.bank
               PROVE  dataq' = data'
    <3>1. tlb_finish' = AddrOk(d, stale)
      BY EdgeFacts
    <3>2. AddrOk(d, stale) => req'.pref = d.pref /\ req'.line = d.line /\ req'.bank = d.bank
      BY RequestNext
    <3> QED
      BY <3>1, <3>2 DEF LookupData, WatchedSet
  <2>1. d.on /\ state \in {"idle", "lkup"} /\ mshr_rfil = {} /\ Go(d) = {} /\ ~st_ld_conflict(d, stale)
    BY <1>0, TakenFacts
  <2>2. dataq' = [w \in Ways |-> Keep(data[w])]
    <3>1. ArraysNext(d, stale, AddrOk(d, stale), Go(d))
      BY EdgeFacts
    <3> QED
      BY <2>1, <3>1 DEF ArraysNext
  <2>3. ~(wr_buff_release(d, stale) /\ Watched.lane \in wb.strb /\ wb.bank = Watched.bank)
    BY <2>1 DEF wr_buff_release, wr_buff_valid, st_ld_conflict
  <2> QED
    BY <1>1, <2>1, <2>2, <2>3
<1>3. VictimData'
  <2> SUFFICES ASSUME ~cnt', NEW e \in Entry, mshr'[e].st = "handle",
                      Index[mshr'[e].line] = WatchedSet
               PROVE  dataq' = data'
    BY DEF VictimData, mshr_sel, mshr_handle, WatchedSet
  <2>1. Go(d) = {e} /\ mshr'[e].line = mshr[e].line
    BY MoveNext
  <2>2. mshr_rfil = {} /\ ~wr_buff_valid
    BY <1>0, <2>1, GoFacts
  <2>3. dataq' = [w \in Ways |-> Keep(data[w])]
    BY <2>1, ReplacedRead
  <2>4. Watched.lane \notin wb.strb
    BY <2>2 DEF wr_buff_valid
  <2> QED
    BY <1>1, <2>2, <2>3, <2>4
<1> QED
  BY <1>2, <1>3

\* The slot a victim is pushed to is free.
LEMMA PushFree ==
    ASSUME TypeOK, PlacesInv, VictimOrder, mshr_wtbk # {}
    PROVE  vic_push_p \notin vic_valid
<1>1. vic_valid # Slot /\ vic_push_p \in {0, 1} /\ vic_pop_p \in {0, 1} /\ vic_valid \subseteq {0, 1}
  BY PushFacts DEF vic_not_full, TypeOK, InterfaceTypeOK, Slot, vic_valid
<1> QED
  BY <1>1 DEF VictimOrder, Slot

\* The victims leave in the order they came in.
LEMMA OrderStep ==
    ASSUME NEW d, NEW stale, NEW way, NEW arready, NEW beat, NEW awready, NEW wlast, NEW b,
           Edge(d, stale, way, arready, beat, awready, wlast, b), TypeOK, PlacesInv,
           VictimOrder, AnsweredWritten
    PROVE  VictimOrder' /\ AnsweredWritten'
<1> DEFINE p == vic_push_p
           q == vic_pop_p
           push == mshr_wtbk # {}
<1>0. p \in {0, 1} /\ q \in {0, 1} /\ Slot = {0, 1} /\ vic_valid \subseteq {0, 1}
  BY DEF TypeOK, InterfaceTypeOK, Slot, vic_valid
<1>1. push => vic_valid # Slot /\ vic_vacancy /\ p \notin vic_valid
  BY <1>0, PushFacts DEF vic_not_full, VictimOrder
<1>2. bvalid_reg => q \in vic_valid
  BY DEF VictimOrder
<1>3. /\ p' = IF push THEN 1 - p ELSE p
      /\ q' = IF bvalid_reg THEN 1 - q ELSE q
  BY <1>1, EdgeFacts DEF InterfaceNext, vic_push, vic_pop, NextSlot
<1>4. push => wr_line \in Line /\ wr_line # NoLine
  BY PushFacts, DcacheAssumption
<1>5. \A s \in {0, 1} : (s \in vic_valid') <=> ((push /\ s = p)
                                  \/ (s \in vic_valid /\ ~(bvalid_reg /\ s = q)))
  BY <1>0, <1>1, <1>4, VicNext DEF vic_valid
<1>6. vic_valid' \subseteq {0, 1}
  BY DEF vic_valid, Slot
<1>7. /\ p' = q' => vic_valid' = {} \/ Slot \subseteq vic_valid'
      /\ p' # q' => q' \in vic_valid' /\ p' \notin vic_valid'
  <2>0. /\ p = q => (0 \in vic_valid <=> 1 \in vic_valid)
        /\ p # q => q \in vic_valid /\ p \notin vic_valid
    BY <1>0 DEF VictimOrder
  <2>1. (0 \in vic_valid') <=> ((push /\ 0 = p) \/ (0 \in vic_valid /\ ~(bvalid_reg /\ 0 = q)))
    BY <1>5
  <2>2. (1 \in vic_valid') <=> ((push /\ 1 = p) \/ (1 \in vic_valid /\ ~(bvalid_reg /\ 1 = q)))
    BY <1>5
  <2>3. /\ p' = q' => ((0 \in vic_valid') <=> (1 \in vic_valid'))
        /\ p' # q' => q' \in vic_valid' /\ p' \notin vic_valid'
    BY <1>0, <1>1, <1>2, <1>3, <2>0, <2>1, <2>2
  <2> QED
    BY <1>0, <1>6, <2>3
<1>8. vic_addr_arrived' => q' \in vic_valid'
  <2> SUFFICES ASSUME vic_addr_arrived' PROVE q' \in vic_valid'
    OBVIOUS
  <2>1. ~bvalid_reg /\ (vic_addr_arrived \/ awvalid)
    BY EdgeFacts DEF InterfaceNext, vic_pop
  <2>2. q \in vic_valid
    BY <1>0, <2>1 DEF VictimOrder, awvalid, vic_valid
  <2> QED
    BY <1>0, <1>3, <1>5, <2>1, <2>2
<1>9. bvalid_reg' = b /\ (b => vic_addr_arrived /\ ~bvalid_reg)
  BY EdgeFacts DEF MemoryNext, Edge, WriteDue
<1>10. bvalid_reg' => vic_addr_arrived'
  BY <1>9, EdgeFacts DEF InterfaceNext, vic_pop
<1>11. AnsweredWritten'
  <2> SUFFICES ASSUME b, vic'[q'].line = Watched.line, vic'[q'].cur PROVE mem'
    BY <1>9 DEF AnsweredWritten
  <2>1. q \in vic_valid /\ ~bvalid_reg /\ q' = q
    BY <1>3, <1>9 DEF VictimOrder
  <2>2. ~(push /\ q = p)
    BY <1>1, <2>1
  <2>3. vic'[q].line = vic[q].line /\ vic'[q].cur = Keep(vic[q].cur)
    BY <1>0, <2>1, <2>2, VicNext DEF Slot
  <2> QED
    BY <2>1, <2>3, EdgeFacts DEF MemoryNext
<1> QED
  BY <1>7, <1>8, <1>10, <1>11 DEF VictimOrder

\* Where the line is not in the cache, the newest byte stays behind it; a line
\* that leaves takes it along.
LEMMA BehindNext ==
    ASSUME NEW d, NEW stale, NEW way, NEW arready, NEW beat, NEW awready, NEW wlast, NEW b,
           Edge(d, stale, way, arready, beat, awready, wlast, b), TypeOK, PlacesInv, AnswersInv,
           BytesInv, ~hit_last,
           \/ ~WatchedStore /\ BehindCache
           \/ mshr_wtbk # {} /\ wr_line = Watched.line
    PROVE  BehindCache'
<1> DEFINE W == Watched.line
<1>0. /\ W # NoLine /\ W \in Line /\ vic_push_p \in Slot /\ vic_pop_p \in Slot
      /\ LookupCurrent /\ ReqKind
  BY DcacheAssumption DEF TypeOK, InterfaceTypeOK, PlacesInv, AnswersInv
<1>1. CASE mshr_wtbk # {} /\ wr_line = W
  <2>1. PICK e : e \in mshr_wtbk
    BY <1>1
  <2>2. /\ e \in Entry /\ e \in mshr_sel /\ mshr_handle # {} /\ Holds(rplc.way, W)
        /\ Index[mshr[e].line] = WatchedSet
    BY <1>1, <2>1, PushFacts DEF WatchedSet
  <2>3. dataq = data
    BY <2>2 DEF BytesInv, VictimData
  <2>5. ~StoreWaits
    BY <1>0, <2>2 DEF StoreWaits, Covers, IsWatched, PlacesInv, BlockedAbsent, TypeOK, DcacheTypeOK
  <2>6. rplc.way \in WaysOf
    BY <2>2 DEF WaysOf, Holds, WatchedSet, TypeOK, DcacheTypeOK
  <2>7. data[rplc.way]
    BY <2>5, <2>6 DEF BytesInv, NewestPlaced
  <2>8. ~WatchedStore
    BY <1>0, <2>2, QuietMove
  <2>9. vic'[vic_push_p].line = W /\ vic'[vic_push_p].cur
    BY <1>0, <1>1, <2>3, <2>7, <2>8, VicNext DEF Keep
  <2> QED
    BY <1>0, <2>9 DEF BehindCache, Slot
<1>2. CASE ~WatchedStore /\ BehindCache /\ ~(mshr_wtbk # {} /\ wr_line = W)
  <2>1. ASSUME NEW s \in Slot, vic'[s].line = W
        PROVE  /\ vic[s].line = W /\ s \in vic_valid /\ ~(bvalid_reg /\ s = vic_pop_p)
               /\ (vic[s].cur => vic'[s].cur)
    BY <1>0, <1>2, <2>1, VicNext DEF vic_valid, Keep
  <2>2. CASE \E s \in Slot : vic[s].line = W
    <3>1. PICK s \in Slot : vic[s].line = W /\ vic[s].cur
      BY <1>2, <2>2 DEF BehindCache
    <3>2. s \in vic_valid /\ \A t \in vic_valid : vic[t].line = W => t = s
      BY <1>0, <3>1 DEF vic_valid, PlacesInv, VictimsAway
    <3>3. CASE bvalid_reg /\ s = vic_pop_p
      <4>1. \A t \in Slot : vic'[t].line # W
        BY <2>1, <3>2, <3>3
      <4>2. mem /\ ~b
        BY <3>1, <3>3 DEF BytesInv, AnsweredWritten, Edge, WriteDue
      <4>3. MemoryNext(beat, b)
        BY EdgeFacts
      <4>4. mem' = Keep(mem)
        BY <4>2, <4>3 DEF MemoryNext
      <4>5. mem'
        BY <1>2, <4>2, <4>4 DEF Keep
      <4> QED
        BY <4>1, <4>5 DEF BehindCache, Slot
    <3>4. CASE ~(bvalid_reg /\ s = vic_pop_p)
      <4>1. ~(mshr_wtbk # {} /\ s = vic_push_p)
        BY <3>2, PushFree DEF BytesInv
      <4>2. vic'[s].line = W /\ vic'[s].cur
        BY <1>2, <3>1, <3>4, <4>1, VicNext DEF Keep
      <4> QED
        BY <4>2 DEF BehindCache, Slot
    <3> QED
      BY <3>3, <3>4
  <2>3. CASE ~ \E s \in Slot : vic[s].line = W
    <3>1. \A t \in Slot : vic'[t].line # W
      BY <2>1, <2>3
    <3>2. mem'
      BY <1>0, <1>2, <2>3, EdgeFacts DEF MemoryNext, Keep, BehindCache
    <3> QED
      BY <3>1, <3>2 DEF BehindCache, Slot
  <2> QED
    BY <2>2, <2>3
<1> QED
  BY <1>1, <1>2

\* The dirty bits, and the one that a hit leaves to be set.
LEMMA DirtyFacts ==
    ASSUME NEW d, NEW stale, NEW way, NEW arready, NEW beat, NEW awready, NEW wlast, NEW b,
           Edge(d, stale, way, arready, beat, awready, wlast, b),
           NEW s \in Sets, NEW w \in Ways
    PROVE  /\ s = DirtySet(Go(d)) /\ mshr_rfil # {} /\ w = rplc.way =>
                \A e \in mshr_rfil : mshr[e].dirty => dirty'[s][w]
           /\ ~(s = DirtySet(Go(d)) /\ mshr_rfil # {} /\ w = rplc.way) =>
                /\ dirty[s][w] => dirty'[s][w]
                /\ s = DirtySet(Go(d)) /\ lrud.store /\ w \in lrud.ways => dirty'[s][w]
           /\ store_hit => /\ lrud'.store /\ lrud'.set = Index[req.line]
                           /\ lrud'.ways = way_hit
<1>1. DirtyNext(Go(d))
  BY EdgeFacts
<1>2. dirty'[s][w] = NewDirty(s, w, Go(d))
  BY <1>1 DEF DirtyNext
<1>3. store_hit => /\ lrud'.store /\ lrud'.set = Index[req.line]
                   /\ lrud'.ways = way_hit
  BY <1>1 DEF DirtyNext
<1>4. CASE s = DirtySet(Go(d)) /\ mshr_rfil # {} /\ w = rplc.way
  <2>1. dirty'[s][w] = \E e \in mshr_rfil : mshr[e].dirty
    BY <1>2, <1>4 DEF NewDirty
  <2> QED
    BY <1>3, <1>4, <2>1
<1>5. CASE ~(s = DirtySet(Go(d)) /\ mshr_rfil # {} /\ w = rplc.way)
  <2>1. dirty'[s][w] = ((s = DirtySet(Go(d)) /\ lrud.store /\ w \in lrud.ways) \/ dirty[s][w])
    BY <1>2, <1>5 DEF NewDirty
  <2> QED
    BY <1>3, <1>5, <2>1
<1> QED
  BY <1>4, <1>5

\* A clean line has its newest byte behind the cache.
LEMMA CleanStep ==
    ASSUME NEW d, NEW stale, NEW way, NEW arready, NEW beat, NEW awready, NEW wlast, NEW b,
           Edge(d, stale, way, arready, beat, awready, wlast, b), TypeOK, PlacesInv, AnswersInv,
           BytesInv
    PROVE  CleanBehind'
<1> SUFFICES ASSUME ~hit_last' PROVE CleanBehind'
  BY DEF CleanBehind
<1> DEFINE W == Watched.line
<1>6. (~WatchedStore => ~hit_last) /\ (WatchedStore => way_hit = {})
  BY HitLastNext
<1>0. /\ LookupCurrent /\ ReqKind /\ OneHandle /\ Apart /\ TagsInSets /\ WatchedSet \in Sets
      /\ CleanBehind /\ BufferInWay /\ LrudBuffered /\ NewestPlaced /\ W \in Line /\ W # NoLine
  BY DcacheAssumption DEF PlacesInv, AnswersInv, BytesInv, WatchedSet, Sets
<1>1. ~WatchedStore /\ BehindCache => BehindCache'
  BY <1>6, BehindNext
<1>2. ASSUME NEW w \in WaysOf'
      PROVE  \/ dirty'[WatchedSet][w] \/ BehindCache'
             \/ lrud'.store /\ lrud'.set = WatchedSet /\ w \in lrud'.ways
  <2>0. w \in Ways /\ tag'[WatchedSet][w] = W
    BY DEF WaysOf, WatchedSet
  <2>1. CASE \E e \in mshr_rfil : Index[mshr[e].line] = WatchedSet /\ w = rplc.way
    <3>1. PICK e \in mshr_rfil : Index[mshr[e].line] = WatchedSet /\ w = rplc.way
      BY <2>1
    <3>2. mshr[e].line = W /\ e \in Registers
      BY <1>0, <2>0, <3>1, TagNext DEF Registers, mshr_rfil, mshr_handle
    <3>3. Go(d) = {} /\ \A f \in mshr_rfil : f = e
      BY <1>0, <3>1, GoFacts DEF OneHandle, mshr_rfil
    <3>4. DirtySet(Go(d)) = WatchedSet
      BY <3>1, <3>3 DEF DirtySet
    <3>5. mshr[e].dirty => dirty'[WatchedSet][w]
      BY <1>0, <2>0, <3>1, <3>4, DirtyFacts
    <3>6. ~WatchedStore
      BY <1>0, <3>1, QuietMove DEF mshr_rfil
    <3> QED
      BY <1>0, <1>1, <1>6, <3>2, <3>5, <3>6 DEF CleanBehind
  <2>2. CASE ~ \E e \in mshr_rfil : Index[mshr[e].line] = WatchedSet /\ w = rplc.way
    <3>1. tag[WatchedSet][w] = W /\ w \in WaysOf
      BY <1>0, <2>0, <2>2, TagNext DEF WaysOf
    <3>2. CASE WatchedStore
      <4>1. tlb_finish /\ tlb_valid_finish /\ req.wr /\ req.line = W
        BY <3>2 DEF WatchedStore, Covers, IsWatched, tlb_valid_finish
      <4>2. w \in way_hit
        BY <1>0, <2>0, <3>1, <4>1, LookupFacts DEF Holds, WatchedSet
      <4> QED
        BY <1>6, <3>2, <4>2
    <3>3. CASE ~WatchedStore /\ dirty[WatchedSet][w]
      <4>1. ~(WatchedSet = DirtySet(Go(d)) /\ mshr_rfil # {} /\ w = rplc.way)
        <5> SUFFICES ASSUME mshr_rfil # {}, w = rplc.way PROVE WatchedSet # DirtySet(Go(d))
          OBVIOUS
        <5>1. PICK e \in mshr_rfil : TRUE
          OBVIOUS
        <5>2. Go(d) = {} /\ \A f \in mshr_rfil : f = e
          BY <1>0, <5>1, GoFacts DEF OneHandle, mshr_rfil
        <5> QED
          BY <2>2, <5>1, <5>2 DEF DirtySet
      <4> QED
        BY <1>0, <2>0, <3>3, <4>1, DirtyFacts
    <3>4. CASE lrud.store /\ lrud.set = WatchedSet /\ w \in lrud.ways
      <4>1. mshr_handle = {} /\ Go(d) = {} /\ mshr_rfil = {}
        BY <1>0, <3>4, GoFacts DEF LrudBuffered, BufferInWay, mshr_rfil
      <4>2. DirtySet(Go(d)) = WatchedSet
        BY <3>4, <4>1 DEF DirtySet
      <4> QED
        BY <1>0, <2>0, <3>4, <4>1, <4>2, DirtyFacts
    <3> QED
      BY <1>0, <1>1, <1>6, <3>1, <3>2, <3>3, <3>4 DEF CleanBehind
  <2> QED
    BY <2>1, <2>2
<1>3. ASSUME NEW e \in Registers'
      PROVE  mshr'[e].dirty \/ BehindCache'
  <2>0. e \in Entry /\ mshr'[e].st # "idle" /\ mshr'[e].line = W
    BY DEF Registers
  <2>1. CASE e \in mshr_alloc
    <3>1. mshr'[e].dirty = req.wr /\ req.line = W
      BY <2>0, <2>1, MshrNext
    <3>2. CASE ~req.wr
      <4>1. Registers = {} /\ WaysOf = {}
        BY <2>1, <3>1, AllocFacts DEF PlacesInv, Registers, WaysOf, Holds, Collects, WatchedSet
      <4>2. BehindCache /\ ~WatchedStore
        BY <1>0, <1>6, <3>2, <4>1 DEF NewestPlaced, StoreWaits, WatchedStore
      <4> QED
        BY <1>1, <4>2
    <3> QED
      BY <3>1, <3>2
  <2>2. CASE e \notin mshr_alloc
    <3>1. e \notin mshr_rfil /\ mshr[e].st # "idle" /\ mshr[e].line = W /\ e \in Registers
      BY <2>0, <2>2, BusyNext DEF Registers
    <3>2. mshr'[e].dirty = (mshr[e].dirty \/ (e \in mshr_hit /\ req.wr))
      BY <2>0, <2>2, <3>1, MshrNext
    <3>3. WatchedStore => e \in mshr_hit /\ req.wr
      BY <2>0, <3>1 DEF WatchedStore, Covers, IsWatched, mshr_hit
    <3> QED
      BY <1>0, <1>1, <1>6, <3>1, <3>2, <3>3 DEF CleanBehind
  <2> QED
    BY <2>1, <2>2
<1>4. ASSUME NEW e \in Entry, mshr'[e].st = "handle", Index[mshr'[e].line] = WatchedSet,
             rplc'.way \in WaysOf'
      PROVE  BehindCache' \/ (~cnt' /\ rplc'.dirty)
  <2>1. /\ ~cnt' => Go(d) = {e}
        /\ cnt' => /\ mshr_sel = {e} /\ mshr_handle = {e} /\ Go(d) = {} /\ rplc' = rplc
                   /\ mshr_rfil = {}
        /\ mshr'[e].line = mshr[e].line /\ tag' = tag
    BY <1>4, MoveNext
  <2>2. rplc'.way \in WaysOf
    BY <1>4, <2>1 DEF WaysOf, WatchedSet
  <2>3. CASE ~cnt'
    <3>1. rplc'.way = way /\ (dirty[WatchedSet][way] => rplc'.dirty)
      <4>1. rplc' = [way |-> way, dirty |-> \E f \in Go(d) : dirty[Index[mshr[f].line]][way]]
        BY <2>1, <2>3, RplcNext
      <4>2. rplc'.way = way /\ rplc'.dirty = \E f \in Go(d) : dirty[Index[mshr[f].line]][way]
        BY <4>1
      <4> QED
        BY <1>4, <2>1, <2>3, <4>2
    <3>2. ~WatchedStore /\ ~lrud.store
      BY <1>0, <2>1, <2>3, GoFacts, QuietMove DEF LrudBuffered
    <3> QED
      BY <1>0, <1>1, <1>6, <2>2, <2>3, <3>1, <3>2 DEF CleanBehind
  <2>4. CASE cnt'
    <3>1. mshr_sel = {e} /\ mshr_handle = {e} /\ rplc' = rplc /\ Index[mshr[e].line] = WatchedSet
      BY <1>4, <2>1, <2>4
    <3>2. ~WatchedStore
      BY <1>0, <3>1, QuietMove
    <3>3. BehindCache \/ rplc.dirty
      BY <1>0, <1>6, <2>2, <3>1, <3>2 DEF CleanBehind
    <3>4. CASE rplc.dirty
      <4>1. tagq[rplc.way] = W
        BY <2>2, <3>1 DEF PlacesInv, VictimRead, WaysOf
      <4>2. mshr_wtbk = {e}
        BY <1>0, <3>1, <3>4, <4>1 DEF mshr_wtbk, replaced_dirty
      <4>3. wr_line = W
        BY <4>1, <4>2, PushFacts
      <4> QED
        BY <1>6, <3>2, <4>2, <4>3, BehindNext
    <3> QED
      BY <1>1, <3>2, <3>3, <3>4
  <2> QED
    BY <2>3, <2>4
<1>5. \A e \in mshr_handle' : Index[mshr'[e].line] = WatchedSet /\ rplc'.way \in WaysOf'
                              => BehindCache' \/ (e \in mshr_sel' /\ rplc'.dirty)
  BY <1>4 DEF mshr_handle, mshr_sel
<1> QED
  BY <1>2, <1>3, <1>5 DEF CleanBehind, WatchedSet

\* The watched byte in a miss register: stored to, filled by its beat, or as
\* it was.
TheByte == <<Watched.bank, Watched.lane>>
LEMMA ByteNext ==
    ASSUME NEW d, NEW stale, NEW way, NEW arready, NEW beat, NEW awready, NEW wlast, NEW b,
           Edge(d, stale, way, arready, beat, awready, wlast, b), NEW e \in Entry
    PROVE  /\ e \in mshr_alloc =>
                /\ TheByte \in mshr'[e].strb
                     <=> Watched.bank = req.bank /\ Watched.lane \in req.strb
                /\ Covers(req.line, req.bank, req.strb) => mshr'[e].cur
           /\ e \notin mshr_alloc /\ e \notin mshr_rfil =>
                /\ TheByte \in mshr'[e].strb
                     <=> \/ TheByte \in mshr[e].strb
                         \/ /\ e \in mshr_hit
                            /\ Watched.bank = req.bank /\ Watched.lane \in req.strb
                /\ e \in mshr_hit /\ Covers(req.line, req.bank, req.strb) => mshr'[e].cur
                /\ /\ ret.entry = e /\ mshr[e].line = Watched.line
                   /\ mshr[e].rec = BeatOf(Watched.bank) /\ TheByte \notin mshr[e].strb
                   /\ ret.cur /\ ~WatchedStore
                   => mshr'[e].cur
                /\ /\ mshr[e].rec # BeatOf(Watched.bank) \/ TheByte \in mshr[e].strb
                   /\ mshr[e].cur /\ ~WatchedStore
                   => mshr'[e].cur
<1> DEFINE stored == {x \in Bank \X Lanes : e \in mshr_new_req /\ x[1] = req.bank
                                            /\ x[2] \in req.strb}
           filled == /\ ret.entry = e /\ mshr[e].line = Watched.line
                     /\ mshr[e].rec = BeatOf(Watched.bank)
                     /\ TheByte \notin mshr[e].strb
           took == e \in mshr_new_req /\ Covers(req.line, req.bank, req.strb)
<1>1. mshr'[e] = MshrEntry(e, ret, RdTaken(arready) = e, Go(d))
  BY EdgeFacts
<1>2. TheByte \in stored <=> /\ e \in mshr_new_req
                             /\ Watched.bank = req.bank /\ Watched.lane \in req.strb
  BY DcacheAssumption DEF TheByte
<1>3. CASE e \in mshr_alloc
  <2>1. mshr'[e].strb = stored /\ mshr'[e].cur = took
    BY <1>1, <1>3 DEF MshrEntry
  <2>2. e \in mshr_new_req
    BY <1>3 DEF mshr_new_req
  <2> HIDE DEF stored
  <2> QED
    BY <1>2, <1>3, <2>1, <2>2
<1>4. CASE e \notin mshr_alloc /\ e \notin mshr_rfil
  <2>1. mshr'[e].strb = mshr[e].strb \cup stored
    BY <1>1, <1>4 DEF MshrEntry
  <2>2. mshr'[e].cur = (took \/ Keep(IF filled THEN ret.cur ELSE mshr[e].cur))
    BY <1>1, <1>4 DEF MshrEntry, TheByte
  <2>3. e \in mshr_new_req <=> e \in mshr_hit
    BY <1>4 DEF mshr_new_req
  <2>4. took => mshr'[e].cur
    BY <2>2
  <2>5. filled /\ ret.cur /\ ~WatchedStore => mshr'[e].cur
    BY <2>2 DEF Keep
  <2>6. ~filled /\ mshr[e].cur /\ ~WatchedStore => mshr'[e].cur
    BY <2>2 DEF Keep
  <2>7. TheByte \in mshr'[e].strb <=> TheByte \in mshr[e].strb \/ TheByte \in stored
    BY <2>1
  <2> HIDE DEF stored
  <2>8. TheByte \in mshr'[e].strb
          <=> \/ TheByte \in mshr[e].strb
              \/ /\ e \in mshr_hit
                 /\ Watched.bank = req.bank /\ Watched.lane \in req.strb
    BY <1>2, <2>3, <2>7
  <2> QED
    BY <1>4, <2>3, <2>4, <2>5, <2>6, <2>8
<1> QED
  BY <1>3, <1>4

\* A register is allocated for a store to the watched byte.
LEMMA AllocatedNext ==
    ASSUME NEW d, NEW stale, NEW way, NEW arready, NEW beat, NEW awready, NEW wlast, NEW b,
           Edge(d, stale, way, arready, beat, awready, wlast, b), TypeOK, PlacesInv,
           NEW e \in mshr_alloc, Covers(req.line, req.bank, req.strb)
    PROVE  NewestPlaced'
<1>0. OneHandle /\ WatchedSet \in Sets
  BY DcacheAssumption DEF PlacesInv, WatchedSet, Sets
<1>1. /\ mshr_alloc = {e} /\ e \in Entry /\ req.line = Watched.line
      /\ \A w \in Ways : ~Holds(w, req.line)
      /\ \A f \in Entry : ~Collects(f, req.line)
  BY AllocFacts DEF PlacesInv, Covers, IsWatched
<1>2. mshr'[e].st = "addr" /\ mshr'[e].line = Watched.line
  BY <1>1, MshrNext
<1>3. \A f \in Registers' : f = e
  BY <1>1, BusyNext DEF Registers, Collects
<1>4. TheByte \in mshr'[e].strb /\ mshr'[e].cur
  BY <1>1, ByteNext DEF Covers, IsWatched
<1>5. ASSUME NEW w \in Ways PROVE tag'[WatchedSet][w] # Watched.line
  <2>1. CASE \E f \in mshr_rfil : Index[mshr[f].line] = WatchedSet /\ w = rplc.way
    BY <1>0, <1>1, <2>1, TagNext DEF Collects, mshr_rfil, mshr_handle
  <2>2. CASE ~ \E f \in mshr_rfil : Index[mshr[f].line] = WatchedSet /\ w = rplc.way
    BY <1>0, <1>1, <2>2, TagNext DEF Holds, WatchedSet
  <2> QED
    BY <2>1, <2>2
<1>6. WaysOf' = {}
  BY <1>5 DEF WaysOf, WatchedSet
<1>7. e \in Registers'
  BY <1>1, <1>2 DEF Registers
<1>8. \A f \in Registers' : InRegister(f)'
  BY <1>3, <1>4 DEF InRegister, TheByte
<1> QED
  BY <1>6, <1>7, <1>8 DEF NewestPlaced

\* A store that waits for a register, or that is looked up now, is where the
\* next access finds it.
LEMMA StoreLands ==
    ASSUME NEW d, NEW stale, NEW way, NEW arready, NEW beat, NEW awready, NEW wlast, NEW b,
           Edge(d, stale, way, arready, beat, awready, wlast, b), TypeOK, PlacesInv, AnswersInv,
           BytesInv, StoreWaits \/ WatchedStore
    PROVE  NewestPlaced'
<1>0. LookupCurrent /\ ReqKind /\ OneHandle /\ GoonFree
  BY DEF PlacesInv, AnswersInv, BytesInv
<1>1. CASE StoreWaits
  <2>1. /\ Covers(req.line, req.bank, req.strb) /\ req.wr /\ ~tlb_finish
        /\ state \in {"block", "goon"} /\ ~AddrOk(d, stale)
    BY <1>0, <1>1, TakenFacts DEF StoreWaits, LookupCurrent
  <2>2. CASE state = "block"
    <3>1. state' \in {"block", "goon"}
      BY <2>2, EdgeFacts DEF StateNext
    <3>2. req' = req
      BY <2>1, <3>1, RequestNext
    <3> QED
      BY <2>1, <3>1, <3>2 DEF NewestPlaced, StoreWaits, Covers, IsWatched
  <2>3. CASE state = "goon"
    <3>1. mshr_hit = {}
      BY <2>1 DEF mshr_hit, tlb_valid_finish
    <3>2. {f \in Entry : mshr[f].st = "idle"} # {}
      BY <1>0, <2>3 DEF GoonFree
    <3>3. mshr_alloc # {}
      BY <2>3, <3>1, <3>2, LowestExists DEF mshr_alloc
    <3> QED
      BY <2>1, <3>3, AllocatedNext
  <2> QED
    BY <2>1, <2>2, <2>3
<1>2. CASE WatchedStore
  <2>1. /\ tlb_valid_finish /\ tlb_finish /\ req.wr /\ req.strb # {} /\ state = "lkup"
        /\ req.line = Watched.line /\ req.bank = Watched.bank /\ Watched.lane \in req.strb
        /\ Covers(req.line, req.bank, req.strb) /\ mshr_handle = {} /\ mshr_rfil = {}
    BY <1>0, <1>2 DEF WatchedStore, Covers, IsWatched, tlb_valid_finish, LookupCurrent, ReqKind,
                      mshr_rfil
  <2>2. tag' = tag
    BY <2>1, TagKept
  <2>3. WaysOf' = WaysOf
    BY <2>2 DEF WaysOf, WatchedSet
  <2>4. \A w \in Ways : w \in way_hit <=> w \in WaysOf
    BY <2>1, LookupFacts DEF PlacesInv, Holds, WaysOf, WatchedSet
  <2>5. \A e \in Entry : e \in Registers <=> e \in mshr_hit
    BY <2>1 DEF Registers, mshr_hit
  <2>6. \A e \in Registers' : e \in mshr_alloc \/ (e \in Registers /\ e \notin mshr_alloc)
    BY BusyNext DEF Registers
  <2>7. CASE way_hit # {}
    BY <1>2, <2>7, HitLastNext DEF NewestPlaced
  <2>8. CASE way_hit = {} /\ mshr_hit # {}
    <3>1. mshr_alloc = {}
      BY <2>1, <2>8 DEF mshr_alloc
    <3>2. WaysOf' = {}
      BY <2>3, <2>4, <2>8 DEF WaysOf
    <3>3. ASSUME NEW e \in Registers' PROVE InRegister(e)'
      <4>1. e \in Entry /\ e \in mshr_hit
        BY <2>5, <2>6, <3>1, <3>3 DEF Registers
      <4>2. TheByte \in mshr'[e].strb /\ mshr'[e].cur
        BY <2>1, <3>1, <4>1, ByteNext
      <4> QED
        BY <4>2 DEF InRegister, TheByte
    <3>4. PICK e \in mshr_hit : TRUE
      BY <2>8
    <3>5. e \in Registers'
      <4>1. e \in Entry /\ mshr[e].st # "idle" /\ mshr[e].line = Watched.line
        BY <2>1, <3>4 DEF mshr_hit
      <4>2. mshr'[e].st # "idle" /\ mshr'[e].line = Watched.line
        BY <2>1, <3>1, <4>1, MshrNext
      <4> QED
        BY <4>1, <4>2 DEF Registers
    <3> QED
      BY <3>2, <3>3, <3>5 DEF NewestPlaced
  <2>9. CASE way_hit = {} /\ mshr_hit = {}
    <3>1. cache_miss
      BY <2>1, <2>9 DEF cache_miss
    <3>2. CASE mshr_full
      <4>1. ~AddrOk(d, stale)
        BY <1>0, <2>1, <3>2, TakenFacts
      <4>2. state' = "block"
        BY <2>1, <2>9, <3>1, <3>2, EdgeFacts DEF StateNext
      <4>3. req' = req
        BY <4>1, <4>2, RequestNext
      <4> QED
        BY <2>1, <4>2, <4>3 DEF NewestPlaced, StoreWaits, Covers, IsWatched
    <3>3. CASE ~mshr_full
      <4>1. {f \in Entry : mshr[f].st = "idle"} # {}
        BY <3>3 DEF mshr_full
      <4>2. mshr_alloc # {}
        BY <2>1, <2>9, <3>1, <4>1, LowestExists DEF mshr_alloc
      <4> QED
        BY <2>1, <4>2, AllocatedNext
    <3> QED
      BY <3>2, <3>3
  <2> QED
    BY <2>7, <2>8, <2>9
<1> QED
  BY <1>1, <1>2

\* No store takes effect: what the cycle finds in a register, the next finds too.
LEMMA RegisterStep ==
    ASSUME NEW d, NEW stale, NEW way, NEW arready, NEW beat, NEW awready, NEW wlast, NEW b,
           Edge(d, stale, way, arready, beat, awready, wlast, b), TypeOK, PlacesInv, AnswersInv,
           BytesInv, ~StoreWaits, ~WatchedStore, ~hit_last, NEW e \in Registers'
    PROVE  InRegister(e)'
<1> DEFINE k == BeatOf(Watched.bank)
<1>0. /\ ReqKind /\ NewestPlaced /\ e \in Entry
      /\ mshr'[e].st # "idle" /\ mshr'[e].line = Watched.line
      /\ k \in Nat /\ k < NBeats /\ NBeats \in Nat /\ mshr[e].rec \in Nat
  BY BeatBound, BankZero, DcacheAssumption
  DEF AnswersInv, BytesInv, Registers, TypeOK, DcacheTypeOK
<1>1. BehindCache => BehindCache'
  BY BehindNext
<1>2. CASE e \in mshr_alloc
  <2>1. /\ req.line = Watched.line /\ mshr'[e].rec = 0 /\ mshr[e].st = "idle"
        /\ \A w \in Ways : ~Holds(w, req.line)
        /\ \A f \in Entry : ~Collects(f, req.line)
        /\ tlb_finish \/ state = "goon"
    BY <1>0, <1>2, MshrNext, AllocFacts DEF PlacesInv
  <2>2. Registers = {} /\ WaysOf = {}
    BY <2>1 DEF Registers, WaysOf, Holds, Collects, WatchedSet
  <2>3. BehindCache
    BY <1>0, <2>2 DEF NewestPlaced
  <2>4. ~Covers(req.line, req.bank, req.strb)
    <3> SUFFICES ASSUME Covers(req.line, req.bank, req.strb) PROVE FALSE
      OBVIOUS
    <3>1. req.wr /\ ~req.pref
      BY <1>0 DEF ReqKind, Covers
    <3>2. state # "goon"
      BY <3>1 DEF StoreWaits
    <3>3. tlb_valid_finish
      BY <1>2, <3>2 DEF mshr_alloc, cache_miss
    <3> QED
      BY <3>1, <3>3 DEF WatchedStore
  <2>5. TheByte \notin mshr'[e].strb
    BY <1>0, <1>2, <2>1, <2>4, ByteNext DEF Covers, IsWatched
  <2>6. ret'.entry # e
    BY <1>0, <2>1, EdgeFacts DEF MemoryNext, Beat, NoBeat, Edge, Owed, Entry, NoEntry
  <2> QED
    BY <1>0, <1>1, <2>1, <2>3, <2>5, <2>6 DEF InRegister, TheByte
<1>3. CASE e \notin mshr_alloc
  <2>1. e \notin mshr_rfil /\ mshr[e].st # "idle" /\ mshr[e].line = Watched.line /\ e \in Registers
    BY <1>0, <1>3, BusyNext DEF Registers
  <2>2. InRegister(e)
    BY <1>0, <2>1 DEF NewestPlaced
  <2>3. ~(e \in mshr_hit /\ Watched.bank = req.bank /\ Watched.lane \in req.strb)
    BY <1>0, <2>1 DEF mshr_hit, WatchedStore, Covers, IsWatched, ReqKind
  <2>4. TheByte \in mshr'[e].strb <=> TheByte \in mshr[e].strb
    BY <1>0, <1>3, <2>1, <2>3, ByteNext
  <2>5. mshr'[e].rec = IF ret.entry = e THEN mshr[e].rec + 1 ELSE mshr[e].rec
    BY <1>0, <1>3, <2>1, MshrNext
  <2>6. CASE TheByte \in mshr[e].strb \/ mshr[e].rec > k
    <3>1. mshr[e].cur
      BY <2>2, <2>6 DEF InRegister, TheByte
    <3>2. mshr'[e].cur
      BY <1>0, <1>3, <2>1, <2>6, <3>1, ByteNext
    <3>3. TheByte \in mshr'[e].strb \/ mshr'[e].rec > k
      BY <1>0, <2>4, <2>5, <2>6
    <3> QED
      BY <3>2, <3>3 DEF InRegister, TheByte
  <2>7. CASE TheByte \notin mshr[e].strb /\ mshr[e].rec = k /\ ret.entry = e
    <3>1. ret.cur
      BY <1>0, <2>2, <2>7 DEF InRegister, TheByte
    <3>2. mshr'[e].cur
      BY <1>0, <1>3, <2>1, <2>7, <3>1, ByteNext
    <3>3. mshr'[e].rec > k
      BY <1>0, <2>5, <2>7
    <3> QED
      BY <3>2, <3>3 DEF InRegister, TheByte
  <2>8. CASE TheByte \notin mshr[e].strb /\ ~(mshr[e].rec > k) /\ ~(mshr[e].rec = k /\ ret.entry = e)
    <3>1. BehindCache /\ BehindCache'
      BY <1>1, <2>2, <2>8 DEF InRegister, TheByte
    <3>2. TheByte \notin mshr'[e].strb /\ ~(mshr'[e].rec > k)
      BY <1>0, <2>4, <2>5, <2>8
    <3>3. ret'.entry = e /\ mshr'[e].rec = k => ret'.cur
      <4> SUFFICES ASSUME ret'.entry = e, mshr'[e].rec = k PROVE ret'.cur
        OBVIOUS
      <4>1. beat = e /\ e \in Owed
        BY <1>0, EdgeFacts DEF MemoryNext, Beat, NoBeat, Edge, Entry, NoEntry
      <4>2. mshr[e].st = "data"
        BY <4>1 DEF Owed
      <4>3. \A s \in Slot : vic[s].line # Watched.line
        BY <1>0, <2>1, <4>2, DcacheAssumption DEF PlacesInv, VictimsAway, vic_valid
      <4>4. mem
        BY <3>1, <4>3 DEF BehindCache
      <4>5. mshr[e].rec + (IF ret.entry = e THEN 1 ELSE 0) = k
        BY <1>0, <2>5
      <4>6. ret'.cur = (/\ mshr[e].line = Watched.line
                        /\ mshr[e].rec + (IF ret.entry = e THEN 1 ELSE 0) = k
                        /\ Keep(mem))
        <5>1. e # NoEntry /\ beat = e
          BY <1>0, <4>1 DEF NoEntry, Entry
        <5>2. ret' = Beat(e)
          BY <5>1, EdgeFacts DEF MemoryNext
        <5>3. ret' = [entry |-> e,
                      cur |-> /\ mshr[e].line = Watched.line
                              /\ mshr[e].rec + (IF ret.entry = e THEN 1 ELSE 0) = k
                              /\ Keep(mem)]
          BY <5>1, <5>2 DEF Beat
        <5> QED
          BY <5>3
      <4> QED
        BY <2>1, <4>4, <4>5, <4>6 DEF Keep
    <3> QED
      BY <3>1, <3>2, <3>3 DEF InRegister, TheByte
  <2> QED
    BY <2>6, <2>7, <2>8
<1> QED
  BY <1>2, <1>3

\* Or in a way, which the write buffer does not reach.
LEMMA WayStep ==
    ASSUME NEW d, NEW stale, NEW way, NEW arready, NEW beat, NEW awready, NEW wlast, NEW b,
           Edge(d, stale, way, arready, beat, awready, wlast, b), TypeOK, PlacesInv, AnswersInv,
           BytesInv, ~StoreWaits, ~WatchedStore, ~hit_last, NEW w \in WaysOf'
    PROVE  data'[w]
<1> DEFINE moved == \E e \in mshr_rfil : Index[mshr[e].line] = WatchedSet /\ w = rplc.way
           merged == /\ wr_buff_release(d, stale) /\ Watched.lane \in wb.strb /\ w = wb.way
                     /\ Index[wb.line] = WatchedSet /\ wb.bank = Watched.bank
<1>0. /\ LookupCurrent /\ ReqKind /\ OneHandle /\ BufferInWay /\ NewestPlaced /\ Apart
      /\ WatchedSet \in Sets /\ w \in Ways /\ tag'[WatchedSet][w] = Watched.line
      /\ Watched.line \in Line
  BY DcacheAssumption
  DEF PlacesInv, AnswersInv, BytesInv, WatchedSet, Sets, WaysOf
<1>1. data'[w] = NewData(w, d, stale)
  BY <1>0, DataNext
<1>2. CASE moved
  <2>1. PICK e \in mshr_rfil : Index[mshr[e].line] = WatchedSet /\ w = rplc.way
    BY <1>2
  <2>2. /\ e \in Entry /\ mshr[e].line = Watched.line /\ e \in Registers
        /\ mshr[e].rec = NBeats /\ mshr_handle # {}
    BY <1>0, <2>1, TagNext DEF Registers, mshr_rfil, mshr_handle, PlacesInv, WholeLine
  <2>3. mshr[e].rec > BeatOf(Watched.bank)
    BY <2>2, BeatBound, BankZero, DcacheAssumption
  <2>4. mshr[e].cur
    BY <1>0, <2>2, <2>3 DEF NewestPlaced, InRegister
  <2>5. data'[w] = \E f \in mshr_rfil : mshr[f].line = Watched.line /\ Keep(mshr[f].cur)
    BY <1>1, <1>2 DEF NewData
  <2> QED
    BY <2>1, <2>2, <2>4, <2>5 DEF Keep
<1>3. CASE ~moved
  <2>1. w \in WaysOf /\ Holds(w, Watched.line)
    BY <1>0, <1>3, TagNext DEF WaysOf, Holds, WatchedSet
  <2>2. data[w]
    BY <1>0, <2>1 DEF NewestPlaced
  <2>3. ~merged
    <3> SUFFICES ASSUME merged PROVE FALSE
      OBVIOUS
    <3>1. Holds(w, wb.line) /\ Index[wb.line] = WatchedSet
      BY <1>0 DEF BufferInWay, wr_buff_valid
    <3>2. wb.line = Watched.line
      BY <2>1, <3>1 DEF Holds, WatchedSet
    <3> QED
      BY <1>0, <3>2 DEF BufferInWay, Covers, IsWatched
  <2>4. data'[w] = Keep(data[w])
    BY <1>1, <1>3, <2>3 DEF NewData
  <2> QED
    BY <2>2, <2>4 DEF Keep
<1> QED
  BY <1>2, <1>3

\* Or behind the cache.
LEMMA NowhereStep ==
    ASSUME NEW d, NEW stale, NEW way, NEW arready, NEW beat, NEW awready, NEW wlast, NEW b,
           Edge(d, stale, way, arready, beat, awready, wlast, b), TypeOK, PlacesInv, AnswersInv,
           BytesInv, ~StoreWaits, ~WatchedStore, ~hit_last, Registers' = {}, WaysOf' = {}
    PROVE  BehindCache'
<1>0. /\ OneHandle /\ NewestPlaced /\ CleanBehind /\ WatchedSet \in Sets
  BY DcacheAssumption DEF PlacesInv, BytesInv, WatchedSet, Sets
<1>1. Registers = {}
  <2> SUFFICES ASSUME NEW e \in Registers PROVE FALSE
    OBVIOUS
  <2>1. e \in Entry /\ mshr[e].st # "idle" /\ mshr[e].line = Watched.line
    BY DEF Registers
  <2>2. e \notin mshr_alloc
    BY <2>1, AllocFacts DEF PlacesInv
  <2>3. CASE e \in mshr_rfil
    <3>1. rplc.way \in Ways
      BY DEF TypeOK, DcacheTypeOK
    <3>2. tag'[WatchedSet][rplc.way] = Watched.line
      BY <1>0, <2>1, <2>3, <3>1, TagNext DEF WatchedSet
    <3> QED
      BY <3>1, <3>2 DEF WaysOf, WatchedSet
  <2>4. CASE e \notin mshr_rfil
    <3>1. mshr'[e].st # "idle" /\ mshr'[e].line = Watched.line
      BY <2>1, <2>2, <2>4, MshrNext
    <3> QED
      BY <2>1, <3>1 DEF Registers
  <2> QED
    BY <2>3, <2>4
<1>2. CASE WaysOf = {}
  BY <1>0, <1>1, <1>2, BehindNext DEF NewestPlaced
<1>3. CASE WaysOf # {}
  <2>1. PICK w \in Ways : w \in WaysOf
    BY <1>3 DEF WaysOf
  <2>2. tag[WatchedSet][w] = Watched.line /\ tag'[WatchedSet][w] # Watched.line
    BY <2>1 DEF WaysOf, WatchedSet
  <2>3. PICK e \in mshr_rfil : Index[mshr[e].line] = WatchedSet /\ w = rplc.way
    BY <1>0, <2>1, <2>2, TagNext
  <2>4. e \in mshr_handle /\ mshr_sel = {}
    BY <2>3 DEF mshr_rfil, mshr_sel
  <2>5. BehindCache
    BY <1>0, <2>1, <2>3, <2>4 DEF CleanBehind
  <2> QED
    BY <2>5, BehindNext
<1> QED
  BY <1>2, <1>3

\* Wherever the newest byte is, it is in one of these places one edge later.
LEMMA NewestStep ==
    ASSUME NEW d, NEW stale, NEW way, NEW arready, NEW beat, NEW awready, NEW wlast, NEW b,
           Edge(d, stale, way, arready, beat, awready, wlast, b), TypeOK, PlacesInv, AnswersInv,
           BytesInv
    PROVE  NewestPlaced'
<1>1. CASE StoreWaits \/ WatchedStore
  BY <1>1, StoreLands
<1>2. CASE ~StoreWaits /\ ~WatchedStore /\ hit_last
  BY <1>2, HitLastNext DEF NewestPlaced
<1>3. CASE ~StoreWaits /\ ~WatchedStore /\ ~hit_last
  <2>1. \A e \in Registers' : InRegister(e)'
    BY <1>3, RegisterStep
  <2>2. \A w \in WaysOf' : data'[w]
    BY <1>3, WayStep
  <2>3. Registers' = {} /\ WaysOf' = {} => BehindCache'
    BY <1>3, NowhereStep
  <2> QED
    BY <2>1, <2>2, <2>3 DEF NewestPlaced
<1> QED
  BY <1>1, <1>2, <1>3

----------------------------------------------------------------------------
(* The answers and the bytes.                                              *)

DataIInv == TypeOK /\ DataInv

\* DataIInv is inductive.
LEMMA DataInit == Init => DataIInv
<1> SUFFICES ASSUME Init PROVE AnswersInv /\ BytesInv
  BY PlacesInit DEF DataIInv, DataInv, PlacesAll
<1>1. /\ state = "idle" /\ ~tlb_finish /\ req = NoRequest /\ ~send.on /\ wb.strb = {} /\ ~lrud.store
      /\ \A e \in Entry : mshr[e].st = "idle"
      /\ \A s \in Sets, w \in Ways : tag[s][w] = NoLine
      /\ \A s \in Slot : vic[s].line = NoLine
      /\ vic_push_p = vic_pop_p /\ ~vic_addr_arrived /\ ~bvalid_reg /\ mem
  BY DEF Init, DcacheInit, InterfaceInit, NoSend, NoWb, NoLrud, FreeMshr, NoVictim
<1>2. mshr_handle = {} /\ mshr_sel = {} /\ vic_valid = {} /\ Registers = {} /\ WaysOf = {}
  BY <1>1, DcacheAssumption DEF mshr_handle, mshr_sel, vic_valid, Registers, WaysOf, WatchedSet, Sets
<1>3. AnswersInv
  BY <1>1 DEF AnswersInv, ReqKind, OneAnswerDue, NoRequest
<1>4. BehindCache
  BY <1>1, DcacheAssumption DEF BehindCache
<1>5. BytesInv
  BY <1>1, <1>2, <1>4
  DEF BytesInv, BufferInWay, LrudBuffered, GoonFree, LookupData, VictimData, VictimOrder,
      AnsweredWritten, CleanBehind, NewestPlaced, wr_buff_valid, Covers
<1> QED
  BY <1>3, <1>5

LEMMA DataStutter == DataIInv /\ UNCHANGED vars => DataIInv'
<1> SUFFICES ASSUME DataIInv, UNCHANGED vars PROVE AnswersInv' /\ BytesInv'
  BY PlacesStutter DEF DataIInv, DataInv, PlacesAll
<1>1. AnswersInv'
  BY DEF DataIInv, DataInv, vars, dcacheVars, interfaceVars, AnswersInv, ReqKind, OneAnswerDue,
         Request_Taken, Collects
<1>2. UNCHANGED <<mshr_handle, mshr_sel, vic_valid, Registers, WaysOf, BehindCache, StoreWaits,
                  wr_buff_valid>>
  BY DEF vars, dcacheVars, interfaceVars, mshr_handle, mshr_sel, vic_valid, Registers, WaysOf,
         BehindCache, StoreWaits, wr_buff_valid, Covers, IsWatched, WatchedSet
<1>3. /\ BufferInWay' /\ LrudBuffered' /\ GoonFree' /\ LookupData' /\ VictimData'
      /\ VictimOrder' /\ AnsweredWritten'
  BY <1>2 DEF DataIInv, DataInv, BytesInv, vars, dcacheVars, interfaceVars, BufferInWay, LrudBuffered,
     GoonFree, LookupData, VictimData, VictimOrder, AnsweredWritten, Holds, WatchedSet, Covers,
     IsWatched
<1>4. CleanBehind'
  BY <1>2 DEF DataIInv, DataInv, BytesInv, vars, dcacheVars, CleanBehind, WatchedSet
<1>5. \A e \in Entry : InRegister(e)' = InRegister(e)
  BY <1>2 DEF vars, dcacheVars, interfaceVars, InRegister
<1>6. NewestPlaced'
  BY <1>2, <1>5 DEF DataIInv, DataInv, BytesInv, NewestPlaced, Registers, WaysOf, vars, dcacheVars
<1> QED
  BY <1>1, <1>3, <1>4, <1>6 DEF BytesInv

LEMMA DataIInvNext == DataIInv /\ [Next]_vars => DataIInv'
<1>1. ASSUME DataIInv, Next PROVE DataIInv'
  <2>1. PlacesAll'
    BY <1>1, PlacesNext DEF DataIInv, DataInv, PlacesAll
  <2>2. TypeOK /\ PlacesInv /\ AnswersInv /\ BytesInv
    BY <1>1 DEF DataIInv, DataInv
  <2>3. PICK d, stale, way, arready, beat, awready, wlast, b :
               Edge(d, stale, way, arready, beat, awready, wlast, b)
    BY <1>1, <2>2, EdgeInputs
  <2>4. AnswersInv'
    BY <2>2, <2>3, AnswersStep
  <2>5. BufferInWay' /\ LrudBuffered' /\ GoonFree'
    BY <2>2, <2>3, BufferStep DEF BytesInv
  <2>6. LookupData' /\ VictimData'
    BY <2>2, <2>3, ReadStep
  <2>7. VictimOrder' /\ AnsweredWritten'
    BY <2>2, <2>3, OrderStep DEF BytesInv
  <2>8. CleanBehind'
    BY <2>2, <2>3, CleanStep
  <2>9. NewestPlaced'
    BY <2>2, <2>3, NewestStep
  <2> QED
    BY <2>1, <2>4, <2>5, <2>6, <2>7, <2>8, <2>9 DEF DataIInv, DataInv, PlacesAll, BytesInv
<1> QED
  BY <1>1, DataStutter

LEMMA DataIInvariant == Spec => []DataIInv
<1> QED
  BY DataInit, DataIInvNext, PTL DEF Spec

\* The arrays, the miss registers, the write buffer and the victims agree on
\* where each line and each answer is, and on where the newest byte is as long
\* as the last store to it missed (a store that hits is lost in the buffer).
THEOREM DataCorrect == Spec => []DataInv
<1>1. DataIInv => DataInv
  BY DEF DataIInv
<1> QED
  BY <1>1, DataIInvariant, PTL

\* Every answer the core gets is for the request the cache has taken last and
\* not answered yet: its kind, and for a load its line and word.
THEOREM AnswersAreTaken == Spec => []AnswersTaken
<1>1. DataIInv => AnswersTaken
  <2> SUFFICES ASSUME DataIInv PROVE AnswersTaken
    OBVIOUS
  <2>0. TypeOK /\ PlacesInv /\ AnswersInv
    BY DEF DataIInv, DataInv
  <2>1. data_data_ok => taken.on /\ core = "wait"
    BY <2>0, AnswersFacts
  <2>2. st_data_ok => taken.wr
    BY <2>0, AnswersFacts DEF AnswersInv, OneAnswerDue, Request_Taken
  <2>3. hit_ld_data_ok => ~taken.wr /\ req.line = taken.line /\ req.bank = taken.bank
    BY <2>0, AnswersFacts DEF AnswersInv, OneAnswerDue, Request_Taken
  <2>4. \A e \in mshr_ld_ret : /\ ~taken.wr /\ send.bank = taken.bank
                               /\ mshr[e].st # "idle" /\ mshr[e].line = taken.line
    BY <2>0, AnswersFacts DEF AnswersInv, OneAnswerDue, Collects
  <2> QED
    BY <2>1, <2>2, <2>3, <2>4 DEF AnswersTaken
<1> QED
  BY <1>1, DataIInvariant, PTL

\* If the last store to a byte missed, a load returns what it stored, whether it
\* is answered by the arrays or by a miss register, and the write buffer, with
\* what earlier stores left there, puts nothing else in its place.
THEOREM LoadsReturnLatest == Spec => []LoadReturnsLatest
<1>1. DataIInv => LoadReturnsLatest
  <2> SUFFICES ASSUME DataIInv, ~hit_last PROVE LoadReturnsLatest
    BY DEF LoadReturnsLatest
  <2>0. /\ TypeOK /\ PlacesInv /\ AnswersInv /\ Apart /\ TagsInSets /\ LookupCurrent
        /\ BlockedAbsent /\ LookupData /\ NewestPlaced /\ BufferInWay
    BY DEF DataIInv, DataInv, PlacesInv, BytesInv
  <2>1. ASSUME hit_ld_data_ok, IsWatched(req.line, req.bank)
        PROVE  IF wr_buff_hit(FALSE) /\ Watched.lane \in wb.strb THEN wb.cur
               ELSE \A w \in way_hit : dataq[w]
    <3>1. tlb_finish /\ ~req.pref /\ ~req.wr /\ tlb_valid_finish /\ way_hit # {}
      BY <2>0, <2>1, AnswersFacts DEF hit_ld_data_ok, cache_hit
    <3>2. ~StoreWaits
      BY <3>1 DEF StoreWaits
    <3>3. req.line = Watched.line /\ req.bank = Watched.bank
      BY <2>1 DEF IsWatched
    <3>4. \A w \in way_hit : w \in WaysOf
      BY <2>0, <3>1, <3>3, LookupFacts DEF way_hit, Holds, WaysOf, WatchedSet
    <3>5. \A w \in way_hit : data[w]
      BY <2>0, <3>2, <3>4 DEF NewestPlaced
    <3>6. ~(wr_buff_hit(FALSE) /\ Watched.lane \in wb.strb)
      BY <2>0, <3>1, <3>3 DEF wr_buff_hit, BufferInWay, Covers, IsWatched
    <3>7. dataq = data
      BY <2>0, <3>1, <3>3 DEF LookupData, WatchedSet
    <3> QED
      BY <3>5, <3>6, <3>7
  <2>2. ASSUME NEW e \in mshr_ld_ret, IsWatched(mshr[e].line, send.bank) PROVE mshr[e].cur
    <3>1. /\ e \in Entry /\ send.on /\ e = send.entry
          /\ mshr[e].line = Watched.line /\ send.bank = Watched.bank
      BY <2>0, <2>2, AnswersFacts DEF IsWatched, mshr_ld_ret
    <3>2. Collects(e, Watched.line) /\ e \in Registers
      BY <2>0, <3>1 DEF AnswersInv, OneAnswerDue, Collects, Registers
    <3>3. ~StoreWaits
      BY <2>0, <3>1, <3>2 DEF BlockedAbsent, StoreWaits, Covers, IsWatched
    <3>4. InRegister(e)
      BY <2>0, <3>2, <3>3 DEF NewestPlaced
    <3>5. \/ <<Watched.bank, Watched.lane>> \in mshr[e].strb
          \/ mshr[e].rec > BeatOf(Watched.bank)
      BY <2>2, <3>1, DcacheAssumption DEF mshr_ld_ret
    <3> QED
      BY <3>4, <3>5 DEF InRegister
  <2> QED
    BY <2>1, <2>2 DEF LoadReturnsLatest
<1> QED
  BY <1>1, DataIInvariant, PTL

\* A byte whose last store missed is not lost: the next access finds it, in a
\* way, in a register, in a victim or in memory.
THEOREM NewestIsReachable == Spec => []NewestReachable
<1>1. DataIInv => NewestReachable
  BY DEF DataIInv, DataInv, BytesInv, NewestPlaced, NewestReachable, Registers, WaysOf
<1> QED
  BY <1>1, DataIInvariant, PTL
=============================================================================
