--------------------------- MODULE Testbench_proofs ---------------------------
(***************************************************************************)
(* Theorems about the simulation, for any memory, programs, formats and    *)
(* references: the paged memory implements the flat one.                   *)
(*                                                                         *)
(* First what a search, an insertion and a write of the paged memory do to *)
(* the flat memory its pages stand for, for any tags, indices, offsets and *)
(* bytes.  The idea is Around: wherever it starts, a search in sorted      *)
(* pages ends at a place that every page before it is below the tag, and   *)
(* every page behind it above.                                             *)
(***************************************************************************)
EXTENDS Testbench, SequenceTheorems, WellFoundedInduction, TLAPS

LEMMA HasLeast ==
    ASSUME NEW S \in SUBSET Nat, S # {}
    PROVE  \E m \in S : \A k \in S : m <= k
<1> DEFINE R == OpToRel(<, Nat)
<1>1. IsWellFoundedOn(R, Nat)
  BY NatLessThanWellFounded
<1>2. \A k, m \in Nat : k < m => <<k, m>> \in R
  BY DEF OpToRel
<1> HIDE DEF R
<1>3. PICK m \in S : \A k \in S : ~ (<<k, m>> \in R)
  BY <1>1, WFMin, Zenon
<1>4. ASSUME NEW k \in S PROVE m <= k
  <2>1. k \in Nat /\ m \in Nat
    OBVIOUS
  <2>2. ~ (k < m)
    BY <1>2, <1>3, <2>1, Zenon
  <2> QED
    BY <2>1, <2>2
<1> QED
  BY <1>4

LEMMA HasGreatest ==
    ASSUME NEW n \in Nat, NEW S \in SUBSET (0 .. n), S # {}
    PROVE  \E m \in S : \A k \in S : k <= m
<1> DEFINE T == {d \in 0 .. n : n - d \in S}
<1>1. \A k \in S : k \in 0 .. n /\ n - k \in T
  <2> SUFFICES ASSUME NEW k \in S PROVE k \in 0 .. n /\ n - k \in T
    OBVIOUS
  <2>1. k \in 0 .. n
    OBVIOUS
  <2>2. n - k \in 0 .. n /\ n - (n - k) = k
    BY <2>1
  <2> QED
    BY <2>1, <2>2
<1>2. T \in SUBSET Nat /\ T # {}
  <2>1. \A d \in T : d \in Nat
    OBVIOUS
  <2>2. \E k \in S : n - k \in T
    BY <1>1
  <2> QED
    BY <2>1, <2>2
<1>3. PICK d \in T : \A k \in T : d <= k
  BY <1>2, HasLeast
<1>4. ASSUME NEW k \in S PROVE k <= n - d
  <2>1. d <= n - k
    BY <1>1, <1>3
  <2> QED
    BY <2>1, <1>1
<1>5. n - d \in S
  OBVIOUS
<1> QED
  BY <1>4, <1>5

LEMMA LeastOf ==
    ASSUME NEW S \in SUBSET Nat, S # {}
    PROVE  Min(S) \in S /\ \A k \in S : Min(S) <= k
BY HasLeast DEF Min

LEMMA GreatestOf ==
    ASSUME NEW n \in Nat, NEW S \in SUBSET (0 .. n), S # {}
    PROVE  Max(S) \in S /\ \A k \in S : k <= Max(S)
<1>1. \E m \in S : \A k \in S : m >= k
  BY HasGreatest
<1>2. Max(S) \in S /\ \A k \in S : Max(S) >= k
  BY <1>1 DEF Max
<1> QED
  BY <1>2

----------------------------------------------------------------------------
Around(pages, f, tag) ==
    /\ f \in 1 .. EndOf(pages)
    /\ \A k \in 1 .. f - 1 : pages[k].tag < tag
    /\ \A k \in f + 1 .. Len(pages) : tag < pages[k].tag

LEMMA PageTypes ==
    ASSUME NEW pages \in Seq(Page)
    PROVE  /\ Len(pages) \in Nat
           /\ \A k \in 1 .. Len(pages) : pages[k] \in Page /\ pages[k].tag \in Nat
<1>1. Len(pages) \in Nat
  OBVIOUS
<1>2. \A k \in 1 .. Len(pages) : pages[k] \in Page
  BY ElementOfSeq
<1>3. \A q \in Page : q.tag \in Nat
  BY RamAssumption DEF Page
<1> QED
  BY <1>1, <1>2, <1>3

\* A search that goes up ends around the tag.
LEMMA UpwardsIsAround ==
    ASSUME NEW pages \in Seq(Page), Sorted(pages), NEW tag \in Tags,
           NEW t \in 1 .. Len(pages), pages[t].tag < tag
    PROVE  Around(pages, Upwards(pages, t, tag), tag)
<1> DEFINE S == {k \in t + 1 .. Len(pages) : pages[k].tag >= tag} \cup {EndOf(pages)}
           f == Min(S)
<1>0. tag \in Nat
  BY RamAssumption
<1>1. /\ S \in SUBSET Nat /\ S # {} /\ EndOf(pages) \in S
      /\ \A k \in S : k \in t + 1 .. EndOf(pages)
  BY PageTypes DEF EndOf
<1>2. f \in S /\ \A k \in S : f <= k
  BY <1>1, LeastOf
<1>3. \A k \in 1 .. f - 1 : pages[k].tag < tag
  <2> SUFFICES ASSUME NEW k \in 1 .. f - 1 PROVE pages[k].tag < tag
    OBVIOUS
  <2>1. k \in 1 .. Len(pages)
    BY <1>1, <1>2, PageTypes DEF EndOf
  <2>2. CASE k <= t
    BY <2>1, <2>2, <1>0, PageTypes DEF Sorted
  <2>3. CASE t < k
    <3>1. k \notin S
      <4>1. f \in Nat /\ k \in Nat /\ k < f
        BY <1>1, <1>2
      <4> HIDE DEF S, f
      <4>2. ~ (f <= k)
        BY <4>1
      <4> QED
        BY <1>2, <4>2
    <3>2. k \in t + 1 .. Len(pages)
      BY <2>1, <2>3, PageTypes
    <3>3. ~ (pages[k].tag >= tag)
      BY <3>1, <3>2
    <3> QED
      BY <3>3, <2>1, <1>0, PageTypes
  <2> QED
    BY <2>1, <2>2, <2>3, PageTypes
<1>4. \A k \in f + 1 .. Len(pages) : tag < pages[k].tag
  <2> SUFFICES ASSUME NEW k \in f + 1 .. Len(pages) PROVE tag < pages[k].tag
    OBVIOUS
  <2>1. f \in 1 .. Len(pages) /\ k \in 1 .. Len(pages) /\ f < k
    BY <1>1, <1>2, PageTypes DEF EndOf
  <2>2. pages[f].tag >= tag
    BY <1>2, <2>1, PageTypes DEF EndOf
  <2>3. pages[f].tag < pages[k].tag
    BY <2>1 DEF Sorted
  <2> QED
    BY <2>1, <2>2, <2>3, <1>0, PageTypes
<1>5. f \in 1 .. EndOf(pages)
  BY <1>1, <1>2, PageTypes DEF EndOf
<1> QED
  BY <1>3, <1>4, <1>5 DEF Around, Upwards

\* A search that goes down from a page, behind which all are above the tag,
\* ends around it.
LEMMA DownwardsIsAround ==
    ASSUME NEW pages \in Seq(Page), Sorted(pages), NEW tag \in Tags,
           NEW t \in 1 .. Len(pages), \A k \in t + 1 .. Len(pages) : tag < pages[k].tag
    PROVE  Around(pages, Downwards(pages, t, tag), tag)
<1> DEFINE S == {k \in 1 .. t : pages[k].tag <= tag} \cup {1}
           f == Max(S)
<1>0. tag \in Nat
  BY RamAssumption
<1>1. t \in Nat /\ S \in SUBSET (0 .. t) /\ S # {} /\ \A k \in S : k \in 1 .. t
  BY PageTypes
<1>2. f \in S /\ \A k \in S : k <= f
  BY <1>1, GreatestOf
<1>3. f \in 1 .. t
  BY <1>1, <1>2
<1>4. \A k \in 1 .. f - 1 : pages[k].tag < tag
  <2> SUFFICES ASSUME NEW k \in 1 .. f - 1 PROVE pages[k].tag < tag
    OBVIOUS
  <2>1. k \in 1 .. Len(pages) /\ f \in 1 .. Len(pages) /\ k < f /\ f # 1
    BY <1>3, PageTypes
  <2>2. pages[f].tag <= tag
    BY <1>2, <2>1
  <2>3. pages[k].tag < pages[f].tag
    BY <2>1 DEF Sorted
  <2> QED
    BY <2>1, <2>2, <2>3, <1>0, PageTypes
<1>5. \A k \in f + 1 .. Len(pages) : tag < pages[k].tag
  <2> SUFFICES ASSUME NEW k \in f + 1 .. Len(pages) PROVE tag < pages[k].tag
    OBVIOUS
  <2>1. k \in 1 .. Len(pages) /\ f < k
    BY <1>3, PageTypes
  <2>2. CASE k <= t
    <3>1. k \notin S
      BY <1>2, <2>1, <1>3
    <3>2. ~ (pages[k].tag <= tag)
      BY <3>1, <2>1, <2>2, <1>1
    <3> QED
      BY <3>2, <2>1, <1>0, PageTypes
  <2>3. CASE t < k
    BY <2>1, <2>3, PageTypes
  <2> QED
    BY <2>1, <2>2, <2>3, PageTypes
<1>6. f \in 1 .. EndOf(pages)
  BY <1>3, PageTypes DEF EndOf
<1> QED
  BY <1>4, <1>5, <1>6 DEF Around, Downwards

\* Wherever it starts, a search ends around the tag.
LEMMA FindIsAround ==
    ASSUME NEW pages \in Seq(Page), Sorted(pages), NEW tag \in Tags,
           NEW t \in 1 .. EndOf(pages)
    PROVE  Around(pages, Find(pages, t, tag), tag)
<1>0. tag \in Nat
  BY RamAssumption
<1>1. CASE pages = <<>>
  BY <1>1 DEF Around, Find, EndOf
<1>2. CASE pages # <<>> /\ t = EndOf(pages)
  <2>1. Len(pages) \in 1 .. Len(pages)
    BY <1>2, EmptySeq, PageTypes
  <2>2. \A k \in Len(pages) + 1 .. Len(pages) : tag < pages[k].tag
    BY PageTypes
  <2>3. Around(pages, Downwards(pages, Len(pages), tag), tag)
    BY <2>1, <2>2, DownwardsIsAround
  <2> QED
    BY <2>3, <1>2 DEF Find
<1>3. CASE pages # <<>> /\ t # EndOf(pages) /\ pages[t].tag < tag
  <2>1. t \in 1 .. Len(pages)
    BY <1>3, PageTypes DEF EndOf
  <2>2. Around(pages, Upwards(pages, t, tag), tag)
    BY <1>3, <2>1, UpwardsIsAround
  <2> QED
    BY <2>1, <2>2, <1>0, <1>3, PageTypes DEF Find
<1>4. CASE pages # <<>> /\ t # EndOf(pages) /\ ~ (pages[t].tag < tag)
  <2>1. t \in 1 .. Len(pages)
    BY <1>4, PageTypes DEF EndOf
  <2>2. \A k \in t + 1 .. Len(pages) : tag < pages[k].tag
    BY <1>0, <1>4, <2>1, PageTypes DEF Sorted
  <2>3. Around(pages, Downwards(pages, t, tag), tag)
    BY <2>1, <2>2, DownwardsIsAround
  <2> QED
    BY <2>1, <2>3, <1>0, <1>4, PageTypes DEF Find
<1> QED
  BY <1>1, <1>2, <1>3, <1>4

----------------------------------------------------------------------------
\* Of sorted pages, a word is in the only page of its tag.
LEMMA WordIsThere ==
    ASSUME NEW pages \in Seq(Page), Sorted(pages), NEW k \in 1 .. Len(pages), NEW o
    PROVE  WordIn(pages, pages[k].tag, o) = pages[k].data[o]
<1> DEFINE here == {j \in 1 .. Len(pages) : pages[j].tag = pages[k].tag}
<1>1. \A j \in here : j = k
  <2> SUFFICES ASSUME NEW j \in here PROVE j = k
    OBVIOUS
  <2>1. j \in 1 .. Len(pages) /\ pages[j].tag = pages[k].tag /\ pages[k].tag \in Nat
    BY PageTypes
  <2>2. ~ (j < k) /\ ~ (k < j)
    BY <2>1 DEF Sorted
  <2> QED
    BY <2>1, <2>2, PageTypes
<1>2. here = {k}
  BY <1>1
<1>3. here \in SUBSET Nat
  BY <1>2, PageTypes
<1>4. Min(here) = k
  BY <1>2, <1>3, LeastOf
<1> QED
  BY <1>2, <1>4 DEF WordIn

LEMMA WordIsNowhere ==
    ASSUME NEW pages, NEW tag, NEW o, \A k \in 1 .. Len(pages) : pages[k].tag # tag
    PROVE  WordIn(pages, tag, o) = Zeros
BY DEF WordIn

\* What the place around a tag says of its words.
LEMMA AroundFinds ==
    ASSUME NEW pages \in Seq(Page), Sorted(pages), NEW tag \in Tags, NEW o,
           NEW f, Around(pages, f, tag)
    PROVE  WordIn(pages, tag, o) = IF Miss(pages, f, tag) THEN Zeros ELSE pages[f].data[o]
<1>0. tag \in Nat
  BY RamAssumption
<1>1. CASE Miss(pages, f, tag)
  <2>1. ASSUME NEW k \in 1 .. Len(pages) PROVE pages[k].tag # tag
    <3>1. k < f \/ k = f \/ k \in f + 1 .. Len(pages)
      BY PageTypes DEF Around, EndOf
    <3>2. CASE k < f
      BY <3>2, <1>0, PageTypes DEF Around, EndOf
    <3>3. CASE k = f
      BY <3>3, <1>1, PageTypes DEF Miss, EndOf
    <3>4. CASE k \in f + 1 .. Len(pages)
      BY <3>4, <1>0, PageTypes DEF Around
    <3> QED
      BY <3>1, <3>2, <3>3, <3>4
  <2> QED
    BY <2>1, <1>1, WordIsNowhere
<1>2. CASE ~Miss(pages, f, tag)
  <2>1. f \in 1 .. Len(pages) /\ pages[f].tag = tag
    BY <1>2, PageTypes DEF Miss, Around, EndOf
  <2> QED
    BY <2>1, <1>2, WordIsThere
<1> QED
  BY <1>1, <1>2

\* A read finds the word of the flat memory, and leaves the cursor in range.
LEMMA ReadFinds ==
    ASSUME NEW pages \in Seq(Page), Sorted(pages), NEW tag \in Tags, NEW o,
           NEW t \in 1 .. EndOf(pages)
    PROVE  LET f == Find(pages, t, tag)
           IN  /\ f \in 1 .. EndOf(pages)
               /\ WordIn(pages, tag, o) = IF Miss(pages, f, tag) THEN Zeros ELSE pages[f].data[o]
<1> DEFINE f == Find(pages, t, tag)
<1>1. Around(pages, f, tag)
  BY FindIsAround
<1> HIDE DEF f
<1>2. f \in 1 .. EndOf(pages)
  BY <1>1 DEF Around
<1>3. WordIn(pages, tag, o) = IF Miss(pages, f, tag) THEN Zeros ELSE pages[f].data[o]
  BY <1>1, <1>2, AroundFinds
<1> QED
  BY <1>2, <1>3 DEF f

----------------------------------------------------------------------------
\* An element that is inserted in a sequence.
LEMMA Inserted ==
    ASSUME NEW S, NEW s \in Seq(S), NEW k \in 1 .. Len(s) + 1, NEW e \in S
    PROVE  /\ InsertAt(s, k, e) \in Seq(S) /\ Len(InsertAt(s, k, e)) = Len(s) + 1
           /\ \A j \in 1 .. Len(s) + 1 :
                 InsertAt(s, k, e)[j] = IF j < k THEN s[j] ELSE IF j = k THEN e ELSE s[j - 1]
<1> DEFINE front == SubSeq(s, 1, k - 1)
           back == SubSeq(s, k, Len(s))
<1>0. Len(s) \in Nat /\ k \in Nat
  OBVIOUS
<1>1. /\ front \in Seq(S) /\ Len(front) = k - 1
      /\ \A j \in 1 .. k - 1 : front[j] = s[j]
  <2>1. /\ front \in Seq(S) /\ Len(front) = (IF 1 <= k - 1 THEN (k - 1) - 1 + 1 ELSE 0)
        /\ \A j \in 1 .. (k - 1) - 1 + 1 : front[j] = s[1 + j - 1]
    <3>1. \A j \in 1 .. k - 1 : j \in 1 .. Len(s) /\ s[j] \in S
      BY <1>0, ElementOfSeq
    <3> QED
      BY <3>1, <1>0
  <2> QED
    BY <2>1, <1>0
<1>2. /\ back \in Seq(S) /\ Len(back) = Len(s) - k + 1
      /\ \A j \in 1 .. Len(s) - k + 1 : back[j] = s[k + j - 1]
  <2>1. \A j \in k .. Len(s) : j \in 1 .. Len(s) /\ s[j] \in S
    BY <1>0, ElementOfSeq
  <2> QED
    BY <2>1, <1>0
<1> DEFINE mid == front \o <<e>>
<1> HIDE DEF front, back
<1>3. /\ mid \in Seq(S) /\ Len(mid) = k
      /\ \A j \in 1 .. k - 1 : mid[j] = s[j]
      /\ mid[k] = e
  BY <1>0, <1>1
<1> HIDE DEF mid
<1>4. InsertAt(s, k, e) = mid \o back
  BY DEF InsertAt, front, back, mid
<1>5. mid \o back \in Seq(S) /\ Len(mid \o back) = Len(s) + 1
  BY <1>0, <1>2, <1>3, ConcatProperties
<1>6. ASSUME NEW j \in 1 .. Len(s) + 1
      PROVE  (mid \o back)[j] = IF j < k THEN s[j] ELSE IF j = k THEN e ELSE s[j - 1]
  <2>1. CASE j <= k
    BY <2>1, <1>0, <1>2, <1>3
  <2>2. CASE k < j
    <3>1. (mid \o back)[j] = back[j - k]
      BY <2>2, <1>0, <1>2, <1>3
    <3>2. j - k \in 1 .. Len(s) - k + 1 /\ k + (j - k) - 1 = j - 1
      BY <2>2, <1>0
    <3> QED
      BY <3>1, <3>2, <1>2, <2>2, <1>0
  <2>3. j <= k \/ k < j
    BY <1>0
  <2> QED
    BY <2>1, <2>2, <2>3
<1> QED
  BY <1>4, <1>5, <1>6

LEMMA NewPageType == ASSUME NEW tag \in Tags PROVE NewPage(tag) \in Page
BY RamAssumption DEF NewPage, Page, Zeros, Word

\* A page that is missing is inserted in its place.
LEMMA InsertedSorted ==
    ASSUME NEW pages \in Seq(Page), Sorted(pages), NEW tag \in Tags,
           NEW f, Around(pages, f, tag), Miss(pages, f, tag)
    PROVE  LET k == InsertPoint(pages, f, tag)
               with == InsertAt(pages, k, NewPage(tag))
           IN  /\ k \in 1 .. Len(pages) + 1 /\ Sorted(with)
               /\ \A j \in 1 .. Len(pages) : pages[j].tag # tag
<1> DEFINE k == InsertPoint(pages, f, tag)
           with == InsertAt(pages, k, NewPage(tag))
<1>0. tag \in Nat /\ f \in 1 .. Len(pages) + 1 /\ Len(pages) \in Nat
  BY RamAssumption, PageTypes DEF Around, EndOf
<1>1. /\ k \in 1 .. Len(pages) + 1
      /\ \A j \in 1 .. k - 1 : pages[j].tag < tag
      /\ \A j \in k .. Len(pages) : tag < pages[j].tag
  <2>1. CASE f = EndOf(pages)
    BY <1>0, <2>1 DEF InsertPoint, Around, EndOf
  <2>2. CASE f # EndOf(pages)
    <3>1. f \in 1 .. Len(pages) /\ pages[f].tag # tag /\ pages[f].tag \in Nat
      BY <1>0, <2>2, PageTypes DEF Miss, EndOf
    <3>2. CASE tag > pages[f].tag
      <4>1. k = f + 1
        BY <2>2, <3>2 DEF InsertPoint
      <4>2. ASSUME NEW j \in 1 .. k - 1 PROVE pages[j].tag < tag
        <5>1. j \in 1 .. f - 1 \/ j = f
          BY <3>1, <4>1
        <5> QED
          BY <3>1, <3>2, <1>0, <5>1 DEF Around
      <4> QED
        BY <3>1, <4>1, <4>2, <1>0 DEF Around
    <3>3. CASE ~ (tag > pages[f].tag)
      <4>1. k = f
        BY <2>2, <3>3 DEF InsertPoint
      <4>2. ASSUME NEW j \in k .. Len(pages) PROVE tag < pages[j].tag
        <5>1. j \in f + 1 .. Len(pages) \/ j = f
          BY <3>1, <4>1
        <5> QED
          BY <3>1, <3>3, <1>0, <5>1 DEF Around
      <4> QED
        BY <3>1, <4>1, <4>2, <1>0 DEF Around
    <3> QED
      BY <3>2, <3>3
  <2> QED
    BY <2>1, <2>2
<1> HIDE DEF k
<1>2. /\ Len(with) = Len(pages) + 1
      /\ \A j \in 1 .. Len(pages) + 1 :
            with[j] = IF j < k THEN pages[j] ELSE IF j = k THEN NewPage(tag) ELSE pages[j - 1]
  <2> HIDE DEF with
  <2>1. NewPage(tag) \in Page /\ with = InsertAt(pages, k, NewPage(tag))
    BY NewPageType DEF with
  <2>2. \A i \in 1 .. Len(pages) + 1, e \in Page :
           /\ Len(InsertAt(pages, i, e)) = Len(pages) + 1
           /\ \A j \in 1 .. Len(pages) + 1 :
                 InsertAt(pages, i, e)[j] = IF j < i THEN pages[j] ELSE IF j = i THEN e ELSE pages[j - 1]
    BY Inserted
  <2>3. k \in 1 .. Len(pages) + 1
    BY <1>1
  <2>4. /\ Len(InsertAt(pages, k, NewPage(tag))) = Len(pages) + 1
        /\ \A j \in 1 .. Len(pages) + 1 :
              InsertAt(pages, k, NewPage(tag))[j]
                 = IF j < k THEN pages[j] ELSE IF j = k THEN NewPage(tag) ELSE pages[j - 1]
    BY <2>1, <2>2, <2>3
  <2> QED
    BY <2>1, <2>4
<1> HIDE DEF with
<1>3. Sorted(with)
  <2> SUFFICES ASSUME NEW i \in 1 .. Len(pages) + 1, NEW j \in 1 .. Len(pages) + 1, i < j
               PROVE  with[i].tag < with[j].tag
    BY <1>2 DEF Sorted
  <2>0. NewPage(tag).tag = tag
    BY DEF NewPage
  <2>1. CASE j < k
    <3>1. with[i] = pages[i] /\ with[j] = pages[j] /\ i \in 1 .. Len(pages) /\ j \in 1 .. Len(pages)
      BY <1>0, <1>1, <1>2, <2>1
    <3> QED
      BY <3>1 DEF Sorted
  <2>2. CASE j = k
    <3>1. with[i] = pages[i] /\ with[j] = NewPage(tag) /\ i \in 1 .. k - 1
      BY <1>0, <1>1, <1>2, <2>2
    <3> QED
      BY <3>1, <1>1, <2>0
  <2>3. CASE k < j /\ i < k
    <3>1. with[i] = pages[i] /\ with[j] = pages[j - 1] /\ i \in 1 .. Len(pages)
          /\ j - 1 \in 1 .. Len(pages) /\ i < j - 1
      BY <1>0, <1>1, <1>2, <2>3
    <3> QED
      BY <3>1 DEF Sorted
  <2>4. CASE k < j /\ i = k
    <3>1. with[i] = NewPage(tag) /\ with[j] = pages[j - 1] /\ j - 1 \in k .. Len(pages)
      BY <1>0, <1>1, <1>2, <2>4
    <3> QED
      BY <3>1, <1>1, <2>0
  <2>5. CASE k < i
    <3>1. with[i] = pages[i - 1] /\ with[j] = pages[j - 1] /\ i - 1 \in 1 .. Len(pages)
          /\ j - 1 \in 1 .. Len(pages) /\ i - 1 < j - 1
      BY <1>0, <1>1, <1>2, <2>5
    <3> QED
      BY <3>1 DEF Sorted
  <2>6. j < k \/ j = k \/ (k < j /\ i < k) \/ (k < j /\ i = k) \/ k < i
    BY <1>0, <1>1
  <2> QED
    BY <2>1, <2>2, <2>3, <2>4, <2>5, <2>6
<1>4. ASSUME NEW j \in 1 .. Len(pages) PROVE pages[j].tag # tag
  <2>1. (j \in 1 .. k - 1 \/ j \in k .. Len(pages)) /\ pages[j].tag \in Nat
    BY <1>0, <1>1, PageTypes
  <2> QED
    BY <2>1, <1>0, <1>1
<1> QED
  BY <1>1, <1>3, <1>4 DEF k, with

----------------------------------------------------------------------------
\* The search of a write ends at the page of its tag, and the flat memory is
\* not changed by it: a page that is made is blank.
LEMMA JumpCorrect ==
    ASSUME NEW pages \in Seq(Page), Sorted(pages), NEW tag \in Tags, NEW t \in 1 .. EndOf(pages)
    PROVE  LET j == Jump(pages, t, tag)
           IN  /\ j.pages \in Seq(Page) /\ Sorted(j.pages)
               /\ j.at \in 1 .. Len(j.pages) /\ j.pages[j.at].tag = tag
               /\ \A u, o : o \in Offsets => WordIn(j.pages, u, o) = WordIn(pages, u, o)
<1> DEFINE f == Find(pages, t, tag)
           k == InsertPoint(pages, f, tag)
           with == InsertAt(pages, k, NewPage(tag))
<1>0. Around(pages, f, tag)
  BY FindIsAround
<1> HIDE DEF f
<1>1. CASE ~Miss(pages, f, tag)
  <2>1. Jump(pages, t, tag) = [pages |-> pages, at |-> f]
    BY <1>1 DEF Jump, f
  <2>2. f \in 1 .. Len(pages) /\ pages[f].tag = tag
    BY <1>0, <1>1, PageTypes DEF Around, Miss, EndOf
  <2> QED
    BY <2>1, <2>2
<1>2. CASE Miss(pages, f, tag)
  <2>1. Jump(pages, t, tag) = [pages |-> with, at |-> k]
    BY <1>2 DEF Jump, f
  <2>2. /\ k \in 1 .. Len(pages) + 1 /\ Sorted(with)
        /\ \A j \in 1 .. Len(pages) : pages[j].tag # tag
    BY <1>0, <1>2, InsertedSorted
  <2> HIDE DEF k
  <2>3. /\ with \in Seq(Page) /\ Len(with) = Len(pages) + 1
        /\ \A j \in 1 .. Len(pages) + 1 :
              with[j] = IF j < k THEN pages[j] ELSE IF j = k THEN NewPage(tag) ELSE pages[j - 1]
    BY <2>2, NewPageType, Inserted, PageTypes
  <2> HIDE DEF with
  <2>4. k \in 1 .. Len(with) /\ with[k] = NewPage(tag) /\ with[k].tag = tag
    BY <2>2, <2>3 DEF NewPage
  <2>5. ASSUME NEW u, NEW o \in Offsets PROVE WordIn(with, u, o) = WordIn(pages, u, o)
    <3>1. CASE u = tag
      <4>1. WordIn(with, u, o) = with[k].data[o]
        BY <3>1, <2>2, <2>3, <2>4, WordIsThere
      <4>2. WordIn(pages, u, o) = Zeros
        BY <3>1, <2>2, WordIsNowhere
      <4> QED
        BY <4>1, <4>2, <2>4 DEF NewPage
    <3>2. CASE u # tag /\ \E j \in 1 .. Len(pages) : pages[j].tag = u
      <4>1. PICK j \in 1 .. Len(pages) : pages[j].tag = u
        BY <3>2
      <4>2. PICK i \in 1 .. Len(with) : with[i] = pages[j]
        <5>1. CASE j < k
          BY <5>1, <2>2, <2>3, PageTypes
        <5>2. CASE ~ (j < k)
          <6>1. j + 1 \in 1 .. Len(pages) + 1 /\ ~ (j + 1 < k) /\ j + 1 # k /\ (j + 1) - 1 = j
            BY <5>2, <2>2, PageTypes
          <6>2. with[j + 1] = pages[j]
            BY <6>1, <2>3
          <6> QED
            BY <6>1, <6>2, <2>3
        <5> QED
          BY <5>1, <5>2
      <4>3. WordIn(with, u, o) = pages[j].data[o]
        <5>1. WordIn(with, with[i].tag, o) = with[i].data[o]
          BY <2>2, <2>3, WordIsThere
        <5> QED
          BY <5>1, <4>1, <4>2
      <4>4. WordIn(pages, u, o) = pages[j].data[o]
        BY <4>1, WordIsThere
      <4> QED
        BY <4>3, <4>4
    <3>3. CASE u # tag /\ \A j \in 1 .. Len(pages) : pages[j].tag # u
      <4>1. ASSUME NEW i \in 1 .. Len(with) PROVE with[i].tag # u
        <5>1. i \in 1 .. Len(pages) + 1
          BY <2>3
        <5>2. CASE i < k
          <6>1. i \in 1 .. Len(pages) /\ with[i] = pages[i]
            BY <5>1, <5>2, <2>2, <2>3, PageTypes
          <6> QED
            BY <6>1, <3>3
        <5>3. CASE i = k
          BY <5>3, <2>4, <3>3
        <5>4. CASE k < i
          <6>1. i - 1 \in 1 .. Len(pages) /\ with[i] = pages[i - 1]
            BY <5>1, <5>4, <2>2, <2>3, PageTypes
          <6> QED
            BY <6>1, <3>3
        <5> QED
          BY <5>1, <5>2, <5>3, <5>4, <2>2
      <4>2. WordIn(with, u, o) = Zeros
        BY <4>1, WordIsNowhere
      <4>3. WordIn(pages, u, o) = Zeros
        BY <3>3, WordIsNowhere
      <4> QED
        BY <4>2, <4>3
    <3> QED
      BY <3>1, <3>2, <3>3
  <2> QED
    BY <2>1, <2>2, <2>3, <2>4, <2>5
<1> QED
  BY <1>1, <1>2

Put(pages, k, o, w) == [pages EXCEPT ![k].data[o] = w]

\* A word written in a page is written in the flat memory, and no other is.
LEMMA WriteCorrect ==
    ASSUME NEW pages \in Seq(Page), Sorted(pages), NEW k \in 1 .. Len(pages),
           NEW o \in Offsets, NEW w \in Word
    PROVE  LET with == Put(pages, k, o, w)
           IN  /\ with \in Seq(Page) /\ Len(with) = Len(pages) /\ Sorted(with)
               /\ \A u, q : q \in Offsets =>
                     WordIn(with, u, q) = IF u = pages[k].tag /\ q = o THEN w ELSE WordIn(pages, u, q)
<1> DEFINE page == [pages[k] EXCEPT !.data[o] = w]
           with == [pages EXCEPT ![k] = page]
<1>1. Put(pages, k, o, w) = with
  BY DEF Put
<1>2. pages[k] \in Page
  BY PageTypes
<1>3. page \in Page /\ page.tag = pages[k].tag /\ page.data = [pages[k].data EXCEPT ![o] = w]
  BY <1>2 DEF Page
<1> HIDE DEF page
<1>4. /\ with \in Seq(Page) /\ Len(with) = Len(pages)
      /\ \A j \in 1 .. Len(pages) : with[j] = IF j = k THEN page ELSE pages[j]
  BY <1>3, ExceptSeq
<1> HIDE DEF with
<1>5. \A j \in 1 .. Len(pages) : with[j].tag = pages[j].tag
  BY <1>3, <1>4
<1>6. Sorted(with)
  BY <1>4, <1>5 DEF Sorted
<1>7. ASSUME NEW u, NEW q \in Offsets
      PROVE  WordIn(with, u, q) = IF u = pages[k].tag /\ q = o THEN w ELSE WordIn(pages, u, q)
  <2>1. CASE \E j \in 1 .. Len(pages) : pages[j].tag = u
    <3>1. PICK j \in 1 .. Len(pages) : pages[j].tag = u
      BY <2>1
    <3>2. WordIn(pages, u, q) = pages[j].data[q]
      BY <3>1, WordIsThere
    <3>3. WordIn(with, u, q) = with[j].data[q]
      BY <3>1, <1>4, <1>5, <1>6, WordIsThere
    <3>4. CASE j = k
      <4>1. with[j].data[q] = [pages[k].data EXCEPT ![o] = w][q]
        BY <3>4, <1>3, <1>4
      <4>2. pages[k].data \in [Offsets -> Word]
        BY <1>2 DEF Page
      <4>3. [pages[k].data EXCEPT ![o] = w][q] = IF q = o THEN w ELSE pages[k].data[q]
        BY <4>2
      <4> QED
        BY <3>1, <3>2, <3>3, <3>4, <4>1, <4>3
    <3>5. CASE j # k
      <4>1. u # pages[k].tag
        <5>1. j \in Nat /\ k \in Nat /\ pages[j].tag \in Nat /\ pages[k].tag \in Nat
          BY PageTypes
        <5>2. j < k \/ k < j
          BY <3>5, <5>1
        <5>3. pages[j].tag < pages[k].tag \/ pages[k].tag < pages[j].tag
          BY <5>2 DEF Sorted
        <5> QED
          BY <5>1, <5>3, <3>1
      <4> QED
        BY <4>1, <3>2, <3>3, <3>5, <1>4
    <3> QED
      BY <3>4, <3>5
  <2>2. CASE \A j \in 1 .. Len(pages) : pages[j].tag # u
    <3>1. \A j \in 1 .. Len(with) : with[j].tag # u
      BY <2>2, <1>4, <1>5
    <3>2. WordIn(with, u, q) = Zeros /\ WordIn(pages, u, q) = Zeros
      BY <2>2, <3>1, WordIsNowhere
    <3> QED
      BY <3>2, <2>2
  <2> QED
    BY <2>1, <2>2
<1> QED
  BY <1>1, <1>4, <1>6, <1>7

----------------------------------------------------------------------------
\* Cursors in the range of the pages they search.
Cursors(c, m) == c \in [Indices -> Nat \ {0}] /\ \A i \in Indices : c[i] <= EndOf(m[i])

LEMMA CursorRange ==
    ASSUME NEW m \in [Indices -> Seq(Page)], NEW c, Cursors(c, m), NEW i \in Indices
    PROVE  m[i] \in Seq(Page) /\ c[i] \in 1 .. EndOf(m[i])
<1>1. m[i] \in Seq(Page)
  OBVIOUS
<1>2. c[i] \in Nat \ {0} /\ c[i] <= EndOf(m[i])
  BY DEF Cursors
<1> QED
  BY <1>1, <1>2, PageTypes DEF EndOf

LEMMA AddrParts ==
    ASSUME NEW a \in Addr
    PROVE  a[1] \in Tags /\ a[2] \in Indices /\ a[3] \in Offsets /\ a = <<a[1], a[2], a[3]>>
BY DEF Addr

\* The contents are words.
LEMMA WordType ==
    ASSUME NEW pages \in Seq(Page), NEW tag, NEW o \in Offsets
    PROVE  WordIn(pages, tag, o) \in Word
<1> DEFINE here == {k \in 1 .. Len(pages) : pages[k].tag = tag}
<1>1. CASE here = {}
  BY <1>1, RamAssumption DEF WordIn, Word, Zeros
<1>2. CASE here # {}
  <2>1. here \in SUBSET Nat
    BY PageTypes
  <2>2. Min(here) \in here
    BY <1>2, <2>1, LeastOf
  <2>3. pages[Min(here)] \in Page
    BY <2>2, PageTypes
  <2>4. pages[Min(here)].data[o] \in Word
    BY <2>3 DEF Page
  <2> QED
    BY <1>2, <2>4 DEF WordIn
<1> QED
  BY <1>1, <1>2

\* A read of the port is one of the flat memory.
LEMMA ReadIsFlat ==
    ASSUME RamTypeOK, PagesSorted, NEW a \in Addr
    PROVE  /\ Read(a) = Contents(mem)[a] /\ Read(a) \in Word
           /\ Cursors(AfterRead(a), mem)
<1> DEFINE i == a[2]
           f == Find(mem[i], cur[i], a[1])
<1>1. a[1] \in Tags /\ i \in Indices /\ a[3] \in Offsets
  BY AddrParts
<1>2. Cursors(cur, mem) /\ mem \in [Indices -> Seq(Page)]
  BY DEF RamTypeOK, Cursors
<1>3. mem[i] \in Seq(Page) /\ cur[i] \in 1 .. EndOf(mem[i])
  BY <1>1, <1>2, CursorRange
<1>4. Sorted(mem[i])
  BY <1>1 DEF PagesSorted
<1>5. /\ f \in 1 .. EndOf(mem[i])
      /\ WordIn(mem[i], a[1], a[3]) = IF Miss(mem[i], f, a[1]) THEN Zeros ELSE mem[i][f].data[a[3]]
  BY <1>1, <1>3, <1>4, ReadFinds
<1>6. Read(a) = WordIn(mem[i], a[1], a[3])
  BY <1>5 DEF Read
<1>7. AfterRead(a) = [cur EXCEPT ![i] = f]
  BY <1>1, <1>2 DEF AfterRead, Cursors
<1>8. f \in Nat \ {0} /\ f <= EndOf(mem[i])
  BY <1>5, <1>3, PageTypes DEF EndOf
<1> HIDE DEF f, i
<1>9. Cursors(AfterRead(a), mem)
  BY <1>1, <1>2, <1>7, <1>8 DEF Cursors
<1>10. Contents(mem)[a] = WordIn(mem[i], a[1], a[3])
  BY DEF Contents, i
<1> QED
  BY <1>1, <1>3, <1>6, <1>9, <1>10, WordType

\* A flat memory after a write of the lanes m of a word.
Merged(f, a, m, d) == [f EXCEPT ![a] = [l \in Lanes |-> IF l \in m THEN d[l] ELSE @[l]]]

\* A write of the port is one of the flat memory, and keeps the pages sorted.
LEMMA WriteIsFlat ==
    ASSUME RamTypeOK, PagesSorted, NEW a \in Addr, NEW m \in SUBSET Lanes, NEW d \in Word,
           NEW c, Cursors(c, mem), Write(a, m, d, c)
    PROVE  /\ mem' \in [Indices -> Seq(Page)] /\ PagesSorted' /\ Cursors(cur', mem')
           /\ Contents(mem') = Merged(Contents(mem), a, m, d)
<1> DEFINE i == a[2]
           j == Jump(mem[i], c[i], a[1])
           old == j.pages[j.at].data[a[3]]
           word == [l \in Lanes |-> IF l \in m THEN d[l] ELSE old[l]]
           with == [j.pages EXCEPT ![j.at].data[a[3]] = word]
<1>1. a[1] \in Tags /\ i \in Indices /\ a[3] \in Offsets /\ a = <<a[1], a[2], a[3]>>
  BY AddrParts
<1>2. mem \in [Indices -> Seq(Page)]
  BY DEF RamTypeOK
<1>3. mem[i] \in Seq(Page) /\ c[i] \in 1 .. EndOf(mem[i])
  BY <1>1, <1>2, CursorRange
<1>4. Sorted(mem[i])
  BY <1>1 DEF PagesSorted
<1>5. /\ j.pages \in Seq(Page) /\ Sorted(j.pages)
      /\ j.at \in 1 .. Len(j.pages) /\ j.pages[j.at].tag = a[1]
      /\ \A u, o : o \in Offsets => WordIn(j.pages, u, o) = WordIn(mem[i], u, o)
  BY <1>1, <1>3, <1>4, JumpCorrect
<1>6. j.pages[j.at] \in Page
  BY <1>5, PageTypes
<1>7. mem' = [mem EXCEPT ![i] = with] /\ cur' = [c EXCEPT ![i] = j.at]
  <2>1. j.pages[j.at].data \in [Offsets -> Word]
    BY <1>6 DEF Page
  <2>2. with = [j.pages EXCEPT ![j.at].data[a[3]] = [l \in Lanes |-> IF l \in m THEN d[l] ELSE @[l]]]
    BY <1>1, <1>5, <1>6, <2>1 DEF Page
  <2> QED
    BY <2>2 DEF Write
<1> HIDE DEF j
<1>8. old = Contents(mem)[a] /\ old = WordIn(mem[i], a[1], a[3])
  <2>1. old = WordIn(j.pages, a[1], a[3])
    <3>1. WordIn(j.pages, j.pages[j.at].tag, a[3]) = j.pages[j.at].data[a[3]]
      BY <1>5, WordIsThere
    <3> QED
      BY <3>1, <1>5
  <2>2. Contents(mem)[a] = WordIn(mem[i], a[1], a[3])
    BY DEF Contents
  <2> QED
    BY <2>1, <2>2, <1>1, <1>5
<1>9. word \in Word
  <2>1. old \in [Lanes -> Bytes]
    BY <1>1, <1>6 DEF Page, Word
  <2> QED
    BY <2>1 DEF Word
<1> HIDE DEF old, word
<1>10. /\ with \in Seq(Page) /\ Len(with) = Len(j.pages) /\ Sorted(with)
       /\ \A u, q : q \in Offsets =>
             WordIn(with, u, q) = IF u = a[1] /\ q = a[3] THEN word ELSE WordIn(mem[i], u, q)
  <2>1. /\ Put(j.pages, j.at, a[3], word) \in Seq(Page)
        /\ Len(Put(j.pages, j.at, a[3], word)) = Len(j.pages)
        /\ Sorted(Put(j.pages, j.at, a[3], word))
        /\ \A u, q : q \in Offsets =>
              WordIn(Put(j.pages, j.at, a[3], word), u, q)
                = IF u = j.pages[j.at].tag /\ q = a[3] THEN word ELSE WordIn(j.pages, u, q)
    BY <1>1, <1>5, <1>9, WriteCorrect
  <2>2. Put(j.pages, j.at, a[3], word) = with
    BY DEF Put
  <2> HIDE DEF with
  <2> QED
    BY <2>1, <2>2, <1>5
<1> HIDE DEF with
<1>11. mem' \in [Indices -> Seq(Page)]
  BY <1>1, <1>2, <1>7, <1>10
<1>12. PagesSorted'
  BY <1>1, <1>2, <1>7, <1>10 DEF PagesSorted
<1>13. Cursors(cur', mem')
  <2>1. j.at \in Nat \ {0} /\ j.at <= EndOf(with)
    BY <1>5, <1>10, PageTypes DEF EndOf
  <2> QED
    BY <2>1, <1>1, <1>2, <1>7 DEF Cursors
<1>14. ASSUME NEW b \in Addr PROVE Contents(mem')[b] = IF b = a THEN word ELSE Contents(mem)[b]
  <2>1. b[1] \in Tags /\ b[2] \in Indices /\ b[3] \in Offsets /\ b = <<b[1], b[2], b[3]>>
    BY AddrParts
  <2>2. Contents(mem')[b] = WordIn(mem'[b[2]], b[1], b[3]) /\ Contents(mem)[b] = WordIn(mem[b[2]], b[1], b[3])
    BY DEF Contents
  <2>3. CASE b[2] = i
    <3>1. mem'[b[2]] = with
      BY <2>1, <2>3, <1>2, <1>7
    <3>2. Contents(mem')[b] = IF b[1] = a[1] /\ b[3] = a[3] THEN word ELSE WordIn(mem[i], b[1], b[3])
      BY <3>1, <2>1, <2>2, <1>10
    <3>3. b = a <=> b[1] = a[1] /\ b[3] = a[3]
      BY <2>1, <2>3, <1>1 DEF i
    <3> QED
      BY <3>2, <3>3, <2>2, <2>3
  <2>4. CASE b[2] # i
    <3>1. mem'[b[2]] = mem[b[2]] /\ b # a
      BY <2>1, <2>4, <1>2, <1>7 DEF i
    <3> QED
      BY <3>1, <2>2
  <2> QED
    BY <2>3, <2>4
<1>15. Contents(mem') = [Contents(mem) EXCEPT ![a] = word]
  BY <1>14 DEF Contents
<1>16. word = [l \in Lanes |-> IF l \in m THEN d[l] ELSE Contents(mem)[a][l]]
  BY <1>8 DEF word
<1>17. [Contents(mem) EXCEPT ![a] = word] = Merged(Contents(mem), a, m, d)
  BY <1>16 DEF Contents, Merged
<1> QED
  BY <1>11, <1>12, <1>13, <1>15, <1>17

\* A clock of the RAM port, on the flat memory.
LEMMA ProcessIsFlat ==
    ASSUME RamTypeOK, PagesSorted, NEW p \in Access, process(p)
    PROVE  /\ RamTypeOK' /\ PagesSorted'
           /\ ram_rdata' = IF read_addr = Device THEN Zeros ELSE Contents(mem)[read_addr]
           /\ read_addr' = IF p.ren THEN p.raddr ELSE read_addr
           /\ Contents(mem') =
                IF p.wen = {} \/ p.waddr = Device THEN Contents(mem)
                ELSE Merged(Contents(mem), p.waddr, p.wen, p.wdata)
<1> DEFINE c == IF read_addr = Device THEN cur ELSE AfterRead(read_addr)
<1>1. Cursors(cur, mem) /\ mem \in [Indices -> Seq(Page)]
  BY DEF RamTypeOK, Cursors
<1>2. /\ Cursors(c, mem)
      /\ ram_rdata' = (IF read_addr = Device THEN Zeros ELSE Contents(mem)[read_addr])
      /\ ram_rdata' \in Word
  <2>1. CASE read_addr = Device
    BY <1>1, <2>1, RamAssumption DEF process, Zeros, Word
  <2>2. CASE read_addr # Device
    <3>1. read_addr \in Addr
      BY <2>2 DEF RamTypeOK
    <3> QED
      BY <2>2, <3>1, ReadIsFlat DEF process
  <2> QED
    BY <2>1, <2>2
<1>3. /\ read_addr' = (IF p.ren THEN p.raddr ELSE read_addr)
      /\ read_addr' \in Addr \cup {Device}
  BY DEF process, Access, RamTypeOK
<1>4. /\ mem' \in [Indices -> Seq(Page)] /\ PagesSorted' /\ Cursors(cur', mem')
      /\ Contents(mem') =
           IF p.wen = {} \/ p.waddr = Device THEN Contents(mem)
           ELSE Merged(Contents(mem), p.waddr, p.wen, p.wdata)
  <2>1. CASE p.wen = {} \/ p.waddr = Device
    <3>1. mem' = mem /\ cur' = c
      BY <2>1 DEF process
    <3> QED
      BY <1>1, <1>2, <2>1, <3>1 DEF PagesSorted
  <2>2. CASE ~ (p.wen = {} \/ p.waddr = Device)
    <3>1. Write(p.waddr, p.wen, p.wdata, c)
      BY <2>2 DEF process
    <3>2. p.waddr \in Addr /\ p.wen \in SUBSET Lanes /\ p.wdata \in Word
      BY <2>2 DEF Access
    <3> HIDE DEF c
    <3> QED
      BY <1>2, <2>2, <3>1, <3>2, WriteIsFlat
  <2> QED
    BY <2>1, <2>2
<1> QED
  BY <1>2, <1>3, <1>4 DEF RamTypeOK, Cursors

-------------------------------------------------------------------------------

\* A checkpoint has sorted pages.
SavedOK ==
    \/ saved = <<>>
    \/ /\ saved \in [mem : [Indices -> Seq(Page)], rdata : Word]
       /\ \A i \in Indices : Sorted(saved.mem[i])

\* The inductive invariant of the memory.
RamIInv == RamTypeOK /\ PagesSorted /\ SavedOK

\* What a clock is for the memory.
RamClock(save, p) ==
    /\ saved' = IF save THEN [mem |-> mem, rdata |-> ram_rdata] ELSE saved
    /\ process(p) /\ asked' = (asked \/ p.ren)

LEMMA NoAccessType == NoAccess \in Access
BY RamAssumption DEF NoAccess, Access, Zeros, Word

LEMMA StepIsRamClock == Step => \E save \in BOOLEAN, p \in Access : RamClock(save, p)
<1>1. ASSUME Memory PROVE \E save \in BOOLEAN, p \in Access : RamClock(save, p)
  <2>1. PICK p \in Accesses, save \in {FALSE, saved = <<>>} :
           Clock(save, p, NoBusWrite, <<>>, Alive, FALSE, FALSE)
    BY <1>1 DEF Memory
  <2>2. RamClock(save, p)
    BY <2>1 DEF Clock, RamClock
  <2> QED
    BY <2>1, <2>2, TestbenchAssumption
<1>2. ASSUME NEW b, NEW byte, Quiet(NoAccess, b, byte) PROVE RamClock(FALSE, NoAccess)
  BY <1>2 DEF Quiet, Clock, RamClock
<1>3. ASSUME Divisors \/ Serial PROVE RamClock(FALSE, NoAccess)
  BY <1>2, <1>3 DEF Divisors, Serial
<1>4. ASSUME Trace PROVE RamClock(FALSE, NoAccess)
  BY <1>4 DEF Trace, Clock, RamClock
<1> QED
  BY <1>1, <1>3, <1>4, NoAccessType DEF Step

LEMMA RamInitIInv == Init => RamIInv
<1> SUFFICES ASSUME Init PROVE RamIInv
  OBVIOUS
<1>1. <<>> \in Seq(Page) /\ Len(<<>>) = 0
  OBVIOUS
<1>2. mem \in [Indices -> Seq(Page)] /\ \A i \in Indices : mem[i] = <<>>
  BY <1>1 DEF Init, RamInit
<1>3. RamTypeOK
  BY <1>1, <1>2, RamAssumption DEF Init, RamInit, RamTypeOK, EndOf, Zeros, Word
<1>4. PagesSorted
  BY <1>1, <1>2 DEF PagesSorted, Sorted
<1> QED
  BY <1>3, <1>4 DEF RamIInv, SavedOK, Init

LEMMA RamStepIInv == RamIInv /\ [Next]_vars => RamIInv'
<1> SUFFICES ASSUME RamIInv, [Next]_vars PROVE RamIInv'
  OBVIOUS
<1> USE DEF RamIInv
<1>1. CASE LoadImage
  <2>1. PICK w \in Image : Load(w[1], w[2])
    BY <1>1 DEF LoadImage
  <2>2. w[1] \in Addr /\ w[2] \in Word
    BY TestbenchAssumption
  <2>3. Cursors(cur, mem)
    BY DEF RamTypeOK, Cursors
  <2>4. Write(w[1], Lanes, w[2], cur) /\ UNCHANGED <<read_addr, ram_rdata>>
    BY <2>1 DEF Load
  <2>5. mem' \in [Indices -> Seq(Page)] /\ PagesSorted' /\ Cursors(cur', mem')
    BY <2>2, <2>3, <2>4, WriteIsFlat
  <2>6. saved' = saved
    BY <1>1 DEF LoadImage, loop
  <2> QED
    BY <2>4, <2>5, <2>6 DEF RamTypeOK, Cursors, SavedOK
<1>2. CASE Reset
  BY <1>2 DEF Reset, ramVars, RamTypeOK, PagesSorted, SavedOK
<1>3. CASE Step
  <2>1. PICK save \in BOOLEAN, p \in Access : RamClock(save, p)
    BY <1>3, StepIsRamClock
  <2>2. RamTypeOK' /\ PagesSorted'
    BY <2>1, ProcessIsFlat DEF RamClock
  <2>3. SavedOK'
    <3>1. CASE save
      <4>1. saved' = [mem |-> mem, rdata |-> ram_rdata]
        BY <2>1, <3>1 DEF RamClock
      <4>2. mem \in [Indices -> Seq(Page)] /\ ram_rdata \in Word
        BY DEF RamTypeOK
      <4> QED
        BY <4>1, <4>2 DEF SavedOK, PagesSorted
    <3>2. CASE ~save
      BY <2>1, <3>2 DEF RamClock, SavedOK
    <3> QED
      BY <3>1, <3>2
  <2> QED
    BY <2>2, <2>3
<1>4. CASE Restart
  <2>1. /\ mem' = saved.mem /\ cur' = [i \in Indices |-> EndOf(saved.mem[i])]
        /\ read_addr' \in Addr \cup {Device} /\ ram_rdata' = saved.rdata /\ saved' = saved
        /\ saved # <<>>
    BY <1>4 DEF Restart, breakpoint_restore
  <2>2. /\ saved.mem \in [Indices -> Seq(Page)] /\ saved.rdata \in Word
        /\ \A i \in Indices : Sorted(saved.mem[i])
    BY <2>1 DEF SavedOK
  <2>3. \A i \in Indices : EndOf(saved.mem[i]) \in Nat \ {0}
    BY <2>2, PageTypes DEF EndOf
  <2> QED
    BY <2>1, <2>2, <2>3 DEF RamTypeOK, PagesSorted, SavedOK
<1>5. CASE UNCHANGED vars
  BY <1>5 DEF vars, ramVars, loop, RamTypeOK, PagesSorted, SavedOK
<1> QED
  BY <1>1, <1>2, <1>3, <1>4, <1>5 DEF Next

LEMMA RamIInvHolds == Spec => []RamIInv
BY RamInitIInv, RamStepIInv, PTL DEF Spec

\* The pages of an index stay in the order of their tags (the assertion of
\* CpuRam::jump), whatever is asked of the port.
THEOREM Ordered == Spec => []PagesSorted
<1>1. RamIInv => PagesSorted
  BY DEF RamIInv
<1> QED
  BY <1>1, RamIInvHolds, PTL

----------------------------------------------------------------------------
Pages0 == [i \in Indices |-> <<>>]
Pending == IF asked THEN read_addr ELSE Device
Kept == IF saved = <<>> THEN Contents(Pages0) ELSE Contents(saved.mem)

LEMMA BlankContents == Contents(Pages0) = [a \in Addr |-> Zeros]
<1>1. ASSUME NEW a \in Addr PROVE WordIn(Pages0[a[2]], a[1], a[3]) = Zeros
  <2>1. Pages0[a[2]] = <<>>
    BY AddrParts DEF Pages0
  <2> QED
    BY <2>1, WordIsNowhere
<1> QED
  BY <1>1 DEF Contents

\* The initial states are those of the flat memory.
LEMMA FlatInit == Init => Flat!Init
<1> SUFFICES ASSUME Init PROVE Flat!Init
  OBVIOUS
<1>1. mem = Pages0 /\ ram_rdata = Zeros /\ saved = <<>> /\ asked = FALSE
  BY DEF Init, RamInit, Pages0
<1> QED
  BY <1>1, BlankContents DEF Flat!Init, Flat!Blank, Pages0

\* A checkpoint that is taken is there.
LEMMA CheckpointIsThere == ASSUME NEW m, NEW r PROVE [mem |-> m, rdata |-> r] # <<>>
<1>1. "mem" \in DOMAIN [mem |-> m, rdata |-> r]
  OBVIOUS
<1>2. "mem" \notin DOMAIN <<>>
  OBVIOUS
<1> QED
  BY <1>1, <1>2

\* A clock of the simulation is a clock of the flat memory.
LEMMA FlatClock ==
    ASSUME RamIInv, asked \in BOOLEAN, NEW save \in BOOLEAN, NEW p \in Access, RamClock(save, p)
    PROVE  Flat!Next
<1> USE DEF RamIInv
<1>1. /\ RamTypeOK'
      /\ ram_rdata' = IF read_addr = Device THEN Zeros ELSE Contents(mem)[read_addr]
      /\ read_addr' = IF p.ren THEN p.raddr ELSE read_addr
      /\ Contents(mem') =
           IF p.wen = {} \/ p.waddr = Device THEN Contents(mem)
           ELSE Merged(Contents(mem), p.waddr, p.wen, p.wdata)
  BY ProcessIsFlat DEF RamClock
<1> DEFINE m == IF p.waddr = Device THEN {} ELSE p.wen
<1>2. PICK w \in Addr : m = {} \/ w = p.waddr
  <2>1. Addr # {}
    <3>1. PICK t \in Tags, i \in Indices, o \in Offsets : TRUE
      BY RamAssumption
    <3>2. <<t, i, o>> \in Addr
      BY DEF Addr
    <3> QED
      BY <3>2
  <2> QED
    BY <2>1 DEF Access
<1>3. p.raddr \in Addr \cup {Device} /\ m \in SUBSET Lanes /\ p.wdata \in Word
  BY DEF Access
<1>4. ram_rdata' \in IF Pending = Device THEN Word ELSE {Contents(mem)[Pending]}
  <2>1. ram_rdata' \in Word
    BY <1>1 DEF RamTypeOK
  <2> QED
    BY <1>1, <2>1 DEF Pending
<1>5. Pending' \in {Pending, p.raddr}
  BY <1>1 DEF Pending, RamClock
<1>6. Contents(mem') = IF m = {} THEN Contents(mem) ELSE Merged(Contents(mem), w, m, p.wdata)
  BY <1>1, <1>2
<1>7. Kept' \in {Kept, Contents(mem)}
  <2>1. CASE save
    <3>1. saved' = [mem |-> mem, rdata |-> ram_rdata]
      BY <2>1 DEF RamClock
    <3>2. saved' # <<>> /\ saved'.mem = mem
      BY <3>1, CheckpointIsThere
    <3> QED
      BY <3>2 DEF Kept
  <2>2. CASE ~save
    BY <2>2 DEF RamClock, Kept
  <2> QED
    BY <2>1, <2>2
<1> HIDE DEF m
<1>8. Flat!Clock(p.raddr, m, w, p.wdata)
  BY <1>4, <1>5, <1>6, <1>7 DEF Flat!Clock, Flat!Merge, Flat!Word, Merged, Pending, Kept, Pages0, Word
<1> QED
  BY <1>2, <1>3, <1>8 DEF Flat!Next, Flat!Word, Word

\* The paged memory with its cursors and its checkpoint implements the flat
\* one, for any addresses and accesses.
THEOREM MemoryFlat == Spec => MemoryIsFlat
<1>1. Init => Flat!Init
  BY FlatInit
<1>2. RamIInv /\ asked \in BOOLEAN /\ [Next]_vars => [Flat!Next]_(Flat!vars)
  <2> SUFFICES ASSUME RamIInv, asked \in BOOLEAN, [Next]_vars
               PROVE  [Flat!Next]_(Flat!vars)
    OBVIOUS
  <2> USE DEF RamIInv
  <2>1. CASE LoadImage
    <3>1. PICK w \in Image : Load(w[1], w[2])
      BY <2>1 DEF LoadImage
    <3>2. w[1] \in Addr /\ w[2] \in Word
      BY TestbenchAssumption
    <3>3. Cursors(cur, mem) /\ Write(w[1], Lanes, w[2], cur) /\ UNCHANGED <<read_addr, ram_rdata, saved, asked>>
      BY <2>1, <3>1 DEF RamTypeOK, Cursors, Load, LoadImage, loop
    <3>4. Contents(mem') = Merged(Contents(mem), w[1], Lanes, w[2])
      BY <3>2, <3>3, WriteIsFlat
    <3>5. Flat!Fill(w[1], w[2])
      BY <3>3, <3>4 DEF Flat!Fill, Flat!Merge, Merged
    <3> QED
      BY <3>2, <3>5 DEF Flat!Next, Flat!Word, Word
  <2>2. CASE Reset
    BY <2>2 DEF Reset, ramVars, Flat!vars
  <2>3. CASE Step
    BY <2>3, StepIsRamClock, FlatClock
  <2>4. CASE Restart
    <3>1. /\ saved # <<>> /\ mem' = saved.mem /\ ram_rdata' = saved.rdata
          /\ saved' = saved /\ asked' = FALSE
      BY <2>4 DEF Restart, breakpoint_restore
    <3>2. saved.rdata \in Word
      BY <3>1 DEF SavedOK
    <3>3. Flat!Restart
      BY <3>1, <3>2 DEF Flat!Restart, Flat!Word, Word
    <3> QED
      BY <3>3 DEF Flat!Next
  <2>5. CASE UNCHANGED vars
    BY <2>5 DEF vars, ramVars, loop, Flat!vars
  <2> QED
    BY <2>1, <2>2, <2>3, <2>4, <2>5 DEF Next
<1>3. Init => asked \in BOOLEAN
  BY DEF Init
<1>4. asked \in BOOLEAN /\ [Next]_vars => (asked \in BOOLEAN)'
  <2> SUFFICES ASSUME asked \in BOOLEAN, [Next]_vars PROVE asked' \in BOOLEAN
    OBVIOUS
  <2>1. CASE Step
    BY <2>1, StepIsRamClock DEF RamClock, Access
  <2>2. CASE LoadImage \/ Reset \/ Restart \/ UNCHANGED vars
    BY <2>2 DEF LoadImage, Reset, Restart, vars, loop
  <2> QED
    BY <2>1, <2>2 DEF Next
<1> QED
  BY <1>1, <1>2, <1>3, <1>4, RamIInvHolds, PTL DEF Spec, MemoryIsFlat, Flat!Spec

----------------------------------------------------------------------------
\* What a clock is for the set-up of the terminal.
BusWrite(b) ==
    /\ b.on \in BOOLEAN /\ b.addr \in 0 .. 3 /\ b.data \in 0 .. 255
    /\ b.dlab \in BOOLEAN /\ b.format \in Format
BusClock(b) == DevRegisters(b) /\ Reconfigure(b)

Zeros3 == [i \in 0 .. 2 |-> 0]

\* The inductive invariant of the set-up: the terminal has a copy of the
\* latches, and its divisor is theirs unless one was written since.
SetupIInv ==
    /\ lcr \in [dlab : BOOLEAN, format : Format] /\ dl \in [0 .. 2 -> 0 .. 255]
    /\ uart_div_set = lcr.dlab /\ div_val = dl /\ div_reinit \in BOOLEAN
    /\ m_setup = uart_config /\ uart_config = SetupOf(uart_config.baud, lcr.format)
    /\ ~lcr.dlab => ~div_reinit
    /\ ~div_reinit => dl = Zeros3 \/ uart_config.baud = (Divisor(dl) * Oversampling) % BaudRange

LEMMA StepIsBusClock == Step => \E b : BusWrite(b) /\ BusClock(b)
<1>1. BusWrite(NoBusWrite)
  BY DEF BusWrite, NoBusWrite, PlainFormat, Format
<1>2. ASSUME NEW b \in LatchWrites PROVE BusWrite(b)
  <2>1. PICK w \in Latches : b = LatchWrite(w[1], w[2])
    BY DEF LatchWrites
  <2>2. w[1] \in 0 .. 2 /\ w[2] \in 0 .. 255
    BY TestbenchAssumption
  <2> QED
    BY <2>1, <2>2 DEF BusWrite, LatchWrite, NoBusWrite, PlainFormat, Format
<1>3. ASSUME NEW b \in LineWrites PROVE BusWrite(b)
  <2>1. PICK d \in BOOLEAN, f \in Formats : b = LineWrite(d, f)
    BY DEF LineWrites
  <2>2. f \in Format
    BY TestbenchAssumption
  <2> QED
    BY <2>1, <2>2 DEF BusWrite, LineWrite, NoBusWrite
<1>4. ASSUME NEW b \in ByteWrites PROVE BusWrite(b)
  <2>1. PICK x \in Byte : b = [NoBusWrite EXCEPT !.on = TRUE, !.byte = x]
    BY DEF ByteWrites
  <2> QED
    BY <2>1 DEF BusWrite, NoBusWrite, PlainFormat, Format
<1>5. ASSUME NEW p, NEW b, NEW byte, NEW wb, NEW save, NEW end_byte, NEW late,
             Clock(save, p, b, byte, wb, end_byte, late)
      PROVE  BusClock(b)
  BY <1>5 DEF Clock, BusClock
<1>6. ASSUME NEW b, NEW byte, Quiet(NoAccess, b, byte) PROVE BusClock(b)
  BY <1>5, <1>6 DEF Quiet
<1>7. CASE Memory
  BY <1>1, <1>5, <1>7 DEF Memory
<1>8. CASE Divisors
  BY <1>1, <1>2, <1>3, <1>6, <1>8 DEF Divisors
<1>9. CASE Serial
  BY <1>1, <1>2, <1>3, <1>4, <1>6, <1>9 DEF Serial, SetUp
<1>10. CASE Trace
  BY <1>1, <1>5, <1>10 DEF Trace
<1> QED
  BY <1>7, <1>8, <1>9, <1>10 DEF Step

LEMMA SetupInitIInv == Init => SetupIInv
<1> SUFFICES ASSUME Init PROVE SetupIInv
  OBVIOUS
<1>1. /\ m_setup = FirstSetup /\ uart_config = FirstSetup /\ div_val = Zeros3 /\ dl = Zeros3
      /\ uart_div_set = FALSE /\ div_reinit = FALSE
      /\ lcr = [dlab |-> FALSE, format |-> PlainFormat]
  BY DEF Init, UartInit, CaptureInit, DesignInit, Zeros3
<1>2. FirstSetup = SetupOf(FirstSetup.baud, PlainFormat)
  BY DEF FirstSetup, SetupOf, PlainFormat
<1>3. PlainFormat \in Format
  BY DEF PlainFormat, Format
<1>4. Zeros3 \in [0 .. 2 -> 0 .. 255]
  BY DEF Zeros3
<1> QED
  BY <1>1, <1>2, <1>3, <1>4 DEF SetupIInv

LEMMA SetupStepIInv == SetupIInv /\ [Next]_vars => SetupIInv'
<1> SUFFICES ASSUME SetupIInv, [Next]_vars PROVE SetupIInv'
  OBVIOUS
<1>1. CASE Step
  <2>1. PICK b : BusWrite(b) /\ BusClock(b)
    BY <1>1, StepIsBusClock
  <2>2. CASE ~b.on
    <3>1. UNCHANGED <<lcr, dl, capture, m_setup>>
      BY <2>1, <2>2 DEF BusClock, DevRegisters, Reconfigure
    <3> QED
      BY <3>1 DEF SetupIInv, capture
  <2>3. CASE b.on /\ Latch(b) /\ ~lcr.dlab
    <3>1. UNCHANGED <<lcr, dl, capture, m_setup>>
      BY <2>1, <2>3 DEF BusClock, DevRegisters, Latch, SetupIInv, capture
    <3> QED
      BY <3>1 DEF SetupIInv, capture
  <2>4. CASE b.on /\ Latch(b) /\ lcr.dlab
    <3>1. /\ lcr' = lcr /\ dl' = [dl EXCEPT ![b.addr] = b.data] /\ div_val' = dl'
          /\ div_reinit' = TRUE /\ UNCHANGED <<uart_div_set, uart_config, m_setup>>
      <4>1. b.addr # 3 /\ uart_div_set /\ div_val = dl
        BY <2>4 DEF Latch, SetupIInv
      <4>2. DevRegisters(b) /\ Latch(b) /\ b.on /\ lcr.dlab
        BY <2>1, <2>4 DEF BusClock
      <4> QED
        BY <4>1, <4>2 DEF DevRegisters, Latch
    <3>2. dl' \in [0 .. 2 -> 0 .. 255]
      BY <2>1, <2>4, <3>1 DEF BusWrite, Latch, SetupIInv
    <3> QED
      BY <2>4, <3>1, <3>2 DEF SetupIInv
  <2>5. CASE b.on /\ LineControl(b)
    <3> DEFINE closes == lcr.dlab /\ ~b.dlab
               baud == IF closes /\ div_reinit THEN (Divisor(dl) * Oversampling) % BaudRange
                       ELSE uart_config.baud
    <3>1. /\ lcr' = [dlab |-> b.dlab, format |-> b.format] /\ dl' = dl /\ div_val' = dl
          /\ uart_div_set' = b.dlab /\ div_reinit' = (div_reinit /\ ~closes)
          /\ uart_config' = SetupOf(baud, b.format) /\ m_setup' = uart_config'
      BY <2>1, <2>5 DEF BusClock, DevRegisters, LineControl, SetupIInv
    <3>2. uart_config'.baud = baud /\ uart_config' = SetupOf(uart_config'.baud, b.format)
      BY <3>1 DEF SetupOf
    <3>3. lcr' \in [dlab : BOOLEAN, format : Format] /\ div_reinit' \in BOOLEAN
      BY <2>1, <3>1 DEF BusWrite
    <3>4. ~lcr'.dlab => ~div_reinit'
      BY <3>1 DEF SetupIInv
    <3>5. ~div_reinit' => dl = Zeros3 \/ uart_config'.baud = (Divisor(dl) * Oversampling) % BaudRange
      BY <3>1, <3>2 DEF SetupIInv
    <3> HIDE DEF closes, baud
    <3> QED
      BY <3>1, <3>2, <3>3, <3>4, <3>5 DEF SetupIInv, Divisor
  <2> QED
    BY <2>1, <2>2, <2>3, <2>4, <2>5 DEF BusClock, Reconfigure, SetupIInv
<1>2. CASE LoadImage \/ Reset \/ Restart \/ UNCHANGED vars
  <2>1. UNCHANGED <<lcr, dl, capture, m_setup>>
    BY <1>2 DEF LoadImage, Reset, Restart, vars, design, uartVars
  <2> QED
    BY <2>1 DEF SetupIInv, capture
<1> QED
  BY <1>1, <1>2 DEF Next

LEMMA DivisorFits ==
    ASSUME NEW d \in Nat, d <= 255 + 255 * 256
    PROVE  d * Oversampling \in Nat /\ d * Oversampling < BaudRange
<1>1. Oversampling \in 1 .. 256
  BY TestbenchAssumption
<1>2. \A x, y, z \in Nat : x <= y => x * z <= y * z
  BY SMT
<1>3. d * Oversampling <= d * 256
  <2>1. d * Oversampling = Oversampling * d /\ d * 256 = 256 * d
    BY <1>1
  <2> QED
    BY <1>1, <1>2, <2>1
<1>4. d * 256 < BaudRange
  BY SMT DEF BaudRange
<1> QED
  BY <1>1, <1>3, <1>4 DEF BaudRange

\* The terminal's set-up is the design's when the latches are closed.
LEMMA SetupIsDesigns == SetupIInv => SetupFollowsDesign
<1> SUFFICES ASSUME SetupIInv, ~lcr.dlab, dl[2] = 0, DevBaud # 0
             PROVE  /\ m_setup.baud = DevBaud /\ m_setup.nstop = lcr.format.stop
                    /\ m_setup.nparity = IF lcr.format.parity = "none" THEN 0 ELSE 1
  BY DEF SetupFollowsDesign
<1> DEFINE d == dl[0] + dl[1] * 256
<1>0. dl[0] \in 0 .. 255 /\ dl[1] \in 0 .. 255
  BY DEF SetupIInv
<1>1. d \in Nat /\ d <= 255 + 255 * 256 /\ DevBaud = d * Oversampling
  <2> DEFINE x == dl[0]
             y == dl[1]
  <2>1. x \in 0 .. 255 /\ y \in 0 .. 255
    BY <1>0
  <2>2. DevBaud = d * Oversampling
    BY DEF DevBaud
  <2> HIDE DEF x, y
  <2>3. x + y * 256 \in Nat /\ x + y * 256 <= 255 + 255 * 256
    BY <2>1, SMT
  <2> QED
    BY <2>2, <2>3 DEF x, y
<1>2. Divisor(dl) = d
  <2> DEFINE x == dl[0]
             y == dl[1]
  <2>1. Divisor(dl) = x + y * 256 + 0 * 65536
    BY SMT DEF Divisor
  <2>2. x \in Nat /\ y \in Nat
    BY <1>0
  <2> HIDE DEF x, y
  <2>3. x + y * 256 + 0 * 65536 = x + y * 256
    BY <2>2, SMT
  <2> QED
    BY <2>1, <2>3, SMT DEF x, y
<1>3. dl # Zeros3
  <2>1. CASE dl = Zeros3
    <3>1. d = 0
      BY <2>1 DEF Zeros3
    <3>2. 0 * Oversampling = 0
      BY TestbenchAssumption
    <3> QED
      BY <3>1, <3>2, <1>1
  <2> QED
    BY <2>1
<1>4. uart_config.baud = (d * Oversampling) % BaudRange
  BY <1>2, <1>3 DEF SetupIInv
<1> HIDE DEF d
<1>5. (d * Oversampling) % BaudRange = d * Oversampling
  <2>1. \A n \in Nat : n < BaudRange => n % BaudRange = n
    BY SMT DEF BaudRange
  <2> QED
    BY <2>1, <1>1, DivisorFits
<1>6. m_setup.nstop = lcr.format.stop /\ m_setup.nparity = IF lcr.format.parity = "none" THEN 0 ELSE 1
  BY DEF SetupIInv, SetupOf
<1> QED
  BY <1>1, <1>4, <1>5, <1>6 DEF SetupIInv

LEMMA SetupIInvHolds == Spec => []SetupIInv
BY SetupInitIInv, SetupStepIInv, PTL DEF Spec

\* After every write of the line control register that closes the latches
\* the terminal has the design's rate, stop bits and parity, for any divisor
\* and any order of the writes.
THEOREM SetupFollows == Spec => []SetupFollowsDesign
BY SetupIsDesigns, SetupIInvHolds, PTL

----------------------------------------------------------------------------
\* What a clock is for the comparison.
Recorded(wb) ==
    IF Writes(wb) /\ reg[wb.wnum] # wb.wdata
    THEN Append(changes, [pc |-> wb.pc, wnum |-> wb.wnum, wdata |-> wb.wdata]) ELSE changes
TraceClock(p, wb, end_byte, late) ==
    LET causes == ram_status(p) \cup time_limit_status(late) \cup trace_status(wb, end_byte)
    IN  /\ phase = "run" /\ compare(wb, end_byte)
        /\ emask' = causes /\ phase' = IF causes # {} THEN "over" ELSE "run"
        /\ changes' = Recorded(wb) /\ last' = [wen |-> wb.wen, end_byte |-> end_byte]
        /\ program' = program

LastRecord == golden_trace_in[Len(golden_trace_in)].fir

\* The simulation goes on, or there is nothing to compare.
Going == phase # "over" \/ program[1] # "trace"

\* The next change is compared with the record behind the changes so far;
\* after the last one no change can be what the record says.
InStep ==
    /\ Agrees /\ ~two_delay
    /\ Len(changes) < Len(golden_trace_in) => at = Len(changes) + 1
    /\ Len(changes) = Len(golden_trace_in) =>
          at = Len(golden_trace_in) /\ reg[LastRecord.wnum] = LastRecord.wdata

EndedRightly ==
    Agrees /\ emask = {"trace"} => sim_over \/ last.end_byte \/ dead_clock > DeadLimit

TraceIInv ==
    /\ golden_trace_in \in Seq(Record) \ {<<>>} /\ at \in 1 .. Len(golden_trace_in)
    /\ reg \in [Regs -> Values] /\ changes \in Seq(Change)
    /\ program[1] # "trace" => changes = <<>>
    /\ Plain => (Going => InStep) /\ EndedRightly

LEMMA AliveType == Alive \in WriteBack /\ ~Writes(Alive)
BY TraceAssumption DEF Alive, NoWriteBack, WriteBack, Writes

LEMMA StepIsTraceClock ==
    Step => \E wb \in WriteBack : \E p, end_byte, late :
               /\ program[1] # "trace" => ~Writes(wb)
               /\ TraceClock(p, wb, end_byte, late)
<1>1. ASSUME NEW save, NEW p, NEW b, NEW byte, NEW wb, NEW end_byte, NEW late,
             Clock(save, p, b, byte, wb, end_byte, late)
      PROVE  TraceClock(p, wb, end_byte, late)
  BY <1>1 DEF Clock, TraceClock, Recorded
<1>2. CASE Memory
  <2>1. PICK p, save : Clock(save, p, NoBusWrite, <<>>, Alive, FALSE, FALSE)
    BY <1>2 DEF Memory
  <2>2. TraceClock(p, Alive, FALSE, FALSE)
    BY <2>1, <1>1
  <2> QED
    BY <2>2, AliveType
<1>3. CASE Divisors \/ Serial
  <2>1. PICK b, byte : Quiet(NoAccess, b, byte)
    BY <1>3 DEF Divisors, Serial
  <2>2. TraceClock(NoAccess, Alive, FALSE, FALSE)
    BY <2>1, <1>1 DEF Quiet
  <2> QED
    BY <2>2, AliveType
<1>4. CASE Trace
  <2>1. PICK wb \in Commits, end_byte \in BOOLEAN, late \in BOOLEAN :
           Clock(FALSE, NoAccess, NoBusWrite, <<>>, wb, end_byte, late)
    BY <1>4 DEF Trace
  <2>2. TraceClock(NoAccess, wb, end_byte, late) /\ wb \in WriteBack
    BY <2>1, <1>1, TestbenchAssumption
  <2> QED
    BY <2>2, <1>4 DEF Trace
<1> QED
  BY <1>2, <1>3, <1>4 DEF Step

LEMMA TraceInitIInv == Init => TraceIInv
<1> SUFFICES ASSUME Init PROVE TraceIInv
  OBVIOUS
<1>1. /\ program \in Programs /\ golden_trace_in = program[2] /\ at = 1
      /\ reg = [r \in Regs |-> 0] /\ changes = <<>> /\ emask = {} /\ two_delay = Pair(1)
  BY DEF Init, TraceInit, DesignInit
<1>2. golden_trace_in \in Seq(Record) \ {<<>>}
  BY <1>1, TestbenchAssumption
<1>3. Len(golden_trace_in) \in Nat /\ Len(golden_trace_in) > 0
  BY <1>2, EmptySeq
<1>4. reg \in [Regs -> Values]
  BY <1>1, TraceAssumption
<1>5. changes \in Seq(Change) /\ Len(changes) = 0
  BY <1>1
<1>6. Agrees
  BY <1>3, <1>5 DEF Agrees
<1>7. Plain => InStep
  <2>1. Plain => golden_trace_in[1].change_num = 1
    BY <1>3 DEF Plain
  <2>2. Plain => ~Pair(1)
    BY <2>1 DEF Pair
  <2>3. Plain => ~two_delay
    BY <1>1, <2>2, Zenon
  <2> QED
    BY <1>1, <1>3, <1>5, <1>6, <2>3 DEF InStep
<1>8. EndedRightly
  BY <1>1 DEF EndedRightly
<1> QED
  BY <1>1, <1>2, <1>3, <1>4, <1>5, <1>7, <1>8 DEF TraceIInv

\* A clock that ends the simulation for the trace alone and without a
\* mismatch has one of the other reasons.
LEMMA OtherReason ==
    ASSUME NEW p, NEW wb \in WriteBack, NEW end_byte, NEW late, TraceClock(p, wb, end_byte, late),
           ~Mismatch(wb), emask' = {"trace"}
    PROVE  sim_over' \/ last'.end_byte \/ dead_clock' > DeadLimit
<1>1. trace_status(wb, end_byte) = {"trace"}
  BY DEF TraceClock, ram_status, time_limit_status, trace_status
<1>2. end_byte \/ sim_over \/ (Writes(wb) /\ wb.pc = END_PC) \/ Dead(wb)
  BY <1>1 DEF trace_status
<1>3. last'.end_byte = end_byte
  BY DEF TraceClock
<1>4. sim_over' = (sim_over \/ (Writes(wb) /\ wb.pc = END_PC))
  BY DEF TraceClock, compare
<1>5. ~end_byte /\ ~sim_over' => dead_clock' = DeadNext(wb)
  BY DEF TraceClock, compare
<1> QED
  BY <1>2, <1>3, <1>4, <1>5 DEF Dead

LEMMA TraceStepIInv == TraceIInv /\ [Next]_vars => TraceIInv'
<1> SUFFICES ASSUME TraceIInv, [Next]_vars PROVE TraceIInv'
  OBVIOUS
<1> DEFINE g == golden_trace_in
<1>0. Len(g) \in Nat /\ Len(g) > 0 /\ Len(changes) \in Nat
  BY EmptySeq DEF TraceIInv
<1>1. CASE Step
  <2>0. PICK wb \in WriteBack : \E p, end_byte, late :
           /\ program[1] # "trace" => ~Writes(wb)
           /\ TraceClock(p, wb, end_byte, late)
    BY <1>1, StepIsTraceClock
  <2>1. PICK p, end_byte, late :
           /\ program[1] # "trace" => ~Writes(wb)
           /\ TraceClock(p, wb, end_byte, late)
    BY <2>0
  <2>2. g' = g /\ program' = program /\ phase = "run"
    BY <2>1 DEF TraceClock, compare
  <2>3. Plain' <=> Plain
    BY <2>2 DEF Plain
  <2>4. reg' \in [Regs -> Values]
    BY <2>1 DEF TraceClock, compare, TraceIInv, WriteBack
  <2>5. CASE ~Writes(wb) \/ reg[wb.wnum] = wb.wdata
    <3>1. ~Compared(wb)
      BY <2>5 DEF Compared, NoChange
    <3>2. ~Mismatch(wb)
      BY <3>1 DEF Mismatch
    <3>3. UNCHANGED <<g, at, two_delay, changes>>
      BY <2>1, <2>2, <2>5, <3>1 DEF TraceClock, compare, pairing, Recorded
    <3>4. reg' = reg
      BY <2>1, <2>5 DEF TraceClock, compare, TraceIInv, Writes
    <3>5. Going
      BY <2>2 DEF Going
    <3>6. Plain => InStep'
      BY <3>3, <3>4, <3>5 DEF TraceIInv, InStep, Agrees, LastRecord
    <3>7. EndedRightly'
      BY <2>1, <3>2, OtherReason DEF EndedRightly
    <3> QED
      BY <2>2, <2>3, <2>4, <3>3, <3>6, <3>7 DEF TraceIInv
  <2>6. CASE Writes(wb) /\ reg[wb.wnum] # wb.wdata
    <3> DEFINE c == [pc |-> wb.pc, wnum |-> wb.wnum, wdata |-> wb.wdata]
               n == Len(changes)
    <3>1. program[1] = "trace"
      BY <2>1, <2>6
    <3>2. c \in Change
      BY DEF WriteBack, Change
    <3>3. changes' = Append(changes, c)
      BY <2>1, <2>6 DEF TraceClock, Recorded
    <3> HIDE DEF c
    <3>4. changes' \in Seq(Change) /\ Len(changes') = n + 1
      BY <3>2, <3>3 DEF TraceIInv
    <3>5. (\A i \in 1 .. n : changes'[i] = changes[i]) /\ changes'[n + 1] = c
      BY <3>3 DEF TraceIInv
    <3>6. at' \in 1 .. Len(g)
      BY <1>0, <2>1 DEF TraceClock, compare, update_once, pairing, TraceIInv
    <3>7. ASSUME Plain PROVE (Going' => InStep') /\ EndedRightly'
      <4>1. InStep /\ at \in 1 .. Len(g)
        BY <2>2, <3>7 DEF TraceIInv, Going
      <4>2. Compared(wb)
        BY <2>6, <3>7, <4>1 DEF Compared, NoChange, Plain
      <4>3. g[at].change_num = 1 /\ g[at] \in Record
        <5>1. g \in Seq(Record)
          BY DEF TraceIInv
        <5> QED
          BY <3>7, <4>1, <5>1, ElementOfSeq DEF Plain
      <4>4. Mismatch(wb) <=> c # g[at].fir
        <5>1. g[at].fir \in Change
          BY <4>3 DEF Record
        <5>2. Mismatch(wb) <=> g[at].fir.pc # wb.pc \/ ~Same(g[at].fir, wb)
          BY <4>2, <4>3 DEF Mismatch
        <5>3. c = g[at].fir <=> g[at].fir.pc = wb.pc /\ Same(g[at].fir, wb)
          BY <5>1 DEF c, Same, Change
        <5> QED
          BY <5>2, <5>3
      <4>5. CASE Mismatch(wb)
        <5>1. phase' = "over"
          BY <2>1, <4>5 DEF TraceClock, trace_status
        <5>2. ~Going'
          BY <2>2, <3>1, <5>1 DEF Going
        <5>3. ~Agrees'
          <6>1. CASE n < Len(g)
            BY <6>1, <4>1, <4>4, <4>5, <2>2, <3>4, <3>5, <1>0 DEF Agrees, InStep
          <6>2. CASE n = Len(g)
            BY <6>2, <2>2, <3>4, <1>0 DEF Agrees
          <6> QED
            BY <6>1, <6>2, <4>1, <1>0 DEF InStep, Agrees
        <5> QED
          BY <5>2, <5>3 DEF EndedRightly
      <4>6. CASE ~Mismatch(wb)
        <5>1. n < Len(g) /\ at = n + 1
          <6>1. CASE n = Len(g)
            <7>1. g[at].fir = LastRecord /\ reg[LastRecord.wnum] = LastRecord.wdata
              BY <6>1, <4>1 DEF InStep, LastRecord
            <7>2. LastRecord = c
              BY <7>1, <4>4, <4>6
            <7> QED
              BY <7>1, <7>2, <2>6 DEF c
          <6> QED
            BY <6>1, <4>1, <1>0 DEF InStep, Agrees
        <5>2. Agrees'
          BY <5>1, <4>1, <4>4, <4>6, <2>2, <3>4, <3>5, <1>0 DEF Agrees, InStep
        <5>3. /\ at' = (IF at = Len(g) THEN at ELSE at + 1)
              /\ two_delay' => Pair(at')
          <6>1. ~two_delay /\ compare(wb, end_byte)
            BY <2>1, <4>1 DEF TraceClock, InStep
          <6> QED
            BY <6>1, <4>2, <4>6 DEF compare, update_once
        <5>4. ~two_delay'
          BY <5>3, <3>6, <3>7 DEF Plain, Pair
        <5>5. n + 1 < Len(g) => at' = (n + 1) + 1
          BY <5>1, <5>3, <1>0
        <5>6. n + 1 = Len(g) => at' = Len(g) /\ reg'[LastRecord.wnum] = LastRecord.wdata
          <6>1. SUFFICES ASSUME n + 1 = Len(g) PROVE at' = Len(g) /\ reg'[LastRecord.wnum] = LastRecord.wdata
            OBVIOUS
          <6>2. LastRecord = c
            BY <6>1, <5>1, <4>4, <4>6 DEF LastRecord
          <6>3. reg'[wb.wnum] = wb.wdata
            BY <2>1, <2>6 DEF TraceClock, compare, TraceIInv, WriteBack
          <6> QED
            BY <6>1, <6>2, <6>3, <5>1, <5>3 DEF c
        <5>7. LastRecord' = LastRecord
          BY <2>2 DEF LastRecord
        <5>8. InStep'
          BY <5>2, <5>4, <5>5, <5>6, <5>7, <2>2, <3>4 DEF InStep
        <5>9. EndedRightly'
          BY <2>1, <4>6, OtherReason DEF EndedRightly
        <5> QED
          BY <5>8, <5>9
      <4> QED
        BY <4>5, <4>6
    <3> QED
      BY <2>2, <2>3, <2>4, <3>1, <3>4, <3>6, <3>7 DEF TraceIInv
  <2> QED
    BY <2>5, <2>6
<1>2. CASE LoadImage \/ Reset \/ UNCHANGED vars
  <2>1. UNCHANGED <<traceVars, program, emask, changes, last>> /\ (phase = "over" => phase' = "over")
    BY <1>2 DEF LoadImage, Reset, vars, loop, design
  <2>2. /\ (Plain' <=> Plain) /\ (Agrees' <=> Agrees) /\ (EndedRightly' <=> EndedRightly)
        /\ (InStep' <=> InStep) /\ (Going' => Going)
    BY <2>1 DEF traceVars, pairing, Plain, Agrees, EndedRightly, InStep, LastRecord, Going
  <2> QED
    BY <2>1, <2>2 DEF TraceIInv, traceVars
<1>3. CASE Restart
  <2>1. UNCHANGED <<traceVars, program, changes, last>> /\ emask' = {} /\ program[1] = "memory"
    BY <1>3 DEF Restart, design
  <2>2. /\ (Plain' <=> Plain) /\ (Agrees' <=> Agrees) /\ (InStep' <=> InStep)
        /\ EndedRightly' /\ Going
    BY <2>1 DEF traceVars, pairing, Plain, Agrees, EndedRightly, InStep, LastRecord, Going
  <2> QED
    BY <2>1, <2>2 DEF TraceIInv, traceVars
<1> QED
  BY <1>1, <1>2, <1>3 DEF Next

LEMMA TraceIInvHolds == Spec => []TraceIInv
BY TraceInitIInv, TraceStepIInv, PTL DEF Spec

\* The simulation goes on only while the changes of registers are those of
\* the reference, and the comparison ends no other one, for any reference
\* of single changes and any core.
THEOREM TraceIsExact == Spec => []TraceExact
<1>1. TraceIInv => TraceExact
  BY DEF TraceIInv, TraceExact, Going, InStep, EndedRightly
<1> QED
  BY <1>1, TraceIInvHolds, PTL
=============================================================================
