---------------------------- MODULE CallsProofs ----------------------------
(***************************************************************************)
(* Proofs about the synchronous calls: the text splitter for texts,        *)
(* separators and configurations of any size, and the page walk for any    *)
(* number of items and any page size.                                      *)
(***************************************************************************)
EXTENDS Chunking, Pagination, FiniteSetTheorems, TLAPS

-----------------------------------------------------------------------------
(* The text splitter.                                                      *)

(* Nothing has happened before the call. *)
ChunkFresh ==
    splitting = "idle" => part = 1 /\ lo = 0 /\ hi = 0 /\ ink = {} /\ chunks = << >>

(* The text that shows is in a chunk already, or in the one being built; the
   blanks of the separator after the last part are behind all of it. *)
Kept ==
    /\ splitting # "done" => \A p \in ink : p > lo \/ \E k \in 1 .. Len(chunks) : p \in chunks[k]
    /\ \A p \in ink : p <= hi /\ p + job.sep.len <= hi + job.sep.ink

(* How long the chunk being built can be, with the separator after it. *)
CurrentBound ==
    \/ hi - lo <= job.size + job.sep.len
    \/ \E j \in 1 .. Len(job.parts) : hi - lo <= job.overlap + job.parts[j] + job.sep.len

ChunkInv == ChunkTypeOK /\ ChunkFresh /\ Kept /\ CurrentBound /\ ChunkBound /\ NothingLost

(* The sums the bounds come down to: L and I are the separator's length and
   the part of it that shows, n the length of a part. *)
LEMMA SumBound ==
    ASSUME NEW l \in Nat, NEW h \in Nat, NEW L \in Nat, NEW I \in Nat, NEW n \in Nat,
           NEW o \in Nat, NEW c \in Nat,
           c = 0 \/ c <= (h + I - L) - l, h - l <= o + n + L
    PROVE  c <= o + n + I
OBVIOUS

(* The length of the next piece: with the overlap kept, or without it. *)
LEMMA NextBound ==
    ASSUME NEW l \in Nat, NEW h \in Nat, NEW L \in Nat, NEW n \in Nat, NEW o \in Nat
    PROVE  /\ (h - l) + n <= o => (h + n + L) - l <= o + L
           /\ h - l <= o => (h + n + L) - l <= o + n + L
           /\ h + n + L \in Nat
           /\ h <= h + n + L
OBVIOUS

(* What shows lies before the blanks of the last separator, also after a
   part is added. *)
LEMMA InkBound ==
    ASSUME NEW h \in Nat, NEW L \in Nat, NEW I \in Nat, I <= L, NEW n \in Nat, NEW p \in Nat
    PROVE  /\ p <= h + n + I => p <= h + n + L /\ p + L <= (h + n + L) + I
           /\ p <= h /\ p + L <= h + I => p <= h + n + L /\ p + L <= (h + n + L) + I
OBVIOUS

(* What strip() leaves of the chunk being built: everything that shows, and
   not more than lies before the blanks of the last separator. *)
LEMMA StripFacts ==
    ASSUME ChunkTypeOK, Kept
    PROVE  /\ strip((lo + 1) .. hi) \in SUBSET Nat
           /\ \A p \in ink : p > lo => p \in strip((lo + 1) .. hi)
           /\ strip((lo + 1) .. hi) \subseteq (lo + 1) .. (hi + job.sep.ink - job.sep.len)
<1>1. strip((lo + 1) .. hi) \in SUBSET Nat
  BY DEF strip, ChunkTypeOK
<1>2. \A p \in ink : p > lo => p \in strip((lo + 1) .. hi)
  BY DEF strip, ChunkTypeOK, Kept
<1>3. ASSUME NEW p \in strip((lo + 1) .. hi)
      PROVE  p \in (lo + 1) .. (hi + job.sep.ink - job.sep.len)
  <2>1. p \in (lo + 1) .. hi
    BY DEF strip
  <2>2. PICK b \in ink : p <= b
    BY DEF strip
  <2>3. b + job.sep.len <= hi + job.sep.ink
    BY <2>2 DEF Kept
  <2> QED BY <2>1, <2>2, <2>3 DEF ChunkTypeOK
<1> QED BY <1>1, <1>2, <1>3

(* Closing the chunk keeps its bound and loses nothing. *)
LEMMA FlushFacts ==
    ASSUME ChunkTypeOK, Kept, CurrentBound, ChunkBound, splitting = "split"
    PROVE  /\ Flush \in Seq(SUBSET Nat)
           /\ \A p \in ink : \E k \in 1 .. Len(Flush) : p \in Flush[k]
           /\ \A k \in 1 .. Len(Flush) :
                \/ Cardinality(Flush[k]) <= job.size + job.sep.ink
                \/ \E j \in 1 .. Len(job.parts) :
                      Cardinality(Flush[k]) <= job.overlap + job.parts[j] + job.sep.ink
<1> DEFINE c == strip((lo + 1) .. hi)
           top == hi + job.sep.ink - job.sep.len
<1>1. c \in SUBSET Nat /\ c \subseteq (lo + 1) .. top /\ \A p \in ink : p > lo => p \in c
  BY StripFacts
<1> HIDE DEF c
<1>2. CASE hi > lo
  <2>1. Flush = Append(chunks, c) /\ Flush \in Seq(SUBSET Nat)
    BY <1>1, <1>2 DEF Flush, ChunkTypeOK, c
  <2>2. /\ Len(Flush) = Len(chunks) + 1
        /\ Flush[Len(chunks) + 1] = c
        /\ \A k \in 1 .. Len(chunks) : Flush[k] = chunks[k]
    BY <1>1, <2>1 DEF ChunkTypeOK
  <2>3. \A p \in ink : \E k \in 1 .. Len(Flush) : p \in Flush[k]
    <3> SUFFICES ASSUME NEW p \in ink
                 PROVE  \E k \in 1 .. Len(Flush) : p \in Flush[k]
      OBVIOUS
    <3>0. Len(chunks) \in Nat
      BY DEF ChunkTypeOK
    <3>1. CASE p > lo
      BY <1>1, <2>2, <3>0, <3>1
    <3>2. CASE \E k \in 1 .. Len(chunks) : p \in chunks[k]
      <4>1. PICK k \in 1 .. Len(chunks) : p \in chunks[k]
        BY <3>2
      <4>2. k \in 1 .. Len(Flush) /\ p \in Flush[k]
        BY <2>2, <3>0, <4>1
      <4> QED BY <4>2
    <3> QED BY <3>1, <3>2 DEF Kept
  <2>4. Cardinality(c) \in Nat /\ (Cardinality(c) = 0 \/ Cardinality(c) <= top - lo)
    <3>1. lo + 1 \in Int /\ top \in Int
      BY DEF ChunkTypeOK
    <3>2. /\ IsFiniteSet((lo + 1) .. top)
          /\ Cardinality((lo + 1) .. top) = IF lo + 1 > top THEN 0 ELSE top - (lo + 1) + 1
      BY <3>1, FS_Interval
    <3>3. IsFiniteSet(c) /\ Cardinality(c) <= Cardinality((lo + 1) .. top)
      BY <1>1, <3>2, FS_Subset
    <3>4. Cardinality(c) \in Nat
      BY <3>3, FS_CardinalityType
    <3> QED BY <3>2, <3>3, <3>4 DEF ChunkTypeOK
  <2>5. \/ Cardinality(c) <= job.size + job.sep.ink
        \/ \E j \in 1 .. Len(job.parts) :
              Cardinality(c) <= job.overlap + job.parts[j] + job.sep.ink
    <3>1. CASE hi - lo <= job.size + job.sep.len
      BY <2>4, <3>1 DEF ChunkTypeOK
    <3>2. CASE \E j \in 1 .. Len(job.parts) :
                  hi - lo <= job.overlap + job.parts[j] + job.sep.len
      <4>1. PICK j \in 1 .. Len(job.parts) :
                  hi - lo <= job.overlap + job.parts[j] + job.sep.len
        BY <3>2
      <4> DEFINE m == job.parts[j]  L == job.sep.len  I == job.sep.ink  o == job.overlap
      <4>2. m \in Nat /\ o \in Nat /\ L \in Nat /\ I \in Nat /\ lo \in Nat /\ hi \in Nat
        BY DEF ChunkTypeOK
      <4>3. /\ Cardinality(c) = 0 \/ Cardinality(c) <= (hi + I - L) - lo
            /\ hi - lo <= o + m + L
        BY <2>4, <4>1
      <4> HIDE DEF m, L, I, o
      <4>4. Cardinality(c) <= o + m + I
        BY <2>4, <4>2, <4>3, SumBound
      <4> QED BY <4>4 DEF m, I, o
    <3> QED BY <3>1, <3>2 DEF CurrentBound
  <2>6. ASSUME NEW k \in 1 .. Len(Flush)
        PROVE  \/ Cardinality(Flush[k]) <= job.size + job.sep.ink
               \/ \E j \in 1 .. Len(job.parts) :
                     Cardinality(Flush[k]) <= job.overlap + job.parts[j] + job.sep.ink
    <3>1. Len(chunks) \in Nat
      BY DEF ChunkTypeOK
    <3>2. CASE k = Len(chunks) + 1
      BY <2>2, <2>5, <3>2
    <3>3. CASE k \in 1 .. Len(chunks)
      BY <2>2, <3>3 DEF ChunkBound
    <3> QED BY <2>2, <3>1, <3>2, <3>3
  <2> QED BY <2>1, <2>3, <2>6
<1>3. CASE ~(hi > lo)
  <2>1. Flush = chunks
    BY <1>3 DEF Flush
  <2>2. \A p \in ink : ~(p > lo)
    BY <1>3 DEF Kept, ChunkTypeOK
  <2> QED BY <2>1, <2>2 DEF Kept, ChunkBound, ChunkTypeOK
<1> QED BY <1>2, <1>3

(* Before the first part there is nothing to bound or to keep. *)
LEMMA ChunkInitInv == ChunkInit => ChunkInv
BY DEF ChunkInit, ChunkInv, ChunkTypeOK, ChunkFresh, Kept, CurrentBound, ChunkBound, NothingLost, NoJob

(* The call begins: its arguments are those of the assumption. *)
LEMMA SplitInv ==
    ASSUME ChunkInv, splitting = "idle",
           NEW parts \in PartLists, NEW sep \in Separators,
           NEW size \in ChunkSizes, NEW overlap \in Overlaps,
           split(parts, sep, size, overlap)
    PROVE  ChunkInv'
<1>1. parts \in Seq(Nat) /\ sep \in [len : Nat, ink : Nat] /\ sep.ink <= sep.len
      /\ size \in Nat /\ overlap \in Nat
  BY ChunkAssumption
<1>2. part = 1 /\ lo = 0 /\ hi = 0 /\ ink = {} /\ chunks = << >>
  BY DEF ChunkInv, ChunkFresh
<1>3. ChunkTypeOK'
  BY <1>1, <1>2 DEF split, ChunkTypeOK
<1> QED
  BY <1>1, <1>2, <1>3
     DEF split, ChunkInv, ChunkFresh, Kept, CurrentBound, ChunkBound, NothingLost

(* One iteration of the loop. *)
LEMMA AddPartInv ==
    ASSUME ChunkInv, AddPart
    PROVE  ChunkInv'
<1> DEFINE n == job.parts[part]
<1>1. n \in Nat /\ part \in 1 .. Len(job.parts) /\ splitting = "split"
      /\ job' = job /\ splitting' = "split" /\ part' \in 1 .. (Len(job.parts) + 1)
  BY DEF ChunkInv, ChunkTypeOK, AddPart
<1>0. /\ lo \in Nat /\ hi \in Nat /\ lo <= hi /\ ink \in SUBSET Nat
      /\ job.sep.len \in Nat /\ job.sep.ink \in Nat /\ job.sep.ink <= job.sep.len
      /\ job.size \in Nat /\ job.overlap \in Nat
  BY DEF ChunkInv, ChunkTypeOK
<1>2. hi' = hi + n + job.sep.len /\ ink' = ink \cup ((hi + 1) .. (hi + n + job.sep.ink))
  BY DEF AddPart
<1>a. Fits => (hi - lo) + n <= job.size
  BY DEF Fits
<1>b. \A m \in Nat : m = n => \E j \in 1 .. Len(job.parts) : job.parts[j] = m
  BY <1>1
<1> HIDE DEF n
<1>3. /\ chunks' \in Seq(SUBSET Nat)
      /\ lo' \in Nat /\ lo <= lo' /\ lo' <= hi
      /\ CurrentBound'
      /\ ChunkBound'
      /\ \A p \in ink : p > lo' \/ \E k \in 1 .. Len(chunks') : p \in chunks'[k]
  <2>1. CASE Fits /\ UNCHANGED <<lo, chunks>>
    <3>0. (hi + n + job.sep.len) - lo <= job.size + job.sep.len
      BY <1>0, <1>1, <1>a, <2>1, NextBound
    <3>1. hi' - lo' <= job'.size + job'.sep.len
      BY <1>1, <1>2, <2>1, <3>0
    <3> QED BY <1>1, <2>1, <3>1 DEF ChunkInv, ChunkTypeOK, CurrentBound, ChunkBound, Kept
  <2>2. CASE ~Fits /\ chunks' = Flush
             /\ lo' = IF hi - lo <= job.overlap THEN lo ELSE hi - job.overlap
    <3>1. /\ chunks' \in Seq(SUBSET Nat) /\ ChunkBound'
          /\ \A p \in ink : \E k \in 1 .. Len(chunks') : p \in chunks'[k]
      BY <1>1, <2>2, FlushFacts DEF ChunkInv, ChunkBound
    <3>2. lo' \in Nat /\ lo <= lo' /\ lo' <= hi /\ hi - lo' <= job.overlap
      BY <1>0, <2>2
    <3>3. hi' - lo' <= job.overlap + n + job.sep.len
      <4>1. (hi + n + job.sep.len) - lo' <= job.overlap + n + job.sep.len
        BY <1>0, <1>1, <3>2, NextBound
      <4> QED BY <1>2, <4>1
    <3>4. CurrentBound'
      BY <1>1, <1>b, <3>3 DEF CurrentBound
    <3> QED BY <3>1, <3>2, <3>4
  <2> QED BY <2>1, <2>2 DEF AddPart
<1>4. hi' \in Nat /\ ink' \in SUBSET Nat /\ hi <= hi'
  <2>1. hi + n + job.sep.len \in Nat /\ hi <= hi + n + job.sep.len
    BY <1>0, <1>1, NextBound
  <2>2. (hi + 1) .. (hi + n + job.sep.ink) \subseteq Nat
    BY <1>0
  <2> QED BY <1>0, <1>2, <2>1, <2>2
<1>5. ChunkTypeOK'
  BY <1>1, <1>3, <1>4 DEF ChunkInv, ChunkTypeOK
<1>6. Kept'
  <2>1. ASSUME NEW p \in ink'
        PROVE  p > lo' \/ \E k \in 1 .. Len(chunks') : p \in chunks'[k]
    <3>1. CASE p \in ink
      BY <1>3, <3>1
    <3>2. CASE p \in (hi + 1) .. (hi + n + job.sep.ink)
      BY <1>1, <1>3, <3>2 DEF ChunkInv, ChunkTypeOK
    <3> QED BY <1>2, <3>1, <3>2
  <2>2. ASSUME NEW p \in ink'
        PROVE  p <= hi' /\ p + job.sep.len <= hi' + job.sep.ink
    <3>1. CASE p \in ink
      <4>1. p <= hi /\ p + job.sep.len <= hi + job.sep.ink
        BY <3>1 DEF ChunkInv, Kept
      <4>2. p <= hi + n + job.sep.len
            /\ p + job.sep.len <= (hi + n + job.sep.len) + job.sep.ink
        BY <1>0, <1>1, <3>1, <4>1, InkBound
      <4> QED BY <1>2, <4>2
    <3>2. CASE p \in (hi + 1) .. (hi + n + job.sep.ink)
      <4>1. p \in Nat /\ p <= hi + n + job.sep.ink
        BY <1>0, <3>2
      <4>2. p <= hi + n + job.sep.len
            /\ p + job.sep.len <= (hi + n + job.sep.len) + job.sep.ink
        BY <1>0, <1>1, <4>1, InkBound
      <4> QED BY <1>2, <4>2
    <3> QED BY <1>2, <3>1, <3>2
  <2> QED BY <1>1, <2>1, <2>2 DEF Kept
<1> QED BY <1>1, <1>3, <1>5, <1>6 DEF ChunkInv, ChunkFresh, NothingLost

(* The last chunk. *)
LEMMA FinishInv ==
    ASSUME ChunkInv, FinishSplit
    PROVE  ChunkInv'
<1>1. /\ splitting = "split" /\ splitting' = "done" /\ chunks' = Flush
      /\ UNCHANGED <<job, part, lo, hi, ink>>
  BY DEF FinishSplit
<1>2. /\ chunks' \in Seq(SUBSET Nat)
      /\ ChunkBound'
      /\ \A p \in ink : \E k \in 1 .. Len(chunks') : p \in chunks'[k]
  BY <1>1, FlushFacts DEF ChunkInv, ChunkBound
<1>3. ChunkTypeOK'
  BY <1>1, <1>2 DEF ChunkInv, ChunkTypeOK
<1>4. Kept' /\ CurrentBound'
  BY <1>1 DEF ChunkInv, Kept, CurrentBound
<1> QED BY <1>1, <1>2, <1>3, <1>4 DEF ChunkInv, ChunkFresh, NothingLost

(* The splitter keeps its invariant. *)
THEOREM ChunkInvariant == ChunkSpec => []ChunkInv
<1>1. ASSUME ChunkInv, [ChunkNext]_chunkVars
      PROVE  ChunkInv'
  <2>1. CASE splitting = "idle" /\ \E parts \in PartLists, sep \in Separators,
                  size \in ChunkSizes, overlap \in Overlaps : split(parts, sep, size, overlap)
    BY <1>1, <2>1, SplitInv
  <2>2. CASE AddPart
    BY <1>1, <2>2, AddPartInv
  <2>3. CASE FinishSplit
    BY <1>1, <2>3, FinishInv
  <2>4. CASE UNCHANGED chunkVars
    BY <1>1, <2>4 DEF chunkVars, ChunkInv, ChunkTypeOK, ChunkFresh, Kept, CurrentBound,
                      ChunkBound, NothingLost
  <2> QED BY <1>1, <2>1, <2>2, <2>3, <2>4 DEF ChunkNext
<1> QED BY <1>1, ChunkInitInv, PTL DEF ChunkSpec

(* For texts, separators, chunk sizes and overlaps of any size: a chunk is
   longer than chunk_size, by more than what is left of one separator, only
   where one part with the overlap before it is. *)
THEOREM ChunksAreBounded == ChunkSpec => []ChunkBound
BY ChunkInvariant, PTL DEF ChunkInv

(* The splitter returns every character of the text that is not a blank of a
   separator. *)
THEOREM NoTextIsLost == ChunkSpec => []NothingLost
BY ChunkInvariant, PTL DEF ChunkInv

-----------------------------------------------------------------------------
(* The page walk.                                                          *)

(* After page - 1 pages the client has exactly the items before the offset. *)
PageInv ==
    /\ PageTypeOK
    /\ walk = "idle" => page = 1 /\ got = {}
    /\ walk = "ask" => got = {n \in 1 .. total : n <= offset}
    /\ PagesPartition

(* What rounding up means. *)
LEMMA DivUp ==
    ASSUME NEW t \in Nat \ {0}, NEW s \in Nat \ {0}, NEW p \in Nat \ {0}
    PROVE  p < (t + s - 1) \div s <=> p * s < t
<1> DEFINE q == (t + s - 1) \div s
<1>1. q \in Int /\ q * s <= t + s - 1 /\ t + s - 1 < q * s + s
  OBVIOUS
<1> HIDE DEF q
<1>2. ASSUME p < q PROVE p * s < t
  <2>1. (p + 1) * s <= q * s
    BY <1>1, <1>2
  <2>2. (p + 1) * s = p * s + s
    OBVIOUS
  <2> QED BY <1>1, <2>1, <2>2
<1>3. ASSUME ~(p < q) PROVE ~(p * s < t)
  <2>1. q * s <= p * s
    BY <1>1, <1>3
  <2> QED BY <1>1, <2>1
<1> QED BY <1>2, <1>3 DEF q

(* has_next says whether items are left behind this page. *)
LEMMA HasNext ==
    ASSUME PageTypeOK
    PROVE  has_next <=> page * page_size < total
<1>1. CASE total > 0
  BY <1>1, DivUp DEF PageTypeOK, has_next, pages
<1>2. CASE total = 0
  <2>1. page * page_size >= 0
    BY DEF PageTypeOK
  <2> QED BY <1>2, <2>1 DEF PageTypeOK, has_next, pages
<1> QED BY <1>1, <1>2 DEF PageTypeOK

(* One page: the rows after the offset are new. *)
LEMMA GetPageInv ==
    ASSUME PageInv, GetPage
    PROVE  PageInv'
<1> DEFINE o == offset  e == page * page_size
<1>1. page \in Nat \ {0} /\ page_size \in Nat \ {0} /\ total \in Nat
  BY DEF PageInv, PageTypeOK
<1>2. o \in Int /\ e \in Int /\ e = o + page_size
  <2>1. (page - 1) * page_size = page * page_size - page_size
    BY <1>1
  <2> QED BY <1>1, <2>1 DEF offset
<1>3. Rows = {n \in 1 .. total : o < n /\ n <= e}
  BY <1>1, <1>2 DEF Rows, limit
<1>4. got = {n \in 1 .. total : n <= o} /\ ~repeated
  BY DEF PageInv, GetPage, PagesPartition
<1>5. has_next <=> e < total
  BY HasNext DEF PageInv
<1> HIDE DEF o, e
<1>6. got' = {n \in 1 .. total : n <= e} /\ ~repeated'
  <2>1. got \cap Rows = {}
    BY <1>1, <1>2, <1>3, <1>4
  <2>2. got \cup Rows = {n \in 1 .. total : n <= e}
    BY <1>1, <1>2, <1>3, <1>4
  <2> QED BY <1>4, <2>1, <2>2 DEF GetPage
<1>7. total' = total /\ page_size' = page_size
  BY DEF GetPage
<1>b. repeated' \in BOOLEAN
  BY DEF GetPage
<1>8. CASE has_next /\ page' = page + 1 /\ UNCHANGED walk
  <2>1. offset' = e
    BY <1>1, <1>7, <1>8 DEF offset, e
  <2>2. walk' = "ask"
    BY <1>8 DEF GetPage
  <2>3. PageTypeOK'
    <3>1. page' \in Nat \ {0} /\ got' \in SUBSET (1 .. total')
      BY <1>1, <1>6, <1>7, <1>8
    <3> QED BY <1>1, <1>7, <1>b, <2>2, <3>1, Zenon DEF PageTypeOK
  <2> QED BY <1>6, <1>7, <2>1, <2>2, <2>3 DEF PageInv, PagesPartition
<1>9. CASE ~has_next /\ walk' = "done" /\ UNCHANGED page
  <2>1. got' = 1 .. total
    BY <1>1, <1>2, <1>5, <1>6, <1>9
  <2>2. PageTypeOK'
    <3>1. page' \in Nat \ {0} /\ got' \in SUBSET (1 .. total')
      BY <1>1, <1>7, <1>9, <2>1
    <3> QED BY <1>1, <1>7, <1>9, <1>b, <3>1, Zenon DEF PageTypeOK
  <2> QED BY <1>6, <1>7, <1>9, <2>1, <2>2 DEF PageInv, PagesPartition
<1> QED BY <1>8, <1>9 DEF GetPage

(* A client that follows has_next gets every item once, for any number of
   items and any page size. *)
THEOREM PagesArePartition == PageSpec => []PagesPartition
<1>1. PageInit => PageInv
  <2> SUFFICES ASSUME PageInit PROVE PageInv
    OBVIOUS
  <2>1. /\ total \in Nat /\ page_size \in Nat \ {0} /\ page \in Nat \ {0}
        /\ got \in SUBSET (1 .. total)
    BY DEF PageInit
  <2>2. walk \in {"idle", "ask", "done"} /\ repeated \in BOOLEAN
        /\ walk = "idle" /\ ~repeated /\ page = 1 /\ got = {}
    BY Zenon DEF PageInit
  <2>3. walk # "ask" /\ walk # "done"
    BY <2>2
  <2> QED BY <2>1, <2>2, <2>3, Zenon DEF PageInv, PageTypeOK, PagesPartition
<1>2. ASSUME PageInv, NEW n \in Totals, NEW size \in PageSizes, StartWalk(n, size)
      PROVE  PageInv'
  <2>1. n \in Nat /\ size \in Nat \ {0}
    BY PageAssumption
  <2>2. page' = 1 /\ got' = {} /\ walk' = "ask" /\ repeated' = repeated
        /\ total' = n /\ page_size' = size
    BY <1>2 DEF PageInv, StartWalk
  <2>3. PageTypeOK'
    BY <1>2, <2>1, <2>2 DEF PageInv, PageTypeOK
  <2>4. offset' = 0
    BY <2>1, <2>2 DEF offset
  <2>5. \A i \in 1 .. n : ~(i <= 0)
    BY <2>1
  <2> QED BY <1>2, <2>2, <2>3, <2>4, <2>5 DEF PageInv, PagesPartition
<1>3. ASSUME PageInv, [PageNext]_pageVars
      PROVE  PageInv'
  <2>1. CASE \E n \in Totals, size \in PageSizes : StartWalk(n, size)
    BY <1>2, <1>3, <2>1
  <2>2. CASE GetPage
    BY <1>3, <2>2, GetPageInv
  <2>3. CASE UNCHANGED pageVars
    BY <1>3, <2>3 DEF pageVars, PageInv, PageTypeOK, PagesPartition, offset
  <2> QED BY <1>3, <2>1, <2>2, <2>3 DEF PageNext
<1>4. PageInv => PagesPartition
  BY DEF PageInv
<1> QED BY <1>1, <1>3, <1>4, PTL DEF PageSpec
=============================================================================
