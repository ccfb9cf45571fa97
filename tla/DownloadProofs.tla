--------------------------- MODULE DownloadProofs ---------------------------
(***************************************************************************)
(* Proofs about the download command, for any companies, orders, runs and  *)
(* interruptions.                                                          *)
(***************************************************************************)
EXTENDS Download, FiniteSetTheorems, SequenceTheorems, TLAPS

\* The file that is written is not there before, and the sidecar is the second.
InvWriting ==
  /\ pc \in {"html", "json"} => queue # <<>>
  /\ pc = "html" => html[Head(queue)] = "absent"
  /\ pc = "json" => /\ html[Head(queue)] = "whole"
                   /\ sidecar[Head(queue)] = "absent"
                   /\ Head(queue) \notin cut

\* What the run was asked for is seen to, or in the queue, or the ticker is still
\* to be looked up; the queue is of one ticker.
InvProgress ==
  /\ pc \in {"idle", "lookup", "done"} => queue = <<>>
  /\ pc = "done" => tickers = <<>>
  /\ pc # "idle" =>
       \A t \in ToSet(order.tickers) :
         \/ t \in ToSet(tickers)
         \/ \A out \in ToSet(Newest(t, order.years)) :
              Whole(out) \/ out \in cut \/ out \in ToSet(queue)

IInv ==
  /\ TypeOK
  /\ InvWriting
  /\ PairedUnlessCut
  /\ InvProgress

-----------------------------------------------------------------------------
(***************************************************************************)
(* Filings in order: each of those kept has a rank of its own, so that     *)
(* every rank is taken.                                                    *)
(***************************************************************************)

LEMMA RanksAreTaken ==
  ASSUME NEW S, NEW s \in Seq(S), \A i \in DOMAIN s : s[i].date \in Nat,
         NEW kept \in SUBSET DOMAIN s
  PROVE  /\ Cardinality(kept) \in Nat
         /\ \A n \in 1 .. Cardinality(kept) :
              \E i \in kept : Cardinality({ j \in kept : Before(s, j, i) }) = n - 1
<1> DEFINE N        == Cardinality(kept)
           Above(i) == { j \in kept : Before(s, j, i) }
           rank     == [i \in kept |-> Cardinality(Above(i)) + 1]
<1>1. IsFiniteSet(kept) /\ N \in Nat /\ kept \subseteq Nat
  <2>1. Len(s) \in Nat /\ DOMAIN s = 1 .. Len(s)
    OBVIOUS
  <2>2. IsFiniteSet(1 .. Len(s))
    BY <2>1, FS_Interval
  <2>3. IsFiniteSet(kept)
    BY <2>1, <2>2, FS_Subset
  <2> QED
    BY <2>1, <2>3, FS_CardinalityType
<1>2. \A i \in kept : s[i].date \in Nat
  OBVIOUS
<1>3. \A i \in kept : /\ IsFiniteSet(Above(i))
                      /\ Cardinality(Above(i)) \in Nat
                      /\ Cardinality(Above(i)) < N
  <2> SUFFICES ASSUME NEW i \in kept
               PROVE  /\ IsFiniteSet(Above(i))
                      /\ Cardinality(Above(i)) \in Nat
                      /\ Cardinality(Above(i)) < N
    OBVIOUS
  <2>1. Above(i) \in SUBSET kept /\ i \notin Above(i)
    BY <1>1, <1>2 DEF Before
  <2> HIDE DEF Above
  <2>2. /\ IsFiniteSet(Above(i))
        /\ Cardinality(Above(i)) <= N
        /\ Cardinality(Above(i)) # N
    BY <1>1, <2>1, FS_Subset
  <2>3. Cardinality(Above(i)) \in Nat
    BY <2>2, FS_CardinalityType
  <2> QED
    BY <1>1, <2>2, <2>3
<1>4. ASSUME NEW i \in kept, NEW j \in kept, Before(s, i, j)
      PROVE  Cardinality(Above(i)) < Cardinality(Above(j))
  <2>1. Above(i) \in SUBSET Above(j) /\ i \in Above(j) /\ i \notin Above(i)
    BY <1>1, <1>2, <1>4 DEF Before
  <2> HIDE DEF Above
  <2>2. /\ Cardinality(Above(i)) <= Cardinality(Above(j))
        /\ Cardinality(Above(i)) # Cardinality(Above(j))
    BY <1>3, <2>1, FS_Subset
  <2> QED
    BY <1>3, <2>2
<1>5. \A i, j \in kept : i # j => Before(s, i, j) \/ Before(s, j, i)
  BY <1>1, <1>2 DEF Before
<1> HIDE DEF Above
<1>6. rank \in [kept -> 1 .. N]
  BY <1>1, <1>3
<1>7. \A i, j \in kept : rank[i] = rank[j] => i = j
  <2> SUFFICES ASSUME NEW i \in kept, NEW j \in kept, i # j PROVE rank[i] # rank[j]
    OBVIOUS
  <2>1. Cardinality(Above(i)) \in Nat /\ Cardinality(Above(j)) \in Nat
    BY <1>3
  <2>2. Cardinality(Above(i)) # Cardinality(Above(j))
    BY <1>4, <1>5, <2>1
  <2> QED
    BY <2>1, <2>2
<1>8. rank \in Injection(kept, 1 .. N)
  <2> HIDE DEF rank, N
  <2> QED
    BY <1>6, <1>7 DEF Injection, IsInjective
<1>9. IsFiniteSet(1 .. N) /\ Cardinality(1 .. N) = N
  <2>1. N \in Int /\ 1 \in Int
    BY <1>1
  <2>2. IsFiniteSet(1 .. N) /\ Cardinality(1 .. N) = IF 1 > N THEN 0 ELSE N - 1 + 1
    BY <2>1, FS_Interval
  <2>3. Cardinality(1 .. N) = N
    BY <1>1, <2>2
  <2> QED
    BY <2>2, <2>3
<1>10. rank \in Surjection(kept, 1 .. N)
  <2> HIDE DEF rank
  <2> QED
    BY <1>8, <1>9, FS_Injection
<1>11. \A n \in 1 .. N : \E i \in kept : rank[i] = n
  <2> HIDE DEF rank, N
  <2> QED
    BY <1>10 DEF Surjection
<1>12. \A i \in kept : rank[i] - 1 = Cardinality(Above(i))
  BY <1>3
<1> HIDE DEF rank, N
<1>13. \A n \in 1 .. N : \E i \in kept : Cardinality(Above(i)) = n - 1
  BY <1>11, <1>12
<1> QED
  BY <1>1, <1>13 DEF N, Above

\* [:years] of the 10-Ks of a company, whatever the number, are filings of it.
LEMMA NewestFilings ==
  ASSUME NEW t \in DOMAIN Submissions, NEW years \in Int
  PROVE  Newest(t, years) \in Seq(Out)
<1> DEFINE s    == Submissions[t]
           kept == { i \in DOMAIN s : s[i].form = "10-K" }
           N    == Cardinality(kept)
           Chosen(n) == CHOOSE i \in kept : Cardinality({ j \in kept : Before(s, j, i) }) = n - 1
           filings == parse_10k_filings(s)
<1>1. /\ s \in Seq(ToSet(s))
      /\ \A i \in DOMAIN s : s[i].date \in Nat /\ <<t, s[i].id>> \in Out
  <2>1. s \in Seq(ToSet(s)) /\ \A f \in ToSet(s) : f.date \in Nat
    BY DownloadAssumption DEF DownloadAssumption
  <2>2. \A i \in DOMAIN s : s[i] \in ToSet(s)
    BY DEF ToSet
  <2>3. \A f \in ToSet(s) : <<t, f.id>> \in Out
    BY DEF Out
  <2> QED
    BY <2>1, <2>2, <2>3
<1>2. N \in Nat /\ \A n \in 1 .. N : \E i \in kept : Cardinality({ j \in kept : Before(s, j, i) }) = n - 1
  <2>1. kept \in SUBSET DOMAIN s
    OBVIOUS
  <2> HIDE DEF s, kept
  <2> QED
    BY <1>1, <2>1, RanksAreTaken
<1>3. \A n \in 1 .. N : Chosen(n) \in kept
  <2> HIDE DEF kept, s
  <2> QED
    BY <1>2
<1>4. filings = [n \in 1 .. N |-> s[Chosen(n)]]
  BY DEF parse_10k_filings
<1>5. Len(filings) = N
  <2> HIDE DEF N, Chosen, s, filings
  <2> QED
    BY <1>2, <1>4
<1> DEFINE end == IF years < 0 THEN N + years ELSE years
           M   == IF end < N THEN end ELSE N
           L   == IF M < 0 THEN 0 ELSE M
<1>6. M \in Int /\ L \in Nat /\ L <= N /\ 1 .. M = 1 .. L
  <2> HIDE DEF N
  <2> QED
    BY <1>2
<1>7. Newest(t, years) = [n \in 1 .. M |-> <<t, filings[n].id>>]
  <2> HIDE DEF filings, N
  <2> QED
    BY <1>5 DEF Newest, filings, s
<1>8. \A n \in 1 .. L : <<t, filings[n].id>> \in Out
  <2> SUFFICES ASSUME NEW n \in 1 .. L PROVE <<t, filings[n].id>> \in Out
    OBVIOUS
  <2> HIDE DEF N, L, filings, Chosen
  <2>1. n \in 1 .. N
    BY <1>2, <1>6
  <2>2. filings[n] = s[Chosen(n)]
    BY <1>4, <2>1
  <2>3. Chosen(n) \in DOMAIN s
    BY <1>3, <2>1
  <2> QED
    BY <1>1, <2>2, <2>3
<1> HIDE DEF filings, M, L
<1> QED
  BY <1>6, <1>7, <1>8

\* The elements of a sequence are its head and those of its tail.
LEMMA ElementsSplit ==
  ASSUME NEW S, NEW s \in Seq(S), s # <<>>, NEW x \in ToSet(s)
  PROVE  x = Head(s) \/ x \in ToSet(Tail(s))
<1>1. PICK i \in 1 .. Len(s) : x = s[i]
  BY DEF ToSet
<1>2. CASE i = 1
  BY <1>1, <1>2
<1>3. CASE i # 1
  <2>1. /\ i - 1 \in 1 .. Len(Tail(s))
        /\ Tail(s)[i - 1] = s[i]
    BY <1>1, <1>3, HeadTailProperties
  <2>2. DOMAIN Tail(s) = 1 .. Len(Tail(s))
    BY HeadTailProperties
  <2> QED
    BY <1>1, <2>1, <2>2 DEF ToSet
<1> QED
  BY <1>2, <1>3

LEMMA NoElements == ToSet(<<>>) = {}
BY DEF ToSet

-----------------------------------------------------------------------------
(***************************************************************************)
(* IInv is an inductive invariant.                                         *)
(***************************************************************************)

LEMMA InitEstablishes == Init => IInv
BY DownloadAssumption DEF DownloadAssumption, Init, IInv, TypeOK, File, InvWriting, PairedUnlessCut, InvProgress

\* Steps that write no file and leave the one being written alone.
LEMMA OthersPreserve ==
  ASSUME IInv, Start \/ LookUp \/ Finish \/ NextCompany \/ Skip \/ Receive \/ Fails
  PROVE  TypeOK' /\ InvWriting' /\ PairedUnlessCut'
<1>1. UNCHANGED <<html, sidecar, cut>> /\ pc \notin {"html", "json"}
  BY DEF Start, LookUp, Finish, NextCompany, Skip, Receive, Fails, files
<1>2. PairedUnlessCut'
  BY <1>1 DEF IInv, PairedUnlessCut, Whole
<1>3. CASE Start
  <2>1. runs' \in 0 .. MaxRuns
    BY <1>3, DownloadAssumption DEF DownloadAssumption, Start, IInv, TypeOK
  <2>2. tickers' \in Seq(DOMAIN Submissions)
    BY <1>3, DownloadAssumption DEF DownloadAssumption, Start
  <2> QED
    BY <1>1, <1>2, <1>3, <2>1, <2>2 DEF Start, IInv, TypeOK, InvWriting
<1>4. CASE LookUp
  <2>1. order.years \in Int
    BY DownloadAssumption DEF DownloadAssumption, IInv, TypeOK
  <2>2. Head(tickers) \in DOMAIN Submissions /\ Tail(tickers) \in Seq(DOMAIN Submissions)
    BY <1>4, HeadTailProperties DEF LookUp, IInv, TypeOK
  <2>3. queue' \in Seq(Out)
    BY <1>4, <2>1, <2>2, NewestFilings DEF LookUp
  <2> QED
    BY <1>1, <1>2, <1>4, <2>2, <2>3 DEF LookUp, IInv, TypeOK, InvWriting
<1>5. CASE Finish \/ NextCompany
  BY <1>1, <1>2, <1>5 DEF Finish, NextCompany, IInv, TypeOK, InvWriting
<1>6. CASE Skip
  <2>1. Tail(queue) \in Seq(Out)
    BY <1>6, HeadTailProperties DEF Skip, IInv, TypeOK
  <2> QED
    BY <1>1, <1>2, <1>6, <2>1 DEF Skip, IInv, TypeOK, InvWriting
<1>7. CASE Receive
  <2>1. Head(queue) \in Out
    BY <1>7, HeadTailProperties DEF Receive, IInv, TypeOK
  <2>2. received' \in [Out -> Nat]
    BY <1>7, <2>1 DEF Receive, IInv, TypeOK
  <2> QED
    BY <1>1, <1>2, <1>7, <2>2 DEF Receive, Exists, IInv, TypeOK, InvWriting
<1>8. CASE Fails
  BY <1>1, <1>2, <1>8 DEF Fails, Stop, IInv, TypeOK, InvWriting
<1> QED
  BY <1>3, <1>4, <1>5, <1>6, <1>7, <1>8

\* Steps that write the html file, or its beginning.
LEMMA HtmlPreserves ==
  ASSUME IInv, WriteHtml \/ FailsInHtml
  PROVE  TypeOK' /\ InvWriting' /\ PairedUnlessCut'
<1> DEFINE f == Head(queue)
<1>1. /\ pc = "html" /\ queue # <<>> /\ html[f] = "absent"
      /\ UNCHANGED <<sidecar, order, runs, received>>
  BY DEF WriteHtml, FailsInHtml, Stop, IInv, InvWriting
<1>2. f \in Out
  BY <1>1, HeadTailProperties DEF IInv, TypeOK
<1> HIDE DEF f
<1>3. f \notin cut /\ sidecar[f] = "absent"
  BY <1>1, <1>2 DEF IInv, PairedUnlessCut, Whole
<1>4. CASE WriteHtml
  <2>1. html' = [html EXCEPT ![f] = "whole"] /\ pc' = "json" /\ UNCHANGED <<tickers, queue, cut>>
    BY <1>4 DEF WriteHtml, f
  <2>2. TypeOK'
    BY <1>1, <2>1 DEF IInv, TypeOK, File
  <2>3. InvWriting'
    BY <1>3, <1>1, <1>2, <2>1 DEF IInv, TypeOK, InvWriting, f
  <2>4. PairedUnlessCut'
    BY <1>1, <1>2, <2>1 DEF IInv, TypeOK, PairedUnlessCut, Whole, f
  <2> QED
    BY <2>2, <2>3, <2>4
<1>5. CASE FailsInHtml
  <2>1. /\ pc' = "idle" /\ tickers' = <<>> /\ queue' = <<>>
        /\ \/ UNCHANGED <<html, cut>>
           \/ html' = [html EXCEPT ![f] = "torn"] /\ cut' = cut \cup {f}
    BY <1>5 DEF FailsInHtml, Stop, f
  <2>2. TypeOK'
    BY <1>1, <1>2, <2>1 DEF IInv, TypeOK, File
  <2>3. InvWriting'
    BY <2>1 DEF InvWriting
  <2>4. PairedUnlessCut'
    BY <1>1, <1>2, <2>1 DEF IInv, TypeOK, PairedUnlessCut, Whole
  <2> QED
    BY <2>2, <2>3, <2>4
<1> QED
  BY <1>4, <1>5

\* Steps that write the sidecar, or its beginning, or end before.
LEMMA SidecarPreserves ==
  ASSUME IInv, WriteSidecar \/ FailsInSidecar
  PROVE  TypeOK' /\ InvWriting' /\ PairedUnlessCut'
<1> DEFINE f == Head(queue)
<1>1. /\ pc = "json" /\ queue # <<>> /\ html[f] = "whole" /\ sidecar[f] = "absent" /\ f \notin cut
      /\ UNCHANGED <<html, order, runs, received>>
  BY DEF WriteSidecar, FailsInSidecar, Stop, IInv, InvWriting
<1>2. f \in Out /\ Tail(queue) \in Seq(Out)
  BY <1>1, HeadTailProperties DEF IInv, TypeOK
<1> HIDE DEF f
<1>3. CASE WriteSidecar
  <2>1. /\ sidecar' = [sidecar EXCEPT ![f] = "whole"] /\ pc' = "next" /\ queue' = Tail(queue)
        /\ UNCHANGED <<tickers, cut>>
    BY <1>3 DEF WriteSidecar, f
  <2>2. TypeOK'
    BY <1>1, <1>2, <2>1 DEF IInv, TypeOK, File
  <2>3. InvWriting'
    BY <2>1 DEF InvWriting
  <2>4. PairedUnlessCut'
    BY <1>1, <1>2, <2>1 DEF IInv, TypeOK, PairedUnlessCut, Whole
  <2> QED
    BY <2>2, <2>3, <2>4
<1>4. CASE FailsInSidecar
  <2>1. /\ pc' = "idle" /\ tickers' = <<>> /\ queue' = <<>> /\ cut' = cut \cup {f}
        /\ sidecar' = sidecar \/ sidecar' = [sidecar EXCEPT ![f] = "torn"]
    BY <1>4 DEF FailsInSidecar, Stop, f
  <2>2. TypeOK'
    BY <1>1, <1>2, <2>1 DEF IInv, TypeOK, File
  <2>3. InvWriting'
    BY <2>1 DEF InvWriting
  <2>4. PairedUnlessCut'
    BY <1>1, <1>2, <2>1 DEF IInv, TypeOK, PairedUnlessCut, Whole
  <2> QED
    BY <2>2, <2>3, <2>4
<1> QED
  BY <1>3, <1>4

\* What has been seen to stays so.
LEMMA SeenStays ==
  ASSUME IInv, Next, NEW out \in Out, Whole(out) \/ out \in cut
  PROVE  (Whole(out) \/ out \in cut)'
<1>1. CASE UNCHANGED <<html, sidecar, cut>>
  BY <1>1 DEF Whole
<1>2. CASE WriteHtml \/ FailsInHtml
  <2>1. html[Head(queue)] = "absent" /\ sidecar' = sidecar /\ cut \subseteq cut'
    BY <1>2 DEF WriteHtml, FailsInHtml, IInv, InvWriting
  <2>2. \/ html' = html
        \/ \E content \in File : html' = [html EXCEPT ![Head(queue)] = content]
    BY <1>2 DEF WriteHtml, FailsInHtml, File
  <2> QED
    BY <2>1, <2>2 DEF IInv, TypeOK, Whole
<1>3. CASE WriteSidecar \/ FailsInSidecar
  <2>1. sidecar[Head(queue)] = "absent" /\ html' = html /\ cut \subseteq cut'
    BY <1>3 DEF WriteSidecar, FailsInSidecar, IInv, InvWriting
  <2>2. \/ sidecar' = sidecar
        \/ \E content \in File : sidecar' = [sidecar EXCEPT ![Head(queue)] = content]
    BY <1>3 DEF WriteSidecar, FailsInSidecar, File
  <2> QED
    BY <2>1, <2>2 DEF IInv, TypeOK, Whole
<1>4. UNCHANGED <<html, sidecar, cut>> \/ WriteHtml \/ FailsInHtml \/ WriteSidecar \/ FailsInSidecar
  BY DEF Next, files, Start, LookUp, Finish, NextCompany, Skip, Receive, Fails
<1> QED
  BY <1>1, <1>2, <1>3, <1>4

\* What a run was asked for is not lost on the way through its queue.
LEMMA ProgressPreserved ==
  ASSUME IInv, Next
  PROVE  InvProgress'
<1> DEFINE Seen(out)  == Whole(out) \/ out \in cut
           Asked(t)   == ToSet(Newest(t, order.years))
           Covered(t) == \/ t \in ToSet(tickers)
                         \/ \A out \in Asked(t) : Seen(out) \/ out \in ToSet(queue)
<1>1. \A out \in Out : Seen(out) => Seen(out)'
  BY SeenStays
<1>2. \A t \in ToSet(order.tickers) : Asked(t) \subseteq Out
  <2> SUFFICES ASSUME NEW t \in ToSet(order.tickers) PROVE Asked(t) \subseteq Out
    OBVIOUS
  <2>1. order.tickers \in Seq(DOMAIN Submissions) /\ order.years \in Int
    BY DownloadAssumption DEF DownloadAssumption, IInv, TypeOK
  <2>2. t \in DOMAIN Submissions
    BY <2>1 DEF ToSet
  <2>3. Newest(t, order.years) \in Seq(Out)
    BY <2>1, <2>2, NewestFilings
  <2> QED
    BY <2>3 DEF ToSet
<1>3. CASE Start
  BY <1>3 DEF Start, IInv, InvProgress
<1>4. CASE LookUp
  <2>1. /\ pc' = "next" /\ order' = order
        /\ queue = <<>> /\ queue' = Newest(Head(tickers), order.years)
        /\ tickers # <<>> /\ tickers' = Tail(tickers)
        /\ \A t \in ToSet(order.tickers) : Covered(t)
    BY <1>4 DEF LookUp, IInv, InvProgress
  <2>2. \A t \in ToSet(order.tickers) : Covered(t)'
    <3> SUFFICES ASSUME NEW t \in ToSet(order.tickers) PROVE Covered(t)'
      OBVIOUS
    <3>1. CASE t \in ToSet(tickers)
      <4>1. t = Head(tickers) \/ t \in ToSet(tickers')
        BY <2>1, <3>1, ElementsSplit DEF IInv, TypeOK
      <4> QED
        BY <2>1, <4>1
    <3>2. CASE t \notin ToSet(tickers)
      <4>1. \A out \in Asked(t) : Seen(out)
        BY <2>1, <3>2, NoElements
      <4> QED
        BY <1>1, <1>2, <2>1, <4>1
    <3> QED
      BY <3>1, <3>2
  <2> QED
    BY <2>1, <2>2 DEF InvProgress
<1>5. CASE Finish \/ NextCompany
  <2>1. UNCHANGED <<html, sidecar, cut, order, tickers, queue>> /\ queue = <<>>
    BY <1>5 DEF Finish, NextCompany, files, IInv, InvProgress
  <2> QED
    BY <1>5, <2>1 DEF Finish, NextCompany, IInv, InvProgress, Whole
<1>6. CASE Skip \/ WriteSidecar
  <2>1. /\ pc # "idle" /\ pc' = "next" /\ UNCHANGED <<order, tickers>>
        /\ queue # <<>> /\ queue' = Tail(queue)
    BY <1>6 DEF Skip, WriteSidecar, IInv, InvWriting
  <2>2. PICK h \in Out : h = Head(queue)
    BY <2>1, HeadTailProperties DEF IInv, TypeOK
  <2>3. Seen(h)'
    <3>1. CASE Skip
      <4>1. Whole(h) \/ h \in cut
        BY <3>1, <2>2 DEF Skip, Exists, IInv, PairedUnlessCut
      <4> QED
        BY <1>1, <4>1
    <3>2. CASE WriteSidecar
      <4>1. html[h] = "whole" /\ html' = html /\ sidecar' = [sidecar EXCEPT ![h] = "whole"]
        BY <3>2, <2>2 DEF WriteSidecar, IInv, InvWriting
      <4> QED
        BY <2>2, <4>1 DEF IInv, TypeOK, Whole
    <3> QED
      BY <1>6, <3>1, <3>2
  <2>4. \A t \in ToSet(order.tickers) : Covered(t)
    BY <2>1 DEF IInv, InvProgress
  <2>5. \A out \in ToSet(queue) : out = h \/ out \in ToSet(queue')
    BY <2>1, <2>2, ElementsSplit DEF IInv, TypeOK
  <2>6. \A t \in ToSet(order.tickers) : Covered(t)'
    BY <1>1, <1>2, <2>1, <2>3, <2>4, <2>5
  <2> QED
    BY <2>1, <2>6 DEF InvProgress
<1>7. CASE Receive \/ WriteHtml
  <2>1. /\ pc # "idle" /\ pc' \in {"html", "json"} /\ UNCHANGED <<order, tickers, queue>>
        /\ \A t \in ToSet(order.tickers) : Covered(t)
    BY <1>7 DEF Receive, WriteHtml, IInv, InvProgress
  <2>2. \A t \in ToSet(order.tickers) : Covered(t)'
    BY <1>1, <1>2, <2>1
  <2> QED
    BY <2>1, <2>2 DEF InvProgress
<1>8. CASE Fails \/ FailsInHtml \/ FailsInSidecar
  BY <1>8 DEF Fails, FailsInHtml, FailsInSidecar, Stop, InvProgress
<1> QED
  BY <1>3, <1>4, <1>5, <1>6, <1>7, <1>8 DEF Next

LEMMA InvInductive == IInv /\ [Next]_vars => IInv'
<1>1. IInv /\ UNCHANGED vars => IInv'
  BY DEF vars, files, IInv, TypeOK, InvWriting, PairedUnlessCut, InvProgress, Whole
<1>2. ASSUME IInv, Next PROVE IInv'
  BY <1>2, OthersPreserve, HtmlPreserves, SidecarPreserves, ProgressPreserved DEF Next, IInv
<1> QED
  BY <1>1, <1>2

LEMMA InvAlways == Spec => []IInv
  BY InitEstablishes, InvInductive, PTL DEF Spec

-----------------------------------------------------------------------------
(***************************************************************************)
(* The theorems.                                                           *)
(***************************************************************************)

\* Every variable of the command keeps its type: its queue holds places of filings,
\* whatever number of years is asked for.
THEOREM TypeCorrect == Spec => []TypeOK
<1>1. IInv => TypeOK
  BY DEF IInv
<1> QED
  BY <1>1, InvAlways, PTL

\* A filing has both its files, or none, or a run ended while it wrote them, and
\* then half a filing is there for good.
THEOREM FilesArePaired == Spec => []PairedUnlessCut
<1>1. IInv => PairedUnlessCut
  BY DEF IInv
<1> QED
  BY <1>1, InvAlways, PTL

\* A run that is done has both files of every filing it was asked for, but for
\* those an earlier run was cut off from.
THEOREM OrdersFulfilled == Spec => []OrderFulfilled
<1>1. IInv => OrderFulfilled
  <2> SUFFICES ASSUME IInv, pc = "done",
                      NEW t \in ToSet(order.tickers), NEW out \in ToSet(Newest(t, order.years))
               PROVE  Whole(out) \/ out \in cut
    BY DEF OrderFulfilled
  <2> QED
    BY NoElements DEF IInv, InvProgress
<1> QED
  BY <1>1, InvAlways, PTL

\* "idempotent: second run downloads nothing new": what is there is neither
\* requested nor written again.
THEOREM WrittenKept == Spec => WrittenIsKept
<1>1. ASSUME IInv, [Next]_vars, NEW out \in Out, html[out] # "absent"
      PROVE  received'[out] = received[out] /\ html'[out] = html[out]
  <2>1. CASE UNCHANGED <<html, received>>
    BY <2>1
  <2>2. CASE Receive
    <3>1. html' = html /\ html[Head(queue)] = "absent"
      BY <2>2 DEF Receive, Exists, files
    <3>2. received' = [received EXCEPT ![Head(queue)] = @ + 1]
      BY <2>2 DEF Receive
    <3> QED
      BY <1>1, <3>1, <3>2 DEF IInv, TypeOK
  <2>3. CASE WriteHtml \/ FailsInHtml
    <3>1. received' = received /\ html[Head(queue)] = "absent"
      BY <1>1, <2>3 DEF WriteHtml, FailsInHtml, Stop, IInv, InvWriting
    <3>2. \/ html' = html
          \/ \E content \in File : html' = [html EXCEPT ![Head(queue)] = content]
      BY <2>3 DEF WriteHtml, FailsInHtml, File
    <3> QED
      BY <1>1, <3>1, <3>2 DEF IInv, TypeOK
  <2>4. UNCHANGED <<html, received>> \/ Receive \/ WriteHtml \/ FailsInHtml
    BY <1>1 DEF Next, vars, files, Start, LookUp, Finish, NextCompany, Skip, WriteSidecar,
                Fails, FailsInSidecar, Stop
  <2> QED
    BY <2>1, <2>2, <2>3, <2>4
<1>2. IInv /\ [Next]_vars =>
        [ \A out \in Out : html[out] # "absent" =>
            /\ received'[out] = received[out]
            /\ html'[out] = html[out] ]_vars
  BY <1>1
<1> QED
  BY <1>2, InvAlways, PTL DEF Spec, WrittenIsKept

=============================================================================
