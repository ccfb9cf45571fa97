-------------------------- MODULE AskStreamProofs ---------------------------
(***************************************************************************)
(* Proofs about AskStream: the order of the events on a connection, what   *)
(* the page shows of them, and where the connections of the pool are, for  *)
(* any number of questions, tokens and connections.                        *)
(***************************************************************************)
EXTENDS AskStream, FiniteSetTheorems, TLAPS

Holding == { r \in Request : phase[r] \in {"retrieve", "writing", "model"} }

\* Every connection is in the pool, with a request of /search, or with a task
\* that reads, writes, or waits for the model.
InvPool ==
  /\ IsFiniteSet(Holding)
  /\ free + busy + Cardinality(Holding) = PoolSize

\* A task that has not answered yet has produced nothing, and goes on only after
\* events that are not terminal; what it yielded, a client that listens is sent.
Tasked(r) ==
  /\ phase[r] \notin {"writing", "model", "over"} => sent[r] = <<>> /\ made[r] = 0
  /\ phase[r] = "unasked" => ~open[r]
  /\ phase[r] # "over" => \A i \in DOMAIN sent[r] : sent[r][i] \notin Terminal
  /\ phase[r] = "writing" =>
       /\ pending[r] \in Event
       /\ pending[r] = "sources" => sent[r] = <<>> /\ made[r] = 0
       /\ open[r] /\ pending[r] = "token" => Len(sent[r]) = made[r] /\ made[r] > 0
       /\ open[r] /\ pending[r] \in Terminal => Len(sent[r]) = made[r] + 1
  /\ phase[r] = "model" /\ open[r] => Len(sent[r]) = made[r] + 1

InvTask == \A r \in Request : Tasked(r)

\* The events of a connection, by their place.
Placed(r, i) ==
  /\ sent[r][i] = "sources" <=> i = 1
  /\ sent[r][i] = "token" => i <= made[r] + 1
  /\ sent[r][i] \in Terminal => i = Len(sent[r]) /\ i = made[r] + 2

InvEvents == \A r \in Request : \A i \in DOMAIN sent[r] : Placed(r, i)

\* The page listens to the question on display only, and shows what it has read.
InvPage ==
  /\ \A r \in Request : open[r] \/ text[r] > 0 => r = es
  /\ \A r \in Request : read[r] <= Len(sent[r])
  /\ \A r \in Request : open[r] =>
       /\ text[r] = IF read[r] = 0 THEN 0 ELSE read[r] - 1
       /\ sources <=> read[r] > 0
       /\ shown = "streaming"
  /\ shown # "idle" => es \in Request

IInv == TypeOK /\ InvPool /\ InvTask /\ InvEvents /\ InvPage /\ CompleteIsComplete

-----------------------------------------------------------------------------
(***************************************************************************)
(* IInv is an inductive invariant.                                         *)
(***************************************************************************)

LEMMA InitEstablishes == Init => IInv
<1> SUFFICES ASSUME Init PROVE IInv
  OBVIOUS
<1> USE AskAssumption DEF AskAssumption, Init
<1>1. TypeOK
  <2>1. free \in 0 .. PoolSize /\ busy \in 0 .. Searches
    OBVIOUS
  <2>2. 0 \in 0 .. MaxTokens /\ <<>> \in Seq(Event)
    OBVIOUS
  <2> QED
    BY <2>1, <2>2 DEF TypeOK
<1>2. InvPool
  <2>1. Holding = {}
    BY DEF Holding
  <2> QED
    BY <2>1, FS_EmptySet DEF InvPool
<1>3. InvTask /\ InvEvents /\ InvPage /\ CompleteIsComplete
  BY DEF InvTask, Tasked, InvEvents, InvPage, CompleteIsComplete
<1> QED
  BY <1>1, <1>2, <1>3 DEF IInv

\* A connection goes from the pool to a task, or back, or neither.
LEMMA PoolMoves ==
  ASSUME IInv, NEW r \in Request,
         \A q \in Request \ {r} : phase'[q] = phase[q],
         busy' = busy,
         \/ r \notin Holding /\ r \in Holding' /\ free > 0 /\ free' = free - 1
         \/ r \in Holding /\ r \notin Holding' /\ free' = free + 1
         \/ (r \in Holding <=> r \in Holding') /\ free' = free
  PROVE  InvPool' /\ free' \in 0 .. PoolSize
<1> USE AskAssumption DEF AskAssumption, IInv, TypeOK, InvPool
<1>1. IsFiniteSet(Holding) /\ Cardinality(Holding) \in Nat
  BY FS_CardinalityType
<1>2. CASE r \notin Holding /\ r \in Holding' /\ free > 0 /\ free' = free - 1
  <2>1. Holding' = Holding \cup {r}
    BY <1>2 DEF Holding
  <2>2. IsFiniteSet(Holding') /\ Cardinality(Holding') = Cardinality(Holding) + 1
    BY <1>1, <1>2, <2>1, FS_AddElement
  <2> QED
    BY <1>1, <1>2, <2>2
<1>3. CASE r \in Holding /\ r \notin Holding' /\ free' = free + 1
  <2>1. Holding' = Holding \ {r}
    BY <1>3 DEF Holding
  <2>2. IsFiniteSet(Holding') /\ Cardinality(Holding') = Cardinality(Holding) - 1
    BY <1>1, <1>3, <2>1, FS_RemoveElement
  <2>3. Cardinality(Holding') \in Nat
    BY <2>2, FS_CardinalityType
  <2> QED
    BY <1>1, <1>3, <2>2, <2>3
<1>4. CASE (r \in Holding <=> r \in Holding') /\ free' = free
  <2>1. Holding' = Holding
    BY <1>4 DEF Holding
  <2> QED
    BY <1>4, <2>1
<1> QED
  BY <1>2, <1>3, <1>4

\* Before the stream: nothing is sent, and what happens is up to the server.
LEMMA BeforeStreamPreserves ==
  ASSUME IInv, NEW r \in Request,
         Limiter(r) \/ Connect(r) \/ PoolTimeout(r) \/ RetrieveFails(r) \/ Retrieve(r)
  PROVE  IInv'
<1> USE DEF IInv, Refuse, Yield
<1>1. InvPool' /\ free' \in 0 .. PoolSize
  <2>1. /\ \A q \in Request \ {r} : phase'[q] = phase[q]
        /\ busy' = busy
    BY DEF TypeOK, Limiter, Connect, PoolTimeout, RetrieveFails, Retrieve
  <2>2. \/ r \notin Holding /\ r \in Holding' /\ free > 0 /\ free' = free - 1
        \/ r \in Holding /\ r \notin Holding' /\ free' = free + 1
        \/ (r \in Holding <=> r \in Holding') /\ free' = free
    BY DEF TypeOK, Holding, Limiter, Connect, PoolTimeout, RetrieveFails, Retrieve
  <2> QED
    BY <2>1, <2>2, PoolMoves
<1>2. TypeOK'
  BY <1>1 DEF TypeOK, Event, Limiter, Connect, PoolTimeout, RetrieveFails, Retrieve, page
<1>3. InvTask'
  BY DEF TypeOK, InvTask, Tasked, Event, Terminal, Limiter, Connect, PoolTimeout, RetrieveFails,
         Retrieve, page
<1>4. InvEvents' /\ InvPage' /\ CompleteIsComplete'
  BY DEF InvEvents, Placed, InvPage, CompleteIsComplete, Limiter, Connect, PoolTimeout,
         RetrieveFails, Retrieve, page
<1> QED
  BY <1>1, <1>2, <1>3, <1>4

\* The server writes an event, for a client that listens.
LEMMA WritePreserves ==
  ASSUME IInv, NEW r \in Request, Write(r)
  PROVE  IInv'
<1> USE DEF IInv
<1>1. phase[r] = "writing" /\ pending[r] \in Event /\ sent[r] \in Seq(Event)
  BY DEF Write, TypeOK, InvTask, Tasked
<1>2. \/ /\ pending[r] \in Terminal
         /\ phase' = [phase EXCEPT ![r] = "over"]
         /\ free' = free + 1
      \/ /\ pending[r] \notin Terminal
         /\ phase' = [phase EXCEPT ![r] = "model"]
         /\ free' = free
  BY DEF Write, End
<1>3. sent' = IF open[r] THEN [sent EXCEPT ![r] = Append(sent[r], pending[r])] ELSE sent
  BY DEF Write
<1>4. UNCHANGED <<busy, made, read, open, es, text, sources, shown>>
  BY DEF Write, page
<1>5. InvPool' /\ free' \in 0 .. PoolSize
  <2>1. \A q \in Request \ {r} : phase'[q] = phase[q]
    BY <1>2 DEF TypeOK
  <2>2. \/ r \in Holding /\ r \notin Holding' /\ free' = free + 1
        \/ (r \in Holding <=> r \in Holding') /\ free' = free
    BY <1>1, <1>2 DEF TypeOK, Holding
  <2> QED
    BY <1>4, <2>1, <2>2, PoolMoves
<1>6. /\ \A q \in Request \ {r} : sent'[q] = sent[q] /\ phase'[q] = phase[q] /\ pending'[q] = pending[q]
      /\ ~open[r] => sent'[r] = sent[r]
      /\ open[r] => /\ sent'[r] = Append(sent[r], pending[r])
                    /\ Len(sent'[r]) = Len(sent[r]) + 1
                    /\ \A i \in 1 .. Len(sent[r]) : sent'[r][i] = sent[r][i]
                    /\ sent'[r][Len(sent[r]) + 1] = pending[r]
  BY <1>1, <1>3 DEF TypeOK, Write, End
<1>7. TypeOK'
  <2>1. sent' \in [Request -> Seq(Event)]
    BY <1>1, <1>3 DEF TypeOK
  <2> QED
    BY <1>4, <1>5, <2>1 DEF TypeOK, Write, End
<1> DEFINE n == Len(sent[r])
<1>8. n \in Nat /\ made[r] \in Nat /\ DOMAIN sent[r] = 1 .. n
  BY <1>1, AskAssumption DEF AskAssumption, TypeOK
<1>9. InvTask'
  <2> SUFFICES ASSUME NEW q \in Request PROVE Tasked(q)'
    BY DEF InvTask
  <2>1. CASE q # r
    BY <1>4, <1>6, <2>1 DEF InvTask, Tasked
  <2>2. CASE q = r /\ pending[r] \in Terminal
    BY <1>2, <2>2 DEF TypeOK, Tasked
  <2>3. CASE q = r /\ pending[r] \notin Terminal
    <3>1. phase'[r] = "model" /\ open'[r] = open[r] /\ made'[r] = made[r]
      BY <1>2, <1>4, <2>3 DEF TypeOK
    <3>2. \A i \in DOMAIN sent'[r] : sent'[r][i] \notin Terminal
      <4>1. \A i \in DOMAIN sent[r] : sent[r][i] \notin Terminal
        BY <1>1 DEF InvTask, Tasked
      <4>2. CASE open[r]
        <5>1. DOMAIN sent'[r] = 1 .. n + 1
          BY <1>1, <1>6, <1>7, <4>2 DEF TypeOK
        <5> QED
          BY <1>6, <1>8, <2>3, <4>1, <4>2, <5>1
      <4> QED
        BY <1>6, <4>1, <4>2
    <3>3. open[r] => Len(sent'[r]) = made[r] + 1
      BY <1>1, <1>6, <1>8, <2>3 DEF InvTask, Tasked, Event, Terminal
    <3> QED
      BY <2>3, <3>1, <3>2, <3>3 DEF Tasked
  <2> QED
    BY <2>1, <2>2, <2>3
<1>10. InvEvents'
  <2> SUFFICES ASSUME NEW q \in Request, NEW i \in DOMAIN sent'[q] PROVE Placed(q, i)'
    BY DEF InvEvents
  <2>1. CASE q # r \/ ~open[r]
    BY <1>4, <1>6, <2>1 DEF InvEvents, Placed
  <2>2. CASE q = r /\ open[r] /\ i \in 1 .. n
    <3>1. sent[r][i] \notin Terminal
      BY <1>1, <1>8, <2>2 DEF InvTask, Tasked
    <3> QED
      BY <1>4, <1>6, <1>8, <2>2, <3>1 DEF InvEvents, Placed
  <2>3. CASE q = r /\ open[r] /\ i = n + 1
    <3>1. /\ pending[r] = "sources" => n = 0
          /\ pending[r] = "token" => n = made[r] /\ n > 0
          /\ pending[r] \in Terminal => n = made[r] + 1
      BY <1>1, <2>3 DEF InvTask, Tasked
    <3>2. Len(sent'[r]) = n + 1 /\ sent'[r][n + 1] = pending[r] /\ made'[r] = made[r]
      BY <1>4, <1>6, <2>3
    <3> HIDE DEF n
    <3> QED
      BY <1>1, <1>8, <2>3, <3>1, <3>2 DEF Placed, Event, Terminal
  <2>4. open[r] => DOMAIN sent'[r] = 1 .. n + 1
    BY <1>6, <1>7 DEF TypeOK
  <2> QED
    BY <1>8, <2>1, <2>2, <2>3, <2>4
<1>11. InvPage'
  <2>1. \A q \in Request : Len(sent[q]) \in Nat /\ Len(sent'[q]) >= Len(sent[q])
    <3> TAKE q \in Request
    <3>1. Len(sent[q]) \in Nat
      BY DEF TypeOK
    <3>2. sent'[q] = sent[q] \/ Len(sent'[q]) = Len(sent[q]) + 1
      BY <1>6
    <3> QED
      BY <3>1, <3>2
  <2>2. \A q \in Request : read[q] \in Nat
    BY DEF TypeOK
  <2>3. \A q \in Request : Len(sent'[q]) \in Nat
    BY <1>7 DEF TypeOK
  <2> QED
    BY <1>4, <2>1, <2>2, <2>3 DEF InvPage
<1>12. CompleteIsComplete'
  BY <1>1, <1>4, <1>6 DEF Tasked, TypeOK, InvTask, InvPage, CompleteIsComplete, Last, Terminal
<1> QED
  BY <1>5, <1>7, <1>9, <1>10, <1>11, <1>12

\* The generator is resumed by the model, or by its deadline, and yields.
LEMMA ModelPreserves ==
  ASSUME IInv, NEW r \in Request,
         ModelToken(r) \/ ModelDone(r) \/ ModelFails(r) \/ DeadlineInModel(r)
  PROVE  IInv'
<1> USE DEF IInv
<1>1. /\ phase[r] = "model"
      /\ phase' = [phase EXCEPT ![r] = "writing"]
      /\ UNCHANGED <<free, busy, sent, read, open, es, text, sources, shown>>
  BY DEF ModelToken, ModelDone, ModelFails, DeadlineInModel, Yield, page
<1>2. \/ /\ pending' = [pending EXCEPT ![r] = "token"]
         /\ made[r] < MaxTokens
         /\ made' = [made EXCEPT ![r] = made[r] + 1]
      \/ /\ \E e \in Terminal : pending' = [pending EXCEPT ![r] = e]
         /\ made' = made
  BY DEF ModelToken, ModelDone, ModelFails, DeadlineInModel, Yield, Terminal
<1>3. timer' \in [Request -> BOOLEAN]
  BY DEF ModelToken, ModelDone, ModelFails, DeadlineInModel, TypeOK
<1>4. InvPool'
  <2>1. \A q \in Request \ {r} : phase'[q] = phase[q]
    BY <1>1 DEF TypeOK
  <2>2. (r \in Holding <=> r \in Holding') /\ free' = free
    BY <1>1 DEF TypeOK, Holding
  <2> QED
    BY <1>1, <2>1, <2>2, PoolMoves
<1>5. TypeOK'
  <2>1. made[r] \in 0 .. MaxTokens /\ MaxTokens \in Nat
    BY AskAssumption DEF AskAssumption, TypeOK
  <2>2. made[r] < MaxTokens => made[r] + 1 \in 0 .. MaxTokens
    BY <2>1
  <2>3. made' \in [Request -> 0 .. MaxTokens]
    BY <1>2, <2>2 DEF TypeOK
  <2> QED
    BY <1>1, <1>2, <1>3, <2>3 DEF TypeOK, Event, Terminal
<1>6. /\ made[r] \in Nat /\ made'[r] \in {made[r], made[r] + 1}
      /\ \A q \in Request \ {r} : made'[q] = made[q] /\ pending'[q] = pending[q] /\ phase'[q] = phase[q]
      /\ \A i \in DOMAIN sent[r] : sent[r][i] \notin Terminal
  <2>1. made[r] \in Nat /\ made'[r] \in {made[r], made[r] + 1}
    BY <1>2, AskAssumption DEF AskAssumption, TypeOK
  <2>2. \A q \in Request \ {r} : made'[q] = made[q] /\ pending'[q] = pending[q] /\ phase'[q] = phase[q]
    BY <1>1, <1>2 DEF TypeOK
  <2>3. \A i \in DOMAIN sent[r] : sent[r][i] \notin Terminal
    BY <1>1 DEF InvTask, Tasked
  <2> QED
    BY <2>1, <2>2, <2>3
<1>7. InvTask'
  <2> SUFFICES ASSUME NEW q \in Request PROVE Tasked(q)'
    BY DEF InvTask
  <2>1. CASE q # r
    BY <1>1, <1>6, <2>1 DEF InvTask, Tasked
  <2>2. CASE q = r
    BY <1>1, <1>2, <1>6, <2>2 DEF TypeOK, InvTask, Tasked, Event, Terminal
  <2> QED
    BY <2>1, <2>2
<1>8. InvEvents'
  <2> SUFFICES ASSUME NEW q \in Request, NEW i \in DOMAIN sent[q] PROVE Placed(q, i)'
    BY <1>1 DEF InvEvents
  <2>1. CASE q # r
    BY <1>1, <1>6, <2>1 DEF InvEvents, Placed
  <2>2. CASE q = r
    <3>1. i \in Nat
      BY DEF TypeOK
    <3> QED
      BY <1>1, <1>6, <2>2, <3>1 DEF InvEvents, Placed
  <2> QED
    BY <2>1, <2>2
<1>9. InvPage'
  BY <1>1 DEF InvPage
<1>10. CompleteIsComplete'
  <2> SUFFICES ASSUME shown = "complete" PROVE made'[es] = made[es]
    BY <1>1 DEF CompleteIsComplete
  <2>1. es \in Request /\ Len(sent[es]) \in DOMAIN sent[es] /\ sent[es][Len(sent[es])] \in Terminal
    BY DEF TypeOK, InvPage, CompleteIsComplete, Last, Terminal
  <2> QED
    BY <1>6, <2>1
<1> QED
  BY <1>4, <1>5, <1>7, <1>8, <1>9, <1>10

\* The task ends, the client is cut off or gone.
LEMMA CutPreserves ==
  ASSUME IInv, NEW r \in Request, DeadlineInWrite(r) \/ Disconnected(r)
  PROVE  IInv'
<1> USE DEF IInv
<1>1. /\ phase[r] \in {"writing", "model"}
      /\ End(r)
      /\ UNCHANGED <<busy, made, sent, read, open, es, text, sources, shown>>
  BY DEF DeadlineInWrite, Disconnected, page
<1>2. InvPool' /\ free' \in 0 .. PoolSize
  <2>1. \A q \in Request \ {r} : phase'[q] = phase[q]
    BY <1>1 DEF End, TypeOK
  <2>2. r \in Holding /\ r \notin Holding' /\ free' = free + 1
    BY <1>1 DEF End, TypeOK, Holding
  <2> QED
    BY <1>1, <2>1, <2>2, PoolMoves
<1>3. TypeOK'
  BY <1>1, <1>2 DEF End, TypeOK
<1>4. InvTask'
  BY <1>1 DEF End, TypeOK, InvTask, Tasked
<1>5. InvEvents' /\ InvPage' /\ CompleteIsComplete'
  BY <1>1 DEF InvEvents, Placed, InvPage, CompleteIsComplete
<1> QED
  BY <1>2, <1>3, <1>4, <1>5

LEMMA SearchPreserves ==
  ASSUME IInv, SearchConnects \/ SearchEnds
  PROVE  IInv'
<1> USE AskAssumption DEF AskAssumption, IInv
<1>1. UNCHANGED <<phase, pending, timer, made, sent, read, open, es, text, sources, shown>>
  BY DEF SearchConnects, SearchEnds, page
<1>2. InvPool' /\ free' \in 0 .. PoolSize /\ busy' \in 0 .. Searches
  <2>1. Cardinality(Holding) \in Nat /\ free \in 0 .. PoolSize /\ busy \in 0 .. Searches
    BY FS_CardinalityType DEF InvPool, TypeOK
  <2>2. Holding' = Holding
    BY <1>1 DEF Holding
  <2> QED
    BY <2>1, <2>2 DEF InvPool, SearchConnects, SearchEnds
<1>3. TypeOK'
  BY <1>1, <1>2 DEF TypeOK
<1>4. InvTask' /\ InvEvents' /\ InvPage' /\ CompleteIsComplete'
  BY <1>1 DEF InvTask, Tasked, InvEvents, Placed, InvPage, CompleteIsComplete
<1> QED
  BY <1>2, <1>3, <1>4

\* A question is asked; the page turns to it.
LEMMA GoPreserves ==
  ASSUME IInv, NEW r \in Request, Go(r)
  PROVE  IInv'
<1> USE AskAssumption DEF AskAssumption, IInv
<1>1. UNCHANGED <<pending, timer, free, busy, made, sent, read>> /\ phase[r] = "unasked"
  BY DEF Go
<1>2. sent[r] = <<>> /\ read[r] = 0 /\ made[r] = 0
  <2>1. sent[r] = <<>> /\ made[r] = 0
    BY <1>1 DEF InvTask, Tasked
  <2>2. read[r] <= 0 /\ read[r] \in Nat
    BY <2>1 DEF InvPage, TypeOK
  <2> QED
    BY <2>1, <2>2
<1>3. InvPool'
  <2>1. \A q \in Request \ {r} : phase'[q] = phase[q]
    BY DEF Go, TypeOK
  <2>2. (r \in Holding <=> r \in Holding') /\ free' = free
    BY DEF Go, TypeOK, Holding
  <2> QED
    BY <1>1, <2>1, <2>2, PoolMoves
<1>4. TypeOK'
  <2>1. 0 \in 0 .. MaxTokens
    OBVIOUS
  <2>2. /\ phase' \in [Request -> {"unasked", "limiter", "pool", "retrieve", "writing",
                                    "model", "refused", "over"}]
        /\ open' \in [Request -> BOOLEAN]
        /\ text' \in [Request -> 0 .. MaxTokens]
        /\ es' \in Request \cup {Nobody} /\ sources' \in BOOLEAN /\ shown' = "streaming"
    BY <2>1 DEF Go, TypeOK
  <2> QED
    BY <1>1, <2>2 DEF TypeOK
<1>5. InvTask'
  BY <1>1, <1>2 DEF Go, TypeOK, InvTask, Tasked
<1>6. InvEvents'
  BY <1>1 DEF InvEvents, Placed
<1>7. InvPage' /\ CompleteIsComplete'
  BY <1>1, <1>2 DEF Go, TypeOK, InvPage, CompleteIsComplete
<1> QED
  BY <1>3, <1>4, <1>5, <1>6, <1>7

\* The page hears of an event, or of the end of the connection.
LEMMA DispatchPreserves ==
  ASSUME IInv, NEW r \in Request, Dispatch(r)
  PROVE  IInv'
<1> USE AskAssumption DEF AskAssumption, IInv
<1> DEFINE i == read[r] + 1
           e == sent[r][i]
<1>1. UNCHANGED <<phase, pending, timer, free, busy, made, sent, es>>
  BY DEF Dispatch, server
<1>2. r = es /\ i \in DOMAIN sent[r] /\ i \in Nat /\ i <= Len(sent[r]) /\ Len(sent[r]) \in Nat
  BY DEF Dispatch, InvPage, TypeOK
<1>3. Placed(r, i) /\ made[r] \in 0 .. MaxTokens
  BY <1>2 DEF InvEvents, TypeOK
<1>4. read' = [read EXCEPT ![r] = i]
  BY DEF Dispatch
<1>5. \/ /\ e = "sources" /\ sources' = TRUE
         /\ UNCHANGED <<text, shown, open>>
      \/ /\ e = "token" /\ text' = [text EXCEPT ![r] = text[r] + 1]
         /\ UNCHANGED <<sources, shown, open>>
      \/ /\ e \in Terminal /\ open' = [open EXCEPT ![r] = FALSE]
         /\ shown' \in {"complete", "offline", "stopped"}
         /\ shown' = "complete" => e = "done"
         /\ UNCHANGED <<text, sources>>
  BY <1>2 DEF Dispatch, Degrade, CloseCurrent, Terminal
<1>6. /\ open[r]
      /\ text[r] = IF read[r] = 0 THEN 0 ELSE read[r] - 1
      /\ sources <=> read[r] > 0
      /\ shown = "streaming"
      /\ read[r] \in Nat
      /\ \A q \in Request \ {r} : ~open[q]
  BY <1>2 DEF Dispatch, InvPage, TypeOK
<1>7. TypeOK'
  <2>1. e = "token" => text[r] + 1 \in 0 .. MaxTokens
    BY <1>2, <1>3, <1>6 DEF Placed
  <2>2. read' \in [Request -> Nat]
    BY <1>2, <1>4 DEF TypeOK
  <2>3. text' \in [Request -> 0 .. MaxTokens] /\ open' \in [Request -> BOOLEAN]
    BY <1>5, <2>1 DEF TypeOK
  <2>4. sources' \in BOOLEAN /\ shown' \in {"streaming", "complete", "offline", "stopped"}
    BY <1>5, <1>6 DEF TypeOK
  <2> QED
    BY <1>1, <2>2, <2>3, <2>4 DEF TypeOK
<1>8. InvPool'
  <2>1. (r \in Holding <=> r \in Holding') /\ \A q \in Request \ {r} : phase'[q] = phase[q]
    BY <1>1 DEF Holding
  <2> QED
    BY <1>1, <2>1, PoolMoves
<1>9. InvTask' /\ InvEvents'
  <2>1. \A q \in Request : open'[q] => open[q]
    BY <1>5 DEF TypeOK
  <2>2. InvEvents'
    BY <1>1 DEF InvEvents, Placed
  <2> QED
    BY <1>1, <2>1, <2>2 DEF InvTask, Tasked
<1>10. InvPage'
  <2>1. \A q \in Request : open'[q] \/ text'[q] > 0 => q = es
    BY <1>2, <1>5 DEF TypeOK, InvPage
  <2>2. \A q \in Request : read'[q] <= Len(sent[q])
    BY <1>2, <1>4 DEF TypeOK, InvPage
  <2>3. ASSUME open'[r] PROVE /\ text'[r] = IF i = 0 THEN 0 ELSE i - 1
                              /\ sources' <=> i > 0
                              /\ shown' = "streaming"
    BY <1>2, <1>3, <1>5, <1>6, <2>3 DEF TypeOK, Placed
  <2>4. es \in Request
    BY <1>2
  <2>5. read'[r] = i
    BY <1>4 DEF TypeOK
  <2> HIDE DEF i
  <2> QED
    BY <1>1, <1>2, <2>1, <2>2, <2>3, <2>4, <2>5 DEF InvPage
<1>11. CompleteIsComplete'
  <2> SUFFICES ASSUME shown' = "complete"
               PROVE  sources /\ text[r] = made[r] /\ sent[r] # <<>> /\ Last(sent[r]) = "done"
    BY <1>1, <1>2, <1>5, <1>6 DEF CompleteIsComplete
  <2>1. e = "done"
    BY <1>5, <1>6
  <2>2. i = Len(sent[r]) /\ i = made[r] + 2
    BY <1>3, <2>1 DEF Placed, Terminal
  <2> QED
    BY <1>2, <1>3, <1>6, <2>1, <2>2 DEF Last
<1> QED
  BY <1>7, <1>8, <1>9, <1>10, <1>11

LEMMA LostPreserves ==
  ASSUME IInv, NEW r \in Request, ConnectionLost(r)
  PROVE  IInv'
<1> USE DEF IInv
<1>1. UNCHANGED <<phase, pending, timer, free, busy, made, sent, read, es, text, sources>>
  BY DEF ConnectionLost, Degrade, server
<1>2. r = es /\ open' = [open EXCEPT ![r] = FALSE] /\ shown' \in {"offline", "stopped"}
  BY DEF ConnectionLost, Degrade, CloseCurrent, InvPage
<1>3. \A q \in Request : ~open'[q] /\ (open'[q] => open[q])
  BY <1>2 DEF TypeOK, InvPage
<1>4. InvPool'
  <2>1. (r \in Holding <=> r \in Holding') /\ \A q \in Request \ {r} : phase'[q] = phase[q]
    BY <1>1 DEF Holding
  <2> QED
    BY <1>1, <2>1, PoolMoves
<1>5. TypeOK'
  BY <1>1, <1>2 DEF TypeOK
<1>6. InvTask' /\ InvEvents'
  BY <1>1, <1>3 DEF InvTask, Tasked, InvEvents, Placed
<1>7. InvPage' /\ CompleteIsComplete'
  BY <1>1, <1>2, <1>3 DEF InvPage, CompleteIsComplete
<1> QED
  BY <1>4, <1>5, <1>6, <1>7

LEMMA InvInductive == IInv /\ [Next]_vars => IInv'
<1> SUFFICES ASSUME IInv, [Next]_vars PROVE IInv'
  OBVIOUS
<1>1. CASE UNCHANGED vars
  BY <1>1 DEF vars, server, page, IInv, TypeOK, InvPool, Holding, InvTask, Tasked,
              InvEvents, Placed, InvPage, CompleteIsComplete
<1>2. CASE SearchConnects \/ SearchEnds
  BY <1>2, SearchPreserves
<1>3. ASSUME NEW r \in Request, Serve(r) PROVE IInv'
  <2>1. CASE Limiter(r) \/ Connect(r) \/ PoolTimeout(r) \/ RetrieveFails(r) \/ Retrieve(r)
    BY <2>1, BeforeStreamPreserves
  <2>2. CASE Write(r)
    BY <2>2, WritePreserves
  <2>3. CASE DeadlineInModel(r)
    BY <2>3, ModelPreserves
  <2>4. CASE DeadlineInWrite(r) \/ Disconnected(r)
    BY <2>4, CutPreserves
  <2> QED
    BY <1>3, <2>1, <2>2, <2>3, <2>4 DEF Serve
<1>4. ASSUME NEW r \in Request, ModelToken(r) \/ ModelDone(r) \/ ModelFails(r) PROVE IInv'
  BY <1>4, ModelPreserves
<1>5. ASSUME NEW r \in Request, Go(r) \/ Dispatch(r) \/ ConnectionLost(r) PROVE IInv'
  BY <1>5, GoPreserves, DispatchPreserves, LostPreserves
<1> QED
  BY <1>1, <1>2, <1>3, <1>4, <1>5 DEF Next

LEMMA InvAlways == Spec => []IInv
  BY InitEstablishes, InvInductive, PTL DEF Spec

-----------------------------------------------------------------------------
(***************************************************************************)
(* The theorems.                                                           *)
(***************************************************************************)

\* Every variable of the stream and of the page keeps its type; the pool never
\* holds more connections than it has.
THEOREM TypeCorrect == Spec => []TypeOK
<1>1. IInv => TypeOK
  BY DEF IInv
<1> QED
  BY <1>1, InvAlways, PTL

\* However a stream ends, its connection is back in the pool, once: connections
\* are in the pool, with /search, or with the tasks that hold one.
THEOREM ConnectionsKept == Spec => []InvPool
<1>1. IInv => InvPool
  BY DEF IInv
<1> QED
  BY <1>1, InvAlways, PTL

\* The events of a connection are a prefix of sources, tokens, done or gen_error,
\* whatever fails, is cancelled, or passes its deadline.
THEOREM EventsInOrder == Spec => []EventOrder
<1>1. IInv => EventOrder
  BY DEF IInv, InvEvents, Placed, EventOrder
<1> QED
  BY <1>1, InvAlways, PTL

\* An answer that is shown as complete is all that the model produced for the
\* question on display, over its sources.
THEOREM ShownComplete == Spec => []CompleteIsComplete
<1>1. IInv => CompleteIsComplete
  BY DEF IInv
<1> QED
  BY <1>1, InvAlways, PTL

\* No token of an earlier question gets into the text on display.
THEOREM ShownText == Spec => []TextOfThisQuestion
<1>1. IInv => TextOfThisQuestion
  BY DEF IInv, InvPage, TextOfThisQuestion
<1> QED
  BY <1>1, InvAlways, PTL

=============================================================================
