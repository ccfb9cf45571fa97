---------------------------- MODULE IngestProofs ----------------------------
(***************************************************************************)
(* Proofs about Ingest: type correctness, and that the chunks of a         *)
(* document are always one whole version, for any number of runs, filings  *)
(* and chunks.                                                             *)
(***************************************************************************)
EXTENDS Ingest, TLAPS

\* A run has a transaction open exactly between Open and its end.
Between == {"lookup", "count", "delete", "deleting", "insert",
            "embed", "update", "fill", "commit"}

InvOpen ==
  \A p \in Proc :
    /\ pc[p] \in Between => tx[p].filing \in Filing
    /\ pc[p] \notin Between => tx[p] = NoTransaction

\* A run past its INSERT has the document of its filing, as its own uncommitted
\* row or in the tables.
InvCreated ==
  \A p \in Proc :
    /\ tx[p].created => pc[p] \in {"embed", "update", "fill", "commit"}
    /\ pc[p] \in Between \ {"lookup", "insert"} /\ ~tx[p].created
         => tx[p].filing \in documents

\* No two documents, committed or not, are of one company and fiscal year.
InvSlots ==
  /\ \A f, g \in documents : SlotOf[f] = SlotOf[g] => f = g
  /\ \A p \in Proc : tx[p].created => ~DocumentConflict(tx[p].filing)
  /\ \A p, q \in Proc :
       /\ tx[p].created
       /\ tx[q].created
       /\ SlotOf[tx[p].filing] = SlotOf[tx[q].filing]
       => p = q

\* A run that is not done with a filing has written no chunk of it.
Ahead(q, f) == pc[q] = "idle" \/ f \in todo[q] \/ tx[q].filing = f

InvAhead ==
  \A q \in Proc : \A f \in Filing : Ahead(q, f) =>
    /\ \A c \in chunks[f] : c.run # q
    /\ \A p \in Proc : tx[p].filing = f => \A c \in tx[p].seen : c.run # q

InvTodo == \A p \in Proc : tx[p].filing \notin todo[p]

\* A snapshot is the present version or has nothing in common with it.
InvSeen ==
  \A p \in Proc :
    /\ pc[p] \in {"lookup", "count", "delete", "insert"} => tx[p].deleted = {}
    /\ pc[p] = "deleting" =>
         /\ tx[p].deleted = {}
         /\ \/ tx[p].seen = chunks[tx[p].filing]
            \/ tx[p].seen \cap chunks[tx[p].filing] = {}

\* A run has deleted the whole of the present version or nothing.
InvDeleted ==
  \A p \in Proc : tx[p].deleted # {} => tx[p].deleted = chunks[tx[p].filing]

\* Two runs never delete the same rows.
InvDisjoint ==
  \A p, q \in Proc :
    p # q /\ tx[p].filing = tx[q].filing => tx[p].deleted \cap tx[q].deleted = {}

\* The lock on the documents row, new or updated, has one holder.
InvLock ==
  \A p, q \in Proc :
    /\ pc[p] \in {"fill", "commit"}
    /\ pc[q] \in {"fill", "commit"}
    /\ tx[p].filing = tx[q].filing
    => p = q

InvDrafts ==
  \A p \in Proc :
    /\ pc[p] \in {"update", "fill", "commit"} => tx[p].drafts \in DraftCounts
    /\ pc[p] = "commit" => ~ChunkConflict(p)

IInv ==
  /\ TypeOK
  /\ WholeVersions
  /\ InvOpen
  /\ InvCreated
  /\ InvSlots
  /\ InvAhead
  /\ InvTodo
  /\ InvSeen
  /\ InvDeleted
  /\ InvDisjoint
  /\ InvLock
  /\ InvDrafts

-----------------------------------------------------------------------------
(***************************************************************************)
(* IInv is an inductive invariant: one lemma per action.                   *)
(***************************************************************************)

LEMMA InitEstablishes == Init => IInv
<1> SUFFICES ASSUME Init PROVE IInv
  OBVIOUS
<1> USE IngestAssumption DEF Init, NoTransaction, IngestAssumption
<1>1. TypeOK
  BY DEF TypeOK, Transaction, Statement, Ended, Writer, Chunk, Version
<1>2. WholeVersions
  <2> SUFFICES ASSUME NEW f \in Filing
               PROVE  IF f \in documents
                        THEN \E r \in Writer, n \in DraftCounts : chunks[f] = Version(r, n)
                        ELSE chunks[f] = {}
    BY DEF WholeVersions
  <2>1. Earlier \in Writer
    BY DEF Writer
  <2>2. f \in documents => \E n \in DraftCounts : chunks[f] = Version(Earlier, n)
    OBVIOUS
  <2>3. f \notin documents => chunks[f] = {}
    OBVIOUS
  <2> QED
    BY <2>1, <2>2, <2>3
<1>3. InvOpen /\ InvCreated /\ InvSlots
  BY DEF InvOpen, InvCreated, InvSlots, Between
<1>4. InvAhead /\ InvTodo
  BY DEF InvAhead, InvTodo, Ahead, Version, Writer
<1>5. InvSeen /\ InvDeleted /\ InvDisjoint
  BY DEF InvSeen, InvDeleted, InvDisjoint
<1>6. InvLock /\ InvDrafts
  BY DEF InvLock, InvDrafts
<1> QED
  BY <1>1, <1>2, <1>3, <1>4, <1>5, <1>6 DEF IInv

LEMMA StartPreserves ==
  ASSUME NEW p \in Proc, IInv, Start(p)
  PROVE  IInv'
<1> USE IngestAssumption DEF IInv, Goto, table, disk, stats
<1>1. TypeOK'
  BY DEF Start, TypeOK, Transaction, Statement, Ended, InvOpen, Between, NoTransaction, IngestAssumption
<1>2. WholeVersions' /\ InvOpen' /\ InvCreated' /\ InvSlots'
  <2>1. WholeVersions' /\ InvSlots'
    BY DEF Start, TypeOK, Transaction, DocumentConflict, WholeVersions, InvSlots
  <2>2. InvOpen'
    BY DEF Start, TypeOK, Between, InvOpen
  <2>3. InvCreated'
    BY DEF Start, TypeOK, Between, InvCreated
  <2> QED
    BY <2>1, <2>2, <2>3
<1>3. InvAhead' /\ InvTodo'
  BY DEF Start, TypeOK, Transaction, NoTransaction, Between, Ahead,
         InvOpen, InvAhead, InvTodo, IngestAssumption
<1>4. InvSeen' /\ InvDeleted' /\ InvDisjoint'
  BY DEF Start, TypeOK, Transaction, NoTransaction, Between,
         InvOpen, InvSeen, InvDeleted, InvDisjoint
<1>5. InvLock' /\ InvDrafts'
  BY DEF Start, TypeOK, Transaction, NoTransaction, Between, Holders, ChunkConflict,
         InvOpen, InvLock, InvDrafts
<1> QED
  BY <1>1, <1>2, <1>3, <1>4, <1>5

LEMMA OpenPreserves ==
  ASSUME NEW p \in Proc, IInv, Open(p)
  PROVE  IInv'
<1> USE IngestAssumption DEF IInv, Goto, table, disk, stats
<1>1. TypeOK'
  <2>1. PICK f \in todo[p] : tx' = [tx EXCEPT ![p] = [NoTransaction EXCEPT !.filing = f]]
    BY DEF Open
  <2>2. f \in Filing /\ [NoTransaction EXCEPT !.filing = f] \in Transaction
    BY DEF TypeOK, Transaction, NoTransaction
  <2> QED
    BY <2>1, <2>2 DEF Open, TypeOK, Statement
<1>2. WholeVersions' /\ InvOpen' /\ InvCreated' /\ InvSlots'
  BY DEF Open, TypeOK, Transaction, NoTransaction, Between, Holders, DocumentConflict,
         WholeVersions, InvOpen, InvCreated, InvSlots
<1>3. InvAhead' /\ InvTodo'
  BY DEF Open, TypeOK, Transaction, NoTransaction, Between, Ahead,
         InvOpen, InvAhead, InvTodo, IngestAssumption
<1>4. InvSeen' /\ InvDeleted' /\ InvDisjoint'
  <2>1. InvSeen'
    BY DEF Open, TypeOK, Transaction, NoTransaction, Between, InvOpen, InvSeen
  <2>2. InvDeleted'
    BY DEF Open, TypeOK, Transaction, NoTransaction, Between, InvOpen, InvSeen, InvDeleted
  <2>3. InvDisjoint'
    BY DEF Open, TypeOK, Transaction, NoTransaction, Between, InvOpen, InvSeen, InvDisjoint
  <2> QED
    BY <2>1, <2>2, <2>3
<1>5. InvLock' /\ InvDrafts'
  BY DEF Open, TypeOK, Transaction, NoTransaction, Between, Holders, ChunkConflict,
         InvOpen, InvLock, InvDrafts
<1> QED
  BY <1>1, <1>2, <1>3, <1>4, <1>5

\* Abort is what OpenFails, InsertDocumentFails, InsertChunksFails, Crash and
\* DeadlockVictim do.
LEMMA AbortPreserves ==
  ASSUME NEW p \in Proc, IInv, Abort(p)
  PROVE  IInv'
<1> USE IngestAssumption DEF IInv, Goto, table, disk, stats
<1>1. TypeOK'
  BY DEF Abort, TypeOK, Transaction, Statement, Ended, InvOpen, Between, NoTransaction, IngestAssumption
<1>2. WholeVersions' /\ InvOpen' /\ InvCreated' /\ InvSlots'
  BY DEF Abort, TypeOK, Transaction, NoTransaction, Between, Holders, DocumentConflict,
         WholeVersions, InvOpen, InvCreated, InvSlots
<1>3. InvAhead' /\ InvTodo'
  BY DEF Abort, TypeOK, Transaction, NoTransaction, Between, Ahead,
         InvOpen, InvAhead, InvTodo, IngestAssumption
<1>4. InvSeen' /\ InvDeleted' /\ InvDisjoint'
  BY DEF Abort, TypeOK, Transaction, NoTransaction, Between,
         InvOpen, InvSeen, InvDeleted, InvDisjoint
<1>5. InvLock' /\ InvDrafts'
  BY DEF Abort, TypeOK, Transaction, NoTransaction, Between, Holders, ChunkConflict,
         InvOpen, InvLock, InvDrafts
<1> QED
  BY <1>1, <1>2, <1>3, <1>4, <1>5

LEMMA FinishPreserves ==
  ASSUME NEW p \in Proc, IInv, Finish(p)
  PROVE  IInv'
<1> USE IngestAssumption DEF IInv, Goto, table, disk, stats
<1>1. TypeOK'
  BY DEF Finish, TypeOK, Transaction, Statement, Ended, InvOpen, Between, NoTransaction, IngestAssumption
<1>2. WholeVersions' /\ InvOpen' /\ InvCreated' /\ InvSlots'
  BY DEF Finish, TypeOK, Transaction, NoTransaction, Between, Holders, DocumentConflict,
         WholeVersions, InvOpen, InvCreated, InvSlots
<1>3. InvAhead' /\ InvTodo'
  BY DEF Finish, TypeOK, Transaction, NoTransaction, Between, Ahead,
         InvOpen, InvAhead, InvTodo, IngestAssumption
<1>4. InvSeen' /\ InvDeleted' /\ InvDisjoint'
  BY DEF Finish, TypeOK, Transaction, NoTransaction, Between,
         InvOpen, InvSeen, InvDeleted, InvDisjoint
<1>5. InvLock' /\ InvDrafts'
  BY DEF Finish, TypeOK, Transaction, NoTransaction, Between, Holders, ChunkConflict,
         InvOpen, InvLock, InvDrafts
<1> QED
  BY <1>1, <1>2, <1>3, <1>4, <1>5

LEMMA LookupPreserves ==
  ASSUME NEW p \in Proc, IInv, Lookup(p)
  PROVE  IInv'
<1> USE IngestAssumption DEF IInv, Goto, table, disk, stats
<1>1. TypeOK'
  BY DEF Lookup, TypeOK, Transaction, Statement, Ended, InvOpen, Between, NoTransaction, IngestAssumption
<1>2. WholeVersions' /\ InvOpen' /\ InvCreated' /\ InvSlots'
  BY DEF Lookup, TypeOK, Transaction, NoTransaction, Between, Holders, DocumentConflict,
         WholeVersions, InvOpen, InvCreated, InvSlots
<1>3. InvAhead' /\ InvTodo'
  BY DEF Lookup, TypeOK, Transaction, NoTransaction, Between, Ahead,
         InvOpen, InvAhead, InvTodo, IngestAssumption
<1>4. InvSeen' /\ InvDeleted' /\ InvDisjoint'
  BY DEF Lookup, TypeOK, Transaction, NoTransaction, Between,
         InvOpen, InvSeen, InvDeleted, InvDisjoint
<1>5. InvLock' /\ InvDrafts'
  BY DEF Lookup, TypeOK, Transaction, NoTransaction, Between, Holders, ChunkConflict,
         InvOpen, InvLock, InvDrafts
<1> QED
  BY <1>1, <1>2, <1>3, <1>4, <1>5

LEMMA SkipPreserves ==
  ASSUME NEW p \in Proc, IInv, Skip(p)
  PROVE  IInv'
<1> USE IngestAssumption DEF IInv, Goto, table, disk, stats
<1>1. TypeOK'
  BY DEF Skip, TypeOK, Transaction, Statement, Ended, InvOpen, Between, NoTransaction, IngestAssumption
<1>2. WholeVersions' /\ InvOpen' /\ InvCreated' /\ InvSlots'
  BY DEF Skip, TypeOK, Transaction, NoTransaction, Between, Holders, DocumentConflict,
         WholeVersions, InvOpen, InvCreated, InvSlots
<1>3. InvAhead' /\ InvTodo'
  BY DEF Skip, TypeOK, Transaction, NoTransaction, Between, Ahead,
         InvOpen, InvAhead, InvTodo, IngestAssumption
<1>4. InvSeen' /\ InvDeleted' /\ InvDisjoint'
  BY DEF Skip, TypeOK, Transaction, NoTransaction, Between,
         InvOpen, InvSeen, InvDeleted, InvDisjoint
<1>5. InvLock' /\ InvDrafts'
  BY DEF Skip, TypeOK, Transaction, NoTransaction, Between, Holders, ChunkConflict,
         InvOpen, InvLock, InvDrafts
<1> QED
  BY <1>1, <1>2, <1>3, <1>4, <1>5

LEMMA ProceedPreserves ==
  ASSUME NEW p \in Proc, IInv, Proceed(p)
  PROVE  IInv'
<1> USE IngestAssumption DEF IInv, Goto, table, disk, stats
<1>1. TypeOK'
  BY DEF Proceed, TypeOK, Transaction, Statement, Ended, InvOpen, Between, NoTransaction, IngestAssumption
<1>2. WholeVersions' /\ InvOpen' /\ InvCreated' /\ InvSlots'
  BY DEF Proceed, TypeOK, Transaction, NoTransaction, Between, Holders, DocumentConflict,
         WholeVersions, InvOpen, InvCreated, InvSlots
<1>3. InvAhead' /\ InvTodo'
  BY DEF Proceed, TypeOK, Transaction, NoTransaction, Between, Ahead,
         InvOpen, InvAhead, InvTodo, IngestAssumption
<1>4. InvSeen' /\ InvDeleted' /\ InvDisjoint'
  BY DEF Proceed, TypeOK, Transaction, NoTransaction, Between,
         InvOpen, InvSeen, InvDeleted, InvDisjoint
<1>5. InvLock' /\ InvDrafts'
  BY DEF Proceed, TypeOK, Transaction, NoTransaction, Between, Holders, ChunkConflict,
         InvOpen, InvLock, InvDrafts
<1> QED
  BY <1>1, <1>2, <1>3, <1>4, <1>5

LEMMA DeleteStartPreserves ==
  ASSUME NEW p \in Proc, IInv, DeleteStart(p)
  PROVE  IInv'
<1> USE IngestAssumption DEF IInv, Goto, table, disk, stats
<1>1. TypeOK'
  <2>1. chunks[tx[p].filing] \subseteq Chunk
    BY DEF DeleteStart, TypeOK, InvOpen, Between
  <2>2. [tx[p] EXCEPT !.seen = chunks[tx[p].filing]] \in Transaction
    BY <2>1 DEF TypeOK, Transaction
  <2> QED
    BY <2>2 DEF DeleteStart, TypeOK, Statement
<1>2. WholeVersions' /\ InvOpen' /\ InvCreated' /\ InvSlots'
  BY DEF DeleteStart, TypeOK, Transaction, NoTransaction, Between, Holders, DocumentConflict,
         WholeVersions, InvOpen, InvCreated, InvSlots
<1>3. InvAhead' /\ InvTodo'
  BY DEF DeleteStart, TypeOK, Transaction, NoTransaction, Between, Ahead,
         InvOpen, InvAhead, InvTodo, IngestAssumption
<1>4. InvSeen' /\ InvDeleted' /\ InvDisjoint'
  <2>1. InvSeen'
    BY DEF DeleteStart, TypeOK, Transaction, NoTransaction, Between, InvOpen, InvSeen
  <2>2. InvDeleted'
    BY DEF DeleteStart, TypeOK, Transaction, NoTransaction, Between, InvOpen, InvSeen, InvDeleted
  <2>3. InvDisjoint'
    BY DEF DeleteStart, TypeOK, Transaction, NoTransaction, Between, InvOpen, InvSeen, InvDisjoint
  <2> QED
    BY <2>1, <2>2, <2>3
<1>5. InvLock' /\ InvDrafts'
  BY DEF DeleteStart, TypeOK, Transaction, NoTransaction, Between, Holders, ChunkConflict,
         InvOpen, InvLock, InvDrafts
<1> QED
  BY <1>1, <1>2, <1>3, <1>4, <1>5

LEMMA DeleteRowsPreserves ==
  ASSUME NEW p \in Proc, IInv, DeleteRows(p)
  PROVE  IInv'
<1> USE IngestAssumption DEF IInv, Goto, table, disk, stats
<1>1. TypeOK'
  <2>1. tx[p].seen \cap chunks[tx[p].filing] \subseteq Chunk
    BY DEF DeleteRows, TypeOK, InvOpen, Between, Transaction
  <2>2. [tx[p] EXCEPT !.deleted = tx[p].seen \cap chunks[tx[p].filing]] \in Transaction
    BY <2>1 DEF TypeOK, Transaction
  <2> QED
    BY <2>2 DEF DeleteRows, TypeOK, Statement
<1>2. WholeVersions' /\ InvOpen' /\ InvCreated' /\ InvSlots'
  BY DEF DeleteRows, TypeOK, Transaction, NoTransaction, Between, Holders, DocumentConflict,
         WholeVersions, InvOpen, InvCreated, InvSlots
<1>3. InvAhead' /\ InvTodo'
  BY DEF DeleteRows, TypeOK, Transaction, NoTransaction, Between, Ahead,
         InvOpen, InvAhead, InvTodo, IngestAssumption
<1>4. InvSeen' /\ InvDeleted' /\ InvDisjoint'
  <2>1. tx'[p].deleted # {} => tx'[p].deleted = chunks[tx[p].filing]
    BY DEF DeleteRows, InvSeen, TypeOK, Transaction
  <2>2. InvSeen'
    BY DEF DeleteRows, InvSeen, TypeOK, Transaction
  <2>3. InvDeleted'
    BY <2>1 DEF DeleteRows, InvDeleted, TypeOK, Transaction
  <2>4. InvDisjoint'
    BY DEF DeleteRows, InvDisjoint, Holders, TypeOK, Transaction
  <2> QED
    BY <2>2, <2>3, <2>4
<1>5. InvLock' /\ InvDrafts'
  BY DEF DeleteRows, TypeOK, Transaction, NoTransaction, Between, Holders, ChunkConflict,
         InvOpen, InvLock, InvDrafts
<1> QED
  BY <1>1, <1>2, <1>3, <1>4, <1>5

LEMMA InsertDocumentPreserves ==
  ASSUME NEW p \in Proc, IInv, InsertDocument(p)
  PROVE  IInv'
<1> USE IngestAssumption DEF IInv, Goto, table, disk, stats
<1>1. TypeOK'
  <2>1. [tx[p] EXCEPT !.created = TRUE] \in Transaction
    BY DEF TypeOK, Transaction
  <2> QED
    BY <2>1 DEF InsertDocument, TypeOK, Statement
<1>2. WholeVersions' /\ InvOpen' /\ InvCreated' /\ InvSlots'
  BY DEF InsertDocument, TypeOK, Transaction, NoTransaction, Between, Holders, DocumentConflict,
         WholeVersions, InvOpen, InvCreated, InvSlots
<1>3. InvAhead' /\ InvTodo'
  BY DEF InsertDocument, TypeOK, Transaction, NoTransaction, Between, Ahead,
         InvOpen, InvAhead, InvTodo, IngestAssumption
<1>4. InvSeen' /\ InvDeleted' /\ InvDisjoint'
  <2>1. InvSeen'
    BY DEF InsertDocument, TypeOK, Transaction, NoTransaction, Between, InvOpen, InvSeen
  <2>2. InvDeleted'
    BY DEF InsertDocument, TypeOK, Transaction, NoTransaction, Between, InvOpen, InvSeen, InvDeleted
  <2>3. InvDisjoint'
    BY DEF InsertDocument, TypeOK, Transaction, NoTransaction, Between, InvOpen, InvSeen, InvDisjoint
  <2> QED
    BY <2>1, <2>2, <2>3
<1>5. InvLock' /\ InvDrafts'
  BY DEF InsertDocument, TypeOK, Transaction, NoTransaction, Between, Holders, ChunkConflict,
         InvOpen, InvLock, InvDrafts
<1> QED
  BY <1>1, <1>2, <1>3, <1>4, <1>5

LEMMA EmbedPreserves ==
  ASSUME NEW p \in Proc, IInv, Embed(p)
  PROVE  IInv'
<1> USE IngestAssumption DEF IInv, Goto, table, disk, stats
<1>1. TypeOK'
  BY DEF Embed, TypeOK, Transaction, Statement, Ended, InvOpen, Between, NoTransaction, IngestAssumption
<1>2. WholeVersions' /\ InvOpen' /\ InvCreated' /\ InvSlots'
  BY DEF Embed, TypeOK, Transaction, NoTransaction, Between, Holders, DocumentConflict,
         WholeVersions, InvOpen, InvCreated, InvSlots
<1>3. InvAhead' /\ InvTodo'
  BY DEF Embed, TypeOK, Transaction, NoTransaction, Between, Ahead,
         InvOpen, InvAhead, InvTodo, IngestAssumption
<1>4. InvSeen' /\ InvDeleted' /\ InvDisjoint'
  <2>1. InvSeen'
    BY DEF Embed, TypeOK, Transaction, NoTransaction, Between, InvOpen, InvSeen
  <2>2. InvDeleted'
    BY DEF Embed, TypeOK, Transaction, NoTransaction, Between, InvOpen, InvSeen, InvDeleted
  <2>3. InvDisjoint'
    BY DEF Embed, TypeOK, Transaction, NoTransaction, Between, InvOpen, InvSeen, InvDisjoint
  <2> QED
    BY <2>1, <2>2, <2>3
<1>5. InvLock' /\ InvDrafts'
  BY DEF Embed, TypeOK, Transaction, NoTransaction, Between, Holders, ChunkConflict,
         InvOpen, InvLock, InvDrafts
<1> QED
  BY <1>1, <1>2, <1>3, <1>4, <1>5

LEMMA UpdateDocumentPreserves ==
  ASSUME NEW p \in Proc, IInv, UpdateDocument(p)
  PROVE  IInv'
<1> USE IngestAssumption DEF IInv, Goto, table, disk, stats
<1>1. TypeOK'
  BY DEF UpdateDocument, TypeOK, Transaction, Statement, Ended, InvOpen, Between, NoTransaction, IngestAssumption
<1>2. WholeVersions' /\ InvOpen' /\ InvCreated' /\ InvSlots'
  BY DEF UpdateDocument, TypeOK, Transaction, NoTransaction, Between, Holders, DocumentConflict,
         WholeVersions, InvOpen, InvCreated, InvSlots
<1>3. InvAhead' /\ InvTodo'
  BY DEF UpdateDocument, TypeOK, Transaction, NoTransaction, Between, Ahead,
         InvOpen, InvAhead, InvTodo, IngestAssumption
<1>4. InvSeen' /\ InvDeleted' /\ InvDisjoint'
  BY DEF UpdateDocument, TypeOK, Transaction, NoTransaction, Between,
         InvOpen, InvSeen, InvDeleted, InvDisjoint
<1>5. InvLock' /\ InvDrafts'
  BY DEF UpdateDocument, TypeOK, Transaction, NoTransaction, Between, Holders, ChunkConflict,
         InvOpen, InvLock, InvDrafts
<1> QED
  BY <1>1, <1>2, <1>3, <1>4, <1>5

LEMMA InsertChunksPreserves ==
  ASSUME NEW p \in Proc, IInv, InsertChunks(p)
  PROVE  IInv'
<1> USE IngestAssumption DEF IInv, Goto, table, disk, stats
<1>1. TypeOK'
  BY DEF InsertChunks, TypeOK, Transaction, Statement, Ended, InvOpen, Between, NoTransaction, IngestAssumption
<1>2. WholeVersions' /\ InvOpen' /\ InvCreated' /\ InvSlots'
  BY DEF InsertChunks, TypeOK, Transaction, NoTransaction, Between, Holders, DocumentConflict,
         WholeVersions, InvOpen, InvCreated, InvSlots
<1>3. InvAhead' /\ InvTodo'
  BY DEF InsertChunks, TypeOK, Transaction, NoTransaction, Between, Ahead,
         InvOpen, InvAhead, InvTodo, IngestAssumption
<1>4. InvSeen' /\ InvDeleted' /\ InvDisjoint'
  BY DEF InsertChunks, TypeOK, Transaction, NoTransaction, Between,
         InvOpen, InvSeen, InvDeleted, InvDisjoint
<1>5. InvLock' /\ InvDrafts'
  BY DEF InsertChunks, TypeOK, Transaction, NoTransaction, Between, Holders, ChunkConflict,
         InvOpen, InvLock, InvDrafts
<1> QED
  BY <1>1, <1>2, <1>3, <1>4, <1>5

-----------------------------------------------------------------------------
LEMMA VersionFacts ==
  ASSUME NEW r, NEW n \in DraftCounts
  PROVE  /\ \A c \in Version(r, n) : c.run = r /\ c.idx \in Nat
         /\ n > 0 => [run |-> r, idx |-> 0] \in Version(r, n)
         /\ n = 0 => Version(r, n) = {}
         /\ r \in Writer => Version(r, n) \subseteq Chunk
BY IngestAssumption DEF IngestAssumption, Version, Chunk

\* The heart of the matter: a run whose INSERT succeeded has deleted every chunk
\* there was, or inserts nothing.
LEMMA CommitReplaces ==
  ASSUME NEW p \in Proc, IInv, pc[p] = "commit"
  PROVE  \/ chunks[tx[p].filing] = tx[p].deleted
         \/ tx[p].drafts = 0 /\ tx[p].filing \in documents
<1> DEFINE f == tx[p].filing
<1>1. f \in Filing /\ tx[p].drafts \in DraftCounts /\ tx[p].drafts \in Nat
  BY IngestAssumption DEF IInv, InvOpen, InvDrafts, Between, IngestAssumption
<1>2. ~ChunkConflict(p)
  BY DEF IInv, InvDrafts
<1>3. CASE tx[p].deleted # {}
  BY <1>3 DEF IInv, InvDeleted
<1>4. CASE tx[p].deleted = {} /\ chunks[f] = {}
  BY <1>4
<1>5. CASE tx[p].deleted = {} /\ chunks[f] # {}
  <2>1. f \in documents
    BY <1>1, <1>5 DEF IInv, WholeVersions
  <2>2. PICK r \in Writer, n \in DraftCounts : chunks[f] = Version(r, n)
    BY <1>1, <2>1 DEF IInv, WholeVersions
  <2>3. n \in Nat /\ n # 0
    BY <1>5, <2>2, VersionFacts, IngestAssumption DEF IngestAssumption
  <2>4. [run |-> r, idx |-> 0] \in chunks[f] \ tx[p].deleted
    BY <1>5, <2>2, <2>3, VersionFacts
  <2>5. ~(0 < tx[p].drafts)
    BY <1>2, <2>4 DEF ChunkConflict
  <2> QED
    BY <1>1, <2>1, <2>5
<1> QED
  BY <1>3, <1>4, <1>5

\* Commit and CommitUnheard differ in what the run hears of it only.
LEMMA ApplyPreserves ==
  ASSUME NEW p \in Proc, IInv, pc[p] = "commit", Apply(p),
         NEW s \in {"scan", "failed"}, Goto(p, s),
         tx' = [tx EXCEPT ![p] = NoTransaction],
         ingested' \in [Proc -> SUBSET Filing],
         UNCHANGED <<disk, todo, skipped>>
  PROVE  IInv'
<1> DEFINE f == tx[p].filing
           d == tx[p].drafts
<1> USE DEF Goto
<1>a. /\ TypeOK /\ f \in Filing /\ d \in DraftCounts /\ p \in Writer
      /\ NoFiling \notin Filing /\ DraftCounts \subseteq Nat
  BY IngestAssumption DEF IInv, InvOpen, InvDrafts, Between, IngestAssumption, Writer
<1>b. /\ \A q \in Proc \ {p} : tx'[q] = tx[q] /\ pc'[q] = pc[q]
      /\ tx'[p] = NoTransaction
      /\ pc'[p] = s
  BY <1>a DEF TypeOK
<1>d. /\ Version(p, d) \subseteq Chunk
      /\ \A c \in Version(p, d) : c.run = p
      /\ d = 0 => Version(p, d) = {}
  <2> HIDE DEF d
  <2> QED
    BY <1>a, VersionFacts
\* One of two things happens to the chunks of f: they stay as they are, or a new
\* version takes the place of exactly the rows p has deleted.
<1>c. \/ chunks' = chunks /\ documents' = documents
      \/ /\ chunks'[f] = Version(p, d)
         /\ chunks[f] = tx[p].deleted
         /\ \A g \in Filing \ {f} : chunks'[g] = chunks[g]
         /\ documents' = documents \cup {f}
         /\ chunks' \in [Filing -> SUBSET Chunk]
  <2>1. CASE chunks[f] = tx[p].deleted
    <3>1. chunks' = [chunks EXCEPT ![f] = Version(p, d)]
      BY <1>a, <2>1 DEF Apply, TypeOK
    <3>2. chunks' \in [Filing -> SUBSET Chunk]
      BY <1>a, <1>d, <3>1 DEF TypeOK
    <3> QED
      BY <1>a, <2>1, <3>1, <3>2 DEF Apply, TypeOK
  <2>2. CASE d = 0 /\ f \in documents /\ chunks[f] # tx[p].deleted
    <3>1. tx[p].deleted = {}
      BY <2>2 DEF IInv, InvDeleted
    <3> QED
      <4>1. (chunks[f] \ tx[p].deleted) \cup Version(p, d) = chunks[f]
        BY <1>d, <2>2, <3>1
      <4>2. chunks' = [chunks EXCEPT ![f] = chunks[f]]
        BY <4>1 DEF Apply
      <4> QED
        BY <1>a, <2>2, <4>2 DEF Apply, TypeOK
  <2> QED
    BY <2>1, <2>2, CommitReplaces
<1>1. TypeOK'
  BY <1>a, <1>c DEF TypeOK, disk, NoTransaction, Transaction, Statement, Ended
<1>2. WholeVersions'
  <2> SUFFICES ASSUME NEW g \in Filing
               PROVE  IF g \in documents'
                        THEN \E r \in Writer, n \in DraftCounts : chunks'[g] = Version(r, n)
                        ELSE chunks'[g] = {}
    BY DEF WholeVersions, Writer, Version
  <2>1. IF g \in documents
          THEN \E r \in Writer, n \in DraftCounts : chunks[g] = Version(r, n)
          ELSE chunks[g] = {}
    BY DEF IInv, WholeVersions
  <2>2. CASE chunks' = chunks /\ documents' = documents
    BY <2>1, <2>2
  <2>3. CASE g = f /\ chunks'[f] = Version(p, d) /\ documents' = documents \cup {f}
    BY <1>a, <2>3
  <2>4. CASE g # f /\ chunks'[g] = chunks[g] /\ documents' = documents \cup {f}
    BY <2>1, <2>4
  <2> QED
    BY <1>c, <2>2, <2>3, <2>4
<1>3. InvOpen'
  BY <1>a, <1>b DEF IInv, InvOpen, Between
<1>4. InvCreated'
  BY <1>a, <1>b, <1>c DEF IInv, InvCreated, NoTransaction, Between
<1>5. InvSlots'
  <2>1. /\ tx[p].created \in BOOLEAN
        /\ ~tx[p].created => f \in documents
        /\ tx[p].created => \A g \in documents : SlotOf[g] # SlotOf[f]
    BY <1>a DEF IInv, InvCreated, InvSlots, DocumentConflict, TypeOK, Transaction, Between
  <2>2. ASSUME NEW q \in Proc, tx'[q].created
        PROVE  /\ q # p /\ tx'[q] = tx[q] /\ tx[q].created
               /\ \A g \in documents : g # tx[q].filing /\ SlotOf[g] # SlotOf[tx[q].filing]
               /\ tx[p].created => SlotOf[f] # SlotOf[tx[q].filing]
    BY <1>b, <2>2 DEF IInv, InvSlots, DocumentConflict, NoTransaction
  <2>3. ASSUME NEW q \in Proc, tx'[q].created PROVE ~DocumentConflict(tx[q].filing)'
    BY <1>c, <2>1, <2>2, <2>3 DEF DocumentConflict
  <2>4. \A g, h \in documents' : SlotOf[g] = SlotOf[h] => g = h
    BY <1>c, <2>1 DEF IInv, InvSlots
  <2> QED
    BY <2>2, <2>3, <2>4 DEF IInv, InvSlots
<1>6. InvAhead'
  <2>1. ASSUME NEW q \in Proc, NEW g \in Filing, Ahead(q, g)' PROVE Ahead(q, g)
    BY <1>a, <1>b, <2>1 DEF Ahead, TypeOK, NoTransaction, Transaction
  <2>2. ASSUME NEW g \in Filing, g = f PROVE ~Ahead(p, g)'
    BY <1>a, <1>b, <2>2 DEF Ahead, IInv, InvTodo, NoTransaction, TypeOK
  <2>3. ASSUME NEW q \in Proc, NEW g \in Filing, Ahead(q, g)'
        PROVE  \A c \in chunks'[g] : c.run # q
    BY <1>a, <1>c, <1>d, <2>1, <2>2, <2>3 DEF IInv, InvAhead
  <2>4. ASSUME NEW q \in Proc, NEW g \in Filing, Ahead(q, g)', NEW o \in Proc, tx'[o].filing = g
        PROVE  \A c \in tx'[o].seen : c.run # q
    BY <1>a, <1>b, <2>1, <2>4 DEF IInv, InvAhead, NoTransaction
  <2> QED
    BY <2>3, <2>4 DEF InvAhead
<1>7. InvTodo'
  BY <1>a, <1>b DEF IInv, InvTodo, NoTransaction, TypeOK
<1>8. InvSeen'
  <2> SUFFICES ASSUME NEW q \in Proc, pc'[q] = "deleting"
               PROVE  \/ tx'[q].seen = chunks'[tx'[q].filing]
                      \/ tx'[q].seen \cap chunks'[tx'[q].filing] = {}
    BY <1>b DEF IInv, InvSeen
  <2>1. q # p /\ tx'[q] = tx[q] /\ tx[q].filing \in Filing
    BY <1>b DEF IInv, InvOpen, Between
  <2>2. tx[q].filing = f => \A c \in tx[q].seen : c.run # p
    BY <1>a DEF IInv, InvAhead, Ahead
  <2> QED
    <3>1. pc[q] = "deleting" /\ (\/ tx[q].seen = chunks[tx[q].filing]
                                \/ tx[q].seen \cap chunks[tx[q].filing] = {})
      BY <1>b, <2>1 DEF IInv, InvSeen
    <3> QED
      BY <1>c, <1>d, <2>1, <2>2, <3>1
<1>9. InvDeleted'
  <2> SUFFICES ASSUME NEW q \in Proc, tx'[q].deleted # {}
               PROVE  tx'[q].deleted = chunks'[tx'[q].filing]
    BY DEF InvDeleted
  <2>1. q # p /\ tx'[q] = tx[q] /\ tx[q].deleted = chunks[tx[q].filing]
    BY <1>b DEF IInv, InvDeleted, NoTransaction
  <2>2. tx[q].filing \in Filing
    BY <2>1 DEF IInv, InvOpen, NoTransaction
  <2>3. tx[q].filing = f => tx[p].deleted \cap tx[q].deleted = {}
    BY <2>1 DEF IInv, InvDisjoint
  <2> QED
    BY <1>c, <2>1, <2>2, <2>3
<1>10. InvDisjoint'
  BY <1>a, <1>b DEF IInv, InvDisjoint, NoTransaction
<1>11. InvLock'
  BY <1>a, <1>b DEF IInv, InvLock
<1>12. InvDrafts'
  <2> SUFFICES ASSUME NEW q \in Proc, pc'[q] = "commit" PROVE ~ChunkConflict(q)'
    BY <1>a, <1>b DEF IInv, InvDrafts
  <2>1. q # p /\ tx'[q] = tx[q] /\ pc[q] = "commit"
    BY <1>b
  <2>2. tx[q].filing \in Filing /\ tx[q].filing # f
    BY <2>1 DEF IInv, InvLock, InvOpen, Between
  <2> QED
    BY <1>c, <2>1, <2>2 DEF IInv, InvDrafts, ChunkConflict
<1> QED
  BY <1>1, <1>2, <1>3, <1>4, <1>5, <1>6, <1>7, <1>8, <1>9, <1>10, <1>11, <1>12 DEF IInv

LEMMA InvInductive == IInv /\ [Next]_vars => IInv'
<1> SUFFICES ASSUME IInv, [Next]_vars PROVE IInv'
  OBVIOUS
<1>1. CASE UNCHANGED vars
  BY <1>1 DEF vars, IInv, TypeOK, WholeVersions, InvOpen, InvCreated, InvSlots, InvAhead,
              Ahead, InvTodo, InvSeen, InvDeleted, InvDisjoint, InvLock, InvDrafts,
              ChunkConflict, DocumentConflict
<1>2. ASSUME NEW p \in Proc, Start(p) PROVE IInv'
  BY <1>2, StartPreserves
<1>3. ASSUME NEW p \in Proc, Step(p) PROVE IInv'
  <2>1. CASE \/ OpenFails(p) \/ InsertDocumentFails(p) \/ InsertChunksFails(p)
             \/ DeadlockVictim(p)
    BY <2>1, AbortPreserves DEF OpenFails, InsertDocumentFails, InsertChunksFails, DeadlockVictim
  <2>2. CASE Open(p) \/ Finish(p)
    BY <2>2, OpenPreserves, FinishPreserves
  <2>3. CASE Lookup(p) \/ Skip(p) \/ Proceed(p) \/ DeleteStart(p) \/ DeleteRows(p)
    BY <2>3, LookupPreserves, SkipPreserves, ProceedPreserves, DeleteStartPreserves, DeleteRowsPreserves
  <2>4. CASE InsertDocument(p) \/ Embed(p) \/ UpdateDocument(p) \/ InsertChunks(p)
    BY <2>4, InsertDocumentPreserves, EmbedPreserves, UpdateDocumentPreserves, InsertChunksPreserves
  <2>5. CASE Commit(p)
    <3>1. ingested' \in [Proc -> SUBSET Filing]
      BY <2>5, IngestAssumption DEF Commit, IInv, TypeOK, InvOpen, Between
    <3> QED
      BY <2>5, <3>1, ApplyPreserves DEF Commit
  <2>6. CASE CommitUnheard(p)
    BY <2>6, ApplyPreserves DEF CommitUnheard, IInv, TypeOK, stats
  <2> QED
    BY <1>3, <2>1, <2>2, <2>3, <2>4, <2>5, <2>6 DEF Step
<1>4. ASSUME NEW p \in Proc, Crash(p) PROVE IInv'
  BY <1>4, AbortPreserves DEF Crash
<1> QED
  BY <1>1, <1>2, <1>3, <1>4 DEF Next

LEMMA InvAlways == Spec => []IInv
  BY InitEstablishes, InvInductive, PTL DEF Spec

-----------------------------------------------------------------------------
(***************************************************************************)
(* The theorems.                                                           *)
(***************************************************************************)

\* Every variable of the ingestion keeps its type, whatever the runs do.
THEOREM TypeCorrect == Spec => []TypeOK
<1>1. IInv => TypeOK
  BY DEF IInv
<1> QED
  BY <1>1, InvAlways, PTL

\* The chunks of a document are those of one ingestion pass, all of them, for
\* any number of overlapping, crashing and forced runs.
THEOREM VersionsAreWhole == Spec => []WholeVersions
<1>1. IInv => WholeVersions
  BY DEF IInv
<1> QED
  BY <1>1, InvAlways, PTL

-----------------------------------------------------------------------------
(***************************************************************************)
(* The abstract specification: only a commit changes what readers see.     *)
(***************************************************************************)

LEMMA OnlyCommitsChangeTables ==
  ASSUME NEW p \in Proc, Start(p) \/ Step(p) \/ Crash(p)
  PROVE  \/ UNCHANGED table
         \/ pc[p] = "commit" /\ Apply(p)
BY DEF Start, Step, Crash, Abort, Open, OpenFails, Finish, Lookup, Skip, Proceed,
       DeleteStart, DeleteRows, InsertDocument, InsertDocumentFails, Embed,
       UpdateDocument, InsertChunks, InsertChunksFails, Commit, CommitUnheard,
       DeadlockVictim

\* A filing that is committed meets no other document of its company and year.
LEMMA CommitFindsSlotFree ==
  ASSUME NEW p \in Proc, IInv, pc[p] = "commit", NEW g \in documents,
         SlotOf[g] = SlotOf[tx[p].filing]
  PROVE  g = tx[p].filing
BY DEF IInv, TypeOK, Transaction, InvCreated, InvSlots, DocumentConflict, Between

\* Readers of the tables see an atomic register per filing, holding nothing or
\* one whole version, and never two filings of a company and fiscal year.
THEOREM Implements == Spec => CorpusSpec
<1> DEFINE corpus == [f \in Filing |-> IF f \in documents THEN chunks[f] ELSE {NoFiling}]
<1>1. IInv => /\ \A f \in Filing \cap documents : chunks[f] \in Published!Versions
              /\ \A f \in Filing : corpus[f] # {NoFiling} <=> f \in documents
  BY IngestAssumption DEF IInv, TypeOK, WholeVersions, Version, Chunk, Writer, IngestAssumption,
                          Published!Version, Published!Versions
<1>2. Init => Published!Init
  BY <1>1, InitEstablishes DEF IInv, InvSlots, TypeOK, Published!Init,
                               Published!Stored, Published!SlotFree
<1>3. IInv /\ IInv' /\ [Next]_vars => [Published!Next]_corpus
  <2> SUFFICES ASSUME IInv, IInv', [Next]_vars, ~UNCHANGED table
               PROVE  Published!Next
    BY DEF table
  <2>1. PICK p \in Proc : pc[p] = "commit" /\ Apply(p)
    BY OnlyCommitsChangeTables DEF Next, vars, table
  <2>2. PICK f \in Filing : f = tx[p].filing
    BY <2>1 DEF IInv, InvOpen, Between
  <2>3. f \in documents' /\ chunks'[f] \in Published!Versions
    <3>1. f \in documents'
      BY <2>1, <2>2 DEF Apply
    <3>2. \E r \in Writer, n \in DraftCounts : chunks'[f] = Version(r, n)
      BY <2>2, <3>1 DEF IInv, WholeVersions, Writer, Version
    <3> QED
      BY <3>1, <3>2 DEF Writer, Version, Published!Version, Published!Versions
  <2>4. corpus' = [corpus EXCEPT ![f] = chunks'[f]]
    <3>1. \A g \in Filing \ {f} : (g \in documents' <=> g \in documents) /\ chunks'[g] = chunks[g]
      BY <2>1, <2>2 DEF Apply, IInv, TypeOK
    <3>2. [corpus EXCEPT ![f] = chunks'[f]]
            = [g \in Filing |-> IF g = f THEN chunks'[f] ELSE corpus[g]]
      OBVIOUS
    <3>3. \A g \in Filing : (IF g = f THEN chunks'[f] ELSE corpus[g])
                             = IF g \in documents' THEN chunks'[g] ELSE {NoFiling}
      BY <2>3, <3>1
    <3> QED
      BY <3>2, <3>3
  <2>5. Published!SlotFree(f)
    BY <1>1, <2>1, <2>2, CommitFindsSlotFree DEF Published!Stored, Published!SlotFree
  <2>6. \E v \in Published!Versions : corpus' = [corpus EXCEPT ![f] = v]
    <3> HIDE DEF corpus
    <3> QED
      BY <2>3, <2>4
  <2> QED
    BY <2>5, <2>6 DEF Published!Next, Published!Publish
<1> QED
  BY <1>2, <1>3, InvAlways, PTL DEF Spec, CorpusSpec, Published!Spec

-----------------------------------------------------------------------------
(***************************************************************************)
(* --force.                                                                *)
(***************************************************************************)

\* A run without --force gets past the count only if it inserts a document, or
\* finds none of the chunks that were there before all runs; none of those comes
\* back.
InvStored ==
  \A p \in Proc \ Forced :
    pc[p] \in {"delete", "deleting", "embed", "update", "fill", "commit"}
      => tx[p].created \/ \A c \in chunks[tx[p].filing] : c.run # Earlier

LEMMA StoredInductive ==
  ASSUME IInv, InvStored, [Next]_vars
  PROVE  InvStored'
<1>1. CASE UNCHANGED vars
  BY <1>1 DEF InvStored, vars
<1> USE DEF InvStored, Goto, IInv, TypeOK, Transaction
<1>2. ASSUME NEW p \in Proc, Start(p) \/ Finish(p) \/ Abort(p) \/ Open(p) \/ Lookup(p) \/ Skip(p)
      PROVE  InvStored'
  BY <1>2 DEF Start, Finish, Abort, Open, Lookup, Skip, table
<1>3. ASSUME NEW p \in Proc, Proceed(p) PROVE InvStored'
  BY <1>3 DEF Proceed, AlreadyIngested, table
<1>4. ASSUME NEW p \in Proc, DeleteStart(p) \/ DeleteRows(p) \/ InsertDocument(p) PROVE InvStored'
  <2>1. /\ chunks' = chunks
        /\ \A q \in Proc : tx'[q].filing = tx[q].filing
        /\ \A q \in Proc \ {p} : tx'[q] = tx[q] /\ pc'[q] = pc[q]
    BY <1>4 DEF DeleteStart, DeleteRows, InsertDocument, table
  <2>2. /\ InsertDocument(p) => tx'[p].created
        /\ ~InsertDocument(p) => pc[p] \in {"delete", "deleting"} /\ tx'[p].created = tx[p].created
    BY <1>4 DEF DeleteStart, DeleteRows, InsertDocument
  <2> QED
    BY <2>1, <2>2
<1>5. ASSUME NEW p \in Proc, Embed(p) \/ UpdateDocument(p) \/ InsertChunks(p) PROVE InvStored'
  BY <1>5 DEF Embed, UpdateDocument, InsertChunks, table
<1>6. ASSUME NEW p \in Proc, Commit(p) \/ CommitUnheard(p) PROVE InvStored'
  <2>1. \A f \in Filing : \A c \in chunks'[f] : c \in chunks[f] \/ c.run # Earlier
    <3>1. \A c \in Version(p, tx[p].drafts) : c.run # Earlier
      BY IngestAssumption DEF IngestAssumption, Version
    <3> QED
      BY <1>6, <3>1 DEF Commit, CommitUnheard, Apply
  <2>2. ASSUME NEW q \in Proc \ Forced, q # p,
               pc'[q] \in {"delete", "deleting", "embed", "update", "fill", "commit"}
        PROVE  tx'[q].created \/ \A c \in chunks'[tx'[q].filing] : c.run # Earlier
    <3>1. tx'[q] = tx[q] /\ pc'[q] = pc[q]
      BY <1>6, <2>2 DEF Commit, CommitUnheard
    <3>2. tx[q].filing \in Filing
      BY <2>2, <3>1 DEF InvOpen, Between
    <3> QED
      BY <2>1, <2>2, <3>1, <3>2
  <2>3. pc'[p] \in {"scan", "failed"}
    BY <1>6 DEF Commit, CommitUnheard
  <2> QED
    BY <2>2, <2>3
<1> QED
  BY <1>1, <1>2, <1>3, <1>4, <1>5, <1>6
     DEF Next, Step, OpenFails, InsertDocumentFails, InsertChunksFails, DeadlockVictim, Crash

\* What the runs of the past have stored is replaced by forced runs only: the
\* count and the DELETE are two statements, and that makes no difference to it.
THEOREM StoredKept == Spec => StoredIsKept
<1>1. Init => InvStored
  BY DEF Init, InvStored
<1>2. IInv /\ InvStored /\ [Next]_vars
        => [ \A f \in Filing : (\E c \in chunks[f] : c.run = Earlier) /\ chunks'[f] # chunks[f]
               => \E p \in Forced : pc[p] = "commit" /\ tx[p].filing = f ]_vars
  <2> SUFFICES ASSUME IInv, InvStored, Next, NEW f \in Filing,
                      \E c \in chunks[f] : c.run = Earlier, chunks'[f] # chunks[f]
               PROVE  \E p \in Forced : pc[p] = "commit" /\ tx[p].filing = f
    OBVIOUS
  <2>1. PICK p \in Proc : pc[p] = "commit" /\ Apply(p)
    BY OnlyCommitsChangeTables DEF Next, table
  <2>2. tx[p].filing = f /\ f \in documents
    BY <2>1 DEF Apply, IInv, TypeOK, WholeVersions
  <2>3. ~tx[p].created
    BY <2>2 DEF IInv, InvSlots, DocumentConflict
  <2> QED
    BY <2>1, <2>2, <2>3 DEF InvStored
<1>3. IInv /\ InvStored /\ [Next]_vars => InvStored'
  BY StoredInductive
<1> QED
  BY <1>1, <1>2, <1>3, InvAlways, PTL DEF Spec, StoredIsKept

\* A run without --force gets past the count only by inserting a document.
InvUnforced ==
  \A p \in Proc \ Forced :
    pc[p] \in {"delete", "deleting", "embed", "update", "fill", "commit"}
      => tx[p].created

LEMMA UnforcedInductive ==
  ASSUME 0 \notin DraftCounts, IInv, InvUnforced, [Next]_vars
  PROVE  InvUnforced'
<1>1. ASSUME NEW p \in Proc, pc[p] = "count" PROVE chunks[tx[p].filing] # {}
  <2>1. tx[p].filing \in Filing /\ tx[p].filing \in documents
    BY <1>1 DEF IInv, InvOpen, InvCreated, Between
  <2>2. PICK r \in Writer, n \in DraftCounts : chunks[tx[p].filing] = Version(r, n)
    BY <2>1 DEF IInv, WholeVersions
  <2>3. n > 0
    BY IngestAssumption DEF IngestAssumption
  <2>4. [run |-> r, idx |-> 0] \in chunks[tx[p].filing]
    BY <2>2, <2>3, VersionFacts
  <2> QED
    BY <2>4
<1>2. CASE UNCHANGED vars
  BY <1>2 DEF InvUnforced, vars
<1> USE DEF InvUnforced, Goto, IInv, TypeOK, Transaction
<1>3. ASSUME NEW p \in Proc, Start(p) \/ Finish(p) \/ Abort(p) \/ Open(p) \/ Lookup(p) \/ Skip(p)
      PROVE  InvUnforced'
  BY <1>3 DEF Start, Finish, Abort, Open, Lookup, Skip
<1>4. ASSUME NEW p \in Proc, Proceed(p) PROVE InvUnforced'
  BY <1>1, <1>4 DEF Proceed, AlreadyIngested
<1>5. ASSUME NEW p \in Proc, DeleteStart(p) \/ DeleteRows(p) \/ InsertDocument(p) PROVE InvUnforced'
  <2>1. \A q \in Proc \ {p} : tx'[q] = tx[q] /\ pc'[q] = pc[q]
    BY <1>5 DEF DeleteStart, DeleteRows, InsertDocument
  <2>2. \/ tx'[p].created
        \/ pc[p] \in {"delete", "deleting"} /\ tx'[p].created = tx[p].created
    BY <1>5 DEF DeleteStart, DeleteRows, InsertDocument
  <2> QED
    BY <2>1, <2>2
<1>6. ASSUME NEW p \in Proc, Embed(p) \/ UpdateDocument(p) \/ InsertChunks(p) PROVE InvUnforced'
  BY <1>6 DEF Embed, UpdateDocument, InsertChunks
<1>7. ASSUME NEW p \in Proc, Commit(p) \/ CommitUnheard(p) PROVE InvUnforced'
  BY <1>7 DEF Commit, CommitUnheard
<1> QED
  BY <1>2, <1>3, <1>4, <1>5, <1>6, <1>7
     DEF Next, Step, OpenFails, InsertDocumentFails, InsertChunksFails, DeadlockVictim, Crash

\* When the parser never comes back empty-handed, a document that is there has
\* chunks, and they are replaced by forced runs only.
THEOREM NonEmptyForce ==
  ASSUME 0 \notin DraftCounts
  PROVE  Spec => OnlyForceReplaces
<1>1. Init => InvUnforced
  BY DEF Init, InvUnforced
<1>2. IInv /\ InvUnforced /\ [Next]_vars
        => [ \A f \in Filing : chunks[f] # {} /\ chunks'[f] # chunks[f]
               => \E p \in Forced : pc[p] = "commit" /\ tx[p].filing = f ]_vars
  <2> SUFFICES ASSUME IInv, InvUnforced, Next, NEW f \in Filing,
                      chunks[f] # {}, chunks'[f] # chunks[f]
               PROVE  \E p \in Forced : pc[p] = "commit" /\ tx[p].filing = f
    OBVIOUS
  <2>1. PICK p \in Proc : pc[p] = "commit" /\ Apply(p)
    BY OnlyCommitsChangeTables DEF Next, table
  <2>2. tx[p].filing = f /\ f \in documents
    BY <2>1 DEF Apply, IInv, TypeOK, WholeVersions
  <2>3. ~tx[p].created
    BY <2>2 DEF IInv, InvSlots, DocumentConflict
  <2> QED
    BY <2>1, <2>2, <2>3 DEF InvUnforced
<1>3. IInv /\ InvUnforced /\ [Next]_vars => InvUnforced'
  BY UnforcedInductive
<1> QED
  BY <1>1, <1>2, <1>3, InvAlways, PTL DEF Spec, OnlyForceReplaces

-----------------------------------------------------------------------------
(***************************************************************************)
(* What a run that is done has done.                                       *)
(***************************************************************************)

\* Every filing of the listing is still to come, in hand, or counted; what is
\* counted is counted once, and in the tables.
InvListed ==
  \A p \in Proc :
    /\ pc[p] = "idle" => ingested[p] = {} /\ skipped[p] = {}
    /\ pc[p] = "done" => todo[p] = {}
    /\ pc[p] \notin {"idle", "failed"}
         => html \subseteq todo[p] \cup ingested[p] \cup skipped[p] \cup {tx[p].filing}
    /\ ingested[p] \cap skipped[p] = {}
    /\ (ingested[p] \cup skipped[p]) \cap (todo[p] \cup {tx[p].filing}) = {}
    /\ ingested[p] \cup skipped[p] \subseteq documents

LEMMA ListedInductive ==
  ASSUME IInv, InvListed, [Next]_vars
  PROVE  InvListed'
<1>1. CASE UNCHANGED vars
  BY <1>1 DEF InvListed, vars
<1> USE IngestAssumption DEF IngestAssumption, InvListed, Goto, IInv, TypeOK, stats, table, disk
<1>2. ASSUME NEW p \in Proc, Start(p) PROVE InvListed'
  BY <1>2 DEF Start, InvOpen, Between, NoTransaction
<1>3. ASSUME NEW p \in Proc, Open(p) PROVE InvListed'
  BY <1>3 DEF Open, InvOpen, Between, NoTransaction
<1>4. ASSUME NEW p \in Proc, Abort(p) PROVE InvListed'
  BY <1>4 DEF Abort, InvOpen, Between, NoTransaction
<1>5. ASSUME NEW p \in Proc, Finish(p) \/ Lookup(p) \/ Proceed(p) PROVE InvListed'
  BY <1>5 DEF Finish, Lookup, Proceed
<1>6. ASSUME NEW p \in Proc, Skip(p) PROVE InvListed'
  BY <1>6 DEF Skip, InvOpen, InvCreated, InvSeen, InvTodo, Between, NoTransaction
<1>7. ASSUME NEW p \in Proc,
             \/ DeleteStart(p) \/ DeleteRows(p) \/ InsertDocument(p)
             \/ Embed(p) \/ UpdateDocument(p) \/ InsertChunks(p)
      PROVE  InvListed'
  <2>1. \A q \in Proc : tx'[q].filing = tx[q].filing
    <3>1. CASE DeleteStart(p) \/ DeleteRows(p) \/ InsertDocument(p)
      BY <3>1 DEF DeleteStart, DeleteRows, InsertDocument, Transaction
    <3>2. CASE Embed(p) \/ UpdateDocument(p) \/ InsertChunks(p)
      BY <3>2 DEF Embed, UpdateDocument, InsertChunks, Transaction
    <3> QED
      BY <1>7, <3>1, <3>2
  <2>2. /\ pc[p] \in Between
        /\ pc'[p] \in Between
        /\ \A q \in Proc \ {p} : pc'[q] = pc[q]
    <3>1. PICK s \in Between : pc' = [pc EXCEPT ![p] = s]
      BY <1>7 DEF DeleteStart, DeleteRows, InsertDocument, Embed, UpdateDocument, InsertChunks,
                  Between
    <3>2. pc[p] \in Between
      BY <1>7 DEF DeleteStart, DeleteRows, InsertDocument, Embed, UpdateDocument, InsertChunks,
                  Between
    <3> QED
      BY <3>1, <3>2
  <2>3. UNCHANGED <<documents, html, todo, ingested, skipped>>
    BY <1>7 DEF DeleteStart, DeleteRows, InsertDocument, Embed, UpdateDocument, InsertChunks
  <2> QED
    BY <2>1, <2>2, <2>3 DEF Between
<1>8. ASSUME NEW p \in Proc, Commit(p) PROVE InvListed'
  BY <1>8 DEF Commit, Apply, InvOpen, InvTodo, Between, NoTransaction
<1>9. ASSUME NEW p \in Proc, CommitUnheard(p) PROVE InvListed'
  BY <1>9 DEF CommitUnheard, Apply, InvOpen, Between, NoTransaction
<1> QED
  BY <1>1, <1>2, <1>3, <1>4, <1>5, <1>6, <1>7, <1>8, <1>9
     DEF Next, Step, OpenFails, InsertDocumentFails, InsertChunksFails, DeadlockVictim, Crash

\* A run ends in success only when every filing it listed is in the tables, put
\* there by this run or found there, never both.
THEOREM DoneIsStored == Spec => []DoneMeansStored
<1>1. Init => InvListed
  BY IngestAssumption DEF IngestAssumption, Init, InvListed, NoTransaction
<1>2. IInv /\ InvListed => DoneMeansStored
  BY IngestAssumption
     DEF IngestAssumption, IInv, TypeOK, InvOpen, InvListed, DoneMeansStored, Between, NoTransaction
<1>3. IInv /\ InvListed /\ [Next]_vars => InvListed'
  BY ListedInductive
<1> QED
  BY <1>1, <1>2, <1>3, InvAlways, PTL DEF Spec

=============================================================================
