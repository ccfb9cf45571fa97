------------------------------- MODULE Ingest -------------------------------
(***************************************************************************)
(* `python -m secrag.ingestion.pipeline`: several runs of ingest_directory *)
(* load the filings found in data/raw into Postgres, one transaction per   *)
(* filing.  Every SQL statement is a step of its own, because each one is  *)
(* an await at which another run may go on.                                *)
(*                                                                         *)
(* Postgres runs at READ COMMITTED: a statement sees what was committed    *)
(* when it started, a statement that meets a row written by a transaction  *)
(* still in progress waits for the end of it, and a cycle of waiting       *)
(* transactions is broken by aborting one of them.                         *)
(*                                                                         *)
(* A filing is identified by its accession number (UNIQUE), so a document  *)
(* and its filing are the same thing here.  Chunk contents are left out:   *)
(* a chunk is the run that wrote it and its chunk_index.                   *)
(***************************************************************************)
EXTENDS Naturals

CONSTANTS
  Filing,       \* filings, identified by their accession number
  SlotOf,       \* SlotOf[f] = <<ticker, filing_type, fiscal_year>> of filing f
  Rank,         \* Rank[f]: position of the path of f in sorted(glob("*/*.html"))
  Proc,         \* runs of the ingestion command
  Forced,       \* the runs started with --force
  Earlier,      \* stands for the runs that finished before the model starts
  DraftCounts,  \* how many chunks parse_10k and chunk_sections may yield
  NoFiling      \* the filing of a run that has no transaction open

IngestAssumption ==
  /\ Forced \subseteq Proc
  /\ Earlier \notin Proc
  /\ NoFiling \notin Filing
  /\ NoFiling \notin [run : Proc \cup {Earlier}, idx : Nat]
  /\ DraftCounts \subseteq Nat
  /\ Rank \in [Filing -> Nat]

ASSUME IngestAssumption

VARIABLES
  documents,  \* committed rows of table documents
  chunks,     \* chunks[f]: committed rows of table chunks for document f
  html,       \* filings whose html file is in data/raw
  sidecar,    \* filings whose json sidecar is in data/raw, complete
  pc,         \* pc[p]: the statement run p executes next
  todo,       \* todo[p]: filings of the directory listing p has yet to open
  tx,         \* tx[p]: the transaction of p
  ingested,   \* ingested[p]: filings counted in stats.documents_ingested
  skipped     \* skipped[p]: filings counted in stats.documents_skipped

disk  == <<html, sidecar>>
table == <<documents, chunks>>
stats == <<ingested, skipped>>
vars  == <<documents, chunks, html, sidecar, pc, todo, tx, ingested, skipped>>

Writer == Proc \cup {Earlier}
Chunk  == [run : Writer, idx : Nat]

Version(r, n) == { [run |-> r, idx |-> i] : i \in 0 .. n - 1 }

Statement == {"idle", "scan", "lookup", "count", "delete", "deleting",
              "insert", "embed", "update", "fill", "commit"}

Ended == {"done", "failed"}

Transaction ==
  [ filing  : Filing \cup {NoFiling},
    created : BOOLEAN,        \* has it inserted the documents row?
    seen    : SUBSET Chunk,   \* rows in the snapshot of its DELETE
    deleted : SUBSET Chunk,   \* rows it has deleted
    drafts  : Nat ]           \* number of chunks it is going to insert

NoTransaction == [filing |-> NoFiling, created |-> FALSE, seen |-> {},
                  deleted |-> {}, drafts |-> 0]

TypeOK ==
  /\ documents \subseteq Filing
  /\ chunks \in [Filing -> SUBSET Chunk]
  /\ html \subseteq Filing
  /\ sidecar \subseteq Filing
  /\ pc \in [Proc -> Statement \cup Ended]
  /\ todo \in [Proc -> SUBSET Filing]
  /\ tx \in [Proc -> Transaction]
  /\ ingested \in [Proc -> SUBSET Filing]
  /\ skipped \in [Proc -> SUBSET Filing]

-----------------------------------------------------------------------------
(***************************************************************************)
(* The tables start as earlier runs left them, the directory as earlier    *)
(* downloads left it.                                                      *)
(***************************************************************************)
Init ==
  /\ documents \in { D \in SUBSET Filing :
                       \A f, g \in D : SlotOf[f] = SlotOf[g] => f = g }
  /\ chunks \in [Filing -> { Version(Earlier, n) : n \in DraftCounts } \cup {{}}]
  /\ \A f \in Filing : IF f \in documents
                         THEN \E n \in DraftCounts : chunks[f] = Version(Earlier, n)
                         ELSE chunks[f] = {}
  /\ html \in SUBSET Filing
  /\ sidecar \in SUBSET html
  /\ pc = [p \in Proc |-> "idle"]
  /\ todo = [p \in Proc |-> {}]
  /\ tx = [p \in Proc |-> NoTransaction]
  /\ ingested = [p \in Proc |-> {}]
  /\ skipped = [p \in Proc |-> {}]

Goto(p, s) == pc' = [pc EXCEPT ![p] = s]

\* An exception leaves `async with factory() as session`: the transaction is
\* rolled back, and nothing in ingest_directory or main catches it.
Abort(p) ==
  /\ Goto(p, "failed")
  /\ tx' = [tx EXCEPT ![p] = NoTransaction]
  /\ UNCHANGED <<table, disk, todo, stats>>

-----------------------------------------------------------------------------
(***************************************************************************)
(* ingest_directory.                                                       *)
(***************************************************************************)

\* sorted(raw_dir.glob(...)) lists the directory once, before the loop.
Start(p) ==
  /\ pc[p] = "idle"
  /\ todo' = [todo EXCEPT ![p] = html]
  /\ Goto(p, "scan")
  /\ UNCHANGED <<table, disk, tx, stats>>

\* The next path of the listing, its sidecar read, and a session opened.
Open(p) ==
  /\ pc[p] = "scan"
  /\ \E f \in todo[p] :
       /\ \A g \in todo[p] : Rank[f] <= Rank[g]
       /\ f \in sidecar
       /\ todo' = [todo EXCEPT ![p] = @ \ {f}]
       /\ tx' = [tx EXCEPT ![p] = [NoTransaction EXCEPT !.filing = f]]
  /\ Goto(p, "lookup")
  /\ UNCHANGED <<table, disk, stats>>

\* Mutant: the exception is caught and the filing passed over.
OpenFails_Continues(p) ==
  /\ pc[p] = "scan"
  /\ \E f \in todo[p] \ sidecar :
       todo' = [todo EXCEPT ![p] = @ \ {f}]
  /\ UNCHANGED <<table, disk, pc, tx, stats>>

\* read_text or json.loads raises: the sidecar is missing or torn.
OpenFails(p) ==
  /\ pc[p] = "scan"
  /\ \E f \in todo[p] :
       /\ \A g \in todo[p] : Rank[f] <= Rank[g]
       /\ f \notin sidecar
  /\ Abort(p)

Finish(p) ==
  /\ pc[p] = "scan"
  /\ todo[p] = {}
  /\ Goto(p, "done")
  /\ UNCHANGED <<table, disk, todo, tx, stats>>

-----------------------------------------------------------------------------
(***************************************************************************)
(* _ingest_filing.                                                         *)
(***************************************************************************)

Lookup(p) ==
  /\ pc[p] = "lookup"
  /\ Goto(p, IF tx[p].filing \in documents THEN "count" ELSE "insert")
  /\ UNCHANGED <<table, disk, todo, tx, stats>>

\* Mutant: n_existing is not looked at.
AlreadyIngested_Never(p) == FALSE

\* n_existing and not force
AlreadyIngested(p) == chunks[tx[p].filing] # {} /\ p \notin Forced

\* Mutant: the session is closed before the filing is counted.
Skip_ClosesFirst(p) ==
  /\ pc[p] = "count"
  /\ AlreadyIngested(p)
  /\ tx' = [tx EXCEPT ![p] = NoTransaction]
  /\ skipped' = [skipped EXCEPT ![p] = @ \cup {tx'[p].filing}]
  /\ Goto(p, "scan")
  /\ UNCHANGED <<table, disk, todo, ingested>>

Skip(p) ==
  /\ pc[p] = "count"
  /\ AlreadyIngested(p)
  /\ skipped' = [skipped EXCEPT ![p] = @ \cup {tx[p].filing}]
  /\ tx' = [tx EXCEPT ![p] = NoTransaction]
  /\ Goto(p, "scan")
  /\ UNCHANGED <<table, disk, todo, ingested>>

Proceed(p) ==
  /\ pc[p] = "count"
  /\ ~AlreadyIngested(p)
  /\ Goto(p, "delete")
  /\ UNCHANGED <<table, disk, todo, tx, stats>>

\* DELETE FROM chunks: the snapshot of the statement fixes its target rows.
DeleteStart(p) ==
  /\ pc[p] = "delete"
  /\ tx' = [tx EXCEPT ![p].seen = chunks[tx[p].filing]]
  /\ Goto(p, "deleting")
  /\ UNCHANGED <<table, disk, todo, stats>>

\* The transactions that run p is waiting for: they have deleted rows it wants
\* to delete, hold a unique key it wants to insert, have updated the document.
Holders(p) ==
  { q \in Proc \ {p} :
      \/ /\ pc[p] = "insert"
         /\ tx[q].created
         /\ SlotOf[tx[q].filing] = SlotOf[tx[p].filing]
      \/ /\ tx[q].filing = tx[p].filing
         /\ \/ /\ pc[p] = "deleting"
               /\ tx[q].deleted \cap tx[p].seen # {}
            \/ /\ pc[p] = "update"
               /\ pc[q] \in {"fill", "commit"}
            \/ /\ pc[p] = "fill"
               /\ \E c \in tx[q].deleted \cap chunks[tx[p].filing] :
                    c.idx < tx[p].drafts }

\* Rows deleted by transactions that committed meanwhile are passed over; rows
\* they inserted are not in the snapshot and stay.
DeleteRows(p) ==
  /\ pc[p] = "deleting"
  /\ Holders(p) = {}
  /\ tx' = [tx EXCEPT ![p].deleted = tx[p].seen \cap chunks[tx[p].filing]]
  /\ Goto(p, "embed")
  /\ UNCHANGED <<table, disk, todo, stats>>

\* Mutant: a table without its second constraint.
DocumentConflict_AccessionOnly(f) == f \in documents

\* UNIQUE (accession_number), UNIQUE (ticker, filing_type, fiscal_year)
DocumentConflict(f) == \E g \in documents : g = f \/ SlotOf[g] = SlotOf[f]

InsertDocument(p) ==
  /\ pc[p] = "insert"
  /\ Holders(p) = {}
  /\ ~DocumentConflict(tx[p].filing)
  /\ tx' = [tx EXCEPT ![p].created = TRUE]
  /\ Goto(p, "embed")
  /\ UNCHANGED <<table, disk, todo, stats>>

\* Mutant: on IntegrityError the filing is looked up again.
InsertDocumentFails_Retries(p) ==
  /\ pc[p] = "insert"
  /\ Holders(p) = {}
  /\ DocumentConflict(tx[p].filing)
  /\ Goto(p, "lookup")
  /\ UNCHANGED <<table, disk, todo, tx, stats>>

InsertDocumentFails(p) ==
  /\ pc[p] = "insert"
  /\ Holders(p) = {}
  /\ DocumentConflict(tx[p].filing)
  /\ Abort(p)

\* parse_10k, chunk_sections, embed_passages, session.add_all: no await inside.
Embed(p) ==
  /\ pc[p] = "embed"
  /\ \E n \in DraftCounts : tx' = [tx EXCEPT ![p].drafts = n]
  /\ Goto(p, "update")
  /\ UNCHANGED <<table, disk, todo, stats>>

\* commit() flushes: UPDATE documents SET ingested_at first (parent table) ...
UpdateDocument(p) ==
  /\ pc[p] = "update"
  /\ Holders(p) = {}
  /\ Goto(p, "fill")
  /\ UNCHANGED <<table, disk, todo, tx, stats>>

\* Mutant: chunks has no UNIQUE (document_id, chunk_index).
ChunkConflict_Never(p) == FALSE

\* ... then INSERT INTO chunks, under UNIQUE (document_id, chunk_index).
ChunkConflict(p) ==
  \E c \in chunks[tx[p].filing] \ tx[p].deleted : c.idx < tx[p].drafts

InsertChunks(p) ==
  /\ pc[p] = "fill"
  /\ ~ChunkConflict(p)
  /\ Goto(p, "commit")
  /\ UNCHANGED <<table, disk, todo, tx, stats>>

InsertChunksFails(p) ==
  /\ pc[p] = "fill"
  /\ ChunkConflict(p)
  /\ Holders(p) = {}
  /\ Abort(p)

\* What a commit makes visible, at once.
Apply(p) ==
  /\ documents' = documents \cup {tx[p].filing}
  /\ chunks' = [chunks EXCEPT ![tx[p].filing] =
                  (@ \ tx[p].deleted) \cup Version(p, tx[p].drafts)]

Commit(p) ==
  /\ pc[p] = "commit"
  /\ Apply(p)
  /\ ingested' = [ingested EXCEPT ![p] = @ \cup {tx[p].filing}]
  /\ tx' = [tx EXCEPT ![p] = NoTransaction]
  /\ Goto(p, "scan")
  /\ UNCHANGED <<disk, todo, skipped>>

\* The server commits but the run dies, or loses its connection, before it
\* hears of it.
CommitUnheard(p) ==
  /\ pc[p] = "commit"
  /\ Apply(p)
  /\ tx' = [tx EXCEPT ![p] = NoTransaction]
  /\ Goto(p, "failed")
  /\ UNCHANGED <<disk, todo, stats>>

\* An exception (unreadable html, model error, lost connection) or a kill.
Crash(p) ==
  /\ pc[p] \notin Ended \cup {"idle"}
  /\ Abort(p)

\* Postgres finds p in a cycle of waiting transactions and aborts it.
DeadlockVictim(p) ==
  /\ \E q \in Holders(p) : p \in Holders(q)
  /\ Abort(p)

-----------------------------------------------------------------------------
Step(p) ==
  \/ Open(p) \/ OpenFails(p) \/ Finish(p)
  \/ Lookup(p) \/ Skip(p) \/ Proceed(p)
  \/ DeleteStart(p) \/ DeleteRows(p)
  \/ InsertDocument(p) \/ InsertDocumentFails(p)
  \/ Embed(p)
  \/ UpdateDocument(p)
  \/ InsertChunks(p) \/ InsertChunksFails(p)
  \/ Commit(p) \/ CommitUnheard(p)
  \/ DeadlockVictim(p)

Next == \E p \in Proc : Start(p) \/ Step(p) \/ Crash(p)

Spec == Init /\ [][Next]_vars

\* A run that was started is scheduled, and Postgres ends a deadlock, as long
\* as a step of it is possible.  Nothing obliges anyone to start a run.
Fairness == \A p \in Proc : WF_vars(Step(p))

FairSpec == Spec /\ Fairness

-----------------------------------------------------------------------------
(***************************************************************************)
(* Properties.                                                             *)
(***************************************************************************)

\* Whatever runs overlap, crash or deadlock, the chunks of a document are those
\* of one pass of _ingest_filing, all of them: a forced re-ingest never leaves
\* its chunks among those of another run, nor a document half filled.
WholeVersions ==
  \A f \in Filing :
    IF f \in documents
      THEN \E r \in Writer, n \in DraftCounts : chunks[f] = Version(r, n)
      ELSE chunks[f] = {}

\* ingest_directory returns only when every filing it listed is in the tables,
\* put there by this run or found there, never both.
DoneMeansStored ==
  \A p \in Proc :
    /\ ingested[p] \cap skipped[p] = {}
    /\ ingested[p] \cup skipped[p] \subseteq documents
    /\ pc[p] = "done" => html \subseteq ingested[p] \cup skipped[p]

\* "Idempotent: a document whose accession_number already has chunks is skipped
\* unless --force": chunks that are there are replaced by forced runs only.
\* (n_existing is read one statement before the DELETE.)
OnlyForceReplaces ==
  [][ \A f \in Filing :
        chunks[f] # {} /\ chunks'[f] # chunks[f]
          => \E p \in Forced : pc[p] = "commit" /\ tx[p].filing = f ]_vars

\* The same of what was stored before: no unforced run replaces chunks of a run
\* that had ended when it started, with empty documents or without.
StoredIsKept ==
  [][ \A f \in Filing :
        (\E c \in chunks[f] : c.run = Earlier) /\ chunks'[f] # chunks[f]
          => \E p \in Forced : pc[p] = "commit" /\ tx[p].filing = f ]_vars

\* A run that was started ends, in success or in failure: runs never wait for
\* each other for ever, on row locks or on uncommitted unique keys.
StartedEnds ==
  \A p \in Proc : pc[p] # "idle" ~> pc[p] \in Ended

\* Readers see the corpus the abstract specification describes.
Published == INSTANCE Corpus WITH
  Writer <- Writer,
  NoDocument <- {NoFiling},
  corpus <- [f \in Filing |-> IF f \in documents THEN chunks[f] ELSE {NoFiling}]

CorpusSpec == Published!Spec

=============================================================================
