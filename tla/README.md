# A verification project for secrag

secrag answers questions about SEC 10-K filings: it downloads filings from EDGAR, cuts them into
chunks, stores them in Postgres, finds the chunks a question is about, and streams an answer that a
paid model writes from them. This directory holds TLA+ models of that program, the TLC runs that
check them on small instances, and proofs that TLAPS checks for every size of instance.

Paths below are relative to the root of the repository; most of the code is in `src/secrag/`. In
`PROJECT.json` they have another `src/` in front.

    tlasany M.tla                   # parse
    tlc -config MCx.cfg MCy         # one run
    tlapm IngestProofs.tla          # the proofs of one module

## 1. Inventory

| Component | Code | State it keeps | Operations |
|---|---|---|---|
| ingestion pipeline | `ingestion/pipeline.py`, `models.py` | tables `documents`, `chunks`; the loop over `data/raw`; `IngestStats` | lookup, count, delete, insert, embed, commit per filing; `--force` |
| download command | `ingestion/download.py` | html and json files of `data/raw` | look up a company, skip, fetch, write two files |
| EDGAR client | `ingestion/edgar.py` | `_last_request_at`, attempt number | throttle, request, redirect, retry with backoff |
| parser, chunker | `ingestion/parse10k.py`, `chunker.py` | none (pure) | sections in Item order; packing and merging of blocks |
| retrieval | `retrieval/search.py`, `_retrieve` in `api/main.py` | one session, one request | catalog, scopes, vector and full-text search, fusion, interleaving, reranking |
| rate limiter | `api/ratelimit.py` | counters in Redis with a TTL | INCR, EXPIRE, fail open |
| ask stream | `ask` in `api/main.py`, `generation.py` | an async generator in a server task, its deadline | sources, tokens, done or gen_error |
| page | `api/static/index.html` | `es`, `raw`, what is on display | `go`, five event handlers |
| generation evaluation | `evals/gen.py` | checkpoint file, results, changelog | resume, answer, grade, record, publish, unlink |
| retrieval evaluation, golden set, gate | `evals/run.py`, `golden.py`, `metrics.py`, `gate.py` | results, changelog, golden file | resolve references, measure, compare with thresholds |
| models | `embedding.py`, `rerank.py` | cached singletons | embed, score |
| shell | `db.py`, `config.py`, `schemas.py`, the other routes | engine and its pool | sessions, static pages |
| deployment | `Dockerfile`, `docker-compose.yml`, `.github/` | - | - |

How they interact. *Download* and *ingestion* share `data/raw`: ingestion trusts that an html file
has a sidecar. *Ingestion* and *retrieval* share the tables: a retrieval issues several statements
and each sees the latest commits. *Ask* calls the limiter, then retrieval, then the model, and talks
to the *page* over one connection whose two ends fail separately. The *evaluations* call retrieval
and the model, and leave files that the *gate* reads.

What is hard, and what makes each component correct:

* **Ingestion.** Runs overlap (nothing stops an operator from starting two) and Postgres interleaves
  their statements; runs crash; commits are lost on the way back; runs wait for each other. Correct
  means: readers see whole versions of documents, never a mixture; a run that returns has stored what
  it listed; nothing is replaced without `--force`; waiting ends.
* **Rate limiter.** Two commands that are not atomic, a clock read before an await, Redis that is
  down, silent, late, or has forgotten. Correct means: no more than `limit` pass; nobody is refused
  for the requests of others; no request waits for Redis for ever; no key stays for ever by mere
  interleaving.
* **Retrieval.** The corpus changes between two statements; question and filters combine into scopes;
  two cuts (`rerank_candidates`, `k`) can drop a scope. Correct means: filters hold, nothing comes
  twice, each scope that has something is represented, fusion respects both rankings.
* **Ask and page.** A deadline that cancels a task wherever it is; a client that reads slowly or goes;
  a user who asks again while an answer is coming. Correct means: the events keep their order, the
  page shows the text of its own question, an answer is "complete" only when it is, both sides come
  to an end.
* **Generation evaluation.** It costs money, so it is interrupted and resumed; four files are written
  one after the other. Correct means: a result has every question once, rows are not lost, what is
  recorded is not paid again, a result has no answers but of its run and of runs cut short before it.
* **Retrieval evaluation, gate.** References are resolved once and used until the end, results of two
  commands share a directory and a way of naming files. Correct means: the metrics speak of the
  passages that were quoted; the verdict changes because of a result, and not because something was
  interrupted.
* **Parser and chunker.** Nothing concurrent, but many cases: nested and hidden elements, ragged
  tables, headings out of order, token counts that are rounded down. Correct means: nothing a reader
  sees is lost, doubled or moved; sections are divided where the rule says; sizes have a cause.
* **EDGAR client, download.** Throttle, retries and redirects; files half written. Correct means: the
  rate stays near the limit, a run that succeeds leaves both files of each filing it was asked for.

`PROJECT.json` lists under `hazards` each place where this can go wrong, with the properties that
look at it, or the reason why none does yet.

## 2. Modules

| Module | Models | Instances |
|---|---|---|
| `Corpus` | abstract: documents appear and are replaced in one piece | refined by `Ingest` |
| `Ingest` | `ingest_directory`, `_ingest_filing`, what Postgres does with their statements | `MCIngest` |
| `IngestProofs` | theorems about `Ingest` | - |
| `RateLimit` | `check_rate_limit` and Redis | `MCRateLimit` |
| `RateLimitProofs` | theorems about `RateLimit` | - |
| `Retrieval` | pure functions of `search.py` | through `Search` |
| `Search` | `_retrieve` over a corpus that changes | through `RetrievalEval` |
| `RetrievalEval` | `resolve_refs`, `run_retrieval_eval`, `recall_at_k`, `mrr_at_k` over `Search` | `MCSearch` |
| `SearchProofs` | theorems about `Search` and `RetrievalEval` | - |
| `AskStream` | `ask`, `stream`, the pool of connections, uvicorn's flow control, `go()` in the page | `MCAskStream` |
| `AskStreamProofs` | theorems about `AskStream` | - |
| `GenEval` | `run_generation_eval`, `write_result`, `main` of `gen.py` | through `Gate` |
| `Gate` | `load_runs`, `check`; what `run.py` publishes; over `GenEval` | `MCGenEval` |
| `GateProofs` | theorems about `GenEval` and `Gate` | - |
| `Chunker` | pure functions of `chunker.py` | through `FilingText` |
| `FilingText` | from the blocks of a page to its chunks, within `_ingest_filing`: the loops of `parse_10k`, `_pack_section`, `chunk_sections` | through `FilingPage` |
| `FilingTextProofs` | theorems about `FilingText` and `Chunker` | - |
| `Parse10k` | from the tree of a page to its blocks, pure | through `FilingPage` |
| `FilingPage` | `FilingText` on the blocks of a page | `MCFilingText` |
| `EdgarClient` | `_throttle`, `_get` | `MCEdgarClient` |
| `EdgarClientProofs` | theorems about `EdgarClient` | - |
| `Download` | `download_10ks`, `parse_10k_filings` | `MCDownload` |
| `DownloadProofs` | theorems about `Download` | - |

Definitions named `Mutant` in a comment (`Skip_ClosesFirst`, ...) are plausible bugs: each replaces
the definition it precedes, and each makes the run that checks the property named in `mutants` fail.
They take no part in the specifications.

### Ingest and Corpus

One action per SQL statement of `_ingest_filing`, because each is an `await`: `Lookup` (41),
`Skip`/`Proceed` (45-49), `DeleteStart` and `DeleteRows` (50: the snapshot of a DELETE, and the rows
it gets once nobody holds them), `InsertDocument` (52-63), `Embed` (65-83, no await inside),
`UpdateDocument` and `InsertChunks` (the two statements of the flush in `commit`, 84-85), `Commit`.
`Open`, `OpenFails` and `Finish` are the loop of `ingest_directory`. Every statement that fails has an
action (`...Fails`) that rolls the transaction back and ends the run, as the code does. `Crash` is any
exception or kill, `CommitUnheard` a commit whose confirmation is lost, `DeadlockVictim` Postgres's
deadlock detector: two transactions that wait for each other (on two documents or on one) are one
cycle of length two in this program because a transaction touches one filing only.

A chunk is the run that wrote it and its `chunk_index`, so that chunks of two runs can be told apart.
`documents` and `chunks` are committed rows; what a transaction has done but not committed is in its
record `tx[p]`, and the locks it holds are those `Holders` computes.

`Corpus` says what a reader may rely on: a filing has no document, or a whole version of chunks,
published in one step in a free (ticker, type, year) slot. The refinement mapping sends a filing to
its committed chunks, or to `NoDocument`.

### RateLimit

`Arrive` reads the clock and builds the key; `IncrExecuted`, `Replied`, `Expired` are the two commands
and the answer of the first; `FailOpen` is the `except Exception` of line 42, at any await. A command
whose caller gave up may be executed later (`Late`) or never. `GoDown`/`ComeBack` lose the connection,
or the whole memory. A key is dropped at its deadline (`Tick`); `life` counts how often. Commands are
executed at most once: redis-py does not send one again after a timeout. The logging flag `_warned`
is left out. That a client may get up to twice the limit across the boundary of two windows is the
design ("Fixed-window") and is not a property here. An INCR that is executed after the key of its
window has expired begins a second count for that window; what holds is `LifeLimit`, per life of a key,
and `KeyOutlivesWindow`: while Redis is up a life lasts as long as the window, so that within the window
the limit is the documented one.

### Retrieval and Search

`Search` is the sequence of statements of one `_retrieve`, with `Republish` between any two of them. The
catalog has the tickers of all documents, also of those that were ingested and yielded no chunks.
What an index returns is any sequence of at most k matching chunks: the HNSW index on embeddings is
approximate, and a full-text query matches what it matches. The reranker may score anything.
`Retrieval` has the functions between the statements. They sort and filter by ranks: the element at
place n of a sorted list is the one with n - 1 elements before it, the scope in turn takes the first
chunk that earlier scopes left. `rrf_fuse` adds the reciprocals as fractions; in floating point two sums
of equal value could compare either way, with the lengths of the run no such pair exists, and
`FusionRespectsBoth` compares only scores of which one is the greater by more than rounding can hide (for
lists of at most `CANDIDATE_K`, 50, by a 12,000th or more). `comparison_topic` only changes the words of the full-text query, which
the model leaves open anyway. A comparison of years is split by year whether a company was recognised
or not; the docstring ("by year for one company") is narrower, and the properties hold in both cases.
What the regular expressions recognise in a question is part of the
request.

### RetrievalEval

It extends `Search`: an evaluation is a query with references and no filters. `resolve_refs` looks up
all references of the golden file before the first question is asked (one `SELECT` each: `ResolveRef`),
in a session that is closed before the questions begin; a filing that is re-ingested after that has
chunks with new ids (`Reingest`), and the ids in hand name nothing. The docstring of `golden.py` says
that resolution fails loudly; an id that has gone stale does not, it lowers recall and MRR
silently. That `DocumentOf` names no (ticker, fiscal year) twice is the UNIQUE constraint of `documents`,
where every filing is a 10-K. `MeasuresPassages` says that this is the only way in which a metric can miss a passage that
was found. A reference stands for the one chunk its quote is in; that a quote may match several is
left out, and so are the means over questions.

### AskStream

The server's task for a request passes `limiter` (`check_rate_limit`, which knows no session: the
session of `get_session` exists, but takes a connection with its first statement) and `pool`, where it
waits for a connection (`Connect`) or gives up after `pool_timeout` (`PoolTimeout`). It keeps the
connection while the answer is streamed, however long the client takes, until the response has ended
(`End`). `SearchConnects` and `SearchEnds` are requests of `/search`, which use the same pool. Then it is
in `retrieve`, `writing` (the generator is suspended in `yield`)
or `model` (it waits for the model inside `asyncio.timeout`). The difference decides what the deadline
does: in `model` it becomes a TimeoutError in the generator and a `gen_error`; in `writing` it is
raised outside (`DeadlineInWrite`), and only where the task really waits, that is with the transport
paused. `Disconnected` is Starlette's cancellation of the task when the client has gone. In the page,
`Go` closes the previous EventSource, `Dispatch` runs the handler of one event, `ConnectionLost` is
`onerror`; handlers use the page's current `es`, whichever source fired them, as in the code. The
behaviour of the libraries is that of the versions in `uv.lock` (uvicorn 0.50, Starlette 1.3,
FastAPI 0.139).

`ConnectionLost` may come at any time of a connection, also with events that arrived and were not
dispatched, which are then lost. An answer that ends early after some text was shown is left standing
without a warning ("stopped"): this is what line 175 of `index.html` does, and no document says otherwise.
`onerror` runs the same handler as `gen_error`: a question that is refused (429, 5xx), or lost before its
sources, ends as "offline" too, and line 176 then tells the user of "the sources below" although there are
none. This takes one step to see and has no run.

### GenEval

The files survive an interruption (`checkpoint`, `results`, `changelog`), the rest is the process.
`Break` is its end, at any point; `InterruptedInWrite` also leaves half a line or half a file (of a line
cut just before its newline, see section 5). A torn
line makes `LoadFails` the only thing later runs can do, as in the code, until someone removes it.
One evaluation runs at a time. `results` is the directory `evals/results` as a sequence of files in
the order of their `created_at`, which here is the order in which they are written; `Put` replaces the
file of the same name, since a name is only a date and a label. The name is chosen where it is used, at
the write: nothing before depends on it. Nothing reads the changelog, so that its lines are left out
and `WriteChangelog` is only a step at which the command may be interrupted. `paid` and `broken` are
auxiliary: the answers paid for, and the options of the runs that ended early, both since the last success.
The checkpoint names no options, so that a run with other options resumes the rows of a run that ended
early, and publishes them as its own. `MixedHasCause` does not forbid this, it says how far it goes: the
answers of a result are of its own run or of a run that ended early after the last success, and of no
other.

### Gate

It adds to `GenEval` the results of the retrieval evaluation, which change nothing else and are
published in one step (`PublishRetrieval`), or torn. `GatePasses` is a function of the directory:
`load_runs` raises on a torn file, takes the last reranked retrieval and the last generation, and `check`
compares them with the thresholds. Thresholds are abstracted to whether an answer, or a result, is
good. `GateTurnsWithCause` lists what may change the verdict. Two of the causes may surprise: a torn
file, whoever wrote it and whether or not it would be judged, fails the gate (and `/evals/data`) until
it is removed; and a result which takes the name of a bad one takes its place, so that an older
good one decides again.

### Parse10k, Chunker, FilingText, FilingPage

`Parse10k` makes blocks of a tree of nodes; a text node is a sentence with a length, which may begin with
the name of an Item. `FilingText` takes blocks to chunks, and a step is a turn of a loop: `TakeBlock` of
the one in `parse_10k`, `PackBlock` and `MergeProto` of the two in `_pack_section`; `Parsed`, `LastFlush` and
`EndSection` are what follows each. `buf` of `_pack_section` is `parts`, before it is divided: `Flushed`
does so, with the same loop (`Packed`) that `_split_long_text` and `_split_table` have. `FilingText`
starts with any blocks, `FilingPage` with those of a page. The properties compare each part with a
definition that does not follow the code: what a reader sees from top to bottom, headings as records in
the order of Items, units of text in their order.

What the runs say precisely, and the comments in the code do not:

* The walk drops text that stands directly beside block elements, shows hidden elements below a leaf
  or in a table (`test_hidden_content_excluded` has hidden blocks only), and doubles the rows of a table
  within a table. `TextKept` is about pages without these (`Tidy`); it holds for no other reason.
* A heading is accepted as soon as its item is beyond those before it. One short line that begins with
  "Item 15" makes every later heading body text, as the docstring accepts. `SectionsByRecords` states
  the rule for any order.
* `test_chunk_sizes_bounded` in `tests/test_chunker.py` expects that no text chunk exceeds the maximum by
  more than 120 tokens. That is so for its filing. In general a single long sentence is never cut, and
  tokens are floors of a quarter of the length that are added up, so that many short lines make a chunk
  of up to nine characters per token of the target, 2.25 times what is meant: `SizesHaveCause`.

### EdgarClient, Download

Time in `EdgarClient` is relative (ages, and the sleep that remains), which makes its state space finite
without a bound on time. `_last_request_at` is set in `Awake`, the request leaves in `Send`, at any
later time. `Refused` is a 429 or a 5xx and leads to `Retry` until the fifth attempt; other errors end
the call. EDGAR counts requests as they arrive, and the code sets two of them
closer than the interval: a request that is long on its way, a first connection for instance, arrives
together with the one after it, and a redirect is followed by httpx itself, which does not pass
`_throttle`. So `edgar.py:1`, "<=10 req/s", is not what the code does: `RequestsWithinLimit` counts every
request and is violated, with redirects (the shortest trace) and, when `MaxRedirects` is 0, without, since
ten intervals of 0.11 s leave no room for a delay of one tenth. What does hold, whatever is refused and
retried, is `AttemptsAlmostWithinLimit`: one attempt more than the limit, and each with its redirects.

`Download` runs one command at a time over the two files of each filing; a run may end before, within or
between the writes. Files have a place (`Out`): the directory of the ticker, and the name, of which the
accession number is kept, since the fiscal year depends on it; two tickers of one company have copies.
`Newest` is Python's slice, also for a negative `--years`. What is received is whole: httpx raises when a
body is cut short. A run that is cut off while it writes leaves half a filing, and no later run looks at
more than `out.exists()`: `PairedUnlessCut` says that such a half is the only one there can be, and that it
stays; `OrderFulfilled` that a run which is done has everything else it was asked for, whatever order the
runs before it had. That nothing is downloaded twice (`WrittenIsKept`) is a theorem without a run.

## 3. Runs

| Run | Checks | Shows |
|---|---|---|
| `ingest` | `TypeOK` `WholeVersions` `DoneMeansStored` `StoredIsKept` `CorpusSpec` `StartedEnds` | whole versions whatever overlaps, crashes or deadlocks; the code implements `Corpus`; runs never wait for each other for ever |
| `ingest_empty` (violated) | `OnlyForceReplaces` | a filing that had yielded no chunks: an unforced run replaces what another has just written |
| `limit` | `TypeOK` `LifeLimit` `LimitedWithCause` `OrphanHasCause` `KeyOutlivesWindow` `EveryRequestAnswered` | the counter is right for every interleaving, outage and late command; no request depends on Redis to end |
| `search` | `TypeOK` `FiltersHonoured` `ScopesRepresented` `FusionRespectsBoth` `MeasuresPassages` | for every answer of the indexes, every score, and re-ingestion in between; what an evaluation measures when ids go stale |
| `ask` | `TypeOK` `EventOrder` `CompleteIsComplete` `TextOfThisQuestion` `PageSettles` `TaskEnds` `PoolRefills` | two questions, failures and deadlines anywhere, slow reading; both ends finish though the model may never answer, and an exhausted pool gets connections back |
| `ask_cut` (violated) | `EndsWithTerminal` | the deadline in a paused write kills the connection |
| `eval` | `TypeOK` `ResultsComplete` `RowsSurvive` `RecordedIsNotPaidAgain` `MixedHasCause` `RunEnds` `GateTurnsWithCause` | five starts of either evaluation, interrupted anywhere, with two sets of options and two names; a run ends though the API may never answer; the gate turns only with cause |
| `eval_paid` (violated) | `NeverPaidTwice` | an answer is paid again when its grading fails |
| `edgar` | `TypeOK` `AttemptsAlmostWithinLimit` | one attempt more than the limit, with its redirects, and never more |
| `edgar_rate` (violated) | `RequestsWithinLimit` | redirects and late requests exceed the rate that the docstring states |
| `download` | `TypeOK` `PairedUnlessCut` `OrderFulfilled` | three starts, interrupted anywhere: halves only where a run was cut off, everything else is there when a run is done |
| `text` | `TextKept` `SectionsByRecords` `ChunksKeepText` `SizesHaveCause` | pages of every small shape: nothing lost, doubled or moved on the way to the chunks |

The violated ones state what a comment or a test of the repository says; `findings` quotes each.

Bounds, and why they are enough:

* `ingest`: three runs (one unforced, two forced), two filings that compete for one slot, no chunk or
  two of each. Two forced runs and a third that comes between are what a conflict takes; documents
  without chunks are what a deadlock takes among three. The proofs below remove these bounds.
  `ingest_empty` has two unforced runs only. `OnlyForceReplaces` holds when no document is empty: that
  is a theorem, not a run; `StoredIsKept` is the part of it that empty documents do not break.
* `limit`: two requests of one source and one of another, each allowed one per window: the limit is
  exceeded by one and a stranger is there; a clock of five instants with windows of two covers a window,
  its end, and a key that outlives it; one outage. The theorem on `LifeLimit` has none of these bounds.
* `search`: three filings of two companies and two years with two chunks each; at most two rows per
  search and three candidates, so that both cuts bite; ids for one re-ingestion (`MaxId`). Ten requests
  and two golden questions (two references each, so that a filing can be re-ingested before, between and
  after their resolution) cover every branch of `infer_query_scopes` and `_retrieve`, with and without
  filters and reranking, with k above, at and below the number of scopes.
* `ask`: two questions, two tokens, a transport that pauses at two unread events: pausing, resuming and
  asking again all occur at each place; two connections and one `/search`, so that one request can find
  the pool empty and wait, or give up. `ask_cut` needs one question.
* `eval`: two questions, one unanswerable; five starts: a retrieval result without which the gate never
  passes, one that fails, one that resumes, one that finishes, one that begins again; two names, so that
  a result can replace another or not.
* `edgar`: 0.11 s, 1 s and 10 become 3, 8 and 3: in both, `Limit` intervals exceed the second by less
  than an interval, which is what matters to how many fit. Five attempts as in the code, one redirect.
  `edgar_rate` has the same bounds.
* `download`: a company with two tickers, three 10-Ks and an amendment, listed out of order, and one with a
  single 10-K, asked for alone, together and twice, also with a negative number of years; three starts: one
  that is cut off, one with another order, one that comes back to the first.
* `text`: lengths of a few characters against a heading of at most 12, a target of 8 tokens, a maximum
  of 10, a minimum of 2 and a slack of 2, where the code has 120, 400, 500, 80 and 100. Five
  families of pages: up to five lines that are headings of three items, too long for one, or none; up to
  two children of every kind, hidden or not, within an element; tables of up to three rows and two
  columns, ragged and with empty cells, and one within another; a heading and up to four blocks of the
  six sizes that the chunker tells apart; five to twenty short lines. Each branch is taken. That the
  blocks of these pages are blocks as `FilingText` has them is checked too (`PagesAssumption`).

Deadlock is not checked where all runs, requests or starts can be used up (`CHECK_DEADLOCK FALSE`);
`EdgarClient` can always go on, and there it is.

### Fairness

* `Ingest`: `WF` of the steps of each run that was started. The event loop schedules it, statements
  that are not blocked end, Postgres breaks deadlocks. Nobody must start a run, or crash.
* `RateLimit`: `WF` of the handler. Each await ends since the client is built with
  `socket_timeout=1`. Redis owes nothing, not even to come back.
* `AskStream`: `WF` of the task (it is scheduled, timers fire, disconnections are noticed) and of the
  browser's dispatching while the page is open. The model owes nothing: `ModelToken`, `ModelDone` and
  `ModelFails` have no fairness, the deadline has. Without a browser that reads, the `gen_error` that
  follows the deadline could wait for ever: nothing in the code bounds that write. `WF` of `SearchEnds`:
  its statements end. A connection goes to some request that waits, not to a given one: `PoolRefills`
  says that the pool does not stay empty.
* `GenEval`, and `Gate` with it: `WF` of the steps that need only the machine, and of timeouts
  (`asyncio.timeout(120)`; the judge's client has its own). `Answer` has none.

## 4. Proofs

Checked by `tlapm` for every value of the constants, under the assumptions the modules name. They say
that sets, sequences and functions have their types and that special values (`Earlier`, `Nobody`,
`Torn`) are nobody's name, and beyond that: a window, and the interval between two requests, has a
length; the ids of the first versions fit below `MaxId`; no two filings have the same ticker and fiscal
year (a UNIQUE constraint); the golden questions are pairwise different (`load_golden` refuses a duplicate
id); `Limit`
intervals fill a second (ten of 0.11 s do); users order companies EDGAR knows (an unknown ticker ends
the command as `Fails` does).

Each proof has one shape. The properties are not inductive, `IInv` is; `InitEstablishes` and one lemma
per action or group of actions lead to `InvInductive` and `InvAlways`, and the theorems follow from
that. Every `IInv` was checked by TLC on the instance of its run before it was proved.

**`IngestProofs`.** `WholeVersions` is not inductive: a run that is about to commit must be known to
replace all that is there. The invariant `IInv` adds, of the run's open transaction:

* `InvOpen`: it has a filing exactly between `Open` and its end;
* `InvCreated`, `InvSlots`: past its INSERT, or its count, the document of its filing is its own
  uncommitted row or a committed one; no two documents, committed or not, share a slot;
* `InvAhead`, `InvTodo`: of a filing it is not done with, it has written no committed chunk, and no
  other run has seen one of it; so a version can be told from the one that follows it;
* `InvSeen`, `InvDeleted`: a snapshot is the present version or has nothing in common with it, and what
  a run has deleted is the whole present version or nothing;
* `InvDisjoint`, `InvLock`: two transactions have not deleted the same rows, and one at most is past
  the update of a document. These are the row locks;
* `InvDrafts`: the chunks it inserts are a number the chunker can yield, and past `InsertChunks` none
  of them collides with a row it has not deleted.

The case that matters is `Commit` after the UNIQUE constraint has spoken (`CommitReplaces`): rows that
the DELETE did not see would be those of a whole version, which begins at index 0, as does the one
being inserted, so that they cannot be there unless one of the two is empty. Each action has a lemma;
`InvInductive` puts them together, and the theorems follow:

* `TypeCorrect`, `VersionsAreWhole`: `TypeOK` and `WholeVersions` always hold;
* `Implements`: `Spec => CorpusSpec`. Only commits change the tables; such a step publishes one whole
  version in a free slot (`CommitFindsSlotFree`), every other step is a stutter of `Corpus`;
* `StoredKept`: `StoredIsKept` always holds, by the further invariant `InvStored`: an unforced run past
  its count has inserted the document itself or has before it none of the chunks of earlier runs;
* `NonEmptyForce`: if `0 \notin DraftCounts` then `OnlyForceReplaces`, by the further invariant
  `InvUnforced`; `ingest_empty` shows that the assumption is needed;
* `DoneIsStored`: `DoneMeansStored` always holds. `InvListed` says that each filing of the listing is
  still to come, in hand, or counted, and that what is counted is counted once and in the tables: no
  other run can take a document away, since `Commit` only ever replaces.

**`RateLimitProofs`.** `IInv` is `TypeOK` with `InvProgress` (who has a count, by `pc`), `InvStamp`
(counts are at most the counter of a life that still lasts, and lives do not lie in the future) and
`InvDistinct` (two requests counted in one life of a key have different counts).

* `LifeLimitHolds`: the counts inject the admitted requests of a life into `1 .. Limit`.
* `TurnedAwayWithCause`: the converse. By `InvGiven` no count of a life is passed over, so that below
  the count of a request that is turned away each count is some other request's: as many as the limit.
* `OrphansHaveCause`: by `InvTtl` a first request that has ended normally has set the TTL of its key. A
  key without one is therefore of a first request that is still under way, or whose handler gave up.
* `KeysOutliveWindows`: by `InvDeadline` a deadline lies in a later window than the key's own, because
  the TTL is the length of a window and is set no earlier than in it.

**`AskStreamProofs`.** `InvTask` relates what a task has made and yielded to what its connection was
sent, by the point where the task is suspended; `InvEvents` gives the place of each event; `InvPage` says
that the page listens to the question on display only, and that its text is what it has read;
`InvPool` adds up the connections. Each kind of cancellation is a case of its own (`CutPreserves`,
`LostPreserves`).

* `EventsInOrder`, `ShownComplete`, `ShownText`: `EventOrder`, `CompleteIsComplete` and
  `TextOfThisQuestion` always hold, for any number of questions asked over each other.
* `ConnectionsKept`: the connections in the pool, with tasks and with `/search` add up to `PoolSize`:
  however a stream ends, it gives its connection back once.

**`GateProofs`**, about `GateSpec`, that is both evaluations over one directory. `InvLocal` says what
the command holds at each step (its rows are those of the checkpoint, the answer in hand has no row yet,
what is unlinked is published), `InvDistinct` that no question has two rows in the checkpoint,
`InvNames` that no two files have one name, `InvOptions` that the rows at hand are of the run itself or of
runs that ended early since the last success. `PutFacts` says what `write_text` does to the directory, as an order-preserving map of places.

* `CompleteResults`: that a result has as many rows as there are questions is `CompleteRows`, an injection
  each way (`NoLonger`).
* `MixturesHaveCause`: `MixedHasCause`, from `InvOptions` and `StepPublishes`: only `WriteResult` publishes
  answers.
* `RowsKept`, `RecordedPaidOnce`: the action properties, from `InvLocal` and what a step may do to the
  checkpoint (`StepWrites`) and to the bill (`StepPays`).
* `GateTurns`: `GateTurnsWithCause`. `LatestOfPut` says how a new file changes which file is the latest
  of a kind: if it is not of the kind, it can only uncover another by taking the name of the latest.

**`EdgarClientProofs`.** `InvSpaced` is the argument about the throttle: of the requests EDGAR got in
the last second, count from the newest; each `Burst` (an attempt and its redirects) further back is an
interval older, because `Awake` finds the last attempt at least `MinInterval` old (`InvThrottle`). A
request beyond `Limit + 1` bursts would be older than a second (`AttemptsBounded`). The one burst above
the limit is that of the last attempt, which may have left late.

**`DownloadProofs`.** `InvWriting`: the file that is written was absent, and its sidecar is second.
`FilesArePaired` and `WrittenKept` follow. `InvProgress`: what the run was asked for is seen to, in the
queue, or of a ticker still to be looked up; with `SeenStays` it gives `OrdersFulfilled`. `TypeCorrect` rests on `RanksAreTaken`: sorting gives each of
the filings kept one of the ranks, all of which are taken (a surjection between sets of one size).

**`SearchProofs`**, about `Search`, in which `CANDIDATE_K` is 50 as well as 2 and the corpus is any. First
come lemmas on the functions of `Retrieval`. They need no induction over lists, because these are
defined by ranks; what remains of it is that a non-empty set of numbers has a least (`LeastNatural`, from
the well-foundedness of `<` by `WFMin`). `ArrangedInOrder`: the places of a finite set in a strict total order
are a bijection that keeps the order; from it follow `UniqueElements`, `ScopesNarrow` (each scope admits only
what the caller's filters admit), `FusedRows`, `InterleavedRows` (of k lists or fewer the first of each is
there, or a chunk with its id), `SortedRows`, `GreedyExists` and `RerankedRows`. The inductive invariant
has, besides the types:

* `InvIds`: of all chunks that are published or held, no two have one id, and ids to come are greater: what
  lets results be compared by id while filings are replaced under the retrieval;
* `InvNarrow`, `InvSteps`: scopes within the filters; as many lists as searches were made;
* `InvRows`, `InvFused`: the rows and lists in hand have no duplicates, lists are within the limit and the
  scope they were made for, and the last is the fusion of the rows in hand;
* `InvResults`: before and after reranking, the length, the filters, and a chunk for each scope.

The theorems:

* `FiltersKept`, `ScopesKept`: `FiltersHonoured` and `ScopesRepresented` always hold. The second is the
  argument through both cuts: interleaving keeps the head of each list if `fetch_k` admits one per scope;
  a scope that finds all its chunks taken by earlier scopes is represented by those.
* `FusionKept`: `FusionRespectsBoth`, since sums of fractions grow with their terms (`SumsGrow`).
* `EvaluationsSearch`: `EvalSpec => Spec`; so all this holds of the questions of an evaluation.
* `PassagesMeasured`: `MeasuresPassages`. `InvRelevant` says of every chunk that is published or held that it
  was quoted if its id is relevant, and that its id is relevant if it was quoted by a resolved reference to
  a filing that has not been re-ingested since. Re-ingestion gives new ids and marks the filing; a
  retrieval only ever holds chunks that were published when it asked. `RecallIs` counts places for ids.

**`FilingTextProofs`**, about `FilingText` and `Chunker`: any blocks, any limits of which the maximum is not
below the target, and the target is not 0. `Join` and `Packed` are recursive functions over lists, and what they yield is a matter
of induction. The library's induction rules take an operator, which the provers cannot instantiate; in
their place `TurnByTurn` takes a set, that of the turns at which a formula holds, and follows from the
well-foundedness of `<` by `WFMin`. `IterationExists` says that a function that takes its value at `i` from
that at `i - 1` exists, which gives `Packed` its equations (`FlattenSeq` likewise). From these:

* `PackedKeeps`: the parts have the units of the pieces, in order; `PackedSizes`: a part of several pieces
  is shorter than nine characters per token of the limit, as the loop counts a quarter of each, rounded
  down, and each separator is at most two characters.
* `SplitTextKeeps`, `TablesKeep`, `FlushedKeeps`: so for the functions of `chunker.py`, each row of a
  table under its header. `MergeTurn`: a turn of the merge loop keeps units, soundness and causes.
* `CutOpened`, `CutExtended`: a block that begins a section, or continues one, extends the cut at records by
  one block.

The properties speak of the end of a loop; the invariant says the same of every turn:

* `InRange`, `InOrder`: loops stay within their lists; Items ascend and `last_idx` is the greatest seen;
* `CutSoFar`: sections are the cut of the blocks taken so far;
* `BodiesSound`: text has no header and a justified length, tables have a header;
* `UnitsSoFar`: what stands in `protos` and `parts` are the units of the section's blocks so far, what
  stands in `merged` those of `protos` so far, and what stands in `chunks` those of the sections before;
* `Causes`: why a text in `merged` or `chunks` is small; for the first of a section, that the Item before
  it is another, so that `InOrder` is needed.

The theorems:

* `CutCorrect`, `TextCorrect`, `SizesCorrect`: `SectionsByRecords`, `ChunksKeepText`, `SizesHaveCause`
  always hold; `TypeCorrect` says what the variables are.

They are about any blocks that are not empty, tables having a header row with text and a row below it.
That the walk of `Parse10k` yields no others is checked by TLC on the pages of `MCFilingText`, not proved.

**What is model-checked only.**

* Liveness (`StartedEnds`, `EveryRequestAnswered`, `PageSettles`, `TaskEnds`, `PoolRefills`, `RunEnds`):
  the prover has no reasoning about fairness and ENABLED.
* `TextKept`, of `Parse10k`: what the walk over a page yields is compared with what a reader sees, for a
  tree of any depth, which takes RECURSIVE operators, from which the prover is cut off, and an induction
  over trees.

## 5. Not modelled

* The models and the libraries' conversions: left open where their outcome matters (any scores,
  failure). `Ingest` leaves open how many chunks a filing has; `FilingText` says what they are.
* A line of the checkpoint that is cut just before its newline, one byte short: it still parses, and the
  next line is then joined to it. `GenEval` has every cut line unreadable.
* Which Item a text begins with: the regular expression of the parser is part of the page. Texts have no
  line breaks, so that `_ITEM_RE`'s behaviour across lines is not covered.
* `load_golden` (it validates a file that nothing changes meanwhile; what it guarantees is assumed in
  `GenEval`), `parse_report`, which counts, and the arithmetic of means, percentiles and prices.
* Two evaluations at once: both are commands of an operator, and the generation evaluation has a single
  checkpoint file.
* The wording of prompts, answers, logs, prices; markup; deployment files; migrations, which run once
  and alone; the evaluation page, which keeps no state.
* How long things take. Embedding and reranking block the event loop; the models only know that a
  step may come late.

## 6. Plan

Written so far, in this order, the core first: `Ingest` with `Corpus` and its proofs, `RateLimit` with
its proofs, `Retrieval` and `Search`, `AskStream`, `GenEval`, `EdgarClient`, `Download`; then `Parse10k`,
`Chunker` and `FilingText`, `RetrievalEval`, the pool in `AskStream`, `Gate`; then the proofs about all of
them, the last about `FilingText`, for which it was written as loops rather than as one function.

Left to model: `Fetch`, that is `Download` and `Ingest` composed over `data/raw`, where a download that is
interrupted between its two writes leaves an html file without a sidecar, which later downloads pass over
and at which each later ingestion ends.

Left to prove: nothing that is within the prover's reach; `TextKept` and liveness are not.
