------------------------------ MODULE Download -------------------------------
(***************************************************************************)
(* `python -m secrag.ingestion.download`: the newest 10-Ks of the given    *)
(* companies are written to data/raw, an html file and a json sidecar for  *)
(* each.  The command may be interrupted anywhere, and is then started     *)
(* again; a file that is there is not downloaded again.                    *)
(***************************************************************************)
EXTENDS Integers, SequencesExt

CONSTANTS
  Submissions,  \* Submissions[t]: filings of the company of ticker t, records [id, form, date]
  Orders,       \* what users ask for: records [tickers, years] of tickers EDGAR knows
  MaxRuns       \* bound: how often the command is started

DownloadAssumption ==
  /\ \A t \in DOMAIN Submissions :
       /\ Submissions[t] \in Seq(ToSet(Submissions[t]))
       /\ \A filing \in ToSet(Submissions[t]) : filing.date \in Nat
  /\ \A o \in Orders : o.tickers \in Seq(DOMAIN Submissions) /\ o.years \in Int
  /\ MaxRuns \in Nat

ASSUME DownloadAssumption

\* Where a filing is kept: the directory of the ticker, and the accession number.
\* Two tickers of one company have a copy each.
Out == UNION { { <<t, f.id>> : f \in ToSet(Submissions[t]) } : t \in DOMAIN Submissions }

VARIABLES
  html,      \* html[out]: the html file at out
  sidecar,   \* sidecar[out]: the json file beside it
  pc,        \* what the command does next
  order,     \* its arguments
  tickers,   \* tickers it has yet to look up
  queue,     \* filings of the ticker looked up it has yet to see to
  runs,      \* bound: starts so far
  received,  \* auxiliary: how often EDGAR has sent the filing of out
  cut        \* auxiliary: where a run was writing the two files when it ended

files == <<html, sidecar>>
vars  == <<files, pc, order, tickers, queue, runs, received, cut>>

File == {"absent", "torn", "whole"}

TypeOK ==
  /\ html \in [Out -> File]
  /\ sidecar \in [Out -> File]
  /\ pc \in {"idle", "lookup", "next", "html", "json", "done"}
  /\ order \in Orders
  /\ tickers \in Seq(DOMAIN Submissions)
  /\ queue \in Seq(Out)
  /\ runs \in 0 .. MaxRuns
  /\ received \in [Out -> Nat]
  /\ cut \subseteq Out

Init ==
  /\ html = [out \in Out |-> "absent"]
  /\ sidecar = [out \in Out |-> "absent"]
  /\ pc = "idle"
  /\ order \in Orders
  /\ tickers = <<>>
  /\ queue = <<>>
  /\ runs = 0
  /\ received = [out \in Out |-> 0]
  /\ cut = {}

\* Newest first; sorted() leaves filings of one date in their order.
Before(submissions, i, j) ==
  \/ submissions[i].date > submissions[j].date
  \/ submissions[i].date = submissions[j].date /\ i < j

\* Amendments and other forms are left out.
parse_10k_filings(submissions) ==
  LET kept    == { i \in DOMAIN submissions : submissions[i].form = "10-K" }
      Rank(i) == Cardinality({ j \in kept : Before(submissions, j, i) })
  IN  [n \in 1 .. Cardinality(kept) |-> submissions[CHOOSE i \in kept : Rank(i) = n - 1]]

\* Mutant: the directory is made once, of the first ticker.
Newest_OneDirectory(t, years) ==
  LET filings == parse_10k_filings(Submissions[t])
      end     == IF years < 0 THEN Len(filings) + years ELSE years
  IN  [n \in 1 .. (IF end < Len(filings) THEN end ELSE Len(filings)) |->
         <<Head(order.tickers), filings[n].id>>]

\* parse_10k_filings(submissions)[:years]: with a negative number, all but the last.
Newest(t, years) ==
  LET filings == parse_10k_filings(Submissions[t])
      end     == IF years < 0 THEN Len(filings) + years ELSE years
  IN  [n \in 1 .. (IF end < Len(filings) THEN end ELSE Len(filings)) |-> <<t, filings[n].id>>]

-----------------------------------------------------------------------------
Start ==
  /\ pc \in {"idle", "done"}
  /\ runs < MaxRuns
  /\ runs' = runs + 1
  /\ order' \in Orders
  /\ tickers' = order'.tickers
  /\ pc' = "lookup"
  /\ UNCHANGED <<files, queue, received, cut>>

\* get_cik, get_submissions, parse_10k_filings.
LookUp ==
  /\ pc = "lookup"
  /\ tickers # <<>>
  /\ queue' = Newest(Head(tickers), order.years)
  /\ tickers' = Tail(tickers)
  /\ pc' = "next"
  /\ UNCHANGED <<files, order, runs, received, cut>>

Finish ==
  /\ pc = "lookup"
  /\ tickers = <<>>
  /\ pc' = "done"
  /\ UNCHANGED <<files, order, tickers, queue, runs, received, cut>>

NextCompany ==
  /\ pc = "next"
  /\ queue = <<>>
  /\ pc' = "lookup"
  /\ UNCHANGED <<files, order, tickers, queue, runs, received, cut>>

\* out.exists(): of the html file only, whatever is in it.
Exists(out) == html[out] # "absent"

\* Mutant: `break`: what is older is taken to be there too.
Skip_Break ==
  /\ pc = "next"
  /\ queue # <<>>
  /\ Exists(Head(queue))
  /\ queue' = <<>>
  /\ UNCHANGED <<files, pc, order, tickers, runs, received, cut>>

Skip ==
  /\ pc = "next"
  /\ queue # <<>>
  /\ Exists(Head(queue))
  /\ queue' = Tail(queue)
  /\ UNCHANGED <<files, pc, order, tickers, runs, received, cut>>

\* download_filing_html; the file is opened only when it has returned.
Receive ==
  /\ pc = "next"
  /\ queue # <<>>
  /\ ~Exists(Head(queue))
  /\ received' = [received EXCEPT ![Head(queue)] = @ + 1]
  /\ pc' = "html"
  /\ UNCHANGED <<files, order, tickers, queue, runs, cut>>

WriteHtml ==
  /\ pc = "html"
  /\ html' = [html EXCEPT ![Head(queue)] = "whole"]
  /\ pc' = "json"
  /\ UNCHANGED <<sidecar, order, tickers, queue, runs, received, cut>>

\* Mutant: the path of the sidecar is that of the next filing.
WriteSidecar_Next ==
  /\ pc = "json"
  /\ queue' = Tail(queue)
  /\ sidecar' = IF queue' = <<>> THEN sidecar
                                 ELSE [sidecar EXCEPT ![Head(queue')] = "whole"]
  /\ pc' = "next"
  /\ UNCHANGED <<html, order, tickers, runs, received, cut>>

WriteSidecar ==
  /\ pc = "json"
  /\ sidecar' = [sidecar EXCEPT ![Head(queue)] = "whole"]
  /\ queue' = Tail(queue)
  /\ pc' = "next"
  /\ UNCHANGED <<html, order, tickers, runs, received, cut>>

-----------------------------------------------------------------------------
\* The run is gone, without a file, with the beginning of one, or with all of it.
Stop ==
  /\ pc' = "idle"
  /\ tickers' = <<>>
  /\ queue' = <<>>
  /\ UNCHANGED <<order, runs, received>>

\* A kill; an unknown ticker, a filing without report date, an answer of EDGAR
\* that is an error to the end.
Fails ==
  /\ pc \in {"lookup", "next"}
  /\ Stop
  /\ UNCHANGED <<files, cut>>

\* A kill, or a full disk.
FailsInHtml ==
  /\ pc = "html"
  /\ Stop
  /\ \/ UNCHANGED <<html, cut>>
     \/ /\ html' = [html EXCEPT ![Head(queue)] = "torn"]
        /\ cut' = cut \cup {Head(queue)}
  /\ UNCHANGED sidecar

FailsInSidecar ==
  /\ pc = "json"
  /\ Stop
  /\ \/ UNCHANGED sidecar
     \/ sidecar' = [sidecar EXCEPT ![Head(queue)] = "torn"]
  /\ cut' = cut \cup {Head(queue)}
  /\ UNCHANGED html

Next ==
  \/ Start \/ LookUp \/ Finish \/ NextCompany
  \/ Skip \/ Receive \/ WriteHtml \/ WriteSidecar
  \/ Fails \/ FailsInHtml \/ FailsInSidecar

Spec == Init /\ [][Next]_vars

-----------------------------------------------------------------------------
(***************************************************************************)
(* Properties.                                                             *)
(***************************************************************************)

Whole(out) == html[out] = "whole" /\ sidecar[out] = "whole"

\* A filing has both its files or none, once it has been seen to, unless a run
\* ended between the beginning of the first file and the end of the second.  Such
\* a half stays one: later runs look at the html file only, and pass it over.
PairedUnlessCut ==
  \A out \in Out :
    IF out \in cut
      THEN html[out] # "absent" /\ sidecar[out] # "whole"
      ELSE \/ Whole(out)
           \/ html[out] = "absent" /\ sidecar[out] = "absent"
           \/ pc = "json" /\ out = Head(queue)

\* When a run is done, each filing it was asked for has both its files under each
\* of the tickers, whatever earlier runs left behind; what it leaves as half a
\* filing is what an earlier run was cut off from.
OrderFulfilled ==
  pc = "done" =>
    \A t \in ToSet(order.tickers) :
      \A out \in ToSet(Newest(t, order.years)) : Whole(out) \/ out \in cut

\* "idempotent: second run downloads nothing new": what was written is neither
\* downloaded nor written again.
WrittenIsKept ==
  [][ \A out \in Out : html[out] # "absent" =>
        /\ received'[out] = received[out]
        /\ html'[out] = html[out] ]_vars

=============================================================================
