-------------------------------- MODULE Gate --------------------------------
(***************************************************************************)
(* The evaluation gate, over the results that the generation evaluation    *)
(* (GenEval) and the retrieval evaluation leave behind in one directory,   *)
(* under names that both may use again.  evals/gate.py changes nothing:    *)
(* it is a function of the files.                                          *)
(*                                                                         *)
(* Of a retrieval evaluation the model keeps what it publishes: whether a  *)
(* reranker was used, and whether the means are above the thresholds.      *)
(***************************************************************************)
EXTENDS GenEval

\* A result without a reranker is never judged.
RetrievalResult == { r \in [name : Name, kind : {"retrieval"}, reranked : BOOLEAN, good : BOOLEAN] :
                       r.good => r.reranked }

\* evals/run.py, to its end, or until it is interrupted while it writes.
PublishRetrieval ==
  /\ pc = "idle"
  /\ runs < MaxRuns
  /\ runs' = runs + 1
  /\ \E file \in RetrievalResult \cup Scrap : results' = Put(file)
  /\ UNCHANGED <<checkpoint, pc, local, broken, paid>>

GateNext == Next \/ PublishRetrieval

GateSpec == Init /\ [][GateNext]_vars /\ Fairness

-----------------------------------------------------------------------------
(***************************************************************************)
(* load_runs and check.                                                    *)
(***************************************************************************)

\* Mutant: retrieval is judged with or without a reranker.
Reranked_Any(file) == file.kind = "retrieval"

Reranked(file) == file.kind = "retrieval" /\ file.reranked

IsGeneration(file) == file.kind = "generation"

\* The last of those files of the directory that are in K, if there is one.
Latest(dir, K) ==
  { dir[i] : i \in { n \in DOMAIN dir : dir[n] \in K
                                        /\ \A m \in n + 1 .. Len(dir) : dir[m] \notin K } }

load_runs(dir) ==
  [retrieval  |-> Latest(dir, { file \in ToSet(dir) : Reranked(file) }),
   generation |-> Latest(dir, { file \in ToSet(dir) : IsGeneration(file) })]

\* Above the floors, below the caps.
Good(file) ==
  IF file.kind = "generation" THEN \A row \in ToSet(file.rows) : row.good ELSE file.good

\* json.loads raises on a file that is torn; a retrieval must be there.
GatePasses(dir) ==
  /\ \A file \in ToSet(dir) : file.kind # "torn"
  /\ load_runs(dir).retrieval # {}
  /\ \A file \in load_runs(dir).retrieval \cup load_runs(dir).generation : Good(file)

-----------------------------------------------------------------------------
(***************************************************************************)
(* Properties.                                                             *)
(***************************************************************************)

Judged(file) == file.kind = "generation" \/ (file.kind = "retrieval" /\ file.reranked)

\* "fail when the latest committed eval runs regress below thresholds": what turns
\* the gate is a new result of one of the two kinds that are judged, good or bad
\* as the gate then says, or a write that was torn; or that the file which held it
\* where it was is replaced by whatever gets its name.  An interruption, a
\* baseline, and what is not judged do not turn it.
GateTurnsWithCause ==
  [][ GatePasses(results') # GatePasses(results) =>
        LET new == Last(results')
            old == { file \in ToSet(results) : file.name = new.name }
        IN  \/ new.kind = "torn"
            \/ Judged(new) /\ (Good(new) <=> GatePasses(results'))
            \/ \E file \in old : \/ file.kind = "torn"
                                 \/ Judged(file) /\ (Good(file) <=> GatePasses(results)) ]_vars

=============================================================================
