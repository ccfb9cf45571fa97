------------------------------- MODULE GenEval -------------------------------
(***************************************************************************)
(* `python -m secrag.evals.gen`: every golden question is answered by a    *)
(* paid API, most answers are graded by it, each row goes to a checkpoint  *)
(* file, and the whole to evals/results.  An evaluation may be interrupted *)
(* anywhere, by an error or a kill, and started again with the same or     *)
(* other options; what survives is the checkpoint and the results.         *)
(*                                                                         *)
(* Of an answer the model keeps who gave it (the options of the run), and  *)
(* whether it is as it should be: figures and citations in order, a        *)
(* question without an answer refused.                                     *)
(***************************************************************************)
EXTENDS Naturals, SequencesExt

CONSTANTS
  Golden,      \* the golden questions, in the order of the file
  Answerable,  \* those that have an answer
  Config,      \* options of the command, --no-rerank or none
  Name,        \* names of results: a date and a label
  MaxRuns,     \* bound: how often the command is started
  Torn,        \* a line that was not written to its end
  NoAnswer     \* no answer in hand

Question == ToSet(Golden)

Row == [id : Question, by : Config, good : BOOLEAN]

GenEvalAssumption ==
  /\ Golden \in Seq(Question)
  /\ IsInjective(Golden)
  /\ Answerable \subseteq Question
  /\ MaxRuns \in Nat
  /\ Torn \notin Row

ASSUME GenEvalAssumption

VARIABLES
  checkpoint,  \* lines of evals/.gen-partial.jsonl, <<>> when there is no file
  results,     \* files of evals/results, in the order of their created_at
  pc,          \* what the command does next
  config,      \* its options
  done,        \* its rows
  answer,      \* the answer in hand
  runs,        \* bound: starts so far
  broken,      \* auxiliary: options of the runs that ended early, since the last success
  paid         \* auxiliary: answers paid for, by question, since the last success

files == <<checkpoint, results>>
local == <<config, done, answer>>
vars  == <<files, pc, local, runs, broken, paid>>

Result == [name : Name, kind : {"generation"}, by : Config, rows : Seq(Row)]

\* What a write that ends too early leaves under the name of the file.
Scrap == [name : Name, kind : {"torn"}]

Generations == { r \in ToSet(results) : r.kind = "generation" }

TypeOK ==
  /\ checkpoint \in Seq(Row \cup {Torn})
  /\ \A r \in ToSet(results) : r.kind # "retrieval" => r \in Result \cup Scrap
  /\ pc \in {"idle", "load", "answer", "grade", "record", "publish", "log", "unlink"}
  /\ config \in Config
  /\ done \in Seq(Row)
  /\ answer \in Row \cup {NoAnswer}
  /\ runs \in 0 .. MaxRuns
  /\ broken \subseteq Config
  /\ paid \in [Question -> Nat]

Init ==
  /\ checkpoint = <<>>
  /\ results = <<>>
  /\ pc = "idle"
  /\ config \in Config
  /\ done = <<>>
  /\ answer = NoAnswer
  /\ runs = 0
  /\ broken = {}
  /\ paid = [q \in Question |-> 0]

IdsOf(rows) == { rows[i].id : i \in DOMAIN rows }

\* The places of the questions the loop will not pass over.
Remaining == { i \in DOMAIN Golden : Golden[i] \notin IdsOf(done) }

-----------------------------------------------------------------------------
(***************************************************************************)
(* How a run ends before its time.                                         *)
(***************************************************************************)

\* write_text: the file of that name, if there is one, is replaced.
Put(file) ==
  LET same == { i \in DOMAIN results : results[i].name = file.name }
  IN  Append(IF same = {} THEN results ELSE RemoveAt(results, CHOOSE i \in same : TRUE), file)

\* The process is gone, with everything it had not written.
Break ==
  /\ pc' = "idle"
  /\ done' = <<>>
  /\ answer' = NoAnswer
  /\ broken' = broken \cup {config}
  /\ UNCHANGED <<config, runs, paid>>

Fail == Break /\ UNCHANGED files

\* A kill, or an exception: golden file and refs that do not resolve, database,
\* API errors, full disk.
Interrupted == pc # "idle" /\ Fail

\* It happens while a line, or a file, is being written.
InterruptedInWrite ==
  /\ \/ /\ pc = "record"
        /\ checkpoint' = Append(checkpoint, Torn)
        /\ UNCHANGED results
     \/ /\ pc = "publish"
        /\ \E n \in Name : results' = Put([name |-> n, kind |-> "torn"])
        /\ UNCHANGED checkpoint
  /\ Break

-----------------------------------------------------------------------------
(***************************************************************************)
(* run_generation_eval.                                                    *)
(***************************************************************************)

Start(c) ==
  /\ pc = "idle"
  /\ runs < MaxRuns
  /\ runs' = runs + 1
  /\ config' = c
  /\ pc' = "load"
  /\ UNCHANGED <<files, done, answer, broken, paid>>

\* Mutant: the checkpoint is opened with mode "w".
Load_Truncates ==
  /\ pc = "load"
  /\ \A i \in DOMAIN checkpoint : checkpoint[i] # Torn
  /\ done' = checkpoint
  /\ checkpoint' = <<>>
  /\ pc' = "answer"
  /\ UNCHANGED <<results, config, answer, runs, broken, paid>>

\* Mutant: what was answered is not looked at.
Load_Forgets ==
  /\ pc = "load"
  /\ \A i \in DOMAIN checkpoint : checkpoint[i] # Torn
  /\ done' = <<>>
  /\ pc' = "answer"
  /\ UNCHANGED <<files, config, answer, runs, broken, paid>>

\* _load_checkpoint: of two rows with one id, the later (there are never two).
Load ==
  /\ pc = "load"
  /\ \A i \in DOMAIN checkpoint : checkpoint[i] # Torn
  /\ done' = checkpoint
  /\ pc' = "answer"
  /\ UNCHANGED <<files, config, answer, runs, broken, paid>>

\* json.loads raises, in this run and in every other until the file is removed.
LoadFails ==
  /\ pc = "load"
  /\ \E i \in DOMAIN checkpoint : checkpoint[i] = Torn
  /\ Fail

\* generate_answer, to its end, and what is measured of the answer.  A refusal, or
\* an answer to a question that has none, is not graded.
Answer ==
  /\ pc = "answer"
  /\ \E i \in Remaining :
       /\ \A j \in Remaining : i <= j
       /\ LET q == Golden[i] IN
            /\ paid' = [paid EXCEPT ![q] = @ + 1]
            /\ \E refused, good \in BOOLEAN :
                 /\ q \notin Answerable => good = refused
                 /\ answer' = [id |-> q, by |-> config, good |-> good]
                 /\ pc' = IF q \in Answerable /\ ~refused THEN "grade" ELSE "record"
  /\ UNCHANGED <<files, config, done, runs, broken>>

\* Mutant: nothing bounds the generation.
AnswerTimesOut_Never == FALSE /\ UNCHANGED vars

\* asyncio.timeout(120).
AnswerTimesOut ==
  /\ pc = "answer"
  /\ Remaining # {}
  /\ Fail

\* judge_faithfulness; its verdict is only counted.
Grade ==
  /\ pc = "grade"
  /\ pc' = "record"
  /\ UNCHANGED <<files, local, runs, broken, paid>>

\* The client of the API gives up.
GradeFails ==
  /\ pc = "grade"
  /\ Fail

\* Mutant: the row is reset before it is written.
Record_Reset ==
  /\ pc = "record"
  /\ answer' = NoAnswer
  /\ checkpoint' = Append(checkpoint, answer')
  /\ done' = Append(done, answer)
  /\ pc' = "answer"
  /\ UNCHANGED <<results, config, runs, broken, paid>>

\* ckpt.write, ckpt.flush, done[q.id] = row.
Record ==
  /\ pc = "record"
  /\ checkpoint' = Append(checkpoint, answer)
  /\ done' = Append(done, answer)
  /\ answer' = NoAnswer
  /\ pc' = "answer"
  /\ UNCHANGED <<results, config, runs, broken, paid>>

\* Mutant: the answerable ones are enough.
Complete_Answerable == \A q \in Answerable : q \in IdsOf(done)

Complete == Remaining = {}

Aggregate ==
  /\ pc = "answer"
  /\ Complete
  /\ pc' = "publish"
  /\ UNCHANGED <<files, local, runs, broken, paid>>

-----------------------------------------------------------------------------
(***************************************************************************)
(* write_result and main.                                                  *)
(***************************************************************************)

WriteResult ==
  /\ pc = "publish"
  /\ \E n \in Name :
       results' = Put([name |-> n, kind |-> "generation", by |-> config, rows |-> done])
  /\ pc' = "log"
  /\ UNCHANGED <<checkpoint, local, runs, broken, paid>>

\* Nothing reads the changelog.
WriteChangelog ==
  /\ pc = "log"
  /\ pc' = "unlink"
  /\ UNCHANGED <<files, local, runs, broken, paid>>

\* Mutant: the checkpoint is left where it is.
Unlink_Keeps ==
  /\ pc = "unlink"
  /\ pc' = "idle"
  /\ done' = <<>>
  /\ broken' = {}
  /\ paid' = [q \in Question |-> 0]
  /\ UNCHANGED <<files, config, answer, runs>>

Unlink ==
  /\ pc = "unlink"
  /\ checkpoint' = <<>>
  /\ pc' = "idle"
  /\ done' = <<>>
  /\ broken' = {}
  /\ paid' = [q \in Question |-> 0]
  /\ UNCHANGED <<results, config, answer, runs>>

-----------------------------------------------------------------------------
Step ==
  \/ Load \/ LoadFails
  \/ AnswerTimesOut \/ Grade \/ GradeFails \/ Record
  \/ Aggregate \/ WriteResult \/ WriteChangelog \/ Unlink

Next ==
  \/ \E c \in Config : Start(c)
  \/ Answer
  \/ Step
  \/ Interrupted \/ InterruptedInWrite

Spec == Init /\ [][Next]_vars

\* A started run is scheduled, timeouts expire and files can be written.  The
\* model of the API owes no answer, nobody owes another run.
Fairness == WF_vars(Step)

-----------------------------------------------------------------------------
(***************************************************************************)
(* Properties.                                                             *)
(***************************************************************************)

\* Whatever was interrupted before, a result has one row, and one only, for every
\* golden question: none is averaged twice, none left out.
ResultsComplete ==
  \A r \in Generations :
    /\ IdsOf(r.rows) = Question
    /\ Len(r.rows) = Len(Golden)

\* A row leaves the checkpoint, which is all that an interruption leaves, only
\* when a result has it.
RowsSurvive ==
  [][ \/ IsPrefix(checkpoint, checkpoint')
      \/ \E r \in Generations : r.rows = checkpoint ]_vars

\* "an interrupted run never re-spends API credits on questions already
\* answered", as far as they were recorded.
RecordedIsNotPaidAgain ==
  [][ \A i \in DOMAIN checkpoint :
        checkpoint[i] # Torn => paid'[checkpoint[i].id] <= paid[checkpoint[i].id] ]_vars

\* A result has the answers of the run that publishes it, and of runs that ended
\* early, by an error or a kill, after the last that succeeded: whatever mixture of
\* options it is, those runs account for it, and a success leaves nothing behind.
MixedHasCause ==
  [][ \A r \in Generations' :
        \/ r \in Generations
        \/ \A row \in ToSet(r.rows) : row.by \in broken \cup {r.by} ]_vars

\* A started run ends, even if the model never answers.
RunEnds == pc = "load" ~> pc = "idle"

\* "Checkpointed so an interrupted run never re-spends API credits on questions
\* already answered": no answer is paid for twice on the way to a result.
NeverPaidTwice == \A q \in Question : paid[q] <= 1

=============================================================================
