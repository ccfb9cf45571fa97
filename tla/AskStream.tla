----------------------------- MODULE AskStream ------------------------------
(***************************************************************************)
(* GET /ask from the browser to the model and back: the server-sent events *)
(* that the generator stream() yields, the deadline around the generation, *)
(* the client that reads slowly, stops reading, or asks something else.    *)
(*                                                                         *)
(* stream() is an asynchronous generator inside a task of the server.  It  *)
(* is either waiting for the model, inside `async with asyncio.timeout`,   *)
(* or suspended in a `yield` while the task writes the event; a write      *)
(* waits while the transport's buffer is full.  asyncio.timeout cancels    *)
(* the task, wherever that is: in the first case the generator turns the   *)
(* cancellation into TimeoutError, in the second the exception is raised   *)
(* outside the generator.                                                  *)
(*                                                                         *)
(* A task takes a connection of the pool for its reads, and its session    *)
(* keeps it until the response has ended; so does a task of GET /search.   *)
(***************************************************************************)
EXTENDS Naturals, SequencesExt

CONSTANTS
  Request,    \* the questions asked in one page, each a GET /ask
  MaxTokens,  \* bound: tokens the model produces for a question
  HighWater,  \* unread events at which the transport pauses writing
  PoolSize,   \* connections the pool has, with its overflow
  Searches,   \* bound: requests of /search that hold a connection at once
  Nobody      \* no question asked yet

AskAssumption ==
  /\ MaxTokens \in Nat
  /\ HighWater \in Nat \ {0}
  /\ PoolSize \in Nat \ {0}
  /\ Searches \in Nat
  /\ Nobody \notin Request

ASSUME AskAssumption

VARIABLES
  phase,    \* phase[r]: where the server's task for r is
  pending,  \* pending[r]: the event it has been asked to write
  timer,    \* timer[r]: is the deadline armed?
  free,     \* connections in the pool
  busy,     \* connections that /search holds
  made,     \* made[r]: tokens the model has produced
  sent,     \* sent[r]: events written to the connection
  read,     \* read[r]: how many of them the browser has dispatched
  open,     \* open[r]: the browser's EventSource for r is not closed
  es,       \* the page's `es`: the question on display
  text,     \* text[r]: tokens of r in the page's `raw`
  sources,  \* are sources on display?
  shown     \* what the page makes the user believe

server == <<phase, pending, timer, free, busy, made, sent>>
page   == <<es, text, sources, shown>>
vars   == <<server, read, open, page>>

Event == {"sources", "token", "done", "gen_error"}

Terminal == {"done", "gen_error"}

TypeOK ==
  /\ phase \in [Request -> {"unasked", "limiter", "pool", "retrieve", "writing", "model", "refused", "over"}]
  /\ pending \in [Request -> Event \cup {"none"}]
  /\ timer \in [Request -> BOOLEAN]
  /\ free \in 0 .. PoolSize
  /\ busy \in 0 .. Searches
  /\ made \in [Request -> 0 .. MaxTokens]
  /\ sent \in [Request -> Seq(Event)]
  /\ read \in [Request -> Nat]
  /\ open \in [Request -> BOOLEAN]
  /\ es \in Request \cup {Nobody}
  /\ text \in [Request -> 0 .. MaxTokens]
  /\ sources \in BOOLEAN
  /\ shown \in {"idle", "streaming", "complete", "offline", "stopped"}

Init ==
  /\ phase = [r \in Request |-> "unasked"]
  /\ pending = [r \in Request |-> "none"]
  /\ timer = [r \in Request |-> FALSE]
  /\ free = PoolSize
  /\ busy = 0
  /\ made = [r \in Request |-> 0]
  /\ sent = [r \in Request |-> <<>>]
  /\ read = [r \in Request |-> 0]
  /\ open = [r \in Request |-> FALSE]
  /\ es = Nobody
  /\ text = [r \in Request |-> 0]
  /\ sources = FALSE
  /\ shown = "idle"

-----------------------------------------------------------------------------
(***************************************************************************)
(* The server: ask and stream in api/main.py, generate_answer.             *)
(***************************************************************************)

\* The generator yields e: the task goes and writes it.
Yield(r, e) ==
  /\ pending' = [pending EXCEPT ![r] = e]
  /\ phase' = [phase EXCEPT ![r] = "writing"]

\* Mutant: the session is left open.
End_KeepsConnection(r) ==
  /\ phase' = [phase EXCEPT ![r] = "over"]
  /\ pending' = [pending EXCEPT ![r] = "none"]
  /\ timer' = [timer EXCEPT ![r] = FALSE]
  /\ UNCHANGED free

\* The response is over, however it ended; get_session closes the session.
End(r) ==
  /\ phase' = [phase EXCEPT ![r] = "over"]
  /\ pending' = [pending EXCEPT ![r] = "none"]
  /\ timer' = [timer EXCEPT ![r] = FALSE]
  /\ free' = free + 1

\* The answer is an error, and no stream.
Refuse(r) ==
  /\ phase' = [phase EXCEPT ![r] = "refused"]
  /\ UNCHANGED <<pending, timer, busy, made, sent, read, open, page>>

\* check_rate_limit lets the request through, or raises 429.
Limiter(r) ==
  /\ phase[r] = "limiter"
  /\ \/ Refuse(r)
     \/ /\ phase' = [phase EXCEPT ![r] = "pool"]
        /\ UNCHANGED <<pending, timer, busy, made, sent, read, open, page>>
  /\ UNCHANGED free

\* The first statement of decomposed_hybrid_search.
Connect(r) ==
  /\ phase[r] = "pool"
  /\ free > 0
  /\ free' = free - 1
  /\ phase' = [phase EXCEPT ![r] = "retrieve"]
  /\ UNCHANGED <<pending, timer, busy, made, sent, read, open, page>>

\* A request of /search begins to read, and ends.
SearchConnects ==
  /\ free > 0
  /\ busy < Searches
  /\ free' = free - 1
  /\ busy' = busy + 1
  /\ UNCHANGED <<phase, pending, timer, made, sent, read, open, page>>

SearchEnds ==
  /\ busy > 0
  /\ free' = free + 1
  /\ busy' = busy - 1
  /\ UNCHANGED <<phase, pending, timer, made, sent, read, open, page>>

\* No connection for thirty seconds.
PoolTimeout(r) ==
  /\ phase[r] = "pool"
  /\ free = 0
  /\ Refuse(r)
  /\ UNCHANGED free

RetrieveFails(r) ==
  /\ phase[r] = "retrieve"
  /\ Refuse(r)
  /\ free' = free + 1

Retrieve(r) ==
  /\ phase[r] = "retrieve"
  /\ Yield(r, "sources")
  /\ UNCHANGED <<timer, free, busy, made, sent, read, open, page>>

\* uvicorn's send: waits while writing is paused, drops what is for a client
\* that has gone.
CanWrite(r) == ~open[r] \/ Len(sent[r]) - read[r] < HighWater

\* Mutant: after gen_error the generator goes on.
Write_GoesOn(r) ==
  /\ phase[r] = "writing"
  /\ CanWrite(r)
  /\ sent' = IF open[r] THEN [sent EXCEPT ![r] = Append(@, pending[r])] ELSE sent
  /\ IF pending[r] = "done"
       THEN End(r)
       ELSE /\ phase' = [phase EXCEPT ![r] = "model"]
            /\ pending' = [pending EXCEPT ![r] = "none"]
            /\ timer' = [timer EXCEPT ![r] = TRUE]
            /\ UNCHANGED free
  /\ UNCHANGED <<busy, made, read, open, page>>

\* Mutant: the event is taken when the write is over.
Write_Cleared(r) ==
  /\ phase[r] = "writing"
  /\ CanWrite(r)
  /\ End(r)
  /\ sent' = IF open[r] THEN [sent EXCEPT ![r] = Append(@, pending'[r])] ELSE sent
  /\ UNCHANGED <<busy, made, read, open, page>>

\* The event is written and the generator resumed: after "sources" it enters the
\* timeout, after "done" or "gen_error" it has nothing left to do.
Write(r) ==
  /\ phase[r] = "writing"
  /\ CanWrite(r)
  /\ sent' = IF open[r] THEN [sent EXCEPT ![r] = Append(@, pending[r])] ELSE sent
  /\ IF pending[r] \in Terminal
       THEN End(r)
       ELSE /\ phase' = [phase EXCEPT ![r] = "model"]
            /\ pending' = [pending EXCEPT ![r] = "none"]
            /\ timer' = [timer EXCEPT ![r] = TRUE]
            /\ UNCHANGED free
  /\ UNCHANGED <<busy, made, read, open, page>>

ModelToken(r) ==
  /\ phase[r] = "model"
  /\ made[r] < MaxTokens
  /\ made' = [made EXCEPT ![r] = @ + 1]
  /\ Yield(r, "token")
  /\ UNCHANGED <<timer, free, busy, sent, read, open, page>>

\* Mutant: the text in hand when the model ends is not yielded.
ModelDone_DropsLast(r) ==
  /\ phase[r] = "model"
  /\ \E n \in 0 .. MaxTokens - made[r] : made' = [made EXCEPT ![r] = @ + n]
  /\ Yield(r, "done")
  /\ UNCHANGED <<timer, free, busy, sent, read, open, page>>

ModelDone(r) ==
  /\ phase[r] = "model"
  /\ Yield(r, "done")
  /\ UNCHANGED <<timer, free, busy, made, sent, read, open, page>>

\* except Exception: no API key, an error of the API, a dropped connection.
ModelFails(r) ==
  /\ phase[r] = "model"
  /\ Yield(r, "gen_error")
  /\ timer' = [timer EXCEPT ![r] = FALSE]
  /\ UNCHANGED <<free, busy, made, sent, read, open, page>>

\* Mutant: generate_answer is called without the timeout.
DeadlineInModel_None(r) == FALSE /\ UNCHANGED vars

\* The deadline passes while the generator waits for the model.
DeadlineInModel(r) ==
  /\ phase[r] = "model"
  /\ timer[r]
  /\ Yield(r, "gen_error")
  /\ timer' = [timer EXCEPT ![r] = FALSE]
  /\ UNCHANGED <<free, busy, made, sent, read, open, page>>

\* The deadline passes while the task waits to write: CancelledError goes up
\* through the response, and the connection is cut.
DeadlineInWrite(r) ==
  /\ phase[r] = "writing"
  /\ timer[r]
  /\ ~CanWrite(r)
  /\ End(r)
  /\ UNCHANGED <<busy, made, sent, read, open, page>>

\* listen_for_disconnect: the task is cancelled.
Disconnected(r) ==
  /\ phase[r] \in {"writing", "model"}
  /\ ~open[r]
  /\ End(r)
  /\ UNCHANGED <<busy, made, sent, read, open, page>>

-----------------------------------------------------------------------------
(***************************************************************************)
(* The page: go() and its handlers in static/index.html.                   *)
(***************************************************************************)

\* Mutant: the previous EventSource is left open.
Go_LeavesOpen(r) ==
  /\ phase[r] = "unasked"
  /\ phase' = [phase EXCEPT ![r] = "limiter"]
  /\ open' = [open EXCEPT ![r] = TRUE]
  /\ es' = r
  /\ text' = [q \in Request |-> 0]
  /\ sources' = FALSE
  /\ shown' = "streaming"
  /\ UNCHANGED <<pending, timer, free, busy, made, sent, read>>

\* Enter and the suggestions call go() whether the button is disabled or not.
Go(r) ==
  /\ phase[r] = "unasked"
  /\ phase' = [phase EXCEPT ![r] = "limiter"]
  /\ open' = [q \in Request |-> q = r]
  /\ es' = r
  /\ text' = [q \in Request |-> 0]
  /\ sources' = FALSE
  /\ shown' = "streaming"
  /\ UNCHANGED <<pending, timer, free, busy, made, sent, read>>

\* es.close(): the source on display, whichever fired the event.
CloseCurrent == open' = [open EXCEPT ![es] = FALSE]

\* Text that has arrived is left standing.
Degrade ==
  /\ CloseCurrent
  /\ shown' = IF \A q \in Request : text[q] = 0 THEN "offline" ELSE "stopped"
  /\ UNCHANGED <<text, sources>>

\* The browser dispatches the next event of r.
Dispatch(r) ==
  /\ open[r]
  /\ read[r] < Len(sent[r])
  /\ read' = [read EXCEPT ![r] = @ + 1]
  /\ LET e == sent[r][read[r] + 1] IN
       \/ e = "sources" /\ sources' = TRUE /\ UNCHANGED <<text, shown, open>>
       \/ e = "token" /\ text' = [text EXCEPT ![r] = @ + 1] /\ UNCHANGED <<sources, shown, open>>
       \/ e = "done" /\ CloseCurrent /\ shown' = "complete" /\ UNCHANGED <<text, sources>>
       \/ e = "gen_error" /\ Degrade
  /\ UNCHANGED <<server, es>>

\* onerror: the answer is not a stream, or has ended, or the connection is gone,
\* at any time, with what was not dispatched yet.  An EventSource that is not
\* closed would connect again, so the page closes it.
ConnectionLost(r) ==
  /\ open[r]
  /\ Degrade
  /\ UNCHANGED <<server, read, es>>

-----------------------------------------------------------------------------
Serve(r) ==
  \/ Limiter(r) \/ Connect(r) \/ PoolTimeout(r)
  \/ Retrieve(r) \/ RetrieveFails(r) \/ Write(r)
  \/ DeadlineInModel(r) \/ DeadlineInWrite(r) \/ Disconnected(r)

Next ==
  \/ SearchConnects
  \/ SearchEnds
  \/ \E r \in Request :
       \/ Serve(r)
       \/ ModelToken(r) \/ ModelDone(r) \/ ModelFails(r)
       \/ Go(r) \/ Dispatch(r) \/ ConnectionLost(r)

Spec == Init /\ [][Next]_vars

\* The event loop runs the task, timers and disconnections; the browser of an
\* open page dispatches what arrives, and then the end of the stream.  The model
\* owes nothing, and the network is not obliged to fail.
Fairness ==
  /\ WF_vars(SearchEnds)
  /\ \A r \in Request :
       /\ WF_vars(Serve(r))
       /\ WF_vars(Dispatch(r))
       /\ WF_vars(phase[r] \in {"refused", "over"} /\ read[r] = Len(sent[r]) /\ ConnectionLost(r))

FairSpec == Spec /\ Fairness

-----------------------------------------------------------------------------
(***************************************************************************)
(* Properties.                                                             *)
(***************************************************************************)

\* "Grounded answer as SSE: `sources` event, `token` events, then `done`" (or
\* gen_error): whatever fails or is cancelled, and whenever, the events of a
\* connection are a prefix of that.
EventOrder ==
  \A r \in Request : \A i \in DOMAIN sent[r] :
    /\ sent[r][i] = "sources" <=> i = 1
    /\ sent[r][i] \in Terminal => i = Len(sent[r])

\* A page that shows an answer as complete shows all that the model produced for
\* the question on display, over its sources.
CompleteIsComplete ==
  shown = "complete" => sources /\ text[es] = made[es] /\ sent[es] # <<>> /\ Last(sent[es]) = "done"

\* The text on display is of the question on display, however often the user asks
\* again before an answer has ended.
TextOfThisQuestion == \A r \in Request : text[r] > 0 => r = es

\* "Sources were already streamed; degrade to retrieval-only instead of killing
\* the connection": a connection that ends under a client that still listens has
\* ended with done or gen_error.
EndsWithTerminal ==
  \A r \in Request :
    phase[r] = "over" /\ open[r] => Last(sent[r]) \in Terminal

\* A question never leaves the page waiting, even if the model never answers.
PageSettles == shown = "streaming" ~> shown \in {"complete", "offline", "stopped"}

\* Every task of the server ends, also one that finds the pool empty.
TaskEnds == \A r \in Request : phase[r] = "limiter" ~> phase[r] \in {"refused", "over"}

\* Streams keep their connections while the model writes, but however a stream
\* ends - done, deadline in or outside of the generator, a client that has gone, a
\* user who asked something else - an exhausted pool does not stay exhausted.
PoolRefills == free = 0 ~> free > 0

=============================================================================
