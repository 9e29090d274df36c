------------------------------ MODULE EventStream ------------------------------
(***************************************************************************)
(* What clients are told of a run while the Temporal engine executes it:   *)
(* the event log of the run (create_run_event), the two server-sent-event  *)
(* streams that follow it (stream_run_events, stream_task_events) and its  *)
(* LLM analysis (write_run_analysis).                                      *)
(*                                                                         *)
(* The engine is reduced to what it shows: the activities of RunWorkflow,  *)
(* in their order, each with the writes of the run row and the event it    *)
(* makes, retried as a whole.  TemporalRun has the rest.  Recording an     *)
(* event reads max(seq) + 1 and inserts in one transaction without a lock  *)
(* (READ COMMITTED), so these are two steps and two cases may take the     *)
(* same number, or commit out of the order of their numbers.               *)
(***************************************************************************)
EXTENDS Integers, FiniteSets

CONSTANTS Cases,            \* the cases of the run
          Attempts,         \* maximum_attempts of every activity
          MaxFailures,      \* bound on the attempts that fail
          Streams,          \* GET /runs/{run_id}/events
          TaskStreams,      \* GET /tasks/{task_id}/events
          Analysts,         \* POST /runs/{run_id}/analyze
          MaxClients        \* bound on the requests of these that are made

ASSUME StreamAssumption ==
  /\ IsFiniteSet(Cases)
  /\ Attempts \in Nat \ {0}
  /\ MaxFailures \in Nat
  /\ MaxClients \in Nat
  /\ Cases \cap {"start", "final", "failed"} = {}

VARIABLES
  row,          \* the evaluation_run row
  results,      \* the cases whose row shows a result
  events,       \* the evaluation_event rows
  overtaken,    \* history: events that found a number >= theirs when they committed
  at,           \* next step of each activity
  tries,        \* its attempt number
  number,       \* the seq its open transaction has read
  failures,     \* attempts that failed so far
  stream,       \* each stream of events
  taskStream,   \* each stream of task snapshots
  analyst       \* each analysis request

engine == <<at, tries, number, failures>>
log    == <<events, overtaken>>
vars   == <<row, results, log, engine, stream, taskStream, analyst>>

Activities == Cases \cup {"start", "final", "failed"}
Steps      == {"idle", "write", "result", "number", "insert", "refresh", "end", "done", "gave_up"}
EventIds   == Activities \X (1..Attempts)

RowStates  == {"pending", "running", "completed", "failed", "cancelled"}
Terminal   == row.state \in {"completed", "failed", "cancelled"}
RowExists  == row.state # "none"
NoRow      == [state |-> "none", done |-> 0, analysis |-> "none"]

Event(a)   == <<a, tries[a]>>                   \* the event this attempt records
Settled(a) == at[a] \in {"done", "gave_up"}

-----------------------------------------------------------------------------
(* RunWorkflow: which activity is scheduled when.                          *)

(* Mutation: the gather does not wait for the cases.                       *)
DueEarly(a) ==
  \/ a = "start"
  \/ a \in Cases   /\ at["start"] = "done"
  \/ a = "final"   /\ at["start"] = "done" /\ \A c \in Cases : at[c] # "idle"
  \/ a = "failed"  /\ "gave_up" \in {at["start"], at["final"]}

Due(a) ==
  \/ a = "start"
  \/ a \in Cases   /\ at["start"] = "done"
  \/ a = "final"   /\ at["start"] = "done" /\ \A c \in Cases : Settled(c)
  \/ a = "failed"  /\ "gave_up" \in {at["start"], at["final"]}

Schedule(a) ==
  /\ at[a] = "idle"
  /\ Due(a)
  /\ at' = [at EXCEPT ![a] = "write"]
  /\ tries' = [tries EXCEPT ![a] = 1]
  /\ UNCHANGED <<row, results, log, number, failures, stream, taskStream, analyst>>

(* Mutation: one attempt too many.                                         *)
AttemptFailsOnceMore(a) ==
  /\ at[a] \in Steps \ {"idle", "done", "gave_up"}
  /\ at' = [at EXCEPT ![a] = "write"]
  /\ tries' = [tries EXCEPT ![a] = @ + 1]
  /\ failures < MaxFailures
  /\ failures' = failures + 1
  /\ number' = [number EXCEPT ![a] = 0]
  /\ UNCHANGED <<row, results, log, stream, taskStream, analyst>>

(* An attempt raises, dies or is lost at any point; what it committed      *)
(* stays, and the next one starts over.                                    *)
AttemptFails(a) ==
  /\ at[a] \in Steps \ {"idle", "done", "gave_up"}
  /\ \/ /\ tries[a] < Attempts
        /\ at' = [at EXCEPT ![a] = "write"]
        /\ tries' = [tries EXCEPT ![a] = @ + 1]
     \/ /\ tries[a] = Attempts
        /\ at' = [at EXCEPT ![a] = "gave_up"]
        /\ UNCHANGED tries
  /\ failures < MaxFailures
  /\ failures' = failures + 1
  /\ number' = [number EXCEPT ![a] = 0]
  /\ UNCHANGED <<row, results, log, stream, taskStream, analyst>>

ActivityCompletes(a) ==
  /\ at[a] = "end"
  /\ at' = [at EXCEPT ![a] = "done"]
  /\ UNCHANGED <<row, results, log, tries, number, failures, stream, taskStream, analyst>>

-----------------------------------------------------------------------------
(* What the activities write.                                              *)

StateWritten(a) ==
  CASE a = "start"  -> "running"
    [] a = "final"  -> "completed"
    [] a = "failed" -> "failed"
    [] OTHER        -> "running"

(* update_run_state, update_run_aggregates: summarize_cases counts the     *)
(* cases that have a result, at the moment it reads them.                  *)
WriteRun(a) ==
  row' = IF RowExists
         THEN [row EXCEPT !.state = StateWritten(a),
                          !.done  = IF a = "start" THEN @ ELSE Cardinality(results)]
         ELSE row

RunActivityWrites(a) ==
  /\ a \notin Cases
  /\ at[a] = "write"
  /\ WriteRun(a)
  /\ at' = [at EXCEPT ![a] = "number"]
  /\ UNCHANGED <<results, log, tries, number, failures, stream, taskStream, analyst>>

(* A case is first reset to "running", then given its result; once its     *)
(* event is recorded the run is refreshed.                                 *)
CaseActivityWrites(c) ==
  \/ /\ at[c] = "write"
     /\ results' = results \ {c}
     /\ at' = [at EXCEPT ![c] = "result"]
     /\ UNCHANGED <<row, log, tries, number, failures, stream, taskStream, analyst>>
  \/ /\ at[c] = "result"
     /\ results' = IF RowExists THEN results \cup {c} ELSE results
     /\ at' = [at EXCEPT ![c] = "number"]
     /\ UNCHANGED <<row, log, tries, number, failures, stream, taskStream, analyst>>
  \/ /\ at[c] = "refresh"
     /\ WriteRun(c)
     /\ at' = [at EXCEPT ![c] = "end"]
     /\ UNCHANGED <<results, log, tries, number, failures, stream, taskStream, analyst>>

(* Mutation: the + 1 is lost.                                              *)
LastSeq ==
  IF events = {} THEN 0
  ELSE CHOOSE n \in {e.seq : e \in events} : \A e \in events : e.seq <= n

(* create_run_event: max(seq) + 1 of what is committed ...                 *)
NextSeq ==
  IF events = {} THEN 0
  ELSE 1 + (CHOOSE n \in {e.seq : e \in events} : \A e \in events : e.seq <= n)

TakeNumber(a) ==
  /\ at[a] = "number"
  /\ number' = [number EXCEPT ![a] = NextSeq]
  /\ at' = [at EXCEPT ![a] = "insert"]
  /\ UNCHANGED <<row, results, log, tries, failures, stream, taskStream, analyst>>

(* ... and the insert, which needs the run it refers to.                   *)
CommitEvent(a) ==
  /\ at[a] = "insert"
  /\ RowExists
  /\ events' = events \cup {[id |-> Event(a), seq |-> number[a]]}
  /\ overtaken' = IF \E e \in events : e.seq >= number[a]
                  THEN overtaken \cup {Event(a)} ELSE overtaken
  /\ number' = [number EXCEPT ![a] = 0]
  /\ at' = [at EXCEPT ![a] = IF a \in Cases THEN "refresh" ELSE "end"]
  /\ UNCHANGED <<row, results, tries, failures, stream, taskStream, analyst>>

EngineStep ==
  \/ \E a \in Activities : Schedule(a)
  \/ \E a \in Activities : AttemptFails(a)
  \/ \E a \in Activities : ActivityCompletes(a)
  \/ \E a \in Activities : RunActivityWrites(a)
  \/ \E c \in Cases : CaseActivityWrites(c)
  \/ \E a \in Activities : TakeNumber(a)
  \/ \E a \in Activities : CommitEvent(a)

-----------------------------------------------------------------------------
(* The API process: cancel_run and delete_run.  RunApi has their checks;   *)
(* what they write may land at any later time.                             *)
CancelLands ==
  /\ RowExists
  /\ row.state # "cancelled"
  /\ row' = [row EXCEPT !.state = "cancelled"]
  /\ UNCHANGED <<results, log, engine, stream, taskStream, analyst>>

DeleteLands ==
  /\ RowExists
  /\ row' = NoRow
  /\ results' = {}
  /\ events' = {}
  /\ UNCHANGED <<overtaken, engine, stream, taskStream, analyst>>

-----------------------------------------------------------------------------
(* Streams only read, so the bound loses no interference between them.     *)
Requests ==
  {s \in Streams : stream[s].step # "closed"}
    \cup {t \in TaskStreams : taskStream[t].step # "closed"}
    \cup {r \in Analysts : analyst[r].step # "idle"}

ClientMayAsk == Cardinality(Requests) < MaxClients

(* stream_run_events: poll the events after the last seq told, then the    *)
(* row; leave when it is terminal.  authorize_run answers 404 to a stream  *)
(* opened on a run that is gone.                                           *)

Closed == [step |-> "closed", cursor |-> -1, told |-> [i \in EventIds |-> 0], known |-> {}]

OpenStream(s) ==
  /\ stream[s].step = "closed"
  /\ ClientMayAsk
  /\ RowExists
  /\ stream' = [stream EXCEPT ![s].step = "query"]
  /\ UNCHANGED <<row, results, log, engine, taskStream, analyst>>

(* Mutation: after_seq is included.                                        *)
BatchInclusive(cursor) == {e \in events : e.seq >= cursor}

(* Mutation: the query skips one number.                                   *)
BatchSkipping(cursor) == {e \in events : e.seq > cursor + 1}

Batch(cursor) == {e \in events : e.seq > cursor}

TellEvents(s) ==
  /\ stream[s].step = "query"
  /\ LET batch == Batch(stream[s].cursor)
         ids   == {e.id : e \in batch}
     IN  stream' = [stream EXCEPT
           ![s].step   = "check",
           ![s].cursor = IF batch = {} THEN @ ELSE NextSeq - 1,
           ![s].told   = [i \in EventIds |-> IF i \in ids THEN @[i] + 1 ELSE @[i]],
           ![s].known  = {e.id : e \in events}]
  /\ UNCHANGED <<row, results, log, engine, taskStream, analyst>>

(* Mutation: "cancelled" is not taken for terminal.                        *)
CheckStateEnded(s) ==
  /\ stream[s].step = "check"
  /\ stream' = [stream EXCEPT
       ![s].step = IF row.state \in {"completed", "failed"} THEN "over" ELSE "query"]
  /\ UNCHANGED <<row, results, log, engine, taskStream, analyst>>

CheckState(s) ==
  /\ stream[s].step = "check"
  /\ stream' = [stream EXCEPT ![s].step = IF Terminal THEN "over" ELSE "query"]
  /\ UNCHANGED <<row, results, log, engine, taskStream, analyst>>

Stream(s) == TellEvents(s) \/ CheckState(s)

(* stream_task_events: a snapshot of the row whenever it has changed.      *)
NoTask   == [step |-> "closed", last |-> [state |-> "none", done |-> 0]]
Snapshot == [state |-> row.state, done |-> row.done]

OpenTaskStream(t) ==
  /\ taskStream[t].step = "closed"
  /\ ClientMayAsk
  /\ RowExists
  /\ taskStream' = [taskStream EXCEPT ![t].step = "poll"]
  /\ UNCHANGED <<row, results, log, engine, stream, analyst>>

(* Mutation: a missing row is polled again, as stream_run_events does.     *)
TellSnapshotWaiting(t) ==
  /\ taskStream[t].step = "poll"
  /\ taskStream' = [taskStream EXCEPT
       ![t].last = IF RowExists THEN Snapshot ELSE @,
       ![t].step = IF Terminal THEN "over" ELSE "poll"]
  /\ UNCHANGED <<row, results, log, engine, stream, analyst>>

TellSnapshot(t) ==
  /\ taskStream[t].step = "poll"
  /\ taskStream' = [taskStream EXCEPT
       ![t].last = IF RowExists THEN Snapshot ELSE @,
       ![t].step = IF RowExists /\ ~Terminal THEN "poll" ELSE "over"]
  /\ UNCHANGED <<row, results, log, engine, stream, analyst>>

-----------------------------------------------------------------------------
(* write_run_analysis.  Each request asks the model for a text of its own, *)
(* known by the request's name.                                            *)

NoAnswer == [step |-> "idle", answer |-> "none", basis |-> 0]

Answer(r, what) ==
  analyst' = [analyst EXCEPT ![r].step = "answered", ![r].answer = what]

(* Mutation: a run that is not completed is analysed too.                  *)
AnalysisReadsAnyRun(r) ==
  /\ analyst[r].step = "idle"
  /\ \/ ~RowExists /\ Answer(r, "404")
     \/ RowExists /\ row.analysis # "none" /\ Answer(r, row.analysis)
     \/ /\ RowExists /\ row.analysis = "none"
        /\ analyst' = [analyst EXCEPT ![r].step = "asking", ![r].basis = row.done]
  /\ UNCHANGED <<row, results, log, engine, stream, taskStream>>

(* One read of the row decides: 404, the stored analysis, 503 (the model   *)
(* could not be set up at startup), 409, or the model.                     *)
AnalysisReads(r) ==
  /\ analyst[r].step = "idle"
  /\ ClientMayAsk
  /\ \/ ~RowExists /\ Answer(r, "404")
     \/ RowExists /\ row.analysis # "none" /\ Answer(r, row.analysis)
     \/ RowExists /\ row.analysis = "none" /\ Answer(r, "503")
     \/ RowExists /\ row.analysis = "none" /\ row.state # "completed" /\ Answer(r, "409")
     \/ /\ RowExists /\ row.analysis = "none" /\ row.state = "completed"
        /\ analyst' = [analyst EXCEPT ![r].step = "asking", ![r].basis = row.done]
  /\ UNCHANGED <<row, results, log, engine, stream, taskStream>>

(* analyze() raises, or what it returns is not the JSON asked for.         *)
AnalysisFails(r) ==
  /\ analyst[r].step = "asking"
  /\ Answer(r, "500")
  /\ UNCHANGED <<row, results, log, engine, stream, taskStream>>

(* update_run_analysis does not look at what is stored by now.             *)
AnalysisWrites(r) ==
  /\ analyst[r].step = "asking"
  /\ row' = IF RowExists THEN [row EXCEPT !.analysis = r] ELSE row
  /\ Answer(r, IF RowExists THEN r ELSE "500")
  /\ UNCHANGED <<results, log, engine, stream, taskStream>>

Analyse(r) == AnalysisReads(r) \/ AnalysisFails(r) \/ AnalysisWrites(r)

-----------------------------------------------------------------------------
Init ==
  /\ row = [state |-> "pending", done |-> 0, analysis |-> "none"]
  /\ results = {}
  /\ events = {}
  /\ overtaken = {}
  /\ at = [a \in Activities |-> "idle"]
  /\ tries = [a \in Activities |-> 0]
  /\ number = [a \in Activities |-> 0]
  /\ failures = 0
  /\ stream = [s \in Streams |-> Closed]
  /\ taskStream = [t \in TaskStreams |-> NoTask]
  /\ analyst = [r \in Analysts |-> NoAnswer]

Next ==
  \/ EngineStep
  \/ CancelLands
  \/ DeleteLands
  \/ \E s \in Streams : OpenStream(s) \/ Stream(s)
  \/ \E t \in TaskStreams : OpenTaskStream(t) \/ TellSnapshot(t)
  \/ \E r \in Analysts : Analyse(r)

Spec == Init /\ [][Next]_vars

(* A generator that is being read polls again after its sleep.  Nothing is *)
(* assumed of the engine or of the other requests.                         *)
Fairness ==
  /\ \A s \in Streams : WF_vars(Stream(s))
  /\ \A t \in TaskStreams : WF_vars(TellSnapshot(t))

FairSpec == Spec /\ Fairness

-----------------------------------------------------------------------------
(* Properties.                                                             *)

TypeOK ==
  /\ row \in [state : RowStates \cup {"none"}, done : Nat, analysis : Analysts \cup {"none"}]
  /\ results \subseteq Cases
  /\ events \subseteq [id : EventIds, seq : Nat]
  /\ overtaken \subseteq EventIds
  /\ at \in [Activities -> Steps]
  /\ tries \in [Activities -> 0..Attempts]
  /\ number \in [Activities -> Nat]
  /\ failures \in 0..MaxFailures
  /\ stream \in [Streams -> [step : {"closed", "query", "check", "over"}, cursor : Nat \cup {-1},
                             told : [EventIds -> Nat], known : SUBSET EventIds]]
  /\ taskStream \in [TaskStreams -> [step : {"closed", "poll", "over"},
                                     last : [state : RowStates \cup {"none"}, done : Nat]]]
  /\ analyst \in [Analysts -> [step : {"idle", "asking", "answered"},
                               answer : Analysts \cup {"none", "404", "409", "500", "503"},
                               basis : Nat]]

(* However numbers were shared, a stream tells an event once at most: the  *)
(* cursor of stream_run_events is the greatest seq it has told.            *)
ToldOnce == \A s \in Streams, i \in EventIds : stream[s].told[i] <= 1

(* A stream never misses an event that was committed when it last asked,   *)
(* except one that was overtaken: whose number another event had reached   *)
(* when it was committed.                                                  *)
OnlyOvertakenIsMissed ==
  \A s \in Streams : \A i \in stream[s].known :
    stream[s].told[i] > 0 \/ i \in overtaken

(* Only the events of cases can be overtaken, or share their number: they  *)
(* are the only ones recorded concurrently.  So a stream always learns     *)
(* that the run has started, and how it ended if it asks after that.       *)
OnlyCasesAreOvertaken == \A i \in overtaken : i[1] \in Cases

(* A task stream that ended on "completed" told the final counters: no     *)
(* case changes them after the last activity has read them.                *)
TaskStreamTellsFinalCounters ==
  \A t \in TaskStreams :
    taskStream[t].step = "over" /\ taskStream[t].last.state = "completed" /\ RowExists
      => taskStream[t].last.done = Cardinality(results)

(* An analysis is about the counters its run shows: what the request read  *)
(* when it found the run completed is still there, whatever it is told     *)
(* later (a retried finalize_run, mark_run_failed, a late cancellation).   *)
AnalysisIsOfThisRun ==
  row.analysis # "none" => analyst[row.analysis].basis = row.done

(* Once a run stays terminal, its open streams end.                        *)
StreamsEnd ==
  <>[]Terminal => \A s \in Streams : []<>(stream[s].step \in {"closed", "over"})

(* A task stream also ends when its run is deleted.                        *)
TaskStreamsEnd ==
  <>[](Terminal \/ ~RowExists)
    => \A t \in TaskStreams : []<>(taskStream[t].step \in {"closed", "over"})
-----------------------------------------------------------------------------
(* What the repository says and the code does not keep.                    *)

(* runs/api.py:163, of write_run_analysis: "Write (once) and return the    *)
(* LLM analysis of a completed run."                                       *)
AnalysisWrittenOnce ==
  [][row.analysis # "none" /\ row'.state # "none" => row'.analysis = row.analysis]_vars
=============================================================================
