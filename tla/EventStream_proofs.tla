--------------------------- MODULE EventStream_proofs ---------------------------
(***************************************************************************)
(* Proofs about EventStream, for any number of cases, attempts, streams    *)
(* and analysis requests: types, what a stream tells, what the snapshots   *)
(* and the analysis of a completed run show.                               *)
(***************************************************************************)
EXTENDS EventStream, FiniteSetTheorems, TLAPS

USE DEF engine, log

-----------------------------------------------------------------------------
(* Types.                                                                  *)

(* A non-empty log has a greatest number, because it grows one event at a  *)
(* time.                                                                   *)
MaxInv == events # {} => \E e \in events : \A f \in events : f.seq <= e.seq

(* An activity has an attempt number from its scheduling on.               *)
TriesInv ==
  \A a \in Activities : tries[a] \in IF at[a] = "idle" THEN {0} ELSE 1..Attempts

LEMMA NextSeqIsNew ==
  ASSUME TypeOK, MaxInv
  PROVE  /\ NextSeq \in Nat
         /\ \A e \in events : e.seq <= NextSeq - 1
         /\ events # {} => \E e \in events : e.seq = NextSeq - 1
<1>1. CASE events = {}
  BY <1>1 DEF NextSeq
<1>2. CASE events # {}
  <2> DEFINE N == {e.seq : e \in events}
             greatest == CHOOSE n \in N : \A e \in events : e.seq <= n
  <2>1. \E n \in N : \A e \in events : e.seq <= n
    BY <1>2 DEF MaxInv
  <2>2. greatest \in N /\ \A e \in events : e.seq <= greatest
    BY <2>1
  <2>3. NextSeq = 1 + greatest
    BY <1>2 DEF NextSeq
  <2>4. N \subseteq Nat
    BY DEF TypeOK
  <2>5. PICK e \in events : e.seq = greatest
    BY <2>2
  <2>6. greatest \in Nat
    BY <2>2, <2>4
  <2> HIDE DEF greatest
  <2>7. NextSeq - 1 = greatest /\ NextSeq \in Nat
    BY <2>3, <2>6
  <2>8. QED
    BY <2>2, <2>5, <2>7
<1>3. QED  BY <1>1, <1>2

LEMMA ResultsCount ==
  ASSUME TypeOK
  PROVE  Cardinality(results) \in Nat
BY StreamAssumption, FS_Subset, FS_CardinalityType DEF TypeOK

LEMMA MaxStep ==
  ASSUME TypeOK, MaxInv, [Next]_vars
  PROVE  MaxInv'
<1>1. CASE UNCHANGED events
  BY <1>1 DEF MaxInv
<1>2. CASE DeleteLands
  BY <1>2 DEF DeleteLands, MaxInv
<1>3. ASSUME NEW a \in Activities, CommitEvent(a) PROVE MaxInv'
  <2> DEFINE new == [id |-> Event(a), seq |-> number[a]]
  <2>1. events' = events \cup {new} /\ new.seq \in Nat
    BY <1>3 DEF CommitEvent, TypeOK
  <2>2. \A e \in events : e.seq \in Nat
    BY DEF TypeOK
  <2>3. CASE events = {}
    BY <2>1, <2>3 DEF MaxInv
  <2>4. CASE events # {}
    <3>1. PICK e \in events : \A f \in events : f.seq <= e.seq
      BY <2>4 DEF MaxInv
    <3>2. CASE new.seq <= e.seq
      BY <2>1, <3>1, <3>2 DEF MaxInv
    <3>3. CASE e.seq < new.seq
      <4>1. \A f \in events' : f.seq <= new.seq
        BY <2>1, <2>2, <3>1, <3>3
      <4>2. QED
        BY <2>1, <4>1 DEF MaxInv
    <3>4. QED  BY <2>1, <2>2, <3>2, <3>3
  <2>5. QED  BY <2>3, <2>4
<1>4. QED
  BY <1>1, <1>2, <1>3
     DEF Next, vars, EngineStep, Schedule, AttemptFails, ActivityCompletes, RunActivityWrites,
         CaseActivityWrites, TakeNumber, CancelLands, OpenStream, Stream, TellEvents,
         CheckState, OpenTaskStream, TellSnapshot, Analyse, AnalysisReads, AnalysisFails,
         AnalysisWrites

LEMMA TriesStep ==
  ASSUME TypeOK, TriesInv, [Next]_vars
  PROVE  TriesInv'
<1>1. CASE UNCHANGED <<at, tries>>
  BY <1>1 DEF TriesInv
<1>2. ASSUME NEW a \in Activities, Schedule(a) \/ AttemptFails(a) PROVE TriesInv'
  BY <1>2, StreamAssumption DEF Schedule, AttemptFails, TriesInv, TypeOK
<1>3. ASSUME NEW a \in Activities,
             \/ ActivityCompletes(a) \/ RunActivityWrites(a) \/ TakeNumber(a) \/ CommitEvent(a)
             \/ CaseActivityWrites(a)
      PROVE  TriesInv'
  <2>1. /\ UNCHANGED tries /\ at[a] # "idle" /\ at'[a] # "idle"
        /\ \A b \in Activities : b # a => at'[b] = at[b]
    BY <1>3 DEF ActivityCompletes, RunActivityWrites, TakeNumber, CommitEvent,
                CaseActivityWrites, TypeOK
  <2>2. QED
    BY <2>1 DEF TriesInv
<1>4. QED
  BY <1>1, <1>2, <1>3
     DEF Next, vars, EngineStep, CancelLands, DeleteLands, OpenStream, Stream, TellEvents,
         CheckState, OpenTaskStream, TellSnapshot, Analyse, AnalysisReads, AnalysisFails,
         AnalysisWrites, Activities

LEMMA EngineType ==
  ASSUME TypeOK, MaxInv, TriesInv, EngineStep
  PROVE  TypeOK'
<1> USE DEF TypeOK
<1>1. ASSUME NEW a \in Activities, Schedule(a) PROVE TypeOK'
  BY <1>1, StreamAssumption DEF Schedule, Steps
<1>2. ASSUME NEW a \in Activities, AttemptFails(a) PROVE TypeOK'
  BY <1>2, StreamAssumption DEF AttemptFails, Steps
<1>3. ASSUME NEW a \in Activities, ActivityCompletes(a) PROVE TypeOK'
  BY <1>3 DEF ActivityCompletes, Steps
<1>4. ASSUME NEW a \in Activities, WriteRun(a)
      PROVE  row' \in [state : RowStates \cup {"none"}, done : Nat,
                       analysis : Analysts \cup {"none"}]
  <2>1. StateWritten(a) \in RowStates
    BY DEF StateWritten, RowStates
  <2>2. QED
    BY <1>4, <2>1, ResultsCount DEF WriteRun
<1>5. ASSUME NEW a \in Activities, RunActivityWrites(a) PROVE TypeOK'
  BY <1>4, <1>5 DEF RunActivityWrites, Steps
<1>6. ASSUME NEW c \in Cases, CaseActivityWrites(c) PROVE TypeOK'
  <2>1. at' \in [Activities -> Steps]
    BY <1>6 DEF CaseActivityWrites, Steps, Activities
  <2>2. results' \subseteq Cases
    BY <1>6 DEF CaseActivityWrites
  <2>3. row' \in [state : RowStates \cup {"none"}, done : Nat, analysis : Analysts \cup {"none"}]
    BY <1>4, <1>6 DEF CaseActivityWrites, Activities
  <2>4. QED
    BY <1>6, <2>1, <2>2, <2>3 DEF CaseActivityWrites
<1>7. ASSUME NEW a \in Activities, TakeNumber(a) PROVE TypeOK'
  BY <1>7, NextSeqIsNew DEF TakeNumber, Steps
<1>8. ASSUME NEW a \in Activities, CommitEvent(a) PROVE TypeOK'
  <2>1. Event(a) \in EventIds
    BY <1>8 DEF CommitEvent, Event, EventIds, TriesInv
  <2>2. QED
    BY <1>8, <2>1 DEF CommitEvent, Steps
<1>9. QED
  BY <1>1, <1>2, <1>3, <1>5, <1>6, <1>7, <1>8 DEF EngineStep

(* One step of a stream, field by field.                                   *)
StreamRecs == [step : {"closed", "query", "check", "over"}, cursor : Nat \cup {-1},
               told : [EventIds -> Nat], known : SUBSET EventIds]

LEMMA StreamMoves ==
  ASSUME stream \in [Streams -> StreamRecs], NEW s \in Streams, OpenStream(s) \/ CheckState(s)
  PROVE  /\ stream' \in [Streams -> StreamRecs]
         /\ \A z \in Streams : /\ stream'[z].cursor = stream[z].cursor
                               /\ stream'[z].told = stream[z].told
                               /\ stream'[z].known = stream[z].known
<1>1. PICK step \in {"query", "over"} : stream' = [stream EXCEPT ![s].step = step]
  <2>1. \E step \in {"query", "over"} : stream' = [stream EXCEPT ![s].step = step]
    BY DEF OpenStream, CheckState
  <2>2. QED  BY <2>1
<1>2. [stream[s] EXCEPT !.step = step] \in StreamRecs
  BY DEF StreamRecs
<1>3. stream' \in [Streams -> StreamRecs]
  BY <1>1, <1>2
<1>4. \A z \in Streams : /\ stream'[z].cursor = stream[z].cursor
                         /\ stream'[z].told = stream[z].told
                         /\ stream'[z].known = stream[z].known
  BY <1>1 DEF StreamRecs
<1>5. QED  BY <1>3, <1>4

(* What a stream has told after a poll, and how far it then is.            *)
ToldIds(s)   == {e.id : e \in Batch(stream[s].cursor)}
ToldNext(s)  == [i \in EventIds |-> IF i \in ToldIds(s) THEN stream[s].told[i] + 1
                                                        ELSE stream[s].told[i]]
CursorNext(s) == IF Batch(stream[s].cursor) = {} THEN stream[s].cursor ELSE NextSeq - 1

LEMMA TellWrites ==
  ASSUME TypeOK, MaxInv, NEW s \in Streams, TellEvents(s)
  PROVE  /\ stream' \in [Streams -> StreamRecs]
         /\ stream'[s].cursor = CursorNext(s)
         /\ stream'[s].told = ToldNext(s)
         /\ stream'[s].known = {e.id : e \in events}
         /\ \A z \in Streams : z # s => stream'[z] = stream[z]
<1> DEFINE known == {e.id : e \in events}
           new == [[[[stream[s] EXCEPT !.step = "check"] EXCEPT !.cursor = CursorNext(s)]
                     EXCEPT !.told = ToldNext(s)] EXCEPT !.known = known]
<1>1. stream \in [Streams -> StreamRecs] /\ stream[s] \in StreamRecs
  BY DEF TypeOK, StreamRecs
<1>2. ToldNext(s) \in [EventIds -> Nat]
  BY <1>1 DEF ToldNext, StreamRecs
<1>3. CursorNext(s) \in Nat \cup {-1}
  <2>1. events # {} => NextSeq - 1 \in Nat
    BY NextSeqIsNew DEF TypeOK
  <2>2. QED
    BY <1>1, <2>1 DEF CursorNext, Batch, StreamRecs
<1>4. known \in SUBSET EventIds
  BY DEF TypeOK
<1>5. stream' = [stream EXCEPT ![s].step = "check", ![s].cursor = CursorNext(s),
                               ![s].told = ToldNext(s), ![s].known = known]
  BY DEF TellEvents, CursorNext, ToldNext, ToldIds
<1> HIDE DEF known
<1>6. new \in StreamRecs /\ new.cursor = CursorNext(s) /\ new.told = ToldNext(s)
      /\ new.known = known
  BY <1>1, <1>2, <1>3, <1>4 DEF StreamRecs
<1>7. stream' \in [Streams -> StreamRecs]
  BY <1>1, <1>5, <1>6
<1>8. stream'[s] = new
  BY <1>1, <1>5
<1>9. \A z \in Streams : z # s => stream'[z] = stream[z]
  BY <1>1, <1>5
<1>10. QED
  BY <1>6, <1>7, <1>8, <1>9 DEF known

AnalystRecs == [step : {"idle", "asking", "answered"},
                answer : Analysts \cup {"none", "404", "409", "500", "503"}, basis : Nat]

LEMMA AnswerType ==
  ASSUME TypeOK, NEW r \in Analysts, NEW what \in Analysts \cup {"404", "409", "500", "503"},
         Answer(r, what)
  PROVE  /\ analyst' \in [Analysts -> AnalystRecs]
         /\ analyst'[r].step = "answered"
         /\ \A z \in Analysts : /\ analyst'[z].basis = analyst[z].basis
                                /\ z # r => analyst'[z] = analyst[z]
<1> DEFINE new == [[analyst[r] EXCEPT !.step = "answered"] EXCEPT !.answer = what]
<1>1. analyst \in [Analysts -> AnalystRecs]
  BY DEF TypeOK, AnalystRecs
<1>2. new \in AnalystRecs /\ new.step = "answered" /\ new.basis = analyst[r].basis
  BY <1>1 DEF AnalystRecs
<1>3. analyst' \in [Analysts -> AnalystRecs] /\ analyst'[r] = new
  BY <1>1, <1>2 DEF Answer
<1>4. \A z \in Analysts : z # r => analyst'[z] = analyst[z]
  BY <1>1 DEF Answer
<1>5. QED
  BY <1>2, <1>3, <1>4

LEMMA AskingType ==
  ASSUME TypeOK, NEW r \in Analysts,
         analyst' = [analyst EXCEPT ![r].step = "asking", ![r].basis = row.done]
  PROVE  /\ analyst' \in [Analysts -> AnalystRecs]
         /\ analyst'[r].basis = row.done
         /\ \A z \in Analysts : z # r => analyst'[z] = analyst[z]
<1> DEFINE new == [[analyst[r] EXCEPT !.step = "asking"] EXCEPT !.basis = row.done]
<1>1. analyst \in [Analysts -> AnalystRecs] /\ row.done \in Nat
  BY DEF TypeOK, AnalystRecs
<1>2. new \in AnalystRecs /\ new.basis = row.done
  BY <1>1 DEF AnalystRecs
<1>3. analyst' \in [Analysts -> AnalystRecs] /\ analyst'[r] = new
  BY <1>1, <1>2
<1>4. \A z \in Analysts : z # r => analyst'[z] = analyst[z]
  BY <1>1
<1>5. QED
  BY <1>2, <1>3, <1>4

LEMMA ClientType ==
  ASSUME TypeOK, MaxInv,
         \/ CancelLands \/ DeleteLands
         \/ \E s \in Streams : OpenStream(s) \/ Stream(s)
         \/ \E t \in TaskStreams : OpenTaskStream(t) \/ TellSnapshot(t)
         \/ \E r \in Analysts : Analyse(r)
  PROVE  TypeOK'
<1> USE DEF TypeOK
<1>0. stream \in [Streams -> StreamRecs] /\ analyst \in [Analysts -> AnalystRecs]
  BY DEF StreamRecs, AnalystRecs
<1>1. CASE CancelLands
  BY <1>1 DEF CancelLands, RowStates
<1>2. CASE DeleteLands
  BY <1>2 DEF DeleteLands, NoRow
<1>3. ASSUME NEW s \in Streams, OpenStream(s) \/ CheckState(s) PROVE TypeOK'
  <2>1. stream' \in [Streams -> StreamRecs]
    BY <1>0, <1>3, StreamMoves
  <2>2. QED
    BY <1>3, <2>1 DEF OpenStream, CheckState, StreamRecs
<1>4. ASSUME NEW s \in Streams, TellEvents(s) PROVE TypeOK'
  <2>1. stream' \in [Streams -> StreamRecs]
    BY <1>4, TellWrites
  <2>2. QED
    BY <1>4, <2>1 DEF TellEvents, StreamRecs
<1>5. ASSUME NEW t \in TaskStreams, OpenTaskStream(t) PROVE TypeOK'
  BY <1>5 DEF OpenTaskStream
<1>6. ASSUME NEW t \in TaskStreams, TellSnapshot(t) PROVE TypeOK'
  BY <1>6 DEF TellSnapshot, Snapshot
<1>7. ASSUME NEW r \in Analysts, AnalysisReads(r) PROVE TypeOK'
  <2>1. analyst' \in [Analysts -> AnalystRecs]
    <3>1. row.analysis # "none" => row.analysis \in Analysts
      OBVIOUS
    <3>2. (\E what \in Analysts \cup {"404", "409", "503"} : Answer(r, what))
            \/ analyst' = [analyst EXCEPT ![r].step = "asking", ![r].basis = row.done]
      BY <1>7, <3>1 DEF AnalysisReads
    <3>3. QED
      BY <3>2, AnswerType, AskingType
  <2>2. QED
    BY <1>7, <2>1 DEF AnalysisReads, AnalystRecs
<1>8. ASSUME NEW r \in Analysts, AnalysisFails(r) \/ AnalysisWrites(r) PROVE TypeOK'
  <2>1. analyst' \in [Analysts -> AnalystRecs]
    BY <1>8, AnswerType DEF AnalysisFails, AnalysisWrites
  <2>2. QED
    BY <1>8, <2>1 DEF AnalysisFails, AnalysisWrites, AnalystRecs
<1>9. QED
  BY <1>1, <1>2, <1>3, <1>4, <1>5, <1>6, <1>7, <1>8 DEF Stream, Analyse

StreamTypeInv == TypeOK /\ MaxInv /\ TriesInv

LEMMA StreamTypeInvariant == Spec => []StreamTypeInv
<1>1. Init => StreamTypeInv
  <2> SUFFICES ASSUME Init PROVE StreamTypeInv
    OBVIOUS
  <2>1. TypeOK
    BY StreamAssumption DEF Init, TypeOK, RowStates, Steps, Closed, NoTask, NoAnswer
  <2>2. QED
    BY <2>1 DEF Init, StreamTypeInv, MaxInv, TriesInv
<1>2. StreamTypeInv /\ [Next]_vars => StreamTypeInv'
  <2> SUFFICES ASSUME StreamTypeInv, [Next]_vars PROVE StreamTypeInv'
    OBVIOUS
  <2>1. TypeOK'
    <3>1. CASE Next
      BY <3>1, EngineType, ClientType DEF StreamTypeInv, Next
    <3>2. CASE UNCHANGED vars
      BY <3>2 DEF vars, StreamTypeInv, TypeOK
    <3>3. QED  BY <3>1, <3>2
  <2>2. QED
    BY <2>1, MaxStep, TriesStep DEF StreamTypeInv
<1>3. QED
  BY <1>1, <1>2, PTL DEF Spec

(* Type correctness of the log, the streams and the analyses.              *)
THEOREM StreamTypeCorrect == Spec => []TypeOK
<1>1. StreamTypeInv => TypeOK
  BY DEF StreamTypeInv
<1>2. QED
  BY <1>1, StreamTypeInvariant, PTL
-----------------------------------------------------------------------------
(* Which activities run together.                                          *)

Working(a) == at[a] \notin {"idle", "done", "gave_up"}

OrderInv ==
  /\ at["start"] # "done" => at["final"] = "idle" /\ \A c \in Cases : at[c] = "idle"
  /\ at["final"] # "idle" => at["start"] = "done" /\ \A c \in Cases : Settled(c)
  /\ at["failed"] # "idle" => "gave_up" \in {at["start"], at["final"]}

LEMMA EngineMoves ==
  ASSUME TypeOK, EngineStep
  PROVE  \E a \in Activities :
           /\ \A b \in Activities : b # a => at'[b] = at[b]
           /\ at[a] = "idle" => Due(a)
           /\ at[a] \notin {"done", "gave_up"} /\ at'[a] # "idle"
<1>1. PICK a \in Activities : \/ Schedule(a) \/ AttemptFails(a) \/ ActivityCompletes(a)
                              \/ RunActivityWrites(a) \/ CaseActivityWrites(a)
                              \/ TakeNumber(a) \/ CommitEvent(a)
  BY DEF EngineStep, Activities
<1>2. \A b \in Activities : b # a => at'[b] = at[b]
  BY <1>1 DEF Schedule, AttemptFails, ActivityCompletes, RunActivityWrites,
              CaseActivityWrites, TakeNumber, CommitEvent, TypeOK
<1>3. at[a] = "idle" => Due(a)
  BY <1>1 DEF Schedule, AttemptFails, ActivityCompletes, RunActivityWrites,
              CaseActivityWrites, TakeNumber, CommitEvent
<1>4. at[a] \notin {"done", "gave_up"} /\ at'[a] # "idle"
  BY <1>1 DEF Schedule, AttemptFails, ActivityCompletes, RunActivityWrites,
              CaseActivityWrites, TakeNumber, CommitEvent, TypeOK
<1>5. QED
  BY <1>2, <1>3, <1>4

LEMMA ClientKeepsEngine ==
  ASSUME [Next]_vars, ~EngineStep
  PROVE  /\ UNCHANGED engine
         /\ UNCHANGED log \/ DeleteLands
BY DEF Next, vars, CancelLands, DeleteLands, OpenStream, Stream, TellEvents, CheckState,
       OpenTaskStream, TellSnapshot, Analyse, AnalysisReads, AnalysisFails, AnalysisWrites

LEMMA OrderStep ==
  ASSUME TypeOK, OrderInv, [Next]_vars
  PROVE  OrderInv'
<1>1. CASE ~EngineStep
  BY <1>1, ClientKeepsEngine DEF OrderInv, Settled
<1>2. CASE EngineStep
  <2>1. PICK a \in Activities : /\ \A b \in Activities : b # a => at'[b] = at[b]
                                /\ at[a] = "idle" => Due(a)
                                /\ at[a] \notin {"done", "gave_up"} /\ at'[a] # "idle"
    BY <1>2, EngineMoves
  <2>2. CASE a = "start"
    BY <2>1, <2>2, StreamAssumption DEF OrderInv, Activities, Settled
  <2>3. CASE a = "final"
    BY <2>1, <2>3, StreamAssumption DEF OrderInv, Activities, Settled, Due
  <2>4. CASE a = "failed"
    BY <2>1, <2>4, StreamAssumption DEF OrderInv, Activities, Settled, Due
  <2>5. CASE a \in Cases
    <3>1. at["final"] = "idle" /\ at["start"] = "done"
      BY <2>1, <2>5, StreamAssumption DEF OrderInv, Settled, Due
    <3>2. at'["final"] = "idle" /\ at'["start"] = "done" /\ at'["failed"] = at["failed"]
      BY <2>1, <2>5, <3>1, StreamAssumption DEF Activities
    <3>3. QED
      BY <3>1, <3>2 DEF OrderInv
  <2>6. QED  BY <2>2, <2>3, <2>4, <2>5 DEF Activities
<1>3. QED  BY <1>1, <1>2

(* mark_run_started, finalize_run and mark_run_failed run alone.           *)
LEMMA RunActivityIsAlone ==
  ASSUME OrderInv, NEW a \in Activities \ Cases, NEW b \in Activities, Working(a), Working(b)
  PROVE  a = b
BY StreamAssumption DEF OrderInv, Working, Activities, Settled

-----------------------------------------------------------------------------
(* The log.                                                                *)

Recorded == {"refresh", "end", "done", "gave_up"}

(* An attempt records one event, and only when it gets there.              *)
FreshInv ==
  \A e \in events, a \in Activities :
    e.id[1] = a => /\ e.id[2] <= tries[a]
                   /\ e.id[2] = tries[a] => at[a] \in Recorded

UniqueInv == \A e, f \in events : e.id = f.id => e = f

GoneInv == ~RowExists => events = {} /\ row.analysis = "none"

(* What the activities of the run are about to record comes last.          *)
LastInv ==
  \A a \in Activities \ Cases :
    at[a] = "insert" => \A e \in events : e.seq < number[a]

LogInv == StreamTypeInv /\ OrderInv /\ FreshInv /\ UniqueInv /\ GoneInv /\ LastInv

LEMMA RowStays ==
  ASSUME TypeOK, [Next]_vars
  PROVE  /\ RowExists' => RowExists
         /\ RowExists /\ ~DeleteLands => RowExists'
         /\ ~RowExists => UNCHANGED row
<1>1. ASSUME NEW a \in Activities, WriteRun(a)
      PROVE  (RowExists' <=> RowExists) /\ (~RowExists => UNCHANGED row)
  <2>1. StateWritten(a) # "none"
    BY DEF StateWritten
  <2>2. QED
    BY <1>1, <2>1 DEF WriteRun, RowExists, TypeOK
<1>2. CASE EngineStep
  BY <1>1, <1>2
     DEF EngineStep, Schedule, AttemptFails, ActivityCompletes, RunActivityWrites,
         CaseActivityWrites, TakeNumber, CommitEvent, RowExists, Activities
<1>3. CASE ~EngineStep
  BY <1>3 DEF Next, vars, CancelLands, DeleteLands, NoRow, OpenStream, Stream, TellEvents,
              CheckState, OpenTaskStream, TellSnapshot, Analyse, AnalysisReads,
              AnalysisFails, AnalysisWrites, RowExists, TypeOK
<1>4. QED  BY <1>2, <1>3

LEMMA EventsGrow ==
  ASSUME EngineStep
  PROVE  UNCHANGED log \/ \E a \in Activities : CommitEvent(a)
BY DEF EngineStep, Schedule, AttemptFails, ActivityCompletes, RunActivityWrites,
       CaseActivityWrites, TakeNumber

LEMMA IdsOfAttempts ==
  ASSUME TypeOK, NEW e \in events
  PROVE  e.id[1] \in Activities /\ e.id[2] \in 1..Attempts /\ e.id = <<e.id[1], e.id[2]>>
BY DEF TypeOK, EventIds

LEMMA FreshStep ==
  ASSUME LogInv, [Next]_vars
  PROVE  FreshInv'
<1>0. TypeOK /\ TriesInv /\ FreshInv
  BY DEF LogInv, StreamTypeInv
<1>1. CASE ~EngineStep
  BY <1>1, ClientKeepsEngine DEF LogInv, FreshInv, DeleteLands
<1>2. ASSUME NEW a \in Activities, Schedule(a) PROVE FreshInv'
  <2>1. \A e \in events : e.id[1] # a
    BY <1>0, <1>2, IdsOfAttempts, StreamAssumption DEF Schedule, TriesInv, FreshInv
  <2>2. \A b \in Activities : b # a => at'[b] = at[b] /\ tries'[b] = tries[b]
    BY <1>0, <1>2 DEF Schedule, TypeOK
  <2>3. QED
    BY <1>0, <1>2, <2>1, <2>2 DEF Schedule, FreshInv
<1>3. ASSUME NEW a \in Activities, AttemptFails(a) PROVE FreshInv'
  <2>1. UNCHANGED events /\ \A b \in Activities : b # a => at'[b] = at[b] /\ tries'[b] = tries[b]
    BY <1>0, <1>3 DEF AttemptFails, TypeOK
  <2>2. \/ tries'[a] = tries[a] + 1
        \/ tries'[a] = tries[a] /\ at'[a] = "gave_up"
    BY <1>0, <1>3 DEF AttemptFails, TypeOK
  <2>3. tries[a] \in Nat
    BY <1>0 DEF TypeOK
  <2>4. \A e \in events : e.id[1] = a => e.id[2] <= tries'[a]
                                         /\ (e.id[2] = tries'[a] => at'[a] \in Recorded)
    BY <1>0, <2>2, <2>3, IdsOfAttempts, StreamAssumption DEF FreshInv, Recorded
  <2>5. QED
    BY <1>0, <2>1, <2>4 DEF FreshInv
<1>4. ASSUME NEW a \in Activities, \/ ActivityCompletes(a) \/ RunActivityWrites(a)
                                   \/ TakeNumber(a) \/ CaseActivityWrites(a)
      PROVE  FreshInv'
  <2>1. /\ UNCHANGED <<events, tries>>
        /\ \A b \in Activities : b # a => at'[b] = at[b]
        /\ at[a] \in Recorded => at'[a] \in Recorded
    BY <1>0, <1>4 DEF ActivityCompletes, RunActivityWrites, TakeNumber, CaseActivityWrites,
                      TypeOK, Recorded
  <2>2. QED
    BY <1>0, <2>1 DEF FreshInv
<1>5. ASSUME NEW a \in Activities, CommitEvent(a) PROVE FreshInv'
  <2>1. /\ UNCHANGED tries
        /\ events' = events \cup {[id |-> <<a, tries[a]>>, seq |-> number[a]]}
        /\ \A b \in Activities : b # a => at'[b] = at[b]
        /\ at'[a] \in Recorded
    BY <1>0, <1>5 DEF CommitEvent, Event, TypeOK, Recorded
  <2>2. tries[a] \in Nat
    BY <1>0 DEF TypeOK
  <2>3. QED
    BY <1>0, <2>1, <2>2 DEF FreshInv
<1>6. QED
  BY <1>1, <1>2, <1>3, <1>4, <1>5 DEF EngineStep, Activities

(* No other event has the attempt that is about to be recorded.            *)
LEMMA NewEventIsNew ==
  ASSUME LogInv, NEW a \in Activities, CommitEvent(a)
  PROVE  \A e \in events : e.id # Event(a)
BY DEF LogInv, FreshInv, CommitEvent, Event, Recorded

LEMMA UniqueStep ==
  ASSUME LogInv, [Next]_vars
  PROVE  UniqueInv'
<1>1. CASE UNCHANGED events
  BY <1>1 DEF LogInv, UniqueInv
<1>2. CASE DeleteLands
  BY <1>2 DEF DeleteLands, UniqueInv
<1>3. ASSUME NEW a \in Activities, CommitEvent(a) PROVE UniqueInv'
  <2> DEFINE new == [id |-> Event(a), seq |-> number[a]]
  <2>1. events' = events \cup {new} /\ new.id = Event(a)
    BY <1>3 DEF CommitEvent
  <2>2. \A e \in events : e.id # new.id
    BY <1>3, <2>1, NewEventIsNew
  <2> HIDE DEF new
  <2>3. QED
    BY <2>1, <2>2 DEF LogInv, UniqueInv
<1>4. QED
  BY <1>1, <1>2, <1>3, ClientKeepsEngine, EventsGrow

LEMMA GoneStep ==
  ASSUME LogInv, [Next]_vars
  PROVE  GoneInv'
<1>1. CASE DeleteLands
  BY <1>1 DEF DeleteLands, GoneInv, NoRow
<1>2. ASSUME NEW a \in Activities, CommitEvent(a) PROVE GoneInv'
  BY <1>2 DEF CommitEvent, GoneInv, RowExists
<1>3. CASE UNCHANGED log /\ ~DeleteLands
  BY <1>3, RowStays DEF LogInv, StreamTypeInv, GoneInv
<1>4. QED
  BY <1>1, <1>2, <1>3, ClientKeepsEngine, EventsGrow

LEMMA LastStep ==
  ASSUME LogInv, [Next]_vars
  PROVE  LastInv'
<1>0. TypeOK /\ MaxInv /\ OrderInv /\ LastInv
  BY DEF LogInv, StreamTypeInv
<1>1. CASE ~EngineStep
  BY <1>0, <1>1, ClientKeepsEngine DEF LastInv, DeleteLands
<1>2. ASSUME NEW b \in Activities, CommitEvent(b) PROVE LastInv'
  <2> SUFFICES ASSUME NEW a \in Activities \ Cases, at'[a] = "insert" PROVE FALSE
    BY DEF LastInv
  <2>1. at[b] = "insert" /\ at'[b] # "insert" /\ \A c \in Activities : c # b => at'[c] = at[c]
    BY <1>0, <1>2 DEF CommitEvent, TypeOK
  <2>2. QED
    BY <1>0, <2>1, RunActivityIsAlone DEF Working
<1>3. ASSUME NEW b \in Activities, TakeNumber(b) PROVE LastInv'
  <2>1. \A e \in events : e.seq < NextSeq
    BY <1>0, NextSeqIsNew DEF TypeOK
  <2>2. /\ number'[b] = NextSeq /\ UNCHANGED events
        /\ \A c \in Activities : c # b => at'[c] = at[c] /\ number'[c] = number[c]
    BY <1>0, <1>3 DEF TakeNumber, TypeOK
  <2>3. QED
    BY <1>0, <2>1, <2>2 DEF LastInv
<1>4. ASSUME NEW b \in Activities, \/ Schedule(b) \/ AttemptFails(b) \/ ActivityCompletes(b)
                                   \/ RunActivityWrites(b) \/ CaseActivityWrites(b)
      PROVE  LastInv'
  <2>1. /\ at'[b] # "insert" /\ UNCHANGED events
        /\ \A c \in Activities : c # b => at'[c] = at[c] /\ number'[c] = number[c]
    BY <1>0, <1>4 DEF Schedule, AttemptFails, ActivityCompletes, RunActivityWrites,
                      CaseActivityWrites, TypeOK
  <2>2. QED
    BY <1>0, <2>1 DEF LastInv
<1>5. QED
  BY <1>1, <1>2, <1>3, <1>4 DEF EngineStep, Activities

LEMMA LogInvariant == Spec => []LogInv
<1>1. Init => OrderInv /\ FreshInv /\ UniqueInv /\ GoneInv /\ LastInv
  BY DEF Init, OrderInv, FreshInv, UniqueInv, GoneInv, LastInv, RowExists, Activities
<1>2. StreamTypeInv /\ StreamTypeInv' /\ LogInv /\ [Next]_vars => LogInv'
  BY OrderStep, FreshStep, UniqueStep, GoneStep, LastStep DEF LogInv, StreamTypeInv
<1>3. LogInv <=> StreamTypeInv /\ OrderInv /\ FreshInv /\ UniqueInv /\ GoneInv /\ LastInv
  BY DEF LogInv
<1>4. QED
  BY <1>1, <1>2, <1>3, StreamTypeInvariant, PTL DEF Spec

(* Only the events of cases share a number or come out of order: what      *)
(* create_run_event risks with max(seq) + 1 never hides the start or the   *)
(* end of a run.                                                           *)
THEOREM OnlyCasesAreOvertakenHolds == Spec => []OnlyCasesAreOvertaken
<1>1. Init => OnlyCasesAreOvertaken
  BY DEF Init, OnlyCasesAreOvertaken
<1>2. LogInv /\ OnlyCasesAreOvertaken /\ [Next]_vars => OnlyCasesAreOvertaken'
  <2> SUFFICES ASSUME LogInv, OnlyCasesAreOvertaken, [Next]_vars
               PROVE  OnlyCasesAreOvertaken'
    OBVIOUS
  <2>1. CASE UNCHANGED overtaken
    BY <2>1 DEF OnlyCasesAreOvertaken
  <2>2. ASSUME NEW a \in Activities, CommitEvent(a), ~UNCHANGED overtaken
        PROVE  OnlyCasesAreOvertaken'
    <3>1. \E e \in events : e.seq >= number[a]
      BY <2>2 DEF CommitEvent
    <3>2. \A e \in events : e.seq \in Nat /\ number[a] \in Nat
      BY DEF LogInv, StreamTypeInv, TypeOK
    <3>3. a \in Cases
      BY <2>2, <3>1, <3>2 DEF LogInv, LastInv, CommitEvent
    <3>4. overtaken' = overtaken \cup {<<a, tries[a]>>}
      BY <2>2, <3>1 DEF CommitEvent, Event
    <3>5. QED
      BY <3>3, <3>4 DEF OnlyCasesAreOvertaken
  <2>3. CASE DeleteLands
    BY <2>1, <2>3 DEF DeleteLands
  <2>4. QED
    BY <2>1, <2>2, <2>3, ClientKeepsEngine, EventsGrow
<1>3. QED
  BY <1>1, <1>2, LogInvariant, PTL DEF Spec

-----------------------------------------------------------------------------
(* What a stream has told.                                                 *)

(* The cursor bounds what was told, and is the number of an event; what is *)
(* not told and not beyond the cursor was overtaken.                       *)
CursorInv(s) ==
  /\ \A i \in EventIds : stream[s].told[i] <= 1
  /\ RowExists => \A i \in EventIds : stream[s].told[i] > 0 =>
                    \E e \in events : e.id = i /\ e.seq <= stream[s].cursor
  /\ RowExists => stream[s].cursor = -1 \/ \E e \in events : e.seq = stream[s].cursor
  /\ \A e \in events : e.seq <= stream[s].cursor =>
                         stream[s].told[e.id] > 0 \/ e.id \in overtaken
  /\ \A i \in stream[s].known : stream[s].told[i] > 0 \/ i \in overtaken

StreamInv == \A s \in Streams : CursorInv(s)

LEMMA CursorKept ==
  ASSUME NEW s \in Streams, CursorInv(s), UNCHANGED log, RowExists' => RowExists,
         stream'[s].cursor = stream[s].cursor, stream'[s].told = stream[s].told,
         stream'[s].known = stream[s].known
  PROVE  CursorInv(s)'
BY DEF CursorInv

LEMMA CursorTells ==
  ASSUME LogInv, NEW s \in Streams, CursorInv(s), TellEvents(s)
  PROVE  CursorInv(s)'
<1> DEFINE old == stream[s]
           new == stream'[s]
<1>0. TypeOK /\ MaxInv /\ UniqueInv /\ GoneInv
  BY DEF LogInv, StreamTypeInv
<1>1. /\ new.cursor = CursorNext(s) /\ new.told = ToldNext(s)
      /\ new.known = {e.id : e \in events}
  BY <1>0, TellWrites
<1>2. UNCHANGED <<row, events, overtaken>>
  BY DEF TellEvents
<1>3. /\ old.told \in [EventIds -> Nat] /\ old.cursor \in Nat \cup {-1}
      /\ \A e \in events : e.id \in EventIds /\ e.seq \in Nat
  BY <1>0 DEF TypeOK
<1>4. \A i \in EventIds : new.told[i] = IF i \in ToldIds(s) THEN old.told[i] + 1 ELSE old.told[i]
  BY <1>1 DEF ToldNext
<1>5. \A i \in ToldIds(s) : old.told[i] = 0
  <2> SUFFICES ASSUME NEW i \in ToldIds(s), old.told[i] # 0 PROVE FALSE
    OBVIOUS
  <2>1. PICK e \in events : e.id = i /\ e.seq > old.cursor
    BY DEF ToldIds, Batch
  <2>2. RowExists /\ i \in EventIds /\ old.told[i] > 0
    BY <1>0, <1>3, <2>1 DEF GoneInv
  <2>3. PICK f \in events : f.id = i /\ f.seq <= old.cursor
    BY <2>2 DEF CursorInv
  <2>4. e = f
    BY <1>0, <2>1, <2>3 DEF UniqueInv
  <2>5. QED
    BY <1>3, <2>1, <2>3, <2>4
<1>6. \A e \in events : e.seq <= new.cursor
  BY <1>0, <1>1, <1>3, NextSeqIsNew DEF CursorNext, Batch
<1>7. old.cursor <= new.cursor
  <2>1. CASE Batch(old.cursor) = {}
    BY <1>1, <1>3, <2>1 DEF CursorNext
  <2>2. CASE Batch(old.cursor) # {}
    <3>1. PICK e \in events : e.seq > old.cursor
      BY <2>2 DEF Batch
    <3>2. new.cursor \in Int
      BY <1>0, <1>1, <2>2, NextSeqIsNew DEF CursorNext
    <3>3. QED
      BY <1>3, <1>6, <3>1, <3>2
  <2>3. QED  BY <2>1, <2>2
<1>8. new.cursor \in Int
  BY <1>0, <1>1, <1>3, NextSeqIsNew DEF CursorNext
<1> HIDE DEF new
<1>9. \A e \in events : new.told[e.id] > 0 \/ e.id \in overtaken
  <2> SUFFICES ASSUME NEW e \in events PROVE new.told[e.id] > 0 \/ e.id \in overtaken
    OBVIOUS
  <2>1. CASE e.seq > old.cursor
    BY <1>3, <1>4, <2>1 DEF ToldIds, Batch
  <2>2. CASE e.seq <= old.cursor
    BY <1>3, <1>4, <2>2 DEF CursorInv
  <2>3. QED  BY <1>3, <2>1, <2>2
<1>10. \A i \in EventIds : new.told[i] <= 1
  BY <1>3, <1>4, <1>5 DEF CursorInv
<1>11. RowExists => \A i \in EventIds : new.told[i] > 0 =>
                      \E e \in events : e.id = i /\ e.seq <= new.cursor
  <2> SUFFICES ASSUME RowExists, NEW i \in EventIds, new.told[i] > 0
               PROVE  \E e \in events : e.id = i
    BY <1>6
  <2>1. CASE i \in ToldIds(s)
    BY <2>1 DEF ToldIds, Batch
  <2>2. CASE i \notin ToldIds(s)
    BY <1>4, <2>2 DEF CursorInv
  <2>3. QED  BY <2>1, <2>2
<1>12. RowExists => new.cursor = -1 \/ \E e \in events : e.seq = new.cursor
  <2>1. CASE Batch(old.cursor) = {}
    BY <1>1, <2>1 DEF CursorNext, CursorInv, new
  <2>2. CASE Batch(old.cursor) # {}
    BY <1>0, <1>1, <2>2, NextSeqIsNew DEF CursorNext, Batch, new
  <2>3. QED  BY <2>1, <2>2
<1>13. QED
  BY <1>1, <1>2, <1>9, <1>10, <1>11, <1>12 DEF CursorInv, RowExists, new

LEMMA CursorCommits ==
  ASSUME LogInv, NEW s \in Streams, CursorInv(s), NEW a \in Activities, CommitEvent(a)
  PROVE  CursorInv(s)'
<1> DEFINE new == [id |-> Event(a), seq |-> number[a]]
<1>1. events' = events \cup {new} /\ UNCHANGED <<row, stream>> /\ RowExists
  BY DEF CommitEvent
<1>2. /\ overtaken \subseteq overtaken'
      /\ (\E e \in events : e.seq >= number[a]) => Event(a) \in overtaken'
  BY DEF CommitEvent
<1>3. number[a] \in Nat
  BY DEF LogInv, StreamTypeInv, TypeOK
<1>4. number[a] <= stream[s].cursor => Event(a) \in overtaken'
  BY <1>1, <1>2, <1>3 DEF CursorInv
<1>5. QED
  BY <1>1, <1>2, <1>4 DEF CursorInv, RowExists

LEMMA StreamStep ==
  ASSUME LogInv, StreamInv, [Next]_vars
  PROVE  StreamInv'
<1>0. TypeOK /\ MaxInv
  BY DEF LogInv, StreamTypeInv
<1>1. RowExists' => RowExists
  BY <1>0, RowStays
<1> SUFFICES ASSUME NEW s \in Streams PROVE CursorInv(s)'
  BY DEF StreamInv
<1>2. CursorInv(s)
  BY DEF StreamInv
<1>3. CASE UNCHANGED <<log, stream>>
  BY <1>1, <1>2, <1>3, CursorKept
<1>4. ASSUME NEW a \in Activities, CommitEvent(a) PROVE CursorInv(s)'
  BY <1>2, <1>4, CursorCommits
<1>5. CASE DeleteLands
  BY <1>2, <1>5 DEF DeleteLands, CursorInv, RowExists, NoRow
<1>6. ASSUME NEW z \in Streams, OpenStream(z) \/ CheckState(z) PROVE CursorInv(s)'
  <2>1. stream \in [Streams -> StreamRecs]
    BY <1>0 DEF TypeOK, StreamRecs
  <2>2. UNCHANGED log
    BY <1>6 DEF OpenStream, CheckState
  <2>3. QED
    BY <1>1, <1>2, <1>6, <2>1, <2>2, StreamMoves, CursorKept
<1>7. ASSUME NEW z \in Streams, TellEvents(z) PROVE CursorInv(s)'
  <2>1. CASE z = s
    BY <1>2, <1>7, <2>1, CursorTells
  <2>2. CASE z # s
    <3>1. stream'[s] = stream[s] /\ UNCHANGED log
      BY <1>0, <1>7, <2>2, TellWrites DEF TellEvents
    <3>2. QED
      BY <1>1, <1>2, <3>1, CursorKept
  <2>3. QED  BY <2>1, <2>2
<1>8. QED
  BY <1>3, <1>4, <1>5, <1>6, <1>7
     DEF Next, vars, EngineStep, Schedule, AttemptFails, ActivityCompletes, RunActivityWrites,
         CaseActivityWrites, TakeNumber, CancelLands, Stream, OpenTaskStream, TellSnapshot,
         Analyse, AnalysisReads, AnalysisFails, AnalysisWrites

LEMMA StreamInvariant == Spec => [](LogInv /\ StreamInv)
<1>1. Init => StreamInv
  <2> SUFFICES ASSUME Init, NEW s \in Streams PROVE CursorInv(s)
    BY DEF StreamInv
  <2>1. stream[s] = Closed /\ events = {}
    BY DEF Init
  <2>2. QED
    BY <2>1 DEF Closed, CursorInv
<1>2. LogInv /\ StreamInv /\ [Next]_vars => StreamInv'
  BY StreamStep
<1>3. QED
  BY <1>1, <1>2, LogInvariant, PTL DEF Spec

(* A stream never tells an event twice, however numbers were shared and    *)
(* however often recording the event was retried.                          *)
THEOREM ToldOnceHolds == Spec => []ToldOnce
<1>1. StreamInv => ToldOnce
  BY DEF StreamInv, CursorInv, ToldOnce
<1>2. QED
  BY <1>1, StreamInvariant, PTL

(* What a stream misses of the events that were committed when it asked    *)
(* had been overtaken by another event, that is, shared the number of one  *)
(* or was committed after one with a greater number.                       *)
THEOREM OnlyOvertakenIsMissedHolds == Spec => []OnlyOvertakenIsMissed
<1>1. StreamInv => OnlyOvertakenIsMissed
  BY DEF StreamInv, CursorInv, OnlyOvertakenIsMissed
<1>2. QED
  BY <1>1, StreamInvariant, PTL

-----------------------------------------------------------------------------
(* The final counters of the run, told by a snapshot or analysed.          *)

Analysed(r) == analyst[r].step = "asking" \/ (row.analysis = r /\ r # "none")

(* Whoever has seen the run completed has seen the count of its results,   *)
(* which stays while the row does: no case is executed any more.           *)
CountInv ==
  /\ row.state = "completed" => at["final"] # "idle" /\ row.done = Cardinality(results)
  /\ \A t \in TaskStreams :
       RowExists /\ taskStream[t].last.state = "completed" =>
         at["final"] # "idle" /\ taskStream[t].last.done = Cardinality(results)
  /\ \A r \in Analysts :
       RowExists /\ Analysed(r) =>
         /\ at["final"] # "idle"
         /\ analyst[r].basis = row.done /\ row.done = Cardinality(results)

LEMMA CountKept ==
  ASSUME CountInv, UNCHANGED <<row, results, taskStream, analyst>>,
         at["final"] # "idle" => at'["final"] # "idle"
  PROVE  CountInv'
<1>1. Cardinality(results') = Cardinality(results)
  OBVIOUS
<1>2. QED
  BY <1>1 DEF CountInv, Analysed, RowExists

(* Nothing was seen completed before finalize_run was scheduled.           *)
LEMMA CountBeforeFinal ==
  ASSUME CountInv, at["final"] = "idle", UNCHANGED <<taskStream, analyst>>,
         RowExists' => RowExists, row'.state # "completed", row'.analysis = row.analysis
  PROVE  CountInv'
BY DEF CountInv, Analysed, RowExists

LEMMA CountEngine ==
  ASSUME LogInv, CountInv, EngineStep
  PROVE  CountInv'
<1>0. TypeOK /\ OrderInv
  BY DEF LogInv, StreamTypeInv
<1>1. RowExists' => RowExists
  BY <1>0, RowStays DEF Next
<1>2. at["final"] # "idle" => at'["final"] # "idle"
  BY <1>0, EngineMoves DEF Activities
<1>3. CASE UNCHANGED <<row, results, taskStream, analyst>>
  BY <1>2, <1>3, CountKept
<1>4. ASSUME NEW a \in Activities, WriteRun(a), a # "final"
      PROVE  row'.state # "completed" \/ UNCHANGED row
  BY <1>0, <1>4 DEF WriteRun, StateWritten, TypeOK
<1>5. ASSUME NEW a \in Activities, WriteRun(a) PROVE row'.analysis = row.analysis
  BY <1>0, <1>5 DEF WriteRun, TypeOK
<1>6. ASSUME NEW c \in Cases, CaseActivityWrites(c) PROVE CountInv'
  <2>1. at["final"] = "idle"
    BY <1>0, <1>6 DEF CaseActivityWrites, OrderInv, Settled
  <2>2. row.state # "completed"
    BY <2>1 DEF CountInv
  <2>3. row'.state # "completed" /\ row'.analysis = row.analysis
    BY <1>4, <1>5, <1>6, <2>2, StreamAssumption DEF CaseActivityWrites, Activities
  <2>4. UNCHANGED <<taskStream, analyst>>
    BY <1>6 DEF CaseActivityWrites
  <2>5. QED
    BY <1>1, <2>1, <2>3, <2>4, CountBeforeFinal
<1>7. CASE RunActivityWrites("start")
  <2>1. at["final"] = "idle"
    BY <1>0, <1>7 DEF RunActivityWrites, OrderInv
  <2>2. row.state # "completed"
    BY <2>1 DEF CountInv
  <2>3. row'.state # "completed" /\ row'.analysis = row.analysis
    BY <1>4, <1>5, <1>7, <2>2 DEF RunActivityWrites, Activities
  <2>4. QED
    BY <1>1, <1>7, <2>1, <2>3, CountBeforeFinal DEF RunActivityWrites
<1>8. ASSUME NEW a \in {"final", "failed"}, RunActivityWrites(a) PROVE CountInv'
  <2>1. /\ UNCHANGED <<results, taskStream, analyst>>
        /\ a \in Activities /\ WriteRun(a) /\ at[a] = "write"
    BY <1>8 DEF RunActivityWrites, Activities
  <2>2. Cardinality(results') = Cardinality(results)
    BY <2>1
  <2>3. RowExists => row'.done = Cardinality(results) /\ row'.analysis = row.analysis
    BY <1>0, <1>8, <2>1 DEF WriteRun, TypeOK
  <2>4. ~RowExists => UNCHANGED row
    BY <2>1 DEF WriteRun
  <2>5. row'.state = "completed" => a = "final" \/ UNCHANGED row
    BY <1>4, <2>1
  <2>6. QED
    BY <1>1, <1>2, <2>1, <2>2, <2>3, <2>4, <2>5 DEF CountInv, Analysed, RowExists
<1>9. QED
  BY <1>3, <1>6, <1>7, <1>8
     DEF EngineStep, Schedule, AttemptFails, ActivityCompletes, RunActivityWrites, TakeNumber,
         CommitEvent, Activities

LEMMA CountStep ==
  ASSUME LogInv, CountInv, [Next]_vars
  PROVE  CountInv'
<1>0. TypeOK
  BY DEF LogInv, StreamTypeInv
<1>1. CASE EngineStep
  BY <1>1, CountEngine
<1>2. CASE UNCHANGED <<row, results, taskStream, analyst, at>>
  BY <1>2, CountKept
<1>3. CASE CancelLands
  <2>1. /\ RowExists /\ row'.state = "cancelled" /\ row'.done = row.done
        /\ row'.analysis = row.analysis
        /\ UNCHANGED <<results, taskStream, analyst, at>>
    BY <1>0, <1>3 DEF CancelLands, TypeOK
  <2>2. Cardinality(results') = Cardinality(results)
    BY <2>1
  <2>3. QED
    BY <2>1, <2>2 DEF CountInv, Analysed, RowExists
<1>4. CASE DeleteLands
  BY <1>4 DEF DeleteLands, CountInv, RowExists, NoRow
<1>5. ASSUME NEW t \in TaskStreams, OpenTaskStream(t) \/ TellSnapshot(t) PROVE CountInv'
  <2>1. UNCHANGED <<row, results, analyst, at>>
    BY <1>5 DEF OpenTaskStream, TellSnapshot
  <2>2. Cardinality(results') = Cardinality(results)
    BY <2>1
  <2>3. \A u \in TaskStreams :
          \/ taskStream'[u].last = taskStream[u].last
          \/ taskStream'[u].last.state = row.state /\ taskStream'[u].last.done = row.done
    BY <1>0, <1>5 DEF OpenTaskStream, TellSnapshot, Snapshot, TypeOK
  <2>4. QED
    BY <2>1, <2>2, <2>3 DEF CountInv, Analysed, RowExists
<1>6. ASSUME NEW r \in Analysts, NEW what \in Analysts \cup {"404", "409", "500", "503"},
             Answer(r, what), UNCHANGED <<row, results, taskStream, at>>
      PROVE  CountInv'
  <2>1. /\ analyst'[r].step = "answered"
        /\ \A z \in Analysts : /\ analyst'[z].basis = analyst[z].basis
                               /\ z # r => analyst'[z] = analyst[z]
    BY <1>0, <1>6, AnswerType
  <2>2. Cardinality(results') = Cardinality(results)
    BY <1>6
  <2>3. \A z \in Analysts : Analysed(z)' => Analysed(z)
    BY <1>6, <2>1 DEF Analysed
  <2>4. QED
    BY <1>6, <2>1, <2>2, <2>3 DEF CountInv, RowExists
<1>7. ASSUME NEW r \in Analysts, AnalysisReads(r) PROVE CountInv'
  <2>1. CASE \E what \in Analysts \cup {"404", "409", "500", "503"} : Answer(r, what)
    BY <1>6, <1>7, <2>1 DEF AnalysisReads
  <2>2. CASE /\ row.state = "completed"
             /\ analyst' = [analyst EXCEPT ![r].step = "asking", ![r].basis = row.done]
    <3>1. /\ analyst'[r].basis = row.done
          /\ \A z \in Analysts : z # r => analyst'[z] = analyst[z]
      BY <1>0, <2>2, AskingType
    <3>2. UNCHANGED <<row, results, taskStream, at>>
      BY <1>7 DEF AnalysisReads
    <3>3. Cardinality(results') = Cardinality(results)
      BY <3>2
    <3>4. QED
      BY <2>2, <3>1, <3>2, <3>3 DEF CountInv, Analysed, RowExists
  <2>3. row.analysis # "none" => row.analysis \in Analysts
    BY <1>0 DEF TypeOK
  <2>4. QED
    BY <1>7, <2>1, <2>2, <2>3 DEF AnalysisReads
<1>8. ASSUME NEW r \in Analysts, AnalysisFails(r) PROVE CountInv'
  BY <1>6, <1>8 DEF AnalysisFails
<1>9. ASSUME NEW r \in Analysts, AnalysisWrites(r) PROVE CountInv'
  <2>1. PICK what \in Analysts \cup {"500"} : Answer(r, what)
    BY <1>9 DEF AnalysisWrites
  <2>2. /\ analyst'[r].step = "answered"
        /\ \A z \in Analysts : /\ analyst'[z].basis = analyst[z].basis
                               /\ z # r => analyst'[z] = analyst[z]
    BY <1>0, <2>1, AnswerType
  <2>3. UNCHANGED <<results, taskStream, at>> /\ analyst[r].step = "asking"
    BY <1>9 DEF AnalysisWrites
  <2>4. Cardinality(results') = Cardinality(results)
    BY <2>3
  <2>5. CASE RowExists
    <3>1. row'.state = row.state /\ row'.done = row.done /\ row'.analysis = r
      BY <1>0, <1>9, <2>5 DEF AnalysisWrites, TypeOK
    <3>2. \A z \in Analysts : Analysed(z)' => Analysed(z)
      BY <2>2, <2>3, <3>1 DEF Analysed
    <3>3. QED
      BY <2>2, <2>3, <2>4, <2>5, <3>1, <3>2 DEF CountInv, RowExists
  <2>6. CASE ~RowExists
    <3>1. UNCHANGED row
      BY <1>9, <2>6 DEF AnalysisWrites
    <3>2. QED
      BY <2>3, <2>4, <2>6, <3>1 DEF CountInv, RowExists
  <2>7. QED  BY <2>5, <2>6
<1>10. QED
  BY <1>1, <1>2, <1>3, <1>4, <1>5, <1>7, <1>8, <1>9
     DEF Next, vars, OpenStream, Stream, TellEvents, CheckState, Analyse

LEMMA CountInvariant == Spec => [](LogInv /\ CountInv)
<1>1. Init => CountInv
  <2> SUFFICES ASSUME Init PROVE CountInv
    OBVIOUS
  <2>1. /\ row.state = "pending" /\ row.analysis = "none"
        /\ \A t \in TaskStreams : taskStream[t].last.state = "none"
        /\ \A r \in Analysts : analyst[r].step = "idle"
    BY DEF Init, NoTask, NoAnswer
  <2>2. QED
    BY <2>1 DEF CountInv, Analysed
<1>2. LogInv /\ CountInv /\ [Next]_vars => CountInv'
  BY CountStep
<1>3. QED
  BY <1>1, <1>2, LogInvariant, PTL DEF Spec

(* What a task stream told of a completed run is final: no case can change *)
(* the counters after finalize_run has read the rows.                      *)
THEOREM TaskStreamTellsFinalCountersHolds == Spec => []TaskStreamTellsFinalCounters
<1>1. CountInv => TaskStreamTellsFinalCounters
  BY DEF CountInv, TaskStreamTellsFinalCounters
<1>2. QED
  BY <1>1, CountInvariant, PTL

(* The analysis stored with a run was written from the counters the run    *)
(* shows, although the run may have been written again since.              *)
THEOREM AnalysisIsOfThisRunHolds == Spec => []AnalysisIsOfThisRun
<1>1. LogInv /\ CountInv => AnalysisIsOfThisRun
  <2> SUFFICES ASSUME LogInv, CountInv, row.analysis # "none"
               PROVE  analyst[row.analysis].basis = row.done
    BY DEF AnalysisIsOfThisRun
  <2>1. row.analysis \in Analysts
    BY DEF LogInv, StreamTypeInv, TypeOK
  <2>2. CASE RowExists
    BY <2>1, <2>2 DEF CountInv, Analysed
  <2>3. CASE ~RowExists
    BY <2>3 DEF LogInv, GoneInv
  <2>4. QED  BY <2>2, <2>3
<1>2. QED
  BY <1>1, CountInvariant, PTL
=============================================================================
