-------------------------- MODULE CaseScoring_proofs --------------------------
(***************************************************************************)
(* Theorems about CaseScoring: every metric asked for is reported once, a  *)
(* SQL error never passes, and what the verdicts of cases and runs mean,   *)
(* whatever the traces, the selection, the answers of the judge and the    *)
(* number of cases.                                                        *)
(***************************************************************************)
EXTENDS CaseScoring, FiniteSetTheorems, FunctionTheorems, TLAPS

-----------------------------------------------------------------------------
(* Lemmas on counting, for sequences over any set.                         *)

LEMMA CountIsNat ==
  ASSUME NEW S, NEW s \in Seq(S), NEW m
  PROVE  /\ IsFiniteSet({i \in DOMAIN s : s[i] = m})
         /\ Count(s, m) \in Nat
<1>1. DOMAIN s = 1..Len(s) /\ Len(s) \in Nat
  OBVIOUS
<1>2. IsFiniteSet(1..Len(s))
  BY <1>1, FS_Interval
<1>3. IsFiniteSet({i \in DOMAIN s : s[i] = m})
  BY <1>1, <1>2, FS_Subset
<1>4. QED
  BY <1>3, FS_CardinalityType DEF Count

LEMMA CountEmpty == \A m : Count(<<>>, m) = 0
<1>1. \A m : {i \in DOMAIN <<>> : <<>>[i] = m} = {}
  OBVIOUS
<1>2. QED
  BY <1>1, FS_EmptySet DEF Count

LEMMA CountAppend ==
  ASSUME NEW S, NEW s \in Seq(S), NEW x \in S, NEW m
  PROVE  Count(Append(s, x), m) = Count(s, m) + (IF x = m THEN 1 ELSE 0)
<1> DEFINE old == {i \in DOMAIN s : s[i] = m}
           new == {i \in DOMAIN Append(s, x) : Append(s, x)[i] = m}
<1>0. Count(s, m) = Cardinality(old) /\ Count(Append(s, x), m) = Cardinality(new)
  BY DEF Count
<1>1. IsFiniteSet(old) /\ Cardinality(old) \in Nat
  BY CountIsNat DEF Count
<1>2. /\ DOMAIN s = 1..Len(s) /\ Len(s) \in Nat
      /\ DOMAIN Append(s, x) = 1..(Len(s) + 1)
      /\ \A i \in 1..Len(s) : Append(s, x)[i] = s[i]
      /\ Append(s, x)[Len(s) + 1] = x
  OBVIOUS
<1>3. CASE x = m
  <2>1. new = old \cup {Len(s) + 1} /\ Len(s) + 1 \notin old
    BY <1>2, <1>3
  <2>. HIDE DEF old, new
  <2>2. QED
    BY <1>0, <1>1, <1>3, <2>1, FS_AddElement
<1>4. CASE x # m
  <2>1. new = old
    BY <1>2, <1>4
  <2>. HIDE DEF old, new
  <2>2. QED
    BY <1>0, <1>1, <1>4, <2>1
<1>5. QED
  BY <1>3, <1>4

LEMMA CountTail ==
  ASSUME NEW S, NEW s \in Seq(S), s # <<>>, NEW m
  PROVE  Count(s, m) = Count(Tail(s), m) + (IF Head(s) = m THEN 1 ELSE 0)
<1> DEFINE all  == {i \in DOMAIN s : s[i] = m}
           rest == {i \in DOMAIN Tail(s) : Tail(s)[i] = m}
           others == all \ {1}
           f    == [i \in rest |-> i + 1]
<1>0. Count(s, m) = Cardinality(all) /\ Count(Tail(s), m) = Cardinality(rest)
  BY DEF Count
<1>1. /\ DOMAIN s = 1..Len(s) /\ Len(s) \in Nat \ {0}
      /\ Tail(s) \in Seq(S) /\ DOMAIN Tail(s) = 1..(Len(s) - 1)
      /\ \A i \in 1..(Len(s) - 1) : Tail(s)[i] = s[i + 1]
      /\ Head(s) = s[1]
  OBVIOUS
<1>2. IsFiniteSet(rest) /\ Cardinality(rest) \in Nat
  BY <1>1, CountIsNat DEF Count
<1>3. f \in Bijection(rest, others)
  <2>1. \A i \in rest : f[i] \in others
    BY <1>1
  <2>2. \A i, j \in rest : f[i] = f[j] => i = j
    BY <1>1
  <2>3. \A k \in others : \E i \in rest : f[i] = k
    <3>1. SUFFICES ASSUME NEW k \in others PROVE k - 1 \in rest /\ f[k - 1] = k
      OBVIOUS
    <3>2. k \in Nat /\ k - 1 \in 1..(Len(s) - 1) /\ Tail(s)[k - 1] = s[k]
      BY <1>1
    <3>3. k - 1 \in rest
      BY <1>1, <3>2
    <3>4. QED
      BY <3>2, <3>3
  <2>4. QED
    BY <2>1, <2>2, <2>3, Fun_IsBij
<1>4. IsFiniteSet(others) /\ Cardinality(others) = Cardinality(rest)
  <2>1. ExistsBijection(rest, others)
    BY <1>3, Fun_ExistsBij
  <2>2. QED
    BY <1>2, <2>1, FS_Bijection
<1>5. CASE Head(s) = m
  <2>1. all = others \cup {1} /\ 1 \notin others
    BY <1>1, <1>5
  <2>. HIDE DEF all, rest, others, f
  <2>2. Cardinality(others \cup {1}) = Cardinality(others) + 1
    BY <1>4, <2>1, FS_AddElement
  <2>3. Cardinality(all) = Cardinality(rest) + 1
    BY <1>4, <2>1, <2>2
  <2>4. QED
    BY <1>0, <1>5, <2>3
<1>6. CASE Head(s) # m
  <2>1. all = others
    BY <1>1, <1>6
  <2>. HIDE DEF all, rest, others, f
  <2>2. QED
    BY <1>0, <1>2, <1>4, <1>6, <2>1
<1>7. QED
  BY <1>5, <1>6

-----------------------------------------------------------------------------
(* Types.                                                                  *)

MetricIds      == BuiltinMetricIds \cup {Custom}
CheckVerdicts  == {"passed", "failed", "skipped"}
MetricVerdicts == {"passed", "insufficient", "skipped", "error"}
Outcomes       == {"success", "execution_error", "degraded", "hitl_blocked", "unknown", "error"}
Profiles       == Explicit \cup {"none", "unknown"}
MetricResults  == [metric : MetricIds, verdict : MetricVerdicts]

CaseRecords == [outcome : Outcomes, profile : Profiles, context : BOOLEAN,
                checks : Seq(CheckVerdicts), selected : Seq(MetricIds), expected : BOOLEAN,
                todo : Seq(MetricIds), queue : Seq(MetricIds),
                results : Seq(MetricResults),
                raised : BOOLEAN]

(* The locals of the library and of its callers have their types.          *)
LocalsOK ==
  /\ caller \in {"worker", "dataset"}
  /\ stage \in {"next", "traced", "scoring", "decided", "final"}
  /\ case \in CaseRecords
  /\ tally \in [Kinds -> Nat]
  /\ verdict \in {"pending", "passed", "failed", "insufficient", "inconclusive"}
  /\ stage = "decided" => verdict \in {"passed", "failed", "insufficient"}

LEMMA NoCaseTyped == NoCase \in CaseRecords
BY DEF NoCase, CaseRecords, Outcomes, Profiles

LEMMA OutcomeTyped == \A trace : ClassifyOutcome(trace) \in Outcomes
BY DEF ClassifyOutcome, Outcomes

(* Whatever profile a question names, and whatever the tags.               *)
LEMMA ProfileTyped ==
  \A trace, explicit : ResolveProfile(trace, explicit) \in Profiles
BY DEF ResolveProfile, Profiles, Explicit, SupportedProfiles

LEMMA ChecksTyped ==
  \A trace, profile : BuildStructuralChecks(trace, profile) \in Seq(CheckVerdicts)
<1>1. \A b : Check(b) \in CheckVerdicts
  BY DEF Check, CheckVerdicts
<1>2. \A trace : SqlQueryExecuted(trace) \in CheckVerdicts
  BY <1>1 DEF SqlQueryExecuted, CheckVerdicts
<1>3. \A trace : SqlNoExecutionError(trace) \in CheckVerdicts
  BY <1>1 DEF SqlNoExecutionError
<1>4. \A x, y \in CheckVerdicts : <<x, y>> \in Seq(CheckVerdicts)
  OBVIOUS
<1>5. <<>> \in Seq(CheckVerdicts)
  OBVIOUS
<1>6. QED
  BY <1>1, <1>2, <1>3, <1>4, <1>5 DEF BuildStructuralChecks

LEMMA SelectionsTyped ==
  ASSUME NEW selected \in Selections, NEW n \in 0..MaxCustom
  PROVE  selected \o CustomMetrics(n) \in Seq(MetricIds)
<1>1. selected \in Seq(MetricIds)
  BY ScoringAssumption DEF Selections, MetricIds
<1>2. CustomMetrics(n) \in Seq(MetricIds)
  BY ScoringAssumption DEF CustomMetrics, MetricIds
<1>3. QED
  BY <1>1, <1>2

(* A question asks for no metric that would have to be skipped.            *)
LEMMA ProfileMetrics ==
  ASSUME NEW profile, NEW context \in BOOLEAN, NEW expected \in BOOLEAN
  PROVE  /\ MetricsOfProfile(profile, context, expected) \in Seq(MetricIds)
         /\ \A i \in DOMAIN MetricsOfProfile(profile, context, expected) :
              ~NeedsReference(MetricsOfProfile(profile, context, expected)[i], expected)
<1> DEFINE low == <<"answer_relevancy">>
           mid == <<"answer_relevancy", "faithfulness", "contextual_relevancy">>
           all == mid \o <<"contextual_precision", "contextual_recall">>
<1>1. /\ low \in Seq(MetricIds) /\ mid \in Seq(MetricIds) /\ mid \o <<>> = mid
      /\ all \in Seq(MetricIds)
  BY DEF MetricIds, BuiltinMetricIds
<1>2. /\ \A i \in DOMAIN low : low[i] \notin RequiresExpectedOutput
      /\ \A i \in DOMAIN mid : mid[i] \notin RequiresExpectedOutput
  BY DEF RequiresExpectedOutput
<1>3. /\ MetricsOfProfile(profile, context, expected) \in {low, mid, all}
      /\ ~expected => MetricsOfProfile(profile, context, expected) \in {low, mid}
  BY <1>1 DEF MetricsOfProfile
<1>. HIDE DEF low, mid, all
<1>4. QED
  BY <1>1, <1>2, <1>3 DEF NeedsReference

(* Of a queue and of the results, what is appended and what is taken off.  *)
LEMMA SequencesTyped ==
  ASSUME NEW S, NEW s \in Seq(S)
  PROVE  /\ \A x \in S : Append(s, x) \in Seq(S)
         /\ s # <<>> => Head(s) \in S /\ Tail(s) \in Seq(S)
OBVIOUS

(* The verdict of a case that is not a case row's "pending".               *)
LEMMA CaseVerdictTyped ==
  \A checks, results, errors :
    CaseVerdict(checks, results, errors) \in {"passed", "failed", "insufficient"}
BY DEF CaseVerdict

LEMMA RunVerdictTyped ==
  \A failed, insufficient, total :
    RunVerdict(failed, insufficient, total) \in {"passed", "failed", "inconclusive"}
BY DEF RunVerdict

LEMMA LocalsStep ==
  ASSUME LocalsOK, [Next]_vars
  PROVE  LocalsOK'
<1>1. CASE ReadTrace
  <2>1. PICK trace \in Traces, explicit \in Explicit :
          LET profile == ResolveProfile(trace, explicit)
          IN case' = [NoCase EXCEPT !.outcome = ClassifyOutcome(trace), !.profile = profile,
                                    !.context = trace.context,
                                    !.checks = BuildStructuralChecks(trace, profile)]
    BY <1>1 DEF ReadTrace, Explicit
  <2>2. trace.context \in BOOLEAN
    BY DEF Traces
  <2>3. case' \in CaseRecords
    BY <2>1, <2>2, NoCaseTyped, OutcomeTyped, ProfileTyped, ChecksTyped DEF CaseRecords
  <2>4. QED
    BY <1>1, <2>3 DEF ReadTrace, LocalsOK
<1>2. CASE AgentFails
  <2>1. case' \in CaseRecords
    BY <1>2, NoCaseTyped DEF AgentFails, CaseRecords, Outcomes
  <2>2. QED
    BY <1>2, <2>1 DEF AgentFails, LocalsOK
<1>3. CASE ScoreTrace
  <2>1. ASSUME NEW expected \in BOOLEAN, NEW selected \in Selections, NEW n \in 0..MaxCustom,
               case' = [case EXCEPT !.selected = selected \o CustomMetrics(n),
                                    !.expected = expected,
                                    !.todo = selected \o CustomMetrics(n)]
        PROVE  case' \in CaseRecords
    BY <2>1, SelectionsTyped DEF LocalsOK, CaseRecords
  <2>2. ASSUME NEW expected \in BOOLEAN,
               LET metrics == MetricsOfProfile(case.profile, case.context, expected)
               IN case' = [case EXCEPT !.selected = metrics, !.expected = expected,
                                       !.queue = metrics]
        PROVE  case' \in CaseRecords
    <3>1. case.context \in BOOLEAN
      BY DEF LocalsOK, CaseRecords
    <3>2. MetricsOfProfile(case.profile, case.context, expected) \in Seq(MetricIds)
      BY <3>1, ProfileMetrics
    <3>3. QED
      BY <2>2, <3>2 DEF LocalsOK, CaseRecords
  <2>3. case' \in CaseRecords
    BY <1>3, <2>1, <2>2 DEF ScoreTrace, LocalsOK
  <2>4. QED
    BY <1>3, <2>3 DEF ScoreTrace, LocalsOK
<1>4. CASE SelectMetric
  <2>1. /\ case.todo \in Seq(MetricIds) /\ case.queue \in Seq(MetricIds)
        /\ case.results \in Seq(MetricResults)
    BY DEF LocalsOK, CaseRecords
  <2>2. Head(case.todo) \in MetricIds /\ Tail(case.todo) \in Seq(MetricIds)
    BY <1>4, <2>1, SequencesTyped DEF SelectMetric
  <2>3. Result(Head(case.todo), "skipped") \in MetricResults
    BY <2>2 DEF Result, MetricResults, MetricVerdicts
  <2>4. /\ Append(case.queue, Head(case.todo)) \in Seq(MetricIds)
        /\ Append(case.results, Result(Head(case.todo), "skipped"))
             \in Seq(MetricResults)
    BY <2>1, <2>2, <2>3, SequencesTyped
  <2>5. case' \in CaseRecords
    BY <1>4, <2>2, <2>4 DEF SelectMetric, LocalsOK, CaseRecords
  <2>6. QED
    BY <1>4, <2>5 DEF SelectMetric, LocalsOK
<1>5. CASE Measure
  <2>1. /\ case.queue \in Seq(MetricIds)
        /\ case.results \in Seq(MetricResults)
    BY DEF LocalsOK, CaseRecords
  <2>2. Head(case.queue) \in MetricIds /\ Tail(case.queue) \in Seq(MetricIds)
    BY <1>5, <2>1, SequencesTyped DEF Measure
  <2>3. PICK v \in {"passed", "insufficient", "error"} :
          case' = [case EXCEPT !.queue = Tail(@),
                               !.results = Append(@, Result(Head(case.queue), v))]
    BY <1>5 DEF Measure
  <2>4. Result(Head(case.queue), v) \in MetricResults
    BY <2>2 DEF Result, MetricResults, MetricVerdicts
  <2>5. Append(case.results, Result(Head(case.queue), v))
          \in Seq(MetricResults)
    BY <2>1, <2>4, SequencesTyped
  <2>6. case' \in CaseRecords
    BY <2>2, <2>3, <2>5 DEF LocalsOK, CaseRecords
  <2>7. QED
    BY <1>5, <2>6 DEF Measure, LocalsOK
<1>6. CASE ScoringRaises
  <2>1. case' \in CaseRecords
    BY <1>6, NoCaseTyped DEF ScoringRaises, CaseRecords, Outcomes
  <2>2. QED
    BY <1>6, <2>1 DEF ScoringRaises, LocalsOK
<1>7. CASE Decide
  BY <1>7, CaseVerdictTyped DEF Decide, LocalsOK
<1>8. CASE NextCase
  <2>1. tally' \in [Kinds -> Nat]
    BY <1>8 DEF NextCase, LocalsOK, Kinds
  <2>2. QED
    BY <1>8, <2>1, NoCaseTyped DEF NextCase, LocalsOK
<1>9. CASE LeaveOut
  <2>1. tally' \in [Kinds -> Nat]
    BY <1>9 DEF LeaveOut, LocalsOK, Kinds
  <2>2. QED
    BY <1>9, <2>1 DEF LeaveOut, LocalsOK
<1>10. CASE FinalizeRun
  BY <1>10, RunVerdictTyped DEF FinalizeRun, LocalsOK
<1>11. CASE UNCHANGED vars
  BY <1>11 DEF vars, LocalsOK
<1>12. CASE FetchFails
  <2>1. case' \in CaseRecords
    BY <1>12, NoCaseTyped DEF FetchFails, CaseRecords, Outcomes, Profiles
  <2>2. QED
    BY <1>12, <2>1 DEF FetchFails, LocalsOK
<1>13. CASE QuestionRaises
  <2>1. case' \in CaseRecords
    BY <1>13, NoCaseTyped DEF QuestionRaises, CaseRecords, Outcomes, Profiles
  <2>2. QED
    BY <1>13, <2>1 DEF QuestionRaises, LocalsOK
<1>14. QED
  BY <1>1, <1>2, <1>3, <1>4, <1>5, <1>6, <1>7, <1>8, <1>9, <1>10, <1>11, <1>12, <1>13
     DEF Next

LEMMA LocalsInvariant == Spec => []LocalsOK
<1>1. Init => LocalsOK
  BY NoCaseTyped DEF Init, LocalsOK
<1>2. LocalsOK /\ [Next]_vars => LocalsOK'
  BY LocalsStep
<1>3. QED
  BY <1>1, <1>2, PTL DEF Spec

-----------------------------------------------------------------------------
(* What was asked for is measured, or reported as skipped.                 *)

MetricsOf(results) == [i \in DOMAIN results |-> results[i].metric]

(* Asked for, not looked at yet, to be measured, reported: the last three  *)
(* add up to the first, for every metric.                                  *)
NothingIsLost ==
  \A m \in MetricIds :
    Count(case.selected, m) = Count(case.todo, m) + Count(case.queue, m)
                                + Count(MetricsOf(case.results), m)

OnlyMeasurable ==
  /\ \A i \in DOMAIN case.queue : ~NeedsReference(case.queue[i], case.expected)
  /\ \A i \in DOMAIN case.results :
       case.results[i].verdict = "skipped"
         <=> NeedsReference(case.results[i].metric, case.expected)

(* Nothing is known of the metrics before score_trace, and nothing is left *)
(* to do once a verdict is derived from the results.                       *)
StageInv ==
  /\ stage = "traced" =>
       /\ case.selected = <<>> /\ case.todo = <<>>
       /\ case.queue = <<>> /\ case.results = <<>>
  /\ stage \in {"traced", "scoring"} => ~case.raised
  /\ stage = "decided" =>
       /\ case.todo = <<>> /\ case.queue = <<>>
       /\ caller = "worker" =>
            verdict = IF case.raised THEN "failed"
                      ELSE CaseVerdict(case.checks, case.results, Errors)

ReportInv == NothingIsLost /\ OnlyMeasurable /\ StageInv

LEMMA MetricsOfTyped ==
  ASSUME NEW results \in Seq(MetricResults)
  PROVE  MetricsOf(results) \in Seq(MetricIds)
<1>1. DOMAIN results = 1..Len(results) /\ Len(results) \in Nat
  OBVIOUS
<1>2. \A i \in 1..Len(results) : results[i] \in MetricResults
  OBVIOUS
<1>3. \A i \in 1..Len(results) : results[i].metric \in MetricIds
  BY <1>2 DEF MetricResults
<1>4. QED
  BY <1>1, <1>3 DEF MetricsOf

LEMMA MetricsOfAppend ==
  ASSUME NEW results \in Seq(MetricResults), NEW r \in MetricResults
  PROVE  MetricsOf(Append(results, r)) = Append(MetricsOf(results), r.metric)
<1> DEFINE n == Len(results)
<1>1. /\ n \in Nat /\ DOMAIN results = 1..n
      /\ DOMAIN Append(results, r) = 1..(n + 1)
      /\ \A i \in 1..n : Append(results, r)[i] = results[i]
      /\ Append(results, r)[n + 1] = r
  OBVIOUS
<1>2. MetricsOf(results) \in Seq(MetricIds) /\ r.metric \in MetricIds
  BY MetricsOfTyped DEF MetricResults
<1>3. Len(MetricsOf(results)) = n
  <2>1. DOMAIN MetricsOf(results) = 1..n
    BY <1>1 DEF MetricsOf
  <2>2. QED
    BY <1>1, <1>2, <2>1
<1>4. /\ DOMAIN Append(MetricsOf(results), r.metric) = 1..(n + 1)
      /\ \A i \in 1..n : Append(MetricsOf(results), r.metric)[i] = MetricsOf(results)[i]
      /\ Append(MetricsOf(results), r.metric)[n + 1] = r.metric
      /\ Append(MetricsOf(results), r.metric) \in Seq(MetricIds)
  BY <1>2, <1>3
<1>5. \A i \in 1..n : MetricsOf(results)[i] = results[i].metric
  BY <1>1 DEF MetricsOf
<1>6. MetricsOf(Append(results, r)) = [i \in 1..(n + 1) |-> Append(results, r)[i].metric]
  BY <1>1 DEF MetricsOf
<1>7. Append(MetricsOf(results), r.metric)
        = [i \in 1..(n + 1) |-> Append(MetricsOf(results), r.metric)[i]]
  BY <1>4
<1>8. \A i \in 1..(n + 1) :
        Append(MetricsOf(results), r.metric)[i] = Append(results, r)[i].metric
  BY <1>1, <1>4, <1>5
<1>9. QED
  BY <1>6, <1>7, <1>8

(* A result counts for its own metric, and for no other.                   *)
LEMMA ResultCounts ==
  ASSUME NEW results \in Seq(MetricResults), NEW r \in MetricResults, NEW m
  PROVE  Count(MetricsOf(Append(results, r)), m)
           = Count(MetricsOf(results), m) + (IF r.metric = m THEN 1 ELSE 0)
<1>1. MetricsOf(results) \in Seq(MetricIds) /\ r.metric \in MetricIds
  BY MetricsOfTyped DEF MetricResults
<1>2. Count(Append(MetricsOf(results), r.metric), m)
        = Count(MetricsOf(results), m) + (IF r.metric = m THEN 1 ELSE 0)
  BY <1>1, CountAppend
<1>3. QED
  BY <1>2, MetricsOfAppend

LEMMA MetricsOfEmpty == MetricsOf(<<>>) = <<>>
BY DEF MetricsOf

(* Nothing has been asked for of a case without metrics.                   *)
LEMMA NothingToReport ==
  ASSUME case'.selected = <<>>, case'.todo = <<>>, case'.queue = <<>>, case'.results = <<>>
  PROVE  NothingIsLost' /\ OnlyMeasurable'
BY CountEmpty, MetricsOfEmpty DEF NothingIsLost, OnlyMeasurable

LEMMA ReportKept ==
  ASSUME NothingIsLost, OnlyMeasurable, UNCHANGED case
  PROVE  NothingIsLost' /\ OnlyMeasurable'
BY DEF NothingIsLost, OnlyMeasurable

LEMMA ScoreTraceReports ==
  ASSUME LocalsOK, ReportInv, ScoreTrace
  PROVE  ReportInv'
<1>1. /\ stage = "traced" /\ stage' = "scoring"
      /\ case.selected = <<>> /\ case.todo = <<>> /\ case.queue = <<>> /\ case.results = <<>>
      /\ case.raised = FALSE
      /\ case \in CaseRecords
  BY DEF ScoreTrace, ReportInv, StageInv, LocalsOK, CaseRecords
<1>2. ASSUME NEW expected \in BOOLEAN, NEW asked,
             case' = [case EXCEPT !.selected = asked, !.expected = expected, !.todo = asked],
             asked \in Seq(MetricIds)
      PROVE  ReportInv'
  <2>1. /\ case'.selected = asked /\ case'.todo = asked
        /\ case'.queue = <<>> /\ case'.results = <<>> /\ ~case'.raised
    BY <1>1, <1>2 DEF CaseRecords
  <2>2. \A m \in MetricIds : Count(asked, m) \in Nat
    BY <1>2, CountIsNat
  <2>3. NothingIsLost'
    BY <2>1, <2>2, CountEmpty, MetricsOfEmpty DEF NothingIsLost
  <2>4. OnlyMeasurable' /\ StageInv'
    BY <1>1, <2>1 DEF OnlyMeasurable, StageInv
  <2>5. QED
    BY <2>3, <2>4 DEF ReportInv
<1>3. ASSUME NEW expected \in BOOLEAN, NEW asked,
             case' = [case EXCEPT !.selected = asked, !.expected = expected, !.queue = asked],
             asked \in Seq(MetricIds),
             \A i \in DOMAIN asked : ~NeedsReference(asked[i], expected)
      PROVE  ReportInv'
  <2>1. /\ case'.selected = asked /\ case'.todo = <<>> /\ case'.expected = expected
        /\ case'.queue = asked /\ case'.results = <<>> /\ ~case'.raised
    BY <1>1, <1>3 DEF CaseRecords
  <2>2. \A m \in MetricIds : Count(asked, m) \in Nat
    BY <1>3, CountIsNat
  <2>3. NothingIsLost'
    BY <2>1, <2>2, CountEmpty, MetricsOfEmpty DEF NothingIsLost
  <2>4. OnlyMeasurable' /\ StageInv'
    BY <1>1, <1>3, <2>1 DEF OnlyMeasurable, StageInv
  <2>5. QED
    BY <2>3, <2>4 DEF ReportInv
<1>4. CASE UNCHANGED case
  BY <1>1, <1>4, ReportKept DEF ReportInv, StageInv
<1>5. CASE \E expected \in BOOLEAN, selected \in Selections, n \in 0..MaxCustom :
             case' = [case EXCEPT !.selected = selected \o CustomMetrics(n),
                                  !.expected = expected,
                                  !.todo = selected \o CustomMetrics(n)]
  BY <1>2, <1>5, SelectionsTyped
<1>6. CASE \E expected \in BOOLEAN :
             LET metrics == MetricsOfProfile(case.profile, case.context, expected)
             IN case' = [case EXCEPT !.selected = metrics, !.expected = expected,
                                     !.queue = metrics]
  <2>1. PICK expected \in BOOLEAN :
          LET metrics == MetricsOfProfile(case.profile, case.context, expected)
          IN case' = [case EXCEPT !.selected = metrics, !.expected = expected,
                                  !.queue = metrics]
    BY <1>6
  <2>2. case.context \in BOOLEAN
    BY <1>1 DEF CaseRecords
  <2> DEFINE metrics == MetricsOfProfile(case.profile, case.context, expected)
  <2>3. /\ metrics \in Seq(MetricIds)
        /\ \A i \in DOMAIN metrics : ~NeedsReference(metrics[i], expected)
    BY <2>2, ProfileMetrics
  <2>4. case' = [case EXCEPT !.selected = metrics, !.expected = expected, !.queue = metrics]
    BY <2>1
  <2>. HIDE DEF metrics
  <2>5. QED
    BY <1>3, <2>3, <2>4
<1>7. QED
  BY <1>4, <1>5, <1>6 DEF ScoreTrace

(* A metric moves from those asked for to the queue, or to the results.    *)
LEMMA SelectMetricReports ==
  ASSUME LocalsOK, ReportInv, SelectMetric
  PROVE  ReportInv'
<1> DEFINE metric == Head(case.todo)
<1>1. /\ stage = "scoring" /\ stage' = "scoring" /\ case.todo # <<>>
      /\ case.raised = FALSE
      /\ case.todo \in Seq(MetricIds) /\ case.queue \in Seq(MetricIds)
      /\ case.results \in Seq(MetricResults)
      /\ case \in CaseRecords
  BY DEF SelectMetric, ReportInv, StageInv, LocalsOK, CaseRecords
<1>2. metric \in MetricIds /\ Tail(case.todo) \in Seq(MetricIds)
  BY <1>1, SequencesTyped
<1>3. \A m \in MetricIds :
        /\ Count(case.todo, m) = Count(Tail(case.todo), m) + (IF metric = m THEN 1 ELSE 0)
        /\ Count(Tail(case.todo), m) \in Nat /\ Count(case.queue, m) \in Nat
        /\ Count(MetricsOf(case.results), m) \in Nat
  BY <1>1, <1>2, CountTail, CountIsNat, MetricsOfTyped
<1>4. CASE NeedsReference(metric, case.expected)
  <2>1. Result(metric, "skipped") \in MetricResults
    BY <1>2 DEF Result, MetricResults, MetricVerdicts
  <2>2. /\ case'.selected = case.selected /\ case'.todo = Tail(case.todo)
        /\ case'.queue = case.queue /\ case'.expected = case.expected
        /\ case'.results = Append(case.results, Result(metric, "skipped"))
        /\ ~case'.raised
    BY <1>1, <1>4 DEF SelectMetric, CaseRecords
  <2>3. Result(metric, "skipped").metric = metric
    BY DEF Result
  <2>4. \A m \in MetricIds : Count(MetricsOf(case'.results), m)
                               = Count(MetricsOf(case.results), m)
                                 + (IF metric = m THEN 1 ELSE 0)
    BY <1>1, <2>1, <2>2, <2>3, ResultCounts
  <2>5. NothingIsLost'
    BY <1>3, <2>2, <2>4 DEF NothingIsLost, ReportInv
  <2>6. OnlyMeasurable'
    BY <1>1, <1>4, <2>1, <2>2 DEF OnlyMeasurable, ReportInv, Result
  <2>7. QED
    BY <1>1, <2>2, <2>5, <2>6 DEF ReportInv, StageInv
<1>5. CASE ~NeedsReference(metric, case.expected)
  <2>1. /\ case'.selected = case.selected /\ case'.todo = Tail(case.todo)
        /\ case'.queue = Append(case.queue, metric) /\ case'.expected = case.expected
        /\ case'.results = case.results /\ ~case'.raised
    BY <1>1, <1>5 DEF SelectMetric, CaseRecords
  <2>2. \A m \in MetricIds : Count(case'.queue, m) = Count(case.queue, m)
                                                        + (IF metric = m THEN 1 ELSE 0)
    BY <1>1, <1>2, <2>1, CountAppend
  <2>3. NothingIsLost'
    BY <1>3, <2>1, <2>2 DEF NothingIsLost, ReportInv
  <2>4. OnlyMeasurable'
    BY <1>1, <1>2, <1>5, <2>1 DEF OnlyMeasurable, ReportInv
  <2>5. QED
    BY <1>1, <2>1, <2>3, <2>4 DEF ReportInv, StageInv
<1>6. QED
  BY <1>4, <1>5

LEMMA MeasureReports ==
  ASSUME LocalsOK, ReportInv, Measure
  PROVE  ReportInv'
<1> DEFINE metric == Head(case.queue)
<1>1. /\ stage = "scoring" /\ stage' = "scoring" /\ case.queue # <<>>
      /\ case.raised = FALSE
      /\ case.queue \in Seq(MetricIds)
      /\ case.results \in Seq(MetricResults)
      /\ case \in CaseRecords
      /\ case.todo \in Seq(MetricIds)
  BY DEF Measure, ReportInv, StageInv, LocalsOK, CaseRecords
<1>2. /\ metric \in MetricIds /\ Tail(case.queue) \in Seq(MetricIds)
      /\ metric = case.queue[1] /\ 1 \in DOMAIN case.queue
  BY <1>1, SequencesTyped
<1>3. ~NeedsReference(metric, case.expected)
  BY <1>2 DEF ReportInv, OnlyMeasurable
<1>4. PICK v \in {"passed", "insufficient", "error"} :
        case' = [case EXCEPT !.queue = Tail(@), !.results = Append(@, Result(metric, v))]
  BY DEF Measure
<1>5. Result(metric, v) \in MetricResults
  BY <1>2 DEF Result, MetricResults, MetricVerdicts
<1>6. /\ case'.selected = case.selected /\ case'.todo = case.todo
      /\ case'.queue = Tail(case.queue) /\ case'.expected = case.expected
      /\ case'.results = Append(case.results, Result(metric, v)) /\ ~case'.raised
  BY <1>1, <1>4 DEF CaseRecords
<1>7. Result(metric, v).metric = metric
  BY DEF Result
<1>8. \A m \in MetricIds :
        /\ Count(case.queue, m) = Count(Tail(case.queue), m) + (IF metric = m THEN 1 ELSE 0)
        /\ Count(MetricsOf(case'.results), m)
             = Count(MetricsOf(case.results), m) + (IF metric = m THEN 1 ELSE 0)
        /\ Count(case.todo, m) \in Nat /\ Count(Tail(case.queue), m) \in Nat
        /\ Count(MetricsOf(case.results), m) \in Nat
  <2>1. TAKE m \in MetricIds
  <2>2. Count(case.queue, m) = Count(Tail(case.queue), m) + (IF metric = m THEN 1 ELSE 0)
    BY <1>1, CountTail
  <2>3. Count(MetricsOf(case'.results), m)
          = Count(MetricsOf(case.results), m) + (IF metric = m THEN 1 ELSE 0)
    BY <1>1, <1>5, <1>6, <1>7, ResultCounts
  <2>4. /\ Count(case.todo, m) \in Nat /\ Count(Tail(case.queue), m) \in Nat
        /\ Count(MetricsOf(case.results), m) \in Nat
    BY <1>1, <1>2, CountIsNat, MetricsOfTyped
  <2>5. QED
    BY <2>2, <2>3, <2>4
<1>9. NothingIsLost'
  BY <1>6, <1>8 DEF NothingIsLost, ReportInv
<1>10. OnlyMeasurable'
  <2>1. \A i \in DOMAIN Tail(case.queue) :
          ~NeedsReference(Tail(case.queue)[i], case.expected)
    BY <1>1 DEF ReportInv, OnlyMeasurable
  <2>2. \A i \in DOMAIN case'.results :
          case'.results[i].verdict = "skipped"
            <=> NeedsReference(case'.results[i].metric, case.expected)
    BY <1>1, <1>3, <1>5, <1>6 DEF ReportInv, OnlyMeasurable, Result
  <2>3. QED
    BY <1>6, <2>1, <2>2 DEF OnlyMeasurable
<1>11. QED
  BY <1>1, <1>6, <1>9, <1>10 DEF ReportInv, StageInv

LEMMA ReportStep ==
  ASSUME LocalsOK, ReportInv, [Next]_vars
  PROVE  ReportInv'
<1>1. CASE ReadTrace
  <2>1. /\ case'.selected = <<>> /\ case'.todo = <<>> /\ case'.queue = <<>>
        /\ case'.results = <<>> /\ case'.raised = FALSE /\ stage' = "traced"
    BY <1>1 DEF ReadTrace, NoCase
  <2>2. QED
    BY <2>1, NothingToReport DEF ReportInv, StageInv
<1>2. CASE AgentFails \/ FetchFails \/ ScoringRaises \/ QuestionRaises
  <2>1. /\ case'.selected = <<>> /\ case'.todo = <<>> /\ case'.queue = <<>>
        /\ case'.results = <<>> /\ case'.raised = TRUE /\ stage' = "decided"
        /\ caller' = "worker" => verdict' = "failed"
    BY <1>2 DEF AgentFails, FetchFails, ScoringRaises, QuestionRaises, NoCase
  <2>2. QED
    BY <2>1, NothingToReport DEF ReportInv, StageInv
<1>3. CASE Decide
  <2>1. UNCHANGED case /\ UNCHANGED Errors
    BY <1>3 DEF Decide, Errors
  <2>2. StageInv'
    BY <1>3, <2>1 DEF Decide, ReportInv, StageInv
  <2>3. QED
    BY <2>1, <2>2, ReportKept DEF ReportInv
<1>4. CASE NextCase
  <2>1. /\ case'.selected = <<>> /\ case'.todo = <<>> /\ case'.queue = <<>>
        /\ case'.results = <<>> /\ stage' = "next"
    BY <1>4 DEF NextCase, NoCase
  <2>2. QED
    BY <2>1, NothingToReport DEF ReportInv, StageInv
<1>5. CASE LeaveOut \/ FinalizeRun
  <2>1. UNCHANGED case /\ stage' \in {"next", "final"}
    BY <1>5 DEF LeaveOut, FinalizeRun
  <2>2. QED
    BY <2>1, ReportKept DEF ReportInv, StageInv
<1>6. CASE UNCHANGED vars
  BY <1>6, ReportKept DEF vars, ReportInv, StageInv, Errors
<1>7. QED
  BY <1>1, <1>2, <1>3, <1>4, <1>5, <1>6, ScoreTraceReports, SelectMetricReports,
     MeasureReports DEF Next

LEMMA ReportInvariant == Spec => []ReportInv
<1>1. Init => ReportInv
  BY CountEmpty, MetricsOfEmpty
     DEF Init, NoCase, ReportInv, NothingIsLost, OnlyMeasurable, StageInv
<1>2. LocalsOK /\ ReportInv /\ [Next]_vars => ReportInv'
  BY ReportStep
<1>3. QED
  BY <1>1, <1>2, LocalsInvariant, PTL DEF Spec

(* Every metric that was asked for is reported as often as it was asked    *)
(* for, and skipped exactly when it lacks the expected output it is judged *)
(* against, however long the selection and whichever metrics raise.        *)
THEOREM EveryMetricIsReportedHolds == Spec => []EveryMetricIsReported
<1>1. LocalsOK /\ ReportInv => EveryMetricIsReported
  <2>1. SUFFICES ASSUME LocalsOK, ReportInv, stage = "decided"
                 PROVE  /\ \A m \in MetricIds :
                             Count(MetricsOf(case.results), m) = Count(case.selected, m)
                        /\ \A i \in DOMAIN case.results :
                             case.results[i].verdict = "skipped"
                               <=> NeedsReference(MetricsOf(case.results)[i], case.expected)
    BY DEF EveryMetricIsReported, MetricsOf, MetricIds
  <2>2. case.results \in Seq(MetricResults)
    BY <2>1 DEF LocalsOK, CaseRecords
  <2>3. \A m \in MetricIds : Count(MetricsOf(case.results), m) \in Nat
    BY <2>2, MetricsOfTyped, CountIsNat
  <2>4. /\ case.todo = <<>> /\ case.queue = <<>>
    BY <2>1 DEF ReportInv, StageInv
  <2>5. \A m \in MetricIds : Count(MetricsOf(case.results), m) = Count(case.selected, m)
    BY <2>1, <2>3, <2>4, CountEmpty DEF ReportInv, NothingIsLost
  <2>6. QED
    BY <2>1, <2>5 DEF ReportInv, OnlyMeasurable, MetricsOf
<1>2. QED
  BY <1>1, LocalsInvariant, ReportInvariant, PTL

-----------------------------------------------------------------------------
(* Why a case fails.                                                       *)

LEMMA ErrorsCounted ==
  ASSUME LocalsOK
  PROVE  /\ Errors \in Nat
         /\ Errors = 0 <=> \A i \in DOMAIN case.results : case.results[i].verdict # "error"
<1> DEFINE wrong == {i \in DOMAIN case.results : case.results[i].verdict = "error"}
<1>1. case.results \in Seq(MetricResults)
  BY DEF LocalsOK, CaseRecords
<1>2. DOMAIN case.results = 1..Len(case.results) /\ Len(case.results) \in Nat
  BY <1>1
<1>3. IsFiniteSet(1..Len(case.results))
  BY <1>2, FS_Interval
<1>4. IsFiniteSet(wrong)
  BY <1>2, <1>3, FS_Subset
<1>5. Cardinality(wrong) \in Nat /\ (Cardinality(wrong) = 0 <=> wrong = {})
  BY <1>4, FS_CardinalityType, FS_EmptySet
<1>6. QED
  BY <1>5 DEF Errors

(* The four tests of the worker reduce to two: a check that applies has    *)
(* failed, or a metric has raised.                                         *)
LEMMA FailedVerdict ==
  ASSUME LocalsOK
  PROVE  CaseVerdict(case.checks, case.results, Errors) = "failed"
           <=> \/ Errors > 0
               \/ \E i \in DOMAIN case.checks : case.checks[i] = "failed"
<1>1. \A i \in DOMAIN case.checks : case.checks[i] \in {"passed", "failed", "skipped"}
  <2>1. case.checks \in Seq(CheckVerdicts)
    BY DEF LocalsOK, CaseRecords
  <2>2. QED
    BY <2>1 DEF CheckVerdicts
<1>2. \A i \in DOMAIN case.results :
        case.results[i].verdict \in {"passed", "insufficient", "skipped", "error"}
  <2>1. case.results \in Seq(MetricResults)
    BY DEF LocalsOK, CaseRecords
  <2>2. \A i \in DOMAIN case.results : case.results[i] \in MetricResults
    BY <2>1
  <2>3. QED
    BY <2>2 DEF MetricResults, MetricVerdicts
<1>3. All(case.checks, {"passed", "skipped"})
        <=> ~\E i \in DOMAIN case.checks : case.checks[i] = "failed"
  BY <1>1 DEF All
<1>4. Errors = 0 => All(Verdicts(case.results), {"passed", "insufficient", "skipped"})
  BY <1>2, ErrorsCounted DEF All, Verdicts
<1>5. QED
  BY <1>3, <1>4, ErrorsCounted DEF CaseVerdict

(* A case fails because the agent, a metric or the scoring raised, or a    *)
(* check that applies failed; no score, however low, and no metric that    *)
(* was skipped makes it fail.                                              *)
THEOREM FailedHasACauseHolds == Spec => []FailedHasACause
<1>1. LocalsOK /\ ReportInv => FailedHasACause
  <2>1. SUFFICES ASSUME LocalsOK, ReportInv, stage = "decided", caller = "worker"
                 PROVE  verdict = "failed"
                          <=> \/ case.raised
                              \/ Errors > 0
                              \/ \E i \in DOMAIN case.checks : case.checks[i] = "failed"
    BY DEF FailedHasACause
  <2>2. verdict = IF case.raised THEN "failed"
                  ELSE CaseVerdict(case.checks, case.results, Errors)
    BY <2>1 DEF ReportInv, StageInv
  <2>3. case.raised \in BOOLEAN
    BY <2>1 DEF LocalsOK, CaseRecords
  <2>4. QED
    BY <2>1, <2>2, <2>3, FailedVerdict
<1>2. QED
  BY <1>1, LocalsInvariant, ReportInvariant, PTL

-----------------------------------------------------------------------------
(* Errors of a SQL agent.                                                  *)

SqlErrors == {"execution_error", "degraded"}

(* From its trace on, a SQL case with an error has a failed check.  A case *)
(* that raised keeps no check and no result, and fails the worker; any     *)
(* other question is decided by its checks.                                *)
SqlInv ==
  /\ stage \in {"traced", "scoring", "decided"} /\ ~case.raised
       /\ case.profile = "sql" /\ case.outcome \in SqlErrors
     => \E i \in DOMAIN case.checks : case.checks[i] = "failed"
  /\ stage = "decided" /\ case.raised =>
       /\ case.checks = <<>> /\ case.results = <<>>
       /\ caller = "worker" => verdict = "failed"
  /\ stage = "decided" /\ caller = "dataset" /\ ~case.raised =>
       verdict = IF RagOk(case.checks) THEN "passed" ELSE "failed"

(* Both outcomes that speak of an error come from a signal of the trace    *)
(* that the second check of the sql profile reads as well.                 *)
LEMMA ErrorFailsACheck ==
  ASSUME NEW trace \in Traces, NEW explicit,
         ResolveProfile(trace, explicit) = "sql", ClassifyOutcome(trace) \in SqlErrors
  PROVE  \E i \in DOMAIN BuildStructuralChecks(trace, "sql") :
           BuildStructuralChecks(trace, "sql")[i] = "failed"
<1>1. trace.error \/ \E s \in trace.steps : s.kind = "node_error"
  BY DEF ClassifyOutcome, SqlErrors
<1>2. trace.error \in BOOLEAN
  BY DEF Traces
<1>3. SqlNoExecutionError(trace) = "failed"
  BY <1>1, <1>2 DEF SqlNoExecutionError, Check
<1>4. BuildStructuralChecks(trace, "sql") = <<SqlQueryExecuted(trace), "failed">>
  BY <1>3 DEF BuildStructuralChecks
<1>5. QED
  BY <1>4

LEMMA SqlStep ==
  ASSUME LocalsOK, ReportInv, SqlInv, [Next]_vars
  PROVE  SqlInv'
<1>1. CASE ReadTrace
  <2>1. PICK trace \in Traces, explicit \in Explicit :
          LET profile == ResolveProfile(trace, explicit)
          IN case' = [NoCase EXCEPT !.outcome = ClassifyOutcome(trace), !.profile = profile,
                                    !.context = trace.context,
                                    !.checks = BuildStructuralChecks(trace, profile)]
    BY <1>1 DEF ReadTrace, Explicit
  <2>2. /\ case'.outcome = ClassifyOutcome(trace)
        /\ case'.profile = ResolveProfile(trace, explicit)
        /\ case'.checks = BuildStructuralChecks(trace, ResolveProfile(trace, explicit))
        /\ stage' = "traced"
    BY <1>1, <2>1 DEF ReadTrace, NoCase
  <2>3. QED
    BY <2>2, ErrorFailsACheck DEF SqlInv
<1>2. CASE AgentFails \/ FetchFails \/ ScoringRaises \/ QuestionRaises
  <2>1. /\ case'.raised = TRUE /\ case'.checks = <<>> /\ case'.results = <<>>
        /\ caller' = "worker" => verdict' = "failed"
    BY <1>2 DEF AgentFails, FetchFails, ScoringRaises, QuestionRaises, NoCase
  <2>2. QED
    BY <2>1 DEF SqlInv
<1>3. CASE ScoreTrace \/ SelectMetric \/ Measure
  <2>1. /\ case'.outcome = case.outcome /\ case'.profile = case.profile
        /\ case'.checks = case.checks /\ case'.raised = case.raised
        /\ stage \in {"traced", "scoring"} /\ stage' = "scoring"
    <3>1. case \in CaseRecords
      BY DEF LocalsOK
    <3>2. QED
      BY <1>3, <3>1 DEF ScoreTrace, SelectMetric, Measure, CaseRecords
  <2>2. QED
    BY <2>1 DEF SqlInv
<1>4. CASE Decide
  <2>1. /\ UNCHANGED case /\ UNCHANGED caller /\ stage = "scoring" /\ stage' = "decided"
        /\ ~case.raised
    BY <1>4 DEF Decide, ReportInv, StageInv
  <2>2. caller = "dataset" => verdict' = IF RagOk(case.checks) THEN "passed" ELSE "failed"
    BY <1>4 DEF Decide
  <2>3. QED
    BY <2>1, <2>2 DEF SqlInv
<1>5. CASE NextCase \/ LeaveOut \/ FinalizeRun
  BY <1>5 DEF NextCase, LeaveOut, FinalizeRun, SqlInv
<1>6. CASE UNCHANGED vars
  BY <1>6 DEF vars, SqlInv
<1>7. QED
  BY <1>1, <1>2, <1>3, <1>4, <1>5, <1>6 DEF Next

LEMMA SqlInvariant == Spec => []SqlInv
<1>1. Init => SqlInv
  BY DEF Init, SqlInv
<1>2. LocalsOK /\ ReportInv /\ SqlInv /\ [Next]_vars => SqlInv'
  BY SqlStep
<1>3. QED
  BY <1>1, <1>2, LocalsInvariant, ReportInvariant, PTL DEF Spec

(* A SQL case whose outcome is an execution error or degraded is failed,   *)
(* by the worker and by the data set, however many metrics pass and even   *)
(* where the first of its checks does not apply; the one exception is a    *)
(* question of which there is no trace to judge.                           *)
THEOREM SqlErrorIsNeverPassedHolds == Spec => []SqlErrorIsNeverPassed
<1>1. LocalsOK /\ ReportInv /\ SqlInv => SqlErrorIsNeverPassed
  <2>1. SUFFICES ASSUME LocalsOK, ReportInv, SqlInv, stage = "decided",
                        case.profile = "sql", case.outcome \in SqlErrors
                 PROVE  \/ verdict = "failed"
                        \/ caller = "dataset" /\ case.checks = <<>> /\ case.results = <<>>
    BY DEF SqlErrorIsNeverPassed, SqlErrors
  <2>2. caller \in {"worker", "dataset"} /\ case.raised \in BOOLEAN
    BY <2>1 DEF LocalsOK, CaseRecords
  <2>3. CASE case.raised
    BY <2>1, <2>2, <2>3 DEF SqlInv
  <2>4. CASE ~case.raised
    <3>1. PICK i \in DOMAIN case.checks : case.checks[i] = "failed"
      BY <2>1, <2>4 DEF SqlInv
    <3>2. CASE caller = "worker"
      <4>1. verdict = CaseVerdict(case.checks, case.results, Errors)
        BY <2>1, <2>4, <3>2 DEF ReportInv, StageInv
      <4>2. QED
        BY <2>1, <3>1, <4>1, FailedVerdict
    <3>3. CASE caller = "dataset"
      <4>1. ~RagOk(case.checks)
        BY <3>1 DEF RagOk, All
      <4>2. QED
        BY <2>1, <2>4, <3>3, <4>1 DEF SqlInv
    <3>4. QED
      BY <2>2, <3>2, <3>3
  <2>5. QED
    BY <2>2, <2>3, <2>4
<1>2. QED
  BY <1>1, LocalsInvariant, ReportInvariant, SqlInvariant, PTL

-----------------------------------------------------------------------------
(* When a run passes.                                                      *)

(* Each case is counted once, and the verdict of the run is derived from   *)
(* the counts of all of them.                                              *)
TallyInv ==
  /\ Cases <= Total
  /\ stage \in {"traced", "scoring", "decided"} => Cases < Total
  /\ stage = "final" =>
       /\ Cases = Total
       /\ verdict = RunVerdict(tally["failed"], tally["insufficient"], Total)

LEMMA CountedOnce ==
  ASSUME LocalsOK, NEW k \in Kinds, tally' = [tally EXCEPT ![k] = @ + 1]
  PROVE  Cases \in Nat /\ Cases' = Cases + 1
BY DEF LocalsOK, Kinds, Cases

LEMMA TallyStep ==
  ASSUME LocalsOK, TallyInv, [Next]_vars
  PROVE  TallyInv'
<1>0. Cases \in Nat /\ Total \in Nat
  BY ScoringAssumption DEF LocalsOK, Kinds, Cases
<1>1. CASE ReadTrace \/ AgentFails \/ FetchFails \/ QuestionRaises
  BY <1>0, <1>1 DEF ReadTrace, AgentFails, FetchFails, QuestionRaises, TallyInv, Cases
<1>2. CASE ScoreTrace \/ SelectMetric \/ Measure \/ ScoringRaises \/ Decide
  BY <1>0, <1>2 DEF ScoreTrace, SelectMetric, Measure, ScoringRaises, Decide, TallyInv, Cases
<1>3. CASE NextCase
  <2>1. verdict \in Kinds
    BY <1>3 DEF NextCase, LocalsOK, Kinds
  <2>2. Cases' = Cases + 1
    BY <1>3, <2>1, CountedOnce DEF NextCase
  <2>3. QED
    BY <1>0, <1>3, <2>2 DEF NextCase, TallyInv
<1>4. CASE LeaveOut
  <2>1. Cases' = Cases + 1
    BY <1>4, CountedOnce DEF LeaveOut, Kinds
  <2>2. QED
    BY <1>0, <1>4, <2>1 DEF LeaveOut, TallyInv
<1>5. CASE FinalizeRun
  BY <1>0, <1>5 DEF FinalizeRun, TallyInv, Cases
<1>6. CASE UNCHANGED vars
  BY <1>6 DEF vars, TallyInv, Cases
<1>7. QED
  BY <1>1, <1>2, <1>3, <1>4, <1>5, <1>6 DEF Next

LEMMA TallyInvariant == Spec => []TallyInv
<1>1. Init => TallyInv
  BY ScoringAssumption DEF Init, TallyInv, Cases, Kinds
<1>2. LocalsOK /\ TallyInv /\ [Next]_vars => TallyInv'
  BY TallyStep
<1>3. QED
  BY <1>1, <1>2, LocalsInvariant, PTL DEF Spec

(* A run of any number of cases, all executed and none failed, passes if   *)
(* and only if more of them passed than were insufficient: the comparison  *)
(* with half of the total neither loses nor gains a case to rounding.      *)
THEOREM PassedRunHasMajorityHolds == Spec => []PassedRunHasMajority
<1>1. LocalsOK /\ TallyInv => PassedRunHasMajority
  <2>1. SUFFICES ASSUME LocalsOK, TallyInv, stage = "final",
                        tally["left_out"] = 0, tally["failed"] = 0
                 PROVE  verdict = "passed" <=> tally["passed"] > tally["insufficient"]
    BY DEF PassedRunHasMajority
  <2>2. /\ tally["passed"] \in Nat /\ tally["insufficient"] \in Nat
        /\ tally["passed"] + tally["insufficient"] = Total
        /\ Total \in Nat \ {0}
    BY <2>1, ScoringAssumption DEF LocalsOK, Kinds, TallyInv, Cases
  <2>3. verdict = RunVerdict(0, tally["insufficient"], Total)
    BY <2>1 DEF TallyInv
  <2>4. verdict = "passed" <=> ~(2 * tally["insufficient"] >= Total)
    BY <2>2, <2>3 DEF RunVerdict
  <2>5. QED
    BY <2>2, <2>4
<1>2. QED
  BY <1>1, LocalsInvariant, TallyInvariant, PTL
=============================================================================
