-------------------------- MODULE EvaluationCatalog --------------------------
(***************************************************************************)
(* The rows the API reads and writes, evaluations and their runs, with the *)
(* methods of EvaluationStore and RunStore that reach them.  Every method  *)
(* is one transaction.  An identifier is fresh (uuid4) and never used      *)
(* again; evaluation_run.evaluation_id is a plain foreign key.             *)
(***************************************************************************)
EXTENDS Naturals, FiniteSets, FiniteSetsExt

CONSTANTS Ids,              \* identifiers of evaluations and of runs
          SeedEvaluations,  \* rows that are there at the start
          SeedRuns,
          NoRow             \* what get returns for an unknown identifier

VARIABLES
  evaluations,  \* the evaluation table
  runs          \* the evaluation_run table, with its cases

(* A version is a text.  What matters of it: whether int(v.lstrip("v"))    *)
(* reads a number in it ("v2" and "2" do, "1.0.0" does not), which, and    *)
(* whether two of them are the same text.                                  *)
Version(style, number) == [style |-> style, number |-> number]
NumberOf(version) == IF version.style = "label" THEN {} ELSE {version.number}

EvaluationIds == {e \in Ids : evaluations[e] # NoRow}
RunIds        == {x \in Ids : runs[x] # NoRow}

-----------------------------------------------------------------------------
(* EvaluationStore                                                         *)
CreateEvaluation(e, row) == evaluations' = [evaluations EXCEPT ![e] = row]

Versions(team, name) ==
  {evaluations[e].version : e \in {d \in EvaluationIds : /\ evaluations[d].team = team
                                                         /\ evaluations[d].name = name}}

VersionExists(team, name, version) == version \in Versions(team, name)

(* Mutant of GetLatestVersionNumber: int(v) without the lstrip.             *)
LatestPlainNumber(team, name) ==
  Max({0} \cup {v.number : v \in {w \in Versions(team, name) : w.style = "plain"}})

GetLatestVersionNumber(team, name) ==
  Max({0} \cup UNION {NumberOf(v) : v \in Versions(team, name)})

EvaluationsOfTeam(team) == {e \in EvaluationIds : evaluations[e].team = team}

(* The foreign key forbids it while a run refers to the row.               *)
DeleteEvaluation(e) == evaluations' = [evaluations EXCEPT ![e] = NoRow]

-----------------------------------------------------------------------------
(* RunStore                                                                *)
RunsOfEvaluation(e) == {x \in RunIds : runs[x].evaluation = e}
RunsOfTeam(team) == {x \in RunIds : runs[x].team = team}
RunsOfCreator(user) == {x \in RunIds : runs[x].by = user}

EvaluationCanBeDeleted(e) == RunsOfEvaluation(e) = {}
AnyRunCanBeCreated(e) == TRUE       \* mutant: no foreign key
RunCanBeCreated(e) == e \in EvaluationIds

CreateRun(x, row) == runs' = [runs EXCEPT ![x] = row]
CreateCases(x) == runs' = [runs EXCEPT ![x].cases = TRUE]
UpdateRunState(x, state) ==
  runs' = IF x \in RunIds THEN [runs EXCEPT ![x].state = state] ELSE runs
DeleteRun(x) == runs' = [runs EXCEPT ![x] = NoRow]

CatalogInit ==
  /\ evaluations = [i \in Ids |-> IF i \in DOMAIN SeedEvaluations THEN SeedEvaluations[i] ELSE NoRow]
  /\ runs = [i \in Ids |-> IF i \in DOMAIN SeedRuns THEN SeedRuns[i] ELSE NoRow]
=============================================================================
