-------------------------------- MODULE Report --------------------------------
(***************************************************************************)
(* The report that is sold: the engine's findings, in whatever form they   *)
(* come, coerced into the schema, numbered, sorted and summed up           *)
(* (packages/audit-service/src/parser.ts, packages/shared/src/report.ts),  *)
(* kept by the live scan as the one that later deals replay, and read by   *)
(* the dashboard.                                                          *)
(*                                                                         *)
(* An entry is [title, level, score, vector, id]: whether it has a title,  *)
(* the word for its severity, its CVSS score in tenths, the vector it      *)
(* carries, and its own id.  Texts are left out.                           *)
(***************************************************************************)
EXTENDS Integers, Sequences, FiniteSets, SequencesExt, Filter

CONSTANTS
  Entries,      \* what an engine may report
  Outputs,      \* the JSON it may leave: [top, report, result, data]
  Missing       \* no value

ReportAssumption ==
  /\ \A e \in Entries : e.title \in BOOLEAN
  /\ LET Array == {Missing} \cup Seq(Entries)
     IN  Outputs \subseteq [top : Array, report : Array, result : Array, data : Array]
  /\ Missing \notin Outputs

VARIABLES output, findings, delivered, prebaked
reportVars == <<output, findings, delivered, prebaked>>

SEVERITIES == <<"info", "low", "medium", "high", "critical">>
SEVERITY_ORDER_DESC == Reverse(SEVERITIES)

\* Words of other tools; anything else is left to the score.
normalizeSeverity(level, score) ==
  CASE level \in Range(SEVERITIES)             -> level
    [] level \in {"informational", "note", "none"} -> "info"
    [] level \in {"moderate", "medium-high"}   -> "medium"
    [] level = "severe"                        -> "high"
    [] OTHER -> IF score = Missing THEN "info"
                ELSE IF score >= 90 THEN "critical"
                ELSE IF score >= 70 THEN "high"
                ELSE IF score >= 40 THEN "medium"
                ELSE IF score >= 1 THEN "low"
                ELSE "info"

\* A CVSS 3.1 vector, or a breakdown with all eight metrics.
cvssVector(entry) == entry.vector \in {"3.1", "breakdown"}

clamp(x) == IF x < 0 THEN 0 ELSE IF x > 100 THEN 100 ELSE x

coerceFinding(entry, index) ==
  [id |-> IF entry.id = Missing THEN <<"AM", index>> ELSE entry.id,
   severity |-> normalizeSeverity(entry.level, entry.score),
   cvss |-> IF entry.score # Missing /\ cvssVector(entry) THEN clamp(entry.score) ELSE Missing,
   of |-> entry]

\* The array itself or under one of the names looked for; below a wrapper, the
\* first that is not empty.
findFindingsArray(out) ==
  IF out.top # Missing THEN out.top
  ELSE LET wrapped == <<out.report, out.result, out.data>>
           nested == filter(wrapped, Range(wrapped) \ {Missing, <<>>})
       IN  IF nested = <<>> THEN <<>> ELSE Head(nested)

\* Entries without a title are dropped.  The number first given counts both
\* what was kept and what was seen.
CoerceAll(entries) ==
  FoldLeftDomain(LAMBDA kept, i :
      IF entries[i].title THEN Append(kept, coerceFinding(entries[i], Len(kept) + i)) ELSE kept,
    <<>>, entries)

\* A variant that leaves the numbers as they were given.
parseKeepingIds(out) == CoerceAll(findFindingsArray(out))

\* Every AM id is numbered anew, also one the engine gave.
parseStrixFindings(out) ==
  LET all == CoerceAll(findFindingsArray(out))
  IN  [i \in DOMAIN all |-> IF all[i].id[1] = "AM" THEN [all[i] EXCEPT !.id = <<"AM", i>>]
                            ELSE all[i]]

OfSeverity(fs, s) == filter(fs, {f \in Range(fs) : f.severity = s})

summarize(fs) ==
  LET by == [s \in Range(SEVERITIES) |-> Len(OfSeverity(fs, s))]
      worst == filter(SEVERITY_ORDER_DESC, {s \in Range(SEVERITIES) : by[s] > 0})
  IN  [totalFindings |-> Len(fs), bySeverity |-> by,
       highestSeverity |-> IF worst = <<>> THEN "info" ELSE Head(worst),
       headline |-> CASE fs = <<>> -> "clean"
                      [] by["critical"] + by["high"] > 0 -> "counts the worst"
                      [] OTHER -> "names the highest"]

\* Worst first; a stable sort.
SortBySeverity(fs) == FlattenSeq([i \in DOMAIN SEVERITIES |-> OfSeverity(fs, SEVERITY_ORDER_DESC[i])])

buildReport(fs, source) ==
  LET sorted == SortBySeverity(fs)
  IN  [source |-> source, findings |-> sorted, summary |-> summarize(sorted)]
-------------------------------------------------------------------------------
\* reports/generate-prebaked.mjs: one finding of each rank, in order.
PrebakedSeed ==
  buildReport([i \in DOMAIN SEVERITIES |->
     [id |-> <<"AM", i>>, severity |-> SEVERITY_ORDER_DESC[i], cvss |-> Missing,
      of |-> [title |-> TRUE, level |-> SEVERITY_ORDER_DESC[i], score |-> Missing,
              vector |-> "none", id |-> <<"AM", i>>]]], "prebaked")

ReportInit ==
  /\ output = Missing /\ findings = <<>>
  /\ prebaked = PrebakedSeed /\ delivered = Missing

\* A live scan for a deal: the seller parses what the engine left.
ScanLive ==
  /\ output' \in Outputs
  /\ findings' = parseStrixFindings(output')
  /\ delivered' = buildReport(findings', "live")
  /\ UNCHANGED prebaked

\* scripts/run-strix-live.mjs, reparse-strix.mjs: the report to replay from
\* now on, when there is anything in it.
RefreshPrebaked ==
  /\ output' \in Outputs
  /\ LET report == buildReport(parseStrixFindings(output'), "prebaked")
     IN  prebaked' = IF report.findings # <<>> THEN report ELSE prebaked
  /\ findings' = <<>> /\ delivered' = Missing

\* loadPrebakedFindings: stamped for this deal by buildReport.
Replay ==
  /\ output' = Missing
  /\ findings' = prebaked.findings
  /\ delivered' = buildReport(findings', "prebaked")
  /\ UNCHANGED prebaked

ReportNext == ScanLive \/ RefreshPrebaked \/ Replay
-------------------------------------------------------------------------------
\* safeParseReport: what is not a report is shown as it is.
safeParseReport(text) == [ok |-> text # Missing, report |-> text]

\* ReportPanel: sorted once more, a chip for every severity that was counted.
ReportPanel(report) ==
  [rows |-> SortBySeverity(report.findings),
   chips |-> filter(SEVERITY_ORDER_DESC, {s \in Range(SEVERITIES) : report.summary.bySeverity[s] > 0})]

\* Whatever the engine wrote and however often it was replayed, the report
\* accounts for every titled entry once, its AM ids are distinct, its summary
\* is that of the rows the buyer is shown, and what is replayed is what was
\* kept (parser.ts:152-207, report.ts:114-158, prebaked.ts:19-37).
ReportAddsUp ==
  LET read == safeParseReport(delivered)
      r    == read.report IN
  read.ok =>
    LET shown == ReportPanel(r)
        AMs   == {i \in DOMAIN r.findings : r.findings[i].id[1] = "AM"} IN
    /\ output # Missing =>
         Len(r.findings) = Cardinality({i \in DOMAIN findFindingsArray(output) :
                                          findFindingsArray(output)[i].title})
    /\ \A f \in Range(r.findings) : f.severity = normalizeSeverity(f.of.level, f.of.score)
    /\ \A i, j \in AMs : r.findings[i].id = r.findings[j].id => i = j
    /\ shown.rows = r.findings /\ r.summary.totalFindings = Len(shown.rows)
    /\ Range(shown.chips) = {f.severity : f \in Range(shown.rows)}
    /\ shown.rows # <<>> => /\ r.summary.highestSeverity = Head(shown.rows).severity
                            /\ Head(shown.chips) = Head(shown.rows).severity
    /\ output = Missing => r = prebaked
===============================================================================
