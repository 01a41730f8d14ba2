---------------------------- MODULE AssertionRules ----------------------------
(***************************************************************************)
(* evaluateAssertions (assertion-engine/src/evaluator.ts): what an         *)
(* assertion says of the records of a run.  A selector names the fields it *)
(* asks for and leaves the others open ("" or 0); -1 is a bound that is    *)
(* not given, and a value at a path that is not there.                     *)
(***************************************************************************)
EXTENDS Integers, Sequences, FiniteSets, SequencesExt

matchesProvider(record, selector) ==
  /\ record.vendorId = selector.vendorId
  /\ selector.operationId \in {"", record.operationId}
  /\ selector.caseId \in {"", record.caseId}
  /\ selector.statusCode \in {0, record.statusCode}

\* equals alone decides when it is given; no bound at all is never met.
matchesBounds(n, a) ==
  IF a.equals # -1 THEN n = a.equals
  ELSE /\ a.minimum # -1 => n >= a.minimum
       /\ a.maximum # -1 => n <= a.maximum
       /\ {a.minimum, a.maximum} # {-1}

count(s, P(_)) == Len(SelectSeq(s, P))

evaluateProviderCallCount(a, snapshot) ==
  matchesBounds(count(snapshot.providerCalls, LAMBDA r : matchesProvider(r, a.selector)), a)

\* A stable sort by time.
byTime(s) ==
  LET rank(i) == Cardinality({j \in DOMAIN s : s[j].occurredAt < s[i].occurredAt
                                               \/ (s[j].occurredAt = s[i].occurredAt /\ j <= i)})
  IN [k \in DOMAIN s |-> s[CHOOSE i \in DOMAIN s : rank(i) = k]]

\* Mutant: the search goes on from the record that was found.
cursorAfterAgain(records, sequence) ==
  LET cursor[k \in 0..Len(sequence)] ==
        IF k = 0 THEN 1
        ELSE LET found == {i \in DOMAIN records : i >= cursor[k - 1] /\ matchesProvider(records[i], sequence[k])}
             IN IF cursor[k - 1] = 0 \/ found = {} THEN 0 ELSE CHOOSE i \in found : \A j \in found : i <= j
  IN cursor[Len(sequence)]

\* Where the search for the next selector starts, after the first record that fits the last
\* one; 0 once a selector found none.
cursorAfter(records, sequence) ==
  LET cursor[k \in 0..Len(sequence)] ==
        IF k = 0 THEN 1
        ELSE LET found == {i \in DOMAIN records : i >= cursor[k - 1] /\ matchesProvider(records[i], sequence[k])}
             IN IF cursor[k - 1] = 0 \/ found = {} THEN 0
                ELSE 1 + CHOOSE i \in found : \A j \in found : i <= j
  IN cursor[Len(sequence)]

evaluateProviderCallOrder(a, snapshot) ==
  /\ cursorAfter(byTime(snapshot.providerCalls), a.sequence) # 0
  /\ a.exact => Len(snapshot.providerCalls) = Len(a.sequence)

evaluateBrowserJourney(a, snapshot) ==
  LET records == SelectSeq(snapshot.browserActions, LAMBDA r : r.journeyId = a.journeyId)
  IN records # <<>> /\ \A k \in DOMAIN records : records[k].status = "PASSED"

evaluateBrowserAction(a, snapshot) ==
  count(snapshot.browserActions, LAMBDA r : /\ r.journeyId = a.journeyId /\ a.stepId \in {"", r.stepId}
                                            /\ a.action \in {"", r.action} /\ r.status = a.expectedStatus) >= a.minimum

observationsOf(a, snapshot) ==
  SelectSeq(snapshot.observations, LAMBDA r : r.observationType = a.observationType /\ a.status \in {"", r.status})

\* The first or the last observation of its kind, compared as a number.
evaluateObservation(a, snapshot) ==
  LET records == observationsOf(a, snapshot)
      actual == IF records = <<>> THEN -1 ELSE IF a.latest THEN Last(records).value ELSE Head(records).value
  IN CASE a.operator = "present" -> actual # -1
       [] a.operator = "absent" -> actual = -1
       [] a.operator = "equals" -> actual = a.equals
       [] a.operator = "not-equals" -> actual # a.equals
       [] a.operator = "greater-than-or-equal" -> actual # -1 /\ actual >= a.equals
       [] a.operator = "less-than-or-equal" -> actual # -1 /\ actual <= a.equals

evaluateObservationCount(a, snapshot) == matchesBounds(Len(observationsOf(a, snapshot)), a)

\* The last record with the highest attempt.
evaluateStep(a, snapshot) ==
  LET records == SelectSeq(snapshot.steps, LAMBDA r : r.stepId = a.stepId)
      latest == {i \in DOMAIN records : \A j \in DOMAIN records :
                   \/ records[j].attempt < records[i].attempt
                   \/ records[j].attempt = records[i].attempt /\ j <= i}
  IN \E i \in latest : records[i].status = "PASSED"

evaluateArtifact(a, snapshot) == count(snapshot.artifacts, LAMBDA r : r.kind = a.kind) >= a.minimum

\* The last summary of the gateway has neither rejected nor failed calls; without one it fails.
evaluateNoUnexpectedCalls(a, snapshot) ==
  LET records == SelectSeq(snapshot.observations, LAMBDA r : r.observationType = "gateway-ledger-summary")
  IN records # <<>> /\ Last(records).rejectedCount = 0 /\ Last(records).failedCount = 0

evaluateDefinition(a, snapshot) ==
  CASE a.type = "provider-call-count" -> evaluateProviderCallCount(a, snapshot)
    [] a.type = "provider-call-order" -> evaluateProviderCallOrder(a, snapshot)
    [] a.type = "browser-journey-passed" -> evaluateBrowserJourney(a, snapshot)
    [] a.type = "browser-action" -> evaluateBrowserAction(a, snapshot)
    [] a.type = "observation" -> evaluateObservation(a, snapshot)
    [] a.type = "observation-count" -> evaluateObservationCount(a, snapshot)
    [] a.type = "step-passed" -> evaluateStep(a, snapshot)
    [] a.type = "artifact-present" -> evaluateArtifact(a, snapshot)
    [] a.type = "no-unexpected-external-calls" -> evaluateNoUnexpectedCalls(a, snapshot)

\* The summary of a report (reporting/src/generator.ts): every attempt of a step counts.
buildRunReport(outcome, verdicts, steps) ==
  LET failed(severity) == {a \in DOMAIN verdicts : ~verdicts[a] /\ a.severity = severity}
  IN [failedAssertions |-> failed("error"), warningFailures |-> failed("warning"),
      passed |-> /\ outcome = "PASSED" /\ failed("error") = {}
                 /\ ~\E k \in DOMAIN steps : steps[k].status \in {"FAILED", "CANCELLED"}]
=============================================================================
