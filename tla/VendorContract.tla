---------------------------- MODULE VendorContract ----------------------------
(***************************************************************************)
(* The hardened contract suite of a vendor package (vendor-contract/src):  *)
(* runHardenedVendorContractSuite resets the runtime before a case, sends  *)
(* the requests of the case one after another, looks their calls up in the *)
(* ledger, takes a snapshot of the stores, and counts all calls at the     *)
(* end.  The runtime is the one of VendorScript, which other clients use   *)
(* freely; here it is used by them (client "free") or by a suite.          *)
(*                                                                         *)
(* A contract case is [resetBefore, steps, expect].  A step sends a        *)
(* request that the vendor case "request" answers, or one that the vendor  *)
(* does not know, and expects an answer, a transport error and what the    *)
(* ledger says.  "any", -1 and {} are expectations that are not given.     *)
(***************************************************************************)
EXTENDS VendorScript

CONSTANTS Suites,     \* the contract suites that are run
          MaxFreeResets, MaxMishaps  \* bounds: resets by free clients, requests that are lost or time out

VARIABLE suite   \* the suite and how far its runner is

contractVars == <<vars, suite>>

Free == [cases |-> <<>>, phase |-> "free", at |-> 1, step |-> 1, call |-> 0, checks |-> {}, mishaps |-> 0,
         owner |-> <<>>]
CurrentCase == suite.cases[suite.at]
CurrentStep == CurrentCase.steps[suite.step]

ContractInit ==
  /\ Init
  /\ \/ suite = Free
     \/ correlated /\ \E cases \in Suites : suite = [Free EXCEPT !.cases = cases, !.phase = "case"]
-----------------------------------------------------------------------------
(* runVendorContractSuite.                                                 *)

\* A check that is made is named by the case, the step (0: the case itself) and what it is
\* about; expectations that are not given make none.
check(step, about, passed) == {[at |-> suite.at, step |-> step, about |-> about, passed |-> passed]}
expected(step, about, actual, wanted, none) ==
  IF wanted = none THEN {} ELSE check(step, about, actual = wanted)

addTransportChecks(answer) ==
       (IF CurrentStep.transportError THEN check(suite.step, "transport", answer = "none") ELSE {})
  \cup expected(suite.step, "status", answer, CurrentStep.status, "any")

needsLedger(step) == <<step.matchedCase, step.before, step.after>> # <<"any", "any", "any">> \/ step.index # -1

addLedgerChecks(entry) ==
       expected(suite.step, "matched-case", entry.case, CurrentStep.matchedCase, "any")
  \cup expected(suite.step, "sequence-index", entry.data.index, CurrentStep.index, -1)
  \cup expected(suite.step, "state-before", entry.data.before, CurrentStep.before, "any")
  \cup expected(suite.step, "state-after", entry.data.after, CurrentStep.after, "any")

addSnapshotChecks(state, store) ==
       expected(0, "state", state, CurrentCase.state, "any")
  \cup expected(0, "store", store, CurrentCase.store, -1)

\* After the step: the next one, or the end of the case.
NextStep(s) ==
  IF s.step < Len(CurrentCase.steps) THEN [s EXCEPT !.step = @ + 1, !.phase = "request"]
  ELSE [s EXCEPT !.phase = "snapshot"]

BeginCase ==
  /\ suite.phase = "case" /\ suite.at <= Len(suite.cases)
  /\ \/ /\ CurrentCase.resetBefore /\ BeginReset
        /\ suite' = [suite EXCEPT !.phase = "resetting", !.step = 1]
     \/ /\ ~CurrentCase.resetBefore
        /\ suite' = [suite EXCEPT !.phase = "request", !.step = 1] /\ UNCHANGED vars

\* resetState resolves after the last store, or rejects, which is the end of the suite.
Resetting ==
  /\ suite.phase \in {"resetting", "resettingAfter"}
  /\ \/ /\ ResetOn
        /\ suite' = IF resetStep' # 0 THEN suite
                    ELSE [suite EXCEPT !.phase = IF @ = "resetting" THEN "request" ELSE "done"]
     \/ ResetFails /\ suite' = [suite EXCEPT !.phase = "thrown"]

\* executeRequest: sent, with a correlation of the case and the step; or lost on the way.
Send ==
  /\ suite.phase = "request" /\ Arrive(CurrentStep.request)
  /\ suite' = [suite EXCEPT !.phase = "waiting", !.call = Len(calls) + 1, 
                              !.owner = Append(@, [at |-> suite.at, step |-> suite.step, answered |-> FALSE])]

Concludes(answer) ==
  LET s == [suite EXCEPT !.checks = @ \cup addTransportChecks(answer)]
  IN IF needsLedger(CurrentStep) THEN [s EXCEPT !.phase = "polling"] ELSE NextStep(s)

Lost == /\ suite.phase = "request" /\ suite.mishaps < MaxMishaps
        /\ suite' = [Concludes("none") EXCEPT !.call = 0, !.mishaps = @ + 1] /\ UNCHANGED vars

Answered ==
  LET summaries == SelectSeq(log, LAMBDA e : e.kind = "summary" /\ e.call = suite.call)
  IN /\ suite.phase = "waiting" /\ calls[suite.call].step = "done"
     /\ suite' = [Concludes(summaries[1].answer) EXCEPT !.owner[suite.call].answered = TRUE] /\ UNCHANGED vars

\* The client gives up; the script goes on.
TimesOut ==
  /\ suite.phase = "waiting" /\ calls[suite.call].step # "done" /\ suite.mishaps < MaxMishaps
  /\ suite' = [Concludes("none") EXCEPT !.mishaps = @ + 1] /\ UNCHANGED vars

\* Mutant: the first call of the vendor case is taken for that of the step.
waitForAnyEntry(call) ==
  SelectSeq(parseProviderCallLedger(log), LAMBDA e : call # 0 /\ e.case = calls[call].case)

\* waitForLedgerEntry: the first entry with the correlation, if there is any.
waitForLedgerEntry(call) ==
  SelectSeq(parseProviderCallLedger(log), LAMBDA e : call # 0 /\ e.corr = calls[call].corr)

Poll ==
  LET entries == waitForLedgerEntry(suite.call)
  IN /\ suite.phase = "polling" /\ UNCHANGED vars
     /\ suite' = NextStep([suite EXCEPT !.checks = @ \cup
          IF entries = <<>> THEN check(suite.step, "ledger", FALSE) ELSE addLedgerChecks(entries[1])])

Snapshot ==
  /\ suite.phase = "snapshot" /\ UNCHANGED vars
  /\ suite' = [suite EXCEPT !.checks = @ \cup addSnapshotChecks(currentState, user),
                            !.phase = "case", !.at = @ + 1]
-----------------------------------------------------------------------------
(* runHardenedVendorContractSuite: the calls of each case, and the end.    *)

\* The ledger at some time after the last case; the entries of a case by their correlation.
\* Counts by vendor case, durations and intervals between calls are not modelled.
addCallChecks(n) ==
  LET entries == SelectSeq(parseProviderCallLedger(log), LAMBDA e : suite.owner[e.call].at = n)
      named == [k \in DOMAIN entries |-> entries[k].case]
      wanted == suite.cases[n]
      made(about, passed) == {[at |-> n, step |-> 0, about |-> about, passed |-> passed]}
  IN      (IF wanted.total = -1 THEN {} ELSE made("total", Len(entries) = wanted.total))
     \cup {c \in made("absent", wanted.absent \cap Range(named) = {}) : wanted.absent # {}}
     \cup {c \in made("order", named = wanted.ordered) : wanted.ordered # <<>>}

\* waitForSettledLedger and the call checks; then the runtime is reset once more.
Harden ==
  /\ suite.phase = "case" /\ suite.at > Len(suite.cases)
  /\ suite' = [suite EXCEPT !.phase = "resettingAfter",
                            !.checks = @ \cup UNION {addCallChecks(n) : n \in DOMAIN suite.cases}]
  /\ BeginReset

ScriptStep == \E c \in DOMAIN calls : \/ LoadState(c) \/ CountRequest(c) \/ SelectSequence(c)
                                      \/ Settle(c) \/ Respond(c)
ContractNext ==
  \/ suite.phase = "free" /\ Next /\ resets' <= MaxFreeResets /\ UNCHANGED suite
  \/ suite.phase # "free" /\ ScriptStep /\ UNCHANGED suite
  \/ BeginCase \/ Resetting \/ Send \/ Lost \/ Answered \/ TimesOut \/ Poll \/ Snapshot \/ Harden

ContractSpec == ContractInit /\ [][ContractNext]_contractVars
-----------------------------------------------------------------------------
(* What the package declares of a list of requests to a fresh runtime.     *)

declaredCalls(requests) ==
  LET same(k) == Cardinality({j \in 1..(k - 1) : requests[j] = requests[k]})
      step(k) == stepEffects(Plan[requests[k]], DeclaredIndex(Plan[requests[k]], same(k)))
      explicit(k) == IF step(k).setState # "none" THEN step(k).setState ELSE Plan[requests[k]].effects.setState
      before[k \in 1..(Len(requests) + 1)] ==
        IF k = 1 THEN InitialState
        ELSE LET from == before[k - 1]
                 n == Cardinality({j \in 1..(k - 1) : before[j] = from})
                 due == {t \in DOMAIN Transitions : Transitions[t].from = from /\ Transitions[t].atLeast <= n}
             IN IF explicit(k - 1) # "none" THEN explicit(k - 1)
                ELSE IF due = {} THEN from ELSE Transitions[CHOOSE t \in due : \A u \in due : t <= u].to
  IN [k \in DOMAIN requests |->
        [case |-> requests[k], before |-> before[k], after |-> before[k + 1],
         mutations |-> Plan[requests[k]].effects.mutations \o step(k).mutations,
         index |-> DeclaredIndex(Plan[requests[k]], same(k)), answer |-> applyState(Plan[requests[k]], before[k])]]

\* The requests of a case, after those of the cases before it that it does not reset.
requestsOf(cases, n) ==
  LET own(k) == [i \in DOMAIN cases[k].steps |-> cases[k].steps[i].request]
      upTo[k \in 0..n] == IF k = 0 THEN <<>> ELSE IF cases[k].resetBefore THEN own(k) ELSE upTo[k - 1] \o own(k)
  IN upTo[n]

meetsContract(cases, n) ==
  LET story == declaredCalls(requestsOf(cases, n))
      steps == cases[n].steps
      own == SubSeq(story, Len(story) - Len(steps) + 1, Len(story))
      named == [k \in DOMAIN own |-> own[k].case]
      effects == FlattenSeq([k \in DOMAIN story |-> story[k].mutations])
      wants(actual, wanted, none) == wanted \in {none, actual}
  IN /\ \A k \in DOMAIN steps :
          /\ ~steps[k].transportError /\ wants(own[k].answer, steps[k].status, "any")
          /\ wants(own[k].case, steps[k].matchedCase, "any") /\ wants(own[k].index, steps[k].index, -1)
          /\ wants(own[k].before, steps[k].before, "any") /\ wants(own[k].after, steps[k].after, "any")
     /\ wants(Last(story).after, cases[n].state, "any")
     /\ wants(FoldLeft(applyStoreMutation, Absent, effects), cases[n].store, -1)
     /\ wants(Len(steps), cases[n].total, -1) /\ wants(named, cases[n].ordered, <<>>)
     /\ cases[n].absent \cap Range(named) = {}

\* A suite whose requests were all answered reports that the package passed exactly when the
\* package declares what every case expects, whatever the cases before it did.  And whatever
\* else timed out or was lost, the checks of a request that was answered are about its own call
\* (runner.ts, hardening-runner.ts).
ReportIsDeclared ==
  /\ suite.phase = "done" /\ suite.mishaps = 0 =>
       ((\A c \in suite.checks : c.passed) <=> \A n \in DOMAIN suite.cases : meetsContract(suite.cases, n))
  /\ \A c \in DOMAIN suite.owner : \A made \in suite.checks :
       LET own == suite.owner[c]
           step == suite.cases[own.at].steps[own.step]
       IN own.answered /\ made.at = own.at /\ made.step = own.step =>
            CASE made.about = "matched-case" -> made.passed = (calls[c].case = step.matchedCase)
              [] made.about = "sequence-index" -> made.passed = (calls[c].index = step.index)
              [] made.about = "state-before" -> made.passed = (calls[c].state = step.before)
              [] made.about = "ledger" -> FALSE
              [] OTHER -> TRUE
=============================================================================
