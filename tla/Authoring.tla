------------------------------ MODULE Authoring ------------------------------
(***************************************************************************)
(* What authors write, on its way into a run: the handlers                 *)
(* "vendor.compile" and "browser.load-package" of platform-actions, the    *)
(* resolution of scenarios and journeys, and the evaluation of the         *)
(* assertions over the records of a run.  One document goes through its    *)
(* steps and is refused at one of them or gives its output.                *)
(*                                                                         *)
(* The properties compare the outputs with definitions that are stated     *)
(* directly over the document: graphs, sets and the meaning of the words.  *)
(***************************************************************************)
EXTENDS VendorCompiler, AssertionRules, TLC
Scenario == INSTANCE ScenarioResolver
Browser == INSTANCE BrowserPackage

CONSTANTS
  VendorPackages, Requests,   \* packages that are compiled, requests to the bundles
  Scenarios,                  \* scenario configurations
  BrowserPackages,            \* packages of sites, personas, journeys and fragments
  Snapshots, Assertions       \* records of runs, and what is asserted of them

VARIABLES kind, input, stage, output   \* output is <<>> until there is a result
vars == <<kind, input, stage, output>>

Init ==
  /\ stage = "submitted" /\ output = <<>>
  /\ \/ kind = "vendor" /\ input \in VendorPackages
     \/ kind = "scenario" /\ input \in Scenarios
     \/ kind = "browser" /\ input \in BrowserPackages
     \/ kind = "snapshot" /\ input \in Snapshots
-----------------------------------------------------------------------------
Moves(ok, next) ==
  /\ stage' = IF ok THEN next ELSE "refused"
  /\ UNCHANGED <<kind, input>>

\* vendor.compile: the privacy scan, the loader, the compiler.
Scan == /\ kind = "vendor" /\ stage = "submitted"
        /\ Moves(scanVendorPackagePrivacy(input) = {}, "scanned") /\ UNCHANGED output
LoadVendor == /\ kind = "vendor" /\ stage = "scanned"
              /\ Moves(loadVendorPackage(input) = {}, "loaded")
              /\ output' = IF loadVendorPackage(input) = {} THEN <<buildExecutionModel(input)>> ELSE <<>>
Compile ==
  /\ kind = "vendor" /\ stage = "loaded"
  /\ LET ok == compileIssues(input, input.image) = {} /\ ~scriptThrows(input, output[1])
     IN /\ Moves(ok, "done")
        /\ output' = IF ok THEN <<compileVendorBundle(input, output[1])>> ELSE <<>>

Resolve ==
  /\ kind = "scenario" /\ stage = "submitted"
  /\ LET resolved == Scenario!resolveScenario(input)
     IN Moves(resolved.ok, "done") /\ output' = IF resolved.ok THEN <<resolved.phases>> ELSE <<>>

\* browser.load-package; browser.run-journey resolves a journey when it is run.
LoadBrowser == /\ kind = "browser" /\ stage = "submitted"
               /\ Moves(Browser!loadBrowserPackage(input), "loaded") /\ UNCHANGED output
ResolveJourney(journey) ==
  /\ kind = "browser" /\ stage = "loaded"
  /\ LET resolved == Browser!resolveJourney(input, journey.id)
     IN Moves(resolved.ok, "done") /\ output' = <<journey, resolved.steps>>

Evaluate ==
  /\ kind = "snapshot" /\ stage = "submitted" /\ Moves(TRUE, "done")
  /\ output' = <<[a \in Assertions |-> evaluateDefinition(a, input)]>>

\* The report of a run whose scenario makes one of the assertions.
Report(asserted, outcome) ==
  /\ kind = "snapshot" /\ stage = "done" /\ Moves(TRUE, "reported")
  /\ output' = <<asserted, buildRunReport(outcome, [a \in {asserted} |-> output[1][a]], input.steps)>>

Next == \/ Scan \/ LoadVendor \/ Compile \/ Resolve \/ LoadBrowser \/ Evaluate
        \/ \E asserted \in Assertions, outcome \in {"PASSED", "FAILED"} : Report(asserted, outcome)
        \/ kind = "browser" /\ \E journey \in Range(input.journeys) : ResolveJourney(journey)
Spec == Init /\ [][Next]_vars
-----------------------------------------------------------------------------
(* Which case answers.                                                     *)

\* What an expression of the vendor language says of a request.
meets(e, request) ==
  LET present == e.name \in DOMAIN request.fields
      v == request.fields[e.name]
      part(i, j) == SubSeq(v, i, j)
      like(text) == Len(text) = Len(e.value)
                    /\ \A k \in DOMAIN text : e.value[k] \in {".", text[k]}
  IN CASE e.operator = "present" -> present
       [] e.operator = "absent" -> ~present
       [] e.operator = "notEquals" -> present => v # e.value
       [] e.operator = "equals" -> present /\ v = e.value
       [] e.operator = "startsWith" -> present /\ IsPrefix(e.value, v)
       [] e.operator = "endsWith" -> present /\ IsSuffix(e.value, v)
       [] e.operator = "contains" -> present /\ \E i, j \in 0..Len(v) : part(i + 1, j) = e.value
       [] e.operator = "matchesRegex" -> present /\ \E i, j \in 0..Len(v) : like(part(i + 1, j))

\* The case that an author means: of those whose conditions hold the one with the highest
\* priority, and the first of these in its file.
declared(file, request) ==
  LET met == {k \in DOMAIN file.cases : \A e \in file.cases[k].when : meets(e, request)}
      top == {k \in met : \A j \in met : file.cases[j].priority <= file.cases[k].priority}
  IN {file.cases[k] : k \in {k \in top : \A j \in top : k <= j}}

\* Each request under the base path of a bundle is answered by the case that its author means,
\* with the response of the case or the override of the initial state, by the declared answer
\* to unmatched requests, or not at all without a credential (compile.ts, matchers.ts).
SelectsDeclaredCase ==
  kind = "vendor" /\ stage = "done" =>
    \A request \in Requests :
      LET answer == imposter(output[1], request)
          files == {f \in Range(input.operationFiles) :
                      input.basePath \o f.route.path = request.path /\ f.route.method = request.method}
          meant == UNION {declared(f, request) : f \in files}
          override == input.states[input.initialState].override
      IN IsPrefix(input.basePath, request.path) /\ Head(request.path) # "system" =>
           IF input.authentication # <<>> /\ ~request.credential THEN answer.kind = "denied"
           ELSE IF meant = {} THEN answer.kind = "unmatched"
           ELSE \E f \in files : \E c \in meant :
                  /\ answer.source = [operationId |-> f.operationId, caseId |-> c.id]
                  /\ ~requiresStatefulExecution(input) =>
                       answer.response.status =
                         IF override # NoResponse THEN override.status ELSE c.respond.status
-----------------------------------------------------------------------------
(* Bundles.                                                                *)

clean(leaf) ==
  /\ \A t \in Range(leaf.text) :
       CASE t.what = "email" -> Last(t.host) \in {"example", "test", "invalid"}
         [] t.what = "host" -> t.slash \/ Last(t.host) \in {"example", "test", "invalid", "json"}
         [] t.what = "ip" -> t.octets[1] = 127 \/ SubSeq(t.octets, 1, 3) = <<192, 0, 2>>
         [] OTHER -> TRUE
  /\ (\E k \in DOMAIN leaf.path : /\ leaf.path[k].sensitive
                                  /\ \A j \in DOMAIN leaf.path : j > k => leaf.path[j].what = "index")
     => ~leaf.long \/ leaf.synthetic

\* What a package must be, said of its documents.
packageSound(p) ==
  LET effects == UNION {effectsOf(c) : c \in casesOf(p)}
      bodies == {r.body : r \in responsesOf(p)} \ {""}
  IN /\ \A f \in p.texts : f.extension \in {"json", "yaml"} => f.raw = <<>> /\ \A leaf \in f.leaves : f.parses => clean(leaf)
     /\ p.vendorFile /\ p.systemFile /\ p.operationFiles # <<>> /\ \A f \in Range(p.operationFiles) : f.valid
     /\ {p.initialState} \cup {t.from : t \in Range(p.transitions)} \cup {t.to : t \in Range(p.transitions)}
          \cup ({e.setState : e \in effects} \ {""}) \subseteq DOMAIN p.states
     /\ \A i, j \in DOMAIN p.operationFiles : p.operationFiles[i].operationId = p.operationFiles[j].operationId => i = j
     /\ \A f \in Range(p.operationFiles) : Cardinality({c.id : c \in Range(f.cases)}) = Len(f.cases)
     /\ \A b \in bodies : p.files[b] = "file"
     /\ p.redactsAuthorization /\ p.image # "with spaces"
     /\ \A c \in casesOf(p) :
          /\ c.transport # "connection-reset" /\ \A step \in Range(c.sequence) : step.transport # "connection-reset"
          /\ \A e \in c.when : e.location \notin {"cookie", "state"} /\ e.operator # "greaterThan"

\* A package is compiled exactly when it is clean, complete and within what the runtime can
\* do, and its bundle is whole: the source map names the file position of the case behind each
\* resource, and scripts, stores, states and assets that are referred to are there.
BundleIsWhole ==
  /\ kind = "vendor" /\ stage = "refused" => ~packageSound(input)
  /\ kind = "vendor" /\ stage = "done" =>
       LET bundle == output[1]
       IN /\ packageSound(input)
          /\ \A k \in DOMAIN bundle.resources :
               bundle.resources[k].kind # "system" =>
                 Cardinality({entry \in bundle.sourceMap : entry.resource = k}) = 1
          /\ \A entry \in bundle.sourceMap : entry.pointer # 0 =>
               \E f \in Range(input.operationFiles) :
                 /\ f.operationId = entry.source.operationId /\ f.cases[entry.pointer].id = entry.source.caseId
                 /\ bundle.resources[entry.resource].path = input.basePath \o f.route.path
          /\ {r.script : r \in Range(bundle.resources)} \ {NoScript} = {s.name : s \in bundle.scripts}
          /\ \A s \in bundle.scripts : /\ s.stores \subseteq bundle.stores /\ s.contents \subseteq bundle.assets
                                       /\ s.states \subseteq DOMAIN input.states

\* What a package declares is what its bundle does: the right case answers, and nothing the
\* bundle needs for that is missing from it.
CompiledIsFaithful == SelectsDeclaredCase /\ BundleIsWhole
-----------------------------------------------------------------------------
(* Scenarios.                                                              *)

\* The steps of a list with the depth at which they stand in it, 1 for its own.
RECURSIVE within(_, _)
within(steps, depth) ==
  UNION {{<<steps[k], depth>>} \cup within(steps[k].steps, depth + 1) \cup within(steps[k].otherwise, depth + 1)
         : k \in DOMAIN steps}
RECURSIVE idsIn(_)
idsIn(steps) ==
  FlattenSeq([k \in DOMAIN steps |-> <<steps[k].id>> \o idsIn(steps[k].steps) \o idsIn(steps[k].otherwise)])

named(steps) == {x[1].use : x \in within(steps, 1)} \ {""}

\* The fragments that the phases come to, directly or through others.
reached(c) ==
  LET closed(S) == /\ UNION {named(c.phases[p]) : p \in DOMAIN c.phases} \subseteq S
                   /\ \A f \in S \cap DOMAIN c.fragments : named(c.fragments[f]) \subseteq S
  IN {f \in DOMAIN c.fragments : \A S \in SUBSET DOMAIN c.fragments : closed(S) => f \in S}

\* Some order of the reached fragments puts what is used before what uses it.
acyclic(c) ==
  \E rank \in [reached(c) -> 1..Cardinality(reached(c))] :
    \A f \in reached(c) : \A g \in named(c.fragments[f]) \cap reached(c) : rank[g] < rank[f]

\* A value at depth d is replaced d times, each time by a variable there is.
replaceable(value, d, variables) ==
  LET after[n \in 0..d] == IF n = 0 THEN value ELSE Scenario!substituteValue(after[n - 1], variables)
  IN after[d] # Scenario!Failed

scenarioSound(c) ==
  LET lists == {c.phases[p] : p \in DOMAIN c.phases} \cup {c.fragments[f] : f \in DOMAIN c.fragments}
      live == {c.phases[p] : p \in DOMAIN c.phases} \cup {c.fragments[f] : f \in reached(c)}
  IN /\ UNION {named(steps) : steps \in lists} \subseteq DOMAIN c.fragments
     /\ \A steps \in lists : LET ids == idsIn(Scenario!expand(steps, <<>>, <<>>, {}, <<>>))
                             IN Cardinality(Range(ids)) = Len(ids)
     /\ acyclic(c)
     /\ \A steps \in live : \A x \in within(steps, 1) : replaceable(x[1].value, x[2], c.variables)
     /\ Cardinality({a.id : a \in Range(c.assertions)}) = Len(c.assertions)
     /\ \A a \in Range(c.assertions) : \/ a.type = "count" /\ \E n \in 0..3 : matchesBounds(n, a)
                                       \/ a.type = "observation" /\ (a.operator \in {"present", "absent"} \/ a.equals # -1)
     /\ c.assertions # <<>> => \A k \in DOMAIN c.phases["assert"] : c.phases["assert"][k].id # "system-assertions"

\* A scenario is resolved exactly when it is sound - names distinct, fragments known and not
\* within themselves where they are used, variables there - and then the ids of the steps of a
\* phase are distinct at every depth and no use of a fragment is left (resolver.ts).
ResolvesExactlyWhenSound ==
  /\ kind = "scenario" /\ stage = "refused" => ~scenarioSound(input)
  /\ kind = "scenario" /\ stage = "done" =>
       /\ scenarioSound(input)
       /\ \A p \in DOMAIN output[1] :
            /\ Cardinality(Range(idsIn(output[1][p]))) = Len(idsIn(output[1][p]))
            /\ \A x \in within(output[1][p], 1) : x[1].use = ""
-----------------------------------------------------------------------------
(* Journeys and assertions.                                                *)

\* A journey that can be run holds no CSS selector unless it allows them itself, none that is
\* positional, and only test ids of one element of the site, through whatever fragments its
\* steps come (loader.ts, docs/browser-dsl-site-host-v0.1.md).
JourneysAreGuarded ==
  kind = "browser" /\ stage = "done" =>
    \A step \in Range(output[2]) :
      /\ step.use = "" /\ step.selector.by # "positional"
      /\ step.selector.by = "css" => output[1].allowCssFallback
      /\ step.selector.by = "testId" =>
           LET ids == Browser!testIdsOf(input.site)
           IN Cardinality({k \in DOMAIN ids : ids[k] = step.selector.name}) = 1

\* The calls of an order assertion stand in this order in time, one call for each selector.
inOrder(a, calls) ==
  \E at \in [DOMAIN a.sequence -> DOMAIN calls] :
    /\ \A k \in DOMAIN a.sequence : matchesProvider(calls[at[k]], a.sequence[k])
    /\ \A j, k \in DOMAIN a.sequence : j < k =>
         \/ calls[at[j]].occurredAt < calls[at[k]].occurredAt
         \/ calls[at[j]].occurredAt = calls[at[k]].occurredAt /\ at[j] < at[k]

\* The verdict of an order assertion is that some choice of calls stands in the order, all of
\* them if it is exact; that of a step assertion is the status of its last attempt, however
\* the records are stored (evaluator.ts).  A report that says passed is of a run in which no step
\* ended badly and nothing is false that the scenario asserts as an error (generator.ts).
VerdictsAreRight ==
  LET own(a) == {r \in Range(input.steps) : r.stepId = a.stepId}
      right(a) ==
        CASE a.type = "provider-call-order" ->
               inOrder(a, input.providerCalls) /\ (a.exact => Len(a.sequence) = Len(input.providerCalls))
          [] a.type = "step-passed" ->
               \E r \in own(a) : r.status = "PASSED" /\ \A q \in own(a) : q.attempt <= r.attempt
          [] OTHER -> evaluateDefinition(a, input)
  IN /\ kind = "snapshot" /\ stage = "done" => \A a \in Assertions : output[1][a] = right(a)
     /\ kind = "snapshot" /\ stage = "reported" /\ output[2].passed =>
          /\ right(output[1]) \/ output[1].severity = "warning"
          /\ \A r \in Range(input.steps) : r.status = "PASSED" \/ \E q \in Range(input.steps) :
                                              q.stepId = r.stepId /\ q.attempt > r.attempt
=============================================================================
