---------------------------- MODULE VendorCompiler ----------------------------
(***************************************************************************)
(* compileVendorBundle (vendor-compiler/src): the resources, scripts,      *)
(* stores and the source map that are generated from an execution model,   *)
(* and how Imposter answers a request from them.                           *)
(*                                                                         *)
(* Paths are sequences of segments, texts of values sequences of letters.  *)
(* A pattern is [start, end, atoms]: its anchors and, letter by letter,    *)
(* whether the letter is meant literally; the letter "." otherwise stands  *)
(* for any.                                                                *)
(***************************************************************************)
EXTENDS VendorPackage
-----------------------------------------------------------------------------
(* compileRequestMatchers.                                                 *)

literal(text) == [k \in DOMAIN text |-> [letter |-> text[k], any |-> FALSE]]
asPattern(text) == [k \in DOMAIN text |-> [letter |-> text[k], any |-> text[k] = "."]]
longForm(operator, start, atoms, end) == [operator |-> operator, start |-> start, atoms |-> atoms, end |-> end]

\* Mutant: a prefix is put into the pattern as it stands.
escapeNothing(text) == asPattern(text)

\* What a letter means in a pattern is taken from it.
escapeRegex(text) == literal(text)

Supported == {"equals", "notEquals", "present", "absent", "matchesRegex", "startsWith", "endsWith", "contains"}

compileMatchExpression(e) ==
  CASE e.operator = "equals" -> longForm("EqualTo", TRUE, literal(e.value), TRUE)
    [] e.operator = "notEquals" -> longForm("NotEqualTo", TRUE, literal(e.value), TRUE)
    [] e.operator = "present" -> longForm("Exists", FALSE, <<>>, FALSE)
    [] e.operator = "absent" -> longForm("NotExists", FALSE, <<>>, FALSE)
    [] e.operator = "matchesRegex" -> longForm("Matches", FALSE, asPattern(e.value), FALSE)
    [] e.operator = "startsWith" -> longForm("Matches", TRUE, escapeRegex(e.value), FALSE)
    [] e.operator = "endsWith" -> longForm("Matches", FALSE, escapeRegex(e.value), TRUE)
    [] e.operator = "contains" -> longForm("Contains", FALSE, literal(e.value), FALSE)

\* A matcher goes to a part of the request; of the body, the raw text and JSON paths.
locationSupported(e) ==
  \/ e.location \in {"path", "query", "header", "form", "json"}
  \/ e.location = "body" /\ e.name = "raw"

compileRequestMatchers(c) ==
  {[location |-> e.location, name |-> e.name, test |-> compileMatchExpression(e)]
     : e \in {e \in c.when : e.operator \in Supported /\ locationSupported(e)}}
matcherIssues(c) ==
  {<<"unsupported-matcher", e.location>> : e \in {e \in c.when : e.operator \notin Supported \/ ~locationSupported(e)}}
-----------------------------------------------------------------------------
(* What is refused.                                                        *)

stepsOf(c) == Range(c.sequence)
effectsOf(c) == {c.effects} \cup {step.effects : step \in stepsOf(c)}

validateTransportFaults(package) ==
  {<<"unsupported-fault", c.id>> : c \in {c \in casesOf(package) :
     "connection-reset" \in {c.transport} \cup {step.transport : step \in stepsOf(c)}}}

validateStateTargets(package) ==
  {<<"invalid-state-target", c.id>> : c \in {c \in casesOf(package) :
     \E e \in effectsOf(c) : e.setState # "" /\ e.setState \notin DOMAIN package.states}}

validateRuntimeImage(image) == IF image = "with spaces" THEN {<<"invalid-runtime-image", "">>} ELSE {}

\* Transitions, sequences and effects of a case need scripts; effects of a step come with one.
requiresStatefulExecution(package) ==
  \/ package.transitions # <<>>
  \/ \E c \in casesOf(package) : c.sequence # <<>> \/ c.effects.declared

\* One store for each id that a case or a step of a sequence changes.
collectUserStoreIds(package) == UNION {e.stores : e \in UNION {effectsOf(c) : c \in casesOf(package)}}
-----------------------------------------------------------------------------
(* Resources.                                                              *)

NoScript == <<>>
NoAnswer == [status |-> 0, file |-> "", delay |-> 0, fail |-> FALSE]
NoSource == [operationId |-> 0, caseId |-> ""]

\* An override of the initial state takes the place of every response.
compileStaticResponse(response, state) ==
  LET effective == IF state.override # NoResponse THEN state.override ELSE response
  IN [status |-> effective.status, file |-> effective.body, fail |-> FALSE,
      delay |-> IF effective.delay > 0 THEN effective.delay ELSE state.delay]

compileStaticTransportFault(c, state) ==
  IF state.override # NoResponse THEN compileStaticResponse(state.override, state)
  ELSE [status |-> 0, file |-> "", fail |-> TRUE, delay |-> IF c.transport = "timeout" THEN 30 ELSE 0]

\* The plan of a script: what it refers to, by name.
renderStatefulCaseScript(package, operationId, c) ==
  [name |-> <<operationId, c.id>>,
   stores |-> UNION {e.stores : e \in effectsOf(c)},
   states |-> DOMAIN package.states \cup {package.initialState} \cup ({e.setState : e \in effectsOf(c)} \ {""}),
   contents |-> {r.body : r \in {c.respond, c.terminalResponse} \cup {step.respond : step \in stepsOf(c)}
                             \cup {package.states[s].override : s \in DOMAIN package.states}} \ {""}]

joinHttpPath(base, path) == base \o path

compileCaseResource(package, operation, c) ==
  LET stateful == requiresStatefulExecution(package)
      state == package.states[package.initialState]
  IN [kind |-> "case", path |-> joinHttpPath(package.basePath, operation.route.path), wild |-> FALSE,
      method |-> operation.route.method, matchers |-> compileRequestMatchers(c), open |-> FALSE,
      source |-> [operationId |-> operation.id, caseId |-> c.id],
      script |-> IF stateful THEN <<operation.id, c.id>> ELSE NoScript,
      response |-> IF stateful THEN NoAnswer
                   ELSE IF c.respond # NoResponse THEN compileStaticResponse(c.respond, state)
                   ELSE compileStaticTransportFault(c, state)]

unmatchedCase(package) ==
  [id |-> "unmatched-request", respond |-> package.unmatchedRequest, terminalResponse |-> NoResponse,
   transport |-> "none", sequence |-> <<>>, effects |-> NoEffects]

createPermittedSystemResource(method, path, wild) ==
  [kind |-> "system", path |-> path, wild |-> wild, method |-> method, matchers |-> {}, open |-> TRUE,
   source |-> NoSource, script |-> NoScript, response |-> NoAnswer]

\* Behind security the status of the runtime stays open, and with scripts its stores.
systemResources(package) ==
  IF package.authentication = <<>> THEN <<>>
  ELSE <<createPermittedSystemResource("GET", <<"system", "status">>, FALSE)>>
       \o (IF requiresStatefulExecution(package)
           THEN <<createPermittedSystemResource("", <<"system", "store">>, TRUE)>> ELSE <<>>)

caseResources(package, model) ==
  FlattenSeq([k \in DOMAIN model.operations |->
    [n \in DOMAIN model.operations[k].cases |->
       compileCaseResource(package, model.operations[k], model.operations[k].cases[n])]])

\* The base path and everything under it.
fallbackResources(package) ==
  LET fallback(wild) ==
        [kind |-> "unmatched", path |-> package.basePath, wild |-> wild, method |-> "", matchers |-> {},
         open |-> FALSE, source |-> NoSource,
         script |-> IF requiresStatefulExecution(package) THEN <<0, "unmatched-request">> ELSE NoScript,
         response |-> IF requiresStatefulExecution(package) THEN NoAnswer
                      ELSE compileStaticResponse(package.unmatchedRequest, package.states[package.initialState])]
  IN IF package.basePath = <<>> THEN <<fallback(TRUE)>> ELSE <<fallback(FALSE), fallback(TRUE)>>
-----------------------------------------------------------------------------
(* The bundle.                                                             *)

caseIndex(file, caseId) == CHOOSE k \in DOMAIN file.cases : file.cases[k].id = caseId

\* One entry for every resource but the stores': where in which file it comes from.
sourceMapEntry(package, resources, k) ==
  LET r == resources[k]
      file == CHOOSE f \in Range(operationsOf(package)) : f.operationId = r.source.operationId
  IN [resource |-> k, source |-> r.source, script |-> r.script,
      pointer |-> IF r.kind = "case" THEN caseIndex(file, r.source.caseId) ELSE 0]

scriptsOf(package, model) ==
  IF ~requiresStatefulExecution(package) THEN {}
  ELSE {renderStatefulCaseScript(package, 0, unmatchedCase(package))}
       \cup UNION {{renderStatefulCaseScript(package, o.id, c) : c \in Range(o.cases)} : o \in Range(model.operations)}

compileIssues(package, image) ==
       validateRuntimeImage(image) \cup validateTransportFaults(package) \cup validateStateTargets(package)
  \cup UNION {matcherIssues(c) : c \in casesOf(package)}

\* normalizeMutation and normalizeResponse throw at what the layout and the assets lack.
scriptThrows(package, model) ==
  \E s \in scriptsOf(package, model) :
    ~(s.stores \subseteq collectUserStoreIds(package) /\ s.contents \subseteq collectAssetReferences(package))

compileVendorBundle(package, model) ==
  LET resources == systemResources(package) \o caseResources(package, model) \o fallbackResources(package)
  IN [resources |-> resources,
      sourceMap |-> {sourceMapEntry(package, resources, k) :
                       k \in {k \in DOMAIN resources : ~(resources[k].kind = "system" /\ resources[k].wild)}},
      scripts |-> scriptsOf(package, model),
      assets |-> collectAssetReferences(package),
      stores |-> IF requiresStatefulExecution(package) THEN collectUserStoreIds(package) ELSE {},
      secured |-> package.authentication # <<>>]
-----------------------------------------------------------------------------
(* Imposter, as the compiler uses it: the first resource that fits.        *)

fits(atoms, value, from) ==
  /\ from + Len(atoms) - 1 <= Len(value)
  /\ \A k \in DOMAIN atoms : atoms[k].any \/ atoms[k].letter = value[from + k - 1]

holds(test, present, value) ==
  CASE test.operator = "Exists" -> present
    [] test.operator = "NotExists" -> ~present
    [] test.operator = "NotEqualTo" -> ~(present /\ Len(value) = Len(test.atoms) /\ fits(test.atoms, value, 1))
    [] OTHER -> /\ present
                /\ \E from \in 1..(Len(value) + 1) :
                     /\ fits(test.atoms, value, from) /\ (test.start => from = 1)
                     /\ test.end => from + Len(test.atoms) = Len(value) + 1

resourceFits(r, request) ==
  /\ IF r.wild THEN IsPrefix(r.path, request.path) ELSE r.path = request.path
  /\ r.method \in {"", request.method}
  /\ \A m \in r.matchers : holds(m.test, m.name \in DOMAIN request.fields,
                                 IF m.name \in DOMAIN request.fields THEN request.fields[m.name] ELSE <<>>)

\* Security denies what carries no valid credential, but for the resources that are open.
imposter(bundle, request) ==
  LET fitting == {k \in DOMAIN bundle.resources : resourceFits(bundle.resources[k], request)}
      r == bundle.resources[CHOOSE k \in fitting : \A j \in fitting : k <= j]
  IN IF fitting = {} THEN [kind |-> "none", source |-> NoSource, response |-> NoAnswer]
     ELSE IF bundle.secured /\ ~r.open /\ ~request.credential
          THEN [kind |-> "denied", source |-> NoSource, response |-> NoAnswer]
     ELSE [kind |-> r.kind, source |-> r.source, response |-> r.response]
=============================================================================
