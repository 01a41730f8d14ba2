----------------------------- MODULE MCAuthoring -----------------------------
(* A sound package, scenario, site and record of each kind, and these with  *)
(* every change of one or two of their parts.                               *)
EXTENDS Authoring

ok(status) == [status |-> status, body |-> "", delay |-> 0]
Case(id, priority, when, status) ==
  [id |-> id, priority |-> priority, when |-> when, respond |-> ok(status), transport |-> "none",
   sequence |-> <<>>, terminalResponse |-> NoResponse, effects |-> NoEffects]
When(operator, value) == {[location |-> "header", name |-> "h", operator |-> operator, value |-> value]}
Values == {<<"x">>, <<".">>, <<"x", ".">>, <<"x", "y">>}
File(id, path, cases) ==
  [valid |-> TRUE, operationId |-> id, route |-> [path |-> path, method |-> "POST"], cases |-> cases]

Key(sensitive) == [what |-> "key", sensitive |-> sensitive]
Index == [what |-> "index", sensitive |-> FALSE]
Thing(what, host, slash, octets) == [what |-> what, host |-> host, slash |-> slash, octets |-> octets]
Mail(top) == Thing("email", <<"mail", top>>, FALSE, <<0, 0, 0, 0>>)
Host(top, slash) == Thing("host", <<"api", top>>, slash, <<0, 0, 0, 0>>)
Ip(octets) == Thing("ip", <<"">>, FALSE, octets)
Leaf(path, text, long, synthetic) == [path |-> path, text |-> text, long |-> long, synthetic |-> synthetic]
Text(leaf) == [name |-> "vendor", extension |-> "yaml", parses |-> TRUE, raw |-> <<>>, leaves |-> {leaf}]
Things == {Mail("test"), Mail("real"), Host("example", FALSE), Host("real", FALSE), Host("real", TRUE),
           Host("json", FALSE), Ip(<<127, 1, 1, 1>>), Ip(<<192, 0, 2, 7>>), Ip(<<192, 1, 2, 7>>)}
Leaves ==
  {Leaf(<<Key(FALSE)>>, <<s, t>>, FALSE, FALSE) : s, t \in Things}
  \cup {Leaf(path, <<>>, long, synthetic) : long, synthetic \in BOOLEAN,
          path \in {<<Key(TRUE)>>, <<Key(TRUE), Index>>, <<Key(TRUE), Key(FALSE)>>, <<Index>>}}

Package(cases) ==
  [vendorFile |-> TRUE, systemFile |-> TRUE,
   operationFiles |-> <<File(2, <<"status">>, <<Case("any", 0, {}, 204)>>), File(1, <<"pay">>, cases)>>,
   states |-> [s \in {"up", "down"} |-> [override |-> IF s = "up" THEN NoResponse ELSE ok(503), delay |-> 0]],
   initialState |-> "up", transitions |-> <<>>, authentication |-> <<>>, unmatchedRequest |-> ok(404),
   redactsAuthorization |-> TRUE, files |-> [r \in {"kept", "lost"} |-> IF r = "kept" THEN "file" ELSE "missing"],
   basePath |-> <<"v1">>, image |-> "image", texts |-> {Text(Leaf(<<Key(FALSE)>>, <<>>, FALSE, FALSE))}]
Cases(operator, value, low, high) ==
  <<Case("any", 0, {}, 200), Case("first", low, When(operator, value), 201),
    Case("second", high, When("startsWith", <<"x">>), 202)>>
Base == Package(Cases("contains", <<"x">>, 1, 2))

Step(effects, transport, body) ==
  [respond |-> [ok(200) EXCEPT !.body = body], transport |-> transport, effects |-> effects]
Effects(state, stores) == [declared |-> TRUE, setState |-> state, stores |-> stores]
WithCase(p, field, value) ==
  [p EXCEPT !.operationFiles[2].cases[2] =
     [f \in DOMAIN @ |-> IF f = field THEN value ELSE @[f]]]
Changes == {"none", "vendor", "system", "operation", "both operations", "operation id", "case id", "initial",
            "starts down", "transition", "lost state", "secured", "privacy", "no base", "image", "unmatched body",
            "kept body", "lost body", "timeout", "reset", "sequence", "sequence reset", "effects", "lost effects",
            "cookie", "greater", "raw", "raw notes", "broken notes"}
Change(p, c) ==
  CASE c = "none" -> p
    [] c = "vendor" -> [p EXCEPT !.vendorFile = FALSE]
    [] c = "system" -> [p EXCEPT !.systemFile = FALSE]
    [] c = "operation" -> [p EXCEPT !.operationFiles[1].valid = FALSE]
    [] c = "both operations" -> [p EXCEPT !.operationFiles[1].valid = FALSE, !.operationFiles[2].valid = FALSE]
    [] c = "operation id" -> [p EXCEPT !.operationFiles[1].operationId = 1]
    [] c = "case id" -> WithCase(p, "id", "any")
    [] c = "initial" -> [p EXCEPT !.initialState = "lost"]
    [] c = "starts down" -> [p EXCEPT !.initialState = "down"]
    [] c = "transition" -> [p EXCEPT !.transitions = <<[from |-> "up", to |-> "down"]>>]
    [] c = "lost state" -> [p EXCEPT !.transitions = <<[from |-> "up", to |-> "lost"]>>]
    [] c = "secured" -> [p EXCEPT !.authentication = <<[onFailure |-> ok(401)]>>]
    [] c = "privacy" -> [p EXCEPT !.redactsAuthorization = FALSE]
    [] c = "no base" -> [p EXCEPT !.basePath = <<>>]
    [] c = "image" -> [p EXCEPT !.image = "with spaces"]
    [] c = "unmatched body" -> [p EXCEPT !.unmatchedRequest.body = "kept"]
    [] c = "kept body" -> [p EXCEPT !.operationFiles[2].cases[1].respond.body = "kept"]
    [] c = "lost body" -> [p EXCEPT !.operationFiles[2].cases[1].respond.body = "lost"]
    [] c = "timeout" -> WithCase(WithCase(p, "transport", "timeout"), "respond", NoResponse)
    [] c = "reset" -> WithCase(WithCase(p, "transport", "connection-reset"), "respond", NoResponse)
    [] c = "sequence" -> WithCase(p, "sequence", <<Step(Effects("down", {"orders"}), "none", "kept")>>)
    [] c = "sequence reset" -> WithCase(p, "sequence", <<Step(NoEffects, "connection-reset", "")>>)
    [] c = "effects" -> WithCase(p, "effects", Effects("", {"carts"}))
    [] c = "lost effects" -> WithCase(p, "effects", Effects("lost", {}))
    [] c = "cookie" -> [p EXCEPT !.operationFiles[2].cases[3].when = {[e EXCEPT !.location = "cookie"] : e \in @}]
    [] c = "greater" -> [p EXCEPT !.operationFiles[2].cases[3].when = {[e EXCEPT !.operator = "greaterThan"] : e \in @}]
    [] c = "raw" -> [p EXCEPT !.texts = {[t EXCEPT !.raw = <<[what |-> "private-key"]>>, !.parses = FALSE] : t \in @}]
    [] c = "raw notes" -> [p EXCEPT !.texts = {[t EXCEPT !.raw = <<[what |-> "private-key"]>>, !.extension = "txt"] : t \in @}]
    [] c = "broken notes" -> [p EXCEPT !.texts = {[t EXCEPT !.parses = FALSE] : t \in @}]
MCVendorPackages ==
       {Package(Cases(operator, value, low, high)) : operator \in Supported, value \in Values, low, high \in 0..1}
  \cup {Change(Change(Base, c), d) : c, d \in Changes}
  \cup {[Base EXCEPT !.texts = {Text(leaf)}] : leaf \in Leaves}

Fields == {[n \in {} |-> <<>>]} \cup {[n \in {"h"} |-> v] : v \in {<<"x">>, <<"y">>, <<"x", "y">>, <<"y", "x", ".">>}}
MCRequests == [path : {<<"v1", "pay">>, <<"v1", "status">>, <<"v1">>, <<"pay">>, <<"system", "status">>},
               method : {"GET", "POST"}, fields : Fields, credential : BOOLEAN]
-----------------------------------------------------------------------------
Task(id, form, name) == [id |-> id, kind |-> "task", use |-> "", value |-> [form |-> form, name |-> name],
                         steps |-> <<>>, otherwise |-> <<>>]
Use(id, fragment) == [Task(id, "literal", "") EXCEPT !.kind = "fragment", !.use = fragment]
Group(id, steps) == [Task(id, "literal", "") EXCEPT !.kind = "group", !.steps = steps]
Choice(id, steps, otherwise) ==
  [Task(id, "literal", "") EXCEPT !.kind = "condition", !.steps = steps, !.otherwise = otherwise]
Plain(id) == Task(id, "literal", "")
RunSteps == {Plain("a"), Task("a", "exact", "v"), Task("b", "text", "v"), Use("u", "f"), Use("a", "f"),
             Use("u2", "f"), Use("u", "lost"), Group("a", <<Task("a", "text", "v"), Use("u", "g")>>),
             Group("b", <<Plain("a"), Plain("a")>>), Choice("c", <<Plain("a")>>, <<Plain("a"), Use("u", "f")>>)}
Fragments == [f : {<<Plain("a")>>, <<Use("u", "g"), Plain("b")>>, <<Group("b", <<Use("u", "f")>>)>>},
              g : {<<Task("a", "exact", "w")>>, <<Plain("a"), Use("u", "f")>>, <<Plain("a")>>}]
Variables == {[v |-> Scenario!Literal], [v |-> Scenario!Object],
              [v |-> [form |-> "exact", name |-> "w"], w |-> Scenario!Literal],
              [v |-> [form |-> "text", name |-> "lost"], w |-> Scenario!Object]}
Counted(id, equals, minimum, maximum) ==
  [id |-> id, type |-> "count", operator |-> "", equals |-> equals, minimum |-> minimum, maximum |-> maximum]
Observed(id, operator, equals) ==
  [Counted(id, equals, -1, -1) EXCEPT !.type = "observation", !.operator = operator]
AssertionLists ==
  {<<>>, <<Counted("x", 1, -1, -1), Observed("y", "equals", 1)>>, <<Counted("x", -1, 1, 1), Observed("x", "present", -1)>>}
  \cup {<<Counted("x", e, lo, hi)>> : e, lo, hi \in {-1}} \cup {<<Counted("x", -1, lo, hi)>> : lo, hi \in {-1, 0, 2}}
  \cup {<<Observed("x", operator, e)>> : operator \in {"present", "absent", "equals"}, e \in {-1, 0}}
Config(run, assert, fragments, variables, assertions) ==
  [phases |-> [run |-> run, assert |-> assert], fragments |-> fragments, variables |-> variables,
   assertions |-> assertions]
Runs == {<<s>> : s \in RunSteps} \cup {<<s, t>> : s, t \in RunSteps}
MCScenarios ==
       {Config(run, <<>>, fragments, variables, <<>>) : run \in Runs, fragments \in Fragments, variables \in Variables}
  \cup {Config(<<Plain("a")>>, <<Plain(id)>>, [f |-> <<>>], [v |-> Scenario!Literal], list)
          : id \in {"a", "system-assertions"}, list \in AssertionLists}
-----------------------------------------------------------------------------
Css(by) == [by |-> by, name |-> "main"]
Click(selector) == [id |-> "click", use |-> "", action |-> "click", selector |-> selector, fields |-> {}, variable |-> ""]
Fill(fields, variable) == [Click([by |-> "testId", name |-> "name"]) EXCEPT
                             !.id = "fill", !.action = "fill", !.fields = fields, !.variable = variable]
Named(fragment) == [Click(Browser!NoSelector) EXCEPT !.id = "use", !.use = fragment, !.action = ""]
BrowserSteps == {Click([by |-> "testId", name |-> t]) : t \in {"send", "lost", "accept"}}
                \cup {Click(Css("css")), Click(Css("positional")), Click(Browser!NoSelector)}
                \cup {Fill(fields, variable) : fields \in {{}, {"value"}}, variable \in {"", "site", "mine", "lost"}}
                \cup {Named("shared"), Named("lost")}
Block(id, type, testId, form, href) ==
  [id |-> id, type |-> type, testId |-> testId, formTestIds |-> form, fields |-> form, href |-> href]
Site(consent, form, href) ==
  [valid |-> TRUE, id |-> "shop", consent |-> consent, variables |-> {"site"},
   pages |-> <<[path |-> "home", blocks |-> <<Block("go", "link", "go", <<>>, href)>>],
               [path |-> "form", blocks |-> <<Block("form", "form", "", form, "relative")>>]>>]
Journey(allow, steps, persona, start) ==
  [id |-> "buy", valid |-> TRUE, persona |-> persona, startPath |-> start, allowCssFallback |-> allow,
   steps |-> steps, fixtures |-> {"synthetic"}]
Customer(site, journeys, shared) ==
  [customerValid |-> TRUE, customer |-> "acme", site |-> site,
   personas |-> <<[id |-> "ann", valid |-> TRUE, cookies |-> {"synthetic"}, origins |-> {"relative"},
                   variables |-> {"mine"}]>>,
   journeys |-> journeys, fragments |-> <<[id |-> "shared", valid |-> TRUE, steps |-> shared]>>]
Buy(allow, step) == <<Journey(allow, <<step, Named("shared")>>, "ann", "home")>>
Sites == {Site(consent, form, href) : consent \in BOOLEAN, href \in {"relative", "synthetic", "real"},
                                      form \in {<<"name", "send">>, <<"name", "name">>, <<"go", "send">>}}
Shop == Site(TRUE, <<"name", "send">>, "relative")
Sound == Customer(Shop, Buy(TRUE, Fill({"value"}, "mine")), <<Fill({"value"}, "site")>>)
MCBrowserPackages ==
       {Customer(Shop, Buy(allow, step), <<shared>>) : allow \in BOOLEAN, step, shared \in BrowserSteps}
  \cup {Customer(site, Buy(FALSE, Click([by |-> "testId", name |-> "send"])), <<>>) : site \in Sites}
  \cup {[Sound EXCEPT !.personas[1].cookies = {host}] : host \in {"relative", "synthetic", "real"}}
  \cup {[Sound EXCEPT !.journeys[1] = Journey(TRUE, @.steps, persona, start)]
          : persona \in {"ann", "bob"}, start \in {"home", "lost"}}
  \cup {[Sound EXCEPT !.journeys = @ \o @], [Sound EXCEPT !.customer = "shop"],
        [Sound EXCEPT !.customerValid = FALSE], [Sound EXCEPT !.fragments[1].valid = FALSE],
        [Sound EXCEPT !.journeys[1].fixtures = {"real"}], [Sound EXCEPT !.personas[1].origins = {"invalid"}]}
-----------------------------------------------------------------------------
Call(operation, status, at) ==
  [vendorId |-> "v", operationId |-> operation, caseId |-> IF status = 200 THEN "any" ELSE "down",
   statusCode |-> status, occurredAt |-> at]
Calls == {Call(operation, status, at) : operation \in {"a", "b"}, status \in {200, 500}, at \in 1..2}
Attempt(id, n, status) == [stepId |-> id, attempt |-> n, status |-> status]
Attempts == {Attempt("s", 1, status) : status \in {"PASSED", "FAILED"}}
            \X {Attempt("s", 2, status) : status \in {"PASSED", "FAILED"}}
Observation(type, value, rejected) ==
  [observationType |-> type, status |-> "FINAL", value |-> value, rejectedCount |-> rejected, failedCount |-> 0]
Record(calls, steps, observations, status) ==
  [providerCalls |-> calls, steps |-> steps, observations |-> observations,
   browserActions |-> <<[journeyId |-> "buy", stepId |-> "click", action |-> "click", status |-> "PASSED"],
                        [journeyId |-> "buy", stepId |-> "fill", action |-> "fill", status |-> status]>>,
   artifacts |-> <<[kind |-> "trace"]>>]
Observations == {Observation("target", value, 0) : value \in 0..1}
                \cup {Observation("gateway-ledger-summary", -1, rejected) : rejected \in 0..1}
MCSnapshots ==
       {Record(calls, <<>>, <<>>, "PASSED") : calls \in UNION {[1..n -> Calls] : n \in 0..3}}
  \cup {Record(<<>>, steps, observations, status) : status \in {"PASSED", "FAILED"},
          observations \in {<<>>} \cup {<<o>> : o \in Observations} \cup {<<o, p>> : o, p \in Observations},
          steps \in UNION {{<<>>, <<x[1]>>, <<x[2]>>, x, <<x[2], x[1]>>,
                            <<Attempt("t", 3, "FAILED"), x[2], x[1]>>} : x \in Attempts}}

Selector(operation, case, status) ==
  [vendorId |-> "v", operationId |-> operation, caseId |-> case, statusCode |-> status]
Selectors == {Selector("a", "", 0), Selector("b", "down", 0), Selector("", "", 200)}
Bounds == {<<1, -1, -1>>, <<-1, 1, 2>>, <<-1, -1, -1>>}
AllAssertions ==
       {[type |-> "provider-call-order", sequence |-> sequence, exact |-> exact]
          : exact \in BOOLEAN, sequence \in {<<s>> : s \in Selectors} \cup {<<s, t>> : s, t \in Selectors}}
  \cup {[type |-> "provider-call-count", selector |-> Selector("", "", 500), equals |-> b[1], minimum |-> b[2],
         maximum |-> b[3]] : b \in Bounds}
  \cup {[type |-> "observation-count", observationType |-> "target", status |-> "", equals |-> b[1],
         minimum |-> b[2], maximum |-> b[3]] : b \in Bounds}
  \cup {[type |-> "observation", observationType |-> "target", status |-> "FINAL", latest |-> latest,
         operator |-> operator, equals |-> 1] : latest \in BOOLEAN,
          operator \in {"present", "absent", "equals", "not-equals", "greater-than-or-equal", "less-than-or-equal"}}
  \cup {[type |-> "step-passed", stepId |-> "s"], [type |-> "browser-journey-passed", journeyId |-> "buy"],
        [type |-> "browser-action", journeyId |-> "buy", stepId |-> "", action |-> "fill", expectedStatus |-> "PASSED", minimum |-> 1],
        [type |-> "artifact-present", kind |-> "trace", minimum |-> 1], [type |-> "no-unexpected-external-calls"]}
MCAssertions == {a @@ [severity |-> IF a.type = "observation" THEN "warning" ELSE "error"] : a \in AllAssertions}
=============================================================================
