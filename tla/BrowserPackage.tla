---------------------------- MODULE BrowserPackage ----------------------------
(***************************************************************************)
(* loadBrowserPackage and resolveJourney (browser-config/src): what a      *)
(* browser package must satisfy, and the list of actions that a journey    *)
(* becomes.                                                                *)
(*                                                                         *)
(* The valid field of a document says whether its path stays inside the    *)
(* package and it could be read, parsed and matched to its schema.  A step *)
(* uses a fragment (use) or is an action with a selector [by, name], the   *)
(* names of the fields it gives and a variable in one of its strings.  A   *)
(* host is "relative", "synthetic", "real" or "invalid".                   *)
(***************************************************************************)
EXTENDS Integers, Sequences, FiniteSets, SequencesExt

NoSelector == [by |-> "none", name |-> ""]
Distinct(s) == Cardinality(Range(s)) = Len(s)
idsOf(s) == [k \in DOMAIN s |-> s[k].id]
-----------------------------------------------------------------------------
(* validateSemantics.                                                      *)

SelectorActions == {"click", "doubleClick", "hover", "fill", "select", "check", "uncheck", "submit",
                    "expectVisible", "expectHidden", "expectText", "expectAttribute"}

\* The fields without which an action cannot run.
requiredFields(action) ==
  CASE action = "navigate" -> {"path"}
    [] action = "fill" -> {"value"}
    [] action = "fillForm" -> {"values"}
    [] action = "select" -> {"option"}
    [] action = "wait" -> {"timeoutMs"}
    [] action \in {"waitForRequest", "waitForResponse", "expectRequest", "expectUrl"} -> {"url"}
    [] action = "waitForEvent" -> {"event"}
    [] action = "expectText" -> {"text"}
    [] action = "expectAttribute" -> {"attribute", "value"}
    [] action = "switchTab" -> {"tab"}
    [] OTHER -> {}

validateActionFields(step) == requiredFields(step.action) \subseteq step.fields

\* Mutant: the check of the CSS fallback is left to the journey that uses a fragment.
validateSelectorAnywhere(step, allowCssFallback, testIds) ==
  /\ step.selector.by = "testId" => step.selector.name \in testIds
  /\ step.selector.by \in {"css", "positional"} => step.selector.by # "positional"

\* A test id is one of the site's; CSS needs the journey's consent and is never positional.
validateSelector(step, allowCssFallback, testIds) ==
  /\ step.selector.by = "testId" => step.selector.name \in testIds
  /\ step.selector.by \in {"css", "positional"} => allowCssFallback /\ step.selector.by # "positional"

validateSteps(steps, allowCssFallback, fragmentIds, testIds) ==
  \A k \in DOMAIN steps :
    IF steps[k].use # "" THEN steps[k].use \in fragmentIds
    ELSE /\ steps[k].action \in SelectorActions => steps[k].selector # NoSelector
         /\ validateSelector(steps[k], allowCssFallback, testIds)
         /\ validateActionFields(steps[k])

\* The test ids of a block: its own and, in a form, those of its fields and its button.
collectBlockTestIds(block) == SelectSeq(<<block.testId>> \o block.formTestIds, LAMBDA t : t # "")

testIdsOf(site) ==
  (IF site.consent THEN <<"consent-banner", "accept", "reject">> ELSE <<>>)
  \o FlattenSeq([p \in DOMAIN site.pages |->
       FlattenSeq([b \in DOMAIN site.pages[p].blocks |-> collectBlockTestIds(site.pages[p].blocks[b])])])

validateSyntheticUrl(host) == host \in {"relative", "synthetic"}

validateSite(site) ==
  /\ Distinct([p \in DOMAIN site.pages |-> site.pages[p].path])
  /\ Distinct(testIdsOf(site))
  /\ \A page \in Range(site.pages) :
       /\ Distinct(idsOf(page.blocks))
       /\ \A block \in Range(page.blocks) : /\ Distinct(block.fields)
                                            /\ block.type = "link" => validateSyntheticUrl(block.href)

validatePersona(persona) ==
  /\ \A host \in persona.cookies : host = "synthetic"
  /\ \A host \in persona.origins : validateSyntheticUrl(host)

loaded(s) == SelectSeq(s, LAMBDA d : d.valid)

validateSemantics(package) ==
  LET journeys == loaded(package.journeys)
      personas == loaded(package.personas)
      fragments == loaded(package.fragments)
      fragmentIds == Range(idsOf(fragments))
      testIds == Range(testIdsOf(package.site))
  IN /\ Distinct(idsOf(personas)) /\ Distinct(idsOf(fragments)) /\ Distinct(idsOf(journeys))
     /\ \A persona \in Range(personas) : validatePersona(persona)
     /\ validateSite(package.site)
     /\ \A j \in Range(journeys) :
          /\ j.persona \in Range(idsOf(personas))
          /\ \E page \in Range(package.site.pages) : page.path = j.startPath
          /\ validateSteps(j.steps, j.allowCssFallback, fragmentIds, testIds) /\ Distinct(idsOf(j.steps))
          /\ \A host \in j.fixtures : validateSyntheticUrl(host)
     /\ \A f \in Range(fragments) :
          validateSteps(f.steps, FALSE, fragmentIds, testIds) /\ Distinct(idsOf(f.steps))
     /\ package.customer # package.site.id

\* Every document that the customer names must load: a fragment that does not is an issue, too.
loadBrowserPackage(package) ==
  /\ package.customerValid /\ package.site.valid
  /\ loaded(package.personas) = package.personas /\ loaded(package.journeys) = package.journeys
  /\ loaded(package.fragments) = package.fragments
  /\ validateSemantics(package)
-----------------------------------------------------------------------------
(* resolveJourney.                                                         *)

Broken == <<[id |-> "", use |-> "broken", action |-> "", selector |-> NoSelector, fields |-> {}, variable |-> ""]>>

\* The steps of fragments take the place of their uses; a fragment within itself throws.
RECURSIVE expandSteps(_, _, _)
expandSteps(steps, fragments, stack) ==
  FlattenSeq([k \in DOMAIN steps |->
    LET used == {f \in Range(fragments) : f.id = steps[k].use}
    IN IF steps[k].use = "" THEN <<steps[k]>>
       ELSE IF steps[k].use \in stack \/ used = {} THEN Broken
       ELSE expandSteps((CHOOSE f \in used : TRUE).steps, fragments, stack \cup {steps[k].use})])

byId(s, id) == CHOOSE x \in Range(s) : x.id = id

\* The variables of the persona hide those of the site.
resolveJourney(package, journeyId) ==
  LET journey == byId(package.journeys, journeyId)
      persona == byId(package.personas, journey.persona)
      variables == package.site.variables \cup persona.variables
      steps == expandSteps(journey.steps, package.fragments, {})
  IN [ok |-> \A k \in DOMAIN steps : steps[k].use = "" /\ steps[k].variable \in variables \cup {""},
      steps |-> steps]
=============================================================================
