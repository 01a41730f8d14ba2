--------------------------- MODULE ScenarioResolver ---------------------------
(***************************************************************************)
(* resolveScenario (scenario-engine/src/resolver.ts): the validation of a  *)
(* scenario, the expansion of its fragments and the substitution of its    *)
(* variables.                                                              *)
(*                                                                         *)
(* A step is [id, kind, use, value, steps, otherwise].  kind is "task",    *)
(* "fragment", "group" (parallel or repeat) or "condition"; value is the   *)
(* one string of the step that may hold variables: [form, name], form      *)
(* "literal", "exact" for "{{name}}" and "text" for "... {{name}} ...".    *)
(* Variables map names to "object" or to such strings.  A resolved id is   *)
(* the path of names that the code joins with dots, which no name holds.   *)
(***************************************************************************)
EXTENDS Integers, Sequences, FiniteSets, SequencesExt

Literal == [form |-> "literal", name |-> ""]
Object == [form |-> "object", name |-> ""]
Failed == [form |-> "failed", name |-> ""]

\* One pass: an unknown variable throws, and an object in the midst of a text.
substituteValue(value, variables) ==
  IF value.form \notin {"exact", "text"} THEN value
  ELSE IF value.name \notin DOMAIN variables THEN Failed
  ELSE LET replacement == variables[value.name]
       IN IF value.form = "exact" THEN replacement
          ELSE CASE replacement.form = "object" -> Failed
                 [] replacement.form = "literal" -> Literal
                 [] OTHER -> [replacement EXCEPT !.form = "text"]

\* The whole step is substituted, and so everything in it once more than the step around it.
RECURSIVE substituteStep(_, _)
substituteStep(step, variables) ==
  [step EXCEPT !.value = substituteValue(@, variables),
               !.steps = [k \in DOMAIN @ |-> substituteStep(@[k], variables)],
               !.otherwise = [k \in DOMAIN @ |-> substituteStep(@[k], variables)]]

\* A failure anywhere is the failure of the resolution.
RECURSIVE Sound(_)
Sound(steps) == \A k \in DOMAIN steps : /\ steps[k].value # Failed /\ steps[k].kind # "unknown"
                                        /\ Sound(steps[k].steps) /\ Sound(steps[k].otherwise)

Unknown(path) == [id |-> path, kind |-> "unknown", use |-> "", value |-> Literal,
                  steps |-> <<>>, otherwise |-> <<>>]

\* Mutant: a fragment may not be used twice, although the uses do not nest.
RECURSIVE expandOnce(_, _, _, _, _)
expandOnce(steps, fragments, variables, stack, prefix) ==
  FlattenSeq([k \in DOMAIN steps |->
    LET step == steps[k]
        path == Append(prefix, step.id)
        used == {steps[j].use : j \in 1..(k - 1)} \ {""}
    IN IF step.kind = "fragment"
       THEN IF step.use \in stack \cup used \/ step.use \notin DOMAIN fragments THEN <<Unknown(path)>>
            ELSE expandOnce(fragments[step.use], fragments, variables, stack \cup {step.use}, path)
       ELSE LET mapped == substituteStep(step, variables)
                branch == IF step.kind = "condition" THEN Append(path, "then") ELSE path
            IN <<[mapped EXCEPT
                    !.id = path,
                    !.steps = expandOnce(mapped.steps, fragments, variables, stack, branch),
                    !.otherwise = expandOnce(mapped.otherwise, fragments, variables, stack,
                                             Append(path, "else"))]>>])

\* expand and resolveStep: a fragment takes the place of the step that uses it, unless it is
\* being expanded already; the steps of a step are expanded under its id.
RECURSIVE expand(_, _, _, _, _)
expand(steps, fragments, variables, stack, prefix) ==
  FlattenSeq([k \in DOMAIN steps |->
    LET step == steps[k]
        path == Append(prefix, step.id)
    IN IF step.kind = "fragment"
       THEN IF step.use \in stack \/ step.use \notin DOMAIN fragments THEN <<Unknown(path)>>
            ELSE expand(fragments[step.use], fragments, variables, stack \cup {step.use}, path)
       ELSE LET mapped == substituteStep(step, variables)
                branch == IF step.kind = "condition" THEN Append(path, "then") ELSE path
            IN <<[mapped EXCEPT
                    !.id = path,
                    !.steps = expand(mapped.steps, fragments, variables, stack, branch),
                    !.otherwise = expand(mapped.otherwise, fragments, variables, stack,
                                         Append(path, "else"))]>>])

\* The ids of the steps of one list differ, and of every list within it.
RECURSIVE uniqueIn(_)
uniqueIn(steps) ==
  /\ \A i, j \in DOMAIN steps : steps[i].id = steps[j].id => i = j
  /\ \A k \in DOMAIN steps : uniqueIn(steps[k].steps) /\ uniqueIn(steps[k].otherwise)

listsOf(config) == Range(config.phases) \cup {config.fragments[f] : f \in DOMAIN config.fragments}

validateUniqueStepIds(config) == \A steps \in listsOf(config) : uniqueIn(steps)

\* The fragments that a list of steps names, at any depth.
RECURSIVE namedIn(_)
namedIn(steps) ==
  UNION {{steps[k].use} \cup namedIn(steps[k].steps) \cup namedIn(steps[k].otherwise) : k \in DOMAIN steps} \ {""}

validateFragmentReferences(config) ==
  \A steps \in listsOf(config) : namedIn(steps) \subseteq DOMAIN config.fragments

validateUniqueAssertionIds(config) ==
  \A i, j \in DOMAIN config.assertions : config.assertions[i].id = config.assertions[j].id => i = j

\* A count needs a bound and bounds that can be met, a comparison needs a value; -1 is none.
validateAssertions(config) ==
  \A k \in DOMAIN config.assertions :
    LET a == config.assertions[k]
    IN /\ a.type = "count" => /\ {a.equals, a.minimum, a.maximum} # {-1}
                              /\ ~(a.minimum > a.maximum /\ a.maximum # -1)
       /\ a.type = "observation" => a.operator \in {"present", "absent"} \/ a.equals # -1

reservedIds(config) ==
  config.assertions = <<>> \/ \A k \in DOMAIN config.phases["assert"] :
                                config.phases["assert"][k].id # "system-assertions"

SystemAssertions == [id |-> <<"system-assertions">>, kind |-> "task", use |-> "", value |-> Literal,
                     steps |-> <<>>, otherwise |-> <<>>]

\* The phases with everything expanded; the assertions are evaluated by a last step of theirs.
resolvedPhases(config) ==
  [p \in DOMAIN config.phases |->
     expand(config.phases[p], config.fragments, config.variables, {}, <<>>)
       \o (IF p = "assert" /\ config.assertions # <<>> THEN <<SystemAssertions>> ELSE <<>>)]

valid(config) ==
  /\ validateUniqueStepIds(config) /\ validateFragmentReferences(config)
  /\ validateUniqueAssertionIds(config) /\ validateAssertions(config) /\ reservedIds(config)

resolveScenario(config) ==
  LET phases == resolvedPhases(config)
  IN IF valid(config) /\ \A p \in DOMAIN phases : Sound(phases[p])
     THEN [ok |-> TRUE, phases |-> phases]
     ELSE [ok |-> FALSE, phases |-> [p \in DOMAIN phases |-> <<>>]]
=============================================================================
