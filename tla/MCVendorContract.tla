-------------------------- MODULE MCVendorContract --------------------------
(* A vendor that fails after two calls and recovers after one, with a case *)
(* for every kind of sequence, one with effects, and the fallback; and     *)
(* suites whose second case resets the runtime or goes on from the first,  *)
(* with expectations of every kind, met and not met.                       *)
EXTENDS VendorContract

MCTransitions == <<[from |-> "healthy", to |-> "unavailable", atLeast |-> 2],
                   [from |-> "healthy", to |-> "limited", atLeast |-> 1],
                   [from |-> "unavailable", to |-> "healthy", atLeast |-> 1]>>
MCStateDefinition ==
  [s \in {"healthy", "unavailable", "limited"} |->
     [override |-> s = "unavailable", delays |-> s = "limited"]]
Quiet == [setState |-> "none", mutations |-> <<>>]
Increment == [setState |-> "none", mutations |-> <<[operation |-> "increment", value |-> 1]>>]
Forget == [setState |-> "healthy", mutations |-> <<[operation |-> "delete", value |-> 0]>>]
Fill == [setState |-> "unavailable", mutations |-> <<[operation |-> "set", value |-> 5]>>]
MCPlan == [case \in {"cycling", "holding", "ending", "unmatched-request"} |->
  CASE case = "cycling" ->
         [effects |-> Increment, onExhausted |-> "cycle", steps |-> <<Quiet, Fill>>,
          delay |-> TRUE]
    [] case = "holding" ->
         [effects |-> Quiet, onExhausted |-> "repeat-last", steps |-> <<Quiet, Increment>>,
          delay |-> FALSE]
    [] case = "ending" ->
         [effects |-> Forget, onExhausted |-> "terminal", steps |-> <<Fill>>,
          delay |-> FALSE]
    [] case = "unmatched-request" ->
         [effects |-> Quiet, onExhausted |-> "none", steps |-> <<>>,
          delay |-> FALSE]]

Ask(request) == [request |-> request, status |-> "any", transportError |-> FALSE, matchedCase |-> "any",
                 index |-> -1, before |-> "any", after |-> "any"]
ContractCase(resetBefore, steps) ==
  [resetBefore |-> resetBefore, steps |-> steps, state |-> "any", store |-> -1, total |-> -1, absent |-> {},
   ordered |-> <<>>]
First == [ContractCase(TRUE, <<[Ask("cycling") EXCEPT !.status = "declared", !.index = 0],
                               [Ask("cycling") EXCEPT !.before = "limited", !.after = "unavailable"]>>)
            EXCEPT !.store = 5, !.total = 2, !.absent = {"holding"}]
Expecting(step) ==
  {[step EXCEPT !.index = n] : n \in 0..1} \cup {[step EXCEPT !.before = s] : s \in {"healthy", "unavailable"}}
  \cup {[step EXCEPT !.after = s] : s \in {"healthy", "limited"}} \cup {[step EXCEPT !.transportError = TRUE]}
  \cup {[step EXCEPT !.status = s] : s \in {"declared", "override"}}
  \cup {[step EXCEPT !.matchedCase = c] : c \in {"holding", "ending"}}
Second(resetBefore, step) == [ContractCase(resetBefore, <<step>>) EXCEPT !.ordered = <<step.request>>]
MCSuites ==
  {<<First, Second(resetBefore, step)>> : resetBefore \in BOOLEAN,
     step \in UNION {Expecting(Ask(request)) : request \in {"cycling", "holding"}}}
  \cup {<<[First EXCEPT !.state = state], Second(FALSE, Ask("ending"))>> : state \in {"healthy", "unavailable"}}
  \cup {<<[First EXCEPT !.total = 3, !.absent = {"cycling"}]>>, <<Second(FALSE, Ask("unmatched-request"))>>}
=============================================================================
