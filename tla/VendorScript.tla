---------------------------- MODULE VendorScript ----------------------------
(***************************************************************************)
(* A stateful vendor runtime: the script that                              *)
(* vendor-compiler/src/stateful-script.ts generates for every case and for *)
(* the fallback, run by an Imposter container for each call, the stores it *)
(* keeps its state in, the reset that the runtime manager performs through *)
(* the store API, and the log from which the ledger is read.               *)
(*                                                                         *)
(* Imposter serves calls side by side and a script loads and saves single  *)
(* items, so that the steps of two calls interleave.                       *)
(***************************************************************************)
EXTENDS VendorLedger

CONSTANTS
  InitialState, Transitions,  \* the system model: a sequence of [from, to, atLeast]
  StateDefinition,  \* what a state does to the answers: [override, delays]
  Plan,        \* Plan[case]: [effects, onExhausted, steps, delay], steps a sequence of effects
  MaxCalls, MaxResets, MaxFailures,  \* bounds
  MaxOverlaps  \* bound: calls that arrive while something else is under way

VARIABLES
  currentState, counters, sequences, user,   \* the stores
  calls,       \* the calls that arrived: case, correlation, step and what its script holds
  correlated,  \* whether the client sends a correlation of its own with every call
  log,
  resetStep,   \* the store operations of a reset that are done (0: no reset under way)
  resets, failures, overlaps,
  disturbed,   \* something ran beside something else since the last clean reset
  epoch        \* the calls that arrived before the last clean reset

stores == <<currentState, counters, sequences, user>>
vars == <<stores, calls, correlated, log, resetStep, resets, failures, overlaps, disturbed, epoch>>

Case == DOMAIN Plan
State == {InitialState} \cup {Transitions[t].from : t \in DOMAIN Transitions}
           \cup {Transitions[t].to : t \in DOMAIN Transitions}
NoEffects == [setState |-> "none", mutations |-> <<>>]
Absent == 0      \* asNumber of an item that a store does not hold

\* createStorePreloadData; a reset replaces the stores by the same contents.
Init ==
  /\ currentState = InitialState
  /\ counters = [s \in State |-> Absent] /\ sequences = [c \in Case |-> Absent]
  /\ user = Absent
  /\ calls = <<>> /\ correlated \in BOOLEAN /\ log = <<>>
  /\ resetStep = 0 /\ resets = 0 /\ failures = 0 /\ overlaps = 0
  /\ disturbed = FALSE /\ epoch = 0
-----------------------------------------------------------------------------
(* The functions of the generated script.                                  *)

exhausted(plan, index) == index >= Len(plan.steps)

\* selectSequence: the index of the step that answers; Len(plan.steps) is the terminal response.
selectedIndex(plan, index) ==
  CASE plan.steps = <<>> -> NoIndex
    [] plan.steps # <<>> /\ ~exhausted(plan, index) -> index
    [] plan.steps # <<>> /\ exhausted(plan, index) ->
         CASE plan.onExhausted = "cycle" -> index % Len(plan.steps)
           [] plan.onExhausted = "repeat-last" -> Len(plan.steps) - 1
           [] plan.onExhausted = "terminal" -> index

\* selectSequence: the position it saves.
savedIndex(plan, index) ==
  IF plan.steps = <<>> THEN index
  ELSE IF plan.onExhausted = "cycle" THEN (index + 1) % Len(plan.steps)
  ELSE IF index < Len(plan.steps) - 1 THEN index + 1
  ELSE Len(plan.steps)

\* selectSequence: the effects of the step; neither a terminal response nor a plain case has any.
stepEffects(plan, index) ==
  IF index < Len(plan.steps) THEN plan.steps[index + 1] ELSE NoEffects

\* applyStoreMutation on one item; deleting it leaves what asNumber reads as zero.
applyStoreMutation(value, mutation) ==
  CASE mutation.operation = "delete" -> Absent
    [] mutation.operation = "increment" -> value + mutation.value
    [] mutation.operation = "set" -> mutation.value

applyMutations(value, mutations) == FoldLeft(applyStoreMutation, value, mutations)

\* A step's state over the case's.
explicitState(effects, step) == IF step.setState # "none" THEN step.setState ELSE effects.setState

\* applyState and applyResponse: the state's override replaces the selected behaviour, and
\* its default delay holds for a behaviour that declares none.
applyState(plan, state) ==
  CASE StateDefinition[state].override -> "override"
    [] ~StateDefinition[state].override /\ StateDefinition[state].delays /\ ~plan.delay -> "delayed"
    [] ~StateDefinition[state].override /\ (StateDefinition[state].delays => plan.delay) -> "declared"

\* The transitions out of a state that the request count reaches.
enabledTransitions(state, count) ==
  {t \in DOMAIN Transitions : Transitions[t].from = state /\ count >= Transitions[t].atLeast}

nextState(state, count, explicit) ==
  LET enabled == enabledTransitions(state, count)
  IN CASE explicit # "none" -> explicit
       [] explicit = "none" /\ enabled # {} ->
            Transitions[CHOOSE t \in enabled : \A u \in enabled : t <= u].to
       [] explicit = "none" /\ enabled = {} -> state
-----------------------------------------------------------------------------
(* A call, from its match marker to its summary.                           *)

Busy == \E c \in DOMAIN calls : calls[c].step # "done"
Event(kind, c, case, data, answer) ==
  [kind |-> kind, call |-> c, corr |-> calls[c].corr, case |-> case, data |-> data,
   answer |-> answer]
\* The case that a marker names: the unmatched marker none.
marked(case) == IF case = "unmatched-request" THEN "none" ELSE case
Goes(c, step) == calls' = [calls EXCEPT ![c].step = step]
otherwise == <<correlated, resetStep, resets, failures, overlaps, disturbed, epoch>>

\* Imposter matches a resource and writes its log line.
Arrive(case) ==
  LET beside == Busy \/ resetStep > 0
      corr == IF correlated THEN Len(calls) + 1 ELSE NoCorr
  IN /\ Len(calls) < MaxCalls
     /\ beside => overlaps < MaxOverlaps
     /\ overlaps' = overlaps + (IF beside THEN 1 ELSE 0)
     /\ disturbed' = (disturbed \/ beside)
     /\ calls' = Append(calls, [case |-> case, corr |-> corr, step |-> "matched",
                                state |-> InitialState, count |-> 0, index |-> 0, value |-> 0])
     /\ log' = Append(log, [kind |-> "match", call |-> Len(calls) + 1, corr |-> corr,
                            case |-> marked(case), data |-> NoData, answer |-> "none"])
     /\ UNCHANGED <<stores, correlated, resetStep, resets, failures, epoch>>

\* The script loads the current state and its counter.
LoadState(c) ==
  /\ calls[c].step = "matched"
  /\ calls' = [calls EXCEPT ![c].step = "loaded", ![c].state = currentState,
                            ![c].count = counters[currentState] + 1]
  /\ UNCHANGED <<stores, log, otherwise>>

\* It saves the counter and loads the position of its sequence.
CountRequest(c) ==
  /\ calls[c].step = "loaded"
  /\ counters' = [counters EXCEPT ![calls[c].state] = calls[c].count]
  /\ calls' = [calls EXCEPT ![c].step = "counted", ![c].index = sequences[calls[c].case]]
  /\ UNCHANGED <<currentState, sequences, user, log, otherwise>>

\* It saves the position, and its effects load the item they change.
SelectSequence(c) ==
  LET plan == Plan[calls[c].case]
  IN /\ calls[c].step = "counted"
     /\ sequences' = [sequences EXCEPT ![calls[c].case] = savedIndex(plan, calls[c].index)]
     /\ calls' = [calls EXCEPT ![c].step = "selected", ![c].value = user,
                               ![c].index = selectedIndex(plan, calls[c].index)]
     /\ UNCHANGED <<currentState, counters, user, log, otherwise>>

\* It saves the item and the next state, and writes the TESTY_STATE marker.
Settle(c) ==
  LET plan == Plan[calls[c].case]
      step == stepEffects(plan, calls[c].index)
      next == nextState(calls[c].state, calls[c].count, explicitState(plan.effects, step))
      mutations == plan.effects.mutations \o step.mutations
  IN /\ calls[c].step = "selected"
     /\ user' = IF mutations = <<>> THEN user ELSE applyMutations(calls[c].value, mutations)
     /\ currentState' = IF next # calls[c].state THEN next ELSE currentState
     /\ log' = Append(log, Event("state", c, calls[c].case,
                 [before |-> calls[c].state, after |-> next,
                  count |-> calls[c].count, index |-> calls[c].index], "none"))
     /\ Goes(c, "settled")
     /\ UNCHANGED <<counters, sequences, otherwise>>

\* Imposter answers and writes the summary of the exchange.
Respond(c) ==
  /\ calls[c].step = "settled"
  /\ log' = Append(log, Event("summary", c, "none", NoData,
                           applyState(Plan[calls[c].case], calls[c].state)))
  /\ Goes(c, "done")
  /\ UNCHANGED <<stores, otherwise>>
-----------------------------------------------------------------------------
(* resetRuntimeState: the stores are replaced one after another.           *)

\* Mutant: the positions of the sequences survive a reset.
replaceAllButSequences(n) ==
  /\ currentState' = IF n = 1 THEN InitialState ELSE currentState
  /\ counters' = IF n = 2 THEN [s \in State |-> Absent] ELSE counters
  /\ user' = IF n = 4 THEN Absent ELSE user
  /\ UNCHANGED sequences

\* replaceStore of the n-th store: DELETE and POST in one step, a deleted store reads like
\* the seeded one (a script that finds no current state starts from the initial one).
replaceStore(n) ==
  /\ currentState' = IF n = 1 THEN InitialState ELSE currentState
  /\ counters' = IF n = 2 THEN [s \in State |-> Absent] ELSE counters
  /\ sequences' = IF n = 3 THEN [c \in Case |-> Absent] ELSE sequences
  /\ user' = IF n = 4 THEN Absent ELSE user

BeginReset ==
  /\ resetStep = 0 /\ resets < MaxResets
  /\ Busy => overlaps < MaxOverlaps
  /\ overlaps' = overlaps + (IF Busy THEN 1 ELSE 0)
  /\ disturbed' = Busy
  /\ resets' = resets + 1 /\ resetStep' = 1
  /\ replaceStore(1)
  /\ UNCHANGED <<calls, correlated, log, failures, epoch>>

\* A reset beside which no call ran starts a new epoch.
ResetOn ==
  /\ resetStep > 0
  /\ replaceStore(resetStep + 1)
  /\ resetStep' = (resetStep + 1) % 4
  /\ epoch' = IF resetStep' = 0 /\ ~disturbed THEN Len(calls) ELSE epoch
  /\ UNCHANGED <<calls, correlated, log, resets, failures, overlaps, disturbed>>

\* A store operation is refused: the reset stops where it is.
ResetFails ==
  /\ resetStep > 0 /\ failures < MaxFailures
  /\ failures' = failures + 1 /\ resetStep' = 0 /\ disturbed' = TRUE
  /\ UNCHANGED <<stores, calls, correlated, log, resets, overlaps, epoch>>

Next ==
  \/ \E case \in Case : Arrive(case)
  \/ \E c \in DOMAIN calls : \/ LoadState(c) \/ CountRequest(c) \/ SelectSequence(c)
                             \/ Settle(c) \/ Respond(c)
  \/ BeginReset \/ ResetOn \/ ResetFails

Spec == Init /\ [][Next]_vars
-----------------------------------------------------------------------------
(* Properties.                                                             *)

Step == {"matched", "loaded", "counted", "selected", "settled", "done"}

\* Every store holds what a script can read: a declared state, counts, and positions no
\* further than the end of the sequence (below it when the sequence cycles).
TypeOK ==
  /\ currentState \in State /\ counters \in [State -> 0..MaxCalls]
  /\ \A c \in Case : /\ sequences[c] \in 0..Len(Plan[c].steps)
                     /\ Plan[c].onExhausted = "cycle" => sequences[c] < Len(Plan[c].steps)
  /\ user \in Nat
  /\ \A c \in DOMAIN calls : calls[c].case \in Case /\ calls[c].step \in Step
  /\ resetStep \in 0..3 /\ resets \in 0..MaxResets /\ failures \in 0..MaxFailures
  /\ overlaps \in 0..MaxOverlaps /\ correlated \in BOOLEAN
  /\ disturbed \in BOOLEAN /\ epoch \in 0..Len(calls)

\* The position a sequence declares for its n-th call (from 0).
DeclaredIndex(plan, n) ==
  LET len == Len(plan.steps)
  IN CASE len = 0 -> NoIndex
       [] len > 0 /\ plan.onExhausted = "cycle" -> n % len
       [] len > 0 /\ plan.onExhausted = "repeat-last" -> IF n < len THEN n ELSE len - 1
       [] len > 0 /\ plan.onExhausted = "terminal" -> IF n < len THEN n ELSE len

\* As long as calls came one at a time since the last undisturbed reset, the ledger tells
\* the story that the vendor package declares: a call starts in the state in which the one
\* before it ended (the first in the initial state); it is counted among the calls made in
\* that state; a sequence is at the position its number of calls declares; the state changes
\* by the step's effect, else the case's, else the first transition whose threshold the
\* count has reached; the answer is that of the state the call started in, also for the
\* call that reaches a threshold; and the user store holds what all effects make of it.
\* (Without correlations, as long as every call matched: an unmatched marker names no case,
\* and without a correlation the call's state is not found.)
LedgerTellsStory ==
  LET story == SubSeq(parseProviderCallLedger(log), epoch + 1, Len(calls))
      before(k) == IF k = 1 THEN InitialState ELSE story[k - 1].data.after
      same(k) == {j \in 1..(k - 1) : story[j].case = story[k].case}
      plan(k) == Plan[story[k].case]
      effectsAt(k) == stepEffects(plan(k), DeclaredIndex(plan(k), Cardinality(same(k))))
      mutations == FlattenSeq([k \in DOMAIN story |->
                                 plan(k).effects.mutations \o effectsAt(k).mutations])
      told(k) ==
        LET s == story[k].data
            due == {t \in DOMAIN Transitions : /\ Transitions[t].from = s.before
                                               /\ Transitions[t].atLeast <= s.count}
        IN /\ s.before = before(k)
           /\ s.count = Cardinality({j \in 1..k : story[j].data.before = s.before})
           /\ s.index = DeclaredIndex(plan(k), Cardinality(same(k)))
           /\ story[k].answer = applyState(plan(k), before(k))
           /\ \/ effectsAt(k).setState = s.after
              \/ effectsAt(k).setState = "none" /\ plan(k).effects.setState = s.after
              \/ /\ effectsAt(k).setState = "none" /\ plan(k).effects.setState = "none"
                 /\ s.after = IF due = {} THEN s.before
                              ELSE Transitions[CHOOSE t \in due : \A u \in due : t <= u].to
      seen == correlated \/ \A c \in DOMAIN calls : calls[c].case # "unmatched-request"
  IN seen /\ ~disturbed /\ ~Busy /\ resetStep = 0 =>
       /\ \A k \in DOMAIN story : told(k)
       /\ story # <<>> => story[Len(story)].data.after = currentState
       /\ user = FoldLeft(applyStoreMutation, Absent, mutations)

\* Once every call has been answered, the ledger pairs each with its own state and its own
\* summary if the calls carry correlations, however they interleaved, or if they carry none
\* and came one at a time (an unmatched call then finds no state).  While a call is under
\* way this fails even so: its entry takes the state of an earlier call of the same case.
LedgerPairsOwn ==
  LET entries == parseProviderCallLedger(log)
  IN ~Busy /\ (correlated \/ (~disturbed /\ resets = 0)) =>
       \A i \in DOMAIN entries :
         LET call == entries[i].call
         IN /\ entries[i].summary = call
            /\ entries[i].state =
                 IF correlated \/ calls[call].case # "unmatched-request" THEN call ELSE 0
=============================================================================
