---------------------------- MODULE VendorLedger ----------------------------
(***************************************************************************)
(* The provider-call ledger that vendor-runtime/src/ledger.ts reads from   *)
(* the log of an Imposter container.  A served call leaves three lines: a  *)
(* match (or unmatched) marker, the TESTY_STATE marker of its script, and  *)
(* the structured summary of its exchange.  The reader pairs them by       *)
(* correlation, and where there is none by order.                          *)
(*                                                                         *)
(* A log event names the call it belongs to only for the properties: the   *)
(* reader looks at no more than kind, corr and case.                       *)
(***************************************************************************)
EXTENDS Naturals, FiniteSets, Sequences, SequencesExt

NoCorr == 0     \* no usable correlation: absent, "none", "null", an unfilled placeholder
NoIndex == 99                       \* sequenceIndex=none
NoData == [before |-> "none", after |-> "none", count |-> 0, index |-> NoIndex]
NoEvent == [kind |-> "missing", call |-> 0, corr |-> NoCorr, case |-> "none", data |-> NoData,
            answer |-> "none"]

\* The lines of the log that parse as an event of the kind, by their position.
eventsOf(kind, log) == {i \in DOMAIN log : log[i].kind = kind}

\* How many of the positions come before i.
rank(positions, i) == Cardinality({j \in positions : j < i})

\* shift() of a group after k earlier shifts: the position it gives, if there is one left.
shift(group, k) == {i \in group : rank(group, i) = k}

\* groupByCorrelation(values).get(corr): only events with a correlation are grouped.
groupByCorrelation(log, kind, corr) ==
  {i \in eventsOf(kind, log) : corr # NoCorr /\ log[i].corr = corr}

\* statesByCase.get(caseKey(...)): an unmatched marker names no case, and has no key.
statesByCase(log, case) == {i \in eventsOf("state", log) : case # "none" /\ log[i].case = case}

\* What the match at m shifts off the group of its correlation, after the matches before it.
ofCorrelation(log, m, kind) ==
  shift(groupByCorrelation(log, kind, log[m].corr),
        rank(groupByCorrelation(log, "match", log[m].corr), m))

\* The matches before m that got nothing of their correlation.
leftBefore(log, m, kind) ==
  {j \in eventsOf("match", log) : j < m /\ ofCorrelation(log, j, kind) = {}}

\* The summary paired with the match at m: of its correlation, or the next uncorrelated one.
summaryOf(log, m) ==
  LET uncorrelated == {i \in eventsOf("summary", log) : log[i].corr = NoCorr}
  IN IF ofCorrelation(log, m, "summary") # {} THEN ofCorrelation(log, m, "summary")
     ELSE shift(uncorrelated, Cardinality(leftBefore(log, m, "summary")))

\* Mutant: states are paired by their order in the log alone.
stateByOrder(log, m) == shift(eventsOf("state", log), rank(eventsOf("match", log), m))

\* The state paired with the match at m: of its correlation, or the next one of its case.
\* The groups by case keep the events that a correlation has already taken.
stateOf(log, m) ==
  LET sameCase == {j \in leftBefore(log, m, "state") : log[j].case = log[m].case}
  IN IF ofCorrelation(log, m, "state") # {} THEN ofCorrelation(log, m, "state")
     ELSE shift(statesByCase(log, log[m].case), Cardinality(sameCase))

eventAt(log, found) == IF found = {} THEN NoEvent ELSE log[CHOOSE i \in found : TRUE]

\* The correlation of an entry: of its match, else its summary, else its state.
correlationId(match, summary, state) ==
  IF match.corr # NoCorr THEN match.corr
  ELSE IF summary.corr # NoCorr THEN summary.corr ELSE state.corr

\* One entry per match marker, with what was paired with it.
entryOf(match, summary, state) ==
  [call |-> match.call,
   case |-> IF state.call = 0 THEN match.case ELSE state.case,
   corr |-> correlationId(match, summary, state),
   summary |-> summary.call, answer |-> summary.answer,
   state |-> state.call, data |-> state.data]

parseProviderCallLedger(log) ==
  LET matches == eventsOf("match", log)
      entry == [m \in matches |-> entryOf(log[m], eventAt(log, summaryOf(log, m)),
                                          eventAt(log, stateOf(log, m)))]
  IN [i \in 1..Cardinality(matches) |-> entry[CHOOSE m \in matches : rank(matches, m) = i - 1]]

\* ledgerKey(entry): what tells two entries apart.  A summary stands for its timestamp
\* and status, a state for its sequence position.
ledgerKey(entry) == <<entry.case, entry.corr, entry.summary, entry.data.index>>
=============================================================================
