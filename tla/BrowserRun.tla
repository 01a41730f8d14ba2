----------------------------- MODULE BrowserRun -----------------------------
(***************************************************************************)
(* The browser side of one run: the handlers "site.start" and              *)
(* "browser.run-journey" of platform-actions/src/browser-actions.ts, the   *)
(* synthetic site they share (synthetic-site-host/src/host.ts), the        *)
(* journey runner with its timer and its abort listener                    *)
(* (browser-runner/src/runner.ts), and the evidence that is written from   *)
(* its report (evidence.ts).                                               *)
(*                                                                         *)
(* Handlers run side by side: parallel steps, and attempts that the engine *)
(* no longer waits for.  A browser is seen through the calls that          *)
(* Playwright answers, which fail once the context is closed.  What a page *)
(* shows, and what a step asserts of it, is the choice ok of StepEnds.     *)
(***************************************************************************)
EXTENDS Integers, Sequences, FiniteSets, SequencesExt

CONSTANTS
  Handler,       \* places, numbered, of the handlers in flight; a handler takes the first free one
  Execution,     \* executionIds that scenarios give
  Steps,         \* Steps[e]: the resolved journey of execution e, a sequence of [id, kind, tab]
  Policy,        \* Policy[kind of artifact]: "always", "on-failure" or "never"
  MaxBegins, MaxRequests,   \* bounds: handlers begun, requests in flight when a site is stopped
  MaxTroubles    \* bound: refused writes, failed calls of Playwright, timeouts, aborts

VARIABLES
  at,            \* at[h]: the handler, where it stands and what it holds
  aborted,       \* handlers whose signal is aborted, which the engine no longer waits for
  servers,       \* servers[s]: "listening", "closing" or "closed"
  site,          \* RunState.site: a server, or 0
  siteLeaseRegistered,
  cleanups,      \* the run's cleanups: 0 is "platform-run-state", s the lease of server s
  requests,      \* what a server that is being stopped is still answering
  files,         \* files[location]: what was written there last
  rows,          \* the browser-action records
  summaries,     \* summaries[e]: status of the observation browser-journey-<journey>-e
  artifacts,     \* the artifact records
  browserReports,   \* browserReports[e]: the last report of the execution
  refused,       \* handlers, by number, whose evidence was refused part-way
  begun,         \* begun[n]: the execution of the n-th handler, "site" for site.start
  phase,         \* "running", "cleaning", "over"
  cleaning,      \* the cleanups still to be run, last registered first
  platformFailed,   \* whether the platform-run-state cleanup threw
  troubles

siteVars == <<servers, site, siteLeaseRegistered, cleanups, requests>>
evidence == <<rows, summaries, artifacts, browserReports, refused>>
runVars == <<begun, phase, cleaning, platformFailed>>
vars == <<at, aborted, siteVars, files, evidence, runVars, troubles>>

Kind == {"page", "check", "shot", "openTab", "switchTab", "closeTab"}
ASSUME StepsAssumption ==
  Steps \in [Execution -> Seq([id : STRING, kind : Kind, tab : STRING])]
ASSUME PolicyAssumption ==
  Policy \in [{"screenshot", "trace", "har"} -> {"always", "on-failure", "never"}]

Idle == [n |-> 0, pc |-> "idle", i |-> 1, context |-> "none", usable |-> FALSE, timer |-> "off",
         listening |-> FALSE, pages |-> <<>>, page |-> "", actions |-> <<>>, names |-> <<>>,
         error |-> FALSE, traced |-> FALSE, status |-> "none"]
NoReport == [n |-> 0, status |-> "none", actions |-> <<>>, names |-> <<>>]

Trouble == troubles < MaxTroubles /\ troubles' = troubles + 1
executionOf(h) == begun[at[h].n]
stepsOf(h) == Steps[executionOf(h)]
Goes(h, pc) == at' = [at EXCEPT ![h].pc = pc]

Init ==
  /\ at = [h \in Handler |-> Idle] /\ aborted = {}
  /\ servers = <<>> /\ site = 0 /\ siteLeaseRegistered = FALSE /\ cleanups = <<>>
  /\ requests = 0 /\ files = <<>>
  /\ rows = {} /\ summaries = [e \in Execution |-> "none"] /\ artifacts = {}
  /\ browserReports = [e \in Execution |-> NoReport] /\ refused = {}
  /\ begun = <<>> /\ phase = "running" /\ cleaning = <<>> /\ platformFailed = FALSE
  /\ troubles = 0
-----------------------------------------------------------------------------
(* Handlers: how the engine starts them and stops waiting for them.        *)

\* stateFor: the first handler of a run registers the cleanup of its state.
stateFor(more) == IF cleanups = <<>> THEN <<0>> \o more ELSE cleanups \o more

Begins(h, what, pc) ==
  /\ phase = "running" /\ Len(begun) < MaxBegins
  /\ at[h] = Idle /\ \A g \in Handler : g < h => at[g] # Idle
  /\ begun' = Append(begun, what)
  /\ at' = [at EXCEPT ![h] = [Idle EXCEPT !.n = Len(begun) + 1, !.pc = pc]]
  /\ cleanups' = stateFor(<<>>)
  /\ UNCHANGED <<aborted, servers, site, siteLeaseRegistered, requests, files, evidence,
                 phase, cleaning, platformFailed, troubles>>

\* A handler that ends frees its place; the signal of its step is not used again.
Ends(h) ==
  /\ at' = [at EXCEPT ![h] = Idle]
  /\ aborted' = aborted \ {h}

\* The listener closes the context; a signal that was aborted before it was added is not heard.
Heard(h) == IF at[h].listening /\ at[h].context = "open"
            THEN at' = [at EXCEPT ![h].context = "closed"] ELSE UNCHANGED at

\* The step is over its timeout, or the run is cancelled: the signal is aborted, and the
\* engine goes on without the handler.  Listening on a local port takes no time to speak of.
Abandon(h) ==
  /\ at[h].pc \notin {"idle", "starting"} /\ h \notin aborted /\ phase = "running" /\ Trouble
  /\ aborted' = aborted \cup {h}
  /\ Heard(h)
  /\ UNCHANGED <<siteVars, files, evidence, runVars>>
-----------------------------------------------------------------------------
(* "site.start" and the server under it.                                   *)

runnerOnly == <<files, evidence, runVars>>

\* A scenario has one step that starts its site, so a second server is never being started.
StartSite(h) ==
  /\ \A g \in Handler : at[g].pc # "starting"
  /\ Begins(h, "site", IF site = 0 THEN "starting"
                       ELSE IF ~siteLeaseRegistered THEN "leasing" ELSE "returning")

SiteUp(h) ==
  /\ at[h].pc = "starting"
  /\ servers' = Append(servers, "listening")
  /\ site' = Len(servers) + 1
  /\ Goes(h, IF siteLeaseRegistered THEN "returning" ELSE "leasing")
  /\ UNCHANGED <<aborted, siteLeaseRegistered, cleanups, requests, runnerOnly, troubles>>

\* registerResourceLease: the row first, then the cleanup that stops this server.
SiteLeased(h) ==
  /\ at[h].pc = "leasing"
  /\ cleanups' = stateFor(<<site>>) /\ siteLeaseRegistered' = TRUE
  /\ Ends(h)
  /\ UNCHANGED <<servers, site, requests, runnerOnly, troubles>>

\* The row is refused: the handler throws, and RunState keeps the site for another attempt.
SiteLeaseFails(h) ==
  /\ at[h].pc = "leasing" /\ Trouble
  /\ Ends(h) /\ UNCHANGED <<siteVars, runnerOnly>>

SiteReturned(h) ==
  /\ at[h].pc = "returning" /\ Ends(h)
  /\ UNCHANGED <<siteVars, runnerOnly, troubles>>

\* handleRequest answers; what was answered before the server is stopped leaves no trace here.
Answer ==
  /\ requests > 0 /\ requests' = requests - 1
  /\ UNCHANGED <<at, aborted, servers, site, siteLeaseRegistered, cleanups, runnerOnly,
                 troubles>>
-----------------------------------------------------------------------------
(* runBrowserJourney.                                                      *)

inBrowser == <<siteVars, evidence, runVars>>
shouldCapture(kind, failed) == Policy[kind] = "always" \/ (Policy[kind] = "on-failure" /\ failed)

\* Mutant: the directory is named after the run and the journey alone.
locationOfRun(h, name) == <<"run", name>>

\* The directory of an execution, and so the locations of its artifacts.
location(h, name) == <<executionOf(h), name>>
write(h, names) ==
  files' = [l \in DOMAIN files \cup {location(h, name) : name \in names} |->
              IF \E name \in names : l = location(h, name) THEN <<at[h].n, at[h].i>> ELSE files[l]]

\* requireSite; the workspace is made.
RunJourney(h, e) == site # 0 /\ Begins(h, e, "workspace")

\* The journey is left, by an error or at its end: timer and listener go.
Leave(r, error) == [r EXCEPT !.pc = "finally", !.timer = "off", !.listening = FALSE,
                             !.error = @ \/ error]

\* throwIfAborted: the last look at the signal before the first step.
Launch(h) ==
  /\ at[h].pc = "workspace"
  /\ at' = IF h \in aborted THEN [at EXCEPT ![h] = Leave(@, TRUE)]
           ELSE [at EXCEPT ![h].pc = "launching"]
  /\ UNCHANGED <<aborted, files, inBrowser, troubles>>

\* The head of the loop: the end of the journey, throwIfAborted, or the next step.
loopHead(r, h) ==
  IF r.i > Len(stepsOf(h)) THEN Leave(r, FALSE)
  ELSE IF h \in aborted THEN Leave(r, TRUE)
  ELSE [r EXCEPT !.pc = "step", !.usable = r.context = "open"]

\* The browser is up and has a context: the timer is armed, the listener added.
Opened(h) ==
  /\ at[h].pc = "launching"
  /\ at' = [at EXCEPT ![h].context = "open", ![h].timer = "armed", ![h].listening = TRUE,
                      ![h].pc = "setup"]
  /\ UNCHANGED <<aborted, files, inBrowser, troubles>>

\* Routes, fixtures, session, trace and the first page, or the error of a closed context.
SetUp(h) ==
  /\ at[h].pc = "setup"
  /\ at' = [at EXCEPT ![h] =
       IF @.context = "closed" THEN Leave(@, TRUE)
       ELSE loopHead([@ EXCEPT !.traced = Policy["trace"] # "never", !.pages = <<"main">>,
                            !.page = "main"], h)]
  /\ UNCHANGED <<aborted, files, inBrowser, troubles>>

\* A call of Playwright fails before the first step, with or without a context.
OpenFails(h) ==
  /\ at[h].pc \in {"launching", "setup"} /\ Trouble
  /\ at' = [at EXCEPT ![h] = Leave(@, TRUE)]
  /\ UNCHANGED <<aborted, files, inBrowser>>

\* Mutant: the timer notes the timeout and leaves the context open.
TimerOnlyNotes(h) ==
  /\ at[h].timer = "armed"
  /\ at' = [at EXCEPT ![h].timer = "fired"]
  /\ UNCHANGED <<aborted, files, inBrowser, troubles>>

\* The journey's own timeout closes the context under the step.
TimerFires(h) ==
  /\ at[h].timer = "armed"
  /\ at' = [at EXCEPT ![h].timer = "fired", ![h].context = "closed"]
  /\ UNCHANGED <<aborted, files, inBrowser, troubles>>

\* What executeStep does with the tabs: the tabs after it and the one in front, "" if none.
tabsAfter(r, step) ==
  CASE step.kind = "openTab" -> Append(r.pages, step.tab)
    [] step.kind = "closeTab" -> SelectSeq(r.pages, LAMBDA name : name # r.page)
    [] OTHER -> r.pages
frontAfter(r, step) ==
  CASE step.kind \in {"openTab", "switchTab"} -> step.tab
    [] step.kind = "closeTab" -> LET open == tabsAfter(r, step)
                                 IN IF Contains(open, "main") THEN "main"
                                    ELSE IF open = <<>> THEN "" ELSE Head(open)
    [] OTHER -> r.page

\* A duplicate tab, an unknown tab and the last tab are errors of the step.
tabsAllow(r, step) ==
  /\ step.kind = "openTab" => ~Contains(r.pages, step.tab)
  /\ step.kind = "switchTab" => Contains(r.pages, step.tab)
  /\ step.kind = "closeTab" => frontAfter(r, step) # ""

acted(r, step, ok) == [r EXCEPT !.actions = Append(@, [id |-> step.id, ok |-> ok])]
shown(r, name) == [r EXCEPT !.names = Append(@, name)]

\* A failed action is the journey's error and its last; a screenshot of it is tried.
Fails(h, shot) ==
  LET r == acted(at[h], stepsOf(h)[at[h].i], FALSE)
  IN at' = [at EXCEPT ![h] = Leave(IF shot THEN shown(r, "failure") ELSE r, TRUE)]

Passes(h, step) ==
  LET r == acted([at[h] EXCEPT !.pages = tabsAfter(at[h], step), !.page = frontAfter(at[h], step)],
                 step, TRUE)
      next == [(IF step.kind = "shot" THEN shown(r, step.id) ELSE r) EXCEPT !.i = @ + 1]
  IN at' = [at EXCEPT ![h] = loopHead(next, h)]

\* executeStep: a step that asks the page fails in a closed context, but its answer may be on
\* the way when the context is closed; "check" reads the requests that were observed.
StepEnds(h, ok) ==
  /\ at[h].pc = "step"
  /\ LET step == stepsOf(h)[at[h].i]
         passes == /\ ok /\ tabsAllow(at[h], step)
                   /\ step.kind \in {"check", "switchTab"} \/ at[h].usable
         shot == ~passes /\ shouldCapture("screenshot", TRUE) /\ at[h].context = "open"
     IN IF passes
        THEN /\ Passes(h, step)
             /\ IF step.kind = "shot" THEN write(h, {step.id}) ELSE UNCHANGED files
        ELSE /\ Fails(h, shot)
             /\ IF shot THEN write(h, {"failure"}) ELSE UNCHANGED files
  /\ UNCHANGED <<aborted, inBrowser, troubles>>

\* The rest of the finally block: the trace is saved if it was started and the context still
\* answers; context and browser are closed.
Finally(h) ==
  /\ at[h].pc = "finally"
  /\ LET kept == at[h].traced /\ shouldCapture("trace", at[h].error) /\ at[h].context = "open"
     IN /\ at' = [at EXCEPT ![h].pc = "reporting",
                            ![h].context = IF @ = "none" THEN @ ELSE "closed",
                            ![h].names = IF kept THEN Append(@, "trace") ELSE @]
        /\ IF kept THEN write(h, {"trace"}) ELSE UNCHANGED files
  /\ UNCHANGED <<aborted, inBrowser, troubles>>

statusOf(h) == IF h \in aborted THEN "cancelled" ELSE IF at[h].error THEN "failed" ELSE "passed"

\* The selected HAR and report.json are written; the handler keeps the report.
Report(h) ==
  /\ at[h].pc = "reporting"
  /\ LET har == IF shouldCapture("har", at[h].error) THEN <<"har">> ELSE <<>>
         names == <<"report">> \o at[h].names \o har
     IN /\ at' = [at EXCEPT ![h].names = names, ![h].pc = "persisting", ![h].status = statusOf(h)]
        /\ write(h, {"report"} \cup Range(har))
        /\ browserReports' = [browserReports EXCEPT ![executionOf(h)] =
             [n |-> at[h].n, status |-> statusOf(h), actions |-> at[h].actions, names |-> names]]
  /\ UNCHANGED <<aborted, siteVars, rows, summaries, artifacts, refused, runVars, troubles>>
-----------------------------------------------------------------------------
(* persistBrowserEvidence: one write after the other.                      *)

\* The records of the first k actions.
rowsOf(h, k) ==
  {[n |-> at[h].n, k |-> j, id |-> at[h].actions[j].id, ok |-> at[h].actions[j].ok] : j \in 1..k}

\* The records of the actions and the summary, which nobody else reads or writes meanwhile.
PersistRecords(h) ==
  /\ at[h].pc = "persisting" /\ at[h].status # "none"
  /\ at' = [at EXCEPT ![h].status = "none"]
  /\ rows' = rows \cup rowsOf(h, Len(at[h].actions))
  /\ summaries' = [summaries EXCEPT ![executionOf(h)] = at[h].status]
  /\ UNCHANGED <<aborted, siteVars, files, artifacts, browserReports, refused, runVars,
                 troubles>>

\* The next artifact, with the hash of what its location holds now.
PersistArtifact(h) ==
  /\ at[h].pc = "persisting" /\ at[h].status = "none" /\ at[h].names # <<>>
  /\ at' = [at EXCEPT ![h].names = Tail(@)]
  /\ LET l == location(h, Head(at[h].names))
     IN artifacts' = artifacts \cup {[n |-> at[h].n, location |-> l, sha256 |-> files[l]]}
  /\ UNCHANGED <<aborted, siteVars, files, rows, summaries, browserReports, refused, runVars,
                 troubles>>

\* A write is refused: the handler throws, and what was written stays.
PersistFails(h) ==
  /\ at[h].pc = "persisting" /\ Trouble
  /\ refused' = refused \cup {at[h].n}
  /\ IF at[h].status = "none" THEN UNCHANGED rows
     ELSE \E k \in 0..Len(at[h].actions) : rows' = rows \cup rowsOf(h, k)
  /\ Ends(h)
  /\ UNCHANGED <<siteVars, files, summaries, artifacts, browserReports, runVars>>

\* The handler returns the status of the journey: a failed journey is no failed step.
Returned(h) ==
  /\ at[h].pc = "persisting" /\ at[h].status = "none" /\ at[h].names = <<>>
  /\ Ends(h)
  /\ UNCHANGED <<siteVars, files, evidence, runVars, troubles>>
-----------------------------------------------------------------------------
(* The cleanups of the run.                                                *)

atRest == <<at, aborted, files, evidence, begun>>

BeginCleanup ==
  /\ phase = "running" /\ begun # <<>> /\ \A h \in Handler : at[h] = Idle \/ h \in aborted
  /\ phase' = "cleaning" /\ cleaning' = Reverse(cleanups)
  /\ UNCHANGED <<atRest, siteVars, platformFailed, troubles>>

\* site.stop: the server takes no more requests, and some are in flight; stopping a server
\* that is closed is an error of the cleanup.
StopSite ==
  /\ phase = "cleaning" /\ cleaning # <<>> /\ Head(cleaning) # 0
  /\ \/ /\ servers[Head(cleaning)] = "listening"
        /\ servers' = [servers EXCEPT ![Head(cleaning)] = "closing"]
        /\ requests' \in 0..MaxRequests /\ UNCHANGED cleaning
     \/ /\ servers[Head(cleaning)] = "closed"
        /\ cleaning' = Tail(cleaning) /\ UNCHANGED <<servers, requests>>
  /\ UNCHANGED <<atRest, site, siteLeaseRegistered, cleanups, phase, platformFailed, troubles>>

\* The server is closed when the last request is answered; RunState forgets the site.
SiteStopped ==
  /\ phase = "cleaning" /\ cleaning # <<>> /\ Head(cleaning) # 0
  /\ servers[Head(cleaning)] = "closing" /\ requests = 0
  /\ servers' = [servers EXCEPT ![Head(cleaning)] = "closed"]
  /\ site' = IF site = Head(cleaning) THEN 0 ELSE site
  /\ cleaning' = Tail(cleaning)
  /\ UNCHANGED <<atRest, siteLeaseRegistered, cleanups, requests, phase, platformFailed, troubles>>

\* Mutant: only a site whose lease was registered is looked for.
CleanStateLeased ==
  /\ phase = "cleaning" /\ cleaning # <<>> /\ Head(cleaning) = 0
  /\ cleaning' = Tail(cleaning)
  /\ platformFailed' = (platformFailed \/ (site # 0 /\ siteLeaseRegistered))
  /\ UNCHANGED <<atRest, siteVars, phase, troubles>>

\* "platform-run-state": a site that is still active is an error.
CleanState ==
  /\ phase = "cleaning" /\ cleaning # <<>> /\ Head(cleaning) = 0
  /\ cleaning' = Tail(cleaning)
  /\ platformFailed' = (platformFailed \/ site # 0)
  /\ UNCHANGED <<atRest, siteVars, phase, troubles>>

EndCleanup ==
  /\ phase = "cleaning" /\ cleaning = <<>> /\ phase' = "over"
  /\ UNCHANGED <<atRest, siteVars, cleaning, platformFailed, troubles>>
-----------------------------------------------------------------------------
Journey(h) == \/ Launch(h) \/ Opened(h) \/ SetUp(h) \/ Finally(h) \/ Report(h)
              \/ PersistRecords(h) \/ PersistArtifact(h) \/ Returned(h)
StepGivesUp(h) == at[h].context = "closed" /\ StepEnds(h, FALSE)

Next ==
  \/ Answer
  \/ BeginCleanup \/ StopSite \/ SiteStopped \/ CleanState \/ EndCleanup
  \/ \E h \in Handler :
       \/ StartSite(h) \/ SiteUp(h) \/ SiteLeased(h) \/ SiteLeaseFails(h) \/ SiteReturned(h)
       \/ Abandon(h) \/ OpenFails(h) \/ TimerFires(h) \/ PersistFails(h)
       \/ Launch(h) \/ Opened(h) \/ SetUp(h) \/ Finally(h) \/ Report(h)
       \/ PersistRecords(h) \/ PersistArtifact(h) \/ Returned(h)
       \/ \E ok \in BOOLEAN : StepEnds(h, ok)
       \/ \E e \in Execution : RunJourney(h, e)

Spec == Init /\ [][Next]_vars

\* Calls of Playwright and of the database answer, timers fire, requests are answered and a
\* step fails once its context is closed; while it is open a step may wait for ever.
Fairness ==
  /\ \A h \in Handler : /\ WF_vars(Journey(h)) /\ WF_vars(StepGivesUp(h)) /\ WF_vars(TimerFires(h))
                        /\ WF_vars(SiteUp(h) \/ SiteLeased(h) \/ SiteReturned(h))
  /\ WF_vars(Answer)
  /\ WF_vars(StopSite \/ SiteStopped \/ CleanState \/ EndCleanup)
FairSpec == Spec /\ Fairness
-----------------------------------------------------------------------------
TypeOK ==
  /\ aborted \subseteq Handler
  /\ \A h \in Handler : /\ at[h].n \in 0..Len(begun) /\ at[h].i \in Nat
                        /\ at[h].context \in {"none", "open", "closed"}
                        /\ at[h].timer \in {"off", "armed", "fired"}
  /\ servers \in Seq({"listening", "closing", "closed"}) /\ site \in 0..Len(servers)
  /\ siteLeaseRegistered \in BOOLEAN /\ platformFailed \in BOOLEAN
  /\ phase \in {"running", "cleaning", "over"} /\ troubles \in 0..MaxTroubles

ranOnce(e) == Cardinality({n \in DOMAIN begun : begun[n] = e}) = 1

\* What was written for an execution that was run once is whole, and stays so whatever runs
\* beside it or after it: one record for every action of its report, a summary that agrees
\* with them, and for every file of the report an artifact with the hash of what is there;
\* and a summary that says passed stands for a journey all of whose steps passed.
EvidenceIsWhole ==
  \A e \in Execution :
    LET report == browserReports[e]
        done == ~ \E h \in Handler : at[h].n = report.n
    IN report.n # 0 /\ ranOnce(e) /\ done /\ report.n \notin refused =>
         /\ {<<row.k, row.id, row.ok>> : row \in {row \in rows : row.n = report.n}}
              = {<<k, report.actions[k].id, report.actions[k].ok>> : k \in DOMAIN report.actions}
         /\ summaries[e] = report.status
         /\ report.status = "passed" => /\ Len(report.actions) = Len(Steps[e])
                                        /\ \A k \in DOMAIN report.actions : report.actions[k].ok
         /\ \A name \in Range(report.names) :
              \E a \in artifacts : /\ a.n = report.n /\ a.location[2] = name
                                   /\ files[a.location] = a.sha256

\* A site that is still listening when the run is over was reported: the cleanup of the
\* platform state failed, and with it the run.
LeakIsReported ==
  phase = "over" => \A s \in DOMAIN servers : servers[s] = "closed" \/ platformFailed

\* A handler that was begun ends, whatever its page does: the journey's timer, its abort
\* listener and the finally block see to it.
HandlersEnd == \A h \in Handler : at[h].pc # "idle" ~> at[h].pc = "idle"
=============================================================================
