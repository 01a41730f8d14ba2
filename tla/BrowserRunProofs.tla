-------------------------- MODULE BrowserRunProofs --------------------------
(***************************************************************************)
(* Proofs about BrowserRun, for any number of handlers, any journeys, any  *)
(* capture policy and any number of faults: a site that the run leaves     *)
(* behind is reported, and the evidence of an execution that was run once  *)
(* is whole.                                                               *)
(*                                                                         *)
(* Two inductive invariants, over disjoint parts of the state but for the  *)
(* handlers: SiteInv follows the one server of the run to the cleanup that *)
(* looks for it, EvidenceInv follows a journey from its first step to the  *)
(* last write of its evidence.                                             *)
(***************************************************************************)
EXTENDS BrowserRun, FiniteSetTheorems, TLAPS

Fields == {"n", "pc", "i", "context", "usable", "timer", "listening", "pages", "page",
           "actions", "names", "error", "traced", "status"}
Early == {"workspace", "launching", "setup"}
JourneyPc == Early \cup {"step", "finally", "reporting", "persisting"}
Pc == JourneyPc \cup {"idle", "starting", "leasing", "returning"}
\* Names of files: the ids of steps and the runner's own.
Name == STRING \cup {"failure", "trace", "report", "har"}
Action == [id : Name, ok : BOOLEAN]
ServerState == {"listening", "closing", "closed"}
-----------------------------------------------------------------------------
(* The site.                                                               *)

SiteTypes ==
  /\ servers \in Seq(ServerState) /\ Len(servers) <= 1 /\ site \in {0, Len(servers)}
  /\ cleanups \in Seq(Nat) /\ cleaning \in Seq(Nat)
  /\ platformFailed \in BOOLEAN /\ phase \in {"running", "cleaning", "over"}

\* RunState forgets a site only when its server is closed.
ForgottenInv ==
  site = 0 => /\ \A s \in DOMAIN servers : servers[s] = "closed"
              /\ phase = "running" => servers = <<>>

\* A server is started by one handler, which the engine waits for, and while there is none.
StartingInv ==
  \A h \in Handler :
    /\ at[h].pc = "idle" => h \notin aborted
    /\ at[h].pc = "starting" => /\ phase = "running" /\ site = 0 /\ h \notin aborted
                                /\ \A g \in Handler : at[g].pc = "starting" => g = h

\* The cleanup of the platform state is registered first, so it is run last.
CleanupInv ==
  /\ IF begun = <<>> THEN cleanups = <<>> ELSE cleanups # <<>> /\ cleanups[1] = 0
  /\ phase = "cleaning" =>
       platformFailed \/ site = 0 \/ (cleaning # <<>> /\ cleaning[Len(cleaning)] = 0)
  /\ phase = "over" => platformFailed \/ site = 0

SiteInv == SiteTypes /\ ForgottenInv /\ StartingInv /\ CleanupInv
-----------------------------------------------------------------------------
(* The evidence.                                                           *)

Good(r) ==
  /\ DOMAIN r = Fields /\ r.pc \in Pc /\ r.i \in Nat /\ r.error \in BOOLEAN
  /\ r.actions \in Seq(Action) /\ r.names \in Seq(Name)
  /\ r.pc = "idle" => r = Idle
  /\ r.pc # "idle" => r.n \in DOMAIN begun
  /\ r.pc \in JourneyPc => begun[r.n] \in Execution

\* Every action of a journey that goes on passed, and so did those of one without an error.
AllPassed(actions) == \A k \in DOMAIN actions : actions[k].ok
Earned(r) ==
  /\ r.pc \in Early => r.i = 1 /\ r.actions = <<>> /\ ~r.error
  /\ r.pc = "step" => /\ ~r.error /\ r.i \in 1..Len(Steps[begun[r.n]])
                      /\ Len(r.actions) = r.i - 1 /\ AllPassed(r.actions)
  /\ r.pc \in {"finally", "reporting"} /\ ~r.error =>
       Len(r.actions) = Len(Steps[begun[r.n]]) /\ AllPassed(r.actions)

\* What a journey names is on the disk.
OnDisk(r, disk) ==
  r.pc \in JourneyPc => \A k \in DOMAIN r.names : <<begun[r.n], r.names[k]>> \in disk

HandlersInv ==
  /\ DOMAIN at = Handler /\ begun \in Seq(Execution \cup {"site"})
  /\ \A h \in Handler : Good(at[h]) /\ Earned(at[h]) /\ OnDisk(at[h], DOMAIN files)
  /\ \A g, h \in Handler : g # h /\ at[g].pc # "idle" => at[g].n # at[h].n

ReportsInv ==
  /\ DOMAIN browserReports = Execution /\ DOMAIN summaries = Execution
  /\ \A e \in Execution : browserReports[e].n # 0 =>
       /\ browserReports[e].n \in DOMAIN begun /\ begun[browserReports[e].n] = e
       /\ browserReports[e].actions \in Seq(Action) /\ browserReports[e].names \in Seq(Name)
       /\ browserReports[e].status = "passed" =>
            Len(browserReports[e].actions) = Len(Steps[e]) /\ AllPassed(browserReports[e].actions)

\* Nothing is written in the name of a handler before its turn.
FreshInv ==
  /\ \A row \in rows : row.n \in DOMAIN begun
  /\ \A h \in Handler :
       /\ at[h].pc \notin {"idle", "persisting"} => \A e \in Execution : browserReports[e].n # at[h].n
       /\ at[h].pc # "persisting" \/ at[h].status # "none" => \A row \in rows : row.n # at[h].n

\* The n-th handler is the only one of its execution.
Alone(n) == \A m \in DOMAIN begun : begun[m] = begun[n] => m = n

RowsAre(r) ==
  {row \in rows : row.n = r.n} =
    {[n |-> r.n, k |-> j, id |-> r.actions[j].id, ok |-> r.actions[j].ok] : j \in DOMAIN r.actions}
HasArtifact(n, e, name) ==
  \E a \in artifacts : /\ a.n = n /\ a.location = <<e, name>>
                       /\ <<e, name>> \in DOMAIN files /\ files[<<e, name>>] = a.sha256

\* The writes of a handler that persists its report: none, or the records and the artifacts
\* of the names that it has dropped.
Persisting(h, e) ==
  /\ browserReports[e].n = at[h].n
  /\ at[h].status # "none" => /\ browserReports[e].status = at[h].status
                              /\ browserReports[e].actions = at[h].actions
                              /\ browserReports[e].names = at[h].names
  /\ at[h].status = "none" =>
       /\ RowsAre(browserReports[e]) /\ summaries[e] = browserReports[e].status
       /\ \A k \in DOMAIN browserReports[e].names :
            \/ \E j \in DOMAIN at[h].names : at[h].names[j] = browserReports[e].names[k]
            \/ HasArtifact(at[h].n, e, browserReports[e].names[k])
PersistInv ==
  \A h \in Handler : at[h].pc = "persisting" /\ Alone(at[h].n) => Persisting(h, begun[at[h].n])

Gone(n) == \A h \in Handler : at[h].n # n
Whole(e) ==
  /\ RowsAre(browserReports[e]) /\ summaries[e] = browserReports[e].status
  /\ \A k \in DOMAIN browserReports[e].names :
       HasArtifact(browserReports[e].n, e, browserReports[e].names[k])
DoneInv ==
  \A e \in Execution :
    LET n == browserReports[e].n
    IN n # 0 /\ Alone(n) /\ Gone(n) /\ n \notin refused => Whole(e)

EvidenceInv == HandlersInv /\ ReportsInv /\ FreshInv /\ PersistInv /\ DoneInv

-----------------------------------------------------------------------------
(* How steps change the handlers.                                          *)

LEMMA IdleFacts ==
  /\ DOMAIN Idle = Fields /\ Idle.n = 0 /\ Idle.pc = "idle" /\ Idle.i = 1
  /\ Idle.actions = <<>> /\ Idle.names = <<>> /\ Idle.error = FALSE /\ Idle.status = "none"
  BY DEF Idle, Fields

Others(h) == DOMAIN at' = Handler /\ \A g \in Handler : g # h => at'[g] = at[g]

LEMMA EndsChange ==
  ASSUME HandlersInv, NEW h \in Handler, Ends(h)
  PROVE  Others(h) /\ at'[h] = Idle /\ aborted' = aborted \ {h}
  BY DEF HandlersInv, Ends, Others

LEMMA BeginsChange ==
  ASSUME HandlersInv, NEW h \in Handler, NEW what, NEW pc, Begins(h, what, pc)
  PROVE  /\ Others(h) /\ DOMAIN at'[h] = Fields /\ at'[h].n = Len(begun) + 1 /\ at'[h].pc = pc
         /\ at'[h].i = 1 /\ at'[h].actions = <<>> /\ at'[h].names = <<>>
         /\ at'[h].error = FALSE /\ at'[h].status = "none"
<1> DEFINE r == [Idle EXCEPT !.n = Len(begun) + 1, !.pc = pc]
<1>1. Others(h) /\ at'[h] = r
  BY DEF HandlersInv, Begins, Others
<1>2. /\ DOMAIN r = Fields /\ r.n = Len(begun) + 1 /\ r.pc = pc /\ r.i = 1 /\ r.actions = <<>>
      /\ r.names = <<>> /\ r.error = FALSE /\ r.status = "none"
  BY DEF Idle, Fields
<1> QED
  BY <1>1, <1>2

\* The journey is left, and nothing else of what it holds is changed.
LEMMA LeaveFacts ==
  ASSUME NEW r, DOMAIN r = Fields, NEW error
  PROVE  /\ DOMAIN Leave(r, error) = Fields /\ Leave(r, error).pc = "finally"
         /\ Leave(r, error).n = r.n /\ Leave(r, error).i = r.i
         /\ Leave(r, error).actions = r.actions /\ Leave(r, error).names = r.names
         /\ Leave(r, error).status = r.status
  BY DEF Leave, Fields

LEMMA LeaveError ==
  ASSUME NEW r, DOMAIN r = Fields, r.error \in BOOLEAN
  PROVE  /\ Leave(r, TRUE).error = TRUE
         /\ Leave(r, FALSE).error = r.error
         /\ Leave(r, TRUE).pc = "finally" /\ Leave(r, FALSE).pc = "finally"
<1>2. Leave(r, TRUE).pc = "finally" /\ Leave(r, FALSE).pc = "finally"
  BY DEF Leave, Fields
<1>1. Leave(r, TRUE).error = (r.error \/ TRUE) /\ Leave(r, FALSE).error = (r.error \/ FALSE)
  BY DEF Leave, Fields
<1> QED
  BY <1>1, <1>2, Zenon
-----------------------------------------------------------------------------
(* The site.                                                               *)

\* Steps that leave the site and the run alone.
LEMMA SiteUntouched ==
  ASSUME SiteInv, NEW h \in Handler, Others(h), UNCHANGED <<siteVars, runVars>>,
         aborted' \subseteq aborted \cup {h},
         at'[h].pc = "starting" => at[h].pc = "starting" /\ aborted' = aborted,
         at'[h].pc = "idle" => h \notin aborted'
  PROVE  SiteInv'
<1>1. SiteTypes' /\ ForgottenInv' /\ CleanupInv'
  BY DEF SiteInv, SiteTypes, ForgottenInv, CleanupInv, siteVars, runVars
<1>2. StartingInv'
  BY DEF SiteInv, StartingInv, siteVars, runVars, Others
<1> QED
  BY <1>1, <1>2 DEF SiteInv

LEMMA SiteBegins ==
  ASSUME SiteInv, HandlersInv, NEW h \in Handler, NEW what, NEW pc,
         Begins(h, what, pc),
         pc # "idle", pc = "starting" => site = 0 /\ \A g \in Handler : at[g].pc # "starting"
  PROVE  SiteInv'
<1>0. at[h].pc = "idle" /\ phase = "running"
  BY IdleFacts DEF Begins
<1>1. Others(h) /\ at'[h].pc = pc /\ phase = "running" /\ h \notin aborted
  BY <1>0, BeginsChange DEF SiteInv, StartingInv
<1>2. StartingInv'
  BY <1>1 DEF SiteInv, StartingInv, Begins, Others
<1>3. cleanups' \in Seq(Nat) /\ cleanups' # <<>> /\ cleanups'[1] = 0
  <2>1. cleanups = <<>> \/ (cleanups # <<>> /\ cleanups[1] = 0)
    BY DEF SiteInv, CleanupInv
  <2>2. CASE cleanups = <<>>
    BY <2>2 DEF Begins, stateFor
  <2>3. CASE cleanups # <<>> /\ cleanups[1] = 0
    BY <2>3 DEF Begins, stateFor, SiteInv, SiteTypes
  <2> QED
    BY <2>1, <2>2, <2>3
<1>4. begun' # <<>>
  BY DEF HandlersInv, Begins
<1>5. SiteTypes' /\ ForgottenInv' /\ CleanupInv'
  BY <1>1, <1>3, <1>4 DEF SiteInv, SiteTypes, ForgottenInv, CleanupInv, Begins
<1> QED
  BY <1>2, <1>5 DEF SiteInv

LEMMA SiteComesUp ==
  ASSUME SiteInv, HandlersInv, NEW h \in Handler, SiteUp(h)
  PROVE  SiteInv'
<1>1. /\ phase = "running" /\ site = 0 /\ servers = <<>> /\ h \notin aborted
      /\ \A g \in Handler : g # h => at[g].pc # "starting"
  BY DEF SiteUp, SiteInv, StartingInv, ForgottenInv
<1>2. servers' \in Seq(ServerState) /\ Len(servers') = 1 /\ site' = 1
  <2>1. servers' = <<"listening">> /\ site' = 1
    BY <1>1 DEF SiteUp
  <2> QED
    BY <2>1 DEF ServerState
<1>3. Others(h) /\ at'[h].pc \in {"returning", "leasing"}
  <2>1. h \in DOMAIN at /\ DOMAIN at[h] = Fields
    BY DEF HandlersInv, Good
  <2> QED
    BY <2>1 DEF HandlersInv, SiteUp, Goes, Others, Fields
<1>4. UNCHANGED <<cleanups, cleaning, platformFailed, phase, begun, aborted>>
  BY DEF SiteUp, runnerOnly, runVars
<1>5. SiteTypes' /\ ForgottenInv' /\ CleanupInv'
  BY <1>1, <1>2, <1>4 DEF SiteInv, SiteTypes, ForgottenInv, CleanupInv
<1>6. StartingInv'
  BY <1>1, <1>3, <1>4 DEF SiteInv, StartingInv, Others
<1> QED
  BY <1>5, <1>6 DEF SiteInv

LEMMA SiteIsLeased ==
  ASSUME SiteInv, HandlersInv, NEW h \in Handler, SiteLeased(h)
  PROVE  SiteInv'
<1>1. Others(h) /\ at'[h].pc = "idle" /\ aborted' = aborted \ {h}
  BY EndsChange, IdleFacts DEF SiteLeased
<1>2. begun # <<>>
  <2>1. Good(at[h]) /\ at[h].pc = "leasing"
    BY DEF SiteLeased, HandlersInv
  <2>2. at[h].n \in DOMAIN begun
    BY <2>1 DEF Good
  <2> QED
    BY <2>2
<1>3. cleanups # <<>> /\ cleanups[1] = 0 /\ cleanups \in Seq(Nat) /\ site \in Nat
  BY <1>2 DEF SiteInv, CleanupInv, SiteTypes
<1>4. cleanups' \in Seq(Nat) /\ cleanups' # <<>> /\ cleanups'[1] = 0
  BY <1>3 DEF SiteLeased, stateFor
<1>5. UNCHANGED <<servers, site, cleaning, platformFailed, phase, begun>>
  BY DEF SiteLeased, runnerOnly, runVars
<1>6. SiteTypes' /\ ForgottenInv' /\ CleanupInv'
  BY <1>2, <1>4, <1>5 DEF SiteInv, SiteTypes, ForgottenInv, CleanupInv
<1>7. StartingInv'
  BY <1>1, <1>5 DEF SiteInv, StartingInv, Others
<1> QED
  BY <1>6, <1>7 DEF SiteInv

\* When the cleanups begin nobody is starting a server, so none comes up behind their back.
LEMMA SiteCleanup ==
  ASSUME SiteInv, HandlersInv, BeginCleanup
  PROVE  SiteInv'
<1>1. UNCHANGED <<at, aborted, begun, servers, site, cleanups, platformFailed>>
  BY DEF BeginCleanup, atRest, siteVars
<1>2. cleanups \in Seq(Nat) /\ Len(cleanups) > 0 /\ cleanups[1] = 0
  BY DEF BeginCleanup, SiteInv, CleanupInv, SiteTypes
<1>3. cleaning' \in Seq(Nat) /\ cleaning' # <<>> /\ cleaning'[Len(cleaning')] = 0
  BY <1>2 DEF BeginCleanup, Reverse
<1>4. SiteTypes' /\ ForgottenInv' /\ CleanupInv'
  BY <1>1, <1>3 DEF SiteInv, SiteTypes, ForgottenInv, CleanupInv, BeginCleanup
<1>5. \A h \in Handler : at[h].pc # "starting"
  BY IdleFacts DEF BeginCleanup, SiteInv, StartingInv
<1>6. StartingInv'
  BY <1>1, <1>5 DEF SiteInv, StartingInv
<1> QED
  BY <1>4, <1>6 DEF SiteInv

\* A cleanup is dropped from the list: the one of the platform state stays the last.
LEMMA CleaningTail ==
  ASSUME SiteTypes, cleaning # <<>>
  PROVE  /\ Tail(cleaning) \in Seq(Nat)
         /\ Len(cleaning) = 1 \/ (/\ Tail(cleaning) # <<>>
                                  /\ Tail(cleaning)[Len(Tail(cleaning))] = cleaning[Len(cleaning)])
         /\ Len(cleaning) = 1 => Head(cleaning) = cleaning[Len(cleaning)]
<1>1. cleaning \in Seq(Nat) /\ Len(cleaning) \in Nat /\ Len(cleaning) > 0
  BY DEF SiteTypes
<1>2. Tail(cleaning) \in Seq(Nat) /\ Len(Tail(cleaning)) = Len(cleaning) - 1
  BY <1>1
<1>3. \A k \in 1..(Len(cleaning) - 1) : Tail(cleaning)[k] = cleaning[k + 1]
  BY <1>1
<1>4. CASE Len(cleaning) = 1
  BY <1>1, <1>2, <1>4
<1>5. CASE Len(cleaning) > 1
  <2>1. Tail(cleaning)[Len(cleaning) - 1] = cleaning[(Len(cleaning) - 1) + 1]
    BY <1>1, <1>3, <1>5
  <2>2. \A t \in Seq(Nat) : Len(t) = Len(cleaning) - 1 => t # <<>>
    BY <1>1, <1>5
  <2>3. Tail(cleaning) # <<>>
    BY <1>2, <2>2
  <2> QED
    BY <1>1, <1>2, <1>5, <2>1, <2>3
<1>6. Len(cleaning) = 1 \/ Len(cleaning) > 1
  BY <1>1
<1> QED
  BY <1>4, <1>5, <1>6

LEMMA SiteStops ==
  ASSUME SiteInv, StopSite
  PROVE  SiteInv'
<1>1. UNCHANGED <<at, aborted, begun, site, cleanups, platformFailed, phase>> /\ phase = "cleaning"
  BY DEF StopSite, atRest
<1>2. StartingInv'
  BY <1>1 DEF SiteInv, StartingInv
<1>3. servers' \in Seq(ServerState) /\ Len(servers') = Len(servers)
  BY DEF StopSite, SiteInv, SiteTypes, ServerState
<1>4. site = 0 => servers' = servers
  BY DEF StopSite, SiteInv, ForgottenInv, SiteTypes
<1>5. /\ cleaning' \in Seq(Nat)
      /\ \/ cleaning' = cleaning
         \/ cleaning' # <<>> /\ cleaning'[Len(cleaning')] = cleaning[Len(cleaning)]
         \/ cleaning[Len(cleaning)] # 0
  BY CleaningTail DEF StopSite, SiteInv, SiteTypes
<1>6. SiteTypes' /\ CleanupInv'
  BY <1>1, <1>3, <1>5 DEF SiteInv, SiteTypes, CleanupInv
<1>7. ForgottenInv'
  BY <1>1, <1>4 DEF SiteInv, ForgottenInv
<1> QED
  BY <1>2, <1>6, <1>7 DEF SiteInv

LEMMA SiteHasStopped ==
  ASSUME SiteInv, SiteStopped
  PROVE  SiteInv'
<1>1. UNCHANGED <<at, aborted, begun, cleanups, platformFailed, phase>> /\ phase = "cleaning"
  BY DEF SiteStopped, atRest
<1>2. \A h \in Handler : at[h].pc # "starting"
  BY <1>1 DEF SiteInv, StartingInv
<1>3. StartingInv'
  BY <1>1, <1>2 DEF SiteInv, StartingInv
<1>4. servers' \in Seq(ServerState) /\ Len(servers') = Len(servers)
  <2>1. servers' = [servers EXCEPT ![Head(cleaning)] = "closed"] /\ servers \in Seq(ServerState)
    BY DEF SiteStopped, SiteInv, SiteTypes
  <2>2. "closed" \in ServerState
    BY DEF ServerState
  <2>3. servers \in [1..Len(servers) -> ServerState] /\ Len(servers) \in Nat
    BY <2>1
  <2>4. servers' \in [1..Len(servers) -> ServerState]
    BY <2>1, <2>2, <2>3
  <2> QED
    BY <2>3, <2>4
<1>5. /\ cleaning' \in Seq(Nat)
      /\ \/ cleaning' # <<>> /\ cleaning'[Len(cleaning')] = cleaning[Len(cleaning)]
         \/ cleaning[Len(cleaning)] # 0
  BY CleaningTail DEF SiteStopped, SiteInv
<1>6. site' \in {0, site} /\ (site = 0 => servers' = servers \/ \A s \in DOMAIN servers' : servers'[s] = "closed")
  BY DEF SiteStopped, SiteInv, SiteTypes, ForgottenInv
<1>7. SiteTypes' /\ CleanupInv'
  BY <1>1, <1>4, <1>5, <1>6 DEF SiteInv, SiteTypes, CleanupInv
<1>8. site' = 0 => \A s \in DOMAIN servers' : servers'[s] = "closed"
  BY DEF SiteStopped, SiteInv, SiteTypes, ForgottenInv
<1>9. ForgottenInv'
  BY <1>1, <1>8 DEF ForgottenInv
<1> QED
  BY <1>3, <1>7, <1>9 DEF SiteInv

LEMMA StateIsCleaned ==
  ASSUME SiteInv, CleanState \/ EndCleanup
  PROVE  SiteInv'
<1>1. UNCHANGED <<at, aborted, begun, servers, site, cleanups>> /\ phase = "cleaning"
  BY DEF CleanState, EndCleanup, atRest, siteVars
<1>2. \A h \in Handler : at[h].pc # "starting"
  BY <1>1 DEF SiteInv, StartingInv
<1>3. StartingInv'
  BY <1>1, <1>2 DEF SiteInv, StartingInv
<1>4. CASE CleanState
  <2>1. cleaning' \in Seq(Nat)
    BY <1>4, CleaningTail DEF CleanState, SiteInv
  <2>2. phase' = phase /\ platformFailed' = (platformFailed \/ site # 0)
    BY <1>4 DEF CleanState
  <2>3. SiteTypes' /\ CleanupInv' /\ ForgottenInv'
    BY <1>1, <2>1, <2>2 DEF SiteInv, SiteTypes, CleanupInv, ForgottenInv
  <2> QED
    BY <1>3, <2>3 DEF SiteInv
<1>5. CASE EndCleanup
  <2>1. phase' = "over" /\ UNCHANGED <<cleaning, platformFailed>> /\ cleaning = <<>>
    BY <1>5 DEF EndCleanup
  <2>2. SiteTypes' /\ CleanupInv' /\ ForgottenInv'
    BY <1>1, <2>1 DEF SiteInv, SiteTypes, CleanupInv, ForgottenInv
  <2> QED
    BY <1>3, <2>2 DEF SiteInv
<1> QED
  BY <1>4, <1>5

-----------------------------------------------------------------------------
(* The evidence: steps before the report, and steps of other handlers.     *)

\* The files of other executions are as they were.
DiskGrows(h) ==
  /\ DOMAIN files \subseteq DOMAIN files'
  /\ \A e \in Execution : \A name \in Name :
       e # begun[at[h].n] /\ <<e, name>> \in DOMAIN files =>
         files'[<<e, name>>] = files[<<e, name>>]

\* Another execution writes nothing over an artifact of e.
LEMMA ArtifactKept ==
  ASSUME NEW h \in Handler, DiskGrows(h), artifacts \subseteq artifacts',
         NEW e \in Execution, e # begun[at[h].n], NEW name \in Name, NEW n,
         HasArtifact(n, e, name)
  PROVE  HasArtifact(n, e, name)'
  BY DEF HasArtifact, DiskGrows

\* What is written of the report of execution e, and of its handler n, is not touched.
EvidenceKept(n, e) ==
  /\ browserReports'[e] = browserReports[e] /\ summaries'[e] = summaries[e]
  /\ {row \in rows' : row.n = n} = {row \in rows : row.n = n}
  /\ \A name \in Name : HasArtifact(n, e, name) => HasArtifact(n, e, name)'

LEMMA PersistKept ==
  ASSUME ReportsInv, NEW g \in Handler, NEW e \in Execution, Persisting(g, e), at[g].n # 0,
         at'[g].n = at[g].n, at'[g].status = at[g].status, at'[g].names = at[g].names,
         at'[g].actions = at[g].actions, EvidenceKept(at[g].n, e)
  PROVE  Persisting(g, e)'
<1> DEFINE r == browserReports[e]
<1>1. r' = r /\ r.n = at[g].n /\ summaries'[e] = summaries[e]
  BY DEF EvidenceKept, Persisting
<1>2. r.names \in Seq(Name)
  BY <1>1 DEF ReportsInv
<1>3. RowsAre(r) => RowsAre(r)'
  BY <1>1 DEF RowsAre, EvidenceKept
<1>4. \A k \in DOMAIN r.names : r.names[k] \in Name
  BY <1>2
<1>5. \A k \in DOMAIN r.names :
        HasArtifact(at[g].n, e, r.names[k]) => HasArtifact(at[g].n, e, r.names[k])'
  BY <1>1, <1>4 DEF EvidenceKept, HasArtifact
<1> QED
  BY <1>1, <1>3, <1>5 DEF Persisting

LEMMA WholeKept ==
  ASSUME ReportsInv, NEW e \in Execution, browserReports[e].n # 0, Whole(e),
         EvidenceKept(browserReports[e].n, e)
  PROVE  Whole(e)'
<1> DEFINE r == browserReports[e]
<1>1. r' = r /\ summaries'[e] = summaries[e] /\ r.names \in Seq(Name)
  BY DEF EvidenceKept, ReportsInv
<1>2. RowsAre(r) => RowsAre(r)'
  BY <1>1 DEF RowsAre, EvidenceKept
<1>3. \A k \in DOMAIN r.names : r.names[k] \in Name
  BY <1>1
<1>4. \A k \in DOMAIN r.names :
        HasArtifact(r.n, e, r.names[k]) => HasArtifact(r.n, e, r.names[k])'
  BY <1>1, <1>3 DEF EvidenceKept, HasArtifact
<1> QED
  BY <1>1, <1>2, <1>4 DEF Whole

\* A handler moves, no evidence is written: what others hold stays true.
LEMMA HandlerMoves ==
  ASSUME EvidenceInv, NEW h \in Handler, Others(h), UNCHANGED <<begun, evidence>>,
         at[h].pc # "idle", at'[h].pc # "idle", at'[h].n = at[h].n,
         Good(at'[h]), Earned(at'[h]), OnDisk(at'[h], DOMAIN files'), DiskGrows(h),
         at[h].pc = "persisting" =>
           /\ at'[h].pc = "persisting" /\ at'[h].status = at[h].status
           /\ at'[h].names = at[h].names /\ at'[h].actions = at[h].actions /\ UNCHANGED files,
         at[h].pc # "persisting" => at'[h].pc # "persisting"
  PROVE  EvidenceInv'
<1>0. UNCHANGED <<rows, summaries, artifacts, browserReports, refused>>
  BY DEF evidence
<1>1. HandlersInv'
  <2>1. ASSUME NEW g \in Handler
        PROVE  (Good(at[g]) /\ Earned(at[g]) /\ OnDisk(at[g], DOMAIN files))'
    <3>1. CASE g = h
      <4>1. Good(at'[g]) /\ Earned(at'[g]) /\ OnDisk(at'[g], DOMAIN files')
        BY <3>1
      <4> QED
        BY <4>1 DEF Good, Earned, OnDisk
    <3>2. CASE g # h
      <4>1. at'[g] = at[g] /\ Good(at[g]) /\ Earned(at[g]) /\ OnDisk(at[g], DOMAIN files)
        BY <3>2 DEF Others, EvidenceInv, HandlersInv
      <4>2. DOMAIN files \subseteq DOMAIN files'
        BY DEF DiskGrows
      <4> QED
        BY <4>1, <4>2 DEF Good, Earned, OnDisk
    <3> QED
      BY <3>1, <3>2
  <2>2. ASSUME NEW f \in Handler, NEW g \in Handler, f # g, at'[f].pc # "idle"
        PROVE  at'[f].n # at'[g].n
    BY <2>2 DEF Others, EvidenceInv, HandlersInv
  <2> QED
    BY <2>1, <2>2 DEF Others, EvidenceInv, HandlersInv
<1>2. ReportsInv'
  BY <1>0 DEF EvidenceInv, ReportsInv, AllPassed
<1>3. FreshInv'
  BY <1>0 DEF EvidenceInv, FreshInv, Others
<1>4. PersistInv'
  <2>1. SUFFICES ASSUME NEW g \in Handler, at'[g].pc = "persisting", Alone(at[g].n)'
                 PROVE  Persisting(g, begun[at[g].n])'
    BY DEF PersistInv
  <2> DEFINE e == begun[at[g].n]
  <2>2. at[g].pc = "persisting" /\ at'[g].n = at[g].n
    BY <2>1 DEF Others
  <2>3. Alone(at[g].n)
    BY <2>1, <2>2 DEF Alone
  <2>4. Persisting(g, e) /\ e \in Execution /\ e' = e
    BY <2>1, <2>2, <2>3 DEF EvidenceInv, PersistInv, HandlersInv, Good, JourneyPc
  <2>5. at'[g].status = at[g].status /\ at'[g].names = at[g].names /\ at'[g].actions = at[g].actions
    BY <2>2 DEF Others
  <2>6. ASSUME NEW name \in Name, NEW n, HasArtifact(n, e, name)
        PROVE  HasArtifact(n, e, name)'
    <3>1. CASE g = h
      BY <1>0, <2>2, <2>6, <3>1 DEF HasArtifact
    <3>2. CASE g # h
      <4>1. at[h].n \in DOMAIN begun /\ at[g].n \in DOMAIN begun /\ at[g].n # at[h].n
        BY <2>2, <3>2 DEF EvidenceInv, HandlersInv, Good
      <4>2. e # begun[at[h].n]
        BY <2>3, <4>1 DEF Alone
      <4> QED
        BY <1>0, <2>4, <2>6, <4>2, ArtifactKept
    <3> QED
      BY <3>1, <3>2
  <2>7. at[g].n # 0
    BY <2>2 DEF EvidenceInv, HandlersInv, Good
  <2>8. EvidenceKept(at[g].n, e)
    BY <1>0, <2>2, <2>4, <2>6 DEF EvidenceKept
  <2> HIDE DEF e
  <2>9. Persisting(g, e)'
    BY <2>2, <2>4, <2>5, <2>7, <2>8, PersistKept DEF EvidenceInv
  <2> QED
    BY <2>9, <2>4 DEF e
<1>5. DoneInv'
  <2>1. SUFFICES ASSUME NEW e \in Execution, browserReports'[e].n # 0, Alone(browserReports[e].n)',
                        Gone(browserReports[e].n)', browserReports'[e].n \notin refused'
                 PROVE  Whole(e)'
    BY DEF DoneInv
  <2> DEFINE n == browserReports[e].n
  <2>2. n # 0 /\ Alone(n) /\ Gone(n) /\ n \notin refused
    BY <1>0, <2>1 DEF Alone, Gone, Others
  <2>3. Whole(e) /\ begun[n] = e /\ n \in DOMAIN begun /\ at[h].n \in DOMAIN begun /\ at[h].n # n
    BY <2>2 DEF EvidenceInv, DoneInv, ReportsInv, Gone, HandlersInv, Good
  <2>4. e # begun[at[h].n]
    BY <2>2, <2>3 DEF Alone
  <2>5. EvidenceKept(n, e)
    BY <1>0, <2>4, ArtifactKept DEF EvidenceKept
  <2> QED
    BY <2>2, <2>3, <2>5, WholeKept DEF EvidenceInv
<1> QED
  BY <1>1, <1>2, <1>3, <1>4, <1>5 DEF EvidenceInv

LEMMA HandlerBegins ==
  ASSUME EvidenceInv, NEW h \in Handler, NEW what \in Execution \cup {"site"},
         NEW pc \in {"starting", "leasing", "returning", "workspace"}, Begins(h, what, pc),
         pc = "workspace" => what \in Execution
  PROVE  EvidenceInv'
<1> DEFINE n == Len(begun) + 1
<1>0. HandlersInv /\ ReportsInv /\ FreshInv /\ PersistInv /\ DoneInv
  BY DEF EvidenceInv
<1>1. /\ Others(h) /\ DOMAIN at'[h] = Fields /\ at'[h].n = n /\ at'[h].pc = pc
      /\ at'[h].i = 1 /\ at'[h].actions = <<>> /\ at'[h].names = <<>>
      /\ at'[h].error = FALSE /\ at'[h].status = "none"
  BY <1>0, BeginsChange
<1>2. /\ UNCHANGED <<files, rows, summaries, artifacts, browserReports, refused>>
      /\ at[h] = Idle /\ begun' = Append(begun, what)
  BY DEF Begins, evidence
<1>3. /\ begun' \in Seq(Execution \cup {"site"}) /\ n \in Nat /\ begun'[n] = what
      /\ DOMAIN begun' = DOMAIN begun \cup {n} /\ n \notin DOMAIN begun
      /\ \A m \in DOMAIN begun : begun'[m] = begun[m]
  BY <1>0, <1>2 DEF HandlersInv
<1> HIDE DEF n
<1>4. ASSUME NEW g \in Handler, g # h
      PROVE  at'[g] = at[g] /\ at[g].n # n /\ Good(at[g]) /\ Earned(at[g])
             /\ OnDisk(at[g], DOMAIN files)
  <2>1. at'[g] = at[g] /\ Good(at[g]) /\ Earned(at[g]) /\ OnDisk(at[g], DOMAIN files)
    BY <1>0, <1>1, <1>4 DEF Others, HandlersInv
  <2>2. CASE at[g].pc = "idle"
    <3>1. at[g].n = 0
      BY <2>1, <2>2, IdleFacts DEF Good
    <3>2. n # 0
      BY <1>0 DEF n, HandlersInv
    <3> QED
      BY <2>1, <3>1, <3>2
  <2>3. CASE at[g].pc # "idle"
    BY <1>3, <2>1, <2>3 DEF Good
  <2> QED
    BY <2>2, <2>3
<1>5. HandlersInv'
  <2>1. (Good(at[h]) /\ Earned(at[h]) /\ OnDisk(at[h], DOMAIN files))'
    <3>1. at'[h].actions \in Seq(Action) /\ at'[h].names \in Seq(Name) /\ DOMAIN at'[h].names = {}
      BY <1>1
    <3>2. Good(at[h])'
      <4>1. at'[h].pc \in Pc /\ at'[h].pc # "idle" /\ at'[h].i \in Nat
        BY <1>1 DEF Pc, JourneyPc, Early
      <4>4. at'[h].error \in BOOLEAN
        BY <1>1
      <4>2. at'[h].n \in DOMAIN begun' /\ begun'[at'[h].n] = what
        BY <1>1, <1>3
      <4>3. at'[h].pc \in JourneyPc => what \in Execution
        BY <1>1 DEF JourneyPc, Early
      <4> QED
        BY <1>1, <3>1, <4>1, <4>2, <4>3, <4>4 DEF Good
    <3>3. Earned(at[h])'
      BY <1>1 DEF Earned, Early
    <3>4. OnDisk(at[h], DOMAIN files)'
      BY <3>1 DEF OnDisk
    <3> QED
      BY <3>2, <3>3, <3>4
  <2>2. ASSUME NEW g \in Handler, g # h
        PROVE  (Good(at[g]) /\ Earned(at[g]) /\ OnDisk(at[g], DOMAIN files))'
    <3>1. at'[g] = at[g] /\ Good(at[g]) /\ Earned(at[g]) /\ OnDisk(at[g], DOMAIN files)
      BY <1>4, <2>2
    <3>2. at[g].pc # "idle" => begun'[at[g].n] = begun[at[g].n] /\ at[g].n \in DOMAIN begun'
      BY <1>3, <3>1 DEF Good
    <3>3. Good(at[g])'
      BY <3>1, <3>2 DEF Good, JourneyPc, Early
    <3>4. Earned(at[g])'
      BY <3>1, <3>2 DEF Earned, Early
    <3>5. OnDisk(at[g], DOMAIN files)'
      BY <1>2, <3>1, <3>2 DEF OnDisk, JourneyPc, Early
    <3> QED
      BY <3>3, <3>4, <3>5
  <2>3. ASSUME NEW f \in Handler, NEW g \in Handler, f # g, at'[f].pc # "idle"
        PROVE  at'[f].n # at'[g].n
    BY <1>0, <1>1, <1>4, <2>3 DEF HandlersInv
  <2>4. DOMAIN at' = Handler
    BY <1>1 DEF Others
  <2>5. \A g \in Handler : (Good(at[g]) /\ Earned(at[g]) /\ OnDisk(at[g], DOMAIN files))'
    BY <2>1, <2>2
  <2> QED
    BY <1>3, <2>3, <2>4, <2>5 DEF HandlersInv
<1>6. ReportsInv'
  BY <1>0, <1>2, <1>3 DEF ReportsInv, AllPassed
<1>7. FreshInv'
  <2>1. \A row \in rows' : row.n \in DOMAIN begun' /\ row.n # n
    BY <1>0, <1>2, <1>3 DEF FreshInv
  <2>2. \A e \in Execution : browserReports'[e].n # n
    <3>1. n # 0
      BY <1>0 DEF n, HandlersInv
    <3> QED
      BY <1>0, <1>2, <1>3, <3>1 DEF ReportsInv
  <2> QED
    BY <1>0, <1>1, <1>2, <1>4, <2>1, <2>2 DEF FreshInv
<1>8. \A m \in DOMAIN begun : Alone(m)' => Alone(m)
  BY <1>3 DEF Alone
<1>9. PersistInv'
  <2>1. SUFFICES ASSUME NEW g \in Handler, at'[g].pc = "persisting", Alone(at[g].n)'
                 PROVE  Persisting(g, begun[at[g].n])'
    BY DEF PersistInv
  <2>2. g # h /\ at'[g] = at[g] /\ at[g].pc = "persisting"
    BY <1>1, <1>4, <2>1
  <2>3. PICK m \in DOMAIN begun : m = at[g].n /\ m = at'[g].n
    BY <1>4, <2>2 DEF Good
  <2>4. PICK e \in Execution : e = begun[m] /\ e = begun'[m]
    BY <1>3, <1>4, <2>2, <2>3 DEF Good, JourneyPc
  <2>5. Alone(m)
    BY <1>8, <2>1, <2>3 DEF Alone
  <2>6. Persisting(g, e)
    BY <1>0, <2>2, <2>3, <2>4, <2>5 DEF PersistInv
  <2>7. at[g].n # 0
    BY <1>0, <2>3 DEF HandlersInv
  <2>8. EvidenceKept(at[g].n, e)
    BY <1>2, <2>2 DEF EvidenceKept, HasArtifact
  <2>9. Persisting(g, e)'
    BY <1>0, <2>2, <2>6, <2>7, <2>8, PersistKept
  <2> QED
    BY <2>3, <2>4, <2>9
<1>10. DoneInv'
  <2>1. SUFFICES ASSUME NEW e \in Execution, browserReports'[e].n # 0, Alone(browserReports[e].n)',
                        Gone(browserReports[e].n)', browserReports'[e].n \notin refused'
                 PROVE  Whole(e)'
    BY DEF DoneInv
  <2>2. PICK m \in DOMAIN begun : m = browserReports[e].n /\ m = browserReports'[e].n
    BY <1>0, <1>2, <2>1 DEF ReportsInv
  <2>3. Alone(m) /\ m # 0 /\ m \notin refused
    BY <1>2, <1>8, <2>1, <2>2 DEF Alone
  <2>4. Gone(m)
    <3>1. at[h].n = 0
      BY <1>2, IdleFacts
    <3> QED
      BY <1>4, <2>1, <2>2, <2>3, <3>1 DEF Gone
  <2>5. Whole(e)
    BY <1>0, <2>2, <2>3, <2>4 DEF DoneInv
  <2>6. EvidenceKept(browserReports[e].n, e)
    BY <1>2 DEF EvidenceKept, HasArtifact
  <2> QED
    BY <1>0, <2>2, <2>3, <2>5, <2>6, WholeKept
<1> QED
  BY <1>5, <1>6, <1>7, <1>9, <1>10 DEF EvidenceInv

\* A handler ends: its evidence was refused, or it had no report yet, or all of it is written.
LEMMA HandlerEnds ==
  ASSUME EvidenceInv, NEW h \in Handler, Others(h), at'[h] = Idle, at[h].pc # "idle",
         UNCHANGED <<begun, files, summaries, artifacts, browserReports>>,
         refused \subseteq refused',
         \/ at[h].pc # "persisting" /\ UNCHANGED rows
         \/ at[h].pc = "persisting" /\ at[h].status = "none" /\ at[h].names = <<>> /\ UNCHANGED rows
         \/ /\ at[h].n \in refused' /\ rows \subseteq rows'
            /\ \A row \in rows' : row \in rows \/ row.n = at[h].n
  PROVE  EvidenceInv'
<1>0. HandlersInv /\ ReportsInv /\ FreshInv /\ PersistInv /\ DoneInv
  BY DEF EvidenceInv
<1>1. \A g \in Handler : g # h => at'[g] = at[g] /\ at[g].n # at[h].n
  BY <1>0 DEF Others, HandlersInv
<1>2. at'[h].n = 0 /\ at'[h].pc = "idle" /\ at[h].n \in DOMAIN begun /\ 0 \notin DOMAIN begun
  BY <1>0, IdleFacts DEF HandlersInv, Good
<1>3. rows \subseteq rows' /\ \A row \in rows' : row \in rows \/ row.n = at[h].n
  OBVIOUS
<1>4. HandlersInv'
  <2>1. (Good(at[h]) /\ Earned(at[h]) /\ OnDisk(at[h], DOMAIN files))'
    <3>1. /\ Idle.actions \in Seq(Action) /\ Idle.names \in Seq(Name) /\ Idle.pc \in Pc
          /\ Idle.pc \notin JourneyPc /\ Idle.i \in Nat
      BY IdleFacts DEF Pc, JourneyPc, Early
    <3>4. Idle.error \in BOOLEAN
      BY IdleFacts
    <3>5. at[h]' = Idle
      OBVIOUS
    <3>2. Good(at[h])'
      BY ONLY <3>1, <3>4, <3>5, IdleFacts DEF Good
    <3>3. Earned(at[h])' /\ OnDisk(at[h], DOMAIN files)'
      BY <3>1, IdleFacts DEF Earned, Early, OnDisk
    <3> QED
      BY <3>2, <3>3
  <2>2. ASSUME NEW g \in Handler, g # h
        PROVE  (Good(at[g]) /\ Earned(at[g]) /\ OnDisk(at[g], DOMAIN files))'
    <3>1. at[g]' = at[g] /\ begun' = begun /\ files' = files
      BY <1>1, <2>2
    <3>2. Good(at[g]) /\ Earned(at[g]) /\ OnDisk(at[g], DOMAIN files)
      BY <1>0 DEF HandlersInv
    <3> QED
      BY ONLY <3>1, <3>2 DEF Good, Earned, OnDisk
  <2>3. ASSUME NEW f \in Handler, NEW g \in Handler, f # g, at'[f].pc # "idle"
        PROVE  at'[f].n # at'[g].n
    <3>1. f # h /\ at'[f] = at[f] /\ at[f].n \in DOMAIN begun
      BY <1>0, <1>1, <1>2, <2>3 DEF HandlersInv, Good
    <3>2. CASE g = h
      BY <1>2, <3>1, <3>2
    <3>3. CASE g # h
      BY <1>0, <1>1, <2>3, <3>1, <3>3 DEF HandlersInv
    <3> QED
      BY <3>2, <3>3
  <2>4. DOMAIN at' = Handler /\ begun' \in Seq(Execution \cup {"site"})
    BY <1>0 DEF Others, HandlersInv
  <2>5. \A g \in Handler : (Good(at[g]) /\ Earned(at[g]) /\ OnDisk(at[g], DOMAIN files))'
    BY <2>1, <2>2
  <2> QED
    BY <2>3, <2>4, <2>5 DEF HandlersInv
<1>5. ReportsInv'
  BY <1>0 DEF ReportsInv, AllPassed
<1>6. FreshInv'
  <2>1. \A row \in rows' : row.n \in DOMAIN begun'
    BY <1>0, <1>2, <1>3 DEF FreshInv
  <2>2. ASSUME NEW g \in Handler, g # h, at'[g].pc # "persisting" \/ at'[g].status # "none"
        PROVE  \A row \in rows' : row.n # at'[g].n
    BY <1>0, <1>1, <1>3, <2>2 DEF FreshInv
  <2>3. \A row \in rows' : row.n # at'[h].n
    BY <1>2, <2>1
  <2>4. ASSUME NEW g \in Handler, at'[g].pc \notin {"idle", "persisting"}
        PROVE  \A e \in Execution : browserReports'[e].n # at'[g].n
    BY <1>0, <1>1, <1>2, <2>4 DEF FreshInv
  <2> QED
    BY <2>1, <2>2, <2>3, <2>4 DEF FreshInv
<1>7. \A m \in DOMAIN begun : Alone(m)' => Alone(m)
  BY DEF Alone
<1>8. ASSUME NEW m, m # at[h].n, NEW e
      PROVE  EvidenceKept(m, e)
  BY <1>3, <1>8 DEF EvidenceKept, HasArtifact
<1>9. PersistInv'
  <2>1. SUFFICES ASSUME NEW g \in Handler, at'[g].pc = "persisting", Alone(at[g].n)'
                 PROVE  Persisting(g, begun[at[g].n])'
    BY DEF PersistInv
  <2>2. g # h /\ at'[g] = at[g] /\ at[g].pc = "persisting" /\ at[g].n # at[h].n
    BY <1>1, <1>2, <2>1
  <2>3. PICK m \in DOMAIN begun : m = at[g].n /\ m = at'[g].n
    BY <1>0, <2>2 DEF Good, HandlersInv
  <2>4. PICK e \in Execution : e = begun[m] /\ e = begun'[m]
    BY <1>0, <2>2, <2>3 DEF Good, HandlersInv, JourneyPc
  <2>5. Alone(m)
    BY <1>7, <2>1, <2>3 DEF Alone
  <2>6. Persisting(g, e)
    BY <1>0, <2>2, <2>3, <2>4, <2>5 DEF PersistInv
  <2>7. at[g].n # 0
    BY <1>2, <2>3
  <2>8. EvidenceKept(m, e)
    BY <1>8, <2>2, <2>3
  <2>9. EvidenceKept(at[g].n, e)
    BY <2>3, <2>8 DEF EvidenceKept
  <2>10. Persisting(g, e)'
    BY <1>0, <2>2, <2>6, <2>7, <2>9, PersistKept
  <2> QED
    BY <2>3, <2>4, <2>10
<1>10. DoneInv'
  <2>1. SUFFICES ASSUME NEW e \in Execution, browserReports'[e].n # 0, Alone(browserReports[e].n)',
                        Gone(browserReports[e].n)', browserReports'[e].n \notin refused'
                 PROVE  Whole(e)'
    BY DEF DoneInv
  <2>2. PICK m \in DOMAIN begun : m = browserReports[e].n /\ m = browserReports'[e].n
    BY <1>0, <2>1 DEF ReportsInv
  <2>3. Alone(m) /\ m # 0 /\ m \notin refused /\ begun[m] = e
    BY <1>0, <1>7, <2>1, <2>2 DEF Alone, ReportsInv
  <2>4. CASE m # at[h].n
    <3>1. Gone(m)
      BY <1>1, <2>1, <2>2, <2>4 DEF Gone
    <3>2. Whole(e)
      BY <1>0, <2>2, <2>3, <3>1 DEF DoneInv
    <3>3. EvidenceKept(m, e)
      BY <1>8, <2>4
    <3>4. EvidenceKept(browserReports[e].n, e)
      BY <2>2, <3>3 DEF EvidenceKept
    <3> QED
      BY <1>0, <2>2, <2>3, <3>2, <3>4, WholeKept
  <2>5. CASE m = at[h].n
    <3>1. at[h].pc = "persisting"
      BY <1>0, <2>2, <2>5 DEF FreshInv
    <3>2. at[h].status = "none" /\ at[h].names = <<>> /\ rows' = rows
      BY <2>1, <2>2, <2>5, <3>1
    <3>3. Persisting(h, e)
      BY <1>0, <2>3, <2>5, <3>1 DEF PersistInv
    <3>4. Whole(e)
      BY <3>2, <3>3 DEF Persisting, Whole
    <3>5. EvidenceKept(m, e)
      BY <3>2 DEF EvidenceKept, HasArtifact
    <3>6. EvidenceKept(browserReports[e].n, e)
      BY <2>2, <3>5 DEF EvidenceKept
    <3> QED
      BY <1>0, <2>2, <2>3, <3>4, <3>6, WholeKept
  <2> QED
    BY <2>4, <2>5
<1> QED
  BY <1>4, <1>5, <1>6, <1>9, <1>10 DEF EvidenceInv

-----------------------------------------------------------------------------
(* The steps of a journey.                                                 *)

\* What a handler writes is on the disk afterwards; other executions have their own directory.
LEMMA WriteFacts ==
  ASSUME NEW h \in Handler, NEW names, write(h, names)
  PROVE  /\ DiskGrows(h)
         /\ DOMAIN files' = DOMAIN files \cup {<<begun[at[h].n], name>> : name \in names}
<1>1. DOMAIN files' = DOMAIN files \cup {<<begun[at[h].n], name>> : name \in names}
  BY DEF write, location, executionOf
<1>2. ASSUME NEW e \in Execution, NEW name \in Name, e # begun[at[h].n],
             <<e, name>> \in DOMAIN files
      PROVE  files'[<<e, name>>] = files[<<e, name>>]
  <2>1. ~ \E other \in names : <<e, name>> = location(h, other)
    BY <1>2 DEF location, executionOf
  <2> QED
    BY <1>2, <2>1 DEF write
<1> QED
  BY <1>1, <1>2 DEF DiskGrows

LEMMA DiskSame ==
  ASSUME NEW h \in Handler, UNCHANGED files
  PROVE  DiskGrows(h)
  BY DEF DiskGrows

\* The loop goes on only with steps left.
LEMMA LoopHeadFacts ==
  ASSUME HandlersInv, NEW h \in Handler, at[h].pc \in JourneyPc, NEW r, DOMAIN r = Fields,
         r.n = at[h].n, r.i \in Nat \ {0}, r.error = FALSE, r.names \in Seq(Name),
         r.actions \in Seq(Action), Len(r.actions) = r.i - 1, AllPassed(r.actions),
         r.i <= Len(stepsOf(h)) + 1
  PROVE  LET s == loopHead(r, h)
         IN /\ Good(s) /\ Earned(s) /\ s.n = r.n /\ s.names = r.names
            /\ s.pc \in {"step", "finally"}
<1> DEFINE s == loopHead(r, h)
<1>0. r.n \in DOMAIN begun /\ begun[r.n] \in Execution /\ r.error \in BOOLEAN
  BY DEF HandlersInv, Good, JourneyPc, Early
<1>1. /\ DOMAIN s = Fields /\ s.n = r.n /\ s.i = r.i /\ s.actions = r.actions /\ s.names = r.names
      /\ s.pc \in {"step", "finally"}
  <2> DEFINE t == [r EXCEPT !.pc = "step", !.usable = r.context = "open"]
  <2>1. /\ DOMAIN t = Fields /\ t.n = r.n /\ t.i = r.i /\ t.actions = r.actions
        /\ t.names = r.names /\ t.pc = "step"
    BY DEF Fields
  <2>2. s \in {Leave(r, FALSE), Leave(r, TRUE), t}
    BY DEF loopHead
  <2>3. DOMAIN r = Fields
    OBVIOUS
  <2>4. ASSUME NEW x \in {Leave(r, FALSE), Leave(r, TRUE), t}
        PROVE  /\ DOMAIN x = Fields /\ x.n = r.n /\ x.i = r.i /\ x.actions = r.actions
               /\ x.names = r.names /\ x.pc \in {"step", "finally"}
    <3>1. x = Leave(r, FALSE) \/ x = Leave(r, TRUE) \/ x = t
      OBVIOUS
    <3> HIDE DEF t
    <3>2. CASE x = Leave(r, FALSE)
      BY ONLY <2>3, <3>2, LeaveFacts
    <3>3. CASE x = Leave(r, TRUE)
      BY ONLY <2>3, <3>3, LeaveFacts
    <3>4. CASE x = t
      BY ONLY <2>1, <3>4
    <3> QED
      BY <3>1, <3>2, <3>3, <3>4
  <2> HIDE DEF s, t
  <2> QED
    BY <2>2, <2>4
<1>2. stepsOf(h) = Steps[begun[r.n]] /\ Len(stepsOf(h)) \in Nat
  BY <1>0, StepsAssumption DEF stepsOf, executionOf
<1>3. CASE r.i > Len(stepsOf(h))
  <2>1. s = Leave(r, FALSE)
    BY <1>3 DEF loopHead
  <2>2. s.pc = "finally" /\ s.error = FALSE
    <3>1. DOMAIN r = Fields /\ r.error \in BOOLEAN /\ r.error = FALSE
      BY <1>0
    <3>2. Leave(r, FALSE).pc = "finally" /\ Leave(r, FALSE).error = FALSE
      BY ONLY <3>1, LeaveError, Zenon
    <3> QED
      BY ONLY <2>1, <3>2, Zenon
  <2>3. Len(s.actions) = Len(Steps[begun[s.n]])
    BY <1>0, <1>1, <1>2, <1>3
  <2>4. Earned(s)
    BY <1>1, <2>2, <2>3 DEF Earned, Early
  <2>5. Good(s)
    BY <1>0, <1>1, <2>2 DEF Good, Pc, JourneyPc, Early
  <2> QED
    BY <1>1, <2>4, <2>5
<1>4. CASE ~(r.i > Len(stepsOf(h))) /\ h \in aborted
  <2>1. s = Leave(r, TRUE)
    BY <1>4 DEF loopHead
  <2>2. s.pc = "finally" /\ s.error = TRUE
    <3>1. DOMAIN r = Fields /\ r.error \in BOOLEAN /\ r.error = FALSE
      BY <1>0
    <3>2. Leave(r, TRUE).pc = "finally" /\ Leave(r, TRUE).error = TRUE
      BY ONLY <3>1, LeaveError, Zenon
    <3> QED
      BY ONLY <2>1, <3>2, Zenon
  <2>4. Earned(s)
    BY <1>1, <2>2 DEF Earned, Early
  <2>5. Good(s)
    BY <1>0, <1>1, <2>2 DEF Good, Pc, JourneyPc, Early
  <2> QED
    BY <1>1, <2>4, <2>5
<1>5. CASE ~(r.i > Len(stepsOf(h))) /\ h \notin aborted
  <2>1. s = [r EXCEPT !.pc = "step", !.usable = r.context = "open"]
    BY <1>5 DEF loopHead
  <2>2. s.pc = "step" /\ s.error = r.error
    BY <2>1 DEF Fields
  <2>4. Earned(s)
    BY <1>0, <1>1, <1>2, <1>5, <2>2 DEF Earned, Early
  <2>5. Good(s)
    BY <1>0, <1>1, <2>2 DEF Good, Pc, JourneyPc, Early
  <2> QED
    BY <1>1, <2>4, <2>5
<1> QED
  BY <1>3, <1>4, <1>5

\* A move that changes nothing that the evidence is made of.
LEMMA HandlerHolds ==
  ASSUME EvidenceInv, NEW h \in Handler, Others(h), UNCHANGED <<begun, evidence, files>>,
         at[h].pc # "idle", DOMAIN at'[h] = Fields, at'[h].n = at[h].n, at'[h].i = at[h].i,
         at'[h].actions = at[h].actions, at'[h].names = at[h].names,
         at'[h].error = at[h].error, at'[h].status = at[h].status,
         \/ at'[h].pc = at[h].pc
         \/ at[h].pc \in Early /\ at'[h].pc \in Early
         \/ at[h].pc = "starting" /\ at'[h].pc \in {"leasing", "returning"}
  PROVE  EvidenceInv'
<1>1. Good(at[h]) /\ Earned(at[h]) /\ OnDisk(at[h], DOMAIN files)
  BY DEF EvidenceInv, HandlersInv
<1>2. at'[h].pc \in Pc /\ at'[h].pc # "idle" /\ (at'[h].pc \in JourneyPc <=> at[h].pc \in JourneyPc)
  BY <1>1 DEF Good, Pc, JourneyPc, Early
<1>3. Good(at'[h])
  BY <1>1, <1>2 DEF Good
<1>4. Earned(at'[h])
  BY <1>1 DEF Earned, Early
<1>5. OnDisk(at'[h], DOMAIN files')
  BY <1>1, <1>2 DEF OnDisk
<1>6. DiskGrows(h)
  BY DiskSame
<1>7. (at[h].pc = "persisting") <=> (at'[h].pc = "persisting")
  BY DEF Early
<1> QED
  BY <1>2, <1>3, <1>4, <1>5, <1>6, <1>7, HandlerMoves

\* The journey is left with an error before its first step.
LEMMA HandlerLeaves ==
  ASSUME EvidenceInv, NEW h \in Handler, UNCHANGED <<begun, evidence, files>>,
         at[h].pc \in Early, Others(h), at'[h] = Leave(at[h], TRUE)
  PROVE  EvidenceInv' /\ at'[h].pc = "finally"
<1>1. Good(at[h]) /\ Earned(at[h]) /\ OnDisk(at[h], DOMAIN files)
  BY DEF EvidenceInv, HandlersInv
<1>2. DOMAIN at[h] = Fields /\ at[h].error \in BOOLEAN
  BY <1>1 DEF Good
<1>3. at'[h].pc = "finally" /\ at'[h].error = TRUE
  <2>1. Leave(at[h], TRUE).pc = "finally" /\ Leave(at[h], TRUE).error = TRUE
    BY <1>2, LeaveError
  <2> QED
    BY ONLY <2>1, at'[h] = Leave(at[h], TRUE)
<1>4. /\ DOMAIN at'[h] = Fields /\ at'[h].n = at[h].n /\ at'[h].i = at[h].i
      /\ at'[h].actions = at[h].actions /\ at'[h].names = at[h].names
  BY <1>2 DEF Leave, Fields
<1>5. Good(at'[h])
  BY <1>1, <1>3, <1>4 DEF Good, Pc, JourneyPc, Early
<1>6. Earned(at'[h])
  BY <1>3 DEF Earned, Early
<1>7. OnDisk(at'[h], DOMAIN files')
  BY <1>1, <1>4 DEF OnDisk, JourneyPc
<1>8. DiskGrows(h)
  BY DiskSame
<1>9. at[h].pc # "idle" /\ at[h].pc # "persisting"
  BY DEF Early
<1>10. EvidenceInv'
  BY <1>3, <1>4, <1>5, <1>6, <1>7, <1>8, <1>9, HandlerMoves
<1> QED
  BY <1>3, <1>10

LEMMA AbandonHolds ==
  ASSUME EvidenceInv, SiteInv, NEW h \in Handler, Abandon(h)
  PROVE  EvidenceInv' /\ SiteInv'
<1>1. DOMAIN at = Handler /\ DOMAIN at[h] = Fields
  BY DEF EvidenceInv, HandlersInv, Good
<1>2. /\ Others(h) /\ DOMAIN at'[h] = Fields /\ at'[h].n = at[h].n /\ at'[h].i = at[h].i
      /\ at'[h].actions = at[h].actions /\ at'[h].names = at[h].names
      /\ at'[h].error = at[h].error /\ at'[h].status = at[h].status /\ at'[h].pc = at[h].pc
  <2>1. UNCHANGED at \/ at' = [at EXCEPT ![h].context = "closed"]
    BY DEF Abandon, Heard
  <2> QED
    BY <1>1, <2>1 DEF Others, Fields
<1>3. /\ UNCHANGED <<begun, evidence, files, siteVars, runVars>> /\ aborted' = aborted \cup {h}
      /\ at[h].pc # "idle" /\ at[h].pc # "starting"
  BY DEF Abandon, runVars
<1>4. EvidenceInv'
  BY <1>2, <1>3, HandlerHolds
<1>5. SiteInv'
  BY <1>2, <1>3, SiteUntouched
<1> QED
  BY <1>4, <1>5

LEMMA TimerHolds ==
  ASSUME EvidenceInv, SiteInv, NEW h \in Handler, TimerFires(h)
  PROVE  EvidenceInv' /\ SiteInv'
<1>1. DOMAIN at = Handler /\ DOMAIN at[h] = Fields /\ (at[h].pc = "idle" => at[h] = Idle)
  BY DEF EvidenceInv, HandlersInv, Good
<1>2. /\ Others(h) /\ DOMAIN at'[h] = Fields /\ at'[h].n = at[h].n /\ at'[h].i = at[h].i
      /\ at'[h].actions = at[h].actions /\ at'[h].names = at[h].names
      /\ at'[h].error = at[h].error /\ at'[h].status = at[h].status /\ at'[h].pc = at[h].pc
  BY <1>1 DEF TimerFires, Others, Fields
<1>3. UNCHANGED <<begun, evidence, files, siteVars, runVars, aborted>>
  BY DEF TimerFires, inBrowser, runVars
<1>4. at[h].pc # "idle"
  <2>1. Idle.timer = "off"
    BY DEF Idle
  <2> QED
    BY <1>1, <2>1 DEF TimerFires
<1>5. EvidenceInv'
  BY <1>2, <1>3, <1>4, HandlerHolds
<1>6. SiteInv'
  BY <1>2, <1>3, <1>4, SiteUntouched
<1> QED
  BY <1>5, <1>6

LEMMA OpeningHolds ==
  ASSUME EvidenceInv, SiteInv, NEW h \in Handler, Launch(h) \/ Opened(h) \/ OpenFails(h)
  PROVE  EvidenceInv' /\ SiteInv'
<1>1. DOMAIN at = Handler /\ DOMAIN at[h] = Fields /\ at[h].pc \in Early
  BY DEF EvidenceInv, HandlersInv, Good, Launch, Opened, OpenFails, Early
<1>2. UNCHANGED <<begun, evidence, files, siteVars, runVars, aborted>>
  BY DEF Launch, Opened, OpenFails, inBrowser, runVars
<1>3. CASE at' = [at EXCEPT ![h] = Leave(@, TRUE)]
  <2>1. Others(h) /\ at'[h] = Leave(at[h], TRUE)
    BY <1>1, <1>3 DEF Others
  <2>2. EvidenceInv' /\ at'[h].pc = "finally"
    BY <1>1, <1>2, <2>1, HandlerLeaves
  <2> QED
    BY <1>2, <2>1, <2>2, SiteUntouched
<1>4. CASE \/ Launch(h) /\ at' = [at EXCEPT ![h].pc = "launching"]
           \/ Opened(h)
  <2>1. /\ Others(h) /\ DOMAIN at'[h] = Fields /\ at'[h].n = at[h].n /\ at'[h].i = at[h].i
        /\ at'[h].actions = at[h].actions /\ at'[h].names = at[h].names
        /\ at'[h].error = at[h].error /\ at'[h].status = at[h].status
        /\ at'[h].pc \in {"launching", "setup"}
    BY <1>1, <1>4 DEF Opened, Others, Fields
  <2>2. EvidenceInv'
    BY <1>1, <1>2, <2>1, HandlerHolds DEF Early
  <2>3. SiteInv'
    BY <1>2, <2>1, SiteUntouched
  <2> QED
    BY <2>2, <2>3
<1> QED
  BY <1>3, <1>4 DEF Launch, OpenFails

LEMMA SetUpHolds ==
  ASSUME EvidenceInv, SiteInv, NEW h \in Handler, SetUp(h)
  PROVE  EvidenceInv' /\ SiteInv'
<1>1. DOMAIN at = Handler /\ DOMAIN at[h] = Fields /\ at[h].pc = "setup" /\ at[h].pc \in Early
  BY DEF EvidenceInv, HandlersInv, Good, SetUp, Early
<1>2. UNCHANGED <<begun, evidence, files, siteVars, runVars, aborted>>
  BY DEF SetUp, inBrowser, runVars
<1>3. CASE at[h].context = "closed"
  <2>1. Others(h) /\ at'[h] = Leave(at[h], TRUE)
    BY <1>1, <1>3 DEF Others, SetUp
  <2>2. EvidenceInv' /\ at'[h].pc = "finally"
    BY <1>1, <1>2, <2>1, HandlerLeaves
  <2> QED
    BY <1>2, <2>1, <2>2, SiteUntouched
<1>4. CASE at[h].context # "closed"
  <2> DEFINE r == [at[h] EXCEPT !.traced = Policy["trace"] # "never", !.pages = <<"main">>,
                                !.page = "main"]
  <2>1. Others(h) /\ at'[h] = loopHead(r, h)
    BY <1>1, <1>4 DEF Others, SetUp
  <2>2. /\ DOMAIN r = Fields /\ r.n = at[h].n /\ r.i = at[h].i /\ r.error = at[h].error
        /\ r.names = at[h].names /\ r.actions = at[h].actions
    BY <1>1 DEF Fields
  <2>3. Good(at[h]) /\ Earned(at[h]) /\ OnDisk(at[h], DOMAIN files) /\ HandlersInv
    BY DEF EvidenceInv, HandlersInv
  <2>4. at[h].i = 1 /\ at[h].actions = <<>> /\ at[h].error = FALSE /\ at[h].pc \in JourneyPc
        /\ at[h].n \in DOMAIN begun /\ begun[at[h].n] \in Execution
    BY <1>1, <2>3 DEF Earned, Good, JourneyPc
  <2>5. Len(stepsOf(h)) \in Nat
    BY <2>4, StepsAssumption DEF stepsOf, executionOf
  <2> HIDE DEF r
  <2>6. /\ Good(loopHead(r, h)) /\ Earned(loopHead(r, h)) /\ loopHead(r, h).n = r.n
        /\ loopHead(r, h).names = r.names /\ loopHead(r, h).pc \in {"step", "finally"}
    <3>1. r.i \in Nat \ {0} /\ r.error = FALSE /\ r.names \in Seq(Name) /\ r.actions \in Seq(Action)
          /\ Len(r.actions) = r.i - 1 /\ AllPassed(r.actions) /\ r.i <= Len(stepsOf(h)) + 1
      BY <2>2, <2>3, <2>4, <2>5 DEF Good, AllPassed
    <3> QED
      BY <2>2, <2>3, <2>4, <3>1, LoopHeadFacts
  <2>7. OnDisk(at'[h], DOMAIN files')
    BY <1>2, <2>1, <2>2, <2>3, <2>4, <2>6 DEF OnDisk
  <2>8. DiskGrows(h)
    BY <1>2, DiskSame
  <2>9. EvidenceInv'
    BY <1>1, <1>2, <2>1, <2>2, <2>6, <2>7, <2>8, HandlerMoves
  <2>10. SiteInv'
    BY <1>2, <2>1, <2>6, SiteUntouched
  <2> QED
    BY <2>9, <2>10
<1> QED
  BY <1>3, <1>4

LEMMA SiteUpHolds ==
  ASSUME EvidenceInv, SiteInv, NEW h \in Handler, SiteUp(h)
  PROVE  EvidenceInv' /\ SiteInv'
<1>1. DOMAIN at = Handler /\ DOMAIN at[h] = Fields /\ HandlersInv
  BY DEF EvidenceInv, HandlersInv, Good
<1>2. /\ Others(h) /\ DOMAIN at'[h] = Fields /\ at'[h].n = at[h].n /\ at'[h].i = at[h].i
      /\ at'[h].actions = at[h].actions /\ at'[h].names = at[h].names
      /\ at'[h].error = at[h].error /\ at'[h].status = at[h].status
      /\ at'[h].pc \in {"leasing", "returning"} /\ at[h].pc = "starting"
  BY <1>1 DEF SiteUp, Goes, Others, Fields
<1>3. UNCHANGED <<begun, evidence, files>>
  BY DEF SiteUp, runnerOnly, runVars
<1>4. EvidenceInv'
  BY <1>2, <1>3, HandlerHolds
<1> QED
  BY <1>1, <1>4, SiteComesUp

LEMMA FileNames ==
  /\ "failure" \in Name /\ "trace" \in Name /\ "report" \in Name /\ "har" \in Name
  BY DEF Name

LEMMA ActedFacts ==
  ASSUME NEW r, DOMAIN r = Fields, NEW step, NEW ok
  PROVE  /\ DOMAIN acted(r, step, ok) = Fields
         /\ acted(r, step, ok).actions = Append(r.actions, [id |-> step.id, ok |-> ok])
         /\ acted(r, step, ok).n = r.n /\ acted(r, step, ok).i = r.i
         /\ acted(r, step, ok).names = r.names /\ acted(r, step, ok).error = r.error
  BY DEF acted, Fields

LEMMA ShownFacts ==
  ASSUME NEW r, DOMAIN r = Fields, NEW name
  PROVE  /\ DOMAIN shown(r, name) = Fields /\ shown(r, name).names = Append(r.names, name)
         /\ shown(r, name).n = r.n /\ shown(r, name).i = r.i
         /\ shown(r, name).actions = r.actions /\ shown(r, name).error = r.error
  BY DEF shown, Fields

LEMMA ActionsGrow ==
  ASSUME NEW actions \in Seq(Action), NEW action \in Action
  PROVE  /\ Append(actions, action) \in Seq(Action)
         /\ Len(Append(actions, action)) = Len(actions) + 1
         /\ AllPassed(actions) /\ action.ok => AllPassed(Append(actions, action))
<1>1. Append(actions, action) \in Seq(Action) /\ Len(Append(actions, action)) = Len(actions) + 1
  OBVIOUS
<1>2. ASSUME AllPassed(actions), action.ok, NEW k \in DOMAIN Append(actions, action)
      PROVE  Append(actions, action)[k].ok
  <2>1. CASE k \in 1..Len(actions)
    BY <1>2, <2>1 DEF AllPassed
  <2>2. CASE k = Len(actions) + 1
    BY <1>2, <2>2
  <2> QED
    BY <1>1, <1>2, <2>1, <2>2
<1> QED
  BY <1>1, <1>2 DEF AllPassed

LEMMA NamesGrow ==
  ASSUME NEW names \in Seq(Name), NEW name \in Name
  PROVE  /\ Append(names, name) \in Seq(Name)
         /\ \A k \in DOMAIN Append(names, name) :
              \/ Append(names, name)[k] = name
              \/ \E j \in DOMAIN names : Append(names, name)[k] = names[j]
<1>1. Append(names, name) \in Seq(Name) /\ Len(Append(names, name)) = Len(names) + 1
  OBVIOUS
<1>2. ASSUME NEW k \in DOMAIN Append(names, name)
      PROVE  \/ Append(names, name)[k] = name
             \/ \E j \in DOMAIN names : Append(names, name)[k] = names[j]
  <2>1. CASE k \in 1..Len(names)
    BY <2>1
  <2>2. CASE k = Len(names) + 1
    BY <2>2
  <2> QED
    BY <1>1, <1>2, <2>1, <2>2
<1> QED
  BY <1>1, <1>2

\* The state of a step: every action so far passed, and the step is one of the journey's.
LEMMA AtStep ==
  ASSUME EvidenceInv, NEW h \in Handler, at[h].pc = "step"
  PROVE  /\ HandlersInv /\ DOMAIN at = Handler /\ DOMAIN at[h] = Fields /\ at[h].error = FALSE
         /\ at[h].i \in Nat \ {0} /\ at[h].i <= Len(stepsOf(h)) /\ Len(stepsOf(h)) \in Nat
         /\ at[h].names \in Seq(Name) /\ at[h].actions \in Seq(Action)
         /\ Len(at[h].actions) = at[h].i - 1 /\ AllPassed(at[h].actions)
         /\ at[h].pc \in JourneyPc /\ at[h].n \in DOMAIN begun /\ begun[at[h].n] \in Execution
         /\ stepsOf(h)[at[h].i].id \in Name
         /\ \A k \in DOMAIN at[h].names : <<begun[at[h].n], at[h].names[k]>> \in DOMAIN files
<1>1. Good(at[h]) /\ Earned(at[h]) /\ OnDisk(at[h], DOMAIN files) /\ HandlersInv
  BY DEF EvidenceInv, HandlersInv
<1>2. at[h].pc \in JourneyPc
  BY DEF JourneyPc
<1>3. begun[at[h].n] \in Execution /\ at[h].n \in DOMAIN begun
  BY <1>1, <1>2 DEF Good
<1>4. Steps[begun[at[h].n]] \in Seq([id : STRING, kind : Kind, tab : STRING])
  BY <1>3, StepsAssumption
<1>5. at[h].i \in 1..Len(stepsOf(h)) /\ stepsOf(h) = Steps[begun[at[h].n]]
  BY <1>1 DEF Earned, stepsOf, executionOf
<1>6. stepsOf(h)[at[h].i] \in [id : STRING, kind : Kind, tab : STRING] /\ Len(stepsOf(h)) \in Nat
  <2> DEFINE Step == [id : STRING, kind : Kind, tab : STRING]
  <2>1. Steps[begun[at[h].n]] \in Seq(Step)
    BY <1>4
  <2> HIDE DEF Step
  <2>2. stepsOf(h)[at[h].i] \in Step /\ Len(stepsOf(h)) \in Nat
    BY <1>5, <2>1
  <2> QED
    BY <2>2 DEF Step
<1>7. at[h].error = FALSE
  BY <1>1 DEF Earned, Good
<1>8. \A k \in DOMAIN at[h].names : <<begun[at[h].n], at[h].names[k]>> \in DOMAIN files
  BY <1>1, <1>2 DEF OnDisk
<1>9. stepsOf(h)[at[h].i].id \in Name
  BY <1>6 DEF Name
<1>10. Len(at[h].actions) = at[h].i - 1 /\ AllPassed(at[h].actions)
  BY <1>1 DEF Earned
<1>11. /\ DOMAIN at = Handler /\ DOMAIN at[h] = Fields /\ at[h].names \in Seq(Name)
       /\ at[h].actions \in Seq(Action)
  BY <1>1 DEF Good, HandlersInv
<1>12. at[h].i \in Nat \ {0} /\ at[h].i <= Len(stepsOf(h))
  BY <1>5, <1>6
<1> QED
  BY <1>1, <1>2, <1>3, <1>6, <1>7, <1>8, <1>9, <1>10, <1>11, <1>12

\* What executeStep makes of a handler whose step passed, at the head of the loop.
Passed(h, step) ==
  LET r == acted([at[h] EXCEPT !.pages = tabsAfter(at[h], step), !.page = frontAfter(at[h], step)],
                 step, TRUE)
  IN [(IF step.kind = "shot" THEN shown(r, step.id) ELSE r) EXCEPT !.i = @ + 1]

LEMMA PassedFacts ==
  ASSUME NEW h \in Handler, DOMAIN at[h] = Fields, NEW step
  PROVE  /\ DOMAIN Passed(h, step) = Fields /\ Passed(h, step).n = at[h].n
         /\ Passed(h, step).i = at[h].i + 1 /\ Passed(h, step).error = at[h].error
         /\ Passed(h, step).actions = Append(at[h].actions, [id |-> step.id, ok |-> TRUE])
         /\ Passed(h, step).names =
              IF step.kind = "shot" THEN Append(at[h].names, step.id) ELSE at[h].names
<1> DEFINE q == [at[h] EXCEPT !.pages = tabsAfter(at[h], step), !.page = frontAfter(at[h], step)]
           r == acted(q, step, TRUE)
           s == IF step.kind = "shot" THEN shown(r, step.id) ELSE r
<1>1. /\ DOMAIN q = Fields /\ q.n = at[h].n /\ q.i = at[h].i /\ q.error = at[h].error
      /\ q.names = at[h].names /\ q.actions = at[h].actions
  BY DEF Fields
<1> HIDE DEF q
<1>2. /\ DOMAIN r = Fields /\ r.actions = Append(at[h].actions, [id |-> step.id, ok |-> TRUE])
      /\ r.n = at[h].n /\ r.i = at[h].i /\ r.names = at[h].names /\ r.error = at[h].error
  BY <1>1 DEF acted, Fields
<1> HIDE DEF r
<1>3. /\ DOMAIN s = Fields /\ s.actions = r.actions /\ s.n = r.n /\ s.i = r.i /\ s.error = r.error
      /\ s.names = IF step.kind = "shot" THEN Append(r.names, step.id) ELSE r.names
  <2>1. CASE step.kind = "shot"
    <3>1. s = shown(r, step.id)
      BY <2>1
    <3> QED
      BY <1>2, <2>1, <3>1, ShownFacts
  <2>2. CASE step.kind # "shot"
    <3>1. s = r
      BY <2>2
    <3> HIDE DEF s
    <3> QED
      BY <1>2, <2>2, <3>1
  <2> QED
    BY <2>1, <2>2
<1> HIDE DEF s
<1>4. Passed(h, step) = [s EXCEPT !.i = @ + 1]
  BY DEF Passed, s, r, q
<1>5. /\ DOMAIN Passed(h, step) = Fields /\ Passed(h, step).n = s.n /\ Passed(h, step).i = s.i + 1
      /\ Passed(h, step).error = s.error /\ Passed(h, step).actions = s.actions
      /\ Passed(h, step).names = s.names
  BY <1>3, <1>4 DEF Fields
<1> QED
  BY <1>2, <1>3, <1>5

LEMMA StepPasses ==
  ASSUME EvidenceInv, NEW h \in Handler, at[h].pc = "step",
         NEW step, step = stepsOf(h)[at[h].i],
         Passes(h, step), UNCHANGED <<begun, evidence>>,
         IF step.kind = "shot" THEN write(h, {step.id}) ELSE UNCHANGED files
  PROVE  EvidenceInv' /\ Others(h) /\ at'[h].pc \in {"step", "finally"}
<1> DEFINE next == Passed(h, step)
<1>1. /\ HandlersInv /\ DOMAIN at = Handler /\ DOMAIN at[h] = Fields /\ at[h].error = FALSE
      /\ at[h].i \in Nat \ {0} /\ at[h].i <= Len(stepsOf(h)) /\ Len(stepsOf(h)) \in Nat
      /\ at[h].names \in Seq(Name) /\ at[h].actions \in Seq(Action)
      /\ Len(at[h].actions) = at[h].i - 1 /\ AllPassed(at[h].actions)
      /\ at[h].pc \in JourneyPc /\ step.id \in Name
      /\ \A k \in DOMAIN at[h].names : <<begun[at[h].n], at[h].names[k]>> \in DOMAIN files
  BY AtStep
<1>2. Others(h) /\ at'[h] = loopHead(next, h)
  BY <1>1 DEF Passes, Passed, Others
<1>3. /\ DOMAIN next = Fields /\ next.n = at[h].n /\ next.i = at[h].i + 1 /\ next.error = FALSE
      /\ next.actions = Append(at[h].actions, [id |-> step.id, ok |-> TRUE])
      /\ next.names = IF step.kind = "shot" THEN Append(at[h].names, step.id) ELSE at[h].names
  BY <1>1, PassedFacts
<1> HIDE DEF next
<1>4. PICK a \in Action : a = [id |-> step.id, ok |-> TRUE] /\ a.ok
  <2>1. \A id \in Name : [id |-> id, ok |-> TRUE] \in [id : Name, ok : BOOLEAN]
    OBVIOUS
  <2>2. [id |-> step.id, ok |-> TRUE].ok
    OBVIOUS
  <2> QED
    BY <1>1, <2>1, <2>2 DEF Action
<1>5. /\ next.actions \in Seq(Action) /\ Len(next.actions) = Len(at[h].actions) + 1
      /\ AllPassed(next.actions)
  BY <1>1, <1>3, <1>4, ActionsGrow
<1>6. DiskGrows(h) /\ (step.kind = "shot" => <<begun[at[h].n], step.id>> \in DOMAIN files')
  <2>1. CASE step.kind = "shot"
    <3>1. write(h, {step.id})
      BY <2>1
    <3>2. /\ DiskGrows(h)
          /\ DOMAIN files' = DOMAIN files \cup {<<begun[at[h].n], name>> : name \in {step.id}}
      BY <3>1, WriteFacts
    <3> QED
      BY <3>2
  <2>2. CASE step.kind # "shot"
    BY <2>2, DiskSame
  <2> QED
    BY <2>1, <2>2
<1>7. /\ next.names \in Seq(Name)
      /\ \A k \in DOMAIN next.names : <<begun[at[h].n], next.names[k]>> \in DOMAIN files'
  <2>0. DOMAIN files \subseteq DOMAIN files'
    BY <1>6 DEF DiskGrows
  <2>1. CASE step.kind = "shot"
    <3>1. /\ next.names \in Seq(Name)
          /\ \A k \in DOMAIN next.names :
               next.names[k] = step.id \/ \E j \in DOMAIN at[h].names : next.names[k] = at[h].names[j]
      <4>1. next.names = Append(at[h].names, step.id) /\ at[h].names \in Seq(Name) /\ step.id \in Name
        BY <1>1, <1>3, <2>1
      <4> QED
        BY ONLY <4>1, NamesGrow
    <3> QED
      BY <1>1, <1>6, <2>0, <2>1, <3>1
  <2>2. CASE step.kind # "shot"
    BY <1>1, <1>3, <2>0, <2>2
  <2> QED
    BY <2>1, <2>2
<1>8. next.i \in Nat \ {0} /\ Len(next.actions) = next.i - 1 /\ next.i <= Len(stepsOf(h)) + 1
  BY <1>1, <1>3, <1>5
<1>9. /\ Good(loopHead(next, h)) /\ Earned(loopHead(next, h)) /\ loopHead(next, h).n = next.n
      /\ loopHead(next, h).names = next.names /\ loopHead(next, h).pc \in {"step", "finally"}
  BY <1>1, <1>3, <1>5, <1>7, <1>8, LoopHeadFacts
<1>10. OnDisk(at'[h], DOMAIN files')
  BY <1>2, <1>3, <1>7, <1>9 DEF OnDisk
<1>11. EvidenceInv'
  BY <1>2, <1>3, <1>6, <1>9, <1>10, HandlerMoves
<1> QED
  BY <1>2, <1>9, <1>11

LEMMA StepFails ==
  ASSUME EvidenceInv, NEW h \in Handler, at[h].pc = "step",
         NEW shot \in BOOLEAN, Fails(h, shot), UNCHANGED <<begun, evidence>>,
         IF shot THEN write(h, {"failure"}) ELSE UNCHANGED files
  PROVE  EvidenceInv' /\ Others(h) /\ at'[h].pc \in {"step", "finally"}
<1> DEFINE step == stepsOf(h)[at[h].i]
           r == acted(at[h], step, FALSE)
           s == IF shot THEN shown(r, "failure") ELSE r
<1>1. /\ HandlersInv /\ DOMAIN at = Handler /\ DOMAIN at[h] = Fields /\ at[h].error = FALSE
      /\ at[h].i \in Nat \ {0}
      /\ at[h].names \in Seq(Name) /\ at[h].actions \in Seq(Action)
      /\ at[h].pc \in JourneyPc /\ step.id \in Name
      /\ at[h].n \in DOMAIN begun /\ begun[at[h].n] \in Execution
      /\ \A k \in DOMAIN at[h].names : <<begun[at[h].n], at[h].names[k]>> \in DOMAIN files
  BY AtStep
<1>2. Others(h) /\ at'[h] = Leave(s, TRUE)
  BY <1>1 DEF Fails, Others
<1> HIDE DEF step
<1>3. /\ DOMAIN r = Fields /\ r.n = at[h].n /\ r.i = at[h].i /\ r.error = at[h].error
      /\ r.actions = Append(at[h].actions, [id |-> step.id, ok |-> FALSE])
      /\ r.names = at[h].names
  BY <1>1 DEF acted, Fields
<1> HIDE DEF r
<1>4. PICK a \in Action : a = [id |-> step.id, ok |-> FALSE]
  <2>1. \A id \in Name : [id |-> id, ok |-> FALSE] \in [id : Name, ok : BOOLEAN]
    OBVIOUS
  <2> QED
    BY <1>1, <2>1 DEF Action
<1>5. r.actions \in Seq(Action)
  BY <1>1, <1>3, <1>4, ActionsGrow
<1>6. PICK failure \in Name : failure = "failure"
  BY FileNames
<1>7. /\ DiskGrows(h) /\ DOMAIN files \subseteq DOMAIN files'
      /\ shot => <<begun[at[h].n], failure>> \in DOMAIN files'
  <2>1. CASE shot
    <3>1. write(h, {failure})
      BY <1>6, <2>1
    <3>2. /\ DiskGrows(h)
          /\ DOMAIN files' = DOMAIN files \cup {<<begun[at[h].n], name>> : name \in {failure}}
      BY <3>1, WriteFacts
    <3> QED
      BY <3>2
  <2>2. CASE ~shot
    BY <2>2, DiskSame
  <2> QED
    BY <2>1, <2>2
<1>8. /\ DOMAIN s = Fields /\ s.n = at[h].n /\ s.i = at[h].i /\ s.error = FALSE
      /\ s.actions \in Seq(Action) /\ s.names \in Seq(Name)
      /\ \A k \in DOMAIN s.names : <<begun[at[h].n], s.names[k]>> \in DOMAIN files'
  <2>1. CASE shot
    <3>1. s = shown(r, failure)
      BY <1>6, <2>1
    <3> HIDE DEF s
    <3>2. /\ DOMAIN s = Fields /\ s.names = Append(at[h].names, failure)
          /\ s.n = at[h].n /\ s.i = at[h].i /\ s.actions = r.actions /\ s.error = at[h].error
      BY <1>3, <3>1, ShownFacts
    <3>3. /\ s.names \in Seq(Name)
          /\ \A k \in DOMAIN s.names :
               s.names[k] = failure \/ \E j \in DOMAIN at[h].names : s.names[k] = at[h].names[j]
      <4>1. s.names = Append(at[h].names, failure) /\ at[h].names \in Seq(Name) /\ failure \in Name
        BY <1>1, <3>2
      <4> QED
        BY ONLY <4>1, NamesGrow
    <3>4. \A k \in DOMAIN s.names : <<begun[at[h].n], s.names[k]>> \in DOMAIN files'
      BY <1>1, <1>7, <2>1, <3>3
    <3> QED
      BY <1>1, <1>5, <3>2, <3>3, <3>4
  <2>2. CASE ~shot
    <3>1. s = r
      BY <2>2
    <3> HIDE DEF s
    <3> QED
      BY <1>1, <1>3, <1>5, <1>7, <3>1
  <2> QED
    BY <2>1, <2>2
<1> HIDE DEF s
<1>9. at'[h].pc = "finally" /\ at'[h].error = TRUE
  <2>1. DOMAIN s = Fields /\ s.error \in BOOLEAN
    BY <1>8
  <2>2. Leave(s, TRUE).pc = "finally" /\ Leave(s, TRUE).error = TRUE
    BY ONLY <2>1, LeaveError
  <2> QED
    BY ONLY <1>2, <2>2
<1>10. /\ DOMAIN at'[h] = Fields /\ at'[h].n = s.n /\ at'[h].i = s.i
       /\ at'[h].actions = s.actions /\ at'[h].names = s.names
  BY <1>2, <1>8 DEF Leave, Fields
<1>11. Good(at'[h])
  BY <1>1, <1>8, <1>9, <1>10 DEF Good, Pc, JourneyPc, Early
<1>12. Earned(at'[h])
  BY <1>9 DEF Earned, Early
<1>13. OnDisk(at'[h], DOMAIN files')
  BY <1>8, <1>10 DEF OnDisk
<1>14. EvidenceInv'
  BY <1>2, <1>7, <1>8, <1>9, <1>10, <1>11, <1>12, <1>13, HandlerMoves
<1> QED
  BY <1>2, <1>9, <1>14

LEMMA StepEndsHolds ==
  ASSUME EvidenceInv, SiteInv, NEW h \in Handler, NEW ok \in BOOLEAN, StepEnds(h, ok)
  PROVE  EvidenceInv' /\ SiteInv'
<1>1. UNCHANGED <<begun, evidence, siteVars, runVars, aborted>> /\ at[h].pc = "step"
  BY DEF StepEnds, inBrowser, runVars
<1>2. EvidenceInv' /\ Others(h) /\ at'[h].pc \in {"step", "finally"}
  <2> DEFINE step == stepsOf(h)[at[h].i]
  <2>1. CASE /\ Passes(h, step)
             /\ IF step.kind = "shot" THEN write(h, {step.id}) ELSE UNCHANGED files
    BY <1>1, <2>1, StepPasses
  <2>2. CASE \E shot \in BOOLEAN :
               /\ Fails(h, shot) /\ IF shot THEN write(h, {"failure"}) ELSE UNCHANGED files
    BY <1>1, <2>2, StepFails
  <2>3. QED
    BY <2>1, <2>2, Zenon DEF StepEnds
<1> QED
  BY <1>1, <1>2, SiteUntouched

LEMMA FinallyHolds ==
  ASSUME EvidenceInv, SiteInv, NEW h \in Handler, Finally(h)
  PROVE  EvidenceInv' /\ SiteInv'
<1> DEFINE kept == at[h].traced /\ shouldCapture("trace", at[h].error) /\ at[h].context = "open"
<1>1. /\ DOMAIN at = Handler /\ DOMAIN at[h] = Fields /\ at[h].pc = "finally"
      /\ Good(at[h]) /\ Earned(at[h]) /\ OnDisk(at[h], DOMAIN files)
  BY DEF EvidenceInv, HandlersInv, Good, Finally
<1>2. /\ UNCHANGED <<begun, evidence, siteVars, runVars, aborted>>
      /\ at' = [at EXCEPT ![h].pc = "reporting",
                          ![h].context = IF @ = "none" THEN @ ELSE "closed",
                          ![h].names = IF kept THEN Append(@, "trace") ELSE @]
      /\ IF kept THEN write(h, {"trace"}) ELSE UNCHANGED files
  BY DEF Finally, inBrowser, runVars
<1> HIDE DEF kept
<1>3. /\ Others(h) /\ DOMAIN at'[h] = Fields /\ at'[h].n = at[h].n /\ at'[h].i = at[h].i
      /\ at'[h].actions = at[h].actions /\ at'[h].error = at[h].error
      /\ at'[h].pc = "reporting"
      /\ at'[h].names = IF kept THEN Append(at[h].names, "trace") ELSE at[h].names
  BY <1>1, <1>2 DEF Others, Fields
<1>4. PICK trace \in Name : trace = "trace"
  BY FileNames
<1>5. DiskGrows(h) /\ (kept => <<begun[at[h].n], trace>> \in DOMAIN files')
  <2>1. CASE kept
    <3>1. write(h, {trace})
      BY <1>2, <1>4, <2>1
    <3>2. /\ DiskGrows(h)
          /\ DOMAIN files' = DOMAIN files \cup {<<begun[at[h].n], name>> : name \in {trace}}
      BY <3>1, WriteFacts
    <3> QED
      BY <3>2
  <2>2. CASE ~kept
    BY <1>2, <2>2, DiskSame
  <2> QED
    BY <2>1, <2>2
<1>6. \A k \in DOMAIN at[h].names : <<begun[at[h].n], at[h].names[k]>> \in DOMAIN files'
  BY <1>1, <1>5 DEF OnDisk, JourneyPc, DiskGrows
<1>7. /\ at'[h].names \in Seq(Name)
      /\ \A k \in DOMAIN at'[h].names : <<begun[at[h].n], at'[h].names[k]>> \in DOMAIN files'
  <2>1. CASE kept
    <3>1. at[h].names \in Seq(Name) /\ at'[h].names = Append(at[h].names, trace)
      BY <1>1, <1>3, <1>4, <2>1 DEF Good
    <3>2. /\ at'[h].names \in Seq(Name)
          /\ \A k \in DOMAIN at'[h].names :
               at'[h].names[k] = trace \/ \E j \in DOMAIN at[h].names : at'[h].names[k] = at[h].names[j]
      BY <3>1, NamesGrow
    <3> QED
      BY <1>5, <1>6, <2>1, <3>2
  <2>2. CASE ~kept
    BY <1>1, <1>3, <1>6, <2>2 DEF Good
  <2> QED
    BY <2>1, <2>2
<1>8. Good(at'[h])
  BY <1>1, <1>3, <1>7 DEF Good, Pc, JourneyPc, Early
<1>9. Earned(at'[h])
  BY <1>1, <1>3 DEF Earned, Early
<1>10. OnDisk(at'[h], DOMAIN files')
  BY <1>3, <1>7 DEF OnDisk
<1>11. EvidenceInv'
  BY <1>1, <1>2, <1>3, <1>5, <1>8, <1>9, <1>10, HandlerMoves
<1>12. SiteInv'
  BY <1>2, <1>3, SiteUntouched
<1> QED
  BY <1>11, <1>12
-----------------------------------------------------------------------------
(* The report and its evidence.                                            *)

\* The evidence of other executions stays when one handler writes to its own.
LEMMA OwnEvidence ==
  ASSUME EvidenceInv, NEW h \in Handler, at[h].n \in DOMAIN begun, Others(h),
         at'[h].n = at[h].n, at'[h].pc = "persisting", UNCHANGED <<begun, refused>>,
         \A e \in Execution : e # begun[at[h].n] =>
           browserReports'[e] = browserReports[e] /\ summaries'[e] = summaries[e],
         \A n : n # at[h].n => {row \in rows' : row.n = n} = {row \in rows : row.n = n},
         \A n : \A e \in Execution, name \in Name :
           e # begun[at[h].n] /\ HasArtifact(n, e, name) => HasArtifact(n, e, name)',
         browserReports'[begun[at[h].n]].n = at[h].n \/ UNCHANGED browserReports,
         at[h].pc = "persisting" => UNCHANGED browserReports,
         Alone(at[h].n) => Persisting(h, begun[at[h].n])',
         ReportsInv'
  PROVE  PersistInv' /\ DoneInv'
<1>0. HandlersInv /\ ReportsInv /\ FreshInv /\ PersistInv /\ DoneInv
  BY DEF EvidenceInv
<1>1. PersistInv'
  <2>1. SUFFICES ASSUME NEW g \in Handler, at'[g].pc = "persisting", Alone(at[g].n)'
                 PROVE  Persisting(g, begun[at[g].n])'
    BY DEF PersistInv
  <2>2. CASE g = h
    <3>1. Alone(at[h].n)
      BY <2>1, <2>2 DEF Alone
    <3> QED
      BY <2>2, <3>1
  <2>3. CASE g # h
    <3>1. at'[g] = at[g] /\ at[g].n # at[h].n /\ at[g].n \in DOMAIN begun /\ Alone(at[g].n)
      BY <1>0, <2>1, <2>3 DEF Others, HandlersInv, Good, Alone
    <3>2. PICK e \in Execution : e = begun[at[g].n] /\ e = begun'[at'[g].n]
      BY <1>0, <2>1, <3>1 DEF HandlersInv, Good, JourneyPc
    <3>3. e # begun[at[h].n]
      BY <3>1, <3>2 DEF Alone
    <3>4. Persisting(g, e) /\ at[g].n # 0
      BY <1>0, <2>1, <3>1, <3>2 DEF PersistInv, HandlersInv
    <3>5. EvidenceKept(at[g].n, e)
      BY <3>1, <3>3 DEF EvidenceKept
    <3>6. Persisting(g, e)'
      BY <1>0, <3>1, <3>4, <3>5, PersistKept
    <3> QED
      BY <3>2, <3>6
  <2> QED
    BY <2>2, <2>3
<1>2. DoneInv'
  <2>1. SUFFICES ASSUME NEW e \in Execution, browserReports'[e].n # 0, Alone(browserReports[e].n)',
                        Gone(browserReports[e].n)', browserReports'[e].n \notin refused'
                 PROVE  Whole(e)'
    BY DEF DoneInv
  <2>2. PICK m \in DOMAIN begun : m = browserReports'[e].n /\ begun[m] = e
    BY <2>1 DEF ReportsInv
  <2>3. m # at[h].n /\ Alone(m)
    BY <2>1, <2>2 DEF Gone, Alone
  <2>4. e # begun[at[h].n]
    BY <2>2, <2>3 DEF Alone
  <2>5. browserReports'[e] = browserReports[e] /\ m = browserReports[e].n
    BY <2>2, <2>4
  <2>6. Gone(m) /\ m # 0 /\ m \notin refused
    BY <2>1, <2>2, <2>3 DEF Gone, Others
  <2>7. Whole(e)
    BY <1>0, <2>3, <2>5, <2>6 DEF DoneInv
  <2>8. EvidenceKept(m, e)
    BY <2>3, <2>4 DEF EvidenceKept
  <2>9. EvidenceKept(browserReports[e].n, e)
    BY <2>2, <2>5, <2>8 DEF EvidenceKept
  <2> QED
    BY <1>0, <2>5, <2>6, <2>7, <2>9, WholeKept
<1> QED
  BY <1>1, <1>2

LEMMA NamesJoin ==
  ASSUME NEW s \in Seq(Name), NEW t \in Seq(Name)
  PROVE  /\ s \o t \in Seq(Name)
         /\ \A k \in DOMAIN (s \o t) : \/ \E j \in DOMAIN s : (s \o t)[k] = s[j]
                                       \/ \E j \in DOMAIN t : (s \o t)[k] = t[j]
<1>1. s \o t \in Seq(Name) /\ Len(s \o t) = Len(s) + Len(t) /\ Len(s) \in Nat /\ Len(t) \in Nat
  OBVIOUS
<1>2. ASSUME NEW k \in DOMAIN (s \o t)
      PROVE  \/ \E j \in DOMAIN s : (s \o t)[k] = s[j]
             \/ \E j \in DOMAIN t : (s \o t)[k] = t[j]
  <2>0. k \in 1..(Len(s) + Len(t))
    BY <1>1, <1>2
  <2>1. CASE k <= Len(s)
    <3>1. k \in DOMAIN s /\ (s \o t)[k] = s[k]
      BY <1>1, <2>0, <2>1
    <3> QED
      BY <3>1
  <2>2. CASE k > Len(s)
    <3>1. k - Len(s) \in DOMAIN t /\ (s \o t)[k] = t[k - Len(s)]
      BY <1>1, <2>0, <2>2
    <3> QED
      BY <3>1
  <2> QED
    BY <1>1, <2>0, <2>1, <2>2
<1> QED
  BY <1>1, <1>2

\* The other handlers, and what is known of the reports, when one handler moves.
LEMMA OwnHandler ==
  ASSUME HandlersInv, NEW h \in Handler, Others(h), UNCHANGED begun,
         at[h].pc # "idle", at'[h].n = at[h].n, DOMAIN files \subseteq DOMAIN files',
         Good(at'[h]), Earned(at'[h]), OnDisk(at'[h], DOMAIN files')
  PROVE  HandlersInv'
<1>1. ASSUME NEW g \in Handler
      PROVE  (Good(at[g]) /\ Earned(at[g]) /\ OnDisk(at[g], DOMAIN files))'
  <2>1. CASE g = h
    <3>1. Good(at'[g]) /\ Earned(at'[g]) /\ OnDisk(at'[g], DOMAIN files')
      BY <2>1
    <3> QED
      BY <3>1 DEF Good, Earned, OnDisk
  <2>2. CASE g # h
    <3>1. at'[g] = at[g] /\ Good(at[g]) /\ Earned(at[g]) /\ OnDisk(at[g], DOMAIN files)
      BY <2>2 DEF Others, HandlersInv
    <3> QED
      BY <3>1 DEF Good, Earned, OnDisk
  <2> QED
    BY <2>1, <2>2
<1>2. ASSUME NEW f \in Handler, NEW g \in Handler, f # g, at'[f].pc # "idle"
      PROVE  at'[f].n # at'[g].n
  BY <1>2 DEF Others, HandlersInv
<1> QED
  BY <1>1, <1>2 DEF Others, HandlersInv

LEMMA ReportHolds ==
  ASSUME EvidenceInv, SiteInv, NEW h \in Handler, Report(h)
  PROVE  EvidenceInv' /\ SiteInv'
<1> DEFINE har == IF shouldCapture("har", at[h].error) THEN <<"har">> ELSE <<>>
           names == <<"report">> \o at[h].names \o har
           e == executionOf(h)
           report == [n |-> at[h].n, status |-> statusOf(h), actions |-> at[h].actions,
                      names |-> names]
<1>0. HandlersInv /\ ReportsInv /\ FreshInv
  BY DEF EvidenceInv
<1>1. /\ DOMAIN at = Handler /\ DOMAIN at[h] = Fields /\ at[h].pc = "reporting"
      /\ Good(at[h]) /\ Earned(at[h]) /\ OnDisk(at[h], DOMAIN files)
  BY <1>0 DEF HandlersInv, Good, Report
<1>2. e = begun[at[h].n] /\ e \in Execution /\ at[h].n \in DOMAIN begun /\ at[h].n # 0
  BY <1>0, <1>1 DEF Good, executionOf, JourneyPc, HandlersInv
<1>3. /\ UNCHANGED <<begun, rows, summaries, artifacts, refused, siteVars, runVars, aborted>>
      /\ at' = [at EXCEPT ![h].names = names, ![h].pc = "persisting", ![h].status = statusOf(h)]
      /\ write(h, {"report"} \cup Range(har))
      /\ browserReports' = [browserReports EXCEPT ![e] = report]
  BY DEF Report, runVars
<1>4. har \in Seq(Name) /\ \A k \in DOMAIN har : har[k] \in Range(har)
  <2>1. \A name \in Name : <<name>> \in Seq(Name)
    OBVIOUS
  <2>2. <<"har">> \in Seq(Name)
    BY <2>1, FileNames
  <2> QED
    BY <2>2 DEF Range
<1>5. <<"report">> \in Seq(Name)
  <2>1. \A name \in Name : <<name>> \in Seq(Name)
    OBVIOUS
  <2> QED
    BY <2>1, FileNames
<1> HIDE DEF har
<1>6. /\ names \in Seq(Name)
      /\ \A k \in DOMAIN names : \/ names[k] = "report" \/ names[k] \in Range(har)
                                 \/ \E j \in DOMAIN at[h].names : names[k] = at[h].names[j]
  <2> DEFINE s == <<"report">> \o at[h].names
  <2>1. /\ s \in Seq(Name)
        /\ \A k \in DOMAIN s :
             s[k] = "report" \/ \E j \in DOMAIN at[h].names : s[k] = at[h].names[j]
    <3>1. at[h].names \in Seq(Name)
      BY <1>1 DEF Good
    <3>2. \A j \in DOMAIN <<"report">> : <<"report">>[j] = "report"
      OBVIOUS
    <3> QED
      BY <1>5, <3>1, <3>2, NamesJoin
  <2> HIDE DEF s
  <2>2. /\ s \o har \in Seq(Name)
        /\ \A k \in DOMAIN (s \o har) : \/ \E j \in DOMAIN s : (s \o har)[k] = s[j]
                                        \/ \E j \in DOMAIN har : (s \o har)[k] = har[j]
    BY <1>4, <2>1, NamesJoin
  <2>3. names = s \o har
    BY DEF s
  <2> HIDE DEF names
  <2>4. ASSUME NEW k \in DOMAIN names
        PROVE  \/ names[k] = "report" \/ names[k] \in Range(har)
               \/ \E j \in DOMAIN at[h].names : names[k] = at[h].names[j]
    <3>1. CASE \E j \in DOMAIN s : names[k] = s[j]
      BY <2>1, <3>1
    <3>2. CASE \E j \in DOMAIN har : names[k] = har[j]
      BY <1>4, <3>2
    <3> QED
      BY <2>2, <2>3, <2>4, <3>1, <3>2
  <2> QED
    BY <2>2, <2>3, <2>4
<1> HIDE DEF names
<1>7. /\ Others(h) /\ DOMAIN at'[h] = Fields /\ at'[h].n = at[h].n /\ at'[h].i = at[h].i
      /\ at'[h].actions = at[h].actions /\ at'[h].error = at[h].error
      /\ at'[h].pc = "persisting" /\ at'[h].names = names /\ at'[h].status = statusOf(h)
  BY <1>1, <1>3 DEF Others, Fields
<1>8. statusOf(h) # "none" /\ (statusOf(h) = "passed" => ~at[h].error)
  BY DEF statusOf
<1>9. /\ browserReports'[e].n = at[h].n /\ browserReports'[e].status = statusOf(h)
      /\ browserReports'[e].actions = at[h].actions /\ browserReports'[e].names = names
      /\ \A f \in Execution : f # e => browserReports'[f] = browserReports[f]
      /\ DOMAIN browserReports' = Execution
  BY <1>0, <1>2, <1>3 DEF ReportsInv
<1> HIDE DEF e, report
<1>10. /\ DiskGrows(h)
       /\ DOMAIN files' = DOMAIN files \cup {<<begun[at[h].n], name>> :
                                               name \in {"report"} \cup Range(har)}
  BY <1>3, WriteFacts
<1>11. \A k \in DOMAIN names : <<begun[at[h].n], names[k]>> \in DOMAIN files'
  BY <1>1, <1>6, <1>10 DEF OnDisk, JourneyPc
<1>12. HandlersInv'
  <2>1. Good(at'[h])
    BY <1>1, <1>6, <1>7 DEF Good, Pc, JourneyPc, Early
  <2>2. Earned(at'[h])
    BY <1>7 DEF Earned, Early
  <2>3. OnDisk(at'[h], DOMAIN files')
    BY <1>7, <1>11 DEF OnDisk
  <2> QED
    BY <1>0, <1>1, <1>3, <1>7, <1>10, <2>1, <2>2, <2>3, OwnHandler
<1>13. ReportsInv'
  <2>1. at[h].actions \in Seq(Action)
    BY <1>1 DEF Good
  <2>2. statusOf(h) = "passed" => Len(at[h].actions) = Len(Steps[e]) /\ AllPassed(at[h].actions)
    BY <1>1, <1>2, <1>8 DEF Earned
  <2>3. DOMAIN summaries' = Execution
    BY <1>0, <1>3 DEF ReportsInv
  <2>4. ASSUME NEW f \in Execution, browserReports'[f].n # 0
        PROVE  /\ browserReports'[f].n \in DOMAIN begun' /\ begun'[browserReports'[f].n] = f
               /\ browserReports'[f].actions \in Seq(Action)
               /\ browserReports'[f].names \in Seq(Name)
               /\ browserReports'[f].status = "passed" =>
                    /\ Len(browserReports'[f].actions) = Len(Steps[f])
                    /\ AllPassed(browserReports'[f].actions)
    <3>1. CASE f = e
      BY <1>2, <1>3, <1>6, <1>9, <2>1, <2>2, <3>1
    <3>2. CASE f # e
      <4>1. browserReports'[f] = browserReports[f]
        BY <1>9, <3>2
      <4> QED
        BY <1>0, <1>3, <2>4, <4>1 DEF ReportsInv
    <3> QED
      BY <3>1, <3>2
  <2> QED
    BY <1>9, <2>3, <2>4 DEF ReportsInv, AllPassed
<1>14. FreshInv'
  <2>1. ASSUME NEW g \in Handler, at'[g].pc \notin {"idle", "persisting"}, NEW f \in Execution
        PROVE  browserReports'[f].n # at'[g].n
    <3>1. g # h /\ at'[g] = at[g] /\ at[g].n # at[h].n
      BY <1>0, <1>7, <2>1 DEF Others, HandlersInv
    <3> QED
      BY <1>0, <1>9, <2>1, <3>1 DEF FreshInv
  <2>2. ASSUME NEW g \in Handler, at'[g].pc # "persisting" \/ at'[g].status # "none"
        PROVE  \A row \in rows' : row.n # at'[g].n
    BY <1>0, <1>1, <1>3, <1>7, <2>2 DEF Others, FreshInv
  <2> QED
    BY <1>0, <1>3, <2>1, <2>2 DEF FreshInv
<1>15. Persisting(h, begun[at[h].n])'
  BY <1>2, <1>3, <1>7, <1>8, <1>9 DEF Persisting
<1>16. \A n : \A f \in Execution, name \in Name :
         f # begun[at[h].n] /\ HasArtifact(n, f, name) => HasArtifact(n, f, name)'
  BY <1>3, <1>10, ArtifactKept
<1>17. PersistInv' /\ DoneInv'
  BY <1>1, <1>2, <1>3, <1>7, <1>9, <1>13, <1>15, <1>16, OwnEvidence
<1>18. SiteInv'
  BY <1>3, <1>7, SiteUntouched
<1> QED
  BY <1>12, <1>13, <1>14, <1>17, <1>18 DEF EvidenceInv

LEMMA PersistRecordsHolds ==
  ASSUME EvidenceInv, SiteInv, NEW h \in Handler, PersistRecords(h)
  PROVE  EvidenceInv' /\ SiteInv'
<1> DEFINE n == at[h].n
           e == begun[at[h].n]
           new == rowsOf(h, Len(at[h].actions))
<1>0. HandlersInv /\ ReportsInv /\ FreshInv /\ PersistInv
  BY DEF EvidenceInv
<1>1. /\ DOMAIN at = Handler /\ DOMAIN at[h] = Fields /\ at[h].pc = "persisting"
      /\ at[h].status # "none"
      /\ Good(at[h]) /\ Earned(at[h]) /\ OnDisk(at[h], DOMAIN files)
  BY <1>0 DEF HandlersInv, Good, PersistRecords
<1>2. /\ executionOf(h) = e /\ e \in Execution /\ n \in DOMAIN begun /\ n # 0
      /\ at[h].actions \in Seq(Action) /\ DOMAIN at[h].actions = 1..Len(at[h].actions)
  BY <1>0, <1>1 DEF Good, executionOf, JourneyPc, HandlersInv
<1>3. /\ UNCHANGED <<begun, files, artifacts, browserReports, refused, siteVars, runVars, aborted>>
      /\ at' = [at EXCEPT ![h].status = "none"] /\ rows' = rows \cup new
      /\ summaries' = [summaries EXCEPT ![e] = at[h].status]
  BY <1>2 DEF PersistRecords, runVars
<1>4. /\ Others(h) /\ DOMAIN at'[h] = Fields /\ at'[h].n = n /\ at'[h].i = at[h].i
      /\ at'[h].actions = at[h].actions /\ at'[h].error = at[h].error
      /\ at'[h].pc = "persisting" /\ at'[h].names = at[h].names /\ at'[h].status = "none"
  BY <1>1, <1>3 DEF Others, Fields
<1>5. new = {[n |-> n, k |-> j, id |-> at[h].actions[j].id, ok |-> at[h].actions[j].ok] :
               j \in DOMAIN at[h].actions}
  BY <1>2 DEF rowsOf
<1>6. \A row \in new : row.n = n
  BY <1>5
<1>7. \A row \in rows : row.n # n
  BY <1>0, <1>1 DEF FreshInv
<1> HIDE DEF new, e, n
<1>8. HandlersInv'
  <2>1. Good(at'[h])
    BY <1>1, <1>2, <1>4 DEF Good, Pc, n, JourneyPc, Early
  <2>2. Earned(at'[h])
    BY <1>4 DEF Earned, Early
  <2>3. OnDisk(at'[h], DOMAIN files')
    BY <1>1, <1>3, <1>4 DEF OnDisk, n
  <2> QED
    BY <1>0, <1>1, <1>3, <1>4, <2>1, <2>2, <2>3, OwnHandler DEF n
<1>9. summaries'[e] = at[h].status /\ DOMAIN summaries' = Execution
      /\ \A f \in Execution : f # e => summaries'[f] = summaries[f]
  BY <1>0, <1>2, <1>3 DEF ReportsInv
<1>10. ReportsInv'
  BY <1>0, <1>3, <1>9 DEF ReportsInv, AllPassed
<1>11. FreshInv'
  <2>1. ASSUME NEW g \in Handler, at'[g].pc \notin {"idle", "persisting"}, NEW f \in Execution
        PROVE  browserReports'[f].n # at'[g].n
    BY <1>0, <1>3, <1>4, <2>1 DEF Others, FreshInv
  <2>2. ASSUME NEW g \in Handler, at'[g].pc # "persisting" \/ at'[g].status # "none"
        PROVE  \A row \in rows' : row.n # at'[g].n
    <3>1. g # h /\ at'[g] = at[g] /\ at[g].n # n
      BY <1>0, <1>1, <1>4, <2>2 DEF Others, HandlersInv, n
    <3> QED
      BY <1>0, <1>3, <1>6, <2>2, <3>1 DEF FreshInv
  <2>3. \A row \in rows' : row.n \in DOMAIN begun'
    BY <1>0, <1>2, <1>3, <1>6 DEF FreshInv
  <2> QED
    BY <2>1, <2>2, <2>3 DEF FreshInv
<1>12. {row \in rows' : row.n = n} = new
  BY <1>3, <1>6, <1>7
<1>13. ASSUME Alone(n)
       PROVE  Persisting(h, e)'
  <2>1. /\ browserReports[e].n = n /\ browserReports[e].status = at[h].status
        /\ browserReports[e].actions = at[h].actions /\ browserReports[e].names = at[h].names
    BY <1>0, <1>1, <1>13 DEF PersistInv, Persisting, n, e
  <2>2. RowsAre(browserReports[e])'
    <3>1. browserReports'[e'].n = n /\ browserReports'[e'].actions = at[h].actions
      BY <1>3, <1>4, <2>1 DEF n, e
    <3> QED
      BY <1>5, <1>12, <3>1 DEF RowsAre
  <2>3. e' = e
    BY <1>3, <1>4 DEF n, e
  <2> QED
    BY <1>3, <1>4, <1>9, <2>1, <2>2, <2>3 DEF Persisting
<1>14. \A m : m # n => {row \in rows' : row.n = m} = {row \in rows : row.n = m}
  BY <1>3, <1>6
<1>15. PersistInv' /\ DoneInv'
  <2>1. \A m : \A f \in Execution, name \in Name : HasArtifact(m, f, name) => HasArtifact(m, f, name)'
    BY <1>3 DEF HasArtifact
  <2> QED
    BY <1>2, <1>3, <1>4, <1>9, <1>10, <1>13, <1>14, <2>1, OwnEvidence DEF n, e
<1>16. SiteInv'
  BY <1>3, <1>4, SiteUntouched
<1> QED
  BY <1>8, <1>10, <1>11, <1>15, <1>16 DEF EvidenceInv

LEMMA PersistArtifactHolds ==
  ASSUME EvidenceInv, SiteInv, NEW h \in Handler, PersistArtifact(h)
  PROVE  EvidenceInv' /\ SiteInv'
<1>0. HandlersInv /\ ReportsInv /\ FreshInv /\ PersistInv
  BY DEF EvidenceInv
<1>1. /\ DOMAIN at = Handler /\ DOMAIN at[h] = Fields /\ at[h].pc = "persisting"
      /\ at[h].status = "none" /\ at[h].names # <<>> /\ at[h].names \in Seq(Name)
      /\ Good(at[h]) /\ Earned(at[h]) /\ OnDisk(at[h], DOMAIN files)
  BY <1>0 DEF HandlersInv, Good, PersistArtifact
<1>2. PICK n \in DOMAIN begun : n = at[h].n /\ n # 0
  BY <1>0, <1>1 DEF Good, HandlersInv
<1>3. PICK e \in Execution : e = begun[at[h].n] /\ e = begun[n] /\ e = executionOf(h)
  BY <1>1, <1>2 DEF Good, JourneyPc, executionOf
<1>4. /\ 1 \in DOMAIN at[h].names /\ Head(at[h].names) = at[h].names[1]
      /\ Tail(at[h].names) \in Seq(Name)
      /\ \A k \in DOMAIN Tail(at[h].names) :
           k + 1 \in DOMAIN at[h].names /\ Tail(at[h].names)[k] = at[h].names[k + 1]
      /\ \A j \in DOMAIN at[h].names : j # 1 =>
           j - 1 \in DOMAIN Tail(at[h].names) /\ at[h].names[j] = Tail(at[h].names)[j - 1]
  BY <1>1
<1>5. PICK name \in Name : name = Head(at[h].names) /\ name = at[h].names[1]
  BY <1>1, <1>4
<1>6. <<e, name>> \in DOMAIN files
  BY <1>1, <1>3, <1>4, <1>5 DEF OnDisk, JourneyPc
<1>7. /\ UNCHANGED <<begun, files, rows, summaries, browserReports, refused, siteVars, runVars,
                     aborted>>
      /\ at' = [at EXCEPT ![h].names = Tail(@)]
  BY DEF PersistArtifact, runVars
<1>8. PICK a : /\ artifacts' = artifacts \cup {a} /\ a.n = n /\ a.location = <<e, name>>
               /\ a.sha256 = files[<<e, name>>]
  <2>1. artifacts' = artifacts \cup
          {[n |-> n, location |-> <<e, name>>, sha256 |-> files[<<e, name>>]]}
    BY <1>2, <1>3, <1>5 DEF PersistArtifact, location
  <2> DEFINE sha == files[<<e, name>>]
             new == [n |-> n, location |-> <<e, name>>, sha256 |-> sha]
  <2>2. artifacts' = artifacts \cup {new}
    BY <2>1
  <2> HIDE DEF sha
  <2>3. new.n = n /\ new.location = <<e, name>> /\ new.sha256 = sha
    OBVIOUS
  <2> HIDE DEF new
  <2>4. new.sha256 = files[<<e, name>>]
    BY <2>3 DEF sha
  <2> QED
    BY <2>2, <2>3, <2>4
<1>9. /\ Others(h) /\ DOMAIN at'[h] = Fields /\ at'[h].n = n /\ at'[h].i = at[h].i
      /\ at'[h].actions = at[h].actions /\ at'[h].error = at[h].error
      /\ at'[h].pc = "persisting" /\ at'[h].names = Tail(at[h].names) /\ at'[h].status = "none"
  BY <1>1, <1>2, <1>7 DEF Others, Fields
<1>10. HasArtifact(n, e, name)'
  BY <1>6, <1>7, <1>8 DEF HasArtifact
<1>11. \A m : \A f \in Execution, other \in Name : HasArtifact(m, f, other) => HasArtifact(m, f, other)'
  BY <1>7, <1>8 DEF HasArtifact
<1>12. HandlersInv'
  <2>1. Good(at'[h])
    BY <1>1, <1>2, <1>3, <1>4, <1>9 DEF Good, Pc, JourneyPc, Early
  <2>2. Earned(at'[h])
    BY <1>9 DEF Earned, Early
  <2>3. OnDisk(at'[h], DOMAIN files')
    BY <1>1, <1>2, <1>4, <1>7, <1>9 DEF OnDisk, JourneyPc
  <2> QED
    BY <1>0, <1>1, <1>2, <1>7, <1>9, <2>1, <2>2, <2>3, OwnHandler
<1>13. ReportsInv'
  BY <1>0, <1>7 DEF ReportsInv, AllPassed
<1>14. FreshInv'
  BY <1>0, <1>1, <1>2, <1>7, <1>9 DEF FreshInv, Others
<1>15. ASSUME Alone(n)
       PROVE  Persisting(h, begun[at[h].n])'
  <2>1. Persisting(h, e)
    BY <1>0, <1>1, <1>2, <1>3, <1>15 DEF PersistInv
  <2>2. /\ browserReports[e].n = n /\ RowsAre(browserReports[e])
        /\ summaries[e] = browserReports[e].status /\ browserReports[e].names \in Seq(Name)
    BY <1>0, <1>1, <1>2, <2>1 DEF Persisting, ReportsInv
  <2>3. RowsAre(browserReports[e])'
    BY <1>7, <2>2 DEF RowsAre
  <2>4. ASSUME NEW k \in DOMAIN browserReports[e].names
        PROVE  \/ \E j \in DOMAIN at'[h].names : at'[h].names[j] = browserReports[e].names[k]
               \/ HasArtifact(n, e, browserReports[e].names[k])'
    <3>1. PICK x \in Name : x = browserReports[e].names[k] /\ x = browserReports'[e].names[k]
      BY <1>7, <2>2
    <3>2. CASE HasArtifact(n, e, x)
      BY <1>11, <3>1, <3>2
    <3>3. CASE \E j \in DOMAIN at[h].names : at[h].names[j] = x
      <4>1. PICK j \in DOMAIN at[h].names : at[h].names[j] = x
        BY <3>3
      <4>2. CASE j = 1
        BY <1>5, <1>10, <3>1, <4>1, <4>2
      <4>3. CASE j # 1
        <5>1. j - 1 \in DOMAIN Tail(at[h].names) /\ at[h].names[j] = Tail(at[h].names)[j - 1]
          BY <1>4, <4>1, <4>3
        <5>2. j - 1 \in DOMAIN at'[h].names /\ at'[h].names[j - 1] = x
          BY <1>9, <4>1, <5>1
        <5> QED
          BY <3>1, <5>2
      <4> QED
        BY <4>2, <4>3
    <3> QED
      BY <1>1, <1>2, <2>1, <3>1, <3>2, <3>3 DEF Persisting
  <2>5. Persisting(h, e)'
    <3>1. \A k \in DOMAIN browserReports'[e].names :
            \/ \E j \in DOMAIN at'[h].names : at'[h].names[j] = browserReports'[e].names[k]
            \/ HasArtifact(at[h].n, e, browserReports[e].names[k])'
      BY <1>7, <1>9, <2>4
    <3> QED
      BY <1>7, <1>9, <2>2, <2>3, <3>1 DEF Persisting
  <2>6. (begun[at[h].n])' = e
    BY <1>2, <1>3, <1>7, <1>9
  <2> QED
    BY <2>5, <2>6
<1>16. PersistInv' /\ DoneInv'
  BY <1>2, <1>3, <1>7, <1>9, <1>11, <1>13, <1>15, OwnEvidence
<1>17. SiteInv'
  BY <1>7, <1>9, SiteUntouched
<1> QED
  BY <1>12, <1>13, <1>14, <1>16, <1>17 DEF EvidenceInv

-----------------------------------------------------------------------------
(* The theorems.                                                           *)

LEMMA InitInv ==
  ASSUME Init
  PROVE  SiteInv /\ EvidenceInv
<1>1. servers = <<>> /\ cleanups = <<>> /\ cleaning = <<>> /\ begun = <<>>
  BY DEF Init
<1>2. \A h \in Handler : at[h] = Idle
  BY DEF Init
<1>3. SiteInv
  <2>1. SiteTypes
    <3>1. Len(servers) = 0 /\ servers \in Seq(ServerState)
      BY <1>1
    <3>2. cleanups \in Seq(Nat) /\ cleaning \in Seq(Nat)
      BY <1>1
    <3>3. platformFailed \in BOOLEAN
      BY DEF Init
    <3>4. site = 0 /\ phase = "running"
      BY DEF Init
    <3> QED
      BY <3>1, <3>2, <3>3, <3>4 DEF SiteTypes
  <2>2. ForgottenInv /\ CleanupInv
    BY <1>1 DEF Init, ForgottenInv, CleanupInv
  <2>3. StartingInv
    BY <1>2, IdleFacts DEF Init, StartingInv
  <2> QED
    BY <2>1, <2>2, <2>3 DEF SiteInv
<1>4. HandlersInv
  <2>1. Idle.actions \in Seq(Action) /\ Idle.names \in Seq(Name) /\ Idle.i \in Nat
        /\ Idle.pc \in Pc /\ Idle.pc \notin JourneyPc
    BY IdleFacts DEF Pc, JourneyPc, Early
  <2>2. Idle.error \in BOOLEAN
    BY IdleFacts
  <2>3. \A h \in Handler : Good(at[h])
    BY <1>2, <2>1, <2>2, IdleFacts DEF Good
  <2>4. \A h \in Handler : Earned(at[h]) /\ OnDisk(at[h], DOMAIN files)
    BY <1>2, <2>1, IdleFacts DEF Earned, Early, OnDisk
  <2>5. begun \in Seq(Execution \cup {"site"}) /\ DOMAIN at = Handler
    BY <1>1 DEF Init
  <2> QED
    BY <1>2, <2>3, <2>4, <2>5, IdleFacts DEF HandlersInv
<1>5. \A e \in Execution : browserReports[e].n = 0
  BY DEF Init, NoReport
<1>6. ReportsInv
  BY <1>5 DEF ReportsInv, Init
<1>7. FreshInv /\ PersistInv
  BY <1>2, IdleFacts DEF FreshInv, PersistInv, Init
<1>8. DoneInv
  BY <1>5 DEF DoneInv
<1> QED
  BY <1>3, <1>4, <1>6, <1>7, <1>8 DEF EvidenceInv

\* A step of the site, of the cleanups or of nobody leaves the evidence alone.
LEMMA EvidenceUntouched ==
  ASSUME EvidenceInv, UNCHANGED <<at, files, evidence, begun>>
  PROVE  EvidenceInv'
<1>1. UNCHANGED <<rows, summaries, artifacts, browserReports, refused>>
  BY DEF evidence
<1>2. HandlersInv' /\ ReportsInv' /\ FreshInv'
  BY <1>1 DEF EvidenceInv, HandlersInv, ReportsInv, FreshInv, Good, Earned, OnDisk, AllPassed
<1>3. PersistInv'
  <2>1. SUFFICES ASSUME NEW g \in Handler, at'[g].pc = "persisting", Alone(at[g].n)'
                 PROVE  Persisting(g, begun[at[g].n])'
    BY DEF PersistInv
  <2>2. PICK e \in Execution : e = begun[at[g].n] /\ e = begun'[at'[g].n]
    BY <2>1 DEF EvidenceInv, HandlersInv, Good, JourneyPc
  <2>3. Persisting(g, e) /\ at[g].n # 0
    BY <2>1, <2>2 DEF EvidenceInv, PersistInv, HandlersInv, Good, Alone
  <2>4. EvidenceKept(at[g].n, e)
    BY <1>1 DEF EvidenceKept, HasArtifact
  <2>5. Persisting(g, e)'
    BY <2>3, <2>4, PersistKept DEF EvidenceInv
  <2> QED
    BY <2>2, <2>5
<1>4. DoneInv'
  <2>1. SUFFICES ASSUME NEW e \in Execution, browserReports'[e].n # 0, Alone(browserReports[e].n)',
                        Gone(browserReports[e].n)', browserReports'[e].n \notin refused'
                 PROVE  Whole(e)'
    BY DEF DoneInv
  <2>2. browserReports[e].n # 0 /\ Whole(e)
    BY <1>1, <2>1 DEF EvidenceInv, DoneInv, Alone, Gone
  <2>3. EvidenceKept(browserReports[e].n, e)
    BY <1>1 DEF EvidenceKept, HasArtifact
  <2> QED
    BY <2>2, <2>3, WholeKept DEF EvidenceInv
<1> QED
  BY <1>2, <1>3, <1>4 DEF EvidenceInv

LEMMA HandlersEndHolds ==
  ASSUME EvidenceInv, SiteInv, NEW h \in Handler,
         SiteLeased(h) \/ SiteLeaseFails(h) \/ SiteReturned(h) \/ PersistFails(h) \/ Returned(h)
  PROVE  EvidenceInv' /\ SiteInv'
<1>0. HandlersInv
  BY DEF EvidenceInv
<1>1. Ends(h) /\ UNCHANGED begun
  BY DEF SiteLeased, SiteLeaseFails, SiteReturned, PersistFails, Returned, runnerOnly, runVars
<1>2. Others(h) /\ at'[h] = Idle /\ aborted' = aborted \ {h}
  BY <1>0, <1>1, EndsChange
<1>3. at'[h].pc = "idle" /\ at'[h].n = 0
  BY <1>2, IdleFacts
<1>4. CASE SiteLeased(h) \/ SiteLeaseFails(h) \/ SiteReturned(h)
  <2>1. /\ at[h].pc \notin {"idle", "persisting"}
        /\ UNCHANGED <<begun, files, rows, summaries, artifacts, browserReports, refused>>
    BY <1>4 DEF SiteLeased, SiteLeaseFails, SiteReturned, runnerOnly, evidence, runVars
  <2>2. EvidenceInv'
    BY <1>2, <2>1, HandlerEnds
  <2>3. CASE SiteLeased(h)
    BY <1>0, <2>2, <2>3, SiteIsLeased
  <2>4. CASE SiteLeaseFails(h) \/ SiteReturned(h)
    <3>1. UNCHANGED <<siteVars, runVars>>
      BY <2>4 DEF SiteLeaseFails, SiteReturned, runnerOnly
    <3> QED
      BY <1>2, <1>3, <2>2, <3>1, SiteUntouched
  <2> QED
    BY <1>4, <2>3, <2>4
<1>5. CASE PersistFails(h)
  <2>1. /\ UNCHANGED <<begun, files, summaries, artifacts, browserReports, siteVars, runVars>>
        /\ at[h].pc = "persisting" /\ refused' = refused \cup {at[h].n}
        /\ IF at[h].status = "none" THEN UNCHANGED rows
           ELSE \E k \in 0..Len(at[h].actions) : rows' = rows \cup rowsOf(h, k)
    BY <1>5 DEF PersistFails, runVars
  <2>2. rows \subseteq rows' /\ \A row \in rows' : row \in rows \/ row.n = at[h].n
    <3>1. \A k : \A row \in rowsOf(h, k) : row.n = at[h].n
      BY DEF rowsOf
    <3> QED
      BY <2>1, <3>1
  <2>3. EvidenceInv'
    BY <1>2, <2>1, <2>2, HandlerEnds
  <2> QED
    BY <1>2, <1>3, <2>1, <2>3, SiteUntouched
<1>6. CASE Returned(h)
  <2>1. /\ UNCHANGED <<begun, files, rows, summaries, artifacts, browserReports, refused>>
        /\ UNCHANGED <<siteVars, runVars>>
        /\ at[h].pc = "persisting" /\ at[h].status = "none" /\ at[h].names = <<>>
    BY <1>6 DEF Returned, evidence, runVars
  <2>2. EvidenceInv'
    BY <1>2, <2>1, HandlerEnds
  <2> QED
    BY <1>2, <1>3, <2>1, <2>2, SiteUntouched
<1> QED
  BY <1>4, <1>5, <1>6

LEMMA BeginningHolds ==
  ASSUME EvidenceInv, SiteInv, NEW h \in Handler,
         StartSite(h) \/ \E e \in Execution : RunJourney(h, e)
  PROVE  EvidenceInv' /\ SiteInv'
<1>0. HandlersInv
  BY DEF EvidenceInv
<1>1. CASE StartSite(h)
  <2>1. PICK pc \in {"starting", "leasing", "returning"} :
          Begins(h, "site", pc) /\ (pc = "starting" => site = 0)
    BY <1>1 DEF StartSite
  <2>2. PICK what \in {"site"} : Begins(h, what, pc)
    BY <2>1
  <2>3. \A g \in Handler : at[g].pc # "starting"
    BY <1>1 DEF StartSite
  <2>4. EvidenceInv'
    BY <2>1, <2>2, HandlerBegins
  <2>5. SiteInv'
    BY <1>0, <2>1, <2>2, <2>3, SiteBegins
  <2> QED
    BY <2>4, <2>5
<1>2. CASE \E e \in Execution : RunJourney(h, e)
  <2>1. PICK e \in Execution : Begins(h, e, "workspace")
    BY <1>2 DEF RunJourney
  <2>2. PICK pc \in {"workspace"} : Begins(h, e, pc)
    BY <2>1
  <2>3. EvidenceInv'
    BY <2>2, HandlerBegins
  <2>4. SiteInv'
    BY <1>0, <2>2, SiteBegins
  <2> QED
    BY <2>3, <2>4
<1> QED
  BY <1>1, <1>2

LEMMA NextInv ==
  ASSUME SiteInv /\ EvidenceInv, [Next]_vars
  PROVE  SiteInv' /\ EvidenceInv'
<1>0. HandlersInv
  BY DEF EvidenceInv
<1>1. CASE UNCHANGED vars
  <2>1. UNCHANGED <<at, aborted, files, begun, evidence, siteVars, runVars>>
    BY <1>1 DEF vars, runVars
  <2>2. SiteTypes' /\ ForgottenInv' /\ CleanupInv' /\ StartingInv'
    BY <2>1 DEF SiteInv, SiteTypes, ForgottenInv, CleanupInv, StartingInv, siteVars, runVars
  <2> QED
    BY <2>1, <2>2, EvidenceUntouched DEF SiteInv
<1>2. CASE Answer
  <2>1. UNCHANGED <<at, aborted, files, begun, evidence, servers, site, cleanups, runVars>>
    BY <1>2 DEF Answer, runnerOnly, runVars
  <2>2. SiteTypes' /\ ForgottenInv' /\ CleanupInv' /\ StartingInv'
    BY <2>1 DEF SiteInv, SiteTypes, ForgottenInv, CleanupInv, StartingInv, runVars
  <2> QED
    BY <2>1, <2>2, EvidenceUntouched DEF SiteInv
<1>3. CASE BeginCleanup \/ StopSite \/ SiteStopped \/ CleanState \/ EndCleanup
  <2>1. UNCHANGED <<at, files, evidence, begun>>
    BY <1>3 DEF BeginCleanup, StopSite, SiteStopped, CleanState, EndCleanup, atRest
  <2> QED
    BY <1>0, <1>3, <2>1, EvidenceUntouched, SiteCleanup, SiteStops, SiteHasStopped, StateIsCleaned
<1>4. ASSUME NEW h \in Handler,
             \/ StartSite(h) \/ SiteUp(h) \/ SiteLeased(h) \/ SiteLeaseFails(h) \/ SiteReturned(h)
             \/ Abandon(h) \/ OpenFails(h) \/ TimerFires(h) \/ PersistFails(h)
             \/ Launch(h) \/ Opened(h) \/ SetUp(h) \/ Finally(h) \/ Report(h)
             \/ PersistRecords(h) \/ PersistArtifact(h) \/ Returned(h)
             \/ \E ok \in BOOLEAN : StepEnds(h, ok)
             \/ \E e \in Execution : RunJourney(h, e)
      PROVE  SiteInv' /\ EvidenceInv'
  <2>1. CASE StartSite(h) \/ \E e \in Execution : RunJourney(h, e)
    BY <2>1, BeginningHolds
  <2>2. CASE SiteUp(h)
    BY <2>2, SiteUpHolds
  <2>3. CASE SiteLeased(h) \/ SiteLeaseFails(h) \/ SiteReturned(h) \/ PersistFails(h) \/ Returned(h)
    BY <2>3, HandlersEndHolds
  <2>4. CASE Abandon(h)
    BY <2>4, AbandonHolds
  <2>5. CASE Launch(h) \/ Opened(h) \/ OpenFails(h)
    BY <2>5, OpeningHolds
  <2>6. CASE TimerFires(h)
    BY <2>6, TimerHolds
  <2>7. CASE SetUp(h)
    BY <2>7, SetUpHolds
  <2>8. CASE Finally(h)
    BY <2>8, FinallyHolds
  <2>9. CASE Report(h)
    BY <2>9, ReportHolds
  <2>10. CASE PersistRecords(h)
    BY <2>10, PersistRecordsHolds
  <2>11. CASE PersistArtifact(h)
    BY <2>11, PersistArtifactHolds
  <2>12. CASE \E ok \in BOOLEAN : StepEnds(h, ok)
    BY <2>12, StepEndsHolds
  <2> QED
    BY <1>4, <2>1, <2>2, <2>3, <2>4, <2>5, <2>6, <2>7, <2>8, <2>9, <2>10, <2>11, <2>12
<1> QED
  BY <1>1, <1>2, <1>3, <1>4 DEF Next

\* What both theorems rest on holds in every reachable state.
THEOREM InvCorrect == FairSpec => [](SiteInv /\ EvidenceInv)
<1>1. Init => SiteInv /\ EvidenceInv
  BY InitInv
<1>2. (SiteInv /\ EvidenceInv) /\ [Next]_vars => (SiteInv /\ EvidenceInv)'
  BY NextInv
<1> QED
  BY <1>1, <1>2, PTL DEF FairSpec, Spec

\* A site that still listens when the run is over was reported: the cleanup of the platform
\* state, which is registered first and runs last, fails for a site that RunState still holds.
THEOREM LeakIsReportedCorrect == FairSpec => []LeakIsReported
<1>1. SiteInv => LeakIsReported
  BY DEF SiteInv, ForgottenInv, CleanupInv, LeakIsReported
<1> QED
  BY <1>1, InvCorrect, PTL

\* An execution that was run once is the only one of its name.
LEMMA RanOnceAlone ==
  ASSUME HandlersInv, NEW e, ranOnce(e), NEW n \in DOMAIN begun, begun[n] = e
  PROVE  Alone(n)
<1> DEFINE S == {m \in DOMAIN begun : begun[m] = e}
<1>1. DOMAIN begun = 1..Len(begun) /\ Len(begun) \in Nat
  BY DEF HandlersInv
<1>2. IsFiniteSet(DOMAIN begun)
  BY <1>1, FS_Interval
<1>3. IsFiniteSet(S)
  BY <1>2, FS_Subset
<1>4. PICK x : S = {x}
  BY <1>3, FS_Singleton DEF ranOnce
<1> QED
  BY <1>4 DEF Alone

\* The evidence of an execution that was run once, and whose writes were not refused, is whole:
\* the records, the summary and the artifacts are those of its report, and a summary that says
\* passed stands for a journey all of whose steps passed.
THEOREM EvidenceIsWholeCorrect == FairSpec => []EvidenceIsWhole
<1>1. EvidenceInv => EvidenceIsWhole
  <2>1. SUFFICES ASSUME EvidenceInv, NEW e \in Execution, browserReports[e].n # 0, ranOnce(e),
                        ~ \E h \in Handler : at[h].n = browserReports[e].n,
                        browserReports[e].n \notin refused
                 PROVE
      LET report == browserReports[e]
      IN /\ {<<row.k, row.id, row.ok>> : row \in {row \in rows : row.n = report.n}}
              = {<<k, report.actions[k].id, report.actions[k].ok>> : k \in DOMAIN report.actions}
         /\ summaries[e] = report.status
         /\ report.status = "passed" => /\ Len(report.actions) = Len(Steps[e])
                                        /\ \A k \in DOMAIN report.actions : report.actions[k].ok
         /\ \A name \in Range(report.names) :
              \E a \in artifacts : /\ a.n = report.n /\ a.location[2] = name
                                   /\ files[a.location] = a.sha256
    BY DEF EvidenceIsWhole
  <2> DEFINE report == browserReports[e]
  <2>2. report.n \in DOMAIN begun /\ begun[report.n] = e /\ HandlersInv
    BY <2>1 DEF EvidenceInv, ReportsInv
  <2>3. Alone(report.n) /\ Gone(report.n)
    BY <2>1, <2>2, RanOnceAlone DEF Gone
  <2>4. Whole(e)
    BY <2>1, <2>3 DEF EvidenceInv, DoneInv
  <2>5. report.status = "passed" => /\ Len(report.actions) = Len(Steps[e])
                                    /\ \A k \in DOMAIN report.actions : report.actions[k].ok
    BY <2>1 DEF EvidenceInv, ReportsInv, AllPassed
  <2>6. {<<row.k, row.id, row.ok>> : row \in {row \in rows : row.n = report.n}}
          = {<<k, report.actions[k].id, report.actions[k].ok>> : k \in DOMAIN report.actions}
    <3> DEFINE R == {row \in rows : row.n = report.n}
               record(j) == [n |-> report.n, k |-> j, id |-> report.actions[j].id,
                             ok |-> report.actions[j].ok]
    <3>1. R = {record(j) : j \in DOMAIN report.actions}
      BY <2>4 DEF Whole, RowsAre
    <3>2. \A j : /\ record(j).k = j /\ record(j).id = report.actions[j].id
                 /\ record(j).ok = report.actions[j].ok
      OBVIOUS
    <3> HIDE DEF R, record
    <3>3. {<<row.k, row.id, row.ok>> : row \in R} =
            {<<record(j).k, record(j).id, record(j).ok>> : j \in DOMAIN report.actions}
      BY <3>1
    <3>4. {<<row.k, row.id, row.ok>> : row \in R} =
            {<<j, report.actions[j].id, report.actions[j].ok>> : j \in DOMAIN report.actions}
      BY <3>2, <3>3
    <3> QED
      BY <3>4 DEF R
  <2>7. ASSUME NEW name \in Range(report.names)
        PROVE  \E a \in artifacts : /\ a.n = report.n /\ a.location[2] = name
                                    /\ files[a.location] = a.sha256
    <3>1. PICK k \in DOMAIN report.names : name = report.names[k]
      BY <2>7 DEF Range
    <3>2. HasArtifact(report.n, e, name)
      BY <2>4, <3>1 DEF Whole
    <3> QED
      BY <3>2 DEF HasArtifact
  <2> QED
    BY <2>4, <2>5, <2>6, <2>7 DEF Whole
<1> QED
  BY <1>1, InvCorrect, PTL
=============================================================================
